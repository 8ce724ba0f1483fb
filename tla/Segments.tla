------------------------------ MODULE Segments ------------------------------
(***************************************************************************)
(* One utterance's audio: Engine::listen with the speech detector and the  *)
(* two gates (vad.rs), and the segments it cuts (engine.rs).               *)
(*                                                                         *)
(* Time is counted in windows of TICK_MS.  Capture goes on by itself, so   *)
(* one call of listen finds any number of windows, and the first one finds *)
(* the whole pre-roll.  A window is spoken or not; a position inside the   *)
(* audio is counted in half windows, as a cut lands in the middle of the   *)
(* pause it was made in.                                                   *)
(***************************************************************************)
EXTENDS Integers, Sequences, Listening

CONSTANTS
  Modes,       \* State::Recording.held: TRUE with a key held, else FALSE
  Preroll,     \* config.preroll_ms, in windows
  SilenceWin,  \* config.silence_ms, in windows
  PauseWin,    \* config.segment_pause_ms, in windows; 0 disables cutting
  MinVoiced,   \* config.min_segment_ms, in windows
  MaxWindows   \* bound: windows captured in all

\* One window of pause could be over before the detector has noticed it.
ASSUME WindowsAssumption ==
  /\ Modes \subseteq BOOLEAN
  /\ Preroll \in Nat
  /\ SilenceWin \in Nat \ {0}
  /\ PauseWin \in Nat \ {1}
  /\ MinVoiced \in Nat
  /\ MaxWindows \in Nat /\ Preroll <= MaxWindows

VARIABLES
  held,     \* whether the key is what ends this utterance
  preroll,  \* how much of the audio is older than the trigger
  spoken,   \* the audio captured: one BOOLEAN per window
  cursor,   \* windows handed to listen so far
  gates,    \* the detector and both gates
  segStart, \* seg_start, in half windows
  segs,     \* segments cut so far, with what cut_segment was told of each
  phase,    \* "recording" or "ended"
  endedAt,  \* where the silence gate first spoke, 0 before
  outcome   \* history: what the last listen concluded, and from what

vars == <<held, preroll, spoken, cursor, gates, segStart, segs, phase,
          endedAt, outcome>>

-----------------------------------------------------------------------------
(* The detector and the gates *)

\* SpeechDetector, external: an onset or an offset is believed once two
\* windows (0.1 s) agree on it.
Verdict(g, w) == IF g.last = w THEN w ELSE g.speech

\* SilenceGate::push
Trailing(ms, speech) == IF speech THEN 0 ELSE ms + 1

\* Mutant of SegPush: a quiet window forgets the speech before it.
SegPushForgets(g) ==
  [g EXCEPT !.quiet  = IF g.speech THEN 0 ELSE @ + 1,
            !.voiced = IF g.speech THEN @ + 1 ELSE 0]

\* SegmentGate::push, up to the question whether this ends the segment
SegPush(g) ==
  [g EXCEPT !.quiet  = IF g.speech THEN 0 ELSE @ + 1,
            !.voiced = IF g.speech THEN @ + 1 ELSE @]

\* Mutant of Fires: one window late.
FiresLate(g) == PauseWin # 0 /\ g.quiet > PauseWin /\ g.voiced >= MinVoiced

Fires(g) == PauseWin # 0 /\ g.quiet >= PauseWin /\ g.voiced >= MinVoiced

\* Mutant of Fresh: a new segment starts with the old one's speech.
FreshKeepsVoiced(g) == [g EXCEPT !.quiet = 0]

\* SegmentGate::reset
Fresh(g) == [g EXCEPT !.quiet = 0, !.voiced = 0]

\* Mutant of Back: the cut lands at the end of the window.
BackNowhere(g) == 0

\* back_ms in half windows: the middle of the pause.
Back(g) == g.quiet

-----------------------------------------------------------------------------
(* listen: the state it works on, window by window *)

Later(a, b) == IF a > b THEN a ELSE b

\* cut_segment
CutAt(s, end, speech) ==
  [s EXCEPT !.segs  = Append(@, [from |-> s.start, to |-> end, speech |-> speech]),
            !.start = end,
            !.gates = Fresh(@)]

\* One window in both gates.
Judged(s, w) ==
  LET speech == Verdict(s.gates, w)
      heard  == [s.gates EXCEPT !.last = w, !.speech = speech,
                                !.elapsed = Trailing(@, speech)]
  IN  [s EXCEPT !.pos = @ + 1, !.gates = SegPush(heard)]

\* One turn of the loop.  The silence gate's verdict returns at once, and a
\* cut the segment gate reports in the same window goes with it.
Judge(s, w) ==
  LET j    == Judged(s, w)
      over == j.gates.elapsed >= SilenceWin
      cut  == Fires(j.gates)
  IN  CASE s.over              -> s
        [] ~s.over /\ over     -> [j EXCEPT !.over = TRUE,
                                            !.gates = IF cut THEN Fresh(@) ELSE @]
        [] ~s.over /\ ~over /\ ~cut -> j
        [] ~s.over /\ ~over /\ cut  ->
             CutAt(j, Later(2 * j.pos - Back(j.gates), j.start), j.gates.voiced > 0)

Here == [pos |-> cursor, gates |-> gates, start |-> segStart, segs |-> segs,
         over |-> FALSE]

\* listen when audio is all that was captured.  The cursor moves to its end
\* even where the loop was left early, at pos.
Listen(s, audio) ==
  LET run[n \in 0..Len(audio) - s.pos] ==
        IF n = 0 THEN [s EXCEPT !.over = FALSE] ELSE Judge(run[n - 1], audio[s.pos + n])
  IN  run[Len(audio) - s.pos]

\* What the state machine makes of it: see Listening.
Conclusion(s, r, audio) ==
  [cuts   |-> [i \in 1..Len(r.segs) - Len(s.segs) |-> r.segs[Len(s.segs) + i].speech],
   over   |-> r.over,
   fed    |-> IF r.over \/ s.pos = Len(audio) THEN 0 ELSE 1,
   voiced |-> r.gates.voiced > 0]

\* The first position the silence gate spoke at.
Noted(r) == IF endedAt = 0 /\ r.over THEN r.pos ELSE endedAt

-----------------------------------------------------------------------------
(* The utterance *)

\* PipeWire delivers a window.
Captured(w) ==
  /\ phase = "recording"
  /\ Len(spoken) < MaxWindows
  /\ spoken' = Append(spoken, w)
  /\ UNCHANGED <<held, preroll, cursor, gates, segStart, segs, phase, endedAt,
                 outcome>>

\* Mutant of TailEnd: the tail ends one window after the cursor.
TailEndBeyond(audio) == 2 * Len(audio) + 2

\* The tail ends at the cursor.
TailEnd(audio) == 2 * Len(audio)

\* finish_recording, after s: what was captured since is judged, whatever it
\* says, and what is left becomes the last segment.
Finish(s, audio) ==
  LET r == Listen(s, audio)
      t == CutAt(r, TailEnd(audio), r.gates.voiced > 0)
  IN  /\ cursor' = Len(audio)
      /\ gates' = t.gates
      /\ segStart' = t.start
      /\ segs' = t.segs
      /\ phase' = "ended"
      /\ outcome' = [before |-> s.gates.voiced > 0,
                     after |-> Conclusion(s, r, audio)]

\* on_tick while the utterance goes on
Tick ==
  /\ phase = "recording"
  /\ cursor < Len(spoken)
  /\ LET r == Listen(Here, spoken)
     IN  /\ ~r.over \/ held
         /\ cursor' = Len(spoken)
         /\ gates' = r.gates
         /\ segStart' = r.start
         /\ segs' = r.segs
         /\ endedAt' = Noted(r)
         /\ outcome' = [before |-> gates.voiced > 0,
                        after |-> Conclusion(Here, r, spoken)]
  /\ UNCHANGED <<held, preroll, spoken, phase>>

\* on_tick when silence ends it.  finish_recording listens once more, to
\* whatever was captured in between.
SilenceEnds ==
  /\ phase = "recording"
  /\ ~held
  /\ \E more \in {<<>>, <<FALSE>>, <<TRUE>>} :
       LET r == Listen(Here, spoken)
       IN  /\ r.over
           /\ Len(spoken) + Len(more) <= MaxWindows
           /\ spoken' = spoken \o more
           /\ endedAt' = Noted(r)
           /\ Finish([r EXCEPT !.pos = Len(spoken)], spoken')
  /\ UNCHANGED <<held, preroll>>

\* finish_recording for any other reason: release, Stop, the length cap
Release ==
  /\ phase = "recording"
  /\ Finish(Here, spoken)
  /\ endedAt' = Noted(Listen(Here, spoken))
  /\ UNCHANGED <<held, preroll, spoken>>

\* start_recording, with as much pre-roll as the ring holds
Init ==
  /\ held \in Modes
  /\ preroll \in 0..Preroll
  /\ spoken \in [1..preroll -> BOOLEAN]
  /\ cursor = 0
  /\ gates = [last |-> FALSE, speech |-> FALSE, elapsed |-> 0, quiet |-> 0,
              voiced |-> 0]
  /\ segStart = 0
  /\ segs = <<>>
  /\ phase = "recording"
  /\ endedAt = 0
  /\ outcome = [before |-> FALSE,
                after |-> [cuts |-> <<>>, over |-> FALSE, fed |-> 0,
                           voiced |-> FALSE]]

Next == (\E w \in BOOLEAN : Captured(w)) \/ Tick \/ SilenceEnds \/ Release

Spec == Init /\ [][Next]_vars

-----------------------------------------------------------------------------
(* Properties *)

\* Every variable keeps its type.
TypeOK ==
  /\ held \in BOOLEAN /\ phase \in {"recording", "ended"}
  /\ preroll \in 0..Preroll
  /\ spoken \in Seq(BOOLEAN) /\ Len(spoken) <= MaxWindows
  /\ cursor \in 0..Len(spoken) /\ endedAt \in 0..Len(spoken)
  /\ segStart \in 0..2 * cursor
  /\ gates \in [last: BOOLEAN, speech: BOOLEAN, elapsed: Nat, quiet: Nat,
                voiced: Nat]
  /\ segs \in Seq([from: Nat, to: Nat, speech: BOOLEAN])

\* A word is a run of spoken windows, long enough for the detector to hear.
Words ==
  {word \in (1..Len(spoken)) \X (1..Len(spoken)) :
     /\ word[1] < word[2]
     /\ \A w \in word[1]..word[2] : spoken[w]
     /\ word[1] = 1 \/ ~spoken[word[1] - 1]
     /\ word[2] = Len(spoken) \/ ~spoken[word[2] + 1]}

\* Window w is in the audio the offline model is given.
Decoded(w) ==
  \E i \in DOMAIN segs : /\ segs[i].speech
                         /\ segs[i].from <= 2 * (w - 1)
                         /\ 2 * w <= segs[i].to

\* A cut never lands inside a word, although the detector hears the start of
\* one late (vad.rs, Cut: "Cutting at the end of the window took the "It is"
\* off "It is certainly"").  The last segment ends where the user let go.
NoWordSplit ==
  \A i \in DOMAIN segs : \A word \in Words :
    (phase = "recording" \/ i < Len(segs)) =>
      ~(2 * (word[1] - 1) < segs[i].to /\ segs[i].to < 2 * word[2])

\* What was said before silence ended the utterance reaches the offline
\* model, whichever calls of listen it was spread over and wherever they cut
\* (engine.rs, finish_recording: "Everything before the last pause is already
\* decoded or decoding").  Not so when both pauses are over in one window.
WordsAreDecoded ==
  (phase = "ended" /\ ~held) =>
    \A word \in Words :
      (endedAt = 0 \/ word[2] <= endedAt) => \A w \in word[1]..word[2] : Decoded(w)

\* The offline model is never given audio nobody speaks in: alone, that comes
\* back as "Yeah." (vad.rs, cut_segment).  A segment that is decoded holds at
\* least as much speech as it takes the detector to believe it.
NoNoiseDecoded ==
  \A i \in DOMAIN segs : segs[i].speech =>
    \E w, v \in 1..Len(spoken) :
      /\ w < v /\ spoken[w] /\ spoken[v]
      /\ segs[i].from < 2 * w /\ 2 * (v - 1) < segs[i].to

\* No call of listen concludes anything module Engine does not reckon with.
ConcludesAsAssumed ==
  outcome.after \in Outcomes(outcome.before, MaxWindows)

-----------------------------------------------------------------------------
(* What the repository says and the code does not do: see README *)

\* config.rs, silence_ms: "Trailing silence that ends an utterance".  The
\* silence before the trigger does, with the pre-roll longer than silence_ms.
SilenceIsTrailing == (endedAt # 0 /\ ~held) => endedAt > preroll

=============================================================================
