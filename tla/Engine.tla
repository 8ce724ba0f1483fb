------------------------------- MODULE Engine -------------------------------
(***************************************************************************)
(* The dictation engine (engine.rs) with its two recogniser threads        *)
(* (asr.rs).  The engine is one thread: every handler of its select loop   *)
(* is one action.  The recognisers are threads of their own behind FIFO    *)
(* channels, so their steps interleave with the engine's at will.          *)
(*                                                                         *)
(* The physical trigger and the commands are the environment here: any     *)
(* edge and any command may arrive at any time.  Trigger puts the real key *)
(* watcher and its channel in front of the same handlers.                  *)
(*                                                                         *)
(* Audio is abstracted to what one call of listen may conclude (Listening) *)
(* and module Segments models how it concludes it.                         *)
(***************************************************************************)
EXTENDS Integers, Sequences, Listening

CONSTANTS
  HoldToTalk,   \* config.hold_to_talk
  LoadMayFail,  \* whether a model may fail to load
  MaxSecs,      \* config.max_utterance_s
  MaxSeq,       \* bound: no utterance starts once utt.seq reaches it
  MaxCuts,      \* bound: segments cut at a pause, per utterance
  MaxBacklog    \* bound: chunks, and hypotheses, waiting in the streaming path

ASSUME ConfigAssumption ==
  /\ HoldToTalk \in BOOLEAN
  /\ LoadMayFail \in BOOLEAN
  /\ MaxSecs \in Nat \ {0}
  /\ MaxSeq \in Nat
  /\ MaxCuts \in Nat
  /\ MaxBacklog \in Nat

VARIABLES
  state,      \* State: Idle, Recording{held}, Recording{!held}, Transcribing
  enabled,    \* whether the trigger is armed
  rebinding,  \* whether a rebind waits for a key press
  elapsed,    \* whole seconds of the current recording
  utt,        \* the current utterance: utt_seq and the seg_* fields
  voiced,     \* seg_gate.voiced_ms() > 0
  lastHyp,    \* last_hyp, with the utterances whose audio it was made from
  turn,       \* what the sink was last told: no turn, Begin, or a Partial
  shown,      \* snapshot.state: what a mirror that subscribes now is told
  running     \* FALSE once run() has returned

engineVars == <<state, enabled, rebinding, elapsed, utt, voiced, lastHyp,
                turn, shown, running>>

VARIABLES
  models,     \* how far each recogniser thread got with loading its model
  notices,    \* each thread's Ready or LoadFailed, until the engine takes it
  segments,   \* segments dispatched and not filed yet, oldest first
  feeds,      \* commands waiting for the streaming thread
  decoder,    \* the utterances whose audio the streaming decoder has heard
  partials    \* hypotheses waiting for the engine

asrVars == <<models, notices, segments, feeds, decoder, partials>>

VARIABLE
  landed      \* history: the last text handed to the sink as final: whose it
              \* is, and the segments it was put together from

vars == <<engineVars, asrVars, landed>>

-----------------------------------------------------------------------------
(* Values *)

States    == {"Idle", "Held", "Open", "Transcribing"}
Recording == state \in {"Held", "Open"}

\* AsrEvent::Final carries a transcript, perhaps an empty one, or an error.
Answers == {"text", "empty", "error"}
Pending == "pending"

Threads == {"stream", "offline"}
Dead(t) == models[t] = "failed"

\* A hypothesis is the set of utterances whose audio it was made from.
NoHyp == {}

-----------------------------------------------------------------------------
(* The fields of an utterance *)

NewUtterance(n) ==
  [seq |-> n, sent |-> 0, wait |-> 0, last |-> FALSE, error |-> FALSE,
   heard |-> FALSE, texts |-> <<>>]

\* Mutants of Abandoned: the sequence number, or the wait count, survives.
AbandonedKeepsSeq(u)  == NewUtterance(u.seq)
AbandonedKeepsWait(u) == [NewUtterance(u.seq + 1) EXCEPT !.wait = u.wait]

\* abandon_utterance: a new sequence number makes what is in flight stale.
Abandoned(u) == NewUtterance(u.seq + 1)

\* Mutant of Filed: the newest text goes in front.
FiledInFront(u, s) ==
  [u EXCEPT !.wait  = IF @ = 0 THEN 0 ELSE @ - 1,
            !.error = @ \/ s.answer = "error",
            !.texts = IF s.answer = "text" THEN <<s.seg>> \o @ ELSE @]

\* on_segment: one answer comes off the count and onto the transcript.
Filed(u, s) ==
  [u EXCEPT !.wait  = IF @ = 0 THEN 0 ELSE @ - 1,
            !.error = @ \/ s.answer = "error",
            !.texts = IF s.answer = "text" THEN Append(@, s.seg) ELSE @]

\* Mutant of Whole: the last dispatch is taken for the last answer.
WholeAtLast(u) == u.last

\* The last segment has been dispatched and every one has answered.
Whole(u) == u.last /\ u.wait = 0

\* No speech anywhere, or nothing recognised: nothing to commit.
Silent(u) == ~u.heard \/ (u.texts = <<>> /\ lastHyp = NoHyp)

\* choose_final.  Without a hypothesis the offline text stands, without an
\* offline text the hypothesis; with both, which of them the script of the
\* speech decides.  The segments that the chosen text was made from.
Chosen(u) == {segs \in {u.texts, <<>>} :
                /\ lastHyp = NoHyp => segs = u.texts}

-----------------------------------------------------------------------------
(* Channels into the recogniser threads; a send to a dead thread is dropped *)

Send(cmds) == feeds' = IF Dead("stream") THEN feeds ELSE feeds \o cmds

Chunks(n) == [i \in 1..n |-> [cmd |-> "Feed", of |-> utt.seq]]

\* cut_segment, once per cut.
Dispatch(cuts, last) ==
  /\ utt' = [utt EXCEPT !.sent  = @ + Len(cuts),
                        !.wait  = @ + Len(cuts),
                        !.last  = IF cuts = <<>> THEN @ ELSE last,
                        !.heard = @ \/ \E i \in DOMAIN cuts : cuts[i]]
  /\ segments' =
       IF Dead("offline") THEN segments
       ELSE segments \o [i \in DOMAIN cuts |-> [seq    |-> utt.seq,
                                                seg    |-> utt.sent + i,
                                                answer |-> Pending]]

-----------------------------------------------------------------------------
(* Starting, listening, ending *)

StartRecording(s) ==
  /\ state = "Idle"
  /\ utt.seq < MaxSeq
  /\ utt' = Abandoned(utt)
  /\ elapsed' = 0
  /\ voiced' = FALSE
  /\ lastHyp' = NoHyp
  /\ Send(<<[cmd |-> "Reset", of |-> 0]>>)
  /\ turn' = "begun"
  /\ state' = s
  /\ shown' = "Recording"
  /\ UNCHANGED <<enabled, rebinding, running, models, notices, segments,
                 decoder, partials, landed>>

\* Mutant of FinalCuts: the tail without speech is skipped altogether.
FinalCutsVoiced(o) == IF o.voiced THEN Append(o.cuts, TRUE) ELSE o.cuts

\* finish_recording cuts the tail whether or not it carries speech.
FinalCuts(o) == Append(o.cuts, o.voiced)

\* finish_recording, o being everything listened to on the way.
Finish(o) ==
  /\ Dispatch(FinalCuts(o), TRUE)
  /\ Send(Chunks(o.fed))
  /\ voiced' = FALSE
  /\ state' = "Transcribing"
  /\ shown' = "Transcribing"
  /\ UNCHANGED <<enabled, rebinding, elapsed, lastHyp, turn, running, models,
                 notices, decoder, partials, landed>>

FinishRecording == \E o \in Outcomes(voiced, MaxCuts - utt.sent) : Finish(o)

\* Mutant of CapReached: the length cap is tested one second late.
CapReachedLate(secs) == secs > MaxSecs

CapReached(secs) == secs >= MaxSecs

\* on_tick at second secs, when neither end rule applies.
Listen(secs) ==
  /\ \E o \in Outcomes(voiced, MaxCuts - utt.sent) :
       /\ Len(feeds) + o.fed <= MaxBacklog
       /\ ~(o.over /\ state = "Open")
       /\ Dispatch(o.cuts, FALSE)
       /\ Send(Chunks(o.fed))
       /\ voiced' = o.voiced
  /\ ~CapReached(secs)
  /\ elapsed' = secs
  /\ shown' = IF secs = elapsed THEN shown ELSE "Recording"
  /\ UNCHANGED <<state, enabled, rebinding, lastHyp, turn, running, models,
                 notices, decoder, partials, landed>>

\* on_tick when silence (only without a key held) or the cap ends it.
TickFinishes(secs) ==
  \E o \in Outcomes(voiced, MaxCuts - utt.sent) :
  \E p \in Outcomes(o.voiced, MaxCuts - utt.sent - Len(o.cuts)) :
    /\ (o.over /\ state = "Open") \/ CapReached(secs)
    /\ Finish(Then(o, p))

\* on_tick: the clock is at second secs, this second or the next.
OnTick(secs) == Recording /\ (Listen(secs) \/ TickFinishes(secs))
Tick   == OnTick(elapsed)
Second == OnTick(elapsed + 1)

-----------------------------------------------------------------------------
(* Key edges: on_key *)

PressStarts ==
  /\ enabled
  /\ StartRecording(IF HoldToTalk THEN "Held" ELSE "Open")

PressStops   == enabled /\ state = "Open" /\ ~HoldToTalk /\ FinishRecording
ReleaseStops == enabled /\ state = "Held" /\ FinishRecording

(* Commands: on_command.  Start and Toggle, Stop and Toggle do the same in the
   states where they do anything. *)

Listening == enabled /\ ~rebinding

CommandStarts == Listening /\ StartRecording("Open")
CommandStops  == Listening /\ Recording /\ FinishRecording

\* cancel
Cancel ==
  /\ turn' = "none"
  /\ utt' = Abandoned(utt)
  /\ state' = "Idle"

CommandCancels ==
  /\ Listening
  /\ state # "Idle"
  /\ Cancel
  /\ shown' = "Idle"
  /\ UNCHANGED <<enabled, rebinding, elapsed, voiced, lastHyp, running,
                 asrVars, landed>>

\* set_enabled(false).  The bound keeps disarm / re-arm cycles finite.
Disable ==
  /\ enabled
  /\ state = "Idle" => utt.seq < MaxSeq
  /\ enabled' = FALSE
  /\ Cancel
  /\ shown' = "Disabled"
  /\ UNCHANGED <<rebinding, elapsed, voiced, lastHyp, running, asrVars,
                 landed>>

\* set_enabled(true)
Enable ==
  /\ ~enabled
  /\ enabled' = TRUE
  /\ shown' = "Idle"
  /\ UNCHANGED <<state, rebinding, elapsed, utt, voiced, lastHyp, turn,
                 running, asrVars, landed>>

\* start_rebind
StartRebind ==
  /\ ~rebinding
  /\ rebinding' = TRUE
  /\ \/ state # "Idle" /\ Cancel
     \/ state = "Idle" /\ UNCHANGED <<turn, utt, state>>
  /\ shown' = "Rebinding"
  /\ UNCHANGED <<enabled, elapsed, voiced, lastHyp, running, asrVars, landed>>

\* What Ready and a finished rebind report: armed or not, never the capture.
Resting == IF enabled THEN "Idle" ELSE "Disabled"

\* on_rebound, whether or not a key was chosen
OnRebound ==
  /\ rebinding' = FALSE
  /\ shown' = Resting
  /\ UNCHANGED <<state, enabled, elapsed, utt, voiced, lastHyp, turn, running,
                 asrVars, landed>>

-----------------------------------------------------------------------------
(* Recogniser output: on_asr.  All of it comes down one channel, in which each
   thread's events keep their order: first its notice, then its results. *)

OnNotice(t) ==
  /\ notices[t] # "none"
  /\ notices' = [notices EXCEPT ![t] = "none"]
  /\ shown' = IF notices[t] = "Ready" THEN Resting ELSE "Failed"
  /\ UNCHANGED <<state, enabled, rebinding, elapsed, utt, voiced, lastHyp,
                 turn, running, models, segments, feeds, decoder, partials,
                 landed>>

\* A hypothesis is shown and remembered while recording, dropped otherwise.
OnPartial ==
  /\ notices["stream"] = "none"
  /\ partials # <<>>
  /\ partials' = Tail(partials)
  /\ \/ Recording /\ lastHyp' = Head(partials) /\ turn' = "partial"
     \/ ~Recording /\ UNCHANGED <<lastHyp, turn>>
  /\ UNCHANGED <<state, enabled, rebinding, elapsed, utt, voiced, shown,
                 running, models, notices, segments, feeds, decoder, landed>>

Answered ==
  /\ notices["offline"] = "none"
  /\ segments # <<>>
  /\ Head(segments).answer # Pending

\* Mutant of Current: an answer is filed whoever it is for.
CurrentAnyway(s) == TRUE

Current(s) == s.seq = utt.seq

\* on_segment for an utterance nobody waits for any more.
DropAnswer ==
  /\ Answered
  /\ ~Current(Head(segments))
  /\ segments' = Tail(segments)
  /\ UNCHANGED <<engineVars, models, notices, feeds, decoder, partials,
                 landed>>

\* on_segment while others are out or the user is still speaking.
FileAnswer ==
  /\ Answered
  /\ Current(Head(segments))
  /\ LET u == Filed(utt, Head(segments))
     IN  ~Whole(u) /\ utt' = u
  /\ segments' = Tail(segments)
  /\ UNCHANGED <<state, enabled, rebinding, elapsed, voiced, lastHyp, turn,
                 shown, running, models, notices, feeds, decoder, partials,
                 landed>>

\* Mutant of Settled: back to rest without saying so.
SettledQuietly == state' = "Idle" /\ UNCHANGED shown

\* Every way an utterance ends emits Idle last.
Settled == state' = "Idle" /\ shown' = "Idle"

\* on_segment for the last answer: report the first error, or commit.
SettleUtterance ==
  /\ Answered
  /\ Current(Head(segments))
  /\ LET u == Filed(utt, Head(segments))
     IN  /\ Whole(u)
         /\ utt' = Abandoned(u)
         /\ \/ u.error /\ UNCHANGED <<turn, landed>>
            \/ ~u.error /\ Silent(u) /\ turn' = "none" /\ UNCHANGED landed
            \/ /\ ~u.error /\ ~Silent(u)
               /\ turn' = "none"
               /\ \E segs \in Chosen(u) :
                    landed' = [seq |-> u.seq, segs |-> segs]
  /\ Settled
  /\ segments' = Tail(segments)
  /\ UNCHANGED <<enabled, rebinding, elapsed, voiced, lastHyp, running, models,
                 notices, feeds, decoder, partials>>

\* asr_events.recv() is None once both threads are gone and all is read.
Bail ==
  /\ \A t \in Threads : Dead(t) /\ notices[t] = "none"
  /\ running' = FALSE
  /\ UNCHANGED <<state, enabled, rebinding, elapsed, utt, voiced, lastHyp,
                 turn, shown, asrVars, landed>>

-----------------------------------------------------------------------------
(* The recogniser threads *)

Other(t) == IF t = "stream" THEN "offline" ELSE "stream"

\* The second to load announces Ready.
Loaded(t) ==
  /\ models[t] = "loading"
  /\ models' = [models EXCEPT ![t] = "up"]
  /\ notices' = IF models[Other(t)] = "up"
                THEN [notices EXCEPT ![t] = "Ready"] ELSE notices
  /\ UNCHANGED <<engineVars, segments, feeds, decoder, partials, landed>>

\* A failed thread exits, and with it its command channel.
LoadFailed(t) ==
  /\ LoadMayFail
  /\ models[t] = "loading"
  /\ models' = [models EXCEPT ![t] = "failed"]
  /\ notices' = [notices EXCEPT ![t] = "LoadFailed"]
  /\ segments' = IF t = "offline" THEN <<>> ELSE segments
  /\ feeds' = IF t = "stream" THEN <<>> ELSE feeds
  /\ UNCHANGED <<engineVars, decoder, partials, landed>>

\* Mutant of Fresh: the decoder keeps the previous utterance's audio.
FreshKeeps(c) == decoder

\* StreamingRecognizer::reset
Fresh(c) == IF c.cmd = "Reset" THEN {} ELSE decoder

\* One command; a chunk changes the hypothesis or it does not.
StreamStep ==
  /\ models["stream"] = "up"
  /\ feeds # <<>>
  /\ feeds' = Tail(feeds)
  /\ LET c == Head(feeds)
     IN  \/ /\ c.cmd = "Reset"
            /\ decoder' = Fresh(c)
            /\ UNCHANGED partials
         \/ /\ c.cmd = "Feed"
            /\ decoder' = Fresh(c) \cup {c.of}
            /\ \/ UNCHANGED partials
               \/ /\ Len(partials) < MaxBacklog
                  /\ partials' = Append(partials, decoder')
  /\ UNCHANGED <<engineVars, models, notices, segments, landed>>

\* Mutant of NextOut: the newest segment is decoded first.
NextOutNewest(i) == \A j \in DOMAIN segments : j > i => segments[j].answer # Pending

\* Segment i is the next the offline thread takes.
NextOut(i) == \A j \in DOMAIN segments : j < i => segments[j].answer # Pending

\* One segment decoded; its answer joins the event channel.
OfflineStep ==
  /\ models["offline"] = "up"
  /\ \E i \in DOMAIN segments :
       /\ segments[i].answer = Pending
       /\ NextOut(i)
       /\ \E a \in Answers : segments' = [segments EXCEPT ![i].answer = a]
  /\ UNCHANGED <<engineVars, models, notices, feeds, decoder, partials,
                 landed>>

-----------------------------------------------------------------------------

Init ==
  /\ state = "Idle"
  /\ enabled = TRUE
  /\ rebinding = FALSE
  /\ elapsed = 0
  /\ utt = NewUtterance(0)
  /\ voiced = FALSE
  /\ lastHyp = NoHyp
  /\ turn = "none"
  /\ shown = "None"
  /\ running = TRUE
  /\ models = [t \in Threads |-> "loading"]
  /\ notices = [t \in Threads |-> "none"]
  /\ segments = <<>>
  /\ feeds = <<>>
  /\ decoder = {}
  /\ partials = <<>>
  /\ landed = [seq |-> 0, segs |-> <<>>]

Keys     == PressStarts \/ PressStops \/ ReleaseStops
Commands == \/ CommandStarts \/ CommandStops \/ CommandCancels
            \/ Disable \/ Enable \/ StartRebind
Results  == \/ OnPartial \/ DropAnswer \/ FileAnswer \/ SettleUtterance
            \/ \E t \in Threads : OnNotice(t)
Workers  == \/ StreamStep \/ OfflineStep
            \/ \E t \in Threads : Loaded(t) \/ LoadFailed(t)

Next ==
  \/ running /\ (Keys \/ Commands \/ (rebinding /\ OnRebound))
  \/ running /\ (Tick \/ Second \/ Results \/ Bail)
  \/ Workers

\* The recognisers are threads that always run; the select loop polls every
\* ready arm fairly; a ticking clock reaches the next second.  Users need not
\* press anything.
Fairness ==
  /\ WF_vars(running /\ Second)
  /\ WF_vars(running /\ Results)
  /\ WF_vars(StreamStep)
  /\ WF_vars(OfflineStep)
  /\ \A t \in Threads : WF_vars(Loaded(t) \/ LoadFailed(t))

Spec == Init /\ [][Next]_vars /\ Fairness

-----------------------------------------------------------------------------
(* Properties *)

Utterance == [seq: Nat, sent: Nat, wait: Nat, last: BOOLEAN, error: BOOLEAN,
              heard: BOOLEAN, texts: Seq(Nat)]
Segment == [seq: Nat, seg: Nat, answer: Answers \cup {Pending}]
Command == [cmd: {"Reset", "Feed"}, of: Nat]

\* Every variable keeps its type; the recording never outlives its cap.
TypeOK ==
  /\ state \in States
  /\ enabled \in BOOLEAN /\ rebinding \in BOOLEAN /\ running \in BOOLEAN
  /\ elapsed \in 0..MaxSecs - 1
  /\ utt \in Utterance
  /\ voiced \in BOOLEAN
  /\ lastHyp \in SUBSET Nat
  /\ turn \in {"none", "begun", "partial"}
  /\ shown \in {"None", "Idle", "Recording", "Transcribing", "Failed",
                "Disabled", "Rebinding"}
  /\ models \in [Threads -> {"loading", "up", "failed"}]
  /\ notices \in [Threads -> {"none", "Ready", "LoadFailed"}]
  /\ segments \in Seq(Segment)
  /\ feeds \in Seq(Command)
  /\ decoder \in SUBSET Nat
  /\ partials \in Seq(SUBSET Nat)
  /\ landed \in [seq: Nat, segs: Seq(Nat)]

\* seg_wait counts exactly the segments of the current utterance that are
\* still with the offline thread or on their way back: they are the last
\* seg_wait of all that are out, numbered on end, whatever was cancelled,
\* restarted or answered late in between (cut_segment, on_segment).
WaitCountsOutstanding ==
  ~Dead("offline") =>
    /\ utt.wait <= Len(segments)
    /\ \A i \in DOMAIN segments :
         /\ segments[i].seq = utt.seq <=> i > Len(segments) - utt.wait
         /\ segments[i].seq = utt.seq =>
              segments[i].seg = utt.sent - (Len(segments) - i)

\* The engine never waits for nothing: while Transcribing there is a segment
\* out whose answer will end it (unless the offline thread has died: then the
\* wait lasts until Cancel), and at rest there is none that could commit.
WaitingForSomething ==
  /\ state = "Transcribing" <=> utt.last
  /\ state = "Transcribing" => utt.wait > 0
  /\ state = "Idle" => utt.wait = 0 /\ utt.texts = <<>>

Ordered(texts) == \A i, j \in DOMAIN texts : i < j => texts[i] < texts[j]

\* What is committed is in the order the segments were spoken, although the
\* transcript arrives piecemeal, between pauses, ticks and stale answers
\* (on_segment).
InSpokenOrder == Ordered(landed.segs)

\* What makes the invariants above inductive: no answer is for an utterance to
\* come, a thread that is gone has taken its queue along, and what is on the
\* transcript is in order and was dispatched before all that is still out.
NoneFromTheFuture == \A i \in DOMAIN segments : segments[i].seq <= utt.seq
GoneWithItsQueue  == Dead("offline") => segments = <<>>
TextsInOrder      == Ordered(utt.texts)
FiledBeforeOut ==
  \A i \in DOMAIN utt.texts : utt.texts[i] + utt.wait <= utt.sent

Inv ==
  /\ TypeOK
  /\ WaitCountsOutstanding
  /\ WaitingForSomething
  /\ TextsInOrder
  /\ NoneFromTheFuture
  /\ GoneWithItsQueue
  /\ FiledBeforeOut

\* A mirror that subscribes while the engine rests is not told that it is
\* recording or transcribing: every way out of a capture publishes its end.
RestingIsShown == state = "Idle" => shown \notin {"Recording", "Transcribing"}

\* No hypothesis mixes two utterances: the Reset queued at the start is
\* processed before any chunk of the new one (asr.rs: "race-free").
HypothesesArePure == \A i \in DOMAIN partials : \E n \in 0..utt.seq : partials[i] = {n}

\* A commit leaves nothing of its utterance behind in the offline thread: the
\* text is whole when it is handed to the sink.
CommitsWholeUtterance ==
  [][landed' # landed =>
       \A i \in DOMAIN segments' : segments'[i].seq # utt.seq]_vars

\* Every recording ends, by release, silence, command or cap, and every
\* transcription after it: the engine comes back to rest.
ComesToRest == state # "Idle" ~> state = "Idle"

Promise == INSTANCE Utterances WITH
  phase  <- CASE state = "Idle" -> "idle"
              [] state = "Transcribing" -> "transcribing"
              [] OTHER -> "recording",
  id     <- utt.seq,
  landed <- landed.seq

\* The engine keeps the promise of Utterances.
ImplementsPromise == Promise!Spec

-----------------------------------------------------------------------------
(* What the repository says and the code does not do: see README *)

\* engine.rs, last_hyp: "The streaming model's latest hypothesis this
\* utterance."  It may be the previous one's.
LastHypIsThisUtterances == Recording => lastHyp \subseteq {utt.seq}

=============================================================================
