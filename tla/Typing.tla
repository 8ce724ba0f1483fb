------------------------------- MODULE Typing ---------------------------------
(***************************************************************************)
(* Live text where there is no preedit: with fallback_partials StreamOnly  *)
(* the engine types what its last hypotheses agree on and stands behind it *)
(* (engine.rs show_partial, commit), through keymaps it synthesises for    *)
(* the characters at hand (inject.rs type_text).                           *)
(*                                                                         *)
(* Characters are few and so is the room in a keymap.  The engine's thread *)
(* waits for the compositor after a keymap and after a segment's keys;     *)
(* meanwhile focus may move.  Compositor, focus and recogniser are         *)
(* external.  The word separator is "_".                                   *)
(***************************************************************************)
EXTENDS Integers, Sequences, FiniteSets, SequencesExt, FiniteSetsExt

CONSTANTS
  Hypotheses, \* what the streaming model may say
  Finals,     \* what is committed in the end
  Window,     \* stability_frames + 1
  Budget,     \* KEYMAP_BUDGET: distinct characters of a segment
  Room,       \* keycodes a keymap has
  MaxUtts, MaxHyps \* bounds: utterances, hypotheses of one

TypingBounds ==
  /\ Window \in Nat \ {0} /\ Room \in Nat /\ Budget \in 1..Room
  /\ MaxUtts \in Nat /\ MaxHyps \in Nat
  /\ \A text \in Hypotheses \union Finals : text \in Seq(Range(text))

VARIABLES
  speaking,   \* whether an utterance is being recorded
  hyps,       \* recent hypotheses, oldest first
  vkTyped,    \* what of them has been typed
  job,        \* type_text: what for, all of its text, what is left of it, where in the
              \* first segment of that
  sent,       \* requests the compositor has not handled
  keymap,     \* the virtual keyboard's, as installed: the character of each code
  inField,    \* whether the focused window takes a preedit
  cut,        \* whether the connection is gone
  landed,     \* history: the characters that reached an application, this utterance's
  outcome,    \* of the utterance before: its text, and whether it was reported injected,
              \* and through the input method
  utts, said  \* counters for the bounds

tvars == <<speaking, hyps, vkTyped, job, sent, keymap, inField, cut, landed, outcome, utts, said>>

NoJob     == [for |-> "none", text |-> <<>>, left |-> <<>>, at |-> "keymap"]
NoOutcome == [text |-> <<>>, injected |-> FALSE, byIm |-> FALSE]

TypeOK ==
  /\ Len(hyps) <= Window
  /\ job.for \in {"none", "prefix", "final"} /\ job.at \in {"keymap", "keymapSent", "keysSent"}
  /\ job.for # "none" => job.left # <<>>
  /\ {speaking, inField, cut} \subseteq BOOLEAN
  /\ sent # <<>> => job.for # "none"
  /\ DOMAIN keymap \subseteq 1..Room

Init ==
  /\ speaking = FALSE /\ hyps = <<>> /\ vkTyped = <<>>
  /\ job = NoJob /\ sent = <<>> /\ keymap = <<>>
  /\ inField = FALSE /\ cut = FALSE
  /\ landed = <<>> /\ outcome = NoOutcome /\ utts = 0 /\ said = 0

-----------------------------------------------------------------------------
(* Texts *)

\* common_prefix_len.
Common(a, b) == Max({n \in 0..Len(a) : n <= Len(b) /\ SubSeq(a, 1, n) = SubSeq(b, 1, n)})

\* What every hypothesis in the window agrees on, up to the end of a word.
Stable(q) ==
  LET len  == Min({Len(q[1])} \union {Common(q[i], q[i + 1]) : i \in 1..Len(q) - 1})
      ends == {i \in 1..len : q[1][i] = "_"}
  IN SubSeq(q[1], 1, IF ends = {} THEN 0 ELSE Max(ends))

Rest(text, typed) == SubSeq(text, Len(typed) + 1, Len(text))

\* wants_trailing_space, for text that is not Japanese.
Spaced(text) == Append(text, "_")

\* The characters among the first k.
Upto(text, k) == {text[i] : i \in 1..k}

\* Mutant of Fits: one character too many.
FitsAlmost(text, k) == Cardinality(Upto(text, k)) <= Budget + 1

\* The first k have room in a keymap.
Fits(text, k) == Cardinality(Upto(text, k)) <= Budget

\* segment_by_distinct: as long a run as has room, and again with what is left.
SegmentOf(text) == SubSeq(text, 1, Max({k \in 0..Len(text) : Fits(text, k)}))

\* Keycodes, in order of first appearance.
FirstAt(segment, ch) == CHOOSE i \in DOMAIN segment : segment[i] = ch /\ ch \notin Upto(segment, i - 1)
CodeOf(segment, ch)  == Cardinality(Upto(segment, FirstAt(segment, ch)))

\* build_keymap.
KeymapOf(segment) ==
  LET all == Upto(segment, Len(segment))
  IN [n \in 1..Cardinality(all) |-> CHOOSE ch \in all : CodeOf(segment, ch) = n]

-----------------------------------------------------------------------------
(* The engine *)

Typing(for, text) == job' = [for |-> for, text |-> text, left |-> text, at |-> "keymap"]
Idle == job.for = "none"

\* start_recording.
Begins ==
  /\ ~speaking /\ Idle /\ utts < MaxUtts
  /\ speaking' = TRUE /\ utts' = utts + 1 /\ said' = 0
  /\ hyps' = <<>> /\ vkTyped' = <<>>
  /\ landed' = <<>> /\ outcome' = NoOutcome
  /\ UNCHANGED <<job, sent, keymap, inField, cut>>

\* show_partial: a preedit where there is a field for it; elsewhere the window
\* fills, and what is stable and extends what was typed is typed.
ShowPartial(text) ==
  /\ speaking /\ Idle /\ said < MaxHyps
  /\ said' = said + 1
  /\ IF inField THEN UNCHANGED <<hyps, job>>
     ELSE LET all    == Append(hyps, text)
              recent == IF Len(all) > Window THEN Tail(all) ELSE all
          IN /\ hyps' = recent
             /\ IF Len(recent) = Window /\ IsStrictPrefix(vkTyped, Stable(recent))
                THEN Typing("prefix", Rest(Stable(recent), vkTyped))
                ELSE UNCHANGED job
  /\ UNCHANGED <<speaking, vkTyped, sent, keymap, inField, cut, landed, outcome, utts>>

\* commit: the whole through the input method, or what has not been typed yet;
\* a final text that diverges from what was typed is not typed.
Commits(text) ==
  /\ speaking /\ Idle
  /\ speaking' = FALSE
  /\ LET out  == IF text = <<>> THEN <<>> ELSE Spaced(text)
         tail == Rest(out, vkTyped)
         injected == [text |-> out, injected |-> TRUE, byIm |-> inField]
     IN CASE out = <<>> -> UNCHANGED <<job, landed, outcome>>
          [] inField -> landed' = landed \o out /\ outcome' = injected /\ UNCHANGED job
          [] ~inField /\ IsPrefix(vkTyped, out) /\ tail # <<>> ->
               Typing("final", tail) /\ outcome' = [injected EXCEPT !.injected = FALSE] /\ UNCHANGED landed
          [] OTHER -> outcome' = injected /\ UNCHANGED <<job, landed>>
  /\ UNCHANGED <<hyps, vkTyped, sent, keymap, inField, cut, utts, said>>

\* A cancelled utterance, or one that failed: what was typed stays.
Abandons ==
  /\ speaking /\ Idle
  /\ speaking' = FALSE
  /\ UNCHANGED <<hyps, vkTyped, job, sent, keymap, inField, cut, landed, outcome, utts, said>>

-----------------------------------------------------------------------------
(* type_text *)

\* A keymap of the segment's characters, and a roundtrip.
SendKeymap ==
  /\ ~Idle /\ job.at = "keymap" /\ ~cut
  /\ sent' = <<[name |-> "keymap", map |-> KeymapOf(SegmentOf(job.left))]>>
  /\ job' = [job EXCEPT !.at = "keymapSent"]
  /\ UNCHANGED <<speaking, hyps, vkTyped, keymap, inField, cut, landed, outcome, utts, said>>

\* Its keys, and another roundtrip.
SendKeys ==
  /\ ~Idle /\ job.at = "keymapSent" /\ sent = <<>> /\ ~cut
  /\ LET segment == SegmentOf(job.left)
     IN sent' = [i \in DOMAIN segment |-> [name |-> "key", code |-> CodeOf(segment, segment[i])]]
  /\ job' = [job EXCEPT !.at = "keysSent"]
  /\ UNCHANGED <<speaking, hyps, vkTyped, keymap, inField, cut, landed, outcome, utts, said>>

\* The next segment; or the end, and only then is the prefix on record.
SegmentTyped ==
  /\ ~Idle /\ job.at = "keysSent" /\ sent = <<>> /\ ~cut
  /\ LET left == Rest(job.left, SegmentOf(job.left))
         over == left = <<>>
     IN /\ job' = IF over THEN NoJob ELSE [job EXCEPT !.left = left, !.at = "keymap"]
        /\ vkTyped' = IF over /\ job.for = "prefix" THEN vkTyped \o job.text ELSE vkTyped
        /\ outcome' = IF over /\ job.for = "final" THEN [outcome EXCEPT !.injected = TRUE] ELSE outcome
  /\ UNCHANGED <<speaking, hyps, sent, keymap, inField, cut, landed, utts, said>>

\* Any step returns early once the connection is gone; the engine goes on.
TypingFails ==
  /\ ~Idle /\ cut
  /\ job' = NoJob
  /\ UNCHANGED <<speaking, hyps, vkTyped, sent, keymap, inField, cut, landed, outcome, utts, said>>

-----------------------------------------------------------------------------
(* Compositor and application (external) *)

\* No more of a keymap than there are keycodes.
Installed(map) == [n \in DOMAIN map \cap 1..Room |-> map[n]]

\* In order; a key means what the keymap says that was installed before it.
Handle ==
  /\ sent # <<>>
  /\ LET r == Head(sent)
     IN IF r.name = "keymap"
        THEN keymap' = Installed(r.map) /\ UNCHANGED landed
        ELSE /\ landed' = (IF r.code \in DOMAIN keymap THEN Append(landed, keymap[r.code]) ELSE landed)
             /\ UNCHANGED keymap
  /\ sent' = Tail(sent)
  /\ UNCHANGED <<speaking, hyps, vkTyped, job, inField, cut, outcome, utts, said>>

FocusMoves ==
  /\ inField' = ~inField
  /\ UNCHANGED <<speaking, hyps, vkTyped, job, sent, keymap, cut, landed, outcome, utts, said>>

Disconnects ==
  /\ ~cut /\ cut' = TRUE /\ sent' = <<>>
  /\ UNCHANGED <<speaking, hyps, vkTyped, job, keymap, inField, landed, outcome, utts, said>>

Next ==
  \/ Begins \/ Abandons
  \/ \E text \in Hypotheses : ShowPartial(text)
  \/ \E text \in Finals : Commits(text)
  \/ SendKeymap \/ SendKeys \/ SegmentTyped \/ TypingFails
  \/ Handle \/ FocusMoves \/ Disconnects

Spec == Init /\ [][Next]_tvars

-----------------------------------------------------------------------------
(* Properties *)

\* What reaches the applications is what was said, each character once and in
\* order, whatever the keymaps and wherever focus goes: while an utterance
\* lasts, what is on record as typed and then a part of what is being typed;
\* of one reported as injected, its whole text, or if it diverged from what was
\* already typed, that.  The exceptions: a prefix whose typing broke off, and a
\* commit that went to a field after a prefix had been typed elsewhere.
TypesWhatWasSaid ==
  ~cut =>
    /\ speaking \/ job.for = "final" => /\ IsPrefix(vkTyped, landed)
                                         /\ IsPrefix(landed, vkTyped \o job.text)
    /\ outcome.injected /\ ~(outcome.byIm /\ vkTyped # <<>>) =>
         landed = (IF outcome.byIm \/ IsPrefix(vkTyped, outcome.text) THEN outcome.text ELSE vkTyped)
=============================================================================
