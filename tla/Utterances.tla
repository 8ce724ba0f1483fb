----------------------------- MODULE Utterances -----------------------------
(***************************************************************************)
(* What push-to-talk dictation promises, whatever happens inside: speech   *)
(* is captured in utterances, one at a time; an utterance ends once, with  *)
(* its text landing or without; text lands only from the utterance that is *)
(* being transcribed, and never twice from one.  Engine implements it.     *)
(***************************************************************************)
EXTENDS Integers

VARIABLES
  phase,   \* what the microphone is doing
  id,      \* number of the current utterance, or of the next one's precursor
  landed   \* the last utterance whose text landed, 0 before any did

vars == <<phase, id, landed>>

Init ==
  /\ phase = "idle"
  /\ id \in Nat
  /\ landed = 0

\* The next utterance never reuses a number.
NewNumber == id' \in Nat /\ id' > id

Begin ==
  /\ phase = "idle"
  /\ phase' = "recording"
  /\ NewNumber
  /\ UNCHANGED landed

\* The microphone closes; the text is still being worked out.
Close ==
  /\ phase = "recording"
  /\ phase' = "transcribing"
  /\ UNCHANGED <<id, landed>>

Land ==
  /\ phase = "transcribing"
  /\ phase' = "idle"
  /\ NewNumber
  /\ landed' = id

\* Cancelled, disarmed, silent or failed: whatever it was, it is over.
Drop ==
  /\ phase' = "idle"
  /\ NewNumber
  /\ UNCHANGED landed

Next == Begin \/ Close \/ Land \/ Drop

Spec == Init /\ [][Next]_vars

-----------------------------------------------------------------------------

\* Text lands at most once per utterance, and in the order of speaking.
LandsOnce == [][landed' # landed => landed' > landed]_landed

=============================================================================
