--------------------------------- MODULE Ring ---------------------------------
(***************************************************************************)
(* The ring between PipeWire's realtime thread and the engine (audio.rs),  *)
(* with the engine's two cursors into it (engine.rs listen, cut_segment).  *)
(*                                                                         *)
(* A sample is named by its position, the number of samples captured       *)
(* before it.  There is no lock: the writer stores samples one by one and  *)
(* publishes the count, the reader clamps once and then copies one by one, *)
(* and each may be overtaken by the other at any of these steps.           *)
(***************************************************************************)
EXTENDS Integers, Sequences

CONSTANTS
  Capacity, \* RING_CAPACITY
  Block,    \* samples written at a time: 256 in the code
  Dequeued, \* most samples in a PipeWire buffer
  Preroll,  \* history ahead of a trigger
  Captured  \* bound: samples captured in all

RingBounds ==
  /\ Capacity \in Nat \ {0} /\ Block \in Nat \ {0} /\ Dequeued \in Nat \ {0}
  /\ Preroll \in Nat /\ Captured \in Nat

VARIABLES
  samples,  \* the position each slot holds the sample of
  head,     \* samples published
  buffer,   \* of the buffer being written: samples not yet published
  stored,   \* and how many of them are in their slots
  stream,   \* whether PipeWire feeds us
  phase,    \* of the engine: "idle", "recording", "finishing", "concluding"
  segStart, \* where the current segment starts
  cursor,   \* what has been fed to the streaming model
  judged,   \* the position the gates have come to
  call      \* the engine's read in progress

rvars == <<samples, head, buffer, stored, stream, phase, segStart, cursor, judged, call>>

\* A slot nothing was written to yet.
Silence == -1

\* Asked for [asked, end); once clamped, at a count of at, [from, to) is copied.
NoCall == [for |-> "none", asked |-> 0, end |-> 0, clamped |-> FALSE, at |-> 0,
           from |-> 0, to |-> 0, out |-> <<>>]

TypeOK ==
  /\ \A s \in DOMAIN samples : samples[s] = Silence \/ samples[s] % Capacity = s
  /\ stored <= Block /\ stored <= buffer
  /\ phase \in {"idle", "recording", "finishing", "concluding"}
  /\ phase # "idle" => segStart <= judged /\ segStart <= cursor /\ cursor <= head
  /\ call.clamped => call.from <= call.to /\ Len(call.out) <= Capacity

Init ==
  /\ samples = [s \in 0..Capacity - 1 |-> Silence] /\ head = 0
  /\ buffer = 0 /\ stored = 0 /\ stream = "up"
  /\ phase = "idle" /\ segStart = 0 /\ cursor = 0 /\ judged = 0
  /\ call = NoCall

Least(a, b) == IF a < b THEN a ELSE b
Most(a, b)  == IF a < b THEN b ELSE a

\* u64::saturating_sub.
Less(a, b) == Most(a - b, 0)

-----------------------------------------------------------------------------
(* The realtime thread *)

\* The process callback has a buffer, of which at least a sample is written.
Dequeue ==
  /\ stream = "up" /\ buffer = 0
  /\ \E n \in 1..Dequeued : head + n <= Captured /\ buffer' = n
  /\ UNCHANGED <<samples, head, stored, stream, phase, segStart, cursor, judged, call>>

\* What of the buffer the write under way covers.
Chunk == Least(Block, buffer)

StoreSample ==
  /\ buffer > 0 /\ stored < Chunk
  /\ samples' = [samples EXCEPT ![(head + stored) % Capacity] = head + stored]
  /\ stored' = stored + 1
  /\ UNCHANGED <<head, buffer, stream, phase, segStart, cursor, judged, call>>

\* The count goes up by the whole chunk.
Publish ==
  /\ buffer > 0 /\ stored = Chunk
  /\ head' = head + Chunk /\ buffer' = buffer - Chunk /\ stored' = 0
  /\ UNCHANGED <<samples, stream, phase, segStart, cursor, judged, call>>

\* The callback runs to its end before the loop quits.
StreamErrors ==
  /\ stream = "up" /\ buffer = 0 /\ stream' = "down"
  /\ UNCHANGED <<samples, head, buffer, stored, phase, segStart, cursor, judged, call>>

\* Two seconds later, into the same ring; a set-up that fails is tried again.
Reconnects ==
  /\ stream = "down" /\ stream' = "up"
  /\ UNCHANGED <<samples, head, buffer, stored, phase, segStart, cursor, judged, call>>

-----------------------------------------------------------------------------
(* read: one clamp, then a copy that may be overtaken *)

\* Mutant of Oldest: one sample too early.
OldestButOne(h) == Less(h, Capacity + 1)

\* The ring's live window begins here, at a count of h.
Oldest(h) == Less(h, Capacity)

\* What a request becomes then.
Clamped(c, h) ==
  LET to == Least(c.end, h)
  IN [c EXCEPT !.clamped = TRUE, !.at = h, !.to = to, !.from = Least(Most(c.asked, Oldest(h)), to)]

Clamp ==
  /\ call.for # "none" /\ ~call.clamped
  /\ call' = Clamped(call, head)
  /\ UNCHANGED <<samples, head, buffer, stored, stream, phase, segStart, cursor, judged>>

\* The position whose sample is copied next.
Position == call.from + Len(call.out)

\* A relaxed load may miss the writer's latest stores, but none of those before
\* the count that was read.
Loads ==
  LET latest == samples[Position % Capacity]
  IN {latest} \union {p \in Position..latest : p % Capacity = Position % Capacity}

Copy ==
  /\ call.clamped /\ Position < call.to
  /\ \E p \in Loads : call' = [call EXCEPT !.out = Append(@, p)]
  /\ UNCHANGED <<samples, head, buffer, stored, stream, phase, segStart, cursor, judged>>

Copied == call.clamped /\ Position = call.to

-----------------------------------------------------------------------------
(* The engine's thread *)

Read(for, from, end) == call' = [NoCall EXCEPT !.for = for, !.asked = from, !.end = end]

\* Back in time by the pre-roll, which an utterance before may have had too.
StartRecording ==
  /\ phase = "idle" /\ phase' = "recording"
  /\ segStart' = Less(head, Preroll)
  /\ cursor' = segStart' /\ judged' = segStart'
  /\ UNCHANGED <<samples, head, buffer, stored, stream, call>>

\* Each tick; the count is loaded here and again by the read.
Listen ==
  /\ phase = "recording" /\ call = NoCall /\ head > cursor
  /\ Read("listen", cursor, head)
  /\ UNCHANGED <<samples, head, buffer, stored, stream, phase, segStart, cursor, judged>>

\* The streaming model and the gates get what was read; the cursor goes to what
\* was asked for, the gates' position on by what came.
Listened ==
  /\ call.for = "listen" /\ Copied
  /\ judged' = cursor + Len(call.out) /\ cursor' = call.end
  /\ call' = NoCall
  /\ phase' = IF phase = "finishing" THEN "concluding" ELSE phase
  /\ UNCHANGED <<samples, head, buffer, stored, stream, segStart>>

\* In the windows of a listen, at the middle of a pause; without speech in it
\* the segment goes out empty.
Cut ==
  /\ phase \in {"recording", "concluding"} /\ call = NoCall
  /\ \E at \in segStart..judged :
       \/ Read("cut", segStart, at) /\ UNCHANGED segStart
       \/ segStart' = at /\ UNCHANGED call
  /\ UNCHANGED <<samples, head, buffer, stored, stream, phase, cursor, judged>>

\* What was captured since the last tick is judged too.
FinishRecording ==
  /\ phase = "recording" /\ call = NoCall
  /\ IF head > cursor
     THEN phase' = "finishing" /\ Read("listen", cursor, head)
     ELSE phase' = "concluding" /\ UNCHANGED call
  /\ UNCHANGED <<samples, head, buffer, stored, stream, segStart, cursor, judged>>

\* The last segment ends where listening did.
Conclude ==
  /\ phase = "concluding" /\ call = NoCall
  /\ \/ Read("last", segStart, cursor) /\ UNCHANGED <<phase, segStart>>
     \/ segStart' = cursor /\ phase' = "idle" /\ UNCHANGED call
  /\ UNCHANGED <<samples, head, buffer, stored, stream, cursor, judged>>

\* The segment is sent to the offline model, and the next one starts.
SegmentRead ==
  /\ call.for \in {"cut", "last"} /\ Copied
  /\ segStart' = call.end
  /\ phase' = IF call.for = "last" THEN "idle" ELSE phase
  /\ call' = NoCall
  /\ UNCHANGED <<samples, head, buffer, stored, stream, cursor, judged>>

Cancel ==
  /\ phase = "recording" /\ call = NoCall /\ phase' = "idle"
  /\ UNCHANGED <<samples, head, buffer, stored, stream, segStart, cursor, judged, call>>

Next ==
  \/ Dequeue \/ StoreSample \/ Publish \/ StreamErrors \/ Reconnects
  \/ Clamp \/ Copy
  \/ StartRecording \/ Listen \/ Listened \/ Cut \/ FinishRecording
  \/ Conclude \/ SegmentRead \/ Cancel

Spec == Init /\ [][Next]_rvars

-----------------------------------------------------------------------------
(* Properties *)

\* A read gives what was captured.  Each sample copied is the one captured at
\* its position, or, if the writer came round to its slot since the clamp, the
\* one it put there: never an older one, and none of a span the clamp knew to
\* be lost (audio.rs read: "skipped rather than returned as garbage").  And it
\* skips nothing that is still there to be had.
ReadsWhatWasCaptured ==
  call.clamped =>
    /\ \A i \in DOMAIN call.out :
         LET p == call.from + i - 1
         IN \/ call.out[i] = p
            \/ call.out[i] > p /\ p \in call.at - Capacity..head + stored - Capacity - 1
    /\ \A p \in call.asked..Least(call.from, call.end) - 1 : samples[p % Capacity] # p
=============================================================================
