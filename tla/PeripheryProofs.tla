--------------------------- MODULE PeripheryProofs ----------------------------
(***************************************************************************)
(* What is proved of one component holds of the composition, in which the  *)
(* others stand still while it steps and it stands still while they do.    *)
(***************************************************************************)
EXTENDS UpstreamProofs

-----------------------------------------------------------------------------
(* The ring: remainders                                                    *)
(*                                                                         *)
(* That it hands out what was captured rests on LastLap: the last Capacity *)
(* positions stored are in their slots, and the slot of an older one holds *)
(* something newer.  That a sample stored preserves it needs two facts     *)
(* about remainders.                                                       *)

\* What the prover knows of division, for a divisor that is not a literal.
LEMMA Remainder ==
  ASSUME NEW C \in Nat \ {0}, NEW p \in Nat
  PROVE  /\ p % C \in 0..C - 1
         /\ p \div C \in Nat
         /\ p = C * (p \div C) + (p % C)
  OBVIOUS

\* Quotient and remainder are unique.
LEMMA QuotientUnique ==
  ASSUME NEW C \in Nat \ {0}, NEW k \in Nat, NEW l \in Nat,
         NEW r \in 0..C - 1, NEW s \in 0..C - 1, C * k + r = C * l + s
  PROVE  k = l /\ r = s
<1>1. C * k < C * (l + 1) OBVIOUS
<1>2. C * l < C * (k + 1) OBVIOUS
<1>3. k < l + 1 BY <1>1
<1>4. l < k + 1 BY <1>2
<1>5. k = l BY <1>3, <1>4
<1> QED BY <1>5

\* A lap later comes the same slot.
LEMMA OneLap ==
  ASSUME NEW C \in Nat \ {0}, NEW p \in Nat
  PROVE  (p + C) % C = p % C
<1> DEFINE k == p \div C
           r == p % C
           l == (p + C) \div C
           s == (p + C) % C
<1>1. p = C * k + r /\ k \in Nat /\ r \in 0..C - 1 BY Remainder
<1>2. p + C \in Nat OBVIOUS
<1>3. p + C = C * l + s /\ l \in Nat /\ s \in 0..C - 1 BY <1>2, Remainder
<1> HIDE DEF k, r, l, s
<1>4. C * (k + 1) + r = C * l + s BY <1>1, <1>3
<1>5. r = s BY <1>1, <1>3, <1>4, QuotientUnique
<1> QED BY <1>5 DEF r, s

\* Within a lap every position has a slot of its own.
LEMMA SlotsApart ==
  ASSUME NEW C \in Nat \ {0}, NEW p \in Nat, NEW x \in Nat, p < x, x < p + C
  PROVE  p % C # x % C
<1> SUFFICES ASSUME p % C = x % C PROVE FALSE OBVIOUS
<1> DEFINE k == p \div C
           l == x \div C
           r == p % C
<1>1. p = C * k + r /\ x = C * l + r /\ k \in Nat /\ l \in Nat /\ r \in 0..C - 1 BY Remainder
<1> HIDE DEF k, l, r
<1>2. C * k < C * l BY <1>1
<1>3. C * l < C * (k + 1) BY <1>1
<1>4. k < l /\ l < k + 1 BY <1>1, <1>2, <1>3
<1> QED BY <1>1, <1>4

-----------------------------------------------------------------------------
(* The ring: the invariant *)

\* What the engine reads for, and the reads it can have.
ReadKinds == {"none", "listen", "cut", "last"}

RingCalls == [for : ReadKinds, asked : Nat, end : Nat, clamped : BOOLEAN, at : Nat,
          from : Nat, to : Nat, out : Seq(Int)]

\* Types, and no more of a block stored than it has.
RingTypes ==
  /\ samples \in [0..Capacity - 1 -> Int]
  /\ head \in Nat /\ buffer \in Nat /\ stored \in Nat
  /\ segStart \in Nat /\ cursor \in Nat /\ judged \in Nat
  /\ stored <= R!Chunk
  /\ call \in RingCalls

\* How far the samples are in their slots, published or not.
InSlots == head + stored

\* The last Capacity positions written are in their slots; the slot of an older
\* one holds a newer sample.
LastLap ==
  \A p \in Nat :
    /\ p < InSlots /\ p >= InSlots - Capacity => samples[p % Capacity] = p
    /\ p < InSlots - Capacity => samples[p % Capacity] > p

\* What a read clamped at a count of at may have of position p, once written
\* samples are in their slots.
Honest(p, v, at, written) == v = p \/ (v > p /\ p >= at - Capacity /\ p < written - Capacity)

\* The read in progress: it copies from the window its clamp saw, skipped only
\* what was before it, and has been honest so far.
CallGoesWell ==
  IF ~call.clamped THEN call.out = <<>> ELSE
    /\ call.at <= head /\ call.to <= call.at
    /\ call.from < call.to => call.from >= call.at - Capacity
    /\ \A p \in Nat : call.asked <= p /\ p < call.from => p < call.at - Capacity
    /\ Len(call.out) > 0 => call.from + Len(call.out) <= call.to
    /\ \A i \in 1..Len(call.out) : Honest(call.from + i - 1, call.out[i], call.at, InSlots)

\* A request the ring has not taken up.
FreshCall(c) == c \in RingCalls /\ ~c.clamped /\ c.out = <<>>

RingInv == RingTypes /\ LastLap /\ CallGoesWell

\* The engine without a read.
LEMMA NothingAsked == FreshCall(R!NoCall)
<1>1. <<>> \in Seq(Int) OBVIOUS
<1> QED BY <1>1 DEF FreshCall, RingCalls, R!NoCall, ReadKinds

\* The engine with a new one.
LEMMA Asked ==
  ASSUME NEW f \in ReadKinds, NEW a \in Nat, NEW e \in Nat, R!Read(f, a, e)
  PROVE  FreshCall(call')
<1>1. <<>> \in Seq(Int) OBVIOUS
<1>2. call' = [for |-> f, asked |-> a, end |-> e, clamped |-> FALSE, at |-> 0,
               from |-> 0, to |-> 0, out |-> <<>>]
  BY DEF R!Read, R!NoCall
<1> QED BY <1>1, <1>2 DEF FreshCall, RingCalls

\* An empty ring.
LEMMA RingStarts == ASSUME R!RingBounds PROVE R!Init => RingInv
<1> SUFFICES ASSUME R!Init PROVE RingInv OBVIOUS
<1> USE DEF R!RingBounds, R!Init
<1>1. RingTypes BY NothingAsked DEF RingTypes, R!Chunk, R!Least, R!Silence, FreshCall
<1>2. LastLap BY DEF LastLap, InSlots
<1>3. CallGoesWell BY DEF CallGoesWell, R!NoCall
<1> QED BY <1>1, <1>2, <1>3 DEF RingInv

-----------------------------------------------------------------------------
(* The ring: steps *)

\* The slots are left alone as long as nothing is stored.
LEMMA LapKept ==
  ASSUME LastLap, samples' = samples, head' + stored' = head + stored
  PROVE  LastLap'
  BY DEF LastLap, InSlots

\* A read is disturbed neither by the writer's progress nor by the engine's own
\* bookkeeping.
LEMMA CallKept ==
  ASSUME R!RingBounds, RingTypes, CallGoesWell, call' = call,
         head' \in Nat, stored' \in Nat, head' >= head, head' + stored' >= head + stored
  PROVE  CallGoesWell'
<1>1. CASE ~call.clamped BY <1>1 DEF CallGoesWell
<1> SUFFICES ASSUME call.clamped
             PROVE  CallGoesWell'
  BY <1>1
<1>2. ASSUME NEW i \in 1..Len(call.out)
      PROVE  Honest(call.from + i - 1, call.out[i], call.at, InSlots')
  <2>1. Honest(call.from + i - 1, call.out[i], call.at, InSlots) BY <1>2 DEF CallGoesWell
  <2>2. call.from + i - 1 \in Int /\ Capacity \in Int /\ InSlots \in Int /\ InSlots' \in Int
    BY SMTT(20), <1>2 DEF RingTypes, RingCalls, R!RingBounds, InSlots
  <2>3. InSlots <= InSlots' BY DEF InSlots
  <2> QED BY <2>1, <2>2, <2>3 DEF Honest
<1> QED BY <1>2 DEF CallGoesWell, RingTypes, RingCalls

\* A new request is not clamped yet.
LEMMA CallAnew == ASSUME FreshCall(call') PROVE CallGoesWell'
  BY DEF CallGoesWell, FreshCall

\* A sample stored takes the slot of the one a lap before it, and no other.
LEMMA StoreSampleStep == ASSUME R!RingBounds, RingInv, R!StoreSample PROVE RingInv'
<1> DEFINE x == head + stored
<1> USE DEF RingInv
<1>1. /\ x \in Nat /\ Capacity \in Nat \ {0} /\ x % Capacity \in 0..Capacity - 1
      /\ stored < R!Chunk /\ stored' = stored + 1 /\ head' = head /\ buffer' = buffer
      /\ samples' = [samples EXCEPT ![x % Capacity] = x]
      /\ call' = call /\ segStart' = segStart /\ cursor' = cursor /\ judged' = judged
  BY Remainder DEF R!RingBounds, RingTypes, R!StoreSample
<1>2. RingTypes'
  <2>1. R!Chunk' = R!Chunk /\ R!Chunk \in Nat BY <1>1 DEF R!Chunk, R!Least, RingTypes, R!RingBounds
  <2> QED BY <1>1, <2>1 DEF RingTypes
<1>3. LastLap'
  <2>0. InSlots' = x + 1 BY <1>1 DEF InSlots, RingTypes
  <2> SUFFICES ASSUME NEW p \in Nat
               PROVE  /\ p < x + 1 /\ p >= x + 1 - Capacity => samples'[p % Capacity] = p
                      /\ p < x + 1 - Capacity => samples'[p % Capacity] > p
    BY <2>0, <1>1 DEF LastLap, InSlots
  <2>1. p % Capacity \in 0..Capacity - 1 BY <1>1, Remainder
  <2>2. CASE p = x BY <1>1, <2>1, <2>2 DEF RingTypes
  <2>3. CASE p < x /\ p >= x + 1 - Capacity
    <3>1. p % Capacity # x % Capacity BY <1>1, <2>3, SlotsApart
    <3>2. samples[p % Capacity] = p BY <1>1, <2>3 DEF LastLap, InSlots
    <3> QED BY <1>1, <2>1, <2>3, <3>1, <3>2 DEF RingTypes
  <2>4. CASE p = x - Capacity
    <3>1. p % Capacity = x % Capacity BY <1>1, <2>4, OneLap
    <3> QED BY <1>1, <2>1, <2>4, <3>1 DEF RingTypes
  <2>5. CASE p < x - Capacity
    <3>1. samples[p % Capacity] > p BY <1>1, <2>5 DEF LastLap, InSlots
    <3> QED BY <1>1, <2>1, <2>5, <3>1 DEF RingTypes
  <2>6. CASE p > x BY <1>1, <2>6
  <2> QED BY <1>1, <2>2, <2>3, <2>4, <2>5, <2>6
<1>4. CallGoesWell' BY <1>1, CallKept DEF RingTypes
<1> QED BY <1>2, <1>3, <1>4

\* What is published was already in its slot.
LEMMA PublishStep == ASSUME R!RingBounds, RingInv, R!Publish PROVE RingInv'
<1> USE DEF RingInv
<1>1. R!Chunk \in Nat /\ R!Chunk <= buffer /\ stored = R!Chunk /\ stored' = 0
  BY DEF R!Publish, R!Chunk, R!Least, RingTypes, R!RingBounds
<1>2. head' = head + stored /\ head' + stored' = head + stored /\ buffer' \in Nat /\ head' \in Nat
  BY <1>1 DEF R!Publish, RingTypes
<1>3. RingTypes' BY <1>1, <1>2 DEF RingTypes, R!Publish, R!Chunk, R!Least, R!RingBounds
<1>4. LastLap' BY <1>2, LapKept DEF R!Publish
<1>5. CallGoesWell' BY <1>1, <1>2, CallKept DEF R!Publish, RingTypes
<1> QED BY <1>3, <1>4, <1>5

\* The clamp drops only what is before the window, and all of that.
LEMMA ClampStep == ASSUME R!RingBounds, RingInv, R!Clamp PROVE RingInv'
<1> USE DEF RingInv
<1> DEFINE to == R!Least(call.end, head)
           from == R!Least(R!Most(call.asked, R!Oldest(head)), to)
<1>1. /\ to \in Nat /\ from \in Nat /\ to <= head /\ from <= to
      /\ from <= call.asked \/ from <= head - Capacity
      /\ from < to => from >= head - Capacity
  <2>1. call.end \in Nat /\ call.asked \in Nat /\ head \in Nat /\ Capacity \in Nat
    BY DEF RingTypes, RingCalls, R!RingBounds
  <2>2. R!Oldest(head) \in Nat /\ (R!Oldest(head) = head - Capacity \/ R!Oldest(head) = 0)
        /\ R!Oldest(head) >= head - Capacity
    BY <2>1 DEF R!Oldest, R!Less, R!Most
  <2>3. to \in Nat /\ to <= head BY <2>1 DEF R!Least
  <2>4. R!Most(call.asked, R!Oldest(head)) \in {call.asked, R!Oldest(head)}
        /\ R!Most(call.asked, R!Oldest(head)) >= R!Oldest(head)
    BY <2>1, <2>2 DEF R!Most
  <2> HIDE DEF to
  <2>5. from <= R!Most(call.asked, R!Oldest(head)) /\ from <= to /\ from \in Nat
        /\ (from < to => from = R!Most(call.asked, R!Oldest(head)))
    BY <2>1, <2>2, <2>3, <2>4 DEF R!Least
  <2> HIDE DEF from
  <2> QED BY <2>1, <2>2, <2>3, <2>4, <2>5
<1>2. call' = [call EXCEPT !.clamped = TRUE, !.at = head, !.to = to, !.from = from]
  BY DEF R!Clamp, R!Clamped
<1> HIDE DEF to, from
<1>3. RingTypes' BY <1>1, <1>2 DEF RingTypes, RingCalls, R!Clamp, R!Chunk
<1>4. LastLap' BY LapKept DEF R!Clamp
<1>5. call.out = <<>> BY DEF CallGoesWell, R!Clamp
<1>6. /\ call'.clamped /\ call'.at = head /\ call'.to = to /\ call'.from = from
      /\ call'.asked = call.asked /\ call'.out = <<>> /\ head' = head
  BY <1>2, <1>5 DEF RingTypes, RingCalls, R!Clamp
<1>7. /\ Len(call'.out) = 0 /\ call.asked \in Nat /\ head \in Nat /\ Capacity \in Nat
      /\ \A i \in 1..Len(call'.out) : FALSE
  BY <1>6 DEF RingTypes, RingCalls, R!RingBounds
<1>8. CallGoesWell' BY <1>1, <1>6, <1>7 DEF CallGoesWell
<1> QED BY <1>3, <1>4, <1>8

\* The copied sample is the position's own, or one the writer put there since.
LEMMA CopyStep == ASSUME R!RingBounds, RingInv, R!Copy PROVE RingInv'
<1> USE DEF RingInv
<1> DEFINE p == R!Position
           newest == samples[p % Capacity]
<1>1. /\ call.clamped /\ call.from \in Nat /\ call.to \in Nat /\ call.at \in Nat
      /\ call.out \in Seq(Int) /\ Len(call.out) \in Nat
  BY DEF R!Copy, RingTypes, RingCalls
<1>2. /\ Capacity \in Nat \ {0} /\ p < call.to /\ p \in Nat
      /\ p = call.from + Len(call.out) /\ p % Capacity \in 0..Capacity - 1
  <2>1. Capacity \in Nat \ {0} /\ p < call.to /\ p = call.from + Len(call.out)
    BY DEF R!RingBounds, R!Copy, R!Position
  <2>2. p \in Nat BY <1>1, <2>1
  <2> QED BY <2>1, <2>2, Remainder
<1>3. /\ p < InSlots /\ p >= call.at - Capacity /\ newest \in Int /\ InSlots \in Nat
      /\ p >= InSlots - Capacity => newest = p
      /\ p < InSlots - Capacity => newest > p
  <2>1. call.at <= head /\ call.to <= call.at /\ call.from >= call.at - Capacity
    BY <1>1, <1>2 DEF CallGoesWell
  <2>2. InSlots \in Nat /\ head <= InSlots BY DEF RingTypes, InSlots
  <2>3. newest \in Int BY <1>2 DEF RingTypes
  <2> HIDE DEF newest
  <2>4. head \in Nat /\ p >= call.from BY <1>1, <1>2 DEF RingTypes
  <2> HIDE DEF p
  <2>5. p < InSlots BY <1>1, <1>2, <2>1, <2>2, <2>4
  <2>6. p >= call.at - Capacity BY <1>1, <1>2, <2>1, <2>4
  <2> QED BY <1>2, <2>2, <2>3, <2>5, <2>6 DEF LastLap, newest
<1> HIDE DEF p, newest
<1>4. PICK v \in {newest} \union {q \in p..newest : q % Capacity = p % Capacity} :
        call' = [call EXCEPT !.out = Append(@, v)]
  BY DEF R!Copy, R!Loads, p, newest
<1>5. v \in Int /\ Honest(p, v, call.at, InSlots)
  BY SMTT(20), <1>1, <1>2, <1>3, <1>4 DEF Honest
<1>6. UNCHANGED <<samples, head, buffer, stored, stream, phase, segStart, cursor, judged>>
  BY DEF R!Copy
<1>7. /\ call'.out = Append(call.out, v) /\ call'.clamped /\ call'.at = call.at
      /\ call'.from = call.from /\ call'.to = call.to /\ call'.asked = call.asked
  BY <1>1, <1>4 DEF RingTypes, RingCalls
<1>8. RingTypes'
  <2>1. Append(call.out, v) \in Seq(Int) BY <1>1, <1>5
  <2>2. call' \in RingCalls BY <1>4, <2>1 DEF RingTypes, RingCalls
  <2> QED BY <1>6, <2>2 DEF RingTypes, R!Chunk
<1>9. LastLap' BY <1>6, LapKept
<1>10. CallGoesWell'
  <2>1. Len(call'.out) = Len(call.out) + 1 BY <1>1, <1>5, <1>7
  <2>2. ASSUME NEW i \in 1..Len(call'.out)
        PROVE  Honest(call.from + i - 1, call'.out[i], call.at, InSlots)
    <3>1. CASE i = Len(call.out) + 1
      <4>1. call'.out[i] = v BY <1>1, <1>5, <1>7, <3>1
      <4>2. call.from + i - 1 = p BY <1>1, <1>2, <3>1
      <4> QED BY <1>5, <4>1, <4>2
    <3>2. CASE i # Len(call.out) + 1
      <4>1. i \in 1..Len(call.out) BY <1>1, <2>1, <3>2
      <4>2. call'.out[i] = call.out[i] BY <1>1, <1>5, <1>7, <4>1
      <4> QED BY <1>1, <4>1, <4>2 DEF CallGoesWell
    <3> QED BY <3>1, <3>2
  <2>3. InSlots' = InSlots BY <1>6 DEF InSlots
  <2>4. call'.from + Len(call'.out) <= call'.to BY SMTT(20), <1>1, <1>2, <1>7, <2>1
  <2>5. /\ call.at <= head /\ call.to <= call.at
        /\ call.from < call.to => call.from >= call.at - Capacity
        /\ \A q \in Nat : call.asked <= q /\ q < call.from => q < call.at - Capacity
    BY <1>1 DEF CallGoesWell
  <2> QED BY <1>6, <1>7, <2>2, <2>3, <2>4, <2>5 DEF CallGoesWell
<1> QED BY <1>8, <1>9, <1>10

\* The engine's own steps leave the slots and the count alone, and either leave
\* the read alone, drop it or start one.
LEMMA ReaderStep ==
  ASSUME R!RingBounds, RingInv, UNCHANGED <<samples, head, stored>>,
         buffer' \in Nat, stored <= R!Least(Block, buffer'),
         segStart' \in Nat, cursor' \in Nat, judged' \in Nat,
         call' = call \/ FreshCall(call')
  PROVE  RingInv'
<1> USE DEF RingInv
<1>1. LastLap' BY LapKept
<1>2. CASE call' = call
  <2>1. RingTypes' BY <1>2 DEF RingTypes, R!Chunk
  <2>2. CallGoesWell' BY <1>2, CallKept DEF RingTypes
  <2> QED BY <1>1, <2>1, <2>2
<1>3. CASE FreshCall(call')
  <2>1. RingTypes' BY <1>3 DEF RingTypes, R!Chunk, FreshCall
  <2>2. CallGoesWell' BY <1>3, CallAnew
  <2> QED BY <1>1, <2>1, <2>2
<1> QED BY <1>2, <1>3

\* Every step preserves the invariant.
LEMMA RingStep == ASSUME R!RingBounds, RingInv, [R!Next]_R!rvars PROVE RingInv'
<1>1. RingTypes BY DEF RingInv
<1>2. CASE R!Dequeue
  <2>1. stored <= R!Least(Block, buffer') /\ buffer' \in Nat
    BY <1>1, <1>2 DEF R!Dequeue, RingTypes, R!Chunk, R!Least, R!RingBounds
  <2> QED BY <1>1, <1>2, <2>1, ReaderStep DEF R!Dequeue, RingTypes
<1>3. CASE R!StoreSample BY <1>3, StoreSampleStep
<1>4. CASE R!Publish BY <1>4, PublishStep
<1>5. CASE R!Clamp BY <1>5, ClampStep
<1>6. CASE R!Copy BY <1>6, CopyStep
<1> DEFINE Quiet == UNCHANGED <<samples, head, buffer, stored>>
           Positions == segStart' \in Nat /\ cursor' \in Nat /\ judged' \in Nat
<1>7. ASSUME Quiet, Positions, call' = call \/ FreshCall(call') PROVE RingInv'
  <2>1. buffer' \in Nat /\ stored <= R!Least(Block, buffer')
    BY <1>1, <1>7 DEF RingTypes, R!Chunk
  <2> QED BY <1>7, <2>1, ReaderStep
<1> HIDE DEF Quiet, Positions
<1>8. CASE R!StreamErrors BY <1>1, <1>7, <1>8 DEF R!StreamErrors, Quiet, Positions, RingTypes
<1>9. CASE R!Reconnects BY <1>1, <1>7, <1>9 DEF R!Reconnects, Quiet, Positions, RingTypes
<1>10. CASE R!StartRecording
  <2>1. segStart' \in Nat BY <1>1, <1>10 DEF R!StartRecording, RingTypes, R!Less, R!Most, R!RingBounds
  <2> QED BY <1>7, <1>10, <2>1 DEF R!StartRecording, Quiet, Positions
<1>11. CASE R!Listen
  <2>1. FreshCall(call') BY <1>1, Asked, <1>11 DEF R!Listen, RingTypes, ReadKinds
  <2> QED BY <1>1, <1>7, <1>11, <2>1 DEF R!Listen, Quiet, Positions, RingTypes
<1>12. CASE R!Listened
  <2>1. cursor' \in Nat /\ judged' \in Nat /\ segStart' \in Nat
    BY <1>1, <1>12 DEF R!Listened, RingTypes, RingCalls
  <2>2. FreshCall(call') BY NothingAsked, <1>12 DEF R!Listened
  <2> QED BY <1>7, <1>12, <2>1, <2>2 DEF R!Listened, Quiet, Positions
<1>13. CASE R!Cut
  <2>1. PICK at \in segStart..judged :
          \/ R!Read("cut", segStart, at) /\ UNCHANGED segStart
          \/ segStart' = at /\ UNCHANGED call
    BY <1>13 DEF R!Cut
  <2>2. at \in Nat /\ segStart \in Nat BY <1>1 DEF RingTypes
  <2>3. call' = call \/ FreshCall(call') BY Asked, <2>1, <2>2 DEF ReadKinds
  <2>4. Quiet /\ Positions BY <1>1, <1>13, <2>1, <2>2 DEF R!Cut, Quiet, Positions, RingTypes
  <2> QED BY <1>7, <2>3, <2>4
<1>14. CASE R!FinishRecording
  <2>1. call' = call \/ FreshCall(call') BY <1>1, Asked, <1>14 DEF R!FinishRecording, RingTypes, ReadKinds
  <2> QED BY <1>1, <1>7, <1>14, <2>1 DEF R!FinishRecording, Quiet, Positions, RingTypes
<1>15. CASE R!Conclude
  <2>1. call' = call \/ FreshCall(call') BY <1>1, Asked, <1>15 DEF R!Conclude, RingTypes, ReadKinds
  <2> QED BY <1>1, <1>7, <1>15, <2>1 DEF R!Conclude, Quiet, Positions, RingTypes
<1>16. CASE R!SegmentRead
  <2>1. segStart' \in Nat BY <1>1, <1>16 DEF R!SegmentRead, RingTypes, RingCalls
  <2>2. FreshCall(call') BY NothingAsked, <1>16 DEF R!SegmentRead
  <2> QED BY <1>1, <1>7, <1>16, <2>1, <2>2 DEF R!SegmentRead, Quiet, Positions, RingTypes
<1>17. CASE R!Cancel BY <1>1, <1>7, <1>17 DEF R!Cancel, Quiet, Positions, RingTypes
<1>18. CASE UNCHANGED R!rvars
  BY <1>1, <1>7, <1>18 DEF R!rvars, Quiet, Positions, RingTypes
<1> QED
  BY <1>2, <1>3, <1>4, <1>5, <1>6, <1>8, <1>9, <1>10, <1>11, <1>12, <1>13,
     <1>14, <1>15, <1>16, <1>17, <1>18 DEF R!Next

\* What is skipped is older than the window, and its slot reused.
LEMMA RingSound == ASSUME R!RingBounds, RingInv PROVE R!ReadsWhatWasCaptured
<1> USE DEF RingInv
<1> SUFFICES ASSUME call.clamped PROVE R!ReadsWhatWasCaptured
  BY DEF R!ReadsWhatWasCaptured
<1>1. ASSUME NEW i \in DOMAIN call.out
      PROVE  LET p == call.from + i - 1
             IN \/ call.out[i] = p
                \/ call.out[i] > p /\ p \in call.at - Capacity..head + stored - Capacity - 1
  <2>1. i \in 1..Len(call.out) BY <1>1 DEF RingTypes, RingCalls
  <2>2. Honest(call.from + i - 1, call.out[i], call.at, InSlots) BY <2>1 DEF CallGoesWell
  <2>3. /\ call.from \in Nat /\ call.at \in Nat /\ Capacity \in Nat /\ i \in Nat
        /\ head \in Nat /\ stored \in Nat
    BY <2>1 DEF RingTypes, RingCalls, R!RingBounds
  <2> DEFINE p == call.from + i - 1
  <2>4. p \in Int BY <2>3
  <2>5. call.out[i] # p =>
          call.out[i] > p /\ p >= call.at - Capacity /\ p < head + stored - Capacity
    BY <2>2, <2>3 DEF Honest, InSlots
  <2> HIDE DEF p
  <2>6. CASE call.out[i] = p BY <2>6 DEF p
  <2>7. CASE call.out[i] # p
    <3>1. p \in call.at - Capacity..head + stored - Capacity - 1 BY <2>3, <2>4, <2>5, <2>7
    <3> QED BY <2>5, <2>7, <3>1 DEF p
  <2> QED BY <2>6, <2>7
<1>2. ASSUME NEW p \in call.asked..R!Least(call.from, call.end) - 1
      PROVE  samples[p % Capacity] # p
  <2>1. p \in Nat /\ call.asked <= p /\ p < call.from BY <1>2 DEF R!Least, RingTypes, RingCalls
  <2>2. p < call.at - Capacity /\ call.at <= head BY <2>1 DEF CallGoesWell
  <2>3. p < InSlots - Capacity BY <2>1, <2>2 DEF InSlots, RingTypes, RingCalls, R!RingBounds
  <2>4. samples[p % Capacity] > p BY <2>1, <2>3 DEF LastLap
  <2>5. samples[p % Capacity] \in Int BY <2>1, Remainder DEF RingTypes, R!RingBounds
  <2> QED BY <2>1, <2>4, <2>5
<1> QED BY <1>1, <1>2 DEF R!ReadsWhatWasCaptured



-----------------------------------------------------------------------------
(* The ring: the engine's cursors *)

\* A slot holds a sample of its own.
InItsSlot == \A s \in 0..Capacity - 1 : samples[s] = R!Silence \/ samples[s] % Capacity = s

\* The segment starts where it was judged to, which is not beyond what was
\* listened to, nor that beyond what was captured.
Cursors ==
  /\ phase \in {"idle", "recording", "finishing", "concluding"}
  /\ phase # "idle" => segStart <= judged /\ judged <= cursor /\ cursor <= head

\* What a read is for, and that it asks for what there is.
Asking ==
  /\ call.for = "none" => call = R!NoCall
  /\ phase = "idle" => call = R!NoCall
  /\ call.asked <= call.end /\ call.end <= head
  /\ call.for = "listen" => call.asked = cursor /\ phase \in {"recording", "finishing"}
  /\ call.for = "cut" => call.end \in segStart..judged /\ phase \in {"recording", "concluding"}

\* It is given no more than that.
Giving ==
  call.clamped =>
    /\ call.asked <= call.from /\ call.from <= call.to /\ call.to <= call.end
    /\ call.from + Len(call.out) <= call.to

Course == InItsSlot /\ Cursors /\ Asking /\ Giving

LEMMA CourseStarts == ASSUME R!RingBounds PROVE R!Init => Course
  BY DEF R!Init, R!RingBounds, Course, InItsSlot, Cursors, Asking, Giving, R!NoCall

\* The writer's steps, as far as the engine can tell.
LEMMA WriterCourse ==
  ASSUME R!RingBounds, RingInv, Course, R!StoreSample \/ R!Publish
  PROVE  Course'
<1>1. UNCHANGED <<phase, segStart, cursor, judged, call>> BY DEF R!StoreSample, R!Publish
<1>2. head' >= head /\ head \in Nat /\ head' \in Nat
  BY DEF R!StoreSample, R!Publish, RingInv, RingTypes, R!Chunk, R!Least, R!RingBounds
<1>3. segStart \in Nat /\ cursor \in Nat /\ judged \in Nat /\ call \in RingCalls BY DEF RingInv, RingTypes
<1>4. call.end \in Nat BY <1>3 DEF RingCalls
<1>5. Cursors' /\ Asking' /\ Giving' BY <1>1, <1>2, <1>3, <1>4 DEF Course, Cursors, Asking, Giving
<1>6. InItsSlot'
  <2>1. CASE R!Publish BY <2>1 DEF R!Publish, Course, InItsSlot
  <2>2. CASE R!StoreSample
    <3> DEFINE x == head + stored
    <3>1. x \in Nat /\ Capacity \in Nat \ {0} BY DEF RingInv, RingTypes, R!RingBounds
    <3>2. x % Capacity \in 0..Capacity - 1 BY <3>1, Remainder
    <3>3. samples' = [samples EXCEPT ![x % Capacity] = x] BY <2>2 DEF R!StoreSample
    <3> HIDE DEF x
    <3>4. \A s \in 0..Capacity - 1 : samples'[s] = IF s = x % Capacity THEN x ELSE samples[s]
      BY <3>2, <3>3 DEF RingInv, RingTypes
    <3> QED BY <3>4 DEF Course, InItsSlot
  <2> QED BY <2>1, <2>2
<1> QED BY <1>5, <1>6 DEF Course

LEMMA ReaderCourse ==
  ASSUME R!RingBounds, RingInv, Course, R!Clamp \/ R!Copy
  PROVE  Course'
<1>0. /\ head \in Nat /\ Capacity \in Nat \ {0} /\ segStart \in Nat /\ cursor \in Nat /\ judged \in Nat
      /\ call \in RingCalls
  BY DEF RingInv, RingTypes, R!RingBounds
<1>1. /\ call.asked \in Nat /\ call.end \in Nat /\ call.from \in Nat /\ call.to \in Nat
      /\ call.out \in Seq(Int) /\ Len(call.out) \in Nat
  BY <1>0 DEF RingCalls
<1>2. UNCHANGED <<samples, head, phase, segStart, cursor, judged>> BY DEF R!Clamp, R!Copy
<1>3. InItsSlot' /\ Cursors' BY <1>2 DEF Course, InItsSlot, Cursors
<1>4. CASE R!Clamp
  <2> DEFINE to == R!Least(call.end, head)
             from == R!Least(R!Most(call.asked, R!Oldest(head)), to)
  <2>1. call' = [call EXCEPT !.clamped = TRUE, !.at = head, !.to = to, !.from = from] /\ ~call.clamped
        /\ call.for # "none"
    BY <1>4 DEF R!Clamp, R!Clamped
  <2>2. call.asked <= call.end /\ call.end <= head BY DEF Course, Asking
  <2>3. to = call.end BY <1>0, <1>1, <2>2 DEF R!Least
  <2>4. R!Oldest(head) \in Nat BY <1>0 DEF R!Oldest, R!Less, R!Most
  <2>5. from \in Nat /\ call.asked <= from /\ from <= to BY <1>1, <2>2, <2>3, <2>4 DEF R!Least, R!Most
  <2> HIDE DEF from, to
  <2>6. /\ call'.clamped /\ call'.to = to /\ call'.from = from /\ call'.out = call.out
        /\ call'.asked = call.asked /\ call'.end = call.end /\ call'.for = call.for
    BY <1>0, <2>1 DEF RingCalls
  <2>7. call.out = <<>> BY <2>1 DEF RingInv, CallGoesWell
  <2>8. Giving'
    <3>1. Len(call'.out) = 0 BY <2>6, <2>7
    <3> QED BY <1>1, <2>3, <2>5, <2>6, <3>1 DEF Giving
  <2>9. phase # "idle"
    <3>1. R!NoCall.for = "none" BY DEF R!NoCall
    <3> QED BY <2>1, <3>1 DEF Course, Asking
  <2>10. Asking' BY <1>2, <2>1, <2>6, <2>9 DEF Course, Asking
  <2> QED BY <1>3, <2>8, <2>10 DEF Course
<1>5. CASE R!Copy
  <2>1. PICK v \in R!Loads : call' = [call EXCEPT !.out = Append(call.out, v)] BY <1>5 DEF R!Copy
  <2>2. call.clamped /\ R!Position < call.to /\ R!Position = call.from + Len(call.out) BY <1>5 DEF R!Copy, R!Position
  <2>3. /\ call'.clamped = call.clamped /\ call'.to = call.to /\ call'.from = call.from
        /\ call'.out = Append(call.out, v)
        /\ call'.asked = call.asked /\ call'.end = call.end /\ call'.for = call.for
    BY <1>0, <2>1 DEF RingCalls
  <2>4. Len(call'.out) = Len(call.out) + 1 BY <1>1, <2>3
  <2>5. Giving' BY <1>1, <2>2, <2>3, <2>4 DEF Course, Giving
  <2>6. call.for # "none" /\ phase # "idle"
    <3>1. ~R!NoCall.clamped BY DEF R!NoCall
    <3> QED BY <2>2, <3>1 DEF Course, Asking
  <2>7. Asking' BY <1>2, <2>3, <2>6 DEF Course, Asking
  <2> QED BY <1>3, <2>5, <2>7 DEF Course
<1> QED BY <1>4, <1>5

LEMMA NoneAsked ==
  /\ R!NoCall.for = "none" /\ ~R!NoCall.clamped /\ R!NoCall.asked = 0 /\ R!NoCall.end = 0 /\ R!NoCall.out = <<>>
  BY DEF R!NoCall

LEMMA AsksFor ==
  ASSUME NEW f, NEW a, NEW e, R!Read(f, a, e)
  PROVE  call'.for = f /\ call'.asked = a /\ call'.end = e /\ ~call'.clamped
  BY DEF R!Read, R!NoCall

LEMMA EngineCourse ==
  ASSUME R!RingBounds, RingInv, Course,
         \/ R!StartRecording \/ R!Listen \/ R!Listened \/ R!Cut \/ R!FinishRecording
         \/ R!Conclude \/ R!SegmentRead \/ R!Cancel
  PROVE  Course'
<1>0. /\ head \in Nat /\ segStart \in Nat /\ cursor \in Nat /\ judged \in Nat /\ call \in RingCalls
      /\ Preroll \in Nat
  BY DEF RingInv, RingTypes, R!RingBounds
<1>1. /\ call.asked \in Nat /\ call.end \in Nat /\ call.from \in Nat /\ call.to \in Nat
      /\ Len(call.out) \in Nat
  BY <1>0 DEF RingCalls
<1>2. UNCHANGED <<samples, head>>
  BY DEF R!StartRecording, R!Listen, R!Listened, R!Cut, R!FinishRecording, R!Conclude, R!SegmentRead, R!Cancel
<1>3. InItsSlot' BY <1>2 DEF Course, InItsSlot
<1>4. Cursors /\ Asking /\ Giving BY DEF Course
<1> SUFFICES Cursors' /\ Asking' /\ Giving' BY <1>3 DEF Course
<1>5. CASE R!StartRecording
  <2>1. /\ phase = "idle" /\ phase' = "recording" /\ segStart' = R!Less(head, Preroll)
        /\ cursor' = segStart' /\ judged' = segStart' /\ call' = call
    BY <1>5 DEF R!StartRecording
  <2>2. segStart' \in Nat /\ segStart' <= head BY <1>0, <2>1 DEF R!Less, R!Most
  <2>3. Cursors' BY <1>2, <2>1, <2>2 DEF Cursors
  <2>4. call = R!NoCall BY <1>4, <2>1 DEF Asking
  <2> QED BY <1>0, <1>2, <2>1, <2>3, <2>4, NoneAsked DEF Asking, Giving
<1>6. CASE R!Listen
  <2>1. /\ phase = "recording" /\ head > cursor /\ R!Read("listen", cursor, head)
        /\ UNCHANGED <<phase, segStart, cursor, judged>>
    BY <1>6 DEF R!Listen
  <2>2. call'.for = "listen" /\ call'.asked = cursor /\ call'.end = head /\ ~call'.clamped BY <2>1, AsksFor
  <2> QED BY <1>0, <1>2, <1>4, <2>1, <2>2 DEF Cursors, Asking, Giving
<1>7. CASE R!Listened
  <2>1. /\ call.for = "listen" /\ call.clamped /\ call.from + Len(call.out) = call.to
        /\ judged' = cursor + Len(call.out) /\ cursor' = call.end /\ call' = R!NoCall
        /\ phase' = (IF phase = "finishing" THEN "concluding" ELSE phase) /\ segStart' = segStart
    BY <1>7 DEF R!Listened, R!Copied, R!Position
  <2>2. /\ call.asked = cursor /\ call.asked <= call.from /\ call.to <= call.end /\ call.end <= head
        /\ phase \in {"recording", "finishing"} /\ segStart <= cursor
    BY <1>0, <1>4, <2>1 DEF Asking, Giving, Cursors
  <2>3. segStart' <= judged' /\ judged' <= cursor' /\ cursor' <= head BY <1>0, <1>1, <2>1, <2>2
  <2>4. phase' \in {"recording", "concluding"} BY <2>1, <2>2
  <2> QED BY <1>0, <1>2, <2>1, <2>3, <2>4, NoneAsked DEF Cursors, Asking, Giving
<1>8. CASE R!Cut
  <2>1. PICK at \in segStart..judged :
          \/ R!Read("cut", segStart, at) /\ UNCHANGED segStart
          \/ segStart' = at /\ UNCHANGED call
    BY <1>8 DEF R!Cut
  <2>2. phase \in {"recording", "concluding"} /\ call = R!NoCall /\ UNCHANGED <<phase, cursor, judged>>
    BY <1>8 DEF R!Cut
  <2>3. judged <= cursor /\ cursor <= head /\ segStart <= judged BY <1>4, <2>2 DEF Cursors
  <2>4. CASE R!Read("cut", segStart, at) /\ UNCHANGED segStart
    <3>1. call'.for = "cut" /\ call'.asked = segStart /\ call'.end = at /\ ~call'.clamped BY <2>4, AsksFor
    <3>2. at <= head /\ segStart <= at BY <1>0, <2>3
    <3> QED BY <1>2, <1>4, <2>2, <2>4, <3>1, <3>2 DEF Cursors, Asking, Giving
  <2>5. CASE segStart' = at /\ UNCHANGED call
    <3>1. segStart' <= judged BY <2>5
    <3> QED BY <1>0, <1>2, <2>2, <2>3, <2>5, <3>1, NoneAsked DEF Cursors, Asking, Giving
  <2> QED BY <2>1, <2>4, <2>5
<1>9. CASE R!FinishRecording
  <2>1. /\ phase = "recording" /\ call = R!NoCall /\ UNCHANGED <<segStart, cursor, judged>>
        /\ IF head > cursor
           THEN phase' = "finishing" /\ R!Read("listen", cursor, head)
           ELSE phase' = "concluding" /\ UNCHANGED call
    BY <1>9 DEF R!FinishRecording
  <2>2. CASE head > cursor
    <3>1. call'.for = "listen" /\ call'.asked = cursor /\ call'.end = head /\ ~call'.clamped
      BY <2>1, <2>2, AsksFor
    <3> QED BY <1>0, <1>2, <1>4, <2>1, <2>2, <3>1 DEF Cursors, Asking, Giving
  <2>3. CASE ~(head > cursor)
    BY <1>0, <1>2, <1>4, <2>1, <2>3, NoneAsked DEF Cursors, Asking, Giving
  <2> QED BY <2>2, <2>3
<1>10. CASE R!Conclude
  <2>1. /\ phase = "concluding" /\ call = R!NoCall /\ UNCHANGED <<cursor, judged>>
        /\ \/ R!Read("last", segStart, cursor) /\ UNCHANGED <<phase, segStart>>
           \/ segStart' = cursor /\ phase' = "idle" /\ UNCHANGED call
    BY <1>10 DEF R!Conclude
  <2>2. segStart <= cursor /\ cursor <= head BY <1>0, <1>4, <2>1 DEF Cursors
  <2>3. CASE R!Read("last", segStart, cursor) /\ UNCHANGED <<phase, segStart>>
    <3>1. call'.for = "last" /\ call'.asked = segStart /\ call'.end = cursor /\ ~call'.clamped
      BY <2>3, AsksFor
    <3> QED BY <1>2, <1>4, <2>1, <2>2, <2>3, <3>1 DEF Cursors, Asking, Giving
  <2>4. CASE segStart' = cursor /\ phase' = "idle" /\ UNCHANGED call
    BY <1>0, <1>2, <2>1, <2>4, NoneAsked DEF Cursors, Asking, Giving
  <2> QED BY <2>1, <2>3, <2>4
<1>11. CASE R!SegmentRead
  <2>1. /\ call.for \in {"cut", "last"} /\ segStart' = call.end
        /\ phase' = (IF call.for = "last" THEN "idle" ELSE phase)
        /\ call' = R!NoCall /\ UNCHANGED <<cursor, judged>>
    BY <1>11 DEF R!SegmentRead
  <2>2. CASE call.for = "cut"
    <3>1. segStart' <= judged /\ phase' = phase /\ phase # "idle" BY <1>0, <1>4, <2>1, <2>2 DEF Asking
    <3> QED BY <1>0, <1>2, <1>4, <2>1, <3>1, NoneAsked DEF Cursors, Asking, Giving
  <2>3. CASE call.for = "last"
    BY <1>0, <1>2, <2>1, <2>3, NoneAsked DEF Cursors, Asking, Giving
  <2> QED BY <2>1, <2>2, <2>3
<1>12. CASE R!Cancel
  BY <1>0, <1>2, <1>12, NoneAsked DEF R!Cancel, Cursors, Asking, Giving
<1> QED BY <1>5, <1>6, <1>7, <1>8, <1>9, <1>10, <1>11, <1>12

LEMMA CourseStep == ASSUME R!RingBounds, RingInv, Course, [R!Next]_R!rvars PROVE Course'
<1>1. CASE R!Dequeue \/ R!StreamErrors \/ R!Reconnects \/ UNCHANGED R!rvars
  BY <1>1 DEF R!Dequeue, R!StreamErrors, R!Reconnects, R!rvars, Course, InItsSlot, Cursors, Asking, Giving
<1> QED BY <1>1, WriterCourse, ReaderCourse, EngineCourse DEF R!Next

LEMMA CourseTyped == ASSUME R!RingBounds, RingInv, Course PROVE R!TypeOK
<1>1. \A s \in DOMAIN samples : samples[s] = R!Silence \/ samples[s] % Capacity = s
  BY DEF RingInv, RingTypes, Course, InItsSlot
<1>2. stored <= Block /\ stored <= buffer BY DEF RingInv, RingTypes, R!Chunk, R!Least, R!RingBounds
<1>3. phase \in {"idle", "recording", "finishing", "concluding"} BY DEF Course, Cursors
<1>4. phase # "idle" => segStart <= judged /\ segStart <= cursor /\ cursor <= head
  BY DEF Course, Cursors, RingInv, RingTypes
<1>5. ASSUME call.clamped PROVE call.from <= call.to /\ Len(call.out) <= Capacity
  <2>1. /\ call.from \in Nat /\ call.to \in Nat /\ call.at \in Nat /\ Len(call.out) \in Nat
        /\ Capacity \in Nat /\ head \in Nat
    BY DEF RingInv, RingTypes, RingCalls, R!RingBounds
  <2>2. call.from <= call.to /\ call.from + Len(call.out) <= call.to BY <1>5 DEF Course, Giving
  <2>3. call.to <= call.at /\ (call.from < call.to => call.from >= call.at - Capacity)
    BY <1>5 DEF RingInv, CallGoesWell
  <2> QED BY <2>1, <2>2, <2>3
<1> QED BY <1>1, <1>2, <1>3, <1>4, <1>5 DEF R!TypeOK

\* Whichever component a behaviour is of, the ring takes a step of its own or
\* none.
LEMMA RingAlone == ASSUME [Next]_vars PROVE [R!Next]_R!rvars
<1> USE DEF R!rvars
<1>1. CASE CaptureStep BY <1>1 DEF CaptureStep
<1>2. CASE MirrorsStep BY <1>2 DEF MirrorsStep, capture
<1>3. CASE UpstreamStep BY <1>3 DEF UpstreamStep, capture
<1>4. CASE PopupStep BY <1>4 DEF PopupStep, capture
<1>5. CASE FieldStep BY <1>5 DEF FieldStep, capture
<1>6. CASE TypingStep BY <1>6 DEF TypingStep, capture
<1>7. CASE UNCHANGED vars BY <1>7 DEF vars, capture
<1> QED BY <1>1, <1>2, <1>3, <1>4, <1>5, <1>6, <1>7 DEF Next

LEMMA CaptureInvariant == Spec => [](RingInv /\ Course)
<1>1. R!RingBounds BY PeripheryAssumption
<1>2. Init => RingInv /\ Course BY <1>1, RingStarts, CourseStarts DEF Init
<1>3. RingInv /\ Course /\ [Next]_vars => RingInv' /\ Course'
  BY <1>1, RingAlone, RingStep, CourseStep
<1> QED BY <1>2, <1>3, PTL DEF Spec

\* A read gives the samples captured at the positions it was asked for, or what
\* the writer put in their slots since, and skips only what is overwritten
\* (audio.rs read): for a ring of any size, blocks and buffers of any length,
\* any pre-roll and any interleaving of the realtime thread with the engine's.
THEOREM CaptureIsRead == Spec => []ReadsWhatWasCaptured
<1>1. R!RingBounds BY PeripheryAssumption
<1>2. RingInv /\ Course => ReadsWhatWasCaptured
  BY <1>1, RingSound DEF ReadsWhatWasCaptured
<1> QED BY <1>2, CaptureInvariant, PTL

-----------------------------------------------------------------------------
(* Mirrors: the inductive invariant *)

MirrorValues ==
  {"none", "Starting", "Idle", "Disabled", "Recording", "Injected", "Failed", "Rebinding",
   "Off", "Running", "Blocked", "Stopped", "text"} \cup BOOLEAN \cup Triggers
MirrorEvents == [facet : M!Facets \cup {"partial"}, value : MirrorValues]

\* No event of facet f is in q; the last one there says v.
NoneIn(q, f)    == \A i \in DOMAIN q : q[i].facet # f
LastIn(q, f, v) ==
  \E i \in DOMAIN q : /\ q[i].facet = f /\ q[i].value = v
                      /\ \A j \in DOMAIN q : j > i => q[j].facet # f

MirrorTypes ==
  /\ role \in [Procs -> M!Roles]
  /\ config \in [Procs -> Triggers] /\ disk \in M!Files
  /\ slot \in SUBSET Procs
  /\ engine \in [ready : BOOLEAN, enabled : BOOLEAN, phase : {"Idle", "Recording", "Rebinding"}]
  /\ latest \in [M!Facets -> MirrorValues]
  /\ view \in [Procs -> [M!Facets -> MirrorValues]]
  /\ replay \in [Procs -> Seq(MirrorEvents)]
  /\ live \in [Procs -> Seq(MirrorEvents)]
  /\ feed \in [Procs -> Seq(MirrorEvents)]
  /\ linked \in [Procs -> BOOLEAN] /\ watching \in [Procs -> BOOLEAN]
  /\ missed \in [Procs -> SUBSET (M!Facets \cup {"partial"})]

\* The lock has one holder.
OnePrimary == \A p, o \in Procs : role[p] = "primary" /\ role[o] = "primary" => p = o

\* What a process's role says of its socket.
SocketInv ==
  \A p \in Procs :
    /\ linked[p] => role[p] = "mirror" /\ \E o \in Procs : role[o] = "primary"
    /\ ~linked[p] => live[p] = <<>>
    /\ role[p] # "mirror" => replay[p] = <<>>
    /\ Len(live[p]) <= Cap /\ Len(feed[p]) <= Cap
    /\ p \in slot => role[p] # "off"

\* A view that shows what the engine last said of a facet.
Shows(v, f, x) ==
  \/ v[f] = x
  \/ f = "state" /\ x = "Injected" /\ v[f] = "Idle"
  \/ f = "state" /\ x = "Idle" /\ v[f] = "Failed"

\* It does, or the last event that is still on its way says it.
OnItsWay(qs, qr, qf, v, f, x) ==
  \/ LastIn(qs, f, x)
  \/ NoneIn(qs, f) /\ LastIn(qr, f, x)
  \/ NoneIn(qs, f) /\ NoneIn(qr, f) /\ LastIn(qf, f, x)
  \/ NoneIn(qs, f) /\ NoneIn(qr, f) /\ NoneIn(qf, f) /\ Shows(v, f, x)

Tuned(p) == role[p] = "primary" \/ linked[p]

NewsInv ==
  \A p \in Procs : Tuned(p) => \A f \in M!Facets \ missed[p] :
    OnItsWay(live[p], replay[p], feed[p], view[p], f, latest[f])

MirrorsInv == MirrorTypes /\ OnePrimary /\ SocketInv /\ NewsInv

-----------------------------------------------------------------------------
(* Mirrors: events on their way *)

LEMMA NoneOrFacet == ASSUME NEW q, NEW f PROVE NoneIn(q, f) <=> f \notin M!FacetsOf(q)
  BY DEF NoneIn, M!FacetsOf

LEMMA EmptyHasNone == ASSUME NEW f PROVE NoneIn(<<>>, f)
  BY DEF NoneIn

\* Of a facet that occurs there is a last event.
LEMMA LastExists ==
  ASSUME NEW S, NEW q \in Seq(S), NEW f, ~NoneIn(q, f)
  PROVE  /\ M!Newest(q, f) \in {q[i].value : i \in DOMAIN q}
         /\ LastIn(q, f, M!Newest(q, f))
<1> DEFINE Is(i) == q[i].facet = f /\ \A j \in DOMAIN q : j > i => q[j].facet # f
           those == {i \in DOMAIN q : q[i].facet = f}
<1>1. Len(q) \in Nat /\ DOMAIN q = 1..Len(q) BY LenProperties
<1>2. those \in SUBSET (0..Len(q)) /\ those # {} BY <1>1 DEF NoneIn
<1>3. PICK m \in those : \A k \in those : k <= m BY <1>1, <1>2, GreatestOf
<1>4. m \in DOMAIN q /\ Is(m)
  <2>1. ASSUME NEW j \in DOMAIN q, j > m PROVE q[j].facet # f
    <3>1. j \notin those BY <1>1, <1>3, <2>1
    <3> QED BY <3>1
  <2> QED BY <2>1
<1>5. PICK c : c = CHOOSE i \in DOMAIN q : Is(i) OBVIOUS
<1>6. c \in DOMAIN q /\ Is(c) BY <1>4, <1>5
<1>7. M!Newest(q, f) = q[c].value BY <1>5 DEF M!Newest
<1> QED BY <1>6, <1>7 DEF LastIn

\* The last event is one.
LEMMA LastUnique ==
  ASSUME NEW S, NEW q \in Seq(S), NEW f, NEW v, NEW w, LastIn(q, f, v), LastIn(q, f, w)
  PROVE  v = w
<1>1. Len(q) \in Nat /\ DOMAIN q = 1..Len(q) BY LenProperties
<1>2. PICK i \in DOMAIN q : /\ q[i].facet = f /\ q[i].value = v
                            /\ \A j \in DOMAIN q : j > i => q[j].facet # f
  BY DEF LastIn
<1>3. PICK k \in DOMAIN q : /\ q[k].facet = f /\ q[k].value = w
                            /\ \A j \in DOMAIN q : j > k => q[j].facet # f
  BY DEF LastIn
<1>4. i = k BY <1>1, <1>2, <1>3
<1> QED BY <1>2, <1>3, <1>4

\* What is read from the front is the last of its facet, or not.
LEMMA TakeEvent ==
  ASSUME NEW S, NEW q \in Seq(S), q # <<>>
  PROVE  /\ Head(q) \in S /\ Tail(q) \in Seq(S) /\ Len(Tail(q)) = Len(q) - 1
         /\ \A f : NoneIn(q, f) => NoneIn(Tail(q), f)
         /\ \A f : NoneIn(Tail(q), f) /\ Head(q).facet # f => NoneIn(q, f)
         /\ \A f, v : LastIn(q, f, v) =>
              \/ LastIn(Tail(q), f, v)
              \/ NoneIn(Tail(q), f) /\ Head(q).facet = f /\ Head(q).value = v
<1>1. /\ Head(q) \in S /\ Tail(q) \in Seq(S) /\ Len(Tail(q)) = Len(q) - 1
      /\ \A i \in 1..Len(Tail(q)) : Tail(q)[i] = q[i + 1]
  BY HeadTailProperties
<1>2. Len(q) \in Nat \ {0} /\ DOMAIN q = 1..Len(q) /\ Head(q) = q[1]
  BY EmptySeq, LenProperties
<1>3. DOMAIN Tail(q) = 1..Len(q) - 1 BY <1>1, LenProperties
<1>4. \A i \in DOMAIN Tail(q) : i + 1 \in DOMAIN q /\ Tail(q)[i] = q[i + 1] BY <1>1, <1>2, <1>3
<1>5. \A i \in DOMAIN q : i = 1 \/ (i - 1 \in DOMAIN Tail(q) /\ Tail(q)[i - 1] = q[i]) BY <1>1, <1>2, <1>3
<1>6. ASSUME NEW f PROVE /\ NoneIn(q, f) => NoneIn(Tail(q), f)
                         /\ NoneIn(Tail(q), f) /\ Head(q).facet # f => NoneIn(q, f)
  BY <1>2, <1>4, <1>5 DEF NoneIn
<1>7. ASSUME NEW f, NEW v, LastIn(q, f, v)
      PROVE  \/ LastIn(Tail(q), f, v)
             \/ NoneIn(Tail(q), f) /\ Head(q).facet = f /\ Head(q).value = v
  <2>1. PICK i \in DOMAIN q : /\ q[i].facet = f /\ q[i].value = v
                              /\ \A j \in DOMAIN q : j > i => q[j].facet # f
    BY <1>7 DEF LastIn
  <2>2. \A j \in DOMAIN Tail(q) : j + 1 > i => Tail(q)[j].facet # f BY <1>4, <2>1
  <2>3. CASE i = 1
    <3>1. \A j \in DOMAIN Tail(q) : j + 1 > 1 BY <1>2, <1>3
    <3> QED BY <1>2, <2>1, <2>2, <2>3, <3>1 DEF NoneIn
  <2>4. CASE i # 1
    <3>1. i - 1 \in DOMAIN Tail(q) /\ Tail(q)[i - 1] = q[i] BY <1>5, <2>4
    <3>2. \A j \in DOMAIN Tail(q) : j > i - 1 => j + 1 > i BY <1>2, <1>3
    <3> QED BY <2>1, <2>2, <3>1, <3>2 DEF LastIn
  <2> QED BY <2>3, <2>4
<1> QED BY <1>1, <1>6, <1>7

LEMMA NoneInBoth ==
  ASSUME NEW S, NEW q \in Seq(S), NEW r \in Seq(S), NEW f
  PROVE  NoneIn(q \o r, f) <=> NoneIn(q, f) /\ NoneIn(r, f)
<1> DEFINE both == q \o r
<1>1. /\ Len(q) \in Nat /\ Len(r) \in Nat /\ DOMAIN q = 1..Len(q) /\ DOMAIN r = 1..Len(r)
      /\ both \in Seq(S) /\ Len(both) = Len(q) + Len(r)
      /\ \A i \in 1..Len(q) + Len(r) : both[i] = IF i <= Len(q) THEN q[i] ELSE r[i - Len(q)]
  BY LenProperties, ConcatProperties
<1>2. DOMAIN both = 1..Len(q) + Len(r) BY <1>1, LenProperties
<1>3. \A i \in DOMAIN q : i \in DOMAIN both /\ both[i] = q[i] BY <1>1, <1>2
<1>4. \A i \in DOMAIN r : Len(q) + i \in DOMAIN both /\ both[Len(q) + i] = r[i] BY <1>1, <1>2
<1>5. ASSUME NEW i \in DOMAIN both
      PROVE  (i \in DOMAIN q /\ both[i] = q[i]) \/ (i - Len(q) \in DOMAIN r /\ both[i] = r[i - Len(q)])
  <2>1. i \in 1..Len(q) + Len(r) /\ both[i] = IF i <= Len(q) THEN q[i] ELSE r[i - Len(q)] BY <1>1, <1>2
  <2>2. CASE i <= Len(q) BY <1>1, <2>1, <2>2
  <2>3. CASE ~(i <= Len(q))
    <3>1. i - Len(q) \in 1..Len(r) BY <1>1, <2>1, <2>3
    <3> QED BY <1>1, <2>1, <2>3, <3>1
  <2> QED BY <2>2, <2>3
<1> HIDE DEF both
<1>6. NoneIn(both, f) => NoneIn(q, f) /\ NoneIn(r, f) BY <1>3, <1>4 DEF NoneIn
<1>7. NoneIn(q, f) /\ NoneIn(r, f) => NoneIn(both, f) BY <1>5 DEF NoneIn
<1> QED BY <1>6, <1>7 DEF both

\* What is taken from two queues in a row is taken from the first.
LEMMA HeadTailConcat ==
  ASSUME NEW S, NEW q \in Seq(S), NEW r \in Seq(S), q # <<>>
  PROVE  Tail(q \o r) = Tail(q) \o r
<1>1. /\ Len(q) \in Nat /\ Len(r) \in Nat /\ Len(q) # 0
      /\ q \o r \in Seq(S) /\ Len(q \o r) = Len(q) + Len(r)
      /\ \A i \in 1..Len(q) + Len(r) : (q \o r)[i] = IF i <= Len(q) THEN q[i] ELSE r[i - Len(q)]
  BY LenProperties, ConcatProperties, EmptySeq
<1>2. q \o r # <<>> BY <1>1, EmptySeq
<1>3. /\ Tail(q) \in Seq(S) /\ Len(Tail(q)) = Len(q) - 1
      /\ \A i \in 1..Len(Tail(q)) : Tail(q)[i] = q[i + 1]
  BY HeadTailProperties
<1>4. /\ Tail(q \o r) \in Seq(S) /\ Len(Tail(q \o r)) = Len(q \o r) - 1
      /\ \A i \in 1..Len(Tail(q \o r)) : Tail(q \o r)[i] = (q \o r)[i + 1]
  BY <1>1, <1>2, HeadTailProperties
<1>5. /\ Tail(q) \o r \in Seq(S) /\ Len(Tail(q) \o r) = Len(Tail(q)) + Len(r)
      /\ \A i \in 1..Len(Tail(q)) + Len(r) :
           (Tail(q) \o r)[i] = IF i <= Len(Tail(q)) THEN Tail(q)[i] ELSE r[i - Len(Tail(q))]
  BY <1>3, ConcatProperties
<1>6. Len(Tail(q \o r)) = Len(Tail(q) \o r) BY <1>1, <1>3, <1>4, <1>5
<1>7. ASSUME NEW i \in 1..Len(Tail(q \o r)) PROVE Tail(q \o r)[i] = (Tail(q) \o r)[i]
  <2>1. i \in Nat /\ 1 <= i /\ i + 1 \in 1..Len(q) + Len(r) BY <1>1, <1>4
  <2>2. CASE i <= Len(Tail(q))
    <3>1. i + 1 <= Len(q) /\ i \in 1..Len(Tail(q)) BY <1>1, <1>3, <2>1, <2>2
    <3> QED BY <1>1, <1>3, <1>4, <1>5, <2>1, <2>2, <3>1
  <2>3. CASE ~(i <= Len(Tail(q)))
    <3>1. ~(i + 1 <= Len(q)) /\ i + 1 - Len(q) = i - Len(Tail(q)) BY <1>1, <1>3, <2>1, <2>3
    <3>2. Tail(q \o r)[i] = r[i + 1 - Len(q)] BY <1>1, <1>4, <2>1, <3>1
    <3>3. i \in 1..Len(Tail(q)) + Len(r) BY <1>1, <1>3, <1>4
    <3>4. (Tail(q) \o r)[i] = r[i - Len(Tail(q))] BY <1>5, <2>3, <3>3
    <3> QED BY <3>1, <3>2, <3>4
  <2> QED BY <2>2, <2>3
<1> QED BY <1>4, <1>5, <1>6, <1>7, SeqEqual

\* What a receiver holds after some events: the newest Cap at most, and of
\* each facet it still has, the newest.
LEMMA PushEvents ==
  ASSUME NEW S, NEW q \in Seq(S), NEW es \in Seq(S), Cap \in Nat \ {0}
  PROVE  /\ M!PushAll(q, es) \in Seq(S) /\ Len(M!PushAll(q, es)) <= Cap
         /\ \A f : NoneIn(q, f) /\ NoneIn(es, f) => NoneIn(M!PushAll(q, es), f)
         /\ \A f : ~NoneIn(M!PushAll(q, es), f) /\ ~NoneIn(es, f) =>
              LastIn(M!PushAll(q, es), f, M!Newest(es, f))
         /\ \A f, v : ~NoneIn(M!PushAll(q, es), f) /\ NoneIn(es, f) /\ LastIn(q, f, v) =>
              LastIn(M!PushAll(q, es), f, v)
         /\ \A f : f \notin M!LostFor(q, es) /\ ~(NoneIn(q, f) /\ NoneIn(es, f)) =>
              ~NoneIn(M!PushAll(q, es), f)
<1> DEFINE n == Len(q)
           k == Len(es)
           all == q \o es
           lo == IF Len(all) > Cap THEN Len(all) - Cap + 1 ELSE 1
           t == SubSeq(all, lo, Len(all))
<1>1. /\ n \in Nat /\ k \in Nat /\ DOMAIN q = 1..n /\ DOMAIN es = 1..k
      /\ all \in Seq(S) /\ Len(all) = n + k /\ DOMAIN all = 1..n + k
      /\ \A i \in 1..n + k : all[i] = IF i <= n THEN q[i] ELSE es[i - n]
  BY LenProperties, ConcatProperties
<1>2. M!PushAll(q, es) = t BY DEF M!PushAll
<1>3. lo \in Nat /\ 1 <= lo /\ lo <= Len(all) + 1 BY <1>1
<1> HIDE DEF all, lo
<1>4. /\ t \in Seq(S) /\ Len(t) = n + k - lo + 1
      /\ \A i \in 1..n + k - lo + 1 : t[i] = all[lo + i - 1]
  <2>1. lo \in Int /\ Len(all) \in Int /\ \A i \in lo..Len(all) : all[i] \in S
    BY <1>1, <1>3, ElementOfSeq
  <2>2. /\ t \in Seq(S) /\ Len(t) = IF lo <= Len(all) THEN Len(all) - lo + 1 ELSE 0
        /\ \A i \in 1..Len(all) - lo + 1 : t[i] = all[lo + i - 1]
    BY <2>1, SubSeqProperties
  <2> HIDE DEF t
  <2>3. Len(all) = n + k /\ n \in Nat /\ k \in Nat BY <1>1
  <2> HIDE DEF n, k
  <2>4. Len(t) = n + k - lo + 1 BY <1>3, <2>2, <2>3
  <2>5. Len(all) - lo + 1 = n + k - lo + 1 BY <1>3, <2>3
  <2> QED BY <2>2, <2>4, <2>5
<1>5. DOMAIN t = 1..n + k - lo + 1 BY <1>4, LenProperties
<1>6. Len(t) <= Cap
  <2>1. n + k > Cap => lo = n + k - Cap + 1 BY <1>1 DEF lo
  <2>2. n + k <= Cap => lo = 1 BY <1>1 DEF lo
  <2> QED BY <1>1, <1>3, <1>4, <2>1, <2>2
<1>7. \A i \in DOMAIN t : lo + i - 1 \in DOMAIN all /\ t[i] = all[lo + i - 1] BY <1>1, <1>3, <1>4, <1>5
<1>8. \A i \in DOMAIN all : i >= lo => i - lo + 1 \in DOMAIN t /\ t[i - lo + 1] = all[i] BY <1>1, <1>3, <1>4, <1>5
<1>9. \A i \in DOMAIN q : i \in DOMAIN all /\ all[i] = q[i] BY <1>1
<1>10. \A i \in DOMAIN es : n + i \in DOMAIN all /\ all[n + i] = es[i] BY <1>1
<1>11. \A i \in DOMAIN all : (i \in DOMAIN q /\ all[i] = q[i]) \/ (i > n /\ i - n \in DOMAIN es /\ all[i] = es[i - n]) BY <1>1
<1> HIDE DEF t
<1>12. ASSUME NEW f PROVE NoneIn(all, f) <=> NoneIn(q, f) /\ NoneIn(es, f)
  BY <1>9, <1>10, <1>11 DEF NoneIn
<1>13. ASSUME NEW f PROVE NoneIn(all, f) => NoneIn(t, f) BY <1>7 DEF NoneIn
\* The last in all of a facet that the rest still has is the last in the rest.
<1>14. ASSUME NEW f, NEW v, LastIn(all, f, v), ~NoneIn(t, f) PROVE LastIn(t, f, v)
  <2>1. PICK i \in DOMAIN all : /\ all[i].facet = f /\ all[i].value = v
                                /\ \A j \in DOMAIN all : j > i => all[j].facet # f
    BY <1>14 DEF LastIn
  <2>2. PICK c \in DOMAIN t : t[c].facet = f BY <1>14 DEF NoneIn
  <2>3. lo + c - 1 \in DOMAIN all /\ ~(lo + c - 1 > i) BY <1>7, <2>1, <2>2
  <2>4. i >= lo BY <1>1, <1>3, <1>5, <2>2, <2>3
  <2>5. i - lo + 1 \in DOMAIN t /\ t[i - lo + 1] = all[i] BY <1>8, <2>4
  <2>6. \A j \in DOMAIN t : j > i - lo + 1 => lo + j - 1 > i BY <1>1, <1>3, <1>5
  <2>7. \A j \in DOMAIN t : j > i - lo + 1 => t[j].facet # f BY <1>7, <2>1, <2>6
  <2> QED BY <2>1, <2>5, <2>7 DEF LastIn
<1>15. ASSUME NEW f, NEW v, LastIn(es, f, v) PROVE LastIn(all, f, v)
  <2>1. PICK i \in DOMAIN es : /\ es[i].facet = f /\ es[i].value = v
                               /\ \A j \in DOMAIN es : j > i => es[j].facet # f
    BY <1>15 DEF LastIn
  <2>2. \A j \in DOMAIN all : j > n + i => j - n \in DOMAIN es /\ j - n > i /\ all[j] = es[j - n] BY <1>1
  <2> QED BY <1>10, <2>1, <2>2 DEF LastIn
<1>16. ASSUME NEW f, NEW v, LastIn(q, f, v), NoneIn(es, f) PROVE LastIn(all, f, v)
  <2>1. PICK i \in DOMAIN q : /\ q[i].facet = f /\ q[i].value = v
                              /\ \A j \in DOMAIN q : j > i => q[j].facet # f
    BY <1>16 DEF LastIn
  <2>2. \A j \in DOMAIN all : j > i => all[j].facet # f BY <1>11, <1>16, <2>1 DEF NoneIn
  <2> QED BY <1>9, <2>1, <2>2 DEF LastIn
<1>17. ASSUME NEW f PROVE f \notin M!LostFor(q, es) /\ ~NoneIn(all, f) => ~NoneIn(t, f)
  BY <1>2, NoneOrFacet DEF M!LostFor, all
<1>18. ASSUME NEW f, ~NoneIn(es, f) PROVE LastIn(es, f, M!Newest(es, f)) BY <1>18, LastExists
<1> QED BY <1>2, <1>4, <1>6, <1>12, <1>13, <1>14, <1>15, <1>16, <1>17, <1>18

LEMMA FacetsAre ==
  ASSUME NEW q \in Seq(MirrorEvents)
  PROVE  M!FacetsOf(q) \in SUBSET (M!Facets \cup {"partial"})
<1>1. ASSUME NEW i \in DOMAIN q PROVE q[i].facet \in M!Facets \cup {"partial"}
  <2>1. q[i] \in MirrorEvents BY LenProperties, ElementOfSeq
  <2> QED BY <2>1 DEF MirrorEvents
<1> QED BY <1>1 DEF M!FacetsOf

\* A facet that was not lost is held as new as it has been sent.
LEMMA PushKeeps ==
  ASSUME NEW q \in Seq(MirrorEvents), NEW es \in Seq(MirrorEvents), NEW f, NEW x,
         Cap \in Nat \ {0}, f \notin M!LostFor(q, es)
  PROVE  /\ f \in M!FacetsOf(es) => LastIn(M!PushAll(q, es), f, M!Newest(es, f))
         /\ f \notin M!FacetsOf(es) /\ LastIn(q, f, x) => LastIn(M!PushAll(q, es), f, x)
         /\ f \notin M!FacetsOf(es) /\ NoneIn(q, f) => NoneIn(M!PushAll(q, es), f)
<1>1. LastIn(q, f, x) => ~NoneIn(q, f) BY DEF LastIn, NoneIn
<1>2. f \in M!FacetsOf(es) <=> ~NoneIn(es, f) BY NoneOrFacet
<1> QED BY <1>1, <1>2, PushEvents

\* A single event is the newest of its facet.
LEMMA OneEvent ==
  ASSUME NEW e, NEW f
  PROVE  /\ M!FacetsOf(<<e>>) = {e.facet}
         /\ M!Newest(<<e>>, e.facet) = e.value
<1>1. DOMAIN <<e>> = {1} /\ <<e>>[1] = e OBVIOUS
<1>2. M!FacetsOf(<<e>>) = {e.facet} BY <1>1 DEF M!FacetsOf
<1>3. PICK c : c = CHOOSE i \in DOMAIN <<e>> :
                     <<e>>[i].facet = e.facet /\ \A j \in DOMAIN <<e>> : j > i => <<e>>[j].facet # e.facet
  OBVIOUS
<1>4. ~(1 > 1) OBVIOUS
<1>5. c = 1 BY <1>1, <1>3, <1>4
<1> QED BY <1>1, <1>2, <1>3, <1>5 DEF M!Newest

\* What the applet shows after an event is what the event says, as far as an
\* applet shows it; in every other facet nothing changes.
LEMMA AppliedShows ==
  ASSUME NEW v \in [M!Facets -> MirrorValues], NEW e \in MirrorEvents
  PROVE  /\ M!Applied(v, e) \in [M!Facets -> MirrorValues]
         /\ \A f \in M!Facets : f # e.facet => M!Applied(v, e)[f] = v[f]
         /\ \A f \in M!Facets : f = e.facet => Shows(M!Applied(v, e), f, e.value)
<1> DEFINE a == M!Applied(v, e)
<1>1. /\ e.facet \in M!Facets \cup {"partial"} /\ e.value \in MirrorValues
      /\ e = [facet |-> e.facet, value |-> e.value]
  BY DEF MirrorEvents
<1>2. "Idle" \in MirrorValues /\ "state" \in M!Facets BY DEF MirrorValues, M!Facets
<1>3. CASE e.facet = "partial"
  <2>1. a = v BY <1>3 DEF M!Applied, M!State, M!Ev
  <2> QED BY <1>3, <2>1 DEF M!Facets
<1>4. CASE e = M!State("Idle")
  <2>1. e.facet = "state" /\ e.value = "Idle" BY <1>4 DEF M!State, M!Ev
  <2>2. a = IF v.state = "Failed" THEN v ELSE [v EXCEPT !["state"] = "Idle"]
    BY <1>4, <2>1 DEF M!Applied, M!State, M!Ev
  <2> QED BY <1>2, <2>1, <2>2 DEF Shows
<1>5. CASE e = M!State("Injected")
  <2>1. e.facet = "state" /\ e.value = "Injected" BY <1>5 DEF M!State, M!Ev
  <2>2. a = [v EXCEPT !["state"] = "Idle"] BY <1>5, <2>1 DEF M!Applied, M!State, M!Ev
  <2> QED BY <1>2, <2>1, <2>2 DEF Shows
<1>6. CASE e.facet # "partial" /\ e # M!State("Idle") /\ e # M!State("Injected")
  <2>1. a = [v EXCEPT ![e.facet] = e.value] BY <1>6 DEF M!Applied
  <2>2. e.facet \in M!Facets BY <1>1, <1>6
  <2> QED BY <1>1, <2>1, <2>2 DEF Shows
<1> QED BY <1>3, <1>4, <1>5, <1>6

-----------------------------------------------------------------------------
(* Mirrors: every step keeps the invariant *)

LEMMA MirrorsCap == Cap \in Nat \ {0} /\ FirstTrigger \in Triggers 
  BY PeripheryAssumption DEF M!MirrorsBounds

\* A snapshot is a record of the four facets.
LEMMA SnapshotOf ==
  ASSUME NEW a \in MirrorValues, NEW b \in MirrorValues, NEW c \in MirrorValues, NEW d \in MirrorValues
  PROVE  [state |-> a, logging |-> b, trigger |-> c, im |-> d] \in [M!Facets -> MirrorValues]
<1>1. [state |-> a, logging |-> b, trigger |-> c, im |-> d] =
        [f \in M!Facets |-> IF f = "state" THEN a ELSE IF f = "logging" THEN b
                                ELSE IF f = "trigger" THEN c ELSE d]
  BY DEF M!Facets
<1>2. [f \in M!Facets |-> IF f = "state" THEN a ELSE IF f = "logging" THEN b
                            ELSE IF f = "trigger" THEN c ELSE d] \in [M!Facets -> MirrorValues]
  OBVIOUS
<1> QED BY <1>1, <1>2

LEMMA MirrorsInit == Init => MirrorsInv
<1> SUFFICES ASSUME Init PROVE MirrorsInv OBVIOUS
<1>1. M!Init BY DEF Init
<1>2. M!Starting \in [M!Facets -> MirrorValues] /\ M!NoSnapshot \in [M!Facets -> MirrorValues]
  <2>1. \A w \in {"Starting", "none", "Off", FALSE} : w \in MirrorValues BY DEF MirrorValues
  <2> QED BY <2>1, SnapshotOf DEF M!Starting, M!NoSnapshot
<1>3. MirrorTypes
  BY <1>1, <1>2, MirrorsCap DEF M!Init, MirrorTypes, M!Roles, M!Files, M!NoEngine
<1>4. OnePrimary /\ SocketInv /\ NewsInv
  BY <1>1, MirrorsCap DEF M!Init, OnePrimary, SocketInv, NewsInv, Tuned
<1> QED BY <1>3, <1>4 DEF MirrorsInv

\* What the engine says reaches every receiver behind what was on its way.
LEMMA SaysKeeps ==
  ASSUME MirrorsInv, NEW es \in Seq(MirrorEvents), M!Says(es),
         engine' \in [ready : BOOLEAN, enabled : BOOLEAN, phase : {"Idle", "Recording", "Rebinding"}],
         disk' \in M!Files
  PROVE  MirrorsInv'
<1> DEFINE hears(p) == role[p] = "primary" /\ watching[p]
           fed(p)   == role[p] = "mirror" /\ linked[p]
<1>1. MirrorTypes /\ OnePrimary /\ SocketInv /\ NewsInv BY DEF MirrorsInv
<1>2. /\ latest' = M!Noted(latest, es)
      /\ live' = [p \in Procs |-> IF fed(p) THEN M!PushAll(live[p], es) ELSE live[p]]
      /\ feed' = [p \in Procs |-> IF hears(p) THEN M!PushAll(feed[p], es) ELSE feed[p]]
      /\ missed' = [p \in Procs |->
           CASE hears(p) -> (missed[p] \ M!FacetsOf(es)) \cup M!LostFor(feed[p], es)
             [] fed(p)   -> (missed[p] \ M!FacetsOf(es)) \cup M!LostFor(live[p], es)
             [] role[p] = "primary" /\ ~watching[p] -> missed[p] \cup M!FacetsOf(es)
             [] OTHER -> missed[p]]
      /\ UNCHANGED <<role, config, slot, replay, linked, watching, view>>
  BY DEF M!Says, M!Emit
<1>3. ASSUME NEW q \in Seq(MirrorEvents)
      PROVE  /\ M!PushAll(q, es) \in Seq(MirrorEvents) /\ Len(M!PushAll(q, es)) <= Cap
             /\ M!LostFor(q, es) \in SUBSET (M!Facets \cup {"partial"})
  <2>1. M!PushAll(q, es) \in Seq(MirrorEvents) /\ Len(M!PushAll(q, es)) <= Cap
    BY MirrorsCap, PushEvents
  <2>2. q \o es \in Seq(MirrorEvents) BY ConcatProperties
  <2>3. M!FacetsOf(q \o es) \in SUBSET (M!Facets \cup {"partial"})
    BY <2>2, FacetsAre
  <2> QED BY <2>1, <2>3 DEF M!LostFor
<1>4. M!FacetsOf(es) \in SUBSET (M!Facets \cup {"partial"})
  BY FacetsAre
<1>5. \A f \in M!Facets : latest'[f] = IF f \in M!FacetsOf(es) THEN M!Newest(es, f) ELSE latest[f]
  BY <1>2 DEF M!Noted
<1>6. latest' \in [M!Facets -> MirrorValues]
  <2>1. ASSUME NEW f \in M!Facets, f \in M!FacetsOf(es) PROVE M!Newest(es, f) \in MirrorValues
    <3>1. M!Newest(es, f) \in {es[i].value : i \in DOMAIN es} BY <2>1, NoneOrFacet, LastExists
    <3>2. \A i \in DOMAIN es : es[i] \in MirrorEvents BY ElementOfSeq, LenProperties
    <3> QED BY <3>1, <3>2 DEF MirrorEvents
  <2> QED BY <1>1, <1>2, <2>1 DEF M!Noted, MirrorTypes
<1>7. ASSUME NEW p \in Procs
      PROVE  missed'[p] \in SUBSET (M!Facets \cup {"partial"})
  <2>1. feed[p] \in Seq(MirrorEvents) /\ live[p] \in Seq(MirrorEvents) /\ missed[p] \in SUBSET (M!Facets \cup {"partial"})
    BY <1>1 DEF MirrorTypes
  <2>2. M!LostFor(feed[p], es) \in SUBSET (M!Facets \cup {"partial"}) BY <1>3, <2>1
  <2>3. M!LostFor(live[p], es) \in SUBSET (M!Facets \cup {"partial"}) BY <1>3, <2>1
  <2> QED BY <1>2, <1>4, <2>1, <2>2, <2>3
<1>8. MirrorTypes'
  <2>1. live' \in [Procs -> Seq(MirrorEvents)] /\ feed' \in [Procs -> Seq(MirrorEvents)]
    BY <1>1, <1>2, <1>3 DEF MirrorTypes
  <2>2. missed' \in [Procs -> SUBSET (M!Facets \cup {"partial"})]
    <3>1. DOMAIN missed' = Procs /\ missed' = [p \in DOMAIN missed' |-> missed'[p]] BY <1>2
    <3> QED BY <1>7, <3>1
  <2> QED BY <1>1, <1>2, <1>6, <2>1, <2>2 DEF MirrorTypes
<1>9. OnePrimary' /\ SocketInv'
  BY <1>1, <1>2, <1>3 DEF OnePrimary, SocketInv, MirrorTypes
<1>10. ASSUME NEW p \in Procs, Tuned(p)', NEW f \in M!Facets \ missed'[p]
       PROVE  OnItsWay(live[p], replay[p], feed[p], view[p], f, latest[f])'
  <2>1. /\ live[p] \in Seq(MirrorEvents) /\ feed[p] \in Seq(MirrorEvents)
        /\ Tuned(p) /\ (linked[p] => role[p] = "mirror")
        /\ replay'[p] = replay[p] /\ view'[p] = view[p]
    BY <1>1, <1>2, <1>10 DEF MirrorTypes, SocketInv, Tuned
  <2>2. f \notin missed[p] => OnItsWay(live[p], replay[p], feed[p], view[p], f, latest[f])
    BY <1>1, <2>1 DEF NewsInv
  <2>3. CASE hears(p)
    <3>1. live'[p] = live[p] /\ live[p] = <<>> /\ replay[p] = <<>> BY <1>1, <1>2, <2>1, <2>3 DEF SocketInv
    <3>2. feed'[p] = M!PushAll(feed[p], es) BY <1>2, <2>3
    <3>3. f \notin M!LostFor(feed[p], es) /\ (f \notin M!FacetsOf(es) => f \notin missed[p])
      BY <1>2, <1>10, <2>3
    <3>4. CASE f \in M!FacetsOf(es)
      <4>1. LastIn(feed'[p], f, latest'[f]) BY <1>5, <2>1, <3>2, <3>3, <3>4, MirrorsCap, PushKeeps
      <4> QED BY <2>1, <3>1, <4>1, EmptyHasNone DEF OnItsWay
    <3>5. CASE f \notin M!FacetsOf(es)
      <4>1. latest'[f] = latest[f] BY <1>5, <3>5
      <4>2. \/ LastIn(feed[p], f, latest[f])
            \/ NoneIn(feed[p], f) /\ Shows(view[p], f, latest[f])
        BY <2>2, <3>1, <3>3, <3>5 DEF OnItsWay, LastIn
      <4>3. \/ LastIn(feed'[p], f, latest'[f])
            \/ NoneIn(feed'[p], f) /\ Shows(view'[p], f, latest'[f])
        BY <2>1, <3>2, <3>3, <3>5, <4>1, <4>2, MirrorsCap, PushKeeps
      <4> QED BY <2>1, <3>1, <4>3, EmptyHasNone DEF OnItsWay
    <3> QED BY <3>4, <3>5
  <2>4. CASE fed(p)
    <3>1. live'[p] = M!PushAll(live[p], es) /\ feed'[p] = feed[p] BY <1>2, <2>4
    <3>2. f \notin M!LostFor(live[p], es) /\ (f \notin M!FacetsOf(es) => f \notin missed[p])
      BY <1>2, <1>10, <2>4
    <3>3. CASE f \in M!FacetsOf(es)
      <4>1. LastIn(live'[p], f, latest'[f]) BY <1>5, <2>1, <3>1, <3>2, <3>3, MirrorsCap, PushKeeps
      <4> QED BY <4>1 DEF OnItsWay
    <3>4. CASE f \notin M!FacetsOf(es)
      <4>1. latest'[f] = latest[f] BY <1>5, <3>4
      <4>2. /\ LastIn(live[p], f, latest[f]) => LastIn(live'[p], f, latest'[f])
            /\ NoneIn(live[p], f) => NoneIn(live'[p], f)
        BY <2>1, <3>1, <3>2, <3>4, <4>1, MirrorsCap, PushKeeps
      <4> QED BY <2>1, <2>2, <3>1, <3>2, <3>4, <4>1, <4>2 DEF OnItsWay
    <3> QED BY <3>3, <3>4
  <2>5. CASE role[p] = "primary" /\ ~watching[p]
    <3>1. f \notin M!FacetsOf(es) /\ f \notin missed[p]
      BY <1>2, <1>10, <2>5
    <3>2. live'[p] = live[p] /\ feed'[p] = feed[p] /\ latest'[f] = latest[f] BY <1>2, <1>5, <2>5, <3>1
    <3> QED BY <2>1, <2>2, <3>1, <3>2 DEF OnItsWay
  <2> QED BY <2>1, <2>3, <2>4, <2>5 DEF Tuned
<1>11. NewsInv' BY <1>10 DEF NewsInv
<1> QED BY <1>8, <1>9, <1>11 DEF MirrorsInv

\* Each thing the engine says is a sequence of events.
LEMMA EmitsKeeps == ASSUME MirrorsInv, M!Emits PROVE MirrorsInv'
<1> DEFINE Engines == [ready : BOOLEAN, enabled : BOOLEAN, phase : {"Idle", "Recording", "Rebinding"}]
<1>1. MirrorTypes BY DEF MirrorsInv
<1>2. engine \in Engines /\ disk \in M!Files /\ latest \in [M!Facets -> MirrorValues]
  BY <1>1 DEF MirrorTypes
<1>3. /\ latest.logging \in MirrorValues /\ latest.trigger \in MirrorValues /\ latest.im \in MirrorValues
      /\ (~latest.logging) \in MirrorValues
  <2>1. \A b \in BOOLEAN : b \in MirrorValues BY DEF MirrorValues
  <2>2. (~latest.logging) \in BOOLEAN OBVIOUS
  <2>3. /\ latest.logging \in MirrorValues /\ latest.trigger \in MirrorValues
        /\ latest.im \in MirrorValues
    BY <1>2 DEF M!Facets
  <2> QED BY <2>1, <2>2, <2>3
<1>4. ASSUME NEW v \in MirrorValues
      PROVE  /\ M!State(v) \in MirrorEvents /\ M!Ev("logging", v) \in MirrorEvents
             /\ M!Ev("trigger", v) \in MirrorEvents /\ M!Ev("im", v) \in MirrorEvents
             /\ M!Ev("partial", v) \in MirrorEvents
  BY DEF M!State, M!Ev, MirrorEvents, M!Facets
<1>5. ASSUME NEW w \in {"Idle", "Disabled", "Recording", "Injected", "Failed", "Rebinding",
                      "Running", "Blocked", "Stopped", "text"}
      PROVE  w \in MirrorValues
  BY DEF MirrorValues
<1>6. M!Rest \in MirrorEvents BY <1>4, <1>5 DEF M!Rest
<1>7. ASSUME NEW a \in MirrorEvents
      PROVE  /\ <<a>> \in Seq(MirrorEvents)
             /\ \A b \in MirrorEvents : /\ <<a, b>> \in Seq(MirrorEvents)
                                        /\ \A c \in MirrorEvents : <<a, b, c>> \in Seq(MirrorEvents)
  OBVIOUS
<1>8. CASE M!ModelsReady
  <2> DEFINE es == <<M!Ev("logging", latest.logging), M!Ev("trigger", latest.trigger),
                     M!Ev("im", latest.im), M!Rest>>
  <2>1. es \in Seq(MirrorEvents) BY <1>3, <1>4, <1>6
  <2>2. engine' \in Engines /\ disk' \in M!Files /\ M!Says(es) BY <1>2, <1>8 DEF M!ModelsReady
  <2> QED BY <2>1, <2>2, SaysKeeps
<1>9. CASE M!Begin
  <2>1. <<M!State("Recording")>> \in Seq(MirrorEvents) BY <1>4, <1>5, <1>7
  <2>2. engine' \in Engines /\ disk' \in M!Files /\ M!Says(<<M!State("Recording")>>)
    BY <1>2, <1>9 DEF M!Begin
  <2> QED BY <2>1, <2>2, SaysKeeps
<1>10. CASE M!Hypothesis
  <2>1. <<M!Partial>> \in Seq(MirrorEvents) BY <1>4, <1>5, <1>7 DEF M!Partial
  <2>2. engine' \in Engines /\ disk' \in M!Files /\ M!Says(<<M!Partial>>)
    BY <1>2, <1>10 DEF M!Hypothesis
  <2> QED BY <2>1, <2>2, SaysKeeps
<1>11. CASE M!End
  <2>1. PICK how \in {<<M!State("Injected")>>, <<M!State("Failed")>>, <<>>} :
          M!Says(how \o <<M!State("Idle")>>)
    BY <1>11 DEF M!End
  <2>2. how \in Seq(MirrorEvents) /\ <<M!State("Idle")>> \in Seq(MirrorEvents)
    <3>1. \A w \in {"Injected", "Failed", "Idle"} : <<M!State(w)>> \in Seq(MirrorEvents)
      BY <1>4, <1>5, <1>7
    <3>2. <<>> \in Seq(MirrorEvents) OBVIOUS
    <3> QED BY <2>1, <3>1, <3>2
  <2>3. how \o <<M!State("Idle")>> \in Seq(MirrorEvents) BY <2>2, ConcatProperties
  <2>4. engine' \in Engines /\ disk' \in M!Files BY <1>2, <1>11 DEF M!End
  <2> QED BY <2>1, <2>3, <2>4, SaysKeeps
<1>12. CASE M!SetEnabled
  <2> DEFINE es == <<M!State(IF engine.enabled THEN "Disabled" ELSE "Idle")>>
  <2>1. es \in Seq(MirrorEvents) BY <1>4, <1>5, <1>7
  <2>2. engine' \in Engines /\ disk' \in M!Files /\ M!Says(es) BY <1>2, <1>12 DEF M!SetEnabled
  <2> QED BY <2>1, <2>2, SaysKeeps
<1>13. CASE M!SetLogging
  <2> DEFINE es == <<M!Ev("logging", ~latest.logging)>>
  <2>1. es \in Seq(MirrorEvents) BY <1>3, <1>4, <1>7
  <2>2. engine' \in Engines /\ disk' \in M!Files /\ M!Says(es) BY <1>2, <1>13 DEF M!SetLogging
  <2> QED BY <2>1, <2>2, SaysKeeps
<1>14. CASE M!StartRebind
  <2> DEFINE ended == IF engine.phase = "Recording" THEN <<M!State("Idle")>> ELSE <<>>
             es == ended \o <<M!State("Rebinding")>>
  <2>1. ended \in Seq(MirrorEvents) /\ <<M!State("Rebinding")>> \in Seq(MirrorEvents) BY <1>4, <1>5, <1>7
  <2>2. es \in Seq(MirrorEvents) BY <2>1, ConcatProperties
  <2>3. engine' \in Engines /\ disk' \in M!Files /\ M!Says(es) BY <1>2, <1>14 DEF M!StartRebind
  <2> QED BY <2>2, <2>3, SaysKeeps
<1>15. CASE M!Rebound
  <2>1. engine' \in Engines BY <1>2, <1>15 DEF M!Rebound
  <2>2. CASE disk' = disk /\ M!Says(<<M!Ev("trigger", latest.trigger), M!Rest>>)
    <3>1. <<M!Ev("trigger", latest.trigger), M!Rest>> \in Seq(MirrorEvents) BY <1>3, <1>4, <1>6, <1>7
    <3> QED BY <1>2, <2>1, <2>2, <3>1, SaysKeeps
  <2>3. ASSUME NEW key \in Triggers, disk' \in M!Persisted(disk, key),
               M!Says(<<M!Ev("trigger", key), M!Rest>>) \/
               M!Says(<<M!State("Failed"), M!Ev("trigger", key), M!Rest>>)
        PROVE  MirrorsInv'
    <3>1. key \in MirrorValues BY DEF MirrorValues
    <3>2. /\ <<M!Ev("trigger", key), M!Rest>> \in Seq(MirrorEvents)
          /\ <<M!State("Failed"), M!Ev("trigger", key), M!Rest>> \in Seq(MirrorEvents)
      BY <1>4, <1>5, <1>6, <1>7, <3>1
    <3>3. disk' \in M!Files BY <1>2, <2>3 DEF M!Persisted, M!Files
    <3> QED BY <2>1, <2>3, <3>2, <3>3, SaysKeeps
  <2> QED BY <1>15, <2>2, <2>3 DEF M!Rebound
<1>16. CASE M!InputMethod
  <2>1. PICK i \in {"Running", "Blocked", "Stopped"} \ {latest.im} : M!Says(<<M!Ev("im", i)>>)
    BY <1>16 DEF M!InputMethod
  <2>2. <<M!Ev("im", i)>> \in Seq(MirrorEvents) BY <1>4, <1>5, <1>7
  <2>3. engine' \in Engines /\ disk' \in M!Files BY <1>2, <1>16 DEF M!InputMethod
  <2> QED BY <2>1, <2>2, <2>3, SaysKeeps
<1> QED BY <1>8, <1>9, <1>10, <1>11, <1>12, <1>13, <1>14, <1>15, <1>16 DEF M!Emits

LEMMA StartKeeps == ASSUME MirrorsInv, NEW p \in Procs, M!Start(p) PROVE MirrorsInv'
<1>1. MirrorTypes /\ OnePrimary /\ SocketInv /\ NewsInv BY DEF MirrorsInv
<1>2. /\ role[p] = "off" /\ role' = [role EXCEPT ![p] = "contending"]
      /\ config' = [config EXCEPT ![p] = M!Loaded(disk)]
      /\ UNCHANGED <<slot, engine, latest, disk, replay, live, linked, feed, watching, view, missed>>
  BY DEF M!Start, M!primaryVars, M!pathVars, M!appletVars
<1>3. MirrorTypes' BY <1>1, <1>2, MirrorsCap DEF MirrorTypes, M!Loaded, M!Files, M!Roles
<1>4. OnePrimary' /\ SocketInv' BY <1>1, <1>2 DEF OnePrimary, SocketInv, MirrorTypes
<1>5. NewsInv'
  <2>1. \A o \in Procs : Tuned(o)' => Tuned(o) BY <1>1, <1>2 DEF Tuned, MirrorTypes
  <2> QED BY <1>1, <1>2, <2>1 DEF NewsInv
<1> QED BY <1>3, <1>4, <1>5 DEF MirrorsInv

LEMMA WatchKeeps == ASSUME MirrorsInv, NEW p \in Procs, M!Watch(p) PROVE MirrorsInv'
<1>1. MirrorTypes /\ OnePrimary /\ SocketInv /\ NewsInv BY DEF MirrorsInv
<1>2. /\ watching' = [watching EXCEPT ![p] = TRUE]
      /\ UNCHANGED <<role, config, slot, engine, latest, disk, replay, live, linked, feed, view, missed>>
  BY DEF M!Watch, M!primaryVars, M!pathVars, M!appletVars
<1>3. MirrorTypes' BY <1>1, <1>2 DEF MirrorTypes
<1>4. OnePrimary' /\ SocketInv' /\ NewsInv'
  BY <1>1, <1>2 DEF OnePrimary, SocketInv, NewsInv, Tuned
<1> QED BY <1>3, <1>4 DEF MirrorsInv

\* Nobody is linked when there is no primary: nothing is claimed of anybody.
LEMMA AcquireKeeps == ASSUME MirrorsInv, NEW p \in Procs, M!Acquire(p) PROVE MirrorsInv'
<1>1. MirrorTypes /\ OnePrimary /\ SocketInv /\ NewsInv BY DEF MirrorsInv
<1>2. /\ role[p] = "contending" /\ \A o \in Procs : role[o] # "primary"
      /\ role' = [role EXCEPT ![p] = "primary"]
      /\ slot' = slot \cup {p} /\ engine' = M!NoEngine
      /\ latest' = [state |-> "none", logging |-> FALSE, trigger |-> config[p], im |-> "Stopped"]
      /\ missed' = [missed EXCEPT ![p] = M!Facets]
      /\ UNCHANGED <<config, disk, replay, live, linked, feed, watching, view>>
  BY DEF M!Acquire, M!Primaries, M!pathVars
<1>3. MirrorTypes'
  <2>1. \A w \in {"none", "Stopped", FALSE} : w \in MirrorValues BY DEF MirrorValues
  <2>2. config[p] \in MirrorValues BY <1>1 DEF MirrorTypes, MirrorValues
  <2>3. latest' \in [M!Facets -> MirrorValues] BY <1>2, <2>1, <2>2, SnapshotOf
  <2> QED BY <1>1, <1>2, <2>3 DEF MirrorTypes, M!NoEngine, M!Roles
<1>4. OnePrimary' /\ SocketInv' BY <1>1, <1>2 DEF OnePrimary, SocketInv, MirrorTypes
<1>5. NewsInv'
  <2>1. ASSUME NEW o \in Procs, Tuned(o)' PROVE missed'[o] = M!Facets
    <3>1. ~linked[o] BY <1>1, <1>2 DEF SocketInv
    <3>2. o = p BY <1>1, <1>2, <2>1, <3>1 DEF Tuned, MirrorTypes
    <3> QED BY <1>1, <1>2, <3>2 DEF MirrorTypes
  <2> QED BY <2>1 DEF NewsInv
<1> QED BY <1>3, <1>4, <1>5 DEF MirrorsInv

\* The snapshot says of each facet what the engine last said, but for a state
\* it has never had.
LEMMA JoinKeeps == ASSUME MirrorsInv, NEW p \in Procs, M!Join(p) PROVE MirrorsInv'
<1> DEFINE first == <<M!Ev("logging", latest.logging), M!Ev("trigger", latest.trigger),
                      M!Ev("im", latest.im)>>
           last == IF latest.state = "none" THEN <<>> ELSE <<M!State(latest.state)>>
<1>1. MirrorTypes /\ OnePrimary /\ SocketInv /\ NewsInv BY DEF MirrorsInv
<1>2. /\ role[p] = "contending" /\ \E o \in Procs : role[o] = "primary"
      /\ role' = [role EXCEPT ![p] = "mirror"]
      /\ linked' = [linked EXCEPT ![p] = TRUE]
      /\ replay' = [replay EXCEPT ![p] = first \o last]
      /\ missed' = [missed EXCEPT ![p] = IF latest.state = "none" THEN {"state"} ELSE {}]
      /\ UNCHANGED <<config, slot, engine, latest, disk, live, feed, watching, view>>
  BY DEF M!Join, M!Primaries, M!primaryVars
<1>3. /\ latest.logging \in MirrorValues /\ latest.trigger \in MirrorValues
      /\ latest.im \in MirrorValues /\ latest.state \in MirrorValues
  BY <1>1 DEF MirrorTypes, M!Facets
<1>4. first \in Seq(MirrorEvents) /\ last \in Seq(MirrorEvents)
  <2>1. ASSUME NEW v \in MirrorValues, NEW f \in M!Facets PROVE M!Ev(f, v) \in MirrorEvents
    BY DEF M!Ev, MirrorEvents
  <2>2. ASSUME NEW a \in MirrorEvents, NEW b \in MirrorEvents, NEW c \in MirrorEvents
        PROVE  <<a, b, c>> \in Seq(MirrorEvents) /\ <<a>> \in Seq(MirrorEvents)
    OBVIOUS
  <2>3. \A f \in {"state", "logging", "trigger", "im"} : f \in M!Facets BY DEF M!Facets
  <2>4. first \in Seq(MirrorEvents) BY <1>3, <2>1, <2>2, <2>3
  <2>5. <<M!State(latest.state)>> \in Seq(MirrorEvents) BY <1>3, <2>1, <2>2, <2>3 DEF M!State
  <2> QED BY <2>4, <2>5
<1>5. first \o last \in Seq(MirrorEvents) BY <1>4, ConcatProperties
<1>6. MirrorTypes'
  BY <1>1, <1>2, <1>5 DEF MirrorTypes, M!Roles, M!Facets
<1>7. OnePrimary' /\ SocketInv'
  BY <1>1, <1>2 DEF OnePrimary, SocketInv, MirrorTypes
<1>8. NewsInv'
  <2>1. ASSUME NEW o \in Procs, o # p, Tuned(o)'
        PROVE  \A f \in M!Facets \ missed'[o] :
                 OnItsWay(live[o], replay[o], feed[o], view[o], f, latest[f])'
    <3>1. Tuned(o) /\ missed'[o] = missed[o] /\ replay'[o] = replay[o]
      BY <1>1, <1>2, <2>1 DEF Tuned, MirrorTypes
    <3> QED BY <1>1, <1>2, <3>1 DEF NewsInv
  <2>2. ASSUME NEW f \in M!Facets \ missed'[p]
        PROVE  LastIn(first \o last, f, latest[f])
    <3>1. /\ Len(first) = 3 /\ first[1] = M!Ev("logging", latest.logging)
          /\ first[2] = M!Ev("trigger", latest.trigger) /\ first[3] = M!Ev("im", latest.im)
      OBVIOUS
    <3>2. missed'[p] = IF latest.state = "none" THEN {"state"} ELSE {}
      BY <1>1, <1>2 DEF MirrorTypes
    <3>3. PICK q \in Seq(MirrorEvents) : q = first \o last BY <1>5
    <3>4. /\ Len(q) = IF latest.state = "none" THEN 3 ELSE 4
          /\ q[1] = M!Ev("logging", latest.logging) /\ q[2] = M!Ev("trigger", latest.trigger)
          /\ q[3] = M!Ev("im", latest.im)
          /\ latest.state # "none" => q[4] = M!Ev("state", latest.state)
      <4>1. /\ Len(last) = IF latest.state = "none" THEN 0 ELSE 1
            /\ latest.state # "none" => last[1] = M!Ev("state", latest.state)
        BY DEF M!State
      <4> HIDE DEF first, last
      <4>2. /\ Len(q) = Len(first) + Len(last)
            /\ \A i \in 1..Len(first) + Len(last) :
                 q[i] = IF i <= Len(first) THEN first[i] ELSE last[i - Len(first)]
        BY <1>4, <3>3, ConcatProperties
      <4> QED BY <3>1, <4>1, <4>2
    <3>5. DOMAIN q = IF latest.state = "none" THEN 1..3 ELSE 1..4 BY <3>4, LenProperties
    <3>6. /\ q[1].facet = "logging" /\ q[1].value = latest["logging"]
          /\ q[2].facet = "trigger" /\ q[2].value = latest["trigger"]
          /\ q[3].facet = "im" /\ q[3].value = latest["im"]
          /\ latest.state # "none" => q[4].facet = "state" /\ q[4].value = latest["state"]
      BY <1>1, <3>4 DEF M!Ev, MirrorTypes, M!Facets
    <3>7. f \in {"logging", "trigger", "im"} \/ (f = "state" /\ latest.state # "none")
      BY <2>2, <3>2 DEF M!Facets
    <3> HIDE DEF first, last
    <3>8. CASE f = "logging"
      <4>1. \A j \in DOMAIN q : j > 1 => q[j].facet # f BY <3>5, <3>6, <3>8
      <4>2. 1 \in DOMAIN q BY <3>5
      <4> QED BY <3>3, <3>6, <3>8, <4>1, <4>2 DEF LastIn
    <3>9. CASE f = "trigger"
      <4>1. \A j \in DOMAIN q : j > 2 => q[j].facet # f BY <3>5, <3>6, <3>9
      <4>2. 2 \in DOMAIN q BY <3>5
      <4> QED BY <3>3, <3>6, <3>9, <4>1, <4>2 DEF LastIn
    <3>10. CASE f = "im"
      <4>1. \A j \in DOMAIN q : j > 3 => q[j].facet # f BY <3>5, <3>6, <3>10
      <4>2. 3 \in DOMAIN q BY <3>5
      <4> QED BY <3>3, <3>6, <3>10, <4>1, <4>2 DEF LastIn
    <3>11. CASE f = "state" /\ latest.state # "none"
      <4>1. \A j \in DOMAIN q : j > 4 => q[j].facet # f BY <3>5
      <4>2. 4 \in DOMAIN q BY <3>5, <3>11
      <4> QED BY <3>3, <3>6, <3>11, <4>1, <4>2 DEF LastIn
    <3> QED BY <3>7, <3>8, <3>9, <3>10, <3>11
  <2>3. live'[p] = <<>> /\ replay'[p] = first \o last /\ latest' = latest
    BY <1>1, <1>2 DEF MirrorTypes, SocketInv
  <2>4. ASSUME NEW f \in M!Facets \ missed'[p]
        PROVE  OnItsWay(live[p], replay[p], feed[p], view[p], f, latest[f])'
    BY <2>2, <2>3, EmptyHasNone DEF OnItsWay
  <2> QED BY <2>1, <2>4 DEF NewsInv
<1> QED BY <1>6, <1>7, <1>8 DEF MirrorsInv

LEMMA RelayKeeps == ASSUME MirrorsInv, NEW p \in Procs, M!Relay(p) PROVE MirrorsInv'
<1> DEFINE kept == replay[p] # <<>>
           pending == replay[p] \o live[p]
<1>1. MirrorTypes /\ OnePrimary /\ SocketInv /\ NewsInv BY DEF MirrorsInv
<1>2. /\ replay[p] \in Seq(MirrorEvents) /\ live[p] \in Seq(MirrorEvents) /\ feed[p] \in Seq(MirrorEvents)
      /\ missed[p] \in SUBSET (M!Facets \cup {"partial"})
  BY <1>1 DEF MirrorTypes
<1>3. PICK e, newer : /\ e = IF kept THEN Head(replay[p]) ELSE Head(live[p])
                      /\ newer = M!FacetsOf(Tail(pending))
  OBVIOUS
<1>4. /\ role[p] = "mirror" /\ pending # <<>>
      /\ replay' = IF kept THEN [replay EXCEPT ![p] = Tail(@)] ELSE replay
      /\ live' = IF kept THEN live ELSE [live EXCEPT ![p] = Tail(@)]
      /\ feed' = [feed EXCEPT ![p] = IF watching[p] THEN M!PushAll(@, <<e>>) ELSE @]
      /\ missed' = [missed EXCEPT ![p] = @ \cup
           ((IF watching[p] THEN M!LostFor(feed[p], <<e>>) ELSE {e.facet}) \ newer)]
      /\ UNCHANGED <<role, config, slot, engine, latest, disk, linked, watching, view>>
  BY <1>3 DEF M!Relay, M!primaryVars
<1>5. kept \/ live[p] # <<>>
  <2>1. CASE replay[p] = <<>> /\ live[p] = <<>>
    <3>1. pending = <<>> BY <2>1, ConcatEmptySeq
    <3> QED BY <1>4, <3>1
  <2> QED BY <2>1
<1>6. /\ e \in MirrorEvents
      /\ kept => Tail(replay[p]) \in Seq(MirrorEvents)
      /\ ~kept => Tail(live[p]) \in Seq(MirrorEvents) /\ Len(Tail(live[p])) <= Len(live[p])
  <2>1. CASE kept BY <1>2, <1>3, <2>1, TakeEvent
  <2>2. CASE ~kept
    <3>1. Len(live[p]) \in Nat BY <1>2, LenProperties
    <3>2. Len(Tail(live[p])) = Len(live[p]) - 1 /\ Tail(live[p]) \in Seq(MirrorEvents) /\ e \in MirrorEvents
      BY <1>2, <1>3, <1>5, <2>2, TakeEvent
    <3> QED BY <2>2, <3>1, <3>2
  <2> QED BY <2>1, <2>2
<1>7. <<e>> \in Seq(MirrorEvents) /\ e.facet \in M!Facets \cup {"partial"} BY <1>6 DEF MirrorEvents
<1>8. /\ M!PushAll(feed[p], <<e>>) \in Seq(MirrorEvents) /\ Len(M!PushAll(feed[p], <<e>>)) <= Cap
      /\ M!LostFor(feed[p], <<e>>) \in SUBSET (M!Facets \cup {"partial"})
  <2>1. M!PushAll(feed[p], <<e>>) \in Seq(MirrorEvents) /\ Len(M!PushAll(feed[p], <<e>>)) <= Cap
    BY <1>2, <1>7, MirrorsCap, PushEvents
  <2>2. feed[p] \o <<e>> \in Seq(MirrorEvents) BY <1>2, <1>7, ConcatProperties
  <2>3. M!FacetsOf(feed[p] \o <<e>>) \in SUBSET (M!Facets \cup {"partial"}) BY <2>2, FacetsAre
  <2> QED BY <2>1, <2>3 DEF M!LostFor
<1>9. /\ replay'[p] = IF kept THEN Tail(replay[p]) ELSE replay[p]
      /\ live'[p] = IF kept THEN live[p] ELSE Tail(live[p])
      /\ feed'[p] = IF watching[p] THEN M!PushAll(feed[p], <<e>>) ELSE feed[p]
      /\ missed'[p] = missed[p] \cup
           ((IF watching[p] THEN M!LostFor(feed[p], <<e>>) ELSE {e.facet}) \ newer)
      /\ \A o \in Procs \ {p} : /\ replay'[o] = replay[o] /\ live'[o] = live[o]
                                /\ feed'[o] = feed[o] /\ missed'[o] = missed[o]
  BY <1>1, <1>4 DEF MirrorTypes
<1>10. MirrorTypes'
  <2>1. replay' \in [Procs -> Seq(MirrorEvents)] /\ live' \in [Procs -> Seq(MirrorEvents)]
    BY <1>1, <1>4, <1>6 DEF MirrorTypes
  <2>2. feed' \in [Procs -> Seq(MirrorEvents)] BY <1>1, <1>4, <1>8 DEF MirrorTypes
  <2>3. missed'[p] \in SUBSET (M!Facets \cup {"partial"}) BY <1>2, <1>7, <1>8, <1>9
  <2>4. missed' \in [Procs -> SUBSET (M!Facets \cup {"partial"})]
    <3>1. PICK s \in SUBSET (M!Facets \cup {"partial"}) : s = missed'[p] BY <2>3
    <3>2. missed' = [missed EXCEPT ![p] = s] BY <1>1, <1>4, <1>9, <3>1 DEF MirrorTypes
    <3> QED BY <1>1, <3>1, <3>2 DEF MirrorTypes
  <2> QED BY <1>1, <1>4, <2>1, <2>2, <2>4 DEF MirrorTypes
<1>11. OnePrimary' BY <1>1, <1>4 DEF OnePrimary
<1>12. SocketInv'
  <2>1. ASSUME NEW o \in Procs
        PROVE  /\ linked[o] => role[o] = "mirror" /\ \E r \in Procs : role[r] = "primary"
               /\ ~linked[o] => live'[o] = <<>>
               /\ role[o] # "mirror" => replay'[o] = <<>>
               /\ Len(live'[o]) <= Cap /\ Len(feed'[o]) <= Cap
               /\ o \in slot => role[o] # "off"
    <3>1. CASE o = p
      <4>1. Len(live[p]) \in Nat BY <1>2, LenProperties
      <4>2. Len(live'[p]) <= Cap BY <1>1, <1>2, <1>6, <1>9, <4>1, MirrorsCap, LenProperties DEF SocketInv
      <4>3. ~linked[p] => live'[p] = <<>> BY <1>1, <1>5, <1>9 DEF SocketInv
      <4>4. Len(feed'[p]) <= Cap BY <1>1, <1>8, <1>9 DEF SocketInv
      <4> QED BY <1>1, <1>4, <3>1, <4>2, <4>3, <4>4 DEF SocketInv
    <3>2. CASE o # p BY <1>1, <1>9, <3>2 DEF SocketInv
    <3> QED BY <3>1, <3>2
  <2> QED BY <1>4, <2>1 DEF SocketInv
\* What comes behind the event that is read.
<1>13. \A f : f \notin newer <=> IF kept THEN NoneIn(Tail(replay[p]), f) /\ NoneIn(live[p], f)
                                        ELSE NoneIn(Tail(live[p]), f)
  <2>1. CASE kept
    <3>1. Tail(pending) = Tail(replay[p]) \o live[p] BY <1>2, <2>1, HeadTailConcat
    <3>2. \A f : NoneIn(Tail(replay[p]) \o live[p], f) <=> NoneIn(Tail(replay[p]), f) /\ NoneIn(live[p], f)
      BY <1>2, <1>6, <2>1, NoneInBoth
    <3> QED BY <1>3, <2>1, <3>1, <3>2, NoneOrFacet
  <2>2. CASE ~kept
    <3>1. pending = live[p] BY <1>2, <2>2, ConcatEmptySeq
    <3> QED BY <1>3, <2>2, <3>1, NoneOrFacet
  <2> QED BY <2>1, <2>2
<1>14. ASSUME Tuned(p), NEW f \in M!Facets \ missed'[p]
       PROVE  OnItsWay(live'[p], replay'[p], feed'[p], view[p], f, latest[f])
  <2> DEFINE x == latest[f]
  <2>1. f \notin missed[p] /\ (f \in newer \/ f \notin IF watching[p] THEN M!LostFor(feed[p], <<e>>) ELSE {e.facet})
    BY <1>9, <1>14
  <2>2. OnItsWay(live[p], replay[p], feed[p], view[p], f, x) BY <1>1, <1>14, <2>1 DEF NewsInv
  <2> SUFFICES OnItsWay(live'[p], replay'[p], feed'[p], view[p], f, x) OBVIOUS
  <2> HIDE DEF x
  \* The event that is read is the last one on the socket.
  <2>3. ASSUME f \notin newer, e.facet = f, e.value = x PROVE LastIn(feed'[p], f, x)
    <3>1. watching[p] BY <2>1, <2>3
    <3>2. f \notin M!LostFor(feed[p], <<e>>) BY <2>1, <2>3, <3>1
    <3>3. f \in M!FacetsOf(<<e>>) /\ M!Newest(<<e>>, f) = x BY <2>3, OneEvent
    <3>4. LastIn(M!PushAll(feed[p], <<e>>), f, x) BY <1>2, <1>7, <3>2, <3>3, MirrorsCap, PushKeeps
    <3> QED BY <1>9, <3>1, <3>4
  \* It is none of this facet: those that were read before stay.
  <2>4. ASSUME f \notin newer, e.facet # f
        PROVE  /\ LastIn(feed[p], f, x) => LastIn(feed'[p], f, x)
               /\ NoneIn(feed[p], f) => NoneIn(feed'[p], f)
    <3>1. CASE watching[p]
      <4>1. f \notin M!LostFor(feed[p], <<e>>) BY <2>1, <2>4, <3>1
      <4>2. f \notin M!FacetsOf(<<e>>) BY <2>4, OneEvent
      <4>3. feed'[p] = M!PushAll(feed[p], <<e>>) BY <1>9, <3>1
      <4>4. /\ LastIn(feed[p], f, x) => LastIn(M!PushAll(feed[p], <<e>>), f, x)
            /\ NoneIn(feed[p], f) => NoneIn(M!PushAll(feed[p], <<e>>), f)
        BY <1>2, <1>7, <4>1, <4>2, MirrorsCap, PushKeeps
      <4> QED BY <4>3, <4>4
    <3>2. CASE ~watching[p] BY <1>9, <3>2
    <3> QED BY <3>1, <3>2
  <2>5. CASE kept
    <3>1. live'[p] = live[p] /\ replay'[p] = Tail(replay[p]) /\ e = Head(replay[p]) BY <1>3, <1>9, <2>5
    <3>2. f \notin newer <=> NoneIn(Tail(replay[p]), f) /\ NoneIn(live[p], f) BY <1>13, <2>5
    <3>3. CASE LastIn(live[p], f, x) BY <3>1, <3>3 DEF OnItsWay
    <3>4. CASE NoneIn(live[p], f) /\ LastIn(replay[p], f, x)
      <4>1. \/ LastIn(Tail(replay[p]), f, x)
            \/ NoneIn(Tail(replay[p]), f) /\ e.facet = f /\ e.value = x
        BY <1>2, <2>5, <3>1, <3>4, TakeEvent
      <4>2. NoneIn(Tail(replay[p]), f) /\ e.facet = f /\ e.value = x => LastIn(feed'[p], f, x)
        BY <2>3, <3>2, <3>4
      <4> QED BY <3>1, <3>4, <4>1, <4>2 DEF OnItsWay
    <3>5. CASE NoneIn(live[p], f) /\ NoneIn(replay[p], f)
      <4>1. NoneIn(Tail(replay[p]), f) BY <1>2, <2>5, <3>5, TakeEvent
      <4>2. e.facet # f BY <1>2, <2>5, <3>1, <3>5, LenProperties, EmptySeq DEF NoneIn
      <4>3. f \notin newer BY <3>2, <3>5, <4>1
      <4>4. LastIn(feed[p], f, x) \/ (NoneIn(feed[p], f) /\ Shows(view[p], f, x))
        BY <2>2, <3>5 DEF OnItsWay, LastIn, NoneIn
      <4>5. LastIn(feed'[p], f, x) \/ (NoneIn(feed'[p], f) /\ Shows(view[p], f, x))
        BY <2>4, <4>2, <4>3, <4>4
      <4>6. NoneIn(live'[p], f) /\ NoneIn(replay'[p], f) BY <3>1, <3>5, <4>1
      <4> QED BY <4>5, <4>6 DEF OnItsWay
    <3> QED BY <2>2, <3>3, <3>4, <3>5 DEF OnItsWay
  <2>6. CASE ~kept
    <3>1. live'[p] = Tail(live[p]) /\ replay'[p] = <<>> /\ e = Head(live[p]) /\ live[p] # <<>> /\ replay[p] = <<>>
      BY <1>3, <1>5, <1>9, <2>6
    <3>2. f \notin newer <=> NoneIn(Tail(live[p]), f) BY <1>13, <2>6
    <3>3. NoneIn(replay[p], f) /\ NoneIn(replay'[p], f) BY <3>1, EmptyHasNone
    <3>4. CASE LastIn(live[p], f, x)
      <4>1. \/ LastIn(Tail(live[p]), f, x)
            \/ NoneIn(Tail(live[p]), f) /\ e.facet = f /\ e.value = x
        BY <1>2, <3>1, <3>4, TakeEvent
      <4>2. NoneIn(Tail(live[p]), f) /\ e.facet = f /\ e.value = x => LastIn(feed'[p], f, x)
        BY <2>3, <3>2
      <4> QED BY <3>1, <3>3, <4>1, <4>2 DEF OnItsWay
    <3>5. CASE NoneIn(live[p], f)
      <4>1. NoneIn(Tail(live[p]), f) BY <1>2, <3>1, <3>5, TakeEvent
      <4>2. e.facet # f BY <1>2, <3>1, <3>5, LenProperties, EmptySeq DEF NoneIn
      <4>3. LastIn(feed[p], f, x) \/ (NoneIn(feed[p], f) /\ Shows(view[p], f, x))
        BY <2>2, <3>3, <3>5 DEF OnItsWay, LastIn, NoneIn
      <4> QED BY <2>4, <3>1, <3>2, <3>3, <4>1, <4>2, <4>3 DEF OnItsWay
    <3> QED BY <2>2, <3>3, <3>4, <3>5 DEF OnItsWay, LastIn, NoneIn
  <2> QED BY <2>5, <2>6
<1>15. NewsInv'
  <2>1. ASSUME NEW o \in Procs, o # p, Tuned(o)'
        PROVE  \A f \in M!Facets \ missed'[o] :
                 OnItsWay(live[o], replay[o], feed[o], view[o], f, latest[f])'
    <3>1. Tuned(o) BY <1>4, <2>1 DEF Tuned
    <3> QED BY <1>1, <1>4, <1>9, <2>1, <3>1 DEF NewsInv
  <2>2. ASSUME Tuned(p)'
        PROVE  \A f \in M!Facets \ missed'[p] :
                 OnItsWay(live[p], replay[p], feed[p], view[p], f, latest[f])'
    <3>1. Tuned(p) BY <1>4, <2>2 DEF Tuned
    <3> QED BY <1>4, <1>14, <3>1
  <2> QED BY <2>1, <2>2 DEF NewsInv
<1> QED BY <1>10, <1>11, <1>12, <1>15 DEF MirrorsInv

LEMMA LosePrimaryKeeps == ASSUME MirrorsInv, NEW p \in Procs, M!LosePrimary(p) PROVE MirrorsInv'
<1>1. MirrorTypes /\ OnePrimary /\ SocketInv /\ NewsInv BY DEF MirrorsInv
<1>2. /\ role[p] = "mirror" /\ ~linked[p] /\ replay[p] = <<>>
      /\ role' = [role EXCEPT ![p] = "contending"]
      /\ UNCHANGED <<config, slot, engine, latest, disk, replay, live, linked, feed, watching, view, missed>>
  BY DEF M!LosePrimary, M!primaryVars, M!pathVars, M!appletVars
<1>3. MirrorTypes' BY <1>1, <1>2 DEF MirrorTypes, M!Roles
<1>4. OnePrimary' BY <1>1, <1>2 DEF OnePrimary, MirrorTypes
<1>5. SocketInv' BY <1>1, <1>2 DEF SocketInv, MirrorTypes
<1>6. NewsInv'
  <2>1. \A o \in Procs : Tuned(o)' => Tuned(o) BY <1>1, <1>2 DEF Tuned, MirrorTypes
  <2> QED BY <1>1, <1>2, <2>1 DEF NewsInv
<1> QED BY <1>3, <1>4, <1>5, <1>6 DEF MirrorsInv

\* With the primary every link ends: nothing is claimed of anybody.
LEMMA EngineStopsKeeps == ASSUME MirrorsInv, NEW p \in Procs, M!EngineStops(p) PROVE MirrorsInv'
<1> DEFINE es == <<M!State("Failed")>>
<1>1. MirrorTypes /\ OnePrimary /\ SocketInv /\ NewsInv BY DEF MirrorsInv
<1>2. /\ role[p] = "primary" /\ role' = [role EXCEPT ![p] = "stopped"]
      /\ engine' = M!NoEngine /\ latest' = M!NoSnapshot
      /\ linked' = [m \in Procs |-> FALSE] /\ live' = [m \in Procs |-> <<>>]
      /\ feed' = [feed EXCEPT ![p] = IF watching[p] THEN M!PushAll(@, es) ELSE @]
      /\ missed' = [missed EXCEPT ![p] = @ \cup M!LostFor(feed[p], es)]
      /\ UNCHANGED <<config, slot, disk, replay, watching, view>>
  BY DEF M!EngineStops, M!CutOff, M!Report
<1>3. feed[p] \in Seq(MirrorEvents) /\ missed[p] \in SUBSET (M!Facets \cup {"partial"})
  BY <1>1 DEF MirrorTypes
<1>4. es \in Seq(MirrorEvents)
  <2>1. M!State("Failed") \in MirrorEvents BY DEF M!State, M!Ev, MirrorEvents, M!Facets, MirrorValues
  <2> QED BY <2>1
<1> HIDE DEF es
<1>5. /\ M!PushAll(feed[p], es) \in Seq(MirrorEvents) /\ Len(M!PushAll(feed[p], es)) <= Cap
      /\ M!LostFor(feed[p], es) \in SUBSET (M!Facets \cup {"partial"})
  <2>1. M!PushAll(feed[p], es) \in Seq(MirrorEvents) /\ Len(M!PushAll(feed[p], es)) <= Cap
    BY <1>3, <1>4, MirrorsCap, PushEvents
  <2>2. feed[p] \o es \in Seq(MirrorEvents) BY <1>3, <1>4, ConcatProperties
  <2>3. M!FacetsOf(feed[p] \o es) \in SUBSET (M!Facets \cup {"partial"}) BY <2>2, FacetsAre
  <2> QED BY <2>1, <2>3 DEF M!LostFor
<1>6. latest' \in [M!Facets -> MirrorValues]
  <2>1. \A w \in {"none", "Off", FALSE} : w \in MirrorValues BY DEF MirrorValues
  <2> QED BY <1>2, <2>1, SnapshotOf DEF M!NoSnapshot
<1>7. MirrorTypes'
  <2>1. feed' \in [Procs -> Seq(MirrorEvents)] BY <1>1, <1>2, <1>5 DEF MirrorTypes
  <2>2. missed' \in [Procs -> SUBSET (M!Facets \cup {"partial"})]
    BY <1>1, <1>2, <1>3, <1>5 DEF MirrorTypes
  <2>3. live' \in [Procs -> Seq(MirrorEvents)] BY <1>2
  <2> QED BY <1>1, <1>2, <1>6, <2>1, <2>2, <2>3 DEF MirrorTypes, M!NoEngine, M!Roles
<1>8. OnePrimary' BY <1>1, <1>2 DEF OnePrimary, MirrorTypes
<1>9. SocketInv'
  <2>1. Len(<<>>) <= Cap BY MirrorsCap
  <2> QED BY <1>1, <1>2, <1>5, <2>1 DEF SocketInv, MirrorTypes
<1>10. NewsInv'
  <2>1. \A o \in Procs : ~Tuned(o)' BY <1>1, <1>2 DEF Tuned, OnePrimary, MirrorTypes
  <2> QED BY <2>1 DEF NewsInv
<1> QED BY <1>7, <1>8, <1>9, <1>10 DEF MirrorsInv

LEMMA ExitKeeps == ASSUME MirrorsInv, NEW p \in Procs, M!Exit(p) PROVE MirrorsInv'
<1> DEFINE first == role[p] = "primary"
<1>1. MirrorTypes /\ OnePrimary /\ SocketInv /\ NewsInv BY DEF MirrorsInv
<1>2. /\ role' = [role EXCEPT ![p] = "off"] /\ slot' = slot \ {p}
      /\ engine' = (IF first THEN M!NoEngine ELSE engine)
      /\ latest' = (IF first THEN M!NoSnapshot ELSE latest)
      /\ linked' = [m \in Procs |-> linked[m] /\ ~first /\ m # p]
      /\ live' = [m \in Procs |-> IF first \/ m = p THEN <<>> ELSE live[m]]
      /\ replay' = [replay EXCEPT ![p] = <<>>]
      /\ feed' = [feed EXCEPT ![p] = <<>>] /\ watching' = [watching EXCEPT ![p] = FALSE]
      /\ view' = [view EXCEPT ![p] = M!Starting] /\ missed' = [missed EXCEPT ![p] = M!Facets]
      /\ UNCHANGED <<config, disk>>
  BY DEF M!Exit, M!CutOff
<1>3. latest' \in [M!Facets -> MirrorValues] /\ M!Starting \in [M!Facets -> MirrorValues]
  <2>1. \A w \in {"none", "Off", "Starting", FALSE} : w \in MirrorValues BY DEF MirrorValues
  <2>2. M!NoSnapshot \in [M!Facets -> MirrorValues] BY <2>1, SnapshotOf DEF M!NoSnapshot
  <2>3. M!Starting \in [M!Facets -> MirrorValues] BY <2>1, SnapshotOf DEF M!Starting
  <2> QED BY <1>1, <1>2, <2>2, <2>3 DEF MirrorTypes
<1>4. MirrorTypes'
  <2>1. live' \in [Procs -> Seq(MirrorEvents)] BY <1>1, <1>2 DEF MirrorTypes
  <2>2. linked' \in [Procs -> BOOLEAN] BY <1>2
  <2>3. replay' \in [Procs -> Seq(MirrorEvents)] /\ feed' \in [Procs -> Seq(MirrorEvents)]
    BY <1>1, <1>2 DEF MirrorTypes
  <2>4. role' \in [Procs -> M!Roles] /\ slot' \in SUBSET Procs /\ watching' \in [Procs -> BOOLEAN]
    BY <1>1, <1>2 DEF MirrorTypes, M!Roles
  <2>5. view' \in [Procs -> [M!Facets -> MirrorValues]] BY <1>1, <1>2, <1>3 DEF MirrorTypes
  <2>6. missed' \in [Procs -> SUBSET (M!Facets \cup {"partial"})] BY <1>1, <1>2 DEF MirrorTypes
  <2>7. engine' \in [ready : BOOLEAN, enabled : BOOLEAN, phase : {"Idle", "Recording", "Rebinding"}]
    BY <1>1, <1>2 DEF MirrorTypes, M!NoEngine
  <2> QED BY <1>1, <1>2, <1>3, <2>1, <2>2, <2>3, <2>4, <2>5, <2>6, <2>7 DEF MirrorTypes
<1>5. \A o \in Procs : o # p => /\ role'[o] = role[o] /\ replay'[o] = replay[o] /\ feed'[o] = feed[o]
                                /\ view'[o] = view[o] /\ missed'[o] = missed[o]
                                /\ ~first => live'[o] = live[o]
  BY <1>1, <1>2 DEF MirrorTypes
<1>6. /\ role'[p] = "off" /\ replay'[p] = <<>> /\ live'[p] = <<>> /\ feed'[p] = <<>> /\ ~linked'[p]
  BY <1>1, <1>2 DEF MirrorTypes
<1>7. OnePrimary' BY <1>1, <1>5, <1>6 DEF OnePrimary
<1>8. SocketInv'
  <2>1. Len(<<>>) <= Cap BY MirrorsCap
  <2>2. ASSUME NEW o \in Procs, o # p
        PROVE  /\ linked'[o] => role'[o] = "mirror" /\ \E r \in Procs : role'[r] = "primary"
               /\ ~linked'[o] => live'[o] = <<>>
               /\ role'[o] # "mirror" => replay'[o] = <<>>
               /\ Len(live'[o]) <= Cap /\ Len(feed'[o]) <= Cap
               /\ o \in slot' => role'[o] # "off"
    <3>1. linked'[o] => /\ linked[o] /\ ~first
      BY <1>2
    <3>2. linked'[o] => \E r \in Procs : role'[r] = "primary"
      <4>1. ASSUME linked'[o] PROVE \E r \in Procs : role'[r] = "primary"
        <5>1. PICK r \in Procs : role[r] = "primary" BY <1>1, <3>1, <4>1 DEF SocketInv
        <5>2. r # p BY <3>1, <4>1, <5>1
        <5> QED BY <1>5, <5>1, <5>2
      <4> QED BY <4>1
    <3>3. ~linked'[o] => live'[o] = <<>>
      <4>1. CASE first BY <1>2, <4>1
      <4>2. CASE ~first
        <5>1. linked'[o] <=> linked[o] BY <1>2, <2>2, <4>2
        <5> QED BY <1>1, <1>5, <2>2, <4>2, <5>1 DEF SocketInv
      <4> QED BY <4>1, <4>2
    <3>4. Len(live'[o]) <= Cap BY <1>1, <1>2, <2>1 DEF SocketInv
    <3>5. o \in slot' => o \in slot BY <1>2
    <3> QED BY <1>1, <1>5, <2>2, <3>1, <3>2, <3>3, <3>4, <3>5 DEF SocketInv
  <2>3. p \notin slot' BY <1>2
  <2> QED BY <1>6, <2>1, <2>2, <2>3 DEF SocketInv
<1>9. NewsInv'
  <2>1. ASSUME NEW o \in Procs, Tuned(o)'
        PROVE  o # p /\ ~first /\ Tuned(o)
    <3>1. o # p BY <1>6, <2>1 DEF Tuned
    <3>2. ~first
      <4>1. ASSUME first PROVE FALSE
        <5>1. role[o] = "primary" BY <1>2, <1>5, <2>1, <3>1, <4>1 DEF Tuned
        <5> QED BY <1>1, <3>1, <4>1, <5>1 DEF OnePrimary
      <4> QED BY <4>1
    <3> QED BY <1>2, <1>5, <2>1, <3>1, <3>2 DEF Tuned
  <2>2. ASSUME NEW o \in Procs, Tuned(o)'
        PROVE  \A f \in M!Facets \ missed'[o] :
                 OnItsWay(live[o], replay[o], feed[o], view[o], f, latest[f])'
    <3>1. o # p /\ ~first /\ Tuned(o) BY <2>1, <2>2
    <3>2. latest' = latest BY <1>2, <3>1
    <3> QED BY <1>1, <1>5, <3>1, <3>2 DEF NewsInv
  <2> QED BY <2>2 DEF NewsInv
<1> QED BY <1>4, <1>7, <1>8, <1>9 DEF MirrorsInv

LEMMA ShowKeeps == ASSUME MirrorsInv, NEW p \in Procs, M!Show(p) PROVE MirrorsInv'
<1> DEFINE e == Head(feed[p])
<1>1. MirrorTypes /\ OnePrimary /\ SocketInv /\ NewsInv BY DEF MirrorsInv
<1>2. /\ feed[p] # <<>>
      /\ view' = [view EXCEPT ![p] = M!Applied(@, e)]
      /\ feed' = [feed EXCEPT ![p] = Tail(@)]
      /\ UNCHANGED <<role, config, slot, engine, latest, disk, replay, live, linked, watching, missed>>
  BY DEF M!Show, M!primaryVars, M!pathVars
<1>3. feed[p] \in Seq(MirrorEvents) /\ view[p] \in [M!Facets -> MirrorValues] BY <1>1 DEF MirrorTypes
<1>4. e \in MirrorEvents /\ Tail(feed[p]) \in Seq(MirrorEvents) /\ Len(Tail(feed[p])) = Len(feed[p]) - 1
  BY <1>2, <1>3, TakeEvent
<1>5. /\ M!Applied(view[p], e) \in [M!Facets -> MirrorValues]
      /\ \A f \in M!Facets : f # e.facet => M!Applied(view[p], e)[f] = view[p][f]
      /\ \A f \in M!Facets : f = e.facet => Shows(M!Applied(view[p], e), f, e.value)
  BY <1>3, <1>4, AppliedShows
<1>6. MirrorTypes' BY <1>1, <1>2, <1>4, <1>5 DEF MirrorTypes
<1>7. OnePrimary' /\ SocketInv'
  <2>1. Len(feed[p]) \in Nat BY <1>3, LenProperties
  <2>2. Len(feed[p]) <= Cap /\ Len(Tail(feed[p])) <= Cap BY <1>1, <1>4, <2>1, MirrorsCap DEF SocketInv
  <2>3. OnePrimary' BY <1>1, <1>2 DEF OnePrimary
  <2>4. feed \in [Procs -> Seq(MirrorEvents)] BY <1>1 DEF MirrorTypes
  <2>5. \A o \in Procs : Len(feed'[o]) <= Cap
    <3> SUFFICES ASSUME NEW o \in Procs PROVE Len(feed'[o]) <= Cap OBVIOUS
    <3>1. CASE o = p BY <1>2, <2>2, <2>4, <3>1
    <3>2. CASE o # p
      <4>1. feed'[o] = feed[o] BY <1>2, <2>4, <3>2
      <4> QED BY <1>1, <4>1 DEF SocketInv
    <3> QED BY <3>1, <3>2
  <2>6. SocketInv' BY <1>1, <1>2, <2>5 DEF SocketInv
  <2> QED BY <2>3, <2>6
<1>8. ASSUME Tuned(p), NEW f \in M!Facets \ missed[p]
      PROVE  OnItsWay(live[p], replay[p], Tail(feed[p]), M!Applied(view[p], e), f, latest[f])
  <2>1. OnItsWay(live[p], replay[p], feed[p], view[p], f, latest[f]) BY <1>1, <1>8 DEF NewsInv
  <2>2. CASE LastIn(feed[p], f, latest[f])
    <3>1. \/ LastIn(Tail(feed[p]), f, latest[f])
          \/ NoneIn(Tail(feed[p]), f) /\ e.facet = f /\ e.value = latest[f]
      BY <1>2, <1>3, <2>2, TakeEvent
    <3> QED BY <1>5, <2>1, <2>2, <3>1 DEF OnItsWay, LastIn, NoneIn
  <2>3. CASE NoneIn(feed[p], f) /\ Shows(view[p], f, latest[f])
    <3>1. NoneIn(Tail(feed[p]), f) BY <1>2, <1>3, <2>3, TakeEvent
    <3>2. e.facet # f BY <1>2, <1>3, <2>3, LenProperties, EmptySeq DEF NoneIn
    <3>3. Shows(M!Applied(view[p], e), f, latest[f]) BY <1>5, <2>3, <3>2 DEF Shows
    <3> QED BY <2>1, <2>3, <3>1, <3>3 DEF OnItsWay
  <2>4. CASE LastIn(live[p], f, latest[f]) \/ (NoneIn(live[p], f) /\ LastIn(replay[p], f, latest[f]))
    BY <2>4 DEF OnItsWay
  <2> QED BY <2>1, <2>2, <2>3, <2>4 DEF OnItsWay
<1>9. NewsInv'
  <2>1. ASSUME NEW o \in Procs, Tuned(o)'
        PROVE  \A f \in M!Facets \ missed'[o] :
                 OnItsWay(live[o], replay[o], feed[o], view[o], f, latest[f])'
    <3>1. Tuned(o) BY <1>2, <2>1 DEF Tuned
    <3>2. CASE o # p BY <1>1, <1>2, <3>1, <3>2 DEF NewsInv, MirrorTypes
    <3>3. CASE o = p
      <4>1. feed'[p] = Tail(feed[p]) /\ view'[p] = M!Applied(view[p], e) BY <1>1, <1>2 DEF MirrorTypes
      <4> HIDE DEF e
      <4> QED BY <1>2, <1>8, <3>1, <3>3, <4>1
    <3> QED BY <3>2, <3>3
  <2> QED BY <2>1 DEF NewsInv
<1> QED BY <1>6, <1>7, <1>9 DEF MirrorsInv

-----------------------------------------------------------------------------
(* Mirrors: theorems *)

LEMMA MirrorsStepKeeps == ASSUME MirrorsInv, [Next]_vars PROVE MirrorsInv'
<1>1. CASE UNCHANGED mirrors
  <2>1. UNCHANGED <<role, config, disk, slot, engine, latest, replay, live, linked, feed, watching, view, missed>>
    BY <1>1 DEF mirrors
  <2> QED BY <2>1 DEF MirrorsInv, MirrorTypes, OnePrimary, SocketInv, NewsInv, Tuned, M!Facets, M!Files, M!Roles
<1>2. CASE M!Next
  <2>1. CASE M!Emits BY <2>1, EmitsKeeps
  <2>2. ASSUME NEW p \in Procs,
               M!Start(p) \/ M!Watch(p) \/ M!Acquire(p) \/ M!Join(p) \/ M!Relay(p) \/
               M!LosePrimary(p) \/ M!EngineStops(p) \/ M!Exit(p) \/ M!Show(p)
        PROVE  MirrorsInv'
    BY <2>2, StartKeeps, WatchKeeps, AcquireKeeps, JoinKeeps, RelayKeeps, LosePrimaryKeeps,
       EngineStopsKeeps, ExitKeeps, ShowKeeps
  <2> QED BY <1>2, <2>1, <2>2 DEF M!Next
<1> QED BY <1>1, <1>2 DEF Next, vars, MirrorsStep, UpstreamStep, PopupStep, FieldStep, TypingStep, CaptureStep

THEOREM MirrorsInvariant == Spec => []MirrorsInv
<1>1. Init => MirrorsInv BY MirrorsInit
<1>2. MirrorsInv /\ [Next]_vars => MirrorsInv' BY MirrorsStepKeeps
<1> QED BY <1>1, <1>2, PTL DEF Spec

\* An applet that has read all that is coming to it shows what the engine last
\* said, but for what was dropped on the way (engine.rs emit, ipc.rs serve).
THEOREM AppletsCatchUp == Spec => []CaughtUp
<1>1. MirrorsInv => CaughtUp
  <2> SUFFICES ASSUME MirrorsInv, NEW p \in Procs, NEW f \in M!Facets \ missed[p],
                      role[p] \in {"primary", "mirror"}, role[p] = "mirror" => linked[p],
                      replay[p] = <<>>, live[p] = <<>>, feed[p] = <<>>
               PROVE  Shows(view[p], f, latest[f])
    BY DEF CaughtUp, M!CaughtUp, Shows
  <2>1. Tuned(p) BY DEF Tuned
  <2>2. OnItsWay(live[p], replay[p], feed[p], view[p], f, latest[f]) BY <2>1 DEF MirrorsInv, NewsInv
  <2> QED BY <2>2 DEF OnItsWay, LastIn
<1> QED BY <1>1, MirrorsInvariant, PTL

-----------------------------------------------------------------------------
(* Popup: where a value stands in a queue *)

At(q, X) == {i \in DOMAIN q : q[i] \in X}
Lone(X)  == \A x, y \in X : x = y

LEMMA AtAppend ==
  ASSUME NEW S, NEW q \in Seq(S), NEW x \in S, NEW X
  PROVE  /\ x \notin X => At(Append(q, x), X) = At(q, X)
         /\ At(q, X) = {} => Lone(At(Append(q, x), X))
<1> DEFINE t == Append(q, x)
<1>1. /\ Len(q) \in Nat /\ DOMAIN q = 1..Len(q) /\ t \in Seq(S) /\ Len(t) = Len(q) + 1
      /\ \A i \in 1..Len(q) : t[i] = q[i]
      /\ t[Len(q) + 1] = x
  BY LenProperties, AppendProperties
<1>2. DOMAIN t = 1..Len(q) + 1 BY <1>1, LenProperties
<1> HIDE DEF t
<1>3. \A i \in DOMAIN t : (i \in DOMAIN q /\ t[i] = q[i]) \/ (i = Len(q) + 1 /\ t[i] = x) BY <1>1, <1>2
<1>4. \A i \in DOMAIN q : i \in DOMAIN t /\ t[i] = q[i] BY <1>1, <1>2
<1>5. x \notin X => At(t, X) = At(q, X) BY <1>3, <1>4 DEF At
<1>6. At(q, X) = {} => Lone(At(t, X)) BY <1>3 DEF At, Lone
<1> QED BY <1>5, <1>6 DEF t

LEMMA AtTail ==
  ASSUME NEW S, NEW q \in Seq(S), q # <<>>, NEW X
  PROVE  /\ Lone(At(q, X)) => Lone(At(Tail(q), X))
         /\ At(q, X) = {} => At(Tail(q), X) = {} /\ Head(q) \notin X
         /\ Lone(At(q, X)) /\ Head(q) \in X => At(Tail(q), X) = {}
<1> DEFINE t == Tail(q)
<1>1. /\ Head(q) \in S /\ t \in Seq(S) /\ Len(t) = Len(q) - 1
      /\ \A i \in 1..Len(t) : t[i] = q[i + 1]
  BY HeadTailProperties
<1>2. Len(q) \in Nat \ {0} /\ DOMAIN q = 1..Len(q) /\ Head(q) = q[1] BY EmptySeq, LenProperties
<1>3. DOMAIN t = 1..Len(q) - 1 BY <1>1, LenProperties
<1> HIDE DEF t
<1>4. \A i \in DOMAIN t : i \in Int /\ i + 1 \in DOMAIN q /\ t[i] = q[i + 1] /\ i + 1 # 1 BY <1>1, <1>2, <1>3
<1>5. \A i \in At(t, X) : i \in Int /\ i + 1 \in At(q, X) /\ i + 1 # 1 BY <1>4 DEF At
<1>6. 1 \in DOMAIN q BY <1>2
<1>7. Head(q) \in X => 1 \in At(q, X) BY <1>2, <1>6 DEF At
<1>8. Lone(At(q, X)) => Lone(At(t, X))
  <2>1. ASSUME Lone(At(q, X)), NEW i \in At(t, X), NEW k \in At(t, X) PROVE i = k
    <3>1. i + 1 = k + 1 /\ i \in Int /\ k \in Int BY <1>5, <2>1 DEF Lone
    <3> QED BY <3>1
  <2> QED BY <2>1 DEF Lone
<1>9. At(q, X) = {} => At(t, X) = {} /\ Head(q) \notin X BY <1>5, <1>7
<1>10. Lone(At(q, X)) /\ Head(q) \in X => At(t, X) = {} BY <1>5, <1>7 DEF Lone
<1> QED BY <1>8, <1>9, <1>10 DEF t

LEMMA AtConcat ==
  ASSUME NEW S, NEW q \in Seq(S), NEW r \in Seq(S), NEW X, \A i \in DOMAIN r : r[i] \notin X
  PROVE  At(q \o r, X) = At(q, X)
<1> DEFINE t == q \o r
<1>1. /\ Len(q) \in Nat /\ Len(r) \in Nat /\ DOMAIN q = 1..Len(q) /\ DOMAIN r = 1..Len(r)
      /\ t \in Seq(S) /\ Len(t) = Len(q) + Len(r)
      /\ \A i \in 1..Len(q) + Len(r) : t[i] = IF i <= Len(q) THEN q[i] ELSE r[i - Len(q)]
  BY LenProperties, ConcatProperties
<1>2. DOMAIN t = 1..Len(q) + Len(r) BY <1>1, LenProperties
<1> HIDE DEF t
<1>3. \A i \in DOMAIN q : i \in DOMAIN t /\ t[i] = q[i] BY <1>1, <1>2
<1>4. ASSUME NEW i \in DOMAIN t, t[i] \in X PROVE i \in DOMAIN q /\ t[i] = q[i]
  <2>1. CASE i <= Len(q) BY <1>1, <1>2, <2>1
  <2>2. CASE ~(i <= Len(q))
    <3>1. i - Len(q) \in DOMAIN r /\ t[i] = r[i - Len(q)] BY <1>1, <1>2, <2>2
    <3> QED BY <1>4, <3>1
  <2> QED BY <2>1, <2>2
<1>5. At(t, X) = At(q, X) BY <1>3, <1>4 DEF At
<1> QED BY <1>5 DEF t

-----------------------------------------------------------------------------
(* Popup: the inductive invariant *)

PopupViews   == [rows : SUBSET Int, cursor : Int, page : Seq(Int), aux : BOOLEAN]
PopupCommits == [slot : 0..Slots, life : Nat, gen : Nat, view : PopupViews]
PopupBuffers == [slot : 1..Slots, life : Nat]
PopupEvents  == [name : {"done"}, gen : Nat] \cup [name : {"release"}, slot : 1..Slots, life : Nat]
PopupSlots   == [1..Slots -> [size : P!Sizes, life : Nat, busy : BOOLEAN]]

PopupTypes ==
  /\ table \in [total : Nat, size : Nat, pos : Nat, round : BOOLEAN]
  /\ table.total = 0 \/ table.pos < table.total
  /\ tableShown \in BOOLEAN /\ aux \in BOOLEAN /\ auxShown \in BOOLEAN /\ active \in BOOLEAN
  /\ dirty \in BOOLEAN /\ throttled \in BOOLEAN /\ mapped \in BOOLEAN /\ inPass \in BOOLEAN
  /\ generation \in Nat /\ (~mapped => ~throttled)
  /\ slots \in PopupSlots
  /\ wire \in Seq(PopupCommits) /\ back \in Seq(PopupEvents)
  /\ borrowed \in SUBSET PopupBuffers
  /\ comp \in [shown : PopupCommits, owes : Seq(Nat)]

\* What is committed can be shown, and is of a slot unless it is the null commit.
Sound(c)    == P!HighlightIsOnPage(c.view) /\ (c.slot = 0 => c = P!NullCommit)
CommitInv   == Sound(comp.shown) /\ \A i \in DOMAIN wire : Sound(wire[i])

\* A buffer passes from the wire to the compositor and comes back as a release.
CommitsOf(j, n) == {c \in PopupCommits : c.slot = j /\ c.life = n}
Lent(j, n)      == [slot |-> j, life |-> n]
ReleaseOf(j, n) == {[name |-> "release", slot |-> j, life |-> n]}

\* It is nowhere on this way; it is in one place of it at most.
Unused(wr, bo, bk, j, n) ==
  At(wr, CommitsOf(j, n)) = {} /\ Lent(j, n) \notin bo /\ At(bk, ReleaseOf(j, n)) = {}

OncePer(wr, bo, bk, j, n) ==
  /\ Lone(At(wr, CommitsOf(j, n))) /\ Lone(At(bk, ReleaseOf(j, n)))
  /\ At(wr, CommitsOf(j, n)) # {} => Lent(j, n) \notin bo /\ At(bk, ReleaseOf(j, n)) = {}
  /\ Lent(j, n) \in bo => At(bk, ReleaseOf(j, n)) = {}

\* Nor is one that is yet to be, or that is in a slot held to be free.
Passing(s, wr, bo, bk) ==
  \A j \in 1..Slots :
    /\ \A n \in Nat : OncePer(wr, bo, bk, j, n) /\ (n > s[j].life => Unused(wr, bo, bk, j, n))
    /\ s[j].size # "none" /\ ~s[j].busy => Unused(wr, bo, bk, j, s[j].life)

PopupInv == PopupTypes /\ CommitInv /\ Passing(slots, wire, borrowed, back)

-----------------------------------------------------------------------------
(* Popup: numbers and views *)

LEMMA PopupConstants ==
  /\ Slots \in Nat \ {0}
  /\ Tables \subseteq [total : Nat, size : Nat, pos : Nat, round : BOOLEAN]
  /\ \A t \in Tables : t.total = 0 \/ t.pos < t.total
  BY PeripheryAssumption DEF P!PopupBounds

LEMMA PopupCardinality == ASSUME NEW S PROVE P!Cardinality(S) = Cardinality(S)
  BY DEF P!Cardinality, Cardinality

LEMMA Division ==
  ASSUME NEW n \in Nat, NEW d \in Nat \ {0}
  PROVE  /\ n \div d \in Nat /\ (n \div d) * d \in Nat
         /\ (n \div d) * d <= n /\ n < (n \div d) * d + d
         /\ n % d \in 0..d - 1
  OBVIOUS

LEMMA LargestQuotient ==
  ASSUME NEW n \in Nat, NEW d \in Nat \ {0}, NEW k \in Nat, k * d <= n
  PROVE  k <= n \div d
<1>1. PICK q \in Nat : q = n \div d /\ n < q * d + d BY Division
<1>2. k <= q BY <1>1
<1> QED BY <1>1, <1>2

LEMMA QuotientOfProduct ==
  ASSUME NEW n \in Nat, NEW d \in Nat \ {0}
  PROVE  (n * d) \div d = n
  OBVIOUS

\* A view of a table whose cursor is an index into it shows the cursor.
LEMMA ViewIsSound ==
  ASSUME PopupTypes PROVE P!View \in PopupViews /\ P!HighlightIsOnPage(P!View)
<1> DEFINE t     == IF tableShown THEN table ELSE P!NoTable
           d     == P!PageSize(t)
           start == (t.pos \div d) * d
           end   == P!Least(start + d, t.total)
           v     == P!View
<1>1. /\ t.total \in Nat /\ t.size \in Nat /\ t.pos \in Nat
      /\ t.total = 0 \/ t.pos < t.total
  BY DEF PopupTypes, P!NoTable
<1>2. d \in Nat \ {0} BY <1>1 DEF P!PageSize
<1>3. v = [rows   |-> start..end - 1,
           cursor |-> IF t.pos \in start..end - 1 THEN t.pos - start ELSE -1,
           page   |-> IF P!Pages(t) > 1 THEN <<start \div d + 1, P!Pages(t)>> ELSE <<>>,
           aux    |-> aux /\ auxShown]
  BY DEF P!View
<1>4. PICK pos, total, quot :
        /\ pos = t.pos /\ total = t.total /\ quot = t.pos \div d
        /\ pos \in Nat /\ total \in Nat /\ quot \in Nat /\ (total = 0 \/ pos < total)
        /\ quot * d <= pos /\ pos < quot * d + d
  BY <1>1, <1>2, Division
<1>5. PICK pages : pages = P!Pages(t) /\ pages = (total + d - 1) \div d /\ pages \in Nat
  <2>1. total + d - 1 \in Nat BY <1>2, <1>4
  <2>2. P!Pages(t) = (total + d - 1) \div d BY <1>4 DEF P!Pages
  <2> QED BY <1>2, <2>1, <2>2, Division
<1>6. start = quot * d /\ start \in Nat /\ start \div d = quot
  <2>1. start = quot * d BY <1>4
  <2> QED BY <1>2, <1>4, <2>1, QuotientOfProduct
<1>7. end \in Nat /\ end = IF start + d < total THEN start + d ELSE total
  BY <1>2, <1>4, <1>6 DEF P!Least
<1> HIDE DEF t, d, start, end, v
<1>8. v \in PopupViews
  <2>1. v.rows \in SUBSET Int /\ v.cursor \in Int /\ v.page \in Seq(Int)
    BY <1>3, <1>4, <1>5, <1>6, <1>7
  <2>2. v.aux \in BOOLEAN BY <1>3
  <2> QED BY <1>3, <2>1, <2>2 DEF PopupViews
<1>9. ASSUME v.rows # {}
      PROVE  /\ v.cursor \in 0..P!Cardinality(v.rows) - 1
             /\ (v.page = <<>> \/ v.page[1] \in 1..v.page[2])
  <2>1. v.rows = start..end - 1 BY <1>3
  <2>2. PICK r \in start..end - 1 : TRUE BY <1>9, <2>1
  <2>3. start < end /\ total # 0 /\ start < total
    <3>1. r \in Int /\ start <= r /\ r <= end - 1 BY <2>2
    <3>2. start \in Nat /\ end \in Nat /\ total \in Nat /\ end <= total
      BY <1>2, <1>4, <1>6, <1>7
    <3> QED BY <3>1, <3>2
  <2>4. pos \in start..end - 1 BY <1>2, <1>4, <1>6, <1>7, <2>3
  <2>5. v.cursor = pos - start BY <1>3, <1>4, <2>4
  <2>6. Cardinality(start..end - 1) = end - start
    <3>1. end - 1 \in Int /\ start \in Int /\ ~(start > end - 1) BY <1>6, <1>7, <2>3
    <3>2. Cardinality(start..end - 1) = (end - 1) - start + 1 BY <3>1, FS_Interval
    <3> QED BY <1>6, <1>7, <3>2
  <2>7. v.cursor \in 0..P!Cardinality(v.rows) - 1 BY <1>6, <1>7, <2>1, <2>4, <2>5, <2>6, PopupCardinality
  <2>8. quot + 1 <= pages
    <3>1. pos < total BY <1>4, <2>3
    <3>2. (quot + 1) * d = quot * d + d BY <1>2, <1>4
    <3>3. (quot + 1) * d <= total + d - 1 BY <1>2, <1>4, <3>1, <3>2
    <3>4. total + d - 1 \in Nat /\ quot + 1 \in Nat BY <1>2, <1>4
    <3> QED BY <1>2, <1>5, <3>3, <3>4, LargestQuotient
  <2>9. CASE v.page = <<>> BY <2>7, <2>9
  <2>10. CASE v.page # <<>>
    <3>1. v.page = <<quot + 1, pages>> BY <1>3, <1>5, <1>6, <2>10
    <3>2. v.page[1] = quot + 1 /\ v.page[2] = pages BY <3>1
    <3>3. v.page[1] \in 1..v.page[2] BY <1>4, <1>5, <2>8, <3>2
    <3> QED BY <2>7, <3>3
  <2> QED BY <2>9, <2>10
<1>10. P!HighlightIsOnPage(v) BY <1>9 DEF P!HighlightIsOnPage
<1> QED BY <1>8, <1>10 DEF v

\* What the engine does to the cursor leaves it on a candidate.
LEMMA MovesStay ==
  ASSUME PopupTypes, NEW t \in P!Moves(table)
  PROVE  t \in [total : Nat, size : Nat, pos : Nat, round : BOOLEAN] /\ (t.total = 0 \/ t.pos < t.total)
<1> DEFINE d == P!PageSize(table)
<1>1. /\ table \in [total : Nat, size : Nat, pos : Nat, round : BOOLEAN]
      /\ table.total = 0 \/ table.pos < table.total
  BY DEF PopupTypes
<1>2. d \in Nat \ {0} BY <1>1 DEF P!PageSize
<1>3. PICK total, pos : total = table.total /\ pos = table.pos /\ total \in Nat /\ pos \in Nat BY <1>1
<1>4. CASE total = 0 BY <1>1, <1>3, <1>4 DEF P!Moves
<1>5. CASE total # 0
  <2>1. pos < total BY <1>1, <1>3, <1>5
  <2>2. P!Up(table) \in 0..total - 1 BY <1>3, <1>5, <2>1 DEF P!Up
  <2>3. P!Down(table) \in 0..total - 1 BY <1>3, <1>5, <2>1 DEF P!Down
  <2>4. ASSUME NEW n \in Nat PROVE P!Least(n, total - 1) \in 0..total - 1
    BY <1>3, <1>5 DEF P!Least
  <2>5. pos % d \in Nat /\ pos % d <= pos
    <3>1. pos % d \in 0..d - 1 /\ (pos \div d) * d \in Nat BY <1>2, <1>3, Division
    <3>2. pos = ((pos \div d) * d) + (pos % d) BY <1>2, <1>3
    <3> QED BY <1>2, <1>3, <3>1, <3>2
  <2>6. P!Pages(table) * d \in Nat
    <3>1. total + d - 1 \in Nat BY <1>2, <1>3
    <3>2. P!Pages(table) = (total + d - 1) \div d BY <1>3 DEF P!Pages
    <3> QED BY <1>2, <3>1, <3>2, Division
  <2>7. P!PageUp(table) \in 0..total - 1
    <3>1. PICK m \in Nat : m = P!Pages(table) * d + (pos % d) BY <2>5, <2>6
    <3>2. P!PageUp(table) = CASE pos >= d -> pos - d
                              [] table.round -> P!Least(m, total - 1)
                              [] OTHER -> pos
      BY <1>3, <3>1 DEF P!PageUp
    <3>3. P!Least(m, total - 1) \in 0..total - 1 BY <2>4
    <3> HIDE DEF d
    <3> QED BY <1>2, <1>3, <2>1, <3>2, <3>3
  <2>8. P!PageDown(table) \in 0..total - 1
    <3>1. pos + d \in Nat BY <1>2, <1>3
    <3>2. P!Least(pos + d, total - 1) \in 0..total - 1 BY <2>4, <3>1
    <3>3. pos % d \in 0..total - 1 /\ pos \in 0..total - 1 BY <1>3, <2>1, <2>5
    <3> QED BY <1>3, <3>2, <3>3 DEF P!PageDown
  <2>9. PICK n \in {P!PageUp(table), P!PageDown(table), P!Up(table), P!Down(table)} :
          t = [table EXCEPT !.pos = n]
    BY <1>3, <1>5 DEF P!Moves
  <2>10. n \in 0..total - 1 BY <2>2, <2>3, <2>7, <2>8, <2>9
  <2> HIDE DEF d
  <2>11. t.pos = n /\ t.total = total BY <1>1, <1>3, <2>9
  <2>12. n \in Nat /\ n < total BY <1>3, <2>10
  <2> QED BY <1>1, <1>3, <2>9, <2>11, <2>12
<1> QED BY <1>4, <1>5

-----------------------------------------------------------------------------
(* Popup: every step keeps the invariant *)

LEMMA PopupInit == Init => PopupInv
<1> SUFFICES ASSUME Init PROVE PopupInv OBVIOUS
<1>1. P!Init BY DEF Init
<1>2. P!Hidden \in PopupViews /\ P!HighlightIsOnPage(P!Hidden)
  BY DEF P!Hidden, PopupViews, P!HighlightIsOnPage
<1>3. P!NullCommit \in PopupCommits /\ Sound(P!NullCommit)
  BY <1>2, PopupConstants DEF P!NullCommit, P!Commit, PopupCommits, Sound
<1>4. PopupTypes
  <2>1. slots \in PopupSlots BY <1>1 DEF P!Init, PopupSlots, P!NoBuffer, P!Sizes
  <2>2. comp \in [shown : PopupCommits, owes : Seq(Nat)]
    <3>1. <<>> \in Seq(Nat) OBVIOUS
    <3> QED BY <1>1, <1>3, <3>1 DEF P!Init
  <2>3. table \in [total : Nat, size : Nat, pos : Nat, round : BOOLEAN] /\ table.total = 0
    BY <1>1 DEF P!Init, P!NoTable
  <2>4. wire \in Seq(PopupCommits) /\ back \in Seq(PopupEvents) /\ borrowed \in SUBSET PopupBuffers
    BY <1>1 DEF P!Init
  <2> QED BY <1>1, <2>1, <2>2, <2>3, <2>4 DEF P!Init, PopupTypes
<1>5. CommitInv BY <1>1, <1>3 DEF P!Init, CommitInv
<1>6. Passing(slots, wire, borrowed, back)
  <2>1. \A X : At(wire, X) = {} /\ At(back, X) = {} BY <1>1 DEF P!Init, At
  <2>2. borrowed = {} BY <1>1 DEF P!Init
  <2> QED BY <2>1, <2>2 DEF Passing, OncePer, Unused, Lone
<1> QED BY <1>4, <1>5, <1>6 DEF PopupInv

\* A free slot's next buffer is nowhere on the way: it can be committed.
LEMMA PaintKeeps ==
  ASSUME PopupInv, NEW s \in PopupSlots, NEW bk, Passing(s, wire, borrowed, bk),
         NEW w \in BOOLEAN, ~mapped => ~w, P!Paint(w, s)
  PROVE  /\ slots' \in PopupSlots /\ wire' \in Seq(PopupCommits) /\ generation' \in Nat
         /\ dirty' \in BOOLEAN /\ throttled' \in BOOLEAN /\ mapped' \in BOOLEAN
         /\ ~mapped' => ~throttled'
         /\ \A i \in DOMAIN wire' : Sound(wire'[i])
         /\ Passing(slots', wire', borrowed, bk)
<1>1. PopupTypes /\ CommitInv BY DEF PopupInv
<1>2. CASE dirty /\ ~w /\ active /\ P!Free(s) # {}
  <2>1. PICK i : i = CHOOSE j \in P!Free(s) : \A k \in P!Free(s) : j <= k OBVIOUS
  <2>2. i \in P!Free(s)
    <3>1. P!Free(s) \in SUBSET Nat BY PopupConstants DEF P!Free
    <3>2. \E j \in P!Free(s) : \A k \in P!Free(s) : j <= k BY <1>2, <3>1, LeastOf
    <3> QED BY <2>1, <3>2
  <2>3. i \in 1..Slots /\ ~s[i].busy BY <2>2 DEF P!Free
  <2>4. PICK life : life = s[i].life + (IF s[i].size = P!SizeOf(P!View) THEN 0 ELSE 1) OBVIOUS
  <2>5. PICK c : c = P!Commit(i, life, generation + 1, P!View) OBVIOUS
  <2>6. /\ slots' = [s EXCEPT ![i] = [size |-> P!SizeOf(P!View), life |-> life, busy |-> TRUE]]
        /\ wire' = Append(wire, c) /\ generation' = generation + 1
        /\ dirty' = FALSE /\ throttled' = TRUE /\ mapped' = TRUE
    BY <1>2, <2>1, <2>4, <2>5 DEF P!Paint
  <2>7. P!SizeOf(P!View) \in P!Sizes /\ P!SizeOf(P!View) # "none" BY DEF P!SizeOf, P!Sizes
  <2>8. s[i] \in [size : P!Sizes, life : Nat, busy : BOOLEAN] BY <2>3 DEF PopupSlots
  <2>9. life \in Nat /\ life >= s[i].life BY <2>4, <2>8
  <2>10. c \in PopupCommits /\ Sound(c)
    <3>1. P!View \in PopupViews /\ P!HighlightIsOnPage(P!View) BY <1>1, ViewIsSound
    <3>2. generation + 1 \in Nat BY <1>1 DEF PopupTypes
    <3>3. i \in 0..Slots /\ i # 0 BY <2>3, PopupConstants
    <3> QED BY <2>5, <2>9, <3>1, <3>2, <3>3 DEF P!Commit, PopupCommits, Sound
  <2>11. slots' \in PopupSlots BY <2>6, <2>7, <2>9 DEF PopupSlots
  <2>12. wire \in Seq(PopupCommits) BY <1>1 DEF PopupTypes
  <2>13. wire' \in Seq(PopupCommits) /\ \A k \in DOMAIN wire' : Sound(wire'[k])
    <3>1. Len(wire) \in Nat /\ DOMAIN wire = 1..Len(wire) BY <2>12, LenProperties
    <3>2. /\ wire' \in Seq(PopupCommits) /\ Len(wire') = Len(wire) + 1
          /\ \A k \in 1..Len(wire) : wire'[k] = wire[k]
          /\ wire'[Len(wire) + 1] = c
      BY <2>6, <2>10, <2>12, AppendProperties
    <3>3. DOMAIN wire' = 1..Len(wire) + 1 BY <3>2, LenProperties
    <3>4. ASSUME NEW k \in DOMAIN wire' PROVE Sound(wire'[k])
      <4>1. k \in 1..Len(wire) \/ k = Len(wire) + 1 BY <3>1, <3>3
      <4> QED BY <1>1, <2>10, <3>1, <3>2, <4>1 DEF CommitInv
    <3> QED BY <3>2, <3>4
  \* The buffer that is committed was unused.
  <2>14. Unused(wire, borrowed, bk, i, life)
    <3>1. CASE s[i].size = P!SizeOf(P!View)
      <4>1. life = s[i].life /\ s[i].size # "none" BY <2>4, <2>7, <2>8, <3>1
      <4> QED BY <2>3, <4>1 DEF Passing
    <3>2. CASE s[i].size # P!SizeOf(P!View)
      <4>1. life > s[i].life BY <2>4, <2>8, <3>2
      <4> QED BY <2>3, <2>9, <4>1 DEF Passing
    <3> QED BY <3>1, <3>2
  <2>15. c.slot = i /\ c.life = life BY <2>5 DEF P!Commit
  <2>16. ASSUME NEW j \in 1..Slots, NEW n \in Nat, j # i \/ n # life
         PROVE  At(wire', CommitsOf(j, n)) = At(wire, CommitsOf(j, n))
    <3>1. c \notin CommitsOf(j, n) BY <2>15, <2>16 DEF CommitsOf
    <3> QED BY <2>6, <2>10, <2>12, <3>1, AtAppend
  <2>17. Lone(At(wire', CommitsOf(i, life)))
    <3>1. At(wire, CommitsOf(i, life)) = {} BY <2>14 DEF Unused
    <3> QED BY <2>6, <2>10, <2>12, <3>1, AtAppend
  <2>18. ASSUME NEW j \in 1..Slots, NEW n \in Nat
         PROVE  /\ OncePer(wire', borrowed, bk, j, n)
                /\ n > slots'[j].life => Unused(wire', borrowed, bk, j, n)
    <3>1. OncePer(wire, borrowed, bk, j, n) /\ (n > s[j].life => Unused(wire, borrowed, bk, j, n))
      BY DEF Passing
    <3>2. CASE j = i /\ n = life
      <4>1. OncePer(wire', borrowed, bk, i, life) BY <2>14, <2>17, <3>1, <3>2 DEF OncePer, Unused
      <4>2. slots'[i].life = life BY <2>3, <2>6 DEF PopupSlots
      <4> QED BY <2>9, <3>2, <4>1, <4>2
    <3>3. CASE j # i \/ n # life
      <4>1. At(wire', CommitsOf(j, n)) = At(wire, CommitsOf(j, n)) BY <2>16, <3>3
      <4>2. n > slots'[j].life => n > s[j].life
        <5>1. s[j] \in [size : P!Sizes, life : Nat, busy : BOOLEAN] BY DEF PopupSlots
        <5>2. slots'[j].life = IF j = i THEN life ELSE s[j].life BY <2>3, <2>6 DEF PopupSlots
        <5> QED BY <2>9, <5>1, <5>2
      <4> QED BY <3>1, <4>1, <4>2 DEF OncePer, Unused
    <3> QED BY <3>2, <3>3
  <2>19. ASSUME NEW j \in 1..Slots, slots'[j].size # "none", ~slots'[j].busy
         PROVE  Unused(wire', borrowed, bk, j, slots'[j].life)
    <3>1. j # i BY <2>3, <2>6, <2>19 DEF PopupSlots
    <3>2. slots'[j] = s[j] /\ s[j].life \in Nat BY <2>6, <3>1 DEF PopupSlots
    <3>3. Unused(wire, borrowed, bk, j, s[j].life) BY <2>19, <3>2 DEF Passing
    <3>4. At(wire', CommitsOf(j, s[j].life)) = At(wire, CommitsOf(j, s[j].life)) BY <2>16, <3>1, <3>2
    <3> QED BY <3>2, <3>3, <3>4 DEF Unused
  <2>20. Passing(slots', wire', borrowed, bk) BY <2>18, <2>19 DEF Passing
  <2>21. generation' \in Nat BY <1>1, <2>6 DEF PopupTypes
  <2> QED BY <2>6, <2>11, <2>13, <2>20, <2>21
<1>3. CASE ~(dirty /\ ~w /\ active /\ P!Free(s) # {})
  <2>1. /\ slots' = s /\ throttled' = w /\ wire' = wire /\ generation' = generation
        /\ dirty' = dirty /\ mapped' = mapped
    BY <1>3 DEF P!Paint
  <2> QED BY <1>1, <2>1 DEF PopupTypes, CommitInv
<1> QED BY <1>2, <1>3

\* What no slot has any more can be where it will.
LEMMA UnmapKeeps ==
  ASSUME PopupInv, P!Unmap
  PROVE  /\ slots' \in PopupSlots /\ wire' \in Seq(PopupCommits) /\ generation' \in Nat
         /\ dirty' \in BOOLEAN /\ throttled' \in BOOLEAN /\ mapped' \in BOOLEAN
         /\ ~mapped' => ~throttled'
         /\ \A i \in DOMAIN wire' : Sound(wire'[i])
         /\ Passing(slots', wire', borrowed, back)
<1>1. PopupTypes /\ CommitInv /\ Passing(slots, wire, borrowed, back) BY DEF PopupInv
<1>2. CASE mapped
  <2>1. /\ wire' = Append(wire, P!NullCommit) /\ generation' = generation + 1
        /\ mapped' = FALSE /\ dirty' = FALSE /\ throttled' = FALSE
        /\ slots' = [i \in 1..Slots |-> [P!NoBuffer EXCEPT !.life = slots[i].life]]
    BY <1>2 DEF P!Unmap
  <2>2. P!NullCommit \in PopupCommits /\ Sound(P!NullCommit)
    BY PopupConstants DEF P!NullCommit, P!Commit, PopupCommits, Sound, P!Hidden, PopupViews, P!HighlightIsOnPage
  <2>3. ASSUME NEW i \in 1..Slots
        PROVE  /\ slots'[i] \in [size : P!Sizes, life : Nat, busy : BOOLEAN]
               /\ slots'[i].size = "none" /\ slots'[i].life = slots[i].life
    <3>1. slots[i].life \in Nat BY <1>1 DEF PopupTypes, PopupSlots
    <3>2. slots'[i] = [P!NoBuffer EXCEPT !.life = slots[i].life] BY <2>1
    <3> QED BY <3>1, <3>2 DEF P!NoBuffer, P!Sizes
  <2>4. slots' \in PopupSlots
    <3>1. \A i \in 1..Slots : slots'[i] \in [size : P!Sizes, life : Nat, busy : BOOLEAN]
      BY <2>3
    <3>2. PICK fn : fn = slots' OBVIOUS
    <3>3. fn = [i \in 1..Slots |-> fn[i]] BY <2>1, <3>2
    <3> QED BY <3>1, <3>2, <3>3 DEF PopupSlots
  <2>5. wire \in Seq(PopupCommits) BY <1>1 DEF PopupTypes
  <2>6. wire' \in Seq(PopupCommits) /\ \A k \in DOMAIN wire' : Sound(wire'[k])
    <3>1. Len(wire) \in Nat /\ DOMAIN wire = 1..Len(wire) BY <2>5, LenProperties
    <3>2. /\ wire' \in Seq(PopupCommits) /\ Len(wire') = Len(wire) + 1
          /\ \A k \in 1..Len(wire) : wire'[k] = wire[k]
          /\ wire'[Len(wire) + 1] = P!NullCommit
      BY <2>1, <2>2, <2>5, AppendProperties
    <3>3. DOMAIN wire' = 1..Len(wire) + 1 BY <3>2, LenProperties
    <3>4. ASSUME NEW k \in DOMAIN wire' PROVE Sound(wire'[k])
      <4>1. k \in 1..Len(wire) \/ k = Len(wire) + 1 BY <3>1, <3>3
      <4> QED BY <1>1, <2>2, <3>1, <3>2, <4>1 DEF CommitInv
    <3> QED BY <3>2, <3>4
  <2>7. ASSUME NEW j \in 1..Slots, NEW n \in Nat
        PROVE  At(wire', CommitsOf(j, n)) = At(wire, CommitsOf(j, n))
    <3>1. P!NullCommit \notin CommitsOf(j, n) BY DEF CommitsOf, P!NullCommit, P!Commit
    <3> QED BY <2>1, <2>2, <2>5, <3>1, AtAppend
  <2>8. Passing(slots', wire', borrowed, back)
    <3>1. ASSUME NEW j \in 1..Slots, NEW n \in Nat
          PROVE  /\ OncePer(wire', borrowed, back, j, n)
                 /\ n > slots'[j].life => Unused(wire', borrowed, back, j, n)
      <4>1. OncePer(wire, borrowed, back, j, n) /\ (n > slots[j].life => Unused(wire, borrowed, back, j, n))
        BY <1>1 DEF Passing
      <4>2. slots'[j].life = slots[j].life BY <2>3
      <4> QED BY <2>7, <4>1, <4>2 DEF OncePer, Unused
    <3>2. \A j \in 1..Slots : slots'[j].size = "none" BY <2>3
    <3> QED BY <3>1, <3>2 DEF Passing
  <2>9. generation' \in Nat
    <3>1. generation \in Nat BY <1>1 DEF PopupTypes
    <3> QED BY <2>1, <3>1
  <2> QED BY <2>1, <2>4, <2>6, <2>8, <2>9
<1>3. CASE ~mapped
  <2>1. UNCHANGED <<wire, mapped, dirty, throttled, generation, slots>> BY <1>3 DEF P!Unmap
  <2> QED BY <1>1, <2>1 DEF PopupTypes, CommitInv
<1> QED BY <1>2, <1>3

LEMMA FlushKeeps == ASSUME PopupInv, P!Flush PROVE PopupInv'
<1>1. PopupTypes /\ CommitInv /\ Passing(slots, wire, borrowed, back) BY DEF PopupInv
<1>2. /\ inPass' = FALSE /\ (P!Unmap \/ P!Paint(throttled, slots))
      /\ UNCHANGED <<table, tableShown, aux, auxShown, active, comp, borrowed, back, signals>>
  BY DEF P!Flush, P!content, P!server
<1>3. /\ slots' \in PopupSlots /\ wire' \in Seq(PopupCommits) /\ generation' \in Nat
      /\ dirty' \in BOOLEAN /\ throttled' \in BOOLEAN /\ mapped' \in BOOLEAN
      /\ ~mapped' => ~throttled'
      /\ \A i \in DOMAIN wire' : Sound(wire'[i])
      /\ Passing(slots', wire', borrowed, back)
  <2>1. slots \in PopupSlots /\ throttled \in BOOLEAN /\ (~mapped => ~throttled) BY <1>1 DEF PopupTypes
  <2> QED BY <1>1, <1>2, <2>1, UnmapKeeps, PaintKeeps
<1>4. PopupTypes' BY <1>1, <1>2, <1>3 DEF PopupTypes
<1>5. CommitInv' BY <1>1, <1>2, <1>3 DEF CommitInv
<1> QED BY <1>2, <1>3, <1>4, <1>5 DEF PopupInv

LEMMA SignalKeeps == ASSUME PopupInv, P!Signal PROVE PopupInv'
<1>1. PopupTypes /\ CommitInv /\ Passing(slots, wire, borrowed, back) BY DEF PopupInv
<1>2. /\ (active /\ P!Engine /\ active' = active) \/ P!SetActive
      /\ dirty' = TRUE /\ inPass' = TRUE
      /\ UNCHANGED <<throttled, generation, mapped, slots, wire, comp, borrowed, back>>
  BY DEF P!Signal, P!server
<1>3. /\ table' \in [total : Nat, size : Nat, pos : Nat, round : BOOLEAN]
      /\ table'.total = 0 \/ table'.pos < table'.total
      /\ tableShown' \in BOOLEAN /\ aux' \in BOOLEAN /\ auxShown' \in BOOLEAN /\ active' \in BOOLEAN
  <2>1. CASE P!SetActive
    <3>1. active' = ~active
      BY <2>1 DEF P!SetActive
    <3>2. active' \in BOOLEAN BY <3>1
    <3>3. CASE active
      <4>1. table' = P!NoTable /\ tableShown' = FALSE /\ aux' = FALSE /\ auxShown' = FALSE
        BY <2>1, <3>3 DEF P!SetActive
      <4> QED BY <3>2, <4>1 DEF P!NoTable
    <3>4. CASE ~active
      <4>1. UNCHANGED <<table, tableShown, aux, auxShown>> BY <2>1, <3>4 DEF P!SetActive
      <4> QED BY <1>1, <3>2, <4>1 DEF PopupTypes
    <3> QED BY <3>3, <3>4
  <2>2. CASE P!Engine /\ active' = active
    <3>1. active' \in BOOLEAN BY <1>1, <2>2 DEF PopupTypes
    <3>2. ASSUME NEW t \in Tables, NEW visible \in BOOLEAN, table' = t, tableShown' = visible,
                 UNCHANGED <<aux, auxShown>>
          PROVE  /\ table' \in [total : Nat, size : Nat, pos : Nat, round : BOOLEAN]
                 /\ table'.total = 0 \/ table'.pos < table'.total
                 /\ tableShown' \in BOOLEAN /\ aux' \in BOOLEAN /\ auxShown' \in BOOLEAN
      BY <1>1, <3>2, PopupConstants DEF PopupTypes
    <3>3. ASSUME NEW t \in P!Moves(table), table' = t, UNCHANGED <<tableShown, aux, auxShown>>
          PROVE  /\ table' \in [total : Nat, size : Nat, pos : Nat, round : BOOLEAN]
                 /\ table'.total = 0 \/ table'.pos < table'.total
                 /\ tableShown' \in BOOLEAN /\ aux' \in BOOLEAN /\ auxShown' \in BOOLEAN
      BY <1>1, <3>3, MovesStay DEF PopupTypes
    <3>4. ASSUME table' = table, tableShown' \in BOOLEAN, aux' \in BOOLEAN, auxShown' \in BOOLEAN
          PROVE  /\ table' \in [total : Nat, size : Nat, pos : Nat, round : BOOLEAN]
                 /\ table'.total = 0 \/ table'.pos < table'.total
                 /\ tableShown' \in BOOLEAN /\ aux' \in BOOLEAN /\ auxShown' \in BOOLEAN
      BY <1>1, <3>4 DEF PopupTypes
    <3>5. \/ \E t \in Tables, visible \in BOOLEAN :
               table' = t /\ tableShown' = visible /\ UNCHANGED <<aux, auxShown>>
          \/ \E t \in P!Moves(table) : table' = t /\ UNCHANGED <<tableShown, aux, auxShown>>
          \/ table' = table /\ tableShown' \in BOOLEAN /\ aux' \in BOOLEAN /\ auxShown' \in BOOLEAN
      BY <1>1, <2>2 DEF P!Engine, PopupTypes
    <3> QED BY <3>1, <3>2, <3>3, <3>4, <3>5
  <2> QED BY <1>2, <2>1, <2>2
<1>4. PopupTypes' BY <1>1, <1>2, <1>3 DEF PopupTypes
<1> QED BY <1>1, <1>2, <1>4 DEF PopupInv, CommitInv

\* A release of the buffer a slot has is the only one, and nothing else of it is
\* under way: the slot is free.
LEMMA OnEventKeeps == ASSUME PopupInv, P!OnEvent PROVE PopupInv'
<1> DEFINE e     == Head(back)
           alive == e.name = "release" /\ slots[e.slot].life = e.life /\ slots[e.slot].size # "none"
           freed == [slots EXCEPT ![e.slot].busy = FALSE]
<1>1. PopupTypes /\ CommitInv /\ Passing(slots, wire, borrowed, back) BY DEF PopupInv
<1>2. /\ back # <<>>
      /\ CASE e.name = "done" /\ e.gen = generation -> P!Paint(FALSE, slots)
           [] alive -> P!Paint(throttled, freed)
           [] OTHER -> UNCHANGED <<slots, wire, generation, dirty, mapped, throttled>>
      /\ back' = Tail(back) /\ inPass' = TRUE
      /\ UNCHANGED <<table, tableShown, aux, auxShown, active, comp, borrowed, signals>>
  BY DEF P!OnEvent, P!content, P!server
<1>3. back \in Seq(PopupEvents) /\ e \in PopupEvents /\ back' \in Seq(PopupEvents)
  <2>1. back \in Seq(PopupEvents) BY <1>1 DEF PopupTypes
  <2> QED BY <1>2, <2>1, HeadTailProperties
<1>4. \A X : /\ Lone(At(back, X)) => Lone(At(back', X))
             /\ At(back, X) = {} => At(back', X) = {}
             /\ Lone(At(back, X)) /\ e \in X => At(back', X) = {}
  BY <1>2, <1>3, AtTail
<1> HIDE DEF e
<1>5. Passing(slots, wire, borrowed, back') BY <1>1, <1>4 DEF Passing, OncePer, Unused
<1>6. ASSUME alive
      PROVE  freed \in PopupSlots /\ Passing(freed, wire, borrowed, back')
  <2>1. e.slot \in 1..Slots /\ e.life \in Nat /\ e = [name |-> "release", slot |-> e.slot, life |-> e.life]
    BY <1>3, <1>6 DEF PopupEvents
  <2>2. slots \in PopupSlots BY <1>1 DEF PopupTypes
  <2>3. /\ freed \in PopupSlots
        /\ \A j \in 1..Slots : /\ freed[j].life = slots[j].life /\ freed[j].size = slots[j].size
                               /\ j # e.slot => freed[j].busy = slots[j].busy
    BY <2>1, <2>2 DEF PopupSlots
  <2>4. e \in ReleaseOf(e.slot, e.life) BY <2>1 DEF ReleaseOf
  <2>5. 1 \in At(back, ReleaseOf(e.slot, e.life))
    <3>1. 1 \in DOMAIN back /\ back[1] = e BY <1>2, <1>3, EmptySeq, LenProperties DEF e
    <3> QED BY <2>4, <3>1 DEF At
  <2>6. OncePer(wire, borrowed, back, e.slot, e.life) BY <1>1, <2>1 DEF Passing
  <2>7. Unused(wire, borrowed, back', e.slot, e.life)
    BY <1>4, <2>4, <2>5, <2>6 DEF OncePer, Unused
  <2> HIDE DEF freed
  <2>8. ASSUME NEW j \in 1..Slots, freed[j].size # "none", ~freed[j].busy
        PROVE  Unused(wire, borrowed, back', j, freed[j].life)
    <3>1. CASE j = e.slot BY <1>6, <2>3, <2>7, <3>1
    <3>2. CASE j # e.slot BY <1>5, <2>3, <2>8, <3>2 DEF Passing
    <3> QED BY <3>1, <3>2
  <2> QED BY <1>5, <2>3, <2>8 DEF Passing
<1>7. /\ slots' \in PopupSlots /\ wire' \in Seq(PopupCommits) /\ generation' \in Nat
      /\ dirty' \in BOOLEAN /\ throttled' \in BOOLEAN /\ mapped' \in BOOLEAN
      /\ ~mapped' => ~throttled'
      /\ \A i \in DOMAIN wire' : Sound(wire'[i])
      /\ Passing(slots', wire', borrowed, back')
  <2>1. slots \in PopupSlots /\ throttled \in BOOLEAN /\ (~mapped => ~throttled) BY <1>1 DEF PopupTypes
  <2>2. PICK bk : bk = back' OBVIOUS
  <2>3. CASE P!Paint(FALSE, slots)
    <3>1. Passing(slots, wire, borrowed, bk) BY <1>5, <2>2
    <3>2. FALSE \in BOOLEAN /\ (~mapped => ~FALSE) OBVIOUS
    <3> QED BY <2>1, <2>2, <2>3, <3>1, <3>2, PaintKeeps
  <2>4. CASE alive /\ P!Paint(throttled, freed)
    <3>1. freed \in PopupSlots /\ Passing(freed, wire, borrowed, bk) BY <1>6, <2>2, <2>4
    <3> HIDE DEF freed
    <3> QED BY <2>1, <2>2, <2>4, <3>1, PaintKeeps
  <2>5. CASE UNCHANGED <<slots, wire, generation, dirty, mapped, throttled>>
    BY <1>1, <1>5, <2>5 DEF PopupTypes, CommitInv
  <2>6. P!Paint(FALSE, slots) \/ (alive /\ P!Paint(throttled, freed)) \/
        UNCHANGED <<slots, wire, generation, dirty, mapped, throttled>>
    <3> HIDE DEF alive, freed
    <3>1. CASE e.name = "done" /\ e.gen = generation /\ ~alive BY <1>2, <3>1
    <3>2. CASE alive /\ ~(e.name = "done" /\ e.gen = generation) BY <1>2, <3>2
    <3>3. CASE ~alive /\ ~(e.name = "done" /\ e.gen = generation) BY <1>2, <3>3
    <3>4. ~(alive /\ e.name = "done") BY DEF alive
    <3> QED BY <3>1, <3>2, <3>3, <3>4
  <2> QED BY <2>3, <2>4, <2>5, <2>6
<1>8. PopupTypes' BY <1>1, <1>2, <1>3, <1>7 DEF PopupTypes
<1>9. CommitInv' BY <1>1, <1>2, <1>7 DEF CommitInv
<1> QED BY <1>2, <1>7, <1>8, <1>9 DEF PopupInv

LEMMA HandleKeeps == ASSUME PopupInv, P!Handle PROVE PopupInv'
<1> DEFINE c == Head(wire)
<1>1. PopupTypes /\ CommitInv /\ Passing(slots, wire, borrowed, back) BY DEF PopupInv
<1>2. /\ wire # <<>>
      /\ comp' = [shown |-> c, owes |-> IF c = P!NullCommit THEN comp.owes ELSE Append(comp.owes, c.gen)]
      /\ borrowed' = borrowed \cup (IF c = P!NullCommit THEN {} ELSE {P!BufferOf(c)})
      /\ wire' = Tail(wire)
      /\ UNCHANGED <<table, tableShown, aux, auxShown, active, dirty, throttled, generation, mapped, slots, inPass, back, signals>>
  BY DEF P!Handle, P!content
<1>3. wire \in Seq(PopupCommits) BY <1>1 DEF PopupTypes
<1>4. Len(wire) \in Nat \ {0} /\ DOMAIN wire = 1..Len(wire) /\ c = wire[1] BY <1>2, <1>3, EmptySeq, LenProperties
<1>5. /\ c \in PopupCommits /\ wire' \in Seq(PopupCommits) /\ Len(wire') = Len(wire) - 1
      /\ \A i \in 1..Len(wire') : wire'[i] = wire[i + 1]
  BY <1>2, <1>3, HeadTailProperties
<1>6. \A X : /\ Lone(At(wire, X)) => Lone(At(wire', X))
             /\ At(wire, X) = {} => At(wire', X) = {} /\ c \notin X
             /\ Lone(At(wire, X)) /\ c \in X => At(wire', X) = {}
  BY <1>2, <1>3, AtTail
<1>7. Sound(c) /\ (c # P!NullCommit => c.slot \in 1..Slots)
  <2>1. 1 \in DOMAIN wire BY <1>4
  <2>2. Sound(c) BY <1>1, <1>4, <2>1 DEF CommitInv
  <2>3. c.slot \in 0..Slots BY <1>5 DEF PopupCommits
  <2> QED BY <2>2, <2>3, PopupConstants DEF Sound
<1> HIDE DEF c
<1>8. PopupTypes'
  <2>1. comp' \in [shown : PopupCommits, owes : Seq(Nat)]
    <3>1. comp.owes \in Seq(Nat) BY <1>1 DEF PopupTypes
    <3>2. c.gen \in Nat BY <1>5 DEF PopupCommits
    <3>3. Append(comp.owes, c.gen) \in Seq(Nat) BY <3>1, <3>2, AppendProperties
    <3> QED BY <1>2, <1>5, <3>1, <3>3
  <2>2. borrowed' \in SUBSET PopupBuffers
    <3>1. borrowed \subseteq PopupBuffers BY <1>1 DEF PopupTypes
    <3>2. c.life \in Nat BY <1>5 DEF PopupCommits
    <3>3. c # P!NullCommit => P!BufferOf(c) \in PopupBuffers
      BY <1>7, <3>2 DEF PopupBuffers, P!BufferOf
    <3>4. c # P!NullCommit => borrowed' = borrowed \cup {P!BufferOf(c)} BY <1>2
    <3>5. c = P!NullCommit => borrowed' = borrowed BY <1>2
    <3> QED BY <3>1, <3>3, <3>4, <3>5
  <2> QED BY <1>1, <1>2, <1>5, <2>1, <2>2 DEF PopupTypes
<1>9. CommitInv'
  <2>1. DOMAIN wire' = 1..Len(wire) - 1 BY <1>5, LenProperties
  <2>2. ASSUME NEW i \in DOMAIN wire' PROVE Sound(wire'[i])
    <3>1. i + 1 \in DOMAIN wire /\ i \in 1..Len(wire') BY <1>4, <1>5, <2>1
    <3>2. wire'[i] = wire[i + 1] BY <1>5, <3>1
    <3>3. Sound(wire[i + 1]) BY <1>1, <3>1 DEF CommitInv
    <3> QED BY <3>2, <3>3
  <2>3. comp'.shown = c BY <1>2
  <2> QED BY <1>7, <2>2, <2>3 DEF CommitInv
<1>10. ASSUME NEW j \in 1..Slots, NEW n \in Nat
       PROVE  /\ OncePer(wire', borrowed', back, j, n)
              /\ Unused(wire, borrowed, back, j, n) => Unused(wire', borrowed', back, j, n)
  <2>1. OncePer(wire, borrowed, back, j, n) BY <1>1 DEF Passing
  <2>2. CASE c \in CommitsOf(j, n)
    <3>1. At(wire, CommitsOf(j, n)) # {} BY <1>6, <2>2
    <3>2. At(wire', CommitsOf(j, n)) = {} BY <1>6, <2>1, <2>2 DEF OncePer
    <3>3. At(back, ReleaseOf(j, n)) = {} BY <2>1, <3>1 DEF OncePer
    <3> QED BY <2>1, <3>1, <3>2, <3>3 DEF OncePer, Unused, Lone
  <2>3. CASE c \notin CommitsOf(j, n)
    <3>1. c # P!NullCommit => Lent(j, n) # P!BufferOf(c)
      BY <1>5, <2>3 DEF CommitsOf, Lent, P!BufferOf
    <3>2. Lent(j, n) \in borrowed' <=> Lent(j, n) \in borrowed BY <1>2, <3>1
    <3> QED BY <1>6, <2>1, <3>2 DEF OncePer, Unused
  <2> QED BY <2>2, <2>3
<1>11. Passing(slots, wire', borrowed', back)
  <2>1. \A j \in 1..Slots : slots[j].life \in Nat BY <1>1 DEF PopupTypes, PopupSlots
  <2> QED BY <1>1, <1>10, <2>1 DEF Passing
<1> QED BY <1>2, <1>8, <1>9, <1>11 DEF PopupInv

LEMMA FrameDoneKeeps == ASSUME PopupInv, P!FrameDone PROVE PopupInv'
<1>1. PopupTypes /\ CommitInv /\ Passing(slots, wire, borrowed, back) BY DEF PopupInv
<1>2. PICK r : r = [i \in DOMAIN comp.owes |-> [name |-> "done", gen |-> comp.owes[i]]] OBVIOUS
<1>3. /\ back' = back \o r
      /\ comp' = [comp EXCEPT !.owes = <<>>]
      /\ UNCHANGED <<table, tableShown, aux, auxShown, active, dirty, throttled, generation, mapped, slots, inPass, wire, borrowed, signals>>
  BY <1>2 DEF P!FrameDone, P!content
<1>4. r \in Seq(PopupEvents)
  <2>1. comp.owes \in Seq(Nat) BY <1>1 DEF PopupTypes
  <2>2. PICK n \in Nat : n = Len(comp.owes) /\ DOMAIN comp.owes = 1..n BY <2>1, LenProperties
  <2>3. \A i \in 1..n : comp.owes[i] \in Nat BY <2>1, <2>2, ElementOfSeq
  <2>4. r \in [1..n -> PopupEvents] BY <1>2, <2>2, <2>3 DEF PopupEvents
  <2> QED BY <2>4, SeqDef
<1>5. back \in Seq(PopupEvents) BY <1>1 DEF PopupTypes
<1>6. back' \in Seq(PopupEvents) BY <1>3, <1>4, <1>5, ConcatProperties
<1>7. ASSUME NEW j, NEW n PROVE At(back', ReleaseOf(j, n)) = At(back, ReleaseOf(j, n))
  <2>1. \A i \in DOMAIN r : r[i] \notin ReleaseOf(j, n) BY <1>2 DEF ReleaseOf
  <2> QED BY <1>3, <1>4, <1>5, <2>1, AtConcat
<1>8. PopupTypes'
  <2>1. comp' \in [shown : PopupCommits, owes : Seq(Nat)]
    <3>1. <<>> \in Seq(Nat) /\ comp \in [shown : PopupCommits, owes : Seq(Nat)] BY <1>1 DEF PopupTypes
    <3> QED BY <1>3, <3>1
  <2> QED BY <1>1, <1>3, <1>6, <2>1 DEF PopupTypes
<1>9. CommitInv'
  <2>1. comp'.shown = comp.shown BY <1>1, <1>3 DEF PopupTypes
  <2> QED BY <1>1, <1>3, <2>1 DEF CommitInv
<1>10. Passing(slots, wire, borrowed, back') BY <1>1, <1>7 DEF Passing, OncePer, Unused
<1> QED BY <1>3, <1>8, <1>9, <1>10 DEF PopupInv

LEMMA ReleaseKeeps == ASSUME PopupInv, NEW b \in borrowed, P!Release(b) PROVE PopupInv'
<1>1. PopupTypes /\ CommitInv /\ Passing(slots, wire, borrowed, back) BY DEF PopupInv
<1>2. PICK e : e = [name |-> "release", slot |-> b.slot, life |-> b.life] OBVIOUS
<1>3. /\ borrowed' = borrowed \ {b} /\ back' = Append(back, e)
      /\ UNCHANGED <<table, tableShown, aux, auxShown, active, dirty, throttled, generation, mapped, slots, inPass, wire, comp, signals>>
  BY <1>2 DEF P!Release, P!content
<1>4. back \in Seq(PopupEvents) /\ b \in PopupBuffers /\ e \in PopupEvents
  BY <1>1, <1>2 DEF PopupTypes, PopupBuffers, PopupEvents
<1>5. back' \in Seq(PopupEvents) BY <1>3, <1>4, AppendProperties
<1>6. \A X : /\ e \notin X => At(back', X) = At(back, X)
             /\ At(back, X) = {} => Lone(At(back', X))
  BY <1>3, <1>4, AtAppend
<1>7. ASSUME NEW j \in 1..Slots, NEW n \in Nat
      PROVE  /\ OncePer(wire, borrowed', back', j, n)
             /\ Unused(wire, borrowed, back, j, n) => Unused(wire, borrowed', back', j, n)
  <2>1. OncePer(wire, borrowed, back, j, n) BY <1>1 DEF Passing
  <2>2. CASE b = Lent(j, n)
    <3>1. At(wire, CommitsOf(j, n)) = {} /\ At(back, ReleaseOf(j, n)) = {} BY <2>1, <2>2 DEF OncePer
    <3>2. Lone(At(back', ReleaseOf(j, n))) BY <1>6, <3>1
    <3>3. Lent(j, n) \notin borrowed' /\ Lent(j, n) \in borrowed BY <1>3, <2>2
    <3> QED BY <3>1, <3>2, <3>3 DEF OncePer, Unused, Lone
  <2>3. CASE b # Lent(j, n)
    <3>1. e \notin ReleaseOf(j, n) BY <1>2, <1>4, <2>3 DEF ReleaseOf, Lent, PopupBuffers
    <3>2. At(back', ReleaseOf(j, n)) = At(back, ReleaseOf(j, n)) BY <1>6, <3>1
    <3>3. Lent(j, n) \in borrowed' <=> Lent(j, n) \in borrowed BY <1>3, <2>3
    <3> QED BY <2>1, <3>2, <3>3 DEF OncePer, Unused
  <2> QED BY <2>2, <2>3
<1>8. PopupTypes' BY <1>1, <1>3, <1>5 DEF PopupTypes
<1>9. CommitInv' BY <1>1, <1>3 DEF CommitInv
<1>10. Passing(slots, wire, borrowed', back')
  <2>1. \A j \in 1..Slots : slots[j].life \in Nat BY <1>1 DEF PopupTypes, PopupSlots
  <2> QED BY <1>1, <1>7, <2>1 DEF Passing
<1> QED BY <1>3, <1>8, <1>9, <1>10 DEF PopupInv

-----------------------------------------------------------------------------
(* Popup: theorems *)

LEMMA PopupStepKeeps == ASSUME PopupInv, [Next]_vars PROVE PopupInv'
<1>1. CASE UNCHANGED popup
  <2>1. UNCHANGED <<table, tableShown, aux, auxShown, active, dirty, throttled, generation, mapped,
                    slots, inPass, wire, comp, borrowed, back>>
    BY <1>1 DEF popup
  <2> QED BY <2>1 DEF PopupInv, PopupTypes, CommitInv
<1>2. CASE P!Next
  BY <1>2, SignalKeeps, OnEventKeeps, FlushKeeps, HandleKeeps, FrameDoneKeeps, ReleaseKeeps DEF P!Next
<1> QED BY <1>1, <1>2 DEF Next, vars, MirrorsStep, UpstreamStep, PopupStep, FieldStep, TypingStep, CaptureStep

THEOREM PopupInvariant == Spec => []PopupInv
<1>1. Init => PopupInv BY PopupInit
<1>2. PopupInv /\ [Next]_vars => PopupInv' BY PopupStepKeeps
<1> QED BY <1>1, <1>2, PTL DEF Spec

\* The buffer a slot has now is with the compositor, or on its way there, only
\* while the slot is busy; of a buffer it had before an unmap, whose memory is the
\* same, this says nothing (popup.rs paint, on_release, unmap).
THEOREM FreeIsFree == Spec => []BusyIsHonest
<1>1. PopupInv => BusyIsHonest
  <2> SUFFICES ASSUME PopupInv,
                      NEW b \in borrowed \cup {P!BufferOf(c) : c \in P!Range(wire) \ {P!NullCommit}},
                      slots[b.slot].life = b.life, slots[b.slot].size # "none", ~slots[b.slot].busy
               PROVE  FALSE
    BY DEF BusyIsHonest, P!BusyIsHonest
  <2>1. PopupTypes /\ CommitInv /\ Passing(slots, wire, borrowed, back) BY DEF PopupInv
  <2>2. CASE b \in borrowed
    <3>1. b.slot \in 1..Slots /\ b = Lent(b.slot, b.life) BY <2>1, <2>2 DEF PopupTypes, PopupBuffers, Lent
    <3> QED BY <2>1, <2>2, <3>1 DEF Passing, Unused
  <2>3. ASSUME NEW i \in DOMAIN wire, wire[i] # P!NullCommit, b = P!BufferOf(wire[i]) PROVE FALSE
    <3>1. wire[i] \in PopupCommits BY <2>1, LenProperties, ElementOfSeq DEF PopupTypes
    <3>2. b.slot = wire[i].slot /\ b.life = wire[i].life BY <2>3 DEF P!BufferOf
    <3>3. b.slot \in 1..Slots
      <4>1. wire[i].slot # 0 BY <2>1, <2>3 DEF CommitInv, Sound
      <4>2. wire[i].slot \in 0..Slots BY <3>1 DEF PopupCommits
      <4> QED BY <3>2, <4>1, <4>2, PopupConstants
    <3>4. i \in At(wire, CommitsOf(b.slot, b.life)) BY <3>1, <3>2 DEF At, CommitsOf
    <3> QED BY <2>1, <3>3, <3>4 DEF Passing, Unused
  <2> QED BY <2>2, <2>3 DEF P!Range
<1> QED BY <1>1, PopupInvariant, PTL

-----------------------------------------------------------------------------
(* Types *)

LEMMA MirrorsTyped == MirrorsInv => M!TypeOK
<1> SUFFICES ASSUME MirrorsInv PROVE M!TypeOK OBVIOUS
<1>1. MirrorTypes /\ OnePrimary /\ SocketInv BY DEF MirrorsInv
<1>2. \A p, o \in M!Primaries : p = o BY <1>1 DEF OnePrimary, M!Primaries
<1>3. slot \subseteq {p \in Procs : role[p] # "off"} BY <1>1 DEF MirrorTypes, SocketInv
<1>4. engine.phase \in {"Idle", "Recording", "Rebinding"} BY <1>1 DEF MirrorTypes
<1>5. \A p \in Procs : /\ Len(live[p]) <= Cap /\ Len(feed[p]) <= Cap
                       /\ live[p] # <<>> => linked[p] /\ role[p] = "mirror"
                       /\ missed[p] \subseteq M!Facets \cup {"partial"}
  BY <1>1 DEF MirrorTypes, SocketInv
<1> QED BY <1>1, <1>2, <1>3, <1>4, <1>5 DEF MirrorTypes, M!TypeOK

LEMMA PopupTyped == PopupInv => P!TypeOK
<1> SUFFICES ASSUME PopupInv PROVE P!TypeOK OBVIOUS
<1>1. PopupTypes /\ CommitInv BY DEF PopupInv
<1>2. \A b \in borrowed : b.slot \in 1..Slots BY <1>1 DEF PopupTypes, PopupBuffers
<1>3. \A c \in P!Range(wire) \cup {comp.shown} : P!HighlightIsOnPage(c.view)
  <2>1. P!HighlightIsOnPage(comp.shown.view) BY <1>1 DEF CommitInv, Sound
  <2>2. \A i \in DOMAIN wire : P!HighlightIsOnPage(wire[i].view) BY <1>1 DEF CommitInv, Sound
  <2> QED BY <2>1, <2>2 DEF P!Range
<1> QED BY <1>1, <1>2, <1>3 DEF PopupTypes, PopupSlots, P!TypeOK

\* The cursor of an empty surrounding text is within it.
LEMMA FieldNothingTold == F!None.cursor <= F!ByteOffset(F!None.text, Len(F!None.text))
<1>1. F!None.text = <<>> /\ F!None.cursor = 0 BY DEF F!None
<1>2. Len(<<>>) = 0 /\ 0 \in 0..0 BY EmptySeq
<1>3. F!ByteOffset(<<>>, 0) \in Nat BY <1>2, OffsetIs
<1> QED BY <1>1, <1>2, <1>3

LEMMA FieldTyped == FieldInv => F!TypeOK
<1> SUFFICES ASSUME FieldInv PROVE F!TypeOK OBVIOUS
<1>1. FieldTypes BY DEF FieldInv
<1>2. app.on \in BOOLEAN /\ app.caret \in 0..Len(app.text)
  <2>1. app.on \in BOOLEAN /\ app.caret \in Nat /\ app.text \in Seq(Chars) BY <1>1 DEF FieldTypes, FieldApps, FieldTexts
  <2> QED BY <1>1, <2>1, LenProperties DEF FieldTypes
<1>3. context.caret \in 0..Len(context.text)
  <2>1. context.caret \in Nat /\ context.text \in Seq(Chars) BY <1>1 DEF FieldTypes, FieldContexts, FieldTexts
  <2> QED BY <1>1, <2>1, LenProperties DEF FieldTypes
<1>4. now.active \in BOOLEAN /\ next.active \in BOOLEAN /\ wants \in BOOLEAN BY <1>1 DEF FieldTypes, FieldStates
<1>5. now.surrounding \in FieldAround BY <1>1 DEF FieldTypes, FieldStates
<1>6. now.surrounding.cursor <= F!ByteOffset(now.surrounding.text, Len(now.surrounding.text))
  <2>1. now.surrounding # F!None => now.surrounding.cursor <= F!ByteOffset(now.surrounding.text, Len(now.surrounding.text))
    BY <1>5 DEF FieldAround
  <2>2. F!None.cursor <= F!ByteOffset(F!None.text, Len(F!None.text))
    BY FieldNothingTold
  <2> QED BY <2>1, <2>2
<1> QED BY <1>2, <1>3, <1>4, <1>6 DEF F!TypeOK

LEMMA TypingTyped == TypingInv => T!TypeOK
<1> SUFFICES ASSUME TypingInv PROVE T!TypeOK OBVIOUS
<1>1. TypingTypes /\ JobInv /\ SentInv BY DEF TypingInv
<1>2. job.for # "none" => job.left # <<>> BY <1>1 DEF JobInv, T!Idle
<1>3. sent # <<>> => job.for # "none" BY <1>1 DEF SentInv, T!Idle
<1> QED BY <1>1, <1>2, <1>3 DEF TypingTypes, T!TypeOK

\* A behaviour is of one of the six components.
OfOne == component \in {"mirrors", "upstream", "popup", "field", "typing", "capture"}

LEMMA ComponentsInvariant == Spec => []OfOne
<1>1. Init => OfOne BY DEF Init, OfOne
<1>2. OfOne /\ [Next]_vars => OfOne' BY DEF Next, vars, OfOne
<1> QED BY <1>1, <1>2, PTL DEF Spec

\* Every component keeps its types: no two processes hold the lock and no queue
\* outgrows its capacity (ipc.rs); a candidate page has its highlight on it
\* (popup.rs); carets stay in their texts (content_type.rs, frontend.rs);
\* a key code has its place in the keymap (inject.rs); cursors keep their order
\* (audio.rs, engine.rs).
THEOREM TypeCorrect == Spec => []TypeOK
<1>1. R!RingBounds BY PeripheryAssumption
<1>2. RingInv /\ Course => R!TypeOK BY <1>1, CourseTyped
<1>3. /\ OfOne /\ MirrorsInv /\ UpstreamInv /\ PopupInv /\ FieldInv /\ TypingInv
      /\ RingInv /\ Course
      => TypeOK
  BY <1>2, MirrorsTyped, UpstreamTyped, PopupTyped, FieldTyped, TypingTyped DEF TypeOK, OfOne
<1> QED
  BY <1>3, ComponentsInvariant, MirrorsInvariant, UpstreamInvariant, PopupInvariant, FieldInvariant,
     TypingInvariant, CaptureInvariant, PTL
=============================================================================
