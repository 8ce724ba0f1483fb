--------------------------- MODULE SegmentsProofs ---------------------------
(***************************************************************************)
(* Where the audio of an utterance is cut and what of it reaches the       *)
(* offline model, for every pattern of speech, any schedule of ticks and   *)
(* all lengths of the pauses.                                              *)
(***************************************************************************)
EXTENDS Segments, SequenceTheorems, WellFoundedInduction, TLAPS

-----------------------------------------------------------------------------
(* The inductive invariant, of what listen works on: s, with the audio a *)

Gates  == [last : BOOLEAN, speech : BOOLEAN, elapsed : Nat, quiet : Nat, voiced : Nat]
Pieces == [from : Nat, to : Nat, speech : BOOLEAN]
Scans  == [pos : Nat, gates : Gates, start : Nat, segs : Seq(Pieces), over : BOOLEAN]

\* The gates' counters.  Both count the same quiet, but for a cut in between;
\* no segment is ready to be cut; the segment starts before the quiet.
Counters(s) ==
  /\ s.gates.quiet <= s.gates.elapsed /\ s.gates.elapsed <= s.pos
  /\ s.gates.speech => s.gates.elapsed = 0 /\ s.gates.voiced > 0
  /\ s.gates.voiced > 0 => s.gates.quiet = s.gates.elapsed
  /\ ~Fires(s.gates)
  /\ s.start <= 2 * (s.pos - s.gates.quiet)
  /\ s.over => s.gates.elapsed >= SilenceWin

\* Windows p - 1 and p are spoken: the detector hears that.
Pair(a, p) == a[p - 1] /\ a[p]

\* Unless the silence gate has just spoken, the window before pos is the last
\* one judged, and there is no pair in the quiet before it.
Steady(s, a) ==
  s.gates.elapsed < SilenceWin =>
    /\ s.pos > 0 /\ a[s.pos] => s.gates.last
    /\ \A p \in 2..s.pos : p > s.pos - s.gates.elapsed => ~Pair(a, p)

\* No pair lies across a cut.
CleanAt(t, a) == \A p \in 2..Len(a) : 2 * (p - 2) < t /\ t < 2 * p => ~Pair(a, p)

Clean(s, a) ==
  \A i \in DOMAIN s.segs : s.segs[i].to <= 2 * (s.pos - 1) /\ CleanAt(s.segs[i].to, a)

\* Segments follow on each other.
Chained(q) == \A i \in DOMAIN q : q[i].from = IF i = 1 THEN 0 ELSE q[i - 1].to

Linked(s) ==
  /\ Chained(s.segs)
  /\ s.start = IF Len(s.segs) = 0 THEN 0 ELSE s.segs[Len(s.segs)].to

\* Two spoken windows between from and to.
Voices(a, from, to) ==
  \E w, v \in 1..Len(a) : w < v /\ a[w] /\ a[v] /\ from < 2 * w /\ 2 * (v - 1) < to

\* What is counted as voiced is of the segment, and older than the quiet; so is
\* the window the detector remembers.
Voiced(s, a) ==
  /\ \A i \in DOMAIN s.segs : s.segs[i].speech => Voices(a, s.segs[i].from, s.segs[i].to)
  /\ s.gates.voiced > 0 =>
       \E w, v \in 1..Len(a) : /\ w < v /\ a[w] /\ a[v]
                               /\ s.start < 2 * w /\ v <= s.pos - s.gates.quiet
  /\ s.gates.last => \E w \in 1..Len(a) : w <= s.pos /\ a[w] /\ s.start < 2 * w

Scan(s, a) ==
  /\ s \in Scans /\ s.pos <= Len(a)
  /\ Counters(s) /\ Steady(s, a) /\ Clean(s, a) /\ Linked(s) /\ Voiced(s, a)

\* Window p is in a segment that is decoded, or will be with the one left open.
Sent(q, p) == \E i \in DOMAIN q : q[i].speech /\ q[i].from <= 2 * (p - 1) /\ 2 * p <= q[i].to
Kept(s, p) == s.gates.voiced > 0 /\ s.start <= 2 * (p - 1) /\ p <= s.pos - s.gates.quiet

HeardTo(s, a, k) == \A p \in 2..k : Pair(a, p) => Sent(s.segs, p) \/ Kept(s, p)

\* The pause that cuts is over before the silence that ends, or so long after
\* that the gate is not asked any more.
PausesApart == PauseWin # SilenceWin /\ PauseWin # SilenceWin + 1

\* The segments of an utterance that is over.
Whole(q, a) ==
  /\ q \in Seq(Pieces) /\ Len(q) > 0 /\ q[Len(q)].to = 2 * Len(a)
  /\ Chained(q)
  /\ \A i \in 1..Len(q) - 1 : CleanAt(q[i].to, a)
  /\ \A i \in 1..Len(q) : q[i].speech => Voices(a, q[i].from, q[i].to)

SentTo(q, a, k) == \A p \in 2..k : Pair(a, p) => Sent(q, p)

SegmentTypes ==
  /\ held \in BOOLEAN /\ phase \in {"recording", "ended"} /\ preroll \in 0..Preroll
  /\ spoken \in Seq(BOOLEAN) /\ Len(spoken) <= MaxWindows
  /\ endedAt \in 0..Len(spoken)

\* While it goes on,
Recording ==
  /\ Scan(Here, spoken)
  /\ ~held => /\ endedAt = 0 /\ gates.elapsed < SilenceWin
              /\ PausesApart => HeardTo(Here, spoken, cursor)

\* and once it is over.
Ended ==
  /\ cursor = Len(spoken) /\ segStart = 2 * Len(spoken) /\ gates \in Gates
  /\ Whole(segs, spoken)
  /\ ~held /\ PausesApart =>
       SentTo(segs, spoken, IF endedAt = 0 THEN Len(spoken) ELSE endedAt)

SegmentsInv ==
  /\ SegmentTypes
  /\ phase = "recording" => Recording
  /\ phase = "ended" => Ended
  /\ ConcludesAsAssumed

-----------------------------------------------------------------------------
(* Lemmas about sequences and numbers *)

LEMMA Constants ==
  /\ Modes \subseteq BOOLEAN /\ Preroll \in Nat /\ SilenceWin \in Nat \ {0}
  /\ PauseWin \in Nat \ {1} /\ MinVoiced \in Nat /\ MaxWindows \in Nat /\ Preroll <= MaxWindows
  BY WindowsAssumption

LEMMA Boundaries ==
  ASSUME NEW S, NEW q \in Seq(S)
  PROVE  Len(q) \in Nat /\ DOMAIN q = 1..Len(q) /\ \A i \in 1..Len(q) : q[i] \in S
  BY LenProperties, ElementOfSeq

LEMMA Appending ==
  ASSUME NEW S, NEW q \in Seq(S), NEW x \in S
  PROVE  /\ Append(q, x) \in Seq(S) /\ Len(Append(q, x)) = Len(q) + 1
         /\ DOMAIN Append(q, x) = 1..Len(q) + 1
         /\ Append(q, x)[Len(q) + 1] = x
         /\ \A i \in 1..Len(q) : Append(q, x)[i] = q[i]
<1>1. /\ Append(q, x) \in Seq(S) /\ Len(Append(q, x)) = Len(q) + 1
      /\ Append(q, x)[Len(q) + 1] = x
      /\ \A i \in 1..Len(q) : Append(q, x)[i] = q[i]
  BY AppendProperties
<1>2. DOMAIN Append(q, x) = 1..Len(Append(q, x)) BY <1>1, LenProperties
<1> QED BY <1>1, <1>2

\* The naturals are well ordered.
LEMMA LeastOf ==
  ASSUME NEW S \in SUBSET Nat, S # {}
  PROVE  \E n \in S : \A m \in S : n <= m
<1> DEFINE lt == OpToRel(<, Nat)
<1>1. IsWellFoundedOn(lt, Nat) BY NatLessThanWellFounded
<1>2. \A i, j \in Nat : <<i, j>> \in lt <=> i < j BY DEF OpToRel
<1> HIDE DEF lt
<1>3. PICK n \in S : \A m \in S : ~(<<m, n>> \in lt) BY <1>1, WFMin
<1>4. ASSUME NEW m \in S PROVE n <= m
  <2>1. n \in Nat /\ m \in Nat /\ ~(m < n) BY <1>2, <1>3
  <2> QED BY <2>1
<1> QED BY <1>3, <1>4

\* What holds of 0 and passes from each number to the next holds up to k.
LEMMA Counting ==
  ASSUME NEW k \in Nat, NEW P, 0 \in P, \A n \in 1..k : n - 1 \in P => n \in P
  PROVE  k \in P
<1> DEFINE those == {n \in 0..k : n \notin P}
<1>1. SUFFICES ASSUME k \notin P PROVE FALSE OBVIOUS
<1>2. those \in SUBSET Nat /\ those # {} BY <1>1
<1>3. PICK n \in those : \A m \in those : n <= m BY <1>2, LeastOf
<1>4. n \in 1..k /\ n - 1 \in 0..k /\ ~(n <= n - 1) BY <1>3
<1>5. n - 1 \notin those BY <1>3, <1>4
<1>6. n - 1 \in P BY <1>4, <1>5
<1> QED BY <1>3, <1>4, <1>6

-----------------------------------------------------------------------------
(* One window *)

\* What a window w makes of s: t.  It is heard as speech.
Hears(s, w, t) ==
  /\ (s.gates.last /\ w) \/ s.gates.speech
  /\ t.start = s.start /\ t.segs = s.segs /\ t.over = FALSE
  /\ t.gates.speech = TRUE /\ t.gates.elapsed = 0 /\ t.gates.quiet = 0
  /\ t.gates.voiced = s.gates.voiced + 1

\* It is heard as quiet, and so
Quiets(s, w, t) ==
  /\ ~(s.gates.last /\ w)
  /\ t.gates.speech = FALSE /\ t.gates.elapsed = s.gates.elapsed + 1
  /\ t.over <=> t.gates.elapsed >= SilenceWin

\* whether the pause that cuts is over now,
Enough(s) ==
  PauseWin # 0 /\ s.gates.quiet + 1 >= PauseWin /\ s.gates.voiced >= MinVoiced

\* which it is not,
Waits(s, w, t) ==
  /\ Quiets(s, w, t) /\ ~Enough(s)
  /\ t.start = s.start /\ t.segs = s.segs
  /\ t.gates.quiet = s.gates.quiet + 1 /\ t.gates.voiced = s.gates.voiced

\* or it is, but the silence that ends is too,
Loses(s, w, t) ==
  /\ Quiets(s, w, t) /\ Enough(s) /\ t.over
  /\ t.start = s.start /\ t.segs = s.segs
  /\ t.gates.quiet = 0 /\ t.gates.voiced = 0

\* or the segment is cut.
Cuts(s, w, t) ==
  LET end == 2 * (s.pos + 1) - (s.gates.quiet + 1)
  IN  /\ Quiets(s, w, t) /\ Enough(s) /\ ~t.over
      /\ t.start = end
      /\ t.segs = Append(s.segs, [from |-> s.start, to |-> end, speech |-> s.gates.voiced > 0])
      /\ t.gates.quiet = 0 /\ t.gates.voiced = 0

\* Whatever it does, it is judged.
Goes(s, w, t) ==
  /\ t \in Scans /\ t.pos = s.pos + 1 /\ t.gates.last = w
  /\ Hears(s, w, t) \/ Waits(s, w, t) \/ Loses(s, w, t) \/ Cuts(s, w, t)

LEMMA GatesType ==
  ASSUME NEW g \in Gates
  PROVE  /\ g.last \in BOOLEAN /\ g.speech \in BOOLEAN
         /\ g.elapsed \in Nat /\ g.quiet \in Nat /\ g.voiced \in Nat
  BY DEF Gates

LEMMA ScansType ==
  ASSUME NEW s \in Scans
  PROVE  /\ s.pos \in Nat /\ s.gates \in Gates /\ s.start \in Nat /\ s.segs \in Seq(Pieces)
         /\ s.over \in BOOLEAN
         /\ s.gates.last \in BOOLEAN /\ s.gates.speech \in BOOLEAN
         /\ s.gates.elapsed \in Nat /\ s.gates.quiet \in Nat /\ s.gates.voiced \in Nat
         /\ Len(s.segs) \in Nat /\ DOMAIN s.segs = 1..Len(s.segs)
         /\ \A i \in DOMAIN s.segs : /\ s.segs[i].from \in Nat /\ s.segs[i].to \in Nat
                                     /\ s.segs[i].speech \in BOOLEAN
<1>1. /\ s.pos \in Nat /\ s.gates \in Gates /\ s.start \in Nat /\ s.segs \in Seq(Pieces)
      /\ s.over \in BOOLEAN
  BY DEF Scans
<1>2. /\ Len(s.segs) \in Nat /\ DOMAIN s.segs = 1..Len(s.segs)
      /\ \A i \in 1..Len(s.segs) : s.segs[i] \in Pieces
  BY <1>1, Boundaries
<1> QED BY <1>1, <1>2, GatesType DEF Pieces

\* The detector and both gates, in their own terms.
LEMMA SegPushIs ==
  ASSUME NEW g \in Gates
  PROVE  \E h \in Gates :
           /\ h = SegPush(g) /\ h.last = g.last /\ h.speech = g.speech /\ h.elapsed = g.elapsed
           /\ h.quiet = IF g.speech THEN 0 ELSE g.quiet + 1
           /\ h.voiced = IF g.speech THEN g.voiced + 1 ELSE g.voiced
<1>1. g \in [last : BOOLEAN, speech : BOOLEAN, elapsed : Nat, quiet : Nat, voiced : Nat]
  BY DEF Gates
<1>2. PICK q \in Nat : q = IF g.speech THEN 0 ELSE g.quiet + 1 BY <1>1
<1>3. PICK v \in Nat : v = IF g.speech THEN g.voiced + 1 ELSE g.voiced BY <1>1
<1> DEFINE h == [g EXCEPT !.quiet = q, !.voiced = v]
<1>4. h = SegPush(g) BY <1>2, <1>3 DEF SegPush
<1>5. /\ h \in [last : BOOLEAN, speech : BOOLEAN, elapsed : Nat, quiet : Nat, voiced : Nat]
      /\ h.last = g.last /\ h.speech = g.speech /\ h.elapsed = g.elapsed
      /\ h.quiet = q /\ h.voiced = v
  BY <1>1
<1> HIDE DEF h
<1>6. h \in Gates BY <1>5 DEF Gates
<1> QED BY <1>2, <1>3, <1>4, <1>5, <1>6

\* The detector and both gates, in their own terms.
LEMMA JudgedIs ==
  ASSUME NEW s \in Scans, NEW w \in BOOLEAN
  PROVE  \E v \in BOOLEAN, j \in Scans :
           /\ v = Verdict(s.gates, w) /\ j = Judged(s, w)
           /\ j.pos = s.pos + 1 /\ j.start = s.start /\ j.segs = s.segs /\ j.over = s.over
           /\ j.gates.last = w /\ j.gates.speech = v
           /\ j.gates.elapsed = IF v THEN 0 ELSE s.gates.elapsed + 1
           /\ j.gates.quiet = IF v THEN 0 ELSE s.gates.quiet + 1
           /\ j.gates.voiced = IF v THEN s.gates.voiced + 1 ELSE s.gates.voiced
<1>1. /\ s.pos \in Nat /\ s.gates \in Gates /\ s.start \in Nat /\ s.segs \in Seq(Pieces)
      /\ s.over \in BOOLEAN
  BY ScansType
<1>2. PICK b \in BOOLEAN : b = Verdict(s.gates, w) BY ScansType DEF Verdict
<1>3. PICK e \in Nat : e = IF b THEN 0 ELSE s.gates.elapsed + 1 BY ScansType
<1>4. PICK g \in Gates : /\ g = [s.gates EXCEPT !.last = w, !.speech = b, !.elapsed = e]
                         /\ g.last = w /\ g.speech = b /\ g.elapsed = e
                         /\ g.quiet = s.gates.quiet /\ g.voiced = s.gates.voiced
  <2>1. s.gates \in [last : BOOLEAN, speech : BOOLEAN, elapsed : Nat, quiet : Nat, voiced : Nat]
    BY <1>1 DEF Gates
  <2> DEFINE g == [s.gates EXCEPT !.last = w, !.speech = b, !.elapsed = e]
  <2>2. /\ g \in [last : BOOLEAN, speech : BOOLEAN, elapsed : Nat, quiet : Nat, voiced : Nat]
        /\ g.last = w /\ g.speech = b /\ g.elapsed = e
        /\ g.quiet = s.gates.quiet /\ g.voiced = s.gates.voiced
    BY <2>1
  <2> QED BY <2>2 DEF Gates
<1>5. PICK h \in Gates : /\ h = SegPush(g) /\ h.last = w /\ h.speech = b /\ h.elapsed = e
                         /\ h.quiet = IF b THEN 0 ELSE s.gates.quiet + 1
                         /\ h.voiced = IF b THEN s.gates.voiced + 1 ELSE s.gates.voiced
  <2>1. PICK h \in Gates : /\ h = SegPush(g) /\ h.last = g.last /\ h.speech = g.speech
                           /\ h.elapsed = g.elapsed
                           /\ h.quiet = IF g.speech THEN 0 ELSE g.quiet + 1
                           /\ h.voiced = IF g.speech THEN g.voiced + 1 ELSE g.voiced
    BY SegPushIs
  <2>2. h.speech = b /\ (g.speech <=> b) BY <1>4, <2>1
  <2> QED BY <1>4, <2>1, <2>2
<1>0. PICK n \in Nat : n = s.pos + 1 BY <1>1
<1>6. Judged(s, w) = [s EXCEPT !.pos = n, !.gates = h]
  <2>1. e = Trailing(s.gates.elapsed, b) BY <1>3 DEF Trailing
  <2>2. g = [s.gates EXCEPT !.last = w, !.speech = Verdict(s.gates, w),
                            !.elapsed = Trailing(s.gates.elapsed, Verdict(s.gates, w))]
    BY <1>2, <1>4, <2>1
  <2> QED BY <1>0, <1>5, <2>2 DEF Judged
<1>7. PICK j : /\ j = Judged(s, w) /\ j \in Scans
               /\ j.pos = s.pos + 1 /\ j.gates = h /\ j.start = s.start /\ j.segs = s.segs
               /\ j.over = s.over
  <2>1. s \in [pos : Nat, gates : Gates, start : Nat, segs : Seq(Pieces), over : BOOLEAN]
    BY DEF Scans
  <2> DEFINE j == [s EXCEPT !.pos = n, !.gates = h]
  <2>2. /\ j \in [pos : Nat, gates : Gates, start : Nat, segs : Seq(Pieces), over : BOOLEAN]
        /\ j.pos = n /\ j.gates = h /\ j.start = s.start /\ j.segs = s.segs
        /\ j.over = s.over
    BY <2>1
  <2> HIDE DEF j
  <2>3. j \in Scans BY <2>2 DEF Scans
  <2>4. j = Judged(s, w) BY <1>6 DEF j
  <2> QED BY <1>0, <2>2, <2>3, <2>4
<1>8. /\ b \in BOOLEAN /\ b = Verdict(s.gates, w)
      /\ j.gates.last = w /\ j.gates.speech = b
      /\ j.gates.elapsed = IF b THEN 0 ELSE s.gates.elapsed + 1
      /\ j.gates.quiet = IF b THEN 0 ELSE s.gates.quiet + 1
      /\ j.gates.voiced = IF b THEN s.gates.voiced + 1 ELSE s.gates.voiced
  BY <1>2, <1>3, <1>5, <1>7
<1> QED BY <1>7, <1>8

LEMMA FreshIs ==
  ASSUME NEW g \in Gates
  PROVE  \E h \in Gates :
           /\ h = Fresh(g) /\ h.last = g.last /\ h.speech = g.speech /\ h.elapsed = g.elapsed
           /\ h.quiet = 0 /\ h.voiced = 0
<1>1. g \in [last : BOOLEAN, speech : BOOLEAN, elapsed : Nat, quiet : Nat, voiced : Nat]
  BY DEF Gates
<1> DEFINE h == [g EXCEPT !.quiet = 0, !.voiced = 0]
<1>2. h = Fresh(g) BY DEF Fresh
<1>3. /\ h \in [last : BOOLEAN, speech : BOOLEAN, elapsed : Nat, quiet : Nat, voiced : Nat]
      /\ h.last = g.last /\ h.speech = g.speech /\ h.elapsed = g.elapsed
      /\ h.quiet = 0 /\ h.voiced = 0
  BY <1>1
<1> HIDE DEF h
<1>4. h \in Gates BY <1>3 DEF Gates
<1> QED BY <1>2, <1>3, <1>4

LEMMA CutAtIs ==
  ASSUME NEW s \in Scans, NEW end \in Nat, NEW speech \in BOOLEAN
  PROVE  \E t \in Scans :
           /\ t = CutAt(s, end, speech)
           /\ t.pos = s.pos /\ t.start = end /\ t.over = s.over
           /\ t.segs = Append(s.segs, [from |-> s.start, to |-> end, speech |-> speech])
           /\ t.gates.last = s.gates.last /\ t.gates.speech = s.gates.speech
           /\ t.gates.elapsed = s.gates.elapsed /\ t.gates.quiet = 0 /\ t.gates.voiced = 0
<1>1. /\ s.pos \in Nat /\ s.gates \in Gates /\ s.start \in Nat /\ s.segs \in Seq(Pieces)
      /\ s.over \in BOOLEAN
  BY ScansType
<1>2. PICK h \in Gates : /\ h = Fresh(s.gates) /\ h.last = s.gates.last
                         /\ h.speech = s.gates.speech /\ h.elapsed = s.gates.elapsed
                         /\ h.quiet = 0 /\ h.voiced = 0
  BY <1>1, FreshIs
<1> DEFINE piece == [from |-> s.start, to |-> end, speech |-> speech]
<1>3. piece \in Pieces BY <1>1 DEF Pieces
<1>4. PICK q \in Seq(Pieces) : q = Append(s.segs, piece)
  <2> HIDE DEF piece
  <2> QED BY <1>1, <1>3, Appending
<1> DEFINE t == [s EXCEPT !.segs = q, !.start = end, !.gates = h]
<1>5. t = CutAt(s, end, speech) BY <1>2, <1>4 DEF CutAt
<1>6. s \in [pos : Nat, gates : Gates, start : Nat, segs : Seq(Pieces), over : BOOLEAN]
  BY DEF Scans
<1>7. /\ t \in [pos : Nat, gates : Gates, start : Nat, segs : Seq(Pieces), over : BOOLEAN]
      /\ t.pos = s.pos /\ t.gates = h /\ t.start = end /\ t.segs = q /\ t.over = s.over
  BY <1>6
<1> HIDE DEF t
<1>8. t \in Scans BY <1>7 DEF Scans
<1> QED BY <1>2, <1>4, <1>5, <1>7, <1>8

\* The early return.
LEMMA ReturnIs ==
  ASSUME NEW j \in Scans, NEW h \in Gates
  PROVE  \E t \in Scans :
           /\ t = [j EXCEPT !.over = TRUE, !.gates = h]
           /\ t.pos = j.pos /\ t.start = j.start /\ t.over = TRUE /\ t.segs = j.segs /\ t.gates = h
<1>1. j \in [pos : Nat, gates : Gates, start : Nat, segs : Seq(Pieces), over : BOOLEAN]
  BY DEF Scans
<1> DEFINE t == [j EXCEPT !.over = TRUE, !.gates = h]
<1>2. /\ t \in [pos : Nat, gates : Gates, start : Nat, segs : Seq(Pieces), over : BOOLEAN]
      /\ t.pos = j.pos /\ t.gates = h /\ t.start = j.start /\ t.segs = j.segs /\ t.over = TRUE
  BY <1>1
<1> HIDE DEF t
<1>3. t \in Scans BY <1>2 DEF Scans
<1> QED BY <1>2, <1>3 DEF t

LEMMA JudgeIs ==
  ASSUME NEW s \in Scans, NEW w \in BOOLEAN, s.over = FALSE, Counters(s)
  PROVE  Goes(s, w, Judge(s, w))
<1>0. PICK v \in BOOLEAN, j \in Scans :
        /\ v = Verdict(s.gates, w) /\ j = Judged(s, w)
        /\ j.pos = s.pos + 1 /\ j.start = s.start /\ j.segs = s.segs /\ j.over = s.over
        /\ j.gates.last = w /\ j.gates.speech = v
        /\ j.gates.elapsed = IF v THEN 0 ELSE s.gates.elapsed + 1
        /\ j.gates.quiet = IF v THEN 0 ELSE s.gates.quiet + 1
        /\ j.gates.voiced = IF v THEN s.gates.voiced + 1 ELSE s.gates.voiced
  BY JudgedIs
<1>1. /\ j = Judged(s, w) /\ j \in Scans
      /\ j.pos = s.pos + 1 /\ j.start = s.start /\ j.segs = s.segs /\ j.over = FALSE
  BY <1>0
<1>2. v \in BOOLEAN /\ v = Verdict(s.gates, w) BY <1>0
<1>3. /\ j.gates.last = w /\ j.gates.speech = v
      /\ j.gates.elapsed = IF v THEN 0 ELSE s.gates.elapsed + 1
      /\ j.gates.quiet = IF v THEN 0 ELSE s.gates.quiet + 1
      /\ j.gates.voiced = IF v THEN s.gates.voiced + 1 ELSE s.gates.voiced
  BY <1>0
<1>4. /\ s.pos \in Nat /\ s.start \in Nat /\ s.segs \in Seq(Pieces) /\ s.gates \in Gates
      /\ s.gates.last \in BOOLEAN /\ s.gates.speech \in BOOLEAN
      /\ s.gates.elapsed \in Nat /\ s.gates.quiet \in Nat /\ s.gates.voiced \in Nat
  BY ScansType
<1>5. j.gates \in Gates BY <1>1, ScansType
<1> DEFINE over == j.gates.elapsed >= SilenceWin
           cut  == Fires(j.gates)
           end  == 2 * (s.pos + 1) - (s.gates.quiet + 1)
           Out  == Judge(s, w)
<1>6. /\ over => Out = [j EXCEPT !.over = TRUE, !.gates = IF cut THEN Fresh(j.gates) ELSE j.gates]
      /\ ~over /\ ~cut => Out = j
      /\ ~over /\ cut => Out = CutAt(j, Later(2 * j.pos - Back(j.gates), j.start), j.gates.voiced > 0)
  BY <1>1 DEF Judge
<1> HIDE DEF Out
<1>7. CASE v
  <2>1. (s.gates.last /\ w) \/ s.gates.speech BY <1>2, <1>4, <1>7 DEF Verdict
  <2>2. j.gates.elapsed = 0 /\ j.gates.quiet = 0 /\ j.gates.voiced = s.gates.voiced + 1
    BY <1>3, <1>7
  <2>3. ~over BY <2>2, Constants
  <2>4. ~cut BY <2>2, Constants DEF Fires
  <2>5. Out = j BY <1>6, <2>3, <2>4
  <2>6. j.gates.speech = TRUE BY <1>3, <1>7
  <2>7. Hears(s, w, Out) BY <1>1, <2>1, <2>2, <2>5, <2>6 DEF Hears
  <2> QED BY <1>1, <1>3, <2>5, <2>7 DEF Goes, Out
<1>8. CASE ~v
  <2>1. ~(s.gates.last /\ w) BY <1>2, <1>4, <1>8 DEF Verdict
  <2>2. /\ j.gates.elapsed = s.gates.elapsed + 1 /\ j.gates.quiet = s.gates.quiet + 1
        /\ j.gates.voiced = s.gates.voiced /\ j.gates.speech = FALSE
    BY <1>3, <1>8
  <2>3. cut <=> Enough(s) BY <2>2 DEF Fires, Enough
  <2>4. CASE over /\ ~cut
    <3>0. PICK h \in Gates : h = j.gates BY <1>5
    <3>1. PICK t \in Scans : /\ t = [j EXCEPT !.over = TRUE, !.gates = h]
                             /\ t.pos = j.pos /\ t.start = j.start /\ t.over = TRUE
                             /\ t.segs = j.segs /\ t.gates = h
      BY <1>1, ReturnIs
    <3>2. Out = t BY <1>6, <2>4, <3>0, <3>1
    <3>3. t.over <=> t.gates.elapsed >= SilenceWin BY <2>4, <3>0, <3>1
    <3>4. Quiets(s, w, t) BY <2>1, <2>2, <3>0, <3>1, <3>3 DEF Quiets
    <3>5. Waits(s, w, t) BY <1>1, <2>2, <2>3, <2>4, <3>0, <3>1, <3>4 DEF Waits
    <3>6. t.pos = s.pos + 1 /\ t.gates.last = w BY <1>1, <1>3, <3>0, <3>1
    <3> QED BY <3>2, <3>5, <3>6 DEF Goes, Out
  <2>5. CASE over /\ cut
    <3>1. PICK h \in Gates : /\ h = Fresh(j.gates) /\ h.last = j.gates.last
                             /\ h.speech = j.gates.speech /\ h.elapsed = j.gates.elapsed
                             /\ h.quiet = 0 /\ h.voiced = 0
      BY <1>5, FreshIs
    <3>2. PICK t \in Scans : /\ t = [j EXCEPT !.over = TRUE, !.gates = h]
                             /\ t.pos = j.pos /\ t.start = j.start /\ t.over = TRUE
                             /\ t.segs = j.segs /\ t.gates = h
      BY <1>1, ReturnIs
    <3>3. Out = t BY <1>6, <2>5, <3>1, <3>2
    <3>4. t.over <=> t.gates.elapsed >= SilenceWin BY <2>5, <3>1, <3>2
    <3>5. Quiets(s, w, t) BY <2>1, <2>2, <3>1, <3>2, <3>4 DEF Quiets
    <3>6. Loses(s, w, t) BY <1>1, <2>3, <2>5, <3>1, <3>2, <3>5 DEF Loses
    <3>7. t.pos = s.pos + 1 /\ t.gates.last = w BY <1>1, <1>3, <3>1, <3>2
    <3> QED BY <3>3, <3>6, <3>7 DEF Goes, Out
  <2>6. CASE ~over /\ ~cut
    <3>1. Out = j BY <1>6, <2>6
    <3>2. j.over <=> j.gates.elapsed >= SilenceWin BY <1>1, <2>6
    <3>3. Quiets(s, w, j) BY <2>1, <2>2, <3>2 DEF Quiets
    <3>4. Waits(s, w, j) BY <1>1, <2>2, <2>3, <2>6, <3>3 DEF Waits
    <3> QED BY <1>1, <1>3, <3>1, <3>4 DEF Goes, Out
  <2>7. CASE ~over /\ cut
    <3>1. s.start <= 2 * (s.pos - s.gates.quiet) BY DEF Counters
    <3>2. end \in Nat /\ end > s.start
      <4>1. \A p, q, b \in Nat : b <= 2 * (p - q) =>
               2 * (p + 1) - (q + 1) \in Nat /\ 2 * (p + 1) - (q + 1) > b
        OBVIOUS
      <4> QED BY <1>4, <3>1, <4>1
    <3>3. Later(2 * j.pos - Back(j.gates), j.start) = end
      BY <1>1, <1>4, <2>2, <3>2 DEF Later, Back
    <3>4. PICK b \in BOOLEAN : b = (j.gates.voiced > 0) /\ b = (s.gates.voiced > 0)
      <4>1. (s.gates.voiced > 0) \in BOOLEAN BY <1>4
      <4>2. PICK b \in BOOLEAN : b = (s.gates.voiced > 0) BY <4>1, Zenon
      <4>3. b = (j.gates.voiced > 0) BY <2>2, <4>2, Zenon
      <4> QED BY <4>2, <4>3
    <3>5. Out = CutAt(j, end, b) BY <1>6, <2>7, <3>3, <3>4
    <3> HIDE DEF end
    <3>6. PICK t \in Scans :
            /\ t = CutAt(j, end, b)
            /\ t.pos = j.pos /\ t.start = end /\ t.over = j.over
            /\ t.segs = Append(j.segs, [from |-> j.start, to |-> end, speech |-> b])
            /\ t.gates.last = j.gates.last /\ t.gates.speech = j.gates.speech
            /\ t.gates.elapsed = j.gates.elapsed /\ t.gates.quiet = 0 /\ t.gates.voiced = 0
      BY <1>1, <3>2, CutAtIs
    <3>7. t.over <=> t.gates.elapsed >= SilenceWin BY <1>1, <2>7, <3>6
    <3>8. Quiets(s, w, t) BY <2>1, <2>2, <3>6, <3>7 DEF Quiets
    <3>9. t.segs = Append(s.segs, [from |-> s.start, to |-> end, speech |-> s.gates.voiced > 0])
      BY <1>1, <3>4, <3>6
    <3>10. ~t.over
      <4>1. t.over = FALSE BY <1>1, <3>6
      <4> QED BY Zenon, <4>1
    <3>11. Cuts(s, w, t) BY <2>3, <2>7, <3>6, <3>8, <3>9, <3>10 DEF Cuts, end
    <3>12. t.pos = s.pos + 1 /\ t.gates.last = w BY <1>1, <1>3, <3>6
    <3> QED BY <3>5, <3>6, <3>11, <3>12 DEF Goes, Out
  <2> QED BY <2>4, <2>5, <2>6, <2>7
<1> QED BY <1>7, <1>8

-----------------------------------------------------------------------------
(* What one window preserves *)

Steps(s, a, t) == s.over = FALSE /\ s.pos < Len(a) /\ Goes(s, a[s.pos + 1], t)

LEMMA StepTypes ==
  ASSUME NEW s \in Scans, NEW a \in Seq(BOOLEAN), NEW t, Steps(s, a, t)
  PROVE  /\ t \in Scans /\ t.pos = s.pos + 1 /\ t.pos <= Len(a)
         /\ Len(a) \in Nat /\ \A p \in 1..Len(a) : a[p] \in BOOLEAN
         /\ t.gates.last = a[s.pos + 1] /\ a[s.pos + 1] \in BOOLEAN
<1>1. Len(a) \in Nat /\ \A p \in 1..Len(a) : a[p] \in BOOLEAN BY Boundaries
<1>2. s.pos \in Nat /\ s.pos < Len(a) BY ScansType DEF Steps
<1>3. s.pos + 1 \in 1..Len(a) BY <1>1, <1>2
<1>4. t \in Scans /\ t.pos = s.pos + 1 /\ t.gates.last = a[s.pos + 1] BY DEF Steps, Goes
<1> QED BY <1>1, <1>2, <1>3, <1>4

LEMMA CountersStep ==
  ASSUME NEW s \in Scans, NEW w, NEW t, Goes(s, w, t), Counters(s)
  PROVE  Counters(t)
<1>1. t \in Scans /\ t.pos = s.pos + 1 BY DEF Goes
<1>2. /\ s.pos \in Nat /\ s.start \in Nat /\ s.gates.elapsed \in Nat /\ s.gates.quiet \in Nat
      /\ s.gates.voiced \in Nat /\ s.gates.speech \in BOOLEAN
  BY ScansType
<1>3. /\ t.start \in Nat /\ t.gates.elapsed \in Nat /\ t.gates.quiet \in Nat
      /\ t.gates.voiced \in Nat /\ t.gates.speech \in BOOLEAN
  BY <1>1, ScansType
<1>4. /\ s.gates.quiet <= s.gates.elapsed /\ s.gates.elapsed <= s.pos
      /\ s.gates.voiced > 0 => s.gates.quiet = s.gates.elapsed
      /\ s.start <= 2 * (s.pos - s.gates.quiet)
  BY DEF Counters
<1>5. CASE Hears(s, w, t)
  <2>1. /\ t.start = s.start /\ t.over = FALSE /\ t.gates.speech = TRUE
        /\ t.gates.elapsed = 0 /\ t.gates.quiet = 0 /\ t.gates.voiced = s.gates.voiced + 1
    BY <1>5 DEF Hears
  <2>2. ~Fires(t.gates) BY <2>1, Constants DEF Fires
  <2>3. t.start <= 2 * (t.pos - t.gates.quiet) BY <1>1, <1>2, <1>4, <2>1
  <2>4. 0 <= t.pos /\ t.gates.voiced > 0 BY <1>1, <1>2, <2>1
  <2> QED BY <2>1, <2>2, <2>3, <2>4 DEF Counters
<1>6. CASE Waits(s, w, t)
  <2>1. /\ t.start = s.start /\ t.gates.speech = FALSE /\ t.gates.elapsed = s.gates.elapsed + 1
        /\ t.gates.quiet = s.gates.quiet + 1 /\ t.gates.voiced = s.gates.voiced
        /\ t.over => t.gates.elapsed >= SilenceWin
    BY <1>6 DEF Waits, Quiets
  <2>2. ~Fires(t.gates) BY <1>6, <2>1 DEF Fires, Enough, Waits
  <2>3. t.start <= 2 * (t.pos - t.gates.quiet) BY <1>1, <1>2, <1>4, <2>1
  <2>4. t.gates.quiet <= t.gates.elapsed /\ t.gates.elapsed <= t.pos BY <1>1, <1>2, <1>4, <2>1
  <2>5. t.gates.voiced > 0 => t.gates.quiet = t.gates.elapsed BY <1>4, <2>1
  <2> QED BY <2>1, <2>2, <2>3, <2>4, <2>5 DEF Counters
<1>7. CASE Loses(s, w, t) \/ Cuts(s, w, t)
  <2>1. /\ t.gates.speech = FALSE /\ t.gates.elapsed = s.gates.elapsed + 1
        /\ t.gates.quiet = 0 /\ t.gates.voiced = 0
        /\ t.over => t.gates.elapsed >= SilenceWin
    BY <1>7 DEF Loses, Cuts, Quiets
  <2>2. ~Fires(t.gates) BY <2>1, Constants DEF Fires
  <2>3. t.start = s.start \/ t.start = 2 * (s.pos + 1) - (s.gates.quiet + 1)
    BY <1>7 DEF Loses, Cuts
  <2>4. t.start <= 2 * (t.pos - t.gates.quiet) BY <1>1, <1>2, <1>4, <2>1, <2>3
  <2>5. t.gates.quiet <= t.gates.elapsed /\ t.gates.elapsed <= t.pos BY <1>1, <1>2, <1>4, <2>1
  <2>6. ~(t.gates.voiced > 0) BY <2>1
  <2> QED BY <2>1, <2>2, <2>4, <2>5, <2>6 DEF Counters
<1> QED BY <1>5, <1>6, <1>7 DEF Goes

LEMMA SteadyStep ==
  ASSUME NEW s \in Scans, NEW a \in Seq(BOOLEAN), NEW t, Steps(s, a, t), Steady(s, a)
  PROVE  Steady(t, a)
<1>1. /\ t \in Scans /\ t.pos = s.pos + 1 /\ t.pos <= Len(a) /\ Len(a) \in Nat
      /\ t.gates.last = a[s.pos + 1] /\ s.pos \in Nat
  BY StepTypes, ScansType
<1>2. s.gates.elapsed \in Nat BY ScansType
<1>3. t.pos > 0 /\ a[t.pos] => t.gates.last BY <1>1
<1>4. ASSUME t.gates.elapsed < SilenceWin, NEW p \in 2..t.pos, p > t.pos - t.gates.elapsed,
             Pair(a, p)
      PROVE  FALSE
  <2>1. ~Hears(s, a[s.pos + 1], t)
    <3>1. SUFFICES ASSUME t.gates.elapsed = 0 PROVE FALSE BY DEF Hears
    <3> QED BY <1>1, <1>4, <3>1
  <2>2. /\ ~(s.gates.last /\ a[s.pos + 1]) /\ t.gates.elapsed = s.gates.elapsed + 1
    BY <2>1 DEF Steps, Goes, Waits, Loses, Cuts, Quiets
  <2>3. s.gates.elapsed < SilenceWin BY <1>2, <1>4, <2>2, Constants
  <2>4. CASE p <= s.pos
    <3>1. p \in 2..s.pos /\ p > s.pos - s.gates.elapsed BY <1>1, <1>2, <1>4, <2>2, <2>4
    <3> QED BY <1>4, <2>3, <3>1 DEF Steady
  <2>5. CASE p = s.pos + 1
    <3>1. s.pos > 0 /\ p - 1 = s.pos BY <1>1, <2>5
    <3>2. a[s.pos] /\ a[s.pos + 1] BY <1>4, <2>5, <3>1 DEF Pair
    <3>3. s.gates.last BY <2>3, <3>1, <3>2 DEF Steady
    <3> QED BY <2>2, <3>2, <3>3
  <2> QED BY <1>1, <2>4, <2>5
<1> QED BY <1>3, <1>4 DEF Steady

\* The pairs a cut in the middle of the quiet could hit are in the quiet.
LEMMA InTheQuiet ==
  ASSUME NEW p \in Nat, NEW n \in Nat, NEW q \in Nat, NEW e \in Nat,
         q + 1 >= 2, q + 1 <= e,
         2 * (p - 2) < 2 * (n + 1) - (q + 1), 2 * (n + 1) - (q + 1) < 2 * p
  PROVE  p <= n + 1 /\ p > n + 1 - e
  OBVIOUS

\* What a cut is.
LEMMA CutFacts ==
  ASSUME NEW s \in Scans, NEW a \in Seq(BOOLEAN), NEW t, Steps(s, a, t), Counters(s),
         Cuts(s, a[s.pos + 1], t)
  PROVE  LET k     == Len(s.segs)
             end   == 2 * (s.pos + 1) - (s.gates.quiet + 1)
             piece == t.segs[k + 1]
         IN  /\ DOMAIN t.segs = 1..k + 1 /\ Len(t.segs) = k + 1 /\ DOMAIN s.segs = 1..k /\ k \in Nat
             /\ \A i \in 1..k : t.segs[i] = s.segs[i]
             /\ piece.from = s.start /\ piece.to = end /\ piece.speech = (s.gates.voiced > 0)
             /\ t.start = end /\ end \in Nat /\ s.start < end
             /\ s.gates.quiet + 1 >= 2 /\ s.gates.quiet + 1 <= t.gates.elapsed
             /\ t.gates.elapsed < SilenceWin /\ t.gates.voiced = 0 /\ t.gates.quiet = 0
<1> DEFINE k     == Len(s.segs)
           end   == 2 * (s.pos + 1) - (s.gates.quiet + 1)
           piece == [from |-> s.start, to |-> end, speech |-> s.gates.voiced > 0]
<1>1. /\ s.pos \in Nat /\ s.start \in Nat /\ s.segs \in Seq(Pieces)
      /\ s.gates.elapsed \in Nat /\ s.gates.quiet \in Nat /\ s.gates.voiced \in Nat
      /\ k \in Nat /\ DOMAIN s.segs = 1..k
  BY ScansType
<1>2. /\ s.gates.quiet <= s.gates.elapsed /\ s.start <= 2 * (s.pos - s.gates.quiet) BY DEF Counters
<1>3. /\ t.segs = Append(s.segs, piece) /\ t.start = end /\ t.gates.voiced = 0 /\ t.gates.quiet = 0
      /\ Enough(s) /\ ~t.over
      /\ t.gates.elapsed = s.gates.elapsed + 1 /\ (t.over <=> t.gates.elapsed >= SilenceWin)
  BY DEF Cuts, Quiets
<1>0. /\ s.pos \in Nat /\ s.start \in Nat /\ s.gates.elapsed \in Nat /\ s.gates.quiet \in Nat
  BY <1>1
<1>4. end \in Nat /\ s.start < end
  <2>1. \A p, q, b \in Nat : b <= 2 * (p - q) =>
           2 * (p + 1) - (q + 1) \in Nat /\ b < 2 * (p + 1) - (q + 1)
    OBVIOUS
  <2> QED BY <1>0, <1>2, <2>1
<1>5. s.gates.quiet + 1 >= 2
  <2>1. PauseWin # 0 /\ s.gates.quiet + 1 >= PauseWin BY <1>3 DEF Enough
  <2> QED BY <1>0, <2>1, Constants
<1>6. s.gates.quiet + 1 <= t.gates.elapsed /\ t.gates.elapsed < SilenceWin
  <2>1. /\ t.gates.elapsed = s.gates.elapsed + 1 /\ ~(t.gates.elapsed >= SilenceWin)
        /\ s.gates.quiet <= s.gates.elapsed
    BY <1>2, <1>3
  <2> QED BY <1>0, <2>1, Constants
<1>7. piece \in Pieces /\ piece.from = s.start /\ piece.to = end
      /\ piece.speech = (s.gates.voiced > 0)
  <2>1. (s.gates.voiced > 0) \in BOOLEAN BY <1>1
  <2>2. PICK b : b = (s.gates.voiced > 0) OBVIOUS
  <2>3. b \in BOOLEAN BY <2>1, <2>2, Zenon
  <2>4. [from |-> s.start, to |-> end, speech |-> b] \in Pieces BY <1>1, <1>4, <2>3 DEF Pieces
  <2>5. piece \in Pieces BY <2>2, <2>4, Zenon
  <2> QED BY <2>5
<1> HIDE DEF piece
<1>8. /\ Len(t.segs) = k + 1 /\ DOMAIN t.segs = 1..k + 1 /\ t.segs[k + 1] = piece
      /\ \A i \in 1..k : t.segs[i] = s.segs[i]
  <2>1. s.segs \in Seq(Pieces) /\ piece \in Pieces /\ t.segs = Append(s.segs, piece)
    BY <1>1, <1>3, <1>7
  <2> QED BY <2>1, Appending
<1> QED BY <1>1, <1>3, <1>4, <1>5, <1>6, <1>7, <1>8

LEMMA Uncut ==
  ASSUME NEW s, NEW w, NEW t, Hears(s, w, t) \/ Waits(s, w, t) \/ Loses(s, w, t)
  PROVE  t.start = s.start /\ t.segs = s.segs
  BY DEF Hears, Waits, Loses

LEMMA CleanStep ==
  ASSUME NEW s \in Scans, NEW a \in Seq(BOOLEAN), NEW t, Steps(s, a, t), Counters(s),
         Steady(s, a), Clean(s, a)
  PROVE  Clean(t, a)
<1>1. /\ t \in Scans /\ t.pos = s.pos + 1 /\ t.pos <= Len(a) /\ Len(a) \in Nat /\ s.pos \in Nat
      /\ s.gates.quiet \in Nat /\ t.gates.elapsed \in Nat
  BY StepTypes, ScansType
<1>2. \A i \in DOMAIN s.segs : /\ s.segs[i].to \in Nat /\ s.segs[i].to <= 2 * (s.pos - 1)
                               /\ CleanAt(s.segs[i].to, a)
  BY ScansType DEF Clean
<1>3. \A i \in DOMAIN s.segs : s.segs[i].to <= 2 * (t.pos - 1) BY <1>1, <1>2
<1>4. CASE Hears(s, a[s.pos + 1], t) \/ Waits(s, a[s.pos + 1], t) \/ Loses(s, a[s.pos + 1], t)
  BY <1>2, <1>3, <1>4, Uncut DEF Clean
<1>5. CASE Cuts(s, a[s.pos + 1], t)
  <2> DEFINE k   == Len(s.segs)
             end == 2 * (s.pos + 1) - (s.gates.quiet + 1)
  <2>1. /\ DOMAIN t.segs = 1..k + 1 /\ DOMAIN s.segs = 1..k /\ k \in Nat
        /\ \A i \in 1..k : t.segs[i] = s.segs[i]
        /\ t.segs[k + 1].to = end /\ end \in Nat
        /\ s.gates.quiet + 1 >= 2 /\ s.gates.quiet + 1 <= t.gates.elapsed
        /\ t.gates.elapsed < SilenceWin
    BY <1>5, CutFacts
  <2>2. end <= 2 * (t.pos - 1)
    <3>1. \A n, q \in Nat : q + 1 >= 2 => 2 * (n + 1) - (q + 1) <= 2 * ((n + 1) - 1) OBVIOUS
    <3>2. s.pos \in Nat /\ s.gates.quiet \in Nat /\ s.gates.quiet + 1 >= 2 BY <1>1, <2>1
    <3>3. end <= 2 * ((s.pos + 1) - 1) BY <3>1, <3>2
    <3> QED BY <1>1, <3>3
  <2>3. ASSUME NEW p \in 2..Len(a), 2 * (p - 2) < end, end < 2 * p PROVE ~Pair(a, p)
    <3>0. PICK n, q, e \in Nat : n = s.pos /\ q = s.gates.quiet /\ e = t.gates.elapsed BY <1>1
    <3>1. q + 1 >= 2 /\ q + 1 <= e /\ end = 2 * (n + 1) - (q + 1) /\ t.pos = n + 1
      BY <1>1, <2>1, <3>0
    <3>2. p <= t.pos /\ p > t.pos - t.gates.elapsed
      <4>1. p \in Nat BY <1>1
      <4>2. 2 * (p - 2) < 2 * (n + 1) - (q + 1) /\ 2 * (n + 1) - (q + 1) < 2 * p BY <2>3, <3>0, <3>1
      <4>3. p <= n + 1 /\ p > n + 1 - e BY <3>0, <3>1, <4>1, <4>2, InTheQuiet
      <4> QED BY <3>0, <3>1, <4>1, <4>3
    <3>3. p \in 2..t.pos BY <1>1, <3>2
    <3>4. Steady(t, a) BY SteadyStep
    <3> QED BY <2>1, <3>2, <3>3, <3>4 DEF Steady
  <2>4. CleanAt(end, a) BY <2>3 DEF CleanAt
  <2> HIDE DEF end
  <2>5. ASSUME NEW i \in 1..k + 1
        PROVE  t.segs[i].to <= 2 * (t.pos - 1) /\ CleanAt(t.segs[i].to, a)
    <3>1. CASE i = k + 1 BY <2>1, <2>2, <2>4, <3>1
    <3>2. CASE i # k + 1
      <4>1. i \in 1..k BY <2>1, <3>2
      <4> QED BY <1>2, <1>3, <2>1, <4>1
    <3> QED BY <3>1, <3>2
  <2> QED BY <2>1, <2>5 DEF Clean
<1> QED BY <1>4, <1>5 DEF Steps, Goes

LEMMA LinkedStep ==
  ASSUME NEW s \in Scans, NEW a \in Seq(BOOLEAN), NEW t, Steps(s, a, t), Counters(s), Linked(s)
  PROVE  Linked(t)
<1>1. CASE Hears(s, a[s.pos + 1], t) \/ Waits(s, a[s.pos + 1], t) \/ Loses(s, a[s.pos + 1], t)
  BY <1>1, Uncut DEF Linked
<1>2. CASE Cuts(s, a[s.pos + 1], t)
  <2> DEFINE k == Len(s.segs)
  <2>1. /\ DOMAIN t.segs = 1..k + 1 /\ Len(t.segs) = k + 1 /\ DOMAIN s.segs = 1..k /\ k \in Nat
        /\ \A i \in 1..k : t.segs[i] = s.segs[i]
        /\ t.segs[k + 1].from = s.start /\ t.start = t.segs[k + 1].to
    BY <1>2, CutFacts
  <2>2. ASSUME NEW i \in 1..k + 1 PROVE t.segs[i].from = IF i = 1 THEN 0 ELSE t.segs[i - 1].to
    <3>1. CASE i = k + 1
      <4>1. s.start = IF k = 0 THEN 0 ELSE s.segs[k].to BY DEF Linked
      <4>2. CASE k = 0 BY <2>1, <3>1, <4>1, <4>2
      <4>3. CASE k # 0
        <5>1. k \in 1..k /\ i - 1 = k /\ i # 1 BY <2>1, <3>1, <4>3
        <5> QED BY <2>1, <3>1, <4>1, <4>3, <5>1
      <4> QED BY <4>2, <4>3
    <3>2. CASE i # k + 1
      <4>1. i \in 1..k /\ (i # 1 => i - 1 \in 1..k) BY <2>1, <3>2
      <4>2. s.segs[i].from = IF i = 1 THEN 0 ELSE s.segs[i - 1].to BY <2>1, <4>1 DEF Linked, Chained
      <4> QED BY <2>1, <4>1, <4>2
    <3> QED BY <3>1, <3>2
  <2>3. Chained(t.segs) BY <2>1, <2>2 DEF Chained
  <2>4. t.start = IF Len(t.segs) = 0 THEN 0 ELSE t.segs[Len(t.segs)].to BY <2>1
  <2> QED BY <2>3, <2>4 DEF Linked
<1> QED BY <1>1, <1>2 DEF Steps, Goes

LEMMA VoicedStep ==
  ASSUME NEW s \in Scans, NEW a \in Seq(BOOLEAN), NEW t, Steps(s, a, t), Counters(s), Voiced(s, a)
  PROVE  Voiced(t, a)
<1>1. /\ t \in Scans /\ t.pos = s.pos + 1 /\ t.pos <= Len(a) /\ Len(a) \in Nat /\ s.pos \in Nat
      /\ t.gates.last = a[s.pos + 1]
      /\ s.gates.quiet \in Nat /\ s.gates.voiced \in Nat /\ s.start \in Nat /\ t.start \in Nat
      /\ s.start <= 2 * (s.pos - s.gates.quiet)
      /\ s.gates.speech => s.gates.voiced > 0
  BY StepTypes, ScansType DEF Counters
<1> DEFINE now == s.pos + 1
<1>2. now \in 1..Len(a) BY <1>1
<1>3. t.start = s.start \/ t.start = 2 * (s.pos + 1) - (s.gates.quiet + 1)
  BY Uncut DEF Steps, Goes, Cuts
<1>4. t.start < 2 * now
  <2>1. \A b, n, q \in Nat : b <= 2 * (n - q) => /\ b < 2 * (n + 1)
                                                 /\ 2 * (n + 1) - (q + 1) < 2 * (n + 1)
    OBVIOUS
  <2>2. s.start < 2 * now /\ 2 * (s.pos + 1) - (s.gates.quiet + 1) < 2 * now BY <1>1, <2>1
  <2> QED BY <1>3, <2>2
<1>5. t.gates.last => \E w \in 1..Len(a) : w <= t.pos /\ a[w] /\ t.start < 2 * w
  <2>1. now <= t.pos BY <1>1
  <2> QED BY <1>1, <1>2, <1>4, <2>1
<1>6. ASSUME s.gates.voiced > 0
      PROVE  \E w, v \in 1..Len(a) : /\ w < v /\ a[w] /\ a[v]
                                     /\ s.start < 2 * w /\ v <= s.pos - s.gates.quiet
  BY <1>6 DEF Voiced
<1>7. ASSUME NEW i \in DOMAIN s.segs, s.segs[i].speech
      PROVE  Voices(a, s.segs[i].from, s.segs[i].to)
  BY <1>7 DEF Voiced
<1>8. CASE Hears(s, a[s.pos + 1], t)
  <2>1. t.start = s.start /\ t.segs = s.segs /\ t.gates.quiet = 0 BY <1>8 DEF Hears
  <2>2. \E w, v \in 1..Len(a) : /\ w < v /\ a[w] /\ a[v]
                                /\ t.start < 2 * w /\ v <= t.pos - t.gates.quiet
    <3>1. CASE s.gates.voiced > 0
      <4>1. PICK w, v \in 1..Len(a) : /\ w < v /\ a[w] /\ a[v]
                                      /\ s.start < 2 * w /\ v <= s.pos - s.gates.quiet
        BY <1>6, <3>1
      <4>2. v <= t.pos - t.gates.quiet BY <1>1, <2>1, <4>1
      <4> QED BY <2>1, <4>1, <4>2
    <3>2. CASE ~(s.gates.voiced > 0)
      <4>1. s.gates.last /\ a[now] BY <1>1, <1>8, <3>2 DEF Hears
      <4>2. PICK w \in 1..Len(a) : w <= s.pos /\ a[w] /\ s.start < 2 * w BY <4>1 DEF Voiced
      <4>3. w < now /\ now <= t.pos - t.gates.quiet BY <1>1, <2>1, <4>2
      <4> QED BY <1>2, <2>1, <4>1, <4>2, <4>3
    <3> QED BY <3>1, <3>2
  <2> QED BY <1>5, <1>7, <2>1, <2>2 DEF Voiced
<1>9. CASE Waits(s, a[s.pos + 1], t)
  <2>1. /\ t.start = s.start /\ t.segs = s.segs /\ t.gates.quiet = s.gates.quiet + 1
        /\ t.gates.voiced = s.gates.voiced
    BY <1>9 DEF Waits
  <2>2. t.pos - t.gates.quiet = s.pos - s.gates.quiet
    <3>1. \A n, q \in Nat : (n + 1) - (q + 1) = n - q OBVIOUS
    <3>2. PICK n, q \in Nat : n = s.pos /\ q = s.gates.quiet BY <1>1
    <3>3. t.pos = n + 1 /\ t.gates.quiet = q + 1 BY <1>1, <2>1, <3>2
    <3> QED BY <3>1, <3>2, <3>3
  <2>3. t.gates.voiced > 0 =>
          \E w, v \in 1..Len(a) : /\ w < v /\ a[w] /\ a[v]
                                  /\ t.start < 2 * w /\ v <= t.pos - t.gates.quiet
    BY <1>6, <2>1, <2>2
  <2> QED BY <1>5, <1>7, <2>1, <2>3 DEF Voiced
<1>10. CASE Loses(s, a[s.pos + 1], t)
  <2>1. t.segs = s.segs /\ ~(t.gates.voiced > 0) BY <1>10 DEF Loses
  <2> QED BY <1>5, <1>7, <2>1 DEF Voiced
<1>11. CASE Cuts(s, a[s.pos + 1], t)
  <2> DEFINE k   == Len(s.segs)
             end == 2 * (s.pos + 1) - (s.gates.quiet + 1)
  <2>1. /\ DOMAIN t.segs = 1..k + 1 /\ DOMAIN s.segs = 1..k /\ k \in Nat
        /\ \A i \in 1..k : t.segs[i] = s.segs[i]
        /\ t.segs[k + 1].from = s.start /\ t.segs[k + 1].to = end
        /\ t.segs[k + 1].speech = (s.gates.voiced > 0)
        /\ ~(t.gates.voiced > 0)
    BY <1>11, CutFacts
  <2>2. ASSUME s.gates.voiced > 0 PROVE Voices(a, s.start, end)
    <3>1. PICK w, v \in 1..Len(a) : /\ w < v /\ a[w] /\ a[v]
                                    /\ s.start < 2 * w /\ v <= s.pos - s.gates.quiet
      BY <1>6, <2>2
    <3>2. 2 * (v - 1) < end
      <4>1. \A n, q \in Nat : v <= n - q => 2 * (v - 1) < 2 * (n + 1) - (q + 1) OBVIOUS
      <4> QED BY <1>1, <3>1, <4>1
    <3> QED BY <3>1, <3>2 DEF Voices
  <2> HIDE DEF end
  <2>3. ASSUME NEW i \in 1..k + 1, t.segs[i].speech
        PROVE  Voices(a, t.segs[i].from, t.segs[i].to)
    <3>1. CASE i = k + 1
      <4>1. s.gates.voiced > 0 BY <2>1, <2>3, <3>1
      <4>2. Voices(a, s.start, end) BY <2>2, <4>1
      <4> QED BY <2>1, <3>1, <4>2
    <3>2. CASE i # k + 1
      <4>1. i \in 1..k BY <2>1, <3>2
      <4> QED BY <1>7, <2>1, <2>3, <4>1
    <3> QED BY <3>1, <3>2
  <2> QED BY <1>5, <2>1, <2>3 DEF Voiced
<1> QED BY <1>8, <1>9, <1>10, <1>11 DEF Steps, Goes

LEMMA ElapsedStep ==
  ASSUME NEW s \in Scans, NEW a \in Seq(BOOLEAN), NEW t, Steps(s, a, t)
  PROVE  /\ t.over = FALSE => t.gates.elapsed < SilenceWin
         /\ s.gates.elapsed < SilenceWin /\ t.over = TRUE => t.gates.elapsed = SilenceWin
<1>1. /\ s.gates.elapsed \in Nat /\ t.gates.elapsed \in Nat /\ t.over \in BOOLEAN
      /\ SilenceWin \in Nat \ {0}
  BY StepTypes, ScansType, Constants
<1>2. CASE Hears(s, a[s.pos + 1], t)
  <2>1. t.gates.elapsed = 0 /\ t.over = FALSE BY <1>2 DEF Hears
  <2> QED BY <1>1, <2>1
<1>3. CASE Quiets(s, a[s.pos + 1], t)
  <2>1. /\ t.gates.elapsed = s.gates.elapsed + 1 /\ (t.over <=> t.gates.elapsed >= SilenceWin)
    BY <1>3 DEF Quiets
  <2> QED BY <1>1, <2>1
<1> QED BY <1>2, <1>3 DEF Steps, Goes, Waits, Loses, Cuts

\* A segment is only lost where both pauses are over at once.
LEMMA NothingLost ==
  ASSUME NEW s \in Scans, NEW a \in Seq(BOOLEAN), NEW t, Steps(s, a, t), Counters(s),
         PausesApart, s.gates.elapsed <= SilenceWin, Loses(s, a[s.pos + 1], t)
  PROVE  ~(s.gates.voiced > 0)
<1>1. SUFFICES ASSUME s.gates.voiced > 0 PROVE FALSE OBVIOUS
<1>2. /\ s.gates.elapsed \in Nat /\ s.gates.quiet \in Nat /\ t.gates.elapsed \in Nat
      /\ SilenceWin \in Nat /\ PauseWin \in Nat
  BY StepTypes, ScansType, Constants
<1>3. s.gates.quiet = s.gates.elapsed BY <1>1 DEF Counters
<1>4. PauseWin # 0 /\ s.gates.quiet + 1 >= PauseWin /\ s.gates.voiced >= MinVoiced
  BY DEF Loses, Enough
<1>5. ~(s.gates.quiet >= PauseWin) BY <1>4 DEF Counters, Fires
<1>6. t.gates.elapsed = s.gates.elapsed + 1 /\ t.gates.elapsed >= SilenceWin
  BY DEF Loses, Quiets
<1>7. PauseWin # SilenceWin /\ PauseWin # SilenceWin + 1 BY DEF PausesApart
<1> QED BY <1>2, <1>3, <1>4, <1>5, <1>6, <1>7

LEMMA HeardStep ==
  ASSUME NEW s \in Scans, NEW a \in Seq(BOOLEAN), NEW t, Steps(s, a, t), Counters(s),
         PausesApart, s.gates.elapsed <= SilenceWin,
         NEW k \in Nat, k <= s.pos, HeardTo(s, a, k)
  PROVE  HeardTo(t, a, k)
<1>1. /\ t \in Scans /\ t.pos = s.pos + 1 /\ s.pos \in Nat /\ s.gates.quiet \in Nat
      /\ s.gates.voiced \in Nat /\ s.start \in Nat
  BY StepTypes, ScansType
<1>2. SUFFICES ASSUME NEW p \in 2..k, Pair(a, p) PROVE Sent(t.segs, p) \/ Kept(t, p)
  BY DEF HeardTo
<1>3. Sent(s.segs, p) \/ Kept(s, p) BY <1>2 DEF HeardTo
<1>4. Kept(s, p) => s.gates.voiced > 0 /\ s.start <= 2 * (p - 1) /\ p <= s.pos - s.gates.quiet
  BY DEF Kept
<1>5. p \in Nat BY <1>2
<1>6. CASE Hears(s, a[s.pos + 1], t)
  <2>1. /\ t.start = s.start /\ t.segs = s.segs /\ t.gates.quiet = 0
        /\ t.gates.voiced = s.gates.voiced + 1
    BY <1>6 DEF Hears
  <2>2. Kept(s, p) => t.gates.voiced > 0 /\ p <= t.pos - t.gates.quiet BY <1>1, <1>4, <1>5, <2>1
  <2> QED BY <1>3, <1>4, <2>1, <2>2 DEF Kept
<1>7. CASE Waits(s, a[s.pos + 1], t)
  <2>1. /\ t.start = s.start /\ t.segs = s.segs /\ t.gates.quiet = s.gates.quiet + 1
        /\ t.gates.voiced = s.gates.voiced
    BY <1>7 DEF Waits
  <2>2. Kept(s, p) => p <= t.pos - t.gates.quiet BY <1>1, <1>4, <1>5, <2>1
  <2> QED BY <1>3, <1>4, <2>1, <2>2 DEF Kept
<1>8. CASE Loses(s, a[s.pos + 1], t)
  <2>1. t.segs = s.segs BY <1>8 DEF Loses
  <2>2. ~(s.gates.voiced > 0) BY <1>8, NothingLost
  <2> QED BY <1>3, <1>4, <2>1, <2>2
<1>9. CASE Cuts(s, a[s.pos + 1], t)
  <2> DEFINE n   == Len(s.segs)
             end == 2 * (s.pos + 1) - (s.gates.quiet + 1)
  <2>1. /\ DOMAIN t.segs = 1..n + 1 /\ DOMAIN s.segs = 1..n /\ n \in Nat
        /\ \A i \in 1..n : t.segs[i] = s.segs[i]
        /\ t.segs[n + 1].from = s.start /\ t.segs[n + 1].to = end
        /\ t.segs[n + 1].speech = (s.gates.voiced > 0)
    BY <1>9, CutFacts
  <2>2. CASE Sent(s.segs, p)
    <3>1. PICK i \in 1..n : s.segs[i].speech /\ s.segs[i].from <= 2 * (p - 1) /\ 2 * p <= s.segs[i].to
      BY <2>1, <2>2 DEF Sent
    <3>2. i \in 1..n + 1 BY <2>1
    <3> QED BY <2>1, <3>1, <3>2 DEF Sent
  <2>3. CASE Kept(s, p)
    <3>1. 2 * p <= end
      <4>1. \A m, q, r \in Nat : r <= m - q => 2 * r <= 2 * (m + 1) - (q + 1) OBVIOUS
      <4> QED BY <1>1, <1>4, <1>5, <2>3, <4>1
    <3>2. n + 1 \in 1..n + 1 BY <2>1
    <3>3. t.segs[n + 1].speech BY <1>4, <2>1, <2>3
    <3> HIDE DEF end
    <3> QED BY <1>4, <2>1, <2>3, <3>1, <3>2, <3>3 DEF Sent
  <2> QED BY <1>3, <2>2, <2>3
<1> QED BY <1>6, <1>7, <1>8, <1>9 DEF Steps, Goes

\* The window just judged is heard as well, as long as the silence before it
\* has not been long enough.
LEMMA HeardNow ==
  ASSUME NEW s \in Scans, NEW a \in Seq(BOOLEAN), NEW t, Steps(s, a, t), Counters(s),
         Steady(s, a), PausesApart, s.gates.elapsed < SilenceWin, HeardTo(s, a, s.pos)
  PROVE  HeardTo(t, a, t.pos)
<1>1. /\ t \in Scans /\ t.pos = s.pos + 1 /\ s.pos \in Nat /\ s.gates.quiet \in Nat
      /\ s.gates.voiced \in Nat /\ s.start \in Nat /\ s.gates.elapsed \in Nat
      /\ SilenceWin \in Nat
  BY StepTypes, ScansType, Constants
<1>2. HeardTo(t, a, s.pos)
  <2>1. s.gates.elapsed <= SilenceWin /\ s.pos <= s.pos BY <1>1
  <2> QED BY <1>1, <2>1, HeardStep
<1>3. SUFFICES ASSUME NEW p \in 2..t.pos, Pair(a, p) PROVE Sent(t.segs, p) \/ Kept(t, p)
  BY DEF HeardTo
<1>4. CASE p <= s.pos
  <2>1. p \in 2..s.pos BY <1>1, <1>4
  <2> QED BY <1>2, <1>3, <2>1 DEF HeardTo
<1>5. CASE p = s.pos + 1
  <2>0. s.pos \in Nat /\ p >= 2 BY <1>1
  <2>1. s.pos > 0 /\ p - 1 = s.pos BY <1>5, <2>0
  <2>2. a[s.pos] /\ a[s.pos + 1] BY <1>3, <1>5, <2>1 DEF Pair
  <2>3. s.gates.last BY <2>1, <2>2 DEF Steady
  <2>4. Hears(s, a[s.pos + 1], t)
    BY <2>2, <2>3 DEF Steps, Goes, Waits, Loses, Cuts, Quiets
  <2>5. t.start = s.start /\ t.gates.quiet = 0 /\ t.gates.voiced = s.gates.voiced + 1
    BY <2>4 DEF Hears
  <2>6. s.start <= 2 * (s.pos - s.gates.quiet) BY DEF Counters
  <2>7. t.gates.voiced > 0 /\ t.start <= 2 * (p - 1) /\ p <= t.pos - t.gates.quiet
    <3>1. \A m, q, b \in Nat : b <= 2 * (m - q) => b <= 2 * m OBVIOUS
    <3>2. s.start <= 2 * s.pos BY <1>1, <2>6, <3>1
    <3>3. t.start <= 2 * (p - 1) BY <2>1, <2>5, <3>2
    <3> QED BY <1>1, <1>5, <2>5, <3>3
  <2> QED BY <2>7 DEF Kept
<1> QED BY <1>1, <1>4, <1>5

LEMMA ScanStep ==
  ASSUME NEW s, NEW a \in Seq(BOOLEAN), NEW t, Scan(s, a), Steps(s, a, t)
  PROVE  Scan(t, a)
<1>1. /\ s \in Scans /\ Counters(s) /\ Steady(s, a) /\ Clean(s, a) /\ Linked(s) /\ Voiced(s, a)
  BY DEF Scan
<1>2. t \in Scans /\ t.pos <= Len(a) BY <1>1, StepTypes
<1>3. Counters(t) BY <1>1, CountersStep DEF Steps
<1>4. Steady(t, a) BY <1>1, SteadyStep
<1>5. Clean(t, a) BY <1>1, CleanStep
<1>6. Linked(t) BY <1>1, LinkedStep
<1>7. Voiced(t, a) BY <1>1, VoicedStep
<1> QED BY <1>2, <1>3, <1>4, <1>5, <1>6, <1>7 DEF Scan

-----------------------------------------------------------------------------
(* One call of listen: a run, window by window *)

Resume(s) == [s EXCEPT !.over = FALSE]

LEMMA ResumeIs ==
  ASSUME NEW s \in Scans
  PROVE  /\ Resume(s) \in Scans /\ Resume(s).pos = s.pos /\ Resume(s).gates = s.gates
         /\ Resume(s).start = s.start /\ Resume(s).segs = s.segs /\ Resume(s).over = FALSE
<1>1. s \in [pos : Nat, gates : Gates, start : Nat, segs : Seq(Pieces), over : BOOLEAN]
  BY DEF Scans
<1> DEFINE t == [s EXCEPT !.over = FALSE]
<1>2. /\ t \in [pos : Nat, gates : Gates, start : Nat, segs : Seq(Pieces), over : BOOLEAN]
      /\ t.pos = s.pos /\ t.gates = s.gates /\ t.start = s.start /\ t.segs = s.segs
      /\ t.over = FALSE
  BY <1>1
<1>3. t = Resume(s) BY DEF Resume
<1> HIDE DEF t
<1> QED BY <1>2, <1>3 DEF Scans

Runs(S, k, x, g) == {run \in [0..k -> S] : run[0] = x /\ \A n \in 1..k : run[n] = g[n][run[n - 1]]}

LEMMA RunExists ==
  ASSUME NEW S, NEW k \in Nat, NEW x \in S, NEW g, \A n \in 1..k : \A d \in S : g[n][d] \in S
  PROVE  Runs(S, k, x, g) # {}
<1> DEFINE P == {m \in 0..k : Runs(S, m, x, g) # {}}
<1>1. 0 \in P
  <2>1. [n \in 0..0 |-> x] \in [0..0 -> S] /\ [n \in 0..0 |-> x][0] = x OBVIOUS
  <2>2. 1..0 = {} OBVIOUS
  <2>3. [n \in 0..0 |-> x] \in Runs(S, 0, x, g) BY <2>1, <2>2 DEF Runs
  <2> QED BY <2>3
<1>2. ASSUME NEW m \in 1..k, m - 1 \in P PROVE m \in P
  <2>1. PICK run : run \in Runs(S, m - 1, x, g) BY <1>2
  <2> DEFINE more == [n \in 0..m |-> IF n = m THEN g[m][run[m - 1]] ELSE run[n]]
  <2>2. /\ run \in [0..m - 1 -> S] /\ run[0] = x
        /\ \A n \in 1..m - 1 : run[n] = g[n][run[n - 1]]
    BY <2>1 DEF Runs
  <2>3. m - 1 \in 0..m - 1 OBVIOUS
  <2>4. g[m][run[m - 1]] \in S BY <2>2, <2>3
  <2>5. \A n \in 0..m : n # m => n \in 0..m - 1 OBVIOUS
  <2>6. more \in [0..m -> S] BY <2>2, <2>4, <2>5
  <2>7. more[0] = x BY <2>2
  <2>8. ASSUME NEW n \in 1..m PROVE more[n] = g[n][more[n - 1]]
    <3>1. n \in 0..m /\ n - 1 \in 0..m /\ n - 1 # m OBVIOUS
    <3>2. more[n - 1] = run[n - 1] BY <3>1
    <3>3. CASE n = m BY <3>1, <3>2, <3>3
    <3>4. CASE n # m
      <4>1. n \in 1..m - 1 BY <3>4
      <4>2. more[n] = run[n] BY <3>1, <3>4
      <4> QED BY <2>2, <3>2, <4>1, <4>2
    <3> QED BY <3>3, <3>4
  <2>9. more \in Runs(S, m, x, g) BY <2>6, <2>7, <2>8 DEF Runs
  <2>10. m \in 0..k OBVIOUS
  <2> QED BY <2>9, <2>10
<1>3. k \in P
  <2> HIDE DEF P
  <2> QED BY <1>1, <1>2, Counting
<1> QED BY <1>3

Counted == {s \in Scans : Counters(s)}

LEMMA JudgeCounted ==
  ASSUME NEW s \in Counted, NEW w \in BOOLEAN
  PROVE  /\ Judge(s, w) \in Counted
         /\ s.over = TRUE => Judge(s, w) = s
         /\ s.over = FALSE => Goes(s, w, Judge(s, w))
<1>1. s \in Scans /\ Counters(s) /\ s.over \in BOOLEAN BY ScansType DEF Counted
<1>2. CASE s.over = TRUE
  <2>1. Judge(s, w) = s BY <1>2 DEF Judge
  <2> QED BY <1>2, <2>1
<1>3. CASE s.over = FALSE
  <2>1. Goes(s, w, Judge(s, w)) BY <1>1, <1>3, JudgeIs
  <2>2. Judge(s, w) \in Scans BY <2>1 DEF Goes
  <2>3. Counters(Judge(s, w)) BY <1>1, <2>1, CountersStep
  <2> QED BY <1>3, <2>1, <2>2, <2>3 DEF Counted
<1> QED BY <1>1, <1>2, <1>3

\* The recursive function Listen defines exists.
LEMMA ListenRun ==
  ASSUME NEW s \in Scans, Resume(s) \in Counted, NEW a \in Seq(BOOLEAN), s.pos <= Len(a)
  PROVE  \E run : /\ run[0] = Resume(s)
                  /\ \A n \in 1..Len(a) - s.pos : run[n] = Judge(run[n - 1], a[s.pos + n])
                  /\ Listen(s, a) = run[Len(a) - s.pos]
<1>0. /\ s.pos \in Nat /\ Len(a) \in Nat /\ \A p \in 1..Len(a) : a[p] \in BOOLEAN
  BY ScansType, Boundaries
<1>1. PICK k \in Nat : k = Len(a) - s.pos BY <1>0
<1>2. \A n \in 1..k : a[s.pos + n] \in BOOLEAN
  <2>1. \A n \in 1..k : s.pos + n \in 1..Len(a) BY <1>0, <1>1
  <2> QED BY <1>0, <2>1
<1> DEFINE first   == Resume(s)
           Step(f) == [n \in 0..k |-> IF n = 0 THEN first ELSE Judge(f[n - 1], a[s.pos + n])]
           step    == [n \in 1..k |-> [d \in Counted |-> Judge(d, a[s.pos + n])]]
           run     == CHOOSE f : f = Step(f)
<1>3. \A n \in 1..k : \A d \in Counted : Judge(d, a[s.pos + n]) \in Counted BY <1>2, JudgeCounted
<1>4. \A n \in 1..k : \A d \in Counted : step[n][d] \in Counted BY <1>3
<1>5. Listen(s, a) = run[k] BY <1>1 DEF Listen, Resume
<1> HIDE DEF first
<1>6. first \in Counted BY DEF first
<1>7. \E f : f = Step(f)
  <2>1. PICK f \in Runs(Counted, k, first, step) : TRUE
    <3> HIDE DEF step
    <3> QED BY <1>4, <1>6, RunExists
  <2>2. f \in [0..k -> Counted] /\ f[0] = first /\ \A n \in 1..k : f[n] = step[n][f[n - 1]]
    BY <2>1 DEF Runs
  <2>3. ASSUME NEW n \in 0..k PROVE f[n] = Step(f)[n]
    <3>1. CASE n = 0 BY <2>2, <3>1
    <3>2. CASE n # 0
      <4>1. n \in 1..k /\ n - 1 \in 0..k BY <3>2
      <4>2. f[n - 1] \in Counted BY <2>2, <4>1
      <4>3. step[n][f[n - 1]] = Judge(f[n - 1], a[s.pos + n]) BY <4>1, <4>2
      <4> QED BY <2>2, <3>2, <4>1, <4>3
    <3> QED BY <3>1, <3>2
  <2>4. f = Step(f) BY <2>2, <2>3
  <2> QED BY <2>4
<1>8. run = Step(run)
  <2> HIDE DEF Step
  <2> QED BY <1>7
<1> HIDE DEF run
<1>9. run[0] = first
  <2>1. 0 \in 0..k OBVIOUS
  <2> QED BY <1>8, <2>1
<1>10. ASSUME NEW n \in 1..k PROVE run[n] = Judge(run[n - 1], a[s.pos + n])
  <2>1. n \in 0..k /\ n # 0 OBVIOUS
  <2> QED BY <1>8, <2>1
<1>11. run[0] = Resume(s) BY <1>9 DEF first
<1> QED BY <1>1, <1>5, <1>10, <1>11

\* What holds before a call and passes from window to window holds after it.
LEMMA ListenStays ==
  ASSUME NEW s \in Scans, NEW a \in Seq(BOOLEAN), s.pos <= Len(a),
         NEW Good \in SUBSET Counted, Resume(s) \in Good,
         \A x \in Good : \A t : Steps(x, a, t) => t \in Good
  PROVE  LET r == Listen(s, a)
         IN  r \in Good /\ (r.over = TRUE \/ r.pos = Len(a))
<1>1. /\ s.pos \in Nat /\ Len(a) \in Nat /\ \A p \in 1..Len(a) : a[p] \in BOOLEAN
  BY ScansType, Boundaries
<1>2. PICK k \in Nat : k = Len(a) - s.pos BY <1>1
<1>3. PICK run : /\ run[0] = Resume(s)
                 /\ \A n \in 1..k : run[n] = Judge(run[n - 1], a[s.pos + n])
                 /\ Listen(s, a) = run[k]
  BY <1>2, ListenRun
<1> DEFINE P == {n \in 0..k : run[n] \in Good /\ (run[n].over = TRUE \/ run[n].pos = s.pos + n)}
<1>4. 0 \in P
  <2>1. run[0] \in Good BY <1>3
  <2>2. run[0].pos = s.pos BY <1>3, ResumeIs
  <2>3. s.pos = s.pos + 0 /\ 0 \in 0..k BY <1>1
  <2> QED BY <2>1, <2>2, <2>3
<1>5. ASSUME NEW n \in 1..k, n - 1 \in P PROVE n \in P
  <2> DEFINE w == a[s.pos + n]
  <2>1. /\ run[n - 1] \in Good /\ run[n - 1] \in Counted /\ run[n - 1] \in Scans
        /\ run[n - 1].over \in BOOLEAN
    BY <1>5, ScansType DEF Counted
  <2>2. w \in BOOLEAN
    <3>1. s.pos + n \in 1..Len(a) BY <1>1, <1>2
    <3> QED BY <1>1, <3>1
  <2>3. run[n] = Judge(run[n - 1], w) BY <1>3
  <2>4. CASE run[n - 1].over = TRUE
    <3>1. run[n] = run[n - 1] BY <2>1, <2>2, <2>3, <2>4, JudgeCounted
    <3> QED BY <2>1, <2>4, <3>1
  <2>5. CASE run[n - 1].over = FALSE
    <3>1. run[n - 1].pos = s.pos + (n - 1) BY <1>5, <2>5
    <3>2. run[n - 1].pos < Len(a) /\ run[n - 1].pos + 1 = s.pos + n BY <1>1, <1>2, <3>1
    <3>3. Goes(run[n - 1], w, run[n]) BY <2>1, <2>2, <2>3, <2>5, JudgeCounted
    <3>4. Steps(run[n - 1], a, run[n]) BY <2>5, <3>2, <3>3 DEF Steps
    <3>5. run[n] \in Good BY <2>1, <3>4
    <3>6. run[n].pos = s.pos + n BY <3>2, <3>3 DEF Goes
    <3> QED BY <3>5, <3>6
  <2> QED BY <2>1, <2>4, <2>5
<1>6. k \in P
  <2> HIDE DEF P
  <2> QED BY <1>4, <1>5, Counting
<1>7. s.pos + k = Len(a) BY <1>1, <1>2
<1> QED BY <1>3, <1>6, <1>7

\* What a call may do to what it started from.
Since(s, t) ==
  /\ s.pos <= t.pos /\ (t.pos = s.pos => t = s)
  /\ Len(s.segs) <= Len(t.segs) /\ Len(t.segs) - Len(s.segs) <= t.pos - s.pos
  /\ s.gates.voiced > 0 /\ Len(t.segs) = Len(s.segs) /\ t.over = FALSE => t.gates.voiced > 0

LEMMA SinceStep ==
  ASSUME NEW s \in Scans, NEW x \in Scans, NEW a \in Seq(BOOLEAN), NEW t, Counters(x),
         Since(s, x), Steps(x, a, t)
  PROVE  Since(s, t)
<1>1. /\ t \in Scans /\ t.pos = x.pos + 1 /\ x.pos \in Nat /\ s.pos \in Nat
      /\ Len(s.segs) \in Nat /\ Len(x.segs) \in Nat /\ Len(t.segs) \in Nat
      /\ s.gates.voiced \in Nat /\ x.gates.voiced \in Nat /\ t.gates.voiced \in Nat
  BY StepTypes, ScansType
<1>2. /\ s.pos <= x.pos /\ Len(s.segs) <= Len(x.segs)
      /\ Len(x.segs) - Len(s.segs) <= x.pos - s.pos
  BY DEF Since
<1>3. x.over = FALSE BY DEF Steps
<1>4. s.gates.voiced > 0 /\ Len(x.segs) = Len(s.segs) => x.gates.voiced > 0 BY <1>3 DEF Since
<1>0. Len(x.segs) - Len(s.segs) <= t.pos - s.pos /\ (Len(x.segs) + 1) - Len(s.segs) <= t.pos - s.pos
  <2>1. PICK m, n, u, v \in Nat : /\ m = Len(x.segs) /\ n = Len(s.segs)
                                  /\ u = x.pos /\ v = s.pos
    BY <1>1
  <2>2. m - n <= u - v /\ t.pos = u + 1 BY <1>1, <1>2, <2>1
  <2>3. m - n <= (u + 1) - v /\ (m + 1) - n <= (u + 1) - v BY <2>2
  <2> QED BY <2>1, <2>2, <2>3
<1>5. s.pos <= t.pos /\ t.pos # s.pos BY <1>1, <1>2
<1>6. CASE Hears(x, a[x.pos + 1], t)
  <2>1. t.segs = x.segs /\ t.gates.voiced = x.gates.voiced + 1 BY <1>6 DEF Hears
  <2>2. Len(t.segs) = Len(x.segs) /\ t.gates.voiced > 0 BY <1>1, <2>1
  <2>3. Len(t.segs) - Len(s.segs) <= t.pos - s.pos BY <1>0, <2>2
  <2> QED BY <1>2, <1>5, <2>2, <2>3 DEF Since
<1>7. CASE Waits(x, a[x.pos + 1], t)
  <2>1. t.segs = x.segs /\ t.gates.voiced = x.gates.voiced BY <1>7 DEF Waits
  <2>2. Len(t.segs) = Len(x.segs) BY <2>1
  <2>3. Len(t.segs) - Len(s.segs) <= t.pos - s.pos BY <1>0, <2>2
  <2> QED BY <1>2, <1>4, <1>5, <2>1, <2>2, <2>3 DEF Since
<1>8. CASE Loses(x, a[x.pos + 1], t)
  <2>1. t.segs = x.segs /\ ~(t.over = FALSE) BY <1>8 DEF Loses
  <2>2. Len(t.segs) = Len(x.segs) BY <2>1
  <2>3. Len(t.segs) - Len(s.segs) <= t.pos - s.pos BY <1>0, <2>2
  <2> QED BY <1>2, <1>5, <2>1, <2>2, <2>3 DEF Since
<1>9. CASE Cuts(x, a[x.pos + 1], t)
  <2>1. Len(t.segs) = Len(x.segs) + 1 BY <1>9, CutFacts
  <2>2. Len(s.segs) <= Len(t.segs) /\ Len(t.segs) # Len(s.segs) BY <1>1, <1>2, <2>1
  <2>3. Len(t.segs) - Len(s.segs) <= t.pos - s.pos BY <1>0, <2>1
  <2> QED BY <1>5, <2>2, <2>3 DEF Since
<1> QED BY <1>6, <1>7, <1>8, <1>9 DEF Steps, Goes

LEMMA SinceSelf ==
  ASSUME NEW s \in Scans, s.over = FALSE
  PROVE  Since(s, s)
<1>1. s.pos \in Nat /\ Len(s.segs) \in Nat BY ScansType
<1> QED BY <1>1 DEF Since

\* Whatever it was given, a call leaves what it works on as it must be.
LEMMA ListenIs ==
  ASSUME NEW s \in Scans, NEW a \in Seq(BOOLEAN), Scan(Resume(s), a)
  PROVE  LET r == Listen(s, a)
         IN  /\ Scan(r, a) /\ Since(Resume(s), r)
             /\ r.over = TRUE \/ r.pos = Len(a)
             /\ s.gates.elapsed < SilenceWin =>
                  /\ r.over = FALSE => r.gates.elapsed < SilenceWin
                  /\ r.over = TRUE => r.gates.elapsed = SilenceWin
<1> DEFINE Lately(x) == s.gates.elapsed < SilenceWin =>
                          /\ x.over = FALSE => x.gates.elapsed < SilenceWin
                          /\ x.over = TRUE => x.gates.elapsed = SilenceWin
           Good == {x \in Counted : Scan(x, a) /\ Since(Resume(s), x) /\ Lately(x)}
           first == Resume(s)
<1>1. /\ first \in Scans /\ first.pos = s.pos /\ first.over = FALSE /\ first.gates = s.gates
  BY ResumeIs
<1>2. s.pos <= Len(a) /\ first \in Counted BY <1>1 DEF Scan, Counted
<1>3. first \in Good
  <2>1. Since(first, first) BY <1>1, SinceSelf
  <2>2. Lately(first) BY <1>1
  <2> QED BY <1>2, <2>1, <2>2
<1>4. ASSUME NEW x \in Good, NEW t, Steps(x, a, t) PROVE t \in Good
  <2>1. x \in Scans /\ Counters(x) /\ x.over = FALSE /\ Scan(x, a) /\ Since(first, x) /\ Lately(x)
    BY <1>4 DEF Counted, Steps
  <2>2. Scan(t, a) BY <1>4, <2>1, ScanStep
  <2>3. Since(first, t)
    <3> HIDE DEF first
    <3> QED BY <1>1, <1>4, <2>1, SinceStep
  <2>4. Lately(t) BY <1>4, <2>1, ElapsedStep
  <2>5. t \in Counted BY <2>2 DEF Counted, Scan
  <2> QED BY <2>2, <2>3, <2>4, <2>5
<1>5. LET r == Listen(s, a) IN r \in Good /\ (r.over = TRUE \/ r.pos = Len(a))
  <2>1. Good \in SUBSET Counted OBVIOUS
  <2> HIDE DEF Good
  <2> QED BY <1>2, <1>3, <1>4, <2>1, ListenStays
<1> QED BY <1>5

\* All that was said before the silence is over is heard, and
LEMMA ListenHears ==
  ASSUME NEW s \in Scans, NEW a \in Seq(BOOLEAN), Scan(Resume(s), a), PausesApart,
         s.gates.elapsed < SilenceWin, HeardTo(Resume(s), a, s.pos)
  PROVE  HeardTo(Listen(s, a), a, Listen(s, a).pos)
<1> DEFINE Good  == {x \in Counted : /\ Scan(x, a) /\ HeardTo(x, a, x.pos)
                                     /\ x.over = FALSE => x.gates.elapsed < SilenceWin}
           first == Resume(s)
<1>1. /\ first \in Scans /\ first.pos = s.pos /\ first.over = FALSE /\ first.gates = s.gates
  BY ResumeIs
<1>2. s.pos <= Len(a) /\ first \in Counted BY <1>1 DEF Scan, Counted
<1>3. first \in Good BY <1>1, <1>2
<1>4. ASSUME NEW x \in Good, NEW t, Steps(x, a, t) PROVE t \in Good
  <2>1. /\ x \in Scans /\ Counters(x) /\ Steady(x, a) /\ x.over = FALSE /\ Scan(x, a)
        /\ HeardTo(x, a, x.pos) /\ x.gates.elapsed < SilenceWin
    BY <1>4 DEF Counted, Steps, Scan
  <2>2. Scan(t, a) BY <1>4, <2>1, ScanStep
  <2>3. HeardTo(t, a, t.pos) BY <1>4, <2>1, HeardNow
  <2>4. t.over = FALSE => t.gates.elapsed < SilenceWin BY <1>4, <2>1, ElapsedStep
  <2>5. t \in Counted BY <2>2 DEF Counted, Scan
  <2> QED BY <2>2, <2>3, <2>4, <2>5
<1>5. Listen(s, a) \in Good
  <2>1. Good \in SUBSET Counted OBVIOUS
  <2> HIDE DEF Good
  <2> QED BY <1>2, <1>3, <1>4, <2>1, ListenStays
<1> QED BY <1>5

\* is not lost by listening on.
LEMMA ListenKeeps ==
  ASSUME NEW s \in Scans, NEW a \in Seq(BOOLEAN), Scan(Resume(s), a), PausesApart,
         s.gates.elapsed <= SilenceWin, NEW k \in Nat, k <= s.pos, HeardTo(Resume(s), a, k)
  PROVE  HeardTo(Listen(s, a), a, k)
<1> DEFINE Good  == {x \in Counted : /\ Scan(x, a) /\ HeardTo(x, a, k) /\ k <= x.pos
                                     /\ x.over = FALSE => x.gates.elapsed <= SilenceWin}
           first == Resume(s)
<1>1. /\ first \in Scans /\ first.pos = s.pos /\ first.over = FALSE /\ first.gates = s.gates
  BY ResumeIs
<1>2. s.pos <= Len(a) /\ first \in Counted BY <1>1 DEF Scan, Counted
<1>3. first \in Good BY <1>1, <1>2
<1>4. ASSUME NEW x \in Good, NEW t, Steps(x, a, t) PROVE t \in Good
  <2>1. /\ x \in Scans /\ Counters(x) /\ x.over = FALSE /\ Scan(x, a)
        /\ HeardTo(x, a, k) /\ k <= x.pos /\ x.gates.elapsed <= SilenceWin
    BY <1>4 DEF Counted, Steps
  <2>2. Scan(t, a) BY <1>4, <2>1, ScanStep
  <2>3. HeardTo(t, a, k) BY <1>4, <2>1, HeardStep
  <2>4. t \in Scans /\ t.pos = x.pos + 1 /\ x.pos \in Nat BY <1>4, <2>1, StepTypes, ScansType
  <2>5. k <= t.pos BY <2>1, <2>4
  <2>6. t.over = FALSE => t.gates.elapsed <= SilenceWin
    <3>1. t.over = FALSE => t.gates.elapsed < SilenceWin BY <1>4, <2>1, ElapsedStep
    <3>2. t.gates.elapsed \in Nat /\ SilenceWin \in Nat BY <2>4, ScansType, Constants
    <3> QED BY <3>1, <3>2
  <2>7. t \in Counted BY <2>2 DEF Counted, Scan
  <2> QED BY <2>2, <2>3, <2>5, <2>6, <2>7
<1>5. Listen(s, a) \in Good
  <2>1. Good \in SUBSET Counted OBVIOUS
  <2> HIDE DEF Good
  <2> QED BY <1>2, <1>3, <1>4, <2>1, ListenStays
<1> QED BY <1>5

-----------------------------------------------------------------------------
(* Between two calls *)

\* The cursor moves to the end of the audio, also over what a call left out.
LEMMA CursorMoves ==
  ASSUME NEW s, NEW a \in Seq(BOOLEAN), Scan(s, a), s.over = TRUE \/ s.pos = Len(a),
         NEW t \in Scans, t.pos = Len(a), t.over = FALSE,
         t.gates = s.gates, t.start = s.start, t.segs = s.segs
  PROVE  /\ Scan(t, a)
         /\ \A k \in Nat : HeardTo(s, a, k) => HeardTo(t, a, k)
<1>1. /\ s \in Scans /\ s.pos <= Len(a) /\ Counters(s) /\ Steady(s, a) /\ Clean(s, a)
      /\ Linked(s) /\ Voiced(s, a)
  BY DEF Scan
<1>2. /\ s.pos \in Nat /\ Len(a) \in Nat /\ s.start \in Nat /\ s.gates.quiet \in Nat
      /\ s.gates.elapsed \in Nat /\ SilenceWin \in Nat /\ t.pos \in Nat
      /\ \A i \in DOMAIN s.segs : s.segs[i].to \in Nat
  BY <1>1, ScansType, Boundaries, Constants
<1>3. Counters(t)
  <2>1. /\ s.gates.quiet <= s.gates.elapsed /\ s.gates.elapsed <= s.pos
        /\ s.gates.speech => s.gates.elapsed = 0 /\ s.gates.voiced > 0
        /\ s.gates.voiced > 0 => s.gates.quiet = s.gates.elapsed
        /\ ~Fires(s.gates)
        /\ s.start <= 2 * (s.pos - s.gates.quiet)
    BY <1>1 DEF Counters
  <2>2. s.gates.elapsed <= t.pos BY <1>1, <1>2, <2>1
  <2>3. s.start <= 2 * (t.pos - s.gates.quiet)
    <3>1. PICK b, p, q, n \in Nat : b = s.start /\ p = s.pos /\ q = s.gates.quiet /\ n = t.pos
      BY <1>2
    <3>2. b <= 2 * (p - q) /\ p <= n BY <1>1, <2>1, <3>1
    <3>3. b <= 2 * (n - q) BY <3>2
    <3> QED BY <3>1, <3>3
  <2> QED BY <2>1, <2>2, <2>3 DEF Counters
<1>4. Steady(t, a)
  <2>1. CASE s.pos = Len(a) BY <1>1, <2>1 DEF Steady
  <2>2. CASE s.over = TRUE
    <3>1. s.gates.elapsed >= SilenceWin BY <1>1, <2>2 DEF Counters
    <3> QED BY <1>2, <3>1 DEF Steady
  <2> QED BY <2>1, <2>2
<1>5. Clean(t, a)
  <2>1. \A i \in DOMAIN s.segs : s.segs[i].to <= 2 * (s.pos - 1) BY <1>1 DEF Clean
  <2>2. \A i \in DOMAIN s.segs : s.segs[i].to <= 2 * (t.pos - 1) BY <1>1, <1>2, <2>1
  <2> QED BY <1>1, <2>2 DEF Clean
<1>6. Linked(t) BY <1>1 DEF Linked
<1>7. Voiced(t, a)
  <2>1. ASSUME s.gates.voiced > 0
        PROVE  \E w, v \in 1..Len(a) : /\ w < v /\ a[w] /\ a[v]
                                       /\ s.start < 2 * w /\ v <= t.pos - s.gates.quiet
    <3>1. PICK w, v \in 1..Len(a) : /\ w < v /\ a[w] /\ a[v]
                                    /\ s.start < 2 * w /\ v <= s.pos - s.gates.quiet
      BY <1>1, <2>1 DEF Voiced
    <3>2. v <= t.pos - s.gates.quiet BY <1>1, <1>2, <3>1
    <3> QED BY <3>1, <3>2
  <2>2. s.gates.last => \E w \in 1..Len(a) : w <= t.pos /\ a[w] /\ s.start < 2 * w
    BY <1>1 DEF Voiced
  <2> QED BY <1>1, <2>1, <2>2 DEF Voiced
<1>8. ASSUME NEW k \in Nat, HeardTo(s, a, k), NEW p \in 2..k, Pair(a, p)
      PROVE  Sent(t.segs, p) \/ Kept(t, p)
  <2>1. Sent(s.segs, p) \/ Kept(s, p) BY <1>8 DEF HeardTo
  <2>2. ASSUME Kept(s, p) PROVE Kept(t, p)
    <3>1. p <= s.pos - s.gates.quiet BY <2>2 DEF Kept
    <3>2. p <= t.pos - s.gates.quiet BY <1>1, <1>2, <3>1
    <3> QED BY <2>2, <3>2 DEF Kept
  <2> QED BY <2>1, <2>2
<1>9. \A k \in Nat : HeardTo(s, a, k) => HeardTo(t, a, k) BY <1>8 DEF HeardTo
<1> QED BY <1>1, <1>3, <1>4, <1>5, <1>6, <1>7, <1>9 DEF Scan

Longer(a, b) == Len(a) <= Len(b) /\ \A p \in 1..Len(a) : b[p] = a[p]

\* More audio is captured.
LEMMA MoreAudio ==
  ASSUME NEW s, NEW a \in Seq(BOOLEAN), NEW b \in Seq(BOOLEAN), Longer(a, b), Scan(s, a)
  PROVE  /\ Scan(s, b)
         /\ \A k \in 0..Len(a) : HeardTo(s, a, k) => HeardTo(s, b, k)
<1>1. /\ s \in Scans /\ s.pos <= Len(a) /\ Counters(s) /\ Steady(s, a) /\ Clean(s, a)
      /\ Linked(s) /\ Voiced(s, a)
  BY DEF Scan
<1>2. /\ s.pos \in Nat /\ Len(a) \in Nat /\ Len(b) \in Nat /\ Len(a) <= Len(b)
      /\ \A i \in DOMAIN s.segs : s.segs[i].to \in Nat
  BY <1>1, ScansType, Boundaries DEF Longer
<1>3. \A p \in 1..Len(a) : b[p] = a[p] /\ p \in 1..Len(b) BY <1>2 DEF Longer
<1>4. \A p \in 2..Len(a) : Pair(b, p) <=> Pair(a, p)
  <2>1. \A p \in 2..Len(a) : p \in 1..Len(a) /\ p - 1 \in 1..Len(a) BY <1>2
  <2> QED BY <1>3, <2>1 DEF Pair
<1>5. Steady(s, b)
  <2>1. s.pos > 0 => s.pos \in 1..Len(a) BY <1>1, <1>2
  <2>2. \A p \in 2..s.pos : p \in 2..Len(a) BY <1>1, <1>2
  <2> QED BY <1>1, <1>3, <1>4, <2>1, <2>2 DEF Steady
<1>6. Clean(s, b)
  <2>1. ASSUME NEW i \in DOMAIN s.segs PROVE CleanAt(s.segs[i].to, b)
    <3>1. s.segs[i].to <= 2 * (s.pos - 1) /\ CleanAt(s.segs[i].to, a) BY <1>1 DEF Clean
    <3>2. PICK x \in Nat : x = s.segs[i].to BY <1>2
    <3>3. ASSUME NEW p \in 2..Len(b), 2 * (p - 2) < x, x < 2 * p PROVE ~Pair(b, p)
      <4>1. x <= 2 * (s.pos - 1) BY <3>1, <3>2
      <4>2. p \in 2..Len(a) BY <1>1, <1>2, <3>3, <4>1
      <4> QED BY <1>4, <3>1, <3>2, <3>3, <4>2 DEF CleanAt
    <3> QED BY <3>2, <3>3 DEF CleanAt
  <2> QED BY <1>1, <2>1 DEF Clean
<1>7. Voiced(s, b)
  <2>1. \A x, y : Voices(a, x, y) => Voices(b, x, y) BY <1>3 DEF Voices
  <2>2. \A i \in DOMAIN s.segs : s.segs[i].speech => Voices(b, s.segs[i].from, s.segs[i].to)
    BY <1>1, <2>1 DEF Voiced
  <2>3. s.gates.voiced > 0 =>
          \E w, v \in 1..Len(b) : /\ w < v /\ b[w] /\ b[v]
                                  /\ s.start < 2 * w /\ v <= s.pos - s.gates.quiet
    BY <1>1, <1>3 DEF Voiced
  <2>4. s.gates.last => \E w \in 1..Len(b) : w <= s.pos /\ b[w] /\ s.start < 2 * w
    BY <1>1, <1>3 DEF Voiced
  <2> QED BY <2>2, <2>3, <2>4 DEF Voiced
<1>8. ASSUME NEW k \in 0..Len(a), HeardTo(s, a, k) PROVE HeardTo(s, b, k)
  <2>1. \A p \in 2..k : p \in 2..Len(a) BY <1>2
  <2> QED BY <1>4, <1>8, <2>1 DEF HeardTo
<1> QED BY <1>1, <1>2, <1>5, <1>6, <1>7, <1>8 DEF Scan

\* What a call concludes.
LEMMA ConclusionIs ==
  ASSUME NEW s \in Scans, NEW a \in Seq(BOOLEAN), Len(a) <= MaxWindows, Scan(Resume(s), a)
  PROVE  Conclusion(s, Listen(s, a), a) \in Outcomes(s.gates.voiced > 0, MaxWindows)
<1> DEFINE r == Listen(s, a)
<1>1. Scan(r, a) /\ Since(Resume(s), r) /\ (r.over = TRUE \/ r.pos = Len(a)) BY ListenIs
<1> HIDE DEF r
<1>2. /\ Resume(s).pos = s.pos /\ Resume(s).segs = s.segs /\ Resume(s).gates = s.gates
  BY ResumeIs
<1>3. /\ r \in Scans /\ r.pos <= Len(a) BY <1>1 DEF Scan
<1>4. /\ s.pos \in Nat /\ r.pos \in Nat /\ Len(a) \in Nat /\ MaxWindows \in Nat
      /\ Len(s.segs) \in Nat /\ Len(r.segs) \in Nat /\ r.over \in BOOLEAN
      /\ s.gates.voiced \in Nat /\ r.gates.voiced \in Nat
      /\ \A i \in 1..Len(r.segs) : r.segs[i].speech \in BOOLEAN
  BY <1>3, ScansType, Boundaries, Constants
<1>5. /\ Len(s.segs) <= Len(r.segs) /\ Len(r.segs) - Len(s.segs) <= r.pos - s.pos
      /\ r.pos = s.pos => r = Resume(s)
      /\ s.gates.voiced > 0 /\ Len(r.segs) = Len(s.segs) /\ r.over = FALSE => r.gates.voiced > 0
  BY <1>1, <1>2 DEF Since
<1>6. PICK n \in 0..MaxWindows : n = Len(r.segs) - Len(s.segs)
  <2>1. PICK x, y, u, v \in Nat : /\ x = Len(r.segs) /\ y = Len(s.segs)
                                  /\ u = r.pos /\ v = s.pos
    BY <1>4
  <2>2. r.pos <= MaxWindows BY <1>3, <1>4
  <2>3. y <= x /\ x - y <= u - v /\ u <= MaxWindows BY <1>5, <2>1, <2>2
  <2>4. x - y \in 0..MaxWindows BY <1>4, <2>3
  <2> QED BY <2>1, <2>4
<1>7. PICK before : before = (s.gates.voiced > 0) OBVIOUS
<1>8. PICK voiced : voiced = (r.gates.voiced > 0) OBVIOUS
<1>9. before \in BOOLEAN /\ voiced \in BOOLEAN
  <2>1. (s.gates.voiced > 0) \in BOOLEAN /\ (r.gates.voiced > 0) \in BOOLEAN BY <1>4
  <2> QED BY <1>7, <1>8, <2>1, Zenon
<1> DEFINE cuts == [i \in 1..n |-> r.segs[Len(s.segs) + i].speech]
           fed  == IF r.over \/ s.pos = Len(a) THEN 0 ELSE 1
           o    == [cuts |-> cuts, over |-> r.over, fed |-> fed, voiced |-> voiced]
<1>10. Conclusion(s, r, a) = o BY <1>6, <1>8, Zenon DEF Conclusion
<1>11. cuts \in [1..n -> BOOLEAN]
  <2>1. \A i \in 1..n : Len(s.segs) + i \in 1..Len(r.segs) BY <1>4, <1>6
  <2> QED BY <1>4, <2>1
<1>12. cuts \in UNION {[1..k -> BOOLEAN] : k \in 0..MaxWindows} BY <1>11
<1>13. fed \in 0..1 OBVIOUS
<1>14. cuts = <<>> => n = 0
  <2>1. DOMAIN cuts = 1..n BY <1>11
  <2>2. DOMAIN <<>> = {} OBVIOUS
  <2>3. n # 0 => 1 \in 1..n OBVIOUS
  <2> HIDE DEF cuts
  <2> QED BY <2>1, <2>2, <2>3
<1>15. n = 0 => cuts = <<>>
  <2>1. n = 0 => 1..n = {} OBVIOUS
  <2> QED BY <2>1
<1> HIDE DEF cuts
<1>16. r.over => fed = 0 OBVIOUS
<1>17. before /\ cuts = <<>> /\ ~r.over => voiced
  <2>1. n = 0 => Len(r.segs) = Len(s.segs) BY <1>4, <1>6
  <2>2. s.gates.voiced > 0 /\ n = 0 /\ ~r.over => r.gates.voiced > 0 BY <1>4, <1>5, <2>1
  <2> QED BY <1>7, <1>8, <1>14, <2>2, Zenon
<1>18. ~r.over /\ fed = 0 => cuts = <<>> /\ voiced = before
  <2>1. SUFFICES ASSUME ~r.over, fed = 0 PROVE cuts = <<>> /\ voiced = before OBVIOUS
  <2>2. s.pos = Len(a) /\ r.pos = Len(a) BY <1>1, <2>1
  <2>3. r = Resume(s) BY <1>5, <2>2
  <2>4. r.segs = s.segs /\ r.gates = s.gates BY <1>2, <2>3
  <2>5. n = 0 BY <1>4, <1>6, <2>4
  <2>6. voiced = before BY <1>7, <1>8, <2>4, Zenon
  <2> QED BY <1>15, <2>5, <2>6
<1> HIDE DEF fed
<1>19. o \in Outcomes(before, MaxWindows)
  <2>1. o \in [cuts : UNION {[1..k -> BOOLEAN] : k \in 0..MaxWindows}, over : BOOLEAN,
               fed : 0..1, voiced : BOOLEAN]
    BY <1>4, <1>9, <1>12, <1>13
  <2>2. /\ o.over => o.fed = 0
        /\ (before /\ o.cuts = <<>> /\ ~o.over) => o.voiced
        /\ (~o.over /\ o.fed = 0) => (o.cuts = <<>> /\ o.voiced = before)
    BY <1>16, <1>17, <1>18
  <2> HIDE DEF o
  <2> QED BY <2>1, <2>2 DEF Outcomes
<1> QED BY <1>7, <1>10, <1>19, Zenon DEF r

\* What is left becomes the last segment.
LEMMA TailIs ==
  ASSUME NEW s \in Scans, NEW a \in Seq(BOOLEAN), Scan(Resume(s), a)
  PROVE  LET r == Listen(s, a)
             t == CutAt(r, TailEnd(a), r.gates.voiced > 0)
         IN  /\ t.gates \in Gates /\ t.start = 2 * Len(a) /\ Whole(t.segs, a)
             /\ \A k \in Nat : HeardTo(r, a, k) => SentTo(t.segs, a, k)
<1> DEFINE r == Listen(s, a)
<1>1. Scan(r, a) BY ListenIs
<1> HIDE DEF r
<1>2. /\ r \in Scans /\ r.pos <= Len(a) /\ Counters(r) /\ Clean(r, a) /\ Linked(r) /\ Voiced(r, a)
  BY <1>1 DEF Scan
<1>3. /\ r.pos \in Nat /\ Len(a) \in Nat /\ r.start \in Nat /\ r.segs \in Seq(Pieces)
      /\ r.gates.voiced \in Nat /\ r.gates.quiet \in Nat
      /\ Len(r.segs) \in Nat /\ DOMAIN r.segs = 1..Len(r.segs)
  BY <1>2, ScansType, Boundaries
<1>4. PICK speech : speech = (r.gates.voiced > 0) OBVIOUS
<1>5. speech \in BOOLEAN
  <2>1. (r.gates.voiced > 0) \in BOOLEAN BY <1>3
  <2> QED BY <1>4, <2>1, Zenon
<1>6. PICK end \in Nat : end = 2 * Len(a) BY <1>3
<1>7. PICK t \in Scans :
        /\ t = CutAt(r, end, speech)
        /\ t.pos = r.pos /\ t.start = end /\ t.over = r.over
        /\ t.segs = Append(r.segs, [from |-> r.start, to |-> end, speech |-> speech])
  BY <1>2, <1>5, CutAtIs
<1>8. t = CutAt(r, TailEnd(a), r.gates.voiced > 0) BY <1>4, <1>6, <1>7, Zenon DEF TailEnd
<1>9. t.gates \in Gates BY <1>7, ScansType
<1> DEFINE n == Len(r.segs)
           q == t.segs
<1>10. /\ q \in Seq(Pieces) /\ Len(q) = n + 1
       /\ q[n + 1].from = r.start /\ q[n + 1].to = end /\ q[n + 1].speech = speech
       /\ \A i \in 1..n : q[i] = r.segs[i]
  <2> DEFINE piece == [from |-> r.start, to |-> end, speech |-> speech]
  <2>1. /\ piece \in Pieces /\ piece.from = r.start /\ piece.to = end /\ piece.speech = speech
    BY <1>3, <1>5, <1>6 DEF Pieces
  <2> HIDE DEF piece
  <2>2. q = Append(r.segs, piece) BY <1>7 DEF piece
  <2> QED BY <1>3, <2>1, <2>2, Appending
<1> HIDE DEF q
<1>11. DOMAIN q = 1..n + 1 /\ n \in Nat BY <1>3, <1>10, Boundaries
<1>12. Chained(q)
  <2>1. ASSUME NEW i \in 1..n + 1 PROVE q[i].from = IF i = 1 THEN 0 ELSE q[i - 1].to
    <3>1. CASE i = n + 1
      <4>1. r.start = IF n = 0 THEN 0 ELSE r.segs[n].to BY <1>2 DEF Linked
      <4>2. CASE n = 0 BY <1>10, <3>1, <4>1, <4>2
      <4>3. CASE n # 0
        <5>1. n \in 1..n /\ i - 1 = n /\ i # 1 BY <1>11, <3>1, <4>3
        <5> QED BY <1>10, <3>1, <4>1, <4>3, <5>1
      <4> QED BY <4>2, <4>3
    <3>2. CASE i # n + 1
      <4>1. i \in 1..n /\ (i # 1 => i - 1 \in 1..n) BY <1>11, <3>2
      <4>2. r.segs[i].from = IF i = 1 THEN 0 ELSE r.segs[i - 1].to
        BY <1>2, <1>3, <4>1 DEF Linked, Chained
      <4> QED BY <1>10, <4>1, <4>2
    <3> QED BY <3>1, <3>2
  <2> QED BY <1>11, <2>1 DEF Chained
<1>13. \A i \in 1..n : CleanAt(q[i].to, a) BY <1>2, <1>3, <1>10 DEF Clean
<1>14. ASSUME NEW i \in 1..n + 1, q[i].speech PROVE Voices(a, q[i].from, q[i].to)
  <2>1. CASE i = n + 1
    <3>1. r.gates.voiced > 0 BY <1>4, <1>10, <1>14, <2>1
    <3>2. PICK w, v \in 1..Len(a) : /\ w < v /\ a[w] /\ a[v]
                                    /\ r.start < 2 * w /\ v <= r.pos - r.gates.quiet
      BY <1>2, <3>1 DEF Voiced
    <3>3. 2 * (v - 1) < end BY <1>3, <1>6
    <3>4. Voices(a, r.start, end) BY <3>2, <3>3 DEF Voices
    <3> QED BY <1>10, <2>1, <3>4
  <2>2. CASE i # n + 1
    <3>1. i \in 1..n BY <1>11, <2>2
    <3> QED BY <1>2, <1>3, <1>10, <1>14, <3>1 DEF Voiced
  <2> QED BY <2>1, <2>2
<1>15. Whole(q, a)
  <2>1. Len(q) > 0 /\ Len(q) - 1 = n /\ q[Len(q)].to = 2 * Len(a) BY <1>6, <1>10, <1>11
  <2> QED BY <1>10, <1>12, <1>13, <1>14, <2>1 DEF Whole
<1>16. ASSUME NEW k \in Nat, HeardTo(r, a, k), NEW p \in 2..k, Pair(a, p) PROVE Sent(q, p)
  <2>1. Sent(r.segs, p) \/ Kept(r, p) BY <1>16 DEF HeardTo
  <2>2. CASE Sent(r.segs, p)
    <3>1. PICK i \in 1..n : r.segs[i].speech /\ r.segs[i].from <= 2 * (p - 1) /\ 2 * p <= r.segs[i].to
      BY <1>3, <2>2 DEF Sent
    <3>2. i \in 1..n + 1 BY <1>11
    <3> QED BY <1>10, <1>11, <3>1, <3>2 DEF Sent
  <2>3. CASE Kept(r, p)
    <3>1. r.gates.voiced > 0 /\ r.start <= 2 * (p - 1) /\ p <= r.pos - r.gates.quiet
      BY <2>3 DEF Kept
    <3>2. p \in Nat /\ p <= Len(a) BY <1>2, <1>3, <3>1
    <3>3. 2 * p <= end BY <1>3, <1>6, <3>2
    <3>4. n + 1 \in 1..n + 1 BY <1>11
    <3>5. q[n + 1].speech BY <1>4, <1>10, <3>1
    <3> QED BY <1>10, <1>11, <3>1, <3>3, <3>4, <3>5 DEF Sent
  <2> QED BY <2>1, <2>2, <2>3
<1>17. \A k \in Nat : HeardTo(r, a, k) => SentTo(q, a, k) BY <1>16 DEF SentTo
<1> QED BY <1>6, <1>7, <1>8, <1>9, <1>15, <1>17 DEF q, r

-----------------------------------------------------------------------------
(* The invariant is inductive *)

LEMMA HereIs ==
  /\ Here.pos = cursor /\ Here.gates = gates /\ Here.start = segStart /\ Here.segs = segs
  /\ Here.over = FALSE
  BY DEF Here

LEMMA Resuming == ASSUME NEW s \in Scans, s.over = FALSE PROVE Resume(s) = s
<1>1. s \in [pos : Nat, gates : Gates, start : Nat, segs : Seq(Pieces), over : BOOLEAN]
  BY DEF Scans
<1>2. [s EXCEPT !.over = FALSE] = s BY <1>1
<1> QED BY <1>2 DEF Resume

LEMMA InitKeeps == ASSUME Init PROVE SegmentsInv
<1>1. /\ held \in BOOLEAN /\ preroll \in 0..Preroll /\ spoken \in [1..preroll -> BOOLEAN]
      /\ cursor = 0 /\ segStart = 0 /\ segs = <<>> /\ phase = "recording" /\ endedAt = 0
      /\ gates = [last |-> FALSE, speech |-> FALSE, elapsed |-> 0, quiet |-> 0, voiced |-> 0]
      /\ outcome = [before |-> FALSE,
                    after |-> [cuts |-> <<>>, over |-> FALSE, fed |-> 0, voiced |-> FALSE]]
  BY Constants DEF Init
<1>2. preroll \in Nat /\ preroll <= MaxWindows BY <1>1, Constants
<1>3. spoken \in Seq(BOOLEAN) /\ Len(spoken) = preroll
  <2>1. spoken \in Seq(BOOLEAN) BY <1>1, <1>2, SeqDef
  <2>2. DOMAIN spoken = 1..preroll BY <1>1
  <2>3. Len(spoken) \in Nat /\ DOMAIN spoken = 1..Len(spoken) BY <2>1, Boundaries
  <2>4. Len(spoken) = preroll BY <1>2, <2>2, <2>3
  <2> QED BY <2>1, <2>4
<1>4. SegmentTypes BY <1>1, <1>2, <1>3 DEF SegmentTypes
<1>5. segs \in Seq(Pieces) /\ Len(segs) = 0 /\ DOMAIN segs = {}
  <2>1. <<>> \in Seq(Pieces) /\ Len(<<>>) = 0 BY EmptySeq
  <2>2. DOMAIN <<>> = {} OBVIOUS
  <2> QED BY <1>1, <2>1, <2>2
<1>6. gates \in Gates BY <1>1 DEF Gates
<1>7. /\ gates.last = FALSE /\ gates.speech = FALSE /\ gates.elapsed = 0 /\ gates.quiet = 0
      /\ gates.voiced = 0
  BY <1>1
<1> DEFINE h == Here
<1>8. /\ h.pos = 0 /\ h.gates = gates /\ h.start = 0 /\ h.segs = segs /\ h.over = FALSE
  BY <1>1, HereIs
<1>9. h \in Scans BY <1>1, <1>5, <1>6 DEF Here, Scans
<1> HIDE DEF h
<1>10. h.pos <= Len(spoken) BY <1>2, <1>3, <1>8
<1>11. Counters(h)
  <2>1. ~Fires(h.gates) BY <1>7, <1>8, Constants DEF Fires
  <2> QED BY <1>7, <1>8, <2>1 DEF Counters
<1>12. Steady(h, spoken) /\ Clean(h, spoken) /\ Voiced(h, spoken)
  BY <1>5, <1>7, <1>8 DEF Steady, Clean, Voiced
<1>13. Linked(h) BY <1>5, <1>8 DEF Linked, Chained
<1>14. HeardTo(h, spoken, cursor) BY <1>1 DEF HeardTo
<1>15. gates.elapsed < SilenceWin BY <1>7, Constants
<1>16. Recording BY <1>1, <1>9, <1>10, <1>11, <1>12, <1>13, <1>14, <1>15 DEF Recording, Scan, h
<1>17. ConcludesAsAssumed
  <2> DEFINE o == [cuts |-> <<>>, over |-> FALSE, fed |-> 0, voiced |-> FALSE]
  <2>1. <<>> \in [1..0 -> BOOLEAN] OBVIOUS
  <2>2. 0 \in 0..MaxWindows BY Constants
  <2>3. <<>> \in UNION {[1..k -> BOOLEAN] : k \in 0..MaxWindows} BY <2>1, <2>2
  <2>4. o \in [cuts : UNION {[1..k -> BOOLEAN] : k \in 0..MaxWindows}, over : BOOLEAN,
               fed : 0..1, voiced : BOOLEAN]
    BY <2>3
  <2>5. o \in Outcomes(FALSE, MaxWindows) BY <2>4 DEF Outcomes
  <2>6. outcome.before = FALSE /\ outcome.after = o BY <1>1
  <2> HIDE DEF o
  <2> QED BY <2>5, <2>6, Zenon DEF ConcludesAsAssumed
<1> QED BY <1>1, <1>4, <1>16, <1>17 DEF SegmentsInv

LEMMA StutterKeeps == ASSUME SegmentsInv, UNCHANGED vars PROVE SegmentsInv'
<1>1. /\ held' = held /\ preroll' = preroll /\ spoken' = spoken /\ cursor' = cursor
      /\ gates' = gates /\ segStart' = segStart /\ segs' = segs /\ phase' = phase
      /\ endedAt' = endedAt /\ outcome' = outcome
  BY DEF vars
<1>2. SegmentTypes' BY <1>1 DEF SegmentsInv, SegmentTypes
<1>3. Here' = Here BY <1>1 DEF Here
<1>4. (phase = "recording" => Recording)' BY <1>1, <1>3 DEF SegmentsInv, Recording
<1>5. (phase = "ended" => Ended)' BY <1>1 DEF SegmentsInv, Ended
<1>6. ConcludesAsAssumed' BY <1>1 DEF SegmentsInv, ConcludesAsAssumed
<1> QED BY <1>2, <1>4, <1>5, <1>6 DEF SegmentsInv

LEMMA CapturedKeeps ==
  ASSUME SegmentsInv, NEW w \in BOOLEAN, Captured(w)
  PROVE  SegmentsInv'
<1>1. /\ phase = "recording" /\ Len(spoken) < MaxWindows /\ spoken' = Append(spoken, w)
      /\ held' = held /\ preroll' = preroll /\ cursor' = cursor
      /\ gates' = gates /\ segStart' = segStart /\ segs' = segs /\ phase' = phase
      /\ endedAt' = endedAt /\ outcome' = outcome
  BY DEF Captured
<1>2. SegmentTypes /\ Recording /\ ConcludesAsAssumed BY <1>1 DEF SegmentsInv
<1>3. spoken \in Seq(BOOLEAN) /\ Len(spoken) \in Nat /\ MaxWindows \in Nat
  BY <1>2, Boundaries, Constants DEF SegmentTypes
<1>4. /\ spoken' \in Seq(BOOLEAN) /\ Len(spoken') = Len(spoken) + 1
      /\ \A p \in 1..Len(spoken) : spoken'[p] = spoken[p]
  BY <1>1, <1>3, Appending
<1>5. Len(spoken) <= Len(spoken') /\ Len(spoken') <= MaxWindows BY <1>1, <1>3, <1>4
<1>6. Longer(spoken, spoken') BY <1>4, <1>5 DEF Longer
<1>7. SegmentTypes'
  <2>1. endedAt' \in 0..Len(spoken') BY <1>1, <1>2, <1>3, <1>4 DEF SegmentTypes
  <2> QED BY <1>1, <1>2, <1>4, <1>5, <2>1 DEF SegmentTypes
<1>8. Here' = Here BY <1>1 DEF Here
<1>9. Scan(Here, spoken) BY <1>2 DEF Recording
<1>10. /\ Scan(Here, spoken')
       /\ \A k \in 0..Len(spoken) : HeardTo(Here, spoken, k) => HeardTo(Here, spoken', k)
  BY <1>3, <1>4, <1>6, <1>9, MoreAudio
<1>11. cursor \in 0..Len(spoken)
  <2>1. Here.pos \in Nat /\ Here.pos <= Len(spoken) BY <1>9, ScansType DEF Scan
  <2> QED BY <1>3, <2>1, HereIs
<1>12. Recording' BY <1>1, <1>2, <1>8, <1>10, <1>11 DEF Recording
<1>13. ConcludesAsAssumed' BY <1>1, <1>2 DEF ConcludesAsAssumed
<1> QED BY <1>1, <1>7, <1>12, <1>13 DEF SegmentsInv

\* Where the first word of the silence gate is noted.
LEMMA NotedIs ==
  ASSUME SegmentTypes, NEW r \in Scans, r.pos <= Len(spoken)
  PROVE  /\ Noted(r) \in 0..Len(spoken)
         /\ r.over = FALSE => Noted(r) = endedAt
         /\ endedAt = 0 /\ r.over = TRUE => Noted(r) = r.pos
<1>1. r.pos \in Nat /\ r.over \in BOOLEAN BY ScansType
<1>2. spoken \in Seq(BOOLEAN) /\ endedAt \in 0..Len(spoken) BY DEF SegmentTypes
<1>3. Len(spoken) \in Nat BY <1>2, Boundaries
<1> QED BY <1>1, <1>2, <1>3 DEF Noted

LEMMA TickKeeps ==
  ASSUME SegmentsInv, Tick
  PROVE  SegmentsInv'
<1> DEFINE r == Listen(Here, spoken)
<1>1. phase = "recording" BY DEF Tick
<1>2. SegmentTypes /\ Recording BY <1>1 DEF SegmentsInv
<1>3. /\ spoken \in Seq(BOOLEAN) /\ Len(spoken) \in Nat /\ Len(spoken) <= MaxWindows
  BY <1>2, Boundaries DEF SegmentTypes
<1>4. Scan(Here, spoken) /\ Here \in Scans /\ Resume(Here) = Here
  BY <1>2, HereIs, Resuming DEF Recording, Scan
<1>5. /\ Scan(r, spoken) /\ r \in Scans /\ (r.over = TRUE \/ r.pos = Len(spoken))
      /\ gates.elapsed < SilenceWin =>
           /\ r.over = FALSE => r.gates.elapsed < SilenceWin
           /\ r.over = TRUE => r.gates.elapsed = SilenceWin
  <2>1. LET t == Listen(Here, spoken)
        IN  /\ Scan(t, spoken)
            /\ t.over = TRUE \/ t.pos = Len(spoken)
            /\ Here.gates.elapsed < SilenceWin =>
                 /\ t.over = FALSE => t.gates.elapsed < SilenceWin
                 /\ t.over = TRUE => t.gates.elapsed = SilenceWin
    BY <1>3, <1>4, ListenIs
  <2> HIDE DEF r
  <2>2. Scan(r, spoken) => r \in Scans BY DEF Scan
  <2> QED BY <2>1, <2>2, HereIs DEF r
<1>6. /\ ~r.over \/ held
      /\ cursor' = Len(spoken) /\ gates' = r.gates /\ segStart' = r.start /\ segs' = r.segs
      /\ endedAt' = Noted(r)
      /\ outcome' = [before |-> gates.voiced > 0, after |-> Conclusion(Here, r, spoken)]
      /\ held' = held /\ preroll' = preroll /\ spoken' = spoken /\ phase' = phase
  BY DEF Tick
<1>7. LET c == Conclusion(Here, r, spoken)
      IN  c \in Outcomes(Here.gates.voiced > 0, MaxWindows)
  BY <1>3, <1>4, ConclusionIs
<1>8. held \in BOOLEAN /\ (~held => endedAt = 0 /\ gates.elapsed < SilenceWin)
  BY <1>2 DEF SegmentTypes, Recording
<1>9. ~held /\ PausesApart => HeardTo(r, spoken, r.pos)
  <2>1. SUFFICES ASSUME ~held, PausesApart PROVE HeardTo(r, spoken, r.pos) OBVIOUS
  <2>2. HeardTo(Here, spoken, cursor) /\ gates.elapsed < SilenceWin BY <1>2, <2>1 DEF Recording
  <2>3. HeardTo(Resume(Here), spoken, Here.pos) /\ Here.gates.elapsed < SilenceWin
    BY <1>4, <2>2, HereIs
  <2> QED BY <1>3, <1>4, <2>1, <2>3, ListenHears
<1> HIDE DEF r
<1>10. r.over \in BOOLEAN /\ r.pos \in Nat /\ r.pos <= Len(spoken) BY <1>5, ScansType DEF Scan
<1> DEFINE t == Here'
<1>11. /\ t.pos = Len(spoken) /\ t.over = FALSE /\ t.gates = r.gates /\ t.start = r.start
       /\ t.segs = r.segs /\ t \in Scans
  <2>1. t = [pos |-> Len(spoken), gates |-> r.gates, start |-> r.start, segs |-> r.segs,
             over |-> FALSE]
    BY <1>6 DEF Here
  <2>2. r.gates \in Gates /\ r.start \in Nat /\ r.segs \in Seq(Pieces) BY <1>5, ScansType
  <2> HIDE DEF t
  <2> QED BY <1>3, <2>1, <2>2 DEF Scans
<1> HIDE DEF t
<1>12. /\ Scan(t, spoken)
       /\ \A k \in Nat : HeardTo(r, spoken, k) => HeardTo(t, spoken, k)
  BY <1>3, <1>5, <1>11, CursorMoves
<1>13. ASSUME ~held
       PROVE  /\ endedAt' = 0 /\ r.gates.elapsed < SilenceWin
              /\ PausesApart => HeardTo(t, spoken, Len(spoken))
  <2>1. r.over = FALSE BY <1>6, <1>10, <1>13
  <2>2. r.pos = Len(spoken) BY <1>5, <2>1
  <2>3. endedAt' = 0 BY <1>2, <1>5, <1>6, <1>8, <1>10, <1>13, <2>1, NotedIs
  <2>4. r.gates.elapsed < SilenceWin BY <1>5, <1>8, <1>13, <2>1
  <2>5. PausesApart => HeardTo(t, spoken, Len(spoken)) BY <1>9, <1>10, <1>12, <1>13, <2>2
  <2> QED BY <2>3, <2>4, <2>5
<1>14. Recording' BY <1>6, <1>12, <1>13 DEF Recording, t
<1>15. SegmentTypes'
  <2>1. endedAt' \in 0..Len(spoken) BY <1>2, <1>5, <1>6, <1>10, NotedIs
  <2> QED BY <1>2, <1>6, <2>1 DEF SegmentTypes
<1>16. ConcludesAsAssumed'
  <2>1. outcome'.before = (gates.voiced > 0) /\ outcome'.after = Conclusion(Here, r, spoken)
    BY <1>6
  <2>2. PICK c : c = Conclusion(Here, r, spoken) OBVIOUS
  <2>3. c \in Outcomes(gates.voiced > 0, MaxWindows) BY <1>7, <2>2, HereIs, Zenon
  <2> QED BY <2>1, <2>2, <2>3, Zenon DEF ConcludesAsAssumed
<1>17. phase' = "recording" BY <1>1, <1>6
<1> QED BY <1>14, <1>15, <1>16, <1>17 DEF SegmentsInv

\* What finish_recording leaves.
LEMMA FinishKeeps ==
  ASSUME SegmentTypes', NEW s \in Scans, NEW a, a = spoken', Scan(Resume(s), a), Finish(s, a),
         ~held' /\ PausesApart =>
           \E k \in Nat : /\ HeardTo(Listen(s, a), a, k)
                          /\ k = IF endedAt' = 0 THEN Len(a) ELSE endedAt'
  PROVE  SegmentsInv'
<1> DEFINE r == Listen(s, a)
           t == CutAt(r, TailEnd(a), r.gates.voiced > 0)
<1>1. /\ cursor' = Len(a) /\ gates' = t.gates /\ segStart' = t.start /\ segs' = t.segs
      /\ phase' = "ended"
      /\ outcome' = [before |-> s.gates.voiced > 0, after |-> Conclusion(s, r, a)]
  BY DEF Finish
<1>2. a \in Seq(BOOLEAN) /\ Len(a) <= MaxWindows BY DEF SegmentTypes
<1>3. /\ t.gates \in Gates /\ t.start = 2 * Len(a) /\ Whole(t.segs, a)
      /\ \A k \in Nat : HeardTo(r, a, k) => SentTo(t.segs, a, k)
  BY <1>2, TailIs
<1>4. LET c == Conclusion(s, r, a)
      IN  c \in Outcomes(s.gates.voiced > 0, MaxWindows)
  BY <1>2, ConclusionIs
<1> HIDE DEF r, t
<1>5. ~held' /\ PausesApart => SentTo(t.segs, a, IF endedAt' = 0 THEN Len(a) ELSE endedAt')
  <2>1. SUFFICES ASSUME ~held', PausesApart
                 PROVE  SentTo(t.segs, a, IF endedAt' = 0 THEN Len(a) ELSE endedAt')
    OBVIOUS
  <2>2. PICK k \in Nat : HeardTo(r, a, k) /\ k = IF endedAt' = 0 THEN Len(a) ELSE endedAt'
    BY <2>1 DEF r
  <2>3. SentTo(t.segs, a, k) BY <1>3, <2>2
  <2> QED BY <2>2, <2>3
<1>6. Ended' BY <1>1, <1>3, <1>5 DEF Ended
<1>7. ConcludesAsAssumed'
  <2>1. outcome'.before = (s.gates.voiced > 0) /\ outcome'.after = Conclusion(s, r, a) BY <1>1
  <2>2. PICK c : c = Conclusion(s, r, a) OBVIOUS
  <2>3. c \in Outcomes(s.gates.voiced > 0, MaxWindows) BY <1>4, <2>2
  <2> QED BY <2>1, <2>2, <2>3, Zenon DEF ConcludesAsAssumed
<1> QED BY <1>1, <1>6, <1>7 DEF SegmentsInv

LEMMA ReleaseKeeps ==
  ASSUME SegmentsInv, Release
  PROVE  SegmentsInv'
<1> DEFINE r == Listen(Here, spoken)
<1>1. /\ phase = "recording" /\ Finish(Here, spoken) /\ endedAt' = Noted(r)
      /\ held' = held /\ preroll' = preroll /\ spoken' = spoken
  BY DEF Release
<1>2. SegmentTypes /\ Recording BY <1>1 DEF SegmentsInv
<1>3. /\ spoken \in Seq(BOOLEAN) /\ Len(spoken) \in Nat /\ Len(spoken) <= MaxWindows
  BY <1>2, Boundaries DEF SegmentTypes
<1>4. Scan(Here, spoken) /\ Here \in Scans /\ Resume(Here) = Here
  BY <1>2, HereIs, Resuming DEF Recording, Scan
<1>5. /\ Scan(r, spoken) /\ Since(Here, r) /\ (r.over = TRUE \/ r.pos = Len(spoken))
  <2>1. LET t == Listen(Here, spoken)
        IN  Scan(t, spoken) /\ Since(Resume(Here), t) /\ (t.over = TRUE \/ t.pos = Len(spoken))
    BY <1>3, <1>4, ListenIs
  <2> QED BY <1>4, <2>1
<1>6. ~held /\ PausesApart => HeardTo(r, spoken, r.pos)
  <2>1. SUFFICES ASSUME ~held, PausesApart PROVE HeardTo(r, spoken, r.pos) OBVIOUS
  <2>2. HeardTo(Here, spoken, cursor) /\ gates.elapsed < SilenceWin BY <1>2, <2>1 DEF Recording
  <2>3. HeardTo(Resume(Here), spoken, Here.pos) /\ Here.gates.elapsed < SilenceWin
    BY <1>4, <2>2, HereIs
  <2> QED BY <1>3, <1>4, <2>1, <2>3, ListenHears
<1> HIDE DEF r
<1>7. r \in Scans /\ r.over \in BOOLEAN /\ r.pos \in Nat /\ r.pos <= Len(spoken)
  BY <1>5, ScansType DEF Scan
<1>8. r.over = TRUE => r.pos # 0
  <2>1. r.pos = Here.pos => r.over = FALSE BY <1>5, HereIs DEF Since
  <2>2. Here.pos <= r.pos /\ Here.pos \in Nat BY <1>4, <1>5, ScansType DEF Since
  <2> QED BY <1>7, <2>1, <2>2
<1>9. /\ Noted(r) \in 0..Len(spoken)
      /\ r.over = FALSE => Noted(r) = endedAt
      /\ endedAt = 0 /\ r.over = TRUE => Noted(r) = r.pos
  BY <1>2, <1>7, NotedIs
<1>10. phase' = "ended" BY <1>1 DEF Finish
<1>11. SegmentTypes'
  <2>1. endedAt' \in 0..Len(spoken) BY <1>1, <1>9
  <2> QED BY <1>1, <1>2, <1>10, <2>1 DEF SegmentTypes
<1>12. ASSUME ~held, PausesApart
       PROVE  \E k \in Nat : /\ HeardTo(r, spoken, k)
                             /\ k = IF endedAt' = 0 THEN Len(spoken) ELSE endedAt'
  <2>1. endedAt = 0 BY <1>2, <1>12 DEF Recording
  <2>2. HeardTo(r, spoken, r.pos) BY <1>6, <1>12
  <2>3. CASE r.over = TRUE BY <1>1, <1>7, <1>8, <1>9, <2>1, <2>2, <2>3
  <2>4. CASE r.over = FALSE
    <3>1. r.pos = Len(spoken) /\ endedAt' = 0 BY <1>1, <1>5, <1>9, <2>1, <2>4
    <3> QED BY <1>7, <2>2, <3>1
  <2> QED BY <1>7, <2>3, <2>4
<1>13. spoken = spoken' /\ Scan(Resume(Here), spoken) /\ Finish(Here, spoken)
  BY <1>1, <1>4
<1>14. ~held' /\ PausesApart =>
         \E k \in Nat : /\ HeardTo(Listen(Here, spoken), spoken, k)
                        /\ k = IF endedAt' = 0 THEN Len(spoken) ELSE endedAt'
  BY <1>1, <1>12 DEF r
<1> QED BY <1>4, <1>11, <1>13, <1>14, FinishKeeps

LEMMA SilenceEndsKeeps ==
  ASSUME SegmentsInv, SilenceEnds
  PROVE  SegmentsInv'
<1> DEFINE r == Listen(Here, spoken)
<1>1. PICK more \in {<<>>, <<FALSE>>, <<TRUE>>} :
        /\ r.over /\ Len(spoken) + Len(more) <= MaxWindows
        /\ spoken' = spoken \o more /\ endedAt' = Noted(r)
        /\ Finish([r EXCEPT !.pos = Len(spoken)], spoken')
  BY DEF SilenceEnds
<1>2. phase = "recording" /\ ~held /\ held' = held /\ preroll' = preroll BY DEF SilenceEnds
<1>3. SegmentTypes /\ Recording BY <1>2 DEF SegmentsInv
<1>4. /\ spoken \in Seq(BOOLEAN) /\ Len(spoken) \in Nat /\ Len(spoken) <= MaxWindows
  BY <1>3, Boundaries DEF SegmentTypes
<1>5. /\ Scan(Here, spoken) /\ Here \in Scans /\ Resume(Here) = Here
      /\ endedAt = 0 /\ gates.elapsed < SilenceWin
      /\ PausesApart => HeardTo(Here, spoken, cursor)
  BY <1>2, <1>3, HereIs, Resuming DEF Recording, Scan
<1>6. /\ Scan(r, spoken) /\ Since(Here, r)
      /\ r.over = TRUE => r.gates.elapsed = SilenceWin
  <2>1. LET t == Listen(Here, spoken)
        IN  /\ Scan(t, spoken) /\ Since(Resume(Here), t)
            /\ Here.gates.elapsed < SilenceWin => (t.over = TRUE => t.gates.elapsed = SilenceWin)
    BY <1>4, <1>5, ListenIs
  <2> QED BY <1>5, <2>1, HereIs
<1>7. PausesApart => HeardTo(r, spoken, r.pos)
  <2>1. SUFFICES ASSUME PausesApart PROVE HeardTo(r, spoken, r.pos) OBVIOUS
  <2>2. HeardTo(Resume(Here), spoken, Here.pos) /\ Here.gates.elapsed < SilenceWin
    BY <1>5, <2>1, HereIs
  <2> QED BY <1>4, <1>5, <2>1, <2>2, ListenHears
<1> HIDE DEF r
<1>8. /\ r \in Scans /\ r.over \in BOOLEAN /\ r.pos \in Nat /\ r.pos <= Len(spoken)
      /\ r.over = TRUE
  BY <1>1, <1>6, ScansType DEF Scan
<1>9. r.pos # 0
  <2>1. r.pos = Here.pos => r.over = FALSE BY <1>6, HereIs DEF Since
  <2>2. Here.pos <= r.pos /\ Here.pos \in Nat BY <1>5, <1>6, ScansType DEF Since
  <2> QED BY <1>8, <2>1, <2>2
<1>10. endedAt' = r.pos BY <1>1, <1>3, <1>5, <1>8, NotedIs
<1>11. PICK a : a = spoken' OBVIOUS
<1>12. /\ a \in Seq(BOOLEAN) /\ Len(a) <= MaxWindows /\ Longer(spoken, a) /\ Len(spoken) <= Len(a)
  <2>1. more \in Seq(BOOLEAN)
    <3>1. <<>> \in Seq(BOOLEAN) BY EmptySeq
    <3>2. <<FALSE>> \in Seq(BOOLEAN) /\ <<TRUE>> \in Seq(BOOLEAN) OBVIOUS
    <3> QED BY <1>1, <3>1, <3>2
  <2>2. /\ spoken \o more \in Seq(BOOLEAN) /\ Len(spoken \o more) = Len(spoken) + Len(more)
        /\ \A p \in 1..Len(spoken) : (spoken \o more)[p] = spoken[p]
    <3>1. /\ spoken \o more \in Seq(BOOLEAN) /\ Len(spoken \o more) = Len(spoken) + Len(more)
          /\ \A p \in 1..Len(spoken) + Len(more) :
               (spoken \o more)[p] = IF p <= Len(spoken) THEN spoken[p] ELSE more[p - Len(spoken)]
      BY <1>4, <2>1, ConcatProperties
    <3>2. Len(more) \in Nat BY <2>1, Boundaries
    <3>3. \A p \in 1..Len(spoken) : p \in 1..Len(spoken) + Len(more) /\ p <= Len(spoken)
      BY <1>4, <3>2
    <3> QED BY <3>1, <3>3
  <2>3. Len(more) \in Nat BY <2>1, Boundaries
  <2>4. Len(spoken) <= Len(spoken) + Len(more) BY <1>4, <2>3
  <2> QED BY <1>1, <1>11, <2>2, <2>4 DEF Longer
<1> DEFINE s == [r EXCEPT !.pos = Len(spoken)]
<1>13. /\ s \in Scans /\ s.pos = Len(spoken) /\ s.gates = r.gates /\ s.start = r.start
       /\ s.segs = r.segs
  <2>1. r \in [pos : Nat, gates : Gates, start : Nat, segs : Seq(Pieces), over : BOOLEAN]
    BY <1>8 DEF Scans
  <2>2. /\ s \in [pos : Nat, gates : Gates, start : Nat, segs : Seq(Pieces), over : BOOLEAN]
        /\ s.pos = Len(spoken) /\ s.gates = r.gates /\ s.start = r.start /\ s.segs = r.segs
    BY <1>4, <2>1
  <2> HIDE DEF s
  <2> QED BY <2>2 DEF Scans
<1>14. Finish(s, a) BY <1>1, <1>11
<1> HIDE DEF s
<1> DEFINE t == Resume(s)
<1>15. /\ t \in Scans /\ t.pos = Len(spoken) /\ t.over = FALSE /\ t.gates = r.gates
       /\ t.start = r.start /\ t.segs = r.segs
  BY <1>13, ResumeIs
<1> HIDE DEF t
<1>16. /\ Scan(t, spoken)
       /\ \A k \in Nat : HeardTo(r, spoken, k) => HeardTo(t, spoken, k)
  BY <1>4, <1>6, <1>8, <1>15, CursorMoves
<1>17. /\ Scan(t, a)
       /\ \A k \in 0..Len(spoken) : HeardTo(t, spoken, k) => HeardTo(t, a, k)
  BY <1>4, <1>12, <1>16, MoreAudio
<1>18. PausesApart => HeardTo(Listen(s, a), a, r.pos)
  <2>1. SUFFICES ASSUME PausesApart PROVE HeardTo(Listen(s, a), a, r.pos) OBVIOUS
  <2>2. r.pos \in 0..Len(spoken) BY <1>4, <1>8
  <2>3. HeardTo(t, a, r.pos) BY <1>7, <1>8, <1>16, <1>17, <2>1, <2>2
  <2>4. s.gates.elapsed <= SilenceWin BY <1>6, <1>8, <1>13, Constants
  <2>5. r.pos <= s.pos BY <1>8, <1>13
  <2>6. Scan(Resume(s), a) /\ HeardTo(Resume(s), a, r.pos) BY <1>17, <2>3 DEF t
  <2> QED BY <1>8, <1>12, <1>13, <2>1, <2>4, <2>5, <2>6, ListenKeeps
<1>19. phase' = "ended" BY <1>14 DEF Finish
<1>20. SegmentTypes'
  <2>1. Len(a) \in Nat BY <1>12, Boundaries
  <2>2. endedAt' \in 0..Len(a) BY <1>4, <1>8, <1>10, <1>12, <2>1
  <2> QED BY <1>2, <1>3, <1>11, <1>12, <1>19, <2>2 DEF SegmentTypes
<1>21. ~held' /\ PausesApart =>
         \E k \in Nat : /\ HeardTo(Listen(s, a), a, k)
                        /\ k = IF endedAt' = 0 THEN Len(a) ELSE endedAt'
  BY <1>8, <1>9, <1>10, <1>18
<1>22. Scan(Resume(s), a) BY <1>17 DEF t
<1> QED BY <1>11, <1>13, <1>14, <1>20, <1>21, <1>22, FinishKeeps

LEMMA NextKeeps ==
  ASSUME SegmentsInv, [Next]_vars
  PROVE  SegmentsInv'
<1>1. ASSUME NEW w \in BOOLEAN, Captured(w) PROVE SegmentsInv' BY <1>1, CapturedKeeps
<1>2. CASE Tick BY <1>2, TickKeeps
<1>3. CASE SilenceEnds BY <1>3, SilenceEndsKeeps
<1>4. CASE Release BY <1>4, ReleaseKeeps
<1>5. CASE UNCHANGED vars BY <1>5, StutterKeeps
<1> QED BY <1>1, <1>2, <1>3, <1>4, <1>5 DEF Next

\* The gates, the cuts and the segments fit what was spoken, through every call
\* of listen and to the end of finish_recording (engine.rs, vad.rs).
THEOREM Invariant == Spec => []SegmentsInv
<1>1. Init => SegmentsInv BY InitKeeps
<1>2. SegmentsInv /\ [Next]_vars => SegmentsInv' BY NextKeeps
<1> QED BY <1>1, <1>2, PTL DEF Spec

-----------------------------------------------------------------------------
(* What follows from it *)

\* Segments that are not the last are cut between words, all of them follow on
\* each other and hold speech where they say so.
LEMMA SegmentsAre ==
  ASSUME SegmentsInv
  PROVE  /\ spoken \in Seq(BOOLEAN) /\ segs \in Seq(Pieces) /\ Chained(segs)
         /\ \A i \in DOMAIN segs : /\ segs[i].to \in Nat
                                   /\ segs[i].speech => Voices(spoken, segs[i].from, segs[i].to)
         /\ \A i \in DOMAIN segs : phase = "recording" \/ i < Len(segs) => CleanAt(segs[i].to, spoken)
<1>1. spoken \in Seq(BOOLEAN) /\ phase \in {"recording", "ended"} BY DEF SegmentsInv, SegmentTypes
<1>2. CASE phase = "recording"
  <2>1. /\ Here \in Scans /\ Clean(Here, spoken) /\ Linked(Here) /\ Voiced(Here, spoken)
    BY <1>2 DEF SegmentsInv, Recording, Scan
  <2>2. segs \in Seq(Pieces) /\ \A i \in DOMAIN segs : segs[i].to \in Nat BY <2>1, ScansType, HereIs
  <2>3. Chained(segs) BY <2>1, HereIs DEF Linked
  <2>4. \A i \in DOMAIN segs : CleanAt(segs[i].to, spoken) BY <2>1, HereIs DEF Clean
  <2>5. \A i \in DOMAIN segs : segs[i].speech => Voices(spoken, segs[i].from, segs[i].to)
    BY <2>1, HereIs DEF Voiced
  <2> QED BY <1>1, <2>2, <2>3, <2>4, <2>5
<1>3. CASE phase = "ended"
  <2>1. Whole(segs, spoken) BY <1>3 DEF SegmentsInv, Ended
  <2>2. segs \in Seq(Pieces) /\ Chained(segs) BY <2>1 DEF Whole
  <2>3. Len(segs) \in Nat /\ DOMAIN segs = 1..Len(segs) /\ \A i \in 1..Len(segs) : segs[i] \in Pieces
    BY <2>2, Boundaries
  <2>4. \A i \in DOMAIN segs : segs[i].to \in Nat BY <2>3 DEF Pieces
  <2>5. \A i \in DOMAIN segs : segs[i].speech => Voices(spoken, segs[i].from, segs[i].to)
    BY <2>1, <2>3 DEF Whole
  <2>6. ASSUME NEW i \in DOMAIN segs, i < Len(segs) PROVE CleanAt(segs[i].to, spoken)
    <3>1. i \in 1..Len(segs) - 1 BY <2>3, <2>6
    <3> QED BY <2>1, <3>1 DEF Whole
  <2> QED BY <1>1, <1>3, <2>2, <2>4, <2>5, <2>6
<1> QED BY <1>1, <1>2, <1>3

LEMMA TypesFollow == ASSUME SegmentsInv PROVE TypeOK
<1>1. SegmentTypes /\ phase \in {"recording", "ended"} BY DEF SegmentsInv, SegmentTypes
<1>2. Len(spoken) \in Nat BY <1>1, Boundaries DEF SegmentTypes
<1>3. segs \in Seq([from: Nat, to: Nat, speech: BOOLEAN]) BY SegmentsAre DEF Pieces
<1>4. cursor \in 0..Len(spoken) /\ segStart \in 0..2 * cursor /\ gates \in Gates
  <2>1. CASE phase = "recording"
    <3>1. Here \in Scans /\ Here.pos <= Len(spoken) /\ Counters(Here)
      BY <2>1 DEF SegmentsInv, Recording, Scan
    <3>2. cursor \in Nat /\ segStart \in Nat /\ gates \in Gates /\ cursor <= Len(spoken)
      BY <3>1, ScansType, HereIs
    <3>3. gates.quiet \in Nat /\ segStart <= 2 * (cursor - gates.quiet)
      BY <3>1, ScansType, HereIs DEF Counters
    <3>4. segStart <= 2 * cursor
      <4>1. \A b, p, q \in Nat : b <= 2 * (p - q) => b <= 2 * p OBVIOUS
      <4> QED BY <3>2, <3>3, <4>1
    <3> QED BY <1>2, <3>2, <3>4
  <2>2. CASE phase = "ended"
    <3>1. cursor = Len(spoken) /\ segStart = 2 * Len(spoken) /\ gates \in Gates
      BY <2>2 DEF SegmentsInv, Ended
    <3> QED BY <1>2, <3>1
  <2> QED BY <1>1, <2>1, <2>2
<1>5. gates \in [last: BOOLEAN, speech: BOOLEAN, elapsed: Nat, quiet: Nat, voiced: Nat]
  BY <1>4 DEF Gates
<1> QED BY <1>1, <1>3, <1>4, <1>5 DEF TypeOK, SegmentTypes

LEMMA WordIs ==
  ASSUME spoken \in Seq(BOOLEAN), NEW word \in Words
  PROVE  /\ word[1] \in Nat \ {0} /\ word[2] \in Nat \ {0}
         /\ word[1] < word[2] /\ word[2] <= Len(spoken)
         /\ \A p \in word[1] + 1..word[2] : p \in 2..Len(spoken) /\ Pair(spoken, p)
<1>1. /\ word \in (1..Len(spoken)) \X (1..Len(spoken)) /\ word[1] < word[2]
      /\ \A w \in word[1]..word[2] : spoken[w]
  BY DEF Words
<1>2. Len(spoken) \in Nat BY Boundaries
<1>3. word[1] \in 1..Len(spoken) /\ word[2] \in 1..Len(spoken) BY <1>1
<1>4. \A p \in word[1] + 1..word[2] : /\ p \in word[1]..word[2] /\ p - 1 \in word[1]..word[2]
                                      /\ p \in 2..Len(spoken)
  BY <1>2, <1>3
<1> QED BY <1>1, <1>2, <1>3, <1>4 DEF Pair

LEMMA Beside ==
  ASSUME NEW b \in Nat, NEW e \in Nat, NEW x \in Nat, b < e, ~(2 * (b - 1) < x /\ x < 2 * e)
  PROVE  /\ x <= 2 * ((b + 1) - 1) => x <= 2 * (b - 1)
         /\ 2 * (b + 1) <= x => 2 * e <= x
  OBVIOUS

\* Every place inside a word is in the middle of two spoken windows.
LEMMA CutsAreOutside ==
  ASSUME spoken \in Seq(BOOLEAN), NEW x \in Nat, CleanAt(x, spoken), NEW word \in Words
  PROVE  ~(2 * (word[1] - 1) < x /\ x < 2 * word[2])
<1>1. PICK b, e \in Nat : b = word[1] /\ e = word[2] /\ b < e BY WordIs
<1>2. \A p \in b + 1..e : ~(2 * (p - 2) < x /\ x < 2 * p) BY <1>1, WordIs DEF CleanAt
<1>3. SUFFICES ASSUME 2 * (b - 1) < x, x < 2 * e PROVE FALSE BY <1>1
<1>4. CASE x < 2 * (b + 1)
  <2>1. b + 1 \in b + 1..e /\ (b + 1) - 2 = b - 1 BY <1>1
  <2> QED BY <1>2, <1>3, <1>4, <2>1
<1>5. CASE ~(x < 2 * (b + 1))
  <2>1. PICK k \in Nat : x = 2 * k \/ x = 2 * k + 1
    <3>1. x \div 2 \in Nat /\ (x = 2 * (x \div 2) \/ x = 2 * (x \div 2) + 1) OBVIOUS
    <3> QED BY <3>1
  <2>2. k + 1 \in b + 1..e BY <1>3, <1>5, <2>1
  <2>3. 2 * ((k + 1) - 2) < x /\ x < 2 * (k + 1) BY <2>1
  <2> QED BY <1>2, <2>2, <2>3
<1> QED BY <1>4, <1>5

LEMMA SplitsFollow == ASSUME SegmentsInv PROVE NoWordSplit
<1>1. ASSUME NEW i \in DOMAIN segs, NEW word \in Words, phase = "recording" \/ i < Len(segs)
      PROVE  ~(2 * (word[1] - 1) < segs[i].to /\ segs[i].to < 2 * word[2])
  <2>1. /\ spoken \in Seq(BOOLEAN) /\ segs[i].to \in Nat /\ CleanAt(segs[i].to, spoken)
    BY <1>1, SegmentsAre
  <2> QED BY <2>1, CutsAreOutside
<1> QED BY <1>1 DEF NoWordSplit

LEMMA NoiseFollows == ASSUME SegmentsInv PROVE NoNoiseDecoded
  BY SegmentsAre DEF NoNoiseDecoded, Voices

LEMMA WordsFollow == ASSUME SegmentsInv, PausesApart PROVE WordsAreDecoded
<1>1. SUFFICES ASSUME phase = "ended", ~held, NEW word \in Words,
                      endedAt = 0 \/ word[2] <= endedAt, NEW w \in word[1]..word[2]
               PROVE  Decoded(w)
  BY DEF WordsAreDecoded
<1>2. /\ spoken \in Seq(BOOLEAN) /\ segs \in Seq(Pieces) /\ Chained(segs)
      /\ \A i \in DOMAIN segs : segs[i].to \in Nat
      /\ \A i \in DOMAIN segs : i < Len(segs) => CleanAt(segs[i].to, spoken)
  BY SegmentsAre
<1>3. /\ Len(spoken) \in Nat /\ Len(segs) \in Nat /\ DOMAIN segs = 1..Len(segs)
      /\ endedAt \in 0..Len(spoken)
  BY <1>2, Boundaries DEF SegmentsInv, SegmentTypes
<1>4. /\ segs[Len(segs)].to = 2 * Len(spoken)
      /\ SentTo(segs, spoken, IF endedAt = 0 THEN Len(spoken) ELSE endedAt)
  BY <1>1 DEF SegmentsInv, Ended, Whole
<1>5. PICK b, e \in Nat : /\ b = word[1] /\ e = word[2] /\ b # 0 /\ b < e /\ e <= Len(spoken)
                          /\ b + 1 \in 2..Len(spoken) /\ Pair(spoken, b + 1)
  <2>1. /\ word[1] \in Nat \ {0} /\ word[2] \in Nat \ {0}
        /\ word[1] < word[2] /\ word[2] <= Len(spoken)
        /\ \A p \in word[1] + 1..word[2] : p \in 2..Len(spoken) /\ Pair(spoken, p)
    BY <1>2, WordIs
  <2>2. word[1] + 1 \in word[1] + 1..word[2] BY <2>1
  <2> QED BY <2>1, <2>2
<1>0. b < e /\ b \in Nat /\ e \in Nat BY <1>5
<1>6. Sent(segs, b + 1)
  <2>1. PICK k \in Nat : k = IF endedAt = 0 THEN Len(spoken) ELSE endedAt BY <1>3
  <2>2. b + 1 \in 2..k BY <1>1, <1>5, <2>1
  <2> QED BY <1>4, <1>5, <2>1, <2>2 DEF SentTo
<1>7. PICK i \in 1..Len(segs) : /\ segs[i].speech /\ segs[i].from <= 2 * ((b + 1) - 1)
                                /\ 2 * (b + 1) <= segs[i].to
  BY <1>3, <1>6 DEF Sent
<1>8. \A x \in Nat : CleanAt(x, spoken) => ~(2 * (b - 1) < x /\ x < 2 * e)
  BY <1>2, <1>5, CutsAreOutside
<1>9. segs[i].from \in Nat /\ segs[i].from <= 2 * (b - 1)
  <2>1. segs[i].from = IF i = 1 THEN 0 ELSE segs[i - 1].to BY <1>2, <1>3 DEF Chained
  <2>2. CASE i = 1 BY <1>5, <2>1, <2>2
  <2>3. CASE i # 1
    <3>1. i - 1 \in DOMAIN segs /\ i - 1 < Len(segs) BY <1>3, <2>3
    <3>2. segs[i - 1].to \in Nat /\ CleanAt(segs[i - 1].to, spoken) BY <1>2, <3>1
    <3>3. PICK x \in Nat : x = segs[i].from /\ CleanAt(x, spoken) BY <2>1, <2>3, <3>2
    <3>4. x <= 2 * ((b + 1) - 1) /\ ~(2 * (b - 1) < x /\ x < 2 * e) BY <1>7, <1>8, <3>3
    <3>5. x <= 2 * (b - 1) BY <1>0, <3>4, Beside
    <3> QED BY <3>3, <3>5
  <2> QED BY <2>2, <2>3
<1>10. 2 * e <= segs[i].to
  <2>1. CASE i = Len(segs)
    <3>1. segs[i].to = 2 * Len(spoken) BY <1>4, <2>1
    <3>2. e <= Len(spoken) BY <1>5
    <3>3. PICK m \in Nat : m = Len(spoken) BY <1>3
    <3>4. 2 * e <= 2 * m BY <1>0, <3>2, <3>3
    <3> QED BY <3>1, <3>3, <3>4
  <2>2. CASE i # Len(segs)
    <3>1. PICK m \in Nat : m = Len(segs) BY <1>3
    <3>2. i \in 1..m /\ i # m BY <1>7, <2>2, <3>1
    <3>3. i < m BY <3>2
    <3>4. i \in DOMAIN segs /\ i < Len(segs) BY <1>3, <1>7, <3>1, <3>3
    <3>5. PICK x \in Nat : x = segs[i].to /\ CleanAt(x, spoken) BY <1>2, <3>4
    <3>6. 2 * (b + 1) <= x /\ ~(2 * (b - 1) < x /\ x < 2 * e) BY <1>7, <1>8, <3>5
    <3>7. 2 * e <= x BY <1>0, <3>6, Beside
    <3>8. x = segs[i].to BY <3>5
    <3> QED BY ZenonT(60), <3>7, <3>8
  <2> QED BY <2>1, <2>2
<1>11. w \in Nat /\ b <= w /\ w <= e BY <1>1, <1>5
<1>12. segs[i].to \in Nat /\ i \in DOMAIN segs BY <1>2, <1>3
<1>13. segs[i].from <= 2 * (w - 1) /\ 2 * w <= segs[i].to
  <2>1. PICK x, y \in Nat : x = segs[i].from /\ y = segs[i].to BY <1>9, <1>12
  <2>2. x <= 2 * (b - 1) /\ 2 * e <= y BY <1>9, <1>10, <2>1
  <2>3. x <= 2 * (w - 1) /\ 2 * w <= y BY <1>0, <1>11, <2>2
  <2> QED BY <2>1, <2>3
<1> QED BY <1>7, <1>12, <1>13 DEF Decoded

\* Every variable keeps its type, whatever is said and whenever listen is
\* called: no cut is ahead of the cursor.
THEOREM TypeCorrect == Spec => []TypeOK
<1>1. Spec => []SegmentsInv BY Invariant
<1>2. SegmentsInv => TypeOK BY TypesFollow
<1> QED BY <1>1, <1>2, PTL

\* No cut of the segment gate is inside a word (vad.rs, SegmentGate::push and
\* engine.rs, cut_segment).
THEOREM WordsAreWhole == Spec => []NoWordSplit
<1>1. Spec => []SegmentsInv BY Invariant
<1>2. SegmentsInv => NoWordSplit BY SplitsFollow
<1> QED BY <1>1, <1>2, PTL

\* What was said before silence ended the utterance is decoded, if the pause
\* that cuts is neither as long as the silence that ends nor a window longer.
THEOREM WordsArrive == ASSUME PausesApart PROVE Spec => []WordsAreDecoded
<1>1. Spec => []SegmentsInv BY Invariant
<1>2. SegmentsInv => WordsAreDecoded BY WordsFollow
<1> QED BY <1>1, <1>2, PTL

\* No segment is decoded that nobody speaks in (engine.rs, cut_segment's speech).
THEOREM NoiseStaysOut == Spec => []NoNoiseDecoded
<1>1. Spec => []SegmentsInv BY Invariant
<1>2. SegmentsInv => NoNoiseDecoded BY NoiseFollows
<1> QED BY <1>1, <1>2, PTL

\* A call of listen concludes what module Engine reckons with, and nothing else.
THEOREM EngineIsRight == Spec => []ConcludesAsAssumed
<1>1. Spec => []SegmentsInv BY Invariant
<1>2. SegmentsInv => ConcludesAsAssumed BY DEF SegmentsInv
<1> QED BY <1>1, <1>2, PTL

=============================================================================
