----------------------------- MODULE InputProofs ------------------------------
(***************************************************************************)
(* What is proved of Field and Typing as Periphery composes them: what the *)
(* frontend knows of the field it serves, what a deletion takes from it,   *)
(* and what an application without a field is typed.                       *)
(***************************************************************************)
EXTENDS Periphery, SequenceTheorems, FiniteSetTheorems, WellFoundedInduction, TLAPS

-----------------------------------------------------------------------------
(* Numbers, and parts of sequences *)

\* The naturals are well ordered.
LEMMA LeastOf ==
  ASSUME NEW S \in SUBSET Nat, S # {}
  PROVE  \E n \in S : \A m \in S : n <= m
<1> DEFINE lt == OpToRel(<, Nat)
<1>1. IsWellFoundedOn(lt, Nat) BY NatLessThanWellFounded
<1>2. \A i, j \in Nat : <<i, j>> \in lt <=> i < j BY DEF OpToRel
<1> HIDE DEF lt
<1>3. PICK n \in S : \A m \in S : ~(<<m, n>> \in lt) BY <1>1, WFMin
<1>4. ASSUME NEW m \in S PROVE n <= m
  <2>1. n \in Nat /\ m \in Nat /\ ~(m < n) BY <1>2, <1>3
  <2> QED BY <2>1
<1> QED BY <1>3, <1>4

\* A bounded set of them has a greatest.
LEMMA GreatestOf ==
  ASSUME NEW n \in Nat, NEW S \in SUBSET (0..n), S # {}
  PROVE  \E m \in S : \A k \in S : k <= m
<1> DEFINE D == {n - k : k \in S}
<1>1. D \in SUBSET Nat /\ D # {}
  <2>1. \A k \in S : k \in Nat /\ n - k \in Nat BY SMT
  <2> QED BY <2>1
<1>2. PICK d \in D : \A c \in D : d <= c BY <1>1, LeastOf
<1>3. PICK m \in S : d = n - m BY <1>2
<1>4. ASSUME NEW k \in S PROVE k <= m
  <2>1. n - k \in D OBVIOUS
  <2>2. n - m <= n - k BY <1>2, <1>3, <2>1
  <2> QED BY <2>2
<1> QED BY <1>4

\* A sequence from its m-th element on, or up to its n-th.
LEMMA PartOf ==
  ASSUME NEW S, NEW s \in Seq(S), NEW m \in Nat \ {0}, NEW n \in 0..Len(s)
  PROVE  /\ SubSeq(s, m, n) \in Seq(S)
         /\ Len(SubSeq(s, m, n)) = IF m <= n THEN n - m + 1 ELSE 0
         /\ \A i \in 1..n - m + 1 : SubSeq(s, m, n)[i] = s[m + i - 1]
<1>1. Len(s) \in Nat /\ s \in [1..Len(s) -> S] BY LenProperties
<1>2. n \in Nat /\ m \in Int /\ n \in Int BY <1>1
<1>3. \A i \in m..n : s[i] \in S BY <1>1, <1>2
<1> QED BY <1>2, <1>3, SubSeqProperties

-----------------------------------------------------------------------------
(* Typing: the inductive invariant *)

TypingChars == {"_"} \cup (UNION {T!Range(text) : text \in Hypotheses \cup Finals})
TypingTexts == Seq(TypingChars)
TypingKeys  == [name : {"key"}, code : Nat]

TypingTypes ==
  /\ speaking \in BOOLEAN /\ inField \in BOOLEAN /\ cut \in BOOLEAN
  /\ hyps \in Seq(TypingTexts) /\ Len(hyps) <= Window
  /\ vkTyped \in TypingTexts /\ landed \in TypingTexts
  /\ job \in [for : {"none", "prefix", "final"}, text : TypingTexts, left : TypingTexts,
              at : {"keymap", "keymapSent", "keysSent"}]
  /\ outcome \in [text : TypingTexts, injected : BOOLEAN, byIm : BOOLEAN]
  /\ DOMAIN keymap \subseteq 1..Room

\* What is left is the end of the text; whose text it is.
JobInv ==
  /\ T!Idle => job = T!NoJob
  /\ ~T!Idle => /\ job.left # <<>> /\ Len(job.left) <= Len(job.text)
                /\ job.left = SubSeq(job.text, Len(job.text) - Len(job.left) + 1, Len(job.text))
  /\ job.for = "prefix" => speaking
  /\ job.for = "final" => ~speaking /\ ~outcome.byIm /\ outcome.text = vkTyped \o job.text
  /\ outcome.injected => ~speaking /\ T!Idle

TheSegment == T!SegmentOf(job.left)
KeyFor(segment, i) == [name |-> "key", code |-> T!CodeOf(segment, segment[i])]

\* What the compositor has still to handle, and what it has installed.
SentInv ==
  /\ cut \/ T!Idle \/ job.at = "keymap" => sent = <<>>
  /\ ~cut /\ ~T!Idle /\ job.at = "keymapSent" =>
       \/ sent = <<[name |-> "keymap", map |-> T!KeymapOf(TheSegment)]>>
       \/ sent = <<>> /\ keymap = T!KeymapOf(TheSegment)
  /\ ~cut /\ ~T!Idle /\ job.at = "keysSent" =>
       /\ keymap = T!KeymapOf(TheSegment)
       /\ sent \in Seq(TypingKeys) /\ Len(sent) <= Len(TheSegment)
       /\ \A i \in 1..Len(sent) : sent[i] = KeyFor(TheSegment, i + (Len(TheSegment) - Len(sent)))

\* How much of the text has reached an application.
Landing == (Len(job.text) - Len(job.left)) +
           (IF job.at = "keysSent" THEN Len(TheSegment) - Len(sent) ELSE 0)

LandedInv ==
  ~cut => /\ speaking \/ ~T!Idle => landed = vkTyped \o SubSeq(job.text, 1, Landing)
          /\ outcome.injected /\ ~(outcome.byIm /\ vkTyped # <<>>) =>
               landed = (IF outcome.byIm \/ T!IsPrefix(vkTyped, outcome.text)
                         THEN outcome.text ELSE vkTyped)

TypingInv == TypingTypes /\ JobInv /\ SentInv /\ LandedInv

-----------------------------------------------------------------------------
(* Typing: texts *)

LEMMA TypingConstants ==
  /\ Window \in Nat \ {0} /\ Budget \in 1..Room /\ Room \in Nat
  /\ \A text \in Hypotheses \cup Finals : text \in TypingTexts
<1>1. /\ Window \in Nat \ {0} /\ Budget \in 1..Room /\ Room \in Nat
      /\ \A text \in Hypotheses \cup Finals : text \in Seq(T!Range(text))
  <2>1. T!TypingBounds BY PeripheryAssumption
  <2>2. Window \in Nat \ {0} /\ Room \in Nat /\ Budget \in 1..Room BY <2>1 DEF T!TypingBounds
  <2>3. \A text \in Hypotheses \cup Finals : text \in Seq(T!Range(text)) BY <2>1 DEF T!TypingBounds
  <2> QED BY <2>2, <2>3
<1>2. ASSUME NEW text \in Hypotheses \cup Finals PROVE text \in TypingTexts
  <2>1. T!Range(text) \subseteq TypingChars BY <1>2 DEF TypingChars
  <2>2. text \in Seq(T!Range(text)) BY <1>1, <1>2
  <2> QED BY <2>1, <2>2, SeqMonotonic DEF TypingTexts
<1> QED BY <1>1, <1>2

LEMMA TypingCardinality == ASSUME NEW S PROVE T!Cardinality(S) = Cardinality(S)
  BY DEF T!Cardinality, Cardinality

LEMMA MaxOf ==
  ASSUME NEW n \in Nat, NEW S \in SUBSET (0..n), S # {}
  PROVE  T!Max(S) \in S /\ \A k \in S : k <= T!Max(S)
<1>1. PICK m \in S : \A k \in S : k <= m BY GreatestOf
<1>2. \A k \in S : m >= k BY <1>1
<1>3. T!Max(S) \in S /\ \A k \in S : T!Max(S) >= k BY <1>2 DEF T!Max
<1> QED BY <1>3

LEMMA MinOf ==
  ASSUME NEW S \in SUBSET Nat, S # {}
  PROVE  T!Min(S) \in S
<1>1. PICK m \in S : \A k \in S : m <= k BY LeastOf
<1>2. T!Min(S) \in S BY <1>1 DEF T!Min
<1> QED BY <1>2

LEMMA UptoFinite ==
  ASSUME NEW text, NEW k \in Nat
  PROVE  IsFiniteSet(T!Upto(text, k)) /\ Cardinality(T!Upto(text, k)) \in Nat
<1> DEFINE f == [i \in 1..k |-> text[i]]
<1>1. IsFiniteSet(1..k) BY FS_Interval
<1>2. f \in Surjection(1..k, T!Upto(text, k)) BY DEF Surjection, T!Upto
<1>3. IsFiniteSet(T!Upto(text, k)) BY <1>1, <1>2, FS_Surjection
<1> QED BY <1>3, FS_CardinalityType

LEMMA UptoGrows ==
  ASSUME NEW text, NEW j \in Nat, NEW k \in Nat, j <= k
  PROVE  /\ T!Upto(text, j) \subseteq T!Upto(text, k)
         /\ Cardinality(T!Upto(text, j)) <= Cardinality(T!Upto(text, k))
<1>1. T!Upto(text, j) \subseteq T!Upto(text, k) BY DEF T!Upto
<1> QED BY <1>1, UptoFinite, FS_Subset

\* The next segment: as much of the text as has room in a keymap, and some.
LEMMA SegmentIs ==
  ASSUME NEW text \in TypingTexts, text # <<>>
  PROVE  /\ T!SegmentOf(text) \in TypingTexts
         /\ Len(T!SegmentOf(text)) \in 1..Len(text)
         /\ T!SegmentOf(text) = SubSeq(text, 1, Len(T!SegmentOf(text)))
         /\ \A i \in 1..Len(T!SegmentOf(text)) : T!SegmentOf(text)[i] = text[i]
         /\ Cardinality(T!Upto(T!SegmentOf(text), Len(T!SegmentOf(text)))) \in 0..Room
<1> DEFINE fit == {k \in 0..Len(text) : T!Fits(text, k)}
<1>1. Len(text) \in Nat \ {0} BY EmptySeq DEF TypingTexts
<1>2. 1 \in fit
  <2>1. T!Upto(text, 1) = {text[1]} BY DEF T!Upto
  <2>2. Cardinality(T!Upto(text, 1)) = 1 BY <2>1, FS_Singleton
  <2> QED BY <1>1, <2>2, TypingConstants, TypingCardinality DEF T!Fits
<1>3. PICK n : n = T!Max(fit) OBVIOUS
<1>4. n \in fit /\ 1 <= n BY <1>1, <1>2, <1>3, MaxOf
<1>5. n \in 1..Len(text) /\ Cardinality(T!Upto(text, n)) <= Budget
  BY <1>1, <1>4, TypingCardinality DEF T!Fits
<1>6. PICK s : s = T!SegmentOf(text) OBVIOUS
<1>7. s = SubSeq(text, 1, n) BY <1>3, <1>6 DEF T!SegmentOf
<1>8. /\ s \in TypingTexts /\ Len(s) = n
      /\ \A i \in 1..n : s[i] = text[i]
  <2>1. n \in 0..Len(text) /\ 1 \in Nat \ {0} /\ n \in Nat BY <1>5
  <2>2. /\ s \in TypingTexts /\ Len(s) = (IF 1 <= n THEN n - 1 + 1 ELSE 0)
        /\ \A i \in 1..n - 1 + 1 : s[i] = text[1 + i - 1]
    BY <1>7, <2>1, PartOf DEF TypingTexts
  <2>3. n - 1 + 1 = n /\ \A i \in 1..n : 1 + i - 1 = i BY <2>1
  <2> QED BY <1>5, <2>2, <2>3
<1>9. T!Upto(s, n) = T!Upto(text, n) BY <1>8 DEF T!Upto
<1>10. n \in Nat BY <1>5
<1>11. Cardinality(T!Upto(s, n)) \in 0..Room BY <1>5, <1>9, <1>10, UptoFinite, TypingConstants
<1> QED BY <1>5, <1>6, <1>7, <1>8, <1>11

LEMMA FirstAtIs ==
  ASSUME NEW s \in TypingTexts, NEW i \in 1..Len(s)
  PROVE  /\ T!FirstAt(s, s[i]) \in 1..Len(s)
         /\ s[T!FirstAt(s, s[i])] = s[i]
         /\ s[i] \notin T!Upto(s, T!FirstAt(s, s[i]) - 1)
<1> DEFINE those == {k \in 1..Len(s) : s[k] = s[i]}
<1>1. Len(s) \in Nat /\ DOMAIN s = 1..Len(s) BY LenProperties DEF TypingTexts
<1>2. those \in SUBSET Nat /\ those # {} BY <1>1
<1>3. PICK m \in those : \A k \in those : m <= k BY <1>2, LeastOf
<1>4. s[i] \notin T!Upto(s, m - 1)
  <2>1. SUFFICES ASSUME NEW k \in 1..m - 1, s[k] = s[i] PROVE FALSE BY DEF T!Upto
  <2>2. k \in those /\ k < m BY <1>1, <1>3, <2>1
  <2> QED BY <1>2, <1>3, <2>2
<1>5. m \in DOMAIN s /\ s[m] = s[i] BY <1>1, <1>3
<1>6. /\ T!FirstAt(s, s[i]) \in DOMAIN s /\ s[T!FirstAt(s, s[i])] = s[i]
      /\ s[i] \notin T!Upto(s, T!FirstAt(s, s[i]) - 1)
  BY <1>4, <1>5 DEF T!FirstAt
<1> QED BY <1>1, <1>6

\* A keymap has a code of its own for every character of its segment.
LEMMA CodesDiffer ==
  ASSUME NEW s \in TypingTexts, NEW i \in 1..Len(s), NEW k \in 1..Len(s),
         T!CodeOf(s, s[i]) = T!CodeOf(s, s[k])
  PROVE  s[i] = s[k]
<1>1. ASSUME NEW x \in 1..Len(s), NEW y \in 1..Len(s),
             T!CodeOf(s, s[x]) = T!CodeOf(s, s[y]), T!FirstAt(s, s[x]) < T!FirstAt(s, s[y])
      PROVE  FALSE
  <2>1. PICK a, b : a = T!FirstAt(s, s[x]) /\ b = T!FirstAt(s, s[y]) OBVIOUS
  <2>2. /\ a \in Nat \ {0} /\ b \in Nat \ {0} /\ a < b /\ b - 1 \in Nat /\ a <= b - 1 /\ b - 1 <= b
        /\ s[b] = s[y] /\ s[y] \notin T!Upto(s, b - 1)
    <3>1. a \in 1..Len(s) /\ b \in 1..Len(s) /\ s[b] = s[y] /\ s[y] \notin T!Upto(s, b - 1)
      BY <2>1, FirstAtIs
    <3>2. Len(s) \in Nat BY LenProperties DEF TypingTexts
    <3> QED BY <1>1, <2>1, <3>1, <3>2
  <2>3. s[y] \in T!Upto(s, b) BY <2>2 DEF T!Upto
  <2>4. T!Upto(s, a) \subseteq T!Upto(s, b - 1) BY <2>2, UptoGrows
  <2>5. T!Upto(s, a) \subseteq T!Upto(s, b) /\ T!Upto(s, a) # T!Upto(s, b)
    BY <2>2, <2>3, <2>4, UptoGrows
  <2>6. Cardinality(T!Upto(s, b)) # Cardinality(T!Upto(s, a)) BY <2>2, <2>5, UptoFinite, FS_Subset
  <2> QED BY <1>1, <2>1, <2>6, TypingCardinality DEF T!CodeOf
<1>2. T!FirstAt(s, s[i]) \in Int /\ T!FirstAt(s, s[k]) \in Int BY FirstAtIs
<1>3. ~(T!FirstAt(s, s[i]) < T!FirstAt(s, s[k])) BY <1>1
<1>4. ~(T!FirstAt(s, s[k]) < T!FirstAt(s, s[i])) BY <1>1
<1>5. T!FirstAt(s, s[i]) = T!FirstAt(s, s[k]) BY <1>2, <1>3, <1>4
<1> QED BY <1>5, FirstAtIs

\* And a key gives back the character it is pressed for.
LEMMA KeysMean ==
  ASSUME NEW s \in TypingTexts, NEW i \in 1..Len(s)
  PROVE  /\ T!CodeOf(s, s[i]) \in Nat
         /\ T!CodeOf(s, s[i]) \in DOMAIN T!KeymapOf(s)
         /\ T!KeymapOf(s)[T!CodeOf(s, s[i])] = s[i]
<1> DEFINE all == T!Upto(s, Len(s))
<1>1. Len(s) \in Nat /\ i \in Nat BY LenProperties DEF TypingTexts
<1>2. PICK a : a = T!FirstAt(s, s[i]) OBVIOUS
<1>3. a \in 1..Len(s) /\ s[a] = s[i] BY <1>2, FirstAtIs
<1>4. PICK c : c = Cardinality(T!Upto(s, a)) OBVIOUS
<1>5. T!CodeOf(s, s[i]) = c BY <1>2, <1>4, TypingCardinality DEF T!CodeOf
<1>6. a \in Nat /\ a <= Len(s) BY <1>1, <1>3
<1>7. c \in Nat /\ c <= Cardinality(all) BY <1>1, <1>4, <1>6, UptoFinite, UptoGrows
<1>8. c # 0
  <2>1. s[a] \in T!Upto(s, a) BY <1>3, <1>6 DEF T!Upto
  <2> QED BY <1>4, <1>6, <2>1, UptoFinite, FS_EmptySet
<1>9. Cardinality(all) \in Nat BY <1>1, UptoFinite
<1>10. c \in 1..T!Cardinality(all) BY <1>7, <1>8, <1>9, TypingCardinality
<1>11. s[i] \in all BY <1>1 DEF T!Upto
<1>12. \A ch \in all : T!CodeOf(s, ch) = c => ch = s[i]
  <2>1. SUFFICES ASSUME NEW ch \in all, T!CodeOf(s, ch) = c PROVE ch = s[i] OBVIOUS
  <2>2. PICK k \in 1..Len(s) : ch = s[k] BY <2>1 DEF T!Upto
  <2> QED BY <1>5, <2>1, <2>2, CodesDiffer
<1>13. (CHOOSE ch \in all : T!CodeOf(s, ch) = c) = s[i] BY <1>5, <1>11, <1>12
<1>14. T!KeymapOf(s) = [n \in 1..T!Cardinality(all) |-> CHOOSE ch \in all : T!CodeOf(s, ch) = n]
  BY DEF T!KeymapOf
<1> HIDE DEF all
<1> QED BY <1>5, <1>7, <1>10, <1>13, <1>14

\* All of a segment's keymap fits the room there is.
LEMMA KeymapFits ==
  ASSUME NEW text \in TypingTexts, text # <<>>, NEW map, map = T!KeymapOf(T!SegmentOf(text))
  PROVE  /\ DOMAIN map \subseteq 1..Room
         /\ T!Installed(map) = map
<1>1. PICK s : s = T!SegmentOf(text) OBVIOUS
<1>2. PICK c : c = Cardinality(T!Upto(s, Len(s))) OBVIOUS
<1>3. c \in 0..Room BY <1>1, <1>2, SegmentIs
<1>4. c \in Nat /\ c <= Room BY <1>3, TypingConstants
<1>5. map = T!KeymapOf(s) BY <1>1
<1>6. map = [n \in 1..c |-> CHOOSE ch \in T!Upto(s, Len(s)) : T!CodeOf(s, ch) = n]
  BY <1>2, <1>5, TypingCardinality DEF T!KeymapOf
<1>7. DOMAIN map = 1..c /\ 1..c \subseteq 1..Room BY <1>4, <1>6, TypingConstants
<1>8. T!Installed(map) = map BY <1>6, <1>7 DEF T!Installed
<1> QED BY <1>1, <1>5, <1>7, <1>8

\* What the window agrees on is a text.
LEMMA StableIs ==
  ASSUME NEW q \in Seq(TypingTexts), q # <<>>
  PROVE  T!Stable(q) \in TypingTexts
<1>1. Len(q) \in Nat \ {0} /\ DOMAIN q = 1..Len(q) BY EmptySeq, LenProperties
<1>2. \A i \in 1..Len(q) : q[i] \in TypingTexts /\ Len(q[i]) \in Nat
  BY ElementOfSeq, LenProperties DEF TypingTexts
<1>3. ASSUME NEW a \in TypingTexts, NEW b \in TypingTexts PROVE T!Common(a, b) \in Nat
  <2> DEFINE those == {n \in 0..Len(a) : n <= Len(b) /\ SubSeq(a, 1, n) = SubSeq(b, 1, n)}
  <2>1. Len(a) \in Nat /\ Len(b) \in Nat BY LenProperties DEF TypingTexts
  <2>2. 0 \in those
    <3>1. SubSeq(a, 1, 0) = <<>> /\ SubSeq(b, 1, 0) = <<>> BY SubSeqEmpty
    <3> QED BY <2>1, <3>1
  <2>3. T!Max(those) \in those BY <2>1, <2>2, MaxOf
  <2> QED BY <2>1, <2>3 DEF T!Common
<1> DEFINE lens == {Len(q[1])} \cup {T!Common(q[i], q[i + 1]) : i \in 1..Len(q) - 1}
<1>4. lens \in SUBSET Nat /\ lens # {} /\ \A n \in lens : n \in Nat
  <2>1. \A i \in 1..Len(q) - 1 : T!Common(q[i], q[i + 1]) \in Nat
    <3>1. SUFFICES ASSUME NEW i \in 1..Len(q) - 1 PROVE T!Common(q[i], q[i + 1]) \in Nat OBVIOUS
    <3>2. i \in 1..Len(q) /\ i + 1 \in 1..Len(q) BY <1>1
    <3> QED BY <1>2, <1>3, <3>2
  <2> QED BY <1>1, <1>2, <2>1
<1>5. PICK least : least = T!Min(lens) OBVIOUS
<1>6. least \in Nat /\ least <= Len(q[1])
  <2>1. PICK m \in lens : \A k \in lens : m <= k BY <1>4, LeastOf
  <2>2. T!Min(lens) \in lens /\ \A k \in lens : T!Min(lens) <= k BY <2>1 DEF T!Min
  <2> QED BY <1>4, <1>5, <2>2
<1> DEFINE ends == {i \in 1..least : q[1][i] = "_"}
           n    == IF ends = {} THEN 0 ELSE T!Max(ends)
<1>7. n \in 0..Len(q[1])
  <2>1. \A i \in 1..least : i \in 0..least BY <1>6
  <2>11. ends \in SUBSET (0..least) BY <2>1
  <2>2. ends # {} => T!Max(ends) \in ends BY <1>6, <2>11, MaxOf
  <2>3. Len(q[1]) \in Nat BY <1>1, <1>2
  <2>4. PICK most, len : most = T!Max(ends) /\ len = Len(q[1]) OBVIOUS
  <2>5. ends # {} => most \in 1..least BY <2>2, <2>4
  <2>6. n = IF ends = {} THEN 0 ELSE most BY <2>4
  <2>7. len \in Nat /\ least <= len BY <1>6, <2>3, <2>4
  <2> HIDE DEF n, ends
  <2>8. n \in 0..len BY <1>6, <2>5, <2>6, <2>7
  <2> QED BY <2>4, <2>8
<1>8. T!Stable(q) = SubSeq(q[1], 1, n) BY <1>5 DEF T!Stable
<1> HIDE DEF n, ends, lens
<1>9. q[1] \in Seq(TypingChars) /\ 1 \in Nat \ {0} BY <1>1, <1>2 DEF TypingTexts
<1>10. SubSeq(q[1], 1, n) \in Seq(TypingChars) BY <1>7, <1>9, PartOf
<1> QED BY <1>8, <1>10 DEF TypingTexts
-----------------------------------------------------------------------------
(* Typing: what is left and what has landed *)

LEMMA Empties == <<>> \in TypingTexts /\ Len(<<>>) = 0 /\ \A t \in TypingTexts : Len(t) \in Nat
  BY EmptySeq, LenProperties DEF TypingTexts

LEMMA RestIs ==
  ASSUME NEW t \in TypingTexts, NEW v \in TypingTexts, Len(v) <= Len(t)
  PROVE  /\ T!Rest(t, v) \in TypingTexts
         /\ Len(T!Rest(t, v)) = Len(t) - Len(v)
         /\ \A i \in 1..Len(t) - Len(v) : T!Rest(t, v)[i] = t[Len(v) + i]
         /\ T!Rest(t, v) = <<>> <=> Len(v) = Len(t)
<1>1. Len(t) \in Nat /\ Len(v) \in Nat BY Empties
<1>2. PICK n, m : n = Len(t) /\ m = Len(v) + 1 OBVIOUS
<1>3. n \in 0..Len(t) /\ n \in Nat /\ m \in Nat \ {0} /\ m <= n + 1 BY <1>1, <1>2
<1>4. PICK r : r = T!Rest(t, v) OBVIOUS
<1>5. r = SubSeq(t, m, n) BY <1>2, <1>4 DEF T!Rest
<1>6. /\ r \in TypingTexts /\ Len(r) = (IF m <= n THEN n - m + 1 ELSE 0)
      /\ \A i \in 1..n - m + 1 : r[i] = t[m + i - 1]
  BY <1>3, <1>5, PartOf DEF TypingTexts
<1>7. Len(r) = n - m + 1 BY <1>3, <1>6
<1>8. Len(r) = Len(t) - Len(v) BY <1>1, <1>2, <1>7
<1>9. ASSUME NEW i \in 1..Len(t) - Len(v) PROVE r[i] = t[Len(v) + i]
  <2>1. i \in 1..n - m + 1 /\ m + i - 1 = Len(v) + i BY <1>1, <1>2
  <2>2. r[i] = t[m + i - 1] BY <1>6, <2>1
  <2> QED BY <2>1, <2>2
<1>10. r = <<>> <=> Len(r) = 0 BY <1>6, EmptySeq DEF TypingTexts
<1> QED BY <1>1, <1>4, <1>6, <1>8, <1>9, <1>10

\* What is typed and the rest are the whole.
LEMMA RestCompletes ==
  ASSUME NEW t \in TypingTexts, NEW v \in TypingTexts, T!IsPrefix(v, t)
  PROVE  v \o T!Rest(t, v) = t
<1>1. Len(v) <= Len(t) /\ SubSeq(v, 1, Len(v)) = SubSeq(t, 1, Len(v)) BY DEF T!IsPrefix
<1>2. Len(v) \in Nat /\ Len(t) \in Nat BY Empties
<1>3. v \in Seq(TypingChars) /\ t \in Seq(TypingChars) BY DEF TypingTexts
<1>4. v = SubSeq(t, 1, Len(v)) BY <1>1, <1>3, SubSeqFull
<1>5. PICK n : n = Len(v) OBVIOUS
<1>6. n \in 0..Len(t) /\ 1 \in 1..Len(t) + 1 /\ n \in 1 - 1..Len(t) /\ Len(t) \in n..Len(t)
  BY <1>1, <1>2, <1>5
<1>7. SubSeq(t, 1, n) \o SubSeq(t, n + 1, Len(t)) = SubSeq(t, 1, Len(t))
  BY <1>3, <1>6, ConcatAdjacentSubSeq
<1> QED BY <1>3, <1>4, <1>5, <1>7, SubSeqFull DEF T!Rest

LEMMA StrictPrefixIs ==
  ASSUME NEW t \in TypingTexts, NEW v \in TypingTexts, T!IsStrictPrefix(v, t)
  PROVE  T!IsPrefix(v, t) /\ T!Rest(t, v) # <<>> /\ Len(v) <= Len(t)
<1>1. T!IsPrefix(v, t) /\ v # t BY DEF T!IsStrictPrefix
<1>2. Len(v) <= Len(t) BY <1>1 DEF T!IsPrefix
<1>3. v \o T!Rest(t, v) = t BY <1>1, RestCompletes
<1>4. T!Rest(t, v) # <<>> BY <1>1, <1>3, ConcatEmptySeq DEF TypingTexts
<1> QED BY <1>1, <1>2, <1>4

LEMMA PrefixOfConcat ==
  ASSUME NEW v \in TypingTexts, NEW t \in TypingTexts, NEW n \in 0..Len(t)
  PROVE  /\ T!IsPrefix(v, v \o t)
         /\ T!IsPrefix(v, v \o SubSeq(t, 1, n))
         /\ T!IsPrefix(v \o SubSeq(t, 1, n), v \o t)
<1>1. ASSUME NEW a \in TypingTexts, NEW b \in TypingTexts, Len(a) <= Len(b),
             \A i \in 1..Len(a) : a[i] = b[i]
      PROVE  T!IsPrefix(a, b)
  <2>1. Len(a) \in Nat /\ Len(b) \in Nat BY Empties
  <2>2. PICK m : m = Len(a) OBVIOUS
  <2>3. m \in 0..Len(b) /\ 1 \in Nat \ {0} /\ m \in 0..Len(a) /\ m \in Nat BY <1>1, <2>1, <2>2
  <2>4. /\ SubSeq(b, 1, m) \in TypingTexts /\ Len(SubSeq(b, 1, m)) = (IF 1 <= m THEN m - 1 + 1 ELSE 0)
        /\ \A i \in 1..m - 1 + 1 : SubSeq(b, 1, m)[i] = b[1 + i - 1]
    BY <2>3, PartOf DEF TypingTexts
  <2>5. Len(SubSeq(b, 1, m)) = m /\ \A i \in 1..m : SubSeq(b, 1, m)[i] = b[i]
    <3>1. m - 1 + 1 = m /\ \A i \in 1..m : 1 + i - 1 = i BY <2>3
    <3> QED BY <2>3, <2>4, <3>1
  <2>6. SubSeq(b, 1, m) = a BY <1>1, <2>2, <2>4, <2>5, SeqEqual DEF TypingTexts
  <2>7. SubSeq(a, 1, m) = a BY <2>2, SubSeqFull DEF TypingTexts
  <2> QED BY <1>1, <2>2, <2>6, <2>7 DEF T!IsPrefix
<1>2. PICK p : p = SubSeq(t, 1, n) OBVIOUS
<1>3. Len(v) \in Nat /\ Len(t) \in Nat /\ n \in Nat /\ n <= Len(t) BY Empties
<1>4. p \in TypingTexts /\ Len(p) = n /\ \A i \in 1..n : p[i] = t[i]
  <2>1. 1 \in Nat \ {0} OBVIOUS
  <2>2. /\ p \in TypingTexts /\ Len(p) = (IF 1 <= n THEN n - 1 + 1 ELSE 0)
        /\ \A i \in 1..n - 1 + 1 : p[i] = t[1 + i - 1]
    BY <1>2, <2>1, PartOf DEF TypingTexts
  <2>3. n - 1 + 1 = n /\ \A i \in 1..n : 1 + i - 1 = i BY <1>3
  <2> QED BY <1>3, <2>2, <2>3
<1>5. PICK a, b : a = v \o p /\ b = v \o t OBVIOUS
<1>6. /\ a \in TypingTexts /\ Len(a) = Len(v) + n
      /\ \A i \in 1..Len(v) + n : a[i] = IF i <= Len(v) THEN v[i] ELSE p[i - Len(v)]
  <2>1. /\ a \in TypingTexts /\ Len(a) = Len(v) + Len(p)
        /\ \A i \in 1..Len(v) + Len(p) : a[i] = IF i <= Len(v) THEN v[i] ELSE p[i - Len(v)]
    BY <1>4, <1>5, ConcatProperties DEF TypingTexts
  <2> QED BY <1>4, <2>1
<1>7. /\ b \in TypingTexts /\ Len(b) = Len(v) + Len(t)
      /\ \A i \in 1..Len(v) + Len(t) : b[i] = IF i <= Len(v) THEN v[i] ELSE t[i - Len(v)]
  BY <1>5, ConcatProperties DEF TypingTexts
<1>8. Len(v) <= Len(b) /\ \A i \in 1..Len(v) : v[i] = b[i] BY <1>3, <1>7
<1>9. Len(v) <= Len(a) /\ \A i \in 1..Len(v) : v[i] = a[i] BY <1>3, <1>6
<1>10. Len(a) <= Len(b) BY <1>3, <1>6, <1>7
<1>11. ASSUME NEW i \in 1..Len(a) PROVE a[i] = b[i]
  <2>1. i \in 1..Len(v) + n /\ i \in 1..Len(v) + Len(t) BY <1>3, <1>6
  <2>2. CASE i <= Len(v) BY <1>6, <1>7, <2>1, <2>2
  <2>3. CASE ~(i <= Len(v))
    <3>1. i - Len(v) \in 1..n BY <1>3, <2>1, <2>3
    <3>2. p[i - Len(v)] = t[i - Len(v)] BY <1>4, <3>1
    <3> QED BY <1>6, <1>7, <2>1, <2>3, <3>2
  <2> QED BY <2>2, <2>3
<1>12. T!IsPrefix(v, b) BY <1>1, <1>7, <1>8
<1>13. T!IsPrefix(v, a) BY <1>1, <1>6, <1>9
<1>14. T!IsPrefix(a, b) BY <1>1, <1>6, <1>7, <1>10, <1>11
<1> QED BY <1>2, <1>5, <1>12, <1>13, <1>14

\* One character more.
LEMMA NextLands ==
  ASSUME NEW v \in TypingTexts, NEW t \in TypingTexts, NEW n \in 0..Len(t) - 1
  PROVE  Append(v \o SubSeq(t, 1, n), t[n + 1]) = v \o SubSeq(t, 1, n + 1)
<1>1. Len(t) \in Nat /\ n \in Nat /\ n + 1 \in 1..Len(t) BY Empties
<1>2. v \in Seq(TypingChars) /\ t \in Seq(TypingChars) BY DEF TypingTexts
<1>3. PICK m : m = n + 1 OBVIOUS
<1>4. 1 \in 1..Len(t) /\ m \in 1..Len(t) /\ m - 1 = n /\ n \in 0..Len(t) BY <1>1, <1>3
<1>5. PICK p, x : p = SubSeq(t, 1, n) /\ x = t[m] OBVIOUS
<1>6. p \in Seq(TypingChars)
  <2>1. 1 \in Nat \ {0} OBVIOUS
  <2> QED BY <1>2, <1>4, <1>5, <2>1, PartOf
<1>7. x \in TypingChars BY <1>2, <1>4, <1>5, ElementOfSeq
<1>8. SubSeq(t, 1, m) = p \o <<x>> BY <1>2, <1>4, <1>5, SubSeqRecursiveSecond
<1>9. <<x>> \in Seq(TypingChars) BY <1>7
<1>10. v \o (p \o <<x>>) = (v \o p) \o <<x>> BY <1>2, <1>6, <1>9, ConcatAssociative
<1>11. v \o p \in Seq(TypingChars) BY <1>2, <1>6, ConcatProperties
<1>12. Append(v \o p, x) = (v \o p) \o <<x>> BY <1>7, <1>11, AppendIsConcat
<1> QED BY <1>3, <1>5, <1>8, <1>10, <1>12

-----------------------------------------------------------------------------
(* Typing: the invariant holds at first and is kept *)

LEMMA TypingStarts == T!Init => TypingInv
<1> SUFFICES ASSUME T!Init PROVE TypingInv OBVIOUS
<1>1. TypingTypes
  <2>1. <<>> \in Seq(TypingTexts) BY EmptySeq
  <2>2. Len(hyps) <= Window BY TypingConstants, Empties DEF T!Init
  <2>3. DOMAIN keymap = {}
    <3>1. DOMAIN keymap = 1..Len(keymap) /\ Len(keymap) = 0 BY LenProperties, Empties DEF T!Init, TypingTexts
    <3> QED BY <3>1
  <2> QED BY <2>1, <2>2, <2>3, Empties DEF TypingTypes, T!Init, T!NoJob, T!NoOutcome
<1>2. JobInv BY DEF JobInv, T!Init, T!Idle, T!NoJob, T!NoOutcome
<1>3. SentInv BY DEF SentInv, T!Init, T!Idle, T!NoJob
<1>4. LandedInv
  <2>1. ~outcome.injected BY DEF T!Init, T!NoOutcome
  <2> QED BY <2>1 DEF LandedInv, T!Init, T!Idle, T!NoJob
<1> QED BY <1>1, <1>2, <1>3, <1>4 DEF TypingInv

\* Between jobs what is on record has landed, and nothing else.
LEMMA IdleLands ==
  ASSUME NEW v \in TypingTexts, NEW t \in TypingTexts
  PROVE  v \o SubSeq(t, 1, 0) = v
<1>1. SubSeq(t, 1, 0) = <<>> BY SubSeqEmpty
<1> QED BY <1>1, ConcatEmptySeq DEF TypingTexts

\* A job that starts.
LEMMA JobStarts ==
  ASSUME TypingTypes, NEW for \in {"prefix", "final"}, NEW text \in TypingTexts, text # <<>>,
         T!Typing(for, text)
  PROVE  /\ job' \in [for : {"none", "prefix", "final"}, text : TypingTexts, left : TypingTexts,
                      at : {"keymap", "keymapSent", "keysSent"}]
         /\ job'.for = for /\ job'.text = text /\ job'.left = text /\ job'.at = "keymap"
         /\ Landing' = 0 /\ ~T!Idle'
         /\ job'.left # <<>> /\ Len(job'.left) <= Len(job'.text)
         /\ job'.left = SubSeq(job'.text, Len(job'.text) - Len(job'.left) + 1, Len(job'.text))
<1>1. job' = [for |-> for, text |-> text, left |-> text, at |-> "keymap"] BY DEF T!Typing
<1>2. Len(text) \in Nat BY Empties
<1>3. Len(text) - Len(text) + 1 = 1 BY <1>2
<1>4. SubSeq(text, 1, Len(text)) = text BY SubSeqFull DEF TypingTexts
<1>5. Landing' = 0 BY <1>1, <1>2 DEF Landing
<1> QED BY <1>1, <1>2, <1>3, <1>4, <1>5 DEF T!Idle

LEMMA TypingBegins == ASSUME TypingInv, T!Begins PROVE TypingInv'
<1> USE DEF TypingInv
<1>1. TypingTypes' BY TypingConstants, Empties, EmptySeq DEF TypingTypes, T!Begins, T!NoOutcome
<1>2. JobInv' BY DEF JobInv, T!Begins, T!Idle, T!NoJob, T!NoOutcome
<1>3. SentInv' BY DEF SentInv, T!Begins, T!Idle, TheSegment
<1>4. LandedInv'
  <2>1. job = T!NoJob /\ UNCHANGED job BY DEF JobInv, T!Begins
  <2>2. Landing' = 0 BY <2>1, Empties DEF Landing, T!NoJob
  <2>3. landed' = <<>> /\ vkTyped' = <<>> /\ job'.text = <<>> BY <2>1 DEF T!Begins, T!NoJob
  <2>4. <<>> \o SubSeq(<<>>, 1, 0) = <<>> BY IdleLands, Empties
  <2>5. ~outcome'.injected BY DEF T!Begins, T!NoOutcome
  <2> QED BY <2>2, <2>3, <2>4, <2>5 DEF LandedInv
<1> QED BY <1>1, <1>2, <1>3, <1>4

LEMMA TypingAbandons == ASSUME TypingInv, T!Abandons PROVE TypingInv'
<1> USE DEF TypingInv
<1>1. TypingTypes' BY DEF TypingTypes, T!Abandons
<1>2. JobInv' BY DEF JobInv, T!Abandons, T!Idle, T!NoJob
<1>3. SentInv' BY DEF SentInv, T!Abandons, T!Idle, TheSegment
<1>4. LandedInv'
  <2>1. ~outcome'.injected BY DEF JobInv, T!Abandons
  <2>2. T!Idle' /\ ~speaking' BY DEF T!Abandons, T!Idle
  <2> QED BY <2>1, <2>2 DEF LandedInv
<1> QED BY <1>1, <1>2, <1>3, <1>4

LEMMA TypingShows ==
  ASSUME TypingInv, NEW text \in Hypotheses, T!ShowPartial(text) PROVE TypingInv'
<1> USE DEF TypingInv
<1>1. speaking /\ T!Idle /\ job = T!NoJob /\ ~outcome.injected /\ sent = <<>>
  BY DEF T!ShowPartial, JobInv, SentInv
<1>2. UNCHANGED <<speaking, vkTyped, sent, keymap, inField, cut, landed, outcome>> BY DEF T!ShowPartial
<1>3. text \in TypingTexts BY TypingConstants
<1> DEFINE all    == Append(hyps, text)
           recent == IF Len(all) > Window THEN Tail(all) ELSE all
<1>4. /\ recent \in Seq(TypingTexts) /\ Len(recent) <= Window
      /\ Len(recent) = Window => recent # <<>>
  <2>1. all \in Seq(TypingTexts) /\ Len(all) = Len(hyps) + 1 /\ all # <<>>
    BY <1>3, AppendProperties DEF TypingTypes
  <2>2. Len(hyps) \in Nat /\ Len(hyps) <= Window /\ Window \in Nat \ {0}
    BY LenProperties, TypingConstants DEF TypingTypes
  <2>3. Tail(all) \in Seq(TypingTexts) /\ Len(Tail(all)) = Len(all) - 1 BY <2>1, HeadTailProperties
  <2>4. PICK n, w : n = Len(hyps) /\ w = Window OBVIOUS
  <2>5. recent \in Seq(TypingTexts) /\ Len(recent) <= Window BY <2>1, <2>2, <2>3
  <2> QED BY <2>2, <2>5, EmptySeq
<1>5. (UNCHANGED <<hyps, job>>) \/
      (hyps' = recent /\
       (UNCHANGED job \/
        (Len(recent) = Window /\ T!IsStrictPrefix(vkTyped, T!Stable(recent)) /\
         T!Typing("prefix", T!Rest(T!Stable(recent), vkTyped)))))
  BY DEF T!ShowPartial
<1> HIDE DEF recent
<1>6. hyps' \in Seq(TypingTexts) /\ Len(hyps') <= Window BY <1>4, <1>5 DEF TypingTypes
<1>7. CASE UNCHANGED job
  <2>1. TypingTypes' BY <1>2, <1>6, <1>7 DEF TypingTypes
  <2>2. JobInv' BY <1>2, <1>7 DEF JobInv, T!Idle, T!NoJob
  <2>3. SentInv' BY <1>2, <1>7 DEF SentInv, T!Idle, TheSegment
  <2>4. LandedInv' BY <1>2, <1>7 DEF LandedInv, Landing, T!Idle, TheSegment
  <2> QED BY <2>1, <2>2, <2>3, <2>4
<1>8. CASE Len(recent) = Window /\ T!IsStrictPrefix(vkTyped, T!Stable(recent)) /\
           T!Typing("prefix", T!Rest(T!Stable(recent), vkTyped))
  <2>1. T!Stable(recent) \in TypingTexts BY <1>4, <1>8, StableIs
  <2>2. vkTyped \in TypingTexts BY DEF TypingTypes
  <2>3. PICK more : more = T!Rest(T!Stable(recent), vkTyped) OBVIOUS
  <2>4. more \in TypingTexts /\ more # <<>> BY <1>8, <2>1, <2>2, <2>3, StrictPrefixIs, RestIs
  <2>5. T!Typing("prefix", more) BY <1>8, <2>3
  <2>6. /\ job' \in [for : {"none", "prefix", "final"}, text : TypingTexts, left : TypingTexts,
                     at : {"keymap", "keymapSent", "keysSent"}]
        /\ job'.for = "prefix" /\ job'.text = more /\ job'.left = more /\ job'.at = "keymap"
        /\ Landing' = 0 /\ ~T!Idle'
        /\ job'.left # <<>> /\ Len(job'.left) <= Len(job'.text)
        /\ job'.left = SubSeq(job'.text, Len(job'.text) - Len(job'.left) + 1, Len(job'.text))
    BY <2>4, <2>5, JobStarts
  <2>7. TypingTypes' BY <1>2, <1>6, <2>6 DEF TypingTypes
  <2>8. JobInv' BY <1>1, <1>2, <2>6 DEF JobInv, T!Idle
  <2>9. SentInv' BY <1>1, <1>2, <2>6 DEF SentInv, T!Idle
  <2>10. LandedInv'
    <3>1. ~cut => landed = vkTyped
      <4>1. ~cut => landed = vkTyped \o SubSeq(<<>>, 1, 0)
        BY <1>1, Empties DEF LandedInv, Landing, T!NoJob
      <4> QED BY <2>2, <4>1, IdleLands, Empties
    <3>2. vkTyped \o SubSeq(more, 1, 0) = vkTyped BY <2>2, <2>4, IdleLands
    <3> QED BY <1>1, <1>2, <2>6, <3>1, <3>2 DEF LandedInv
  <2> QED BY <2>7, <2>8, <2>9, <2>10
<1> QED BY <1>5, <1>7, <1>8

LEMMA TypingCommits ==
  ASSUME TypingInv, NEW text \in Finals, T!Commits(text) PROVE TypingInv'
<1> USE DEF TypingInv
<1>1. speaking /\ T!Idle /\ job = T!NoJob /\ ~outcome.injected /\ sent = <<>>
  BY DEF T!Commits, JobInv, SentInv
<1>2. speaking' = FALSE /\ UNCHANGED <<hyps, vkTyped, sent, keymap, inField, cut>> BY DEF T!Commits
<1> DEFINE out  == IF text = <<>> THEN <<>> ELSE T!Spaced(text)
           rest == T!Rest(out, vkTyped)
           done == [text |-> out, injected |-> TRUE, byIm |-> inField]
<1>3. out \in TypingTexts
  <2>1. text \in TypingTexts BY TypingConstants
  <2>2. "_" \in TypingChars BY DEF TypingChars
  <2>3. Append(text, "_") \in TypingTexts BY <2>1, <2>2, AppendProperties DEF TypingTexts
  <2> QED BY <2>3, Empties DEF T!Spaced
<1>4. \/ out = <<>> /\ UNCHANGED <<job, landed, outcome>>
      \/ inField /\ landed' = landed \o out /\ outcome' = done /\ UNCHANGED job
      \/ ~inField /\ T!IsPrefix(vkTyped, out) /\ rest # <<>> /\ T!Typing("final", rest) /\
         outcome' = [done EXCEPT !.injected = FALSE] /\ UNCHANGED landed
      \/ ~inField /\ ~(T!IsPrefix(vkTyped, out) /\ rest # <<>>) /\ outcome' = done /\ UNCHANGED <<job, landed>>
  BY DEF T!Commits
<1>5. vkTyped \in TypingTexts /\ landed \in TypingTexts /\ inField \in BOOLEAN BY DEF TypingTypes
<1>6. ~cut => landed = vkTyped
  <2>1. ~cut => landed = vkTyped \o SubSeq(<<>>, 1, 0)
    BY <1>1, Empties DEF LandedInv, Landing, T!NoJob
  <2> QED BY <1>5, <2>1, IdleLands, Empties
<1>7. done.text = out /\ done.injected = TRUE /\ done.byIm = inField
      /\ done \in [text : TypingTexts, injected : BOOLEAN, byIm : BOOLEAN]
  BY <1>3, <1>5
<1>8. /\ [done EXCEPT !.injected = FALSE] \in [text : TypingTexts, injected : BOOLEAN, byIm : BOOLEAN]
      /\ [done EXCEPT !.injected = FALSE].text = out
      /\ [done EXCEPT !.injected = FALSE].injected = FALSE
      /\ [done EXCEPT !.injected = FALSE].byIm = inField
  <2> HIDE DEF done
  <2> QED BY <1>7
<1>9. T!IsPrefix(vkTyped, out) => vkTyped \o rest = out /\ Len(vkTyped) <= Len(out)
  BY <1>3, <1>5, RestCompletes DEF T!IsPrefix
<1> HIDE DEF out, rest, done
<1>10. CASE out = <<>> /\ UNCHANGED <<job, landed, outcome>>
  <2>1. TypingTypes' BY <1>2, <1>10 DEF TypingTypes
  <2>2. JobInv' BY <1>1, <1>2, <1>10 DEF JobInv, T!Idle, T!NoJob
  <2>3. SentInv' BY <1>1, <1>2, <1>10 DEF SentInv, T!Idle
  <2>4. LandedInv' BY <1>1, <1>2, <1>10 DEF LandedInv, T!Idle
  <2> QED BY <2>1, <2>2, <2>3, <2>4
<1>11. CASE inField /\ landed' = landed \o out /\ outcome' = done /\ UNCHANGED job
  <2>1. landed \o out \in TypingTexts BY <1>3, <1>5, ConcatProperties DEF TypingTexts
  <2>2. TypingTypes' BY <1>2, <1>7, <1>11, <2>1 DEF TypingTypes
  <2>3. JobInv' BY <1>1, <1>2, <1>11 DEF JobInv, T!Idle, T!NoJob
  <2>4. SentInv' BY <1>1, <1>2, <1>11 DEF SentInv, T!Idle
  <2>5. LandedInv'
    <3>1. ~cut /\ vkTyped = <<>> => landed' = out BY <1>3, <1>6, <1>11, ConcatEmptySeq DEF TypingTexts
    <3>2. outcome'.byIm /\ outcome'.text = out BY <1>7, <1>11
    <3>3. ~speaking' /\ T!Idle' BY <1>1, <1>2, <1>11 DEF T!Idle
    <3> QED BY <1>2, <3>1, <3>2, <3>3 DEF LandedInv
  <2> QED BY <2>2, <2>3, <2>4, <2>5
<1>12. CASE ~inField /\ T!IsPrefix(vkTyped, out) /\ rest # <<>> /\ T!Typing("final", rest) /\
            outcome' = [done EXCEPT !.injected = FALSE] /\ UNCHANGED landed
  <2>1. rest \in TypingTexts BY <1>3, <1>5, <1>9, <1>12, RestIs DEF rest
  <2>2. /\ job' \in [for : {"none", "prefix", "final"}, text : TypingTexts, left : TypingTexts,
                     at : {"keymap", "keymapSent", "keysSent"}]
        /\ job'.for = "final" /\ job'.text = rest /\ job'.left = rest /\ job'.at = "keymap"
        /\ Landing' = 0 /\ ~T!Idle'
        /\ job'.left # <<>> /\ Len(job'.left) <= Len(job'.text)
        /\ job'.left = SubSeq(job'.text, Len(job'.text) - Len(job'.left) + 1, Len(job'.text))
    BY <1>12, <2>1, JobStarts
  <2>3. /\ outcome' \in [text : TypingTexts, injected : BOOLEAN, byIm : BOOLEAN]
        /\ outcome'.text = out /\ outcome'.injected = FALSE /\ outcome'.byIm = inField
    BY <1>8, <1>12
  <2>4. TypingTypes'
    <3>1. outcome' \in [text : TypingTexts, injected : BOOLEAN, byIm : BOOLEAN] BY <2>3
    <3>2. UNCHANGED landed BY <1>12
    <3>3. job' \in [for : {"none", "prefix", "final"}, text : TypingTexts, left : TypingTexts,
                    at : {"keymap", "keymapSent", "keysSent"}]
      BY <2>2
    <3> HIDE <1>12
    <3> QED BY <1>2, <3>1, <3>2, <3>3 DEF TypingTypes
  <2>5. JobInv' BY <1>2, <1>9, <1>12, <2>2, <2>3 DEF JobInv, T!Idle
  <2>6. SentInv' BY <1>1, <1>2, <2>2 DEF SentInv, T!Idle
  <2>7. LandedInv'
    <3>1. vkTyped \o SubSeq(rest, 1, 0) = vkTyped BY <1>5, <2>1, IdleLands
    <3> QED BY <1>2, <1>6, <1>12, <2>2, <2>3, <3>1 DEF LandedInv
  <2> QED BY <2>4, <2>5, <2>6, <2>7
<1>13. CASE ~inField /\ ~(T!IsPrefix(vkTyped, out) /\ rest # <<>>) /\ outcome' = done
            /\ UNCHANGED <<job, landed>>
  <2>1. TypingTypes' BY <1>2, <1>7, <1>13 DEF TypingTypes
  <2>2. JobInv' BY <1>1, <1>2, <1>13 DEF JobInv, T!Idle, T!NoJob
  <2>3. SentInv' BY <1>1, <1>2, <1>13 DEF SentInv, T!Idle
  <2>4. LandedInv'
    <3>1. T!IsPrefix(vkTyped, out) => vkTyped = out BY <1>5, <1>9, <1>13, ConcatEmptySeq DEF TypingTexts
    <3>2. ~outcome'.byIm /\ outcome'.text = out BY <1>7, <1>13
    <3>3. ~speaking' /\ T!Idle' BY <1>1, <1>2, <1>13 DEF T!Idle
    <3> QED BY <1>2, <1>6, <1>13, <3>1, <3>2, <3>3 DEF LandedInv
  <2> QED BY <2>1, <2>2, <2>3, <2>4
<1> QED BY <1>4, <1>10, <1>11, <1>12, <1>13

-----------------------------------------------------------------------------
(* Typing: segment after segment *)

LEMMA SuffixIs ==
  ASSUME NEW t \in TypingTexts, NEW u \in TypingTexts, Len(u) <= Len(t)
  PROVE  u = SubSeq(t, Len(t) - Len(u) + 1, Len(t))
           <=> \A i \in 1..Len(u) : u[i] = t[(Len(t) - Len(u)) + i]
<1>1. Len(t) \in Nat /\ Len(u) \in Nat BY Empties
<1>2. PICK n, m : n = Len(t) /\ m = Len(t) - Len(u) + 1 OBVIOUS
<1>3. n \in 0..Len(t) /\ n \in Nat /\ m \in Nat \ {0} /\ m <= n + 1 BY <1>1, <1>2
<1>4. PICK r : r = SubSeq(t, m, n) OBVIOUS
<1>5. /\ r \in TypingTexts /\ Len(r) = (IF m <= n THEN n - m + 1 ELSE 0)
      /\ \A i \in 1..n - m + 1 : r[i] = t[m + i - 1]
  BY <1>3, <1>4, PartOf DEF TypingTexts
<1>6. n - m + 1 = Len(u) /\ Len(r) = Len(u) BY <1>1, <1>2, <1>3, <1>5
<1>7. ASSUME NEW i \in 1..Len(u) PROVE r[i] = t[(Len(t) - Len(u)) + i]
  <2>1. i \in 1..n - m + 1 /\ m + i - 1 = (Len(t) - Len(u)) + i BY <1>1, <1>2, <1>6
  <2>2. r[i] = t[m + i - 1] BY <1>5, <2>1
  <2> QED BY <2>1, <2>2
<1>8. (\A i \in 1..Len(u) : u[i] = t[(Len(t) - Len(u)) + i]) => u = r
  BY <1>5, <1>6, <1>7, SeqEqual DEF TypingTexts
<1>9. u = r => \A i \in 1..Len(u) : u[i] = t[(Len(t) - Len(u)) + i] BY <1>7
<1> QED BY <1>2, <1>4, <1>8, <1>9

\* While a job goes on: its segment and where it stands in the text.
LEMMA JobIs ==
  ASSUME TypingInv, ~T!Idle
  PROVE  /\ job.left \in TypingTexts /\ job.text \in TypingTexts /\ job.left # <<>>
         /\ TheSegment \in TypingTexts /\ Len(TheSegment) \in 1..Len(job.left)
         /\ Len(job.left) \in 1..Len(job.text) /\ Len(job.text) \in Nat
         /\ \A i \in 1..Len(TheSegment) :
              /\ TheSegment[i] = job.left[i]
              /\ TheSegment[i] = job.text[(Len(job.text) - Len(job.left)) + i]
         /\ \A i \in 1..Len(job.left) : job.left[i] = job.text[(Len(job.text) - Len(job.left)) + i]
<1>1. /\ job.left \in TypingTexts /\ job.text \in TypingTexts /\ job.left # <<>>
      /\ Len(job.left) <= Len(job.text)
      /\ job.left = SubSeq(job.text, Len(job.text) - Len(job.left) + 1, Len(job.text))
  BY DEF TypingInv, TypingTypes, JobInv
<1>2. \A i \in 1..Len(job.left) : job.left[i] = job.text[(Len(job.text) - Len(job.left)) + i]
  BY <1>1, SuffixIs
<1>3. /\ TheSegment \in TypingTexts /\ Len(TheSegment) \in 1..Len(job.left)
      /\ \A i \in 1..Len(TheSegment) : TheSegment[i] = job.left[i]
  BY <1>1, SegmentIs DEF TheSegment
<1>4. Len(job.text) \in Nat /\ Len(job.left) \in Nat \ {0} BY <1>1, Empties, EmptySeq DEF TypingTexts
<1>5. \A i \in 1..Len(TheSegment) : i \in 1..Len(job.left) BY <1>3, <1>4
<1>6. Len(job.left) \in 1..Len(job.text) BY <1>1, <1>4
<1> QED BY <1>1, <1>2, <1>3, <1>4, <1>5, <1>6

LEMMA TypingSendsKeymap == ASSUME TypingInv, T!SendKeymap PROVE TypingInv'
<1> USE DEF TypingInv
<1>1. /\ ~T!Idle /\ job.at = "keymap" /\ ~cut
      /\ job' = [job EXCEPT !.at = "keymapSent"]
      /\ sent' = <<[name |-> "keymap", map |-> T!KeymapOf(TheSegment)]>>
      /\ UNCHANGED <<speaking, hyps, vkTyped, keymap, inField, cut, landed, outcome>>
  BY DEF T!SendKeymap, TheSegment
<1>2. /\ job' \in [for : {"none", "prefix", "final"}, text : TypingTexts, left : TypingTexts,
                   at : {"keymap", "keymapSent", "keysSent"}]
      /\ job'.for = job.for /\ job'.text = job.text /\ job'.left = job.left /\ job'.at = "keymapSent"
  BY <1>1 DEF TypingTypes
<1>3. TypingTypes' BY <1>1, <1>2 DEF TypingTypes
<1>4. JobInv' BY <1>1, <1>2 DEF JobInv, T!Idle
<1>5. SentInv' BY <1>1, <1>2 DEF SentInv, T!Idle, TheSegment
<1>6. LandedInv' BY <1>1, <1>2 DEF LandedInv, Landing, T!Idle, TheSegment
<1> QED BY <1>3, <1>4, <1>5, <1>6

LEMMA TypingSendsKeys == ASSUME TypingInv, T!SendKeys PROVE TypingInv'
<1> USE DEF TypingInv
<1> DEFINE keys == [i \in DOMAIN TheSegment |-> KeyFor(TheSegment, i)]
<1>1. /\ ~T!Idle /\ job.at = "keymapSent" /\ sent = <<>> /\ ~cut
      /\ job' = [job EXCEPT !.at = "keysSent"]
      /\ sent' = keys
      /\ UNCHANGED <<speaking, hyps, vkTyped, keymap, inField, cut, landed, outcome>>
  BY DEF T!SendKeys, TheSegment, KeyFor
<1>2. /\ job' \in [for : {"none", "prefix", "final"}, text : TypingTexts, left : TypingTexts,
                   at : {"keymap", "keymapSent", "keysSent"}]
      /\ job'.for = job.for /\ job'.text = job.text /\ job'.left = job.left /\ job'.at = "keysSent"
  BY <1>1 DEF TypingTypes
<1>3. PICK segment, len : segment = TheSegment /\ len = Len(TheSegment) OBVIOUS
<1>4. len \in Nat /\ segment \in TypingTexts /\ DOMAIN segment = 1..len /\ len = Len(segment)
  BY <1>1, <1>3, JobIs, LenProperties DEF TypingTexts
<1>5. \A i \in 1..len : KeyFor(segment, i) \in TypingKeys BY <1>4, KeysMean DEF KeyFor, TypingKeys
<1>6. keys = [i \in 1..len |-> KeyFor(segment, i)] BY <1>3, <1>4
<1> HIDE DEF keys
<1>7. keys \in [1..len -> TypingKeys] BY <1>5, <1>6
<1>8. keys \in Seq(TypingKeys) BY <1>4, <1>7, SeqDef
<1>9. Len(keys) = len
  <2>1. DOMAIN keys = 1..len /\ DOMAIN keys = 1..Len(keys) /\ Len(keys) \in Nat
    BY <1>6, <1>8, LenProperties
  <2> QED BY <1>4, <2>1
<1>10. TypingTypes' BY <1>1, <1>2 DEF TypingTypes
<1>11. JobInv' BY <1>1, <1>2 DEF JobInv, T!Idle
<1>12. SentInv'
  <2>1. TheSegment' = segment BY <1>2, <1>3 DEF TheSegment
  <2>2. keymap' = T!KeymapOf(segment) BY <1>1, <1>3 DEF SentInv
  <2>3. \A i \in 1..Len(sent') : sent'[i] = KeyFor(segment, i + (Len(segment) - Len(sent')))
    <3>1. \A i \in 1..len : i + (len - len) = i BY <1>4
    <3> QED BY <1>1, <1>4, <1>6, <1>9, <3>1
  <2>4. Len(sent') <= Len(segment) BY <1>1, <1>4, <1>9
  <2>5. ~T!Idle' /\ ~cut' /\ job'.at = "keysSent" BY <1>1, <1>2 DEF T!Idle
  <2> QED BY <1>1, <1>8, <2>1, <2>2, <2>3, <2>4, <2>5 DEF SentInv
<1>13. LandedInv'
  <2>1. Landing' = Landing
    <3>1. TheSegment' = segment BY <1>2, <1>3 DEF TheSegment
    <3>2. Len(TheSegment') - Len(sent') = 0 BY <1>1, <1>4, <1>9, <3>1
    <3>3. Len(job.text) \in Nat /\ Len(job.left) \in Nat BY <1>1, JobIs
    <3> QED BY <1>1, <1>2, <3>2, <3>3 DEF Landing
  <2> QED BY <1>1, <1>2, <2>1 DEF LandedInv, T!Idle
<1> QED BY <1>10, <1>11, <1>12, <1>13

LEMMA TypingMovesOn == ASSUME TypingInv, T!SegmentTyped PROVE TypingInv'
<1> USE DEF TypingInv
<1> DEFINE left == T!Rest(job.left, TheSegment)
           over == left = <<>>
<1>1. /\ ~T!Idle /\ job.at = "keysSent" /\ sent = <<>> /\ ~cut
      /\ job' = IF over THEN T!NoJob ELSE [job EXCEPT !.left = left, !.at = "keymap"]
      /\ vkTyped' = IF over /\ job.for = "prefix" THEN vkTyped \o job.text ELSE vkTyped
      /\ outcome' = IF over /\ job.for = "final" THEN [outcome EXCEPT !.injected = TRUE] ELSE outcome
      /\ UNCHANGED <<speaking, hyps, sent, keymap, inField, cut, landed>>
  BY DEF T!SegmentTyped, TheSegment
<1>2. PICK segment, t, n, k : segment = TheSegment /\ t = job.text /\ n = Len(job.left) /\ k = Len(TheSegment)
  OBVIOUS
<1>3. /\ segment \in TypingTexts /\ t \in TypingTexts /\ job.left \in TypingTexts
      /\ k \in 1..n /\ n \in 1..Len(t) /\ Len(t) \in Nat
      /\ \A i \in 1..n : job.left[i] = t[(Len(t) - n) + i]
  BY <1>1, <1>2, JobIs
<1>4. k \in Nat /\ n \in Nat /\ k <= n /\ n <= Len(t) /\ k # 0 BY <1>3
<1>5. /\ left \in TypingTexts /\ Len(left) = n - k
      /\ \A i \in 1..n - k : left[i] = job.left[k + i]
      /\ left = <<>> <=> k = n
  BY <1>2, <1>3, <1>4, RestIs
<1>6. vkTyped \in TypingTexts /\ landed \in TypingTexts BY DEF TypingTypes
<1>7. /\ Landing = (Len(t) - n) + k /\ landed = vkTyped \o SubSeq(t, 1, Landing)
  <2>1. Len(sent) = 0 BY <1>1, Empties
  <2>2. Landing = (Len(t) - n) + (k - Len(sent)) BY <1>1, <1>2 DEF Landing
  <2>3. Landing = (Len(t) - n) + k BY <1>3, <1>4, <2>1, <2>2
  <2>4. landed = vkTyped \o SubSeq(t, 1, Landing) BY <1>1, <1>2 DEF LandedInv
  <2> QED BY <2>3, <2>4
<1>8. job.for \in {"prefix", "final"} BY <1>1 DEF TypingTypes, T!Idle
<1>9. /\ job.for = "prefix" => speaking
      /\ job.for = "final" => ~speaking /\ ~outcome.byIm /\ outcome.text = vkTyped \o t
      /\ ~outcome.injected
  BY <1>1, <1>2 DEF JobInv
<1> HIDE DEF left
<1>10. CASE over
  <2>1. job' = T!NoJob /\ T!Idle' BY <1>1, <1>10 DEF T!Idle, T!NoJob
  <2>2. Landing = Len(t) BY <1>4, <1>5, <1>7, <1>10
  <2>3. landed = vkTyped \o t BY <1>3, <1>7, <2>2, SubSeqFull DEF TypingTexts
  <2>4. vkTyped' \in TypingTexts
    <3>1. vkTyped \o t \in TypingTexts BY <1>3, <1>6, ConcatProperties DEF TypingTexts
    <3> QED BY <1>1, <1>2, <1>6, <3>1
  <2>5. /\ outcome' \in [text : TypingTexts, injected : BOOLEAN, byIm : BOOLEAN]
        /\ outcome'.text = outcome.text /\ outcome'.byIm = outcome.byIm
        /\ outcome'.injected = (job.for = "final")
    <3>1. outcome \in [text : TypingTexts, injected : BOOLEAN, byIm : BOOLEAN] BY DEF TypingTypes
    <3>2. CASE job.for = "final" BY <1>1, <1>10, <3>1, <3>2
    <3>3. CASE job.for # "final"
      <4>1. outcome' = outcome BY <1>1, <3>3
      <4> QED BY <1>9, <3>1, <3>3, <4>1
    <3> QED BY <3>2, <3>3
  <2>6. TypingTypes' BY <1>1, <2>1, <2>4, <2>5, Empties DEF TypingTypes, T!NoJob
  <2>7. JobInv' BY <1>1, <1>9, <2>1, <2>5 DEF JobInv, T!Idle, T!NoJob
  <2>8. SentInv' BY <1>1, <2>1 DEF SentInv
  <2>9. LandedInv'
    <3>1. Landing' = 0 /\ job'.text = <<>> BY <2>1, Empties DEF Landing, T!NoJob
    <3>2. vkTyped' \o SubSeq(<<>>, 1, 0) = vkTyped' BY <2>4, IdleLands, Empties
    <3>3. CASE job.for = "prefix"
      <4>1. vkTyped' = landed /\ ~outcome'.injected BY <1>1, <1>2, <1>10, <2>3, <2>5, <3>3
      <4> QED BY <1>1, <3>1, <3>2, <4>1 DEF LandedInv
    <3>4. CASE job.for = "final"
      <4>1. vkTyped' = vkTyped /\ ~speaking' BY <1>1, <1>9, <3>4
      <4>2. landed = outcome'.text BY <1>9, <2>3, <2>5, <3>4
      <4>3. Len(t) \in 0..Len(t) BY <1>3
      <4>4. T!IsPrefix(vkTyped, vkTyped \o t) BY <1>3, <1>6, <4>3, PrefixOfConcat
      <4>5. outcome'.text = vkTyped \o t BY <1>9, <2>5, <3>4
      <4>6. T!IsPrefix(vkTyped', outcome'.text) BY <4>1, <4>4, <4>5
      <4> QED BY <1>1, <2>1, <4>1, <4>2, <4>6 DEF LandedInv
    <3> QED BY <1>8, <3>3, <3>4
  <2> QED BY <2>6, <2>7, <2>8, <2>9
<1>11. CASE ~over
  <2>1. /\ job' \in [for : {"none", "prefix", "final"}, text : TypingTexts, left : TypingTexts,
                     at : {"keymap", "keymapSent", "keysSent"}]
        /\ job'.for = job.for /\ job'.text = t /\ job'.left = left /\ job'.at = "keymap"
    <3>1. job' = [job EXCEPT !.left = left, !.at = "keymap"] BY <1>1, <1>11
    <3>2. job \in [for : {"none", "prefix", "final"}, text : TypingTexts, left : TypingTexts,
                   at : {"keymap", "keymapSent", "keysSent"}]
      BY DEF TypingTypes
    <3> QED BY <1>2, <1>5, <3>1, <3>2
  <2>2. UNCHANGED <<vkTyped, outcome>> BY <1>1, <1>11
  <2>3. ~T!Idle' BY <1>1, <2>1 DEF T!Idle
  <2>4. TypingTypes' BY <1>1, <2>1, <2>2 DEF TypingTypes
  <2>5. Len(left) <= Len(t) /\ left = SubSeq(t, Len(t) - Len(left) + 1, Len(t))
    <3>1. Len(left) <= Len(t) BY <1>4, <1>5
    <3>2. ASSUME NEW i \in 1..Len(left) PROVE left[i] = t[(Len(t) - Len(left)) + i]
      <4>1. i \in 1..n - k /\ k + i \in 1..n BY <1>4, <1>5
      <4>2. left[i] = job.left[k + i] BY <1>5, <4>1
      <4>3. job.left[k + i] = t[(Len(t) - n) + (k + i)] BY <1>3, <4>1
      <4>4. (Len(t) - n) + (k + i) = (Len(t) - Len(left)) + i BY <1>3, <1>4, <1>5, <4>1
      <4> QED BY <4>2, <4>3, <4>4
    <3> QED BY <1>3, <1>5, <3>1, <3>2, SuffixIs
  <2>6. JobInv' BY <1>1, <1>2, <1>9, <1>11, <2>1, <2>2, <2>3, <2>5 DEF JobInv
  <2>7. SentInv' BY <1>1, <2>1 DEF SentInv
  <2>8. Landing' = Landing
    <3>1. Landing' = (Len(t) - Len(left)) + 0 BY <2>1 DEF Landing
    <3> QED BY <1>3, <1>4, <1>5, <1>7, <3>1
  <2>9. LandedInv' BY <1>1, <1>7, <1>9, <2>1, <2>2, <2>8 DEF LandedInv
  <2> QED BY <2>4, <2>6, <2>7, <2>9
<1> QED BY <1>10, <1>11

LEMMA TypingBreaksOff == ASSUME TypingInv, T!TypingFails PROVE TypingInv'
<1> USE DEF TypingInv
<1>1. /\ ~T!Idle /\ cut /\ job' = T!NoJob
      /\ UNCHANGED <<speaking, hyps, vkTyped, sent, keymap, inField, cut, landed, outcome>>
  BY DEF T!TypingFails
<1>2. T!Idle' BY <1>1 DEF T!Idle, T!NoJob
<1>3. TypingTypes' BY <1>1, Empties DEF TypingTypes, T!NoJob
<1>4. JobInv' BY <1>1, <1>2 DEF JobInv, T!NoJob
<1>5. SentInv' BY <1>1 DEF SentInv
<1>6. LandedInv' BY <1>1 DEF LandedInv
<1> QED BY <1>3, <1>4, <1>5, <1>6

LEMMA TypingHandles == ASSUME TypingInv, T!Handle PROVE TypingInv'
<1> USE DEF TypingInv
<1>1. sent # <<>> /\ sent' = Tail(sent)
      /\ UNCHANGED <<speaking, hyps, vkTyped, job, inField, cut, outcome>>
  BY DEF T!Handle
<1>2. ~cut /\ ~T!Idle /\ job.at \in {"keymapSent", "keysSent"}
  BY <1>1 DEF SentInv, TypingTypes
<1>3. TheSegment' = TheSegment /\ T!Idle' = T!Idle BY <1>1 DEF TheSegment, T!Idle
<1>4. JobInv' BY <1>1, <1>3 DEF JobInv
<1>5. job.left \in TypingTexts /\ job.left # <<>> BY <1>2, JobIs
<1>6. CASE job.at = "keymapSent"
  <2>1. PICK map : map = T!KeymapOf(TheSegment) OBVIOUS
  <2>2. sent = <<[name |-> "keymap", map |-> map]>> BY <1>1, <1>2, <1>6, <2>1 DEF SentInv
  <2>3. Head(sent).name = "keymap" /\ Head(sent).map = map /\ sent' = <<>> BY <1>1, <2>2
  <2>4. keymap' = T!Installed(map) /\ UNCHANGED landed BY <2>3 DEF T!Handle
  <2>5. keymap' = map /\ DOMAIN map \subseteq 1..Room
    <3>1. map = T!KeymapOf(T!SegmentOf(job.left)) BY <2>1 DEF TheSegment
    <3>2. DOMAIN map \subseteq 1..Room /\ T!Installed(map) = map
      BY <1>5, <3>1, KeymapFits
    <3> QED BY <2>4, <3>2
  <2>6. TypingTypes' BY <1>1, <2>4, <2>5 DEF TypingTypes
  <2>7. SentInv' BY <1>1, <1>3, <1>6, <2>1, <2>3, <2>5 DEF SentInv
  <2>8. LandedInv' BY <1>1, <1>3, <1>6, <2>4 DEF LandedInv, Landing
  <2> QED BY <1>4, <2>6, <2>7, <2>8
<1>7. CASE job.at = "keysSent"
  <2>1. PICK segment, t, d, len, k :
          /\ segment = TheSegment /\ t = job.text /\ d = Len(job.text) - Len(job.left)
          /\ len = Len(sent) /\ k = Len(TheSegment) - Len(sent)
    OBVIOUS
  <2>2. /\ keymap = T!KeymapOf(segment) /\ sent \in Seq(TypingKeys) /\ len <= Len(segment)
        /\ \A i \in 1..len : sent[i] = KeyFor(segment, i + k)
    BY <1>2, <1>7, <2>1 DEF SentInv
  <2>3. /\ segment \in TypingTexts /\ t \in TypingTexts
        /\ Len(segment) \in 1..Len(job.left) /\ Len(job.left) \in 1..Len(t) /\ Len(t) \in Nat
        /\ \A i \in 1..Len(segment) : segment[i] = t[d + i]
    BY <1>2, <2>1, JobIs
  <2>4. len \in Nat /\ len # 0 BY <1>1, <2>1, <2>2, EmptySeq, LenProperties
  <2>5. /\ k \in Nat /\ d \in Nat /\ k + 1 \in 1..Len(segment) /\ k + 1 = 1 + k /\ 1 \in 1..len
        /\ d + k \in 0..Len(t) - 1 /\ (d + k) + 1 = d + (k + 1)
    <3>1. PICK all, l, n : all = Len(segment) /\ l = Len(job.left) /\ n = Len(t) OBVIOUS
    <3>2. k = all - len /\ d = n - l BY <2>1, <3>1
    <3>3. all \in 1..l /\ l \in 1..n /\ n \in Nat /\ len \in Nat \ {0} /\ len <= all
      BY <2>2, <2>3, <2>4, <3>1
    <3>4. /\ k \in Nat /\ d \in Nat /\ k + 1 \in 1..all /\ k + 1 = 1 + k /\ 1 \in 1..len
          /\ d + k \in 0..n - 1 /\ (d + k) + 1 = d + (k + 1)
      BY <3>2, <3>3
    <3> QED BY <3>1, <3>4
  <2>6. Head(sent) = KeyFor(segment, k + 1)
    <3>1. Head(sent) = sent[1] BY <2>2
    <3> QED BY <2>2, <2>5, <3>1
  <2>7. Head(sent).name = "key" /\ Head(sent).code = T!CodeOf(segment, segment[k + 1])
    BY <2>6 DEF KeyFor
  <2>8. /\ Head(sent).code \in DOMAIN keymap
        /\ keymap[Head(sent).code] = segment[k + 1]
    BY <2>2, <2>3, <2>5, <2>7, KeysMean
  <2>9. landed' = Append(landed, segment[k + 1]) /\ UNCHANGED keymap
    BY <2>7, <2>8 DEF T!Handle
  <2>10. /\ Tail(sent) \in Seq(TypingKeys) /\ Len(Tail(sent)) = len - 1
         /\ \A i \in 1..Len(Tail(sent)) : Tail(sent)[i] = sent[i + 1]
    BY <1>1, <2>1, <2>2, HeadTailProperties
  <2>11. Landing = d + k /\ Landing' = d + (k + 1)
    <3>1. Landing = d + k BY <1>7, <2>1 DEF Landing
    <3>2. Landing' = d + (Len(segment) - (len - 1)) BY <1>1, <1>3, <1>7, <2>1, <2>10 DEF Landing
    <3> QED BY <2>1, <2>3, <2>4, <3>1, <3>2
  <2>12. landed = vkTyped \o SubSeq(t, 1, d + k) /\ vkTyped \in TypingTexts
    BY <1>2, <2>1, <2>11 DEF LandedInv, TypingTypes
  <2>13. landed' = vkTyped \o SubSeq(t, 1, d + (k + 1))
    <3>1. segment[k + 1] = t[(d + k) + 1] BY <2>3, <2>5
    <3> QED BY <2>3, <2>5, <2>9, <2>12, <3>1, NextLands
  <2>14. TypingTypes'
    <3>1. segment[k + 1] \in TypingChars BY <2>3, <2>5, ElementOfSeq DEF TypingTexts
    <3>2. landed' \in TypingTexts BY <2>9, <3>1, AppendProperties DEF TypingTypes, TypingTexts
    <3> QED BY <1>1, <2>9, <3>2 DEF TypingTypes
  <2>15. SentInv'
    <3>1. Len(sent') = len - 1 /\ len - 1 <= Len(segment) BY <1>1, <2>2, <2>3, <2>4, <2>10
    <3>2. ASSUME NEW i \in 1..Len(sent')
          PROVE  sent'[i] = KeyFor(segment, i + (Len(segment) - Len(sent')))
      <4>1. i + 1 \in 1..len /\ (i + 1) + k = i + (Len(segment) - Len(sent'))
        BY <2>1, <2>3, <2>4, <3>1
      <4>2. sent'[i] = sent[i + 1] BY <1>1, <2>10, <3>1
      <4> QED BY <2>2, <4>1, <4>2
    <3> QED BY <1>1, <1>3, <1>7, <2>1, <2>2, <2>9, <2>10, <3>1, <3>2 DEF SentInv
  <2>16. LandedInv'
    <3>1. ~outcome'.injected BY <1>1, <1>2 DEF JobInv
    <3> QED BY <1>1, <2>1, <2>11, <2>13, <3>1 DEF LandedInv
  <2> QED BY <1>4, <2>14, <2>15, <2>16
<1> QED BY <1>2, <1>6, <1>7

LEMMA TypingAround == ASSUME TypingInv, T!FocusMoves \/ T!Disconnects PROVE TypingInv'
<1> USE DEF TypingInv
<1>1. CASE T!FocusMoves
  <2>1. TypingTypes' BY <1>1 DEF TypingTypes, T!FocusMoves
  <2>2. JobInv' BY <1>1 DEF JobInv, T!FocusMoves, T!Idle
  <2>3. SentInv' BY <1>1 DEF SentInv, T!FocusMoves, T!Idle, TheSegment
  <2>4. LandedInv' BY <1>1 DEF LandedInv, Landing, T!FocusMoves, T!Idle, TheSegment
  <2> QED BY <2>1, <2>2, <2>3, <2>4
<1>2. CASE T!Disconnects
  <2>1. TypingTypes' BY <1>2 DEF TypingTypes, T!Disconnects
  <2>2. JobInv' BY <1>2 DEF JobInv, T!Disconnects, T!Idle
  <2>3. SentInv' BY <1>2 DEF SentInv, T!Disconnects
  <2>4. LandedInv' BY <1>2 DEF LandedInv, T!Disconnects
  <2> QED BY <2>1, <2>2, <2>3, <2>4
<1> QED BY <1>1, <1>2

LEMMA TypingKeeps == ASSUME TypingInv, T!Next PROVE TypingInv'
<1>1. CASE T!Begins BY <1>1, TypingBegins
<1>2. CASE T!Abandons BY <1>2, TypingAbandons
<1>3. ASSUME NEW text \in Hypotheses, T!ShowPartial(text) PROVE TypingInv' BY <1>3, TypingShows
<1>4. ASSUME NEW text \in Finals, T!Commits(text) PROVE TypingInv' BY <1>4, TypingCommits
<1>5. CASE T!SendKeymap BY <1>5, TypingSendsKeymap
<1>6. CASE T!SendKeys BY <1>6, TypingSendsKeys
<1>7. CASE T!SegmentTyped BY <1>7, TypingMovesOn
<1>8. CASE T!TypingFails BY <1>8, TypingBreaksOff
<1>9. CASE T!Handle BY <1>9, TypingHandles
<1>10. CASE T!FocusMoves \/ T!Disconnects BY <1>10, TypingAround
<1> QED BY <1>1, <1>2, <1>3, <1>4, <1>5, <1>6, <1>7, <1>8, <1>9, <1>10 DEF T!Next

LEMMA TypingStands == ASSUME TypingInv, UNCHANGED typing PROVE TypingInv'
<1> USE DEF TypingInv
<1>1. UNCHANGED <<speaking, hyps, vkTyped, job, sent, keymap, inField, cut, landed, outcome, utts, said>>
  BY DEF typing
<1>2. TypingTypes' BY <1>1 DEF TypingTypes
<1>3. JobInv' BY <1>1 DEF JobInv, T!Idle
<1>4. SentInv' BY <1>1 DEF SentInv, T!Idle, TheSegment
<1>5. LandedInv' BY <1>1 DEF LandedInv, Landing, T!Idle, TheSegment
<1> QED BY <1>2, <1>3, <1>4, <1>5

-----------------------------------------------------------------------------

\* Typing, inductively: what has landed is what is on record and as much of the
\* job's text as the compositor has handled keys for (inject.rs type_text).
THEOREM TypingInvariant == Spec => []TypingInv
<1>1. Init => TypingInv BY TypingStarts DEF Init
<1>2. TypingInv /\ [Next]_vars => TypingInv'
  <2> SUFFICES ASSUME TypingInv, [Next]_vars PROVE TypingInv' OBVIOUS
  <2>1. CASE TypingStep BY <2>1, TypingKeeps DEF TypingStep
  <2>2. CASE UNCHANGED typing BY <2>2, TypingStands
  <2>3. TypingStep \/ UNCHANGED typing
    BY DEF Next, vars, MirrorsStep, UpstreamStep, PopupStep, FieldStep, CaptureStep
  <2> QED BY <2>1, <2>2, <2>3
<1> QED BY <1>1, <1>2, PTL DEF Spec

\* Applications get what was said, each character once and in order, whatever
\* the segments and their keymaps, and wherever focus goes (engine.rs
\* show_partial, commit; inject.rs type_text).
THEOREM SaidIsTyped == Spec => []TypesWhatWasSaid
<1>1. TypingInv => TypesWhatWasSaid
  <2> SUFFICES ASSUME TypingInv, ~cut PROVE T!TypesWhatWasSaid
    BY DEF TypesWhatWasSaid, T!TypesWhatWasSaid
  <2>1. vkTyped \in TypingTexts /\ job.text \in TypingTexts BY DEF TypingInv, TypingTypes
  <2>2. ASSUME speaking \/ job.for = "final"
        PROVE  T!IsPrefix(vkTyped, landed) /\ T!IsPrefix(landed, vkTyped \o job.text)
    <3>1. landed = vkTyped \o SubSeq(job.text, 1, Landing)
      BY <2>2 DEF TypingInv, LandedInv, T!Idle
    <3>2. Landing \in 0..Len(job.text)
      <4>1. CASE T!Idle
        <5>1. job = T!NoJob BY <4>1 DEF TypingInv, JobInv
        <5> QED BY <5>1, Empties DEF Landing, T!NoJob
      <4>2. CASE ~T!Idle
        <5>1. PICK l, t, k : l = Len(job.left) /\ t = Len(job.text) /\ k = Len(TheSegment) OBVIOUS
        <5>2. k \in 1..l /\ l \in 1..t /\ t \in Nat BY <4>2, <5>1, JobIs
        <5>3. job.at = "keysSent" => Len(sent) \in Nat /\ Len(sent) <= k
          <6>1. ASSUME job.at = "keysSent" PROVE sent \in Seq(TypingKeys) /\ Len(sent) <= k
            BY <4>2, <5>1, <6>1 DEF TypingInv, SentInv
          <6> QED BY <6>1, LenProperties
        <5>4. PICK m : m = (IF job.at = "keysSent" THEN k - Len(sent) ELSE 0) OBVIOUS
        <5>5. m \in 0..k
          <6>1. CASE job.at = "keysSent" BY <5>2, <5>3, <5>4, <6>1
          <6>2. CASE job.at # "keysSent" BY <5>2, <5>4, <6>2
          <6> QED BY <6>1, <6>2
        <5>6. Landing = (t - l) + m BY <5>1, <5>4 DEF Landing
        <5>7. (t - l) + m \in 0..t BY <5>2, <5>5
        <5> QED BY <5>1, <5>6, <5>7
      <4> QED BY <4>1, <4>2
    <3> QED BY <2>1, <3>1, <3>2, PrefixOfConcat
  <2>3. outcome.injected /\ ~(outcome.byIm /\ vkTyped # <<>>) =>
          landed = (IF outcome.byIm \/ T!IsPrefix(vkTyped, outcome.text) THEN outcome.text ELSE vkTyped)
    BY DEF TypingInv, LandedInv
  <2> QED BY <2>2, <2>3 DEF T!TypesWhatWasSaid
<1> QED BY <1>1, TypingInvariant, PTL

-----------------------------------------------------------------------------
(* Field: the inductive invariant *)

FieldTexts    == Seq(Chars)
FieldContents == {F!FreeForm} \cup {F!FromWayland(f.content) : f \in Fields}
FieldAround   ==
  {F!None} \cup {s \in [text : FieldTexts, cursor : Nat, anchor : Nat, known : {TRUE}] :
                   s.cursor <= F!ByteOffset(s.text, Len(s.text))}
FieldStates   == [active : BOOLEAN, surrounding : FieldAround, content : FieldContents]
FieldApps     == [on : BOOLEAN, text : FieldTexts, caret : Nat, field : Fields \cup {F!NoField.field}]
FieldEvents   ==
  [name : {"Activate", "Deactivate", "Done"}] \cup
  {e \in [name : {"SurroundingText"}, text : FieldTexts, cursor : Nat, anchor : Nat] :
     e.cursor <= F!ByteOffset(e.text, Len(e.text))} \cup
  [name : {"ContentType"}, content : {f.content : f \in Fields}]
FieldRequests ==
  [name : {"commit"}, char : Chars] \cup
  [name : {"delete"}, before : Int, after : Int, seen : FieldApps, offset : Int, nchars : Nat,
   fresh : BOOLEAN]
FieldContexts ==
  [text : FieldTexts, caret : Nat, anchor : Nat, content : FieldContents, focus : BOOLEAN]

FieldTypes ==
  /\ app \in FieldApps /\ app.caret <= Len(app.text) /\ (app.on => app.field \in Fields)
  /\ inbox \in Seq(FieldEvents)
  /\ next \in FieldStates /\ now \in FieldStates
  /\ wants \in BOOLEAN
  /\ context \in FieldContexts /\ context.caret <= Len(context.text)

\* One event, and all of a queue of them, read from a pending state s.
After(s, e) ==
  CASE e.name = "Activate"        -> F!Activated
    [] e.name = "Deactivate"      -> [s EXCEPT !.active = FALSE]
    [] e.name = "SurroundingText" ->
         [s EXCEPT !.surrounding = [text |-> e.text, cursor |-> e.cursor, anchor |-> e.anchor, known |-> TRUE]]
    [] e.name = "ContentType"     -> [s EXCEPT !.content = F!FromWayland(e.content)]
    [] OTHER                      -> s

Reads(q, s, t) ==
  \E run \in [0..Len(q) -> FieldStates] :
    /\ run[0] = s /\ run[Len(q)] = t
    /\ \A i \in 1..Len(q) : run[i] = After(run[i - 1], q[i])

\* A pending state that describes the application's field.
AroundOf(a) ==
  IF a.field.tells
  THEN [text |-> a.text, cursor |-> F!ByteOffset(a.text, a.caret),
        anchor |-> F!ByteOffset(a.text, a.caret), known |-> TRUE]
  ELSE F!None

Describes(s, a) ==
  /\ s.active = a.on
  /\ a.on => s.content = F!FromWayland(a.field.content) /\ s.surrounding = AroundOf(a)

\* Once all of the inbox is read, the pending state does, and is in effect.
InboxInv ==
  /\ inbox = <<>> => now = next
  /\ inbox # <<>> => inbox[Len(inbox)].name = "Done"
  /\ \E s \in FieldStates : Reads(inbox, next, s) /\ Describes(s, app)

\* The context has the focus and the content type of the last done, and its
\* text if the engine wants it.
Tells(c, w) ==
  /\ c.focus = (now.active /\ ~F!Secret(now.content))
  /\ c.focus => c.content = now.content
  /\ c.focus /\ w => c.text = now.surrounding.text

\* A deletion takes whole characters, and at least those asked for.
Takes(d) ==
  /\ F!Wanted(d) \subseteq F!Goes(d)
  /\ LET at == F!ByteOffset(d.seen.text, d.seen.caret)
     IN \E l, r \in 0..Len(d.seen.text) :
          F!ByteOffset(d.seen.text, l) = at - d.before /\ F!ByteOffset(d.seen.text, r) = at + d.after

Asks(q) ==
  q \in Seq(FieldRequests) /\ \A i \in DOMAIN q : q[i].name = "delete" /\ q[i].fresh => Takes(q[i])

FieldInv == FieldTypes /\ InboxInv /\ Tells(context, wants) /\ Asks(requests)

-----------------------------------------------------------------------------
(* Runs: what a step of its own for each place of a sequence makes of a value *)

LEMMA RunStays ==
  ASSUME NEW k \in Nat, NEW run, NEW S, run[0] \in S,
         \A n \in 1..k : run[n - 1] \in S => run[n] \in S
  PROVE  \A n \in 0..k : run[n] \in S
<1> DEFINE those == {n \in 0..k : run[n] \notin S}
<1>1. SUFFICES ASSUME those # {} PROVE FALSE OBVIOUS
<1>2. those \in SUBSET Nat OBVIOUS
<1>3. PICK n \in those : \A m \in those : n <= m BY <1>1, <1>2, LeastOf
<1>4. n \in 1..k /\ n - 1 \in 0..k /\ ~(n <= n - 1) BY <1>3
<1>5. n - 1 \notin those BY <1>3, <1>4
<1>6. run[n - 1] \in S BY <1>4, <1>5
<1> QED BY <1>3, <1>4, <1>6

Runs(S, k, x, g) == {run \in [0..k -> S] : run[0] = x /\ \A n \in 1..k : run[n] = g[n][run[n - 1]]}

LEMMA RunExists ==
  ASSUME NEW S, NEW k \in Nat, NEW x \in S, NEW g, \A n \in 1..k : \A d \in S : g[n][d] \in S
  PROVE  Runs(S, k, x, g) # {}
<1> DEFINE those == {m \in 0..k : Runs(S, m, x, g) = {}}
<1>1. SUFFICES ASSUME k \in those PROVE FALSE
  <2>1. k \in 0..k OBVIOUS
  <2> QED BY <2>1
<1>2. those \in SUBSET Nat /\ those # {} BY <1>1
<1>3. PICK m \in those : \A n \in those : m <= n BY <1>2, LeastOf
<1>4. m # 0
  <2>1. SUFFICES ASSUME m = 0 PROVE FALSE OBVIOUS
  <2>2. [n \in 0..0 |-> x] \in [0..0 -> S] /\ [n \in 0..0 |-> x][0] = x OBVIOUS
  <2>3. 1..0 = {} OBVIOUS
  <2>4. [n \in 0..0 |-> x] \in Runs(S, 0, x, g) BY <2>2, <2>3 DEF Runs
  <2> QED BY <1>3, <2>1, <2>4
<1>5. m \in 1..k /\ m - 1 \in 0..k /\ ~(m <= m - 1) BY <1>3, <1>4
<1>6. m - 1 \notin those BY <1>3, <1>5
<1>7. PICK run : run \in Runs(S, m - 1, x, g) BY <1>5, <1>6
<1> DEFINE more == [n \in 0..m |-> IF n = m THEN g[m][run[m - 1]] ELSE run[n]]
<1>8. /\ run \in [0..m - 1 -> S] /\ run[0] = x
      /\ \A n \in 1..m - 1 : run[n] = g[n][run[n - 1]]
  BY <1>7 DEF Runs
<1>9. g[m][run[m - 1]] \in S
  <2>1. run[m - 1] \in S BY <1>5, <1>8
  <2> QED BY <1>5, <2>1
<1>10. \A n \in 0..m : n # m => n \in 0..m - 1 BY <1>5
<1>11. more \in [0..m -> S] BY <1>8, <1>9, <1>10
<1>12. more[0] = x BY <1>5, <1>8
<1>13. ASSUME NEW n \in 1..m PROVE more[n] = g[n][more[n - 1]]
  <2>1. n \in 0..m /\ n - 1 \in 0..m /\ n - 1 # m BY <1>5
  <2>2. more[n - 1] = run[n - 1] BY <2>1
  <2>3. CASE n = m BY <2>1, <2>2, <2>3
  <2>4. CASE n # m
    <3>1. n \in 1..m - 1 BY <1>5, <2>4
    <3>2. more[n] = run[n] BY <2>1, <2>4
    <3> QED BY <1>8, <2>2, <3>1, <3>2
  <2> QED BY <2>3, <2>4
<1>14. more \in Runs(S, m, x, g) BY <1>11, <1>12, <1>13 DEF Runs
<1> QED BY <1>3, <1>14

-----------------------------------------------------------------------------
(* Field: offsets *)

LEMMA FieldCardinality == ASSUME NEW S PROVE F!Cardinality(S) = Cardinality(S)
  BY DEF F!Cardinality, Cardinality

\* An offset counts a byte for each character before it and two for each wide
\* one; so a longer part of a text ends at a larger one.
LEMMA OffsetIs ==
  ASSUME NEW text, Len(text) \in Nat, NEW n \in 0..Len(text)
  PROVE  /\ F!ByteOffset(text, n) = n + 2 * Cardinality({i \in 1..n : text[i] \in Wide})
         /\ Cardinality({i \in 1..n : text[i] \in Wide}) \in Nat
         /\ IsFiniteSet({i \in 1..n : text[i] \in Wide})
         /\ F!ByteOffset(text, n) \in Nat
<1>1. n \in Nat /\ F!Least(n, Len(text)) = n BY DEF F!Least
<1>2. IsFiniteSet(1..n) /\ Cardinality(1..n) = n
  <2>1. IsFiniteSet(1..n) /\ Cardinality(1..n) = IF 1 <= n THEN n - 1 + 1 ELSE 0 BY <1>1, FS_Interval
  <2> QED BY <1>1, <2>1
<1>3. PICK wide : wide = {i \in 1..n : text[i] \in Wide} OBVIOUS
<1>4. IsFiniteSet(wide) /\ Cardinality(wide) \in Nat BY <1>2, <1>3, FS_Subset, FS_CardinalityType
<1>5. F!ByteOffset(text, n) = n + 2 * Cardinality(wide)
  BY <1>1, <1>2, <1>3, FieldCardinality DEF F!ByteOffset
<1> QED BY <1>1, <1>3, <1>4, <1>5

LEMMA OffsetsGrow ==
  ASSUME NEW text, Len(text) \in Nat, NEW m \in 0..Len(text), NEW n \in 0..Len(text), m < n
  PROVE  F!ByteOffset(text, m) < F!ByteOffset(text, n)
<1>1. PICK a, b : a = {i \in 1..m : text[i] \in Wide} /\ b = {i \in 1..n : text[i] \in Wide} OBVIOUS
<1>2. a \subseteq b
  <2>1. 1..m \subseteq 1..n OBVIOUS
  <2> QED BY <1>1, <2>1
<1>3. Cardinality(a) \in Nat /\ Cardinality(b) \in Nat /\ IsFiniteSet(b) BY <1>1, OffsetIs
<1>4. Cardinality(a) <= Cardinality(b) BY <1>2, <1>3, FS_Subset
<1>5. F!ByteOffset(text, m) = m + 2 * Cardinality(a) /\ F!ByteOffset(text, n) = n + 2 * Cardinality(b)
  BY <1>1, OffsetIs
<1> QED BY <1>3, <1>4, <1>5

\* An offset leads back to its character.
LEMMA CharOffsetIs ==
  ASSUME NEW text, Len(text) \in Nat, NEW n \in 0..Len(text)
  PROVE  F!CharOffset(text, F!ByteOffset(text, n)) = n
<1> DEFINE at == F!ByteOffset(text, n)
           Is(k) == /\ F!ByteOffset(text, k) <= at
                    /\ \A m \in 0..Len(text) : F!ByteOffset(text, m) <= at => m <= k
<1>1. \A m \in 0..Len(text) : F!ByteOffset(text, m) \in Nat BY OffsetIs
<1>2. \A m \in 0..Len(text) : F!ByteOffset(text, m) <= at => m <= n
  <2>1. SUFFICES ASSUME NEW m \in 0..Len(text), n < m PROVE ~(F!ByteOffset(text, m) <= at) OBVIOUS
  <2>2. at < F!ByteOffset(text, m) BY <2>1, OffsetsGrow
  <2> QED BY <1>1, <2>2
<1>3. Is(n) BY <1>1, <1>2
<1>4. ASSUME NEW k \in 0..Len(text), Is(k) PROVE k = n
  <2>1. k <= n BY <1>2, <1>4
  <2>2. n <= k BY <1>1, <1>4
  <2> QED BY <2>1, <2>2
<1>5. F!CharOffset(text, at) = CHOOSE k \in 0..Len(text) : Is(k) BY DEF F!CharOffset
<1> QED BY <1>3, <1>4, <1>5

\* Any offset leads to a character.
LEMMA CharOffsetType ==
  ASSUME NEW text, Len(text) \in Nat, NEW bytes \in Nat
  PROVE  F!CharOffset(text, bytes) \in 0..Len(text)
<1> DEFINE those == {n \in 0..Len(text) : F!ByteOffset(text, n) <= bytes}
           Is(k) == /\ F!ByteOffset(text, k) <= bytes
                    /\ \A m \in 0..Len(text) : F!ByteOffset(text, m) <= bytes => m <= k
<1>1. 0 \in those
  <2>1. {i \in 1..0 : text[i] \in Wide} = {} OBVIOUS
  <2>2. F!ByteOffset(text, 0) = 0 + 2 * Cardinality({i \in 1..0 : text[i] \in Wide}) BY OffsetIs
  <2>3. F!ByteOffset(text, 0) = 0 BY <2>1, <2>2, FS_EmptySet
  <2> QED BY <2>3
<1>2. PICK n \in those : \A k \in those : k <= n BY <1>1, GreatestOf
<1>3. n \in 0..Len(text) /\ Is(n) BY <1>2
<1>4. F!CharOffset(text, bytes) = CHOOSE k \in 0..Len(text) : Is(k) BY DEF F!CharOffset
<1> QED BY <1>3, <1>4

\* What a deletion takes, by a text and a caret that are the application's.
LEMMA RangeTakes ==
  ASSUME NEW text, Len(text) \in Nat, NEW caret \in 0..Len(text),
         NEW offset \in Int, NEW nchars \in Nat,
         NEW d, DOMAIN d.seen.text = 1..Len(text), d.seen.text = text, d.seen.caret = caret,
         d.offset = offset, d.nchars = nchars,
         LET r == F!DeleteRange(text, F!ByteOffset(text, caret), offset, nchars)
         IN d.before = r.before /\ d.after = r.after
  PROVE  Takes(d)
<1>1. PICK len : len = Len(text) OBVIOUS
<1>2. PICK start : start = F!Clamp(caret + offset, len) OBVIOUS
<1>3. PICK end : end = F!Clamp(start + nchars, len) OBVIOUS
<1>4. len \in Nat /\ caret \in 0..len BY <1>1
<1>5. start \in 0..len /\ end \in 0..len
  <2>1. start \in 0..len BY <1>2, <1>4 DEF F!Clamp
  <2> QED BY <1>3, <1>4, <2>1 DEF F!Clamp
<1>6. PICK l, r : l = F!Least(start, caret) /\ r = F!Most(end, caret) OBVIOUS
<1>7. l \in 0..len /\ l <= start /\ r \in 0..len /\ end <= r BY <1>4, <1>5, <1>6 DEF F!Least, F!Most
<1>8. PICK at, bl, br : at = F!ByteOffset(text, caret) /\ bl = F!ByteOffset(text, l) /\ br = F!ByteOffset(text, r)
  OBVIOUS
<1>9. at \in Nat /\ bl \in Nat /\ br \in Nat BY <1>1, <1>7, <1>8, OffsetIs
<1>10. d.before = at - bl /\ d.after = br - at
  <2>1. F!CharOffset(text, at) = caret BY <1>8, CharOffsetIs
  <2>2. F!DeleteRange(text, at, offset, nchars) = [before |-> at - bl, after |-> br - at]
    BY <1>1, <1>2, <1>3, <1>6, <1>8, <2>1 DEF F!DeleteRange
  <2> QED BY <1>8, <2>2
<1>11. at - d.before = bl /\ at + d.after = br BY <1>9, <1>10
<1>12. F!Wanted(d) \subseteq F!Goes(d)
  <2> SUFFICES ASSUME NEW i \in 1..len, i > caret + offset, i <= caret + offset + nchars
               PROVE  F!ByteOffset(text, i) > bl /\ F!ByteOffset(text, i - 1) < br
    BY <1>1, <1>8, <1>11 DEF F!Wanted, F!Goes
  <2>1. start < i BY <1>2, <1>4 DEF F!Clamp
  <2>2. i - 1 < end BY <1>2, <1>3, <1>4 DEF F!Clamp
  <2>3. i \in 0..len /\ i - 1 \in 0..len /\ l < i /\ i - 1 < r BY <1>4, <1>5, <1>7, <2>1, <2>2
  <2>4. bl < F!ByteOffset(text, i) BY <1>1, <1>7, <1>8, <2>3, OffsetsGrow
  <2>5. F!ByteOffset(text, i - 1) < br BY <1>1, <1>7, <1>8, <2>3, OffsetsGrow
  <2>6. F!ByteOffset(text, i) \in Nat BY <1>1, <2>3, OffsetIs
  <2> QED BY <1>9, <2>4, <2>5, <2>6
<1> QED BY <1>1, <1>7, <1>8, <1>11, <1>12 DEF Takes

-----------------------------------------------------------------------------
(* Field: content types *)

\* The daemon takes for secret what the field says is.
LEMMA SecretIsTold ==
  ASSUME NEW content
  PROVE  F!Secret(F!FromWayland(content)) <=> (content.purpose \in {8, 9} \/ 6 \in content.hints)
<1> DEFINE w == F!FromWayland(content)
<1>1. w.purpose = IF content.purpose \in 0..13 THEN F!IbusPurpose[content.purpose] ELSE 0
  BY DEF F!FromWayland, F!IbusPurpose
<1>2. w.purpose \in {8, 9} <=> content.purpose \in {8, 9}
  <2>1. CASE content.purpose \in 0..13
    <3>1. PICK p \in 0..13 : p = content.purpose BY <2>1
    <3>2. F!IbusPurpose[p] = CASE p <= 9 -> p [] p = 13 -> 10 [] OTHER -> p + 1 BY DEF F!IbusPurpose
    <3>3. CASE p <= 9
      <4>1. F!IbusPurpose[p] = p BY <3>2, <3>3
      <4> QED BY <1>1, <2>1, <3>1, <4>1
    <3>4. CASE p > 9
      <4>1. F!IbusPurpose[p] = IF p = 13 THEN 10 ELSE p + 1 BY <3>2, <3>4
      <4> QED BY <1>1, <2>1, <3>1, <3>4, <4>1
    <3> QED BY <3>3, <3>4
  <2>2. CASE content.purpose \notin 0..13 BY <1>1, <2>2
  <2> QED BY <2>1, <2>2
<1>3. w.hints = {F!IbusHint[bit + 1] : bit \in content.hints \cap 0..9} BY DEF F!FromWayland
<1>4. \A bit \in 0..9 : F!IbusHint[bit + 1] = 12 <=> bit = 6 BY DEF F!IbusHint
<1>5. 12 \in w.hints <=> 6 \in content.hints BY <1>3, <1>4
<1> HIDE DEF w
<1> QED BY <1>2, <1>5 DEF F!Secret, w

-----------------------------------------------------------------------------
(* Field: the inbox *)

LEMMA FieldConstants ==
  /\ \A f \in Fields : f.tells \in BOOLEAN /\ (f.content.told \/ f.content = F!NoContent)
  /\ \A d \in Drains :
       /\ d \in Seq(F!Range(d))
       /\ \A i \in DOMAIN d : /\ d[i].name \in F!EffectNames
                              /\ (d[i].name = "commit" => d[i].char \in Chars)
                              /\ (d[i].name = "delete" => d[i].offset \in Int /\ d[i].nchars \in Nat)
<1>1. F!FieldBounds BY PeripheryAssumption
<1>2. \A f \in Fields : f.tells \in BOOLEAN /\ (f.content.told \/ f.content = F!NoContent)
  BY <1>1 DEF F!FieldBounds
<1> QED BY <1>1, <1>2 DEF F!FieldBounds

LEMMA FreeFormIs == F!FromWayland(F!NoContent) = F!FreeForm
<1>1. F!IbusPurpose[0] = 0 BY DEF F!IbusPurpose
<1>2. 0 \in DOMAIN F!IbusPurpose BY DEF F!IbusPurpose
<1>3. {F!IbusHint[bit + 1] : bit \in {} \cap 0..9} = {} OBVIOUS
<1> QED BY <1>1, <1>2, <1>3 DEF F!FromWayland, F!NoContent, F!FreeForm

LEMMA AfterType ==
  ASSUME NEW s \in FieldStates, NEW e \in FieldEvents
  PROVE  /\ After(s, e) \in FieldStates
         /\ e.name = "Activate" => After(s, e).active = TRUE /\ After(s, e).surrounding = F!None
                                   /\ After(s, e).content = F!FreeForm
         /\ e.name = "Deactivate" => After(s, e).active = FALSE
         /\ e.name = "SurroundingText" =>
              /\ After(s, e).active = s.active /\ After(s, e).content = s.content
              /\ After(s, e).surrounding = [text |-> e.text, cursor |-> e.cursor, anchor |-> e.anchor, known |-> TRUE]
         /\ e.name = "ContentType" =>
              /\ After(s, e).active = s.active /\ After(s, e).surrounding = s.surrounding
              /\ After(s, e).content = F!FromWayland(e.content)
         /\ e.name = "Done" => After(s, e) = s
<1>1. e.name \in {"Activate", "Deactivate", "Done", "SurroundingText", "ContentType"} BY DEF FieldEvents
<1>2. CASE e.name = "Activate"
  <2>1. After(s, e) = F!Activated BY <1>2 DEF After
  <2>2. F!Idle \in FieldStates /\ F!Idle.surrounding = F!None /\ F!Idle.content = F!FreeForm
    BY DEF F!Idle, FieldStates, FieldAround, FieldContents
  <2>3. /\ [F!Idle EXCEPT !.active = TRUE] \in FieldStates
        /\ [F!Idle EXCEPT !.active = TRUE].active = TRUE
        /\ [F!Idle EXCEPT !.active = TRUE].surrounding = F!None
        /\ [F!Idle EXCEPT !.active = TRUE].content = F!FreeForm
    BY <2>2 DEF FieldStates
  <2> QED BY <1>2, <2>1, <2>3 DEF F!Activated
<1>3. CASE e.name = "Deactivate"
  <2>1. After(s, e) = [s EXCEPT !.active = FALSE] BY <1>3 DEF After
  <2> QED BY <1>3, <2>1 DEF FieldStates
<1>4. CASE e.name = "SurroundingText"
  <2>1. PICK x : x = [text |-> e.text, cursor |-> e.cursor, anchor |-> e.anchor, known |-> TRUE] OBVIOUS
  <2>2. After(s, e) = [s EXCEPT !.surrounding = x] BY <1>4, <2>1 DEF After
  <2>3. x \in FieldAround BY <1>4, <2>1 DEF FieldAround, FieldEvents
  <2>4. /\ After(s, e) \in FieldStates /\ After(s, e).active = s.active
        /\ After(s, e).content = s.content /\ After(s, e).surrounding = x
    BY <2>2, <2>3 DEF FieldStates
  <2> QED BY <1>4, <2>1, <2>4
<1>5. CASE e.name = "ContentType"
  <2>1. After(s, e) = [s EXCEPT !.content = F!FromWayland(e.content)] BY <1>5 DEF After
  <2>2. F!FromWayland(e.content) \in FieldContents BY <1>5 DEF FieldContents, FieldEvents
  <2> QED BY <1>5, <2>1, <2>2 DEF FieldStates
<1>6. CASE e.name = "Done" BY <1>6 DEF After
<1> QED BY <1>1, <1>2, <1>3, <1>4, <1>5, <1>6

LEMMA ReadsNothing ==
  /\ \A s \in FieldStates : Reads(<<>>, s, s)
  /\ \A s, t \in FieldStates : Reads(<<>>, s, t) => s = t
<1>1. Len(<<>>) = 0 /\ 1..0 = {} OBVIOUS
<1>2. ASSUME NEW s \in FieldStates PROVE Reads(<<>>, s, s)
  <2>1. [i \in 0..0 |-> s] \in [0..0 -> FieldStates] /\ [i \in 0..0 |-> s][0] = s OBVIOUS
  <2> QED BY <1>1, <2>1 DEF Reads
<1> QED BY <1>1, <1>2 DEF Reads

\* One event more, and one less.
LEMMA ReadsAppend ==
  ASSUME NEW q \in Seq(FieldEvents), NEW e \in FieldEvents, NEW s \in FieldStates, NEW t \in FieldStates,
         Reads(q, s, t)
  PROVE  /\ q \o <<e>> \in Seq(FieldEvents)
         /\ q \o <<e>> # <<>> /\ (q \o <<e>>)[Len(q \o <<e>>)] = e
         /\ Reads(q \o <<e>>, s, After(t, e))
<1>1. PICK n, r : n = Len(q) /\ r = q \o <<e>> OBVIOUS
<1>2. /\ r = Append(q, e) /\ n \in Nat /\ r \in Seq(FieldEvents) /\ r # <<>> /\ Len(r) = n + 1
      /\ \A i \in 1..n : r[i] = q[i]
      /\ r[n + 1] = e
  BY <1>1, AppendIsConcat, AppendProperties, LenProperties
<1>3. PICK run \in [0..n -> FieldStates] :
        run[0] = s /\ run[n] = t /\ \A i \in 1..n : run[i] = After(run[i - 1], q[i])
  BY <1>1 DEF Reads
<1> DEFINE more == [i \in 0..n + 1 |-> IF i = n + 1 THEN After(t, e) ELSE run[i]]
<1>4. After(t, e) \in FieldStates BY AfterType
<1>5. \A i \in 0..n + 1 : i # n + 1 => i \in 0..n BY <1>2
<1>6. more \in [0..n + 1 -> FieldStates] BY <1>3, <1>4, <1>5
<1>7. more[0] = s /\ more[n + 1] = After(t, e) BY <1>2, <1>3
<1>8. ASSUME NEW i \in 1..n + 1 PROVE more[i] = After(more[i - 1], r[i])
  <2>1. i - 1 \in 0..n + 1 /\ i - 1 # n + 1 /\ i \in 0..n + 1 BY <1>2
  <2>2. more[i - 1] = run[i - 1] BY <2>1
  <2>3. CASE i = n + 1
    <3>1. i - 1 = n BY <1>2, <2>3
    <3> QED BY <1>2, <1>3, <2>1, <2>2, <2>3, <3>1
  <2>4. CASE i # n + 1
    <3>1. i \in 1..n BY <1>2, <2>4
    <3> QED BY <1>2, <1>3, <2>1, <2>2, <2>4, <3>1
  <2> QED BY <2>3, <2>4
<1> HIDE DEF more
<1>9. Reads(r, s, After(t, e)) BY <1>2, <1>6, <1>7, <1>8 DEF Reads
<1> QED BY <1>1, <1>2, <1>9

LEMMA ReadsTail ==
  ASSUME NEW q \in Seq(FieldEvents), q # <<>>, NEW s \in FieldStates, NEW t \in FieldStates,
         Reads(q, s, t)
  PROVE  /\ Head(q) \in FieldEvents /\ After(s, Head(q)) \in FieldStates
         /\ Tail(q) \in Seq(FieldEvents)
         /\ Tail(q) # <<>> => Tail(q)[Len(Tail(q))] = q[Len(q)]
         /\ Tail(q) = <<>> => Head(q) = q[Len(q)]
         /\ Reads(Tail(q), After(s, Head(q)), t)
<1>1. PICK n, r : n = Len(q) /\ r = Tail(q) OBVIOUS
<1>2. /\ n \in Nat \ {0} /\ Head(q) \in FieldEvents /\ r \in Seq(FieldEvents) /\ Len(r) = n - 1
      /\ \A i \in 1..n - 1 : r[i] = q[i + 1]
      /\ Head(q) = q[1]
  BY <1>1, HeadTailProperties, EmptySeq
<1>3. PICK run \in [0..n -> FieldStates] :
        run[0] = s /\ run[n] = t /\ \A i \in 1..n : run[i] = After(run[i - 1], q[i])
  BY <1>1 DEF Reads
<1>4. run[1] = After(s, Head(q))
  <2>1. 1 \in 1..n /\ 1 - 1 = 0 BY <1>2
  <2> QED BY <1>2, <1>3, <2>1
<1> DEFINE less == [i \in 0..n - 1 |-> run[i + 1]]
<1>5. \A i \in 0..n - 1 : i + 1 \in 0..n BY <1>2
<1>6. less \in [0..n - 1 -> FieldStates] BY <1>3, <1>5
<1>7. less[0] = After(s, Head(q)) /\ less[n - 1] = t
  <2>1. 0 \in 0..n - 1 /\ n - 1 \in 0..n - 1 /\ 0 + 1 = 1 /\ (n - 1) + 1 = n BY <1>2
  <2> QED BY <1>3, <1>4, <2>1
<1>8. ASSUME NEW i \in 1..n - 1 PROVE less[i] = After(less[i - 1], r[i])
  <2>1. i \in 0..n - 1 /\ i - 1 \in 0..n - 1 /\ (i - 1) + 1 = i /\ i + 1 \in 1..n /\ (i + 1) - 1 = i BY <1>2
  <2>2. run[i + 1] = After(run[(i + 1) - 1], q[i + 1]) BY <1>3, <2>1
  <2>3. run[i + 1] = After(run[i], q[i + 1]) BY <2>1, <2>2
  <2>4. r[i] = q[i + 1] BY <1>2
  <2>5. less[i - 1] = run[(i - 1) + 1] BY <2>1
  <2>6. less[i - 1] = run[i] BY <2>1, <2>5
  <2>7. less[i] = run[i + 1] BY <2>1
  <2> QED BY <2>3, <2>4, <2>6, <2>7
<1> HIDE DEF less
<1>9. Reads(r, After(s, Head(q)), t) BY <1>2, <1>6, <1>7, <1>8 DEF Reads
<1>10. After(s, Head(q)) \in FieldStates BY <1>2, AfterType
<1>11. r # <<>> => r[Len(r)] = q[n]
  <2>1. SUFFICES ASSUME r # <<>> PROVE r[n - 1] = q[n] BY <1>2
  <2>2. Len(r) # 0 BY <1>2, <2>1, EmptySeq
  <2>3. n - 1 \in 1..n - 1 /\ (n - 1) + 1 = n BY <1>2, <2>2
  <2> QED BY <1>2, <2>3
<1>12. r = <<>> => q[1] = q[n]
  <2>1. SUFFICES ASSUME r = <<>> PROVE n = 1 OBVIOUS
  <2>2. Len(r) = 0 BY <2>1
  <2> QED BY <1>2, <2>2
<1> QED BY <1>1, <1>2, <1>9, <1>10, <1>11, <1>12

\* The application tells of its text and its content type; and it is done.
LEMMA TextIsSent ==
  ASSUME NEW q \in Seq(FieldEvents), NEW s \in FieldStates, NEW t \in FieldStates, Reads(q, s, t),
         NEW a \in FieldApps, a.caret <= Len(a.text), a.field.tells \in BOOLEAN
  PROVE  /\ q \o F!Around(a) \in Seq(FieldEvents)
         /\ \E u \in FieldStates :
              /\ Reads(q \o F!Around(a), s, u)
              /\ u.active = t.active /\ u.content = t.content
              /\ u.surrounding = IF a.field.tells THEN AroundOf(a) ELSE t.surrounding
<1>1. CASE ~a.field.tells
  <2>1. q \o F!Around(a) = q BY <1>1, ConcatEmptySeq DEF F!Around
  <2> QED BY <1>1, <2>1
<1>2. CASE a.field.tells
  <2> DEFINE e == [name |-> "SurroundingText", text |-> a.text,
                   cursor |-> F!ByteOffset(a.text, a.caret), anchor |-> F!ByteOffset(a.text, a.caret)]
  <2>1. F!Around(a) = <<e>> BY <1>2 DEF F!Around
  <2>2. e \in FieldEvents
    <3>1. a.text \in FieldTexts /\ a.caret \in Nat /\ Len(a.text) \in Nat
      BY LenProperties DEF FieldApps, FieldTexts
    <3>2. a.caret \in 0..Len(a.text) /\ Len(a.text) \in 0..Len(a.text) BY <3>1
    <3>3. F!ByteOffset(a.text, a.caret) \in Nat /\ F!ByteOffset(a.text, Len(a.text)) \in Nat
      BY <3>1, <3>2, OffsetIs
    <3>4. F!ByteOffset(a.text, a.caret) <= F!ByteOffset(a.text, Len(a.text))
      <4>1. CASE a.caret = Len(a.text) BY <3>3, <4>1
      <4>2. CASE a.caret < Len(a.text) BY <3>1, <3>2, <3>3, <4>2, OffsetsGrow
      <4> QED BY <3>1, <4>1, <4>2
    <3>5. e \in [name : {"SurroundingText"}, text : FieldTexts, cursor : Nat, anchor : Nat] BY <3>1, <3>3
    <3> QED BY <3>4, <3>5 DEF FieldEvents
  <2>3. e.name = "SurroundingText" /\ [text |-> e.text, cursor |-> e.cursor, anchor |-> e.anchor, known |-> TRUE] = AroundOf(a)
    BY <1>2 DEF AroundOf
  <2> HIDE DEF e
  <2>4. q \o <<e>> \in Seq(FieldEvents) /\ Reads(q \o <<e>>, s, After(t, e)) BY <2>2, ReadsAppend
  <2>5. /\ After(t, e) \in FieldStates /\ After(t, e).active = t.active /\ After(t, e).content = t.content
        /\ After(t, e).surrounding = AroundOf(a)
    BY <2>2, <2>3, AfterType
  <2> QED BY <1>2, <2>1, <2>4, <2>5
<1> QED BY <1>1, <1>2

LEMMA KindIsSent ==
  ASSUME NEW q \in Seq(FieldEvents), NEW s \in FieldStates, NEW t \in FieldStates, Reads(q, s, t),
         NEW a, a.field \in Fields, t.content = F!FreeForm
  PROVE  /\ q \o F!Kind(a) \in Seq(FieldEvents)
         /\ \E u \in FieldStates :
              /\ Reads(q \o F!Kind(a), s, u)
              /\ u.active = t.active /\ u.surrounding = t.surrounding
              /\ u.content = F!FromWayland(a.field.content)
<1>1. CASE ~a.field.content.told
  <2>1. q \o F!Kind(a) = q BY <1>1, ConcatEmptySeq DEF F!Kind
  <2>2. a.field.content = F!NoContent BY <1>1, FieldConstants
  <2> QED BY <2>1, <2>2, FreeFormIs
<1>2. CASE a.field.content.told
  <2> DEFINE e == [name |-> "ContentType", content |-> a.field.content]
  <2>1. F!Kind(a) = <<e>> BY <1>2 DEF F!Kind
  <2>2. e \in FieldEvents /\ e.name = "ContentType" /\ e.content = a.field.content BY DEF FieldEvents
  <2> HIDE DEF e
  <2>3. q \o <<e>> \in Seq(FieldEvents) /\ Reads(q \o <<e>>, s, After(t, e)) BY <2>2, ReadsAppend
  <2>4. /\ After(t, e) \in FieldStates /\ After(t, e).active = t.active
        /\ After(t, e).surrounding = t.surrounding
        /\ After(t, e).content = F!FromWayland(a.field.content)
    <3>1. /\ After(t, e) \in FieldStates /\ After(t, e).active = t.active
          /\ After(t, e).surrounding = t.surrounding /\ After(t, e).content = F!FromWayland(e.content)
      BY <2>2, AfterType
    <3>2. F!FromWayland(e.content) = F!FromWayland(a.field.content) BY <2>2
    <3> QED BY <3>1, <3>2
  <2> QED BY <2>1, <2>3, <2>4
<1> QED BY <1>1, <1>2

LEMMA ActivateIsSent ==
  ASSUME NEW q \in Seq(FieldEvents), NEW s \in FieldStates, NEW t \in FieldStates, Reads(q, s, t)
  PROVE  /\ q \o F!Named("Activate") \in Seq(FieldEvents)
         /\ \E u \in FieldStates :
              /\ Reads(q \o F!Named("Activate"), s, u)
              /\ u.active = TRUE /\ u.surrounding = F!None /\ u.content = F!FreeForm
<1> DEFINE e == [name |-> "Activate"]
<1>1. F!Named("Activate") = <<e>> /\ e \in FieldEvents /\ e.name = "Activate" BY DEF F!Named, FieldEvents
<1> HIDE DEF e
<1>2. /\ q \o <<e>> \in Seq(FieldEvents) /\ q \o <<e>> # <<>> /\ (q \o <<e>>)[Len(q \o <<e>>)] = e
      /\ Reads(q \o <<e>>, s, After(t, e))
  BY <1>1, ReadsAppend
<1>3. After(t, e) \in FieldStates /\ After(t, e).active = TRUE /\ After(t, e).surrounding = F!None
      /\ After(t, e).content = F!FreeForm
  BY <1>1, AfterType
<1> QED BY <1>1, <1>2, <1>3

LEMMA DeactivateIsSent ==
  ASSUME NEW q \in Seq(FieldEvents), NEW s \in FieldStates, NEW t \in FieldStates, Reads(q, s, t)
  PROVE  /\ q \o F!Named("Deactivate") \in Seq(FieldEvents)
         /\ \E u \in FieldStates : Reads(q \o F!Named("Deactivate"), s, u) /\ u.active = FALSE
<1> DEFINE e == [name |-> "Deactivate"]
<1>1. F!Named("Deactivate") = <<e>> /\ e \in FieldEvents /\ e.name = "Deactivate" BY DEF F!Named, FieldEvents
<1> HIDE DEF e
<1>2. /\ q \o <<e>> \in Seq(FieldEvents) /\ q \o <<e>> # <<>> /\ (q \o <<e>>)[Len(q \o <<e>>)] = e
      /\ Reads(q \o <<e>>, s, After(t, e))
  BY <1>1, ReadsAppend
<1>3. After(t, e) \in FieldStates /\ After(t, e).active = FALSE BY <1>1, AfterType
<1> QED BY <1>1, <1>2, <1>3

LEMMA DoneIsSent ==
  ASSUME NEW q \in Seq(FieldEvents), NEW s \in FieldStates, NEW t \in FieldStates, Reads(q, s, t)
  PROVE  /\ q \o F!Named("Done") \in Seq(FieldEvents) /\ q \o F!Named("Done") # <<>>
         /\ (q \o F!Named("Done"))[Len(q \o F!Named("Done"))].name = "Done"
         /\ Reads(q \o F!Named("Done"), s, t)
<1> DEFINE e == [name |-> "Done"]
<1>1. F!Named("Done") = <<e>> /\ e \in FieldEvents /\ e.name = "Done" BY DEF F!Named, FieldEvents
<1> HIDE DEF e
<1>2. /\ q \o <<e>> \in Seq(FieldEvents) /\ q \o <<e>> # <<>> /\ (q \o <<e>>)[Len(q \o <<e>>)] = e
      /\ Reads(q \o <<e>>, s, After(t, e))
  BY <1>1, ReadsAppend
<1>3. After(t, e) \in FieldStates /\ After(t, e) = t BY <1>1, AfterType
<1> QED BY <1>1, <1>2, <1>3

-----------------------------------------------------------------------------
(* Field: the effects of a key *)

FieldRecords ==
  [name : {"commit"}, char : Chars] \cup [name : {"delete"}, offset : Int, nchars : Nat] \cup
  [name : {"require", "shown"}]

DecodeStates == [ok : BOOLEAN, waits : BOOLEAN, records : Seq(FieldRecords)]

\* An entry that holds what its tag says.
Legible(e) ==
  /\ e.tag = "c" => e.char \in Chars
  /\ e.tag = "d" => e.numbers[1] \in Int /\ e.numbers[2] \in Nat

LEMMA DecodesType ==
  ASSUME NEW d \in DecodeStates, NEW e, Legible(e)
  PROVE  F!Decodes(d, e) \in DecodeStates
<1>1. F!Record(e) \in FieldRecords
  <2>1. CASE e.tag = "c"
    <3>1. F!Record(e) = [name |-> "commit", char |-> e.char] BY <2>1 DEF F!Record
    <3> QED BY <2>1, <3>1 DEF Legible, FieldRecords
  <2>2. CASE e.tag = "d"
    <3>1. F!Record(e) = [name |-> "delete", offset |-> e.numbers[1], nchars |-> e.numbers[2]]
      BY <2>2 DEF F!Record
    <3> QED BY <2>2, <3>1 DEF Legible, FieldRecords
  <2>3. CASE e.tag = "r"
    <3>1. F!Record(e) = [name |-> "require"] BY <2>3 DEF F!Record
    <3> QED BY <3>1 DEF FieldRecords
  <2>4. CASE e.tag \notin {"c", "d", "r"}
    <3>1. F!Record(e) = [name |-> "shown"] BY <2>4 DEF F!Record
    <3> QED BY <3>1 DEF FieldRecords
  <2> QED BY <2>1, <2>2, <2>3, <2>4
<1>2. PICK x : x = F!Record(e) OBVIOUS
<1>3. Append(d.records, x) \in Seq(FieldRecords) BY <1>1, <1>2, AppendProperties DEF DecodeStates
<1>4. [d EXCEPT !.waits = FALSE, !.records = Append(@, x)] \in DecodeStates BY <1>3 DEF DecodeStates
<1>5. [d EXCEPT !.waits = TRUE] \in DecodeStates BY DEF DecodeStates
<1>6. [d EXCEPT !.records = Append(@, x)] \in DecodeStates BY <1>3 DEF DecodeStates
<1>7. [d EXCEPT !.ok = FALSE] \in DecodeStates BY DEF DecodeStates
<1> DEFINE A == d.waits /\ e.tag \in F!Preedit /\ e.numbers # <<>>
           B == ~d.waits /\ e.tag \in F!Preedit
           C == ~d.waits /\ e.tag \in DOMAIN F!Needs /\ Len(e.numbers) >= F!Needs[e.tag]
<1>8. F!Decodes(d, e) = CASE A -> [d EXCEPT !.waits = FALSE, !.records = Append(@, x)]
                          [] B -> [d EXCEPT !.waits = TRUE]
                          [] C -> [d EXCEPT !.records = Append(@, x)]
                          [] OTHER -> [d EXCEPT !.ok = FALSE]
  BY <1>2 DEF F!Decodes
<1> HIDE DEF A, B, C
<1> QED BY <1>4, <1>5, <1>6, <1>7, <1>8

LEMMA HandedType ==
  ASSUME NEW d \in DecodeStates, NEW e, e.name \in F!EffectNames,
         e.name = "commit" => e.char \in Chars,
         e.name = "delete" => e.offset \in Int /\ e.nchars \in Nat
  PROVE  F!Handed(d, e) \in DecodeStates
<1> DEFINE q == F!Entries(e)
<1>1. Legible(q[1]) /\ (Len(q) = 2 => Legible(q[2]))
  <2>1. CASE e.name = "commit"
    <3>1. q = <<F!Entry("c", e.char, <<>>)>> BY <2>1 DEF F!Entries
    <3> QED BY <2>1, <3>1 DEF Legible, F!Entry
  <2>2. CASE e.name = "delete"
    <3>1. q = <<F!Entry("d", "none", <<e.offset, e.nchars>>)>> BY <2>2 DEF F!Entries
    <3> QED BY <2>2, <3>1 DEF Legible, F!Entry
  <2>3. CASE e.name = "preedit"
    <3>1. q = <<F!Entry("m", e.char, <<>>), F!Entry("m", "none", <<1, 1, 0>>)>> BY <2>3 DEF F!Entries
    <3> QED BY <3>1 DEF Legible, F!Entry
  <2>4. CASE e.name \in {"forward", "hide", "require", "show", "unheardOf"}
    <3>1. \E numbers : \E tag \in {"f", "h", "r", "s", "x"} : q = <<F!Entry(tag, "none", numbers)>>
      BY <2>4 DEF F!Entries
    <3> QED BY <3>1 DEF Legible, F!Entry
  <2> QED BY <2>1, <2>2, <2>3, <2>4 DEF F!EffectNames
<1>2. F!Handed(d, e) = IF Len(q) = 2 THEN F!Decodes(F!Decodes(d, q[1]), q[2]) ELSE F!Decodes(d, q[1])
  BY DEF F!Handed
<1> HIDE DEF q
<1>3. F!Decodes(d, q[1]) \in DecodeStates BY <1>1, DecodesType
<1>4. Len(q) = 2 => F!Decodes(F!Decodes(d, q[1]), q[2]) \in DecodeStates BY <1>1, <1>3, DecodesType
<1> QED BY <1>2, <1>3, <1>4

LEMMA DrainedType ==
  ASSUME NEW effects \in Drains
  PROVE  F!Drained(effects) \in Seq(FieldRecords)
<1>1. PICK k : k = Len(effects) OBVIOUS
<1>2. /\ k \in Nat /\ DOMAIN effects = 1..k
      /\ \A n \in 1..k : /\ effects[n].name \in F!EffectNames
                         /\ effects[n].name = "commit" => effects[n].char \in Chars
                         /\ effects[n].name = "delete" => effects[n].offset \in Int /\ effects[n].nchars \in Nat
  <2>1. effects \in Seq(F!Range(effects)) BY FieldConstants
  <2>2. k \in Nat /\ DOMAIN effects = 1..k BY <1>1, <2>1, LenProperties
  <2> QED BY <2>2, FieldConstants
<1> DEFINE start   == [ok |-> TRUE, waits |-> FALSE, records |-> <<>>]
           Step(f) == [n \in 0..k |-> IF n = 0 THEN start ELSE F!Handed(f[n - 1], effects[n])]
           step    == [n \in 1..k |-> [d \in DecodeStates |-> F!Handed(d, effects[n])]]
           run     == CHOOSE f : f = Step(f)
<1>3. start \in DecodeStates
  <2>1. <<>> \in Seq(FieldRecords) BY EmptySeq
  <2> QED BY <2>1 DEF DecodeStates
<1>4. \A n \in 1..k : \A d \in DecodeStates : F!Handed(d, effects[n]) \in DecodeStates BY <1>2, HandedType
<1>5. \A n \in 1..k : \A d \in DecodeStates : step[n][d] \in DecodeStates BY <1>4
<1>6. F!Decoded(effects) = run[k] BY <1>1 DEF F!Decoded
<1> HIDE DEF start
<1>7. \E f : f = Step(f)
  <2>1. PICK f \in Runs(DecodeStates, k, start, step) : TRUE
    <3> HIDE DEF step
    <3> QED BY <1>2, <1>3, <1>5, RunExists
  <2>2. f \in [0..k -> DecodeStates] /\ f[0] = start /\ \A n \in 1..k : f[n] = step[n][f[n - 1]]
    BY <2>1 DEF Runs
  <2>3. ASSUME NEW n \in 0..k PROVE f[n] = Step(f)[n]
    <3>1. CASE n = 0 BY <2>2, <3>1
    <3>2. CASE n # 0
      <4>1. n \in 1..k /\ n - 1 \in 0..k BY <1>2, <3>2
      <4>2. f[n - 1] \in DecodeStates BY <2>2, <4>1
      <4>3. step[n][f[n - 1]] = F!Handed(f[n - 1], effects[n]) BY <4>1, <4>2
      <4> QED BY <2>2, <3>2, <4>1, <4>3
    <3> QED BY <3>1, <3>2
  <2>4. f = Step(f) BY <2>2, <2>3
  <2> QED BY <2>4
<1>8. run = Step(run)
  <2> HIDE DEF Step
  <2> QED BY <1>7
<1> HIDE DEF run
<1>9. run[0] \in DecodeStates
  <2>1. 0 \in 0..k BY <1>2
  <2>2. run[0] = start BY <1>8, <2>1
  <2> QED BY <1>3, <2>2
<1>10. ASSUME NEW n \in 1..k, run[n - 1] \in DecodeStates PROVE run[n] \in DecodeStates
  <2>1. n \in 0..k /\ n # 0 BY <1>2
  <2>2. run[n] = F!Handed(run[n - 1], effects[n]) BY <1>8, <2>1
  <2> QED BY <1>4, <1>10, <2>2
<1>11. run[k] \in DecodeStates
  <2>1. \A n \in 0..k : run[n] \in DecodeStates BY <1>2, <1>9, <1>10, RunStays
  <2> QED BY <1>2, <2>1
<1> QED BY <1>6, <1>11, EmptySeq DEF F!Drained, DecodeStates

\* Where the effects of a key start from, and where each leads.
EffectStates ==
  {s \in [requests : Seq(FieldRequests), wants : BOOLEAN, context : FieldContexts] :
     /\ s.context.focus /\ s.context.caret <= Len(s.context.text)
     /\ Tells(s.context, s.wants) /\ Asks(s.requests)}

LEMMA AsksAppend ==
  ASSUME NEW q, Asks(q), NEW r \in FieldRequests, r.name = "delete" /\ r.fresh => Takes(r)
  PROVE  Asks(Append(q, r))
<1>1. q \in Seq(FieldRequests) /\ \A i \in DOMAIN q : q[i].name = "delete" /\ q[i].fresh => Takes(q[i])
  BY DEF Asks
<1>2. PICK n, t : n = Len(q) /\ t = Append(q, r) OBVIOUS
<1>3. /\ n \in Nat /\ DOMAIN q = 1..n /\ t \in Seq(FieldRequests) /\ Len(t) = n + 1
      /\ \A i \in 1..n : t[i] = q[i]
      /\ t[n + 1] = r
  BY <1>1, <1>2, AppendProperties, LenProperties
<1>4. DOMAIN t = 1..n + 1 BY <1>3, LenProperties
<1>5. ASSUME NEW i \in DOMAIN t, t[i].name = "delete" /\ t[i].fresh PROVE Takes(t[i])
  <2>1. CASE i = n + 1
    <3>1. t[i] = r BY <1>3, <2>1
    <3> QED BY <1>5, <3>1
  <2>2. CASE i # n + 1
    <3>1. i \in 1..n BY <1>3, <1>4, <2>2
    <3>2. t[i] = q[i] BY <1>3, <3>1
    <3> QED BY <1>1, <1>3, <1>5, <3>1, <3>2
  <2> QED BY <2>1, <2>2
<1> QED BY <1>2, <1>3, <1>5 DEF Asks

LEMMA AroundType ==
  ASSUME NEW s \in FieldAround
  PROVE  /\ s.text \in FieldTexts /\ s.cursor \in Nat /\ s.anchor \in Nat
         /\ s.cursor <= F!ByteOffset(s.text, Len(s.text))
<1>1. CASE s = F!None
  <2>1. s.text = <<>> /\ s.cursor = 0 /\ s.anchor = 0 BY <1>1 DEF F!None
  <2>2. <<>> \in Seq(Chars) /\ Len(<<>>) = 0 /\ 0 \in 0..0 BY EmptySeq
  <2>3. F!ByteOffset(<<>>, 0) \in Nat BY <2>2, OffsetIs
  <2> QED BY <2>1, <2>2, <2>3 DEF FieldTexts
<1>2. CASE s # F!None
  <2>1. s \in [text : FieldTexts, cursor : Nat, anchor : Nat, known : {TRUE}]
        /\ s.cursor <= F!ByteOffset(s.text, Len(s.text))
    BY <1>2 DEF FieldAround
  <2> QED BY <2>1
<1> QED BY <1>1, <1>2

\* What the context is told of the text.
LEMMA PushAroundIs ==
  ASSUME NEW c \in FieldContexts, NEW s \in FieldAround
  PROVE  /\ F!PushAround(c, s) \in FieldContexts
         /\ F!PushAround(c, s).caret <= Len(F!PushAround(c, s).text)
         /\ F!PushAround(c, s).text = s.text
         /\ F!PushAround(c, s).content = c.content /\ F!PushAround(c, s).focus = c.focus
<1>1. s.text \in FieldTexts /\ s.cursor \in Nat /\ s.anchor \in Nat BY AroundType
<1>2. Len(s.text) \in Nat BY <1>1, LenProperties DEF FieldTexts
<1>3. PICK k, m : k = F!CharOffset(s.text, s.cursor) /\ m = F!CharOffset(s.text, s.anchor) OBVIOUS
<1>4. k \in 0..Len(s.text) /\ m \in 0..Len(s.text) BY <1>1, <1>2, <1>3, CharOffsetType
<1>5. F!PushAround(c, s) = [text |-> s.text, caret |-> k, anchor |-> m, content |-> c.content, focus |-> c.focus]
  BY <1>3 DEF F!PushAround
<1>6. k \in Nat /\ m \in Nat /\ k <= Len(s.text) BY <1>2, <1>4
<1> QED BY <1>1, <1>5, <1>6 DEF FieldContexts

\* A context in focus and an empty inbox: the text of the last done is the
\* application's.
LEMMA FreshIs ==
  ASSUME FieldInv, context.focus, inbox = <<>>, now.surrounding.known
  PROVE  app.on /\ now.surrounding.text = app.text
         /\ now.surrounding.cursor = F!ByteOffset(app.text, app.caret)
<1>1. now = next /\ now.active BY DEF FieldInv, InboxInv, Tells
<1>2. PICK s \in FieldStates : Reads(inbox, next, s) /\ Describes(s, app) BY DEF FieldInv, InboxInv
<1>3. s = next BY <1>2, ReadsNothing DEF FieldInv, FieldTypes
<1>4. app.on /\ now.surrounding = AroundOf(app) BY <1>1, <1>2, <1>3 DEF Describes
<1>5. app.field.tells BY <1>4 DEF AroundOf, F!None
<1> QED BY <1>4, <1>5 DEF AroundOf

LEMMA DeletionAsks ==
  ASSUME FieldInv, context.focus, NEW q, Asks(q), NEW r \in FieldRecords, r.name = "delete"
  PROVE  Asks(F!DeleteSurrounding(q, r))
<1> DEFINE d == F!DeleteRange(now.surrounding.text, now.surrounding.cursor, r.offset, r.nchars)
           x == [name |-> "delete", before |-> d.before, after |-> d.after,
                 seen |-> app, offset |-> r.offset, nchars |-> r.nchars, fresh |-> F!Fresh(q)]
<1>1. F!DeleteSurrounding(q, r) = IF ~now.surrounding.known \/ (d.before = 0 /\ d.after = 0)
                                  THEN q ELSE Append(q, x)
  BY DEF F!DeleteSurrounding
<1>2. SUFFICES ASSUME now.surrounding.known PROVE Asks(Append(q, x)) BY <1>1
<1>3. r.offset \in Int /\ r.nchars \in Nat BY DEF FieldRecords
<1>4. PICK text, offset : text = now.surrounding.text /\ offset = now.surrounding.cursor OBVIOUS
<1>5. text \in FieldTexts /\ offset \in Nat /\ Len(text) \in Nat
  <2>1. now.surrounding \in FieldAround BY DEF FieldInv, FieldTypes, FieldStates
  <2>2. text \in FieldTexts /\ offset \in Nat BY <1>4, <2>1, AroundType
  <2> QED BY <2>2, LenProperties DEF FieldTexts
<1>6. d.before \in Int /\ d.after \in Int
  <2>1. PICK len, caret, start, end :
          /\ len = Len(text) /\ caret = F!CharOffset(text, offset)
          /\ start = F!Clamp(caret + r.offset, len) /\ end = F!Clamp(start + r.nchars, len)
    OBVIOUS
  <2>2. caret \in 0..len /\ len \in Nat BY <1>5, <2>1, CharOffsetType
  <2>3. start \in 0..len BY <1>3, <2>1, <2>2 DEF F!Clamp
  <2>4. end \in 0..len BY <1>3, <2>1, <2>2, <2>3 DEF F!Clamp
  <2>5. F!Least(start, caret) \in 0..len /\ F!Most(end, caret) \in 0..len
    BY <2>2, <2>3, <2>4 DEF F!Least, F!Most
  <2>6. /\ F!ByteOffset(text, caret) \in Nat /\ F!ByteOffset(text, F!Least(start, caret)) \in Nat
        /\ F!ByteOffset(text, F!Most(end, caret)) \in Nat
    BY <2>1, <2>2, <2>5, OffsetIs
  <2>7. d = [before |-> F!ByteOffset(text, caret) - F!ByteOffset(text, F!Least(start, caret)),
             after  |-> F!ByteOffset(text, F!Most(end, caret)) - F!ByteOffset(text, caret)]
    BY <1>4, <2>1 DEF F!DeleteRange
  <2> QED BY <2>6, <2>7
<1>7. d = F!DeleteRange(text, offset, r.offset, r.nchars) BY <1>4
<1> HIDE DEF d
<1>8. F!Fresh(q) \in BOOLEAN BY DEF F!Fresh
<1>9. app \in FieldApps BY DEF FieldInv, FieldTypes
<1>10. x \in FieldRequests BY <1>3, <1>6, <1>8, <1>9 DEF FieldRequests
<1>11. ASSUME x.fresh PROVE Takes(x)
  <2>1. inbox = <<>> BY <1>11 DEF F!Fresh
  <2>2. text = app.text /\ offset = F!ByteOffset(app.text, app.caret) BY <1>2, <1>4, <2>1, FreshIs
  <2>3. app.caret \in 0..Len(text)
    <3>1. app.caret \in Nat /\ app.caret <= Len(app.text) BY DEF FieldInv, FieldTypes, FieldApps
    <3> QED BY <1>5, <2>2, <3>1
  <2>4. DOMAIN text = 1..Len(text) BY <1>5, LenProperties DEF FieldTexts
  <2>5. d = F!DeleteRange(text, F!ByteOffset(text, app.caret), r.offset, r.nchars) BY <1>7, <2>2
  <2>6. /\ x.seen.text = text /\ x.seen.caret = app.caret /\ x.offset = r.offset /\ x.nchars = r.nchars
        /\ x.before = d.before /\ x.after = d.after
    BY <2>2
  <2> HIDE DEF x
  <2> QED BY <1>3, <1>5, <2>3, <2>4, <2>5, <2>6, RangeTakes
<1> HIDE DEF x
<1> QED BY <1>10, <1>11, AsksAppend

LEMMA AppliedIs ==
  ASSUME FieldInv, context.focus, NEW s \in EffectStates, NEW r \in FieldRecords
  PROVE  F!Applied(s, r) \in EffectStates
<1> DEFINE Plain == [requests : Seq(FieldRequests), wants : BOOLEAN, context : FieldContexts]
<1>1. /\ s \in Plain /\ s.context.focus /\ s.context.caret <= Len(s.context.text)
      /\ Tells(s.context, s.wants) /\ Asks(s.requests)
  BY DEF EffectStates
<1>2. CASE r.name = "commit"
  <2>1. r \in FieldRequests BY <1>2 DEF FieldRecords, FieldRequests
  <2>2. Asks(Append(s.requests, r)) BY <1>1, <1>2, <2>1, AsksAppend
  <2>3. Append(s.requests, r) \in Seq(FieldRequests) BY <2>2 DEF Asks
  <2>4. F!Applied(s, r) = [s EXCEPT !.requests = Append(@, r)] BY <1>2 DEF F!Applied
  <2>5. /\ F!Applied(s, r) \in Plain /\ F!Applied(s, r).requests = Append(s.requests, r)
        /\ F!Applied(s, r).wants = s.wants /\ F!Applied(s, r).context = s.context
    BY <1>1, <2>3, <2>4
  <2> QED BY <1>1, <2>2, <2>5 DEF EffectStates
<1>3. CASE r.name = "delete"
  <2>1. PICK q : q = F!DeleteSurrounding(s.requests, r) OBVIOUS
  <2>2. Asks(q) BY <1>1, <1>3, <2>1, DeletionAsks
  <2>3. q \in Seq(FieldRequests) BY <2>2 DEF Asks
  <2>4. F!Applied(s, r) = [s EXCEPT !.requests = q] BY <1>3, <2>1 DEF F!Applied
  <2>5. /\ F!Applied(s, r) \in Plain /\ F!Applied(s, r).requests = q
        /\ F!Applied(s, r).wants = s.wants /\ F!Applied(s, r).context = s.context
    BY <1>1, <2>3, <2>4
  <2> QED BY <1>1, <2>2, <2>5 DEF EffectStates
<1>4. CASE r.name = "require"
  <2>1. PICK c : c = F!PushAround(s.context, now.surrounding) OBVIOUS
  <2>2. now.surrounding \in FieldAround BY DEF FieldInv, FieldTypes, FieldStates
  <2>3. /\ c \in FieldContexts /\ c.caret <= Len(c.text) /\ c.text = now.surrounding.text
        /\ c.content = s.context.content /\ c.focus = s.context.focus
    BY <1>1, <2>1, <2>2, PushAroundIs
  <2>4. F!Applied(s, r) = [s EXCEPT !.wants = TRUE, !.context = c] BY <1>4, <2>1 DEF F!Applied
  <2>5. /\ F!Applied(s, r) \in Plain /\ F!Applied(s, r).requests = s.requests
        /\ F!Applied(s, r).wants = TRUE /\ F!Applied(s, r).context = c
    BY <1>1, <2>3, <2>4
  <2>6. Tells(c, TRUE) BY <1>1, <2>3 DEF Tells
  <2> QED BY <1>1, <2>3, <2>5, <2>6 DEF EffectStates
<1>5. CASE r.name \notin {"commit", "delete", "require"}
  <2>1. F!Applied(s, r) = s BY <1>5 DEF F!Applied
  <2> QED BY <2>1
<1> QED BY <1>2, <1>3, <1>4, <1>5

LEMMA EffectedIs ==
  ASSUME FieldInv, context.focus, NEW records \in Seq(FieldRecords)
  PROVE  F!Effected(records) \in EffectStates
<1>1. PICK k : k = Len(records) OBVIOUS
<1>2. k \in Nat /\ \A n \in 1..k : records[n] \in FieldRecords BY <1>1, ElementOfSeq, LenProperties
<1> DEFINE start   == [requests |-> requests, wants |-> wants, context |-> context]
           Step(f) == [n \in 0..k |-> IF n = 0 THEN start ELSE F!Applied(f[n - 1], records[n])]
           step    == [n \in 1..k |-> [d \in EffectStates |-> F!Applied(d, records[n])]]
           run     == CHOOSE f : f = Step(f)
<1>3. start \in EffectStates
  <2>1. /\ requests \in Seq(FieldRequests) /\ wants \in BOOLEAN /\ context \in FieldContexts
        /\ context.caret <= Len(context.text) /\ Tells(context, wants) /\ Asks(requests)
    BY DEF FieldInv, FieldTypes, Asks
  <2> QED BY <2>1 DEF EffectStates
<1>4. \A n \in 1..k : \A d \in EffectStates : F!Applied(d, records[n]) \in EffectStates BY <1>2, AppliedIs
<1>5. \A n \in 1..k : \A d \in EffectStates : step[n][d] \in EffectStates BY <1>4
<1>6. F!Effected(records) = run[k] BY <1>1 DEF F!Effected
<1> HIDE DEF start
<1>7. \E f : f = Step(f)
  <2>1. PICK f \in Runs(EffectStates, k, start, step) : TRUE
    <3> HIDE DEF step
    <3> QED BY <1>2, <1>3, <1>5, RunExists
  <2>2. f \in [0..k -> EffectStates] /\ f[0] = start /\ \A n \in 1..k : f[n] = step[n][f[n - 1]]
    BY <2>1 DEF Runs
  <2>3. ASSUME NEW n \in 0..k PROVE f[n] = Step(f)[n]
    <3>1. CASE n = 0 BY <2>2, <3>1
    <3>2. CASE n # 0
      <4>1. n \in 1..k /\ n - 1 \in 0..k BY <1>2, <3>2
      <4>2. f[n - 1] \in EffectStates BY <2>2, <4>1
      <4>3. step[n][f[n - 1]] = F!Applied(f[n - 1], records[n]) BY <4>1, <4>2
      <4> QED BY <2>2, <3>2, <4>1, <4>3
    <3> QED BY <3>1, <3>2
  <2>4. f = Step(f) BY <2>2, <2>3
  <2> QED BY <2>4
<1>8. run = Step(run)
  <2> HIDE DEF Step
  <2> QED BY <1>7
<1> HIDE DEF run
<1>9. run[0] \in EffectStates
  <2>1. 0 \in 0..k BY <1>2
  <2>2. run[0] = start BY <1>8, <2>1
  <2> QED BY <1>3, <2>2
<1>10. ASSUME NEW n \in 1..k, run[n - 1] \in EffectStates PROVE run[n] \in EffectStates
  <2>1. n \in 0..k /\ n # 0 BY <1>2
  <2>2. run[n] = F!Applied(run[n - 1], records[n]) BY <1>8, <2>1
  <2> QED BY <1>4, <1>10, <2>2
<1>11. run[k] \in EffectStates
  <2>1. \A n \in 0..k : run[n] \in EffectStates BY <1>2, <1>9, <1>10, RunStays
  <2> QED BY <1>2, <2>1
<1> QED BY <1>6, <1>11

-----------------------------------------------------------------------------
(* Field: the steps *)

LEMMA FieldStarts == F!Init => FieldInv
<1> SUFFICES ASSUME F!Init PROVE FieldInv OBVIOUS
<1>1. /\ app = F!NoField /\ inbox = <<>> /\ next = F!Idle /\ now = F!Idle
      /\ wants = FALSE /\ context = F!Told /\ requests = <<>>
  BY DEF F!Init
<1>2. <<>> \in Seq(Chars) /\ <<>> \in Seq(FieldEvents) /\ <<>> \in Seq(FieldRequests) /\ Len(<<>>) = 0
  BY EmptySeq
<1>3. F!Idle \in FieldStates /\ F!Idle.active = FALSE
  BY DEF F!Idle, FieldStates, FieldAround, FieldContents
<1>4. app \in FieldApps /\ app.caret <= Len(app.text) /\ app.on = FALSE
  BY <1>1, <1>2 DEF F!NoField, FieldApps, FieldTexts
<1>5. context \in FieldContexts /\ context.caret <= Len(context.text) /\ context.focus = FALSE
  BY <1>1, <1>2 DEF F!Told, FieldContexts, FieldTexts, FieldContents
<1>6. FieldTypes BY <1>1, <1>2, <1>3, <1>4, <1>5 DEF FieldTypes
<1>7. InboxInv
  <2>1. Describes(next, app) BY <1>1, <1>3, <1>4 DEF Describes
  <2> QED BY <1>1, <1>3, <2>1, ReadsNothing DEF InboxInv
<1>8. Tells(context, wants) BY <1>1, <1>3, <1>5 DEF Tells
<1>9. Asks(requests) BY <1>1, <1>2 DEF Asks
<1> QED BY <1>6, <1>7, <1>8, <1>9 DEF FieldInv

LEMMA AsksNothing == Asks(<<>>)
  BY EmptySeq DEF Asks

LEMMA AsksLater == ASSUME Asks(requests') PROVE Asks(requests)'
  BY DEF Asks, Takes, F!Wanted, F!Goes, F!ByteOffset

LEMMA AsksTail ==
  ASSUME NEW q, Asks(q), q # <<>>
  PROVE  Head(q) \in FieldRequests /\ Asks(Tail(q))
<1>1. q \in Seq(FieldRequests) /\ \A i \in DOMAIN q : q[i].name = "delete" /\ q[i].fresh => Takes(q[i])
  BY DEF Asks
<1>2. PICK n, r : n = Len(q) /\ r = Tail(q) OBVIOUS
<1>3. /\ n \in Nat \ {0} /\ Head(q) \in FieldRequests /\ r \in Seq(FieldRequests) /\ Len(r) = n - 1
      /\ \A i \in 1..n - 1 : r[i] = q[i + 1]
  BY <1>1, <1>2, HeadTailProperties, EmptySeq
<1>4. DOMAIN r = 1..n - 1 /\ DOMAIN q = 1..n BY <1>1, <1>2, <1>3, LenProperties
<1>5. ASSUME NEW i \in DOMAIN r, r[i].name = "delete" /\ r[i].fresh PROVE Takes(r[i])
  <2>1. i + 1 \in DOMAIN q /\ r[i] = q[i + 1] BY <1>3, <1>4
  <2> QED BY <1>1, <1>5, <2>1
<1> QED BY <1>2, <1>3, <1>5 DEF Asks

\* What application and compositor may do: change the field's text, caret or
\* focus, and send what makes the frontend know it.
LEMMA FieldIsTold ==
  ASSUME FieldInv, UNCHANGED <<next, now, wants, context>>, Asks(requests'),
         app' \in FieldApps, app'.caret <= Len(app'.text), app'.on => app'.field \in Fields,
         inbox' \in Seq(FieldEvents), inbox' # <<>>, inbox'[Len(inbox')].name = "Done",
         NEW u \in FieldStates, Reads(inbox', next, u), Describes(u, app')
  PROVE  FieldInv'
<1>1. FieldTypes' BY DEF FieldInv, FieldTypes
<1>2. InboxInv' BY DEF InboxInv
<1>3. Tells(context, wants)' BY DEF FieldInv, Tells
<1>4. Asks(requests)' BY AsksLater
<1> QED BY <1>1, <1>2, <1>3, <1>4 DEF FieldInv

LEMMA FieldFocuses == ASSUME FieldInv, F!Focus PROVE FieldInv'
<1>1. PICK f \in Fields, c \in Chars : app' = [on |-> TRUE, text |-> <<c>>, caret |-> 1, field |-> f]
  BY DEF F!Focus
<1>2. <<c>> \in FieldTexts /\ Len(<<c>>) = 1 BY <1>1 DEF FieldTexts
<1>3. /\ app' \in FieldApps /\ app'.caret <= Len(app'.text) /\ app'.on = TRUE /\ app'.field = f
  BY <1>1, <1>2 DEF FieldApps
<1>4. app'.field.tells \in BOOLEAN BY <1>3, FieldConstants
<1>5. inbox \in Seq(FieldEvents) /\ next \in FieldStates BY DEF FieldInv, FieldTypes
<1>6. PICK s \in FieldStates : Reads(inbox, next, s) BY DEF FieldInv, InboxInv
<1> DEFINE q1 == inbox \o F!Named("Activate")
           q2 == q1 \o F!Around(app')
           q3 == q2 \o F!Kind(app')
           q4 == q3 \o F!Named("Done")
<1>7. inbox' = q4 BY DEF F!Focus
<1>8. PICK u1 \in FieldStates :
        /\ q1 \in Seq(FieldEvents) /\ Reads(q1, next, u1)
        /\ u1.active = TRUE /\ u1.surrounding = F!None /\ u1.content = F!FreeForm
  BY <1>5, <1>6, ActivateIsSent
<1> HIDE DEF q1
<1>9. PICK u2 \in FieldStates :
        /\ q2 \in Seq(FieldEvents) /\ Reads(q2, next, u2)
        /\ u2.active = TRUE /\ u2.content = F!FreeForm /\ u2.surrounding = AroundOf(app')
  <2>1. PICK u2 \in FieldStates :
          /\ q2 \in Seq(FieldEvents) /\ Reads(q2, next, u2)
          /\ u2.active = u1.active /\ u2.content = u1.content
          /\ u2.surrounding = IF app'.field.tells THEN AroundOf(app') ELSE u1.surrounding
    BY <1>3, <1>4, <1>5, <1>8, TextIsSent
  <2>2. u2.surrounding = AroundOf(app') BY <1>8, <2>1 DEF AroundOf
  <2> QED BY <1>8, <2>1, <2>2
<1> HIDE DEF q2
<1>10. PICK u3 \in FieldStates :
         /\ q3 \in Seq(FieldEvents) /\ Reads(q3, next, u3)
         /\ u3.active = u2.active /\ u3.surrounding = u2.surrounding
         /\ u3.content = F!FromWayland(app'.field.content)
  BY <1>3, <1>5, <1>9, KindIsSent
<1> HIDE DEF q3
<1>11. /\ q4 \in Seq(FieldEvents) /\ q4 # <<>> /\ q4[Len(q4)].name = "Done"
       /\ Reads(q4, next, u3)
  BY <1>5, <1>10, DoneIsSent
<1> HIDE DEF q4
<1>12. Describes(u3, app') BY <1>3, <1>9, <1>10 DEF Describes
<1>13. Asks(requests') /\ UNCHANGED <<next, now, wants, context>> BY AsksNothing DEF F!Focus
<1> QED BY <1>3, <1>7, <1>11, <1>12, <1>13, FieldIsTold

LEMMA FieldBlurs == ASSUME FieldInv, F!Blur PROVE FieldInv'
<1>1. app' = F!NoField BY DEF F!Blur
<1>2. <<>> \in Seq(Chars) /\ Len(<<>>) = 0 BY EmptySeq
<1>3. app' \in FieldApps /\ app'.caret <= Len(app'.text) /\ app'.on = FALSE
  BY <1>1, <1>2 DEF F!NoField, FieldApps, FieldTexts
<1>4. inbox \in Seq(FieldEvents) /\ next \in FieldStates BY DEF FieldInv, FieldTypes
<1>5. PICK s \in FieldStates : Reads(inbox, next, s) BY DEF FieldInv, InboxInv
<1> DEFINE q1 == inbox \o F!Named("Deactivate")
           q2 == q1 \o F!Named("Done")
<1>6. inbox' = q2 BY DEF F!Blur
<1>7. PICK u \in FieldStates : q1 \in Seq(FieldEvents) /\ Reads(q1, next, u) /\ u.active = FALSE
  BY <1>4, <1>5, DeactivateIsSent
<1> HIDE DEF q1
<1>8. q2 \in Seq(FieldEvents) /\ q2 # <<>> /\ q2[Len(q2)].name = "Done" /\ Reads(q2, next, u)
  BY <1>4, <1>7, DoneIsSent
<1> HIDE DEF q2
<1>9. Describes(u, app') BY <1>3, <1>7 DEF Describes
<1>10. Asks(requests') /\ UNCHANGED <<next, now, wants, context>> BY AsksNothing DEF F!Blur
<1> QED BY <1>3, <1>6, <1>8, <1>9, <1>10, FieldIsTold

\* The same field with another text or caret, told anew.
LEMMA FieldSaysAnew ==
  ASSUME FieldInv, UNCHANGED <<next, now, wants, context>>, Asks(requests'),
         app.on, app' \in FieldApps, app'.caret <= Len(app'.text),
         app'.on = app.on, app'.field = app.field,
         inbox' = inbox \o F!Around(app') \o F!Named("Done")
  PROVE  FieldInv'
<1>1. inbox \in Seq(FieldEvents) /\ next \in FieldStates /\ app.field \in Fields BY DEF FieldInv, FieldTypes
<1>2. PICK s \in FieldStates : Reads(inbox, next, s) /\ Describes(s, app) BY DEF FieldInv, InboxInv
<1> DEFINE q1 == inbox \o F!Around(app')
           q2 == q1 \o F!Named("Done")
<1>3. app'.field.tells \in BOOLEAN BY <1>1, FieldConstants
<1>4. PICK u \in FieldStates :
        /\ q1 \in Seq(FieldEvents) /\ Reads(q1, next, u)
        /\ u.active = s.active /\ u.content = s.content
        /\ u.surrounding = IF app'.field.tells THEN AroundOf(app') ELSE s.surrounding
  BY <1>1, <1>2, <1>3, TextIsSent
<1>5. inbox' = q2 OBVIOUS
<1> HIDE DEF q1
<1>6. q2 \in Seq(FieldEvents) /\ q2 # <<>> /\ q2[Len(q2)].name = "Done" /\ Reads(q2, next, u)
  BY <1>1, <1>4, DoneIsSent
<1> HIDE DEF q2
<1>7. u.surrounding = AroundOf(app') BY <1>2, <1>4 DEF Describes, AroundOf
<1>8. Describes(u, app') BY <1>2, <1>4, <1>7 DEF Describes
<1> QED BY <1>1, <1>5, <1>6, <1>8, FieldIsTold

LEMMA FieldMovesCaret == ASSUME FieldInv, F!MoveCaret PROVE FieldInv'
<1>1. PICK n \in 0..Len(app.text) : app' = [app EXCEPT !.caret = n] BY DEF F!MoveCaret
<1>2. app \in FieldApps /\ Len(app.text) \in Nat BY LenProperties DEF FieldInv, FieldTypes, FieldApps, FieldTexts
<1>3. n \in Nat /\ n <= Len(app.text) BY <1>2
<1>4. /\ app' \in FieldApps /\ app'.on = app.on /\ app'.field = app.field
      /\ app'.text = app.text /\ app'.caret = n
  BY <1>1, <1>2, <1>3 DEF FieldApps
<1>5. UNCHANGED <<next, now, wants, context>> /\ app.on /\ Asks(requests')
  BY DEF F!MoveCaret, FieldInv
<1>6. inbox' = inbox \o F!Around(app') \o F!Named("Done") BY DEF F!MoveCaret
<1> QED BY <1>3, <1>4, <1>5, <1>6, FieldSaysAnew

\* A commit and a deletion leave a field with its caret in its text.
LEMMA FieldEdits ==
  ASSUME NEW a \in FieldApps, a.caret <= Len(a.text),
         NEW b, (\E c \in Chars : b = F!Inserted(a, c)) \/ (\E before, after : b \in F!Deleted(a, before, after))
  PROVE  b \in FieldApps /\ b.caret <= Len(b.text) /\ b.on = a.on /\ b.field = a.field
<1>1. PICK text, len, caret : text = a.text /\ len = Len(text) /\ caret = a.caret OBVIOUS
<1>2. text \in Seq(Chars) /\ len \in Nat /\ caret \in 0..len /\ a.on \in BOOLEAN
      /\ a.field \in Fields \cup {F!NoField.field}
  BY <1>1, LenProperties DEF FieldApps, FieldTexts
<1>3. \A l \in 0..len : SubSeq(text, 1, l) \in Seq(Chars) /\ Len(SubSeq(text, 1, l)) = l
  BY <1>1, <1>2, PartOf
<1>4. \A r \in 0..len : SubSeq(text, r + 1, len) \in Seq(Chars) /\ Len(SubSeq(text, r + 1, len)) \in Nat
  <2> SUFFICES ASSUME NEW r \in 0..len
               PROVE  SubSeq(text, r + 1, len) \in Seq(Chars) /\ Len(SubSeq(text, r + 1, len)) \in Nat
    OBVIOUS
  <2>1. r + 1 \in Nat \ {0} /\ len \in 0..Len(text) BY <1>1, <1>2
  <2>2. SubSeq(text, r + 1, len) \in Seq(Chars) BY <1>2, <2>1, PartOf
  <2> QED BY <2>2, LenProperties
<1>5. ASSUME NEW new \in Seq(Chars), NEW at \in Nat, at <= Len(new), b = F!Edited(a, new, at)
      PROVE  b \in FieldApps /\ b.caret <= Len(b.text) /\ b.on = a.on /\ b.field = a.field
  <2>1. b = [on |-> a.on, text |-> new, caret |-> at, field |-> a.field] BY <1>5 DEF F!Edited
  <2> QED BY <1>2, <1>5, <2>1 DEF FieldApps, FieldTexts
<1>6. ASSUME NEW c \in Chars, b = F!Inserted(a, c)
      PROVE  b \in FieldApps /\ b.caret <= Len(b.text) /\ b.on = a.on /\ b.field = a.field
  <2>1. PICK x, y, z : x = SubSeq(text, 1, caret) /\ y = <<c>> /\ z = SubSeq(text, caret + 1, len) OBVIOUS
  <2>2. x \in Seq(Chars) /\ Len(x) = caret /\ y \in Seq(Chars) /\ Len(y) = 1
    <3>1. y \in Seq(Chars) /\ Len(y) = 1 BY <2>1
    <3> QED BY <1>2, <1>3, <2>1, <3>1
  <2>3. x \o y \in Seq(Chars) /\ Len(x \o y) = caret + 1
    <3>1. x \o y = Append(x, c) BY <2>1, <2>2, AppendIsConcat
    <3> QED BY <2>2, <3>1, AppendProperties
  <2>4. z \in Seq(Chars) /\ Len(z) \in Nat BY <1>2, <1>4, <2>1
  <2>5. (x \o y) \o z \in Seq(Chars) /\ Len((x \o y) \o z) = caret + 1 + Len(z)
    BY <2>2, <2>3, <2>4, ConcatProperties
  <2>6. b = F!Edited(a, (x \o y) \o z, caret + 1) BY <1>1, <1>6, <2>1 DEF F!Inserted
  <2>7. caret + 1 \in Nat /\ caret + 1 <= Len((x \o y) \o z) BY <1>2, <2>4, <2>5
  <2> QED BY <1>5, <2>5, <2>6, <2>7
<1>7. ASSUME NEW before, NEW after, b \in F!Deleted(a, before, after)
      PROVE  b \in FieldApps /\ b.caret <= Len(b.text) /\ b.on = a.on /\ b.field = a.field
  <2>1. PICK l \in 0..len, r \in 0..len : b = F!Edited(a, SubSeq(text, 1, l) \o SubSeq(text, r + 1, len), l)
    BY <1>1, <1>7 DEF F!Deleted
  <2>2. PICK x, z : x = SubSeq(text, 1, l) /\ z = SubSeq(text, r + 1, len) OBVIOUS
  <2>3. x \in Seq(Chars) /\ z \in Seq(Chars) /\ Len(x) = l /\ Len(z) \in Nat BY <1>3, <1>4, <2>2
  <2>4. x \o z \in Seq(Chars) /\ Len(x \o z) = l + Len(z) BY <2>3, ConcatProperties
  <2>5. l \in Nat /\ l <= Len(x \o z) BY <1>2, <2>3, <2>4
  <2> QED BY <1>5, <2>1, <2>2, <2>4, <2>5
<1> QED BY <1>6, <1>7

LEMMA FieldApplies == ASSUME FieldInv, F!Apply PROVE FieldInv'
<1>1. /\ app \in FieldApps /\ app.caret <= Len(app.text) /\ Asks(requests) /\ requests # <<>> /\ app.on
      /\ inbox' = inbox \o F!Around(app') \o F!Named("Done")
      /\ requests' = Tail(requests) /\ UNCHANGED <<next, now, wants, context>>
  BY DEF FieldInv, FieldTypes, F!Apply
<1>2. PICK r : r = Head(requests) OBVIOUS
<1>3. r \in FieldRequests /\ Asks(requests') BY <1>1, <1>2, AsksTail
<1>4. \/ app' = app
      \/ \E c \in Chars : app' = F!Inserted(app, c)
      \/ \E before, after : app' \in F!Deleted(app, before, after)
  <2>1. CASE r.name = "commit"
    <3>1. r.char \in Chars BY <1>3, <2>1 DEF FieldRequests
    <3>2. app' = F!Inserted(app, r.char) BY <1>2, <2>1 DEF F!Apply
    <3> QED BY <3>1, <3>2
  <2>2. CASE r.name # "commit"
    <3>1. app' = app \/ app' \in F!Deleted(app, r.before, r.after) BY <1>2, <2>2 DEF F!Apply
    <3> QED BY <3>1
  <2> QED BY <2>1, <2>2
<1>5. app' \in FieldApps /\ app'.caret <= Len(app'.text) /\ app'.on = app.on /\ app'.field = app.field
  BY <1>1, <1>4, FieldEdits
<1> QED BY <1>1, <1>3, <1>5, FieldSaysAnew

\* A done: what was pending is in effect, and the context hears of it.
LEMMA FieldIsDone ==
  ASSUME FieldInv, F!OnDone, UNCHANGED wants
  PROVE  /\ context' \in FieldContexts /\ context'.caret <= Len(context'.text)
         /\ Tells(context, wants)'
<1>1. /\ context \in FieldContexts /\ context.caret <= Len(context.text)
      /\ next \in FieldStates /\ Tells(context, wants)
  BY DEF FieldInv, FieldTypes
<1>2. now' = next /\ wants' = wants BY DEF F!OnDone
<1>3. next.surrounding \in FieldAround /\ next.content \in FieldContents /\ next.active \in BOOLEAN
  BY <1>1 DEF FieldStates
<1>4. PICK p : p = F!PushAround(context, next.surrounding) OBVIOUS
<1>5. /\ p \in FieldContexts /\ p.caret <= Len(p.text) /\ p.text = next.surrounding.text
      /\ p.content = context.content /\ p.focus = context.focus
  BY <1>1, <1>3, <1>4, PushAroundIs
<1>6. PICK enters : enters <=> next.active /\ ~F!Secret(next.content) /\ (~now.active \/ F!Secret(now.content))
  OBVIOUS
<1>7. PICK told : told = IF wants THEN p ELSE context OBVIOUS
<1>8. /\ told \in FieldContexts /\ told.caret <= Len(told.text)
      /\ wants => told.text = next.surrounding.text
      /\ told.content = context.content /\ told.focus = context.focus
  BY <1>1, <1>5, <1>7
<1>a. /\ enters => context' = F!FocusIn(next)
      /\ ~next.active => context' = [context EXCEPT !.focus = FALSE]
      /\ next.active /\ ~enters /\ now.active => context' = F!Stays
      /\ next.active /\ ~enters /\ ~now.active => context' = context
  BY <1>6 DEF F!OnDone
<1>9. CASE enters
  <2>1. context' = [[p EXCEPT !.content = next.content] EXCEPT !.focus = TRUE]
    BY <1>4, <1>9, <1>a DEF F!FocusIn, F!Described
  <2>2. PICK c : c = [p EXCEPT !.content = next.content] OBVIOUS
  <2>3. c \in FieldContexts /\ c.caret = p.caret /\ c.text = p.text /\ c.content = next.content
    BY <1>3, <1>5, <2>2 DEF FieldContexts
  <2>4. /\ context' \in FieldContexts /\ context'.caret = p.caret /\ context'.text = p.text
        /\ context'.content = next.content /\ context'.focus = TRUE
    BY <2>1, <2>2, <2>3 DEF FieldContexts
  <2> QED BY <1>2, <1>5, <1>6, <1>9, <2>4 DEF Tells
<1>10. CASE ~next.active
  <2>1. /\ context' \in FieldContexts /\ context'.caret = context.caret /\ context'.text = context.text
        /\ context'.focus = FALSE
    BY <1>1, <1>10, <1>a DEF FieldContexts
  <2> QED BY <1>1, <1>2, <1>10, <2>1 DEF Tells
<1>11. CASE next.active /\ ~enters /\ now.active
  <2>1. context' = F!Stays BY <1>11, <1>a
  <2>2. CASE F!Secret(next.content)
    <3>1. IF F!Secret(now.content) THEN context' \in {told, [told EXCEPT !.content = next.content]}
          ELSE context' = [told EXCEPT !.focus = FALSE]
      BY <1>4, <1>7, <2>1, <2>2 DEF F!Stays
    <3>2. F!Secret(now.content) => told.focus = FALSE BY <1>1, <1>8 DEF Tells
    <3>3. /\ context' \in FieldContexts /\ context'.caret = told.caret /\ context'.text = told.text
          /\ context'.focus = FALSE
      BY <1>3, <1>8, <3>1, <3>2 DEF FieldContexts
    <3> QED BY <1>2, <1>8, <2>2, <3>3 DEF Tells
  <2>3. CASE ~F!Secret(next.content)
    <3>1. ~F!Secret(now.content) BY <1>6, <1>11, <2>3
    <3>2. context.focus = TRUE /\ context.content = now.content BY <1>1, <1>11, <3>1 DEF Tells
    <3>3. context' = IF next.content = now.content THEN told ELSE [told EXCEPT !.content = next.content]
      BY <1>4, <1>7, <2>1, <2>3 DEF F!Stays
    <3>4. /\ context' \in FieldContexts /\ context'.caret = told.caret /\ context'.text = told.text
          /\ context'.content = next.content /\ context'.focus = TRUE
      BY <1>3, <1>8, <3>2, <3>3 DEF FieldContexts
    <3>5. wants => context'.text = next.surrounding.text BY <1>8, <3>4
    <3>6. Tells(context, wants)'
      <4>1. wants \in BOOLEAN BY DEF FieldInv, FieldTypes
      <4>2. next.active = TRUE BY <1>3, <1>11
      <4>3. CASE wants = TRUE BY <1>2, <2>3, <3>4, <3>5, <4>2, <4>3 DEF Tells
      <4>4. CASE wants = FALSE BY <1>2, <2>3, <3>4, <4>2, <4>4 DEF Tells
      <4> QED BY <4>1, <4>3, <4>4
    <3> QED BY <1>8, <3>4, <3>6
  <2> QED BY <2>2, <2>3
<1>12. CASE next.active /\ ~enters /\ ~now.active
  <2>1. context' = context BY <1>12, <1>a
  <2>2. context.focus = FALSE /\ F!Secret(next.content) BY <1>1, <1>6, <1>12 DEF Tells
  <2> QED BY <1>1, <1>2, <1>12, <2>1, <2>2 DEF Tells
<1> QED BY <1>9, <1>10, <1>11, <1>12

LEMMA FieldReads == ASSUME FieldInv, F!Read PROVE FieldInv'
<1>1. /\ inbox \in Seq(FieldEvents) /\ inbox # <<>> /\ next \in FieldStates /\ now \in FieldStates
      /\ inbox[Len(inbox)].name = "Done"
      /\ inbox' = Tail(inbox) /\ UNCHANGED <<app, wants, requests>>
  BY DEF FieldInv, FieldTypes, InboxInv, F!Read
<1>2. PICK s \in FieldStates : Reads(inbox, next, s) /\ Describes(s, app) BY DEF FieldInv, InboxInv
<1>3. PICK e : e = Head(inbox) OBVIOUS
<1>4. /\ e \in FieldEvents /\ After(next, e) \in FieldStates /\ inbox' \in Seq(FieldEvents)
      /\ inbox' # <<>> => inbox'[Len(inbox')].name = "Done"
      /\ inbox' = <<>> => e.name = "Done"
      /\ Reads(inbox', After(next, e), s)
  BY <1>1, <1>2, <1>3, ReadsTail
<1>5. /\ next' = After(next, e)
      /\ IF e.name = "Done" THEN F!OnDone ELSE UNCHANGED <<now, context>>
  BY <1>3 DEF F!Read, After
<1>6. e.name = "Done" => now' = next /\ next' = next BY <1>5 DEF F!OnDone, After
<1>7. now' \in FieldStates BY <1>1, <1>5, <1>6
<1>8. /\ context' \in FieldContexts /\ context'.caret <= Len(context'.text)
      /\ Tells(context, wants)'
  <2>1. CASE e.name = "Done" BY <1>1, <1>5, <2>1, FieldIsDone
  <2>2. CASE e.name # "Done" BY <1>1, <1>5, <2>2 DEF FieldInv, FieldTypes, Tells
  <2> QED BY <2>1, <2>2
<1>9. FieldTypes' BY <1>1, <1>4, <1>5, <1>7, <1>8 DEF FieldInv, FieldTypes
<1>10. InboxInv'
  <2>1. Describes(s, app') BY <1>1, <1>2
  <2> QED BY <1>4, <1>5, <1>6, <2>1 DEF InboxInv
<1>11. Asks(requests)'
  <2>1. Asks(requests') BY <1>1 DEF FieldInv
  <2> QED BY <2>1, AsksLater
<1> QED BY <1>8, <1>9, <1>10, <1>11 DEF FieldInv

LEMMA FieldHasKey == ASSUME FieldInv, F!Key PROVE FieldInv'
<1>1. context.focus /\ UNCHANGED <<app, inbox, next, now>> BY DEF F!Key
<1>2. PICK effects \in Drains :
        LET s == F!Effected(F!Drained(effects))
        IN requests' = s.requests /\ wants' = s.wants /\ context' = s.context
  BY DEF F!Key
<1>3. PICK s : s = F!Effected(F!Drained(effects)) OBVIOUS
<1>4. s \in EffectStates
  <2>1. F!Drained(effects) \in Seq(FieldRecords) BY DrainedType
  <2> QED BY <1>1, <1>3, <2>1, EffectedIs
<1>5. /\ requests' = s.requests /\ wants' = s.wants /\ context' = s.context
      /\ wants' \in BOOLEAN /\ context' \in FieldContexts /\ context'.caret <= Len(context'.text)
      /\ Asks(s.requests) /\ Tells(s.context, s.wants)
  BY <1>2, <1>3, <1>4 DEF EffectStates
<1>6. FieldTypes' BY <1>1, <1>5 DEF FieldInv, FieldTypes
<1>7. InboxInv' BY <1>1 DEF FieldInv, InboxInv
<1>8. Tells(context, wants)' BY <1>1, <1>5 DEF Tells
<1>9. Asks(requests)'
  <2>1. Asks(requests') BY <1>5
  <2> QED BY <2>1, AsksLater
<1> QED BY <1>6, <1>7, <1>8, <1>9 DEF FieldInv

LEMMA FieldStands == ASSUME FieldInv, UNCHANGED around PROVE FieldInv'
<1>1. UNCHANGED <<app, inbox, next, now, wants, context, requests>> BY DEF around
<1>2. FieldTypes' BY <1>1 DEF FieldInv, FieldTypes
<1>3. InboxInv' BY <1>1 DEF FieldInv, InboxInv
<1>4. Tells(context, wants)' BY <1>1 DEF FieldInv, Tells
<1>5. Asks(requests)'
  <2>1. Asks(requests') BY <1>1 DEF FieldInv
  <2> QED BY <2>1, AsksLater
<1> QED BY <1>2, <1>3, <1>4, <1>5 DEF FieldInv

LEMMA FieldKeeps == ASSUME FieldInv, F!Next PROVE FieldInv'
<1>1. CASE F!Focus BY <1>1, FieldFocuses
<1>2. CASE F!Blur BY <1>2, FieldBlurs
<1>3. CASE F!MoveCaret BY <1>3, FieldMovesCaret
<1>4. CASE F!Apply BY <1>4, FieldApplies
<1>5. CASE F!Read BY <1>5, FieldReads
<1>6. CASE F!Key BY <1>6, FieldHasKey
<1> QED BY <1>1, <1>2, <1>3, <1>4, <1>5, <1>6 DEF F!Next

-----------------------------------------------------------------------------

\* The field, inductively: once all that was sent is read, the frontend's
\* pending state is the field's; the context knows what took effect last; and
\* every deletion asked for by an up-to-date text takes what it was to take
\* (frontend.rs Pending, on_done, delete_surrounding).
THEOREM FieldInvariant == Spec => []FieldInv
<1>1. Init => FieldInv BY FieldStarts DEF Init
<1>2. FieldInv /\ [Next]_vars => FieldInv'
  <2> SUFFICES ASSUME FieldInv, [Next]_vars PROVE FieldInv' OBVIOUS
  <2>1. CASE FieldStep BY <2>1, FieldKeeps DEF FieldStep
  <2>2. CASE UNCHANGED around BY <2>2, FieldStands
  <2>3. FieldStep \/ UNCHANGED around
    BY DEF Next, vars, MirrorsStep, UpstreamStep, PopupStep, TypingStep, CaptureStep
  <2> QED BY <2>1, <2>2, <2>3
<1> QED BY <1>1, <1>2, PTL DEF Spec

\* When all that was sent has been read, the frontend knows the field it
\* serves and nothing of the one before: text, caret, content type, and whether
\* it is secret, and so does an engine that asked (frontend.rs Pending, on_done).
THEOREM FieldIsKnown == Spec => []KnowsTheField
<1>1. FieldInv => KnowsTheField
  <2> SUFFICES ASSUME FieldInv, inbox = <<>>, app.on PROVE F!KnowsTheField
    BY DEF KnowsTheField, F!KnowsTheField
  <2>1. PICK s \in FieldStates : Reads(inbox, next, s) /\ Describes(s, app) BY DEF FieldInv, InboxInv
  <2>2. s = next /\ now = next /\ now \in FieldStates
    BY <2>1, ReadsNothing DEF FieldInv, FieldTypes, InboxInv
  <2>3. /\ now.active /\ now.content = F!FromWayland(app.field.content)
        /\ now.surrounding = AroundOf(app)
    BY <2>1, <2>2 DEF Describes
  <2>4. F!Secret(now.content) = (app.field.content.purpose \in {8, 9} \/ 6 \in app.field.content.hints)
    <3>1. F!Secret(now.content) <=> (app.field.content.purpose \in {8, 9} \/ 6 \in app.field.content.hints)
      BY <2>3, SecretIsTold
    <3> QED BY <3>1 DEF F!Secret
  <2>5. IF app.field.tells
          THEN now.surrounding.text = app.text /\ F!CharOffset(app.text, now.surrounding.cursor) = app.caret
          ELSE now.surrounding = F!None
    <3>1. CASE app.field.tells
      <4>1. now.surrounding.text = app.text /\ now.surrounding.cursor = F!ByteOffset(app.text, app.caret)
        BY <2>3, <3>1 DEF AroundOf
      <4>2. Len(app.text) \in Nat /\ app.caret \in 0..Len(app.text)
        <5>1. app.text \in FieldTexts /\ app.caret \in Nat /\ app.caret <= Len(app.text)
          BY DEF FieldInv, FieldTypes, FieldApps
        <5>2. Len(app.text) \in Nat BY <5>1, LenProperties DEF FieldTexts
        <5> QED BY <5>1, <5>2
      <4> QED BY <3>1, <4>1, <4>2, CharOffsetIs
    <3>2. CASE ~app.field.tells BY <2>3, <3>2 DEF AroundOf
    <3> QED BY <3>1, <3>2
  <2>6. /\ context.focus = ~F!Secret(now.content)
        /\ (context.focus /\ wants) => context.text = now.surrounding.text
        /\ context.focus => context.content = now.content
    <3>1. Tells(context, wants) /\ now.active = TRUE BY <2>2, <2>3 DEF FieldInv, FieldStates
    <3> QED BY <3>1 DEF Tells, F!Secret
  <2> QED BY <2>3, <2>4, <2>5, <2>6 DEF F!KnowsTheField
<1> QED BY <1>1, FieldInvariant, PTL

\* A deletion asked for by an up-to-date text takes whole characters and at
\* least those the engine asked for, whatever their width (frontend.rs
\* delete_range).
THEOREM DeletionsTake == Spec => []DeletesWhatWasAsked
<1>1. FieldInv => DeletesWhatWasAsked
  <2> SUFFICES ASSUME FieldInv, NEW d \in F!Deletions
               PROVE  /\ F!Wanted(d) \subseteq F!Goes(d)
                      /\ LET at == F!ByteOffset(d.seen.text, d.seen.caret)
                         IN \E l, r \in 0..Len(d.seen.text) :
                              /\ F!ByteOffset(d.seen.text, l) = at - d.before
                              /\ F!ByteOffset(d.seen.text, r) = at + d.after
    BY DEF DeletesWhatWasAsked, F!DeletesWhatWasAsked
  <2>1. PICK i \in DOMAIN requests : d = requests[i] /\ d.name = "delete" /\ d.fresh
    BY DEF F!Deletions, F!Range
  <2>2. Takes(d) BY <2>1 DEF FieldInv, Asks
  <2> QED BY <2>2 DEF Takes
<1> QED BY <1>1, FieldInvariant, PTL
=============================================================================
