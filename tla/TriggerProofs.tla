---------------------------- MODULE TriggerProofs -----------------------------
(***************************************************************************)
(* What holds of Trigger for any keyboard, channel and number of events:   *)
(* its types, that a rebind has one answer, that watcher and engine agree  *)
(* on the trigger, and that the press that chose it is never an edge.      *)
(***************************************************************************)
EXTENDS Trigger, FiniteSetTheorems, SequenceTheorems, TLAPS

-----------------------------------------------------------------------------
(* The invariant *)

KeyEvents == [code: Keys, press: BOOLEAN]
Events    == [kind: {"Pressed", "Released", "Rebound"}, code: Keys \cup {"none"}]

\* Entry i of the channel answers a rebind; and with a key.
Answer(i) == keys[i].kind = "Rebound"
News(i)   == Answer(i) /\ keys[i].code # "none"

\* Nobody binds Escape.
EscIsNoNews == \A i \in DOMAIN keys : News(i) => keys[i].code \in Keys \ {Esc}

Answered == \E i \in DOMAIN keys : Answer(i)

\* The rebind the engine waits for is in one place, and there is no other.
OneAtATime ==
  /\ \A i, j \in DOMAIN keys : Answer(i) /\ Answer(j) => i = j
  /\ mode # "dead" =>
       /\ rebinding <=> pending \/ mode = "capturing" \/ Answered
       /\ ~(pending /\ mode = "capturing")
       /\ Answered => ~pending /\ mode # "capturing"

\* The last news in the channel is the watcher's trigger; without news it is
\* the engine's.
LastNews ==
  \/ trigger = bound /\ \A i \in DOMAIN keys : ~News(i)
  \/ \E i \in DOMAIN keys :
       /\ News(i) /\ keys[i] = Rebound(trigger)
       /\ \A j \in DOMAIN keys : News(j) => j <= i

\* A key still down since it was chosen has no press to be read, and a capture
\* starts from "not held".
ChosenIsSpent ==
  /\ mode = "capturing" => ~held
  /\ \A k \in choosing : \A i \in DOMAIN unread : ~(unread[i].press /\ unread[i].code = k)

IInv == TypeOK /\ EscIsNoNews /\ OneAtATime /\ LastNews /\ ChosenIsSpent /\ ChoiceIsNoEdge

-----------------------------------------------------------------------------
(* Queues *)

\* What sending does to a queue.
LEMMA Sent ==
  ASSUME NEW S, NEW s \in Seq(S), NEW e \in S
  PROVE  /\ Append(s, e) \in Seq(S)
         /\ Len(s) \in Nat /\ Len(Append(s, e)) = Len(s) + 1
         /\ DOMAIN s = 1..Len(s) /\ DOMAIN Append(s, e) = 1..Len(s) + 1
         /\ \A i \in 1..Len(s) : Append(s, e)[i] = s[i]
         /\ Append(s, e)[Len(s) + 1] = e
  BY AppendProperties, LenProperties

\* And receiving.
LEMMA Received ==
  ASSUME NEW S, NEW s \in Seq(S), s # <<>>
  PROVE  /\ Tail(s) \in Seq(S) /\ Head(s) \in S /\ Head(s) = s[1]
         /\ Len(s) \in Nat \ {0} /\ Len(Tail(s)) = Len(s) - 1
         /\ DOMAIN s = 1..Len(s) /\ DOMAIN Tail(s) = 1..Len(s) - 1
         /\ \A i \in 1..Len(s) - 1 : Tail(s)[i] = s[i + 1]
<1>1. Len(s) \in Nat /\ Len(s) # 0 BY LenProperties, EmptySeq
<1>2. Tail(s) \in Seq(S) /\ Head(s) \in S /\ Len(Tail(s)) = Len(s) - 1
      /\ \A i \in 1..Len(Tail(s)) : Tail(s)[i] = s[i + 1]
  BY HeadTailProperties
<1>3. Head(s) = s[1] BY SMT
<1>4. DOMAIN s = 1..Len(s) /\ DOMAIN Tail(s) = 1..Len(Tail(s)) BY <1>2, LenProperties
<1> QED BY <1>1, <1>2, <1>3, <1>4

\* An empty one has no entries.
LEMMA Emptied == ASSUME NEW S PROVE <<>> \in Seq(S) /\ DOMAIN <<>> = {} /\ Len(<<>>) = 0
  BY EmptySeq, LenProperties

\* The types with their sets named.
LEMMA Typed ==
  TypeOK <=>
    /\ down \in SUBSET Keys /\ choosing \in SUBSET down
    /\ unread \in Seq(KeyEvents)
    /\ mode \in {"watching", "capturing", "dead"}
    /\ trigger \in Keys \ {Esc} /\ bound \in Keys \ {Esc}
    /\ held \in BOOLEAN /\ pending \in BOOLEAN
    /\ enabled \in BOOLEAN /\ rebinding \in BOOLEAN
    /\ keys \in Seq(Events) /\ Len(keys) <= ChannelCap
    /\ state \in {"Idle", "Held", "Open", "Transcribing"}
  BY DEF TypeOK, KeyEvents, Events

\* Edges are events, and no answers.
LEMMA Edges ==
  /\ Pressed \in Events /\ Released \in Events
  /\ Pressed.kind # "Rebound" /\ Released.kind # "Rebound" /\ Pressed # Released
  BY DEF Pressed, Released, Events

\* Answers are events, and no edges.
LEMMA Answers ==
  ASSUME NEW c \in Keys \cup {"none"}
  PROVE  /\ Rebound(c) \in Events /\ Rebound(c) # Pressed
         /\ Rebound(c).kind = "Rebound" /\ Rebound(c).code = c
  BY DEF Rebound, Pressed, Events

-----------------------------------------------------------------------------
(* Steps *)

\* Keys the watcher has not read are of no concern to the channel.
LEMMA KeptByKeyboard ==
  ASSUME IInv, UNCHANGED <<watcher, pending, keys, engineVars>>,
         unread' \in Seq(KeyEvents), down' \in SUBSET Keys, choosing' \in SUBSET down',
         choosing' \subseteq choosing,
         \A k \in choosing' : \A i \in DOMAIN unread' : ~(unread'[i].press /\ unread'[i].code = k)
  PROVE  IInv'
<1> USE DEF IInv, watcher, engineVars
<1>1. TypeOK' BY DEF TypeOK, KeyEvents
<1>2. EscIsNoNews' BY DEF EscIsNoNews, News, Answer
<1>3. OneAtATime' BY DEF OneAtATime, Answered, Answer
<1>4. LastNews' BY DEF LastNews, News, Answer, Rebound
<1>5. ChosenIsSpent' BY DEF ChosenIsSpent
<1>6. ChoiceIsNoEdge' BY DEF ChoiceIsNoEdge, Rebound, Pressed
<1> QED BY <1>1, <1>2, <1>3, <1>4, <1>5, <1>6

\* A key that was chosen and is still down is not pressed again.
LEMMA PressKeyStep == ASSUME IInv, NEW k \in Keys, PressKey(k) PROVE IInv'
<1> DEFINE e == [code |-> k, press |-> TRUE]
<1>1. /\ unread \in Seq(KeyEvents) /\ down \in SUBSET Keys /\ choosing \in SUBSET down
      /\ k \notin down /\ choosing' = choosing /\ down' = down \cup {k}
  BY Typed DEF IInv, PressKey
<1>2. e \in KeyEvents BY DEF KeyEvents
<1>3. ChosenIsSpent BY DEF IInv
<1>4. unread' = unread \/ unread' = Append(unread, e) BY DEF PressKey, KeyEvent
<1>5. unread' \in Seq(KeyEvents) BY <1>1, <1>2, <1>4, Sent
<1>6. ASSUME NEW c \in choosing, NEW i \in DOMAIN unread'
      PROVE  ~(unread'[i].press /\ unread'[i].code = c)
  <2>1. CASE unread' = unread BY <1>3, <1>6, <2>1 DEF ChosenIsSpent
  <2>2. CASE unread' = Append(unread, e)
    <3>1. CASE i \in 1..Len(unread)
      BY <1>1, <1>2, <1>3, <1>6, <2>2, <3>1, Sent DEF ChosenIsSpent
    <3>2. CASE i = Len(unread) + 1
      <4>1. unread'[i] = e BY <1>1, <1>2, <2>2, <3>2, Sent
      <4> QED BY <1>1, <1>6, <4>1
    <3>3. i \in 1..Len(unread) \/ i = Len(unread) + 1 BY <1>1, <1>2, <1>6, <2>2, Sent
    <3> QED BY <3>1, <3>2, <3>3
  <2> QED BY <1>4, <2>1, <2>2
<1>7. UNCHANGED <<watcher, pending, keys, engineVars>> BY DEF PressKey
<1>8. down' \in SUBSET Keys /\ choosing' \in SUBSET down' /\ choosing' \subseteq choosing BY <1>1
<1> QED BY <1>1, <1>5, <1>6, <1>7, <1>8, KeptByKeyboard

\* One that comes up is chosen no more.
LEMMA ReleaseKeyStep == ASSUME IInv, NEW k \in Keys, ReleaseKey(k) PROVE IInv'
<1> DEFINE e == [code |-> k, press |-> FALSE]
<1>1. /\ unread \in Seq(KeyEvents) /\ down \in SUBSET Keys /\ choosing \in SUBSET down
      /\ choosing' = choosing \ {k} /\ down' = down \ {k}
  BY Typed DEF IInv, ReleaseKey
<1>2. e \in KeyEvents BY DEF KeyEvents
<1>3. ChosenIsSpent BY DEF IInv
<1>4. unread' = unread \/ unread' = Append(unread, e) BY DEF ReleaseKey, KeyEvent
<1>5. unread' \in Seq(KeyEvents) BY <1>1, <1>2, <1>4, Sent
<1>6. ASSUME NEW c \in choosing', NEW i \in DOMAIN unread'
      PROVE  ~(unread'[i].press /\ unread'[i].code = c)
  <2>1. CASE unread' = unread BY <1>1, <1>3, <1>6, <2>1 DEF ChosenIsSpent
  <2>2. CASE unread' = Append(unread, e)
    <3>1. CASE i \in 1..Len(unread)
      BY <1>1, <1>2, <1>3, <1>6, <2>2, <3>1, Sent DEF ChosenIsSpent
    <3>2. CASE i = Len(unread) + 1
      <4>1. unread'[i] = e BY <1>1, <1>2, <2>2, <3>2, Sent
      <4> QED BY <4>1
    <3>3. i \in 1..Len(unread) \/ i = Len(unread) + 1 BY <1>1, <1>2, <1>6, <2>2, Sent
    <3> QED BY <3>1, <3>2, <3>3
  <2> QED BY <1>4, <2>1, <2>2
<1>7. UNCHANGED <<watcher, pending, keys, engineVars>> BY DEF ReleaseKey
<1>8. down' \in SUBSET Keys /\ choosing' \in SUBSET down' /\ choosing' \subseteq choosing BY <1>1
<1> QED BY <1>5, <1>6, <1>7, <1>8, KeptByKeyboard

\* A rebuild leaves nothing to be read.
LEMMA RebuildStep == ASSUME IInv, Rebuild PROVE IInv'
<1>1. unread' = <<>> /\ down' \in {down, {}} /\ choosing' = choosing \cap down'
      /\ UNCHANGED <<watcher, pending, keys, engineVars>>
  BY DEF Rebuild
<1>2. down \in SUBSET Keys BY Typed DEF IInv
<1>3. down' \in SUBSET Keys BY <1>1, <1>2
<1>4. choosing' \in SUBSET down' /\ choosing' \subseteq choosing BY <1>1
<1>5. unread' \in Seq(KeyEvents) /\ DOMAIN unread' = {} BY <1>1, Emptied
<1> QED BY <1>1, <1>3, <1>4, <1>5, KeptByKeyboard

\* Steps of the engine and of the user that leave watcher and channel alone.
LEMMA KeptByEngine ==
  ASSUME IInv, UNCHANGED <<keyboard, watcher, pending, keys, rebinding, bound, choosing>>,
         enabled' \in BOOLEAN, state' \in {"Idle", "Held", "Open", "Transcribing"}
  PROVE  IInv'
<1> USE DEF IInv, watcher, keyboard
<1>1. TypeOK' BY DEF TypeOK
<1>2. EscIsNoNews' BY DEF EscIsNoNews, News, Answer
<1>3. OneAtATime' BY DEF OneAtATime, Answered, Answer
<1>4. LastNews' BY DEF LastNews, News, Answer, Rebound
<1>5. ChosenIsSpent' BY DEF ChosenIsSpent
<1>6. ChoiceIsNoEdge' BY DEF ChoiceIsNoEdge, Rebound, Pressed
<1> QED BY <1>1, <1>2, <1>3, <1>4, <1>5, <1>6

\* The engine asks only when it waits for nothing.
LEMMA StartRebindStep == ASSUME IInv, StartRebind PROVE IInv'
<1> USE DEF IInv, StartRebind, MayRebind, watcher, keyboard
<1>1. TypeOK' BY DEF TypeOK
<1>2. EscIsNoNews' BY DEF EscIsNoNews, News, Answer
<1>3. OneAtATime' BY DEF OneAtATime, Answered, Answer
<1>4. LastNews' BY DEF LastNews, News, Answer, Rebound
<1>5. ChosenIsSpent' BY DEF ChosenIsSpent
<1>6. ChoiceIsNoEdge' BY DEF ChoiceIsNoEdge, Rebound, Pressed
<1> QED BY <1>1, <1>2, <1>3, <1>4, <1>5, <1>6

\* The request becomes the capture.
LEMMA TakeRequestStep == ASSUME IInv, TakeRequest PROVE IInv'
<1> USE DEF IInv, engineVars
<1>0. /\ pending /\ mode = "watching" /\ mode' = "capturing" /\ held' = FALSE
      /\ unread' = <<>> /\ pending' = FALSE
      /\ UNCHANGED <<down, trigger, keys, engineVars, choosing>>
  BY DEF TakeRequest, CaptureForgets, OneAtATime
<1>1. TypeOK' BY <1>0, Emptied DEF TypeOK
<1>2. EscIsNoNews' BY <1>0 DEF EscIsNoNews, News, Answer
<1>3. OneAtATime' BY <1>0 DEF OneAtATime, Answered, Answer
<1>4. LastNews' BY <1>0 DEF LastNews, News, Answer, Rebound
<1>5. ChosenIsSpent'
  <2>1. DOMAIN unread' = {} BY <1>0, Emptied
  <2> QED BY <1>0, <2>1 DEF ChosenIsSpent
<1>6. ChoiceIsNoEdge' BY <1>0 DEF ChoiceIsNoEdge, Rebound, Pressed
<1> QED BY <1>1, <1>2, <1>3, <1>4, <1>5, <1>6

\* A watcher that dies is waited for no more.
LEMMA DieStep == ASSUME IInv, Die PROVE IInv'
<1> USE DEF IInv, engineVars
<1>0. /\ mode' = "dead" /\ unread' = <<>>
      /\ UNCHANGED <<down, held, trigger, pending, keys, engineVars, choosing>>
  BY DEF Die
<1>1. TypeOK' BY <1>0, Emptied DEF TypeOK
<1>2. EscIsNoNews' BY <1>0 DEF EscIsNoNews, News, Answer
<1>3. OneAtATime' BY <1>0 DEF OneAtATime, Answered, Answer
<1>4. LastNews' BY <1>0 DEF LastNews, News, Answer, Rebound
<1>5. ChosenIsSpent'
  <2>1. DOMAIN unread' = {} BY <1>0, Emptied
  <2> QED BY <1>0, <2>1 DEF ChosenIsSpent
<1>6. ChoiceIsNoEdge' BY <1>0 DEF ChoiceIsNoEdge, Rebound, Pressed
<1> QED BY <1>1, <1>2, <1>3, <1>4, <1>5, <1>6

\* What the watcher sends arrives behind everything else.
LEMMA SentEvent ==
  ASSUME TypeOK, NEW e \in Events, SendKey(e)
  PROVE  /\ keys' = Append(keys, e) /\ keys' \in Seq(Events) /\ Len(keys') <= ChannelCap
         /\ Len(keys) \in Nat /\ DOMAIN keys = 1..Len(keys)
         /\ DOMAIN keys' = 1..Len(keys) + 1
         /\ \A i \in 1..Len(keys) : keys'[i] = keys[i]
         /\ keys'[Len(keys) + 1] = e
<1>1. keys \in Seq(Events) /\ keys' = Append(keys, e) /\ Len(keys) < ChannelCap
  BY Typed DEF SendKey
<1>2. ChannelCap \in Nat /\ Len(keys') = Len(keys) + 1 /\ Len(keys) \in Nat
  BY <1>1, Sent, KeysAssumption
<1> QED BY <1>1, <1>2, Sent

\* An edge changes neither news nor answers.
LEMMA EdgeSent ==
  ASSUME IInv, NEW e \in {Pressed, Released}, SendKey(e),
         UNCHANGED <<mode, trigger, pending, bound, rebinding>>
  PROVE  /\ keys' \in Seq(Events) /\ Len(keys') <= ChannelCap
         /\ EscIsNoNews' /\ OneAtATime' /\ LastNews'
<1> USE DEF IInv
<1>1. e \in Events /\ e.kind # "Rebound" BY Edges
<1>2. /\ keys' \in Seq(Events) /\ Len(keys') <= ChannelCap
      /\ Len(keys) \in Nat /\ DOMAIN keys = 1..Len(keys)
      /\ DOMAIN keys' = 1..Len(keys) + 1
      /\ \A i \in 1..Len(keys) : keys'[i] = keys[i]
      /\ keys'[Len(keys) + 1] = e
  BY <1>1, SentEvent
<1>3. \A i \in DOMAIN keys :
        i \in DOMAIN keys' /\ (Answer(i)' <=> Answer(i)) /\ (News(i)' <=> News(i))
  BY <1>2 DEF Answer, News
<1>4. \A i \in DOMAIN keys' : i \notin DOMAIN keys => i = Len(keys) + 1
  BY <1>2
<1>5. \A i \in DOMAIN keys' : i \notin DOMAIN keys => ~Answer(i)' /\ ~News(i)'
  BY <1>1, <1>2, <1>4 DEF Answer, News
<1>6. EscIsNoNews' BY <1>2, <1>3, <1>5 DEF EscIsNoNews
<1>7. OneAtATime'
  <2>1. Answered' <=> Answered BY <1>3, <1>5 DEF Answered
  <2> QED BY <1>3, <1>5, <2>1 DEF OneAtATime
<1>8. LastNews'
  <2>1. CASE trigger = bound /\ \A i \in DOMAIN keys : ~News(i)
    BY <1>3, <1>5, <2>1 DEF LastNews
  <2>2. ASSUME NEW i \in DOMAIN keys, News(i), keys[i] = Rebound(trigger),
               \A j \in DOMAIN keys : News(j) => j <= i
        PROVE  LastNews'
    <3>1. i \in DOMAIN keys' /\ News(i)' /\ keys'[i] = Rebound(trigger)'
      BY <1>2, <1>3, <2>2 DEF Rebound
    <3>2. \A j \in DOMAIN keys' : News(j)' => j <= i BY <1>3, <1>5, <2>2
    <3> QED BY <3>1, <3>2 DEF LastNews
  <2> QED BY <2>1, <2>2 DEF LastNews
<1> QED BY <1>2, <1>6, <1>7, <1>8

\* Nor does one that is chosen count as pressed: its press is not there to read.
LEMMA ReadEdgeStep == ASSUME IInv, ReadEdge PROVE IInv'
<1> USE DEF IInv
<1> DEFINE k == Head(unread)
           e == IF k.press THEN Pressed ELSE Released
<1>1. /\ mode = "watching" /\ unread # <<>> /\ unread' = Tail(unread)
      /\ UNCHANGED <<down, mode, trigger, pending, engineVars, choosing>>
  BY DEF ReadEdge
<1>2. /\ unread' \in Seq(KeyEvents) /\ k \in KeyEvents /\ k = unread[1]
      /\ Len(unread) \in Nat \ {0} /\ DOMAIN unread = 1..Len(unread)
      /\ DOMAIN unread' = 1..Len(unread) - 1
      /\ \A i \in 1..Len(unread) - 1 : unread'[i] = unread[i + 1]
  BY <1>1, Received, Typed
<1> HIDE DEF k
<1>3. \/ k.code = trigger /\ k.press # held /\ held' = k.press /\ SendKey(e)
      \/ UNCHANGED <<held, keys>>
  BY DEF ReadEdge, k
<1>4. ChosenIsSpent'
  <2>1. \A c \in choosing : \A i \in DOMAIN unread' : ~(unread'[i].press /\ unread'[i].code = c)
    BY <1>2 DEF ChosenIsSpent
  <2> QED BY <1>1, <2>1 DEF ChosenIsSpent
<1>5. CASE UNCHANGED <<held, keys>>
  <2>1. TypeOK' BY <1>1, <1>2, <1>5 DEF TypeOK, KeyEvents, engineVars
  <2>2. EscIsNoNews' BY <1>5 DEF EscIsNoNews, News, Answer
  <2>3. OneAtATime' BY <1>1, <1>5 DEF OneAtATime, Answered, Answer, engineVars
  <2>4. LastNews' BY <1>1, <1>5 DEF LastNews, News, Answer, Rebound, engineVars
  <2>5. ChoiceIsNoEdge' BY <1>1, <1>5 DEF ChoiceIsNoEdge, Rebound, Pressed
  <2> QED BY <1>4, <2>1, <2>2, <2>3, <2>4, <2>5
<1>6. CASE k.code = trigger /\ k.press # held /\ held' = k.press /\ SendKey(e)
  <2>1. e \in {Pressed, Released} /\ e \in Events BY Edges
  <2>2. /\ keys' \in Seq(Events) /\ Len(keys') <= ChannelCap
        /\ EscIsNoNews' /\ OneAtATime' /\ LastNews'
    BY <1>1, <1>6, <2>1, EdgeSent DEF engineVars
  <2>3. TypeOK' BY <1>1, <1>2, <1>6, <2>2 DEF TypeOK, KeyEvents, Events, engineVars
  <2>4. ChoiceIsNoEdge'
    <3> SUFFICES ASSUME trigger \in choosing PROVE ChoiceIsNoEdge'
      BY <1>1 DEF ChoiceIsNoEdge
    <3>1. ~k.press BY <1>2, <1>6 DEF ChosenIsSpent
    <3>2. e = Released /\ e # Pressed /\ ~held' BY <1>6, <3>1, Edges
    <3>3. /\ Len(keys) \in Nat /\ DOMAIN keys = 1..Len(keys)
          /\ DOMAIN keys' = 1..Len(keys) + 1
          /\ \A i \in 1..Len(keys) : keys'[i] = keys[i]
          /\ keys'[Len(keys) + 1] = e
      BY <1>6, <2>1, SentEvent
    <3>4. ASSUME NEW i \in DOMAIN keys', NEW j \in DOMAIN keys', keys'[i] = Rebound(trigger), j > i
          PROVE  keys'[j] # Pressed
      <4>1. CASE j = Len(keys) + 1 BY <3>2, <3>3, <4>1
      <4>2. CASE j # Len(keys) + 1
        <5>1. i \in DOMAIN keys /\ j \in DOMAIN keys BY <3>3, <3>4, <4>2
        <5> QED BY <3>3, <3>4, <5>1 DEF ChoiceIsNoEdge
      <4> QED BY <4>1, <4>2
    <3> QED BY <1>1, <3>2, <3>4 DEF ChoiceIsNoEdge, Rebound, Pressed
  <2> QED BY <1>4, <2>2, <2>3, <2>4
<1> QED BY <1>3, <1>5, <1>6

\* The capture becomes the answer, be it a key or none.
LEMMA AnswerSent ==
  ASSUME IInv, mode = "capturing", mode' = "watching",
         NEW c \in (Keys \ {Esc}) \cup {"none"}, SendKey(Rebound(c)),
         trigger' = (IF c = "none" THEN trigger ELSE c),
         UNCHANGED <<pending, bound, rebinding, held>>
  PROVE  /\ keys' \in Seq(Events) /\ Len(keys') <= ChannelCap
         /\ EscIsNoNews' /\ OneAtATime' /\ LastNews' /\ ChoiceIsNoEdge'
<1> USE DEF IInv
<1>last. PICK last : last = Len(keys) + 1 OBVIOUS
<1>1. /\ Rebound(c) \in Events /\ Rebound(c) # Pressed
      /\ Rebound(c).kind = "Rebound" /\ Rebound(c).code = c
  BY Answers
<1>2. /\ keys' \in Seq(Events) /\ Len(keys') <= ChannelCap
      /\ Len(keys) \in Nat /\ DOMAIN keys = 1..Len(keys)
      /\ DOMAIN keys' = 1..Len(keys) + 1
      /\ \A i \in 1..Len(keys) : keys'[i] = keys[i]
      /\ keys'[last] = Rebound(c)
  BY <1>last, <1>1, SentEvent
<1>3. /\ rebinding /\ ~pending /\ ~held
      /\ \A i \in DOMAIN keys : ~Answer(i)
  BY DEF OneAtATime, Answered, ChosenIsSpent
<1>4. \A i \in DOMAIN keys' : i \in DOMAIN keys \/ i = last BY <1>last, <1>2
<1>5. last \in DOMAIN keys' BY <1>last, <1>2
<1>6. \A i \in DOMAIN keys' : (Answer(i)' <=> i = last)
  BY <1>1, <1>2, <1>3, <1>4, <1>5 DEF Answer
<1>7. \A i \in DOMAIN keys' : (News(i)' <=> i = last /\ c # "none")
  BY <1>1, <1>2, <1>6 DEF News
<1>8. EscIsNoNews' BY <1>1, <1>2, <1>7 DEF EscIsNoNews
<1>9. OneAtATime'
  <2>1. Answered' BY <1>5, <1>6 DEF Answered
  <2> QED BY <1>3, <1>6, <2>1 DEF OneAtATime
<1>10. LastNews'
  <2>1. CASE c = "none"
    <3>1. trigger = bound BY <1>3 DEF LastNews, News
    <3> QED BY <1>7, <2>1, <3>1 DEF LastNews
  <2>2. CASE c # "none"
    <3>1. last \in DOMAIN keys' /\ News(last)' /\ keys'[last] = Rebound(trigger)'
      BY <1>2, <1>5, <1>7, <2>2 DEF Rebound
    <3>2. \A j \in DOMAIN keys' : News(j)' => j <= last BY <1>last, <1>2, <1>7
    <3> QED BY <3>1, <3>2 DEF LastNews
  <2> QED BY <2>1, <2>2
<1>11. ChoiceIsNoEdge'
  <2>1. ASSUME NEW i \in DOMAIN keys', NEW j \in DOMAIN keys', keys'[i] = Rebound(trigger'), j > i
        PROVE  keys'[j] # Pressed
    <3>1. keys'[i].kind = "Rebound" BY <2>1 DEF Rebound
    <3>2. i = last BY <1>6, <3>1 DEF Answer
    <3> QED BY <1>last, <1>2, <2>1, <3>2
  <2> QED BY <1>3, <2>1 DEF ChoiceIsNoEdge, Rebound, Pressed
<1> QED BY <1>2, <1>8, <1>9, <1>10, <1>11

\* The window closes: nobody chose.
LEMMA CaptureTimesOutStep == ASSUME IInv, CaptureTimesOut PROVE IInv'
<1> USE DEF IInv
<1>1. /\ mode = "capturing" /\ mode' = "watching" /\ SendKey(Rebound("none")) /\ unread' = <<>>
      /\ UNCHANGED <<down, held, trigger, pending, engineVars, choosing>>
  BY DEF CaptureTimesOut
<1>2. /\ keys' \in Seq(Events) /\ Len(keys') <= ChannelCap
      /\ EscIsNoNews' /\ OneAtATime' /\ LastNews' /\ ChoiceIsNoEdge'
  BY <1>1, AnswerSent DEF engineVars
<1>3. unread' \in Seq(KeyEvents) /\ DOMAIN unread' = {} BY <1>1, Emptied
<1>4. TypeOK' BY <1>1, <1>2, <1>3 DEF TypeOK, KeyEvents, Events, engineVars
<1>5. ChosenIsSpent' BY <1>1, <1>3 DEF ChosenIsSpent
<1> QED BY <1>2, <1>4, <1>5

\* A press chooses; the press of a key that was chosen before cannot.
LEMMA CaptureKeyStep == ASSUME IInv, CaptureKey PROVE IInv'
<1> USE DEF IInv
<1> DEFINE k == Head(unread)
           c == IF k.code = Esc THEN "none" ELSE k.code
<1>1. /\ mode = "capturing" /\ unread # <<>>
      /\ UNCHANGED <<down, held, pending, engineVars>>
      /\ \/ /\ k.press /\ mode' = "watching" /\ AfterChoice(c) /\ SendKey(Rebound(c))
            /\ choosing' = choosing \cup ({k.code} \cap down)
         \/ ~k.press /\ unread' = Tail(unread) /\ UNCHANGED <<mode, trigger, keys, choosing>>
  BY DEF CaptureKey
<1>2. /\ Tail(unread) \in Seq(KeyEvents) /\ k \in KeyEvents
      /\ Len(unread) \in Nat \ {0} /\ DOMAIN unread = 1..Len(unread)
      /\ DOMAIN Tail(unread) = 1..Len(unread) - 1
      /\ \A i \in 1..Len(unread) - 1 : Tail(unread)[i] = unread[i + 1]
  BY <1>1, Received, Typed
<1>3. k.code \in Keys /\ c \in (Keys \ {Esc}) \cup {"none"} BY <1>2 DEF KeyEvents
<1> HIDE DEF k
<1>4. CASE ~k.press /\ unread' = Tail(unread) /\ UNCHANGED <<mode, trigger, keys, choosing>>
  <2>1. TypeOK' BY <1>1, <1>2, <1>4 DEF TypeOK, KeyEvents, engineVars
  <2>2. EscIsNoNews' BY <1>4 DEF EscIsNoNews, News, Answer
  <2>3. OneAtATime' BY <1>1, <1>4 DEF OneAtATime, Answered, Answer, engineVars
  <2>4. LastNews' BY <1>1, <1>4 DEF LastNews, News, Answer, Rebound, engineVars
  <2>5. ChosenIsSpent'
    <3>1. \A d \in choosing : \A i \in DOMAIN unread' : ~(unread'[i].press /\ unread'[i].code = d)
      BY <1>2, <1>4 DEF ChosenIsSpent
    <3> QED BY <1>1, <1>4, <3>1 DEF ChosenIsSpent
  <2>6. ChoiceIsNoEdge' BY <1>1, <1>4 DEF ChoiceIsNoEdge, Rebound, Pressed
  <2> QED BY <2>1, <2>2, <2>3, <2>4, <2>5, <2>6
<1>5. CASE /\ k.press /\ mode' = "watching" /\ AfterChoice(c) /\ SendKey(Rebound(c))
           /\ choosing' = choosing \cup ({k.code} \cap down)
  <2> HIDE DEF c
  <2>1. trigger' = (IF c = "none" THEN trigger ELSE c) /\ unread' = <<>>
    BY <1>5 DEF AfterChoice
  <2>2. trigger \in Keys \ {Esc} /\ trigger' \in Keys \ {Esc} BY <1>3, <2>1 DEF TypeOK
  <2>3. trigger' = trigger \/ trigger' = c BY <2>1
  <2>4. UNCHANGED <<pending, bound, rebinding, held>> BY <1>1 DEF engineVars
  <2>5. /\ keys' \in Seq(Events) /\ Len(keys') <= ChannelCap
        /\ EscIsNoNews' /\ OneAtATime' /\ LastNews' /\ ChoiceIsNoEdge'
    BY <1>1, <1>3, <1>5, <2>1, <2>4, AnswerSent
  <2>6. unread' \in Seq(KeyEvents) /\ DOMAIN unread' = {} BY <2>1, Emptied
  <2>7. choosing' \in SUBSET down' BY <1>1, <1>5 DEF TypeOK
  <2>8. TypeOK' BY <1>1, <1>5, <2>2, <2>5, <2>6, <2>7 DEF TypeOK, KeyEvents, Events, engineVars
  <2>9. ChosenIsSpent' BY <1>5, <2>6 DEF ChosenIsSpent
  <2> QED BY <2>5, <2>8, <2>9
<1> QED BY <1>1, <1>4, <1>5

\* The engine takes the event at the head; the others move up.
LEMMA Taken ==
  ASSUME IInv, keys # <<>>, keys' = Tail(keys)
  PROVE  /\ keys' \in Seq(Events) /\ Len(keys') <= ChannelCap
         /\ 1 \in DOMAIN keys /\ Head(keys) \in Events /\ Head(keys) = keys[1]
         /\ \A i \in DOMAIN keys' : /\ i \in Nat /\ i + 1 \in DOMAIN keys /\ i + 1 # 1
                                   /\ keys'[i] = keys[i + 1]
         /\ \A i \in DOMAIN keys : i # 1 => i \in Nat /\ i - 1 \in DOMAIN keys' /\ (i - 1) + 1 = i
<1>1. keys \in Seq(Events) /\ Len(keys) <= ChannelCap /\ ChannelCap \in Nat
  BY Typed, KeysAssumption DEF IInv
<1> QED BY <1>1, Received

\* What was in order stays in order.
LEMMA ChoiceKept ==
  ASSUME IInv, keys # <<>>, keys' = Tail(keys), UNCHANGED <<trigger, held, choosing>>
  PROVE  ChoiceIsNoEdge'
<1> SUFFICES ASSUME trigger \in choosing PROVE ChoiceIsNoEdge'
  BY DEF ChoiceIsNoEdge
<1>1. ChoiceIsNoEdge BY DEF IInv
<1>2. ASSUME NEW i \in DOMAIN keys', NEW j \in DOMAIN keys', keys'[i] = Rebound(trigger), j > i
      PROVE  keys'[j] # Pressed
  <2>1. /\ i \in Nat /\ j \in Nat /\ i + 1 \in DOMAIN keys /\ j + 1 \in DOMAIN keys
        /\ keys'[i] = keys[i + 1] /\ keys'[j] = keys[j + 1]
    BY Taken
  <2>2. j + 1 > i + 1 BY <1>2, <2>1
  <2> QED BY <1>1, <1>2, <2>1, <2>2 DEF ChoiceIsNoEdge
<1> QED BY <1>1, <1>2 DEF ChoiceIsNoEdge, Rebound, Pressed

\* An edge at the head is no answer.
LEMMA TakeEdgeStep == ASSUME IInv, TakeEdge PROVE IInv'
<1> USE DEF IInv
<1>1. /\ keys # <<>> /\ keys' = Tail(keys) /\ Head(keys) \in {Pressed, Released}
      /\ UNCHANGED <<keyboard, watcher, pending, enabled, rebinding, bound, choosing>>
  BY DEF TakeEdge
<1>2. state' \in {"Idle", "Held", "Open", "Transcribing"}
  BY DEF TakeEdge, OnPressed, OnReleased, TypeOK
<1>3. /\ keys' \in Seq(Events) /\ Len(keys') <= ChannelCap
      /\ 1 \in DOMAIN keys /\ Head(keys) = keys[1]
      /\ \A i \in DOMAIN keys' : /\ i \in Nat /\ i + 1 \in DOMAIN keys
                                /\ keys'[i] = keys[i + 1]
      /\ \A i \in DOMAIN keys : i # 1 => i \in Nat /\ i - 1 \in DOMAIN keys' /\ (i - 1) + 1 = i
  BY <1>1, Taken
<1>4. ~Answer(1) /\ ~News(1) BY <1>1, <1>3, Edges DEF Answer, News
<1>5. \A i \in DOMAIN keys' : (Answer(i)' <=> Answer(i + 1)) /\ (News(i)' <=> News(i + 1))
  BY <1>3 DEF Answer, News
<1>6. TypeOK' BY <1>1, <1>2, <1>3 DEF TypeOK, KeyEvents, Events, keyboard, watcher
<1>7. EscIsNoNews' BY <1>3, <1>5 DEF EscIsNoNews
<1>8. OneAtATime'
  <2>1. ASSUME NEW i \in DOMAIN keys', NEW j \in DOMAIN keys', Answer(i)', Answer(j)'
        PROVE  i = j
    <3>1. i + 1 = j + 1 BY <1>3, <1>5, <2>1 DEF OneAtATime
    <3> QED BY <1>3, <3>1
  <2>2. ASSUME Answered PROVE Answered'
    <3>1. PICK i \in DOMAIN keys : Answer(i) BY <2>2 DEF Answered
    <3>2. i - 1 \in DOMAIN keys' /\ (i - 1) + 1 = i BY <1>3, <1>4, <3>1
    <3>3. PICK p : p = i - 1 OBVIOUS
    <3>4. p \in DOMAIN keys' /\ Answer(p)' BY <1>5, <3>1, <3>2, <3>3
    <3> QED BY <3>4 DEF Answered
  <2>3. Answered' => Answered BY <1>3, <1>5 DEF Answered
  <2> QED BY <1>1, <2>1, <2>2, <2>3 DEF OneAtATime, watcher
<1>9. LastNews'
  <2>1. CASE trigger = bound /\ \A i \in DOMAIN keys : ~News(i)
    BY <1>1, <1>3, <1>5, <2>1 DEF LastNews, watcher
  <2>2. ASSUME NEW i \in DOMAIN keys, News(i), keys[i] = Rebound(trigger),
               \A j \in DOMAIN keys : News(j) => j <= i
        PROVE  LastNews'
    <3>1. i - 1 \in DOMAIN keys' /\ (i - 1) + 1 = i /\ i \in Nat BY <1>3, <1>4, <2>2
    <3>2. PICK p : p = i - 1 OBVIOUS
    <3>3. p \in DOMAIN keys' /\ News(p)' /\ keys'[p] = Rebound(trigger)'
      BY <1>1, <1>3, <1>5, <2>2, <3>1, <3>2 DEF Rebound, watcher
    <3>4. \A j \in DOMAIN keys' : News(j)' => j <= p BY <1>3, <1>5, <2>2, <3>1, <3>2
    <3> QED BY <3>3, <3>4 DEF LastNews
  <2> QED BY <2>1, <2>2 DEF LastNews
<1>10. ChosenIsSpent' BY <1>1 DEF ChosenIsSpent, keyboard, watcher
<1>11. ChoiceIsNoEdge' BY <1>1, ChoiceKept DEF watcher
<1> QED BY <1>6, <1>7, <1>8, <1>9, <1>10, <1>11

\* The answer ends the rebind it is for, and is all the news there was.
LEMMA TakeReboundStep == ASSUME IInv, TakeRebound PROVE IInv'
<1> USE DEF IInv
<1>1. /\ keys # <<>> /\ keys' = Tail(keys) /\ Head(keys).kind = "Rebound" /\ rebinding' = FALSE
      /\ bound' = (IF Head(keys).code = "none" THEN bound ELSE Head(keys).code)
      /\ UNCHANGED <<keyboard, watcher, pending, state, enabled, choosing>>
  BY DEF TakeRebound
<1>2. /\ keys' \in Seq(Events) /\ Len(keys') <= ChannelCap
      /\ 1 \in DOMAIN keys /\ Head(keys) = keys[1]
      /\ \A i \in DOMAIN keys' : /\ i \in Nat /\ i + 1 \in DOMAIN keys /\ i + 1 # 1
                                /\ keys'[i] = keys[i + 1]
  BY <1>1, Taken
<1>3. Answer(1) BY <1>1, <1>2 DEF Answer
<1>4. \A i \in DOMAIN keys : Answer(i) => i = 1 BY <1>2, <1>3 DEF OneAtATime
<1>5. \A i \in DOMAIN keys' : ~Answer(i)' /\ ~News(i)'
  BY <1>2, <1>4 DEF Answer, News
<1>6. bound' \in Keys \ {Esc}
  BY <1>1, <1>2, <1>3 DEF EscIsNoNews, News, TypeOK
<1>7. TypeOK' BY <1>1, <1>2, <1>6 DEF TypeOK, KeyEvents, Events, keyboard, watcher
<1>8. EscIsNoNews' BY <1>5 DEF EscIsNoNews
<1>9. OneAtATime'
  <2>1. Answered /\ ~Answered' BY <1>2, <1>3, <1>5 DEF Answered
  <2> QED BY <1>1, <1>5, <2>1 DEF OneAtATime, watcher
<1>10. LastNews'
  <2>1. trigger = bound'
    <3>1. CASE trigger = bound /\ \A i \in DOMAIN keys : ~News(i)
      BY <1>1, <1>2, <1>3, <3>1 DEF News
    <3>2. ASSUME NEW i \in DOMAIN keys, News(i), keys[i] = Rebound(trigger)
          PROVE  trigger = bound'
      <4>1. i = 1 BY <1>4, <3>2 DEF News
      <4> QED BY <1>1, <1>2, <3>2, <4>1 DEF News, Rebound
    <3> QED BY <3>1, <3>2 DEF LastNews
  <2> QED BY <1>1, <1>5, <2>1 DEF LastNews, watcher
<1>11. ChosenIsSpent' BY <1>1 DEF ChosenIsSpent, keyboard, watcher
<1>12. ChoiceIsNoEdge' BY <1>1, ChoiceKept DEF watcher
<1> QED BY <1>7, <1>8, <1>9, <1>10, <1>11, <1>12

-----------------------------------------------------------------------------
(* The theorems *)

\* Nothing has happened.
LEMMA Initially == Init => IInv
<1> SUFFICES ASSUME Init PROVE IInv OBVIOUS
<1>1. DOMAIN keys = {} /\ DOMAIN unread = {} /\ keys \in Seq(Events)
      /\ unread \in Seq(KeyEvents) /\ Len(keys) = 0
  BY Emptied DEF Init
<1>2. TypeOK
  <2>1. down \in SUBSET Keys /\ choosing \in SUBSET down BY DEF Init
  <2>2. trigger \in Keys \ {Esc} /\ bound \in Keys \ {Esc} BY KeysAssumption DEF Init
  <2>3. Len(keys) <= ChannelCap BY <1>1, KeysAssumption
  <2>4. /\ mode \in {"watching", "capturing", "dead"}
        /\ state \in {"Idle", "Held", "Open", "Transcribing"}
        /\ held \in BOOLEAN /\ pending \in BOOLEAN
        /\ enabled \in BOOLEAN /\ rebinding \in BOOLEAN
    BY DEF Init
  <2> QED BY <1>1, <2>1, <2>2, <2>3, <2>4, Typed
<1>3. EscIsNoNews /\ OneAtATime BY <1>1 DEF Init, EscIsNoNews, OneAtATime, Answered
<1>4. LastNews /\ ChosenIsSpent /\ ChoiceIsNoEdge
  BY <1>1 DEF Init, LastNews, ChosenIsSpent, ChoiceIsNoEdge
<1> QED BY <1>2, <1>3, <1>4 DEF IInv

\* Every step preserves the invariant.
LEMMA Step == ASSUME IInv, [Next]_vars PROVE IInv'
<1>1. ASSUME NEW k \in Keys, PressKey(k) \/ ReleaseKey(k) PROVE IInv'
  BY <1>1, PressKeyStep, ReleaseKeyStep
<1>2. CASE StartRebind BY <1>2, StartRebindStep
<1>3. CASE Command BY <1>3, KeptByEngine DEF Command, IInv, TypeOK
<1>4. CASE Arm BY <1>4, KeptByEngine DEF Arm, IInv, TypeOK
<1>5. CASE Proceed BY <1>5, KeptByEngine DEF Proceed, IInv, TypeOK
<1>6. CASE TakeRequest BY <1>6, TakeRequestStep
<1>7. CASE CaptureTimesOut BY <1>7, CaptureTimesOutStep
<1>8. CASE CaptureKey BY <1>8, CaptureKeyStep
<1>9. CASE ReadEdge BY <1>9, ReadEdgeStep
<1>10. CASE Rebuild BY <1>10, RebuildStep
<1>11. CASE Die BY <1>11, DieStep
<1>12. CASE TakeEdge BY <1>12, TakeEdgeStep
<1>13. CASE TakeRebound BY <1>13, TakeReboundStep
<1>14. CASE UNCHANGED vars
  BY <1>14, KeptByEngine DEF vars, engineVars, IInv, TypeOK
<1> QED
  BY <1>1, <1>2, <1>3, <1>4, <1>5, <1>6, <1>7, <1>8, <1>9, <1>10, <1>11, <1>12,
     <1>13, <1>14 DEF Next, User, Watcher, Engine

\* The count of answers, from their uniqueness.
LEMMA CountsOne == IInv => OneAnswerPerRebind
<1> SUFFICES ASSUME IInv, mode # "dead" PROVE OneAnswerPerRebind
  BY DEF OneAnswerPerRebind
<1> DEFINE S == {i \in DOMAIN keys : keys[i].kind = "Rebound"}
<1>1. Cardinality(S) = One(Answered)
  <2>1. CASE Answered
    <3>1. PICK i \in DOMAIN keys : Answer(i) BY <2>1 DEF Answered
    <3>2. S = {i} BY <3>1 DEF IInv, OneAtATime, Answer
    <3>3. Cardinality(S) = 1 BY <3>2, FS_Singleton
    <3> QED BY <2>1, <3>3 DEF One
  <2>2. CASE ~Answered
    <3>1. S = {} BY <2>2 DEF Answered, Answer
    <3>2. Cardinality(S) = 0 BY <3>1, FS_EmptySet
    <3> QED BY <2>2, <3>2 DEF One
  <2> QED BY <2>1, <2>2
<1>2. Rebounds = One(Answered) BY <1>1 DEF Rebounds
<1>3. /\ rebinding <=> pending \/ mode = "capturing" \/ Answered
      /\ ~(pending /\ mode = "capturing")
      /\ Answered => ~pending /\ mode # "capturing"
  BY DEF IInv, OneAtATime
<1>4. One(pending) + One(mode = "capturing") + One(Answered) = One(rebinding)
  BY <1>3 DEF One
<1> QED BY <1>2, <1>4 DEF OneAnswerPerRebind

\* The inductive invariant.
THEOREM Invariance == Spec => []IInv
<1>1. Init => IInv BY Initially
<1>2. IInv /\ [Next]_vars => IInv' BY Step
<1> QED BY <1>1, <1>2, PTL DEF Spec

\* Type correctness of watcher, channel and engine, and the channel's bound
\* (hotkey.rs run_blocking, engine.rs on_key).
THEOREM TypeCorrect == Spec => []TypeOK
<1>1. IInv => TypeOK BY DEF IInv
<1> QED BY <1>1, Invariance, PTL

\* A rebind the engine waits for is in one place, and no answer comes without
\* one, as long as the watcher lives (engine.rs start_rebind, on_rebound).
THEOREM OneAnswer == Spec => []OneAnswerPerRebind
<1> QED BY CountsOne, Invariance, PTL

\* Watcher and engine agree on the trigger but for news in the channel, also
\* once the watcher is dead (hotkey.rs run_blocking, engine.rs on_rebound).
THEOREM Agreement == Spec => []TriggersAgree
<1>1. IInv => TriggersAgree BY DEF IInv, LastNews, TriggersAgree
<1> QED BY <1>1, Invariance, PTL

\* The press that chose the trigger is never reported as an edge of it, whatever
\* is rebuilt, reconnected or rebound meanwhile (hotkey.rs capture).
THEOREM NoEdgeFromAChoice == Spec => []ChoiceIsNoEdge
<1>1. IInv => ChoiceIsNoEdge BY DEF IInv
<1> QED BY <1>1, Invariance, PTL
===============================================================================
