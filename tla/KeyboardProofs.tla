--------------------------- MODULE KeyboardProofs ---------------------------
(***************************************************************************)
(* What holds of Keyboard for every set of keys and every bound: its       *)
(* types, that the grab, the popup and IBus's focus follow the field, that *)
(* no key of a credential field reaches IBus, that only held keys repeat,  *)
(* and that the window is left with none.                                  *)
(***************************************************************************)
EXTENDS Keyboard, SequenceTheorems, FiniteSetTheorems, TLAPS

IInv == TypeOK /\ GrabFollowsField /\ KeysKnowTheirField /\ SecretsStayHome

-----------------------------------------------------------------------------
(* The wire *)

\* What a change of the wire does to its entries.
LEMMA WireAppend ==
  ASSUME NEW w \in Seq(Events), NEW e \in Events
  PROVE  /\ Append(w, e) \in Seq(Events)
         /\ Len(w) \in Nat /\ Len(Append(w, e)) = Len(w) + 1
         /\ \A i \in 1..Len(w) : Append(w, e)[i] = w[i]
         /\ Append(w, e)[Len(w) + 1] = e
BY AppendProperties, LenProperties

LEMMA WireTail ==
  ASSUME NEW w \in Seq(Events), w # <<>>
  PROVE  /\ Tail(w) \in Seq(Events) /\ Head(w) \in Events
         /\ Len(w) \in Nat \ {0} /\ Len(Tail(w)) = Len(w) - 1
         /\ \A i \in 1..(Len(w) - 1) : Tail(w)[i] = w[i + 1]
         /\ Head(w) = w[1]
<1>1. Len(w) \in Nat /\ Len(w) # 0
  BY LenProperties, EmptySeq
<1>2. Tail(w) \in Seq(Events) /\ Head(w) \in Events /\ Len(Tail(w)) = Len(w) - 1
      /\ \A i \in 1..Len(Tail(w)) : Tail(w)[i] = w[i + 1]
  BY HeadTailProperties
<1>3. Head(w) = w[1]
  BY SMT
<1>4. QED
  BY <1>1, <1>2, <1>3

\* A grab that begins reads one event and is sent its keymap.
LEMMA WireTailAppend ==
  ASSUME NEW w \in Seq(Events), w # <<>>
  PROVE  /\ Append(Tail(w), KeymapEvent) \in Seq(Events)
         /\ Len(w) \in Nat \ {0}
         /\ Len(Append(Tail(w), KeymapEvent)) = Len(w)
         /\ \A i \in 1..(Len(w) - 1) : Append(Tail(w), KeymapEvent)[i] = w[i + 1]
         /\ Append(Tail(w), KeymapEvent)[Len(w)] = KeymapEvent
<1>1. KeymapEvent \in Events
  BY DEF KeymapEvent, Events
<1>2. QED
  BY <1>1, WireTail, WireAppend

\* Every entry is an announcement, a keymap or a key.
LEMMA EventTyped ==
  ASSUME NEW e \in Events
  PROVE  /\ e.ev = "done" => e.on \in BOOLEAN /\ e.secret \in BOOLEAN
         /\ e.ev = "key" => e.key \in Keys /\ e.pressed \in BOOLEAN /\ e.secret \in BOOLEAN
BY DEF Events

-----------------------------------------------------------------------------
(* KeysKnowTheirField survives what happens to the wire *)

\* A key, or nothing, is added at the end.
LEMMA KnownAfterEdge ==
  ASSUME TypeOK, KeysKnowTheirField,
         UNCHANGED <<field, here, secret>>,
         \/ UNCHANGED wire
         \/ \E e \in Events : /\ wire' = Append(wire, e)
                              /\ e.ev # "done"
                              /\ (e.ev = "key" /\ e.secret) => field = "secret"
  PROVE  KeysKnowTheirField'
<1>1. CASE UNCHANGED wire
  BY <1>1 DEF KeysKnowTheirField, SecretBefore, LastDone
<1>2. CASE \E e \in Events : /\ wire' = Append(wire, e)
                             /\ e.ev # "done"
                             /\ (e.ev = "key" /\ e.secret) => field = "secret"
  <2>1. PICK e \in Events : /\ wire' = Append(wire, e)
                            /\ e.ev # "done"
                            /\ (e.ev = "key" /\ e.secret) => field = "secret"
    BY <1>2
  <2> PICK L \in Nat : L = Len(wire)
    BY LenProperties DEF TypeOK
  <2>2. /\ Len(wire') = L + 1
        /\ \A i \in 1..L : wire'[i] = wire[i]
        /\ wire'[L + 1] = e
    BY <2>1, WireAppend DEF TypeOK
  <2>3. ASSUME NEW i \in 1..(L + 1), SecretBefore(i)
        PROVE  SecretBefore(i)'
    BY <2>2, <2>3 DEF SecretBefore, LastDone
  <2>4. ASSUME SecretBefore(L + 1)
        PROVE  SecretBefore(L + 2)'
    BY <2>1, <2>2, <2>4 DEF SecretBefore, LastDone
  <2>5. Len(wire') + 1 = L + 2
    BY <2>2
  <2>6. (field = "secret" => SecretBefore(Len(wire) + 1))'
    BY <2>4, <2>5 DEF KeysKnowTheirField
  <2>7. ASSUME NEW i \in 1..Len(wire'), wire'[i].ev = "key", wire'[i].secret
        PROVE  SecretBefore(i)'
    <3>1. i \in 1..(L + 1)
      BY <2>2
    <3>2. SecretBefore(i)
      <4>1. CASE i = L + 1
        BY <2>1, <2>2, <2>7, <4>1 DEF KeysKnowTheirField
      <4>2. CASE i # L + 1
        BY <2>2, <2>7, <3>1, <4>2 DEF KeysKnowTheirField
      <4>3. QED
        BY <4>1, <4>2
    <3>3. QED
      BY <2>3, <3>1, <3>2
  <2>8. QED
    BY <2>6, <2>7 DEF KeysKnowTheirField
<1>3. QED
  BY <1>1, <1>2

\* The field changes, and its announcement is added.
LEMMA KnownAfterChange ==
  ASSUME TypeOK, KeysKnowTheirField,
         NEW f \in {"none", "plain", "secret"},
         field' = f, wire' = Append(wire, Done(f)),
         UNCHANGED <<here, secret>>
  PROVE  KeysKnowTheirField'
<1>1. /\ Done(f) \in Events
      /\ Done(f).ev = "done"
      /\ f = "secret" => Done(f).on /\ Done(f).secret
  BY DEF Done, Events
<1> PICK L \in Nat : L = Len(wire)
  BY LenProperties DEF TypeOK
<1>2. /\ Len(wire') = L + 1
      /\ \A i \in 1..L : wire'[i] = wire[i]
      /\ wire'[L + 1] = Done(f)
  BY <1>1, WireAppend DEF TypeOK
<1>3. ASSUME NEW i \in 1..L, SecretBefore(i)
      PROVE  SecretBefore(i)'
  BY <1>2, <1>3 DEF SecretBefore, LastDone
<1>4. ASSUME f = "secret"
      PROVE  SecretBefore(L + 2)'
  <2>1. ASSUME NEW m \in 1..(L + 1), LastDone(m, L + 2)'
        PROVE  m = L + 1
    BY <1>1, <1>2, <2>1 DEF LastDone
  <2>2. QED
    BY <1>1, <1>2, <1>4, <2>1 DEF SecretBefore
<1>5. ASSUME NEW i \in 1..Len(wire'), wire'[i].ev = "key", wire'[i].secret
      PROVE  SecretBefore(i)'
  <2>1. i \in 1..L
    BY <1>1, <1>2, <1>5
  <2>2. QED
    BY <1>2, <1>3, <1>5, <2>1 DEF KeysKnowTheirField
<1>6. Len(wire') + 1 = L + 2
  BY <1>2
<1>7. QED
  BY <1>4, <1>5, <1>6 DEF KeysKnowTheirField

\* The first event is read: a key or a keymap teaches nothing about the
\* field, an announcement all that SecretBefore says of it.
LEMMA KnownAfterRead ==
  ASSUME TypeOK, KeysKnowTheirField, wire # <<>>, UNCHANGED field,
         \/ wire' = Tail(wire) \/ wire' = Append(Tail(wire), KeymapEvent),
         \/ Head(wire).ev # "done" /\ UNCHANGED <<here, secret>>
         \/ /\ Head(wire).ev = "done"
            /\ (Head(wire).on /\ Head(wire).secret) => here' /\ secret'
  PROVE  KeysKnowTheirField'
<1> PICK L \in Nat \ {0} : L = Len(wire)
  BY WireTail DEF TypeOK
<1>1. /\ Head(wire) = wire[1]
      /\ \A i \in 1..(L - 1) : wire'[i] = wire[i + 1]
      /\ \/ Len(wire') = L - 1
         \/ Len(wire') = L /\ wire'[L] = KeymapEvent
  BY WireTail, WireTailAppend DEF TypeOK
<1>2. ASSUME NEW i \in 2..(L + 1), SecretBefore(i)
      PROVE  SecretBefore(i - 1)'
  <2>1. \A m \in 1..(i - 2) : wire'[m] = wire[m + 1]
    BY <1>1
  <2>2. ASSUME \A m \in 1..(i - 2) : wire'[m].ev # "done"
        PROVE  here' /\ secret'
    <3>1. \A n \in 2..(i - 1) : wire[n].ev # "done"
      <4>1. ASSUME NEW n \in 2..(i - 1)
            PROVE  wire[n].ev # "done"
        <5>1. n - 1 \in 1..(i - 2) /\ (n - 1) + 1 = n
          BY <1>1
        <5>2. QED
          BY <2>1, <2>2, <5>1
      <4>2. QED
        BY <4>1
    <3>2. CASE wire[1].ev = "done"
      <4>1. LastDone(1, i)
        BY <3>1, <3>2 DEF LastDone
      <4>2. wire[1].on /\ wire[1].secret
        BY <1>1, <1>2, <4>1 DEF SecretBefore
      <4>3. QED
        BY <1>1, <3>2, <4>2
    <3>3. CASE wire[1].ev # "done"
      <4>1. \A n \in 1..(i - 1) : wire[n].ev # "done"
        BY <1>1, <3>1, <3>3
      <4>2. QED
        BY <1>1, <1>2, <3>3, <4>1 DEF SecretBefore
    <3>4. QED
      BY <3>2, <3>3
  <2>3. ASSUME NEW m \in 1..(i - 2), LastDone(m, i - 1)'
        PROVE  wire'[m].on /\ wire'[m].secret
    <3>1. m + 1 \in 1..(i - 1) /\ wire'[m] = wire[m + 1]
      BY <1>1, <2>1
    <3>2. ASSUME NEW n \in ((m + 1) + 1)..(i - 1)
          PROVE  wire[n].ev # "done"
      <4>1. n - 1 \in (m + 1)..((i - 1) - 1) /\ n - 1 \in 1..(i - 2) /\ (n - 1) + 1 = n
        BY <1>1
      <4>2. wire'[n - 1].ev # "done"
        BY <2>3, <4>1 DEF LastDone
      <4>3. QED
        BY <2>1, <4>1, <4>2
    <3>3. LastDone(m + 1, i)
      BY <2>3, <3>1, <3>2 DEF LastDone
    <3>4. QED
      BY <1>2, <3>1, <3>3 DEF SecretBefore
  <2>4. (i - 1) - 1 = i - 2
    BY <1>1
  <2>5. QED
    BY <2>2, <2>3, <2>4 DEF SecretBefore
<1>3. ASSUME NEW i \in 1..Len(wire'), wire'[i].ev = "key", wire'[i].secret
      PROVE  SecretBefore(i)'
  <2>1. i \in 1..(L - 1)
    BY <1>1, <1>3 DEF KeymapEvent
  <2>2. i + 1 \in 2..(L + 1) /\ i + 1 \in 1..L /\ (i + 1) - 1 = i /\ wire'[i] = wire[i + 1]
    BY <1>1, <2>1
  <2>3. SecretBefore(i + 1)
    BY <1>3, <2>2 DEF KeysKnowTheirField
  <2>4. QED
    BY <1>2, <2>2, <2>3
<1>4. ASSUME field' = "secret"
      PROVE  SecretBefore(Len(wire) + 1)'
  <2>1. SecretBefore(L + 1)
    BY <1>4 DEF KeysKnowTheirField
  <2>2. L + 1 \in 2..(L + 1) /\ (L + 1) - 1 = L
    BY <1>1
  <2>3. SecretBefore(L)'
    BY <1>2, <2>1, <2>2
  <2>4. CASE Len(wire') = L - 1
    BY <1>1, <2>3, <2>4
  <2>5. CASE Len(wire') = L /\ wire'[L] = KeymapEvent
    <3>1. wire'[L].ev # "done"
      BY <2>5 DEF KeymapEvent
    <3>2. QED
      BY <1>1, <2>3, <2>5, <3>1 DEF SecretBefore, LastDone
  <2>6. QED
    BY <1>1, <2>4, <2>5
<1>5. QED
  BY <1>3, <1>4 DEF KeysKnowTheirField

-----------------------------------------------------------------------------
(* What the operators the actions are made of do *)

\* Whatever becomes of a key, nothing of a credential field goes to IBus, and
\* a connection that turns out to be gone takes IBus's focus with it.
LEMMA Delivered ==
  ASSUME TypeOK, GrabFollowsField, SecretsStayHome,
         NEW k \in Keys, NEW pressed \in BOOLEAN, NEW ofSecret,
         ofSecret => here /\ secret,
         DeliverKey(k, pressed, ofSecret)
  PROVE  /\ appDown' \subseteq Keys /\ strayed' \subseteq Keys
         /\ leaked' = {}
         /\ context' \in BOOLEAN /\ losses' \in 0..MaxLosses
         /\ focused' \in BOOLEAN /\ (focused' <=> session /\ context')
<1>1. Replay(k, pressed) => appDown' \subseteq Keys /\ strayed' \subseteq Keys
  BY DEF Replay, TypeOK
<1>2. Drop => appDown' \subseteq Keys /\ strayed' \subseteq Keys
  BY DEF Drop, TypeOK
<1>3. Route(k, pressed) => appDown' \subseteq Keys /\ strayed' \subseteq Keys
  BY <1>1, <1>2 DEF Route
<1>4. appDown' \subseteq Keys /\ strayed' \subseteq Keys
  BY <1>1, <1>2, <1>3 DEF DeliverKey
<1>5. leaked' = {}
  <2>1. CASE keymap = "ready"
    <3>1. ~ofSecret
      BY <2>1 DEF GrabFollowsField
    <3>2. QED
      BY <3>1 DEF DeliverKey, SecretsStayHome
  <2>2. CASE keymap # "ready"
    BY <2>2 DEF DeliverKey, SecretsStayHome
  <2>3. QED
    BY <2>1, <2>2
<1>6. \/ UNCHANGED ibus
      \/ losses < MaxLosses /\ losses' = losses + 1 /\ context' = FALSE /\ focused' = FALSE
  BY DEF DeliverKey
<1>7. context' \in BOOLEAN /\ losses' \in 0..MaxLosses /\ focused' \in BOOLEAN /\ (focused' <=> session /\ context')
  <2>1. CASE UNCHANGED ibus
    <3>1. context' = context /\ focused' = focused /\ losses' = losses
      BY <2>1 DEF ibus
    <3>2. QED
      BY <3>1 DEF TypeOK, GrabFollowsField
  <2>2. CASE losses < MaxLosses /\ losses' = losses + 1 /\ context' = FALSE /\ focused' = FALSE
    <3>1. losses' \in 0..MaxLosses
      <4>1. losses \in 0..MaxLosses /\ MaxLosses \in Nat
        BY KeysAssumption DEF TypeOK
      <4>2. QED
        BY <2>2, <4>1
    <3>2. context' \in BOOLEAN /\ focused' \in BOOLEAN /\ (focused' <=> session /\ context')
      BY <2>2
    <3>3. QED
      BY <3>1, <3>2
  <2>3. QED
    BY <1>6, <2>1, <2>2
<1>8. QED
  BY <1>4, <1>5, <1>7

\* The key of an edge joins the wire with the field it was pressed in.
LEMMA EdgeKept ==
  ASSUME TypeOK, KeysKnowTheirField, UNCHANGED <<field, here, secret>>,
         NEW k \in Keys, NEW pressed \in BOOLEAN, Edge(k, pressed)
  PROVE  wire' \in Seq(Events) /\ appDown' \subseteq Keys /\ KeysKnowTheirField'
<1>1. /\ KeyEvent(k, pressed) \in Events
      /\ KeyEvent(k, pressed).ev # "done"
      /\ KeyEvent(k, pressed).secret => field = "secret"
  <2> DEFINE s == field = "secret"
  <2>1. s \in BOOLEAN
    OBVIOUS
  <2>2. KeyEvent(k, pressed) = [ev |-> "key", key |-> k, pressed |-> pressed, secret |-> s]
    BY DEF KeyEvent
  <2> HIDE DEF s
  <2>3. /\ KeyEvent(k, pressed) \in Events /\ KeyEvent(k, pressed).ev # "done"
        /\ KeyEvent(k, pressed).secret => s
    BY <2>1, <2>2 DEF Events
  <2>4. QED
    BY <2>3 DEF s
<1>2. wire' \in Seq(Events) /\ appDown' \subseteq Keys
  <2>1. CASE session
    BY <1>1, <2>1, WireAppend DEF Edge, TypeOK
  <2>2. CASE ~session
    <3>1. wire' = wire /\ appDown' \in {appDown \cup {k}, appDown \ {k}}
      BY <2>2 DEF Edge
    <3>2. QED
      BY <3>1 DEF TypeOK
  <2>3. QED
    BY <2>1, <2>2
<1>3. wire' = wire \/ wire' = Append(wire, KeyEvent(k, pressed))
  BY DEF Edge
<1>4. KeysKnowTheirField'
  BY <1>1, <1>3, KnownAfterEdge
<1>5. QED
  BY <1>2, <1>4

-----------------------------------------------------------------------------
(* One lemma for each action that touches the wire or the grab *)

LEMMA PressKeeps == ASSUME IInv, NEW k \in Keys, Press(k) PROVE IInv'
<1>1. wire' \in Seq(Events) /\ appDown' \subseteq Keys /\ KeysKnowTheirField'
  BY EdgeKept DEF IInv, Press, frontend
<1>2. TypeOK'
  BY <1>1, KeysAssumption DEF IInv, Press, TypeOK, frontend, ibus, history
<1>3. GrabFollowsField' /\ SecretsStayHome'
  BY DEF IInv, Press, GrabFollowsField, SecretsStayHome, frontend, ibus, history, NoRepeat
<1>4. QED
  BY <1>1, <1>2, <1>3 DEF IInv

LEMMA ReleaseKeeps == ASSUME IInv, NEW k \in Keys, Release(k) PROVE IInv'
<1>1. wire' \in Seq(Events) /\ appDown' \subseteq Keys /\ KeysKnowTheirField'
  BY EdgeKept DEF IInv, Release, frontend
<1>2. TypeOK'
  BY <1>1 DEF IInv, Release, TypeOK, frontend, ibus, engine, history
<1>3. GrabFollowsField' /\ SecretsStayHome'
  BY DEF IInv, Release, GrabFollowsField, SecretsStayHome, frontend, ibus, history, NoRepeat
<1>4. QED
  BY <1>1, <1>2, <1>3 DEF IInv

LEMMA ChangeKeeps ==
  ASSUME IInv, NEW f \in {"none", "plain", "secret"}, FieldChanges(f)
  PROVE  IInv'
<1>1. KeysKnowTheirField'
  BY KnownAfterChange DEF IInv, FieldChanges, frontend
<1>2. Done(f) \in Events
  BY DEF Done, Events
<1>3. wire' \in Seq(Events)
  BY <1>2, WireAppend DEF IInv, TypeOK, FieldChanges
<1>4. TypeOK'
  BY <1>3, KeysAssumption DEF IInv, FieldChanges, TypeOK, frontend, ibus, engine, history
<1>5. GrabFollowsField' /\ SecretsStayHome'
  BY DEF IInv, FieldChanges, GrabFollowsField, SecretsStayHome, frontend, ibus, history, NoRepeat
<1>6. QED
  BY <1>1, <1>4, <1>5 DEF IInv

LEMMA DoneKeeps == ASSUME IInv, OnDone PROVE IInv'
<1> DEFINE e == Head(wire)
<1>1. wire # <<>> /\ e \in Events /\ e.ev = "done" /\ e.on \in BOOLEAN /\ e.secret \in BOOLEAN
  BY WireTail, EventTyped DEF IInv, TypeOK, OnDone
<1>2. here' = e.on /\ secret' = IF e.on THEN e.secret ELSE secret
  BY DEF OnDone
<1>3. here' \in BOOLEAN /\ secret' \in BOOLEAN
  BY <1>1, <1>2 DEF IInv, TypeOK
<1>4. wire' = Tail(wire) \/ wire' = Append(Tail(wire), KeymapEvent)
  BY DEF OnDone, Activate, Deactivate, BecomesSecret, NoLongerSecret, StaysAsItIs,
         TakeKeyboard, ReleaseKeyboard
<1>5. wire' \in Seq(Events)
  BY <1>1, <1>4, WireTail, WireTailAppend DEF IInv, TypeOK
<1>6. KeysKnowTheirField'
  BY <1>1, <1>2, <1>4, KnownAfterRead DEF IInv, OnDone
<1>7. /\ GrabFollowsField'
      /\ session' \in BOOLEAN /\ popup' \in BOOLEAN
      /\ context' \in BOOLEAN /\ focused' \in BOOLEAN
      /\ keymap' \in {"none", "ready", "broken"}
      /\ repeat' \in {repeat, NoRepeat} /\ overtaken' \in BOOLEAN
  <2>1. CASE Activate
    <3>1. ~here /\ here' /\ keymap' = "none" /\ repeat' = repeat /\ ~session /\ ~focused /\ ~popup
          /\ repeat = NoRepeat
      BY <2>1 DEF IInv, GrabFollowsField, Activate, Forget
    <3>2. CASE secret'
      <4>1. session' = session /\ popup' = popup /\ context' = context /\ focused' = focused
            /\ overtaken' = overtaken
        BY <2>1, <3>2 DEF Activate
      <4>2. QED
        BY <3>1, <3>2, <4>1 DEF IInv, TypeOK, GrabFollowsField
    <3>3. CASE ~secret'
      <4>1. session' = TRUE /\ popup' = TRUE /\ context' \in {context, TRUE} /\ focused' = context'
        BY <2>1, <3>3 DEF Activate, TakeKeyboard, AttachContext
      <4>2. overtaken' \in BOOLEAN
        BY <2>1, <3>3 DEF Activate, TakeKeyboard, IInv, TypeOK
      <4>3. QED
        BY <3>1, <3>3, <4>1, <4>2 DEF IInv, TypeOK, GrabFollowsField
    <3>4. QED
      BY <3>2, <3>3
  <2>2. CASE Deactivate
    BY <1>3, <2>2 DEF IInv, TypeOK, GrabFollowsField, Deactivate, Forget, ReleaseKeyboard,
                      FocusOut, CancelRepeat, NoRepeat
  <2>3. CASE BecomesSecret
    BY <1>3, <2>3 DEF IInv, TypeOK, GrabFollowsField, BecomesSecret, Forget, ReleaseKeyboard,
                      FocusOut, CancelRepeat, NoRepeat
  <2>4. CASE NoLongerSecret
    BY <1>3, <2>4 DEF IInv, TypeOK, GrabFollowsField, NoLongerSecret, TakeKeyboard,
                      AttachContext, NoRepeat
  <2>5. CASE StaysAsItIs
    BY <1>3, <2>5 DEF IInv, TypeOK, GrabFollowsField, StaysAsItIs, NoRepeat
  <2>6. QED
    BY <2>1, <2>2, <2>3, <2>4, <2>5 DEF OnDone
<1>9. TypeOK'
  BY <1>3, <1>5, <1>7 DEF IInv, TypeOK, OnDone, engine, NoRepeat
<1>10. SecretsStayHome'
  BY DEF IInv, SecretsStayHome, OnDone
<1>11. QED
  BY <1>6, <1>7, <1>9, <1>10 DEF IInv

LEMMA KeymapKeeps == ASSUME IInv, OnKeymap PROVE IInv'
<1>1. wire # <<>> /\ wire' = Tail(wire) /\ Head(wire).ev # "done"
  BY DEF OnKeymap
<1>2. wire' \in Seq(Events)
  BY <1>1, WireTail DEF IInv, TypeOK
<1>3. KeysKnowTheirField'
  BY <1>1, KnownAfterRead DEF IInv, OnKeymap
<1>4. TypeOK'
  BY <1>2 DEF IInv, TypeOK, OnKeymap, ibus, engine, history
<1>5. GrabFollowsField' /\ SecretsStayHome'
  BY DEF IInv, TypeOK, GrabFollowsField, SecretsStayHome, OnKeymap, ibus, history, NoRepeat
<1>6. QED
  BY <1>3, <1>4, <1>5 DEF IInv

LEMMA KeyKeeps == ASSUME IInv, OnKey PROVE IInv'
<1> DEFINE e == Head(wire)
<1>1. /\ wire # <<>> /\ wire' = Tail(wire) /\ e \in Events /\ e.ev = "key"
      /\ e.key \in Keys /\ e.pressed \in BOOLEAN /\ e.secret \in BOOLEAN
  BY WireTail, EventTyped DEF IInv, TypeOK, OnKey
<1>2. wire' \in Seq(Events)
  BY <1>1, WireTail DEF IInv, TypeOK
<1>3. KeysKnowTheirField'
  BY <1>1, KnownAfterRead DEF IInv, OnKey
<1>4. e.secret => here /\ secret
  <2>1. Len(wire) \in Nat \ {0} /\ e = wire[1]
    BY <1>1, WireTail DEF IInv, TypeOK
  <2>2. e.secret => SecretBefore(1)
    BY <1>1, <2>1 DEF IInv, KeysKnowTheirField
  <2>3. QED
    BY <2>2 DEF SecretBefore
<1>5. /\ appDown' \subseteq Keys /\ strayed' \subseteq Keys /\ leaked' = {}
      /\ context' \in BOOLEAN /\ losses' \in 0..MaxLosses
      /\ focused' \in BOOLEAN /\ (focused' <=> session /\ context')
  <2>1. CASE e.key = trigger
    <3>1. /\ appDown' = appDown /\ strayed' = strayed /\ leaked' = leaked
          /\ context' = context /\ focused' = focused /\ losses' = losses
      BY <2>1 DEF OnKey, ibus
    <3>2. QED
      BY <3>1 DEF IInv, TypeOK, GrabFollowsField, SecretsStayHome
  <2>2. CASE e.key # trigger
    BY <1>1, <1>4, <2>2, Delivered DEF OnKey, IInv
  <2>3. QED
    BY <2>1, <2>2
<1>6. /\ generation' \in Nat /\ timers' \subseteq 1..generation'
      /\ repeat' \in [key: Keys, generation: 1..generation'] \cup {NoRepeat}
      /\ repeat' # NoRepeat => keymap = "ready"
  <2>1. ASSUME NoSchedule(FALSE) \/ NoSchedule(e.pressed)
        PROVE  repeat' = NoRepeat /\ generation' = generation /\ timers' = timers
    BY <2>1 DEF NoSchedule, EndsRepeat
  <2>2. ASSUME ScheduleRepeat(e.key)
        PROVE  \/ /\ keymap = "ready"
                  /\ generation' = generation + 1 /\ timers' = timers \cup {generation + 1}
                  /\ repeat' = [key |-> e.key, generation |-> generation + 1]
               \/ repeat' = NoRepeat /\ generation' = generation /\ timers' = timers
    BY <2>2 DEF ScheduleRepeat
  <2>3. NoSchedule(FALSE) \/ NoSchedule(e.pressed) \/ ScheduleRepeat(e.key)
    BY DEF OnKey
  <2>4. generation \in Nat /\ timers \subseteq 1..generation
    BY DEF IInv, TypeOK
  <2>5. CASE repeat' = NoRepeat /\ generation' = generation /\ timers' = timers
    BY <2>4, <2>5
  <2>6. CASE /\ keymap = "ready"
             /\ generation' = generation + 1 /\ timers' = timers \cup {generation + 1}
             /\ repeat' = [key |-> e.key, generation |-> generation + 1]
    BY <1>1, <2>4, <2>6
  <2>7. QED
    BY <2>1, <2>2, <2>3, <2>5, <2>6
<1>8. TypeOK'
  BY <1>2, <1>5, <1>6 DEF IInv, TypeOK, OnKey, engine
<1>9. GrabFollowsField' /\ SecretsStayHome'
  BY <1>5, <1>6 DEF IInv, TypeOK, GrabFollowsField, SecretsStayHome, OnKey, NoRepeat
<1>10. QED
  BY <1>3, <1>8, <1>9 DEF IInv

LEMMA RepeatKeeps == ASSUME IInv, NEW t \in timers, OnRepeat(t) PROVE IInv'
<1>1. KeysKnowTheirField'
  BY KnownAfterEdge DEF IInv, OnRepeat
<1>2. /\ appDown' \subseteq Keys /\ strayed' \subseteq Keys /\ leaked' = {}
      /\ context' \in BOOLEAN /\ losses' \in 0..MaxLosses
      /\ focused' \in BOOLEAN /\ (focused' <=> session /\ context')
      /\ timers' \subseteq 1..generation
  <2>1. CASE Fires(t)
    <3>1. repeat.key \in Keys
      BY <2>1 DEF Fires, IInv, TypeOK
    <3>2. DeliverKey(repeat.key, TRUE, FALSE) /\ timers' = timers
      BY <2>1 DEF OnRepeat
    <3>3. timers \subseteq 1..generation
      BY DEF IInv, TypeOK
    <3>4. QED
      BY <3>1, <3>2, <3>3, Delivered DEF IInv
  <2>2. CASE ~Fires(t)
    <3>1. /\ appDown' = appDown /\ strayed' = strayed /\ leaked' = leaked
          /\ context' = context /\ focused' = focused /\ losses' = losses
          /\ timers' = timers \ {t}
      BY <2>2 DEF OnRepeat, ibus
    <3>2. QED
      BY <3>1 DEF IInv, TypeOK, GrabFollowsField, SecretsStayHome
  <2>3. QED
    BY <2>1, <2>2
<1>3. TypeOK'
  BY <1>2 DEF IInv, TypeOK, OnRepeat, engine
<1>4. GrabFollowsField' /\ SecretsStayHome'
  BY <1>2 DEF IInv, TypeOK, GrabFollowsField, SecretsStayHome, OnRepeat, NoRepeat
<1>5. QED
  BY <1>1, <1>3, <1>4 DEF IInv

LEMMA LinkKeeps == ASSUME IInv, OnTick \/ ContextLost \/ Rebound PROVE IInv'
<1>1. UNCHANGED <<compositor, frontend, history>>
  BY DEF OnTick, ContextLost, Rebound
<1>2. KeysKnowTheirField'
  BY <1>1, KnownAfterEdge DEF IInv, compositor, frontend
<1>3. CASE OnTick
  <2>1. TypeOK'
    BY <1>1, <1>3 DEF IInv, TypeOK, OnTick, AttachContext, compositor, frontend, engine, history
  <2>2. GrabFollowsField' /\ SecretsStayHome'
    BY <1>1, <1>3 DEF IInv, TypeOK, GrabFollowsField, SecretsStayHome, OnTick, AttachContext,
                      frontend, history, NoRepeat
  <2>3. QED
    BY <1>2, <2>1, <2>2 DEF IInv
<1>4. CASE ContextLost
  <2>1. TypeOK'
    <3>1. losses' \in 0..MaxLosses
      <4>1. losses \in 0..MaxLosses /\ MaxLosses \in Nat /\ losses < MaxLosses /\ losses' = losses + 1
        BY <1>4, KeysAssumption DEF IInv, TypeOK, ContextLost
      <4>2. QED
        BY <4>1
    <3>2. context' \in BOOLEAN /\ focused' \in BOOLEAN /\ trigger' = trigger /\ choice' = choice
      BY <1>4 DEF ContextLost, engine
    <3>3. QED
      BY <1>1, <3>1, <3>2 DEF IInv, TypeOK, compositor, frontend, history
  <2>2. GrabFollowsField' /\ SecretsStayHome'
    BY <1>1, <1>4 DEF IInv, TypeOK, GrabFollowsField, SecretsStayHome, ContextLost,
                      frontend, history, NoRepeat
  <2>3. QED
    BY <1>2, <2>1, <2>2 DEF IInv
<1>5. CASE Rebound
  <2>1. TypeOK'
    BY <1>1, <1>5 DEF IInv, TypeOK, Rebound, compositor, frontend, ibus, history
  <2>2. GrabFollowsField' /\ SecretsStayHome'
    BY <1>1, <1>5 DEF IInv, GrabFollowsField, SecretsStayHome, Rebound, frontend, ibus,
                      history, NoRepeat
  <2>3. QED
    BY <1>2, <2>1, <2>2 DEF IInv
<1>6. QED
  BY <1>3, <1>4, <1>5

-----------------------------------------------------------------------------
(* The theorems *)

\* The inductive invariant: types, the grab, what the wire says of each key,
\* and that nothing secret has gone to IBus.
THEOREM Invariance == Spec => []IInv
<1>1. Init => IInv
  <2> SUFFICES ASSUME Init PROVE IInv
    OBVIOUS
  <2>1. wire = <<>> /\ Len(wire) = 0 /\ wire \in Seq(Events)
    <3>1. wire = <<>>
      BY DEF Init
    <3>2. QED
      BY <3>1, EmptySeq
  <2>2. TypeOK
    <3>1. MaxPresses \in Nat /\ MaxChanges \in Nat /\ MaxLosses \in Nat /\ Trigger \in Keys
      BY KeysAssumption
    <3>2. presses \in 0..MaxPresses /\ changes \in 0..MaxChanges /\ losses \in 0..MaxLosses
      BY <3>1 DEF Init
    <3>3. generation \in Nat /\ timers \subseteq 1..generation
      BY DEF Init
    <3>4. /\ here \in BOOLEAN /\ secret \in BOOLEAN /\ session \in BOOLEAN
          /\ popup \in BOOLEAN /\ context \in BOOLEAN /\ focused \in BOOLEAN
          /\ overtaken \in BOOLEAN
      BY DEF Init
    <3>5. /\ field \in {"none", "plain", "secret"} /\ keymap \in {"none", "ready", "broken"}
          /\ down \subseteq Keys /\ appDown \subseteq Keys
          /\ strayed \subseteq Keys /\ leaked \subseteq Keys
          /\ trigger \in Keys /\ choice \in Keys \cup {NoKey}
          /\ repeat \in [key: Keys, generation: 1..generation] \cup {NoRepeat}
      BY <3>1 DEF Init
    <3>6. QED
      BY <2>1, <3>2, <3>3, <3>4, <3>5 DEF TypeOK
  <2>3. GrabFollowsField /\ SecretsStayHome
    BY DEF Init, GrabFollowsField, SecretsStayHome, NoRepeat
  <2>4. KeysKnowTheirField
    BY <2>1 DEF Init, KeysKnowTheirField
  <2>5. QED
    BY <2>2, <2>3, <2>4 DEF IInv
<1>2. IInv /\ [Next]_vars => IInv'
  <2> SUFFICES ASSUME IInv, [Next]_vars PROVE IInv'
    OBVIOUS
  <2>1. CASE OnDone
    BY <2>1, DoneKeeps
  <2>2. CASE OnKeymap
    BY <2>2, KeymapKeeps
  <2>3. CASE OnKey
    BY <2>3, KeyKeeps
  <2>4. CASE \E t \in timers : OnRepeat(t)
    BY <2>4, RepeatKeeps
  <2>5. CASE OnTick \/ ContextLost \/ Rebound
    BY <2>5, LinkKeeps
  <2>6. CASE \E k \in Keys : Press(k) \/ Release(k)
    BY <2>6, PressKeeps, ReleaseKeeps
  <2>7. CASE \E f \in {"none", "plain", "secret"} : FieldChanges(f)
    BY <2>7, ChangeKeeps
  <2>8. CASE UNCHANGED vars
    <3>1. KeysKnowTheirField'
      BY <2>8, KnownAfterEdge DEF IInv, vars, compositor, frontend
    <3>2. QED
      BY <2>8, <3>1 DEF IInv, TypeOK, GrabFollowsField, SecretsStayHome, NoRepeat, vars,
                        compositor, frontend, ibus, engine, history
  <2>9. QED
    BY <2>1, <2>2, <2>3, <2>4, <2>5, <2>6, <2>7, <2>8 DEF Next, Frontend, World
<1>3. QED
  BY <1>1, <1>2, PTL DEF Spec

\* Every variable of the keyboard model keeps its type.
THEOREM TypeCorrect == Spec => []TypeOK
<1>1. IInv => TypeOK
  BY DEF IInv
<1>2. QED
  BY <1>1, Invariance, PTL

\* The keyboard is grabbed exactly while a field is active that is no
\* credential, and popup, IBus focus, keymap and repeat go with it.
THEOREM GrabIsTheFields == Spec => []GrabFollowsField
<1>1. IInv => GrabFollowsField
  BY DEF IInv
<1>2. QED
  BY <1>1, Invariance, PTL

\* No key pressed in a credential field is handed to IBus.
THEOREM SecretsKept == Spec => []SecretsStayHome
<1>1. IInv => SecretsStayHome
  BY DEF IInv
<1>2. QED
  BY <1>1, Invariance, PTL

-----------------------------------------------------------------------------
(* Held keys: what repeats, and what the window believes *)

IsKey(i, k, p) == wire[i].ev = "key" /\ wire[i].key = k /\ wire[i].pressed = p

\* Every press still to be read is of a key that is down, or is followed by the
\* release.
Answered ==
  \A i \in DOMAIN wire : \A k \in Keys : IsKey(i, k, TRUE) =>
    k \in down \/ \E j \in DOMAIN wire : j > i /\ IsKey(j, k, FALSE)

Pending(k) == k \in down \/ Unread(k, FALSE)

Excused(k) == k \in strayed \cup {Trigger, choice} \cup Latches

\* While no grab has read the keys of another, a key that repeats, or that the
\* window believes to be down, is down or its release is on its way.
Held ==
  /\ trigger \in {Trigger, choice}
  /\ repeat # NoRepeat => repeat.generation \in timers
  /\ ~overtaken => /\ session => Answered
                   /\ repeat # NoRepeat => Pending(repeat.key)
                   /\ \A k \in appDown : Excused(k) \/ Pending(k)

\* What is added at the end of the wire leaves the rest unread.
LEMMA UnreadAfterAppend ==
  ASSUME TypeOK, NEW e \in Events, wire' = Append(wire, e)
  PROVE  /\ \A k, p : Unread(k, p) => Unread(k, p)'
         /\ e.ev = "key" => Unread(e.key, e.pressed)'
         /\ /\ Answered
            /\ e.ev = "key" /\ e.pressed => e.key \in down'
            /\ \A k \in down : k \in down' \/ (e.ev = "key" /\ e.key = k /\ e.pressed = FALSE)
            => Answered'
<1>1. PICK n : n = Len(wire) + 1 OBVIOUS
<1>2. /\ n \in Nat /\ DOMAIN wire = 1..n - 1 /\ DOMAIN wire' = 1..n
      /\ \A i \in DOMAIN wire : wire'[i] = wire[i]
      /\ wire'[n] = e
  <2>1. wire \in Seq(Events) BY DEF TypeOK
  <2>2. /\ Append(wire, e) \in Seq(Events) /\ Len(wire) \in Nat
        /\ Len(Append(wire, e)) = Len(wire) + 1
        /\ \A i \in 1..Len(wire) : Append(wire, e)[i] = wire[i]
        /\ Append(wire, e)[Len(wire) + 1] = e
    BY <2>1, WireAppend
  <2>3. DOMAIN wire = 1..Len(wire) /\ DOMAIN wire' = 1..Len(wire')
    BY <2>1, <2>2, LenProperties
  <2> QED BY <1>1, <2>2, <2>3
<1>3. \A i \in DOMAIN wire : i \in DOMAIN wire' /\ wire'[i] = wire[i] /\ n > i BY <1>2
<1>4. n \in DOMAIN wire' BY <1>2
<1>5. \A k, p : Unread(k, p) => Unread(k, p)' BY <1>3 DEF Unread
<1>6. e.ev = "key" => Unread(e.key, e.pressed)' BY <1>2, <1>4 DEF Unread
<1>7. ASSUME Answered, e.ev = "key" /\ e.pressed => e.key \in down',
             \A k \in down : k \in down' \/ (e.ev = "key" /\ e.key = k /\ e.pressed = FALSE)
      PROVE  Answered'
  <2> SUFFICES ASSUME NEW i \in DOMAIN wire', NEW k \in Keys, IsKey(i, k, TRUE)'
               PROVE  k \in down' \/ \E j \in DOMAIN wire' : j > i /\ IsKey(j, k, FALSE)'
    BY DEF Answered
  <2>1. CASE i = n BY <1>2, <1>7, <2>1 DEF IsKey
  <2>2. CASE i # n
    <3>1. i \in DOMAIN wire /\ IsKey(i, k, TRUE) BY <1>2, <2>2 DEF IsKey
    <3>2. CASE k \in down
      <4>1. k \in down' \/ IsKey(n, k, FALSE)' BY <1>2, <1>7, <3>2 DEF IsKey
      <4> QED BY <1>3, <1>4, <3>1, <4>1
    <3>3. CASE \E j \in DOMAIN wire : j > i /\ IsKey(j, k, FALSE)
      BY <1>3, <3>3 DEF IsKey
    <3> QED BY <1>7, <3>1, <3>2, <3>3 DEF Answered
  <2> QED BY <2>1, <2>2
<1> QED BY <1>5, <1>6, <1>7

\* What is read is unread no more; the rest is.
LEMMA UnreadAfterRead ==
  ASSUME TypeOK, wire # <<>>, wire' = Tail(wire) \/ wire' = Append(Tail(wire), KeymapEvent)
  PROVE  /\ \A k, p : Unread(k, p) =>
              \/ Unread(k, p)'
              \/ Head(wire).ev = "key" /\ Head(wire).key = k /\ Head(wire).pressed = p
         /\ Answered /\ down' = down => Answered'
         /\ \A k \in Keys :
              Answered /\ Head(wire).ev = "key" /\ Head(wire).key = k /\ Head(wire).pressed = TRUE =>
                k \in down \/ Unread(k, FALSE)'
         /\ (\A i \in DOMAIN wire : wire[i].ev # "key") => Answered'
<1>1. PICK n : n = Len(wire) OBVIOUS
<1>2. /\ n \in Nat \ {0} /\ DOMAIN wire = 1..n /\ Head(wire) = wire[1]
      /\ \A i \in 1..n - 1 : wire'[i] = wire[i + 1]
      /\ DOMAIN wire' = 1..n - 1 \/ (DOMAIN wire' = 1..n /\ wire'[n] = KeymapEvent)
  <2>1. wire \in Seq(Events) BY DEF TypeOK
  <2>2. DOMAIN wire = 1..Len(wire) BY <2>1, LenProperties
  <2>3. CASE wire' = Tail(wire)
    <3>1. /\ wire' \in Seq(Events) /\ Len(wire) \in Nat \ {0} /\ Len(wire') = Len(wire) - 1
          /\ \A i \in 1..(Len(wire) - 1) : wire'[i] = wire[i + 1]
          /\ Head(wire) = wire[1]
      BY <2>1, <2>3, WireTail
    <3>2. DOMAIN wire' = 1..Len(wire') BY <3>1, LenProperties
    <3> QED BY <1>1, <2>2, <3>1, <3>2
  <2>4. CASE wire' = Append(Tail(wire), KeymapEvent)
    <3>1. /\ wire' \in Seq(Events) /\ Len(wire) \in Nat \ {0} /\ Len(wire') = Len(wire)
          /\ \A i \in 1..(Len(wire) - 1) : wire'[i] = wire[i + 1]
          /\ wire'[Len(wire)] = KeymapEvent
      BY <2>1, <2>4, WireTailAppend
    <3>2. DOMAIN wire' = 1..Len(wire') /\ Head(wire) = wire[1]
      BY <2>1, <3>1, LenProperties, WireTail
    <3> QED BY <1>1, <2>2, <3>1, <3>2
  <2> QED BY <2>3, <2>4
<1>3. KeymapEvent.ev # "key" BY DEF KeymapEvent
<1>4. \A i \in DOMAIN wire : i # 1 =>
        /\ i - 1 \in DOMAIN wire' /\ wire'[i - 1] = wire[i] /\ i \in Nat /\ i > 1
  BY <1>2
<1>5. \A i \in DOMAIN wire' : wire'[i].ev = "key" =>
        i + 1 \in DOMAIN wire /\ wire'[i] = wire[i + 1] /\ i \in Nat /\ i # 0
  BY <1>2, <1>3
<1>6. \A k, p : Unread(k, p) =>
        \/ Unread(k, p)'
        \/ Head(wire).ev = "key" /\ Head(wire).key = k /\ Head(wire).pressed = p
  <2> SUFFICES ASSUME NEW k, NEW p, Unread(k, p)
               PROVE  \/ Unread(k, p)'
                      \/ Head(wire).ev = "key" /\ Head(wire).key = k /\ Head(wire).pressed = p
    OBVIOUS
  <2>1. PICK i \in DOMAIN wire : wire[i].ev = "key" /\ wire[i].key = k /\ wire[i].pressed = p
    BY DEF Unread
  <2>2. CASE i = 1 BY <1>2, <2>1, <2>2
  <2>3. CASE i # 1
    <3>1. i - 1 \in DOMAIN wire' /\ wire'[i - 1] = wire[i] BY <1>4, <2>3
    <3> QED BY <2>1, <3>1 DEF Unread
  <2> QED BY <2>2, <2>3
<1>7. ASSUME Answered, down' = down PROVE Answered'
  <2> SUFFICES ASSUME NEW i \in DOMAIN wire', NEW k \in Keys, IsKey(i, k, TRUE)', k \notin down
               PROVE  \E j \in DOMAIN wire' : j > i /\ IsKey(j, k, FALSE)'
    BY <1>7 DEF Answered
  <2>1. i + 1 \in DOMAIN wire /\ IsKey(i + 1, k, TRUE) /\ i \in Nat BY <1>5 DEF IsKey
  <2>2. PICK j \in DOMAIN wire : j > i + 1 /\ IsKey(j, k, FALSE) BY <1>7, <2>1 DEF Answered
  <2>3. j # 1 BY <1>2, <1>5, <2>1, <2>2 DEF IsKey
  <2>4. j - 1 \in DOMAIN wire' /\ wire'[j - 1] = wire[j] /\ j \in Nat BY <1>4, <2>3
  <2>5. j - 1 > i BY <2>1, <2>2, <2>4
  <2> QED BY <2>2, <2>4, <2>5 DEF IsKey
<1>8. ASSUME NEW k \in Keys, Answered,
             Head(wire).ev = "key" /\ Head(wire).key = k /\ Head(wire).pressed = TRUE
      PROVE  k \in down \/ Unread(k, FALSE)'
  <2>1. 1 \in DOMAIN wire /\ IsKey(1, k, TRUE) BY <1>2, <1>8 DEF IsKey
  <2>2. CASE \E j \in DOMAIN wire : j > 1 /\ IsKey(j, k, FALSE)
    <3>1. PICK j \in DOMAIN wire : j > 1 /\ IsKey(j, k, FALSE) BY <2>2
    <3>2. j - 1 \in DOMAIN wire' /\ wire'[j - 1] = wire[j] BY <1>4, <3>1
    <3> QED BY <3>1, <3>2 DEF Unread, IsKey
  <2> QED BY <1>8, <2>1, <2>2 DEF Answered
<1>9. ASSUME \A i \in DOMAIN wire : wire[i].ev # "key" PROVE Answered'
  BY <1>5, <1>9 DEF Answered, IsKey
<1> QED BY <1>6, <1>7, <1>8, <1>9

\* Nothing is added or read.
LEMMA UnreadSame ==
  ASSUME wire' = wire, down' = down
  PROVE  /\ Answered' = Answered
         /\ \A k : Pending(k)' <=> Pending(k)
         /\ \A k, p : Unread(k, p)' <=> Unread(k, p)
  BY DEF Answered, IsKey, Pending, Unread

\* What the window hears of a key that was delivered.
LEMMA WindowHears ==
  ASSUME TypeOK, NEW k \in Keys, NEW pressed \in BOOLEAN, NEW ofSecret,
         DeliverKey(k, pressed, ofSecret)
  PROVE  \A m \in appDown' :
           \/ m \in appDown /\ (m \in strayed => m \in strayed')
              /\ (m = k /\ ~pressed => m \in strayed' \cup Latches)
           \/ m = k /\ pressed /\ session
<1>1. ASSUME Replay(k, pressed)
      PROVE  \A m \in appDown' :
               \/ m \in appDown /\ (m \in strayed => m \in strayed')
                  /\ (m = k /\ ~pressed => m \in strayed' \cup Latches)
               \/ m = k /\ pressed /\ session
  BY <1>1 DEF Replay
<1>2. ASSUME Drop, pressed \/ k \notin appDown \/ k \in Latches
      PROVE  \A m \in appDown' : m \in appDown /\ (m \in strayed => m \in strayed')
                                 /\ (m = k /\ ~pressed => m \in strayed' \cup Latches)
  BY <1>2 DEF Drop
<1> QED BY <1>1, <1>2 DEF DeliverKey, Route, CommitsText

\* A hand on the keyboard.
LEMMA HandHeld ==
  ASSUME IInv, Held, NEW k \in Keys, Press(k) \/ Release(k)
  PROVE  Held'
<1>0. PICK pressed \in BOOLEAN :
        /\ Edge(k, pressed) /\ down' = (IF pressed THEN down \cup {k} ELSE down \ {k})
  BY DEF Press, Release
<1>1. /\ Edge(k, pressed) /\ down' = (IF pressed THEN down \cup {k} ELSE down \ {k})
      /\ UNCHANGED <<frontend, history, trigger>>
      /\ choice' = choice \/ choice = NoKey
  BY <1>0 DEF Press, Release, engine
<1>2. /\ repeat' = repeat /\ timers' = timers /\ session' = session
      /\ overtaken' = overtaken /\ strayed' = strayed
  BY <1>1 DEF frontend, history
<1>3. down \subseteq Keys /\ appDown \subseteq Keys /\ NoKey \notin Keys
  BY KeysAssumption DEF IInv, TypeOK
<1>4. trigger' \in {Trigger, choice'}
  BY <1>1, <1>3 DEF Held, IInv, TypeOK
<1>5. \A m \in Keys : Excused(m) => Excused(m)'
  BY <1>1, <1>2, <1>3 DEF Excused
<1>6. CASE session
  <2> DEFINE e == KeyEvent(k, pressed)
  <2>1. wire' = Append(wire, e) /\ appDown' = appDown BY <1>1, <1>6 DEF Edge
  <2>2. e \in Events /\ e.ev = "key" /\ e.key = k /\ e.pressed = pressed
    <3> DEFINE s == field = "secret"
    <3>1. e = [ev |-> "key", key |-> k, pressed |-> pressed, secret |-> s] BY DEF KeyEvent
    <3>2. s \in BOOLEAN OBVIOUS
    <3> HIDE DEF s, e
    <3> QED BY <1>3, <3>1, <3>2 DEF Events
  <2> HIDE DEF e
  <2>3. pressed => e.key \in down' BY <1>1, <2>2
  <2>4. \A m \in down : m \in down' \/ (e.key = m /\ e.pressed = FALSE)
    BY <1>1, <1>3, <2>2
  <2>5. /\ Answered => Answered'
        /\ ~pressed => Unread(k, FALSE)'
        /\ \A m, p : Unread(m, p) => Unread(m, p)'
    BY <2>1, <2>2, <2>3, <2>4, UnreadAfterAppend DEF IInv
  <2>6. \A m : Pending(m) => Pending(m)'
    <3> SUFFICES ASSUME NEW m, Pending(m) PROVE Pending(m)' OBVIOUS
    <3>1. CASE Unread(m, FALSE) BY <2>5, <3>1 DEF Pending
    <3>2. CASE m \in down /\ m \in down' BY <3>2 DEF Pending
    <3>3. CASE m \in down /\ m \notin down'
      <4>1. m = k /\ ~pressed BY <1>1, <3>3
      <4> QED BY <2>5, <4>1 DEF Pending
    <3> QED BY <3>1, <3>2, <3>3 DEF Pending
  <2> QED BY <1>2, <1>3, <1>4, <1>5, <2>1, <2>5, <2>6 DEF Held
<1>7. CASE ~session
  <2>1. wire' = wire /\ appDown' = (IF pressed THEN appDown \cup {k} ELSE appDown \ {k})
    BY <1>1, <1>7 DEF Edge
  <2>2. repeat = NoRepeat BY <1>7 DEF IInv, GrabFollowsField
  <2>3. \A m, p : Unread(m, p)' <=> Unread(m, p) BY <2>1 DEF Unread
  <2>4. \A m \in appDown' : (m \in appDown /\ (Pending(m) => Pending(m)')) \/ m \in down'
    BY <1>1, <2>1, <2>3 DEF Pending
  <2>5. \A m \in appDown' : m \in down' => Pending(m)' BY DEF Pending
  <2> QED BY <1>2, <1>3, <1>4, <1>5, <1>7, <2>2, <2>4, <2>5 DEF Held
<1> QED BY <1>6, <1>7

\* An announcement is added, or read, or a keymap is.
LEMMA NewsHeld ==
  ASSUME IInv, Held,
         OnDone \/ OnKeymap \/ \E f \in {"none", "plain", "secret"} : FieldChanges(f)
  PROVE  Held'
<1>1. UNCHANGED <<down, appDown, timers, engine, strayed>> /\ repeat' \in {repeat, NoRepeat}
  BY DEF OnDone, OnKeymap, FieldChanges, Activate, Deactivate, BecomesSecret, NoLongerSecret,
         StaysAsItIs, ReleaseKeyboard, CancelRepeat, frontend, history
<1>2. \A m, p : Unread(m, p) => Unread(m, p)'
  <2>1. CASE OnDone \/ OnKeymap
    <3>1. /\ wire # <<>> /\ Head(wire).ev # "key"
          /\ wire' = Tail(wire) \/ wire' = Append(Tail(wire), KeymapEvent)
      BY <2>1 DEF OnDone, OnKeymap, Activate, Deactivate, BecomesSecret, NoLongerSecret,
                  StaysAsItIs, ReleaseKeyboard, TakeKeyboard
    <3> QED BY <3>1, UnreadAfterRead DEF IInv
  <2>2. CASE \E f \in {"none", "plain", "secret"} : FieldChanges(f)
    <3>1. PICK f \in {"none", "plain", "secret"} : wire' = Append(wire, Done(f))
      BY <2>2 DEF FieldChanges
    <3>2. Done(f) \in Events BY DEF Done, Events
    <3> QED BY <3>1, <3>2, UnreadAfterAppend DEF IInv
  <2> QED BY <2>1, <2>2
<1>3. /\ ~overtaken' => ~overtaken
      /\ ~overtaken' /\ session' /\ (session => Answered) => Answered'
  <2>1. CASE OnDone \/ OnKeymap
    <3>1. /\ wire # <<>>
          /\ wire' = Tail(wire) \/ wire' = Append(Tail(wire), KeymapEvent)
      BY <2>1 DEF OnDone, OnKeymap, Activate, Deactivate, BecomesSecret, NoLongerSecret,
                  StaysAsItIs, ReleaseKeyboard, TakeKeyboard
    <3>2. \/ TakeKeyboard
          \/ overtaken' = overtaken /\ (session' = session \/ session' = FALSE)
      BY <2>1 DEF OnDone, OnKeymap, Activate, Deactivate, BecomesSecret, NoLongerSecret,
                  StaysAsItIs, ReleaseKeyboard, history
    <3>3. ASSUME TakeKeyboard, ~overtaken'
          PROVE  ~overtaken /\ \A i \in DOMAIN wire : wire[i].ev # "key"
      BY <3>3 DEF TakeKeyboard, OfGrab
    <3>4. Answered \/ (\A i \in DOMAIN wire : wire[i].ev # "key") => Answered'
      BY <1>1, <3>1, UnreadAfterRead DEF IInv
    <3>5. CASE TakeKeyboard BY <3>3, <3>4, <3>5
    <3>6. CASE overtaken' = overtaken /\ (session' = session \/ session' = FALSE)
      BY <3>4, <3>6
    <3> QED BY <3>2, <3>5, <3>6
  <2>2. CASE \E f \in {"none", "plain", "secret"} : FieldChanges(f)
    <3>1. PICK f \in {"none", "plain", "secret"} : wire' = Append(wire, Done(f))
      BY <2>2 DEF FieldChanges
    <3>2. Done(f) \in Events /\ Done(f).ev = "done" BY DEF Done, Events
    <3>3. session' = session /\ overtaken' = overtaken BY <2>2 DEF FieldChanges, frontend, history
    <3>4. Answered => Answered' BY <1>1, <3>1, <3>2, UnreadAfterAppend DEF IInv
    <3> QED BY <3>3, <3>4
  <2> QED BY <2>1, <2>2
<1>4. \A m : Pending(m) => Pending(m)' BY <1>1, <1>2 DEF Pending
<1>5. \A m : Excused(m) => Excused(m)' BY <1>1 DEF Excused, engine
<1> QED BY <1>1, <1>3, <1>4, <1>5 DEF Held, engine

\* A key is read.
LEMMA KeyHeld == ASSUME IInv, Held, OnKey PROVE Held'
<1>0. PICK e : e = Head(wire) OBVIOUS
<1>1. /\ wire # <<>> /\ wire' = Tail(wire) /\ e.ev = "key"
      /\ \/ /\ e.key = trigger /\ NoSchedule(e.pressed)
            /\ UNCHANGED <<appDown, strayed>>
         \/ /\ DeliverKey(e.key, e.pressed, e.secret)
            /\ (ScheduleRepeat(e.key) /\ e.pressed) \/ (NoSchedule(FALSE) /\ ~e.pressed)
      /\ UNCHANGED <<down, session, keymap, engine, overtaken>>
  BY <1>0 DEF OnKey
<1>2. e \in Events /\ e.key \in Keys /\ e.pressed \in BOOLEAN
  <2>1. e \in Events BY <1>0, <1>1, WireTail DEF IInv, TypeOK
  <2> QED BY <1>1, <2>1, EventTyped
<1>3. /\ \A k, p : Unread(k, p) => Unread(k, p)' \/ (e.key = k /\ e.pressed = p)
      /\ Answered => Answered'
      /\ Answered /\ e.pressed => e.key \in down \/ Unread(e.key, FALSE)'
  BY <1>0, <1>1, <1>2, UnreadAfterRead DEF IInv
<1>4. \A m \in Keys : Pending(m) => Pending(m)' \/ (m = e.key /\ ~e.pressed)
  BY <1>1, <1>3 DEF Pending
<1>5. session /\ ~overtaken /\ e.pressed => Pending(e.key)'
  BY <1>1, <1>3 DEF Held, Pending
<1>6. /\ repeat' # NoRepeat => repeat'.generation \in timers'
      /\ repeat' # NoRepeat => repeat'.key = e.key /\ e.pressed /\ session
  <2>1. CASE NoSchedule(e.pressed) \/ NoSchedule(FALSE)
    BY <2>1 DEF NoSchedule, EndsRepeat
  <2>2. CASE ScheduleRepeat(e.key) /\ e.pressed
    <3>1. keymap = "ready" => session BY DEF IInv, GrabFollowsField
    <3> QED BY <2>2, <3>1 DEF ScheduleRepeat
  <2> QED BY <1>1, <2>1, <2>2
<1>7. \A m \in appDown' :
        \/ m \in appDown /\ (Excused(m) => Excused(m)') /\ (m = e.key /\ ~e.pressed => Excused(m)')
        \/ m = e.key /\ e.pressed /\ session
  <2>1. CASE e.key = trigger /\ UNCHANGED <<appDown, strayed>>
    BY <1>1, <2>1 DEF Excused, Held, engine
  <2>2. CASE DeliverKey(e.key, e.pressed, e.secret)
    <3>1. \A m \in appDown' :
            \/ m \in appDown /\ (m \in strayed => m \in strayed')
               /\ (m = e.key /\ ~e.pressed => m \in strayed' \cup Latches)
            \/ m = e.key /\ e.pressed /\ session
      BY <1>2, <2>2, WindowHears DEF IInv
    <3> QED BY <1>1, <3>1 DEF Excused, engine
  <2> QED BY <1>1, <2>1, <2>2
<1>8. ~overtaken => \A m \in appDown' : Excused(m)' \/ Pending(m)'
  <2> SUFFICES ASSUME ~overtaken, NEW m \in appDown' PROVE Excused(m)' \/ Pending(m)'
    OBVIOUS
  <2>1. CASE m = e.key /\ e.pressed /\ session BY <1>5, <2>1
  <2>2. CASE /\ m \in appDown /\ (Excused(m) => Excused(m)')
             /\ (m = e.key /\ ~e.pressed => Excused(m)')
    <3>1. m \in Keys BY <2>2 DEF IInv, TypeOK
    <3> QED BY <1>4, <2>2, <3>1 DEF Held
  <2> QED BY <1>7, <2>1, <2>2
<1> QED BY <1>1, <1>3, <1>5, <1>6, <1>8 DEF Held, engine

\* A repeat fires, or a timer finds that it was cancelled.
LEMMA RepeatHeld == ASSUME IInv, Held, NEW t \in timers, OnRepeat(t) PROVE Held'
<1>1. UNCHANGED <<wire, down, session, repeat, generation, engine, overtaken>>
  BY DEF OnRepeat
<1>2. /\ (Answered <=> Answered') /\ \A m : Pending(m)' <=> Pending(m)
  BY <1>1, UnreadSame
<1>3. CASE Fires(t)
  <2>1. DeliverKey(repeat.key, TRUE, FALSE) /\ timers' = timers BY <1>3 DEF OnRepeat
  <2>2. repeat # NoRepeat /\ repeat.key \in Keys BY <1>3 DEF Fires, IInv, TypeOK
  <2>3. \A m \in appDown' : (m \in appDown /\ (m \in strayed => m \in strayed')) \/ m = repeat.key
    BY <2>1, <2>2, WindowHears DEF IInv
  <2>4. \A m \in appDown' : (m \in appDown /\ (Excused(m) => Excused(m)')) \/ m = repeat.key
    BY <1>1, <2>3 DEF Excused, engine
  <2> QED BY <1>1, <1>2, <2>1, <2>2, <2>4 DEF Held, engine
<1>4. CASE ~Fires(t)
  <2>1. timers' = timers \ {t} /\ UNCHANGED <<appDown, strayed>> BY <1>4 DEF OnRepeat
  <2>2. \A m : Excused(m) => Excused(m)' BY <1>1, <2>1 DEF Excused, engine
  <2>3. repeat # NoRepeat => repeat.generation # t BY <1>4 DEF Fires
  <2> QED BY <1>1, <1>2, <2>1, <2>2, <2>3 DEF Held, engine
<1> QED BY <1>3, <1>4

\* Every step preserves it.
LEMMA StepHeld == ASSUME IInv, Held, [Next]_vars PROVE Held'
<1>1. CASE OnDone \/ OnKeymap \/ \E f \in {"none", "plain", "secret"} : FieldChanges(f)
  BY <1>1, NewsHeld
<1>2. CASE OnKey BY <1>2, KeyHeld
<1>3. CASE \E t \in timers : OnRepeat(t) BY <1>3, RepeatHeld
<1>4. CASE \E k \in Keys : Press(k) \/ Release(k) BY <1>4, HandHeld
<1>5. CASE OnTick \/ ContextLost \/ Rebound \/ UNCHANGED vars
  <2>1. /\ UNCHANGED <<wire, down, appDown, session, repeat, timers, overtaken, strayed, choice>>
        /\ trigger' \in {trigger, choice}
    BY <1>5 DEF OnTick, ContextLost, Rebound, vars, compositor, frontend, engine, history
  <2>2. /\ (Answered <=> Answered') /\ \A m : Pending(m)' <=> Pending(m)
    BY <2>1, UnreadSame
  <2>3. \A m : Excused(m) => Excused(m)' BY <2>1 DEF Excused
  <2> QED BY <2>1, <2>2, <2>3 DEF Held
<1> QED BY <1>1, <1>2, <1>3, <1>4, <1>5 DEF Next, Frontend, World

\* Every behaviour keeps it.
LEMMA HeldHolds == Spec => []Held
<1>1. Init => Held BY DEF Init, Held
<1>2. IInv /\ Held /\ [Next]_vars => Held' BY StepHeld
<1> QED BY <1>1, <1>2, Invariance, PTL DEF Spec

\* What repeats is a key that is down or whose release is still to be read, and
\* one timer beats for it, however many were cancelled before (on_repeat).
THEOREM OnlyHeldRepeats == Spec => []RepeatOnlyHeld
<1>1. Held => RepeatOnlyHeld
  <2> SUFFICES ASSUME Held, repeat # NoRepeat, ~overtaken
               PROVE  /\ repeat.key \in down \/ Unread(repeat.key, FALSE)
                      /\ Cardinality({t \in timers : Fires(t)}) = 1
    BY DEF RepeatOnlyHeld
  <2>1. {t \in timers : Fires(t)} = {repeat.generation} BY DEF Held, Fires
  <2>2. Cardinality({repeat.generation}) = 1 BY FS_Singleton
  <2> QED BY <2>1, <2>2 DEF Held, Pending
<1> QED BY <1>1, HeldHolds, PTL

\* When all is read the window believes no key to be down that is not, save one
\* whose release was on its way when its grab ended, a trigger and a latch
\* (deliver_key, route, replay).
THEOREM NoneStuck == Spec => []NoKeyStuck
<1>1. Held => NoKeyStuck
  <2>1. wire = <<>> => \A k : ~Unread(k, FALSE)
    <3>1. DOMAIN <<>> = {} BY EmptySeq, LenProperties
    <3> QED BY <3>1 DEF Unread
  <2> QED BY <2>1 DEF Held, NoKeyStuck, Pending, Excused
<1> QED BY <1>1, HeldHolds, PTL

=============================================================================
