---------------------------- MODULE DeliveryProofs ----------------------------
(***************************************************************************)
(* What holds of Delivery for any fields and any number of utterances,     *)
(* conversions, commands and moves of the world.                           *)
(***************************************************************************)
EXTENDS Delivery, SequenceTheorems, TLAPS

-----------------------------------------------------------------------------
(* The base: types, the engine's phases, the channel, the turns *)

Kinds     == {"Begin", "Partial", "Commit", "Cancel"}
Cmds(u)   == [cmd: Kinds, utt: 0..u]
Landings  == [text: Texts, part: {"final", "half"}, at: Fields \cup {"window"}]

\* What the engine has decided belongs to its phase.
Phases ==
  /\ phase # "rest" => utt # 0
  /\ decided = "Partial" => phase = "talking"
  /\ decided = "Commit" => phase = "closing"

\* Without a frontend the channel is empty; with one, what is in it is in the
\* order of the utterances and ends with the current one.
Channel ==
  /\ ~Attached => commands = <<>>
  /\ \A i, j \in DOMAIN commands : i < j => commands[i].utt <= commands[j].utt
  /\ commands # <<>> => commands[Len(commands)].utt = utt
  /\ \A i \in DOMAIN commands : commands[i].cmd # "Cancel" => commands[i].utt # 0

\* The microphone has the turn only in an active field, a recogniser's preedit
\* is there only while it has the turn, and only a conversion is to be kept.
Turns ==
  /\ turn = "Dictating" => here
  /\ held.text.of = "speech" => turn = "Dictating"
  /\ held.keep => held.text.of = "keys"
  /\ \A i \in DOMAIN signals : signals[i].of # "speech"
  /\ loop \in {"attached", "up", "over"} => (active <=> here)

Base == TypeOK /\ Phases /\ Channel /\ Turns

\* What sending does to a queue.
LEMMA Sent ==
  ASSUME NEW S, NEW s \in Seq(S), NEW e \in S
  PROVE  /\ Append(s, e) \in Seq(S)
         /\ Len(s) \in Nat /\ Len(Append(s, e)) = Len(s) + 1
         /\ DOMAIN s = 1..Len(s) /\ DOMAIN Append(s, e) = 1..Len(s) + 1
         /\ \A i \in 1..Len(s) : Append(s, e)[i] = s[i]
         /\ Append(s, e)[Len(s) + 1] = e
         /\ Append(s, e) # <<>>
  BY AppendProperties, LenProperties, EmptySeq

\* And receiving.
LEMMA Received ==
  ASSUME NEW S, NEW s \in Seq(S), s # <<>>
  PROVE  /\ Tail(s) \in Seq(S) /\ Head(s) \in S /\ Head(s) = s[1]
         /\ Len(s) \in Nat \ {0} /\ Len(Tail(s)) = Len(s) - 1
         /\ DOMAIN s = 1..Len(s) /\ DOMAIN Tail(s) = 1..Len(s) - 1
         /\ \A i \in 1..Len(s) - 1 : Tail(s)[i] = s[i + 1]
<1>1. Len(s) \in Nat /\ Len(s) # 0 BY LenProperties, EmptySeq
<1>2. Tail(s) \in Seq(S) /\ Head(s) \in S /\ Len(Tail(s)) = Len(s) - 1
      /\ \A i \in 1..Len(Tail(s)) : Tail(s)[i] = s[i + 1]
  BY HeadTailProperties
<1>3. Head(s) = s[1] BY SMT
<1>4. DOMAIN s = 1..Len(s) /\ DOMAIN Tail(s) = 1..Len(Tail(s)) BY <1>2, LenProperties
<1> QED BY <1>1, <1>2, <1>3, <1>4

\* What is sent alone.
LEMMA Single == ASSUME NEW S, NEW e \in S PROVE <<e>> \in Seq(S)
  OBVIOUS

\* An empty one has no entries.
LEMMA Emptied == ASSUME NEW S PROVE <<>> \in Seq(S) /\ DOMAIN <<>> = {} /\ Len(<<>>) = 0
  BY EmptySeq, LenProperties

\* The types with their sets named.
LEMMA TypesNamed ==
  TypeOK <=>
    /\ focus \in Fields \cup {"window"} /\ events \in Seq(BOOLEAN) /\ screen \in Texts
    /\ landed \in Seq(Landings) /\ moves \in 0..MaxMoves
    /\ phase \in {"rest", "talking", "closing"} /\ utt \in 0..MaxUtts
    /\ decided \in {"nothing", "Partial", "Commit"}
    /\ committed \in SUBSET (1..utt) /\ failed \in SUBSET (1..utt)
    /\ loop \in {"down", "attached", "up", "over", "unbound"}
    /\ active \in BOOLEAN /\ (active => Bound)
    /\ commands \in Seq(Cmds(utt))
    /\ here \in BOOLEAN /\ turn \in {"Forwarding", "Dictating"}
    /\ held \in [text: Texts, keep: BOOLEAN] /\ begun \in 0..utt
    /\ convs \in 0..MaxConvs /\ conv \in 0..convs
    /\ signals \in Seq(Texts)
    /\ moved \in SUBSET (0..utt) /\ gap \in SUBSET (1..utt) /\ dropped \in SUBSET (1..convs)
  BY DEF TypeOK, Cmds, Kinds, Landings

\* The texts there are.
LEMMA TextsTyped ==
  /\ NoText \in Texts /\ NoText.of = "none"
  /\ \A n \in Nat : /\ Speech(n) \in Texts /\ Speech(n).of = "speech" /\ Speech(n).n = n
                    /\ Typed(n) \in Texts /\ Typed(n).of = "keys"
  /\ NoPreedit \in [text: Texts, keep: BOOLEAN]
  /\ NoPreedit.text = NoText /\ NoPreedit.keep = FALSE
  BY DEF Texts, NoText, Speech, Typed, NoPreedit

\* A command goes to the end of the channel, if there is one.
LEMMA Sending ==
  ASSUME Base, NEW c \in Kinds, NEW u \in Nat, Send(c, u), loop' = loop,
         u = utt', utt' = utt \/ utt' = utt + 1, c # "Cancel" => u # 0
  PROVE  /\ commands' \in Seq(Cmds(utt')) /\ Channel'
         /\ DOMAIN commands = 1..Len(commands) /\ Len(commands) \in Nat
         /\ \/ ~Attached /\ commands' = <<>> /\ commands = <<>>
            \/ /\ Attached /\ commands' # <<>>
               /\ DOMAIN commands' = 1..Len(commands) + 1 /\ Len(commands') = Len(commands) + 1
               /\ \A i \in 1..Len(commands) : commands'[i] = commands[i]
               /\ commands'[Len(commands) + 1] = [cmd |-> c, utt |-> u]
<1> DEFINE e == [cmd |-> c, utt |-> u]
<1>1. utt \in Nat /\ commands \in Seq(Cmds(utt)) BY TypesNamed, BoundsAssumption DEF Base
<1>2. Cmds(utt) \subseteq Cmds(utt') /\ e \in Cmds(utt') BY <1>1 DEF Cmds
<1>3. commands \in Seq(Cmds(utt')) BY <1>1, <1>2, SeqMonotonic
<1>4. DOMAIN commands = 1..Len(commands) /\ Len(commands) \in Nat BY <1>1, LenProperties
<1>5. \A i \in 1..Len(commands) : commands[i] \in Cmds(utt) BY <1>1, ElementOfSeq
<1>6. Channel BY DEF Base
<1>7. CASE ~Attached
  <2>1. commands = <<>> /\ commands' = <<>> BY <1>6, <1>7 DEF Channel, Send
  <2>2. DOMAIN commands' = {} BY <2>1, Emptied
  <2>3. Channel' BY <2>1, <2>2 DEF Channel
  <2> QED BY <1>3, <1>4, <1>7, <2>1, <2>3
<1>8. CASE Attached
  <2>1. commands' = Append(commands, e) BY <1>8 DEF Send
  <2> HIDE DEF e
  <2>2. /\ commands' \in Seq(Cmds(utt')) /\ commands' # <<>>
        /\ DOMAIN commands' = 1..Len(commands) + 1 /\ Len(commands') = Len(commands) + 1
        /\ \A i \in 1..Len(commands) : commands'[i] = commands[i]
        /\ commands'[Len(commands) + 1] = e
    BY <1>2, <1>3, <2>1, Sent
  <2>3. e.cmd = c /\ e.utt = u BY DEF e
  <2>4. \A i \in 1..Len(commands) : commands[i].utt \in 0..utt BY <1>5 DEF Cmds
  <2>5. \A i, j \in DOMAIN commands' : i < j => commands'[i].utt <= commands'[j].utt
    <3> SUFFICES ASSUME NEW i \in DOMAIN commands', NEW j \in DOMAIN commands', i < j
                 PROVE  commands'[i].utt <= commands'[j].utt
      OBVIOUS
    <3>1. i \in 1..Len(commands) BY <1>4, <2>2
    <3>2. CASE j = Len(commands) + 1 BY <1>1, <2>2, <2>3, <2>4, <3>1, <3>2
    <3>3. CASE j # Len(commands) + 1
      <4>1. j \in 1..Len(commands) BY <1>4, <2>2, <3>3
      <4> QED BY <1>4, <1>6, <2>2, <3>1, <4>1 DEF Channel
    <3> QED BY <3>2, <3>3
  <2>6. \A i \in DOMAIN commands' : commands'[i].cmd # "Cancel" => commands'[i].utt # 0
    <3> SUFFICES ASSUME NEW i \in DOMAIN commands', commands'[i].cmd # "Cancel"
                 PROVE  commands'[i].utt # 0
      OBVIOUS
    <3>1. CASE i = Len(commands) + 1 BY <2>2, <2>3, <3>1
    <3>2. CASE i # Len(commands) + 1
      <4>1. i \in 1..Len(commands) BY <1>4, <2>2, <3>2
      <4> QED BY <1>4, <1>6, <2>2, <4>1 DEF Channel
    <3> QED BY <3>1, <3>2
  <2>7. Channel'
    <3>1. Attached' BY <1>8 DEF Attached
    <3>2. commands'[Len(commands')].utt = utt' BY <2>2, <2>3
    <3> QED BY <2>5, <2>6, <3>1, <3>2 DEF Channel
  <2> QED BY <1>4, <1>8, <2>2, <2>7 DEF e
<1> QED BY <1>7, <1>8

\* The frontend takes the command at the head; the others move up.
LEMMA Taking ==
  ASSUME Base, commands # <<>>, commands' = Tail(commands), UNCHANGED <<loop, utt>>
  PROVE  /\ commands' \in Seq(Cmds(utt')) /\ Channel'
         /\ 1 \in DOMAIN commands /\ Head(commands) = commands[1] /\ Head(commands) \in Cmds(utt)
         /\ DOMAIN commands = 1..Len(commands) /\ Len(commands) \in Nat
         /\ DOMAIN commands' = 1..Len(commands) - 1 /\ Len(commands') = Len(commands) - 1
         /\ \A i \in DOMAIN commands' : /\ i \in Nat /\ i + 1 \in DOMAIN commands /\ i + 1 # 1
                                       /\ commands'[i] = commands[i + 1]
         /\ \A i \in DOMAIN commands :
              i # 1 => i \in Nat /\ i - 1 \in DOMAIN commands' /\ (i - 1) + 1 = i
<1>1. commands \in Seq(Cmds(utt)) /\ Channel BY TypesNamed DEF Base
<1>2. /\ commands' \in Seq(Cmds(utt')) /\ Head(commands) = commands[1]
      /\ Head(commands) \in Cmds(utt)
      /\ DOMAIN commands = 1..Len(commands) /\ Len(commands) \in Nat \ {0}
      /\ DOMAIN commands' = 1..Len(commands) - 1 /\ Len(commands') = Len(commands) - 1
      /\ \A i \in 1..Len(commands) - 1 : commands'[i] = commands[i + 1]
  BY <1>1, Received
<1>3. \A i \in DOMAIN commands' : /\ i \in Nat /\ i + 1 \in DOMAIN commands /\ i + 1 # 1
                                 /\ commands'[i] = commands[i + 1]
  BY <1>2
<1>4. \A i, j \in DOMAIN commands' : i < j => commands'[i].utt <= commands'[j].utt
  <2> SUFFICES ASSUME NEW i \in DOMAIN commands', NEW j \in DOMAIN commands', i < j
               PROVE  commands'[i].utt <= commands'[j].utt
    OBVIOUS
  <2>1. i + 1 < j + 1 BY <1>3
  <2> QED BY <1>1, <1>3, <2>1 DEF Channel
<1>5. commands' # <<>> => commands'[Len(commands')].utt = utt'
  <2> SUFFICES ASSUME commands' # <<>> PROVE commands'[Len(commands')].utt = utt'
    OBVIOUS
  <2>1. Len(commands') # 0 BY <1>2, EmptySeq
  <2>2. Len(commands') \in DOMAIN commands' /\ Len(commands') + 1 = Len(commands) BY <1>2, <2>1
  <2> QED BY <1>1, <1>3, <2>2 DEF Channel
<1>6. ~Attached' => commands' = <<>> BY <1>1 DEF Channel, Attached
<1>7. Channel' BY <1>1, <1>3, <1>4, <1>5, <1>6 DEF Channel
<1>8. \A i \in DOMAIN commands :
        i # 1 => i \in Nat /\ i - 1 \in DOMAIN commands' /\ (i - 1) + 1 = i
  BY <1>2
<1>9. 1 \in DOMAIN commands BY <1>2
<1> QED BY <1>2, <1>3, <1>7, <1>8, <1>9

-----------------------------------------------------------------------------
(* The engine's steps *)

\* The engine starts an utterance.
LEMMA BeginBase == ASSUME Base, Begin PROVE Base'
<1> USE DEF Base
<1>1. /\ phase = "rest" /\ utt < MaxUtts /\ utt' = utt + 1 /\ phase' = "talking"
      /\ Send("Begin", utt + 1)
      /\ moved' = (IF Current THEN moved ELSE moved \cup {utt + 1})
      /\ UNCHANGED <<compositor, decided, committed, failed, loop, active,
                     frontend, ibus, gap, dropped>>
  BY DEF Begin
<1>2. utt \in Nat /\ utt' \in 0..MaxUtts /\ utt + 1 \in Nat /\ utt + 1 # 0
  BY <1>1, BoundsAssumption DEF TypeOK
<1>3. commands' \in Seq(Cmds(utt')) /\ Channel' BY <1>1, <1>2, Sending DEF Kinds
<1>4. moved' \in SUBSET (0..utt') BY <1>1, <1>2 DEF TypeOK
<1>5. /\ committed' \in SUBSET (1..utt') /\ failed' \in SUBSET (1..utt')
      /\ begun' \in 0..utt' /\ gap' \in SUBSET (1..utt')
  BY <1>1, <1>2 DEF TypeOK, frontend
<1>6. TypeOK'
  BY <1>1, <1>2, <1>3, <1>4, <1>5
  DEF TypeOK, Cmds, Kinds, compositor, frontend, ibus, Bound
<1>7. Phases' BY <1>1, <1>2 DEF Phases
<1>8. Turns' BY <1>1 DEF Turns, frontend, ibus
<1> QED BY <1>3, <1>6, <1>7, <1>8

\* The engine sends a command in its utterance.
LEMMA SendBase ==
  ASSUME Base, NEW c \in {"Partial", "Commit", "Cancel"}, Send(c, utt), c # "Cancel" => utt # 0,
         phase' \in {"rest", phase}, decided' = "nothing",
         committed' = committed \/ (utt # 0 /\ committed' = committed \cup {utt}),
         UNCHANGED <<compositor, utt, failed, loop, active, frontend, ibus, moved, gap, dropped>>
  PROVE  Base'
<1> USE DEF Base
<1>1. utt \in Nat BY BoundsAssumption DEF TypeOK
<1>2. commands' \in Seq(Cmds(utt')) /\ Channel' BY <1>1, Sending DEF Kinds
<1>3. committed' \in SUBSET (1..utt)
  <2>1. utt # 0 => utt \in 1..utt BY <1>1
  <2>2. committed \in SUBSET (1..utt) BY DEF TypeOK
  <2>3. CASE committed' = committed BY <2>2, <2>3
  <2>4. CASE utt # 0 /\ committed' = committed \cup {utt} BY <2>1, <2>2, <2>4
  <2> QED BY <2>3, <2>4
<1>4. TypeOK' BY <1>2, <1>3 DEF TypeOK, Cmds, Kinds, compositor, frontend, ibus, Bound
<1>5. Phases' BY DEF Phases
<1>6. Turns' BY DEF Turns, frontend, ibus
<1> QED BY <1>2, <1>4, <1>5, <1>6

\* Those that send nothing.
LEMMA QuietBase ==
  ASSUME Base, LookPartial \/ Close \/ LookCommit \/ TypeText \/ Fail
  PROVE  Base'
<1> USE DEF Base
<1>1. UNCHANGED <<focus, events, screen, moves, utt, committed, link, frontend, ibus,
                  moved, dropped>>
  BY DEF LookPartial, Close, LookCommit, TypeText, Fail, compositor
<1>2. /\ phase' \in {"rest", "talking", "closing"} /\ decided' \in {"nothing", "Partial", "Commit"}
      /\ Phases'
  BY DEF LookPartial, Close, LookCommit, TypeText, Fail, Phases, TypeOK
<1>3. utt \in Nat /\ (phase # "rest" => utt \in 1..utt)
  BY BoundsAssumption DEF TypeOK, Phases
<1>4. gap' \in SUBSET (1..utt) /\ failed' \in SUBSET (1..utt)
  BY <1>3 DEF LookPartial, Close, LookCommit, TypeText, Fail, TypeOK
<1>5. landed' \in Seq(Landings)
  <2>1. landed \in Seq(Landings) BY TypesNamed
  <2>2. CASE TypeText
    <3>1. [text |-> Speech(utt), part |-> "final", at |-> focus] \in Landings
      BY <1>3, TextsTyped DEF Landings, TypeOK
    <3> QED BY <2>1, <2>2, <3>1, Sent DEF TypeText
  <2>3. CASE ~TypeText
    BY <2>1, <2>3 DEF LookPartial, Close, LookCommit, Fail, compositor
  <2> QED BY <2>2, <2>3
<1>6. TypeOK' BY <1>1, <1>2, <1>4, <1>5 DEF TypeOK, Landings, link, frontend, ibus, Bound
<1>7. Channel' BY <1>1 DEF Channel, Attached, link
<1>8. Turns' BY <1>1 DEF Turns, frontend, ibus, link
<1> QED BY <1>2, <1>6, <1>7, <1>8

\* All steps of the engine.
LEMMA EngineBase == ASSUME Base, Engine PROVE Base'
<1>1. CASE Begin BY <1>1, BeginBase
<1>2. CASE SendPartial
  <2>1. utt # 0 BY <1>2 DEF SendPartial, Base, Phases
  <2> QED BY <1>2, <2>1, SendBase DEF SendPartial
<1>3. CASE SendCommit
  <2>1. utt # 0 BY <1>3 DEF SendCommit, Base, Phases
  <2> QED BY <1>3, <2>1, SendBase DEF SendCommit, SentBy, compositor
<1>4. CASE CancelUtterance BY <1>4, SendBase DEF CancelUtterance
<1>5. CASE LookPartial \/ Close \/ LookCommit \/ TypeText \/ Fail BY <1>5, QuietBase
<1> QED BY <1>1, <1>2, <1>3, <1>4, <1>5 DEF Engine

-----------------------------------------------------------------------------
(* The frontend's steps *)

\* A preedit shown is the one recorded, and only a conversion is to be kept.
LEMMA PreeditSet ==
  ASSUME TypeOK, NEW t \in Texts, SetPreedit(t)
  PROVE  /\ screen' \in Texts /\ held' \in [text: Texts, keep: BOOLEAN]
         /\ held'.text = t /\ (held'.keep => held'.text.of = "keys")
<1>1. screen' \in Texts BY DEF SetPreedit, Show, TypeOK
<1>2. CASE t = NoText BY <1>1, <1>2, TextsTyped DEF SetPreedit
<1>3. CASE t # NoText BY <1>1, <1>3 DEF SetPreedit, Keep
<1> QED BY <1>2, <1>3

\* A text that lands is one.
LEMMA LandTyped ==
  ASSUME TypeOK, NEW t \in Texts, NEW p \in {"final", "half"}, Land(t, p)
  PROVE  landed' \in Seq(Landings)
<1>1. landed \in Seq(Landings) BY TypesNamed
<1>2. CASE focus \in Fields
  <2>1. [text |-> t, part |-> p, at |-> focus] \in Landings BY <1>2 DEF Landings
  <2> QED BY <1>1, <1>2, <2>1, Sent DEF Land
<1>3. CASE focus \notin Fields BY <1>1, <1>3 DEF Land
<1> QED BY <1>2, <1>3

\* A reset leaves IBus without a conversion.
LEMMA ResetTyped ==
  ASSUME TypeOK, Turns, Reset
  PROVE  /\ conv' = 0 /\ signals' \in Seq(Texts)
         /\ \A i \in DOMAIN signals' : signals'[i].of # "speech"
<1>1. signals \in Seq(Texts) BY TypesNamed
<1>2. CASE conv = 0 BY <1>1, <1>2 DEF Reset, Turns
<1>3. CASE conv # 0
  <2>1. signals' = Append(signals, NoText) BY <1>3 DEF Reset
  <2>2. \A i \in DOMAIN signals' : \/ i \in DOMAIN signals /\ signals'[i] = signals[i]
                                   \/ signals'[i] = NoText
    BY <1>1, <2>1, Sent, TextsTyped
  <2> QED BY <1>1, <2>1, <2>2, Sent, TextsTyped DEF Turns, Reset
<1> QED BY <1>2, <1>3

\* What a command does to what the user sees, and to the turn.
LEMMA CommandTurns ==
  ASSUME Base, NEW u \in 0..utt,
         OnBegin(u) \/ OnPartial(u) \/ OnCommit(u) \/ OnCancel,
         UNCHANGED <<here, loop, active, convs>>
  PROVE  /\ screen' \in Texts /\ landed' \in Seq(Landings)
         /\ turn' \in {"Forwarding", "Dictating"} /\ held' \in [text: Texts, keep: BOOLEAN]
         /\ begun' \in 0..utt /\ conv' \in 0..convs /\ signals' \in Seq(Texts)
         /\ dropped' \in SUBSET (1..convs) /\ Turns'
<1> USE DEF Base
<1>1. /\ landed \in Seq(Landings) /\ signals \in Seq(Texts) /\ screen \in Texts
      /\ held \in [text: Texts, keep: BOOLEAN] /\ turn \in {"Forwarding", "Dictating"}
      /\ held.text \in Texts /\ utt \in Nat /\ convs \in Nat /\ conv \in 0..convs
      /\ begun \in 0..utt /\ dropped \in SUBSET (1..convs) /\ here \in BOOLEAN
  BY TypesNamed, BoundsAssumption
<1>2. CASE OnBegin(u)
  <2>1. CASE /\ here /\ begun' = u /\ Flush /\ held' = NoPreedit /\ Reset
             /\ dropped' = (IF conv # 0 /\ ~held.keep THEN dropped \cup {conv} ELSE dropped)
             /\ turn' = "Dictating"
    <3>1. landed' \in Seq(Landings) /\ screen' \in Texts
      <4>1. CASE held.keep
        <5>1. held.text.of = "keys" BY <4>1 DEF Turns
        <5>2. Land(held.text, "final") /\ Show(NoText) BY <2>1, <4>1, <5>1 DEF Flush
        <5> QED BY <1>1, <5>2, LandTyped, TextsTyped DEF Show
      <4>2. CASE ~held.keep BY <1>1, <2>1, <4>2 DEF Flush
      <4> QED BY <4>1, <4>2
    <3>2. /\ conv' = 0 /\ signals' \in Seq(Texts)
          /\ \A i \in DOMAIN signals' : signals'[i].of # "speech"
      BY <2>1, ResetTyped
    <3>3. dropped' \in SUBSET (1..convs) BY <1>1, <2>1
    <3>4. Turns' BY <2>1, <3>2, TextsTyped DEF Turns
    <3> QED BY <1>1, <2>1, <3>1, <3>2, <3>3, <3>4, TextsTyped
  <2>2. CASE ~here /\ UNCHANGED <<landed, screen, held, begun, conv, signals, dropped, turn>>
    BY <1>1, <2>2 DEF Turns
  <2> QED BY <1>2, <2>1, <2>2 DEF OnBegin
<1>3. CASE OnPartial(u)
  <2>1. CASE turn = "Dictating" /\ here /\ SetPreedit(Speech(u))
    <3>1. Speech(u) \in Texts BY <1>1, TextsTyped
    <3> QED BY <1>1, <1>3, <2>1, <3>1, PreeditSet DEF OnPartial, Turns
  <2>2. CASE UNCHANGED <<screen, held>> BY <1>1, <1>3, <2>2 DEF OnPartial, Turns
  <2> QED BY <1>3, <2>1, <2>2 DEF OnPartial
<1>4. CASE OnCommit(u)
  <2>1. CASE here /\ Land(Speech(u), "final") /\ SetPreedit(NoText)
    <3>1. Speech(u) \in Texts BY <1>1, TextsTyped
    <3>2. landed' \in Seq(Landings) BY <2>1, <3>1, LandTyped
    <3> QED BY <1>1, <1>4, <2>1, <3>2, PreeditSet, TextsTyped DEF OnCommit, Turns
  <2>2. CASE ~here /\ UNCHANGED <<landed, screen, held>> BY <1>1, <1>4, <2>2 DEF OnCommit, Turns
  <2> QED BY <1>4, <2>1, <2>2 DEF OnCommit, Honours
<1>5. CASE OnCancel
  <2>1. CASE turn = "Dictating" /\ SetPreedit(NoText)
    BY <1>1, <1>5, <2>1, PreeditSet, TextsTyped DEF OnCancel, Turns
  <2>2. CASE turn = "Forwarding" /\ UNCHANGED <<screen, held>>
    BY <1>1, <1>5, <2>2 DEF OnCancel, Turns
  <2> QED BY <1>5, <2>1, <2>2 DEF OnCancel, Clears
<1> QED BY <1>2, <1>3, <1>4, <1>5

\* The frontend handles a command.
LEMMA CommandBase == ASSUME Base, OnCommand PROVE Base'
<1> USE DEF Base
<1> DEFINE u == Head(commands).utt
<1>1. /\ commands # <<>> /\ commands' = Tail(commands)
      /\ OnBegin(u) \/ OnPartial(u) \/ OnCommit(u) \/ OnCancel
      /\ UNCHANGED <<focus, events, moves, engine, loop, active, here, convs, moved, gap>>
  BY DEF OnCommand
<1>2. /\ commands' \in Seq(Cmds(utt')) /\ Channel' /\ u \in 0..utt
  <2>1. commands' \in Seq(Cmds(utt')) /\ Channel' /\ Head(commands) \in Cmds(utt)
    BY <1>1, Taking DEF engine
  <2> QED BY <2>1 DEF Cmds
<1> HIDE DEF u
<1>3. /\ screen' \in Texts /\ landed' \in Seq(Landings)
      /\ turn' \in {"Forwarding", "Dictating"} /\ held' \in [text: Texts, keep: BOOLEAN]
      /\ begun' \in 0..utt /\ conv' \in 0..convs /\ signals' \in Seq(Texts)
      /\ dropped' \in SUBSET (1..convs) /\ Turns'
  BY <1>1, <1>2, CommandTurns
<1>4. TypeOK' BY <1>1, <1>2, <1>3 DEF TypeOK, Cmds, Kinds, Landings, engine, Bound
<1>5. Phases' BY <1>1 DEF Phases, engine
<1> QED BY <1>2, <1>3, <1>4, <1>5

\* It hears of an activation.
LEMMA DoneBase == ASSUME Base, OnDone PROVE Base'
<1> USE DEF Base
<1>1. /\ loop = "up" /\ events # <<>> /\ here' = Head(events) /\ active' = Head(events)
      /\ begun' = 0 /\ events' = Tail(events) /\ held' = NoPreedit
      /\ UNCHANGED <<focus, screen, landed, moves, engine, loop, commands, convs,
                     moved, gap, dropped>>
  BY DEF OnDone, Activate, Deactivate
<1>2. \/ ~here /\ Head(events) /\ UNCHANGED <<turn, conv, signals>>
      \/ here /\ ~Head(events) /\ turn' = "Forwarding" /\ Reset
  BY DEF OnDone, Activate, Deactivate, TurnEnds
<1>3. events' \in Seq(BOOLEAN) /\ Head(events) \in BOOLEAN BY <1>1, Received DEF TypeOK
<1>4. turn' = "Forwarding" BY <1>2 DEF Turns, TypeOK
<1>5. /\ conv' \in 0..convs /\ signals' \in Seq(Texts)
      /\ \A i \in DOMAIN signals' : signals'[i].of # "speech"
  <2>1. CASE UNCHANGED <<conv, signals>> BY <2>1 DEF TypeOK, Turns
  <2>2. CASE Reset
    <3>1. convs \in Nat BY BoundsAssumption DEF TypeOK
    <3> QED BY <2>2, <3>1, ResetTyped
  <2> QED BY <1>2, <2>1, <2>2
<1>6. utt \in Nat BY BoundsAssumption DEF TypeOK
<1>7. TypeOK'
  BY <1>1, <1>3, <1>4, <1>5, <1>6, TextsTyped DEF TypeOK, engine, Bound
<1>8. Channel' BY <1>1 DEF Channel, Attached, engine
<1>9. Turns' BY <1>1, <1>3, <1>4, <1>5, TextsTyped DEF Turns
<1>10. Phases' BY <1>1 DEF Phases, engine
<1> QED BY <1>7, <1>8, <1>9, <1>10

\* Keys and IBus change the preedit, to no recogniser's.
LEMMA KeysBase ==
  ASSUME Base, NEW t \in Texts, t.of # "speech", SetPreedit(t),
         landed' \in Seq(Landings), convs' \in 0..MaxConvs, convs <= convs', conv' \in 0..convs',
         signals' \in Seq(Texts), \A i \in DOMAIN signals' : signals'[i].of # "speech",
         UNCHANGED <<focus, events, moves, engine, link, here, turn, begun, moved, gap, dropped>>
  PROVE  Base'
<1> USE DEF Base
<1>1. /\ screen' \in Texts /\ held' \in [text: Texts, keep: BOOLEAN]
      /\ held'.text = t /\ (held'.keep => held'.text.of = "keys")
  BY PreeditSet
<1>2. convs \in Nat /\ convs' \in Nat BY BoundsAssumption DEF TypeOK
<1>3. dropped' \in SUBSET (1..convs') BY <1>2 DEF TypeOK
<1>4. TypeOK' BY <1>1, <1>2, <1>3 DEF TypeOK, Landings, engine, link, Bound
<1>5. Phases' /\ Channel' BY DEF Phases, Channel, Attached, engine, link
<1>6. Turns' BY <1>1 DEF Turns, link
<1> QED BY <1>4, <1>5, <1>6

\* The frontend's steps, and IBus's own.
LEMMA FrontendBase == ASSUME Base, Frontend \/ IbusUpdates PROVE Base'
<1> USE DEF Base
<1>1. /\ landed \in Seq(Landings) /\ signals \in Seq(Texts)
      /\ convs \in Nat /\ convs <= MaxConvs /\ MaxConvs \in Nat /\ conv \in 0..convs
      /\ \A i \in DOMAIN signals : signals[i].of # "speech"
  BY TypesNamed, BoundsAssumption DEF Turns
<1>2. CASE OnCommand BY <1>2, CommandBase
<1>3. CASE OnDone BY <1>3, DoneBase
<1>4. CASE KeyComposes
  <2>1. convs' \in 0..MaxConvs /\ convs <= convs' /\ conv' \in 0..convs'
    BY <1>1, <1>4 DEF KeyComposes
  <2>2. Typed(conv') \in Texts /\ Typed(conv').of # "speech" BY <2>1, TextsTyped
  <2> QED BY <1>1, <1>4, <2>1, <2>2, KeysBase DEF KeyComposes
<1>5. CASE KeyCommits
  <2>1. Typed(conv) \in Texts BY <1>1, TextsTyped
  <2>2. landed' \in Seq(Landings) BY <1>5, <2>1, LandTyped DEF KeyCommits
  <2> QED BY <1>1, <1>5, <2>2, KeysBase, TextsTyped DEF KeyCommits
<1>6. CASE OnUpstream
  <2>1. /\ signals # <<>> /\ signals' = Tail(signals) /\ SetPreedit(Head(signals))
    BY <1>6 DEF OnUpstream
  <2>2. /\ signals' \in Seq(Texts) /\ Head(signals) \in Texts /\ Head(signals).of # "speech"
        /\ \A i \in DOMAIN signals' : signals'[i].of # "speech"
    BY <1>1, <2>1, Received
  <2>3. /\ landed' = landed /\ convs' = convs /\ conv' = conv
        /\ UNCHANGED <<focus, events, moves, engine, link, here, turn, begun, moved, gap, dropped>>
    BY <1>6 DEF OnUpstream
  <2> QED BY <1>1, <2>1, <2>2, <2>3, KeysBase
<1>7. CASE IbusUpdates
  <2>1. signals' = <<Typed(conv)>> /\ Typed(conv) \in Texts /\ Typed(conv).of = "keys"
    BY <1>1, <1>7, TextsTyped DEF IbusUpdates
  <2>2. /\ signals' \in Seq(Texts) /\ \A i \in DOMAIN signals' : signals'[i].of # "speech"
    BY <2>1
  <2>3. UNCHANGED <<compositor, engine, link, frontend, conv, convs, moved, gap, dropped>>
    BY <1>7 DEF IbusUpdates
  <2>4. TypeOK'
    BY <2>2, <2>3 DEF TypeOK, compositor, engine, link, frontend, Bound
  <2>5. Phases' /\ Channel' BY <2>3 DEF Phases, Channel, Attached, engine, link
  <2>6. Turns' BY <2>2, <2>3 DEF Turns, link, frontend
  <2> QED BY <2>4, <2>5, <2>6
<1> QED BY <1>2, <1>3, <1>4, <1>5, <1>6, <1>7 DEF Frontend

-----------------------------------------------------------------------------
(* The world and the frontend's life *)

\* What is in progress is an utterance.
LEMMA WorldTyped ==
  ASSUME Base, WorldMoves
  PROVE  /\ moves' \in 0..MaxMoves /\ moved' \in SUBSET (0..utt) /\ gap' \in SUBSET (1..utt)
<1> USE DEF Base
<1>1. /\ utt \in Nat /\ commands \in Seq(Cmds(utt)) /\ moves \in 0..MaxMoves /\ MaxMoves \in Nat
      /\ moved \in SUBSET (0..utt) /\ gap \in SUBSET (1..utt)
  BY TypesNamed, BoundsAssumption
<1>2. \A i \in DOMAIN commands : commands[i].utt \in 0..utt
  <2>1. \A i \in DOMAIN commands : commands[i] \in Cmds(utt)
    BY <1>1, ElementOfSeq, LenProperties
  <2> QED BY <2>1 DEF Cmds
<1>3. InProgress \subseteq 0..utt BY <1>1, <1>2 DEF InProgress
<1>4. InTheGap \subseteq 1..utt
  <2>1. decided = "Commit" => utt \in 1..utt BY <1>1 DEF Phases
  <2>2. \A i \in DOMAIN commands : commands[i].cmd = "Commit" => commands[i].utt \in 1..utt
    BY <1>1, <1>2 DEF Channel
  <2> QED BY <2>1, <2>2 DEF InTheGap
<1> QED BY <1>1, <1>3, <1>4 DEF WorldMoves

\* Focus moves.
LEMMA FocusBase == ASSUME Base, NEW f \in Fields \cup {"window"}, FocusMoves(f) PROVE Base'
<1> USE DEF Base
<1>1. moves' \in 0..MaxMoves /\ moved' \in SUBSET (0..utt) /\ gap' \in SUBSET (1..utt)
  BY WorldTyped DEF FocusMoves
<1>2. /\ focus' = f /\ screen' = NoText
      /\ UNCHANGED <<landed, engine, link, frontend, ibus, dropped>>
  BY DEF FocusMoves
<1>3. events' \in Seq(BOOLEAN)
  <2> DEFINE off == IF focus \in Fields THEN <<FALSE>> ELSE <<>>
             on  == IF f \in Fields THEN <<TRUE>> ELSE <<>>
  <2>1. off \in Seq(BOOLEAN) /\ on \in Seq(BOOLEAN) /\ <<>> \in Seq(BOOLEAN)
    BY Single, Emptied
  <2>2. events' = (IF ~Attached THEN <<>> ELSE events \o off \o on) BY DEF FocusMoves
  <2> HIDE DEF off, on
  <2>3. events \o off \in Seq(BOOLEAN) BY <2>1, ConcatProperties DEF TypeOK
  <2>4. (events \o off) \o on \in Seq(BOOLEAN) BY <2>1, <2>3, ConcatProperties
  <2> QED BY <2>1, <2>2, <2>4
<1>4. TypeOK'
  BY <1>1, <1>2, <1>3, TextsTyped DEF TypeOK, engine, link, frontend, ibus, Bound
<1>5. Phases' /\ Channel' BY <1>2 DEF Phases, Channel, Attached, engine, link
<1>6. Turns' BY <1>2 DEF Turns, link, frontend, ibus
<1> QED BY <1>4, <1>5, <1>6

\* The frontend comes and goes.
LEMMA SupervisorBase == ASSUME Base, Supervisor PROVE Base'
<1> USE DEF Base
<1>1. CASE Attach
  <2>1. /\ loop = "down" /\ loop' = "attached" /\ here' = FALSE /\ turn' = "Forwarding"
        /\ held' = NoPreedit /\ begun' = 0
        /\ UNCHANGED <<focus, screen, landed, moves, engine, active, commands, ibus,
                       moved, gap, dropped>>
    BY <1>1 DEF Attach
  <2>2. events' \in Seq(BOOLEAN) /\ active = FALSE
    <3>1. active = FALSE BY <2>1 DEF TypeOK, Bound
    <3>2. CASE focus \in Fields BY <1>1, <3>1, <3>2, Single DEF Attach
    <3>3. CASE focus \notin Fields BY <1>1, <3>1, <3>3, Emptied DEF Attach
    <3> QED BY <3>2, <3>3
  <2>3. utt \in Nat BY BoundsAssumption DEF TypeOK
  <2>4. commands = <<>> /\ DOMAIN commands' = {} BY <2>1, Emptied DEF Channel, Attached
  <2>5. TypeOK'
    <3>1. begun' \in 0..utt' BY <2>1, <2>3 DEF engine
    <3>2. ~active' /\ active' = active BY <2>1, <2>2, Zenon
    <3>3. held' \in [text: Texts, keep: BOOLEAN] BY <2>1, TextsTyped
    <3> QED BY <2>1, <2>2, <3>1, <3>2, <3>3 DEF TypeOK, engine, ibus, Bound
  <2>6. Phases' BY <2>1 DEF Phases, engine
  <2>7. Channel' BY <2>1, <2>4 DEF Channel
  <2>8. Turns' BY <2>1, <2>2, TextsTyped DEF Turns, ibus
  <2> QED BY <2>5, <2>6, <2>7, <2>8
<1>2. CASE SetBound
  <2>1. loop = "attached" /\ loop' = "up"
        /\ UNCHANGED <<compositor, engine, active, commands, frontend, ibus, moved, gap, dropped>>
    BY <1>2 DEF SetBound
  <2>2. TypeOK' BY <2>1 DEF TypeOK, compositor, engine, frontend, ibus, Bound
  <2>3. Phases' /\ Channel' BY <2>1 DEF Phases, Channel, Attached, engine
  <2>4. Turns' BY <2>1 DEF Turns, frontend, ibus
  <2> QED BY <2>2, <2>3, <2>4
<1>3. CASE LoopEnds
  <2>1. loop = "up" /\ loop' = "over" /\ WorldMoves
        /\ UNCHANGED <<focus, events, screen, landed, engine, active, commands,
                       frontend, ibus, dropped>>
    BY <1>3 DEF LoopEnds
  <2>2. moves' \in 0..MaxMoves /\ moved' \in SUBSET (0..utt) /\ gap' \in SUBSET (1..utt)
    BY <2>1, WorldTyped
  <2>3. TypeOK' BY <2>1, <2>2 DEF TypeOK, engine, frontend, ibus, Bound
  <2>4. Phases' /\ Channel' BY <2>1 DEF Phases, Channel, Attached, engine
  <2>5. Turns' BY <2>1 DEF Turns, frontend, ibus
  <2> QED BY <2>3, <2>4, <2>5
<1>4. CASE Unbind
  <2>1. loop = "over" /\ loop' = "unbound" /\ active' = FALSE
        /\ UNCHANGED <<compositor, engine, commands, frontend, ibus, moved, gap, dropped>>
    BY <1>4 DEF Unbind, Withdrawn
  <2>2. TypeOK' BY <2>1 DEF TypeOK, compositor, engine, frontend, ibus, Bound
  <2>3. Phases' /\ Channel' BY <2>1 DEF Phases, Channel, Attached, engine
  <2>4. Turns' BY <2>1 DEF Turns, frontend, ibus
  <2> QED BY <2>2, <2>3, <2>4
<1>5. CASE Detach
  <2>1. /\ loop = "unbound" /\ loop' = "down" /\ commands' = <<>> /\ screen' = NoText
        /\ events' = <<>> /\ conv' = 0 /\ signals' = <<>>
        /\ UNCHANGED <<focus, landed, moves, engine, active, frontend, convs, moved, gap, dropped>>
    BY <1>5 DEF Detach
  <2>2. active = FALSE /\ convs \in Nat BY <2>1, BoundsAssumption DEF TypeOK, Bound
  <2>3. DOMAIN commands' = {} /\ DOMAIN signals' = {} /\ signals' \in Seq(Texts)
        /\ events' \in Seq(BOOLEAN) /\ commands' \in Seq(Cmds(utt'))
    BY <2>1, Emptied
  <2>4. TypeOK'
    BY <2>1, <2>2, <2>3, TextsTyped DEF TypeOK, Cmds, Kinds, engine, frontend, Bound
  <2>5. Phases' BY <2>1 DEF Phases, engine
  <2>6. Channel' BY <2>1, <2>3 DEF Channel
  <2>7. Turns' BY <2>1, <2>3 DEF Turns, frontend
  <2> QED BY <2>4, <2>5, <2>6, <2>7
<1> QED BY <1>1, <1>2, <1>3, <1>4, <1>5 DEF Supervisor

\* Nothing has happened.
LEMMA InitBase == Init => Base
<1> SUFFICES ASSUME Init PROVE Base OBVIOUS
<1>1. /\ DOMAIN commands = {} /\ DOMAIN signals = {} /\ commands \in Seq(Cmds(utt))
      /\ signals \in Seq(Texts) /\ events \in Seq(BOOLEAN) /\ landed \in Seq(Landings)
  BY Emptied DEF Init
<1>2. TypeOK
  <2>1. /\ utt \in 0..MaxUtts /\ begun \in 0..utt /\ moves \in 0..MaxMoves
        /\ convs \in 0..MaxConvs /\ conv \in 0..convs
    BY BoundsAssumption DEF Init
  <2>2. /\ committed \in SUBSET (1..utt) /\ failed \in SUBSET (1..utt)
        /\ moved \in SUBSET (0..utt) /\ gap \in SUBSET (1..utt) /\ dropped \in SUBSET (1..convs)
    BY DEF Init
  <2>3. /\ focus \in Fields \cup {"window"} /\ screen \in Texts
        /\ phase \in {"rest", "talking", "closing"} /\ decided \in {"nothing", "Partial", "Commit"}
        /\ loop \in {"down", "attached", "up", "over", "unbound"}
        /\ active \in BOOLEAN /\ (active => Bound) /\ here \in BOOLEAN
        /\ turn \in {"Forwarding", "Dictating"} /\ held \in [text: Texts, keep: BOOLEAN]
    BY TextsTyped DEF Init
  <2> QED BY <1>1, <2>1, <2>2, <2>3, TypesNamed
<1>3. Phases BY DEF Init, Phases
<1>4. Channel BY <1>1 DEF Init, Channel
<1>5. Turns BY <1>1, TextsTyped DEF Init, Turns
<1> QED BY <1>2, <1>3, <1>4, <1>5 DEF Base

\* Every step preserves the base.
LEMMA StepBase == ASSUME Base, [Next]_vars PROVE Base'
<1>1. CASE Engine BY <1>1, EngineBase
<1>2. CASE Frontend \/ IbusUpdates BY <1>2, FrontendBase
<1>3. CASE Supervisor BY <1>3, SupervisorBase
<1>4. CASE \E f \in Fields \cup {"window"} : FocusMoves(f) BY <1>4, FocusBase
<1>5. CASE UNCHANGED vars
  <2>1. TypeOK'
    BY <1>5 DEF vars, compositor, engine, link, frontend, ibus, Base, TypeOK, Bound
  <2>2. Phases' /\ Channel' /\ Turns'
    BY <1>5 DEF vars, engine, link, frontend, ibus, Base, Phases, Channel, Turns, Attached
  <2> QED BY <2>1, <2>2 DEF Base
<1> QED BY <1>1, <1>2, <1>3, <1>4, <1>5 DEF Next, World

\* Every behaviour keeps the base.
LEMMA BaseHolds == Spec => []Base
<1>1. Base /\ [Next]_vars => Base' BY StepBase
<1> QED BY <1>1, InitBase, PTL DEF Spec

\* Every variable of the delivery keeps its type, and no field is published
\* without a frontend (command.rs, set_bound).
THEOREM TypeCorrect == Spec => []TypeOK
<1>1. Base => TypeOK BY DEF Base
<1> QED BY <1>1, BaseHolds, PTL

-----------------------------------------------------------------------------
(* No text lands twice *)

Spoken(i)   == landed[i].text.of = "speech"
IsCommit(k) == commands[k].cmd = "Commit"

\* An utterance has landed, or its commit is in the channel, or neither, and
\* the current one has done either only when the engine is through with it.
Landing ==
  /\ \A i \in DOMAIN landed : Spoken(i) =>
       /\ landed[i].part = "final"
       /\ landed[i].text.n <= utt
       /\ landed[i].text.n = utt => phase = "rest"
  /\ \A i, j \in DOMAIN landed :
       Spoken(i) /\ Spoken(j) /\ landed[i].text.n = landed[j].text.n => i = j
  /\ \A k \in DOMAIN commands : IsCommit(k) /\ commands[k].utt = utt => phase = "rest"
  /\ \A k, l \in DOMAIN commands :
       IsCommit(k) /\ IsCommit(l) /\ commands[k].utt = commands[l].utt => k = l
  /\ \A i \in DOMAIN landed, k \in DOMAIN commands :
       Spoken(i) /\ IsCommit(k) => landed[i].text.n # commands[k].utt

\* The channel may gain what is no commit, lose its head or all; the engine goes on.
Onward ==
  /\ \E d \in {0, 1} : \A k \in DOMAIN commands' : IsCommit(k)' =>
       k + d \in DOMAIN commands /\ commands[k + d] = commands'[k]
  /\ \/ utt' = utt /\ (phase = "rest" => phase' = "rest")
     \/ utt' = utt + 1

\* No new speech lands.
Silent == \A i \in DOMAIN landed' : Spoken(i)' => i \in DOMAIN landed /\ landed'[i] = landed[i]

\* What the numbers are.
LEMMA Numbers ==
  ASSUME Base
  PROVE  /\ utt \in Nat
         /\ \A i \in DOMAIN landed : landed[i].text \in Texts /\ landed[i].text.n \in Nat
         /\ \A k \in DOMAIN commands : commands[k].utt \in 0..utt /\ k \in Nat
<1>1. utt \in Nat /\ landed \in Seq(Landings) /\ commands \in Seq(Cmds(utt))
  BY TypesNamed, BoundsAssumption DEF Base
<1>2. \A i \in DOMAIN landed : landed[i] \in Landings BY <1>1, ElementOfSeq, LenProperties
<1>3. \A i \in DOMAIN landed : landed[i].text \in Texts BY <1>2 DEF Landings
<1>4. \A t \in Texts : t.n \in Nat BY DEF Texts
<1>5. DOMAIN commands = 1..Len(commands) /\ Len(commands) \in Nat BY <1>1, LenProperties
<1>6. \A k \in DOMAIN commands : commands[k] \in Cmds(utt) BY <1>1, <1>5, ElementOfSeq
<1>7. \A k \in DOMAIN commands : commands[k].utt \in 0..utt BY <1>6 DEF Cmds
<1> QED BY <1>1, <1>3, <1>4, <1>5, <1>7

\* So after a step.
LEMMA NumbersAfter ==
  ASSUME Base' PROVE utt' \in Nat /\ \A k \in DOMAIN commands' : k \in Nat
<1>1. utt' \in Nat /\ commands' \in Seq(Cmds(utt'))
  BY BoundsAssumption DEF Base, TypeOK, Cmds, Kinds
<1> QED BY <1>1, LenProperties

\* A step that lands no speech and sends no commit.
LEMMA SilentLanding == ASSUME Base, Base', Landing, Onward, Silent PROVE Landing'
<1>1. PICK d \in {0, 1} : \A k \in DOMAIN commands' : IsCommit(k)' =>
        k + d \in DOMAIN commands /\ commands[k + d] = commands'[k]
  BY DEF Onward
<1>2. /\ utt \in Nat /\ \A i \in DOMAIN landed : landed[i].text.n \in Nat
      /\ \A k \in DOMAIN commands : commands[k].utt \in 0..utt /\ k \in Nat
      /\ \A k \in DOMAIN commands' : k \in Nat
  BY Numbers, NumbersAfter
<1>3. \A i \in DOMAIN landed' : Spoken(i)' =>
        i \in DOMAIN landed /\ landed'[i] = landed[i] /\ Spoken(i)
  BY DEF Silent, Spoken
<1>4. \A k \in DOMAIN commands' : IsCommit(k)' =>
        k + d \in DOMAIN commands /\ commands[k + d] = commands'[k] /\ IsCommit(k + d)
  BY <1>1 DEF IsCommit
<1>5. \A n \in 0..utt : n = utt' => n = utt /\ utt' = utt BY <1>2 DEF Onward
<1>6. \A i \in DOMAIN landed' : Spoken(i)' =>
        /\ landed'[i].part = "final" /\ landed'[i].text.n <= utt'
        /\ landed'[i].text.n = utt' => phase' = "rest"
  <2> SUFFICES ASSUME NEW i \in DOMAIN landed', Spoken(i)'
               PROVE  /\ landed'[i].part = "final" /\ landed'[i].text.n <= utt'
                      /\ landed'[i].text.n = utt' => phase' = "rest"
    OBVIOUS
  <2>1. /\ i \in DOMAIN landed /\ landed'[i] = landed[i] /\ landed[i].part = "final"
        /\ landed[i].text.n <= utt /\ landed[i].text.n \in Nat
        /\ landed[i].text.n = utt => phase = "rest"
    BY <1>2, <1>3 DEF Landing
  <2> QED BY <1>2, <1>5, <2>1 DEF Onward
<1>7. \A i, j \in DOMAIN landed' :
        Spoken(i)' /\ Spoken(j)' /\ landed'[i].text.n = landed'[j].text.n => i = j
  BY <1>3 DEF Landing
<1>8. \A k \in DOMAIN commands' : IsCommit(k)' /\ commands'[k].utt = utt' => phase' = "rest"
  BY <1>2, <1>4, <1>5 DEF Landing, Onward
<1>9. \A k, l \in DOMAIN commands' :
        IsCommit(k)' /\ IsCommit(l)' /\ commands'[k].utt = commands'[l].utt => k = l
  <2> SUFFICES ASSUME NEW k \in DOMAIN commands', NEW l \in DOMAIN commands',
                      IsCommit(k)', IsCommit(l)', commands'[k].utt = commands'[l].utt
               PROVE  k = l
    OBVIOUS
  <2>1. k + d = l + d BY <1>4 DEF Landing
  <2> QED BY <1>2, <2>1
<1>10. \A i \in DOMAIN landed', k \in DOMAIN commands' :
         Spoken(i)' /\ IsCommit(k)' => landed'[i].text.n # commands'[k].utt
  <2> SUFFICES ASSUME NEW i \in DOMAIN landed', NEW k \in DOMAIN commands', Spoken(i)', IsCommit(k)'
               PROVE  landed'[i].text.n # commands'[k].utt
    OBVIOUS
  <2>1. i \in DOMAIN landed /\ landed'[i] = landed[i] /\ Spoken(i) BY <1>3
  <2>2. k + d \in DOMAIN commands /\ commands[k + d] = commands'[k] /\ IsCommit(k + d) BY <1>4
  <2> QED BY <2>1, <2>2 DEF Landing
<1> QED BY <1>6, <1>7, <1>8, <1>9, <1>10 DEF Landing, Spoken, IsCommit

\* A step that lands an utterance which had not, and is in no commit left.
LEMMA SpokenLanding ==
  ASSUME Base, Base', Landing, Onward, NEW u \in 0..utt',
         NEW e \in Landings, e.text = Speech(u), e.part = "final", landed' = Append(landed, e),
         \A i \in DOMAIN landed : Spoken(i) => landed[i].text.n # u,
         \A k \in DOMAIN commands' : IsCommit(k)' => commands'[k].utt # u,
         u = utt' => phase' = "rest"
  PROVE  Landing'
<1> DEFINE new == Len(landed) + 1
<1>1. /\ DOMAIN landed = 1..Len(landed) /\ Len(landed) \in Nat /\ DOMAIN landed' = 1..new
      /\ \A i \in 1..Len(landed) : landed'[i] = landed[i]
      /\ landed'[new] = e
  <2>1. landed \in Seq(Landings) BY TypesNamed DEF Base
  <2> QED BY <2>1, Sent
<1>2. utt' \in Nat /\ u \in Nat BY NumbersAfter
<1>3. e.text.of = "speech" /\ e.text.n = u BY <1>2, TextsTyped
<1> HIDE DEF new
<1>4. \A i \in DOMAIN landed' : i = new \/ (i \in DOMAIN landed /\ landed'[i] = landed[i])
  BY <1>1 DEF new
<1>5. \A i \in DOMAIN landed' : Spoken(i)' =>
        i = new \/ (i \in DOMAIN landed /\ landed'[i] = landed[i] /\ Spoken(i))
  BY <1>4 DEF Spoken
<1>6. PICK d \in {0, 1} : \A k \in DOMAIN commands' : IsCommit(k)' =>
        k + d \in DOMAIN commands /\ commands[k + d] = commands'[k]
  BY DEF Onward
<1>7. \A k \in DOMAIN commands' : IsCommit(k)' =>
        k + d \in DOMAIN commands /\ commands[k + d] = commands'[k] /\ IsCommit(k + d)
  BY <1>6 DEF IsCommit
<1>8. /\ utt \in Nat /\ \A i \in DOMAIN landed : landed[i].text.n \in Nat
      /\ \A k \in DOMAIN commands : commands[k].utt \in 0..utt /\ k \in Nat
      /\ \A k \in DOMAIN commands' : k \in Nat
  BY Numbers, NumbersAfter
<1>9. \A n \in 0..utt : n = utt' => n = utt /\ utt' = utt BY <1>8 DEF Onward
<1>10. \A i \in DOMAIN landed' : Spoken(i)' =>
         /\ landed'[i].part = "final" /\ landed'[i].text.n <= utt'
         /\ landed'[i].text.n = utt' => phase' = "rest"
  <2> SUFFICES ASSUME NEW i \in DOMAIN landed', Spoken(i)'
               PROVE  /\ landed'[i].part = "final" /\ landed'[i].text.n <= utt'
                      /\ landed'[i].text.n = utt' => phase' = "rest"
    OBVIOUS
  <2>1. CASE i = new BY <1>1, <1>2, <1>3, <2>1
  <2>2. CASE i # new
    <3>1. /\ i \in DOMAIN landed /\ landed'[i] = landed[i] /\ landed[i].part = "final"
          /\ landed[i].text.n <= utt /\ landed[i].text.n \in Nat
          /\ landed[i].text.n = utt => phase = "rest"
      BY <1>5, <1>8, <2>2 DEF Landing
    <3> QED BY <1>8, <1>9, <3>1 DEF Onward
  <2> QED BY <2>1, <2>2
<1>11. \A i, j \in DOMAIN landed' :
         Spoken(i)' /\ Spoken(j)' /\ landed'[i].text.n = landed'[j].text.n => i = j
  <2> SUFFICES ASSUME NEW i \in DOMAIN landed', NEW j \in DOMAIN landed', Spoken(i)', Spoken(j)',
                      landed'[i].text.n = landed'[j].text.n
               PROVE  i = j
    OBVIOUS
  <2>1. CASE i = new BY <1>1, <1>3, <1>5, <2>1
  <2>2. CASE i # new /\ j = new BY <1>1, <1>3, <1>5, <2>2
  <2>3. CASE i # new /\ j # new BY <1>5, <2>3 DEF Landing
  <2> QED BY <2>1, <2>2, <2>3
<1>12. \A k \in DOMAIN commands' : IsCommit(k)' /\ commands'[k].utt = utt' => phase' = "rest"
  BY <1>7, <1>8, <1>9 DEF Landing, Onward
<1>13. \A k, l \in DOMAIN commands' :
         IsCommit(k)' /\ IsCommit(l)' /\ commands'[k].utt = commands'[l].utt => k = l
  <2> SUFFICES ASSUME NEW k \in DOMAIN commands', NEW l \in DOMAIN commands',
                      IsCommit(k)', IsCommit(l)', commands'[k].utt = commands'[l].utt
               PROVE  k = l
    OBVIOUS
  <2>1. k + d = l + d BY <1>7 DEF Landing
  <2> QED BY <1>8, <2>1
<1>14. \A i \in DOMAIN landed', k \in DOMAIN commands' :
         Spoken(i)' /\ IsCommit(k)' => landed'[i].text.n # commands'[k].utt
  <2> SUFFICES ASSUME NEW i \in DOMAIN landed', NEW k \in DOMAIN commands', Spoken(i)', IsCommit(k)'
               PROVE  landed'[i].text.n # commands'[k].utt
    OBVIOUS
  <2>1. CASE i = new BY <1>1, <1>3, <2>1
  <2>2. CASE i # new
    <3>1. i \in DOMAIN landed /\ landed'[i] = landed[i] /\ Spoken(i) BY <1>5, <2>2
    <3>2. k + d \in DOMAIN commands /\ commands[k + d] = commands'[k] /\ IsCommit(k + d) BY <1>7
    <3> QED BY <3>1, <3>2 DEF Landing
  <2> QED BY <2>1, <2>2
<1> QED BY <1>10, <1>11, <1>12, <1>13, <1>14 DEF Landing, Spoken, IsCommit

\* A conversion that lands is no speech.
LEMMA TypedSilent ==
  ASSUME Base, NEW t \in Texts, t.of # "speech", NEW p \in {"final", "half"}, Land(t, p)
  PROVE  Silent
<1> DEFINE e == [text |-> t, part |-> p, at |-> focus]
<1>1. landed \in Seq(Landings) BY TypesNamed DEF Base
<1>2. CASE focus \in Fields
  <2>1. e \in Landings /\ e.text = t BY <1>2 DEF Landings
  <2>2. landed' = Append(landed, e) BY <1>2 DEF Land
  <2> HIDE DEF e
  <2>3. /\ DOMAIN landed = 1..Len(landed) /\ Len(landed) \in Nat
        /\ DOMAIN landed' = 1..Len(landed) + 1
        /\ \A i \in 1..Len(landed) : landed'[i] = landed[i]
        /\ landed'[Len(landed) + 1] = e
    BY <1>1, <2>1, <2>2, Sent
  <2>4. \A i \in DOMAIN landed' :
          i = Len(landed) + 1 \/ (i \in DOMAIN landed /\ landed'[i] = landed[i])
    BY <2>3
  <2> QED BY <2>1, <2>3, <2>4 DEF Silent, Spoken
<1>3. CASE focus \notin Fields BY <1>3 DEF Land, Silent
<1> QED BY <1>2, <1>3

\* What is sent leaves what was in the channel where it is.
LEMMA SentOn ==
  ASSUME Base, NEW c \in Kinds \ {"Commit"}, NEW u \in Nat, Send(c, u), loop' = loop,
         u = utt', utt' = utt \/ utt' = utt + 1, c # "Cancel" => u # 0
  PROVE  \A k \in DOMAIN commands' : IsCommit(k)' =>
           k + 0 \in DOMAIN commands /\ commands[k + 0] = commands'[k]
<1>1. /\ DOMAIN commands = 1..Len(commands) /\ Len(commands) \in Nat
      /\ \/ ~Attached /\ commands' = <<>> /\ commands = <<>>
         \/ /\ Attached /\ commands' # <<>>
            /\ DOMAIN commands' = 1..Len(commands) + 1 /\ Len(commands') = Len(commands) + 1
            /\ \A i \in 1..Len(commands) : commands'[i] = commands[i]
            /\ commands'[Len(commands) + 1] = [cmd |-> c, utt |-> u]
  BY Sending
<1>2. CASE commands' = <<>>
  <2>1. DOMAIN commands' = {} BY <1>2, Emptied
  <2> QED BY <2>1
<1>3. CASE commands' # <<>>
  <2> SUFFICES ASSUME NEW k \in DOMAIN commands', IsCommit(k)'
               PROVE  k + 0 \in DOMAIN commands /\ commands[k + 0] = commands'[k]
    OBVIOUS
  <2>1. k # Len(commands) + 1 BY <1>1, <1>3 DEF IsCommit
  <2>2. k \in 1..Len(commands) /\ k + 0 = k BY <1>1, <1>3, <2>1
  <2> QED BY <1>1, <1>3, <2>2
<1> QED BY <1>2, <1>3

\* The engine hands over a final text: its commit is the first of its utterance.
LEMMA CommitLanding == ASSUME Base, Base', Landing, SendCommit PROVE Landing'
<1> DEFINE new == Len(commands) + 1
<1>1. /\ decided = "Commit" /\ Send("Commit", utt) /\ landed' = landed /\ utt' = utt
      /\ phase' = "rest" /\ loop' = loop
  BY DEF SendCommit, SentBy
<1>2. phase = "closing" /\ utt # 0 BY <1>1 DEF Base, Phases
<1>3. utt \in Nat BY Numbers
<1>4. /\ DOMAIN commands = 1..Len(commands) /\ Len(commands) \in Nat
      /\ \/ ~Attached /\ commands' = <<>> /\ commands = <<>>
         \/ /\ Attached /\ commands' # <<>>
            /\ DOMAIN commands' = 1..Len(commands) + 1 /\ Len(commands') = Len(commands) + 1
            /\ \A i \in 1..Len(commands) : commands'[i] = commands[i]
            /\ commands'[Len(commands) + 1] = [cmd |-> "Commit", utt |-> utt]
  BY <1>1, <1>2, <1>3, Sending DEF Kinds
<1>5. CASE commands' = <<>> BY <1>1, <1>4, <1>5 DEF Landing, Spoken, IsCommit
<1>6. CASE commands' # <<>>
  <2>1. \A k \in DOMAIN commands' : \/ k = new /\ commands'[k].utt = utt
                                    \/ k \in DOMAIN commands /\ commands'[k] = commands[k]
    BY <1>4, <1>6
  <2> HIDE DEF new
  <2>2. \A k \in DOMAIN commands' : IsCommit(k)' =>
          \/ k = new /\ commands'[k].utt = utt
          \/ /\ k \in DOMAIN commands /\ commands'[k] = commands[k] /\ IsCommit(k)
             /\ commands[k].utt # utt
    BY <1>2, <2>1 DEF Landing, IsCommit
  <2>3. \A i \in DOMAIN landed : Spoken(i) => landed[i].text.n # utt BY <1>2 DEF Landing
  <2>4. \A k, l \in DOMAIN commands' :
          IsCommit(k)' /\ IsCommit(l)' /\ commands'[k].utt = commands'[l].utt => k = l
    <3> SUFFICES ASSUME NEW k \in DOMAIN commands', NEW l \in DOMAIN commands',
                        IsCommit(k)', IsCommit(l)', commands'[k].utt = commands'[l].utt
                 PROVE  k = l
      OBVIOUS
    <3>1. CASE k = new /\ commands'[k].utt = utt BY <2>2, <3>1
    <3>2. CASE k \in DOMAIN commands /\ commands'[k] = commands[k] /\ IsCommit(k)
               /\ commands[k].utt # utt
      <4>1. l \in DOMAIN commands /\ commands'[l] = commands[l] /\ IsCommit(l) BY <2>2, <3>2
      <4> QED BY <3>2, <4>1 DEF Landing
    <3> QED BY <2>2, <3>1, <3>2
  <2>5. \A i \in DOMAIN landed, k \in DOMAIN commands' :
          Spoken(i) /\ IsCommit(k)' => landed[i].text.n # commands'[k].utt
    <3> SUFFICES ASSUME NEW i \in DOMAIN landed, NEW k \in DOMAIN commands', Spoken(i), IsCommit(k)'
                 PROVE  landed[i].text.n # commands'[k].utt
      OBVIOUS
    <3>1. CASE k = new /\ commands'[k].utt = utt BY <2>3, <3>1
    <3>2. CASE k \in DOMAIN commands /\ commands'[k] = commands[k] /\ IsCommit(k) BY <3>2 DEF Landing
    <3> QED BY <2>2, <3>1, <3>2
  <2> QED BY <1>1, <2>4, <2>5 DEF Landing, Spoken, IsCommit
<1> QED BY <1>5, <1>6

\* All steps of the engine.
LEMMA EngineLanding == ASSUME Base, Base', Landing, Engine PROVE Landing'
<1>1. utt \in Nat /\ \A k \in DOMAIN commands : k \in Nat BY Numbers
<1>2. \A k \in DOMAIN commands : k + 0 = k BY <1>1
<1>3. CASE Begin
  <2>1. /\ Send("Begin", utt + 1) /\ utt' = utt + 1 /\ loop' = loop /\ landed' = landed
    BY <1>3 DEF Begin, compositor
  <2>2. \A k \in DOMAIN commands' : IsCommit(k)' =>
          k + 0 \in DOMAIN commands /\ commands[k + 0] = commands'[k]
    BY <1>1, <2>1, SentOn DEF Kinds
  <2> QED BY <2>1, <2>2, SilentLanding DEF Onward, Silent, Spoken
<1>4. CASE SendPartial
  <2>1. /\ Send("Partial", utt) /\ utt' = utt /\ loop' = loop /\ landed' = landed /\ utt # 0
        /\ phase' = phase
    BY <1>4 DEF SendPartial, compositor, Base, Phases
  <2>2. \A k \in DOMAIN commands' : IsCommit(k)' =>
          k + 0 \in DOMAIN commands /\ commands[k + 0] = commands'[k]
    BY <1>1, <2>1, SentOn DEF Kinds
  <2> QED BY <2>1, <2>2, SilentLanding DEF Onward, Silent, Spoken
<1>5. CASE CancelUtterance
  <2>1. /\ Send("Cancel", utt) /\ utt' = utt /\ loop' = loop /\ landed' = landed
        /\ phase' = "rest"
    BY <1>5 DEF CancelUtterance, compositor
  <2>2. \A k \in DOMAIN commands' : IsCommit(k)' =>
          k + 0 \in DOMAIN commands /\ commands[k + 0] = commands'[k]
    BY <1>1, <2>1, SentOn DEF Kinds
  <2> QED BY <2>1, <2>2, SilentLanding DEF Onward, Silent, Spoken
<1>6. CASE LookPartial \/ Close \/ LookCommit \/ Fail
  <2>1. commands' = commands /\ utt' = utt /\ landed' = landed /\ phase # "rest"
    BY <1>6 DEF LookPartial, Close, LookCommit, Fail, compositor, link
  <2> QED BY <1>2, <2>1, SilentLanding DEF Onward, Silent, Spoken
<1>7. CASE SendCommit BY <1>7, CommitLanding
<1>8. CASE TypeText
  <2> DEFINE e == [text |-> Speech(utt), part |-> "final", at |-> focus]
  <2>1. /\ commands' = commands /\ utt' = utt /\ phase = "closing" /\ phase' = "rest"
        /\ landed' = Append(landed, e)
    BY <1>8 DEF TypeText, link
  <2>2. e \in Landings /\ e.text = Speech(utt) /\ e.part = "final"
    BY <1>1, TextsTyped DEF Landings, Base, TypeOK
  <2> HIDE DEF e
  <2>3. \A i \in DOMAIN landed : Spoken(i) => landed[i].text.n # utt BY <2>1 DEF Landing
  <2>4. \A k \in DOMAIN commands' : IsCommit(k)' => commands'[k].utt # utt
    BY <2>1 DEF Landing, IsCommit
  <2>5. Onward BY <1>2, <2>1 DEF Onward
  <2>6. utt \in 0..utt' BY <1>1, <2>1
  <2> QED BY <2>1, <2>2, <2>3, <2>4, <2>5, <2>6, SpokenLanding
<1> QED BY <1>3, <1>4, <1>5, <1>6, <1>7, <1>8 DEF Engine

\* The frontend handles a command.
LEMMA CommandLanding == ASSUME Base, Base', Landing, OnCommand PROVE Landing'
<1> DEFINE u == Head(commands).utt
<1>1. /\ commands # <<>> /\ commands' = Tail(commands)
      /\ \/ OnBegin(u) \/ OnPartial(u)
         \/ Head(commands).cmd = "Commit" /\ OnCommit(u)
         \/ OnCancel
      /\ loop' = loop /\ utt' = utt /\ phase' = phase
  BY DEF OnCommand, engine
<1>2. /\ 1 \in DOMAIN commands /\ Head(commands) = commands[1]
      /\ Head(commands) \in Cmds(utt)
      /\ \A i \in DOMAIN commands' : /\ i \in Nat /\ i + 1 \in DOMAIN commands /\ i + 1 # 1
                                    /\ commands'[i] = commands[i + 1]
  BY <1>1, Taking
<1>3. Onward BY <1>1, <1>2 DEF Onward
<1>4. CASE OnBegin(u)
  <2>1. Silent
    <3>1. CASE landed' = landed BY <3>1 DEF Silent, Spoken
    <3>2. CASE Flush /\ held.keep
      <4>1. held.text \in Texts /\ held.text.of = "keys" BY <3>2 DEF Base, TypeOK, Turns
      <4>2. Land(held.text, "final") BY <3>2, <4>1 DEF Flush
      <4> QED BY <4>1, <4>2, TypedSilent
    <3> QED BY <1>4, <3>1, <3>2 DEF OnBegin, Flush
  <2> QED BY <1>3, <2>1, SilentLanding
<1>5. CASE OnPartial(u) \/ OnCancel
  <2>1. landed' = landed BY <1>5 DEF OnPartial, OnCancel
  <2> QED BY <1>3, <2>1, SilentLanding DEF Silent, Spoken
<1>6. CASE Head(commands).cmd = "Commit" /\ OnCommit(u)
  <2>1. CASE landed' = landed BY <1>3, <2>1, SilentLanding DEF Silent, Spoken
  <2>2. CASE landed' # landed
    <3> DEFINE e == [text |-> Speech(u), part |-> "final", at |-> focus]
    <3>1. Land(Speech(u), "final") BY <1>6, <2>2 DEF OnCommit
    <3>2. focus \in Fields /\ landed' = Append(landed, e) BY <2>2, <3>1 DEF Land
    <3>3. u \in 0..utt /\ u \in Nat
      <4>1. u \in 0..utt BY <1>2 DEF Cmds
      <4> QED BY <4>1
    <3>4. e \in Landings /\ e.text = Speech(u) /\ e.part = "final"
      BY <3>2, <3>3, TextsTyped DEF Landings
    <3>5. IsCommit(1) /\ commands[1].utt = u BY <1>2, <1>6 DEF IsCommit
    <3> HIDE DEF e, u
    <3>6. \A i \in DOMAIN landed : Spoken(i) => landed[i].text.n # u
      BY <1>2, <3>5 DEF Landing
    <3>7. \A k \in DOMAIN commands' : IsCommit(k)' => commands'[k].utt # u
      <4> SUFFICES ASSUME NEW k \in DOMAIN commands', IsCommit(k)', commands'[k].utt = u
                   PROVE  FALSE
        OBVIOUS
      <4>1. k + 1 \in DOMAIN commands /\ k + 1 # 1 /\ commands'[k] = commands[k + 1] BY <1>2
      <4>2. IsCommit(k + 1) BY <4>1 DEF IsCommit
      <4> QED BY <1>2, <3>5, <4>1, <4>2 DEF Landing
    <3>8. u = utt' => phase' = "rest" BY <1>1, <1>2, <3>5 DEF Landing
    <3> QED BY <1>1, <1>3, <3>2, <3>3, <3>4, <3>6, <3>7, <3>8, SpokenLanding
  <2> QED BY <2>1, <2>2
<1> QED BY <1>1, <1>4, <1>5, <1>6

\* Every step preserves it.
LEMMA StepLanding == ASSUME Base, Base', Landing, [Next]_vars PROVE Landing'
<1>1. \A k \in DOMAIN commands : k + 0 = k BY Numbers
<1>2. CASE Engine BY <1>2, EngineLanding
<1>3. CASE OnCommand BY <1>3, CommandLanding
<1>4. CASE KeyCommits
  <2>1. Typed(conv) \in Texts /\ Typed(conv).of = "keys"
    <3>1. conv \in Nat BY BoundsAssumption DEF Base, TypeOK
    <3> QED BY <3>1, TextsTyped
  <2>2. Silent BY <1>4, <2>1, TypedSilent DEF KeyCommits
  <2>3. Onward BY <1>1, <1>4 DEF KeyCommits, Onward, engine, link
  <2> QED BY <2>2, <2>3, SilentLanding
<1>5. CASE OnDone \/ KeyComposes \/ OnUpstream \/ Supervisor \/ World \/ UNCHANGED vars
  <2>1. landed' = landed /\ utt' = utt /\ phase' = phase
    BY <1>5 DEF OnDone, KeyComposes, OnUpstream, Supervisor, Attach, SetBound, LoopEnds, Unbind,
                Detach, World, IbusUpdates, FocusMoves, vars, engine, compositor
  <2>2. commands' = commands \/ commands' = <<>>
    BY <1>5 DEF OnDone, KeyComposes, OnUpstream, Supervisor, Attach, SetBound, LoopEnds, Unbind,
                Detach, World, IbusUpdates, FocusMoves, vars, link
  <2>3. DOMAIN <<>> = {} BY Emptied
  <2>4. Onward
    <3>1. CASE commands' = commands BY <1>1, <2>1, <3>1 DEF Onward
    <3>2. CASE commands' = <<>> BY <2>1, <2>3, <3>2 DEF Onward
    <3> QED BY <2>2, <3>1, <3>2
  <2> QED BY <2>1, <2>4, SilentLanding DEF Silent, Spoken
<1> QED BY <1>2, <1>3, <1>4, <1>5 DEF Next, Frontend

\* Nothing has landed at first.
LEMMA InitLanding == Init => Landing
<1>1. DOMAIN <<>> = {} BY Emptied
<1> QED BY <1>1 DEF Init, Landing

\* Every behaviour keeps it.
LEMMA LandingHolds == Spec => []Landing
<1>1. Base /\ Base' /\ Landing /\ [Next]_vars => Landing' BY StepLanding
<1> QED BY <1>1, InitLanding, BaseHolds, PTL DEF Spec

\* Whatever path an utterance takes, and however the focus, the flag and the
\* frontend change on the way, its text lands at most once, and never half of
\* it (sink.rs, commit; dictation.rs, flush_held_preedit).
THEOREM LandOnce == Spec => []LandsAtMostOnce
<1>1. Landing => LandsAtMostOnce BY DEF Landing, LandsAtMostOnce, Spoken
<1> QED BY <1>1, LandingHolds, PTL

-----------------------------------------------------------------------------
(* What is reported as injected is lost only in the gap *)

\* The frontend knows where the focus is, and that it is in a field.
Steady == Current /\ here

HasLanded(u) == \E i \in DOMAIN landed : landed[i].text = Speech(u)
Underway(u)  == \E k \in DOMAIN commands : IsCommit(k) /\ commands[k].utt = u

\* A commit that is decided or underway finds the field, unless the world moved.
Gapless ==
  /\ decided = "Commit" /\ utt \notin gap => Steady
  /\ \A u \in committed \ gap : HasLanded(u) \/ (Steady /\ Underway(u))

\* What has landed stays, and what lands comes last.
LEMMA LandedStays ==
  ASSUME Base, landed' = landed \/ \E e \in Landings : landed' = Append(landed, e)
  PROVE  /\ \A u : HasLanded(u) => HasLanded(u)'
         /\ \A e \in Landings : landed' = Append(landed, e) =>
              \A u : e.text = Speech(u) => HasLanded(u)'
<1>1. landed \in Seq(Landings) BY TypesNamed DEF Base
<1>2. CASE landed' = landed /\ ~\E e \in Landings : landed' = Append(landed, e)
  BY <1>2 DEF HasLanded
<1>3. ASSUME NEW e \in Landings, landed' = Append(landed, e)
      PROVE  /\ \A u : HasLanded(u) => HasLanded(u)'
             /\ \A u : e.text = Speech(u) => HasLanded(u)'
  <2>1. /\ DOMAIN landed = 1..Len(landed) /\ Len(landed) \in Nat
        /\ DOMAIN landed' = 1..Len(landed) + 1
        /\ \A i \in 1..Len(landed) : landed'[i] = landed[i]
        /\ landed'[Len(landed) + 1] = e
    BY <1>1, <1>3, Sent
  <2>2. \A i \in DOMAIN landed : i \in DOMAIN landed' /\ landed'[i] = landed[i] BY <2>1
  <2>3. Len(landed) + 1 \in DOMAIN landed' BY <2>1
  <2> QED BY <2>1, <2>2, <2>3 DEF HasLanded
<1> QED BY <1>2, <1>3

\* Every step lands at most one text.
LEMMA StepLands ==
  ASSUME Base, [Next]_vars
  PROVE  landed' = landed \/ \E e \in Landings : landed' = Append(landed, e)
<1>1. focus \in Fields \cup {"window"} BY DEF Base, TypeOK
<1>2. \A t \in Texts, p \in {"final", "half"} :
        Land(t, p) => landed' = landed \/ \E e \in Landings : landed' = Append(landed, e)
  <2> SUFFICES ASSUME NEW t \in Texts, NEW p \in {"final", "half"}, Land(t, p)
               PROVE  landed' = landed \/ \E e \in Landings : landed' = Append(landed, e)
    OBVIOUS
  <2>1. [text |-> t, part |-> p, at |-> focus] \in Landings BY <1>1 DEF Landings
  <2> QED BY <2>1 DEF Land
<1>3. utt \in Nat BY Numbers
<1>4. CASE TypeText
  <2>1. [text |-> Speech(utt), part |-> "final", at |-> focus] \in Landings
    BY <1>1, <1>3, TextsTyped DEF Landings
  <2> QED BY <1>4, <2>1 DEF TypeText
<1>5. CASE OnCommand
  <2>1. /\ commands # <<>>
        /\ \/ OnBegin(Head(commands).utt) \/ OnPartial(Head(commands).utt)
           \/ OnCommit(Head(commands).utt) \/ OnCancel
    BY <1>5 DEF OnCommand
  <2>2. Head(commands).utt \in Nat
    <3>1. Head(commands) \in Cmds(utt) BY <2>1, Received, TypesNamed DEF Base
    <3> QED BY <1>3, <3>1 DEF Cmds
  <2>3. CASE Land(held.text, "final") /\ held.keep
    <3>1. held.text \in Texts BY DEF Base, TypeOK
    <3> QED BY <1>2, <2>3, <3>1
  <2>4. CASE Land(Speech(Head(commands).utt), "final") BY <1>2, <2>2, <2>4, TextsTyped
  <2>5. CASE landed' = landed BY <2>5
  <2>6. held.keep => held.text.of = "keys" BY DEF Base, Turns
  <2> QED BY <2>1, <2>3, <2>4, <2>5, <2>6 DEF OnBegin, OnPartial, OnCommit, OnCancel, Flush
<1>6. CASE KeyCommits
  <2>1. conv \in Nat BY BoundsAssumption DEF Base, TypeOK
  <2> QED BY <1>2, <1>6, <2>1, TextsTyped DEF KeyCommits
<1>7. CASE \/ Begin \/ LookPartial \/ SendPartial \/ Close \/ LookCommit \/ SendCommit
           \/ CancelUtterance \/ Fail \/ OnDone \/ KeyComposes \/ OnUpstream \/ Supervisor
           \/ World \/ UNCHANGED vars
  BY <1>7 DEF Begin, LookPartial, SendPartial, Close, LookCommit, SendCommit, SentBy,
              CancelUtterance, Fail, OnDone, KeyComposes, OnUpstream, Supervisor, Attach,
              SetBound, LoopEnds, Unbind, Detach, World, IbusUpdates, FocusMoves, vars, compositor
<1> QED BY <1>4, <1>5, <1>6, <1>7 DEF Next, Engine, Frontend

\* While it is steady, nothing that is sent gets lost on the way.
LEMMA SentGapless ==
  ASSUME Base, Steady, NEW c \in Kinds, NEW u \in Nat, Send(c, u), loop' = loop,
         u = utt', utt' = utt \/ utt' = utt + 1, c # "Cancel" => u # 0
  PROVE  /\ \A v : Underway(v) => Underway(v)'
         /\ c = "Commit" => Underway(u)'
<1>1. Attached BY DEF Steady, Current, Attached
<1>2. /\ DOMAIN commands = 1..Len(commands) /\ Len(commands) \in Nat
      /\ DOMAIN commands' = 1..Len(commands) + 1
      /\ \A i \in 1..Len(commands) : commands'[i] = commands[i]
      /\ commands'[Len(commands) + 1] = [cmd |-> c, utt |-> u]
  BY <1>1, Sending
<1>3. \A k \in DOMAIN commands : k \in DOMAIN commands' /\ commands'[k] = commands[k] BY <1>2
<1>4. Len(commands) + 1 \in DOMAIN commands' BY <1>2
<1> QED BY <1>2, <1>3, <1>4 DEF Underway, IsCommit

\* The engine's steps.
LEMMA EngineGapless ==
  ASSUME Base, Gapless, Engine,
         landed' = landed \/ \E e \in Landings : landed' = Append(landed, e)
  PROVE  Gapless'
<1>1. utt \in Nat BY Numbers
<1>2. /\ focus' = focus /\ events' = events /\ loop' = loop /\ here' = here
  BY DEF Engine, Begin, LookPartial, SendPartial, Close, LookCommit, SendCommit, TypeText,
         CancelUtterance, Fail, compositor, link, frontend
<1>3. Steady' <=> Steady BY <1>2 DEF Steady, Current
<1>4. \A u : HasLanded(u) => HasLanded(u)' BY LandedStays
<1>5. CASE Begin
  <2>1. /\ Send("Begin", utt + 1) /\ utt' = utt + 1 /\ UNCHANGED <<decided, committed, gap>>
        /\ phase = "rest"
    BY <1>5 DEF Begin
  <2>2. decided # "Commit" BY <2>1 DEF Base, Phases
  <2>3. Steady => \A v : Underway(v) => Underway(v)'
    BY <1>1, <1>2, <2>1, SentGapless DEF Kinds
  <2> QED BY <1>3, <1>4, <2>1, <2>2, <2>3 DEF Gapless
<1>6. CASE SendPartial
  <2>1. /\ Send("Partial", utt) /\ utt' = utt /\ decided' = "nothing" /\ utt # 0
        /\ UNCHANGED <<committed, gap>>
    BY <1>6 DEF SendPartial, Base, Phases
  <2>2. Steady => \A v : Underway(v) => Underway(v)'
    BY <1>1, <1>2, <2>1, SentGapless DEF Kinds
  <2> QED BY <1>3, <1>4, <2>1, <2>2 DEF Gapless
<1>7. CASE CancelUtterance
  <2>1. /\ Send("Cancel", utt) /\ utt' = utt /\ decided' = "nothing"
        /\ UNCHANGED <<committed, gap>> /\ decided = "nothing"
    BY <1>7 DEF CancelUtterance
  <2>2. Steady => \A v : Underway(v) => Underway(v)'
    BY <1>1, <1>2, <2>1, SentGapless DEF Kinds
  <2> QED BY <1>3, <1>4, <2>1, <2>2 DEF Gapless
<1>8. CASE SendCommit
  <2>1. /\ Send("Commit", utt) /\ utt' = utt /\ decided' = "nothing" /\ utt # 0
        /\ decided = "Commit" /\ committed' = committed \cup {utt} /\ gap' = gap
    BY <1>8 DEF SendCommit, Base, Phases
  <2>2. Steady => (\A v : Underway(v) => Underway(v)') /\ Underway(utt)'
    BY <1>1, <1>2, <2>1, SentGapless DEF Kinds
  <2> QED BY <1>3, <1>4, <2>1, <2>2 DEF Gapless
<1>9. CASE LookCommit
  <2>1. /\ IsActive /\ decided' = "Commit" /\ gap' = (IF Current THEN gap ELSE gap \cup {utt})
        /\ UNCHANGED <<utt, committed, commands>>
    BY <1>9 DEF LookCommit, link
  <2>2. here BY <2>1 DEF IsActive, Bound, Base, Turns
  <2>3. utt' \notin gap' => Steady BY <2>1, <2>2 DEF Steady
  <2>4. \A v : Underway(v) => Underway(v)' BY <2>1 DEF Underway, IsCommit
  <2> QED BY <1>3, <1>4, <2>1, <2>3, <2>4 DEF Gapless
<1>10. CASE LookPartial \/ Close \/ TypeText \/ Fail
  <2>1. decided' # "Commit" /\ UNCHANGED <<committed, gap, commands>>
    BY <1>10 DEF LookPartial, Close, TypeText, Fail, link
  <2>2. \A v : Underway(v) => Underway(v)' BY <2>1 DEF Underway, IsCommit
  <2> QED BY <1>3, <1>4, <2>1, <2>2 DEF Gapless
<1> QED BY <1>5, <1>6, <1>7, <1>8, <1>9, <1>10 DEF Engine

\* The frontend handles a command: a commit lands while it is steady.
LEMMA CommandGapless ==
  ASSUME Base, Gapless, OnCommand,
         landed' = landed \/ \E e \in Landings : landed' = Append(landed, e)
  PROVE  Gapless'
<1> DEFINE u == Head(commands).utt
<1>1. /\ commands # <<>> /\ commands' = Tail(commands)
      /\ Head(commands).cmd = "Commit" => OnCommit(u)
      /\ UNCHANGED <<focus, events, loop, here, decided, utt, gap, committed>>
  BY DEF OnCommand, engine
<1>2. /\ 1 \in DOMAIN commands /\ Head(commands) = commands[1] /\ Head(commands) \in Cmds(utt)
      /\ \A i \in DOMAIN commands' : i \in Nat /\ commands'[i] = commands[i + 1]
      /\ \A i \in DOMAIN commands :
           i # 1 => i \in Nat /\ i - 1 \in DOMAIN commands' /\ (i - 1) + 1 = i
  BY <1>1, Taking
<1>3. Steady' <=> Steady BY <1>1 DEF Steady, Current
<1>4. \A v : HasLanded(v) => HasLanded(v)' BY LandedStays
<1>5. ASSUME Steady, NEW v, Underway(v)
      PROVE  HasLanded(v)' \/ Underway(v)'
  <2>1. PICK k \in DOMAIN commands : IsCommit(k) /\ commands[k].utt = v BY <1>5 DEF Underway
  <2>2. CASE k = 1
    <3> DEFINE e == [text |-> Speech(v), part |-> "final", at |-> focus]
    <3>1. v = u /\ OnCommit(v) BY <1>1, <1>2, <2>1, <2>2 DEF IsCommit
    <3>2. focus \in Fields /\ here BY <1>5 DEF Steady, Current, Base, TypeOK
    <3>3. landed' = Append(landed, e) BY <3>1, <3>2 DEF OnCommit, Honours, Land
    <3>4. v \in Nat
      <4>1. u \in 0..utt /\ utt \in Nat BY <1>2, Numbers DEF Cmds
      <4> QED BY <3>1, <4>1
    <3>5. e \in Landings /\ e.text = Speech(v) BY <3>2, <3>4, TextsTyped DEF Landings
    <3> HIDE DEF e
    <3> QED BY <3>3, <3>5, LandedStays
  <2>3. CASE k # 1
    <3>1. k - 1 \in DOMAIN commands' /\ commands'[k - 1] = commands[k] BY <1>2, <2>3
    <3> QED BY <2>1, <3>1 DEF Underway, IsCommit
  <2> QED BY <2>2, <2>3
<1> QED BY <1>1, <1>3, <1>4, <1>5 DEF Gapless

\* Every step preserves it.
LEMMA StepGapless == ASSUME Base, Gapless, [Next]_vars PROVE Gapless'
<1>1. landed' = landed \/ \E e \in Landings : landed' = Append(landed, e) BY StepLands
<1>2. \A u : HasLanded(u) => HasLanded(u)' BY <1>1, LandedStays
<1>3. CASE Engine BY <1>1, <1>3, EngineGapless
<1>4. CASE OnCommand BY <1>1, <1>4, CommandGapless
<1>5. CASE OnDone \/ Attach \/ SetBound \/ Unbind \/ Detach
  <2>1. ~Steady
    BY <1>5 DEF OnDone, Attach, SetBound, Unbind, Detach, Steady, Current
  <2>2. UNCHANGED <<decided, utt, gap, committed>>
    BY <1>5 DEF OnDone, Attach, SetBound, Unbind, Detach, engine
  <2> QED BY <1>2, <2>1, <2>2 DEF Gapless
<1>6. CASE LoopEnds \/ \E f \in Fields \cup {"window"} : FocusMoves(f)
  <2>1. WorldMoves /\ UNCHANGED <<decided, utt, committed>>
    BY <1>6 DEF LoopEnds, FocusMoves, engine
  <2>2. gap' = gap \cup InTheGap BY <2>1 DEF WorldMoves
  <2>3. \A u : Underway(u) => u \in InTheGap BY DEF Underway, IsCommit, InTheGap
  <2>4. decided = "Commit" => utt \in InTheGap BY DEF InTheGap
  <2> QED BY <1>2, <2>1, <2>2, <2>3, <2>4 DEF Gapless
<1>7. CASE KeyComposes \/ KeyCommits \/ OnUpstream \/ IbusUpdates \/ UNCHANGED vars
  <2>1. UNCHANGED <<focus, events, loop, here, decided, utt, gap, committed, commands>>
    BY <1>7 DEF KeyComposes, KeyCommits, OnUpstream, IbusUpdates, vars, compositor, engine, link,
                frontend
  <2>2. Steady' <=> Steady BY <2>1 DEF Steady, Current
  <2>3. \A u : Underway(u)' <=> Underway(u) BY <2>1 DEF Underway, IsCommit
  <2> QED BY <1>2, <2>1, <2>2, <2>3 DEF Gapless
<1> QED BY <1>3, <1>4, <1>5, <1>6, <1>7 DEF Next, Frontend, Supervisor, World

\* A text reported as injected is lost only if the focus moved, or the frontend
\* ended, between the engine's look at the flag and the frontend's handling of
\* the commit (command.rs: "the residual race").
THEOREM GapOnly == Spec => []LostOnlyInTheGap
<1>1. Init => Gapless BY DEF Init, Gapless
<1>2. Base /\ Gapless /\ [Next]_vars => Gapless' BY StepGapless
<1>3. Gapless => LostOnlyInTheGap
  BY DEF Gapless, LostOnlyInTheGap, Drained, HasLanded, Underway, IsCommit
<1> QED BY <1>1, <1>2, <1>3, BaseHolds, PTL DEF Spec

-----------------------------------------------------------------------------
(* A partial stays in the activation its utterance began in *)

IsBegin(k) == commands[k].cmd = "Begin"

\* What the frontend will have begun, if it has the turn, when it gets to k.
Announced(k, v) ==
  \/ \E j \in DOMAIN commands : j < k /\ IsBegin(j) /\ commands[j].utt = v
  \/ /\ \A j \in DOMAIN commands : j < k => ~IsBegin(j)
     /\ turn = "Dictating" => begun = v

\* Every partial shown, sent or still to come is of the utterance begun.
Home ==
  /\ PartialsStayHome
  /\ \A k \in DOMAIN commands : commands[k].cmd = "Partial" => Announced(k, commands[k].utt)
  /\ phase = "talking" /\ Attached => Announced(Len(commands) + 1, utt)

\* Without a command handled, only the turn can change what is announced.
LEMMA SameAnnounced ==
  ASSUME commands' = commands, turn' = "Forwarding" \/ (turn' = turn /\ begun' = begun)
  PROVE  \A k, v : Announced(k, v) => Announced(k, v)'
  BY DEF Announced, IsBegin

\* Nor does what is sent behind it.
LEMMA SentAnnounced ==
  ASSUME Base, NEW c \in Kinds, NEW u \in Nat, Send(c, u), loop' = loop,
         u = utt', utt' = utt \/ utt' = utt + 1, c # "Cancel" => u # 0,
         turn' = turn, begun' = begun, Attached, NEW n, n = Len(commands) + 1
  PROVE  /\ n \in Nat /\ DOMAIN commands = 1..n - 1
         /\ DOMAIN commands' = 1..n /\ Len(commands') + 1 = n + 1
         /\ \A i \in DOMAIN commands : commands'[i] = commands[i]
         /\ commands'[n] = [cmd |-> c, utt |-> u]
         /\ \A v : \A k \in 1..n : Announced(k, v) => Announced(k, v)'
         /\ c = "Begin" => Announced(n + 1, u)'
         /\ c # "Begin" => \A v : Announced(n, v) => Announced(n + 1, v)'
<1>1. /\ n \in Nat \ {0} /\ DOMAIN commands = 1..n - 1
      /\ DOMAIN commands' = 1..n /\ Len(commands') + 1 = n + 1
      /\ \A i \in DOMAIN commands : commands'[i] = commands[i]
      /\ commands'[n] = [cmd |-> c, utt |-> u]
  BY Sending
<1>2. ASSUME NEW k \in 1..n, NEW v, Announced(k, v) PROVE Announced(k, v)'
  <2>1. \A j \in DOMAIN commands' : j < k => j \in DOMAIN commands /\ commands'[j] = commands[j]
    BY <1>1
  <2>2. \A j \in DOMAIN commands : j \in DOMAIN commands' /\ commands'[j] = commands[j]
    BY <1>1
  <2> QED BY <1>2, <2>1, <2>2 DEF Announced, IsBegin
<1>3. n \in DOMAIN commands' /\ n < n + 1 BY <1>1
<1>4. c = "Begin" => Announced(n + 1, u)' BY <1>1, <1>3 DEF Announced, IsBegin
<1>5. ASSUME c # "Begin", NEW v, Announced(n, v) PROVE Announced(n + 1, v)'
  <2>1. \A j \in DOMAIN commands' : j < n + 1 =>
          (j \in DOMAIN commands /\ j < n /\ commands'[j] = commands[j]) \/ ~IsBegin(j)'
    BY <1>1, <1>5 DEF IsBegin
  <2>2. \A j \in DOMAIN commands :
          j < n + 1 /\ j \in DOMAIN commands' /\ commands'[j] = commands[j]
    BY <1>1
  <2> QED BY <1>5, <2>1, <2>2 DEF Announced, IsBegin
<1> QED BY <1>1, <1>2, <1>4, <1>5

\* A command handled makes what was announced before the rest so.
LEMMA TakenAnnounced ==
  ASSUME Base, OnCommand, NEW k \in Nat, NEW v, Announced(k + 1, v), k # 0,
         \A j \in DOMAIN commands : j < k + 1 => commands[j].utt <= v
  PROVE  Announced(k, v)'
<1> DEFINE u == Head(commands).utt
<1>1. /\ commands # <<>> /\ commands' = Tail(commands) /\ loop' = loop /\ utt' = utt
      /\ \/ Head(commands).cmd = "Begin" /\ OnBegin(u)
         \/ Head(commands).cmd = "Partial" /\ OnPartial(u)
         \/ Head(commands).cmd = "Commit" /\ OnCommit(u)
         \/ Head(commands).cmd = "Cancel" /\ OnCancel
  BY DEF OnCommand, engine
<1>2. /\ 1 \in DOMAIN commands /\ Head(commands) = commands[1]
      /\ \A i \in DOMAIN commands' : /\ i \in Nat /\ i + 1 \in DOMAIN commands /\ i + 1 # 1
                                    /\ commands'[i] = commands[i + 1]
      /\ \A i \in DOMAIN commands :
           i # 1 => i \in Nat /\ i - 1 \in DOMAIN commands' /\ (i - 1) + 1 = i
  BY <1>1, Taking
<1>3. 1 < k + 1 OBVIOUS
<1>4. CASE \E j \in DOMAIN commands : j # 1 /\ j < k + 1 /\ IsBegin(j) /\ commands[j].utt = v
  <2>1. PICK j \in DOMAIN commands : j # 1 /\ j < k + 1 /\ IsBegin(j) /\ commands[j].utt = v
    BY <1>4
  <2>2. j \in Nat /\ j - 1 \in DOMAIN commands' /\ commands'[j - 1] = commands[j] BY <1>2, <2>1
  <2>3. j - 1 < k BY <2>1, <2>2
  <2> QED BY <2>1, <2>2, <2>3 DEF Announced, IsBegin
<1>5. CASE /\ ~\E j \in DOMAIN commands : j # 1 /\ j < k + 1 /\ IsBegin(j) /\ commands[j].utt = v
           /\ IsBegin(1) /\ commands[1].utt = v
  <2>1. OnBegin(v) BY <1>1, <1>2, <1>5 DEF IsBegin
  <2>2. \A j \in DOMAIN commands' : j < k => ~IsBegin(j)'
    <3> SUFFICES ASSUME NEW j \in DOMAIN commands', j < k, IsBegin(j)' PROVE FALSE
      OBVIOUS
    <3>1. /\ j \in Nat /\ j + 1 \in DOMAIN commands /\ j + 1 # 1
          /\ commands'[j] = commands[j + 1]
      BY <1>2
    <3>2. j + 1 < k + 1 /\ 1 < j + 1 BY <3>1
    <3>3. commands[j + 1].utt <= v /\ v <= commands[j + 1].utt
      BY <1>2, <1>5, <3>1, <3>2 DEF Base, Channel
    <3>4. commands[j + 1].utt \in Nat /\ v \in Nat BY <1>2, <1>5, <3>1, Numbers
    <3>5. commands[j + 1].utt = v BY <3>3, <3>4
    <3> QED BY <1>5, <3>1, <3>2, <3>5 DEF IsBegin
  <2>3. turn' = "Dictating" => begun' = v
    BY <2>1 DEF OnBegin, Base, Turns
  <2> QED BY <2>2, <2>3 DEF Announced
<1>6. CASE \A j \in DOMAIN commands : j < k + 1 => ~IsBegin(j)
  <2>1. \A j \in DOMAIN commands' : j < k => ~IsBegin(j)'
    <3> SUFFICES ASSUME NEW j \in DOMAIN commands', j < k PROVE ~IsBegin(j)'
      OBVIOUS
    <3>1. j \in Nat /\ j + 1 \in DOMAIN commands /\ commands'[j] = commands[j + 1] BY <1>2
    <3>2. j + 1 < k + 1 BY <3>1
    <3> QED BY <1>6, <3>1, <3>2 DEF IsBegin
  <2>2. ~IsBegin(1) BY <1>2, <1>3, <1>6
  <2>3. turn' \in {turn, "Forwarding"} /\ begun' = begun
    BY <1>1, <1>2, <2>2 DEF IsBegin, OnPartial, OnCommit, OnCancel
  <2>4. turn = "Dictating" => begun = v
    BY <1>6 DEF Announced
  <2> QED BY <2>1, <2>3, <2>4 DEF Announced
<1> QED BY <1>4, <1>5, <1>6 DEF Announced

\* The engine sends: a begin announces its utterance, a partial is of the one
\* announced.
LEMMA SentHome ==
  ASSUME Base, Home, NEW c \in Kinds, NEW u \in Nat, Send(c, u), loop' = loop,
         u = utt', utt' = utt \/ utt' = utt + 1, c # "Cancel" => u # 0,
         turn' = turn, begun' = begun, held' = held,
         c # "Begin" => utt' = utt /\ (phase' = "talking" => phase = "talking"),
         c = "Partial" => phase = "talking"
  PROVE  Home'
<1>1. PartialsStayHome' BY DEF Home, PartialsStayHome
<1>2. CASE ~Attached
  <2>1. commands' = <<>> BY <1>2 DEF Send, Base, Channel
  <2>2. DOMAIN commands' = {} /\ ~Attached' BY <1>2, <2>1, Emptied DEF Attached
  <2> QED BY <1>1, <2>2 DEF Home
<1>3. CASE Attached
  <2>1. PICK n : n = Len(commands) + 1 OBVIOUS
  <2>2. /\ n \in Nat /\ DOMAIN commands = 1..n - 1
        /\ DOMAIN commands' = 1..n /\ Len(commands') + 1 = n + 1
        /\ \A i \in DOMAIN commands : commands'[i] = commands[i]
        /\ commands'[n] = [cmd |-> c, utt |-> u]
        /\ \A v : \A k \in 1..n : Announced(k, v) => Announced(k, v)'
        /\ c = "Begin" => Announced(n + 1, u)'
        /\ c # "Begin" => \A v : Announced(n, v) => Announced(n + 1, v)'
    BY <1>3, <2>1, SentAnnounced
  <2>3. c # "Begin" /\ phase = "talking" => Announced(n, u) BY <1>3, <2>1 DEF Home
  <2>4. phase' = "talking" => Announced(n + 1, u)' BY <2>2, <2>3
  <2>5. \A k \in DOMAIN commands' :
          commands'[k].cmd = "Partial" => Announced(k, commands[k].utt)'
    <3> SUFFICES ASSUME NEW k \in DOMAIN commands', commands'[k].cmd = "Partial"
                 PROVE  Announced(k, commands[k].utt)'
      OBVIOUS
    <3>1. PICK v : v = commands'[k].utt OBVIOUS
    <3>2. CASE k = n
      <4>1. c = "Partial" /\ v = u /\ k \in 1..n BY <2>2, <3>1, <3>2
      <4>2. Announced(k, v)' BY <2>2, <2>3, <3>2, <4>1
      <4> QED BY <3>1, <4>2
    <3>3. CASE k # n
      <4>1. k \in DOMAIN commands /\ k \in 1..n /\ commands[k] = commands'[k] BY <2>2, <3>3
      <4>2. Announced(k, v) BY <3>1, <4>1 DEF Home
      <4>3. Announced(k, v)' BY <2>2, <4>1, <4>2
      <4> QED BY <3>1, <4>3
    <3> QED BY <3>2, <3>3
  <2>6. (phase = "talking" => Announced(Len(commands) + 1, utt))' BY <2>2, <2>4
  <2> QED BY <1>1, <2>5, <2>6 DEF Home
<1> QED BY <1>2, <1>3

\* Nothing is sent or handled.
LEMMA SameHome ==
  ASSUME Home, PartialsStayHome', commands' = commands, utt' = utt,
         turn' = "Forwarding" \/ (turn' = turn /\ begun' = begun),
         phase' = "talking" => phase = "talking", Attached' => Attached
  PROVE  Home'
<1>1. \A k, v : Announced(k, v) => Announced(k, v)' BY SameAnnounced
<1>2. \A k \in DOMAIN commands' :
        commands'[k].cmd = "Partial" => Announced(k, commands[k].utt)'
  BY <1>1 DEF Home
<1>3. (phase = "talking" /\ Attached => Announced(Len(commands) + 1, utt))'
  BY <1>1 DEF Home
<1> QED BY <1>2, <1>3 DEF Home

\* The frontend handles a command: a partial shown is of the utterance begun.
LEMMA CommandHome == ASSUME Base, Base', Home, OnCommand PROVE Home'
<1> DEFINE u == Head(commands).utt
<1>1. /\ commands # <<>> /\ commands' = Tail(commands) /\ loop' = loop /\ loop = "up"
      /\ utt' = utt /\ phase' = phase
      /\ \/ Head(commands).cmd = "Begin" /\ OnBegin(u)
         \/ Head(commands).cmd = "Partial" /\ OnPartial(u)
         \/ Head(commands).cmd = "Commit" /\ OnCommit(u)
         \/ Head(commands).cmd = "Cancel" /\ OnCancel
  BY DEF OnCommand, engine
<1>2. /\ 1 \in DOMAIN commands /\ Head(commands) = commands[1] /\ Len(commands) \in Nat
      /\ Len(commands') = Len(commands) - 1
      /\ DOMAIN commands = 1..Len(commands) /\ DOMAIN commands' = 1..Len(commands) - 1
      /\ \A i \in DOMAIN commands' : /\ i \in Nat /\ i + 1 \in DOMAIN commands /\ i + 1 # 1
                                    /\ commands'[i] = commands[i + 1]
  BY <1>1, Taking
<1>3. \A j \in DOMAIN commands : commands[j].utt \in 0..utt /\ j \in Nat BY Numbers
<1>4. PartialsStayHome'
  <2>1. u \in Nat BY <1>2, <1>3, Numbers
  <2>2. /\ Speech(u).of = "speech" /\ Speech(u).n = u /\ Speech(u) \in Texts
        /\ NoText \in Texts /\ NoText.of = "none" /\ NoPreedit.text = NoText
    BY <2>1, TextsTyped
  <2>3. CASE OnBegin(u) BY <2>2, <2>3 DEF OnBegin, PartialsStayHome, Home
  <2>4. CASE Head(commands).cmd = "Partial" /\ OnPartial(u)
    <3>1. CASE turn = "Dictating" /\ here /\ SetPreedit(Speech(u))
      <4>1. held'.text = Speech(u) BY <2>2, <3>1, PreeditSet DEF Base
      <4>2. Announced(1, u) BY <1>2, <2>4 DEF Home
      <4>3. \A j \in DOMAIN commands : ~(j < 1) BY <1>2
      <4>4. begun = u BY <3>1, <4>2, <4>3 DEF Announced
      <4> QED BY <2>2, <2>4, <4>1, <4>4 DEF PartialsStayHome, OnPartial
    <3>2. CASE held' = held BY <2>4, <3>2 DEF OnPartial, PartialsStayHome, Home
    <3> QED BY <2>4, <3>1, <3>2 DEF OnPartial
  <2>5. CASE OnCommit(u) \/ OnCancel
    <3>1. CASE SetPreedit(NoText)
      <4>1. held'.text = NoText BY <2>2, <3>1, PreeditSet DEF Base
      <4> QED BY <2>2, <4>1 DEF PartialsStayHome
    <3>2. CASE held' = held BY <2>5, <3>2 DEF OnCommit, OnCancel, PartialsStayHome, Home
    <3> QED BY <2>5, <3>1, <3>2 DEF OnCommit, OnCancel, Clears
  <2> QED BY <1>1, <2>3, <2>4, <2>5
<1>5. ASSUME NEW k \in DOMAIN commands', commands'[k].cmd = "Partial"
      PROVE  Announced(k, commands[k].utt)'
  <2>1. PICK v : v = commands'[k].utt OBVIOUS
  <2>2. /\ k \in Nat /\ k # 0 /\ k + 1 \in DOMAIN commands /\ commands'[k] = commands[k + 1]
    BY <1>2
  <2>3. Announced(k + 1, v) BY <1>5, <2>1, <2>2 DEF Home
  <2>4. \A j \in DOMAIN commands : j < k + 1 => commands[j].utt <= v
    BY <2>1, <2>2 DEF Base, Channel
  <2>5. Announced(k, v)' BY <2>2, <2>3, <2>4, TakenAnnounced
  <2> QED BY <2>1, <2>5
<1>6. (phase = "talking" /\ Attached => Announced(Len(commands) + 1, utt))'
  <2> SUFFICES ASSUME phase' = "talking" PROVE Announced(Len(commands) + 1, utt)'
    OBVIOUS
  <2>1. PICK k : k = Len(commands) OBVIOUS
  <2>2. PICK v : v = utt OBVIOUS
  <2>3. k \in Nat /\ k # 0 /\ Len(commands') + 1 = k BY <1>2, <2>1
  <2>4. Announced(k + 1, v) BY <1>1, <2>1, <2>2 DEF Home, Attached
  <2>5. \A j \in DOMAIN commands : j < k + 1 => commands[j].utt <= v BY <1>3, <2>2, Numbers
  <2>6. Announced(k, v)' BY <2>3, <2>4, <2>5, TakenAnnounced
  <2> QED BY <1>1, <2>2, <2>3, <2>6
<1> QED BY <1>4, <1>5, <1>6 DEF Home

\* Every step preserves it.
LEMMA StepHome == ASSUME Base, Base', Home, [Next]_vars PROVE Home'
<1>1. utt \in Nat BY Numbers
<1>2. CASE Begin BY <1>1, <1>2, SentHome DEF Begin, frontend, Kinds
<1>3. CASE SendPartial
  <2>1. phase = "talking" /\ utt # 0 BY <1>3 DEF SendPartial, Base, Phases
  <2> QED BY <1>1, <1>3, <2>1, SentHome DEF SendPartial, frontend, Kinds
<1>4. CASE SendCommit
  <2>1. utt # 0 BY <1>4 DEF SendCommit, Base, Phases
  <2> QED BY <1>1, <1>4, <2>1, SentHome DEF SendCommit, frontend, Kinds
<1>5. CASE CancelUtterance
  BY <1>1, <1>5, SentHome DEF CancelUtterance, frontend, Kinds
<1>6. CASE LookPartial \/ Close \/ LookCommit \/ TypeText \/ Fail \/ UNCHANGED vars
  <2>1. UNCHANGED <<utt, link, frontend>> /\ (phase' = "talking" => phase = "talking")
    BY <1>6 DEF LookPartial, Close, LookCommit, TypeText, Fail, vars, engine
  <2>2. PartialsStayHome' BY <2>1 DEF Home, PartialsStayHome, frontend
  <2> QED BY <2>1, <2>2, SameHome DEF link, frontend, Attached
<1>7. CASE OnCommand BY <1>7, CommandHome
<1>8. CASE OnDone
  <2>1. /\ held' = NoPreedit /\ UNCHANGED <<engine, loop, commands>>
    BY <1>8 DEF OnDone, Activate, Deactivate
  <2>2. turn' = "Forwarding"
    BY <1>8 DEF OnDone, Activate, Deactivate, TurnEnds, Base, Turns, TypeOK
  <2>3. PartialsStayHome' BY <2>1, TextsTyped DEF PartialsStayHome
  <2> QED BY <2>1, <2>2, <2>3, SameHome DEF engine, Attached
<1>9. CASE KeyComposes \/ KeyCommits \/ OnUpstream
  <2>1. UNCHANGED <<engine, link, turn, begun>>
    BY <1>9 DEF KeyComposes, KeyCommits, OnUpstream
  <2>2. held'.text.of # "speech"
    <3>1. \A t \in Texts : SetPreedit(t) => held'.text = t BY PreeditSet DEF Base
    <3>2. CASE KeyComposes
      <4>1. conv' \in Nat BY BoundsAssumption DEF Base, TypeOK
      <4> QED BY <3>1, <3>2, <4>1, TextsTyped DEF KeyComposes
    <3>3. CASE KeyCommits BY <3>1, <3>3, TextsTyped DEF KeyCommits
    <3>4. CASE OnUpstream
      <4>1. signals # <<>> /\ signals \in Seq(Texts) BY <3>4 DEF OnUpstream, Base, TypeOK
      <4>2. Head(signals) \in Texts /\ Head(signals).of # "speech"
        <5>1. Head(signals) = signals[1] /\ 1 \in DOMAIN signals /\ Head(signals) \in Texts
          BY <4>1, Received
        <5> QED BY <5>1 DEF Base, Turns
      <4> QED BY <3>1, <3>4, <4>2 DEF OnUpstream
    <3> QED BY <1>9, <3>2, <3>3, <3>4
  <2>3. PartialsStayHome' BY <2>2 DEF PartialsStayHome
  <2> QED BY <2>1, <2>3, SameHome DEF engine, link, Attached
<1>10. CASE SetBound \/ LoopEnds \/ Unbind \/ World
  <2>1. UNCHANGED <<engine, commands, frontend>> /\ (Attached' => Attached)
    BY <1>10 DEF SetBound, LoopEnds, Unbind, World, IbusUpdates, FocusMoves, link, Attached
  <2>2. PartialsStayHome' BY <2>1 DEF Home, PartialsStayHome, frontend
  <2> QED BY <2>1, <2>2, SameHome DEF engine, frontend
<1>11. CASE Attach
  <2>1. /\ commands' = commands /\ commands = <<>> /\ turn' = "Forwarding" /\ held' = NoPreedit
    BY <1>11 DEF Attach, Base, Channel, Attached
  <2>2. DOMAIN commands' = {} BY <2>1, Emptied
  <2>3. PartialsStayHome' BY <2>1, TextsTyped DEF PartialsStayHome
  <2>4. Announced(Len(commands) + 1, utt)' BY <2>1, <2>2 DEF Announced
  <2> QED BY <2>2, <2>3, <2>4 DEF Home
<1>12. CASE Detach
  <2>1. commands' = <<>> /\ ~Attached' /\ UNCHANGED <<held, begun>>
    BY <1>12 DEF Detach, Attached, frontend
  <2>2. DOMAIN commands' = {} BY <2>1, Emptied
  <2>3. PartialsStayHome' BY <2>1 DEF Home, PartialsStayHome
  <2> QED BY <2>1, <2>2, <2>3 DEF Home
<1> QED
  BY <1>2, <1>3, <1>4, <1>5, <1>6, <1>7, <1>8, <1>9, <1>10, <1>11, <1>12
  DEF Next, Engine, Frontend, Supervisor

\* A partial is shown only in the activation its utterance began in: not in the
\* field focus moves to next (frontend.rs, deactivate), nor in a preedit the
\* keyboard believes it owns (dictation.rs, rule 2).
THEOREM StayHome == Spec => []PartialsStayHome
<1>1. Init => Home
  <2>1. DOMAIN <<>> = {} BY Emptied
  <2> QED BY <2>1, TextsTyped DEF Init, Home, PartialsStayHome
<1>2. Base /\ Base' /\ Home /\ [Next]_vars => Home' BY StepHome
<1>3. Home => PartialsStayHome BY DEF Home
<1> QED BY <1>1, <1>2, <1>3, BaseHolds, PTL DEF Spec

-----------------------------------------------------------------------------
(* An utterance in whose time nothing moved leaves nothing behind *)

NoBegin == \A k \in DOMAIN commands : ~IsBegin(k)

\* The utterance's end is in the channel, and nothing begins behind it.
Ends == \E k \in DOMAIN commands :
          /\ commands[k].cmd \in {"Commit", "Cancel"}
          /\ \A j \in DOMAIN commands : j > k => ~IsBegin(j)

\* The keyboard has the turn, or the utterance's end will give it to it.
Over == Ends \/ (turn = "Forwarding" /\ (NoBegin \/ (~here /\ Current)))

\* In an utterance in whose time nothing moved the frontend knows where the
\* focus is; after it the turn is the keyboard's, or will be.
Tidy ==
  /\ phase # "rest" /\ utt \notin moved => Current
  /\ Attached /\ phase = "rest" /\ utt # 0 /\ utt \notin moved \cup failed => Over

\* What ends an utterance comes last.
LEMMA SentEnds ==
  ASSUME Base, NEW c \in {"Commit", "Cancel"}, Send(c, utt), loop' = loop, utt' = utt,
         c # "Cancel" => utt # 0, Attached
  PROVE  Ends'
<1>1. /\ DOMAIN commands' = 1..Len(commands) + 1 /\ Len(commands) \in Nat
      /\ commands'[Len(commands) + 1] = [cmd |-> c, utt |-> utt]
  BY Sending, Numbers DEF Kinds
<1>2. PICK n : n = Len(commands) + 1 OBVIOUS
<1>3. n \in DOMAIN commands' /\ \A j \in DOMAIN commands' : ~(j > n) BY <1>1, <1>2
<1>4. commands'[n].cmd \in {"Commit", "Cancel"} BY <1>1, <1>2
<1> QED BY <1>3, <1>4 DEF Ends

\* The engine's steps.
LEMMA EngineTidy == ASSUME Base, Tidy, Engine PROVE Tidy'
<1>1. Current' <=> Current
  BY DEF Engine, Begin, LookPartial, SendPartial, Close, LookCommit, SendCommit, TypeText,
         CancelUtterance, Fail, compositor, link, frontend, Current
<1>2. CASE Begin BY <1>1, <1>2 DEF Begin, Tidy
<1>3. CASE SendPartial \/ LookPartial \/ Close \/ LookCommit
  <2>1. phase # "rest" /\ phase' # "rest" /\ UNCHANGED <<utt, moved>>
    BY <1>3 DEF SendPartial, LookPartial, Close, LookCommit, Base, Phases
  <2> QED BY <1>1, <2>1 DEF Tidy
<1>4. CASE SendCommit
  <2>1. /\ Send("Commit", utt) /\ utt' = utt /\ loop' = loop /\ utt # 0 /\ phase' = "rest"
    BY <1>4 DEF SendCommit, Base, Phases
  <2>2. Attached => Ends' BY <2>1, SentEnds
  <2> QED BY <2>1, <2>2 DEF Tidy, Over, Attached
<1>5. CASE CancelUtterance
  <2>1. /\ Send("Cancel", utt) /\ utt' = utt /\ loop' = loop /\ phase' = "rest"
    BY <1>5 DEF CancelUtterance
  <2>2. Attached => Ends' BY <2>1, SentEnds
  <2> QED BY <2>1, <2>2 DEF Tidy, Over, Attached
<1>6. CASE TypeText
  <2>1. /\ phase = "closing" /\ phase' = "rest" /\ ~IsActive
        /\ UNCHANGED <<utt, moved, failed, link, frontend>>
    BY <1>6 DEF TypeText
  <2>2. utt \notin moved => Over'
    <3> SUFFICES ASSUME utt \notin moved PROVE Over' OBVIOUS
    <3>1. Current /\ loop = "up" BY <2>1 DEF Tidy, Current
    <3>2. ~here /\ turn = "Forwarding"
      BY <2>1, <3>1 DEF IsActive, Bound, Base, Turns, TypeOK
    <3> QED BY <1>1, <2>1, <3>1, <3>2 DEF Over, frontend
  <2> QED BY <2>1, <2>2 DEF Tidy, Attached, link
<1>7. CASE Fail
  <2>1. /\ phase' = "rest" /\ failed' = failed \cup {utt} /\ utt' = utt
    BY <1>7 DEF Fail
  <2> QED BY <2>1 DEF Tidy
<1> QED BY <1>2, <1>3, <1>4, <1>5, <1>6, <1>7 DEF Engine

\* The frontend handles a command: the utterance's end takes the turn back.
LEMMA CommandTidy == ASSUME Base, Tidy, OnCommand PROVE Tidy'
<1> DEFINE u == Head(commands).utt
<1>1. /\ commands # <<>> /\ commands' = Tail(commands) /\ loop = "up"
      /\ UNCHANGED <<focus, events, loop, here, utt, phase, moved, failed>>
      /\ \/ Head(commands).cmd = "Begin" /\ OnBegin(u)
         \/ Head(commands).cmd = "Partial" /\ OnPartial(u)
         \/ Head(commands).cmd = "Commit" /\ OnCommit(u)
         \/ Head(commands).cmd = "Cancel" /\ OnCancel
  BY DEF OnCommand, engine
<1>2. /\ 1 \in DOMAIN commands /\ Head(commands) = commands[1]
      /\ \A i \in DOMAIN commands' : /\ i \in Nat /\ i + 1 \in DOMAIN commands /\ i + 1 # 1
                                    /\ commands'[i] = commands[i + 1]
      /\ \A i \in DOMAIN commands :
           i # 1 => i \in Nat /\ i - 1 \in DOMAIN commands' /\ (i - 1) + 1 = i
      /\ \A i \in DOMAIN commands : i \in 1..Len(commands)
  BY <1>1, Taking
<1>3. Current' <=> Current BY <1>1 DEF Current
<1>4. ASSUME Ends PROVE Over'
  <2>1. PICK k \in DOMAIN commands : /\ commands[k].cmd \in {"Commit", "Cancel"}
                                     /\ \A j \in DOMAIN commands : j > k => ~IsBegin(j)
    BY <1>4 DEF Ends
  <2>2. CASE k = 1
    <3>1. turn' = "Forwarding" BY <1>1, <1>2, <2>1, <2>2 DEF OnCommit, OnCancel
    <3>2. \A i \in DOMAIN commands' : ~IsBegin(i)'
      <4> SUFFICES ASSUME NEW i \in DOMAIN commands' PROVE ~IsBegin(i)' OBVIOUS
      <4>1. /\ i + 1 \in DOMAIN commands /\ i + 1 # 1 /\ i \in Nat
            /\ commands'[i] = commands[i + 1]
        BY <1>2
      <4>2. i + 1 > 1 BY <4>1
      <4> QED BY <2>1, <2>2, <4>1, <4>2 DEF IsBegin
    <3> QED BY <3>1, <3>2 DEF Over, NoBegin
  <2>3. CASE k # 1
    <3>1. k \in Nat /\ k - 1 \in DOMAIN commands' /\ commands'[k - 1] = commands[k]
      BY <1>2, <2>3
    <3>2. \A j \in DOMAIN commands' : j > k - 1 => ~IsBegin(j)'
      <4> SUFFICES ASSUME NEW j \in DOMAIN commands', j > k - 1 PROVE ~IsBegin(j)' OBVIOUS
      <4>1. j \in Nat /\ j + 1 \in DOMAIN commands /\ commands'[j] = commands[j + 1] BY <1>2
      <4>2. j + 1 > k BY <3>1, <4>1
      <4> QED BY <2>1, <4>1, <4>2 DEF IsBegin
    <3> QED BY <2>1, <3>1, <3>2 DEF Over, Ends
  <2> QED BY <2>2, <2>3
<1>5. ASSUME turn = "Forwarding", NoBegin PROVE Over'
  <2>1. turn' = "Forwarding"
    BY <1>1, <1>2, <1>5 DEF NoBegin, IsBegin, OnPartial, OnCommit, OnCancel
  <2>2. \A i \in DOMAIN commands' : ~IsBegin(i)' BY <1>2, <1>5 DEF NoBegin, IsBegin
  <2> QED BY <2>1, <2>2 DEF Over, NoBegin
<1>6. ASSUME turn = "Forwarding", ~here, Current PROVE Over'
  <2>1. turn' = "Forwarding" BY <1>1, <1>6 DEF OnBegin, OnPartial, OnCommit, OnCancel
  <2> QED BY <1>1, <1>3, <1>6, <2>1 DEF Over
<1>7. Over => Over' BY <1>4, <1>5, <1>6 DEF Over
<1> QED BY <1>1, <1>3, <1>7 DEF Tidy, Attached

\* The world moves in the time of whatever is in the channel.
LEMMA MovedTidy == ASSUME Base, Tidy, LoopEnds \/ \E f \in Fields \cup {"window"} : FocusMoves(f)
                   PROVE  Tidy'
<1>1. /\ moved' = moved \cup InProgress
      /\ UNCHANGED <<utt, phase, failed, commands, turn, here>> /\ (Attached' => Attached)
  BY DEF LoopEnds, FocusMoves, WorldMoves, engine, link, frontend, Attached
<1>2. phase # "rest" => utt \in moved' BY <1>1 DEF InProgress
<1>3. ~NoBegin => utt \in moved'
  <2> SUFFICES ASSUME ~NoBegin PROVE utt \in moved' OBVIOUS
  <2>1. commands \in Seq(Cmds(utt)) BY TypesNamed DEF Base
  <2>2. commands # <<>>
    <3>1. DOMAIN <<>> = {} BY Emptied
    <3> QED BY <3>1 DEF NoBegin
  <2>3. Len(commands) \in DOMAIN commands BY <2>1, <2>2, LenProperties, EmptySeq
  <2>4. commands[Len(commands)].utt = utt BY <2>2 DEF Base, Channel
  <2> QED BY <1>1, <2>3, <2>4 DEF InProgress
<1>4. Ends => Ends' BY <1>1 DEF Ends, IsBegin
<1>5. NoBegin => NoBegin' BY <1>1 DEF NoBegin, IsBegin
<1> QED BY <1>1, <1>2, <1>3, <1>4, <1>5 DEF Tidy, Over

\* Every step preserves it.
LEMMA StepTidy == ASSUME Base, Tidy, [Next]_vars PROVE Tidy'
<1>1. CASE Engine BY <1>1, EngineTidy
<1>2. CASE OnCommand BY <1>2, CommandTidy
<1>3. CASE OnDone
  <2>1. ~Current /\ UNCHANGED <<engine, loop, commands, moved>>
    BY <1>3 DEF OnDone, Current
  <2>2. turn' = "Forwarding"
    BY <1>3 DEF OnDone, Activate, Deactivate, TurnEnds, Base, Turns, TypeOK
  <2>3. Ends => Ends' BY <2>1 DEF Ends, IsBegin
  <2>4. NoBegin => NoBegin' BY <2>1 DEF NoBegin, IsBegin
  <2> QED BY <2>1, <2>2, <2>3, <2>4 DEF Tidy, Over, engine, Attached
<1>4. CASE LoopEnds \/ \E f \in Fields \cup {"window"} : FocusMoves(f) BY <1>4, MovedTidy
<1>5. CASE Attach
  <2>1. /\ commands' = commands /\ commands = <<>> /\ turn' = "Forwarding"
        /\ UNCHANGED <<engine, moved>> /\ ~Current
    BY <1>5 DEF Attach, Base, Channel, Attached, Current
  <2>2. DOMAIN commands' = {} BY <2>1, Emptied
  <2>3. Over' BY <2>1, <2>2 DEF Over, NoBegin
  <2> QED BY <2>1, <2>3 DEF Tidy, engine
<1>6. CASE Detach
  BY <1>6 DEF Detach, Tidy, Current, Attached, engine
<1>7. CASE SetBound \/ Unbind
  <2>1. ~Current /\ UNCHANGED <<engine, commands, frontend, moved>> /\ Attached
    BY <1>7 DEF SetBound, Unbind, Current, Attached
  <2>2. Ends => Ends' BY <2>1 DEF Ends, IsBegin
  <2>3. NoBegin => NoBegin' BY <2>1 DEF NoBegin, IsBegin
  <2> QED BY <2>1, <2>2, <2>3 DEF Tidy, Over, engine, frontend
<1>8. CASE KeyComposes \/ KeyCommits \/ OnUpstream \/ IbusUpdates \/ UNCHANGED vars
  <2>1. UNCHANGED <<focus, events, engine, link, here, turn, moved>>
    BY <1>8 DEF KeyComposes, KeyCommits, OnUpstream, IbusUpdates, vars, compositor, frontend
  <2>2. Current' <=> Current BY <2>1 DEF Current, link
  <2>3. Ends => Ends' BY <2>1 DEF Ends, IsBegin, link
  <2>4. NoBegin => NoBegin' BY <2>1 DEF NoBegin, IsBegin, link
  <2> QED BY <2>1, <2>2, <2>3, <2>4 DEF Tidy, Over, engine, link, Attached
<1> QED BY <1>1, <1>2, <1>3, <1>4, <1>5, <1>6, <1>7, <1>8 DEF Next, Frontend, Supervisor, World

\* An utterance in whose time nothing moved leaves nothing behind: once its
\* commands are handled the keyboard has the turn and no recogniser's preedit is
\* held, unless it ended in an error (dictation.rs, advance; engine.rs,
\* on_segment).
THEOREM NothingLeft == Spec => []SteadyLeavesNothing
<1>1. Init => Tidy BY DEF Init, Tidy
<1>2. Base /\ Tidy /\ [Next]_vars => Tidy' BY StepTidy
<1>3. Base /\ Tidy => SteadyLeavesNothing
  <2> SUFFICES ASSUME Base, Tidy, phase = "rest", utt # 0, utt \notin moved \cup failed,
                      commands = <<>>, loop = "up"
               PROVE  turn = "Forwarding" /\ held.text.of # "speech"
    BY DEF SteadyLeavesNothing
  <2>1. DOMAIN commands = {} BY Emptied
  <2>2. Over /\ ~Ends BY <2>1 DEF Tidy, Attached, Ends
  <2> QED BY <2>2 DEF Over, Base, Turns
<1> QED BY <1>1, <1>2, <1>3, BaseHolds, PTL DEF Spec
===============================================================================
