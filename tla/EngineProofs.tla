---------------------------- MODULE EngineProofs ----------------------------
(***************************************************************************)
(* What holds of Engine for every cap, every number of utterances and cuts *)
(* and every backlog: its types, the bookkeeping of outstanding segments,  *)
(* the order of a transcript, and that it implements Utterances.           *)
(***************************************************************************)
EXTENDS Engine, SequenceTheorems, TLAPS

-----------------------------------------------------------------------------
(* The operators Engine is built from *)

\* A function on 1..n is a sequence of length n (SequenceTheorems states it
\* for an operator parameter, which no prover here takes).
LEMMA FunctionIsSeq ==
  ASSUME NEW n \in Nat, NEW S, NEW f \in [1..n -> S]
  PROVE  f \in Seq(S) /\ Len(f) = n /\ DOMAIN f = 1..n
<1>1. f \in Seq(S)
  BY SeqDef
<1>2. QED
  BY <1>1, LenProperties

\* What one call of listen concludes is well formed.
LEMMA OutcomeType ==
  ASSUME NEW v, NEW n \in Int, NEW o \in Outcomes(v, n)
  PROVE  /\ o.cuts \in Seq(BOOLEAN)
         /\ o.over \in BOOLEAN
         /\ o.fed \in Nat
         /\ o.voiced \in BOOLEAN
<1>1. /\ o.cuts \in UNION {[1..k -> BOOLEAN] : k \in 0..n}
      /\ o.over \in BOOLEAN /\ o.fed \in 0..1 /\ o.voiced \in BOOLEAN
  BY DEF Outcomes
<1>2. PICK k \in 0..n : o.cuts \in [1..k -> BOOLEAN]
  BY <1>1
<1>3. o.cuts \in Seq(BOOLEAN)
  BY <1>2, FunctionIsSeq
<1>4. QED
  BY <1>1, <1>3

\* So is what two calls conclude together.
LEMMA ThenType ==
  ASSUME NEW v, NEW n \in Int, NEW o \in Outcomes(v, n),
         NEW w, NEW m \in Int, NEW p \in Outcomes(w, m)
  PROVE  /\ Then(o, p).cuts \in Seq(BOOLEAN)
         /\ Then(o, p).fed \in Nat
         /\ Then(o, p).voiced \in BOOLEAN
<1>1. /\ o.cuts \in Seq(BOOLEAN) /\ o.fed \in Nat
      /\ p.cuts \in Seq(BOOLEAN) /\ p.fed \in Nat /\ p.voiced \in BOOLEAN
  BY OutcomeType
<1>2. o.cuts \o p.cuts \in Seq(BOOLEAN)
  BY <1>1, ConcatProperties
<1>3. QED
  BY <1>1, <1>2 DEF Then

\* cut_segment adds as many segments to the count as it hands over, numbers
\* them on, and touches no other utterance's.
LEMMA DispatchEffect ==
  ASSUME utt \in Utterance, segments \in Seq(Segment),
         NEW cuts \in Seq(BOOLEAN), NEW last \in BOOLEAN, Dispatch(cuts, last)
  PROVE  /\ utt' \in Utterance
         /\ utt'.seq = utt.seq /\ utt'.texts = utt.texts
         /\ utt'.sent = utt.sent + Len(cuts)
         /\ utt'.wait = utt.wait + Len(cuts)
         /\ utt'.last = IF cuts = <<>> THEN utt.last ELSE last
         /\ segments' \in Seq(Segment)
         /\ Dead("offline") => segments' = segments
         /\ ~Dead("offline") =>
              /\ Len(segments') = Len(segments) + Len(cuts)
              /\ \A i \in 1..Len(segments) : segments'[i] = segments[i]
              /\ \A i \in Len(segments) + 1..Len(segments') :
                   /\ segments'[i].seq = utt.seq
                   /\ segments'[i].seg = utt.sent + (i - Len(segments))
<1> DEFINE new == [i \in DOMAIN cuts |-> [seq    |-> utt.seq,
                                          seg    |-> utt.sent + i,
                                          answer |-> Pending]]
<1>1. Len(cuts) \in Nat /\ DOMAIN cuts = 1..Len(cuts)
  BY LenProperties
<1>2. /\ utt.seq \in Nat /\ utt.sent \in Nat /\ utt.wait \in Nat
      /\ utt.last \in BOOLEAN /\ utt.error \in BOOLEAN /\ utt.heard \in BOOLEAN
      /\ utt.texts \in Seq(Nat)
  BY DEF Utterance
<1>3. utt' = [utt EXCEPT !.sent  = @ + Len(cuts),
                         !.wait  = @ + Len(cuts),
                         !.last  = IF cuts = <<>> THEN @ ELSE last,
                         !.heard = @ \/ \E i \in DOMAIN cuts : cuts[i]]
  BY DEF Dispatch
<1>4. /\ utt'.seq = utt.seq /\ utt'.texts = utt.texts
      /\ utt'.sent = utt.sent + Len(cuts)
      /\ utt'.wait = utt.wait + Len(cuts)
      /\ utt'.last = IF cuts = <<>> THEN utt.last ELSE last
      /\ utt' \in Utterance
  <2> DEFINE h == utt.heard \/ \E i \in DOMAIN cuts : cuts[i]
             l == IF cuts = <<>> THEN utt.last ELSE last
  <2>1. h \in BOOLEAN /\ l \in BOOLEAN
    BY <1>2
  <2>2. utt' = [utt EXCEPT !.sent = utt.sent + Len(cuts),
                           !.wait = utt.wait + Len(cuts),
                           !.last = l, !.heard = h]
    BY <1>3, Zenon
  <2> HIDE DEF h, l
  <2>3. utt' = [seq |-> utt.seq, sent |-> utt.sent + Len(cuts),
                wait |-> utt.wait + Len(cuts), last |-> l,
                error |-> utt.error, heard |-> h, texts |-> utt.texts]
    BY <2>2 DEF Utterance
  <2>4. utt' \in Utterance
    BY <1>1, <1>2, <2>1, <2>3 DEF Utterance
  <2>5. QED
    BY <2>3, <2>4 DEF l
<1>5. new \in [1..Len(cuts) -> Segment]
  BY <1>1, <1>2 DEF Segment
<1>6. new \in Seq(Segment) /\ Len(new) = Len(cuts)
  BY <1>1, <1>5, FunctionIsSeq
<1>7. CASE Dead("offline")
  BY <1>4, <1>7 DEF Dispatch
<1>8. CASE ~Dead("offline")
  <2>1. segments' = segments \o new
    BY <1>8 DEF Dispatch
  <2> HIDE DEF new
  <2>2. /\ segments' \in Seq(Segment)
        /\ Len(segments') = Len(segments) + Len(cuts)
        /\ \A i \in 1..Len(segments) + Len(cuts) :
             segments'[i] = IF i <= Len(segments) THEN segments[i]
                            ELSE new[i - Len(segments)]
    <3>1. /\ segments \o new \in Seq(Segment)
          /\ Len(segments \o new) = Len(segments) + Len(new)
          /\ \A i \in 1..Len(segments) + Len(new) :
               (segments \o new)[i] = IF i <= Len(segments) THEN segments[i]
                                      ELSE new[i - Len(segments)]
      BY <1>6, ConcatProperties, Zenon
    <3>2. QED
      BY <1>6, <2>1, <3>1, Zenon
  <2>3. Len(segments) \in Nat
    BY LenProperties
  <2>4. \A i \in 1..Len(segments) : segments'[i] = segments[i]
    BY <1>1, <2>2, <2>3
  <2>5. ASSUME NEW i \in Len(segments) + 1..Len(segments')
        PROVE  /\ segments'[i].seq = utt.seq
               /\ segments'[i].seg = utt.sent + (i - Len(segments))
    <3>1. i - Len(segments) \in 1..Len(cuts) /\ segments'[i] = new[i - Len(segments)]
      BY <1>1, <2>2, <2>3
    <3>2. segments'[i] = [seq    |-> utt.seq,
                          seg    |-> utt.sent + (i - Len(segments)),
                          answer |-> Pending]
      BY <1>1, <3>1 DEF new
    <3>3. QED
      BY <3>2
  <2>6. QED
    BY <1>4, <1>8, <2>2, <2>4, <2>5
<1>9. QED
  BY <1>7, <1>8

\* Sending commands to the streaming thread keeps its queue one of commands.
LEMMA SendType ==
  ASSUME feeds \in Seq(Command), NEW cmds \in Seq(Command), Send(cmds)
  PROVE  feeds' \in Seq(Command)
BY ConcatProperties DEF Send

\* The chunks of one call of listen are such commands.
LEMMA ChunksType ==
  ASSUME utt \in Utterance, NEW n \in Nat
  PROVE  Chunks(n) \in Seq(Command)
<1>1. Chunks(n) \in [1..n -> Command]
  BY DEF Chunks, Command, Utterance
<1>2. QED
  BY <1>1, FunctionIsSeq

\* An abandoned utterance is a fresh one with a higher number.
LEMMA AbandonedEffect ==
  ASSUME NEW u \in Utterance
  PROVE  /\ Abandoned(u) \in Utterance
         /\ Abandoned(u).seq = u.seq + 1
         /\ Abandoned(u).wait = 0 /\ Abandoned(u).sent = 0
         /\ ~Abandoned(u).last /\ Abandoned(u).texts = <<>>
<1>1. <<>> \in Seq(Nat)
  BY EmptySeq
<1>2. QED
  BY <1>1 DEF Abandoned, NewUtterance, Utterance

\* An answer that is awaited comes off the count, and its text, if any, goes
\* to the end of the transcript.
LEMMA FiledEffect ==
  ASSUME NEW u \in Utterance, NEW s \in Segment
  PROVE  /\ Filed(u, s) \in Utterance
         /\ Filed(u, s).seq = u.seq /\ Filed(u, s).sent = u.sent
         /\ Filed(u, s).last = u.last
         /\ Filed(u, s).wait = IF u.wait = 0 THEN 0 ELSE u.wait - 1
         /\ Filed(u, s).texts \in {u.texts, Append(u.texts, s.seg)}
<1>1. /\ u.seq \in Nat /\ u.sent \in Nat /\ u.wait \in Nat
      /\ u.last \in BOOLEAN /\ u.error \in BOOLEAN /\ u.heard \in BOOLEAN
      /\ u.texts \in Seq(Nat) /\ s.seg \in Nat
  BY DEF Utterance, Segment
<1>2. Append(u.texts, s.seg) \in Seq(Nat)
  BY <1>1
<1> DEFINE w == IF u.wait = 0 THEN 0 ELSE u.wait - 1
           e == u.error \/ s.answer = "error"
           t == IF s.answer = "text" THEN Append(u.texts, s.seg) ELSE u.texts
<1>3. w \in Nat /\ e \in BOOLEAN /\ t \in Seq(Nat)
  BY <1>1, <1>2
<1>4. Filed(u, s) = [u EXCEPT !.wait = w, !.error = e, !.texts = t]
  BY Zenon DEF Filed
<1>5. t \in {u.texts, Append(u.texts, s.seg)}
  OBVIOUS
<1> HIDE DEF w, e, t
<1>6. Filed(u, s) = [seq |-> u.seq, sent |-> u.sent, wait |-> w,
                     last |-> u.last, error |-> e, heard |-> u.heard,
                     texts |-> t]
  BY <1>4 DEF Utterance
<1>7. Filed(u, s) \in Utterance
  BY <1>1, <1>3, <1>6 DEF Utterance
<1>8. QED
  BY <1>5, <1>6, <1>7 DEF w

-----------------------------------------------------------------------------
(* Type correctness, one handler at a time *)

LEMMA InitType == Init => TypeOK
<1> SUFFICES ASSUME Init PROVE TypeOK
  OBVIOUS
<1> USE ConfigAssumption
<1>1. NewUtterance(0) \in Utterance
  BY EmptySeq DEF NewUtterance, Utterance
<1>2. /\ segments \in Seq(Segment) /\ feeds \in Seq(Command)
      /\ partials \in Seq(SUBSET Nat) /\ landed \in [seq: Nat, segs: Seq(Nat)]
  BY EmptySeq DEF Init
<1>3. lastHyp \in SUBSET Nat /\ decoder \in SUBSET Nat /\ elapsed \in 0..MaxSecs - 1
  BY DEF Init, NoHyp
<1>4. /\ models \in [Threads -> {"loading", "up", "failed"}]
      /\ notices \in [Threads -> {"none", "Ready", "LoadFailed"}]
  BY DEF Init
<1>5. QED
  BY <1>1, <1>2, <1>3, <1>4 DEF Init, TypeOK, States

LEMMA StartType ==
  ASSUME TypeOK, NEW s \in {"Held", "Open"}, StartRecording(s)
  PROVE  TypeOK'
<1> DEFINE reset == <<[cmd |-> "Reset", of |-> 0]>>
<1>1. utt' \in Utterance
  BY AbandonedEffect DEF TypeOK, StartRecording
<1>2. reset \in Seq(Command)
  BY DEF Command
<1> HIDE DEF reset
<1>3. feeds' \in Seq(Command)
  <2>1. Send(reset)
    BY DEF StartRecording, reset
  <2>2. QED
    BY <1>2, <2>1, SendType DEF TypeOK
<1>4. lastHyp' \in SUBSET Nat /\ elapsed' \in 0..MaxSecs - 1
  BY ConfigAssumption DEF StartRecording, NoHyp
<1>5. QED
  BY <1>1, <1>3, <1>4 DEF TypeOK, StartRecording, States

\* What Finish is given by each of its callers.
FinishInput(o) ==
  o.cuts \in Seq(BOOLEAN) /\ o.fed \in Nat /\ o.voiced \in BOOLEAN

LEMMA FinalCutsType ==
  ASSUME NEW o, FinishInput(o)
  PROVE  /\ FinalCuts(o) \in Seq(BOOLEAN)
         /\ Len(FinalCuts(o)) \in Nat \ {0}
         /\ FinalCuts(o) # <<>>
<1>1. /\ FinalCuts(o) \in Seq(BOOLEAN)
      /\ Len(FinalCuts(o)) = Len(o.cuts) + 1
  BY DEF FinalCuts, FinishInput
<1>2. Len(o.cuts) \in Nat
  BY LenProperties DEF FinishInput
<1>3. QED
  BY <1>1, <1>2, EmptySeq

LEMMA FinishType ==
  ASSUME TypeOK, NEW o, FinishInput(o), Finish(o)
  PROVE  TypeOK'
<1>1. utt' \in Utterance /\ segments' \in Seq(Segment)
  BY FinalCutsType, DispatchEffect DEF TypeOK, Finish
<1>2. feeds' \in Seq(Command)
  BY ChunksType, SendType DEF TypeOK, Finish, FinishInput
<1>3. QED
  BY <1>1, <1>2 DEF TypeOK, Finish, States

\* Every way a recording ends gives Finish what it needs.
LEMMA FinishRecordingInput ==
  ASSUME TypeOK, FinishRecording
  PROVE  \E o : FinishInput(o) /\ Finish(o)
<1>1. MaxCuts - utt.sent \in Int
  BY ConfigAssumption DEF TypeOK, Utterance
<1>2. PICK o \in Outcomes(voiced, MaxCuts - utt.sent) : Finish(o)
  BY DEF FinishRecording
<1>3. FinishInput(o)
  BY <1>1, OutcomeType DEF FinishInput
<1>4. QED
  BY <1>2, <1>3

LEMMA TickFinishesInput ==
  ASSUME TypeOK, NEW secs, TickFinishes(secs)
  PROVE  \E o : FinishInput(o) /\ Finish(o)
<1>1. MaxCuts - utt.sent \in Int
  BY ConfigAssumption DEF TypeOK, Utterance
<1>2. PICK o \in Outcomes(voiced, MaxCuts - utt.sent) :
        \E p \in Outcomes(o.voiced, MaxCuts - utt.sent - Len(o.cuts)) :
          Finish(Then(o, p))
  BY DEF TickFinishes
<1>3. PICK p \in Outcomes(o.voiced, MaxCuts - utt.sent - Len(o.cuts)) :
        Finish(Then(o, p))
  BY <1>2
<1>4. MaxCuts - utt.sent - Len(o.cuts) \in Int
  BY <1>1, OutcomeType, LenProperties
<1>5. FinishInput(Then(o, p))
  BY <1>1, <1>4, ThenType DEF FinishInput
<1>6. QED
  BY <1>3, <1>5

LEMMA ListenType ==
  ASSUME TypeOK, NEW secs \in {elapsed, elapsed + 1}, Listen(secs)
  PROVE  TypeOK'
<1>1. MaxCuts - utt.sent \in Int
  BY ConfigAssumption DEF TypeOK, Utterance
<1>2. PICK o \in Outcomes(voiced, MaxCuts - utt.sent) :
        Dispatch(o.cuts, FALSE) /\ Send(Chunks(o.fed)) /\ voiced' = o.voiced
  BY DEF Listen
<1>3. o.cuts \in Seq(BOOLEAN) /\ o.fed \in Nat /\ o.voiced \in BOOLEAN
  BY <1>1, OutcomeType
<1>4. utt' \in Utterance /\ segments' \in Seq(Segment)
  BY <1>2, <1>3, DispatchEffect DEF TypeOK
<1>5. feeds' \in Seq(Command)
  BY <1>2, <1>3, ChunksType, SendType DEF TypeOK
<1>6. elapsed' \in 0..MaxSecs - 1
  BY ConfigAssumption DEF TypeOK, Listen, CapReached
<1>7. QED
  BY <1>2, <1>3, <1>4, <1>5, <1>6 DEF TypeOK, Listen

\* The handlers that cancel, or only report something.
LEMMA ControlType ==
  ASSUME TypeOK,
         \/ CommandCancels \/ Disable \/ Enable \/ StartRebind \/ OnRebound \/ Bail
  PROVE  TypeOK'
<1>1. Abandoned(utt) \in Utterance
  BY AbandonedEffect DEF TypeOK
<1>2. CASE CommandCancels
  BY <1>1, <1>2 DEF CommandCancels, Cancel, TypeOK, States, asrVars
<1>3. CASE Disable
  BY <1>1, <1>3 DEF Disable, Cancel, TypeOK, States, asrVars
<1>4. CASE Enable
  BY <1>4 DEF Enable, TypeOK, asrVars
<1>5. CASE StartRebind
  BY <1>1, <1>5 DEF StartRebind, Cancel, TypeOK, States, asrVars
<1>6. CASE OnRebound
  BY <1>6 DEF OnRebound, Resting, TypeOK, asrVars
<1>7. CASE Bail
  BY <1>7 DEF Bail, TypeOK, asrVars
<1>8. QED
  BY <1>2, <1>3, <1>4, <1>5, <1>6, <1>7

LEMMA OnNoticeType ==
  ASSUME TypeOK, NEW t \in Threads, OnNotice(t)
  PROVE  TypeOK'
<1>1. notices' \in [Threads -> {"none", "Ready", "LoadFailed"}]
  BY DEF OnNotice, TypeOK
<1>2. QED
  BY <1>1 DEF OnNotice, Resting, TypeOK

LEMMA OnPartialType ==
  ASSUME TypeOK, OnPartial
  PROVE  TypeOK'
<1>1. Head(partials) \in SUBSET Nat /\ partials' \in Seq(SUBSET Nat)
  BY HeadTailProperties DEF OnPartial, TypeOK
<1>2. QED
  BY <1>1 DEF OnPartial, TypeOK

\* The answer at the head, and what is left without it.
LEMMA AnsweredType ==
  ASSUME TypeOK, Answered
  PROVE  /\ Len(segments) \in Nat \ {0}
         /\ Head(segments) \in Segment /\ Head(segments) = segments[1]
         /\ Tail(segments) \in Seq(Segment)
         /\ Len(Tail(segments)) = Len(segments) - 1
         /\ \A i \in 1..Len(segments) - 1 : Tail(segments)[i] = segments[i + 1]
         /\ Filed(utt, Head(segments)) \in Utterance
<1>1. segments \in Seq(Segment) /\ segments # <<>> /\ utt \in Utterance
  BY DEF TypeOK, Answered
<1>2. /\ Head(segments) \in Segment
      /\ Tail(segments) \in Seq(Segment)
      /\ Len(Tail(segments)) = Len(segments) - 1
      /\ \A i \in 1..Len(Tail(segments)) : Tail(segments)[i] = segments[i + 1]
  BY <1>1, HeadTailProperties
<1>3. Len(segments) \in Nat \ {0} /\ Head(segments) = segments[1]
  BY <1>1, EmptySeq
<1>4. Filed(utt, Head(segments)) \in Utterance
  BY <1>1, <1>2, FiledEffect
<1>5. QED
  BY <1>2, <1>3, <1>4

LEMMA AnswerType ==
  ASSUME TypeOK, DropAnswer \/ FileAnswer
  PROVE  TypeOK'
<1>1. CASE DropAnswer
  BY <1>1, AnsweredType DEF DropAnswer, TypeOK, engineVars
<1>2. CASE FileAnswer
  BY <1>2, AnsweredType DEF FileAnswer, TypeOK
<1>3. QED
  BY <1>1, <1>2

LEMMA SettleType ==
  ASSUME TypeOK, SettleUtterance
  PROVE  TypeOK'
<1> DEFINE u == Filed(utt, Head(segments))
<1>1. u \in Utterance /\ Tail(segments) \in Seq(Segment)
  BY AnsweredType DEF SettleUtterance
<1>2. Abandoned(u) \in Utterance
  BY <1>1, AbandonedEffect
<1>3. landed' \in [seq: Nat, segs: Seq(Nat)] /\ turn' \in {"none", "begun", "partial"}
  <2>1. u.seq \in Nat /\ u.texts \in Seq(Nat) /\ <<>> \in Seq(Nat)
    BY <1>1, EmptySeq DEF Utterance
  <2>2. Chosen(u) \subseteq Seq(Nat)
    BY <2>1 DEF Chosen
  <2>3. \/ landed' = landed
        \/ \E segs \in Chosen(u) : landed' = [seq |-> u.seq, segs |-> segs]
    BY DEF SettleUtterance
  <2>4. landed' \in [seq: Nat, segs: Seq(Nat)]
    BY <2>1, <2>2, <2>3 DEF TypeOK
  <2>5. QED
    BY <2>4 DEF SettleUtterance, TypeOK
<1>4. utt' \in Utterance /\ segments' \in Seq(Segment)
  BY <1>1, <1>2 DEF SettleUtterance
<1> HIDE DEF u
<1>5. QED
  BY <1>3, <1>4 DEF SettleUtterance, Settled, TypeOK, States

LEMMA LoadType ==
  ASSUME TypeOK, NEW t \in Threads, Loaded(t) \/ LoadFailed(t)
  PROVE  TypeOK'
<1>1. /\ models' \in [Threads -> {"loading", "up", "failed"}]
      /\ notices' \in [Threads -> {"none", "Ready", "LoadFailed"}]
  BY DEF Loaded, LoadFailed, TypeOK
<1>2. segments' \in Seq(Segment) /\ feeds' \in Seq(Command)
  <2>1. segments' \in {segments, <<>>} /\ feeds' \in {feeds, <<>>}
    BY DEF Loaded, LoadFailed
  <2>2. <<>> \in Seq(Segment) /\ <<>> \in Seq(Command)
    BY EmptySeq
  <2>3. QED
    BY <2>1, <2>2 DEF TypeOK
<1>3. QED
  BY <1>1, <1>2 DEF Loaded, LoadFailed, TypeOK, engineVars

LEMMA StreamStepType ==
  ASSUME TypeOK, StreamStep
  PROVE  TypeOK'
<1>1. Head(feeds) \in Command /\ feeds' \in Seq(Command)
  BY HeadTailProperties DEF StreamStep, TypeOK
<1>2. decoder' \in SUBSET Nat
  BY <1>1 DEF StreamStep, Fresh, TypeOK, Command
<1>3. partials' \in Seq(SUBSET Nat)
  <2>1. partials' \in {partials, Append(partials, decoder')}
    BY DEF StreamStep
  <2>2. partials \in Seq(SUBSET Nat)
    BY DEF TypeOK
  <2>3. Append(partials, decoder') \in Seq(SUBSET Nat)
    BY <1>2, <2>2, AppendProperties
  <2>4. QED
    BY <2>1, <2>2, <2>3
<1>4. QED
  BY <1>1, <1>2, <1>3 DEF StreamStep, TypeOK, engineVars

\* Decoding one segment only fills in its answer.
LEMMA OfflineEffect ==
  ASSUME TypeOK, OfflineStep
  PROVE  /\ segments' \in Seq(Segment) /\ Len(segments') = Len(segments)
         /\ \A i \in 1..Len(segments) : /\ segments'[i].seq = segments[i].seq
                                        /\ segments'[i].seg = segments[i].seg
<1>1. PICK k \in DOMAIN segments, a \in Answers :
        segments' = [segments EXCEPT ![k].answer = a]
  BY DEF OfflineStep
<1>2. segments \in Seq(Segment) /\ DOMAIN segments = 1..Len(segments)
      /\ Len(segments) \in Nat
  BY LenProperties DEF TypeOK
<1> DEFINE e == [segments[k] EXCEPT !.answer = a]
<1>3. segments[k] \in Segment
  BY <1>2, ElementOfSeq
<1>4. e \in Segment /\ e.seq = segments[k].seq /\ e.seg = segments[k].seg
  BY <1>3 DEF Segment
<1>5. segments' = [segments EXCEPT ![k] = e]
  BY <1>1
<1> HIDE DEF e
<1>6. QED
  BY <1>2, <1>4, <1>5, ExceptSeq

LEMMA OfflineType ==
  ASSUME TypeOK, OfflineStep
  PROVE  TypeOK'
BY OfflineEffect DEF OfflineStep, TypeOK, engineVars

LEMMA StepType ==
  ASSUME TypeOK, [Next]_vars
  PROVE  TypeOK'
<1>1. CASE PressStarts \/ CommandStarts
  BY <1>1, StartType DEF PressStarts, CommandStarts
<1>2. CASE PressStops \/ ReleaseStops \/ CommandStops
  BY <1>2, FinishRecordingInput, FinishType
     DEF PressStops, ReleaseStops, CommandStops
<1>3. CASE Tick \/ Second
  <2>1. PICK secs \in {elapsed, elapsed + 1} : Listen(secs) \/ TickFinishes(secs)
    BY <1>3 DEF Tick, Second, OnTick
  <2>2. QED
    BY <2>1, ListenType, TickFinishesInput, FinishType
<1>4. CASE CommandCancels \/ Disable \/ Enable \/ StartRebind \/ OnRebound \/ Bail
  BY <1>4, ControlType
<1>5. CASE Results
  BY <1>5, OnNoticeType, OnPartialType, AnswerType, SettleType DEF Results
<1>6. CASE Workers
  BY <1>6, LoadType, StreamStepType, OfflineType DEF Workers
<1>7. CASE UNCHANGED vars
  BY <1>7 DEF vars, engineVars, asrVars, TypeOK
<1>8. QED
  BY <1>1, <1>2, <1>3, <1>4, <1>5, <1>6, <1>7 DEF Next, Keys, Commands

\* Every reachable state is well typed, and no recording outlives the length
\* cap (on_tick), whatever the cap.
THEOREM TypeCorrect == Spec => []TypeOK
BY InitType, StepType, PTL DEF Spec

-----------------------------------------------------------------------------
(* The bookkeeping of outstanding segments.  Books is Inv without types.   *)

Books ==
  /\ WaitCountsOutstanding
  /\ WaitingForSomething
  /\ TextsInOrder
  /\ NoneFromTheFuture
  /\ GoneWithItsQueue
  /\ FiledBeforeOut

LEMMA InitBooks == Init => Books
<1> SUFFICES ASSUME Init PROVE Books
  OBVIOUS
<1>1. /\ utt = NewUtterance(0) /\ utt.wait = 0 /\ utt.texts = <<>> /\ ~utt.last
      /\ segments = <<>> /\ Len(segments) = 0 /\ DOMAIN segments = {}
      /\ DOMAIN utt.texts = {} /\ state = "Idle"
  BY DEF Init, NewUtterance
<1>2. QED
  BY <1>1 DEF Books, WaitCountsOutstanding, WaitingForSomething, TextsInOrder, Ordered,
              NoneFromTheFuture, GoneWithItsQueue, FiledBeforeOut

\* Nothing that the books are about has changed.
LEMMA SameBooks ==
  ASSUME Books, UNCHANGED <<state, utt, segments, models>>
  PROVE  Books'
BY DEF Books, WaitCountsOutstanding, WaitingForSomething, TextsInOrder, Ordered,
       NoneFromTheFuture, GoneWithItsQueue, FiledBeforeOut, Dead

\* Whatever is still out belongs to an older number once the utterance has
\* been abandoned.
LEMMA AbandonBooks ==
  ASSUME TypeOK, Books, NEW v \in Utterance, v.seq = utt.seq,
         utt' = Abandoned(v), state' \in {"Idle", "Held", "Open"},
         segments' \in Seq(Segment),
         \A i \in 1..Len(segments') : segments'[i].seq <= utt.seq,
         models' = models, Dead("offline") => segments' = <<>>
  PROVE  Books'
<1>1. /\ utt'.seq = utt.seq + 1 /\ utt'.wait = 0 /\ utt'.sent = 0
      /\ ~utt'.last /\ utt'.texts = <<>>
  BY AbandonedEffect
<1>2. /\ DOMAIN segments' = 1..Len(segments') /\ Len(segments') \in Nat
      /\ \A i \in 1..Len(segments') : segments'[i].seq \in Nat
  <2>1. \A i \in 1..Len(segments') : segments'[i] \in Segment
    BY ElementOfSeq
  <2>2. QED
    BY <2>1, LenProperties DEF Segment
<1>3. utt.seq \in Nat
  BY DEF TypeOK, Utterance
<1>4. WaitCountsOutstanding'
  BY <1>1, <1>2, <1>3 DEF WaitCountsOutstanding
<1>5. WaitingForSomething'
  BY <1>1 DEF WaitingForSomething
<1>6. TextsInOrder' /\ FiledBeforeOut'
  BY <1>1 DEF TextsInOrder, Ordered, FiledBeforeOut
<1>7. NoneFromTheFuture' /\ GoneWithItsQueue'
  BY <1>1, <1>2, <1>3 DEF NoneFromTheFuture, GoneWithItsQueue, Dead
<1>8. QED
  BY <1>4, <1>5, <1>6, <1>7 DEF Books

\* What a Seq(Segment) variable looks like to the provers.
LEMMA SegmentsShape ==
  ASSUME TypeOK
  PROVE  /\ Len(segments) \in Nat /\ DOMAIN segments = 1..Len(segments)
         /\ \A i \in 1..Len(segments) : /\ segments[i] \in Segment
                                        /\ segments[i].seq \in Nat
                                        /\ segments[i].seg \in Nat
         /\ utt.seq \in Nat /\ utt.sent \in Nat /\ utt.wait \in Nat
         /\ utt.last \in BOOLEAN /\ utt.texts \in Seq(Nat)
         /\ Len(utt.texts) \in Nat /\ DOMAIN utt.texts = 1..Len(utt.texts)
         /\ \A i \in 1..Len(utt.texts) : utt.texts[i] \in Nat
<1>1. segments \in Seq(Segment) /\ utt \in Utterance /\ utt.texts \in Seq(Nat)
  BY DEF TypeOK, Utterance
<1>2. \A i \in 1..Len(segments) : segments[i] \in Segment
  BY <1>1, ElementOfSeq
<1>3. \A i \in 1..Len(utt.texts) : utt.texts[i] \in Nat
  BY <1>1, ElementOfSeq
<1>4. QED
  BY <1>1, <1>2, <1>3, LenProperties DEF Segment, Utterance

\* Dispatching counts and numbers what it hands over.
LEMMA DispatchBooks ==
  ASSUME TypeOK, Books, NEW cuts \in Seq(BOOLEAN), NEW last \in BOOLEAN,
         Dispatch(cuts, last), models' = models
  PROVE  /\ WaitCountsOutstanding' /\ TextsInOrder' /\ NoneFromTheFuture'
         /\ GoneWithItsQueue' /\ FiledBeforeOut'
<1> DEFINE n == Len(cuts)
<1>1. n \in Nat
  BY LenProperties
<1>2. /\ utt'.seq = utt.seq /\ utt'.texts = utt.texts
      /\ utt'.sent = utt.sent + n /\ utt'.wait = utt.wait + n
      /\ segments' \in Seq(Segment)
      /\ Dead("offline") => segments' = segments
      /\ ~Dead("offline") =>
           /\ Len(segments') = Len(segments) + n
           /\ \A i \in 1..Len(segments) : segments'[i] = segments[i]
           /\ \A i \in Len(segments) + 1..Len(segments') :
                /\ segments'[i].seq = utt.seq
                /\ segments'[i].seg = utt.sent + (i - Len(segments))
  BY DispatchEffect DEF TypeOK
<1>3. /\ Len(segments) \in Nat /\ DOMAIN segments = 1..Len(segments)
      /\ \A i \in 1..Len(segments) : segments[i].seq \in Nat /\ segments[i].seg \in Nat
      /\ utt.seq \in Nat /\ utt.sent \in Nat /\ utt.wait \in Nat
      /\ Len(utt.texts) \in Nat /\ DOMAIN utt.texts = 1..Len(utt.texts)
      /\ \A i \in 1..Len(utt.texts) : utt.texts[i] \in Nat
  BY SegmentsShape
<1>4. DOMAIN segments' = 1..Len(segments')
  BY <1>2, LenProperties
<1> HIDE DEF n
<1>5. WaitCountsOutstanding'
  <2> SUFFICES ASSUME ~Dead("offline")'
               PROVE  /\ utt'.wait <= Len(segments')
                      /\ \A i \in DOMAIN segments' :
                           /\ segments'[i].seq = utt'.seq <=> i > Len(segments') - utt'.wait
                           /\ segments'[i].seq = utt'.seq =>
                                segments'[i].seg = utt'.sent - (Len(segments') - i)
    BY DEF WaitCountsOutstanding
  <2>1. ~Dead("offline")
    BY DEF Dead
  <2>2. /\ utt.wait <= Len(segments)
        /\ \A i \in 1..Len(segments) :
             /\ segments[i].seq = utt.seq <=> i > Len(segments) - utt.wait
             /\ segments[i].seq = utt.seq =>
                  segments[i].seg = utt.sent - (Len(segments) - i)
    BY <1>3, <2>1 DEF Books, WaitCountsOutstanding
  <2> DEFINE L == Len(segments)
             M == Len(segments')
             w == utt.wait
             x == utt'.wait
             s == utt.sent
             y == utt'.sent
  <2>a. /\ L \in Nat /\ n \in Nat /\ w \in Nat /\ s \in Nat
        /\ M = L + n /\ x = w + n /\ y = s + n
    BY <1>1, <1>2, <1>3, <2>1
  <2>3. utt'.wait <= Len(segments')
    BY <1>1, <1>2, <1>3, <2>1, <2>2
  <2>4. ASSUME NEW i \in 1..Len(segments)
        PROVE  /\ segments'[i].seq = utt'.seq <=> i > Len(segments') - utt'.wait
               /\ segments'[i].seq = utt'.seq =>
                    segments'[i].seg = utt'.sent - (Len(segments') - i)
    <3>1. segments'[i] = segments[i] /\ utt'.seq = utt.seq
      BY <1>2, <2>1
    <3> HIDE DEF L, M, w, x, s, y
    <3>2. M - x = L - w /\ y - (M - i) = s - (L - i)
      BY <2>a DEF L
    <3>3. /\ segments[i].seq = utt.seq <=> i > Len(segments) - utt.wait
          /\ segments[i].seq = utt.seq =>
               segments[i].seg = utt.sent - (Len(segments) - i)
      BY <2>2
    <3>4. QED
      BY <3>1, <3>2, <3>3 DEF L, M, w, x, s, y
  <2>5. ASSUME NEW i \in Len(segments) + 1..Len(segments')
        PROVE  /\ segments'[i].seq = utt'.seq <=> i > Len(segments') - utt'.wait
               /\ segments'[i].seq = utt'.seq =>
                    segments'[i].seg = utt'.sent - (Len(segments') - i)
    <3>1. /\ segments'[i].seq = utt'.seq
          /\ segments'[i].seg = utt.sent + (i - Len(segments))
      BY <1>2, <2>1
    <3>2. i \in L + 1..M
      OBVIOUS
    <3> HIDE DEF L, M, w, x, s, y
    <3>3. i > M - x /\ y - (M - i) = s + (i - L)
      BY <2>a, <3>2
    <3>4. QED
      BY <3>1, <3>3 DEF L, M, w, x, s, y
  <2>6. DOMAIN segments' = 1..Len(segments) \cup Len(segments) + 1..Len(segments')
    BY <1>1, <1>2, <1>3, <1>4, <2>1
  <2>7. QED
    BY <2>3, <2>4, <2>5, <2>6
<1>6. TextsInOrder'
  BY <1>2 DEF Books, TextsInOrder, Ordered
<1>7. FiledBeforeOut'
  <2>1. \A i \in 1..Len(utt.texts) : utt.texts[i] + utt.wait <= utt.sent
    BY <1>3 DEF Books, FiledBeforeOut
  <2>2. ASSUME NEW i \in 1..Len(utt.texts)
        PROVE  utt.texts[i] + utt'.wait <= utt'.sent
    <3> DEFINE t == utt.texts[i]
               w == utt.wait
               s == utt.sent
    <3>1. t \in Nat /\ w \in Nat /\ s \in Nat /\ t + w <= s
      BY <1>3, <2>1
    <3>2. utt'.wait = w + n /\ utt'.sent = s + n
      BY <1>2
    <3> HIDE DEF t, w, s
    <3>3. t + (w + n) <= s + n
      BY <1>1, <3>1
    <3>4. QED
      BY <3>2, <3>3 DEF t
  <2>3. QED
    BY <1>2, <1>3, <2>2 DEF FiledBeforeOut
<1>8. NoneFromTheFuture' /\ GoneWithItsQueue'
  <2>1. CASE Dead("offline")
    BY <1>2, <2>1 DEF Books, NoneFromTheFuture, GoneWithItsQueue, Dead
  <2>2. CASE ~Dead("offline")
    <3>1. \A i \in 1..Len(segments') : segments'[i].seq <= utt'.seq
      <4>1. ASSUME NEW i \in 1..Len(segments)
            PROVE  segments'[i].seq <= utt'.seq
        BY <1>2, <1>3, <2>2 DEF Books, NoneFromTheFuture
      <4>2. ASSUME NEW i \in Len(segments) + 1..Len(segments')
            PROVE  segments'[i].seq <= utt'.seq
        BY <1>2, <1>3, <2>2
      <4>3. QED
        BY <1>1, <1>2, <1>3, <2>2, <4>1, <4>2
    <3>2. QED
      BY <1>4, <2>2, <3>1 DEF NoneFromTheFuture, GoneWithItsQueue, Dead
  <2>3. QED
    BY <2>1, <2>2
<1>9. QED
  BY <1>5, <1>6, <1>7, <1>8

LEMMA StartBooks ==
  ASSUME TypeOK, Books, NEW s \in {"Held", "Open"}, StartRecording(s)
  PROVE  Books'
<1>1. \A i \in 1..Len(segments) : segments[i].seq <= utt.seq
  BY SegmentsShape DEF Books, NoneFromTheFuture
<1>2. utt \in Utterance /\ segments \in Seq(Segment)
  BY DEF TypeOK
<1>3. /\ utt' = Abandoned(utt) /\ state' \in {"Idle", "Held", "Open"}
      /\ segments' = segments /\ models' = models
      /\ Dead("offline") => segments' = <<>>
  BY DEF StartRecording, Books, GoneWithItsQueue
<1>4. QED
  BY <1>1, <1>2, <1>3, AbandonBooks

LEMMA CancelBooks ==
  ASSUME TypeOK, Books, Cancel, segments' = segments, models' = models
  PROVE  Books'
<1>1. \A i \in 1..Len(segments) : segments[i].seq <= utt.seq
  BY SegmentsShape DEF Books, NoneFromTheFuture
<1>2. utt \in Utterance /\ segments \in Seq(Segment)
  BY DEF TypeOK
<1>3. /\ utt' = Abandoned(utt) /\ state' \in {"Idle", "Held", "Open"}
      /\ Dead("offline") => segments' = <<>>
  BY DEF Cancel, Books, GoneWithItsQueue
<1>4. QED
  BY <1>1, <1>2, <1>3, AbandonBooks

LEMMA FinishBooks ==
  ASSUME TypeOK, Books, NEW o, FinishInput(o), Finish(o)
  PROVE  Books'
<1>1. /\ FinalCuts(o) \in Seq(BOOLEAN) /\ Len(FinalCuts(o)) \in Nat \ {0}
      /\ FinalCuts(o) # <<>>
  BY FinalCutsType
<1>2. Dispatch(FinalCuts(o), TRUE) /\ models' = models /\ state' = "Transcribing"
  BY DEF Finish
<1>3. utt'.wait = utt.wait + Len(FinalCuts(o)) /\ utt'.last
  BY <1>1, <1>2, DispatchEffect DEF TypeOK
<1>4. utt.wait \in Nat
  BY SegmentsShape
<1>5. WaitingForSomething'
  BY <1>1, <1>2, <1>3, <1>4 DEF WaitingForSomething
<1>6. QED
  BY <1>1, <1>2, <1>5, DispatchBooks DEF Books

LEMMA ListenBooks ==
  ASSUME TypeOK, Books, Recording, NEW secs, Listen(secs)
  PROVE  Books'
<1>1. MaxCuts - utt.sent \in Int
  BY ConfigAssumption DEF TypeOK, Utterance
<1>2. PICK o \in Outcomes(voiced, MaxCuts - utt.sent) : Dispatch(o.cuts, FALSE)
  BY DEF Listen
<1>3. o.cuts \in Seq(BOOLEAN)
  BY <1>1, OutcomeType
<1>4. state' = state /\ models' = models
  BY DEF Listen
<1>5. utt'.last = IF o.cuts = <<>> THEN utt.last ELSE FALSE
  BY <1>2, <1>3, DispatchEffect DEF TypeOK
<1>6. WaitingForSomething'
  BY <1>4, <1>5 DEF WaitingForSomething, Recording, Books
<1>7. QED
  BY <1>2, <1>3, <1>4, <1>6, DispatchBooks DEF Books

\* An answer for the current utterance is the next one awaited, and then all
\* that is out is awaited.
LEMMA HeadIsNext ==
  ASSUME TypeOK, Books, Answered, Current(Head(segments))
  PROVE  /\ utt.wait = Len(segments) /\ utt.wait \in Nat \ {0}
         /\ Head(segments).seg = utt.sent - utt.wait + 1
         /\ ~Dead("offline")
         /\ \A i \in 1..Len(segments) :
              /\ segments[i].seq = utt.seq
              /\ segments[i].seg = utt.sent - (Len(segments) - i)
<1>1. Len(segments) \in Nat \ {0} /\ Head(segments) = segments[1]
  BY AnsweredType
<1>2. ~Dead("offline")
  BY DEF Answered, Books, GoneWithItsQueue
<1>3. /\ utt.wait <= Len(segments)
      /\ \A i \in 1..Len(segments) :
           /\ segments[i].seq = utt.seq <=> i > Len(segments) - utt.wait
           /\ segments[i].seq = utt.seq =>
                segments[i].seg = utt.sent - (Len(segments) - i)
  BY <1>2, SegmentsShape DEF Books, WaitCountsOutstanding
<1>4. utt.wait \in Nat /\ utt.sent \in Nat
  BY SegmentsShape
<1>5. 1 > Len(segments) - utt.wait
  <2>1. segments[1].seq = utt.seq
    BY <1>1 DEF Current
  <2>2. 1 \in 1..Len(segments)
    BY <1>1
  <2>3. QED
    BY <1>3, <2>1, <2>2
<1>6. utt.wait = Len(segments)
  BY <1>1, <1>3, <1>4, <1>5
<1>7. \A i \in 1..Len(segments) : i > Len(segments) - utt.wait
  BY <1>1, <1>6
<1>8. \A i \in 1..Len(segments) :
        /\ segments[i].seq = utt.seq
        /\ segments[i].seg = utt.sent - (Len(segments) - i)
  BY <1>3, <1>7
<1>9. segments[1].seg = utt.sent - (Len(segments) - 1)
  <2>1. 1 \in 1..Len(segments)
    BY <1>1
  <2>2. QED
    BY <1>8, <2>1
<1>10. Head(segments).seg = utt.sent - utt.wait + 1
  BY <1>1, <1>4, <1>6, <1>9
<1>11. QED
  BY <1>1, <1>2, <1>6, <1>8, <1>10

\* The answer that is filed was spoken after all that was filed before.
LEMMA FiledInOrder ==
  ASSUME TypeOK, Books, Answered, Current(Head(segments))
  PROVE  Ordered(Filed(utt, Head(segments)).texts)
<1> DEFINE h == Head(segments)
           texts == Filed(utt, h).texts
           n == Len(utt.texts)
<1>1. h \in Segment /\ utt \in Utterance /\ h.seg \in Nat /\ utt.sent \in Nat
  BY AnsweredType DEF TypeOK, Utterance, Segment
<1>2. utt.wait \in Nat \ {0} /\ h.seg = utt.sent - utt.wait + 1
  BY HeadIsNext
<1>3. /\ n \in Nat /\ DOMAIN utt.texts = 1..n /\ utt.texts \in Seq(Nat)
      /\ \A i \in 1..n : utt.texts[i] \in Nat
      /\ \A i \in 1..n : utt.texts[i] + utt.wait <= utt.sent
      /\ \A i, j \in 1..n : i < j => utt.texts[i] < utt.texts[j]
  BY SegmentsShape DEF Books, FiledBeforeOut, TextsInOrder, Ordered
<1>4. texts \in {utt.texts, Append(utt.texts, h.seg)}
  BY <1>1, FiledEffect
<1> HIDE DEF h, texts
<1>5. \A i \in 1..n : utt.texts[i] < h.seg
  BY <1>1, <1>2, <1>3
<1>6. CASE texts = utt.texts
  BY <1>3, <1>6 DEF Ordered, texts, h
<1>7. CASE texts = Append(utt.texts, h.seg)
  <2>1. /\ DOMAIN texts = 1..n + 1 /\ texts[n + 1] = h.seg
        /\ \A i \in 1..n : texts[i] = utt.texts[i]
    BY <1>1, <1>3, <1>7
  <2>2. ASSUME NEW i \in 1..n + 1, NEW j \in 1..n + 1, i < j
        PROVE  texts[i] < texts[j]
    <3>1. i \in 1..n
      BY <1>3, <2>2
    <3>2. CASE j = n + 1
      BY <1>5, <2>1, <3>1, <3>2
    <3>3. CASE j \in 1..n
      BY <1>3, <2>1, <2>2, <3>1, <3>3
    <3>4. QED
      BY <1>3, <3>2, <3>3
  <2>3. QED
    BY <2>1, <2>2 DEF Ordered, texts, h
<1>8. QED
  BY <1>4, <1>6, <1>7

\* Filing the awaited answer keeps the books, but for what WaitingForSomething
\* says of the state, which is still to be changed when it was the last.
LEMMA FileBooks ==
  ASSUME TypeOK, Books, FileAnswer
  PROVE  Books'
<1> DEFINE h == Head(segments)
           L == Len(segments)
           w == utt.wait
<1>1. /\ Answered /\ Current(h) /\ utt' = Filed(utt, h) /\ ~Whole(utt')
      /\ segments' = Tail(segments)
      /\ UNCHANGED <<state, models>>
  BY DEF FileAnswer
<1>2. /\ w = L /\ w \in Nat \ {0} /\ h.seg = utt.sent - w + 1
      /\ ~Dead("offline")
      /\ \A i \in 1..L : /\ segments[i].seq = utt.seq
                         /\ segments[i].seg = utt.sent - (L - i)
  BY <1>1, HeadIsNext
<1>3. /\ h \in Segment /\ Tail(segments) \in Seq(Segment)
      /\ Len(Tail(segments)) = L - 1
      /\ \A i \in 1..L - 1 : Tail(segments)[i] = segments[i + 1]
  BY <1>1, AnsweredType
<1>4. utt \in Utterance /\ utt.seq \in Nat /\ utt.sent \in Nat /\ h.seg \in Nat
  BY <1>3 DEF TypeOK, Utterance, Segment
<1>5. /\ utt'.seq = utt.seq /\ utt'.sent = utt.sent /\ utt'.last = utt.last
      /\ utt'.wait = w - 1
      /\ utt'.texts \in {utt.texts, Append(utt.texts, h.seg)}
  BY <1>1, <1>2, <1>3, <1>4, FiledEffect
<1>6. DOMAIN segments' = 1..L - 1 /\ Len(segments') = L - 1
  BY <1>1, <1>3, LenProperties
<1>7. \A i \in 1..L - 1 : /\ segments'[i].seq = utt.seq
                          /\ segments'[i].seg = utt.sent - (L - (i + 1))
  BY <1>1, <1>2, <1>3
<1> HIDE DEF h
<1>8. WaitCountsOutstanding'
  <2>1. utt'.wait <= Len(segments')
    BY <1>2, <1>5, <1>6
  <2>2. ASSUME NEW i \in 1..L - 1
        PROVE  /\ segments'[i].seq = utt'.seq
               /\ i > Len(segments') - utt'.wait
               /\ segments'[i].seg = utt'.sent - (Len(segments') - i)
    <3>1. /\ segments'[i].seq = utt.seq
          /\ segments'[i].seg = utt.sent - (L - (i + 1))
      BY <1>7
    <3>2. L - (i + 1) = (L - 1) - i /\ (L - 1) - (w - 1) = 0
      BY <1>2
    <3>3. QED
      BY <1>5, <1>6, <3>1, <3>2
  <2>3. QED
    BY <1>6, <2>1, <2>2 DEF WaitCountsOutstanding
<1>9. WaitingForSomething'
  <2>1. /\ state = "Transcribing" <=> utt.last
        /\ state # "Idle"
    BY <1>2 DEF Books, WaitingForSomething
  <2>2. state' = state /\ utt'.last = utt.last /\ utt'.wait \in Nat
    BY <1>1, <1>2, <1>5
  <2>3. ~(utt'.last /\ utt'.wait = 0)
    BY <1>1 DEF Whole
  <2>4. QED
    BY <2>1, <2>2, <2>3 DEF WaitingForSomething
<1>10. /\ Len(utt.texts) \in Nat /\ DOMAIN utt.texts = 1..Len(utt.texts)
       /\ utt.texts \in Seq(Nat)
       /\ \A i \in 1..Len(utt.texts) : utt.texts[i] \in Nat
       /\ \A i \in 1..Len(utt.texts) : utt.texts[i] + w <= utt.sent
  BY SegmentsShape DEF Books, FiledBeforeOut
<1>11. ASSUME NEW i \in 1..Len(utt.texts)
       PROVE  utt.texts[i] + (w - 1) <= utt.sent
  <2>1. utt.texts[i] \in Nat /\ utt.texts[i] + w <= utt.sent
    BY <1>10
  <2> HIDE DEF w
  <2>2. QED
    BY <1>2, <1>4, <2>1
<1>12. h.seg + (w - 1) <= utt.sent
  BY <1>2, <1>4
<1>13. TextsInOrder'
  BY <1>1, FiledInOrder DEF TextsInOrder, h
<1>14. FiledBeforeOut'
  <2>1. CASE utt'.texts = utt.texts
    BY <1>5, <1>10, <1>11, <2>1 DEF FiledBeforeOut
  <2>2. CASE utt'.texts = Append(utt.texts, h.seg)
    <3>1. /\ DOMAIN utt'.texts = 1..Len(utt.texts) + 1
          /\ \A i \in 1..Len(utt.texts) : utt'.texts[i] = utt.texts[i]
          /\ utt'.texts[Len(utt.texts) + 1] = h.seg
      BY <1>4, <1>10, <2>2
    <3>2. ASSUME NEW i \in 1..Len(utt.texts) + 1
          PROVE  utt'.texts[i] + (w - 1) <= utt.sent
      <4>1. CASE i = Len(utt.texts) + 1
        BY <1>12, <3>1, <4>1
      <4>2. CASE i \in 1..Len(utt.texts)
        BY <1>11, <3>1, <4>2
      <4>3. QED
        BY <1>10, <4>1, <4>2
    <3>3. QED
      BY <1>5, <3>1, <3>2 DEF FiledBeforeOut
  <2>3. QED
    BY <1>5, <2>1, <2>2
<1>15. NoneFromTheFuture' /\ GoneWithItsQueue'
  BY <1>1, <1>2, <1>4, <1>5, <1>6, <1>7
     DEF NoneFromTheFuture, GoneWithItsQueue, Dead
<1>16. QED
  BY <1>8, <1>9, <1>13, <1>14, <1>15 DEF Books

\* A late answer is the oldest out, and none of the current utterance's.
LEMMA DropBooks ==
  ASSUME TypeOK, Books, DropAnswer
  PROVE  Books'
<1> DEFINE L == Len(segments)
           w == utt.wait
<1>1. /\ Answered /\ ~Current(Head(segments)) /\ segments' = Tail(segments)
      /\ UNCHANGED <<state, utt, models>>
  BY DEF DropAnswer, engineVars
<1>2. /\ L \in Nat \ {0} /\ Head(segments) = segments[1]
      /\ Tail(segments) \in Seq(Segment) /\ Len(Tail(segments)) = L - 1
      /\ \A i \in 1..L - 1 : Tail(segments)[i] = segments[i + 1]
  BY <1>1, AnsweredType
<1>3. DOMAIN segments' = 1..L - 1 /\ Len(segments') = L - 1
  BY <1>1, <1>2, LenProperties
<1>4. ~Dead("offline")
  BY <1>1 DEF Answered, Books, GoneWithItsQueue
<1>5. /\ w \in Nat /\ w <= L /\ utt.sent \in Nat /\ utt.seq \in Nat
      /\ \A i \in 1..L :
           /\ segments[i].seq = utt.seq <=> i > L - w
           /\ segments[i].seq = utt.seq => segments[i].seg = utt.sent - (L - i)
           /\ segments[i].seq <= utt.seq
  BY <1>4, SegmentsShape DEF Books, WaitCountsOutstanding, NoneFromTheFuture
<1>6. ~(1 > L - w)
  <2>1. segments[1].seq # utt.seq
    BY <1>1, <1>2 DEF Current
  <2>2. 1 \in 1..L
    BY <1>2
  <2>3. QED
    BY <1>5, <2>1, <2>2
<1>7. w <= L - 1
  BY <1>2, <1>5, <1>6
<1>8. ASSUME NEW i \in 1..L - 1
      PROVE  /\ segments'[i].seq = utt.seq <=> i > (L - 1) - w
             /\ segments'[i].seq = utt.seq =>
                  segments'[i].seg = utt.sent - ((L - 1) - i)
             /\ segments'[i].seq <= utt.seq
  <2>1. i + 1 \in 1..L /\ segments'[i] = segments[i + 1]
    BY <1>1, <1>2
  <2>2. (i + 1 > L - w <=> i > (L - 1) - w) /\ L - (i + 1) = (L - 1) - i
    BY <1>2, <1>5
  <2>3. /\ segments[i + 1].seq = utt.seq <=> i + 1 > L - w
        /\ segments[i + 1].seq = utt.seq =>
             segments[i + 1].seg = utt.sent - (L - (i + 1))
        /\ segments[i + 1].seq <= utt.seq
    BY <1>5, <2>1
  <2>4. QED
    BY <2>1, <2>2, <2>3
<1>9. WaitCountsOutstanding'
  BY <1>1, <1>3, <1>7, <1>8 DEF WaitCountsOutstanding
<1>10. NoneFromTheFuture' /\ GoneWithItsQueue'
  BY <1>1, <1>3, <1>4, <1>8 DEF NoneFromTheFuture, GoneWithItsQueue, Dead
<1>11. WaitingForSomething' /\ TextsInOrder' /\ FiledBeforeOut'
  BY <1>1 DEF Books, WaitingForSomething, TextsInOrder, Ordered, FiledBeforeOut
<1>12. QED
  BY <1>9, <1>10, <1>11 DEF Books

\* What is left once the whole utterance has been filed: nothing of it.
LEMMA SettleLeavesNothing ==
  ASSUME TypeOK, Books, SettleUtterance
  PROVE  /\ segments' = <<>> /\ state = "Transcribing"
         /\ Filed(utt, Head(segments)) \in Utterance
         /\ Filed(utt, Head(segments)).seq = utt.seq
         /\ ~Dead("offline")
<1> DEFINE u == Filed(utt, Head(segments))
<1>1. Answered /\ Current(Head(segments)) /\ Whole(u) /\ segments' = Tail(segments)
  BY DEF SettleUtterance
<1>2. utt.wait = Len(segments) /\ utt.wait \in Nat \ {0} /\ ~Dead("offline")
  BY <1>1, HeadIsNext
<1>3. /\ Head(segments) \in Segment /\ Tail(segments) \in Seq(Segment)
      /\ Len(Tail(segments)) = Len(segments) - 1 /\ utt \in Utterance
  BY <1>1, AnsweredType DEF TypeOK
<1>4. /\ u \in Utterance /\ u.seq = utt.seq /\ u.last = utt.last
      /\ u.wait = utt.wait - 1
  BY <1>2, <1>3, FiledEffect
<1> HIDE DEF u
<1>5. utt.wait = 1 /\ utt.last
  <2>1. u.last /\ u.wait = 0
    BY <1>1 DEF Whole
  <2>2. utt.wait \in Nat \ {0} /\ utt.wait - 1 = 0 /\ utt.last
    BY <1>2, <1>4, <2>1
  <2>3. QED
    BY <2>2
<1>6. Tail(segments) = <<>>
  <2>1. Len(Tail(segments)) = 0
    BY <1>2, <1>3, <1>5
  <2>2. QED
    BY <1>3, <2>1, EmptySeq
<1>7. state = "Transcribing"
  BY <1>5 DEF Books, WaitingForSomething
<1>8. QED
  BY <1>1, <1>2, <1>4, <1>6, <1>7 DEF u

LEMMA SettleBooks ==
  ASSUME TypeOK, Books, SettleUtterance
  PROVE  Books'
<1> DEFINE u == Filed(utt, Head(segments))
<1>1. /\ segments' = <<>> /\ u \in Utterance /\ u.seq = utt.seq
      /\ ~Dead("offline")
  BY SettleLeavesNothing
<1>2. /\ utt' = Abandoned(u) /\ state' \in {"Idle", "Held", "Open"}
      /\ models' = models
  BY DEF SettleUtterance, Settled
<1>3. segments' \in Seq(Segment) /\ Len(segments') = 0
  BY <1>1, EmptySeq
<1> HIDE DEF u
<1>4. QED
  BY <1>1, <1>2, <1>3, AbandonBooks

LEMMA OfflineBooks ==
  ASSUME TypeOK, Books, OfflineStep
  PROVE  Books'
<1>1. /\ segments' \in Seq(Segment) /\ Len(segments') = Len(segments)
      /\ \A i \in 1..Len(segments) : /\ segments'[i].seq = segments[i].seq
                                     /\ segments'[i].seg = segments[i].seg
  BY OfflineEffect
<1>2. DOMAIN segments' = DOMAIN segments /\ DOMAIN segments = 1..Len(segments)
  BY <1>1, SegmentsShape, LenProperties
<1>3. models' = models /\ utt' = utt /\ state' = state
  BY DEF OfflineStep, engineVars
<1>4. ~Dead("offline")
  BY DEF OfflineStep, Dead
<1>5. WaitCountsOutstanding'
  BY <1>1, <1>2, <1>3, <1>4 DEF Books, WaitCountsOutstanding, Dead
<1>6. NoneFromTheFuture' /\ GoneWithItsQueue'
  BY <1>1, <1>2, <1>3, <1>4 DEF Books, NoneFromTheFuture, GoneWithItsQueue, Dead
<1>7. WaitingForSomething' /\ TextsInOrder' /\ FiledBeforeOut'
  BY <1>3 DEF Books, WaitingForSomething, TextsInOrder, Ordered, FiledBeforeOut
<1>8. QED
  BY <1>5, <1>6, <1>7 DEF Books

LEMMA LoadBooks ==
  ASSUME TypeOK, Books, NEW t \in Threads, Loaded(t) \/ LoadFailed(t)
  PROVE  Books'
<1>1. utt' = utt /\ state' = state
  BY DEF Loaded, LoadFailed, engineVars
<1>2. CASE segments' = segments /\ (Dead("offline")' <=> Dead("offline"))
  BY <1>1, <1>2
     DEF Books, WaitCountsOutstanding, WaitingForSomething, TextsInOrder, Ordered,
         NoneFromTheFuture, GoneWithItsQueue, FiledBeforeOut
<1>3. CASE segments' = <<>> /\ Dead("offline")'
  BY <1>1, <1>3
     DEF Books, WaitCountsOutstanding, WaitingForSomething, TextsInOrder, Ordered,
         NoneFromTheFuture, GoneWithItsQueue, FiledBeforeOut
<1>4. QED
  BY <1>2, <1>3 DEF Loaded, LoadFailed, Dead, TypeOK, Threads

LEMMA StepBooks ==
  ASSUME TypeOK, Books, [Next]_vars
  PROVE  Books'
<1>1. CASE PressStarts \/ CommandStarts
  BY <1>1, StartBooks DEF PressStarts, CommandStarts
<1>2. CASE PressStops \/ ReleaseStops \/ CommandStops
  BY <1>2, FinishRecordingInput, FinishBooks
     DEF PressStops, ReleaseStops, CommandStops
<1>3. CASE Tick \/ Second
  <2>1. PICK secs : Recording /\ (Listen(secs) \/ TickFinishes(secs))
    BY <1>3 DEF Tick, Second, OnTick
  <2>2. QED
    BY <2>1, ListenBooks, TickFinishesInput, FinishBooks
<1>4. CASE CommandCancels \/ Disable \/ StartRebind
  BY <1>4, CancelBooks, SameBooks
     DEF CommandCancels, Disable, StartRebind, asrVars
<1>5. CASE Enable \/ OnRebound \/ Bail \/ OnPartial \/ StreamStep
  BY <1>5, SameBooks
     DEF Enable, OnRebound, Bail, OnPartial, StreamStep, asrVars, engineVars
<1>6. CASE \E t \in Threads : OnNotice(t)
  BY <1>6, SameBooks DEF OnNotice
<1>7. CASE FileAnswer \/ DropAnswer \/ SettleUtterance
  BY <1>7, FileBooks, DropBooks, SettleBooks
<1>8. CASE OfflineStep \/ \E t \in Threads : Loaded(t) \/ LoadFailed(t)
  BY <1>8, OfflineBooks, LoadBooks
<1>9. CASE UNCHANGED vars
  BY <1>9, SameBooks DEF vars, engineVars, asrVars
<1>10. QED
  BY <1>1, <1>2, <1>3, <1>4, <1>5, <1>6, <1>7, <1>8, <1>9
     DEF Next, Keys, Commands, Results, Workers

-----------------------------------------------------------------------------
(* Theorems *)

\* The inductive invariant: types and books.
THEOREM Invariance == Spec => []Inv
<1>1. Init => Inv
  BY InitType, InitBooks DEF Inv, Books
<1>2. Inv /\ [Next]_vars => Inv'
  BY StepType, StepBooks DEF Inv, Books
<1>3. QED
  BY <1>1, <1>2, PTL DEF Spec

\* However an utterance is cancelled, superseded or answered late, seg_wait
\* counts exactly what is still out for the current one (on_segment).
THEOREM CountsOutstanding == Spec => []WaitCountsOutstanding
BY Invariance, PTL DEF Inv

\* While Transcribing there is an answer out, which comes unless the offline
\* thread has died, and at rest nothing that could still commit
\* (finish_recording, on_segment, cancel).
THEOREM WaitsForSomething == Spec => []WaitingForSomething
BY Invariance, PTL DEF Inv

\* No way out of a capture leaves a late mirror with Recording or Transcribing.
THEOREM RestShown == Spec => []RestingIsShown
<1>1. Init => RestingIsShown
  BY DEF Init, RestingIsShown
<1>2. RestingIsShown /\ [Next]_vars => RestingIsShown'
  <2> SUFFICES ASSUME RestingIsShown, [Next]_vars PROVE RestingIsShown'
    OBVIOUS
  <2>1. CASE PressStarts \/ CommandStarts
    BY <2>1 DEF PressStarts, CommandStarts, StartRecording, RestingIsShown
  <2>2. CASE PressStops \/ ReleaseStops \/ CommandStops
    BY <2>2 DEF PressStops, ReleaseStops, CommandStops, FinishRecording,
                Finish, RestingIsShown
  <2>3. CASE Tick \/ Second
    BY <2>3 DEF Tick, Second, OnTick, Listen, TickFinishes, Finish, Recording,
                RestingIsShown
  <2>4. CASE CommandCancels \/ Disable \/ Enable \/ StartRebind \/ OnRebound
    BY <2>4 DEF CommandCancels, Disable, Enable, StartRebind, OnRebound,
                Resting, RestingIsShown
  <2>5. CASE \E t \in Threads : OnNotice(t)
    BY <2>5 DEF OnNotice, Resting, RestingIsShown
  <2>6. CASE SettleUtterance
    BY <2>6 DEF SettleUtterance, Settled, RestingIsShown
  <2>7. CASE OnPartial \/ DropAnswer \/ FileAnswer \/ Bail
    BY <2>7 DEF OnPartial, DropAnswer, FileAnswer, Bail, engineVars,
                RestingIsShown
  <2>8. CASE Workers
    BY <2>8 DEF Workers, StreamStep, OfflineStep, Loaded, LoadFailed,
                engineVars, RestingIsShown
  <2>9. CASE UNCHANGED vars
    BY <2>9 DEF vars, engineVars, RestingIsShown
  <2>10. QED
    BY <2>1, <2>2, <2>3, <2>4, <2>5, <2>6, <2>7, <2>8, <2>9
       DEF Next, Keys, Commands, Results
<1>3. QED
  BY <1>1, <1>2, PTL DEF Spec

\* Only an utterance that is settled lands.
LEMMA OnlySettlingLands ==
  ASSUME [Next]_vars, landed' # landed
  PROVE  SettleUtterance
<1>1. CASE Keys \/ Commands \/ OnRebound
  BY <1>1 DEF Keys, Commands, PressStarts, CommandStarts, StartRecording,
              PressStops, ReleaseStops, CommandStops, FinishRecording, Finish,
              CommandCancels, Disable, Enable, StartRebind, OnRebound
<1>2. CASE Tick \/ Second
  BY <1>2 DEF Tick, Second, OnTick, Listen, TickFinishes, Finish
<1>3. CASE Results
  BY <1>3 DEF Results, OnPartial, DropAnswer, FileAnswer, OnNotice
<1>4. CASE Bail \/ Workers \/ UNCHANGED vars
  BY <1>4 DEF Bail, Workers, StreamStep, OfflineStep, Loaded, LoadFailed, vars
<1>5. QED
  BY <1>1, <1>2, <1>3, <1>4 DEF Next

\* What lands is in the order of speaking (on_segment).
THEOREM SpokenOrder == Spec => []InSpokenOrder
<1>1. Init => InSpokenOrder
  BY DEF Init, InSpokenOrder, Ordered
<1>2. Inv /\ InSpokenOrder /\ [Next]_vars => InSpokenOrder'
  <2> SUFFICES ASSUME Inv, InSpokenOrder, [Next]_vars PROVE InSpokenOrder'
    OBVIOUS
  <2>1. CASE landed' = landed
    BY <2>1 DEF InSpokenOrder, Ordered
  <2>2. CASE landed' # landed
    <3> DEFINE u == Filed(utt, Head(segments))
    <3>1. SettleUtterance
      BY <2>2, OnlySettlingLands
    <3>2. Ordered(u.texts)
      BY <3>1, FiledInOrder DEF SettleUtterance, Inv, Books
    <3>3. Ordered(<<>>)
      BY DEF Ordered
    <3>4. \E segs \in {u.texts, <<>>} : landed' = [seq |-> u.seq, segs |-> segs]
      BY <2>2, <3>1 DEF SettleUtterance, Chosen
    <3> HIDE DEF u
    <3>5. QED
      BY <3>2, <3>3, <3>4 DEF InSpokenOrder
  <2>3. QED
    BY <2>1, <2>2
<1>3. QED
  BY <1>1, <1>2, Invariance, PTL DEF Spec

\* What is committed is whole: nothing of its utterance is out (on_segment).
THEOREM CommitsWhole == Spec => CommitsWholeUtterance
<1>1. Inv /\ [Next]_vars =>
        [landed' # landed =>
           \A i \in DOMAIN segments' : segments'[i].seq # utt.seq]_vars
  <2> SUFFICES ASSUME Inv, [Next]_vars, landed' # landed
               PROVE  \A i \in DOMAIN segments' : segments'[i].seq # utt.seq
    OBVIOUS
  <2>1. segments' = <<>>
    BY OnlySettlingLands, SettleLeavesNothing DEF Inv, Books
  <2>2. QED
    BY <2>1
<1>2. QED
  BY <1>1, Invariance, PTL DEF Spec, CommitsWholeUtterance

\* Every handler keeps the promise of Utterances, or does not touch it.
LEMMA StepPromised ==
  ASSUME Inv, [Next]_vars
  PROVE  [Promise!Next]_Promise!vars
<1> USE DEF Promise!vars, Promise!Next
<1>1. utt \in Utterance /\ utt.seq \in Nat
  BY DEF Inv, TypeOK, Utterance
<1>2. Abandoned(utt).seq \in Nat /\ Abandoned(utt).seq > utt.seq
  BY <1>1, AbandonedEffect
<1>3. CASE PressStarts \/ CommandStarts
  <2>1. Promise!Begin
    BY <1>2, <1>3 DEF PressStarts, CommandStarts, StartRecording,
                      Promise!Begin, Promise!NewNumber
  <2>2. QED
    BY <2>1
<1>4. CASE PressStops \/ ReleaseStops \/ CommandStops \/ Tick \/ Second
  <2>1. CASE \E o : FinishInput(o) /\ Finish(o) /\ Recording
    <3>1. PICK o : FinishInput(o) /\ Finish(o) /\ Recording
      BY <2>1
    <3>2. utt'.seq = utt.seq
      BY <3>1, FinalCutsType, DispatchEffect DEF Finish, Inv, TypeOK
    <3>3. Promise!Close
      BY <3>1, <3>2 DEF Finish, Recording, Promise!Close
    <3>4. QED
      BY <3>3
  <2>2. CASE \E secs : Listen(secs) /\ Recording
    <3>1. PICK secs : Listen(secs)
      BY <2>2
    <3>2. MaxCuts - utt.sent \in Int
      BY ConfigAssumption DEF Inv, TypeOK, Utterance
    <3>3. PICK o \in Outcomes(voiced, MaxCuts - utt.sent) : Dispatch(o.cuts, FALSE)
      BY <3>1 DEF Listen
    <3>4. utt'.seq = utt.seq
      BY <3>2, <3>3, OutcomeType, DispatchEffect DEF Inv, TypeOK
    <3>5. state' = state /\ landed' = landed
      BY <3>1 DEF Listen
    <3>6. QED
      BY <3>4, <3>5
  <2>3. CASE PressStops \/ ReleaseStops \/ CommandStops
    BY <2>1, <2>3, FinishRecordingInput
       DEF PressStops, ReleaseStops, CommandStops, Recording, Inv
  <2>4. CASE Tick \/ Second
    BY <2>1, <2>2, <2>4, TickFinishesInput DEF Tick, Second, OnTick, Inv
  <2>5. QED
    BY <1>4, <2>3, <2>4
<1>5. CASE Cancel /\ landed' = landed
  <2>1. Promise!Drop
    BY <1>2, <1>5 DEF Cancel, Promise!Drop, Promise!NewNumber
  <2>2. QED
    BY <2>1
<1>6. CASE SettleUtterance
  <2> DEFINE u == Filed(utt, Head(segments))
  <2>1. /\ u \in Utterance /\ u.seq = utt.seq /\ state = "Transcribing"
    BY <1>6, SettleLeavesNothing DEF Inv, Books
  <2>2. Abandoned(u).seq \in Nat /\ Abandoned(u).seq > utt.seq
    BY <1>1, <2>1, AbandonedEffect
  <2>3. /\ utt' = Abandoned(u) /\ state' = "Idle"
        /\ landed' = landed \/ landed'.seq = u.seq
    BY <1>6 DEF SettleUtterance, Settled
  <2> HIDE DEF u
  <2>4. Promise!Drop \/ Promise!Land
    BY <2>1, <2>2, <2>3 DEF Promise!Drop, Promise!Land, Promise!NewNumber
  <2>5. QED
    BY <2>4
<1>7. CASE FileAnswer
  <2>1. utt'.seq = utt.seq
    BY <1>1, <1>7, AnsweredType, FiledEffect DEF FileAnswer, Inv
  <2>2. QED
    BY <1>7, <2>1 DEF FileAnswer
<1>8. CASE UNCHANGED <<state, utt, landed>>
  BY <1>8
<1>9. QED
  <2>1. CASE Commands \/ OnRebound \/ Bail
    BY <1>3, <1>4, <1>5, <1>8, <2>1
       DEF Commands, CommandCancels, Disable, Enable, StartRebind, OnRebound,
           Bail
  <2>2. CASE Results \/ Workers \/ UNCHANGED vars
    BY <1>6, <1>7, <1>8, <2>2
       DEF Results, OnPartial, DropAnswer, OnNotice, Workers, StreamStep,
           OfflineStep, Loaded, LoadFailed, vars, engineVars
  <2>3. QED
    BY <1>3, <1>4, <2>1, <2>2 DEF Next, Keys

\* Engine implements Utterances: whatever the recognisers, the user and the
\* clock do, an utterance ends once, and its text lands once or not at all.
THEOREM KeepsPromise == Spec => ImplementsPromise
<1>1. Init => Promise!Init
  BY DEF Init, NewUtterance, Promise!Init
<1>2. Inv /\ [Next]_vars => [Promise!Next]_Promise!vars
  BY StepPromised
<1>3. QED
  BY <1>1, <1>2, Invariance, PTL DEF Spec, ImplementsPromise, Promise!Spec

\* Nothing has landed from an utterance to come.
Bounded == utt.seq \in Nat /\ landed.seq \in Nat /\ landed.seq <= utt.seq

LEMMA InitBounded == Promise!Init => Bounded
  BY DEF Promise!Init, Bounded

\* Numbers only grow.
LEMMA StepBounded == Bounded /\ [Promise!Next]_Promise!vars => Bounded'
  BY DEF Bounded, Promise!Next, Promise!vars, Promise!NewNumber, Promise!Begin,
         Promise!Close, Promise!Land, Promise!Drop

LEMMA StepLands ==
  Bounded /\ [Promise!Next]_Promise!vars
    => (landed.seq' # landed.seq => landed.seq' > landed.seq)
  BY DEF Bounded, Promise!Next, Promise!vars, Promise!NewNumber, Promise!Begin,
         Promise!Close, Promise!Land, Promise!Drop

\* Every text that lands is a later utterance's than the one before: what the
\* engine implements keeps it, and so the engine does (engine.rs, commit).
THEOREM LandsInOrder == Spec => Promise!LandsOnce
<1>1. Promise!Spec => Promise!LandsOnce
  BY InitBounded, StepBounded, StepLands, PTL DEF Promise!Spec, Promise!LandsOnce
<1>2. QED
  BY <1>1, KeepsPromise DEF ImplementsPromise

-----------------------------------------------------------------------------
(* Why the Reset that start_recording queues is race-free, for every       *)
(* number of utterances and every backlog: whatever is still in the        *)
(* channel of the streaming thread when an utterance is cancelled, closed  *)
(* or followed by the next, no hypothesis is made from two of them.        *)
(*                                                                         *)
(* The inductive invariant: what the channel owes the decoder.             *)

ResetAt(r) == feeds[r].cmd = "Reset"
FedAt(i)   == feeds[i].cmd = "Feed"

\* Between chunks of different utterances there is a Reset.
Separated ==
  \A i, j \in DOMAIN feeds :
    (i < j /\ FedAt(i) /\ FedAt(j) /\ feeds[i].of # feeds[j].of) =>
      \E r \in DOMAIN feeds : i < r /\ r < j /\ ResetAt(r)

\* A chunk the decoder hears before any Reset goes on with what it has heard.
GoesOn ==
  \A j \in DOMAIN feeds :
    FedAt(j) => \/ \E r \in DOMAIN feeds : r < j /\ ResetAt(r)
                \/ decoder \subseteq {feeds[j].of}

\* A chunk recorded now would go on with its own utterance, too.
ReadyForMore ==
  (~Dead("stream") /\ Recording) =>
    /\ \A i \in DOMAIN feeds :
         (FedAt(i) /\ feeds[i].of # utt.seq) =>
           \E r \in DOMAIN feeds : i < r /\ ResetAt(r)
    /\ \/ \E r \in DOMAIN feeds : ResetAt(r)
       \/ decoder \subseteq {utt.seq}

NothingAhead     == \A i \in DOMAIN feeds : feeds[i].of <= utt.seq
GoneWithItsFeeds == Dead("stream") => feeds = <<>>

Track ==
  /\ Separated
  /\ GoesOn
  /\ ReadyForMore
  /\ NothingAhead
  /\ GoneWithItsFeeds

-----------------------------------------------------------------------------
(* The channel *)

LEMMA FeedsShape ==
  ASSUME TypeOK
  PROVE  /\ Len(feeds) \in Nat /\ DOMAIN feeds = 1..Len(feeds)
         /\ \A i \in 1..Len(feeds) : feeds[i] \in Command /\ feeds[i].of \in Nat
         /\ utt \in Utterance /\ utt.seq \in Nat
<1>1. /\ Len(feeds) \in Nat /\ DOMAIN feeds = 1..Len(feeds)
      /\ \A i \in 1..Len(feeds) : feeds[i] \in Command
  BY LenProperties, ElementOfSeq DEF TypeOK
<1>2. \A c \in Command : c.of \in Nat
  BY DEF Command
<1>3. QED
  BY <1>1, <1>2 DEF TypeOK, Utterance

\* What is sent goes behind what is there, unless the thread is gone.
LEMMA SendEffect ==
  ASSUME TypeOK, NEW n \in Nat, NEW cmds \in [1..n -> Command], Send(cmds)
  PROVE  /\ Dead("stream") => feeds' = feeds
         /\ ~Dead("stream") =>
              /\ DOMAIN feeds' = 1..Len(feeds) + n
              /\ \A i \in 1..Len(feeds) : feeds'[i] = feeds[i]
              /\ \A i \in Len(feeds) + 1..Len(feeds) + n :
                   feeds'[i] = cmds[i - Len(feeds)]
<1>1. cmds \in Seq(Command) /\ Len(cmds) = n
  BY FunctionIsSeq
<1>2. CASE Dead("stream")
  BY <1>2 DEF Send
<1>3. CASE ~Dead("stream")
  <2>1. feeds' = feeds \o cmds /\ feeds \in Seq(Command)
    BY <1>3 DEF Send, TypeOK
  <2>2. /\ feeds' \in Seq(Command) /\ Len(feeds') = Len(feeds) + Len(cmds)
        /\ \A i \in 1..Len(feeds) + Len(cmds) :
             feeds'[i] = IF i <= Len(feeds) THEN feeds[i] ELSE cmds[i - Len(feeds)]
    BY <1>1, <2>1, ConcatProperties
  <2>3. DOMAIN feeds' = 1..Len(feeds) + n
    BY <1>1, <2>2, LenProperties
  <2>4. Len(feeds) \in Nat
    BY FeedsShape
  <2>5. /\ \A i \in 1..Len(feeds) : feeds'[i] = feeds[i]
        /\ \A i \in Len(feeds) + 1..Len(feeds) + n :
             feeds'[i] = cmds[i - Len(feeds)]
    BY <1>1, <2>2, <2>4
  <2>6. QED
    BY <1>3, <2>3, <2>5
<1>4. QED
  BY <1>2, <1>3

-----------------------------------------------------------------------------
(* The invariant, one kind of step at a time *)

LEMMA InitTrack == Init => Track
<1>1. Init => feeds = <<>> /\ ~Recording
  BY DEF Init, Recording
<1>2. QED
  BY <1>1 DEF Track, Separated, GoesOn, ReadyForMore, NothingAhead,
              GoneWithItsFeeds

\* A step that leaves the channel, and goes on recording only what it was.
LEMMA SameTrack ==
  ASSUME TypeOK, Track, UNCHANGED <<feeds, decoder>>,
         Dead("stream")' <=> Dead("stream"),
         utt'.seq \in Nat, utt'.seq >= utt.seq,
         Recording' => Recording /\ utt'.seq = utt.seq
  PROVE  Track'
<1>1. Separated' /\ GoesOn'
  BY DEF Track, Separated, GoesOn, FedAt, ResetAt
<1>2. ReadyForMore'
  BY DEF Track, ReadyForMore, FedAt, ResetAt
<1>3. NothingAhead'
  <2> SUFFICES ASSUME NEW i \in DOMAIN feeds PROVE feeds[i].of <= utt'.seq
    BY DEF NothingAhead
  <2>1. feeds[i].of \in Nat /\ utt.seq \in Nat /\ feeds[i].of <= utt.seq
    BY FeedsShape DEF Track, NothingAhead
  <2>2. QED
    BY <2>1
<1>4. GoneWithItsFeeds'
  BY DEF Track, GoneWithItsFeeds
<1>5. QED
  BY <1>1, <1>2, <1>3, <1>4 DEF Track

\* listen feeds chunks of the utterance it records.
LEMMA FeedTrack ==
  ASSUME TypeOK, Track, Recording, NEW n \in Nat, Send(Chunks(n)),
         UNCHANGED <<models, decoder>>, utt'.seq = utt.seq
  PROVE  Track'
<1> DEFINE L == Len(feeds)
<1>1. /\ L \in Nat /\ DOMAIN feeds = 1..L /\ utt.seq \in Nat
      /\ \A i \in 1..L : feeds[i].of \in Nat
  BY FeedsShape
<1>2. Dead("stream")' <=> Dead("stream")
  BY DEF Dead
<1>3. CASE Dead("stream")
  <2>1. feeds' = feeds /\ feeds = <<>>
    BY <1>3 DEF Send, Track, GoneWithItsFeeds
  <2>2. QED
    BY <1>2, <1>3, <2>1
       DEF Track, Separated, GoesOn, ReadyForMore, NothingAhead, GoneWithItsFeeds
<1>4. CASE ~Dead("stream")
  <2>1. /\ Chunks(n) \in [1..n -> Command]
        /\ \A i \in 1..n : Chunks(n)[i] = [cmd |-> "Feed", of |-> utt.seq]
    BY <1>1 DEF Chunks, Command
  <2>2. /\ DOMAIN feeds' = 1..L + n
        /\ \A i \in 1..L : feeds'[i] = feeds[i]
        /\ \A i \in L + 1..L + n : feeds'[i] = Chunks(n)[i - L]
    BY <1>4, <2>1, SendEffect
  <2>3. \A i \in L + 1..L + n : feeds'[i] = [cmd |-> "Feed", of |-> utt.seq]
    BY <1>1, <2>1, <2>2
  <2>4. \A i \in DOMAIN feeds' : i \in 1..L \/ i \in L + 1..L + n
    BY <1>1, <2>2
  <2>5. 1..L \subseteq DOMAIN feeds'
    BY <1>1, <2>2
  <2>6. /\ \A i \in 1..L :
             (FedAt(i) /\ feeds[i].of # utt.seq) =>
               \E r \in 1..L : i < r /\ ResetAt(r)
        /\ \/ \E r \in 1..L : ResetAt(r)
           \/ decoder \subseteq {utt.seq}
    BY <1>1, <1>4 DEF Track, ReadyForMore
  <2>7. ASSUME NEW i \in DOMAIN feeds', NEW j \in DOMAIN feeds', i < j,
               FedAt(i)', FedAt(j)', feeds'[i].of # feeds'[j].of
        PROVE  \E r \in DOMAIN feeds' : i < r /\ r < j /\ ResetAt(r)'
    <3>1. i \in 1..L
      <4>1. CASE i \in L + 1..L + n
        <5>1. j \in L + 1..L + n
          BY <1>1, <2>2, <2>7, <4>1
        <5>2. QED
          BY <2>3, <2>7, <4>1, <5>1
      <4>2. QED
        BY <2>4, <4>1
    <3>2. CASE j \in 1..L
      <4>1. PICK r \in 1..L : i < r /\ r < j /\ ResetAt(r)
        BY <1>1, <2>2, <2>7, <3>1, <3>2 DEF Track, Separated, FedAt
      <4>2. QED
        BY <2>2, <2>5, <4>1 DEF ResetAt
    <3>3. CASE j \in L + 1..L + n
      <4>1. feeds'[j].of = utt.seq /\ feeds'[i] = feeds[i]
        BY <2>2, <2>3, <3>1, <3>3
      <4>2. FedAt(i) /\ feeds[i].of # utt.seq
        BY <2>7, <4>1 DEF FedAt
      <4>3. PICK r \in 1..L : i < r /\ ResetAt(r)
        BY <2>6, <3>1, <4>2
      <4>4. r < j
        BY <1>1, <3>3
      <4>5. QED
        BY <2>2, <2>5, <4>3, <4>4 DEF ResetAt
    <3>4. QED
      BY <2>4, <3>2, <3>3
  <2>8. Separated'
    BY <2>7 DEF Separated
  <2>9. ASSUME NEW j \in DOMAIN feeds', FedAt(j)'
        PROVE  \/ \E r \in DOMAIN feeds' : r < j /\ ResetAt(r)'
               \/ decoder' \subseteq {feeds'[j].of}
    <3>1. CASE j \in 1..L
      <4>1. \/ \E r \in 1..L : r < j /\ ResetAt(r)
            \/ decoder \subseteq {feeds[j].of}
        BY <1>1, <2>2, <2>9, <3>1 DEF Track, GoesOn, FedAt
      <4>2. QED
        BY <2>2, <2>5, <3>1, <4>1 DEF ResetAt
    <3>2. CASE j \in L + 1..L + n
      <4>1. feeds'[j].of = utt.seq
        BY <2>3, <3>2
      <4>2. CASE \E r \in 1..L : ResetAt(r)
        <5>1. PICK r \in 1..L : ResetAt(r)
          BY <4>2
        <5>2. r < j
          BY <1>1, <3>2
        <5>3. QED
          BY <2>2, <2>5, <5>1, <5>2 DEF ResetAt
      <4>3. CASE decoder \subseteq {utt.seq}
        BY <4>1, <4>3
      <4>4. QED
        BY <2>6, <4>2, <4>3
    <3>3. QED
      BY <2>4, <3>1, <3>2
  <2>10. GoesOn'
    BY <2>9 DEF GoesOn
  <2>11. ReadyForMore'
    <3>1. ASSUME NEW i \in DOMAIN feeds', FedAt(i)', feeds'[i].of # utt.seq
          PROVE  \E r \in DOMAIN feeds' : i < r /\ ResetAt(r)'
      <4>1. i \in 1..L
        BY <2>3, <2>4, <3>1
      <4>2. PICK r \in 1..L : i < r /\ ResetAt(r)
        BY <2>2, <2>6, <3>1, <4>1 DEF FedAt
      <4>3. QED
        BY <2>2, <2>5, <4>2 DEF ResetAt
    <3>2. \/ \E r \in DOMAIN feeds' : ResetAt(r)'
          \/ decoder' \subseteq {utt.seq}
      BY <2>2, <2>5, <2>6 DEF ResetAt
    <3>3. QED
      BY <3>1, <3>2 DEF ReadyForMore
  <2>12. NothingAhead'
    <3>1. ASSUME NEW i \in DOMAIN feeds' PROVE feeds'[i].of <= utt.seq
      <4>1. CASE i \in 1..L
        BY <1>1, <2>2, <4>1 DEF Track, NothingAhead
      <4>2. CASE i \in L + 1..L + n
        BY <1>1, <2>3, <4>2
      <4>3. QED
        BY <2>4, <4>1, <4>2
    <3>2. QED
      BY <3>1 DEF NothingAhead
  <2>13. GoneWithItsFeeds'
    BY <1>2, <1>4 DEF GoneWithItsFeeds
  <2>14. QED
    BY <2>8, <2>10, <2>11, <2>12, <2>13 DEF Track
<1>5. QED
  BY <1>3, <1>4

\* start_recording queues a Reset behind whatever is there.
LEMMA StartTrack ==
  ASSUME TypeOK, Track, NEW s, StartRecording(s)
  PROVE  Track'
<1> DEFINE L     == Len(feeds)
           reset == <<[cmd |-> "Reset", of |-> 0]>>
<1>1. /\ L \in Nat /\ DOMAIN feeds = 1..L /\ utt.seq \in Nat
      /\ utt \in Utterance
      /\ \A i \in 1..L : feeds[i].of \in Nat
  BY FeedsShape
<1>2. /\ utt'.seq = utt.seq + 1 /\ decoder' = decoder
      /\ Dead("stream")' <=> Dead("stream")
  BY <1>1, AbandonedEffect DEF StartRecording, Dead
<1>3. reset \in [1..1 -> Command] /\ reset[1] = [cmd |-> "Reset", of |-> 0]
  BY DEF Command
<1>4. Send(reset)
  BY DEF StartRecording
<1> HIDE DEF reset
<1>5. CASE Dead("stream")
  <2>1. feeds' = feeds /\ feeds = <<>>
    BY <1>4, <1>5 DEF Send, Track, GoneWithItsFeeds
  <2>2. QED
    BY <1>2, <1>5, <2>1
       DEF Track, Separated, GoesOn, ReadyForMore, NothingAhead, GoneWithItsFeeds
<1>6. CASE ~Dead("stream")
  <2>1. /\ DOMAIN feeds' = 1..L + 1
        /\ \A i \in 1..L : feeds'[i] = feeds[i]
        /\ \A i \in L + 1..L + 1 : feeds'[i] = reset[i - L]
    BY <1>3, <1>4, <1>6, SendEffect
  <2>2. feeds'[L + 1] = [cmd |-> "Reset", of |-> 0] /\ L + 1 \in DOMAIN feeds'
    BY <1>1, <1>3, <2>1
  <2>3. \A i \in DOMAIN feeds' : FedAt(i)' => i \in 1..L /\ FedAt(i)
    <3>1. SUFFICES ASSUME NEW i \in DOMAIN feeds', FedAt(i)'
                   PROVE  i \in 1..L /\ FedAt(i)
      OBVIOUS
    <3>2. i # L + 1
      BY <2>2, <3>1 DEF FedAt
    <3>3. i \in 1..L
      BY <1>1, <2>1, <3>2
    <3>4. QED
      BY <2>1, <3>1, <3>3 DEF FedAt
  <2>4. \A r \in 1..L : r \in DOMAIN feeds' /\ (ResetAt(r) => ResetAt(r)')
    BY <1>1, <2>1 DEF ResetAt
  <2>5. Separated'
    BY <1>1, <2>1, <2>3, <2>4 DEF Track, Separated
  <2>6. GoesOn'
    BY <1>1, <1>2, <2>1, <2>3, <2>4 DEF Track, GoesOn
  <2>7. ReadyForMore'
    <3>1. PICK r : r = L + 1
      OBVIOUS
    <3>2. r \in DOMAIN feeds' /\ ResetAt(r)'
      BY <2>2, <3>1 DEF ResetAt
    <3>3. \A i \in DOMAIN feeds' : FedAt(i)' => i < r
      BY <1>1, <2>3, <3>1
    <3>4. QED
      BY <3>2, <3>3 DEF ReadyForMore
  <2>8. NothingAhead'
    <3>1. ASSUME NEW i \in DOMAIN feeds' PROVE feeds'[i].of <= utt.seq + 1
      <4>1. CASE i = L + 1
        BY <1>1, <2>2, <4>1
      <4>2. CASE i \in 1..L
        <5>1. feeds'[i].of <= utt.seq /\ feeds'[i].of \in Nat
          BY <1>1, <2>1, <4>2 DEF Track, NothingAhead
        <5>2. QED
          BY <1>1, <5>1
      <4>3. QED
        BY <1>1, <2>1, <4>1, <4>2
    <3>2. QED
      BY <1>2, <3>1 DEF NothingAhead
  <2>9. GoneWithItsFeeds'
    BY <1>2, <1>6 DEF GoneWithItsFeeds
  <2>10. QED
    BY <2>5, <2>6, <2>7, <2>8, <2>9 DEF Track
<1>7. QED
  BY <1>5, <1>6

\* The command the streaming thread takes, and what is left behind it.
LEMMA TakenShape ==
  ASSUME TypeOK, StreamStep
  PROVE  /\ Len(feeds) \in Nat \ {0} /\ DOMAIN feeds = 1..Len(feeds)
         /\ Head(feeds) = feeds[1]
         /\ feeds[1].cmd \in {"Reset", "Feed"} /\ feeds[1].of \in Nat
         /\ DOMAIN feeds' = 1..Len(feeds) - 1
         /\ \A i \in 1..Len(feeds) - 1 : feeds'[i] = feeds[i + 1]
<1>1. feeds \in Seq(Command) /\ feeds # <<>> /\ feeds' = Tail(feeds)
  BY DEF TypeOK, StreamStep
<1>2. /\ Head(feeds) \in Command /\ Tail(feeds) \in Seq(Command)
      /\ Len(Tail(feeds)) = Len(feeds) - 1
      /\ \A i \in 1..Len(Tail(feeds)) : Tail(feeds)[i] = feeds[i + 1]
  BY <1>1, HeadTailProperties
<1>3. /\ Len(feeds) \in Nat \ {0} /\ Head(feeds) = feeds[1]
      /\ DOMAIN feeds = 1..Len(feeds)
  BY <1>1, EmptySeq, LenProperties
<1>4. DOMAIN feeds' = 1..Len(feeds) - 1
  BY <1>1, <1>2, LenProperties
<1>5. QED
  BY <1>1, <1>2, <1>3, <1>4 DEF Command

\* Having taken a chunk the decoder has heard that chunk's utterance only.
LEMMA DecoderEffect ==
  ASSUME TypeOK, Track, StreamStep
  PROVE  \/ feeds[1].cmd = "Reset" /\ decoder' = {} /\ partials' = partials
         \/ /\ feeds[1].cmd = "Feed" /\ decoder' = {feeds[1].of}
            /\ partials' \in {partials, Append(partials, decoder')}
<1>1. /\ Len(feeds) \in Nat \ {0} /\ DOMAIN feeds = 1..Len(feeds)
      /\ Head(feeds) = feeds[1]
  BY TakenShape
<1>2. CASE feeds[1].cmd = "Reset"
  BY <1>1, <1>2 DEF StreamStep, Fresh
<1>3. CASE feeds[1].cmd = "Feed"
  <2>1. ~\E r \in DOMAIN feeds : r < 1 /\ ResetAt(r)
    BY <1>1
  <2>2. 1 \in DOMAIN feeds
    BY <1>1
  <2>3. decoder \subseteq {feeds[1].of}
    BY <1>3, <2>1, <2>2 DEF Track, GoesOn, FedAt
  <2>4. decoder' = decoder \cup {feeds[1].of}
    BY <1>1, <1>3 DEF StreamStep, Fresh
  <2>5. decoder' = {feeds[1].of}
    BY <2>3, <2>4
  <2>6. partials' \in {partials, Append(partials, decoder')}
    BY <1>1, <1>3 DEF StreamStep
  <2>7. QED
    BY <1>3, <2>5, <2>6
<1>4. QED
  BY <1>2, <1>3, TakenShape

\* StreamStep keeps the invariant: what it takes no longer separates, but then
\* the decoder is either empty or has heard what the separated goes on with.
LEMMA StreamTrack ==
  ASSUME TypeOK, Track, StreamStep
  PROVE  Track'
<1> DEFINE L == Len(feeds)
<1>1. /\ L \in Nat \ {0} /\ DOMAIN feeds = 1..L /\ DOMAIN feeds' = 1..L - 1
      /\ \A i \in 1..L - 1 : feeds'[i] = feeds[i + 1]
  BY TakenShape
<1>2. /\ utt' = utt /\ (Recording' <=> Recording)
      /\ ~Dead("stream") /\ (Dead("stream")' <=> Dead("stream"))
  BY DEF StreamStep, engineVars, Recording, Dead
<1>3. \A i \in DOMAIN feeds' : /\ i + 1 \in DOMAIN feeds
                               /\ FedAt(i)' <=> FedAt(i + 1)
                               /\ ResetAt(i)' <=> ResetAt(i + 1)
                               /\ feeds'[i].of = feeds[i + 1].of
  BY <1>1 DEF FedAt, ResetAt
<1>4. \A r \in DOMAIN feeds : r > 1 => r - 1 \in DOMAIN feeds' /\ (r - 1) + 1 = r
  BY <1>1
<1>5. \A r \in DOMAIN feeds : (r > 1 /\ ResetAt(r)) => ResetAt(r - 1)'
  BY <1>3, <1>4
<1>6. Separated'
  <2> SUFFICES ASSUME NEW i \in DOMAIN feeds', NEW j \in DOMAIN feeds', i < j,
                      FedAt(i)', FedAt(j)', feeds'[i].of # feeds'[j].of
               PROVE  \E r \in DOMAIN feeds' : i < r /\ r < j /\ ResetAt(r)'
    BY DEF Separated
  <2>1. i \in Nat /\ j \in Nat /\ i >= 1 /\ i + 1 < j + 1
    BY <1>1
  <2>2. PICK r \in DOMAIN feeds : i + 1 < r /\ r < j + 1 /\ ResetAt(r)
    BY <1>3, <2>1 DEF Track, Separated
  <2>3. r \in Nat /\ r > 1 /\ i < r - 1 /\ r - 1 < j
    BY <1>1, <2>1, <2>2
  <2>4. QED
    BY <1>4, <1>5, <2>2, <2>3
<1>7. CASE feeds[1].cmd = "Reset" /\ decoder' = {}
  <2>1. GoesOn'
    BY <1>7 DEF GoesOn
  <2>2. ReadyForMore'
    <3> SUFFICES ASSUME Recording
                 PROVE  \A i \in DOMAIN feeds' :
                          (FedAt(i)' /\ feeds'[i].of # utt.seq) =>
                            \E r \in DOMAIN feeds' : i < r /\ ResetAt(r)'
      BY <1>2, <1>7 DEF ReadyForMore
    <3>1. SUFFICES ASSUME NEW i \in DOMAIN feeds', FedAt(i)',
                          feeds'[i].of # utt.seq
                   PROVE  \E r \in DOMAIN feeds' : i < r /\ ResetAt(r)'
      OBVIOUS
    <3>2. PICK r \in DOMAIN feeds : i + 1 < r /\ ResetAt(r)
      BY <1>2, <1>3, <3>1 DEF Track, ReadyForMore
    <3>3. r \in Nat /\ i \in Nat /\ r > 1 /\ i < r - 1
      BY <1>1, <3>2
    <3>4. QED
      BY <1>4, <1>5, <3>2, <3>3
  <2>3. QED
    BY <2>1, <2>2, <1>1, <1>2, <1>3, <1>6
       DEF Track, NothingAhead, GoneWithItsFeeds
<1>8. CASE feeds[1].cmd = "Feed" /\ decoder' = {feeds[1].of}
  <2>1. 1 \in DOMAIN feeds /\ FedAt(1)
    BY <1>1, <1>8 DEF FedAt
  <2>2. GoesOn'
    <3> SUFFICES ASSUME NEW j \in DOMAIN feeds', FedAt(j)',
                        ~(decoder' \subseteq {feeds'[j].of})
                 PROVE  \E r \in DOMAIN feeds' : r < j /\ ResetAt(r)'
      BY DEF GoesOn
    <3>1. /\ j \in Nat /\ 1 < j + 1 /\ j + 1 \in DOMAIN feeds /\ FedAt(j + 1)
          /\ feeds[1].of # feeds[j + 1].of
      BY <1>1, <1>3, <1>8
    <3>2. PICK r \in DOMAIN feeds : 1 < r /\ r < j + 1 /\ ResetAt(r)
      BY <2>1, <3>1 DEF Track, Separated
    <3>3. r \in Nat /\ r > 1 /\ r - 1 < j
      BY <1>1, <3>1, <3>2
    <3>4. QED
      BY <1>4, <1>5, <3>2, <3>3
  <2>3. ReadyForMore'
    <3> SUFFICES ASSUME Recording
                 PROVE  /\ \A i \in DOMAIN feeds' :
                             (FedAt(i)' /\ feeds'[i].of # utt.seq) =>
                               \E r \in DOMAIN feeds' : i < r /\ ResetAt(r)'
                        /\ \/ \E r \in DOMAIN feeds' : ResetAt(r)'
                           \/ decoder' \subseteq {utt.seq}
      BY <1>2 DEF ReadyForMore
    <3>1. ASSUME NEW i \in DOMAIN feeds', FedAt(i)', feeds'[i].of # utt.seq
          PROVE  \E r \in DOMAIN feeds' : i < r /\ ResetAt(r)'
      <4>1. PICK r \in DOMAIN feeds : i + 1 < r /\ ResetAt(r)
        BY <1>2, <1>3, <3>1 DEF Track, ReadyForMore
      <4>2. r \in Nat /\ i \in Nat /\ r > 1 /\ i < r - 1
        BY <1>1, <4>1
      <4>3. QED
        BY <1>4, <1>5, <4>1, <4>2
    <3>2. CASE feeds[1].of = utt.seq
      BY <1>8, <3>1, <3>2
    <3>3. CASE feeds[1].of # utt.seq
      <4>1. PICK r \in DOMAIN feeds : 1 < r /\ ResetAt(r)
        BY <1>2, <2>1, <3>3 DEF Track, ReadyForMore
      <4>2. r - 1 \in DOMAIN feeds' /\ ResetAt(r - 1)'
        BY <1>1, <1>4, <1>5, <4>1
      <4>3. QED
        BY <3>1, <4>2
    <3>4. QED
      BY <3>2, <3>3
  <2>4. QED
    BY <2>2, <2>3, <1>1, <1>2, <1>3, <1>6
       DEF Track, NothingAhead, GoneWithItsFeeds
<1>9. QED
  BY <1>7, <1>8, DecoderEffect

LEMMA LoadTrack ==
  ASSUME TypeOK, Track, NEW t \in Threads, Loaded(t) \/ LoadFailed(t)
  PROVE  Track'
<1>1. /\ utt' = utt /\ decoder' = decoder /\ (Recording' <=> Recording)
      /\ utt.seq \in Nat
  BY FeedsShape DEF Loaded, LoadFailed, engineVars, Recording
<1>2. CASE feeds' = feeds /\ (Dead("stream")' <=> Dead("stream"))
  BY <1>1, <1>2, SameTrack
<1>3. CASE feeds' = <<>> /\ Dead("stream")'
  BY <1>1, <1>3
     DEF Track, Separated, GoesOn, ReadyForMore, NothingAhead, GoneWithItsFeeds
<1>4. QED
  BY <1>2, <1>3 DEF Loaded, LoadFailed, Dead, TypeOK, Threads

-----------------------------------------------------------------------------
(* Every step *)

\* No handler but those that start and feed touches the channel, and only an
\* utterance that is not recorded on is given up for the next number.
LEMMA QuietStep ==
  ASSUME TypeOK,
         \/ CommandCancels \/ Disable \/ Enable \/ StartRebind \/ OnRebound
         \/ Bail \/ Results \/ OfflineStep \/ UNCHANGED vars
  PROVE  /\ UNCHANGED <<feeds, decoder, models>>
         /\ utt'.seq \in Nat /\ utt'.seq >= utt.seq
         /\ Recording' => Recording /\ utt'.seq = utt.seq
<1>1. utt \in Utterance /\ utt.seq \in Nat
  BY FeedsShape
<1>2. Abandoned(utt).seq = utt.seq + 1
  BY <1>1, AbandonedEffect
<1>3. CASE CommandCancels \/ Disable \/ StartRebind
  BY <1>1, <1>2, <1>3
     DEF CommandCancels, Disable, StartRebind, Cancel, Recording, asrVars
<1>4. CASE Enable \/ OnRebound \/ Bail \/ OnPartial \/ DropAnswer \/ OfflineStep
  BY <1>1, <1>4
     DEF Enable, OnRebound, Bail, OnPartial, DropAnswer, OfflineStep, Recording,
         asrVars, engineVars
<1>5. CASE \E t \in Threads : OnNotice(t)
  BY <1>1, <1>5 DEF OnNotice, Recording
<1>6. CASE FileAnswer \/ SettleUtterance
  <2> DEFINE u == Filed(utt, Head(segments))
  <2>1. u \in Utterance /\ u.seq = utt.seq
    BY <1>1, <1>6, AnsweredType, FiledEffect DEF FileAnswer, SettleUtterance
  <2>2. Abandoned(u).seq = utt.seq + 1
    BY <2>1, AbandonedEffect
  <2>3. \/ utt' = u /\ state' = state
        \/ utt' = Abandoned(u) /\ state' = "Idle"
    BY <1>6 DEF FileAnswer, SettleUtterance, Settled
  <2>4. UNCHANGED <<feeds, decoder, models>>
    BY <1>6 DEF FileAnswer, SettleUtterance
  <2> HIDE DEF u
  <2>5. QED
    BY <1>1, <2>1, <2>2, <2>3, <2>4 DEF Recording
<1>7. CASE UNCHANGED vars
  BY <1>1, <1>7 DEF vars, engineVars, asrVars, Recording
<1>8. QED
  BY <1>3, <1>4, <1>5, <1>6, <1>7 DEF Results

\* finish_recording, and a tick that goes on, feed what was recorded.
LEMMA FinishFeeds ==
  ASSUME TypeOK, NEW o, FinishInput(o), Finish(o)
  PROVE  /\ \E n \in Nat : Send(Chunks(n))
         /\ UNCHANGED <<models, decoder, partials>> /\ utt'.seq = utt.seq
<1>1. utt'.seq = utt.seq
  BY FinalCutsType, DispatchEffect DEF Finish, TypeOK
<1>2. QED
  BY <1>1 DEF Finish, FinishInput

LEMMA ListenFeeds ==
  ASSUME TypeOK, NEW secs, Listen(secs)
  PROVE  /\ \E n \in Nat : Send(Chunks(n))
         /\ UNCHANGED <<models, decoder, partials>> /\ utt'.seq = utt.seq
<1>1. MaxCuts - utt.sent \in Int
  BY ConfigAssumption DEF TypeOK, Utterance
<1>2. PICK o \in Outcomes(voiced, MaxCuts - utt.sent) :
        Dispatch(o.cuts, FALSE) /\ Send(Chunks(o.fed))
  BY DEF Listen
<1>3. o.cuts \in Seq(BOOLEAN) /\ o.fed \in Nat
  BY <1>1, OutcomeType
<1>4. utt'.seq = utt.seq
  BY <1>2, <1>3, DispatchEffect DEF TypeOK
<1>5. QED
  BY <1>2, <1>3, <1>4 DEF Listen

LEMMA RecordingFeeds ==
  ASSUME TypeOK,
         PressStops \/ ReleaseStops \/ CommandStops \/ Tick \/ Second
  PROVE  /\ Recording
         /\ \E n \in Nat : Send(Chunks(n))
         /\ UNCHANGED <<models, decoder, partials>> /\ utt'.seq = utt.seq
<1>1. CASE PressStops \/ ReleaseStops \/ CommandStops
  <2>1. Recording /\ FinishRecording
    BY <1>1 DEF PressStops, ReleaseStops, CommandStops, Recording
  <2>2. PICK o : FinishInput(o) /\ Finish(o)
    BY <2>1, FinishRecordingInput
  <2>3. QED
    BY <2>1, <2>2, FinishFeeds
<1>2. CASE Tick \/ Second
  <2>1. PICK secs : Recording /\ (Listen(secs) \/ TickFinishes(secs))
    BY <1>2 DEF Tick, Second, OnTick
  <2>2. CASE Listen(secs)
    BY <2>1, <2>2, ListenFeeds
  <2>3. CASE TickFinishes(secs)
    <3>1. PICK o : FinishInput(o) /\ Finish(o)
      BY <2>3, TickFinishesInput
    <3>2. QED
      BY <2>1, <3>1, FinishFeeds
  <2>4. QED
    BY <2>1, <2>2, <2>3
<1>3. QED
  BY <1>1, <1>2

LEMMA StepTrack ==
  ASSUME TypeOK, Track, [Next]_vars
  PROVE  Track'
<1>1. CASE PressStarts \/ CommandStarts
  BY <1>1, StartTrack DEF PressStarts, CommandStarts
<1>2. CASE PressStops \/ ReleaseStops \/ CommandStops \/ Tick \/ Second
  BY <1>2, RecordingFeeds, FeedTrack
<1>3. CASE \/ CommandCancels \/ Disable \/ Enable \/ StartRebind \/ OnRebound
           \/ Bail \/ Results \/ OfflineStep \/ UNCHANGED vars
  <2>1. /\ UNCHANGED <<feeds, decoder, models>>
        /\ utt'.seq \in Nat /\ utt'.seq >= utt.seq
        /\ Recording' => Recording /\ utt'.seq = utt.seq
    BY <1>3, QuietStep
  <2>2. Dead("stream")' <=> Dead("stream")
    BY <2>1 DEF Dead
  <2>3. QED
    BY <2>1, <2>2, SameTrack
<1>4. CASE StreamStep \/ \E t \in Threads : Loaded(t) \/ LoadFailed(t)
  BY <1>4, StreamTrack, LoadTrack
<1>5. QED
  BY <1>1, <1>2, <1>3, <1>4 DEF Next, Keys, Commands, Workers

-----------------------------------------------------------------------------
(* The hypotheses *)

\* A hypothesis on its way is one utterance's; utt_seq only grows.
LEMMA KeepsPure ==
  ASSUME TypeOK, HypothesesArePure, utt'.seq \in Nat, utt'.seq >= utt.seq,
         \/ partials' = partials
         \/ partials # <<>> /\ partials' = Tail(partials)
  PROVE  HypothesesArePure'
<1>1. utt.seq \in Nat /\ partials \in Seq(SUBSET Nat)
  BY FeedsShape DEF TypeOK
<1>2. \A i \in DOMAIN partials : \E n \in 0..utt'.seq : partials[i] = {n}
  BY <1>1 DEF HypothesesArePure
<1>3. CASE partials' = partials
  BY <1>2, <1>3 DEF HypothesesArePure
<1>4. CASE partials # <<>> /\ partials' = Tail(partials)
  <2>1. /\ Tail(partials) \in Seq(SUBSET Nat)
        /\ Len(Tail(partials)) = Len(partials) - 1
        /\ \A i \in 1..Len(Tail(partials)) : Tail(partials)[i] = partials[i + 1]
    BY <1>1, <1>4, HeadTailProperties
  <2>2. /\ Len(partials) \in Nat /\ DOMAIN partials = 1..Len(partials)
        /\ DOMAIN partials' = 1..Len(partials) - 1
    BY <1>1, <1>4, <2>1, LenProperties
  <2>3. ASSUME NEW i \in 1..Len(partials) - 1
        PROVE  i + 1 \in 1..Len(partials) /\ partials'[i] = partials[i + 1]
    <3>1. i \in 1..Len(Tail(partials)) /\ i + 1 \in 1..Len(partials)
      BY <2>1, <2>2
    <3>2. QED
      BY <1>4, <2>1, <3>1
  <2>4. QED
    BY <1>2, <2>2, <2>3 DEF HypothesesArePure
<1>5. QED
  BY <1>3, <1>4

\* The streaming thread adds a hypothesis of what its decoder has heard.
LEMMA StreamPure ==
  ASSUME TypeOK, Track, HypothesesArePure, StreamStep
  PROVE  HypothesesArePure'
<1>1. utt' = utt /\ utt.seq \in Nat /\ partials \in Seq(SUBSET Nat)
  BY FeedsShape DEF StreamStep, engineVars, TypeOK
<1>2. CASE partials' = partials
  BY <1>1, <1>2 DEF HypothesesArePure
<1>3. CASE decoder' = {feeds[1].of} /\ partials' = Append(partials, decoder')
  <2>1. PICK n : n = feeds[1].of
    OBVIOUS
  <2>2. n \in 0..utt.seq
    BY <1>1, <2>1, TakenShape DEF Track, NothingAhead
  <2>3. partials' = Append(partials, {n})
    BY <1>3, <2>1
  <2>4. {n} \in SUBSET Nat
    BY <1>1, <2>2
  <2>5. /\ Len(partials) \in Nat /\ DOMAIN partials = 1..Len(partials)
        /\ Append(partials, {n}) \in Seq(SUBSET Nat)
        /\ Len(Append(partials, {n})) = Len(partials) + 1
        /\ \A i \in 1..Len(partials) : Append(partials, {n})[i] = partials[i]
        /\ Append(partials, {n})[Len(partials) + 1] = {n}
    BY <1>1, <2>4, LenProperties, AppendProperties
  <2>6. DOMAIN partials' = 1..Len(partials) + 1
    BY <2>3, <2>5, LenProperties
  <2>7. ASSUME NEW i \in DOMAIN partials'
        PROVE  \E k \in 0..utt.seq : partials'[i] = {k}
    <3>1. i \in 1..Len(partials) \/ i = Len(partials) + 1
      BY <2>5, <2>6
    <3>2. CASE i \in 1..Len(partials)
      BY <2>3, <2>5, <3>2 DEF HypothesesArePure
    <3>3. CASE i = Len(partials) + 1
      BY <2>2, <2>3, <2>5, <3>3
    <3>4. QED
      BY <3>1, <3>2, <3>3
  <2>8. QED
    BY <1>1, <2>7 DEF HypothesesArePure
<1>4. QED
  BY <1>2, <1>3, DecoderEffect

LEMMA StepPure ==
  ASSUME TypeOK, Track, HypothesesArePure, [Next]_vars
  PROVE  HypothesesArePure'
<1>1. utt \in Utterance /\ utt.seq \in Nat
  BY FeedsShape
<1>2. CASE PressStarts \/ CommandStarts
  <2>1. utt' = Abandoned(utt) /\ partials' = partials
    BY <1>2 DEF PressStarts, CommandStarts, StartRecording
  <2>2. utt'.seq = utt.seq + 1
    BY <1>1, <2>1, AbandonedEffect
  <2>3. QED
    BY <1>1, <2>1, <2>2, KeepsPure
<1>3. CASE PressStops \/ ReleaseStops \/ CommandStops \/ Tick \/ Second
  BY <1>1, <1>3, RecordingFeeds, KeepsPure
<1>4. CASE \/ CommandCancels \/ Disable \/ Enable \/ StartRebind \/ OnRebound
           \/ Bail \/ Results \/ OfflineStep \/ UNCHANGED vars
  <2>1. utt'.seq \in Nat /\ utt'.seq >= utt.seq
    BY <1>4, QuietStep
  <2>2. \/ partials' = partials
        \/ partials # <<>> /\ partials' = Tail(partials)
    BY <1>4 DEF CommandCancels, Disable, Enable, StartRebind, OnRebound, Bail,
                Results, OnPartial, DropAnswer, FileAnswer, SettleUtterance,
                OnNotice, OfflineStep, asrVars, vars
  <2>3. QED
    BY <2>1, <2>2, KeepsPure
<1>5. CASE \E t \in Threads : Loaded(t) \/ LoadFailed(t)
  <2>1. utt' = utt /\ partials' = partials
    BY <1>5 DEF Loaded, LoadFailed, engineVars
  <2>2. QED
    BY <1>1, <2>1, KeepsPure
<1>6. CASE StreamStep
  BY <1>6, StreamPure
<1>7. QED
  BY <1>2, <1>3, <1>4, <1>5, <1>6 DEF Next, Keys, Commands, Workers

-----------------------------------------------------------------------------
(* Theorem *)

\* No hypothesis is made from the audio of two utterances, however far the
\* streaming thread is behind: the Reset a new recording queues reaches the
\* decoder before any chunk of it (start_recording, asr.rs).
THEOREM NeverMixed == Spec => []HypothesesArePure
<1>1. Init => Track /\ HypothesesArePure
  BY InitTrack DEF Init, HypothesesArePure
<1>2. /\ TypeOK /\ Track /\ HypothesesArePure /\ [Next]_vars
      => (Track /\ HypothesesArePure)'
  BY StepTrack, StepPure
<1>3. QED
  BY <1>1, <1>2, TypeCorrect, PTL DEF Spec
=============================================================================
