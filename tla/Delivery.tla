------------------------------ MODULE Delivery ------------------------------
(***************************************************************************)
(* How a dictated text reaches the focused field: the engine's outlet      *)
(* (sink.rs), the link to the input-method thread (im/command.rs), the     *)
(* frontend's turn-taking and activation (im/dictation.rs, im/frontend.rs) *)
(* and its restarts by the supervisor (im/supervisor.rs).                  *)
(*                                                                         *)
(* Engine and frontend are threads.  Engine to frontend there is one       *)
(* channel of commands, which exists only while a frontend runs; the other *)
(* way there is one published flag, which the engine reads before it       *)
(* sends.  The compositor is external: it moves the focus, tells the       *)
(* frontend in events it reads later, and gives what the frontend sends to *)
(* whichever field has focus by then.  IBus is external too: it holds at   *)
(* most one conversion and changes the preedit with keys, or by itself.    *)
(*                                                                         *)
(* The fallback is WaitForFinal, the default: partials that cannot be      *)
(* shown are not typed.                                                    *)
(***************************************************************************)
EXTENDS Integers, Sequences

CONSTANTS
  Fields,       \* text fields that speak the input-method protocol
  MaxUtts,      \* bound: utterances
  MaxConvs,     \* bound: conversions the user starts with the keyboard
  MaxCommands,  \* bound: partials and idle cancels wait for room below this
  MaxMoves      \* bound: focus changes and frontend restarts

ASSUME BoundsAssumption ==
  /\ MaxUtts \in Nat /\ MaxConvs \in Nat /\ MaxCommands \in Nat
  /\ MaxMoves \in Nat
  /\ "window" \notin Fields

VARIABLES
  focus,     \* the focused field, or "window": one without input method
  events,    \* activations the frontend has not read: TRUE on, FALSE off
  screen,    \* the preedit the focused field shows
  landed,    \* history: every text that reached a place, in order
  moves      \* how often the world has moved
compositor == <<focus, events, screen, landed, moves>>

VARIABLES
  phase,     \* the engine: "rest", "talking" or "closing"
  utt,       \* number of the current utterance
  decided,   \* what the engine is about to send, the flag having said yes
  committed, \* utterances reported as injected through the input method
  failed     \* utterances that ended in an error
engine == <<phase, utt, decided, committed, failed>>

VARIABLES
  loop,      \* the frontend's life: see Attached and Bound
  active,    \* ImStatus.active
  commands   \* the command channel
link == <<loop, active, commands>>

VARIABLES
  here,      \* the frontend's own active
  turn,      \* Turn
  held,      \* the preedit record: what it shows and whether IBus wants it kept
  begun      \* history: the utterance begun in this activation, 0 if none
frontend == <<here, turn, held, begun>>

VARIABLES
  conv,      \* the conversion IBus holds, 0 if none
  convs,     \* conversions started so far
  signals    \* IBus signals the frontend has not read
ibus == <<conv, convs, signals>>

VARIABLES
  moved,     \* history: utterances in whose time the world moved
  gap,       \* history: those moved between the engine's look and the handling
  dropped    \* history: conversions a Begin reset without committing them

vars == <<compositor, engine, link, frontend, ibus, moved, gap, dropped>>

-----------------------------------------------------------------------------
(* Texts: what is said in utterance n, what is typed in conversion n *)

NoText       == [of |-> "none",   n |-> 0]
Speech(u)    == [of |-> "speech", n |-> u]
Typed(c)     == [of |-> "keys",   n |-> c]
NoPreedit    == [text |-> NoText, keep |-> FALSE]

\* The compositor gives a commit to the field in focus, or to nobody.
Land(text, part) ==
  landed' = IF focus \in Fields
            THEN Append(landed, [text |-> text, part |-> part, at |-> focus])
            ELSE landed

\* So with a preedit.
Show(text) == screen' = IF focus \in Fields THEN text ELSE screen

-----------------------------------------------------------------------------
(* ImLink and ImStatus *)

\* run(): attach, set_bound(true), the loop, set_bound(false), detach.
Attached == loop # "down"
Bound    == loop \in {"up", "over"}

IsActive == Bound /\ active

\* ImLink::send: dropped while there is no channel.
Send(cmd, u) ==
  commands' = IF Attached THEN Append(commands, [cmd |-> cmd, utt |-> u])
              ELSE commands

\* The frontend knows where the focus is.
Current == loop = "up" /\ events = <<>> /\ here = (focus \in Fields)

\* Utterances the engine has begun and the frontend is not through with.
InProgress == (IF phase = "rest" THEN {} ELSE {utt})
              \cup {commands[i].utt : i \in DOMAIN commands}

InTheGap == (IF decided = "Commit" THEN {utt} ELSE {})
            \cup {commands[i].utt : i \in {j \in DOMAIN commands : commands[j].cmd = "Commit"}}

WorldMoves ==
  /\ moves < MaxMoves
  /\ moves' = moves + 1
  /\ moved' = moved \cup InProgress
  /\ gap' = gap \cup InTheGap

-----------------------------------------------------------------------------
(* The engine and its sink *)

\* start_recording, TextSink::begin
Begin ==
  /\ phase = "rest"
  /\ utt < MaxUtts
  /\ utt' = utt + 1
  /\ phase' = "talking"
  /\ Send("Begin", utt + 1)
  /\ moved' = IF Current THEN moved ELSE moved \cup {utt + 1}
  /\ UNCHANGED <<compositor, decided, committed, failed, loop, active,
                 frontend, ibus, gap, dropped>>

\* TextSink::preedit, up to the answer of im_active
LookPartial ==
  /\ phase = "talking"
  /\ decided = "nothing"
  /\ IsActive
  /\ Len(commands) < MaxCommands
  /\ decided' = "Partial"
  /\ UNCHANGED <<compositor, phase, utt, committed, failed, link, frontend,
                 ibus, moved, gap, dropped>>

SendPartial ==
  /\ decided = "Partial"
  /\ Send("Partial", utt)
  /\ decided' = "nothing"
  /\ UNCHANGED <<compositor, phase, utt, committed, failed, loop, active,
                 frontend, ibus, moved, gap, dropped>>

\* finish_recording
Close ==
  /\ phase = "talking"
  /\ decided = "nothing"
  /\ phase' = "closing"
  /\ UNCHANGED <<compositor, utt, decided, committed, failed, link, frontend,
                 ibus, moved, gap, dropped>>

\* TextSink::commit finds a field...
LookCommit ==
  /\ phase = "closing"
  /\ decided = "nothing"
  /\ IsActive
  /\ decided' = "Commit"
  /\ gap' = IF Current THEN gap ELSE gap \cup {utt}
  /\ UNCHANGED <<compositor, phase, utt, committed, failed, link, frontend,
                 ibus, moved, dropped>>

\* Mutant of SentBy: the virtual keyboard is used as well.
SentByBoth == landed' = Append(landed, [text |-> Speech(utt), part |-> "final", at |-> focus])

\* What was handed to the input method is not typed.
SentBy == UNCHANGED landed

\* ... and hands it the text.
SendCommit ==
  /\ decided = "Commit"
  /\ Send("Commit", utt)
  /\ SentBy
  /\ decided' = "nothing"
  /\ committed' = committed \cup {utt}
  /\ phase' = "rest"
  /\ UNCHANGED <<focus, events, screen, moves, utt, failed, loop, active,
                 frontend, ibus, moved, gap, dropped>>

\* No field: the virtual keyboard types into whatever has focus.
TypeText ==
  /\ phase = "closing"
  /\ decided = "nothing"
  /\ ~IsActive
  /\ landed' = Append(landed, [text |-> Speech(utt), part |-> "final", at |-> focus])
  /\ phase' = "rest"
  /\ UNCHANGED <<focus, events, screen, moves, utt, decided, committed, failed,
                 link, frontend, ibus, moved, gap, dropped>>

\* cancel, or nothing was said; also at rest, when the trigger is disarmed
CancelUtterance ==
  /\ decided = "nothing"
  /\ phase = "rest" => Len(commands) < MaxCommands
  /\ Send("Cancel", utt)
  /\ phase' = "rest"
  /\ UNCHANGED <<compositor, utt, decided, committed, failed, loop, active,
                 frontend, ibus, moved, gap, dropped>>

\* on_segment with an error: the sink is not told.
Fail ==
  /\ phase = "closing"
  /\ decided = "nothing"
  /\ phase' = "rest"
  /\ failed' = failed \cup {utt}
  /\ UNCHANGED <<compositor, utt, decided, committed, link, frontend, ibus,
                 moved, gap, dropped>>

-----------------------------------------------------------------------------
(* The frontend: commands.  on_command, advance and apply_dictation *)

\* Mutant of Keep: a partial is recorded as a preedit to be kept.
KeepAll(text) == TRUE

\* Only IBus asks for a preedit to be kept.
Keep(text) == text.of = "keys"

\* set_preedit
SetPreedit(text) ==
  /\ Show(text)
  /\ held' = IF text = NoText THEN NoPreedit
             ELSE [text |-> text, keep |-> Keep(text)]

\* IBusInputContext.Reset: IBus drops its conversion and says so.
Reset ==
  /\ conv' = 0
  /\ signals' = IF conv = 0 THEN signals ELSE Append(signals, NoText)

\* flush_held_preedit in an active field
Flush ==
  IF held.keep
  THEN Land(held.text, IF held.text.of = "keys" THEN "final" ELSE "half") /\ Show(NoText)
  ELSE UNCHANGED <<landed, screen>>

OnBegin(u) ==
  \/ /\ here
     /\ begun' = u
     /\ Flush
     /\ held' = NoPreedit
     /\ Reset
     /\ dropped' = IF conv # 0 /\ ~held.keep THEN dropped \cup {conv} ELSE dropped
     /\ turn' = "Dictating"
  \/ /\ ~here
     /\ UNCHANGED <<landed, screen, held, begun, conv, signals, dropped, turn>>

OnPartial(u) ==
  /\ \/ turn = "Dictating" /\ here /\ SetPreedit(Speech(u))
     \/ ~(turn = "Dictating" /\ here) /\ UNCHANGED <<screen, held>>
  /\ UNCHANGED <<landed, turn, begun, conv, signals, dropped>>

\* Mutant of Honours: a commit is only honoured while dictating.
HonoursDictating == here /\ turn = "Dictating"

\* advance: a commit is honoured in either turn.
Honours == here

OnCommit(u) ==
  /\ \/ Honours /\ Land(Speech(u), "final") /\ SetPreedit(NoText)
     \/ ~Honours /\ UNCHANGED <<landed, screen, held>>
  /\ turn' = "Forwarding"
  /\ UNCHANGED <<begun, conv, signals, dropped>>

\* Mutant of Clears: the preedit of a cancelled utterance stays.
ClearsNothing == UNCHANGED <<screen, held>>

Clears == SetPreedit(NoText)

OnCancel ==
  /\ \/ turn = "Dictating" /\ Clears
     \/ turn = "Forwarding" /\ UNCHANGED <<screen, held>>
  /\ turn' = "Forwarding"
  /\ UNCHANGED <<landed, begun, conv, signals, dropped>>

OnCommand ==
  /\ loop = "up"
  /\ commands # <<>>
  /\ LET c == Head(commands)
     IN  \/ c.cmd = "Begin"   /\ OnBegin(c.utt)
         \/ c.cmd = "Partial" /\ OnPartial(c.utt)
         \/ c.cmd = "Commit"  /\ OnCommit(c.utt)
         \/ c.cmd = "Cancel"  /\ OnCancel
  /\ commands' = Tail(commands)
  /\ UNCHANGED <<focus, events, moves, engine, loop, active, here, convs,
                 moved, gap>>

-----------------------------------------------------------------------------
(* The frontend: activation.  on_done *)

Activate ==
  /\ ~here /\ Head(events)
  /\ held' = NoPreedit
  /\ UNCHANGED <<turn, conv, signals>>

\* Mutant of TurnEnds: the microphone keeps the turn.
TurnGoesOn == UNCHANGED turn

\* The microphone's turn ends with the field it was writing into.
TurnEnds == turn' = "Forwarding"

Deactivate ==
  /\ here /\ ~Head(events)
  /\ TurnEnds
  /\ Reset
  /\ held' = NoPreedit

OnDone ==
  /\ loop = "up"
  /\ events # <<>>
  /\ here' = Head(events)
  /\ active' = Head(events)
  /\ begun' = 0
  /\ Activate \/ Deactivate
  /\ events' = Tail(events)
  /\ UNCHANGED <<focus, screen, landed, moves, engine, loop, commands, convs,
                 moved, gap, dropped>>

-----------------------------------------------------------------------------
(* The frontend: keys and IBus.  deliver_key, apply_records, on_upstream *)

\* A key reaches the grab, perhaps ahead of a deactivation still unread.
GrabHasKeys == loop = "up" /\ here

\* A key starts a conversion or goes on with it.
KeyComposes ==
  /\ GrabHasKeys
  /\ \/ conv = 0 /\ convs < MaxConvs /\ convs' = convs + 1 /\ conv' = convs + 1
     \/ conv # 0 /\ held.text # Typed(conv) /\ UNCHANGED <<convs, conv>>
  /\ SetPreedit(Typed(conv'))
  /\ UNCHANGED <<focus, events, landed, moves, engine, link, here, turn, begun,
                 signals, moved, gap, dropped>>

\* A key finishes the conversion: commit_text.
KeyCommits ==
  /\ GrabHasKeys
  /\ conv # 0
  /\ conv' = 0
  /\ Land(Typed(conv), "final")
  /\ SetPreedit(NoText)
  /\ UNCHANGED <<focus, events, moves, engine, link, here, turn, begun,
                 convs, signals, moved, gap, dropped>>

\* IBus updates its preedit without a key.
IbusUpdates ==
  /\ conv # 0
  /\ signals = <<>>
  /\ signals' = <<Typed(conv)>>
  /\ UNCHANGED <<compositor, engine, link, frontend, conv, convs, moved, gap,
                 dropped>>

\* on_upstream: UpdatePreedit, HidePreedit
OnUpstream ==
  /\ loop = "up"
  /\ signals # <<>>
  /\ SetPreedit(Head(signals))
  /\ signals' = Tail(signals)
  /\ UNCHANGED <<focus, events, landed, moves, engine, link, here, turn, begun,
                 conv, convs, moved, gap, dropped>>

-----------------------------------------------------------------------------
(* The compositor, and the frontend's life *)

\* The old field drops its preedit; a bound input method hears of it.
FocusMoves(f) ==
  /\ f # focus
  /\ focus' = f
  /\ screen' = NoText
  /\ events' = IF ~Attached THEN <<>>
               ELSE events \o (IF focus \in Fields THEN <<FALSE>> ELSE <<>>)
                           \o (IF f \in Fields THEN <<TRUE>> ELSE <<>>)
  /\ WorldMoves
  /\ UNCHANGED <<landed, engine, link, frontend, ibus, dropped>>

\* A new frontend binds, is told of the focused field, and attaches.
Attach ==
  /\ loop = "down"
  /\ loop' = "attached"
  /\ events' = IF focus \in Fields THEN <<TRUE>> ELSE <<>>
  /\ here' = FALSE
  /\ turn' = "Forwarding"
  /\ held' = NoPreedit
  /\ begun' = 0
  /\ UNCHANGED <<focus, screen, landed, moves, engine, active, commands, ibus,
                 moved, gap, dropped>>

SetBound ==
  /\ loop = "attached"
  /\ loop' = "up"
  /\ UNCHANGED <<compositor, engine, active, commands, frontend, ibus, moved,
                 gap, dropped>>

\* The loop ends: the input method was taken away, or a connection broke.
LoopEnds ==
  /\ loop = "up"
  /\ loop' = "over"
  /\ WorldMoves
  /\ UNCHANGED <<focus, events, screen, landed, engine, active, commands,
                 frontend, ibus, dropped>>

\* Mutant of Withdrawn: the last activation stays published.
WithdrawnBoundOnly == UNCHANGED active

\* set_bound(false) takes the activation back as well.
Withdrawn == active' = FALSE

Unbind ==
  /\ loop = "over"
  /\ loop' = "unbound"
  /\ Withdrawn
  /\ UNCHANGED <<compositor, engine, commands, frontend, ibus, moved, gap,
                 dropped>>

\* detach; then the loop, its channel and its connections are dropped.
Detach ==
  /\ loop = "unbound"
  /\ loop' = "down"
  /\ commands' = <<>>
  /\ screen' = NoText
  /\ events' = <<>>
  /\ conv' = 0
  /\ signals' = <<>>
  /\ UNCHANGED <<focus, landed, moves, engine, active, frontend, convs, moved,
                 gap, dropped>>

-----------------------------------------------------------------------------

Init ==
  /\ focus \in Fields \cup {"window"}
  /\ events = <<>>
  /\ screen = NoText
  /\ landed = <<>>
  /\ moves = 0
  /\ phase = "rest"
  /\ utt = 0
  /\ decided = "nothing"
  /\ committed = {}
  /\ failed = {}
  /\ loop = "down"
  /\ active = FALSE
  /\ commands = <<>>
  /\ here = FALSE
  /\ turn = "Forwarding"
  /\ held = NoPreedit
  /\ begun = 0
  /\ conv = 0
  /\ convs = 0
  /\ signals = <<>>
  /\ moved = {}
  /\ gap = {}
  /\ dropped = {}

Engine     == \/ Begin \/ LookPartial \/ SendPartial \/ Close \/ LookCommit
              \/ SendCommit \/ TypeText \/ CancelUtterance \/ Fail
Frontend   == \/ OnCommand \/ OnDone \/ KeyComposes \/ KeyCommits \/ OnUpstream
Supervisor == \/ Attach \/ SetBound \/ LoopEnds \/ Unbind \/ Detach
World      == IbusUpdates \/ \E f \in Fields \cup {"window"} : FocusMoves(f)

Next == Engine \/ Frontend \/ Supervisor \/ World

Spec == Init /\ [][Next]_vars

-----------------------------------------------------------------------------
(* Properties *)

Texts == [of: {"none", "speech", "keys"}, n: Nat]

\* Every variable keeps its type; no field is published without a frontend.
TypeOK ==
  /\ focus \in Fields \cup {"window"}
  /\ events \in Seq(BOOLEAN)
  /\ screen \in Texts
  /\ landed \in Seq([text: Texts, part: {"final", "half"},
                     at: Fields \cup {"window"}])
  /\ moves \in 0..MaxMoves
  /\ phase \in {"rest", "talking", "closing"}
  /\ utt \in 0..MaxUtts
  /\ decided \in {"nothing", "Partial", "Commit"}
  /\ committed \in SUBSET (1..utt) /\ failed \in SUBSET (1..utt)
  /\ loop \in {"down", "attached", "up", "over", "unbound"}
  /\ active \in BOOLEAN /\ (active => Bound)
  /\ commands \in Seq([cmd: {"Begin", "Partial", "Commit", "Cancel"}, utt: 0..utt])
  /\ here \in BOOLEAN
  /\ turn \in {"Forwarding", "Dictating"}
  /\ held \in [text: Texts, keep: BOOLEAN]
  /\ begun \in 0..utt
  /\ convs \in 0..MaxConvs /\ conv \in 0..convs
  /\ signals \in Seq(Texts)
  /\ moved \in SUBSET (0..utt) /\ gap \in SUBSET (1..utt)
  /\ dropped \in SUBSET (1..convs)

\* Whatever path an utterance takes and however the focus, the flag and the
\* frontend change on the way, its text lands at most once, and no half
\* sentence that was only shown lands at all (TextSink::commit,
\* flush_held_preedit).
LandsAtMostOnce ==
  \A i \in DOMAIN landed : landed[i].text.of = "speech" =>
    /\ landed[i].part = "final"
    /\ \A j \in DOMAIN landed : landed[j].text = landed[i].text => i = j

Drained(u) == \A i \in DOMAIN commands : commands[i].utt # u

\* A text reported as injected is lost only if the focus moved, or the
\* frontend ended, between the engine's look at the flag and the frontend's
\* handling of the commit (command.rs: "the residual race").
LostOnlyInTheGap ==
  \A u \in committed \ gap :
    Drained(u) => \E i \in DOMAIN landed : landed[i].text = Speech(u)

\* An utterance in whose time nothing moved leaves nothing behind: once its
\* commands are handled, the keyboard has the turn and no recogniser's preedit
\* is held, unless it ended in an error, which the frontend is not told of.
SteadyLeavesNothing ==
  (phase = "rest" /\ utt # 0 /\ utt \notin moved \cup failed /\ commands = <<>>
      /\ loop = "up") =>
    turn = "Forwarding" /\ held.text.of # "speech"

\* A partial is shown only in the activation its utterance began in: not in
\* whatever field focus moves to next (frontend.rs, deactivate), nor in a
\* preedit the keyboard believes it owns (dictation.rs, rule 2).
PartialsStayHome == held.text.of = "speech" => held.text.n = begun

-----------------------------------------------------------------------------
(* What the repository says and the code does not do: see README *)

\* dictation.rs, advance: "A mozc conversion in progress is committed (Flush)
\* and only then reset, so entering dictation mid-word costs the user nothing."
MidWordCostsNothing == dropped = {}

=============================================================================
