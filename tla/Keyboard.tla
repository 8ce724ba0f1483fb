------------------------------ MODULE Keyboard ------------------------------
(***************************************************************************)
(* The keyboard between compositor, frontend, IBus and application         *)
(* (im/frontend.rs, im/router.rs, im/keyboard.rs): the grab follows the    *)
(* active field, credential fields are left alone, every key of a grab is  *)
(* routed, held keys repeat, the dictation trigger is swallowed.           *)
(*                                                                         *)
(* The compositor is external.  What it tells the frontend (changes of the *)
(* field, the keymap of a new grab, keys of the grab) is read later, in    *)
(* order, from wire; while the frontend waits for IBus nothing is read.    *)
(* What the frontend asks of it takes effect at once.  Keys of a grab that *)
(* is over may still be read.  There is one window, which may show a field *)
(* or not, so it keeps what it believes of the keys.                       *)
(***************************************************************************)
EXTENDS Integers, Sequences, FiniteSets

CONSTANTS
  Keys,
  NoKey,       \* no key
  Latches,     \* the keys that latch a shift level
  Trigger,     \* the dictation trigger at the start
  MaxPresses,  \* bound: presses of keys
  MaxChanges,  \* bound: changes of the field
  MaxLosses    \* bound: losses of the IBus connection

ASSUME KeysAssumption ==
  /\ NoKey \notin Keys /\ Latches \subseteq Keys /\ Trigger \in Keys
  /\ MaxPresses \in Nat /\ MaxChanges \in Nat /\ MaxLosses \in Nat

VARIABLES
  field,     \* "none", "plain" or "secret"
  wire,      \* events the frontend has not read
  down,      \* keys physically down
  appDown,   \* keys the window believes to be down
  presses, changes
compositor == <<field, wire, down, appDown, presses, changes>>

VARIABLES
  here,      \* active
  secret,    \* content.secret()
  session,   \* session.is_some(): grab and virtual keyboard
  keymap,    \* "none"; of this session: "ready", or "broken" (not compiled)
  popup,     \* the popup's active
  repeat,    \* Repeat: its key and its generation
  timers,    \* generations of repeat timers in the event loop
  generation
frontend == <<here, secret, session, keymap, popup, repeat, timers, generation>>

VARIABLES
  context,   \* link.context().is_some()
  focused,   \* the context has been told FocusIn and not FocusOut
  losses
ibus == <<context, focused, losses>>

VARIABLES
  trigger,   \* ImLink.trigger
  choice     \* the key pressed to answer a rebind, NoKey before
engine == <<trigger, choice>>

VARIABLES
  strayed,   \* history: keys whose release came after their session
  leaked,    \* history: keys pressed in a secret field and given to IBus
  overtaken  \* history: a grab began with events of the last one unread
history == <<strayed, leaked, overtaken>>

vars == <<compositor, frontend, ibus, engine, history>>

NoRepeat == [key |-> NoKey, generation |-> 0]

Done(f)        == [ev |-> "done", on |-> f # "none", secret |-> f = "secret"]
KeyEvent(k, p) == [ev |-> "key", key |-> k, pressed |-> p, secret |-> field = "secret"]
KeymapEvent    == [ev |-> "keymap"]

-----------------------------------------------------------------------------
(* The compositor and the hand on the keyboard *)

Edge(k, pressed) ==
  IF session THEN /\ wire' = Append(wire, KeyEvent(k, pressed))
                  /\ UNCHANGED appDown
  ELSE /\ appDown' = IF pressed THEN appDown \cup {k} ELSE appDown \ {k}
       /\ UNCHANGED wire

\* One press may also be the answer to a rebind.
Press(k) ==
  /\ k \notin down
  /\ presses < MaxPresses
  /\ presses' = presses + 1
  /\ down' = down \cup {k}
  /\ Edge(k, TRUE)
  /\ choice' \in {choice} \cup (IF choice = NoKey THEN {k} ELSE {})
  /\ UNCHANGED <<field, changes, frontend, ibus, trigger, history>>

Release(k) ==
  /\ k \in down
  /\ down' = down \ {k}
  /\ Edge(k, FALSE)
  /\ UNCHANGED <<field, presses, changes, frontend, ibus, engine, history>>

\* The window moves to another field, or to none, or a field changes its kind.
FieldChanges(f) ==
  /\ changes < MaxChanges
  /\ changes' = changes + 1
  /\ ~(field = "none" /\ f = "none")
  /\ field' = f
  /\ wire' = Append(wire, Done(f))
  /\ UNCHANGED <<down, appDown, presses, frontend, ibus, engine, history>>

\* The engine hears which key was chosen: set_trigger.
Rebound ==
  /\ choice # NoKey /\ trigger # choice
  /\ trigger' = choice
  /\ UNCHANGED <<compositor, frontend, ibus, choice, history>>

-----------------------------------------------------------------------------
(* The grab and the IBus context: what on_done does *)

CancelRepeat == repeat' = NoRepeat

\* Mutant of Forget: the keymap of the last grab stays.
ForgetNothing == UNCHANGED keymap

\* Keyboard::forget
Forget == keymap' = "none"

OfGrab(event) == event.ev # "done"

TakeKeyboard ==
  /\ session' = TRUE
  /\ wire' = Append(Tail(wire), KeymapEvent)
  /\ overtaken' = (overtaken \/ \E i \in DOMAIN wire : OfGrab(wire[i]))

ReleaseKeyboard ==
  /\ CancelRepeat
  /\ session' = FALSE
  /\ Forget
  /\ wire' = Tail(wire)
  /\ UNCHANGED overtaken

\* attach_context: there is a context, or one can be built, or neither.
AttachContext == context' \in {context, TRUE} /\ focused' = context'

FocusOut == focused' = FALSE /\ UNCHANGED context

Activate ==
  /\ ~here /\ here'
  /\ Forget
  /\ \/ /\ secret'
        /\ wire' = Tail(wire)
        /\ UNCHANGED <<session, popup, context, focused, overtaken>>
     \/ ~secret' /\ TakeKeyboard /\ popup' = TRUE /\ AttachContext
  /\ UNCHANGED repeat

Deactivate ==
  /\ here /\ ~here'
  /\ popup' = FALSE
  /\ FocusOut
  /\ ReleaseKeyboard

BecomesSecret ==
  /\ here /\ here' /\ ~secret /\ secret'
  /\ ReleaseKeyboard
  /\ popup' = FALSE
  /\ FocusOut

NoLongerSecret ==
  /\ here /\ here' /\ secret /\ ~secret'
  /\ TakeKeyboard
  /\ popup' = TRUE
  /\ AttachContext
  /\ UNCHANGED <<repeat, keymap>>

\* Another field of the same kind, or the same one again.
StaysAsItIs ==
  /\ here = here' /\ (here => secret = secret')
  /\ wire' = Tail(wire)
  /\ UNCHANGED <<session, keymap, popup, repeat, context, focused, overtaken>>

\* A deactivation brings no content: the last one stays.
OnDone ==
  /\ wire # <<>> /\ Head(wire).ev = "done"
  /\ here' = Head(wire).on
  /\ secret' = IF Head(wire).on THEN Head(wire).secret ELSE secret
  /\ \/ Activate \/ Deactivate \/ BecomesSecret \/ NoLongerSecret \/ StaysAsItIs
  /\ UNCHANGED <<field, down, appDown, presses, changes, timers, generation,
                 losses, engine, strayed, leaked>>

\* The grab's keymap arrives; it may be one that does not compile.
OnKeymap ==
  /\ wire # <<>> /\ Head(wire).ev = "keymap"
  /\ wire' = Tail(wire)
  /\ \/ session /\ keymap' \in {"ready", "broken"}
     \/ ~session /\ UNCHANGED keymap
  /\ UNCHANGED <<field, down, appDown, presses, changes, here, secret, session,
                 popup, repeat, timers, generation, ibus, engine, history>>

-----------------------------------------------------------------------------
(* Keys: on_key, deliver_key, route *)

\* replay: through the virtual keyboard, if there is one with a keymap.
Replay(k, pressed) ==
  IF session /\ keymap # "none"
  THEN /\ appDown' = IF pressed THEN appDown \cup {k} ELSE appDown \ {k}
       /\ strayed' = IF pressed THEN strayed ELSE strayed \ {k}
  ELSE /\ strayed' = IF pressed THEN strayed ELSE strayed \cup {k}
       /\ UNCHANGED appDown

Drop == UNCHANGED <<appDown, strayed>>

\* Mutant of CommitsText: also the release of a key is committed as text.
CommitsEitherEdge(k, pressed) == k \notin Latches

\* A plain printable press is committed as text (unless a modifier is held).
CommitsText(k, pressed) == k \notin Latches /\ pressed

\* route, when IBus has left the key alone
Route(k, pressed) ==
  \/ k \in Latches /\ Drop
  \/ CommitsText(k, pressed) /\ Drop
  \/ k \notin Latches /\ Replay(k, pressed)

\* deliver_key.  IBus may take the key, leave it, or turn out to be gone.  It
\* takes no release of a key the window believes to be down (the release that
\* ends a switch of engines is one it does take: see README).
DeliverKey(k, pressed, ofSecret) ==
  \/ /\ keymap # "ready" \/ ~context
     /\ Replay(k, pressed)
     /\ UNCHANGED <<leaked, ibus>>
  \/ /\ keymap = "ready" /\ context
     /\ leaked' = IF ofSecret THEN leaked \cup {k} ELSE leaked
     /\ \/ (pressed \/ k \notin appDown) /\ Drop /\ UNCHANGED ibus
        \/ Route(k, pressed) /\ UNCHANGED ibus
        \/ /\ losses < MaxLosses
           /\ losses' = losses + 1
           /\ context' = FALSE /\ focused' = FALSE
           /\ Replay(k, pressed)

\* Mutant of EndsRepeat: a release leaves the repeat alone.
EndsRepeatOnPress(pressed) == pressed

\* Any edge ends the previous repeat.
EndsRepeat(pressed) == TRUE

\* Mutant of ScheduleRepeat: the new generation is not kept.
ScheduleUnkept(k) ==
  \/ /\ keymap = "ready"
     /\ repeat' = [key |-> k, generation |-> generation + 1]
     /\ timers' = timers \cup {generation + 1}
     /\ UNCHANGED generation
  \/ repeat' = NoRepeat /\ UNCHANGED <<timers, generation>>

\* schedule_repeat: the layout and the repeat rate decide.
ScheduleRepeat(k) ==
  \/ /\ keymap = "ready"
     /\ generation' = generation + 1
     /\ repeat' = [key |-> k, generation |-> generation + 1]
     /\ timers' = timers \cup {generation + 1}
  \/ repeat' = NoRepeat /\ UNCHANGED <<timers, generation>>

NoSchedule(pressed) ==
  /\ repeat' = IF EndsRepeat(pressed) THEN NoRepeat ELSE repeat
  /\ UNCHANGED <<timers, generation>>

OnKey ==
  /\ wire # <<>> /\ Head(wire).ev = "key"
  /\ wire' = Tail(wire)
  /\ LET e == Head(wire)
     IN  \/ /\ e.key = trigger
            /\ NoSchedule(e.pressed)
            /\ UNCHANGED <<appDown, ibus, strayed, leaked>>
         \/ /\ e.key # trigger
            /\ DeliverKey(e.key, e.pressed, e.secret)
            /\ \/ e.pressed /\ ScheduleRepeat(e.key)
               \/ ~e.pressed /\ NoSchedule(FALSE)
  /\ UNCHANGED <<field, down, presses, changes, here, secret, session, keymap,
                 popup, engine, overtaken>>

\* Mutant of Fires: any timer serves whatever repeat there is.
FiresAny(t) == repeat # NoRepeat

\* A timer whose generation has passed is one that was cancelled.
Fires(t) == repeat # NoRepeat /\ repeat.generation = t

\* on_repeat; the timer stays while its repeat does.
OnRepeat(t) ==
  /\ t \in timers
  /\ \/ /\ Fires(t)
        /\ DeliverKey(repeat.key, TRUE, FALSE)
        /\ UNCHANGED timers
     \/ /\ ~Fires(t)
        /\ timers' = timers \ {t}
        /\ UNCHANGED <<appDown, ibus, strayed, leaked>>
  /\ UNCHANGED <<field, wire, down, presses, changes, here, secret, session,
                 keymap, popup, repeat, generation, engine, overtaken>>

-----------------------------------------------------------------------------
(* IBus *)

\* Mutant of OnTick: a credential field is attached too.
OnTickAny ==
  /\ here /\ ~context
  /\ AttachContext
  /\ UNCHANGED <<compositor, frontend, losses, engine, history>>

\* on_tick: a field without a context tries again.
OnTick ==
  /\ here /\ ~secret /\ ~context
  /\ AttachContext
  /\ UNCHANGED <<compositor, frontend, losses, engine, history>>

\* The connection is gone: Upstream::Lost, or a call that fails.
ContextLost ==
  /\ context
  /\ losses < MaxLosses
  /\ losses' = losses + 1
  /\ context' = FALSE /\ focused' = FALSE
  /\ UNCHANGED <<compositor, frontend, engine, history>>

-----------------------------------------------------------------------------

Init ==
  /\ field = "none" /\ wire = <<>>
  /\ down = {} /\ appDown = {}
  /\ presses = 0 /\ changes = 0
  /\ here = FALSE /\ secret = FALSE
  /\ session = FALSE /\ keymap = "none" /\ popup = FALSE
  /\ repeat = NoRepeat /\ timers = {} /\ generation = 0
  /\ context = FALSE /\ focused = FALSE /\ losses = 0
  /\ trigger = Trigger /\ choice = NoKey
  /\ strayed = {} /\ leaked = {} /\ overtaken = FALSE

Frontend == OnDone \/ OnKeymap \/ OnKey \/ OnTick \/ \E t \in timers : OnRepeat(t)

World == \/ \E k \in Keys : Press(k) \/ Release(k)
         \/ \E f \in {"none", "plain", "secret"} : FieldChanges(f)
         \/ Rebound
         \/ ContextLost

Next == Frontend \/ World

Spec == Init /\ [][Next]_vars

-----------------------------------------------------------------------------
(* Properties *)

Events == [ev: {"done"}, on: BOOLEAN, secret: BOOLEAN] \cup [ev: {"keymap"}]
          \cup [ev: {"key"}, key: Keys, pressed: BOOLEAN, secret: BOOLEAN]

\* Every variable keeps its type; no timer or repeat is of a generation to come.
TypeOK ==
  /\ field \in {"none", "plain", "secret"}
  /\ wire \in Seq(Events)
  /\ down \subseteq Keys /\ appDown \subseteq Keys
  /\ presses \in 0..MaxPresses /\ changes \in 0..MaxChanges
  /\ here \in BOOLEAN /\ secret \in BOOLEAN /\ session \in BOOLEAN
  /\ keymap \in {"none", "ready", "broken"} /\ popup \in BOOLEAN
  /\ generation \in Nat /\ timers \subseteq 1..generation
  /\ repeat \in [key: Keys, generation: 1..generation] \cup {NoRepeat}
  /\ context \in BOOLEAN /\ focused \in BOOLEAN /\ losses \in 0..MaxLosses
  /\ trigger \in Keys /\ choice \in Keys \cup {NoKey}
  /\ strayed \subseteq Keys /\ leaked \subseteq Keys
  /\ overtaken \in BOOLEAN

\* Whatever order fields change in, the keyboard is grabbed exactly while a
\* field is active that is no credential; popup and IBus focus go with it,
\* IBus as far as it is there; nothing repeats and no keymap stays without it
\* (on_done and its four branches, on_tick, lost).
GrabFollowsField ==
  /\ session <=> here /\ ~secret
  /\ popup <=> session
  /\ focused <=> session /\ context
  /\ ~session => keymap = "none" /\ repeat = NoRepeat

\* No key pressed in a credential field reaches IBus, also not one pressed
\* before the frontend knew (content_type.rs: "the keystrokes never pass
\* through this process").
SecretsStayHome == leaked = {}

LastDone(m, i) ==
  wire[m].ev = "done" /\ \A n \in (m + 1)..(i - 1) : wire[n].ev # "done"

\* What the frontend will know, having read all before i: a secret field.
SecretBefore(i) ==
  /\ (\A m \in 1..(i - 1) : wire[m].ev # "done") => here /\ secret
  /\ \A m \in 1..(i - 1) : LastDone(m, i) => wire[m].on /\ wire[m].secret

\* Why SecretsStayHome: by the time a key of a secret field is read, the
\* frontend has read that the field is one, and so has let go of the keyboard.
KeysKnowTheirField ==
  /\ field = "secret" => SecretBefore(Len(wire) + 1)
  /\ \A i \in 1..Len(wire) : (wire[i].ev = "key" /\ wire[i].secret) => SecretBefore(i)

Unread(k, pressed) ==
  \E i \in DOMAIN wire : wire[i].ev = "key" /\ wire[i].key = k /\ wire[i].pressed = pressed

\* What repeats is a key that is down, or whose release is still to be read,
\* and one clock beats for it, however many were cancelled before (on_repeat),
\* as long as keys of one grab are not read in the next.
RepeatOnlyHeld ==
  (repeat # NoRepeat /\ ~overtaken) =>
    /\ repeat.key \in down \/ Unread(repeat.key, FALSE)
    /\ Cardinality({t \in timers : Fires(t)}) = 1

\* When all is read, the window believes no key to be down that is not: except
\* one whose release was on its way when the grab ended, one that was the
\* trigger, and a latch.  IBus, the grab and the keymap may have come or gone
\* between press and release.
NoKeyStuck ==
  (wire = <<>> /\ ~overtaken) =>
    \A k \in appDown \ down : k \in strayed \cup {Trigger, choice} \cup Latches

=============================================================================
