------------------------------ MODULE Trigger -------------------------------
(***************************************************************************)
(* The physical trigger: the keyboard, the watcher thread (hotkey.rs), the *)
(* channel from the watcher, and the engine reduced to what it does with   *)
(* edges, commands and rebinds (engine.rs on_key, on_command, on_rebound;  *)
(* Engine models the rest of those handlers).                              *)
(*                                                                         *)
(* The watcher reads device descriptors that only deliver the trigger, or, *)
(* while it captures, any key.  Every rebuild of the descriptor set drops  *)
(* what was unread.  Engine and watcher share no state: requests go        *)
(* through a pending flag and an eventfd, events come back in a channel.   *)
(***************************************************************************)
EXTENDS Integers, Sequences, FiniteSets

CONSTANTS
  Keys,           \* the keys of the keyboard
  Esc,            \* KEY_ESC, which cancels a rebind
  FirstTrigger,   \* config.trigger_code at startup
  HoldToTalk,     \* config.hold_to_talk
  ChannelCap,     \* capacity of the event channel
  MaxUnread       \* bound: key events waiting in the descriptors

ASSUME KeysAssumption ==
  /\ Esc \in Keys
  /\ FirstTrigger \in Keys \ {Esc}
  /\ HoldToTalk \in BOOLEAN
  /\ ChannelCap \in Nat \ {0}
  /\ MaxUnread \in Nat \ {0}

VARIABLES
  down,       \* the keys physically held down
  unread,     \* key events the descriptors hold for the watcher
  mode,       \* Mode, or "dead" once run_blocking has returned an error
  held,       \* the watcher's held flag
  trigger,    \* the watcher's trigger
  pending,    \* a Capture request the watcher has not taken
  keys,       \* the event channel into the engine
  state,      \* the engine's State
  enabled,    \* whether the trigger is armed
  rebinding,  \* whether the engine waits for Rebound
  bound,      \* the engine's config.trigger_code
  choosing    \* history: keys that were pressed to choose and are still down

keyboard   == <<down, unread>>
watcher    == <<mode, held, trigger>>
engineVars == <<state, enabled, rebinding, bound>>
vars == <<keyboard, watcher, pending, keys, engineVars, choosing>>

Recording == state \in {"Held", "Open"}
Pressed   == [kind |-> "Pressed",  code |-> "none"]
Released  == [kind |-> "Released", code |-> "none"]
Rebound(code) == [kind |-> "Rebound", code |-> code]

-----------------------------------------------------------------------------
(* The keyboard *)

\* The mask of the open descriptors.
Delivers(k) == mode = "capturing" \/ (mode = "watching" /\ k = trigger)

KeyEvent(k, press) ==
  unread' = IF Delivers(k) THEN Append(unread, [code |-> k, press |-> press])
            ELSE unread

PressKey(k) ==
  /\ k \notin down
  /\ Len(unread) < MaxUnread
  /\ down' = down \cup {k}
  /\ KeyEvent(k, TRUE)
  /\ UNCHANGED <<watcher, pending, keys, engineVars, choosing>>

ReleaseKey(k) ==
  /\ k \in down
  /\ Len(unread) < MaxUnread
  /\ down' = down \ {k}
  /\ KeyEvent(k, FALSE)
  /\ choosing' = choosing \ {k}
  /\ UNCHANGED <<watcher, pending, keys, engineVars>>

-----------------------------------------------------------------------------
(* The watcher: run_blocking *)

\* Mutant of SendKey: the channel is taken to be unbounded.
SendKeyBlindly(event) == keys' = Append(keys, event)

\* The send blocks the thread while the channel is full.
SendKey(event) == Len(keys) < ChannelCap /\ keys' = Append(keys, event)

\* Mutant of CaptureForgets: the shared held flag survives into the capture.
CaptureForgetsNothing == held

\* A capture starts from "not held".
CaptureForgets == FALSE

\* The eventfd fires: take the request and reopen everything unmasked.
TakeRequest ==
  /\ pending
  /\ mode \in {"watching", "capturing"}
  /\ pending' = FALSE
  /\ \/ /\ mode = "watching"
        /\ mode' = "capturing"
        /\ held' = CaptureForgets
        /\ unread' = <<>>
     \/ mode = "capturing" /\ UNCHANGED <<mode, held, unread>>
  /\ UNCHANGED <<down, trigger, keys, engineVars, choosing>>

\* Mutant of CaptureTimesOut: nobody is told.
CaptureTimesOutSilently ==
  /\ mode = "capturing"
  /\ mode' = "watching"
  /\ unread' = <<>>
  /\ UNCHANGED <<down, held, trigger, pending, keys, engineVars, choosing>>

\* The capture window closes without a key.
CaptureTimesOut ==
  /\ mode = "capturing"
  /\ mode' = "watching"
  /\ SendKey(Rebound("none"))
  /\ unread' = <<>>
  /\ UNCHANGED <<down, held, trigger, pending, engineVars, choosing>>

\* Mutant of AfterChoice: the old trigger stays in effect.
AfterChoiceKeeps(code) == UNCHANGED trigger /\ unread' = <<>>

\* The chosen key is in effect; its descriptors are closed, the rest unread.
AfterChoice(code) ==
  /\ trigger' = IF code = "none" THEN trigger ELSE code
  /\ unread' = <<>>

\* The first press while capturing is the new trigger, unless it is Escape.
CaptureKey ==
  /\ mode = "capturing"
  /\ unread # <<>>
  /\ LET k == Head(unread)
         code == IF k.code = Esc THEN "none" ELSE k.code
     IN  \/ /\ k.press
            /\ mode' = "watching"
            /\ AfterChoice(code)
            /\ SendKey(Rebound(code))
            /\ choosing' = choosing \cup ({k.code} \cap down)
         \/ /\ ~k.press
            /\ unread' = Tail(unread)
            /\ UNCHANGED <<mode, trigger, keys, choosing>>
  /\ UNCHANGED <<down, held, pending, engineVars>>

\* An edge is reported when it changes the shared held flag.  The code reads
\* descriptor by descriptor (hotkey.rs:311); here all keyboards are one, in the
\* order of its keys: no property is about the order between two keyboards.
ReadEdge ==
  /\ mode = "watching"
  /\ unread # <<>>
  /\ unread' = Tail(unread)
  /\ LET k == Head(unread)
     IN  \/ /\ k.code = trigger
            /\ k.press # held
            /\ held' = k.press
            /\ SendKey(IF k.press THEN Pressed ELSE Released)
         \/ /\ k.code # trigger \/ k.press = held
            /\ UNCHANGED <<held, keys>>
  /\ UNCHANGED <<down, mode, trigger, pending, engineVars, choosing>>

\* Hotplug, or a descriptor that fails: rebuild, keeping held.  A keyboard
\* that reconnects comes back with its keys up.
Rebuild ==
  /\ mode # "dead"
  /\ unread' = <<>>
  /\ down' \in {down, {}}
  /\ choosing' = choosing \cap down'
  /\ UNCHANGED <<watcher, pending, keys, engineVars>>

\* An error out of discover or poll ends the thread.
Die ==
  /\ mode # "dead"
  /\ mode' = "dead"
  /\ unread' = <<>>
  /\ UNCHANGED <<down, held, trigger, pending, keys, engineVars, choosing>>

-----------------------------------------------------------------------------
(* The engine *)

\* on_key
OnPressed ==
  state' = CASE enabled /\ state = "Idle" -> IF HoldToTalk THEN "Held" ELSE "Open"
             [] enabled /\ state = "Open" /\ ~HoldToTalk -> "Transcribing"
             [] OTHER -> state

OnReleased ==
  state' = IF enabled /\ state = "Held" THEN "Transcribing" ELSE state

TakeEdge ==
  /\ keys # <<>>
  /\ \/ Head(keys) = Pressed /\ OnPressed
     \/ Head(keys) = Released /\ OnReleased
  /\ keys' = Tail(keys)
  /\ UNCHANGED <<keyboard, watcher, pending, enabled, rebinding, bound, choosing>>

\* on_rebound
TakeRebound ==
  /\ keys # <<>>
  /\ Head(keys).kind = "Rebound"
  /\ rebinding' = FALSE
  /\ bound' = IF Head(keys).code = "none" THEN bound ELSE Head(keys).code
  /\ keys' = Tail(keys)
  /\ UNCHANGED <<keyboard, watcher, pending, state, enabled, choosing>>

\* Mutant of MayRebind: a second request while one is out.
MayRebindAgain == TRUE

MayRebind == ~rebinding

\* start_rebind: cancels what is in flight, then asks the watcher.
StartRebind ==
  /\ MayRebind
  /\ state' = "Idle"
  /\ rebinding' = TRUE
  /\ pending' = TRUE
  /\ UNCHANGED <<keyboard, watcher, keys, enabled, bound, choosing>>

\* The other commands: Start and Toggle, Stop and Toggle, Cancel.
Command ==
  /\ enabled /\ ~rebinding
  /\ \/ state = "Idle" /\ state' = "Open"
     \/ Recording /\ state' = "Transcribing"
     \/ state # "Idle" /\ state' = "Idle"
  /\ UNCHANGED <<keyboard, watcher, pending, keys, enabled, rebinding, bound,
                 choosing>>

\* set_enabled
Arm ==
  /\ enabled' = ~enabled
  /\ state' = IF enabled THEN "Idle" ELSE state
  /\ UNCHANGED <<keyboard, watcher, pending, keys, rebinding, bound, choosing>>

\* on_tick ends a recording; on_segment ends a transcription.
Proceed ==
  /\ \/ Recording /\ state' = "Transcribing"
     \/ state = "Transcribing" /\ state' = "Idle"
  /\ UNCHANGED <<keyboard, watcher, pending, keys, enabled, rebinding, bound,
                 choosing>>

-----------------------------------------------------------------------------

Init ==
  /\ down = {}
  /\ unread = <<>>
  /\ mode = "watching"
  /\ held = FALSE
  /\ trigger = FirstTrigger
  /\ pending = FALSE
  /\ keys = <<>>
  /\ state = "Idle"
  /\ enabled = TRUE
  /\ rebinding = FALSE
  /\ bound = FirstTrigger
  /\ choosing = {}

User    == (\E k \in Keys : PressKey(k) \/ ReleaseKey(k)) \/ StartRebind \/ Command \/ Arm
Watcher == TakeRequest \/ CaptureTimesOut \/ CaptureKey \/ ReadEdge \/ Rebuild \/ Die
Engine  == TakeEdge \/ TakeRebound \/ Proceed

Next == User \/ Watcher \/ Engine

\* The watcher's poll wakes for its eventfd and its deadline; the engine's
\* select loop takes what is in the channel.  Nothing else need ever happen.
Fairness ==
  /\ WF_vars(TakeRequest)
  /\ WF_vars(CaptureTimesOut)
  /\ WF_vars(TakeEdge \/ TakeRebound)

Spec == Init /\ [][Next]_vars /\ Fairness

-----------------------------------------------------------------------------
(* Properties *)

\* Every variable keeps its type; the channel stays within its capacity.
TypeOK ==
  /\ down \in SUBSET Keys /\ choosing \in SUBSET down
  /\ unread \in Seq([code: Keys, press: BOOLEAN])
  /\ mode \in {"watching", "capturing", "dead"}
  /\ trigger \in Keys \ {Esc} /\ bound \in Keys \ {Esc}
  /\ held \in BOOLEAN /\ pending \in BOOLEAN
  /\ enabled \in BOOLEAN /\ rebinding \in BOOLEAN
  /\ keys \in Seq([kind: {"Pressed", "Released", "Rebound"},
                   code: Keys \cup {"none"}])
  /\ Len(keys) <= ChannelCap
  /\ state \in {"Idle", "Held", "Open", "Transcribing"}

One(b) == IF b THEN 1 ELSE 0
Rebounds == Cardinality({i \in DOMAIN keys : keys[i].kind = "Rebound"})

\* One rebind, one answer: while the engine waits, exactly one of the request,
\* the capture and the answer exists, wherever the three threads stand; while
\* it does not, none does, so no answer can end a rebind it is not for.
OneAnswerPerRebind ==
  mode # "dead" =>
    One(pending) + One(mode = "capturing") + Rebounds = One(rebinding)

\* Engine (and what it persists and hands to the input method) and watcher
\* agree on the trigger, except while the news of the change is in the channel.
TriggersAgree ==
  trigger = bound \/ \E i \in DOMAIN keys : keys[i] = Rebound(trigger)

\* The press that chooses the trigger is a choice, not dictation: neither it
\* nor its release is ever reported as an edge of the new trigger.
ChoiceIsNoEdge ==
  trigger \in choosing =>
    /\ ~held
    /\ \A i, j \in DOMAIN keys :
         (keys[i] = Rebound(trigger) /\ j > i) => keys[j] # Pressed

\* A rebind always ends, by key, by Escape or by its window, unless the
\* watcher is dead: the engine is not left ignoring commands.
RebindEnds == rebinding ~> (~rebinding \/ mode = "dead")

-----------------------------------------------------------------------------
(* What the repository says and the code does not do: see README *)

\* engine.rs, run: "A dead watcher leaves the socket-command path alive."
\* After a rebind nobody answers, every capture command is ignored for good.
SocketPathAlive == (mode = "dead" /\ rebinding) ~> ~rebinding

=============================================================================
