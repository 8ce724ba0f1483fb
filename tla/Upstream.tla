------------------------------- MODULE Upstream -------------------------------
(***************************************************************************)
(* The frontend's two connections to the IBus daemon and what the applet   *)
(* is shown of them (im/link.rs, im/switcher.rs, im/properties.rs, the     *)
(* upstream half of im/frontend.rs, ibus/panel.rs, engine.rs on_im_event). *)
(*                                                                         *)
(* The context connection carries one engine's status menu while a field   *)
(* has focus; the panel connection says which engine is in effect and      *)
(* carries the switch trigger.  They are different sockets read by         *)
(* different threads, so their signals reach the frontend in any order.    *)
(*                                                                         *)
(* The daemon is external: it is modelled from what the code's comments    *)
(* say it sends (frontend.rs:270-278, 1149-1181).                          *)
(***************************************************************************)
EXTENDS Integers, Sequences, FiniteSets, SequencesExt

CONSTANTS
  Cycle,      \* the engines the switch trigger cycles through, in order
  Registers,  \* those of them that register a menu; xkb engines do not
  Modes,      \* what such an engine's mode property can show
  FirstMode,  \* its value in a daemon that has just started
  MaxChanges, \* bound: what the user and other programs do, and what breaks
  MaxFaults   \* bound: how often the daemon, a thread or the frontend stops

UpstreamBounds ==
  /\ Cycle \in Seq(Range(Cycle)) \ {<<>>} /\ Registers \subseteq Range(Cycle)
  /\ "none" \notin Range(Cycle)  \* which stands for no engine, nameless
  /\ FirstMode \in Modes
  /\ MaxChanges \in Nat /\ MaxFaults \in Nat

Engines == Range(Cycle)

VARIABLES
  daemon,     \* whether it runs, its global engine, the mode of that engine
  attached,   \* whether our context has IBus's focus
  ctx,        \* Link.context: none, live, deaf once its thread has ended, or dead
              \* with the daemon it was made in
  ctxWait,    \* whether Link.retry_at lies ahead
  threads,    \* signal threads on context connections, dropped contexts' too
  panel,      \* Switcher.panel, likewise; joining and broken while connect runs
  panelWait,  \* whether Switcher.retry_at lies ahead
  frontend,   \* running or stopped
  field,      \* none, plain or secret; the frontend is active unless none
  current,    \* Switcher.current
  described,  \* the engines in Switcher.described
  menu,       \* Properties.list: the engine it is of, and its mode
  settling,   \* menu_pending
  held,       \* pending_property: the engine whose entry was picked
  ctxOut,     \* signals of the context threads, not yet handled
  panelOut,   \* signals of the panel thread, not yet handled
  shown,      \* InputMethodState: what the applet is told
  unheard,    \* history: the engine changed, or the daemon died with what it had registered
              \* still here, and neither did the context say so while a field was active
              \* nor the panel while none was
  changes, faults  \* counters for the bounds

linkVars   == <<attached, ctx, ctxWait, threads, held, ctxOut>>
switchVars == <<panel, panelWait, current, described>>
menuVars   == <<menu, settling, shown, unheard>>
uvars == <<daemon, linkVars, switchVars, menuVars, frontend, field, panelOut, changes, faults>>

NoMenu   == [owner |-> "none", mode |-> "none"]
Blank(s) == [state |-> s, engine |-> "none", menu |-> NoMenu, glyph |-> "none"]
Menus    == {NoMenu} \union [owner : Registers, mode : Modes]

\* Signals, as decode_signal and PanelStream::next hand them over.
Register(m) == [name |-> "RegisterProperties", menu |-> m]
Unset       == [name |-> "RegisterProperties", menu |-> NoMenu, unset |-> TRUE]
Update(m)   == [name |-> "UpdateProperty", menu |-> m]
Lost        == [name |-> "Lost"]
Changed(e, told) == [name |-> "GlobalEngineChanged", engine |-> e, told |-> told]
Shortcut(b, released) == [name |-> "ShortcutKeyResponded", backward |-> b, released |-> released]
Registry    == [name |-> "RegistryChanged"]
PanelLost   == [name |-> "PanelLost"]

TypeOK ==
  /\ daemon \in [up : BOOLEAN, engine : Engines \union {"none"}, mode : Modes]
  /\ ctx \in {"none", "live", "deaf", "dead"} /\ (attached => ctx \in {"live", "deaf"} /\ daemon.up)
  /\ panel \in {"none", "joining", "broken", "live", "deaf", "dead"}
  /\ frontend \in {"running", "stopped"} /\ field \in {"none", "plain", "secret"}
  /\ current \in Engines \union {"none"} /\ described \subseteq Engines
  /\ menu \in Menus /\ shown.menu \in Menus /\ shown.glyph \in Modes \union {"none"}
  /\ held \in Registers \union {"none"}
  /\ (ctx = "live" => threads > 0) /\ (panel = "none" => current = "none")
  /\ {ctxWait, panelWait, settling, unheard} \subseteq BOOLEAN

Init ==
  /\ daemon = [up |-> FALSE, engine |-> "none", mode |-> FirstMode]
  /\ ctx = "none" /\ ctxWait = FALSE /\ threads = 0 /\ attached = FALSE /\ ctxOut = <<>>
  /\ panel = "none" /\ panelWait = FALSE /\ current = "none" /\ described = {} /\ panelOut = <<>>
  /\ menu = NoMenu /\ settling = FALSE /\ held = "none" /\ unheard = FALSE
  /\ frontend = "stopped" /\ field = "none" /\ shown = Blank("Off")
  /\ changes = 0 /\ faults = 0

Change == changes < MaxChanges /\ changes' = changes + 1 /\ faults' = faults
Fault  == faults < MaxFaults /\ changes < MaxChanges /\ changes' = changes + 1 /\ faults' = faults + 1
Free   == UNCHANGED <<changes, faults>>

\* The frontend's thread is in its event loop, not inside Switcher::connect.
Idle == frontend = "running" /\ panel \notin {"joining", "broken"}

-----------------------------------------------------------------------------
(* The daemon (external) *)

MenuOf(d) == IF d.engine \in Registers THEN [owner |-> d.engine, mode |-> d.mode] ELSE NoMenu

\* What the engine sends a context that gains it.
Registration(d) == IF d.engine \in Registers THEN <<Register(MenuOf(d))>> ELSE <<>>

\* SignalStream::next on its thread, which passes on what is for its context; a
\* thread that has ended reads nothing.
Told(signals) == ctxOut \o (IF ctx = "live" THEN signals ELSE <<>>)

\* Panel::connect subscribes before anything is read, so that its stream misses
\* nothing from then on.
Subscribed == panel \in {"joining", "live"}

\* PanelStream::next on its thread: what of it the frontend knows.
Announced(signals) == IF Subscribed THEN signals ELSE <<>>

\* The global engine changes: the panel hears of it, after what is left of its
\* signals, and a context that has the focus loses the old engine's menu before
\* it gets the new one's.
SwitchTo(e, left) ==
  LET d    == [daemon EXCEPT !.engine = e]
      told == attached /\ ctx = "live"
  IN IF daemon.up /\ e # daemon.engine
     THEN /\ daemon' = d
          /\ panelOut' = left \o Announced(<<Changed(e, told)>>)
          /\ ctxOut' = IF told THEN Told(<<Unset>> \o Registration(d)) ELSE ctxOut
          /\ unheard' = (~told /\ (unheard \/ ~Subscribed \/ ctxOut # <<>>))
     ELSE panelOut' = left /\ UNCHANGED <<daemon, ctxOut, unheard>>

Toggled(d) == [d EXCEPT !.mode = CHOOSE n \in Modes : n # @ \/ Modes = {@}]

\* The attached engine changes its mode, on a key.
ModeToggles ==
  /\ attached /\ daemon.engine \in Registers /\ Change
  /\ daemon' = Toggled(daemon)
  /\ ctxOut' = Told(<<Update(MenuOf(daemon'))>>)
  /\ UNCHANGED <<attached, ctx, ctxWait, threads, held, switchVars, menuVars, frontend, field, panelOut>>

\* Somebody else switches; the trigger is pressed and let go; the registry is rebuilt.
DaemonSignals ==
  /\ daemon.up /\ Change
  /\ \/ \E e \in Engines : SwitchTo(e, panelOut)
     \/ /\ panel = "live"
        /\ \E more \in {<<Shortcut(b, FALSE), Shortcut(b, TRUE)>> : b \in BOOLEAN} \union {<<Registry>>} :
             panelOut' = panelOut \o more
        /\ UNCHANGED <<daemon, ctxOut, unheard>>
  /\ UNCHANGED <<attached, ctx, ctxWait, threads, held, switchVars, menu, settling, shown, frontend, field>>

\* Signals::next on a connection that is closed: every thread reading one reports
\* the end, once it has passed on what came before.
Ends(n) == [i \in 1..n |-> Lost]
PanelEnds == IF panel = "live" THEN Append(panelOut, PanelLost) ELSE panelOut

DaemonDies ==
  /\ daemon.up /\ Fault
  /\ daemon' = [up |-> FALSE, engine |-> "none", mode |-> FirstMode]
  /\ attached' = FALSE /\ threads' = 0
  /\ ctx' = IF ctx = "none" THEN "none" ELSE "dead"
  /\ ctxOut' = ctxOut \o Ends(threads)
  /\ panel' = CASE panel \in {"live", "deaf"} -> "dead" [] panel = "joining" -> "broken" [] OTHER -> panel
  /\ panelOut' = PanelEnds
  /\ unheard' = (unheard \/ ctx # "none" \/ menu # NoMenu \/ ctxOut # <<>>)
  /\ UNCHANGED <<ctxWait, held, panelWait, current, described, menu, settling, shown, frontend, field>>

DaemonStarts ==
  /\ ~daemon.up /\ Free
  /\ \E e \in Engines \union {"none"} : daemon' = [up |-> TRUE, engine |-> e, mode |-> FirstMode]
  /\ UNCHANGED <<linkVars, switchVars, menuVars, frontend, field, panelOut>>

\* SignalStream::next fails on a signal it cannot decode: its thread ends.
SignalGarbled ==
  /\ ctx = "live" /\ Fault
  /\ ctx' = "deaf" /\ threads' = threads - 1 /\ ctxOut' = ctxOut \o Ends(1)
  /\ UNCHANGED <<daemon, attached, ctxWait, held, switchVars, menuVars, frontend, field, panelOut>>

\* PanelStream::next does too; the connection is there for calls still.
PanelSignalGarbled ==
  /\ panel = "live" /\ Fault
  /\ panel' = "deaf" /\ panelOut' = PanelEnds
  /\ UNCHANGED <<daemon, linkVars, panelWait, current, described, menuVars, frontend, field>>

-----------------------------------------------------------------------------
(* Link: the context connection *)

\* A dropped context destroys itself in the daemon, if anybody is there.
Destroyed == ctx' = "none" /\ attached' = FALSE

\* Mutant of LinkLost: the context is kept, to be told apart by nobody.
LinkLostKeepsContext == ctxWait' = TRUE /\ attached' = FALSE /\ UNCHANGED ctx

\* Link::lost; the thread reading the dropped context stays until the daemon
\* closes the connection.
LinkLost == Destroyed /\ ctxWait' = TRUE

\* with_context: on a context that is gone a call may fail in a way is_fatal
\* knows, or in one it does not.
CallFails ==
  \/ LinkLost
  \/ UNCHANGED <<ctx, ctxWait, attached>>

\* Link::ensure makes an attempt, and the next not before its clock has run.
Attempts == ctx = "none" /\ ~ctxWait

\* Link::connect: a daemon that runs gives a context.
Connects == Attempts /\ daemon.up

\* Context::create and take_signals: the stream is there before the first call,
\* so that nothing is missed, and gets a thread of its own.
Created == IF Connects THEN [ctx |-> "live", threads |-> threads + 1] ELSE [ctx |-> ctx, threads |-> threads]

\* FocusIn of a context that has been created: the engine registers its menu with
\* one that did not have the focus.
FocusedIn == IF attached THEN <<>> ELSE Registration(daemon)

\* PropertyActivate goes to the engine behind the context, which knows its own
\* entries only and answers with UpdateProperty.
Activated(owner)  == IF owner = daemon.engine /\ owner \in Registers THEN Toggled(daemon) ELSE daemon
Activation(owner) == IF owner = daemon.engine /\ owner \in Registers THEN <<Update(MenuOf(Activated(owner)))>> ELSE <<>>

\* attach_context: Link::ensure, and FocusIn; a held choice follows it, and is
\* forgotten whether it reaches the engine it was made for or not.
Attach ==
  IF ctx \in {"live", "deaf"} \/ Connects
  THEN /\ ctx' = Created.ctx /\ threads' = Created.threads /\ attached' = TRUE
       /\ ctxWait' = (ctxWait \/ Connects)
       /\ unheard' = (unheard /\ (FocusedIn = <<>> \/ ctx = "deaf"))
       /\ daemon' = Activated(held) /\ held' = "none"
       /\ ctxOut' = ctxOut \o (IF ctx = "deaf" THEN <<>> ELSE FocusedIn \o Activation(held))
  ELSE /\ IF ctx = "dead" THEN CallFails /\ held' = "none"
          ELSE ctxWait' = TRUE /\ UNCHANGED <<ctx, attached, held>>
       /\ UNCHANGED <<daemon, threads, ctxOut, unheard>>

\* Reset and FocusOut of a context that is there: the daemon empties the menu of
\* one that had the focus.
FocusedOut == IF attached THEN Told(<<Register(NoMenu)>>) ELSE ctxOut

\* deactivate, as far as it reaches the context.
Detach ==
  /\ IF ctx = "dead" THEN CallFails ELSE attached' = FALSE /\ UNCHANGED <<ctx, ctxWait>>
  /\ ctxOut' = FocusedOut
  /\ UNCHANGED <<daemon, threads, held, unheard>>

\* on_done, as far as it reaches the context: activate, deactivate, and a field
\* that becomes secret or stops being it.
Done(f) ==
  /\ Idle /\ f # field /\ Change
  /\ field' = f
  /\ CASE f = "plain" -> Attach
       [] field = "none" /\ f = "secret" -> UNCHANGED <<daemon, linkVars, unheard>>
       [] OTHER -> Detach
  /\ UNCHANGED <<switchVars, menu, settling, shown, frontend, panelOut>>

CtxWaitOver ==  \* three seconds outlast what the threads have yet to deliver
  /\ ctxWait /\ {s.name : s \in Range(ctxOut)} \subseteq {"Lost"} /\ Free
  /\ ctxWait' = FALSE
  /\ UNCHANGED <<daemon, attached, ctx, threads, held, ctxOut, switchVars, menuVars, frontend, field, panelOut>>

\* on_register_properties and Properties::register: an empty list with no field
\* active is the daemon's own; one that changes nothing is not shown again.
Registered(s) ==
  IF s.menu = NoMenu /\ field = "none"
  THEN UNCHANGED <<menu, settling>> /\ unheard' = (unheard \/ s = Unset)
  ELSE menu' = s.menu /\ settling' = (settling \/ s.menu # menu) /\ UNCHANGED unheard

\* Properties::update: an entry the menu has is replaced, any other dropped.
Updated(s) ==
  /\ IF menu.owner = s.menu.owner THEN menu' = s.menu /\ settling' = TRUE ELSE UNCHANGED <<menu, settling>>
  /\ UNCHANGED unheard

\* on_upstream for a context signal: the end of any thread is the end of the link.
OnContextSignal ==
  /\ Idle /\ ctxOut # <<>> /\ Free
  /\ LET s == Head(ctxOut)
     IN \/ s = Lost /\ LinkLost /\ UNCHANGED <<menu, settling, unheard>>
        \/ s.name = "RegisterProperties" /\ Registered(s) /\ UNCHANGED <<ctx, ctxWait, attached>>
        \/ s.name = "UpdateProperty" /\ Updated(s) /\ UNCHANGED <<ctx, ctxWait, attached>>
  /\ ctxOut' = Tail(ctxOut)
  /\ UNCHANGED <<daemon, threads, held, switchVars, shown, frontend, field, panelOut>>

-----------------------------------------------------------------------------
(* Switcher: the panel connection *)

\* on_tick: a context if a field wants one, then Switcher::ensure, whose connect
\* subscribes before it reads anything.
Ensure ==
  IF panel = "none" /\ ~panelWait
  THEN panel' = (IF daemon.up THEN "joining" ELSE "none") /\ panelWait' = TRUE
  ELSE UNCHANGED <<panel, panelWait>>

Tick ==
  /\ Idle /\ Free
  /\ IF field = "plain" /\ ctx = "none" THEN Attach ELSE UNCHANGED <<daemon, linkVars, unheard>>
  /\ Ensure
  /\ UNCHANGED <<current, described, menu, settling, shown, frontend, field, panelOut>>

PanelWaitOver ==
  /\ panelWait /\ PanelLost \notin Range(panelOut) /\ Free
  /\ panelWait' = FALSE
  /\ UNCHANGED <<daemon, linkVars, panel, current, described, menuVars, frontend, field, panelOut>>

\* publish.
Published(e) == [shown EXCEPT !.engine = e]

\* SetGlobalEngine, a call on a panel connection that is there; after what is
\* left of its signals.
SetEngine(e, left) ==
  IF panel \in {"live", "deaf"} THEN SwitchTo(e, left)
  ELSE panelOut' = left /\ UNCHANGED <<daemon, ctxOut, unheard>>

\* describe: the whole cycle is looked up at once, and what was known before goes.
Described == Engines

\* choose_engine_if_none, whose choice is confirmed like any other switch.
ChooseIfNone ==
  IF daemon.engine = "none" THEN SwitchTo(Head(Cycle), panelOut)
  ELSE UNCHANGED <<daemon, panelOut, ctxOut, unheard>>

\* The rest of connect: the trigger is registered, the engines described, the
\* global engine read, and chosen if there is none; then both are published.
PanelJoined ==
  /\ panel = "joining" /\ Free
  /\ panel' = "live" /\ described' = Described /\ current' = daemon.engine
  /\ ChooseIfNone
  /\ shown' = IF daemon.engine = "none" THEN shown ELSE Published(daemon.engine)
  /\ UNCHANGED <<attached, ctx, ctxWait, threads, held, panelWait, menu, settling, frontend, field>>

\* The daemon went meanwhile: registering fails and connect with it, or only
\* what connect carries on without.
PanelNotJoined ==
  /\ panel = "broken" /\ Free
  /\ \/ panel' = "none" /\ panelOut' = <<>> /\ UNCHANGED described
     \/ panel' = "dead" /\ panelOut' = Append(panelOut, PanelLost) /\ described' \in {described, Described}
  /\ current' = "none"
  /\ UNCHANGED <<daemon, linkVars, panelWait, menuVars, frontend, field>>

\* Switcher::lost.
SwitcherLost == panel' = "none" /\ current' = "none" /\ panelWait' = TRUE /\ UNCHANGED described

Index(e) == CHOOSE i \in DOMAIN Cycle : Cycle[i] = e

\* next_engine: a step from where the current engine stands, back into the cycle
\* from outside it, and nowhere from the only one.
NextEngine(e, backward) ==
  LET n == Len(Cycle)
      i == Index(e) - 1
  IN CASE e \notin Engines -> Cycle[IF backward THEN n ELSE 1]
       [] e \in Engines /\ n < 2 -> e
       [] OTHER -> Cycle[((i + (IF backward THEN n - 1 ELSE 1)) % n) + 1]

\* on_trigger: on the press, and not on the release that commits a popup's choice.
OnShortcut(s) ==
  /\ IF s.released THEN panelOut' = Tail(panelOut) /\ UNCHANGED <<daemon, ctxOut, unheard>>
     ELSE SetEngine(NextEngine(current, s.backward), Tail(panelOut))
  /\ UNCHANGED <<panel, panelWait, current, described, menu, settling, shown>>

\* Mutant of MenuAfterChange: the menu always goes, whichever socket was first.
NoMenuAfterChange == NoMenu

\* The menu of an engine no longer in effect goes, unless a field is active and
\* the context will say so.
MenuAfterChange == IF field = "none" THEN NoMenu ELSE menu

\* An engine not described yet is looked up by itself, while there is a panel.
DescribedToo(e) == IF panel \in {"live", "deaf"} THEN described \union {e} ELSE described

\* Switcher::on_engine_changed, then the frontend's.
OnEngineChanged(e, told) ==
  /\ current' = e
  /\ described' = DescribedToo(e)
  /\ shown' = Published(e)
  /\ menu' = MenuAfterChange
  /\ unheard' = IF field = "none" THEN unheard /\ ctxOut # <<>> ELSE unheard \/ ~told
  /\ settling' = TRUE
  /\ panelOut' = Tail(panelOut)
  /\ UNCHANGED <<panel, panelWait, daemon, ctxOut>>

OnPanelSignal ==
  /\ Idle /\ panelOut # <<>> /\ Free
  /\ LET s == Head(panelOut)
     IN \/ s.name = "ShortcutKeyResponded" /\ OnShortcut(s)
        \/ s.name = "GlobalEngineChanged" /\ OnEngineChanged(s.engine, s.told)
        \/ /\ s = Registry /\ described' = {}
           /\ panelOut' = Tail(panelOut)
           /\ UNCHANGED <<panel, panelWait, current, daemon, ctxOut, menuVars>>
        \/ /\ s = PanelLost /\ SwitcherLost
           /\ panelOut' = Tail(panelOut)
           /\ UNCHANGED <<daemon, ctxOut, menuVars>>
  /\ UNCHANGED <<attached, ctx, ctxWait, threads, held, frontend, field>>

-----------------------------------------------------------------------------
(* The applet: what it sees, and what it asks for *)

\* icon_prop_key: the property that the current engine's description names, if it
\* has one; only an engine with a menu does.
IconKey == IF current \in described \intersect Registers THEN current ELSE "none"

\* Properties::indicator: the symbol of that property, if it is in the menu.
Indicator == IF IconKey # "none" /\ IconKey = menu.owner THEN menu.mode ELSE "none"

\* publish_properties, when the burst has settled.
Settle ==
  /\ Idle /\ settling /\ Free
  /\ settling' = FALSE
  /\ shown' = [shown EXCEPT !.menu = menu, !.glyph = Indicator]
  /\ UNCHANGED <<daemon, linkVars, switchVars, menu, unheard, frontend, field, panelOut>>

\* ImCmd::SetEngine.
PickEngine ==
  /\ Idle /\ Change
  /\ \E e \in Engines : SetEngine(e, panelOut)
  /\ UNCHANGED <<attached, ctx, ctxWait, threads, held, switchVars, menu, settling, shown, frontend, field>>

\* ImCmd::ActivateProperty: to the context if a field is active, held if not.
PickProperty ==
  /\ Idle /\ shown.menu # NoMenu /\ Change
  /\ IF field = "none"
     THEN held' = shown.menu.owner /\ UNCHANGED <<daemon, attached, ctx, ctxWait, ctxOut>>
     ELSE /\ IF attached
               THEN daemon' = Activated(shown.menu.owner) /\ ctxOut' = Told(Activation(shown.menu.owner))
               ELSE UNCHANGED <<daemon, ctxOut>>
          /\ IF ctx = "dead" THEN CallFails ELSE UNCHANGED <<attached, ctx, ctxWait>>
          /\ held' = held
  /\ UNCHANGED <<threads, switchVars, menuVars, frontend, field, panelOut>>

\* run returns; the supervisor reports it and, after its backoff, starts another.
FrontendStops ==
  /\ Idle /\ Fault
  /\ frontend' = "stopped" /\ field' = "none" /\ shown' = Blank("Stopped")
  /\ Destroyed /\ ctxWait' = FALSE /\ threads' = 0 /\ ctxOut' = <<>>
  /\ panel' = "none" /\ panelWait' = FALSE /\ current' = "none" /\ described' = {} /\ panelOut' = <<>>
  /\ menu' = NoMenu /\ settling' = FALSE /\ held' = "none" /\ unheard' = FALSE
  /\ UNCHANGED daemon

FrontendStarts ==
  /\ frontend = "stopped" /\ Free
  /\ frontend' = "running" /\ shown' = Blank("Running")
  /\ Ensure
  /\ UNCHANGED <<daemon, linkVars, current, described, menu, settling, unheard, field, panelOut>>

Runs == Tick \/ PanelJoined \/ PanelNotJoined \/ OnContextSignal \/ OnPanelSignal
        \/ Settle \/ FrontendStarts

Next ==
  \/ Runs \/ CtxWaitOver \/ PanelWaitOver
  \/ ModeToggles \/ DaemonSignals \/ DaemonDies \/ DaemonStarts \/ SignalGarbled \/ PanelSignalGarbled
  \/ \E f \in {"none", "plain", "secret"} : Done(f)
  \/ PickEngine \/ PickProperty \/ FrontendStops

\* The frontend's loop goes round and its timers run out; the daemon and the
\* user owe nothing.
FairSteps == {"tick", "joined", "notJoined", "context", "panel", "settle", "starts", "ctxWait", "panelWait"}
FairStep(s) ==
  CASE s = "tick" -> Tick [] s = "joined" -> PanelJoined [] s = "notJoined" -> PanelNotJoined
    [] s = "context" -> OnContextSignal [] s = "panel" -> OnPanelSignal [] s = "settle" -> Settle
    [] s = "starts" -> FrontendStarts [] s = "ctxWait" -> CtxWaitOver [] OTHER -> PanelWaitOver

Spec == Init /\ [][Next]_uvars /\ \A s \in FairSteps : WF_uvars(FairStep(s))

-----------------------------------------------------------------------------
(* Properties *)

\* Once the panel's signals are handled, the switcher and the applet name the
\* engine the daemon has in effect, though the engine may change while connect
\* is reading it, two presses may meet and the daemon may restart
\* (switcher.rs connect, on_engine_changed; panel.rs connect).
ShownIsInEffect ==
  (/\ Idle /\ panel = "live" /\ panelOut = <<>>)
  => current = daemon.engine /\ shown.engine = daemon.engine /\ shown.state = "Running"

\* Once everything is handled and settled, the menu the applet offers is of the
\* engine it names, and with the context in focus it is the one that engine
\* registered, mode and glyph included: whichever socket's signals come first
\* (frontend.rs on_register_properties, on_engine_changed).
MenuIsTheEngines ==
  (/\ Idle /\ panel = "live" /\ panelOut = <<>> /\ ctxOut = <<>> /\ ~settling /\ ~unheard)
  => /\ shown.menu.owner \in {"none", shown.engine}
     /\ attached => shown.menu = MenuOf(daemon)
     /\ shown.glyph \in {"none", shown.menu.mode}

\* A field that wants an engine and a daemon that runs come together, whatever
\* broke before: a context, with the focus, and the trigger registered
\* (link.rs ensure and lost, frontend.rs on_tick).
Wanted == frontend = "running" /\ daemon.up /\ field = "plain"
ContextComesBack == Wanted ~> (~Wanted \/ (ctx = "live" /\ attached /\ panel = "live"))
=============================================================================
