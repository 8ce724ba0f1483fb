------------------------------- MODULE Mirrors --------------------------------
(***************************************************************************)
(* One applet process per output.  One of them is the primary and runs the *)
(* engine; the others mirror it over the control socket (engine.rs spawn,  *)
(* run_mirror, emit; ipc.rs serve; app.rs apply, engine_stream).           *)
(*                                                                         *)
(* What the engine says has four facets.  A snapshot of each is sent to a  *)
(* mirror that subscribes; from then on it lives on events, as the         *)
(* primary's own applet does from the start.  Every broadcast receiver     *)
(* holds a bounded number of events and loses the oldest.                  *)
(*                                                                         *)
(* Engine and frontend appear as far as they emit (Engine, Upstream).      *)
(***************************************************************************)
EXTENDS Integers, Sequences

CONSTANTS
  Procs,        \* the applet processes of the session
  Triggers,     \* trigger keys
  FirstTrigger, \* the default
  Cap,          \* capacity of a broadcast channel
  MaxHappens    \* bound: what the engine says, what ends

MirrorsBounds ==
  /\ Cap \in Nat \ {0}
  /\ MaxHappens \in Nat
  /\ FirstTrigger \in Triggers

Roles  == {"off", "contending", "primary", "mirror", "stopped"}
Facets == {"state", "logging", "trigger", "im"}

VARIABLES
  role,      \* what each process is; "off" when it does not run
  config,    \* each process's trigger, read from the file when it started
  disk,      \* the config file: its trigger, or "none" to be had
  slot,      \* the processes whose supervisor has the frontend running
  engine,    \* the primary's engine: ready, enabled, phase
  latest,    \* its Snapshot
  replay,    \* the snapshot a mirror has been sent and not read
  live,      \* the socket's receiver for each mirror
  linked,    \* whether the mirror's socket is still open at the other end
  feed,      \* each process's own broadcast, as its applet has yet to read it
  watching,  \* whether its applet has subscribed
  view,      \* what its applet shows
  missed,    \* history: facets whose newest event never reached the applet
  happened   \* counter for the bound

primaryVars == <<engine, latest, disk>>
pathVars    == <<replay, live, linked>>
appletVars  == <<feed, watching, view, missed>>
mvars == <<role, config, slot, primaryVars, pathVars, appletVars, happened>>

\* No file, or a malformed one, which is left alone: as if not writable.
Files == Triggers \union {"none"}

Ev(f, v) == [facet |-> f, value |-> v]
State(s) == Ev("state", s)
Partial  == Ev("partial", "text")
FacetsOf(q) == {q[i].facet : i \in DOMAIN q}

Primaries == {p \in Procs : role[p] = "primary"}
Starting  == [state |-> "Starting", logging |-> FALSE, trigger |-> "none", im |-> "Off"]

NoEngine   == [ready |-> FALSE, enabled |-> TRUE, phase |-> "Idle"]
NoSnapshot == [state |-> "none", logging |-> FALSE, trigger |-> "none", im |-> "Off"]

TypeOK ==
  /\ role \in [Procs -> Roles] /\ \A p, q \in Primaries : p = q
  /\ config \in [Procs -> Triggers] /\ disk \in Files
  /\ slot \subseteq {p \in Procs : role[p] # "off"}
  /\ engine.phase \in {"Idle", "Recording", "Rebinding"}
  /\ \A p \in Procs :
       /\ Len(live[p]) <= Cap /\ Len(feed[p]) <= Cap
       /\ live[p] # <<>> => linked[p] /\ role[p] = "mirror"
       /\ missed[p] \subseteq Facets \union {"partial"}

Init ==
  /\ role = [p \in Procs |-> "off"]
  /\ disk = "none" /\ config = [p \in Procs |-> FirstTrigger]
  /\ slot = {}
  /\ engine = NoEngine /\ latest = NoSnapshot
  /\ replay = [p \in Procs |-> <<>>] /\ live = replay /\ feed = replay
  /\ linked = [p \in Procs |-> FALSE] /\ watching = linked
  /\ view = [p \in Procs |-> Starting]
  /\ missed = [p \in Procs |-> Facets]
  /\ happened = 0

-----------------------------------------------------------------------------
(* Broadcast channels *)

\* A send to a receiver that is full costs it its oldest event: of what was
\* there and what came, the newest Cap are left.
PushAll(q, es) ==
  LET all == q \o es IN SubSeq(all, IF Len(all) > Cap THEN Len(all) - Cap + 1 ELSE 1, Len(all))

\* The facets that es pushes out of q without a newer event behind them.
LostFor(q, es) == FacetsOf(q \o es) \ FacetsOf(PushAll(q, es))

\* The value of the last event of facet f in es.
Newest(es, f) ==
  es[CHOOSE i \in DOMAIN es :
       es[i].facet = f /\ \A j \in DOMAIN es : j > i => es[j].facet # f].value

\* Mutant of Noted: nobody thought of the input method.
NotedButIm(snap, es) ==
  [f \in Facets |-> IF f \in FacetsOf(es) \ {"im"} THEN Newest(es, f) ELSE snap[f]]

\* Snapshot::latest after some events; partials are no part of it.
Noted(snap, es) == [f \in Facets |-> IF f \in FacetsOf(es) THEN Newest(es, f) ELSE snap[f]]

\* emit: the snapshot first, then every receiver there is.
Emit(es) ==
  LET hears(p) == role[p] = "primary" /\ watching[p]
      fed(p)   == role[p] = "mirror" /\ linked[p]
  IN /\ latest' = Noted(latest, es)
     /\ live' = [p \in Procs |-> IF fed(p) THEN PushAll(live[p], es) ELSE live[p]]
     /\ feed' = [p \in Procs |-> IF hears(p) THEN PushAll(feed[p], es) ELSE feed[p]]
     /\ missed' = [p \in Procs |->
          CASE hears(p) -> (missed[p] \ FacetsOf(es)) \union LostFor(feed[p], es)
            [] fed(p)   -> (missed[p] \ FacetsOf(es)) \union LostFor(live[p], es)
            [] role[p] = "primary" /\ ~watching[p] -> missed[p] \union FacetsOf(es)
            [] OTHER -> missed[p]]

\* The process's own broadcast outside the engine: a failure it reports itself.
Report(p, es) ==
  /\ feed' = [feed EXCEPT ![p] = IF watching[p] THEN PushAll(@, es) ELSE @]
  /\ missed' = [missed EXCEPT ![p] = @ \union LostFor(feed[p], es)]

-----------------------------------------------------------------------------
(* Processes *)

\* Config::load: the defaults on any problem.  The template of them that is
\* written where there is no file loads as none does.
Loaded(file) == IF file = "none" THEN FirstTrigger ELSE file

\* init: the configuration is read once, and the applet starts out blank.
Start(p) ==
  /\ role[p] = "off"
  /\ role' = [role EXCEPT ![p] = "contending"]
  /\ config' = [config EXCEPT ![p] = Loaded(disk)]
  /\ UNCHANGED <<slot, primaryVars, pathVars, appletVars, happened>>

\* engine_stream: what was sent before this has gone to nobody.
Watch(p) ==
  /\ role[p] # "off" /\ ~watching[p]
  /\ watching' = [watching EXCEPT ![p] = TRUE]
  /\ UNCHANGED <<role, config, slot, primaryVars, pathVars, feed, view, missed, happened>>

\* The lock is free: Engine::create.  The snapshot is filled in, nothing is
\* emitted; the frontend's supervisor is started on the way.
Acquire(p) ==
  /\ role[p] = "contending" /\ Primaries = {}
  /\ role' = [role EXCEPT ![p] = "primary"]
  /\ slot' = slot \union {p}
  /\ engine' = NoEngine
  /\ latest' = [state |-> "none", logging |-> FALSE, trigger |-> config[p], im |-> "Stopped"]
  /\ missed' = [missed EXCEPT ![p] = Facets]
  /\ UNCHANGED <<config, disk, pathVars, feed, watching, view, happened>>

\* The lock is taken: connect, subscribe, and be sent the snapshot.
Join(p) ==
  /\ role[p] = "contending" /\ Primaries # {}
  /\ role' = [role EXCEPT ![p] = "mirror"]
  /\ linked' = [linked EXCEPT ![p] = TRUE]
  /\ replay' = [replay EXCEPT ![p] =
       <<Ev("logging", latest.logging), Ev("trigger", latest.trigger), Ev("im", latest.im)>>
       \o (IF latest.state = "none" THEN <<>> ELSE <<State(latest.state)>>)]
  /\ missed' = [missed EXCEPT ![p] = IF latest.state = "none" THEN {"state"} ELSE {}]
  /\ UNCHANGED <<config, slot, primaryVars, live, feed, watching, view, happened>>

\* run_mirror: one frame from the primary goes to this process's subscribers,
\* if it has one.  What the server task has queued is read before live events.
Relay(p) ==
  /\ role[p] = "mirror" /\ replay[p] \o live[p] # <<>>
  /\ LET stored == replay[p] # <<>>
         e      == IF stored THEN Head(replay[p]) ELSE Head(live[p])
         newer  == FacetsOf(Tail(replay[p] \o live[p]))
     IN /\ replay' = IF stored THEN [replay EXCEPT ![p] = Tail(@)] ELSE replay
        /\ live' = IF stored THEN live ELSE [live EXCEPT ![p] = Tail(@)]
        /\ feed' = [feed EXCEPT ![p] = IF watching[p] THEN PushAll(@, <<e>>) ELSE @]
        /\ missed' = [missed EXCEPT ![p] = @ \union
             ((IF watching[p] THEN LostFor(feed[p], <<e>>) ELSE {e.facet}) \ newer)]
  /\ UNCHANGED <<role, config, slot, primaryVars, linked, watching, view, happened>>

\* Mutant of LosePrimary: the end is noticed only where a frame is expected.
LosePrimaryMidFrame(p) ==
  /\ role[p] = "mirror" /\ ~linked[p] /\ replay[p] # <<>>
  /\ role' = [role EXCEPT ![p] = "contending"]
  /\ UNCHANGED <<config, slot, primaryVars, pathVars, appletVars, happened>>

\* The socket has ended and is drained: contend again, half a second later.
LosePrimary(p) ==
  /\ role[p] = "mirror" /\ ~linked[p] /\ replay[p] = <<>>
  /\ role' = [role EXCEPT ![p] = "contending"]
  /\ UNCHANGED <<config, slot, primaryVars, pathVars, appletVars, happened>>

\* Engine and snapshot go with the primary, and so do the server tasks; what is
\* in a socket stays.
CutOff(p) ==
  /\ engine' = IF role[p] = "primary" THEN NoEngine ELSE engine
  /\ latest' = IF role[p] = "primary" THEN NoSnapshot ELSE latest
  /\ linked' = [m \in Procs |-> linked[m] /\ role[p] # "primary" /\ m # p]
  /\ live' = [m \in Procs |-> IF role[p] = "primary" \/ m = p THEN <<>> ELSE live[m]]

\* run or create returns an error: the thread reports it and ends, the lock
\* goes with it.  The supervisor's thread is not told.
EngineStops(p) ==
  /\ role[p] = "primary" /\ happened < MaxHappens
  /\ role' = [role EXCEPT ![p] = "stopped"]
  /\ CutOff(p) /\ Report(p, <<State("Failed")>>)
  /\ happened' = happened + 1
  /\ UNCHANGED <<config, slot, disk, replay, watching, view>>

\* The process ends, and everything in it.
Exit(p) ==
  /\ role[p] # "off" /\ happened < MaxHappens
  /\ role' = [role EXCEPT ![p] = "off"]
  /\ slot' = slot \ {p}
  /\ CutOff(p) /\ replay' = [replay EXCEPT ![p] = <<>>]
  /\ feed' = [feed EXCEPT ![p] = <<>>] /\ watching' = [watching EXCEPT ![p] = FALSE]
  /\ view' = [view EXCEPT ![p] = Starting] /\ missed' = [missed EXCEPT ![p] = Facets]
  /\ happened' = happened + 1
  /\ UNCHANGED <<config, disk>>

-----------------------------------------------------------------------------
(* The engine, as far as it emits *)

Says(es) ==
  /\ Primaries # {} /\ happened < MaxHappens
  /\ happened' = happened + 1
  /\ Emit(es)
  /\ UNCHANGED <<role, config, slot, replay, linked, watching, view>>

Rest == State(IF engine.enabled THEN "Idle" ELSE "Disabled")

\* on_asr: Ready, whatever the engine is doing.
ModelsReady ==
  /\ ~engine.ready
  /\ Says(<<Ev("logging", latest.logging), Ev("trigger", latest.trigger),
            Ev("im", latest.im), Rest>>)
  /\ engine' = [engine EXCEPT !.ready = TRUE] /\ disk' = disk

Begin ==
  /\ engine.enabled /\ engine.phase = "Idle"
  /\ Says(<<State("Recording")>>)
  /\ engine' = [engine EXCEPT !.phase = "Recording"] /\ disk' = disk

Hypothesis ==
  /\ engine.phase = "Recording"
  /\ Says(<<Partial>>)
  /\ UNCHANGED <<engine, disk>>

\* A commit, a segment that failed, a cancel: on_segment, commit, cancel.
End ==
  /\ engine.phase = "Recording"
  /\ \E outcome \in {<<State("Injected")>>, <<State("Failed")>>, <<>>} :
       Says(outcome \o <<State("Idle")>>)
  /\ engine' = [engine EXCEPT !.phase = "Idle"] /\ disk' = disk

\* set_enabled: disarming ends what is in flight.
SetEnabled ==
  /\ engine' = [engine EXCEPT !.enabled = ~@,
                              !.phase = IF engine.enabled /\ @ = "Recording" THEN "Idle" ELSE @]
  /\ Says(<<State(IF engine.enabled THEN "Disabled" ELSE "Idle")>>)
  /\ disk' = disk

SetLogging ==
  /\ Says(<<Ev("logging", ~latest.logging)>>)
  /\ UNCHANGED <<engine, disk>>

StartRebind ==
  /\ engine.phase # "Rebinding"
  /\ Says((IF engine.phase = "Recording" THEN <<State("Idle")>> ELSE <<>>)
          \o <<State("Rebinding")>>)
  /\ engine' = [engine EXCEPT !.phase = "Rebinding"] /\ disk' = disk

\* persist_trigger: the file is replaced as a whole or not at all.
Persisted(file, key) == {file, key}

\* on_rebound: without a key, or with one, in effect whether saved or not.
Rebound ==
  /\ engine.phase = "Rebinding"
  /\ \/ disk' = disk /\ Says(<<Ev("trigger", latest.trigger), Rest>>)
     \/ \E key \in Triggers :
          /\ disk' \in Persisted(disk, key)
          /\ \/ disk' = key /\ Says(<<Ev("trigger", key), Rest>>)
             \/ disk' = disk /\ Says(<<State("Failed"), Ev("trigger", key), Rest>>)
  /\ engine' = [engine EXCEPT !.phase = "Idle"]

\* on_im_event, when the folded state differs.
InputMethod ==
  /\ \E im \in {"Running", "Blocked", "Stopped"} \ {latest.im} : Says(<<Ev("im", im)>>)
  /\ UNCHANGED <<engine, disk>>

-----------------------------------------------------------------------------
(* The applet *)

\* App::apply: a failure stays on show until something else begins.
Applied(v, e) ==
  CASE e.facet = "partial" -> v
    [] e = State("Idle") -> IF v.state = "Failed" THEN v ELSE [v EXCEPT !.state = "Idle"]
    [] e = State("Injected") -> [v EXCEPT !.state = "Idle"]
    [] OTHER -> [v EXCEPT ![e.facet] = e.value]

Show(p) ==
  /\ feed[p] # <<>>
  /\ view' = [view EXCEPT ![p] = Applied(@, Head(feed[p]))]
  /\ feed' = [feed EXCEPT ![p] = Tail(@)]
  /\ UNCHANGED <<role, config, slot, primaryVars, pathVars, watching, missed, happened>>

Emits == ModelsReady \/ Begin \/ Hypothesis \/ End \/ SetEnabled \/ SetLogging
         \/ StartRebind \/ Rebound \/ InputMethod

Next ==
  \/ Emits
  \/ \E p \in Procs : \/ Start(p) \/ Watch(p) \/ Acquire(p) \/ Join(p) \/ Relay(p)
                      \/ LosePrimary(p) \/ EngineStops(p) \/ Exit(p) \/ Show(p)

\* Each process's runtime and applet keep running; nobody has to do anything.
FairStep(p) == Acquire(p) \/ Join(p) \/ Relay(p) \/ LosePrimary(p)

Spec == Init /\ [][Next]_mvars /\ \A p \in Procs : WF_mvars(FairStep(p))
-----------------------------------------------------------------------------
(* Properties *)

\* An applet that has read all that is coming to it shows what the engine last
\* said, in every facet whose newest event was not lost on the way: a snapshot
\* taken at subscription leaves no gap before the live events (ipc.rs serve,
\* emit), and lag costs a mirror only what it dropped.
CaughtUp ==
  \A p \in Procs : \A f \in Facets \ missed[p] :
    (/\ role[p] \in {"primary", "mirror"} /\ Primaries # {}
     /\ role[p] = "mirror" => linked[p]
     /\ replay[p] = <<>> /\ live[p] = <<>> /\ feed[p] = <<>>)
    => \/ view[p][f] = latest[f]
       \/ f = "state" /\ latest.state = "Injected" /\ view[p].state = "Idle"
       \/ f = "state" /\ latest.state = "Idle" /\ view[p].state = "Failed"

\* As long as a process is left that can run the engine, one of them comes to
\* run it: a mirror whose primary has ended contends for its role (spawn,
\* run_mirror returning Ok(true)).
SomebodyTakesOver ==
  (\E p \in Procs : role[p] \in {"contending", "mirror"})
  ~> (Primaries # {} \/ \A p \in Procs : role[p] \in {"off", "stopped"})
=============================================================================
