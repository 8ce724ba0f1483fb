----------------------------- MODULE Periphery --------------------------------
(***************************************************************************)
(* The components around engine, frontend core and recogniser that share   *)
(* no state with each other, for one run of the model checker: a behaviour *)
(* is a behaviour of one of them, chosen at the start, while the others    *)
(* stand still.  Nothing is left out by that: each is explored whole.      *)
(***************************************************************************)
EXTENDS Integers, Sequences, FiniteSets

CONSTANTS
  Procs, Triggers, FirstTrigger, Cap, MaxHappens,             \* Mirrors
  Cycle, Registers, Modes, FirstMode, MaxChanges, MaxFaults,  \* Upstream
  Tables, Slots, MaxSignals,                                  \* Popup
  Chars, Wide, Fields, Drains, MaxText, MaxSteps,             \* Field
  Hypotheses, Finals, Window, Budget, Room, MaxUtts, MaxHyps, \* Typing
  Capacity, Block, Dequeued, Preroll, Captured                \* Ring

VARIABLES
  component,
  role, config, disk, slot, engine, latest, replay, live, linked, feed,
  watching, view, missed, happened,
  daemon, attached, ctx, ctxWait, threads, panel, panelWait, frontend, field,
  current, described, menu, settling, held, ctxOut, panelOut, shown, unheard,
  changes, faults,
  table, tableShown, aux, auxShown, active, dirty, throttled, generation,
  mapped, slots, inPass, wire, comp, borrowed, back, signals,
  app, inbox, next, now, wants, context, requests, steps,
  speaking, hyps, vkTyped, job, sent, keymap, inField, cut, landed, outcome,
  utts, said,
  samples, head, buffer, stored, stream, phase, segStart, cursor, judged, call

mirrors == <<role, config, disk, slot, engine, latest, replay, live, linked,
             feed, watching, view, missed, happened>>
upstream == <<daemon, attached, ctx, ctxWait, threads, panel, panelWait,
              frontend, field, current, described, menu, settling, held,
              ctxOut, panelOut, shown, unheard, changes, faults>>
popup == <<table, tableShown, aux, auxShown, active, dirty, throttled,
           generation, mapped, slots, inPass, wire, comp, borrowed, back, signals>>
around == <<app, inbox, next, now, wants, context, requests, steps>>
typing == <<speaking, hyps, vkTyped, job, sent, keymap, inField, cut, landed,
            outcome, utts, said>>
capture == <<samples, head, buffer, stored, stream, phase, segStart, cursor,
             judged, call>>
vars == <<component, mirrors, upstream, popup, around, typing, capture>>

M == INSTANCE Mirrors
U == INSTANCE Upstream
P == INSTANCE Popup
F == INSTANCE Field
T == INSTANCE Typing
R == INSTANCE Ring

ASSUME PeripheryAssumption ==
  M!MirrorsBounds /\ U!UpstreamBounds /\ P!PopupBounds /\ F!FieldBounds /\ T!TypingBounds /\
  R!RingBounds

Init ==
  /\ component \in {"mirrors", "upstream", "popup", "field", "typing", "capture"}
  /\ M!Init /\ U!Init /\ P!Init /\ F!Init /\ T!Init /\ R!Init

MirrorsStep ==
  /\ component = "mirrors" /\ M!Next
  /\ UNCHANGED <<upstream, popup, around, typing, capture>>

UpstreamStep ==
  /\ component = "upstream" /\ U!Next
  /\ UNCHANGED <<mirrors, popup, around, typing, capture>>

PopupStep ==
  /\ component = "popup" /\ P!Next
  /\ UNCHANGED <<mirrors, upstream, around, typing, capture>>

FieldStep ==
  /\ component = "field" /\ F!Next
  /\ UNCHANGED <<mirrors, upstream, popup, typing, capture>>

TypingStep ==
  /\ component = "typing" /\ T!Next
  /\ UNCHANGED <<mirrors, upstream, popup, around, capture>>

CaptureStep ==
  /\ component = "capture" /\ R!Next
  /\ UNCHANGED <<mirrors, upstream, popup, around, typing>>

Next ==
  /\ component' = component
  /\ MirrorsStep \/ UpstreamStep \/ PopupStep \/ FieldStep \/ TypingStep \/
     CaptureStep

\* The fairness of each component's own specification.
Fairness ==
  /\ \A p \in Procs : WF_mirrors(component = "mirrors" /\ M!FairStep(p))
  /\ \A s \in U!FairSteps : WF_upstream(component = "upstream" /\ U!FairStep(s))
  /\ \A s \in P!FairSteps : WF_popup(component = "popup" /\ P!FairStep(s))

Spec == Init /\ [][Next]_vars /\ Fairness

-----------------------------------------------------------------------------
(* What the run checks: see the component's module for what each says. *)

\* The type invariant of the component that moves.
TypeOK ==
  CASE component = "mirrors"  -> M!TypeOK
    [] component = "upstream" -> U!TypeOK
    [] component = "popup"    -> P!TypeOK
    [] component = "field"    -> F!TypeOK
    [] component = "typing"   -> T!TypeOK
    [] component = "capture"  -> R!TypeOK

\* Mirrors: an applet that has read what is coming to it shows what the
\* engine last said, but for what it dropped (ipc.rs serve, engine.rs emit).
CaughtUp == component = "mirrors" => M!CaughtUp

\* Mirrors: as long as a process can run the engine, one comes to run it
\* (engine.rs spawn, run_mirror).
SomebodyTakesOver == component = "mirrors" => M!SomebodyTakesOver

\* Upstream: switcher and applet name the engine in effect (switcher.rs), and
\* the menu on offer is of that engine, unless it changed where no context of
\* ours could hear of it (frontend.rs on_engine_changed, on_register_properties).
ShownIsInEffect == component = "upstream" => U!ShownIsInEffect /\ U!MenuIsTheEngines

\* Upstream: a field that wants an engine gets a context again, whatever broke
\* (link.rs ensure, lost; frontend.rs on_tick).
ContextComesBack == component = "upstream" => U!ContextComesBack

\* Popup: the buffer that is in a slot now is free if the slot is taken for free;
\* one from before an unmap may still be read (popup.rs paint, on_release).
BusyIsHonest == component = "popup" => P!BusyIsHonest

\* Popup: what the engine asked for comes to be on the screen (popup.rs flush).
PopupSettles == component = "popup" => P!PopupSettles

\* Field: the frontend knows the field it serves, and only it (frontend.rs
\* on_done; content_type.rs).
KnowsTheField == component = "field" => F!KnowsTheField

\* Field: a deletion takes what was asked for, in whole characters (frontend.rs
\* delete_range).
DeletesWhatWasAsked == component = "field" => F!DeletesWhatWasAsked

\* Typing: applications get what was said, once and in order (engine.rs
\* show_partial, commit; inject.rs type_text).
TypesWhatWasSaid == component = "typing" => T!TypesWhatWasSaid

\* Ring: the engine reads what was captured, and loses only what the writer has
\* come round to (audio.rs read, write).
ReadsWhatWasCaptured == component = "capture" => R!ReadsWhatWasCaptured

-----------------------------------------------------------------------------
(* An instance *)

\* A layout without a menu and an engine with one.
TheCycle == <<"xkb", "mozc">>

\* Two pages, the second of them short.
TheTables == {[total |-> 3, size |-> 2, pos |-> 0, round |-> TRUE]}

\* A plain field, a secret one that tells no text, a terminal.
TheFields ==
  {[tells |-> TRUE, content |-> [purpose |-> 0, hints |-> {}, told |-> FALSE]],
   [tells |-> FALSE, content |-> [purpose |-> 8, hints |-> {6, 7}, told |-> TRUE]],
   [tells |-> TRUE, content |-> [purpose |-> 13, hints |-> {0, 9}, told |-> TRUE]]}

\* Ways to delete around the caret, a commit, what an engine does in one
\* key, and a drain with an entry nobody knows.
TheDrains ==
  LET Delete(o, n) == [name |-> "delete", offset |-> o, nchars |-> n]
      Commit(c)    == [name |-> "commit", char |-> c]
      Preedit      == [name |-> "preedit", char |-> "a"]
      Plain(n)     == [name |-> n]
  IN {<<Delete(o, n)>> : o \in -2..1, n \in 1..2} \union {<<Commit(c)>> : c \in Chars} \union
     {<<Plain("require")>>, <<Preedit, Delete(-1, 1), Commit("w")>>, <<Preedit, Preedit, Delete(-1, 2)>>,
      <<Commit("a"), Delete(-1, 1), Plain("hide"), Plain("show")>>, <<Plain("forward"), Plain("require")>>,
      <<Commit("w"), Plain("unheardOf")>>}

\* Word by word, half words and a change of mind.
TheHypotheses ==
  {<<"a">>, <<"a", "_">>, <<"a", "_", "b">>, <<"a", "_", "b", "_">>, <<"b", "_", "a">>}

TheFinals == {<<>>, <<"a">>, <<"a", "_", "b">>, <<"b">>}
=============================================================================
