-------------------------------- MODULE Popup ---------------------------------
(***************************************************************************)
(* The candidate window (im/popup.rs): what the engine's table says, when  *)
(* it is painted, and how the pixels and the compositor's answers pass     *)
(* each other on the wire.                                                 *)
(*                                                                         *)
(* Signals, frame callbacks and buffer releases are handled one by one in  *)
(* an event-loop pass; flush comes at the end of the pass.  The compositor *)
(* is external: it takes commits in order, answers a commit of a mapped    *)
(* surface with a frame callback, and releases a buffer at the latest when *)
(* another one takes its place.                                            *)
(***************************************************************************)
EXTENDS Integers, Sequences, FiniteSets, Functions

CONSTANTS
  Tables,    \* lookup tables an engine may send: [total, size, pos, round], pos an index
  Slots,     \* buffers that rotate
  MaxSignals \* bound: signals from the engine, activations included

PopupBounds ==
  /\ Tables \subseteq [total : Nat, size : Nat, pos : Nat, round : BOOLEAN]
  /\ \A t \in Tables : t.total = 0 \/ t.pos < t.total
  /\ Slots \in Nat \ {0} /\ MaxSignals \in Nat

VARIABLES
  table, tableShown,  \* the engine's table, NoTable before there is one
  aux, auxShown,      \* whether there is an auxiliary text, and not an empty one
  active,             \* whether an IME is composing into a field
  dirty, throttled, generation, mapped,
  slots,      \* per slot: the size and the incarnation of its buffer, and whether it is busy
  inPass,     \* whether a handler has run since the last flush
  wire,       \* requests the compositor has not handled
  comp,       \* the compositor: the commit in effect and the callbacks it owes
  borrowed,       \* buffers the compositor has not released
  back,       \* its events, not yet handled
  signals     \* counter for the bound

content == <<table, tableShown, aux, auxShown, active>>
server  == <<comp, borrowed>>
pvars == <<content, dirty, throttled, generation, mapped, slots, inPass, wire, server, back, signals>>

NoTable  == [total |-> 0, size |-> 1, pos |-> 0, round |-> FALSE]
NoBuffer == [size |-> "none", life |-> 0, busy |-> FALSE]
Hidden   == [rows |-> {}, cursor |-> -1, page |-> <<>>, aux |-> FALSE]
Commit(slot, life, gen, view) == [slot |-> slot, life |-> life, gen |-> gen, view |-> view]
NullCommit == Commit(0, 0, 0, Hidden)
BufferOf(c) == [slot |-> c.slot, life |-> c.life]
Sizes    == {"none", "aux", "table", "both"}

\* A view shows the engine's cursor on one of its rows, of a page that exists.
HighlightIsOnPage(v) ==
  v.rows # {} => /\ v.cursor \in 0..Cardinality(v.rows) - 1
                 /\ v.page = <<>> \/ v.page[1] \in 1..v.page[2]

TypeOK ==
  /\ table \in [total : Nat, size : Nat, pos : Nat, round : BOOLEAN]
  /\ {tableShown, aux, auxShown, active, dirty, throttled, mapped, inPass} \subseteq BOOLEAN
  /\ slots \in [1..Slots -> [size : Sizes, life : Nat, busy : BOOLEAN]]
  /\ \A b \in borrowed : b.slot \in 1..Slots
  /\ generation \in Nat /\ (~mapped => ~throttled)
  /\ \A c \in Range(wire) \union {comp.shown} : HighlightIsOnPage(c.view)

Init ==
  /\ table = NoTable /\ tableShown = FALSE /\ aux = FALSE /\ auxShown = FALSE /\ active = FALSE
  /\ dirty = FALSE /\ throttled = FALSE /\ generation = 0 /\ mapped = FALSE
  /\ slots = [i \in 1..Slots |-> NoBuffer]
  /\ inPass = FALSE /\ wire = <<>> /\ back = <<>>
  /\ comp = [shown |-> NullCommit, owes |-> <<>>] /\ borrowed = {}
  /\ signals = 0

-----------------------------------------------------------------------------
(* The table *)

PageSize(t) == IF t.size = 0 THEN 1 ELSE t.size
Least(a, b) == IF a < b THEN a ELSE b
Pages(t)    == (t.total + PageSize(t) - 1) \div PageSize(t)

\* move_cursor: the daemon's own arithmetic, which its signals do not carry.  A
\* rounding page-up lands on the last candidate.
PageUp(t) ==
  CASE t.pos >= PageSize(t) -> t.pos - PageSize(t)
    [] t.round -> Least(Pages(t) * PageSize(t) + (t.pos % PageSize(t)), t.total - 1)
    [] OTHER -> t.pos

\* Mutant of PageDown: the short last page is taken for a full one.
PageDownBeyond(t) ==
  CASE t.pos \div PageSize(t) + 1 # Pages(t) -> t.pos + PageSize(t)
    [] t.round -> t.pos % PageSize(t)
    [] OTHER -> t.pos

PageDown(t) ==
  CASE t.pos \div PageSize(t) + 1 # Pages(t) -> Least(t.pos + PageSize(t), t.total - 1)
    [] t.round -> t.pos % PageSize(t)
    [] OTHER -> t.pos

Up(t) ==
  CASE t.pos > 0 -> t.pos - 1
    [] t.round -> t.total - 1
    [] OTHER -> t.pos

Down(t) ==
  CASE t.pos + 1 # t.total -> t.pos + 1
    [] t.round -> 0
    [] OTHER -> t.pos

\* A move that is refused, or finds nothing to move in, leaves the table alone.
Moves(t) ==
  IF t.total = 0 THEN {t}
  ELSE {[t EXCEPT !.pos = p] : p \in {PageUp(t), PageDown(t), Up(t), Down(t)}}

\* view_of: the page the cursor is on, and the counter if there are several.
View ==
  LET t     == IF tableShown THEN table ELSE NoTable
      start == (t.pos \div PageSize(t)) * PageSize(t)
      end   == Least(start + PageSize(t), t.total)
  IN [rows   |-> start..end - 1,
      cursor |-> IF t.pos \in start..end - 1 THEN t.pos - start ELSE -1,
      page   |-> IF Pages(t) > 1 THEN <<start \div PageSize(t) + 1, Pages(t)>> ELSE <<>>,
      aux    |-> aux /\ auxShown]

IsEmpty(v) == v.rows = {} /\ ~v.aux
SizeOf(v)  == CASE v.rows = {} -> "aux" [] v.aux -> "both" [] OTHER -> "table"

-----------------------------------------------------------------------------
(* Drawing *)

\* Mutant of Unmap: the callback of the last frame is still waited for.
UnmapStillThrottled ==
  IF mapped
  THEN /\ wire' = Append(wire, NullCommit)
       /\ mapped' = FALSE /\ dirty' = FALSE /\ generation' = generation + 1
       /\ slots' = [i \in 1..Slots |-> [NoBuffer EXCEPT !.life = slots[i].life]]
       /\ UNCHANGED throttled
  ELSE UNCHANGED <<wire, mapped, dirty, throttled, generation, slots>>

\* unmap: a null commit; buffers and callbacks of a mapped surface are nothing to
\* wait for any more.
Unmap ==
  IF mapped
  THEN /\ wire' = Append(wire, NullCommit)
       /\ mapped' = FALSE /\ dirty' = FALSE /\ throttled' = FALSE
       /\ generation' = generation + 1
       /\ slots' = [i \in 1..Slots |-> [NoBuffer EXCEPT !.life = slots[i].life]]
  ELSE UNCHANGED <<wire, mapped, dirty, throttled, generation, slots>>

\* Mutant of Free: buffers just take turns.
FreeOrNot(s) == 1..Slots

Free(s) == {i \in 1..Slots : ~s[i].busy}

\* paint: one buffer per frame, into the first slot the compositor does not have;
\* a buffer of another size is another buffer.  That the pixels cannot be written
\* into the slot is left out.
Paint(isThrottled, s) ==
  IF dirty /\ ~isThrottled /\ active /\ Free(s) # {}
  THEN LET i    == CHOOSE j \in Free(s) : \A k \in Free(s) : j <= k
           life == s[i].life + (IF s[i].size = SizeOf(View) THEN 0 ELSE 1)
       IN /\ slots' = [s EXCEPT ![i] = [size |-> SizeOf(View), life |-> life, busy |-> TRUE]]
          /\ wire' = Append(wire, Commit(i, life, generation + 1, View))
          /\ generation' = generation + 1
          /\ dirty' = FALSE /\ throttled' = TRUE /\ mapped' = TRUE
  ELSE slots' = s /\ throttled' = isThrottled /\ UNCHANGED <<wire, generation, dirty, mapped>>

\* flush: once per event-loop pass, when the burst has been applied.
Flush ==
  /\ inPass /\ inPass' = FALSE
  /\ IF ~active \/ IsEmpty(View) THEN Unmap ELSE Paint(throttled, slots)
  /\ UNCHANGED <<content, server, back, signals>>

-----------------------------------------------------------------------------
(* Signals in *)

\* on_signal: the state, and a flag; nothing is drawn yet.
Engine ==
  \/ /\ \E t \in Tables, visible \in BOOLEAN : table' = t /\ tableShown' = visible
     /\ UNCHANGED <<aux, auxShown>>
  \/ \E visible \in BOOLEAN \ {tableShown} : tableShown' = visible /\ UNCHANGED <<table, aux, auxShown>>
  \/ \E text, visible \in BOOLEAN : aux' = text /\ auxShown' = visible /\ UNCHANGED <<table, tableShown>>
  \/ auxShown' = ~auxShown /\ UNCHANGED <<table, tableShown, aux>>
  \/ \E t \in Moves(table) : table' = t /\ UNCHANGED <<tableShown, aux, auxShown>>

\* set_active: what the engine said was for the field that is gone.
SetActive ==
  /\ active' = ~active
  /\ IF active THEN table' = NoTable /\ tableShown' = FALSE /\ aux' = FALSE /\ auxShown' = FALSE
               ELSE UNCHANGED <<table, tableShown, aux, auxShown>>

Signal ==
  /\ signals < MaxSignals /\ signals' = signals + 1
  /\ (active /\ Engine /\ active' = active) \/ SetActive
  /\ dirty' = TRUE /\ inPass' = TRUE
  /\ UNCHANGED <<throttled, generation, mapped, slots, wire, server, back>>

\* on_frame and on_release.  The library discards what is for a buffer that has
\* been destroyed; a callback cannot be withdrawn and is known by its generation.
OnEvent ==
  /\ back # <<>>
  /\ LET e     == Head(back)
         alive == e.name = "release" /\ slots[e.slot].life = e.life /\ slots[e.slot].size # "none"
     IN CASE e.name = "done" /\ e.gen = generation -> Paint(FALSE, slots)
          [] alive -> Paint(throttled, [slots EXCEPT ![e.slot].busy = FALSE])
          [] OTHER -> UNCHANGED <<slots, wire, generation, dirty, mapped, throttled>>
  /\ back' = Tail(back) /\ inPass' = TRUE
  /\ UNCHANGED <<content, server, signals>>

-----------------------------------------------------------------------------
(* The compositor (external) *)

Handle ==
  /\ wire # <<>>
  /\ LET c == Head(wire)
     IN /\ comp' = [shown |-> c, owes |-> IF c = NullCommit THEN comp.owes ELSE Append(comp.owes, c.gen)]
        /\ borrowed' = borrowed \union (IF c = NullCommit THEN {} ELSE {BufferOf(c)})
  /\ wire' = Tail(wire)
  /\ UNCHANGED <<content, dirty, throttled, generation, mapped, slots, inPass, back, signals>>

\* A frame of a mapped surface has been shown.
FrameDone ==
  /\ comp.shown # NullCommit /\ comp.owes # <<>>
  /\ back' = back \o [i \in DOMAIN comp.owes |-> [name |-> "done", gen |-> comp.owes[i]]]
  /\ comp' = [comp EXCEPT !.owes = <<>>]
  /\ UNCHANGED <<content, dirty, throttled, generation, mapped, slots, inPass, wire, borrowed, signals>>

Release(b) ==
  /\ borrowed' = borrowed \ {b}
  /\ back' = Append(back, [name |-> "release", slot |-> b.slot, life |-> b.life])
  /\ UNCHANGED <<content, dirty, throttled, generation, mapped, slots, inPass, wire, comp, signals>>

ReleaseSuperseded == \E b \in borrowed \ {BufferOf(comp.shown)} : Release(b)

Next == Signal \/ OnEvent \/ Flush \/ Handle \/ FrameDone \/ \E b \in borrowed : Release(b)

\* Passes end, events are handled, and the compositor does what the protocol
\* promises; the engine owes no signal.
FairSteps == {"flush", "event", "handle", "frame", "release"}
FairStep(s) ==
  CASE s = "flush" -> Flush [] s = "event" -> OnEvent [] s = "handle" -> Handle
    [] s = "frame" -> FrameDone [] OTHER -> ReleaseSuperseded

Spec == Init /\ [][Next]_pvars /\ \A s \in FairSteps : WF_pvars(FairStep(s))

-----------------------------------------------------------------------------
(* Properties *)

\* The buffer that is in a slot now is with the compositor, or on the way there,
\* only while the slot is busy, however resizing, late releases and callbacks of
\* earlier generations cross: it is not attached twice.  A buffer from before an
\* unmap is not in the slot any more, though the slot's memory is the same
\* (popup.rs Slot.busy, paint, on_release).
BusyIsHonest ==
  \A b \in borrowed \union {BufferOf(c) : c \in Range(wire) \ {NullCommit}} :
    (slots[b.slot].life = b.life /\ slots[b.slot].size # "none") => slots[b.slot].busy

\* When the engine falls silent, what it asked for comes to be what is on the
\* screen, and nothing if it asked for nothing or no field is active: no redraw
\* waits for a callback or a buffer that never comes (popup.rs unmap, paint).
Asked == IF active THEN View ELSE Hidden
PopupSettles ==
  <>[](IF IsEmpty(Asked) THEN comp.shown = NullCommit ELSE comp.shown.view = Asked)
=============================================================================
