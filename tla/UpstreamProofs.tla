--------------------------- MODULE UpstreamProofs ----------------------------
(***************************************************************************)
(* That switcher and applet name the engine in effect, and the menu on     *)
(* offer is that engine's, though the two sockets that say so are read in  *)
(* any order and daemon, threads and frontend may go at any time.          *)
(***************************************************************************)
EXTENDS InputProofs

-----------------------------------------------------------------------------
(* Upstream: the inductive invariant *)

\* What the threads send.
Registrations  == {U!Register(m) : m \in U!Menus} \cup {U!Unset}
Updates        == {U!Update(m) : m \in U!Menus \ {U!NoMenu}}
Said           == Registrations \cup Updates
ContextSignals == Said \cup {U!Lost}
ChangesTo(e)   == {U!Changed(e, b) : b \in BOOLEAN}
Untold         == {U!Changed(e, FALSE) : e \in U!Engines}
Changings      == {U!Changed(e, b) : e \in U!Engines, b \in BOOLEAN}
PanelSignals   == Changings \cup {U!Shortcut(b, c) : b \in BOOLEAN, c \in BOOLEAN} \cup {U!Registry, U!PanelLost}

\* None of q is in S; the last of q that is in S is in V.
NoneOf(q, S)    == \A i \in DOMAIN q : q[i] \notin S
LastOf(q, S, V) == \E i \in DOMAIN q : q[i] \in V /\ \A j \in DOMAIN q : j > i => q[j] \notin S

\* What the context's side changes.
LinkTypes ==
  /\ daemon \in [up : BOOLEAN, engine : U!Engines \cup {"none"}, mode : Modes]
  /\ attached \in BOOLEAN /\ ctxWait \in BOOLEAN /\ unheard \in BOOLEAN
  /\ ctx \in {"none", "live", "deaf", "dead"} /\ threads \in Nat
  /\ held \in Registers \cup {"none"} /\ ctxOut \in Seq(ContextSignals)

SwitchTypes ==
  /\ panel \in {"none", "joining", "broken", "live", "deaf", "dead"} /\ panelWait \in BOOLEAN
  /\ current \in U!Engines \cup {"none"} /\ described \in SUBSET U!Engines
  /\ panelOut \in Seq(PanelSignals)

MenuTypes ==
  /\ menu \in U!Menus /\ settling \in BOOLEAN
  /\ shown \in [state : {"Off", "Running", "Stopped"}, engine : U!Engines \cup {"none"},
                menu : U!Menus, glyph : Modes \cup {"none"}]
  /\ frontend \in {"running", "stopped"} /\ field \in {"none", "plain", "secret"}

UpstreamTypes == LinkTypes /\ SwitchTypes /\ MenuTypes

\* The context, its threads and the field that has it.
LinkInv ==
  /\ attached => ctx \in {"live", "deaf"} /\ field = "plain"
  /\ ctx \in {"live", "deaf"} => daemon.up
  /\ ctx = "live" => threads > 0
  /\ ctx = "deaf" => ~NoneOf(ctxOut, {U!Lost})
  /\ frontend = "stopped" =>
       /\ ctx = "none" /\ threads = 0 /\ ctxOut = <<>> /\ field = "none"
       /\ panel = "none" /\ menu = U!NoMenu /\ ~settling

\* The last change on the wire is to the engine in effect, or there is none
\* and a panel that has joined knows it.
Heard(q, e, known) ==
  \/ LastOf(q, Changings, ChangesTo(e))
  \/ NoneOf(q, Changings) /\ known

\* Nothing comes after the end.
LostIsLast(q) == \A i \in DOMAIN q : q[i] = U!PanelLost => i = Len(q)

PanelInv ==
  /\ frontend = "running" => shown.state = "Running"
  /\ panel \in {"joining", "live"} => daemon.up
  /\ panel = "none" => current = "none" /\ panelOut = <<>>
  /\ panel \notin {"deaf", "dead"} => NoneOf(panelOut, {U!PanelLost})
  /\ LostIsLast(panelOut)
  /\ panel \in {"joining", "live"} =>
       Heard(panelOut, daemon.engine,
             panel = "live" => current = daemon.engine /\ shown.engine = daemon.engine)

\* What decides whose menu is kept, whatever field is active: a registration
\* that is no mere emptying.
Decisive == {s \in Registrations : s.menu # U!NoMenu} \cup {U!Unset}

\* Whose menu it will be, once all that is said has been heard.
OwnerComes(q, news, m, e) ==
  \/ LastOf(q, Decisive, {s \in Decisive : s.menu.owner \in {"none", e}})
  \/ NoneOf(q, Decisive) /\ (~NoneOf(news, Untold) \/ m.owner \in {"none", e})

\* What is said last is not of another engine's property.
LastIsOf(q, e) ==
  \/ NoneOf(q, Said)
  \/ LastOf(q, Said, {s \in Said : s \in Updates => s.menu.owner = e})

\* Who has the focus is told all: what is said last is the engine's menu, and
\* the last registration its own.
MenuComes(q, m, v) ==
  /\ \/ LastOf(q, Said, {s \in Said : s.menu = v})
     \/ NoneOf(q, Said) /\ m = v
  /\ \/ LastOf(q, Registrations, {s \in Registrations : s.menu.owner = v.owner})
     \/ NoneOf(q, Registrations) /\ m.owner = v.owner

\* All of it, for a menu m, a daemon d and what is on the wires; a is whether
\* the context hears with the focus, and down whether nobody is there to say more.
News(q, news, m, d, a, down) ==
  /\ down => m = U!NoMenu /\ NoneOf(q, Said)
  /\ OwnerComes(q, news, m, d.engine)
  /\ LastIsOf(q, d.engine)
  /\ a /\ NoneOf(news, Untold) => MenuComes(q, m, U!MenuOf(d))

Hears == attached /\ ctx = "live"
Down  == ~daemon.up \/ panel = "broken"

MenuShown ==
  /\ ~settling => shown.menu = menu
  /\ shown.glyph \in {"none", shown.menu.mode}
  /\ panel = "broken" => ~attached

MenuInv ==
  /\ MenuShown
  /\ ~unheard => News(ctxOut, panelOut, menu, daemon, Hears, Down)

UpstreamInv == UpstreamTypes /\ LinkInv /\ PanelInv /\ MenuInv

-----------------------------------------------------------------------------
(* Upstream: signals on their way *)

LEMMA EmptyQueue == ASSUME NEW S PROVE NoneOf(<<>>, S)
  BY DEF NoneOf

LEMMA OneSignal ==
  ASSUME NEW s
  PROVE  /\ \A S : s \notin S => NoneOf(<<s>>, S)
         /\ \A S, V : s \in V => LastOf(<<s>>, S, V)
<1>1. DOMAIN <<s>> = {1} /\ <<s>>[1] = s OBVIOUS
<1>2. ~(1 > 1) OBVIOUS
<1> QED BY <1>1, <1>2 DEF NoneOf, LastOf

\* There is a last one of those in S, unless there is none.
LEMMA LastOrNone ==
  ASSUME NEW X, NEW q \in Seq(X), NEW S
  PROVE  NoneOf(q, S) \/ LastOf(q, S, S)
<1> SUFFICES ASSUME ~NoneOf(q, S) PROVE LastOf(q, S, S) OBVIOUS
<1> DEFINE those == {i \in DOMAIN q : q[i] \in S}
<1>1. Len(q) \in Nat /\ DOMAIN q = 1..Len(q) BY LenProperties
<1>2. those \in SUBSET (0..Len(q)) /\ those # {} BY <1>1 DEF NoneOf
<1>3. PICK m \in those : \A k \in those : k <= m BY <1>1, <1>2, GreatestOf
<1>4. ASSUME NEW j \in DOMAIN q, j > m PROVE q[j] \notin S
  <2>1. j \notin those BY <1>1, <1>3, <1>4
  <2> QED BY <2>1
<1> QED BY <1>3, <1>4 DEF LastOf

LEMMA LastIsThere ==
  ASSUME NEW q, NEW S, NEW V
  PROVE  LastOf(q, S, V) /\ V \subseteq S => ~NoneOf(q, S)
  BY DEF LastOf, NoneOf

LEMMA LastTwice ==
  ASSUME NEW X, NEW q \in Seq(X), NEW S, NEW V, NEW W,
         LastOf(q, S, V), LastOf(q, S, W), V \subseteq S, W \subseteq S
  PROVE  LastOf(q, S, V \cap W)
<1>1. Len(q) \in Nat /\ DOMAIN q = 1..Len(q) BY LenProperties
<1>2. PICK i \in DOMAIN q : q[i] \in V /\ \A j \in DOMAIN q : j > i => q[j] \notin S BY DEF LastOf
<1>3. PICK k \in DOMAIN q : q[k] \in W /\ \A j \in DOMAIN q : j > k => q[j] \notin S BY DEF LastOf
<1>4. i = k BY <1>1, <1>2, <1>3
<1> QED BY <1>2, <1>3, <1>4 DEF LastOf

\* Two queues in a row: the second has the last word, if it has one.
LEMMA QueuesInARow ==
  ASSUME NEW X, NEW q \in Seq(X), NEW r \in Seq(X)
  PROVE  /\ q \o r \in Seq(X)
         /\ \A S : NoneOf(q \o r, S) <=> NoneOf(q, S) /\ NoneOf(r, S)
         /\ \A S, V : LastOf(r, S, V) => LastOf(q \o r, S, V)
         /\ \A S, V : LastOf(q, S, V) /\ NoneOf(r, S) => LastOf(q \o r, S, V)
<1> DEFINE both == q \o r
           n == Len(q)
<1>1. /\ n \in Nat /\ Len(r) \in Nat /\ DOMAIN q = 1..n /\ DOMAIN r = 1..Len(r)
      /\ both \in Seq(X) /\ Len(both) = n + Len(r)
      /\ \A i \in 1..n + Len(r) : both[i] = IF i <= n THEN q[i] ELSE r[i - n]
  BY LenProperties, ConcatProperties
<1>2. DOMAIN both = 1..n + Len(r) BY <1>1, LenProperties
<1>3. \A i \in DOMAIN q : i \in DOMAIN both /\ both[i] = q[i] BY <1>1, <1>2
<1>4. \A i \in DOMAIN r : n + i \in DOMAIN both /\ both[n + i] = r[i] BY <1>1, <1>2
<1>5. \A i \in DOMAIN both :
        (i \in DOMAIN q /\ both[i] = q[i]) \/ (i > n /\ i - n \in DOMAIN r /\ both[i] = r[i - n])
  BY <1>1, <1>2
<1>6. \A i \in DOMAIN r : \A j \in DOMAIN both : j > n + i => j - n \in DOMAIN r /\ j - n > i /\ both[j] = r[j - n]
  BY <1>1, <1>2
<1> HIDE DEF both, n
<1>7. ASSUME NEW S PROVE NoneOf(both, S) <=> NoneOf(q, S) /\ NoneOf(r, S)
  <2>1. NoneOf(both, S) => NoneOf(q, S) /\ NoneOf(r, S) BY <1>3, <1>4 DEF NoneOf
  <2>2. NoneOf(q, S) /\ NoneOf(r, S) => NoneOf(both, S) BY <1>5 DEF NoneOf
  <2> QED BY <2>1, <2>2
<1>8. ASSUME NEW S, NEW V, LastOf(r, S, V) PROVE LastOf(both, S, V)
  <2>1. PICK i \in DOMAIN r : r[i] \in V /\ \A j \in DOMAIN r : j > i => r[j] \notin S BY <1>8 DEF LastOf
  <2>2. n + i \in DOMAIN both /\ both[n + i] \in V BY <1>4, <2>1
  <2>3. \A j \in DOMAIN both : j > n + i => both[j] \notin S BY <1>6, <2>1
  <2> QED BY <2>2, <2>3 DEF LastOf
<1>9. ASSUME NEW S, NEW V, LastOf(q, S, V), NoneOf(r, S) PROVE LastOf(both, S, V)
  <2>1. PICK i \in DOMAIN q : q[i] \in V /\ \A j \in DOMAIN q : j > i => q[j] \notin S BY <1>9 DEF LastOf
  <2>2. \A j \in DOMAIN both : j > i => both[j] \notin S BY <1>5, <1>9, <2>1 DEF NoneOf
  <2> QED BY <1>3, <2>1, <2>2 DEF LastOf
<1> QED BY <1>1, <1>7, <1>8, <1>9 DEF both

\* What is read from the front is the last of its kind, or not.
LEMMA TakeSignal ==
  ASSUME NEW X, NEW q \in Seq(X), q # <<>>
  PROVE  /\ Head(q) \in X /\ Tail(q) \in Seq(X)
         /\ \A S : NoneOf(q, S) <=> NoneOf(Tail(q), S) /\ Head(q) \notin S
         /\ \A S, V : LastOf(q, S, V) => LastOf(Tail(q), S, V) \/ (NoneOf(Tail(q), S) /\ Head(q) \in V)
<1>1. /\ Head(q) \in X /\ Tail(q) \in Seq(X) /\ Len(Tail(q)) = Len(q) - 1
      /\ \A i \in 1..Len(Tail(q)) : Tail(q)[i] = q[i + 1]
  BY HeadTailProperties
<1>2. Len(q) \in Nat \ {0} /\ DOMAIN q = 1..Len(q) /\ Head(q) = q[1] BY EmptySeq, LenProperties
<1>3. DOMAIN Tail(q) = 1..Len(q) - 1 BY <1>1, LenProperties
<1>4. \A i \in DOMAIN Tail(q) : i + 1 \in DOMAIN q /\ Tail(q)[i] = q[i + 1] BY <1>1, <1>2, <1>3
<1>5. \A i \in DOMAIN q : i = 1 \/ (i - 1 \in DOMAIN Tail(q) /\ Tail(q)[i - 1] = q[i]) BY <1>1, <1>2, <1>3
<1>6. 1 \in DOMAIN q BY <1>2
<1>7. ASSUME NEW S PROVE NoneOf(q, S) <=> NoneOf(Tail(q), S) /\ Head(q) \notin S
  <2>1. NoneOf(q, S) => NoneOf(Tail(q), S) /\ Head(q) \notin S BY <1>2, <1>4, <1>6 DEF NoneOf
  <2>2. NoneOf(Tail(q), S) /\ Head(q) \notin S => NoneOf(q, S) BY <1>2, <1>5 DEF NoneOf
  <2> QED BY <2>1, <2>2
<1>8. ASSUME NEW S, NEW V, LastOf(q, S, V)
      PROVE  LastOf(Tail(q), S, V) \/ (NoneOf(Tail(q), S) /\ Head(q) \in V)
  <2>1. PICK i \in DOMAIN q : q[i] \in V /\ \A j \in DOMAIN q : j > i => q[j] \notin S BY <1>8 DEF LastOf
  <2>2. \A j \in DOMAIN Tail(q) : j + 1 > i => Tail(q)[j] \notin S BY <1>4, <2>1
  <2>3. CASE i = 1
    <3>1. \A j \in DOMAIN Tail(q) : j + 1 > 1 BY <1>2, <1>3
    <3> QED BY <1>2, <2>1, <2>2, <2>3, <3>1 DEF NoneOf
  <2>4. CASE i # 1
    <3>1. i - 1 \in DOMAIN Tail(q) /\ Tail(q)[i - 1] = q[i] BY <1>5, <2>4
    <3>2. \A j \in DOMAIN Tail(q) : j > i - 1 => j + 1 > i BY <1>2, <1>3
    <3> QED BY <2>1, <2>2, <3>1, <3>2 DEF LastOf
  <2> QED BY <2>3, <2>4
<1> QED BY <1>1, <1>7, <1>8

\* What the signals carry.
LEMMA SignalsCarry ==
  /\ \A s \in Registrations : s.name = "RegisterProperties" /\ s.menu \in U!Menus
  /\ \A s \in Updates : s.name = "UpdateProperty" /\ s.menu \in U!Menus \ {U!NoMenu}
  /\ U!Lost.name = "Lost" /\ U!Lost \notin Said /\ U!Unset \in Decisive /\ U!Unset.menu = U!NoMenu
  /\ Decisive \subseteq Registrations /\ Registrations \subseteq Said /\ Updates \subseteq Said
  /\ Said \subseteq ContextSignals /\ Registrations \cap Updates = {}
  /\ \A m \in U!Menus : U!Register(m) \in Registrations /\ U!Register(m).menu = m
  /\ \A m \in U!Menus \ {U!NoMenu} : U!Update(m) \in Updates /\ U!Update(m).menu = m /\ U!Register(m) \in Decisive
  /\ U!Register(U!NoMenu) \notin Decisive
<1>1. \A m \in U!Menus : U!Register(m).name = "RegisterProperties" /\ U!Register(m).menu = m BY DEF U!Register
<1>2. \A m \in U!Menus : U!Update(m).name = "UpdateProperty" /\ U!Update(m).menu = m BY DEF U!Update
<1>3. U!Unset.name = "RegisterProperties" /\ U!Unset.menu = U!NoMenu BY DEF U!Unset
<1>4. U!Lost.name = "Lost" BY DEF U!Lost
<1>5. U!NoMenu \in U!Menus BY DEF U!Menus
<1>6. \A s \in Registrations : s.name = "RegisterProperties" /\ s.menu \in U!Menus BY <1>1, <1>3, <1>5 DEF Registrations
<1>7. \A s \in Updates : s.name = "UpdateProperty" /\ s.menu \in U!Menus \ {U!NoMenu} BY <1>2 DEF Updates
<1>8. U!Register(U!NoMenu) # U!Unset
  <2>1. "unset" \in DOMAIN U!Unset BY DEF U!Unset
  <2>2. "unset" \notin DOMAIN U!Register(U!NoMenu) BY DEF U!Register
  <2> QED BY <2>1, <2>2
<1>9. U!Unset \in Registrations /\ \A m \in U!Menus : U!Register(m) \in Registrations BY DEF Registrations
<1>10. \A m \in U!Menus \ {U!NoMenu} : U!Update(m) \in Updates BY DEF Updates
<1>11. U!Lost \notin Said BY <1>4, <1>6, <1>7 DEF Said
<1>12. Registrations \cap Updates = {} BY <1>6, <1>7
<1>13. /\ Decisive \subseteq Registrations /\ Registrations \subseteq Said /\ Updates \subseteq Said /\ Said \subseteq ContextSignals /\ U!Unset \in Decisive
  BY <1>9 DEF Decisive, Said, ContextSignals
<1>14. U!Register(U!NoMenu) \notin Decisive BY <1>1, <1>5, <1>8 DEF Decisive
<1>15. \A m \in U!Menus \ {U!NoMenu} : U!Register(m) \in Decisive BY <1>1, <1>9 DEF Decisive
<1> QED BY <1>1, <1>2, <1>3, <1>4, <1>6, <1>7, <1>9, <1>10, <1>11, <1>12, <1>13, <1>14, <1>15

\* And the panel's.
LEMMA PanelSignalsCarry ==
  /\ \A e \in U!Engines : \A b \in BOOLEAN : /\ U!Changed(e, b) \in Changings /\ U!Changed(e, b) \in ChangesTo(e)
                                     /\ U!Changed(e, b).engine = e /\ U!Changed(e, b).told = b
                                     /\ U!Changed(e, b) \in Untold <=> b = FALSE
  /\ \A s \in Changings : /\ s.name = "GlobalEngineChanged" /\ s.engine \in U!Engines /\ s.told \in BOOLEAN
                          /\ s = U!Changed(s.engine, s.told)
  /\ \A s \in PanelSignals : s.name = "GlobalEngineChanged" <=> s \in Changings
  /\ \A s \in PanelSignals : s.name = "PanelLost" <=> s = U!PanelLost
  /\ \A s \in PanelSignals : s.name = "ShortcutKeyResponded" => s.backward \in BOOLEAN
  /\ U!PanelLost \notin Changings /\ U!Registry \notin Changings /\ U!Registry # U!PanelLost
  /\ Untold \subseteq Changings /\ Changings \subseteq PanelSignals
  /\ U!PanelLost \in PanelSignals /\ U!Registry \in PanelSignals
  /\ \A b, c \in BOOLEAN : /\ U!Shortcut(b, c) \in PanelSignals /\ U!Shortcut(b, c) \notin Changings
                           /\ U!Shortcut(b, c) # U!PanelLost
<1>1. \A e, b : /\ U!Changed(e, b).name = "GlobalEngineChanged" /\ U!Changed(e, b).engine = e
                /\ U!Changed(e, b).told = b
  BY DEF U!Changed
<1>2. \A b, c : U!Shortcut(b, c).name = "ShortcutKeyResponded" /\ U!Shortcut(b, c).backward = b BY DEF U!Shortcut
<1>3. U!Registry.name = "RegistryChanged" /\ U!PanelLost.name = "PanelLost" BY DEF U!Registry, U!PanelLost
<1>4. \A e \in U!Engines : \A b \in BOOLEAN : /\ U!Changed(e, b) \in Changings /\ U!Changed(e, b) \in ChangesTo(e)
                                              /\ U!Changed(e, b) \in Untold <=> b = FALSE
  <2> SUFFICES ASSUME NEW e \in U!Engines, NEW b \in BOOLEAN
               PROVE  /\ U!Changed(e, b) \in Changings /\ U!Changed(e, b) \in ChangesTo(e)
                      /\ U!Changed(e, b) \in Untold <=> b = FALSE
    OBVIOUS
  <2>1. ASSUME U!Changed(e, b) \in Untold PROVE b = FALSE
    <3>1. PICK o \in U!Engines : U!Changed(e, b) = U!Changed(o, FALSE) BY <2>1 DEF Untold
    <3>2. U!Changed(e, b).told = U!Changed(o, FALSE).told BY <3>1
    <3>3. U!Changed(e, b).told = b /\ U!Changed(o, FALSE).told = FALSE BY DEF U!Changed
    <3> QED BY <3>2, <3>3, Zenon
  <2>2. b = FALSE => U!Changed(e, b) \in Untold BY DEF Untold
  <2>3. U!Changed(e, b) \in Changings /\ U!Changed(e, b) \in ChangesTo(e) BY DEF Changings, ChangesTo
  <2> QED BY <2>1, <2>2, <2>3
<1>5. \A s \in Changings : /\ s.name = "GlobalEngineChanged" /\ s.engine \in U!Engines /\ s.told \in BOOLEAN
                           /\ s = U!Changed(s.engine, s.told)
  BY <1>1 DEF Changings
<1>6. Untold \subseteq Changings
  <2> SUFFICES ASSUME NEW s \in Untold PROVE s \in Changings OBVIOUS
  <2>1. PICK o \in U!Engines : s = U!Changed(o, FALSE) BY DEF Untold
  <2> QED BY <1>4, <2>1
<1>7. /\ Changings \subseteq PanelSignals /\ U!PanelLost \in PanelSignals /\ U!Registry \in PanelSignals
      /\ \A b, c \in BOOLEAN : U!Shortcut(b, c) \in PanelSignals
  BY DEF PanelSignals
<1>8. \A s \in PanelSignals : \/ s \in Changings
                              \/ s.name = "ShortcutKeyResponded" /\ s.backward \in BOOLEAN
                              \/ s.name = "RegistryChanged"
                              \/ s = U!PanelLost
  BY <1>2, <1>3 DEF PanelSignals
<1>9. \A s \in PanelSignals : s.name = "GlobalEngineChanged" <=> s \in Changings BY <1>3, <1>5, <1>8
<1>10. \A s \in PanelSignals : s.name = "PanelLost" <=> s = U!PanelLost BY <1>3, <1>5, <1>8
<1>11. \A s \in PanelSignals : s.name = "ShortcutKeyResponded" => s.backward \in BOOLEAN BY <1>3, <1>5, <1>8
<1>12. U!PanelLost \notin Changings /\ U!Registry \notin Changings /\ U!Registry # U!PanelLost BY <1>3, <1>5
<1>13. \A b, c \in BOOLEAN : U!Shortcut(b, c) \notin Changings /\ U!Shortcut(b, c) # U!PanelLost
  BY <1>2, <1>3, <1>5
<1>14. \A e \in U!Engines : \A b \in BOOLEAN : U!Changed(e, b).engine = e /\ U!Changed(e, b).told = b BY <1>1
<1> HIDE DEF Changings, Untold, ChangesTo, PanelSignals
<1> QED BY <1>4, <1>5, <1>6, <1>7, <1>9, <1>10, <1>11, <1>12, <1>13, <1>14

LEMMA ChangedTyped == \A e \in U!Engines : \A b \in BOOLEAN : U!Changed(e, b) \in PanelSignals
  BY DEF PanelSignals, Changings

-----------------------------------------------------------------------------
(* Upstream: what the daemon says *)

Daemons == [up : BOOLEAN, engine : U!Engines \cup {"none"}, mode : Modes]

LEMMA UpstreamConstants ==
  /\ Cycle \in Seq(U!Engines) /\ Len(Cycle) \in Nat \ {0}
  /\ \A i \in 1..Len(Cycle) : Cycle[i] \in U!Engines
  /\ Head(Cycle) \in U!Engines /\ "none" \notin U!Engines
  /\ Registers \subseteq U!Engines /\ "none" \notin Registers /\ FirstMode \in Modes
<1>1. /\ Cycle \in Seq(U!Engines) /\ Cycle # <<>> /\ "none" \notin U!Engines
      /\ Registers \subseteq U!Engines /\ FirstMode \in Modes
  BY PeripheryAssumption DEF U!UpstreamBounds, U!Engines
<1>2. Len(Cycle) \in Nat \ {0} /\ Head(Cycle) \in U!Engines
  BY <1>1, EmptySeq, LenProperties, HeadTailProperties
<1>3. \A i \in 1..Len(Cycle) : Cycle[i] \in U!Engines BY <1>1, ElementOfSeq
<1> QED BY <1>1, <1>2, <1>3

LEMMA MenusAre ==
  /\ U!NoMenu \in U!Menus /\ U!NoMenu.owner = "none"
  /\ \A m \in U!Menus : /\ m.owner \in Registers \cup {"none"}
                        /\ m = U!NoMenu \/ (m.owner \in Registers /\ m.mode \in Modes)
                        /\ m.owner = "none" <=> m = U!NoMenu
<1>1. U!NoMenu \in U!Menus /\ U!NoMenu.owner = "none" BY DEF U!Menus, U!NoMenu
<1>2. \A m \in U!Menus : m = U!NoMenu \/ (m.owner \in Registers /\ m.mode \in Modes) BY DEF U!Menus
<1> QED BY <1>1, <1>2, UpstreamConstants

LEMMA MenuOfIs ==
  ASSUME NEW d \in Daemons
  PROVE  /\ U!MenuOf(d) \in U!Menus
         /\ d.engine \in Registers => U!MenuOf(d) # U!NoMenu /\ U!MenuOf(d).owner = d.engine
         /\ d.engine \notin Registers => U!MenuOf(d) = U!NoMenu
         /\ U!MenuOf(d).owner \in {"none", d.engine}
<1>1. CASE d.engine \in Registers
  <2>1. U!MenuOf(d) = [owner |-> d.engine, mode |-> d.mode] BY <1>1 DEF U!MenuOf
  <2>2. d.mode \in Modes BY DEF Daemons
  <2>3. U!MenuOf(d) \in U!Menus /\ U!MenuOf(d).owner = d.engine BY <1>1, <2>1, <2>2 DEF U!Menus
  <2> QED BY <1>1, <2>3, UpstreamConstants, MenusAre
<1>2. CASE d.engine \notin Registers BY <1>2, MenusAre DEF U!MenuOf
<1> QED BY <1>1, <1>2

LEMMA ToggledIs ==
  ASSUME NEW d \in Daemons
  PROVE  U!Toggled(d) \in Daemons /\ U!Toggled(d).up = d.up /\ U!Toggled(d).engine = d.engine
<1> DEFINE other == CHOOSE n \in Modes : n # d.mode \/ Modes = {d.mode}
<1>1. d.mode \in Modes BY DEF Daemons
<1>2. \E n \in Modes : n # d.mode \/ Modes = {d.mode} BY <1>1
<1>3. other \in Modes BY <1>2
<1>4. U!Toggled(d) = [d EXCEPT !.mode = other] BY DEF U!Toggled
<1> HIDE DEF other
<1> QED BY <1>3, <1>4 DEF Daemons

\* What an engine sends a context, and what it answers to a choice.
LEMMA RegistrationIs ==
  ASSUME NEW d \in Daemons
  PROVE  /\ d.engine \in Registers => U!Registration(d) = <<U!Register(U!MenuOf(d))>>
         /\ d.engine \notin Registers => U!Registration(d) = <<>>
         /\ U!Registration(d) \in Seq(ContextSignals)
<1>1. U!Register(U!MenuOf(d)) \in ContextSignals BY MenuOfIs, SignalsCarry
<1> QED BY <1>1 DEF U!Registration

LEMMA ActivationIs ==
  ASSUME LinkTypes, NEW o
  PROVE  /\ U!Activated(o) \in Daemons
         /\ U!Activated(o).up = daemon.up /\ U!Activated(o).engine = daemon.engine
         /\ \/ U!Activated(o) = daemon /\ U!Activation(o) = <<>>
            \/ /\ daemon.engine \in Registers
               /\ U!Activation(o) = <<U!Update(U!MenuOf(U!Activated(o)))>>
         /\ U!Activation(o) \in Seq(ContextSignals)
<1>1. daemon \in Daemons BY DEF LinkTypes, Daemons
<1>2. CASE o = daemon.engine /\ o \in Registers
  <2>1. U!Activated(o) = U!Toggled(daemon) BY <1>2 DEF U!Activated
  <2>2. U!Activation(o) = <<U!Update(U!MenuOf(U!Activated(o)))>> BY <1>2 DEF U!Activation
  <2>3. U!Activated(o) \in Daemons /\ U!Activated(o).up = daemon.up /\ U!Activated(o).engine = daemon.engine
    BY <1>1, <2>1, ToggledIs
  <2>4. U!MenuOf(U!Activated(o)) \in U!Menus \ {U!NoMenu} BY <1>2, <2>3, MenuOfIs
  <2>5. U!Update(U!MenuOf(U!Activated(o))) \in ContextSignals BY <2>4, SignalsCarry
  <2> QED BY <1>2, <2>2, <2>3, <2>5
<1>3. CASE ~(o = daemon.engine /\ o \in Registers)
  <2>1. U!Activated(o) = daemon /\ U!Activation(o) = <<>> BY <1>3 DEF U!Activated, U!Activation
  <2> QED BY <1>1, <2>1
<1> QED BY <1>2, <1>3

LEMMA NextEngineIs ==
  ASSUME NEW e \in U!Engines \cup {"none"}, NEW b \in BOOLEAN
  PROVE  U!NextEngine(e, b) \in U!Engines
<1> DEFINE n == Len(Cycle)
           i == U!Index(e) - 1
           k == i + (IF b THEN n - 1 ELSE 1)
<1>1. n \in Nat \ {0} /\ \A j \in 1..n : Cycle[j] \in U!Engines BY UpstreamConstants
<1>2. CASE e \notin U!Engines
  <2>1. U!NextEngine(e, b) = Cycle[IF b THEN n ELSE 1] BY <1>2 DEF U!NextEngine
  <2> QED BY <1>1, <2>1
<1>3. CASE e \in U!Engines /\ n < 2
  <2>1. U!NextEngine(e, b) = e BY <1>3 DEF U!NextEngine
  <2> QED BY <1>3, <2>1
<1>4. CASE e \in U!Engines /\ ~(n < 2)
  <2>1. U!NextEngine(e, b) = Cycle[(k % n) + 1] BY <1>4 DEF U!NextEngine
  <2>2. \E j \in DOMAIN Cycle : Cycle[j] = e BY <1>4 DEF U!Engines, U!Range
  <2>3. U!Index(e) \in DOMAIN Cycle BY <2>2 DEF U!Index
  <2>4. DOMAIN Cycle = 1..n BY UpstreamConstants, LenProperties
  <2>5. i \in Int /\ k \in Int BY <1>1, <2>3, <2>4
  <2> HIDE DEF k, n
  <2>6. k % n \in 0..n - 1 BY <1>1, <2>5
  <2>7. (k % n) + 1 \in 1..n BY <1>1, <2>6
  <2> QED BY <1>1, <2>1, <2>7
<1> QED BY <1>2, <1>3, <1>4

-----------------------------------------------------------------------------
(* Upstream: types, and the link *)

LEMMA DaemonTyped == ASSUME LinkTypes PROVE daemon \in Daemons
  BY DEF LinkTypes, Daemons

LEMMA StaysLost ==
  ASSUME NEW q \in Seq(ContextSignals), NEW r \in Seq(ContextSignals)
  PROVE  q \o r \in Seq(ContextSignals) /\ (~NoneOf(q, {U!Lost}) => ~NoneOf(q \o r, {U!Lost}))
  BY QueuesInARow

\* A call on a context that is gone.
LEMMA CallFailsLinks ==
  ASSUME LinkTypes, LinkInv, ctx = "dead", U!CallFails
  PROVE  /\ attached' = FALSE /\ ctxWait' \in BOOLEAN /\ ctx' \in {"none", "dead"}
         /\ attached = FALSE
  BY DEF LinkTypes, LinkInv, U!CallFails, U!LinkLost, U!Destroyed

LEMMA AttachLinks ==
  ASSUME LinkTypes, LinkInv, U!Attach
  PROVE  /\ LinkTypes'
         /\ daemon'.up = daemon.up /\ daemon'.engine = daemon.engine
         /\ attached' \/ attached => ctx' \in {"live", "deaf"}
         /\ ctx' \in {"live", "deaf"} => daemon.up
         /\ ctx' = "live" => threads' > 0
         /\ ctx' = "deaf" => ctx = "deaf" /\ ctxOut' = ctxOut
<1> USE DEF LinkTypes, LinkInv
<1>1. CASE ctx \in {"live", "deaf"} \/ U!Connects
  <2>1. /\ ctx' = U!Created.ctx /\ threads' = U!Created.threads /\ attached' = TRUE
        /\ ctxWait' = (ctxWait \/ U!Connects)
        /\ unheard' = (unheard /\ (U!FocusedIn = <<>> \/ ctx = "deaf"))
        /\ daemon' = U!Activated(held) /\ held' = "none"
        /\ ctxOut' = ctxOut \o (IF ctx = "deaf" THEN <<>> ELSE U!FocusedIn \o U!Activation(held))
    BY <1>1 DEF U!Attach
  <2>2. daemon' \in Daemons /\ daemon'.up = daemon.up /\ daemon'.engine = daemon.engine BY <2>1, ActivationIs
  <2>3. U!FocusedIn \in Seq(ContextSignals) BY DaemonTyped, RegistrationIs DEF U!FocusedIn
  <2>4. U!FocusedIn \o U!Activation(held) \in Seq(ContextSignals) BY <2>3, ActivationIs, StaysLost
  <2>5. ctxOut' \in Seq(ContextSignals) BY <2>1, <2>4, StaysLost
  <2>6. ctx = "deaf" => ctxOut' = ctxOut BY <2>1, ConcatEmptySeq
  <2>7. ctxWait' \in BOOLEAN /\ unheard' \in BOOLEAN BY <2>1
  <2>8. U!Connects => ctx = "none" /\ daemon.up BY DEF U!Connects, U!Attempts
  <2>9. /\ threads' \in Nat /\ ctx' \in {"live", "deaf"}
        /\ ctx' = "live" => threads' > 0
        /\ ctx' = "deaf" => ctx = "deaf"
    BY <1>1, <2>1, <2>8 DEF U!Created
  <2> QED BY <1>1, <2>1, <2>2, <2>5, <2>6, <2>7, <2>8, <2>9 DEF Daemons
<1>2. CASE ~(ctx \in {"live", "deaf"} \/ U!Connects)
  <2>1. /\ IF ctx = "dead" THEN U!CallFails /\ held' = "none"
           ELSE ctxWait' = TRUE /\ UNCHANGED <<ctx, attached, held>>
        /\ UNCHANGED <<daemon, threads, ctxOut, unheard>>
    BY <1>2 DEF U!Attach
  <2>2. CASE ctx = "dead" BY <2>1, <2>2, CallFailsLinks
  <2>3. CASE ctx # "dead" BY <1>2, <2>1, <2>3
  <2> QED BY <2>2, <2>3
<1> QED BY <1>1, <1>2

LEMMA DetachLinks ==
  ASSUME LinkTypes, LinkInv, U!Detach
  PROVE  /\ LinkTypes' /\ attached' = FALSE /\ daemon' = daemon /\ threads' = threads
         /\ ctx' \in {"none", ctx} /\ unheard' = unheard
         /\ ~NoneOf(ctxOut, {U!Lost}) => ~NoneOf(ctxOut', {U!Lost})
         /\ \/ ctxOut' = ctxOut
            \/ attached /\ ctxOut' = ctxOut \o <<U!Register(U!NoMenu)>>
<1>1. ctxOut' = ctxOut \/ (attached /\ ctxOut' = ctxOut \o <<U!Register(U!NoMenu)>>)
  <2>1. U!Told(<<U!Register(U!NoMenu)>>) \in {ctxOut, ctxOut \o <<U!Register(U!NoMenu)>>}
    BY ConcatEmptySeq DEF U!Told, LinkTypes
  <2> QED BY <2>1 DEF U!Detach, U!FocusedOut
<1>2. <<U!Register(U!NoMenu)>> \in Seq(ContextSignals)
  <2>1. U!Register(U!NoMenu) \in ContextSignals BY SignalsCarry, MenusAre
  <2> QED BY <2>1
<1>3. ctxOut' \in Seq(ContextSignals) /\ (~NoneOf(ctxOut, {U!Lost}) => ~NoneOf(ctxOut', {U!Lost}))
  BY <1>1, <1>2, StaysLost DEF LinkTypes
<1>4. /\ UNCHANGED <<daemon, threads, held, unheard>>
      /\ IF ctx = "dead" THEN U!CallFails ELSE attached' = FALSE /\ UNCHANGED <<ctx, ctxWait>>
  BY DEF U!Detach
<1>5. CASE ctx = "dead" BY <1>1, <1>3, <1>4, <1>5, CallFailsLinks DEF LinkTypes
<1>6. CASE ctx # "dead" BY <1>1, <1>3, <1>4, <1>6 DEF LinkTypes
<1> QED BY <1>5, <1>6

LEMMA SwitchTypesKept ==
  ASSUME LinkTypes, NEW e \in U!Engines, NEW left \in Seq(PanelSignals), U!SwitchTo(e, left)
  PROVE  /\ daemon' \in Daemons /\ daemon'.up = daemon.up
         /\ ctxOut' \in Seq(ContextSignals) /\ panelOut' \in Seq(PanelSignals) /\ unheard' \in BOOLEAN
         /\ ~NoneOf(ctxOut, {U!Lost}) => ~NoneOf(ctxOut', {U!Lost})
<1> DEFINE d == [daemon EXCEPT !.engine = e]
           told == attached /\ ctx = "live"
<1> USE DEF LinkTypes
<1>1. CASE daemon.up /\ e # daemon.engine
  <2>1. /\ daemon' = d
        /\ panelOut' = left \o U!Announced(<<U!Changed(e, told)>>)
        /\ ctxOut' = IF told THEN U!Told(<<U!Unset>> \o U!Registration(d)) ELSE ctxOut
        /\ unheard' = (~told /\ (unheard \/ ~U!Subscribed \/ ctxOut # <<>>))
    BY <1>1 DEF U!SwitchTo
  <2>2. d \in Daemons /\ d.up = daemon.up BY DEF Daemons
  <2> HIDE DEF d
  <2>3. told \in BOOLEAN OBVIOUS
  <2> HIDE DEF told
  <2>4. <<U!Changed(e, told)>> \in Seq(PanelSignals)
    <3>1. U!Changed(e, told) \in PanelSignals BY <2>3, ChangedTyped, Zenon
    <3> QED BY <3>1
  <2>5. U!Announced(<<U!Changed(e, told)>>) \in Seq(PanelSignals) BY <2>4 DEF U!Announced
  <2>6. panelOut' \in Seq(PanelSignals) BY <2>1, <2>5, QueuesInARow
  <2>7. <<U!Unset>> \o U!Registration(d) \in Seq(ContextSignals)
    <3>1. <<U!Unset>> \in Seq(ContextSignals) BY SignalsCarry
    <3> QED BY <2>2, <3>1, RegistrationIs, QueuesInARow
  <2>8. U!Told(<<U!Unset>> \o U!Registration(d)) \in {ctxOut \o (<<U!Unset>> \o U!Registration(d)), ctxOut \o <<>>}
    BY DEF U!Told
  <2>9. ctxOut' \in Seq(ContextSignals) /\ (~NoneOf(ctxOut, {U!Lost}) => ~NoneOf(ctxOut', {U!Lost}))
    <3>1. <<>> \in Seq(ContextSignals) OBVIOUS
    <3> QED BY <2>1, <2>7, <2>8, <3>1, StaysLost
  <2>10. unheard' \in BOOLEAN BY <2>1
  <2> QED BY <2>1, <2>2, <2>6, <2>9, <2>10
<1>2. CASE ~(daemon.up /\ e # daemon.engine)
  <2>1. panelOut' = left /\ UNCHANGED <<daemon, ctxOut, unheard>> BY <1>2 DEF U!SwitchTo
  <2> QED BY <2>1, DaemonTyped
<1> QED BY <1>1, <1>2

LEMMA SetTypesKept ==
  ASSUME LinkTypes, NEW e \in U!Engines, NEW left \in Seq(PanelSignals), U!SetEngine(e, left)
  PROVE  /\ daemon' \in Daemons /\ daemon'.up = daemon.up
         /\ ctxOut' \in Seq(ContextSignals) /\ panelOut' \in Seq(PanelSignals) /\ unheard' \in BOOLEAN
         /\ ~NoneOf(ctxOut, {U!Lost}) => ~NoneOf(ctxOut', {U!Lost})
<1>1. CASE panel \in {"live", "deaf"} BY <1>1, SwitchTypesKept DEF U!SetEngine
<1>2. CASE panel \notin {"live", "deaf"} BY <1>2, DaemonTyped DEF U!SetEngine, LinkTypes
<1> QED BY <1>1, <1>2

\* Every step keeps the types and what is known of the link.
LinkKept == (LinkTypes /\ SwitchTypes /\ MenuTypes /\ LinkInv)'

LEMMA DaemonStepLinks ==
  ASSUME UpstreamTypes, LinkInv,
         U!ModeToggles \/ U!DaemonSignals \/ U!DaemonDies \/ U!DaemonStarts \/ U!SignalGarbled \/ U!PanelSignalGarbled
  PROVE  LinkKept
<1> USE DEF UpstreamTypes, LinkKept
<1>1. CASE U!ModeToggles
  <2>1. /\ attached /\ daemon.engine \in Registers /\ daemon' = U!Toggled(daemon)
        /\ ctxOut' = U!Told(<<U!Update(U!MenuOf(daemon'))>>)
        /\ UNCHANGED <<attached, ctx, ctxWait, threads, held, U!switchVars, U!menuVars, frontend, field, panelOut>>
    BY <1>1 DEF U!ModeToggles
  <2>2. daemon' \in Daemons /\ daemon'.up = daemon.up /\ daemon'.engine = daemon.engine
    BY <2>1, DaemonTyped, ToggledIs
  <2>3. <<U!Update(U!MenuOf(daemon'))>> \in Seq(ContextSignals)
    <3>1. U!Update(U!MenuOf(daemon')) \in ContextSignals BY <2>1, <2>2, MenuOfIs, SignalsCarry
    <3> QED BY <3>1
  <2>4. ctxOut' \in Seq(ContextSignals) /\ (~NoneOf(ctxOut, {U!Lost}) => ~NoneOf(ctxOut', {U!Lost}))
    <3>1. ctxOut' = ctxOut \o <<U!Update(U!MenuOf(daemon'))>> \/ ctxOut' = ctxOut \o <<>>
      BY <2>1 DEF U!Told
    <3>2. <<>> \in Seq(ContextSignals) /\ ctxOut \in Seq(ContextSignals) BY DEF LinkTypes
    <3> QED BY <2>3, <3>1, <3>2, StaysLost
  <2>5. frontend = "running" BY <2>1 DEF LinkInv, MenuTypes
  <2> QED
    BY <2>1, <2>2, <2>4, <2>5 DEF LinkTypes, SwitchTypes, MenuTypes, LinkInv, Daemons, U!switchVars, U!menuVars
<1>2. CASE U!DaemonSignals
  <2>1. /\ daemon.up
        /\ UNCHANGED <<attached, ctx, ctxWait, threads, held, U!switchVars, menu, settling, shown, frontend, field>>
    BY <1>2 DEF U!DaemonSignals
  <2>2. /\ daemon' \in Daemons /\ daemon'.up = daemon.up
        /\ ctxOut' \in Seq(ContextSignals) /\ panelOut' \in Seq(PanelSignals) /\ unheard' \in BOOLEAN
        /\ ~NoneOf(ctxOut, {U!Lost}) => ~NoneOf(ctxOut', {U!Lost})
        /\ frontend = "stopped" => ctxOut' = <<>>
    <3>1. CASE \E e \in U!Engines : U!SwitchTo(e, panelOut)
      <4>1. panelOut \in Seq(PanelSignals) BY DEF SwitchTypes
      <4>2. PICK e \in U!Engines : U!SwitchTo(e, panelOut) BY <3>1
      <4>3. ~attached => ctxOut' = ctxOut BY <4>2 DEF U!SwitchTo
      <4>4. frontend = "stopped" => ctxOut' = <<>> BY <4>3 DEF LinkInv
      <4> HIDE DEF UpstreamTypes
      <4>5. LinkTypes BY DEF UpstreamTypes
      <4> QED BY <4>1, <4>2, <4>4, <4>5, SwitchTypesKept
    <3>2. CASE /\ \E more \in {<<U!Shortcut(b, FALSE), U!Shortcut(b, TRUE)>> : b \in BOOLEAN} \cup {<<U!Registry>>} :
                    panelOut' = panelOut \o more
               /\ UNCHANGED <<daemon, ctxOut, unheard>>
      <4>1. PICK more \in {<<U!Shortcut(b, FALSE), U!Shortcut(b, TRUE)>> : b \in BOOLEAN} \cup {<<U!Registry>>} :
              panelOut' = panelOut \o more
        BY <3>2
      <4>2. more \in Seq(PanelSignals)
        <5>1. U!Registry \in PanelSignals BY PanelSignalsCarry
        <5>2. \A b \in BOOLEAN : U!Shortcut(b, FALSE) \in PanelSignals /\ U!Shortcut(b, TRUE) \in PanelSignals
          BY PanelSignalsCarry
        <5>3. CASE more = <<U!Registry>> BY <5>1, <5>3
        <5>4. CASE more \in {<<U!Shortcut(b, FALSE), U!Shortcut(b, TRUE)>> : b \in BOOLEAN}
          <6>1. PICK b \in BOOLEAN : more = <<U!Shortcut(b, FALSE), U!Shortcut(b, TRUE)>> BY <5>4
          <6> DEFINE x == U!Shortcut(b, FALSE)
                     y == U!Shortcut(b, TRUE)
          <6>2. x \in PanelSignals /\ y \in PanelSignals BY <5>2
          <6>3. more = <<x, y>> BY <6>1
          <6> HIDE DEF x, y
          <6> QED BY <6>2, <6>3
        <5> QED BY <4>1, <5>3, <5>4
      <4>3. panelOut' \in Seq(PanelSignals) BY <4>1, <4>2, QueuesInARow DEF SwitchTypes
      <4> QED BY <3>2, <4>3, DaemonTyped DEF LinkTypes, LinkInv
    <3> QED BY <1>2, <3>1, <3>2 DEF U!DaemonSignals
  <2> QED BY <2>1, <2>2 DEF LinkTypes, SwitchTypes, MenuTypes, LinkInv, Daemons, U!switchVars
<1>3. CASE U!DaemonDies
  <2>1. /\ daemon' = [up |-> FALSE, engine |-> "none", mode |-> FirstMode]
        /\ attached' = FALSE /\ threads' = 0
        /\ ctx' = IF ctx = "none" THEN "none" ELSE "dead"
        /\ ctxOut' = ctxOut \o U!Ends(threads)
        /\ panel' = CASE panel \in {"live", "deaf"} -> "dead" [] panel = "joining" -> "broken" [] OTHER -> panel
        /\ panelOut' = U!PanelEnds
        /\ unheard' = (unheard \/ ctx # "none" \/ menu # U!NoMenu \/ ctxOut # <<>>)
        /\ UNCHANGED <<ctxWait, held, panelWait, current, described, menu, settling, shown, frontend, field>>
    BY <1>3 DEF U!DaemonDies
  <2>2. U!Ends(threads) \in Seq(ContextSignals) /\ (threads = 0 => U!Ends(threads) = <<>>)
    <3>1. threads \in Nat BY DEF LinkTypes
    <3>2. U!Ends(threads) \in Seq(ContextSignals)
      <4>1. U!Lost \in ContextSignals BY DEF ContextSignals
      <4>2. U!Ends(threads) \in [1..threads -> ContextSignals] BY <4>1 DEF U!Ends
      <4> QED BY <3>1, <4>2, IsASeq
    <3>3. Len(U!Ends(threads)) = threads
      <4>1. DOMAIN U!Ends(threads) = 1..threads BY DEF U!Ends
      <4> QED BY <3>1, <3>2, <4>1, LenProperties
    <3> QED BY <3>2, <3>3, EmptySeq
  <2>3. ctxOut' \in Seq(ContextSignals) BY <2>1, <2>2, QueuesInARow DEF LinkTypes
  <2>4. panelOut' \in Seq(PanelSignals)
    <3>1. U!PanelLost \in PanelSignals /\ panelOut \in Seq(PanelSignals) BY PanelSignalsCarry DEF SwitchTypes
    <3> QED BY <2>1, <3>1, AppendProperties DEF U!PanelEnds
  <2>5. daemon' \in Daemons BY <2>1, UpstreamConstants DEF Daemons
  <2>6. frontend = "stopped" => ctxOut' = <<>>
    <3>1. frontend = "stopped" => ctxOut = <<>> /\ threads = 0 BY DEF LinkInv
    <3>2. <<>> \o <<>> = <<>> BY ConcatEmptySeq, EmptySeq
    <3> QED BY <2>1, <2>2, <3>1, <3>2
  <2>7. unheard' \in BOOLEAN BY <2>1
  <2>8. LinkTypes' BY <2>1, <2>3, <2>5, <2>7 DEF LinkTypes, Daemons
  <2>9. SwitchTypes' /\ MenuTypes' BY <2>1, <2>4 DEF SwitchTypes, MenuTypes
  <2>10. LinkInv' BY <2>1, <2>6 DEF LinkInv, LinkTypes
  <2> QED BY <2>8, <2>9, <2>10
<1>4. CASE U!DaemonStarts
  <2>1. /\ ~daemon.up
        /\ \E e \in U!Engines \cup {"none"} : daemon' = [up |-> TRUE, engine |-> e, mode |-> FirstMode]
        /\ UNCHANGED <<U!linkVars, U!switchVars, U!menuVars, frontend, field, panelOut>>
    BY <1>4 DEF U!DaemonStarts
  <2>2. daemon' \in Daemons /\ daemon'.up BY <2>1, UpstreamConstants DEF Daemons
  <2> QED BY <2>1, <2>2
       DEF LinkTypes, SwitchTypes, MenuTypes, LinkInv, Daemons, U!linkVars, U!switchVars, U!menuVars
<1>5. CASE U!SignalGarbled
  <2>1. /\ ctx = "live" /\ ctx' = "deaf" /\ threads' = threads - 1 /\ ctxOut' = ctxOut \o U!Ends(1)
        /\ UNCHANGED <<daemon, attached, ctxWait, held, U!switchVars, U!menuVars, frontend, field, panelOut>>
    BY <1>5 DEF U!SignalGarbled
  <2>2. U!Ends(1) = <<U!Lost>> BY DEF U!Ends
  <2>3. <<U!Lost>> \in Seq(ContextSignals) /\ ctxOut \in Seq(ContextSignals) BY DEF ContextSignals, LinkTypes
  <2>4. ctxOut' \in Seq(ContextSignals) BY <2>1, <2>2, <2>3, QueuesInARow
  <2>5. ~NoneOf(ctxOut', {U!Lost})
    <3>1. ~NoneOf(<<U!Lost>>, {U!Lost}) BY OneSignal, LastIsThere
    <3> QED BY <2>1, <2>2, <2>3, <3>1, QueuesInARow
  <2>6. threads' \in Nat BY <2>1 DEF LinkTypes, LinkInv
  <2> QED BY <2>1, <2>4, <2>5, <2>6 DEF LinkTypes, SwitchTypes, MenuTypes, LinkInv, U!switchVars, U!menuVars
<1>6. CASE U!PanelSignalGarbled
  <2>1. /\ panel = "live" /\ panel' = "deaf" /\ panelOut' = Append(panelOut, U!PanelLost)
        /\ UNCHANGED <<daemon, U!linkVars, panelWait, current, described, U!menuVars, frontend, field>>
    BY <1>6 DEF U!PanelSignalGarbled, U!PanelEnds
  <2>2. panelOut' \in Seq(PanelSignals)
    <3>1. U!PanelLost \in PanelSignals /\ panelOut \in Seq(PanelSignals) BY PanelSignalsCarry DEF SwitchTypes
    <3> QED BY <2>1, <3>1, AppendProperties
  <2>3. frontend = "running" BY <2>1 DEF LinkInv, MenuTypes
  <2> QED BY <2>1, <2>2, <2>3 DEF LinkTypes, SwitchTypes, MenuTypes, LinkInv, U!linkVars, U!menuVars
<1> QED BY <1>1, <1>2, <1>3, <1>4, <1>5, <1>6

\* A signal that has been read.
LEMMA PanelRead ==
  ASSUME SwitchTypes, panelOut # <<>>
  PROVE  Head(panelOut) \in PanelSignals /\ Tail(panelOut) \in Seq(PanelSignals)
  BY TakeSignal DEF SwitchTypes

LEMMA ContextRead ==
  ASSUME LinkTypes, ctxOut # <<>>
  PROVE  /\ Head(ctxOut) \in ContextSignals /\ Tail(ctxOut) \in Seq(ContextSignals)
         /\ Head(ctxOut) # U!Lost /\ ~NoneOf(ctxOut, {U!Lost}) => ~NoneOf(Tail(ctxOut), {U!Lost})
  BY TakeSignal DEF LinkTypes

LEMMA MenuStepLinks ==
  ASSUME UpstreamTypes, LinkInv, U!CtxWaitOver \/ U!PanelWaitOver \/ U!Settle
  PROVE  LinkKept
<1> USE DEF UpstreamTypes, LinkKept
<1>1. CASE U!CtxWaitOver
  <2>1. /\ ctxWait' \in BOOLEAN
        /\ UNCHANGED <<daemon, attached, ctx, threads, held, ctxOut, U!switchVars, U!menuVars, frontend, field, panelOut>>
    BY <1>1 DEF U!CtxWaitOver
  <2> QED BY <2>1 DEF LinkTypes, SwitchTypes, MenuTypes, LinkInv, U!switchVars, U!menuVars
<1>2. CASE U!PanelWaitOver
  <2>1. /\ panelWait' \in BOOLEAN
        /\ UNCHANGED <<daemon, U!linkVars, panel, current, described, U!menuVars, frontend, field, panelOut>>
    BY <1>2 DEF U!PanelWaitOver
  <2> QED BY <2>1 DEF LinkTypes, SwitchTypes, MenuTypes, LinkInv, U!linkVars, U!menuVars
<1>3. CASE U!Settle
  <2>1. U!Indicator \in Modes \cup {"none"}
    <3>1. U!IconKey # "none" /\ U!IconKey = menu.owner => menu.mode \in Modes
      <4>1. U!IconKey # "none" => U!IconKey \in Registers BY DEF U!IconKey
      <4> QED BY <4>1, MenusAre, UpstreamConstants DEF MenuTypes
    <3> QED BY <3>1 DEF U!Indicator
  <2>2. /\ frontend = "running" /\ settling' = FALSE
        /\ shown' = [shown EXCEPT !.menu = menu, !.glyph = U!Indicator]
        /\ UNCHANGED <<daemon, U!linkVars, U!switchVars, menu, unheard, frontend, field, panelOut>>
    BY <1>3 DEF U!Settle, U!Idle
  <2>3. MenuTypes' BY <2>1, <2>2 DEF MenuTypes
  <2>4. LinkTypes' /\ SwitchTypes' BY <2>2 DEF LinkTypes, SwitchTypes, U!linkVars, U!switchVars
  <2>5. LinkInv' BY <2>2 DEF LinkInv, U!linkVars, U!switchVars
  <2> QED BY <2>3, <2>4, <2>5
<1> QED BY <1>1, <1>2, <1>3

LEMMA FieldStepLinks ==
  ASSUME UpstreamTypes, LinkInv, (\E f \in {"none", "plain", "secret"} : U!Done(f)) \/ U!Tick
  PROVE  LinkKept
<1> USE DEF UpstreamTypes, LinkKept
<1>1. ASSUME NEW f \in {"none", "plain", "secret"}, U!Done(f) PROVE LinkKept
  <2>1. /\ frontend = "running" /\ f # field /\ field' = f
        /\ UNCHANGED <<U!switchVars, menu, settling, shown, frontend, panelOut>>
    BY <1>1 DEF U!Done, U!Idle
  <2>2. SwitchTypes' /\ MenuTypes' BY <2>1 DEF SwitchTypes, MenuTypes, U!switchVars
  <2>3. CASE f = "plain"
    <3>1. U!Attach BY <1>1, <2>3 DEF U!Done
    <3>2. /\ LinkTypes' /\ daemon'.up = daemon.up
          /\ attached' => ctx' \in {"live", "deaf"}
          /\ ctx' \in {"live", "deaf"} => daemon.up
          /\ ctx' = "live" => threads' > 0
          /\ ctx' = "deaf" => ctx = "deaf" /\ ctxOut' = ctxOut
      BY <3>1, AttachLinks
    <3>3. LinkInv' BY <2>1, <2>3, <3>2 DEF LinkInv
    <3> QED BY <2>2, <3>2, <3>3
  <2>4. CASE field = "none" /\ f = "secret"
    <3>1. UNCHANGED <<daemon, U!linkVars, unheard>> BY <1>1, <2>4 DEF U!Done
    <3> QED BY <2>1, <2>2, <2>4, <3>1 DEF LinkTypes, LinkInv, U!linkVars
  <2>5. CASE ~(f = "plain") /\ ~(field = "none" /\ f = "secret")
    <3>1. U!Detach BY <1>1, <2>5 DEF U!Done
    <3>2. /\ LinkTypes' /\ attached' = FALSE /\ daemon' = daemon /\ threads' = threads
          /\ ctx' \in {"none", ctx}
          /\ ~NoneOf(ctxOut, {U!Lost}) => ~NoneOf(ctxOut', {U!Lost})
      BY <3>1, DetachLinks
    <3>3. LinkInv' BY <2>1, <3>2 DEF LinkInv
    <3> QED BY <2>2, <3>2, <3>3
  <2> QED BY <2>3, <2>4, <2>5
<1>2. CASE U!Tick
  <2>1. /\ frontend = "running" /\ U!Ensure
        /\ IF field = "plain" /\ ctx = "none" THEN U!Attach ELSE UNCHANGED <<daemon, U!linkVars, unheard>>
        /\ UNCHANGED <<current, described, menu, settling, shown, frontend, field, panelOut>>
    BY <1>2 DEF U!Tick, U!Idle
  <2>2. panel' \in {panel, "none", "joining"} /\ panelWait' \in BOOLEAN BY <2>1 DEF U!Ensure, SwitchTypes
  <2>3. SwitchTypes' /\ MenuTypes' BY <2>1, <2>2 DEF SwitchTypes, MenuTypes
  <2>4. CASE field = "plain" /\ ctx = "none"
    <3>1. U!Attach BY <2>1, <2>4
    <3>2. /\ LinkTypes' /\ daemon'.up = daemon.up
          /\ attached' => ctx' \in {"live", "deaf"}
          /\ ctx' \in {"live", "deaf"} => daemon.up
          /\ ctx' = "live" => threads' > 0
          /\ ctx' = "deaf" => ctx = "deaf" /\ ctxOut' = ctxOut
      BY <3>1, AttachLinks
    <3>3. LinkInv' BY <2>1, <2>4, <3>2 DEF LinkInv
    <3> QED BY <2>3, <3>2, <3>3
  <2>5. CASE ~(field = "plain" /\ ctx = "none")
    <3>1. UNCHANGED <<daemon, U!linkVars, unheard>> BY <2>1, <2>5
    <3>2. LinkTypes' /\ LinkInv' BY <2>1, <3>1 DEF LinkTypes, LinkInv, U!linkVars
    <3> QED BY <2>3, <3>2
  <2> QED BY <2>4, <2>5
<1> QED BY <1>1, <1>2

LEMMA ContextStepLinks ==
  ASSUME UpstreamTypes, LinkInv, U!OnContextSignal
  PROVE  LinkKept
<1> USE DEF UpstreamTypes, LinkKept
<1> DEFINE s == Head(ctxOut)
<1>1. /\ frontend = "running" /\ ctxOut # <<>> /\ ctxOut' = Tail(ctxOut)
      /\ UNCHANGED <<daemon, threads, held, U!switchVars, shown, frontend, field, panelOut>>
      /\ \/ s = U!Lost /\ U!LinkLost /\ UNCHANGED <<menu, settling, unheard>>
         \/ s.name = "RegisterProperties" /\ U!Registered(s) /\ UNCHANGED <<ctx, ctxWait, attached>>
         \/ s.name = "UpdateProperty" /\ U!Updated(s) /\ UNCHANGED <<ctx, ctxWait, attached>>
  BY DEF U!OnContextSignal, U!Idle
<1>2. /\ s \in ContextSignals /\ Tail(ctxOut) \in Seq(ContextSignals)
      /\ s # U!Lost /\ ~NoneOf(ctxOut, {U!Lost}) => ~NoneOf(Tail(ctxOut), {U!Lost})
  BY <1>1, ContextRead
<1> HIDE DEF s
<1>3. CASE s = U!Lost
  <2>1. s.name = "Lost" BY <1>3, SignalsCarry
  <2>2. U!LinkLost /\ UNCHANGED <<menu, settling, unheard>> BY <1>1, <2>1
  <2>3. ctx' = "none" /\ attached' = FALSE /\ ctxWait' \in BOOLEAN BY <2>2 DEF U!LinkLost, U!Destroyed
  <2>4. /\ ctxOut' \in Seq(ContextSignals) /\ UNCHANGED <<menu, settling, unheard>>
        /\ UNCHANGED <<daemon, threads, held, U!switchVars, shown, frontend, field, panelOut>>
    BY <1>1, <1>2, <2>2
  <2>6. LinkTypes' BY <2>3, <2>4 DEF LinkTypes
  <2>7. SwitchTypes' /\ MenuTypes' BY <2>4 DEF SwitchTypes, MenuTypes, U!switchVars
  <2>5. LinkInv' BY <1>1, <2>3 DEF LinkInv
  <2> QED BY <2>5, <2>6, <2>7
<1>4. CASE s # U!Lost
  <2>1. s \in Registrations \/ s \in Updates BY <1>2, <1>4 DEF ContextSignals, Said
  <2>2. s.menu \in U!Menus BY <2>1, SignalsCarry
  <2>3. UNCHANGED <<ctx, ctxWait, attached>> /\ (U!Registered(s) \/ U!Updated(s)) BY <1>1, <1>4
  <2>4. menu' \in U!Menus /\ settling' \in BOOLEAN /\ unheard' \in BOOLEAN
    BY <2>2, <2>3 DEF U!Registered, U!Updated, LinkTypes, MenuTypes
  <2> QED BY <1>1, <1>2, <1>4, <2>3, <2>4
       DEF LinkTypes, SwitchTypes, MenuTypes, LinkInv, U!switchVars
<1> QED BY <1>3, <1>4

LEMMA PanelStepLinks ==
  ASSUME UpstreamTypes, LinkInv, U!PanelJoined \/ U!PanelNotJoined \/ U!OnPanelSignal
  PROVE  LinkKept
<1> USE DEF UpstreamTypes, LinkKept
<1>1. CASE U!PanelJoined
  <2>1. /\ panel = "joining" /\ panel' = "live" /\ described' = U!Described /\ current' = daemon.engine
        /\ U!ChooseIfNone
        /\ shown' = IF daemon.engine = "none" THEN shown ELSE U!Published(daemon.engine)
        /\ UNCHANGED <<attached, ctx, ctxWait, threads, held, panelWait, menu, settling, frontend, field>>
    BY <1>1 DEF U!PanelJoined
  <2>2. frontend = "running" BY <2>1 DEF LinkInv, MenuTypes
  <2>3. /\ daemon' \in Daemons /\ daemon'.up = daemon.up
        /\ ctxOut' \in Seq(ContextSignals) /\ panelOut' \in Seq(PanelSignals) /\ unheard' \in BOOLEAN
        /\ ~NoneOf(ctxOut, {U!Lost}) => ~NoneOf(ctxOut', {U!Lost})
    <3>1. CASE daemon.engine = "none"
      <4>1. U!SwitchTo(Head(Cycle), panelOut) BY <2>1, <3>1 DEF U!ChooseIfNone
      <4>2. panelOut \in Seq(PanelSignals) BY DEF SwitchTypes
      <4> QED BY <4>1, <4>2, SwitchTypesKept, UpstreamConstants
    <3>2. CASE daemon.engine # "none"
      <4>1. UNCHANGED <<daemon, panelOut, ctxOut, unheard>> BY <2>1, <3>2 DEF U!ChooseIfNone
      <4> QED BY <4>1, DaemonTyped DEF LinkTypes, SwitchTypes
    <3> QED BY <3>1, <3>2
  <2>4. LinkTypes' BY <2>1, <2>3 DEF LinkTypes, Daemons
  <2>5. daemon.engine \in U!Engines \cup {"none"} BY DEF LinkTypes
  <2>6. SwitchTypes' BY <2>1, <2>3, <2>5 DEF SwitchTypes, U!Described
  <2>7. MenuTypes' BY <2>1, <2>5 DEF MenuTypes, U!Published
  <2>8. LinkInv' BY <2>1, <2>2, <2>3 DEF LinkInv
  <2> QED BY <2>4, <2>6, <2>7, <2>8
<1>2. CASE U!PanelNotJoined
  <2>1. /\ panel = "broken" /\ current' = "none" /\ panel' \in {"none", "dead"}
        /\ panelOut' = <<>> \/ panelOut' = Append(panelOut, U!PanelLost)
        /\ described' \in {described, U!Described}
        /\ UNCHANGED <<daemon, U!linkVars, panelWait, U!menuVars, frontend, field>>
    BY <1>2 DEF U!PanelNotJoined
  <2>2. frontend = "running" BY <2>1 DEF LinkInv, MenuTypes
  <2>3. panelOut' \in Seq(PanelSignals)
    <3>1. U!PanelLost \in PanelSignals /\ panelOut \in Seq(PanelSignals) BY PanelSignalsCarry DEF SwitchTypes
    <3>2. <<>> \in Seq(PanelSignals) /\ Append(panelOut, U!PanelLost) \in Seq(PanelSignals)
      BY <3>1, AppendProperties
    <3> QED BY <2>1, <3>2
  <2> QED BY <2>1, <2>2, <2>3
       DEF LinkTypes, SwitchTypes, MenuTypes, LinkInv, U!linkVars, U!menuVars, U!Described
<1>3. CASE U!OnPanelSignal
  <2> DEFINE s == Head(panelOut)
  <2>1. /\ frontend = "running" /\ panelOut # <<>>
        /\ UNCHANGED <<attached, ctx, ctxWait, threads, held, frontend, field>>
        /\ \/ s.name = "ShortcutKeyResponded" /\ U!OnShortcut(s)
           \/ s.name = "GlobalEngineChanged" /\ U!OnEngineChanged(s.engine, s.told)
           \/ /\ s = U!Registry /\ described' = {}
              /\ panelOut' = Tail(panelOut)
              /\ UNCHANGED <<panel, panelWait, current, daemon, ctxOut, U!menuVars>>
           \/ /\ s = U!PanelLost /\ U!SwitcherLost
              /\ panelOut' = Tail(panelOut)
              /\ UNCHANGED <<daemon, ctxOut, U!menuVars>>
    BY <1>3 DEF U!OnPanelSignal, U!Idle
  <2>2. s \in PanelSignals /\ Tail(panelOut) \in Seq(PanelSignals) BY <2>1, PanelRead
  <2> HIDE DEF s
  <2>3. CASE s.name = "ShortcutKeyResponded" /\ U!OnShortcut(s)
    <3>1. UNCHANGED <<panel, panelWait, current, described, menu, settling, shown>> BY <2>3 DEF U!OnShortcut
    <3>2. /\ daemon' \in Daemons /\ daemon'.up = daemon.up
          /\ ctxOut' \in Seq(ContextSignals) /\ panelOut' \in Seq(PanelSignals) /\ unheard' \in BOOLEAN
          /\ ~NoneOf(ctxOut, {U!Lost}) => ~NoneOf(ctxOut', {U!Lost})
      <4>1. CASE s.released
        <5>1. panelOut' = Tail(panelOut) /\ UNCHANGED <<daemon, ctxOut, unheard>> BY <2>3, <4>1 DEF U!OnShortcut
        <5> QED BY <2>2, <5>1, DaemonTyped DEF LinkTypes
      <4>2. CASE ~s.released
        <5>1. U!SetEngine(U!NextEngine(current, s.backward), Tail(panelOut)) BY <2>3, <4>2 DEF U!OnShortcut
        <5>2. s.backward \in BOOLEAN BY <2>2, <2>3, PanelSignalsCarry
        <5>3. U!NextEngine(current, s.backward) \in U!Engines BY <5>2, NextEngineIs DEF SwitchTypes
        <5> QED BY <2>2, <5>1, <5>3, SetTypesKept
      <4> QED BY <4>1, <4>2
    <3> QED BY <2>1, <3>1, <3>2 DEF LinkTypes, SwitchTypes, MenuTypes, LinkInv, Daemons
  <2>4. CASE s.name = "GlobalEngineChanged" /\ U!OnEngineChanged(s.engine, s.told)
    <3>1. /\ current' = s.engine /\ described' = U!DescribedToo(s.engine) /\ shown' = U!Published(s.engine)
          /\ menu' = U!MenuAfterChange /\ settling' = TRUE
          /\ unheard' = IF field = "none" THEN unheard /\ ctxOut # <<>> ELSE unheard \/ ~s.told
          /\ panelOut' = Tail(panelOut) /\ UNCHANGED <<panel, panelWait, daemon, ctxOut>>
      BY <2>4 DEF U!OnEngineChanged
    <3>2. s.engine \in U!Engines BY <2>2, <2>4, PanelSignalsCarry
    <3>3. described' \in SUBSET U!Engines BY <3>1, <3>2 DEF U!DescribedToo, SwitchTypes
    <3>4. menu' \in U!Menus BY <3>1, MenusAre DEF U!MenuAfterChange, MenuTypes
    <3>5. shown' \in [state : {"Off", "Running", "Stopped"}, engine : U!Engines \cup {"none"},
                      menu : U!Menus, glyph : Modes \cup {"none"}]
      BY <3>1, <3>2 DEF U!Published, MenuTypes
    <3>6. unheard' \in BOOLEAN BY <3>1 DEF LinkTypes
    <3> QED BY <2>1, <2>2, <3>1, <3>2, <3>3, <3>4, <3>5, <3>6 DEF LinkTypes, SwitchTypes, MenuTypes, LinkInv
  <2>5. CASE /\ described' = {} /\ panelOut' = Tail(panelOut)
             /\ UNCHANGED <<panel, panelWait, current, daemon, ctxOut, U!menuVars>>
    BY <2>1, <2>2, <2>5 DEF LinkTypes, SwitchTypes, MenuTypes, LinkInv, U!menuVars
  <2>6. CASE U!SwitcherLost /\ panelOut' = Tail(panelOut) /\ UNCHANGED <<daemon, ctxOut, U!menuVars>>
    BY <2>1, <2>2, <2>6 DEF LinkTypes, SwitchTypes, MenuTypes, LinkInv, U!menuVars, U!SwitcherLost
  <2> QED BY <2>1, <2>3, <2>4, <2>5, <2>6
<1> QED BY <1>1, <1>2, <1>3

LEMMA UserStepLinks ==
  ASSUME UpstreamTypes, LinkInv,
         U!PickEngine \/ U!PickProperty \/ U!FrontendStops \/ U!FrontendStarts
  PROVE  LinkKept
<1> USE DEF UpstreamTypes, LinkKept
<1>1. CASE U!PickEngine
  <2>1. /\ frontend = "running" /\ \E e \in U!Engines : U!SetEngine(e, panelOut)
        /\ UNCHANGED <<attached, ctx, ctxWait, threads, held, U!switchVars, menu, settling, shown, frontend, field>>
    BY <1>1 DEF U!PickEngine, U!Idle
  <2>2. panelOut \in Seq(PanelSignals) BY DEF SwitchTypes
  <2>3. /\ daemon' \in Daemons /\ daemon'.up = daemon.up
        /\ ctxOut' \in Seq(ContextSignals) /\ panelOut' \in Seq(PanelSignals) /\ unheard' \in BOOLEAN
        /\ ~NoneOf(ctxOut, {U!Lost}) => ~NoneOf(ctxOut', {U!Lost})
    BY <2>1, <2>2, SetTypesKept
  <2> QED BY <2>1, <2>3 DEF LinkTypes, SwitchTypes, MenuTypes, LinkInv, Daemons, U!switchVars
<1>2. CASE U!PickProperty
  <2>1. /\ frontend = "running" /\ shown.menu # U!NoMenu
        /\ UNCHANGED <<threads, U!switchVars, U!menuVars, frontend, field, panelOut>>
    BY <1>2 DEF U!PickProperty, U!Idle
  <2>2. CASE field = "none"
    <3>1. held' = shown.menu.owner /\ UNCHANGED <<daemon, attached, ctx, ctxWait, ctxOut>>
      BY <1>2, <2>2 DEF U!PickProperty
    <3>2. held' \in Registers \cup {"none"} BY <3>1, MenusAre DEF MenuTypes
    <3> QED BY <2>1, <3>1, <3>2 DEF LinkTypes, SwitchTypes, MenuTypes, LinkInv, U!switchVars, U!menuVars
  <2>3. CASE field # "none"
    <3>1. /\ IF attached
             THEN daemon' = U!Activated(shown.menu.owner) /\ ctxOut' = U!Told(U!Activation(shown.menu.owner))
             ELSE UNCHANGED <<daemon, ctxOut>>
          /\ IF ctx = "dead" THEN U!CallFails ELSE UNCHANGED <<attached, ctx, ctxWait>>
          /\ held' = held
      BY <1>2, <2>3 DEF U!PickProperty
    <3>2. /\ daemon' \in Daemons /\ daemon'.up = daemon.up /\ ctxOut' \in Seq(ContextSignals)
          /\ ~NoneOf(ctxOut, {U!Lost}) => ~NoneOf(ctxOut', {U!Lost})
      <4>1. CASE ~attached BY <3>1, <4>1, DaemonTyped DEF LinkTypes
      <4>2. CASE attached
        <5>1. daemon' = U!Activated(shown.menu.owner) /\ ctxOut' = U!Told(U!Activation(shown.menu.owner))
          BY <3>1, <4>2
        <5>2. \/ ctxOut' = ctxOut \o U!Activation(shown.menu.owner)
              \/ ctxOut' = ctxOut \o <<>>
          BY <5>1 DEF U!Told
        <5>3. ctxOut \in Seq(ContextSignals) /\ <<>> \in Seq(ContextSignals) BY DEF LinkTypes
        <5> QED BY <5>1, <5>2, <5>3, ActivationIs, StaysLost
      <4> QED BY <4>1, <4>2
    <3>3. /\ ctxWait' \in BOOLEAN /\ ctx' \in {"none", ctx} /\ attached' \in BOOLEAN
          /\ attached' => attached /\ ctx' = ctx
      BY <3>1, CallFailsLinks DEF LinkTypes
    <3> QED BY <2>1, <3>1, <3>2, <3>3
         DEF LinkTypes, SwitchTypes, MenuTypes, LinkInv, Daemons, U!switchVars, U!menuVars
  <2> QED BY <2>2, <2>3
<1>3. CASE U!FrontendStops
  <2>1. "none" \in Registers \cup {"none"} /\ U!NoMenu \in U!Menus BY MenusAre
  <2>2. U!Blank("Stopped") \in [state : {"Off", "Running", "Stopped"}, engine : U!Engines \cup {"none"},
                                menu : U!Menus, glyph : Modes \cup {"none"}]
    BY <2>1 DEF U!Blank
  <2>3. /\ frontend' = "stopped" /\ field' = "none" /\ shown' = U!Blank("Stopped")
        /\ ctx' = "none" /\ attached' = FALSE /\ ctxWait' = FALSE /\ threads' = 0 /\ ctxOut' = <<>>
        /\ panel' = "none" /\ panelWait' = FALSE /\ current' = "none" /\ described' = {} /\ panelOut' = <<>>
        /\ menu' = U!NoMenu /\ settling' = FALSE /\ held' = "none" /\ unheard' = FALSE
        /\ UNCHANGED daemon
    BY <1>3 DEF U!FrontendStops, U!Destroyed
  <2>4. <<>> \in Seq(ContextSignals) /\ <<>> \in Seq(PanelSignals) OBVIOUS
  <2>5. LinkTypes' BY <2>1, <2>3, <2>4 DEF LinkTypes
  <2>6. SwitchTypes' BY <2>3, <2>4 DEF SwitchTypes
  <2>7. MenuTypes' BY <2>1, <2>2, <2>3 DEF MenuTypes
  <2>8. LinkInv' BY <2>3 DEF LinkInv
  <2> QED BY <2>5, <2>6, <2>7, <2>8
<1>4. CASE U!FrontendStarts
  <2>1. U!NoMenu \in U!Menus BY MenusAre
  <2>2. U!Blank("Running") \in [state : {"Off", "Running", "Stopped"}, engine : U!Engines \cup {"none"},
                                menu : U!Menus, glyph : Modes \cup {"none"}]
    BY <2>1 DEF U!Blank
  <2>3. /\ frontend' = "running" /\ shown' = U!Blank("Running") /\ U!Ensure
        /\ UNCHANGED <<daemon, U!linkVars, current, described, menu, settling, unheard, field, panelOut>>
    BY <1>4 DEF U!FrontendStarts
  <2>4. panel' \in {panel, "none", "joining"} /\ panelWait' \in BOOLEAN BY <2>3 DEF U!Ensure, SwitchTypes
  <2> QED BY <2>2, <2>3, <2>4 DEF LinkTypes, SwitchTypes, MenuTypes, LinkInv, U!linkVars
<1> QED BY <1>1, <1>2, <1>3, <1>4

LEMMA EveryStepLinks == ASSUME UpstreamTypes, LinkInv, U!Next PROVE LinkKept
  BY DaemonStepLinks, MenuStepLinks, FieldStepLinks, ContextStepLinks, PanelStepLinks, UserStepLinks
  DEF U!Next, U!Runs

-----------------------------------------------------------------------------
(* Upstream: the engine in effect *)

LEMMA NothingLost == ASSUME NEW q, NoneOf(q, {U!PanelLost}) PROVE LostIsLast(q)
  BY DEF NoneOf, LostIsLast

LEMMA LostComes ==
  ASSUME NEW q \in Seq(PanelSignals), NoneOf(q, {U!PanelLost})
  PROVE  LostIsLast(Append(q, U!PanelLost))
<1>1. U!PanelLost \in PanelSignals BY PanelSignalsCarry
<1>2. /\ Append(q, U!PanelLost) \in Seq(PanelSignals) /\ Len(Append(q, U!PanelLost)) = Len(q) + 1
      /\ \A i \in 1..Len(q) : Append(q, U!PanelLost)[i] = q[i]
  BY <1>1, AppendProperties
<1>3. Len(q) \in Nat /\ DOMAIN q = 1..Len(q) /\ DOMAIN Append(q, U!PanelLost) = 1..Len(q) + 1
  BY <1>2, LenProperties
<1>4. \A i \in 1..Len(q) + 1 : i \in 1..Len(q) \/ i = Len(q) + 1 BY <1>3
<1> QED BY <1>2, <1>3, <1>4 DEF NoneOf, LostIsLast

LEMMA LostIsRead ==
  ASSUME NEW q \in Seq(PanelSignals), q # <<>>, LostIsLast(q)
  PROVE  LostIsLast(Tail(q)) /\ (Head(q) = U!PanelLost => Tail(q) = <<>>)
<1>1. /\ Tail(q) \in Seq(PanelSignals) /\ Len(Tail(q)) = Len(q) - 1
      /\ \A i \in 1..Len(Tail(q)) : Tail(q)[i] = q[i + 1]
  BY HeadTailProperties
<1>2. Len(q) \in Nat \ {0} /\ DOMAIN q = 1..Len(q) /\ Head(q) = q[1] BY EmptySeq, LenProperties
<1>3. DOMAIN Tail(q) = 1..Len(q) - 1 BY <1>1, LenProperties
<1>4. LostIsLast(Tail(q))
  <2> SUFFICES ASSUME NEW i \in DOMAIN Tail(q), Tail(q)[i] = U!PanelLost PROVE i = Len(Tail(q)) BY DEF LostIsLast
  <2>1. i + 1 \in DOMAIN q /\ q[i + 1] = U!PanelLost BY <1>1, <1>2, <1>3
  <2>2. i + 1 = Len(q) BY <2>1 DEF LostIsLast
  <2> QED BY <1>1, <1>2, <1>3, <2>2
<1>5. ASSUME Head(q) = U!PanelLost PROVE Tail(q) = <<>>
  <2>1. 1 = Len(q) BY <1>2, <1>5 DEF LostIsLast
  <2>2. Len(Tail(q)) = 1 - 1 BY <1>1, <2>1, Zenon
  <2>3. 1 - 1 = 0 OBVIOUS
  <2>4. Len(Tail(q)) = 0 BY <2>2, <2>3, Zenon
  <2> QED BY <1>1, <2>4, EmptySeq
<1> QED BY <1>4, <1>5

\* A change is announced to a panel that is there, and no other.
LEMMA SwitchPanels ==
  ASSUME LinkTypes, NEW e \in U!Engines, NEW left \in Seq(PanelSignals), U!SwitchTo(e, left),
         LostIsLast(left), panel \notin {"deaf", "dead"} => NoneOf(left, {U!PanelLost})
  PROVE  /\ LostIsLast(panelOut')
         /\ panel \notin {"deaf", "dead"} => NoneOf(panelOut', {U!PanelLost})
         /\ ~U!Subscribed => panelOut' = left
         /\ \A known \in BOOLEAN :
              /\ panel \in {"joining", "live"} /\ daemon.up
              /\ Heard(left, daemon.engine, known)
              => Heard(panelOut', daemon'.engine, known /\ daemon' = daemon)
         /\ panel \in {"joining", "live"} /\ daemon.up /\ e # daemon.engine =>
              LastOf(panelOut', Changings, ChangesTo(daemon'.engine))
<1> DEFINE told == attached /\ ctx = "live"
<1>1. CASE daemon.up /\ e # daemon.engine
  <2>1. /\ daemon' = [daemon EXCEPT !.engine = e]
        /\ panelOut' = left \o U!Announced(<<U!Changed(e, told)>>)
    BY <1>1 DEF U!SwitchTo
  <2>2. told \in BOOLEAN BY DEF LinkTypes
  <2> HIDE DEF told
  <2>3. daemon'.engine = e BY <2>1 DEF LinkTypes
  <2>4. CASE U!Subscribed
    <3>1. panelOut' = left \o <<U!Changed(e, told)>> BY <2>1, <2>4 DEF U!Announced
    <3>2. panel \notin {"deaf", "dead"} /\ NoneOf(left, {U!PanelLost}) BY <2>4 DEF U!Subscribed
    <3>3. U!Changed(e, told) \in PanelSignals BY <2>2, ChangedTyped, Zenon
    <3>4. U!Changed(e, told) \in ChangesTo(e) /\ U!Changed(e, told) # U!PanelLost
      <4>1. U!Changed(e, told) \in ChangesTo(e) BY <2>2 DEF ChangesTo
      <4>2. U!Changed(e, told).name # U!PanelLost.name BY DEF U!Changed, U!PanelLost
      <4> QED BY <4>1, <4>2
    <3>5. <<U!Changed(e, told)>> \in Seq(PanelSignals) BY <3>3
    <3>6. /\ NoneOf(<<U!Changed(e, told)>>, {U!PanelLost})
          /\ LastOf(<<U!Changed(e, told)>>, Changings, ChangesTo(e))
      BY <3>4, OneSignal
    <3>7. NoneOf(panelOut', {U!PanelLost}) /\ LastOf(panelOut', Changings, ChangesTo(e))
      BY <3>1, <3>2, <3>5, <3>6, QueuesInARow
    <3> QED BY <2>3, <2>4, <3>7, NothingLost DEF Heard
  <2>5. CASE ~U!Subscribed
    <3>1. panelOut' = left BY <2>1, <2>5, ConcatEmptySeq DEF U!Announced
    <3> QED BY <2>5, <3>1 DEF U!Subscribed
  <2> QED BY <2>4, <2>5
<1>2. CASE ~(daemon.up /\ e # daemon.engine)
  <2>1. panelOut' = left /\ daemon' = daemon BY <1>2 DEF U!SwitchTo
  <2> QED BY <1>2, <2>1 DEF Heard
<1> QED BY <1>1, <1>2

\* What has nothing to do with the panel leaves it alone.
LEMMA PanelStands ==
  ASSUME PanelInv, UNCHANGED <<panel, current, panelOut, frontend>>,
         shown'.state = shown.state, shown'.engine = shown.engine,
         (daemon'.up = daemon.up /\ daemon'.engine = daemon.engine) \/ ~daemon.up
  PROVE  PanelInv'
<1>1. ~daemon.up => panel \notin {"joining", "live"} BY DEF PanelInv
<1> QED BY <1>1 DEF PanelInv

LEMMA DaemonStepPanels ==
  ASSUME UpstreamTypes, LinkInv, PanelInv,
         U!ModeToggles \/ U!DaemonSignals \/ U!DaemonDies \/ U!DaemonStarts \/ U!SignalGarbled \/ U!PanelSignalGarbled
  PROVE  PanelInv'
<1>0. LinkTypes /\ SwitchTypes /\ MenuTypes BY DEF UpstreamTypes
<1>1. CASE U!ModeToggles
  <2>1. /\ daemon' = U!Toggled(daemon) /\ UNCHANGED <<U!switchVars, U!menuVars, frontend, panelOut>>
    BY <1>1 DEF U!ModeToggles
  <2>2. daemon'.up = daemon.up /\ daemon'.engine = daemon.engine BY <1>0, <2>1, DaemonTyped, ToggledIs
  <2> QED BY <2>1, <2>2, PanelStands DEF U!switchVars, U!menuVars
<1>2. CASE U!DaemonSignals
  <2>1. UNCHANGED <<panel, current, shown, frontend>> BY <1>2 DEF U!DaemonSignals, U!switchVars
  <2>2. CASE \E e \in U!Engines : U!SwitchTo(e, panelOut)
    <3>1. PICK e \in U!Engines : U!SwitchTo(e, panelOut) BY <2>2
    <3>2. panelOut \in Seq(PanelSignals) BY <1>0 DEF SwitchTypes
    <3>3. LostIsLast(panelOut) /\ (panel \notin {"deaf", "dead"} => NoneOf(panelOut, {U!PanelLost})) BY DEF PanelInv
    <3> DEFINE known == panel = "live" => current = daemon.engine /\ shown.engine = daemon.engine
    <3>4. known \in BOOLEAN OBVIOUS
    <3>5. /\ LostIsLast(panelOut')
          /\ panel \notin {"deaf", "dead"} => NoneOf(panelOut', {U!PanelLost})
          /\ ~U!Subscribed => panelOut' = panelOut
          /\ panel \in {"joining", "live"} /\ daemon.up /\ Heard(panelOut, daemon.engine, known)
              => Heard(panelOut', daemon'.engine, known /\ daemon' = daemon)
      <4> HIDE DEF known
      <4> QED BY <1>0, <3>1, <3>2, <3>3, <3>4, SwitchPanels
    <3>6. daemon'.up = daemon.up BY <1>0, <3>1, <3>2, SwitchTypesKept
    <3> QED BY <2>1, <3>5, <3>6 DEF PanelInv, U!Subscribed, Heard
  <2>3. CASE /\ panel = "live"
             /\ \E more \in {<<U!Shortcut(b, FALSE), U!Shortcut(b, TRUE)>> : b \in BOOLEAN} \cup {<<U!Registry>>} :
                  panelOut' = panelOut \o more
             /\ UNCHANGED <<daemon, ctxOut, unheard>>
    <3>1. PICK more \in {<<U!Shortcut(b, FALSE), U!Shortcut(b, TRUE)>> : b \in BOOLEAN} \cup {<<U!Registry>>} :
            panelOut' = panelOut \o more
      BY <2>3
    <3>2. more \in Seq(PanelSignals) /\ NoneOf(more, {U!PanelLost}) /\ NoneOf(more, Changings)
      <4>1. CASE more = <<U!Registry>>
        <5>1. U!Registry \in PanelSignals /\ U!Registry # U!PanelLost /\ U!Registry \notin Changings
          BY PanelSignalsCarry
        <5>2. <<U!Registry>> \in Seq(PanelSignals) BY <5>1
        <5> QED BY <4>1, <5>1, <5>2, OneSignal
      <4>2. CASE more \in {<<U!Shortcut(b, FALSE), U!Shortcut(b, TRUE)>> : b \in BOOLEAN}
        <5>1. PICK b \in BOOLEAN : more = <<U!Shortcut(b, FALSE), U!Shortcut(b, TRUE)>> BY <4>2
        <5> DEFINE x == U!Shortcut(b, FALSE)
                   y == U!Shortcut(b, TRUE)
        <5>2. /\ x \in PanelSignals /\ y \in PanelSignals /\ x # U!PanelLost /\ y # U!PanelLost
              /\ x \notin Changings /\ y \notin Changings
          BY PanelSignalsCarry
        <5>3. more = <<x, y>> BY <5>1
        <5> HIDE DEF x, y
        <5>4. DOMAIN <<x, y>> = {1, 2} /\ <<x, y>>[1] = x /\ <<x, y>>[2] = y OBVIOUS
        <5> QED BY <5>2, <5>3, <5>4 DEF NoneOf
      <4> QED BY <3>1, <4>1, <4>2
    <3>3. panelOut \in Seq(PanelSignals) BY <1>0 DEF SwitchTypes
    <3>4. NoneOf(panelOut, {U!PanelLost}) BY <2>3 DEF PanelInv
    <3>5. /\ NoneOf(panelOut', {U!PanelLost})
          /\ NoneOf(panelOut, Changings) => NoneOf(panelOut', Changings)
          /\ LastOf(panelOut, Changings, ChangesTo(daemon.engine)) =>
               LastOf(panelOut', Changings, ChangesTo(daemon.engine))
      BY <3>1, <3>2, <3>3, <3>4, QueuesInARow
    <3> QED BY <2>1, <2>3, <3>5, NothingLost DEF PanelInv, Heard
  <2> QED BY <1>2, <2>2, <2>3 DEF U!DaemonSignals
<1>3. CASE U!DaemonDies
  <2>1. /\ daemon'.up = FALSE
        /\ panel' = CASE panel \in {"live", "deaf"} -> "dead" [] panel = "joining" -> "broken" [] OTHER -> panel
        /\ panelOut' = IF panel = "live" THEN Append(panelOut, U!PanelLost) ELSE panelOut
        /\ UNCHANGED <<current, shown, frontend>>
    BY <1>3 DEF U!DaemonDies, U!PanelEnds
  <2>2. panelOut \in Seq(PanelSignals) BY <1>0 DEF SwitchTypes
  <2>3. CASE panel = "live"
    <3>1. panel' = "dead" /\ panelOut' = Append(panelOut, U!PanelLost) BY <2>1, <2>3
    <3>2. NoneOf(panelOut, {U!PanelLost}) BY <2>3 DEF PanelInv
    <3>3. LostIsLast(panelOut') BY <2>2, <3>1, <3>2, LostComes
    <3> QED BY <2>1, <3>1, <3>3 DEF PanelInv
  <2>4. CASE panel # "live"
    <3>1. panelOut' = panelOut /\ panel' \notin {"joining", "live"}
          /\ (panel' \in {"deaf", "dead"} => panel \in {"deaf", "dead"})
          /\ (panel' = "none" => panel = "none")
      BY <2>1, <2>4
    <3> QED BY <2>1, <3>1 DEF PanelInv
  <2> QED BY <2>3, <2>4
<1>4. CASE U!DaemonStarts
  BY <1>4, PanelStands DEF U!DaemonStarts, U!switchVars, U!menuVars
<1>5. CASE U!SignalGarbled
  BY <1>5, PanelStands DEF U!SignalGarbled, U!switchVars, U!menuVars
<1>6. CASE U!PanelSignalGarbled
  <2>1. /\ panel = "live" /\ panel' = "deaf" /\ panelOut' = Append(panelOut, U!PanelLost)
        /\ UNCHANGED <<daemon, current, shown, frontend>>
    BY <1>6 DEF U!PanelSignalGarbled, U!PanelEnds, U!menuVars
  <2>2. panelOut \in Seq(PanelSignals) /\ NoneOf(panelOut, {U!PanelLost}) BY <1>0, <2>1 DEF SwitchTypes, PanelInv
  <2>3. LostIsLast(panelOut') BY <2>1, <2>2, LostComes
  <2> QED BY <2>1, <2>3 DEF PanelInv
<1> QED BY <1>1, <1>2, <1>3, <1>4, <1>5, <1>6

LEMMA FrontendStepPanels ==
  ASSUME UpstreamTypes, LinkInv, PanelInv,
         \/ U!CtxWaitOver \/ U!PanelWaitOver \/ U!Settle \/ U!OnContextSignal
         \/ \E f \in {"none", "plain", "secret"} : U!Done(f)
  PROVE  PanelInv'
<1>0. LinkTypes /\ SwitchTypes /\ MenuTypes BY DEF UpstreamTypes
<1>1. CASE U!CtxWaitOver BY <1>1, PanelStands DEF U!CtxWaitOver, U!switchVars, U!menuVars
<1>2. CASE U!PanelWaitOver BY <1>2, PanelStands DEF U!PanelWaitOver, U!menuVars
<1>3. CASE U!Settle
  <2>1. /\ shown' = [shown EXCEPT !.menu = menu, !.glyph = U!Indicator]
        /\ UNCHANGED <<daemon, U!switchVars, frontend, panelOut>>
    BY <1>3 DEF U!Settle
  <2>2. shown'.state = shown.state /\ shown'.engine = shown.engine BY <1>0, <2>1 DEF MenuTypes
  <2> QED BY <2>1, <2>2, PanelStands DEF U!switchVars
<1>4. CASE U!OnContextSignal
  <2>1. UNCHANGED <<daemon, U!switchVars, shown, frontend, panelOut>> BY <1>4 DEF U!OnContextSignal
  <2> QED BY <2>1, PanelStands DEF U!switchVars
<1>5. ASSUME NEW f \in {"none", "plain", "secret"}, U!Done(f) PROVE PanelInv'
  <2>1. UNCHANGED <<U!switchVars, shown, frontend, panelOut>> BY <1>5 DEF U!Done
  <2>2. daemon'.up = daemon.up /\ daemon'.engine = daemon.engine
    <3>1. U!Attach \/ UNCHANGED daemon \/ U!Detach BY <1>5 DEF U!Done
    <3> QED BY <1>0, <3>1, AttachLinks, DetachLinks
  <2> QED BY <2>1, <2>2, PanelStands DEF U!switchVars
<1> QED BY <1>1, <1>2, <1>3, <1>4, <1>5

\* A panel that is about to join has missed nothing.
LEMMA EnsurePanels ==
  ASSUME SwitchTypes, PanelInv, U!Ensure, UNCHANGED <<current, panelOut>>,
         daemon'.up = daemon.up, daemon'.engine = daemon.engine, frontend' = "running", shown'.state = "Running",
         shown'.engine = shown.engine \/ panel = "none"
  PROVE  PanelInv'
<1>1. CASE panel = "none" /\ ~panelWait /\ daemon.up
  <2>1. panel' = "joining" /\ panelOut' = <<>> BY <1>1 DEF U!Ensure, PanelInv
  <2>2. NoneOf(<<>>, {U!PanelLost}) /\ NoneOf(<<>>, Changings) BY EmptyQueue
  <2> QED BY <1>1, <2>1, <2>2, NothingLost DEF PanelInv, Heard
<1>2. CASE ~(panel = "none" /\ ~panelWait /\ daemon.up)
  <2>1. panel' = panel BY <1>2 DEF U!Ensure
  <2> QED BY <2>1 DEF PanelInv
<1> QED BY <1>1, <1>2

LEMMA UserStepPanels ==
  ASSUME UpstreamTypes, LinkInv, PanelInv,
         U!Tick \/ U!PickEngine \/ U!PickProperty \/ U!FrontendStops \/ U!FrontendStarts
  PROVE  PanelInv'
<1>0. LinkTypes /\ SwitchTypes /\ MenuTypes BY DEF UpstreamTypes
<1>1. CASE U!Tick
  <2>1. /\ frontend = "running" /\ U!Ensure /\ UNCHANGED <<current, shown, frontend, panelOut>>
        /\ U!Attach \/ UNCHANGED daemon
    BY <1>1 DEF U!Tick, U!Idle
  <2>2. daemon'.up = daemon.up /\ daemon'.engine = daemon.engine BY <1>0, <2>1, AttachLinks
  <2>3. shown.state = "Running" BY <2>1 DEF PanelInv
  <2> QED BY <1>0, <2>1, <2>2, <2>3, EnsurePanels
<1>2. CASE U!PickEngine
  <2>1. /\ \E e \in U!Engines : U!SetEngine(e, panelOut)
        /\ UNCHANGED <<panel, current, shown, frontend>>
    BY <1>2 DEF U!PickEngine, U!switchVars
  <2>2. PICK e \in U!Engines : U!SetEngine(e, panelOut) BY <2>1
  <2>3. CASE panel = "live"
    <3>1. U!SwitchTo(e, panelOut) BY <2>2, <2>3 DEF U!SetEngine
    <3>2. panelOut \in Seq(PanelSignals) BY <1>0 DEF SwitchTypes
    <3>3. LostIsLast(panelOut) /\ NoneOf(panelOut, {U!PanelLost}) BY <2>3 DEF PanelInv
    <3> DEFINE known == current = daemon.engine /\ shown.engine = daemon.engine
    <3>4. known \in BOOLEAN OBVIOUS
    <3>5. daemon.up /\ Heard(panelOut, daemon.engine, known) BY <2>3 DEF PanelInv, Heard
    <3>6. /\ NoneOf(panelOut', {U!PanelLost})
          /\ Heard(panelOut', daemon'.engine, known /\ daemon' = daemon)
      <4> HIDE DEF known
      <4> QED BY <1>0, <2>3, <3>1, <3>2, <3>3, <3>4, <3>5, SwitchPanels
    <3>7. daemon'.up = daemon.up BY <1>0, <3>1, <3>2, SwitchTypesKept
    <3> QED BY <2>1, <2>3, <3>5, <3>6, <3>7, NothingLost DEF PanelInv, Heard
  <2>4. CASE panel = "deaf"
    <3>1. U!SwitchTo(e, panelOut) BY <2>2, <2>4 DEF U!SetEngine
    <3>2. panelOut \in Seq(PanelSignals) /\ LostIsLast(panelOut) BY <1>0 DEF SwitchTypes, PanelInv
    <3>3. panelOut' = panelOut BY <1>0, <2>4, <3>1, <3>2, SwitchPanels DEF U!Subscribed
    <3> QED BY <2>1, <2>4, <3>3 DEF PanelInv
  <2>5. CASE panel \notin {"live", "deaf"}
    <3>1. panelOut' = panelOut /\ daemon' = daemon BY <2>2, <2>5 DEF U!SetEngine
    <3> QED BY <2>1, <3>1, PanelStands
  <2> QED BY <2>3, <2>4, <2>5
<1>3. CASE U!PickProperty
  <2>1. UNCHANGED <<U!switchVars, U!menuVars, frontend, panelOut>> BY <1>3 DEF U!PickProperty
  <2>2. daemon' = daemon \/ daemon' = U!Activated(shown.menu.owner) BY <1>3 DEF U!PickProperty
  <2>3. daemon'.up = daemon.up /\ daemon'.engine = daemon.engine BY <1>0, <2>2, ActivationIs
  <2> QED BY <2>1, <2>3, PanelStands DEF U!switchVars, U!menuVars
<1>4. CASE U!FrontendStops
  <2>1. frontend' = "stopped" /\ panel' = "none" /\ current' = "none" /\ panelOut' = <<>>
    BY <1>4 DEF U!FrontendStops
  <2>2. NoneOf(<<>>, {U!PanelLost}) BY EmptyQueue
  <2> QED BY <2>1, <2>2, NothingLost DEF PanelInv
<1>5. CASE U!FrontendStarts
  <2>1. /\ frontend = "stopped" /\ frontend' = "running" /\ shown' = U!Blank("Running") /\ U!Ensure
        /\ UNCHANGED <<daemon, current, panelOut>>
    BY <1>5 DEF U!FrontendStarts
  <2>2. panel = "none" BY <2>1 DEF LinkInv
  <2>3. shown'.state = "Running" BY <2>1 DEF U!Blank
  <2> QED BY <1>0, <2>1, <2>2, <2>3, EnsurePanels
<1> QED BY <1>1, <1>2, <1>3, <1>4, <1>5

LEMMA PanelStepPanels ==
  ASSUME UpstreamTypes, LinkInv, PanelInv, U!PanelJoined \/ U!PanelNotJoined \/ U!OnPanelSignal
  PROVE  PanelInv'
<1>0. LinkTypes /\ SwitchTypes /\ MenuTypes BY DEF UpstreamTypes
<1>t. panelOut \in Seq(PanelSignals) BY <1>0 DEF SwitchTypes
<1>1. CASE U!PanelJoined
  <2>1. /\ panel = "joining" /\ panel' = "live" /\ current' = daemon.engine
        /\ U!ChooseIfNone
        /\ shown' = IF daemon.engine = "none" THEN shown ELSE U!Published(daemon.engine)
        /\ UNCHANGED frontend
    BY <1>1 DEF U!PanelJoined
  <2>2. /\ daemon.up /\ NoneOf(panelOut, {U!PanelLost}) /\ LostIsLast(panelOut)
        /\ Heard(panelOut, daemon.engine, TRUE)
    BY <2>1 DEF PanelInv, Heard
  <2>3. shown'.state = shown.state BY <1>0, <2>1 DEF MenuTypes, U!Published
  <2>4. CASE daemon.engine = "none"
    <3>1. U!SwitchTo(Head(Cycle), panelOut) BY <2>1, <2>4 DEF U!ChooseIfNone
    <3>2. Head(Cycle) \in U!Engines /\ Head(Cycle) # daemon.engine BY <2>4, UpstreamConstants
    <3>3. /\ NoneOf(panelOut', {U!PanelLost})
          /\ LastOf(panelOut', Changings, ChangesTo(daemon'.engine))
      BY <1>0, <1>t, <2>1, <2>2, <3>1, <3>2, SwitchPanels
    <3>4. daemon'.up BY <1>0, <1>t, <2>2, <3>1, <3>2, SwitchTypesKept
    <3> QED BY <2>1, <2>3, <3>3, <3>4, NothingLost DEF PanelInv, Heard
  <2>5. CASE daemon.engine # "none"
    <3>1. UNCHANGED <<daemon, panelOut>> BY <2>1, <2>5 DEF U!ChooseIfNone
    <3>2. shown'.engine = daemon.engine BY <1>0, <2>1, <2>5 DEF MenuTypes, U!Published
    <3> QED BY <2>1, <2>2, <2>3, <3>1, <3>2 DEF PanelInv, Heard
  <2> QED BY <2>4, <2>5
<1>2. CASE U!PanelNotJoined
  <2>1. /\ panel = "broken" /\ current' = "none" /\ UNCHANGED <<daemon, shown, frontend>>
        /\ \/ panel' = "none" /\ panelOut' = <<>>
           \/ panel' = "dead" /\ panelOut' = Append(panelOut, U!PanelLost)
    BY <1>2 DEF U!PanelNotJoined, U!menuVars
  <2>2. NoneOf(panelOut, {U!PanelLost}) BY <2>1 DEF PanelInv
  <2>3. NoneOf(<<>>, {U!PanelLost}) /\ LostIsLast(<<>>) BY EmptyQueue, NothingLost
  <2>4. LostIsLast(Append(panelOut, U!PanelLost)) BY <1>t, <2>2, LostComes
  <2> QED BY <2>1, <2>3, <2>4 DEF PanelInv
<1>3. CASE U!OnPanelSignal
  <2> DEFINE s == Head(panelOut)
             q == Tail(panelOut)
  <2>1. /\ frontend = "running" /\ panelOut # <<>> /\ panel \notin {"joining", "broken"}
        /\ UNCHANGED frontend
        /\ \/ s.name = "ShortcutKeyResponded" /\ U!OnShortcut(s)
           \/ s.name = "GlobalEngineChanged" /\ U!OnEngineChanged(s.engine, s.told)
           \/ /\ s = U!Registry
              /\ panelOut' = Tail(panelOut)
              /\ UNCHANGED <<panel, current, daemon, U!menuVars>>
           \/ /\ s = U!PanelLost /\ U!SwitcherLost
              /\ panelOut' = Tail(panelOut)
              /\ UNCHANGED <<daemon, U!menuVars>>
    BY <1>3 DEF U!OnPanelSignal, U!Idle
  <2>2. /\ s \in PanelSignals /\ q \in Seq(PanelSignals)
        /\ \A S : NoneOf(panelOut, S) <=> NoneOf(q, S) /\ s \notin S
        /\ \A S, V : LastOf(panelOut, S, V) => LastOf(q, S, V) \/ (NoneOf(q, S) /\ s \in V)
    BY <1>t, <2>1, TakeSignal
  <2>3. LostIsLast(q) /\ (s = U!PanelLost => q = <<>>) BY <1>t, <2>1, LostIsRead DEF PanelInv
  <2>4. shown.state = "Running" /\ (panel \notin {"deaf", "dead"} => NoneOf(q, {U!PanelLost})) BY <2>1, <2>2 DEF PanelInv
  <2>5. panel # "none" BY <2>1 DEF PanelInv
  <2> HIDE DEF s
  <2> DEFINE known == current = daemon.engine /\ shown.engine = daemon.engine
  <2>6. panel = "live" => daemon.up /\ Heard(panelOut, daemon.engine, known) BY DEF PanelInv, Heard
  <2>7. panel = "live" /\ s \notin Changings => Heard(q, daemon.engine, known)
    <3>1. \A e : s \in ChangesTo(e) => s \in Changings
      <4>1. \A e : s \in ChangesTo(e) => s.name = "GlobalEngineChanged" BY DEF ChangesTo, U!Changed
      <4> QED BY <2>2, <4>1, PanelSignalsCarry
    <3> QED BY <2>2, <2>6, <3>1 DEF Heard
  <2>8. CASE s.name = "ShortcutKeyResponded" /\ U!OnShortcut(s)
    <3>1. UNCHANGED <<panel, current, shown>> BY <2>8 DEF U!OnShortcut
    <3>2. s \notin Changings BY <2>2, <2>8, PanelSignalsCarry
    <3>3. CASE s.released
      <4>1. panelOut' = q /\ UNCHANGED daemon BY <2>8, <3>3 DEF U!OnShortcut
      <4> QED BY <2>1, <2>3, <2>4, <2>5, <2>6, <2>7, <3>1, <3>2, <4>1 DEF PanelInv, Heard
    <3>4. CASE ~s.released
      <4>1. U!SetEngine(U!NextEngine(current, s.backward), q) BY <2>8, <3>4 DEF U!OnShortcut
      <4>2. s.backward \in BOOLEAN BY <2>2, <2>8, PanelSignalsCarry
      <4>3. U!NextEngine(current, s.backward) \in U!Engines BY <1>0, <4>2, NextEngineIs DEF SwitchTypes
      <4>4. CASE panel = "live"
        <5>1. U!SwitchTo(U!NextEngine(current, s.backward), q) BY <4>1, <4>4 DEF U!SetEngine
        <5>2. Heard(q, daemon.engine, known) /\ daemon.up BY <2>6, <2>7, <3>2, <4>4
        <5>3. known \in BOOLEAN OBVIOUS
        <5> HIDE DEF known, q
        <5>4. /\ NoneOf(panelOut', {U!PanelLost}) /\ LostIsLast(panelOut')
              /\ Heard(panelOut', daemon'.engine, known /\ daemon' = daemon)
          BY <1>0, <2>2, <2>3, <2>4, <4>3, <4>4, <5>1, <5>2, <5>3, SwitchPanels
        <5>5. daemon'.up BY <1>0, <2>2, <4>3, <5>1, <5>2, SwitchTypesKept
        <5> QED BY <2>1, <2>4, <3>1, <4>4, <5>4, <5>5 DEF PanelInv, Heard, known
      <4>5. CASE panel = "deaf"
        <5>1. U!SwitchTo(U!NextEngine(current, s.backward), q) BY <4>1, <4>5 DEF U!SetEngine
        <5> HIDE DEF q
        <5>2. panelOut' = q BY <1>0, <2>2, <2>3, <4>3, <4>5, <5>1, SwitchPanels DEF U!Subscribed
        <5> QED BY <2>1, <2>3, <2>4, <3>1, <4>5, <5>2 DEF PanelInv
      <4>6. CASE panel \notin {"live", "deaf"}
        <5>1. panelOut' = q /\ daemon' = daemon BY <4>1, <4>6 DEF U!SetEngine
        <5> QED BY <2>1, <2>3, <2>4, <2>5, <3>1, <4>6, <5>1 DEF PanelInv
      <4> QED BY <4>4, <4>5, <4>6
    <3> QED BY <3>3, <3>4
  <2>9. CASE s.name = "GlobalEngineChanged" /\ U!OnEngineChanged(s.engine, s.told)
    <3>1. /\ current' = s.engine /\ shown' = U!Published(s.engine)
          /\ panelOut' = q /\ UNCHANGED <<panel, daemon>>
      BY <2>9 DEF U!OnEngineChanged
    <3>2. s \in Changings /\ s.engine \in U!Engines BY <2>2, <2>9, PanelSignalsCarry
    <3>3. shown'.state = shown.state /\ shown'.engine = s.engine BY <1>0, <3>1 DEF MenuTypes, U!Published
    <3>4. panel = "live" =>
            LastOf(q, Changings, ChangesTo(daemon.engine)) \/ (NoneOf(q, Changings) /\ s.engine = daemon.engine)
      <4>1. s \in ChangesTo(daemon.engine) => s.engine = daemon.engine BY DEF ChangesTo, U!Changed
      <4> QED BY <2>2, <2>6, <3>2, <4>1 DEF Heard
    <3> QED BY <2>1, <2>3, <2>4, <2>5, <2>6, <3>1, <3>3, <3>4 DEF PanelInv, Heard
  <2>10. CASE s = U!Registry /\ panelOut' = q /\ UNCHANGED <<panel, current, daemon, U!menuVars>>
    <3>1. s \notin Changings BY <2>10, PanelSignalsCarry
    <3> QED BY <2>1, <2>3, <2>4, <2>5, <2>6, <2>7, <2>10, <3>1 DEF PanelInv, Heard, U!menuVars
  <2>11. CASE s = U!PanelLost /\ U!SwitcherLost /\ panelOut' = q /\ UNCHANGED <<daemon, U!menuVars>>
    <3>1. panelOut' = <<>> /\ panel' = "none" /\ current' = "none" BY <2>3, <2>11 DEF U!SwitcherLost
    <3>2. NoneOf(<<>>, {U!PanelLost}) /\ LostIsLast(<<>>) BY EmptyQueue, NothingLost
    <3> QED BY <2>1, <2>4, <2>11, <3>1, <3>2 DEF PanelInv, U!menuVars
  <2> QED BY <2>1, <2>8, <2>9, <2>10, <2>11
<1> QED BY <1>1, <1>2, <1>3

LEMMA EveryStepPanels == ASSUME UpstreamTypes, LinkInv, PanelInv, U!Next PROVE PanelInv'
  BY DaemonStepPanels, FrontendStepPanels, UserStepPanels, PanelStepPanels DEF U!Next, U!Runs

-----------------------------------------------------------------------------
(* Upstream: the news on the way *)

\* Who has nothing to hear, and has no menu, knows all.
LEMMA NothingToHear ==
  ASSUME NEW q, NEW news, NEW m, NEW d, NEW down, m = U!NoMenu, NoneOf(q, Said)
  PROVE  News(q, news, m, d, FALSE, down)
<1>1. NoneOf(q, Decisive) BY SignalsCarry DEF NoneOf
<1> QED BY <1>1, MenusAre DEF News, OwnerComes, LastIsOf

\* Only whether an untold change is on its way matters of the panel's news.
LEMMA OtherNews ==
  ASSUME NEW q, NEW news, NEW other, NEW m, NEW d, NEW a \in BOOLEAN, NEW down \in BOOLEAN,
         NoneOf(news, Untold) <=> NoneOf(other, Untold), News(q, news, m, d, a, down)
  PROVE  News(q, other, m, d, a, down)
  BY DEF News, OwnerComes

\* Who does not hear with the focus is owed less.
LEMMA LessIsOwed ==
  ASSUME NEW q, NEW news, NEW m, NEW d, NEW e, NEW a \in BOOLEAN, NEW down \in BOOLEAN,
         News(q, news, m, d, a, down), e.engine = d.engine
  PROVE  News(q, news, m, e, FALSE, down)
  BY DEF News

\* What says nothing changes nothing.
LEMMA NothingSaid ==
  ASSUME NEW q \in Seq(ContextSignals), NEW r \in Seq(ContextSignals), NoneOf(r, Said),
         NEW news, NEW m, NEW d, NEW a \in BOOLEAN, NEW down \in BOOLEAN, News(q, news, m, d, a, down)
  PROVE  News(q \o r, news, m, d, a, down)
<1>1. NoneOf(r, Decisive) /\ NoneOf(r, Registrations) BY SignalsCarry DEF NoneOf
<1>2. \A S, V : /\ LastOf(q, S, V) /\ NoneOf(r, S) => LastOf(q \o r, S, V)
                /\ NoneOf(q, S) /\ NoneOf(r, S) => NoneOf(q \o r, S)
  BY QueuesInARow
<1> QED BY <1>1, <1>2 DEF News, OwnerComes, LastIsOf, MenuComes

\* A registration that is of the engine's menu says all there is to know.
LEMMA RegistrationTells ==
  ASSUME NEW q \in Seq(ContextSignals), NEW s \in Registrations, NEW d \in Daemons,
         s.menu = U!MenuOf(d), s \in Decisive, NEW news, NEW m, NEW a \in BOOLEAN
  PROVE  News(q \o <<s>>, news, m, d, a, FALSE)
<1>1. s \in Said /\ s \notin Updates /\ <<s>> \in Seq(ContextSignals)
  <2>1. s \in Said /\ s \notin Updates /\ s \in ContextSignals BY SignalsCarry
  <2> QED BY <2>1
<1>2. s.menu.owner \in {"none", d.engine} /\ s.menu.owner = U!MenuOf(d).owner BY MenuOfIs
<1>3. \A S, V : s \in V => LastOf(q \o <<s>>, S, V)
  <2> SUFFICES ASSUME NEW S, NEW V, s \in V PROVE LastOf(q \o <<s>>, S, V) OBVIOUS
  <2>1. LastOf(<<s>>, S, V) BY OneSignal
  <2> QED BY <1>1, <2>1, QueuesInARow
<1>4. /\ s \in {x \in Decisive : x.menu.owner \in {"none", d.engine}}
      /\ s \in {x \in Said : x \in Updates => x.menu.owner = d.engine}
      /\ s \in {x \in Said : x.menu = U!MenuOf(d)}
      /\ s \in {x \in Registrations : x.menu.owner = U!MenuOf(d).owner}
  BY <1>1, <1>2
<1> QED BY <1>3, <1>4 DEF News, OwnerComes, LastIsOf, MenuComes

\* An update by the engine in effect goes on from there.
LEMMA UpdateTells ==
  ASSUME NEW q \in Seq(ContextSignals), NEW d \in Daemons, NEW e \in Daemons,
         e.engine = d.engine, d.engine \in Registers,
         NEW news, NEW m, NEW a \in BOOLEAN, News(q, news, m, d, a, FALSE)
  PROVE  News(q \o <<U!Update(U!MenuOf(e))>>, news, m, e, a, FALSE)
<1> DEFINE s == U!Update(U!MenuOf(e))
<1>1. U!MenuOf(e) \in U!Menus \ {U!NoMenu} /\ U!MenuOf(e).owner = e.engine /\ U!MenuOf(d).owner = e.engine
  BY MenuOfIs
<1>2. s \in Updates /\ s.menu = U!MenuOf(e) BY <1>1, SignalsCarry
<1> HIDE DEF s
<1>3. s \in Said /\ s \notin Registrations /\ s \notin Decisive /\ <<s>> \in Seq(ContextSignals)
  <2>1. s \in Said /\ s \notin Registrations /\ s \notin Decisive /\ s \in ContextSignals BY <1>2, SignalsCarry
  <2> QED BY <2>1
<1>4. NoneOf(<<s>>, Decisive) /\ NoneOf(<<s>>, Registrations) BY <1>3, OneSignal
<1>5. \A S, V : /\ LastOf(q, S, V) /\ NoneOf(<<s>>, S) => LastOf(q \o <<s>>, S, V)
                /\ NoneOf(q, S) /\ NoneOf(<<s>>, S) => NoneOf(q \o <<s>>, S)
  BY <1>3, QueuesInARow
<1>6. \A S, V : s \in V => LastOf(q \o <<s>>, S, V)
  <2> SUFFICES ASSUME NEW S, NEW V, s \in V PROVE LastOf(q \o <<s>>, S, V) OBVIOUS
  <2>1. LastOf(<<s>>, S, V) BY OneSignal
  <2> QED BY <1>3, <2>1, QueuesInARow
<1>7. /\ s \in {x \in Said : x \in Updates => x.menu.owner = e.engine}
      /\ s \in {x \in Said : x.menu = U!MenuOf(e)}
  BY <1>1, <1>2, <1>3
<1>8. OwnerComes(q \o <<s>>, news, m, e.engine)
  BY <1>4, <1>5 DEF News, OwnerComes
<1>9. a /\ NoneOf(news, Untold) => MenuComes(q \o <<s>>, m, U!MenuOf(e))
  <2> SUFFICES ASSUME a, NoneOf(news, Untold) PROVE MenuComes(q \o <<s>>, m, U!MenuOf(e)) OBVIOUS
  <2>1. MenuComes(q, m, U!MenuOf(d)) BY DEF News
  <2>2. LastOf(q \o <<s>>, Said, {x \in Said : x.menu = U!MenuOf(e)}) BY <1>6, <1>7
  <2>3. {x \in Registrations : x.menu.owner = U!MenuOf(d).owner}
          = {x \in Registrations : x.menu.owner = U!MenuOf(e).owner}
    BY <1>1
  <2> QED BY <1>1, <1>4, <1>5, <2>1, <2>2, <2>3 DEF MenuComes
<1> QED BY <1>6, <1>7, <1>8, <1>9 DEF News, LastIsOf, s

\* An emptying by loss of the focus decides nothing.
LEMMA EmptyingTells ==
  ASSUME NEW q \in Seq(ContextSignals), NEW news, NEW m, NEW d, NEW a \in BOOLEAN,
         News(q, news, m, d, a, FALSE)
  PROVE  News(q \o <<U!Register(U!NoMenu)>>, news, m, d, FALSE, FALSE)
<1> DEFINE s == U!Register(U!NoMenu)
<1>1. s \in Registrations /\ s \notin Decisive BY SignalsCarry, MenusAre
<1> HIDE DEF s
<1>2. s \in Said /\ s \notin Updates /\ <<s>> \in Seq(ContextSignals)
  <2>1. s \in Said /\ s \notin Updates /\ s \in ContextSignals BY <1>1, SignalsCarry
  <2> QED BY <2>1
<1>3. NoneOf(<<s>>, Decisive) BY <1>1, OneSignal
<1>4. \A S, V : /\ LastOf(q, S, V) /\ NoneOf(<<s>>, S) => LastOf(q \o <<s>>, S, V)
                /\ NoneOf(q, S) /\ NoneOf(<<s>>, S) => NoneOf(q \o <<s>>, S)
  BY <1>2, QueuesInARow
<1>5. LastOf(q \o <<s>>, Said, {x \in Said : x \in Updates => x.menu.owner = d.engine})
  <2>1. s \in {x \in Said : x \in Updates => x.menu.owner = d.engine} BY <1>2
  <2>2. LastOf(<<s>>, Said, {x \in Said : x \in Updates => x.menu.owner = d.engine}) BY <2>1, OneSignal
  <2> QED BY <1>2, <2>2, QueuesInARow
<1> QED BY <1>3, <1>4, <1>5 DEF News, OwnerComes, LastIsOf, s

\* The registration that comes last, of those that decide and maybe others, is
\* the engine's or empty.
LEMMA LastNames ==
  ASSUME NEW q \in Seq(ContextSignals), NEW news, NEW m, NEW e, OwnerComes(q, news, m, e),
         NEW S, Decisive \subseteq S, NEW i \in DOMAIN q, q[i] \in Registrations,
         \A j \in DOMAIN q : j > i => q[j] \notin S
  PROVE  q[i].menu.owner \in {"none", e}
<1> DEFINE W == {s \in Decisive : s.menu.owner \in {"none", e}}
<1>1. CASE q[i].menu = U!NoMenu BY <1>1, MenusAre
<1>2. CASE q[i].menu # U!NoMenu
  <2>1. q[i] \in Decisive BY <1>2 DEF Decisive
  <2>2. LastOf(q, Decisive, {q[i]}) BY <2>1 DEF LastOf
  <2>3. ~NoneOf(q, Decisive) BY <2>1 DEF NoneOf
  <2>4. LastOf(q, Decisive, W) BY <2>3 DEF OwnerComes
  <2>5. {q[i]} \subseteq Decisive /\ W \subseteq Decisive BY <2>1
  <2> HIDE DEF W
  <2>6. LastOf(q, Decisive, {q[i]} \cap W) BY <2>2, <2>4, <2>5, LastTwice
  <2>7. q[i] \in W BY <2>6 DEF LastOf
  <2> QED BY <2>7 DEF W
<1> QED BY <1>1, <1>2

\* Who gains the focus of an engine without a menu is told nothing, and need not
\* be.
LEMMA NoneToTell ==
  ASSUME NEW q \in Seq(ContextSignals), NEW news, NEW m \in U!Menus, NEW d \in Daemons,
         NEW down \in BOOLEAN, d.engine \notin Registers, News(q, news, m, d, FALSE, down)
  PROVE  News(q, news, m, d, TRUE, down)
<1> SUFFICES ASSUME NoneOf(news, Untold) PROVE MenuComes(q, m, U!MenuOf(d)) BY DEF News
<1>1. U!MenuOf(d) = U!NoMenu /\ U!NoMenu.owner = "none" BY MenuOfIs, MenusAre
<1>2. OwnerComes(q, news, m, d.engine) /\ LastIsOf(q, d.engine) BY DEF News
<1>3. \A n \in U!Menus : n.owner \in {"none", d.engine} => n = U!NoMenu BY MenusAre
<1>4. NoneOf(q, Decisive) => m = U!NoMenu
  <2>1. ASSUME NoneOf(q, Decisive) PROVE m.owner \in {"none", d.engine}
    <3>1. \A V : V \subseteq Decisive => ~LastOf(q, Decisive, V) BY <2>1, LastIsThere
    <3>2. {s \in Decisive : s.menu.owner \in {"none", d.engine}} \subseteq Decisive OBVIOUS
    <3> QED BY <1>2, <3>1, <3>2 DEF OwnerComes
  <2> QED BY <1>3, <2>1
<1>5. \/ LastOf(q, Said, {s \in Said : s.menu = U!MenuOf(d)})
      \/ NoneOf(q, Said) /\ m = U!MenuOf(d)
  <2>1. CASE NoneOf(q, Said)
    <3>1. NoneOf(q, Decisive) BY <2>1, SignalsCarry DEF NoneOf
    <3> QED BY <1>1, <1>4, <2>1, <3>1
  <2>2. CASE ~NoneOf(q, Said)
    <3>1. LastOf(q, Said, {s \in Said : s \in Updates => s.menu.owner = d.engine}) BY <1>2, <2>2 DEF LastIsOf
    <3>2. PICK i \in DOMAIN q : /\ q[i] \in Said /\ (q[i] \in Updates => q[i].menu.owner = d.engine)
                                /\ \A j \in DOMAIN q : j > i => q[j] \notin Said
      BY <3>1 DEF LastOf
    <3>3. q[i].menu \in U!Menus BY <3>2, SignalsCarry DEF Said
    <3>4. q[i] \notin Updates
      <4>1. ASSUME q[i] \in Updates PROVE FALSE
        <5>1. q[i].menu # U!NoMenu BY <4>1, SignalsCarry
        <5> QED BY <1>3, <3>2, <3>3, <4>1, <5>1
      <4> QED BY <4>1
    <3>5. q[i] \in Registrations BY <3>2, <3>4 DEF Said
    <3>6. Decisive \subseteq Said BY SignalsCarry
    <3>7. q[i].menu.owner \in {"none", d.engine} BY <1>2, <3>2, <3>5, <3>6, LastNames
    <3>8. q[i] \in {s \in Said : s.menu = U!MenuOf(d)} BY <1>1, <1>3, <3>2, <3>3, <3>7
    <3> QED BY <3>2, <3>8 DEF LastOf
  <2> QED BY <2>1, <2>2
<1>6. \/ LastOf(q, Registrations, {s \in Registrations : s.menu.owner = U!MenuOf(d).owner})
      \/ NoneOf(q, Registrations) /\ m.owner = U!MenuOf(d).owner
  <2>1. CASE NoneOf(q, Registrations)
    <3>1. NoneOf(q, Decisive) BY <2>1, SignalsCarry DEF NoneOf
    <3> QED BY <1>1, <1>4, <2>1, <3>1
  <2>2. CASE ~NoneOf(q, Registrations)
    <3>1. LastOf(q, Registrations, Registrations) BY <2>2, LastOrNone
    <3>2. PICK i \in DOMAIN q : q[i] \in Registrations /\ \A j \in DOMAIN q : j > i => q[j] \notin Registrations
      BY <3>1 DEF LastOf
    <3>3. q[i].menu \in U!Menus /\ Decisive \subseteq Registrations BY <3>2, SignalsCarry
    <3>4. q[i].menu.owner \in {"none", d.engine} BY <1>2, <3>2, <3>3, LastNames
    <3>5. q[i] \in {s \in Registrations : s.menu.owner = U!MenuOf(d).owner} BY <1>1, <1>3, <3>2, <3>3, <3>4
    <3> QED BY <3>2, <3>5 DEF LastOf
  <2> QED BY <2>1, <2>2
<1> QED BY <1>5, <1>6 DEF MenuComes

\* What is not said is not missed.
LEMMA ReadNothing ==
  ASSUME NEW q \in Seq(ContextSignals), q # <<>>, Head(q) \notin Said, NEW news, NEW m, NEW d,
         NEW a \in BOOLEAN, NEW down \in BOOLEAN, News(q, news, m, d, a, down)
  PROVE  News(Tail(q), news, m, d, a, down)
<1> DEFINE s == Head(q)
           r == Tail(q)
<1>1. /\ \A S : NoneOf(q, S) <=> NoneOf(r, S) /\ s \notin S
      /\ \A S, V : LastOf(q, S, V) => LastOf(r, S, V) \/ (NoneOf(r, S) /\ s \in V)
  BY TakeSignal
<1>2. s \notin Decisive /\ s \notin Registrations /\ s \notin Updates /\ s \notin Said BY SignalsCarry
<1> HIDE DEF s, r
<1>3. OwnerComes(r, news, m, d.engine)
  <2>1. s \notin {x \in Decisive : x.menu.owner \in {"none", d.engine}} BY <1>2
  <2> QED BY <1>1, <2>1 DEF News, OwnerComes
<1>4. LastIsOf(r, d.engine)
  <2>1. s \notin {x \in Said : x \in Updates => x.menu.owner = d.engine} BY <1>2
  <2> QED BY <1>1, <2>1 DEF News, LastIsOf
<1>5. a /\ NoneOf(news, Untold) => MenuComes(r, m, U!MenuOf(d))
  <2>1. s \notin {x \in Said : x.menu = U!MenuOf(d)} BY <1>2
  <2>2. s \notin {x \in Registrations : x.menu.owner = U!MenuOf(d).owner} BY <1>2
  <2> QED BY <1>1, <2>1, <2>2 DEF News, MenuComes
<1>6. down => m = U!NoMenu /\ NoneOf(r, Said) BY <1>1 DEF News
<1> QED BY <1>3, <1>4, <1>5, <1>6 DEF News, r

\* An emptying that decides nothing is passed over where no field is active.
LEMMA ReadEmptying ==
  ASSUME NEW q \in Seq(ContextSignals), q # <<>>, Head(q) \in Registrations, Head(q) \notin Decisive,
         NEW news, NEW m, NEW d, NEW a \in BOOLEAN, NEW down \in BOOLEAN, News(q, news, m, d, a, down)
  PROVE  News(Tail(q), news, m, d, FALSE, down)
<1> DEFINE s == Head(q)
           r == Tail(q)
<1>1. /\ \A S : NoneOf(q, S) <=> NoneOf(r, S) /\ s \notin S
      /\ \A S, V : LastOf(q, S, V) => LastOf(r, S, V) \/ (NoneOf(r, S) /\ s \in V)
  BY TakeSignal
<1>2. s \notin Decisive OBVIOUS
<1> HIDE DEF s, r
<1>3. OwnerComes(r, news, m, d.engine)
  <2>1. s \notin {x \in Decisive : x.menu.owner \in {"none", d.engine}} BY <1>2
  <2> QED BY <1>1, <2>1 DEF News, OwnerComes
<1>4. LastIsOf(r, d.engine) BY <1>1 DEF News, LastIsOf
<1>5. down => m = U!NoMenu /\ NoneOf(r, Said) BY <1>1 DEF News
<1> QED BY <1>3, <1>4, <1>5 DEF News, r

\* Any other registration is the menu from then on.
LEMMA ReadRegistration ==
  ASSUME NEW q \in Seq(ContextSignals), q # <<>>, Head(q) \in Registrations,
         NEW news, NEW m, NEW d, NEW a \in BOOLEAN, NEW down \in BOOLEAN, News(q, news, m, d, a, down)
  PROVE  News(Tail(q), news, Head(q).menu, d, a, down)
<1> DEFINE s == Head(q)
           r == Tail(q)
<1>1. /\ \A S : NoneOf(q, S) <=> NoneOf(r, S) /\ s \notin S
      /\ \A S, V : LastOf(q, S, V) => LastOf(r, S, V) \/ (NoneOf(r, S) /\ s \in V)
  BY TakeSignal
<1>2. s \in Registrations /\ s \in Said /\ s \notin Updates BY SignalsCarry
<1> HIDE DEF s, r
<1>3. ~down BY <1>1, <1>2 DEF News
<1>4. OwnerComes(r, news, s.menu, d.engine)
  <2>1. CASE s \in Decisive
    <3>1. s \in {x \in Decisive : x.menu.owner \in {"none", d.engine}} => s.menu.owner \in {"none", d.engine}
      OBVIOUS
    <3>2. ~NoneOf(q, Decisive) BY <1>1, <2>1
    <3> QED BY <1>1, <3>1, <3>2 DEF News, OwnerComes
  <2>2. CASE s \notin Decisive
    <3>1. s.menu = U!NoMenu BY <1>2, <2>2 DEF Decisive
    <3>2. s.menu.owner = "none" BY <3>1, MenusAre
    <3>3. s \notin {x \in Decisive : x.menu.owner \in {"none", d.engine}} BY <2>2
    <3> QED BY <1>1, <3>2, <3>3 DEF News, OwnerComes
  <2> QED BY <2>1, <2>2
<1>5. LastIsOf(r, d.engine) BY <1>1 DEF News, LastIsOf
<1>6. a /\ NoneOf(news, Untold) => MenuComes(r, s.menu, U!MenuOf(d))
  <2>1. s \in {x \in Said : x.menu = U!MenuOf(d)} => s.menu = U!MenuOf(d) OBVIOUS
  <2>2. s \in {x \in Registrations : x.menu.owner = U!MenuOf(d).owner} => s.menu.owner = U!MenuOf(d).owner
    OBVIOUS
  <2> QED BY <1>1, <1>2, <2>1, <2>2 DEF News, MenuComes
<1> QED BY <1>3, <1>4, <1>5, <1>6 DEF News, r, s

\* An update is of an entry the menu has, or is dropped.
LEMMA ReadUpdate ==
  ASSUME NEW q \in Seq(ContextSignals), q # <<>>, Head(q) \in Updates, NEW news, NEW m, NEW n, NEW d,
         NEW a \in BOOLEAN, NEW down \in BOOLEAN, News(q, news, m, d, a, down),
         n = IF m.owner = Head(q).menu.owner THEN Head(q).menu ELSE m
  PROVE  News(Tail(q), news, n, d, a, down)
<1> DEFINE s == Head(q)
           r == Tail(q)
<1>1. /\ \A S : NoneOf(q, S) <=> NoneOf(r, S) /\ s \notin S
      /\ \A S, V : LastOf(q, S, V) => LastOf(r, S, V) \/ (NoneOf(r, S) /\ s \in V)
  BY TakeSignal
<1>2. s \in Said /\ s \notin Registrations /\ s \notin Decisive /\ Registrations \subseteq Said BY SignalsCarry
<1>3. n = IF m.owner = s.menu.owner THEN s.menu ELSE m OBVIOUS
<1>4. n.owner = m.owner BY <1>3
<1> HIDE DEF s, r
<1>5. ~down BY <1>1, <1>2 DEF News
<1>6. OwnerComes(r, news, n, d.engine)
  <2>1. s \notin {x \in Decisive : x.menu.owner \in {"none", d.engine}} BY <1>2
  <2> QED BY <1>1, <1>4, <2>1 DEF News, OwnerComes
<1>7. LastIsOf(r, d.engine) BY <1>1 DEF News, LastIsOf
<1>8. ASSUME a, NoneOf(news, Untold) PROVE MenuComes(r, n, U!MenuOf(d))
  <2> DEFINE v == U!MenuOf(d)
             own == {x \in Registrations : x.menu.owner = v.owner}
  <2>1. MenuComes(q, m, v) BY <1>8 DEF News
  <2>2. s \notin own BY <1>2
  <2>3. s \in {x \in Said : x.menu = v} => s.menu = v OBVIOUS
  <2> HIDE DEF v
  <2>4. LastOf(r, Registrations, own) \/ (NoneOf(r, Registrations) /\ n.owner = v.owner)
    BY <1>1, <1>4, <2>1, <2>2 DEF MenuComes
  <2>5. LastOf(r, Said, {x \in Said : x.menu = v}) \/ (NoneOf(r, Said) /\ n = v)
    <3>1. LastOf(r, Said, {x \in Said : x.menu = v}) \/ (NoneOf(r, Said) /\ s.menu = v)
      BY <1>1, <1>2, <2>1, <2>3 DEF MenuComes
    <3>2. ASSUME NoneOf(r, Said), s.menu = v PROVE n = v
      <4>1. NoneOf(r, Registrations) BY <1>2, <3>2 DEF NoneOf
      <4>2. ~LastOf(r, Registrations, own) BY <4>1, LastIsThere
      <4>3. m.owner = v.owner BY <1>4, <2>4, <4>2
      <4> QED BY <1>3, <3>2, <4>3
    <3> QED BY <3>1, <3>2
  <2> QED BY <2>4, <2>5 DEF MenuComes, v
<1> QED BY <1>5, <1>6, <1>7, <1>8 DEF News, r

\* Whether the daemon is told to switch, or the frontend hears of it from the panel.
LEMMA SwitchNews ==
  ASSUME LinkTypes, SwitchTypes, LinkInv, MenuTypes, MenuInv,
         NEW e \in U!Engines, NEW left \in Seq(PanelSignals), U!SwitchTo(e, left),
         NoneOf(left, Untold) <=> NoneOf(panelOut, Untold), ~unheard'
  PROVE  News(ctxOut', panelOut', menu, daemon', Hears, Down)
<1> DEFINE d == [daemon EXCEPT !.engine = e]
           told == attached /\ ctx = "live"
<1>b. Hears \in BOOLEAN /\ Down \in BOOLEAN BY DEF LinkTypes, Hears, Down
<1>d. daemon \in Daemons /\ d \in Daemons /\ d.engine = e BY DEF LinkTypes, Daemons
<1>1. CASE daemon.up /\ e # daemon.engine /\ told
  <2>1. daemon' = d /\ ctxOut' = U!Told(<<U!Unset>> \o U!Registration(d)) BY <1>1 DEF U!SwitchTo
  <2>2. ctxOut' = ctxOut \o (<<U!Unset>> \o U!Registration(d)) BY <1>1, <2>1 DEF U!Told
  <2>3. Hears = TRUE /\ Down = FALSE
    <3>1. Hears /\ ~Down BY <1>1 DEF Hears, Down, MenuInv, MenuShown, LinkTypes
    <3> QED BY <1>b, <3>1
  <2>4. ctxOut \in Seq(ContextSignals) /\ <<U!Unset>> \in Seq(ContextSignals) /\ U!Unset \in Registrations
    <3>1. U!Unset \in ContextSignals /\ U!Unset \in Registrations BY SignalsCarry
    <3>2. <<U!Unset>> \in Seq(ContextSignals) BY <3>1
    <3> QED BY <3>1, <3>2 DEF LinkTypes
  <2> HIDE DEF d
  <2>5. CASE e \in Registers
    <3> DEFINE s == U!Register(U!MenuOf(d))
    <3>1. U!Registration(d) = <<s>> BY <1>d, <2>5, RegistrationIs
    <3>2. U!MenuOf(d) \in U!Menus \ {U!NoMenu} BY <1>d, <2>5, MenuOfIs
    <3>3. s \in Registrations /\ s \in Decisive /\ s.menu = U!MenuOf(d) /\ s \in ContextSignals
      BY <3>2, SignalsCarry
    <3> HIDE DEF s
    <3>4. <<s>> \in Seq(ContextSignals) BY <3>3
    <3>5. ctxOut' = (ctxOut \o <<U!Unset>>) \o <<s>> BY <2>2, <2>4, <3>1, <3>4, ConcatAssociative
    <3>6. ctxOut \o <<U!Unset>> \in Seq(ContextSignals) BY <2>4, QueuesInARow
    <3>7. News((ctxOut \o <<U!Unset>>) \o <<s>>, panelOut', menu, d, TRUE, FALSE)
      BY <1>d, <3>3, <3>6, RegistrationTells
    <3> QED BY <2>1, <2>3, <3>5, <3>7
  <2>6. CASE e \notin Registers
    <3>1. U!Registration(d) = <<>> /\ U!MenuOf(d) = U!NoMenu BY <1>d, <2>6, RegistrationIs, MenuOfIs
    <3>2. ctxOut' = ctxOut \o <<U!Unset>> BY <2>2, <2>4, <3>1, ConcatEmptySeq
    <3>3. U!Unset.menu = U!MenuOf(d) /\ U!Unset \in Decisive BY <3>1, SignalsCarry
    <3>4. News(ctxOut \o <<U!Unset>>, panelOut', menu, d, TRUE, FALSE)
      BY <1>d, <2>4, <3>3, RegistrationTells
    <3> QED BY <2>1, <2>3, <3>2, <3>4
  <2> QED BY <2>5, <2>6
<1>2. CASE daemon.up /\ e # daemon.engine /\ ~told
  <2>1. /\ daemon' = d /\ ctxOut' = ctxOut
        /\ panelOut' = left \o U!Announced(<<U!Changed(e, told)>>)
        /\ unheard' = (~told /\ (unheard \/ ~U!Subscribed \/ ctxOut # <<>>))
    BY <1>2 DEF U!SwitchTo
  <2>2. ~unheard /\ U!Subscribed /\ ctxOut = <<>> BY <1>2, <2>1
  <2>3. told = FALSE BY <1>2 DEF LinkTypes
  <2>4. panelOut' = left \o <<U!Changed(e, FALSE)>> BY <2>1, <2>2, <2>3 DEF U!Announced
  <2>5. ~NoneOf(panelOut', Untold)
    <3> DEFINE s == U!Changed(e, FALSE)
    <3>1. s \in Untold BY DEF Untold
    <3>2. s \in PanelSignals BY ChangedTyped
    <3> HIDE DEF s
    <3>3. <<s>> \in Seq(PanelSignals) BY <3>2
    <3>4. LastOf(<<s>>, Untold, Untold) BY <3>1, OneSignal
    <3>5. LastOf(panelOut', Untold, Untold) BY <2>4, <3>3, <3>4, QueuesInARow DEF s
    <3> QED BY <3>5, LastIsThere
  <2>6. Hears = FALSE BY <2>3 DEF Hears
  <2>7. NoneOf(<<>>, Decisive) /\ NoneOf(<<>>, Said) BY EmptyQueue
  <2>8. Down => menu = U!NoMenu BY <2>2 DEF MenuInv, News
  <2> QED BY <2>1, <2>2, <2>5, <2>6, <2>7, <2>8 DEF News, OwnerComes, LastIsOf
<1>3. CASE ~(daemon.up /\ e # daemon.engine)
  <2>1. panelOut' = left /\ UNCHANGED <<daemon, ctxOut, unheard>> BY <1>3 DEF U!SwitchTo
  <2>2. News(ctxOut, panelOut, menu, daemon, Hears, Down) BY <2>1 DEF MenuInv
  <2> QED BY <1>b, <2>1, <2>2, OtherNews
<1> QED BY <1>1, <1>2, <1>3

LEMMA SetNews ==
  ASSUME LinkTypes, SwitchTypes, LinkInv, MenuTypes, MenuInv,
         NEW e \in U!Engines, NEW left \in Seq(PanelSignals), U!SetEngine(e, left),
         NoneOf(left, Untold) <=> NoneOf(panelOut, Untold), ~unheard'
  PROVE  News(ctxOut', panelOut', menu, daemon', Hears, Down)
<1>1. CASE panel \in {"live", "deaf"} BY <1>1, SwitchNews DEF U!SetEngine
<1>2. CASE panel \notin {"live", "deaf"}
  <2>1. panelOut' = left /\ UNCHANGED <<daemon, ctxOut, unheard>> BY <1>2 DEF U!SetEngine
  <2>2. News(ctxOut, panelOut, menu, daemon, Hears, Down) BY <2>1 DEF MenuInv
  <2>3. Hears \in BOOLEAN /\ Down \in BOOLEAN BY DEF LinkTypes, Hears, Down
  <2> QED BY <2>1, <2>2, <2>3, OtherNews
<1> QED BY <1>1, <1>2

\* A choice that has reached its engine.
LEMMA ActivationTells ==
  ASSUME LinkTypes, NEW o, NEW q \in Seq(ContextSignals), NEW a \in BOOLEAN,
         News(q, panelOut, menu, daemon, a, FALSE)
  PROVE  News(q \o U!Activation(o), panelOut, menu, U!Activated(o), a, FALSE)
<1>1. CASE U!Activated(o) = daemon /\ U!Activation(o) = <<>> BY <1>1, ConcatEmptySeq
<1>2. CASE daemon.engine \in Registers /\ U!Activation(o) = <<U!Update(U!MenuOf(U!Activated(o)))>>
  <2>1. daemon \in Daemons /\ U!Activated(o) \in Daemons /\ U!Activated(o).engine = daemon.engine
    BY DaemonTyped, ActivationIs
  <2>2. News(q \o <<U!Update(U!MenuOf(U!Activated(o)))>>, panelOut, menu, U!Activated(o), a, FALSE)
    BY <1>2, <2>1, UpdateTells
  <2> QED BY <1>2, <2>2
<1> QED BY <1>1, <1>2, ActivationIs

LEMMA HearsNoMore ==
  ASSUME MenuInv, ~unheard, NEW e, e.engine = daemon.engine
  PROVE  News(ctxOut, panelOut, menu, e, FALSE, Down)
  BY DEF MenuInv, News

\* A context that gains the focus is told what it has missed.
LEMMA AttachNews ==
  ASSUME LinkTypes, LinkInv, MenuTypes, MenuInv, ~attached, panel # "broken", U!Attach, ~unheard'
  PROVE  News(ctxOut', panelOut, menu, daemon', Hears', Down)
<1>b. Hears = FALSE /\ Hears' \in BOOLEAN /\ Down \in BOOLEAN
  <2>1. attached = FALSE BY DEF LinkTypes
  <2>2. attached' \in BOOLEAN BY AttachLinks DEF LinkTypes
  <2> QED BY <2>1, <2>2 DEF Hears, Down, LinkTypes
<1>q. ctxOut \in Seq(ContextSignals) /\ daemon \in Daemons BY DaemonTyped DEF LinkTypes
<1>1. CASE ctx \in {"live", "deaf"} \/ U!Connects
  <2>1. /\ ctx' = U!Created.ctx /\ attached' = TRUE
        /\ unheard' = (unheard /\ (U!FocusedIn = <<>> \/ ctx = "deaf"))
        /\ daemon' = U!Activated(held)
        /\ ctxOut' = ctxOut \o (IF ctx = "deaf" THEN <<>> ELSE U!FocusedIn \o U!Activation(held))
    BY <1>1 DEF U!Attach
  <2>2. daemon' \in Daemons /\ daemon'.engine = daemon.engine BY <2>1, ActivationIs
  <2>3. Down = FALSE
    <3>1. daemon.up BY <1>1 DEF LinkInv, U!Connects
    <3> QED BY <3>1, <1>b DEF Down
  <2>4. CASE ctx = "deaf"
    <3>1. ctxOut' = ctxOut /\ ctx' = "deaf" BY <2>1, <2>4, <1>q, ConcatEmptySeq DEF U!Created, U!Connects, U!Attempts
    <3>2. Hears' = FALSE BY <3>1 DEF Hears
    <3>4. News(ctxOut, panelOut, menu, daemon', FALSE, Down) BY <2>1, <2>2, <2>4, HearsNoMore
    <3> QED BY <3>1, <3>2, <3>4
  <2>5. CASE ctx # "deaf"
    <3>1. ctxOut' = ctxOut \o (U!FocusedIn \o U!Activation(held)) BY <2>1, <2>5
    <3>2. U!FocusedIn = U!Registration(daemon) BY DEF U!FocusedIn
    <3>3. Hears' = TRUE
      <4>1. ctx' = "live" BY <1>1, <2>1, <2>5 DEF U!Created, U!Connects, U!Attempts
      <4> QED BY <1>b, <2>1, <4>1 DEF Hears
    <3>4. U!Activation(held) \in Seq(ContextSignals) /\ U!Registration(daemon) \in Seq(ContextSignals)
      BY <1>q, ActivationIs, RegistrationIs
    <3>5. ctxOut' = (ctxOut \o U!Registration(daemon)) \o U!Activation(held)
      BY <1>q, <3>1, <3>2, <3>4, ConcatAssociative
    <3>6. ctxOut \o U!Registration(daemon) \in Seq(ContextSignals) BY <1>q, <3>4, QueuesInARow
    <3>7. News(ctxOut \o U!Registration(daemon), panelOut, menu, daemon, TRUE, FALSE)
      <4>1. CASE daemon.engine \in Registers
        <5> DEFINE s == U!Register(U!MenuOf(daemon))
        <5>1. U!Registration(daemon) = <<s>> BY <1>q, <4>1, RegistrationIs
        <5>2. U!MenuOf(daemon) \in U!Menus \ {U!NoMenu} BY <1>q, <4>1, MenuOfIs
        <5>3. s \in Registrations /\ s \in Decisive /\ s.menu = U!MenuOf(daemon) BY <5>2, SignalsCarry
        <5> HIDE DEF s
        <5>4. News(ctxOut \o <<s>>, panelOut, menu, daemon, TRUE, FALSE) BY <1>q, <5>3, RegistrationTells
        <5> QED BY <5>1, <5>4
      <4>2. CASE daemon.engine \notin Registers
        <5>1. U!Registration(daemon) = <<>> BY <1>q, <4>2, RegistrationIs
        <5>2. ~unheard BY <2>1, <3>2, <5>1
        <5>3. News(ctxOut, panelOut, menu, daemon, FALSE, FALSE) BY <1>b, <2>3, <5>2 DEF MenuInv
        <5>4. menu \in U!Menus BY DEF MenuTypes
        <5>5. News(ctxOut, panelOut, menu, daemon, TRUE, FALSE) BY <1>q, <4>2, <5>3, <5>4, NoneToTell
        <5> QED BY <1>q, <5>1, <5>5, ConcatEmptySeq
      <4> QED BY <4>1, <4>2
    <3>8. News((ctxOut \o U!Registration(daemon)) \o U!Activation(held), panelOut, menu, U!Activated(held), TRUE, FALSE)
      BY <3>6, <3>7, ActivationTells
    <3> QED BY <2>1, <2>3, <3>3, <3>5, <3>8
  <2> QED BY <2>4, <2>5
<1>2. CASE ~(ctx \in {"live", "deaf"} \/ U!Connects)
  <2>1. /\ IF ctx = "dead" THEN U!CallFails ELSE UNCHANGED attached
        /\ UNCHANGED <<daemon, ctxOut, unheard>>
    BY <1>2 DEF U!Attach
  <2>2. ~attached' BY <2>1 DEF U!CallFails, U!LinkLost, U!Destroyed
  <2>3. Hears' = FALSE BY <1>b, <2>2 DEF Hears
  <2>4. News(ctxOut, panelOut, menu, daemon, Hears, Down) BY <2>1 DEF MenuInv
  <2> QED BY <1>b, <2>1, <2>3, <2>4
<1> QED BY <1>1, <1>2

\* One that loses it, or is lost, is owed nothing more.
LEMMA DetachNews ==
  ASSUME LinkTypes, LinkInv, MenuTypes, MenuInv, U!Detach, ~unheard'
  PROVE  News(ctxOut', panelOut, menu, daemon', Hears', Down)
<1>1. /\ attached' = FALSE /\ daemon' = daemon /\ unheard' = unheard
      /\ ctxOut' = ctxOut \/ (attached /\ ctxOut' = ctxOut \o <<U!Register(U!NoMenu)>>)
  BY DetachLinks
<1>2. Hears' = FALSE BY <1>1 DEF Hears
<1>3. Hears \in BOOLEAN /\ Down \in BOOLEAN BY DEF LinkTypes, Hears, Down
<1>4. News(ctxOut, panelOut, menu, daemon, Hears, Down) BY <1>1 DEF MenuInv
<1>5. CASE ctxOut' = ctxOut
  <2>1. News(ctxOut, panelOut, menu, daemon, FALSE, Down) BY <1>1, HearsNoMore
  <2> QED BY <1>1, <1>2, <1>5, <2>1
<1>6. CASE attached /\ ctxOut' = ctxOut \o <<U!Register(U!NoMenu)>>
  <2>1. ~Down BY <1>6 DEF Down, LinkInv, MenuInv, MenuShown
  <2>2. Down = FALSE BY <1>3, <2>1
  <2>3. ctxOut \in Seq(ContextSignals) BY DEF LinkTypes
  <2>4. News(ctxOut \o <<U!Register(U!NoMenu)>>, panelOut, menu, daemon, FALSE, FALSE)
    BY <1>3, <1>4, <2>2, <2>3, EmptyingTells
  <2> QED BY <1>1, <1>2, <1>6, <2>2, <2>4
<1> QED BY <1>1, <1>5, <1>6

\* It is enough that nobody is found gone who was there.
LEMMA MenuFollows ==
  ASSUME MenuShown', Down' => Down,
         ~unheard' => News(ctxOut', panelOut', menu', daemon', Hears', Down)
  PROVE  MenuInv'
<1>1. ~unheard' => News(ctxOut', panelOut', menu', daemon', Hears', Down') BY DEF News
<1> QED BY <1>1 DEF MenuInv

LEMMA MenuStands ==
  ASSUME MenuInv, UNCHANGED <<ctxOut, panelOut, daemon, attached, ctx, unheard, menu>>,
         MenuShown', Down' => Down
  PROVE  MenuInv'
<1>1. Hears' = Hears BY DEF Hears
<1>2. ~unheard' => News(ctxOut', panelOut', menu', daemon', Hears', Down) BY <1>1 DEF MenuInv
<1> QED BY <1>2, MenuFollows

LEMMA DownIs ==
  ASSUME daemon'.up = daemon.up, panel' = "broken" => panel = "broken"
  PROVE  Down' => Down
  BY DEF Down

\* What has nothing to do with the menu shows the same.
LEMMA ShownStands ==
  ASSUME MenuShown, UNCHANGED <<menu, settling>>, shown'.menu = shown.menu, shown'.glyph = shown.glyph,
         panel' = "broken" => panel = "broken" /\ ~attached'
  PROVE  MenuShown'
  BY DEF MenuShown

LEMMA HearsTyped == ASSUME LinkTypes PROVE Hears \in BOOLEAN /\ Down \in BOOLEAN
  BY DEF LinkTypes, Hears, Down

\* What tells nothing, of the panel's, owes nothing.
LEMMA PanelNews ==
  ASSUME LinkTypes, MenuInv, ~unheard, NEW other, NoneOf(panelOut, Untold) <=> NoneOf(other, Untold)
  PROVE  News(ctxOut, other, menu, daemon, Hears, Down)
<1>1. News(ctxOut, panelOut, menu, daemon, Hears, Down) BY DEF MenuInv
<1> QED BY <1>1, HearsTyped, OtherNews

LEMMA EndsSayNothing ==
  ASSUME NEW n \in Nat
  PROVE  U!Ends(n) \in Seq(ContextSignals) /\ NoneOf(U!Ends(n), Said)
<1>1. U!Ends(n) = [i \in 1..n |-> U!Lost] BY DEF U!Ends
<1>2. U!Lost \in ContextSignals /\ U!Lost \notin Said BY SignalsCarry DEF ContextSignals
<1>3. [i \in 1..n |-> U!Lost] \in Seq(ContextSignals) BY <1>2, IsASeq
<1>4. \A i \in DOMAIN U!Ends(n) : U!Ends(n)[i] = U!Lost BY <1>1
<1> QED BY <1>1, <1>2, <1>3, <1>4 DEF NoneOf

LEMMA DaemonStepMenus ==
  ASSUME UpstreamTypes, LinkInv, PanelInv, MenuInv,
         U!ModeToggles \/ U!DaemonSignals \/ U!DaemonDies \/ U!DaemonStarts \/ U!SignalGarbled \/ U!PanelSignalGarbled
  PROVE  MenuInv'
<1>0. LinkTypes /\ SwitchTypes /\ MenuTypes /\ MenuShown BY DEF UpstreamTypes, MenuInv
<1>q. ctxOut \in Seq(ContextSignals) /\ panelOut \in Seq(PanelSignals) BY <1>0 DEF LinkTypes, SwitchTypes
<1>1. CASE U!ModeToggles
  <2>1. /\ attached /\ daemon.engine \in Registers
        /\ daemon' = U!Toggled(daemon) /\ ctxOut' = U!Told(<<U!Update(U!MenuOf(daemon'))>>)
        /\ UNCHANGED <<attached, ctx, menu, settling, shown, unheard, panel, panelOut>>
    BY <1>1 DEF U!ModeToggles, U!menuVars, U!switchVars
  <2>2. daemon \in Daemons /\ daemon' \in Daemons /\ daemon'.up = daemon.up /\ daemon'.engine = daemon.engine
    BY <1>0, <2>1, DaemonTyped, ToggledIs
  <2>3. MenuShown' BY <1>0, <2>1 DEF MenuShown
  <2>4. Down' => Down BY <2>1, <2>2, DownIs
  <2>5. Hears' = Hears BY <2>1 DEF Hears
  <2>6. Down = FALSE
    <3>1. ~Down BY <1>0, <2>1 DEF Down, LinkInv, MenuShown
    <3> QED BY <1>0, <3>1, HearsTyped
  <2>7. ASSUME ~unheard' PROVE News(ctxOut', panelOut', menu', daemon', Hears', Down)
    <3>1. ~unheard BY <2>1, <2>7
    <3>2. CASE ctx = "live"
      <4>1. ctxOut' = ctxOut \o <<U!Update(U!MenuOf(daemon'))>> BY <2>1, <3>2 DEF U!Told
      <4>2. News(ctxOut, panelOut, menu, daemon, Hears, FALSE) BY <2>6, <3>1 DEF MenuInv
      <4>3. Hears \in BOOLEAN BY <1>0, HearsTyped
      <4>4. News(ctxOut \o <<U!Update(U!MenuOf(daemon'))>>, panelOut, menu, daemon', Hears, FALSE)
        <5> HIDE DEF Hears
        <5> QED BY <1>q, <2>1, <2>2, <4>2, <4>3, UpdateTells
      <4> QED BY <2>1, <2>5, <2>6, <4>1, <4>4
    <3>3. CASE ctx # "live"
      <4>1. ctxOut' = ctxOut BY <1>q, <2>1, <3>3, ConcatEmptySeq DEF U!Told
      <4>2. Hears = FALSE BY <1>0, <3>3 DEF Hears
      <4>3. News(ctxOut, panelOut, menu, daemon', FALSE, Down) BY <2>2, <3>1, HearsNoMore
      <4> QED BY <2>1, <2>5, <4>1, <4>2, <4>3
    <3> QED BY <3>2, <3>3
  <2> QED BY <2>3, <2>4, <2>7, MenuFollows
<1>2. CASE U!DaemonSignals
  <2>1. UNCHANGED <<attached, ctx, menu, settling, shown, panel>>
    BY <1>2 DEF U!DaemonSignals, U!switchVars
  <2>2. MenuShown' BY <1>0, <2>1 DEF MenuShown
  <2>3. Hears' = Hears BY <2>1 DEF Hears
  <2>4. CASE \E e \in U!Engines : U!SwitchTo(e, panelOut)
    <3>1. PICK e \in U!Engines : U!SwitchTo(e, panelOut) BY <2>4
    <3>2. daemon'.up = daemon.up BY <1>0, <1>q, <3>1, SwitchTypesKept
    <3>3. ~unheard' => News(ctxOut', panelOut', menu, daemon', Hears, Down) BY <1>0, <1>q, <3>1, SwitchNews
    <3>4. Down' => Down BY <2>1, <3>2, DownIs
    <3> QED BY <2>1, <2>2, <2>3, <3>3, <3>4, MenuFollows
  <2>5. CASE /\ \E more \in {<<U!Shortcut(b, FALSE), U!Shortcut(b, TRUE)>> : b \in BOOLEAN} \cup {<<U!Registry>>} :
                  panelOut' = panelOut \o more
             /\ UNCHANGED <<daemon, ctxOut, unheard>>
    <3>1. PICK more \in {<<U!Shortcut(b, FALSE), U!Shortcut(b, TRUE)>> : b \in BOOLEAN} \cup {<<U!Registry>>} :
            panelOut' = panelOut \o more
      BY <2>5
    <3>2. more \in Seq(PanelSignals) /\ NoneOf(more, Untold)
      <4>1. CASE more = <<U!Registry>>
        <5>1. U!Registry \in PanelSignals /\ U!Registry \notin Untold BY PanelSignalsCarry
        <5>2. <<U!Registry>> \in Seq(PanelSignals) BY <5>1
        <5> QED BY <4>1, <5>1, <5>2, OneSignal
      <4>2. CASE more \in {<<U!Shortcut(b, FALSE), U!Shortcut(b, TRUE)>> : b \in BOOLEAN}
        <5>1. PICK b \in BOOLEAN : more = <<U!Shortcut(b, FALSE), U!Shortcut(b, TRUE)>> BY <4>2
        <5> DEFINE x == U!Shortcut(b, FALSE)
                   y == U!Shortcut(b, TRUE)
        <5>2. x \in PanelSignals /\ y \in PanelSignals /\ x \notin Untold /\ y \notin Untold
          BY PanelSignalsCarry
        <5>3. more = <<x, y>> BY <5>1
        <5> HIDE DEF x, y
        <5>4. DOMAIN <<x, y>> = {1, 2} /\ <<x, y>>[1] = x /\ <<x, y>>[2] = y OBVIOUS
        <5> QED BY <5>2, <5>3, <5>4 DEF NoneOf
      <4> QED BY <3>1, <4>1, <4>2
    <3>3. NoneOf(panelOut, Untold) <=> NoneOf(panelOut', Untold) BY <1>q, <3>1, <3>2, QueuesInARow
    <3>4. ~unheard' => News(ctxOut, panelOut', menu, daemon, Hears, Down) BY <1>0, <2>5, <3>3, PanelNews
    <3>5. Down' => Down BY <2>1, <2>5, DownIs
    <3> QED BY <2>1, <2>2, <2>3, <2>5, <3>4, <3>5, MenuFollows
  <2> QED BY <1>2, <2>4, <2>5 DEF U!DaemonSignals
<1>3. CASE U!DaemonDies
  <2>1. /\ attached' = FALSE /\ ctxOut' = ctxOut \o U!Ends(threads)
        /\ unheard' = (unheard \/ ctx # "none" \/ menu # U!NoMenu \/ ctxOut # <<>>)
        /\ UNCHANGED <<menu, settling, shown>>
    BY <1>3 DEF U!DaemonDies
  <2>2. MenuShown' BY <1>0, <2>1 DEF MenuShown
  <2>3. Hears' = FALSE BY <2>1 DEF Hears
  <2>4. ASSUME ~unheard' PROVE News(ctxOut', panelOut', menu', daemon', Hears', Down')
    <3>1. menu = U!NoMenu /\ ctxOut = <<>> BY <2>1, <2>4
    <3>2. threads \in Nat BY <1>0 DEF LinkTypes
    <3>3. U!Ends(threads) \in Seq(ContextSignals) /\ NoneOf(U!Ends(threads), Said) BY <3>2, EndsSayNothing
    <3>4. ctxOut' = U!Ends(threads) BY <2>1, <3>1, <3>3, ConcatEmptySeq
    <3> QED BY <2>1, <2>3, <3>1, <3>3, <3>4, NothingToHear
  <2> QED BY <2>2, <2>4 DEF MenuInv
<1>4. CASE U!DaemonStarts
  <2>1. ~daemon.up /\ UNCHANGED <<attached, ctx, ctxOut, panel, menu, settling, shown, unheard, panelOut>>
    BY <1>4 DEF U!DaemonStarts, U!linkVars, U!switchVars, U!menuVars
  <2>2. MenuShown' BY <1>0, <2>1 DEF MenuShown
  <2>3. ~attached BY <2>1 DEF LinkInv
  <2>4. attached' = FALSE BY <1>0, <2>1, <2>3 DEF LinkTypes
  <2>5. Hears' = FALSE BY <2>4 DEF Hears
  <2>6. ASSUME ~unheard' PROVE News(ctxOut', panelOut', menu', daemon', Hears', Down')
    <3>1. menu = U!NoMenu /\ NoneOf(ctxOut, Said) BY <2>1, <2>6 DEF MenuInv, News, Down
    <3> QED BY <2>1, <2>5, <3>1, NothingToHear
  <2> QED BY <2>2, <2>6 DEF MenuInv
<1>5. CASE U!SignalGarbled
  <2>1. /\ ctx' = "deaf" /\ ctxOut' = ctxOut \o U!Ends(1)
        /\ UNCHANGED <<daemon, attached, panel, menu, settling, shown, unheard, panelOut>>
    BY <1>5 DEF U!SignalGarbled, U!switchVars, U!menuVars
  <2>2. MenuShown' BY <1>0, <2>1 DEF MenuShown
  <2>3. Hears' = FALSE BY <1>0, <2>1 DEF Hears
  <2>4. Down' => Down BY <2>1, DownIs
  <2>5. ASSUME ~unheard' PROVE News(ctxOut', panelOut', menu', daemon', Hears', Down)
    <3>1. News(ctxOut, panelOut, menu, daemon, FALSE, Down) BY <2>1, <2>5, HearsNoMore
    <3>2. U!Ends(1) \in Seq(ContextSignals) /\ NoneOf(U!Ends(1), Said) BY EndsSayNothing
    <3>3. News(ctxOut \o U!Ends(1), panelOut, menu, daemon, FALSE, Down)
      BY <1>0, <1>q, <3>1, <3>2, HearsTyped, NothingSaid
    <3> QED BY <2>1, <2>3, <3>3
  <2> QED BY <2>2, <2>4, <2>5, MenuFollows
<1>6. CASE U!PanelSignalGarbled
  <2>1. /\ panel = "live" /\ panel' = "deaf" /\ panelOut' = panelOut \o <<U!PanelLost>>
        /\ UNCHANGED <<daemon, attached, ctx, ctxOut, menu, settling, shown, unheard>>
    <3>1. panelOut' = Append(panelOut, U!PanelLost) BY <1>6 DEF U!PanelSignalGarbled, U!PanelEnds
    <3>2. Append(panelOut, U!PanelLost) = panelOut \o <<U!PanelLost>>
      BY <1>q, PanelSignalsCarry, AppendIsConcat
    <3> QED BY <1>6, <3>1, <3>2 DEF U!PanelSignalGarbled, U!linkVars, U!menuVars
  <2>2. <<U!PanelLost>> \in Seq(PanelSignals) /\ NoneOf(<<U!PanelLost>>, Untold)
    <3>1. U!PanelLost \in PanelSignals /\ U!PanelLost \notin Untold BY PanelSignalsCarry
    <3> QED BY <3>1, OneSignal
  <2>3. MenuShown' BY <1>0, <2>1 DEF MenuShown
  <2>4. Hears' = Hears BY <2>1 DEF Hears
  <2>5. Down' => Down BY <2>1, DownIs
  <2>6. NoneOf(panelOut, Untold) <=> NoneOf(panelOut', Untold) BY <1>q, <2>1, <2>2, QueuesInARow
  <2>7. ~unheard' => News(ctxOut, panelOut', menu, daemon, Hears, Down) BY <1>0, <2>1, <2>6, PanelNews
  <2> QED BY <2>1, <2>3, <2>4, <2>5, <2>7, MenuFollows
<1> QED BY <1>1, <1>2, <1>3, <1>4, <1>5, <1>6

\* What is read of the context's signals.
LEMMA ContextStepMenus ==
  ASSUME UpstreamTypes, LinkInv, PanelInv, MenuInv, U!OnContextSignal
  PROVE  MenuInv'
<1> DEFINE s == Head(ctxOut)
<1>0. LinkTypes /\ SwitchTypes /\ MenuTypes /\ MenuShown BY DEF UpstreamTypes, MenuInv
<1>1. /\ ctxOut # <<>> /\ ctxOut' = Tail(ctxOut)
      /\ UNCHANGED <<daemon, shown, field, panel, panelOut>>
      /\ \/ s = U!Lost /\ U!LinkLost /\ UNCHANGED <<menu, settling, unheard>>
         \/ s.name = "RegisterProperties" /\ U!Registered(s) /\ UNCHANGED <<ctx, attached>>
         \/ s.name = "UpdateProperty" /\ U!Updated(s) /\ UNCHANGED <<ctx, attached>>
      /\ panel # "broken"
  BY DEF U!OnContextSignal, U!switchVars, U!Idle
<1>2. ctxOut \in Seq(ContextSignals) BY <1>0 DEF LinkTypes
<1>3. s \in ContextSignals BY <1>1, <1>2, TakeSignal
<1>4. Down' => Down BY <1>1, DownIs
<1>b. Hears \in BOOLEAN /\ Down \in BOOLEAN BY <1>0, HearsTyped
<1>5. CASE s = U!Lost /\ U!LinkLost /\ UNCHANGED <<menu, settling, unheard>>
  <2>1. attached' = FALSE BY <1>5 DEF U!LinkLost, U!Destroyed
  <2>2. Hears' = FALSE BY <2>1 DEF Hears
  <2>3. MenuShown' BY <1>0, <1>1, <1>5, <2>1, ShownStands
  <2>4. ASSUME ~unheard' PROVE News(ctxOut', panelOut', menu', daemon', Hears', Down)
    <3>1. s \notin Said BY <1>5, SignalsCarry
    <3>2. News(ctxOut, panelOut, menu, daemon, FALSE, Down) BY <1>5, <2>4, HearsNoMore
    <3>3. News(Tail(ctxOut), panelOut, menu, daemon, FALSE, Down)
      BY <1>1, <1>2, <1>b, <3>1, <3>2, ReadNothing
    <3> QED BY <1>1, <1>5, <2>2, <3>3
  <2> QED BY <1>4, <2>3, <2>4, MenuFollows
<1>6. CASE s.name = "RegisterProperties" /\ U!Registered(s) /\ UNCHANGED <<ctx, attached>>
  <2>1. s \in Registrations
    <3>1. s \notin Updates /\ s # U!Lost BY <1>6, SignalsCarry
    <3> QED BY <1>3, <3>1 DEF ContextSignals, Said
  <2>2. Hears' = Hears BY <1>6 DEF Hears
  <2>3. CASE s.menu = U!NoMenu /\ field = "none"
    <3>1. UNCHANGED <<menu, settling>> /\ unheard' = (unheard \/ s = U!Unset) BY <1>6, <2>3 DEF U!Registered
    <3>2. MenuShown' BY <1>0, <1>1, <3>1, ShownStands
    <3>3. ~attached BY <2>3 DEF LinkInv
    <3>4. Hears = FALSE BY <1>0, <3>3 DEF Hears, LinkTypes
    <3>5. ASSUME ~unheard' PROVE News(ctxOut', panelOut', menu', daemon', Hears', Down)
      <4>1. s # U!Unset /\ ~unheard BY <3>1, <3>5
      <4>2. s \notin Decisive BY <2>3, <4>1 DEF Decisive
      <4>3. News(ctxOut, panelOut, menu, daemon, FALSE, Down) BY <4>1, HearsNoMore
      <4>4. News(Tail(ctxOut), panelOut, menu, daemon, FALSE, Down)
        BY <1>1, <1>2, <1>b, <2>1, <4>2, <4>3, ReadEmptying
      <4> QED BY <1>1, <2>2, <3>1, <3>4, <4>4
    <3> QED BY <1>4, <3>2, <3>5, MenuFollows
  <2>4. CASE ~(s.menu = U!NoMenu /\ field = "none")
    <3>1. menu' = s.menu /\ settling' = (settling \/ s.menu # menu) /\ unheard' = unheard
      BY <1>6, <2>4 DEF U!Registered
    <3>2. MenuShown'
      <4>1. ~settling' => shown.menu = menu' BY <1>0, <3>1 DEF MenuShown
      <4> QED BY <1>0, <1>1, <4>1 DEF MenuShown
    <3>3. ASSUME ~unheard' PROVE News(ctxOut', panelOut', menu', daemon', Hears', Down)
      <4>1. News(ctxOut, panelOut, menu, daemon, Hears, Down) BY <3>1, <3>3 DEF MenuInv
      <4>2. News(Tail(ctxOut), panelOut, s.menu, daemon, Hears, Down)
        <5> HIDE DEF Hears, Down
        <5> QED BY <1>1, <1>2, <1>b, <2>1, <4>1, ReadRegistration, Zenon
      <4> QED BY <1>1, <2>2, <3>1, <4>2
    <3> QED BY <1>4, <3>2, <3>3, MenuFollows
  <2> QED BY <2>3, <2>4
<1>7. CASE s.name = "UpdateProperty" /\ U!Updated(s) /\ UNCHANGED <<ctx, attached>>
  <2>1. s \in Updates
    <3>1. s \notin Registrations /\ s # U!Lost BY <1>7, SignalsCarry
    <3> QED BY <1>3, <3>1 DEF ContextSignals, Said
  <2>2. Hears' = Hears BY <1>7 DEF Hears
  <2>3. /\ IF menu.owner = s.menu.owner THEN menu' = s.menu /\ settling' = TRUE ELSE UNCHANGED <<menu, settling>>
        /\ unheard' = unheard
    BY <1>7 DEF U!Updated
  <2>4. menu' = IF menu.owner = s.menu.owner THEN s.menu ELSE menu BY <2>3
  <2>5. MenuShown'
    <3>1. ~settling' => shown.menu = menu' BY <1>0, <2>3 DEF MenuShown
    <3> QED BY <1>0, <1>1, <3>1 DEF MenuShown
  <2>6. ASSUME ~unheard' PROVE News(ctxOut', panelOut', menu', daemon', Hears', Down)
    <3>1. News(ctxOut, panelOut, menu, daemon, Hears, Down) BY <2>3, <2>6 DEF MenuInv
    <3>2. News(Tail(ctxOut), panelOut, menu', daemon, Hears, Down)
      <4> HIDE DEF Hears, Down
      <4> QED BY <1>1, <1>2, <1>b, <2>1, <2>4, <3>1, ReadUpdate, Zenon
    <3> QED BY <1>1, <2>2, <3>2
  <2> QED BY <1>4, <2>5, <2>6, MenuFollows
<1> QED BY <1>1, <1>5, <1>6, <1>7

\* Without a menu there is no other engine's.
LEMMA MenuGoes ==
  ASSUME NEW q, NEW news, NEW other, NEW m, NEW d, NEW down, News(q, news, m, d, FALSE, down)
  PROVE  News(q, other, U!NoMenu, d, FALSE, down)
  BY MenusAre DEF News, OwnerComes

\* And of the panel's.
LEMMA PanelStepMenus ==
  ASSUME UpstreamTypes, LinkInv, PanelInv, MenuInv, U!OnPanelSignal
  PROVE  MenuInv'
<1> DEFINE s == Head(panelOut)
<1>0. LinkTypes /\ SwitchTypes /\ MenuTypes /\ MenuShown BY DEF UpstreamTypes, MenuInv
<1>1. /\ panelOut # <<>> /\ panel # "broken"
      /\ UNCHANGED <<attached, ctx, field>>
      /\ \/ s.name = "ShortcutKeyResponded" /\ U!OnShortcut(s)
         \/ s.name = "GlobalEngineChanged" /\ U!OnEngineChanged(s.engine, s.told)
         \/ /\ s = U!Registry
            /\ panelOut' = Tail(panelOut)
            /\ UNCHANGED <<panel, daemon, ctxOut, U!menuVars>>
         \/ /\ s = U!PanelLost /\ U!SwitcherLost
            /\ panelOut' = Tail(panelOut)
            /\ UNCHANGED <<daemon, ctxOut, U!menuVars>>
  BY DEF U!OnPanelSignal, U!Idle
<1>2. panelOut \in Seq(PanelSignals) BY <1>0 DEF SwitchTypes
<1>3. /\ s \in PanelSignals /\ Tail(panelOut) \in Seq(PanelSignals)
      /\ NoneOf(panelOut, Untold) <=> NoneOf(Tail(panelOut), Untold) /\ s \notin Untold
  BY <1>1, <1>2, TakeSignal
<1>4. Hears' = Hears BY <1>1 DEF Hears
<1> HIDE DEF s
<1>5. CASE s.name = "ShortcutKeyResponded" /\ U!OnShortcut(s)
  <2>1. UNCHANGED <<panel, current, menu, settling, shown>> BY <1>5 DEF U!OnShortcut
  <2>2. MenuShown' BY <1>0, <1>1, <2>1 DEF MenuShown
  <2>3. s \notin Untold
    <3>1. s \notin Changings BY <1>3, <1>5, PanelSignalsCarry
    <3> QED BY <3>1, PanelSignalsCarry
  <2>4. CASE s.released
    <3>1. panelOut' = Tail(panelOut) /\ UNCHANGED <<daemon, ctxOut, unheard>> BY <1>5, <2>4 DEF U!OnShortcut
    <3>2. ~unheard' => News(ctxOut, Tail(panelOut), menu, daemon, Hears, Down) BY <1>0, <1>3, <2>3, <3>1, PanelNews
    <3>3. Down' => Down BY <2>1, <3>1, DownIs
    <3> QED BY <1>4, <2>1, <2>2, <3>1, <3>2, <3>3, MenuFollows
  <2>5. CASE ~s.released
    <3> DEFINE e == U!NextEngine(current, s.backward)
    <3>1. U!SetEngine(e, Tail(panelOut)) BY <1>5, <2>5 DEF U!OnShortcut
    <3>2. s.backward \in BOOLEAN BY <1>3, <1>5, PanelSignalsCarry
    <3>3. e \in U!Engines BY <1>0, <3>2, NextEngineIs DEF SwitchTypes
    <3> HIDE DEF e
    <3>4. daemon'.up = daemon.up BY <1>0, <1>3, <3>1, <3>3, SetTypesKept
    <3>5. ~unheard' => News(ctxOut', panelOut', menu, daemon', Hears, Down)
      BY <1>0, <1>3, <2>3, <3>1, <3>3, SetNews
    <3>6. Down' => Down BY <2>1, <3>4, DownIs
    <3> QED BY <1>4, <2>1, <2>2, <3>5, <3>6, MenuFollows
  <2> QED BY <2>4, <2>5
<1>6. CASE s.name = "GlobalEngineChanged" /\ U!OnEngineChanged(s.engine, s.told)
  <2>1. /\ shown' = U!Published(s.engine)
        /\ menu' = IF field = "none" THEN U!NoMenu ELSE menu
        /\ unheard' = IF field = "none" THEN unheard /\ ctxOut # <<>> ELSE unheard \/ ~s.told
        /\ settling' = TRUE /\ panelOut' = Tail(panelOut)
        /\ UNCHANGED <<panel, daemon, ctxOut>>
    BY <1>6 DEF U!OnEngineChanged, U!MenuAfterChange
  <2>2. shown'.menu = shown.menu /\ shown'.glyph = shown.glyph BY <1>0, <2>1 DEF MenuTypes, U!Published
  <2>3. MenuShown' BY <1>0, <1>1, <2>1, <2>2 DEF MenuShown
  <2>4. Down' => Down BY <2>1, DownIs
  <2>5. CASE field = "none"
    <3>1. ~attached BY <2>5 DEF LinkInv
    <3>2. Hears = FALSE BY <1>0, <3>1 DEF Hears, LinkTypes
    <3>3. menu' = U!NoMenu BY <2>1, <2>5
    <3>4. ASSUME ~unheard' PROVE News(ctxOut', panelOut', menu', daemon', Hears', Down)
      <4>1. CASE unheard
        <5>1. ctxOut = <<>> BY <2>1, <2>5, <3>4, <4>1
        <5>2. NoneOf(ctxOut, Said) BY <5>1, EmptyQueue
        <5> QED BY <1>4, <2>1, <3>2, <3>3, <5>2, NothingToHear
      <4>2. CASE ~unheard
        <5>1. News(ctxOut, panelOut, menu, daemon, FALSE, Down) BY <4>2, HearsNoMore
        <5> QED BY <1>4, <2>1, <3>2, <3>3, <5>1, MenuGoes
      <4> QED BY <4>1, <4>2
    <3> QED BY <2>3, <2>4, <3>4, MenuFollows
  <2>6. CASE field # "none"
    <3>1. menu' = menu BY <2>1, <2>6
    <3>2. ASSUME ~unheard' PROVE News(ctxOut', panelOut', menu', daemon', Hears', Down)
      <4>1. ~unheard /\ s.told BY <2>1, <2>6, <3>2
      <4>2. s \in Changings BY <1>3, <1>6, PanelSignalsCarry
      <4>3. s \notin Untold
        <5>1. \A x \in Untold : x.told = FALSE
          <6>1. \A e : U!Changed(e, FALSE).told = FALSE BY DEF U!Changed
          <6> QED BY <6>1 DEF Untold
        <5> QED BY <4>1, <5>1, Zenon
      <4>4. News(ctxOut, Tail(panelOut), menu, daemon, Hears, Down) BY <1>0, <1>3, <4>1, <4>3, PanelNews
      <4> QED BY <1>4, <2>1, <3>1, <4>4
    <3> QED BY <2>3, <2>4, <3>2, MenuFollows
  <2> QED BY <2>5, <2>6
<1>7. ASSUME s \in {U!Registry, U!PanelLost}, panel' \in {panel, "none"}, panelOut' = Tail(panelOut),
             UNCHANGED <<daemon, ctxOut, U!menuVars>>
      PROVE  MenuInv'
  <2>1. s \notin Untold
    <3>1. s \notin Changings BY <1>7, PanelSignalsCarry
    <3> QED BY <3>1, PanelSignalsCarry
  <2>2. MenuShown' BY <1>0, <1>1, <1>7 DEF MenuShown, U!menuVars
  <2>3. Down' => Down BY <1>7, DownIs
  <2>4. ~unheard' => News(ctxOut, Tail(panelOut), menu, daemon, Hears, Down)
    BY <1>0, <1>3, <1>7, <2>1, PanelNews DEF U!menuVars
  <2> QED BY <1>4, <1>7, <2>2, <2>3, <2>4, MenuFollows DEF U!menuVars
<1> QED BY <1>1, <1>5, <1>6, <1>7 DEF U!SwitcherLost

LEMMA FrontendStepMenus ==
  ASSUME UpstreamTypes, LinkInv, PanelInv, MenuInv,
         \/ U!CtxWaitOver \/ U!PanelWaitOver \/ U!Settle
         \/ \E f \in {"none", "plain", "secret"} : U!Done(f)
  PROVE  MenuInv'
<1>0. LinkTypes /\ SwitchTypes /\ MenuTypes /\ MenuShown BY DEF UpstreamTypes, MenuInv
<1>1. CASE U!CtxWaitOver \/ U!PanelWaitOver
  <2>1. UNCHANGED <<ctxOut, panelOut, daemon, attached, ctx, unheard, menu, settling, shown, panel>>
    BY <1>1 DEF U!CtxWaitOver, U!PanelWaitOver, U!switchVars, U!menuVars, U!linkVars
  <2>2. MenuShown' BY <1>0, <2>1 DEF MenuShown
  <2>3. Down' => Down BY <2>1, DownIs
  <2> QED BY <2>1, <2>2, <2>3, MenuStands
<1>2. CASE U!Settle
  <2>1. /\ shown' = [shown EXCEPT !.menu = menu, !.glyph = U!Indicator]
        /\ UNCHANGED <<ctxOut, panelOut, daemon, attached, ctx, unheard, menu, panel>>
        /\ panel # "broken"
    BY <1>2 DEF U!Settle, U!linkVars, U!switchVars, U!Idle
  <2>2. shown'.menu = menu /\ shown'.glyph = U!Indicator BY <1>0, <2>1 DEF MenuTypes
  <2>3. U!Indicator \in {"none", menu.mode} BY DEF U!Indicator
  <2>4. MenuShown' BY <1>0, <2>1, <2>2, <2>3 DEF MenuShown
  <2>5. Down' => Down BY <2>1, DownIs
  <2> QED BY <2>1, <2>4, <2>5, MenuStands
<1>3. ASSUME NEW f \in {"none", "plain", "secret"}, U!Done(f) PROVE MenuInv'
  <2>1. /\ panel # "broken" /\ f # field
        /\ UNCHANGED <<panel, menu, settling, shown, panelOut>>
        /\ CASE f = "plain" -> U!Attach
             [] field = "none" /\ f = "secret" -> UNCHANGED <<daemon, U!linkVars, unheard>>
             [] OTHER -> U!Detach
    BY <1>3 DEF U!Done, U!Idle, U!switchVars
  <2>2. MenuShown' BY <1>0, <2>1 DEF MenuShown
  <2>3. CASE f = "plain"
    <3>1. U!Attach /\ field # "plain" BY <2>1, <2>3
    <3>2. ~attached BY <3>1 DEF LinkInv
    <3>3. daemon'.up = daemon.up BY <1>0, <3>1, AttachLinks
    <3>4. ~unheard' => News(ctxOut', panelOut, menu, daemon', Hears', Down) BY <1>0, <2>1, <3>1, <3>2, AttachNews
    <3>5. Down' => Down BY <2>1, <3>3, DownIs
    <3> QED BY <2>1, <2>2, <3>4, <3>5, MenuFollows
  <2>4. CASE field = "none" /\ f = "secret"
    <3>1. UNCHANGED <<daemon, U!linkVars, unheard>> BY <2>1, <2>4
    <3>2. UNCHANGED <<ctxOut, attached, ctx>> BY <3>1 DEF U!linkVars
    <3>3. Down' => Down BY <2>1, <3>1, DownIs
    <3> QED BY <2>1, <2>2, <3>1, <3>2, <3>3, MenuStands
  <2>5. CASE f # "plain" /\ ~(field = "none" /\ f = "secret")
    <3>1. U!Detach BY <2>1, <2>5
    <3>2. daemon' = daemon BY <1>0, <3>1, DetachLinks
    <3>3. ~unheard' => News(ctxOut', panelOut, menu, daemon', Hears', Down) BY <1>0, <3>1, DetachNews
    <3>4. Down' => Down BY <2>1, <3>2, DownIs
    <3> QED BY <2>1, <2>2, <3>3, <3>4, MenuFollows
  <2> QED BY <2>3, <2>4, <2>5
<1> QED BY <1>1, <1>2, <1>3

\* The rest of what the frontend does, and what it is asked for.
LEMMA UserStepMenus ==
  ASSUME UpstreamTypes, LinkInv, PanelInv, MenuInv,
         \/ U!Tick \/ U!PanelJoined \/ U!PanelNotJoined
         \/ U!PickEngine \/ U!PickProperty \/ U!FrontendStops \/ U!FrontendStarts
  PROVE  MenuInv'
<1>0. LinkTypes /\ SwitchTypes /\ MenuTypes /\ MenuShown BY DEF UpstreamTypes, MenuInv
<1>q. ctxOut \in Seq(ContextSignals) /\ panelOut \in Seq(PanelSignals) BY <1>0 DEF LinkTypes, SwitchTypes
<1>1. CASE U!Tick
  <2>1. /\ panel # "broken" /\ U!Ensure
        /\ IF field = "plain" /\ ctx = "none" THEN U!Attach ELSE UNCHANGED <<daemon, U!linkVars, unheard>>
        /\ UNCHANGED <<menu, settling, shown, panelOut>>
    BY <1>1 DEF U!Tick, U!Idle
  <2>2. panel' # "broken" BY <2>1 DEF U!Ensure
  <2>3. MenuShown' BY <1>0, <2>1, <2>2 DEF MenuShown
  <2>4. CASE field = "plain" /\ ctx = "none"
    <3>1. U!Attach /\ ~attached BY <2>1, <2>4 DEF LinkInv
    <3>2. daemon'.up = daemon.up BY <1>0, <3>1, AttachLinks
    <3>3. ~unheard' => News(ctxOut', panelOut, menu, daemon', Hears', Down) BY <1>0, <2>1, <3>1, AttachNews
    <3>4. Down' => Down BY <2>2, <3>2, DownIs
    <3> QED BY <2>1, <2>3, <3>3, <3>4, MenuFollows
  <2>5. CASE ~(field = "plain" /\ ctx = "none")
    <3>1. UNCHANGED <<daemon, U!linkVars, unheard>> BY <2>1, <2>5
    <3>2. UNCHANGED <<ctxOut, attached, ctx>> BY <3>1 DEF U!linkVars
    <3>3. Down' => Down BY <2>2, <3>1, DownIs
    <3> QED BY <2>1, <2>3, <3>1, <3>2, <3>3, MenuStands
  <2> QED BY <2>4, <2>5
<1>2. CASE U!PanelJoined
  <2>1. /\ panel = "joining" /\ panel' = "live" /\ U!ChooseIfNone
        /\ shown' = (IF daemon.engine = "none" THEN shown ELSE U!Published(daemon.engine))
        /\ UNCHANGED <<attached, ctx, menu, settling>>
    BY <1>2 DEF U!PanelJoined
  <2>2. shown'.menu = shown.menu /\ shown'.glyph = shown.glyph BY <1>0, <2>1 DEF MenuTypes, U!Published
  <2>3. MenuShown' BY <1>0, <2>1, <2>2, ShownStands
  <2>4. Hears' = Hears BY <2>1 DEF Hears
  <2>5. CASE daemon.engine = "none"
    <3>1. U!SwitchTo(Head(Cycle), panelOut) /\ Head(Cycle) \in U!Engines
      BY <2>1, <2>5, UpstreamConstants DEF U!ChooseIfNone
    <3>2. daemon'.up = daemon.up BY <1>0, <1>q, <3>1, SwitchTypesKept
    <3>3. ~unheard' => News(ctxOut', panelOut', menu, daemon', Hears, Down) BY <1>0, <1>q, <3>1, SwitchNews
    <3>4. Down' => Down BY <2>1, <3>2, DownIs
    <3> QED BY <2>1, <2>3, <2>4, <3>3, <3>4, MenuFollows
  <2>6. CASE daemon.engine # "none"
    <3>1. UNCHANGED <<daemon, panelOut, ctxOut, unheard>> BY <2>1, <2>6 DEF U!ChooseIfNone
    <3>2. Down' => Down BY <2>1, <3>1, DownIs
    <3> QED BY <2>1, <2>3, <3>1, <3>2, MenuStands
  <2> QED BY <2>5, <2>6
<1>3. CASE U!PanelNotJoined
  <2>1. panel = "broken" /\ UNCHANGED <<attached, ctxOut, menu, settling, shown, unheard>> /\ panel' # "broken"
    BY <1>3 DEF U!PanelNotJoined, U!linkVars, U!menuVars
  <2>2. MenuShown' BY <1>0, <2>1 DEF MenuShown
  <2>3. attached' = FALSE BY <1>0, <2>1 DEF MenuShown, LinkTypes
  <2>4. Hears' = FALSE BY <2>3 DEF Hears
  <2>5. ASSUME ~unheard' PROVE News(ctxOut', panelOut', menu', daemon', Hears', Down')
    <3>1. menu = U!NoMenu /\ NoneOf(ctxOut, Said) BY <2>1, <2>5 DEF MenuInv, News, Down
    <3> QED BY <2>1, <2>4, <3>1, NothingToHear
  <2> QED BY <2>2, <2>5 DEF MenuInv
<1>4. CASE U!PickEngine
  <2>1. /\ \E e \in U!Engines : U!SetEngine(e, panelOut)
        /\ UNCHANGED <<attached, ctx, menu, settling, shown, panel>>
    BY <1>4 DEF U!PickEngine, U!switchVars
  <2>2. PICK e \in U!Engines : U!SetEngine(e, panelOut) BY <2>1
  <2>3. MenuShown' BY <1>0, <2>1 DEF MenuShown
  <2>4. Hears' = Hears BY <2>1 DEF Hears
  <2>5. daemon'.up = daemon.up BY <1>0, <1>q, <2>2, SetTypesKept
  <2>6. ~unheard' => News(ctxOut', panelOut', menu, daemon', Hears, Down) BY <1>0, <1>q, <2>2, SetNews
  <2>7. Down' => Down BY <2>1, <2>5, DownIs
  <2> QED BY <2>1, <2>3, <2>4, <2>6, <2>7, MenuFollows
<1>5. CASE U!PickProperty
  <2> DEFINE o == shown.menu.owner
  <2>1. /\ panel # "broken"
        /\ IF field = "none" THEN UNCHANGED <<daemon, attached, ctx, ctxWait, ctxOut>>
           ELSE /\ IF attached THEN daemon' = U!Activated(o) /\ ctxOut' = U!Told(U!Activation(o))
                   ELSE UNCHANGED <<daemon, ctxOut>>
                /\ IF ctx = "dead" THEN U!CallFails ELSE UNCHANGED <<attached, ctx, ctxWait>>
        /\ UNCHANGED <<panel, menu, settling, shown, unheard, panelOut>>
    BY <1>5 DEF U!PickProperty, U!Idle, U!switchVars, U!menuVars
  <2> HIDE DEF o
  <2>2. MenuShown' BY <1>0, <2>1 DEF MenuShown
  <2>3. CASE field # "none" /\ attached
    <3>1. /\ ctx \in {"live", "deaf"} /\ daemon' = U!Activated(o) /\ ctxOut' = U!Told(U!Activation(o))
          /\ UNCHANGED <<attached, ctx>>
      BY <2>1, <2>3 DEF LinkInv
    <3>2. /\ daemon'.up = daemon.up /\ daemon'.engine = daemon.engine /\ U!Activation(o) \in Seq(ContextSignals)
      BY <1>0, <3>1, ActivationIs
    <3>3. Hears' = Hears BY <3>1 DEF Hears
    <3>4. Down = FALSE
      <4>1. ~Down BY <2>1, <3>1 DEF Down, LinkInv
      <4> QED BY <1>0, <4>1, HearsTyped
    <3>5. Down' => Down BY <2>1, <3>2, DownIs
    <3>6. ASSUME ~unheard' PROVE News(ctxOut', panelOut', menu', daemon', Hears', Down)
      <4>1. ~unheard BY <2>1, <3>6
      <4>2. CASE ctx = "live"
        <5>1. ctxOut' = ctxOut \o U!Activation(o) BY <3>1, <4>2 DEF U!Told
        <5>2. Hears = TRUE BY <1>0, <2>3, <4>2 DEF Hears, LinkTypes
        <5>3. News(ctxOut, panelOut, menu, daemon, TRUE, FALSE) BY <3>4, <4>1, <5>2 DEF MenuInv
        <5>4. News(ctxOut \o U!Activation(o), panelOut, menu, U!Activated(o), TRUE, FALSE)
          BY <1>0, <1>q, <5>3, ActivationTells
        <5> QED BY <2>1, <3>1, <3>3, <3>4, <5>1, <5>2, <5>4
      <4>3. CASE ctx # "live"
        <5>1. ctxOut' = ctxOut BY <1>q, <3>1, <4>3, ConcatEmptySeq DEF U!Told
        <5>2. Hears = FALSE BY <1>0, <4>3 DEF Hears
        <5>3. News(ctxOut, panelOut, menu, daemon', FALSE, Down) BY <3>2, <4>1, HearsNoMore
        <5> QED BY <2>1, <3>3, <5>1, <5>2, <5>3
      <4> QED BY <4>2, <4>3
    <3> QED BY <2>2, <3>5, <3>6, MenuFollows
  <2>4. CASE ~(field # "none" /\ attached)
    <3>1. ~attached BY <2>4 DEF LinkInv
    <3>2. UNCHANGED <<daemon, ctxOut>> BY <2>1, <3>1
    <3>3. ~attached' BY <2>1, <3>1 DEF U!CallFails, U!LinkLost, U!Destroyed
    <3>4. Hears = FALSE /\ Hears' = FALSE
      <4>1. attached = FALSE BY <1>0, <3>1 DEF LinkTypes
      <4> QED BY <3>3, <4>1 DEF Hears
    <3>5. ~unheard' => News(ctxOut', panelOut', menu', daemon', Hears', Down) BY <2>1, <3>2, <3>4 DEF MenuInv
    <3>6. Down' => Down BY <2>1, <3>2, DownIs
    <3> QED BY <2>2, <3>5, <3>6, MenuFollows
  <2> QED BY <2>3, <2>4
<1>6. CASE U!FrontendStops
  <2>1. /\ shown' = U!Blank("Stopped") /\ attached' = FALSE /\ ctxOut' = <<>> /\ panel' = "none"
        /\ menu' = U!NoMenu
    BY <1>6 DEF U!FrontendStops, U!Destroyed
  <2>2. shown'.menu = U!NoMenu /\ shown'.glyph = "none" BY <2>1 DEF U!Blank
  <2>3. MenuShown' BY <2>1, <2>2 DEF MenuShown
  <2>4. Hears' = FALSE BY <2>1 DEF Hears
  <2>5. NoneOf(ctxOut', Said) BY <2>1, EmptyQueue
  <2>6. News(ctxOut', panelOut', menu', daemon', Hears', Down') BY <2>1, <2>4, <2>5, NothingToHear
  <2> QED BY <2>3, <2>6 DEF MenuInv
<1>7. CASE U!FrontendStarts
  <2>1. /\ frontend = "stopped" /\ shown' = U!Blank("Running") /\ U!Ensure
        /\ UNCHANGED <<daemon, attached, ctx, ctxOut, menu, settling, unheard, panelOut>>
    BY <1>7 DEF U!FrontendStarts, U!linkVars
  <2>2. shown'.menu = U!NoMenu /\ shown'.glyph = "none" /\ menu = U!NoMenu /\ panel = "none"
    BY <2>1 DEF U!Blank, LinkInv
  <2>3. panel' # "broken" BY <2>1, <2>2 DEF U!Ensure
  <2>4. MenuShown' BY <2>1, <2>2, <2>3 DEF MenuShown
  <2>5. Down' => Down BY <2>1, <2>3, DownIs
  <2> QED BY <2>1, <2>4, <2>5, MenuStands
<1> QED BY <1>1, <1>2, <1>3, <1>4, <1>5, <1>6, <1>7

LEMMA EveryStepMenus == ASSUME UpstreamTypes, LinkInv, PanelInv, MenuInv, U!Next PROVE MenuInv'
  BY DaemonStepMenus, ContextStepMenus, PanelStepMenus, FrontendStepMenus, UserStepMenus
     DEF U!Next, U!Runs

-----------------------------------------------------------------------------
(* Upstream: theorems *)

LEMMA UpstreamInit == Init => UpstreamInv
<1> SUFFICES ASSUME U!Init PROVE UpstreamInv BY DEF Init
<1> USE DEF U!Init
<1>1. U!NoMenu \in U!Menus /\ FirstMode \in Modes BY MenusAre, UpstreamConstants
<1>2. shown.state = "Off" /\ shown.engine = "none" /\ shown.menu = U!NoMenu /\ shown.glyph = "none"
      /\ shown \in [state : {"Off", "Running", "Stopped"}, engine : U!Engines \cup {"none"},
                    menu : U!Menus, glyph : Modes \cup {"none"}]
  BY <1>1 DEF U!Blank
<1>3. UpstreamTypes
  <2>1. daemon \in [up : BOOLEAN, engine : U!Engines \cup {"none"}, mode : Modes] BY <1>1
  <2>2. attached \in BOOLEAN /\ ctxWait \in BOOLEAN /\ unheard \in BOOLEAN OBVIOUS
  <2>3. ctxOut \in Seq(ContextSignals) /\ panelOut \in Seq(PanelSignals) OBVIOUS
  <2>4. LinkTypes BY <2>1, <2>2, <2>3 DEF LinkTypes
  <2>5. panelWait \in BOOLEAN /\ settling \in BOOLEAN OBVIOUS
  <2>6. SwitchTypes BY <2>3, <2>5 DEF SwitchTypes
  <2>7. MenuTypes BY <1>1, <1>2, <2>5 DEF MenuTypes
  <2> QED BY <2>4, <2>6, <2>7 DEF UpstreamTypes
<1>4. LinkInv BY DEF LinkInv
<1>5. \A S : NoneOf(<<>>, S) BY EmptyQueue
<1>6. PanelInv BY <1>5, NothingLost DEF PanelInv
<1>7. Hears = FALSE BY DEF Hears
<1>8. News(ctxOut, panelOut, menu, daemon, Hears, Down) BY <1>5, <1>7, NothingToHear
<1>9. MenuInv BY <1>2, <1>8 DEF MenuInv, MenuShown
<1> QED BY <1>3, <1>4, <1>6, <1>9 DEF UpstreamInv

LEMMA UpstreamStepKeeps == ASSUME UpstreamInv, [Next]_vars PROVE UpstreamInv'
<1>1. CASE UNCHANGED upstream
  <2>1. UNCHANGED <<daemon, attached, ctx, ctxWait, threads, panel, panelWait, frontend, field, current, described,
                    menu, settling, held, ctxOut, panelOut, shown, unheard>>
    BY <1>1 DEF upstream
  <2>2. UpstreamTypes' BY <2>1 DEF UpstreamInv, UpstreamTypes, LinkTypes, SwitchTypes, MenuTypes
  <2>3. LinkInv' /\ PanelInv' BY <2>1 DEF UpstreamInv, LinkInv, PanelInv
  <2>4. MenuInv' BY <2>1 DEF UpstreamInv, MenuInv, MenuShown, Hears, Down
  <2> QED BY <2>2, <2>3, <2>4 DEF UpstreamInv
<1>2. CASE U!Next
  <2>1. LinkKept BY <1>2, EveryStepLinks DEF UpstreamInv
  <2> QED BY <1>2, <2>1, EveryStepPanels, EveryStepMenus DEF UpstreamInv, UpstreamTypes, LinkKept
<1> QED BY <1>1, <1>2 DEF Next, vars, MirrorsStep, UpstreamStep, PopupStep, FieldStep, TypingStep, CaptureStep

THEOREM UpstreamInvariant == Spec => []UpstreamInv
<1>1. Init => UpstreamInv BY UpstreamInit
<1>2. UpstreamInv /\ [Next]_vars => UpstreamInv' BY UpstreamStepKeeps
<1> QED BY <1>1, <1>2, PTL DEF Spec

\* Switcher and applet name the engine in effect once the panel's signals are
\* handled; and once the context's are too, the menu on offer is that engine's,
\* whichever of the two sockets was read first (switcher.rs connect,
\* on_engine_changed; frontend.rs on_register_properties, on_engine_changed).
THEOREM EffectIsShown == Spec => []ShownIsInEffect
<1> USE DEF UpstreamInv
<1>e. \A S, V : ~LastOf(<<>>, S, V) BY DEF LastOf
<1>1. UpstreamInv => U!ShownIsInEffect
  <2> SUFFICES ASSUME UpstreamInv, frontend = "running", panel = "live", panelOut = <<>>
               PROVE  current = daemon.engine /\ shown.engine = daemon.engine /\ shown.state = "Running"
    BY DEF U!ShownIsInEffect, U!Idle
  <2> QED BY <1>e DEF PanelInv, Heard
<1>2. UpstreamInv => U!MenuIsTheEngines
  <2> SUFFICES ASSUME UpstreamInv, frontend = "running", panel = "live", panelOut = <<>>, ctxOut = <<>>,
                      ~settling, ~unheard
               PROVE  /\ shown.menu.owner \in {"none", shown.engine}
                      /\ attached => shown.menu = U!MenuOf(daemon)
                      /\ shown.glyph \in {"none", shown.menu.mode}
    BY DEF U!MenuIsTheEngines, U!Idle
  <2>1. shown.menu = menu /\ shown.glyph \in {"none", shown.menu.mode} BY DEF MenuInv, MenuShown
  <2>2. shown.engine = daemon.engine BY <1>e DEF PanelInv, Heard
  <2>3. News(ctxOut, panelOut, menu, daemon, Hears, Down) BY DEF MenuInv
  <2>4. menu.owner \in {"none", daemon.engine}
    <3>1. NoneOf(<<>>, Untold) BY EmptyQueue
    <3> QED BY <1>e, <2>3, <3>1 DEF News, OwnerComes
  <2>5. ASSUME attached PROVE menu = U!MenuOf(daemon)
    <3>1. NoneOf(<<>>, {U!Lost}) /\ NoneOf(<<>>, Untold) BY EmptyQueue
    <3>2. Hears BY <2>5, <3>1 DEF Hears, LinkInv
    <3>3. MenuComes(<<>>, menu, U!MenuOf(daemon)) BY <2>3, <3>1, <3>2 DEF News
    <3> QED BY <1>e, <3>3 DEF MenuComes
  <2> QED BY <2>1, <2>2, <2>4, <2>5
<1>3. UpstreamInv => ShownIsInEffect BY <1>1, <1>2 DEF ShownIsInEffect
<1> QED BY <1>3, UpstreamInvariant, PTL

LEMMA UpstreamTyped == UpstreamInv => U!TypeOK
<1> SUFFICES ASSUME UpstreamInv PROVE U!TypeOK OBVIOUS
<1>1. UpstreamTypes /\ LinkInv /\ PanelInv BY DEF UpstreamInv
<1>2. shown.menu \in U!Menus /\ shown.glyph \in Modes \cup {"none"} BY <1>1 DEF UpstreamTypes, MenuTypes
<1> QED BY <1>1, <1>2 DEF UpstreamTypes, LinkTypes, SwitchTypes, MenuTypes, LinkInv, PanelInv, U!TypeOK
=============================================================================
