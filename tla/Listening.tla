----------------------------- MODULE Listening -----------------------------
(***************************************************************************)
(* What one call of Engine::listen may conclude (engine.rs), as far as the *)
(* state machine can tell.  Engine takes it as given; Segments models the  *)
(* gates behind it and checks that this is all they can conclude.          *)
(***************************************************************************)
EXTENDS Integers, Sequences

\* The segments a call cuts (TRUE for one that carries speech), whether the
\* silence gate said the utterance is over, how many chunks the call fed to
\* the streaming model, and whether the segment left open carries speech,
\* given that before the call it did (v) or did not.  At most n cuts, a bound.
\* An early return (over) feeds nothing; without new audio nothing happens;
\* speech already counted is only forgotten by a cut or by the early return.
Outcomes(v, n) ==
  {o \in [cuts: UNION {[1..k -> BOOLEAN] : k \in 0..n},
          over: BOOLEAN, fed: 0..1, voiced: BOOLEAN] :
     /\ o.over => o.fed = 0
     /\ (v /\ o.cuts = <<>> /\ ~o.over) => o.voiced
     /\ (~o.over /\ o.fed = 0) => (o.cuts = <<>> /\ o.voiced = v)}

\* One call of listen after another.
Then(o, p) == [cuts |-> o.cuts \o p.cuts, over |-> p.over,
               fed |-> o.fed + p.fed, voiced |-> p.voiced]

=============================================================================
