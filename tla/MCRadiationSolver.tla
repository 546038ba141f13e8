-------------------------- MODULE MCRadiationSolver --------------------------
(* Rows of zones in one block, with all outcomes of all solvers in each.     *)
EXTENDS RadiationSolver

Deck(fofc, prad, inside) ==
    [fofc |-> fofc, prad_fallback |-> prad, inside |-> inside, cut |-> 0]

MCDecks == {Deck(fofc, prad, 1) : fofc \in BOOLEAN, prad \in BOOLEAN}

(* pars/radM1/mad_3d.par turns first-order flux corrections on.              *)
MCGuessDecks == {Deck(TRUE, FALSE, 1)}
=============================================================================
