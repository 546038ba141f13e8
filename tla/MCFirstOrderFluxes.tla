------------------------- MODULE MCFirstOrderFluxes -------------------------
(* First-order corrections: two blocks of three columns, cut between zones 3 and 4, or one alone.     *)
(* Fluxes are known one ghost zone out; the guess has ghosts beyond that.    *)
(* With two blocks, the first column is inside the horizon's buffer.         *)
EXTENDS FirstOrderFluxes, FaceStates, Sequences

Deck(blocks, driver, pcp, spherical) ==
    [blocks |-> blocks, driver |-> driver, pcp |-> pcp, spherical |-> spherical,
     average |-> FALSE, inside |-> blocks - 1]

Flat == <<2, 2, 2, 2, 2, 2>>
Inputs(states, fail, hits, floored) ==
    [states |-> states, fail |-> fail, hits |-> hits, floored |-> floored, u |-> Flat]
Quiet == Inputs({}, {}, {}, {})

(* Trouble on either side of the cut and one zone further, in all the ways   *)
(* a zone can be marked; the last history keeps flags over a sub-step and    *)
(* over a step.                                                              *)
TwoBlocks == {
    <<Inputs({4}, {3}, {5}, {})>>,
    <<Inputs({}, {5}, {}, {4, 6}), Inputs({}, {2}, {}, {3, 4}), Inputs({3}, {}, {}, {})>> }

(* All energies of one block of three zones, all of them marked, and then    *)
(* some of a sub-step in which a zone may find no neighbor to draw from.     *)
Levels == {<<a, b, c>> : a \in 0 .. 2, b \in 0 .. 2, c \in 0 .. 2}
OneBlock == {
    <<[Inputs({}, {}, 1 .. 3, {}) EXCEPT !.u = u], [Inputs({}, {}, {2}, {}) EXCEPT !.u = v]>> :
        u \in Levels, v \in {<<0, 0, 0>>, <<2, 0, 1>>} }

MCScenarios ==
    {[deck |-> Deck(2, "kharma", FALSE, FALSE), history |-> h] : h \in TwoBlocks}
        \cup {[deck |-> Deck(1, "kharma", TRUE, FALSE), history |-> h] : h \in OneBlock}

(* The imex driver, which floors its own zones only. *)
MCImExScenarios == {[deck |-> Deck(2, "imex", FALSE, FALSE), history |-> h] : h \in TwoBlocks}

-----------------------------------------------------------------------------
(* Fluxes of a row of two zones whose values repeat every five: all schemes  *)
(* and solvers, with what may be done about states that are too low.         *)
Repeated(p) == [z \in RowStored |-> FaceUnit * p[((z + 20) % 5) + 1]]
Densities == {0, 1, 3} \X (0 .. 3) \X {0, 1, 3} \X {0, 3} \X {1, 2}
Velocities == {<<0, 0, 0, 0, 0>>, <<1, -2, 0, 2, -1>>}
HighOrder == {"weno5", "mp5", "ppmx"}

RowOf(rho, v, scheme, solver, fallback, floors, polar) ==
    [rho |-> Repeated(rho), v |-> Repeated(v), B |-> Repeated(v), scheme |-> scheme,
     flux |-> solver, fallback |-> fallback, floors |-> floors, floor |-> FaceUnit \div 2,
     c |-> FaceUnit, polar |-> polar]
MCRows ==
    {RowOf(r, v, scheme, solver, FALSE, FALSE, FALSE) :
        r \in Densities, v \in Velocities, scheme \in Smooth, solver \in {"llf", "hlle"}}
    \cup {RowOf(r, v, scheme, "llf", fallback, floors, polar) :
        r \in Densities, v \in {<<1, -2, 0, 2, -1>>}, scheme \in HighOrder,
        fallback \in BOOLEAN, floors \in BOOLEAN, polar \in BOOLEAN}

VARIABLE subject    \* what a behavior is of; the other rests in an initial state

FluxInit ==
    /\ subject \in {"corrections", "faces"}
    /\ row \in (IF subject = "faces" THEN Rows ELSE {CHOOSE c \in Rows : TRUE}) /\ Untouched
    /\ \E c \in (IF subject = "faces" THEN {CHOOSE c \in Scenarios : TRUE} ELSE Scenarios) :
        deck = c.deck /\ history = c.history
    /\ Init

FluxNext ==
    \/ subject = "corrections" /\ Next /\ UNCHANGED <<subject, faceVars>>
    \/ subject = "faces" /\ FaceNext /\ UNCHANGED <<subject, vars>>

FluxSpec == FluxInit /\ [][FluxNext]_<<subject, vars, faceVars>>
=============================================================================
