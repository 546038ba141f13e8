------------------------ MODULE ConstrainedTransport ------------------------
(***************************************************************************)
(* Face-centered constrained transport (b_ct/).  The field is kept as the  *)
(* magnetic flux through each face of the zones of a block (B times the    *)
(* face's area); a step adds the circulation of the electromotive force    *)
(* around it (EMF times edge length and time step), which is what keeps    *)
(* the net flux out of every zone at zero.                                 *)
(*                                                                         *)
(* A mesh of NBlocks blocks around the X3 direction, each of N1 x N2 x N3  *)
(* zones between both poles.  A block holds all faces and edges of its     *)
(* zones; its last in X3 are the next block's first.  Fluxes are integers, *)
(* in a unit small enough that the averages the code takes are exact.      *)
(***************************************************************************)
EXTENDS Integers, FiniteSetsExt, Functions

CONSTANTS
    N1, N2, N3,     \* zones of a block in each direction
    NBlocks,        \* blocks around X3
    EMFs,           \* the electromotive forces the fluid's fluxes may give
    Options,        \* the options runs are made with, see OptionsAssumption
    Buffer,         \* physical zones within reconnection_outer_buffer of the end of X1
    MaxSteps        \* bound on the substeps considered

Blocks == 1 .. NBlocks
Next3(b) == IF b = NBlocks THEN 1 ELSE b + 1

\* Topological elements by the indices of the first zone behind them
F1s == Blocks \X (1 .. N1 + 1) \X (1 .. N2) \X (1 .. N3)
F2s == Blocks \X (1 .. N1) \X (1 .. N2 + 1) \X (1 .. N3)
F3s == Blocks \X (1 .. N1) \X (1 .. N2) \X (1 .. N3 + 1)
E1s == Blocks \X (1 .. N1) \X (1 .. N2 + 1) \X (1 .. N3 + 1)
E2s == Blocks \X (1 .. N1 + 1) \X (1 .. N2) \X (1 .. N3 + 1)
E3s == Blocks \X (1 .. N1 + 1) \X (1 .. N2 + 1) \X (1 .. N3)

Forces == [E1 : [E1s -> Int], E2 : [E2s -> Int], E3 : [E3s -> Int]]

\* The pole's zero-size faces and edges, and the zones whose B3 is reconnected there
PoleFaces == {1, N2 + 1}
ByPole(i, j) == j \in {1, N2} /\ i <= N1 - Buffer

ASSUME MeshAssumption ==
    /\ N1 \in Nat \ {0} /\ N2 \in Nat \ {0} /\ N3 \in Nat \ {0}
    /\ NBlocks \in Nat \ {0}
    /\ Buffer \in Nat /\ MaxSteps \in Nat

\* At the poles: zero_EMF (reflecting, Dirichlet) or average_EMF (transmitting);
\* excise_flux, which reconnect_B3 follows; the levels of ISMR, 0 without it
ASSUME OptionsAssumption ==
    Options \subseteq [emf : {"zero", "average"}, excise : BOOLEAN, levels : Nat]

ASSUME EMFsAssumption == EMFs \subseteq Forces

VARIABLES
    options,        \* the options of this run
    F1, F2, F3,     \* cons.fB, as fluxes
    E1, E2, E3,     \* B_CT.emf, times edge length and time step
    at,             \* the next operation of the substep
    steps           \* substeps taken
vars == <<options, F1, F2, F3, E1, E2, E3, at, steps>>
faces == <<F1, F2, F3>>
emf == <<E1, E2, E3>>

Operations == {"CalculateEMF", "ExchangeEMF", "BoundaryEMF", "AddSource",
               "ReconnectB3", "DerefinePoles"}

-----------------------------------------------------------------------------
\* A simulation without a seed field; every other field is put in as a curl too
Init ==
    /\ options \in Options
    /\ F1 = [f \in F1s |-> 0]
    /\ F2 = [f \in F2s |-> 0]
    /\ F3 = [f \in F3s |-> 0]
    /\ E1 = [e \in E1s |-> 0]
    /\ E2 = [e \in E2s |-> 0]
    /\ E3 = [e \in E3s |-> 0]
    /\ at = "CalculateEMF"
    /\ steps = 0

\* Whatever the scheme makes of the fluxes of the zones around an edge
CalculateEMF ==
    /\ at = "CalculateEMF"
    /\ steps < MaxSteps
    /\ \E force \in EMFs : E1' = force.E1 /\ E2' = force.E2 /\ E3' = force.E3
    /\ at' = "ExchangeEMF"
    /\ steps' = steps + 1
    /\ UNCHANGED <<options, faces>>

\* Edges on the boundary of two blocks belong to one of them
ExchangeEMF ==
    /\ at = "ExchangeEMF"
    /\ E1' = [e \in E1s |-> IF e[4] = N3 + 1 THEN E1[<<Next3(e[1]), e[2], e[3], 1>>] ELSE E1[e]]
    /\ E2' = [e \in E2s |-> IF e[4] = N3 + 1 THEN E2[<<Next3(e[1]), e[2], e[3], 1>>] ELSE E2[e]]
    /\ at' = "BoundaryEMF"
    /\ UNCHANGED <<options, faces, E3, steps>>

ZeroBoundaryEMF ==
    /\ options.emf = "zero"
    /\ E1' = [e \in E1s |-> IF e[3] \in PoleFaces THEN 0 ELSE E1[e]]

\* The average over a block's edges around the pole, each of them counted once
EMF1Sum(b, i, j) == SumFunction([k \in 1 .. N3 |-> E1[<<b, i, j, k>>]])

\* Mutant: the edges at the far end of the block keep their own EMF
AverageWithoutLastEdge ==
    /\ options.emf = "average"
    /\ E1' = [e \in E1s |-> IF e[3] \in PoleFaces /\ e[4] <= N3
                            THEN EMF1Sum(e[1], e[2], e[3]) \div N3 ELSE E1[e]]

AverageBoundaryEMF ==
    /\ options.emf = "average"
    /\ E1' = [e \in E1s |-> IF e[3] \in PoleFaces THEN EMF1Sum(e[1], e[2], e[3]) \div N3 ELSE E1[e]]

\* Mutant: the EMF along the pole is left as calculated
EMF3AtPole == E3' = E3

\* Both kinds of boundary leave no EMF along the pole itself, "since edge size is 0"
NoEMF3AtPole == E3' = [e \in E3s |-> IF e[3] \in PoleFaces THEN 0 ELSE E3[e]]

BoundaryEMF ==
    /\ at = "BoundaryEMF"
    /\ ZeroBoundaryEMF \/ AverageBoundaryEMF
    /\ NoEMF3AtPole
    /\ at' = "AddSource"
    /\ UNCHANGED <<options, faces, E2, steps>>

\* The circulation of the EMF around a face
Circ1(b, i, j, k) ==
    E3[<<b, i, j, k>>] - E3[<<b, i, j + 1, k>>] + E2[<<b, i, j, k + 1>>] - E2[<<b, i, j, k>>]

\* Mutant: the edges around the face are followed in different directions
Circ2Mixed(b, i, j, k) ==
    E3[<<b, i + 1, j, k>>] - E3[<<b, i, j, k>>] + E1[<<b, i, j, k + 1>>] - E1[<<b, i, j, k>>]

Circ2(b, i, j, k) ==
    E3[<<b, i + 1, j, k>>] - E3[<<b, i, j, k>>] - E1[<<b, i, j, k + 1>>] + E1[<<b, i, j, k>>]

Circ3(b, i, j, k) ==
    E2[<<b, i, j, k>>] - E2[<<b, i + 1, j, k>>] + E1[<<b, i, j + 1, k>>] - E1[<<b, i, j, k>>]

\* AddSource and the update of the state with what it found
AddSource ==
    /\ at = "AddSource"
    /\ F1' = [f \in F1s |-> F1[f] + Circ1(f[1], f[2], f[3], f[4])]
    /\ F2' = [f \in F2s |-> F2[f] + Circ2(f[1], f[2], f[3], f[4])]
    /\ F3' = [f \in F3s |-> F3[f] + Circ3(f[1], f[2], f[3], f[4])]
    /\ at' = IF options.excise THEN "ReconnectB3" ELSE "DerefinePoles"
    /\ UNCHANGED <<options, emf, steps>>

\* "Subtract the average B3 as reconnection": next to the pole, all around a block
F3Sum(b, i, j) == SumFunction([k \in 1 .. N3 |-> F3[<<b, i, j, k>>]])

ReconnectB3 ==
    /\ at = "ReconnectB3"
    /\ options.excise
    /\ F3' = [f \in F3s |-> IF ByPole(f[2], f[3])
                            THEN F3[f] - (F3Sum(f[1], f[2], f[3]) \div N3)
                            ELSE F3[f]]
    /\ at' = "DerefinePoles"
    /\ UNCHANGED <<options, F1, F2, emf, steps>>

\* Without internal mesh refinement, the substep is over
KeepPoles ==
    /\ at = "DerefinePoles"
    /\ options.levels = 0
    /\ at' = "CalculateEMF"
    /\ UNCHANGED <<options, faces, emf, steps>>

Next == CalculateEMF \/ ExchangeEMF \/ BoundaryEMF \/ AddSource \/ ReconnectB3 \/ KeepPoles

Spec == Init /\ [][Next]_vars

-----------------------------------------------------------------------------
TypeOK ==
    /\ options \in Options
    /\ F1 \in [F1s -> Int]
    /\ F2 \in [F2s -> Int]
    /\ F3 \in [F3s -> Int]
    /\ E1 \in [E1s -> Int]
    /\ E2 \in [E2s -> Int]
    /\ E3 \in [E3s -> Int]
    /\ at \in Operations
    /\ steps \in 0 .. MaxSteps

\* face_div: the flux out of a zone
Div(b, i, j, k) ==
    F1[<<b, i + 1, j, k>>] - F1[<<b, i, j, k>>]
    + F2[<<b, i, j + 1, k>>] - F2[<<b, i, j, k>>]
    + F3[<<b, i, j, k + 1>>] - F3[<<b, i, j, k>>]

(***************************************************************************)
(* Whatever the EMF, its treatment at the poles, and the operations on the *)
(* field next to them, no zone has a net flux out of it.                   *)
(***************************************************************************)
DivergenceFree ==
    \A b \in Blocks, i \in 1 .. N1, j \in 1 .. N2, k \in 1 .. N3 : Div(b, i, j, k) = 0

(***************************************************************************)
(* The two blocks (or the two ends of one block) at a face agree on the    *)
(* flux through it, though each of them updates a copy of its own.         *)
(***************************************************************************)
SharedFacesAgree ==
    \A b \in Blocks, i \in 1 .. N1, j \in 1 .. N2 :
        F3[<<b, i, j, N3 + 1>>] = F3[<<Next3(b), i, j, 1>>]

(***************************************************************************)
(* No flux goes through the pole, a face without an area; derefinement     *)
(* relies on it when it puts zero there.                                   *)
(***************************************************************************)
PoleClosed ==
    \A b \in Blocks, i \in 1 .. N1, j \in PoleFaces, k \in 1 .. N3 : F2[<<b, i, j, k>>] = 0
=============================================================================
