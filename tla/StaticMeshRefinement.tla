------------------------ MODULE StaticMeshRefinement ------------------------
(***************************************************************************)
(* Internal static mesh refinement (ismr/, B_CT::DerefinePoles): after     *)
(* each substep, zones next to the poles are merged around X3 into coarse  *)
(* cells, two at the row farthest from the pole and twice as many at each  *)
(* row closer to it.  The field inside a coarse cell is replaced by the    *)
(* smoothest one with the same fluxes through the faces of the cell.       *)
(***************************************************************************)
EXTENDS ConstrainedTransport

CONSTANT Grain      \* per substeps taken, a unit that all fluxes are whole multiples of

Levels == options.levels

\* pow(2, n), as a recursive function
Pow2[n \in Nat] == IF n = 0 THEN 1 ELSE 2 * Pow2[n - 1]

\* Zones are merged at both poles without the two meeting, in whole coarse cells
ASSUME CoarseCellsAssumption ==
    \A o \in Options : N2 >= 2 * o.levels /\ N3 % Pow2[o.levels] = 0

\* The unit of a flux is small enough: a substep divides by N3 twice, once for each
\* average around a pole, and by a coarse cell's length, which divides N3
ASSUME ExactAssumption ==
    /\ Grain \in [0 .. MaxSteps -> Nat \ {0}]
    /\ \A n \in 0 .. MaxSteps - 1 : Grain[n] = N3 * N3 * N3 * Grain[n + 1]
    /\ \A force \in EMFs :
          /\ \A e \in E1s : force.E1[e] % Grain[0] = 0
          /\ \A e \in E2s : force.E2[e] % Grain[0] = 0
          /\ \A e \in E3s : force.E3[e] % Grain[0] = 0

\* Rows of zones between row j and its pole, and the faces of row j towards and
\* away from it
Depth(j) == Min({j - 1, N2 - j})
IsInner(j) == Depth(j) = j - 1
PoleSide(j) == IF IsInner(j) THEN j ELSE j + 1
FarSide(j) == IF IsInner(j) THEN j + 1 ELSE j

Rows == {j \in 1 .. N2 : Depth(j) < Levels}
CoarseLen(j) == Pow2[Levels - Depth(j)]
Fine(j, k) == (k - 1) % CoarseLen(j)
Start(j, k) == k - Fine(j, k)
Cell(j, k) == Start(j, k) .. Start(j, k) + CoarseLen(j) - 1

Flux1(b, i, j, zones) == SumFunction([q \in zones |-> F1[<<b, i, j, q>>]])
Flux2(b, i, j, zones) == SumFunction([q \in zones |-> F2[<<b, i, j, q>>]])

\* Mutant: the average starts at the zone itself, not at that of the coarse cell
MovingAverageF1(b, i, j, k) ==
    Flux1(b, i, j, {((q - 1) % N3) + 1 : q \in k .. k + CoarseLen(j) - 1}) \div CoarseLen(j)

AveragedF1(b, i, j, k) == Flux1(b, i, j, Cell(j, k)) \div CoarseLen(j)

\* "The fine cells have 0 fluxes through the physical-ghost boundaries"
AveragedF2(b, i, j, k) ==
    IF Depth(j) = 0 /\ ~options.excise THEN 0
    ELSE Flux2(b, i, PoleSide(j), Cell(j, k)) \div CoarseLen(j)

\* The face in the middle of a coarse cell takes half of what the halves leave
\* over; those between it and the faces of the coarse cell interpolate
CenterF3(b, i, j, k) ==
    LET half == CoarseLen(j) \div 2
        start == Start(j, k)
        left == Flux2(b, i, FarSide(j), start .. start + half - 1)
        right == Flux2(b, i, FarSide(j), start + half .. start + 2 * half - 1)
        point_out == IF IsInner(j) THEN 1 ELSE -1
    IN  (F3[<<b, i, j, start>>] + F3[<<b, i, j, start + 2 * half>>] + point_out * (right - left)) \div 2

InteriorF3(b, i, j, k) ==
    LET len == CoarseLen(j)
        half == len \div 2
        fine == Fine(j, k)
        start == F3[<<b, i, j, Start(j, k)>>]
        end == F3[<<b, i, j, Start(j, k) + len>>]
        center == CenterF3(b, i, j, k)
    IN  IF fine = 0 THEN F3[<<b, i, j, k>>]
        ELSE IF fine <= half THEN ((half - fine) * start + fine * center) \div half
        ELSE ((fine - half) * end + (len - fine) * center) \div half

\* The row whose coarse cells face f of X2 closes on the side of the pole
RowAt(f) == {j \in Rows : PoleSide(j) = f}

DerefinePoles ==
    /\ at = "DerefinePoles"
    /\ Levels > 0
    /\ F1' = [f \in F1s |-> IF f[3] \in Rows THEN AveragedF1(f[1], f[2], f[3], f[4]) ELSE F1[f]]
    /\ F2' = [f \in F2s |-> IF RowAt(f[3]) = {} THEN F2[f]
                            ELSE AveragedF2(f[1], f[2], CHOOSE j \in RowAt(f[3]) : TRUE, f[4])]
    /\ F3' = [f \in F3s |-> IF f[3] \in Rows THEN InteriorF3(f[1], f[2], f[3], f[4]) ELSE F3[f]]
    /\ at' = "CalculateEMF"
    /\ UNCHANGED <<options, emf, steps>>

RefinedNext == Next \/ DerefinePoles

RefinedSpec == Init /\ [][RefinedNext]_vars

-----------------------------------------------------------------------------
(***************************************************************************)
(* Merging zones moves no flux between coarse cells: what goes through     *)
(* each face of a coarse cell is the same before and after.                *)
(***************************************************************************)
CoarseFluxesKept ==
    [][at = "DerefinePoles" =>
         \A b \in Blocks, j \in Rows, k \in 1 .. N3 :
            /\ \A i \in 1 .. N1 + 1 :
                  Flux1(b, i, j, Cell(j, k))' = Flux1(b, i, j, Cell(j, k))
            /\ \A i \in 1 .. N1, f \in {j, j + 1} :
                  Flux2(b, i, f, Cell(j, k))' = Flux2(b, i, f, Cell(j, k))
            /\ \A i \in 1 .. N1 : F3'[<<b, i, j, Start(j, k)>>] = F3[<<b, i, j, Start(j, k)>>]]_vars
=============================================================================
