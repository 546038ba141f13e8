----------------------- MODULE MCConstrainedTransport -----------------------
EXTENDS StaticMeshRefinement

MCN1 == 2
MCN2 == 6       \* three levels of refinement at both poles
MCN3 == 8       \* the coarse cells of the row at the pole are as many zones long
MCMaxSteps == 2

\* Every division of a substep is exact: by N3 twice, by the coarse length once
MCGrain == [n \in 0 .. MCMaxSteps |-> (MCN3 * MCN3 * MCN3) ^ (MCMaxSteps - n)]
Unit == MCGrain[0]

\* All operations are linear, so that a wrong one shows on almost any EMF: fields
\* without a symmetry of the mesh, one after the other, and none at all
Value(a, b, seed, el, i, j, k) == Unit * (((((a * i) + (b * j) + (seed * k) + el) ^ 2 + (b * i * k)) % 11) - 5)
Force(seed) ==
    [E1 |-> [e \in E1s |-> Value(3, 5, seed, e[1], e[2], e[3], e[4])],
     E2 |-> [e \in E2s |-> Value(7, 2, seed, e[1] + 1, e[2], e[3], e[4])],
     E3 |-> [e \in E3s |-> Value(4, 6, seed, e[1] + 2, e[2], e[3], e[4])]]
NoForce == [E1 |-> [e \in E1s |-> 0], E2 |-> [e \in E2s |-> 0], E3 |-> [e \in E3s |-> 0]]
MCEMFs == LET table == {Force(seed) : seed \in 1 .. 4} \cup {NoForce} IN table

MCOptions == [emf : {"zero", "average"}, excise : BOOLEAN, levels : 0 .. 3]
MCUnrefined == [emf : {"average"}, excise : {FALSE}, levels : {0}]
=============================================================================
