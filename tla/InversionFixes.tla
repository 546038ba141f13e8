--------------------------- MODULE InversionFixes ---------------------------
(* What a sub-step does with zones it cannot recover: the inversion of the   *)
(* conserved variables, floors, the ghost exchange, and the fixes that       *)
(* replace a failed zone by the mean of its good neighbors, by atmosphere or *)
(* by the backstop, on a mesh cut into blocks along X1.  The two drivers     *)
(* exchange at different places: kharma the conserved variables before the   *)
(* inversion, imex the primitive ones after it.  Beside the blocks "whole"   *)
(* keeps what one undivided block would compute.                             *)
(* A zone is <<i, j>> of the whole mesh; physical ghosts are one layer deep. *)
EXTENDS Integers, Sequences

CONSTANTS
    NBlocks,    \* blocks along X1, from one physical boundary to the other
    N,          \* columns of a block
    Rows,       \* rows of the mesh
    Ghosts,     \* ghost columns shared with a neighboring block
    Reach,      \* columns of ghosts reconstruction reads
    Decks,      \* [driver, scheme]
    Histories   \* what a run's sub-steps meet: sequences of [fail, rescue]

ASSUME FixesAssumption ==
    /\ NBlocks \in Nat \ {0} /\ N \in Nat \ {0} /\ Rows \in Nat \ {0}
    /\ Ghosts \in 1 .. N /\ Reach \in 1 .. (Ghosts - 1)
    /\ \A d \in Decks : d.driver \in {"kharma", "imex"}
    /\ \A d \in Decks : d.scheme = "solve" => d.driver = "imex"
    /\ \A h \in Histories : Len(h) \in Nat \ {0} /\ DOMAIN h = 1 .. Len(h)
    /\ \A h \in Histories : \A s \in DOMAIN h : h[s].rescue \subseteq h[s].fail

VARIABLES
    deck,       \* the driver and the inverter's options
    stage,
    history,    \* what each sub-step meets
    at,         \* block -> tasks of the sub-step it has done
    cons, prims,\* block -> zone -> value
    flag,       \* block -> zone -> pflag, or solve_fail
    todo,       \* block -> zones the running kernel has yet to visit
    whole       \* zone -> the primitives of an undivided mesh

vars == <<deck, stage, history, at, cons, prims, flag, todo, whole>>

trouble == history[stage]    \* zones that fail now, and those floors rescue

Blocks == 1 .. NBlocks
FirstColumn(b) == (b - 1) * N + 1
LastColumn(b) == b * N

Interior(b) == (FirstColumn(b) .. LastColumn(b)) \X (1 .. Rows)

(* Zones up to d columns into neighboring blocks, but no physical ghosts. *)
Within(b, d) ==
    ((IF b = 1 THEN 1 ELSE FirstColumn(b) - d) ..
     (IF b = NBlocks THEN LastColumn(b) ELSE LastColumn(b) + d)) \X (1 .. Rows)

PhysicalRange(b) == Within(b, Ghosts)

(* Everything the block stores: shared and physical ghosts. *)
Entire(b) ==
    ((IF b = 1 THEN 0 ELSE FirstColumn(b) - Ghosts) ..
     (IF b = NBlocks THEN LastColumn(b) + 1 ELSE LastColumn(b) + Ghosts)) \X (0 .. Rows + 1)

MeshZones == (1 .. NBlocks * N) \X (1 .. Rows)
MeshEntire == (0 .. (NBlocks * N + 1)) \X (0 .. Rows + 1)

OwnerOf(z) == CHOOSE b \in Blocks : z \in Interior(b)

(* The zone of the mesh an outflow boundary copies to z: z itself, inside. *)
Into(x, last) == IF x < 1 THEN 1 ELSE IF x > last THEN last ELSE x
BoundarySource(z) == <<Into(z[1], NBlocks * N), Into(z[2], Rows)>>

Ring(z) == {<<z[1] + l, z[2] + m>> : l \in -1 .. 1, m \in -1 .. 1}

(* Values are symbols: how a value was made, in which sub-step, for which    *)
(* zone and out of which others.  Conserved values: "updated" by the fluxes  *)
(* of this sub-step, or "of prims".                                          *)
Value(kind, z, from) == <<kind, stage, z, from>>
OfPrims(z, p) == <<"of prims", 0, z, {<<z, p>>}>>
Fresh(c) == c[1] = "updated" /\ c[2] = stage

Scheme == deck.scheme
Implicitly == Scheme = "solve"

(* Are flags among the exchanged variables? *)
FlagSynced == Implicitly \/ (deck.driver = "imex" /\ Scheme = "average")

Tasks ==
    IF deck.driver = "kharma"
    THEN <<"update", "sync", "recover", "floors", "fix", "refill", "bounds">>
    ELSE <<"update", "recover", "floors", "sync", "fix", "refill", "bounds">>

Due(b, task) == at[b] < Len(Tasks) /\ Tasks[at[b] + 1] = task
Done(b) == at' = [at EXCEPT ![b] = @ + 1]
Finished(b) == at[b] = Len(Tasks)

-----------------------------------------------------------------------------
(* The reference: the same sub-step of a mesh that is one block.             *)

WholeRecovered(z) ==
    IF Implicitly
    THEN IF z \in trouble.fail THEN whole[z] ELSE Value("solved", z, {<<z, whole[z]>>})
    ELSE IF z \notin trouble.fail THEN Value("recovered", z, {<<z, whole[z]>>})
         ELSE IF z \in trouble.rescue
              THEN Value("floored", z, {<<z, Value("failed", z, {})>>})
              ELSE Value("failed", z, {})

StaysBad == IF Implicitly THEN trouble.fail ELSE trouble.fail \ trouble.rescue

(* The zones a fix may take: all good ones around z, and with an implicit    *)
(* solve the boundary copies of good ones too.                               *)
WholeGood(z) ==
    {n \in Ring(z) : /\ n \in (IF Implicitly THEN MeshEntire ELSE MeshZones)
                     /\ BoundarySource(n) \notin StaysBad}

WholeFixed(z) ==
    IF z \notin StaysBad THEN WholeRecovered(z)
    ELSE IF Scheme = "backstop" THEN Value("backstop", z, {<<z, WholeRecovered(z)>>})
    ELSE IF Scheme = "atmosphere" \/ WholeGood(z) = {} THEN Value("floors", z, {})
    ELSE Value("mean", z, {<<n, WholeRecovered(BoundarySource(n))>> : n \in WholeGood(z)})

(* The undivided mesh after this sub-step, from what it was before. *)
WholeAfter == [z \in MeshEntire |-> WholeFixed(BoundarySource(z))]

-----------------------------------------------------------------------------
(* The tasks of a block.                                                     *)

(* Explicit update of the conserved variables, in the interior. *)
Update(b) ==
    /\ Due(b, "update") /\ Done(b)
    /\ cons' = [cons EXCEPT ![b] = [z \in Entire(b) |->
            IF z \in Interior(b) THEN Value("updated", z, {}) ELSE @[z]]]
    /\ UNCHANGED <<deck, stage, history, prims, flag, todo, whole>>

(* u_to_p starts from the primitive values it replaces; an old conserved     *)
(* state is the image of primitives and inverts.                             *)
Inverts(b, z) == Fresh(cons[b][z]) => z \notin trouble.fail
Inverted(b, z) ==
    IF ~Inverts(b, z) THEN Value("failed", z, {})
    ELSE Value(IF Fresh(cons[b][z]) THEN "recovered" ELSE "recovered late", z,
               {<<z, prims[b][z]>>})

(* The implicit solve returns a failed zone to where the sub-step began. *)
Solved(b, z) ==
    IF z \in trouble.fail THEN prims[b][z] ELSE Value("solved", z, {<<z, prims[b][z]>>})

UtoP(b) ==
    /\ ~Implicitly
    /\ prims' = [prims EXCEPT ![b] = [z \in Entire(b) |->
            IF z \in PhysicalRange(b) THEN Inverted(b, z) ELSE @[z]]]
    /\ flag' = [flag EXCEPT ![b] = [z \in Entire(b) |->
            IF z \in PhysicalRange(b) THEN ~Inverts(b, z) ELSE @[z]]]

Step(b) ==
    /\ Implicitly
    /\ prims' = [prims EXCEPT ![b] = [z \in Entire(b) |->
            IF z \in Interior(b) THEN Solved(b, z) ELSE @[z]]]
    /\ flag' = [flag EXCEPT ![b] = [z \in Entire(b) |->
            IF z \in Interior(b) THEN z \in trouble.fail ELSE @[z]]]

Recover(b) ==
    /\ Due(b, "recover") /\ Done(b)
    /\ UtoP(b) \/ Step(b)
    /\ UNCHANGED <<deck, stage, history, cons, todo, whole>>

(* Floors invert a flagged zone again after adding to it; where that         *)
(* succeeds the flag is cleared and the conserved variables follow.          *)
FloorRange(b) == IF deck.driver = "kharma" THEN Entire(b) ELSE Interior(b)
Rescued(b) == {z \in FloorRange(b) : ~Implicitly /\ flag[b][z] /\ z \in trouble.rescue}

ApplyFloors(b) ==
    /\ Due(b, "floors") /\ Done(b)
    /\ LET Lifted(z) == Value("floored", z, {<<z, prims[b][z]>>}) IN
       /\ prims' = [prims EXCEPT ![b] = [z \in Entire(b) |->
               IF z \in Rescued(b) THEN Lifted(z) ELSE @[z]]]
       /\ cons' = [cons EXCEPT ![b] = [z \in Entire(b) |->
               IF z \in Rescued(b) THEN OfPrims(z, Lifted(z)) ELSE @[z]]]
    /\ flag' = [flag EXCEPT ![b] = [z \in Entire(b) |-> @[z] /\ z \notin Rescued(b)]]
    /\ UNCHANGED <<deck, stage, history, todo, whole>>

(* Boundary conditions copy the nearest zone to the physical ghosts, ... *)
Bounded(b, f) ==
    [z \in Entire(b) |-> IF z \in PhysicalRange(b) THEN f[z] ELSE f[BoundarySource(z)]]

(* ... and the conserved variables there are computed from the copies. *)
WithBounds(b, c, p) ==
    [z \in Entire(b) |-> IF z \in PhysicalRange(b) THEN c[z] ELSE OfPrims(z, p[z])]

(* Every block's shared ghosts from their owners: in kharma conserved        *)
(* variables and the primitives the inversion starts from, in imex           *)
(* primitives; then the physical ghosts.                                     *)
FromOwners(f) == [b \in Blocks |-> [z \in Entire(b) |->
    IF z \in PhysicalRange(b) THEN f[OwnerOf(z)][z] ELSE f[b][z]]]

(* The variables a driver exchanges: GRMHD's primitives are filled in both,  *)
(* as the seed of the inversion in kharma.                                   *)
SeedSynced == TRUE

Sync ==
    /\ \A b \in Blocks : Due(b, "sync")
    /\ at' = [b \in Blocks |-> at[b] + 1]
    /\ LET filled == IF deck.driver = "imex" \/ SeedSynced THEN FromOwners(prims) ELSE prims
           sent == IF deck.driver = "kharma" THEN FromOwners(cons) ELSE cons
       IN  /\ prims' = [b \in Blocks |-> Bounded(b, filled[b])]
           /\ cons' = [b \in Blocks |-> WithBounds(b, sent[b], Bounded(b, filled[b]))]
    /\ flag' = IF FlagSynced
               THEN [b \in Blocks |-> Bounded(b, FromOwners(flag)[b])] ELSE flag
    /\ UNCHANGED <<deck, stage, history, todo, whole>>

(* FixUtoP works where the inversion did, FixSolve everywhere. *)
FixRange(b) == IF Implicitly THEN Entire(b) ELSE PhysicalRange(b)

Flagged(b) == {z \in FixRange(b) : flag[b][z]}

(* The kernel is launched on the flagged zones... *)
StartFix(b) ==
    /\ Due(b, "fix") /\ Done(b)
    /\ todo' = [todo EXCEPT ![b] = Flagged(b)]
    /\ UNCHANGED <<deck, stage, history, cons, prims, flag, whole>>

\* Mutant: a failed neighbor is counted like any other
AnyNeighbors(b, z) == Ring(z) \cap FixRange(b)

GoodNeighbors(b, z) == {n \in Ring(z) : n \in FixRange(b) /\ ~flag[b][n]}

Average(b, z) ==
    IF Scheme = "atmosphere" \/ GoodNeighbors(b, z) = {}
    THEN Value("floors", z, {})
    ELSE Value("mean", z, {<<n, prims[b][n]>> : n \in GoodNeighbors(b, z)})

Backstop(b, z) ==
    Value(IF Fresh(cons[b][z]) THEN "backstop" ELSE "backstop late", z, {<<z, prims[b][z]>>})

(* ... which its threads visit in any order, the flag staying as it was. *)
FixZone(b) ==
    /\ Due(b, "refill")
    /\ \E z \in todo[b] :
        /\ prims' = [prims EXCEPT ![b][z] =
                IF Scheme = "backstop" THEN Backstop(b, z) ELSE Average(b, z)]
        /\ todo' = [todo EXCEPT ![b] = @ \ {z}]
    /\ UNCHANGED <<deck, stage, history, at, cons, flag, whole>>

\* Mutant: conserved variables follow in the block's own zones only
RefilledInterior(b) == {z \in Interior(b) : flag[b][z]}

Refilled(b) == Flagged(b)

(* The second kernel, once the first is done: the conserved variables of the *)
(* zones that were fixed, which are the ones still flagged.                  *)
PtoUOfFixed(b) ==
    /\ Due(b, "refill") /\ todo[b] = {} /\ Done(b)
    /\ cons' = [cons EXCEPT ![b] = [z \in Entire(b) |->
            IF z \in Refilled(b) THEN OfPrims(z, prims[b][z]) ELSE @[z]]]
    /\ UNCHANGED <<deck, stage, history, prims, flag, todo, whole>>

(* Physical boundaries again; imex then computes all conserved variables. *)
ApplyBounds(b) ==
    /\ Due(b, "bounds") /\ Done(b)
    /\ LET p == Bounded(b, prims[b]) IN
       /\ prims' = [prims EXCEPT ![b] = p]
       /\ cons' = [cons EXCEPT ![b] =
            IF deck.driver = "imex" THEN [z \in Entire(b) |-> OfPrims(z, p[z])]
            ELSE WithBounds(b, @, p)]
    /\ UNCHANGED <<deck, stage, history, flag, todo, whole>>

(* The next sub-step of all blocks. *)
NextStage ==
    /\ \A b \in Blocks : Finished(b)
    /\ stage < Len(history)
    /\ stage' = stage + 1
    /\ at' = [b \in Blocks |-> 0]
    /\ whole' = WholeAfter
    /\ UNCHANGED <<deck, history, cons, prims, flag, todo>>

Old(z) == <<"initial", 0, BoundarySource(z), {}>>

Init ==
    /\ deck \in Decks /\ history \in Histories /\ stage = 1
    /\ at = [b \in Blocks |-> 0]
    /\ prims = [b \in Blocks |-> [z \in Entire(b) |-> Old(z)]]
    /\ cons = [b \in Blocks |-> [z \in Entire(b) |-> OfPrims(z, Old(z))]]
    /\ flag = [b \in Blocks |-> [z \in Entire(b) |-> FALSE]]
    /\ todo = [b \in Blocks |-> {}]
    /\ whole = [z \in MeshEntire |-> Old(z)]

Next ==
    \/ \E b \in Blocks :
        \/ Update(b) \/ Recover(b) \/ ApplyFloors(b) \/ StartFix(b) \/ FixZone(b)
        \/ PtoUOfFixed(b) \/ ApplyBounds(b)
    \/ Sync
    \/ NextStage

Spec == Init /\ [][Next]_vars

-----------------------------------------------------------------------------
(* Every zone a block stores has a value, every kernel works in its block,   *)
(* and blocks are in the same sub-step.                                      *)
TypeOK ==
    /\ deck \in Decks /\ history \in Histories /\ stage \in DOMAIN history
    /\ at \in [Blocks -> 0 .. Len(Tasks)]
    /\ DOMAIN prims = Blocks /\ DOMAIN cons = Blocks
    /\ DOMAIN flag = Blocks /\ DOMAIN todo = Blocks
    /\ \A b \in Blocks :
        /\ DOMAIN prims[b] = Entire(b) /\ DOMAIN cons[b] = Entire(b)
        /\ flag[b] \in [Entire(b) -> BOOLEAN]
        /\ todo[b] \subseteq FixRange(b)
    /\ DOMAIN whole = MeshEntire

(* At the end of a sub-step a block's own zones, and every ghost zone its    *)
(* reconstruction will read, hold what an undivided mesh would have computed *)
(* there: neither where the mesh was cut, nor which block was faster, nor    *)
(* the order in which a kernel's threads met neighboring failed zones shows. *)
(* It takes the flag staying set on a fixed zone, one more ghost zone than   *)
(* reconstruction needs, and ghosts inverted from the seeds of their owner.  *)
AsOneBlock ==
    \A b \in Blocks : Finished(b) =>
        \A z \in Entire(b) :
            BoundarySource(z) \in Within(b, Reach) => prims[b][z] = WholeAfter[z]

(* Conserved and primitive variables of a zone describe the same state: the  *)
(* ones were recovered from the others, or the others computed from them.    *)
Locked(b, z) ==
    \/ cons[b][z] = OfPrims(z, prims[b][z])
    \/ Fresh(cons[b][z]) /\ prims[b][z][1] = "recovered" /\ prims[b][z][2] = stage

(* At the end of a sub-step all zones a block stores are so, ghosts included,*)
(* although floors and fixes rewrite primitives zone by zone after the       *)
(* inversion and know the zones they changed by a flag only.                 *)
Lockstep == \A b \in Blocks : Finished(b) => \A z \in Entire(b) : Locked(b, z)
=============================================================================
