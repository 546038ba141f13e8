------------------------ MODULE InversionFixes_proofs ------------------------
(* Conserved and primitive variables stay in lockstep through floors and     *)
(* fixes, and blocks hold what an undivided mesh would, for any mesh, any    *)
(* failures and any length of run; and what floors leave of a zone.          *)
EXTENDS InversionFixes, ZoneFloors, TLAPS

(* Where a block of the kharma driver is within a sub-step, by the number of *)
(* tasks it has done: the update reached its own zones, the exchange its     *)
(* ghosts; after the inversion only flagged zones may be out of lockstep,    *)
(* and the kernel that changes primitives visits no other.                   *)
KharmaInv(b) ==
    /\ at[b] = 1 => \A z \in Interior(b) : Fresh(cons[b][z])
    /\ at[b] = 2 => \A z \in PhysicalRange(b) : Fresh(cons[b][z])
    /\ at[b] \in 3 .. 5 => \A z \in PhysicalRange(b) : flag[b][z] \/ Locked(b, z)
    /\ at[b] = 5 => todo[b] \subseteq Flagged(b)
    /\ at[b] = 6 => \A z \in PhysicalRange(b) : Locked(b, z)

LockInv ==
    /\ TypeOK
    /\ deck.driver = "kharma" => \A b \in Blocks : KharmaInv(b)
    /\ Lockstep

-----------------------------------------------------------------------------
(* The physical range of a block is part of what it stores. *)
LEMMA RangesNest ==
    \A b \in Blocks : /\ Interior(b) \subseteq PhysicalRange(b)
                      /\ PhysicalRange(b) \subseteq Entire(b)
BY FixesAssumption, SMTT(30)
DEF Blocks, Interior, PhysicalRange, Within, Entire, FirstColumn, LastColumn

(* Each zone of it is some block's own: ghosts reach no further than the     *)
(* neighboring block.                                                        *)
LEMMA EveryZoneOwned ==
    ASSUME NEW b \in Blocks, NEW z \in PhysicalRange(b)
    PROVE  OwnerOf(z) \in Blocks /\ z \in Interior(OwnerOf(z))
<1> DEFINE i == z[1]
           j == z[2]
<1>1. z = <<i, j>> /\ j \in 1 .. Rows
    BY DEF PhysicalRange, Within
<1>2. /\ b \in Int /\ b >= 1 /\ b <= NBlocks /\ N \in Int /\ Ghosts \in Int
      /\ FirstColumn(b) \in Int /\ LastColumn(b) = FirstColumn(b) + N - 1
    BY FixesAssumption, SMTT(30) DEF Blocks, FirstColumn, LastColumn
<1>3. /\ FirstColumn(b - 1) = FirstColumn(b) - N /\ LastColumn(b - 1) = FirstColumn(b) - 1
      /\ FirstColumn(b + 1) = LastColumn(b) + 1 /\ LastColumn(b + 1) = LastColumn(b) + N
    BY <1>2, SMTT(30) DEF FirstColumn, LastColumn
<1>4. /\ i \in Int
      /\ i >= (IF b = 1 THEN 1 ELSE FirstColumn(b) - Ghosts)
      /\ i <= (IF b = NBlocks THEN LastColumn(b) ELSE LastColumn(b) + Ghosts)
    BY <1>2, FixesAssumption DEF PhysicalRange, Within
<1>5. \E c \in Blocks : i \in FirstColumn(c) .. LastColumn(c)
    <2>1. CASE i < FirstColumn(b)
        <3>1. b # 1 /\ b - 1 \in Blocks
            <4>1. b = 1 => FirstColumn(b) = 1
                BY FixesAssumption DEF FirstColumn
            <4> QED BY <4>1, <2>1, <1>2, <1>4, FixesAssumption DEF Blocks
        <3>2. i \in FirstColumn(b - 1) .. LastColumn(b - 1)
            BY <3>1, <2>1, <1>2, <1>3, <1>4, FixesAssumption
        <3> QED BY <3>1, <3>2
    <2>2. CASE i > LastColumn(b)
        <3>1. b # NBlocks /\ b + 1 \in Blocks
            BY <2>2, <1>2, <1>4, FixesAssumption DEF Blocks
        <3>2. i \in FirstColumn(b + 1) .. LastColumn(b + 1)
            BY <3>1, <2>2, <1>2, <1>3, <1>4, FixesAssumption
        <3> QED BY <3>1, <3>2
    <2> QED BY <2>1, <2>2, <1>2, <1>4
<1>6. \E c \in Blocks : z \in Interior(c)
    BY <1>1, <1>5 DEF Interior
<1> QED BY <1>6 DEF OwnerOf

(* Where a block lies among the columns of the mesh. *)
LEMMA ColumnsCounted ==
    ASSUME NEW b \in Blocks
    PROVE  /\ FirstColumn(b) \in Int /\ LastColumn(b) \in Int /\ NBlocks * N \in Int
           /\ LastColumn(b) = FirstColumn(b) + N - 1
           /\ FirstColumn(b) >= 1 /\ LastColumn(b) <= NBlocks * N
           /\ b = 1 => FirstColumn(b) = 1
           /\ b = NBlocks => LastColumn(b) = NBlocks * N
           /\ b # 1 => FirstColumn(b) - Ghosts >= 1
           /\ b # NBlocks => LastColumn(b) + Ghosts <= NBlocks * N
<1>1. /\ b \in Int /\ b >= 1 /\ b <= NBlocks /\ N \in Int /\ Ghosts \in Int
      /\ Ghosts >= 1 /\ Ghosts <= N /\ NBlocks \in Int
    BY FixesAssumption DEF Blocks
<1>2. /\ FirstColumn(b) \in Int /\ LastColumn(b) = FirstColumn(b) + N - 1
      /\ LastColumn(b) \in Int /\ NBlocks * N \in Int
    BY <1>1, SMTT(30) DEF FirstColumn, LastColumn
<1>3. /\ b = 1 => FirstColumn(b) = 1
      /\ b = NBlocks => LastColumn(b) = NBlocks * N
    BY <1>1 DEF FirstColumn, LastColumn
<1>4. /\ b # 1 => FirstColumn(b) - Ghosts >= 1
      /\ b # NBlocks => LastColumn(b) + Ghosts <= NBlocks * N
    <2>1. ASSUME b # 1 PROVE (b - 1) * N >= N
        BY <2>1, <1>1, SMTT(30)
    <2>2. ASSUME b # NBlocks PROVE (b + 1) * N <= NBlocks * N /\ (b + 1) * N = b * N + N
        <3>1. NBlocks - (b + 1) >= 0
            BY <2>2, <1>1
        <3>2. (NBlocks - (b + 1)) * N >= 0
            BY <3>1, <1>1, SMTT(30)
        <3> QED BY <3>2, <1>1, SMTT(30)
    <2>3. b * N \in Int /\ (b - 1) * N \in Int /\ NBlocks * N \in Int
        BY <1>1
    <2> QED BY <2>1, <2>2, <2>3, <1>1 DEF FirstColumn, LastColumn
<1> QED BY <1>1, <1>2, <1>3, <1>4

(* The zone a boundary condition copies lies in the physical range of every  *)
(* block that stores the ghost.                                              *)
LEMMA BoundariesInside ==
    ASSUME NEW b \in Blocks, NEW z \in Entire(b), z \notin PhysicalRange(b)
    PROVE  BoundarySource(z) \in PhysicalRange(b)
<1> DEFINE i == z[1]
           j == z[2]
<1>1. /\ b \in Int /\ b >= 1 /\ b <= NBlocks /\ N \in Int /\ Ghosts \in Int /\ Rows \in Int
      /\ Ghosts >= 1 /\ Ghosts <= N /\ Rows >= 1 /\ NBlocks \in Int
    BY FixesAssumption DEF Blocks
<1>2. /\ FirstColumn(b) \in Int /\ LastColumn(b) \in Int
      /\ LastColumn(b) = FirstColumn(b) + N - 1
      /\ b = 1 => FirstColumn(b) = 1
      /\ b = NBlocks => LastColumn(b) = NBlocks * N
      /\ b # 1 => FirstColumn(b) - Ghosts >= 1
      /\ b # NBlocks => LastColumn(b) + Ghosts <= NBlocks * N
    BY ColumnsCounted
<1>3. /\ z = <<i, j>> /\ j \in 0 .. Rows + 1
      /\ i \in Int
      /\ i >= (IF b = 1 THEN 0 ELSE FirstColumn(b) - Ghosts)
      /\ i <= (IF b = NBlocks THEN LastColumn(b) + 1 ELSE LastColumn(b) + Ghosts)
    BY <1>1, <1>2 DEF Entire
<1>4. Into(j, Rows) \in 1 .. Rows
    BY <1>3, <1>1 DEF Into
<1>5. /\ Into(i, NBlocks * N) \in Int
      /\ Into(i, NBlocks * N) >= (IF b = 1 THEN 1 ELSE FirstColumn(b) - Ghosts)
      /\ Into(i, NBlocks * N) <= (IF b = NBlocks THEN LastColumn(b) ELSE LastColumn(b) + Ghosts)
    <2>1. NBlocks * N \in Int /\ NBlocks * N >= 1
        BY <1>1, SMTT(30)
    <2>2. LastColumn(b) >= 1 /\ FirstColumn(b) >= 1
        BY <1>1, ColumnsCounted
    <2>3. FirstColumn(b) <= NBlocks * N
        BY <1>1, <1>2
    <2> QED BY <2>1, <2>2, <2>3, <1>1, <1>2, <1>3 DEF Into
<1> QED BY <1>4, <1>5, <1>1, <1>2 DEF BoundarySource, PhysicalRange, Within

(* Within the mesh boundary conditions copy nothing. *)
LEMMA InsideCopiesItself ==
    ASSUME NEW b \in Blocks, NEW z \in PhysicalRange(b)
    PROVE  BoundarySource(z) = z /\ z \in MeshZones
<1>1. /\ N \in Int /\ Ghosts \in Int /\ Ghosts >= 1 /\ Rows \in Int
    BY FixesAssumption
<1>2. z = <<z[1], z[2]>> /\ z[1] \in Int /\ z[2] \in 1 .. Rows
      /\ z[1] >= 1 /\ z[1] <= NBlocks * N
    BY <1>1, ColumnsCounted DEF PhysicalRange, Within
<1>3. NBlocks * N \in Int
    BY ColumnsCounted
<1> QED BY <1>1, <1>2, <1>3 DEF BoundarySource, Into, MeshZones

(* Of the zones a fix may take for what reconstruction reads, a block stores *)
(* as many as the mesh has: that is the ghost zone more than it reads.       *)
LEMMA RingsStored ==
    ASSUME NEW b \in Blocks, NEW z \in Within(b, Reach), NEW n \in Ring(z)
    PROVE  /\ z \in PhysicalRange(b)
           /\ n \in PhysicalRange(b) <=> n \in MeshZones
           /\ n \in Entire(b) <=> n \in MeshEntire
<1>1. /\ N \in Int /\ Ghosts \in Int /\ Reach \in Int /\ Reach >= 1 /\ Reach + 1 <= Ghosts
      /\ Rows \in Int /\ Ghosts <= N /\ Rows >= 1
    BY FixesAssumption
<1>2. z = <<z[1], z[2]>> /\ z[1] \in Int /\ z[2] \in 1 .. Rows
      /\ z[1] >= (IF b = 1 THEN 1 ELSE FirstColumn(b) - Reach)
      /\ z[1] <= (IF b = NBlocks THEN LastColumn(b) ELSE LastColumn(b) + Reach)
    BY <1>1, ColumnsCounted DEF Within
<1>3. n = <<n[1], n[2]>> /\ n[1] \in Int /\ n[2] \in Int
      /\ n[1] >= z[1] - 1 /\ n[1] <= z[1] + 1 /\ n[2] >= z[2] - 1 /\ n[2] <= z[2] + 1
    BY <1>2 DEF Ring
<1>4. z \in PhysicalRange(b)
    BY <1>1, <1>2, ColumnsCounted DEF PhysicalRange, Within
<1>5. n \in PhysicalRange(b) <=> n \in MeshZones
    BY <1>1, <1>2, <1>3, ColumnsCounted DEF PhysicalRange, Within, MeshZones
<1>6. n \in Entire(b) <=> n \in MeshEntire
    BY <1>1, <1>2, <1>3, ColumnsCounted DEF Entire, MeshEntire
<1> QED BY<1>4,<1>5,<1>6

(* Both drivers' sub-steps have seven tasks; where the kharma driver's are.  *)
LEMMA TasksPlaced ==
    ASSUME TypeOK, NEW b \in Blocks
    PROVE  /\ Len(Tasks) = 7 /\ at[b] \in 0 .. 7
           /\ Finished(b) <=> at[b] = 7
           /\ Due(b, "bounds") => at[b] = 6
           /\ deck.driver = "kharma" =>
                /\ Due(b, "update") => at[b] = 0
                /\ Due(b, "sync") => at[b] = 1
                /\ Due(b, "recover") => at[b] = 2
                /\ Due(b, "floors") => at[b] = 3
                /\ Due(b, "fix") => at[b] = 4
                /\ Due(b, "refill") => at[b] = 5
           /\ \A t \in {"update", "sync", "recover", "floors", "fix", "refill"} :
                Due(b, t) => at[b] < 6
<1>1. Len(Tasks) = 7
    BY DEF Tasks
<1>2. at[b] \in 0 .. 7
    BY <1>1 DEF TypeOK
<1>3. Finished(b) <=> at[b] = 7
    BY <1>1 DEF Finished
<1>4. \A k \in 0 .. 6 : Tasks[k + 1] =
        IF deck.driver = "kharma"
        THEN <<"update", "sync", "recover", "floors", "fix", "refill", "bounds">>[k + 1]
        ELSE <<"update", "recover", "floors", "sync", "fix", "refill", "bounds">>[k + 1]
    BY DEF Tasks
<1>5. \A t : Due(b, t) => at[b] \in 0 .. 6 /\ Tasks[at[b] + 1] = t
    BY <1>1, <1>2 DEF Due
<1> QED BY <1>1, <1>2, <1>3, <1>4, <1>5

-----------------------------------------------------------------------------
(* Parameters and shape: every block keeps its zones and every kernel stays  *)
(* within its range.                                                         *)
LEMMA InitTyped == Init => TypeOK
<1> SUFFICES ASSUME Init PROVE TypeOK
    OBVIOUS
<1>1. 0 \in 0 .. Len(Tasks)
    BY DEF Tasks
<1>2. 1 \in DOMAIN history
    BY FixesAssumption DEF Init
<1> QED BY <1>1, <1>2 DEF Init, TypeOK

LEMMA NextTyped == TypeOK /\ [Next]_vars => TypeOK'
<1> SUFFICES ASSUME TypeOK, [Next]_vars PROVE TypeOK'
    OBVIOUS
<1>1. ASSUME deck' = deck PROVE /\ Tasks' = Tasks
                               /\ \A b \in Blocks : FixRange(b)' = FixRange(b)
    BY <1>1 DEF Tasks, FixRange, Implicitly, Scheme
<1>2. \A b \in Blocks : at[b] \in 0 .. 7 /\ Len(Tasks) = 7
    BY TasksPlaced
<1>3. ASSUME NEW b \in Blocks, NEW t, Due(b, t), Done(b), deck' = deck
      PROVE  at' \in [Blocks -> 0 .. Len(Tasks)]'
    BY <1>3, <1>2, <1>1 DEF Due, Done, TypeOK
<1>4. ASSUME NEW b \in Blocks, Update(b) PROVE TypeOK'
    BY <1>4, <1>1, <1>3 DEF Update, TypeOK
<1>5. ASSUME NEW b \in Blocks, Recover(b) PROVE TypeOK'
    <2>1. CASE UtoP(b)
        <3> DEFINE marked == [z \in Entire(b) |->
                IF z \in PhysicalRange(b) THEN ~Inverts(b, z) ELSE flag[b][z]]
        <3>1. \A z \in Entire(b) : flag[b][z] \in BOOLEAN /\ (~Inverts(b, z)) \in BOOLEAN
            BY DEF TypeOK
        <3>2. marked \in [Entire(b) -> BOOLEAN]
            BY <3>1
        <3>3. flag' = [flag EXCEPT ![b] = marked]
            BY <2>1 DEF UtoP
        <3> HIDE DEF marked
        <3>4. /\ DOMAIN flag' = Blocks
              /\ \A c \in Blocks : flag'[c] \in [Entire(c) -> BOOLEAN]
            BY <3>2, <3>3 DEF TypeOK
        <3>5. DOMAIN prims' = Blocks /\ \A c \in Blocks : DOMAIN prims'[c] = Entire(c)
            BY <2>1 DEF UtoP, TypeOK
        <3> QED BY <1>5, <1>1, <1>3, <3>4, <3>5 DEF Recover, TypeOK
    <2>2. CASE Step(b)
        <3> DEFINE marked == [z \in Entire(b) |->
                IF z \in Interior(b) THEN z \in trouble.fail ELSE flag[b][z]]
        <3>1. \A z \in Entire(b) : flag[b][z] \in BOOLEAN /\ (z \in trouble.fail) \in BOOLEAN
            BY DEF TypeOK
        <3>2. marked \in [Entire(b) -> BOOLEAN]
            BY <3>1
        <3>3. flag' = [flag EXCEPT ![b] = marked]
            BY <2>2 DEF Step
        <3> HIDE DEF marked
        <3>4. /\ DOMAIN flag' = Blocks
              /\ \A c \in Blocks : flag'[c] \in [Entire(c) -> BOOLEAN]
            BY <3>2, <3>3 DEF TypeOK
        <3>5. DOMAIN prims' = Blocks /\ \A c \in Blocks : DOMAIN prims'[c] = Entire(c)
            BY <2>2 DEF Step, TypeOK
        <3> QED BY <1>5, <1>1, <1>3, <3>4, <3>5 DEF Recover, TypeOK
    <2> QED BY <1>5, <2>1, <2>2 DEF Recover
<1>6. ASSUME NEW b \in Blocks, ApplyFloors(b) PROVE TypeOK'
    <2>1. \A c \in Blocks : flag'[c] \in [Entire(c) -> BOOLEAN]
        BY <1>6 DEF ApplyFloors, TypeOK
    <2>2. /\ DOMAIN prims' = Blocks /\ DOMAIN cons' = Blocks /\ DOMAIN flag' = Blocks
          /\ \A c \in Blocks : DOMAIN prims'[c] = Entire(c) /\ DOMAIN cons'[c] = Entire(c)
        BY <1>6 DEF ApplyFloors, TypeOK
    <2> QED BY <1>6, <1>1, <1>3, <2>1, <2>2 DEF ApplyFloors, TypeOK
<1>7. ASSUME NEW b \in Blocks, StartFix(b) PROVE TypeOK'
    <2>1. Flagged(b) \subseteq FixRange(b)
        BY DEF Flagged
    <2> QED BY <1>7, <1>1, <1>3, <2>1 DEF StartFix, TypeOK
<1>8. ASSUME NEW b \in Blocks, FixZone(b) PROVE TypeOK'
    BY <1>8, <1>1 DEF FixZone, TypeOK
<1>9. ASSUME NEW b \in Blocks, PtoUOfFixed(b) PROVE TypeOK'
    BY <1>9, <1>1, <1>3 DEF PtoUOfFixed, TypeOK
<1>10. ASSUME NEW b \in Blocks, ApplyBounds(b) PROVE TypeOK'
    <2>1. /\ DOMAIN prims' = Blocks /\ DOMAIN cons' = Blocks
          /\ \A c \in Blocks : DOMAIN prims'[c] = Entire(c) /\ DOMAIN cons'[c] = Entire(c)
        BY <1>10 DEF ApplyBounds, Bounded, WithBounds, TypeOK
    <2> QED BY <1>10, <1>1, <1>3, <2>1 DEF ApplyBounds, TypeOK
<1>11. CASE Sync
    <2>1. at' \in [Blocks -> 0 .. Len(Tasks)]'
        BY <1>11, <1>2, <1>1 DEF Sync, Due, TypeOK
    <2>2. /\ DOMAIN prims' = Blocks /\ DOMAIN cons' = Blocks
          /\ \A c \in Blocks : DOMAIN prims'[c] = Entire(c) /\ DOMAIN cons'[c] = Entire(c)
        BY <1>11 DEF Sync, Bounded, WithBounds
    <2>3. /\ DOMAIN flag' = Blocks
          /\ \A c \in Blocks : flag'[c] \in [Entire(c) -> BOOLEAN]
        <3>1. CASE FlagSynced
            <4> SUFFICES ASSUME NEW c \in Blocks, NEW z \in Entire(c)
                PROVE  flag'[c][z] \in BOOLEAN
                BY <1>11, <3>1 DEF Sync, Bounded, TypeOK
            <4> QED
                BY <1>11, <3>1, BoundariesInside, EveryZoneOwned, RangesNest
                DEF Sync, Bounded, FromOwners, TypeOK
        <3>2. CASE ~FlagSynced
            BY <1>11, <3>2 DEF Sync, TypeOK
        <3> QED BY <3>1, <3>2
    <2> QED BY <1>11, <1>1, <2>1, <2>2, <2>3 DEF Sync, TypeOK
<1>12. CASE NextStage
    <2>1. stage + 1 \in DOMAIN history
        BY <1>12, FixesAssumption DEF NextStage, TypeOK
    <2>2. at' \in [Blocks -> 0 .. Len(Tasks)]'
        <3>1. 0 \in 0 .. Len(Tasks)
            BY DEF Tasks
        <3> QED BY <1>12, <1>1, <3>1 DEF NextStage
    <2>3. DOMAIN whole' = MeshEntire
        BY <1>12 DEF NextStage, WholeAfter
    <2> QED BY <1>12, <1>1, <2>1, <2>2, <2>3 DEF NextStage, TypeOK
<1>13. CASE UNCHANGED vars
    BY <1>13, <1>1 DEF vars, TypeOK
<1> QED
    BY <1>4, <1>5, <1>6, <1>7, <1>8, <1>9, <1>10, <1>11, <1>12, <1>13 DEF Next

(* A run of this model never leaves the values and index ranges it declares, *)
(* in particular no fixing kernel is launched outside its range.             *)
THEOREM FixesTyped == Spec => []TypeOK
BY InitTyped, NextTyped, PTL DEF Spec

-----------------------------------------------------------------------------
(* Facts about a zone used in every step. *)
LEMMA LockedIfSame ==
    ASSUME NEW b \in Blocks, NEW z, Locked(b, z), stage' = stage,
           cons'[b][z] = cons[b][z], prims'[b][z] = prims[b][z]
    PROVE  Locked(b, z)'
BY DEF Locked, OfPrims, Fresh

LEMMA LockedIfComputed ==
    ASSUME NEW b \in Blocks, NEW z, cons'[b][z] = OfPrims(z, prims'[b][z])
    PROVE  Locked(b, z)'
BY DEF Locked, OfPrims

(* What a step of block c leaves alone in the other blocks. *)
LEMMA OthersKept ==
    ASSUME NEW b \in Blocks, NEW c \in Blocks, b # c, KharmaInv(b),
           deck' = deck, stage' = stage, at'[b] = at[b],
           cons'[b] = cons[b], prims'[b] = prims[b], flag'[b] = flag[b], todo'[b] = todo[b]
    PROVE  KharmaInv(b)'
<1>1. \A z : Locked(b, z)' = Locked(b, z)
    BY DEF Locked, OfPrims, Fresh
<1>2. \A z : Fresh(cons[b][z])' = Fresh(cons[b][z])
    BY DEF Fresh
<1>3. Flagged(b)' = Flagged(b)
    BY DEF Flagged, FixRange, Implicitly, Scheme
<1> QED BY <1>1, <1>2, <1>3 DEF KharmaInv

(* A step of one block that does not end its sub-step keeps Lockstep. *)
LEMMA LockstepKept ==
    ASSUME TypeOK, Lockstep, deck' = deck, stage' = stage, NEW c \in Blocks,
           at[c] < 7, at'[c] < 7,
           \A b \in Blocks \ {c} :
               at'[b] = at[b] /\ cons'[b] = cons[b] /\ prims'[b] = prims[b]
    PROVE  Lockstep'
<1>1. Len(Tasks) = 7 /\ Tasks' = Tasks
    BY DEF Tasks
<1> SUFFICES ASSUME NEW b \in Blocks, Finished(b)', NEW z \in Entire(b) PROVE Locked(b, z)'
    BY DEF Lockstep
<1>2. b # c
    BY <1>1 DEF Finished
<1>3. Finished(b)
    BY <1>1, <1>2 DEF Finished
<1>4. Locked(b, z)
    BY <1>3 DEF Lockstep
<1> QED BY <1>2, <1>4, LockedIfSame

(* In the kharma driver primitives come from an inversion, and fixes keep to *)
(* the physical range.                                                       *)
LEMMA KharmaExplicit ==
    ASSUME TypeOK, deck.driver = "kharma"
    PROVE  ~Implicitly /\ \A b \in Blocks : FixRange(b) = PhysicalRange(b)
BY FixesAssumption DEF TypeOK, Implicitly, Scheme, FixRange

-----------------------------------------------------------------------------
(* Each task of a block takes it to the next line of KharmaInv. *)
LEMMA UpdateKeeps ==
    ASSUME TypeOK, deck.driver = "kharma", NEW b \in Blocks, KharmaInv(b), Update(b)
    PROVE  KharmaInv(b)'
<1>1. at[b] = 0 /\ at'[b] = 1
    BY TasksPlaced DEF Update, Done, TypeOK
<1>2. \A z \in Interior(b) : Fresh(cons[b][z])'
    <2> SUFFICES ASSUME NEW z \in Interior(b) PROVE Fresh(cons[b][z])'
        OBVIOUS
    <2>1. z \in Entire(b)
        BY RangesNest
    <2>2. cons'[b][z] = Value("updated", z, {}) /\ stage' = stage
        BY <2>1 DEF Update, TypeOK
    <2> QED BY <2>2 DEF Fresh, Value
<1> QED BY <1>1, <1>2 DEF KharmaInv

LEMMA RecoverKeeps ==
    ASSUME TypeOK, deck.driver = "kharma", NEW b \in Blocks, KharmaInv(b), Recover(b)
    PROVE  KharmaInv(b)'
<1>1. at[b] = 2 /\ at'[b] = 3
    BY TasksPlaced DEF Recover, Done, TypeOK
<1>2. \A z \in PhysicalRange(b) : flag'[b][z] \/ Locked(b, z)'
    <2> SUFFICES ASSUME NEW z \in PhysicalRange(b), ~flag'[b][z] PROVE Locked(b, z)'
        OBVIOUS
    <2>1. UtoP(b) /\ cons' = cons /\ stage' = stage
        BY KharmaExplicit DEF Recover, Step
    <2>2. z \in Entire(b)
        BY RangesNest
    <2>3. Fresh(cons[b][z])
        BY <1>1 DEF KharmaInv
    <2>4. flag'[b][z] = ~Inverts(b, z) /\ prims'[b][z] = Inverted(b, z)
        BY <2>1, <2>2 DEF UtoP, TypeOK
    <2>5. prims'[b][z] = Value("recovered", z, {<<z, prims[b][z]>>})
        BY <2>3, <2>4 DEF Inverted
    <2>6. prims'[b][z][1] = "recovered" /\ prims'[b][z][2] = stage
        BY <2>5 DEF Value
    <2>7. Fresh(cons[b][z])'
        BY <2>1, <2>3 DEF Fresh
    <2> QED BY <2>1, <2>6, <2>7 DEF Locked
<1> QED BY <1>1, <1>2 DEF KharmaInv

LEMMA FloorsKeep ==
    ASSUME TypeOK, deck.driver = "kharma", NEW b \in Blocks, KharmaInv(b), ApplyFloors(b)
    PROVE  KharmaInv(b)'
<1>1. at[b] = 3 /\ at'[b] = 4
    BY TasksPlaced DEF ApplyFloors, Done, TypeOK
<1>2. \A z \in PhysicalRange(b) : flag'[b][z] \/ Locked(b, z)'
    <2> SUFFICES ASSUME NEW z \in PhysicalRange(b), ~flag'[b][z] PROVE Locked(b, z)'
        OBVIOUS
    <2>1. z \in Entire(b)
        BY RangesNest
    <2>2. CASE z \in Rescued(b)
        BY <2>1, <2>2, LockedIfComputed DEF ApplyFloors, TypeOK
    <2>3. CASE z \notin Rescued(b)
        <3>1. /\ prims'[b][z] = prims[b][z] /\ cons'[b][z] = cons[b][z] /\ stage' = stage
              /\ flag'[b][z] = (flag[b][z] /\ z \notin Rescued(b))
            BY <2>1, <2>3 DEF ApplyFloors, TypeOK
        <3>2. ~flag[b][z]
            BY <3>1, <2>3, Zenon
        <3>3. Locked(b, z)
            BY <3>2, <1>1 DEF KharmaInv
        <3> QED BY <3>1, <3>3, LockedIfSame
    <2> QED BY <2>2, <2>3
<1> QED BY <1>1, <1>2 DEF KharmaInv

LEMMA StartKeeps ==
    ASSUME TypeOK, deck.driver = "kharma", NEW b \in Blocks, KharmaInv(b), StartFix(b)
    PROVE  KharmaInv(b)'
<1>1. at[b] = 4 /\ at'[b] = 5
    BY TasksPlaced DEF StartFix, Done, TypeOK
<1>2. /\ flag' = flag /\ cons' = cons /\ prims' = prims /\ stage' = stage /\ deck' = deck
      /\ todo'[b] = Flagged(b)
    BY DEF StartFix, TypeOK
<1>3. todo'[b] \subseteq Flagged(b)'
    BY <1>2 DEF Flagged, FixRange, Implicitly, Scheme
<1>4. \A z \in PhysicalRange(b) : flag'[b][z] \/ Locked(b, z)'
    BY <1>1, <1>2, LockedIfSame DEF KharmaInv
<1> QED BY <1>1, <1>3, <1>4 DEF KharmaInv

LEMMA ZoneKeeps ==
    ASSUME TypeOK, deck.driver = "kharma", NEW b \in Blocks, KharmaInv(b), FixZone(b)
    PROVE  KharmaInv(b)'
<1>1. at[b] = 5 /\ at' = at
    BY TasksPlaced DEF FixZone
<1>2. PICK y \in todo[b] :
        /\ prims' = [prims EXCEPT ![b][y] =
                IF Scheme = "backstop" THEN Backstop(b, y) ELSE Average(b, y)]
        /\ todo' = [todo EXCEPT ![b] = @ \ {y}]
    BY DEF FixZone
<1>3. flag' = flag /\ cons' = cons /\ stage' = stage /\ deck' = deck
    BY DEF FixZone
<1>4. y \in Flagged(b) /\ Flagged(b)' = Flagged(b)
    BY <1>1, <1>2, <1>3 DEF KharmaInv, Flagged, FixRange, Implicitly, Scheme
<1>5. todo'[b] \subseteq Flagged(b)'
    BY <1>1, <1>2, <1>4 DEF KharmaInv, TypeOK
<1>6. \A z \in PhysicalRange(b) : flag'[b][z] \/ Locked(b, z)'
    <2> SUFFICES ASSUME NEW z \in PhysicalRange(b), ~flag'[b][z] PROVE Locked(b, z)'
        OBVIOUS
    <2>1. z # y
        BY <1>3, <1>4 DEF Flagged
    <2>2. prims'[b][z] = prims[b][z]
        BY <1>2, <2>1, RangesNest DEF TypeOK
    <2>3. Locked(b, z)
        BY <1>1, <1>3 DEF KharmaInv
    <2> QED BY <1>3, <2>2, <2>3, LockedIfSame
<1> QED BY <1>1, <1>5, <1>6 DEF KharmaInv

LEMMA RefillKeeps ==
    ASSUME TypeOK, deck.driver = "kharma", NEW b \in Blocks, KharmaInv(b), PtoUOfFixed(b)
    PROVE  KharmaInv(b)'
<1>1. at[b] = 5 /\ at'[b] = 6
    BY TasksPlaced DEF PtoUOfFixed, Done, TypeOK
<1>2. \A z \in PhysicalRange(b) : Locked(b, z)'
    <2> SUFFICES ASSUME NEW z \in PhysicalRange(b) PROVE Locked(b, z)'
        OBVIOUS
    <2>1. z \in Entire(b)
        BY RangesNest
    <2>2. prims' = prims /\ stage' = stage
        BY DEF PtoUOfFixed
    <2>3. cons'[b][z] = IF z \in Refilled(b) THEN OfPrims(z, prims[b][z]) ELSE cons[b][z]
        BY <2>1 DEF PtoUOfFixed, TypeOK
    <2>4. CASE flag[b][z]
        <3>1. z \in Refilled(b)
            BY <2>4, KharmaExplicit DEF Refilled, Flagged
        <3> QED BY <3>1, <2>2, <2>3, LockedIfComputed
    <2>5. CASE ~flag[b][z]
        <3>1. z \notin Refilled(b)
            BY <2>5 DEF Refilled, Flagged
        <3>2. Locked(b, z)
            BY <2>5, <1>1 DEF KharmaInv
        <3> QED BY <3>1, <3>2, <2>2, <2>3, LockedIfSame
    <2> QED BY <2>4, <2>5
<1> QED BY <1>1, <1>2 DEF KharmaInv

(* The last task: with the zones of the physical range in lockstep (kharma), *)
(* or whatever they were (imex), all zones are.                              *)
LEMMA BoundsLock ==
    ASSUME TypeOK, NEW b \in Blocks, ApplyBounds(b), NEW z \in Entire(b),
           deck.driver = "kharma" => KharmaInv(b)
    PROVE  Locked(b, z)'
<1>1. at[b] = 6
    BY TasksPlaced DEF ApplyBounds
<1>2. /\ prims'[b] = Bounded(b, prims[b]) /\ stage' = stage
      /\ cons'[b] = IF deck.driver = "imex"
                    THEN [y \in Entire(b) |-> OfPrims(y, Bounded(b, prims[b])[y])]
                    ELSE WithBounds(b, cons[b], Bounded(b, prims[b]))
    BY DEF ApplyBounds, TypeOK
<1>3. CASE deck.driver = "imex" \/ z \notin PhysicalRange(b)
    <2>1. cons'[b][z] = OfPrims(z, prims'[b][z])
        BY <1>2, <1>3 DEF WithBounds
    <2> QED BY <2>1, LockedIfComputed
<1>4. CASE deck.driver # "imex" /\ z \in PhysicalRange(b)
    <2>1. deck.driver = "kharma"
        BY <1>4, FixesAssumption DEF TypeOK
    <2>2. Locked(b, z)
        BY <1>1, <1>4, <2>1 DEF KharmaInv
    <2>3. prims'[b][z] = prims[b][z] /\ cons'[b][z] = cons[b][z]
        BY <1>2, <1>4 DEF Bounded, WithBounds
    <2> QED BY <1>2, <2>2, <2>3, LockedIfSame
<1> QED BY <1>3, <1>4

LEMMA SyncKeeps ==
    ASSUME TypeOK, deck.driver = "kharma", Sync, \A b \in Blocks : KharmaInv(b)
    PROVE  \A b \in Blocks : KharmaInv(b)'
<1> SUFFICES ASSUME NEW b \in Blocks PROVE KharmaInv(b)'
    OBVIOUS
<1>1. /\ \A c \in Blocks : at[c] = 1
      /\ at'[b] = 2
    BY TasksPlaced DEF Sync
<1>2. \A z \in PhysicalRange(b) : Fresh(cons[b][z])'
    <2> SUFFICES ASSUME NEW z \in PhysicalRange(b) PROVE Fresh(cons[b][z])'
        OBVIOUS
    <2>1. z \in Entire(b)
        BY RangesNest
    <2>2. cons'[b][z] = cons[OwnerOf(z)][z] /\ stage' = stage
        BY <2>1 DEF Sync, WithBounds, FromOwners
    <2>3. Fresh(cons[OwnerOf(z)][z])
        BY <1>1, EveryZoneOwned DEF KharmaInv
    <2> QED BY <2>2, <2>3 DEF Fresh
<1> QED BY <1>1, <1>2 DEF KharmaInv

-----------------------------------------------------------------------------
LEMMA InitLocked == Init => LockInv
<1> SUFFICES ASSUME Init PROVE LockInv
    OBVIOUS
<1>1. TypeOK
    BY InitTyped
<1>2. \A b \in Blocks : at[b] = 0
    BY DEF Init
<1>3. \A b \in Blocks : KharmaInv(b)
    BY <1>2 DEF KharmaInv
<1>4. Lockstep
    BY <1>1, <1>2, TasksPlaced DEF Lockstep
<1> QED BY <1>1, <1>3, <1>4 DEF LockInv

(* A task of one block keeps the invariant: its own part by the lemma of the *)
(* task, the other blocks' since it leaves them alone.                       *)
LEMMA TaskKeeps ==
    ASSUME LockInv, TypeOK', NEW c \in Blocks, deck' = deck, stage' = stage,
           deck.driver = "kharma" => KharmaInv(c)',
           at[c] < 7, at'[c] < 7,
           \A b \in Blocks \ {c} :
               /\ at'[b] = at[b] /\ cons'[b] = cons[b] /\ prims'[b] = prims[b]
               /\ flag'[b] = flag[b] /\ todo'[b] = todo[b]
    PROVE  LockInv'
<1>1. Lockstep'
    BY LockstepKept DEF LockInv
<1>2. deck.driver = "kharma" => \A b \in Blocks : KharmaInv(b)'
    BY OthersKept DEF LockInv
<1> QED BY <1>1, <1>2 DEF LockInv

LEMMA NextLocked == LockInv /\ [Next]_vars => LockInv'
<1> SUFFICES ASSUME LockInv, [Next]_vars PROVE LockInv'
    OBVIOUS
<1>1. TypeOK /\ TypeOK'
    BY NextTyped DEF LockInv
<1>2. \A c \in Blocks : deck.driver = "kharma" => KharmaInv(c)
    BY DEF LockInv
<1>3. ASSUME NEW c \in Blocks, Done(c), at[c] < 6
      PROVE  at[c] < 7 /\ at'[c] < 7 /\ \A b \in Blocks \ {c} : at'[b] = at[b]
    BY <1>1, <1>3, TasksPlaced DEF Done, TypeOK
<1>4. ASSUME NEW c \in Blocks, NEW t, Due(c, t),
             t \in {"update", "sync", "recover", "floors", "fix", "refill"}
      PROVE  at[c] < 6
    BY <1>1, <1>4, TasksPlaced
<1>5. ASSUME NEW c \in Blocks, Update(c) PROVE LockInv'
    <2>1. at[c] < 7 /\ at'[c] < 7 /\ \A b \in Blocks \ {c} : at'[b] = at[b]
        BY <1>3, <1>4, <1>5 DEF Update
    <2>2. \A b \in Blocks \ {c} : cons'[b] = cons[b]
        BY <1>1, <1>5 DEF Update, TypeOK
    <2> QED BY <1>1, <1>2, <1>5, <2>1, <2>2, UpdateKeeps, TaskKeeps DEF Update
<1>6. ASSUME NEW c \in Blocks, Recover(c) PROVE LockInv'
    <2>1. at[c] < 7 /\ at'[c] < 7 /\ \A b \in Blocks \ {c} : at'[b] = at[b]
        BY <1>3, <1>4, <1>6 DEF Recover
    <2>2. \A b \in Blocks \ {c} : prims'[b] = prims[b] /\ flag'[b] = flag[b]
        BY <1>1, <1>6 DEF Recover, UtoP, Step, TypeOK
    <2> QED BY <1>1, <1>2, <1>6, <2>1, <2>2, RecoverKeeps, TaskKeeps DEF Recover
<1>7. ASSUME NEW c \in Blocks, ApplyFloors(c) PROVE LockInv'
    <2>1. at[c] < 7 /\ at'[c] < 7 /\ \A b \in Blocks \ {c} : at'[b] = at[b]
        BY <1>3, <1>4, <1>7 DEF ApplyFloors
    <2>2. \A b \in Blocks \ {c} :
            prims'[b] = prims[b] /\ flag'[b] = flag[b] /\ cons'[b] = cons[b]
        BY <1>1, <1>7 DEF ApplyFloors, TypeOK
    <2> QED BY <1>1, <1>2, <1>7, <2>1, <2>2, FloorsKeep, TaskKeeps DEF ApplyFloors
<1>8. ASSUME NEW c \in Blocks, StartFix(c) PROVE LockInv'
    <2>1. at[c] < 7 /\ at'[c] < 7 /\ \A b \in Blocks \ {c} : at'[b] = at[b]
        BY <1>3, <1>4, <1>8 DEF StartFix
    <2>2. \A b \in Blocks \ {c} : todo'[b] = todo[b]
        BY <1>1, <1>8 DEF StartFix, TypeOK
    <2> QED BY <1>1, <1>2, <1>8, <2>1, <2>2, StartKeeps, TaskKeeps DEF StartFix
<1>9. ASSUME NEW c \in Blocks, FixZone(c) PROVE LockInv'
    <2>1. at[c] < 6 /\ at' = at
        BY <1>4, <1>9 DEF FixZone
    <2>2. \A b \in Blocks \ {c} : prims'[b] = prims[b] /\ todo'[b] = todo[b]
        BY <1>1, <1>9 DEF FixZone, TypeOK
    <2>3. at[c] < 7 /\ at'[c] < 7
        BY <2>1, <1>1, TasksPlaced
    <2> QED BY <1>1, <1>2, <1>9, <2>1, <2>2, <2>3, ZoneKeeps, TaskKeeps DEF FixZone
<1>10. ASSUME NEW c \in Blocks, PtoUOfFixed(c) PROVE LockInv'
    <2>1. at[c] < 7 /\ at'[c] < 7 /\ \A b \in Blocks \ {c} : at'[b] = at[b]
        BY <1>3, <1>4, <1>10 DEF PtoUOfFixed
    <2>2. \A b \in Blocks \ {c} : cons'[b] = cons[b]
        BY <1>1, <1>10 DEF PtoUOfFixed, TypeOK
    <2> QED BY <1>1, <1>2, <1>10, <2>1, <2>2, RefillKeeps, TaskKeeps DEF PtoUOfFixed
<1>11. ASSUME NEW c \in Blocks, ApplyBounds(c) PROVE LockInv'
    <2>1. at[c] = 6 /\ at'[c] = 7 /\ deck' = deck /\ stage' = stage
        BY <1>1, <1>11, TasksPlaced DEF ApplyBounds, Done, TypeOK
    <2>2. KharmaInv(c)'
        BY <2>1 DEF KharmaInv
    <2>3. ASSUME NEW b \in Blocks, b # c
          PROVE  /\ at'[b] = at[b] /\ cons'[b] = cons[b] /\ prims'[b] = prims[b]
                 /\ flag'[b] = flag[b] /\ todo'[b] = todo[b]
        BY <1>1, <1>11, <2>3 DEF ApplyBounds, Done, TypeOK
    <2>4. deck.driver = "kharma" => \A b \in Blocks : KharmaInv(b)'
        BY <1>2, <2>1, <2>2, <2>3, OthersKept
    <2>5. ASSUME NEW b \in Blocks, Finished(b)', NEW z \in Entire(b) PROVE Locked(b, z)'
        <3>1. CASE b = c
            BY <1>1, <1>2, <1>11, <2>5, <3>1, BoundsLock
        <3>2. CASE b # c
            <4>1. Finished(b)
                BY <2>1, <2>3, <2>5, <3>2 DEF Finished, Tasks
            <4>2. Locked(b, z)
                BY <4>1, <2>5 DEF LockInv, Lockstep
            <4> QED BY <2>1, <2>3, <3>2, <4>2, LockedIfSame
        <3> QED BY <3>1, <3>2
    <2>6. Lockstep'
        BY <2>5 DEF Lockstep
    <2> QED BY <1>1, <2>1, <2>4, <2>6 DEF LockInv
<1>12. CASE Sync
    <2>1. \A b \in Blocks : at'[b] < 7
        BY <1>1, <1>4, <1>12, TasksPlaced DEF Sync
    <2>2. deck' = deck
        BY <1>12 DEF Sync
    <2>3. Lockstep'
        BY <2>1, <2>2 DEF Lockstep, Finished, Tasks
    <2> QED BY <1>1, <1>2, <1>12, <2>2, <2>3, SyncKeeps DEF LockInv
<1>13. CASE NextStage
    <2>1. deck' = deck /\ \A b \in Blocks : at'[b] = 0
        BY <1>13 DEF NextStage
    <2>2. Lockstep'
        BY <2>1 DEF Lockstep, Finished, Tasks
    <2>3. \A b \in Blocks : KharmaInv(b)'
        BY <2>1 DEF KharmaInv
    <2> QED BY <1>1, <2>2, <2>3 DEF LockInv
<1>14. CASE UNCHANGED vars
    <2>1. \A b \in Blocks : deck.driver = "kharma" => KharmaInv(b)'
        BY <1>2, <1>14 DEF vars, KharmaInv, Locked, OfPrims, Fresh, Flagged, FixRange,
            Implicitly, Scheme
    <2>2. Lockstep'
        BY <1>14 DEF vars, LockInv, Lockstep, Finished, Tasks, Locked, OfPrims, Fresh
    <2> QED BY <1>1, <1>14, <2>1, <2>2 DEF vars, LockInv
<1> QED
    BY <1>5, <1>6, <1>7, <1>8, <1>9, <1>10, <1>11, <1>12, <1>13, <1>14 DEF Next

(* Lockstep: whichever zones fail, floors rescue or fixes rewrite, in        *)
(* whatever order, a sub-step ends with conserved and primitive variables    *)
(* of every stored zone describing one state.                                *)
THEOREM FixesKeepLockstep == Spec => []Lockstep
<1>1. LockInv => Lockstep
    BY DEF LockInv
<1> QED BY <1>1, InitLocked, NextLocked, PTL DEF Spec

-----------------------------------------------------------------------------
(* As one block.  What an inversion, or a solve, leaves in a zone of the     *)
(* undivided mesh before floors; and what a block has of it after each task: *)
(* the interior until the exchange, the ghosts as well after it.             *)
WholeInverted(z) ==
    IF Implicitly THEN WholeRecovered(z)
    ELSE IF z \in trouble.fail THEN Value("failed", z, {})
    ELSE Value("recovered", z, {<<z, whole[z]>>})

Begun(b, z) == prims[b][z] = whole[z]
InvertedAlike(b, z) ==
    (flag[b][z] <=> z \in trouble.fail) /\ prims[b][z] = WholeInverted(z)
FlooredAlike(b, z) ==
    /\ flag[b][z] <=> BoundarySource(z) \in StaysBad
    /\ ~flag[b][z] => prims[b][z] = WholeRecovered(BoundarySource(z))

KharmaAlike(b) ==
    /\ at[b] = 2 => \A z \in PhysicalRange(b) : Begun(b, z) /\ Fresh(cons[b][z])
    /\ at[b] = 3 => \A z \in PhysicalRange(b) : InvertedAlike(b, z)
    /\ at[b] \in 3 .. 5 => \A z \in PhysicalRange(b) : flag[b][z] => Fresh(cons[b][z])

ImExAlike(b) ==
    /\ at[b] = 2 => \A z \in Interior(b) : InvertedAlike(b, z)
    /\ at[b] = 3 => \A z \in Interior(b) :
          FlooredAlike(b, z) /\ prims[b][z] = WholeRecovered(z)

(* While the kernel of the fix is on, the zones it has still to visit are as *)
(* floors left them, and it takes from none that it visits.                  *)
FixedAlike(b) ==
    /\ at[b] \in 4 .. 5 => \A z \in FixRange(b) : FlooredAlike(b, z)
    /\ at[b] = 4 => \A z \in FixRange(b) : prims[b][z] = WholeRecovered(BoundarySource(z))
    /\ at[b] = 5 => /\ todo[b] \subseteq Flagged(b)
                    /\ \A z \in Within(b, Reach) :
                          prims[b][z] = IF z \in todo[b] THEN WholeRecovered(z)
                                        ELSE WholeFixed(z)
    /\ at[b] = 6 => \A z \in Within(b, Reach) : prims[b][z] = WholeFixed(z)

Alike(b) ==
    /\ at[b] \in 0 .. 1 => \A z \in Interior(b) : Begun(b, z)
    /\ at[b] = 1 => \A z \in Interior(b) : Fresh(cons[b][z])
    /\ deck.driver = "kharma" => KharmaAlike(b)
    /\ deck.driver = "imex" => ImExAlike(b)
    /\ FixedAlike(b)
    /\ at[b] = 7 => \A z \in Entire(b) :
          BoundarySource(z) \in Within(b, Reach) => prims[b][z] = WholeAfter[z]

AlikeInv == TypeOK /\ \A b \in Blocks : Alike(b)

LEMMA ImExTasksPlaced ==
    ASSUME TypeOK, deck.driver = "imex", NEW b \in Blocks
    PROVE  /\ Due(b, "update") => at[b] = 0
           /\ Due(b, "recover") => at[b] = 1
           /\ Due(b, "floors") => at[b] = 2
           /\ Due(b, "sync") => at[b] = 3
           /\ Due(b, "fix") => at[b] = 4
           /\ Due(b, "refill") => at[b] = 5
<1>1. at[b] \in 0 .. 7
    BY TasksPlaced
<1>2. \A k \in 0 .. 6 : Tasks[k + 1] =
        <<"update", "recover", "floors", "sync", "fix", "refill", "bounds">>[k + 1]
    BY DEF Tasks
<1>3. \A t : Due(b, t) => at[b] \in 0 .. 6 /\ Tasks[at[b] + 1] = t
    BY <1>1, TasksPlaced DEF Due
<1> QED BY <1>1, <1>2, <1>3

LEMMA EitherDriver == TypeOK => deck.driver \in {"kharma", "imex"}
BY FixesAssumption DEF TypeOK

(* The undivided mesh waits for the blocks. *)
LEMMA WholeSame ==
    ASSUME deck' = deck, stage' = stage, history' = history, whole' = whole
    PROVE  /\ \A z : /\ WholeInverted(z)' = WholeInverted(z)
                     /\ WholeRecovered(z)' = WholeRecovered(z)
                     /\ WholeFixed(z)' = WholeFixed(z)
           /\ trouble' = trouble /\ StaysBad' = StaysBad /\ WholeAfter' = WholeAfter
<1>1. /\ trouble' = trouble /\ StaysBad' = StaysBad /\ Scheme' = Scheme
      /\ Implicitly' = Implicitly
    BY DEF trouble, StaysBad, Scheme, Implicitly
<1>2. \A z : /\ WholeRecovered(z)' = WholeRecovered(z)
             /\ WholeInverted(z)' = WholeInverted(z)
    BY <1>1 DEF WholeInverted, WholeRecovered, Value
<1>3. \A z : WholeGood(z)' = WholeGood(z)
    BY <1>1 DEF WholeGood
<1>4. \A z : WholeFixed(z)' = WholeFixed(z)
    BY <1>1, <1>2, <1>3 DEF WholeFixed, Value
<1> QED BY <1>1, <1>2, <1>4 DEF WholeAfter

(* A task of another block is nothing to this one. *)
LEMMA AlikeElsewhere ==
    ASSUME NEW b \in Blocks, Alike(b),
           deck' = deck, stage' = stage, history' = history, whole' = whole,
           at'[b] = at[b], cons'[b] = cons[b], prims'[b] = prims[b], flag'[b] = flag[b],
           todo'[b] = todo[b]
    PROVE  Alike(b)'
<1>1. /\ \A z : /\ WholeInverted(z)' = WholeInverted(z)
                /\ WholeRecovered(z)' = WholeRecovered(z)
                /\ WholeFixed(z)' = WholeFixed(z)
      /\ trouble' = trouble /\ StaysBad' = StaysBad /\ WholeAfter' = WholeAfter
    BY WholeSame
<1>2. \A z : /\ Begun(b, z)' = Begun(b, z)
             /\ InvertedAlike(b, z)' = InvertedAlike(b, z)
             /\ FlooredAlike(b, z)' = FlooredAlike(b, z)
             /\ Fresh(cons[b][z])' = Fresh(cons[b][z])
    BY <1>1 DEF Begun, InvertedAlike, FlooredAlike, Fresh
<1>3. FixRange(b)' = FixRange(b) /\ Flagged(b)' = Flagged(b)
    BY DEF FixRange, Flagged, Implicitly, Scheme
<1>4. KharmaAlike(b)' = KharmaAlike(b)
    BY <1>2 DEF KharmaAlike
<1>5. ImExAlike(b)' = ImExAlike(b)
    BY <1>1, <1>2 DEF ImExAlike
<1>6. FixedAlike(b)'
    BY <1>1, <1>2, <1>3 DEF FixedAlike, Alike
<1> QED BY <1>1, <1>2, <1>4, <1>5, <1>6 DEF Alike

-----------------------------------------------------------------------------
LEMMA UpdateAlike ==
    ASSUME TypeOK, NEW b \in Blocks, Alike(b), Update(b)
    PROVE  Alike(b)'
<1>1. at[b] = 0 /\ at'[b] = 1
    BY TasksPlaced, ImExTasksPlaced, EitherDriver DEF Update, Done, TypeOK
<1>2. ASSUME NEW z \in Interior(b)
      PROVE  Begun(b, z)' /\ Fresh(cons[b][z])'
    <2>1. z \in Entire(b)
        BY RangesNest
    <2>2. cons'[b][z] = Value("updated", z, {}) /\ stage' = stage
        BY <2>1 DEF Update, TypeOK
    <2>3. prims' = prims /\ whole' = whole /\ Begun(b, z)
        BY <1>1 DEF Update, Alike
    <2> QED BY <2>2, <2>3 DEF Fresh, Value, Begun
<1> QED BY <1>1, <1>2 DEF Alike, KharmaAlike, ImExAlike, FixedAlike

(* An inversion takes a zone that starts as the mesh's to what it becomes    *)
(* there.                                                                    *)
LEMMA InvertsAlike ==
    ASSUME NEW b \in Blocks, NEW z, Begun(b, z), Fresh(cons[b][z]), ~Implicitly
    PROVE  /\ ~Inverts(b, z) <=> z \in trouble.fail
           /\ Inverted(b, z) = WholeInverted(z)
BY DEF Begun, Inverts, Inverted, WholeInverted

LEMMA RecoverAlike ==
    ASSUME TypeOK, NEW b \in Blocks, Alike(b), Recover(b)
    PROVE  Alike(b)'
<1>1. /\ deck' = deck /\ stage' = stage /\ history' = history /\ whole' = whole /\ cons' = cons
      /\ deck.driver = "kharma" => at[b] = 2 /\ at'[b] = 3
      /\ deck.driver = "imex" => at[b] = 1 /\ at'[b] = 2
    BY TasksPlaced, ImExTasksPlaced DEF Recover, Done, TypeOK
<1>2. trouble' = trouble /\ \A z : WholeInverted(z)' = WholeInverted(z)
    BY <1>1, WholeSame
<1>3. CASE deck.driver = "kharma"
    <2>1. UtoP(b) /\ ~Implicitly
        BY <1>3, KharmaExplicit DEF Recover, Step
    <2>2. ASSUME NEW z \in PhysicalRange(b)
          PROVE  InvertedAlike(b, z)' /\ Fresh(cons[b][z])'
        <3>1. Begun(b, z) /\ Fresh(cons[b][z])
            BY <1>1, <1>3 DEF Alike, KharmaAlike
        <3>2. flag'[b][z] = ~Inverts(b, z) /\ prims'[b][z] = Inverted(b, z)
            BY <2>1, RangesNest DEF UtoP, TypeOK
        <3>3. flag'[b][z] <=> z \in trouble.fail
            BY <2>1, <3>1, <3>2, InvertsAlike, Zenon
        <3>4. prims'[b][z] = WholeInverted(z)
            BY <2>1, <3>1, <3>2, InvertsAlike
        <3> QED BY <1>1, <1>2, <3>1, <3>3, <3>4 DEF InvertedAlike, Fresh
    <2>3. KharmaAlike(b)'
        BY <1>1, <1>3, <2>2 DEF KharmaAlike
    <2> QED BY <1>1, <1>3, <2>3 DEF Alike, FixedAlike
<1>4. CASE deck.driver = "imex"
    <2>1. ASSUME NEW z \in Interior(b) PROVE InvertedAlike(b, z)'
        <3>1. Begun(b, z) /\ Fresh(cons[b][z]) /\ z \in PhysicalRange(b) /\ z \in Entire(b)
            BY <1>1, <1>4, RangesNest DEF Alike
        <3>2. CASE UtoP(b)
            <4>1. flag'[b][z] = ~Inverts(b, z) /\ prims'[b][z] = Inverted(b, z)
                BY <3>1, <3>2 DEF UtoP, TypeOK
            <4>2. ~Implicitly
                BY <3>2 DEF UtoP
            <4>3. flag'[b][z] <=> z \in trouble.fail
                BY <3>1, <4>1, <4>2, InvertsAlike, Zenon
            <4>4. prims'[b][z] = WholeInverted(z)
                BY <3>1, <4>1, <4>2, InvertsAlike
            <4> QED BY <1>2, <4>3, <4>4 DEF InvertedAlike
        <3>3. CASE Step(b)
            <4>1. flag'[b][z] = (z \in trouble.fail) /\ prims'[b][z] = Solved(b, z)
                BY <3>1, <3>3 DEF Step, TypeOK
            <4>2. Solved(b, z) = WholeInverted(z)
                BY <3>1, <3>3 DEF Step, Solved, WholeInverted, WholeRecovered, Begun
            <4>3. flag'[b][z] <=> z \in trouble.fail
                BY <4>1, Zenon
            <4> QED BY <1>2, <4>1, <4>2, <4>3 DEF InvertedAlike
        <3> QED BY <3>2, <3>3 DEF Recover
    <2>2. ImExAlike(b)'
        BY <1>1, <1>4, <2>1 DEF ImExAlike
    <2> QED BY <1>1, <1>4, <2>2 DEF Alike, FixedAlike
<1> QED BY <1>3, <1>4, EitherDriver

(* What floors rescue of a zone inverted as in the undivided mesh. *)
LEMMA FloorsAlikeIn ==
    ASSUME TypeOK, NEW b \in Blocks, NEW z \in Entire(b), z \in FloorRange(b),
           InvertedAlike(b, z), ApplyFloors(b)
    PROVE  /\ flag'[b][z] <=> z \in StaysBad
           /\ prims'[b][z] = WholeRecovered(z)
           /\ flag'[b][z] => cons'[b][z] = cons[b][z]
<1>1. /\ flag'[b][z] = (flag[b][z] /\ z \notin Rescued(b))
      /\ prims'[b][z] = IF z \in Rescued(b) THEN Value("floored", z, {<<z, prims[b][z]>>})
                        ELSE prims[b][z]
      /\ z \notin Rescued(b) => cons'[b][z] = cons[b][z]
    BY DEF ApplyFloors, TypeOK
<1>2. z \in Rescued(b) <=> ~Implicitly /\ flag[b][z] /\ z \in trouble.rescue
    BY DEF Rescued
<1>3. flag[b][z] <=> z \in trouble.fail
    BY DEF InvertedAlike
<1>4. trouble.rescue \subseteq trouble.fail
    BY FixesAssumption DEF TypeOK, trouble
<1>5. flag'[b][z] <=> z \in StaysBad
    BY <1>1, <1>2, <1>3, Zenon DEF StaysBad
<1>6. flag'[b][z] => cons'[b][z] = cons[b][z]
    BY <1>1, Zenon
<1>7. prims'[b][z] = WholeRecovered(z)
    <2>1. CASE Implicitly
        BY <1>1, <1>2, <2>1 DEF InvertedAlike, WholeInverted
    <2>2. CASE ~Implicitly
        BY <1>1, <1>2, <1>3, <1>4, <2>2 DEF InvertedAlike, WholeInverted, WholeRecovered
    <2> QED BY <2>1, <2>2
<1> QED BY <1>5, <1>6, <1>7

LEMMA FloorsAlike ==
    ASSUME TypeOK, NEW b \in Blocks, Alike(b), ApplyFloors(b)
    PROVE  Alike(b)'
<1>1. /\ deck' = deck /\ stage' = stage /\ history' = history /\ whole' = whole
      /\ deck.driver = "kharma" => at[b] = 3 /\ at'[b] = 4
      /\ deck.driver = "imex" => at[b] = 2 /\ at'[b] = 3
    BY TasksPlaced, ImExTasksPlaced DEF ApplyFloors, Done, TypeOK
<1>2. StaysBad' = StaysBad /\ \A z : WholeRecovered(z)' = WholeRecovered(z)
    BY <1>1, WholeSame
<1>3. CASE deck.driver = "kharma"
    <2>1. ASSUME NEW z \in PhysicalRange(b)
          PROVE  /\ FlooredAlike(b, z)' /\ prims'[b][z] = WholeRecovered(BoundarySource(z))
                 /\ flag'[b][z] => Fresh(cons[b][z])'
        <3>1. InvertedAlike(b, z) /\ (flag[b][z] => Fresh(cons[b][z]))
            BY <1>1, <1>3 DEF Alike, KharmaAlike
        <3>2. z \in Entire(b) /\ z \in FloorRange(b) /\ BoundarySource(z) = z
            BY <1>3, RangesNest, InsideCopiesItself DEF FloorRange
        <3>3. /\ flag'[b][z] <=> z \in StaysBad
              /\ prims'[b][z] = WholeRecovered(z)
              /\ flag'[b][z] => cons'[b][z] = cons[b][z]
            BY <3>1, <3>2, FloorsAlikeIn
        <3>4. flag'[b][z] => flag[b][z]
            <4>1. flag'[b][z] = (flag[b][z] /\ z \notin Rescued(b))
                BY <3>2 DEF ApplyFloors, TypeOK
            <4> QED BY <4>1, Zenon
        <3> QED BY <1>1, <1>2, <3>1, <3>2, <3>3, <3>4 DEF FlooredAlike, Fresh
    <2>2. KharmaAlike(b)'
        BY <1>1, <1>3, <2>1 DEF KharmaAlike
    <2>3. FixedAlike(b)'
        <3>1. FixRange(b)' = PhysicalRange(b)
            BY <1>1, <1>3, KharmaExplicit DEF FixRange, Implicitly, Scheme
        <3> QED BY <1>1, <1>2, <1>3, <2>1, <3>1 DEF FixedAlike
    <2> QED BY <1>1, <1>3, <2>2, <2>3 DEF Alike
<1>4. CASE deck.driver = "imex"
    <2>1. ASSUME NEW z \in Interior(b)
          PROVE  FlooredAlike(b, z)' /\ prims'[b][z] = WholeRecovered(z)
        <3>1. InvertedAlike(b, z)
            BY <1>1, <1>4 DEF Alike, ImExAlike
        <3>2. z \in Entire(b) /\ z \in FloorRange(b) /\ BoundarySource(z) = z
            BY <1>4, RangesNest, InsideCopiesItself DEF FloorRange
        <3> QED BY <1>2, <3>1, <3>2, FloorsAlikeIn DEF FlooredAlike
    <2>2. ImExAlike(b)'
        BY <1>1, <1>2, <1>4, <2>1 DEF ImExAlike
    <2> QED BY <1>1, <1>4, <2>2 DEF Alike, FixedAlike
<1> QED BY <1>3, <1>4, EitherDriver

(* The inverters whose flags the imex driver exchanges. *)
FlagsTravel == \A d \in Decks : d.driver = "imex" => d.scheme \in {"average", "solve"}

(* The exchange brings ghosts from a block that has come as far. *)
LEMMA SyncAlike ==
    ASSUME TypeOK, FlagsTravel, Sync, \A b \in Blocks : Alike(b)
    PROVE  \A b \in Blocks : Alike(b)'
<1> SUFFICES ASSUME NEW b \in Blocks PROVE Alike(b)'
    OBVIOUS
<1>1. /\ deck' = deck /\ stage' = stage /\ history' = history /\ whole' = whole
      /\ deck.driver = "kharma" => at'[b] = 2 /\ \A c \in Blocks : at[c] = 1
      /\ deck.driver = "imex" => at'[b] = 4 /\ \A c \in Blocks : at[c] = 3
    BY TasksPlaced, ImExTasksPlaced DEF Sync, TypeOK
<1>2. /\ trouble' = trouble /\ StaysBad' = StaysBad
      /\ \A z : WholeRecovered(z)' = WholeRecovered(z)
    BY <1>1, WholeSame
<1>3. prims'[b] = Bounded(b, FromOwners(prims)[b])
    BY DEF Sync, SeedSynced
<1>4. CASE deck.driver = "kharma"
    <2>1. ASSUME NEW z \in PhysicalRange(b) PROVE Begun(b, z)' /\ Fresh(cons[b][z])'
        <3>1. z \in Entire(b) /\ OwnerOf(z) \in Blocks /\ z \in Interior(OwnerOf(z))
            BY RangesNest, EveryZoneOwned
        <3>2. prims'[b][z] = prims[OwnerOf(z)][z]
            BY <1>3, <3>1 DEF Bounded, FromOwners
        <3>3. cons'[b][z] = cons[OwnerOf(z)][z]
            BY <1>4, <3>1 DEF Sync, WithBounds, FromOwners
        <3>4. Begun(OwnerOf(z), z) /\ Fresh(cons[OwnerOf(z)][z])
            BY <1>1, <1>4, <3>1 DEF Alike
        <3> QED BY <1>1, <3>2, <3>3, <3>4 DEF Begun, Fresh
    <2>2. KharmaAlike(b)'
        BY <1>1, <1>4, <2>1 DEF KharmaAlike
    <2> QED BY <1>1, <1>4, <2>2 DEF Alike, FixedAlike
<1>5. CASE deck.driver = "imex"
    <2>1. FlagSynced
        BY <1>5 DEF FlagSynced, FlagsTravel, Implicitly, Scheme, TypeOK
    <2>2. flag'[b] = Bounded(b, FromOwners(flag)[b])
        BY <2>1 DEF Sync
    <2>3. ASSUME NEW z \in Entire(b)
          PROVE  FlooredAlike(b, z)' /\ prims'[b][z] = WholeRecovered(BoundarySource(z))
        <3> DEFINE s == BoundarySource(z)
        <3>1. s \in PhysicalRange(b) /\ (z \in PhysicalRange(b) => s = z)
            BY InsideCopiesItself, BoundariesInside
        <3>2. s \in Entire(b) /\ OwnerOf(s) \in Blocks /\ s \in Interior(OwnerOf(s))
            BY <3>1, RangesNest, EveryZoneOwned
        <3>3. prims'[b][z] = FromOwners(prims)[b][s] /\ flag'[b][z] = FromOwners(flag)[b][s]
            BY <1>3, <2>2, <3>1 DEF Bounded
        <3>4. prims'[b][z] = prims[OwnerOf(s)][s] /\ flag'[b][z] = flag[OwnerOf(s)][s]
            BY <3>1, <3>2, <3>3 DEF FromOwners
        <3>5. FlooredAlike(OwnerOf(s), s) /\ prims[OwnerOf(s)][s] = WholeRecovered(s)
            BY <1>1, <1>5, <3>2 DEF Alike, ImExAlike
        <3>6. BoundarySource(s) = s
            BY <3>1, InsideCopiesItself
        <3> HIDE DEF s
        <3>7. flag'[b][z] <=> s \in StaysBad
            BY <3>4, <3>5, <3>6 DEF FlooredAlike
        <3> QED BY <1>2, <3>4, <3>5, <3>7 DEF FlooredAlike, s
    <2>4. FixedAlike(b)'
        <3>1. \A z \in FixRange(b)' : z \in Entire(b)
            BY RangesNest DEF FixRange
        <3> QED BY <1>1, <1>2, <1>5, <2>3, <3>1 DEF FixedAlike
    <2> QED BY <1>1, <1>5, <2>4 DEF Alike, ImExAlike
<1> QED BY <1>4, <1>5, EitherDriver

-----------------------------------------------------------------------------
(* What reconstruction reads lies within the mesh and where the fix works. *)
LEMMA ReachInside ==
    ASSUME NEW b \in Blocks, NEW z \in Within(b, Reach)
    PROVE  /\ z \in PhysicalRange(b) /\ z \in Entire(b) /\ z \in FixRange(b)
           /\ BoundarySource(z) = z
<1>1. /\ N \in Int /\ Ghosts \in Int /\ Reach \in Int /\ Reach >= 1 /\ Reach + 1 <= Ghosts
      /\ Rows \in Int
    BY FixesAssumption
<1>2. z \in PhysicalRange(b)
    BY <1>1, ColumnsCounted DEF PhysicalRange, Within
<1> QED BY <1>2, RangesNest, InsideCopiesItself DEF FixRange

LEMMA OwnInReach == \A b \in Blocks : Interior(b) \subseteq Within(b, Reach)
<1> SUFFICES ASSUME NEW b \in Blocks, NEW z \in Interior(b) PROVE z \in Within(b, Reach)
    OBVIOUS
<1>1. Reach \in Int /\ Reach >= 1
    BY FixesAssumption
<1> QED BY <1>1, ColumnsCounted DEF Interior, Within

LEMMA StoredOfMesh == \A b \in Blocks : Entire(b) \subseteq MeshEntire
<1> SUFFICES ASSUME NEW b \in Blocks, NEW z \in Entire(b) PROVE z \in MeshEntire
    OBVIOUS
<1>1. /\ N \in Int /\ Ghosts \in Int /\ Ghosts >= 1 /\ N >= 1
    BY FixesAssumption
<1> QED BY <1>1, ColumnsCounted DEF Entire, MeshEntire

(* Where either driver's tasks of the fix are. *)
LEMMA FixPlaced ==
    ASSUME TypeOK, NEW b \in Blocks
    PROVE  /\ Due(b, "fix") => at[b] = 4
           /\ Due(b, "refill") => at[b] = 5
BY TasksPlaced, ImExTasksPlaced, EitherDriver

LEMMA StartAlike ==
    ASSUME TypeOK, NEW b \in Blocks, Alike(b), StartFix(b)
    PROVE  Alike(b)'
<1>1. /\ deck' = deck /\ stage' = stage /\ history' = history /\ whole' = whole
      /\ at[b] = 4 /\ at'[b] = 5
      /\ prims' = prims /\ cons' = cons /\ flag' = flag /\ todo'[b] = Flagged(b)
    BY FixPlaced DEF StartFix, Done, TypeOK
<1>2. /\ StaysBad' = StaysBad
      /\ \A z : /\ WholeRecovered(z)' = WholeRecovered(z)
                /\ WholeFixed(z)' = WholeFixed(z)
    BY <1>1, WholeSame
<1>3. /\ Flagged(b)' = Flagged(b) /\ FixRange(b)' = FixRange(b)
      /\ \A z : FlooredAlike(b, z)' = FlooredAlike(b, z)
      /\ \A z : Fresh(cons[b][z])' = Fresh(cons[b][z])
    BY <1>1, <1>2 DEF Flagged, FixRange, Implicitly, Scheme, FlooredAlike, Fresh
<1>4. ASSUME NEW z \in Within(b, Reach)
      PROVE  prims[b][z] = IF z \in Flagged(b) THEN WholeRecovered(z) ELSE WholeFixed(z)
    <2>1. z \in FixRange(b) /\ BoundarySource(z) = z
        BY ReachInside
    <2>2. FlooredAlike(b, z) /\ prims[b][z] = WholeRecovered(z)
        BY <1>1, <2>1 DEF Alike, FixedAlike
    <2>3. z \notin Flagged(b) => z \notin StaysBad
        BY <2>1, <2>2 DEF Flagged, FlooredAlike
    <2> QED BY <2>2, <2>3 DEF WholeFixed
<1>5. FixedAlike(b)'
    BY <1>1, <1>2, <1>3, <1>4 DEF Alike, FixedAlike
<1>6. KharmaAlike(b)' \/ deck.driver # "kharma"
    BY <1>1, <1>3 DEF Alike, KharmaAlike
<1> QED BY <1>1, <1>5, <1>6 DEF Alike, ImExAlike

(* What the fix makes of a zone is what it makes of it in the whole mesh:    *)
(* it finds the same neighbors good, and finds them as floors left them.     *)
LEMMA SameNeighbors ==
    ASSUME NEW b \in Blocks, Alike(b), at[b] = 5, NEW y \in Within(b, Reach)
    PROVE  GoodNeighbors(b, y) = WholeGood(y)
<1> SUFFICES ASSUME NEW n \in Ring(y)
    PROVE  (n \in FixRange(b) /\ ~flag[b][n]) <=>
           (n \in (IF Implicitly THEN MeshEntire ELSE MeshZones) /\ BoundarySource(n) \notin StaysBad)
    BY DEF GoodNeighbors, WholeGood
<1>1. n \in FixRange(b) <=> n \in (IF Implicitly THEN MeshEntire ELSE MeshZones)
    BY RingsStored DEF FixRange
<1>2. n \in FixRange(b) => (flag[b][n] <=> BoundarySource(n) \in StaysBad)
    BY DEF Alike, FixedAlike, FlooredAlike
<1> QED BY <1>1, <1>2, Zenon

LEMMA FixedAsWhole ==
    ASSUME TypeOK, FlagsTravel, NEW b \in Blocks, Alike(b), at[b] = 5,
           NEW y \in todo[b], y \in Within(b, Reach)
    PROVE  (IF Scheme = "backstop" THEN Backstop(b, y) ELSE Average(b, y)) = WholeFixed(y)
<1>1. y \in FixRange(b) /\ flag[b][y] /\ y \in PhysicalRange(b) /\ BoundarySource(y) = y
    BY ReachInside DEF Alike, FixedAlike, Flagged
<1>2. y \in StaysBad /\ prims[b][y] = WholeRecovered(y)
    BY <1>1 DEF Alike, FixedAlike, FlooredAlike
<1>3. CASE Scheme = "backstop"
    <2>1. deck.driver = "kharma"
        BY <1>3, EitherDriver DEF FlagsTravel, TypeOK, Scheme
    <2>2. Fresh(cons[b][y])
        BY <1>1, <2>1 DEF Alike, KharmaAlike
    <2> QED BY <1>2, <1>3, <2>2 DEF Backstop, WholeFixed
<1>4. CASE Scheme # "backstop"
    <2>1. GoodNeighbors(b, y) = WholeGood(y)
        BY SameNeighbors
    <2>2. \A n \in WholeGood(y) : prims[b][n] = WholeRecovered(BoundarySource(n))
        <3> SUFFICES ASSUME NEW n \in GoodNeighbors(b, y)
            PROVE prims[b][n] = WholeRecovered(BoundarySource(n))
            BY <2>1
        <3> QED BY DEF GoodNeighbors, Alike, FixedAlike, FlooredAlike
    <2>3. {<<n, prims[b][n]>> : n \in GoodNeighbors(b, y)} =
          {<<n, WholeRecovered(BoundarySource(n))>> : n \in WholeGood(y)}
        BY <2>1, <2>2
    <2> QED BY <1>2, <1>4, <2>1, <2>3 DEF Average, WholeFixed
<1> QED BY <1>3, <1>4

LEMMA ZoneAlike ==
    ASSUME TypeOK, FlagsTravel, NEW b \in Blocks, Alike(b), FixZone(b)
    PROVE  Alike(b)'
<1>1. /\ deck' = deck /\ stage' = stage /\ history' = history /\ whole' = whole
      /\ at[b] = 5 /\ at' = at /\ cons' = cons /\ flag' = flag
    BY FixPlaced DEF FixZone
<1>2. /\ StaysBad' = StaysBad
      /\ \A z : /\ WholeRecovered(z)' = WholeRecovered(z)
                /\ WholeFixed(z)' = WholeFixed(z)
    BY <1>1, WholeSame
<1>3. Flagged(b)' = Flagged(b) /\ FixRange(b)' = FixRange(b)
      /\ \A z : Fresh(cons[b][z])' = Fresh(cons[b][z])
    BY <1>1 DEF Flagged, FixRange, Implicitly, Scheme, Fresh
<1>4. PICK y \in todo[b] :
        /\ prims' = [prims EXCEPT ![b][y] =
                IF Scheme = "backstop" THEN Backstop(b, y) ELSE Average(b, y)]
        /\ todo' = [todo EXCEPT ![b] = @ \ {y}]
    BY DEF FixZone
<1>5. y \in Flagged(b) /\ todo[b] \subseteq Flagged(b)
    BY <1>1 DEF Alike, FixedAlike
<1>6. todo'[b] = todo[b] \ {y}
    BY <1>4 DEF TypeOK
<1>7. \A z \in Entire(b) : z # y => prims'[b][z] = prims[b][z]
    BY <1>4 DEF TypeOK
<1>8. y \in Entire(b) => prims'[b][y] =
        IF Scheme = "backstop" THEN Backstop(b, y) ELSE Average(b, y)
    BY <1>4 DEF TypeOK
<1>9. ASSUME NEW z \in FixRange(b) PROVE FlooredAlike(b, z)'
    <2>1. FlooredAlike(b, z)
        BY <1>1 DEF Alike, FixedAlike
    <2>2. ~flag[b][z] => prims'[b][z] = prims[b][z]
        BY <1>5, <1>7, RangesNest DEF Flagged, FixRange
    <2> QED BY <1>1, <1>2, <2>1, <2>2 DEF FlooredAlike
<1>10. ASSUME NEW z \in Within(b, Reach)
       PROVE  prims'[b][z] = IF z \in todo'[b] THEN WholeRecovered(z) ELSE WholeFixed(z)
    <2>1. z \in Entire(b)
        BY ReachInside
    <2>2. CASE z = y
        <3>1. prims'[b][z] = WholeFixed(z)
            BY <1>1, <1>8, <2>1, <2>2, FixedAsWhole
        <3> QED BY <1>6, <2>2, <3>1
    <2>3. CASE z # y
        BY <1>1, <1>6, <1>7, <2>1, <2>3 DEF Alike, FixedAlike
    <2> QED BY <2>2, <2>3
<1>11. FixedAlike(b)'
    BY <1>1, <1>2, <1>3, <1>5, <1>6, <1>9, <1>10 DEF FixedAlike
<1>12. KharmaAlike(b)' \/ deck.driver # "kharma"
    BY <1>1, <1>3 DEF Alike, KharmaAlike
<1> QED BY <1>1, <1>11, <1>12 DEF Alike, ImExAlike

LEMMA RefillAlike ==
    ASSUME TypeOK, NEW b \in Blocks, Alike(b), PtoUOfFixed(b)
    PROVE  Alike(b)'
<1>1. /\ deck' = deck /\ stage' = stage /\ history' = history /\ whole' = whole
      /\ at[b] = 5 /\ at'[b] = 6 /\ prims' = prims /\ todo[b] = {}
    BY FixPlaced DEF PtoUOfFixed, Done, TypeOK
<1>2. \A z : WholeFixed(z)' = WholeFixed(z)
    BY <1>1, WholeSame
<1>3. \A z \in Within(b, Reach) : prims[b][z] = WholeFixed(z)
    BY <1>1 DEF Alike, FixedAlike
<1> QED BY <1>1, <1>2, <1>3 DEF Alike, KharmaAlike, ImExAlike, FixedAlike

LEMMA BoundsAlike ==
    ASSUME TypeOK, NEW b \in Blocks, Alike(b), ApplyBounds(b)
    PROVE  Alike(b)'
<1>1. /\ deck' = deck /\ stage' = stage /\ history' = history /\ whole' = whole
      /\ at[b] = 6 /\ at'[b] = 7 /\ prims'[b] = Bounded(b, prims[b])
    BY TasksPlaced DEF ApplyBounds, Done, TypeOK
<1>2. WholeAfter' = WholeAfter
    BY <1>1, WholeSame
<1>3. ASSUME NEW z \in Entire(b), BoundarySource(z) \in Within(b, Reach)
      PROVE  prims'[b][z] = WholeAfter[z]
    <2>1. prims'[b][z] = prims[b][BoundarySource(z)]
        BY <1>1, InsideCopiesItself DEF Bounded
    <2>2. prims[b][BoundarySource(z)] = WholeFixed(BoundarySource(z))
        BY <1>1, <1>3 DEF Alike, FixedAlike
    <2>3. z \in MeshEntire
        BY StoredOfMesh
    <2> QED BY <2>1, <2>2, <2>3 DEF WholeAfter
<1> QED BY <1>1, <1>2, <1>3 DEF Alike, KharmaAlike, ImExAlike, FixedAlike

(* The next sub-step starts from the undivided mesh again, in what a block   *)
(* calls its own.                                                            *)
LEMMA NextStageAlike ==
    ASSUME TypeOK, NEW b \in Blocks, Alike(b), NextStage
    PROVE  Alike(b)'
<1>1. at[b] = 7 /\ at'[b] = 0 /\ prims' = prims /\ whole' = WholeAfter
    BY TasksPlaced DEF NextStage
<1>2. ASSUME NEW z \in Interior(b) PROVE Begun(b, z)'
    <2>1. z \in Within(b, Reach) /\ z \in Entire(b) /\ BoundarySource(z) = z
        BY OwnInReach, ReachInside
    <2>2. prims[b][z] = WholeAfter[z]
        BY <1>1, <2>1 DEF Alike
    <2> QED BY <1>1, <2>2 DEF Begun
<1> QED BY <1>1, <1>2 DEF Alike, KharmaAlike, ImExAlike, FixedAlike

LEMMA InitAlike == Init => AlikeInv
<1> SUFFICES ASSUME Init PROVE AlikeInv
    OBVIOUS
<1>1. TypeOK
    BY InitTyped
<1>2. ASSUME NEW b \in Blocks PROVE Alike(b)
    <2>1. at[b] = 0
        BY DEF Init
    <2>2. \A z \in Interior(b) : Begun(b, z)
        BY RangesNest, StoredOfMesh DEF Init, Begun
    <2> QED BY <2>1, <2>2 DEF Alike, KharmaAlike, ImExAlike, FixedAlike
<1> QED BY <1>1, <1>2 DEF AlikeInv

LEMMA NextAlike == FlagsTravel /\ AlikeInv /\ [Next]_vars => AlikeInv'
<1> SUFFICES ASSUME FlagsTravel, AlikeInv, [Next]_vars PROVE AlikeInv'
    OBVIOUS
<1>1. TypeOK /\ TypeOK' /\ \A b \in Blocks : Alike(b)
    BY NextTyped DEF AlikeInv
<1> SUFFICES ASSUME NEW b \in Blocks PROVE Alike(b)'
    BY <1>1 DEF AlikeInv
<1>2. ASSUME NEW c \in Blocks, Update(c) PROVE Alike(b)'
    <2>1. CASE c = b
        BY <1>1, <1>2, <2>1, UpdateAlike
    <2>2. CASE c # b
        BY <1>1, <1>2, <2>2, AlikeElsewhere DEF Update, Done, TypeOK
    <2> QED BY <2>1, <2>2
<1>3. ASSUME NEW c \in Blocks, Recover(c) PROVE Alike(b)'
    <2>1. CASE c = b
        BY <1>1, <1>3, <2>1, RecoverAlike
    <2>2. CASE c # b
        <3>1. prims'[b] = prims[b] /\ flag'[b] = flag[b]
            BY <1>1, <1>3, <2>2 DEF Recover, UtoP, Step, TypeOK
        <3> QED BY <1>1, <1>3, <2>2, <3>1, AlikeElsewhere DEF Recover, Done, TypeOK
    <2> QED BY <2>1, <2>2
<1>4. ASSUME NEW c \in Blocks, ApplyFloors(c) PROVE Alike(b)'
    <2>1. CASE c = b
        BY <1>1, <1>4, <2>1, FloorsAlike
    <2>2. CASE c # b
        BY <1>1, <1>4, <2>2, AlikeElsewhere DEF ApplyFloors, Done, TypeOK
    <2> QED BY <2>1, <2>2
<1>5. ASSUME NEW c \in Blocks, StartFix(c) PROVE Alike(b)'
    <2>1. CASE c = b
        BY <1>1, <1>5, <2>1, StartAlike
    <2>2. CASE c # b
        BY <1>1, <1>5, <2>2, AlikeElsewhere DEF StartFix, Done, TypeOK
    <2> QED BY <2>1, <2>2
<1>6. ASSUME NEW c \in Blocks, FixZone(c) PROVE Alike(b)'
    <2>1. CASE c = b
        BY <1>1, <1>6, <2>1, ZoneAlike
    <2>2. CASE c # b
        <3>1. prims'[b] = prims[b] /\ todo'[b] = todo[b]
            BY <1>1, <1>6, <2>2 DEF FixZone, TypeOK
        <3> QED BY <1>1, <1>6, <3>1, AlikeElsewhere DEF FixZone
    <2> QED BY <2>1, <2>2
<1>7. ASSUME NEW c \in Blocks, PtoUOfFixed(c) PROVE Alike(b)'
    <2>1. CASE c = b
        BY <1>1, <1>7, <2>1, RefillAlike
    <2>2. CASE c # b
        BY <1>1, <1>7, <2>2, AlikeElsewhere DEF PtoUOfFixed, Done, TypeOK
    <2> QED BY <2>1, <2>2
<1>8. ASSUME NEW c \in Blocks, ApplyBounds(c) PROVE Alike(b)'
    <2>1. CASE c = b
        BY <1>1, <1>8, <2>1, BoundsAlike
    <2>2. CASE c # b
        BY <1>1, <1>8, <2>2, AlikeElsewhere DEF ApplyBounds, Done, TypeOK
    <2> QED BY <2>1, <2>2
<1>9. CASE Sync
    BY <1>1, <1>9, SyncAlike
<1>10. CASE NextStage
    BY <1>1, <1>10, NextStageAlike
<1>11. CASE UNCHANGED vars
    BY <1>1, <1>11, AlikeElsewhere DEF vars
<1> QED
    BY <1>2, <1>3, <1>4, <1>5, <1>6, <1>7, <1>8, <1>9, <1>10, <1>11 DEF Next

(* As one block: however the mesh is cut along X1, and in whatever order     *)
(* blocks and the threads of a kernel go, a sub-step leaves in a block's own *)
(* zones, and in the ghosts reconstruction reads, what the undivided mesh    *)
(* would hold there; with imex for the inverters whose flags are exchanged.  *)
THEOREM CutMeshesAgree == ASSUME FlagsTravel PROVE Spec => []AsOneBlock
<1>1. AlikeInv => AsOneBlock
    BY TasksPlaced DEF AlikeInv, Alike, AsOneBlock
<1> QED BY <1>1, InitAlike, NextAlike, PTL DEF Spec

-----------------------------------------------------------------------------
(* Floors overlook no limit, settle, and leave flags that say what a zone    *)
(* holds, for every prescription, field and frame, whatever the inversion    *)
(* finds and however many sub-steps there are.  Between the mark and the     *)
(* application a zone is not touched, so the flags and the floors kept are   *)
(* still of it; ceilings then take from it only what its floors do not ask   *)
(* for.                                                                      *)
Zone == [rho : Nat, u : Nat, gamma : Nat \ {0}]
Conserved == [rho : Nat, image : Zone \cup {NoState}]
KnownFrames == {"fluid", "drift", "normal_kastaun", "normal_onedw", "normal_kastaun_eenough"}

FloorTypes ==
    /\ setup \in Setups /\ P \in Zone /\ U \in Conserved
    /\ pflag \in {0, 1} /\ floor_vals \in [rho : Nat, u : Nat]
    /\ pass \in [number : Nat, task : {"problem", "recover", "determine", "apply"},
                 calm : BOOLEAN]

\* What the mark leaves for the application
Marked ==
    /\ determine_floors(P) \subseteq fflag
    /\ floor_vals = [rho |-> rhoflr_max(P), u |-> uflr_max(P)]

FloorInv ==
    /\ FloorTypes
    /\ U.image # NoState => U = ImageOf(U.image)
    /\ pass.task = "problem" => pass.number = 0
    /\ pass.task \in {"determine", "apply"} /\ pflag = 0 => U = ImageOf(P)
    /\ pass.task = "apply" => Marked
    /\ LimitsHold

-----------------------------------------------------------------------------
(***************************************************************************)
(* Whole numbers.                                                          *)
(***************************************************************************)
LEMMA Positive == \A a, b \in Nat \ {0} : a * b \in Nat \ {0}
  BY SMT

LEMMA Quotient == \A a \in Nat, d \in Nat \ {0} : a \div d \in Nat
  BY SMT

LEMMA QuotientGrows ==
    ASSUME NEW a \in Nat, NEW b \in Nat, NEW d \in Nat \ {0}, a <= b
    PROVE  a \div d <= b \div d
<1> DEFINE p == a \div d
           q == b \div d
<1>1. p \in Nat /\ q \in Nat
  BY Quotient
<1>2. d * p <= a /\ b < d * q + d
  BY SMT
<1> HIDE DEF p, q
<1>3. p > q => d * p >= d * q + d
  <2>1. HAVE p > q
  <2>2. p >= q + 1
    BY <1>1, <2>1
  <2>3. d * p >= d * (q + 1)
    BY <1>1, <2>2
  <2> QED  BY <1>1, <2>3
<1>4. p <= q
  BY <1>1, <1>2, <1>3
<1> QED  BY <1>4 DEF p, q

LEMMA QuotientOfProduct == \A a \in Nat, d \in Nat \ {0} : (a * d) \div d = a
<1> SUFFICES ASSUME NEW a \in Nat, NEW d \in Nat \ {0} PROVE (a * d) \div d = a
  OBVIOUS
<1> DEFINE n == a * d
           q == n \div d
<1>1. n \in Nat /\ q \in Nat
  BY Quotient
<1>2. d * q <= n /\ n < d * q + d
  BY <1>1, SMT
<1> HIDE DEF q
<1>3. q < a => d * q + d <= n
  <2>1. HAVE q < a
  <2>2. d * (q + 1) <= d * a
    BY <1>1, <2>1
  <2> QED  BY <1>1, <2>2
<1>4. q > a => d * q >= n + d
  <2>1. HAVE q > a
  <2>2. d * q >= d * (a + 1)
    BY <1>1, <2>1
  <2> QED  BY <1>1, <2>2
<1>5. q = a
  BY <1>1, <1>2, <1>3, <1>4
<1> QED  BY <1>5 DEF q, n

-----------------------------------------------------------------------------
(***************************************************************************)
(* Limits are whole numbers.                                               *)
(***************************************************************************)
LEMMA Parameters ==
    ASSUME FloorTypes
    PROVE  /\ floors \in Prescriptions
           /\ floors.rho_min_geom \in Nat /\ floors.rho_min_const \in Nat
           /\ floors.u_min_geom \in Nat /\ floors.u_min_const \in Nat
           /\ floors.bsq_over_rho_max \in Nat \ {0} /\ floors.bsq_over_u_max \in Nat \ {0}
           /\ floors.u_over_rho_max \in Nat \ {0} /\ floors.ktot_max \in Nat
           /\ floors.gamma_max \in Nat \ {0}
           /\ floors.temp_adjust_u \in BOOLEAN /\ floors.use_u_min_entropy \in BOOLEAN
           /\ setup.r \in Nat \ {0} /\ setup.ktot \in {0, 1}
           /\ setup.field.strength \in Nat /\ setup.field.across \in BOOLEAN
<1>1. setup \in [frame : {FrameOf(f) : f \in Frames}, floors : Prescriptions,
                 field : Fields, r : Radii, ktot : {0, 1}]
  BY DEF FloorTypes, Setups
<1>2. floors \in Prescriptions /\ setup.field \in Fields /\ setup.r \in Radii
      /\ setup.ktot \in {0, 1}
  BY <1>1 DEF floors
<1> QED  BY <1>2, FloorsAssumption

LEMMA Limits ==
    ASSUME FloorTypes, NEW s \in Zone
    PROVE  /\ rhoflr_geom \in Nat /\ uflr_geom \in Nat
           /\ bsq(s) \in Nat /\ rhoflr_b(s) \in Nat /\ uflr_b(s) \in Nat
           /\ u_of_ktot(s) \in Nat /\ uflr_entropy(s) \in Nat /\ uflr_max(s) \in Nat
           /\ rhoflr_temp(s) \in Nat /\ rhoflr_max(s) \in Nat
<1>1. s.rho \in Nat /\ s.u \in Nat /\ s.gamma \in Nat \ {0}
  BY DEF Zone
<1>2. rhoscal(setup.r) \in Nat \ {0}
  <2>1. setup.r \in Nat \ {0} /\ 1 + setup.r \in Nat \ {0}
    BY Parameters
  <2>2. setup.r * setup.r * (1 + setup.r) \in Nat \ {0}
    BY <2>1, Positive
  <2> QED  BY <2>2 DEF rhoscal
<1>3. rhoscal(setup.r) * rhoscal(setup.r) \in Nat \ {0} /\ s.gamma * s.gamma \in Nat \ {0}
  BY <1>1, <1>2, Positive
<1>4. rhoflr_geom \in Nat /\ uflr_geom \in Nat
  BY <1>2, <1>3, Parameters, Quotient DEF rhoflr_geom, uflr_geom, greatest
<1>5. bsq(s) \in Nat
  BY <1>3, Parameters, Quotient DEF bsq
<1>6. rhoflr_b(s) \in Nat /\ uflr_b(s) \in Nat
  BY <1>5, Parameters, Quotient DEF rhoflr_b, uflr_b
<1>7. s.rho * s.rho \in Nat /\ setup.ktot * s.rho * s.rho \in Nat
  <2>1. CASE setup.ktot = 0
    BY <1>1, <2>1
  <2>2. CASE setup.ktot = 1
    BY <1>1, <2>2
  <2> QED  BY <2>1, <2>2, Parameters
<1>8. u_of_ktot(s) \in Nat /\ uflr_entropy(s) \in Nat
  BY <1>1, <1>7 DEF u_of_ktot, uflr_entropy
<1>9. uflr_max(s) \in Nat
  BY <1>4, <1>6, <1>8 DEF uflr_max, greatest
<1>10. rhoflr_temp(s) \in Nat
  BY <1>1, <1>9, Parameters, Quotient DEF rhoflr_temp, greatest
<1>11. rhoflr_max(s) \in Nat
  BY <1>4, <1>6, <1>10 DEF rhoflr_max, greatest
<1> QED  BY <1>4, <1>5, <1>6, <1>8, <1>9, <1>10, <1>11

\* They are the same while the setup is and the entropy was last set from the same state
LEMMA SameLimits ==
    ASSUME setup' = setup, pass'.calm = pass.calm
    PROVE  /\ determine_floors(P)' = determine_floors(P')
           /\ rhoflr_max(P)' = rhoflr_max(P') /\ uflr_max(P)' = uflr_max(P')
           /\ uflr_geom' = uflr_geom /\ uflr_b(P)' = uflr_b(P') /\ floors' = floors
<1>1. floors' = floors
  BY DEF floors
<1>2. rhoflr_geom' = rhoflr_geom /\ uflr_geom' = uflr_geom
  BY <1>1 DEF rhoflr_geom, uflr_geom, rhoscal
<1>3. rhoflr_b(P)' = rhoflr_b(P') /\ uflr_b(P)' = uflr_b(P')
  BY <1>1 DEF rhoflr_b, uflr_b, bsq
<1>4. uflr_max(P)' = uflr_max(P')
  BY <1>1, <1>2, <1>3 DEF uflr_max, uflr_entropy, u_of_ktot
<1>5. rhoflr_temp(P)' = rhoflr_temp(P')
  BY <1>1, <1>4 DEF rhoflr_temp
<1>6. rhoflr_max(P)' = rhoflr_max(P')
  BY <1>2, <1>3, <1>5 DEF rhoflr_max
<1>7. TooHot(P)' = TooHot(P')
  BY <1>1, <1>5 DEF TooHot
<1>8. determine_floors(P)' = determine_floors(P')
  BY <1>1, <1>2, <1>3, <1>7 DEF determine_floors
<1> QED  BY <1>1, <1>2, <1>3, <1>4, <1>6, <1>8

(***************************************************************************)
(* Ceilings keep the density and the speed of a zone that is not too fast, *)
(* and take no more energy than their limits demand.                       *)
(***************************************************************************)
LEMMA Ceilings ==
    ASSUME FloorTypes, NEW s \in Zone
    PROVE  /\ apply_ceilings(s) \in Zone
           /\ s.gamma <= floors.gamma_max =>
                 /\ apply_ceilings(s).rho = s.rho /\ apply_ceilings(s).gamma = s.gamma
                 /\ apply_ceilings(s).u <= s.u
                 /\ apply_ceilings(s).u <= floors.ktot_max * s.rho * s.rho
                 /\ floors.temp_adjust_u =>
                       apply_ceilings(s).u <= floors.u_over_rho_max * s.rho
<1> DEFINE slow == Slowed(s)
           less == LessEntropy(s)
           most == floors.ktot_max * s.rho * s.rho
<1>1. s.rho \in Nat /\ s.u \in Nat /\ s.gamma \in Nat \ {0}
      /\ s = [rho |-> s.rho, u |-> s.u, gamma |-> s.gamma]
  BY DEF Zone
<1>2. /\ floors.gamma_max \in Nat \ {0} /\ floors.ktot_max \in Nat
      /\ floors.u_over_rho_max \in Nat \ {0}
  BY Parameters
<1>3. most \in Nat /\ s.rho * s.rho \in Nat /\ floors.ktot_max * s.rho \in Nat
  BY <1>1, <1>2
<1>4. slow \in Zone /\ (s.gamma <= floors.gamma_max => slow = s)
  <2>1. s.rho * s.gamma \in Nat /\ s.u * s.gamma \in Nat
    BY <1>1
  <2>2. (s.rho * s.gamma) \div floors.gamma_max \in Nat
        /\ (s.u * s.gamma) \div floors.gamma_max \in Nat
    BY <2>1, <1>2, Quotient
  <2> QED  BY <2>2, <1>1, <1>2 DEF Slowed, Zone
<1>5. /\ less \in Zone /\ less.rho = slow.rho /\ less.gamma = slow.gamma
      /\ s.gamma <= floors.gamma_max => less.u <= s.u /\ less.u <= most
  <2>1. CASE s.u <= most
    BY <2>1, <1>1, <1>3, <1>4 DEF LessEntropy
  <2>2. CASE ~(s.u <= most)
    <3>1. s.u \in Nat \ {0} /\ most < s.u
      BY <2>2, <1>1, <1>3
    <3> DEFINE left == (most * slow.u) \div s.u
    <3>2. less = [slow EXCEPT !.u = left]
      BY <2>2, <1>1, <1>3 DEF LessEntropy
    <3>3. slow.u \in Nat /\ most * slow.u \in Nat
      BY <1>3, <1>4 DEF Zone
    <3>4. left \in Nat
      BY <3>1, <3>3, Quotient
    <3>5. s.gamma <= floors.gamma_max => left = most
      BY <1>3, <1>4, <3>1, QuotientOfProduct
    <3> HIDE DEF left, less, slow, most
    <3>6. less \in Zone /\ less.rho = slow.rho /\ less.gamma = slow.gamma /\ less.u = left
      BY <3>2, <3>4, <1>4 DEF Zone
    <3> QED  BY <3>1, <3>5, <3>6, <1>1, <1>3
  <2> QED  BY <2>1, <2>2
<1> HIDE DEF less, slow, most
<1> DEFINE cool == floors.u_over_rho_max * less.rho
<1>6. less.rho \in Nat /\ less.u \in Nat /\ cool \in Nat
  BY <1>2, <1>5 DEF Zone
<1> HIDE DEF cool
<1>7. apply_ceilings(s) =
        IF floors.temp_adjust_u /\ less.u > cool THEN [less EXCEPT !.u = cool] ELSE less
  BY DEF apply_ceilings, Cooler, less, cool
<1>8. /\ apply_ceilings(s) \in Zone
      /\ apply_ceilings(s).rho = less.rho /\ apply_ceilings(s).gamma = less.gamma
      /\ apply_ceilings(s).u <= less.u
      /\ floors.temp_adjust_u => apply_ceilings(s).u <= cool
  BY <1>5, <1>6, <1>7 DEF Zone
<1>9. apply_ceilings(s).u \in Nat
  BY <1>8 DEF Zone
<1>10. s.gamma <= floors.gamma_max =>
         cool = floors.u_over_rho_max * s.rho /\ less.rho = s.rho /\ less.gamma = s.gamma
  BY <1>4, <1>5 DEF cool
<1> QED  BY <1>1, <1>3, <1>5, <1>6, <1>8, <1>9, <1>10 DEF most

-----------------------------------------------------------------------------
(***************************************************************************)
(* Floors settle.  What a zone's limits ask for was found from the zone as *)
(* it was; ceilings took no density from it, and no energy but what was    *)
(* beyond their limits.                                                    *)
(***************************************************************************)
Floored(s, t) ==
    /\ t.rho = greatest(apply_ceilings(s).rho, rhoflr_max(s))
    /\ t.u = greatest(apply_ceilings(s).u, uflr_max(s))
    /\ t.gamma <= apply_ceilings(s).gamma
    /\ setup.field.across => t.gamma = apply_ceilings(s).gamma

Settled(t) ==
    \A name \in determine_floors(t) :
        \/ name \in {"KTOT", "TEMP"} /\ t.u <= uflr_max(t) /\ (name = "TEMP" => floors.temp_adjust_u)
        \/ name = "TEMP" /\ floors.use_u_min_entropy

LEMMA Settling ==
    ASSUME FloorTypes, NEW s \in Zone, NEW t \in Zone, s.gamma <= floors.gamma_max, Floored(s, t)
    PROVE  Settled(t)
<1> DEFINE c == apply_ceilings(s)
           most == floors.ktot_max * s.rho * s.rho
           mostNow == floors.ktot_max * t.rho * t.rho
           hot == floors.u_over_rho_max * s.rho
           hotNow == floors.u_over_rho_max * t.rho
<1>1. /\ s.rho \in Nat /\ s.u \in Nat /\ s.gamma \in Nat \ {0}
      /\ t.rho \in Nat /\ t.u \in Nat /\ t.gamma \in Nat \ {0}
  BY DEF Zone
<1>2. /\ floors.ktot_max \in Nat /\ floors.u_over_rho_max \in Nat \ {0}
      /\ floors.temp_adjust_u \in BOOLEAN /\ floors.use_u_min_entropy \in BOOLEAN
      /\ floors.gamma_max \in Nat \ {0} /\ setup.ktot \in {0, 1}
  BY Parameters
<1>3. /\ c.rho = s.rho /\ c.gamma = s.gamma /\ c.u <= s.u /\ c.u <= most
      /\ floors.temp_adjust_u => c.u <= hot
      /\ c.u \in Nat
  BY Ceilings DEF Zone
<1>4. /\ rhoflr_geom \in Nat /\ uflr_geom \in Nat
      /\ rhoflr_b(s) \in Nat /\ uflr_b(s) \in Nat /\ rhoflr_b(t) \in Nat /\ uflr_b(t) \in Nat
      /\ u_of_ktot(s) \in Nat /\ u_of_ktot(t) \in Nat
      /\ uflr_entropy(s) \in Nat /\ uflr_entropy(t) \in Nat
      /\ uflr_max(s) \in Nat /\ uflr_max(t) \in Nat
      /\ rhoflr_temp(s) \in Nat /\ rhoflr_temp(t) \in Nat /\ rhoflr_max(s) \in Nat
  BY Limits
<1>5. /\ t.rho = greatest(c.rho, rhoflr_max(s)) /\ t.u = greatest(c.u, uflr_max(s))
      /\ t.gamma <= c.gamma /\ (setup.field.across => t.gamma = c.gamma)
  BY DEF Floored
<1> HIDE DEF c
<1>6. /\ t.rho >= s.rho /\ t.rho >= rhoflr_geom /\ t.rho >= rhoflr_b(s)
      /\ t.rho >= rhoflr_temp(s)
      /\ t.u >= uflr_geom /\ t.u >= uflr_b(s)
      /\ t.u = c.u \/ (t.u = uflr_max(s) /\ t.u >= c.u)
  BY <1>1, <1>3, <1>4, <1>5 DEF rhoflr_max, uflr_max, greatest
<1>7. rhoflr_b(t) = rhoflr_b(s) /\ uflr_b(t) = uflr_b(s)
  BY <1>3, <1>5 DEF rhoflr_b, uflr_b, bsq
<1>8. /\ most \in Nat /\ mostNow \in Nat /\ most <= mostNow
      /\ s.rho * s.rho \in Nat /\ t.rho * t.rho \in Nat /\ s.rho * s.rho <= t.rho * t.rho
  <2>1. /\ s.rho * s.rho \in Nat /\ t.rho * t.rho \in Nat /\ s.rho * t.rho \in Nat
        /\ s.rho * s.rho <= s.rho * t.rho /\ s.rho * t.rho <= t.rho * t.rho
    BY <1>1, <1>6
  <2>2. \A a, b \in Nat : a <= b => floors.ktot_max * a <= floors.ktot_max * b
    BY <1>2
  <2>3. most = floors.ktot_max * (s.rho * s.rho) /\ mostNow = floors.ktot_max * (t.rho * t.rho)
    BY <1>1, <1>2
  <2>4. most \in Nat /\ mostNow \in Nat
    BY <1>2, <2>1, <2>3
  <2>5. s.rho * s.rho <= t.rho * t.rho
    BY <2>1
  <2>6. most <= mostNow
    BY <2>1, <2>2, <2>3, <2>5
  <2> QED  BY <2>1, <2>4, <2>5, <2>6
<1>9. hot \in Nat /\ hotNow \in Nat /\ hot <= hotNow
  BY <1>1, <1>2, <1>6
\* The floor entropy sets does not fall: by the entropy carried, it grows with density;
\* else it is the energy the zone has now
<1>10. t.u <= uflr_max(t) \/ uflr_max(t) >= uflr_max(s)
  <2>1. CASE ~floors.use_u_min_entropy
    BY <2>1, <1>4, <1>7 DEF uflr_max, uflr_entropy, greatest
  <2>2. CASE floors.use_u_min_entropy /\ pass.calm
    <3>1. uflr_entropy(t) = t.u
      BY <2>2 DEF uflr_entropy, u_of_ktot
    <3> QED  BY <3>1, <1>1, <1>4 DEF uflr_max, greatest
  <2>3. CASE floors.use_u_min_entropy /\ ~pass.calm
    <3>1. /\ uflr_entropy(t) = setup.ktot * t.rho * t.rho
          /\ uflr_entropy(s) = setup.ktot * s.rho * s.rho
      BY <2>3 DEF uflr_entropy, u_of_ktot
    <3>2. uflr_entropy(s) <= uflr_entropy(t)
      <4>1. CASE setup.ktot = 0
        BY <3>1, <4>1, <1>1
      <4>2. CASE setup.ktot = 1
        BY <3>1, <4>2, <1>1, <1>8
      <4> QED  BY <4>1, <4>2, <1>2
    <3> QED  BY <3>2, <1>4, <1>7 DEF uflr_max, greatest
  <2> QED  BY <2>1, <2>2, <2>3
<1> HIDE DEF most, mostNow, hot, hotNow
<1>11. t.u > mostNow => t.u <= uflr_max(t)
  BY <1>1, <1>3, <1>4, <1>6, <1>8, <1>10
<1>12. floors.temp_adjust_u /\ t.u > hotNow => t.u <= uflr_max(t)
  BY <1>1, <1>3, <1>4, <1>6, <1>9, <1>10
<1>13. ~floors.temp_adjust_u /\ ~floors.use_u_min_entropy => rhoflr_temp(t) <= t.rho
  <2>1. HAVE ~floors.temp_adjust_u /\ ~floors.use_u_min_entropy
  <2>2. uflr_max(t) = uflr_max(s)
    BY <2>1, <1>7 DEF uflr_max, uflr_entropy
  <2> DEFINE before == greatest(s.u, uflr_max(s))
             after == greatest(t.u, uflr_max(t))
  <2>3. before \in Nat /\ after \in Nat /\ after <= before
    BY <2>2, <1>1, <1>3, <1>4, <1>6 DEF greatest
  <2>4. rhoflr_temp(t) = after \div floors.u_over_rho_max
        /\ rhoflr_temp(s) = before \div floors.u_over_rho_max
    BY <2>1 DEF rhoflr_temp
  <2> HIDE DEF before, after
  <2>5. rhoflr_temp(t) <= rhoflr_temp(s)
    BY <2>3, <2>4, <1>2, QuotientGrows
  <2> QED  BY <2>5, <1>1, <1>4, <1>6
<1>14. t.gamma <= floors.gamma_max
  BY <1>1, <1>2, <1>3, <1>5
<1> SUFFICES ASSUME NEW name \in determine_floors(t)
             PROVE  \/ /\ name \in {"KTOT", "TEMP"} /\ t.u <= uflr_max(t)
                       /\ name = "TEMP" => floors.temp_adjust_u
                    \/ name = "TEMP" /\ floors.use_u_min_entropy
  BY DEF Settled
<1>15. \/ name = "TEMP" /\ TooHot(t)
       \/ name = "KTOT" /\ t.u > mostNow
  <2>1. /\ ~(rhoflr_geom > t.rho) /\ ~(uflr_geom > t.u) /\ ~(rhoflr_b(t) > t.rho)
        /\ ~(uflr_b(t) > t.u) /\ ~(t.gamma > floors.gamma_max)
    BY <1>1, <1>2, <1>4, <1>6, <1>7, <1>14
  <2> QED  BY <2>1 DEF determine_floors, mostNow
<1>16. CASE name = "KTOT" /\ t.u > mostNow
  BY <1>11, <1>16
<1>17. CASE name = "TEMP" /\ TooHot(t)
  <2>1. CASE floors.temp_adjust_u
    BY <1>12, <1>17, <2>1 DEF TooHot, hotNow
  <2>2. CASE ~floors.temp_adjust_u
    BY <1>1, <1>4, <1>13, <1>17, <2>2 DEF TooHot
  <2> QED  BY <2>1, <2>2
<1> QED  BY <1>15, <1>16, <1>17

-----------------------------------------------------------------------------
(***************************************************************************)
(* A zone no flag marks has what its limits ask for.                       *)
(***************************************************************************)
LEMMA Unmarked ==
    ASSUME FloorTypes, determine_floors(P) = {}
    PROVE  P.rho >= rhoflr_max(P) /\ P.u >= greatest(uflr_geom, uflr_b(P))
<1>1. /\ P.rho \in Nat /\ P.u \in Nat /\ P \in Zone
  BY DEF FloorTypes, Zone
<1>2. /\ rhoflr_geom \in Nat /\ uflr_geom \in Nat /\ rhoflr_b(P) \in Nat /\ uflr_b(P) \in Nat
      /\ rhoflr_temp(P) \in Nat
  BY <1>1, Limits
<1>3. /\ ~(rhoflr_geom > P.rho) /\ ~(uflr_geom > P.u) /\ ~(rhoflr_b(P) > P.rho)
      /\ ~(uflr_b(P) > P.u) /\ ~TooHot(P)
  BY DEF determine_floors
<1>4. ~(rhoflr_temp(P) > P.rho)
  BY <1>1, <1>2, <1>3 DEF TooHot, rhoflr_temp
<1> QED  BY <1>1, <1>2, <1>3, <1>4 DEF rhoflr_max, greatest

(***************************************************************************)
(* The inversion: an image inverts to what it is the image of; a failure   *)
(* leaves what was not one.                                                *)
(***************************************************************************)
LEMMA Inversions ==
    ASSUME FloorTypes, NEW u \in Conserved, NEW guess \in Zone, NEW fastest \in Nat \ {0},
           NEW o \in Outcomes(u, guess, fastest)
    PROVE  /\ o.P \in Zone /\ o.U \in Conserved /\ o.status \in {0, 1}
           /\ o.status = 1 => o.U.image = NoState
           /\ u.image # NoState => o.P = u.image /\ o.status = 0
           /\ u.image = NoState /\ o.status = 0 =>
                 o.P.rho * o.P.gamma = u.rho /\ o.P.gamma <= fastest
<1>1. ZoneStates \subseteq Zone
  BY FloorsAssumption DEF Zone
<1>2. u.rho \in Nat /\ u.image \in Zone \cup {NoState}
  BY DEF Conserved
<1>3. CASE u.image # NoState
  <2>1. o = [P |-> u.image, U |-> u, status |-> 0]
    BY <1>3 DEF Outcomes
  <2> QED  BY <2>1, <1>2, <1>3
<1>4. CASE u.image = NoState
  <2> DEFINE found == {t \in [rho : {u.rho \div g : g \in 1 .. fastest}, u : {1, 4},
                              gamma : 1 .. fastest] : t.rho * t.gamma = u.rho}
             left == {guess} \union {t \in ZoneStates : Unsolved(t)}
  <2>1. \/ \E s \in found : o = [P |-> s, U |-> ImageOf(s), status |-> 0]
        \/ \E s \in left : o = [P |-> s, U |-> u, status |-> 1]
    BY <1>4 DEF Outcomes
  <2>2. CASE \E s \in found : o = [P |-> s, U |-> ImageOf(s), status |-> 0]
    <3>1. PICK s \in found : o = [P |-> s, U |-> ImageOf(s), status |-> 0]
      BY <2>2
    <3>2. \A g \in 1 .. fastest : u.rho \div g \in Nat
      BY <1>2, Quotient
    <3>3. s \in Zone
      BY <3>2 DEF Zone
    <3>4. s.rho * s.gamma = u.rho /\ s.gamma <= fastest
      BY DEF Zone
    <3>5. ImageOf(s) \in Conserved
      BY <1>2, <3>3, <3>4 DEF ImageOf, Conserved
    <3> QED  BY <3>1, <3>3, <3>4, <3>5, <1>4
  <2>3. CASE \E s \in left : o = [P |-> s, U |-> u, status |-> 1]
    BY <2>3, <1>1, <1>4
  <2> QED  BY <2>1, <2>2, <2>3
<1> QED  BY <1>3, <1>4

-----------------------------------------------------------------------------
(***************************************************************************)
(* What floors do to a marked zone, frame by frame.                        *)
(***************************************************************************)
LEMMA FramesKnown ==
    ASSUME FloorTypes, NEW s \in Zone
    PROVE  FrameHere(s) \in KnownFrames
<1>1. PICK f \in Frames : setup.frame = FrameOf(f)
  BY DEF FloorTypes, Setups
<1>2. f.frame \in {"normal", "fluid", "mixed", "mixed_normal_drift", "drift"}
  BY FloorsAssumption
<1>3. setup.frame \in KnownFrames \cup {"mixed_fluid_normal", "mixed_normal_drift"}
  BY <1>1, <1>2 DEF FrameOf, KnownFrames
<1> QED  BY <1>3 DEF FrameHere, KnownFrames

LEMMA ByFrame ==
    ASSUME FloorTypes, NEW s \in Zone, NEW found \in BOOLEAN
    PROVE  /\ FrameHere(s) = "fluid" =>
                 apply_floors(s, found) = {NotInverted(Raised(s, floor_vals))}
           /\ FrameHere(s) = "drift" =>
                 apply_floors(s, found) = {NotInverted(t) : t \in Drifted(s)}
           /\ FrameHere(s) = "normal_kastaun" => apply_floors(s, found) = NormalFloors(s, s)
           /\ FrameHere(s) = "normal_onedw" =>
                 apply_floors(s, found) = NormalFloors(s, Raised(s, floor_vals))
           /\ FrameHere(s) = "normal_kastaun_eenough" =>
                 apply_floors(s, found) = EnoughFloors(s, found)
  BY DEF apply_floors

LEMMA RaisedOne ==
    ASSUME NEW s \in Zone, NEW lowest \in [rho : Nat, u : Nat]
    PROVE  /\ Raised(s, lowest) \in Zone
           /\ Raised(s, lowest).rho = greatest(s.rho, lowest.rho)
           /\ Raised(s, lowest).u = greatest(s.u, lowest.u)
           /\ Raised(s, lowest).gamma = s.gamma
  BY DEF Raised, Zone, greatest

LEMMA Images == \A s \in Zone : ImageOf(s) \in Conserved /\ ImageOf(s).image = s
                                /\ s # NoState
  BY DEF Zone, ImageOf, Conserved, NoState

\* Density, energy and speed of a drifting zone
LEMMA DriftedOne ==
    ASSUME FloorTypes, NEW s \in Zone, NEW t \in Drifted(s)
    PROVE  /\ t \in Zone /\ t.rho = greatest(s.rho, floor_vals.rho)
           /\ t.u = greatest(s.u, floor_vals.u) /\ t.gamma <= s.gamma
           /\ setup.field.across => t.gamma = s.gamma
<1> DEFINE raised == Raised(s, floor_vals)
<1>1. /\ raised \in Zone /\ raised.rho = greatest(s.rho, floor_vals.rho)
      /\ raised.u = greatest(s.u, floor_vals.u) /\ raised.gamma = s.gamma
  BY RaisedOne DEF FloorTypes
<1>2. s.gamma \in Nat \ {0}
  BY DEF Zone
<1> HIDE DEF raised
<1>3. CASE t = raised
  BY <1>1, <1>2, <1>3
<1>4. CASE ~setup.field.across /\ \E g \in 1 .. s.gamma : t = [raised EXCEPT !.gamma = g]
  BY <1>1, <1>2, <1>4 DEF Zone
<1>5. \/ t = raised
      \/ ~setup.field.across /\ \E g \in 1 .. s.gamma : t = [raised EXCEPT !.gamma = g]
  BY DEF Drifted, raised
<1> QED  BY <1>3, <1>4, <1>5

\* The normal observer's frames invert something
LEMMA NormalOne ==
    ASSUME FloorTypes, NEW s \in Zone, NEW guess \in Zone, NEW o \in NormalFloors(s, guess)
    PROVE  /\ o.P \in Zone /\ o.U \in Conserved /\ o.status \in {0, 1}
           /\ o.status = 1 => o.U.image = NoState
<1>1. U \in Conserved /\ floor_vals.rho \in Nat /\ s.rho \in Nat
  BY DEF FloorTypes, Zone
<1>2. rho_add(s) \in Nat
  BY <1>1 DEF rho_add, greatest
<1>3. Add(U, rho_add(s)) \in Conserved
  BY <1>1, <1>2 DEF Add, Conserved
<1>4. fastestSpeed \in Nat \ {0}
      /\ (IF U.image # NoState THEN U.image.gamma ELSE fastestSpeed) \in Nat \ {0}
  BY <1>1 DEF fastestSpeed, Conserved, Zone
<1>5. \/ o \in Outcomes(U, guess, fastestSpeed)
      \/ o \in Outcomes(Add(U, rho_add(s)), guess,
                        IF U.image # NoState THEN U.image.gamma ELSE fastestSpeed)
  BY DEF NormalFloors
<1>6. CASE o \in Outcomes(U, guess, fastestSpeed)
  BY <1>1, <1>4, <1>6, Inversions
<1>7. CASE o \in Outcomes(Add(U, rho_add(s)), guess,
                          IF U.image # NoState THEN U.image.gamma ELSE fastestSpeed)
  <2> DEFINE fastest == IF U.image # NoState THEN U.image.gamma ELSE fastestSpeed
             u == Add(U, rho_add(s))
  <2>1. u \in Conserved /\ fastest \in Nat \ {0} /\ o \in Outcomes(u, guess, fastest)
    BY <1>3, <1>4, <1>7
  <2> HIDE DEF u, fastest
  <2> QED  BY <2>1, Inversions
<1> QED  BY <1>5, <1>6, <1>7

\* With density and energy set, a state that was known keeps the density asked for
LEMMA EnoughOne ==
    ASSUME FloorTypes, NEW s \in Zone, NEW found \in BOOLEAN, NEW o \in EnoughFloors(s, found),
           pflag = 0 /\ s = P => U = ImageOf(P)
    PROVE  /\ o.P \in Zone /\ o.U \in Conserved /\ o.status \in {0, 1}
           /\ o.status = 1 => o.U.image = NoState
           /\ o.status = 0 /\ (found \/ (pflag = 0 /\ s = P)) => o.P.rho >= floor_vals.rho
<1> DEFINE e == Enough(s)
           fastest == IF U.image # NoState /\ U.image.gamma = e.gamma THEN e.gamma ELSE fastestSpeed
           u == [rho |-> e.rho * e.gamma, image |-> NoState]
<1>1. /\ s.rho \in Nat /\ s.u \in Nat /\ s.gamma \in Nat \ {0}
      /\ floor_vals.rho \in Nat /\ floor_vals.u \in Nat /\ u_of_ktot(s) \in Nat
      /\ fastestSpeed \in Nat \ {0}
  BY Limits DEF FloorTypes, Zone, fastestSpeed
<1>2. e \in Zone /\ e.rho >= floor_vals.rho /\ e.gamma = s.gamma
  BY <1>1 DEF Enough, Zone, greatest
<1>3. U.image = e \/ found \/ o \in Outcomes(u, s, fastest)
  BY DEF EnoughFloors
<1>4. U.image = e \/ found => o \in Outcomes(ImageOf(e), s, fastestSpeed)
  BY DEF EnoughFloors
<1> HIDE DEF e
<1>5. CASE U.image = e \/ found
  <2>1. ImageOf(e) \in Conserved /\ ImageOf(e).image = e /\ e # NoState
    BY <1>2, Images
  <2>2. o.P = e /\ o.status = 0 /\ o.P \in Zone /\ o.U \in Conserved
    BY <1>1, <1>4, <1>5, <2>1, Inversions
  <2> QED  BY <2>2, <1>2
<1>6. CASE ~(U.image = e \/ found)
  <2>1. e.rho \in Nat /\ e.gamma \in Nat \ {0}
    BY <1>2 DEF Zone
  <2>2. u \in Conserved /\ u.image = NoState /\ u.rho = e.rho * e.gamma
    BY <2>1 DEF Conserved
  <2>3. fastest \in Nat \ {0}
    BY <1>1, <2>1
  <2>4. o \in Outcomes(u, s, fastest)
    BY <1>3, <1>6
  <2>5. pflag = 0 /\ s = P => fastest = e.gamma
    <3>1. HAVE pflag = 0 /\ s = P
    <3>2. U.image = s /\ s # NoState
      BY <3>1, Images
    <3> QED  BY <3>2, <1>2
  <2> HIDE DEF u, fastest
  <2>6. /\ o.P \in Zone /\ o.U \in Conserved /\ o.status \in {0, 1}
        /\ o.status = 1 => o.U.image = NoState
        /\ o.status = 0 => o.P.rho * o.P.gamma = u.rho /\ o.P.gamma <= fastest
    BY <2>2, <2>3, <2>4, Inversions
  <2>7. o.status = 0 /\ (found \/ (pflag = 0 /\ s = P)) => o.P.rho >= floor_vals.rho
    <3>1. HAVE o.status = 0 /\ (found \/ (pflag = 0 /\ s = P))
    <3>2. o.P.rho * o.P.gamma = e.rho * e.gamma /\ o.P.gamma <= e.gamma
      BY <3>1, <2>2, <2>5, <2>6, <1>6
    <3>3. o.P.rho \in Nat /\ o.P.gamma \in Nat \ {0}
      BY <2>6 DEF Zone
    <3>4. o.P.rho < e.rho => o.P.rho * o.P.gamma < e.rho * e.gamma
      <4>1. HAVE o.P.rho < e.rho
      <4>2. o.P.rho * o.P.gamma <= o.P.rho * e.gamma
        BY <3>2, <3>3, <2>1
      <4>3. o.P.rho * e.gamma < e.rho * e.gamma
        BY <3>3, <2>1, <4>1
      <4>4. o.P.rho * o.P.gamma \in Nat /\ o.P.rho * e.gamma \in Nat /\ e.rho * e.gamma \in Nat
        BY <3>3, <2>1
      <4> QED  BY <4>2, <4>3, <4>4
    <3>5. ~(o.P.rho < e.rho)
      BY <3>2, <3>3, <3>4, <2>1
    <3> QED  BY <3>3, <3>5, <2>1, <1>1, <1>2
  <2> QED  BY <2>6, <2>7
<1> QED  BY <1>5, <1>6

LEMMA Applied ==
    ASSUME FloorTypes, NEW s \in Zone, NEW found \in BOOLEAN, NEW o \in apply_floors(s, found),
           pflag = 0 /\ s = P => U = ImageOf(P)
    PROVE  /\ o.P \in Zone /\ o.U \in Conserved /\ o.status \in {-1, 0, 1}
           /\ o.status = 1 => o.U.image = NoState
           /\ FrameHere(s) \in {"fluid", "drift"} =>
                 /\ o.P.rho = greatest(s.rho, floor_vals.rho)
                 /\ o.P.u = greatest(s.u, floor_vals.u)
                 /\ o.P.gamma <= s.gamma /\ (setup.field.across => o.P.gamma = s.gamma)
           /\ o.status = -1 => FrameHere(s) \in {"fluid", "drift"}
           /\ FrameHere(s) = "normal_kastaun_eenough" /\ o.status = 0
                 /\ (found \/ (pflag = 0 /\ s = P)) => o.P.rho >= floor_vals.rho
<1>1. s.gamma \in Nat \ {0} /\ floor_vals \in [rho : Nat, u : Nat]
  BY DEF Zone, FloorTypes
<1>2. Raised(s, floor_vals) \in Zone
  BY <1>1, RaisedOne
<1>3. CASE FrameHere(s) = "fluid"
  <2>1. o = NotInverted(Raised(s, floor_vals))
    BY <1>3, ByFrame
  <2> QED  BY <1>1, <1>3, <2>1, RaisedOne, Images DEF NotInverted
<1>4. CASE FrameHere(s) = "drift"
  <2>1. PICK t \in Drifted(s) : o = NotInverted(t)
    BY <1>4, ByFrame
  <2>2. t \in Zone
    BY DriftedOne
  <2> QED  BY <1>4, <2>1, <2>2, DriftedOne, Images DEF NotInverted
<1>5. CASE FrameHere(s) = "normal_kastaun"
  BY <1>5, ByFrame, NormalOne
<1>6. CASE FrameHere(s) = "normal_onedw"
  BY <1>2, <1>6, ByFrame, NormalOne
<1>7. CASE FrameHere(s) = "normal_kastaun_eenough"
  <2>1. o \in EnoughFloors(s, found)
    BY <1>7, ByFrame
  <2> QED  BY <1>7, <2>1, EnoughOne
<1> QED  BY <1>3, <1>4, <1>5, <1>6, <1>7, FramesKnown DEF KnownFrames

-----------------------------------------------------------------------------
(***************************************************************************)
(* Each action keeps the invariant.                                        *)
(***************************************************************************)
\* Away from floored states only the parts about the mark are left
LEMMA NotFloored ==
    /\ pass.task # "recover" => LimitsHold
    /\ pass'.task # "recover" => LimitsHold'
  BY DEF LimitsHold, NoneOverlooked, FlagTellsForms, EnoughAdded, FloorsSettle, floored

LEMMA SettledStays ==
    ASSUME setup' = setup, pass'.calm = pass.calm, Settled(P')
    PROVE  Settled(P)'
  BY SameLimits DEF Settled

LEMMA InitialFloors ==
    ASSUME FloorInv, ApplyInitialFloors
    PROVE  FloorInv'
<1> DEFINE hit == determine_floors(P) # {}
           lowest == [rho |-> rhoflr_max(P), u |-> uflr_max(P)]
           after == Raised(apply_ceilings(P), lowest)
<1>1. /\ P' = (IF hit THEN after ELSE P) /\ U' = (IF hit THEN ImageOf(after) ELSE U)
      /\ told' = [NotTreated EXCEPT !.frame = IF hit THEN "fluid" ELSE "none",
                                    !.slowed = hit /\ P.gamma > floors.gamma_max]
      /\ pass.task = "problem" /\ pass' = [pass EXCEPT !.task = "recover"]
      /\ setup' = setup /\ fflag' = fflag /\ pflag' = pflag /\ floor_vals' = floor_vals
  BY DEF ApplyInitialFloors, Task, Then
<1>2. FloorTypes /\ P \in Zone /\ U \in Conserved /\ pass.number = 0
      /\ (U.image # NoState => U = ImageOf(U.image))
  BY <1>1 DEF FloorInv, FloorTypes
<1>3. lowest \in [rho : Nat, u : Nat] /\ apply_ceilings(P) \in Zone
  BY <1>2, Limits, Ceilings
<1>4. after \in Zone /\ ImageOf(after) \in Conserved /\ ImageOf(after).image = after
  BY <1>3, RaisedOne, Images
<1>5. pass' = [number |-> 0, task |-> "recover", calm |-> pass.calm]
  BY <1>1, <1>2 DEF FloorTypes
<1>6. FloorTypes'
  BY <1>1, <1>2, <1>4, <1>5 DEF FloorTypes
<1>7. (U.image # NoState => U = ImageOf(U.image))'
  BY <1>1, <1>2, <1>4
<1>8. NoneOverlooked'
  <2> SUFFICES ASSUME ~hit
               PROVE  NoneOverlooked'
    BY <1>1 DEF NoneOverlooked, NotTreated
  <2>1. P' = P
    BY <1>1
  <2>2. P.rho >= rhoflr_max(P) /\ P.u >= greatest(uflr_geom, uflr_b(P))
    BY <1>2, Unmarked
  <2> QED  BY <2>1, <2>2, <1>1, <1>5, SameLimits DEF NoneOverlooked
<1>9. FlagTellsForms' /\ EnoughAdded'
  BY <1>5 DEF FlagTellsForms, EnoughAdded
<1>10. FloorsSettle'
  <2> SUFFICES ASSUME hit, P.gamma <= floors.gamma_max
               PROVE  Settled(P)'
    <3>1. hit \in BOOLEAN
      OBVIOUS
    <3>2. P.gamma \in Nat /\ floors.gamma_max \in Nat
      BY <1>2, Parameters DEF Zone
    <3> DEFINE fast == P.gamma > floors.gamma_max
    <3>3. /\ told'.frame = IF hit THEN "fluid" ELSE "none"
          /\ told'.slowed = (hit /\ fast)
      <4> HIDE DEF hit, fast
      <4> QED  BY <1>1 DEF NotTreated, fast
    <3>4. told'.frame \in {"fluid", "drift"} => hit
      BY <3>3
    <3>5. ~told'.slowed /\ hit => ~fast
      BY <3>3
    <3> QED  BY <3>2, <3>4, <3>5 DEF FloorsSettle, Settled
  <2>1. P' = after
    BY <1>1
  <2>2. Floored(P, after)
    <3>1. apply_ceilings(P).gamma \in Nat
      BY <1>3 DEF Zone
    <3> QED  BY <3>1, <1>3, RaisedOne DEF Floored
  <2> HIDE DEF hit, lowest, after
  <2>3. Settled(after)
    BY <1>2, <1>4, <2>2, Settling
  <2> QED  BY <2>1, <2>3, <1>1, <1>5, SettledStays
<1>11. pass'.task = "recover" /\ pass'.number = 0
  BY <1>5
<1> QED  BY <1>6, <1>7, <1>8, <1>9, <1>10, <1>11 DEF FloorInv, LimitsHold

LEMMA Inversion ==
    ASSUME FloorInv, Invert
    PROVE  FloorInv'
<1>1. FloorTypes /\ (U.image # NoState => U = ImageOf(U.image)) /\ P \in Zone
      /\ pass.number \in Nat
  BY DEF FloorInv, FloorTypes
<1>2. setup' = setup /\ fflag' = fflag /\ floor_vals' = floor_vals
  BY DEF Invert
<1>3. /\ pass'.task = "determine"
      /\ pass' \in [number : Nat, task : {"problem", "recover", "determine", "apply"},
                    calm : BOOLEAN]
  <2>1. \E b \in BOOLEAN :
           pass' = [number |-> pass.number + 1, task |-> "determine", calm |-> b]
    BY DEF Invert
  <2>2. pass.number + 1 \in Nat
    BY <1>1
  <2> QED  BY <2>1, <2>2
<1>4. /\ P' \in Zone /\ U' \in Conserved /\ pflag' \in {0, 1}
      /\ U'.image # NoState => U' = ImageOf(U'.image)
      /\ pflag' = 0 => U' = ImageOf(P')
  <2>1. CASE U.image = P /\ UNCHANGED <<P, U, pflag>>
    BY <1>1, <2>1, Images DEF FloorTypes
  <2>2. CASE \E s \in ZoneStates :
                \/ ~Unsolved(s) /\ P' = s /\ U' = ImageOf(s) /\ pflag' = 0
                \/ P' = s /\ U' = [rho |-> 4, image |-> NoState] /\ pflag' = 1
    <3>1. ZoneStates \subseteq Zone
      BY FloorsAssumption DEF Zone
    <3>2. [rho |-> 4, image |-> NoState] \in Conserved
      BY DEF Conserved
    <3> QED  BY <2>2, <3>1, <3>2, Images
  <2> QED  BY <2>1, <2>2 DEF Invert
<1>5. FloorTypes'
  BY <1>1, <1>2, <1>3, <1>4 DEF FloorTypes
<1>6. LimitsHold'
  BY <1>3, NotFloored
<1> QED  BY <1>3, <1>4, <1>5, <1>6 DEF FloorInv

LEMMA Determination ==
    ASSUME FloorInv, DetermineFloors
    PROVE  FloorInv'
<1>1. /\ FloorTypes /\ P \in Zone
      /\ U.image # NoState => U = ImageOf(U.image)
  BY DEF FloorInv, FloorTypes
<1>2. /\ pass.task = "determine" /\ pass' = [pass EXCEPT !.task = "apply"]
      /\ fflag' = fflag \union determine_floors(P)
      /\ floor_vals' = [rho |-> rhoflr_max(P), u |-> uflr_max(P)]
      /\ setup' = setup /\ P' = P /\ U' = U /\ pflag' = pflag
  BY DEF DetermineFloors, Task, Then
<1>3. /\ pass'.task = "apply" /\ pass'.calm = pass.calm
      /\ pass' \in [number : Nat, task : {"problem", "recover", "determine", "apply"},
                    calm : BOOLEAN]
  BY <1>1, <1>2 DEF FloorTypes
<1>4. floor_vals' \in [rho : Nat, u : Nat]
  BY <1>1, <1>2, Limits
<1>5. FloorTypes'
  BY <1>1, <1>2, <1>3, <1>4 DEF FloorTypes
<1>6. Marked'
  BY <1>2, <1>3, SameLimits DEF Marked
<1>7. LimitsHold'
  BY <1>3, NotFloored
<1>8. pflag = 0 => U = ImageOf(P)
  BY <1>2 DEF FloorInv
<1> QED  BY <1>1, <1>2, <1>3, <1>5, <1>6, <1>7, <1>8 DEF FloorInv

LEMMA Application ==
    ASSUME FloorInv, ApplyFloorsInFrame
    PROVE  FloorInv'
<1> DEFINE s == apply_ceilings(P)
<1>1. /\ FloorTypes /\ P \in Zone /\ Marked
      /\ U.image # NoState => U = ImageOf(U.image)
      /\ pflag = 0 => U = ImageOf(P)
  BY DEF FloorInv, FloorTypes, ApplyFloorsInFrame, Task
<1>2. /\ pass.task = "apply" /\ pass' = [pass EXCEPT !.task = "recover"]
      /\ setup' = setup /\ fflag' = fflag /\ floor_vals' = floor_vals
  BY DEF ApplyFloorsInFrame, Task, Then
<1>3. /\ pass'.task = "recover" /\ pass'.calm = pass.calm
      /\ pass' \in [number : Nat, task : {"problem", "recover", "determine", "apply"},
                    calm : BOOLEAN]
  BY <1>1, <1>2 DEF FloorTypes
<1>4. CASE fflag = {} /\ pflag = 0
  <2>1. told' = NotTreated /\ P' = P /\ U' = U /\ pflag' = pflag
    BY <1>4 DEF ApplyFloorsInFrame
  <2>2. determine_floors(P) = {}
    BY <1>1, <1>4 DEF Marked
  <2>3. P.rho >= rhoflr_max(P) /\ P.u >= greatest(uflr_geom, uflr_b(P))
    BY <1>1, <2>2, Unmarked
  <2>4. NoneOverlooked'
    BY <1>2, <1>3, <2>1, <2>2, <2>3, SameLimits DEF NoneOverlooked
  <2>5. FlagTellsForms' /\ EnoughAdded' /\ FloorsSettle'
    BY <1>1, <2>1 DEF FlagTellsForms, EnoughAdded, FloorsSettle, NotTreated
  <2>6. FloorTypes'
    BY <1>1, <1>2, <1>3, <2>1 DEF FloorTypes
  <2> QED  BY <1>1, <1>3, <2>1, <2>4, <2>5, <2>6 DEF FloorInv, LimitsHold
<1>5. CASE ~(fflag = {} /\ pflag = 0)
  <2>1. PICK found \in BOOLEAN : \E o \in apply_floors(s, found) :
                /\ P' = o.P
                /\ pflag' = IF o.status >= 0 THEN o.status ELSE pflag
                /\ U' = IF o.status <= 0 THEN ImageOf(o.P) ELSE o.U
                /\ told' = [frame |-> FrameHere(s), slowed |-> P.gamma > floors.gamma_max,
                            found |-> found \/ (pflag = 0 /\ s = P)]
    BY <1>5 DEF ApplyFloorsInFrame
  <2>2. PICK o \in apply_floors(s, found) :
                /\ P' = o.P
                /\ pflag' = IF o.status >= 0 THEN o.status ELSE pflag
                /\ U' = IF o.status <= 0 THEN ImageOf(o.P) ELSE o.U
                /\ told' = [frame |-> FrameHere(s), slowed |-> P.gamma > floors.gamma_max,
                            found |-> found \/ (pflag = 0 /\ s = P)]
    BY <2>1
  <2>3. s \in Zone /\ FrameHere(s) \in KnownFrames
    BY <1>1, Ceilings, FramesKnown
  <2> HIDE DEF s
  <2>4. /\ o.P \in Zone /\ o.U \in Conserved /\ o.status \in {-1, 0, 1}
        /\ o.status = 1 => o.U.image = NoState
        /\ FrameHere(s) \in {"fluid", "drift"} =>
              /\ o.P.rho = greatest(s.rho, floor_vals.rho)
              /\ o.P.u = greatest(s.u, floor_vals.u)
              /\ o.P.gamma <= s.gamma /\ (setup.field.across => o.P.gamma = s.gamma)
        /\ o.status = -1 => FrameHere(s) \in {"fluid", "drift"}
        /\ FrameHere(s) = "normal_kastaun_eenough" /\ o.status = 0
              /\ (found \/ (pflag = 0 /\ s = P)) => o.P.rho >= floor_vals.rho
    BY <1>1, <2>3, Applied
  <2>5. /\ P' \in Zone /\ U' \in Conserved /\ pflag' \in {0, 1}
        /\ U'.image # NoState => U' = ImageOf(U'.image)
        /\ pflag' = 0 => U' = ImageOf(P')
    <3>1. ImageOf(o.P) \in Conserved /\ ImageOf(o.P).image = o.P
      BY <2>4, Images
    <3>2. CASE o.status = 1
      BY <2>2, <2>4, <3>2
    <3>3. CASE o.status \in {-1, 0}
      BY <2>2, <2>4, <3>1, <3>3, <1>1 DEF FloorTypes
    <3> QED  BY <2>4, <3>2, <3>3
  <2>6. FloorTypes'
    BY <1>1, <1>2, <1>3, <2>5 DEF FloorTypes
  <2>7. told'.frame = FrameHere(s) /\ told'.slowed = (P.gamma > floors.gamma_max)
        /\ told'.found = (found \/ (pflag = 0 /\ s = P))
    BY <2>2
  <2>8. NoneOverlooked'
    BY <2>3, <2>7 DEF NoneOverlooked, KnownFrames
  <2>9. FlagTellsForms'
    BY <2>5 DEF FlagTellsForms
  <2>10. EnoughAdded'
    <3>1. /\ floor_vals.rho \in Nat /\ floor_vals.u \in Nat
          /\ s.rho \in Nat /\ s.u \in Nat
      BY <1>1, <2>3 DEF FloorTypes, Zone
    <3>2. FrameHere(s) \in {"fluid", "drift"} =>
             P'.rho >= floor_vals'.rho /\ P'.u >= floor_vals'.u
      BY <1>2, <2>2, <2>4, <3>1 DEF greatest
    <3>3. FrameHere(s) = "normal_kastaun_eenough" /\ told'.found /\ pflag' = 0 =>
             P'.rho >= floor_vals'.rho
      <4>1. HAVE FrameHere(s) = "normal_kastaun_eenough" /\ told'.found /\ pflag' = 0
      <4>2. o.status = 0
        BY <4>1, <2>2, <2>4
      <4> QED  BY <4>1, <4>2, <1>2, <2>2, <2>4, <2>7
    <3> QED  BY <3>2, <3>3, <2>7 DEF EnoughAdded
  <2>11. FloorsSettle'
    <3> SUFFICES ASSUME FrameHere(s) \in {"fluid", "drift"}, ~(P.gamma > floors.gamma_max)
                 PROVE  Settled(P)'
      BY <2>7 DEF FloorsSettle, Settled
    <3>1. P.gamma <= floors.gamma_max
      BY <1>1, Parameters DEF Zone
    <3>2. Floored(P, P')
      BY <1>1, <2>2, <2>4 DEF Floored, Marked, s
    <3>3. Settled(P')
      BY <1>1, <2>5, <3>1, <3>2, Settling
    <3> QED  BY <3>3, <1>2, <1>3, SettledStays
  <2> QED  BY <1>3, <2>5, <2>6, <2>8, <2>9, <2>10, <2>11 DEF FloorInv, LimitsHold
<1> QED  BY <1>4, <1>5

\* Flags cleared between steps, or nothing
LEMMA Clearing ==
    ASSUME FloorInv, UNCHANGED <<setup, P, U, pflag, floor_vals, pass, told>>,
           pass.task = "apply" => fflag' = fflag
    PROVE  FloorInv'
<1>1. /\ determine_floors(P)' = determine_floors(P) /\ rhoflr_max(P)' = rhoflr_max(P)
      /\ uflr_max(P)' = uflr_max(P) /\ uflr_geom' = uflr_geom /\ uflr_b(P)' = uflr_b(P)
      /\ floors' = floors
  BY SameLimits
<1>2. FloorTypes'
  BY DEF FloorInv, FloorTypes
<1>3. (pass.task = "apply" => Marked)'
  BY <1>1 DEF FloorInv, Marked
<1>4. LimitsHold'
  BY <1>1 DEF FloorInv, LimitsHold, NoneOverlooked, FlagTellsForms, EnoughAdded, FloorsSettle,
              floored
<1> QED  BY <1>2, <1>3, <1>4 DEF FloorInv

-----------------------------------------------------------------------------
LEMMA FloorInvAlways == FloorSpec => []FloorInv
<1>1. FloorInit => FloorInv
  <2> SUFFICES ASSUME FloorInit
               PROVE  FloorInv
    OBVIOUS
  <2>1. P \in Zone /\ setup \in Setups
    BY FloorsAssumption DEF FloorInit, Zone
  <2>2. [rho |-> 0, image |-> NoState] \in Conserved
    BY DEF Conserved
  <2>3. FloorTypes
    BY <2>1, <2>2 DEF FloorInit, Unfloored, FloorTypes
  <2>4. LimitsHold
    BY NotFloored DEF FloorInit, Unfloored
  <2> QED  BY <2>3, <2>4 DEF FloorInit, Unfloored, FloorInv
<1>2. FloorInv /\ [FloorNext]_floorVars => FloorInv'
  <2> SUFFICES ASSUME FloorInv, [FloorNext]_floorVars
               PROVE  FloorInv'
    OBVIOUS
  <2>1. CASE ApplyInitialFloors
    BY <2>1, InitialFloors
  <2>2. CASE Invert
    BY <2>2, Inversion
  <2>3. CASE DetermineFloors
    BY <2>3, Determination
  <2>4. CASE ApplyFloorsInFrame
    BY <2>4, Application
  <2>5. CASE ClearFlags
    BY <2>5, Clearing DEF ClearFlags, Task
  <2>6. CASE UNCHANGED floorVars
    BY <2>6, Clearing DEF floorVars
  <2> QED  BY <2>1, <2>2, <2>3, <2>4, <2>5, <2>6 DEF FloorNext
<1> QED  BY <1>1, <1>2, PTL DEF FloorSpec

(***************************************************************************)
(* Floors overlook nothing and settle: flags are set for every limit a     *)
(* zone breaks, the inversion's flag says whether primitives and conserved *)
(* variables are of one state, no zone is left short of what was asked     *)
(* for, and what floors in the fluid's frames leave breaks no limit that   *)
(* a floor on energy does not overrule.                                    *)
(***************************************************************************)
THEOREM FloorsAlwaysHold == FloorSpec => []LimitsHold
<1>1. FloorInv => LimitsHold
  BY DEF FloorInv
<1> QED  BY <1>1, FloorInvAlways, PTL
=============================================================================
