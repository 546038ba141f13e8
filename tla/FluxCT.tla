--------------------------------- MODULE FluxCT ---------------------------------
(***************************************************************************)
(* Flux-CT (b_flux_ct/): the magnetic field at zone centers, kept free of  *)
(* divergence at zone corners by averaging its fluxes in space, with the   *)
(* fixes of fluxes at poles and edges, over blocks in a row along X1.      *)
(*                                                                         *)
(* Numbers are exact.  Everything is linear in the fluxes and in the first *)
(* potential, so these are taken one at a time, as Unit at one place, with *)
(* zones of size one and gdet folded into the field.                       *)
(***************************************************************************)
EXTENDS Integers, FiniteSetsExt, SequencesExt

CONSTANTS
    Decks,      \* dimensions, zones of a block, boundary conditions and options of b_field/
    Blocks,     \* 1 .. the number of blocks, each on a task list of its own
    MaxSteps,
    MaxInputs   \* places that get a flux or a potential, in all

Unit == 8       \* averages of eight stay whole

Fields == 1 .. 3
Sides == {"inner", "outer"}
Kinds == {"periodic", "outflow", "dirichlet", "reflecting"}

ASSUME FluxCTAssumption ==
    /\ Blocks = 1 .. Cardinality(Blocks)
    /\ MaxSteps \in Nat /\ MaxInputs \in Nat
    /\ \A deck \in Decks :
          /\ deck.ndim \in 2 .. 3 /\ \A d \in 1 .. 3 : deck.zones[d] \in Nat \ {0}
          /\ deck.ndim = 2 => deck.zones[3] = 1
          /\ \A d \in 1 .. 2, side \in Sides :
                deck.bounds[d][side] \in Kinds /\ deck.fix[d][side] \in BOOLEAN
          /\ \A d \in 1 .. 2 : deck.bounds[d].inner = "periodic" <=> deck.bounds[d].outer = "periodic"
          /\ deck.polar \in BOOLEAN /\ deck.old \in BOOLEAN

VARIABLES
    deck,
    at,     \* where each block's task list is
    raw,    \* the place that Riemann solvers find a flux at in this step, if any
    flux,   \* each block's fluxes of cons.B, with the halo
    B,      \* cons.B of all zones, with one layer of ghosts
    steps, inputs

vars == <<deck, at, raw, flux, B, steps, inputs>>

-----------------------------------------------------------------------------
Directions == 1 .. deck.ndim
Pairs == Directions \X Fields    \* of a flux: its direction, and the component

Size(d) == IF d = 1 THEN Cardinality(Blocks) * deck.zones[1] ELSE deck.zones[d]

Periodic(d) == d = 3 \/ deck.bounds[d].inner = "periodic"

Begin(b, d) == IF d = 1 THEN 1 + (b - 1) * deck.zones[1] ELSE 1
End(b, d) == Begin(b, d) + deck.zones[d] - 1

Box(b, lower, upper) ==
    {<<i, j, k>> : i \in Begin(b, 1) + lower .. End(b, 1) + upper,
                   j \in Begin(b, 2) + lower .. End(b, 2) + upper,
                   k \in IF deck.ndim = 3 THEN 1 + lower .. Size(3) + upper ELSE {1}}

Interior(b) == Box(b, 0, 0)
Halo(b) == Box(b, -1, 1)
Corners(b) == Box(b, 0, 1)

Cells == {<<i, j, k>> : i \in 0 .. Size(1) + 1, j \in 0 .. Size(2) + 1, k \in 1 .. Size(3)}

Up(c, d) == [c EXCEPT ![d] = @ + 1]
Down(c, d) == [c EXCEPT ![d] = @ - 1]

\* The same place, reached around a periodic direction
Index(n, d) == IF Periodic(d) THEN 1 + ((n - 1) % Size(d)) ELSE n
Wrapped(c) == <<Index(c[1], 1), Index(c[2], 2), Index(c[3], 3)>>

NextOf(d) == 1 + (d % 3)

-----------------------------------------------------------------------------
(* The averaged curl of a potential at zone corners, and the divergence      *)
(* there.                                                                    *)
Offsets == (0 .. 1) \X (0 .. 1) \X (IF deck.ndim = 3 THEN 0 .. 1 ELSE {0})

Plus(c, o) == <<c[1] + o[1], c[2] + o[2], c[3] + o[3]>>
Minus(c, o) == <<c[1] - o[1], c[2] - o[2], c[3] - o[3]>>

averaged_curl(A) ==
    LET Difference(a, d, c) ==    \* of component a over direction d, averaged over the others
            IF d > deck.ndim THEN 0
            ELSE MapThenSumSet(LAMBDA o : (2 * o[d] - 1) * A[<<a, Wrapped(Plus(c, o))>>], Offsets)
                 \div (IF deck.ndim = 3 THEN 4 ELSE 2)
        Curl(t, c) ==
            Difference(NextOf(NextOf(t)), NextOf(t), c) - Difference(NextOf(t), NextOf(NextOf(t)), c)
    IN  [c \in Cells |-> [t \in Fields |-> IF t = 3 /\ deck.ndim = 2 THEN 0 ELSE Curl(t, c)]]

corner_div(c) ==
    MapThenSumSet(
        LAMBDA o : LET zone == Minus(c, o)
                       there == <<zone[1], zone[2], Index(zone[3], 3)>>
                   IN  MapThenSumSet(LAMBDA d : (1 - 2 * o[d]) * B[there][d], Directions),
        Offsets)

(* Ghost zones: exchanged around a periodic direction, or set by the         *)
(* boundary conditions, those of X2 after those of X1.                       *)
Nearest(c, d) == [c EXCEPT ![d] = IF @ < 1 THEN 1 ELSE Size(d)]

Filled(field, d) ==
    [c \in Cells |->
        IF c[d] \in 1 .. Size(d) THEN field[c]
        ELSE LET side == IF c[d] < 1 THEN "inner" ELSE "outer"
                 kind == deck.bounds[d][side]
             IN  CASE kind = "periodic" -> field[[c EXCEPT ![d] = Index(@, d)]]
                   [] kind = "outflow" -> field[Nearest(c, d)]
                   [] kind = "reflecting" -> [field[Nearest(c, d)] EXCEPT ![d] = -@]
                   [] kind = "dirichlet" -> field[c]]

Bounded(field) == Filled(Filled(field, 1), 2)

-----------------------------------------------------------------------------
(* Corrections at the boundaries of the domain.  The face index on a side,   *)
(* and the transverse zones beyond it and within.                            *)
IsPhysicalBoundary(b, d, side) ==
    /\ ~Periodic(d)
    /\ d = 1 => b = IF side = "inner" THEN 1 ELSE Cardinality(Blocks)

Face(b, d, side) == IF side = "inner" THEN Begin(b, d) ELSE End(b, d) + 1

\* Mutant: the last zone for the one past it
LastIndex(b, d, side) == IF side = "inner" THEN Begin(b, d) - 1 ELSE End(b, d)

BeyondIndex(b, d, side) == IF side = "inner" THEN Begin(b, d) - 1 ELSE End(b, d) + 1

Across(c, d, side) == IF side = "inner" THEN Up(c, d) ELSE Down(c, d)

\* No EMF along the face, and antisymmetric fluxes past it
ZeroBoundaryFlux(b, F, d, side) ==
    [p \in Pairs |-> [c \in Halo(b) |->
        IF p[1] = d /\ p[2] # d /\ c[d] = Face(b, d, side) THEN 0
        ELSE IF p[2] = d /\ p[1] # d /\ c[d] = BeyondIndex(b, d, side)
             THEN -F[p][Across(c, d, side)]
             ELSE F[p][c]]]

\* Fluxes past the face such that the EMF along it comes out zero
Bflux0(b, F, d, side) ==
    [p \in Pairs |-> [c \in Halo(b) |->
        LET t == p[1]
            face == [c EXCEPT ![d] = Face(b, d, side)]
        IN  IF p[2] = d /\ t # d /\ c[d] = BeyondIndex(b, d, side) /\ Down(face, t) \in Halo(b)
            THEN -F[p][Across(c, d, side)] + F[<<d, t>>][face] + F[<<d, t>>][Down(face, t)]
            ELSE F[p][c]]]

\* Mutant: only the inner pole is one
InnerPole == IF deck.polar THEN <<<<"zero", 2, "inner">>>> ELSE <<>>

Poles == IF deck.polar THEN <<<<"zero", 2, "inner">>, <<"zero", 2, "outer">>>> ELSE <<>>

Fixes ==
    LET fix == IF deck.old THEN "zero" ELSE "bflux0"
        Edge(d, side) == IF deck.fix[d][side] THEN <<<<fix, d, side>>>> ELSE <<>>
    IN  Poles \o Edge(1, "inner") \o Edge(1, "outer") \o Edge(2, "inner") \o Edge(2, "outer")

FixBoundaries(b, F) ==
    FoldLeft(
        LAMBDA G, f :
            IF ~IsPhysicalBoundary(b, f[2], f[3]) THEN G
            ELSE IF f[1] = "zero" THEN ZeroBoundaryFlux(b, G, f[2], f[3])
            ELSE Bflux0(b, G, f[2], f[3]),
        F, Fixes)

(* Toth's averages: an EMF at each corner from the four fluxes around it,    *)
(* and each flux again from the two EMFs along its face.  The halo is on the *)
(* right only.                                                               *)
Emf(F, e, c) ==
    LET a == NextOf(e)
        b == NextOf(a)
    IN  (F[<<a, b>>][c] + F[<<a, b>>][Down(c, b)] - F[<<b, a>>][c] - F[<<b, a>>][Down(c, a)]) \div 4

Averaged(b, F) ==
    LET edges == IF deck.ndim = 3 THEN 1 .. 3 ELSE {3}
        emf == [e \in edges |-> [c \in Corners(b) |-> Emf(F, e, c)]]
        Along(e, c, t) == (emf[e][c] + emf[e][Up(c, t)]) \div 2
        IsFace(c, d) == \A n \in 1 .. 3 : n # d => c[n] <= End(b, n)
    IN  [p \in Pairs |-> [c \in Halo(b) |->
            LET d == p[1]
                t == p[2]
                e == 6 - d - t
            IN  IF ~(c \in Corners(b) /\ IsFace(c, d)) THEN F[p][c]
                ELSE IF d = t THEN 0
                ELSE IF e \notin edges THEN F[p][c]
                ELSE IF t = NextOf(d) THEN Along(e, c, t) ELSE -Along(e, c, t)]]

-----------------------------------------------------------------------------
(* The lists of all blocks run at once, but FixFlux of each corrects the     *)
(* boundaries of every block of the mesh, whatever its fluxes are just then. *)
NoFlux == <<0, 0, <<0, 0, 0>>>>

StartStep ==
    /\ \A b \in Blocks : at[b] = "idle"
    /\ steps < MaxSteps /\ steps' = steps + 1
    /\ at' = [b \in Blocks |-> "fluxes"]
    /\ \/ raw' = NoFlux /\ UNCHANGED inputs
       \/ /\ inputs < MaxInputs /\ inputs' = inputs + 1
          /\ \E p \in Pairs, c \in UNION {Halo(b) : b \in Blocks} :
                c = Wrapped(c) /\ raw' = <<p[1], p[2], c>>
    /\ UNCHANGED <<deck, flux, B>>

\* GetFlux, the same values in both blocks of a face
GetFlux(b) ==
    /\ at[b] = "fluxes"
    /\ at' = [at EXCEPT ![b] = "boundaries"]
    /\ flux' = [flux EXCEPT ![b] =
          [p \in Pairs |-> [c \in Halo(b) |-> IF <<p[1], p[2], Wrapped(c)>> = raw THEN Unit ELSE 0]]]
    /\ UNCHANGED <<deck, raw, B, steps, inputs>>

FixFlux(b) ==
    /\ at[b] = "boundaries"
    /\ at' = [at EXCEPT ![b] = "average"]
    /\ flux' = [o \in Blocks |-> FixBoundaries(o, flux[o])]
    /\ UNCHANGED <<deck, raw, B, steps, inputs>>

AverageFlux(b) ==
    /\ at[b] = "average"
    /\ at' = [at EXCEPT ![b] = "update"]
    /\ flux' = [flux EXCEPT ![b] = Averaged(b, @)]
    /\ UNCHANGED <<deck, raw, B, steps, inputs>>

FluxDivergence(b, c, t) ==
    MapThenSumSet(LAMBDA d : flux[b][<<d, t>>][Up(c, d)] - flux[b][<<d, t>>][c], Directions)

Update(b) ==
    /\ at[b] = "update"
    /\ at' = [at EXCEPT ![b] = "sync"]
    /\ B' = [c \in Cells |->
          IF c \in Interior(b) THEN [t \in Fields |-> B[c][t] - FluxDivergence(b, c, t)] ELSE B[c]]
    /\ UNCHANGED <<deck, raw, flux, steps, inputs>>

Boundaries ==
    /\ \A b \in Blocks : at[b] = "sync"
    /\ at' = [b \in Blocks |-> "idle"]
    /\ B' = Bounded(B)
    /\ UNCHANGED <<deck, raw, flux, steps, inputs>>

(* The field is zero at first, or the curl of a potential at one corner that *)
(* no boundary is through.                                                   *)
SeedCorners ==
    {c \in Box(1, 0, 1) \cup UNION {Box(b, 0, 1) : b \in Blocks} :
        \A d \in 1 .. 3 : c[d] \in (IF Periodic(d) THEN 1 ELSE 2) .. Size(d)}

Potential(a, corner) ==
    [place \in Fields \X UNION {Box(b, -1, 2) : b \in Blocks} |->
        IF place = <<a, corner>> THEN Unit ELSE 0]

Seeds == {averaged_curl(Potential(a, c)) : a \in IF deck.ndim = 3 THEN Fields ELSE {3}, c \in SeedCorners}

Init ==
    /\ deck \in Decks
    /\ at = [b \in Blocks |-> "idle"]
    /\ raw = NoFlux
    /\ flux = [b \in Blocks |-> [p \in Pairs |-> [c \in Halo(b) |-> 0]]]
    /\ steps = 0
    /\ \/ inputs = 0 /\ B = [c \in Cells |-> <<0, 0, 0>>]
       \/ inputs = 1 /\ \E seed \in Seeds : B = Bounded(seed)

Next ==
    \/ StartStep \/ Boundaries
    \/ \E b \in Blocks : GetFlux(b) \/ FixFlux(b) \/ AverageFlux(b) \/ Update(b)

Spec == Init /\ [][Next]_vars

-----------------------------------------------------------------------------
(* ValidDivBX1: corners on the X1 edges of the domain are left out where     *)
(* they are not fixed.                                                       *)
Reported(b) ==
    {c \in Corners(b) :
        \A side \in Sides :
            IsPhysicalBoundary(b, 1, side) /\ ~deck.fix[1][side] => c[1] # Face(b, 1, side)}

(* Flux-CT exists to keep the divergence at zone corners zero, and KHARMA    *)
(* stops if MaxDivB finds it large: between steps it is zero at every corner *)
(* that MaxDivB looks at, where blocks meet, at poles and at fixed edges     *)
(* too, whatever the order in which lists fix and average fluxes.            *)
CornersDivergenceFree ==
    (\A b \in Blocks : at[b] = "idle") => \A b \in Blocks : \A c \in Reported(b) : corner_div(c) = 0

(* No flux of B1 enters a shell of zones or leaves it through its ends in X2 *)
(* ("effectively makes the pole a superconducting rod", b_flux_ct.cpp): the  *)
(* sum over the shell never changes.                                         *)
ShellFluxKept ==
    [][\A i \in 1 .. Size(1) :
          LET Shell == {c \in Cells : c[1] = i /\ c[2] \in 1 .. Size(2)}
          IN  MapThenSumSet(LAMBDA c : B'[c][1] - B[c][1], Shell) = 0]_vars
=============================================================================
