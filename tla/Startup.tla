------------------------------ MODULE Startup ------------------------------
(***************************************************************************)
(* From parameters to the first step: main, the problem generator and      *)
(* PostInitialize, for fresh runs, runs resized from an iharm3d file and   *)
(* runs restarted from a Parthenon restart file after a crash.  A block's  *)
(* zones are its interior, the ghosts it shares with neighbors and those   *)
(* outside the domain; a variable's value in each is a version: 0 if it    *)
(* was never set, 1 if it is the problem's, more after later changes.      *)
(***************************************************************************)
EXTENDS PackageLoading

CONSTANTS MaxSteps, MaxCrashes    \* bounds of the model

VARIABLES
    deck,       \* the parameter file the run was first started with
    grid,       \* prims, cons: fluid and advected variables; face: conserved field (cons.fB,
                \* or cons.B with Flux-CT); field: prims.B; energy: the field counted in cons.u
    cache,      \* the Boundaries package's copy of Dirichlet ghost zones
    inLoop,     \* Globals' in_loop
    speeds,     \* is ctop filled?
    dtFrom,     \* what the last EstimateTimestep used
    steps,
    saved,      \* <<>> or <<the state last written to a restart file>>
    fromFile,   \* Globals::is_restart
    crashes

runVars == <<deck, grid, cache, inLoop, speeds, dtFrom, steps, saved, fromFile, crashes>>
vars == <<loadingVars, runVars>>

Regions == {"interior", "ghost", "domain"}
Cells == {"fluid", "entropy", "electrons", "Ye", "emhd", "radiation"}

PackageOf == [fluid |-> "GRMHD", entropy |-> "Entropy", electrons |-> "Electrons",
              Ye |-> "Ye", emhd |-> "EMHD", radiation |-> "RadM1"]
Evolved == {v \in Cells : PackageOf[v] \in loaded}

Dirichlet == On(pin, "dirichlet")
HasField == loaded \cap {"B_CT", "B_FluxCT"} # {}
IsRestart == fromFile \/ pin.problem = "resize_restart"

Everywhere(n) == [r \in Regions |-> n]
Blank == [prims |-> [v \in Cells |-> Everywhere(0)], cons |-> [v \in Cells |-> Everywhere(0)],
          face |-> Everywhere(0), field |-> Everywhere(0), energy |-> Everywhere(0),
          temperature |-> Everywhere(0), divergent |-> FALSE]
EmptyCache == [prims |-> [v \in Cells |-> 0], cons |-> [v \in Cells |-> 0], face |-> 0]

-----------------------------------------------------------------------------
(***************************************************************************)
(* Metadata flags: what boundary exchanges fill and what restart files     *)
(* keep.  Conserved variables always are kept; primitives only where a     *)
(* package adds Restart to the driver's flags.                             *)
(***************************************************************************)
FillGhostPrims ==
    {v \in Evolved : \/ SyncPrims(pin)
                     \/ v = "entropy"
                     \/ v = "fluid" /\ On(pin, "sync_utop_seed")}
FillGhostCons == IF SyncPrims(pin) THEN {} ELSE Evolved
RestartPrims == {"fluid", "entropy", "radiation"}

\* Packages whose BoundaryUtoP the conserved-variable exchange calls at domain boundaries
BoundaryInverted == Evolved \cap {"entropy", "electrons", "Ye", "emhd"}

\* The part of a state a restart file holds, as read back
Written(g) ==
    LET Kept(values) == [r \in Regions |-> IF r = "interior" THEN values[r] ELSE 0]
    IN  [Blank EXCEPT
            !.prims = [v \in Cells |-> IF v \in RestartPrims THEN Kept(g.prims[v]) ELSE @[v]],
            !.cons = [v \in Cells |-> Kept(g.cons[v])],
            !.face = Kept(g.face),
            !.field = IF On(pin, "restart_from_prims") THEN Kept(g.field) ELSE @,
            !.energy = Kept(g.energy),
            !.divergent = g.divergent]

-----------------------------------------------------------------------------
(***************************************************************************)
(* Conversions between primitive and conserved variables.                  *)
(***************************************************************************)
PtoU(g) == [g EXCEPT !.cons = g.prims, !.energy = g.field,
                     !.face = IF "B_FluxCT" \in loaded THEN g.field ELSE @]
FieldUtoP(g) == IF HasField THEN [g EXCEPT !.field = g.face] ELSE g

(***************************************************************************)
(* The boundary exchange: neighbors' zones into the ghosts, and outside    *)
(* the domain either the frozen values or an extrapolation.                *)
(***************************************************************************)
Exchanged(g, kept) ==
    LET Fill(values, frozen) ==
            [values EXCEPT !.ghost = values.interior,
                           !.domain = IF Dirichlet THEN frozen ELSE values.interior]
        FillAll(form, synced, frozen) ==
            [v \in Cells |-> IF v \in synced THEN Fill(form[v], frozen[v]) ELSE form[v]]
    IN  [g EXCEPT !.prims = FillAll(@, FillGhostPrims, kept.prims),
                  !.cons = FillAll(@, FillGhostCons, kept.cons),
                  !.face = IF HasField THEN Fill(@, kept.face) ELSE @]

\* ApplyBoundary, past the boundary condition itself: primitives rule outside the
\* domain, for all variables or (KHARMA driver) only for the fluid's
DomainLockstep(g) ==
    IF SyncPrims(pin)
    THEN [g EXCEPT !.cons = [v \in Cells |-> [@[v] EXCEPT !.domain = g.prims[v].domain]],
                   !.field.domain = IF HasField THEN g.face.domain ELSE @,
                   !.energy.domain = IF HasField THEN g.face.domain ELSE g.field.domain]
    ELSE [g EXCEPT !.cons.fluid.domain = g.prims.fluid.domain,
                   !.energy.domain = g.field.domain,
                   !.prims = [v \in Cells |->
                       IF v \in BoundaryInverted
                       THEN [@[v] EXCEPT !.domain = g.cons[v].domain] ELSE @[v]],
                   !.field.domain = IF HasField THEN g.face.domain ELSE @]

SyncAllBounds(g, kept) ==
    LET h == DomainLockstep(Exchanged(g, kept))
    IN  IF SyncPrims(pin) /\ HasField THEN [h EXCEPT !.field.ghost = h.face.ghost] ELSE h

\* FreezeDirichlet: the domain ghosts of whatever is exchanged, as they are now
Frozen(g) ==
    IF ~Dirichlet THEN cache
    ELSE [prims |-> [v \in Cells |-> IF v \in FillGhostPrims THEN g.prims[v].domain ELSE 0],
          cons |-> [v \in Cells |-> IF v \in FillGhostCons THEN g.cons[v].domain ELSE 0],
          face |-> IF HasField THEN g.face.domain ELSE 0]

-----------------------------------------------------------------------------
At(here, next) == stage = here /\ stage' = next
UnchangedBut(changing) ==    \* of the run's variables
    /\ "grid" \notin changing => grid' = grid
    /\ "run" \notin changing => UNCHANGED <<deck, fromFile, crashes>>
    /\ "cache" \notin changing => cache' = cache
    /\ "inLoop" \notin changing => inLoop' = inLoop
    /\ "time" \notin changing => UNCHANGED <<speeds, dtFrom, steps>>
    /\ "saved" \notin changing => saved' = saved
PackagesKept == UNCHANGED <<pin, waiting, loaded, sized>>

\* Mutant: a restarted resize is resized again
FixNothing ==
    /\ At("parameters", "listing")
    /\ UNCHANGED <<pin, waiting, loaded, sized>>
    /\ UnchangedBut({})

(***************************************************************************)
(* A restart of a resized run is no longer a resize, and does not clean    *)
(* its field again.                                                        *)
(***************************************************************************)
FixParameters ==
    /\ At("parameters", "listing")
    /\ pin' = IF fromFile /\ pin.problem = "resize_restart"
              THEN [pin EXCEPT !.problem = "resized_restart", !.b_cleanup = "off"]
              ELSE pin
    /\ UNCHANGED <<waiting, loaded, sized>>
    /\ UnchangedBut({})

Load == LoadNext /\ UnchangedBut({})

\* A problem sets its interior zones, and all others if a boundary is to keep them; a
\* resize fills every zone, interpolates the field to faces and sets nothing else
ProblemState ==
    LET own == IF Dirichlet THEN Regions ELSE {"interior"}
        Set(where) == [r \in Regions |-> IF r \in where THEN 1 ELSE 0]
        fluid == IF pin.problem = "resize_restart" THEN Everywhere(1) ELSE Set(own)
        Initial(v) ==
            IF v = "fluid" THEN fluid
            ELSE IF pin.problem = "resize_restart" \/ v \notin Evolved THEN Everywhere(0)
            ELSE IF v = "electrons" THEN Set({"interior"})
            ELSE IF v = "entropy" THEN fluid
            ELSE Set(own)
        resized == pin.problem = "resize_restart" /\ HasField
        faces == resized /\ ~On(pin, "regrid_only")
    IN  [Blank EXCEPT !.prims = [v \in Cells |-> Initial(v)],
                      !.field = IF resized THEN Everywhere(1) ELSE @,
                      !.face = IF faces THEN Everywhere(1) ELSE @,
                      !.divergent = faces]

\* Mutant: Dirichlet zones are not kept before the first exchange
ProblemGeneratorUnfrozen ==
    /\ At("loaded", "exchange")
    /\ ~fromFile
    /\ grid' = PtoU(ProblemState)
    /\ PackagesKept /\ UnchangedBut({"grid"})

ProblemGenerator ==
    /\ At("loaded", "exchange")
    /\ ~fromFile
    /\ grid' = PtoU(ProblemState)
    /\ cache' = Frozen(grid')
    /\ PackagesKept /\ UnchangedBut({"grid", "cache"})

ReadRestartFile ==
    /\ At("loaded", "exchange")
    /\ fromFile
    /\ grid' = Written(saved[1].grid)
    /\ cache' = saved[1].cache
    /\ inLoop' = saved[1].inLoop
    /\ steps' = saved[1].steps
    /\ UNCHANGED <<speeds, dtFrom>>
    /\ PackagesKept /\ UnchangedBut({"grid", "cache", "inLoop", "time"})

\* Parthenon's Mesh::Initialize
MeshExchange ==
    /\ At("exchange", "seed")
    /\ grid' = DomainLockstep(Exchanged(grid, cache))
    /\ PackagesKept /\ UnchangedBut({"grid"})

-----------------------------------------------------------------------------
(***************************************************************************)
(* KHARMA::PostInitialize, one action per operation on the mesh.           *)
(***************************************************************************)
FreezeAndSync(g) ==
    /\ cache' = Frozen(g)
    /\ grid' = SyncAllBounds(g, cache')

\* The curl of a potential that depends on the fluid, ghost zones included
Seeded(g) == [g EXCEPT !.face = g.prims.fluid, !.field = g.prims.fluid]

Scaled(values) == [r \in Regions |-> 2 * values[r]]
Normalized(g) ==
    [g EXCEPT !.face = Scaled(@),
              !.field = IF "B_CT" \in loaded THEN Scaled(g.face) ELSE Scaled(@)]

SeedsField == pin.b_solver # "none" /\ pin.b_type # "none" /\ ~IsRestart

SeedField ==
    /\ At("seed", "restore")
    /\ IF SeedsField
       THEN /\ cache' = Frozen(grid)
            /\ LET g == Seeded(SyncAllBounds(grid, cache'))
               IN  grid' = IF On(pin, "norm") THEN Normalized(SyncAllBounds(g, cache')) ELSE g
       ELSE UNCHANGED <<grid, cache>>
    /\ PackagesKept /\ UnchangedBut({"grid", "cache"})

FromPrims == pin.problem = "resize_restart" \/ On(pin, "restart_from_prims")

\* Mutant: primitives are restored in the interior only
RestoredInterior(g) ==
    IF FromPrims
    THEN IF "B_FluxCT" \in loaded THEN [g EXCEPT !.face = g.field] ELSE g
    ELSE [g EXCEPT !.field.interior = FieldUtoP(g).field.interior,
                   !.prims.emhd.interior = IF "EMHD" \in loaded THEN g.cons.emhd.interior ELSE @]

Restored(g) ==
    IF FromPrims
    THEN IF "B_FluxCT" \in loaded THEN [g EXCEPT !.face = g.field] ELSE g
    ELSE [FieldUtoP(g) EXCEPT
              !.prims.emhd = IF "EMHD" \in loaded THEN g.cons.emhd ELSE @]

ResetGlobals == inLoop' = FALSE

Restore ==
    /\ At("restore", "settle")
    /\ IF IsRestart
       THEN ResetGlobals /\ grid' = Restored(grid)
       ELSE UNCHANGED <<inLoop, grid>>
    /\ PackagesKept /\ UnchangedBut({"grid", "inLoop"})

SettleField ==
    /\ At("settle", "clean")
    /\ IF pin.b_solver # "none" THEN FreezeAndSync(grid) ELSE UNCHANGED <<grid, cache>>
    /\ PackagesKept /\ UnchangedBut({"grid", "cache"})

\* The solution is applied to all faces, and the Dirichlet ones put back after it
CleanupDivergence(g) ==
    LET h == SyncAllBounds(g, cache)
        solved == [h EXCEPT !.face = [r \in Regions |-> @[r] + 1], !.divergent = FALSE]
    IN  FieldUtoP(SyncAllBounds(solved, cache))

CleanField ==
    /\ At("clean", "electrons")
    /\ grid' = IF "B_Cleanup" \in loaded /\ grid.divergent THEN CleanupDivergence(grid) ELSE grid
    /\ PackagesKept /\ UnchangedBut({"grid"})

ReinitElectrons ==
    /\ At("electrons", "finish")
    /\ IF "Electrons" \in loaded /\ On(pin, "reinitialize")
       THEN /\ grid' = [grid EXCEPT !.prims.entropy = grid.prims.fluid,
                                   !.prims.electrons.interior = grid.prims.fluid.interior]
            /\ pin' = [pin EXCEPT !.reinitialize = "off"]
       ELSE UNCHANGED <<grid, pin>>
    /\ UNCHANGED <<waiting, loaded, sized>> /\ UnchangedBut({"grid"})

WithTemperature(g) ==
    IF "Temperature" \in loaded THEN [g EXCEPT !.temperature = g.prims.fluid] ELSE g

Finish ==
    /\ At("finish", "timestep")
    /\ LET g == PtoU(grid)
       IN  /\ cache' = Frozen(g)
           /\ grid' = WithTemperature(SyncAllBounds(g, cache'))
    /\ PackagesKept /\ UnchangedBut({"grid", "cache"})

-----------------------------------------------------------------------------
(***************************************************************************)
(* The run: timesteps and steps, restart files, crashes and restarts.      *)
(***************************************************************************)
LightSpeeds == On(pin, "start_dt_light") \/ On(pin, "use_dt_light")

EstimateTimestep ==
    /\ At("timestep", "looping")
    /\ dtFrom' = IF ~inLoop THEN (IF LightSpeeds THEN "ctop" ELSE "parameters")
                 ELSE IF On(pin, "use_dt_light") THEN "light" ELSE "ctop"
    /\ speeds' = (speeds \/ (~inLoop /\ LightSpeeds))
    /\ UNCHANGED steps
    /\ PackagesKept /\ UnchangedBut({"time"})

\* What every step's last substep leaves (the task lists have their own modules): new
\* values in all zones but those held at Dirichlet boundaries
Advanced(g) ==
    LET version == 10 + steps
        Evolve(values) ==
            [r \in Regions |-> IF Dirichlet /\ r = "domain" THEN values[r] ELSE version]
        EvolveAll(form) == [v \in Cells |-> IF v \in Evolved THEN Evolve(form[v]) ELSE form[v]]
    IN  WithTemperature([g EXCEPT
            !.prims = EvolveAll(@), !.cons = EvolveAll(@),
            !.face = IF HasField THEN Evolve(@) ELSE @,
            !.field = IF HasField THEN Evolve(@) ELSE @,
            !.energy = IF HasField THEN Evolve(@) ELSE @])

Step ==
    /\ At("looping", "timestep")
    /\ steps < MaxSteps
    /\ inLoop' = TRUE
    /\ grid' = Advanced(grid)
    /\ speeds' = TRUE
    /\ steps' = steps + 1
    /\ UNCHANGED dtFrom
    /\ PackagesKept /\ UnchangedBut({"grid", "inLoop", "time"})

WriteRestart ==
    /\ At("looping", "looping")
    /\ On(pin, "dumps")
    /\ saved' = <<[pin |-> pin, grid |-> grid, cache |-> cache, inLoop |-> inLoop,
                   steps |-> steps]>>
    /\ PackagesKept /\ UnchangedBut({"saved"})

Crash ==
    /\ stage # "refused"
    /\ crashes < MaxCrashes
    /\ crashes' = crashes + 1
    /\ fromFile' = (saved # <<>>)
    /\ pin' = IF saved # <<>> THEN saved[1].pin ELSE deck
    /\ stage' = "parameters"
    /\ waiting' = {} /\ loaded' = {} /\ sized' = Unsized
    /\ grid' = Blank /\ cache' = EmptyCache /\ inLoop' = FALSE
    /\ speeds' = FALSE /\ dtFrom' = "none" /\ steps' = 0
    /\ UNCHANGED <<deck, saved>>

Init ==
    /\ deck \in Decks
    /\ pin = deck
    /\ stage = "parameters"
    /\ waiting = {} /\ loaded = {} /\ sized = Unsized
    /\ grid = Blank /\ cache = EmptyCache /\ inLoop = FALSE
    /\ speeds = FALSE /\ dtFrom = "none" /\ steps = 0
    /\ saved = <<>> /\ fromFile = FALSE /\ crashes = 0

Startup ==
    \/ FixParameters \/ Load \/ ProblemGenerator \/ ReadRestartFile \/ MeshExchange
    \/ SeedField \/ Restore \/ SettleField \/ CleanField \/ ReinitElectrons \/ Finish
    \/ EstimateTimestep

Finished == stage = "refused" \/ (stage = "looping" /\ steps = MaxSteps)

Next ==
    \/ Startup
    \/ Step
    \/ WriteRestart
    \/ Crash
    \/ (Finished /\ UNCHANGED vars)

Spec == Init /\ [][Next]_vars

-----------------------------------------------------------------------------
\* Stages, flags and counts have their types
TypeOK ==
    /\ stage \in {"parameters", "listing", "loading", "loaded", "refused", "exchange", "seed",
                  "restore", "settle", "clean", "electrons", "finish", "timestep", "looping"}
                 \cup {FinalPackages[i] : i \in 1 .. Len(FinalPackages)}
    /\ waiting \cap loaded = {}
    /\ {inLoop, speeds, fromFile} \subseteq BOOLEAN
    /\ dtFrom \in {"none", "parameters", "light", "ctop"}
    /\ steps \in 0 .. MaxSteps /\ crashes \in 0 .. MaxCrashes /\ Len(saved) <= 1
    /\ cache.prims \in [Cells -> Nat] /\ grid.face \in [Regions -> Nat]

(***************************************************************************)
(* What parameters must not ask for if the properties below are to hold;   *)
(* what the code makes of those that do is told in the README.             *)
(***************************************************************************)
\* The kharma driver exchanges the primitives of the fluid and its entropy only
ExchangesAll(d) ==
    DriverType(d) = "kharma" =>
        On(d, "sync_utop_seed") /\ \A o \in {"electrons", "Ye", "emhd", "radm1"} : ~On(d, o)

\* Every field comes to be on faces, ghosts included
FieldComes(d) ==
    /\ ~On(d, "restart_from_prims")
    /\ ~(d.problem = "resize_restart" /\ On(d, "regrid_only") /\ d.b_solver = "face_ct")

\* B_CD's field is not followed here
FieldFollowed(d) == d.b_solver \in {"face_ct", "flux_ct", "none"} \/ d.b_type = "none"

\* Some primitives are neither written to restart files nor recovered from what is
RestartHolds(d) == On(d, "dumps") => ~On(d, "electrons") /\ ~On(d, "Ye")

\* Zones outside the domain get all there is from the problem, and nothing scales it
DirichletHolds(d) ==
    On(d, "dirichlet") =>
        /\ ~On(d, "electrons") /\ d.problem # "resize_restart"
        /\ ~On(d, "norm") \/ d.b_type = "none" \/ d.b_solver = "none"

\* A restarted resize is not asked to be cleaned again
CleansOnce(d) == ~(d.problem = "resize_restart" /\ On(d, "initial_cleanup"))

StartsSoundly(d) ==
    /\ ExchangesAll(d) /\ FieldComes(d) /\ FieldFollowed(d)
    /\ RestartHolds(d) /\ DirichletHolds(d) /\ CleansOnce(d)

(***************************************************************************)
(* A run restarted from a file resumes the state the file was written      *)
(* from: primitives in all zones (ghosts included: the first fluxes        *)
(* reconstruct from them), the conserved variables it evolves, the field   *)
(* and the cached temperature, whatever a restart file leaves out.         *)
(***************************************************************************)
RestartKeepsState ==
    stage = "looping" /\ fromFile /\ steps = saved[1].steps =>
        LET old == saved[1].grid
        IN  /\ grid.prims = old.prims
            /\ \A v \in Evolved : grid.cons[v].interior = old.cons[v].interior
            /\ grid.face = old.face /\ grid.field = old.field
            /\ grid.temperature = old.temperature

(***************************************************************************)
(* When a step starts, the primitives it reconstructs from are set in      *)
(* ghost zones as in the zones they copy or extrapolate (before the first  *)
(* fluxes nothing inverts conserved ghosts), the conserved energy of       *)
(* interior zones counts the field the step starts with, though the first  *)
(* PtoU ran before any field was there, the temperature for the first      *)
(* guess is the fluid's everywhere, and the timestep came from signal      *)
(* speeds only if something has filled them since the program started:     *)
(* restarts restore in_loop, not ctop.                                     *)
(***************************************************************************)
ReadyToStep ==
    stage = "looping" =>
        LET Filled(values) ==
                /\ values.ghost = values.interior
                /\ ~Dirichlet => values.domain = values.interior
        IN  /\ \A v \in Evolved : Filled(grid.prims[v])
            /\ HasField => Filled(grid.face) /\ grid.field = grid.face
            /\ grid.energy.interior = grid.field.interior
            /\ "Temperature" \in loaded => grid.temperature = grid.prims.fluid
            /\ dtFrom = "ctop" => speeds

(***************************************************************************)
(* Dirichlet boundaries hold the problem's own state for the whole run:    *)
(* exchanges before the seeding, the cleanup and every restart never       *)
(* replace it by zeros, by an extrapolation or by an evolved state.        *)
(***************************************************************************)
DirichletKept ==
    stage = "looping" /\ Dirichlet =>
        /\ \A v \in Evolved : grid.prims[v].domain = 1
        /\ HasField /\ pin.b_type # "none" => grid.face.domain = 1 /\ grid.field.domain = 1

(***************************************************************************)
(* A field interpolated to the faces of a new mesh is not evolved, nor     *)
(* written to a restart file, before its divergence is cleaned, unless the *)
(* user skips that; and a restart does not clean the evolved field again.  *)
(***************************************************************************)
FieldCleaned ==
    /\ stage = "looping" /\ ~On(pin, "skip_b_cleanup") => ~grid.divergent
    /\ stage = "looping" /\ fromFile /\ deck.problem = "resize_restart"
           => "B_Cleanup" \notin loaded

=============================================================================
