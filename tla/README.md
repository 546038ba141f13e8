# A formal model of KHARMA

KHARMA evolves general-relativistic magnetohydrodynamics on blocks of a mesh
with the Parthenon framework and Kokkos.  Most of its formulas are real
arithmetic and out of a model checker's reach.  What is not is how they are *put
together*: three drivers build lists of tasks over shared containers and flags,
with a dozen optional packages; zones that fail are repaired from neighbors
that may have failed as well; fields must stay free of divergence across
blocks and poles; iterative solvers juggle several copies of one state; and a run
must come up complete from a problem, a foreign file or its own restart file.
Mistakes there rarely fail a test: they work as long as the executor picks the
usual order, the mesh is one block, or nothing crashes.

This directory holds TLA+ modules of that structure, TLC configurations that
check them, and TLAPS proofs.  Paths below are relative to `src/`; `driver/`,
`radM1/` and the like are short for `kharma/driver/`, `kharma/radM1/`.

## 1. Inventory

### Components, their state and operations

| Component | State it keeps | Operations | Correct when |
|---|---|---|---|
| Drivers (`driver/*.cpp`) | containers `base`, `1`, `dUdt`, guesses, ...; the task collections of a stage | `MakeTaskCollection` and the bundles of `kharma_driver.cpp` | lists order all conflicting accesses; the split step's parts come in the promised order |
| Task executor (Parthenon, a submodule not in the tree) | completion of tasks, current region | run a task whose dependencies are complete; next region | every schedule computes what the lists say |
| Ghost zone exchange (`AddBoundarySync`, `AddFullSyncRegion`) | buffers, ghost zones | send, receive, set | ghost zones equal their physical counterparts at stage end; nobody hangs |
| Package callbacks (`kharma_package.*`) | lists of callbacks | `MeshUtoP`, `MeshApplyFloors`, `AddSource`, ... of every package | each package once, in the order the callers rely on |
| Package loading (`kharma.cpp`) | parameters, package list | `ProcessPackages`, `FixParameters` | a parameter is read after it is fixed; temporaries have room for every field; each variable has an inverter |
| Constrained transport (`b_ct/`) | face field, EMF on edges | curl, polar EMF conditions, `DerefinePoles`, `ReconnectB3` | the divergence stays zero in every zone, copies of a face agree |
| Flux-CT (`b_flux_ct/`) | cell field | `FixFlux`, `FluxCT`, seeding | the corner divergence stays zero |
| Constraint damping (`b_cd/`) | cell field, psi | sources | marked as not working by the source |
| Divergence cleanup (`b_cleanup/`) | potential, field | elliptic solve, field update | conserved state consistent after |
| Fluxes, FOFC (`flux/`) | face states, fluxes, `ctop`, `fofcflag` | `GetFlux` per direction, `MarkFOFC`, `ReplaceFluxes`, `ReviseFluxes` | both sides of a face use one flux; needy cells are paid in full |
| Inversion and fixes (`inverter/`) | `pflag` | `MeshUtoP`, `FixUtoP`, backstop | results do not depend on how the mesh is cut; both forms of the state agree |
| Floors (`floors/`) | `fflag` | `MeshApplyFloors`, `DetermineGRMHDFloors` | flags record what was applied |
| Implicit solver (`implicit/`) | `solve_fail`, norms | `Step`, line search, `FixSolve` | flags say what zones hold; unsolved zones are repaired from solved ones |
| ISMR (`ismr/`) | none | `DerefinePoles`, averages of cells | the flux between coarse cells is kept |
| Boundary conditions (`boundaries/`) | frozen Dirichlet data | `ApplyBoundary`, `FixFlux`, `SyncDomain`, ... | physical ghosts come from valid data; frozen zones stay frozen |
| Electrons, entropy (`electrons/`, `entropy/`) | `Kel_*`, `Ktot` | heating, entropy update | heating sees the advected entropy, transport the post-source one |
| Radiation M1 (`radM1/`) | `imex_src`, `dUdt_s1`, `rimplflag`, `rinvflag` | three solvers, `AddSource`, `FixRadiation` | a stage adds up to its tableau; what a solver accepts is of one state; repairs draw on good zones |
| Temperature, EMHD, wind, current | cached T; `q`, `dP`; none; preserved prims | tasks of the step | their inputs are those of the stage |
| Initialization, restart (`main.cpp`, `prob/`) | the mesh, the restart file | problem generation, `PostInitialize`, `resize_restart` | the first step finds everything it reads; a restart resumes what was saved |
| Reductions (`reductions/`) | pool of reducers | start, check | all ranks start and check in one order |
| Grid, coordinates, EOS, opacity, units, output, scripts | tables | formulas | outside this project |

Components interact through *shared state* (the fields of a container, the
`OneCopy` fields shared by all containers: flags, `ctop`, the EMF), through
*callbacks* a driver's task makes into all packages, through *TaskIDs* in one
region of one collection, and through *messages* between neighboring blocks.

### Where it is hard

- **Order by hand.**  `t_x = t_prev; if (use) t_x = AddTask(t_prev, ...)` is
  repeated for every option.  Shadowing, a bundle returning `t_none`, or an ID
  never used leave tasks unordered without any visible effect.
- **Shared between containers.**  FOFC runs a whole fake step into a guess,
  using the same flags and EMF as the real step.
- **Split operators.**  Half of the primitive sources before transport and
  half after; a two-stage tableau whose weights are spread over four kernels.
- **Two copies of the state.**  Primitive and conserved forms are brought into
  line by explicit tasks, in an order that differs between drivers.
- **Cut meshes.**  Each block decides about its ghosts and shared faces by
  itself, and must decide as its neighbor does.
- **Partitions and ranks.**  Lists of a region advance concurrently, regions
  serially, ranks meet only in messages.
- **Repairs.**  Failed inversions and solves are averaged from neighbors, in
  place and in parallel.
- **Crashes.**  Restart files hold what variables' flags say, and initialization
  rebuilds the rest.

All hazards are listed in `PROJECT.json` with the line where they bite and the
properties that would catch them, or why there is none.

## 2. Plan

1. *(done)* `TaskLists`, `SerialDriver`, `TaskCollection`: the vocabulary, the
   abstract specification, the executor; its proof.
2. *(done)* `KHARMADriver` with `KharmaStep`, `ImExStep`, `SimpleStep`: all
   lists of the three drivers; `StepProperties`: what comments promise of them.
3. *(done)* `FullSync`: exchange among partitions and ranks; its proof.
4. *(done)* `ConstrainedTransport` and `StaticMeshRefinement`, with proofs for
   meshes of any size; `FluxCT`.
5. *(done)* `InversionFixes`: inversion, floors, fixes; `ZoneFloors`: what floors
   do to one zone; proofs of both.
6. *(done)* `FirstOrderFluxes`: marking, replacing, revising; `FaceStates`: the
   kernels the fluxes come from.
7. *(done)* `PackageLoading` and, composed with it, `Startup`.
8. *(done)* `RadiationSolver` and `ExchangeSolvers`, with proofs of both.
9. *(done)* `ImplicitSolve`: iterations, flags and collectives over ranks and
   partitions; proofs that flags are honest, collectives pair and solves end
   converged.
10. *(not done)* Task lists over several partitions at once, composed with
   `FullSync`; reductions in flight across tasks; how a resized file's zones are
   mapped; how the EMF is computed from fluxes.

Proofs not done, in the order they are worth it: what loading and
starting a run leave (7); the corner divergence of (4), whose sums over eight zones of four
fluxes each are far beyond a leaf of the provers.

## 3. The modules

| Module | Models |
|---|---|
| `TaskLists` | `AddTask`, `TaskID`s and the "if used" idiom; `Compile` numbers tasks in the order added and resolves dependencies |
| `SerialDriver` | abstract: regions atomically, tasks in the order written |
| `TaskCollection` | the executor: `Run`, `Barrier` (end of a region), `NextStep`; refines `SerialDriver` |
| `KHARMADriver` | bundles of `driver/kharma_driver.cpp` and tasks several drivers add in the same order |
| `KharmaStep`, `ImExStep`, `SimpleStep` | `driver/kharma_step.cpp`, `imex_step.cpp`, `simple_step.cpp` |
| `StepProperties` | promises of the comments about the order of a step, and what they ask of the lists |
| `FullSync` | the exchanging regions of a stage over ranks and partitions |
| `ImplicitSolve` | `implicit/implicit.cpp`, with what it uses of `reductions/` |
| `ConstrainedTransport` | `b_ct/`: face fluxes, edge EMF, its boundary conditions, reconnection |
| `StaticMeshRefinement` | extends it by `DerefinePoles` |
| `FluxCT` | `b_flux_ct/`: averages, fixes, seed, corner divergence |
| `InversionFixes` | `inverter/`, `implicit/fix_solve.cpp`, floors and boundaries around them, over blocks |
| `ZoneFloors` | `floors/`: limits, flags, ceilings and frames of one zone |
| `FirstOrderFluxes` | `flux/fofc.cpp` with the guess the drivers compute for it |
| `FaceStates` | `flux/get_flux.hpp`, `reconstruction.hpp`, `flux_functions.hpp`: one row of zones |
| `Scalars` | minimum, maximum and sign of numbers |
| `PackageLoading` | `KHARMA::ProcessPackages`, `FixParameters` |
| `Startup` | extends it by `main.cpp`, `prob/problem.cpp`, `post_initialize.cpp`, `resize_restart.cpp` and restarts |
| `RadiationSolver` | `radM1/radM1.cpp`: stages, chain of solvers, flags, repairs |
| `ExchangeSolvers` | `radM1/radM1_solvers.hpp`: one zone's solvers |
| `*_proofs` | theorems about the module they are named after; `InversionFixes_proofs` also those about `ZoneFloors`, `FirstOrderFluxes_proofs` those about `FaceStates`, `TaskCollection_proofs` those about `StepProperties`, `Startup_proofs` those about `PackageLoading`; `Ranks_proofs` is about `ImplicitSolve` and `FullSync` |
| `MC*` | instances for TLC |

### How a step is modelled

A *configuration* is a record of options (`PlainHydro` and changes to it):
the driver, the field transport, and which packages are loaded.  From it,
`KharmaProgram`, `ImExProgram` and `SimpleProgram` build the whole step, all
stages one after the other, like `MakeTaskCollection` does stage by stage: one
`Task` per `AddTask` with its name, the TaskIDs it is added on, and what it reads
and writes.  Names of operators and of `t_...` variables are the code's, so the
two can be read side by side.

What a task does to data is abstracted to a *footprint*: locations
`<<container, group>>`, with the groups `P` (fluid primitives), `PK` (passive
ones: entropy, electrons), `U`, `UK` (their conserved forms), `B`, `PB` (field and
its cell-centered primitive), `Q` (q, dP), `T` (temperature) and fluxes by
direction; `shared` is the container of `OneCopy` fields.  Footprints were read
from the task's function and the package callbacks it runs, with what packages
loaded in that configuration register.

`Run(i)` executes one task when its dependencies are complete.  `data[l]` then
records *provenance*: `i` if the task found in every location it reads the output
of the last writer before it in program order, and `Stale` otherwise, which
spreads.  So `NoStaleData` states that no schedule matters.

### How data is modelled elsewhere

- `FullSync` abstracts a rank's interior to a version number and keeps regions,
  lists and messages.  Buffers between blocks of one rank are shared memory that
  must be emptied before they are refilled; those between ranks go through MPI,
  which may buffer.
- `ImplicitSolve` keeps of a zone its flag, the class of its norm (below the
  tolerance, above it, NaN) and where its primitives come from.  What the linear solve
  and the line search give is an input.  A collective is the list of calls made on its
  channel that not all ranks have taken the result of; MPI pairs a rank's n-th
  call with the n-th of the others.
- `ConstrainedTransport` and `FluxCT` compute in whole numbers, in a unit small
  enough for every division by an averaging length to be exact.  For constrained
  transport `Grain` is that unit, per substeps taken: forces are whole multiples of
  `Grain[0]`, and a substep takes a factor of at most N3 cubed from it, one for each average
  around a pole and one for merging zones (`ExactAssumption`).
- `InversionFixes` gives a zone a symbolic value: which sub-step, which input or
  which set of good neighbors it came from.  Beside the blocks, `whole` keeps what one
  undivided block would hold.  Kernels that repair in place visit zones one by
  one in any order, since Kokkos promises none.
- `FirstOrderFluxes` has sets of flagged zones and lowered faces for each block,
  and numbers only for the energies the PCP revision moves.  The actions of a
  block are the tasks of the drivers' lists that touch them, in every order the lists
  leave open.
- `ZoneFloors` keeps of a zone density, internal energy and Lorentz factor, in small whole numbers,
  and of the conserved variables the density and the primitives they are the image
  of, if any.  The gas has gamma = 2, so powers are squares; the field is along or
  across the velocity.  What an inversion of other conserved variables gives is an
  input that keeps the density.
- `FaceStates` runs the kernels of `GetFlux` one after the other over a row of zones, in whole
  numbers of a unit that divisions spare.  Temporaries hold `LeftOver` until a
  kernel writes them.
- `PackageLoading` keeps the parameters as a function of options that matter to
  control, each package's task with its dependencies, and of a temporary sized by counting
  the components that were counted; `Startup` a version per
  variable and region (interior, shared ghosts, domain boundary): 0 is "never
  set".  A crash drops everything but the last saved file; a file holds the
  variables with `Metadata::Restart`, interior only.
- `RadiationSolver` writes the content of a container as a linear combination of
  the state at the step's start, the explicit tendencies and the sources, with
  exact coefficients a + b sqrt(2) over 2, because ARS(2,2,2)'s are.
- `ExchangeSolvers` numbers the states a solver evaluates and keeps, for every local
  variable, which state it belongs to and what class of error that state had; the
  bracket of the fluid-frame solver is two rungs of a logarithmic ladder.

## 4. What is checked

| Run | Instance | Shows |
|---|---|---|
| `steps` | all three drivers, every field transport, options alone, in pairs and all together; 2 stages | `NoStaleData`; `ListsOrdered`, the hypotheses of the theorems about the executor, for each of these lists; `ImplementsSerial`: the executor refines `SerialDriver` with `state <- entry`; `EntropyInOrder` (heating reads the advected entropy, transport the post-source one) and `FormsInOrder` (conserved and primitive forms are brought into line after the last change of either), promises of the comments |
| `ranks` | 3 ranks of 1 partition, all adjacent to all, `two_sync`; and 2 ranks that solve 2 partitions of 1 zone in 2 stages, up to 3 iterations | `GhostsFollow`; `StatusHonest`, `EndsConverged`, `InStep` of the implicit solver; `NobodyWaits` (liveness of both) |
| `ct` | a block of 2 x 6 x 8 zones, ISMR levels 0 to 3, all treatments of the poles | `DivergenceFree`, `SharedFacesAgree`, `PoleClosed`, `CoarseFluxesKept` |
| `ct_blocks` | the same cut in two around the pole | violates `SharedFacesAgree` |
| `flux_ct` | two blocks, 2 and 3 dimensions, seven sets of boundaries | `CornersDivergenceFree`, `ShellFluxKept` |
| `fixes` | two blocks; averages, atmosphere and backstop with the kharma driver, averages and failed implicit solves with imex; one zone with seven frames of floors | `AsOneBlock`, `Lockstep`; `LimitsHold` |
| `fofc` | two blocks, or one with PCP, kharma driver; one row of zones with seven schemes | `AgreeInOrder`, `NeedyPaid`; `StatesSound`, `FluxKeepsPositive` |
| `startup` | eighteen parameter files, up to 2 steps and 2 crashes | `InputsReady`, `TemporariesFullSize`, `EveryVariableRecovered` of the loading; `ReadyToStep`, `DirichletKept`, `FieldCleaned`, `RestartKeepsState` of what follows |
| `restart_electrons` | a torus with electrons, imex driver | violates `RestartKeepsState` |
| `radm1` | 3 zones, one of them inside the horizon, FOFC and the P_rad fallback on and off | `SecondOrder`, `SolvedForItsUpdate`, `RepairedFromGood` |
| `radm1_fofc` | 2 zones with FOFC | violates `GuessIsUpdate` |
| `solvers` | one zone, all three solvers | `Coherent`, `BestAccepted`, `StartsInBracket` |

Every property has a mutant of the code's definitions in `PROJECT.json`, beside the
definition it replaces, that breaks it under the same configuration.

### Bounds, and why they are enough

*Steps.*  Two stages are the default integrators' number, and the first and
last stage are the only ones whose lists differ.  A task is added or left out by at most
two options, and a dependency skips over at most the optional tasks between, so a
missing one shows in a pair; all at once is the longest list.  The options of a
driver (`MCSteps`) are those whose tasks its lists chain; those whose lists leave
tasks apart (FOFC, excision, polar operations and cleanup with `kharma`, the
implicit solve) are in section 5.  The step repeats for ever.

*Ranks.*  `MaxInFlight = 2` messages let a rank run a whole exchange ahead of its
neighbor; versions modulo `Wrap = 5` cannot be confused, as a rank is at most
three changes ahead.  All partitions touch all others: the worst case for mixing
stages.  The run has a behavior for each of its two instances (`MCRanks`).  In the
solves, two partitions are taken in either order by each rank; one zone of each is
enough for what zones do to one another, since they meet only in the maximum, and
the zone of the other rank is such a one; three iterations let a solve end at the first, in
between and at the bound.  Each rank is scheduled fairly: `Driver::Execute` and the
`while` loops of `Check` poll without end.

*Constrained transport.*  Six rows hold three levels of refinement at both
poles, eight columns are the coarse cell of three levels, `MaxSteps = 2`
substeps show what a wrong boundary leaves behind.  All operations are linear,
so a wrong one shows on almost any EMF: the EMFs are four pseudo-random fields
without symmetry, and none at all.  What the theorems prove needs no such bound.

*Flux-CT.*  Operations are linear here too, so inputs are taken one at a time
(`MaxInputs = 1`): one unit of one flux at one place, or one component of the first
potential at one corner; sums of them cover the rest.  For the same reason one
step (`MaxSteps = 1`) from any of these is a step from any.  Blocks of 2 x 2
zones have corners inside, on each edge and where edges meet; lists of the two
blocks interleave as they like.  Zones have unit size and one layer of ghosts, as
`GetFlux`, `FixFlux` and `AverageFlux` need.  Corners on X1 edges that are not fixed are
left out of the property as `MaxDivB` (`ValidDivBX1`) leaves them out.

*Fixes.*  Two blocks of three columns, two rows, `Ghosts = 2` shared columns of
which reconstruction reads `Reach = 1`: the code's 4 and 3 with the only thing
that matters to fixes kept, one ghost zone to spare, since an average reaches one
zone.  Histories of up to two sub-steps place failures next to the cut,
diagonally across it, in the outermost ghosts of a neighbor, in groups without a good
neighbor, and in zones that floors rescue.

*Floors of a zone* (a behavior of the run `fixes` is either of blocks or of a
zone).  Eight prescriptions: limits that never bind, each that can clash with
another in a pair, all of them with and without `temp_adjust_u` and
`use_u_min_entropy`.  Eighteen states, some unsolved, too cold, too hot or too
fast; no field, one along the velocity and one across; two radii on
either side of the switch of the mixed frame.  Two passes (`MaxPasses = 2`): the first may meet anything an
inversion finds, the second what the first left.

*First-order fluxes.*  `Ghosts`, `FluxHalo` and `GuessHalo` are 2, 1 and 2 for the
code's 4, 1 and 3: fluxes one zone out, a guess beyond them.  Steps of two
sub-steps; a sub-step whose tasks ran in an order `AgreeInOrder` exempts is
explored to its end but not followed by another.  With PCP, all energies 0 to 2 of three
zones are tried; `Unit = 40` is divisible by every sum of two weights.

*Face states* (a behavior of the run `fofc` is either of blocks or of a row).  A
row of two zones reads five on either side; its values repeat every five zones and are 0 to 3, which
gives every stencil of five its rises, falls and extremes.  `FaceUnit = 120` is divisible by the
schemes' own denominators; what limiters divide further is off by at most `rounding = 4`.

*Startup.*  Two crashes: after the first the run is a restarted one, and a
second shows what a restarted run saved.  Two steps: the first and any later one
differ (`in_loop`).  Decks are tori with each driver and field solver, the
packages that change how a run starts, resized and regridded runs, and Dirichlet
problems.  Left out: emhd or implicit solves with the kharma driver and emhd
with radM1 (refused by `ProcessPackages` or without an inverter, section 5),
Dirichlet boundaries with electrons or with a seeded field that is normalized
(section 5), `restart_from_prims`, blobs, `sync_utop_seed` off.

*Radiation.*  Repairs look one zone to either side, so three zones hold a zone in the
horizon, one that touches it and one that does not.  Every combination of
outcomes of all solvers in all zones, in both stages and in the guess, is
explored, for ever: about 1.1 million states.

*Solvers.*  Counters are scaled, their order kept: `MaxIterations = 2`, `MaxShrinks
= 2` for 15 backtracks, `MaxBrackets = 2` for 30 widenings, a ladder of energies
with `Decade = 2` rungs to a factor of ten, within `Reach = 3` rungs.  Errors have
four classes, cut at the thresholds the code compares with.About 1.8 million
states.  The fluid frame's residual is taken to have one root in the energy at given velocities;
finite differences are good or bad as a whole; whether `accept_tol` is set is a
choice.  `None`, "no state", is a model value.

### Fairness

`TaskCollection` asks that some enabled step be taken, as the executor polls its
lists until they are complete (`WF_vars(Next)`); only the liveness half of
`ImplementsSerial` needs it.  `FullSync` asks it of each rank, a process of its
own that keeps polling.  No task or message is assumed to be faster than
another.  The other modules state safety only.

`CHECK_DEADLOCK FALSE` stands where a model ends with its bound on steps, or a
solve with its result.

## 5. Where comments, tests and code differ

### With a run

| Run | Statement | What the code does |
|---|---|---|
| `ct_blocks` | "Transmitting polar boundary conditions require 3D with one block in x3!" (`boundaries/boundaries.cpp:450`) | the condition reads the boundaries in x3 instead of x2 and never refuses a run; two blocks around a pole average the EMF separately, and the copies of a shared face drift apart |
| `restart_electrons` | "testing initialization vs restart of a torus problem", "Require similarity to round-off" (`tests/restart/run.sh:4-5`) | `prims.Kel_*` are not in restart files, and `MeshPtoU` overwrites the restored conserved ones |
| `radm1_fofc` | "Add all source terms so we can accurately predict floor hits" (`driver/kharma_driver.cpp:417`) | in stage 2 the guess lacks the first stage's tendency |

### Shown by instances that are not among the runs

Each follows from the modules with the change of configuration named.

- *Two partitions on a rank.*  "done over MeshData objects/partitions at once"
  (`driver/kharma_driver.cpp:168`), but the region `AddFullSyncRegion` adds for
  the first partition waits for messages of the second's region, and no stage
  completes: `FullSync` with `NumPartitions = 2` breaks `StagesComplete`.
- *The backstop in the imex driver.*  `pflag` is exchanged only with
  `fix_average_neighbors` (`inverter/inverter.cpp:131`), which the default
  inverter with a field turns off.  Shared ghosts then keep flags of before the
  exchange and the backstop passes a failed zone by, against
  `driver/imex_step.cpp:451-452` ("synchronize (including pflags!) first"):
  `MCBackstopDecks` break `AsOneBlock`.
- *FOFC in the imex driver.*  It floors the interior only
  (`driver/imex_step.cpp:455`), so flags left for the next sub-step differ between
  the blocks of a face: `MCImExScenarios` break `AgreeInOrder`.
- *PCP revisions.*  The weights are found in the interior of a block only
  (`flux/fofc.cpp:341`): with two blocks `FluxesAgree` fails.  Where floors depend on
  radius the giver and the receiver compute different weights: `spherical` decks
  break `NeedyPaid`.
- *Electrons at startup.*  Their ghost zones are blank at the first step with the
  kharma driver (`electrons/electrons.cpp:253`; entropy fills them,
  `entropy/entropy.cpp:124-131`): `ElectronTorus` breaks `ReadyToStep`.
- *Radiation on two blocks.*  `rimplflag` and `rinvflag` are not exchanged
  (against `driver/imex_step.cpp:451-452, 474-477`): a deck of `RadiationSolver`
  with `cut = 2` breaks `RepairedFromGood`.
- *The energy's bracket.*  "Restart from the bracket end nearest u*, so damped
  steps stay inside the bracket" (`radM1/radM1_solvers.hpp:1089`), but a bracket
  rebuilt in the loop (`:1149-1164`) is not restarted from: the iterate may lie
  outside, steps bounded by it may carry its upper end below the lower one, and the
  test for a collapsed bracket (`:1204-1205`) then accepts.  `StartsInBracket`
  without `ladder.rebuilt` fails.
- *Polar operations, kharma driver.*  "Reconnect then derefine, the 'local'
  operations on U" (`driver/kharma_step.cpp:368`): `UtoP` is added on `t_none`
  (`:392`), in the same region; `imex_step.cpp:388` waits.  Breaks
  `LocalOperationsBeforeInversion`, a part of `FormsInOrder`.
- *Cleanup, kharma driver.*  "Make sure *all* conserved vars are synchronized at
  step end" (`driver/kharma_step.cpp:469`): cleanup (`:504`) follows the last
  `PtoU`.  Breaks `ConservedMatchAtStepEnd`, its other part.
- *The guess's exchange.*  "Sync, now we have conserved guess state in zones and
  neighbors" (`driver/kharma_driver.cpp:443`): nothing waits for it, and the guess
  is inverted over the entire domain.  Two blocks' exchanges share the container
  `gsync`.  Breaks `NoStaleData` with FOFC.
- *The guess's flags.*  "And clear the flags, this step was fake"
  (`driver/kharma_driver.cpp:474`): nothing waits for the clears, and in the imex driver
  the real `UtoP` and floors are in the same region.  `MarkFOFC` does not wait for
  the guess's floors (`:473`).
- *The implicit solve.*  "Copy the entire solver state ... into the final state"
  (`driver/imex_step.cpp:439`): floors wait for the copy of faces, not for that of
  cells (`t_implicit_c`).  With `emhd/ideal_guess` the guess's ID replaces the
  explicit update's (`:360`).
- *The simple driver without a field.*  "Re-apply boundary conditions to reflect
  fixes" (`driver/simple_step.cpp:131`): `AddBoundarySync` returns an empty TaskID
  and what follows starts at once.
- *Excision.*  `FixFlux` uses scratch states as X3's (`boundaries/boundaries.cpp:890`)
  while the three directions are unordered.
- *`CheckCtop`.*  Its TaskID is shadowed (`driver/kharma_driver.cpp:360`), so it
  may run beside FOFC's replacement of fluxes.

The last eight are statements about the order lists *allow*; today's executor may
never choose it.

### Read, not modelled

Met while reading the code for the modules, without an instance that shows them:

- Dirichlet boundaries with a seeded field and `norm`: the frozen field is that of
  before the normalization (`prob/post_initialize.cpp:98`, `prob/problem.cpp:207`).
- `GRMHD/implicit=true` with the kharma driver loads neither an inverter nor the
  implicit solver's own way back; `n_implicit > 0` with radM1 loads no `Implicit`.
- `b_cleanup`'s solver "cleanup" always throws; its containers' lists shift the
  positional Dirichlet cache (`boundaries/dirichlet.cpp:79-83`).
- Conserved energy of physical ghosts is computed from a stale `prims.B`;
  `restart_from_prims` with Flux-CT leaves the ghosts of `prims.B` unset.
- `regrid_only` with `face_ct` does not call `BlockDangerousPtoU`
  (`tests/run_all.sh:8`); a blob is inserted again at a restart; runs resized with
  entropy start with `prims.Ktot` 0; `Ye` lacks `Restart` (`microphysics/ye/ye.cpp:60-70`).
- `dt_light` is updated although it is an immutable Param (`grmhd/grmhd.cpp:508-514`).
- `boundaries/boundaries.cpp:158` computes X1's extent from a test of nx2.
- `seed_B`'s white2020 uses an uninitialized `rmax_w`.
- `CoordinateOutput` looks up "coords.Xsph" where "coords.Xks" is declared.
- `fofc.cpp` updates `cmin` by `-min(cmin, cminR)`.
- ISMR does not check that nx3 is a multiple of the coarse cells; the model
  assumes it (`CoarseCellsAssumption`).
- `calc_jacobian` saves and restores `nvar` components of a residual that has as many as
  there are implicit variables (`implicit/implicit.hpp:247-286`).
- A zone that fails for want of room keeps the norm of an earlier solve
  (`implicit/implicit.cpp:525-540`), and may hold all ranks to the last iteration.
- Ranks with different numbers of partitions would pair collectives of different
  iterations: `DefaultNumPartitions` is each rank's own.
- `Reductions::Start` grows the pool with `push_back` while other reducers may be in
  flight (`reductions/reductions_impl.hpp:78`), and `CheckCtop` starts reducers 0 and 1 in every
  stage, which only the end of the step checks (`flux/flux.cpp:557-592`).
- `StartupOnly` is a flag nobody reads; `solve_radiation_1d` is never called.
- With `reconstruction_floors` and `reconstruction_fallback` both, negative states are
  first clipped to 0, so the fallback never sees one.
- The field of a face replaces the reconstructed one on the faces of the interior only
  (`flux/get_flux.hpp`); `lower_edges` and `lower_poles` are refused by `flux.cpp`.
- `EstimateTimestep` looks at the inner faces of zones only, and treats
  `excise_factor` as a comment in `UpdateAveragedCtop` says it does not.
- `ApplyInitialFloors` without the Floors package reads uninitialized fields of the
  prescription (`floors/floors.cpp:247-269`).
- A restart file of iharm3d resized: ghosts of the cache beyond boundaries that are not periodic
  are uninitialized (`prob/resize_restart.cpp:359, 375`), and `BlockDangerousPtoU`
  (`b_ct/b_ct.cpp:419-468`) averages them into the faces of the domain's edge.
- A KHARMA file without ghost zones: `prob/resize_restart_kharma.cpp:200-214` counts
  them all the same, and zones there are copies of the nearest instead of what the problem puts there.

And what `ZoneFloors` shows of floors, which its property `LimitsHold` allows for:

- `apply_ceilings` "returns consistent P<->U" (`floors/floors_functions.hpp:58`), but leaves
  U alone: in the frames that add to U the inversion undoes the ceilings, and a
  density the ceiling on velocity raised only reduces what is added.
- The floor entropy sets (`use_u_min_entropy`) has no flag, and is not applied to a zone no other
  limit flags.  With `u_over_rho_max`, it raises the density each pass until `Ktot` is
  reset.
- A zone that was slowed, in a field across its velocity, may break the limits of
  magnetization and temperature until the next pass.

## 6. What is proved

Each module's `Assumption`s are evaluated by TLC on the runs above; nothing else
is assumed.

**`TaskCollection_proofs`**, for every set of configurations, every program of any
number of tasks and regions, and any footprints:

- `TypeCorrect`: `Spec => []TypeOK`;
- `NoStaleDataHolds`: if conflicting tasks are ordered (`Ordered`), then
  `Spec => []NoStaleData`;
- `StepsImplementSerialHolds`: under the same condition every step of the
  executor is a step of `SerialDriver` or a stutter, with `state <- entry`.

- `EntropyAlwaysInOrder`, `FormsAlwaysInOrder`: the action properties `EntropyInOrder` and
  `FormsInOrder`, if also the lists, read from top to bottom, have their tasks in the
  order these ask for (`EntropyRead`, `FormsRead`).  A task that runs finds in all data it
  touches the output of the task listed last to fill them (`FillersFound`), so what
  schedules could do to entropy and to the two forms of the state is decided by the lists.

The hypotheses are on the lists alone; `ListsOrdered` checks them of those that the drivers
build.  The assumptions are `ProgramAssumption` (tasks are numbered, regions do not
decrease, dependencies stay in a region: all by construction of the lists) and
`WaitsAssumption` (`Waits` is the transitive closure of dependencies).
`NoStaleData` alone is not inductive: that a task finds the right inputs depends
on what has run before.  `IInv` adds that what a completed task waits for is
complete (`DoneClosed`), that earlier regions are (`EarlierDone`), and that every
location holds the output of the last of its completed writers (`LatestData`).
The argument turns on lemma `ConflictsInOrder`: when task *i* is ready, the
completed tasks it conflicts with are exactly those listed before it.  Hence it
reads the latest output among earlier writers, and is itself the latest of the
writers completed so far.  At a barrier every task up to the region is complete,
so `LatestData` is what the serial driver computes.

**`ConstrainedTransport_proofs`**, for meshes of any size, any EMFs and any number of
substeps.  With reconnection, without internal refinement (`Spec`):

- `FieldTypes`: `Spec => []TypeOK`;
- `FieldStaysDivergenceFree`: `Spec => []DivergenceFree`.  The curl of any EMF has no
  divergence in a zone, since each of its edges belongs to two faces with
  opposite signs (`CirculationFreeOfDivergence`); reconnection moves B2 and B3 together;
- `PolesStayClosed`: needs the invariant `PoleEMF`, that the EMF is kept constant
  around a pole's edges by its boundary condition;
- `SharedFacesStayEqual`, under the condition that averaged poles are in one
  block, which is what the check in `boundaries.cpp` should have asked: the copies of
  shared edges agree (`EdgesAgreeHolds`), hence those of faces.

With internal refinement (`RefinedSpec`), for any number of levels that `CoarseCellsAssumption`
admits:

- `RefinedFieldStaysDivergenceFree`, `RefinedPolesStayClosed`, `RefinedSharedFacesStayEqual`:
  the same three, merging included;
- `MergingKeepsCoarseFluxes`: `RefinedSpec => CoarseFluxesKept`.

None of these is inductive by itself.  That a merged zone is free of divergence needs that all
zones of its coarse cell were (`CoarseCellBalances`: summed around the cell, what
goes through faces between its zones cancels), that no flux went through the pole, where merging
puts zero (`PoleClosed`), and that averages and interpolations are exact; `RefinedInv`
joins the three with `PoleEMF` and with `Exact`, which says what all fluxes and EMFs are
multiples of before each operation.  `Exact` is true of real numbers; in whole numbers it is what
`ExactAssumption` is for.  A row's coarse cells are the halves of those of the next row
towards the pole (`HalfCells`), or end at zones that are left alone (`RowAtFarSide`), so that
what a row leaves on its far side is just what the interpolation of B3 made up for
(`MergedFarSide`, `MergedNextF3`, `MergedZone`).

The sums over rings and coarse cells are `SumFunction`s of the community modules, folds over a set in an
order chosen by `CHOOSE`; the first lemmas derive from that definition, by well-founded
induction over subsets, what sums obey (`SumWithout`: any element can be taken out first;
`SumSplits`, `SumBalances`).  Powers of two are a recursive function whose
equation `PowerOfTwo` proves.

**`InversionFixes_proofs`**, for any number and size of blocks that
`FixesAssumption` admits:

- `FixesTyped`: `Spec => []TypeOK`;
- `FixesKeepLockstep`: `Spec => []Lockstep`.  `LockInv` adds, for the kharma
  driver, what holds between tasks (`KharmaInv`): which zones are in lockstep, which
  are flagged and still to be recomputed, after the inversion, after floors, during the
  kernel that repairs and during the one that recomputes conserved variables.  In the imex driver the
  last tasks recompute all of a block's conserved variables.
- `CutMeshesAgree`: `AsOneBlock`, with imex for the inverters whose flags are exchanged
  (`FlagsTravel`, which `MCBackstopDecks` break).  `AlikeInv` follows each block beside
  the undivided mesh, task by task: what an inversion leaves (`InvertedAlike`), what
  floors rescue and which zones stay flagged (`FlooredAlike`), in the interior before the
  exchange and in the ghosts after it.  While the fix is on, the zones it has still to
  visit are as floors left them and those it visited are final; it takes from unflagged
  zones only, which it never visits, so their order does not show.  Lemma `RingsStored` is
  where the ghost zone more than reconstruction reads is needed: the neighbors of all
  zones it reads are then stored.

And, for every prescription with positive limits, any states an inversion
may find, any field and radius, and any number of sub-steps:

- `FloorsAlwaysHold`: `FloorSpec => []LimitsHold`.  `FloorInv` adds that between the mark and the
  application flags and floors kept are of the zone as it is (`Marked`), and that
  an image is of the primitives it names.  Lemma `Settling` is the heart: ceilings take no density, and no
  energy but what is beyond their limits, so nothing floors put back was asked for by
  another limit than the one that overrules.

**`FirstOrderFluxes_proofs`**, for any number and size of blocks, any inputs of any number of
sub-steps, and tasks in any order their dependencies admit:

- `FluxesAgreeInOrder`: `AgreeInOrder`, in the kharma driver without PCP (or with one block;
  `PredictAlike`), when the fluxes and the guess reach one zone beyond a block.  `FlagInv` says
  what each flag of the zones next to a block's faces is after every task, in terms of the inputs
  alone (`Predicted`), so that two blocks that hold the same zone mark it alike.  It holds while
  tasks ran in order: a block that marks before it has determined floors, or takes an
  exchange in the middle of its prediction, loses it, and with it the next sub-step's flags.
- `NeedyAlwaysPaid`: `NeedyPaid`, where floors do not depend on radius and `UnitDivides`:
  the code divides what is owed by the sum of the weights, the model must not lose a remainder.
  A needy zone has no weight of its own (`WeightsCount`), so of a face's two terms only its
  neighbor's remains (`RevisionPays`).

The same module proves of `FaceStates`, for a row of any length, any values in its zones
and any combination of scheme, solver, fallback and floors:

- `StatesAlwaysSound`: `StatesSound`.  The schemes come first, each for any five values:
  `Bounded` says that the ends of a zone stay between its value and its neighbor's
  (donor cell, the linear ones and `ppm`), `Centered` that a zone's value is the mean of its ends
  (donor cell and the linear ones), `Alike` that a mirrored stencil gives mirrored ends, to
  within what integer division loses.  `FaceInv` follows the kernels: the states of a face come
  from one scheme applied to the zones on its sides (`SidesInv`), that of the row or, where a
  face is flagged, the fallback's; so no state, speed or flux is left over (`Fresh`) and
  monotone schemes add no extremes (`NoExtremes`).
- `FluxAlwaysKeepsPositive`: `FluxKeepsPositive`.  `SpeedInv` says that a face's speeds
  bound those of both its states; LLF and HLLE then carry no more than their upwind
  state at the greater speed (`FluxBounds`), and with `Centered` the two faces of a zone never
  take more than there is.  That the fastest signal exists in a row of any length is `MaxExists`.

They assume `FacesAssumption`, with which `LeftOver` is no value a kernel could write.

**`RadiationSolver_proofs`**, for any number of zones and any outcomes:

- `FlagsSettle`: `Spec => []TypeOK`.  Its part worth having is that flags are pending
  only between the solvers of one try; `FlagInv` says which are pending before which
  solver, that none is inside the horizon, and that the fallback runs only where
  it is configured;
- `RepairsDrawOnGood`: `RepairedFromGood` with one block.  `FixInv`: while zones
  are repaired in any order, those that did not fail are as they were, those visited
  are good, and nobody reads the others;
- `WeightsAreTheTableau` and `SolversServeTheUpdate`: `SecondOrder` and
  `SolvedForItsUpdate`.  `ContentInv` says what each container holds at each point of a
  step as a `Mix` of five terms.  It depends on the sets `found` alone: which of the three solvers
  found a source, or in which try, leaves no trace, nor does the guess.
  `MeshInv` says that the update starts from the state at the step's start,
  `FoundInv` that `imex_src` holds a history exactly where stage 1 found a source,
  `TendencyInv` that a pending zone's tendency has nothing added to it yet, `StarInv`
  what solvers built.  Lemma `Weights` works out the integrator's numbers exactly (they
  are of the form (a + b sqrt(2)) / 2), and the lemmas before `VisitKeeps` multiply them out.

**`Ranks_proofs`**, of `ImplicitSolve`, for any number of ranks, partitions, zones, sub-steps and
iterations, and any outcome of the line search:

- `StatusesStayHonest`: `SolveSpec => []StatusHonest`.  `SolveInv` adds types and that
  iterations count from 1 while a solve is on: the first kernel resets what the last solve
  left, and the later ones spare only zones that were honest before.
- `AlwaysInStep`: `SolveSpec => []InStep`.  A call is named by what is being solved and
  the iteration.  `StepInv` says that at most two rounds of norms are under way, the
  second only among ranks through with the first (`QueueInv`); that whoever has not taken
  the first round's result is at the call `x` it is of, and whoever has is at
  `CallAfter(x, norm)`, which depends on that result alone (`OrderInv`); and what follows for
  the counts of failures and the final one (`CountInv`, `FlagsInv`).
- `AlwaysEndsConverged`: the action property `EndsConverged`.  It rests on the
  pairing, on flags being honest, and on `NormInv`: what a rank gave is the maximum
  over its own zones until it goes on, so a small maximum over all is one over its own.

And of `FullSync`, for any number of ranks, partitions, stages and any bound on
messages in flight, whoever is adjacent to whom:

- `GhostsAlwaysFollow`: `Spec => []GhostsFollow`.  `SyncInv` counts the exchanges each
  end of a channel has made, outside of the state: both send and take the same number in a
  stage, so a channel holds those messages the sender is ahead, in order, and which
  version the n-th message is of follows from n alone.  Nothing a message carries says so.

**`ExchangeSolvers_proofs`**, for any number of iterations, shrunk steps, brackets and
probes, and any errors states turn out to have:

- `AlwaysCoherent`, `OnlyTheBestAccepted`, `AlwaysInBracket`: `Coherent`,
  `BestAccepted` and `StartsInBracket`.  None is inductive.  `SolverInv` follows each kept
  quantity through every phase: the state the iterate, its error and the gas belong
  to (`IterateInv`, `GasInv`), that the best state was evaluated and none did better
  (`BestInv`), on which side of the root the bracket's ends are and when they hold the iterate
  (`LadderInv`), and that states are numbered without gaps, so that a new one is never
  taken for an old (`Counted`).

**`Startup_proofs`**, of `PackageLoading` and `Startup`, for every set of parameters (any
values of `Options`), any order of the packages' tasks, and any number of steps, crashes,
restart files and restarts:

- `InputsAlwaysReady`, `TemporariesAlwaysFullSize`: `InputsReady` and `TemporariesFullSize`,
  without a condition.  `LoadInv` says that parameters have come from the deck, with
  their defaults once packages are listed (`Follows`, `Settled`; also those a restart reads
  back from the file), and which packages may be loaded at which point;
  `SizedInv` that what was counted is still all there is to count.
- `EveryVariableAlwaysRecovered`: `EveryVariableRecovered`, under `ImplicitHolds`.
- `FieldAlwaysCleaned`: `FieldCleaned`, under `CleansOnce`.  `ResizeInv` follows the
  parameter that `resize_restart` changes for the restarts after it, `DivergenceInv` where between
  reading the file and the cleanup a field may have a divergence.
- `AlwaysReadyToStep`: `ReadyToStep`, under `ExchangesAll` and `FieldComes`.  `ReadyInv`
  adds what is ready before each stage of the startup, for a fresh start and a restart, and
  `SpeedsInv` when `inLoop` may be restored although no signal speed was computed.
- `DirichletAlwaysKept`: `DirichletKept`, under these and `DirichletHolds`.  `DirichletInv`
  says what the zones outside the domain and the cache of them hold, in the mesh and in the
  restart file; `EntropyInv`, that a restart evolves the variables the file was written with.
- `RestartAlwaysKeepsState`: `RestartKeepsState`, under `StartsSoundly`, all of the
  conditions.  The file holds a whole state (`SavedWhole`): nothing in what is not evolved
  (`Empty`), and the rest decided by the interior (`Complete`).  Two such states with the same interior
  are the same (lemma `WholeAgree`), and `ResumedInv` says that the startup keeps the interior:
  conserved variables and field first, primitives once they are recovered from them.

The conditions are on the deck alone, and `MCStartup` asserts them of the decks it runs.
Each excludes one of the code's own peculiarities, which section 5 lists: primitives the kharma
driver never exchanges or that no file holds, a seeded field normalized after it was
frozen, a resize cleaned twice, an implicit solve asked of a driver that has none.
The field of `B_CD` is the only one left out because the model does not follow it
(`FieldFollowed`).

Type correctness is part of each of these invariants, and no run repeats it.

**Only model-checked.**  Liveness (`ImplementsSerial`'s fairness,
`NobodyWaits`); Flux-CT (`CornersDivergenceFree`, `ShellFluxKept`), which comes down to
a case for every dimension, kind of boundary, order of fixes and position of a corner, few
enough to go through since all is linear; and `ListsOrdered`, what the
theorems of `TaskCollection_proofs` assume of the drivers' own lists, of which there
are finitely many.

## 7. What is not modelled

The map covers about a fifth of the implementation's lines.  Most of the rest is
not control but real arithmetic, tables or input and output, of which a model
would either repeat the formula or say nothing: metrics, coordinate maps and embeddings
(`coordinates/`, `geometry/`), inversion formulas (`inverter/kastaun.hpp`,
`onedw.hpp`), equations of state and opacities
(`microphysics/`), problem generators (`prob/*.hpp`), elliptic solves
(`b_cleanup/poisson_equation.hpp`), the pivoted QR of the implicit solver, output,
scripts, vendored code (`phoebus_utils/`), and constraint damping, which the source
marks as not working.

Control that is not modelled yet: item 10 of the plan.

What the modelled components leave out:

- *Lists*: `StartReceiveBoundBufs` and resets of communication buffers, timers and
  output; several partitions of one region's lists, whose containers named
  without the partition's index (`driver/kharma_step.cpp:301`) they would share.
- *Constrained transport*: how the EMF is computed, prolongation, seeding.
- *Flux-CT*: transmitting poles, metric factors, restarts.  `Bflux0` is modelled as
  documented, for Dirichlet edges; its ranges that read past the halo are unused and left out.  At
  X2 edges that are neither poles nor fixed, outflow makes divergence that `MaxDivB`
  does report; no deck has such edges.
- *Implicit solver*: residuals, the Jacobian and the linear solve; a norm equal to the
  tolerance; reductions of other tasks, which use other channels.
- *Fixes*: physical ghosts are one layer deep, boundaries are outflow; the exchange is a barrier; the
  backstop's own condition is the flag alone.
- *First-order fluxes*: one direction; `polar_cells`; marks in physical ghosts; the second
  guess of PCP as an input.
- *Face states*: all variables but density, velocity and field, metric factors, the scheme
  `weno5_linear` and reconstruction functions nothing calls.
- *Floors of a zone*: velocities but along the field or across it; gases but gamma = 2.
- *Startup*: the content of problem generators; which zone of a resized file a
  zone is mapped from; regridding as such.  What Parthenon writes to a restart
  file is read off `Metadata::Restart`.
- *Radiation*: the outcome of a solve in `RadiationSolver` is an input, with no link
  to `ExchangeSolvers`' course of it.  A repaired gas (`star_fixed`) at which
  `solve_4d_prad` converges at once returns a `P_init` that is not the inversion of `U_entry`;
  `Coherent` exempts it.  Searches for the bracket and support points never enter
  `keep_best`.
