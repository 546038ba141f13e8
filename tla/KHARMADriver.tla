---------------------------- MODULE KHARMADriver ----------------------------
(***************************************************************************)
(* The task bundles shared by KHARMA's three drivers (kharma_driver.cpp).  *)
(* c is the configuration: which packages are loaded, which options are on *)
(* (fields of PlainHydro below).  Groups of fields:                        *)
(*   P, PK     fluid / passive (electron, entropy) primitives              *)
(*   U, UK     their conserved counterparts                                *)
(*   B, PB     the evolved magnetic field (on faces under B_CT) and the    *)
(*             cell-centered primitive field derived from it               *)
(*   Q         extended-MHD variables q, dP                                *)
(*   T         the cached temperature                                      *)
(*   F1 F2 F3  fluxes through the faces of each direction                  *)
(***************************************************************************)
EXTENDS TaskLists

Dirs == 1 .. 3
Flux == <<"F1", "F2", "F3">>
Fluxes == {Flux[d] : d \in Dirs}
Ctop == <<"ctop1", "ctop2", "ctop3">>
Ctops == {Ctop[d] : d \in Dirs}

Prims == {"P", "PB", "PK", "Q"}
CellCons(c) == {"U", "UK"} \cup (IF c.b = "ct" THEN {} ELSE {"B"})
FaceCons(c) == IF c.b = "ct" THEN {"B"} ELSE {}
Cons == {"U", "UK", "B"}

\* Fields flagged Implicit are left to Implicit::Step, the rest are Explicit
Implicit(c) == IF c.implicit THEN {"P", "U", "Q"} ELSE {}
Explicit(c) == (Prims \cup Cons) \ Implicit(c)

\* The primitives a package's UtoP and fluxes work from
PrimState == Prims \cup {"T"}

\* Driver parameter sync_prims: primitives are exchanged, not conserved fields
SyncPrims(c) == c.driver # "kharma"

\* A container each stage starts from or ends in: the last stage ends in base
StageName(s, nstages) == IF s \in {0, nstages} THEN "base" ELSE "1"

PlainHydro ==
    [driver |-> "kharma", b |-> "none", multilevel |-> FALSE, adaptive |-> FALSE,
     neighbors |-> TRUE, jcon |-> FALSE, fofc |-> FALSE, pcp |-> FALSE,
     track |-> FALSE, prim_source |-> FALSE, electrons |-> FALSE, entropy |-> FALSE,
     temperature |-> FALSE, reconnect |-> FALSE, ismr |-> FALSE, excise |-> FALSE,
     checks |-> FALSE, onedw |-> FALSE, cleanup |-> FALSE, two_sync |-> TRUE,
     implicit |-> FALSE, ideal_guess |-> FALSE, linesearch |-> FALSE,
     radm1 |-> FALSE]

\* Requests ProcessPackages refuses, and what it makes of the others: electrons
\* bring entropy tracking with them, jcon is only calculated with a B field
Loadable(c) == c.cleanup => c.b = "ct"
Loaded(c) == [c EXCEPT !.entropy = @ \/ c.electrons, !.jcon = @ /\ c.b # "none",
                       !.reconnect = @ /\ c.b = "ct"]

-----------------------------------------------------------------------------
\* Exchange of md's ghost zones, then, if primitives were exchanged, UtoP of the
\* B field at each face shared with another block (one task stands for all)
AddBoundarySync(t_start, exchange, md, groups, c) ==
    LET utop == exchange \o <<"BlockUtoP">>
        needs_utop == SyncPrims(c) /\ c.neighbors /\ c.b # "none"
    IN  Bundle(
          <<Task(exchange, t_start, Of(md, groups), Of(md, groups))>>
          \o When(needs_utop,
               <<Task(utop, {exchange}, Of(md, groups \cap {"B", "PB"}),
                                        Of(md, groups \cap {"PB"}))>>),
          IF SyncPrims(c) THEN IfUsed(needs_utop, utop, t_none) ELSE {exchange})

\* The exchange of a stage's evolved fields; Parthenon ends it by applying the
\* physical boundary conditions, which rewrite both forms in the ghost zones
AddStateSync(t_start, at, md, c) ==
    AddBoundarySync(t_start, <<at, "Exchange">>, md, Prims \cup Cons \cup {"T"}, c)

AddFullSyncRegion(md, c) == AddStateSync(t_none, "sync", md, c).tasks

\* Only the excision fix of the fluxes relies on what a direction leaves in
\* the reconstruction scratch; everyone else fills it before using it
Scratch(c) == IF c.excise THEN Shared({"scratch"}) ELSE {}

AddFluxCalculations(t_start, md, c) ==
    LET GetFlux(d) == <<"GetFlux", Flux[d]>>
        t_calc_fluxes == {GetFlux(d) : d \in Dirs}
    IN  Bundle(
          [d \in Dirs |->
             Task(GetFlux(d), t_start, Of(md, PrimState \cup {"B"}),
                  Of(md, {Flux[d]}) \cup Shared({Ctop[d]}) \cup Scratch(c))]
          \o When(c.checks,
               <<Task(<<"flux", "CheckCtop">>, t_calc_fluxes,
                      Shared(Ctops), Shared({"ctop_report"}))>>),
          t_calc_fluxes)

\* Zero or replace fluxes through poles and walls; Flux-CT's transport.  Fluxes
\* by an excised pole are computed anew, with their signal speeds
FixFlux(id, t_start, md, c) ==
    LET excised == Scratch(c) \cup (IF c.excise THEN Shared({Ctop[2], Ctop[3]}) ELSE {})
    IN  Task(id, t_start, Of(md, Fluxes \cup PrimState) \cup excised,
             Of(md, Fluxes) \cup excised)

\* B_CT::CalculateEMF, its exchange, and the flux corrections between levels
AddFluxCorrections(t_start, at, md, c) ==
    LET emf == <<at, "CalculateEMF">>
        sync == AddBoundarySync({emf}, <<at, "ExchangeEMF">>, "shared", {"emf"}, c)
        corrected == <<at, "SetFluxCorrections">>
        use_b_ct == c.b = "ct"
    IN  Bundle(
          When(use_b_ct,
            <<Task(emf, t_start, Of(md, Fluxes \cup {"P", "PB"}), Shared({"emf"}))>>
            \o sync.tasks)
          \o <<Task(corrected, IF use_b_ct THEN sync.t ELSE t_start,
                    Of(md, Fluxes), Of(md, Fluxes))>>,
          {corrected})

FluxDivergence(id, t_start, md, src, c) ==
    Task(id, t_start, Of(md, Fluxes), Of(src, CellCons(c)))

\* Every package's sources; B_CT adds the curl of the EMF for the faces
AddSource(id, t_start, md, src, c) ==
    Task(id, t_start,
         Of(md, PrimState) \cup Of(src, CellCons(c))
            \cup (IF c.b = "ct" THEN Shared({"emf"}) ELSE {}),
         Of(src, Cons))

-----------------------------------------------------------------------------
\* new = gam0 init + gam1 full_init, then new += beta dt src, for the fields of
\* the given groups; cells and faces are separate tasks
UpdateTasks(t_start, at, full_init, init, src, new, groups, update_face, c) ==
    LET cell == groups \cap CellCons(c)
        face == groups \cap FaceCons(c)
        Averages(g) == Of(init, g) \cup Of(full_init, g)
        avg_c == <<at, "AverageCell">>    upd_c == <<at, "UpdateCell">>
        avg_f == <<at, "AverageFace">>    upd_f == <<at, "UpdateFace">>
        t_avg == {avg_c} \cup IfUsed(update_face, avg_f, {avg_c})
    IN  Bundle(
          <<Task(avg_c, t_start, Averages(cell), Of(new, cell))>>
          \o When(update_face, <<Task(avg_f, t_start, Averages(face), Of(new, face))>>)
          \o <<Task(upd_c, t_avg, Of(new, cell) \cup Of(src, cell), Of(new, cell))>>
          \o When(update_face,
               <<Task(upd_f, t_avg, Of(new, face) \cup Of(src, face), Of(new, face))>>),
          {upd_c} \cup IfUsed(update_face, upd_f, {upd_c}))

\* One-dimensional inversions need a guess, copied in beside the update
AddStateUpdate(t_start, at, full_init, init, src, new, groups, update_face, c) ==
    LET update == UpdateTasks(t_start, at, full_init, init, src, new, groups, update_face, c)
        copy == <<at, "CopyPrims">>
        needs_guess == c.onedw /\ ~c.implicit
    IN  Bundle(update.tasks
               \o When(needs_guess,
                    <<Task(copy, t_start, Of(init, {"P", "PB"}), Of(new, {"P", "PB"}))>>),
               update.t \cup IfUsed(needs_guess, copy, t_none))

AddStateUpdateIdealGuess(t_start, at, full_init, init, src, new, c) ==
    LET update == UpdateTasks(t_start, at, full_init, init, src, new, {"U"}, FALSE, c)
        copy == <<at, "CopyPrims">>
    IN  Bundle(update.tasks \o <<Task(copy, t_start, Of(init, {"P"}), Of(new, {"P"}))>>,
               update.t \cup {copy})

\* Mutant: the inversion is not told to wait for these
LocalNotAwaited(t_start, at, md, c) ==
    LET derefine == <<at, "ISMR::DerefinePoles">>
    IN  Bundle(
          When(c.ismr,
            <<Task(derefine, t_start, Of(md, CellCons(c)), Of(md, CellCons(c)))>>),
          t_start)

\* "Reconnect then derefine, the local operations on U"
LocalOperations(t_start, at, md, c) ==
    LET reconnect == <<at, "ReconnectB3">>
        derefine_b == <<at, "B_CT::DerefinePoles">>
        derefine == <<at, "ISMR::DerefinePoles">>
        use_reconnect == c.b = "ct" /\ c.reconnect
        t_reconnect == IfUsed(use_reconnect, reconnect, t_start)
        t_derefine_b == IfUsed(c.b = "ct", derefine_b, t_reconnect)
    IN  Bundle(
          When(use_reconnect, <<Task(reconnect, t_start, Of(md, {"B"}), Of(md, {"B"}))>>)
          \o When(c.ismr,
               When(c.b = "ct", <<Task(derefine_b, t_reconnect, Of(md, {"B"}), Of(md, {"B"}))>>)
               \o <<Task(derefine, t_derefine_b, Of(md, CellCons(c)), Of(md, CellCons(c)))>>),
          IfUsed(c.ismr, derefine, t_reconnect))

UtoPReads(md) == Of(md, Cons \cup PrimState)
UtoPWrites(md) == Of(md, Prims) \cup Shared({"pflag"})

\* MeshUtoP of every package that registers one: the implicitly evolved fluid
\* has none, unless the ideal solution serves as its guess
MeshUtoP(id, t_start, md, c) ==
    LET fluid == ~c.implicit \/ c.ideal_guess
    IN  Task(id, t_start,
             IF fluid THEN UtoPReads(md) ELSE Of(md, {"UK", "B", "PK", "PB"}),
             IF fluid THEN UtoPWrites(md) ELSE Of(md, {"PK", "PB"}))

FloorFlags == Shared({"fflag"})
MeshApplyFloors(id, t_start, md) ==
    Task(id, t_start, Of(md, PrimState \cup Cons) \cup Shared({"pflag", "fflag"}),
         Of(md, {"P", "PK", "Q", "U", "UK"}) \cup FloorFlags)

-----------------------------------------------------------------------------
\* Tasks that several drivers add in the same order near the end of a stage:
\* physical boundaries, then the packages that work from final primitives

ApplyBoundaryConditions(id, t_start, md) ==
    Task(id, t_start, Of(md, Prims \cup Cons), Of(md, Prims \cup Cons))

UpdateTemperature(id, t_start, md) ==
    Task(id, t_start, Of(md, {"P", "PK", "T"}), Of(md, {"T"}))

\* One half of the Strang-split sources acting on primitives
ApplyPrimSource(id, t_start, md) ==
    Task(id, t_start, Of(md, PrimState), Of(md, {"P"}))

\* Heating reads the merely advected entropy in PK of the new state
ApplyElectronHeating(id, t_start, old, new) ==
    Task(id, t_start, Of(old, {"P", "PK"}) \cup Of(new, {"P", "PB", "PK"}), Of(new, {"PK"}))

UpdateEntropy(id, t_start, md) == Task(id, t_start, Of(md, {"P", "PK"}), Of(md, {"PK"}))

DerefinePrims(id, t_start, md) == Task(id, t_start, Of(md, Prims), Of(md, Prims))

\* The B field's PtoU does nothing: it is the evolved form that is kept
MeshPtoU(id, t_start, md) ==
    Task(id, t_start, Of(md, PrimState), Of(md, {"U", "UK"}))

EstimateTimestep(id, t_start, md) ==
    Task(id, t_start, Of(md, {"P"}) \cup Shared(Ctops), Shared({"dt"}))

Tag(id, t_start, md) == Task(id, t_start, Of(md, {"P"}), Shared({"refine"}))

\* Boundary conditions on the fixed state, then what changes its primitives
FinishPrims(t_fixed, at, init, final, last, c) ==
    LET id(name) == <<at, name>>
        t_set_bc == {id("BoundaryConditions")}
        t_temperature == IfUsed(c.temperature, id("Temperature"), t_set_bc)
        t_prim_source == IfUsed(last, id("PrimSource"), t_temperature)
        t_heat == IfUsed(c.electrons, id("ElectronHeating"), t_prim_source)
        t_entropy == IfUsed(c.entropy, id("Entropy"), t_heat)
    IN  Bundle(
          <<ApplyBoundaryConditions(id("BoundaryConditions"), t_fixed, final)>>
          \o When(c.temperature, <<UpdateTemperature(id("Temperature"), t_set_bc, final)>>)
          \o When(last, <<ApplyPrimSource(id("PrimSource"), t_temperature, final)>>)
          \o When(c.electrons,
               <<ApplyElectronHeating(id("ElectronHeating"), t_prim_source, init, final)>>)
          \o When(c.entropy, <<UpdateEntropy(id("Entropy"), t_heat, final)>>)
          \o When(c.ismr, <<DerefinePrims(id("DerefinePrims"), t_entropy, final)>>),
          IfUsed(c.ismr, id("DerefinePrims"), t_entropy))

\* Mutant: conserved variables computed before the last changes to primitives
PtoUFirst(t_fixed, at, init, final, last, c) ==
    LET t_ptou == {<<at, "PtoU">>}
    IN  <<MeshPtoU(<<at, "PtoU">>, t_fixed, final)>>
        \o FinishPrims(t_ptou, at, init, final, last, c).tasks
        \o When(last, <<EstimateTimestep(<<at, "Timestep">>, t_ptou, final)>>)

\* ... "Make sure *all* conserved vars are synchronized at step end", and what
\* only looks at the result
FinishStage(t_fixed, at, init, final, last, c) ==
    LET id(name) == <<at, name>>
        prims == FinishPrims(t_fixed, at, init, final, last, c)
        t_ptou == {id("PtoU")}
    IN  prims.tasks
        \o <<MeshPtoU(id("PtoU"), prims.t, final)>>
        \o When(c.track,
             <<Task(id("TrackAdditions"), t_ptou, Of(final, Cons) \cup Of("pre_fix", Cons),
                    Shared({"additions"}))>>)
        \o When(last, <<EstimateTimestep(id("Timestep"), t_ptou, final)>>)
        \o When(last /\ c.adaptive, <<Tag(id("Tag"), t_ptou, final)>>)

\* Mutant: entropy brought up to date before electrons are heated
EntropyFirst(at, md, c) ==
    LET id(name) == <<at, name>>
        t_entropy == IfUsed(c.entropy, id("Entropy"), {id("PrimSource")})
        t_heat == IfUsed(c.electrons, id("ElectronHeating"), t_entropy)
    IN  Bundle(
          <<ApplyPrimSource(id("PrimSource"), t_none, md)>>
          \o When(c.entropy, <<UpdateEntropy(id("Entropy"), {id("PrimSource")}, md)>>)
          \o When(c.electrons, <<ApplyElectronHeating(id("ElectronHeating"), t_entropy, md, md)>>)
          \o <<MeshPtoU(id("PtoU"), t_heat, md)>>,
          {id("PtoU")})

\* Mutant: entropy is only tracked in the fixes, not after a source half-step
EntropyNotUpdated(at, md, c) ==
    LET t_src == {<<at, "PrimSource">>}
    IN  Bundle(<<ApplyPrimSource(<<at, "PrimSource">>, t_none, md),
                 MeshPtoU(<<at, "PtoU">>, t_src, md)>>,
               {<<at, "PtoU">>})

\* The first half of the split sources, before any transport of the step
FirstPrimSource(at, md, c) ==
    LET id(name) == <<at, name>>
        t_src == {id("PrimSource")}
        t_heat == IfUsed(c.electrons, id("ElectronHeating"), t_src)
        t_entropy == IfUsed(c.entropy, id("Entropy"), t_heat)
    IN  Bundle(
          <<ApplyPrimSource(id("PrimSource"), t_none, md)>>
          \o When(c.electrons, <<ApplyElectronHeating(id("ElectronHeating"), t_src, md, md)>>)
          \o When(c.entropy, <<UpdateEntropy(id("Entropy"), t_heat, md)>>)
          \o <<MeshPtoU(id("PtoU"), t_entropy, md)>>,
          {id("PtoU")})

\* "Preserve state for time derivatives if we need to output current"
CopyRegion == <<Task(<<"copy", "Preserve">>, t_none,
                     Of("base", {"P", "PB"}), Of("preserve", {"P", "PB"}))>>

CleanupRegion(md) == <<Task(<<"cleanup", "CleanupDivergence">>, t_none,
                            Of(md, {"B", "PB"}), Of(md, {"B", "PB"}))>>

-----------------------------------------------------------------------------
\* A fake step from init into guess marks the cells whose update would fail or
\* hit floors; fluxes next to them are replaced by first-order ones
AddFOFC(t_start, md, full_init, init, src, guess, c) ==
    LET id(name) == <<"FOFC", name>>
        bounds == AddFluxCorrections({id("FixFlux")}, "FOFC", md, c)
        update == AddStateUpdate({id("AddSource")}, "FOFC", full_init, init, src, guess,
                                 Cons, TRUE, c)
        local == LocalOperations(update.t, "FOFC", guess, c)
        sync == AddStateSync(local.t, "FOFC", guess, c)
        t_derefinep == IfUsed(c.ismr, id("DerefinePrims"), {id("InverterUtoP")})
    IN  Bundle(
          <<FixFlux(id("FixFlux"), t_start, md, c)>>
          \o bounds.tasks
          \o <<FluxDivergence(id("FluxDivergence"), bounds.t, md, src, c),
               AddSource(id("AddSource"), {id("FluxDivergence")}, md, src, c)>>
          \o update.tasks
          \o local.tasks
          \o sync.tasks
          \o <<Task(id("BFieldUtoP"), local.t, Of(guess, {"B", "PB"}), Of(guess, {"PB"})),
               Task(id("InverterUtoP"), {id("BFieldUtoP")}, UtoPReads(guess),
                    Of(guess, {"P"}) \cup Shared({"pflag"}))>>
          \o When(c.ismr,
               <<Task(id("DerefinePrims"), {id("InverterUtoP")},
                      Of(guess, Prims), Of(guess, Prims))>>)
          \o <<Task(id("DetermineFloors"), t_derefinep,
                    Of(guess, PrimState) \cup FloorFlags, FloorFlags),
               Task(id("MarkFOFC"), {id("InverterUtoP")},
                    Shared({"pflag", "fflag"}), Shared({"fofcflag"})),
               Task(id("ClearFloorFlags"), {id("MarkFOFC")}, {}, FloorFlags),
               Task(id("ClearInverterFlags"), {id("MarkFOFC")}, {}, Shared({"pflag"})),
               Task(id("ReplaceFluxes"), {id("MarkFOFC")},
                    Shared({"fofcflag"} \cup Ctops) \cup Of(md, PrimState \cup Fluxes \cup {"B"})
                       \cup Scratch(c),
                    Of(md, Fluxes) \cup Shared(Ctops) \cup Scratch(c))>>,
          {id("ReplaceFluxes")})

\* A second fake step with the first-order fluxes, whose cell-centered field is
\* kept, revises the replacement to be physical-constraint-preserving
AddFOFC_PCP(t_start, md, full_init, init, src, guess, c) ==
    LET id(name) == <<"PCP", name>>
        bounds == AddFluxCorrections({id("FixFlux")}, "PCP", md, c)
        update == AddStateUpdate({id("AddSource")}, "PCP", full_init, init, src, guess,
                                 Explicit(c), TRUE, c)
        local == LocalOperations(update.t, "PCP", guess, c)
        sync == AddStateSync(local.t, "PCP", guess, c)
    IN  Bundle(
          <<FixFlux(id("FixFlux"), t_start, md, c)>>
          \o bounds.tasks
          \o <<FluxDivergence(id("FluxDivergence"), bounds.t, md, src, c),
               AddSource(id("AddSource"), {id("FluxDivergence")}, md, src, c)>>
          \o update.tasks
          \o local.tasks
          \o sync.tasks
          \o <<Task(id("BFieldUtoP"), sync.t, Of(guess, {"B", "PB"}), Of(guess, {"PB"})),
               Task(id("InverterUtoP"), {id("BFieldUtoP")}, UtoPReads(guess),
                    Of(guess, {"P"}) \cup Shared({"pflag"})),
               Task(id("ClearInverterFlags"), {id("InverterUtoP")}, {}, Shared({"pflag"}))>>
          \o When(c.ismr,
               <<Task(id("DerefinePrims"), {id("InverterUtoP")},
                      Of(guess, Prims), Of(guess, Prims))>>)
          \o <<Task(id("ReviseFluxes"),
                    IfUsed(c.ismr, id("DerefinePrims"), {id("InverterUtoP")}),
                    Shared({"fofcflag"}) \cup Of(guess, PrimState) \cup Of(md, Fluxes),
                    Of(md, Fluxes) \cup Shared({"fofcflag"}))>>,
          {id("ReviseFluxes")})
=============================================================================
