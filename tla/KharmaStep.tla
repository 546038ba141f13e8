----------------------------- MODULE KharmaStep -----------------------------
(***************************************************************************)
(* The task collections of a step of the default ("kharma") driver,        *)
(* driver/kharma_step.cpp: conserved fields are exchanged, then primitives *)
(* recovered everywhere.  All stages of the step are put one after the     *)
(* other, as ExecuteStep runs them.                                        *)
(***************************************************************************)
EXTENDS KHARMADriver

FluxRegion(s, nstages, c) ==
    LET base == "base"
        init == StageName(s - 1, nstages)
        final == StageName(s, nstages)
        id(name) == <<"flux", name>>
        use_source == s = 1 /\ c.prim_source
        source == FirstPrimSource("flux", base, c)
        t_flux_start == IF use_source THEN source.t ELSE t_none
        fluxes == AddFluxCalculations(t_flux_start, init, c)
        fofc == AddFOFC(fluxes.t, init, base, init, "fofc_source", "fofc_guess", c)
        pcp == AddFOFC_PCP(fofc.t, init, base, init, "fofc_source", "fofc_guess", c)
        t_fluxes == IF c.fofc /\ c.pcp THEN pcp.t ELSE IF c.fofc THEN fofc.t ELSE fluxes.t
        correct == c.multilevel \/ c.b = "ct"
        bounds == AddFluxCorrections({id("FixFlux")}, "flux", init, c)
        update == AddStateUpdate({id("AddSource")}, "flux", base, init, "dUdt", final,
                                 Explicit(c), c.b = "ct", c)
        sync == AddStateSync(update.t, "flux", final, c)
    IN  When(use_source, source.tasks)
        \o fluxes.tasks
        \o When(c.fofc, fofc.tasks)
        \o When(c.fofc /\ c.pcp, pcp.tasks)
        \o <<FixFlux(id("FixFlux"), t_fluxes, init, c)>>
        \o When(correct, bounds.tasks)
        \o <<FluxDivergence(id("FluxDivergence"), IF correct THEN bounds.t ELSE {id("FixFlux")},
                            init, "dUdt", c),
             AddSource(id("AddSource"), {id("FluxDivergence")}, init, "dUdt", c)>>
        \o update.tasks
        \o sync.tasks
        \o When(c.track,
             <<Task(id("CopyPreFix"), sync.t, Of(final, Cons), Of("pre_fix", Cons))>>)

FixRegion(s, nstages, c) ==
    LET init == StageName(s - 1, nstages)
        final == StageName(s, nstages)
        id(name) == <<"fix", name>>
    IN  LocalOperations(t_none, "fix", final, c).tasks
        \o <<MeshUtoP(id("UtoP"), t_none, final, c),
             MeshApplyFloors(id("ApplyFloors"), {id("UtoP")}, final),
             Task(id("FixUtoP"), {id("ApplyFloors")},
                  Of(final, PrimState \cup Cons) \cup Shared({"pflag"}) \cup FloorFlags,
                  Of(final, {"P", "U"}) \cup FloorFlags)>>
        \o FinishStage({id("FixUtoP")}, "fix", init, final, s = nstages, c)

StageRegions(s, nstages, c) ==
    LET final == StageName(s, nstages)
    IN  <<When(s = 1 /\ c.jcon, CopyRegion),
          FluxRegion(s, nstages, c),
          FixRegion(s, nstages, c),
          When(s = nstages /\ c.cleanup, CleanupRegion(final)),
          When(c.two_sync, AddFullSyncRegion(final, c))>>

KharmaProgram(nstages, c) ==
    Compile(Regions([s \in 1 .. nstages |-> StageRegions(s, nstages, c)]))
=============================================================================
