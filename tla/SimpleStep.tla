----------------------------- MODULE SimpleStep -----------------------------
(***************************************************************************)
(* The single task list of a stage of the "simple" driver,                 *)
(* driver/simple_step.cpp: ideal GR(M)HD with cell-centered fields and     *)
(* primitives exchanged once, in the middle of the list.                   *)
(***************************************************************************)
EXTENDS KHARMADriver

\* What the driver's PARTHENON_REQUIREs refuse
Supported(c) ==
    /\ c.b # "ct" /\ ~c.electrons /\ ~c.entropy
    /\ ~c.fofc /\ ~c.onedw /\ ~c.jcon /\ ~c.implicit

SimpleRegion(s, nstages, c) ==
    LET init == StageName(s - 1, nstages)
        final == StageName(s, nstages)
        id(name) == <<"step", name>>
        fluxes == AddFluxCalculations(t_none, init, c)
        update == AddStateUpdate({id("AddSource")}, "step", "base", init, "dUdt", final,
                                 Cons, FALSE, c)
        bounds == AddStateSync({id("ApplyFloors")}, "step", final, c)
        t_set_bc == {id("BoundaryConditions")}
    IN  fluxes.tasks
        \o <<FixFlux(id("FixFlux"), fluxes.t, init, c),
             FluxDivergence(id("FluxDivergence"), {id("FixFlux")}, init, "dUdt", c),
             AddSource(id("AddSource"), {id("FluxDivergence")}, init, "dUdt", c)>>
        \o update.tasks
        \o <<MeshUtoP(id("UtoP"), update.t, final, c),
             MeshApplyFloors(id("ApplyFloors"), {id("UtoP")}, final)>>
        \o bounds.tasks
        \o <<ApplyBoundaryConditions(id("BoundaryConditions"), bounds.t, final)>>
        \o When(c.temperature, <<UpdateTemperature(id("Temperature"), t_set_bc, final)>>)
        \o <<MeshPtoU(id("PtoU"), IfUsed(c.temperature, id("Temperature"), t_set_bc), final)>>
        \o When(s = nstages, <<EstimateTimestep(id("Timestep"), {id("PtoU")}, final)>>)

SimpleProgram(nstages, c) ==
    Compile([s \in 1 .. nstages |-> SimpleRegion(s, nstages, c)])
=============================================================================
