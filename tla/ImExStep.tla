------------------------------ MODULE ImExStep ------------------------------
(***************************************************************************)
(* The task collections of a step of the "imex" driver,                    *)
(* driver/imex_step.cpp: primitives are exchanged, and variables flagged   *)
(* Implicit are advanced by a zone-local nonlinear solve, in a container   *)
(* of its own ("solver") whenever the Implicit package is loaded.          *)
(***************************************************************************)
EXTENDS KHARMADriver

Solver(s, nstages, c) == IF c.implicit THEN "solver" ELSE StageName(s, nstages)

\* RadM1 adds the stage-1 increment to stage 2's update (ARS(2,2,2)); without
\* B_CT there are no face fields to save or add
SaveIncrement(t_sources, c) ==
    LET cell == Explicit(c) \cap CellCons(c)
    IN  Bundle(
          <<Task(<<"flux", "SaveIncrementCell">>, t_sources, Of("dUdt", cell), Of("dUdt_s1", cell))>>
          \o When(c.b = "ct",
               <<Task(<<"flux", "SaveIncrementFace">>, t_sources,
                      Of("dUdt", {"B"}), Of("dUdt_s1", {"B"}))>>),
          {<<"flux", "SaveIncrementCell">>}
             \cup IfUsed(c.b = "ct", <<"flux", "SaveIncrementFace">>, t_none))

AddIncrement(t_update, solver, c) ==
    LET cell == Explicit(c) \cap CellCons(c)
    IN  Bundle(
          <<Task(<<"flux", "AddIncrementCell">>, t_update,
                 Of(solver, cell) \cup Of("dUdt_s1", cell), Of(solver, cell))>>
          \o When(c.b = "ct",
               <<Task(<<"flux", "AddIncrementFace">>, t_update,
                      Of(solver, {"B"}) \cup Of("dUdt_s1", {"B"}), Of(solver, {"B"}))>>),
          {<<"flux", "AddIncrementCell">>}
             \cup IfUsed(c.b = "ct", <<"flux", "AddIncrementFace">>, t_none))

\* The guess for the implicit variables, the solve, and the copy of its result
ImplicitSolve(t_explicit, t_sources, init, solver, final, c) ==
    LET id(name) == <<"flux", name>>
        guessed == IF c.ideal_guess THEN {"Q"} ELSE Implicit(c)
        linesearch == IF c.linesearch THEN "linesearch" ELSE solver
        t_guess_ready == t_explicit \cup {id("CopyGuess")}
        t_copy_linesearch == IfUsed(c.linesearch, id("CopyLinesearch"), t_guess_ready)
        cells == Prims \cup CellCons(c) \cup {"T"}
    IN  Bundle(
          <<Task(id("CopyGuess"), t_sources, Of(init, guessed), Of(solver, guessed))>>
          \o When(c.linesearch,
               <<Task(id("CopyLinesearch"), t_guess_ready, Of(solver, Prims), Of(linesearch, Prims))>>)
          \o <<Task(id("ImplicitStep"), t_copy_linesearch,
                    UNION {Of(m, Prims \cup Cons) : m \in {"base", init, solver}}
                       \cup Of("dUdt", Cons) \cup Of(linesearch, Prims),
                    Of(solver, Implicit(c)) \cup Of(linesearch, {"P", "Q"})
                       \cup Shared({"solve_fail"})),
               Task(id("CopyCells"), {id("ImplicitStep")}, Of(solver, cells), Of(final, cells)),
               Task(id("CopyFaces"), {id("ImplicitStep")},
                    Of(solver, FaceCons(c)), Of(final, FaceCons(c)))>>,
          {id("CopyFaces")})

FluxRegion(s, nstages, c) ==
    LET base == "base"
        init == StageName(s - 1, nstages)
        final == StageName(s, nstages)
        solver == Solver(s, nstages, c)
        id(name) == <<"flux", name>>
        use_source == s = 1 /\ c.prim_source
        source == FirstPrimSource("flux", base, c)
        fluxes == AddFluxCalculations(IF use_source THEN source.t ELSE t_none, init, c)
        fofc == AddFOFC(fluxes.t, init, base, init, "fofc_source", "fofc_guess", c)
        pcp == AddFOFC_PCP(fofc.t, init, base, init, "fofc_source", "fofc_guess", c)
        t_fluxes == IF c.fofc /\ c.pcp THEN pcp.t ELSE IF c.fofc THEN fofc.t ELSE fluxes.t
        correct == c.multilevel \/ c.b = "ct"
        bounds == AddFluxCorrections({id("FixFlux")}, "flux", init, c)
        t_sources == {id("AddSource")}
        saved == SaveIncrement(t_sources, c)
        save == c.radm1 /\ s = 1
        update == AddStateUpdate(IF save THEN saved.t ELSE t_sources, "flux", base, init,
                                 "dUdt", solver, Explicit(c), c.b = "ct", c)
        added == AddIncrement(update.t, solver, c)
        add == c.radm1 /\ s = 2
        ideal == AddStateUpdateIdealGuess(t_sources, "guess", base, init, "dUdt", solver, c)
        t_ideal_guess == IF c.ideal_guess THEN ideal.t ELSE IF add THEN added.t ELSE update.t
        local == LocalOperations(t_ideal_guess, "flux", solver, c)
        solve == ImplicitSolve({id("UtoP")}, t_sources, init, solver, final, c)
        t_implicit == IF c.implicit THEN solve.t ELSE {id("UtoP")}
    IN  When(use_source, source.tasks)
        \o fluxes.tasks
        \o When(c.fofc, fofc.tasks)
        \o When(c.fofc /\ c.pcp, pcp.tasks)
        \o <<FixFlux(id("FixFlux"), t_fluxes, init, c)>>
        \o When(correct, bounds.tasks)
        \o <<FluxDivergence(id("FluxDivergence"), IF correct THEN bounds.t ELSE {id("FixFlux")},
                            init, "dUdt", c),
             AddSource(id("AddSource"), {id("FluxDivergence")}, init, "dUdt", c)>>
        \o When(save, saved.tasks)
        \o update.tasks
        \o When(add, added.tasks)
        \o When(c.ideal_guess, ideal.tasks)
        \o local.tasks
        \o <<MeshUtoP(id("UtoP"), local.t, solver, c)>>
        \o When(c.implicit, solve.tasks)
        \o <<MeshApplyFloors(id("ApplyFloors"), t_implicit, final)>>
        \o AddStateSync({id("ApplyFloors")}, "flux", final, c).tasks

FixRegion(s, nstages, c) ==
    LET init == StageName(s - 1, nstages)
        final == StageName(s, nstages)
        id(name) == <<"fix", name>>
        Fix(name, after, flag) ==
            Task(id(name), after, Of(final, PrimState \cup Cons) \cup Shared({flag, "fflag"}),
                 Of(final, {"P", "Q", "U"}) \cup FloorFlags)
        t_fix_utop == IfUsed(~c.implicit, id("FixUtoP"), t_none)
        t_fix_solve == IfUsed(c.implicit, id("FixSolve"), t_fix_utop)
    IN  When(~c.implicit, <<Fix("FixUtoP", t_none, "pflag")>>)
        \o When(c.implicit, <<Fix("FixSolve", t_fix_utop, "solve_fail")>>)
        \o FinishStage(t_fix_solve, "fix", init, final, s = nstages, [c EXCEPT !.track = FALSE])

StageRegions(s, nstages, c) ==
    LET final == StageName(s, nstages)
    IN  <<When(s = 1 /\ c.jcon, CopyRegion),
          FluxRegion(s, nstages, c),
          FixRegion(s, nstages, c),
          When(s = nstages /\ c.cleanup, CleanupRegion(final)),
          When(c.two_sync, AddFullSyncRegion(final, c))>>

ImExProgram(nstages, c) ==
    Compile(Regions([s \in 1 .. nstages |-> StageRegions(s, nstages, c)]))
=============================================================================
