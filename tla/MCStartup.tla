------------------------------ MODULE MCStartup ------------------------------
(***************************************************************************)
(* Startup on parameter files like those the repository ships: a torus     *)
(* with each driver and field solver, the packages that change how a run   *)
(* starts, resized and regridded runs, and Dirichlet problems.             *)
(***************************************************************************)
EXTENDS Startup

Torus ==
    [driver |-> "unset", b_solver |-> "face_ct", problem |-> "torus", eos |-> "IdealGas",
     Ye |-> "off", emhd |-> "off", radm1 |-> "off", implicit |-> "unset",
     ideal_guess |-> "off", fofc |-> "unset", driver_fofc |-> "off", b_cleanup |-> "unset",
     skip_b_cleanup |-> "off", initial_cleanup |-> "off", entropy |-> "unset",
     electrons |-> "off", wind |-> "off", units |-> "off", coords_output |-> "off",
     jcon_output |-> "off", ismr |-> "off", ismr_nlevels |-> "unset",
     sync_utop_seed |-> "on", fix_average |-> "on", dirichlet |-> "off",
     restart_from_prims |-> "off", regrid_only |-> "off", b_type |-> "sane", norm |-> "on",
     reinitialize |-> "off", dumps |-> "on", start_dt_light |-> "off", use_dt_light |-> "off"]

MCDecks == LET decks == {
    Torus,
    [Torus EXCEPT !.driver = "imex", !.b_solver = "flux_ct", !.coords_output = "on"],
    [Torus EXCEPT !.driver = "simple", !.start_dt_light = "on"],
    [Torus EXCEPT !.driver_fofc = "on", !.ismr_nlevels = "3", !.jcon_output = "on"],
    [Torus EXCEPT !.fofc = "on", !.b_solver = "flux_ct", !.use_dt_light = "on"],
    \* extended MHD and radiation
    [Torus EXCEPT !.emhd = "on", !.ideal_guess = "on", !.b_type = "none", !.dirichlet = "on"],
    [Torus EXCEPT !.emhd = "on", !.fofc = "on"],
    [Torus EXCEPT !.driver = "imex", !.implicit = "on"],
    [Torus EXCEPT !.radm1 = "on", !.b_solver = "none", !.dirichlet = "on"],
    \* electrons and tabulated matter; their restarts are another question
    [Torus EXCEPT !.driver = "imex", !.electrons = "on", !.reinitialize = "on", !.dumps = "off"],
    [Torus EXCEPT !.driver = "simple", !.Ye = "on", !.eos = "StellarCollapse", !.dumps = "off"],
    \* other problems
    [Torus EXCEPT !.b_type = "constant", !.norm = "off", !.dirichlet = "on"],
    [Torus EXCEPT !.b_solver = "cd", !.b_type = "none", !.wind = "on", !.entropy = "off"],
    [Torus EXCEPT !.initial_cleanup = "on", !.units = "on"],
    [Torus EXCEPT !.b_solver = "flux_ct", !.initial_cleanup = "on"],
    \* from iharm3d files
    [Torus EXCEPT !.problem = "resize_restart"],
    [Torus EXCEPT !.problem = "resize_restart", !.driver = "imex", !.skip_b_cleanup = "on"],
    [Torus EXCEPT !.problem = "resize_restart", !.driver = "imex", !.b_solver = "flux_ct",
                  !.skip_b_cleanup = "on", !.regrid_only = "on"]}
    IN decks

ASSUME \A d \in MCDecks : ImplicitHolds(d) /\ StartsSoundly(d)

\* Runs with electrons, as pars/tori_2d/sane2d_electrons.par, with the driver the default
\* chooses and with that which exchanges primitives
ElectronTorus == LET decks == {[Torus EXCEPT !.electrons = "on"]} IN decks
ElectronTorusImEx == LET decks == {[Torus EXCEPT !.electrons = "on", !.driver = "imex"]} IN decks
=============================================================================
