--------------------------- MODULE PackageLoading ---------------------------
(***************************************************************************)
(* How KHARMA::ProcessPackages reads the parameters and loads packages.    *)
(* A task per package calls its Initialize, which reads what the packages  *)
(* before it declared; the task list runs them in any order their          *)
(* dependencies leave open.  The packages that size their temporaries by   *)
(* counting everyone's fields come after, one by one.                      *)
(***************************************************************************)
EXTENDS Naturals, Sequences

CONSTANT Decks    \* the parameters of the runs considered: options to values

Options ==
    {"driver", "b_solver", "problem", "eos", "Ye", "emhd", "radm1", "implicit", "ideal_guess",
     "fofc", "driver_fofc", "b_cleanup", "skip_b_cleanup", "initial_cleanup", "entropy",
     "electrons", "wind", "units", "coords_output", "jcon_output", "ismr", "ismr_nlevels",
     "sync_utop_seed", "fix_average", "dirichlet", "restart_from_prims", "regrid_only",
     "b_type", "norm", "reinitialize", "dumps", "start_dt_light", "use_dt_light"}

\* A function of these, whatever its values are
Assigns(d) == d = [o \in Options |-> d[o]]

ASSUME DecksAssumption == \A d \in Decks : Assigns(d)

VARIABLES
    pin,       \* the ParameterInput: defaults are added to it as they are read
    stage,     \* "listing", "loading", then the tail's packages, "loaded" or "refused"
    waiting,   \* packages whose AddPackage task has not run
    loaded,    \* packages in the Packages_t object
    sized      \* the components counted by those that declare temporaries for them

loadingVars == <<pin, stage, waiting, loaded, sized>>

On(p, option) == p[option] = "on"
OnOff(b) == IF b THEN "on" ELSE "off"
If(b, S) == IF b THEN S ELSE {}
Get(p, option, default) == IF p[option] = "unset" THEN default ELSE p[option]

DriverType(p) ==
    Get(p, "driver", IF On(p, "emhd") \/ On(p, "radm1") THEN "imex" ELSE "kharma")
SyncPrims(p) == DriverType(p) # "kharma"

FaceCentered(p) == p.b_solver = "face_ct"
Transported(p) == p.b_solver \in {"face_ct", "flux_ct", "cd"}
IsIdeal(p) == p.eos = "IdealGas"

\* Mutant: a resized run does not ask for the cleanup of its field
WithDefaultsForgettingResize(p) ==
    LET implicit == Get(p, "implicit", p.emhd)
    IN  [p EXCEPT
            !.implicit = implicit,
            !.fofc = IF implicit = "on" /\ ~On(p, "ideal_guess")
                     THEN Get(p, "fofc", "off") ELSE @,
            !.b_cleanup = Get(p, "b_cleanup", p.initial_cleanup),
            !.entropy = IF On(p, "electrons") THEN "on"
                        ELSE Get(p, "entropy", OnOff(p.driver # "simple" /\ IsIdeal(p)))]

(***************************************************************************)
(* Options whose default depends on others; the rest have their defaults   *)
(* in the decks.  fofc/on is read, and its default set, only if the two    *)
(* conditions before it in the || leave the answer open.                   *)
(***************************************************************************)
WithDefaults(p) ==
    LET implicit == Get(p, "implicit", p.emhd)
        cleaning == \/ Get(p, "b_cleanup", OnOff(p.b_solver = "cleanup")) = "on"
                    \/ (p.problem = "resize_restart" /\ ~On(p, "skip_b_cleanup"))
                    \/ On(p, "initial_cleanup")
    IN  [p EXCEPT
            !.implicit = implicit,
            !.fofc = IF implicit = "on" /\ ~On(p, "ideal_guess")
                     THEN Get(p, "fofc", "off") ELSE @,
            !.b_cleanup = OnOff(cleaning),
            !.entropy = IF On(p, "electrons") THEN "on"
                        ELSE Get(p, "entropy", OnOff(p.driver # "simple" /\ IsIdeal(p)))]

NeedsInverter(p) == ~On(p, "implicit") \/ On(p, "ideal_guess") \/ On(p, "fofc")

\* Parameters ProcessPackages throws on
Refused(p) ==
    \/ On(p, "b_cleanup") /\ ~FaceCentered(p)
    \/ (On(p, "electrons") \/ On(p, "entropy")) /\ ~IsIdeal(p)

BField(p) == CASE p.b_solver = "face_ct" -> {"B_CT"}
               [] p.b_solver = "flux_ct" -> {"B_FluxCT"}
               [] p.b_solver = "cd" -> {"B_CD"}
               [] OTHER -> {}

Listed(p) ==
    {"Globals", "Driver", "eos", "GRMHD", "Reductions"} \cup BField(p)
    \cup If(On(p, "coords_output"), {"CoordinateOutput"})
    \cup If(On(p, "Ye"), {"Ye", "Temperature"})
    \cup If(NeedsInverter(p), {"Inverter"})
    \cup If(On(p, "b_cleanup"), {"B_Cleanup"})
    \cup If(On(p, "entropy"), {"Entropy"})
    \cup If(On(p, "electrons"), {"Electrons"})
    \cup If(On(p, "emhd"), {"EMHD"})
    \cup If(On(p, "wind"), {"Wind"})
    \cup If(On(p, "units") \/ On(p, "radm1"), {"Units"})
    \cup If(On(p, "radm1"), {"RadM1", "opacity"})
    \cup If(On(p, "jcon_output") /\ Transported(p), {"Current"})

\* Mutant: everything waits for the fluid only, electrons too
AwaitsFluidOnly(p, package) ==
    CASE package \in {"Globals", "CoordinateOutput", "Driver", "Reductions"} -> {}
      [] package = "eos" -> {"Driver"}
      [] package \in {"Ye", "Temperature"} -> {"eos"}
      [] package = "GRMHD" -> {"Globals", "eos"}
      [] OTHER -> {"GRMHD"}

\* The dependencies of a package's task
Awaits(p, package) ==
    CASE package \in {"Globals", "CoordinateOutput", "Driver", "Reductions"} -> {}
      [] package = "eos" -> {"Driver"}
      [] package \in {"Ye", "Temperature"} -> {"eos"}
      [] package = "GRMHD" -> {"Globals", "eos"}
      [] package = "Electrons" -> {"Entropy"}
      [] package = "opacity" -> {"RadM1"}
      [] package = "Current" -> BField(p)
      [] OTHER -> {"GRMHD"}

\* The packages whose Params or user flags an Initialize looks up: a lookup of what
\* is not there yet throws
Reads(p, package) ==
    CASE package \in {"Ye", "Temperature", "GRMHD", "Inverter", "Entropy", "EMHD", "RadM1"}
             -> {"Driver"}
      [] package \in {"B_CT", "B_CD"} -> {"Driver", "GRMHD"}
      [] package = "B_FluxCT" -> {"Driver", "GRMHD", "Globals"}
      [] package = "Electrons" -> {"Driver", "Globals", "Entropy"}
      [] package = "opacity" -> {"RadM1"}
      [] package = "Floors" -> {"eos"}
      [] package = "Flux" -> {"Driver", "Globals"} \cup If(On(p, "fofc"), {"Floors"})
      [] package \in {"Implicit", "Boundaries"} -> {"Driver"}
      [] OTHER -> {}

-----------------------------------------------------------------------------
(***************************************************************************)
(* The fields a package declares, by their flags: components of evolved    *)
(* primitives, and of conserved variables with fluxes, and the cells among *)
(* all of them that boundary exchanges fill.                               *)
(***************************************************************************)
\* Mutant: GRMHD is implicit for extended MHD only, not when asked to be
ImplicitForEMHD(p) == DriverType(p) = "imex" /\ On(p, "emhd")

ImplicitGRMHD(p) == DriverType(p) = "imex" /\ (On(p, "emhd") \/ On(p, "implicit"))

Primitives(package) ==
    CASE package = "GRMHD" -> 5
      [] package \in {"B_CT", "B_FluxCT", "B_CD"} -> 3
      [] package = "RadM1" -> 4
      [] package \in {"EMHD", "Temperature"} -> 2
      [] package \in {"Entropy", "Electrons", "Ye"} -> 1
      [] OTHER -> 0

\* Temperature's fields are never conserved; the cleanup's potential is no primitive
WithFluxes(package) ==
    CASE package = "Temperature" -> 0
      [] package = "B_Cleanup" -> 1
      [] OTHER -> Primitives(package)

ImplicitVariables(p, package) ==
    IF package = "EMHD" \/ (package = "GRMHD" /\ ImplicitGRMHD(p))
    THEN Primitives(package) ELSE 0

GhostCells(p, package) ==
    CASE package = "B_CT" -> 0
      [] package = "B_FluxCT" -> 3
      [] package = "B_Cleanup" -> 1
      [] package = "Inverter" -> IF SyncPrims(p) /\ On(p, "fix_average") THEN 1 ELSE 0
      [] package = "Implicit" -> 1
      [] package = "Flux" -> IF On(p, "fofc") THEN 1 ELSE 0
      [] package = "GRMHD" /\ ~SyncPrims(p) -> 5 + (IF On(p, "sync_utop_seed") THEN 5 ELSE 0)
      [] package = "Entropy" /\ ~SyncPrims(p) -> 2
      [] OTHER -> IF SyncPrims(p) THEN Primitives(package) ELSE WithFluxes(package)

\* Every component of every field counted, by its place in a pack
Components(Count(_), packages) == UNION {{n} \X (1 .. Count(n)) : n \in packages}
FluxesOf(packages) == Components(WithFluxes, packages)
PrimitivesOf(packages) == Components(Primitives, packages)
ImplicitOf(p, packages) ==
    LET Count(n) == ImplicitVariables(p, n) IN Components(Count, packages)
GhostCellsOf(p, packages) == LET Count(n) == GhostCells(p, n) IN Components(Count, packages)

-----------------------------------------------------------------------------
(***************************************************************************)
(* Packages added outside the task list, and what each does to the         *)
(* parameters and counts as it is initialized.                             *)
(***************************************************************************)
\* Mutant: the Dirichlet caches are sized before the flags of the fluxes are declared
BoundariesBeforeFlux == <<"Implicit", "Floors", "Boundaries", "Flux", "ISMR">>

FinalPackages == <<"Implicit", "Floors", "Flux", "ISMR", "Boundaries">>

FinalWanted(package) ==
    CASE package = "Implicit" -> ImplicitOf(pin, loaded) # {} /\ ~On(pin, "radm1")
      [] package = "ISMR" -> On(pin, "ismr") \/ pin.ismr_nlevels # "unset"
      [] OTHER -> TRUE

\* First-order flux corrections need face-centered fields: Flux turns them off
FofcSetting == IF "B_CT" \in loaded THEN Get(pin, "fofc", pin.driver_fofc) ELSE "off"

PinAfter(package) ==
    CASE package = "Driver" -> [pin EXCEPT !.driver = DriverType(pin)]
      [] package = "Flux" -> [pin EXCEPT !.fofc = FofcSetting]
      [] package = "ISMR" ->
             [pin EXCEPT !.ismr = "on", !.ismr_nlevels = Get(pin, "ismr_nlevels", "1")]
      [] OTHER -> pin

SizedBy(package) ==
    CASE package = "Implicit" -> [sized EXCEPT !.implicit = ImplicitOf(pin, loaded)]
      [] package = "Flux" -> [sized EXCEPT !.fluxes = FluxesOf(loaded),
                                           !.primitives = PrimitivesOf(loaded)]
      [] package = "ISMR" -> [sized EXCEPT !.averages = FluxesOf(loaded)]
      [] package = "Boundaries" -> [sized EXCEPT !.boundary = GhostCellsOf(pin, loaded)]
      [] OTHER -> sized

Unsized == [implicit |-> {}, fluxes |-> {}, primitives |-> {}, averages |-> {}, boundary |-> {}]

-----------------------------------------------------------------------------
ListPackages ==
    /\ stage = "listing"
    /\ pin' = WithDefaults(pin)
    /\ IF Refused(pin')
       THEN stage' = "refused" /\ waiting' = {}
       ELSE stage' = "loading" /\ waiting' = Listed(pin')
    /\ loaded' = {}
    /\ sized' = Unsized

\* Mutant: a task whose package was added is left to run again
AddPackageAgain(package) ==
    /\ stage = "loading"
    /\ package \in waiting
    /\ Awaits(pin, package) \subseteq loaded
    /\ pin' = PinAfter(package)
    /\ loaded' = loaded \cup {package}
    /\ UNCHANGED <<stage, waiting, sized>>

AddPackage(package) ==
    /\ stage = "loading"
    /\ package \in waiting
    /\ Awaits(pin, package) \subseteq loaded
    /\ pin' = PinAfter(package)
    /\ waiting' = waiting \ {package}
    /\ loaded' = loaded \cup {package}
    /\ UNCHANGED <<stage, sized>>

TasksDone ==
    /\ stage = "loading"
    /\ waiting = {}
    /\ stage' = FinalPackages[1]
    /\ UNCHANGED <<pin, waiting, loaded, sized>>

AfterFinal(i) == IF i = Len(FinalPackages) THEN "loaded" ELSE FinalPackages[i + 1]

AddLast(i) ==
    /\ stage = FinalPackages[i]
    /\ stage' = AfterFinal(i)
    /\ IF FinalWanted(FinalPackages[i])
       THEN /\ pin' = PinAfter(FinalPackages[i])
            /\ sized' = SizedBy(FinalPackages[i])
            /\ loaded' = loaded \cup {FinalPackages[i]}
       ELSE UNCHANGED <<pin, sized, loaded>>
    /\ UNCHANGED waiting

LoadNext ==
    \/ ListPackages
    \/ \E package \in waiting : AddPackage(package)
    \/ TasksDone
    \/ \E i \in 1 .. Len(FinalPackages) : AddLast(i)

-----------------------------------------------------------------------------
(***************************************************************************)
(* Whatever order the tasks run in, an Initialize finds the Params and the *)
(* flags it looks up in packages loaded before it (packages->Get throws on *)
(* what is not there).                                                     *)
(***************************************************************************)
InputsReady ==
    [][\A package \in loaded' \ loaded : Reads(pin', package) \subseteq loaded]_loadingVars

(***************************************************************************)
(* Temporaries declared by counting flagged fields cover every such field  *)
(* once all packages are in: the fluxes' and the ISMR averages' cells, the *)
(* solver's Jacobian, and the cache of Dirichlet boundaries, which is      *)
(* filled and read by position in the pack of all ghost cells.             *)
(***************************************************************************)
TemporariesFullSize ==
    stage = "loaded" =>
        /\ sized.fluxes = FluxesOf(loaded)
        /\ sized.primitives = PrimitivesOf(loaded)
        /\ sized.boundary = GhostCellsOf(pin, loaded)
        /\ "ISMR" \in loaded => sized.averages = FluxesOf(loaded)
        /\ "Implicit" \in loaded => sized.implicit = ImplicitOf(pin, loaded)

\* Inverter registers its callbacks only for explicit evolution or the ideal guess
Inverts(p) == ~On(p, "implicit") \/ On(p, "ideal_guess")

\* Implicit solves are asked for with the driver that does them, and not beside radM1's
ImplicitHolds(d) ==
    Get(d, "implicit", d.emhd) = "on" \/ On(d, "emhd") => DriverType(d) = "imex" /\ ~On(d, "radm1")

(***************************************************************************)
(* No loaded combination evolves the fluid's conserved variables without a *)
(* way back to primitives: an inversion is registered, or they belong to   *)
(* the implicit solver and it is loaded.  ProcessPackages, GRMHD and       *)
(* Inverter each decide this for themselves from the parameters.           *)
(***************************************************************************)
EveryVariableRecovered ==
    stage = "loaded" =>
        /\ ImplicitOf(pin, {"GRMHD"}) = {} => "Inverter" \in loaded /\ Inverts(pin)
        /\ ImplicitOf(pin, loaded) # {} => "Implicit" \in loaded /\ DriverType(pin) = "imex"
=============================================================================
