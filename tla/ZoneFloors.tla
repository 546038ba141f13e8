------------------------------ MODULE ZoneFloors ------------------------------
(* Floors and ceilings of one zone: the limits its state sets, the flags that *)
(* record which it broke, and what is then added to it, in each of the frames *)
(* material can be added in.  The gas has gamma = 2, so a power is a square,  *)
(* and its field is along or across the velocity.  A sub-step recovers the    *)
(* zone, determines its floors and applies them.                              *)
EXTENDS Scalars, FiniteSets

CONSTANTS
    Frames,         \* [frame, inverter, enough_e] of parameter files
    Prescriptions,  \* limits: see Floors::Prescription
    ZoneStates,     \* [rho, u, gamma] an inversion may find
    Fields,         \* [strength, across]: B squared, across the velocity or along it
    Radii,          \* where the zone may be
    MaxPasses       \* sub-steps

(* Limits on ratios and on the Lorentz factor are positive.                   *)
ASSUME FloorsAssumption ==
    /\ \A f \in Frames :
          f.frame \in {"normal", "fluid", "mixed", "mixed_normal_drift", "drift"}
    /\ Prescriptions \subseteq
          [rho_min_geom : Nat, rho_min_const : Nat, u_min_geom : Nat, u_min_const : Nat,
           use_r_char : BOOLEAN, bsq_over_rho_max : Nat \ {0}, bsq_over_u_max : Nat \ {0},
           u_over_rho_max : Nat \ {0}, ktot_max : Nat, gamma_max : Nat \ {0},
           temp_adjust_u : BOOLEAN, use_u_min_entropy : BOOLEAN]
    /\ ZoneStates \subseteq [rho : Nat, u : Nat, gamma : Nat \ {0}]
    /\ Fields \subseteq [strength : Nat, across : BOOLEAN]
    /\ Radii \subseteq Nat \ {0} /\ MaxPasses \in Nat

VARIABLES
    setup,      \* [frame, floors, field, r, ktot], fixed; ktot: 0 without the Entropy package
    P,          \* the zone's primitives: [rho, u, gamma]
    U,          \* its conserved density and the primitives it is the image of, if any
    fflag, pflag,
    floor_vals, \* [rho, u], kept from the mark to the application
    pass,       \* [number, task, calm]: calm if the inversion found what floors had left
    told        \* how the floors were applied: for the properties

floorVars == <<setup, P, U, fflag, pflag, floor_vals, pass, told>>

floors == setup.floors
NoState == [rho |-> -1, u |-> -1, gamma |-> -1]
ImageOf(s) == [rho |-> s.rho * s.gamma, image |-> s]

-----------------------------------------------------------------------------
(* The frame a parameter file asks for.                                       *)
FrameOf(file) ==
    CASE file.frame = "normal" /\ file.inverter = "onedw" -> "normal_onedw"
      [] file.frame = "normal" /\ file.inverter # "onedw" ->
            IF file.enough_e THEN "normal_kastaun_eenough" ELSE "normal_kastaun"
      [] file.frame = "mixed" -> "mixed_fluid_normal"
      [] OTHER -> file.frame

(* Limits of geometry alone: fractions of a density that fall with radius,    *)
(* like its 3/2th power or faster, and constants below them.                  *)
rhoscal(r) == IF floors.use_r_char THEN r * r * (1 + r) ELSE IF r = 1 THEN 1 ELSE 8
rhoflr_geom == greatest(floors.rho_min_geom \div rhoscal(setup.r), floors.rho_min_const)
uflr_geom ==
    greatest(floors.u_min_geom \div (rhoscal(setup.r) * rhoscal(setup.r)), floors.u_min_const)

(* The field in the fluid's frame.                                            *)
bsq(s) == IF setup.field.across THEN setup.field.strength \div (s.gamma * s.gamma)
                                ELSE setup.field.strength
rhoflr_b(s) == bsq(s) \div floors.bsq_over_rho_max
uflr_b(s) == bsq(s) \div floors.bsq_over_u_max

(* Energy the zone would have without dissipation, by the entropy it carries: *)
(* its own, where the entropy was last set from this state.                   *)
u_of_ktot(s) == IF pass.calm THEN s.u ELSE setup.ktot * s.rho * s.rho
uflr_entropy(s) == IF floors.use_u_min_entropy THEN u_of_ktot(s) ELSE 0
uflr_max(s) == greatest(greatest(uflr_geom, uflr_b(s)), uflr_entropy(s))

\* Mutant: the density the temperature asks for, from the energy before its floors
TempOfOldEnergy(s) ==
    IF floors.temp_adjust_u THEN 0 ELSE s.u \div floors.u_over_rho_max

(* Density that brings the temperature down, once energy has its floors.      *)
rhoflr_temp(s) ==
    IF floors.temp_adjust_u THEN 0 ELSE greatest(s.u, uflr_max(s)) \div floors.u_over_rho_max
rhoflr_max(s) == greatest(greatest(rhoflr_geom, rhoflr_b(s)), rhoflr_temp(s))

(* Flags of all limits a state breaks.                                        *)
TooHot(s) == IF floors.temp_adjust_u THEN s.u > floors.u_over_rho_max * s.rho
                                     ELSE rhoflr_temp(s) > s.rho
determine_floors(s) ==
    {name \in {"GEOM_RHO", "GEOM_U", "B_RHO", "B_U", "TEMP", "GAMMA", "KTOT"} :
        \/ name = "GEOM_RHO" /\ rhoflr_geom > s.rho
        \/ name = "GEOM_U" /\ uflr_geom > s.u
        \/ name = "B_RHO" /\ rhoflr_b(s) > s.rho
        \/ name = "B_U" /\ uflr_b(s) > s.u
        \/ name = "TEMP" /\ TooHot(s)
        \/ name = "GAMMA" /\ s.gamma > floors.gamma_max
        \/ name = "KTOT" /\ s.u > floors.ktot_max * s.rho * s.rho}

-----------------------------------------------------------------------------
(* Ceilings: slow the zone, heaping up what it carries, then take energy from *)
(* it, in proportion to the entropy it had on entry, and by temperature.      *)
Slowed(s) ==
    IF s.gamma <= floors.gamma_max THEN s
    ELSE [rho |-> (s.rho * s.gamma) \div floors.gamma_max,
          u |-> (s.u * s.gamma) \div floors.gamma_max, gamma |-> floors.gamma_max]
LessEntropy(s) ==
    IF s.u <= floors.ktot_max * s.rho * s.rho THEN Slowed(s)
    ELSE [Slowed(s) EXCEPT !.u = (floors.ktot_max * s.rho * s.rho * @) \div s.u]
Cooler(s) ==
    IF floors.temp_adjust_u /\ s.u > floors.u_over_rho_max * s.rho
    THEN [s EXCEPT !.u = floors.u_over_rho_max * s.rho] ELSE s
apply_ceilings(s) == Cooler(LessEntropy(s))

(* Floors in the frame of the fluid add at its velocity.                      *)
Raised(s, lowest) == [s EXCEPT !.rho = greatest(@, lowest.rho), !.u = greatest(@, lowest.u)]

(* With the drift of the field lines, what is added is at rest along them.    *)
Drifted(s) ==
    LET raised == Raised(s, floor_vals) IN
    IF raised = s \/ setup.field.across \/ setup.field.strength = 0 THEN {raised}
    ELSE {[raised EXCEPT !.gamma = g] : g \in 1 .. s.gamma}

Unsolved(s) == s.rho = 0 \/ s.u = 0

(* The normal observer's frame: add to conserved variables and invert.  The   *)
(* outcome: primitives, conserved variables and a status, 0 for success and   *)
(* -1 where nothing was inverted.  An image inverts to what it is the image   *)
(* of; of other conserved variables only the density is known, and a failed   *)
(* search may leave any primitives, the old ones included.                    *)
Outcomes(u, guess, fastest) ==
    IF u.image # NoState THEN {[P |-> u.image, U |-> u, status |-> 0]}
    ELSE {[P |-> s, U |-> ImageOf(s), status |-> 0] :
              s \in {t \in [rho : {u.rho \div g : g \in 1 .. fastest}, u : {1, 4}, gamma : 1 .. fastest] :
                        t.rho * t.gamma = u.rho}}
         \union {[P |-> s, U |-> u, status |-> 1] : s \in {guess} \union {t \in ZoneStates : Unsolved(t)}}

Add(u, rho) == [rho |-> u.rho + rho, image |-> NoState]
rho_add(s) == greatest(0, floor_vals.rho - s.rho)
u_add(s) == greatest(0, floor_vals.u - s.u)
fastestSpeed == 4

(* Material at rest slows a zone whose state was known.                       *)
NormalFloors(s, guess) ==
    IF rho_add(s) = 0 /\ u_add(s) = 0 THEN Outcomes(U, guess, fastestSpeed)
    ELSE Outcomes(Add(U, rho_add(s)), guess,
                  IF U.image # NoState THEN U.image.gamma ELSE fastestSpeed)

(* Or make the conserved density and energy those of the floored zone, its    *)
(* momentum left as it was.  Where the inversion had found no state, a speed  *)
(* is sought that has the zone's momentum (found), or the last guess is kept. *)
Enough(s) ==
    [rho |-> greatest(floor_vals.rho, s.rho),
     u |-> IF s.u < floor_vals.u
           THEN greatest(u_of_ktot(s), floor_vals.u)
           ELSE s.u,
     gamma |-> s.gamma]
EnoughFloors(s, found) ==
    LET e == Enough(s)
        fastest == IF U.image # NoState /\ U.image.gamma = e.gamma THEN e.gamma ELSE fastestSpeed
    IN  IF U.image = e \/ found THEN Outcomes(ImageOf(e), s, fastestSpeed)
        ELSE Outcomes([rho |-> e.rho * e.gamma, image |-> NoState], s, fastest)

(* The frame used at this zone.                                               *)
switch_r == 1
switch_beta == 1
FrameHere(s) ==
    CASE setup.frame = "mixed_fluid_normal" ->
            IF setup.r > switch_r THEN "fluid" ELSE "normal_kastaun"
      [] setup.frame = "mixed_normal_drift" ->
            IF least(s.rho, s.u) < switch_beta * bsq(s) THEN "drift" ELSE "normal_kastaun"
      [] OTHER -> setup.frame

(* What is then done to a zone.                                               *)
NotInverted(s) == [P |-> s, U |-> ImageOf(s), status |-> -1]
apply_floors(s, found) ==
    CASE FrameHere(s) = "fluid" -> {NotInverted(Raised(s, floor_vals))}
      [] FrameHere(s) = "drift" -> {NotInverted(t) : t \in Drifted(s)}
      [] FrameHere(s) = "normal_kastaun" -> NormalFloors(s, s)
      [] FrameHere(s) = "normal_onedw" -> NormalFloors(s, Raised(s, floor_vals))
      [] FrameHere(s) = "normal_kastaun_eenough" -> EnoughFloors(s, found)

-----------------------------------------------------------------------------
Task(name) == pass.task = name
Then(name) == pass' = [pass EXCEPT !.task = name]
NotTreated == [frame |-> "none", slowed |-> FALSE, found |-> FALSE]

(* The problem's own state, brought above floors before the first step.       *)
ApplyInitialFloors ==
    /\ Task("problem")
    /\ LET hit == determine_floors(P) # {}
           lowest == [rho |-> rhoflr_max(P), u |-> uflr_max(P)]
           after == Raised(apply_ceilings(P), lowest)
       IN  /\ P' = IF hit THEN after ELSE P
           /\ U' = IF hit THEN ImageOf(after) ELSE U
           /\ told' = [NotTreated EXCEPT !.frame = IF hit THEN "fluid" ELSE "none",
                                         !.slowed = hit /\ P.gamma > floors.gamma_max]
    /\ Then("recover") /\ UNCHANGED <<setup, fflag, pflag, floor_vals>>

(* The inversion of what the update made of the zone, or of the same again.   *)
Invert ==
    /\ Task("recover") /\ pass.number < MaxPasses
    /\ \/ /\ pflag = 0 /\ U.image = P /\ UNCHANGED <<P, U, pflag>>
          /\ pass' = [number |-> pass.number + 1, task |-> "determine", calm |-> TRUE]
       \/ /\ pass.number = 0
          /\ \E s \in ZoneStates :
              \/ ~Unsolved(s) /\ P' = s /\ U' = ImageOf(s) /\ pflag' = 0
              \/ P' = s /\ U' = [rho |-> 4, image |-> NoState] /\ pflag' = 1
          /\ pass' = [number |-> pass.number + 1, task |-> "determine", calm |-> FALSE]
    /\ UNCHANGED <<setup, fflag, floor_vals, told>>

DetermineFloors ==
    /\ Task("determine") /\ Then("apply")
    /\ fflag' = fflag \union determine_floors(P)
    /\ floor_vals' = [rho |-> rhoflr_max(P), u |-> uflr_max(P)]
    /\ UNCHANGED <<setup, P, U, pflag, told>>

(* Ceilings, floors, and the conserved variables that follow.                 *)
ApplyFloorsInFrame ==
    /\ Task("apply") /\ Then("recover")
    /\ IF fflag = {} /\ pflag = 0
       THEN told' = NotTreated /\ UNCHANGED <<P, U, pflag>>
       ELSE LET s == apply_ceilings(P) IN
            \E found \in IF Unsolved(s) THEN BOOLEAN ELSE {FALSE} :
            \E o \in apply_floors(s, found) :
                /\ P' = o.P
                /\ pflag' = IF o.status >= 0 THEN o.status ELSE pflag
                /\ U' = IF o.status <= 0 THEN ImageOf(o.P) ELSE o.U
                /\ told' = [frame |-> FrameHere(s), slowed |-> P.gamma > floors.gamma_max,
                            found |-> found \/ (pflag = 0 /\ s = P)]
    /\ UNCHANGED <<setup, fflag, floor_vals>>

(* Flags are cleared between steps only.                                      *)
ClearFlags ==
    /\ Task("recover") /\ pass.number > 0 /\ fflag # {}
    /\ fflag' = {} /\ UNCHANGED <<setup, P, U, pflag, floor_vals, pass, told>>

Setups ==
    {s \in [frame : {FrameOf(f) : f \in Frames}, floors : Prescriptions,
            field : Fields, r : Radii, ktot : {0, 1}] :
        /\ s.floors.use_u_min_entropy => s.ktot = 1
        /\ s.ktot = 1 => s.floors.use_u_min_entropy \/ s.frame = "normal_kastaun_eenough"}

Unfloored ==
    /\ U = [rho |-> 0, image |-> NoState]
    /\ fflag = {} /\ pflag = 0 /\ floor_vals = [rho |-> 0, u |-> 0]
    /\ pass = [number |-> 0, task |-> "problem", calm |-> FALSE]
    /\ told = NotTreated

FloorInit == setup \in Setups /\ P \in ZoneStates /\ Unfloored

FloorNext == ApplyInitialFloors \/ Invert \/ DetermineFloors \/ ApplyFloorsInFrame \/ ClearFlags

FloorSpec == FloorInit /\ [][FloorNext]_floorVars

-----------------------------------------------------------------------------
floored == pass.task = "recover"

(* A zone that no flag marks breaks no limit (save the floor entropy sets,    *)
(* which has no flag of its own), and the inversion's flag, once floors have  *)
(* run, tells whether the two forms of the state are of one another.          *)
NoneOverlooked ==
    floored /\ told.frame = "none" =>
        determine_floors(P) = {} /\ P.rho >= rhoflr_max(P) /\ P.u >= greatest(uflr_geom, uflr_b(P))
FlagTellsForms == floored /\ pass.number > 0 /\ pflag = 0 => U = ImageOf(P)

(* Adding material does not leave the zone short of it: a zone known before   *)
(* has at least the density asked for, if the inversion agrees.               *)
EnoughAdded ==
    floored /\ pflag = 0 /\ pass.number > 0 =>
        /\ told.frame \in {"fluid", "drift"} => P.rho >= floor_vals.rho /\ P.u >= floor_vals.u
        /\ told.frame = "normal_kastaun_eenough" /\ told.found => P.rho >= floor_vals.rho

(* Floors settle: limits are found before ceilings move the zone and before   *)
(* floors on energy heat it, and still what they leave breaks none of them,   *)
(* unless the zone was slowed, which strengthens its field; and once more     *)
(* without slowing it settles that too.  Where a floor on energy is above a   *)
(* ceiling the floor wins, and the floor entropy sets rises with density.     *)
FloorsSettle ==
    floored /\ told.frame \in {"fluid", "drift"} /\ ~told.slowed =>
        \A name \in determine_floors(P) :
            \/ name \in {"KTOT", "TEMP"} /\ P.u <= uflr_max(P) /\ (name = "TEMP" => floors.temp_adjust_u)
            \/ name = "TEMP" /\ floors.use_u_min_entropy

LimitsHold == NoneOverlooked /\ FlagTellsForms /\ EnoughAdded /\ FloorsSettle
=============================================================================
