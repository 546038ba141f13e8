--------------------------- MODULE RadiationSolver ---------------------------
(***************************************************************************)
(* RadM1's exchange between gas and radiation.  Both stages of a step      *)
(* solve for it, zone by zone, with up to three solvers, each of which     *)
(* takes what the last one left pending; stage 2 adds the source stage 1   *)
(* found.  Zones no solver could do are averaged over neighbors after the  *)
(* inversion.  With first-order flux corrections each stage goes through   *)
(* the solvers twice, first for a guess.                                   *)
(*                                                                         *)
(* What a container holds is written as a combination of the state at the  *)
(* step's start, U, the explicit tendencies F0 and F1 of the two stages,   *)
(* and the sources found in them, S1 and S2.                               *)
(***************************************************************************)
EXTENDS Integers

CONSTANTS
    N,        \* zones, in a row
    Decks     \* records [fofc, prad_fallback, inside, cut]: columns 1 to inside are within
              \* the horizon, and a block ends after column cut, unless that is 0

ASSUME DecksAssumption ==
    /\ N \in Nat
    /\ Decks \subseteq [fofc : BOOLEAN, prad_fallback : BOOLEAN, inside : Nat, cut : Nat]

VARIABLES deck, stage, task, fake, still,
    mesh,        \* the containers "base" and "1": a combination of terms for each zone
    dU,          \* dUdt, or in the fake part of a stage fofc_source
    dU1,         \* dUdt_s1
    guess,       \* fofc_guess
    imex_src, rimplflag, pflag, rinvflag,
    gas, rad,    \* which zones' values are in the primitives, while they are repaired
    unfixed,     \* zones FixRadiation has still to visit
    star, found  \* history: the state solved for, and zones solved in each stage

vars == <<deck, stage, task, fake, still, mesh, dU, dU1, guess, imex_src, rimplflag, pflag,
          rinvflag, gas, rad, unfixed, star, found>>

Zones == 1 .. N
Inside == 1 .. deck.inside
Fields == {"gas", "rad"}

-----------------------------------------------------------------------------
(* A number (a + b sqrt(2)) / 2 is <<a, b>>.                                 *)
Zero == <<0, 0>>
One == <<2, 0>>
Root == <<0, 2>>
Plus(x, y) == <<x[1] + y[1], x[2] + y[2]>>
Minus(x, y) == <<x[1] - y[1], x[2] - y[2]>>
Times(x, y) == <<(x[1] * y[1] + 2 * x[2] * y[2]) \div 2, (x[1] * y[2] + x[2] * y[1]) \div 2>>
Over(x, y) ==
    LET norm == y[1] * y[1] - 2 * y[2] * y[2]
        s == IF norm < 0 THEN -1 ELSE 1    \* \div is by positive numbers
    IN  <<(2 * s * (x[1] * y[1] - 2 * x[2] * y[2])) \div (s * norm),
          (2 * s * (x[2] * y[1] - x[1] * y[2])) \div (s * norm)>>

Terms == {"U", "V", "F0", "F1", "S1", "S2", "fake", "old"}
Nothing == [t \in Terms |-> Zero]
Term(t) == [Nothing EXCEPT ![t] = One]
Sum2(v, w) == [t \in Terms |-> Plus(v[t], w[t])]
Scaled(c, v) == [t \in Terms |-> Times(c, v[t])]
Signed(f, v) == IF f = "rad" THEN v ELSE [t \in Terms |-> Minus(Zero, v[t])]

-----------------------------------------------------------------------------
(* The integrator, with the step as the unit of time.                        *)
ars_g == Minus(One, Over(One, Root))
ars_d == Minus(One, Over(One, Plus(ars_g, ars_g)))
gam0 == <<Zero, Zero>>
gam1 == <<One, One>>
beta == <<ars_g, Minus(One, ars_d)>>

dt == beta[stage]
dt_impl == ars_g
w_solve == Over(dt_impl, dt)
w_hist == IF stage = 2 THEN Over(Root, dt) ELSE Zero

init == IF stage = 1 THEN "base" ELSE "1"
final == IF stage = 1 THEN "1" ELSE "base"

\* The weighted sum every update starts from
Averaged(z, f) ==
    Sum2(Scaled(gam0[stage], mesh[init][z][f]), Scaled(gam1[stage], mesh["base"][z][f]))
Updated(z, f) == Sum2(Averaged(z, f), Scaled(dt, dU[z][f]))

Everywhere(v) == [z \in Zones |-> [f \in Fields |-> v]]

-----------------------------------------------------------------------------
(* What the solvers share.                                                   *)
History(z) == IF stage = 2 /\ imex_src[z] # "none" THEN Term(imex_src[z]) ELSE Nothing

WithHistory(z) ==    \* apply_history
    [f \in Fields |-> Sum2(dU[z][f], Signed(f, Scaled(w_hist, History(z))))]

source == IF fake THEN "fake" ELSE IF stage = 1 THEN "S1" ELSE "S2"

WithSource(z) ==    \* apply_source
    [f \in Fields |->
        Sum2(dU[z][f], Signed(f, Sum2(Scaled(w_solve, Term(source)),
                                      Scaled(w_hist, History(z)))))]

\* Mutant: the stage 1 tendency is forgotten
StarWithoutTendency(z) ==
    [f \in Fields |-> Sum2(Updated(z, f), Signed(f, Scaled(Times(w_hist, dt), History(z))))]

Star(z) ==    \* build_star
    [f \in Fields |->
        Sum2(Sum2(Updated(z, f), IF stage = 2 THEN Scaled(ars_d, dU1[z][f]) ELSE Nothing),
             Signed(f, Scaled(Times(w_hist, dt), History(z))))]

\* Mutant: the solver's state stays behind
Abandoned(saved, built) == built

Restored(saved, built) == saved

\* A solver's visit to some zones: those it solves add their source, those in failing
\* the history, and the others nothing
Solve(visited, solved, failing) ==
    /\ dU' = [z \in Zones |->
                IF z \in solved THEN WithSource(z)
                ELSE IF z \in failing THEN WithHistory(z) ELSE dU[z]]
    /\ imex_src' = IF stage = 1
                   THEN [z \in Zones |-> IF z \in solved THEN source ELSE imex_src[z]]
                   ELSE imex_src
    /\ mesh' = [mesh EXCEPT ![init] =
                   [z \in Zones |-> IF z \in visited THEN Restored(@[z], Star(z)) ELSE @[z]]]
    /\ star' = [z \in Zones |-> IF z \in visited THEN Star(z) ELSE star[z]]
    /\ found' = IF fake THEN found ELSE [found EXCEPT ![stage] = @ \cup solved]

-----------------------------------------------------------------------------
At(here, next) == task = here /\ task' = next

(* The zones without any velocity fell on the floors: they are not solved,   *)
(* in the guess as in the step, since both start from the same primitives.   *)
BeginStage ==
    /\ At("begin", "flux")
    /\ \E zones \in SUBSET (Zones \ Inside) : still' = zones
    /\ fake' = deck.fofc
    /\ UNCHANGED <<deck, stage, mesh, dU, dU1, guess, imex_src, rimplflag, pflag, rinvflag,
                   gas, rad, unfixed, star, found>>

\* Flux divergence, and the sources of all packages but this one
Tendency ==
    /\ At("flux", "setup")
    /\ dU' = Everywhere(Term(IF stage = 1 THEN "F0" ELSE "F1"))
    /\ UNCHANGED <<deck, stage, fake, still, mesh, dU1, guess, imex_src, rimplflag, pflag,
                   rinvflag, gas, rad, unfixed, star, found>>

\* Mutant: the sources of the last step stay
Uncleared(src) == src

Cleared(src) == IF stage = 1 THEN [z \in Zones |-> "none"] ELSE src

Setup ==
    /\ At("setup", "pmhd")
    /\ imex_src' = Cleared(imex_src)
    /\ dU' = [z \in Zones |-> IF z \in still \ Inside THEN WithHistory(z) ELSE dU[z]]
    /\ rimplflag' = [z \in Zones |->
           IF z \in Inside \cup still THEN "success"
           ELSE IF rimplflag[z] = "ufluid_success" THEN "pending_pmhd_short"
           ELSE "pending_pmhd"]
    /\ UNCHANGED <<deck, stage, fake, still, mesh, dU1, guess, pflag, rinvflag, gas, rad, unfixed,
                   star, found>>

(* Newton's method on the gas.  Where the state had to be repaired to begin  *)
(* with, the flag tells.                                                     *)
PMHD ==
    LET visited == {z \in Zones : rimplflag[z] \in {"pending_pmhd", "pending_pmhd_short"}}
    IN  /\ At("pmhd", "ff")
        /\ \E solved \in SUBSET visited, star_fixed \in SUBSET visited :
              /\ Solve(visited, solved, {})
              /\ rimplflag' = [z \in Zones |->
                     CASE z \in solved ->
                              IF z \in star_fixed THEN "starfix_success" ELSE "success"
                       [] z \in visited \ solved ->
                              IF z \in star_fixed THEN "pending_prad_starfix"
                              ELSE "pending_prad"
                       [] OTHER -> rimplflag[z]]
        /\ UNCHANGED <<deck, stage, fake, still, dU1, guess, pflag, rinvflag, gas, rad, unfixed>>

Todo == {z \in Zones : rimplflag[z] \in {"pending_prad", "pending_prad_starfix"}}

\* Mutant: zones the last solver fails are left for another
LeftPending(zones) == {}

FailedBy(zones) == IF deck.prad_fallback THEN {} ELSE zones

(* In the fluid frame; its best state will do if it came close.              *)
FluidFrame ==
    /\ At("ff", IF deck.prad_fallback THEN "prad" ELSE "solved")
    /\ \E solved \in SUBSET Todo, relaxed \in SUBSET Todo :
          LET failing == FailedBy(Todo \ solved)
          IN  /\ Solve(Todo, solved, failing)
              /\ relaxed \subseteq solved
              /\ deck.prad_fallback => relaxed = {}
              /\ rimplflag' = [z \in Zones |->
                     CASE z \in relaxed -> "relaxed_success"
                       [] z \in solved \ relaxed -> "ufluid_success"
                       [] z \in failing -> "failure"
                       [] OTHER -> rimplflag[z]]
    /\ UNCHANGED <<deck, stage, fake, still, dU1, guess, pflag, rinvflag, gas, rad, unfixed>>

Fallback ==
    /\ At("prad", "solved")
    /\ \E solved \in SUBSET Todo :
          /\ Solve(Todo, solved, Todo \ solved)
          /\ rimplflag' = [z \in Zones |->
                 CASE z \in solved -> IF rimplflag[z] = "pending_prad_starfix"
                                      THEN "starfix_success" ELSE "pradfallback_success"
                   [] z \in Todo \ solved -> "failure"
                   [] OTHER -> rimplflag[z]]
    /\ UNCHANGED <<deck, stage, fake, still, dU1, guess, pflag, rinvflag, gas, rad, unfixed>>

-----------------------------------------------------------------------------
(* The updates around the solve: of the guess, and of the stage itself.      *)
GuessUpdate ==
    /\ fake /\ At("solved", "flux")
    /\ guess' = [z \in Zones |-> [f \in Fields |-> Updated(z, f)]]
    /\ fake' = FALSE
    /\ UNCHANGED <<deck, stage, still, mesh, dU, dU1, imex_src, rimplflag, pflag, rinvflag,
                   gas, rad, unfixed, star, found>>

KeepTendency ==
    /\ ~fake /\ stage = 1 /\ At("solved", "update")
    /\ dU1' = dU
    /\ UNCHANGED <<deck, stage, fake, still, mesh, dU, guess, imex_src, rimplflag, pflag,
                   rinvflag, gas, rad, unfixed, star, found>>

StateUpdate ==
    /\ ~fake
    /\ IF stage = 1 THEN At("update", "invert") ELSE At("solved", "again")
    /\ mesh' = [mesh EXCEPT ![final] = [z \in Zones |-> [f \in Fields |-> Updated(z, f)]]]
    /\ UNCHANGED <<deck, stage, fake, still, dU, dU1, guess, imex_src, rimplflag, pflag,
                   rinvflag, gas, rad, unfixed, star, found>>

AddTendency ==
    /\ At("again", "invert")
    /\ mesh' = [mesh EXCEPT ![final] = [z \in Zones |-> [f \in Fields |->
                   Sum2(@[z][f], Scaled(ars_d, dU1[z][f]))]]]
    /\ UNCHANGED <<deck, stage, fake, still, dU, dU1, guess, imex_src, rimplflag, pflag,
                   rinvflag, gas, rad, unfixed, star, found>>

-----------------------------------------------------------------------------
(* After the update: inversions may fail as well, and what failed is         *)
(* averaged over neighbors that did not.  A repaired value is the set of     *)
(* zones it came from; Bad is the value of a zone that failed.               *)
Bad == 0
Floor == -1

Failed(z) == rimplflag[z] = "failure"

UtoP ==
    /\ At("invert", "fix")
    /\ pflag' \in SUBSET Zones
    /\ rinvflag' \in SUBSET Zones
    /\ gas' = [z \in Zones |-> IF z \in pflag' \/ Failed(z) THEN {Bad} ELSE {z}]
    /\ rad' = [z \in Zones |-> IF z \in rinvflag' \/ Failed(z) THEN {Bad} ELSE {z}]
    /\ unfixed' = Zones
    /\ UNCHANGED <<deck, stage, fake, still, mesh, dU, dU1, guess, imex_src, rimplflag, star,
                   found>>

SameBlock(z, n) == (z <= deck.cut) <=> (n <= deck.cut)
Neighbors(z) == {n \in Zones : n \in z - 1 .. z + 1}

\* The flags are exchanged with no other block, which sees none raised
GasSolved(z, n) == SameBlock(z, n) => ~Failed(n) /\ n \notin pflag

\* Mutant: neighbors of failed solves are used
RadiationInverted(z, n) == n \notin Inside /\ (SameBlock(z, n) => n \notin rinvflag)

RadiationGood(z, n) ==
    n \notin Inside /\ (SameBlock(z, n) => ~Failed(n) /\ n \notin rinvflag)

Mean(values, zones) == UNION {values[n] : n \in zones}

(* Zones are visited in parallel: here, in any order, each reading what it   *)
(* finds.                                                                    *)
RadiationBad(z) == z \notin Inside /\ (z \in rinvflag \/ Failed(z))
GasBad(z) == z \notin Inside /\ Failed(z)

FixRadiation(z) ==
    LET gases == Mean(gas, {n \in Neighbors(z) : GasSolved(z, n)})
        fluxes == Mean(rad, {n \in Neighbors(z) : RadiationGood(z, n)})
    IN  /\ task = "fix" /\ z \in unfixed
        /\ unfixed' = unfixed \ {z}
        /\ \E value \in {{Floor}} \cup ({fluxes} \ {{}}) :    \* the floor if it does not invert
              rad' = IF RadiationBad(z) THEN [rad EXCEPT ![z] = value] ELSE rad
        /\ gas' = IF GasBad(z) /\ gases # {} THEN [gas EXCEPT ![z] = gases] ELSE gas
        /\ UNCHANGED <<deck, stage, task, fake, still, mesh, dU, dU1, guess, imex_src,
                       rimplflag, pflag, rinvflag, star, found>>

(* All else that is done to the primitives, and the conserved state from     *)
(* them: the combination ends.  Stage 2 ends the step, and what is kept      *)
(* from it becomes old.                                                      *)
FinishStage ==
    /\ unfixed = {} /\ At("fix", "begin")
    /\ mesh' = [mesh EXCEPT ![final] = Everywhere(Term(IF stage = 1 THEN "V" ELSE "U"))]
    /\ IF stage = 1
       THEN stage' = 2 /\ UNCHANGED <<dU1, imex_src, found, star>>
       ELSE /\ stage' = 1
            /\ dU1' = Everywhere(Term("old"))
            /\ imex_src' = [z \in Zones |-> IF imex_src[z] = "none" THEN "none" ELSE "old"]
            /\ found' = <<{}, {}>>
            /\ star' = Everywhere(Nothing)
    /\ dU' = Everywhere(Nothing)
    /\ guess' = Everywhere(Nothing)
    /\ pflag' = {} /\ rinvflag' = {}    \* both are set again before they are read
    /\ gas' = [z \in Zones |-> {z}] /\ rad' = gas'
    /\ still' = {}
    /\ UNCHANGED <<deck, fake, rimplflag, unfixed>>

Init ==
    /\ deck \in Decks
    /\ stage = 1 /\ task = "begin" /\ fake = FALSE /\ still = {}
    /\ mesh = [c \in {"base", "1"} |-> Everywhere(Term(IF c = "base" THEN "U" ELSE "V"))]
    /\ dU = Everywhere(Nothing) /\ dU1 = Everywhere(Term("old"))
    /\ guess = Everywhere(Nothing)
    /\ imex_src = [z \in Zones |-> "none"]
    /\ rimplflag = [z \in Zones |-> "success"]
    /\ pflag = {} /\ rinvflag = {}
    /\ gas = [z \in Zones |-> {z}] /\ rad = gas
    /\ unfixed = {}
    /\ star = Everywhere(Nothing) /\ found = <<{}, {}>>

Next ==
    \/ BeginStage \/ Tendency \/ Setup \/ PMHD \/ FluidFrame \/ Fallback
    \/ GuessUpdate \/ KeepTendency \/ StateUpdate \/ AddTendency
    \/ UtoP \/ FinishStage
    \/ \E z \in Zones : FixRadiation(z)

Spec == Init /\ [][Next]_vars

-----------------------------------------------------------------------------
Settled == {"success", "starfix_success", "ufluid_success", "relaxed_success",
            "pradfallback_success", "failure"}
Pending == {"pending_pmhd", "pending_pmhd_short", "pending_prad", "pending_prad_starfix"}

(* Types.  A pending flag is "internal to AddSourceImplicitly, never left in *)
(* rimplflag after it" (radM1.hpp): whichever solvers a zone goes through.   *)
TypeOK ==
    /\ stage \in 1 .. 2 /\ fake \in BOOLEAN
    /\ imex_src \in [Zones -> {"none", "S1", "fake", "old"}]
    /\ rimplflag \in [Zones -> Settled \cup Pending]
    /\ task \notin {"pmhd", "ff", "prad"} => rimplflag \in [Zones -> Settled]
    /\ found[1] \cup found[2] \subseteq Zones \ Inside

(* The scheme a stage is to come to, by the tableaux of ARS(2,2,2): with a   *)
(* source where a solver found one, opposite for gas and radiation.          *)
Tableau(z, f) ==
    LET S(i) == IF z \in found[i] THEN Signed(f, Term(IF i = 1 THEN "S1" ELSE "S2"))
                ELSE Nothing
        Of(c, v) == Scaled(c, v)
    IN  IF stage = 1
        THEN Sum2(Term("U"), Sum2(Of(ars_g, Term("F0")), Of(ars_g, S(1))))
        ELSE Sum2(Sum2(Term("U"),
                       Sum2(Of(ars_d, Term("F0")), Of(Minus(One, ars_d), Term("F1")))),
                  Sum2(Of(Minus(One, ars_g), S(1)), Of(ars_g, S(2))))

(* What a solver put down in one kernel, the updates of both stages and the  *)
(* copy of stage 1's tendency (which holds its source too) carry, comes to   *)
(* the scheme's weights in every zone: also one that failed, was solved by   *)
(* another solver, or was not solved in only one of the stages; no source of *)
(* the guess or of an earlier step is in it, and nothing the solvers built   *)
(* in place is left in the state the update starts from.                     *)
SecondOrder ==
    task = "invert" => \A z \in Zones, f \in Fields : mesh[final][z][f] = Tableau(z, f)

(* A solver finds the source that is implicit in the state it leads to: with *)
(* the state it built for itself, and that alone, this zone's update must    *)
(* agree but for this source.                                                *)
SolvedForItsUpdate ==
    task = "invert" =>
        \A z \in found[stage], f \in Fields :
            mesh[final][z][f] = Sum2(star[z][f], Signed(f, Scaled(ars_g, Term(source))))

(* Whatever the order zones are repaired in, no zone outside the horizon     *)
(* keeps radiation of a failed solve or inversion, nor gets any from a       *)
(* neighbor; and its gas, if the solve failed, is that of neighbors which    *)
(* did not fail, if there are any.                                           *)
RepairedFromGood ==
    task = "fix" /\ unfixed = {} =>
        \A z \in Zones \ Inside :
            /\ Bad \notin rad[z]
            /\ Failed(z) /\ (\E n \in Neighbors(z) : ~Failed(n) /\ n \notin pflag)
                  => Bad \notin gas[z]

(* "Add all source terms so we can accurately predict floor hits"            *)
(* (kharma_driver.cpp:417): the guess advances by the same tendencies as     *)
(* the stage it stands for.                                                  *)
GuessIsUpdate ==
    task = "invert" /\ deck.fofc =>
        \A z \in Zones, t \in {"U", "F0", "F1"} :
            guess[z].gas[t] = mesh[final][z].gas[t]
=============================================================================
