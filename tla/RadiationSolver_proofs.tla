------------------------ MODULE RadiationSolver_proofs ------------------------
(***************************************************************************)
(* RadM1's solvers leave no zone pending, FixRadiation repairs from good   *)
(* zones only, and both stages come to the weights of the tableau, for any *)
(* row of zones and any outcome of each solver.                            *)
(***************************************************************************)
EXTENDS RadiationSolver, TLAPS

Flags == Settled \cup Pending
Sources == {"none", "S1", "fake", "old"}
Labels == {"begin", "flux", "setup", "pmhd", "ff", "prad", "solved", "update", "again",
           "invert", "fix"}

(* Which flags may be about depends on the solver that runs next; and only a *)
(* zone outside the horizon is ever pending.                                 *)
PendingFor(next) ==
    CASE next = "pmhd" -> {"pending_pmhd", "pending_pmhd_short"}
      [] next \in {"ff", "prad"} -> {"pending_prad", "pending_prad_starfix"}
      [] OTHER -> {}

FlagInv ==
    /\ deck \in Decks
    /\ task \in Labels
    /\ stage \in 1 .. 2 /\ fake \in BOOLEAN
    /\ still \subseteq Zones \ Inside
    /\ imex_src \in [Zones -> {"none", "S1", "fake", "old"}]
    /\ rimplflag \in [Zones -> Settled \cup PendingFor(task)]
    /\ \A z \in Zones : rimplflag[z] \in Pending => z \notin Inside
    /\ task = "prad" => deck.prad_fallback
    /\ found \in [1 .. 2 -> SUBSET (Zones \ Inside)]

(* While zones are repaired: what never failed is as it was, what has been   *)
(* visited is good, and the others are read by none.                         *)
FixInv ==
    /\ deck \in Decks
    /\ task = "fix" =>
         /\ gas \in [Zones -> SUBSET Int] /\ rad \in [Zones -> SUBSET Int]
         /\ unfixed \subseteq Zones
         /\ \A z \in Zones :
              /\ z \notin Inside /\ ~RadiationBad(z) => rad[z] = {z}
              /\ ~Failed(z) /\ z \notin pflag => gas[z] = {z}
              /\ z \notin unfixed /\ RadiationBad(z) => Bad \notin rad[z]
              /\ /\ z \notin unfixed /\ GasBad(z)
                 /\ \E n \in Neighbors(z) : ~Failed(n) /\ n \notin pflag
                 => Bad \notin gas[z]

-----------------------------------------------------------------------------
(* A visit to zones outside the horizon keeps the histories in their types,  *)
(* whatever it solves.                                                       *)
LEMMA SolveKeeps ==
    ASSUME NEW visited \in SUBSET (Zones \ Inside), NEW solved \in SUBSET visited,
           NEW failing, Solve(visited, solved, failing),
           imex_src \in [Zones -> {"none", "S1", "fake", "old"}],
           found \in [1 .. 2 -> SUBSET (Zones \ Inside)], stage \in 1 .. 2
    PROVE  /\ imex_src' \in [Zones -> {"none", "S1", "fake", "old"}]
           /\ found' \in [1 .. 2 -> SUBSET (Zones \ Inside)]
<1>1. imex_src' \in [Zones -> {"none", "S1", "fake", "old"}]
  <2>1. CASE stage = 1
    BY <2>1 DEF Solve, source
  <2>2. CASE stage # 1
    BY <2>2 DEF Solve
  <2> QED  BY <2>1, <2>2
<1>2. found' \in [1 .. 2 -> SUBSET (Zones \ Inside)]
  BY DEF Solve
<1> QED  BY <1>1, <1>2

LEMMA FlagInvInit == Init => FlagInv
<1> SUFFICES ASSUME Init PROVE FlagInv
  OBVIOUS
<1>1. found \in [1 .. 2 -> SUBSET (Zones \ Inside)]
  <2> DEFINE Sets == SUBSET (Zones \ Inside)
  <2>1. {} \in Sets /\ found = <<{}, {}>>
    BY DEF Init
  <2> HIDE DEF Sets
  <2>2. found \in [1 .. 2 -> Sets]
    BY <2>1
  <2> QED  BY <2>2 DEF Sets
<1>2. /\ imex_src \in [Zones -> {"none", "S1", "fake", "old"}]
      /\ rimplflag \in [Zones -> Settled \cup PendingFor("begin")]
      /\ \A z \in Zones : rimplflag[z] \notin Pending
  BY DEF Init, Settled, Pending, PendingFor
<1>3. deck \in Decks /\ task = "begin" /\ stage = 1 /\ fake = FALSE /\ still = {}
  BY Zenon DEF Init
<1>4. fake \in BOOLEAN
  BY <1>3
<1>5. task \in Labels /\ task # "prad" /\ stage \in 1 .. 2 /\ still \subseteq Zones \ Inside
  BY <1>3 DEF Labels
<1> QED  BY <1>1, <1>2, <1>3, <1>4, <1>5 DEF FlagInv

LEMMA FlagInvStep == FlagInv /\ [Next]_vars => FlagInv'
<1> SUFFICES ASSUME FlagInv, [Next]_vars PROVE FlagInv'
  OBVIOUS
<1>0. CASE UNCHANGED vars
  BY <1>0 DEF vars, FlagInv, Inside, PendingFor
<1>1. CASE BeginStage
  BY <1>1, DecksAssumption DEF BeginStage, At, FlagInv, Inside, Labels, PendingFor
<1>2. CASE Tendency
  BY <1>2 DEF Tendency, At, FlagInv, Inside, Labels, PendingFor
<1>3. CASE Setup
  <2>1. imex_src' \in [Zones -> {"none", "S1", "fake", "old"}]
    BY <1>3 DEF Setup, Cleared, FlagInv
  <2>2. rimplflag' \in [Zones -> Settled \cup PendingFor("pmhd")]
    BY <1>3 DEF Setup, Settled, PendingFor
  <2>3. \A z \in Zones : rimplflag'[z] \in Pending => z \notin Inside
    BY <1>3 DEF Setup, Pending
  <2> QED  BY <1>3, <2>1, <2>2, <2>3 DEF Setup, At, FlagInv, Inside, Labels
<1>4. CASE PMHD
  <2> DEFINE visited == {z \in Zones : rimplflag[z] \in {"pending_pmhd", "pending_pmhd_short"}}
  <2>0. /\ rimplflag \in [Zones -> Settled \cup {"pending_pmhd", "pending_pmhd_short"}]
        /\ visited \in SUBSET (Zones \ Inside)
    BY <1>4 DEF PMHD, At, FlagInv, PendingFor, Pending
  <2>1. PICK solved \in SUBSET visited, star_fixed \in SUBSET visited :
           /\ Solve(visited, solved, {})
           /\ rimplflag' = [z \in Zones |->
                  CASE z \in solved ->
                           IF z \in star_fixed THEN "starfix_success" ELSE "success"
                    [] z \in visited \ solved ->
                           IF z \in star_fixed THEN "pending_prad_starfix"
                           ELSE "pending_prad"
                    [] OTHER -> rimplflag[z]]
    BY <1>4 DEF PMHD
  <2>2. /\ imex_src' \in [Zones -> {"none", "S1", "fake", "old"}]
        /\ found' \in [1 .. 2 -> SUBSET (Zones \ Inside)]
    BY <2>0, <2>1, SolveKeeps DEF FlagInv
  <2>3. \A z \in Zones :
           /\ rimplflag'[z] \in Settled \cup {"pending_prad", "pending_prad_starfix"}
           /\ rimplflag'[z] \in Pending => z \notin Inside
    BY <2>0, <2>1 DEF Settled, Pending
  <2>4. rimplflag' \in [Zones -> Settled \cup PendingFor("ff")]
    BY <2>1, <2>3 DEF PendingFor
  <2> HIDE DEF visited
  <2> QED  BY <1>4, <2>2, <2>3, <2>4 DEF PMHD, At, FlagInv, Inside, Labels
<1>5. CASE FluidFrame
  <2>0. /\ rimplflag \in [Zones -> Settled \cup {"pending_prad", "pending_prad_starfix"}]
        /\ Todo \in SUBSET (Zones \ Inside)
    BY <1>5 DEF FluidFrame, At, FlagInv, PendingFor, Pending, Todo
  <2>1. PICK solved \in SUBSET Todo, relaxed \in SUBSET Todo :
           /\ Solve(Todo, solved, FailedBy(Todo \ solved))
           /\ relaxed \subseteq solved
           /\ rimplflag' = [z \in Zones |->
                  CASE z \in relaxed -> "relaxed_success"
                    [] z \in solved \ relaxed -> "ufluid_success"
                    [] z \in FailedBy(Todo \ solved) -> "failure"
                    [] OTHER -> rimplflag[z]]
    BY <1>5 DEF FluidFrame
  <2>2. /\ imex_src' \in [Zones -> {"none", "S1", "fake", "old"}]
        /\ found' \in [1 .. 2 -> SUBSET (Zones \ Inside)]
    BY <2>0, <2>1, SolveKeeps DEF FlagInv
  <2>3. task' = IF deck.prad_fallback THEN "prad" ELSE "solved"
    BY <1>5 DEF FluidFrame, At
  <2>4. \A z \in Zones :
           /\ rimplflag'[z] \in Settled \cup {"pending_prad", "pending_prad_starfix"}
           /\ rimplflag'[z] \in Pending => z \notin Inside /\ deck.prad_fallback
    <3> TAKE z \in Zones
    <3>1. CASE z \in Todo
      BY <2>0, <2>1, <3>1 DEF FailedBy, Settled, Pending
    <3>2. CASE z \notin Todo
      <4>1. rimplflag[z] \in Settled
        BY <2>0, <3>2 DEF Todo
      <4>2. rimplflag'[z] = rimplflag[z]
        BY <2>1, <3>2 DEF FailedBy
      <4> QED  BY <4>1, <4>2 DEF Settled, Pending
    <3> QED  BY <3>1, <3>2
  <2>5. rimplflag' \in [Zones -> Settled \cup PendingFor(task')]
    BY <2>1, <2>3, <2>4 DEF PendingFor, Pending
  <2> QED  BY <1>5, <2>2, <2>3, <2>4, <2>5 DEF FluidFrame, FlagInv, Inside, Labels
<1>6. CASE Fallback
  <2>0. /\ rimplflag \in [Zones -> Settled \cup {"pending_prad", "pending_prad_starfix"}]
        /\ Todo \in SUBSET (Zones \ Inside)
    BY <1>6 DEF Fallback, At, FlagInv, PendingFor, Pending, Todo
  <2>1. PICK solved \in SUBSET Todo :
           /\ Solve(Todo, solved, Todo \ solved)
           /\ rimplflag' = [z \in Zones |->
                  CASE z \in solved -> IF rimplflag[z] = "pending_prad_starfix"
                                       THEN "starfix_success" ELSE "pradfallback_success"
                    [] z \in Todo \ solved -> "failure"
                    [] OTHER -> rimplflag[z]]
    BY <1>6 DEF Fallback
  <2>2. /\ imex_src' \in [Zones -> {"none", "S1", "fake", "old"}]
        /\ found' \in [1 .. 2 -> SUBSET (Zones \ Inside)]
    BY <2>0, <2>1, SolveKeeps DEF FlagInv
  <2>3. \A z \in Zones : rimplflag'[z] \in Settled
    BY <2>0, <2>1 DEF Todo, Settled
  <2>4. rimplflag' \in [Zones -> Settled \cup PendingFor("solved")]
    BY <2>1, <2>3
  <2>5. \A z \in Zones : rimplflag'[z] \notin Pending
    BY <2>3 DEF Settled, Pending
  <2> QED  BY <1>6, <2>2, <2>4, <2>5 DEF Fallback, At, FlagInv, Inside, Labels
<1>7. CASE GuessUpdate
  BY <1>7 DEF GuessUpdate, At, FlagInv, Inside, Labels, PendingFor
<1>8. CASE KeepTendency
  BY <1>8 DEF KeepTendency, At, FlagInv, Inside, Labels, PendingFor
<1>9. CASE StateUpdate
  BY <1>9 DEF StateUpdate, At, FlagInv, Inside, Labels, PendingFor
<1>10. CASE AddTendency
  BY <1>10 DEF AddTendency, At, FlagInv, Inside, Labels, PendingFor
<1>11. CASE UtoP
  BY <1>11 DEF UtoP, At, FlagInv, Inside, Labels, PendingFor
<1>12. CASE FinishStage
  <2>1. /\ imex_src' \in [Zones -> {"none", "S1", "fake", "old"}]
        /\ found' \in [1 .. 2 -> SUBSET (Zones \ Inside)]
        /\ stage' \in 1 .. 2
    BY <1>12 DEF FinishStage, FlagInv
  <2> QED  BY <1>12, <2>1 DEF FinishStage, At, FlagInv, Inside, Labels, PendingFor
<1>13. ASSUME NEW z \in Zones, FixRadiation(z) PROVE FlagInv'
  BY <1>13 DEF FixRadiation, FlagInv, Inside
<1> QED
  BY <1>0, <1>1, <1>2, <1>3, <1>4, <1>5, <1>6, <1>7, <1>8, <1>9, <1>10, <1>11, <1>12, <1>13
  DEF Next

(* Whatever the solvers find, their flags are settled outside of             *)
(* AddSourceImplicitly, and inside the horizon nothing is solved.            *)
THEOREM FlagsSettle == Spec => []TypeOK
<1>1. FlagInv => TypeOK
  BY DEF FlagInv, TypeOK, PendingFor, Pending
<1> QED  BY <1>1, FlagInvInit, FlagInvStep, PTL DEF Spec

-----------------------------------------------------------------------------
(* In one block, the mean of good radiation, or of solved gas, is good.      *)
LEMMA GoodMeans ==
    ASSUME FixInv, task = "fix", deck.cut = 0, NEW z \in Zones
    PROVE  /\ Bad \notin Mean(rad, {n \in Neighbors(z) : RadiationGood(z, n)})
           /\ Bad \notin Mean(gas, {n \in Neighbors(z) : GasSolved(z, n)})
           /\ Mean(rad, {n \in Neighbors(z) : RadiationGood(z, n)}) \subseteq Int
           /\ Mean(gas, {n \in Neighbors(z) : GasSolved(z, n)}) \subseteq Int
           /\ (\E n \in Neighbors(z) : ~Failed(n) /\ n \notin pflag)
                 => Mean(gas, {n \in Neighbors(z) : GasSolved(z, n)}) # {}
<1>1. ASSUME NEW n \in Neighbors(z)
      PROVE  n \in Zones /\ n # Bad /\ SameBlock(z, n) /\ n \in Int
  BY <1>1, DecksAssumption DEF Neighbors, Zones, Bad, SameBlock
<1>2. ASSUME NEW n \in Neighbors(z), RadiationGood(z, n)
      PROVE  rad[n] = {n}
  BY <1>1, <1>2 DEF RadiationGood, RadiationBad, FixInv
<1>3. ASSUME NEW n \in Neighbors(z)
      PROVE  /\ GasSolved(z, n) <=> (~Failed(n) /\ n \notin pflag)
             /\ GasSolved(z, n) => gas[n] = {n}
  BY <1>1, <1>3 DEF GasSolved, FixInv
<1> QED  BY <1>1, <1>2, <1>3 DEF Mean

LEMMA FixInvStep ==
    (\A d \in Decks : d.cut = 0) /\ FixInv /\ [Next]_vars => FixInv'
<1> SUFFICES ASSUME \A d \in Decks : d.cut = 0, FixInv, [Next]_vars PROVE FixInv'
  OBVIOUS
<1>0. CASE UNCHANGED vars
  BY <1>0 DEF vars, FixInv, Inside, RadiationBad, GasBad, Failed
<1>1. CASE UtoP
  <2>1. /\ gas' \in [Zones -> SUBSET Int] /\ rad' \in [Zones -> SUBSET Int]
        /\ unfixed' = Zones
        /\ \A z \in Zones : z \notin Inside /\ ~RadiationBad(z)' => rad'[z] = {z}
        /\ \A z \in Zones : ~Failed(z)' /\ z \notin pflag' => gas'[z] = {z}
    BY <1>1, DecksAssumption DEF UtoP, RadiationBad, Failed, Inside, Bad, Zones
  <2> QED  BY <1>1, <2>1 DEF UtoP, FixInv, Inside
<1>2. ASSUME NEW z \in Zones, FixRadiation(z) PROVE FixInv'
  <2> DEFINE gases == Mean(gas, {n \in Neighbors(z) : GasSolved(z, n)})
             fluxes == Mean(rad, {n \in Neighbors(z) : RadiationGood(z, n)})
  <2>1. /\ task = "fix" /\ deck.cut = 0
        /\ UNCHANGED <<deck, task, rimplflag, pflag, rinvflag>>
        /\ unfixed' = unfixed \ {z}
    BY <1>2 DEF FixRadiation, FixInv
  <2>2. /\ Bad \notin fluxes /\ Bad \notin gases
        /\ fluxes \subseteq Int /\ gases \subseteq Int
        /\ (\E n \in Neighbors(z) : ~Failed(n) /\ n \notin pflag) => gases # {}
    BY <2>1, GoodMeans
  <2>3. PICK value \in {{Floor}} \cup ({fluxes} \ {{}}) :
           rad' = IF RadiationBad(z) THEN [rad EXCEPT ![z] = value] ELSE rad
    BY <1>2 DEF FixRadiation
  <2>4. gas' = IF GasBad(z) /\ gases # {} THEN [gas EXCEPT ![z] = gases] ELSE gas
    BY <1>2 DEF FixRadiation
  <2> HIDE DEF gases, fluxes
  <2>5. value \in SUBSET Int /\ Bad \notin value
    BY <2>2, <2>3 DEF Floor, Bad
  <2>6. /\ rad' \in [Zones -> SUBSET Int]
        /\ \A y \in Zones : y # z \/ ~RadiationBad(z) => rad'[y] = rad[y]
        /\ RadiationBad(z) => rad'[z] = value
    BY <2>1, <2>3, <2>5 DEF FixInv
  <2>7. /\ gas' \in [Zones -> SUBSET Int]
        /\ \A y \in Zones : y # z \/ ~GasBad(z) => gas'[y] = gas[y]
        /\ GasBad(z) /\ gases # {} => gas'[z] = gases
    BY <2>1, <2>2, <2>4 DEF FixInv
  <2>8. /\ Inside' = Inside /\ unfixed' \subseteq Zones
        /\ \A y \in Zones : /\ RadiationBad(y)' = RadiationBad(y)
                            /\ GasBad(y)' = GasBad(y)
                            /\ Failed(y)' = Failed(y)
    BY <2>1 DEF FixInv, Inside, RadiationBad, GasBad, Failed
  <2>9. ASSUME NEW y \in Zones
        PROVE  /\ y \notin Inside /\ ~RadiationBad(y) => rad'[y] = {y}
               /\ ~Failed(y) /\ y \notin pflag => gas'[y] = {y}
               /\ y \notin unfixed' /\ RadiationBad(y) => Bad \notin rad'[y]
               /\ /\ y \notin unfixed' /\ GasBad(y)
                  /\ \E n \in Neighbors(y) : ~Failed(n) /\ n \notin pflag
                  => Bad \notin gas'[y]
    <3>1. CASE y = z
      BY <2>1, <2>2, <2>5, <2>6, <2>7, <3>1 DEF FixInv, GasBad
    <3>2. CASE y # z
      BY <2>1, <2>6, <2>7, <3>2 DEF FixInv
    <3> QED  BY <3>1, <3>2
  <2>10. \A y \in Zones : Neighbors(y) \subseteq Zones
    BY DEF Neighbors
  <2> QED  BY <2>1, <2>6, <2>7, <2>8, <2>9, <2>10 DEF FixInv, Failed
<1>3. ASSUME \/ BeginStage \/ Tendency \/ Setup \/ PMHD \/ FluidFrame \/ Fallback
             \/ GuessUpdate \/ KeepTendency \/ StateUpdate \/ AddTendency \/ FinishStage
      PROVE  FixInv'
  <2>1. task' # "fix"
    BY <1>3 DEF BeginStage, Tendency, Setup, PMHD, FluidFrame, Fallback, GuessUpdate,
       KeepTendency, StateUpdate, AddTendency, FinishStage, At
  <2>2. deck' = deck
    BY <1>3 DEF BeginStage, Tendency, Setup, PMHD, FluidFrame, Fallback, GuessUpdate,
       KeepTendency, StateUpdate, AddTendency, FinishStage
  <2> QED  BY <2>1, <2>2 DEF FixInv
<1> QED  BY <1>0, <1>1, <1>2, <1>3 DEF Next

(* In one block of any length, whatever failed and in whatever order zones   *)
(* are visited, repairs draw on good zones only.                             *)
THEOREM RepairsDrawOnGood ==
    ASSUME \A d \in Decks : d.cut = 0 PROVE Spec => []RepairedFromGood
<1>1. Init => FixInv
  BY DEF Init, FixInv
<1>2. FixInv /\ [Next]_vars => FixInv'
  BY FixInvStep
<1>3. FixInv => RepairedFromGood
  <2> SUFFICES ASSUME FixInv, task = "fix", unfixed = {}, NEW z \in Zones \ Inside
               PROVE  /\ Bad \notin rad[z]
                      /\ Failed(z) /\ (\E n \in Neighbors(z) : ~Failed(n) /\ n \notin pflag)
                            => Bad \notin gas[z]
    BY DEF RepairedFromGood
  <2>1. z # Bad
    BY DEF Zones, Bad
  <2>2. Bad \notin rad[z]
    BY <2>1 DEF FixInv
  <2>3. Failed(z) => GasBad(z)
    BY DEF GasBad
  <2> QED  BY <2>2, <2>3 DEF FixInv
<1> QED  BY <1>1, <1>2, <1>3, PTL DEF Spec

-----------------------------------------------------------------------------
(***************************************************************************)
(* The tableau.  A content without terms of the guess or of earlier steps  *)
(* is a mix of five: sums and multiples of mixes are mixes.                *)
(***************************************************************************)
Mix(u, f0, f1, s1, s2) ==
    [t \in Terms |-> IF t = "U" THEN u ELSE IF t = "F0" THEN f0 ELSE IF t = "F1" THEN f1
                     ELSE IF t = "S1" THEN s1 ELSE IF t = "S2" THEN s2 ELSE Zero]

Sgn(f, c) == IF f = "rad" THEN c ELSE Minus(Zero, c)

LEMMA MixSum ==
    ASSUME NEW u, NEW f0, NEW f1, NEW s1, NEW s2, NEW v, NEW g0, NEW g1, NEW r1, NEW r2
    PROVE  Sum2(Mix(u, f0, f1, s1, s2), Mix(v, g0, g1, r1, r2)) =
           Mix(Plus(u, v), Plus(f0, g0), Plus(f1, g1), Plus(s1, r1), Plus(s2, r2))
<1>1. Plus(Zero, Zero) = Zero
  BY SMT DEF Plus, Zero
<1> QED  BY <1>1 DEF Sum2, Mix

LEMMA MixScaled ==
    ASSUME NEW c \in Int \X Int, NEW u, NEW f0, NEW f1, NEW s1, NEW s2
    PROVE  Scaled(c, Mix(u, f0, f1, s1, s2)) =
           Mix(Times(c, u), Times(c, f0), Times(c, f1), Times(c, s1), Times(c, s2))
<1>1. Times(c, Zero) = Zero
  BY SMT DEF Times, Zero
<1> QED  BY <1>1 DEF Scaled, Mix

LEMMA MixSigned ==
    ASSUME NEW f \in Fields, NEW u, NEW f0, NEW f1, NEW s1, NEW s2
    PROVE  Signed(f, Mix(u, f0, f1, s1, s2)) =
           Mix(Sgn(f, u), Sgn(f, f0), Sgn(f, f1), Sgn(f, s1), Sgn(f, s2))
<1>1. Minus(Zero, Zero) = Zero
  BY SMT DEF Minus, Zero
<1> QED  BY <1>1 DEF Signed, Sgn, Mix

LEMMA MixTerms ==
    /\ Term("U") = Mix(One, Zero, Zero, Zero, Zero)
    /\ Term("F0") = Mix(Zero, One, Zero, Zero, Zero)
    /\ Term("F1") = Mix(Zero, Zero, One, Zero, Zero)
    /\ Term("S1") = Mix(Zero, Zero, Zero, One, Zero)
    /\ Term("S2") = Mix(Zero, Zero, Zero, Zero, One)
    /\ Nothing = Mix(Zero, Zero, Zero, Zero, Zero)
    /\ Scaled(Zero, Term("V")) = Mix(Zero, Zero, Zero, Zero, Zero)
    /\ Scaled(Zero, Term("U")) = Mix(Zero, Zero, Zero, Zero, Zero)
<1>1. Times(Zero, Zero) = Zero /\ Times(Zero, One) = Zero
  BY SMT DEF Times, Zero, One
<1> QED  BY <1>1 DEF Term, Nothing, Mix, Scaled, Terms

(***************************************************************************)
(* The weights, and what they come to when multiplied.                     *)
(***************************************************************************)
LEMMA Weights ==
    /\ ars_g = <<2, -1>> /\ ars_d = <<0, -1>>
    /\ gam0[1] = Zero /\ gam0[2] = Zero /\ gam1[1] = One /\ gam1[2] = One
    /\ stage = 1 => dt = <<2, -1>> /\ w_solve = One /\ w_hist = Zero
    /\ stage = 2 => dt = <<2, 1>> /\ w_solve = <<6, -4>> /\ w_hist = <<-4, 4>>
    /\ Minus(One, ars_g) = <<0, 1>> /\ Minus(One, ars_d) = <<2, 1>>
<1>1. ars_g = <<2, -1>>
  BY SMT DEF ars_g, Minus, One, Over, Root
<1>2. ars_d = <<0, -1>>
  BY <1>1, SMT DEF ars_d, Plus, Minus, One, Over, Root
<1>3. /\ stage = 1 => dt = <<2, -1>>
      /\ stage = 2 => dt = <<2, 1>>
  BY <1>1, <1>2, SMT DEF dt, beta, Minus, One
<1>4. stage = 1 => w_solve = One /\ w_hist = Zero
  BY <1>1, <1>3, SMT DEF w_solve, w_hist, dt_impl, Over, One, Zero
<1>5. stage = 2 => w_solve = <<6, -4>>
  BY <1>1, <1>3, SMT DEF w_solve, dt_impl, Over
<1>6. stage = 2 => w_hist = <<-4, 4>>
  BY <1>3, SMT DEF w_hist, Over, Root
<1>7. Minus(One, ars_g) = <<0, 1>> /\ Minus(One, ars_d) = <<2, 1>>
  BY <1>1, <1>2, SMT DEF Minus, One
<1>8. gam0[1] = Zero /\ gam0[2] = Zero /\ gam1[1] = One /\ gam1[2] = One
  BY DEF gam0, gam1
<1> QED  BY <1>1, <1>2, <1>3, <1>4, <1>5, <1>6, <1>7, <1>8

-----------------------------------------------------------------------------
(***************************************************************************)
(* Contents.  A source is in the share of the zones it was found in.       *)
(***************************************************************************)
Share(z, i, c) == IF z \in found[i] THEN c ELSE Zero

\* Tendencies of the stages with their sources and history, and without
First(z, f) == Mix(Zero, One, Zero, Sgn(f, Share(z, 1, One)), Zero)
Second(z, f) ==
    Mix(Zero, Zero, One, Sgn(f, Share(z, 1, <<-4, 4>>)), Sgn(f, Share(z, 2, <<6, -4>>)))
Total(z, f) == IF stage = 1 THEN First(z, f) ELSE Second(z, f)
Plain == Term(IF stage = 1 THEN "F0" ELSE "F1")

\* The state solved for, that after the update, and that after all
StarOf(z, f) ==
    IF stage = 1 THEN Mix(One, <<2, -1>>, Zero, Zero, Zero)
    ELSE Mix(One, <<0, -1>>, <<2, 1>>, Sgn(f, Share(z, 1, <<0, 1>>)), Zero)
Advanced(z, f) ==
    IF stage = 1 THEN Mix(One, <<2, -1>>, Zero, Sgn(f, Share(z, 1, <<2, -1>>)), Zero)
    ELSE Mix(One, Zero, <<2, 1>>, Sgn(f, Share(z, 1, Root)), Sgn(f, Share(z, 2, <<2, -1>>)))
Final(z, f) ==
    IF stage = 1 THEN Advanced(z, f)
    ELSE Mix(One, <<0, -1>>, <<2, 1>>, Sgn(f, Share(z, 1, <<0, 1>>)),
             Sgn(f, Share(z, 2, <<2, -1>>)))

Unsolved == {"begin", "flux", "setup"}
Working == {"pmhd", "ff", "prad", "solved", "update", "again"}

\* The update starts from the state at the step's start, and nothing a solver built is in it
MeshInv ==
    /\ mesh = [c \in {"base", "1"} |-> mesh[c]]
    /\ ~(stage = 2 /\ task \in {"again", "invert", "fix"}) => mesh["base"] = Everywhere(Term("U"))
    /\ ~(stage = 1 /\ task \in {"invert", "fix"}) => mesh["1"] = Everywhere(Term("V"))
    /\ task = "again" => \A z \in Zones, f \in Fields : mesh["base"][z][f] = Advanced(z, f)
    /\ task = "invert" => \A z \in Zones, f \in Fields : mesh[final][z][f] = Final(z, f)

\* What was found in a stage is of its real part, and its history is what stage 1 found
FoundInv ==
    /\ task \in {"begin", "update", "again", "invert", "fix"} => ~fake
    /\ task = "update" => stage = 1
    /\ task = "again" => stage = 2
    /\ stage = 1 => found[2] = {}
    /\ fake \/ task \in Unsolved => found[stage] = {}
    /\ stage = 2 \/ (~fake /\ task \notin Unsolved) =>
          \A z \in Zones : imex_src[z] = IF z \in found[1] THEN "S1" ELSE "none"

\* A pending zone's tendency has neither source nor history yet
TendencyInv ==
    /\ stage = 2 \/ task \in {"update", "invert", "fix"} =>
          \A z \in Zones, f \in Fields : dU1[z][f] = First(z, f)
    /\ task = "setup" => dU = Everywhere(Plain)
    /\ ~fake /\ task \in Working =>
          \A z \in Zones :
              /\ rimplflag[z] \in Pending => z \notin found[stage]
              /\ \A f \in Fields :
                    dU[z][f] = IF rimplflag[z] \in Pending THEN Plain ELSE Total(z, f)

\* What solvers built in the zones they were done with
StarInv ==
    ~fake /\ task \in Working \cup {"invert"} =>
        \A z \in found[stage], f \in Fields : star[z][f] = StarOf(z, f)

(* What each container holds at each point of a step, by the sets of zones a *)
(* source was found in alone: which solver found it leaves no trace.         *)
ContentInv == FlagInv /\ MeshInv /\ FoundInv /\ TendencyInv /\ StarInv

-----------------------------------------------------------------------------
(***************************************************************************)
(* What the kernels put down, term by term.                                *)
(***************************************************************************)
LEMMA AveragedIs ==
    ASSUME stage \in 1 .. 2, NEW z \in Zones, NEW f \in Fields,
           mesh["base"] = Everywhere(Term("U")), mesh["1"] = Everywhere(Term("V"))
    PROVE  Averaged(z, f) = Mix(One, Zero, Zero, Zero, Zero)
<1>1. mesh["base"][z][f] = Term("U") /\ mesh["1"][z][f] = Term("V")
  BY DEF Everywhere
<1>2. Scaled(gam0[stage], mesh[init][z][f]) = Mix(Zero, Zero, Zero, Zero, Zero)
  BY <1>1, Weights, MixTerms DEF init
<1>3. Scaled(gam1[stage], Term("U")) = Mix(One, Zero, Zero, Zero, Zero)
  <2>1. Times(One, One) = One /\ Times(One, Zero) = Zero /\ One \in Int \X Int
    BY SMT DEF Times, One, Zero
  <2> QED  BY <2>1, MixScaled, MixTerms, Weights
<1>4. Plus(Zero, One) = One /\ Plus(Zero, Zero) = Zero
  BY SMT DEF Plus, One, Zero
<1>5. Sum2(Mix(Zero, Zero, Zero, Zero, Zero), Mix(One, Zero, Zero, Zero, Zero)) =
        Mix(One, Zero, Zero, Zero, Zero)
  BY <1>4, MixSum
<1> QED  BY <1>1, <1>2, <1>3, <1>5 DEF Averaged

LEMMA UpdatedIs ==
    ASSUME stage \in 1 .. 2, NEW z \in Zones, NEW f \in Fields,
           mesh["base"] = Everywhere(Term("U")), mesh["1"] = Everywhere(Term("V"))
    PROVE  /\ dU[z][f] = Total(z, f) => Updated(z, f) = Advanced(z, f)
           /\ dU[z][f] = Plain =>
                 Updated(z, f) = IF stage = 1 THEN Mix(One, <<2, -1>>, Zero, Zero, Zero)
                                 ELSE Mix(One, Zero, <<2, 1>>, Zero, Zero)
<1>1. Updated(z, f) = Sum2(Mix(One, Zero, Zero, Zero, Zero), Scaled(dt, dU[z][f]))
  BY AveragedIs DEF Updated
<1>2. /\ <<2, -1>> \in Int \X Int /\ <<2, 1>> \in Int \X Int
      /\ Times(<<2, -1>>, Zero) = Zero /\ Times(<<2, 1>>, Zero) = Zero
      /\ Times(<<2, -1>>, One) = <<2, -1>> /\ Times(<<2, 1>>, One) = <<2, 1>>
      /\ Plus(One, Zero) = One /\ Plus(Zero, Zero) = Zero
      /\ Plus(Zero, <<2, -1>>) = <<2, -1>> /\ Plus(Zero, <<2, 1>>) = <<2, 1>>
  BY SMT DEF Times, Plus, One, Zero
<1>3. CASE stage = 1
  <2>1. Scaled(dt, dU[z][f]) = Scaled(<<2, -1>>, dU[z][f])
    BY <1>3, Weights
  <2>2. /\ Times(<<2, -1>>, Sgn(f, Share(z, 1, One))) = Sgn(f, Share(z, 1, <<2, -1>>))
        /\ Plus(Zero, Sgn(f, Share(z, 1, <<2, -1>>))) = Sgn(f, Share(z, 1, <<2, -1>>))
    BY SMT DEF Times, Plus, Minus, Sgn, Share, One, Zero
  <2>3. Scaled(<<2, -1>>, First(z, f)) =
          Mix(Zero, <<2, -1>>, Zero, Sgn(f, Share(z, 1, <<2, -1>>)), Zero)
    BY <1>2, <2>2, MixScaled DEF First
  <2>4. Scaled(<<2, -1>>, Term("F0")) = Mix(Zero, <<2, -1>>, Zero, Zero, Zero)
    BY <1>2, MixScaled, MixTerms
  <2>5. /\ Sum2(Mix(One, Zero, Zero, Zero, Zero),
                Mix(Zero, <<2, -1>>, Zero, Sgn(f, Share(z, 1, <<2, -1>>)), Zero)) =
           Mix(One, <<2, -1>>, Zero, Sgn(f, Share(z, 1, <<2, -1>>)), Zero)
        /\ Sum2(Mix(One, Zero, Zero, Zero, Zero), Mix(Zero, <<2, -1>>, Zero, Zero, Zero)) =
           Mix(One, <<2, -1>>, Zero, Zero, Zero)
    <3>1. Sum2(Mix(One, Zero, Zero, Zero, Zero),
             Mix(Zero, <<2, -1>>, Zero, Sgn(f, Share(z, 1, <<2, -1>>)), Zero)) =
           Mix(Plus(One, Zero),
               Plus(Zero, <<2, -1>>),
               Plus(Zero, Zero),
               Plus(Zero, Sgn(f, Share(z, 1, <<2, -1>>))),
               Plus(Zero, Zero))
      BY MixSum
    <3>2. Sum2(Mix(One, Zero, Zero, Zero, Zero),
             Mix(Zero, <<2, -1>>, Zero, Zero, Zero)) =
           Mix(Plus(One, Zero),
               Plus(Zero, <<2, -1>>),
               Plus(Zero, Zero),
               Plus(Zero, Zero),
               Plus(Zero, Zero))
      BY MixSum
    <3> QED  BY <3>1, <3>2, <1>2, <2>2
  <2>6. dU[z][f] = Total(z, f) => Updated(z, f) = Advanced(z, f)
    BY <1>1, <1>3, <2>1, <2>3, <2>5 DEF Total, Advanced
  <2>7. dU[z][f] = Plain => Updated(z, f) = Mix(One, <<2, -1>>, Zero, Zero, Zero)
    <3>1. Plain = Term("F0")
      BY <1>3 DEF Plain
    <3> QED  BY <1>1, <2>1, <2>4, <2>5, <3>1
  <2> QED  BY <1>3, <2>6, <2>7
<1>4. CASE stage = 2
  <2>1. Scaled(dt, dU[z][f]) = Scaled(<<2, 1>>, dU[z][f])
    BY <1>4, Weights
  <2>2. /\ Times(<<2, 1>>, Sgn(f, Share(z, 1, <<-4, 4>>))) = Sgn(f, Share(z, 1, Root))
        /\ Times(<<2, 1>>, Sgn(f, Share(z, 2, <<6, -4>>))) = Sgn(f, Share(z, 2, <<2, -1>>))
        /\ Plus(Zero, Sgn(f, Share(z, 1, Root))) = Sgn(f, Share(z, 1, Root))
        /\ Plus(Zero, Sgn(f, Share(z, 2, <<2, -1>>))) = Sgn(f, Share(z, 2, <<2, -1>>))
    BY SMT DEF Times, Plus, Minus, Sgn, Share, Root, Zero
  <2>3. Scaled(<<2, 1>>, Second(z, f)) =
          Mix(Zero, Zero, <<2, 1>>, Sgn(f, Share(z, 1, Root)), Sgn(f, Share(z, 2, <<2, -1>>)))
    BY <1>2, <2>2, MixScaled DEF Second
  <2>4. Scaled(<<2, 1>>, Term("F1")) = Mix(Zero, Zero, <<2, 1>>, Zero, Zero)
    BY <1>2, MixScaled, MixTerms
  <2>5. /\ Sum2(Mix(One, Zero, Zero, Zero, Zero),
                Mix(Zero, Zero, <<2, 1>>, Sgn(f, Share(z, 1, Root)),
                    Sgn(f, Share(z, 2, <<2, -1>>)))) =
           Mix(One, Zero, <<2, 1>>, Sgn(f, Share(z, 1, Root)), Sgn(f, Share(z, 2, <<2, -1>>)))
        /\ Sum2(Mix(One, Zero, Zero, Zero, Zero), Mix(Zero, Zero, <<2, 1>>, Zero, Zero)) =
           Mix(One, Zero, <<2, 1>>, Zero, Zero)
    <3>1. Sum2(Mix(One, Zero, Zero, Zero, Zero),
             Mix(Zero, Zero, <<2, 1>>, Sgn(f, Share(z, 1, Root)), Sgn(f, Share(z, 2, <<2, -1>>)))) =
           Mix(Plus(One, Zero),
               Plus(Zero, Zero),
               Plus(Zero, <<2, 1>>),
               Plus(Zero, Sgn(f, Share(z, 1, Root))),
               Plus(Zero, Sgn(f, Share(z, 2, <<2, -1>>))))
      BY MixSum
    <3>2. Sum2(Mix(One, Zero, Zero, Zero, Zero),
             Mix(Zero, Zero, <<2, 1>>, Zero, Zero)) =
           Mix(Plus(One, Zero),
               Plus(Zero, Zero),
               Plus(Zero, <<2, 1>>),
               Plus(Zero, Zero),
               Plus(Zero, Zero))
      BY MixSum
    <3> QED  BY <3>1, <3>2, <1>2, <2>2
  <2>6. dU[z][f] = Total(z, f) => Updated(z, f) = Advanced(z, f)
    BY <1>1, <1>4, <2>1, <2>3, <2>5 DEF Total, Advanced
  <2>7. dU[z][f] = Plain => Updated(z, f) = Mix(One, Zero, <<2, 1>>, Zero, Zero)
    <3>1. Plain = Term("F1")
      BY <1>4 DEF Plain
    <3> QED  BY <1>1, <2>1, <2>4, <2>5, <3>1
  <2> QED  BY <1>4, <2>6, <2>7
<1> QED  BY <1>3, <1>4

\* In stage 2 a zone has a history where stage 1 found a source
LEMMA HistoryIs ==
    ASSUME NEW z \in Zones, stage \in 1 .. 2,
           stage = 2 => imex_src[z] = IF z \in found[1] THEN "S1" ELSE "none"
    PROVE  /\ stage = 1 => History(z) = Mix(Zero, Zero, Zero, Zero, Zero)
           /\ stage = 2 => History(z) = Mix(Zero, Zero, Zero, Share(z, 1, One), Zero)
  BY MixTerms DEF History, Share

\* A solver builds its state from a tendency nothing was yet added to
LEMMA StarIs ==
    ASSUME stage \in 1 .. 2, NEW z \in Zones, NEW f \in Fields,
           mesh["base"] = Everywhere(Term("U")), mesh["1"] = Everywhere(Term("V")),
           dU[z][f] = Plain,
           stage = 2 => imex_src[z] = IF z \in found[1] THEN "S1" ELSE "none",
           stage = 2 => dU1[z][f] = First(z, f)
    PROVE  Star(z)[f] = StarOf(z, f)
<1>1. CASE stage = 1
  <2>1. Updated(z, f) = Mix(One, <<2, -1>>, Zero, Zero, Zero)
    BY <1>1, UpdatedIs
  <2>2. /\ Times(Times(Zero, <<2, -1>>), Zero) = Zero /\ Times(Zero, <<2, -1>>) \in Int \X Int
        /\ Sgn(f, Zero) = Zero
        /\ Plus(One, Zero) = One /\ Plus(Zero, Zero) = Zero
        /\ Plus(<<2, -1>>, Zero) = <<2, -1>>
    BY SMT DEF Times, Plus, Minus, Sgn, One, Zero
  <2>3. Scaled(Times(w_hist, dt), History(z)) = Mix(Zero, Zero, Zero, Zero, Zero)
    BY <1>1, <2>2, HistoryIs, Weights, MixScaled
  <2>4. Signed(f, Mix(Zero, Zero, Zero, Zero, Zero)) = Mix(Zero, Zero, Zero, Zero, Zero)
    BY <2>2, MixSigned
  <2>5. Sum2(Mix(One, <<2, -1>>, Zero, Zero, Zero), Mix(Zero, Zero, Zero, Zero, Zero)) =
          Mix(One, <<2, -1>>, Zero, Zero, Zero)
    <3>1. Sum2(Mix(One, <<2, -1>>, Zero, Zero, Zero),
             Mix(Zero, Zero, Zero, Zero, Zero)) =
           Mix(Plus(One, Zero),
               Plus(<<2, -1>>, Zero),
               Plus(Zero, Zero),
               Plus(Zero, Zero),
               Plus(Zero, Zero))
      BY MixSum
    <3> QED  BY <3>1, <2>2
  <2>6. (IF stage = 2 THEN Scaled(ars_d, dU1[z][f]) ELSE Nothing) =
           Mix(Zero, Zero, Zero, Zero, Zero)
    BY <1>1, MixTerms
  <2> QED  BY <1>1, <2>1, <2>3, <2>4, <2>5, <2>6 DEF Star, StarOf
<1>2. CASE stage = 2
  <2>1. Updated(z, f) = Mix(One, Zero, <<2, 1>>, Zero, Zero)
    BY <1>2, UpdatedIs
  <2>2. /\ <<0, -1>> \in Int \X Int /\ Root \in Int \X Int
        /\ Times(<<-4, 4>>, <<2, 1>>) = Root
        /\ Times(<<0, -1>>, Zero) = Zero /\ Times(<<0, -1>>, One) = <<0, -1>>
        /\ Times(Root, Zero) = Zero
        /\ Sgn(f, Zero) = Zero
        /\ Plus(One, Zero) = One /\ Plus(Zero, Zero) = Zero
        /\ Plus(Zero, <<0, -1>>) = <<0, -1>> /\ Plus(<<0, -1>>, Zero) = <<0, -1>>
        /\ Plus(<<2, 1>>, Zero) = <<2, 1>>
    BY SMT DEF Times, Plus, Minus, Sgn, Root, One, Zero
  <2>3. /\ Times(<<0, -1>>, Sgn(f, Share(z, 1, One))) = Sgn(f, Share(z, 1, <<0, -1>>))
        /\ Times(Root, Share(z, 1, One)) = Share(z, 1, Root)
        /\ Plus(Zero, Sgn(f, Share(z, 1, <<0, -1>>))) = Sgn(f, Share(z, 1, <<0, -1>>))
        /\ Plus(Sgn(f, Share(z, 1, <<0, -1>>)), Sgn(f, Share(z, 1, Root))) =
              Sgn(f, Share(z, 1, <<0, 1>>))
    BY SMT DEF Times, Plus, Minus, Sgn, Share, Root, One, Zero
  <2>4. Scaled(ars_d, dU1[z][f]) =
           Mix(Zero, <<0, -1>>, Zero, Sgn(f, Share(z, 1, <<0, -1>>)), Zero)
    BY <1>2, <2>2, <2>3, Weights, MixScaled DEF First
  <2>5. Scaled(Times(w_hist, dt), History(z)) =
           Mix(Zero, Zero, Zero, Share(z, 1, Root), Zero)
    BY <1>2, <2>2, <2>3, HistoryIs, Weights, MixScaled
  <2>6. Signed(f, Mix(Zero, Zero, Zero, Share(z, 1, Root), Zero)) =
           Mix(Zero, Zero, Zero, Sgn(f, Share(z, 1, Root)), Zero)
    BY <2>2, MixSigned
  <2>7. Sum2(Mix(One, Zero, <<2, 1>>, Zero, Zero),
             Mix(Zero, <<0, -1>>, Zero, Sgn(f, Share(z, 1, <<0, -1>>)), Zero)) =
           Mix(One, <<0, -1>>, <<2, 1>>, Sgn(f, Share(z, 1, <<0, -1>>)), Zero)
    <3>1. Sum2(Mix(One, Zero, <<2, 1>>, Zero, Zero),
             Mix(Zero, <<0, -1>>, Zero, Sgn(f, Share(z, 1, <<0, -1>>)), Zero)) =
           Mix(Plus(One, Zero),
               Plus(Zero, <<0, -1>>),
               Plus(<<2, 1>>, Zero),
               Plus(Zero, Sgn(f, Share(z, 1, <<0, -1>>))),
               Plus(Zero, Zero))
      BY MixSum
    <3> QED  BY <3>1, <2>2, <2>3
  <2>8. Sum2(Mix(One, <<0, -1>>, <<2, 1>>, Sgn(f, Share(z, 1, <<0, -1>>)), Zero),
             Mix(Zero, Zero, Zero, Sgn(f, Share(z, 1, Root)), Zero)) =
           Mix(One, <<0, -1>>, <<2, 1>>, Sgn(f, Share(z, 1, <<0, 1>>)), Zero)
    <3>1. Sum2(Mix(One, <<0, -1>>, <<2, 1>>, Sgn(f, Share(z, 1, <<0, -1>>)), Zero),
             Mix(Zero, Zero, Zero, Sgn(f, Share(z, 1, Root)), Zero)) =
           Mix(Plus(One, Zero),
               Plus(<<0, -1>>, Zero),
               Plus(<<2, 1>>, Zero),
               Plus(Sgn(f, Share(z, 1, <<0, -1>>)), Sgn(f, Share(z, 1, Root))),
               Plus(Zero, Zero))
      BY MixSum
    <3> QED  BY <3>1, <2>2, <2>3
  <2>9. Star(z)[f] = Sum2(Sum2(Updated(z, f), Scaled(ars_d, dU1[z][f])),
                          Signed(f, Scaled(Times(w_hist, dt), History(z))))
    BY <1>2 DEF Star
  <2>10. StarOf(z, f) = Mix(One, <<0, -1>>, <<2, 1>>, Sgn(f, Share(z, 1, <<0, 1>>)), Zero)
    BY <1>2 DEF StarOf
  <2> QED  BY <2>1, <2>4, <2>5, <2>6, <2>7, <2>8, <2>9, <2>10
<1> QED  BY <1>1, <1>2

\* The tendency of a zone with the history, and with a source too
LEMMA HistoryAdded ==
    ASSUME stage \in 1 .. 2, NEW z \in Zones, NEW f \in Fields, dU[z][f] = Plain,
           stage = 2 => imex_src[z] = IF z \in found[1] THEN "S1" ELSE "none"
    PROVE  WithHistory(z)[f] =
              IF stage = 1 THEN Mix(Zero, One, Zero, Zero, Zero)
              ELSE Mix(Zero, Zero, One, Sgn(f, Share(z, 1, <<-4, 4>>)), Zero)
<1>1. WithHistory(z)[f] = Sum2(dU[z][f], Signed(f, Scaled(w_hist, History(z))))
  BY DEF WithHistory
<1>2. /\ Zero \in Int \X Int /\ <<-4, 4>> \in Int \X Int
      /\ Times(Zero, Zero) = Zero /\ Times(<<-4, 4>>, Zero) = Zero
      /\ Sgn(f, Zero) = Zero
      /\ Plus(Zero, One) = One /\ Plus(One, Zero) = One /\ Plus(Zero, Zero) = Zero
  BY SMT DEF Times, Plus, Minus, Sgn, One, Zero
<1>3. CASE stage = 1
  <2>1. Scaled(w_hist, History(z)) = Mix(Zero, Zero, Zero, Zero, Zero)
    BY <1>2, <1>3, HistoryIs, Weights, MixScaled
  <2>2. Signed(f, Mix(Zero, Zero, Zero, Zero, Zero)) = Mix(Zero, Zero, Zero, Zero, Zero)
    BY <1>2, MixSigned
  <2>3. dU[z][f] = Mix(Zero, One, Zero, Zero, Zero)
    BY <1>3, MixTerms DEF Plain
  <2>4. Sum2(Mix(Zero, One, Zero, Zero, Zero), Mix(Zero, Zero, Zero, Zero, Zero)) =
           Mix(Zero, One, Zero, Zero, Zero)
    BY <1>2, MixSum
  <2> QED  BY <1>1, <1>3, <2>1, <2>2, <2>3, <2>4
<1>4. CASE stage = 2
  <2>1. /\ Times(<<-4, 4>>, Share(z, 1, One)) = Share(z, 1, <<-4, 4>>)
        /\ Plus(Zero, Sgn(f, Share(z, 1, <<-4, 4>>))) = Sgn(f, Share(z, 1, <<-4, 4>>))
    BY SMT DEF Times, Plus, Minus, Sgn, Share, One, Zero
  <2>2. Scaled(w_hist, History(z)) = Mix(Zero, Zero, Zero, Share(z, 1, <<-4, 4>>), Zero)
    BY <1>2, <1>4, <2>1, HistoryIs, Weights, MixScaled
  <2>3. Signed(f, Mix(Zero, Zero, Zero, Share(z, 1, <<-4, 4>>), Zero)) =
           Mix(Zero, Zero, Zero, Sgn(f, Share(z, 1, <<-4, 4>>)), Zero)
    BY <1>2, MixSigned
  <2>4. dU[z][f] = Mix(Zero, Zero, One, Zero, Zero)
    BY <1>4, MixTerms DEF Plain
  <2>5. Sum2(Mix(Zero, Zero, One, Zero, Zero),
             Mix(Zero, Zero, Zero, Sgn(f, Share(z, 1, <<-4, 4>>)), Zero)) =
           Mix(Zero, Zero, One, Sgn(f, Share(z, 1, <<-4, 4>>)), Zero)
    BY <1>2, <2>1, MixSum
  <2> QED  BY <1>1, <1>4, <2>2, <2>3, <2>4, <2>5
<1> QED  BY <1>3, <1>4

LEMMA SourceAdded ==
    ASSUME stage \in 1 .. 2, ~fake, NEW z \in Zones, NEW f \in Fields, dU[z][f] = Plain,
           stage = 2 => imex_src[z] = IF z \in found[1] THEN "S1" ELSE "none"
    PROVE  WithSource(z)[f] =
              IF stage = 1 THEN Mix(Zero, One, Zero, Sgn(f, One), Zero)
              ELSE Mix(Zero, Zero, One, Sgn(f, Share(z, 1, <<-4, 4>>)), Sgn(f, <<6, -4>>))
<1>1. WithSource(z)[f] =
        Sum2(dU[z][f], Signed(f, Sum2(Scaled(w_solve, Term(source)),
                                      Scaled(w_hist, History(z)))))
  BY DEF WithSource
<1>2. /\ Zero \in Int \X Int /\ One \in Int \X Int
      /\ <<-4, 4>> \in Int \X Int /\ <<6, -4>> \in Int \X Int
      /\ Times(Zero, Zero) = Zero /\ Times(<<-4, 4>>, Zero) = Zero
      /\ Times(One, Zero) = Zero /\ Times(One, One) = One
      /\ Times(<<6, -4>>, Zero) = Zero /\ Times(<<6, -4>>, One) = <<6, -4>>
      /\ Sgn(f, Zero) = Zero
      /\ Plus(Zero, Sgn(f, One)) = Sgn(f, One)
      /\ Plus(Zero, Sgn(f, <<6, -4>>)) = Sgn(f, <<6, -4>>)
      /\ Plus(<<6, -4>>, Zero) = <<6, -4>>
      /\ Plus(Zero, One) = One /\ Plus(One, Zero) = One /\ Plus(Zero, Zero) = Zero
  BY SMT DEF Times, Plus, Minus, Sgn, One, Zero
<1>3. CASE stage = 1
  <2>1. Scaled(w_hist, History(z)) = Mix(Zero, Zero, Zero, Zero, Zero)
    BY <1>2, <1>3, HistoryIs, Weights, MixScaled
  <2>2. source = "S1"
    BY <1>3 DEF source
  <2>3. Scaled(w_solve, Term(source)) = Mix(Zero, Zero, Zero, One, Zero)
    BY <1>2, <1>3, <2>2, MixTerms, Weights, MixScaled
  <2>4. Sum2(Mix(Zero, Zero, Zero, One, Zero), Mix(Zero, Zero, Zero, Zero, Zero)) =
           Mix(Zero, Zero, Zero, One, Zero)
    BY <1>2, MixSum
  <2>5. Signed(f, Mix(Zero, Zero, Zero, One, Zero)) =
           Mix(Zero, Zero, Zero, Sgn(f, One), Zero)
    BY <1>2, MixSigned
  <2>6. dU[z][f] = Mix(Zero, One, Zero, Zero, Zero)
    BY <1>3, MixTerms DEF Plain
  <2>7. Sum2(Mix(Zero, One, Zero, Zero, Zero), Mix(Zero, Zero, Zero, Sgn(f, One), Zero)) =
           Mix(Zero, One, Zero, Sgn(f, One), Zero)
    BY <1>2, MixSum
  <2> QED  BY <1>1, <1>3, <2>1, <2>3, <2>4, <2>5, <2>6, <2>7
<1>4. CASE stage = 2
  <2>1. /\ Times(<<-4, 4>>, Share(z, 1, One)) = Share(z, 1, <<-4, 4>>)
        /\ Plus(Zero, Share(z, 1, <<-4, 4>>)) = Share(z, 1, <<-4, 4>>)
        /\ Plus(Zero, Sgn(f, Share(z, 1, <<-4, 4>>))) = Sgn(f, Share(z, 1, <<-4, 4>>))
    BY SMT DEF Times, Plus, Minus, Sgn, Share, One, Zero
  <2>2. Scaled(w_hist, History(z)) = Mix(Zero, Zero, Zero, Share(z, 1, <<-4, 4>>), Zero)
    BY <1>2, <1>4, <2>1, HistoryIs, Weights, MixScaled
  <2>3. source = "S2"
    BY <1>4 DEF source
  <2>4. Scaled(w_solve, Term(source)) = Mix(Zero, Zero, Zero, Zero, <<6, -4>>)
    BY <1>2, <1>4, <2>3, MixTerms, Weights, MixScaled
  <2>5. Sum2(Mix(Zero, Zero, Zero, Zero, <<6, -4>>),
             Mix(Zero, Zero, Zero, Share(z, 1, <<-4, 4>>), Zero)) =
           Mix(Zero, Zero, Zero, Share(z, 1, <<-4, 4>>), <<6, -4>>)
    <3>1. Sum2(Mix(Zero, Zero, Zero, Zero, <<6, -4>>),
             Mix(Zero, Zero, Zero, Share(z, 1, <<-4, 4>>), Zero)) =
           Mix(Plus(Zero, Zero),
               Plus(Zero, Zero),
               Plus(Zero, Zero),
               Plus(Zero, Share(z, 1, <<-4, 4>>)),
               Plus(<<6, -4>>, Zero))
      BY MixSum
    <3> QED  BY <3>1, <1>2, <2>1
  <2>6. Signed(f, Mix(Zero, Zero, Zero, Share(z, 1, <<-4, 4>>), <<6, -4>>)) =
           Mix(Zero, Zero, Zero, Sgn(f, Share(z, 1, <<-4, 4>>)), Sgn(f, <<6, -4>>))
    BY <1>2, MixSigned
  <2>7. dU[z][f] = Mix(Zero, Zero, One, Zero, Zero)
    BY <1>4, MixTerms DEF Plain
  <2>8. Sum2(Mix(Zero, Zero, One, Zero, Zero),
             Mix(Zero, Zero, Zero, Sgn(f, Share(z, 1, <<-4, 4>>)), Sgn(f, <<6, -4>>))) =
           Mix(Zero, Zero, One, Sgn(f, Share(z, 1, <<-4, 4>>)), Sgn(f, <<6, -4>>))
    BY <1>2, <2>1, MixSum
  <2> QED  BY <1>1, <1>4, <2>2, <2>4, <2>5, <2>6, <2>7, <2>8
<1> QED  BY <1>3, <1>4

-----------------------------------------------------------------------------
(***************************************************************************)
(* A solver's visit to pending zones keeps the invariant's contents.       *)
(***************************************************************************)
LEMMA VisitKeeps ==
    ASSUME stage \in 1 .. 2, found \in [1 .. 2 -> SUBSET Zones], imex_src \in [Zones -> Sources],
           mesh = [c \in {"base", "1"} |-> mesh[c]],
           mesh["base"] = Everywhere(Term("U")), mesh["1"] = Everywhere(Term("V")),
           NEW visited \in SUBSET Zones, NEW solved \in SUBSET visited,
           NEW failing \in SUBSET (visited \ solved),
           Solve(visited, solved, failing)
    PROVE  /\ mesh' = mesh
           /\ stage = 2 \/ fake => found'[1] = found[1]
           /\ stage = 1 \/ fake => found'[2] = found[2]
           /\ ~fake => found'[stage] = found[stage] \cup solved
           /\ stage = 2 => imex_src' = imex_src
           /\ stage = 1 /\ ~fake => \A z \in Zones :
                 imex_src'[z] = IF z \in solved THEN "S1" ELSE imex_src[z]
           /\ \A z \in Zones : /\ z \in solved => dU'[z] = WithSource(z)
                               /\ z \in failing => dU'[z] = WithHistory(z)
                               /\ z \notin solved \cup failing => dU'[z] = dU[z]
                               /\ z \in visited => star'[z] = Star(z)
                               /\ z \notin visited => star'[z] = star[z]
<1>1. mesh' = mesh
  <2>1. init \in {"base", "1"} /\ mesh[init] = [z \in Zones |-> mesh[init][z]]
    BY DEF init, Everywhere
  <2>2. mesh' = [mesh EXCEPT ![init] = [z \in Zones |-> mesh[init][z]]]
    BY DEF Solve, Restored
  <2> QED  BY <2>1, <2>2
<1>2. /\ stage = 2 \/ fake => found'[1] = found[1]
      /\ stage = 1 \/ fake => found'[2] = found[2]
      /\ ~fake => found'[stage] = found[stage] \cup solved
  BY DEF Solve
<1>3. /\ stage = 2 => imex_src' = imex_src
      /\ stage = 1 /\ ~fake => \A z \in Zones :
            imex_src'[z] = IF z \in solved THEN "S1" ELSE imex_src[z]
  BY DEF Solve, source
<1>4. \A z \in Zones : /\ z \in solved => dU'[z] = WithSource(z)
                       /\ z \in failing => dU'[z] = WithHistory(z)
                       /\ z \notin solved \cup failing => dU'[z] = dU[z]
                       /\ z \in visited => star'[z] = Star(z)
                       /\ z \notin visited => star'[z] = star[z]
  BY DEF Solve
<1> QED  BY <1>1, <1>2, <1>3, <1>4

LEMMA VisitKeepsContents ==    \* for any of the three solvers
    ASSUME ContentInv, task \in {"pmhd", "ff", "prad"}, task' \in {"ff", "prad", "solved"},
           UNCHANGED <<stage, fake, dU1>>,
           NEW visited \in SUBSET Zones, NEW solved \in SUBSET visited,
           NEW failing \in SUBSET (visited \ solved),
           Solve(visited, solved, failing),
           \A z \in visited : rimplflag[z] \in Pending,
           \A z \in Zones : rimplflag'[z] \in Pending <=>
               rimplflag[z] \in Pending /\ z \notin solved \cup failing
    PROVE  MeshInv' /\ FoundInv' /\ TendencyInv' /\ StarInv'
<1>0. /\ stage \in 1 .. 2 /\ found \in [1 .. 2 -> SUBSET Zones]
      /\ imex_src \in [Zones -> Sources]
      /\ mesh = [c \in {"base", "1"} |-> mesh[c]]
      /\ mesh["base"] = Everywhere(Term("U")) /\ mesh["1"] = Everywhere(Term("V"))
  BY DEF ContentInv, FlagInv, MeshInv, Sources
<1>1. /\ mesh' = mesh
      /\ stage = 2 \/ fake => found'[1] = found[1]
      /\ stage = 1 \/ fake => found'[2] = found[2]
      /\ ~fake => found'[stage] = found[stage] \cup solved
      /\ stage = 2 => imex_src' = imex_src
      /\ stage = 1 /\ ~fake => \A z \in Zones :
            imex_src'[z] = IF z \in solved THEN "S1" ELSE imex_src[z]
      /\ \A z \in Zones : /\ z \in solved => dU'[z] = WithSource(z)
                          /\ z \in failing => dU'[z] = WithHistory(z)
                          /\ z \notin solved \cup failing => dU'[z] = dU[z]
                          /\ z \in visited => star'[z] = Star(z)
                          /\ z \notin visited => star'[z] = star[z]
  BY <1>0, VisitKeeps
<1>2. MeshInv'
  BY <1>1 DEF ContentInv, MeshInv
<1>3. FoundInv'
  <2>1. /\ stage = 1 => found'[2] = {}
        /\ fake => found'[stage] = {}
    BY <1>0, <1>1 DEF ContentInv, FoundInv
  <2>2. stage = 2 \/ ~fake =>
           \A z \in Zones : imex_src'[z] = IF z \in found'[1] THEN "S1" ELSE "none"
    BY <1>0, <1>1 DEF ContentInv, FoundInv, Unsolved
  <2> QED  BY <2>1, <2>2 DEF FoundInv, Unsolved
<1>4. ASSUME ~fake, NEW z \in Zones, NEW f \in Fields
      PROVE  /\ dU'[z][f] = IF rimplflag'[z] \in Pending THEN Plain ELSE Total(z, f)'
             /\ z \in found'[stage] => star'[z][f] = StarOf(z, f)'
  <2>1. /\ rimplflag[z] \in Pending => z \notin found[stage]
        /\ dU[z][f] = IF rimplflag[z] \in Pending THEN Plain ELSE Total(z, f)
        /\ z \in found[stage] => star[z][f] = StarOf(z, f)
        /\ stage = 2 => imex_src[z] = IF z \in found[1] THEN "S1" ELSE "none"
        /\ stage = 2 => dU1[z][f] = First(z, f)
        /\ stage = 1 => found[2] = {}
    BY <1>4 DEF ContentInv, FoundInv, TendencyInv, StarInv, Working, Unsolved
  <2>2. stage = 2 => found'[1] = found[1]
    BY <1>1
  <2>3. CASE z \in solved
    <3>1. dU[z][f] = Plain /\ z \in found'[stage] /\ rimplflag'[z] \notin Pending
      BY <1>0, <1>1, <1>4, <2>1, <2>3
    <3>2. dU'[z][f] = WithSource(z)[f] /\ star'[z][f] = Star(z)[f]
      BY <1>1, <2>3
    <3>3. dU'[z][f] =
             IF stage = 1 THEN Mix(Zero, One, Zero, Sgn(f, One), Zero)
             ELSE Mix(Zero, Zero, One, Sgn(f, Share(z, 1, <<-4, 4>>)), Sgn(f, <<6, -4>>))
      BY <1>0, <1>4, <2>1, <3>1, <3>2, SourceAdded
    <3>4. Star(z)[f] = StarOf(z, f)
      BY <1>0, <2>1, <3>1, StarIs
    <3>5. dU'[z][f] = Total(z, f)'
      BY <1>0, <2>2, <3>1, <3>3 DEF Total, First, Second, Share
    <3>6. StarOf(z, f)' = StarOf(z, f)
      BY <1>0, <2>2 DEF StarOf, Share
    <3> QED  BY <3>1, <3>2, <3>4, <3>5, <3>6
  <2>4. CASE z \in failing
    <3>1. dU[z][f] = Plain /\ z \notin found'[stage] /\ rimplflag'[z] \notin Pending
      BY <1>0, <1>1, <1>4, <2>1, <2>4
    <3>2. dU'[z][f] = WithHistory(z)[f]
      BY <1>1, <2>4
    <3>3. dU'[z][f] =
             IF stage = 1 THEN Mix(Zero, One, Zero, Zero, Zero)
             ELSE Mix(Zero, Zero, One, Sgn(f, Share(z, 1, <<-4, 4>>)), Zero)
      BY <1>0, <2>1, <3>1, <3>2, HistoryAdded
    <3>4. Sgn(f, Zero) = Zero
      BY SMT DEF Sgn, Minus, Zero
    <3>5. dU'[z][f] = Total(z, f)'
      BY <1>0, <2>2, <3>1, <3>3, <3>4 DEF Total, First, Second, Share
    <3> QED  BY <3>1, <3>5
  <2>5. CASE z \notin solved \cup failing
    <3>1. /\ z \in found'[stage] <=> z \in found[stage]
          /\ rimplflag'[z] \in Pending <=> rimplflag[z] \in Pending
          /\ dU'[z][f] = dU[z][f]
          /\ z \in found[stage] => star'[z][f] = star[z][f]
      BY <1>0, <1>1, <1>4, <2>1, <2>5
    <3>2. Total(z, f)' = Total(z, f) /\ StarOf(z, f)' = StarOf(z, f)
      BY <1>0, <2>2, <3>1 DEF Total, First, Second, StarOf, Share
    <3> QED  BY <2>1, <3>1, <3>2
  <2> QED  BY <2>3, <2>4, <2>5
<1>5. TendencyInv'
  <2>1. Plain' = Plain
    BY DEF Plain
  <2>2. stage = 2 => \A z \in Zones, f \in Fields : dU1'[z][f] = First(z, f)'
    BY <1>1 DEF ContentInv, TendencyInv, First, Share
  <2>3. ~fake => \A z \in Zones : rimplflag'[z] \in Pending => z \notin found'[stage]
    BY <1>0, <1>1 DEF ContentInv, TendencyInv, Working
  <2> QED  BY <1>4, <2>1, <2>2, <2>3 DEF TendencyInv
<1>6. StarInv'
  <2>1. /\ Zones' = Zones
        /\ ~fake => found'[stage] \subseteq Zones
    BY <1>0, <1>1 DEF Zones
  <2> QED  BY <1>4, <2>1 DEF StarInv
<1> QED  BY <1>2, <1>3, <1>5, <1>6

\* What a zone not pending and not solved has: also one the setup passes over
LEMMA PlainIsTotal ==
    ASSUME stage \in 1 .. 2, NEW z \in Zones, NEW f \in Fields,
           z \notin found[1], z \notin found[2]
    PROVE  Plain = Total(z, f)
<1>1. Sgn(f, Zero) = Zero
  BY SMT DEF Sgn, Minus, Zero
<1>2. CASE stage = 1
  BY <1>1, <1>2, MixTerms DEF Plain, Total, First, Share
<1>3. CASE stage = 2
  BY <1>1, <1>3, MixTerms DEF Plain, Total, Second, Share
<1> QED  BY <1>2, <1>3

\* What stage 2 adds after its update
LEMMA FinalIs ==
    ASSUME stage = 2, NEW z \in Zones, NEW f \in Fields, dU1[z][f] = First(z, f)
    PROVE  Sum2(Advanced(z, f), Scaled(ars_d, dU1[z][f])) = Final(z, f)
<1>1. /\ <<0, -1>> \in Int \X Int
      /\ Times(<<0, -1>>, Zero) = Zero /\ Times(<<0, -1>>, One) = <<0, -1>>
      /\ Plus(One, Zero) = One /\ Plus(Zero, <<0, -1>>) = <<0, -1>>
      /\ Plus(<<2, 1>>, Zero) = <<2, 1>>
  BY SMT DEF Times, Plus, One, Zero
<1>2. /\ Times(<<0, -1>>, Sgn(f, Share(z, 1, One))) = Sgn(f, Share(z, 1, <<0, -1>>))
      /\ Plus(Sgn(f, Share(z, 1, Root)), Sgn(f, Share(z, 1, <<0, -1>>))) =
            Sgn(f, Share(z, 1, <<0, 1>>))
      /\ Plus(Sgn(f, Share(z, 2, <<2, -1>>)), Zero) = Sgn(f, Share(z, 2, <<2, -1>>))
  BY SMT DEF Times, Plus, Minus, Sgn, Share, Root, One, Zero
<1>3. Scaled(ars_d, First(z, f)) =
         Mix(Zero, <<0, -1>>, Zero, Sgn(f, Share(z, 1, <<0, -1>>)), Zero)
  BY <1>1, <1>2, Weights, MixScaled DEF First
<1>4. Sum2(Mix(One, Zero, <<2, 1>>, Sgn(f, Share(z, 1, Root)), Sgn(f, Share(z, 2, <<2, -1>>))),
           Mix(Zero, <<0, -1>>, Zero, Sgn(f, Share(z, 1, <<0, -1>>)), Zero)) =
         Mix(Plus(One, Zero), Plus(Zero, <<0, -1>>), Plus(<<2, 1>>, Zero),
             Plus(Sgn(f, Share(z, 1, Root)), Sgn(f, Share(z, 1, <<0, -1>>))),
             Plus(Sgn(f, Share(z, 2, <<2, -1>>)), Zero))
  BY MixSum
<1>5. Advanced(z, f) =
         Mix(One, Zero, <<2, 1>>, Sgn(f, Share(z, 1, Root)), Sgn(f, Share(z, 2, <<2, -1>>)))
  BY DEF Advanced
<1>6. Final(z, f) = Mix(One, <<0, -1>>, <<2, 1>>, Sgn(f, Share(z, 1, <<0, 1>>)),
                        Sgn(f, Share(z, 2, <<2, -1>>)))
  BY DEF Final
<1> QED  BY <1>1, <1>2, <1>3, <1>4, <1>5, <1>6

LEMMA ContentInvInit == Init => MeshInv /\ FoundInv /\ TendencyInv /\ StarInv
<1> SUFFICES ASSUME Init PROVE MeshInv /\ FoundInv /\ TendencyInv /\ StarInv
  OBVIOUS
<1>1. /\ stage = 1 /\ task = "begin" /\ fake = FALSE
      /\ mesh = [c \in {"base", "1"} |-> Everywhere(Term(IF c = "base" THEN "U" ELSE "V"))]
      /\ found = <<{}, {}>>
  BY Zenon DEF Init
<1>2. MeshInv
  BY <1>1 DEF MeshInv
<1>3. FoundInv
  BY <1>1 DEF FoundInv, Unsolved
<1>4. TendencyInv /\ StarInv
  BY <1>1 DEF TendencyInv, StarInv, Working
<1> QED  BY <1>2, <1>3, <1>4

LEMMA ContentInvStep ==
    ContentInv /\ [Next]_vars => MeshInv' /\ FoundInv' /\ TendencyInv' /\ StarInv'
<1> SUFFICES ASSUME ContentInv, [Next]_vars
             PROVE  MeshInv' /\ FoundInv' /\ TendencyInv' /\ StarInv'
  OBVIOUS
<1>0. /\ stage \in 1 .. 2 /\ found \in [1 .. 2 -> SUBSET (Zones \ Inside)]
      /\ mesh = [c \in {"base", "1"} |-> mesh[c]]
      /\ MeshInv /\ FoundInv /\ TendencyInv /\ StarInv
  BY DEF ContentInv, FlagInv, MeshInv
<1>a. ASSUME UNCHANGED <<stage, mesh, dU1, found>>
      PROVE  /\ init' = init /\ final' = final /\ Plain' = Plain
             /\ \A z, f : /\ First(z, f)' = First(z, f) /\ Total(z, f)' = Total(z, f)
                          /\ StarOf(z, f)' = StarOf(z, f)
                          /\ Advanced(z, f)' = Advanced(z, f) /\ Final(z, f)' = Final(z, f)
  BY <1>a DEF init, final, Plain, First, Second, Total, StarOf, Advanced, Final, Share
<1>b. CASE UNCHANGED vars
  <2>1. UNCHANGED <<stage, mesh, dU1, found, task, fake, dU, rimplflag, imex_src, star>>
    BY <1>b DEF vars
  <2> QED  BY <1>0, <1>a, <2>1 DEF MeshInv, FoundInv, TendencyInv, StarInv
<1>1. CASE BeginStage
  <2>1. /\ UNCHANGED <<stage, mesh, dU1, found, imex_src>>
        /\ task = "begin" /\ task' = "flux"
    BY <1>1 DEF BeginStage, At
  <2> QED  BY <1>0, <1>a, <2>1
           DEF MeshInv, FoundInv, TendencyInv, StarInv, Unsolved, Working
<1>2. CASE Tendency
  <2>1. /\ UNCHANGED <<stage, mesh, dU1, found, imex_src, fake>>
        /\ task = "flux" /\ task' = "setup" /\ dU' = Everywhere(Plain)
    BY <1>2 DEF Tendency, At, Plain
  <2> QED  BY <1>0, <1>a, <2>1
           DEF MeshInv, FoundInv, TendencyInv, StarInv, Unsolved, Working, Everywhere
<1>3. CASE Setup
  <2>1. /\ UNCHANGED <<stage, mesh, dU1, found, fake, star>>
        /\ task = "setup" /\ task' = "pmhd"
        /\ imex_src' = Cleared(imex_src)
        /\ dU' = [z \in Zones |-> IF z \in still \ Inside THEN WithHistory(z) ELSE dU[z]]
        /\ \A z \in Zones : rimplflag'[z] \in Pending <=> z \notin Inside \cup still
    BY <1>3 DEF Setup, At, Pending
  <2>2. MeshInv'
    BY <1>0, <1>a, <2>1 DEF MeshInv
  <2>3. FoundInv'
    BY <1>0, <2>1 DEF FoundInv, Unsolved, Cleared
  <2>4. found[stage] = {} /\ (stage = 1 => found[2] = {})
    BY <1>0, <2>1 DEF FoundInv, Unsolved
  <2>5. ASSUME NEW z \in Zones, NEW f \in Fields
        PROVE  dU'[z][f] = IF rimplflag'[z] \in Pending THEN Plain ELSE Total(z, f)
    <3>1. dU[z][f] = Plain
      BY <1>0, <2>1 DEF TendencyInv, Everywhere
    <3>2. CASE z \in still
      <4>1. z \notin Inside /\ rimplflag'[z] \notin Pending
        BY <2>1, <3>2 DEF ContentInv, FlagInv
      <4>2. dU'[z][f] = WithHistory(z)[f]
        BY <2>1, <3>2, <4>1
      <4>3. dU'[z][f] =
               IF stage = 1 THEN Mix(Zero, One, Zero, Zero, Zero)
               ELSE Mix(Zero, Zero, One, Sgn(f, Share(z, 1, <<-4, 4>>)), Zero)
        BY <1>0, <3>1, <4>2, HistoryAdded DEF FoundInv
      <4>4. Sgn(f, Zero) = Zero
        BY SMT DEF Sgn, Minus, Zero
      <4> QED  BY <1>0, <2>4, <4>1, <4>3, <4>4 DEF Total, First, Second, Share
    <3>3. CASE z \in Inside
      BY <1>0, <2>1, <3>1, <3>3, PlainIsTotal DEF ContentInv, FlagInv
    <3>4. CASE z \notin Inside \cup still
      BY <2>1, <3>1, <3>4
    <3> QED  BY <3>2, <3>3, <3>4
  <2>6. TendencyInv'
    BY <1>0, <1>a, <2>1, <2>4, <2>5 DEF TendencyInv
  <2>7. StarInv'
    BY <2>1, <2>4 DEF StarInv
  <2> QED  BY <2>2, <2>3, <2>6, <2>7
<1>4. CASE PMHD
  <2> DEFINE visited == {z \in Zones : rimplflag[z] \in {"pending_pmhd", "pending_pmhd_short"}}
  <2>1. PICK solved \in SUBSET visited, star_fixed \in SUBSET visited :
           /\ Solve(visited, solved, {})
           /\ rimplflag' = [z \in Zones |->
                  CASE z \in solved ->
                           IF z \in star_fixed THEN "starfix_success" ELSE "success"
                    [] z \in visited \ solved ->
                           IF z \in star_fixed THEN "pending_prad_starfix"
                           ELSE "pending_prad"
                    [] OTHER -> rimplflag[z]]
    BY <1>4 DEF PMHD
  <2>2. \A z \in visited : rimplflag[z] \in Pending
    BY DEF Pending
  <2>3. \A z \in Zones : rimplflag'[z] \in Pending <=> rimplflag[z] \in Pending /\ z \notin solved
    BY <2>1, <2>2 DEF Pending
  <2>4. task = "pmhd" /\ task' = "ff" /\ UNCHANGED <<stage, fake, dU1>>
    BY <1>4 DEF PMHD, At
  <2>5. visited \in SUBSET Zones /\ {} \in SUBSET (visited \ solved)
    OBVIOUS
  <2> HIDE DEF visited
  <2> QED  BY <2>1, <2>2, <2>3, <2>4, <2>5, VisitKeepsContents
<1>5. CASE FluidFrame
  <2>1. PICK solved \in SUBSET Todo, relaxed \in SUBSET Todo :
           /\ Solve(Todo, solved, FailedBy(Todo \ solved))
           /\ relaxed \subseteq solved
           /\ rimplflag' = [z \in Zones |->
                  CASE z \in relaxed -> "relaxed_success"
                    [] z \in solved \ relaxed -> "ufluid_success"
                    [] z \in FailedBy(Todo \ solved) -> "failure"
                    [] OTHER -> rimplflag[z]]
    BY <1>5 DEF FluidFrame
  <2>2. Todo \in SUBSET Zones /\ FailedBy(Todo \ solved) \in SUBSET (Todo \ solved)
    BY DEF Todo, FailedBy
  <2>3. \A z \in Todo : rimplflag[z] \in Pending
    BY DEF Todo, Pending
  <2>4. \A z \in Zones : rimplflag'[z] \in Pending <=>
            rimplflag[z] \in Pending /\ z \notin solved \cup FailedBy(Todo \ solved)
    BY <2>1, <2>2, <2>3 DEF Pending
  <2>5. task = "ff" /\ task' \in {"prad", "solved"} /\ UNCHANGED <<stage, fake, dU1>>
    BY <1>5 DEF FluidFrame, At
  <2> QED  BY <2>1, <2>2, <2>3, <2>4, <2>5, VisitKeepsContents
<1>6. CASE Fallback
  <2>1. PICK solved \in SUBSET Todo :
           /\ Solve(Todo, solved, Todo \ solved)
           /\ rimplflag' = [z \in Zones |->
                  CASE z \in solved -> IF rimplflag[z] = "pending_prad_starfix"
                                       THEN "starfix_success" ELSE "pradfallback_success"
                    [] z \in Todo \ solved -> "failure"
                    [] OTHER -> rimplflag[z]]
    BY <1>6 DEF Fallback
  <2>2. Todo \in SUBSET Zones /\ Todo \ solved \in SUBSET (Todo \ solved)
    BY DEF Todo
  <2>3. \A z \in Todo : rimplflag[z] \in Pending
    BY DEF Todo, Pending
  <2>4. \A z \in Zones : rimplflag'[z] \in Pending <=>
            rimplflag[z] \in Pending /\ z \notin solved \cup (Todo \ solved)
    BY <2>1, <2>3 DEF Pending
  <2>5. task = "prad" /\ task' = "solved" /\ UNCHANGED <<stage, fake, dU1>>
    BY <1>6 DEF Fallback, At
  <2> QED  BY <2>1, <2>2, <2>3, <2>4, <2>5, VisitKeepsContents
<1>7. CASE GuessUpdate
  <2>1. /\ UNCHANGED <<stage, mesh, dU1, found, imex_src>>
        /\ fake /\ task = "solved" /\ task' = "flux"
    BY <1>7 DEF GuessUpdate, At
  <2> QED  BY <1>0, <1>a, <2>1
           DEF MeshInv, FoundInv, TendencyInv, StarInv, Unsolved, Working
<1>c. ASSUME task \in {"solved", "update"}, ~fake, NEW z \in Zones, NEW f \in Fields
      PROVE  dU[z][f] = Total(z, f)
  <2>1. rimplflag[z] \notin Pending
    BY <1>c DEF ContentInv, FlagInv, PendingFor, Settled, Pending
  <2> QED  BY <1>0, <1>c, <2>1 DEF TendencyInv, Working
<1>8. CASE KeepTendency
  <2>1. /\ UNCHANGED <<stage, mesh, found, imex_src, fake, dU, star, rimplflag>>
        /\ ~fake /\ stage = 1 /\ task = "solved" /\ task' = "update" /\ dU1' = dU
    BY <1>8 DEF KeepTendency, At
  <2>2. /\ init' = init /\ final' = final /\ Plain' = Plain
        /\ \A z, f : /\ First(z, f)' = First(z, f) /\ Total(z, f)' = Total(z, f)
                     /\ StarOf(z, f)' = StarOf(z, f)
    BY <2>1 DEF init, final, Plain, First, Second, Total, StarOf, Share
  <2>3. \A z \in Zones, f \in Fields : dU1'[z][f] = First(z, f)
    BY <1>c, <2>1 DEF Total
  <2>4. MeshInv' /\ FoundInv'
    BY <1>0, <2>1, <2>2 DEF MeshInv, FoundInv, Unsolved
  <2> QED  BY <1>0, <2>1, <2>2, <2>3, <2>4 DEF TendencyInv, StarInv, Working
<1>9. CASE StateUpdate
  <2>1. /\ UNCHANGED <<stage, dU1, found, imex_src, fake, dU, star, rimplflag>>
        /\ ~fake
        /\ stage = 1 => task = "update" /\ task' = "invert"
        /\ stage = 2 => task = "solved" /\ task' = "again"
        /\ mesh' = [mesh EXCEPT ![final] =
                       [z \in Zones |-> [f \in Fields |-> Updated(z, f)]]]
    BY <1>0, <1>9 DEF StateUpdate, At
  <2>2. /\ init' = init /\ final' = final /\ Plain' = Plain
        /\ \A z, f : /\ First(z, f)' = First(z, f) /\ Total(z, f)' = Total(z, f)
                     /\ StarOf(z, f)' = StarOf(z, f)
                     /\ Advanced(z, f)' = Advanced(z, f) /\ Final(z, f)' = Final(z, f)
    BY <2>1 DEF init, final, Plain, First, Second, Total, StarOf, Advanced, Final, Share
  <2>3. mesh["base"] = Everywhere(Term("U")) /\ mesh["1"] = Everywhere(Term("V"))
    BY <1>0, <2>1 DEF MeshInv
  <2>4. \A z \in Zones, f \in Fields : Updated(z, f) = Advanced(z, f)
    BY <1>0, <1>c, <2>1, <2>3, UpdatedIs
  <2>5. /\ final \in {"base", "1"}
        /\ \A z \in Zones, f \in Fields : mesh'[final][z][f] = Advanced(z, f)
        /\ \A c \in {"base", "1"} : c # final => mesh'[c] = mesh[c]
        /\ mesh' = [c \in {"base", "1"} |-> mesh'[c]]
    BY <1>0, <2>1, <2>4 DEF final
  <2>6. MeshInv'
    <3>1. CASE stage = 1
      BY <2>1, <2>2, <2>3, <2>5, <3>1 DEF MeshInv, final, Final
    <3>2. CASE stage = 2
      BY <2>1, <2>2, <2>3, <2>5, <3>2 DEF MeshInv, final
    <3> QED  BY <1>0, <3>1, <3>2
  <2>7. FoundInv'
    BY <1>0, <2>1 DEF FoundInv, Unsolved
  <2>8. TendencyInv'
    BY <1>0, <2>1, <2>2 DEF TendencyInv, Working
  <2>9. StarInv'
    BY <1>0, <2>1, <2>2 DEF StarInv, Working
  <2> QED  BY <2>6, <2>7, <2>8, <2>9
<1>10. CASE AddTendency
  <2>1. /\ UNCHANGED <<stage, dU1, found, imex_src, fake, dU, star, rimplflag>>
        /\ task = "again" /\ task' = "invert"
        /\ mesh' = [mesh EXCEPT ![final] = [z \in Zones |-> [f \in Fields |->
                       Sum2(mesh[final][z][f], Scaled(ars_d, dU1[z][f]))]]]
    BY <1>10 DEF AddTendency, At
  <2>2. stage = 2 /\ final = "base" /\ ~fake
    BY <1>0, <2>1 DEF FoundInv, final
  <2>3. /\ init' = init /\ final' = final /\ Plain' = Plain
        /\ \A z, f : /\ First(z, f)' = First(z, f) /\ Total(z, f)' = Total(z, f)
                     /\ StarOf(z, f)' = StarOf(z, f) /\ Final(z, f)' = Final(z, f)
    BY <2>1 DEF init, final, Plain, First, Second, Total, StarOf, Advanced, Final, Share
  <2>4. ASSUME NEW z \in Zones, NEW f \in Fields
        PROVE  mesh'["base"][z][f] = Final(z, f)
    <3>1. mesh["base"][z][f] = Advanced(z, f) /\ dU1[z][f] = First(z, f)
      BY <1>0, <2>1, <2>2 DEF MeshInv, TendencyInv
    <3>2. mesh'["base"][z][f] = Sum2(mesh["base"][z][f], Scaled(ars_d, dU1[z][f]))
      BY <1>0, <2>1, <2>2
    <3> QED  BY <2>2, <3>1, <3>2, FinalIs
  <2>5. mesh' = [c \in {"base", "1"} |-> mesh'[c]] /\ mesh'["1"] = mesh["1"]
    BY <1>0, <2>1, <2>2
  <2>6. MeshInv'
    BY <1>0, <2>1, <2>2, <2>3, <2>4, <2>5 DEF MeshInv
  <2>7. FoundInv' /\ TendencyInv' /\ StarInv'
    BY <1>0, <2>1, <2>2, <2>3 DEF FoundInv, TendencyInv, StarInv, Unsolved, Working
  <2> QED  BY <2>6, <2>7
<1>11. CASE UtoP
  <2>1. /\ UNCHANGED <<stage, mesh, dU1, found, imex_src, fake>>
        /\ task = "invert" /\ task' = "fix"
    BY <1>11 DEF UtoP, At
  <2> QED  BY <1>0, <1>a, <2>1
           DEF MeshInv, FoundInv, TendencyInv, StarInv, Unsolved, Working
<1>12. CASE FinishStage
  <2>1. /\ task = "fix" /\ task' = "begin" /\ fake' = fake /\ ~fake
        /\ mesh' = [mesh EXCEPT ![final] =
                       Everywhere(Term(IF stage = 1 THEN "V" ELSE "U"))]
        /\ stage = 1 => stage' = 2 /\ UNCHANGED <<dU1, imex_src, found>>
        /\ stage = 2 => stage' = 1 /\ found' = <<{}, {}>>
    BY <1>0, <1>12 DEF FinishStage, At, FoundInv
  <2>2. Everywhere(Term("U"))' = Everywhere(Term("U"))
        /\ Everywhere(Term("V"))' = Everywhere(Term("V"))
    BY DEF Everywhere, Zones
  <2>3. MeshInv'
    <3>1. mesh' = [c \in {"base", "1"} |-> mesh'[c]]
      BY <1>0, <2>1
    <3>2. CASE stage = 1
      <4>1. mesh["base"] = Everywhere(Term("U"))
        BY <1>0, <2>1, <3>2 DEF MeshInv
      <4>2. mesh'["base"] = mesh["base"] /\ mesh'["1"] = Everywhere(Term("V"))
        BY <1>0, <2>1, <3>2 DEF final
      <4> QED  BY <2>1, <2>2, <3>1, <4>1, <4>2 DEF MeshInv
    <3>3. CASE stage = 2
      <4>1. mesh["1"] = Everywhere(Term("V"))
        BY <1>0, <2>1, <3>3 DEF MeshInv
      <4>2. mesh'["base"] = Everywhere(Term("U")) /\ mesh'["1"] = mesh["1"]
        BY <1>0, <2>1, <3>3 DEF final
      <4> QED  BY <2>1, <2>2, <3>1, <4>1, <4>2 DEF MeshInv
    <3> QED  BY <1>0, <3>2, <3>3
  <2>4. FoundInv'
    BY <1>0, <2>1 DEF FoundInv, Unsolved
  <2>5. TendencyInv'
    <3>1. CASE stage = 1
      BY <1>0, <2>1, <3>1 DEF TendencyInv, First, Share, Working
    <3>2. CASE stage = 2
      BY <2>1, <3>2 DEF TendencyInv, Working
    <3> QED  BY <1>0, <3>1, <3>2
  <2>6. StarInv'
    BY <2>1 DEF StarInv, Working
  <2> QED  BY <2>3, <2>4, <2>5, <2>6
<1>13. ASSUME NEW z \in Zones, FixRadiation(z)
       PROVE  MeshInv' /\ FoundInv' /\ TendencyInv' /\ StarInv'
  <2>1. /\ UNCHANGED <<stage, mesh, dU1, found, imex_src, fake, dU, star, rimplflag, task>>
        /\ task = "fix"
    BY <1>13 DEF FixRadiation
  <2> QED  BY <1>0, <1>a, <2>1 DEF MeshInv, FoundInv, TendencyInv, StarInv, Working
<1> QED
  BY <1>b, <1>1, <1>2, <1>3, <1>4, <1>5, <1>6, <1>7, <1>8, <1>9, <1>10, <1>11, <1>12, <1>13
  DEF Next

-----------------------------------------------------------------------------
(* The weights written out in the invariant are those of the tableau, and    *)
(* the state solved for is one source away from the final one.               *)
LEMMA TableauIs ==
    ASSUME stage \in 1 .. 2, NEW z \in Zones, NEW f \in Fields
    PROVE  Tableau(z, f) = Final(z, f)
<1> DEFINE S(i) == IF z \in found[i] THEN Signed(f, Term(IF i = 1 THEN "S1" ELSE "S2"))
                   ELSE Nothing
<1>1. Tableau(z, f) =
        IF stage = 1
        THEN Sum2(Term("U"), Sum2(Scaled(ars_g, Term("F0")), Scaled(ars_g, S(1))))
        ELSE Sum2(Sum2(Term("U"), Sum2(Scaled(ars_d, Term("F0")),
                                       Scaled(Minus(One, ars_d), Term("F1")))),
                  Sum2(Scaled(Minus(One, ars_g), S(1)), Scaled(ars_g, S(2))))
  BY DEF Tableau
<1>2. Sgn(f, Zero) = Zero
  BY SMT DEF Sgn, Minus, Zero
<1>3. S(1) = Mix(Zero, Zero, Zero, Sgn(f, Share(z, 1, One)), Zero)
  <2>1. Signed(f, Term("S1")) = Mix(Zero, Zero, Zero, Sgn(f, One), Zero)
    BY <1>2, MixTerms, MixSigned
  <2> QED  BY <1>2, <2>1, MixTerms DEF Share
<1>4. S(2) = Mix(Zero, Zero, Zero, Zero, Sgn(f, Share(z, 2, One)))
  <2>1. Signed(f, Term("S2")) = Mix(Zero, Zero, Zero, Zero, Sgn(f, One))
    BY <1>2, MixTerms, MixSigned
  <2> QED  BY <1>2, <2>1, MixTerms DEF Share
<1> HIDE DEF S
<1>5. /\ <<2, -1>> \in Int \X Int /\ <<0, -1>> \in Int \X Int
      /\ <<2, 1>> \in Int \X Int /\ <<0, 1>> \in Int \X Int
      /\ Times(<<2, -1>>, Zero) = Zero /\ Times(<<2, -1>>, One) = <<2, -1>>
      /\ Times(<<0, -1>>, Zero) = Zero /\ Times(<<0, -1>>, One) = <<0, -1>>
      /\ Times(<<2, 1>>, Zero) = Zero /\ Times(<<2, 1>>, One) = <<2, 1>>
      /\ Times(<<0, 1>>, Zero) = Zero
      /\ Plus(One, Zero) = One /\ Plus(Zero, Zero) = Zero
      /\ Plus(<<2, -1>>, Zero) = <<2, -1>> /\ Plus(Zero, <<2, -1>>) = <<2, -1>>
      /\ Plus(<<0, -1>>, Zero) = <<0, -1>> /\ Plus(Zero, <<0, -1>>) = <<0, -1>>
      /\ Plus(<<2, 1>>, Zero) = <<2, 1>> /\ Plus(Zero, <<2, 1>>) = <<2, 1>>
  BY SMT DEF Times, Plus, One, Zero
<1>6. /\ Times(<<2, -1>>, Sgn(f, Share(z, 1, One))) = Sgn(f, Share(z, 1, <<2, -1>>))
      /\ Times(<<2, -1>>, Sgn(f, Share(z, 2, One))) = Sgn(f, Share(z, 2, <<2, -1>>))
      /\ Times(<<0, 1>>, Sgn(f, Share(z, 1, One))) = Sgn(f, Share(z, 1, <<0, 1>>))
      /\ \A i \in 1 .. 2, c \in {<<2, -1>>, <<0, 1>>} :
            /\ Plus(Zero, Sgn(f, Share(z, i, c))) = Sgn(f, Share(z, i, c))
            /\ Plus(Sgn(f, Share(z, i, c)), Zero) = Sgn(f, Share(z, i, c))
  BY SMT DEF Times, Plus, Minus, Sgn, Share, One, Zero
<1>7. CASE stage = 1
  <2>1. Scaled(ars_g, Term("F0")) = Mix(Zero, <<2, -1>>, Zero, Zero, Zero)
    BY <1>5, Weights, MixTerms, MixScaled
  <2>2. Scaled(ars_g, S(1)) = Mix(Zero, Zero, Zero, Sgn(f, Share(z, 1, <<2, -1>>)), Zero)
    BY <1>3, <1>5, <1>6, Weights, MixScaled
  <2>3. Sum2(Mix(Zero, <<2, -1>>, Zero, Zero, Zero),
             Mix(Zero, Zero, Zero, Sgn(f, Share(z, 1, <<2, -1>>)), Zero)) =
           Mix(Plus(Zero, Zero), Plus(<<2, -1>>, Zero), Plus(Zero, Zero),
               Plus(Zero, Sgn(f, Share(z, 1, <<2, -1>>))), Plus(Zero, Zero))
    BY MixSum
  <2>4. Sum2(Mix(One, Zero, Zero, Zero, Zero),
             Mix(Zero, <<2, -1>>, Zero, Sgn(f, Share(z, 1, <<2, -1>>)), Zero)) =
           Mix(Plus(One, Zero), Plus(Zero, <<2, -1>>), Plus(Zero, Zero),
               Plus(Zero, Sgn(f, Share(z, 1, <<2, -1>>))), Plus(Zero, Zero))
    BY MixSum
  <2>5. Final(z, f) = Mix(One, <<2, -1>>, Zero, Sgn(f, Share(z, 1, <<2, -1>>)), Zero)
    BY <1>7 DEF Final, Advanced
  <2> QED  BY <1>1, <1>5, <1>6, <1>7, <2>1, <2>2, <2>3, <2>4, <2>5, MixTerms
<1>8. CASE stage = 2
  <2>1. /\ Scaled(ars_d, Term("F0")) = Mix(Zero, <<0, -1>>, Zero, Zero, Zero)
        /\ Scaled(Minus(One, ars_d), Term("F1")) = Mix(Zero, Zero, <<2, 1>>, Zero, Zero)
    BY <1>5, Weights, MixTerms, MixScaled
  <2>2. Scaled(Minus(One, ars_g), S(1)) =
           Mix(Zero, Zero, Zero, Sgn(f, Share(z, 1, <<0, 1>>)), Zero)
    BY <1>3, <1>5, <1>6, Weights, MixScaled
  <2>3. Scaled(ars_g, S(2)) = Mix(Zero, Zero, Zero, Zero, Sgn(f, Share(z, 2, <<2, -1>>)))
    BY <1>4, <1>5, <1>6, Weights, MixScaled
  <2>4. Sum2(Mix(Zero, <<0, -1>>, Zero, Zero, Zero), Mix(Zero, Zero, <<2, 1>>, Zero, Zero)) =
           Mix(Plus(Zero, Zero), Plus(<<0, -1>>, Zero), Plus(Zero, <<2, 1>>),
               Plus(Zero, Zero), Plus(Zero, Zero))
    BY MixSum
  <2>5. Sum2(Mix(One, Zero, Zero, Zero, Zero), Mix(Zero, <<0, -1>>, <<2, 1>>, Zero, Zero)) =
           Mix(Plus(One, Zero), Plus(Zero, <<0, -1>>), Plus(Zero, <<2, 1>>),
               Plus(Zero, Zero), Plus(Zero, Zero))
    BY MixSum
  <2>6. Sum2(Mix(Zero, Zero, Zero, Sgn(f, Share(z, 1, <<0, 1>>)), Zero),
             Mix(Zero, Zero, Zero, Zero, Sgn(f, Share(z, 2, <<2, -1>>)))) =
           Mix(Plus(Zero, Zero), Plus(Zero, Zero), Plus(Zero, Zero),
               Plus(Sgn(f, Share(z, 1, <<0, 1>>)), Zero),
               Plus(Zero, Sgn(f, Share(z, 2, <<2, -1>>))))
    BY MixSum
  <2>7. Sum2(Mix(One, <<0, -1>>, <<2, 1>>, Zero, Zero),
             Mix(Zero, Zero, Zero, Sgn(f, Share(z, 1, <<0, 1>>)),
                 Sgn(f, Share(z, 2, <<2, -1>>)))) =
           Mix(Plus(One, Zero), Plus(<<0, -1>>, Zero), Plus(<<2, 1>>, Zero),
               Plus(Zero, Sgn(f, Share(z, 1, <<0, 1>>))),
               Plus(Zero, Sgn(f, Share(z, 2, <<2, -1>>))))
    BY MixSum
  <2>8. Final(z, f) = Mix(One, <<0, -1>>, <<2, 1>>, Sgn(f, Share(z, 1, <<0, 1>>)),
                          Sgn(f, Share(z, 2, <<2, -1>>)))
    BY <1>8 DEF Final
  <2>9. /\ Plus(Sgn(f, Share(z, 1, <<0, 1>>)), Zero) = Sgn(f, Share(z, 1, <<0, 1>>))
        /\ Plus(Zero, Sgn(f, Share(z, 1, <<0, 1>>))) = Sgn(f, Share(z, 1, <<0, 1>>))
        /\ Plus(Zero, Sgn(f, Share(z, 2, <<2, -1>>))) = Sgn(f, Share(z, 2, <<2, -1>>))
    BY <1>6
  <2>10. Sum2(Term("U"), Sum2(Scaled(ars_d, Term("F0")), Scaled(Minus(One, ars_d), Term("F1"))))
           = Mix(One, <<0, -1>>, <<2, 1>>, Zero, Zero)
    BY <1>5, <2>1, <2>4, <2>5, MixTerms
  <2>11. Sum2(Scaled(Minus(One, ars_g), S(1)), Scaled(ars_g, S(2))) =
            Mix(Zero, Zero, Zero, Sgn(f, Share(z, 1, <<0, 1>>)), Sgn(f, Share(z, 2, <<2, -1>>)))
    BY <1>5, <2>2, <2>3, <2>6, <2>9
  <2>12. Tableau(z, f) = Mix(One, <<0, -1>>, <<2, 1>>, Sgn(f, Share(z, 1, <<0, 1>>)),
                             Sgn(f, Share(z, 2, <<2, -1>>)))
    BY <1>1, <1>5, <1>8, <2>7, <2>9, <2>10, <2>11
  <2> QED  BY <2>8, <2>12
<1> QED  BY <1>7, <1>8

LEMMA StarLeadsToFinal ==
    ASSUME stage \in 1 .. 2, ~fake, NEW z \in found[stage], NEW f \in Fields
    PROVE  Final(z, f) = Sum2(StarOf(z, f), Signed(f, Scaled(ars_g, Term(source))))
<1>1. /\ <<2, -1>> \in Int \X Int
      /\ Times(<<2, -1>>, Zero) = Zero /\ Times(<<2, -1>>, One) = <<2, -1>>
      /\ Sgn(f, Zero) = Zero
      /\ Plus(One, Zero) = One /\ Plus(Zero, Zero) = Zero
      /\ Plus(<<2, -1>>, Zero) = <<2, -1>> /\ Plus(<<0, -1>>, Zero) = <<0, -1>>
      /\ Plus(<<2, 1>>, Zero) = <<2, 1>>
      /\ Plus(Zero, Sgn(f, <<2, -1>>)) = Sgn(f, <<2, -1>>)
      /\ Plus(Sgn(f, Share(z, 1, <<0, 1>>)), Zero) = Sgn(f, Share(z, 1, <<0, 1>>))
  BY SMT DEF Times, Plus, Minus, Sgn, Share, One, Zero
<1>2. CASE stage = 1
  <2>1. Scaled(ars_g, Term(source)) = Mix(Zero, Zero, Zero, <<2, -1>>, Zero)
    BY <1>1, <1>2, Weights, MixTerms, MixScaled DEF source
  <2>2. Signed(f, Mix(Zero, Zero, Zero, <<2, -1>>, Zero)) =
           Mix(Zero, Zero, Zero, Sgn(f, <<2, -1>>), Zero)
    BY <1>1, MixSigned
  <2>3. Sum2(Mix(One, <<2, -1>>, Zero, Zero, Zero),
             Mix(Zero, Zero, Zero, Sgn(f, <<2, -1>>), Zero)) =
           Mix(Plus(One, Zero), Plus(<<2, -1>>, Zero), Plus(Zero, Zero),
               Plus(Zero, Sgn(f, <<2, -1>>)), Plus(Zero, Zero))
    BY MixSum
  <2>4. StarOf(z, f) = Mix(One, <<2, -1>>, Zero, Zero, Zero)
    BY <1>2 DEF StarOf
  <2>5. Final(z, f) = Mix(One, <<2, -1>>, Zero, Sgn(f, <<2, -1>>), Zero)
    BY <1>2 DEF Final, Advanced, Share
  <2> QED  BY <1>1, <2>1, <2>2, <2>3, <2>4, <2>5
<1>3. CASE stage = 2
  <2>1. Scaled(ars_g, Term(source)) = Mix(Zero, Zero, Zero, Zero, <<2, -1>>)
    BY <1>1, <1>3, Weights, MixTerms, MixScaled DEF source
  <2>2. Signed(f, Mix(Zero, Zero, Zero, Zero, <<2, -1>>)) =
           Mix(Zero, Zero, Zero, Zero, Sgn(f, <<2, -1>>))
    BY <1>1, MixSigned
  <2>3. Sum2(Mix(One, <<0, -1>>, <<2, 1>>, Sgn(f, Share(z, 1, <<0, 1>>)), Zero),
             Mix(Zero, Zero, Zero, Zero, Sgn(f, <<2, -1>>))) =
           Mix(Plus(One, Zero), Plus(<<0, -1>>, Zero), Plus(<<2, 1>>, Zero),
               Plus(Sgn(f, Share(z, 1, <<0, 1>>)), Zero), Plus(Zero, Sgn(f, <<2, -1>>)))
    BY MixSum
  <2>4. StarOf(z, f) = Mix(One, <<0, -1>>, <<2, 1>>, Sgn(f, Share(z, 1, <<0, 1>>)), Zero)
    BY <1>3 DEF StarOf
  <2>5. Final(z, f) = Mix(One, <<0, -1>>, <<2, 1>>, Sgn(f, Share(z, 1, <<0, 1>>)),
                          Sgn(f, <<2, -1>>))
    <3>1. Share(z, 2, <<2, -1>>) = <<2, -1>>
      BY <1>3 DEF Share
    <3> QED  BY <1>3, <3>1 DEF Final
  <2> QED  BY <1>1, <2>1, <2>2, <2>3, <2>4, <2>5
<1> QED  BY <1>2, <1>3

LEMMA ContentInvHolds == Spec => []ContentInv
<1>1. Init => ContentInv
  BY FlagInvInit, ContentInvInit DEF ContentInv
<1>2. ContentInv /\ [Next]_vars => ContentInv'
  <2> SUFFICES ASSUME ContentInv, [Next]_vars PROVE ContentInv'
    OBVIOUS
  <2>1. FlagInv'
    BY FlagInvStep DEF ContentInv
  <2>2. MeshInv' /\ FoundInv' /\ TendencyInv' /\ StarInv'
    BY ContentInvStep
  <2> QED  BY <2>1, <2>2 DEF ContentInv
<1> QED  BY <1>1, <1>2, PTL DEF Spec

(* For any row of zones, any outcome of each solver in each of them, and     *)
(* with or without the guess of the first-order corrections, both stages     *)
(* come to the weights of ARS(2,2,2): what the code's w_solve, w_hist and    *)
(* the two updates put together is the tableau.                              *)
THEOREM WeightsAreTheTableau == Spec => []SecondOrder
<1>1. ContentInv => SecondOrder
  <2> SUFFICES ASSUME ContentInv, task = "invert", NEW z \in Zones, NEW f \in Fields
               PROVE  mesh[final][z][f] = Tableau(z, f)
    BY DEF SecondOrder
  <2>1. stage \in 1 .. 2 /\ mesh[final][z][f] = Final(z, f)
    BY DEF ContentInv, FlagInv, MeshInv
  <2> QED  BY <2>1, TableauIs
<1> QED  BY <1>1, ContentInvHolds, PTL

(* In any zone a solver was done with, the state it worked from and its      *)
(* source are what the update makes of that zone.                            *)
THEOREM SolversServeTheUpdate == Spec => []SolvedForItsUpdate
<1>1. ContentInv => SolvedForItsUpdate
  <2> SUFFICES ASSUME ContentInv, task = "invert", NEW z \in found[stage], NEW f \in Fields
               PROVE  mesh[final][z][f] =
                        Sum2(star[z][f], Signed(f, Scaled(ars_g, Term(source))))
    BY DEF SolvedForItsUpdate
  <2>1. stage \in 1 .. 2 /\ z \in Zones /\ ~fake
    BY DEF ContentInv, FlagInv, FoundInv
  <2>2. mesh[final][z][f] = Final(z, f) /\ star[z][f] = StarOf(z, f)
    BY <2>1 DEF ContentInv, MeshInv, StarInv
  <2> QED  BY <2>1, <2>2, StarLeadsToFinal
<1> QED  BY <1>1, ContentInvHolds, PTL
=============================================================================
