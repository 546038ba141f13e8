------------------------ MODULE FirstOrderFluxes_proofs ------------------------
(* Two blocks correct the flux between them alike, and needy zones draw what *)
(* they are owed, for any mesh, any inputs and any order of the tasks; and   *)
(* the fluxes of a row are sound, for any row and any scheme (FaceStates).   *)
EXTENDS FirstOrderFluxes, FaceStates, TLAPS, WellFoundedInduction

(* The flags the last sub-step's floors left for this one, those and the     *)
(* ones of reconstructed states, and the zones a block will mark.            *)
KeptFlags == IF (stage - 1) % SubSteps = 0 THEN {} ELSE history[stage - 1].floored
Held == KeptFlags \cup now.states
Predicted == now.fail \cup Held \cup now.hits \cup 1 .. deck.inside

(* The zones on both sides of a block's faces. *)
Near(b) == Within(b, 1)

(* What a task waited for stays done. *)
ClosedInv(b) == \A t \in done[b] : Needs(t) \subseteq done[b]

(* While tasks were in order: what a block's flags and its guess are in the  *)
(* zones next to its faces, after each task, and which fluxes it replaces.   *)
FlagInv(b) ==
    /\ "mark" \in done[b] => "determine" \in done[b]
    /\ \A z \in Near(b) :
        /\ "fluxes" \notin done[b] => (z \in fflag[b] <=> z \in KeptFlags)
        /\ "fluxes" \in done[b] /\ "determine" \notin done[b] =>
              (z \in fflag[b] <=> z \in Held)
        /\ "determine" \in done[b] /\ "clear" \notin done[b] =>
              (z \in fflag[b] <=> z \in Held \cup now.hits)
        /\ "clear" \in done[b] => z \notin fflag[b]
        /\ "update guess" \in done[b] => z \in cons[b]
        /\ "invert" \in done[b] /\ "replace" \notin done[b] => z \in prims[b]
        /\ "invert" \in done[b] /\ "clear" \notin done[b] =>
              (z \in pflag[b] <=> z \in now.fail)
        /\ "mark" \in done[b] /\ "replace" \notin done[b] =>
              (z \in fofcflag[b] <=> z \in Predicted)
    /\ "replace" \in done[b] => \A f \in CalculatedFaces(b) : {f - 1, f} \subseteq Near(b) =>
          (f \in lowered[b] <=> {f - 1, f} \cap Predicted # {})

NothingStolen(b) == stolen[b] = [f \in CalculatedFaces(b) |-> 0]

(* Meshes whose blocks predict alike: the driver floors ghosts too, and      *)
(* energy is not drawn across a cut.                                         *)
PredictAlike ==
    \A c \in Scenarios : c.deck.blocks = 1 \/ (c.deck.driver = "kharma" /\ ~c.deck.pcp)

Settled == TypeOK /\ \A b \in Blocks : ClosedInv(b)

AgreeInv ==
    /\ Settled
    /\ deck.driver = "kharma" /\ ~deck.pcp =>
          \A b \in Blocks : NothingStolen(b) /\ (inOrder => FlagInv(b))

(* A needy zone draws its share per weight times all the weight there is. *)
PaidInv(b) ==
    deck.pcp /\ Corrected(b) => \A z \in Interior(b) :
        Needy(b, z) => stolen[b][z] - stolen[b][z + 1] =
            IF SumOfWeights(z) > 0 THEN SumOfWeights(z) * (Unit \div SumOfWeights(z)) ELSE 0

NeedyInv == Settled /\ (~deck.spherical => \A b \in Blocks : PaidInv(b))

(* Nothing is lost in dividing what a zone is owed. *)
UnitDivides ==
    \A z \in 1 .. Columns : SumOfWeights(z) > 0 => Unit % SumOfWeights(z) = 0

-----------------------------------------------------------------------------
(* What each task waits for. *)
LEMMA NeedsAre ==
    /\ Needs("fluxes") = {}
    /\ Needs("update guess") = {"fluxes"}
    /\ Needs("send") = {"update guess"}
    /\ Needs("set") = {"send"}
    /\ Needs("invert") = {"update guess"}
    /\ Needs("determine") = {"invert"} /\ Needs("mark") = {"invert"}
    /\ Needs("clear") = {"mark"} /\ Needs("replace") = {"mark"}
    /\ Needs("revise") = {"replace"}
BY DEF Needs

LEMMA ChainOf ==
    ASSUME NEW b \in Blocks, ClosedInv(b)
    PROVE  /\ "update guess" \in done[b] => "fluxes" \in done[b]
           /\ "invert" \in done[b] => "update guess" \in done[b]
           /\ "determine" \in done[b] => "invert" \in done[b]
           /\ "mark" \in done[b] => "invert" \in done[b]
           /\ "clear" \in done[b] => "mark" \in done[b]
           /\ "replace" \in done[b] => "mark" \in done[b]
           /\ "revise" \in done[b] => "replace" \in done[b]
BY NeedsAre DEF ClosedInv

(* The tasks done stay closed under what they wait for. *)
LEMMA ClosedKept ==
    ASSUME TypeOK, NEW b \in Blocks, ClosedInv(b), NEW c \in Blocks, NEW t,
           Due(c, t), Done(c, t)
    PROVE  /\ ClosedInv(b)'
           /\ done'[c] = done[c] \cup {t} /\ t \notin done[c]
           /\ b # c => done'[b] = done[b]
           /\ deck' = deck => done' \in [Blocks -> SUBSET Tasks]'
<1>1. /\ done' = [done EXCEPT ![c] = @ \cup {t}]
      /\ t \in Tasks \ done[c] /\ Needs(t) \subseteq done[c]
    BY DEF Due, Done
<1>2. done'[c] = done[c] \cup {t} /\ (b # c => done'[b] = done[b])
    BY <1>1 DEF TypeOK
<1>3. ClosedInv(b)'
    <2>1. \A s : Needs(s)' = Needs(s)
        BY DEF Needs
    <2> QED BY <1>1, <1>2, <2>1 DEF ClosedInv
<1>4. deck' = deck => done' \in [Blocks -> SUBSET Tasks]'
    <2> SUFFICES ASSUME deck' = deck PROVE done' \in [Blocks -> SUBSET Tasks]'
        OBVIOUS
    <2>1. Tasks' = Tasks /\ Blocks' = Blocks
        BY DEF Tasks, Blocks
    <2> QED BY <1>1, <2>1 DEF TypeOK
<1> QED BY <1>1, <1>2, <1>3, <1>4

(* Columns of the mesh. *)
LEMMA ColumnsCounted ==
    ASSUME TypeOK, NEW b \in Blocks
    PROVE  /\ b \in Int /\ FirstColumn(b) \in Int /\ LastColumn(b) = FirstColumn(b) + N - 1
           /\ FirstColumn(b) >= 1 /\ LastColumn(b) <= Columns /\ Columns \in Int
           /\ FirstColumn(b + 1) = LastColumn(b) + 1
           /\ N \in Int /\ N >= 1
<1>1. deck.blocks \in Nat \ {0} /\ N \in Int /\ N >= 1
    BY CorrectionAssumption DEF TypeOK
<1>2. b \in Int /\ b >= 1 /\ b <= deck.blocks
    BY <1>1 DEF Blocks
<1>3. FirstColumn(b) >= 1
    <2>1. (b - 1) * N >= 0
        BY <1>1, <1>2, SMTT(30)
    <2> QED BY <2>1, <1>1, <1>2 DEF FirstColumn
<1>4. LastColumn(b) <= Columns
    <2>1. (deck.blocks - b) * N >= 0
        BY <1>1, <1>2, SMTT(30)
    <2> QED BY <2>1, <1>1, <1>2, SMTT(30) DEF LastColumn, Columns
<1>5. /\ FirstColumn(b) \in Int /\ LastColumn(b) = FirstColumn(b) + N - 1
      /\ FirstColumn(b + 1) = LastColumn(b) + 1 /\ Columns \in Int
    BY <1>1, <1>2, SMTT(30) DEF FirstColumn, LastColumn, Columns
<1> QED BY <1>1, <1>2, <1>3, <1>4, <1>5

LEMMA InteriorStored ==
    ASSUME TypeOK, NEW b \in Blocks
    PROVE  /\ Interior(b) \subseteq Stored(b) /\ Interior(b) \subseteq 1 .. Columns
           /\ \A z \in Interior(b) : z \in Int /\ {z, z + 1} \subseteq CalculatedFaces(b)
<1>1. Ghosts \in Int /\ Ghosts >= 1 /\ FluxHalo \in Int /\ FluxHalo >= 0
    BY CorrectionAssumption
<1> QED BY <1>1, ColumnsCounted DEF Interior, Stored, Within, CalculatedFaces

(* The fluxes beyond a block are enough for the guess in the zones next to it. *)
LEMMA NearInside ==
    ASSUME TypeOK, NEW b \in Blocks, FluxHalo >= 1, GuessHalo >= 1, NEW z \in Near(b)
    PROVE  /\ z \in Stored(b) /\ z \in Within(b, GuessHalo) /\ z \in Int
           /\ {z, z + 1} \subseteq CalculatedFaces(b)
<1>1. /\ Ghosts \in Int /\ Ghosts >= 1 /\ FluxHalo \in Int /\ FluxHalo >= 1
      /\ GuessHalo \in Int /\ GuessHalo >= 1
    BY CorrectionAssumption
<1>2. z \in Int /\ z >= FirstColumn(b) - 1 /\ z <= LastColumn(b) + 1 /\ z \in 1 .. Columns
    BY ColumnsCounted DEF Near, Within
<1> QED BY <1>1, <1>2, ColumnsCounted DEF Stored, Within, CalculatedFaces

(* Both zones of a face shared by two blocks are near to both. *)
LEMMA FaceBetween ==
    ASSUME TypeOK, NEW b \in Blocks, b + 1 \in Blocks, FluxHalo >= 1
    PROVE  LET f == FirstColumn(b + 1)
           IN  /\ {f - 1, f} \subseteq Near(b) /\ {f - 1, f} \subseteq Near(b + 1)
               /\ f \in CalculatedFaces(b) /\ f \in CalculatedFaces(b + 1)
<1> DEFINE f == FirstColumn(b + 1)
<1>1. /\ f = LastColumn(b) + 1 /\ LastColumn(b) = FirstColumn(b) + N - 1
      /\ FirstColumn(b) \in Int /\ FirstColumn(b) >= 1 /\ N \in Int /\ N >= 1
    BY ColumnsCounted
<1>2. LastColumn(b + 1) = f + N - 1 /\ LastColumn(b + 1) <= Columns /\ Columns \in Int
    BY ColumnsCounted
<1>3. FluxHalo \in Int
    BY CorrectionAssumption
<1> HIDE DEF f
<1>4. f \in CalculatedFaces(b)
    BY <1>1, <1>2, <1>3 DEF CalculatedFaces
<1>5. f \in CalculatedFaces(b + 1)
    BY <1>1, <1>2, <1>3 DEF CalculatedFaces, f
<1>6. {f - 1, f} \subseteq Near(b)
    BY <1>1, <1>2 DEF Near, Within
<1>7. {f - 1, f} \subseteq Near(b + 1)
    BY <1>1, <1>2 DEF Near, Within, f
<1> QED BY <1>4, <1>5, <1>6, <1>7 DEF f

-----------------------------------------------------------------------------
(* Energies are of zones of the mesh; weights and shares are numbers. *)
LEMMA WeightsCount ==
    ASSUME TypeOK
    PROVE  /\ \A z, y \in Int : Weight(z, y) \in Int /\ Weight(z, y) >= 0
           /\ \A z \in Int : SumOfWeights(z) \in Int /\ SumOfWeights(z) >= 0
           /\ \A z \in Int : Energy(z) < EnergyFloor(z) => Weight(z, z) = 0
           /\ ~deck.spherical => \A z, y, x \in Int : Weight(z, y) = Weight(z, x)
<1>1. \A z \in Int : Energy(z) \in Int
    <2>1. PICK c \in Scenarios : deck = c.deck /\ history = c.history
        BY DEF TypeOK
    <2>2. now.u \in [1 .. deck.blocks * N -> Int]
        BY <2>1, CorrectionAssumption DEF TypeOK, now
    <2>3. Columns \in Int /\ Columns >= 1 /\ Columns = deck.blocks * N
        BY <2>1, CorrectionAssumption, SMTT(30) DEF Columns
    <2> QED BY <2>2, <2>3 DEF Energy
<1>2. \A z \in Int : EnergyFloor(z) \in Int /\ (~deck.spherical => EnergyFloor(z) = 1)
    <2>1. deck.blocks \in Nat /\ N \in Nat
        BY CorrectionAssumption DEF TypeOK
    <2>2. Columns \in Int
        BY <2>1, SMTT(30) DEF Columns
    <2> QED BY <2>2 DEF EnergyFloor
<1>3. \A e \in Int : e * e \in Int /\ (e > 0 => e * e >= 0)
    BY SMTT(30)
<1>4. \A z, y \in Int :
        /\ Energy(z) - EnergyFloor(y) \in Int
        /\ Weight(z, y) = IF Energy(z) - EnergyFloor(y) > 0
              THEN (Energy(z) - EnergyFloor(y)) * (Energy(z) - EnergyFloor(y)) ELSE 0
    BY <1>1, <1>2 DEF Weight
<1>5. \A z, y \in Int : Weight(z, y) \in Int /\ Weight(z, y) >= 0
    <2> SUFFICES ASSUME NEW z \in Int, NEW y \in Int
        PROVE  Weight(z, y) \in Int /\ Weight(z, y) >= 0
        OBVIOUS
    <2>1. PICK e \in Int : e = Energy(z) - EnergyFloor(y)
        BY <1>4
    <2>2. Weight(z, y) = IF e > 0 THEN e * e ELSE 0
        BY <1>4, <2>1
    <2> QED BY <2>2, <1>3
<1>6. ASSUME NEW z \in Int PROVE SumOfWeights(z) \in Int /\ SumOfWeights(z) >= 0
    <2>1. z - 1 \in Int /\ z + 1 \in Int
        OBVIOUS
    <2>2. Weight(z + 1, z) \in Int /\ Weight(z + 1, z) >= 0
        BY <1>5, <2>1
    <2>3. Weight(z - 1, z) \in Int /\ Weight(z - 1, z) >= 0
        BY <1>5, <2>1
    <2> QED BY <2>2, <2>3 DEF SumOfWeights
<1>7. \A z \in Int : Energy(z) < EnergyFloor(z) => Weight(z, z) = 0
    BY <1>1, <1>2, <1>4
<1>8. ~deck.spherical => \A z, y, x \in Int : Weight(z, y) = Weight(z, x)
    BY <1>2, <1>4
<1> QED BY <1>5, <1>6, <1>7, <1>8

-----------------------------------------------------------------------------
(* Parameters and shape. *)
LEMMA SameMesh ==
    ASSUME deck' = deck
    PROVE  /\ Blocks' = Blocks /\ Columns' = Columns /\ Tasks' = Tasks
           /\ \A b : /\ Stored(b)' = Stored(b) /\ Interior(b)' = Interior(b)
                     /\ Near(b)' = Near(b) /\ CalculatedFaces(b)' = CalculatedFaces(b)
                     /\ FirstColumn(b)' = FirstColumn(b)
BY DEF Blocks, Columns, Tasks, Stored, Interior, Near, Within, CalculatedFaces, FirstColumn,
    LastColumn

LEMMA InitTyped == Init => TypeOK
<1> SUFFICES ASSUME Init PROVE TypeOK
    OBVIOUS
<1>1. stage \in DOMAIN history
    BY CorrectionAssumption DEF Init
<1>2. \A b \in Blocks : /\ alpha[b] \in [Interior(b) -> Int]
                        /\ stolen[b] \in [CalculatedFaces(b) -> Int]
    BY DEF Init
<1> QED BY <1>1, <1>2 DEF Init, TypeOK

LEMMA ExchangeStored ==
    \A b, zones, bufs : Exchanged(b, zones, bufs) \subseteq Stored(b)
BY DEF Exchanged

LEMMA NewAlphaTyped ==
    ASSUME TypeOK, NEW b \in Blocks
    PROVE  NewAlpha(b) \in [Interior(b) -> Int]
<1>1. \A z \in Interior(b) : alpha[b][z] \in Int /\ z \in Int
    BY InteriorStored DEF TypeOK
<1>2. \A s \in Int : s > 0 => Unit \div s \in Int
    BY CorrectionAssumption
<1>3. \A z \in Interior(b) : SumOfWeights(z) \in Int
    BY <1>1, WeightsCount
<1> QED BY <1>1, <1>2, <1>3 DEF NewAlpha

LEMMA RevisionTyped ==
    ASSUME TypeOK, NEW b \in Blocks, NEW a \in [Interior(b) -> Int], NEW f \in CalculatedFaces(b)
    PROVE  Revision(f, a) \in Int
<1> DEFINE Draws(z) == IF z \in DOMAIN a THEN a[z] ELSE 0
<1>1. f \in Int /\ f - 1 \in Int
    BY ColumnsCounted DEF CalculatedFaces
<1>2. Draws(f) \in Int /\ Draws(f - 1) \in Int
    OBVIOUS
<1>3. Weight(f - 1, f) \in Int /\ Weight(f, f) \in Int
    BY <1>1, WeightsCount
<1>4. Revision(f, a) = Weight(f - 1, f) * Draws(f) - Weight(f, f) * Draws(f - 1)
    BY DEF Revision
<1> HIDE DEF Draws
<1> QED BY <1>2, <1>3, <1>4, SMTT(30)

(* The parts of the type that a step may change. *)
LEMMA TypedIf ==
    ASSUME TypeOK, deck' = deck, history' = history, stage' \in DOMAIN history,
           inOrder' \in BOOLEAN, done' \in [Blocks -> SUBSET Tasks],
           DOMAIN cons' = Blocks, DOMAIN prims' = Blocks, DOMAIN pflag' = Blocks,
           DOMAIN fflag' = Blocks, DOMAIN fofcflag' = Blocks, DOMAIN sent' = Blocks,
           DOMAIN lowered' = Blocks, DOMAIN alpha' = Blocks, DOMAIN stolen' = Blocks,
           \A b \in Blocks :
               /\ cons'[b] \subseteq Stored(b) /\ prims'[b] \subseteq Stored(b)
               /\ pflag'[b] \subseteq Stored(b) /\ fflag'[b] \subseteq Stored(b)
               /\ fofcflag'[b] \subseteq Stored(b) /\ lowered'[b] \subseteq CalculatedFaces(b)
               /\ alpha'[b] \in [Interior(b) -> Int] /\ stolen'[b] \in [CalculatedFaces(b) -> Int]
    PROVE  TypeOK'
BY SameMesh DEF TypeOK

LEMMA NextTyped == TypeOK /\ [Next]_vars => TypeOK'
<1> SUFFICES ASSUME TypeOK, [Next]_vars PROVE TypeOK'
    OBVIOUS
<1>1. ASSUME NEW c \in Blocks, NEW t, Due(c, t), Done(c, t)
      PROVE  done' \in [Blocks -> SUBSET Tasks]
    BY <1>1 DEF Due, Done, TypeOK
<1>2. ASSUME NEW c \in Blocks, GetFlux(c) PROVE TypeOK'
    BY <1>1, <1>2, TypedIf DEF GetFlux, TypeOK
<1>3. ASSUME NEW c \in Blocks, UpdateGuess(c) PROVE TypeOK'
    BY <1>1, <1>3, TypedIf DEF UpdateGuess, TypeOK
<1>4. ASSUME NEW c \in Blocks, SendGuess(c) PROVE TypeOK'
    BY <1>1, <1>4, TypedIf DEF SendGuess, TypeOK
<1>5. ASSUME NEW c \in Blocks, SetGuess(c) PROVE TypeOK'
    BY <1>1, <1>5, TypedIf, ExchangeStored DEF SetGuess, TypeOK
<1>6. ASSUME NEW c \in Blocks, InvertGuess(c) PROVE TypeOK'
    BY <1>1, <1>6, TypedIf DEF InvertGuess, TypeOK
<1>7. ASSUME NEW c \in Blocks, DetermineFloors(c) PROVE TypeOK'
    BY <1>1, <1>7, TypedIf DEF DetermineFloors, TypeOK
<1>8. ASSUME NEW c \in Blocks, MarkFOFC(c) PROVE TypeOK'
    BY <1>1, <1>8, TypedIf DEF MarkFOFC, TypeOK
<1>9. ASSUME NEW c \in Blocks, ClearFlags(c) PROVE TypeOK'
    BY <1>1, <1>9, TypedIf DEF ClearFlags, TypeOK
<1>10. ASSUME NEW c \in Blocks, FOFC(c) PROVE TypeOK'
    BY <1>1, <1>10, TypedIf DEF FOFC, TypeOK
<1>11. ASSUME NEW c \in Blocks, FOFC_PCP(c) PROVE TypeOK'
    <2>1. \A b \in Blocks : alpha'[b] \in [Interior(b) -> Int]
        BY <1>11, NewAlphaTyped DEF FOFC_PCP, TypeOK
    <2>2. \A b \in Blocks : stolen'[b] \in [CalculatedFaces(b) -> Int]
        BY <1>11, NewAlphaTyped, RevisionTyped DEF FOFC_PCP, TypeOK
    <2>3. /\ DOMAIN cons' = Blocks /\ DOMAIN prims' = Blocks /\ DOMAIN pflag' = Blocks
          /\ DOMAIN fflag' = Blocks /\ DOMAIN fofcflag' = Blocks /\ DOMAIN sent' = Blocks
          /\ DOMAIN lowered' = Blocks /\ DOMAIN alpha' = Blocks /\ DOMAIN stolen' = Blocks
        BY <1>11 DEF FOFC_PCP, TypeOK
    <2>4. \A b \in Blocks :
            /\ cons'[b] \subseteq Stored(b) /\ prims'[b] \subseteq Stored(b)
            /\ pflag'[b] \subseteq Stored(b) /\ fflag'[b] \subseteq Stored(b)
            /\ fofcflag'[b] \subseteq Stored(b) /\ lowered'[b] \subseteq CalculatedFaces(b)
        BY <1>11, ExchangeStored DEF FOFC_PCP, TypeOK
    <2> QED BY <1>1, <1>11, <2>1, <2>2, <2>3, <2>4, TypedIf DEF FOFC_PCP, TypeOK
<1>12. CASE NextStage
    <2>1. \A b \in Blocks : FloorRange(b) \subseteq Stored(b)
        BY InteriorStored DEF FloorRange
    <2>2. /\ DOMAIN fflag' = Blocks /\ DOMAIN fofcflag' = Blocks
          /\ \A b \in Blocks : fflag'[b] \subseteq Stored(b) /\ fofcflag'[b] \subseteq Stored(b)
        BY <1>12, <2>1, ExchangeStored DEF NextStage, TypeOK
    <2>3. done' \in [Blocks -> SUBSET Tasks]
        BY <1>12 DEF NextStage
    <2> QED BY <1>12, <2>2, <2>3, TypedIf DEF NextStage, TypeOK
<1>13. CASE UNCHANGED vars
    BY <1>13, TypedIf DEF vars, TypeOK
<1> QED
    BY <1>2, <1>3, <1>4, <1>5, <1>6, <1>7, <1>8, <1>9, <1>10, <1>11, <1>12, <1>13 DEF Next
-----------------------------------------------------------------------------
(* What a block will predict depends on the inputs of the sub-step alone. *)
LEMMA SamePrediction ==
    ASSUME deck' = deck, history' = history, stage' = stage
    PROVE  /\ now' = now /\ KeptFlags' = KeptFlags /\ Held' = Held /\ Predicted' = Predicted
           /\ \A b : Near(b)' = Near(b) /\ CalculatedFaces(b)' = CalculatedFaces(b)
BY SameMesh DEF now, KeptFlags, Held, Predicted

LEMMA FlagsElsewhere ==
    ASSUME NEW b, FlagInv(b), deck' = deck, history' = history, stage' = stage,
           done'[b] = done[b], cons'[b] = cons[b], prims'[b] = prims[b], pflag'[b] = pflag[b],
           fflag'[b] = fflag[b], fofcflag'[b] = fofcflag[b], lowered'[b] = lowered[b]
    PROVE  FlagInv(b)'
BY SamePrediction DEF FlagInv

LEMMA FluxesKeep ==
    ASSUME TypeOK, NEW b \in Blocks, ClosedInv(b), FlagInv(b), FluxHalo >= 1, GuessHalo >= 1,
           GetFlux(b)
    PROVE  FlagInv(b)'
<1>1. /\ done'[b] = done[b] \cup {"fluxes"} /\ "fluxes" \notin done[b]
      /\ deck' = deck /\ history' = history /\ stage' = stage
      /\ fflag'[b] = fflag[b] \cup (now.states \cap CalculatedFaces(b) \cap Stored(b))
    BY ClosedKept DEF GetFlux, TypeOK
<1>2. /\ "update guess" \notin done[b] /\ "invert" \notin done[b] /\ "determine" \notin done[b]
      /\ "mark" \notin done[b] /\ "clear" \notin done[b] /\ "replace" \notin done[b]
    BY <1>1, ChainOf
<1>3. ASSUME NEW z \in Near(b) PROVE z \in fflag'[b] <=> z \in Held
    <2>1. z \in Stored(b) /\ z \in CalculatedFaces(b)
        BY NearInside
    <2>2. z \in fflag[b] <=> z \in KeptFlags
        BY <1>1 DEF FlagInv
    <2> QED BY <1>1, <2>1, <2>2 DEF Held
<1> QED BY <1>1, <1>2, <1>3, SamePrediction DEF FlagInv

LEMMA UpdateKeeps ==
    ASSUME TypeOK, NEW b \in Blocks, ClosedInv(b), FlagInv(b), FluxHalo >= 1, GuessHalo >= 1,
           UpdateGuess(b)
    PROVE  FlagInv(b)'
<1>1. /\ done'[b] = done[b] \cup {"update guess"} /\ "update guess" \notin done[b]
      /\ deck' = deck /\ history' = history /\ stage' = stage
      /\ fflag' = fflag /\ pflag' = pflag /\ fofcflag' = fofcflag /\ lowered' = lowered
      /\ cons'[b] = {z \in Within(b, GuessHalo) \cap Stored(b) :
                        {z, z + 1} \subseteq CalculatedFaces(b)}
    BY ClosedKept DEF UpdateGuess, TypeOK
<1>2. /\ "invert" \notin done[b] /\ "determine" \notin done[b]
      /\ "mark" \notin done[b] /\ "clear" \notin done[b] /\ "replace" \notin done[b]
    BY <1>1, ChainOf
<1>3. ASSUME NEW z \in Near(b) PROVE z \in cons'[b]
    <2>1. z \in Stored(b) /\ z \in Within(b, GuessHalo) /\ {z, z + 1} \subseteq CalculatedFaces(b)
        BY NearInside
    <2> QED BY <1>1, <2>1
<1>4. /\ now' = now /\ KeptFlags' = KeptFlags /\ Held' = Held /\ Near(b)' = Near(b)
    BY <1>1, SamePrediction
<1>5. ASSUME NEW z \in Near(b)
      PROVE  /\ "fluxes" \notin done'[b] => (z \in fflag'[b] <=> z \in KeptFlags)
             /\ "fluxes" \in done'[b] => (z \in fflag'[b] <=> z \in Held)
    BY <1>1, <1>2 DEF FlagInv
<1>6. /\ "invert" \notin done'[b] /\ "determine" \notin done'[b]
      /\ "mark" \notin done'[b] /\ "clear" \notin done'[b] /\ "replace" \notin done'[b]
    BY <1>1, <1>2
<1> QED BY <1>3, <1>4, <1>5, <1>6 DEF FlagInv

LEMMA SetKeeps ==
    ASSUME TypeOK, NEW b \in Blocks, ClosedInv(b), FlagInv(b), deck.driver = "kharma", ~deck.pcp,
           FluxHalo >= 1, GuessHalo >= 1, SetGuess(b), inOrder'
    PROVE  FlagInv(b)'
<1>1. /\ done'[b] = done[b] \cup {"set"}
      /\ deck' = deck /\ history' = history /\ stage' = stage
      /\ fflag' = fflag /\ pflag' = pflag /\ lowered' = lowered
      /\ cons'[b] = Stored(b)
    BY ClosedKept DEF SetGuess, TypeOK
<1>2. "invert" \in done[b] => "replace" \in done[b]
    BY DEF SetGuess, Corrected
<1>3. "mark" \in done[b] => "invert" \in done[b]
    BY ChainOf
<1>4. \A z \in Near(b) : z \in cons'[b]
    BY <1>1, NearInside
<1> QED BY <1>1, <1>2, <1>3, <1>4, SamePrediction DEF FlagInv

LEMMA InvertKeeps ==
    ASSUME TypeOK, NEW b \in Blocks, ClosedInv(b), FlagInv(b), InvertGuess(b)
    PROVE  FlagInv(b)'
<1>1. /\ done'[b] = done[b] \cup {"invert"} /\ "invert" \notin done[b]
      /\ "update guess" \in done[b]
      /\ deck' = deck /\ history' = history /\ stage' = stage
      /\ fflag' = fflag /\ cons' = cons /\ fofcflag' = fofcflag /\ lowered' = lowered
      /\ prims'[b] = cons[b]
    BY ClosedKept, NeedsAre DEF InvertGuess, Due, TypeOK
<1>2. /\ "determine" \notin done[b]
      /\ "mark" \notin done[b] /\ "clear" \notin done[b] /\ "replace" \notin done[b]
    BY <1>1, ChainOf
<1>3. PICK odd \in SUBSET (Stored(b) \ cons[b]) :
        pflag'[b] = (now.fail \cap cons[b]) \cup odd
    BY DEF InvertGuess, TypeOK
<1>4. \A z \in Near(b) : z \in cons[b]
    BY <1>1 DEF FlagInv
<1>5. \A z \in Near(b) : z \in pflag'[b] <=> z \in now.fail
    BY <1>3, <1>4
<1> QED BY <1>1, <1>2, <1>4, <1>5, SamePrediction DEF FlagInv

LEMMA DetermineKeeps ==
    ASSUME TypeOK, NEW b \in Blocks, ClosedInv(b), FlagInv(b), DetermineFloors(b)
    PROVE  FlagInv(b)'
<1>1. /\ done'[b] = done[b] \cup {"determine"} /\ "determine" \notin done[b]
      /\ "invert" \in done[b]
      /\ deck' = deck /\ history' = history /\ stage' = stage
      /\ pflag' = pflag /\ cons' = cons /\ prims' = prims /\ fofcflag' = fofcflag
      /\ lowered' = lowered
    BY ClosedKept, NeedsAre DEF DetermineFloors, Due, TypeOK
<1>2. /\ "mark" \notin done[b] /\ "clear" \notin done[b] /\ "replace" \notin done[b]
      /\ "fluxes" \in done[b]
    BY <1>1, ChainOf DEF FlagInv
<1>3. PICK odd \in SUBSET (Stored(b) \ prims[b]) :
        fflag'[b] = fflag[b] \cup (now.hits \cap prims[b]) \cup odd
    BY DEF DetermineFloors, TypeOK
<1>4. \A z \in Near(b) : z \in prims[b] /\ (z \in fflag[b] <=> z \in Held)
    BY <1>1, <1>2 DEF FlagInv
<1>5. \A z \in Near(b) : z \in fflag'[b] <=> z \in Held \cup now.hits
    BY <1>3, <1>4
<1> QED BY <1>1, <1>2, <1>5, SamePrediction DEF FlagInv

LEMMA MarkKeeps ==
    ASSUME TypeOK, NEW b \in Blocks, ClosedInv(b), FlagInv(b), FluxHalo >= 1, GuessHalo >= 1,
           MarkFOFC(b), inOrder'
    PROVE  FlagInv(b)'
<1>1. /\ done'[b] = done[b] \cup {"mark"} /\ "mark" \notin done[b]
      /\ "invert" \in done[b] /\ "determine" \in done[b]
      /\ deck' = deck /\ history' = history /\ stage' = stage
      /\ pflag' = pflag /\ cons' = cons /\ prims' = prims /\ fflag' = fflag
      /\ lowered' = lowered
      /\ fofcflag'[b] = pflag[b] \cup fflag[b] \cup (Stored(b) \cap 1 .. deck.inside)
    BY ClosedKept, NeedsAre DEF MarkFOFC, Due, TypeOK
<1>2. "clear" \notin done[b] /\ "replace" \notin done[b]
    BY <1>1, ChainOf
<1>3. ASSUME NEW z \in Near(b) PROVE z \in fofcflag'[b] <=> z \in Predicted
    <2>1. z \in Stored(b)
        BY NearInside
    <2>2. (z \in pflag[b] <=> z \in now.fail) /\ (z \in fflag[b] <=> z \in Held \cup now.hits)
        BY <1>1, <1>2 DEF FlagInv
    <2> QED BY <1>1, <2>1, <2>2 DEF Predicted
<1> QED BY <1>1, <1>2, <1>3, SamePrediction DEF FlagInv

LEMMA ClearKeeps ==
    ASSUME TypeOK, NEW b \in Blocks, ClosedInv(b), FlagInv(b), ClearFlags(b)
    PROVE  FlagInv(b)'
<1>1. /\ done'[b] = done[b] \cup {"clear"} /\ "mark" \in done[b]
      /\ deck' = deck /\ history' = history /\ stage' = stage
      /\ fofcflag' = fofcflag /\ cons' = cons /\ prims' = prims
      /\ lowered' = lowered /\ fflag'[b] = {}
    BY ClosedKept, NeedsAre DEF ClearFlags, Due, TypeOK
<1>2. "determine" \in done[b] /\ "invert" \in done[b] /\ "fluxes" \in done[b]
    BY <1>1, ChainOf DEF FlagInv
<1> QED BY <1>1, <1>2, SamePrediction DEF FlagInv

LEMMA ReplaceKeeps ==
    ASSUME TypeOK, NEW b \in Blocks, ClosedInv(b), FlagInv(b), FOFC(b)
    PROVE  FlagInv(b)'
<1>1. /\ done'[b] = done[b] \cup {"replace"} /\ "replace" \notin done[b] /\ "mark" \in done[b]
      /\ deck' = deck /\ history' = history /\ stage' = stage
      /\ fofcflag' = fofcflag /\ cons' = cons /\ prims' = prims /\ fflag' = fflag
      /\ pflag' = pflag
      /\ lowered'[b] = {f \in CalculatedFaces(b) : Marked(b, f)}
    BY ClosedKept, NeedsAre DEF FOFC, Due, TypeOK
<1>2. ASSUME NEW f \in CalculatedFaces(b), {f - 1, f} \subseteq Near(b)
      PROVE  f \in lowered'[b] <=> {f - 1, f} \cap Predicted # {}
    <2>1. \A z \in {f - 1, f} : z \in fofcflag[b] <=> z \in Predicted
        BY <1>1, <1>2 DEF FlagInv
    <2>2. f \in lowered'[b] <=> {f - 1, f} \cap fofcflag[b] # {}
        BY <1>1 DEF Marked
    <2> QED BY <2>1, <2>2
<1> QED BY <1>1, <1>2, SamePrediction DEF FlagInv

LEMMA NextStageFlags ==
    ASSUME TypeOK, NEW b \in Blocks, FlagInv(b), deck.driver = "kharma", ~deck.pcp,
           FluxHalo >= 1, GuessHalo >= 1, NextStage
    PROVE  FlagInv(b)'
<1>1. /\ done'[b] = {} /\ deck' = deck /\ history' = history /\ stage' = stage + 1
      /\ fflag'[b] = IF stage % SubSteps = 0 THEN {}
                     ELSE fflag[b] \cup (now.floored \cap Stored(b))
    BY DEF NextStage, FloorRange
<1>2. "clear" \in done[b]
    BY DEF NextStage, Finished, Tasks, FakeStep
<1>3. KeptFlags' = IF stage % SubSteps = 0 THEN {} ELSE now.floored
    <2>1. stage \in Int
        BY CorrectionAssumption DEF TypeOK
    <2>2. stage' - 1 = stage
        BY <1>1, <2>1
    <2> QED BY <1>1, <2>2 DEF KeptFlags, now
<1>4. ASSUME NEW z \in Near(b) PROVE z \in fflag'[b] <=> z \in KeptFlags'
    <2>1. z \notin fflag[b] /\ z \in Stored(b)
        BY <1>2, NearInside DEF FlagInv
    <2> QED BY <1>1, <1>3, <2>1
<1>5. Near(b)' = Near(b)
    BY <1>1, SameMesh
<1> QED BY <1>1, <1>4, <1>5 DEF FlagInv
-----------------------------------------------------------------------------
LEMMA InitSettled == Init => Settled
<1> SUFFICES ASSUME Init PROVE Settled
    OBVIOUS
<1>1. \A b \in Blocks : done[b] = {}
    BY DEF Init
<1> QED BY <1>1, InitTyped DEF Settled, ClosedInv

LEMMA NextSettled == Settled /\ [Next]_vars => Settled'
<1> SUFFICES ASSUME Settled, [Next]_vars PROVE Settled'
    OBVIOUS
<1>1. TypeOK /\ TypeOK' /\ \A b \in Blocks : ClosedInv(b)
    BY NextTyped DEF Settled
<1>2. ASSUME NEW c \in Blocks, NEW t, Due(c, t), Done(c, t), deck' = deck PROVE Settled'
    <2>1. \A b \in Blocks : ClosedInv(b)'
        BY <1>1, <1>2, ClosedKept
    <2> QED BY <1>1, <1>2, <2>1, SameMesh DEF Settled
<1>3. ASSUME NEW c \in Blocks,
             \/ GetFlux(c) \/ UpdateGuess(c) \/ SendGuess(c) \/ SetGuess(c) \/ InvertGuess(c)
             \/ DetermineFloors(c) \/ MarkFOFC(c) \/ ClearFlags(c) \/ FOFC(c) \/ FOFC_PCP(c)
      PROVE  Settled'
    BY <1>2, <1>3 DEF GetFlux, UpdateGuess, SendGuess, SetGuess, InvertGuess, DetermineFloors,
        MarkFOFC, ClearFlags, FOFC, FOFC_PCP
<1>4. CASE NextStage
    <2>1. deck' = deck /\ \A b \in Blocks : done'[b] = {}
        BY <1>4 DEF NextStage
    <2> QED BY <1>1, <2>1, SameMesh DEF Settled, ClosedInv
<1>5. CASE UNCHANGED vars
    <2>1. \A b \in Blocks : ClosedInv(b)'
        BY <1>1, <1>5 DEF vars, ClosedInv, Needs
    <2> QED BY <1>1, <1>5, <2>1, SameMesh DEF vars, Settled
<1> QED BY <1>3, <1>4, <1>5 DEF Next

-----------------------------------------------------------------------------
LEMMA InitAgree == Init => AgreeInv
<1> SUFFICES ASSUME Init PROVE AgreeInv
    OBVIOUS
<1>1. KeptFlags = {}
    <2>1. 0 % SubSteps = 0
        BY CorrectionAssumption
    <2> QED BY <2>1 DEF Init, KeptFlags
<1>2. ASSUME NEW b \in Blocks PROVE NothingStolen(b) /\ FlagInv(b)
    BY <1>1 DEF Init, NothingStolen, FlagInv
<1> QED BY <1>2, InitSettled DEF AgreeInv

(* A task of one block leaves the flags of the others alone. *)
LEMMA TaskAgrees ==
    ASSUME AgreeInv, Settled', NEW c \in Blocks, deck' = deck, history' = history,
           stage' = stage, inOrder' => inOrder, stolen' = stolen \/ NothingStolen(c)',
           deck.driver = "kharma" /\ ~deck.pcp /\ inOrder' => FlagInv(c)',
           \A b \in Blocks \ {c} :
               /\ done'[b] = done[b] /\ cons'[b] = cons[b] /\ prims'[b] = prims[b]
               /\ pflag'[b] = pflag[b] /\ fflag'[b] = fflag[b] /\ fofcflag'[b] = fofcflag[b]
               /\ lowered'[b] = lowered[b] /\ stolen'[b] = stolen[b]
    PROVE  AgreeInv'
<1> SUFFICES ASSUME deck.driver = "kharma", ~deck.pcp, NEW b \in Blocks
    PROVE  NothingStolen(b)' /\ (inOrder' => FlagInv(b)')
    BY SameMesh DEF AgreeInv
<1>1. NothingStolen(b) /\ (inOrder => FlagInv(b))
    BY DEF AgreeInv
<1>2. NothingStolen(b)'
    BY <1>1, SameMesh DEF NothingStolen
<1>3. ASSUME inOrder', b # c PROVE FlagInv(b)'
    BY <1>1, <1>3, FlagsElsewhere
<1> QED BY <1>2, <1>3

LEMMA NextAgree ==
    FluxHalo >= 1 /\ GuessHalo >= 1 /\ AgreeInv /\ [Next]_vars => AgreeInv'
<1> SUFFICES ASSUME FluxHalo >= 1, GuessHalo >= 1, AgreeInv, [Next]_vars PROVE AgreeInv'
    OBVIOUS
<1>1. TypeOK /\ Settled' /\ \A b \in Blocks : ClosedInv(b)
    BY NextSettled DEF AgreeInv, Settled
<1>2. \A b \in Blocks : deck.driver = "kharma" /\ ~deck.pcp /\ inOrder => FlagInv(b)
    BY DEF AgreeInv
<1>3. ASSUME NEW c \in Blocks, NEW t, Due(c, t), Done(c, t)
      PROVE  \A b \in Blocks \ {c} : done'[b] = done[b]
    BY <1>1, <1>3 DEF Done, TypeOK
<1>4. ASSUME NEW c \in Blocks, GetFlux(c) PROVE AgreeInv'
    <2>1. NothingStolen(c)'
        BY <1>1, <1>4, SameMesh DEF GetFlux, NothingStolen, TypeOK
    <2>2. \A b \in Blocks \ {c} :
            lowered'[b] = lowered[b] /\ stolen'[b] = stolen[b] /\ fflag'[b] = fflag[b]
        BY <1>1, <1>4 DEF GetFlux, TypeOK
    <2> QED BY <1>1, <1>2, <1>3, <1>4, <2>1, <2>2, FluxesKeep, TaskAgrees DEF GetFlux
<1>5. ASSUME NEW c \in Blocks, UpdateGuess(c) PROVE AgreeInv'
    <2>1. \A b \in Blocks \ {c} : cons'[b] = cons[b] /\ prims'[b] = prims[b]
        BY <1>1, <1>5 DEF UpdateGuess, TypeOK
    <2> QED BY <1>1, <1>2, <1>3, <1>5, <2>1, UpdateKeeps, TaskAgrees DEF UpdateGuess
<1>6. ASSUME NEW c \in Blocks, SendGuess(c) PROVE AgreeInv'
    <2>1. FlagInv(c) => FlagInv(c)'
        <3>1. done'[c] = done[c] \cup {"send"}
            BY <1>1, <1>6, ClosedKept DEF SendGuess
        <3> QED BY <1>6, <3>1, SamePrediction DEF SendGuess, FlagInv
    <2> QED BY <1>1, <1>2, <1>3, <1>6, <2>1, TaskAgrees DEF SendGuess
<1>7. ASSUME NEW c \in Blocks, SetGuess(c) PROVE AgreeInv'
    <2>1. \A b \in Blocks \ {c} : /\ cons'[b] = cons[b] /\ prims'[b] = prims[b]
                                  /\ pflag'[b] = pflag[b] /\ fofcflag'[b] = fofcflag[b]
        BY <1>1, <1>7 DEF SetGuess, TypeOK
    <2>2. inOrder' => inOrder
        BY <1>7 DEF SetGuess
    <2> QED BY <1>1, <1>2, <1>3, <1>7, <2>1, <2>2, SetKeeps, TaskAgrees DEF SetGuess
<1>8. ASSUME NEW c \in Blocks, InvertGuess(c) PROVE AgreeInv'
    <2>1. \A b \in Blocks \ {c} : prims'[b] = prims[b] /\ pflag'[b] = pflag[b]
        BY <1>1, <1>8 DEF InvertGuess, TypeOK
    <2> QED BY <1>1, <1>2, <1>3, <1>8, <2>1, InvertKeeps, TaskAgrees DEF InvertGuess
<1>9. ASSUME NEW c \in Blocks, DetermineFloors(c) PROVE AgreeInv'
    <2>1. \A b \in Blocks \ {c} : fflag'[b] = fflag[b]
        BY <1>1, <1>9 DEF DetermineFloors, TypeOK
    <2> QED BY <1>1, <1>2, <1>3, <1>9, <2>1, DetermineKeeps, TaskAgrees DEF DetermineFloors
<1>10. ASSUME NEW c \in Blocks, MarkFOFC(c) PROVE AgreeInv'
    <2>1. \A b \in Blocks \ {c} : fofcflag'[b] = fofcflag[b]
        BY <1>1, <1>10 DEF MarkFOFC, TypeOK
    <2>2. inOrder' => inOrder
        BY <1>10 DEF MarkFOFC
    <2> QED BY <1>1, <1>2, <1>3, <1>10, <2>1, <2>2, MarkKeeps, TaskAgrees DEF MarkFOFC
<1>11. ASSUME NEW c \in Blocks, ClearFlags(c) PROVE AgreeInv'
    <2>1. \A b \in Blocks \ {c} : fflag'[b] = fflag[b] /\ pflag'[b] = pflag[b]
        BY <1>1, <1>11 DEF ClearFlags, TypeOK
    <2> QED BY <1>1, <1>2, <1>3, <1>11, <2>1, ClearKeeps, TaskAgrees DEF ClearFlags
<1>12. ASSUME NEW c \in Blocks, FOFC(c) PROVE AgreeInv'
    <2>1. \A b \in Blocks \ {c} : lowered'[b] = lowered[b]
        BY <1>1, <1>12 DEF FOFC, TypeOK
    <2> QED BY <1>1, <1>2, <1>3, <1>12, <2>1, ReplaceKeeps, TaskAgrees DEF FOFC
<1>13. ASSUME NEW c \in Blocks, FOFC_PCP(c) PROVE AgreeInv'
    <2>1. deck.pcp /\ deck' = deck
        BY <1>13 DEF FOFC_PCP, Due, Tasks, FakeStep
    <2> QED BY <1>1, <2>1 DEF AgreeInv
<1>14. CASE NextStage
    <2>1. deck' = deck /\ stolen' = stolen /\ (inOrder' => inOrder)
        BY <1>14 DEF NextStage
    <2>2. \A b \in Blocks : deck.driver = "kharma" /\ ~deck.pcp /\ inOrder' => FlagInv(b)'
        BY <1>1, <1>2, <1>14, <2>1, NextStageFlags
    <2>3. \A b \in Blocks : NothingStolen(b) => NothingStolen(b)'
        BY <2>1, SameMesh DEF NothingStolen
    <2> QED BY <1>1, <2>1, <2>2, <2>3, SameMesh DEF AgreeInv
<1>15. CASE UNCHANGED vars
    <2>1. \A b \in Blocks : FlagInv(b) => FlagInv(b)'
        BY <1>15, FlagsElsewhere DEF vars
    <2>2. \A b \in Blocks : NothingStolen(b) => NothingStolen(b)'
        BY <1>15, SameMesh DEF vars, NothingStolen
    <2> QED BY <1>1, <1>15, <2>1, <2>2, SameMesh DEF vars, AgreeInv
<1> QED
    BY <1>4, <1>5, <1>6, <1>7, <1>8, <1>9, <1>10, <1>11, <1>12, <1>13, <1>14, <1>15 DEF Next

(* Two blocks replace the flux of the face between them in the same          *)
(* sub-steps, in any cut of the mesh and from any inputs, if the fluxes and  *)
(* the guess reach a zone beyond a block and no exchange lands in the middle *)
(* of the prediction.                                                        *)
THEOREM FluxesAgreeInOrder ==
    ASSUME PredictAlike, FluxHalo >= 1, GuessHalo >= 1
    PROVE  Spec => []AgreeInOrder
<1>1. AgreeInv => AgreeInOrder
    <2> SUFFICES ASSUME AgreeInv, inOrder, NEW b \in Blocks, b + 1 \in Blocks,
                        Corrected(b), Corrected(b + 1)
        PROVE  LET f == FirstColumn(b + 1)
               IN  /\ f \in lowered[b] <=> f \in lowered[b + 1]
                   /\ stolen[b][f] = stolen[b + 1][f]
        BY DEF AgreeInOrder, FluxesAgree
    <2>1. TypeOK
        BY DEF AgreeInv, Settled
    <2>2. deck.driver = "kharma" /\ ~deck.pcp
        BY <2>1 DEF PredictAlike, TypeOK, Blocks
    <2>3. /\ NothingStolen(b) /\ FlagInv(b) /\ "replace" \in done[b]
          /\ NothingStolen(b + 1) /\ FlagInv(b + 1) /\ "replace" \in done[b + 1]
        BY <2>2 DEF AgreeInv, Corrected
    <2> DEFINE f == FirstColumn(b + 1)
    <2>4. /\ {f - 1, f} \subseteq Near(b) /\ {f - 1, f} \subseteq Near(b + 1)
          /\ f \in CalculatedFaces(b) /\ f \in CalculatedFaces(b + 1)
        BY <2>1, FaceBetween
    <2> HIDE DEF f
    <2>5. f \in lowered[b] <=> {f - 1, f} \cap Predicted # {}
        BY <2>3, <2>4 DEF FlagInv
    <2>6. f \in lowered[b + 1] <=> {f - 1, f} \cap Predicted # {}
        BY <2>3, <2>4 DEF FlagInv
    <2>7. stolen[b][f] = stolen[b + 1][f]
        BY <2>3, <2>4 DEF NothingStolen
    <2> QED BY <2>5, <2>6, <2>7 DEF f
<1> QED BY <1>1, InitAgree, NextAgree, PTL DEF Spec

-----------------------------------------------------------------------------
(* What a zone needs and what its neighbors offer are inputs of the sub-step. *)
LEMMA SameEnergies ==
    ASSUME deck' = deck, history' = history, stage' = stage
    PROVE  /\ \A z : Energy(z)' = Energy(z) /\ EnergyFloor(z)' = EnergyFloor(z)
           /\ \A z : SumOfWeights(z)' = SumOfWeights(z)
<1>1. now' = now /\ Columns' = Columns
    BY SameMesh DEF now
<1>2. \A z : Energy(z)' = Energy(z) /\ EnergyFloor(z)' = EnergyFloor(z)
    BY <1>1 DEF Energy, EnergyFloor
<1>3. \A z, y : Weight(z, y)' = Weight(z, y)
    BY <1>2 DEF Weight
<1> QED BY <1>2, <1>3 DEF SumOfWeights

LEMMA PaidElsewhere ==
    ASSUME NEW b, PaidInv(b), deck' = deck, history' = history, stage' = stage,
           "revise" \in done'[b] =>
               /\ "revise" \in done[b] /\ stolen'[b] = stolen[b]
               /\ \A z \in Interior(b) : z \in fofcflag'[b] <=> z \in fofcflag[b]
    PROVE  PaidInv(b)'
<1>1. Interior(b)' = Interior(b)
    BY SameMesh
<1> QED BY <1>1, SameEnergies DEF PaidInv, Corrected, Needy

(* An exchange leaves a block's own marks alone. *)
LEMMA ExchangedInside ==
    ASSUME TypeOK, NEW b \in Blocks, NEW z \in Interior(b), NEW zones, NEW bufs
    PROVE  z \in Exchanged(b, zones, bufs) <=> z \in zones
BY InteriorStored DEF Exchanged

(* A zone that needs energy has no weight of its own, so that at each of its *)
(* faces only what its neighbor offers counts.                               *)
LEMMA RevisionPays ==
    ASSUME TypeOK, NEW b \in Blocks, ~deck.spherical, FOFC_PCP(b)
    PROVE  PaidInv(b)'
<1>1. /\ deck' = deck /\ history' = history /\ stage' = stage
      /\ stolen'[b] = [f \in CalculatedFaces(b) |->
            IF f \in FirstColumn(b) .. LastColumn(b) + 1 THEN Revision(f, NewAlpha(b))
            ELSE stolen[b][f]]
      /\ fofcflag'[b] = Exchanged(b, fofcflag[b], fofcflag)
    BY DEF FOFC_PCP, TypeOK
<1> SUFFICES ASSUME NEW z \in Interior(b), Needy(b, z)'
    PROVE  stolen'[b][z] - stolen'[b][z + 1] =
               IF SumOfWeights(z) > 0 THEN SumOfWeights(z) * (Unit \div SumOfWeights(z)) ELSE 0
    BY <1>1, SameMesh, SameEnergies DEF PaidInv
<1>2. Needy(b, z) /\ Energy(z) < EnergyFloor(z)
    BY <1>1, ExchangedInside, SameEnergies DEF Needy
<1>3. /\ z \in Int /\ z - 1 \in Int /\ z + 1 \in Int
      /\ z \in CalculatedFaces(b) /\ z + 1 \in CalculatedFaces(b)
      /\ z \in FirstColumn(b) .. LastColumn(b) + 1
      /\ z + 1 \in FirstColumn(b) .. LastColumn(b) + 1
    BY InteriorStored, ColumnsCounted DEF Interior
<1> DEFINE a == NewAlpha(b)
           Draws(y) == IF y \in DOMAIN a THEN a[y] ELSE 0
           W(y) == Weight(y, z)
<1>4. a \in [Interior(b) -> Int]
    BY NewAlphaTyped
<1>5. Draws(z) = a[z] /\ a[z] \in Int /\ Draws(z - 1) \in Int /\ Draws(z + 1) \in Int
    BY <1>4
<1>6. /\ W(z) = 0 /\ Weight(z, z + 1) = 0 /\ Weight(z + 1, z + 1) = W(z + 1)
      /\ W(z - 1) \in Int /\ W(z + 1) \in Int /\ W(z - 1) >= 0 /\ W(z + 1) >= 0
    BY <1>2, <1>3, WeightsCount
<1>7. stolen'[b][z] = W(z - 1) * Draws(z) - W(z) * Draws(z - 1)
    BY <1>1, <1>3 DEF Revision
<1>8. stolen'[b][z + 1] = Weight(z, z + 1) * Draws(z + 1) - Weight(z + 1, z + 1) * Draws(z)
    <2>1. \A f : Revision(f, a) = Weight(f - 1, f) * Draws(f) - Weight(f, f) * Draws(f - 1)
        BY DEF Revision
    <2>2. z + 1 - 1 = z
        BY <1>3
    <2> QED BY <1>1, <1>3, <2>1, <2>2
<1>9. SumOfWeights(z) = W(z + 1) + W(z - 1)
    BY DEF SumOfWeights
<1>10. SumOfWeights(z) > 0 => a[z] = Unit \div SumOfWeights(z)
    BY <1>2 DEF NewAlpha
<1> HIDE DEF Draws, W, a
<1>11. stolen'[b][z] = W(z - 1) * a[z]
    BY <1>5, <1>6, <1>7
<1>12. stolen'[b][z + 1] = - (W(z + 1) * a[z])
    BY <1>5, <1>6, <1>8
<1>13. stolen'[b][z] - stolen'[b][z + 1] = SumOfWeights(z) * a[z]
    BY <1>5, <1>6, <1>9, <1>11, <1>12, SMTT(30)
<1>14. CASE SumOfWeights(z) > 0
    BY <1>10, <1>13, <1>14
<1>15. CASE ~(SumOfWeights(z) > 0)
    <2>1. SumOfWeights(z) = 0
        BY <1>6, <1>9, <1>15
    <2> QED BY <1>5, <1>13, <1>15, <2>1
<1> QED BY <1>14, <1>15

LEMMA InitNeedy == Init => NeedyInv
<1> SUFFICES ASSUME Init PROVE NeedyInv
    OBVIOUS
<1>1. \A b \in Blocks : done[b] = {}
    BY DEF Init
<1> QED BY <1>1, InitSettled DEF NeedyInv, PaidInv, Corrected

LEMMA NextNeedy == NeedyInv /\ [Next]_vars => NeedyInv'
<1> SUFFICES ASSUME NeedyInv, [Next]_vars PROVE NeedyInv'
    OBVIOUS
<1>1. TypeOK /\ Settled' /\ \A b \in Blocks : ClosedInv(b)
    BY NextSettled DEF NeedyInv, Settled
<1>2. deck' = deck
    BY DEF Next, vars, GetFlux, UpdateGuess, SendGuess, SetGuess, InvertGuess, DetermineFloors,
        MarkFOFC, ClearFlags, FOFC, FOFC_PCP, NextStage
<1> SUFFICES ASSUME ~deck.spherical, NEW b \in Blocks PROVE PaidInv(b)'
    BY <1>1, <1>2, SameMesh DEF NeedyInv
<1>3. PaidInv(b)
    BY DEF NeedyInv
<1>4. ASSUME NEW c \in Blocks, NEW t, Due(c, t), Done(c, t), t # "revise", "revise" \in done'[b]
      PROVE  /\ "revise" \in done[b]
             /\ b = c => t \notin {"fluxes", "mark"}
    <2>1. /\ done'[c] = done[c] \cup {t} /\ t \notin done[c]
          /\ b # c => done'[b] = done[b]
        BY <1>1, <1>4, ClosedKept
    <2>2. "revise" \in done[b]
        BY <1>4, <2>1
    <2>3. "fluxes" \in done[b] /\ "mark" \in done[b]
        BY <1>1, <2>2, ChainOf
    <2> QED BY <2>1, <2>2, <2>3
<1>5. ASSUME NEW c \in Blocks, GetFlux(c) PROVE PaidInv(b)'
    <2>1. b # c => stolen'[b] = stolen[b]
        BY <1>1, <1>5 DEF GetFlux, TypeOK
    <2> QED BY <1>3, <1>4, <1>5, <2>1, PaidElsewhere DEF GetFlux
<1>6. ASSUME NEW c \in Blocks,
             UpdateGuess(c) \/ SendGuess(c) \/ InvertGuess(c) \/ DetermineFloors(c)
             \/ ClearFlags(c)
      PROVE  PaidInv(b)'
    <2>1. \E t : Due(c, t) /\ Done(c, t) /\ t # "revise"
        BY <1>6 DEF UpdateGuess, SendGuess, InvertGuess, DetermineFloors, ClearFlags
    <2>2. /\ stolen' = stolen /\ fofcflag' = fofcflag
          /\ history' = history /\ stage' = stage
        BY <1>6 DEF UpdateGuess, SendGuess, InvertGuess, DetermineFloors, ClearFlags
    <2> QED BY <1>2, <1>3, <1>4, <2>1, <2>2, PaidElsewhere
<1>7. ASSUME NEW c \in Blocks, FOFC(c) PROVE PaidInv(b)'
    BY <1>3, <1>4, <1>7, PaidElsewhere DEF FOFC
<1>8. ASSUME NEW c \in Blocks, SetGuess(c) PROVE PaidInv(b)'
    <2>1. \A z \in Interior(b) : z \in fofcflag'[b] <=> z \in fofcflag[b]
        BY <1>1, <1>8, ExchangedInside DEF SetGuess, TypeOK
    <2> QED BY <1>3, <1>4, <1>8, <2>1, PaidElsewhere DEF SetGuess
<1>9. ASSUME NEW c \in Blocks, MarkFOFC(c) PROVE PaidInv(b)'
    <2>1. b # c => fofcflag'[b] = fofcflag[b]
        BY <1>1, <1>9 DEF MarkFOFC, TypeOK
    <2> QED BY <1>3, <1>4, <1>9, <2>1, PaidElsewhere DEF MarkFOFC
<1>10. ASSUME NEW c \in Blocks, FOFC_PCP(c) PROVE PaidInv(b)'
    <2>1. CASE b = c
        BY <1>1, <1>10, <2>1, RevisionPays
    <2>2. CASE b # c
        <3>1. done'[b] = done[b] /\ stolen'[b] = stolen[b] /\ fofcflag'[b] = fofcflag[b]
            BY <1>1, <1>10, <2>2 DEF FOFC_PCP, Done, TypeOK
        <3> QED BY <1>3, <1>10, <3>1, PaidElsewhere DEF FOFC_PCP
    <2> QED BY <2>1, <2>2
<1>11. CASE NextStage
    <2>1. done'[b] = {}
        BY <1>11 DEF NextStage
    <2> QED BY <1>2, <2>1 DEF PaidInv, Corrected
<1>12. CASE UNCHANGED vars
    BY <1>3, <1>12, PaidElsewhere DEF vars
<1> QED BY <1>5, <1>6, <1>7, <1>8, <1>9, <1>10, <1>11, <1>12 DEF Next

(* A zone the correction leaves too low draws through its faces exactly what *)
(* it is owed, or nothing where no neighbor can give, in any cut of the mesh *)
(* and whatever it drew before, if floors do not depend on radius.           *)
THEOREM NeedyAlwaysPaid ==
    ASSUME \A c \in Scenarios : ~c.deck.spherical
    PROVE  Spec /\ []UnitDivides => []NeedyPaid
<1>1. NeedyInv /\ UnitDivides => NeedyPaid
    <2> SUFFICES ASSUME NeedyInv, UnitDivides, NEW b \in Blocks, deck.pcp, Corrected(b),
                        NEW z \in Interior(b), Needy(b, z)
        PROVE  stolen[b][z] - stolen[b][z + 1] = IF SumOfWeights(z) > 0 THEN Unit ELSE 0
        BY DEF NeedyPaid
    <2>1. TypeOK /\ ~deck.spherical
        BY DEF NeedyInv, Settled, TypeOK
    <2>2. z \in Int /\ z \in 1 .. Columns /\ SumOfWeights(z) \in Int
        BY <2>1, InteriorStored, WeightsCount
    <2>3. stolen[b][z] - stolen[b][z + 1] =
            IF SumOfWeights(z) > 0 THEN SumOfWeights(z) * (Unit \div SumOfWeights(z)) ELSE 0
        BY <2>1 DEF NeedyInv, PaidInv
    <2>4. \A s \in Int : s > 0 /\ Unit % s = 0 => s * (Unit \div s) = Unit
        BY CorrectionAssumption, SMTT(30)
    <2> QED BY <2>2, <2>3, <2>4 DEF UnitDivides
<1> QED BY <1>1, InitNeedy, NextNeedy, PTL DEF Spec
-----------------------------------------------------------------------------
(***************************************************************************)
(* The schemes of FaceStates, for any values of a stencil.  Those that add *)
(* no extremes stay between the zones next to a face, and the linear ones  *)
(* of a zone have its value as their mean.                                 *)
(***************************************************************************)
Ends == [l : Int, r : Int]

\* Both ends of the middle zone are between its value and that of the zone on their side
Bounded(e, x2, x3, x4) ==
    /\ e \in Ends
    /\ least(x2, x3) <= e.l /\ e.l <= greatest(x2, x3)
    /\ least(x3, x4) <= e.r /\ e.r <= greatest(x3, x4)

\* A slope no steeper than twice each difference
Gentle(dq, dm, dp) ==
    \/ dq = 0
    \/ dq >= 0 /\ dq <= 2 * dm /\ dq <= 2 * dp
    \/ dq <= 0 /\ dq >= 2 * dm /\ dq >= 2 * dp

\* A zone's value is the mean of its ends, or one scheme's ends are another's, exchanged
Centered(e, x3) == e.l + e.r = 2 * x3
Alike(e, m) == magnitude(e.l - m.r) <= rounding /\ magnitude(e.r - m.l) <= rounding
Turned(e, m) == e.l = m.r /\ e.r = m.l

LEMMA SlopeMC ==
    ASSUME NEW dm \in Int, NEW dp \in Int
    PROVE  /\ mcSlope(dm, dp) \in Int /\ Gentle(mcSlope(dm, dp), dm, dp)
           /\ mcSlope(-dp, -dm) = -mcSlope(dm, dp)
<1> USE DEF Gentle
<1>1. CASE dm > 0 /\ dp > 0
    BY <1>1 DEF mcSlope, sign, greatest, least
<1>2. CASE dm < 0 /\ dp < 0
    BY <1>2 DEF mcSlope, sign, greatest, least
<1>3. CASE dm = 0 \/ dp = 0 \/ (dm > 0 /\ dp < 0) \/ (dm < 0 /\ dp > 0)
    <2>1. mcSlope(dm, dp) = 0 /\ mcSlope(-dp, -dm) = 0
        BY <1>3 DEF mcSlope, sign, greatest, least
    <2> QED BY <2>1
<1> QED BY <1>1, <1>2, <1>3

LEMMA LinearMC ==
    ASSUME NEW x1 \in Int, NEW x2 \in Int, NEW x3 \in Int, NEW x4 \in Int, NEW x5 \in Int
    PROVE  /\ Bounded(linear_mc(x1, x2, x3, x4, x5), x2, x3, x4)
           /\ Centered(linear_mc(x1, x2, x3, x4, x5), x3)
           /\ Alike(linear_mc(x1, x2, x3, x4, x5), linear_mc(x5, x4, x3, x2, x1))
<1> DEFINE dq == mcSlope(x3 - x2, x4 - x3)   dr == mcSlope(x3 - x4, x2 - x3)
<1>1. /\ dq \in Int
      /\ Gentle(dq, x3 - x2, x4 - x3) /\ dr = -dq
    <2>1. PICK dm \in Int, dp \in Int : dm = x3 - x2 /\ dp = x4 - x3
        OBVIOUS
    <2>2. x3 - x4 = -dp /\ x2 - x3 = -dm
        BY <2>1
    <2>3. dq = mcSlope(dm, dp) /\ dr = mcSlope(-dp, -dm)
        BY <2>1, <2>2
    <2> HIDE DEF dq, dr
    <2>4. dq \in Int /\ dr = -dq /\ Gentle(dq, dm, dp)
        BY <2>3, SlopeMC
    <2> QED BY <2>1, <2>4
<1>2. /\ linear_mc(x1, x2, x3, x4, x5) = [l |-> x3 - dq \div 2, r |-> x3 + dq \div 2]
      /\ linear_mc(x5, x4, x3, x2, x1) = [l |-> x3 - dr \div 2, r |-> x3 + dr \div 2]
    BY DEF linear_mc
<1> HIDE DEF dq, dr
<1> QED BY <1>1, <1>2 DEF Gentle, Bounded, Ends, Centered, Alike, least, greatest, magnitude, rounding

\* The harmonic mean of two positive slopes is at most twice the smaller
LEMMA Harmonic ==
    ASSUME NEW a \in Nat \ {0}, NEW b \in Nat \ {0}
    PROVE  (2 * (a * b)) \div (a + b) \in 0 .. 2 * a
<1> DEFINE q == (2 * (a * b)) \div (a + b)
<1>1. a * b \in Nat /\ a + b \in Nat \ {0}
    OBVIOUS
<1>2. q \in Int /\ q * (a + b) <= 2 * (a * b) /\ 2 * (a * b) < (q + 1) * (a + b)
    <2>1. \A p \in Nat, s \in Nat \ {0} : /\ p \div s \in Int /\ (p \div s) * s <= p
                                          /\ p < ((p \div s) + 1) * s
        BY SMT
    <2>2. PICK p \in Nat, s \in Nat \ {0} : p = 2 * (a * b) /\ s = a + b
        BY <1>1
    <2>3. q = p \div s
        BY <2>2
    <2> HIDE DEF q
    <2>4. q \in Int /\ q * s <= p /\ p < (q + 1) * s
        BY <2>1, <2>3
    <2> QED BY <2>2, <2>4
<1> HIDE DEF q
<1>3. q >= 0
    <2> SUFFICES ASSUME q <= -1 PROVE FALSE
        BY <1>2
    <2>1. (q + 1) * (a + b) <= 0
        BY <1>1, <1>2
    <2> QED BY <1>1, <1>2, <2>1
<1>4. q <= 2 * a
    <2> SUFFICES ASSUME q >= 2 * a + 1 PROVE FALSE
        BY <1>2
    <2>1. q * (a + b) >= (2 * a + 1) * (a + b)
        BY <1>1, <1>2
    <2>2. (2 * a + 1) * (a + b) = 2 * (a * a) + 2 * (a * b) + a + b /\ a * a \in Nat
        OBVIOUS
    <2> QED BY <1>1, <1>2, <2>1, <2>2
<1> QED BY <1>2, <1>3, <1>4 DEF q

LEMMA LinearVL ==
    ASSUME NEW x1 \in Int, NEW x2 \in Int, NEW x3 \in Int, NEW x4 \in Int, NEW x5 \in Int
    PROVE  /\ Bounded(linear_vl(x1, x2, x3, x4, x5), x2, x3, x4)
           /\ Centered(linear_vl(x1, x2, x3, x4, x5), x3)
           /\ Alike(linear_vl(x1, x2, x3, x4, x5), linear_vl(x5, x4, x3, x2, x1))
<1> DEFINE dm == x3 - x2   dp == x4 - x3
           Slope(dq2, d) == IF dq2 <= 0 THEN 0 ELSE sign(d) * ((2 * dq2) \div magnitude(d))
           dq == Slope(dm * dp, x4 - x2)   dr == Slope((x3 - x4) * (x2 - x3), x2 - x4)
<1>1. /\ linear_vl(x1, x2, x3, x4, x5) = [l |-> x3 - dq \div 2, r |-> x3 + dq \div 2]
      /\ linear_vl(x5, x4, x3, x2, x1) = [l |-> x3 - dr \div 2, r |-> x3 + dr \div 2]
    BY DEF linear_vl
<1>2. (x3 - x4) * (x2 - x3) = dm * dp /\ dm * dp \in Int
    OBVIOUS
<1>3. dq \in Int /\ dr \in Int /\ dq + dr = 0 /\ Gentle(dq, dm, dp)
    <2>1. CASE dm > 0 /\ dp > 0
        <3>1. dm * dp > 0 /\ x4 - x2 = dm + dp /\ x4 - x2 = dp + dm /\ dp * dm = dm * dp
            BY <2>1
        <3>2. (2 * (dm * dp)) \div (dm + dp) \in 0 .. 2 * dm /\ (2 * (dp * dm)) \div (dp + dm) \in 0 .. 2 * dp
            BY <2>1, Harmonic
        <3>3. sign(x4 - x2) = 1 /\ sign(x2 - x4) = -1 /\ magnitude(x4 - x2) = dm + dp
              /\ magnitude(x2 - x4) = dm + dp
            BY <2>1 DEF sign, magnitude
        <3>4. dq = (2 * (dm * dp)) \div (dm + dp) /\ dr = -((2 * (dm * dp)) \div (dm + dp))
            BY <1>2, <3>1, <3>2, <3>3
        <3> HIDE DEF dq, dr, dm, dp
        <3>5. dq \in 0 .. 2 * dm /\ dq \in 0 .. 2 * dp /\ dr = -dq
            BY <3>1, <3>2, <3>4
        <3>6. dm \in Int /\ dp \in Int
            BY DEF dm, dp
        <3> QED BY <3>5, <3>6 DEF Gentle
    <2>2. CASE dm < 0 /\ dp < 0
        <3>1. dm * dp > 0 /\ dm * dp = (-dm) * (-dp) /\ dm * dp = (-dp) * (-dm)
            BY <2>2
        <3>2. (2 * ((-dm) * (-dp))) \div ((-dm) + (-dp)) \in 0 .. 2 * (-dm)
              /\ (2 * ((-dp) * (-dm))) \div ((-dp) + (-dm)) \in 0 .. 2 * (-dp)
            BY <2>2, Harmonic
        <3>3. sign(x4 - x2) = -1 /\ sign(x2 - x4) = 1 /\ magnitude(x4 - x2) = (-dm) + (-dp)
              /\ magnitude(x2 - x4) = (-dm) + (-dp) /\ (-dp) + (-dm) = (-dm) + (-dp)
            BY <2>2 DEF sign, magnitude
        <3> DEFINE q == (2 * (dm * dp)) \div ((-dm) + (-dp))
        <3>4. q \in 0 .. 2 * (-dm) /\ q \in 0 .. 2 * (-dp)
            BY <3>1, <3>2, <3>3
        <3>5. dq = -q /\ dr = q
            BY <1>2, <3>1, <3>3, <3>4
        <3> HIDE DEF dq, dr, q
        <3>6. dm \in Int /\ dp \in Int
            OBVIOUS
        <3> HIDE DEF dm, dp
        <3> QED BY <3>4, <3>5, <3>6 DEF Gentle
    <2>3. CASE dm = 0 \/ dp = 0 \/ (dm > 0 /\ dp < 0) \/ (dm < 0 /\ dp > 0)
        <3>1. dm * dp <= 0
            BY <2>3
        <3>2. dq = 0 /\ dr = 0
            BY <1>2, <3>1
        <3> HIDE DEF dq, dr, dm, dp
        <3> QED BY <3>2 DEF Gentle
    <2> QED BY <2>1, <2>2, <2>3
<1> HIDE DEF dq, dr
<1> QED BY <1>1, <1>3 DEF Gentle, Bounded, Ends, Centered, Alike, least, greatest, magnitude, rounding

LEMMA PPM ==
    ASSUME NEW x1 \in Int, NEW x2 \in Int, NEW x3 \in Int, NEW x4 \in Int, NEW x5 \in Int
    PROVE  /\ Bounded(ppm(x1, x2, x3, x4, x5), x2, x3, x4)
           /\ Turned(ppm(x1, x2, x3, x4, x5), ppm(x5, x4, x3, x2, x1))
<1> DEFINE cut(a, x) == between(a, least(x3, x), greatest(x3, x))
           Steeper(d, c) == magnitude(d) >= 2 * magnitude(c)
<1>1. PICK p \in Int, q \in Int : /\ p = (7 * (x3 + x2) - (x1 + x4)) \div 12
                                  /\ q = (7 * (x3 + x4) - (x2 + x5)) \div 12
    OBVIOUS
<1>2. (7 * (x3 + x2) - (x4 + x1)) = (7 * (x3 + x2) - (x1 + x4))
      /\ (7 * (x3 + x4) - (x5 + x2)) = (7 * (x3 + x4) - (x2 + x5))
    OBVIOUS
<1>3. /\ Parabolic(x1, x2, x3, x4, x5) = [l |-> p, r |-> q]
      /\ Parabolic(x5, x4, x3, x2, x1) = [l |-> q, r |-> p]
    BY <1>1, <1>2 DEF Parabolic
<1>4. PICK b \in Int, c \in Int : b = cut(p, x2) /\ c = cut(q, x4)
    BY DEF between, least, greatest
<1>5. /\ least(x2, x3) <= b /\ b <= greatest(x2, x3)
      /\ least(x3, x4) <= c /\ c <= greatest(x3, x4)
    BY <1>4 DEF between, least, greatest
<1>6. /\ ppm(x1, x2, x3, x4, x5) = IF (c - x3) * (b - x3) >= 0 THEN [l |-> x3, r |-> x3]
                                   ELSE Monotonized(x3, [l |-> b, r |-> c])
      /\ ppm(x5, x4, x3, x2, x1) = IF (b - x3) * (c - x3) >= 0 THEN [l |-> x3, r |-> x3]
                                   ELSE Monotonized(x3, [l |-> c, r |-> b])
    BY <1>3, <1>4 DEF ppm
<1>7. (c - x3) * (b - x3) = (b - x3) * (c - x3)
    OBVIOUS
<1>8. /\ Monotonized(x3, [l |-> b, r |-> c]) =
            [l |-> IF Steeper(b - x3, c - x3) THEN x3 - 2 * (c - x3) ELSE b,
             r |-> IF Steeper(c - x3, b - x3) THEN x3 - 2 * (b - x3) ELSE c]
      /\ Monotonized(x3, [l |-> c, r |-> b]) =
            [l |-> IF Steeper(c - x3, b - x3) THEN x3 - 2 * (b - x3) ELSE c,
             r |-> IF Steeper(b - x3, c - x3) THEN x3 - 2 * (c - x3) ELSE b]
    BY DEF Monotonized
<1>9. CASE (c - x3) * (b - x3) >= 0
    <2>1. ppm(x1, x2, x3, x4, x5) = [l |-> x3, r |-> x3]
          /\ ppm(x5, x4, x3, x2, x1) = [l |-> x3, r |-> x3]
        BY <1>6, <1>7, <1>9
    <2> QED BY <2>1 DEF Bounded, Ends, Turned, least, greatest
<1>10. CASE ~((c - x3) * (b - x3) >= 0)
    <2>1. (b > x3 /\ c < x3) \/ (b < x3 /\ c > x3)
        <3>1. (b >= x3 /\ c >= x3) \/ (b <= x3 /\ c <= x3) => (c - x3) * (b - x3) >= 0
            <4>1. PICK s \in Int, t \in Int : s = c - x3 /\ t = b - x3
                OBVIOUS
            <4>2. (s >= 0 /\ t >= 0) \/ (s <= 0 /\ t <= 0) => s * t >= 0
                OBVIOUS
            <4> QED BY <4>1, <4>2
        <3> QED BY <1>10, <3>1
    <2>2. /\ ppm(x1, x2, x3, x4, x5) = Monotonized(x3, [l |-> b, r |-> c])
          /\ ppm(x5, x4, x3, x2, x1) = Monotonized(x3, [l |-> c, r |-> b])
        BY <1>6, <1>7, <1>10
    <2>3. Bounded(Monotonized(x3, [l |-> b, r |-> c]), x2, x3, x4)
        BY <1>5, <1>8, <2>1 DEF Bounded, Ends, least, greatest, magnitude
    <2> QED BY <1>8, <2>2, <2>3 DEF Turned
<1> QED BY <1>9, <1>10 DEF Turned

\* Of the other schemes: what they give are numbers, the same for a mirrored stencil
LEMMA MinmodTypes == \A a \in Int, b \in Int : MINMOD(a, b) \in Int
BY DEF MINMOD

Smallest4(s, t, m) == MINMOD(MINMOD(4 * s - t, 4 * t - s), m)

Mp5Of(f, fMP, c, d, fUL, fMD, fLC) ==
    IF (f - c) * (f - fMP) <= 0 THEN f
    ELSE Median(f, greatest(least(least(c, d), fMD), least(least(c, fUL), fLC)),
                   least(greatest(greatest(c, d), fMD), greatest(greatest(c, fUL), fLC)))

LEMMA PartsOfMP5 ==
    ASSUME NEW a, NEW b, NEW c, NEW d, NEW e
    PROVE  mp5_subcalc(a, b, c, d, e) =
             Mp5Of((2 * a - 13 * b + 47 * c + 27 * d - 3 * e) \div 60,
                   c + MINMOD(d - c, 4 * (c - b)), c, d, c + 4 * (c - b),
                   (c + d - Smallest4(b + d - 2 * c, c + e - 2 * d,
                                        MINMOD(b + d - 2 * c, c + e - 2 * d))) \div 2,
                   (3 * c - b) \div 2 + (4 * Smallest4(a + c - 2 * b, b + d - 2 * c,
                                                 MINMOD(b + d - 2 * c, a + c - 2 * b))) \div 3)
BY DEF mp5_subcalc, Mp5Of, Smallest4

LEMMA MP5 ==
    ASSUME NEW x1 \in Int, NEW x2 \in Int, NEW x3 \in Int, NEW x4 \in Int, NEW x5 \in Int
    PROVE  /\ mp5(x1, x2, x3, x4, x5) \in Ends
           /\ Turned(mp5(x1, x2, x3, x4, x5), mp5(x5, x4, x3, x2, x1))
<1>1. ASSUME NEW a \in Int, NEW b \in Int, NEW c \in Int, NEW d \in Int, NEW e \in Int
      PROVE  mp5_subcalc(a, b, c, d, e) \in Int
    <2>1. PICK f \in Int, fMP \in Int :
            /\ f = (2 * a - 13 * b + 47 * c + 27 * d - 3 * e) \div 60
            /\ fMP = c + MINMOD(d - c, 4 * (c - b))
        BY MinmodTypes
    <2>2. PICK d2m \in Int, d2 \in Int, d2p \in Int :
            d2m = a + c - 2 * b /\ d2 = b + d - 2 * c /\ d2p = c + e - 2 * d
        OBVIOUS
    <2>3. PICK dMMp \in Int, dMMm \in Int :
            dMMp = Smallest4(d2, d2p, MINMOD(d2, d2p)) /\ dMMm = Smallest4(d2m, d2, MINMOD(d2, d2m))
        <3>1. \A s \in Int, t \in Int, m \in Int : Smallest4(s, t, m) \in Int
            BY MinmodTypes DEF Smallest4
        <3> QED BY <3>1, MinmodTypes
    <2>4. PICK fUL \in Int, fMD \in Int, fLC \in Int :
            /\ fUL = c + 4 * (c - b) /\ fMD = (c + d - dMMp) \div 2
            /\ fLC = (3 * c - b) \div 2 + (4 * dMMm) \div 3
        OBVIOUS
    <2>5. PICK fmin \in Int, fmax \in Int :
            /\ fmin = greatest(least(least(c, d), fMD), least(least(c, fUL), fLC))
            /\ fmax = least(greatest(greatest(c, d), fMD), greatest(greatest(c, fUL), fLC))
        BY DEF least, greatest
    <2>6. mp5_subcalc(a, b, c, d, e) = Mp5Of(f, fMP, c, d, fUL, fMD, fLC)
        BY <2>1, <2>2, <2>3, <2>4, PartsOfMP5
    <2>7. Median(f, fmin, fmax) \in Int
        BY MinmodTypes DEF Median
    <2> QED BY <2>1, <2>5, <2>6, <2>7 DEF Mp5Of
<1> QED BY <1>1 DEF mp5, Ends, Turned

LEMMA Divided == \A n \in Int, d \in Nat \ {0} : n \div d \in Int
BY SMT

LEMMA Weights5 ==
    ASSUME NEW a \in Nat, NEW b \in Nat, NEW c \in Nat, NEW g \in Nat \ {0}
    PROVE  /\ Weighed(g, <<a, b, c>>, 1) = Weighed(g, <<c, b, a>>, 3)
           /\ Weighed(g, <<a, b, c>>, 2) = Weighed(g, <<c, b, a>>, 2)
           /\ \A k \in 1 .. 3 : Weighed(g, <<a, b, c>>, k) \in Nat
           /\ a <= b /\ a <= c => Weighed(g, <<a, b, c>>, 1) > 0
           /\ b <= a /\ b <= c => Weighed(g, <<a, b, c>>, 2) > 0
           /\ c <= a /\ c <= b => Weighed(g, <<a, b, c>>, 3) > 0
<1> DEFINE Share(s, n) == IF n = 0 THEN 100 ELSE (100 * s) \div n
<1>1. PICK s \in Nat : /\ s = least(a, least(b, c)) /\ s = least(c, least(b, a))
                       /\ a <= b /\ a <= c => s = a
                       /\ b <= a /\ b <= c => s = b
                       /\ c <= a /\ c <= b => s = c
    BY DEF least
<1>2. /\ Weighed(g, <<a, b, c>>, 1) = g * Share(s, a) * Share(s, a)
      /\ Weighed(g, <<a, b, c>>, 2) = g * Share(s, b) * Share(s, b)
      /\ Weighed(g, <<a, b, c>>, 3) = g * Share(s, c) * Share(s, c)
      /\ Weighed(g, <<c, b, a>>, 2) = g * Share(s, b) * Share(s, b)
      /\ Weighed(g, <<c, b, a>>, 3) = g * Share(s, a) * Share(s, a)
    BY <1>1 DEF Weighed
<1>3. \A n \in Nat : Share(s, n) \in Nat /\ (s = n => Share(s, n) = 100)
    <2>1. \A m \in Nat, n \in Nat \ {0} : m \div n \in Nat
        BY SMT
    <2>2. \A n \in Nat \ {0} : (100 * n) \div n = 100
        BY SMT
    <2> QED BY <2>1, <2>2
<1>4. \A n \in Nat : g * n * n \in Nat /\ (n = 100 => g * n * n > 0)
    OBVIOUS
<1> HIDE DEF Share
<1> QED BY <1>1, <1>2, <1>3, <1>4

Rough(c1, c2) == 13 * c1 * c1 + 3 * c2 * c2

LEMMA RoughIs ==
    ASSUME NEW c1 \in Int, NEW c2 \in Int
    PROVE  Rough(c1, c2) \in Nat /\ Rough(c1, -c2) = Rough(c1, c2)
<1>1. PICK p \in Nat, q \in Nat : p = c1 * c1 /\ q = c2 * c2 /\ q = (-c2) * (-c2)
    <2>1. c1 * c1 \in Nat /\ c2 * c2 \in Nat /\ c2 * c2 = (-c2) * (-c2)
        OBVIOUS
    <2> QED BY <2>1
<1>2. 13 * c1 * c1 = 13 * p /\ 3 * c2 * c2 = 3 * q /\ 3 * (-c2) * (-c2) = 3 * q
    BY <1>1
<1>3. Rough(c1, c2) = 13 * p + 3 * q /\ Rough(c1, -c2) = 13 * p + 3 * q
    BY <1>2 DEF Rough
<1> QED BY <1>3

LEMMA Weno5 ==
    ASSUME NEW x1 \in Int, NEW x2 \in Int, NEW x3 \in Int, NEW x4 \in Int, NEW x5 \in Int
    PROVE  /\ weno5(x1, x2, x3, x4, x5) \in Ends
           /\ Turned(weno5(x1, x2, x3, x4, x5), weno5(x5, x4, x3, x2, x1))
<1> DEFINE Mean(a1, a2, a3, b) ==
               WenoMean(<<a1, a2, a3>>, <<Weighed(1, b, 1), Weighed(10, b, 2), Weighed(5, b, 3)>>)
           Mirrored(a1, a2, a3, b) ==
               WenoMean(<<a1, a2, a3>>, <<Weighed(1, b, 3), Weighed(10, b, 2), Weighed(5, b, 1)>>)
<1>1. FaceUnit \in Nat \ {0}
    BY FacesAssumption
<1>2. PICK u \in Int, y1 \in Int, y2 \in Int, y3 \in Int, y4 \in Int, y5 \in Int :
          /\ u = FaceUnit \div 8
          /\ y1 = x1 \div FaceUnit /\ y2 = x2 \div FaceUnit /\ y3 = x3 \div FaceUnit
          /\ y4 = x4 \div FaceUnit /\ y5 = x5 \div FaceUnit
    <2>1. \A x \in Int : x \div FaceUnit \in Int
        BY <1>1
    <2>2. FaceUnit \div 8 \in Int
        BY <1>1
    <2> QED BY <2>1, <2>2
<1>4. PICK b1 \in Nat, b2 \in Nat, b3 \in Nat :
          /\ b1 = Rough(y1 - 2 * y2 + y3, y1 - 4 * y2 + 3 * y3)
          /\ b2 = Rough(y2 - 2 * y3 + y4, y4 - y2)
          /\ b3 = Rough(y3 - 2 * y4 + y5, y5 - 4 * y4 + 3 * y3)
    <2>1. /\ Rough(y1 - 2 * y2 + y3, y1 - 4 * y2 + 3 * y3) \in Nat
          /\ Rough(y2 - 2 * y3 + y4, y4 - y2) \in Nat
          /\ Rough(y3 - 2 * y4 + y5, y5 - 4 * y4 + 3 * y3) \in Nat
        BY RoughIs
    <2> QED BY <2>1, Zenon
<1>5. /\ Rough(y5 - 2 * y4 + y3, y5 - 4 * y4 + 3 * y3) = b3
      /\ Rough(y4 - 2 * y3 + y2, y2 - y4) = b2
      /\ Rough(y3 - 2 * y2 + y1, y1 - 4 * y2 + 3 * y3) = b1
    <2>1. /\ y5 - 2 * y4 + y3 = y3 - 2 * y4 + y5 /\ y4 - 2 * y3 + y2 = y2 - 2 * y3 + y4
          /\ y3 - 2 * y2 + y1 = y1 - 2 * y2 + y3
        OBVIOUS
    <2>2. PICK s \in Int, t \in Int : s = y2 - 2 * y3 + y4 /\ t = y4 - y2 /\ -t = y2 - y4
        OBVIOUS
    <2>3. Rough(s, -t) = Rough(s, t)
        BY RoughIs
    <2> QED BY <1>4, <2>1, <2>2, <2>3
<1>6. PICK p1 \in Int, p2 \in Int, p3 \in Int, q1 \in Int, q2 \in Int, q3 \in Int :
          /\ p1 = u * (3 * y5 - 10 * y4 + 15 * y3) /\ p2 = u * (6 * y3 + 3 * y2 - y4)
          /\ p3 = u * (3 * y3 + 6 * y2 - y1)
          /\ q1 = u * (3 * y1 - 10 * y2 + 15 * y3) /\ q2 = u * (6 * y3 + 3 * y4 - y2)
          /\ q3 = u * (3 * y3 + 6 * y4 - y5)
    OBVIOUS
<1>7. weno5(x1, x2, x3, x4, x5) = [l |-> Mirrored(p1, p2, p3, <<b1, b2, b3>>),
                                   r |-> Mean(q1, q2, q3, <<b1, b2, b3>>)]
    BY <1>2, <1>4, <1>6 DEF weno5, Rough
<1>8. weno5(x5, x4, x3, x2, x1) = [l |-> Mirrored(q1, q2, q3, <<b3, b2, b1>>),
                                   r |-> Mean(p1, p2, p3, <<b3, b2, b1>>)]
    BY <1>2, <1>5, <1>6 DEF weno5, Rough
<1>9. \A g \in Nat \ {0} :
          /\ Weighed(g, <<b3, b2, b1>>, 1) = Weighed(g, <<b1, b2, b3>>, 3)
          /\ Weighed(g, <<b3, b2, b1>>, 2) = Weighed(g, <<b1, b2, b3>>, 2)
          /\ Weighed(g, <<b3, b2, b1>>, 3) = Weighed(g, <<b1, b2, b3>>, 1)
    BY Weights5
<1>10. Mirrored(p1, p2, p3, <<b1, b2, b3>>) = Mean(p1, p2, p3, <<b3, b2, b1>>)
       /\ Mirrored(q1, q2, q3, <<b3, b2, b1>>) = Mean(q1, q2, q3, <<b1, b2, b3>>)
    BY <1>9
<1>11. ASSUME NEW a1 \in Int, NEW a2 \in Int, NEW a3 \in Int,
              NEW b, b \in {<<b1, b2, b3>>, <<b3, b2, b1>>}
       PROVE  Mean(a1, a2, a3, b) \in Int
    <2>1. PICK c1 \in Nat, c2 \in Nat, c3 \in Nat : b = <<c1, c2, c3>>
        BY <1>11
    <2>2. PICK w1 \in Nat, w2 \in Nat, w3 \in Nat :
              /\ w1 = Weighed(1, b, 1) /\ w2 = Weighed(10, b, 2) /\ w3 = Weighed(5, b, 3)
              /\ w1 > 0 \/ w2 > 0 \/ w3 > 0
        <3>1. (c1 <= c2 /\ c1 <= c3) \/ (c2 <= c1 /\ c2 <= c3) \/ (c3 <= c1 /\ c3 <= c2)
            OBVIOUS
        <3>2. \A g \in Nat \ {0} :
                  /\ \A k \in 1 .. 3 : Weighed(g, b, k) \in Nat
                  /\ c1 <= c2 /\ c1 <= c3 => Weighed(g, b, 1) > 0
                  /\ c2 <= c1 /\ c2 <= c3 => Weighed(g, b, 2) > 0
                  /\ c3 <= c1 /\ c3 <= c2 => Weighed(g, b, 3) > 0
            BY <2>1, Weights5
        <3>3. /\ Weighed(1, b, 1) \in Nat /\ Weighed(10, b, 2) \in Nat /\ Weighed(5, b, 3) \in Nat
              /\ Weighed(1, b, 1) > 0 \/ Weighed(10, b, 2) > 0 \/ Weighed(5, b, 3) > 0
            BY <3>1, <3>2
        <3> QED BY <3>3
    <2>3. Mean(a1, a2, a3, b) = (a1 * w1 + a2 * w2 + a3 * w3) \div (w1 + w2 + w3)
        BY <2>2 DEF WenoMean
    <2>4. a1 * w1 + a2 * w2 + a3 * w3 \in Int /\ w1 + w2 + w3 \in Nat \ {0}
        BY <2>2
    <2> QED BY <2>3, <2>4, Divided
<1> HIDE DEF Mean, Mirrored
<1> QED BY <1>7, <1>8, <1>10, <1>11 DEF Ends, Turned

LEMMA LeastOf ==
    ASSUME NEW a \in Int, NEW b \in Int, NEW c \in Int
    PROVE  Min({a, b, c}) \in {a, b, c}
<1>1. \E x \in {a, b, c} : \A y \in {a, b, c} : x <= y
    OBVIOUS
<1> QED BY <1>1 DEF Min

LEMMA LimitedIs ==
    ASSUME NEW d \in Int, NEW a \in Int, NEW b \in Int, NEW c \in Int
    PROVE  Limited(d, {a, b, c}) \in Int
<1>1. {magnitude(o) : o \in {a, b, c}} = {magnitude(a), magnitude(b), magnitude(c)}
    OBVIOUS
<1>2. \A o \in Int : magnitude(o) \in Nat
    BY DEF magnitude
<1>3. PICK s \in Nat : s = Min({magnitude(o) : o \in {a, b, c}})
    <2>1. PICK x \in Nat, y \in Nat, z \in Nat :
              x = magnitude(a) /\ y = magnitude(b) /\ z = magnitude(c)
        BY <1>2
    <2>2. Min({x, y, z}) \in {x, y, z}
        BY LeastOf
    <2> QED BY <1>1, <2>1, <2>2
<1>4. Limited(d, {a, b, c}) =
        IF (\A o \in {a, b, c} \cup {d} : o > 0) \/ (\A o \in {a, b, c} \cup {d} : o < 0)
        THEN sign(d) * least((5 * s) \div 4, magnitude(d)) ELSE 0
    BY <1>3 DEF Limited
<1>5. sign(d) * least((5 * s) \div 4, magnitude(d)) \in Int
    BY <1>2 DEF sign, least
<1> QED BY <1>4, <1>5

\* The parts of ppmx: edges kept inside, the zone's own curvature limited, its sides shrunk
EdgeKept(q, xa, xb, d, o) ==
    IF (xa - q) * (xb - q) > 0
    THEN (xa + xb) \div 2 - Limited(3 * (xa + xb - 2 * q), {d, o}) \div 6 ELSE q
EdgesKept(x2, x3, x4, e, dl, dc, dr) ==
    [l |-> EdgeKept(e.l, x2, x3, dc, dl), r |-> EdgeKept(e.r, x3, x4, dc, dr)]
SideShrunk(a, x, d, g) == IF d = 0 THEN x ELSE x + ((a - x) * g) \div magnitude(d)
SidesLimited(x2, x3, x4, q, d, g) ==
    IF (q.r - x3) * (x3 - q.l) <= 0 \/ (x2 - x3) * (x3 - x4) <= 0
    THEN [l |-> SideShrunk(q.l, x3, d, g), r |-> SideShrunk(q.r, x3, d, g)]
    ELSE Monotonized(x3, q)
Joined(x2, x3, x4, q, dl, dc, dr) ==
    SidesLimited(x2, x3, x4, q, 6 * (q.l + q.r - 2 * x3),
                 magnitude(Limited(6 * (q.l + q.r - 2 * x3), {dl, dc, dr})))

LEMMA PartsOfPPMX ==
    ASSUME NEW x1, NEW x2, NEW x3, NEW x4, NEW x5
    PROVE  ppmx(x1, x2, x3, x4, x5) =
             Joined(x2, x3, x4,
                    EdgesKept(x2, x3, x4, Parabolic(x1, x2, x3, x4, x5),
                              x1 + x3 - 2 * x2, x2 + x4 - 2 * x3, x3 + x5 - 2 * x4),
                    x1 + x3 - 2 * x2, x2 + x4 - 2 * x3, x3 + x5 - 2 * x4)
BY DEF ppmx, Joined, SidesLimited, SideShrunk, EdgesKept, EdgeKept

LEMMA PPMX ==
    ASSUME NEW x1 \in Int, NEW x2 \in Int, NEW x3 \in Int, NEW x4 \in Int, NEW x5 \in Int
    PROVE  /\ ppmx(x1, x2, x3, x4, x5) \in Ends
           /\ Turned(ppmx(x1, x2, x3, x4, x5), ppmx(x5, x4, x3, x2, x1))
<1> DEFINE Steeper(d, c) == magnitude(d) >= 2 * magnitude(c)
<1>1. PICK p \in Int, q \in Int : /\ p = (7 * (x3 + x2) - (x1 + x4)) \div 12
                                  /\ q = (7 * (x3 + x4) - (x2 + x5)) \div 12
    OBVIOUS
<1>2. (7 * (x3 + x2) - (x4 + x1)) = (7 * (x3 + x2) - (x1 + x4))
      /\ (7 * (x3 + x4) - (x5 + x2)) = (7 * (x3 + x4) - (x2 + x5))
    OBVIOUS
<1>3. /\ Parabolic(x1, x2, x3, x4, x5) = [l |-> p, r |-> q]
      /\ Parabolic(x5, x4, x3, x2, x1) = [l |-> q, r |-> p]
    BY <1>1, <1>2 DEF Parabolic
<1>4. PICK dl \in Int, dc \in Int, dr \in Int :
          /\ dl = x1 + x3 - 2 * x2 /\ dl = x3 + x1 - 2 * x2
          /\ dc = x2 + x4 - 2 * x3 /\ dc = x4 + x2 - 2 * x3
          /\ dr = x3 + x5 - 2 * x4 /\ dr = x5 + x3 - 2 * x4
    OBVIOUS
<1>5. ASSUME NEW a \in Int, NEW xa \in Int, NEW xb \in Int, NEW o \in Int
      PROVE  EdgeKept(a, xa, xb, dc, o) \in Int /\ EdgeKept(a, xa, xb, dc, o) = EdgeKept(a, xb, xa, dc, o)
    <2>1. /\ (xa - a) * (xb - a) = (xb - a) * (xa - a) /\ xa + xb = xb + xa
          /\ 3 * (xa + xb - 2 * a) \in Int
        OBVIOUS
    <2>2. {dc, o} = {dc, o, o}
        OBVIOUS
    <2>3. PICK n \in Int : n = Limited(3 * (xa + xb - 2 * a), {dc, o})
        BY <2>1, <2>2, LimitedIs
    <2>4. EdgeKept(a, xa, xb, dc, o) = IF (xa - a) * (xb - a) > 0 THEN (xa + xb) \div 2 - n \div 6 ELSE a
        BY <2>3 DEF EdgeKept
    <2>5. EdgeKept(a, xb, xa, dc, o) = IF (xa - a) * (xb - a) > 0 THEN (xa + xb) \div 2 - n \div 6 ELSE a
        BY <2>1, <2>3 DEF EdgeKept
    <2>6. (xa + xb) \div 2 - n \div 6 \in Int
        OBVIOUS
    <2> QED BY <2>4, <2>5, <2>6
<1>6. PICK a \in Int, b \in Int : /\ a = EdgeKept(p, x2, x3, dc, dl) /\ b = EdgeKept(q, x3, x4, dc, dr)
                                  /\ a = EdgeKept(p, x3, x2, dc, dl) /\ b = EdgeKept(q, x4, x3, dc, dr)
    <2>1. /\ EdgeKept(p, x2, x3, dc, dl) \in Int
          /\ EdgeKept(p, x2, x3, dc, dl) = EdgeKept(p, x3, x2, dc, dl)
          /\ EdgeKept(q, x3, x4, dc, dr) \in Int
          /\ EdgeKept(q, x3, x4, dc, dr) = EdgeKept(q, x4, x3, dc, dr)
        BY <1>5
    <2> QED BY <2>1
<1>7. PICK d \in Int : d = 6 * (a + b - 2 * x3) /\ d = 6 * (b + a - 2 * x3)
    OBVIOUS
<1>8. PICK g \in Nat : /\ g = magnitude(Limited(d, {dl, dc, dr}))
                       /\ g = magnitude(Limited(d, {dr, dc, dl}))
    <2>1. {dl, dc, dr} = {dr, dc, dl}
        OBVIOUS
    <2>2. magnitude(Limited(d, {dl, dc, dr})) \in Nat
        BY LimitedIs DEF magnitude
    <2> QED BY <2>1, <2>2
<1>9. /\ ppmx(x1, x2, x3, x4, x5) =
            IF (b - x3) * (x3 - a) <= 0 \/ (x2 - x3) * (x3 - x4) <= 0
            THEN [l |-> SideShrunk(a, x3, d, g), r |-> SideShrunk(b, x3, d, g)]
            ELSE Monotonized(x3, [l |-> a, r |-> b])
      /\ ppmx(x5, x4, x3, x2, x1) =
            IF (a - x3) * (x3 - b) <= 0 \/ (x4 - x3) * (x3 - x2) <= 0
            THEN [l |-> SideShrunk(b, x3, d, g), r |-> SideShrunk(a, x3, d, g)]
            ELSE Monotonized(x3, [l |-> b, r |-> a])
    <2>1. ppmx(x1, x2, x3, x4, x5) =
            IF (b - x3) * (x3 - a) <= 0 \/ (x2 - x3) * (x3 - x4) <= 0
            THEN [l |-> SideShrunk(a, x3, d, g), r |-> SideShrunk(b, x3, d, g)]
            ELSE Monotonized(x3, [l |-> a, r |-> b])
        <3>1. ppmx(x1, x2, x3, x4, x5) =
                Joined(x2, x3, x4, EdgesKept(x2, x3, x4, [l |-> p, r |-> q], dl, dc, dr), dl, dc, dr)
            BY <1>3, <1>4, PartsOfPPMX
        <3>2. EdgesKept(x2, x3, x4, [l |-> p, r |-> q], dl, dc, dr) = [l |-> a, r |-> b]
            BY <1>6 DEF EdgesKept
        <3>3. Joined(x2, x3, x4, [l |-> a, r |-> b], dl, dc, dr) =
                SidesLimited(x2, x3, x4, [l |-> a, r |-> b], d, g)
            BY <1>7, <1>8 DEF Joined
        <3> QED BY <3>1, <3>2, <3>3 DEF SidesLimited
    <2>2. ppmx(x5, x4, x3, x2, x1) =
            IF (a - x3) * (x3 - b) <= 0 \/ (x4 - x3) * (x3 - x2) <= 0
            THEN [l |-> SideShrunk(b, x3, d, g), r |-> SideShrunk(a, x3, d, g)]
            ELSE Monotonized(x3, [l |-> b, r |-> a])
        <3>1. ppmx(x5, x4, x3, x2, x1) =
                Joined(x4, x3, x2, EdgesKept(x4, x3, x2, [l |-> q, r |-> p], dr, dc, dl), dr, dc, dl)
            BY <1>3, <1>4, PartsOfPPMX
        <3>2. EdgesKept(x4, x3, x2, [l |-> q, r |-> p], dr, dc, dl) = [l |-> b, r |-> a]
            BY <1>6 DEF EdgesKept
        <3>3. Joined(x4, x3, x2, [l |-> b, r |-> a], dr, dc, dl) =
                SidesLimited(x4, x3, x2, [l |-> b, r |-> a], d, g)
            BY <1>7, <1>8 DEF Joined
        <3> QED BY <3>1, <3>2, <3>3 DEF SidesLimited
    <2> QED BY <2>1, <2>2
<1>10. /\ (b - x3) * (x3 - a) = (a - x3) * (x3 - b)
       /\ (x2 - x3) * (x3 - x4) = (x4 - x3) * (x3 - x2)
    OBVIOUS
<1>11. SideShrunk(a, x3, d, g) \in Int /\ SideShrunk(b, x3, d, g) \in Int
    <2>1. ASSUME NEW c \in Int PROVE SideShrunk(c, x3, d, g) \in Int
        <3>1. d # 0 => magnitude(d) \in Nat \ {0}
            BY DEF magnitude
        <3>2. (c - x3) * g \in Int
            OBVIOUS
        <3>3. d # 0 => ((c - x3) * g) \div magnitude(d) \in Int
            BY <3>1, <3>2, Divided
        <3> QED BY <3>3 DEF SideShrunk
    <2> QED BY <2>1
<1>12. /\ Monotonized(x3, [l |-> a, r |-> b]) =
            [l |-> IF Steeper(a - x3, b - x3) THEN x3 - 2 * (b - x3) ELSE a,
             r |-> IF Steeper(b - x3, a - x3) THEN x3 - 2 * (a - x3) ELSE b]
       /\ Monotonized(x3, [l |-> b, r |-> a]) =
            [l |-> IF Steeper(b - x3, a - x3) THEN x3 - 2 * (a - x3) ELSE b,
             r |-> IF Steeper(a - x3, b - x3) THEN x3 - 2 * (b - x3) ELSE a]
    BY DEF Monotonized
<1>13. CASE (b - x3) * (x3 - a) <= 0 \/ (x2 - x3) * (x3 - x4) <= 0
    <2>1. /\ ppmx(x1, x2, x3, x4, x5) = [l |-> SideShrunk(a, x3, d, g), r |-> SideShrunk(b, x3, d, g)]
          /\ ppmx(x5, x4, x3, x2, x1) = [l |-> SideShrunk(b, x3, d, g), r |-> SideShrunk(a, x3, d, g)]
        <3> QED BY <1>9, <1>10, <1>13
    <2> QED BY <1>11, <2>1 DEF Ends, Turned
<1>14. CASE ~((b - x3) * (x3 - a) <= 0 \/ (x2 - x3) * (x3 - x4) <= 0)
    <2>1. /\ ppmx(x1, x2, x3, x4, x5) = Monotonized(x3, [l |-> a, r |-> b])
          /\ ppmx(x5, x4, x3, x2, x1) = Monotonized(x3, [l |-> b, r |-> a])
        <3> QED BY <1>9, <1>10, <1>14
    <2> QED BY <1>12, <2>1 DEF Ends, Turned
<1> QED BY <1>13, <1>14

Linear == {"donor_cell", "linear_mc", "linear_vl"}
Schemes == Linear \cup {"weno5", "mp5", "ppm", "ppmx"}

\* What a scheme gives of a row q around zone z, and of one p that is its mirror image there
LEMMA Reconstructs ==
    ASSUME NEW s \in Schemes, NEW q, NEW z \in Int,
           q[z - 2] \in Int, q[z - 1] \in Int, q[z] \in Int, q[z + 1] \in Int, q[z + 2] \in Int
    PROVE  /\ reconstruct(s, q, z) \in Ends
           /\ s \in Smooth => Bounded(reconstruct(s, q, z), q[z - 1], q[z], q[z + 1])
           /\ s \in Linear => Centered(reconstruct(s, q, z), q[z])
<1> USE DEF Smooth, Linear
<1>a. PICK x1 \in Int, x2 \in Int, x3 \in Int, x4 \in Int, x5 \in Int :
          x1 = q[z - 2] /\ x2 = q[z - 1] /\ x3 = q[z] /\ x4 = q[z + 1] /\ x5 = q[z + 2]
    OBVIOUS
<1>1. CASE s = "donor_cell"
    <2>1. reconstruct(s, q, z) = [l |-> x3, r |-> x3]
        BY <1>a, <1>1 DEF reconstruct, donor_cell
    <2> QED BY <1>a, <1>1, <2>1 DEF Bounded, Centered, Ends, least, greatest
<1>2. CASE s = "linear_mc"
    <2>1. reconstruct(s, q, z) = linear_mc(x1, x2, x3, x4, x5)
        BY <1>a, <1>2 DEF reconstruct
    <2>2. PICK e : e = linear_mc(x1, x2, x3, x4, x5) /\ Bounded(e, x2, x3, x4) /\ Centered(e, x3)
        BY LinearMC
    <2> QED BY <1>a, <1>2, <2>1, <2>2 DEF Bounded
<1>3. CASE s = "linear_vl"
    <2>1. reconstruct(s, q, z) = linear_vl(x1, x2, x3, x4, x5)
        BY <1>a, <1>3 DEF reconstruct
    <2>2. PICK e : e = linear_vl(x1, x2, x3, x4, x5) /\ Bounded(e, x2, x3, x4) /\ Centered(e, x3)
        BY LinearVL
    <2> QED BY <1>a, <1>3, <2>1, <2>2 DEF Bounded
<1>4. CASE s = "ppm"
    <2>1. reconstruct(s, q, z) = ppm(x1, x2, x3, x4, x5)
        BY <1>a, <1>4 DEF reconstruct
    <2>2. PICK e : e = ppm(x1, x2, x3, x4, x5) /\ Bounded(e, x2, x3, x4)
        BY PPM
    <2> QED BY <1>a, <1>4, <2>1, <2>2 DEF Bounded
<1>5. CASE s = "weno5"
    <2>1. reconstruct(s, q, z) = weno5(x1, x2, x3, x4, x5)
        BY <1>a, <1>5 DEF reconstruct
    <2>2. PICK e : e = weno5(x1, x2, x3, x4, x5) /\ e \in Ends
        BY Weno5
    <2> QED BY <1>a, <1>5, <2>1, <2>2 DEF Bounded
<1>6. CASE s = "mp5"
    <2>1. reconstruct(s, q, z) = mp5(x1, x2, x3, x4, x5)
        BY <1>a, <1>6 DEF reconstruct
    <2>2. PICK e : e = mp5(x1, x2, x3, x4, x5) /\ e \in Ends
        BY MP5
    <2> QED BY <1>a, <1>6, <2>1, <2>2 DEF Bounded
<1>7. CASE s = "ppmx"
    <2>1. reconstruct(s, q, z) = ppmx(x1, x2, x3, x4, x5)
        BY <1>a, <1>7 DEF reconstruct
    <2>2. PICK e : e = ppmx(x1, x2, x3, x4, x5) /\ e \in Ends
        BY PPMX
    <2> QED BY <1>a, <1>7, <2>1, <2>2 DEF Bounded
<1> QED BY <1>1, <1>2, <1>3, <1>4, <1>5, <1>6, <1>7 DEF Schemes

LEMMA Mirrors ==
    ASSUME NEW s \in Schemes, NEW q, NEW z \in Int, NEW p, NEW y \in Int,
           q[z - 2] \in Int, q[z - 1] \in Int, q[z] \in Int, q[z + 1] \in Int, q[z + 2] \in Int,
           p[y - 2] = q[z + 2], p[y - 1] = q[z + 1], p[y] = q[z], p[y + 1] = q[z - 1],
           p[y + 2] = q[z - 2]
    PROVE  Alike(reconstruct(s, q, z), reconstruct(s, p, y))
<1>a. PICK x1 \in Int, x2 \in Int, x3 \in Int, x4 \in Int, x5 \in Int :
          x1 = q[z - 2] /\ x2 = q[z - 1] /\ x3 = q[z] /\ x4 = q[z + 1] /\ x5 = q[z + 2]
    OBVIOUS
<1>0. \A e \in Ends : \A m : Turned(e, m) => Alike(e, m)
    BY DEF Ends, Turned, Alike, magnitude, rounding
<1>1. CASE s = "donor_cell"
    <2>1. reconstruct(s, q, z) = [l |-> x3, r |-> x3] /\ reconstruct(s, p, y) = [l |-> x3, r |-> x3]
        BY <1>a, <1>1 DEF reconstruct, donor_cell
    <2> QED BY <1>a, <2>1 DEF Alike, magnitude, rounding
<1>2. CASE s = "linear_mc"
    <2>1. /\ reconstruct(s, q, z) = linear_mc(x1, x2, x3, x4, x5)
          /\ reconstruct(s, p, y) = linear_mc(x5, x4, x3, x2, x1)
        BY <1>a, <1>2 DEF reconstruct
    <2>2. Alike(linear_mc(x1, x2, x3, x4, x5), linear_mc(x5, x4, x3, x2, x1))
        BY LinearMC
    <2> QED BY <2>1, <2>2
<1>3. CASE s = "linear_vl"
    <2>1. /\ reconstruct(s, q, z) = linear_vl(x1, x2, x3, x4, x5)
          /\ reconstruct(s, p, y) = linear_vl(x5, x4, x3, x2, x1)
        BY <1>a, <1>3 DEF reconstruct
    <2>2. Alike(linear_vl(x1, x2, x3, x4, x5), linear_vl(x5, x4, x3, x2, x1))
        BY LinearVL
    <2> QED BY <2>1, <2>2
<1>4. CASE s = "ppm"
    <2>1. /\ reconstruct(s, q, z) = ppm(x1, x2, x3, x4, x5)
          /\ reconstruct(s, p, y) = ppm(x5, x4, x3, x2, x1)
        BY <1>a, <1>4 DEF reconstruct
    <2>2. /\ ppm(x1, x2, x3, x4, x5) \in Ends
          /\ Turned(ppm(x1, x2, x3, x4, x5), ppm(x5, x4, x3, x2, x1))
        BY PPM DEF Bounded
    <2> QED BY <1>0, <2>1, <2>2
<1>5. CASE s = "weno5"
    <2>1. /\ reconstruct(s, q, z) = weno5(x1, x2, x3, x4, x5)
          /\ reconstruct(s, p, y) = weno5(x5, x4, x3, x2, x1)
        BY <1>a, <1>5 DEF reconstruct
    <2>2. /\ weno5(x1, x2, x3, x4, x5) \in Ends
          /\ Turned(weno5(x1, x2, x3, x4, x5), weno5(x5, x4, x3, x2, x1))
        BY Weno5 DEF Bounded
    <2> QED BY <1>0, <2>1, <2>2
<1>6. CASE s = "mp5"
    <2>1. /\ reconstruct(s, q, z) = mp5(x1, x2, x3, x4, x5)
          /\ reconstruct(s, p, y) = mp5(x5, x4, x3, x2, x1)
        BY <1>a, <1>6 DEF reconstruct
    <2>2. /\ mp5(x1, x2, x3, x4, x5) \in Ends
          /\ Turned(mp5(x1, x2, x3, x4, x5), mp5(x5, x4, x3, x2, x1))
        BY MP5 DEF Bounded
    <2> QED BY <1>0, <2>1, <2>2
<1>7. CASE s = "ppmx"
    <2>1. /\ reconstruct(s, q, z) = ppmx(x1, x2, x3, x4, x5)
          /\ reconstruct(s, p, y) = ppmx(x5, x4, x3, x2, x1)
        BY <1>a, <1>7 DEF reconstruct
    <2>2. /\ ppmx(x1, x2, x3, x4, x5) \in Ends
          /\ Turned(ppmx(x1, x2, x3, x4, x5), ppmx(x5, x4, x3, x2, x1))
        BY PPMX DEF Bounded
    <2> QED BY <1>0, <2>1, <2>2
<1> QED BY <1>1, <1>2, <1>3, <1>4, <1>5, <1>6, <1>7 DEF Schemes, Linear

-----------------------------------------------------------------------------
(***************************************************************************)
(* The kernels, for any row.                                               *)
(***************************************************************************)
States == [Quantities -> Int]

\* The states of face f are what a scheme gives of the zones on its sides
SidesFrom(scheme, f) ==
    /\ left[f].rho = reconstruct(scheme, row.rho, f - 1).r
    /\ right[f].rho = reconstruct(scheme, row.rho, f).l

SidesInv(f) ==
    /\ left[f] \in States /\ right[f] \in States
    /\ f \notin flagged => SidesFrom(SchemeOfRow, f)
    /\ f \in flagged /\ ~row.floors => SidesFrom("ppm", f)

\* Speeds bound those of both states, before and after RightSpeeds
SpeedInv(f) ==
    /\ kernel = "right" => /\ cmax[f] \in Nat /\ cmax[f] >= left[f].v + row.c
                           /\ cmin[f] \in Int /\ cmin[f] <= 0 /\ cmin[f] <= left[f].v - row.c
    /\ kernel \in {"riemann", "done"} =>
          /\ cmax[f] \in Nat /\ cmin[f] \in Nat
          /\ \A s \in {left[f], right[f]} : cmax[f] >= s.v + row.c /\ cmin[f] >= row.c - s.v

FaceInv ==
    /\ row \in Rows
    /\ kernel \in {"recon", "floors", "fallback", "replace", "left", "right", "riemann", "done"}
    /\ kernel \in {"recon", "floors"} => flagged = {}
    /\ kernel = "fallback" /\ ~row.floors => flagged = {}
    /\ kernel # "recon" => \A f \in Calculated : SidesInv(f)
    /\ \A f \in Calculated : SpeedInv(f)
    /\ kernel = "done" => \A f \in Calculated : flux[f] = Solved(f)

LEMMA RowIs ==
    ASSUME row \in Rows
    PROVE  /\ row.rho \in [RowStored -> Nat] /\ row.v \in [RowStored -> Int]
           /\ row.B \in [RowStored -> Int] /\ row.c \in Nat \ {0} /\ row.floor \in Nat
           /\ row.fallback \in BOOLEAN /\ row.floors \in BOOLEAN
           /\ SchemeOfRow \in Schemes
           /\ \A p \in Quantities : row[p] \in [RowStored -> Int]
BY FacesAssumption DEF Schemes, Linear, SchemeOfRow, Quantities

LEMMA FacesAre ==
    /\ RowZones \in Nat \ {0} /\ Calculated \subseteq Faces /\ Calculated \subseteq Int
    /\ \A f \in Calculated : f \in Reconstructed /\ f - 1 \in Reconstructed
    /\ \A z \in Reconstructed : /\ z \in Int
                                /\ {z - 2, z - 1, z, z + 1, z + 2} \subseteq RowStored
    /\ RowFaces \subseteq Calculated /\ OwnZones \subseteq Calculated
BY FacesAssumption DEF Calculated, Faces, Reconstructed, RowStored, RowFaces, OwnZones, nghost

LEMMA RowGives ==
    ASSUME row \in Rows, NEW s \in Schemes, NEW z \in Reconstructed
    PROVE  /\ \A p \in Quantities : reconstruct(s, row[p], z) \in Ends
           /\ s \in Smooth => Bounded(reconstruct(s, row.rho, z),
                                      row.rho[z - 1], row.rho[z], row.rho[z + 1])
           /\ s \in Linear => Centered(reconstruct(s, row.rho, z), row.rho[z])
<1>1. ASSUME NEW q \in [RowStored -> Int]
      PROVE  /\ reconstruct(s, q, z) \in Ends
             /\ s \in Smooth => Bounded(reconstruct(s, q, z), q[z - 1], q[z], q[z + 1])
             /\ s \in Linear => Centered(reconstruct(s, q, z), q[z])
    <2>1. /\ z \in Int /\ q[z - 2] \in Int /\ q[z - 1] \in Int /\ q[z] \in Int
          /\ q[z + 1] \in Int /\ q[z + 2] \in Int
        BY FacesAre
    <2> QED BY <2>1, Reconstructs
<1>2. row.rho \in [RowStored -> Int] /\ \A p \in Quantities : row[p] \in [RowStored -> Int]
    BY RowIs
<1> QED BY <1>1, <1>2

LEMMA SidesTyped ==
    ASSUME row \in Rows, NEW s \in Schemes, NEW z \in Reconstructed
    PROVE  /\ LeftOf(Sides(s, z)) \in States /\ RightOf(Sides(s, z)) \in States
           /\ LeftOf(Sides(s, z)).rho = reconstruct(s, row.rho, z).l
           /\ RightOf(Sides(s, z)).rho = reconstruct(s, row.rho, z).r
<1>1. ASSUME NEW p \in Quantities
      PROVE  /\ LeftOf(Sides(s, z))[p] = reconstruct(s, row[p], z).l
             /\ RightOf(Sides(s, z))[p] = reconstruct(s, row[p], z).r
             /\ reconstruct(s, row[p], z).l \in Int /\ reconstruct(s, row[p], z).r \in Int
    BY RowGives DEF LeftOf, RightOf, Sides, Ends
<1>2. LeftOf(Sides(s, z)) = [p \in Quantities |-> LeftOf(Sides(s, z))[p]]
      /\ RightOf(Sides(s, z)) = [p \in Quantities |-> RightOf(Sides(s, z))[p]]
    BY DEF LeftOf, RightOf
<1>3. "rho" \in Quantities /\ row["rho"] = row.rho
    BY DEF Quantities
<1>4. LeftOf(Sides(s, z))["rho"] = LeftOf(Sides(s, z)).rho
      /\ RightOf(Sides(s, z))["rho"] = RightOf(Sides(s, z)).rho
    OBVIOUS
<1> QED BY <1>1, <1>2, <1>3, <1>4 DEF States

\* A state is no leftover, nor is a number
LEMMA KnownStates ==
    /\ \A s \in States : /\ Known(s) /\ s.rho \in Int /\ s.v \in Int /\ s.B \in Int
    /\ \A n \in Int : Known(n)
BY FacesAssumption DEF States, Known, Quantities

LEMMA Changed ==
    ASSUME NEW s \in States, NEW n \in Int
    PROVE  /\ [s EXCEPT !.rho = n, !.v = 0] \in States
           /\ [s EXCEPT !.B = n] \in States /\ [s EXCEPT !.B = n].rho = s.rho
<1>1. /\ s = [p \in Quantities |-> s[p]] /\ \A p \in Quantities : s[p] \in Int
      /\ Quantities = {"rho", "v", "B"} /\ s.rho = s["rho"]
    BY DEF States, Quantities
<1>2. [s EXCEPT !.B = n] = [p \in Quantities |-> IF p = "B" THEN n ELSE s[p]]
    BY <1>1
<1>3. [s EXCEPT !.rho = n, !.v = 0] =
          [p \in Quantities |-> IF p = "v" THEN 0 ELSE IF p = "rho" THEN n ELSE s[p]]
    BY <1>1
<1>4. [s EXCEPT !.B = n].rho = s.rho
    BY <1>1, <1>2
<1>5. [p \in Quantities |-> IF p = "B" THEN n ELSE s[p]] \in States
    BY <1>1 DEF States
<1>6. [p \in Quantities |-> IF p = "v" THEN 0 ELSE IF p = "rho" THEN n ELSE s[p]] \in States
    BY <1>1 DEF States
<1> QED BY <1>2, <1>3, <1>4, <1>5, <1>6

LEMMA FaceInvInit == FaceInit => FaceInv
BY DEF FaceInit, Untouched, FaceInv, SpeedInv

LEMMA ReconstructKeeps == FaceInv /\ Reconstruct => FaceInv'
<1> SUFFICES ASSUME FaceInv, Reconstruct PROVE FaceInv'
    OBVIOUS
<1>1. /\ row' = row /\ flagged' = {} /\ kernel' = "floors" /\ row \in Rows
      /\ SchemeOfRow \in Schemes
    BY RowIs DEF FaceInv, Reconstruct
<1>2. ASSUME NEW f \in Calculated PROVE SidesInv(f)'
    <2>1. f \in Faces /\ f \in Reconstructed /\ f - 1 \in Reconstructed
        BY FacesAre
    <2>2. /\ left'[f] = RightOf(Sides(SchemeOfRow, f - 1))
          /\ right'[f] = LeftOf(Sides(SchemeOfRow, f))
        BY <2>1 DEF Reconstruct
    <2>3. /\ left'[f] \in States /\ left'[f].rho = reconstruct(SchemeOfRow, row.rho, f - 1).r
          /\ right'[f] \in States /\ right'[f].rho = reconstruct(SchemeOfRow, row.rho, f).l
        BY <1>1, <2>1, <2>2, SidesTyped
    <2> QED BY <1>1, <2>3 DEF SidesInv, SidesFrom, SchemeOfRow
<1> QED BY <1>1, <1>2 DEF FaceInv, SpeedInv

LEMMA FloorsKeep == FaceInv /\ ReconstructionFloors => FaceInv'
<1> SUFFICES ASSUME FaceInv, ReconstructionFloors PROVE FaceInv'
    OBVIOUS
<1>1. /\ row' = row /\ flagged = {} /\ kernel' = "fallback" /\ row \in Rows
      /\ \A f \in Calculated : SidesInv(f)
    BY DEF FaceInv, ReconstructionFloors
<1>2. ASSUME NEW f \in Calculated PROVE SidesInv(f)'
    <2>1. CASE row.floors
        <3>1. f \in Faces /\ geo_floor \in Int
            BY <1>1, FacesAre, RowIs DEF geo_floor
        <3>2. /\ left'[f] = apply_geo_floors(left[f]) /\ right'[f] = apply_geo_floors(right[f])
              /\ flagged' = BelowFloor
            BY <1>1, <2>1, <3>1 DEF ReconstructionFloors
        <3>3. \A s \in States : apply_geo_floors(s) \in States
            BY <3>1, Changed DEF apply_geo_floors
        <3>4. f \notin BelowFloor => left'[f] = left[f] /\ right'[f] = right[f]
            BY <3>2 DEF BelowFloor, apply_geo_floors
        <3> QED BY <1>1, <2>1, <3>2, <3>3, <3>4 DEF SidesInv, SidesFrom, SchemeOfRow
    <2>2. CASE ~row.floors
        <3>1. left' = left /\ right' = right /\ flagged' = flagged
            BY <2>2 DEF ReconstructionFloors
        <3> QED BY <1>1, <3>1 DEF SidesInv, SidesFrom, SchemeOfRow
    <2> QED BY <2>1, <2>2
<1>3. ~row.floors => flagged' = {}
    BY <1>1 DEF ReconstructionFloors
<1> QED BY <1>1, <1>2, <1>3 DEF FaceInv, SpeedInv

LEMMA FallbackKeeps == FaceInv /\ ReconstructionFallback => FaceInv'
<1> SUFFICES ASSUME FaceInv, ReconstructionFallback PROVE FaceInv'
    OBVIOUS
<1>1. /\ row' = row /\ kernel' = "replace" /\ row \in Rows /\ (~row.floors => flagged = {})
      /\ \A f \in Calculated : SidesInv(f)
    BY DEF FaceInv, ReconstructionFallback
<1>2. ASSUME NEW f \in Calculated PROVE SidesInv(f)'
    <2>0. f \in Faces /\ f \in Reconstructed /\ f - 1 \in Reconstructed /\ "ppm" \in Schemes
        BY FacesAre DEF Schemes
    <2>1. CASE row.fallback /\ f \in BelowFloor
        <3>1. /\ left'[f] = RightOf(Sides("ppm", f - 1)) /\ right'[f] = LeftOf(Sides("ppm", f))
              /\ f \in flagged'
            BY <2>0, <2>1 DEF ReconstructionFallback
        <3>2. /\ left'[f] \in States /\ left'[f].rho = reconstruct("ppm", row.rho, f - 1).r
              /\ right'[f] \in States /\ right'[f].rho = reconstruct("ppm", row.rho, f).l
            BY <1>1, <2>0, <3>1, SidesTyped
        <3> QED BY <1>1, <3>1, <3>2 DEF SidesInv, SidesFrom
    <2>2. CASE ~(row.fallback /\ f \in BelowFloor)
        <3>1. /\ left'[f] = left[f] /\ right'[f] = right[f]
              /\ f \in flagged' <=> f \in flagged
            BY <2>0, <2>2 DEF ReconstructionFallback
        <3> QED BY <1>1, <3>1 DEF SidesInv, SidesFrom, SchemeOfRow
    <2> QED BY <2>1, <2>2
<1> QED BY <1>1, <1>2 DEF FaceInv, SpeedInv

LEMMA ReplaceKeepsSides == FaceInv /\ ReplaceFace => FaceInv'
<1> SUFFICES ASSUME FaceInv, ReplaceFace PROVE FaceInv'
    OBVIOUS
<1>1. /\ row' = row /\ flagged' = flagged /\ kernel' = "left" /\ row \in Rows
      /\ \A f \in Calculated : SidesInv(f)
    BY DEF FaceInv, ReplaceFace
<1>2. ASSUME NEW f \in Calculated PROVE SidesInv(f)'
    <2>1. f \in Faces /\ FaceB(f) \in Int
        <3>1. f \in Faces /\ f \in RowStored /\ f - 1 \in RowStored
            BY FacesAre
        <3>2. row.B[f] \in Int /\ row.B[f - 1] \in Int
            BY <1>1, <3>1, RowIs
        <3> QED BY <3>1, <3>2 DEF FaceB
    <2>2. /\ left'[f] \in {left[f], [left[f] EXCEPT !.B = FaceB(f)]}
          /\ right'[f] \in {right[f], [right[f] EXCEPT !.B = FaceB(f)]}
        BY <2>1 DEF ReplaceFace
    <2>3. /\ left'[f] \in States /\ left'[f].rho = left[f].rho
          /\ right'[f] \in States /\ right'[f].rho = right[f].rho
        <3>1. left[f] \in States /\ right[f] \in States
            BY <1>1 DEF SidesInv
        <3>2. \A s \in States : /\ [s EXCEPT !.B = FaceB(f)] \in States
                               /\ [s EXCEPT !.B = FaceB(f)].rho = s.rho
            BY <2>1, Changed
        <3>3. /\ [left[f] EXCEPT !.B = FaceB(f)] \in States
              /\ [left[f] EXCEPT !.B = FaceB(f)].rho = left[f].rho
            BY <3>1, <3>2, Zenon
        <3>4. /\ [right[f] EXCEPT !.B = FaceB(f)] \in States
              /\ [right[f] EXCEPT !.B = FaceB(f)].rho = right[f].rho
            BY <3>1, <3>2, Zenon
        <3> QED BY <2>2, <3>1, <3>3, <3>4, Zenon
    <2> QED BY <1>1, <2>3 DEF SidesInv, SidesFrom, SchemeOfRow
<1> QED BY <1>1, <1>2 DEF FaceInv, SpeedInv

LEMMA SpeedsKeep == FaceInv /\ (LeftSpeeds \/ RightSpeeds) => FaceInv'
<1> SUFFICES ASSUME FaceInv, LeftSpeeds \/ RightSpeeds PROVE FaceInv'
    OBVIOUS
<1>1. /\ row' = row /\ flagged' = flagged /\ left' = left /\ right' = right /\ row \in Rows
      /\ kernel' \in {"right", "riemann"} /\ row.c \in Nat \ {0}
      /\ \A f \in Calculated : SidesInv(f) /\ SpeedInv(f)
    BY RowIs DEF FaceInv, LeftSpeeds, RightSpeeds
<1>2. ASSUME NEW f \in Calculated PROVE SpeedInv(f)'
    <2>1. /\ f \in Faces /\ Known(left[f]) /\ Known(right[f])
          /\ left[f].v \in Int /\ right[f].v \in Int
        BY <1>1, FacesAre, KnownStates DEF SidesInv
    <2>2. CASE LeftSpeeds
        <3>1. /\ cmax'[f] = greatest(0, left[f].v + row.c)
              /\ cmin'[f] = least(0, left[f].v - row.c) /\ kernel' = "right"
            BY <2>1, <2>2 DEF LeftSpeeds
        <3> QED BY <1>1, <2>1, <3>1 DEF SpeedInv, greatest, least
    <2>3. CASE RightSpeeds
        <3>1. /\ cmax[f] \in Nat /\ cmax[f] >= left[f].v + row.c
              /\ cmin[f] \in Int /\ cmin[f] <= 0 /\ cmin[f] <= left[f].v - row.c
            BY <1>1, <2>3 DEF SpeedInv, RightSpeeds
        <3>2. /\ cmax'[f] = greatest(cmax[f], right[f].v + row.c)
              /\ cmin'[f] = -least(cmin[f], right[f].v - row.c) /\ kernel' = "riemann"
            BY <2>1, <2>3, <3>1, KnownStates DEF RightSpeeds
        <3>3. /\ cmax'[f] \in Nat /\ cmin'[f] \in Nat
              /\ cmax'[f] >= left[f].v + row.c /\ cmax'[f] >= right[f].v + row.c
              /\ cmin'[f] >= row.c - left[f].v /\ cmin'[f] >= row.c - right[f].v
            BY <1>1, <2>1, <3>1, <3>2 DEF greatest, least
        <3> QED BY <1>1, <3>2, <3>3 DEF SpeedInv
    <2> QED BY <2>2, <2>3
<1>3. \A f \in Calculated : SidesInv(f)'
    BY <1>1 DEF SidesInv, SidesFrom, SchemeOfRow
<1> QED BY <1>1, <1>2, <1>3 DEF FaceInv

LEMMA RiemannKeeps == FaceInv /\ Riemann => FaceInv'
<1> SUFFICES ASSUME FaceInv, Riemann PROVE FaceInv'
    OBVIOUS
<1>1. /\ row' = row /\ flagged' = flagged /\ left' = left /\ right' = right /\ row \in Rows
      /\ cmax' = cmax /\ cmin' = cmin /\ kernel = "riemann" /\ kernel' = "done"
      /\ \A f \in Calculated : SidesInv(f) /\ SpeedInv(f)
    BY DEF FaceInv, Riemann
<1>2. ASSUME NEW f \in Calculated PROVE flux'[f] = Solved(f)'
    <2>1. f \in Faces /\ Known(left[f]) /\ Known(right[f])
        BY <1>1, FacesAre, KnownStates DEF SidesInv
    <2>2. flux'[f] = Solved(f)
        BY <2>1 DEF Riemann
    <2> QED BY <1>1, <2>2 DEF Solved
<1>3. \A f \in Calculated : SidesInv(f)' /\ SpeedInv(f)'
    BY <1>1 DEF SidesInv, SidesFrom, SchemeOfRow, SpeedInv
<1> QED BY <1>1, <1>2, <1>3 DEF FaceInv

LEMMA FaceInvHolds == FaceSpec => []FaceInv
<1>1. FaceInv /\ [FaceNext]_faceVars => FaceInv'
    <2>1. FaceInv /\ UNCHANGED faceVars => FaceInv'
        BY DEF faceVars, FaceInv, SidesInv, SidesFrom, SpeedInv, SchemeOfRow, Solved
    <2> QED BY <2>1, ReconstructKeeps, FloorsKeep, FallbackKeeps, ReplaceKeepsSides, SpeedsKeep,
               RiemannKeeps DEF FaceNext
<1> QED BY <1>1, FaceInvInit, PTL DEF FaceSpec

-----------------------------------------------------------------------------
(***************************************************************************)
(* What the kernels leave.                                                 *)
(***************************************************************************)
\* A face's speeds are not both zero
LEMMA SpeedsAre ==
    ASSUME FaceInv, kernel = "done", NEW f \in Calculated
    PROVE  /\ left[f] \in States /\ right[f] \in States
           /\ left[f].rho \in Int /\ right[f].rho \in Int
           /\ left[f].v \in Int /\ right[f].v \in Int
           /\ cmax[f] \in Nat /\ cmin[f] \in Nat /\ cmax[f] + cmin[f] > 0
           /\ cmax[f] >= left[f].v /\ cmax[f] >= right[f].v
           /\ cmin[f] >= -left[f].v /\ cmin[f] >= -right[f].v
           /\ flux[f] = Solved(f)
<1>1. /\ SidesInv(f) /\ SpeedInv(f) /\ flux[f] = Solved(f) /\ row.c \in Nat \ {0}
    BY RowIs DEF FaceInv
<1>2. /\ left[f] \in States /\ right[f] \in States
      /\ left[f].rho \in Int /\ right[f].rho \in Int
      /\ left[f].v \in Int /\ right[f].v \in Int
    BY <1>1, KnownStates DEF SidesInv
<1>3. /\ cmax[f] \in Nat /\ cmin[f] \in Nat
      /\ cmax[f] >= left[f].v + row.c /\ cmax[f] >= right[f].v + row.c
      /\ cmin[f] >= row.c - left[f].v /\ cmin[f] >= row.c - right[f].v
    BY <1>1 DEF SpeedInv
<1> QED BY <1>1, <1>2, <1>3

LEMMA FluxTyped ==
    ASSUME NEW ul \in Int, NEW ur \in Int, NEW vl \in Int, NEW vr \in Int,
           NEW cp \in Nat, NEW cm \in Nat, cp + cm > 0
    PROVE  /\ llf(ul * vl, ur * vr, cp, cm, ul, ur) \in Int
           /\ hlle(ul * vl, ur * vr, cp, cm, ul, ur) \in Int
<1>1. PICK fl \in Int, fr \in Int : fl = ul * vl /\ fr = ur * vr
    OBVIOUS
<1>2. llf(fl, fr, cp, cm, ul, ur) \in Int
    <2>1. PICK c \in Int : c = greatest(cp, cm)
        BY DEF greatest
    <2>2. fl + fr - c * (ur - ul) \in Int
        OBVIOUS
    <2> QED BY <2>1, <2>2, Divided DEF llf
<1>3. hlle(fl, fr, cp, cm, ul, ur) \in Int
    <2>1. cp * fl + cm * fr - cp * cm * (ur - ul) \in Int /\ cp + cm \in Nat \ {0}
        OBVIOUS
    <2> QED BY <2>1, Divided DEF hlle
<1> QED BY <1>1, <1>2, <1>3

LEMMA Fresh == FaceInv => FluxesAreFresh
<1> SUFFICES ASSUME FaceInv, kernel = "done", NEW f \in Calculated
             PROVE  /\ Known(left[f]) /\ Known(right[f]) /\ Known(cmax[f]) /\ Known(cmin[f])
                    /\ Known(flux[f])
    BY DEF FluxesAreFresh, finished
<1>1. Solved(f) \in Int
    BY SpeedsAre, FluxTyped DEF Solved
<1> QED BY <1>1, SpeedsAre, KnownStates

\* The states of face f come from one scheme that adds no extremes
LEMMA Between ==
    ASSUME row \in Rows, NEW f \in Calculated, NEW s \in Schemes \cap Smooth, SidesFrom(s, f)
    PROVE  \A n \in {left[f].rho, right[f].rho} :
               /\ n \in Int /\ row.rho[f - 1] \in Nat /\ row.rho[f] \in Nat
               /\ least(row.rho[f - 1], row.rho[f]) <= n
               /\ n <= greatest(row.rho[f - 1], row.rho[f])
<1>1. /\ f \in Int /\ f \in Reconstructed /\ f - 1 \in Reconstructed
      /\ f \in RowStored /\ f - 1 \in RowStored /\ f - 1 + 1 = f
    BY FacesAre
<1>2. row.rho[f - 1] \in Nat /\ row.rho[f] \in Nat
    BY <1>1, RowIs
<1>3. PICK e : e = reconstruct(s, row.rho, f) /\ Bounded(e, row.rho[f - 1], row.rho[f], row.rho[f + 1])
    BY <1>1, RowGives
<1>4. PICK d : /\ d = reconstruct(s, row.rho, f - 1)
               /\ Bounded(d, row.rho[f - 1 - 1], row.rho[f - 1], row.rho[f])
    BY <1>1, RowGives
<1>5. left[f].rho = d.r /\ right[f].rho = e.l
    BY <1>3, <1>4 DEF SidesFrom
<1>6. /\ d.r \in Int /\ e.l \in Int
      /\ least(row.rho[f - 1], row.rho[f]) <= d.r /\ d.r <= greatest(row.rho[f - 1], row.rho[f])
      /\ least(row.rho[f - 1], row.rho[f]) <= e.l /\ e.l <= greatest(row.rho[f - 1], row.rho[f])
    BY <1>3, <1>4 DEF Bounded, Ends
<1> QED BY <1>2, <1>5, <1>6

LEMMA NoExtremes == FaceInv => NoNewExtremes
<1> SUFFICES ASSUME FaceInv, kernel = "done", NEW f \in Calculated,
                    Monotone(f), flagged = {} \/ ~row.floors,
                    NEW s \in {left[f], right[f]}
             PROVE  /\ s.rho >= least(row.rho[f - 1], row.rho[f]) - rounding
                    /\ s.rho <= greatest(row.rho[f - 1], row.rho[f]) + rounding
    BY DEF NoNewExtremes, finished
<1>1. row \in Rows /\ SidesInv(f) /\ SchemeOfRow \in Schemes
    BY RowIs DEF FaceInv
<1>2. PICK scheme \in Schemes \cap Smooth : SidesFrom(scheme, f)
    <2>1. CASE f \in flagged
        <3>1. SidesFrom("ppm", f)
            BY <1>1, <2>1 DEF SidesInv
        <3> QED BY <3>1 DEF Schemes, Smooth
    <2>2. CASE f \notin flagged
        <3>1. SidesFrom(SchemeOfRow, f) /\ SchemeOfRow \in Smooth
            BY <1>1, <2>2 DEF SidesInv, Monotone
        <3> QED BY <1>1, <3>1
    <2> QED BY <2>1, <2>2
<1>3. /\ s.rho \in Int /\ row.rho[f - 1] \in Nat /\ row.rho[f] \in Nat
      /\ least(row.rho[f - 1], row.rho[f]) <= s.rho
      /\ s.rho <= greatest(row.rho[f - 1], row.rho[f])
    BY <1>1, <1>2, Between
<1> QED BY <1>3 DEF rounding, least, greatest

LEMMA NoSidePreferred == FaceInv => MirrorImage
<1> DEFINE mirrored == [z \in RowStored |-> row.rho[RowZones - 1 - z]]
<1> SUFFICES ASSUME FaceInv, NEW z \in Reconstructed
             PROVE  Alike(reconstruct(SchemeOfRow, row.rho, z),
                          reconstruct(SchemeOfRow, mirrored, RowZones - 1 - z))
    BY DEF MirrorImage, Alike
<1> DEFINE y == RowZones - 1 - z
<1>1. /\ row.rho \in [RowStored -> Nat] /\ SchemeOfRow \in Schemes
    BY RowIs DEF FaceInv
<1>2. /\ z \in Int /\ y \in Int
      /\ {z - 2, z - 1, z, z + 1, z + 2} \subseteq RowStored
      /\ {y - 2, y - 1, y, y + 1, y + 2} \subseteq RowStored
    BY FacesAssumption DEF Reconstructed, RowStored, nghost
<1>3. /\ mirrored[y - 2] = row.rho[z + 2] /\ mirrored[y - 1] = row.rho[z + 1]
      /\ mirrored[y] = row.rho[z] /\ mirrored[y + 1] = row.rho[z - 1]
      /\ mirrored[y + 2] = row.rho[z - 2]
    <2>1. /\ RowZones - 1 - (y - 2) = z + 2 /\ RowZones - 1 - (y - 1) = z + 1
          /\ RowZones - 1 - y = z /\ RowZones - 1 - (y + 1) = z - 1
          /\ RowZones - 1 - (y + 2) = z - 2
        BY <1>2, FacesAssumption
    <2> QED BY <1>2, <2>1
<1>4. /\ row.rho[z - 2] \in Int /\ row.rho[z - 1] \in Int /\ row.rho[z] \in Int
      /\ row.rho[z + 1] \in Int /\ row.rho[z + 2] \in Int
    BY <1>1, <1>2
<1> HIDE DEF mirrored, y
<1>5. Alike(reconstruct(SchemeOfRow, row.rho, z), reconstruct(SchemeOfRow, mirrored, y))
    BY <1>1, <1>2, <1>3, <1>4, Mirrors
<1> QED BY <1>5 DEF y

(* For any row of zones, any of the seven schemes, fallback and floors: the  *)
(* kernels leave no face of those read with a state, speed or flux of an     *)
(* earlier direction; monotone schemes and the fallback's add no extremes;   *)
(* and a row's mirror image is reconstructed to mirrored states.             *)
THEOREM StatesAlwaysSound == FaceSpec => []StatesSound
<1>1. FaceInv => StatesSound
    BY Fresh, NoExtremes, NoSidePreferred DEF StatesSound
<1> QED BY <1>1, FaceInvHolds, PTL
\* Of natural numbers there is a first, of finitely many integers a greatest
LEMMA FirstOf ==
    ASSUME NEW T \in SUBSET Nat, T # {}
    PROVE  \E m \in T : \A k \in T : m <= k
<1>1. PICK R : R = OpToRel(<, Nat)
    OBVIOUS
<1>2. IsWellFoundedOn(R, Nat)
    BY <1>1, NatLessThanWellFounded
<1>3. PICK m \in T : \A k \in T : ~(<<k, m>> \in R)
    BY <1>2, WFMin
<1>4. \A k \in T : <<k, m>> \in R <=> k < m
    BY <1>1 DEF OpToRel
<1>5. \A k \in T : k \in Nat
    OBVIOUS
<1>6. ASSUME NEW k \in T PROVE m <= k
    <2>1. ~(k < m)
        BY <1>3, <1>4
    <2> QED BY <1>5, <2>1
<1> QED BY <1>6

LEMMA MaxExists ==
    ASSUME NEW n \in Nat \ {0}, NEW g, \A k \in 0 .. n - 1 : g[k] \in Int
    PROVE  \E m \in 0 .. n - 1 : \A k \in 0 .. n - 1 : g[k] <= g[m]
<1> DEFINE Above(m, i) == \A k \in 0 .. i - 1 : g[k] <= g[m]
           Lacking == {i \in 1 .. n : \A m \in 0 .. i - 1 : ~Above(m, i)}
<1>1. SUFFICES ASSUME Lacking # {} PROVE FALSE
    <2>1. n \notin Lacking => \E m \in 0 .. n - 1 : Above(m, n)
        OBVIOUS
    <2> QED BY <2>1
<1>2. PICK i \in Lacking : \A j \in Lacking : i <= j
    <2>1. Lacking \in SUBSET Nat
        OBVIOUS
    <2> HIDE DEF Lacking
    <2> QED BY <1>1, <2>1, FirstOf
<1>3. i \in Nat /\ i >= 1 /\ i <= n
    OBVIOUS
<1>4. i # 1
    <2>1. Above(0, 1)
        OBVIOUS
    <2> QED BY <2>1
<1>5. i - 1 \in 1 .. n /\ i - 1 \notin Lacking
    <2>1. i - 1 \in 1 .. n /\ ~(i <= i - 1)
        BY <1>3, <1>4
    <2> HIDE DEF Lacking
    <2> QED BY <1>2, <2>1
<1>6. PICK m \in 0 .. i - 2 : Above(m, i - 1)
    BY <1>3, <1>5
<1>7. Above(m, i) \/ Above(i - 1, i)
    <2>1. \A k \in 0 .. i - 1 : k \in 0 .. i - 2 \/ k = i - 1
        BY <1>3
    <2>2. g[m] \in Int /\ g[i - 1] \in Int /\ \A k \in 0 .. i - 2 : g[k] \in Int /\ g[k] <= g[m]
        BY <1>3, <1>6
    <2> QED BY <2>1, <2>2
<1> QED BY <1>3, <1>6, <1>7

LEMMA Rounded ==
    ASSUME NEW s \in Nat \ {0}, NEW p \in Int, NEW k \in Int
    PROVE  /\ p <= k * s => p \div s <= k
           /\ p >= k * s => p \div s >= k
           /\ p \div s \in Int
<1>1. /\ p \div s \in Int /\ (p \div s) * s <= p /\ p < ((p \div s) + 1) * s
    BY SMT
<1>2. PICK q \in Int : q = p \div s
    BY <1>1
<1>3. ASSUME p <= k * s, q >= k + 1 PROVE FALSE
    <2>1. q * s >= (k + 1) * s
        BY <1>3
    <2> QED BY <1>1, <1>2, <1>3, <2>1
<1>4. ASSUME p >= k * s, q <= k - 1 PROVE FALSE
    <2>1. (q + 1) * s <= k * s
        BY <1>4
    <2> QED BY <1>1, <1>2, <1>4, <2>1
<1> QED BY <1>2, <1>3, <1>4

\* A flux carries no more than its upwind state does at the fastest speed
Carried(F, c, ul, ur) == F \in Int /\ F <= c * ul /\ F + c * ur >= 0

LEMMA FluxBounds ==
    ASSUME NEW ul \in Nat, NEW ur \in Nat, NEW vl \in Int, NEW vr \in Int,
           NEW cp \in Nat, NEW cm \in Nat, cp + cm > 0,
           cp >= vl, cp >= vr, cm >= -vl, cm >= -vr
    PROVE  /\ Carried(llf(ul * vl, ur * vr, cp, cm, ul, ur), greatest(cp, cm), ul, ur)
           /\ Carried(hlle(ul * vl, ur * vr, cp, cm, ul, ur), greatest(cp, cm), ul, ur)
<1>1. PICK c \in Nat : c = greatest(cp, cm) /\ c >= cp /\ c >= cm
    BY DEF greatest
<1>2. PICK fl \in Int, fr \in Int, gl \in Nat, gr \in Nat :
          fl = ul * vl /\ fr = ur * vr /\ gl = c * ul /\ gr = c * ur
    OBVIOUS
<1>3. /\ fl <= gl /\ fl + gl >= 0
      /\ fr <= gr /\ fr + gr >= 0
    <2>1. ul * (c - vl) >= 0 /\ ul * (c + vl) >= 0 /\ ur * (c - vr) >= 0 /\ ur * (c + vr) >= 0
        BY <1>1
    <2>2. /\ ul * (c - vl) = gl - fl /\ ul * (c + vl) = gl + fl
          /\ ur * (c - vr) = gr - fr /\ ur * (c + vr) = gr + fr
        BY <1>2
    <2> QED BY <2>1, <2>2
<1>4. Carried(llf(fl, fr, cp, cm, ul, ur), c, ul, ur)
    <2>1. c * (ur - ul) = gr - gl
        BY <1>2
    <2>2. llf(fl, fr, cp, cm, ul, ur) = (fl + fr - (gr - gl)) \div 2
        BY <1>1, <2>1 DEF llf
    <2>3. PICK F \in Int : F = (fl + fr - (gr - gl)) \div 2
        OBVIOUS
    <2>4. F <= gl /\ F + gr >= 0
        BY <1>3, <2>3
    <2> QED BY <1>2, <2>2, <2>3, <2>4 DEF Carried
<1>5. Carried(hlle(fl, fr, cp, cm, ul, ur), c, ul, ur)
    <2>1. PICK s \in Nat \ {0}, al \in Nat, ar \in Nat, num \in Int :
              /\ s = cp + cm /\ al = fl + cm * ul /\ ar = cp * ur - fr
              /\ num = cp * fl + cm * fr - cp * cm * (ur - ul)
        <3>1. ul * (vl + cm) >= 0 /\ ur * (cp - vr) >= 0
            OBVIOUS
        <3>2. fl + cm * ul = ul * (vl + cm) /\ cp * ur - fr = ur * (cp - vr)
            BY <1>2
        <3> QED BY <3>1, <3>2
    <2>2. num = cp * al - cm * ar
        <3>1. cp * al = cp * fl + cp * cm * ul /\ cm * ar = cp * cm * ur - cm * fr
            BY <2>1
        <3>2. cp * cm * (ur - ul) = cp * cm * ur - cp * cm * ul
            OBVIOUS
        <3> QED BY <2>1, <3>1, <3>2
    <2>3. al <= s * ul /\ ar <= s * ur
        <3>1. ul * vl <= cp * ul /\ ur * vr + cm * ur >= 0
            <4>1. ul * (cp - vl) >= 0 /\ ur * (vr + cm) >= 0
                OBVIOUS
            <4> QED BY <4>1
        <3> QED BY <1>2, <2>1, <3>1
    <2>4. cp * al <= gl * s /\ cm * ar <= gr * s
        <3>1. cp * al <= cp * (s * ul) /\ cm * ar <= cm * (s * ur)
            BY <2>3
        <3>2. cp * (s * ul) <= c * (s * ul) /\ cm * (s * ur) <= c * (s * ur)
            BY <1>1
        <3>3. c * (s * ul) = gl * s /\ c * (s * ur) = gr * s
            BY <1>2
        <3> QED BY <3>1, <3>2, <3>3
    <2>5. cp * al >= 0 /\ cm * ar >= 0
        OBVIOUS
    <2>6. num <= gl * s /\ num >= (-gr) * s
        BY <2>2, <2>4, <2>5
    <2>7. num \div s \in Int /\ num \div s <= gl /\ num \div s >= -gr
        BY <2>6, Rounded
    <2>8. hlle(fl, fr, cp, cm, ul, ur) = num \div s
        BY <2>1 DEF hlle
    <2> QED BY <1>2, <2>7, <2>8 DEF Carried
<1> QED BY <1>1, <1>2, <1>4, <1>5

LEMMA FastestIs ==
    ASSUME FaceInv, kernel = "done"
    PROVE  /\ Max({ctop(f) : f \in OwnZones}) \in Nat
           /\ \A f \in OwnZones : /\ ctop(f) \in Nat
                                  /\ ctop(f) <= Max({ctop(f2) : f2 \in OwnZones})
<1> DEFINE g == [f \in OwnZones |-> ctop(f)]   S == {ctop(f) : f \in OwnZones}
<1>1. \A f \in OwnZones : ctop(f) \in Nat
    BY FacesAre, SpeedsAre DEF ctop, greatest
<1>2. PICK m \in OwnZones : \A k \in OwnZones : g[k] <= g[m]
    <2>1. RowZones \in Nat \ {0} /\ OwnZones = 0 .. RowZones - 1
        BY FacesAre DEF OwnZones
    <2>2. \A k \in OwnZones : g[k] \in Int
        BY <1>1
    <2> HIDE DEF g
    <2> QED BY <2>1, <2>2, MaxExists
<1>3. \A k \in OwnZones : ctop(k) <= ctop(m)
    BY <1>2
<1>4. ctop(m) \in S /\ \A x \in S : ctop(m) >= x
    BY <1>1, <1>3
<1>5. Max(S) \in S /\ \A x \in S : Max(S) >= x
    <2> HIDE DEF S
    <2> QED BY <1>4 DEF Max
<1> QED BY <1>1, <1>5

LEMMA KeepsPositive == FaceInv => FluxKeepsPositive
<1> DEFINE fastest == Max({ctop(f) : f \in OwnZones})
<1> SUFFICES ASSUME FaceInv, kernel = "done", SchemeOfRow \in Linear, flagged = {},
                    NEW z \in OwnZones, z + 1 \in OwnZones
             PROVE  2 * fastest * row.rho[z] - (flux[z + 1] - flux[z]) >= -rounding * fastest
    BY DEF FluxKeepsPositive, finished, Linear
<1>1. PICK top \in Nat : /\ top = fastest
                         /\ \A f \in OwnZones : ctop(f) \in Nat /\ ctop(f) <= top
    BY FastestIs
<1>2. /\ row \in Rows /\ SchemeOfRow \in Schemes \cap Smooth
      /\ z \in Calculated /\ z + 1 \in Calculated /\ z \in Reconstructed /\ (z + 1) - 1 = z
    BY FacesAre DEF FaceInv, Schemes, Linear, Smooth
<1>3. SidesFrom(SchemeOfRow, z) /\ SidesFrom(SchemeOfRow, z + 1)
    BY <1>2 DEF FaceInv, SidesInv
<1>4. PICK n \in Nat : n = row.rho[z]
    BY <1>2, <1>3, Between
<1>5. PICK below \in Nat, above \in Nat :
          below = right[z].rho /\ above = left[z + 1].rho /\ above + below = 2 * n
    <2>1. right[z].rho \in Nat
        BY <1>2, <1>3, Between DEF least
    <2>2. left[z + 1].rho \in Nat
        BY <1>2, <1>3, Between DEF least
    <2>3. PICK e : e = reconstruct(SchemeOfRow, row.rho, z) /\ Centered(e, row.rho[z])
        BY <1>2, RowGives
    <2>4. right[z].rho = e.l /\ left[z + 1].rho = e.r
        <3>1. right[z].rho = e.l
            BY <1>3, <2>3 DEF SidesFrom
        <3>2. left[z + 1].rho = reconstruct(SchemeOfRow, row.rho, (z + 1) - 1).r
            BY <1>3 DEF SidesFrom
        <3> QED BY <1>2, <2>3, <3>1, <3>2
    <2> QED BY <1>4, <2>1, <2>2, <2>3, <2>4 DEF Centered
<1>6. ASSUME NEW f \in OwnZones, f \in Calculated, SidesFrom(SchemeOfRow, f)
      PROVE  Carried(flux[f], ctop(f), left[f].rho, right[f].rho)
    <2>1. PICK ul \in Nat, ur \in Nat, vl \in Int, vr \in Int, cp \in Nat, cm \in Nat :
              /\ ul = left[f].rho /\ ur = right[f].rho /\ vl = left[f].v /\ vr = right[f].v
              /\ cp = cmax[f] /\ cm = cmin[f] /\ cp + cm > 0
              /\ cp >= vl /\ cp >= vr /\ cm >= -vl /\ cm >= -vr
        <3>1. left[f].rho \in Nat /\ right[f].rho \in Nat
            BY <1>2, <1>6, Between DEF least
        <3> QED BY <1>6, <3>1, SpeedsAre
    <2>2. /\ Carried(llf(ul * vl, ur * vr, cp, cm, ul, ur), greatest(cp, cm), ul, ur)
          /\ Carried(hlle(ul * vl, ur * vr, cp, cm, ul, ur), greatest(cp, cm), ul, ur)
        BY <2>1, FluxBounds
    <2>3. flux[f] = IF row.flux = "hlle" THEN hlle(ul * vl, ur * vr, cp, cm, ul, ur)
                                         ELSE llf(ul * vl, ur * vr, cp, cm, ul, ur)
        BY <1>6, <2>1, SpeedsAre DEF Solved
    <2>4. ctop(f) = greatest(cp, cm)
        BY <2>1 DEF ctop
    <2> QED BY <2>1, <2>2, <2>3, <2>4
<1>7. PICK out \in Int : out = flux[z + 1] /\ out <= top * above
    <2>1. PICK c \in Nat : c = ctop(z + 1) /\ c <= top
        BY <1>1
    <2>2. flux[z + 1] \in Int /\ flux[z + 1] <= c * above
        BY <1>2, <1>3, <1>5, <1>6, <2>1 DEF Carried
    <2>3. c * above <= top * above
        BY <2>1
    <2> QED BY <2>2, <2>3
<1>8. PICK in \in Int : in = flux[z] /\ in + top * below >= 0
    <2>1. PICK c \in Nat : c = ctop(z) /\ c <= top
        BY <1>1
    <2>2. flux[z] \in Int /\ flux[z] + c * right[z].rho >= 0
        BY <1>2, <1>3, <1>6, <2>1 DEF Carried
    <2>3. c * below <= top * below
        BY <2>1
    <2> QED BY <1>5, <2>2, <2>3
<1>9. top * above + top * below = 2 * top * n
    <2>1. top * (above + below) = top * (2 * n)
        BY <1>5
    <2> QED BY <2>1
<1>10. 2 * top * n - (out - in) >= 0 /\ -rounding * top <= 0
    <2>1. PICK p \in Int, q \in Int : p = top * above /\ q = top * below
        OBVIOUS
    <2>2. 2 * top * n = p + q
        BY <1>9, <2>1
    <2> QED BY <1>7, <1>8, <2>1, <2>2 DEF rounding
<1>11. 2 * top * n - (out - in) \in Int /\ -rounding * top \in Int
    BY DEF rounding
<1> QED BY <1>1, <1>4, <1>7, <1>8, <1>10, <1>11

(* For any row, either solver and any linear scheme, a step as long as half  *)
(* of what the fastest signal allows leaves no zone with a density below     *)
(* zero: the speeds of a face bound both its states, and a zone's value is   *)
(* the mean of its ends.                                                     *)
THEOREM FluxAlwaysKeepsPositive == FaceSpec => []FluxKeepsPositive
BY KeepsPositive, FaceInvHolds, PTL
=============================================================================
