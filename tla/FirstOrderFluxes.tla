-------------------------- MODULE FirstOrderFluxes --------------------------
(* First-order flux corrections, on a mesh cut into blocks along X1.  Every  *)
(* sub-step first takes a fake one into a guess; the zones where it would    *)
(* fail are marked, and the fluxes around them replaced by donor-cell ones.  *)
(* The PCP variant then lets marked zones draw energy through their faces.   *)
(* Each block decides about the faces it shares by itself.  Zone z has the   *)
(* faces z and z + 1.  Inputs of a sub-step are the zones where its values   *)
(* fail, whichever block computes them; a value a block did not compute      *)
(* like the owner of the zone may fail or not.                               *)
EXTENDS Integers, FiniteSets

CONSTANTS
    N,          \* columns of a block
    Ghosts,     \* ghost columns shared with a neighboring block
    FluxHalo,   \* ghost columns with fluxes through both faces
    GuessHalo,  \* ghost columns the fake step updates
    SubSteps,   \* sub-steps of a step
    Unit,       \* what a zone is owed, divisible by any sum of two weights
    Scenarios   \* [deck, history]: a mesh with its options, and its inputs

ASSUME CorrectionAssumption ==
    /\ N \in Nat \ {0} /\ Ghosts \in 1 .. N /\ SubSteps \in Nat \ {0} /\ Unit \in Nat
    /\ FluxHalo \in Nat /\ GuessHalo \in Nat
    /\ \A c \in Scenarios :
        /\ c.deck.blocks \in Nat \ {0} /\ c.deck.driver \in {"kharma", "imex"}
        /\ c.deck.pcp \in BOOLEAN /\ c.deck.spherical \in BOOLEAN
        /\ c.deck.average \in BOOLEAN /\ c.deck.inside \in Nat
        /\ 1 \in DOMAIN c.history /\ DOMAIN c.history \subseteq Nat
        /\ \A s \in DOMAIN c.history : c.history[s].u \in [1 .. c.deck.blocks * N -> Int]

VARIABLES
    deck,       \* [blocks, driver, pcp, spherical, average, inside]: the last the
                \* columns too near the horizon for high-order fluxes
    history,    \* what every sub-step meets: [states, fail, hits, floored, u]
    stage,
    done,       \* block -> tasks of the sub-step it has run
    cons, prims,\* block -> zones where the guess has its owner's value
    pflag, fflag, fofcflag, \* block -> flagged zones
    sent,       \* block -> what its neighbors will find in its buffers
    lowered,    \* block -> faces with a first-order flux
    alpha,      \* block -> zone -> energy it draws, per weight of a neighbor
    stolen,     \* block -> face -> energy the correction adds to the flux
    inOrder     \* no block marked zones before it had determined floors, or
                \* received the guess of another while it worked on its own

vars == <<deck, history, stage, done, cons, prims, pflag, fflag, fofcflag, sent, lowered,
          alpha, stolen, inOrder>>

Blocks == 1 .. deck.blocks
Columns == deck.blocks * N
FirstColumn(b) == (b - 1) * N + 1
LastColumn(b) == b * N
Interior(b) == FirstColumn(b) .. LastColumn(b)

Within(b, d) == (FirstColumn(b) - d .. LastColumn(b) + d) \cap (1 .. Columns)
Stored(b) == Within(b, Ghosts)

(* The block that zone z of the mesh belongs to. *)
OwnerOf(z) == CHOOSE b \in Blocks : z \in Interior(b)
Neighbors(b) == {c \in Blocks : c \in {b - 1, b + 1}}

now == history[stage]

-----------------------------------------------------------------------------
(* The lists.  The inversion of the guess waits for its update, not for its  *)
(* exchange, and the marks for the inversion, not for the floors.            *)
Needs(task) ==
    CASE task = "fluxes" -> {}
      [] task = "update guess" -> {"fluxes"}
      [] task = "send" -> {"update guess"}
      [] task = "set" -> {"send"}
      [] task = "invert" -> {"update guess"}
      [] task = "determine" -> {"invert"}
      [] task = "mark" -> {"invert"}
      [] task = "clear" -> {"mark"}
      [] task = "replace" -> {"mark"}
      [] task = "revise" -> {"replace"}

FakeStep == {"fluxes", "update guess", "send", "set", "invert", "determine", "mark", "clear",
             "replace"}
Tasks == IF deck.pcp THEN FakeStep \cup {"revise"} ELSE FakeStep

Due(b, task) == task \in Tasks \ done[b] /\ Needs(task) \subseteq done[b]
Done(b, task) == done' = [done EXCEPT ![b] = @ \cup {task}]

(* The fluxes of a block are the ones the sub-step will use. *)
Corrected(b) == (IF deck.pcp THEN "revise" ELSE "replace") \in done[b]

\* Mutant: fluxes through the block's own faces only
OwnFaces(b) == FirstColumn(b) .. (LastColumn(b) + 1)

(* The faces GetFlux and FOFC work on. *)
CalculatedFaces(b) ==
    ((FirstColumn(b) - FluxHalo) .. (LastColumn(b) + 1 + FluxHalo)) \cap (1 .. Columns + 1)

(* High-order fluxes; reconstructed states that hit a floor are flagged with *)
(* the zone whose left face it is.                                           *)
GetFlux(b) ==
    /\ Due(b, "fluxes") /\ Done(b, "fluxes")
    /\ lowered' = [lowered EXCEPT ![b] = {}]
    /\ stolen' = [stolen EXCEPT ![b] = [f \in CalculatedFaces(b) |-> 0]]
    /\ fflag' = [fflag EXCEPT ![b] =
            @ \cup (now.states \cap CalculatedFaces(b) \cap Stored(b))]
    /\ UNCHANGED <<deck, history, stage, cons, prims, pflag, fofcflag, sent, alpha, inOrder>>

(* The fake update reaches further than the fluxes it takes are computed. *)
UpdateGuess(b) ==
    /\ Due(b, "update guess") /\ Done(b, "update guess")
    /\ cons' = [cons EXCEPT ![b] =
            {z \in Within(b, GuessHalo) \cap Stored(b) : {z, z + 1} \subseteq CalculatedFaces(b)}]
    /\ prims' = [prims EXCEPT ![b] = {}]
    /\ UNCHANGED <<deck, history, stage, pflag, fflag, fofcflag, sent, lowered, alpha, stolen,
                   inOrder>>

(* The exchange of the guess: all that fills ghosts, the primitives in both  *)
(* drivers and the flags among it, as they are when they are sent.           *)
SendGuess(b) ==
    /\ Due(b, "send") /\ Done(b, "send")
    /\ sent' = [sent EXCEPT ![b] = [prims |-> prims[b], pflag |-> pflag[b],
                                    fofcflag |-> fofcflag[b]]]
    /\ UNCHANGED <<deck, history, stage, cons, prims, pflag, fflag, fofcflag, lowered, alpha,
                   stolen, inOrder>>

Exchanged(b, zones, bufs) ==
    {z \in Stored(b) : z \in IF z \in Interior(b) THEN zones ELSE bufs[OwnerOf(z)]}

SetGuess(b) ==
    /\ Due(b, "set") /\ Done(b, "set")
    /\ \A c \in Neighbors(b) : "send" \in done[c]
    /\ cons' = IF deck.driver = "kharma" THEN [cons EXCEPT ![b] = Stored(b)] ELSE cons
    /\ prims' = [prims EXCEPT ![b] = Exchanged(b, @, [c \in Blocks |-> sent[c].prims])]
    /\ pflag' = IF deck.driver = "imex" /\ deck.average
                THEN [pflag EXCEPT ![b] = Exchanged(b, @, [c \in Blocks |-> sent[c].pflag])]
                ELSE pflag
    /\ fofcflag' = [fofcflag EXCEPT ![b] =
            Exchanged(b, @, [c \in Blocks |-> sent[c].fofcflag])]
    /\ inOrder' = (inOrder /\ ("invert" \in done[b] => Corrected(b)))
    /\ UNCHANGED <<deck, history, stage, fflag, sent, lowered, alpha, stolen>>

(* The guess is inverted in all zones of the mesh the block stores. *)
InvertGuess(b) ==
    /\ Due(b, "invert") /\ Done(b, "invert")
    /\ prims' = [prims EXCEPT ![b] = cons[b]]
    /\ \E odd \in SUBSET (Stored(b) \ cons[b]) :
        pflag' = [pflag EXCEPT ![b] = (now.fail \cap cons[b]) \cup odd]
    /\ UNCHANGED <<deck, history, stage, cons, fflag, fofcflag, sent, lowered, alpha, stolen,
                   inOrder>>

(* Floors the guess would hit join the flags there are. *)
DetermineFloors(b) ==
    /\ Due(b, "determine") /\ Done(b, "determine")
    /\ \E odd \in SUBSET (Stored(b) \ prims[b]) :
        fflag' = [fflag EXCEPT ![b] = @ \cup (now.hits \cap prims[b]) \cup odd]
    /\ UNCHANGED <<deck, history, stage, cons, prims, pflag, fofcflag, sent, lowered, alpha,
                   stolen, inOrder>>

MarkFOFC(b) ==
    /\ Due(b, "mark") /\ Done(b, "mark")
    /\ fofcflag' = [fofcflag EXCEPT ![b] =
            pflag[b] \cup fflag[b] \cup (Stored(b) \cap 1 .. deck.inside)]
    /\ inOrder' = (inOrder /\ "determine" \in done[b])
    /\ UNCHANGED <<deck, history, stage, cons, prims, pflag, fflag, sent, lowered, alpha,
                   stolen>>

ClearFlags(b) ==
    /\ Due(b, "clear") /\ Done(b, "clear")
    /\ fflag' = [fflag EXCEPT ![b] = {}]
    /\ pflag' = [pflag EXCEPT ![b] = {}]
    /\ UNCHANGED <<deck, history, stage, cons, prims, fofcflag, sent, lowered, alpha, stolen,
                   inOrder>>

Marked(b, f) == {f - 1, f} \cap fofcflag[b] # {}

(* A face is replaced if a zone on either side is marked. *)
FOFC(b) ==
    /\ Due(b, "replace") /\ Done(b, "replace")
    /\ lowered' = [lowered EXCEPT ![b] = {f \in CalculatedFaces(b) : Marked(b, f)}]
    /\ UNCHANGED <<deck, history, stage, cons, prims, pflag, fflag, fofcflag, sent, alpha,
                   stolen, inOrder>>

-----------------------------------------------------------------------------
(* The PCP revision, from a second fake step with first-order fluxes, which  *)
(* is exchanged before it is inverted.                                       *)

(* Internal energy, outflow beyond the mesh; the floor falls with radius. *)
Energy(z) == now.u[IF z < 1 THEN 1 ELSE IF z > Columns THEN Columns ELSE z]
EnergyFloor(z) == IF deck.spherical THEN Columns + 1 - z ELSE 1

Needy(b, z) == z \in fofcflag[b] /\ Energy(z) < EnergyFloor(z)

(* What zone z offers where the floor is that of another. *)
Weight(z, floorOf) ==
    LET excess == Energy(z) - EnergyFloor(floorOf) IN IF excess > 0 THEN excess * excess ELSE 0
SumOfWeights(z) == Weight(z + 1, z) + Weight(z - 1, z)

(* Ghost zones keep the zero they were allocated with, a needy zone without  *)
(* a neighbor to draw from what it had.                                      *)
NewAlpha(b) ==
    [z \in Interior(b) |->
        IF ~Needy(b, z) THEN 0
        ELSE IF SumOfWeights(z) > 0 THEN Unit \div SumOfWeights(z) ELSE alpha[b][z]]

\* Mutant: the two sides of the face are swapped
Swapped(f, a) ==
    LET Draws(z) == IF z \in DOMAIN a THEN a[z] ELSE 0
    IN  Weight(f, f) * Draws(f) - Weight(f - 1, f) * Draws(f - 1)

Revision(f, a) ==
    LET Draws(z) == IF z \in DOMAIN a THEN a[z] ELSE 0
    IN  Weight(f - 1, f) * Draws(f) - Weight(f, f) * Draws(f - 1)

FOFC_PCP(b) ==
    /\ Due(b, "revise") /\ Done(b, "revise")
    /\ \A c \in Neighbors(b) : "replace" \in done[c]
    /\ alpha' = [alpha EXCEPT ![b] = NewAlpha(b)]
    /\ stolen' = [stolen EXCEPT ![b] = [f \in CalculatedFaces(b) |->
            IF f \in FirstColumn(b) .. LastColumn(b) + 1 THEN Revision(f, NewAlpha(b)) ELSE @[f]]]
    /\ cons' = [cons EXCEPT ![b] = Stored(b)] /\ prims' = [prims EXCEPT ![b] = Stored(b)]
    /\ pflag' = [pflag EXCEPT ![b] = {}]
    /\ fofcflag' = [fofcflag EXCEPT ![b] = Exchanged(b, @, fofcflag)]
    /\ UNCHANGED <<deck, history, stage, fflag, sent, lowered, inOrder>>

-----------------------------------------------------------------------------
Finished(b) == done[b] = Tasks

\* Mutant: one ghost zone too many
OneTooMany(b) == Within(b, Ghosts + 1)

(* Where floors are applied to the real step. *)
FloorRange(b) == IF deck.driver = "kharma" THEN Stored(b) ELSE Interior(b)

(* The rest of the sub-step: the real update, its floors and the exchange,   *)
(* the marks among it.  Floor flags are only reset before a step.            *)
NextStage ==
    /\ \A b \in Blocks : Finished(b)
    /\ stage + 1 \in DOMAIN history /\ inOrder
    /\ stage' = stage + 1
    /\ done' = [b \in Blocks |-> {}]
    /\ fflag' = [b \in Blocks |->
            IF stage % SubSteps = 0 THEN {} ELSE fflag[b] \cup (now.floored \cap FloorRange(b))]
    /\ fofcflag' = [b \in Blocks |-> Exchanged(b, fofcflag[b], fofcflag)]
    /\ UNCHANGED <<deck, history, cons, prims, pflag, sent, lowered, alpha, stolen, inOrder>>

Init ==
    /\ \E c \in Scenarios : deck = c.deck /\ history = c.history
    /\ stage = 1 /\ inOrder = TRUE
    /\ done = [b \in Blocks |-> {}]
    /\ cons = [b \in Blocks |-> {}] /\ prims = [b \in Blocks |-> {}]
    /\ pflag = [b \in Blocks |-> {}] /\ fflag = [b \in Blocks |-> {}]
    /\ fofcflag = [b \in Blocks |-> {}]
    /\ sent = [b \in Blocks |-> [prims |-> {}, pflag |-> {}, fofcflag |-> {}]]
    /\ lowered = [b \in Blocks |-> {}]
    /\ alpha = [b \in Blocks |-> [z \in Interior(b) |-> 0]]
    /\ stolen = [b \in Blocks |-> [f \in CalculatedFaces(b) |-> 0]]

Next ==
    \/ \E b \in Blocks :
        \/ GetFlux(b) \/ UpdateGuess(b) \/ SendGuess(b) \/ SetGuess(b) \/ InvertGuess(b)
        \/ DetermineFloors(b) \/ MarkFOFC(b) \/ ClearFlags(b) \/ FOFC(b) \/ FOFC_PCP(b)
    \/ NextStage

Spec == Init /\ [][Next]_vars

-----------------------------------------------------------------------------
(* Flags are of zones the block stores, and fluxes of faces it computes. *)
TypeOK ==
    /\ \E c \in Scenarios : deck = c.deck /\ history = c.history
    /\ stage \in DOMAIN history /\ inOrder \in BOOLEAN
    /\ done \in [Blocks -> SUBSET Tasks]
    /\ DOMAIN cons = Blocks /\ DOMAIN prims = Blocks
    /\ DOMAIN pflag = Blocks /\ DOMAIN fflag = Blocks /\ DOMAIN fofcflag = Blocks
    /\ DOMAIN sent = Blocks /\ DOMAIN lowered = Blocks
    /\ DOMAIN alpha = Blocks /\ DOMAIN stolen = Blocks
    /\ \A b \in Blocks :
        /\ cons[b] \subseteq Stored(b) /\ prims[b] \subseteq Stored(b)
        /\ pflag[b] \subseteq Stored(b) /\ fflag[b] \subseteq Stored(b)
        /\ fofcflag[b] \subseteq Stored(b) /\ lowered[b] \subseteq CalculatedFaces(b)
        /\ alpha[b] \in [Interior(b) -> Int] /\ stolen[b] \in [CalculatedFaces(b) -> Int]

(* The two blocks of a face use one flux, so that what leaves one enters the *)
(* other. *)
FluxesAgree ==
    \A b \in Blocks : b + 1 \in Blocks /\ Corrected(b) /\ Corrected(b + 1) =>
        LET f == FirstColumn(b + 1)
        IN  /\ f \in lowered[b] <=> f \in lowered[b + 1]
            /\ stolen[b][f] = stolen[b + 1][f]

(* They do so as long as no exchange lands in the middle of the prediction,  *)
(* although each block predicts for itself where its neighbor's zones would  *)
(* fail, from ghosts that may not have been exchanged, with flags that the   *)
(* last sub-step left: the fluxes one zone beyond the block, the range of    *)
(* the floors and the resets of the flags must fit together.                 *)
AgreeInOrder == inOrder => FluxesAgree

(* A needy zone is given exactly what it is owed, although its neighbors'    *)
(* shares are computed again at each face, and nothing where none can give,  *)
(* although what it last drew is still on record.                            *)
NeedyPaid ==
    \A b \in Blocks : deck.pcp /\ Corrected(b) => \A z \in Interior(b) :
        Needy(b, z) => stolen[b][z] - stolen[b][z + 1] =
                           IF SumOfWeights(z) > 0 THEN Unit ELSE 0
=============================================================================
