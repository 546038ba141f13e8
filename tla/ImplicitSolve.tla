--------------------------- MODULE ImplicitSolve ---------------------------
(***************************************************************************)
(* Implicit::Step: the nonlinear solve for implicitly evolved variables.   *)
(* Each rank takes the partitions of its mesh one after another, in the    *)
(* order its task lists reach them.  A partition's zones are iterated      *)
(* together: a kernel takes a step in every zone that has not failed, and  *)
(* the largest residual over all ranks, a collective of the Reductions     *)
(* package, decides whether all of them go on.  A step has Stages of them  *)
(* and ends with the count of flags (Implicit::PostStepDiagnostics).       *)
(*                                                                         *)
(* Norms are kept as "below" the tolerance, "above" it or "nan"; a norm    *)
(* equal to it is not distinguished.  Primitives are the sub-step's start, *)
(* the initial guess or a solution, named by the class of its residual.    *)
(* What the counts of failed zones and of flags give is only printed.      *)
(***************************************************************************)
EXTENDS Naturals, Sequences, FiniteSets, FiniteSetsExt

CONSTANTS
    Processes, Root,     \* the ranks, and rank 0
    Parts,               \* partitions of the mesh on each rank: DefaultNumPartitions
    Zones,               \* of a partition
    Stages,              \* sub-steps of a step
    MinIter, MaxIter     \* implicit/min_nonlinear_iter, max_nonlinear_iter

ASSUME SolveAssumption ==
    /\ MinIter \in Nat /\ MaxIter \in Nat \ {0} /\ Stages \in Nat
    /\ IsFiniteSet(Parts) /\ Parts # {}

VARIABLES
    verbose,     \* Globals' verbose >= 1, the same on all ranks
    at,          \* where each rank is
    stage,       \* its sub-step
    todo,        \* its partitions not yet solved in this stage
    iter,        \* iteration of the partition it is solving
    zones,       \* solve_fail, solve_norm and primitives of that partition's zones
    maxNorm,     \* the result of its last AllReduce
    rounds       \* reductions under way: per channel, what ranks gave and who has taken it

solveVars == <<verbose, at, stage, todo, iter, zones, maxNorm, rounds>>

Norms == {"below", "above", "nan"}
Channels == {"norms", "fails", "flags"}    \* AllReduce 4, and Reduce 5 and 2 to the root

-----------------------------------------------------------------------------
(***************************************************************************)
(* What the linear solve and the line search can give in a zone: the room  *)
(* rho and u leave for the step, the class of the line search's last       *)
(* trial, and that of the residual where the zone ends, which is another   *)
(* when the trial was rejected: the step then shrinks once more after it.  *)
(* A NaN trial is accepted.  Shorter steps than one that keeps rho and u   *)
(* positive keep them so.                                                  *)
(***************************************************************************)
Outcomes ==
    {o \in [room : {"whole", "tenth", "none"}, trial : Norms, final : Norms] :
        o.trial = "nan" => o.final = "nan"}

Failed(zone) == [zone EXCEPT !.status = "fail", !.prims = "start"]

\* Mutant: the norm kept is that of the line search's last trial
AfterTrial(zone, o) ==
    IF o.room = "none" THEN Failed(zone)
    ELSE CASE o.trial = "nan" -> [Failed(zone) EXCEPT !.norm = "nan"]
           [] o.trial = "above" -> [status |-> "beyond_tol", norm |-> "above", prims |-> o.final]
           [] OTHER -> [status |-> IF o.room = "tenth" THEN "backtrack" ELSE "converged",
                        norm |-> "below", prims |-> o.final]

\* A zone without room for a tenth of the step keeps the norm it had
AfterStep(zone, o) ==
    IF o.room = "none" THEN Failed(zone)
    ELSE CASE o.final = "nan" -> [Failed(zone) EXCEPT !.norm = "nan"]
           [] o.final = "above" -> [status |-> "beyond_tol", norm |-> "above", prims |-> o.final]
           [] OTHER -> [status |-> IF o.room = "tenth" THEN "backtrack" ELSE "converged",
                        norm |-> "below", prims |-> o.final]

\* solve_fail is reset at the first iteration; from then on a failed zone is left alone
Solved(zone, o, first) ==
    IF zone.status = "fail" /\ ~first THEN zone ELSE AfterStep(zone, o)

\* Mutant: zones already known to be beyond the tolerance do not count
MaxOfUnflagged(solved) ==
    IF \E z \in Zones : solved[z].norm = "above" /\ solved[z].status # "beyond_tol"
    THEN "above" ELSE "below"

\* The largest norm on this rank, failed zones included; comparisons skip a NaN
LocalMax(solved) ==
    IF \E z \in Zones : solved[z].norm = "above" THEN "above" ELSE "below"

-----------------------------------------------------------------------------
(***************************************************************************)
(* Reductions::Start and Check.  A rank's n-th call on a channel meets     *)
(* the n-th of every other.  StartToAll's result needs all of them; after  *)
(* Start only the root waits for it, others have done their part.          *)
(***************************************************************************)
NoRound == [given |-> <<>>, taken |-> {}]
Gave(round, r) == r \in DOMAIN round.given

Joined(round, r, value) ==
    [round EXCEPT !.given = [s \in DOMAIN round.given \cup {r} |->
        IF s = r THEN [value |-> value, stage |-> stage[r], iter |-> iter[r]]
        ELSE round.given[s]]]

Give(channel, r, value) ==
    LET calls == rounds[channel]
        joining == {n \in 1 .. Len(calls) : ~Gave(calls[n], r)}
    IN  IF joining = {} THEN Append(calls, Joined(NoRound, r, value))
        ELSE [calls EXCEPT ![Min(joining)] = Joined(@, r, value)]

\* The first call of r whose result it has not taken
Pending(channel, r) ==
    CHOOSE n \in 1 .. Len(rounds[channel]) :
        /\ r \notin rounds[channel][n].taken
        /\ \A m \in 1 .. n - 1 : r \in rounds[channel][m].taken

Complete(channel, r) == DOMAIN rounds[channel][Pending(channel, r)].given = Processes
Result(channel, r) == rounds[channel][Pending(channel, r)].given

\* A reduction is forgotten when nobody is going to look at it any more
Take(channel, r) ==
    LET n == Pending(channel, r)
        calls == [rounds[channel] EXCEPT ![n].taken = @ \cup {r}]
        over == calls[1].taken = Processes
    IN  IF over THEN Tail(calls) ELSE calls

-----------------------------------------------------------------------------
\* Between solves nothing of a partition is in hand
NoZones == [z \in Zones |-> [status |-> "converged", norm |-> "below", prims |-> "guess"]]

Moves(r, here, next) == at[r] = here /\ at' = [at EXCEPT ![r] = next]

StartSolve(r) ==
    /\ Moves(r, "idle", "kernel")
    /\ \E p \in todo[r] : todo' = [todo EXCEPT ![r] = @ \ {p}]
    /\ iter' = [iter EXCEPT ![r] = 1]
    \* OneCopy fields hold what the last solve of this partition left; of its norms only
    \* those above the tolerance are told apart
    /\ \E left \in [Zones -> [status : {"converged", "fail"}, norm : {"below", "above"}]] :
           zones' = [zones EXCEPT ![r] = [z \in Zones |->
                        [status |-> left[z].status, norm |-> left[z].norm, prims |-> "guess"]]]
    /\ UNCHANGED <<verbose, stage, maxNorm, rounds>>

\* Mutant: each rank decides by its own norm
OwnNorm(r) == LocalMax(zones[r])

GlobalNorm(r) == maxNorm[r]

\* The end of an iteration: break, the next one, or the end of the loop
Stops(r) == iter[r] = MaxIter \/ (iter[r] >= MinIter /\ GlobalNorm(r) = "below")

Reduces(r) == iter[r] >= MinIter \/ verbose

Kernel(r) ==
    /\ at[r] = "kernel"
    /\ LET results == [z \in Zones |-> {Solved(zones[r][z], o, iter[r] = 1) : o \in Outcomes}]
       IN  \E solved \in [Zones -> UNION {results[z] : z \in Zones}] :
               /\ \A z \in Zones : solved[z] \in results[z]
               /\ zones' = [zones EXCEPT ![r] = solved]
               /\ rounds' = IF Reduces(r)
                            THEN [rounds EXCEPT !["norms"] = Give("norms", r, LocalMax(solved))]
                            ELSE rounds
    /\ at' = [at EXCEPT ![r] = IF Reduces(r) THEN "check" ELSE "decide"]
    /\ UNCHANGED <<verbose, stage, todo, iter, maxNorm>>

CheckNorm(r) ==
    /\ Moves(r, "check", IF verbose THEN "count" ELSE "decide")
    /\ Complete("norms", r)
    /\ maxNorm' = [maxNorm EXCEPT ![r] =
           IF \E s \in Processes : Result("norms", r)[s].value = "above" THEN "above" ELSE "below"]
    /\ LET counted == IF verbose THEN Give("fails", r, "count") ELSE rounds["fails"]
       IN  rounds' = [rounds EXCEPT !["norms"] = Take("norms", r), !["fails"] = counted]
    /\ UNCHANGED <<verbose, stage, todo, iter, zones>>

\* Printed by the root; another rank's Check returns when its part is done
CheckFails(r) ==
    /\ Moves(r, "count", "decide")
    /\ r = Root => Complete("fails", r)
    /\ rounds' = [rounds EXCEPT !["fails"] = Take("fails", r)]
    /\ UNCHANGED <<verbose, stage, todo, iter, zones, maxNorm>>

NextIteration(r) ==
    /\ Moves(r, "decide", "kernel")
    /\ ~Stops(r)
    /\ iter' = [iter EXCEPT ![r] = @ + 1]
    /\ UNCHANGED <<verbose, stage, todo, zones, maxNorm, rounds>>

EndSolve(r) ==
    /\ Moves(r, "decide", "idle")
    /\ Stops(r)
    /\ iter' = [iter EXCEPT ![r] = 0]
    /\ zones' = [zones EXCEPT ![r] = NoZones]
    /\ maxNorm' = [maxNorm EXCEPT ![r] = "below"]
    /\ UNCHANGED <<verbose, stage, todo, rounds>>

NextSubStep(r) ==
    /\ Moves(r, "idle", "idle")
    /\ todo[r] = {} /\ stage[r] < Stages
    /\ stage' = [stage EXCEPT ![r] = @ + 1]
    /\ todo' = [todo EXCEPT ![r] = Parts]
    /\ UNCHANGED <<verbose, iter, zones, maxNorm, rounds>>

StartFlagReduce(r) ==
    /\ Moves(r, "idle", "report")
    /\ todo[r] = {} /\ stage[r] = Stages
    /\ rounds' = [rounds EXCEPT !["flags"] = Give("flags", r, "count")]
    /\ UNCHANGED <<verbose, stage, todo, iter, zones, maxNorm>>

CheckFlagReduceAndPrintHits(r) ==
    /\ Moves(r, "report", "done")
    /\ r = Root => Complete("flags", r)
    /\ rounds' = [rounds EXCEPT !["flags"] = Take("flags", r)]
    /\ UNCHANGED <<verbose, stage, todo, iter, zones, maxNorm>>

SolveInit ==
    /\ verbose \in BOOLEAN
    /\ at = [r \in Processes |-> "idle"]
    /\ stage = [r \in Processes |-> 1]
    /\ todo = [r \in Processes |-> Parts]
    /\ iter = [r \in Processes |-> 0]
    /\ zones = [r \in Processes |-> NoZones]
    /\ maxNorm = [r \in Processes |-> "below"]
    /\ rounds = [c \in Channels |-> <<>>]

RankNext(r) ==
    \/ StartSolve(r) \/ Kernel(r) \/ CheckNorm(r) \/ CheckFails(r)
    \/ NextIteration(r) \/ EndSolve(r) \/ NextSubStep(r)
    \/ StartFlagReduce(r) \/ CheckFlagReduceAndPrintHits(r)

Finished == \A r \in Processes : at[r] = "done"

SolveNext == (\E r \in Processes : RankNext(r)) \/ (Finished /\ UNCHANGED solveVars)

SolveSpec == SolveInit /\ [][SolveNext]_solveVars
-----------------------------------------------------------------------------
Honest(zone) ==
    zone.prims = CASE zone.status = "fail" -> "start"
                   [] zone.status = "beyond_tol" -> "above"
                   [] OTHER -> "below"

\* The kernel has been over the zones of the partition r is solving
Stepped(r) == iter[r] > 0 /\ (at[r] = "kernel" => iter[r] > 1)

(***************************************************************************)
(* What a zone's flag says is what its primitives are: those of a failed   *)
(* zone are the sub-step's start, which FixSolve may average from or over, *)
(* and no other zone holds the bare guess, a NaN, or a solution worse than *)
(* its flag says; whatever the flag was in the last solve, and however     *)
(* many iterations other zones made it wait.                               *)
(***************************************************************************)
StatusHonest == \A r \in Processes : Stepped(r) => \A z \in Zones : Honest(zones[r][z])

(***************************************************************************)
(* A partition is given up before the last iteration only when all of its  *)
(* zones that have not failed are within the tolerance, though what ends   *)
(* the loop is a maximum taken over zones of other ranks.                  *)
(***************************************************************************)
EndsConverged ==
    [][\A r \in Processes : at[r] = "decide" /\ at'[r] = "idle" /\ iter[r] < MaxIter =>
           \A z \in Zones : zones[r][z].status \notin {"fail"} => zones[r][z].prims = "below"]_solveVars

(***************************************************************************)
(* Reductions pair calls by their order alone.  Yet what meets in one is   *)
(* always of the same iteration in the same sub-step, though ranks take    *)
(* their partitions in different orders and decide each for themselves     *)
(* whether to call again.                                                  *)
(***************************************************************************)
InStep ==
    \A c \in Channels : \A n \in 1 .. Len(rounds[c]) :
        LET given == rounds[c][n].given
        IN  \A r, s \in DOMAIN given :
                given[r].stage = given[s].stage /\ given[r].iter = given[s].iter
=============================================================================
