------------------------------- MODULE MCRanks -------------------------------
(***************************************************************************)
(* What ranks do together in a stage, a behavior for each: three of them   *)
(* exchange ghost zones, or two solve for the implicitly evolved variables *)
(* in two partitions of one zone each.                                     *)
(***************************************************************************)
EXTENDS FullSync, ImplicitSolve

CONSTANTS r1, r2, r3, a, b, z

\* Every partition touches every other, and itself: the block lists wrap around
MCAdjacent == Partitions \X Partitions

VARIABLE subject    \* what a behavior is of; the other rests in an initial state

InitOfOne ==
    /\ Init /\ SolveInit
    /\ subject \in {"exchange", "solve"}
    /\ subject = "exchange" => ~verbose

NextOfOne ==
    \/ \E r \in Ranks : subject = "exchange" /\ Rank(r) /\ UNCHANGED <<subject, solveVars>>
    \/ \E r \in Processes : subject = "solve" /\ RankNext(r) /\ UNCHANGED <<subject, vars>>
    \/ Finished /\ UNCHANGED <<subject, vars, solveVars>>

\* Each rank keeps polling its tasks, and its collectives
RanksSpec ==
    /\ InitOfOne /\ [][NextOfOne]_<<subject, vars, solveVars>>
    /\ \A r \in Ranks : WF_vars(subject = "exchange" /\ Rank(r))
    /\ \A r \in Processes : WF_solveVars(subject = "solve" /\ RankNext(r))

-----------------------------------------------------------------------------
(***************************************************************************)
(* No rank waits for the others forever: every stage's exchanges complete, *)
(* and every collective of the solves meets its counterparts, so that all  *)
(* ranks come to the end of the step.                                      *)
(***************************************************************************)
NobodyWaits ==
    /\ subject = "exchange" => StagesComplete
    /\ subject = "solve" => <>Finished
=============================================================================
