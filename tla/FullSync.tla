------------------------------ MODULE FullSync ------------------------------
(***************************************************************************)
(* The ghost zone exchanges of a stage, across ranks and across the        *)
(* partitions (MeshData objects) a rank's blocks are divided into.         *)
(*                                                                         *)
(* A stage is the flux region, where list i ends by exchanging partition   *)
(* i; the fix region, which changes interiors; and, with two_sync, a       *)
(* region from AddFullSyncRegion for every partition.  Such a region has a *)
(* list per partition again, but each of its lists exchanges the one       *)
(* partition the region was added for.  Ranks meet only in messages.       *)
(*                                                                         *)
(* Interiors are represented by a version, the number of times they have   *)
(* changed: a ghost zone should hold the version its neighbor is at.       *)
(***************************************************************************)
EXTENDS Integers, Sequences

CONSTANTS
    Ranks,
    NumPartitions,  \* pmesh->DefaultNumPartitions(), on every rank
    Adjacent,       \* pairs of partitions <<rank, index>> with touching blocks
    TwoSync,        \* the driver parameter two_sync
    MaxInFlight,    \* bound on the messages MPI buffers between two partitions
    Wrap            \* versions are counted modulo this bound

ASSUME BoundsAssumption ==
    /\ NumPartitions \in Nat \ {0} /\ MaxInFlight \in Nat \ {0}
    /\ Wrap \in Nat /\ Wrap > MaxInFlight + 2

Lists == 1 .. NumPartitions
Partitions == Ranks \X Lists
ASSUME AdjacentAssumption ==
    /\ Adjacent \subseteq Partitions \X Partitions
    /\ \A e \in Adjacent : <<e[2], e[1]>> \in Adjacent

\* Mutant: the second exchange comes before what it is there to follow
FixLast == <<<<"flux", 0>>>>
           \o (IF TwoSync THEN [k \in Lists |-> <<"sync", k>>] ELSE <<>>)
           \o <<<<"fix", 0>>>>

\* The regions of a stage; a sync region goes with the partition it is for
Regions == <<<<"flux", 0>>, <<"fix", 0>>>>
           \o (IF TwoSync THEN [k \in Lists |-> <<"sync", k>>] ELSE <<>>)
StageOver == Len(Regions) + 1
Phases == {"send", "receive", "set", "complete"}

VARIABLES
    region,     \* for each rank, the region it executes
    list,       \* for each rank, how far each list of that region has come
    version,    \* for each rank, the version of its interior zones
    channel,    \* messages on their way between adjacent partitions
    ghosts      \* the version in the ghost zones one partition has of another
vars == <<region, list, version, channel, ghosts>>

In(r) == Regions[region[r]][1]

\* The partition that list i of a rank's current region exchanges
Exchanged(r, i) == <<r, IF In(r) = "flux" THEN i ELSE Regions[region[r]][2]>>

To(p) == {e \in Adjacent : e[2] = p}
From(p) == {e \in Adjacent : e[1] = p}

\* A local neighbor's buffer is shared, so it must have been emptied
Capacity(e) == IF e[1][1] = e[2][1] THEN 1 ELSE MaxInFlight

-----------------------------------------------------------------------------
Start(r) == [i \in Lists |-> "send"]

Init ==
    /\ region = [r \in Ranks |-> 1]
    /\ list = [r \in Ranks |-> Start(r)]
    /\ version = [r \in Ranks |-> 0]
    /\ channel = [e \in Adjacent |-> <<>>]
    /\ ghosts = [e \in Adjacent |-> 0]

\* List i of the current region of r is an exchange at this phase
At(r, i, phase) ==
    /\ region[r] # StageOver
    /\ In(r) # "fix"
    /\ list[r][i] = phase

SendBoundBufs(r, i) ==
    LET out == From(Exchanged(r, i))
    IN  /\ At(r, i, "send")
        /\ \A e \in out : Len(channel[e]) < Capacity(e)
        /\ channel' = [e \in Adjacent |->
                         IF e \in out THEN Append(channel[e], version[r]) ELSE channel[e]]
        /\ list' = [list EXCEPT ![r][i] = "receive"]
        /\ UNCHANGED <<region, version, ghosts>>

ReceiveBoundBufs(r, i) ==
    /\ At(r, i, "receive")
    /\ \A e \in To(Exchanged(r, i)) : channel[e] # <<>>
    /\ list' = [list EXCEPT ![r][i] = "set"]
    /\ UNCHANGED <<region, version, channel, ghosts>>

\* Mutant: the buffers are not marked free again
KeepBuffers(r, i) ==
    LET into == To(Exchanged(r, i))
    IN  /\ At(r, i, "set")
        /\ \A e \in into : channel[e] # <<>>
        /\ ghosts' = [e \in Adjacent |-> IF e \in into THEN Head(channel[e]) ELSE ghosts[e]]
        /\ list' = [list EXCEPT ![r][i] = "complete"]
        /\ UNCHANGED <<region, version, channel>>

SetBounds(r, i) ==
    LET into == To(Exchanged(r, i))
    IN  /\ At(r, i, "set")
        /\ \A e \in into : channel[e] # <<>>
        /\ ghosts' = [e \in Adjacent |-> IF e \in into THEN Head(channel[e]) ELSE ghosts[e]]
        /\ channel' = [e \in Adjacent |-> IF e \in into THEN Tail(channel[e]) ELSE channel[e]]
        /\ list' = [list EXCEPT ![r][i] = "complete"]
        /\ UNCHANGED <<region, version>>

\* Mutant: a region is left before its receives are complete
LeaveEarly(r) ==
    /\ region[r] # StageOver /\ In(r) # "fix"
    /\ \A i \in Lists : list[r][i] # "send"
    /\ region' = [region EXCEPT ![r] = @ + 1]
    /\ list' = [list EXCEPT ![r] = Start(r)]
    /\ UNCHANGED <<version, channel, ghosts>>

\* A rank's next region starts once all lists of this one are complete
FinishExchange(r) ==
    /\ region[r] # StageOver /\ In(r) # "fix"
    /\ \A i \in Lists : list[r][i] = "complete"
    /\ region' = [region EXCEPT ![r] = @ + 1]
    /\ list' = [list EXCEPT ![r] = Start(r)]
    /\ UNCHANGED <<version, channel, ghosts>>

Change(r) == version' = [version EXCEPT ![r] = (@ + 1) % Wrap]

\* Floors and fixes change interior zones after the first exchange
FixRegion(r) ==
    /\ region[r] # StageOver /\ In(r) = "fix"
    /\ region' = [region EXCEPT ![r] = @ + 1]
    /\ Change(r)
    /\ UNCHANGED <<list, channel, ghosts>>

\* Mutant: the region counter is carried over into the next stage's collection
RegionsNotReset(r) ==
    /\ region[r] = StageOver
    /\ region' = [region EXCEPT ![r] = @ + 1]
    /\ Change(r)
    /\ UNCHANGED <<list, channel, ghosts>>

\* The next stage updates the interior before its flux region's exchange
NextStage(r) ==
    /\ region[r] = StageOver
    /\ region' = [region EXCEPT ![r] = 1]
    /\ Change(r)
    /\ UNCHANGED <<list, channel, ghosts>>

Exchange(r) ==
    \/ \E i \in Lists : SendBoundBufs(r, i) \/ ReceiveBoundBufs(r, i) \/ SetBounds(r, i)
    \/ FinishExchange(r)
Rank(r) == Exchange(r) \/ FixRegion(r) \/ NextStage(r)

Next == \E r \in Ranks : Rank(r)

\* Each rank keeps polling its tasks
Spec == Init /\ [][Next]_vars /\ \A r \in Ranks : WF_vars(Rank(r))

-----------------------------------------------------------------------------
TypeOK ==
    /\ region \in [Ranks -> 1 .. StageOver]
    /\ list \in [Ranks -> [Lists -> Phases]]
    /\ version \in [Ranks -> 0 .. Wrap - 1]
    /\ \A e \in Adjacent : channel[e] \in Seq(0 .. Wrap - 1) /\ Len(channel[e]) <= Capacity(e)
    /\ ghosts \in [Adjacent -> 0 .. Wrap - 1]

\* Every ghost zone of rank r holds the version r itself is at
Synced(r) == \A e \in Adjacent : e[2][1] = r => ghosts[e] = version[r]

(***************************************************************************)
(* When the flux region is over, the ghost zones hold the neighbors'       *)
(* updated state, neither the previous one nor, if a neighbor has run      *)
(* ahead, the next.                                                        *)
(***************************************************************************)
GhostsFollowUpdate ==
    \A r \in Ranks : (region[r] # StageOver /\ In(r) = "fix") => Synced(r)

(***************************************************************************)
(* "Ensure that primitive variables in ghost zones are *exactly* identical *)
(* to their physical counterparts" at the end of a stage, after two_sync.  *)
(***************************************************************************)
GhostsFollowFixes == TwoSync => \A r \in Ranks : region[r] = StageOver => Synced(r)

(***************************************************************************)
(* Both of the exchanges of a stage do what is asked of them.              *)
(***************************************************************************)
GhostsFollow == GhostsFollowUpdate /\ GhostsFollowFixes

(***************************************************************************)
(* Every stage completes on every rank, so the exchanges that AddFullSync- *)
(* Region adds "over MeshData objects/partitions at once" all happen.      *)
(***************************************************************************)
StagesComplete == \A r \in Ranks : []<>(region[r] = StageOver)
=============================================================================
