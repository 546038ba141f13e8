---------------------------- MODULE Ranks_proofs ----------------------------
(***************************************************************************)
(* What ranks do together in a stage: the ghost zones they exchange, and   *)
(* the collectives of the implicit solver.  Neither's messages say which   *)
(* exchange or iteration they are of; that they are taken for what they    *)
(* are follows from what both ends do, and each part proves it.            *)
(***************************************************************************)
EXTENDS FullSync, ImplicitSolve, FiniteSetTheorems, TLAPS

-----------------------------------------------------------------------------
(***************************************************************************)
(* Ghost zones follow their neighbors in every exchange, for every number  *)
(* of ranks and partitions, whatever touches what and however many         *)
(* messages MPI buffers.  Nothing in a message says which exchange it is   *)
(* of: the argument is that both ends of a channel count alike.  A stage   *)
(* sends as many messages through a channel as it takes out, so what a     *)
(* message must hold follows from how many were sent before it; how many   *)
(* of these a rank has sent and taken follows from the stage it is in and  *)
(* where its lists are.  Stages are counted outside the state, which only  *)
(* holds versions modulo Wrap.                                             *)
(***************************************************************************)

\* Messages of a stage through one channel
PerStage == IF TwoSync THEN 1 + NumPartitions ELSE 1

\* Lists of a rank's region that have come to one of some phases
Count(r, beyond) == Cardinality({j \in Lists : list[r][j] \in beyond})

\* Exchanges of its partition i that a rank has brought that far in this stage
Past(r, i, beyond) ==
    CASE region[r] = 1 -> IF list[r][i] \in beyond THEN 1 ELSE 0
      [] region[r] > 1 /\ (~TwoSync \/ region[r] < 2 + i) -> 1
      [] TwoSync /\ region[r] = 2 + i -> 1 + Count(r, beyond)
      [] OTHER -> 1 + NumPartitions

Gone == {"receive", "set", "complete"}
Here == {"complete"}

\* Messages ever sent into a channel, and taken from it
Sent(nth, e) == nth[e[1][1]] * PerStage + Past(e[1][1], e[1][2], Gone)
Taken(nth, e) == nth[e[2][1]] * PerStage + Past(e[2][1], e[2][2], Here)

\* What the m-th message holds, the first of a stage and those after the fix
VersionOf(n) == n % Wrap
Content(s, k) == VersionOf(2 * s + (IF k = 0 THEN 0 ELSE 1))
Carries(m, v) ==
    \A s \in Nat, k \in 0 .. PerStage - 1 : m = s * PerStage + k => v = Content(s, k)

Settled(r) == region[r] \in {2, StageOver} => list[r] = Start(r)
VersionInStage(nth, r) ==
    version[r] = VersionOf(2 * nth[r] + (IF region[r] > 2 THEN 1 ELSE 0))
ChannelInStage(nth, e) ==
    /\ Len(channel[e]) = Sent(nth, e) - Taken(nth, e)
    /\ \A k \in 1 .. Len(channel[e]) : Carries(Taken(nth, e) + k - 1, channel[e][k])
    /\ Taken(nth, e) > 0 => Carries(Taken(nth, e) - 1, ghosts[e])

\* The invariant, for a count of every rank's stages
InStage(nth) ==
    /\ TypeOK
    /\ nth \in [Ranks -> Nat]
    /\ \A r \in Ranks : Settled(r) /\ VersionInStage(nth, r)
    /\ \A e \in Adjacent : ChannelInStage(nth, e)
SyncInv == \E nth \in [Ranks -> Nat] : InStage(nth)

-----------------------------------------------------------------------------
(***************************************************************************)
(* Where a stage's regions are in it, and what their lists exchange.       *)
(***************************************************************************)
LEMMA Layout ==
    /\ StageOver = IF TwoSync THEN 3 + NumPartitions ELSE 3
    /\ Regions[1] = <<"flux", 0>> /\ Regions[2] = <<"fix", 0>>
    /\ TwoSync => \A k \in Lists : Regions[2 + k] = <<"sync", k>>
<1> DEFINE head == <<<<"flux", 0>>, <<"fix", 0>>>>
           syncs == IF TwoSync THEN [k \in Lists |-> <<"sync", k>>] ELSE <<>>
<1>1. head \in Seq({"flux", "fix"} \X {0}) /\ Len(head) = 2
  OBVIOUS
<1>2. syncs \in Seq({"sync"} \X Lists) /\ Len(syncs) = IF TwoSync THEN NumPartitions ELSE 0
  BY BoundsAssumption DEF Lists
<1>3. Len(Regions) = 2 + Len(syncs)
  BY <1>1, <1>2 DEF Regions
<1>4. \A k \in 1 .. 2 : Regions[k] = head[k]
  BY <1>1, <1>2 DEF Regions
<1>5. \A k \in 1 .. Len(syncs) : Regions[2 + k] = syncs[k]
  BY <1>1, <1>2 DEF Regions
<1>6. TwoSync => \A k \in Lists : syncs[k] = <<"sync", k>>
  OBVIOUS
<1>7. TwoSync => Lists = 1 .. Len(syncs)
  BY <1>2 DEF Lists
<1>8. StageOver = IF TwoSync THEN 3 + NumPartitions ELSE 3
  BY <1>2, <1>3, BoundsAssumption DEF StageOver
<1>9. Regions[1] = <<"flux", 0>> /\ Regions[2] = <<"fix", 0>>
  BY <1>4
<1>10. ASSUME TwoSync, NEW k \in Lists PROVE Regions[2 + k] = <<"sync", k>>
  BY <1>5, <1>6, <1>7, <1>10
<1> QED BY <1>8, <1>9, <1>10

LEMMA Bounds ==
    /\ NumPartitions \in Nat \ {0} /\ Lists = 1 .. NumPartitions
    /\ StageOver \in Nat /\ StageOver > 2
    /\ PerStage \in Nat \ {0}
    /\ TwoSync => PerStage = 1 + NumPartitions /\ StageOver = 3 + NumPartitions
    /\ ~TwoSync => PerStage = 1 /\ StageOver = 3
    /\ Wrap \in Nat \ {0}
    /\ IsFiniteSet(Lists) /\ Cardinality(Lists) = NumPartitions
<1>1. NumPartitions \in Nat \ {0} /\ Wrap \in Nat \ {0} /\ Lists = 1 .. NumPartitions
  BY BoundsAssumption DEF Lists
<1>2. IsFiniteSet(Lists) /\ Cardinality(Lists) = NumPartitions
  BY <1>1, FS_Interval
<1> QED BY <1>1, <1>2, Layout DEF PerStage

LEMMA WhichRegion ==
    ASSUME TypeOK, NEW r \in Ranks, region[r] # StageOver
    PROVE  /\ In(r) = "flux" <=> region[r] = 1
           /\ In(r) = "fix" <=> region[r] = 2
           /\ region[r] > 2 => TwoSync /\ region[r] - 2 \in Lists
                               /\ Regions[region[r]][2] = region[r] - 2
<1>1. region[r] \in 1 .. StageOver
  BY DEF TypeOK
<1>2. CASE region[r] = 1
  BY <1>2, Layout DEF In
<1>3. CASE region[r] = 2
  BY <1>3, Layout DEF In
<1>4. CASE region[r] > 2
  <2>1. TwoSync /\ region[r] - 2 \in Lists
    BY <1>1, <1>4, Bounds
  <2>2. Regions[2 + (region[r] - 2)] = <<"sync", region[r] - 2>>
    BY <2>1, Layout
  <2>3. Regions[region[r]] = <<"sync", region[r] - 2>>
    BY <2>2, <1>1, Bounds
  <2> QED BY <1>4, <2>1, <2>3 DEF In
<1> QED BY <1>1, <1>2, <1>3, <1>4, Bounds

\* The partition list i exchanges while region[r] is one of exchanges
LEMMA WhichPartition ==
    ASSUME TypeOK, NEW r \in Ranks, NEW i \in Lists, NEW phase \in Phases, At(r, i, phase)
    PROVE  /\ region[r] = 1 \/ (region[r] > 2 /\ region[r] < StageOver /\ TwoSync)
           /\ Exchanged(r, i) = <<r, IF region[r] = 1 THEN i ELSE region[r] - 2>>
           /\ Exchanged(r, i) \in Partitions
<1>1. region[r] \in 1 .. StageOver /\ region[r] # StageOver /\ region[r] # 2
  BY WhichRegion DEF TypeOK, At
<1> QED BY <1>1, WhichRegion, Bounds DEF At, Exchanged, Partitions

-----------------------------------------------------------------------------
(***************************************************************************)
(* Counting.  What a stage has done of its messages is at most all of      *)
(* them, so the number of a message tells its stage and its place there.   *)
(***************************************************************************)
LEMMA CountBound ==
    ASSUME NEW r, NEW beyond
    PROVE  /\ Count(r, beyond) \in 0 .. NumPartitions
           /\ (\A j \in Lists : list[r][j] \in beyond) => Count(r, beyond) = NumPartitions
           /\ (\A j \in Lists : list[r][j] \notin beyond) => Count(r, beyond) = 0
           /\ (\E j \in Lists : list[r][j] \notin beyond) => Count(r, beyond) < NumPartitions
<1> DEFINE there == {j \in Lists : list[r][j] \in beyond}
<1>1. IsFiniteSet(there) /\ Cardinality(there) <= NumPartitions
         /\ (Cardinality(there) = NumPartitions => there = Lists)
  BY Bounds, FS_Subset
<1>2. Cardinality(there) \in Nat
  BY <1>1, FS_CardinalityType
<1>3. there = {} => Cardinality(there) = 0
  BY FS_EmptySet
<1>4. there = Lists => Cardinality(there) = NumPartitions
  BY Bounds
<1>5. (\A j \in Lists : list[r][j] \in beyond) => there = Lists
  OBVIOUS
<1>6. (\A j \in Lists : list[r][j] \notin beyond) => there = {}
  OBVIOUS
<1>7. (\E j \in Lists : list[r][j] \notin beyond) => there # Lists
  OBVIOUS
<1>8. Count(r, beyond) = Cardinality(there)
  BY DEF Count
<1> HIDE DEF there
<1> QED BY <1>1, <1>2, <1>3, <1>4, <1>5, <1>6, <1>7, <1>8, Bounds

LEMMA PastBound ==
    ASSUME TypeOK, NEW r \in Ranks, NEW i \in Lists, NEW beyond
    PROVE  Past(r, i, beyond) \in 0 .. PerStage
<1>1. region[r] \in 1 .. StageOver
  BY DEF TypeOK
<1> QED BY <1>1, CountBound, Bounds DEF Past

LEMMA Product ==
    ASSUME NEW s \in Nat, NEW t \in Nat, NEW m \in Nat \ {0}
    PROVE  s * m \in Nat /\ (s + 1) * m = s * m + m /\ (s < t => s * m + m <= t * m)
<1>1. s * m \in Nat /\ (s + 1) * m = s * m + m
  OBVIOUS
<1>2. ASSUME s < t PROVE s * m + m <= t * m
  <2>1. PICK d \in Nat : t = s + 1 + d
    <3>1. t - s - 1 \in Nat /\ t = s + 1 + (t - s - 1)
      BY <1>2
    <3> QED BY <3>1
  <2>2. t * m = s * m + m + d * m /\ d * m \in Nat
    BY <2>1
  <2> QED BY <1>1, <2>2
<1> QED BY <1>1, <1>2

LEMMA OnePlace ==
    ASSUME NEW m \in Nat \ {0}, NEW s \in Nat, NEW t \in Nat, NEW j \in 0 .. m - 1,
           NEW k \in 0 .. m - 1, s * m + j = t * m + k
    PROVE  s = t /\ j = k
<1>1. s * m \in Nat /\ t * m \in Nat
  BY Product
<1>2. s < t => s * m + m <= t * m
  BY Product
<1>3. t < s => t * m + m <= s * m
  BY Product
<1>4. ~(s < t) /\ ~(t < s)
  BY <1>1, <1>2, <1>3
<1> QED BY <1>1, <1>4

LEMMA VersionRange == \A v \in 0 .. Wrap - 1 : (v + 1) % Wrap \in 0 .. Wrap - 1
BY Bounds

LEMMA NextVersion == \A n \in Nat : (VersionOf(n) + 1) % Wrap = VersionOf(n + 1)
<1> SUFFICES ASSUME NEW n \in Nat, NEW w \in Nat \ {0}
             PROVE  ((n % w) + 1) % w = (n + 1) % w
  BY Bounds DEF VersionOf
<1> DEFINE q == n \div w
           x == n % w
           p == (n + 1) \div w
           y == (n + 1) % w
<1>1. x \in 0 .. w - 1 /\ n = q * w + x /\ q \in Nat
  OBVIOUS
<1>2. y \in 0 .. w - 1 /\ n + 1 = p * w + y /\ p \in Nat
  OBVIOUS
<1>3. q * w \in Nat /\ (q + 1) * w = q * w + w
  BY <1>1, Product
<1> HIDE DEF q, x, p, y
<1>4. CASE x + 1 < w
  <2>1. x + 1 \in 0 .. w - 1 /\ q * w + (x + 1) = p * w + y
    BY <1>1, <1>2, <1>3, <1>4
  <2>2. y = x + 1
    BY <1>1, <1>2, <2>1, OnePlace
  <2> QED BY <1>4, <2>1, <2>2 DEF x, y
<1>5. CASE x + 1 = w
  <2>1. 0 \in 0 .. w - 1 /\ (q + 1) * w + 0 = p * w + y /\ q + 1 \in Nat
    BY <1>1, <1>2, <1>3, <1>5
  <2>2. y = 0
    BY <1>2, <2>1, OnePlace
  <2>3. w % w = 0
    OBVIOUS
  <2> QED BY <1>5, <2>2, <2>3 DEF x, y
<1> QED BY <1>1, <1>4, <1>5

(***************************************************************************)
(* A list that moves on to a phase brings the exchange of its partition    *)
(* that far, and no other.                                                 *)
(***************************************************************************)
Goes(r, i, from, to) ==
    At(r, i, from) /\ list' = [list EXCEPT ![r][i] = to] /\ region' = region

LEMMA ListMoves ==
    ASSUME TypeOK, NEW r \in Ranks, NEW i \in Lists,
           NEW from \in Phases, NEW to \in Phases, Goes(r, i, from, to),
           NEW beyond \in SUBSET Phases, from \in beyond => to \in beyond,
           NEW q \in Ranks, NEW j \in Lists
    PROVE  Past(q, j, beyond)' =
               Past(q, j, beyond)
                   + IF <<q, j>> = Exchanged(r, i) /\ from \notin beyond /\ to \in beyond THEN 1 ELSE 0
<1>1. list[r][i] = from /\ list[r] \in [Lists -> Phases] /\ list'[r] = [list[r] EXCEPT ![i] = to]
      /\ At(r, i, from) /\ region' = region /\ \A p \in Ranks : p # r => list'[p] = list[p]
  BY DEF At, TypeOK, Goes
<1>2. CASE q # r
  <2>1. Exchanged(r, i) # <<q, j>>
    BY <1>1, <1>2, WhichPartition
  <2>2. Past(q, j, beyond) \in Nat
    BY PastBound, Bounds
  <2>3. region'[q] = region[q] /\ list'[q] = list[q]
    BY <1>1, <1>2
  <2>4. Count(q, beyond)' = Count(q, beyond)
    BY <2>3 DEF Count
  <2>5. Past(q, j, beyond)' = Past(q, j, beyond)
    BY <2>3, <2>4 DEF Past
  <2> QED BY <2>1, <2>2, <2>5
<1>3. CASE q = r /\ region[r] = 1
  <2>1. Exchanged(r, i) = <<r, i>>
    BY <1>1, <1>3, WhichPartition
  <2>2. Past(q, j, beyond) = IF list[r][j] \in beyond THEN 1 ELSE 0
    BY <1>1, <1>3, Bounds DEF Past
  <2>3. Past(q, j, beyond)' = IF list'[r][j] \in beyond THEN 1 ELSE 0
    BY <1>1, <1>3, Bounds DEF Past
  <2>4. CASE j = i
    BY <1>1, <1>3, <2>1, <2>2, <2>3, <2>4
  <2>5. CASE j # i
    BY <1>1, <1>3, <2>1, <2>2, <2>3, <2>5
  <2> QED BY <2>4, <2>5
<1>4. CASE q = r /\ region[r] # 1
  <2>1. TwoSync /\ region[r] > 2 /\ Exchanged(r, i) = <<r, region[r] - 2>> /\ region[r] \in Nat
    BY <1>1, <1>4, WhichPartition DEF TypeOK
  <2> DEFINE there == {k \in Lists : list[r][k] \in beyond}
             then == {k \in Lists : list'[r][k] \in beyond}
  <2>2. IsFiniteSet(there)
    BY Bounds, FS_Subset
  <2>3. then = IF to \in beyond THEN there \cup {i} ELSE there
    BY <1>1
  <2>4. i \in there <=> from \in beyond
    BY <1>1
  <2>5. Cardinality(then) = Cardinality(there) + IF from \notin beyond /\ to \in beyond THEN 1 ELSE 0
    <3>1. Cardinality(there) \in Nat
      BY <2>2, FS_CardinalityType
    <3>2. Cardinality(there \cup {i}) = IF i \in there THEN Cardinality(there) ELSE Cardinality(there) + 1
      BY <2>2, FS_AddElement
    <3> HIDE DEF there, then
    <3> QED BY <2>3, <2>4, <3>1, <3>2
  <2>6. Count(r, beyond) = Cardinality(there) /\ Count(r, beyond)' = Cardinality(then)
    BY DEF Count
  <2>7. Count(r, beyond) \in Nat
    BY CountBound, Bounds
  <2> HIDE DEF there, then
  <2>8. <<q, j>> = Exchanged(r, i) <=> region[r] = 2 + j
    BY <2>1, <1>4, Bounds
  <2>9. CASE region[r] = 2 + j
    BY <1>1, <1>4, <2>1, <2>5, <2>6, <2>7, <2>8, <2>9, Bounds DEF Past
  <2>10. CASE region[r] # 2 + j
    <3>1. Past(q, j, beyond)' = Past(q, j, beyond)
      BY <1>1, <1>4, <2>1, <2>10 DEF Past
    <3>2. Past(q, j, beyond) \in Nat
      BY PastBound, Bounds
    <3> QED BY <3>1, <3>2, <2>8, <2>10
  <2> QED BY <2>9, <2>10
<1> QED BY <1>2, <1>3, <1>4

(***************************************************************************)
(* A region that ends, all of its lists complete, or the fix region, has   *)
(* done what the lists of the next one count as done before they start.    *)
(***************************************************************************)
LEMMA RegionEnds ==
    ASSUME TypeOK, NEW r \in Ranks, region[r] # StageOver,
           \/ region[r] # 2 /\ \A i \in Lists : list[r][i] = "complete"
           \/ region[r] = 2 /\ list[r] = Start(r),
           region' = [region EXCEPT ![r] = @ + 1], list' = [list EXCEPT ![r] = Start(r)],
           NEW beyond, "complete" \in beyond, "send" \notin beyond,
           NEW q \in Ranks, NEW j \in Lists
    PROVE  Past(q, j, beyond)' = Past(q, j, beyond)
<1>1. region[r] \in 1 .. StageOver /\ region'[r] = region[r] + 1 /\ list'[r] = Start(r)
  BY DEF TypeOK
<1>2. CASE q # r
  BY <1>2 DEF Past, Count, TypeOK
<1>3. CASE q = r
  <2>1. Count(r, beyond)' = 0
    <3>1. {k \in Lists : list'[r][k] \in beyond} = {}
      BY <1>1 DEF Start
    <3> QED BY <3>1, FS_EmptySet DEF Count
  <2>2. region[r] # 2 => Count(r, beyond) = NumPartitions
    BY CountBound
  <2>3. CASE region[r] = 1
    BY <1>1, <1>3, <2>3, Bounds DEF Past
  <2>4. CASE region[r] = 2
    BY <1>1, <1>3, <2>1, <2>4, Bounds DEF Past
  <2>5. CASE region[r] > 2
    <3>1. TwoSync
      BY <1>1, <2>5, Bounds
    <3>2. CASE region[r] < 1 + j
      BY <1>1, <1>3, <2>5, <3>1, <3>2, Bounds DEF Past
    <3>3. CASE region[r] = 1 + j
      BY <1>1, <1>3, <2>1, <2>5, <3>1, <3>3, Bounds DEF Past
    <3>4. CASE region[r] = 2 + j
      BY <1>1, <1>3, <2>2, <2>5, <3>1, <3>4, Bounds DEF Past
    <3>5. CASE region[r] > 2 + j
      BY <1>1, <1>3, <2>5, <3>1, <3>5, Bounds DEF Past
    <3> QED BY <1>1, <3>2, <3>3, <3>4, <3>5, Bounds
  <2> QED BY <1>1, <2>3, <2>4, <2>5, Bounds
<1> QED BY <1>2, <1>3

LEMMA Ends ==
    ASSUME NEW e \in Adjacent
    PROVE  /\ e = <<e[1], e[2]>> /\ e[1] = <<e[1][1], e[1][2]>> /\ e[2] = <<e[2][1], e[2][2]>>
           /\ e[1][1] \in Ranks /\ e[1][2] \in Lists /\ e[2][1] \in Ranks /\ e[2][2] \in Lists
BY AdjacentAssumption DEF Partitions

LEMMA Numbers ==
    ASSUME NEW nth \in [Ranks -> Nat], TypeOK, NEW e \in Adjacent
    PROVE  Sent(nth, e) \in Nat /\ Taken(nth, e) \in Nat
<1>1. ASSUME NEW q \in Ranks, NEW j \in Lists, NEW beyond
      PROVE  nth[q] * PerStage + Past(q, j, beyond) \in Nat
  <2>1. Past(q, j, beyond) \in 0 .. PerStage
    BY PastBound
  <2>2. nth[q] * PerStage \in Nat
    BY Bounds, Product
  <2> QED BY <2>1, <2>2, Bounds
<1> QED BY <1>1, Ends DEF Sent, Taken

-----------------------------------------------------------------------------
(***************************************************************************)
(* Each step keeps the count.                                              *)
(***************************************************************************)
LEMMA InitCounts == Init => SyncInv
<1> SUFFICES ASSUME Init PROVE SyncInv
  OBVIOUS
<1> DEFINE none == [r \in Ranks |-> 0]
<1>1. TypeOK
  <2>1. MaxInFlight \in Nat /\ \A e \in Adjacent : channel[e] = <<>> /\ Capacity(e) >= 0
    BY BoundsAssumption DEF Init, Capacity
  <2>2. Wrap > 0 /\ 0 \in 0 .. Wrap - 1
    BY Bounds
  <2>3. <<>> \in Seq(0 .. Wrap - 1) /\ Len(<<>>) = 0
    OBVIOUS
  <2> QED BY <2>1, <2>2, <2>3, Bounds DEF Init, TypeOK, Start, Phases
<1>2. \A r \in Ranks, i \in Lists : Past(r, i, Gone) = 0 /\ Past(r, i, Here) = 0
  BY Bounds DEF Init, Start, Past, Gone, Here
<1>3. \A e \in Adjacent : Sent(none, e) = 0 /\ Taken(none, e) = 0
  <2> TAKE e \in Adjacent
  <2>1. none[e[1][1]] = 0 /\ none[e[2][1]] = 0
    BY Ends
  <2>2. 0 * PerStage = 0
    BY Bounds
  <2> QED BY <1>2, <2>1, <2>2, Ends DEF Sent, Taken
<1>4. \A r \in Ranks : Settled(r) /\ VersionInStage(none, r)
  <2>1. VersionOf(0) = 0
    BY Bounds DEF VersionOf
  <2> TAKE r \in Ranks
  <2>2. region[r] = 1 /\ list[r] = Start(r) /\ version[r] = 0 /\ none[r] = 0
    BY DEF Init
  <2>3. Settled(r)
    BY <2>2 DEF Settled
  <2>4. VersionInStage(none, r)
    <3>1. version[r] = VersionOf(2 * none[r] + 0)
      BY <2>1, <2>2
    <3> QED BY <2>2, <3>1 DEF VersionInStage
  <2> QED BY <2>3, <2>4
<1>5. \A e \in Adjacent : ChannelInStage(none, e)
  BY <1>3 DEF Init, ChannelInStage
<1> QED BY <1>1, <1>4, <1>5 DEF SyncInv, InStage

\* What a channel holds does not change while nothing is put in or taken out
LEMMA ChannelKept ==
    ASSUME NEW nth \in [Ranks -> Nat], NEW e \in Adjacent, ChannelInStage(nth, e),
           channel'[e] = channel[e], ghosts'[e] = ghosts[e],
           Sent(nth, e)' = Sent(nth, e), Taken(nth, e)' = Taken(nth, e)
    PROVE  ChannelInStage(nth, e)'
BY DEF ChannelInStage, Carries, Content, VersionOf

LEMMA SendCounts ==
    ASSUME NEW nth \in [Ranks -> Nat], InStage(nth), NEW r \in Ranks, NEW i \in Lists,
           SendBoundBufs(r, i)
    PROVE  InStage(nth)'
<1> DEFINE p == Exchanged(r, i)
<1> USE DEF InStage
<1>1. At(r, i, "send") /\ "send" \in Phases /\ "receive" \in Phases /\ list[r][i] = "send"
  BY DEF SendBoundBufs, At, Phases
<1>2. p = <<r, IF region[r] = 1 THEN i ELSE region[r] - 2>> /\ p \in Partitions
      /\ (region[r] = 1 \/ (region[r] > 2 /\ region[r] < StageOver /\ TwoSync))
  BY <1>1, WhichPartition
<1>3. \A q \in Ranks, j \in Lists :
          /\ Past(q, j, Gone)' = Past(q, j, Gone) + IF <<q, j>> = p THEN 1 ELSE 0
          /\ Past(q, j, Here)' = Past(q, j, Here)
  <2> TAKE q \in Ranks, j \in Lists
  <2>0. /\ Gone \in SUBSET Phases /\ Here \in SUBSET Phases
        /\ "send" \notin Gone /\ "receive" \in Gone /\ "send" \notin Here /\ "receive" \notin Here
        /\ Goes(r, i, "send", "receive")
    BY DEF SendBoundBufs, Goes, Gone, Here, Phases
  <2>1. Past(q, j, Gone)' = Past(q, j, Gone) + IF <<q, j>> = p THEN 1 ELSE 0
    BY <1>1, <2>0, ListMoves
  <2>2. Past(q, j, Here)' = Past(q, j, Here) + 0
    BY <1>1, <2>0, ListMoves
  <2>3. Past(q, j, Here) \in Nat
    BY PastBound, Bounds
  <2> QED BY <2>1, <2>2, <2>3
<1> HIDE DEF p
<1>4. ASSUME NEW e \in Adjacent
      PROVE  /\ Sent(nth, e)' = Sent(nth, e) + IF e[1] = p THEN 1 ELSE 0
             /\ Taken(nth, e)' = Taken(nth, e)
  <2>1. nth[e[1][1]] * PerStage \in Nat /\ Past(e[1][1], e[1][2], Gone) \in Nat
    BY Ends, Bounds, Product, PastBound
  <2> QED BY <1>3, <2>1, Ends DEF Sent, Taken
<1>5. ASSUME NEW e \in Adjacent, e[1] = p PROVE Carries(Sent(nth, e), version[r])
  <2> DEFINE k == Past(r, p[2], Gone)
  <2>1. k \in 0 .. PerStage - 1 /\ (k = 0 <=> region[r] = 1)
    <3>1. CASE region[r] = 1
      BY <1>1, <1>2, <3>1, Bounds DEF Past, Gone
    <3>2. CASE region[r] # 1
      <4>1. k = 1 + Count(r, Gone)
        <5>1. p[2] = region[r] - 2 /\ region[r] \in Nat /\ region[r] > 2 /\ TwoSync
          BY <1>2, <3>2 DEF TypeOK
        <5> QED BY <5>1, Bounds DEF Past
      <4>2. Count(r, Gone) \in 0 .. NumPartitions - 1
        <5>1. \E j \in Lists : list[r][j] \notin Gone
          BY <1>1 DEF Gone
        <5> QED BY <5>1, CountBound, Bounds
      <4> QED BY <1>2, <3>2, <4>1, <4>2, Bounds
    <3> QED BY <3>1, <3>2
  <2>2. Sent(nth, e) = nth[r] * PerStage + k
    BY <1>2, <1>5, Ends DEF Sent
  <2>3. version[r] = Content(nth[r], k)
    BY <1>2, <2>1 DEF VersionInStage, Content
  <2> HIDE DEF k
  <2> SUFFICES ASSUME NEW s \in Nat, NEW l \in 0 .. PerStage - 1,
                      nth[r] * PerStage + k = s * PerStage + l
               PROVE  version[r] = Content(s, l)
    BY <2>2 DEF Carries
  <2>4. nth[r] = s /\ k = l
    <3>1. PICK m \in Nat \ {0} : m = PerStage
      BY Bounds
    <3>2. nth[r] \in Nat /\ k \in 0 .. m - 1 /\ l \in 0 .. m - 1 /\ nth[r] * m + k = s * m + l
      BY <2>1, <3>1
    <3> HIDE DEF k
    <3>3. \A t \in Nat, j \in 0 .. m - 1 : t * m + k = s * m + j => t = s /\ k = j
      BY ONLY <3>1, <3>2, s \in Nat, OnePlace
    <3> QED  BY <3>2, <3>3
  <2> QED BY <2>3, <2>4
<1>6. ASSUME NEW e \in Adjacent PROVE ChannelInStage(nth, e)'
  <2>1. ChannelInStage(nth, e) /\ channel[e] \in Seq(0 .. Wrap - 1)
    BY DEF TypeOK
  <2>2. CASE e[1] # p
    <3>1. channel'[e] = channel[e] /\ ghosts'[e] = ghosts[e]
      BY <2>2 DEF SendBoundBufs, From, p
    <3>2. Sent(nth, e)' = Sent(nth, e) /\ Taken(nth, e)' = Taken(nth, e)
      BY <1>4, <2>2, Numbers
    <3> QED BY <2>1, <3>1, <3>2, ChannelKept
  <2>3. CASE e[1] = p
    <3>1. channel'[e] = Append(channel[e], version[r]) /\ ghosts'[e] = ghosts[e]
      BY <2>3 DEF SendBoundBufs, From, p
    <3>2. Len(channel'[e]) = Len(channel[e]) + 1 /\ channel'[e][Len(channel[e]) + 1] = version[r]
          /\ \A k \in 1 .. Len(channel[e]) : channel'[e][k] = channel[e][k]
      BY <2>1, <3>1
    <3>3. Sent(nth, e)' = Sent(nth, e) + 1 /\ Taken(nth, e)' = Taken(nth, e)
      BY <1>4, <2>3
    <3>4. Sent(nth, e) \in Nat /\ Taken(nth, e) \in Nat /\ Len(channel[e]) \in Nat
          /\ Len(channel[e]) = Sent(nth, e) - Taken(nth, e)
      BY <2>1, Numbers DEF ChannelInStage
    <3>5. Len(channel'[e]) = Sent(nth, e)' - Taken(nth, e)'
      BY <3>2, <3>3, <3>4
    <3>6. ASSUME NEW k \in 1 .. Len(channel'[e])
          PROVE  Carries(Taken(nth, e)' + k - 1, channel'[e][k])
      <4>1. CASE k = Len(channel[e]) + 1
        <5>1. Taken(nth, e)' + k - 1 = Sent(nth, e) /\ channel'[e][k] = version[r]
          BY <3>2, <3>3, <3>4, <4>1
        <5> QED BY <1>5, <2>3, <5>1
      <4>2. CASE k # Len(channel[e]) + 1
        <5>1. k \in 1 .. Len(channel[e])
          BY <3>2, <3>4, <4>2
        <5>2. Carries(Taken(nth, e) + k - 1, channel[e][k])
          BY <2>1, <5>1 DEF ChannelInStage
        <5> QED BY <3>2, <3>3, <5>1, <5>2
      <4> QED BY <4>1, <4>2
    <3>7. Taken(nth, e)' > 0 => Carries(Taken(nth, e)' - 1, ghosts'[e])
      BY <2>1, <3>1, <3>3 DEF ChannelInStage
    <3> QED BY <3>5, <3>6, <3>7 DEF ChannelInStage, Carries, Content, VersionOf
  <2> QED BY <2>2, <2>3
<1>7. TypeOK'
  <2>1. \A e \in Adjacent : channel'[e] \in Seq(0 .. Wrap - 1) /\ Len(channel'[e]) <= Capacity(e)
    <3> TAKE e \in Adjacent
    <3>1. channel[e] \in Seq(0 .. Wrap - 1) /\ Len(channel[e]) <= Capacity(e)
          /\ version[r] \in 0 .. Wrap - 1
      BY DEF TypeOK
    <3>2. Capacity(e) \in Nat
      BY BoundsAssumption DEF Capacity
    <3>3. CASE e \in From(p)
      <4>1. channel'[e] = Append(channel[e], version[r]) /\ Len(channel[e]) < Capacity(e)
        BY <3>3 DEF SendBoundBufs, p
      <4> QED BY <3>1, <3>2, <4>1
    <3>4. CASE e \notin From(p)
      BY <3>1, <3>4 DEF SendBoundBufs, p
    <3> QED BY <3>3, <3>4
  <2>2. list' \in [Ranks -> [Lists -> Phases]]
    BY <1>1 DEF SendBoundBufs, TypeOK
  <2> QED BY <2>1, <2>2 DEF SendBoundBufs, TypeOK, Capacity
<1>8. \A q \in Ranks : (Settled(q) /\ VersionInStage(nth, q))'
  <2> TAKE q \in Ranks
  <2>1. Settled(q) /\ VersionInStage(nth, q)
    OBVIOUS
  <2>2. q = r => region[q] # 2 /\ region[q] # StageOver
    BY <1>2, Bounds
  <2>3. list'[q] = list[q] \/ q = r
    BY DEF SendBoundBufs, TypeOK
  <2>4. UNCHANGED <<region, version>>
    BY DEF SendBoundBufs
  <2> QED BY <2>1, <2>2, <2>3, <2>4 DEF Settled, VersionInStage, Start, VersionOf
<1> QED BY <1>6, <1>7, <1>8

\* A step that leaves versions and regions alone and moves one list on
LEMMA ListsSettled ==
    ASSUME NEW nth \in [Ranks -> Nat], InStage(nth), NEW r \in Ranks, NEW i \in Lists,
           NEW from \in Phases, NEW to \in Phases, At(r, i, from),
           list' = [list EXCEPT ![r][i] = to], UNCHANGED <<region, version>>
    PROVE  /\ \A q \in Ranks : (Settled(q) /\ VersionInStage(nth, q))'
           /\ list' \in [Ranks -> [Lists -> Phases]]
<1>1. region[r] # 2 /\ region[r] # StageOver
  <2>1. TypeOK
    BY DEF InStage
  <2> QED BY <2>1, WhichPartition, Bounds
<1>2. \A q \in Ranks : list'[q] = list[q] \/ q = r
  BY DEF InStage, TypeOK
<1>3. ASSUME NEW q \in Ranks PROVE (Settled(q) /\ VersionInStage(nth, q))'
  <2>1. Settled(q) /\ VersionInStage(nth, q)
    BY DEF InStage
  <2> QED BY <1>1, <1>2, <2>1 DEF Settled, VersionInStage, Start, VersionOf
<1>4. list' \in [Ranks -> [Lists -> Phases]]
  BY DEF InStage, TypeOK
<1> QED BY <1>3, <1>4

LEMMA ReceiveCounts ==
    ASSUME NEW nth \in [Ranks -> Nat], InStage(nth), NEW r \in Ranks, NEW i \in Lists,
           ReceiveBoundBufs(r, i)
    PROVE  InStage(nth)'
<1>1. /\ At(r, i, "receive") /\ "receive" \in Phases /\ "set" \in Phases
      /\ list' = [list EXCEPT ![r][i] = "set"] /\ UNCHANGED <<region, version, channel, ghosts>>
  BY DEF ReceiveBoundBufs, Phases
<1>2. TypeOK /\ \A e \in Adjacent : ChannelInStage(nth, e)
  BY DEF InStage
<1>3. \A q \in Ranks, j \in Lists :
          Past(q, j, Gone)' = Past(q, j, Gone) /\ Past(q, j, Here)' = Past(q, j, Here)
  <2> TAKE q \in Ranks, j \in Lists
  <2>1. /\ Gone \in SUBSET Phases /\ Here \in SUBSET Phases
        /\ "receive" \in Gone /\ "set" \in Gone /\ "receive" \notin Here /\ "set" \notin Here
        /\ Goes(r, i, "receive", "set")
    BY <1>1 DEF Gone, Here, Phases, Goes
  <2>2. Past(q, j, Gone)' = Past(q, j, Gone) + 0
    BY <1>1, <1>2, <2>1, ListMoves
  <2>3. Past(q, j, Here)' = Past(q, j, Here) + 0
    BY <1>1, <1>2, <2>1, ListMoves
  <2>4. Past(q, j, Gone) \in Nat /\ Past(q, j, Here) \in Nat
    BY <1>2, PastBound, Bounds
  <2> QED BY <2>2, <2>3, <2>4
<1>4. ASSUME NEW e \in Adjacent PROVE ChannelInStage(nth, e)'
  <2>1. Sent(nth, e)' = Sent(nth, e) /\ Taken(nth, e)' = Taken(nth, e)
    BY <1>3, Ends DEF Sent, Taken
  <2> QED BY <1>1, <1>2, <2>1, ChannelKept
<1>5. \A q \in Ranks : (Settled(q) /\ VersionInStage(nth, q))'
  BY <1>1, ListsSettled
<1>6. TypeOK'
  <2>1. list' \in [Ranks -> [Lists -> Phases]]
    BY <1>1, ListsSettled
  <2> QED BY <1>1, <1>2, <2>1 DEF TypeOK, Capacity
<1> QED BY <1>4, <1>5, <1>6 DEF InStage

LEMMA TailOf ==
    ASSUME NEW S, NEW s \in Seq(S), s # <<>>
    PROVE  /\ Len(s) \in Nat /\ Len(s) > 0 /\ s[1] \in S
           /\ Tail(s) \in Seq(S) /\ Len(Tail(s)) = Len(s) - 1
           /\ \A k \in 1 .. Len(Tail(s)) : Tail(s)[k] = s[k + 1]
OBVIOUS

LEMMA SetCounts ==
    ASSUME NEW nth \in [Ranks -> Nat], InStage(nth), NEW r \in Ranks, NEW i \in Lists,
           SetBounds(r, i)
    PROVE  InStage(nth)'
<1> DEFINE p == Exchanged(r, i)
<1>1. /\ At(r, i, "set") /\ "set" \in Phases /\ "complete" \in Phases
      /\ list' = [list EXCEPT ![r][i] = "complete"] /\ UNCHANGED <<region, version>>
  BY DEF SetBounds, Phases
<1>2. TypeOK /\ \A e \in Adjacent : ChannelInStage(nth, e)
  BY DEF InStage
<1>3. \A q \in Ranks, j \in Lists :
          /\ Past(q, j, Gone)' = Past(q, j, Gone)
          /\ Past(q, j, Here)' = Past(q, j, Here) + IF <<q, j>> = p THEN 1 ELSE 0
  <2> TAKE q \in Ranks, j \in Lists
  <2>1. /\ Gone \in SUBSET Phases /\ Here \in SUBSET Phases
        /\ "set" \in Gone /\ "complete" \in Gone /\ "set" \notin Here /\ "complete" \in Here
        /\ Goes(r, i, "set", "complete")
    BY <1>1 DEF Gone, Here, Phases, Goes
  <2>2. Past(q, j, Gone)' = Past(q, j, Gone) + 0
    BY <1>1, <1>2, <2>1, ListMoves
  <2>3. Past(q, j, Here)' = Past(q, j, Here) + IF <<q, j>> = p THEN 1 ELSE 0
    BY <1>1, <1>2, <2>1, ListMoves
  <2>4. Past(q, j, Gone) \in Nat
    BY <1>2, PastBound, Bounds
  <2> QED BY <2>2, <2>3, <2>4
<1> HIDE DEF p
<1>4. ASSUME NEW e \in Adjacent
      PROVE  /\ Sent(nth, e)' = Sent(nth, e)
             /\ Taken(nth, e)' = Taken(nth, e) + IF e[2] = p THEN 1 ELSE 0
  <2>1. nth[e[2][1]] * PerStage \in Nat
    BY Ends, Bounds, Product
  <2>2. Past(e[2][1], e[2][2], Here) \in Nat
    BY <1>2, Ends, Bounds, PastBound
  <2>3. Past(e[1][1], e[1][2], Gone)' = Past(e[1][1], e[1][2], Gone)
    BY <1>3, Ends
  <2>4. Past(e[2][1], e[2][2], Here)' = Past(e[2][1], e[2][2], Here) + IF e[2] = p THEN 1 ELSE 0
    BY <1>3, Ends
  <2> QED BY <2>1, <2>2, <2>3, <2>4 DEF Sent, Taken
<1>5. ASSUME NEW e \in Adjacent, e[2] # p
      PROVE  channel'[e] = channel[e] /\ ghosts'[e] = ghosts[e]
  BY <1>5 DEF SetBounds, To, p
<1>6. ASSUME NEW e \in Adjacent, e[2] = p
      PROVE  /\ channel[e] # <<>> /\ channel'[e] = Tail(channel[e])
             /\ ghosts'[e] = channel[e][1]
  BY <1>6 DEF SetBounds, To, p
<1>7. ASSUME NEW e \in Adjacent PROVE ChannelInStage(nth, e)'
  <2>1. ChannelInStage(nth, e) /\ channel[e] \in Seq(0 .. Wrap - 1)
    BY <1>2 DEF TypeOK
  <2>2. CASE e[2] # p
    <3>1. Sent(nth, e)' = Sent(nth, e) /\ Taken(nth, e)' = Taken(nth, e)
      BY <1>2, <1>4, <2>2, Numbers
    <3> QED BY <1>5, <2>1, <2>2, <3>1, ChannelKept
  <2>3. CASE e[2] = p
    <3>1. /\ Len(channel[e]) \in Nat /\ Len(channel[e]) > 0
          /\ Len(channel'[e]) = Len(channel[e]) - 1
          /\ \A k \in 1 .. Len(channel'[e]) : channel'[e][k] = channel[e][k + 1]
      <4>1. channel[e] \in Seq(0 .. Wrap - 1) /\ channel[e] # <<>>
        BY <1>6, <2>1, <2>3
      <4>2. channel'[e] = Tail(channel[e])
        BY <1>6, <2>3
      <4> QED BY <4>1, <4>2, TailOf
    <3>2. Sent(nth, e)' = Sent(nth, e) /\ Taken(nth, e)' = Taken(nth, e) + 1
      BY <1>4, <2>3
    <3>3. Sent(nth, e) \in Nat /\ Taken(nth, e) \in Nat
          /\ Len(channel[e]) = Sent(nth, e) - Taken(nth, e)
      BY <1>2, <2>1, Numbers DEF ChannelInStage
    <3>4. Len(channel'[e]) = Sent(nth, e)' - Taken(nth, e)'
      BY <3>1, <3>2, <3>3
    <3>5. ASSUME NEW k \in 1 .. Len(channel'[e])
          PROVE  Carries(Taken(nth, e)' + k - 1, channel'[e][k])
      <4>0. k \in Nat /\ k >= 1 /\ k <= Len(channel[e]) - 1
        BY <3>1
      <4>1. k + 1 \in 1 .. Len(channel[e])
        BY <3>3, <4>0
      <4>3. Taken(nth, e) + (k + 1) - 1 = Taken(nth, e)' + k - 1
        BY <3>2, <3>3, <4>0
      <4>2. Carries(Taken(nth, e) + (k + 1) - 1, channel[e][k + 1])
        BY <2>1, <4>1 DEF ChannelInStage
      <4> QED BY <3>1, <4>2, <4>3
    <3>6. Carries(Taken(nth, e)' - 1, ghosts'[e])
      <4>1. 1 \in 1 .. Len(channel[e])
        BY <3>1
      <4>3. Taken(nth, e) + 1 - 1 = Taken(nth, e)' - 1
        BY <3>2, <3>3
      <4>2. Carries(Taken(nth, e) + 1 - 1, channel[e][1])
        BY <2>1, <4>1 DEF ChannelInStage
      <4> QED BY <1>6, <2>3, <4>2, <4>3
    <3> QED BY <3>4, <3>5, <3>6 DEF ChannelInStage, Carries, Content, VersionOf
  <2> QED BY <2>2, <2>3
<1>8. \A q \in Ranks : (Settled(q) /\ VersionInStage(nth, q))'
  BY <1>1, ListsSettled
<1>9. TypeOK'
  <2>1. list' \in [Ranks -> [Lists -> Phases]]
    BY <1>1, ListsSettled
  <2>2. ASSUME NEW e \in Adjacent
        PROVE  /\ channel'[e] \in Seq(0 .. Wrap - 1) /\ Len(channel'[e]) <= Capacity(e)
               /\ ghosts'[e] \in 0 .. Wrap - 1
    <3>1. channel[e] \in Seq(0 .. Wrap - 1) /\ Len(channel[e]) <= Capacity(e)
          /\ ghosts[e] \in 0 .. Wrap - 1
      BY <1>2 DEF TypeOK
    <3>2. Capacity(e) \in Nat
      BY BoundsAssumption DEF Capacity
    <3>3. CASE e[2] = p
      <4>1. Tail(channel[e]) \in Seq(0 .. Wrap - 1) /\ Len(Tail(channel[e])) = Len(channel[e]) - 1
            /\ channel[e][1] \in 0 .. Wrap - 1
        BY <1>6, <3>1, <3>3, TailOf
      <4>2. Len(channel[e]) \in Nat
        BY <3>1
      <4>3. Len(Tail(channel[e])) <= Capacity(e)
        BY <3>1, <3>2, <4>1, <4>2
      <4>4. channel'[e] = Tail(channel[e]) /\ ghosts'[e] = channel[e][1]
        BY <1>6, <3>3
      <4> QED BY <4>1, <4>3, <4>4
    <3> QED BY <1>5, <3>1, <3>3
  <2>3. ghosts' \in [Adjacent -> 0 .. Wrap - 1]
    BY <2>2 DEF SetBounds
  <2> QED BY <1>1, <1>2, <2>1, <2>2, <2>3 DEF TypeOK, Capacity
<1> QED BY <1>7, <1>8, <1>9 DEF InStage

\* The end of a region of exchanges, or of the fix region
LEMMA RegionCounts ==
    ASSUME NEW nth \in [Ranks -> Nat], InStage(nth), NEW r \in Ranks,
           FinishExchange(r) \/ FixRegion(r)
    PROVE  InStage(nth)'
<1>1. /\ TypeOK /\ \A e \in Adjacent : ChannelInStage(nth, e)
      /\ \A q \in Ranks : Settled(q) /\ VersionInStage(nth, q)
  BY DEF InStage
<1>2. region[r] \in 1 .. StageOver /\ region[r] # StageOver /\ list \in [Ranks -> [Lists -> Phases]]
  BY <1>1 DEF FinishExchange, FixRegion, TypeOK
<1>3. \/ region[r] # 2 /\ version' = version /\ \A i \in Lists : list[r][i] = "complete"
      \/ region[r] = 2 /\ version' = [version EXCEPT ![r] = (@ + 1) % Wrap] /\ list[r] = Start(r)
  BY <1>1, <1>2, WhichRegion DEF FinishExchange, FixRegion, Change, Settled
<1>4. /\ region' = [region EXCEPT ![r] = @ + 1] /\ UNCHANGED <<channel, ghosts>>
      /\ list' = [list EXCEPT ![r] = Start(r)]
  BY <1>1, <1>2, <1>3, WhichRegion DEF FinishExchange, FixRegion
<1>5. \A q \in Ranks, j \in Lists :
          Past(q, j, Gone)' = Past(q, j, Gone) /\ Past(q, j, Here)' = Past(q, j, Here)
  <2> TAKE q \in Ranks, j \in Lists
  <2>1. "complete" \in Gone /\ "complete" \in Here /\ "send" \notin Gone /\ "send" \notin Here
    BY DEF Gone, Here
  <2>2. Past(q, j, Gone)' = Past(q, j, Gone)
    BY <1>1, <1>2, <1>3, <1>4, <2>1, RegionEnds
  <2>3. Past(q, j, Here)' = Past(q, j, Here)
    BY <1>1, <1>2, <1>3, <1>4, <2>1, RegionEnds
  <2> QED BY <2>2, <2>3
<1>6. ASSUME NEW e \in Adjacent PROVE ChannelInStage(nth, e)'
  <2>1. Sent(nth, e)' = Sent(nth, e) /\ Taken(nth, e)' = Taken(nth, e)
    BY <1>5, Ends DEF Sent, Taken
  <2> QED BY <1>1, <1>4, <2>1, ChannelKept
<1>7. ASSUME NEW q \in Ranks PROVE (Settled(q) /\ VersionInStage(nth, q))'
  <2>1. Settled(q) /\ VersionInStage(nth, q)
    BY <1>1
  <2>2. Settled(q)'
    BY <1>2, <1>4, <2>1 DEF Settled, Start, TypeOK
  <2>3. VersionInStage(nth, q)'
    <3>1. CASE q # r
      <4>1. version'[q] = version[q] /\ region'[q] = region[q]
        BY <1>1, <1>3, <1>4, <3>1 DEF TypeOK
      <4> QED BY <2>1, <4>1 DEF VersionInStage, VersionOf
    <3>2. CASE q = r /\ region[r] # 2
      <4>1. version'[r] = version[r] /\ region'[r] = region[r] + 1
        BY <1>1, <1>3, <1>4, <3>2 DEF TypeOK
      <4> QED BY <1>2, <2>1, <3>2, <4>1, Bounds DEF VersionInStage, VersionOf
    <3>3. CASE q = r /\ region[r] = 2
      <4>1. version'[r] = (version[r] + 1) % Wrap /\ region'[r] = 3
        BY <1>1, <1>3, <1>4, <3>3 DEF TypeOK
      <4>2. version[r] = VersionOf(2 * nth[r] + 0) /\ 2 * nth[r] \in Nat
        BY <2>1, <3>3 DEF VersionInStage
      <4>3. version'[r] = VersionOf(2 * nth[r] + 1)
        BY <4>1, <4>2, NextVersion
      <4> QED BY <3>3, <4>1, <4>3 DEF VersionInStage, VersionOf
    <3> QED BY <3>1, <3>2, <3>3
  <2> QED BY <2>2, <2>3
<1>8. TypeOK'
  <2>1. list' \in [Ranks -> [Lists -> Phases]] /\ region' \in [Ranks -> 1 .. StageOver]
    BY <1>1, <1>2, <1>4, Bounds DEF TypeOK, Start, Phases
  <2>3. version' \in [Ranks -> 0 .. Wrap - 1]
    <3>1. version \in [Ranks -> 0 .. Wrap - 1] /\ (version[r] + 1) % Wrap \in 0 .. Wrap - 1
      <4>1. version \in [Ranks -> 0 .. Wrap - 1]
        BY <1>1 DEF TypeOK
      <4> QED BY <4>1, VersionRange
    <3> QED BY <1>3, <3>1
  <2> QED BY <1>1, <1>4, <2>1, <2>3 DEF TypeOK, Capacity
<1> QED BY <1>6, <1>7, <1>8 DEF InStage

(***************************************************************************)
(* The next stage: its first message is the one after the last of this.    *)
(***************************************************************************)
LEMMA NextStageCounts ==
    ASSUME NEW nth \in [Ranks -> Nat], InStage(nth), NEW r \in Ranks, NextStage(r),
           NEW next, next = [nth EXCEPT ![r] = @ + 1]
    PROVE  InStage(next)'
<1>1. /\ TypeOK /\ \A e \in Adjacent : ChannelInStage(nth, e)
      /\ \A q \in Ranks : Settled(q) /\ VersionInStage(nth, q)
  BY DEF InStage
<1>2. /\ region[r] = StageOver /\ region' = [region EXCEPT ![r] = 1]
      /\ version' = [version EXCEPT ![r] = (@ + 1) % Wrap] /\ UNCHANGED <<list, channel, ghosts>>
      /\ list[r] = Start(r) /\ region[r] > 2
  BY <1>1, Bounds DEF NextStage, Change, Settled
<1>3. next \in [Ranks -> Nat] /\ next[r] = nth[r] + 1 /\ \A q \in Ranks : q # r => next[q] = nth[q]
  OBVIOUS
<1>4. ASSUME NEW q \in Ranks, NEW j \in Lists, NEW beyond \in {Gone, Here}
      PROVE  next[q] * PerStage + Past(q, j, beyond)' = nth[q] * PerStage + Past(q, j, beyond)
  <2>1. CASE q # r
    <3>1. region'[q] = region[q] /\ list'[q] = list[q] /\ next[q] = nth[q]
      BY <1>1, <1>2, <1>3, <2>1 DEF TypeOK
    <3>2. Count(q, beyond)' = Count(q, beyond)
      BY <3>1 DEF Count
    <3>3. Past(q, j, beyond)' = Past(q, j, beyond)
      BY <3>1, <3>2 DEF Past
    <3> QED BY <3>1, <3>3
  <2>2. CASE q = r
    <3>1. region'[r] = 1 /\ list'[r][j] = "send" /\ "send" \notin beyond
      BY <1>1, <1>2 DEF TypeOK, Start, Gone, Here
    <3>2. Past(r, j, beyond)' = 0
      BY <3>1, Bounds DEF Past
    <3>3. Past(r, j, beyond) = PerStage
      BY <1>2, Bounds DEF Past
    <3>4. nth[r] * PerStage \in Nat /\ (nth[r] + 1) * PerStage = nth[r] * PerStage + PerStage
      BY Product, Bounds
    <3> QED BY <1>3, <2>2, <3>2, <3>3, <3>4, Bounds
  <2> QED BY <2>1, <2>2
<1>5. ASSUME NEW e \in Adjacent PROVE ChannelInStage(next, e)'
  <2>1. Sent(next, e)' = Sent(nth, e) /\ Taken(next, e)' = Taken(nth, e)
    BY <1>4, Ends DEF Sent, Taken
  <2>2. ChannelInStage(nth, e) /\ channel'[e] = channel[e] /\ ghosts'[e] = ghosts[e]
    BY <1>1, <1>2
  <2> QED BY <2>1, <2>2 DEF ChannelInStage, Carries, Content, VersionOf
<1>6. ASSUME NEW q \in Ranks PROVE (Settled(q) /\ VersionInStage(next, q))'
  <2>1. Settled(q) /\ VersionInStage(nth, q)
    BY <1>1
  <2>2. CASE q # r
    <3>1. version'[q] = version[q] /\ region'[q] = region[q] /\ list'[q] = list[q]
          /\ next[q] = nth[q]
      BY <1>1, <1>2, <1>3, <2>2 DEF TypeOK
    <3> QED BY <2>1, <3>1 DEF Settled, VersionInStage, Start, VersionOf
  <2>3. CASE q = r
    <3>1. version'[r] = (version[r] + 1) % Wrap /\ region'[r] = 1 /\ list'[r] = Start(r)
      BY <1>1, <1>2 DEF TypeOK
    <3>2. version[r] = VersionOf(2 * nth[r] + 1) /\ 2 * nth[r] + 1 \in Nat
      BY <1>2, <2>1, <2>3 DEF VersionInStage
    <3>3. version'[r] = VersionOf(2 * next[r])
      <4>1. 2 * next[r] = (2 * nth[r] + 1) + 1
        BY <1>3
      <4> QED BY <3>1, <3>2, <4>1, NextVersion
    <3>4. 2 * next[r] = 2 * next[r] + 0
      BY <1>3
    <3>5. VersionInStage(next, r)'
      BY <3>1, <3>3, <3>4 DEF VersionInStage, VersionOf
    <3> QED BY <2>3, <3>1, <3>5 DEF Settled, Start
  <2> QED BY <2>2, <2>3
<1>7. TypeOK'
  <2>1. region' \in [Ranks -> 1 .. StageOver]
    BY <1>1, <1>2, Bounds DEF TypeOK
  <2>3. version \in [Ranks -> 0 .. Wrap - 1]
    BY <1>1 DEF TypeOK
  <2>4. (version[r] + 1) % Wrap \in 0 .. Wrap - 1
    BY <2>3, VersionRange
  <2>5. version' \in [Ranks -> 0 .. Wrap - 1]
    BY <1>2, <2>3, <2>4
  <2> QED BY <1>1, <1>2, <2>1, <2>5 DEF TypeOK, Capacity
<1> QED BY <1>3, <1>5, <1>6, <1>7 DEF InStage

LEMMA StepCounts == SyncInv /\ [Next]_vars => SyncInv'
<1> SUFFICES ASSUME NEW nth \in [Ranks -> Nat], InStage(nth), [Next]_vars
             PROVE  SyncInv'
  BY DEF SyncInv
<1>1. CASE UNCHANGED vars
  <2>1. InStage(nth)'
    <3> USE <1>1 DEF vars
    <3>1. TypeOK' /\ \A r \in Ranks : (Settled(r) /\ VersionInStage(nth, r))'
      BY DEF InStage, TypeOK, Settled, VersionInStage, Start, VersionOf, Capacity
    <3>2. ASSUME NEW e \in Adjacent PROVE ChannelInStage(nth, e)'
      <4>1. Sent(nth, e)' = Sent(nth, e) /\ Taken(nth, e)' = Taken(nth, e)
        BY DEF Sent, Taken, Past, Count
      <4> QED BY <4>1, ChannelKept DEF InStage
    <3> QED BY <3>1, <3>2 DEF InStage
  <2> QED BY <2>1 DEF SyncInv
<1>2. ASSUME NEW r \in Ranks, Rank(r) PROVE SyncInv'
  <2>1. ASSUME NEW i \in Lists, SendBoundBufs(r, i) PROVE InStage(nth)'
    BY <2>1, SendCounts
  <2>2. ASSUME NEW i \in Lists, ReceiveBoundBufs(r, i) PROVE InStage(nth)'
    BY <2>2, ReceiveCounts
  <2>3. ASSUME NEW i \in Lists, SetBounds(r, i) PROVE InStage(nth)'
    BY <2>3, SetCounts
  <2>4. CASE FinishExchange(r) \/ FixRegion(r)
    BY <2>4, RegionCounts DEF SyncInv
  <2>5. CASE NextStage(r)
    <3> DEFINE next == [nth EXCEPT ![r] = @ + 1]
    <3>1. next \in [Ranks -> Nat]
      OBVIOUS
    <3>2. InStage(next)'
      BY <2>5, NextStageCounts
    <3> QED BY <3>1, <3>2 DEF SyncInv
  <2> QED BY <1>2, <2>1, <2>2, <2>3, <2>4, <2>5 DEF Rank, Exchange, SyncInv
<1> QED BY <1>1, <1>2 DEF Next

(***************************************************************************)
(* What the count says where exchanges are over.                           *)
(***************************************************************************)
LEMMA CountedGhosts == SyncInv => GhostsFollow
<1> SUFFICES ASSUME NEW nth \in [Ranks -> Nat], InStage(nth) PROVE GhostsFollow
  BY DEF SyncInv
<1>1. /\ TypeOK /\ \A e \in Adjacent : ChannelInStage(nth, e)
      /\ \A q \in Ranks : VersionInStage(nth, q)
  BY DEF InStage
<1>2. ASSUME NEW r \in Ranks, NEW e \in Adjacent, e[2][1] = r, NEW k \in 0 .. PerStage - 1,
             Past(r, e[2][2], Here) = k + 1, version[r] = Content(nth[r], k)
      PROVE  ghosts[e] = version[r]
  <2>1. nth[r] * PerStage \in Nat
    BY Product, Bounds
  <2>2. Taken(nth, e) - 1 = nth[r] * PerStage + k /\ Taken(nth, e) > 0
    <3>1. Taken(nth, e) = nth[r] * PerStage + (k + 1)
      BY <1>2 DEF Taken
    <3>2. k \in Nat
      BY Bounds
    <3> QED BY <2>1, <3>1, <3>2
  <2>3. Carries(Taken(nth, e) - 1, ghosts[e])
    BY <1>1, <2>2 DEF ChannelInStage
  <2> QED BY <1>2, <2>2, <2>3 DEF Carries
<1>3. GhostsFollowUpdate
  <2> SUFFICES ASSUME NEW r \in Ranks, region[r] # StageOver, In(r) = "fix",
                      NEW e \in Adjacent, e[2][1] = r
               PROVE  ghosts[e] = version[r]
    BY DEF GhostsFollowUpdate, Synced
  <2>1. region[r] = 2
    BY <1>1, WhichRegion
  <2>2. Past(r, e[2][2], Here) = 0 + 1
    BY <2>1, Ends, Bounds DEF Past
  <2>3. version[r] = Content(nth[r], 0)
    BY <1>1, <2>1 DEF VersionInStage, Content
  <2>4. 0 \in 0 .. PerStage - 1
    BY Bounds
  <2> QED BY <1>2, <2>2, <2>3, <2>4
<1>4. GhostsFollowFixes
  <2> SUFFICES ASSUME TwoSync, NEW r \in Ranks, region[r] = StageOver,
                      NEW e \in Adjacent, e[2][1] = r
               PROVE  ghosts[e] = version[r]
    BY DEF GhostsFollowFixes, Synced
  <2>1. Past(r, e[2][2], Here) = NumPartitions + 1
    BY Ends, Bounds DEF Past
  <2>2. version[r] = Content(nth[r], NumPartitions)
    BY <1>1, Bounds DEF VersionInStage, Content
  <2>3. NumPartitions \in 0 .. PerStage - 1
    BY Bounds
  <2> QED BY <1>2, <2>1, <2>2, <2>3
<1> QED BY <1>3, <1>4 DEF GhostsFollow

(***************************************************************************)
(* Ghost zones hold what their neighbors' interiors hold: after the first  *)
(* exchange of a stage the updated state, and after the second, with       *)
(* two_sync, the fixed one.  No rank is ever a stage behind or ahead in    *)
(* what it reads, though nothing but the order of messages tells stages    *)
(* apart.                                                                  *)
(***************************************************************************)
THEOREM GhostsAlwaysFollow == Spec => []GhostsFollow
<1>1. Init => SyncInv
  BY InitCounts
<1>2. SyncInv /\ [Next]_vars => SyncInv'
  BY StepCounts
<1>3. SyncInv => GhostsFollow
  BY CountedGhosts
<1> QED BY <1>1, <1>2, <1>3, PTL DEF Spec
-----------------------------------------------------------------------------
(***************************************************************************)
(* The flags of the implicit solver are honest for every number of ranks,  *)
(* partitions, zones, sub-steps and iterations, whatever the solver meets. *)
(* The collectives play no part in it: a zone's flag and primitives change *)
(* together in the kernel, and the first iteration resets what is left.    *)
(*                                                                         *)
(* The second part is about the collectives.  Nothing in a call says which *)
(* iteration it is of; that ranks stay in step follows from what a call    *)
(* leads to: the result of a round is the same for all, so all go on from  *)
(* it to the same call, which is at most one round later.  The third part  *)
(* concludes that a partition is not given up early.                       *)
(***************************************************************************)

Places == {"idle", "kernel", "check", "count", "decide", "report", "done"}
Statuses == {"converged", "fail", "beyond_tol", "backtrack"}
ZoneStates == [status : Statuses, norm : Norms, prims : {"start", "guess"} \cup Norms]

Types ==
    /\ at \in [Processes -> Places]
    /\ iter \in [Processes -> Nat]
    /\ zones \in [Processes -> [Zones -> ZoneStates]]

\* What makes StatusHonest inductive: iterations count from 1 while a solve is on
Counted ==
    \A r \in Processes :
        /\ at[r] \in {"idle", "report", "done"} => iter[r] = 0
        /\ at[r] \in {"kernel", "check", "count", "decide"} => iter[r] >= 1

SolveInv == Types /\ Counted /\ StatusHonest

(***************************************************************************)
(* A step leaves a zone in one of its states, with an honest flag.         *)
(***************************************************************************)
LEMMA StepHonest ==
    ASSUME NEW zone \in ZoneStates, NEW o \in Outcomes
    PROVE  AfterStep(zone, o) \in ZoneStates /\ Honest(AfterStep(zone, o))
<1> DEFINE failed == Failed(zone)
           nan == [failed EXCEPT !.norm = "nan"]
<1>1. failed \in ZoneStates /\ Honest(failed)
  BY DEF ZoneStates, Failed, Honest, Statuses
<1>2. nan \in ZoneStates /\ Honest(nan)
  BY <1>1 DEF ZoneStates, Failed, Honest, Statuses, Norms
<1>3. o.final \in Norms
  BY DEF Outcomes
<1>4. CASE o.room = "none"
  BY <1>1, <1>4 DEF AfterStep
<1>5. CASE o.room # "none" /\ o.final = "nan"
  BY <1>2, <1>5 DEF AfterStep
<1>6. CASE o.room # "none" /\ o.final = "above"
  BY <1>6 DEF AfterStep, ZoneStates, Honest, Statuses, Norms
<1>7. CASE o.room # "none" /\ o.final = "below"
  BY <1>7 DEF AfterStep, ZoneStates, Honest, Statuses, Norms
<1> QED BY <1>3, <1>4, <1>5, <1>6, <1>7 DEF Norms

(***************************************************************************)
(* A kernel leaves every zone so: in the first iteration because none is   *)
(* spared, and later because a zone it spares was honest before.           *)
(***************************************************************************)
LEMMA SolvedHonest ==
    ASSUME NEW zone \in ZoneStates, NEW o \in Outcomes, NEW first \in BOOLEAN,
           first \/ Honest(zone)
    PROVE  Solved(zone, o, first) \in ZoneStates /\ Honest(Solved(zone, o, first))
BY StepHonest DEF Solved

(* No solve is on at the start.                                              *)
LEMMA InitEstablishes == SolveInit => SolveInv
<1> SUFFICES ASSUME SolveInit PROVE SolveInv
  OBVIOUS
<1>1. NoZones \in [Zones -> ZoneStates]
  BY DEF NoZones, ZoneStates, Statuses, Norms
<1>2. Types
  BY <1>1 DEF SolveInit, Types, Places
<1>3. Counted
  BY DEF SolveInit, Counted
<1>4. StatusHonest
  BY DEF SolveInit, StatusHonest, Stepped
<1> QED BY <1>2, <1>3, <1>4 DEF SolveInv

(* The kernel is what makes flags honest.                                    *)
LEMMA KernelKeeps ==
    ASSUME SolveInv, NEW r \in Processes, Kernel(r)
    PROVE  SolveInv'
<1> DEFINE results ==
        [z \in Zones |-> {Solved(zones[r][z], o, iter[r] = 1) : o \in Outcomes}]
<1>1. PICK solved \in [Zones -> UNION {results[z] : z \in Zones}] :
          /\ \A z \in Zones : solved[z] \in results[z]
          /\ zones' = [zones EXCEPT ![r] = solved]
  BY DEF Kernel
<1>2. iter[r] # 1 => \A z \in Zones : Honest(zones[r][z])
  BY DEF SolveInv, Types, Counted, StatusHonest, Stepped, Kernel
<1>3. \A z \in Zones : solved[z] \in ZoneStates /\ Honest(solved[z])
  <2> SUFFICES ASSUME NEW z \in Zones
               PROVE  solved[z] \in ZoneStates /\ Honest(solved[z])
    OBVIOUS
  <2>1. PICK o \in Outcomes : solved[z] = Solved(zones[r][z], o, iter[r] = 1)
    BY <1>1
  <2>2. zones[r][z] \in ZoneStates
    BY DEF SolveInv, Types
  <2> QED BY <2>1, <2>2, <1>2, SolvedHonest
<1>4. solved \in [Zones -> ZoneStates]
  BY <1>1, <1>3
<1>5. Types'
  BY <1>1, <1>4 DEF SolveInv, Types, Kernel, Places
<1>6. Counted'
  BY DEF SolveInv, Types, Counted, Kernel, Places
<1>7. StatusHonest'
  BY <1>1, <1>3 DEF SolveInv, Types, StatusHonest, Stepped, Kernel
<1> QED BY <1>5, <1>6, <1>7 DEF SolveInv

(* What the last solve left is not looked at.                                *)
LEMMA StartKeeps ==
    ASSUME SolveInv, NEW r \in Processes, StartSolve(r)
    PROVE  SolveInv'
<1>1. PICK left \in [Zones -> [status : {"converged", "fail"}, norm : {"below", "above"}]] :
          zones' = [zones EXCEPT ![r] = [z \in Zones |->
                       [status |-> left[z].status, norm |-> left[z].norm, prims |-> "guess"]]]
  BY DEF StartSolve
<1>2. \A z \in Zones :
          [status |-> left[z].status, norm |-> left[z].norm, prims |-> "guess"] \in ZoneStates
  BY DEF ZoneStates, Statuses, Norms
<1>3. Types'
  BY <1>1, <1>2 DEF SolveInv, Types, StartSolve, Moves, Places
<1>4. Counted'
  BY DEF SolveInv, Types, Counted, StartSolve, Moves
<1>5. StatusHonest'
  BY <1>1 DEF SolveInv, Types, StatusHonest, Stepped, StartSolve, Moves
<1> QED BY <1>3, <1>4, <1>5 DEF SolveInv

(* Between solves there is nothing to be honest about.                       *)
LEMMA EndKeeps ==
    ASSUME SolveInv, NEW r \in Processes, EndSolve(r)
    PROVE  SolveInv'
<1>1. NoZones \in [Zones -> ZoneStates]
  BY DEF NoZones, ZoneStates, Statuses, Norms
<1>2. Types'
  BY <1>1 DEF SolveInv, Types, EndSolve, Moves, Places
<1>3. Counted'
  BY DEF SolveInv, Types, Counted, EndSolve, Moves
<1>4. StatusHonest'
  BY DEF SolveInv, Types, StatusHonest, Stepped, EndSolve, Moves
<1> QED BY <1>2, <1>3, <1>4 DEF SolveInv

(* Flags are honest in every behavior.                                       *)
LEMMA SolveInvAlways == SolveSpec => []SolveInv
<1>1. SolveInit => SolveInv
  BY InitEstablishes
<1>2. SolveInv /\ [SolveNext]_solveVars => SolveInv'
  <2> SUFFICES ASSUME SolveInv, [SolveNext]_solveVars PROVE SolveInv'
    OBVIOUS
  <2>1. CASE UNCHANGED solveVars
    BY <2>1 DEF solveVars, SolveInv, Types, Counted, StatusHonest, Stepped
  <2>2. ASSUME NEW r \in Processes, RankNext(r) PROVE SolveInv'
    <3>1. CASE StartSolve(r)
      BY <3>1, StartKeeps
    <3>2. CASE Kernel(r)
      BY <3>2, KernelKeeps
    <3>3. CASE CheckNorm(r)
      BY <3>3 DEF CheckNorm, Moves, SolveInv, Types, Counted, StatusHonest, Stepped, Places
    <3>4. CASE CheckFails(r)
      BY <3>4 DEF CheckFails, Moves, SolveInv, Types, Counted, StatusHonest, Stepped, Places
    <3>5. CASE NextIteration(r)
      BY <3>5 DEF NextIteration, Moves, SolveInv, Types, Counted, StatusHonest, Stepped, Places
    <3>6. CASE EndSolve(r)
      BY <3>6, EndKeeps
    <3>7. CASE NextSubStep(r)
      BY <3>7 DEF NextSubStep, Moves, SolveInv, Types, Counted, StatusHonest, Stepped, Places
    <3>8. CASE StartFlagReduce(r)
      BY <3>8 DEF StartFlagReduce, Moves, SolveInv, Types, Counted, StatusHonest, Stepped, Places
    <3>9. CASE CheckFlagReduceAndPrintHits(r)
      BY <3>9 DEF CheckFlagReduceAndPrintHits, Moves, SolveInv, Types, Counted, StatusHonest,
                  Stepped, Places
    <3> QED BY <2>2, <3>1, <3>2, <3>3, <3>4, <3>5, <3>6, <3>7, <3>8, <3>9 DEF RankNext
  <2> QED BY <2>1, <2>2 DEF SolveNext
<1> QED BY <1>1, <1>2, PTL DEF SolveSpec

(***************************************************************************)
(* Implicit::Step never leaves a zone whose primitives are not what its    *)
(* flag says: FixSolve can go by the flag.                                 *)
(***************************************************************************)
THEOREM StatusesStayHonest == SolveSpec => []StatusHonest
<1>1. SolveInv => StatusHonest
  BY DEF SolveInv
<1> QED BY <1>1, SolveInvAlways, PTL
-----------------------------------------------------------------------------
(***************************************************************************)
(* Collectives.  A solve is named by its sub-step and how many partitions  *)
(* are left of it, itself included; a call for a norm, by its solve and    *)
(* iteration.                                                              *)
(***************************************************************************)
Call(solve, i) == [solve |-> solve, iter |-> i]
Calls == [solve : [stage : Nat, left : Int], iter : Nat]

\* The first iteration to call for a norm, and the first from one on
FirstCalled == IF verbose \/ MinIter = 0 THEN 1 ELSE MinIter
CalledFrom(i) == IF i < FirstCalled THEN FirstCalled ELSE i

Present(r) == [stage |-> stage[r], left |-> Cardinality(todo[r]) + 1]

SolveAfter(solve) ==
    IF solve.left = 1 THEN [stage |-> solve.stage + 1, left |-> Cardinality(Parts)]
    ELSE [stage |-> solve.stage, left |-> solve.left - 1]

\* What a call leads to, by what it gives, is the same for all ranks
CallAfter(call, norm) ==
    IF call.iter = MaxIter \/ (call.iter >= MinIter /\ norm = "below")
    THEN Call(SolveAfter(call.solve), FirstCalled)
    ELSE Call(call.solve, CalledFrom(call.iter + 1))

\* The call for a norm that a rank is in, or makes next
CallOf(r) ==
    IF at[r] = "check" THEN Call(Present(r), iter[r])
    ELSE IF at[r] = "kernel" THEN Call(Present(r), CalledFrom(iter[r]))
    ELSE IF at[r] \in {"count", "decide"}
    THEN IF Reduces(r) THEN CallAfter(Call(Present(r), iter[r]), maxNorm[r])
         ELSE Call(Present(r), FirstCalled)
    ELSE Call(SolveAfter(Present(r)), FirstCalled)

\* Of the n-th round of a channel: who is in it, who has its result, what each gave
Gifts == [value : {"above", "below", "count"}, stage : Nat, iter : Nat]
Rounds == [given : UNION {[D -> Gifts] : D \in SUBSET Processes}, taken : SUBSET Processes]

Size(c) == Len(rounds[c])
Givers(c, n) == IF n <= Len(rounds[c]) THEN DOMAIN rounds[c][n].given ELSE {}
Takers(c, n) == IF n <= Len(rounds[c]) THEN rounds[c][n].taken ELSE {}
Gift(c, n, r) == rounds[c][n].given[r]

\* The norm the round gives, once complete
NormGiven(c) == IF \E s \in Processes : Gift(c, 1, s).value = "above" THEN "above" ELSE "below"

-----------------------------------------------------------------------------
StepTypes ==
    /\ verbose \in BOOLEAN
    /\ at \in [Processes -> Places]
    /\ stage \in [Processes -> Nat] /\ todo \in [Processes -> SUBSET Parts]
    /\ iter \in [Processes -> 0 .. MaxIter]
    /\ maxNorm \in [Processes -> {"above", "below"}]
    /\ rounds \in [Channels -> Seq(Rounds)]

PlaceInv ==
    \A r \in Processes :
        /\ at[r] \in {"idle", "report", "done"} => iter[r] = 0
        /\ at[r] \in {"kernel", "check", "count", "decide"} => iter[r] >= 1
        /\ at[r] \in {"check", "count"} => Reduces(r)
        /\ at[r] = "count" => verbose
        /\ at[r] \in {"report", "done"} => todo[r] = {} /\ stage[r] = Stages

\* At most two rounds are under way, and the second is of ranks that are through with the first
QueueInv ==
    /\ Size("norms") <= 2
    /\ Size("norms") > 0 => Takers("norms", 1) # Processes
    /\ Takers("norms", 1) # {} => Givers("norms", 1) = Processes
    /\ Size("norms") = 2 => Takers("norms", 1) # {}
    /\ Givers("norms", 2) \subseteq Takers("norms", 1) /\ Takers("norms", 2) = {}

\* The first round is of calls x, and who is through with it goes on to the next: the second's
InOrder(x, next) ==
    /\ \A r \in Processes :
          IF r \in Takers("norms", 1)
          THEN CallOf(r) = next /\ (at[r] = "check" <=> r \in Givers("norms", 2))
          ELSE CallOf(r) = x /\ (at[r] = "check" <=> r \in Givers("norms", 1))
    /\ \A r \in Givers("norms", 1) :
          Gift("norms", 1, r).stage = x.solve.stage /\ Gift("norms", 1, r).iter = x.iter
    /\ \A r \in Givers("norms", 2) :
          Gift("norms", 2, r).stage = next.solve.stage /\ Gift("norms", 2, r).iter = next.iter

OrderInv(x) == InOrder(x, CallAfter(x, NormGiven("norms")))

\* Counts are of the ranks that have the first round's norm, or of the round before it
CountInv(x) ==
    /\ Size("fails") <= 1 /\ (~verbose => Size("fails") = 0)
    /\ Size("fails") = 1 => Givers("fails", 1) # {} /\ Takers("fails", 1) # Processes
    /\ Takers("fails", 1) \subseteq Givers("fails", 1)
    /\ \A r \in Processes : at[r] = "count" <=> r \in Givers("fails", 1) \ Takers("fails", 1)
    /\ verbose /\ Takers("norms", 1) # {} =>
          /\ Givers("fails", 1) = Takers("norms", 1)
          /\ \A r \in Givers("fails", 1) :
                Gift("fails", 1, r).stage = x.solve.stage /\ Gift("fails", 1, r).iter = x.iter
    /\ Takers("norms", 1) = {} => Givers("fails", 1) \in {{}, Processes}
    /\ \A r, s \in Givers("fails", 1) :
          /\ Gift("fails", 1, r).stage = Gift("fails", 1, s).stage
          /\ Gift("fails", 1, r).iter = Gift("fails", 1, s).iter

FlagsInv ==
    /\ Size("flags") <= 1
    /\ Size("flags") = 0 =>
          \/ \A r \in Processes : at[r] \notin {"report", "done"}
          \/ \A r \in Processes : at[r] = "done"
    /\ Size("flags") = 1 =>
          /\ Takers("flags", 1) # Processes
          /\ \A r \in Processes :
                /\ at[r] \in {"report", "done"} <=> r \in Givers("flags", 1)
                /\ at[r] = "done" <=> r \in Takers("flags", 1)
    /\ \A r \in Givers("flags", 1) :
          Gift("flags", 1, r).stage = Stages /\ Gift("flags", 1, r).iter = 0

StepInv ==
    /\ StepTypes /\ PlaceInv /\ FlagsInv
    /\ IF FirstCalled <= MaxIter
       THEN QueueInv /\ \E x \in Calls : OrderInv(x) /\ CountInv(x)
       ELSE Size("norms") = 0 /\ Size("fails") = 0

-----------------------------------------------------------------------------
(***************************************************************************)
(* A call joins the first round its rank is not in, or starts one.         *)
(***************************************************************************)
LEMMA GiveRound ==
    ASSUME rounds \in [Channels -> Seq(Rounds)], NEW c \in Channels, NEW r \in Processes,
           NEW value \in {"above", "below", "count"}, stage[r] \in Nat, iter[r] \in Nat,
           NEW n \in 1 .. Size(c) + 1, r \notin Givers(c, n),
           \A m \in Nat \ {0} : m < n => r \in Givers(c, m),
           rounds'[c] = Give(c, r, value)
    PROVE  /\ rounds'[c] \in Seq(Rounds)
           /\ Size(c)' = IF n <= Size(c) THEN Size(c) ELSE n
           /\ \A m \in Nat \ {0} :
                 /\ Givers(c, m)' = IF m = n THEN Givers(c, m) \cup {r} ELSE Givers(c, m)
                 /\ Takers(c, m)' = Takers(c, m)
                 /\ \A s \in Givers(c, m) : Gift(c, m, s)' = Gift(c, m, s)
           /\ Gift(c, n, r)' = [value |-> value, stage |-> stage[r], iter |-> iter[r]]
<1> DEFINE calls == rounds[c]
           gift == [value |-> value, stage |-> stage[r], iter |-> iter[r]]
           joining == {m \in 1 .. Len(calls) : ~Gave(calls[m], r)}
<1> USE DEF Size
<1>0. calls \in Seq(Rounds) /\ Len(calls) \in Nat /\ gift \in Gifts
  BY DEF Gifts
<1>1. ASSUME NEW round, round.given \in UNION {[D -> Gifts] : D \in SUBSET Processes},
             round.taken \in SUBSET Processes,
             round = [given |-> round.given, taken |-> round.taken]
      PROVE  LET joined == Joined(round, r, value)
             IN  /\ joined \in Rounds
                 /\ DOMAIN joined.given = DOMAIN round.given \cup {r}
                 /\ joined.taken = round.taken
                 /\ joined.given[r] = gift
                 /\ \A s \in DOMAIN round.given : s # r => joined.given[s] = round.given[s]
  <2> DEFINE given == [s \in DOMAIN round.given \cup {r} |->
                          IF s = r THEN gift ELSE round.given[s]]
  <2>1. Joined(round, r, value) = [given |-> given, taken |-> round.taken]
    <3>1. \A f : [round EXCEPT !.given = f] = [given |-> f, taken |-> round.taken]
      BY <1>1
    <3>2. Joined(round, r, value) = [round EXCEPT !.given = given]
      BY DEF Joined
    <3> QED  BY <3>1, <3>2
  <2>2. DOMAIN round.given \in SUBSET Processes
        /\ \A s \in DOMAIN round.given : round.given[s] \in Gifts
    BY <1>1
  <2>3. DOMAIN given \in SUBSET Processes /\ given \in [DOMAIN given -> Gifts]
    BY <1>0, <2>2
  <2>4. DOMAIN given = DOMAIN round.given \cup {r} /\ given[r] = gift
        /\ \A s \in DOMAIN round.given : s # r => given[s] = round.given[s]
    OBVIOUS
  <2> HIDE DEF gift, given
  <2>5. [given |-> given, taken |-> round.taken] \in Rounds
    BY <1>1, <2>3 DEF Rounds
  <2> QED  BY <2>1, <2>4, <2>5
<1>2. CASE n <= Len(calls)
  <2>1. n \in joining /\ \A m \in joining : n <= m
    BY <1>0, <1>2 DEF Gave, Givers
  <2>2. Min(joining) = n
    <3>1. \A m \in joining : m \in Int /\ ((\A k \in joining : m <= k) => m = n)
      BY <1>0, <2>1
    <3> HIDE DEF joining
    <3> QED  BY <2>1, <3>1 DEF Min
  <2> DEFINE joined == Joined(calls[n], r, value)
  <2>3. rounds'[c] = [calls EXCEPT ![n] = joined]
    BY <2>1, <2>2 DEF Give
  <2>4. /\ calls[n] \in Rounds
        /\ joined \in Rounds
        /\ DOMAIN joined.given = DOMAIN calls[n].given \cup {r}
        /\ joined.taken = calls[n].taken /\ joined.given[r] = gift
        /\ \A s \in DOMAIN calls[n].given : s # r => joined.given[s] = calls[n].given[s]
    <3>1. calls[n] \in Rounds
      BY <1>0, <1>2
    <3> QED  BY <3>1, <1>1 DEF Rounds
  <2>5. /\ rounds'[c] \in Seq(Rounds) /\ Len(rounds'[c]) = Len(calls)
        /\ rounds'[c][n] = joined
        /\ \A m \in 1 .. Len(calls) : m # n => rounds'[c][m] = calls[m]
    <3> HIDE DEF joined
    <3> QED  BY <1>0, <1>2, <2>3, <2>4
  <2> HIDE DEF joined, gift
  <2>6. \A m \in Nat \ {0} :
          /\ Givers(c, m)' = IF m = n THEN Givers(c, m) \cup {r} ELSE Givers(c, m)
          /\ Takers(c, m)' = Takers(c, m)
    <3> SUFFICES ASSUME NEW m \in Nat \ {0}
                 PROVE  /\ Givers(c, m)' = IF m = n THEN Givers(c, m) \cup {r} ELSE Givers(c, m)
                        /\ Takers(c, m)' = Takers(c, m)
      OBVIOUS
    <3>1. CASE m = n
      BY <1>0, <1>2, <2>4, <2>5, <3>1 DEF Givers, Takers
    <3>2. CASE m # n
      BY <1>0, <1>2, <2>5, <3>2 DEF Givers, Takers
    <3> QED  BY <3>1, <3>2
  <2>7. \A m \in Nat \ {0} : \A s \in Givers(c, m) : Gift(c, m, s)' = Gift(c, m, s)
    <3> SUFFICES ASSUME NEW m \in Nat \ {0}, NEW s \in Givers(c, m)
                 PROVE  Gift(c, m, s)' = Gift(c, m, s)
      OBVIOUS
    <3>1. m \in 1 .. Len(calls) /\ s \in DOMAIN calls[m].given
      BY <1>0 DEF Givers
    <3>2. CASE m = n
      <4>1. s # r
        BY <3>2
      <4> QED  BY <1>2, <2>4, <2>5, <3>1, <3>2, <4>1 DEF Gift
    <3>3. CASE m # n
      BY <2>5, <3>1, <3>3 DEF Gift
    <3> QED  BY <3>2, <3>3
  <2>8. Gift(c, n, r)' = gift
    BY <2>4, <2>5 DEF Gift
  <2> QED  BY <1>2, <2>5, <2>6, <2>7, <2>8 DEF gift
<1>3. CASE n = Len(calls) + 1
  <2>1. joining = {}
    BY <1>0, <1>3 DEF Gave, Givers
  <2> DEFINE joined == Joined(NoRound, r, value)
  <2>2. rounds'[c] = Append(calls, joined)
    BY <2>1 DEF Give
  <2>3. /\ joined \in Rounds /\ DOMAIN joined.given = {r}
        /\ joined.taken = {} /\ joined.given[r] = gift
    <3>1. NoRound.given \in [{} -> Gifts] /\ DOMAIN NoRound.given = {}
      BY DEF NoRound
    <3>2. NoRound.given \in UNION {[D -> Gifts] : D \in SUBSET Processes}
      BY <3>1
    <3> QED  BY <1>1, <3>1, <3>2 DEF NoRound
  <2> HIDE DEF joined, gift
  <2>4. /\ rounds'[c] \in Seq(Rounds) /\ Len(rounds'[c]) = n /\ rounds'[c][n] = joined
        /\ \A m \in 1 .. Len(calls) : rounds'[c][m] = calls[m]
    BY <1>0, <1>3, <2>2, <2>3
  <2>5. \A m \in Nat \ {0} :
          /\ Givers(c, m)' = IF m = n THEN Givers(c, m) \cup {r} ELSE Givers(c, m)
          /\ Takers(c, m)' = Takers(c, m)
    <3> SUFFICES ASSUME NEW m \in Nat \ {0}
                 PROVE  /\ Givers(c, m)' = IF m = n THEN Givers(c, m) \cup {r} ELSE Givers(c, m)
                        /\ Takers(c, m)' = Takers(c, m)
      OBVIOUS
    <3>1. CASE m = n
      <4>1. ~(n <= Len(calls)) /\ n <= Len(rounds'[c]) /\ rounds'[c][n] = joined
        BY <1>0, <1>3, <2>4
      <4>2. Givers(c, n)' = {r} /\ Takers(c, n)' = {}
        BY <2>3, <4>1 DEF Givers, Takers
      <4>3. Givers(c, n) = {} /\ Takers(c, n) = {}
        BY <4>1 DEF Givers, Takers
      <4> QED  BY <3>1, <4>2, <4>3
    <3>2. CASE m # n
      BY <1>0, <1>3, <2>4, <3>2 DEF Givers, Takers
    <3> QED  BY <3>1, <3>2
  <2>6. \A m \in Nat \ {0} : \A s \in Givers(c, m) : Gift(c, m, s)' = Gift(c, m, s)
    BY <1>0, <2>4 DEF Givers, Gift
  <2>7. Gift(c, n, r)' = gift
    BY <2>3, <2>4 DEF Gift
  <2> QED  BY <1>0, <1>3, <2>4, <2>5, <2>6, <2>7 DEF gift
<1> QED  BY <1>0, <1>2, <1>3

(***************************************************************************)
(* A rank takes the first round's result; the last to do so removes it.    *)
(***************************************************************************)
LEMMA TakeRound ==
    ASSUME rounds \in [Channels -> Seq(Rounds)], NEW c \in Channels, NEW r \in Processes,
           Size(c) > 0, r \notin Takers(c, 1), rounds'[c] = Take(c, r)
    PROVE  /\ rounds'[c] \in Seq(Rounds)
           /\ Takers(c, 1) \cup {r} = Processes =>
                 /\ Size(c)' = Size(c) - 1
                 /\ \A m \in Nat \ {0} :
                       /\ Givers(c, m)' = Givers(c, m + 1)
                       /\ Takers(c, m)' = Takers(c, m + 1)
                       /\ \A s \in Givers(c, m + 1) : Gift(c, m, s)' = Gift(c, m + 1, s)
           /\ Takers(c, 1) \cup {r} # Processes =>
                 /\ Size(c)' = Size(c)
                 /\ Takers(c, 1)' = Takers(c, 1) \cup {r}
                 /\ \A m \in Nat \ {0} :
                       /\ Givers(c, m)' = Givers(c, m)
                       /\ m # 1 => Takers(c, m)' = Takers(c, m)
                       /\ \A s \in Givers(c, m) : Gift(c, m, s)' = Gift(c, m, s)
<1> DEFINE calls == rounds[c]
           first == [calls[1] EXCEPT !.taken = @ \cup {r}]
           marked == [calls EXCEPT ![1] = first]
<1> USE DEF Size
<1>0. calls \in Seq(Rounds) /\ Len(calls) \in Nat \ {0} /\ calls[1] \in Rounds
  <2>1. calls \in Seq(Rounds) /\ Len(calls) \in Nat /\ Len(calls) # 0
    OBVIOUS
  <2> QED  BY <2>1
<1>1. Pending(c, r) = 1
  BY <1>0 DEF Pending, Takers
<1>2. rounds'[c] = IF marked[1].taken = Processes THEN Tail(marked) ELSE marked
  BY <1>1 DEF Take
<1>3. /\ first \in Rounds /\ first.given = calls[1].given
      /\ first.taken = Takers(c, 1) \cup {r}
  BY <1>0 DEF Rounds, Takers
<1> HIDE DEF first
<1>4. /\ marked \in Seq(Rounds) /\ Len(marked) = Len(calls) /\ marked[1] = first
      /\ \A m \in 2 .. Len(calls) : marked[m] = calls[m]
  BY <1>0, <1>3
<1> HIDE DEF marked
<1>5. CASE Takers(c, 1) \cup {r} = Processes
  <2>1. rounds'[c] = Tail(marked)
    BY <1>2, <1>3, <1>4, <1>5
  <2>2. /\ rounds'[c] \in Seq(Rounds) /\ Len(rounds'[c]) = Len(calls) - 1
        /\ \A m \in 1 .. Len(calls) - 1 : rounds'[c][m] = calls[m + 1]
    BY <1>0, <1>4, <2>1
  <2>3. \A m \in Nat \ {0} :
          /\ Givers(c, m)' = Givers(c, m + 1)
          /\ Takers(c, m)' = Takers(c, m + 1)
    BY <1>0, <2>2 DEF Givers, Takers
  <2>4. \A m \in Nat \ {0} : \A s \in Givers(c, m + 1) : Gift(c, m, s)' = Gift(c, m + 1, s)
    BY <1>0, <2>2 DEF Givers, Gift
  <2> QED  BY <1>5, <2>2, <2>3, <2>4
<1>6. CASE Takers(c, 1) \cup {r} # Processes
  <2>1. rounds'[c] = marked
    BY <1>2, <1>3, <1>4, <1>6
  <2>2. \A m \in Nat \ {0} :
          /\ Givers(c, m)' = Givers(c, m)
          /\ m # 1 => Takers(c, m)' = Takers(c, m)
    BY <1>0, <1>3, <1>4, <2>1 DEF Givers, Takers
  <2>3. \A m \in Nat \ {0} : \A s \in Givers(c, m) : Gift(c, m, s)' = Gift(c, m, s)
    <3> SUFFICES ASSUME NEW m \in Nat \ {0}, NEW s \in Givers(c, m)
                 PROVE  Gift(c, m, s)' = Gift(c, m, s)
      OBVIOUS
    <3>1. m \in 1 .. Len(calls)
      BY <1>0 DEF Givers
    <3>2. rounds'[c][m].given = calls[m].given
      BY <1>0, <1>3, <1>4, <2>1, <3>1
    <3> QED  BY <3>2 DEF Gift
  <2>4. Takers(c, 1)' = Takers(c, 1) \cup {r}
    BY <1>0, <1>3, <1>4, <2>1 DEF Takers
  <2> QED  BY <1>4, <1>6, <2>1, <2>2, <2>3, <2>4
<1> QED  BY <1>5, <1>6

(***************************************************************************)
(* What a step leaves alone on a channel, and of a rank.                   *)
(***************************************************************************)
LEMMA OtherChannel ==
    ASSUME NEW c \in Channels, rounds'[c] = rounds[c]
    PROVE  /\ Size(c)' = Size(c)
           /\ \A m \in Nat : Givers(c, m)' = Givers(c, m) /\ Takers(c, m)' = Takers(c, m)
           /\ \A m \in Nat : \A s : Gift(c, m, s)' = Gift(c, m, s)
BY DEF Size, Givers, Takers, Gift

(* What a rank calls for next is up to its own state.                        *)
LEMMA OtherRank ==
    ASSUME NEW s \in Processes, UNCHANGED verbose, at'[s] = at[s], stage'[s] = stage[s],
           todo'[s] = todo[s], iter'[s] = iter[s], maxNorm'[s] = maxNorm[s]
    PROVE  CallOf(s)' = CallOf(s) /\ Reduces(s)' = Reduces(s)
BY DEF CallOf, CallAfter, Call, CalledFrom, FirstCalled, Present, SolveAfter, Reduces

(***************************************************************************)
(* Partitions are finite, and a rank calls from FirstCalled on.            *)
(***************************************************************************)
LEMMA PartsLeft ==
    ASSUME StepTypes, NEW r \in Processes
    PROVE  /\ Cardinality(todo[r]) \in Nat /\ Cardinality(Parts) \in Nat \ {0}
           /\ Cardinality(todo[r]) = 0 <=> todo[r] = {}
           /\ \A p \in todo[r] : Cardinality(todo[r] \ {p}) = Cardinality(todo[r]) - 1
<1>1. IsFiniteSet(Parts) /\ IsFiniteSet(todo[r]) /\ Parts # {}
  BY SolveAssumption, FS_Subset DEF StepTypes
<1>2. Cardinality(Parts) \in Nat /\ Cardinality(todo[r]) \in Nat
  BY <1>1, FS_CardinalityType
<1>3. Cardinality(Parts) # 0 /\ (Cardinality(todo[r]) = 0 <=> todo[r] = {})
  BY <1>1, FS_EmptySet
<1>4. \A p \in todo[r] : Cardinality(todo[r] \ {p}) = Cardinality(todo[r]) - 1
  BY <1>1, FS_RemoveElement
<1> QED  BY <1>2, <1>3, <1>4

(* A rank calls for a norm in every iteration from FirstCalled on.           *)
LEMMA ReducesFrom ==
    ASSUME StepTypes, NEW r \in Processes
    PROVE  /\ FirstCalled \in Nat \ {0}
           /\ iter[r] >= 1 => (Reduces(r) <=> iter[r] >= FirstCalled)
<1>1. iter[r] \in Nat /\ MinIter \in Nat
  BY SolveAssumption DEF StepTypes
<1> QED  BY <1>1 DEF FirstCalled, Reduces

(* What a call leads to is a call.                                           *)
LEMMA CallTypes ==
    ASSUME StepTypes, NEW x \in Calls, NEW norm
    PROVE  CallAfter(x, norm) \in Calls
<1>1. Cardinality(Parts) \in Nat
  BY SolveAssumption, FS_CardinalityType
<1>2. FirstCalled \in Nat
  BY SolveAssumption DEF FirstCalled
<1>3. SolveAfter(x.solve) \in [stage : Nat, left : Int]
  BY <1>1 DEF SolveAfter, Calls
<1>4. CalledFrom(x.iter + 1) \in Nat
  BY <1>2 DEF CalledFrom, Calls
<1> QED  BY <1>2, <1>3, <1>4 DEF CallAfter, Call, Calls

(* Solves of a sub-step count down its partitions.                           *)
LEMMA AfterParts ==
    ASSUME NEW substep, NEW n \in Nat \ {0}
    PROVE  SolveAfter([stage |-> substep, left |-> n + 1]) = [stage |-> substep, left |-> n]
BY DEF SolveAfter

(***************************************************************************)
(* Only taking a norm makes a rank's next call another: whatever else it   *)
(* does, it goes on to the call it was going to make.                      *)
(***************************************************************************)
LEMMA SameCall ==
    ASSUME StepTypes, PlaceInv, FirstCalled <= MaxIter, NEW r \in Processes,
           \/ StartSolve(r) \/ Kernel(r) \/ CheckFails(r) \/ NextIteration(r) \/ EndSolve(r)
           \/ NextSubStep(r) \/ StartFlagReduce(r) \/ CheckFlagReduceAndPrintHits(r)
    PROVE  CallOf(r)' = CallOf(r)
<1>1. FirstCalled' = FirstCalled
  BY DEF FirstCalled, StartSolve, Kernel, CheckFails, NextIteration, EndSolve, NextSubStep,
         StartFlagReduce, CheckFlagReduceAndPrintHits
<1>2. /\ iter[r] \in 0 .. MaxIter /\ MaxIter \in Nat \ {0} /\ MinIter \in Nat
      /\ FirstCalled \in Nat \ {0}
      /\ iter[r] >= 1 => (Reduces(r) <=> iter[r] >= FirstCalled)
  BY SolveAssumption, ReducesFrom DEF StepTypes
<1>3. at[r] \in Places /\ (at[r] \in {"kernel", "check", "count", "decide"} => iter[r] >= 1)
  BY DEF StepTypes, PlaceInv
<1>4. ASSUME StartSolve(r) PROVE CallOf(r)' = CallOf(r)
  <2>1. PICK p \in todo[r] : todo' = [todo EXCEPT ![r] = @ \ {p}]
    BY <1>4 DEF StartSolve
  <2>2. at[r] = "idle" /\ at'[r] = "kernel" /\ iter'[r] = 1 /\ stage' = stage
    BY <1>4 DEF StartSolve, Moves, StepTypes
  <2>3. todo'[r] = todo[r] \ {p}
    BY <2>1 DEF StepTypes
  <2>4. CallOf(r)' = Call(Present(r)', FirstCalled)
    BY <1>1, <1>2, <2>2 DEF CallOf, CalledFrom, Call
  <2>5. CallOf(r) = Call(SolveAfter(Present(r)), FirstCalled)
    BY <2>2 DEF CallOf
  <2>6. Present(r)' = SolveAfter(Present(r))
    BY <2>2, <2>3, PartsLeft DEF Present, SolveAfter
  <2> QED  BY <2>4, <2>5, <2>6
<1>5. ASSUME Kernel(r) PROVE CallOf(r)' = CallOf(r)
  <2>1. /\ at[r] = "kernel" /\ at'[r] = IF Reduces(r) THEN "check" ELSE "decide"
        /\ iter' = iter /\ Present(r)' = Present(r) /\ Reduces(r)' = Reduces(r)
    BY <1>5 DEF Kernel, StepTypes, Present, Reduces
  <2>2. CallOf(r) = Call(Present(r), CalledFrom(iter[r]))
    BY <2>1 DEF CallOf
  <2>3. CASE Reduces(r)
    BY <1>2, <1>3, <2>1, <2>2, <2>3 DEF CallOf, CalledFrom, Call
  <2>4. CASE ~Reduces(r)
    BY <1>1, <1>2, <1>3, <2>1, <2>2, <2>4 DEF CallOf, CalledFrom, Call
  <2> QED  BY <2>3, <2>4
<1>6. ASSUME CheckFails(r) PROVE CallOf(r)' = CallOf(r)
  <2>1. /\ at[r] = "count" /\ at'[r] = "decide" /\ UNCHANGED <<verbose, iter, maxNorm>>
        /\ Present(r)' = Present(r)
    BY <1>6 DEF CheckFails, Moves, StepTypes, Present
  <2> QED  BY <1>1, <2>1 DEF CallOf, Reduces, CallAfter, SolveAfter, CalledFrom, Call
<1>7. ASSUME NextIteration(r) PROVE CallOf(r)' = CallOf(r)
  <2>1. /\ at[r] = "decide" /\ at'[r] = "kernel" /\ iter'[r] = iter[r] + 1
        /\ Present(r)' = Present(r)
        /\ iter[r] # MaxIter /\ ~(iter[r] >= MinIter /\ maxNorm[r] = "below")
    BY <1>7 DEF NextIteration, Moves, StepTypes, Present, Stops, GlobalNorm
  <2>2. CallOf(r)' = Call(Present(r), CalledFrom(iter[r] + 1))
    BY <1>1, <2>1 DEF CallOf, CalledFrom, Call
  <2>3. CASE Reduces(r)
    BY <2>1, <2>2, <2>3 DEF CallOf, CallAfter, Call
  <2>4. CASE ~Reduces(r)
    <3>1. CalledFrom(iter[r] + 1) = FirstCalled
      BY <1>2, <1>3, <2>1, <2>4 DEF CalledFrom
    <3> QED  BY <2>1, <2>2, <2>4, <3>1 DEF CallOf
  <2> QED  BY <2>3, <2>4
<1>8. ASSUME EndSolve(r) PROVE CallOf(r)' = CallOf(r)
  <2>1. /\ at[r] = "decide" /\ at'[r] = "idle" /\ Present(r)' = Present(r)
        /\ iter[r] = MaxIter \/ (iter[r] >= MinIter /\ maxNorm[r] = "below")
    BY <1>8 DEF EndSolve, Moves, StepTypes, Present, Stops, GlobalNorm
  <2>2. CallOf(r)' = Call(SolveAfter(Present(r)), FirstCalled)
    BY <1>1, <2>1 DEF CallOf, Call, SolveAfter
  <2>3. Reduces(r)
    BY <1>2, <1>3, <2>1 DEF Reduces
  <2> QED  BY <2>1, <2>2, <2>3 DEF CallOf, CallAfter, Call
<1>9. ASSUME NextSubStep(r) PROVE CallOf(r)' = CallOf(r)
  <2>1. /\ at[r] = "idle" /\ at'[r] = "idle" /\ todo[r] = {} /\ todo'[r] = Parts
        /\ stage'[r] = stage[r] + 1
    BY <1>9 DEF NextSubStep, Moves, StepTypes
  <2>2. SolveAfter(Present(r))' = SolveAfter(Present(r))
    <3> DEFINE n == Cardinality(Parts)
    <3>1. Cardinality(todo[r]) = 0 /\ n \in Nat /\ n # 0
      BY <2>1, PartsLeft
    <3>2. Present(r) = [stage |-> stage[r], left |-> 1]
          /\ Present(r)' = [stage |-> stage[r] + 1, left |-> n + 1]
      BY <2>1, <3>1 DEF Present
    <3> HIDE DEF n
    <3>4. SolveAfter(Present(r)) = [stage |-> stage[r] + 1, left |-> n]
      BY <3>2 DEF SolveAfter, n
    <3>5. SolveAfter(Present(r))' = [stage |-> stage[r] + 1, left |-> n]
      <4>1. Present(r)'.stage = stage[r] + 1 /\ Present(r)'.left = n + 1
        BY <3>2
      <4> QED  BY <3>1, <3>2, AfterParts DEF SolveAfter
    <3> QED  BY <3>4, <3>5
  <2> QED  BY <1>1, <2>1, <2>2 DEF CallOf, Call
<1>10. ASSUME StartFlagReduce(r) \/ CheckFlagReduceAndPrintHits(r) PROVE CallOf(r)' = CallOf(r)
  <2>1. /\ at[r] \in {"idle", "report"} /\ at'[r] \in {"report", "done"}
        /\ Present(r)' = Present(r)
    BY <1>10 DEF StartFlagReduce, CheckFlagReduceAndPrintHits, Moves, StepTypes, Present
  <2> QED  BY <1>1, <2>1 DEF CallOf, Call, SolveAfter
<1> QED  BY <1>4, <1>5, <1>6, <1>7, <1>8, <1>9, <1>10

(* Taking a norm leads to the next call.                                     *)
LEMMA NormCall ==
    ASSUME StepTypes, PlaceInv, NEW r \in Processes, CheckNorm(r)
    PROVE  CallOf(r)' = CallAfter(CallOf(r), maxNorm'[r])
<1>1. /\ at[r] = "check" /\ at'[r] \in {"count", "decide"} /\ UNCHANGED <<verbose, iter>>
      /\ Present(r)' = Present(r) /\ Reduces(r)
  BY DEF CheckNorm, Moves, StepTypes, Present, PlaceInv
<1>2. Reduces(r)' /\ FirstCalled' = FirstCalled
  BY <1>1 DEF Reduces, FirstCalled
<1> QED  BY <1>1, <1>2 DEF CallOf, CallAfter, Call, SolveAfter, CalledFrom

(***************************************************************************)
(* A rank's step is its own.                                               *)
(***************************************************************************)
LEMMA OwnStep ==
    ASSUME StepTypes, NEW r \in Processes, RankNext(r), NEW s \in Processes, s # r
    PROVE  /\ at'[s] = at[s] /\ stage'[s] = stage[s] /\ todo'[s] = todo[s] /\ iter'[s] = iter[s]
           /\ maxNorm'[s] = maxNorm[s] /\ UNCHANGED verbose
           /\ CallOf(s)' = CallOf(s) /\ Reduces(s)' = Reduces(s)
<1>1. /\ at'[s] = at[s] /\ stage'[s] = stage[s] /\ todo'[s] = todo[s] /\ iter'[s] = iter[s]
      /\ maxNorm'[s] = maxNorm[s] /\ UNCHANGED verbose
  <2>1. CASE StartSolve(r)
    BY <2>1 DEF StartSolve, Moves, StepTypes
  <2>2. CASE Kernel(r)
    BY <2>2 DEF Kernel, StepTypes
  <2>3. CASE CheckNorm(r)
    BY <2>3 DEF CheckNorm, Moves, StepTypes
  <2>4. CASE CheckFails(r)
    BY <2>4 DEF CheckFails, Moves, StepTypes
  <2>5. CASE NextIteration(r)
    BY <2>5 DEF NextIteration, Moves, StepTypes
  <2>6. CASE EndSolve(r)
    BY <2>6 DEF EndSolve, Moves, StepTypes
  <2>7. CASE NextSubStep(r) \/ StartFlagReduce(r) \/ CheckFlagReduceAndPrintHits(r)
    BY <2>7 DEF NextSubStep, StartFlagReduce, CheckFlagReduceAndPrintHits, Moves, StepTypes
  <2> QED  BY <2>1, <2>2, <2>3, <2>4, <2>5, <2>6, <2>7 DEF RankNext
<1> QED  BY <1>1, OtherRank

-----------------------------------------------------------------------------
(***************************************************************************)
(* A step that takes part in neither norms nor counts.                     *)
(***************************************************************************)
NormsAndCounts ==
    IF FirstCalled <= MaxIter
    THEN QueueInv /\ \E x \in Calls : OrderInv(x) /\ CountInv(x)
    ELSE Size("norms") = 0 /\ Size("fails") = 0

LEMMA QuietStep ==
    ASSUME StepInv, NEW r \in Processes, RankNext(r),
           rounds'["norms"] = rounds["norms"], rounds'["fails"] = rounds["fails"],
           {at[r], at'[r]} \cap {"check", "count"} = {}, ~CheckNorm(r)
    PROVE  NormsAndCounts'
<1>1. /\ StepTypes /\ PlaceInv
      /\ FirstCalled' = FirstCalled /\ NormsAndCounts /\ verbose' = verbose
  BY DEF StepInv, NormsAndCounts, RankNext, FirstCalled, StartSolve, Kernel, CheckNorm, CheckFails,
         NextIteration, EndSolve, NextSubStep, StartFlagReduce, CheckFlagReduceAndPrintHits
<1>2. \A c \in {"norms", "fails"} :
         /\ Size(c)' = Size(c)
         /\ \A m \in Nat : Givers(c, m)' = Givers(c, m) /\ Takers(c, m)' = Takers(c, m)
         /\ \A m \in Nat : \A s : Gift(c, m, s)' = Gift(c, m, s)
  <2>1. "norms" \in Channels /\ "fails" \in Channels
    BY DEF Channels
  <2> QED  BY <2>1, OtherChannel
<1>3. CASE ~(FirstCalled <= MaxIter)
  BY <1>1, <1>2, <1>3 DEF NormsAndCounts
<1>4. CASE FirstCalled <= MaxIter
  <2>1. QueueInv'
    BY <1>1, <1>2, <1>4 DEF NormsAndCounts, QueueInv
  <2>2. PICK x \in Calls : OrderInv(x) /\ CountInv(x)
    BY <1>1, <1>4 DEF NormsAndCounts
  <2>3. \A s \in Processes : CallOf(s)' = CallOf(s)
    BY <1>1, <1>4, SameCall, OwnStep DEF RankNext
  <2>4. \A s \in Processes : (at'[s] = "check" <=> at[s] = "check")
                             /\ (at'[s] = "count" <=> at[s] = "count")
    BY <1>1, OwnStep
  <2>5. /\ NormGiven("norms")' = NormGiven("norms")
        /\ \A norm : CallAfter(x, norm)' = CallAfter(x, norm)
    BY <1>1, <1>2 DEF NormGiven, CallAfter, Call, CalledFrom, SolveAfter
  <2>6. OrderInv(x)'
    BY <1>2, <2>2, <2>3, <2>4, <2>5 DEF OrderInv, InOrder
  <2>7. CountInv(x)'
    BY <1>1, <1>2, <2>2, <2>4 DEF CountInv
  <2> QED  BY <1>1, <1>4, <2>1, <2>2, <2>6, <2>7 DEF NormsAndCounts
<1> QED  BY <1>3, <1>4

(***************************************************************************)
(* No flags are counted but at the end.                                    *)
(***************************************************************************)
LEMMA FlagsKept ==
    ASSUME StepInv, NEW r \in Processes, RankNext(r), rounds'["flags"] = rounds["flags"],
           at'[r] \notin {"report", "done"}
    PROVE  FlagsInv'
<1>1. /\ Size("flags")' = Size("flags")
      /\ Givers("flags", 1)' = Givers("flags", 1) /\ Takers("flags", 1)' = Takers("flags", 1)
      /\ \A s \in Givers("flags", 1) : Gift("flags", 1, s)' = Gift("flags", 1, s)
  <2>1. "flags" \in Channels
    BY DEF Channels
  <2> QED  BY <2>1, OtherChannel
<1>2. at[r] \notin {"report", "done"}
  BY DEF RankNext, StartSolve, Kernel, CheckNorm, CheckFails, NextIteration, EndSolve, NextSubStep,
         StartFlagReduce, CheckFlagReduceAndPrintHits, Moves, StepInv, StepTypes
<1>3. \A s \in Processes : /\ at'[s] \in {"report", "done"} <=> at[s] \in {"report", "done"}
                           /\ at'[s] = "done" <=> at[s] = "done"
  BY <1>2, OwnStep DEF StepInv
<1> QED  BY <1>1, <1>3 DEF FlagsInv, StepInv

(* The count of flags has one round, which all ranks join and take once.     *)
LEMMA FlagsStep ==
    ASSUME StepInv, NEW r \in Processes, StartFlagReduce(r) \/ CheckFlagReduceAndPrintHits(r)
    PROVE  FlagsInv' /\ rounds'["flags"] \in Seq(Rounds)
<1>0. /\ StepTypes /\ FlagsInv /\ RankNext(r) /\ rounds \in [Channels -> Seq(Rounds)]
      /\ "flags" \in Channels
      /\ \A s \in Processes : s # r => at'[s] = at[s]
  BY OwnStep DEF StepInv, StepTypes, RankNext, Channels
<1>a. Size("flags") \in {0, 1}
  <2>1. Size("flags") \in Nat
    BY <1>0 DEF Size
  <2>2. Size("flags") <= 1
    BY <1>0 DEF FlagsInv
  <2> QED  BY <2>1, <2>2
<1>b. Size("flags") = 0 => Givers("flags", 1) = {} /\ Takers("flags", 1) = {}
  BY <1>a DEF Givers, Takers, Size
<1>c. \A s \in Processes :
         Size("flags") = 1 =>
            /\ at[s] \in {"report", "done"} <=> s \in Givers("flags", 1)
            /\ at[s] = "done" <=> s \in Takers("flags", 1)
  BY <1>0 DEF FlagsInv
<1>1. CASE StartFlagReduce(r)
  <2>1. /\ at[r] = "idle" /\ at'[r] = "report" /\ stage[r] = Stages /\ iter[r] = 0
        /\ rounds'["flags"] = Give("flags", r, "count")
        /\ stage[r] \in Nat /\ iter[r] \in Nat
    BY <1>0, <1>1 DEF StartFlagReduce, Moves, StepInv, StepTypes, PlaceInv, Channels
  <2>2. r \notin Givers("flags", 1)
    <3>1. CASE Size("flags") = 0
      BY <1>b, <3>1
    <3>2. CASE Size("flags") = 1
      BY <1>c, <2>1, <3>2
    <3> QED  BY <1>a, <3>1, <3>2
  <2>3. /\ rounds'["flags"] \in Seq(Rounds)
        /\ Size("flags")' = 1
        /\ \A m \in Nat \ {0} :
              /\ Givers("flags", m)' = IF m = 1 THEN Givers("flags", m) \cup {r}
                                       ELSE Givers("flags", m)
              /\ Takers("flags", m)' = Takers("flags", m)
              /\ \A s \in Givers("flags", m) : Gift("flags", m, s)' = Gift("flags", m, s)
        /\ Gift("flags", 1, r)' = [value |-> "count", stage |-> Stages, iter |-> 0]
    <3>1. 1 \in 1 .. Size("flags") + 1 /\ \A m \in Nat \ {0} : m < 1 => r \in Givers("flags", m)
      BY <1>a
    <3> QED  BY <1>0, <1>a, <2>1, <2>2, <3>1, GiveRound
  <2>4. /\ Givers("flags", 1)' = Givers("flags", 1) \cup {r}
        /\ Takers("flags", 1)' = Takers("flags", 1)
    BY <2>3
  <2>5. CASE Size("flags") = 0
    <3>1. \A s \in Processes : at[s] \notin {"report", "done"}
      BY <1>0, <2>1, <2>5 DEF FlagsInv
    <3>2. Givers("flags", 1)' = {r} /\ Takers("flags", 1)' = {}
      BY <1>b, <2>4, <2>5
    <3>3. \A s \in Processes :
             /\ at'[s] \in {"report", "done"} <=> s \in Givers("flags", 1)'
             /\ at'[s] = "done" <=> s \in Takers("flags", 1)'
      BY <1>0, <2>1, <3>1, <3>2
    <3>4. \A s \in Givers("flags", 1)' :
             Gift("flags", 1, s)'.stage = Stages /\ Gift("flags", 1, s)'.iter = 0
      BY <2>3, <3>2
    <3>5. Takers("flags", 1)' # Processes
      BY <3>2
    <3> QED  BY <2>3, <3>3, <3>4, <3>5 DEF FlagsInv
  <2>6. CASE Size("flags") = 1
    <3>1. Takers("flags", 1)' # Processes
      BY <1>0, <2>4, <2>6 DEF FlagsInv
    <3>2. \A s \in Processes :
             /\ at'[s] \in {"report", "done"} <=> s \in Givers("flags", 1)'
             /\ at'[s] = "done" <=> s \in Takers("flags", 1)'
      BY <1>0, <1>c, <2>1, <2>4, <2>6
    <3>3. \A s \in Givers("flags", 1)' :
             Gift("flags", 1, s)'.stage = Stages /\ Gift("flags", 1, s)'.iter = 0
      BY <1>0, <2>3, <2>4 DEF FlagsInv
    <3> QED  BY <2>3, <3>1, <3>2, <3>3 DEF FlagsInv
  <2> QED  BY <1>a, <2>3, <2>5, <2>6
<1>2. CASE CheckFlagReduceAndPrintHits(r)
  <2>1. /\ at[r] = "report" /\ at'[r] = "done"
        /\ rounds'["flags"] = Take("flags", r)
    BY <1>0, <1>2 DEF CheckFlagReduceAndPrintHits, Moves, StepTypes
  <2>2. Size("flags") = 1 /\ r \in Givers("flags", 1) /\ r \notin Takers("flags", 1)
    <3>1. Size("flags") # 0
      BY <1>0, <2>1 DEF FlagsInv
    <3>2. Size("flags") = 1
      BY <1>a, <3>1
    <3> QED  BY <1>c, <2>1, <3>2
  <2>3. rounds'["flags"] \in Seq(Rounds)
    BY <1>0, <2>1, <2>2, TakeRound
  <2>4. CASE Takers("flags", 1) \cup {r} = Processes
    <3>1. Size("flags")' = 0
      BY <1>0, <2>1, <2>2, <2>4, TakeRound
    <3>2. \A s \in Processes : at'[s] = "done"
      BY <1>0, <2>1, <2>2, <2>4 DEF FlagsInv
    <3>3. Givers("flags", 1)' = {}
      BY <3>1 DEF Givers, Size
    <3> QED  BY <2>3, <3>1, <3>2, <3>3 DEF FlagsInv
  <2>5. CASE Takers("flags", 1) \cup {r} # Processes
    <3>1. /\ Size("flags")' = 1 /\ Takers("flags", 1)' = Takers("flags", 1) \cup {r}
          /\ Givers("flags", 1)' = Givers("flags", 1)
          /\ \A s \in Givers("flags", 1) : Gift("flags", 1, s)' = Gift("flags", 1, s)
      BY <1>0, <2>1, <2>2, <2>5, TakeRound
    <3> QED  BY <1>0, <2>1, <2>2, <2>3, <2>5, <3>1 DEF FlagsInv
  <2> QED  BY <2>4, <2>5
<1> QED  BY <1>1, <1>2

-----------------------------------------------------------------------------
(***************************************************************************)
(* A call joins the round its rank is expected in.                         *)
(***************************************************************************)
LEMMA RoundsEmpty ==
    ASSUME StepTypes, NEW c \in Channels
    PROVE  /\ Size(c) \in Nat
           /\ \A m \in Nat : m > Size(c) => Givers(c, m) = {} /\ Takers(c, m) = {}
           /\ \A m \in Nat : Givers(c, m) # {} \/ Takers(c, m) # {} => m <= Size(c)
           /\ \A m \in Nat \ {0} :
                 Givers(c, m) \subseteq Processes /\ Takers(c, m) \subseteq Processes
<1>1. rounds[c] \in Seq(Rounds) /\ Len(rounds[c]) \in Nat
  BY DEF StepTypes
<1>2. \A m \in Nat \ {0} : m <= Len(rounds[c]) => rounds[c][m] \in Rounds
  BY <1>1
<1>3. \A m \in Nat \ {0} : Givers(c, m) \subseteq Processes /\ Takers(c, m) \subseteq Processes
  BY <1>2 DEF Givers, Takers, Rounds
<1> QED  BY <1>1, <1>3 DEF Size, Givers, Takers

(* Calling for a norm keeps the order: it joins the round of its call.       *)
LEMMA NormsStep ==
    ASSUME StepInv, NEW r \in Processes, Kernel(r), Reduces(r)
    PROVE  NormsAndCounts' /\ rounds' \in [Channels -> Seq(Rounds)]
<1>0. /\ StepTypes /\ PlaceInv /\ RankNext(r) /\ "norms" \in Channels /\ "fails" \in Channels
      /\ rounds \in [Channels -> Seq(Rounds)]
      /\ verbose' = verbose /\ FirstCalled' = FirstCalled
  BY DEF StepInv, StepTypes, RankNext, Channels, Kernel, FirstCalled
<1>1. at[r] = "kernel" /\ at'[r] = "check" /\ iter[r] >= FirstCalled /\ FirstCalled <= MaxIter
      /\ iter[r] \in Nat /\ stage[r] \in Nat
  <2>1. at[r] = "kernel" /\ at'[r] = "check" /\ iter[r] \in 0 .. MaxIter /\ iter[r] >= 1
        /\ stage[r] \in Nat
    BY <1>0 DEF Kernel, StepTypes, PlaceInv
  <2>2. iter[r] >= FirstCalled /\ FirstCalled \in Nat
    BY <1>0, <2>1, ReducesFrom
  <2> QED  BY <2>1, <2>2, SolveAssumption
<1>2. PICK value \in {"above", "below", "count"} :
         rounds' = [rounds EXCEPT !["norms"] = Give("norms", r, value)]
  <2>1. \A solved : LocalMax(solved) \in {"above", "below", "count"}
    BY DEF LocalMax
  <2> QED  BY <2>1 DEF Kernel
<1>3. /\ rounds'["norms"] = Give("norms", r, value) /\ rounds'["fails"] = rounds["fails"]
      /\ \A c \in Channels : c # "norms" => rounds'[c] = rounds[c]
      /\ DOMAIN rounds' = Channels /\ rounds' = [c \in Channels |-> rounds'[c]]
  BY <1>0, <1>2
<1>4. PICK x \in Calls : QueueInv /\ OrderInv(x) /\ CountInv(x)
  BY <1>1 DEF StepInv
<1>5. PICK next : next = CallAfter(x, NormGiven("norms")) /\ InOrder(x, next)
  BY <1>4 DEF OrderInv
<1>6. /\ \A s \in Processes : CallOf(s)' = CallOf(s)
      /\ \A s \in Processes : s # r => at'[s] = at[s]
  BY <1>0, <1>1, SameCall, OwnStep DEF RankNext
<1>d. \A s \in Processes : at'[s] = "count" <=> at[s] = "count"
  BY <1>1, <1>6
<1>7. CallOf(r).solve.stage = stage[r] /\ CallOf(r).iter = iter[r]
  BY <1>1, ReducesFrom, <1>0 DEF CallOf, CalledFrom, Call, Present
<1>8. Size("norms") \in Nat /\ Size("norms") <= 2
  BY <1>0, <1>4, RoundsEmpty DEF QueueInv
<1>9. /\ Size("fails")' = Size("fails")
      /\ Givers("fails", 1)' = Givers("fails", 1) /\ Takers("fails", 1)' = Takers("fails", 1)
      /\ \A s : Gift("fails", 1, s)' = Gift("fails", 1, s)
  BY <1>0, <1>3, OtherChannel
<1>a. \A norm : CallAfter(x, norm)' = CallAfter(x, norm)
  BY <1>0 DEF CallAfter, Call, CalledFrom, SolveAfter
<1>b. CASE r \notin Takers("norms", 1)
  <2>1. CallOf(r) = x /\ r \notin Givers("norms", 1)
    BY <1>1, <1>5, <1>b DEF InOrder
  <2>2. Takers("norms", 1) = {} /\ Givers("norms", 2) = {} /\ Size("norms") \in {0, 1}
    BY <1>4, <1>8, <2>1 DEF QueueInv
  <2>3. 1 \in 1 .. Size("norms") + 1 /\ \A m \in Nat \ {0} : m < 1 => r \in Givers("norms", m)
    BY <1>8
  <2>4. /\ rounds'["norms"] \in Seq(Rounds) /\ Size("norms")' = 1
        /\ Givers("norms", 1)' = Givers("norms", 1) \cup {r}
        /\ Givers("norms", 2)' = {} /\ Takers("norms", 1)' = {}
        /\ Takers("norms", 2)' = Takers("norms", 2)
        /\ \A s \in Givers("norms", 1) : Gift("norms", 1, s)' = Gift("norms", 1, s)
        /\ Gift("norms", 1, r)' = [value |-> value, stage |-> stage[r], iter |-> iter[r]]
    <3>1. PICK n \in Nat : n = 1
      OBVIOUS
    <3>2. /\ n \in 1 .. Size("norms") + 1 /\ r \notin Givers("norms", n)
          /\ \A m \in Nat \ {0} : m < n => r \in Givers("norms", m)
      BY <2>1, <2>3, <3>1
    <3>3. stage[r] \in Nat /\ iter[r] \in Nat /\ rounds'["norms"] = Give("norms", r, value)
      BY <1>1, <1>3
    <3>4. /\ rounds'["norms"] \in Seq(Rounds)
          /\ Size("norms")' = IF n <= Size("norms") THEN Size("norms") ELSE n
          /\ \A m \in Nat \ {0} :
                /\ Givers("norms", m)' = IF m = n THEN Givers("norms", m) \cup {r}
                                         ELSE Givers("norms", m)
                /\ Takers("norms", m)' = Takers("norms", m)
                /\ \A s \in Givers("norms", m) : Gift("norms", m, s)' = Gift("norms", m, s)
          /\ Gift("norms", n, r)' = [value |-> value, stage |-> stage[r], iter |-> iter[r]]
      <4>1. rounds \in [Channels -> Seq(Rounds)] /\ "norms" \in Channels
        BY <1>0
      <4> QED  BY <3>2, <3>3, <4>1, GiveRound, SMTT(60)
    <3> QED  BY <2>1, <2>2, <3>1, <3>4
  <2>5. QueueInv'
    BY <1>4, <2>4 DEF QueueInv
  <2>6. OrderInv(x)'
    <3>1. \A s \in Processes : CallOf(s)' = x /\ (at'[s] = "check" <=> s \in Givers("norms", 1)')
      BY <1>1, <1>5, <1>6, <2>1, <2>2, <2>4 DEF InOrder
    <3>2. \A s \in Givers("norms", 1)' :
             Gift("norms", 1, s)'.stage = x.solve.stage /\ Gift("norms", 1, s)'.iter = x.iter
      BY <1>5, <1>7, <2>1, <2>4 DEF InOrder
    <3> QED  BY <2>4, <3>1, <3>2 DEF OrderInv, InOrder
  <2>7. CountInv(x)'
    BY <1>0, <1>4, <1>9, <1>d, <2>2, <2>4 DEF CountInv
  <2> QED  BY <1>0, <1>1, <1>3, <2>4, <2>5, <2>6, <2>7 DEF NormsAndCounts
<1>c. CASE r \in Takers("norms", 1)
  <2>1. CallOf(r) = next /\ r \notin Givers("norms", 2)
    BY <1>1, <1>5, <1>c DEF InOrder
  <2>2. Givers("norms", 1) = Processes /\ Size("norms") \in {1, 2}
    <3>1. Size("norms") >= 1
      BY <1>0, <1>c, RoundsEmpty
    <3> QED  BY <1>4, <1>8, <1>c, <3>1 DEF QueueInv
  <2>3. 2 \in 1 .. Size("norms") + 1 /\ \A m \in Nat \ {0} : m < 2 => r \in Givers("norms", m)
    BY <2>2
  <2>4. /\ rounds'["norms"] \in Seq(Rounds) /\ Size("norms")' = 2
        /\ Givers("norms", 1)' = Processes
        /\ Givers("norms", 2)' = Givers("norms", 2) \cup {r}
        /\ Takers("norms", 1)' = Takers("norms", 1)
        /\ Takers("norms", 2)' = Takers("norms", 2)
        /\ \A s \in Processes : Gift("norms", 1, s)' = Gift("norms", 1, s)
        /\ \A s \in Givers("norms", 2) : Gift("norms", 2, s)' = Gift("norms", 2, s)
        /\ Gift("norms", 2, r)' = [value |-> value, stage |-> stage[r], iter |-> iter[r]]
    <3>1. PICK n \in Nat : n = 2
      OBVIOUS
    <3>2. /\ n \in 1 .. Size("norms") + 1 /\ r \notin Givers("norms", n)
          /\ \A m \in Nat \ {0} : m < n => r \in Givers("norms", m)
      BY <2>1, <2>3, <3>1
    <3>3. stage[r] \in Nat /\ iter[r] \in Nat /\ rounds'["norms"] = Give("norms", r, value)
      BY <1>1, <1>3
    <3>4. /\ rounds'["norms"] \in Seq(Rounds)
          /\ Size("norms")' = IF n <= Size("norms") THEN Size("norms") ELSE n
          /\ \A m \in Nat \ {0} :
                /\ Givers("norms", m)' = IF m = n THEN Givers("norms", m) \cup {r}
                                         ELSE Givers("norms", m)
                /\ Takers("norms", m)' = Takers("norms", m)
                /\ \A s \in Givers("norms", m) : Gift("norms", m, s)' = Gift("norms", m, s)
          /\ Gift("norms", n, r)' = [value |-> value, stage |-> stage[r], iter |-> iter[r]]
      <4>1. rounds \in [Channels -> Seq(Rounds)] /\ "norms" \in Channels
        BY <1>0
      <4> QED  BY <3>2, <3>3, <4>1, GiveRound, SMTT(60)
    <3> QED  BY <2>1, <2>2, <3>1, <3>4
  <2>5. QueueInv'
    BY <1>4, <1>8, <1>c, <2>2, <2>4 DEF QueueInv
  <2>6. OrderInv(x)'
    <3>1. NormGiven("norms")' = NormGiven("norms")
      BY <2>4 DEF NormGiven
    <3>2. \A s \in Processes :
             IF s \in Takers("norms", 1)
             THEN CallOf(s)' = next /\ (at'[s] = "check" <=> s \in Givers("norms", 2)')
             ELSE CallOf(s)' = x /\ (at'[s] = "check" <=> s \in Givers("norms", 1))
      BY <1>1, <1>5, <1>6, <1>c, <2>1, <2>4 DEF InOrder
    <3>3. \A s \in Givers("norms", 2)' :
             Gift("norms", 2, s)'.stage = next.solve.stage /\ Gift("norms", 2, s)'.iter = next.iter
      BY <1>5, <1>7, <2>1, <2>4 DEF InOrder
    <3>4. \A s \in Processes :
             Gift("norms", 1, s)'.stage = x.solve.stage /\ Gift("norms", 1, s)'.iter = x.iter
      BY <1>5, <2>2, <2>4 DEF InOrder
    <3>5. InOrder(x, next)'
      BY <2>2, <2>4, <3>2, <3>3, <3>4 DEF InOrder
    <3> QED  BY <1>5, <1>a, <3>1, <3>5 DEF OrderInv
  <2>7. CountInv(x)'
    BY <1>0, <1>4, <1>9, <1>d, <2>2, <2>4 DEF CountInv
  <2> QED  BY <1>0, <1>1, <1>3, <2>4, <2>5, <2>6, <2>7 DEF NormsAndCounts
<1> QED  BY <1>b, <1>c

(***************************************************************************)
(* A rank waits for the first round it has no result of.                   *)
(***************************************************************************)
LEMMA PendingRound ==
    ASSUME StepTypes, NEW c \in Channels, NEW r \in Processes
    PROVE  /\ Size(c) > 0 /\ r \notin Takers(c, 1) => Pending(c, r) = 1
           /\ Size(c) = 2 /\ r \in Takers(c, 1) /\ r \notin Takers(c, 2) => Pending(c, r) = 2
<1> DEFINE waits(n) == /\ r \notin rounds[c][n].taken
                       /\ \A m \in 1 .. n - 1 : r \in rounds[c][m].taken
<1>1. Len(rounds[c]) \in Nat
  BY DEF StepTypes
<1>2. ASSUME Size(c) > 0, r \notin Takers(c, 1) PROVE Pending(c, r) = 1
  <2>1. Len(rounds[c]) > 0 /\ r \notin rounds[c][1].taken
    BY <1>1, <1>2 DEF Size, Takers
  <2>2. \A n \in 1 .. Len(rounds[c]) : waits(n) <=> n = 1
    BY <1>1, <2>1
  <2> QED  BY <1>1, <2>1, <2>2 DEF Pending
<1>3. ASSUME Size(c) = 2, r \in Takers(c, 1), r \notin Takers(c, 2) PROVE Pending(c, r) = 2
  <2>1. Len(rounds[c]) = 2 /\ r \in rounds[c][1].taken /\ r \notin rounds[c][2].taken
    BY <1>3 DEF Size, Takers
  <2>2. \A n \in 1 .. 2 : waits(n) <=> n = 2
    <3>1. waits(2) /\ ~waits(1)
      BY <2>1
    <3> QED  BY <3>1
  <2> QED  BY <2>1, <2>2 DEF Pending
<1> QED  BY <1>2, <1>3

(***************************************************************************)
(* Who takes a norm has called for it in the first round, which is of all  *)
(* ranks by then, and goes on to the next call.                            *)
(***************************************************************************)
LEMMA NormTaken ==
    ASSUME StepTypes, PlaceInv, QueueInv, NEW r \in Processes, CheckNorm(r), NEW x, NEW next,
           next = CallAfter(x, NormGiven("norms")), InOrder(x, next)
    PROVE  /\ Size("norms") \in {1, 2} /\ r \notin Takers("norms", 1)
           /\ Givers("norms", 1) = Processes /\ r \notin Givers("norms", 2)
           /\ CallOf(r) = x /\ x.solve.stage = stage[r] /\ x.iter = iter[r]
           /\ CallOf(r)' = next /\ maxNorm'[r] = NormGiven("norms")
<1>1. "norms" \in Channels /\ at[r] = "check" /\ Complete("norms", r)
  BY DEF Channels, CheckNorm, Moves
<1>2. Size("norms") \in Nat /\ Size("norms") <= 2
  BY <1>1, RoundsEmpty DEF QueueInv
<1>3. r \notin Takers("norms", 1)
  <2> SUFFICES ASSUME r \in Takers("norms", 1) PROVE FALSE
    OBVIOUS
  <2>1. r \in Givers("norms", 2) /\ Takers("norms", 2) = {}
    BY <1>1 DEF InOrder, QueueInv
  <2>2. Size("norms") = 2
    <3>1. 2 <= Size("norms")
      BY <1>1, <2>1, RoundsEmpty
    <3> QED  BY <1>2, <3>1
  <2>3. Pending("norms", r) = 2
    BY <1>1, <2>1, <2>2, PendingRound
  <2>4. Givers("norms", 2) = Processes
    BY <1>1, <2>2, <2>3 DEF Complete, Givers, Size
  <2>5. Takers("norms", 1) = Processes
    BY <1>1, <2>4, RoundsEmpty DEF QueueInv
  <2> QED  BY <2>2, <2>5 DEF QueueInv
<1>4. CallOf(r) = x /\ r \in Givers("norms", 1)
  BY <1>1, <1>3 DEF InOrder
<1>5. Size("norms") \in {1, 2}
  <2>1. 1 <= Size("norms")
    BY <1>1, <1>4, RoundsEmpty
  <2> QED  BY <1>2, <2>1
<1>6. Pending("norms", r) = 1
  BY <1>1, <1>3, <1>5, PendingRound
<1>7. Givers("norms", 1) = Processes
  BY <1>1, <1>5, <1>6 DEF Complete, Givers, Size
<1>8. maxNorm'[r] = NormGiven("norms")
  BY <1>6 DEF CheckNorm, StepTypes, Result, NormGiven, Gift
<1>9. CallOf(r)' = next
  BY <1>4, <1>8, NormCall
<1>10. x.solve.stage = stage[r] /\ x.iter = iter[r]
  BY <1>1, <1>4 DEF CallOf, Call, Present
<1> QED  BY <1>3, <1>4, <1>5, <1>7, <1>8, <1>9, <1>10 DEF QueueInv

(* The last to take a norm begins the round of the next calls.               *)
LEMMA NormsTaken ==
    ASSUME StepTypes, PlaceInv, QueueInv, NEW r \in Processes, CheckNorm(r), NEW x \in Calls,
           OrderInv(x)
    PROVE  /\ QueueInv' /\ rounds'["norms"] \in Seq(Rounds)
           /\ IF Takers("norms", 1) \cup {r} = Processes
              THEN Takers("norms", 1)' = {} /\ \E next \in Calls : OrderInv(next)'
              ELSE Takers("norms", 1)' = Takers("norms", 1) \cup {r} /\ OrderInv(x)'
<1>1. PICK next : next = CallAfter(x, NormGiven("norms")) /\ InOrder(x, next)
  BY DEF OrderInv
<1>2. /\ Size("norms") \in {1, 2} /\ r \notin Takers("norms", 1)
      /\ Givers("norms", 1) = Processes /\ r \notin Givers("norms", 2)
      /\ CallOf(r)' = next
  BY <1>1, NormTaken
<1>3. /\ "norms" \in Channels /\ rounds'["norms"] = Take("norms", r) /\ Size("norms") > 0
      /\ rounds \in [Channels -> Seq(Rounds)] /\ RankNext(r)
      /\ at'[r] # "check" /\ FirstCalled' = FirstCalled
  BY <1>2 DEF Channels, CheckNorm, Moves, StepTypes, RankNext, FirstCalled
<1>4. \A s \in Processes : s # r => at'[s] = at[s] /\ CallOf(s)' = CallOf(s)
  BY <1>3, OwnStep
<1>5. \A call, norm : CallAfter(call, norm)' = CallAfter(call, norm)
  BY <1>3 DEF CallAfter, Call, CalledFrom, SolveAfter
<1>6. next \in Calls
  BY <1>1, CallTypes
<1>7. CASE Takers("norms", 1) \cup {r} = Processes
  <2>1. /\ rounds'["norms"] \in Seq(Rounds) /\ Size("norms")' = Size("norms") - 1
        /\ \A m \in Nat \ {0} :
              /\ Givers("norms", m)' = Givers("norms", m + 1)
              /\ Takers("norms", m)' = Takers("norms", m + 1)
              /\ \A s \in Givers("norms", m + 1) : Gift("norms", m, s)' = Gift("norms", m + 1, s)
    BY <1>2, <1>3, <1>7, TakeRound
  <2>2. /\ Givers("norms", 1)' = Givers("norms", 2) /\ Givers("norms", 2)' = Givers("norms", 3)
        /\ Takers("norms", 1)' = Takers("norms", 2) /\ Takers("norms", 2)' = Takers("norms", 3)
        /\ \A s \in Givers("norms", 2) : Gift("norms", 1, s)' = Gift("norms", 2, s)
    <3>1. 1 \in Nat \ {0} /\ 2 \in Nat \ {0} /\ 1 + 1 = 2 /\ 2 + 1 = 3
      OBVIOUS
    <3> QED  BY <2>1, <3>1
  <2>3. Givers("norms", 3) = {} /\ Takers("norms", 3) = {} /\ Takers("norms", 2) = {}
    BY <1>2, <1>3, RoundsEmpty DEF QueueInv
  <2>4. QueueInv'
    BY <1>2, <2>1, <2>2, <2>3 DEF QueueInv
  <2>5. \A s \in Processes :
           CallOf(s)' = next /\ (at'[s] = "check" <=> s \in Givers("norms", 1)')
    BY <1>1, <1>2, <1>3, <1>4, <1>7, <2>2 DEF InOrder
  <2>6. \A s \in Givers("norms", 1)' :
           Gift("norms", 1, s)'.stage = next.solve.stage /\ Gift("norms", 1, s)'.iter = next.iter
    BY <1>1, <2>2 DEF InOrder
  <2>7. OrderInv(next)'
    BY <2>2, <2>3, <2>5, <2>6 DEF OrderInv, InOrder
  <2> QED  BY <1>6, <1>7, <2>1, <2>2, <2>3, <2>4, <2>7
<1>8. CASE Takers("norms", 1) \cup {r} # Processes
  <2>1. /\ rounds'["norms"] \in Seq(Rounds) /\ Size("norms")' = Size("norms")
        /\ Takers("norms", 1)' = Takers("norms", 1) \cup {r}
        /\ \A m \in Nat \ {0} :
              /\ Givers("norms", m)' = Givers("norms", m)
              /\ m # 1 => Takers("norms", m)' = Takers("norms", m)
              /\ \A s \in Givers("norms", m) : Gift("norms", m, s)' = Gift("norms", m, s)
    BY <1>2, <1>3, <1>8, TakeRound
  <2>2. /\ Givers("norms", 1)' = Processes /\ Givers("norms", 2)' = Givers("norms", 2)
        /\ Takers("norms", 2)' = Takers("norms", 2)
        /\ \A s \in Processes : Gift("norms", 1, s)' = Gift("norms", 1, s)
        /\ \A s \in Givers("norms", 2) : Gift("norms", 2, s)' = Gift("norms", 2, s)
    BY <1>2, <2>1
  <2>3. QueueInv'
    BY <1>2, <1>8, <2>1, <2>2 DEF QueueInv
  <2>4. NormGiven("norms")' = NormGiven("norms")
    BY <2>2 DEF NormGiven
  <2>5. \A s \in Processes :
           IF s \in Takers("norms", 1)'
           THEN CallOf(s)' = next /\ (at'[s] = "check" <=> s \in Givers("norms", 2)')
           ELSE CallOf(s)' = x /\ (at'[s] = "check" <=> s \in Givers("norms", 1)')
    BY <1>1, <1>2, <1>3, <1>4, <2>1, <2>2 DEF InOrder
  <2>6. InOrder(x, next)'
    BY <1>1, <1>2, <2>2, <2>5 DEF InOrder
  <2>7. OrderInv(x)'
    BY <1>1, <1>5, <2>4, <2>6 DEF OrderInv
  <2> QED  BY <1>8, <2>1, <2>3, <2>7
<1> QED  BY <1>7, <1>8

(***************************************************************************)
(* A rank that has a norm counts failed zones with the others that have.   *)
(***************************************************************************)
LEMMA CountsGiven ==
    ASSUME StepTypes, PlaceInv, QueueInv, NEW r \in Processes, CheckNorm(r), NEW x \in Calls,
           OrderInv(x), CountInv(x), verbose
    PROVE  /\ rounds'["fails"] \in Seq(Rounds) /\ Size("fails")' = 1 /\ r \notin Givers("fails", 1)
           /\ Givers("fails", 1)' = Givers("fails", 1) \cup {r}
           /\ Takers("fails", 1)' = Takers("fails", 1) /\ Takers("fails", 1)' # Processes
           /\ \A s \in Givers("fails", 1) : Gift("fails", 1, s)' = Gift("fails", 1, s)
           /\ Gift("fails", 1, r)'.stage = x.solve.stage /\ Gift("fails", 1, r)'.iter = x.iter
<1>1. PICK next : next = CallAfter(x, NormGiven("norms")) /\ InOrder(x, next)
  BY DEF OrderInv
<1>2. /\ r \notin Takers("norms", 1) /\ Givers("norms", 1) = Processes
      /\ x.solve.stage = stage[r] /\ x.iter = iter[r]
  BY <1>1, NormTaken
<1>3. /\ "fails" \in Channels /\ rounds'["fails"] = Give("fails", r, "count")
      /\ rounds \in [Channels -> Seq(Rounds)] /\ at[r] = "check"
      /\ stage[r] \in Nat /\ iter[r] \in Nat
  BY DEF Channels, CheckNorm, Moves, StepTypes
<1>4. /\ Size("fails") \in {0, 1}
      /\ Size("fails") = 0 => Givers("fails", 1) = {} /\ Takers("fails", 1) = {}
  BY <1>3, RoundsEmpty DEF CountInv
<1>5. r \notin Givers("fails", 1)
  <2>1. CASE Takers("norms", 1) # {}
    BY <1>2, <2>1 DEF CountInv
  <2>2. CASE Takers("norms", 1) = {} /\ Givers("fails", 1) = Processes
    <3>1. Size("fails") = 1
      BY <1>4, <2>2
    <3>2. PICK s \in Processes : s \notin Takers("fails", 1)
      BY <1>4, <2>2, <3>1 DEF CountInv
    <3>3. at[s] = "count"
      BY <2>2, <3>2 DEF CountInv
    <3>4. at[s] = "check"
      BY <1>1, <1>2, <2>2 DEF InOrder
    <3> QED  BY <3>3, <3>4
  <2>3. CASE Givers("fails", 1) = {}
    BY <2>3
  <2> QED  BY <2>1, <2>2, <2>3 DEF CountInv
<1>6. Takers("fails", 1) # Processes
  BY <1>4 DEF CountInv
<1>7. 1 \in 1 .. Size("fails") + 1 /\ \A m \in Nat \ {0} : m < 1 => r \in Givers("fails", m)
  BY <1>4
<1>8. /\ rounds'["fails"] \in Seq(Rounds)
      /\ Size("fails")' = IF 1 <= Size("fails") THEN Size("fails") ELSE 1
      /\ \A m \in Nat \ {0} :
            /\ Givers("fails", m)' = IF m = 1 THEN Givers("fails", m) \cup {r}
                                     ELSE Givers("fails", m)
            /\ Takers("fails", m)' = Takers("fails", m)
            /\ \A s \in Givers("fails", m) : Gift("fails", m, s)' = Gift("fails", m, s)
      /\ Gift("fails", 1, r)' = [value |-> "count", stage |-> stage[r], iter |-> iter[r]]
  BY <1>3, <1>5, <1>7, GiveRound
<1> QED  BY <1>2, <1>4, <1>5, <1>6, <1>8

(* Taking a norm, and joining the count of failed zones, keeps the order.    *)
LEMMA NormStep ==
    ASSUME StepInv, NEW r \in Processes, CheckNorm(r)
    PROVE  NormsAndCounts' /\ rounds' \in [Channels -> Seq(Rounds)]
<1>0. /\ StepTypes /\ PlaceInv /\ RankNext(r) /\ "norms" \in Channels /\ "fails" \in Channels
      /\ at[r] = "check" /\ iter[r] >= 1 /\ Reduces(r) /\ iter[r] <= MaxIter /\ iter[r] \in Nat
      /\ rounds \in [Channels -> Seq(Rounds)] /\ FirstCalled' = FirstCalled /\ MaxIter \in Nat
      /\ at'[r] = (IF verbose THEN "count" ELSE "decide") /\ verbose' = verbose
      /\ verbose \in BOOLEAN
  BY SolveAssumption
     DEF StepInv, StepTypes, PlaceInv, RankNext, Channels, CheckNorm, Moves, FirstCalled
<1>1. FirstCalled <= MaxIter
  <2>1. FirstCalled \in Nat /\ iter[r] >= FirstCalled
    BY <1>0, ReducesFrom
  <2> QED  BY <1>0, <2>1
<1>2. PICK x \in Calls : QueueInv /\ OrderInv(x) /\ CountInv(x)
  BY <1>1 DEF StepInv
<1>3. /\ QueueInv' /\ rounds'["norms"] \in Seq(Rounds)
      /\ IF Takers("norms", 1) \cup {r} = Processes
         THEN Takers("norms", 1)' = {} /\ \E next \in Calls : OrderInv(next)'
         ELSE Takers("norms", 1)' = Takers("norms", 1) \cup {r} /\ OrderInv(x)'
  BY <1>0, <1>2, NormsTaken
<1>4. /\ r \notin Takers("norms", 1) /\ Size("norms") > 0
  <2>1. PICK next : next = CallAfter(x, NormGiven("norms")) /\ InOrder(x, next)
    BY <1>2 DEF OrderInv
  <2> QED  BY <1>0, <1>2, <2>1, NormTaken
<1>5. \A s \in Processes : s # r => at'[s] = at[s]
  BY <1>0, OwnStep
<1>8. QueueInv' /\ (FirstCalled <= MaxIter)'
  BY <1>0, <1>1, <1>3
<1>6. CASE verbose
  <2>1. /\ rounds'["fails"] \in Seq(Rounds) /\ Size("fails")' = 1 /\ r \notin Givers("fails", 1)
        /\ Givers("fails", 1)' = Givers("fails", 1) \cup {r}
        /\ Takers("fails", 1)' = Takers("fails", 1) /\ Takers("fails", 1)' # Processes
        /\ \A s \in Givers("fails", 1) : Gift("fails", 1, s)' = Gift("fails", 1, s)
        /\ Gift("fails", 1, r)'.stage = x.solve.stage /\ Gift("fails", 1, r)'.iter = x.iter
    BY <1>0, <1>2, <1>6, CountsGiven
  <2>2. /\ \A s \in Processes :
              at'[s] = "count" <=> s \in Givers("fails", 1)' \ Takers("fails", 1)'
        /\ Takers("fails", 1)' \subseteq Givers("fails", 1)'
    BY <1>0, <1>2, <1>5, <1>6, <2>1 DEF CountInv
  <2>3. Givers("fails", 1)' = Takers("norms", 1) \cup {r}
    <3>1. CASE Takers("norms", 1) # {}
      BY <1>2, <1>6, <2>1, <3>1 DEF CountInv
    <3>2. CASE Takers("norms", 1) = {}
      BY <1>2, <2>1, <3>2 DEF CountInv
    <3> QED  BY <3>1, <3>2
  <2>4. \A s \in Givers("fails", 1)' :
           Gift("fails", 1, s)'.stage = x.solve.stage /\ Gift("fails", 1, s)'.iter = x.iter
    <3>1. CASE Takers("norms", 1) # {}
      BY <1>2, <1>6, <2>1, <3>1 DEF CountInv
    <3>2. CASE Takers("norms", 1) = {}
      BY <2>1, <2>3, <3>2
    <3> QED  BY <3>1, <3>2
  <2>5. rounds' \in [Channels -> Seq(Rounds)]
    <3>1. \E norms, fails : rounds' = [rounds EXCEPT !["norms"] = norms, !["fails"] = fails]
      BY DEF CheckNorm
    <3> QED  BY <1>0, <1>3, <2>1, <3>1
  <2>6. CASE Takers("norms", 1) \cup {r} = Processes
    <3>1. PICK next \in Calls : OrderInv(next)'
      BY <1>3, <2>6
    <3>2. Takers("norms", 1)' = {} /\ Givers("fails", 1)' = Processes
      BY <1>3, <2>3, <2>6
    <3>3. CountInv(next)'
      BY <1>0, <1>6, <2>1, <2>2, <2>4, <3>2 DEF CountInv
    <3> QED  BY <1>8, <2>5, <3>1, <3>3 DEF NormsAndCounts
  <2>7. CASE Takers("norms", 1) \cup {r} # Processes
    <3>1. Takers("norms", 1)' = Givers("fails", 1)' /\ OrderInv(x)' /\ r \in Takers("norms", 1)'
      BY <1>3, <2>3, <2>7
    <3>2. CountInv(x)'
      BY <1>0, <1>6, <2>1, <2>2, <2>4, <3>1 DEF CountInv
    <3> QED  BY <1>8, <2>5, <3>1, <3>2 DEF NormsAndCounts
  <2> QED  BY <2>6, <2>7
<1>7. CASE ~verbose
  <2>1. rounds'["fails"] = rounds["fails"] /\ rounds' \in [Channels -> Seq(Rounds)]
    <3>1. \E norms : rounds' = [rounds EXCEPT !["norms"] = norms, !["fails"] = rounds["fails"]]
      BY <1>7 DEF CheckNorm
    <3> QED  BY <1>0, <1>3, <3>1
  <2>2. /\ Size("fails")' = Size("fails")
        /\ Givers("fails", 1)' = Givers("fails", 1) /\ Takers("fails", 1)' = Takers("fails", 1)
        /\ \A s : Gift("fails", 1, s)' = Gift("fails", 1, s)
    BY <1>0, <2>1, OtherChannel
  <2>3. Size("fails") = 0 /\ Givers("fails", 1) = {} /\ Takers("fails", 1) = {}
    BY <1>0, <1>2, <1>7, RoundsEmpty DEF CountInv
  <2>4. \A s \in Processes : at'[s] # "count"
    BY <1>0, <1>2, <1>5, <1>7, <2>3 DEF CountInv
  <2>5. \A call : CountInv(call)'
    BY <1>0, <1>7, <2>2, <2>3, <2>4 DEF CountInv
  <2>6. \E call \in Calls : OrderInv(call)'
    BY <1>2, <1>3
  <2> QED  BY <1>0, <1>1, <1>3, <2>1, <2>5, <2>6 DEF NormsAndCounts
<1> QED  BY <1>6, <1>7

(***************************************************************************)
(* Who takes a count has given it, and the round is over when all have.    *)
(***************************************************************************)
LEMMA CountStep ==
    ASSUME StepInv, NEW r \in Processes, CheckFails(r)
    PROVE  NormsAndCounts' /\ rounds' \in [Channels -> Seq(Rounds)]
<1>0. /\ StepTypes /\ PlaceInv /\ RankNext(r) /\ "norms" \in Channels /\ "fails" \in Channels
      /\ at[r] = "count" /\ at'[r] = "decide" /\ iter[r] >= 1 /\ Reduces(r)
      /\ iter[r] <= MaxIter /\ iter[r] \in Nat /\ MaxIter \in Nat
      /\ rounds \in [Channels -> Seq(Rounds)] /\ FirstCalled' = FirstCalled
      /\ verbose' = verbose /\ verbose
      /\ rounds' = [rounds EXCEPT !["fails"] = Take("fails", r)]
  BY SolveAssumption
     DEF StepInv, StepTypes, PlaceInv, RankNext, Channels, CheckFails, Moves, FirstCalled
<1>1. FirstCalled <= MaxIter
  <2>1. FirstCalled \in Nat /\ iter[r] >= FirstCalled
    BY <1>0, ReducesFrom
  <2> QED  BY <1>0, <2>1
<1>2. PICK x \in Calls : QueueInv /\ OrderInv(x) /\ CountInv(x)
  BY <1>1 DEF StepInv
<1>3. rounds'["fails"] = Take("fails", r) /\ rounds'["norms"] = rounds["norms"]
  BY <1>0
<1>4. /\ Size("norms")' = Size("norms")
      /\ \A m \in Nat : Givers("norms", m)' = Givers("norms", m)
                        /\ Takers("norms", m)' = Takers("norms", m)
      /\ \A m \in Nat : \A s : Gift("norms", m, s)' = Gift("norms", m, s)
  BY <1>0, <1>3, OtherChannel
<1>5. /\ \A s \in Processes : CallOf(s)' = CallOf(s)
      /\ \A s \in Processes : s # r => at'[s] = at[s]
      /\ \A s \in Processes : at'[s] = "check" <=> at[s] = "check"
  BY <1>0, <1>1, SameCall, OwnStep
<1>6. QueueInv' /\ OrderInv(x)'
  <2>1. /\ NormGiven("norms")' = NormGiven("norms")
        /\ \A norm : CallAfter(x, norm)' = CallAfter(x, norm)
    BY <1>0, <1>4 DEF NormGiven, CallAfter, Call, CalledFrom, SolveAfter
  <2> QED  BY <1>2, <1>4, <1>5, <2>1 DEF QueueInv, OrderInv, InOrder
<1>7. r \in Givers("fails", 1) /\ r \notin Takers("fails", 1) /\ Size("fails") = 1
  <2>1. r \in Givers("fails", 1) /\ r \notin Takers("fails", 1)
    BY <1>0, <1>2 DEF CountInv
  <2>2. Size("fails") \in Nat /\ 1 <= Size("fails")
    BY <1>0, <2>1, RoundsEmpty
  <2> QED  BY <1>2, <2>1, <2>2 DEF CountInv
<1>8. CASE Takers("fails", 1) \cup {r} = Processes
  <2>1. rounds'["fails"] \in Seq(Rounds) /\ Size("fails")' = 0
    <3>1. Size("fails") > 0 /\ Size("fails") - 1 = 0
      BY <1>7
    <3>2. rounds'["fails"] \in Seq(Rounds) /\ Size("fails")' = Size("fails") - 1
      BY <1>0, <1>3, <1>7, <1>8, <3>1, TakeRound
    <3> QED  BY <3>1, <3>2
  <2>2. Givers("fails", 1)' = {} /\ Takers("fails", 1)' = {}
    BY <2>1 DEF Givers, Takers, Size
  <2>3. Takers("norms", 1) = {}
    <3>1. Givers("fails", 1) = Processes
      <4>1. Takers("fails", 1) \subseteq Givers("fails", 1)
        BY <1>2 DEF CountInv
      <4>2. Givers("fails", 1) \subseteq Processes
        BY <1>0, RoundsEmpty
      <4> QED  BY <1>7, <1>8, <4>1, <4>2
    <3>2. Takers("norms", 1) # {} => Size("norms") > 0
      BY <1>0, RoundsEmpty
    <3> QED  BY <1>0, <1>2, <3>1, <3>2 DEF CountInv, QueueInv
  <2>4. \A s \in Processes : at'[s] # "count"
    BY <1>0, <1>2, <1>5, <1>8 DEF CountInv
  <2>5. CountInv(x)'
    BY <1>0, <1>4, <2>1, <2>2, <2>3, <2>4 DEF CountInv
  <2> QED  BY <1>0, <1>1, <1>2, <1>6, <2>1, <2>5 DEF NormsAndCounts
<1>9. CASE Takers("fails", 1) \cup {r} # Processes
  <2>1. /\ rounds'["fails"] \in Seq(Rounds) /\ Size("fails")' = 1
        /\ Takers("fails", 1)' = Takers("fails", 1) \cup {r}
        /\ Givers("fails", 1)' = Givers("fails", 1)
        /\ \A s \in Givers("fails", 1) : Gift("fails", 1, s)' = Gift("fails", 1, s)
    BY <1>0, <1>3, <1>7, <1>9, TakeRound
  <2>2. \A s \in Processes :
           at'[s] = "count" <=> s \in Givers("fails", 1)' \ Takers("fails", 1)'
    BY <1>0, <1>2, <1>5, <2>1 DEF CountInv
  <2>3. CountInv(x)'
    BY <1>0, <1>2, <1>4, <1>7, <1>9, <2>1, <2>2 DEF CountInv
  <2> QED  BY <1>0, <1>1, <1>2, <1>6, <2>1, <2>3 DEF NormsAndCounts
<1> QED  BY <1>8, <1>9

-----------------------------------------------------------------------------
(***************************************************************************)
(* Types, and where in a step a rank is.                                   *)
(***************************************************************************)
LEMMA TypesKept ==
    ASSUME StepInv, NEW r \in Processes, RankNext(r), rounds' \in [Channels -> Seq(Rounds)]
    PROVE  StepTypes' /\ PlaceInv'
<1>0. /\ StepTypes /\ PlaceInv
      /\ MinIter \in Nat /\ MaxIter \in Nat \ {0} /\ Stages \in Nat
      /\ iter[r] \in 0 .. MaxIter
  BY SolveAssumption DEF StepInv, StepTypes
<1>1. PlaceInv' <=> \A s \in Processes :
        /\ at'[s] \in {"idle", "report", "done"} => iter'[s] = 0
        /\ at'[s] \in {"kernel", "check", "count", "decide"} => iter'[s] >= 1
        /\ at'[s] \in {"check", "count"} => Reduces(s)'
        /\ at'[s] = "count" => verbose'
        /\ at'[s] \in {"report", "done"} => todo'[s] = {} /\ stage'[s] = Stages
  BY DEF PlaceInv
<1>2. ASSUME /\ at'[r] \in {"idle", "report", "done"} => iter'[r] = 0
             /\ at'[r] \in {"kernel", "check", "count", "decide"} => iter'[r] >= 1
             /\ at'[r] \in {"check", "count"} => Reduces(r)'
             /\ at'[r] = "count" => verbose'
             /\ at'[r] \in {"report", "done"} => todo'[r] = {} /\ stage'[r] = Stages
      PROVE  PlaceInv'
  BY <1>0, <1>1, <1>2, OwnStep DEF PlaceInv
<1>3. /\ at[r] \in {"idle", "report", "done"} => iter[r] = 0
      /\ at[r] \in {"kernel", "check", "count", "decide"} => iter[r] >= 1
      /\ at[r] \in {"check", "count"} => Reduces(r)
      /\ at[r] = "count" => verbose
      /\ at[r] \in {"report", "done"} => todo[r] = {} /\ stage[r] = Stages
  BY <1>0 DEF PlaceInv
<1>4. CASE StartSolve(r)
  <2>1. at[r] = "idle" /\ at'[r] = "kernel" /\ iter'[r] = 1
    BY <1>0, <1>4 DEF StartSolve, Moves, StepTypes
  <2>2. StepTypes'
    BY <1>0, <1>4 DEF StartSolve, Moves, StepTypes, Places
  <2> QED  BY <1>2, <2>1, <2>2
<1>5. CASE Kernel(r)
  <2>1. at[r] = "kernel" /\ at'[r] = (IF Reduces(r) THEN "check" ELSE "decide")
        /\ iter' = iter /\ Reduces(r)' = Reduces(r)
    BY <1>0, <1>5 DEF Kernel, StepTypes, Reduces
  <2>2. StepTypes'
    BY <1>0, <1>5 DEF Kernel, StepTypes, Places
  <2> QED  BY <1>2, <1>3, <2>1, <2>2
<1>6. CASE CheckNorm(r)
  <2>1. /\ at[r] = "check" /\ at'[r] = (IF verbose THEN "count" ELSE "decide")
        /\ iter' = iter /\ Reduces(r)' = Reduces(r) /\ verbose' = verbose
    BY <1>0, <1>6 DEF CheckNorm, Moves, StepTypes, Reduces
  <2>2. \E norm \in {"above", "below"} : maxNorm' = [maxNorm EXCEPT ![r] = norm]
    BY <1>6 DEF CheckNorm
  <2>3. StepTypes'
    BY <1>0, <1>6, <2>2 DEF CheckNorm, Moves, StepTypes, Places
  <2> QED  BY <1>2, <1>3, <2>1, <2>3
<1>7. CASE CheckFails(r)
  <2>1. at[r] = "count" /\ at'[r] = "decide" /\ iter' = iter
    BY <1>0, <1>7 DEF CheckFails, Moves, StepTypes
  <2>2. StepTypes'
    BY <1>0, <1>7 DEF CheckFails, Moves, StepTypes, Places
  <2> QED  BY <1>2, <1>3, <2>1, <2>2
<1>8. CASE NextIteration(r)
  <2>1. at[r] = "decide" /\ at'[r] = "kernel" /\ iter'[r] = iter[r] + 1 /\ iter[r] # MaxIter
    BY <1>0, <1>8 DEF NextIteration, Moves, StepTypes, Stops
  <2>2. iter' \in [Processes -> 0 .. MaxIter]
    <3>1. iter[r] + 1 \in 0 .. MaxIter
      BY <1>0, <2>1
    <3> QED  BY <1>0, <1>8, <3>1 DEF NextIteration, StepTypes
  <2>3. StepTypes'
    BY <1>0, <1>8, <2>2 DEF NextIteration, Moves, StepTypes, Places
  <2> QED  BY <1>0, <1>2, <2>1, <2>3
<1>9. CASE EndSolve(r)
  <2>1. at'[r] = "idle" /\ iter'[r] = 0
    BY <1>0, <1>9 DEF EndSolve, Moves, StepTypes
  <2>2. StepTypes'
    BY <1>0, <1>9 DEF EndSolve, Moves, StepTypes, Places
  <2> QED  BY <1>2, <2>1, <2>2
<1>10. CASE NextSubStep(r)
  <2>1. at[r] = "idle" /\ at'[r] = "idle" /\ iter' = iter
    BY <1>0, <1>10 DEF NextSubStep, Moves, StepTypes
  <2>2. StepTypes'
    BY <1>0, <1>10 DEF NextSubStep, Moves, StepTypes, Places
  <2> QED  BY <1>2, <1>3, <2>1, <2>2
<1>11. CASE StartFlagReduce(r) \/ CheckFlagReduceAndPrintHits(r)
  <2>1. /\ at[r] \in {"idle", "report"} /\ at'[r] \in {"report", "done"} /\ iter' = iter
        /\ todo'[r] = {} /\ stage'[r] = Stages
    BY <1>0, <1>3, <1>11 DEF StartFlagReduce, CheckFlagReduceAndPrintHits, Moves, StepTypes
  <2>2. StepTypes'
    BY <1>0, <1>11 DEF StartFlagReduce, CheckFlagReduceAndPrintHits, Moves, StepTypes, Places
  <2> QED  BY <1>2, <1>3, <2>1, <2>2
<1> QED  BY <1>4, <1>5, <1>6, <1>7, <1>8, <1>9, <1>10, <1>11 DEF RankNext

(***************************************************************************)
(* The invariant of the collectives.                                       *)
(***************************************************************************)
LEMMA StepInvInit == ASSUME SolveInit PROVE StepInv
<1>1. /\ StepTypes /\ PlaceInv
  <2>1. \A c \in Channels : rounds[c] \in Seq(Rounds)
    BY DEF SolveInit
  <2> QED  BY <2>1, SolveAssumption DEF SolveInit, StepTypes, PlaceInv, Places
<1>2. \A c \in Channels : Size(c) = 0
  BY DEF SolveInit, Size
<1>3. \A c \in Channels : \A m \in Nat \ {0} : Givers(c, m) = {} /\ Takers(c, m) = {}
  BY <1>1, <1>2, RoundsEmpty
<1>4. {"norms", "fails", "flags"} \subseteq Channels /\ 1 \in Nat \ {0} /\ 2 \in Nat \ {0}
  BY DEF Channels
<1>5. FlagsInv
  BY <1>2, <1>3, <1>4 DEF FlagsInv, SolveInit
<1>6. QueueInv
  BY <1>2, <1>3, <1>4 DEF QueueInv
<1>7. Cardinality(Parts) \in Nat /\ FirstCalled \in Nat
  BY SolveAssumption, FS_CardinalityType DEF FirstCalled
<1> DEFINE x == Call(SolveAfter([stage |-> 1, left |-> Cardinality(Parts) + 1]), FirstCalled)
<1>8. x \in Calls
  BY <1>7 DEF Call, Calls, SolveAfter
<1>9. \A r \in Processes : CallOf(r) = x /\ at[r] = "idle"
  BY DEF SolveInit, CallOf, Present
<1> HIDE DEF x
<1>10. OrderInv(x)
  BY <1>3, <1>4, <1>9 DEF OrderInv, InOrder
<1>11. CountInv(x)
  BY <1>2, <1>3, <1>4, <1>9 DEF CountInv
<1> QED  BY <1>1, <1>2, <1>4, <1>5, <1>6, <1>8, <1>10, <1>11 DEF StepInv

(* Every step of a rank keeps the order of calls.                            *)
LEMMA RankKeepsStep == ASSUME StepInv, NEW r \in Processes, RankNext(r) PROVE StepInv'
<1>0. /\ "norms" \in Channels /\ "fails" \in Channels /\ "flags" \in Channels
      /\ StepTypes /\ rounds \in [Channels -> Seq(Rounds)]
  BY DEF Channels, StepInv, StepTypes
<1>1. CASE Kernel(r) /\ Reduces(r)
  <2>1. NormsAndCounts' /\ rounds' \in [Channels -> Seq(Rounds)]
    BY <1>1, NormsStep
  <2>2. rounds'["flags"] = rounds["flags"] /\ at'[r] \notin {"report", "done"}
    BY <1>0, <1>1 DEF Kernel, StepTypes
  <2> QED  BY <2>1, <2>2, FlagsKept, TypesKept DEF StepInv, NormsAndCounts
<1>2. CASE CheckNorm(r)
  <2>1. NormsAndCounts' /\ rounds' \in [Channels -> Seq(Rounds)]
    BY <1>2, NormStep
  <2>2. rounds'["flags"] = rounds["flags"] /\ at'[r] \notin {"report", "done"}
    <3>1. \E norms, fails : rounds' = [rounds EXCEPT !["norms"] = norms, !["fails"] = fails]
      BY <1>2 DEF CheckNorm
    <3> QED  BY <1>0, <1>2, <3>1 DEF CheckNorm, Moves, StepTypes
  <2> QED  BY <2>1, <2>2, FlagsKept, TypesKept DEF StepInv, NormsAndCounts
<1>3. CASE CheckFails(r)
  <2>1. NormsAndCounts' /\ rounds' \in [Channels -> Seq(Rounds)]
    BY <1>3, CountStep
  <2>2. rounds'["flags"] = rounds["flags"] /\ at'[r] \notin {"report", "done"}
    BY <1>0, <1>3 DEF CheckFails, Moves, StepTypes
  <2> QED  BY <2>1, <2>2, FlagsKept, TypesKept DEF StepInv, NormsAndCounts
<1>4. CASE StartFlagReduce(r) \/ CheckFlagReduceAndPrintHits(r)
  <2>1. /\ {at[r], at'[r]} \cap {"check", "count"} = {}
        /\ \E flags : rounds' = [rounds EXCEPT !["flags"] = flags]
    BY <1>0, <1>4 DEF StartFlagReduce, CheckFlagReduceAndPrintHits, Moves, StepTypes
  <2>2. rounds'["norms"] = rounds["norms"] /\ rounds'["fails"] = rounds["fails"]
    BY <1>0, <2>1
  <2>3. ~CheckNorm(r)
    BY <2>1 DEF CheckNorm, Moves
  <2>4. FlagsInv' /\ rounds'["flags"] \in Seq(Rounds)
    BY <1>4, FlagsStep
  <2>5. rounds' \in [Channels -> Seq(Rounds)]
    BY <1>0, <2>1, <2>4
  <2>6. NormsAndCounts'
    BY <2>1, <2>2, <2>3, QuietStep
  <2> QED  BY <2>4, <2>5, <2>6, TypesKept DEF StepInv, NormsAndCounts
<1>5. CASE \/ StartSolve(r) \/ (Kernel(r) /\ ~Reduces(r)) \/ NextIteration(r) \/ EndSolve(r)
           \/ NextSubStep(r)
  <2>1. /\ {at[r], at'[r]} \cap {"check", "count"} = {} /\ rounds' = rounds
        /\ at'[r] \notin {"report", "done"}
    BY <1>0, <1>5
       DEF StartSolve, Kernel, NextIteration, EndSolve, NextSubStep, Moves, StepTypes
  <2>2. ~CheckNorm(r)
    BY <2>1 DEF CheckNorm, Moves
  <2>3. NormsAndCounts'
    BY <2>1, <2>2, QuietStep
  <2>4. FlagsInv'
    BY <2>1, FlagsKept
  <2> QED  BY <1>0, <2>1, <2>3, <2>4, TypesKept DEF StepInv, NormsAndCounts
<1> QED  BY <1>1, <1>2, <1>3, <1>4, <1>5 DEF RankNext

(* Calls are in order in every behavior.                                     *)
LEMMA StepInvAlways == SolveSpec => []StepInv
<1>1. SolveInit => StepInv
  BY StepInvInit
<1>2. StepInv /\ [SolveNext]_solveVars => StepInv'
  <2>1. CASE UNCHANGED solveVars
    <3> SUFFICES ASSUME StepInv PROVE StepInv'
      BY <2>1
    <3> USE <2>1 DEF solveVars
    <3>1. StepTypes' /\ PlaceInv'
      BY DEF StepInv, StepTypes, PlaceInv, Reduces
    <3>2. \A c : /\ Size(c)' = Size(c)
                 /\ \A m : Givers(c, m)' = Givers(c, m) /\ Takers(c, m)' = Takers(c, m)
                 /\ \A m, s : Gift(c, m, s)' = Gift(c, m, s)
      BY DEF Size, Givers, Takers, Gift
    <3>3. FirstCalled' = FirstCalled /\ at' = at /\ verbose' = verbose
      BY DEF FirstCalled
    <3>4. \A s \in Processes : CallOf(s)' = CallOf(s)
      BY OtherRank
    <3>5. \A x : CallAfter(x, NormGiven("norms"))' = CallAfter(x, NormGiven("norms"))
      BY <3>2, <3>3 DEF NormGiven, CallAfter, Call, CalledFrom, SolveAfter
    <3>6. FlagsInv'
      BY <3>2, <3>3 DEF StepInv, FlagsInv
    <3>7. CASE FirstCalled <= MaxIter
      <4>1. PICK x \in Calls : QueueInv /\ OrderInv(x) /\ CountInv(x)
        BY <3>7 DEF StepInv
      <4>2. QueueInv'
        BY <3>2, <4>1 DEF QueueInv
      <4>3. OrderInv(x)'
        BY <3>2, <3>3, <3>4, <3>5, <4>1 DEF OrderInv, InOrder
      <4>4. CountInv(x)'
        BY <3>2, <3>3, <4>1 DEF CountInv
      <4> QED  BY <3>1, <3>3, <3>6, <3>7, <4>2, <4>3, <4>4 DEF StepInv
    <3>8. CASE ~(FirstCalled <= MaxIter)
      BY <3>1, <3>2, <3>3, <3>6, <3>8 DEF StepInv
    <3> QED  BY <3>7, <3>8
  <2>2. CASE \E r \in Processes : RankNext(r)
    BY <2>2, RankKeepsStep
  <2> QED  BY <2>1, <2>2 DEF SolveNext
<1> QED  BY <1>1, <1>2, PTL DEF SolveSpec

(***************************************************************************)
(* What meets in a reduction is always of the same iteration in the same   *)
(* sub-step, for any number of ranks and partitions, whatever their zones  *)
(* do and in whatever order ranks take them.                               *)
(***************************************************************************)
THEOREM AlwaysInStep == SolveSpec => []InStep
<1>1. StepInv => InStep
  <2> SUFFICES ASSUME StepInv, NEW c \in Channels, NEW n \in 1 .. Size(c),
                      NEW r \in Givers(c, n), NEW s \in Givers(c, n)
               PROVE  Gift(c, n, r).stage = Gift(c, n, s).stage
                      /\ Gift(c, n, r).iter = Gift(c, n, s).iter
    BY DEF InStep, Size, Givers, Gift
  <2>1. c \in {"norms", "fails", "flags"} /\ StepTypes /\ Size(c) \in Nat
    BY RoundsEmpty DEF Channels, StepInv
  <2>2. CASE c = "flags"
    <3>1. n = 1
      BY <2>1, <2>2 DEF StepInv, FlagsInv
    <3> QED  BY <2>2, <3>1 DEF StepInv, FlagsInv
  <2>3. CASE c # "flags" /\ FirstCalled <= MaxIter
    <3>1. PICK x \in Calls : QueueInv /\ OrderInv(x) /\ CountInv(x)
      BY <2>3 DEF StepInv
    <3>2. CASE c = "norms"
      <4>1. n \in {1, 2}
        BY <2>1, <3>1, <3>2 DEF QueueInv
      <4> QED  BY <3>1, <3>2, <4>1 DEF OrderInv, InOrder
    <3>3. CASE c = "fails"
      <4>1. n = 1
        BY <2>1, <3>1, <3>3 DEF CountInv
      <4> QED  BY <3>1, <3>3, <4>1 DEF CountInv
    <3> QED  BY <2>1, <2>3, <3>2, <3>3
  <2>4. CASE c # "flags" /\ ~(FirstCalled <= MaxIter)
    BY <2>1, <2>4 DEF StepInv
  <2> QED  BY <2>2, <2>3, <2>4
<1> QED  BY <1>1, StepInvAlways, PTL

-----------------------------------------------------------------------------
(***************************************************************************)
(* Norms.  What a rank gave is the largest norm of its zones, and stays so *)
(* until it goes on: a small maximum over all ranks is one over its own.   *)
(***************************************************************************)
RoundOf(r) == IF r \in Takers("norms", 1) THEN 2 ELSE 1

NormInv ==
    /\ \A r \in Processes : \A z \in Zones :
          zones[r][z].status = "beyond_tol" => zones[r][z].norm = "above"
    /\ \A r \in Processes :
          at[r] = "check" => Gift("norms", RoundOf(r), r).value = LocalMax(zones[r])
    /\ \A r \in Processes :
          at[r] \in {"count", "decide"} /\ Reduces(r) /\ maxNorm[r] = "below" =>
              LocalMax(zones[r]) = "below"

\* Who waits for a norm has given one in its round
LEMMA InItsRound ==
    ASSUME StepInv, NEW r \in Processes, at[r] = "check"
    PROVE  RoundOf(r) \in {1, 2} /\ r \in Givers("norms", RoundOf(r))
<1>1. FirstCalled <= MaxIter
  <2>1. /\ iter[r] >= 1 /\ Reduces(r) /\ iter[r] <= MaxIter /\ iter[r] \in Nat /\ MaxIter \in Nat
        /\ StepTypes
    BY SolveAssumption DEF StepInv, StepTypes, PlaceInv
  <2>2. FirstCalled \in Nat /\ iter[r] >= FirstCalled
    BY <2>1, ReducesFrom
  <2> QED  BY <2>1, <2>2
<1>2. PICK x, next : InOrder(x, next)
  BY <1>1 DEF StepInv, OrderInv
<1> QED  BY <1>2 DEF InOrder, RoundOf

\* A norm that is given is the rank's own, and no other's changes
LEMMA NormsStay ==
    ASSUME StepInv, Types, NormInv, NEW r \in Processes, Kernel(r), Reduces(r)
    PROVE  \A s \in Processes :
              at'[s] = "check" => Gift("norms", RoundOf(s), s)'.value = LocalMax(zones'[s])
<1>0. /\ StepTypes /\ PlaceInv /\ RankNext(r) /\ "norms" \in Channels
      /\ rounds \in [Channels -> Seq(Rounds)]
      /\ at[r] = "kernel" /\ iter[r] \in 0 .. MaxIter /\ iter[r] >= 1 /\ stage[r] \in Nat
      /\ iter[r] \in Nat /\ MaxIter \in Nat /\ DOMAIN zones = Processes
  BY SolveAssumption DEF StepInv, StepTypes, PlaceInv, RankNext, Channels, Kernel, Types
<1>1. FirstCalled <= MaxIter
  <2>1. FirstCalled \in Nat /\ iter[r] >= FirstCalled
    BY <1>0, ReducesFrom
  <2> QED  BY <1>0, <2>1
<1>2. PICK x \in Calls : QueueInv /\ OrderInv(x)
  BY <1>1 DEF StepInv
<1>3. PICK next : InOrder(x, next)
  BY <1>2 DEF OrderInv
<1>4. PICK solved : zones' = [zones EXCEPT ![r] = solved]
                    /\ rounds' = [rounds EXCEPT !["norms"] = Give("norms", r, LocalMax(solved))]
  BY DEF Kernel
<1>5. LocalMax(solved) \in {"above", "below", "count"}
  BY DEF LocalMax
<1>6. rounds'["norms"] = Give("norms", r, LocalMax(solved))
  BY <1>0, <1>4
<1>7. PICK n : n = RoundOf(r)
  OBVIOUS
<1>8. /\ n \in 1 .. Size("norms") + 1 /\ r \notin Givers("norms", n)
      /\ \A m \in Nat \ {0} : m < n => r \in Givers("norms", m)
  <2>1. CASE r \in Takers("norms", 1)
    <3>1. r \in Givers("norms", 1) /\ r \notin Givers("norms", 2) /\ n = 2
      BY <1>0, <1>2, <1>3, <1>7, <2>1 DEF QueueInv, InOrder, RoundOf
    <3>2. Size("norms") \in Nat /\ 1 <= Size("norms")
      BY <1>0, <3>1, RoundsEmpty
    <3>3. \A m \in Nat \ {0} : m < 2 => m = 1
      OBVIOUS
    <3> QED  BY <3>1, <3>2, <3>3
  <2>2. CASE r \notin Takers("norms", 1)
    <3>1. r \notin Givers("norms", 1) /\ n = 1
      BY <1>0, <1>3, <1>7, <2>2 DEF InOrder, RoundOf
    <3>2. Size("norms") \in Nat
      BY <1>0, RoundsEmpty
    <3> QED  BY <3>1, <3>2
  <2> QED  BY <2>1, <2>2
<1>9. /\ \A m \in Nat \ {0} :
            /\ Takers("norms", m)' = Takers("norms", m)
            /\ \A s \in Givers("norms", m) : Gift("norms", m, s)' = Gift("norms", m, s)
      /\ Gift("norms", n, r)' = [value |-> LocalMax(solved), stage |-> stage[r], iter |-> iter[r]]
  BY <1>0, <1>5, <1>6, <1>8, GiveRound, SMTT(60)
<1>10. \A s \in Processes : RoundOf(s)' = RoundOf(s)
  BY <1>9 DEF RoundOf
<1> SUFFICES ASSUME NEW s \in Processes, at'[s] = "check"
             PROVE  Gift("norms", RoundOf(s), s)'.value = LocalMax(zones'[s])
  OBVIOUS
<1>11. CASE s = r
  <2>1. zones'[s] = solved
    BY <1>0, <1>4, <1>11
  <2>2. Gift("norms", RoundOf(s), s)' = Gift("norms", n, r)'
    BY <1>7, <1>10, <1>11
  <2> QED  BY <1>9, <2>1, <2>2
<1>12. CASE s # r
  <2>1. at[s] = "check"
    BY <1>0, <1>12, OwnStep
  <2>2. PICK m \in Nat \ {0} : m = RoundOf(s) /\ s \in Givers("norms", m)
    BY <2>1, InItsRound
  <2>3. Gift("norms", m, s).value = LocalMax(zones[s]) /\ zones'[s] = zones[s]
    BY <1>4, <1>12, <2>1, <2>2 DEF NormInv
  <2> QED  BY <1>9, <1>10, <2>2, <2>3
<1> QED  BY <1>11, <1>12

\* The kernel leaves no zone beyond the tolerance with a smaller norm
LEMMA BeyondIsAbove ==
    ASSUME NEW zone \in ZoneStates, NEW o \in Outcomes, NEW first \in BOOLEAN,
           Solved(zone, o, first).status = "beyond_tol"
    PROVE  Solved(zone, o, first).norm = "above"
<1>1. Failed(zone).status = "fail" /\ [Failed(zone) EXCEPT !.norm = "nan"].status = "fail"
  BY DEF Failed, ZoneStates
<1>2. Solved(zone, o, first) = AfterStep(zone, o) /\ o.room # "none"
  BY <1>1 DEF Solved, AfterStep
<1>3. CASE o.final = "nan"
  BY <1>1, <1>2, <1>3 DEF AfterStep
<1>4. CASE o.final = "above"
  BY <1>2, <1>4 DEF AfterStep
<1>5. CASE o.final \notin {"nan", "above"}
  BY <1>2, <1>5 DEF AfterStep
<1> QED  BY <1>3, <1>4, <1>5

(* Who is still waiting for a norm has given its own.                        *)
LEMMA NormsKept ==
    ASSUME StepInv, Types, NormInv, NEW r \in Processes, CheckNorm(r)
    PROVE  \A s \in Processes :
              /\ at'[s] = "check" => Gift("norms", RoundOf(s), s)'.value = LocalMax(zones'[s])
              /\ s = r /\ maxNorm'[s] = "below" => LocalMax(zones'[s]) = "below"
<1>0. /\ StepTypes /\ PlaceInv /\ RankNext(r) /\ "norms" \in Channels
      /\ rounds \in [Channels -> Seq(Rounds)] /\ rounds'["norms"] = Take("norms", r)
      /\ at[r] = "check" /\ at'[r] # "check" /\ iter[r] \in 0 .. MaxIter /\ iter[r] >= 1
      /\ iter[r] \in Nat /\ MaxIter \in Nat /\ Reduces(r) /\ zones' = zones
  BY SolveAssumption
     DEF StepInv, StepTypes, PlaceInv, RankNext, Channels, CheckNorm, Moves, Types
<1>1. FirstCalled <= MaxIter
  <2>1. FirstCalled \in Nat /\ iter[r] >= FirstCalled
    BY <1>0, ReducesFrom
  <2> QED  BY <1>0, <2>1
<1>2. PICK x \in Calls : QueueInv /\ OrderInv(x)
  BY <1>1 DEF StepInv
<1>3. PICK next : next = CallAfter(x, NormGiven("norms")) /\ InOrder(x, next)
  BY <1>2 DEF OrderInv
<1>4. /\ Size("norms") > 0 /\ r \notin Takers("norms", 1) /\ Givers("norms", 1) = Processes
      /\ maxNorm'[r] = NormGiven("norms")
  BY <1>0, <1>2, <1>3, NormTaken
<1>5. maxNorm'[r] = "below" => LocalMax(zones'[r]) = "below"
  <2>1. Gift("norms", 1, r).value = LocalMax(zones[r])
    BY <1>0, <1>4 DEF NormInv, RoundOf
  <2>2. LocalMax(zones[r]) \in {"above", "below"}
    BY DEF LocalMax
  <2> QED  BY <1>0, <1>4, <2>1, <2>2 DEF NormGiven
<1> SUFFICES ASSUME NEW s \in Processes, at'[s] = "check"
             PROVE  Gift("norms", RoundOf(s), s)'.value = LocalMax(zones'[s])
  BY <1>5
<1>6. s # r /\ at[s] = "check"
  BY <1>0, OwnStep
<1>7. PICK m \in {1, 2} :
         m = RoundOf(s) /\ s \in Givers("norms", m)
         /\ Gift("norms", m, s).value = LocalMax(zones[s])
  BY <1>6, InItsRound DEF NormInv
<1>8. CASE Takers("norms", 1) \cup {r} = Processes
  <2>1. m = 2
    BY <1>6, <1>7, <1>8 DEF RoundOf
  <2>2. \A k \in Nat \ {0} :
           /\ Takers("norms", k)' = Takers("norms", k + 1)
           /\ \A q \in Givers("norms", k + 1) : Gift("norms", k, q)' = Gift("norms", k + 1, q)
    BY <1>0, <1>4, <1>8, TakeRound
  <2>3. /\ Takers("norms", 1)' = Takers("norms", 2)
        /\ \A q \in Givers("norms", 2) : Gift("norms", 1, q)' = Gift("norms", 2, q)
    <3>1. 1 \in Nat \ {0} /\ 1 + 1 = 2
      OBVIOUS
    <3> QED  BY <2>2, <3>1
  <2>4. RoundOf(s)' = 1
    BY <1>2, <2>3 DEF RoundOf, QueueInv
  <2> QED  BY <1>0, <1>7, <2>1, <2>3, <2>4
<1>9. CASE Takers("norms", 1) \cup {r} # Processes
  <2>1. /\ Takers("norms", 1)' = Takers("norms", 1) \cup {r}
        /\ \A k \in Nat \ {0} :
              \A q \in Givers("norms", k) : Gift("norms", k, q)' = Gift("norms", k, q)
    BY <1>0, <1>4, <1>9, TakeRound
  <2>2. RoundOf(s)' = m
    BY <1>6, <1>7, <2>1 DEF RoundOf
  <2>3. m \in Nat \ {0}
    OBVIOUS
  <2> QED  BY <1>0, <1>7, <2>1, <2>2, <2>3
<1> QED  BY <1>8, <1>9

(* Every step of a rank keeps what is known of norms.                        *)
LEMMA RankKeepsNorms ==
    ASSUME StepInv, StepInv', SolveInv, NormInv, NEW r \in Processes, RankNext(r)
    PROVE  NormInv'
<1>0. /\ StepTypes /\ Types /\ PlaceInv /\ "norms" \in Channels
      /\ \A s \in Processes : s # r =>
            at'[s] = at[s] /\ maxNorm'[s] = maxNorm[s] /\ (Reduces(s)' <=> Reduces(s))
  BY OwnStep DEF StepInv, SolveInv, Channels
<1>1. \A s \in Processes : s # r => zones'[s] = zones[s]
  BY <1>0 DEF RankNext, StartSolve, Kernel, CheckNorm, CheckFails, NextIteration, EndSolve,
              NextSubStep, StartFlagReduce, CheckFlagReduceAndPrintHits, Types
<1>2. \A z \in Zones : zones'[r][z].status = "beyond_tol" => zones'[r][z].norm = "above"
  <2>1. CASE Kernel(r)
    <3> SUFFICES ASSUME NEW z \in Zones, zones'[r][z].status = "beyond_tol"
                 PROVE  zones'[r][z].norm = "above"
      OBVIOUS
    <3>1. PICK o \in Outcomes : zones'[r][z] = Solved(zones[r][z], o, iter[r] = 1)
      BY <1>0, <2>1 DEF Kernel, Types
    <3>2. zones[r][z] \in ZoneStates /\ (iter[r] = 1) \in BOOLEAN
      BY <1>0 DEF Types
    <3> QED  BY <3>1, <3>2, BeyondIsAbove
  <2>2. CASE StartSolve(r)
    <3>1. PICK left \in [Zones -> [status : {"converged", "fail"}, norm : {"below", "above"}]] :
              zones' = [zones EXCEPT ![r] = [z \in Zones |->
                           [status |-> left[z].status, norm |-> left[z].norm, prims |-> "guess"]]]
      BY <2>2 DEF StartSolve
    <3>2. \A z \in Zones : left[z].status # "beyond_tol" /\ zones'[r][z].status = left[z].status
      BY <1>0, <3>1 DEF Types
    <3> QED  BY <3>2
  <2>3. CASE EndSolve(r)
    BY <1>0, <2>3 DEF EndSolve, NoZones, Types
  <2>4. CASE \/ CheckNorm(r) \/ CheckFails(r) \/ NextIteration(r) \/ NextSubStep(r)
             \/ StartFlagReduce(r) \/ CheckFlagReduceAndPrintHits(r)
    <3>1. zones' = zones
      BY <2>4 DEF CheckNorm, CheckFails, NextIteration, NextSubStep, StartFlagReduce,
                  CheckFlagReduceAndPrintHits
    <3> QED  BY <3>1 DEF NormInv
  <2> QED  BY <2>1, <2>2, <2>3, <2>4 DEF RankNext
<1>3. \A s \in Processes :
         at'[s] = "check" => Gift("norms", RoundOf(s), s)'.value = LocalMax(zones'[s])
  <2>1. CASE Kernel(r) /\ Reduces(r)
    BY <1>0, <2>1, NormsStay
  <2>2. CASE CheckNorm(r)
    BY <1>0, <2>2, NormsKept
  <2>3. CASE ~CheckNorm(r) /\ ~(Kernel(r) /\ Reduces(r))
    <3>1. at'[r] # "check"
      BY <1>0, <2>3
         DEF RankNext, StartSolve, Kernel, CheckFails, NextIteration, EndSolve, NextSubStep,
             StartFlagReduce, CheckFlagReduceAndPrintHits, Moves, StepTypes
    <3>2. rounds'["norms"] = rounds["norms"]
      BY <1>0, <2>3
         DEF RankNext, StartSolve, Kernel, CheckFails, NextIteration, EndSolve, NextSubStep,
             StartFlagReduce, CheckFlagReduceAndPrintHits, StepTypes
    <3>3. \A s \in Processes : RoundOf(s)' = RoundOf(s) /\ RoundOf(s) \in Nat
      BY <1>0, <3>2, OtherChannel DEF RoundOf
    <3>4. \A s \in Processes :
             Gift("norms", RoundOf(s), s)' = Gift("norms", RoundOf(s), s)
      BY <1>0, <3>2, <3>3 DEF Gift
    <3> QED  BY <1>0, <1>1, <3>1, <3>4 DEF NormInv
  <2> QED  BY <2>1, <2>2, <2>3
<1>4. at'[r] \in {"count", "decide"} /\ Reduces(r)' /\ maxNorm'[r] = "below" =>
         LocalMax(zones'[r]) = "below"
  <2> SUFFICES ASSUME at'[r] \in {"count", "decide"}, Reduces(r)', maxNorm'[r] = "below"
               PROVE  LocalMax(zones'[r]) = "below"
    OBVIOUS
  <2>1. CASE CheckNorm(r)
    BY <1>0, <2>1, NormsKept
  <2>2. CASE CheckFails(r)
    <3>1. at[r] = "count" /\ Reduces(r) /\ maxNorm' = maxNorm /\ zones' = zones
      BY <1>0, <2>2 DEF CheckFails, Moves, PlaceInv
    <3> QED  BY <3>1 DEF NormInv
  <2>3. CASE Kernel(r)
    <3>1. at'[r] = (IF Reduces(r) THEN "check" ELSE "decide") /\ (Reduces(r)' <=> Reduces(r))
      BY <1>0, <2>3 DEF Kernel, StepTypes, Reduces
    <3> QED  BY <3>1
  <2>4. CASE ~CheckNorm(r) /\ ~CheckFails(r) /\ ~Kernel(r)
    <3>1. at'[r] \in {"kernel", "idle", "report", "done"}
      BY <1>0, <2>4
         DEF RankNext, StartSolve, NextIteration, EndSolve, NextSubStep, StartFlagReduce,
             CheckFlagReduceAndPrintHits, Moves, StepTypes
    <3> QED  BY <3>1
  <2> QED  BY <2>1, <2>2, <2>3, <2>4
<1>5. \A s \in Processes : \A z \in Zones :
         zones'[s][z].status = "beyond_tol" => zones'[s][z].norm = "above"
  BY <1>1, <1>2 DEF NormInv
<1>6. \A s \in Processes :
         at'[s] \in {"count", "decide"} /\ Reduces(s)' /\ maxNorm'[s] = "below" =>
             LocalMax(zones'[s]) = "below"
  BY <1>0, <1>1, <1>4 DEF NormInv
<1> QED  BY <1>3, <1>5, <1>6 DEF NormInv

(* Norms are known so in every behavior.                                     *)
LEMMA NormInvAlways == SolveSpec => []NormInv
<1>1. SolveInit => NormInv
  BY DEF SolveInit, NormInv, NoZones
<1>2. StepInv /\ StepInv' /\ SolveInv /\ NormInv /\ [SolveNext]_solveVars => NormInv'
  <2>1. CASE UNCHANGED solveVars
    <3> SUFFICES ASSUME NormInv PROVE NormInv'
      BY <2>1
    <3> QED  BY <2>1 DEF solveVars, NormInv, Gift, RoundOf, Takers, Reduces
  <2>2. CASE \E r \in Processes : RankNext(r)
    BY <2>2, RankKeepsNorms
  <2> QED  BY <2>1, <2>2 DEF SolveNext
<1> QED  BY <1>1, <1>2, StepInvAlways, SolveInvAlways, PTL DEF SolveSpec

(***************************************************************************)
(* A partition is given up before the last iteration only when all of its  *)
(* zones that have not failed are within the tolerance, for any number of  *)
(* ranks: each stops by the same maximum, of which its own zones are part. *)
(***************************************************************************)
THEOREM AlwaysEndsConverged == SolveSpec => EndsConverged
<1> DEFINE Converges ==
        \A r \in Processes : at[r] = "decide" /\ at'[r] = "idle" /\ iter[r] < MaxIter =>
            \A z \in Zones : zones[r][z].status \notin {"fail"} => zones[r][z].prims = "below"
<1>1. StepInv /\ SolveInv /\ NormInv /\ [SolveNext]_solveVars => [Converges]_solveVars
  <2> SUFFICES ASSUME StepInv, SolveInv, NormInv, SolveNext,
                      NEW r \in Processes, at[r] = "decide", at'[r] = "idle", iter[r] < MaxIter,
                      NEW z \in Zones, zones[r][z].status # "fail"
               PROVE  zones[r][z].prims = "below"
    BY DEF Converges
  <2>1. EndSolve(r)
    <3>1. PICK s \in Processes : RankNext(s)
      BY DEF SolveNext, Finished
    <3>2. s = r
      BY <3>1, OwnStep DEF StepInv
    <3> QED  BY <3>1, <3>2
             DEF RankNext, StartSolve, Kernel, CheckNorm, CheckFails, NextIteration, NextSubStep,
                 StartFlagReduce, CheckFlagReduceAndPrintHits, Moves, StepInv, StepTypes
  <2>2. /\ iter[r] >= MinIter /\ maxNorm[r] = "below" /\ iter[r] >= 1
    <3>1. iter[r] \in Nat /\ MaxIter \in Nat /\ iter[r] >= 1
      BY SolveAssumption DEF StepInv, StepTypes, PlaceInv
    <3> QED  BY <2>1, <3>1 DEF EndSolve, Stops, GlobalNorm
  <2>3. LocalMax(zones[r]) = "below"
    BY <2>2 DEF NormInv, Reduces
  <2>4. zones[r][z].norm # "above"
    BY <2>3 DEF LocalMax
  <2>5. zones[r][z].status \notin {"fail", "beyond_tol"}
    BY <2>4 DEF NormInv
  <2>6. Honest(zones[r][z])
    <3>1. iter[r] \in Nat
      BY DEF SolveInv, Types
    <3>2. Stepped(r)
      BY <2>2, <3>1 DEF Stepped
    <3> QED  BY <3>2 DEF SolveInv, StatusHonest
  <2> QED  BY <2>5, <2>6 DEF Honest
<1>2. SolveSpec => [][Converges]_solveVars
  BY <1>1, StepInvAlways, SolveInvAlways, NormInvAlways, PTL DEF SolveSpec
<1> QED  BY <1>2 DEF EndsConverged
=============================================================================
