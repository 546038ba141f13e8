----------------------- MODULE TaskCollection_proofs -----------------------
(***************************************************************************)
(* Why the order in which the executor picks tasks does not matter: for    *)
(* every program whose conflicting tasks are Ordered, of any length and    *)
(* over any data, every schedule computes what the serial driver computes. *)
(*                                                                         *)
(* NoStaleData is not inductive: that a task finds the right inputs needs  *)
(* the tasks it waits for to be done, nothing to be done that should come  *)
(* later, and every location to hold the latest of what is done.           *)
(***************************************************************************)
EXTENDS StepProperties, TLAPS

\* Whatever a completed task waited for is complete
DoneClosed == \A i \in done : Waits[cfg][i] \subseteq done

\* Regions run serially
EarlierDone == \A i \in Tasks(cfg) : Program[cfg][i].region < region => i \in done

\* Every location holds the output of the last of its completed writers
LatestData == \A l \in Locations(cfg) : IsLatest(data[l], done \cap Writers(l))

IInv == TypeOK /\ DoneClosed /\ EarlierDone /\ LatestData

-----------------------------------------------------------------------------
\* The tasks of a program are numbered from 1, their regions too
LEMMA ProgramFacts ==
    ASSUME NEW c \in Configs
    PROVE  /\ Tasks(c) \subseteq Nat \ {0}
           /\ LastRegion(c) \in Nat \ {0}
           /\ \A i \in Tasks(c) : /\ Program[c][i].region \in Nat \ {0}
                                  /\ Program[c][i].region <= LastRegion(c)
                                  /\ Program[c][i].deps \subseteq Tasks(c)
                                  /\ Program[c][i].rd \subseteq Locations(c)
                                  /\ Program[c][i].wr \subseteq Locations(c)
<1>1. Tasks(c) = 1 .. Len(Program[c]) /\ Len(Program[c]) \in Nat \ {0}
  BY ProgramAssumption DEF Tasks
<1>2. Len(Program[c]) \in Tasks(c)
  BY <1>1
<1>3. \A i \in Tasks(c) : /\ Program[c][i].region \in Nat \ {0}
                          /\ Program[c][i].region <= LastRegion(c)
                          /\ Program[c][i].deps \subseteq Tasks(c)
  BY ProgramAssumption DEF Tasks
<1>4. LastRegion(c) \in Nat \ {0}
  BY <1>2, <1>3 DEF LastRegion
<1>5. \A i \in Tasks(c) : /\ Program[c][i].rd \subseteq Locations(c)
                          /\ Program[c][i].wr \subseteq Locations(c)
  BY DEF Locations
<1> QED
  BY <1>1, <1>3, <1>4, <1>5

(***************************************************************************)
(* Whatever the lists, a step completes only tasks of the regions it has   *)
(* reached and every location's provenance is a task of the step.          *)
(***************************************************************************)
THEOREM TypeCorrect == Spec => []TypeOK
<1>1. Init => TypeOK
  BY ProgramFacts DEF Init, TypeOK
<1>2. TypeOK /\ [Next]_vars => TypeOK'
  <2> SUFFICES ASSUME TypeOK, [Next]_vars PROVE TypeOK'
    OBVIOUS
  <2>0. cfg \in Configs
    BY DEF TypeOK
  <2>1. ASSUME NEW i \in Tasks(cfg), Run(i) PROVE TypeOK'
    BY <2>0, <2>1, ProgramFacts DEF TypeOK, Run, Tasks, Locations, LastRegion
  <2>2. CASE Barrier
    <3>1. region + 1 \in 1 .. LastRegion(cfg) + 1
      BY <2>0, <2>2, ProgramFacts DEF TypeOK, Barrier
    <3>2. \A i \in done : Program[cfg][i].region <= region + 1
      BY <2>0, ProgramFacts DEF TypeOK
    <3> QED
      BY <2>2, <3>1, <3>2 DEF TypeOK, Barrier, Tasks, Locations, LastRegion
  <2>3. CASE NextStep
    BY <2>0, <2>3, ProgramFacts DEF TypeOK, NextStep, Tasks, Locations, LastRegion
  <2>4. CASE UNCHANGED vars
    BY <2>4 DEF TypeOK, vars, Tasks, Locations, LastRegion
  <2> QED
    BY <2>1, <2>2, <2>3, <2>4 DEF Next
<1> QED
  BY <1>1, <1>2, PTL DEF Spec

\* When i is ready, the completed tasks it conflicts with are exactly those
\* listed before it
LEMMA ConflictsInOrder ==
    ASSUME cfg \in Configs, Ordered(cfg), IInv,
           NEW i \in Tasks(cfg), i \notin done,
           Program[cfg][i].region = region,
           Program[cfg][i].deps \subseteq done,
           NEW w \in Tasks(cfg), w # i, Conflict(cfg, w, i) \/ Conflict(cfg, i, w)
    PROVE  w \in done <=> w < i
<1> USE DEF IInv
<1>1. /\ Conflict(cfg, w, i) /\ Conflict(cfg, i, w)
      /\ i \in Nat /\ w \in Nat
      /\ Program[cfg][i].region \in Nat /\ Program[cfg][w].region \in Nat
  BY ProgramFacts DEF Conflict
<1>2. Waits[cfg][i] \subseteq done
  <2>1. Waits[cfg][i] = UNION {{j} \cup Waits[cfg][j] : j \in Program[cfg][i].deps}
    BY WaitsAssumption
  <2>2. \A j \in Program[cfg][i].deps : j \in done /\ Waits[cfg][j] \subseteq done
    BY DEF DoneClosed
  <2> QED
    BY <2>1, <2>2
<1>3. ASSUME w < i PROVE w \in done
  <2>1. Program[cfg][w].region < region \/ w \in Waits[cfg][i]
    BY <1>1, <1>3 DEF Ordered
  <2> QED
    BY <2>1, <1>2 DEF EarlierDone
<1>4. ASSUME i < w PROVE w \notin done
  <2>1. region < Program[cfg][w].region \/ i \in Waits[cfg][w]
    BY <1>1, <1>4 DEF Ordered
  <2>2. w \in done => Program[cfg][w].region <= region
    BY DEF TypeOK
  <2>3. w \in done => Waits[cfg][w] \subseteq done
    BY DEF DoneClosed
  <2> QED
    BY <2>1, <2>2, <2>3, <1>1
<1> QED
  BY <1>1, <1>3, <1>4

-----------------------------------------------------------------------------
LEMMA InitIInv == Init => IInv
<1> SUFFICES ASSUME Init PROVE IInv
  OBVIOUS
<1> USE DEF Init
<1>1. TypeOK
  BY ProgramFacts DEF TypeOK
<1>2. DoneClosed /\ LatestData
  BY DEF DoneClosed, LatestData, IsLatest
<1>3. EarlierDone
  BY ProgramFacts DEF EarlierDone
<1> QED
  BY <1>1, <1>2, <1>3 DEF IInv

\* Running a task, the only step that changes what is done or the data within
\* a region: it finds its inputs as listed, and none of its outputs was
\* already overwritten by a later task
LEMMA RunIInv ==
    ASSUME cfg \in Configs, Ordered(cfg), IInv, NEW i \in Tasks(cfg), Run(i)
    PROVE  IInv' /\ SerialInputs(i)
<1> USE DEF IInv, Run
<1>1. /\ i \in Nat \ {0} /\ Tasks(cfg) \subseteq Nat
      /\ Program[cfg][i].rd \subseteq Locations(cfg)
      /\ Program[cfg][i].wr \subseteq Locations(cfg)
  BY ProgramFacts
<1>2. \A l : Writers(l) \subseteq Tasks(cfg)
  BY DEF Writers
<1>3. SerialInputs(i)
  <2> SUFFICES ASSUME NEW l \in Program[cfg][i].rd
               PROVE  IsLatest(data[l], {w \in Writers(l) : w < i})
    BY DEF SerialInputs
  <2>1. \A w \in Writers(l) : w # i => (w \in done <=> w < i)
    BY <1>2, ConflictsInOrder DEF Conflict, Writers
  <2>2. done \cap Writers(l) = {w \in Writers(l) : w < i}
    BY <2>1, <1>1, <1>2
  <2> QED
    BY <2>2, <1>1 DEF LatestData
<1>4. TypeOK'
  BY <1>1 DEF TypeOK, Tasks, Locations, LastRegion
<1>5. DoneClosed'
  <2>1. Waits[cfg][i] = UNION {{j} \cup Waits[cfg][j] : j \in Program[cfg][i].deps}
    BY WaitsAssumption
  <2>2. Waits[cfg][i] \subseteq done
    BY <2>1 DEF DoneClosed
  <2> QED
    BY <2>2 DEF DoneClosed
<1>6. EarlierDone'
  BY DEF EarlierDone, Tasks
<1>7. LatestData'
  <2> SUFFICES ASSUME NEW l \in Locations(cfg)
               PROVE  IsLatest(data'[l], (done \cup {i}) \cap Writers(l))
    BY DEF LatestData, Writers, Locations, Tasks
  <2>1. DOMAIN data = Locations(cfg)
    BY DEF TypeOK
  <2>2. CASE l \in Program[cfg][i].wr
    <3>1. data'[l] = i
      BY <2>1, <2>2, <1>3
    <3>2. i \in Writers(l)
      BY <2>2 DEF Writers
    <3>3. \A w \in done \cap Writers(l) : w < i
      BY <2>2, <1>2, ConflictsInOrder DEF Conflict, Writers
    <3> QED
      BY <3>1, <3>2, <3>3, <1>1, <1>2 DEF IsLatest
  <2>3. CASE l \notin Program[cfg][i].wr
    <3>1. data'[l] = data[l] /\ i \notin Writers(l)
      BY <2>1, <2>3 DEF Writers
    <3>2. (done \cup {i}) \cap Writers(l) = done \cap Writers(l)
      BY <3>1
    <3> QED
      BY <3>1, <3>2 DEF LatestData
  <2> QED
    BY <2>2, <2>3
<1> QED
  BY <1>3, <1>4, <1>5, <1>6, <1>7

LEMMA BarrierIInv ==
    ASSUME cfg \in Configs, IInv, Barrier
    PROVE  IInv'
<1> USE DEF IInv, Barrier
<1>1. TypeOK'
  <2>1. region + 1 \in 1 .. LastRegion(cfg) + 1
    BY ProgramFacts DEF TypeOK
  <2>2. \A i \in done : Program[cfg][i].region <= region + 1
    BY ProgramFacts DEF TypeOK
  <2> QED
    BY <2>1, <2>2 DEF TypeOK, Tasks, Locations, LastRegion
<1>2. DoneClosed' /\ LatestData'
  BY DEF DoneClosed, LatestData, Writers, Locations, Tasks
<1>3. EarlierDone'
  <2> SUFFICES ASSUME NEW i \in Tasks(cfg), Program[cfg][i].region < region + 1
               PROVE  i \in done
    BY DEF EarlierDone, Tasks
  <2>1. Program[cfg][i].region < region \/ Program[cfg][i].region = region
    BY ProgramFacts DEF TypeOK
  <2> QED
    BY <2>1 DEF EarlierDone
<1> QED
  BY <1>1, <1>2, <1>3

LEMMA NextStepIInv ==
    ASSUME cfg \in Configs, IInv, NextStep
    PROVE  IInv'
<1> USE DEF IInv, NextStep
<1>1. TypeOK'
  BY ProgramFacts DEF TypeOK, Tasks, Locations, LastRegion
<1>2. DoneClosed'
  BY DEF DoneClosed
<1>3. EarlierDone'
  BY ProgramFacts DEF EarlierDone, Tasks
<1>4. LatestData'
  BY DEF LatestData, IsLatest, TypeOK, Writers, Locations, Tasks
<1> QED
  BY <1>1, <1>2, <1>3, <1>4

LEMMA StutterIInv == ASSUME IInv, UNCHANGED vars PROVE IInv'
  BY DEF IInv, vars, TypeOK, DoneClosed, EarlierDone, LatestData, IsLatest,
         Writers, Tasks, Locations, LastRegion

-----------------------------------------------------------------------------
\* IInv is inductive when every configuration's lists order conflicting tasks
LEMMA NextIInv ==
    ASSUME \A x \in Configs : Ordered(x), IInv, [Next]_vars
    PROVE  IInv'
<1>1. cfg \in Configs
  BY DEF IInv, TypeOK
<1>2. ASSUME NEW i \in Tasks(cfg), Run(i) PROVE IInv'
  BY <1>1, <1>2, RunIInv
<1>3. CASE Barrier
  BY <1>1, <1>3, BarrierIInv
<1>4. CASE NextStep
  BY <1>1, <1>4, NextStepIInv
<1>5. CASE UNCHANGED vars
  BY <1>5, StutterIInv
<1> QED
  BY <1>2, <1>3, <1>4, <1>5 DEF Next

(***************************************************************************)
(* No schedule ever lets a task of an ordered collection work on data      *)
(* other than those it has when the lists run as written.                  *)
(***************************************************************************)
THEOREM NoStaleDataHolds ==
    ASSUME \A x \in Configs : Ordered(x)
    PROVE  Spec => []NoStaleData
<1>1. Init => IInv
  BY InitIInv
<1>2. IInv /\ [Next]_vars => IInv'
  BY NextIInv
<1>3. IInv => NoStaleData
  <2> SUFFICES ASSUME IInv, NEW l \in Locations(cfg) PROVE data[l] # Stale
    BY DEF IInv, TypeOK, NoStaleData
  <2>1. IsLatest(data[l], done \cap Writers(l)) /\ cfg \in Configs
    BY DEF IInv, LatestData, TypeOK
  <2>2. data[l] \in Nat
    BY <2>1, ProgramFacts DEF IsLatest, Writers
  <2> QED
    BY <2>2 DEF Stale
<1> QED
  BY <1>1, <1>2, <1>3, PTL DEF Spec

(***************************************************************************)
(* Every region of an ordered collection, whatever the schedule, leaves    *)
(* what executing its lists from top to bottom leaves.                     *)
(***************************************************************************)
THEOREM StepsImplementSerialHolds ==
    ASSUME \A x \in Configs : Ordered(x)
    PROVE  Spec => StepsImplementSerial
<1>1. Init => IInv /\ Serial!Init
  BY InitIInv DEF Init, Serial!Init, Serial!Locations, Locations, Tasks
<1>2. IInv /\ [Next]_vars => IInv'
  BY NextIInv
<1>3. IInv /\ [Next]_vars => [Serial!Next]_(Serial!vars)
  <2> SUFFICES ASSUME IInv, [Next]_vars PROVE [Serial!Next]_(Serial!vars)
    OBVIOUS
  <2>0. cfg \in Configs /\ TypeOK /\ Serial!LastRegion = LastRegion(cfg)
        /\ Serial!Locations = Locations(cfg)
    BY DEF IInv, TypeOK, Serial!LastRegion, LastRegion, Serial!Locations, Locations, Tasks
  <2>1. ASSUME NEW i \in Tasks(cfg), Run(i) PROVE UNCHANGED Serial!vars
    BY <2>1 DEF Run, Serial!vars
  <2>2. CASE Barrier
    <3>1. ASSUME NEW l \in Locations(cfg) PROVE data[l] = Serial!After(region, l)
      <4> DEFINE W == {w \in DOMAIN Program[cfg] : Program[cfg][w].region <= region
                                                    /\ l \in Program[cfg][w].wr}
      <4>1. done = {i \in Tasks(cfg) : Program[cfg][i].region <= region}
        BY <2>0, <2>2, ProgramFacts DEF Barrier, IInv, EarlierDone, TypeOK
      <4>2. W = done \cap Writers(l)
        BY <4>1 DEF Writers, Tasks
      <4>3. IsLatest(data[l], W)
        BY <4>2 DEF IInv, LatestData
      <4>4. W \subseteq Nat
        BY <2>0, ProgramFacts DEF Tasks
      <4>5. W # {} => data[l] = CHOOSE w \in W : \A x \in W : x <= w
        BY <4>3, <4>4 DEF IsLatest
      <4> QED
        BY <4>3, <4>5 DEF IsLatest, Serial!After
    <3>2. entry' = [l \in Locations(cfg) |-> Serial!After(region, l)]
      BY <2>0, <2>2, <3>1 DEF Barrier, TypeOK
    <3> QED
      BY <2>0, <2>2, <3>2 DEF Barrier, Serial!Next, Serial!RunRegion
  <2>3. CASE NextStep
    BY <2>0, <2>3 DEF NextStep, TypeOK, Serial!Next, Serial!NextStep
  <2>4. CASE UNCHANGED vars
    BY <2>4 DEF vars, Serial!vars
  <2> QED
    BY <2>1, <2>2, <2>3, <2>4 DEF Next
<1> QED
  BY <1>1, <1>2, <1>3, PTL DEF Spec, StepsImplementSerial

-----------------------------------------------------------------------------
(***************************************************************************)
(* What the comments promise of a step holds in every schedule if it holds *)
(* of the lists, read from top to bottom.                                  *)
(***************************************************************************)
\* What a task that runs finds in the data it touches is what was listed to fill them
LEMMA FillersFound ==
    ASSUME cfg \in Configs, Ordered(cfg), IInv, NEW i \in Tasks(cfg), Run(i),
           NEW l \in Program[cfg][i].rd \cup Program[cfg][i].wr
    PROVE  Producer(l) = Filler(cfg, l, i)
<1>1. /\ i \in Nat \ {0} /\ Tasks(cfg) \subseteq Nat \ {0} /\ l \in Locations(cfg)
      /\ Tasks(cfg) = DOMAIN Program[cfg]
  BY ProgramFacts DEF Tasks
<1>2. Writers(l) \subseteq Tasks(cfg)
  BY DEF Writers
<1>3. /\ i \notin done /\ Program[cfg][i].region = region /\ Program[cfg][i].deps \subseteq done
  BY DEF Run
<1>4. \A w \in Writers(l) : w # i => (w \in done <=> w < i)
  BY <1>2, <1>3, ConflictsInOrder DEF Conflict, Writers
<1>5. done \cap Writers(l) = {w \in Writers(l) : w < i}
  BY <1>1, <1>2, <1>3, <1>4
<1> DEFINE W == {w \in Writers(l) : w < i}
<1>6. IsLatest(data[l], W) /\ l \in DOMAIN data
  BY <1>1, <1>5 DEF IInv, LatestData, TypeOK
<1>7. W \subseteq Nat \ {0} /\ Filler(cfg, l, i) = {w \in W : \A x \in W : x <= w}
  BY <1>1, <1>2 DEF Filler, Writers
<1> HIDE DEF W
<1>8. CASE W = {}
  BY <1>6, <1>7, <1>8 DEF IsLatest, Producer
<1>9. CASE W # {}
  <2>1. data[l] \in W /\ \A w \in W : w <= data[l]
    BY <1>6, <1>9 DEF IsLatest
  <2>2. PICK v \in Nat \ {0} : v = data[l]
    BY <1>7, <2>1
  <2>3. \A w \in W : (\A x \in W : x <= w) <=> w = v
    <3>1. \A w \in W : w <= v /\ w \in Nat
      BY <1>7, <2>1, <2>2
    <3>2. \A w \in W : v <= w => w = v
      BY <3>1, <2>2
    <3> QED
      BY <2>1, <2>2, <3>1, <3>2
  <2>4. Filler(cfg, l, i) = {v}
    BY <1>7, <2>1, <2>2, <2>3
  <2>5. Producer(l) = {v}
    BY <1>6, <2>2 DEF Producer
  <2> QED
    BY <2>4, <2>5
<1> QED
  BY <1>8, <1>9

\* A step that completes a task runs it
LEMMA RunsAlone ==
    ASSUME IInv, [Next]_vars, NEW i, Runs(i)
    PROVE  i \in Tasks(cfg) /\ Run(i)
<1>1. PICK k \in Tasks(cfg) : Run(k)
  BY DEF Runs, Next, Barrier, NextStep, vars
<1>2. i = k
  BY <1>1 DEF Runs, Run
<1> QED
  BY <1>1, <1>2

(***************************************************************************)
(* Whatever the schedule, electron heating finds the advected entropy and  *)
(* the conserved entropy follows the sources, if tasks that conflict are   *)
(* ordered and heating, entropy update and PtoU are listed in that order.  *)
(***************************************************************************)
THEOREM EntropyAlwaysInOrder ==
    ASSUME \A x \in Configs : Ordered(x) /\ EntropyRead(x)
    PROVE  Spec => EntropyInOrder
<1>1. Spec => []IInv
  <2>1. IInv /\ [Next]_vars => IInv'
    BY NextIInv
  <2> QED
    BY <2>1, InitIInv, PTL DEF Spec
<1>2. ASSUME IInv, [Next]_vars, NEW i \in Tasks(cfg), Runs(i), Name(i) = "ElectronHeating",
             NEW l \in Program[cfg][i].wr, NEW w \in Producer(l)
      PROVE  Name(w) # "Entropy"
  <2>1. cfg \in Configs /\ Run(i)
    BY <1>2, RunsAlone DEF IInv, TypeOK
  <2>2. w \in Filler(cfg, l, i)
    BY <1>2, <2>1, FillersFound
  <2>3. i \in Called(cfg, "ElectronHeating") /\ w \in DOMAIN Program[cfg]
    BY <1>2, <2>2 DEF Called, Name, Tasks, Filler
  <2>4. w \notin Called(cfg, "Entropy")
    BY <2>1, <2>2, <2>3 DEF EntropyRead, HeatingListed
  <2> QED
    BY <2>3, <2>4 DEF Called, Name
<1>3. ASSUME IInv, [Next]_vars, NEW i \in Tasks(cfg), Runs(i), Name(i) = "PtoU", TracksEntropy,
             NEW l \in Program[cfg][i].rd, NEW w \in Producer(l), Name(w) = "PrimSource"
      PROVE  \E e \in Producer(<<l[1], "PK">>) : e > w /\ Name(e) = "Entropy"
  <2>1. cfg \in Configs /\ Run(i)
    BY <1>3, RunsAlone DEF IInv, TypeOK
  <2>2. w \in Filler(cfg, l, i)
    BY <1>3, <2>1, FillersFound
  <2>3. /\ i \in Called(cfg, "PtoU") /\ w \in Called(cfg, "PrimSource")
        /\ Called(cfg, "Entropy") # {}
    BY <1>3, <2>2 DEF Called, Name, Tasks, Filler, TracksEntropy
  <2>4. /\ <<l[1], "PK">> \in Program[cfg][i].rd
        /\ \E e \in Filler(cfg, <<l[1], "PK">>, i) \cap Called(cfg, "Entropy") : e > w
    BY <1>3, <2>1, <2>2, <2>3 DEF EntropyRead, EntropyListed
  <2>5. Producer(<<l[1], "PK">>) = Filler(cfg, <<l[1], "PK">>, i)
    BY <1>3, <2>1, <2>4, FillersFound
  <2> QED
    BY <2>4, <2>5 DEF Called, Name
<1>4. IInv /\ [Next]_vars => [\A i \in Tasks(cfg) : (Runs(i) /\ Name(i) = "ElectronHeating") =>
         \A l \in Program[cfg][i].wr : \A w \in Producer(l) : Name(w) # "Entropy"]_vars
  BY <1>2
<1>5. IInv /\ [Next]_vars => [\A i \in Tasks(cfg) : (Runs(i) /\ Name(i) = "PtoU" /\ TracksEntropy) =>
         \A l \in Program[cfg][i].rd : \A w \in Producer(l) :
             Name(w) = "PrimSource" =>
                \E e \in Producer(<<l[1], "PK">>) : e > w /\ Name(e) = "Entropy"]_vars
  BY <1>3
<1> QED
  BY <1>1, <1>4, <1>5, PTL
     DEF Spec, EntropyInOrder, HeatingUsesAdvectedEntropy, EntropyFollowsSources

(***************************************************************************)
(* Whatever the schedule, nothing but an exchange changes what a step's    *)
(* last PtoU has worked from, and operations on conserved variables come   *)
(* before their inversion, if tasks that conflict are ordered and the      *)
(* lists have them in that order.                                          *)
(***************************************************************************)
THEOREM FormsAlwaysInOrder ==
    ASSUME \A x \in Configs : Ordered(x) /\ FormsRead(x)
    PROVE  Spec => FormsInOrder
<1>1. Spec => []IInv
  <2>1. IInv /\ [Next]_vars => IInv'
    BY NextIInv
  <2> QED
    BY <2>1, InitIInv, PTL DEF Spec
<1>2. ASSUME IInv, [Next]_vars, NEW w \in Tasks(cfg), Runs(w),
             Name(w) \notin {"Exchange", "BlockUtoP"},
             NEW i \in done \cap Named("PtoU"), \A j \in Named("PtoU") : j <= i
      PROVE  Program[cfg][w].wr \cap Program[cfg][i].rd = {}
  <2>1. cfg \in Configs /\ Run(w) /\ i \in Tasks(cfg) /\ i # w
    BY <1>2, RunsAlone DEF IInv, TypeOK, Named, Run
  <2>2. SUFFICES ASSUME Program[cfg][w].wr \cap Program[cfg][i].rd # {} PROVE FALSE
    OBVIOUS
  <2>3. i < w
    <3>1. Conflict(cfg, w, i)
      BY <2>2 DEF Conflict
    <3>2. i \in done <=> i < w
      BY <1>2, <2>1, <3>1, ConflictsInOrder DEF Run
    <3> QED
      BY <1>2, <3>2
  <2>4. /\ i \in Called(cfg, "PtoU") /\ \A j \in Called(cfg, "PtoU") : j <= i
        /\ w \in DOMAIN Program[cfg] \ (Called(cfg, "Exchange") \cup Called(cfg, "BlockUtoP"))
    BY <1>2 DEF Called, Named, Name, Tasks
  <2>5. i \in Nat /\ w \in Nat
    BY <2>1, ProgramFacts
  <2>6. Program[cfg][w].wr \cap Program[cfg][i].rd = {}
    BY <2>1, <2>3, <2>4, <2>5 DEF FormsRead, PtoUListedLast
  <2> QED
    BY <2>2, <2>6
<1>3. ASSUME IInv, [Next]_vars, NEW i \in Tasks(cfg), Runs(i), Name(i) = "UtoP",
             NEW j \in Tasks(cfg), InRegionOf(i, j), Caller(j) = Caller(i),
             Name(j) \in {"ReconnectB3", "B_CT::DerefinePoles", "ISMR::DerefinePoles"}
      PROVE  j \in done
  <2>1. cfg \in Configs /\ Run(i)
    BY <1>3, RunsAlone DEF IInv, TypeOK
  <2>2. j < i /\ Conflict(cfg, j, i)
    BY <1>3, <2>1 DEF FormsRead, OperationsListedFirst, Called, Name, Caller, InRegionOf, Tasks
  <2>3. j # i
    BY <2>1, <2>2, ProgramFacts
  <2> QED
    BY <1>3, <2>1, <2>2, <2>3, ConflictsInOrder DEF Run
<1>4. IInv /\ [Next]_vars =>
        [\A w \in Tasks(cfg) : (Runs(w) /\ Name(w) \notin {"Exchange", "BlockUtoP"}) =>
         \A i \in done \cap Named("PtoU") :
            (\A j \in Named("PtoU") : j <= i)
            => Program[cfg][w].wr \cap Program[cfg][i].rd = {}]_vars
  BY <1>2
<1>5. IInv /\ [Next]_vars =>
        [\A i \in Tasks(cfg) : (Runs(i) /\ Name(i) = "UtoP") =>
         \A j \in Tasks(cfg) :
            (/\ InRegionOf(i, j)
             /\ Caller(j) = Caller(i)
             /\ Name(j) \in {"ReconnectB3", "B_CT::DerefinePoles", "ISMR::DerefinePoles"})
            => j \in done]_vars
  BY <1>3
<1> QED
  BY <1>1, <1>4, <1>5, PTL
     DEF Spec, FormsInOrder, ConservedMatchAtStepEnd, LocalOperationsBeforeInversion
=============================================================================
