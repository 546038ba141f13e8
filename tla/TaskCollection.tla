--------------------------- MODULE TaskCollection ---------------------------
(***************************************************************************)
(* Executing the task collections of a step (Parthenon's executor, as the  *)
(* drivers in driver/ use it): regions run serially; within a region any   *)
(* task whose dependencies are complete may run next ("individual tasks in *)
(* a TaskList may also be run concurrently at some point, if their         *)
(* dependencies allow", simple_step.cpp).  Which order is taken depends on *)
(* message arrival and threads, so it is arbitrary here.                   *)
(*                                                                         *)
(* data[l] records who produced the contents of location l: 0 stands for   *)
(* the contents at the start of the step, k for the output of task k       *)
(* computed from exactly the inputs it has when the lists are read from    *)
(* top to bottom, Stale for the output of a task that read anything else.  *)
(***************************************************************************)
EXTENDS Integers, Sequences

CONSTANTS
    Configs,    \* the selections of packages and options considered
    Program,    \* for each of them, the compiled tasks of a whole step
    Waits       \* and for each task all the tasks it transitively waits for

Tasks(c) == DOMAIN Program[c]
Locations(c) == UNION {Program[c][i].rd \cup Program[c][i].wr : i \in Tasks(c)}
LastRegion(c) == Program[c][Len(Program[c])].region

ASSUME ProgramAssumption ==
    \A c \in Configs :
        /\ Len(Program[c]) \in Nat \ {0}
        /\ DOMAIN Program[c] = 1 .. Len(Program[c])
        /\ \A i \in Tasks(c) :
              /\ Program[c][i].region \in Nat \ {0}
              /\ Program[c][i].region <= LastRegion(c)
              /\ \A j \in Tasks(c) : j < i => Program[c][j].region <= Program[c][i].region
              /\ Program[c][i].deps \subseteq
                    {j \in Tasks(c) : Program[c][j].region = Program[c][i].region}

ASSUME WaitsAssumption ==
    \A c \in Configs : \A i \in Tasks(c) :
        Waits[c][i] = UNION {{j} \cup Waits[c][j] : j \in Program[c][i].deps}

VARIABLES
    cfg,        \* the configuration of this run of the program
    region,     \* the region being executed
    done,       \* the tasks of this step completed so far
    data,       \* the provenance of each location's contents
    entry       \* data as they were when the region was entered
vars == <<cfg, region, done, data, entry>>

Stale == -1

Writers(l) == {w \in Tasks(cfg) : l \in Program[cfg][w].wr}

\* v is what a location holds once exactly the given writers have run in order
IsLatest(v, writers) ==
    IF writers = {} THEN v = 0 ELSE v \in writers /\ \A w \in writers : w <= v

\* Task i finds in every location it reads what program order puts there
SerialInputs(i) ==
    \A l \in Program[cfg][i].rd : IsLatest(data[l], {w \in Writers(l) : w < i})

-----------------------------------------------------------------------------
Init ==
    /\ cfg \in Configs
    /\ region = 1
    /\ done = {}
    /\ data = [l \in Locations(cfg) |-> 0]
    /\ entry = data

Run(i) ==
    /\ i \notin done
    /\ Program[cfg][i].region = region
    /\ Program[cfg][i].deps \subseteq done
    /\ done' = done \cup {i}
    /\ data' = [l \in DOMAIN data |->
                  IF l \notin Program[cfg][i].wr THEN data[l]
                  ELSE IF SerialInputs(i) THEN i ELSE Stale]
    /\ UNCHANGED <<cfg, region, entry>>

\* Mutant: a region is taken to be over when the last task added to it is
LastTaskEndsRegion ==
    /\ region <= LastRegion(cfg)
    /\ \E i \in done : /\ Program[cfg][i].region = region
                      /\ \A j \in Tasks(cfg) : Program[cfg][j].region = region => j <= i
    /\ region' = region + 1
    /\ entry' = data
    /\ UNCHANGED <<cfg, done, data>>

\* The end of a region: every task of it is complete
Barrier ==
    /\ region <= LastRegion(cfg)
    /\ \A i \in Tasks(cfg) : Program[cfg][i].region = region => i \in done
    /\ region' = region + 1
    /\ entry' = data
    /\ UNCHANGED <<cfg, done, data>>

\* The step is over and the next one begins
NextStep ==
    /\ region = LastRegion(cfg) + 1
    /\ region' = 1
    /\ done' = {}
    /\ data' = [l \in DOMAIN data |-> 0]
    /\ entry' = data'
    /\ UNCHANGED cfg

Next == (\E i \in Tasks(cfg) : Run(i)) \/ Barrier \/ NextStep

\* The executor polls the lists until the collection is complete
Spec == Init /\ [][Next]_vars /\ WF_vars(Next)

-----------------------------------------------------------------------------
TypeOK ==
    /\ cfg \in Configs
    /\ region \in 1 .. LastRegion(cfg) + 1
    /\ done \subseteq {i \in Tasks(cfg) : Program[cfg][i].region <= region}
    /\ data \in [Locations(cfg) -> Tasks(cfg) \cup {0, Stale}]
    /\ entry \in [Locations(cfg) -> Tasks(cfg) \cup {0, Stale}]

(***************************************************************************)
(* No task ever works on data other than those it has when the lists are   *)
(* executed as they are written: the TaskIDs passed to AddTask order every *)
(* pair of tasks that touch the same fields, whatever the schedule.        *)
(***************************************************************************)
NoStaleData == \A l \in DOMAIN data : data[l] # Stale

\* Two tasks that touch the same data, one of them changing it
Conflict(c, i, j) ==
    \/ Program[c][i].wr \cap (Program[c][j].rd \cup Program[c][j].wr) # {}
    \/ Program[c][i].rd \cap Program[c][j].wr # {}

\* Of two tasks that conflict, the later one waits for the earlier, if only through others
Ordered(c) ==
    \A i, j \in Tasks(c) :
        (i < j /\ Conflict(c, i, j)) =>
            \/ Program[c][i].region < Program[c][j].region
            \/ i \in Waits[c][j]

\* A step of this executor is a step of the serial driver
Serial == INSTANCE SerialDriver WITH state <- entry
ImplementsSerial == Serial!Spec

\* ... whether or not the tasks keep being run
StepsImplementSerial == Serial!Init /\ [][Serial!Next]_(Serial!vars)
==============================================================================
