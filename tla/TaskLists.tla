------------------------------ MODULE TaskLists ------------------------------
(***************************************************************************)
(* The vocabulary in which KHARMA's drivers write down a step: a task      *)
(* collection is a sequence of regions, a region (one partition of the     *)
(* mesh, the usual case) is a list of tasks in the order of their AddTask  *)
(* calls, and a task names the tasks it waits for and the data it reads    *)
(* and writes.                                                             *)
(*                                                                         *)
(* A TaskID is the set of tasks one waits for by depending on it: t_none   *)
(* is empty, and the code's t_a | t_b is the union.  Data are locations    *)
(* <<container, group of fields>>; a task that writes only some zones or   *)
(* fields of a group also reads the group, since the rest is kept.         *)
(***************************************************************************)
EXTENDS Integers, Sequences
LOCAL INSTANCE SequencesExt
LOCAL INSTANCE TLC

t_none == {}

\* tl.AddTask(after, ...) of a task called id
Task(id, after, reads, writes) ==
    [id |-> id, after |-> after, rd |-> reads, wr |-> writes]

\* The named groups of fields of one MeshData container
Of(md, groups) == {md} \X groups

\* OneCopy fields: "Flags are shared between all containers!"
Shared(groups) == Of("shared", groups)

\* The tasks a driver adds only under a condition ...
When(use, tasks) == IF use THEN tasks ELSE <<>>

\* Mutant: an optional task is added but never waited for
NeverAwaited(use, id, prev) == prev

\* ... and the idiom "auto t_x = t_prev; if (use) t_x = AddTask(...)"
IfUsed(use, id, prev) == IF use THEN {id} ELSE prev

\* A bundle of tasks added by a helper, with the TaskID the helper returns
Bundle(tasks, t) == [tasks |-> tasks, t |-> t]

\* The regions of all stages, in order; those without tasks are never added
Regions(stages) == SelectSeq(FlattenSeq(stages), LAMBDA tasks : tasks # <<>>)

(***************************************************************************)
(* The collection as the executor sees it: every task with its region and  *)
(* the indices of the tasks of that region it waits for.                   *)
(***************************************************************************)
Compile(regions) ==
    LET Placed(r) == [k \in DOMAIN regions[r] |-> <<r, regions[r][k]>>]
        tasks == FlattenSeq([r \in DOMAIN regions |-> Placed(r)])
        Region(i) == tasks[i][1]
        Added(i) == tasks[i][2]
        Deps(i) == {j \in DOMAIN tasks : Region(j) = Region(i) /\ Added(j).id \in Added(i).after}
    IN  [i \in DOMAIN tasks |->
            [id |-> Added(i).id, region |-> Region(i), deps |-> Deps(i),
             rd |-> Added(i).rd, wr |-> Added(i).wr]]

\* For every task of a compiled program, all it waits for, directly or not.
\* Dependencies point backwards in a list, so one pass from the front does it.
AllWaits(program) ==
    FoldLeft(LAMBDA waits, task :
                Append(waits, UNION {{j} \cup waits[j] : j \in task.deps}),
             <<>>, program)

\* The options, of a list of them, that configuration number n switches on:
\* its binary digits
Selected(options, n) ==
    {options[k] : k \in {k \in DOMAIN options : (n \div 2 ^ (k - 1)) % 2 = 1}}

\* The configuration c with these options on
Enable(c, on) == [f \in DOMAIN c |-> IF f \in on THEN TRUE ELSE c[f]]

\* f itself: TLC evaluates a merged function once, not at every application
Tabulated(f) == f @@ <<>>
==============================================================================
