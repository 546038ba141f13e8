---------------------------- MODULE SerialDriver ----------------------------
(***************************************************************************)
(* What the authors of a task collection may rely on: a step is its        *)
(* regions, one after the other, each executed as a whole and each task in *)
(* it in the order the driver wrote it.  Only the state between regions is *)
(* visible.  A location then holds the output of the last task, in that    *)
(* order, that writes it.                                                  *)
(***************************************************************************)
EXTENDS Integers, Sequences

CONSTANTS Configs, Program

VARIABLES cfg, region, state
vars == <<cfg, region, state>>

LastRegion == Program[cfg][Len(Program[cfg])].region
Locations == UNION {Program[cfg][i].rd \cup Program[cfg][i].wr : i \in DOMAIN Program[cfg]}

\* The contents of l after the first n regions
After(n, l) ==
    LET writers == {w \in DOMAIN Program[cfg] : /\ Program[cfg][w].region <= n
                                                /\ l \in Program[cfg][w].wr}
    IN  IF writers = {} THEN 0
        ELSE CHOOSE w \in writers : \A x \in writers : x <= w

Init ==
    /\ cfg \in Configs
    /\ region = 1
    /\ state = [l \in Locations |-> 0]

RunRegion ==
    /\ region <= LastRegion
    /\ region' = region + 1
    /\ state' = [l \in Locations |-> After(region, l)]
    /\ UNCHANGED cfg

NextStep ==
    /\ region = LastRegion + 1
    /\ region' = 1
    /\ state' = [l \in Locations |-> 0]
    /\ UNCHANGED cfg

Next == RunRegion \/ NextStep

\* Every region, and so every step, completes
Spec == Init /\ [][Next]_vars /\ WF_vars(Next)
==============================================================================
