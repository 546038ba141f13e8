--------------------------- MODULE StepProperties ---------------------------
(***************************************************************************)
(* What KHARMA's comments promise of the order of a step's tasks, stated   *)
(* of every execution of the collections a driver builds.                  *)
(***************************************************************************)
EXTENDS TaskCollection, KHARMADriver

Name(i) == Program[cfg][i].id[2]
Caller(i) == Program[cfg][i].id[1]
InRegionOf(i, j) == Program[cfg][i].region = Program[cfg][j].region

Named(name) == {i \in Tasks(cfg) : Name(i) = name}

\* The task that filled l, if a task of this step did
Producer(l) == IF l \in DOMAIN data /\ data[l] > 0 THEN {data[l]} ELSE {}

\* The Entropy package is loaded
TracksEntropy == \E i \in Tasks(cfg) : Name(i) = "Entropy"

\* Task i runs in this step of the execution
Runs(i) == i \in done' \ done

-----------------------------------------------------------------------------
(***************************************************************************)
(* Electron heating works from the merely advected entropy: when it runs,  *)
(* the passive primitives it updates were not yet rewritten by the entropy *)
(* update ("must run *after* electron heating, which still needs to read   *)
(* the pre-update value of Ktot to calculate dissipation").                *)
(***************************************************************************)
HeatingUsesAdvectedEntropy ==
    [][\A i \in Tasks(cfg) : (Runs(i) /\ Name(i) = "ElectronHeating") =>
         \A l \in Program[cfg][i].wr : \A w \in Producer(l) : Name(w) # "Entropy"]_vars

(***************************************************************************)
(* The entropy a half-step of sources leaves behind is the post-source     *)
(* one: whenever conserved fields are recomputed, no source has changed    *)
(* the fluid since its entropy was ("Ktot has to follow the sources").     *)
(***************************************************************************)
EntropyFollowsSources ==
    [][\A i \in Tasks(cfg) : (Runs(i) /\ Name(i) = "PtoU" /\ TracksEntropy) =>
         \A l \in Program[cfg][i].rd : \A w \in Producer(l) :
             Name(w) = "PrimSource" =>
                \E e \in Producer(<<l[1], "PK">>) : e > w /\ Name(e) = "Entropy"]_vars

(***************************************************************************)
(* Both: dissipation is found from the entropy transport left, and what    *)
(* the next transport carries is the entropy sources left.                 *)
(***************************************************************************)
EntropyInOrder == HeatingUsesAdvectedEntropy /\ EntropyFollowsSources

(***************************************************************************)
(* "Make sure *all* conserved vars are synchronized at step end": once a   *)
(* step's last PtoU has run, nothing changes the primitives and fields it  *)
(* worked from, save ghost exchanges (which bring in a neighbor's pair).   *)
(***************************************************************************)
ConservedMatchAtStepEnd ==
    [][\A w \in Tasks(cfg) : (Runs(w) /\ Name(w) \notin {"Exchange", "BlockUtoP"}) =>
         \A i \in done \cap Named("PtoU") :
            (\A j \in Named("PtoU") : j <= i)
            => Program[cfg][w].wr \cap Program[cfg][i].rd = {}]_vars

(***************************************************************************)
(* "Reconnect then derefine, the local operations on U" come before the    *)
(* primitives of the same container are recovered from it.                 *)
(***************************************************************************)
LocalOperationsBeforeInversion ==
    [][\A i \in Tasks(cfg) : (Runs(i) /\ Name(i) = "UtoP") =>
         \A j \in Tasks(cfg) :
            (/\ InRegionOf(i, j)
             /\ Caller(j) = Caller(i)
             /\ Name(j) \in {"ReconnectB3", "B_CT::DerefinePoles", "ISMR::DerefinePoles"})
            => j \in done]_vars

(***************************************************************************)
(* Both: the two forms of the state are brought into line after the last   *)
(* change of either.                                                       *)
(***************************************************************************)
FormsInOrder == ConservedMatchAtStepEnd /\ LocalOperationsBeforeInversion

-----------------------------------------------------------------------------
(***************************************************************************)
(* What both ask of the lists themselves, read from top to bottom.         *)
(***************************************************************************)
Called(c, name) == {i \in DOMAIN Program[c] : Program[c][i].id[2] = name}

\* The last task listed before i that fills l, if any
Filler(c, l, i) ==
    LET before == {w \in DOMAIN Program[c] : w < i /\ l \in Program[c][w].wr}
    IN  {w \in before : \A x \in before : x <= w}

\* Heating is listed before the entropy update of what it rewrites
HeatingListed(c) ==
    \A i \in Called(c, "ElectronHeating") : \A l \in Program[c][i].wr :
        Filler(c, l, i) \cap Called(c, "Entropy") = {}

\* PtoU takes passive primitives too, and an entropy update is listed after the sources
EntropyListed(c) ==
    Called(c, "Entropy") # {} =>
        \A i \in Called(c, "PtoU") : \A l \in Program[c][i].rd :
            \A w \in Filler(c, l, i) \cap Called(c, "PrimSource") :
                /\ <<l[1], "PK">> \in Program[c][i].rd
                /\ \E e \in Filler(c, <<l[1], "PK">>, i) \cap Called(c, "Entropy") : e > w

\* Nothing listed after the last PtoU changes what it works from
PtoUListedLast(c) ==
    \A i \in Called(c, "PtoU") : (\A j \in Called(c, "PtoU") : j <= i) =>
        \A w \in DOMAIN Program[c] \ (Called(c, "Exchange") \cup Called(c, "BlockUtoP")) :
            w > i => Program[c][w].wr \cap Program[c][i].rd = {}

\* Local operations are listed before the inversion, and touch what it inverts
OperationsListedFirst(c) ==
    \A i \in Called(c, "UtoP"), j \in DOMAIN Program[c] :
        (/\ Program[c][i].region = Program[c][j].region
         /\ Program[c][j].id[1] = Program[c][i].id[1]
         /\ Program[c][j].id[2] \in {"ReconnectB3", "B_CT::DerefinePoles", "ISMR::DerefinePoles"})
        => j < i /\ Conflict(c, j, i)

EntropyRead(c) == HeatingListed(c) /\ EntropyListed(c)
FormsRead(c) == PtoUListedLast(c) /\ OperationsListedFirst(c)

(***************************************************************************)
(* The conditions under which NoStaleData, EntropyInOrder and FormsInOrder *)
(* are proved for any lists, met by those a driver hands over at the start *)
(* of a step: tasks that conflict wait for each other in the order they    *)
(* are listed in, and in that order they do what the comments promise.     *)
(***************************************************************************)
ListsOrdered == done = {} => Ordered(cfg) /\ EntropyRead(cfg) /\ FormsRead(cfg)
=============================================================================
