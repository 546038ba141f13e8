-------------------------- MODULE MCInversionFixes --------------------------
(* Fixes: two blocks of three columns and two rows.  Troubles sit around the cut,   *)
(* which runs between columns 3 and 4; block 1 stores columns 0 to 5, block  *)
(* 2 columns 2 to 7, so a failure in column 5 (or 2) lies in the outermost   *)
(* shared ghosts of one of them.                                             *)
EXTENDS InversionFixes, ZoneFloors

Trouble(f, r) == [fail |-> f, rescue |-> r]

None == Trouble({}, {})
Across == Trouble({<<3, 1>>, <<4, 1>>}, {})
Lifted == Trouble({<<3, 1>>, <<4, 2>>}, {<<4, 2>>})
Outermost == Trouble({<<5, 1>>, <<5, 2>>}, {})
Corner == Trouble((1 .. 2) \X (1 .. 2), {})
Column == Trouble((3 .. 4) \X (1 .. 2), {<<4, 2>>})

(* Failures next to the cut, diagonal to it, where one block lacks the       *)
(* neighbors, with no good neighbor at all, and in successive sub-steps.     *)
MCHistories == {
    <<Across, Lifted>>, <<Lifted, Across>>, <<Outermost, Across>>, <<Outermost, None>>,
    <<Corner>>, <<None, Column>>, <<Trouble({<<2, 2>>, <<3, 1>>}, {<<2, 2>>}), Outermost>> }

Kharma(s) == [driver |-> "kharma", scheme |-> s]
ImEx(s) == [driver |-> "imex", scheme |-> s]

MCDecks == {Kharma("average"), Kharma("atmosphere"), Kharma("backstop"),
            ImEx("average"), ImEx("solve")}

(* The imex driver with the default inverter and a magnetic field. *)
MCBackstopDecks == {ImEx("backstop")}

-----------------------------------------------------------------------------
(* Floors of one zone: every frame parameter files may ask for, limits that  *)
(* never bind, that all do, and pairs of them; states an inversion may find, *)
(* some of them too low and some too hot or too fast; fields of none, along  *)
(* and across the velocity; near the horizon and far from it.                *)
MCFrames ==
    {[frame |-> f, inverter |-> "kastaun", enough_e |-> TRUE] :
        f \in {"normal", "fluid", "mixed", "mixed_normal_drift", "drift"}}
    \cup {[frame |-> "normal", inverter |-> "kastaun", enough_e |-> FALSE],
          [frame |-> "normal", inverter |-> "onedw", enough_e |-> TRUE]}

Huge == 1000
Lax ==
    [rho_min_geom |-> 8, rho_min_const |-> 1, u_min_geom |-> 2, u_min_const |-> 1,
     use_r_char |-> FALSE, bsq_over_rho_max |-> Huge, bsq_over_u_max |-> Huge,
     u_over_rho_max |-> Huge, ktot_max |-> Huge, gamma_max |-> Huge,
     temp_adjust_u |-> FALSE, use_u_min_entropy |-> FALSE]
All ==
    [Lax EXCEPT !.bsq_over_rho_max = 2, !.bsq_over_u_max = 2, !.u_over_rho_max = 1,
                !.ktot_max = 1, !.gamma_max = 2]
MCPrescriptions ==
    {Lax, [Lax EXCEPT !.use_r_char = TRUE], [Lax EXCEPT !.use_u_min_entropy = TRUE],
     [Lax EXCEPT !.u_over_rho_max = 1, !.bsq_over_u_max = 2],
     [Lax EXCEPT !.gamma_max = 2, !.bsq_over_rho_max = 2],
     All, [All EXCEPT !.temp_adjust_u = TRUE], [All EXCEPT !.use_u_min_entropy = TRUE]}
MCZoneStates == [rho : {0, 1, 12}, u : {0, 1, 20}, gamma : {1, 4}]
MCFields == [strength : {32}, across : BOOLEAN] \cup {[strength |-> 0, across |-> FALSE]}

VARIABLE subject    \* what a behavior is of; the other rests in an initial state

TroubleInit ==
    /\ subject \in {"fixes", "floors"}
    /\ setup \in (IF subject = "floors" THEN Setups ELSE {CHOOSE s \in Setups : TRUE})
    /\ P \in (IF subject = "floors" THEN ZoneStates ELSE {CHOOSE s \in ZoneStates : TRUE})
    /\ Unfloored
    /\ IF subject = "fixes" THEN Init
       ELSE Init /\ deck = (CHOOSE d \in Decks : TRUE) /\ history = (CHOOSE h \in Histories : TRUE)

TroubleNext ==
    \/ subject = "fixes" /\ Next /\ UNCHANGED <<subject, floorVars>>
    \/ subject = "floors" /\ FloorNext /\ UNCHANGED <<subject, vars>>

TroubleSpec == TroubleInit /\ [][TroubleNext]_<<subject, vars, floorVars>>
=============================================================================
