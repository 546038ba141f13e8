-------------------------- MODULE Startup_proofs ---------------------------
(***************************************************************************)
(* Loading, starting and restarting, for every set of parameters there is, *)
(* any number of steps and crashes.                                        *)
(*                                                                         *)
(* The first part follows the parameters: whatever packages and restart    *)
(* files add to them, what was asked for stays, and so does what was       *)
(* decided from it.                                                        *)
(***************************************************************************)
EXTENDS Startup, TLAPS

\* Options that are given values, or others, after a deck is read
Changing ==
    {"driver", "implicit", "fofc", "b_cleanup", "entropy", "problem", "ismr", "ismr_nlevels",
     "reinitialize"}

\* p has come from the deck
Follows(p) ==
    /\ Assigns(p)
    /\ \A o \in Options \ Changing : p[o] = deck[o]
    /\ DriverType(p) = DriverType(deck)
    /\ Get(p, "implicit", p.emhd) = Get(deck, "implicit", deck.emhd)
    /\ \/ p.problem = deck.problem
       \/ deck.problem = "resize_restart" /\ p.problem = "resized_restart"

\* ... and its defaults are set
Settled(p) ==
    /\ p.implicit = Get(deck, "implicit", deck.emhd)
    /\ p.entropy # "unset" /\ p.b_cleanup \in {"on", "off"}
    /\ On(p, "electrons") => On(p, "entropy")
    /\ On(p, "initial_cleanup") => On(p, "b_cleanup")
    /\ p.problem = "resize_restart" /\ ~On(p, "skip_b_cleanup") => On(p, "b_cleanup")
    /\ ~Refused(p)

Finals == {"Implicit", "Floors", "Flux", "ISMR", "Boundaries"}
Up == {"exchange", "seed", "restore", "settle", "clean", "electrons", "finish", "timestep",
       "looping"}
Stages == {"parameters", "listing", "loading", "loaded", "refused"} \cup Finals \cup Up

-----------------------------------------------------------------------------
LEMMA FinalsAre ==
    /\ Len(FinalPackages) = 5 /\ FinalPackages[1] = "Implicit" /\ FinalPackages[2] = "Floors"
    /\ FinalPackages[3] = "Flux" /\ FinalPackages[4] = "ISMR" /\ FinalPackages[5] = "Boundaries"
    /\ AfterFinal(1) = "Floors" /\ AfterFinal(2) = "Flux" /\ AfterFinal(3) = "ISMR"
    /\ AfterFinal(4) = "Boundaries" /\ AfterFinal(5) = "loaded"
BY DEF FinalPackages, AfterFinal

LEMMA OptionSet ==
    ASSUME NEW p, Assigns(p), NEW o \in Options, NEW a
    PROVE  /\ Assigns([p EXCEPT ![o] = a]) /\ [p EXCEPT ![o] = a][o] = a
           /\ \A x \in Options \ {o} : [p EXCEPT ![o] = a][x] = p[x]
BY DEF Assigns

LEMMA DefaultsAre ==
    ASSUME NEW p, Assigns(p)
    PROVE  /\ Assigns(WithDefaults(p))
           /\ \A o \in Options \ {"implicit", "fofc", "b_cleanup", "entropy"} :
                 WithDefaults(p)[o] = p[o]
           /\ WithDefaults(p).implicit = Get(p, "implicit", p.emhd)
           /\ WithDefaults(p).b_cleanup =
                 OnOff(\/ Get(p, "b_cleanup", OnOff(p.b_solver = "cleanup")) = "on"
                       \/ (p.problem = "resize_restart" /\ ~On(p, "skip_b_cleanup"))
                       \/ On(p, "initial_cleanup"))
           /\ WithDefaults(p).entropy =
                 IF On(p, "electrons") THEN "on"
                 ELSE Get(p, "entropy", OnOff(p.driver # "simple" /\ IsIdeal(p)))
<1>1. /\ "implicit" \in Options /\ "fofc" \in Options /\ "b_cleanup" \in Options
      /\ "entropy" \in Options
  BY DEF Options
<1> DEFINE a == Get(p, "implicit", p.emhd)
           b == IF a = "on" /\ ~On(p, "ideal_guess") THEN Get(p, "fofc", "off") ELSE p.fofc
           c == OnOff(\/ Get(p, "b_cleanup", OnOff(p.b_solver = "cleanup")) = "on"
                      \/ (p.problem = "resize_restart" /\ ~On(p, "skip_b_cleanup"))
                      \/ On(p, "initial_cleanup"))
           d == IF On(p, "electrons") THEN "on"
                ELSE Get(p, "entropy", OnOff(p.driver # "simple" /\ IsIdeal(p)))
           q1 == [p EXCEPT !.implicit = a]   q2 == [q1 EXCEPT !.fofc = b]
           q3 == [q2 EXCEPT !.b_cleanup = c]   q4 == [q3 EXCEPT !.entropy = d]
<1>2. WithDefaults(p) = q4
  BY DEF WithDefaults
<1> HIDE DEF a, b, c, d
<1>3. /\ Assigns(q1) /\ q1.implicit = a
      /\ \A o \in Options \ {"implicit"} : q1[o] = p[o]
  BY <1>1, OptionSet
<1> HIDE DEF q1
<1>4. /\ Assigns(q2) /\ \A o \in Options \ {"fofc"} : q2[o] = q1[o]
  BY <1>1, <1>3, OptionSet
<1> HIDE DEF q2
<1>5. /\ Assigns(q3) /\ q3.b_cleanup = c
      /\ \A o \in Options \ {"b_cleanup"} : q3[o] = q2[o]
  BY <1>1, <1>4, OptionSet
<1> HIDE DEF q3
<1>6. /\ Assigns(q4) /\ q4.entropy = d
      /\ \A o \in Options \ {"entropy"} : q4[o] = q3[o]
  BY <1>1, <1>5, OptionSet
<1> HIDE DEF q4
<1>7. /\ Assigns(q4) /\ q4.implicit = a /\ q4.b_cleanup = c /\ q4.entropy = d
      /\ \A o \in Options \ {"implicit", "fofc", "b_cleanup", "entropy"} : q4[o] = p[o]
  BY <1>1, <1>3, <1>4, <1>5, <1>6
<1> QED  BY <1>2, <1>7 DEF a, c, d

LEMMA DefaultsFollow ==
    ASSUME NEW p, Follows(p)
    PROVE  Follows(WithDefaults(p))
<1> DEFINE q == WithDefaults(p)
<1>1. /\ Assigns(q)
      /\ \A o \in Options \ {"implicit", "fofc", "b_cleanup", "entropy"} : q[o] = p[o]
      /\ q.implicit = Get(p, "implicit", p.emhd)
  BY DefaultsAre DEF Follows
<1>2. DriverType(q) = DriverType(p)
  BY <1>1 DEF DriverType, On, Get, Options
<1>3. Get(q, "implicit", q.emhd) = Get(p, "implicit", p.emhd)
  BY <1>1 DEF Get, Options
<1> HIDE DEF q
<1>4. Follows(q)
  BY <1>1, <1>2, <1>3 DEF Follows, Changing, Options
<1> QED  BY <1>4 DEF q

LEMMA DefaultsSettle ==
    ASSUME NEW p, Follows(p), ~Refused(WithDefaults(p))
    PROVE  Settled(WithDefaults(p))
<1> DEFINE q == WithDefaults(p)
<1>1. /\ \A o \in Options \ {"implicit", "fofc", "b_cleanup", "entropy"} : q[o] = p[o]
      /\ q.implicit = Get(p, "implicit", p.emhd)
      /\ q.b_cleanup = OnOff(\/ Get(p, "b_cleanup", OnOff(p.b_solver = "cleanup")) = "on"
                             \/ (p.problem = "resize_restart" /\ ~On(p, "skip_b_cleanup"))
                             \/ On(p, "initial_cleanup"))
      /\ q.entropy = IF On(p, "electrons") THEN "on"
                     ELSE Get(p, "entropy", OnOff(p.driver # "simple" /\ IsIdeal(p)))
  BY DefaultsAre DEF Follows
<1>2. q.implicit = Get(deck, "implicit", deck.emhd)
  BY <1>1 DEF Follows
<1>3. q.entropy # "unset" /\ (On(q, "electrons") => On(q, "entropy"))
  BY <1>1 DEF Get, OnOff, On, Options
<1>4. /\ q.b_cleanup \in {"on", "off"} /\ (On(q, "initial_cleanup") => On(q, "b_cleanup"))
      /\ q.problem = "resize_restart" /\ ~On(q, "skip_b_cleanup") => On(q, "b_cleanup")
  BY <1>1 DEF OnOff, On, Options
<1>5. ~Refused(q)
  OBVIOUS
<1> HIDE DEF q
<1>6. Settled(q)
  BY <1>2, <1>3, <1>4, <1>5 DEF Settled
<1> QED  BY <1>6 DEF q

\* Options that an Initialize may set
Set == {"driver", "fofc", "ismr", "ismr_nlevels", "reinitialize"}

\* What is loaded whatever fofc is
Chosen(p) == Listed(p) \ {"Inverter"}

LEMMA SetKeeps ==
    ASSUME NEW p, NEW q, Follows(p), Settled(p), Assigns(q), DriverType(q) = DriverType(p),
           \A o \in Options \ Set : q[o] = p[o]
    PROVE  /\ Follows(q) /\ Settled(q)
           /\ Chosen(q) = Chosen(p) /\ BField(q) = BField(p) /\ Inverts(q) = Inverts(p)
           /\ \A n : Awaits(q, n) = Awaits(p, n)
<1>1. /\ q.implicit = p.implicit /\ q.emhd = p.emhd /\ q.problem = p.problem
      /\ q.entropy = p.entropy /\ q.b_cleanup = p.b_cleanup /\ q.electrons = p.electrons
      /\ q.initial_cleanup = p.initial_cleanup /\ q.skip_b_cleanup = p.skip_b_cleanup
      /\ q.b_solver = p.b_solver /\ q.eos = p.eos /\ q.ideal_guess = p.ideal_guess
      /\ q.coords_output = p.coords_output /\ q.Ye = p.Ye /\ q.wind = p.wind
      /\ q.units = p.units /\ q.radm1 = p.radm1 /\ q.jcon_output = p.jcon_output
  BY DEF Options, Set
<1>2. Follows(q)
  <2>1. \A o \in Options \ Changing : q[o] = deck[o]
    BY DEF Follows, Changing, Set
  <2>2. Get(q, "implicit", q.emhd) = Get(p, "implicit", p.emhd)
    BY <1>1 DEF Get
  <2> QED  BY <1>1, <2>1, <2>2 DEF Follows
<1>3. Refused(q) <=> Refused(p)
  BY <1>1 DEF Refused, On, FaceCentered, IsIdeal
<1>4. Settled(q)
  BY <1>1, <1>3 DEF Settled, On
<1>5. BField(q) = BField(p)
  BY <1>1 DEF BField
<1>6. Chosen(q) = Chosen(p)
  BY <1>1, <1>5 DEF Chosen, Listed, If, On, NeedsInverter, Transported
<1>7. Inverts(q) = Inverts(p)
  BY <1>1 DEF Inverts, On
<1>8. \A n : Awaits(q, n) = Awaits(p, n)
  BY <1>5 DEF Awaits
<1> QED  BY <1>2, <1>4, <1>5, <1>6, <1>7, <1>8

LEMMA PinAfterKeeps ==
    ASSUME Assigns(pin), NEW package
    PROVE  LET q == PinAfter(package)
           IN  /\ Assigns(q) /\ DriverType(q) = DriverType(pin)
               /\ \A o \in Options \ {"driver", "fofc", "ismr", "ismr_nlevels"} : q[o] = pin[o]
               /\ q.driver = IF package = "Driver" THEN DriverType(pin) ELSE pin.driver
               /\ package # "Flux" => q.fofc = pin.fofc
<1>1. CASE package = "Driver"
  <2>1. PinAfter(package) = [pin EXCEPT !.driver = DriverType(pin)]
    BY <1>1 DEF PinAfter
  <2>2. PICK a : a = DriverType(pin)
    OBVIOUS
  <2>3. PICK q : q = [pin EXCEPT !.driver = a]
    OBVIOUS
  <2>4. "driver" \in Options
    BY DEF Options
  <2>5. Assigns(q) /\ q.driver = a /\ \A o \in Options \ {"driver"} : q[o] = pin[o]
    BY <2>3, <2>4, OptionSet
  <2>6. DriverType(q) = DriverType(pin)
    BY <2>2, <2>5 DEF DriverType, Get, On, Options
  <2> QED  BY <1>1, <2>1, <2>2, <2>3, <2>5, <2>6 DEF Options
<1>2. CASE package = "Flux"
  <2>1. PinAfter(package) = [pin EXCEPT !.fofc = FofcSetting]
    BY <1>2 DEF PinAfter
  <2>2. PICK a : a = FofcSetting
    OBVIOUS
  <2>3. PICK q : q = [pin EXCEPT !.fofc = a]
    OBVIOUS
  <2>4. "fofc" \in Options
    BY DEF Options
  <2>5. Assigns(q) /\ q.fofc = a /\ \A o \in Options \ {"fofc"} : q[o] = pin[o]
    BY <2>3, <2>4, OptionSet
  <2>6. DriverType(q) = DriverType(pin)
    BY <2>5 DEF DriverType, Get, On, Options
  <2> QED  BY <1>2, <2>1, <2>2, <2>3, <2>5, <2>6 DEF Options
<1>3. CASE package = "ISMR"
  <2>2. PICK a : a = Get(pin, "ismr_nlevels", "1")
    OBVIOUS
  <2>1. PinAfter(package) = [[pin EXCEPT !.ismr = "on"] EXCEPT !.ismr_nlevels = a]
    BY <1>3, <2>2 DEF PinAfter
  <2>3. PICK r : r = [pin EXCEPT !.ismr = "on"]
    OBVIOUS
  <2>4. PICK q : q = [r EXCEPT !.ismr_nlevels = a]
    OBVIOUS
  <2>5. "ismr" \in Options /\ "ismr_nlevels" \in Options
    BY DEF Options
  <2>6. Assigns(r) /\ \A o \in Options \ {"ismr"} : r[o] = pin[o]
    BY <2>3, <2>5, OptionSet
  <2>7. Assigns(q) /\ \A o \in Options \ {"ismr_nlevels"} : q[o] = r[o]
    BY <2>4, <2>5, <2>6, OptionSet
  <2>8. DriverType(q) = DriverType(pin)
    BY <2>6, <2>7 DEF DriverType, Get, On, Options
  <2>9. PinAfter(package) = q
    BY <2>1, <2>3, <2>4
  <2> QED  BY <1>3, <2>6, <2>7, <2>8, <2>9 DEF Options
<1>4. CASE package \notin {"Driver", "Flux", "ISMR"}
  BY <1>4 DEF PinAfter
<1> QED  BY <1>1, <1>2, <1>3, <1>4

-----------------------------------------------------------------------------
(***************************************************************************)
(* What is loaded: all that is asked for, once the task list is done, and  *)
(* with each package what it waits for.                                    *)
(***************************************************************************)
Closed == \A n \in loaded : Awaits(pin, n) \subseteq loaded

LoadingInv ==
    /\ waiting \cup loaded = Listed(pin)
    /\ "Driver" \in loaded => pin.driver = DriverType(deck)
    /\ Closed

LoadedInv ==
    /\ waiting = {}
    /\ Chosen(pin) \subseteq loaded /\ loaded \subseteq Chosen(pin) \cup Finals \cup {"Inverter"}
    /\ Inverts(pin) => "Inverter" \in loaded
    /\ pin.driver = DriverType(deck)
    /\ stage \in Finals \cup {"loaded"} => Closed
    /\ stage \in {"Flux", "ISMR", "Boundaries"} => "Floors" \in loaded

SavedPin ==
    saved # <<>> => Follows(saved[1].pin) /\ Settled(saved[1].pin)

LoadInv ==
    /\ deck \in Decks /\ stage \in Stages
    /\ Follows(pin) /\ SavedPin
    /\ stage \in {"loading", "loaded"} \cup Finals \cup Up => Settled(pin)
    /\ stage = "loading" => LoadingInv
    /\ stage \in Finals \cup {"loaded"} \cup Up => LoadedInv

LEMMA LoadInit ==
    ASSUME Init
    PROVE  LoadInv
<1>1. Follows(pin)
  BY DecksAssumption DEF Init, Follows
<1> QED  BY <1>1 DEF Init, LoadInv, SavedPin, Stages, Finals, Up

LEMMA ListKeeps ==
    ASSUME LoadInv, ListPackages, UNCHANGED <<deck, saved>>
    PROVE  LoadInv'
<1>1. Follows(pin)' /\ SavedPin' /\ deck' \in Decks
  BY DefaultsFollow DEF LoadInv, ListPackages, Follows, SavedPin, Settled
<1>2. CASE Refused(pin')
  BY <1>1, <1>2 DEF ListPackages, LoadInv, Stages, Finals, Up
<1>3. CASE ~Refused(pin')
  <2>1. Settled(pin)'
    BY <1>3, DefaultsSettle DEF LoadInv, ListPackages, Settled
  <2>2. LoadingInv'
    BY <1>3 DEF ListPackages, LoadingInv, Closed
  <2>3. stage' = "loading"
    BY <1>3 DEF ListPackages
  <2> QED  BY <1>1, <2>1, <2>2, <2>3 DEF LoadInv, Stages, Finals, Up
<1> QED  BY <1>2, <1>3

LEMMA PinAfterIs ==
    ASSUME NEW package, Follows(pin), Settled(pin), pin' = PinAfter(package), UNCHANGED deck
    PROVE  /\ Follows(pin)' /\ Settled(pin)'
           /\ Chosen(pin') = Chosen(pin) /\ BField(pin') = BField(pin)
           /\ Inverts(pin') = Inverts(pin)
           /\ \A n : Awaits(pin', n) = Awaits(pin, n)
           /\ pin'.driver = IF package = "Driver" THEN DriverType(deck) ELSE pin.driver
           /\ package # "Flux" => pin'.fofc = pin.fofc
           /\ \A o \in Options \ {"driver", "fofc", "ismr", "ismr_nlevels"} : pin'[o] = pin[o]
<1>1. /\ Assigns(pin') /\ DriverType(pin') = DriverType(pin)
      /\ \A o \in Options \ {"driver", "fofc", "ismr", "ismr_nlevels"} : pin'[o] = pin[o]
      /\ pin'.driver = IF package = "Driver" THEN DriverType(pin) ELSE pin.driver
      /\ package # "Flux" => pin'.fofc = pin.fofc
  BY PinAfterKeeps DEF Follows
<1>2. \A o \in Options \ Set : pin'[o] = pin[o]
  BY <1>1 DEF Set
<1>3. Follows(pin') /\ Settled(pin')
  BY <1>1, <1>2, SetKeeps
<1>4. /\ Chosen(pin') = Chosen(pin) /\ BField(pin') = BField(pin)
      /\ Inverts(pin') = Inverts(pin) /\ \A n : Awaits(pin', n) = Awaits(pin, n)
  BY <1>1, <1>2, SetKeeps
<1>5. Follows(pin)' /\ Settled(pin)'
  BY <1>3 DEF Follows, Settled
<1> QED  BY <1>1, <1>4, <1>5 DEF Follows

LEMMA AddKeeps ==
    ASSUME LoadInv, NEW package \in waiting, AddPackage(package), UNCHANGED <<deck, saved>>
    PROVE  LoadInv'
<1>1. /\ Follows(pin)' /\ Settled(pin)' /\ \A n : Awaits(pin', n) = Awaits(pin, n)
      /\ pin'.driver = IF package = "Driver" THEN DriverType(deck) ELSE pin.driver
      /\ \A o \in Options \ {"driver", "fofc", "ismr", "ismr_nlevels"} : pin'[o] = pin[o]
      /\ BField(pin') = BField(pin)
  BY PinAfterIs DEF LoadInv, AddPackage
<1>2. package # "Flux"
  BY DEF LoadInv, AddPackage, LoadingInv, Listed, If, BField
<1>3. Listed(pin') = Listed(pin)
  <2>1. pin'.fofc = pin.fofc
    BY <1>2, PinAfterIs DEF LoadInv, AddPackage
  <2>2. /\ pin'.coords_output = pin.coords_output /\ pin'.Ye = pin.Ye /\ pin'.wind = pin.wind
        /\ pin'.units = pin.units /\ pin'.radm1 = pin.radm1 /\ pin'.emhd = pin.emhd
        /\ pin'.jcon_output = pin.jcon_output /\ pin'.implicit = pin.implicit
        /\ pin'.ideal_guess = pin.ideal_guess /\ pin'.b_cleanup = pin.b_cleanup
        /\ pin'.entropy = pin.entropy /\ pin'.electrons = pin.electrons
        /\ pin'.b_solver = pin.b_solver
    BY <1>1 DEF Options
  <2> QED  BY <1>1, <2>1, <2>2 DEF Listed, If, On, NeedsInverter, Transported
<1>4. LoadingInv'
  <2>1. Closed'
    BY <1>1 DEF LoadInv, LoadingInv, Closed, AddPackage
  <2>2. waiting' \cup loaded' = Listed(pin')
    BY <1>3 DEF LoadInv, LoadingInv, AddPackage
  <2>3. "Driver" \in loaded' => pin'.driver = DriverType(deck')
    BY <1>1 DEF LoadInv, LoadingInv, AddPackage
  <2> QED  BY <2>1, <2>2, <2>3 DEF LoadingInv
<1> QED  BY <1>1, <1>4 DEF LoadInv, SavedPin, AddPackage, Follows, Settled, Finals, Up, Stages

LEMMA DoneKeeps ==
    ASSUME LoadInv, TasksDone, UNCHANGED <<deck, saved>>
    PROVE  LoadInv'
<1>1. "Driver" \in Listed(pin)
  BY DEF Listed
<1>2. Inverts(pin) => "Inverter" \in Listed(pin)
  BY DEF Listed, Inverts, NeedsInverter, If
<1>3. loaded = Listed(pin) /\ stage' = "Implicit"
  BY FinalsAre DEF LoadInv, LoadingInv, TasksDone
<1>4. LoadedInv'
  BY <1>1, <1>2, <1>3
     DEF LoadInv, LoadingInv, LoadedInv, TasksDone, Chosen, Closed
<1> QED  BY <1>3, <1>4 DEF LoadInv, SavedPin, TasksDone, Follows, Settled, Finals, Up, Stages

LEMMA Indices == \A i \in 1 .. Len(FinalPackages) : i = 1 \/ i = 2 \/ i = 3 \/ i = 4 \/ i = 5
BY FinalsAre

LEMMA LastKeeps ==
    ASSUME LoadInv, NEW i \in 1 .. Len(FinalPackages), AddLast(i), UNCHANGED <<deck, saved>>
    PROVE  LoadInv'
<1>1. /\ stage \in Finals /\ stage = FinalPackages[i] /\ stage' = AfterFinal(i)
      /\ stage' \in Finals \cup {"loaded"}
  BY Indices, FinalsAre DEF AddLast, Finals
<1>2. LoadedInv /\ Settled(pin) /\ Follows(pin) /\ Closed
  BY <1>1 DEF LoadInv, LoadedInv
<1>3. CASE ~FinalWanted(FinalPackages[i])
  <2>1. UNCHANGED <<pin, loaded, waiting>>
    BY <1>3 DEF AddLast
  <2>2. stage # "Floors"
    BY <1>1, <1>3 DEF FinalWanted
  <2>3. LoadedInv'
    BY <1>1, <1>2, <2>1, <2>2, FinalsAre, Indices DEF LoadedInv, Closed
  <2> QED  BY <1>1, <1>2, <2>1, <2>3
           DEF LoadInv, SavedPin, Follows, Settled, Finals, Up, Stages
<1>4. CASE FinalWanted(FinalPackages[i])
  <2>1. pin' = PinAfter(stage) /\ loaded' = loaded \cup {stage} /\ waiting' = waiting
    BY <1>1, <1>4 DEF AddLast
  <2>2. /\ Follows(pin)' /\ Settled(pin)' /\ \A n : Awaits(pin', n) = Awaits(pin, n)
        /\ Chosen(pin') = Chosen(pin) /\ (Inverts(pin') <=> Inverts(pin))
        /\ pin'.driver = pin.driver
    <3>1. stage # "Driver"
      BY <1>1 DEF Finals
    <3> QED  BY <1>2, <2>1, <3>1, PinAfterIs
  <2>3. Awaits(pin, stage) = {"GRMHD"} /\ "GRMHD" \in loaded
    BY <1>1, <1>2 DEF Awaits, Finals, LoadedInv, Chosen, Listed
  <2>4. LoadedInv'
    BY <1>1, <1>2, <2>1, <2>2, <2>3, FinalsAre, Indices DEF LoadedInv, Closed
  <2> QED  BY <1>1, <2>2, <2>4 DEF LoadInv, SavedPin, Follows, Settled, Finals, Up, Stages
<1> QED  BY <1>3, <1>4

LEMMA LoadKeeps ==
    ASSUME LoadInv, Load
    PROVE  LoadInv'
<1>1. UNCHANGED <<deck, saved>>
  BY DEF Load, UnchangedBut
<1> QED  BY <1>1, ListKeeps, AddKeeps, DoneKeeps, LastKeeps DEF Load, LoadNext

LEMMA FixKeeps ==
    ASSUME LoadInv, FixParameters
    PROVE  LoadInv'
<1>1. UNCHANGED <<deck, saved>> /\ stage' = "listing"
  BY DEF FixParameters, UnchangedBut, At
<1>2. CASE fromFile /\ pin.problem = "resize_restart"
  <2>1. PICK r : r = [pin EXCEPT !.problem = "resized_restart"]
    OBVIOUS
  <2>2. pin' = [r EXCEPT !.b_cleanup = "off"]
    BY <1>2, <2>1 DEF FixParameters
  <2>3. "problem" \in Options /\ "b_cleanup" \in Options
    BY DEF Options
  <2>4. /\ Assigns(r) /\ r.problem = "resized_restart"
        /\ \A o \in Options \ {"problem"} : r[o] = pin[o]
    BY <2>1, <2>3, OptionSet DEF LoadInv, Follows
  <2>5. /\ Assigns(pin') /\ \A o \in Options \ {"b_cleanup"} : pin'[o] = r[o]
    BY <2>2, <2>3, <2>4, OptionSet
  <2>6. /\ DriverType(pin') = DriverType(pin)
        /\ Get(pin', "implicit", pin'.emhd) = Get(pin, "implicit", pin.emhd)
    BY <2>4, <2>5 DEF DriverType, Get, On, Options
  <2>7. /\ \A o \in Options \ Changing : pin'[o] = pin[o]
        /\ pin'.problem = "resized_restart"
    BY <2>4, <2>5 DEF Options, Changing
  <2>8. Follows(pin)'
    BY <1>1, <1>2, <2>5, <2>6, <2>7 DEF LoadInv, Follows
  <2> QED  BY <1>1, <2>8 DEF LoadInv, SavedPin, Follows, Settled, Finals, Up, Stages
<1>3. CASE ~(fromFile /\ pin.problem = "resize_restart")
  <2>1. pin' = pin
    BY <1>3 DEF FixParameters
  <2> QED  BY <1>1, <2>1 DEF LoadInv, SavedPin, Follows, Settled, Finals, Up, Stages
<1> QED  BY <1>2, <1>3

LEMMA UpKeeps ==
    ASSUME LoadInv, stage \in {"loaded"} \cup Up, stage' \in Up,
           UNCHANGED <<pin, waiting, loaded, deck, saved>>
    PROVE  LoadInv'
BY DEF LoadInv, SavedPin, LoadedInv, Follows, Settled, Finals, Up, Stages

LEMMA ReinitKeeps ==
    ASSUME LoadInv, ReinitElectrons
    PROVE  LoadInv'
<1>1. /\ UNCHANGED <<waiting, loaded, deck, saved>>
      /\ stage = "electrons" /\ stage' = "finish"
  BY DEF ReinitElectrons, UnchangedBut, At
<1>2. CASE pin' = pin
  BY <1>1, <1>2, UpKeeps DEF Up
<1>3. CASE pin' # pin
  <2>1. pin' = [pin EXCEPT !.reinitialize = "off"]
    BY <1>3 DEF ReinitElectrons
  <2>2. "reinitialize" \in Options
    BY DEF Options
  <2>3. Assigns(pin') /\ \A o \in Options \ {"reinitialize"} : pin'[o] = pin[o]
    BY <2>1, <2>2, OptionSet DEF LoadInv, Follows
  <2>4. DriverType(pin') = DriverType(pin) /\ pin'.driver = pin.driver
    BY <2>3 DEF DriverType, Get, On, Options
  <2>5. Settled(pin) /\ Follows(pin) /\ LoadedInv
    BY <1>1 DEF LoadInv, Up
  <2>6. /\ Follows(pin') /\ Settled(pin')
        /\ Chosen(pin') = Chosen(pin) /\ Inverts(pin') = Inverts(pin)
    BY <2>3, <2>4, <2>5, SetKeeps DEF Set
  <2>7. LoadedInv'
    BY <1>1, <2>4, <2>5, <2>6 DEF LoadedInv, Finals
  <2> QED  BY <1>1, <2>6, <2>7 DEF LoadInv, SavedPin, Follows, Settled, Finals, Up, Stages
<1> QED  BY <1>2, <1>3

LEMMA WriteKeeps ==
    ASSUME LoadInv, WriteRestart
    PROVE  LoadInv'
<1>1. /\ UNCHANGED <<pin, waiting, loaded, deck>> /\ stage = "looping" /\ stage' = stage
      /\ saved'[1].pin = pin
  BY DEF WriteRestart, UnchangedBut, PackagesKept, At
<1>2. Follows(pin) /\ Settled(pin)
  BY <1>1 DEF LoadInv, Up
<1>3. SavedPin'
  BY <1>1, <1>2 DEF SavedPin, Follows, Settled
<1> QED  BY <1>1, <1>3 DEF LoadInv, LoadedInv, Follows, Settled, Finals, Up, Stages

LEMMA CrashKeeps ==
    ASSUME LoadInv, Crash
    PROVE  LoadInv'
<1>1. Follows(deck)
  BY DecksAssumption DEF LoadInv, Follows
<1>2. Follows(pin') /\ UNCHANGED <<deck, saved>> /\ stage' = "parameters"
  BY <1>1 DEF LoadInv, SavedPin, Crash
<1> QED  BY <1>2 DEF LoadInv, SavedPin, Follows, Settled, Finals, Up, Stages

\* A move from one stage of the startup, or of the run, to another
Moves ==
    /\ stage \in {"loaded"} \cup Up /\ stage' \in Up
    /\ UNCHANGED <<pin, waiting, loaded, sized, deck, fromFile, saved>>

LEMMA OthersMove ==
    ASSUME \/ ProblemGenerator \/ ReadRestartFile \/ MeshExchange \/ SeedField \/ Restore
           \/ SettleField \/ CleanField \/ Finish \/ EstimateTimestep \/ Step
    PROVE  Moves
BY DEF ProblemGenerator, ReadRestartFile, MeshExchange, SeedField, Restore, SettleField,
       CleanField, Finish, EstimateTimestep, Step, At, UnchangedBut, PackagesKept, Moves, Up

LEMMA LoadInvKept ==
    ASSUME LoadInv, [Next]_vars
    PROVE  LoadInv'
<1>1. CASE UNCHANGED vars
  BY <1>1 DEF vars, loadingVars, runVars, LoadInv, SavedPin, LoadingInv, LoadedInv, Closed,
              Follows, Settled
<1>2. CASE Moves
  BY <1>2, UpKeeps DEF Moves
<1> QED  BY <1>1, <1>2, OthersMove, LoadKeeps, FixKeeps, ReinitKeeps, WriteKeeps, CrashKeeps
         DEF Next, Startup

LEMMA LoadInvHolds == Spec => []LoadInv
<1>1. Init => LoadInv
  BY LoadInit
<1>2. LoadInv /\ [Next]_vars => LoadInv'
  BY LoadInvKept
<1> QED  BY <1>1, <1>2, PTL DEF Spec

-----------------------------------------------------------------------------
LEMMA AddFindsInputs ==
    ASSUME LoadInv, NEW package \in waiting, AddPackage(package), UNCHANGED deck
    PROVE  Reads(pin', package) \subseteq loaded
<1>1. /\ Closed /\ Awaits(pin, package) \subseteq loaded /\ package \in Listed(pin)
      /\ BField(pin) \subseteq {"B_CT", "B_FluxCT", "B_CD"}
  BY DEF LoadInv, AddPackage, LoadingInv, BField
<1>2. "eos" \in loaded => "Driver" \in loaded
  BY <1>1 DEF Closed, Awaits
<1>3. "GRMHD" \in loaded => {"Globals", "Driver"} \subseteq loaded
  BY <1>1, <1>2 DEF Closed, Awaits
<1>4. "Entropy" \in loaded => "GRMHD" \in loaded
  BY <1>1 DEF Closed, Awaits
<1>5. package \notin {"Flux", "Floors", "Implicit", "Boundaries"}
  BY <1>1 DEF Listed, If
<1> QED  BY <1>1, <1>2, <1>3, <1>4, <1>5 DEF Reads, Awaits

LEMMA LastFindsInputs ==
    ASSUME LoadInv, NEW i \in 1 .. Len(FinalPackages), AddLast(i), NEW package \in loaded' \ loaded
    PROVE  Reads(pin', package) \subseteq loaded
<1>1. /\ stage \in Finals /\ stage = FinalPackages[i] /\ package = stage
  BY Indices, FinalsAre DEF AddLast, Finals
<1>2. {"Globals", "Driver", "eos"} \subseteq loaded
  BY <1>1 DEF LoadInv, LoadedInv, Chosen, Listed
<1>3. stage = "Flux" => "Floors" \in loaded
  BY <1>1 DEF LoadInv, LoadedInv
<1> QED  BY <1>1, <1>2, <1>3 DEF Reads, Finals, If

(***************************************************************************)
(* Whatever the options are and in whatever order the tasks of packages    *)
(* run, none looks up what is not loaded yet.                              *)
(***************************************************************************)
THEOREM InputsAlwaysReady == Spec => InputsReady
<1>1. LoadInv /\ [Next]_vars =>
          [\A package \in loaded' \ loaded : Reads(pin', package) \subseteq loaded]_loadingVars
  <2> SUFFICES ASSUME LoadInv, [Next]_vars, NEW package \in loaded' \ loaded
               PROVE  Reads(pin', package) \subseteq loaded
    OBVIOUS
  <2>1. CASE Load
    <3>1. UNCHANGED <<deck, saved>>
      BY <2>1 DEF Load, UnchangedBut
    <3>2. CASE \E n \in waiting : AddPackage(n)
      BY <3>1, <3>2, AddFindsInputs DEF AddPackage
    <3>3. CASE \E i \in 1 .. Len(FinalPackages) : AddLast(i)
      BY <3>3, LastFindsInputs
    <3> QED  BY <2>1, <3>2, <3>3 DEF Load, LoadNext, ListPackages, TasksDone
  <2>2. CASE ~Load
    <3>1. loaded' = loaded \/ loaded' = {}
      BY <2>2, OthersMove
         DEF Next, Startup, Moves, vars, loadingVars, FixParameters, ReinitElectrons,
             WriteRestart, PackagesKept, Crash
    <3> QED  BY <3>1
  <2> QED  BY <2>1, <2>2
<1> QED  BY <1>1, LoadInvHolds, PTL DEF Spec, InputsReady

-----------------------------------------------------------------------------
(***************************************************************************)
(* What the last packages count: nothing that is loaded after them adds to *)
(* it.                                                                     *)
(***************************************************************************)
Counts == {"implicit", "fluxes", "primitives", "averages", "boundary"}

ImplicitSized ==
    /\ "Implicit" \in loaded => sized.implicit = ImplicitOf(pin, loaded)
    /\ ImplicitOf(pin, loaded) # {} /\ ~On(pin, "radm1") => "Implicit" \in loaded
    /\ "Implicit" \in loaded => ImplicitOf(pin, loaded) # {}

SizedInv ==
    /\ sized = [f \in Counts |-> sized[f]]
    /\ stage = "Implicit" => loaded \cap Finals = {}
    /\ stage \in {"Floors", "Flux", "ISMR"} => "ISMR" \notin loaded
    /\ stage \in {"Floors", "Flux", "ISMR", "Boundaries", "loaded"} => ImplicitSized
    /\ stage \in {"ISMR", "Boundaries", "loaded"} =>
          sized.fluxes = FluxesOf(loaded) /\ sized.primitives = PrimitivesOf(loaded)
    /\ stage \in {"Boundaries", "loaded"} =>
          ("ISMR" \in loaded => sized.averages = FluxesOf(loaded))
    /\ stage = "loaded" => sized.boundary = GhostCellsOf(pin, loaded)

LEMMA TailCountsNothing ==
    ASSUME NEW L, NEW p, NEW n \in Finals
    PROVE  /\ FluxesOf(L \cup {n}) = FluxesOf(L) /\ PrimitivesOf(L \cup {n}) = PrimitivesOf(L)
           /\ ImplicitOf(p, L \cup {n}) = ImplicitOf(p, L)
           /\ n = "Boundaries" => GhostCellsOf(p, L \cup {n}) = GhostCellsOf(p, L)
<1>1. Primitives(n) = 0
  BY DEF Primitives, Finals
<1>2. WithFluxes(n) = 0
  BY <1>1 DEF WithFluxes, Finals
<1>3. ImplicitVariables(p, n) = 0
  BY <1>1 DEF ImplicitVariables
<1>4. {n} \X (1 .. 0) = {}
  OBVIOUS
<1>5. FluxesOf(L \cup {n}) = FluxesOf(L)
  <2>1. FluxesOf(L \cup {n}) = FluxesOf(L) \cup ({n} \X (1 .. WithFluxes(n)))
    BY DEF FluxesOf, Components
  <2> QED  BY <1>2, <1>4, <2>1
<1>6. PrimitivesOf(L \cup {n}) = PrimitivesOf(L)
  <2>1. PrimitivesOf(L \cup {n}) = PrimitivesOf(L) \cup ({n} \X (1 .. Primitives(n)))
    BY DEF PrimitivesOf, Components
  <2> QED  BY <1>1, <1>4, <2>1
<1>7. ImplicitOf(p, L \cup {n}) = ImplicitOf(p, L)
  <2>1. ImplicitOf(p, L \cup {n}) = ImplicitOf(p, L) \cup ({n} \X (1 .. ImplicitVariables(p, n)))
    BY DEF ImplicitOf, Components
  <2> QED  BY <1>3, <1>4, <2>1
<1>8. n = "Boundaries" => GhostCellsOf(p, L \cup {n}) = GhostCellsOf(p, L)
  <2> SUFFICES ASSUME n = "Boundaries"
               PROVE  GhostCellsOf(p, L \cup {n}) = GhostCellsOf(p, L)
    OBVIOUS
  <2>1. GhostCells(p, n) = 0
    BY <1>1, <1>2 DEF GhostCells
  <2>2. GhostCellsOf(p, L \cup {n}) = GhostCellsOf(p, L) \cup ({n} \X (1 .. GhostCells(p, n)))
    BY DEF GhostCellsOf, Components
  <2> QED  BY <1>4, <2>1, <2>2
<1> QED  BY <1>5, <1>6, <1>7, <1>8

\* The implicit variables depend on what packages do not change
LEMMA ImplicitDepends ==
    ASSUME NEW L, NEW p, NEW q, DriverType(q) = DriverType(p), q.emhd = p.emhd,
           q.implicit = p.implicit
    PROVE  ImplicitOf(q, L) = ImplicitOf(p, L)
<1>1. ImplicitGRMHD(q) = ImplicitGRMHD(p)
  BY DEF ImplicitGRMHD, On
<1>2. \A n : ImplicitVariables(q, n) = ImplicitVariables(p, n)
  BY <1>1 DEF ImplicitVariables
<1> QED  BY <1>2 DEF ImplicitOf, Components

LEMMA CountSet ==
    ASSUME NEW s, s = [f \in Counts |-> s[f]], NEW f \in Counts, NEW a
    PROVE  LET t == [s EXCEPT ![f] = a]
           IN  /\ t = [g \in Counts |-> t[g]] /\ t[f] = a
               /\ \A g \in Counts \ {f} : t[g] = s[g]
OBVIOUS

LEMMA SizedByIs ==
    ASSUME sized = [f \in Counts |-> sized[f]], NEW package, sized' = SizedBy(package)
    PROVE  /\ sized' = [f \in Counts |-> sized'[f]]
           /\ sized'.implicit =
                 IF package = "Implicit" THEN ImplicitOf(pin, loaded) ELSE sized.implicit
           /\ sized'.fluxes = IF package = "Flux" THEN FluxesOf(loaded) ELSE sized.fluxes
           /\ sized'.primitives =
                 IF package = "Flux" THEN PrimitivesOf(loaded) ELSE sized.primitives
           /\ sized'.averages = IF package = "ISMR" THEN FluxesOf(loaded) ELSE sized.averages
           /\ sized'.boundary =
                 IF package = "Boundaries" THEN GhostCellsOf(pin, loaded) ELSE sized.boundary
<1>1. \A f \in {"implicit", "fluxes", "primitives", "averages", "boundary"} : f \in Counts
  BY DEF Counts
<1>2. CASE package = "Implicit"
  <2>1. sized' = [sized EXCEPT !.implicit = ImplicitOf(pin, loaded)]
    BY <1>2 DEF SizedBy
  <2> QED  BY <1>1, <1>2, <2>1, CountSet
<1>3. CASE package = "Flux"
  <2>1. PICK s : s = [sized EXCEPT !.fluxes = FluxesOf(loaded)]
    OBVIOUS
  <2>2. sized' = [s EXCEPT !.primitives = PrimitivesOf(loaded)]
    BY <1>3, <2>1 DEF SizedBy
  <2>3. /\ s = [f \in Counts |-> s[f]] /\ s.fluxes = FluxesOf(loaded)
        /\ \A g \in Counts \ {"fluxes"} : s[g] = sized[g]
    BY <1>1, <2>1, CountSet
  <2>4. /\ sized' = [f \in Counts |-> sized'[f]] /\ sized'.primitives = PrimitivesOf(loaded)
        /\ \A g \in Counts \ {"primitives"} : sized'[g] = s[g]
    BY <1>1, <2>2, <2>3, CountSet
  <2> QED  BY <1>1, <1>3, <2>3, <2>4
<1>4. CASE package = "ISMR"
  <2>1. sized' = [sized EXCEPT !.averages = FluxesOf(loaded)]
    BY <1>4 DEF SizedBy
  <2> QED  BY <1>1, <1>4, <2>1, CountSet
<1>5. CASE package = "Boundaries"
  <2>1. sized' = [sized EXCEPT !.boundary = GhostCellsOf(pin, loaded)]
    BY <1>5 DEF SizedBy
  <2> QED  BY <1>1, <1>5, <2>1, CountSet
<1>6. CASE package \notin {"Implicit", "Flux", "ISMR", "Boundaries"}
  BY <1>6 DEF SizedBy
<1> QED  BY <1>2, <1>3, <1>4, <1>5, <1>6

LEMMA LastSizes ==
    ASSUME LoadInv, SizedInv, NEW i \in 1 .. Len(FinalPackages), AddLast(i), UNCHANGED deck
    PROVE  SizedInv'
<1>1. /\ stage \in Finals /\ stage = FinalPackages[i] /\ stage' = AfterFinal(i)
      /\ Settled(pin) /\ Follows(pin)
  BY Indices, FinalsAre DEF AddLast, Finals, LoadInv
<1>2. CASE ~FinalWanted(FinalPackages[i])
  <2>1. UNCHANGED <<pin, loaded, sized>> /\ stage \in {"Implicit", "ISMR"}
    BY <1>1, <1>2 DEF AddLast, FinalWanted, Finals
  <2>2. CASE stage = "Implicit"
    <3>1. stage' = "Floors" /\ ~(ImplicitOf(pin, loaded) # {} /\ ~On(pin, "radm1"))
      BY <1>1, <1>2, <2>2, Indices, FinalsAre DEF FinalWanted
    <3>2. loaded \cap Finals = {} /\ "Implicit" \notin loaded /\ "ISMR" \notin loaded
      BY <2>2 DEF SizedInv, Finals
    <3>3. ImplicitSized'
      BY <2>1, <3>1, <3>2 DEF ImplicitSized
    <3> QED  BY <2>1, <3>1, <3>2, <3>3 DEF SizedInv
  <2>3. CASE stage = "ISMR"
    <3>1. stage' = "Boundaries"
      BY <1>1, <2>3, Indices, FinalsAre
    <3>2. ImplicitSized'
      BY <2>1, <2>3 DEF SizedInv, ImplicitSized
    <3> QED  BY <2>1, <2>3, <3>1, <3>2 DEF SizedInv
  <2> QED  BY <2>1, <2>2, <2>3
<1>3. CASE FinalWanted(FinalPackages[i])
  <2>1. /\ pin' = PinAfter(stage) /\ loaded' = loaded \cup {stage} /\ sized' = SizedBy(stage)
    BY <1>1, <1>3 DEF AddLast
  <2>2. /\ DriverType(pin') = DriverType(pin) /\ pin'.emhd = pin.emhd
        /\ pin'.implicit = pin.implicit /\ pin'.radm1 = pin.radm1
    BY <1>1, <2>1, PinAfterKeeps DEF Follows, Options
  <2>3. /\ FluxesOf(loaded') = FluxesOf(loaded) /\ PrimitivesOf(loaded') = PrimitivesOf(loaded)
        /\ ImplicitOf(pin', loaded') = ImplicitOf(pin, loaded)
    BY <1>1, <2>1, <2>2, TailCountsNothing, ImplicitDepends
  <2>4. /\ sized' = [f \in Counts |-> sized'[f]]
        /\ sized'.implicit =
              IF stage = "Implicit" THEN ImplicitOf(pin, loaded) ELSE sized.implicit
        /\ sized'.fluxes = IF stage = "Flux" THEN FluxesOf(loaded) ELSE sized.fluxes
        /\ sized'.primitives =
              IF stage = "Flux" THEN PrimitivesOf(loaded) ELSE sized.primitives
        /\ sized'.averages = IF stage = "ISMR" THEN FluxesOf(loaded) ELSE sized.averages
        /\ sized'.boundary =
              IF stage = "Boundaries" THEN GhostCellsOf(pin, loaded) ELSE sized.boundary
    BY <2>1, SizedByIs DEF SizedInv
  <2>5. ImplicitSized'
    <3>1. CASE stage = "Implicit"
      <4>1. ImplicitOf(pin, loaded) # {}
        BY <1>1, <1>3, <3>1 DEF FinalWanted
      <4> QED  BY <2>1, <2>2, <2>3, <2>4, <3>1, <4>1 DEF ImplicitSized
    <3>2. CASE stage # "Implicit"
      <4>1. ImplicitSized
        BY <1>1, <3>2 DEF SizedInv, Finals
      <4>2. /\ sized'.implicit = sized.implicit /\ ("Implicit" \in loaded' <=> "Implicit" \in loaded)
            /\ (On(pin', "radm1") <=> On(pin, "radm1"))
        BY <2>1, <2>2, <2>4, <3>2 DEF On
      <4> QED  BY <2>3, <4>1, <4>2 DEF ImplicitSized
    <3> QED  BY <3>1, <3>2
  <2>6. stage = "Boundaries" => GhostCellsOf(pin', loaded') = GhostCellsOf(pin, loaded)
    BY <1>1, <2>1, TailCountsNothing DEF PinAfter
  <2>7. stage' \in {"Floors", "Flux", "ISMR"} => "ISMR" \notin loaded'
    BY <1>1, <2>1, Indices, FinalsAre DEF SizedInv, Finals
  <2>8. stage' \in {"ISMR", "Boundaries", "loaded"} =>
          sized'.fluxes = FluxesOf(loaded') /\ sized'.primitives = PrimitivesOf(loaded')
    BY <1>1, <2>3, <2>4, Indices, FinalsAre DEF SizedInv
  <2>9. stage' \in {"Boundaries", "loaded"} =>
          ("ISMR" \in loaded' => sized'.averages = FluxesOf(loaded'))
    BY <1>1, <2>1, <2>3, <2>4, Indices, FinalsAre DEF SizedInv
  <2>10. stage' = "loaded" => sized'.boundary = GhostCellsOf(pin', loaded')
    BY <1>1, <2>4, <2>6, Indices, FinalsAre DEF SizedInv
  <2>11. stage' # "Implicit"
    BY <1>1, Indices, FinalsAre
  <2> QED  BY <2>4, <2>5, <2>7, <2>8, <2>9, <2>10, <2>11 DEF SizedInv
<1> QED  BY <1>2, <1>3

\* What leaves the packages as they are, or starts over
LEMMA NotLoading ==
    ASSUME [Next]_vars, ~Load
    PROVE  /\ \/ UNCHANGED <<loaded, sized>>
              \/ loaded' = {} /\ sized' = Unsized
           /\ UNCHANGED loadingVars \/ stage' \notin {"loading", "loaded"} \cup Finals
<1>1. ASSUME Moves  PROVE UNCHANGED <<loaded, sized>> /\ stage' \in Up
  BY <1>1 DEF Moves
<1>2. Up \cap ({"loading", "loaded"} \cup Finals) = {}
  BY DEF Up, Finals
<1>3. CASE UNCHANGED vars
  BY <1>3 DEF vars, loadingVars
<1>4. CASE FixParameters \/ ReinitElectrons \/ Crash
  BY <1>4 DEF FixParameters, ReinitElectrons, Crash, At, Finals
<1>5. CASE WriteRestart
  BY <1>5 DEF WriteRestart, At, PackagesKept, Finals
<1> QED  BY <1>1, <1>2, <1>3, <1>4, <1>5, OthersMove DEF Next, Startup

LEMMA SizedKept ==
    ASSUME LoadInv, SizedInv, [Next]_vars
    PROVE  SizedInv'
<1>0. Unsized = [f \in Counts |-> Unsized[f]]
  BY DEF Unsized, Counts
<1>1. CASE Load
  <2>0. UNCHANGED deck
    BY <1>1 DEF Load, UnchangedBut
  <2>1. CASE ListPackages
    BY <1>0, <2>1 DEF ListPackages, SizedInv
  <2>2. CASE \E n \in waiting : AddPackage(n)
    BY <2>2 DEF AddPackage, SizedInv
  <2>3. CASE TasksDone
    <3>1. stage' = "Implicit" /\ UNCHANGED <<loaded, sized>>
      BY <2>3, FinalsAre DEF TasksDone
    <3>2. loaded \cap Finals = {}
      <4>1. loaded \subseteq Listed(pin)
        BY <2>3 DEF TasksDone, LoadInv, LoadingInv
      <4> QED  BY <4>1 DEF Listed, If, BField, Finals
    <3> QED  BY <3>1, <3>2 DEF SizedInv
  <2>4. CASE \E i \in 1 .. Len(FinalPackages) : AddLast(i)
    BY <2>0, <2>4, LastSizes
  <2> QED  BY <1>1, <2>1, <2>2, <2>3, <2>4 DEF Load, LoadNext
<1>2. CASE ~Load
  <2>1. CASE UNCHANGED loadingVars
    BY <2>1 DEF loadingVars, SizedInv, ImplicitSized
  <2>2. CASE stage' \notin {"loading", "loaded"} \cup Finals
    BY <1>0, <1>2, <2>2, NotLoading DEF SizedInv, Finals
  <2> QED  BY <1>2, <2>1, <2>2, NotLoading
<1> QED  BY <1>1, <1>2

LEMMA SizedInvHolds == Spec => []SizedInv
<1>1. Init => SizedInv
  BY DEF Init, SizedInv, Unsized, Counts
<1>2. LoadInv /\ SizedInv /\ [Next]_vars => SizedInv'
  BY SizedKept
<1> QED  BY <1>1, <1>2, LoadInvHolds, PTL DEF Spec

(***************************************************************************)
(* Whatever the options, the temporaries and the cache of Dirichlet        *)
(* boundaries have a place for every component they are made for: no       *)
(* package loaded after they are counted declares one.                     *)
(***************************************************************************)
THEOREM TemporariesAlwaysFullSize == Spec => []TemporariesFullSize
<1>1. SizedInv => TemporariesFullSize
  BY DEF SizedInv, ImplicitSized, TemporariesFullSize
<1> QED  BY <1>1, SizedInvHolds, PTL

LEMMA ImplicitIs ==
    ASSUME NEW L, NEW p
    PROVE  ImplicitOf(p, L) # {} <=> "EMHD" \in L \/ ("GRMHD" \in L /\ ImplicitGRMHD(p))
<1>1. \A n : 1 .. ImplicitVariables(p, n) # {} <=> n = "EMHD" \/ (n = "GRMHD" /\ ImplicitGRMHD(p))
  BY DEF ImplicitVariables, Primitives
<1>2. ImplicitOf(p, L) # {} <=> \E n \in L : 1 .. ImplicitVariables(p, n) # {}
  <2>1. ImplicitOf(p, L) = UNION {{n} \X (1 .. ImplicitVariables(p, n)) : n \in L}
    BY DEF ImplicitOf, Components
  <2>2. ASSUME NEW n \in L, NEW k \in 1 .. ImplicitVariables(p, n)
        PROVE  ImplicitOf(p, L) # {}
    <3>1. <<n, k>> \in {n} \X (1 .. ImplicitVariables(p, n))
      OBVIOUS
    <3> QED  BY <2>1, <3>1
  <2>3. ASSUME NEW c \in ImplicitOf(p, L)
        PROVE  \E n \in L : 1 .. ImplicitVariables(p, n) # {}
    BY <2>1
  <2> QED  BY <2>2, <2>3
<1> QED  BY <1>1, <1>2

(***************************************************************************)
(* If implicit solves are asked for only with the imex driver and without  *)
(* RadM1, what is loaded recovers the primitives of whatever it evolves,   *)
(* whatever the other options are.  (What happens to a deck that asks for  *)
(* them otherwise is told in the README.)                                  *)
(***************************************************************************)
THEOREM EveryVariableAlwaysRecovered ==
    ASSUME \A d \in Decks : ImplicitHolds(d)
    PROVE  Spec => []EveryVariableRecovered
<1>1. LoadInv /\ SizedInv => EveryVariableRecovered
  <2> SUFFICES ASSUME LoadInv, SizedInv, stage = "loaded"
               PROVE  /\ ImplicitOf(pin, {"GRMHD"}) = {} => "Inverter" \in loaded /\ Inverts(pin)
                      /\ ImplicitOf(pin, loaded) # {} =>
                            "Implicit" \in loaded /\ DriverType(pin) = "imex"
    BY DEF EveryVariableRecovered
  <2>1. /\ Settled(pin) /\ Follows(pin) /\ LoadedInv /\ ImplicitSized /\ deck \in Decks
    BY DEF LoadInv, SizedInv
  <2>2. pin.emhd = deck.emhd /\ pin.radm1 = deck.radm1
    BY <2>1 DEF Follows, Options, Changing
  <2>3. On(pin, "implicit") \/ On(pin, "emhd") => DriverType(pin) = "imex" /\ ~On(pin, "radm1")
    BY <2>1, <2>2 DEF ImplicitHolds, Settled, Follows, On
  <2>4. "EMHD" \in loaded => On(pin, "emhd")
    BY <2>1 DEF LoadedInv, Chosen, Listed, If, BField, Finals
  <2>5. ASSUME ImplicitOf(pin, {"GRMHD"}) = {}
        PROVE  "Inverter" \in loaded /\ Inverts(pin)
    <3>1. ~ImplicitGRMHD(pin)
      BY <2>5, ImplicitIs
    <3>2. ~On(pin, "implicit")
      BY <2>3, <3>1 DEF ImplicitGRMHD
    <3> QED  BY <2>1, <3>2 DEF LoadedInv, Inverts
  <2>6. ASSUME ImplicitOf(pin, loaded) # {}
        PROVE  "Implicit" \in loaded /\ DriverType(pin) = "imex"
    <3>1. On(pin, "implicit") \/ On(pin, "emhd")
      BY <2>4, <2>6, ImplicitIs DEF ImplicitGRMHD
    <3> QED  BY <2>1, <2>3, <2>6, <3>1 DEF ImplicitSized
  <2> QED  BY <2>5, <2>6
<1> QED  BY <1>1, LoadInvHolds, SizedInvHolds, PTL

-----------------------------------------------------------------------------
(***************************************************************************)
(* The state of the mesh: what each operation on it does, variable by      *)
(* variable and zone by zone.                                              *)
(***************************************************************************)
Values == [Regions -> Nat]
Forms == [Cells -> Values]
Grids ==
    [prims : Forms, cons : Forms, face : Values, field : Values, energy : Values,
     temperature : Values, divergent : BOOLEAN]
Caches == [prims : [Cells -> Nat], cons : [Cells -> Nat], face : Nat]

LEMMA Zones == \A x, y \in Values :
    /\ x.interior \in Nat /\ x.ghost \in Nat /\ x.domain \in Nat
    /\ x = y <=> x.interior = y.interior /\ x.ghost = y.ghost /\ x.domain = y.domain
<1>1. ASSUME NEW x \in Values, NEW y \in Values, x.interior = y.interior, x.ghost = y.ghost,
             x.domain = y.domain
      PROVE  x = y
  BY <1>1 DEF Values, Regions
<1> QED  BY <1>1 DEF Values, Regions

LEMMA EverywhereIs ==
    ASSUME NEW n \in Nat
    PROVE  /\ Everywhere(n) \in Values /\ Everywhere(n).interior = n
           /\ Everywhere(n).ghost = n /\ Everywhere(n).domain = n
BY DEF Everywhere, Values, Regions

LEMMA BlankIs ==
    /\ Blank \in Grids /\ ~Blank.divergent
    /\ \A v \in Cells : Blank.prims[v] = Everywhere(0) /\ Blank.cons[v] = Everywhere(0)
    /\ Blank.face = Everywhere(0) /\ Blank.field = Everywhere(0)
    /\ Blank.energy = Everywhere(0) /\ Blank.temperature = Everywhere(0)
    /\ EmptyCache \in Caches
<1>1. Everywhere(0) \in Values
  BY EverywhereIs
<1>2. [v \in Cells |-> Everywhere(0)] \in Forms
  BY <1>1 DEF Forms
<1>3. EmptyCache \in Caches
  BY DEF EmptyCache, Caches
<1> QED  BY <1>1, <1>2, <1>3 DEF Blank, Grids

\* A state of the mesh, and its parts
LEMMA Parts ==
    ASSUME NEW g \in Grids
    PROVE  /\ g.face \in Values /\ g.field \in Values /\ g.energy \in Values
           /\ g.temperature \in Values /\ g.divergent \in BOOLEAN
           /\ g.prims \in Forms /\ g.cons \in Forms
           /\ \A v \in Cells : g.prims[v] \in Values /\ g.cons[v] \in Values
BY DEF Grids, Forms

LEMMA PtoUIs ==
    ASSUME NEW g \in Grids
    PROVE  LET h == PtoU(g)
           IN  /\ h \in Grids
               /\ h.prims = g.prims /\ h.cons = g.prims
               /\ h.face = IF "B_FluxCT" \in loaded THEN g.field ELSE g.face
               /\ h.field = g.field /\ h.energy = g.field
               /\ h.temperature = g.temperature /\ h.divergent = g.divergent
BY DEF PtoU, Grids

LEMMA FieldUtoPIs ==
    ASSUME NEW g \in Grids
    PROVE  LET h == FieldUtoP(g)
           IN  /\ h \in Grids
               /\ h.prims = g.prims /\ h.cons = g.cons /\ h.face = g.face
               /\ h.field = IF HasField THEN g.face ELSE g.field
               /\ h.energy = g.energy
               /\ h.temperature = g.temperature /\ h.divergent = g.divergent
BY DEF FieldUtoP, Grids

LEMMA ExchangedIs ==
    ASSUME NEW g \in Grids, NEW kept \in Caches
    PROVE  LET h == Exchanged(g, kept)
               Outside(x, frozen) == IF Dirichlet THEN frozen ELSE x.interior
           IN  /\ h \in Grids
               /\ \A v \in Cells :
                     /\ v \notin FillGhostPrims => h.prims[v] = g.prims[v]
                     /\ v \in FillGhostPrims =>
                           /\ h.prims[v].interior = g.prims[v].interior
                           /\ h.prims[v].ghost = g.prims[v].interior
                           /\ h.prims[v].domain = Outside(g.prims[v], kept.prims[v])
                     /\ v \notin FillGhostCons => h.cons[v] = g.cons[v]
                     /\ v \in FillGhostCons =>
                           /\ h.cons[v].interior = g.cons[v].interior
                           /\ h.cons[v].ghost = g.cons[v].interior
                           /\ h.cons[v].domain = Outside(g.cons[v], kept.cons[v])
               /\ ~HasField => h.face = g.face
               /\ HasField =>
                     /\ h.face.interior = g.face.interior /\ h.face.ghost = g.face.interior
                     /\ h.face.domain = Outside(g.face, kept.face)
               /\ h.field = g.field /\ h.energy = g.energy
               /\ h.temperature = g.temperature /\ h.divergent = g.divergent
<1> DEFINE Fill(x, frozen) == [x EXCEPT !.ghost = x.interior,
                                        !.domain = IF Dirichlet THEN frozen ELSE x.interior]
           FillAll(form, synced, frozen) ==
               [v \in Cells |-> IF v \in synced THEN Fill(form[v], frozen[v]) ELSE form[v]]
           h == Exchanged(g, kept)
<1>1. \A x \in Values : \A n \in Nat :
         /\ Fill(x, n) \in Values
         /\ Fill(x, n).interior = x.interior /\ Fill(x, n).ghost = x.interior
         /\ Fill(x, n).domain = IF Dirichlet THEN n ELSE x.interior
  BY DEF Values, Regions
<1>2. \A form \in Forms : \A synced : \A frozen \in [Cells -> Nat] :
         /\ FillAll(form, synced, frozen) \in Forms
         /\ \A v \in Cells : FillAll(form, synced, frozen)[v] =
               IF v \in synced THEN Fill(form[v], frozen[v]) ELSE form[v]
  BY <1>1 DEF Forms
<1>3. h = [g EXCEPT !.prims = FillAll(@, FillGhostPrims, kept.prims),
                    !.cons = FillAll(@, FillGhostCons, kept.cons),
                    !.face = IF HasField THEN Fill(@, kept.face) ELSE @]
  BY DEF Exchanged
<1>4. /\ kept.prims \in [Cells -> Nat] /\ kept.cons \in [Cells -> Nat] /\ kept.face \in Nat
      /\ \A v \in Cells : kept.prims[v] \in Nat /\ kept.cons[v] \in Nat
  BY DEF Caches
<1> HIDE DEF Fill, FillAll, h
<1>5. /\ h.prims = FillAll(g.prims, FillGhostPrims, kept.prims)
      /\ h.cons = FillAll(g.cons, FillGhostCons, kept.cons)
      /\ h.face = IF HasField THEN Fill(g.face, kept.face) ELSE g.face
      /\ h.field = g.field /\ h.energy = g.energy
      /\ h.temperature = g.temperature /\ h.divergent = g.divergent
  BY <1>3 DEF Grids
<1>6. h \in Grids
  BY <1>1, <1>2, <1>3, <1>4, Parts DEF Grids
<1>7. \A v \in Cells :
         /\ v \notin FillGhostPrims => h.prims[v] = g.prims[v]
         /\ v \in FillGhostPrims => h.prims[v] = Fill(g.prims[v], kept.prims[v])
         /\ v \notin FillGhostCons => h.cons[v] = g.cons[v]
         /\ v \in FillGhostCons => h.cons[v] = Fill(g.cons[v], kept.cons[v])
  BY <1>2, <1>4, <1>5, Parts
<1>8. \A v \in Cells :
         /\ v \in FillGhostPrims =>
               /\ h.prims[v].interior = g.prims[v].interior
               /\ h.prims[v].ghost = g.prims[v].interior
               /\ h.prims[v].domain =
                     IF Dirichlet THEN kept.prims[v] ELSE g.prims[v].interior
         /\ v \in FillGhostCons =>
               /\ h.cons[v].interior = g.cons[v].interior
               /\ h.cons[v].ghost = g.cons[v].interior
               /\ h.cons[v].domain = IF Dirichlet THEN kept.cons[v] ELSE g.cons[v].interior
  <2> TAKE v \in Cells
  <2>1. /\ g.prims[v] \in Values /\ kept.prims[v] \in Nat
        /\ g.cons[v] \in Values /\ kept.cons[v] \in Nat
    BY <1>4, Parts
  <2>2. LET x == Fill(g.prims[v], kept.prims[v])
        IN  /\ x.interior = g.prims[v].interior /\ x.ghost = g.prims[v].interior
            /\ x.domain = IF Dirichlet THEN kept.prims[v] ELSE g.prims[v].interior
    BY <1>1, <2>1
  <2>3. LET x == Fill(g.cons[v], kept.cons[v])
        IN  /\ x.interior = g.cons[v].interior /\ x.ghost = g.cons[v].interior
            /\ x.domain = IF Dirichlet THEN kept.cons[v] ELSE g.cons[v].interior
    BY <1>1, <2>1
  <2> QED  BY <1>7, <2>2, <2>3
<1>9. HasField =>
         /\ h.face.interior = g.face.interior /\ h.face.ghost = g.face.interior
         /\ h.face.domain = IF Dirichlet THEN kept.face ELSE g.face.interior
  BY <1>1, <1>4, <1>5, Parts
<1>10. /\ ~HasField => h.face = g.face
  BY <1>5
<1> USE <1>5, <1>6, <1>7, <1>8, <1>9, <1>10
<1> QED  BY DEF h

LEMMA LockstepIs ==
    ASSUME NEW g \in Grids
    PROVE  LET h == DomainLockstep(g)
           IN  /\ h \in Grids
               /\ \A v \in Cells :
                     /\ h.prims[v].interior = g.prims[v].interior
                     /\ h.prims[v].ghost = g.prims[v].ghost
                     /\ h.prims[v].domain =
                           IF ~SyncPrims(pin) /\ v \in BoundaryInverted
                           THEN g.cons[v].domain ELSE g.prims[v].domain
                     /\ h.cons[v].interior = g.cons[v].interior
                     /\ h.cons[v].ghost = g.cons[v].ghost
                     /\ h.cons[v].domain =
                           IF SyncPrims(pin) \/ v = "fluid"
                           THEN g.prims[v].domain ELSE g.cons[v].domain
               /\ h.face = g.face
               /\ h.field.interior = g.field.interior /\ h.field.ghost = g.field.ghost
               /\ h.field.domain = IF HasField THEN g.face.domain ELSE g.field.domain
               /\ h.energy.interior = g.energy.interior
               /\ h.temperature = g.temperature /\ h.divergent = g.divergent
<1> DEFINE h == DomainLockstep(g)
           Put(x, n) == [x EXCEPT !.domain = n]
           cons == IF SyncPrims(pin)
                   THEN [v \in Cells |-> Put(g.cons[v], g.prims[v].domain)]
                   ELSE [g.cons EXCEPT !.fluid = Put(@, g.prims.fluid.domain)]
           prims == IF SyncPrims(pin) THEN g.prims
                    ELSE [v \in Cells |-> IF v \in BoundaryInverted
                                          THEN Put(g.prims[v], g.cons[v].domain)
                                          ELSE g.prims[v]]
           field == Put(g.field, IF HasField THEN g.face.domain ELSE g.field.domain)
           energy == Put(g.energy, IF SyncPrims(pin) /\ HasField THEN g.face.domain
                                   ELSE g.field.domain)
<1>1. \A x \in Values : \A n \in Nat :
         /\ Put(x, n) \in Values /\ Put(x, n).domain = n
         /\ Put(x, n).interior = x.interior /\ Put(x, n).ghost = x.ghost
  BY DEF Values, Regions
<1>2. h = [prims |-> prims, cons |-> cons, face |-> g.face, field |-> field,
           energy |-> energy, temperature |-> g.temperature, divergent |-> g.divergent]
  <2>1. "fluid" \in Cells /\ "fluid" \notin BoundaryInverted
    BY DEF Cells, BoundaryInverted
  <2>2. CASE SyncPrims(pin)
    BY <2>2 DEF DomainLockstep, Grids
  <2>3. CASE ~SyncPrims(pin)
    BY <2>1, <2>3 DEF DomainLockstep, Grids, Forms
  <2> QED  BY <2>2, <2>3
<1> HIDE DEF Put
<1>3. /\ prims \in Forms /\ cons \in Forms /\ field \in Values /\ energy \in Values
      /\ \A v \in Cells :
            /\ prims[v] = IF ~SyncPrims(pin) /\ v \in BoundaryInverted
                          THEN Put(g.prims[v], g.cons[v].domain) ELSE g.prims[v]
            /\ cons[v] = IF SyncPrims(pin) \/ v = "fluid"
                         THEN Put(g.cons[v], g.prims[v].domain) ELSE g.cons[v]
  BY <1>1, Parts, Zones DEF Forms, Cells
<1> HIDE DEF prims, cons
<1>4. \A v \in Cells :
         /\ prims[v].interior = g.prims[v].interior /\ prims[v].ghost = g.prims[v].ghost
         /\ prims[v].domain = IF ~SyncPrims(pin) /\ v \in BoundaryInverted
                              THEN g.cons[v].domain ELSE g.prims[v].domain
         /\ cons[v].interior = g.cons[v].interior /\ cons[v].ghost = g.cons[v].ghost
         /\ cons[v].domain = IF SyncPrims(pin) \/ v = "fluid"
                             THEN g.prims[v].domain ELSE g.cons[v].domain
  <2> TAKE v \in Cells
  <2>1. /\ g.prims[v] \in Values /\ g.prims[v].domain \in Nat
        /\ g.cons[v] \in Values /\ g.cons[v].domain \in Nat
    BY Parts, Zones
  <2>2. LET x == Put(g.prims[v], g.cons[v].domain)
        IN  /\ x.interior = g.prims[v].interior /\ x.ghost = g.prims[v].ghost
            /\ x.domain = g.cons[v].domain
    BY <1>1, <2>1
  <2>3. LET x == Put(g.cons[v], g.prims[v].domain)
        IN  /\ x.interior = g.cons[v].interior /\ x.ghost = g.cons[v].ghost
            /\ x.domain = g.prims[v].domain
    BY <1>1, <2>1
  <2> QED  BY <1>3, <2>2, <2>3
<1>5. /\ field.interior = g.field.interior /\ field.ghost = g.field.ghost
      /\ field.domain = IF HasField THEN g.face.domain ELSE g.field.domain
      /\ energy.interior = g.energy.interior
  <2>1. /\ g.field \in Values /\ g.energy \in Values /\ g.field.domain \in Nat
        /\ g.face.domain \in Nat
    BY Parts, Zones
  <2> QED  BY <1>1, <2>1
<1> HIDE DEF field, energy, h
<1>6. /\ h \in Grids /\ h.prims = prims /\ h.cons = cons /\ h.face = g.face /\ h.field = field
      /\ h.energy = energy /\ h.temperature = g.temperature /\ h.divergent = g.divergent
  BY <1>2, <1>3, Parts DEF Grids
<1> QED  BY <1>4, <1>5, <1>6 DEF h

\* All that evolves is exchanged, as primitives or as both
Exchanges ==
    /\ FillGhostPrims = Evolved
    /\ SyncPrims(pin) \/ Evolved \subseteq {"fluid", "entropy"}

\* h is g with its boundaries filled, domain ghosts from kept if they are Dirichlet's
Filling(g, kept, h) ==
    /\ h \in Grids
    /\ \A v \in Cells : /\ h.prims[v].interior = g.prims[v].interior
                        /\ h.cons[v].interior = g.cons[v].interior
    /\ \A v \in Cells \ Evolved : h.prims[v] = g.prims[v]
    /\ \A v \in Evolved :
          /\ h.prims[v].ghost = g.prims[v].interior
          /\ h.cons[v].domain = h.prims[v].domain
          /\ ~Dirichlet => h.prims[v].domain \in {g.prims[v].interior, g.cons[v].interior}
          /\ Dirichlet => \/ h.prims[v].domain = kept.prims[v]
                          \/ v \in FillGhostCons /\ h.prims[v].domain = kept.cons[v]
    /\ HasField =>
          /\ h.face.interior = g.face.interior /\ h.face.ghost = g.face.interior
          /\ h.face.domain = IF Dirichlet THEN kept.face ELSE g.face.interior
          /\ h.field.domain = h.face.domain
          /\ h.field.ghost \in {g.field.ghost, g.face.interior}
    /\ ~HasField => h.face = g.face /\ h.field = g.field
    /\ h.field.interior = g.field.interior /\ h.energy.interior = g.energy.interior
    /\ h.temperature = g.temperature /\ h.divergent = g.divergent

LEMMA MetIs ==
    ASSUME NEW g \in Grids, NEW kept \in Caches, Exchanges
    PROVE  Filling(g, kept, DomainLockstep(Exchanged(g, kept)))
<1> DEFINE e == Exchanged(g, kept)   h == DomainLockstep(e)
<1>1. /\ e \in Grids
      /\ \A v \in Cells :
            /\ v \notin FillGhostPrims => e.prims[v] = g.prims[v]
            /\ v \in FillGhostPrims =>
                  /\ e.prims[v].interior = g.prims[v].interior
                  /\ e.prims[v].ghost = g.prims[v].interior
                  /\ e.prims[v].domain = IF Dirichlet THEN kept.prims[v] ELSE g.prims[v].interior
            /\ v \notin FillGhostCons => e.cons[v] = g.cons[v]
            /\ v \in FillGhostCons =>
                  /\ e.cons[v].interior = g.cons[v].interior
                  /\ e.cons[v].ghost = g.cons[v].interior
                  /\ e.cons[v].domain = IF Dirichlet THEN kept.cons[v] ELSE g.cons[v].interior
      /\ ~HasField => e.face = g.face
      /\ HasField =>
            /\ e.face.interior = g.face.interior /\ e.face.ghost = g.face.interior
            /\ e.face.domain = IF Dirichlet THEN kept.face ELSE g.face.interior
      /\ e.field = g.field /\ e.energy = g.energy
      /\ e.temperature = g.temperature /\ e.divergent = g.divergent
  BY ExchangedIs
<1> HIDE DEF e
<1>2. /\ h \in Grids
      /\ \A v \in Cells :
            /\ h.prims[v].interior = e.prims[v].interior
            /\ h.prims[v].ghost = e.prims[v].ghost
            /\ h.prims[v].domain = IF ~SyncPrims(pin) /\ v \in BoundaryInverted
                                   THEN e.cons[v].domain ELSE e.prims[v].domain
            /\ h.cons[v].interior = e.cons[v].interior
            /\ h.cons[v].domain = IF SyncPrims(pin) \/ v = "fluid"
                                  THEN e.prims[v].domain ELSE e.cons[v].domain
      /\ h.face = e.face /\ h.field.interior = e.field.interior
      /\ h.field.ghost = e.field.ghost
      /\ h.field.domain = IF HasField THEN e.face.domain ELSE e.field.domain
      /\ h.energy.interior = e.energy.interior
      /\ h.temperature = e.temperature /\ h.divergent = e.divergent
  BY <1>1, LockstepIs
<1> HIDE DEF h
<1>3. Evolved \subseteq Cells /\ FillGhostPrims = Evolved
      /\ (SyncPrims(pin) \/ Evolved \subseteq {"fluid", "entropy"})
      /\ FillGhostCons = (IF SyncPrims(pin) THEN {} ELSE Evolved)
      /\ BoundaryInverted = Evolved \cap {"entropy", "electrons", "Ye", "emhd"}
  BY DEF Exchanges, Evolved, FillGhostCons, BoundaryInverted
<1>4. \A v \in Cells : /\ h.prims[v].interior = g.prims[v].interior
                       /\ h.cons[v].interior = g.cons[v].interior
  BY <1>1, <1>2
<1>5. ASSUME NEW v \in Cells \ Evolved  PROVE h.prims[v] = g.prims[v]
  <2>1. e.prims[v] = g.prims[v] /\ v \notin BoundaryInverted
    BY <1>1, <1>3
  <2>2. h.prims[v] \in Values /\ e.prims[v] \in Values
    BY <1>1, <1>2, Parts
  <2> QED  BY <1>2, <2>1, <2>2, Zones
<1>6. ASSUME NEW v \in Evolved
      PROVE  /\ h.prims[v].ghost = g.prims[v].interior
             /\ h.cons[v].domain = h.prims[v].domain
             /\ ~Dirichlet => h.prims[v].domain \in {g.prims[v].interior, g.cons[v].interior}
             /\ Dirichlet => \/ h.prims[v].domain = kept.prims[v]
                             \/ v \in FillGhostCons /\ h.prims[v].domain = kept.cons[v]
  <2>1. v \in Cells /\ v \in FillGhostPrims
    BY <1>3
  <2>2. CASE SyncPrims(pin)
    BY <1>1, <1>2, <2>1, <2>2
  <2>3. CASE ~SyncPrims(pin) /\ v = "fluid"
    <3>1. v \notin BoundaryInverted
      BY <1>3, <2>3
    <3> QED  BY <1>1, <1>2, <2>1, <2>3, <3>1
  <2>4. CASE ~SyncPrims(pin) /\ v = "entropy"
    <3>1. v \in BoundaryInverted /\ v \in FillGhostCons
      BY <1>3, <2>4
    <3> QED  BY <1>1, <1>2, <2>1, <2>4, <3>1
  <2> QED  BY <1>3, <2>2, <2>3, <2>4
<1>7. HasField =>
          /\ h.face.interior = g.face.interior /\ h.face.ghost = g.face.interior
          /\ h.face.domain = IF Dirichlet THEN kept.face ELSE g.face.interior
          /\ h.field.domain = h.face.domain
          /\ h.field.ghost \in {g.field.ghost, g.face.interior}
  BY <1>1, <1>2
<1>8. ~HasField => h.face = g.face /\ h.field = g.field
  BY <1>1, <1>2, Parts, Zones
<1>9. Filling(g, kept, h)
  BY <1>1, <1>2, <1>4, <1>5, <1>6, <1>7, <1>8 DEF Filling
<1> QED  BY <1>9 DEF h, e

LEMMA SyncIs ==
    ASSUME NEW g \in Grids, NEW kept \in Caches, Exchanges
    PROVE  Filling(g, kept, SyncAllBounds(g, kept))
<1> DEFINE m == DomainLockstep(Exchanged(g, kept))   h == SyncAllBounds(g, kept)
<1>1. Filling(g, kept, m)
  BY MetIs
<1>2. h = IF SyncPrims(pin) /\ HasField THEN [m EXCEPT !.field.ghost = m.face.ghost] ELSE m
  BY DEF SyncAllBounds
<1> HIDE DEF m, h
<1>3. CASE SyncPrims(pin) /\ HasField
  <2>1. m \in Grids /\ m.face \in Values /\ m.field \in Values /\ m.face.ghost \in Nat
    BY <1>1, Parts, Zones DEF Filling
  <2>2. PICK x : x = [m.field EXCEPT !.ghost = m.face.ghost]
    OBVIOUS
  <2>3. /\ x \in Values /\ x.ghost = m.face.ghost
        /\ x.interior = m.field.interior /\ x.domain = m.field.domain
    BY <2>1, <2>2 DEF Values, Regions
  <2>4. h = [m EXCEPT !.field = x]
    BY <1>2, <1>3, <2>1, <2>2 DEF Grids
  <2>5. /\ h \in Grids /\ h.prims = m.prims /\ h.cons = m.cons /\ h.face = m.face /\ h.field = x
        /\ h.energy = m.energy /\ h.temperature = m.temperature /\ h.divergent = m.divergent
    BY <2>1, <2>3, <2>4 DEF Grids
  <2>6. x.ghost \in {g.field.ghost, g.face.interior} /\ x.domain = m.face.domain
    BY <1>1, <1>3, <2>3 DEF Filling
  <2> QED  BY <1>1, <1>3, <2>3, <2>5, <2>6 DEF Filling, h
<1>4. CASE ~(SyncPrims(pin) /\ HasField)
  BY <1>1, <1>2, <1>4 DEF h
<1> QED  BY <1>3, <1>4

LEMMA FrozenIs ==
    ASSUME NEW g \in Grids, cache \in Caches
    PROVE  LET c == Frozen(g)
           IN  /\ c \in Caches
               /\ ~Dirichlet => c = cache
               /\ Dirichlet =>
                     /\ \A v \in FillGhostPrims : c.prims[v] = g.prims[v].domain
                     /\ \A v \in FillGhostCons : c.cons[v] = g.cons[v].domain
                     /\ HasField => c.face = g.face.domain
<1>1. CASE ~Dirichlet
  BY <1>1 DEF Frozen
<1>2. CASE Dirichlet
  <2>1. FillGhostPrims \subseteq Cells /\ FillGhostCons \subseteq Cells
    BY DEF FillGhostPrims, FillGhostCons, Evolved
  <2>2. \A v \in Cells : g.prims[v].domain \in Nat /\ g.cons[v].domain \in Nat
    BY Parts, Zones
  <2>3. g.face.domain \in Nat
    BY Parts, Zones
  <2> QED  BY <1>2, <2>1, <2>2, <2>3 DEF Frozen, Caches
<1> QED  BY <1>1, <1>2

LEMMA SyncTypes ==
    ASSUME NEW g \in Grids, NEW kept \in Caches
    PROVE  /\ DomainLockstep(Exchanged(g, kept)) \in Grids /\ SyncAllBounds(g, kept) \in Grids
           /\ DomainLockstep(Exchanged(g, kept)).divergent = g.divergent
           /\ SyncAllBounds(g, kept).divergent = g.divergent
<1> DEFINE m == DomainLockstep(Exchanged(g, kept))   h == SyncAllBounds(g, kept)
<1>1. m \in Grids /\ m.divergent = g.divergent
  BY ExchangedIs, LockstepIs
<1>2. h = IF SyncPrims(pin) /\ HasField THEN [m EXCEPT !.field.ghost = m.face.ghost] ELSE m
  BY DEF SyncAllBounds
<1> HIDE DEF m, h
<1>3. [m.field EXCEPT !.ghost = m.face.ghost] \in Values
  BY <1>1, Parts, Zones DEF Values, Regions
<1>4. h \in Grids /\ h.divergent = m.divergent
  BY <1>1, <1>2, <1>3 DEF Grids
<1> QED  BY <1>1, <1>4 DEF m, h

LEMMA SeededIs ==
    ASSUME NEW g \in Grids
    PROVE  LET h == Seeded(g)
           IN  /\ h \in Grids
               /\ h.prims = g.prims /\ h.cons = g.cons /\ h.energy = g.energy
               /\ h.face = g.prims.fluid /\ h.field = g.prims.fluid
               /\ h.temperature = g.temperature /\ h.divergent = g.divergent
<1>1. g.prims.fluid \in Values
  BY Parts DEF Cells
<1> QED  BY <1>1 DEF Seeded, Grids

LEMMA NormalizedIs ==
    ASSUME NEW g \in Grids
    PROVE  LET h == Normalized(g)
               field == IF "B_CT" \in loaded THEN g.face ELSE g.field
           IN  /\ h \in Grids
               /\ h.prims = g.prims /\ h.cons = g.cons /\ h.energy = g.energy
               /\ h.temperature = g.temperature /\ h.divergent = g.divergent
               /\ h.face.interior = 2 * g.face.interior /\ h.face.ghost = 2 * g.face.ghost
               /\ h.field.interior = 2 * field.interior /\ h.field.ghost = 2 * field.ghost
<1>1. \A x \in Values : /\ Scaled(x) \in Values /\ Scaled(x).interior = 2 * x.interior
                        /\ Scaled(x).ghost = 2 * x.ghost
  BY DEF Scaled, Values, Regions
<1>2. g.face \in Values /\ g.field \in Values
  BY Parts
<1>3. Scaled(g.face) \in Values /\ Scaled(g.field) \in Values
  BY <1>1, <1>2
<1> QED  BY <1>1, <1>2, <1>3 DEF Normalized, Grids

LEMMA RestoredIs ==
    ASSUME NEW g \in Grids
    PROVE  LET h == Restored(g)
           IN  /\ h \in Grids /\ h.cons = g.cons /\ h.energy = g.energy
               /\ h.temperature = g.temperature /\ h.divergent = g.divergent
               /\ \A v \in Cells : h.prims[v] = IF v = "emhd" /\ "EMHD" \in loaded /\ ~FromPrims
                                                THEN g.cons[v] ELSE g.prims[v]
               /\ h.face = IF FromPrims /\ "B_FluxCT" \in loaded THEN g.field ELSE g.face
               /\ h.field = IF ~FromPrims /\ HasField THEN g.face ELSE g.field
<1>1. CASE FromPrims
  BY <1>1 DEF Restored, Grids
<1>2. CASE ~FromPrims
  <2>1. PICK f : f = FieldUtoP(g)
    OBVIOUS
  <2>2. /\ f \in Grids /\ f.prims = g.prims /\ f.cons = g.cons /\ f.face = g.face
        /\ f.field = IF HasField THEN g.face ELSE g.field
        /\ f.energy = g.energy /\ f.temperature = g.temperature /\ f.divergent = g.divergent
    BY <2>1, FieldUtoPIs
  <2>3. PICK x : x = IF "EMHD" \in loaded THEN g.cons.emhd ELSE g.prims.emhd
    OBVIOUS
  <2>4. PICK prims : prims = [g.prims EXCEPT !.emhd = x]
    OBVIOUS
  <2>5. x \in Values /\ g.prims \in Forms /\ "emhd" \in Cells
    BY <2>3, Parts DEF Cells
  <2>6. prims \in Forms /\ \A v \in Cells : prims[v] = IF v = "emhd" THEN x ELSE g.prims[v]
    BY <2>4, <2>5 DEF Forms
  <2>7. Restored(g) = [f EXCEPT !.prims = prims]
    BY <1>2, <2>1, <2>2, <2>3, <2>4 DEF Restored, Grids
  <2>8. LET h == Restored(g)
        IN  /\ h \in Grids /\ h.prims = prims /\ h.cons = f.cons /\ h.face = f.face
            /\ h.field = f.field /\ h.energy = f.energy /\ h.temperature = f.temperature
            /\ h.divergent = f.divergent
    BY <2>2, <2>6, <2>7 DEF Grids
  <2> QED  BY <1>2, <2>2, <2>3, <2>6, <2>8
<1> QED  BY <1>1, <1>2

LEMMA TemperatureIs ==
    ASSUME NEW g \in Grids
    PROVE  LET h == WithTemperature(g)
           IN  /\ h \in Grids
               /\ h.prims = g.prims /\ h.cons = g.cons /\ h.face = g.face /\ h.field = g.field
               /\ h.energy = g.energy /\ h.divergent = g.divergent
               /\ h.temperature =
                     IF "Temperature" \in loaded THEN g.prims.fluid ELSE g.temperature
<1>1. g.prims.fluid \in Values
  BY Parts DEF Cells
<1> QED  BY <1>1 DEF WithTemperature, Grids

\* What the cleanup solves for is added everywhere
Solved(g) ==
    [g EXCEPT !.face = [r \in Regions |-> @[r] + 1], !.divergent = FALSE]

LEMMA SolvedIs ==
    ASSUME NEW g \in Grids
    PROVE  LET h == Solved(g)
           IN  /\ h \in Grids /\ ~h.divergent
               /\ h.prims = g.prims /\ h.cons = g.cons /\ h.field = g.field
               /\ h.energy = g.energy /\ h.temperature = g.temperature
               /\ h.face.interior = g.face.interior + 1
<1>1. PICK x : x = [r \in Regions |-> g.face[r] + 1]
  OBVIOUS
<1>2. x \in Values /\ x.interior = g.face.interior + 1
  <2>1. g.face \in Values
    BY Parts
  <2> QED  BY <1>1, <2>1 DEF Values, Regions
<1>3. Solved(g) = [g EXCEPT !.face = x, !.divergent = FALSE]
  BY <1>1 DEF Solved, Grids
<1> QED  BY <1>2, <1>3 DEF Grids

LEMMA CleanupIs ==
    ASSUME NEW g
    PROVE  CleanupDivergence(g) =
               FieldUtoP(SyncAllBounds(Solved(SyncAllBounds(g, cache)), cache))
BY DEF CleanupDivergence, Solved

LEMMA CleanupTypes ==
    ASSUME NEW g \in Grids, cache \in Caches
    PROVE  CleanupDivergence(g) \in Grids /\ ~CleanupDivergence(g).divergent
<1>1. SyncAllBounds(g, cache) \in Grids
  BY SyncTypes
<1>2. PICK s : s = Solved(SyncAllBounds(g, cache))
  OBVIOUS
<1>3. s \in Grids /\ ~s.divergent
  BY <1>1, <1>2, SolvedIs
<1>4. SyncAllBounds(s, cache) \in Grids /\ ~SyncAllBounds(s, cache).divergent
  BY <1>3, SyncTypes
<1> QED  BY <1>2, <1>4, CleanupIs, FieldUtoPIs

LEMMA ElectronsAre ==
    ASSUME NEW g \in Grids
    PROVE  LET h == [g EXCEPT !.prims.entropy = g.prims.fluid,
                              !.prims.electrons.interior = g.prims.fluid.interior]
           IN  /\ h \in Grids
               /\ h.cons = g.cons /\ h.face = g.face /\ h.field = g.field
               /\ h.energy = g.energy /\ h.temperature = g.temperature
               /\ h.divergent = g.divergent
<1> DEFINE h == [g EXCEPT !.prims.entropy = g.prims.fluid,
                          !.prims.electrons.interior = g.prims.fluid.interior]
<1>1. PICK x : x = [g.prims.electrons EXCEPT !.interior = g.prims.fluid.interior]
  OBVIOUS
<1>2. g.prims \in Forms /\ g.prims.fluid \in Values /\ g.prims.electrons \in Values
  BY Parts DEF Cells
<1>3. x \in Values
  BY <1>1, <1>2, Zones DEF Values, Regions
<1>4. PICK prims : prims = [g.prims EXCEPT !.entropy = g.prims.fluid, !.electrons = x]
  OBVIOUS
<1>5. prims \in Forms
  BY <1>2, <1>3, <1>4 DEF Forms, Cells
<1>6. h = [g EXCEPT !.prims = prims]
  BY <1>1, <1>2, <1>4 DEF Grids, Forms, Cells
<1> HIDE DEF h
<1>7. /\ h \in Grids
      /\ h.cons = g.cons /\ h.face = g.face /\ h.field = g.field
      /\ h.energy = g.energy /\ h.temperature = g.temperature
      /\ h.divergent = g.divergent
  BY <1>5, <1>6 DEF Grids
<1> QED  BY <1>7 DEF h

LEMMA AdvancedIs ==
    ASSUME NEW g \in Grids, steps \in Nat
    PROVE  LET h == Advanced(g)
               New(x, y) == /\ y.interior = 10 + steps /\ y.ghost = 10 + steps
                            /\ y.domain = IF Dirichlet THEN x.domain ELSE 10 + steps
           IN  /\ h \in Grids
               /\ \A v \in Cells \ Evolved : h.prims[v] = g.prims[v] /\ h.cons[v] = g.cons[v]
               /\ \A v \in Evolved : New(g.prims[v], h.prims[v]) /\ New(g.cons[v], h.cons[v])
               /\ HasField => /\ New(g.face, h.face) /\ New(g.field, h.field)
                              /\ h.energy.interior = 10 + steps
               /\ ~HasField => h.face = g.face /\ h.field = g.field /\ h.energy = g.energy
               /\ h.temperature =
                     IF "Temperature" \in loaded THEN h.prims.fluid ELSE g.temperature
               /\ h.divergent = g.divergent
<1> DEFINE Evolve(x) == [r \in Regions |-> IF Dirichlet /\ r = "domain" THEN x[r] ELSE 10 + steps]
           EvolveAll(form) == [v \in Cells |-> IF v \in Evolved THEN Evolve(form[v]) ELSE form[v]]
           a == [g EXCEPT !.prims = EvolveAll(@), !.cons = EvolveAll(@),
                          !.face = IF HasField THEN Evolve(@) ELSE @,
                          !.field = IF HasField THEN Evolve(@) ELSE @,
                          !.energy = IF HasField THEN Evolve(@) ELSE @]
           h == Advanced(g)
           New(x, y) == /\ y.interior = 10 + steps /\ y.ghost = 10 + steps
                        /\ y.domain = IF Dirichlet THEN x.domain ELSE 10 + steps
<1>1. h = WithTemperature(a)
  BY DEF Advanced
<1>2. \A x \in Values : Evolve(x) \in Values /\ New(x, Evolve(x))
  BY DEF Values, Regions
<1>3. \A form \in Forms :
         /\ EvolveAll(form) \in Forms
         /\ \A v \in Cells :
               EvolveAll(form)[v] = IF v \in Evolved THEN Evolve(form[v]) ELSE form[v]
  BY <1>2 DEF Forms
<1> HIDE DEF Evolve, EvolveAll, New, h
<1>4. Evolved \subseteq Cells
  BY DEF Evolved
<1>5. /\ g.prims \in Forms /\ g.cons \in Forms /\ g.face \in Values /\ g.field \in Values
      /\ g.energy \in Values
      /\ \A v \in Cells : g.prims[v] \in Values /\ g.cons[v] \in Values
  BY Parts
<1>6. /\ a.prims = EvolveAll(g.prims) /\ a.cons = EvolveAll(g.cons)
      /\ a.face = IF HasField THEN Evolve(g.face) ELSE g.face
      /\ a.field = IF HasField THEN Evolve(g.field) ELSE g.field
      /\ a.energy = IF HasField THEN Evolve(g.energy) ELSE g.energy
      /\ a.temperature = g.temperature /\ a.divergent = g.divergent
  BY DEF Grids
<1>7. a \in Grids
  BY <1>2, <1>3, <1>5 DEF Grids
<1> HIDE DEF a
<1>8. /\ h \in Grids /\ h.prims = a.prims /\ h.cons = a.cons /\ h.face = a.face
      /\ h.field = a.field /\ h.energy = a.energy /\ h.divergent = a.divergent
      /\ h.temperature = IF "Temperature" \in loaded THEN a.prims.fluid ELSE a.temperature
  BY <1>1, <1>7, TemperatureIs
<1>9. ASSUME NEW v \in Evolved
      PROVE  New(g.prims[v], h.prims[v]) /\ New(g.cons[v], h.cons[v])
  <2>1. /\ g.prims[v] \in Values /\ g.cons[v] \in Values /\ v \in Cells
        /\ g.prims \in Forms /\ g.cons \in Forms
    BY <1>4, <1>5
  <2>2. h.prims[v] = Evolve(g.prims[v]) /\ h.cons[v] = Evolve(g.cons[v])
    BY <1>3, <1>6, <1>8, <2>1
  <2>3. New(g.prims[v], Evolve(g.prims[v])) /\ New(g.cons[v], Evolve(g.cons[v]))
    BY <1>2, <2>1
  <2> QED  BY <2>2, <2>3
<1>10. \A v \in Cells \ Evolved : h.prims[v] = g.prims[v] /\ h.cons[v] = g.cons[v]
  BY <1>3, <1>5, <1>6, <1>8
<1>11. HasField => /\ New(g.face, h.face) /\ New(g.field, h.field) /\ New(g.energy, h.energy)
  BY <1>2, <1>5, <1>6, <1>8
<1>12. ~HasField => h.face = g.face /\ h.field = g.field /\ h.energy = g.energy
  BY <1>6, <1>8
<1>13. h.temperature = IF "Temperature" \in loaded THEN h.prims.fluid ELSE g.temperature
  BY <1>6, <1>8
<1>14. h.divergent = g.divergent
  BY <1>6, <1>8
<1> QED  BY <1>8, <1>9, <1>10, <1>11, <1>12, <1>13, <1>14 DEF New, h

\* A resized field is on faces from the start
FacesResized == pin.problem = "resize_restart" /\ HasField /\ ~On(pin, "regrid_only")

LEMMA ProblemIs ==
    LET h == ProblemState
    IN  /\ h \in Grids
        /\ \A v \in Cells \ (Evolved \cup {"fluid"}) : h.prims[v] = Everywhere(0)
        /\ Dirichlet /\ pin.problem # "resize_restart" =>
               \A v \in Evolved \ {"electrons"} : h.prims[v].domain = 1
        /\ h.cons = Blank.cons /\ h.temperature = Everywhere(0)
        /\ h.field = IF pin.problem = "resize_restart" /\ HasField
                     THEN Everywhere(1) ELSE Everywhere(0)
        /\ h.face = IF FacesResized THEN Everywhere(1) ELSE Everywhere(0)
        /\ h.divergent = FacesResized
<1> DEFINE own == IF Dirichlet THEN Regions ELSE {"interior"}
           At1(where) == [r \in Regions |-> IF r \in where THEN 1 ELSE 0]
           fluid == IF pin.problem = "resize_restart" THEN Everywhere(1) ELSE At1(own)
           Initial(v) ==
               IF v = "fluid" THEN fluid
               ELSE IF pin.problem = "resize_restart" \/ v \notin Evolved THEN Everywhere(0)
               ELSE IF v = "electrons" THEN At1({"interior"})
               ELSE IF v = "entropy" THEN fluid
               ELSE At1(own)
           prims == [v \in Cells |-> Initial(v)]
           resized == pin.problem = "resize_restart" /\ HasField
           h == ProblemState
<1>1. \A S : At1(S) \in Values
  BY DEF Values
<1>2. Everywhere(0) \in Values /\ Everywhere(1) \in Values
  BY EverywhereIs
<1>3. h = [Blank EXCEPT !.prims = prims,
                        !.field = IF resized THEN Everywhere(1) ELSE @,
                        !.face = IF FacesResized THEN Everywhere(1) ELSE @,
                        !.divergent = FacesResized]
  BY DEF ProblemState, FacesResized
<1>4. Dirichlet => At1(own).domain = 1
  BY DEF Regions
<1> HIDE DEF At1, own
<1>5. fluid \in Values /\ \A v \in Cells : Initial(v) \in Values
  BY <1>1, <1>2
<1>6. /\ \A v \in Cells \ (Evolved \cup {"fluid"}) : Initial(v) = Everywhere(0)
      /\ Dirichlet /\ pin.problem # "resize_restart" =>
             \A v \in Evolved \ {"electrons"} : Initial(v).domain = 1
  BY <1>4
<1> HIDE DEF fluid, Initial
<1>7. prims \in Forms /\ \A v \in Cells : prims[v] = Initial(v)
  BY <1>5 DEF Forms
<1> HIDE DEF prims, h
<1>8. FacesResized \in BOOLEAN
  BY DEF FacesResized
<1>9. /\ h \in Grids /\ h.prims = prims /\ h.cons = Blank.cons
      /\ h.temperature = Blank.temperature
      /\ h.field = (IF resized THEN Everywhere(1) ELSE Blank.field)
      /\ h.face = (IF FacesResized THEN Everywhere(1) ELSE Blank.face)
      /\ h.divergent = FacesResized
  BY <1>2, <1>3, <1>7, <1>8, BlankIs DEF Grids
<1>10. Evolved \subseteq Cells
  BY DEF Evolved
<1> QED  BY <1>6, <1>7, <1>9, <1>10, BlankIs DEF h

LEMMA WrittenIs ==
    ASSUME NEW g \in Grids
    PROVE  LET h == Written(g)
           IN  /\ h \in Grids
               /\ \A v \in Cells :
                     /\ v \notin RestartPrims => h.prims[v] = Everywhere(0)
                     /\ v \in RestartPrims => /\ h.prims[v].interior = g.prims[v].interior
                                              /\ h.prims[v].ghost = 0 /\ h.prims[v].domain = 0
                     /\ h.cons[v].interior = g.cons[v].interior
               /\ h.face.interior = g.face.interior /\ h.face.ghost = 0 /\ h.face.domain = 0
               /\ ~On(pin, "restart_from_prims") => h.field = Everywhere(0)
               /\ h.temperature = Everywhere(0) /\ h.divergent = g.divergent
<1> DEFINE Kept(x) == [r \in Regions |-> IF r = "interior" THEN x[r] ELSE 0]
           prims == [v \in Cells |-> IF v \in RestartPrims THEN Kept(g.prims[v])
                                     ELSE Blank.prims[v]]
           cons == [v \in Cells |-> Kept(g.cons[v])]
           field == IF On(pin, "restart_from_prims") THEN Kept(g.field) ELSE Blank.field
           h == Written(g)
<1>1. \A x \in Values : /\ Kept(x) \in Values /\ Kept(x).interior = x.interior
                        /\ Kept(x).ghost = 0 /\ Kept(x).domain = 0
  BY DEF Values, Regions
<1>2. h = [Blank EXCEPT !.prims = prims, !.cons = cons, !.face = Kept(g.face),
                        !.field = field, !.energy = Kept(g.energy), !.divergent = g.divergent]
  BY DEF Written, Blank
<1> HIDE DEF Kept, h
<1>3. \A v \in Cells : g.prims[v] \in Values /\ g.cons[v] \in Values
  BY Parts
<1>4. /\ g.face \in Values /\ g.field \in Values /\ g.energy \in Values
      /\ g.divergent \in BOOLEAN
  BY Parts
<1>5. /\ Blank \in Grids /\ \A v \in Cells : Blank.prims[v] \in Values
      /\ \A v \in Cells : Blank.prims[v] = Everywhere(0)
      /\ Blank.field = Everywhere(0) /\ Blank.temperature = Everywhere(0)
      /\ Blank.field \in Values
  BY BlankIs, Parts
<1>6. prims \in Forms /\ cons \in Forms /\ field \in Values
  BY <1>1, <1>3, <1>4, <1>5 DEF Forms
<1>7. \A v \in Cells :
         /\ prims[v] = IF v \in RestartPrims THEN Kept(g.prims[v]) ELSE Everywhere(0)
         /\ cons[v] = Kept(g.cons[v])
  BY <1>5
<1>8. ~On(pin, "restart_from_prims") => field = Everywhere(0)
  BY <1>5
<1> HIDE DEF prims, cons, field
<1>9. Kept(g.face) \in Values /\ Kept(g.energy) \in Values
  BY <1>1, <1>4
<1>10. /\ h \in Grids /\ h.prims = prims /\ h.cons = cons /\ h.face = Kept(g.face)
       /\ h.field = field /\ h.temperature = Blank.temperature /\ h.divergent = g.divergent
  BY <1>2, <1>4, <1>5, <1>6, <1>9 DEF Grids
<1>11. ASSUME NEW v \in Cells
       PROVE  /\ v \notin RestartPrims => h.prims[v] = Everywhere(0)
              /\ v \in RestartPrims => /\ h.prims[v].interior = g.prims[v].interior
                                       /\ h.prims[v].ghost = 0 /\ h.prims[v].domain = 0
              /\ h.cons[v].interior = g.cons[v].interior
  BY <1>1, <1>3, <1>7, <1>10
<1>12. h.face.interior = g.face.interior /\ h.face.ghost = 0 /\ h.face.domain = 0
  BY <1>1, <1>4, <1>10
<1>13. h.temperature = Everywhere(0)
  BY <1>5, <1>10
<1> QED  BY <1>8, <1>10, <1>11, <1>12, <1>13 DEF h

-----------------------------------------------------------------------------
(***************************************************************************)
(* Types of the state, and the divergence of a resized field.              *)
(***************************************************************************)
MeshInv ==
    /\ grid \in Grids /\ cache \in Caches /\ steps \in Nat /\ fromFile \in BOOLEAN
    /\ saved # <<>> => /\ saved[1].grid \in Grids /\ saved[1].cache \in Caches
                       /\ saved[1].steps \in Nat
    /\ fromFile => saved # <<>>

\* What leaves the divergence as it was
KeepsDivergence == SeedField \/ Restore \/ SettleField \/ MeshExchange \/ ReinitElectrons
                   \/ Finish \/ Step

LEMMA SeedTypes ==
    ASSUME MeshInv, SeedField
    PROVE  grid' \in Grids /\ cache' \in Caches /\ grid'.divergent = grid.divergent
<1>1. CASE ~SeedsField
  BY <1>1 DEF SeedField, MeshInv
<1>2. CASE SeedsField
  <2>1. cache' \in Caches
    BY <1>2, FrozenIs DEF SeedField, MeshInv
  <2>2. PICK s : s = SyncAllBounds(grid, cache')
    OBVIOUS
  <2>3. s \in Grids /\ s.divergent = grid.divergent
    BY <2>1, <2>2, SyncTypes DEF MeshInv
  <2>4. PICK g : g = Seeded(s)
    OBVIOUS
  <2>5. g \in Grids /\ g.divergent = grid.divergent
    BY <2>3, <2>4, SeededIs
  <2>6. PICK t : t = SyncAllBounds(g, cache')
    OBVIOUS
  <2>7. t \in Grids /\ t.divergent = grid.divergent
    BY <2>1, <2>5, <2>6, SyncTypes
  <2>8. Normalized(t) \in Grids /\ Normalized(t).divergent = grid.divergent
    BY <2>7, NormalizedIs
  <2>9. grid' = IF On(pin, "norm") THEN Normalized(t) ELSE g
    BY <1>2, <2>2, <2>4, <2>6 DEF SeedField
  <2> QED  BY <2>1, <2>5, <2>8, <2>9
<1> QED  BY <1>1, <1>2

LEMMA MeshTypes ==
    ASSUME MeshInv, [Next]_vars
    PROVE  /\ grid' \in Grids /\ cache' \in Caches
           /\ KeepsDivergence => grid'.divergent = grid.divergent
           /\ CleanField => grid'.divergent = (grid.divergent /\ "B_Cleanup" \notin loaded)
           /\ ProblemGenerator => grid'.divergent = FacesResized
           /\ ReadRestartFile => grid'.divergent = saved[1].grid.divergent
           /\ Crash => ~grid'.divergent
           /\ \/ KeepsDivergence \/ CleanField \/ ProblemGenerator \/ ReadRestartFile
              \/ Crash \/ grid' = grid
<1> DEFINE Goal == /\ grid' \in Grids /\ cache' \in Caches
<1>0. grid \in Grids /\ cache \in Caches
  BY DEF MeshInv
<1>1. CASE ProblemGenerator
  <2>1. ProblemState \in Grids /\ ProblemState.divergent = FacesResized
    BY ProblemIs
  <2>2. grid' \in Grids /\ grid'.divergent = FacesResized
    BY <1>1, <2>1, PtoUIs DEF ProblemGenerator
  <2>3. cache' \in Caches
    BY <1>0, <1>1, <2>2, FrozenIs DEF ProblemGenerator
  <2>4. stage = "loaded" /\ stage' = "exchange" /\ ~fromFile
    BY <1>1 DEF ProblemGenerator, At
  <2> QED  BY <1>1, <2>2, <2>3, <2>4
           DEF KeepsDivergence, SeedField, Restore, SettleField, MeshExchange, ReinitElectrons,
               Finish, Step, CleanField, ReadRestartFile, Crash, At
<1>2. CASE ReadRestartFile
  <2>1. saved[1].grid \in Grids /\ saved[1].cache \in Caches
    BY <1>2 DEF ReadRestartFile, MeshInv
  <2>2. grid' \in Grids /\ grid'.divergent = saved[1].grid.divergent
    BY <1>2, <2>1, WrittenIs DEF ReadRestartFile
  <2>3. stage = "loaded" /\ stage' = "exchange" /\ fromFile /\ cache' = saved[1].cache
    BY <1>2 DEF ReadRestartFile, At
  <2> QED  BY <1>2, <2>1, <2>2, <2>3
           DEF KeepsDivergence, SeedField, Restore, SettleField, MeshExchange, ReinitElectrons,
               Finish, Step, CleanField, ProblemGenerator, Crash, At
<1>3. CASE CleanField
  <2>1. CleanupDivergence(grid) \in Grids /\ ~CleanupDivergence(grid).divergent
    BY <1>0, CleanupTypes
  <2>2. /\ grid' = IF "B_Cleanup" \in loaded /\ grid.divergent
                   THEN CleanupDivergence(grid) ELSE grid
        /\ cache' = cache /\ stage = "clean" /\ stage' = "electrons"
    BY <1>3 DEF CleanField, UnchangedBut, At
  <2>3. grid' \in Grids /\ grid'.divergent = (grid.divergent /\ "B_Cleanup" \notin loaded)
    BY <1>0, <2>1, <2>2, Parts
  <2> QED  BY <1>0, <1>3, <2>2, <2>3
           DEF KeepsDivergence, SeedField, Restore, SettleField, MeshExchange, ReinitElectrons,
               Finish, Step, ReadRestartFile, ProblemGenerator, Crash, At
<1>4. CASE Crash
  BY <1>4, BlankIs
     DEF Crash, KeepsDivergence, SeedField, Restore, SettleField, MeshExchange,
         ReinitElectrons, Finish, Step, CleanField, ReadRestartFile, ProblemGenerator, At
<1>5. CASE KeepsDivergence
  <2>0. ~CleanField /\ ~ProblemGenerator /\ ~ReadRestartFile /\ ~Crash
    BY <1>5 DEF KeepsDivergence, SeedField, Restore, SettleField, MeshExchange, ReinitElectrons,
                Finish, Step, CleanField, ReadRestartFile, ProblemGenerator, Crash, At
  <2>1. grid' \in Grids /\ cache' \in Caches /\ grid'.divergent = grid.divergent
    <3>1. CASE SeedField
      BY <3>1, SeedTypes
    <3>2. CASE Restore
      BY <1>0, <3>2, RestoredIs DEF Restore, UnchangedBut
    <3>3. CASE SettleField
      <4>1. Frozen(grid) \in Caches
        BY <1>0, FrozenIs
      <4>2. CASE pin.b_solver # "none"
        <5>1. cache' = Frozen(grid) /\ grid' = SyncAllBounds(grid, cache')
          BY <3>3, <4>2 DEF SettleField, FreezeAndSync
        <5> QED  BY <1>0, <4>1, <5>1, SyncTypes
      <4>3. CASE pin.b_solver = "none"
        BY <1>0, <3>3, <4>3 DEF SettleField
      <4> QED  BY <4>2, <4>3
    <3>4. CASE MeshExchange
      BY <1>0, <3>4, SyncTypes DEF MeshExchange, UnchangedBut
    <3>5. CASE ReinitElectrons
      BY <1>0, <3>5, ElectronsAre DEF ReinitElectrons, UnchangedBut
    <3>6. CASE Finish
      <4>1. PICK g : g = PtoU(grid)
        OBVIOUS
      <4>2. g \in Grids /\ g.divergent = grid.divergent
        BY <1>0, <4>1, PtoUIs
      <4>3. cache' = Frozen(g) /\ grid' = WithTemperature(SyncAllBounds(g, cache'))
        BY <3>6, <4>1 DEF Finish
      <4>4. cache' \in Caches
        BY <1>0, <4>2, <4>3, FrozenIs
      <4>5. SyncAllBounds(g, cache') \in Grids /\ SyncAllBounds(g, cache').divergent = g.divergent
        BY <4>2, <4>4, SyncTypes
      <4> QED  BY <4>2, <4>3, <4>4, <4>5, TemperatureIs
    <3>7. CASE Step
      BY <1>0, <3>7, AdvancedIs DEF Step, UnchangedBut, MeshInv
    <3> QED  BY <1>5, <3>1, <3>2, <3>3, <3>4, <3>5, <3>6, <3>7 DEF KeepsDivergence
  <2> QED  BY <1>5, <2>0, <2>1
<1>6. CASE grid' = grid /\ cache' = cache /\ ~KeepsDivergence /\ ~CleanField
           /\ ~ProblemGenerator /\ ~ReadRestartFile /\ ~Crash
  BY <1>0, <1>6
<1>7. ASSUME \/ FixParameters \/ Load \/ EstimateTimestep \/ WriteRestart \/ UNCHANGED vars
      PROVE  grid' = grid /\ cache' = cache
  BY <1>7 DEF FixParameters, Load, EstimateTimestep, WriteRestart, UnchangedBut, vars, runVars
<1> QED  BY <1>1, <1>2, <1>3, <1>4, <1>5, <1>6, <1>7 DEF Next, Startup, KeepsDivergence

\* What changes the files, the restarts and the count of steps
LEMMA RunChanges ==
    ASSUME [Next]_vars
    PROVE  /\ deck' = deck
           /\ WriteRestart => /\ saved' # <<>> /\ saved'[1].pin = pin /\ saved'[1].grid = grid
                              /\ saved'[1].cache = cache /\ saved'[1].steps = steps
                              /\ stage = "looping" /\ stage' = "looping"
                              /\ UNCHANGED <<pin, loaded, grid, cache, steps>>
           /\ ~WriteRestart => saved' = saved
           /\ Crash => /\ fromFile' = (saved # <<>>) /\ stage' = "parameters" /\ steps' = 0
                       /\ pin' = IF saved # <<>> THEN saved[1].pin ELSE deck
           /\ ~Crash => fromFile' = fromFile
           /\ ReadRestartFile => steps' = saved[1].steps /\ fromFile
           /\ Step => steps' = steps + 1
           /\ ~Crash /\ ~ReadRestartFile /\ ~Step => steps' = steps
<1>1. CASE UNCHANGED vars
  <2>1. /\ UNCHANGED <<pin, stage, loaded, deck, grid, cache, steps, saved, fromFile, crashes,
                       inLoop>>
    BY <1>1 DEF vars, loadingVars, runVars
  <2>2. ~Crash => /\ (WriteRestart => saved' # <<>>) /\ ~ReadRestartFile /\ ~Step
    BY <2>1 DEF WriteRestart, Crash, ReadRestartFile, Step, At
  <2>3. WriteRestart => /\ saved'[1].pin = pin /\ saved'[1].grid = grid /\ saved'[1].cache = cache
                        /\ saved'[1].steps = steps /\ stage = "looping" /\ stage' = "looping"
                        /\ saved' # <<>>
    BY DEF WriteRestart, At
  <2>4. ~(Step)
    BY <2>1 DEF Step, At
  <2>5. ~(ReadRestartFile)
    BY <2>1 DEF ReadRestartFile, At
  <2>6. Crash => /\ fromFile' = (saved # <<>>) /\ stage' = "parameters" /\ steps' = 0
                 /\ pin' = IF saved # <<>> THEN saved[1].pin ELSE deck
    BY DEF Crash
  <2> QED  BY <2>1, <2>3, <2>4, <2>5, <2>6
<1>2. CASE Crash
  <2>1. stage' = "parameters" /\ ~WriteRestart /\ ~ReadRestartFile /\ ~Step
    BY <1>2 DEF Crash, WriteRestart, ReadRestartFile, Step, At
  <2> QED  BY <1>2, <2>1 DEF Crash
<1>3. CASE WriteRestart
  <2>1. stage = "looping" /\ stage' = "looping" /\ ~Crash /\ ~ReadRestartFile /\ ~Step
    BY <1>3 DEF Crash, WriteRestart, ReadRestartFile, Step, At
  <2> QED  BY <1>3, <2>1 DEF WriteRestart, UnchangedBut, PackagesKept
<1>4. CASE ReadRestartFile
  <2>1. stage' = "exchange" /\ ~Crash /\ ~WriteRestart /\ ~Step
    BY <1>4 DEF Crash, WriteRestart, ReadRestartFile, Step, At
  <2> QED  BY <1>4, <2>1 DEF ReadRestartFile, UnchangedBut, PackagesKept
<1>5. CASE Step
  BY <1>5 DEF WriteRestart, Crash, ReadRestartFile, Step, At, UnchangedBut, PackagesKept
<1>6. CASE FixParameters \/ Load
  <2>1. /\ UNCHANGED <<deck, fromFile, saved, steps, grid, cache, inLoop>>
        /\ stage' # "parameters"
    <3>1. Load => stage' # "parameters"
      <4>1. CASE ListPackages \/ (\E n \in waiting : AddPackage(n)) \/ TasksDone
        BY <4>1, FinalsAre DEF ListPackages, AddPackage, TasksDone
      <4>2. CASE \E i \in 1 .. Len(FinalPackages) : AddLast(i)
        BY <4>2, Indices, FinalsAre DEF AddLast
      <4> QED  BY <4>1, <4>2 DEF Load, LoadNext
    <3> QED  BY <1>6, <3>1 DEF FixParameters, Load, UnchangedBut, At
  <2>2. stage # "looping" /\ stage' \notin {"exchange", "timestep"}
    <3>1. CASE FixParameters
      BY <3>1 DEF FixParameters, At
    <3>2. CASE ListPackages \/ (\E n \in waiting : AddPackage(n)) \/ TasksDone
      BY <3>2, FinalsAre DEF ListPackages, AddPackage, TasksDone
    <3>3. CASE \E i \in 1 .. Len(FinalPackages) : AddLast(i)
      BY <3>3, Indices, FinalsAre DEF AddLast
    <3> QED  BY <1>6, <3>1, <3>2, <3>3 DEF Load, LoadNext
  <2> QED  BY <2>1, <2>2 DEF WriteRestart, Crash, ReadRestartFile, Step, At
<1>7. CASE \/ ProblemGenerator \/ MeshExchange \/ SeedField \/ Restore \/ SettleField
           \/ CleanField \/ ReinitElectrons \/ Finish \/ EstimateTimestep
  <2>1. /\ UNCHANGED <<deck, fromFile, saved, steps>> /\ stage # "looping"
        /\ stage' # "parameters"
    BY <1>7 DEF ProblemGenerator, MeshExchange, SeedField, Restore, SettleField, CleanField,
                ReinitElectrons, Finish, EstimateTimestep, UnchangedBut, At
  <2>2. ~WriteRestart /\ ~Crash /\ ~Step
    BY <2>1 DEF WriteRestart, Crash, Step, At
  <2>3. ReadRestartFile => stage = "loaded" /\ stage' = "exchange" /\ fromFile
    BY DEF ReadRestartFile, At
  <2>4. stage = "loaded" => ~fromFile
    BY <1>7 DEF ProblemGenerator, MeshExchange, SeedField, Restore, SettleField, CleanField,
                ReinitElectrons, Finish, EstimateTimestep, At
  <2> QED  BY <2>1, <2>2, <2>3, <2>4
<1> QED  BY <1>1, <1>2, <1>3, <1>4, <1>5, <1>6, <1>7 DEF Next, Startup

LEMMA MeshInvKept ==
    ASSUME MeshInv, [Next]_vars
    PROVE  MeshInv'
<1>1. grid' \in Grids /\ cache' \in Caches
  BY MeshTypes
<1>2. CASE WriteRestart
  BY <1>1, <1>2, RunChanges DEF MeshInv, Crash, WriteRestart, At, ReadRestartFile, Step
<1>3. CASE ~WriteRestart
  <2>1. saved' = saved
    BY <1>3, RunChanges
  <2>2. steps' \in Nat
    BY RunChanges DEF MeshInv
  <2>3. fromFile' \in BOOLEAN /\ (fromFile' => saved' # <<>>)
    <3>1. CASE Crash
      BY <2>1, <3>1 DEF Crash
    <3>2. CASE ~Crash
      <4>1. fromFile' = fromFile
        BY <3>2, RunChanges
      <4> QED  BY <2>1, <4>1 DEF MeshInv
    <3> QED  BY <3>1, <3>2
  <2> QED  BY <1>1, <2>1, <2>2, <2>3 DEF MeshInv
<1> QED  BY <1>2, <1>3

LEMMA MeshInvHolds == Spec => []MeshInv
<1>1. Init => MeshInv
  <2> SUFFICES ASSUME Init PROVE MeshInv
    OBVIOUS
  <2>1. grid = Blank /\ cache = EmptyCache /\ steps = 0 /\ saved = <<>> /\ fromFile = FALSE
    BY DEF Init
  <2> QED  BY <2>1, BlankIs DEF MeshInv
<1>2. MeshInv /\ [Next]_vars => MeshInv'
  BY MeshInvKept
<1> QED  BY <1>1, <1>2, PTL DEF Spec

-----------------------------------------------------------------------------
\* A resize that is restarted is one no more, and is not cleaned
NoLonger(p) ==
    deck.problem = "resize_restart" /\ p.problem # "resize_restart" /\ CleansOnce(deck) =>
        p.b_cleanup = "off"

ResizeInv ==
    /\ NoLonger(pin)
    /\ saved # <<>> => NoLonger(saved[1].pin)
    /\ fromFile /\ stage # "parameters" => pin.problem # "resize_restart"

Before == {"exchange", "seed", "restore", "settle", "clean"}    \* the cleanup is done

DivergenceInv ==
    /\ grid.divergent =>
          /\ deck.problem = "resize_restart" /\ stage \in Up
          /\ On(deck, "skip_b_cleanup") \/ (stage \in Before /\ "B_Cleanup" \in loaded)
    /\ saved # <<>> /\ saved[1].grid.divergent =>
          deck.problem = "resize_restart" /\ On(deck, "skip_b_cleanup")

\* The steps that change the parameters, and how
LEMMA PinChanges ==
    ASSUME LoadInv, [Next]_vars
    PROVE  \/ Load /\ ListPackages
           \/ FixParameters
           \/ Crash
           \/ /\ \A o \in Options \ {"driver", "fofc", "ismr", "ismr_nlevels", "reinitialize"} :
                    pin'[o] = pin[o]
              /\ stage = "parameters" => stage' = "parameters"
<1> DEFINE Same == \A o \in Options \ {"driver", "fofc", "ismr", "ismr_nlevels", "reinitialize"} :
                       pin'[o] = pin[o]
<1>1. CASE UNCHANGED vars
  BY <1>1 DEF vars, loadingVars
<1>2. CASE Moves
  BY <1>2 DEF Moves, Up
<1>3. CASE WriteRestart
  BY <1>3 DEF WriteRestart, PackagesKept, At
<1>4. CASE ReinitElectrons
  <2>1. stage = "electrons"
    BY <1>4 DEF ReinitElectrons, At
  <2>2. CASE pin' = pin
    BY <2>1, <2>2
  <2>3. CASE pin' = [pin EXCEPT !.reinitialize = "off"]
    <3>1. "reinitialize" \in Options /\ Assigns(pin)
      BY DEF Options, LoadInv, Follows
    <3>2. \A o \in Options \ {"reinitialize"} : pin'[o] = pin[o]
      BY <2>3, <3>1, OptionSet
    <3> QED  BY <2>1, <3>2
  <2> QED  BY <1>4, <2>2, <2>3 DEF ReinitElectrons
<1>5. CASE Load
  <2>1. CASE ListPackages
    BY <1>5, <2>1 DEF ListPackages
  <2>2. CASE \E n \in waiting : AddPackage(n)
    <3>1. PICK n \in waiting : AddPackage(n)
      BY <2>2
    <3>2. Assigns(pin) /\ pin' = PinAfter(n) /\ stage = "loading"
      BY <3>1 DEF AddPackage, LoadInv, Follows
    <3> QED  BY <3>2, PinAfterKeeps
  <2>3. CASE TasksDone
    BY <2>3, FinalsAre DEF TasksDone
  <2>4. CASE \E i \in 1 .. Len(FinalPackages) : AddLast(i)
    <3>1. PICK i \in 1 .. Len(FinalPackages) : AddLast(i)
      BY <2>4
    <3>2. Assigns(pin) /\ (pin' = pin \/ pin' = PinAfter(FinalPackages[i]))
      BY <3>1 DEF AddLast, LoadInv, Follows
    <3>3. stage # "parameters"
      BY <3>1, Indices, FinalsAre DEF AddLast
    <3> QED  BY <3>2, <3>3, PinAfterKeeps
  <2> QED  BY <1>5, <2>1, <2>2, <2>3, <2>4 DEF Load, LoadNext
<1> QED  BY <1>1, <1>2, <1>3, <1>4, <1>5, OthersMove DEF Next, Startup

LEMMA ResizeKept ==
    ASSUME LoadInv, MeshInv, ResizeInv, [Next]_vars
    PROVE  ResizeInv'
<1>1. deck' = deck
  BY RunChanges
<1>2. saved' # <<>> => NoLonger(saved'[1].pin)
  <2>1. CASE WriteRestart
    BY <2>1, RunChanges DEF ResizeInv
  <2>2. CASE ~WriteRestart
    BY <2>2, RunChanges DEF ResizeInv
  <2> QED  BY <2>1, <2>2
<1>3. Follows(pin) /\ deck \in Decks
  BY DEF LoadInv
<1>4. CASE Crash
  <2>1. stage' = "parameters" /\ pin' = IF saved # <<>> THEN saved[1].pin ELSE deck
    BY <1>4, RunChanges
  <2>2. NoLonger(pin')
    BY <2>1 DEF NoLonger, ResizeInv
  <2> QED  BY <1>1, <1>2, <2>1, <2>2 DEF ResizeInv, NoLonger
<1>5. CASE FixParameters
  <2>0. ~Crash
    BY <1>5 DEF FixParameters, Crash, At
  <2>1. fromFile' = fromFile
    BY <1>5, <2>0, RunChanges
  <2>2. CASE fromFile /\ pin.problem = "resize_restart"
    <3>1. PICK r : r = [pin EXCEPT !.problem = "resized_restart"]
      OBVIOUS
    <3>2. pin' = [r EXCEPT !.b_cleanup = "off"]
      BY <1>5, <2>2, <3>1 DEF FixParameters
    <3>3. "problem" \in Options /\ "b_cleanup" \in Options
      BY DEF Options
    <3>4. Assigns(r) /\ r.problem = "resized_restart"
      BY <1>3, <3>1, <3>3, OptionSet DEF Follows
    <3>5. pin'.b_cleanup = "off" /\ pin'.problem = r.problem
      BY <3>2, <3>3, <3>4, OptionSet
    <3> QED  BY <1>1, <1>2, <3>4, <3>5 DEF ResizeInv, NoLonger
  <2>3. CASE ~(fromFile /\ pin.problem = "resize_restart")
    <3>1. pin' = pin
      BY <1>5, <2>3 DEF FixParameters
    <3> QED  BY <1>1, <1>2, <2>1, <2>3, <3>1 DEF ResizeInv, NoLonger
  <2> QED  BY <2>2, <2>3
<1>6. CASE Load /\ ListPackages
  <2>1. fromFile' = fromFile /\ stage = "listing" /\ pin' = WithDefaults(pin)
    BY <1>6 DEF Load, UnchangedBut, ListPackages
  <2>2. /\ \A o \in Options \ {"implicit", "fofc", "b_cleanup", "entropy"} :
               WithDefaults(pin)[o] = pin[o]
        /\ WithDefaults(pin).b_cleanup =
              OnOff(\/ Get(pin, "b_cleanup", OnOff(pin.b_solver = "cleanup")) = "on"
                    \/ (pin.problem = "resize_restart" /\ ~On(pin, "skip_b_cleanup"))
                    \/ On(pin, "initial_cleanup"))
    BY <1>3, DefaultsAre DEF Follows
  <2>3. pin'.problem = pin.problem /\ pin.initial_cleanup = deck.initial_cleanup
    BY <1>3, <2>1, <2>2 DEF Options, Follows, Changing
  <2>4. NoLonger(pin')
    <3> SUFFICES ASSUME deck.problem = "resize_restart", pin.problem # "resize_restart",
                        CleansOnce(deck)
                 PROVE  pin'.b_cleanup = "off"
      BY <2>3 DEF NoLonger
    <3>1. pin.b_cleanup = "off" /\ ~On(pin, "initial_cleanup")
      BY <1>3, <2>3 DEF ResizeInv, NoLonger, CleansOnce, On
    <3> QED  BY <2>1, <2>2, <3>1 DEF OnOff, Get, On
  <2> QED  BY <1>1, <1>2, <2>1, <2>3, <2>4 DEF ResizeInv, NoLonger
<1>7. CASE /\ \A o \in Options \ {"driver", "fofc", "ismr", "ismr_nlevels", "reinitialize"} :
                  pin'[o] = pin[o]
           /\ stage = "parameters" => stage' = "parameters"
           /\ ~Crash
  <2>1. pin'.problem = pin.problem /\ pin'.b_cleanup = pin.b_cleanup
    BY <1>7 DEF Options
  <2>2. fromFile' = fromFile
    BY <1>7, RunChanges
  <2>3. fromFile' /\ stage' # "parameters" => pin'.problem # "resize_restart"
    BY <1>7, <2>1, <2>2 DEF ResizeInv, MeshInv
  <2>4. NoLonger(pin')
    BY <2>1 DEF ResizeInv, NoLonger
  <2> QED  BY <1>1, <1>2, <2>3, <2>4 DEF ResizeInv, NoLonger
<1> QED  BY <1>4, <1>5, <1>6, <1>7, PinChanges

LEMMA CleanupLoaded ==
    ASSUME LoadInv, stage \in {"loaded"} \cup Up
    PROVE  "B_Cleanup" \in loaded <=> On(pin, "b_cleanup")
<1>1. LoadedInv
  BY DEF LoadInv
<1>2. "B_Cleanup" \in Chosen(pin) <=> On(pin, "b_cleanup")
  BY DEF Chosen, Listed, If, BField
<1> QED  BY <1>1, <1>2 DEF LoadedInv, Finals

\* Packages stay once they are loaded; the cleanup's stage is left by it
LEMMA StagesUp ==
    ASSUME [Next]_vars, stage \in Up
    PROVE  \/ Crash
           \/ /\ stage' \in Up /\ loaded' = loaded
              /\ stage \in Before /\ stage' \notin Before => CleanField
<1>1. ~Load /\ ~FixParameters
  <2>1. CASE ListPackages \/ (\E n \in waiting : AddPackage(n)) \/ TasksDone
    BY <2>1 DEF ListPackages, AddPackage, TasksDone, Up
  <2>2. CASE \E i \in 1 .. Len(FinalPackages) : AddLast(i)
    BY <2>2, Indices, FinalsAre DEF AddLast, Up
  <2> QED  BY <2>1, <2>2 DEF Load, LoadNext, FixParameters, At, Up
<1>2. CASE UNCHANGED vars
  BY <1>2 DEF vars, loadingVars
<1>3. CASE \/ ProblemGenerator \/ ReadRestartFile \/ MeshExchange \/ SeedField \/ Restore
           \/ SettleField \/ CleanField \/ Finish \/ EstimateTimestep \/ Step
  <2>1. stage' \in Up /\ loaded' = loaded
    BY <1>3, OthersMove DEF Moves
  <2>2. stage \in Before /\ stage' \notin Before => CleanField
    BY <1>3 DEF ProblemGenerator, ReadRestartFile, MeshExchange, SeedField, Restore, SettleField,
                Finish, EstimateTimestep, Step, At, Before
  <2> QED  BY <2>1, <2>2
<1>4. CASE ReinitElectrons \/ WriteRestart
  BY <1>4 DEF ReinitElectrons, WriteRestart, At, PackagesKept, Up, Before
<1> QED  BY <1>1, <1>2, <1>3, <1>4 DEF Next, Startup

LEMMA DivergenceKept ==
    ASSUME LoadInv, MeshInv, DivergenceInv, [Next]_vars
    PROVE  DivergenceInv'
<1>1. deck' = deck
  BY RunChanges
<1>2. saved' # <<>> /\ saved'[1].grid.divergent =>
          deck.problem = "resize_restart" /\ On(deck, "skip_b_cleanup")
  <2>1. CASE WriteRestart
    <3>1. saved'[1].grid = grid /\ stage \notin Before
      BY <2>1, RunChanges DEF Before
    <3> QED  BY <3>1 DEF DivergenceInv
  <2>2. CASE ~WriteRestart
    BY <2>2, RunChanges DEF DivergenceInv
  <2> QED  BY <2>1, <2>2
<1>3. ASSUME grid'.divergent
      PROVE  /\ deck.problem = "resize_restart" /\ stage' \in Up
             /\ On(deck, "skip_b_cleanup") \/ (stage' \in Before /\ "B_Cleanup" \in loaded')
  <2>1. ~Crash
    BY <1>3, MeshTypes
  <2>2. CASE ProblemGenerator
    <3>1. /\ pin.problem = "resize_restart" /\ Follows(pin) /\ Settled(pin)
          /\ stage = "loaded" /\ stage' = "exchange" /\ loaded' = loaded
      BY <1>3, <2>2, MeshTypes
         DEF FacesResized, LoadInv, ProblemGenerator, At, PackagesKept
    <3>2. deck.problem = "resize_restart" /\ pin.skip_b_cleanup = deck.skip_b_cleanup
      BY <3>1 DEF Follows, Options, Changing
    <3>3. On(deck, "skip_b_cleanup") \/ "B_Cleanup" \in loaded
      BY <3>1, <3>2, CleanupLoaded DEF Settled, On
    <3> QED  BY <3>1, <3>2, <3>3 DEF Before, Up
  <2>3. CASE ReadRestartFile
    <3>1. saved[1].grid.divergent /\ saved # <<>> /\ stage' = "exchange"
      BY <1>3, <2>3, MeshTypes DEF ReadRestartFile, MeshInv, At
    <3> QED  BY <3>1 DEF DivergenceInv, Up
  <2>4. CASE CleanField
    <3>1. grid.divergent /\ "B_Cleanup" \notin loaded /\ stage' = "electrons"
      BY <1>3, <2>4, MeshTypes DEF CleanField, At
    <3> QED  BY <3>1 DEF DivergenceInv, Up
  <2>5. CASE ~ProblemGenerator /\ ~ReadRestartFile /\ ~CleanField
    <3>1. grid.divergent
      BY <1>3, <2>1, <2>5, MeshTypes
    <3>2. stage \in Up
      BY <3>1 DEF DivergenceInv
    <3>3. stage' \in Up /\ loaded' = loaded /\ (stage \in Before => stage' \in Before)
      BY <2>1, <2>5, <3>2, StagesUp
    <3> QED  BY <3>1, <3>3 DEF DivergenceInv
  <2> QED  BY <2>2, <2>3, <2>4, <2>5
<1> QED  BY <1>1, <1>2, <1>3 DEF DivergenceInv

(***************************************************************************)
(* If a resized run does not ask for an initial cleanup besides its own, a *)
(* field interpolated to a new mesh is cleaned before the first step and   *)
(* the first restart file, unless that is skipped, and not cleaned again   *)
(* by a restart: whatever the other options, steps and crashes.            *)
(***************************************************************************)
THEOREM FieldAlwaysCleaned ==
    ASSUME \A d \in Decks : CleansOnce(d)
    PROVE  Spec => []FieldCleaned
<1>1. Init => ResizeInv /\ DivergenceInv
  <2> SUFFICES ASSUME Init PROVE ResizeInv /\ DivergenceInv
    OBVIOUS
  <2>1. pin = deck /\ saved = <<>> /\ fromFile = FALSE /\ ~grid.divergent
    BY BlankIs DEF Init
  <2> QED  BY <2>1 DEF ResizeInv, NoLonger, DivergenceInv
<1>2. LoadInv /\ MeshInv /\ ResizeInv /\ DivergenceInv /\ [Next]_vars =>
          ResizeInv' /\ DivergenceInv'
  BY ResizeKept, DivergenceKept
<1>3. LoadInv /\ MeshInv /\ ResizeInv /\ DivergenceInv => FieldCleaned
  <2> SUFFICES ASSUME LoadInv, MeshInv, ResizeInv, DivergenceInv, stage = "looping"
               PROVE  /\ ~On(pin, "skip_b_cleanup") => ~grid.divergent
                      /\ fromFile /\ deck.problem = "resize_restart" => "B_Cleanup" \notin loaded
    BY DEF FieldCleaned
  <2>1. pin.skip_b_cleanup = deck.skip_b_cleanup
    BY DEF LoadInv, Follows, Options, Changing
  <2>2. ~On(pin, "skip_b_cleanup") => ~grid.divergent
    BY <2>1 DEF DivergenceInv, On, Before
  <2>3. ASSUME fromFile, deck.problem = "resize_restart"  PROVE "B_Cleanup" \notin loaded
    <3>1. pin.b_cleanup = "off"
      <4>1. pin.problem # "resize_restart" /\ CleansOnce(deck)
        BY <2>3 DEF ResizeInv, LoadInv
      <4> QED  BY <2>3, <4>1 DEF ResizeInv, NoLonger
    <3> QED  BY <3>1, CleanupLoaded DEF On, Up
  <2> QED  BY <2>2, <2>3
<1> QED  BY <1>1, <1>2, <1>3, LoadInvHolds, MeshInvHolds, PTL DEF Spec

-----------------------------------------------------------------------------
(***************************************************************************)
(* What a run evolves follows from its parameters; with decks that let the *)
(* driver exchange all of it, boundary exchanges fill it.                  *)
(***************************************************************************)
Running == stage \in {"loaded"} \cup Up

LEMMA RunIs ==
    ASSUME LoadInv, Running
    PROVE  /\ "fluid" \in Evolved /\ Evolved \subseteq Cells
           /\ "entropy" \in Evolved <=> On(pin, "entropy")
           /\ "electrons" \in Evolved <=> On(deck, "electrons")
           /\ "Ye" \in Evolved <=> On(deck, "Ye")
           /\ "emhd" \in Evolved <=> On(deck, "emhd")
           /\ "radiation" \in Evolved <=> On(deck, "radm1")
           /\ HasField <=> deck.b_solver \in {"face_ct", "flux_ct"}
           /\ "B_CT" \in loaded <=> deck.b_solver = "face_ct"
           /\ "B_FluxCT" \in loaded <=> deck.b_solver = "flux_ct"
           /\ "EMHD" \in loaded <=> On(deck, "emhd")
           /\ "Electrons" \in loaded <=> On(deck, "electrons")
           /\ "Temperature" \in loaded <=> On(deck, "Ye")
           /\ \A o \in Options \ Changing : pin[o] = deck[o]
           /\ SyncPrims(pin) <=> DriverType(deck) # "kharma"
           /\ deck \in Decks
<1>1. LoadedInv /\ Follows(pin) /\ Settled(pin) /\ deck \in Decks
  BY DEF LoadInv, Running
<1>2. \A o \in Options \ Changing : pin[o] = deck[o]
  BY <1>1 DEF Follows
<1>3. \A n : n \notin Finals \cup {"Inverter"} => (n \in loaded <=> n \in Listed(pin))
  BY <1>1 DEF LoadedInv, Chosen
<1>4. /\ pin.electrons = deck.electrons /\ pin.Ye = deck.Ye /\ pin.emhd = deck.emhd
      /\ pin.radm1 = deck.radm1 /\ pin.b_solver = deck.b_solver
  BY <1>2 DEF Options, Changing
<1>5. /\ "GRMHD" \in Listed(pin) /\ ("Entropy" \in Listed(pin) <=> On(pin, "entropy"))
      /\ "Electrons" \in Listed(pin) <=> On(pin, "electrons")
      /\ "Ye" \in Listed(pin) <=> On(pin, "Ye")
      /\ "EMHD" \in Listed(pin) <=> On(pin, "emhd")
      /\ "RadM1" \in Listed(pin) <=> On(pin, "radm1")
      /\ "Temperature" \in Listed(pin) <=> On(pin, "Ye")
      /\ "B_CT" \in Listed(pin) <=> pin.b_solver = "face_ct"
      /\ "B_FluxCT" \in Listed(pin) <=> pin.b_solver = "flux_ct"
  BY DEF Listed, If, BField
<1>6. /\ "GRMHD" \in loaded /\ ("Entropy" \in loaded <=> On(pin, "entropy"))
      /\ "Electrons" \in loaded <=> On(deck, "electrons")
      /\ "Ye" \in loaded <=> On(deck, "Ye")
      /\ "EMHD" \in loaded <=> On(deck, "emhd")
      /\ "RadM1" \in loaded <=> On(deck, "radm1")
      /\ "Temperature" \in loaded <=> On(deck, "Ye")
      /\ "B_CT" \in loaded <=> deck.b_solver = "face_ct"
      /\ "B_FluxCT" \in loaded <=> deck.b_solver = "flux_ct"
  BY <1>3, <1>4, <1>5 DEF Finals, On
<1>7. HasField <=> "B_CT" \in loaded \/ "B_FluxCT" \in loaded
  BY DEF HasField
<1>8. /\ "fluid" \in Evolved /\ Evolved \subseteq Cells
      /\ "entropy" \in Evolved <=> "Entropy" \in loaded
      /\ "electrons" \in Evolved <=> "Electrons" \in loaded
      /\ "Ye" \in Evolved <=> "Ye" \in loaded
      /\ "emhd" \in Evolved <=> "EMHD" \in loaded
      /\ "radiation" \in Evolved <=> "RadM1" \in loaded
  BY <1>6 DEF Evolved, Cells, PackageOf
<1>9. SyncPrims(pin) <=> DriverType(deck) # "kharma"
  BY <1>1 DEF SyncPrims, Follows
<1> QED  BY <1>1, <1>2, <1>6, <1>7, <1>8, <1>9

LEMMA ExchangesHold ==
    ASSUME LoadInv, Running, \A d \in Decks : ExchangesAll(d)
    PROVE  Exchanges
<1>1. /\ deck \in Decks /\ (SyncPrims(pin) <=> DriverType(deck) # "kharma")
      /\ \A o \in Options \ Changing : pin[o] = deck[o]
      /\ Evolved \subseteq Cells
      /\ "electrons" \in Evolved <=> On(deck, "electrons")
      /\ "Ye" \in Evolved <=> On(deck, "Ye")
      /\ "emhd" \in Evolved <=> On(deck, "emhd")
      /\ "radiation" \in Evolved <=> On(deck, "radm1")
  BY RunIs
<1>2. CASE SyncPrims(pin)
  BY <1>2 DEF Exchanges, FillGhostPrims
<1>3. CASE ~SyncPrims(pin)
  <2>1. /\ On(deck, "sync_utop_seed")
        /\ \A o \in {"electrons", "Ye", "emhd", "radm1"} : ~On(deck, o)
    BY <1>1, <1>3 DEF ExchangesAll
  <2>2. Evolved \subseteq {"fluid", "entropy"}
    BY <1>1, <2>1 DEF Cells
  <2>3. On(pin, "sync_utop_seed")
    BY <1>1, <2>1 DEF On, Options, Changing
  <2> QED  BY <2>2, <2>3 DEF Exchanges, FillGhostPrims
<1> QED  BY <1>2, <1>3

-----------------------------------------------------------------------------
(***************************************************************************)
(* The field is on faces and in cells alike from the settling on, and what *)
(* a step needs is ready from the end of the startup on.                   *)
(***************************************************************************)
FieldOK == HasField =>
    grid.field.interior = grid.face.interior /\ grid.field.ghost = grid.face.interior

Filled(x) == x.ghost = x.interior /\ (~Dirichlet => x.domain = x.interior)

Ready ==
    /\ \A v \in Evolved : Filled(grid.prims[v])
    /\ HasField => Filled(grid.face) /\ grid.field = grid.face
    /\ grid.energy.interior = grid.field.interior
    /\ "Temperature" \in loaded => grid.temperature = grid.prims.fluid

SpeedsInv ==
    /\ inLoop => speeds \/ (fromFile /\ stage \in {"exchange", "seed", "restore"})
    /\ dtFrom = "ctop" => speeds

ReadyInv ==
    /\ stage \in {"exchange", "seed", "restore"} /\ ~fromFile => FieldOK
    /\ stage \in {"seed", "restore"} /\ fromFile /\ HasField =>
          grid.face.ghost = grid.face.interior
    /\ stage \in {"settle", "clean", "electrons", "finish"} => FieldOK
    /\ stage \in {"timestep", "looping"} => Ready

\* Steps that leave the packages alone leave what they decide
LEMMA Fixed ==
    ASSUME UNCHANGED <<pin, loaded>>
    PROVE  /\ HasField' = HasField /\ Evolved' = Evolved /\ Dirichlet' = Dirichlet
           /\ FillGhostPrims' = FillGhostPrims /\ FillGhostCons' = FillGhostCons
BY DEF HasField, Evolved, Dirichlet, FillGhostPrims, FillGhostCons

LEMMA FrozenFilled ==
    ASSUME NEW g \in Grids, cache \in Caches, Exchanges
    PROVE  Frozen(g) \in Caches /\ Filling(g, Frozen(g), SyncAllBounds(g, Frozen(g)))
BY FrozenIs, SyncIs

LEMMA GeneratorReady ==
    ASSUME LoadInv, MeshInv, \A d \in Decks : FieldComes(d), ProblemGenerator
    PROVE  FieldOK'
<1>1. Running /\ UNCHANGED <<pin, loaded>>
  BY DEF ProblemGenerator, Running, At, PackagesKept
<1>2. /\ deck \in Decks /\ pin.regrid_only = deck.regrid_only
      /\ "B_CT" \in loaded <=> deck.b_solver = "face_ct"
  BY <1>1, RunIs DEF Options, Changing
<1>3. pin.problem = "resize_restart" => deck.problem = "resize_restart"
  BY DEF LoadInv, Follows
<1>4. PICK p : p = ProblemState
  OBVIOUS
<1>5. /\ p \in Grids
      /\ p.field = IF pin.problem = "resize_restart" /\ HasField
                   THEN Everywhere(1) ELSE Everywhere(0)
      /\ p.face = IF FacesResized THEN Everywhere(1) ELSE Everywhere(0)
  BY <1>4, ProblemIs
<1>6. /\ grid'.face = IF "B_FluxCT" \in loaded THEN p.field ELSE p.face
      /\ grid'.field = p.field
  BY <1>4, <1>5, PtoUIs DEF ProblemGenerator
<1>7. HasField /\ "B_FluxCT" \notin loaded => "B_CT" \in loaded
  BY DEF HasField
<1>8. ASSUME HasField  PROVE grid'.face = grid'.field /\ grid'.field.ghost = grid'.field.interior
  <2>1. p.field.ghost = p.field.interior
    BY <1>5, EverywhereIs
  <2>2. CASE "B_FluxCT" \in loaded
    BY <1>6, <2>1, <2>2
  <2>3. CASE "B_FluxCT" \notin loaded
    <3>1. pin.problem = "resize_restart" => ~On(pin, "regrid_only")
      BY <1>2, <1>3, <1>7, <1>8, <2>3 DEF FieldComes, On
    <3>2. p.face = p.field
      BY <1>5, <1>8, <3>1 DEF FacesResized
    <3> QED  BY <1>6, <2>1, <2>3, <3>2
  <2> QED  BY <2>2, <2>3
<1> QED  BY <1>1, <1>8, Fixed DEF FieldOK

LEMMA SeedReady ==
    ASSUME LoadInv, MeshInv, Exchanges, FieldOK, SeedField
    PROVE  FieldOK'
<1>1. UNCHANGED <<pin, loaded>> /\ grid \in Grids /\ cache \in Caches
  BY DEF SeedField, PackagesKept, MeshInv
<1>2. CASE ~SeedsField
  BY <1>1, <1>2, Fixed DEF SeedField, FieldOK
<1>3. CASE SeedsField
  <2>0. stage \in Up
    BY DEF SeedField, At, Up
  <2>1. "fluid" \in Evolved /\ "fluid" \in Cells
    BY <2>0, RunIs DEF Running, Cells
  <2>2. PICK c : c = Frozen(grid)
    OBVIOUS
  <2>3. PICK s : s = SyncAllBounds(grid, c)
    OBVIOUS
  <2>4. c \in Caches /\ Filling(grid, c, s) /\ cache' = c
    BY <1>1, <1>3, <2>2, <2>3, FrozenFilled DEF SeedField
  <2>5. s \in Grids /\ s.prims.fluid.ghost = s.prims.fluid.interior
    BY <2>1, <2>4 DEF Filling
  <2>6. PICK g : g = Seeded(s)
    OBVIOUS
  <2>7. g \in Grids /\ g.face = s.prims.fluid /\ g.field = s.prims.fluid
    BY <2>5, <2>6, SeededIs
  <2>8. PICK t : t = SyncAllBounds(g, c)
    OBVIOUS
  <2>9. Filling(g, c, t)
    BY <2>4, <2>7, <2>8, SyncIs
  <2>10. grid' = IF On(pin, "norm") THEN Normalized(t) ELSE g
    BY <1>3, <2>3, <2>4, <2>6, <2>8 DEF SeedField
  <2>11. CASE ~On(pin, "norm")
    <3>1. grid'.field.interior = grid'.face.interior /\ grid'.field.ghost = grid'.face.interior
      BY <2>5, <2>7, <2>10, <2>11
    <3> QED  BY <3>1 DEF FieldOK
  <2>12. CASE On(pin, "norm")
    <3> SUFFICES ASSUME HasField
                 PROVE  /\ grid'.field.interior = grid'.face.interior
                        /\ grid'.field.ghost = grid'.face.interior
      BY <1>1, Fixed DEF FieldOK
    <3>1. PICK field : field = IF "B_CT" \in loaded THEN t.face ELSE t.field
      OBVIOUS
    <3>2. /\ grid'.face.interior = 2 * t.face.interior
          /\ grid'.field.interior = 2 * field.interior /\ grid'.field.ghost = 2 * field.ghost
      <4>1. t \in Grids /\ grid' = Normalized(t)
        BY <2>9, <2>10, <2>12 DEF Filling
      <4> QED  BY <3>1, <4>1, NormalizedIs
    <3>3. t.face.ghost = t.face.interior /\ t.field.interior = t.face.interior
          /\ t.field.ghost = t.face.interior
      BY <2>5, <2>7, <2>9 DEF Filling
    <3> QED  BY <3>1, <3>2, <3>3
  <2> QED  BY <2>11, <2>12
<1> QED  BY <1>2, <1>3

LEMMA RestoreReady ==
    ASSUME LoadInv, MeshInv, ResizeInv, \A d \in Decks : FieldComes(d), Restore,
           ~fromFile => FieldOK,
           fromFile /\ HasField => grid.face.ghost = grid.face.interior
    PROVE  FieldOK'
<1>1. UNCHANGED <<pin, loaded>> /\ grid \in Grids /\ stage = "restore" /\ Running
  BY DEF Restore, PackagesKept, MeshInv, At, Running, Up
<1>2. CASE ~IsRestart
  BY <1>1, <1>2, Fixed DEF Restore, FieldOK, IsRestart
<1>3. CASE IsRestart
  <2>1. /\ grid'.face = IF FromPrims /\ "B_FluxCT" \in loaded THEN grid.field ELSE grid.face
        /\ grid'.field = IF ~FromPrims /\ HasField THEN grid.face ELSE grid.field
    <3>1. grid' = Restored(grid)
      BY <1>3 DEF Restore
    <3> QED  BY <1>1, <3>1, RestoredIs
  <2>2. ~On(pin, "restart_from_prims")
    BY <1>1, RunIs DEF FieldComes, On, Options, Changing
  <2>3. fromFile => ~FromPrims
    BY <1>1, <2>2 DEF FromPrims, ResizeInv
  <2>4. CASE fromFile
    <3>1. HasField => /\ grid'.face = grid.face /\ grid'.field = grid.face
                      /\ grid.face.ghost = grid.face.interior
      BY <2>1, <2>3, <2>4
    <3>2. HasField' = HasField
      BY <1>1, Fixed
    <3> QED  BY <3>1, <3>2 DEF FieldOK
  <2>5. CASE ~fromFile
    <3>1. HasField => /\ grid.field.interior = grid.face.interior
                      /\ grid.field.ghost = grid.face.interior
      BY <2>5 DEF FieldOK
    <3>2. FromPrims
      BY <1>3, <2>5 DEF IsRestart, FromPrims
    <3>3. HasField => /\ grid'.field.interior = grid'.face.interior
                      /\ grid'.field.ghost = grid'.face.interior
      BY <2>1, <3>1, <3>2
    <3>4. HasField' = HasField
      BY <1>1, Fixed
    <3> QED  BY <3>3, <3>4 DEF FieldOK
  <2> QED  BY <2>4, <2>5
<1> QED  BY <1>2, <1>3

LEMMA SettleReady ==
    ASSUME MeshInv, Exchanges, FieldOK, SettleField
    PROVE  FieldOK'
<1>1. UNCHANGED <<pin, loaded>> /\ grid \in Grids /\ cache \in Caches
  BY DEF SettleField, PackagesKept, MeshInv
<1>2. CASE pin.b_solver = "none"
  BY <1>1, <1>2, Fixed DEF SettleField, FieldOK
<1>3. CASE pin.b_solver # "none"
  <2>1. Filling(grid, Frozen(grid), grid')
    BY <1>1, <1>3, FrozenFilled DEF SettleField, FreezeAndSync
  <2>2. HasField => /\ grid'.field.interior = grid'.face.interior
                    /\ grid'.field.ghost = grid'.face.interior
    BY <2>1 DEF Filling, FieldOK
  <2> QED  BY <1>1, <2>2, Fixed DEF FieldOK
<1> QED  BY <1>2, <1>3

\* What a cleanup leaves
LEMMA CleanupFills ==
    ASSUME NEW g \in Grids, cache \in Caches, Exchanges
    PROVE  LET h == CleanupDivergence(g)
           IN  /\ h \in Grids
               /\ \A v \in Cells : h.prims[v].interior = g.prims[v].interior
               /\ \A v \in Cells \ Evolved : h.prims[v] = g.prims[v]
               /\ \A v \in Evolved :
                     /\ h.cons[v].domain = h.prims[v].domain
                     /\ Dirichlet => \/ h.prims[v].domain = cache.prims[v]
                                     \/ v \in FillGhostCons /\ h.prims[v].domain = cache.cons[v]
               /\ HasField => /\ h.field = h.face /\ h.face.ghost = h.face.interior
                              /\ Dirichlet => h.face.domain = cache.face
               /\ h.temperature = g.temperature
<1>1. PICK s : s = SyncAllBounds(g, cache)
  OBVIOUS
<1>2. PICK x : x = Solved(s)
  OBVIOUS
<1>3. PICK t : t = SyncAllBounds(x, cache)
  OBVIOUS
<1>4. Filling(g, cache, s)
  BY <1>1, SyncIs
<1>5. x \in Grids /\ x.prims = s.prims /\ x.cons = s.cons /\ x.temperature = s.temperature
  BY <1>2, <1>4, SolvedIs DEF Filling
<1>6. Filling(x, cache, t)
  BY <1>3, <1>5, SyncIs
<1>7. PICK h : h = CleanupDivergence(g)
  OBVIOUS
<1>8. /\ h \in Grids /\ h.prims = t.prims /\ h.cons = t.cons /\ h.face = t.face
      /\ h.field = IF HasField THEN t.face ELSE t.field
      /\ h.temperature = t.temperature
  <2>1. h = FieldUtoP(t) /\ t \in Grids
    BY <1>1, <1>2, <1>3, <1>6, <1>7, CleanupIs DEF Filling
  <2> QED  BY <2>1, FieldUtoPIs
<1>9. /\ \A v \in Cells : h.prims[v].interior = g.prims[v].interior
      /\ \A v \in Cells \ Evolved : h.prims[v] = g.prims[v]
  BY <1>4, <1>5, <1>6, <1>8 DEF Filling
<1>10. \A v \in Evolved :
          /\ h.cons[v].domain = h.prims[v].domain
          /\ Dirichlet => \/ h.prims[v].domain = cache.prims[v]
                          \/ v \in FillGhostCons /\ h.prims[v].domain = cache.cons[v]
  BY <1>6, <1>8 DEF Filling
<1>11. HasField => /\ h.field = h.face /\ h.face.ghost = h.face.interior
                   /\ Dirichlet => h.face.domain = cache.face
  BY <1>6, <1>8 DEF Filling
<1>12. h.temperature = g.temperature
  BY <1>4, <1>5, <1>6, <1>8 DEF Filling
<1> QED  BY <1>7, <1>8, <1>9, <1>10, <1>11, <1>12

LEMMA CleanReady ==
    ASSUME MeshInv, Exchanges, FieldOK, CleanField
    PROVE  FieldOK'
<1>1. UNCHANGED <<pin, loaded>> /\ grid \in Grids /\ cache \in Caches
  BY DEF CleanField, PackagesKept, MeshInv
<1>2. CASE ~("B_Cleanup" \in loaded /\ grid.divergent)
  BY <1>1, <1>2, Fixed DEF CleanField, FieldOK
<1>3. CASE "B_Cleanup" \in loaded /\ grid.divergent
  <2>1. HasField => grid'.field = grid'.face /\ grid'.face.ghost = grid'.face.interior
    BY <1>1, <1>3, CleanupFills DEF CleanField
  <2> QED  BY <1>1, <2>1, Fixed DEF FieldOK
<1> QED  BY <1>2, <1>3

\* What the last conversion and exchange leave
LEMMA FinishIs ==
    ASSUME MeshInv, Exchanges, Finish
    PROVE  /\ grid' \in Grids
           /\ \A v \in Cells : /\ grid'.prims[v].interior = grid.prims[v].interior
                               /\ grid'.cons[v].interior = grid.prims[v].interior
           /\ \A v \in Cells \ Evolved : grid'.prims[v] = grid.prims[v]
           /\ \A v \in Evolved :
                 /\ grid'.prims[v].ghost = grid.prims[v].interior
                 /\ grid'.cons[v].domain = grid'.prims[v].domain
                 /\ ~Dirichlet => grid'.prims[v].domain = grid.prims[v].interior
                 /\ Dirichlet => grid'.prims[v].domain = grid.prims[v].domain
           /\ Dirichlet =>
                 /\ \A v \in FillGhostPrims : cache'.prims[v] = grid.prims[v].domain
                 /\ \A v \in FillGhostCons : cache'.cons[v] = grid.prims[v].domain
           /\ HasField =>
                 LET face == IF "B_FluxCT" \in loaded THEN grid.field ELSE grid.face
                 IN  /\ grid'.face.interior = face.interior
                     /\ grid'.face.ghost = face.interior
                     /\ ~Dirichlet => grid'.face.domain = face.interior
                     /\ Dirichlet => /\ grid'.face.domain = face.domain
                                     /\ cache'.face = face.domain
                     /\ grid'.field.domain = grid'.face.domain
                     /\ grid'.field.ghost \in {grid.field.ghost, face.interior}
           /\ ~HasField => grid'.face = grid.face /\ grid'.field = grid.field
           /\ grid'.field.interior = grid.field.interior
           /\ grid'.energy.interior = grid.field.interior
           /\ grid'.temperature =
                 IF "Temperature" \in loaded THEN grid'.prims.fluid ELSE grid.temperature
           /\ ~Dirichlet => cache' = cache
<1>1. grid \in Grids /\ cache \in Caches
  BY DEF MeshInv
<1>2. PICK g : g = PtoU(grid)
  OBVIOUS
<1>3. /\ g \in Grids /\ g.prims = grid.prims /\ g.cons = grid.prims /\ g.field = grid.field
      /\ g.face = IF "B_FluxCT" \in loaded THEN grid.field ELSE grid.face
      /\ g.energy = grid.field /\ g.temperature = grid.temperature
  BY <1>1, <1>2, PtoUIs
<1>4. PICK c : c = Frozen(g)
  OBVIOUS
<1>5. /\ c \in Caches /\ (~Dirichlet => c = cache)
      /\ Dirichlet => /\ \A v \in FillGhostPrims : c.prims[v] = g.prims[v].domain
                      /\ \A v \in FillGhostCons : c.cons[v] = g.cons[v].domain
                      /\ HasField => c.face = g.face.domain
  BY <1>1, <1>3, <1>4, FrozenIs
<1>6. PICK h : h = SyncAllBounds(g, c)
  OBVIOUS
<1>7. Filling(g, c, h)
  BY <1>3, <1>5, <1>6, SyncIs
<1>8. cache' = c /\ grid' = WithTemperature(h)
  BY <1>2, <1>4, <1>6 DEF Finish
<1>9. /\ grid' \in Grids /\ grid'.prims = h.prims /\ grid'.cons = h.cons
      /\ grid'.face = h.face /\ grid'.field = h.field /\ grid'.energy = h.energy
      /\ grid'.temperature = IF "Temperature" \in loaded THEN h.prims.fluid ELSE h.temperature
  BY <1>7, <1>8, TemperatureIs DEF Filling
<1>10. \A v \in Cells : /\ grid'.prims[v].interior = grid.prims[v].interior
                        /\ grid'.cons[v].interior = grid.prims[v].interior
  BY <1>3, <1>7, <1>9 DEF Filling
<1>11. \A v \in Cells \ Evolved : grid'.prims[v] = grid.prims[v]
  BY <1>3, <1>7, <1>9 DEF Filling
<1>12. FillGhostPrims = Evolved
  BY DEF Exchanges
<1>13. ASSUME NEW v \in Evolved
       PROVE  /\ grid'.prims[v].ghost = grid.prims[v].interior
              /\ grid'.cons[v].domain = grid'.prims[v].domain
              /\ ~Dirichlet => grid'.prims[v].domain = grid.prims[v].interior
              /\ Dirichlet => grid'.prims[v].domain = grid.prims[v].domain
  <2>1. /\ h.prims[v].ghost = g.prims[v].interior
        /\ h.cons[v].domain = h.prims[v].domain
        /\ ~Dirichlet => h.prims[v].domain \in {g.prims[v].interior, g.cons[v].interior}
        /\ Dirichlet => \/ h.prims[v].domain = c.prims[v]
                        \/ v \in FillGhostCons /\ h.prims[v].domain = c.cons[v]
    BY <1>7 DEF Filling
  <2> QED  BY <1>3, <1>5, <1>9, <1>12, <2>1
<1>14. HasField =>
          /\ h.face.interior = g.face.interior /\ h.face.ghost = g.face.interior
          /\ h.face.domain = IF Dirichlet THEN c.face ELSE g.face.interior
          /\ h.field.domain = h.face.domain
          /\ h.field.ghost \in {g.field.ghost, g.face.interior}
  BY <1>7 DEF Filling
<1>15. ~HasField => h.face = g.face /\ h.field = g.field
  BY <1>7 DEF Filling
<1>16. ~HasField => g.face = grid.face
  BY <1>3 DEF HasField
<1>17. h.field.interior = g.field.interior /\ h.energy.interior = g.energy.interior
       /\ h.temperature = g.temperature
  BY <1>7 DEF Filling
<1>18. Dirichlet => /\ \A v \in FillGhostPrims : cache'.prims[v] = grid.prims[v].domain
                    /\ \A v \in FillGhostCons : cache'.cons[v] = grid.prims[v].domain
  BY <1>3, <1>5, <1>8
<1>19. HasField =>
          LET face == IF "B_FluxCT" \in loaded THEN grid.field ELSE grid.face
          IN  /\ grid'.face.interior = face.interior
              /\ grid'.face.ghost = face.interior
              /\ ~Dirichlet => grid'.face.domain = face.interior
              /\ Dirichlet => /\ grid'.face.domain = face.domain
                              /\ cache'.face = face.domain
              /\ grid'.field.domain = grid'.face.domain
              /\ grid'.field.ghost \in {grid.field.ghost, face.interior}
  BY <1>3, <1>5, <1>8, <1>9, <1>14
<1> QED  BY <1>3, <1>5, <1>8, <1>9, <1>10, <1>11, <1>13, <1>15, <1>16, <1>17, <1>18, <1>19

LEMMA FinishReady ==
    ASSUME LoadInv, MeshInv, Exchanges, FieldOK, Finish
    PROVE  Ready'
<1>1. /\ UNCHANGED <<pin, loaded>> /\ grid \in Grids /\ stage = "finish"
      /\ grid.field \in Values
  BY Parts DEF Finish, PackagesKept, MeshInv, At
<1>2. Evolved \subseteq Cells
  BY DEF Evolved
<1>3. \A v \in Evolved : Filled(grid'.prims[v])
  BY <1>2, FinishIs DEF Filled
<1>4. HasField => Filled(grid'.face) /\ grid'.field = grid'.face
  <2> SUFFICES ASSUME HasField
               PROVE  Filled(grid'.face) /\ grid'.field = grid'.face
    OBVIOUS
  <2>1. PICK face : face = IF "B_FluxCT" \in loaded THEN grid.field ELSE grid.face
    OBVIOUS
  <2>2. /\ grid'.face.interior = face.interior /\ grid'.face.ghost = face.interior
        /\ ~Dirichlet => grid'.face.domain = face.interior
        /\ grid'.field.domain = grid'.face.domain
        /\ grid'.field.ghost \in {grid.field.ghost, face.interior}
        /\ grid'.field.interior = grid.field.interior
        /\ grid' \in Grids
    BY <2>1, FinishIs
  <2>3. face.interior = grid.field.interior /\ grid.field.ghost = face.interior
    BY <2>1 DEF FieldOK
  <2>4. grid'.field = grid'.face
    BY <2>2, <2>3, Parts, Zones
  <2> QED  BY <2>2, <2>4 DEF Filled
<1>5. /\ grid'.energy.interior = grid'.field.interior
      /\ "Temperature" \in loaded => grid'.temperature = grid'.prims.fluid
  BY FinishIs
<1> QED  BY <1>1, <1>3, <1>4, <1>5, Fixed DEF Ready, Filled

LEMMA StepReady ==
    ASSUME LoadInv, MeshInv, Ready, Step
    PROVE  Ready'
<1>1. /\ UNCHANGED <<pin, loaded>> /\ grid \in Grids /\ steps \in Nat
      /\ grid' = Advanced(grid) /\ stage = "looping"
  BY DEF Step, PackagesKept, MeshInv, At
<1>2. PICK n : n = 10 + steps
  OBVIOUS
<1>3. /\ grid' \in Grids
      /\ \A v \in Evolved :
            /\ grid'.prims[v].interior = n /\ grid'.prims[v].ghost = n
            /\ grid'.prims[v].domain = IF Dirichlet THEN grid.prims[v].domain ELSE n
      /\ HasField =>
            /\ grid'.face.interior = n /\ grid'.face.ghost = n
            /\ grid'.face.domain = IF Dirichlet THEN grid.face.domain ELSE n
            /\ grid'.field.interior = n /\ grid'.field.ghost = n
            /\ grid'.field.domain = IF Dirichlet THEN grid.field.domain ELSE n
            /\ grid'.energy.interior = n
      /\ ~HasField => grid'.field = grid.field /\ grid'.energy = grid.energy
      /\ "Temperature" \in loaded => grid'.temperature = grid'.prims.fluid
  BY <1>1, <1>2, AdvancedIs
<1>4. \A v \in Evolved : Filled(grid'.prims[v])
  BY <1>3 DEF Filled
<1>5. HasField => Filled(grid'.face) /\ grid'.field = grid'.face
  <2> SUFFICES ASSUME HasField PROVE Filled(grid'.face) /\ grid'.field = grid'.face
    OBVIOUS
  <2>1. grid.field = grid.face
    BY DEF Ready
  <2> QED  BY <1>3, <2>1, Parts, Zones DEF Filled
<1>6. grid'.energy.interior = grid'.field.interior
  BY <1>3 DEF Ready
<1> QED  BY <1>1, <1>3, <1>4, <1>5, <1>6, Fixed DEF Ready, Filled

\* Before and after the mesh's own exchange
LEMMA MeetReady ==
    ASSUME LoadInv, MeshInv, Exchanges, MeshExchange
    PROVE  /\ HasField => grid'.face.ghost = grid'.face.interior
           /\ FieldOK => FieldOK'
<1>1. /\ UNCHANGED <<pin, loaded>> /\ grid \in Grids /\ cache \in Caches
      /\ grid' = DomainLockstep(Exchanged(grid, cache))
  BY DEF MeshExchange, PackagesKept, MeshInv
<1>2. Filling(grid, cache, grid')
  BY <1>1, MetIs
<1>3. HasField => /\ grid'.face.interior = grid.face.interior
                  /\ grid'.face.ghost = grid.face.interior
                  /\ grid'.field.ghost \in {grid.field.ghost, grid.face.interior}
                  /\ grid'.field.interior = grid.field.interior
  BY <1>2 DEF Filling
<1>4. HasField' = HasField
  BY <1>1, Fixed
<1> QED  BY <1>3, <1>4 DEF FieldOK

LEMMA IntoUp ==
    ASSUME [Next]_vars, stage' \in Up
    PROVE  \/ UNCHANGED vars
           \/ ProblemGenerator \/ ReadRestartFile \/ MeshExchange \/ SeedField \/ Restore
           \/ SettleField \/ CleanField \/ ReinitElectrons \/ Finish \/ EstimateTimestep
           \/ Step \/ WriteRestart
<1>1. CASE Load
  <2>1. CASE ListPackages \/ (\E n \in waiting : AddPackage(n)) \/ TasksDone
    BY <2>1, FinalsAre DEF ListPackages, AddPackage, TasksDone, Up
  <2>2. CASE \E i \in 1 .. Len(FinalPackages) : AddLast(i)
    BY <2>2, Indices, FinalsAre DEF AddLast, Up
  <2> QED  BY <1>1, <2>1, <2>2 DEF Load, LoadNext
<1>2. ~FixParameters /\ ~Crash
  BY DEF FixParameters, Crash, At, Up
<1> QED  BY <1>1, <1>2 DEF Next, Startup

LEMMA ReadyKept ==
    ASSUME \A d \in Decks : ExchangesAll(d) /\ FieldComes(d), LoadInv, MeshInv, ResizeInv,
           ReadyInv, [Next]_vars
    PROVE  ReadyInv'
<1>1. CASE stage' \notin Up
  BY <1>1 DEF ReadyInv, Up
<1>2. CASE stage' \in Up
  <2>1. stage \in Up => Exchanges
    BY ExchangesHold DEF Running
  <2>2. CASE UNCHANGED vars
    <3>1. /\ UNCHANGED <<pin, stage, loaded, grid, fromFile>>
      BY <2>2 DEF vars, loadingVars, runVars
    <3> QED  BY <3>1, Fixed DEF ReadyInv, FieldOK, Ready, Filled
  <2>3. CASE ProblemGenerator
    <3>1. stage' = "exchange"
      BY <2>3 DEF ProblemGenerator, At
    <3> QED  BY <2>3, <3>1, GeneratorReady DEF ReadyInv
  <2>4. CASE ReadRestartFile
    <3>1. stage' = "exchange" /\ fromFile /\ fromFile' = fromFile
      BY <2>4 DEF ReadRestartFile, At, UnchangedBut
    <3> QED  BY <3>1 DEF ReadyInv
  <2>5. CASE MeshExchange
    <3>1. /\ stage = "exchange" /\ stage' = "seed" /\ fromFile' = fromFile
          /\ HasField' = HasField
      BY <2>5, Fixed DEF MeshExchange, At, UnchangedBut, PackagesKept
    <3>2. Exchanges
      BY <2>1, <3>1 DEF Up
    <3> QED  BY <2>5, <3>1, <3>2, MeetReady DEF ReadyInv
  <2>6. CASE SeedField
    <3>1. /\ stage = "seed" /\ stage' = "restore" /\ fromFile' = fromFile
          /\ HasField' = HasField
      BY <2>6, Fixed DEF SeedField, At, UnchangedBut, PackagesKept
    <3>2. Exchanges
      BY <2>1, <3>1 DEF Up
    <3>3. CASE fromFile
      <4>1. grid' = grid
        BY <2>6, <3>3 DEF SeedField, SeedsField, IsRestart
      <4> QED  BY <3>1, <3>3, <4>1 DEF ReadyInv
    <3>4. CASE ~fromFile
      BY <2>6, <3>1, <3>2, <3>4, SeedReady DEF ReadyInv
    <3> QED  BY <3>3, <3>4
  <2>7. CASE Restore
    <3>1. stage = "restore" /\ stage' = "settle"
      BY <2>7 DEF Restore, At
    <3> QED  BY <2>7, <3>1, RestoreReady DEF ReadyInv
  <2>8. CASE SettleField
    <3>1. stage = "settle" /\ stage' = "clean"
      BY <2>8 DEF SettleField, At
    <3>2. Exchanges
      BY <2>1, <3>1 DEF Up
    <3> QED  BY <2>8, <3>1, <3>2, SettleReady DEF ReadyInv
  <2>9. CASE CleanField
    <3>1. stage = "clean" /\ stage' = "electrons"
      BY <2>9 DEF CleanField, At
    <3>2. Exchanges
      BY <2>1, <3>1 DEF Up
    <3> QED  BY <2>9, <3>1, <3>2, CleanReady DEF ReadyInv
  <2>10. CASE ReinitElectrons
    <3>1. stage = "electrons" /\ stage' = "finish" /\ loaded' = loaded /\ grid \in Grids
      BY <2>10 DEF ReinitElectrons, At, MeshInv
    <3>2. grid'.face = grid.face /\ grid'.field = grid.field
      BY <2>10, <3>1, ElectronsAre DEF ReinitElectrons
    <3>3. HasField' = HasField
      BY <3>1 DEF HasField
    <3> QED  BY <3>1, <3>2, <3>3 DEF ReadyInv, FieldOK
  <2>11. CASE Finish
    <3>1. stage = "finish" /\ stage' = "timestep"
      BY <2>11 DEF Finish, At
    <3>2. Exchanges
      BY <2>1, <3>1 DEF Up
    <3> QED  BY <2>11, <3>1, <3>2, FinishReady DEF ReadyInv
  <2>12. CASE EstimateTimestep \/ WriteRestart
    <3>1. /\ UNCHANGED <<pin, loaded, grid>> /\ stage \in {"timestep", "looping"}
          /\ stage' = "looping"
      BY <2>12 DEF EstimateTimestep, WriteRestart, At, PackagesKept, UnchangedBut
    <3> QED  BY <3>1, Fixed DEF ReadyInv, Ready, Filled
  <2>13. CASE Step
    <3>1. stage = "looping" /\ stage' = "timestep"
      BY <2>13 DEF Step, At
    <3> QED  BY <2>13, <3>1, StepReady DEF ReadyInv
  <2> QED  BY <1>2, <2>2, <2>3, <2>4, <2>5, <2>6, <2>7, <2>8, <2>9, <2>10, <2>11, <2>12, <2>13,
              IntoUp
<1> QED  BY <1>1, <1>2

\* Signal speeds are there whenever a timestep is taken from them
LEMMA SpeedsKept ==
    ASSUME SpeedsInv, [Next]_vars
    PROVE  SpeedsInv'
<1>1. CASE UNCHANGED vars
  BY <1>1 DEF vars, loadingVars, runVars, SpeedsInv
<1>2. CASE Crash
  BY <1>2 DEF Crash, SpeedsInv
<1>3. CASE Step
  BY <1>3 DEF Step, SpeedsInv
<1>4. CASE EstimateTimestep
  <2>1. /\ stage = "timestep" /\ inLoop' = inLoop
        /\ dtFrom' = (IF ~inLoop THEN (IF LightSpeeds THEN "ctop" ELSE "parameters")
                      ELSE IF On(pin, "use_dt_light") THEN "light" ELSE "ctop")
        /\ speeds' = (speeds \/ (~inLoop /\ LightSpeeds))
    BY <1>4 DEF EstimateTimestep, UnchangedBut, At
  <2>2. inLoop => speeds
    BY <2>1 DEF SpeedsInv
  <2>3. inLoop' => speeds'
    BY <2>1, <2>2
  <2>4. dtFrom' = "ctop" => speeds'
    BY <2>1, <2>2
  <2> QED  BY <2>3, <2>4 DEF SpeedsInv
<1>5. CASE ReadRestartFile
  <2>1. stage' = "exchange" /\ fromFile /\ fromFile' = fromFile /\ UNCHANGED <<speeds, dtFrom>>
    BY <1>5 DEF ReadRestartFile, At, UnchangedBut
  <2> QED  BY <2>1 DEF SpeedsInv
<1>6. CASE Restore
  <2>1. stage = "restore" /\ fromFile' = fromFile /\ UNCHANGED <<speeds, dtFrom>>
    BY <1>6 DEF Restore, At, UnchangedBut
  <2>2. CASE fromFile
    <3>1. inLoop' = FALSE
      BY <1>6, <2>2 DEF Restore, IsRestart, ResetGlobals
    <3> QED  BY <2>1, <3>1 DEF SpeedsInv
  <2>3. CASE ~fromFile
    <3>1. inLoop' => inLoop
      BY <1>6 DEF Restore, ResetGlobals
    <3> QED  BY <2>1, <2>3, <3>1 DEF SpeedsInv
  <2> QED  BY <2>2, <2>3
<1>7. CASE \/ FixParameters \/ Load \/ ProblemGenerator \/ MeshExchange \/ SeedField
           \/ SettleField \/ CleanField \/ ReinitElectrons \/ Finish \/ WriteRestart
  <2>1. UNCHANGED <<inLoop, speeds, dtFrom, fromFile>>
    BY <1>7 DEF FixParameters, Load, ProblemGenerator, MeshExchange, SeedField, SettleField,
                CleanField, ReinitElectrons, Finish, WriteRestart, UnchangedBut
  <2>2. ASSUME stage \in {"exchange", "seed", "restore"}, inLoop, ~speeds
        PROVE  stage' \in {"exchange", "seed", "restore"}
    <3>1. ~Load
      <4>1. CASE ListPackages \/ (\E n \in waiting : AddPackage(n)) \/ TasksDone
        BY <2>2, <4>1 DEF ListPackages, AddPackage, TasksDone
      <4>2. CASE \E i \in 1 .. Len(FinalPackages) : AddLast(i)
        BY <2>2, <4>2, Indices, FinalsAre DEF AddLast
      <4> QED  BY <4>1, <4>2 DEF Load, LoadNext
    <3> QED  BY <1>7, <2>2, <3>1
             DEF FixParameters, ProblemGenerator, MeshExchange, SeedField, SettleField,
                 CleanField, ReinitElectrons, Finish, WriteRestart, At
  <2> QED  BY <2>1, <2>2 DEF SpeedsInv
<1> QED  BY <1>1, <1>2, <1>3, <1>4, <1>5, <1>6, <1>7 DEF Next, Startup

(***************************************************************************)
(* Whenever a step starts, after a fresh start, a resize or any number of  *)
(* restarts, what it reads is ready, if the driver exchanges all the deck  *)
(* evolves and its field comes to be on faces: whatever the problem, its   *)
(* seeding and boundaries, the cleanup, the packages and the steps.        *)
(***************************************************************************)
THEOREM AlwaysReadyToStep ==
    ASSUME \A d \in Decks : ExchangesAll(d) /\ FieldComes(d)
    PROVE  Spec => []ReadyToStep
<1>1. Init => ResizeInv /\ ReadyInv /\ SpeedsInv
  BY DEF Init, ResizeInv, NoLonger, ReadyInv, SpeedsInv
<1>2. LoadInv /\ MeshInv /\ ResizeInv /\ ReadyInv /\ SpeedsInv /\ [Next]_vars =>
          ResizeInv' /\ ReadyInv' /\ SpeedsInv'
  BY ResizeKept, ReadyKept, SpeedsKept
<1>3. ReadyInv /\ SpeedsInv => ReadyToStep
  BY DEF ReadyInv, Ready, Filled, SpeedsInv, ReadyToStep
<1> QED  BY <1>1, <1>2, <1>3, LoadInvHolds, MeshInvHolds, PTL DEF Spec

-----------------------------------------------------------------------------
(***************************************************************************)
(* A restart evolves what the run before it did.                           *)
(***************************************************************************)
EvolvedOf(p) == {v \in Cells : PackageOf[v] \in Listed(p)}

EntropyInv == fromFile => pin.entropy = saved[1].pin.entropy

LEMMA EntropyKept ==
    ASSUME LoadInv, MeshInv, EntropyInv, [Next]_vars
    PROVE  EntropyInv'
<1>1. CASE Crash
  <2>1. ~WriteRestart
    BY <1>1 DEF Crash, WriteRestart, At
  <2>2. fromFile' => pin' = saved[1].pin /\ saved' = saved
    BY <1>1 DEF Crash
  <2> QED  BY <2>2 DEF EntropyInv
<1>2. CASE WriteRestart
  <2>1. pin' = pin /\ saved'[1].pin = pin
    BY <1>2, RunChanges
  <2> QED  BY <2>1 DEF EntropyInv
<1>3. CASE ~Crash /\ ~WriteRestart
  <2>1. fromFile' = fromFile /\ saved' = saved
    BY <1>3, RunChanges
  <2> SUFFICES ASSUME fromFile PROVE pin'.entropy = pin.entropy
    BY <2>1 DEF EntropyInv
  <2>2. Assigns(pin)
    BY DEF LoadInv, Follows
  <2>3. CASE FixParameters
    <3>1. CASE pin' = pin
      BY <3>1
    <3>2. CASE pin' # pin
      <4>1. PICK r : r = [pin EXCEPT !.problem = "resized_restart"]
        OBVIOUS
      <4>2. pin' = [r EXCEPT !.b_cleanup = "off"]
        BY <2>3, <3>2, <4>1 DEF FixParameters
      <4>3. "problem" \in Options /\ "b_cleanup" \in Options /\ "entropy" \in Options
        BY DEF Options
      <4>4. Assigns(r) /\ r.entropy = pin.entropy
        BY <2>2, <4>1, <4>3, OptionSet
      <4>5. pin'.entropy = r.entropy
        BY <4>2, <4>3, <4>4, OptionSet
      <4> QED  BY <4>4, <4>5
    <3> QED  BY <3>1, <3>2
  <2>4. CASE Load /\ ListPackages
    <3>1. pin' = WithDefaults(pin)
      BY <2>4 DEF ListPackages
    <3>2. WithDefaults(pin).entropy =
              IF On(pin, "electrons") THEN "on"
              ELSE Get(pin, "entropy", OnOff(pin.driver # "simple" /\ IsIdeal(pin)))
      BY <2>2, DefaultsAre
    <3>3. Follows(saved[1].pin) /\ Settled(saved[1].pin) /\ Follows(pin)
      BY DEF MeshInv, LoadInv, SavedPin
    <3>4. pin.entropy # "unset" /\ (On(pin, "electrons") => pin.entropy = "on")
      <4>1. pin.electrons = saved[1].pin.electrons
        BY <3>3 DEF Follows, Options, Changing
      <4>2. pin.entropy = saved[1].pin.entropy
        BY DEF EntropyInv
      <4> QED  BY <3>3, <4>1, <4>2 DEF Settled, On
    <3> QED  BY <3>1, <3>2, <3>4 DEF Get
  <2>5. CASE \A o \in Options \ {"driver", "fofc", "ismr", "ismr_nlevels", "reinitialize"} :
                 pin'[o] = pin[o]
    BY <2>5 DEF Options
  <2> QED  BY <1>3, <2>3, <2>4, <2>5, PinChanges
<1> QED  BY <1>1, <1>2, <1>3

LEMMA EvolvedIs ==
    ASSUME LoadInv, Running
    PROVE  Evolved = EvolvedOf(pin)
<1>1. LoadedInv
  BY DEF LoadInv, Running
<1>2. \A n \in {"GRMHD", "Entropy", "Electrons", "Ye", "EMHD", "RadM1"} :
          n \in loaded <=> n \in Listed(pin)
  BY <1>1 DEF LoadedInv, Chosen, Finals
<1>3. \A v \in Cells : PackageOf[v] \in {"GRMHD", "Entropy", "Electrons", "Ye", "EMHD", "RadM1"}
  BY DEF Cells, PackageOf
<1> QED  BY <1>2, <1>3 DEF Evolved, EvolvedOf

LEMMA EvolvedFollows ==
    ASSUME NEW p, NEW q, Follows(p), Follows(q), p.entropy = q.entropy
    PROVE  EvolvedOf(p) = EvolvedOf(q)
<1>1. /\ p.electrons = q.electrons /\ p.Ye = q.Ye /\ p.emhd = q.emhd /\ p.radm1 = q.radm1
  BY DEF Follows, Options, Changing
<1>2. /\ "GRMHD" \in Listed(p) /\ "GRMHD" \in Listed(q)
      /\ "Entropy" \in Listed(p) <=> "Entropy" \in Listed(q)
      /\ "Electrons" \in Listed(p) <=> "Electrons" \in Listed(q)
      /\ "Ye" \in Listed(p) <=> "Ye" \in Listed(q)
      /\ "EMHD" \in Listed(p) <=> "EMHD" \in Listed(q)
      /\ "RadM1" \in Listed(p) <=> "RadM1" \in Listed(q)
  BY <1>1 DEF Listed, If, BField, On
<1> QED  BY <1>2 DEF EvolvedOf, Cells, PackageOf

LEMMA EvolvedAgain ==
    ASSUME LoadInv, MeshInv, EntropyInv, Running, fromFile
    PROVE  Evolved = EvolvedOf(saved[1].pin)
<1>1. Follows(saved[1].pin) /\ Follows(pin)
  BY DEF MeshInv, LoadInv, SavedPin
<1> QED  BY <1>1, EvolvedIs, EvolvedFollows DEF EntropyInv

-----------------------------------------------------------------------------
(***************************************************************************)
(* Dirichlet boundaries: the zones outside the domain and the cache that   *)
(* fills them hold the problem's state, the field's from the seeding on.   *)
(***************************************************************************)
Outside == IF deck.b_type # "none" THEN 1 ELSE 0
OnMesh == deck.b_solver \in {"face_ct", "flux_ct"}

CacheKept(c, S) == \A v \in S : c.prims[v] = 1 /\ (DriverType(deck) = "kharma" => c.cons[v] = 1)
CellsOutside(g) == \A v \in Evolved : g.prims[v].domain = 1 /\ g.cons[v].domain = 1
FieldOutside(n) == HasField => grid.face.domain = n /\ grid.field.domain = n

Late == {"clean", "electrons", "finish", "timestep", "looping"}

MeshOutside ==
    /\ CacheKept(cache, Evolved)
    /\ (stage = "exchange" /\ fromFile) \/ CellsOutside(grid)
    /\ fromFile /\ stage # "exchange" => FieldOutside(Outside)
    /\ fromFile /\ HasField => cache.face = Outside
    /\ ~fromFile /\ stage \in {"exchange", "seed"} =>
          FieldOutside(0) /\ (HasField => cache.face = 0)
    /\ stage \in {"restore", "settle"} \cup Late => FieldOutside(Outside)
    /\ stage \in Late /\ HasField => cache.face = Outside

SavedOutside ==
    saved # <<>> => /\ CacheKept(saved[1].cache, EvolvedOf(saved[1].pin))
                    /\ OnMesh => saved[1].cache.face = Outside

DirichletInv == On(deck, "dirichlet") => (stage \in Up => MeshOutside) /\ SavedOutside

LEMMA CacheFills ==
    ASSUME LoadInv, Running, NEW c, CacheKept(c, Evolved), NEW v \in Evolved, NEW n,
           \/ n = c.prims[v]
           \/ v \in FillGhostCons /\ n = c.cons[v]
    PROVE  n = 1
<1>1. v \in FillGhostCons => DriverType(deck) = "kharma"
  BY RunIs DEF FillGhostCons
<1> QED  BY <1>1 DEF CacheKept

LEMMA FrozenOutside ==
    ASSUME LoadInv, Running, NEW g \in Grids, cache \in Caches, Exchanges, Dirichlet,
           CellsOutside(g)
    PROVE  CacheKept(Frozen(g), Evolved) /\ (HasField => Frozen(g).face = g.face.domain)
<1>1. PICK c : c = Frozen(g)
  OBVIOUS
<1>2. /\ \A v \in FillGhostPrims : c.prims[v] = g.prims[v].domain
      /\ \A v \in FillGhostCons : c.cons[v] = g.cons[v].domain
      /\ HasField => c.face = g.face.domain
  BY <1>1, FrozenIs
<1>3. FillGhostPrims = Evolved /\ (DriverType(deck) = "kharma" => FillGhostCons = Evolved)
  BY RunIs DEF Exchanges, FillGhostCons
<1>4. \A v \in Evolved : c.prims[v] = 1 /\ (DriverType(deck) = "kharma" => c.cons[v] = 1)
  BY <1>2, <1>3 DEF CellsOutside
<1> QED  BY <1>1, <1>2, <1>4 DEF CacheKept

LEMMA FillsOutside ==
    ASSUME LoadInv, Running, NEW g, NEW c, NEW h, Filling(g, c, h), Dirichlet,
           CacheKept(c, Evolved)
    PROVE  CellsOutside(h)
<1> SUFFICES ASSUME NEW v \in Evolved
             PROVE  h.prims[v].domain = 1 /\ h.cons[v].domain = 1
  BY DEF CellsOutside
<1>1. /\ h.cons[v].domain = h.prims[v].domain
      /\ \/ h.prims[v].domain = c.prims[v]
         \/ v \in FillGhostCons /\ h.prims[v].domain = c.cons[v]
  BY DEF Filling
<1> QED  BY <1>1, CacheFills

\* A Dirichlet deck's problem, and its run
LEMMA DirichletIs ==
    ASSUME LoadInv, Running, \A d \in Decks : DirichletHolds(d), On(deck, "dirichlet")
    PROVE  /\ Dirichlet /\ "electrons" \notin Evolved /\ "Electrons" \notin loaded
           /\ pin.problem # "resize_restart"
           /\ (HasField <=> OnMesh) /\ pin.b_type = deck.b_type /\ pin.b_solver = deck.b_solver
           /\ ~On(pin, "norm") \/ pin.b_type = "none" \/ pin.b_solver = "none"
           /\ "fluid" \in Evolved /\ Evolved \subseteq Cells
<1>1. /\ \A o \in Options \ Changing : pin[o] = deck[o]
      /\ "electrons" \in Evolved <=> On(deck, "electrons")
      /\ "Electrons" \in loaded <=> On(deck, "electrons")
      /\ HasField <=> deck.b_solver \in {"face_ct", "flux_ct"}
      /\ deck \in Decks /\ "fluid" \in Evolved /\ Evolved \subseteq Cells
  BY RunIs
<1>2. /\ pin.dirichlet = deck.dirichlet /\ pin.b_type = deck.b_type
      /\ pin.b_solver = deck.b_solver /\ pin.norm = deck.norm
  BY <1>1 DEF Options, Changing
<1>3. DirichletHolds(deck)
  BY <1>1
<1>4. pin.problem = deck.problem \/ deck.problem = "resize_restart"
  BY DEF LoadInv, Follows
<1> QED  BY <1>1, <1>2, <1>3, <1>4 DEF DirichletHolds, On, Dirichlet, OnMesh

LEMMA GeneratorOutside ==
    ASSUME LoadInv, MeshInv, Exchanges, \A d \in Decks : DirichletHolds(d),
           On(deck, "dirichlet"), ProblemGenerator
    PROVE  /\ CacheKept(cache', Evolved) /\ CellsOutside(grid')
           /\ HasField => /\ grid'.face.domain = 0 /\ grid'.field.domain = 0
                          /\ cache'.face = 0
<1>1. Running /\ cache \in Caches
  BY DEF ProblemGenerator, Running, At, MeshInv
<1>2. /\ Dirichlet /\ "electrons" \notin Evolved /\ pin.problem # "resize_restart"
      /\ Evolved \subseteq Cells
  BY <1>1, DirichletIs
<1>3. PICK p : p = ProblemState
  OBVIOUS
<1>4. /\ p \in Grids /\ \A v \in Evolved \ {"electrons"} : p.prims[v].domain = 1
      /\ p.field = Everywhere(0) /\ p.face = Everywhere(0)
  BY <1>2, <1>3, ProblemIs DEF FacesResized
<1>5. /\ grid' \in Grids /\ grid'.prims = p.prims /\ grid'.cons = p.prims
      /\ grid'.face = Everywhere(0) /\ grid'.field = Everywhere(0)
      /\ cache' = Frozen(grid')
  BY <1>3, <1>4, PtoUIs DEF ProblemGenerator
<1>6. CellsOutside(grid')
  BY <1>2, <1>4, <1>5 DEF CellsOutside
<1>7. grid'.face.domain = 0 /\ grid'.field.domain = 0
  BY <1>5, EverywhereIs
<1> QED  BY <1>1, <1>2, <1>5, <1>6, <1>7, FrozenOutside

LEMMA SeedOutside ==
    ASSUME LoadInv, MeshInv, Exchanges, \A d \in Decks : DirichletHolds(d),
           On(deck, "dirichlet"), SeedField, SeedsField, CacheKept(cache, Evolved),
           CellsOutside(grid)
    PROVE  /\ CacheKept(cache', Evolved) /\ CellsOutside(grid')
           /\ grid'.face.domain = Outside /\ grid'.field.domain = Outside
<1>1. Running /\ cache \in Caches /\ grid \in Grids
  BY DEF SeedField, Running, At, MeshInv, Up
<1>2. /\ Dirichlet /\ ~On(pin, "norm") /\ deck.b_type # "none"
      /\ "fluid" \in Evolved /\ "fluid" \in Cells
  BY <1>1, DirichletIs DEF SeedsField, Cells
<1>3. PICK c : c = Frozen(grid)
  OBVIOUS
<1>4. CacheKept(c, Evolved) /\ c \in Caches /\ cache' = c
  <2>1. c \in Caches
    BY <1>1, <1>3, FrozenIs
  <2>2. CacheKept(c, Evolved)
    BY <1>1, <1>2, <1>3, FrozenOutside
  <2> QED  BY <1>3, <2>1, <2>2 DEF SeedField
<1>5. PICK s : s = SyncAllBounds(grid, c)
  OBVIOUS
<1>6. Filling(grid, c, s)
  BY <1>1, <1>4, <1>5, SyncIs
<1>7. CellsOutside(s) /\ s \in Grids
  <2>1. CellsOutside(s)
    BY <1>1, <1>2, <1>4, <1>6, FillsOutside
  <2> QED  BY <1>6, <2>1 DEF Filling
<1>8. grid' = Seeded(s)
  BY <1>2, <1>4, <1>5 DEF SeedField
<1>9. /\ grid'.prims = s.prims /\ grid'.cons = s.cons /\ grid'.face = s.prims.fluid
      /\ grid'.field = s.prims.fluid
  BY <1>7, <1>8, SeededIs
<1> QED  BY <1>2, <1>4, <1>7, <1>9 DEF CellsOutside, Outside

LEMMA RestoreOutside ==
    ASSUME LoadInv, MeshInv, ResizeInv, \A d \in Decks : DirichletHolds(d) /\ FieldComes(d),
           On(deck, "dirichlet"), Restore, CellsOutside(grid), FieldOutside(Outside)
    PROVE  /\ CellsOutside(grid')
           /\ HasField => grid'.face.domain = Outside /\ grid'.field.domain = Outside
<1>1. Running /\ grid \in Grids /\ stage = "restore"
  BY DEF Restore, Running, At, MeshInv, Up
<1>2. CASE ~IsRestart
  BY <1>1, <1>2 DEF Restore, FieldOutside
<1>3. CASE IsRestart
  <2>1. ~On(pin, "restart_from_prims") /\ pin.problem # "resize_restart"
    <3>1. ~On(pin, "restart_from_prims")
      BY <1>1, RunIs DEF FieldComes, On, Options, Changing
    <3> QED  BY <1>1, <3>1, DirichletIs
  <2>2. grid' = Restored(grid) /\ ~FromPrims
    BY <1>3, <2>1 DEF Restore, FromPrims
  <2>3. /\ grid'.cons = grid.cons /\ grid'.face = grid.face
        /\ grid'.field = IF HasField THEN grid.face ELSE grid.field
        /\ \A v \in Cells : grid'.prims[v] = grid.prims[v] \/ grid'.prims[v] = grid.cons[v]
    BY <1>1, <2>2, RestoredIs
  <2>4. Evolved \subseteq Cells
    BY DEF Evolved
  <2>5. CellsOutside(grid')
    BY <2>3, <2>4 DEF CellsOutside
  <2> QED  BY <2>3, <2>5 DEF FieldOutside
<1> QED  BY <1>2, <1>3

LEMMA SettleOutside ==
    ASSUME LoadInv, MeshInv, Exchanges, \A d \in Decks : DirichletHolds(d),
           On(deck, "dirichlet"), SettleField, CacheKept(cache, Evolved), CellsOutside(grid),
           FieldOutside(Outside)
    PROVE  /\ CacheKept(cache', Evolved) /\ CellsOutside(grid')
           /\ HasField => /\ grid'.face.domain = Outside /\ grid'.field.domain = Outside
                          /\ cache'.face = Outside
<1>1. Running /\ cache \in Caches /\ grid \in Grids
  BY DEF SettleField, Running, At, MeshInv, Up
<1>2. Dirichlet /\ (pin.b_solver = "none" => ~HasField)
  BY <1>1, DirichletIs DEF OnMesh
<1>3. CASE pin.b_solver = "none"
  BY <1>2, <1>3 DEF SettleField
<1>4. CASE pin.b_solver # "none"
  <2>1. PICK c : c = Frozen(grid)
    OBVIOUS
  <2>2. CacheKept(c, Evolved) /\ (HasField => c.face = Outside)
    BY <1>1, <1>2, <2>1, FrozenOutside DEF FieldOutside
  <2>3. cache' = c /\ Filling(grid, c, grid')
    BY <1>1, <1>4, <2>1, FrozenFilled DEF SettleField, FreezeAndSync
  <2>4. CellsOutside(grid')
    BY <1>1, <1>2, <2>2, <2>3, FillsOutside
  <2>5. HasField => /\ grid'.face.domain = c.face /\ grid'.field.domain = grid'.face.domain
    BY <1>2, <2>3 DEF Filling
  <2> QED  BY <2>2, <2>3, <2>4, <2>5
<1> QED  BY <1>3, <1>4

LEMMA MeetOutside ==
    ASSUME LoadInv, MeshInv, Exchanges, \A d \in Decks : DirichletHolds(d),
           On(deck, "dirichlet"), MeshExchange, CacheKept(cache, Evolved)
    PROVE  /\ CellsOutside(grid')
           /\ HasField => grid'.face.domain = cache.face /\ grid'.field.domain = cache.face
<1>1. Running /\ cache \in Caches /\ grid \in Grids
  BY DEF MeshExchange, Running, At, MeshInv, Up
<1>2. Dirichlet
  BY <1>1, DirichletIs
<1>3. Filling(grid, cache, grid')
  BY <1>1, MetIs DEF MeshExchange
<1>4. CellsOutside(grid')
  BY <1>1, <1>2, <1>3, FillsOutside
<1>5. HasField => grid'.face.domain = cache.face /\ grid'.field.domain = grid'.face.domain
  BY <1>2, <1>3 DEF Filling
<1> QED  BY <1>4, <1>5

LEMMA CleanOutside ==
    ASSUME LoadInv, MeshInv, Exchanges, \A d \in Decks : DirichletHolds(d),
           On(deck, "dirichlet"), CleanField, CacheKept(cache, Evolved), CellsOutside(grid),
           FieldOutside(Outside), HasField => cache.face = Outside
    PROVE  /\ CellsOutside(grid')
           /\ HasField => grid'.face.domain = Outside /\ grid'.field.domain = Outside
<1>1. Running /\ cache \in Caches /\ grid \in Grids
  BY DEF CleanField, Running, At, MeshInv, Up
<1>2. Dirichlet
  BY <1>1, DirichletIs
<1>3. CASE grid' = grid
  BY <1>3 DEF FieldOutside
<1>4. CASE grid' = CleanupDivergence(grid)
  <2>1. /\ \A v \in Evolved :
              /\ grid'.cons[v].domain = grid'.prims[v].domain
              /\ \/ grid'.prims[v].domain = cache.prims[v]
                 \/ v \in FillGhostCons /\ grid'.prims[v].domain = cache.cons[v]
        /\ HasField => grid'.field = grid'.face /\ grid'.face.domain = cache.face
    BY <1>1, <1>2, <1>4, CleanupFills
  <2>2. ASSUME NEW v \in Evolved
        PROVE  grid'.prims[v].domain = 1 /\ grid'.cons[v].domain = 1
    BY <1>1, <2>1, CacheFills
  <2> QED  BY <2>1, <2>2 DEF CellsOutside
<1> QED  BY <1>3, <1>4 DEF CleanField

LEMMA FinishOutside ==
    ASSUME LoadInv, MeshInv, Exchanges, \A d \in Decks : DirichletHolds(d),
           On(deck, "dirichlet"), Finish, CellsOutside(grid), FieldOutside(Outside)
    PROVE  /\ CacheKept(cache', Evolved) /\ CellsOutside(grid')
           /\ HasField => /\ grid'.face.domain = Outside /\ grid'.field.domain = Outside
                          /\ cache'.face = Outside
<1>1. Running
  BY DEF Finish, Running, At, Up
<1>2. Dirichlet /\ Evolved \subseteq Cells
  BY <1>1, DirichletIs
<1>3. /\ \A v \in Evolved : /\ grid'.cons[v].domain = grid'.prims[v].domain
                            /\ grid'.prims[v].domain = grid.prims[v].domain
      /\ \A v \in FillGhostPrims : cache'.prims[v] = grid.prims[v].domain
      /\ \A v \in FillGhostCons : cache'.cons[v] = grid.prims[v].domain
      /\ HasField =>
            LET face == IF "B_FluxCT" \in loaded THEN grid.field ELSE grid.face
            IN  /\ grid'.face.domain = face.domain /\ cache'.face = face.domain
                /\ grid'.field.domain = grid'.face.domain
  BY <1>2, FinishIs
<1>4. FillGhostPrims = Evolved /\ (DriverType(deck) = "kharma" => FillGhostCons = Evolved)
  BY <1>1, RunIs DEF Exchanges, FillGhostCons
<1>5. CacheKept(cache', Evolved)
  BY <1>3, <1>4 DEF CacheKept, CellsOutside
<1>6. CellsOutside(grid')
  BY <1>3 DEF CellsOutside
<1> QED  BY <1>3, <1>5, <1>6 DEF FieldOutside

LEMMA StepOutside ==
    ASSUME LoadInv, MeshInv, \A d \in Decks : DirichletHolds(d),
           On(deck, "dirichlet"), Step, CellsOutside(grid), FieldOutside(Outside)
    PROVE  /\ CellsOutside(grid')
           /\ HasField => grid'.face.domain = Outside /\ grid'.field.domain = Outside
<1>1. Running /\ grid \in Grids /\ steps \in Nat /\ grid' = Advanced(grid)
  BY DEF Step, Running, At, Up, MeshInv
<1>2. Dirichlet
  BY <1>1, DirichletIs
<1>3. /\ \A v \in Evolved : /\ grid'.prims[v].domain = grid.prims[v].domain
                            /\ grid'.cons[v].domain = grid.cons[v].domain
      /\ HasField => /\ grid'.face.domain = grid.face.domain
                     /\ grid'.field.domain = grid.field.domain
  BY <1>1, <1>2, AdvancedIs
<1> QED  BY <1>3 DEF CellsOutside, FieldOutside

LEMMA ReadOutside ==
    ASSUME LoadInv, MeshInv, EntropyInv, ReadRestartFile, SavedOutside
    PROVE  /\ CacheKept(cache', Evolved)
           /\ HasField => cache'.face = Outside
<1>1. /\ Running /\ fromFile /\ cache' = saved[1].cache /\ saved # <<>>
  BY DEF ReadRestartFile, Running, At, MeshInv
<1>2. Evolved = EvolvedOf(saved[1].pin) /\ (HasField <=> OnMesh)
  BY <1>1, EvolvedAgain, RunIs DEF OnMesh
<1> QED  BY <1>1, <1>2 DEF SavedOutside

\* The mesh's part, in the terms of the state before the step
MeshOutsideNext ==
    /\ CacheKept(cache', Evolved)
    /\ (stage' = "exchange" /\ fromFile') \/ CellsOutside(grid')
    /\ fromFile' /\ stage' # "exchange" /\ HasField =>
          grid'.face.domain = Outside /\ grid'.field.domain = Outside
    /\ fromFile' /\ HasField => cache'.face = Outside
    /\ ~fromFile' /\ stage' \in {"exchange", "seed"} /\ HasField =>
          grid'.face.domain = 0 /\ grid'.field.domain = 0 /\ cache'.face = 0
    /\ stage' \in {"restore", "settle"} \cup Late /\ HasField =>
          grid'.face.domain = Outside /\ grid'.field.domain = Outside
    /\ stage' \in Late /\ HasField => cache'.face = Outside

LEMMA OutsideNext ==
    ASSUME UNCHANGED <<deck, loaded>>, MeshOutsideNext
    PROVE  MeshOutside'
<1>1. HasField' = HasField /\ Evolved' = Evolved /\ Outside' = Outside
  BY DEF HasField, Evolved, Outside
<1>2. CacheKept(cache', Evolved) => CacheKept(cache, Evolved)'
  BY <1>1 DEF CacheKept
<1>3. CellsOutside(grid') => CellsOutside(grid)'
  BY <1>1 DEF CellsOutside
<1> QED  BY <1>1, <1>2, <1>3 DEF MeshOutsideNext, MeshOutside, FieldOutside

LEMMA DirichletInvKept ==
    ASSUME \A d \in Decks : ExchangesAll(d) /\ FieldComes(d) /\ DirichletHolds(d),
           LoadInv, MeshInv, ResizeInv, EntropyInv, DirichletInv, [Next]_vars
    PROVE  DirichletInv'
<1>1. deck' = deck /\ Outside' = Outside /\ OnMesh' = OnMesh
  BY RunChanges DEF Outside, OnMesh
<1> SUFFICES ASSUME On(deck, "dirichlet")
             PROVE  (stage' \in Up => MeshOutside') /\ SavedOutside'
  BY <1>1 DEF DirichletInv
<1>2. (stage \in Up => MeshOutside) /\ SavedOutside
  BY DEF DirichletInv
<1>3. SavedOutside'
  <2>1. CASE WriteRestart
    <3>1. /\ saved'[1].pin = pin /\ saved'[1].cache = cache /\ stage = "looping"
      BY <2>1, RunChanges
    <3>2. Running
      BY <3>1 DEF Running, Up
    <3>3. Evolved = EvolvedOf(pin) /\ (HasField <=> OnMesh)
      BY <3>2, EvolvedIs, RunIs DEF OnMesh
    <3>4. CacheKept(cache, Evolved) /\ (HasField => cache.face = Outside)
      BY <1>2, <3>1 DEF MeshOutside, Up, Late
    <3>5. CacheKept(saved'[1].cache, EvolvedOf(saved'[1].pin))
      BY <3>1, <3>3, <3>4
    <3> QED  BY <1>1, <3>1, <3>3, <3>4, <3>5 DEF SavedOutside, CacheKept, EvolvedOf
  <2>2. CASE ~WriteRestart
    <3>1. saved' = saved
      BY <2>2, RunChanges
    <3> QED  BY <1>1, <1>2, <3>1 DEF SavedOutside, CacheKept, EvolvedOf
  <2> QED  BY <2>1, <2>2
<1>4. ASSUME stage' \in Up PROVE MeshOutside'
  <2>0. UNCHANGED <<deck, loaded>> => (MeshOutsideNext => MeshOutside')
    BY OutsideNext
  <2>1. stage \in Up => Exchanges /\ Running /\ MeshOutside
    BY <1>2, ExchangesHold DEF Running
  <2>2. CASE UNCHANGED vars
    <3>1. UNCHANGED <<stage, deck, loaded, grid, cache, fromFile>>
      BY <2>2 DEF vars, loadingVars, runVars
    <3>2. MeshOutside
      BY <1>2, <1>4, <3>1
    <3>3. MeshOutsideNext
      BY <3>1, <3>2 DEF MeshOutsideNext, MeshOutside, FieldOutside
    <3> QED  BY <2>0, <3>1, <3>3
  <2>3. CASE ProblemGenerator
    <3>1. /\ stage = "loaded" /\ stage' = "exchange" /\ fromFile' = fromFile /\ ~fromFile
          /\ loaded' = loaded
      BY <2>3 DEF ProblemGenerator, At, UnchangedBut, PackagesKept
    <3>2. Exchanges
      BY <3>1, ExchangesHold DEF Running
    <3>3. MeshOutsideNext
      BY <2>3, <3>1, <3>2, GeneratorOutside DEF MeshOutsideNext, Late
    <3> QED  BY <1>1, <2>0, <3>1, <3>3
  <2>4. CASE ReadRestartFile
    <3>1. /\ stage' = "exchange" /\ fromFile' = fromFile /\ fromFile /\ loaded' = loaded
      BY <2>4 DEF ReadRestartFile, At, UnchangedBut, PackagesKept
    <3>2. MeshOutsideNext
      BY <1>2, <2>4, <3>1, ReadOutside DEF MeshOutsideNext, Late
    <3> QED  BY <1>1, <2>0, <3>1, <3>2
  <2>5. CASE MeshExchange
    <3>1. /\ stage = "exchange" /\ stage' = "seed" /\ fromFile' = fromFile
          /\ loaded' = loaded /\ cache' = cache
      BY <2>5 DEF MeshExchange, At, UnchangedBut, PackagesKept
    <3>2. Exchanges /\ MeshOutside
      BY <2>1, <3>1 DEF Up
    <3>3. /\ CacheKept(cache, Evolved) /\ (fromFile /\ HasField => cache.face = Outside)
          /\ ~fromFile /\ HasField => cache.face = 0
      BY <3>1, <3>2 DEF MeshOutside
    <3>4. MeshOutsideNext
      BY <2>5, <3>1, <3>2, <3>3, MeetOutside DEF MeshOutsideNext, Late
    <3> QED  BY <1>1, <2>0, <3>1, <3>4
  <2>6. CASE SeedField
    <3>1. /\ stage = "seed" /\ stage' = "restore" /\ fromFile' = fromFile
          /\ loaded' = loaded
      BY <2>6 DEF SeedField, At, UnchangedBut, PackagesKept
    <3>2. Exchanges /\ Running /\ MeshOutside
      BY <2>1, <3>1 DEF Up
    <3>3. CacheKept(cache, Evolved) /\ CellsOutside(grid)
      BY <3>1, <3>2 DEF MeshOutside
    <3>4. CASE SeedsField
      <4>1. ~fromFile
        BY <3>4 DEF SeedsField, IsRestart
      <4>2. /\ CacheKept(cache', Evolved) /\ CellsOutside(grid')
            /\ grid'.face.domain = Outside /\ grid'.field.domain = Outside
        BY <2>6, <3>2, <3>3, <3>4, SeedOutside
      <4>3. MeshOutsideNext
        BY <3>1, <4>1, <4>2 DEF MeshOutsideNext, Late
      <4> QED  BY <1>1, <2>0, <3>1, <4>3
    <3>5. CASE ~SeedsField
      <4>1. grid' = grid /\ cache' = cache
        BY <2>6, <3>5 DEF SeedField
      <4>2. HasField => grid.face.domain = Outside /\ grid.field.domain = Outside
        <5>1. CASE fromFile
          BY <3>1, <3>2, <5>1 DEF MeshOutside, FieldOutside
        <5>2. CASE ~fromFile
          <6>1. ~IsRestart /\ (HasField => pin.b_solver # "none") /\ pin.b_type = deck.b_type
            BY <3>2, <5>2, DirichletIs DEF IsRestart, OnMesh
          <6>2. HasField => Outside = 0
            BY <3>5, <6>1 DEF SeedsField, Outside
          <6> QED  BY <3>1, <3>2, <5>2, <6>2 DEF MeshOutside, FieldOutside
        <5> QED  BY <5>1, <5>2
      <4>3. fromFile /\ HasField => cache.face = Outside
        BY <3>2 DEF MeshOutside
      <4>4. MeshOutsideNext
        BY <3>1, <3>3, <4>1, <4>2, <4>3 DEF MeshOutsideNext, Late
      <4> QED  BY <1>1, <2>0, <3>1, <4>4
    <3> QED  BY <3>4, <3>5
  <2>7. CASE Restore
    <3>1. /\ stage = "restore" /\ stage' = "settle" /\ fromFile' = fromFile
          /\ loaded' = loaded /\ cache' = cache
      BY <2>7 DEF Restore, At, UnchangedBut, PackagesKept
    <3>2. MeshOutside
      BY <2>1, <3>1 DEF Up
    <3>3. /\ CacheKept(cache, Evolved) /\ CellsOutside(grid) /\ FieldOutside(Outside)
          /\ fromFile /\ HasField => cache.face = Outside
      BY <3>1, <3>2 DEF MeshOutside
    <3>4. MeshOutsideNext
      BY <2>7, <3>1, <3>3, RestoreOutside DEF MeshOutsideNext, Late
    <3> QED  BY <1>1, <2>0, <3>1, <3>4
  <2>8. CASE SettleField
    <3>1. /\ stage = "settle" /\ stage' = "clean" /\ fromFile' = fromFile
          /\ loaded' = loaded
      BY <2>8 DEF SettleField, At, UnchangedBut, PackagesKept
    <3>2. Exchanges /\ MeshOutside
      BY <2>1, <3>1 DEF Up
    <3>3. CacheKept(cache, Evolved) /\ CellsOutside(grid) /\ FieldOutside(Outside)
      BY <3>1, <3>2 DEF MeshOutside
    <3>4. MeshOutsideNext
      BY <2>8, <3>1, <3>2, <3>3, SettleOutside DEF MeshOutsideNext
    <3> QED  BY <1>1, <2>0, <3>1, <3>4
  <2>9. CASE CleanField
    <3>1. /\ stage = "clean" /\ stage' = "electrons" /\ fromFile' = fromFile
          /\ loaded' = loaded /\ cache' = cache
      BY <2>9 DEF CleanField, At, UnchangedBut, PackagesKept
    <3>2. Exchanges /\ MeshOutside
      BY <2>1, <3>1 DEF Up
    <3>3. /\ CacheKept(cache, Evolved) /\ CellsOutside(grid) /\ FieldOutside(Outside)
          /\ HasField => cache.face = Outside
      BY <3>1, <3>2 DEF MeshOutside, Late
    <3>4. MeshOutsideNext
      BY <2>9, <3>1, <3>2, <3>3, CleanOutside DEF MeshOutsideNext
    <3> QED  BY <1>1, <2>0, <3>1, <3>4
  <2>10. CASE ReinitElectrons \/ EstimateTimestep \/ WriteRestart
    <3>1. /\ stage \in Late /\ stage' \in Late /\ fromFile' = fromFile
          /\ loaded' = loaded /\ cache' = cache
      BY <2>10 DEF ReinitElectrons, EstimateTimestep, WriteRestart, At, UnchangedBut,
                   PackagesKept, Late
    <3>2. Running /\ MeshOutside
      BY <2>1, <3>1 DEF Up, Late
    <3>3. "Electrons" \notin loaded
      BY <3>2, DirichletIs
    <3>4. grid' = grid
      BY <2>10, <3>3 DEF ReinitElectrons, EstimateTimestep, WriteRestart, UnchangedBut
    <3>5. /\ CacheKept(cache, Evolved) /\ CellsOutside(grid)
          /\ HasField => /\ grid.face.domain = Outside /\ grid.field.domain = Outside
                         /\ cache.face = Outside
      BY <3>1, <3>2 DEF MeshOutside, FieldOutside, Late
    <3>6. MeshOutsideNext
      BY <3>1, <3>4, <3>5 DEF MeshOutsideNext, Late
    <3> QED  BY <1>1, <2>0, <3>1, <3>6
  <2>11. CASE Finish
    <3>1. /\ stage = "finish" /\ stage' = "timestep" /\ fromFile' = fromFile
          /\ loaded' = loaded
      BY <2>11 DEF Finish, At, UnchangedBut, PackagesKept
    <3>2. Exchanges /\ MeshOutside
      BY <2>1, <3>1 DEF Up
    <3>3. CellsOutside(grid) /\ FieldOutside(Outside)
      BY <3>1, <3>2 DEF MeshOutside, Late
    <3>4. MeshOutsideNext
      BY <2>11, <3>1, <3>2, <3>3, FinishOutside DEF MeshOutsideNext
    <3> QED  BY <1>1, <2>0, <3>1, <3>4
  <2>12. CASE Step
    <3>1. /\ stage = "looping" /\ stage' = "timestep" /\ fromFile' = fromFile
          /\ loaded' = loaded /\ cache' = cache
      BY <2>12 DEF Step, At, UnchangedBut, PackagesKept
    <3>2. MeshOutside
      BY <2>1, <3>1 DEF Up
    <3>3. /\ CacheKept(cache, Evolved) /\ CellsOutside(grid) /\ FieldOutside(Outside)
          /\ HasField => cache.face = Outside
      BY <3>1, <3>2 DEF MeshOutside, Late
    <3>4. MeshOutsideNext
      BY <2>12, <3>1, <3>3, StepOutside DEF MeshOutsideNext
    <3> QED  BY <1>1, <2>0, <3>1, <3>4
  <2> QED  BY <1>4, <2>2, <2>3, <2>4, <2>5, <2>6, <2>7, <2>8, <2>9, <2>10, <2>11, <2>12, IntoUp
<1> QED  BY <1>3, <1>4

(***************************************************************************)
(* If the problem sets all there is outside the domain and the driver      *)
(* exchanges it, Dirichlet boundaries hold the problem's state whatever    *)
(* else the deck asks for: the field from its seeding on, all of it at     *)
(* every step, after any number of crashes and restarts.                   *)
(***************************************************************************)
THEOREM DirichletAlwaysKept ==
    ASSUME \A d \in Decks : ExchangesAll(d) /\ FieldComes(d) /\ DirichletHolds(d)
    PROVE  Spec => []DirichletKept
<1>1. Init => ResizeInv /\ EntropyInv /\ DirichletInv
  BY DEF Init, ResizeInv, NoLonger, EntropyInv, DirichletInv, SavedOutside, Up
<1>2. LoadInv /\ MeshInv /\ ResizeInv /\ EntropyInv /\ DirichletInv /\ [Next]_vars =>
          ResizeInv' /\ EntropyInv' /\ DirichletInv'
  BY ResizeKept, EntropyKept, DirichletInvKept
<1>3. LoadInv /\ DirichletInv => DirichletKept
  <2> SUFFICES ASSUME LoadInv, DirichletInv, stage = "looping", Dirichlet
               PROVE  /\ \A v \in Evolved : grid.prims[v].domain = 1
                      /\ HasField /\ pin.b_type # "none" =>
                            grid.face.domain = 1 /\ grid.field.domain = 1
    BY DEF DirichletKept
  <2>1. Running
    BY DEF Running, Up
  <2>2. pin.dirichlet = deck.dirichlet /\ pin.b_type = deck.b_type
    BY <2>1, RunIs DEF Options, Changing
  <2>3. MeshOutside
    BY <2>2 DEF DirichletInv, Dirichlet, On, Up
  <2> QED  BY <2>2, <2>3 DEF MeshOutside, CellsOutside, FieldOutside, Outside, Late
<1> QED  BY <1>1, <1>2, <1>3, LoadInvHolds, MeshInvHolds, PTL DEF Spec

-----------------------------------------------------------------------------
(***************************************************************************)
(* A restart resumes: a restart file holds a whole state, which is decided *)
(* by its interior zones, and the startup keeps those zones.               *)
(***************************************************************************)
Sound == \A d \in Decks : StartsSoundly(d)

\* What is not evolved is as it was allocated; S is what evolves
Empty(g, S) ==
    /\ \A v \in Cells \ S : g.prims[v] = Everywhere(0)
    /\ ~OnMesh => g.face = Everywhere(0) /\ g.field = Everywhere(0)
    /\ g.temperature = Everywhere(0)

\* What is evolved follows from the interior
Complete(g, S) ==
    /\ \A v \in S :
          /\ g.prims[v].ghost = g.prims[v].interior
          /\ g.prims[v].domain = IF On(deck, "dirichlet") THEN 1 ELSE g.prims[v].interior
          /\ g.cons[v].interior = g.prims[v].interior
    /\ OnMesh =>
          /\ g.face.ghost = g.face.interior /\ g.field = g.face
          /\ g.face.domain = IF On(deck, "dirichlet") THEN Outside ELSE g.face.interior

Together == stage \in {"timestep", "looping"} =>
                \A v \in Evolved : grid.cons[v].interior = grid.prims[v].interior

DivergenceOnMesh ==
    /\ grid.divergent => OnMesh
    /\ saved # <<>> /\ saved[1].grid.divergent => OnMesh

SavedWhole ==
    saved # <<>> => /\ On(deck, "dumps")
                    /\ Empty(saved[1].grid, EvolvedOf(saved[1].pin))
                    /\ Complete(saved[1].grid, EvolvedOf(saved[1].pin))

EmptyInv == On(deck, "dumps") /\ stage \in Up => Empty(grid, Evolved)

LEMMA WholeAgree ==
    ASSUME NEW g \in Grids, NEW h \in Grids, NEW S,
           Empty(g, S), Empty(h, S), Complete(g, S), Complete(h, S),
           \A v \in S : g.prims[v].interior = h.prims[v].interior,
           OnMesh => g.face.interior = h.face.interior
    PROVE  /\ g.prims = h.prims /\ g.face = h.face /\ g.field = h.field
           /\ g.temperature = h.temperature
           /\ \A v \in S : g.cons[v].interior = h.cons[v].interior
<1>1. ASSUME NEW v \in Cells  PROVE g.prims[v] = h.prims[v]
  <2>1. CASE v \in S
    <3>1. g.prims[v] \in Values /\ h.prims[v] \in Values
      BY Parts
    <3>2. /\ g.prims[v].interior = h.prims[v].interior
          /\ g.prims[v].ghost = h.prims[v].ghost /\ g.prims[v].domain = h.prims[v].domain
      BY <2>1 DEF Complete
    <3> QED  BY <3>1, <3>2, Zones
  <2>2. CASE v \notin S
    BY <2>2 DEF Empty
  <2> QED  BY <2>1, <2>2
<1>2. g.prims = h.prims
  <2>1. g.prims \in [Cells -> Values] /\ h.prims \in [Cells -> Values]
    BY Parts DEF Forms
  <2> QED  BY <1>1, <2>1
<1>3. g.face = h.face /\ g.field = h.field
  <2>1. CASE OnMesh
    <3>1. g.face \in Values /\ h.face \in Values
      BY Parts
    <3>2. /\ g.face.interior = h.face.interior /\ g.face.ghost = h.face.ghost
          /\ g.face.domain = h.face.domain
          /\ g.field = g.face /\ h.field = h.face
      BY <2>1 DEF Complete
    <3> QED  BY <3>1, <3>2, Zones
  <2>2. CASE ~OnMesh
    BY <2>2 DEF Empty
  <2> QED  BY <2>1, <2>2
<1>4. \A v \in S : g.cons[v].interior = h.cons[v].interior
  BY DEF Complete
<1> QED  BY <1>2, <1>3, <1>4 DEF Empty

LEMMA SoundIs ==
    ASSUME LoadInv, MeshInv, Running, Sound
    PROVE  /\ Exchanges /\ (HasField <=> OnMesh) /\ Evolved \subseteq Cells
           /\ "fluid" \in Evolved
           /\ SeedsField => HasField
           /\ ~On(pin, "restart_from_prims")
           /\ pin.dumps = deck.dumps
           /\ Dirichlet <=> On(deck, "dirichlet")
           /\ On(deck, "dumps") => /\ "Temperature" \notin loaded /\ "Electrons" \notin loaded
                                   /\ Evolved \subseteq RestartPrims \cup {"emhd"}
           /\ "emhd" \in Evolved => "EMHD" \in loaded
           /\ "EMHD" \in loaded => "emhd" \in Evolved
<1>1. /\ deck \in Decks /\ \A o \in Options \ Changing : pin[o] = deck[o]
      /\ Evolved \subseteq Cells /\ "fluid" \in Evolved
      /\ "electrons" \in Evolved <=> On(deck, "electrons")
      /\ "Ye" \in Evolved <=> On(deck, "Ye")
      /\ "Temperature" \in loaded <=> On(deck, "Ye")
      /\ "Electrons" \in loaded <=> On(deck, "electrons")
      /\ "EMHD" \in loaded <=> On(deck, "emhd")
      /\ "emhd" \in Evolved <=> On(deck, "emhd")
      /\ HasField <=> deck.b_solver \in {"face_ct", "flux_ct"}
  BY RunIs
<1>2. /\ pin.dumps = deck.dumps /\ pin.b_solver = deck.b_solver /\ pin.b_type = deck.b_type
      /\ pin.restart_from_prims = deck.restart_from_prims /\ pin.dirichlet = deck.dirichlet
  BY <1>1 DEF Options, Changing
<1>3. \A d \in Decks : ExchangesAll(d) /\ FieldComes(d) /\ FieldFollowed(d) /\ RestartHolds(d)
  BY DEF Sound, StartsSoundly
<1>4. Exchanges
  BY <1>3, ExchangesHold
<1>5. SeedsField => HasField
  BY <1>1, <1>2, <1>3 DEF SeedsField, FieldFollowed
<1>6. ~On(pin, "restart_from_prims")
  BY <1>1, <1>2, <1>3 DEF FieldComes, On
<1>7. On(deck, "dumps") => /\ "Temperature" \notin loaded /\ "Electrons" \notin loaded
                           /\ Evolved \subseteq RestartPrims \cup {"emhd"}
  BY <1>1, <1>3 DEF RestartHolds, RestartPrims, Cells
<1>8. Dirichlet <=> On(deck, "dirichlet")
  BY <1>2 DEF Dirichlet, On
<1>9. HasField <=> OnMesh
  BY <1>1 DEF OnMesh
<1> QED  BY <1>1, <1>2, <1>4, <1>5, <1>6, <1>7, <1>8, <1>9

\* A restart does not clean the field
LEMMA NotCleaned ==
    ASSUME LoadInv, ResizeInv, DivergenceInv, Running, stage \in Up, Sound, fromFile
    PROVE  /\ FromPrims => On(pin, "restart_from_prims")
           /\ ~("B_Cleanup" \in loaded /\ grid.divergent)
<1>1. pin.problem # "resize_restart"
  BY DEF ResizeInv, Up
<1>2. deck \in Decks /\ Follows(pin)
  BY DEF LoadInv
<1>3. ASSUME grid.divergent  PROVE "B_Cleanup" \notin loaded
  <2>1. deck.problem = "resize_restart"
    BY <1>3 DEF DivergenceInv
  <2>2. CleansOnce(deck)
    BY <1>2 DEF Sound, StartsSoundly
  <2>3. pin.b_cleanup = "off"
    BY <1>1, <2>1, <2>2 DEF ResizeInv, NoLonger
  <2> QED  BY <2>3, CleanupLoaded DEF On
<1> QED  BY <1>1, <1>3 DEF FromPrims

LEMMA DivergenceOnMeshKept ==
    ASSUME LoadInv, MeshInv, DivergenceOnMesh, [Next]_vars
    PROVE  DivergenceOnMesh'
<1>1. OnMesh' = OnMesh
  BY RunChanges DEF OnMesh
<1>2. grid'.divergent => OnMesh
  <2>1. CASE ProblemGenerator
    <3>1. Running
      BY <2>1 DEF ProblemGenerator, Running, At
    <3> QED  BY <2>1, <3>1, MeshTypes, RunIs DEF FacesResized, OnMesh
  <2>2. CASE ReadRestartFile
    <3>1. saved # <<>>
      BY <2>2 DEF ReadRestartFile, MeshInv
    <3> QED  BY <2>2, <3>1, MeshTypes DEF DivergenceOnMesh
  <2>3. CASE ~ProblemGenerator /\ ~ReadRestartFile
    <3>1. grid'.divergent => grid.divergent
      BY <2>3, MeshTypes
    <3> QED  BY <3>1 DEF DivergenceOnMesh
  <2> QED  BY <2>1, <2>2, <2>3
<1>3. saved' # <<>> /\ saved'[1].grid.divergent => OnMesh
  <2>1. CASE WriteRestart
    BY <2>1, RunChanges DEF DivergenceOnMesh
  <2>2. CASE ~WriteRestart
    BY <2>2, RunChanges DEF DivergenceOnMesh
  <2> QED  BY <2>1, <2>2
<1> QED  BY <1>1, <1>2, <1>3 DEF DivergenceOnMesh


\* Steps that leave the packages and the deck alone leave what is empty
LEMMA EmptyNext ==
    ASSUME UNCHANGED <<deck, loaded>>, Empty(grid', Evolved)
    PROVE  EmptyInv'
BY DEF Empty, EmptyInv, Evolved, OnMesh

LEMMA FillingEmpty ==
    ASSUME NEW g, NEW kept, NEW h, Filling(g, kept, h), Empty(g, Evolved), HasField <=> OnMesh
    PROVE  Empty(h, Evolved)
BY DEF Filling, Empty

LEMMA GeneratorEmpty ==
    ASSUME LoadInv, MeshInv, Sound, ProblemGenerator
    PROVE  Empty(grid', Evolved)
<1>1. Running /\ grid' = PtoU(ProblemState)
  BY DEF ProblemGenerator, Running, At
<1>2. PICK p : p = ProblemState
  OBVIOUS
<1>3. /\ p \in Grids /\ \A v \in Cells \ (Evolved \cup {"fluid"}) : p.prims[v] = Everywhere(0)
      /\ p.temperature = Everywhere(0)
      /\ ~HasField => p.field = Everywhere(0) /\ p.face = Everywhere(0)
  BY <1>2, ProblemIs DEF FacesResized
<1>4. /\ grid'.prims = p.prims /\ grid'.temperature = p.temperature /\ grid'.field = p.field
      /\ grid'.face = IF "B_FluxCT" \in loaded THEN p.field ELSE p.face
  BY <1>1, <1>2, <1>3, PtoUIs
<1>5. (HasField <=> OnMesh) /\ "fluid" \in Evolved
  BY <1>1, SoundIs
<1> QED  BY <1>3, <1>4, <1>5 DEF Empty

LEMMA ReadEmpty ==
    ASSUME LoadInv, MeshInv, EntropyInv, Sound, ReadRestartFile, SavedWhole
    PROVE  Empty(grid', Evolved)
<1>1. /\ Running /\ fromFile /\ saved # <<>> /\ saved[1].grid \in Grids
      /\ grid' = Written(saved[1].grid)
  BY DEF ReadRestartFile, Running, At, MeshInv
<1>2. PICK g : g = saved[1].grid
  OBVIOUS
<1>3. ~On(pin, "restart_from_prims") /\ Empty(g, Evolved)
  BY <1>1, <1>2, SoundIs, EvolvedAgain DEF SavedWhole
<1>4. /\ grid' \in Grids
      /\ \A v \in Cells :
            /\ v \notin RestartPrims => grid'.prims[v] = Everywhere(0)
            /\ v \in RestartPrims => /\ grid'.prims[v].interior = g.prims[v].interior
                                     /\ grid'.prims[v].ghost = 0 /\ grid'.prims[v].domain = 0
      /\ grid'.face.interior = g.face.interior /\ grid'.face.ghost = 0 /\ grid'.face.domain = 0
      /\ grid'.field = Everywhere(0) /\ grid'.temperature = Everywhere(0)
  BY <1>1, <1>2, <1>3, WrittenIs
<1>5. /\ Everywhere(0) \in Values /\ Everywhere(0).interior = 0
      /\ Everywhere(0).ghost = 0 /\ Everywhere(0).domain = 0
  BY EverywhereIs
<1>6. ASSUME NEW v \in Cells \ Evolved  PROVE grid'.prims[v] = Everywhere(0)
  <2>1. CASE v \notin RestartPrims
    BY <1>4, <2>1
  <2>2. CASE v \in RestartPrims
    <3>1. grid'.prims[v] \in Values
      BY <1>4, Parts
    <3>2. /\ grid'.prims[v].interior = 0 /\ grid'.prims[v].ghost = 0
          /\ grid'.prims[v].domain = 0
      BY <1>3, <1>4, <1>5, <2>2 DEF Empty
    <3> QED  BY <1>5, <3>1, <3>2, Zones
  <2> QED  BY <2>1, <2>2
<1>7. ~OnMesh => grid'.face = Everywhere(0)
  <2>1. grid'.face \in Values
    BY <1>4, Parts
  <2>2. ~OnMesh => /\ grid'.face.interior = 0 /\ grid'.face.ghost = 0 /\ grid'.face.domain = 0
    BY <1>3, <1>4, <1>5 DEF Empty
  <2> QED  BY <1>5, <2>1, <2>2, Zones
<1> QED  BY <1>4, <1>6, <1>7 DEF Empty

LEMMA SeedEmpty ==
    ASSUME LoadInv, MeshInv, Sound, Running, SeedField, Empty(grid, Evolved)
    PROVE  Empty(grid', Evolved)
<1>1. /\ grid \in Grids /\ cache \in Caches /\ Exchanges /\ (SeedsField => HasField)
      /\ HasField <=> OnMesh
  BY SoundIs DEF MeshInv
<1>2. CASE ~SeedsField
  BY <1>2 DEF SeedField
<1>3. CASE SeedsField
  <2>1. PICK c : c = Frozen(grid)
    OBVIOUS
  <2>2. PICK s : s = SyncAllBounds(grid, c)
    OBVIOUS
  <2>3. c \in Caches /\ Filling(grid, c, s) /\ cache' = c
    BY <1>1, <1>3, <2>1, <2>2, FrozenFilled DEF SeedField
  <2>4. PICK g : g = Seeded(s)
    OBVIOUS
  <2>5. s \in Grids /\ g \in Grids /\ g.prims = s.prims /\ g.temperature = s.temperature
    BY <2>3, <2>4, SeededIs DEF Filling
  <2>6. PICK t : t = SyncAllBounds(g, c)
    OBVIOUS
  <2>7. Filling(g, c, t)
    BY <1>1, <2>3, <2>5, <2>6, SyncIs
  <2>8. grid' = IF On(pin, "norm") THEN Normalized(t) ELSE g
    BY <1>3, <2>2, <2>3, <2>4, <2>6 DEF SeedField
  <2>9. /\ \A v \in Cells \ Evolved : g.prims[v] = Everywhere(0)
        /\ g.temperature = Everywhere(0)
    BY <2>3, <2>5 DEF Filling, Empty
  <2>10. /\ \A v \in Cells \ Evolved : t.prims[v] = Everywhere(0)
         /\ t.temperature = Everywhere(0) /\ t \in Grids
    BY <2>7, <2>9 DEF Filling
  <2>11. Normalized(t).prims = t.prims /\ Normalized(t).temperature = t.temperature
    BY <2>10, NormalizedIs
  <2>12. OnMesh
    BY <1>1, <1>3
  <2> QED  BY <2>8, <2>9, <2>10, <2>11, <2>12 DEF Empty
<1> QED  BY <1>2, <1>3

LEMMA RestoreEmpty ==
    ASSUME LoadInv, MeshInv, Sound, Running, Restore, Empty(grid, Evolved)
    PROVE  Empty(grid', Evolved)
<1>1. grid \in Grids /\ (HasField <=> OnMesh) /\ ("EMHD" \in loaded => "emhd" \in Evolved)
  BY SoundIs DEF MeshInv
<1>2. CASE grid' = grid
  BY <1>2
<1>3. CASE grid' = Restored(grid)
  <2>1. /\ grid'.temperature = grid.temperature
        /\ \A v \in Cells \ Evolved : grid'.prims[v] = grid.prims[v]
        /\ ~HasField => grid'.face = grid.face /\ grid'.field = grid.field
    BY <1>1, <1>3, RestoredIs DEF HasField
  <2> QED  BY <1>1, <2>1 DEF Empty
<1> QED  BY <1>2, <1>3 DEF Restore

LEMMA CleanEmpty ==
    ASSUME LoadInv, MeshInv, DivergenceOnMesh, Sound, Running, CleanField, Empty(grid, Evolved)
    PROVE  Empty(grid', Evolved)
<1>1. grid \in Grids /\ cache \in Caches /\ Exchanges
  BY SoundIs DEF MeshInv
<1>2. CASE ~("B_Cleanup" \in loaded /\ grid.divergent)
  BY <1>2 DEF CleanField
<1>3. CASE "B_Cleanup" \in loaded /\ grid.divergent
  <2>1. OnMesh
    BY <1>3 DEF DivergenceOnMesh
  <2>2. /\ grid'.temperature = grid.temperature
        /\ \A v \in Cells \ Evolved : grid'.prims[v] = grid.prims[v]
    BY <1>1, <1>3, CleanupFills DEF CleanField
  <2> QED  BY <2>1, <2>2 DEF Empty
<1> QED  BY <1>2, <1>3

LEMMA SettleEmpty ==
    ASSUME LoadInv, MeshInv, Sound, Running, SettleField, Empty(grid, Evolved)
    PROVE  Empty(grid', Evolved)
<1>1. grid \in Grids /\ cache \in Caches /\ Exchanges /\ (HasField <=> OnMesh)
  BY SoundIs DEF MeshInv
<1>2. CASE grid' = grid
  BY <1>2
<1>3. CASE grid' # grid
  <2>1. Filling(grid, Frozen(grid), grid')
    BY <1>1, <1>3, FrozenFilled DEF SettleField, FreezeAndSync
  <2> QED  BY <1>1, <2>1, FillingEmpty
<1> QED  BY <1>2, <1>3

LEMMA FinishEmpty ==
    ASSUME LoadInv, MeshInv, Sound, On(deck, "dumps"), Running, Finish, Empty(grid, Evolved)
    PROVE  Empty(grid', Evolved)
<1>1. Exchanges /\ (HasField <=> OnMesh) /\ "Temperature" \notin loaded
  BY SoundIs
<1>2. /\ \A v \in Cells \ Evolved : grid'.prims[v] = grid.prims[v]
      /\ ~HasField => grid'.face = grid.face /\ grid'.field = grid.field
      /\ grid'.temperature = grid.temperature
  BY <1>1, FinishIs
<1> QED  BY <1>1, <1>2 DEF Empty

LEMMA StepEmpty ==
    ASSUME LoadInv, MeshInv, Sound, On(deck, "dumps"), Running, Step, Empty(grid, Evolved)
    PROVE  Empty(grid', Evolved)
<1>1. /\ (HasField <=> OnMesh) /\ "Temperature" \notin loaded /\ grid \in Grids /\ steps \in Nat
      /\ grid' = Advanced(grid)
  BY SoundIs DEF Step, MeshInv
<1>2. /\ \A v \in Cells \ Evolved : grid'.prims[v] = grid.prims[v]
      /\ ~HasField => grid'.face = grid.face /\ grid'.field = grid.field
      /\ grid'.temperature = grid.temperature
  BY <1>1, AdvancedIs
<1> QED  BY <1>1, <1>2 DEF Empty

LEMMA EmptyKept ==
    ASSUME LoadInv, MeshInv, EntropyInv, DivergenceOnMesh, Sound, EmptyInv, SavedWhole,
           [Next]_vars
    PROVE  EmptyInv'
<1>1. deck' = deck
  BY RunChanges
<1> SUFFICES ASSUME On(deck, "dumps"), stage' \in Up
             PROVE  EmptyInv'
  BY <1>1 DEF EmptyInv
<1>2. stage \in Up => Running /\ Empty(grid, Evolved)
  BY DEF EmptyInv, Running
<1>3. CASE UNCHANGED vars
  <2>1. UNCHANGED <<stage, loaded, grid>>
    BY <1>3 DEF vars, loadingVars, runVars
  <2> QED  BY <1>1, <1>2, <2>1, EmptyNext
<1>4. CASE ProblemGenerator
  BY <1>1, <1>4, GeneratorEmpty, EmptyNext DEF ProblemGenerator, PackagesKept
<1>5. CASE ReadRestartFile
  BY <1>1, <1>5, ReadEmpty, EmptyNext DEF ReadRestartFile, PackagesKept
<1>6. CASE MeshExchange
  <2>1. /\ stage = "exchange" /\ loaded' = loaded
        /\ grid' = DomainLockstep(Exchanged(grid, cache))
    BY <1>6 DEF MeshExchange, At, PackagesKept
  <2>2. /\ Running /\ Empty(grid, Evolved) /\ grid \in Grids /\ cache \in Caches
    BY <1>2, <2>1 DEF Up, MeshInv
  <2>3. Exchanges /\ (HasField <=> OnMesh)
    BY <2>2, SoundIs
  <2>4. Filling(grid, cache, grid')
    BY <2>1, <2>2, <2>3, MetIs
  <2> QED  BY <1>1, <2>1, <2>2, <2>3, <2>4, FillingEmpty, EmptyNext
<1>7. CASE SeedField \/ Restore \/ SettleField \/ CleanField
  <2>1. stage \in Up /\ loaded' = loaded
    BY <1>7 DEF SeedField, Restore, SettleField, CleanField, At, PackagesKept, Up
  <2>2. Empty(grid', Evolved)
    BY <1>2, <1>7, <2>1, SeedEmpty, RestoreEmpty, SettleEmpty, CleanEmpty
  <2> QED  BY <1>1, <2>1, <2>2, EmptyNext
<1>8. CASE ReinitElectrons
  <2>1. stage \in Up /\ loaded' = loaded
    BY <1>8 DEF ReinitElectrons, At, Up
  <2>2. "Electrons" \notin loaded
    BY <1>2, <2>1, SoundIs
  <2>3. grid' = grid
    BY <1>8, <2>2 DEF ReinitElectrons
  <2> QED  BY <1>1, <1>2, <2>1, <2>3, EmptyNext
<1>9. CASE Finish \/ Step
  <2>1. stage \in Up /\ loaded' = loaded
    BY <1>9 DEF Finish, Step, At, PackagesKept, Up
  <2>2. Empty(grid', Evolved)
    BY <1>2, <1>9, <2>1, FinishEmpty, StepEmpty
  <2> QED  BY <1>1, <2>1, <2>2, EmptyNext
<1>10. CASE EstimateTimestep \/ WriteRestart
  <2>1. stage \in Up /\ loaded' = loaded /\ grid' = grid
    BY <1>10 DEF EstimateTimestep, WriteRestart, At, PackagesKept, UnchangedBut, Up
  <2> QED  BY <1>1, <1>2, <2>1, EmptyNext
<1> QED  BY <1>3, <1>4, <1>5, <1>6, <1>7, <1>8, <1>9, <1>10, IntoUp


-----------------------------------------------------------------------------
(***************************************************************************)
(* Files hold whole states.                                                *)
(***************************************************************************)
LEMMA TogetherKept ==
    ASSUME LoadInv, MeshInv, Sound, Together, [Next]_vars
    PROVE  Together'
<1> SUFFICES ASSUME stage' \in {"timestep", "looping"}
             PROVE  \A v \in Evolved' : grid'.cons[v].interior = grid'.prims[v].interior
  BY DEF Together
<1>1. stage' \in Up
  BY DEF Up
<1>2. CASE UNCHANGED vars
  <2>1. UNCHANGED <<stage, loaded, grid>>
    BY <1>2 DEF vars, loadingVars, runVars
  <2> QED  BY <2>1 DEF Together, Evolved
<1>3. CASE Finish
  <2>1. Running /\ Evolved' = Evolved
    BY <1>3, Fixed DEF Finish, At, PackagesKept, Running, Up
  <2>2. Exchanges /\ Evolved \subseteq Cells
    BY <2>1, SoundIs
  <2> QED  BY <1>3, <2>1, <2>2, FinishIs
<1>4. CASE Step
  <2>1. /\ Evolved' = Evolved /\ grid \in Grids /\ steps \in Nat /\ grid' = Advanced(grid)
    BY <1>4, Fixed DEF Step, PackagesKept, MeshInv
  <2>2. \A v \in Evolved : /\ grid'.prims[v].interior = 10 + steps
                           /\ grid'.cons[v].interior = 10 + steps
    BY <2>1, AdvancedIs
  <2> QED  BY <2>1, <2>2
<1>5. CASE EstimateTimestep \/ WriteRestart
  <2>1. /\ stage \in {"timestep", "looping"} /\ Evolved' = Evolved /\ grid' = grid
    BY <1>5, Fixed DEF EstimateTimestep, WriteRestart, At, PackagesKept, UnchangedBut
  <2> QED  BY <2>1 DEF Together
<1>6. CASE \/ ProblemGenerator \/ ReadRestartFile \/ MeshExchange \/ SeedField \/ Restore
           \/ SettleField \/ CleanField \/ ReinitElectrons
  BY <1>6 DEF ProblemGenerator, ReadRestartFile, MeshExchange, SeedField, Restore, SettleField,
              CleanField, ReinitElectrons, At
<1> QED  BY <1>1, <1>2, <1>3, <1>4, <1>5, <1>6, IntoUp

\* A state ready to step is whole
LEMMA ReadyComplete ==
    ASSUME LoadInv, MeshInv, Sound, Together, ReadyInv, DirichletInv,
           stage \in {"timestep", "looping"}
    PROVE  Complete(grid, Evolved)
<1>1. Running /\ Ready
  BY DEF Running, Up, ReadyInv
<1>2. (HasField <=> OnMesh) /\ (Dirichlet <=> On(deck, "dirichlet"))
  BY <1>1, SoundIs
<1>3. On(deck, "dirichlet") => /\ \A v \in Evolved : grid.prims[v].domain = 1
                               /\ HasField => grid.face.domain = Outside
  BY DEF DirichletInv, Up, MeshOutside, Late, CellsOutside, FieldOutside
<1>4. ASSUME NEW v \in Evolved
      PROVE  /\ grid.prims[v].ghost = grid.prims[v].interior
             /\ grid.prims[v].domain =
                   IF On(deck, "dirichlet") THEN 1 ELSE grid.prims[v].interior
             /\ grid.cons[v].interior = grid.prims[v].interior
  BY <1>1, <1>2, <1>3 DEF Ready, Filled, Together
<1>5. ASSUME OnMesh
      PROVE  /\ grid.face.ghost = grid.face.interior /\ grid.field = grid.face
             /\ grid.face.domain =
                   IF On(deck, "dirichlet") THEN Outside ELSE grid.face.interior
  BY <1>1, <1>2, <1>3, <1>5 DEF Ready, Filled
<1> QED  BY <1>4, <1>5 DEF Complete

LEMMA SavedWholeKept ==
    ASSUME LoadInv, MeshInv, Sound, Together, ReadyInv, DirichletInv, EmptyInv, SavedWhole,
           [Next]_vars
    PROVE  SavedWhole'
<1>1. deck' = deck /\ OnMesh' = OnMesh /\ Outside' = Outside
  BY RunChanges DEF OnMesh, Outside
<1>2. CASE WriteRestart
  <2>1. /\ saved'[1].pin = pin /\ saved'[1].grid = grid /\ stage = "looping"
    BY <1>2, RunChanges
  <2>2. Running /\ On(pin, "dumps")
    BY <1>2, <2>1 DEF Running, Up, WriteRestart
  <2>3. On(deck, "dumps") /\ Evolved = EvolvedOf(pin)
    BY <2>2, SoundIs, EvolvedIs DEF On
  <2>4. Empty(grid, EvolvedOf(pin)) /\ Complete(grid, EvolvedOf(pin))
    BY <2>1, <2>3, ReadyComplete DEF EmptyInv, Up
  <2> QED  BY <1>1, <2>1, <2>3, <2>4 DEF SavedWhole, Empty, Complete, EvolvedOf
<1>3. CASE ~WriteRestart
  <2>1. saved' = saved
    BY <1>3, RunChanges
  <2> QED  BY <1>1, <2>1 DEF SavedWhole, Empty, Complete, EvolvedOf
<1> QED  BY <1>2, <1>3

-----------------------------------------------------------------------------
(***************************************************************************)
(* Interior zones resume.                                                  *)
(***************************************************************************)
Unrestored == {"exchange", "seed", "restore"}    \* primitives are still to be recovered

\* old's interior is g's: of what was read, and once it is restored of the primitives
Resumes(old, g, restored) ==
    /\ HasField => g.face.interior = old.face.interior
    /\ \A v \in Evolved :
          IF restored THEN g.prims[v].interior = old.prims[v].interior
          ELSE /\ g.cons[v].interior = old.cons[v].interior
               /\ v \in RestartPrims => g.prims[v].interior = old.prims[v].interior

ResumedInv ==
    fromFile /\ stage \in Up =>
        /\ steps >= saved[1].steps
        /\ stage \notin {"timestep", "looping"} => steps = saved[1].steps
        /\ steps = saved[1].steps => Resumes(saved[1].grid, grid, stage \notin Unrestored)

LEMMA ResumesNext ==
    ASSUME UNCHANGED <<loaded, saved, steps, fromFile>>, stage \in Up, ResumedInv,
           stage' \notin {"timestep", "looping"} => stage \notin {"timestep", "looping"},
           fromFile /\ steps = saved[1].steps =>
               Resumes(saved[1].grid, grid', stage' \notin Unrestored)
    PROVE  ResumedInv'
<1>1. HasField' = HasField /\ Evolved' = Evolved
  BY DEF HasField, Evolved
<1> SUFFICES ASSUME fromFile, stage' \in Up
             PROVE  /\ steps >= saved[1].steps
                    /\ stage' \notin {"timestep", "looping"} => steps = saved[1].steps
                    /\ steps = saved[1].steps =>
                           Resumes(saved[1].grid, grid', stage' \notin Unrestored)
  BY <1>1 DEF ResumedInv, Resumes
<1> QED  BY DEF ResumedInv

LEMMA RestoreResumes ==
    ASSUME LoadInv, MeshInv, ResizeInv, DivergenceInv, EntropyInv, SavedWhole, Sound, Running,
           fromFile, Restore, Resumes(saved[1].grid, grid, FALSE)
    PROVE  Resumes(saved[1].grid, grid', TRUE)
<1>1. PICK old : old = saved[1].grid
  OBVIOUS
<1>2. stage = "restore" /\ grid' = Restored(grid) /\ grid \in Grids /\ saved # <<>>
  BY DEF Restore, At, IsRestart, MeshInv
<1>3. ~FromPrims
  BY <1>2, NotCleaned, SoundIs DEF Up
<1>4. On(deck, "dumps") /\ Complete(old, Evolved)
  BY <1>1, <1>2, EvolvedAgain DEF SavedWhole
<1>5. /\ Evolved \subseteq RestartPrims \cup {"emhd"} /\ Evolved \subseteq Cells
      /\ "emhd" \in Evolved => "EMHD" \in loaded
  BY <1>4, SoundIs
<1>6. /\ \A v \in Cells : grid'.prims[v] = IF v = "emhd" /\ "EMHD" \in loaded
                                           THEN grid.cons[v] ELSE grid.prims[v]
      /\ grid'.face = grid.face
  BY <1>2, <1>3, RestoredIs
<1>7. HasField => grid'.face.interior = old.face.interior
  BY <1>1, <1>6 DEF Resumes
<1>8. ASSUME NEW v \in Evolved  PROVE grid'.prims[v].interior = old.prims[v].interior
  <2>1. /\ grid.cons[v].interior = old.cons[v].interior
        /\ v \in RestartPrims => grid.prims[v].interior = old.prims[v].interior
    BY <1>1 DEF Resumes
  <2>2. old.cons[v].interior = old.prims[v].interior
    BY <1>4 DEF Complete
  <2>3. CASE v = "emhd"
    BY <1>5, <1>6, <2>1, <2>2, <2>3
  <2>4. CASE v # "emhd"
    BY <1>5, <1>6, <2>1, <2>4
  <2> QED  BY <2>3, <2>4
<1> QED  BY <1>1, <1>7, <1>8 DEF Resumes

LEMMA ReadResumes ==
    ASSUME MeshInv, ReadRestartFile
    PROVE  Resumes(saved[1].grid, grid', FALSE)
<1>1. saved[1].grid \in Grids /\ grid' = Written(saved[1].grid)
  BY DEF ReadRestartFile, MeshInv
<1>2. Evolved \subseteq Cells
  BY DEF Evolved
<1> QED  BY <1>1, <1>2, WrittenIs DEF Resumes

LEMMA FillingResumes ==
    ASSUME NEW old, NEW g, NEW kept, NEW h, NEW restored, Filling(g, kept, h),
           Resumes(old, g, restored)
    PROVE  Resumes(old, h, restored)
<1>1. Evolved \subseteq Cells
  BY DEF Evolved
<1> QED  BY <1>1 DEF Filling, Resumes

LEMMA FinishResumes ==
    ASSUME LoadInv, MeshInv, Sound, FieldOK, Finish, NEW old, Resumes(old, grid, TRUE)
    PROVE  Resumes(old, grid', TRUE)
<1>1. Running
  BY DEF Finish, Running, At, Up
<1>2. Exchanges /\ Evolved \subseteq Cells
  BY <1>1, SoundIs
<1>3. /\ \A v \in Evolved : grid'.prims[v].interior = grid.prims[v].interior
      /\ HasField => \/ grid'.face.interior = grid.field.interior
                     \/ grid'.face.interior = grid.face.interior
  BY <1>2, FinishIs
<1> QED  BY <1>3 DEF Resumes, FieldOK

LEMMA ResumedKept ==
    ASSUME LoadInv, MeshInv, ResizeInv, DivergenceInv, EntropyInv, ReadyInv, SavedWhole, Sound,
           ResumedInv, [Next]_vars
    PROVE  ResumedInv'
<1> SUFFICES ASSUME stage' \in Up
             PROVE  ResumedInv'
  BY DEF ResumedInv
<1>1. PICK old : old = saved[1].grid
  OBVIOUS
<1>2. stage \in Up => Running
  BY DEF Running
<1>3. fromFile /\ stage \in Up /\ steps = saved[1].steps =>
          Resumes(old, grid, stage \notin Unrestored)
  BY <1>1 DEF ResumedInv
<1>4. CASE UNCHANGED vars
  <2>1. UNCHANGED <<stage, loaded, grid, saved, steps, fromFile>>
    BY <1>4 DEF vars, loadingVars, runVars
  <2> QED  BY <1>1, <1>3, <2>1, ResumesNext
<1>5. CASE ProblemGenerator
  BY <1>5 DEF ProblemGenerator, UnchangedBut, ResumedInv
<1>6. CASE ReadRestartFile
  <2>1. /\ stage' = "exchange" /\ UNCHANGED <<loaded, saved>> /\ steps' = saved[1].steps
        /\ saved # <<>>
    BY <1>6 DEF ReadRestartFile, At, UnchangedBut, PackagesKept, MeshInv
  <2>2. Resumes(saved[1].grid, grid', FALSE)
    BY <1>6, ReadResumes
  <2>3. HasField' = HasField /\ Evolved' = Evolved
    BY <2>1 DEF HasField, Evolved
  <2>4. steps' >= saved[1].steps
    BY <2>1 DEF MeshInv
  <2> QED  BY <2>1, <2>2, <2>3, <2>4 DEF ResumedInv, Resumes, Unrestored
<1>7. CASE MeshExchange
  <2>1. /\ stage = "exchange" /\ stage' = "seed"
        /\ UNCHANGED <<loaded, saved, steps, fromFile>>
        /\ grid' = DomainLockstep(Exchanged(grid, cache))
    BY <1>7 DEF MeshExchange, At, PackagesKept, UnchangedBut
  <2>2. Exchanges
    BY <1>2, <2>1, SoundIs DEF Up
  <2>3. Filling(grid, cache, grid')
    BY <2>1, <2>2, MetIs DEF MeshInv
  <2>4. fromFile /\ steps = saved[1].steps => Resumes(old, grid', FALSE)
    BY <1>3, <2>1, <2>3, FillingResumes DEF Unrestored, Up
  <2> QED  BY <1>1, <2>1, <2>4, ResumesNext DEF Unrestored, Up
<1>8. CASE SeedField
  <2>1. /\ stage = "seed" /\ stage' = "restore"
        /\ UNCHANGED <<loaded, saved, steps, fromFile>>
    BY <1>8 DEF SeedField, At, PackagesKept, UnchangedBut
  <2>2. fromFile => grid' = grid
    BY <1>8 DEF SeedField, SeedsField, IsRestart
  <2> QED  BY <1>1, <1>3, <2>1, <2>2, ResumesNext DEF Unrestored, Up
<1>9. CASE Restore
  <2>1. /\ stage = "restore" /\ stage' = "settle"
        /\ UNCHANGED <<loaded, saved, steps, fromFile>>
    BY <1>9 DEF Restore, At, PackagesKept, UnchangedBut
  <2>2. fromFile /\ steps = saved[1].steps => Resumes(saved[1].grid, grid, FALSE)
    BY <1>1, <1>3, <2>1 DEF Unrestored, Up
  <2>3. fromFile /\ steps = saved[1].steps => Resumes(saved[1].grid, grid', TRUE)
    BY <1>2, <1>9, <2>1, <2>2, RestoreResumes DEF Up
  <2> QED  BY <2>1, <2>3, ResumesNext DEF Unrestored, Up
<1>10. CASE SettleField
  <2>1. /\ stage = "settle" /\ stage' = "clean"
        /\ UNCHANGED <<loaded, saved, steps, fromFile>>
    BY <1>10 DEF SettleField, At, PackagesKept, UnchangedBut
  <2>2. Exchanges
    BY <1>2, <2>1, SoundIs DEF Up
  <2>3. grid' = grid \/ Filling(grid, Frozen(grid), grid')
    BY <1>10, <2>2, FrozenFilled DEF SettleField, FreezeAndSync, MeshInv
  <2>4. fromFile /\ steps = saved[1].steps => Resumes(old, grid', TRUE)
    BY <1>3, <2>1, <2>3, FillingResumes DEF Unrestored, Up
  <2> QED  BY <1>1, <2>1, <2>4, ResumesNext DEF Unrestored, Up
<1>11. CASE CleanField \/ ReinitElectrons
  <2>1. /\ stage \in {"clean", "electrons"} /\ stage' \in {"electrons", "finish"}
        /\ UNCHANGED <<loaded, saved, steps, fromFile>>
    BY <1>11 DEF CleanField, ReinitElectrons, At, PackagesKept, UnchangedBut
  <2>2. Running /\ stage \in Up
    BY <2>1 DEF Running, Up
  <2>3. fromFile => saved # <<>>
    BY DEF MeshInv
  <2>4. fromFile => "Electrons" \notin loaded
    BY <2>2, <2>3, SoundIs DEF SavedWhole
  <2>5. fromFile => grid' = grid
    BY <1>11, <2>2, <2>4, NotCleaned DEF CleanField, ReinitElectrons
  <2> QED  BY <1>1, <1>3, <2>1, <2>2, <2>5, ResumesNext DEF Unrestored
<1>12. CASE Finish
  <2>1. /\ stage = "finish" /\ stage' = "timestep"
        /\ UNCHANGED <<loaded, saved, steps, fromFile>>
    BY <1>12 DEF Finish, At, PackagesKept, UnchangedBut
  <2>2. FieldOK
    BY <2>1 DEF ReadyInv
  <2>3. fromFile /\ steps = saved[1].steps => Resumes(old, grid', TRUE)
    BY <1>3, <1>12, <2>1, <2>2, FinishResumes DEF Unrestored, Up
  <2> QED  BY <1>1, <2>1, <2>3, ResumesNext DEF Unrestored, Up
<1>13. CASE EstimateTimestep
  <2>1. /\ stage = "timestep" /\ stage' = "looping"
        /\ UNCHANGED <<loaded, saved, steps, fromFile, grid>>
    BY <1>13 DEF EstimateTimestep, At, PackagesKept, UnchangedBut
  <2> QED  BY <1>1, <1>3, <2>1, ResumesNext DEF Unrestored, Up
<1>14. CASE Step
  <2>1. /\ stage = "looping" /\ stage' = "timestep" /\ steps' = steps + 1
        /\ UNCHANGED <<saved, fromFile>>
    BY <1>14 DEF Step, At, UnchangedBut
  <2>2. fromFile => steps >= saved[1].steps /\ saved[1].steps \in Nat /\ steps \in Nat
    BY <2>1 DEF ResumedInv, MeshInv, Up
  <2>3. fromFile => steps' >= saved[1].steps /\ steps' # saved[1].steps
    BY <2>1, <2>2
  <2> QED  BY <2>1, <2>3 DEF ResumedInv
<1>15. CASE WriteRestart
  <2>1. /\ saved'[1].grid = grid /\ saved'[1].steps = steps /\ steps' = steps /\ grid' = grid
        /\ stage' = "looping" /\ loaded' = loaded /\ steps \in Nat
    BY <1>15, RunChanges DEF MeshInv
  <2>2. steps' >= saved'[1].steps
    BY <2>1
  <2> QED  BY <2>1, <2>2 DEF ResumedInv, Resumes, Unrestored
<1> QED  BY <1>4, <1>5, <1>6, <1>7, <1>8, <1>9, <1>10, <1>11, <1>12, <1>13, <1>14, <1>15, IntoUp

(***************************************************************************)
(* With decks that start soundly, a run restarted from a file resumes the  *)
(* state the file was written from, ghost zones and all: whatever restart  *)
(* files leave out is recovered by the startup, after any number of steps, *)
(* crashes, restarts and files.                                            *)
(***************************************************************************)
THEOREM RestartAlwaysKeepsState ==
    ASSUME \A d \in Decks : StartsSoundly(d)
    PROVE  Spec => []RestartKeepsState
<1> DEFINE Inv ==
        /\ ResizeInv /\ DivergenceInv /\ EntropyInv /\ ReadyInv /\ DirichletInv
        /\ DivergenceOnMesh /\ Together /\ EmptyInv /\ SavedWhole /\ ResumedInv
<1>1. Sound /\ \A d \in Decks : /\ ExchangesAll(d) /\ FieldComes(d)
                              /\ DirichletHolds(d)
  BY DEF Sound, StartsSoundly
<1>2. Init => Inv
  <2> SUFFICES ASSUME Init PROVE Inv
    OBVIOUS
  <2>1. /\ pin = deck /\ saved = <<>> /\ fromFile = FALSE /\ stage = "parameters"
        /\ ~grid.divergent
    BY BlankIs DEF Init
  <2> QED  BY <2>1 DEF ResizeInv, NoLonger, DivergenceInv, EntropyInv, ReadyInv, DirichletInv,
                       SavedOutside, DivergenceOnMesh, Together, EmptyInv, SavedWhole,
                       ResumedInv, Up
<1>3. LoadInv /\ MeshInv /\ Inv /\ [Next]_vars => Inv'
  <2> SUFFICES ASSUME LoadInv, MeshInv, Inv, [Next]_vars  PROVE Inv'
    OBVIOUS
  <2>1. ResizeInv' /\ DivergenceInv' /\ EntropyInv'
    BY ResizeKept, DivergenceKept, EntropyKept
  <2>2. ReadyInv' /\ DirichletInv'
    BY <1>1, ReadyKept, DirichletInvKept
  <2>3. DivergenceOnMesh' /\ Together' /\ EmptyInv' /\ SavedWhole' /\ ResumedInv'
    BY <1>1, DivergenceOnMeshKept, TogetherKept, EmptyKept, SavedWholeKept, ResumedKept
  <2> QED  BY <2>1, <2>2, <2>3
<1>4. LoadInv /\ MeshInv /\ Inv => RestartKeepsState
  <2> SUFFICES ASSUME LoadInv, MeshInv, Inv, stage = "looping", fromFile,
                      steps = saved[1].steps
               PROVE  LET old == saved[1].grid
                      IN  /\ grid.prims = old.prims
                          /\ \A v \in Evolved : grid.cons[v].interior = old.cons[v].interior
                          /\ grid.face = old.face /\ grid.field = old.field
                          /\ grid.temperature = old.temperature
    BY DEF RestartKeepsState
  <2>1. PICK old : old = saved[1].grid
    OBVIOUS
  <2>2. Running /\ stage \in Up /\ saved # <<>> /\ grid \in Grids /\ old \in Grids
    BY <2>1 DEF Running, Up, MeshInv
  <2>3. Evolved = EvolvedOf(saved[1].pin) /\ (HasField <=> OnMesh)
    BY <1>1, <2>2, EvolvedAgain, SoundIs
  <2>4. On(deck, "dumps") /\ Empty(old, Evolved) /\ Complete(old, Evolved)
    BY <2>1, <2>2, <2>3 DEF SavedWhole
  <2>5. Empty(grid, Evolved) /\ Complete(grid, Evolved)
    BY <1>1, <2>2, <2>4, ReadyComplete DEF EmptyInv
  <2>6. Resumes(old, grid, TRUE)
    BY <2>1, <2>2 DEF ResumedInv, Unrestored
  <2> HIDE DEF Inv
  <2> QED  BY <2>1, <2>2, <2>3, <2>4, <2>5, <2>6, WholeAgree DEF Resumes
<1> HIDE DEF Inv
<1> QED  BY <1>2, <1>3, <1>4, LoadInvHolds, MeshInvHolds, PTL DEF Spec

=============================================================================
