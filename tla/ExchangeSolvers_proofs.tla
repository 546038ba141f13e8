------------------------- MODULE ExchangeSolvers_proofs -------------------------
(***************************************************************************)
(* What the three solvers accept is of one state, and good enough, however *)
(* many iterations, shrunk steps and probes they are allowed, and the      *)
(* fluid frame's iterations start and stay in their bracket.               *)
(*                                                                         *)
(* Neither follows from where a solver stops alone.  The invariant says at *)
(* every phase which of a solver's variables can be trusted to be of the   *)
(* iterate, that states are numbered without gaps so that a new one is     *)
(* never taken for an old, that the best state was evaluated and none did  *)
(* better, which gas solve_4d_prad holds, and on which side of the root    *)
(* each end of the bracket is.                                             *)
(***************************************************************************)
EXTENDS ExchangeSolvers, TLAPS

(* The phases each solver goes through.                                      *)
PhaseInv ==
    /\ solver = "pmhd" => phase \in {"start", "loop", "step", "end", "done"}
    /\ solver = "prad" => phase \in {"start", "candidates", "weigh", "improve", "loop", "step",
                                    "end", "noise", "done"}
    /\ solver = "ff" => phase \in {"start", "equilibrium", "bracket", "loop", "step",
                                  "converged", "giveup", "done"}

Unevaluated == {"start", "candidates", "weigh"}

(* States are numbered as they are evaluated, from the zone's own or, where  *)
(* a candidate replaced it, from the next.                                   *)
Counted ==
    /\ \E n \in Nat \ {0} : DOMAIN errs = 1 .. n \/ DOMAIN errs = 2 .. n
    /\ errs \in [DOMAIN errs -> Errors]

KindsInv ==
    /\ solver \in {"pmhd", "ff", "prad"} /\ star \in BOOLEAN /\ PhaseInv
    /\ err \in Errors /\ niter \in Nat
    /\ phase \in Unevaluated => DOMAIN errs = {}
    /\ Newton /\ phase \in Unevaluated \cup {"improve", "loop", "step"} => bad = FALSE

(* The iterate is one state, and the error is its own, but while a step is   *)
(* tried and where one went wrong.                                           *)
Current == guess = Of(guess.P) /\ guess.P \in DOMAIN errs /\ err = errs[guess.P]

IterateInv ==
    /\ phase \in {"start", "candidates"} => guess = Of(Entry)
    /\ phase \in {"improve", "loop", "equilibrium", "bracket", "converged"} => Current
    /\ solver = "ff" /\ phase = "step" => Current
    /\ phase = "end" /\ ~bad => Current

(* The best state is one that was evaluated, and no other did better.        *)
Least ==
    /\ best = Best(best.P, best.err)
    /\ best.P \in DOMAIN errs /\ best.err = errs[best.P]
    /\ \A s \in DOMAIN errs : best.err <= errs[s]

BestInv ==
    /\ solver # "pmhd" /\ phase \notin Unevaluated \cup {"done"} => Least
    /\ phase \in {"improve", "equilibrium"} => best.err = err
    /\ phase = "noise" => best.err <= AcceptTol
    /\ phase = "end" => solver # "ff"

(* Whenever solve_4d_prad may stop, the gas is the iterate's own: but at its *)
(* very start from a repaired gas.                                           *)
FirstGas == guess = Of(Entry) /\ gas = [U |-> EntryU, P |-> Entry]
OwnGas == gas = Gas(guess.P)

GasInv ==
    solver = "prad" =>
        /\ phase = "candidates" => FirstGas /\ keep = gas
        /\ phase = "weigh" =>
               FirstGas \/ (guess = Of(Entry + 1) /\ OwnGas /\ mhd = guess.P)
        /\ phase = "improve" =>
               /\ mhd = guess.P /\ track \in 0 .. 2
               /\ err > AcceptTol \/ (track = 2 /\ OwnGas)
        /\ phase = "loop" \/ (phase = "end" /\ ~bad) =>
               ~Converged \/ OwnGas \/ FirstGas

(* A bracket that was not rebuilt holds the iterate, where the step leads    *)
(* as well, and at its start the root.                                       *)
Ladders == [u : Int, lo : Int \cup {None}, hi : Int \cup {None}, root : Int,
            bisect : BOOLEAN, rebuilt : BOOLEAN]

LadderInv ==
    /\ ladder \in Ladders
    /\ solver = "ff" =>
        /\ phase \in {"start", "equilibrium", "bracket"} =>
               niter = 0 /\ ~ladder.bisect /\ ~ladder.rebuilt
        /\ phase = "bracket" =>
               /\ ladder.lo # None \/ ladder.hi # None
               /\ ladder.lo # None => Heating(ladder.lo)
               /\ ladder.hi # None => ~Heating(ladder.hi)
        /\ phase \in {"loop", "step"} =>
               /\ ladder.lo # None /\ ladder.hi # None
               /\ ladder.rebuilt \/ (ladder.lo <= ladder.u /\ ladder.u <= ladder.hi)
        /\ phase = "loop" /\ niter = 0 => Heating(ladder.lo) /\ ~Heating(ladder.hi)
        /\ phase = "step" =>
               /\ target \in Int
               /\ ladder.rebuilt \/ (ladder.lo <= target /\ target <= ladder.hi)
        /\ phase = "converged" =>
               \/ err <= Stagnation
               \/ ladder.lo # None /\ ladder.hi # None /\ ladder.hi <= ladder.lo

ResultInv ==
    /\ phase = "done" => Coherent /\ BestAccepted
    /\ phase # "done" => ~Accepted

SolverInv ==
    /\ Counted /\ KindsInv /\ IterateInv /\ BestInv /\ GasInv /\ LadderInv /\ ResultInv

-----------------------------------------------------------------------------
(* The next state's number is not in use.                                    *)
LEMMA Fresh ==
    ASSUME Counted
    PROVE  /\ New \in Nat /\ New # Entry /\ New # Elsewhere /\ New \notin DOMAIN errs
           /\ DOMAIN errs \subseteq Nat \ {Elsewhere}
           /\ DOMAIN errs = {} => New = Entry + 1
           /\ \A n \in Nat \ {0} : DOMAIN errs \in {1 .. n, 2 .. n} => New = n + 1
<1>1. PICK n \in Nat \ {0} : DOMAIN errs = 1 .. n \/ DOMAIN errs = 2 .. n
  BY DEF Counted
<1> DEFINE all == DOMAIN errs \cup {Entry}
<1>2. n \in all /\ \A m \in all : m \in Int /\ n >= m
  BY <1>1 DEF Entry
<1>3. \A x \in all : (\A y \in all : x >= y) => x = n
  BY <1>2
<1>4. Max(all) = n
  <2> HIDE DEF all
  <2> QED  BY <1>2, <1>3 DEF Max
<1>5. New = n + 1
  BY <1>1, <1>4 DEF New
<1>6. \A m \in Nat \ {0} : DOMAIN errs \in {1 .. m, 2 .. m} => m = n \/ (m = 1 /\ n = 1)
  <2> SUFFICES ASSUME NEW m \in Nat \ {0}, DOMAIN errs = 1 .. m \/ DOMAIN errs = 2 .. m
               PROVE  m = n
    BY <1>1
  <2>1. n # 1 => n \in DOMAIN errs /\ n + 1 \notin DOMAIN errs /\ m # 1
    BY <1>1
  <2>2. m # 1 => m \in DOMAIN errs /\ m + 1 \notin DOMAIN errs /\ n # 1
    BY <1>1
  <2> QED  BY <2>1, <2>2, <1>1
<1> QED  BY <1>1, <1>5, <1>6 DEF Entry, Elsewhere

(* A new state keeps the others' errors.                                     *)
LEMMA Numbered ==
    ASSUME Counted, NEW e \in Errors, Evaluated(New, e)
    PROVE  /\ Counted' /\ err' = e
           /\ DOMAIN errs' = DOMAIN errs \cup {New} /\ errs'[New] = e
           /\ \A s \in DOMAIN errs : errs'[s] = errs[s]
<1>1. DOMAIN errs' = DOMAIN errs \cup {New} /\ err' = e
  BY DEF Evaluated
<1>2. errs'[New] = e /\ \A s \in DOMAIN errs : errs'[s] = errs[s]
  BY Fresh DEF Evaluated
<1>3. errs' \in [DOMAIN errs' -> Errors]
  BY <1>1, <1>2 DEF Evaluated, Counted
<1>4. PICK n \in Nat \ {0} : DOMAIN errs = 1 .. n \/ DOMAIN errs = 2 .. n
  BY DEF Counted
<1>5. New = n + 1
  BY <1>4, Fresh
<1>6. DOMAIN errs' = 1 .. n + 1 \/ DOMAIN errs' = 2 .. n + 1
  BY <1>1, <1>4, <1>5
<1> QED  BY <1>1, <1>2, <1>3, <1>4, <1>6 DEF Counted

(* So does the first.                                                        *)
LEMMA First ==
    ASSUME Counted, DOMAIN errs = {}, NEW state \in {Entry, Entry + 1}, NEW e \in Errors,
           Evaluated(state, e)
    PROVE  Counted' /\ err' = e /\ DOMAIN errs' = {state} /\ errs'[state] = e
<1>1. DOMAIN errs' = {state} /\ errs'[state] = e /\ err' = e
  BY DEF Evaluated
<1>2. errs' \in [DOMAIN errs' -> Errors]
  BY <1>1 DEF Evaluated
<1>3. {state} = 1 .. 1 \/ {state} = 2 .. 2
  BY DEF Entry
<1> QED  BY <1>1, <1>2, <1>3 DEF Counted

(* The best state stays the best, as it is kept or gives way.                *)
LEMMA BestKept ==
    ASSUME Counted, Least, NEW e \in Errors, Evaluated(New, e),
           best' = KeepBest(New, e) \/ (e < best.err /\ best' = Best(New, e))
    PROVE  Least' /\ best'.err <= e
<1> USE Numbered, Fresh
<1>0. \A s \in DOMAIN errs : errs[s] \in Errors
  BY DEF Counted
<1>1. CASE e < best.err
  <2>1. best' = Best(New, e)
    BY <1>1 DEF KeepBest
  <2> QED  BY <1>0, <1>1, <2>1 DEF Least, Best, Errors
<1>2. CASE ~(e < best.err)
  <2>1. best' = best
    BY <1>2 DEF KeepBest
  <2> QED  BY <1>0, <1>2, <2>1 DEF Least, Best, Errors
<1> QED  BY <1>1, <1>2

(* A state that was just evaluated is the current one.                       *)
LEMMA NowCurrent ==
    ASSUME Counted, NEW e \in Errors, Evaluated(New, e), guess' = Of(New)
    PROVE  Current'
BY Numbered DEF Current, Of

(* Where a solve ends: it fails, or what it returns is of one state that is  *)
(* good enough.                                                              *)
LEMMA Fails == ASSUME Failure PROVE Coherent' /\ BestAccepted'
BY DEF Failure, Coherent, BestAccepted, Accepted

LEMMA Accepts ==
    ASSUME NEW state \in DOMAIN errs, NEW status, Returned(status, {state}),
           errs' = errs, ladder' = ladder, solver' = solver, star' = star,
           \/ errs[state] <= Tolerance
           \/ errs[state] <= AcceptTol /\ \A s \in DOMAIN errs : errs[state] <= errs[s]
           \/ status = "success" /\ solver = "ff"
              /\ (errs[state] <= Stagnation \/ ladder.hi <= ladder.lo)
    PROVE  Coherent' /\ BestAccepted'
<1>1. state \in DOMAIN errs' /\ result'.parts = {state} /\ result'.status = status
  BY DEF Returned
<1>2. Coherent'
  BY <1>1 DEF Coherent
<1>3. BestAccepted'
  BY <1>1 DEF BestAccepted
<1> QED  BY <1>2, <1>3

(* A bracket that is rebuilt has two ends.                                   *)
LEMMA RebuildKeeps ==
    ASSUME ladder \in Ladders, NEW rebuilt \in Rebuilds
    PROVE  rebuilt \in Ladders /\ rebuilt.lo # None /\ rebuilt.hi # None /\ rebuilt.rebuilt
<1> DEFINE Probed(n) == ladder.u + (IF Heating(ladder.u) THEN n ELSE -n) * Decade
<1>1. PICK n \in 1 .. MaxBrackets :
         rebuilt = IF Heating(ladder.u)
                   THEN [ladder EXCEPT !.lo = Probed(n - 1), !.hi = Probed(n), !.rebuilt = TRUE]
                   ELSE [ladder EXCEPT !.lo = Probed(n), !.hi = Probed(n - 1), !.rebuilt = TRUE]
  BY DEF Rebuilds
<1>2. Probed(n) \in Int /\ Probed(n - 1) \in Int
  BY SolversAssumption DEF Ladders
<1> HIDE DEF Probed
<1> QED  BY <1>1, <1>2, SolversAssumption DEF Ladders

(* A solver starts from the zone's own state, which no one has evaluated.    *)
LEMMA SolverInvInit == ASSUME Init PROVE SolverInv
<1>0. errs = <<>> /\ DOMAIN errs = {} /\ 2 .. 1 = {}
  BY DEF Init
<1>1. Counted
  BY <1>0 DEF Counted, Errors
<1>2. Max(Errors) = 3
  <2>1. 3 \in Errors /\ \A x \in Errors : (\A y \in Errors : x >= y) <=> x = 3
    BY DEF Errors
  <2> QED  BY <2>1 DEF Max
<1> QED
  BY <1>0, <1>1, <1>2, SolversAssumption
     DEF Init, SolverInv, KindsInv, IterateInv, BestInv, GasInv, LadderInv, Ladders, ResultInv,
         PhaseInv, Unevaluated, Newton, Accepted, Errors

(* Newton on the gas evaluates the zone's own state.                         *)
LEMMA StartPMHDKeeps == ASSUME SolverInv, StartPMHD PROVE SolverInv'
<1> USE DEF StartPMHD, At, choices, radiation, frame, SolverInv
<1>0. PICK e \in Errors : Evaluated(Entry, e)
  OBVIOUS
<1>a. Counted' /\ err' = e /\ DOMAIN errs' = {Entry} /\ errs'[Entry] = e /\ guess' = Of(Entry)
  BY <1>0, First DEF KindsInv, Unevaluated, FirstU, EntryU, Of
<1>1. Counted'
  BY <1>a DEF Counted
<1>2. KindsInv'
  BY <1>a DEF KindsInv, PhaseInv, Newton, Unevaluated
<1>3. IterateInv'
  BY <1>a DEF IterateInv, Current, Of, KindsInv, PhaseInv, Newton
<1>4. BestInv'
  BY DEF BestInv, KindsInv, PhaseInv
<1>5. GasInv'
  BY DEF GasInv, KindsInv, PhaseInv
<1>6. LadderInv'
  BY DEF LadderInv, KindsInv, PhaseInv
<1>7. ResultInv'
  BY DEF ResultInv, Accepted
<1> QED  BY <1>1, <1>2, <1>3, <1>4, <1>5, <1>6, <1>7

(* Newton on the radiation keeps the gas it starts from.                     *)
LEMMA StartPRADKeeps == ASSUME SolverInv, StartPRAD PROVE SolverInv'
<1> USE DEF StartPRAD, At, choices, radiation, frame, SolverInv
<1>1. Counted'
  BY DEF Counted
<1>2. KindsInv'
  BY DEF KindsInv, PhaseInv, Newton, Unevaluated
<1>3. IterateInv'
  BY DEF IterateInv, KindsInv, PhaseInv
<1>4. BestInv'
  BY DEF BestInv, Least, Unevaluated, KindsInv, PhaseInv
<1>5. GasInv'
  BY DEF GasInv, IterateInv, KindsInv, PhaseInv, FirstGas, OwnGas, EntryU, Converged, Newton,
         Of, Gas, Current, Errors, AcceptTol, Tolerance, Unevaluated, Entry, Elsewhere
<1>6. LadderInv'
  BY DEF LadderInv, KindsInv, PhaseInv
<1>7. ResultInv'
  BY DEF ResultInv, Accepted
<1> QED  BY <1>1, <1>2, <1>3, <1>4, <1>5, <1>6, <1>7

(* A comoving state that does not do leaves the gas as it was.               *)
LEMMA NextCandidateKeeps == ASSUME SolverInv, NextCandidate PROVE SolverInv'
<1> USE DEF NextCandidate, At, choices, radiation, frame, SolverInv
<1>1. Counted'
  BY DEF Counted
<1>2. KindsInv'
  BY DEF KindsInv, PhaseInv, Newton, Unevaluated
<1>3. IterateInv'
  BY DEF IterateInv, KindsInv, PhaseInv
<1>4. BestInv'
  BY DEF BestInv, Least, Unevaluated, KindsInv, PhaseInv
<1>5. GasInv'
  BY DEF GasInv, FirstGas, OwnGas, EntryU, Of, Gas, KindsInv, PhaseInv, Entry, PutBack
<1>6. LadderInv'
  BY DEF LadderInv, KindsInv, PhaseInv
<1>7. ResultInv'
  BY DEF ResultInv, Accepted
<1> QED  BY <1>1, <1>2, <1>3, <1>4, <1>5, <1>6, <1>7

(* One that does becomes the iterate, and the gas is its own.                *)
LEMMA TakeCandidateKeeps == ASSUME SolverInv, TakeCandidate PROVE SolverInv'
<1> USE DEF TakeCandidate, At, choices, radiation, frame, SolverInv
<1>1. Counted'
  BY Fresh DEF Counted
<1>2. KindsInv'
  BY DEF KindsInv, PhaseInv, Newton, Unevaluated
<1>3. IterateInv'
  BY DEF IterateInv, KindsInv, PhaseInv
<1>4. BestInv'
  BY DEF BestInv, Least, Unevaluated, KindsInv, PhaseInv
<1>5. GasInv'
  BY Fresh
     DEF GasInv, IterateInv, KindsInv, PhaseInv, FirstGas, OwnGas, EntryU, Converged, Newton,
         Of, Gas, Current, Errors, AcceptTol, Tolerance, Unevaluated, Entry, Elsewhere
<1>6. LadderInv'
  BY DEF LadderInv, KindsInv, PhaseInv
<1>7. ResultInv'
  BY DEF ResultInv, Accepted
<1> QED  BY <1>1, <1>2, <1>3, <1>4, <1>5, <1>6, <1>7

(* The iterate is evaluated, and the best state so far.                      *)
LEMMA FirstErrorKeeps == ASSUME SolverInv, FirstError PROVE SolverInv'
<1> USE DEF FirstError, At, choices, radiation, frame, SolverInv
<1>0. PICK e \in Errors :
         /\ Evaluated(guess.P, e) /\ best' = Best(guess.P, e)
         /\ phase' \in {"loop"} \cup IF Comoving /\ e > AcceptTol THEN {"improve"} ELSE {}
  OBVIOUS
<1>a. guess = Of(guess.P) /\ guess.P \in {Entry, Entry + 1} /\ solver = "prad" /\ guess' = guess
  BY DEF GasInv, FirstGas, KindsInv, PhaseInv, Of, Entry
<1>b. /\ Counted' /\ err' = e /\ DOMAIN errs' = {guess.P} /\ errs'[guess.P] = e
      /\ best' = Best(guess.P, e)
      /\ phase' = "loop" \/ (phase' = "improve" /\ guess.P # Entry /\ e > AcceptTol)
  BY <1>0, <1>a, First DEF KindsInv, Unevaluated, Comoving
<1>1. Counted'
  BY <1>a, <1>b DEF Counted
<1>2. KindsInv'
  BY <1>a, <1>b DEF KindsInv, PhaseInv, Newton, Unevaluated
<1>3. IterateInv'
  BY <1>a, <1>b DEF IterateInv, Current, KindsInv, PhaseInv
<1>4. BestInv'
  BY <1>a, <1>b DEF BestInv, KindsInv, Unevaluated, Least, Best, Errors
<1>5. GasInv'
  BY <1>a, <1>b DEF GasInv, FirstGas, OwnGas, EntryU, Of, Gas, KindsInv, PhaseInv, Entry
<1>6. LadderInv'
  BY DEF LadderInv, KindsInv, PhaseInv
<1>7. ResultInv'
  BY DEF ResultInv, Accepted
<1> QED  BY <1>1, <1>2, <1>3, <1>4, <1>5, <1>6, <1>7

(* Where the gas is left by a search, it is not trusted.                     *)
LEMMA SearchKeeps == ASSUME SolverInv, Search PROVE SolverInv'
<1> USE DEF Search, At, choices, radiation, frame, SolverInv
<1>1. Counted'
  BY DEF Counted
<1>2. KindsInv'
  BY DEF KindsInv, PhaseInv, Newton
<1>3. IterateInv'
  BY DEF IterateInv, Current, KindsInv, PhaseInv
<1>4. BestInv'
  BY DEF BestInv, Least, Unevaluated, KindsInv, PhaseInv
<1>5. GasInv'
  BY DEF GasInv, KindsInv, PhaseInv
<1>6. LadderInv'
  BY DEF LadderInv, KindsInv, PhaseInv
<1>7. ResultInv'
  BY DEF ResultInv, Accepted
<1> QED  BY <1>1, <1>2, <1>3, <1>4, <1>5, <1>6, <1>7

(* A better start is the iterate's, the best and the gas's.                  *)
LEMMA TakeImprovedKeeps == ASSUME SolverInv, TakeImproved PROVE SolverInv'
<1> USE DEF TakeImproved, At, choices, radiation, frame, SolverInv
<1>1. Counted'
  BY Numbered DEF Counted
<1>2. KindsInv'
  BY Numbered DEF KindsInv, PhaseInv, Newton, Unevaluated
<1>3. IterateInv'
  BY NowCurrent DEF IterateInv, Current, KindsInv, PhaseInv
<1>4. BestInv'
  <2>1. Least /\ best.err = err
    BY DEF BestInv, KindsInv, PhaseInv, Unevaluated
  <2>2. CASE UNCHANGED <<errs, guess, err, best, mhd>>
    BY <2>1, <2>2 DEF BestInv, Least
  <2>3. ASSUME NEW e \in Errors, e < err, Evaluated(New, e), best' = Best(New, e)
        PROVE  BestInv'
    BY <2>1, <2>3, BestKept, Numbered DEF BestInv, Best
  <2> QED  BY <2>2, <2>3
<1>5. GasInv'
  BY DEF GasInv, FirstGas, OwnGas, EntryU, Of, Gas, KindsInv, PhaseInv, Entry
<1>6. LadderInv'
  BY DEF LadderInv, KindsInv, PhaseInv
<1>7. ResultInv'
  BY DEF ResultInv, Accepted
<1> QED  BY <1>1, <1>2, <1>3, <1>4, <1>5, <1>6, <1>7

(* The gas goes back if the better start was none.                           *)
LEMMA EndImproveKeeps == ASSUME SolverInv, EndImprove PROVE SolverInv'
<1> USE DEF EndImprove, At, choices, radiation, frame, SolverInv
<1>1. Counted'
  BY DEF Counted
<1>2. KindsInv'
  BY DEF KindsInv, PhaseInv, Newton, Unevaluated
<1>3. IterateInv'
  BY DEF IterateInv, Current, KindsInv, PhaseInv
<1>4. BestInv'
  BY DEF BestInv, Least, Unevaluated, KindsInv, PhaseInv
<1>5. GasInv'
  BY DEF GasInv, FirstGas, OwnGas, Converged, Of, Gas, KindsInv, PhaseInv, Tolerance, AcceptTol,
         Errors
<1>6. LadderInv'
  BY DEF LadderInv, KindsInv, PhaseInv
<1>7. ResultInv'
  BY DEF ResultInv, Accepted
<1> QED  BY <1>1, <1>2, <1>3, <1>4, <1>5, <1>6, <1>7

(* Support points move the gas of a solve that goes on.                      *)
LEMMA JacobianKeeps == ASSUME SolverInv, Jacobian PROVE SolverInv'
<1> USE DEF Jacobian, At, choices, radiation, frame, SolverInv
<1>1. Counted'
  BY DEF Counted
<1>2. KindsInv'
  BY DEF KindsInv, PhaseInv, Newton, Unevaluated
<1>3. IterateInv'
  BY DEF IterateInv, Current, KindsInv, PhaseInv
<1>4. BestInv'
  BY DEF BestInv, Least, IterateInv, KindsInv, PhaseInv, Unevaluated, Newton, Failed
<1>5. GasInv'
  BY DEF GasInv, KindsInv, PhaseInv
<1>6. LadderInv'
  BY DEF LadderInv, KindsInv, PhaseInv, Newton
<1>7. ResultInv'
  BY DEF ResultInv, Accepted
<1> QED  BY <1>1, <1>2, <1>3, <1>4, <1>5, <1>6, <1>7

(* A shrunk step leads to another state, which is not evaluated.             *)
LEMMA ShrinkKeeps == ASSUME SolverInv, Shrink PROVE SolverInv'
<1> USE DEF Shrink, At, choices, radiation, frame, SolverInv
<1>1. Counted'
  BY DEF Counted
<1>2. KindsInv'
  BY DEF KindsInv, PhaseInv, Newton, Unevaluated
<1>3. IterateInv'
  BY DEF IterateInv, Current, Of, KindsInv, PhaseInv, Newton
<1>4. BestInv'
  BY DEF BestInv, Least, IterateInv, KindsInv, PhaseInv, Unevaluated, Newton, Failed
<1>5. GasInv'
  BY DEF GasInv, KindsInv, PhaseInv
<1>6. LadderInv'
  BY DEF LadderInv, KindsInv, PhaseInv
<1>7. ResultInv'
  BY DEF ResultInv, Accepted
<1> QED  BY <1>1, <1>2, <1>3, <1>4, <1>5, <1>6, <1>7

(* Where the step leads is evaluated, and the gas inverted.                  *)
LEMMA StepKeeps == ASSUME SolverInv, Step PROVE SolverInv'
<1> USE DEF Step, At, choices, radiation, frame, SolverInv
<1>1. Counted'
  BY Numbered DEF Counted
<1>2. KindsInv'
  BY Numbered DEF KindsInv, PhaseInv, Newton, Unevaluated
<1>3. IterateInv'
  BY NowCurrent DEF IterateInv, KindsInv, PhaseInv
<1>4. BestInv'
  BY BestKept DEF BestInv, Least, IterateInv, KindsInv, PhaseInv, Unevaluated, Newton, Failed
<1>5. GasInv'
  BY DEF GasInv, FirstGas, OwnGas, EntryU, Of, Gas, KindsInv, PhaseInv, Entry
<1>6. LadderInv'
  BY DEF LadderInv, KindsInv, PhaseInv
<1>7. ResultInv'
  BY DEF ResultInv, Accepted
<1> QED  BY <1>1, <1>2, <1>3, <1>4, <1>5, <1>6, <1>7

(* A state that is not finite is not accepted.                               *)
LEMMA StepNotFiniteKeeps == ASSUME SolverInv, StepNotFinite PROVE SolverInv'
<1> USE DEF StepNotFinite, At, choices, radiation, frame, SolverInv
<1>1. Counted'
  BY DEF Counted
<1>2. KindsInv'
  BY DEF KindsInv, PhaseInv, Newton, Unevaluated
<1>3. IterateInv'
  BY DEF IterateInv, KindsInv, PhaseInv
<1>4. BestInv'
  BY DEF BestInv, Least, IterateInv, KindsInv, PhaseInv, Unevaluated, Newton, Failed
<1>5. GasInv'
  BY DEF GasInv, KindsInv, PhaseInv
<1>6. LadderInv'
  BY DEF LadderInv, KindsInv, PhaseInv
<1>7. ResultInv'
  BY DEF ResultInv, Accepted
<1> QED  BY <1>1, <1>2, <1>3, <1>4, <1>5, <1>6, <1>7

(* The loop ends at the iterate.                                             *)
LEMMA EndLoopKeeps == ASSUME SolverInv, EndLoop PROVE SolverInv'
<1> USE DEF EndLoop, At, choices, radiation, frame, SolverInv
<1>1. Counted'
  BY DEF Counted
<1>2. KindsInv'
  BY DEF KindsInv, PhaseInv, Newton, Unevaluated
<1>3. IterateInv'
  BY DEF IterateInv, Current, KindsInv, PhaseInv
<1>4. BestInv'
  BY DEF BestInv, Least, IterateInv, KindsInv, PhaseInv, Unevaluated, Newton, Failed
<1>5. GasInv'
  BY DEF GasInv, IterateInv, KindsInv, PhaseInv, FirstGas, OwnGas, EntryU, Converged, Newton,
         Of, Gas, Current, Errors, AcceptTol, Tolerance, Unevaluated, Entry, Elsewhere
<1>6. LadderInv'
  BY DEF LadderInv, KindsInv, PhaseInv
<1>7. ResultInv'
  BY DEF ResultInv, Accepted
<1> QED  BY <1>1, <1>2, <1>3, <1>4, <1>5, <1>6, <1>7

(* A converged iterate is returned, and is one state.                        *)
LEMMA ReturnPMHDKeeps == ASSUME SolverInv, ReturnPMHD PROVE SolverInv'
<1> USE DEF ReturnPMHD, At, choices, radiation, frame, SolverInv
<1>1. Counted'
  BY DEF Counted
<1>2. KindsInv'
  BY DEF KindsInv, PhaseInv, Newton, Unevaluated
<1>3. IterateInv'
  BY DEF IterateInv, KindsInv, PhaseInv
<1>4. BestInv'
  BY DEF BestInv, KindsInv, PhaseInv
<1>5. GasInv'
  BY DEF GasInv, KindsInv, PhaseInv
<1>6. LadderInv'
  BY DEF LadderInv, KindsInv, PhaseInv
<1>7. ResultInv'
  <2>1. CASE Failed
    BY <2>1, Fails DEF ResultInv
  <2>2. CASE ~Failed
    <3>1. /\ guess = Of(guess.P) /\ guess.P \in DOMAIN errs /\ errs[guess.P] <= Tolerance
          /\ {guess.P, guess.U, guess.dS, guess.rho} = {guess.P}
      BY <2>2 DEF IterateInv, Current, Failed, Converged, Of
    <3> QED  BY <2>2, <3>1, Accepts DEF ResultInv
  <2> QED  BY <2>1, <2>2
<1> QED  BY <1>1, <1>2, <1>3, <1>4, <1>5, <1>6, <1>7

(* So it is where the gas has to be its own.                                 *)
LEMMA ReturnPRADKeeps == ASSUME SolverInv, ReturnPRAD PROVE SolverInv'
<1> USE DEF ReturnPRAD, At, choices, radiation, frame, SolverInv
<1>1. Counted'
  BY DEF Counted
<1>2. KindsInv'
  BY DEF KindsInv, PhaseInv, Newton, Unevaluated
<1>3. IterateInv'
  BY DEF IterateInv, KindsInv, PhaseInv
<1>4. BestInv'
  BY DEF BestInv, Least, Unevaluated, KindsInv, PhaseInv
<1>5. GasInv'
  BY DEF GasInv, KindsInv, PhaseInv
<1>6. LadderInv'
  BY DEF LadderInv, KindsInv, PhaseInv
<1>7. ResultInv'
  <2>1. CASE Failed /\ phase' = "noise"
    BY <2>1 DEF ResultInv, Accepted
  <2>2. CASE Failed /\ phase' = "done"
    BY <2>2, Fails DEF ResultInv
  <2>3. CASE ~Failed
    <3>1. /\ guess = Of(guess.P) /\ guess.P \in DOMAIN errs /\ errs[guess.P] <= Tolerance
          /\ OwnGas \/ FirstGas
      BY <2>3 DEF IterateInv, GasInv, Current, Failed, Converged
    <3>2. phase' = "done" /\ Returned("success", {guess.U, guess.dS, gas.P, gas.U})
      BY <2>3
    <3>3. CASE {guess.U, guess.dS, gas.P, gas.U} = {guess.P}
      BY <3>1, <3>2, <3>3, Accepts DEF ResultInv
    <3>4. CASE star /\ guess.P = Entry /\ {guess.U, guess.dS, gas.P, gas.U} = {Entry, Elsewhere}
      BY <3>1, <3>2, <3>4 DEF ResultInv, Returned, Coherent, BestAccepted
    <3> QED  BY <3>1, <3>3, <3>4 DEF OwnGas, FirstGas, Of, Gas, EntryU
  <2> QED  BY <2>1, <2>2, <2>3
<1> QED  BY <1>1, <1>2, <1>3, <1>4, <1>5, <1>6, <1>7

(* The best state is returned with the gas at which it was measured.         *)
LEMMA AcceptBestKeeps == ASSUME SolverInv, AcceptBest PROVE SolverInv'
<1> USE DEF AcceptBest, At, choices, radiation, frame, SolverInv
<1>1. Counted'
  BY DEF Counted
<1>2. KindsInv'
  BY DEF KindsInv, PhaseInv, Newton, Unevaluated
<1>3. IterateInv'
  BY DEF IterateInv, KindsInv, PhaseInv
<1>4. BestInv'
  BY DEF BestInv, KindsInv, PhaseInv
<1>5. GasInv'
  BY DEF GasInv, KindsInv, PhaseInv
<1>6. LadderInv'
  BY DEF LadderInv, KindsInv, PhaseInv
<1>7. ResultInv'
  <2>1. CASE Failure
    BY <2>1, Fails DEF ResultInv
  <2>2. CASE gas' = ResidualAt(best.P) /\ Returned("success", {best.P, gas'.P, gas'.U})
    <3>1. {best.P, gas'.P, gas'.U} = {best.P}
      BY <2>2 DEF ResidualAt, Gas
    <3>2. Least /\ best.err <= AcceptTol
      BY DEF BestInv, KindsInv, PhaseInv, Unevaluated
    <3> QED  BY <2>2, <3>1, <3>2, Accepts DEF ResultInv, Least
  <2> QED  BY <2>1, <2>2
<1> QED  BY <1>1, <1>2, <1>3, <1>4, <1>5, <1>6, <1>7

(* The fluid frame starts from the zone's own state.                         *)
LEMMA StartFFKeeps == ASSUME SolverInv, StartFF PROVE SolverInv'
<1> USE DEF StartFF, At, choices, radiation, frame, SolverInv
<1>a. DOMAIN errs = {} /\ solver = "ff" /\ phase = "start"
  BY DEF KindsInv, Unevaluated
<1>1. CASE phase' = "done" /\ Failure /\ UNCHANGED <<errs, guess, err, best, ladder>>
  BY <1>a, <1>1, Fails
     DEF Counted, KindsInv, PhaseInv, Newton, Unevaluated, IterateInv, BestInv, GasInv, LadderInv,
         ResultInv
<1>2. ASSUME NEW root \in Rungs, NEW e \in Errors,
             ladder' = [ladder EXCEPT !.root = root], guess' = Of(Entry),
             Evaluated(Entry, e), best' = Best(Entry, e),
             phase' = IF e <= Tolerance THEN "converged" ELSE "equilibrium", UNCHANGED result
      PROVE  SolverInv'
  <2>0. Counted' /\ err' = e /\ DOMAIN errs' = {Entry} /\ errs'[Entry] = e
    BY <1>2, <1>a, First
  <2>1. KindsInv'
    BY <1>a, <1>2, <2>0 DEF KindsInv, PhaseInv, Newton, Unevaluated
  <2>2. IterateInv'
    BY <1>a, <1>2, <2>0 DEF IterateInv, Current, Of
  <2>3. BestInv'
    BY <1>a, <1>2, <2>0 DEF BestInv, Least, Best, Unevaluated, Errors
  <2>4. GasInv'
    BY <1>a DEF GasInv
  <2>5. LadderInv'
    BY <1>a, <1>2, <2>0 DEF LadderInv, Ladders, Rungs, Tolerance, Stagnation, Errors
  <2>6. ResultInv'
    BY <1>a, <1>2 DEF ResultInv, Accepted
  <2> QED  BY <2>0, <2>1, <2>2, <2>3, <2>4, <2>5, <2>6
<1> QED  BY <1>1, <1>2

(* One end of the bracket is where it starts.                                *)
LEMMA EquilibriumGuessKeeps == ASSUME SolverInv, EquilibriumGuess PROVE SolverInv'
<1> USE DEF EquilibriumGuess, At, choices, radiation, frame, SolverInv
<1>1. Counted'
  BY Numbered DEF Counted
<1>2. KindsInv'
  BY Numbered DEF KindsInv, PhaseInv, Newton, Unevaluated
<1>3. IterateInv'
  BY NowCurrent DEF IterateInv, Current, KindsInv, PhaseInv
<1>4. BestInv'
  BY BestKept DEF BestInv, Least, Unevaluated, KindsInv, PhaseInv
<1>5. GasInv'
  BY DEF GasInv, KindsInv, PhaseInv
<1>6. LadderInv'
  <2>0. /\ ladder \in Ladders /\ solver = "ff" /\ niter = 0 /\ ~ladder.bisect /\ ~ladder.rebuilt
        /\ UNCHANGED <<solver, niter>>
    BY DEF LadderInv, KindsInv, PhaseInv
  <2> HIDE DEF EquilibriumGuess, SolverInv
  <2>1. ASSUME NEW rung \in Rungs, NEW e \in Errors, Evaluated(New, e),
               ladder' = [ladder EXCEPT !.u = rung,
                                        !.lo = IF Heating(rung) THEN rung ELSE None,
                                        !.hi = IF Heating(rung) THEN None ELSE rung],
               phase' = IF e <= Tolerance THEN "converged" ELSE "bracket"
        PROVE  LadderInv'
    <3>1. rung \in Int /\ None \notin Int
      BY SolversAssumption DEF Rungs
    <3>2. phase' = "converged" => err' <= Stagnation
      BY <2>1 DEF Evaluated, Tolerance, Stagnation, Errors
    <3>3. CASE Heating(rung)
      BY <2>0, <2>1, <3>1, <3>2, <3>3 DEF LadderInv, Ladders, Heating
    <3>4. CASE ~Heating(rung)
      BY <2>0, <2>1, <3>1, <3>2, <3>4 DEF LadderInv, Ladders, Heating
    <3> QED  BY <3>3, <3>4
  <2>2. ASSUME ladder' = [ladder EXCEPT !.lo = IF Heating(ladder.u) THEN ladder.u ELSE None,
                                        !.hi = IF Heating(ladder.u) THEN None ELSE ladder.u],
               phase' = "bracket"
        PROVE  LadderInv'
    BY <2>0, <2>2, SolversAssumption DEF LadderInv, Ladders, Heating
  <2> QED  BY <2>1, <2>2 DEF EquilibriumGuess
<1>7. ResultInv'
  BY DEF ResultInv, Accepted
<1> QED  BY <1>1, <1>2, <1>3, <1>4, <1>5, <1>6, <1>7

(* The other end is probed for; each stays on its side of the root.          *)
LEMMA BracketKeeps == ASSUME SolverInv, Bracket PROVE SolverInv'
<1> USE DEF Bracket, At, choices, radiation, frame, SolverInv
<1>1. Counted'
  BY DEF Counted, GiveUp, Found, Probe
<1>2. KindsInv'
  BY DEF KindsInv, PhaseInv, Newton, Unevaluated, GiveUp, Found, Probe
<1>3. IterateInv'
  BY DEF IterateInv, Current, KindsInv, PhaseInv, GiveUp, Found, Probe
<1>4. BestInv'
  BY DEF BestInv, Least, Unevaluated, KindsInv, PhaseInv, GiveUp, Found, Probe
<1>5. GasInv'
  BY DEF GasInv, KindsInv, PhaseInv
<1>6. LadderInv'
  <2>0. /\ ladder \in Ladders /\ solver = "ff" /\ niter = 0 /\ ~ladder.bisect /\ ~ladder.rebuilt
        /\ ladder.lo # None \/ ladder.hi # None
        /\ ladder.lo # None => Heating(ladder.lo)
        /\ ladder.hi # None => ~Heating(ladder.hi)
    BY DEF LadderInv, KindsInv, PhaseInv
  <2>1. CASE GiveUp
    BY <2>0, <2>1 DEF LadderInv, GiveUp
  <2>2. ASSUME ladder' = IF Heating(Probe) THEN [ladder EXCEPT !.lo = Probe]
                         ELSE [ladder EXCEPT !.hi = Probe],
               phase' = phase
        PROVE  LadderInv'
    <3>1. Probe \in Int
      BY <2>0, SolversAssumption DEF Probe, Ladders
    <3>2. ladder' \in Ladders
      BY <2>0, <2>2, <3>1 DEF Ladders
    <3>3. CASE Heating(Probe)
      BY <2>0, <2>2, <3>1, <3>2, <3>3, SolversAssumption DEF LadderInv, Ladders, Heating
    <3>4. CASE ~Heating(Probe)
      BY <2>0, <2>2, <3>1, <3>2, <3>4, SolversAssumption DEF LadderInv, Ladders, Heating
    <3> QED  BY <3>3, <3>4
  <2> QED  BY <2>1, <2>2
<1>7. ResultInv'
  BY DEF ResultInv, Accepted, GiveUp, Found, Probe
<1> QED  BY <1>1, <1>2, <1>3, <1>4, <1>5, <1>6, <1>7

(* The iterate is put into the bracket.                                      *)
LEMMA RestartKeeps == ASSUME SolverInv, Restart PROVE SolverInv'
<1> USE DEF Restart, At, choices, radiation, frame, SolverInv
<1>1. Counted'
  BY Numbered DEF Counted
<1>2. KindsInv'
  BY Numbered DEF KindsInv, PhaseInv, Newton, Unevaluated
<1>3. IterateInv'
  BY NowCurrent DEF IterateInv, Current, KindsInv, PhaseInv
<1>4. BestInv'
  BY BestKept DEF BestInv, Least, Unevaluated, KindsInv, PhaseInv
<1>5. GasInv'
  BY DEF GasInv, KindsInv, PhaseInv
<1>6. LadderInv'
  <2>0. /\ ladder \in Ladders /\ solver = "ff" /\ niter = 0 /\ ~ladder.bisect /\ ~ladder.rebuilt
        /\ Heating(ladder.lo) /\ ~Heating(ladder.hi)
        /\ ladder.lo \in Int /\ ladder.hi \in Int /\ ladder.u \in Int
    BY DEF LadderInv, KindsInv, PhaseInv, Found, Ladders
  <2>1. ladder.lo < ladder.hi
    BY <2>0 DEF Heating, Ladders
  <2>2. CASE ~NeedsRestart /\ phase' = "loop" /\ UNCHANGED <<errs, guess, err, best, ladder>>
    BY <2>0, <2>2, SolversAssumption DEF LadderInv, NeedsRestart, Outside, Heating, Found
  <2>3. ASSUME ladder' = [ladder EXCEPT !.u = IF ladder.u > ladder.hi THEN ladder.hi
                                              ELSE ladder.lo],
               \/ phase' = "giveup"
               \/ \E e \in Errors :
                     /\ Evaluated(New, e)
                     /\ phase' = IF e <= Tolerance THEN "converged" ELSE "loop"
        PROVE  LadderInv'
    <3>1. ladder' \in Ladders
      BY <2>0, <2>3 DEF Ladders
    <3>2. phase' = "converged" => err' <= Stagnation
      BY <2>3 DEF Evaluated, Tolerance, Stagnation, Errors
    <3> QED  BY <2>0, <2>1, <2>3, <3>1, <3>2 DEF LadderInv, Ladders, Heating, Found
  <2> QED  BY <2>2, <2>3
<1>7. ResultInv'
  BY DEF ResultInv, Accepted
<1> QED  BY <1>1, <1>2, <1>3, <1>4, <1>5, <1>6, <1>7

(* A step leads into the bracket, which is as it was or rebuilt.             *)
LEMMA DirectionKeeps == ASSUME SolverInv, Direction PROVE SolverInv'
<1> USE DEF Direction, At, choices, radiation, frame, SolverInv
<1>1. Counted'
  BY DEF Counted, GiveUp
<1>2. KindsInv'
  BY DEF KindsInv, PhaseInv, Newton, Unevaluated, GiveUp
<1>3. IterateInv'
  BY DEF IterateInv, Current, KindsInv, PhaseInv, GiveUp
<1>4. BestInv'
  BY DEF BestInv, Least, Unevaluated, KindsInv, PhaseInv, GiveUp
<1>5. GasInv'
  BY DEF GasInv, KindsInv, PhaseInv
<1>6. LadderInv'
  <2>0. /\ ladder \in Ladders /\ solver = "ff" /\ ladder.lo # None /\ ladder.hi # None
        /\ ladder.rebuilt \/ (ladder.lo <= ladder.u /\ ladder.u <= ladder.hi)
    BY DEF LadderInv, KindsInv, PhaseInv
  <2>1. CASE GiveUp
    BY <2>0, <2>1 DEF LadderInv, GiveUp
  <2>2. ASSUME NEW rung \in Rungs, phase' = "step",
               ladder' \in {ladder} \cup IF ~InBracket(rung) /\ Stale THEN Rebuilds ELSE {},
               target' = IF ladder'.bisect \/ ~(ladder'.lo < rung /\ rung < ladder'.hi)
                         THEN (ladder'.lo + ladder'.hi) \div 2 ELSE rung
        PROVE  LadderInv'
    <3>1. /\ ladder' \in Ladders /\ ladder'.lo # None /\ ladder'.hi # None
          /\ ladder' = ladder \/ ladder'.rebuilt
      <4>1. CASE ladder' = ladder
        BY <2>0, <4>1
      <4>2. CASE ladder' \in Rebuilds
        BY <2>0, <4>2, RebuildKeeps
      <4> QED  BY <2>2, <4>1, <4>2
    <3>2. target' \in Int
      BY <2>2, <3>1, SolversAssumption DEF Ladders, Rungs
    <3>3. ladder'.rebuilt \/ (ladder'.lo <= target' /\ target' <= ladder'.hi)
      BY <2>0, <2>2, <3>1, SolversAssumption DEF Ladders, Rungs
    <3> QED  BY <2>0, <2>2, <3>1, <3>2, <3>3 DEF LadderInv
  <2> QED  BY <2>1, <2>2
<1>7. ResultInv'
  BY DEF ResultInv, Accepted, GiveUp
<1> QED  BY <1>1, <1>2, <1>3, <1>4, <1>5, <1>6, <1>7

(* A bracket that closes in on a step holds it.                              *)
LEMMA StepFFKeeps == ASSUME SolverInv, StepFF PROVE SolverInv'
<1>a. /\ Counted /\ Current /\ Least /\ solver = "ff" /\ niter \in Nat
      /\ ladder \in Ladders /\ ladder.lo # None /\ ladder.hi # None /\ target \in Int
      /\ ladder.rebuilt \/ /\ ladder.lo <= ladder.u /\ ladder.u <= ladder.hi
                           /\ ladder.lo <= target /\ target <= ladder.hi
      /\ star \in BOOLEAN /\ phase = "step" /\ err \in Errors
      /\ ~Accepted /\ UNCHANGED <<solver, star>>
  BY DEF StepFF, At, SolverInv, IterateInv, BestInv, KindsInv, PhaseInv, Unevaluated, LadderInv,
         ResultInv, choices
<1>1. ASSUME GiveUp, UNCHANGED <<niter, result>> PROVE SolverInv'
  BY <1>a, <1>1
     DEF GiveUp, Counted, KindsInv, PhaseInv, Newton, Unevaluated, IterateInv, BestInv, Least,
         GasInv, LadderInv, ResultInv, Accepted, SolverInv
<1>2. ASSUME NEW rung \in Between(ladder.u, target), NEW root \in Rungs, NEW e \in Errors,
             NEW bisect \in BOOLEAN,
             ladder' = [ladder EXCEPT !.u = rung, !.root = root, !.bisect = bisect,
                                      !.lo = LowerEnd(rung, root), !.hi = UpperEnd(rung, root)],
             Evaluated(New, e), best' = KeepBest(New, e), guess' = Of(New),
             phase' = "loop"
             \/ /\ phase' = "converged"
                /\ e <= Stagnation \/ ladder'.hi - ladder'.lo <= 0,
             niter' = niter + 1, UNCHANGED result
      PROVE  SolverInv'
  <2>0. Counted' /\ Current' /\ Least' /\ err' = e
    BY <1>2, <1>a, Numbered, NowCurrent, BestKept
  <2>1. KindsInv'
    BY <1>a, <1>2, <2>0 DEF KindsInv, PhaseInv, Newton, Unevaluated
  <2>2. IterateInv'
    BY <1>a, <1>2, <2>0 DEF IterateInv
  <2>3. BestInv'
    BY <1>a, <1>2, <2>0 DEF BestInv
  <2>4. GasInv'
    BY <1>a DEF GasInv
  <2>5. LadderInv'
    <3> DEFINE lo == LowerEnd(rung, root)
               hi == UpperEnd(rung, root)
    <3>0. /\ ladder.u \in Int /\ ladder.lo \in Int /\ ladder.hi \in Int
          /\ rung \in Int /\ root \in Int
      BY <1>a, <1>2, SolversAssumption DEF Ladders, Between, Rungs
    <3>1. lo \in Int /\ hi \in Int /\ (ladder.rebuilt \/ (lo <= rung /\ rung <= hi))
      <4>1. ladder.rebuilt \/ (ladder.lo <= rung /\ rung <= ladder.hi)
        BY <1>a, <1>2, <3>0 DEF Between
      <4> QED  BY <3>0, <4>1 DEF LowerEnd, UpperEnd
    <3>2. /\ ladder' \in Ladders /\ ladder'.lo = lo /\ ladder'.hi = hi /\ ladder'.u = rung
          /\ ladder'.rebuilt = ladder.rebuilt
      <4> HIDE DEF lo, hi
      <4> QED  BY <1>a, <1>2, <3>0, <3>1 DEF Ladders, lo, hi
    <3> HIDE DEF lo, hi
    <3>3. phase' = "converged" => e <= Stagnation \/ hi <= lo
      BY <1>2, <3>1, <3>2
    <3> QED  BY <1>a, <1>2, <2>0, <3>1, <3>2, <3>3, SolversAssumption DEF LadderInv
  <2>6. ResultInv'
    BY <1>a, <1>2 DEF ResultInv, Accepted
  <2> QED  BY <2>0, <2>1, <2>2, <2>3, <2>4, <2>5, <2>6 DEF SolverInv
<1>3. CASE ~(GiveUp /\ UNCHANGED niter)
  <2>1. PICK rung \in Between(ladder.u, target), root \in Rungs, e \in Errors,
             bisect \in BOOLEAN, momentum_solved \in BOOLEAN :
          /\ rung - ladder.u \in 1 - Decade .. Decade - 1
          /\ ladder' = [ladder EXCEPT !.u = rung, !.root = root, !.bisect = bisect,
                                      !.lo = LowerEnd(rung, root), !.hi = UpperEnd(rung, root)]
          /\ Evaluated(New, e) /\ best' = KeepBest(New, e) /\ guess' = Of(New)
          /\ phase' \in Verdicts(ladder'.hi - ladder'.lo, rung, e, momentum_solved)
    BY <1>3 DEF StepFF
  <2>2. niter' = niter + 1 /\ UNCHANGED result
    BY <1>3 DEF StepFF
  <2>3. /\ rung \in Int /\ root \in Int
        /\ ladder'.lo = LowerEnd(rung, root) /\ ladder'.hi = UpperEnd(rung, root)
    BY <1>a, <2>1, SolversAssumption DEF Ladders, Between, Rungs
  <2>4. ladder'.hi - ladder'.lo \in Int
    BY <1>a, <2>3 DEF Ladders, LowerEnd, UpperEnd
  <2>5. \/ phase' = "loop"
        \/ phase' = "converged" /\ (e <= Stagnation \/ ladder'.hi - ladder'.lo <= 0)
    BY <2>1, <2>4 DEF Verdicts, Errors, Tolerance, Stagnation
  <2> QED  BY <1>2, <2>1, <2>2, <2>5
<1> QED  BY <1>1, <1>3 DEF StepFF

(* What is converged is the iterate.                                         *)
LEMMA ReturnFFKeeps == ASSUME SolverInv, ReturnFF PROVE SolverInv'
<1> USE DEF ReturnFF, At, choices, radiation, frame, SolverInv
<1>1. Counted'
  BY DEF Counted
<1>2. KindsInv'
  BY DEF KindsInv, PhaseInv, Newton, Unevaluated
<1>3. IterateInv'
  BY DEF IterateInv, KindsInv, PhaseInv
<1>4. BestInv'
  BY DEF BestInv, KindsInv, PhaseInv
<1>5. GasInv'
  BY DEF GasInv, KindsInv, PhaseInv
<1>6. LadderInv'
  BY DEF LadderInv, KindsInv, PhaseInv
<1>7. ResultInv'
  <2>1. /\ guess.P \in DOMAIN errs /\ {guess.P, guess.rho, guess.dS} = {guess.P}
        /\ err = errs[guess.P] /\ solver = "ff"
    BY DEF IterateInv, KindsInv, PhaseInv, Current, Of
  <2>2. err <= Stagnation \/ ladder.hi <= ladder.lo
    BY <2>1 DEF LadderInv
  <2> QED  BY <2>1, <2>2, Accepts DEF ResultInv
<1> QED  BY <1>1, <1>2, <1>3, <1>4, <1>5, <1>6, <1>7

(* Failing that, the best state may be good enough.                          *)
LEMMA FailOrAcceptKeeps == ASSUME SolverInv, FailOrAccept PROVE SolverInv'
<1> USE DEF FailOrAccept, At, choices, radiation, frame, SolverInv
<1>1. Counted'
  BY DEF Counted
<1>2. KindsInv'
  BY DEF KindsInv, PhaseInv, Newton, Unevaluated
<1>3. IterateInv'
  BY DEF IterateInv, KindsInv, PhaseInv
<1>4. BestInv'
  BY DEF BestInv, KindsInv, PhaseInv
<1>5. GasInv'
  BY DEF GasInv, KindsInv, PhaseInv
<1>6. LadderInv'
  BY DEF LadderInv, KindsInv, PhaseInv
<1>7. ResultInv'
  <2>1. CASE Failure
    BY <2>1, Fails DEF ResultInv
  <2>2. CASE best.err <= AcceptTol /\ Returned("relaxed_success", {best.P, best.rho, best.Gu})
    <3>1. Least /\ {best.P, best.rho, best.Gu} = {best.P}
      BY DEF BestInv, KindsInv, PhaseInv, Unevaluated, Least, Best
    <3> QED  BY <2>2, <3>1, Accepts DEF ResultInv, Least
  <2> QED  BY <2>1, <2>2
<1> QED  BY <1>1, <1>2, <1>3, <1>4, <1>5, <1>6, <1>7

(* Every step keeps the invariant.                                           *)
LEMMA SolverInvNext == ASSUME SolverInv, [Next]_vars PROVE SolverInv'
<1>1. CASE UNCHANGED vars
  <2>1. Counted'
    BY <1>1 DEF SolverInv, vars, choices, radiation, frame, Counted
  <2>2. KindsInv'
    BY <1>1 DEF SolverInv, vars, choices, radiation, frame, KindsInv, PhaseInv, Newton
  <2>3. IterateInv'
    BY <1>1 DEF SolverInv, vars, choices, radiation, frame, IterateInv, Current
  <2>4. BestInv'
    BY <1>1 DEF SolverInv, vars, choices, radiation, frame, BestInv, Least
  <2>5. GasInv'
    BY <1>1 DEF SolverInv, vars, choices, radiation, frame, GasInv, FirstGas, OwnGas, EntryU,
                Converged
  <2>6. LadderInv'
    BY <1>1 DEF SolverInv, vars, choices, radiation, frame, LadderInv, Ladders, Heating
  <2>7. ResultInv'
    BY <1>1 DEF SolverInv, vars, choices, radiation, frame, ResultInv, Coherent, BestAccepted,
                Accepted
  <2> QED  BY <2>1, <2>2, <2>3, <2>4, <2>5, <2>6, <2>7 DEF SolverInv
<1>2. CASE Next
  BY <1>2, StartPMHDKeeps, StartPRADKeeps, NextCandidateKeeps, TakeCandidateKeeps,
           FirstErrorKeeps, SearchKeeps, TakeImprovedKeeps, EndImproveKeeps, JacobianKeeps,
           ShrinkKeeps, StepKeeps, StepNotFiniteKeeps, EndLoopKeeps, ReturnPMHDKeeps,
           ReturnPRADKeeps, AcceptBestKeeps, StartFFKeeps, EquilibriumGuessKeeps, BracketKeeps,
           RestartKeeps, DirectionKeeps, StepFFKeeps, ReturnFFKeeps, FailOrAcceptKeeps
     DEF Next
<1> QED  BY <1>1, <1>2

(* The invariant holds in every behavior.                                    *)
LEMMA SolverInvAlways == Spec => []SolverInv
<1>1. Init => SolverInv
  BY SolverInvInit
<1>2. SolverInv /\ [Next]_vars => SolverInv'
  BY SolverInvNext
<1> QED  BY <1>1, <1>2, PTL DEF Spec

(***************************************************************************)
(* What an accepted solve returns is of one state, whose error was found,  *)
(* for any number of iterations: trials, support points and searches leave *)
(* nothing behind in it.                                                   *)
(***************************************************************************)
THEOREM AlwaysCoherent == Spec => []Coherent
<1>1. SolverInv => Coherent
  BY DEF SolverInv, ResultInv, Coherent
<1> QED  BY <1>1, SolverInvAlways, PTL

(***************************************************************************)
(* What is accepted is within tolerance, or the best state the solver met  *)
(* and within accept_tol, or in the fluid frame had all but stopped or     *)
(* lost its bracket.                                                       *)
(***************************************************************************)
THEOREM OnlyTheBestAccepted == Spec => []BestAccepted
<1>1. SolverInv => BestAccepted
  BY DEF SolverInv, ResultInv, BestAccepted
<1> QED  BY <1>1, SolverInvAlways, PTL

(***************************************************************************)
(* The fluid frame's iterations start with a sign change in the bracket,   *)
(* and stay in it until it is rebuilt, wherever the roots and Newton's     *)
(* targets are.                                                            *)
(***************************************************************************)
THEOREM AlwaysInBracket == Spec => []StartsInBracket
<1>1. SolverInv => StartsInBracket
  BY SolversAssumption DEF SolverInv, LadderInv, Ladders, StartsInBracket, Outside
<1> QED  BY <1>1, SolverInvAlways, PTL
=============================================================================
