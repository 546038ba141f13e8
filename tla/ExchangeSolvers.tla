---------------------------- MODULE ExchangeSolvers ----------------------------
(***************************************************************************)
(* The three solvers of radM1/radM1_solvers.hpp in one zone: Newton on the *)
(* gas (solve_4d_pmhd), Newton in the fluid frame with a bracket for the   *)
(* energy (solve_4d_pmhd_ff), and Newton on the radiation, which inverts   *)
(* the gas at every evaluation (solve_4d_prad).                            *)
(*                                                                         *)
(* What they compute is real arithmetic.  What they must keep straight is  *)
(* which state each of their numbers was evaluated at, and how good that   *)
(* state was: states are numbered, and their errors are inputs.            *)
(***************************************************************************)
EXTENDS Integers, FiniteSetsExt

CONSTANTS
    Solvers,       \* a subset of {"pmhd", "ff", "prad"}
    MaxIterations, \* src_rootfind_maxiter, pmhd_maxiter or ff_maxiter
    MaxShrinks,    \* 15 in the code
    MaxBrackets,   \* 30 in the code
    Decade,        \* energies are rungs of a logarithmic ladder, so many to a factor of 10
    Reach,         \* rungs from the first energy that roots and Newton's targets may be at
    None           \* an end of the bracket that is not found yet, 0 in the code

ASSUME SolversAssumption ==
    /\ Solvers \subseteq {"pmhd", "ff", "prad"}
    /\ MaxIterations \in Nat /\ MaxShrinks \in Nat /\ MaxBrackets \in Nat
    /\ Decade \in Nat \ {0} /\ Reach \in Nat /\ None \notin Int

\* Classes of errors: within tolerance, <= 1.e-5, <= 1.e-4 (accept_tol), and above
Errors == 0 .. 3
Tolerance == 0
Stagnation == 1
AcceptTol == 2

Elsewhere == 0     \* states evaluated for their own ends: support points, trials, noise
Entry == 1         \* the zone's own state

VARIABLES
    solver, phase,
    star,          \* star_fixed: the gas is a repaired one, and not what U_entry inverts to
    errs,          \* the errors of the states so far
    guess,         \* which state the iterate's P, U, dS and rho are of
    err, bad, niter, track,
    fresh,         \* fresh_jac
    best,          \* which state the best P, rho and Gu are of, and their error
    gas,           \* which state U_init and P_init are of, where solve_4d_prad inverts
    mhd,           \* P_mhd_guess, from the first guess of solve_4d_prad
    keep,          \* the gas to go back to
    ladder,        \* in the fluid frame: u, u_lo, u_hi, the root of f[0] in u at the present
                   \* velocities, whether to bisect, and (history) if the bracket was rebuilt
    target,        \* where the step leads
    result         \* status, and which states what is returned is of

vars == <<solver, phase, star, errs, guess, err, bad, niter, track, fresh, best, gas, mhd,
          keep, ladder, target, result>>

choices == <<solver, star>>
radiation == <<gas, mhd, keep>>
frame == <<ladder, target>>

New == 1 + Max(DOMAIN errs \cup {Entry})
Of(state) == [P |-> state, U |-> state, dS |-> state, rho |-> state]
Gas(state) == [U |-> state, P |-> state]
Best(state, e) == [P |-> state, rho |-> state, Gu |-> state, err |-> e]

At(here, next) == phase = here /\ phase' = next

Evaluated(state, e) ==
    /\ err' = e
    /\ errs' = [s \in DOMAIN errs \cup {state} |-> IF s = state THEN e ELSE errs[s]]

Failure == result' = [status |-> "failure", parts |-> {}]
Returned(status, parts) == result' = [status |-> status, parts |-> parts]

-----------------------------------------------------------------------------
(* Newton on the gas starts from the primitives, and from the conserved      *)
(* state they are of.                                                        *)
EntryU == IF star THEN Elsewhere ELSE Entry

FirstU == IF star THEN Entry ELSE EntryU

StartPMHD ==
    /\ solver = "pmhd" /\ At("start", "loop")
    /\ guess' = [Of(Entry) EXCEPT !.U = FirstU]
    /\ \E e \in Errors : Evaluated(Entry, e)
    /\ UNCHANGED <<choices, bad, niter, track, fresh, best, radiation, frame, result>>

-----------------------------------------------------------------------------
(* Newton on the radiation.  Where the coupling is strong, or the radiation  *)
(* does not invert, it looks for a better start: three comoving states, each *)
(* of which inverts the gas in place.                                        *)
StartPRAD ==
    /\ solver = "prad" /\ phase = "start"
    /\ gas' = [U |-> EntryU, P |-> Entry] /\ keep' = gas'
    /\ phase' \in {"candidates", "weigh"}
    /\ UNCHANGED <<choices, errs, guess, err, bad, niter, track, fresh, best, mhd, frame, result>>

\* Mutant: the gas stays where a failed inversion left it
LeftBehind(kept) == Gas(Elsewhere)

PutBack(kept) == kept

NextCandidate ==    \* not positive, or it does not invert and the gas is put back
    /\ phase = "candidates"
    /\ track' = track + 1
    /\ gas' \in {gas, PutBack(keep)}
    /\ phase' = IF track' = 3 THEN "weigh" ELSE phase
    /\ UNCHANGED <<choices, errs, guess, err, bad, niter, fresh, best, mhd, keep, frame, result>>

TakeCandidate ==
    /\ At("candidates", "weigh")
    /\ guess' = Of(New) /\ gas' = Gas(New) /\ mhd' = New
    /\ UNCHANGED <<choices, errs, err, bad, niter, track, fresh, best, keep, frame, result>>

Comoving == guess.P # Entry

FirstError ==
    /\ phase = "weigh"
    /\ \E e \in Errors :
          /\ Evaluated(guess.P, e)
          /\ best' = Best(guess.P, e)
          /\ phase' \in {"loop"} \cup IF Comoving /\ e > AcceptTol THEN {"improve"} ELSE {}
    /\ keep' = gas
    /\ track' = 0
    /\ UNCHANGED <<choices, guess, bad, niter, fresh, gas, mhd, frame, result>>

\* An evaluation of its energy's residual sets U_init, and the inversion P_init or not
Searched == {Gas(Elsewhere), [gas EXCEPT !.U = Elsewhere]}

\* Its energy alone is sought first: the search leaves the gas where it last was
Search ==
    /\ phase = "improve" /\ track = 0 /\ track' = 1
    /\ gas' \in Searched
    /\ UNCHANGED <<choices, phase, errs, guess, err, bad, niter, fresh, best, mhd, keep, frame,
                   result>>

TakeImproved ==
    /\ phase = "improve" /\ track = 1 /\ track' = 2
    /\ gas' = Gas(New)
    /\ \E e \in Errors :
          IF e < err
          THEN /\ Evaluated(New, e) /\ best' = Best(New, e)
               /\ guess' = Of(New) /\ mhd' = New
          ELSE UNCHANGED <<errs, guess, err, best, mhd>>
    /\ UNCHANGED <<choices, phase, bad, niter, fresh, keep, frame, result>>

EndImprove ==
    /\ At("improve", "loop") /\ track > 0
    /\ gas' = IF gas.P # mhd THEN PutBack(keep) ELSE gas
    /\ track' = 0
    /\ UNCHANGED <<choices, errs, guess, err, bad, niter, fresh, best, mhd, keep, frame, result>>

-----------------------------------------------------------------------------
(* The loop of both: a Jacobian from support points, a step that is shrunk   *)
(* until the state it leads to is a valid one, and its error.                *)
Newton == solver \in {"pmhd", "prad"}

Converged == err <= Tolerance
Exhausted == niter > 0 /\ niter >= MaxIterations

SupportPoints == IF solver = "prad" THEN Gas(Elsewhere) ELSE gas

Jacobian ==
    /\ Newton /\ phase = "loop" /\ ~Converged /\ ~Exhausted
    /\ bad' \in IF fresh THEN BOOLEAN ELSE {FALSE}
    /\ phase' = IF bad' THEN "end" ELSE "step"
    /\ gas' = SupportPoints
    /\ track' = 0
    /\ UNCHANGED <<choices, errs, guess, err, niter, fresh, best, mhd, keep, frame, result>>

\* The energy is negative, or the other fluid's state does not invert
Shrink ==
    /\ Newton /\ phase = "step"
    /\ track' = track + 1
    /\ bad' = (track' > MaxShrinks)
    /\ phase' = IF bad' THEN "end" ELSE phase
    /\ guess' \in {[guess EXCEPT !.P = Elsewhere], [guess EXCEPT !.P = Elsewhere, !.U = Elsewhere]}
    /\ UNCHANGED <<choices, errs, err, niter, fresh, best, radiation, frame, result>>

\* Mutant: the best state is the last
KeepLast(state, e) == Best(state, e)

KeepBest(state, e) == IF e < best.err THEN Best(state, e) ELSE best

Step ==
    /\ Newton /\ At("step", "loop")
    /\ guess' = Of(New)
    /\ \E e \in Errors :
          /\ Evaluated(New, e)
          /\ best' = IF solver = "prad" THEN KeepBest(New, e) ELSE best
          /\ fresh' \in IF solver = "pmhd" /\ e <= err THEN BOOLEAN ELSE {TRUE}
    /\ gas' = IF solver = "prad" THEN Gas(New) ELSE gas
    /\ niter' = niter + 1
    /\ UNCHANGED <<choices, bad, track, mhd, keep, frame, result>>

StepNotFinite ==
    /\ Newton /\ At("step", "end")
    /\ guess' = Of(Elsewhere)
    /\ gas' = IF solver = "prad" THEN Gas(Elsewhere) ELSE gas
    /\ bad' = TRUE
    /\ UNCHANGED <<choices, errs, err, niter, track, fresh, best, mhd, keep, frame, result>>

EndLoop ==
    /\ Newton /\ At("loop", "end") /\ (Converged \/ Exhausted)
    /\ UNCHANGED <<choices, errs, guess, err, bad, niter, track, fresh, best, radiation, frame,
                   result>>

Failed == ~Converged \/ bad

ReturnPMHD ==
    /\ solver = "pmhd" /\ At("end", "done")
    /\ IF Failed THEN Failure
       ELSE Returned("success", {guess.P, guess.U, guess.dS, guess.rho})
    /\ UNCHANGED <<choices, errs, guess, err, bad, niter, track, fresh, best, radiation, frame>>

ReturnPRAD ==
    /\ solver = "prad" /\ phase = "end"
    /\ IF Failed /\ best.err <= AcceptTol
       THEN phase' = "noise" /\ UNCHANGED result
       ELSE /\ phase' = "done"
            /\ IF Failed THEN Failure
               ELSE Returned("success", {guess.U, guess.dS, gas.P, gas.U})
    /\ UNCHANGED <<choices, errs, guess, err, bad, niter, track, fresh, best, radiation, frame>>

ResidualAt(state) == Gas(state)

\* The best state may be as good as round-off allows.  Measuring that moves the gas.
AcceptBest ==
    /\ At("noise", "done")
    /\ \/ /\ \E state \in {best.P, Elsewhere} : gas' = ResidualAt(state)
          /\ Failure
          /\ UNCHANGED guess
       \/ /\ gas' = ResidualAt(best.P)
          /\ guess' = [guess EXCEPT !.U = best.P, !.dS = best.P]
          /\ Returned("success", {best.P, gas'.P, gas'.U})
    /\ UNCHANGED <<choices, errs, err, bad, niter, track, fresh, best, mhd, keep, frame>>

-----------------------------------------------------------------------------
(* The fluid frame.  Its residual f[0] of the gas energy is negative below   *)
(* one root, which moves with the velocities.                                *)
Rungs == -Reach .. Reach
Heating(rung) == rung < ladder.root
Found == ladder.lo # None /\ ladder.hi # None
InBracket(rung) == ladder.lo < rung /\ rung < ladder.hi

StartFF ==
    /\ solver = "ff" /\ phase = "start"
    /\ \/ /\ phase' = "done" /\ Failure    \* no positive energy, or no valid state
          /\ UNCHANGED <<errs, guess, err, best, ladder>>
       \/ /\ \E root \in Rungs : ladder' = [ladder EXCEPT !.root = root]
          /\ guess' = Of(Entry)
          /\ \E e \in Errors :
                /\ Evaluated(Entry, e) /\ best' = Best(Entry, e)
                /\ phase' = IF e <= Tolerance THEN "converged" ELSE "equilibrium"
          /\ UNCHANGED result
    /\ UNCHANGED <<choices, bad, niter, track, fresh, radiation, target>>

(* The temperature at which gas and radiation would be in equilibrium, where *)
(* the deck asks for it and it is better.                                    *)
EquilibriumGuess ==
    /\ phase = "equilibrium"
    /\ \/ \E rung \in Rungs, e \in Errors :
             /\ e < err
             /\ Evaluated(New, e) /\ best' = Best(New, e) /\ guess' = Of(New)
             /\ ladder' = [ladder EXCEPT !.u = rung,
                                         !.lo = IF Heating(rung) THEN rung ELSE None,
                                         !.hi = IF Heating(rung) THEN None ELSE rung]
             /\ phase' = IF e <= Tolerance THEN "converged" ELSE "bracket"
       \/ /\ ladder' = [ladder EXCEPT !.lo = IF Heating(ladder.u) THEN ladder.u ELSE None,
                                      !.hi = IF Heating(ladder.u) THEN None ELSE ladder.u]
          /\ phase' = "bracket"
          /\ UNCHANGED <<errs, err, best, guess>>
    /\ UNCHANGED <<choices, bad, niter, track, fresh, radiation, target, result>>

GiveUp == phase' = "giveup" /\ UNCHANGED <<errs, guess, err, best, ladder, track>>

Probe == IF ladder.hi # None THEN ladder.hi - Decade ELSE ladder.lo + Decade

Bracket ==
    /\ phase = "bracket" /\ ~Found
    /\ \/ GiveUp    \* an invalid state
       \/ /\ track < MaxBrackets
          /\ track' = track + 1
          /\ ladder' = IF Heating(Probe) THEN [ladder EXCEPT !.lo = Probe]
                       ELSE [ladder EXCEPT !.hi = Probe]
          /\ UNCHANGED <<phase, errs, guess, err, best>>
    /\ UNCHANGED <<choices, bad, niter, fresh, radiation, target, result>>

Outside == ladder.u < ladder.lo \/ ladder.u > ladder.hi

\* Mutant: the bracket is found and the iterate left outside
NoRestart == FALSE

NeedsRestart == Outside

Restart ==    \* at the end of the bracket nearest to it
    /\ phase = "bracket" /\ Found
    /\ \/ ~NeedsRestart /\ phase' = "loop" /\ UNCHANGED <<errs, guess, err, best, ladder>>
       \/ /\ NeedsRestart
          /\ ladder' = [ladder EXCEPT !.u = IF ladder.u > ladder.hi THEN ladder.hi ELSE ladder.lo]
          /\ \/ /\ phase' = "giveup"    \* the evaluation stops on its way
                /\ guess' = Of(Elsewhere)
                /\ UNCHANGED <<errs, err, best>>
             \/ \E e \in Errors :
                   /\ Evaluated(New, e) /\ best' = KeepBest(New, e) /\ guess' = Of(New)
                   /\ phase' = IF e <= Tolerance THEN "converged" ELSE "loop"
    /\ UNCHANGED <<choices, bad, niter, track, fresh, radiation, target, result>>

(* The bracket around u by steps of x10, at the present velocities, if that  *)
(* many find one.                                                            *)
Rebuilds ==
    LET Probed(n) == ladder.u + (IF Heating(ladder.u) THEN n ELSE -n) * Decade
        Crosses(n) == Heating(Probed(n)) # Heating(ladder.u)
        Rebuilt(n) ==
            IF Heating(ladder.u)
            THEN [ladder EXCEPT !.lo = Probed(n - 1), !.hi = Probed(n), !.rebuilt = TRUE]
            ELSE [ladder EXCEPT !.lo = Probed(n), !.hi = Probed(n - 1), !.rebuilt = TRUE]
    IN  {Rebuilt(n) : n \in {m \in 1 .. MaxBrackets :
                                 Crosses(m) /\ \A k \in 1 .. m - 1 : ~Crosses(k)}}

Stale == ~(Heating(ladder.lo) /\ ~Heating(ladder.hi))

(* Newton's direction.  One that leaves the bracket makes the solver look    *)
(* whether that is out of date; then its energy goes by bisection.           *)
Direction ==
    /\ solver = "ff" /\ phase = "loop"
    /\ \/ GiveUp /\ UNCHANGED target    \* out of iterations, no Jacobian or singular
       \/ /\ niter < MaxIterations
          /\ phase' = "step"
          /\ \E rung \in Rungs :
                /\ ladder' \in
                       {ladder} \cup IF ~InBracket(rung) /\ Stale THEN Rebuilds ELSE {}
                /\ target' = IF ladder'.bisect \/ ~(ladder'.lo < rung /\ rung < ladder'.hi)
                             THEN (ladder'.lo + ladder'.hi) \div 2 ELSE rung
          /\ UNCHANGED <<errs, guess, err, best, track>>
    /\ UNCHANGED <<choices, bad, niter, fresh, radiation, result>>

Between(p, q) == IF p <= q THEN p .. q ELSE q .. p

\* The bracket's ends, after a step to this energy
LowerEnd(rung, root) == IF rung < root /\ ladder.lo < rung THEN rung ELSE ladder.lo
UpperEnd(rung, root) == IF rung >= root /\ rung < ladder.hi THEN rung ELSE ladder.hi

Verdicts(width, rung, e, momentum_solved) ==
    IF e <= Tolerance \/ (width < 0 /\ momentum_solved) THEN {"converged"}
    ELSE IF (width = 0 /\ momentum_solved) \/ (rung = ladder.u /\ e <= Stagnation)
    THEN {"converged", "loop"}
    ELSE {"loop"}

(* The step, shrunk until its state is valid and close: the bracket closes   *)
(* in on it, and the state is converged also if it has nearly stopped or the *)
(* bracket has collapsed around it.                                          *)
StepFF ==
    /\ solver = "ff" /\ phase = "step"
    /\ \/ GiveUp /\ UNCHANGED niter
       \/ /\ \E rung \in Between(ladder.u, target), root \in Rungs, e \in Errors,
                bisect \in BOOLEAN, momentum_solved \in BOOLEAN :
                /\ rung - ladder.u \in 1 - Decade .. Decade - 1
                /\ ladder' = [ladder EXCEPT !.u = rung, !.root = root, !.bisect = bisect,
                                            !.lo = LowerEnd(rung, root),
                                            !.hi = UpperEnd(rung, root)]
                /\ Evaluated(New, e) /\ best' = KeepBest(New, e) /\ guess' = Of(New)
                /\ phase' \in Verdicts(ladder'.hi - ladder'.lo, rung, e, momentum_solved)
          /\ niter' = niter + 1
          /\ UNCHANGED track
    /\ UNCHANGED <<choices, bad, fresh, radiation, target, result>>

ReturnFF ==
    /\ At("converged", "done")
    /\ Returned("success", {guess.P, guess.rho, guess.dS})
    /\ UNCHANGED <<choices, errs, guess, err, bad, niter, track, fresh, best, radiation, frame>>

\* accept_tol is 0 where the fallback follows
FailOrAccept ==
    /\ At("giveup", "done")
    /\ \/ Failure
       \/ best.err <= AcceptTol /\ Returned("relaxed_success", {best.P, best.rho, best.Gu})
    /\ UNCHANGED <<choices, errs, guess, err, bad, niter, track, fresh, best, radiation, frame>>

-----------------------------------------------------------------------------
Init ==
    /\ solver \in Solvers /\ phase = "start"
    /\ star \in BOOLEAN
    /\ errs = <<>> /\ guess = Of(Entry)
    /\ err = Max(Errors) /\ bad = FALSE /\ niter = 0 /\ track = 0 /\ fresh = TRUE
    /\ best = Best(Entry, Max(Errors))
    /\ gas = Gas(Entry) /\ mhd = Entry /\ keep = gas
    /\ ladder = [u |-> 0, lo |-> None, hi |-> None, root |-> 0, bisect |-> FALSE,
                 rebuilt |-> FALSE]
    /\ target = 0
    /\ result = [status |-> "running", parts |-> {}]

Next ==
    \/ StartPMHD \/ StartPRAD \/ NextCandidate \/ TakeCandidate \/ FirstError
    \/ Search \/ TakeImproved \/ EndImprove
    \/ Jacobian \/ Shrink \/ Step \/ StepNotFinite \/ EndLoop
    \/ ReturnPMHD \/ ReturnPRAD \/ AcceptBest
    \/ StartFF \/ EquilibriumGuess \/ Bracket \/ Restart \/ Direction \/ StepFF
    \/ ReturnFF \/ FailOrAccept

Spec == Init /\ [][Next]_vars

-----------------------------------------------------------------------------
Accepted == result.status \in {"success", "relaxed_success"}

(* Everything an accepted solve returns, the four components exchanged and   *)
(* the heat that electrons get, is of one state, that state's error was      *)
(* found, and for solve_4d_prad "P_init holds the accepted gas state" as     *)
(* well: whatever trials, support points and searches came after it.  The    *)
(* exception is a repaired gas at which solve_4d_prad stops at once, since   *)
(* unlike solve_4d_pmhd it does not take that gas's own conserved state.     *)
Coherent ==
    Accepted =>
        \/ \E state \in DOMAIN errs : result.parts = {state}
        \/ solver = "prad" /\ star /\ result.parts = {Entry, Elsewhere}

(* What is accepted is within tolerance, or the best state the solver met    *)
(* and good enough; or, in the fluid frame, it had all but stopped, or its   *)
(* bracket had collapsed.                                                    *)
BestAccepted ==
    Accepted =>
        \E state \in DOMAIN errs \cap result.parts :
            \/ errs[state] <= Tolerance
            \/ errs[state] <= AcceptTol /\ \A s \in DOMAIN errs : errs[state] <= errs[s]
            \/ result.status = "success" /\ solver = "ff"
               /\ (errs[state] <= Stagnation \/ ladder.hi <= ladder.lo)

(* When the fluid frame's iterations start, its residual changes sign in the *)
(* bracket and the iterate is within; and that stays so, as the velocities   *)
(* and with them the root move, for as long as the bracket is not rebuilt.   *)
StartsInBracket ==
    solver = "ff" /\ phase = "loop" =>
        /\ niter = 0 => Heating(ladder.lo) /\ ~Heating(ladder.hi)
        /\ ladder.rebuilt \/ ~Outside
=============================================================================
