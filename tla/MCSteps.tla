------------------------------- MODULE MCSteps -------------------------------
(***************************************************************************)
(* The steps of all three drivers, each under the options whose tasks its  *)
(* lists chain one after the other: every option alone, every pair of them *)
(* and all at once, for every magnetic field transport.                    *)
(***************************************************************************)
EXTENDS StepProperties, FiniteSets

Kharma == INSTANCE KharmaStep
ImEx == INSTANCE ImExStep
Simple == INSTANCE SimpleStep

NStages == 2    \* the default integrators (rk2, vl2) and RadM1's ARS(2,2,2)

Drivers == <<"kharma", "imex", "simple">>
Transport == <<"none", "fluxct", "ct">>
\* The implicit driver's without Implicit, and no divergence cleanup: it follows the last PtoU
Options ==
    [kharma |-> <<"multilevel", "adaptive", "jcon", "track", "prim_source", "electrons",
                  "entropy", "temperature", "checks", "onedw">>,
     imex |-> <<"multilevel", "jcon", "prim_source", "electrons", "entropy",
                "temperature", "reconnect", "ismr", "radm1">>,
     simple |-> <<"temperature", "checks", "electrons">>]

\* A configuration is known to the executor by a number: driver, transport, options
Many == 1024
Key(d, t, n) == (3 * (d - 1) + (t - 1)) * Many + n
Driver(k) == Drivers[(k \div (3 * Many)) + 1]
Requested(k) ==
    Enable([PlainHydro EXCEPT !.driver = Driver(k), !.b = Transport[((k \div Many) % 3) + 1]],
           Selected(Options[Driver(k)], k % Many))

\* The simple driver's lists without a field leave the boundaries unordered: README
Accepted(k) ==
    IF Driver(k) # "simple" THEN Loadable(Requested(k))
    ELSE Simple!Supported(Requested(k)) /\ Requested(k).b = "fluxct"

Chosen ==
    {k \in {Key(d, t, n) : d \in 1 .. 3, t \in 1 .. 3, n \in 0 .. Many - 1} :
        /\ k % Many < 2 ^ Len(Options[Driver(k)])
        /\ Cardinality(Selected(Options[Driver(k)], k % Many))
              \in {0, 1, 2, Len(Options[Driver(k)])}
        /\ Accepted(k)}

ProgramOf(k) ==
    CASE Driver(k) = "kharma" -> Kharma!KharmaProgram(NStages, Loaded(Requested(k)))
      [] Driver(k) = "imex" -> ImEx!ImExProgram(NStages, Loaded(Requested(k)))
      [] Driver(k) = "simple" -> Simple!SimpleProgram(NStages, Requested(k))

Programs == Tabulated([k \in Chosen |-> ProgramOf(k)])
WaitSets == LET programs == Programs
            IN  Tabulated([k \in Chosen |-> AllWaits(programs[k])])

\* Tables to TLC: it looks into the operators of a definition bound to a constant,
\* but not into those of a LET
MCConfigs == LET table == Chosen IN table
MCProgram == LET table == Programs IN table
MCWaits == LET table == WaitSets IN table
=============================================================================
