-------------------------- MODULE MCExchangeSolvers --------------------------
(* One zone and all three solvers.                                           *)
EXTENDS ExchangeSolvers
=============================================================================
