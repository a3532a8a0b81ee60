------------------------------ MODULE MCTables ------------------------------
(***************************************************************************)
(* Two tables whose operations are atomic, for TLC: the descriptor table of *)
(* a WASM process and the rate limiter of the gateway.  A behaviour works   *)
(* on one of them; the other one stays as it began.                         *)
(***************************************************************************)
EXTENDS FdTable, RateLimiter

VARIABLE table

TablesInit == table \in {"descriptors", "rates"} /\ Init /\ RateInit

TablesNext ==
    \/ table = "descriptors" /\ Next /\ UNCHANGED <<table, rateVars>>
    \/ table = "rates" /\ RateNext /\ UNCHANGED <<table, vars>>

TablesSpec == TablesInit /\ [][TablesNext]_<<table, vars, rateVars>>
=============================================================================
