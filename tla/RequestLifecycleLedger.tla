----------------------- MODULE RequestLifecycleLedger -----------------------
(***************************************************************************)
(* The request lifecycle implements RequestLedger when no ingress posts a  *)
(* request id that is in flight.  While a turn resumes a row, expire_due   *)
(* (run by any other turn) may mark that row EXPIRED under it and its      *)
(* UPDATE then overwrites the mark; nobody can see the mark, so the        *)
(* refinement mapping reads such a row as still pending.                   *)
(***************************************************************************)
EXTENDS RequestLifecycle

Taken(r) == \E t \in InFlight : turn[t].request = r

LedgerOf ==
  [r \in Requests |->
     [written |-> IF ~store[r].exists THEN "ABSENT"
                  ELSE IF Taken(r) THEN "NEEDS_CLARIFICATION"
                  ELSE store[r].status,
      taken |-> Taken(r)]]

Ledger == INSTANCE RequestLedger WITH ledger <- LedgerOf

(* The Router implements the ledger: a request id is worked on by one turn *)
(* at a time and settled and expired requests are final.                   *)
ImplementsLedger == Ledger!Spec
=============================================================================
