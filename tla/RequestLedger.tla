---------------------------- MODULE RequestLedger ----------------------------
(***************************************************************************)
(* What the Router promises about a request id, whatever turns, expiries   *)
(* and restarts happen underneath: an entry is taken by one turn at a      *)
(* time, only an absent or a pending entry can be taken, a taken entry is  *)
(* given back with the decision of its turn, or unanswered if the turn     *)
(* fails or dies, and settled and expired entries never change again.      *)
(***************************************************************************)
CONSTANT Requests

VARIABLE ledger   \* per request: what is written, and whether it is taken

Written == {"ABSENT", "NEEDS_CLARIFICATION", "COMPLETED", "CLOSED", "FAILED", "EXPIRED"}

Entries == [written: Written, taken: BOOLEAN]

Init == ledger = [r \in Requests |-> [written |-> "ABSENT", taken |-> FALSE]]

Take(old, new) ==
  /\ old.written \in {"ABSENT", "NEEDS_CLARIFICATION"}
  /\ ~old.taken
  /\ new = [written |-> old.written, taken |-> TRUE]

Decide(old, new) ==
  /\ old.taken
  /\ new.written \in {"NEEDS_CLARIFICATION", "COMPLETED", "CLOSED", "FAILED"}
  /\ ~new.taken

(* The turn failed or died; a deadline that passed meanwhile shows now.    *)
Release(old, new) ==
  /\ old.taken
  /\ ~new.taken
  /\ \/ new.written = old.written
     \/ old.written = "NEEDS_CLARIFICATION" /\ new.written = "EXPIRED"

Expire(old, new) ==
  /\ old = [written |-> "NEEDS_CLARIFICATION", taken |-> FALSE]
  /\ new = [written |-> "EXPIRED", taken |-> FALSE]

Change(old, new) == Take(old, new) \/ Decide(old, new) \/ Release(old, new) \/ Expire(old, new)

(* One step of the Router may expire many entries and take another.        *)
Next ==
  /\ ledger' \in [Requests -> Entries]
  /\ \A r \in Requests : ledger'[r] = ledger[r] \/ Change(ledger[r], ledger'[r])

Spec == Init /\ [][Next]_ledger
=============================================================================
