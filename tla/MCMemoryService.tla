-------------------------- MODULE MCMemoryService --------------------------
(***************************************************************************)
(* The Memory service for TLC.  Its two halves share a process and a       *)
(* database file, and no row: every behaviour here is one of either half,  *)
(* the other standing still, so a run costs the sum of the two and not     *)
(* their product.                                                          *)
(***************************************************************************)
EXTENDS MemoryService

CONSTANTS v1, v2

VARIABLE half

(* Two of the four types of rule; the second has none.                     *)
TwoTypes == <<"ALIAS", "DEFAULT">>
TwoValues == {v1, v2}

Rule(type, scope, owner, value) ==
  [type |-> type, scope |-> scope, owner |-> owner, value |-> value, enabled |-> TRUE]

(* Rules of every scope, that agree and that do not, and one that is       *)
(* switched off.                                                           *)
SomeRules ==
  {Rule("ALIAS", "USER", o, v1) : o \in Owners}
    \cup {Rule("ALIAS", "FAMILY", None, v) : v \in {v1, v2}}
    \cup {Rule("ALIAS", "SYSTEM", None, v2)}
    \cup {[Rule("ALIAS", "FAMILY", None, v2) EXCEPT !.enabled = FALSE]}

MCInit == half \in {"memories", "rules"} /\ Init /\ Rules!OpInit

MCNext ==
  \/ half = "memories" /\ Next /\ UNCHANGED <<half, rules>>
  \/ half = "rules" /\ Rules!OpNext /\ UNCHANGED <<half, vars>>

MCSpec == MCInit /\ [][MCNext]_<<half, vars, rules>> /\ Fairness
=============================================================================
