---------------------------- MODULE MemoryService ----------------------------
(***************************************************************************)
(* The Memory service: what users asked it to remember (SemanticMemory)    *)
(* and the rules of the house (OperationalContext), in one process and one *)
(* database file, with no row in common.                                   *)
(***************************************************************************)
EXTENDS SemanticMemory

CONSTANTS
  MaxCommands, \* bound: writes of the Admin
  Lookups,     \* turns that resolve their context
  TypeOrder,   \* the types of rule, in the order they are looked up
  Values,      \* what a rule says
  Bodies       \* bound: the rules that are written

VARIABLES entries, opResults, command, opCall, lookup, applied, silences

rules == <<entries, opResults, command, opCall, lookup, applied, silences>>

Rules == INSTANCE OperationalContext WITH
  People <- Owners, results <- opResults, call <- opCall

ASSUME MemoryServiceAssumption == Rules!RulesAssumption

(* A write of the Admin that is told "ok" changed the rules once, and one  *)
(* that is refused did not (operational.py, memory_client.py).             *)
ToldIsApplied == Rules!ToldIsApplied

(* A turn finds the nearest rule that is enabled for it (operational.py,   *)
(* resolve).                                                               *)
FindsTheNearest == Rules!FindsTheNearest
=============================================================================
