--------------------------- MODULE AssistFallback ---------------------------
(***************************************************************************)
(* The turns of HouseCapability as Home Assistant sees them: its           *)
(* conversation entity posts what was said to the Router and waits 10 s    *)
(* for the answer.  When none comes, or it tells of a failure, the entity  *)
(* hands the same words to Home Assistant's own conversation agent, which  *)
(* acts on what it understands.                                            *)
(***************************************************************************)
EXTENDS HouseCapability

VARIABLES
  entity,   \* the conversation entity, for each turn
  assisted  \* history: the lights the other agent acted on, by turn

assistVars == <<entity, assisted>>

(* The automations' own endpoints are not reached by conversation.         *)
Conversed(t) == turn[t].kind \in {"command", "create", "plan"}

AssistTypeOK ==
  /\ entity \in [Turns -> {"waiting", "fallback", "replied"}]
  /\ assisted \in [Turns -> SUBSET Lights]

AssistInit ==
  /\ Init
  /\ entity = [t \in Turns |-> "waiting"]
  /\ assisted = [t \in Turns |-> {}]

-----------------------------------------------------------------------------
Enters(t, stage) == entity' = [entity EXCEPT ![t] = stage]

(* async_execute raises: a time-out, a lost connection, an answer 5xx.     *)
(* The Router is not told and goes on.                                     *)
RouterUnavailable(t) ==
  /\ Conversed(t) /\ entity[t] = "waiting"
  /\ Enters(t, "fallback")
  /\ UNCHANGED <<vars, assisted>>

(* What the lifecycle calls FAILED: a refused plan, too.                   *)
needs_home_assistant_fallback(told) == told \in {"failed", "refused"}

Answered(t) ==
  /\ Conversed(t) /\ entity[t] = "waiting" /\ turn[t].told # None
  /\ Enters(t, IF needs_home_assistant_fallback(turn[t].told) THEN "fallback" ELSE "replied")
  /\ UNCHANGED <<vars, assisted>>

(* The other agent acts on what it takes the words to mean, or on nothing. *)
Assist(t) ==
  /\ entity[t] = "fallback"
  /\ \E lights \in SUBSET Lights : assisted' = [assisted EXCEPT ![t] = lights]
  /\ Enters(t, "replied")
  /\ UNCHANGED vars

-----------------------------------------------------------------------------
AssistNext ==
  \/ Next /\ UNCHANGED assistVars
  \/ \E t \in Turns : RouterUnavailable(t) \/ Answered(t) \/ Assist(t)

AssistSpec == AssistInit /\ [][AssistNext]_<<vars, assistVars>>

-----------------------------------------------------------------------------
(* "No blind retry is allowed because a timed-out request may already have *)
(* executed a non-idempotent operation": what Nyra did in the house for a  *)
(* turn, Home Assistant's own agent does not do for it as well.            *)
NoBlindRetry == \A t \in Turns : performed[t] \cap assisted[t] = {}
=============================================================================
