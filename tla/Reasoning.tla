------------------------------ MODULE Reasoning ------------------------------
(***************************************************************************)
(* What becomes of a turn no skill matches: the LLM is asked which skill   *)
(* is meant, and if none is, to reason about it in rounds, each of which   *)
(* may ask the Router to read something.  A plan it proposes goes through  *)
(* the gate of Skills before the Router executes it.                       *)
(*                                                                         *)
(* The Router gives up a call after 8 s and the rounds after 15 s; what it *)
(* called goes on: a handler of the LLM service still waits for its        *)
(* provider, a skill still acts in the house.  The LLM service keeps in    *)
(* memory which reasonings it has begun; a reasoning id is a fresh uuid    *)
(* and stands here for its turn, whose trace it is bound to.               *)
(***************************************************************************)
EXTENDS Naturals, FiniteSets

CONSTANTS
  Turns,        \* turns for which Skills found no match
  MaxRounds,    \* llm_max_rounds
  HasFallback,  \* is a fallback model configured?
  MaxRestarts,  \* bound: restarts of the LLM service
  None          \* Python's None

VARIABLES
  turn,     \* where the Router is with each turn, its plan and what it told
  serving,  \* the handlers of the LLM service that wait for a provider
  store,    \* ReasoningStore._states
  skills,   \* the turns for which Skills executes a skill
  acted,    \* history: what was done in the house for each turn
  restarts

vars == <<turn, serving, store, skills, acted, restarts>>

Outcomes == {"COMPLETED", "NEEDS_CAPABILITY", "NEEDS_CLARIFICATION", "FAILED"}
Purposes == {"SEMANTIC", "REASONING"}
ErrorKinds ==
  {"TIMEOUT", "UNAVAILABLE", "CONNECTION", "RATE_LIMITED", "INVALID_STRUCTURED_OUTPUT", "OTHER"}

(* A plan is what kinds of steps it has: those in _ALLOWED, others, and    *)
(* those with a parameter that is not in _SAFE_PARAMS.                     *)
Plans == SUBSET {"allowed", "unsupported", "unsafe"} \ {{}}

(* What a provider may answer is JSON, of an object or not.                *)
NoObject == [outcome |-> None, plan |-> None]
Replies == [outcome : Outcomes, plan : Plans \cup {None}] \cup {NoObject}
Understandings == [confident : BOOLEAN, plain : BOOLEAN, known : BOOLEAN]

Handlers == [turn : Turns, purpose : Purposes, model : {"primary", "fallback"}]
Handler(t, purpose) == [turn |-> t, purpose |-> purpose, model |-> "primary"]

Waits == {"miss", "semantic", "check", "execute", "round", "reason", "capability", "gate", "plan"}
Told ==
  {"COMPLETED", "NEEDS_CLARIFICATION", "FAILED", "RAISED", "LLM_UNAVAILABLE", "BUDGET_EXCEEDED",
   "SKILLS_FAILED", "SKILLS_UNAVAILABLE", "PLAN_UNCHECKED", "PLAN_REJECTED", "ACTION_FAILED"}
  \cup {"SKILL_COMPLETED", "SKILL_FAILED", "SKILL_ASKED"}

(* None is neither an answer nor a plan.                                   *)
ASSUME ReasoningAssumption ==
  /\ MaxRounds \in Nat /\ MaxRestarts \in Nat
  /\ None \notin Told
  /\ \A plan \in Plans : plan # None

TypeOK ==
  /\ turn \in [Turns -> [at : Waits \cup {"told"}, round : 0 .. MaxRounds,
                         plan : Plans \cup {None}, told : Told \cup {None}]]
  /\ serving \subseteq Handlers /\ store \subseteq Turns /\ skills \subseteq Turns
  /\ acted \in [Turns -> SUBSET {"skill", "plan", "part of a plan"}]
  /\ restarts \in 0 .. MaxRestarts

Init ==
  /\ turn = [t \in Turns |-> [at |-> "miss", round |-> 0, plan |-> None, told |-> None]]
  /\ serving = {} /\ store = {} /\ skills = {}
  /\ acted = [t \in Turns |-> {}]
  /\ restarts = 0

Goes(t, at) == turn' = [turn EXCEPT ![t].at = at]
Tell(t, told) == turn' = [turn EXCEPT ![t].at = "told", ![t].told = told]

(***************************************************************************)
(* The providers.                                                          *)
(***************************************************************************)
_map_error == [kind \in ErrorKinds |-> [kind |-> kind, retryable |-> kind # "OTHER"]]

_eligible_for_fallback(error) ==
  \/ error.kind \in {"TIMEOUT", "UNAVAILABLE", "CONNECTION", "INVALID_STRUCTURED_OUTPUT"}
  \/ error.kind = "RATE_LIMITED" /\ error.retryable

(* LlmClient: the handler's answer reaches the Router if it still waits.   *)
Awaited(h) == turn[h.turn].at = IF h.purpose = "SEMANTIC" THEN "semantic" ELSE "reason"

(* LlmUnavailable: without a skill to match the turn goes on to reasoning, *)
(* and the reasoning fails.                                                *)
Unavailable(t) == IF turn[t].at = "semantic" THEN Goes(t, "round") ELSE Tell(t, "LLM_UNAVAILABLE")

Raises(h) ==
  /\ serving' = serving \ {h}
  /\ IF Awaited(h) THEN Unavailable(h.turn) ELSE UNCHANGED turn

(* ProviderService.infer: the fallback is tried once.  An error of the     *)
(* provider leaves the reasoning in the store.                             *)
ProviderFails(h) ==
  /\ \E kind \in ErrorKinds :
       IF HasFallback /\ h.model = "primary" /\ _eligible_for_fallback(_map_error[kind])
       THEN /\ serving' = (serving \ {h}) \cup {[h EXCEPT !.model = "fallback"]}
            /\ UNCHANGED turn
       ELSE Raises(h)
  /\ UNCHANGED <<store, skills, acted, restarts>>

(***************************************************************************)
(* Which skill is meant?                                                   *)
(***************************************************************************)
(* RouterLlmPort.semantic.  A call may get lost.                           *)
Semantic(t) ==
  /\ turn[t].at = "miss"
  /\ Goes(t, "semantic")
  /\ serving' \in {serving, serving \cup {Handler(t, "SEMANTIC")}}
  /\ UNCHANGED <<store, skills, acted, restarts>>

(* SemanticSkillBridge.accept: sure enough, one action and nothing besides *)
(* its target, an operation and a kind of target Nyra knows.               *)
accept(result) == result.confident /\ result.plain /\ result.known

(* LlmService.semantic, to the end of its handler.                         *)
SemanticAnswers(h) ==
  /\ h.purpose = "SEMANTIC"
  /\ \/ Raises(h)
     \/ /\ serving' = serving \ {h}
        /\ IF Awaited(h)
           THEN \E result \in Understandings :
                  Goes(h.turn, IF accept(result) THEN "check" ELSE "round")
           ELSE UNCHANGED turn
  /\ UNCHANGED <<store, skills, acted, restarts>>

(* _RemoteSkillPort.semantic_check: only a miss opens the way to reasoning.*)
semantic_check(t) ==
  /\ turn[t].at = "check"
  /\ \/ Goes(t, "execute") /\ skills' = skills \cup {t}
     \/ \/ Goes(t, "round")
        \/ \E told \in {"SKILLS_FAILED", "RAISED"} : Tell(t, told)
        /\ UNCHANGED skills
  /\ UNCHANGED <<serving, store, acted, restarts>>

(* _RemoteSkillPort.execute: what a skill answered is what is told.        *)
told_of == [MISS |-> "SKILL_FAILED", FAILED |-> "SKILL_FAILED",
            NEEDS_CLARIFICATION |-> "SKILL_ASKED", HANDLED |-> "SKILL_COMPLETED"]

(* SkillsService.execute, to the end: the skill acted or it did not, and   *)
(* says what it says (HouseCapability tells how the two agree).            *)
SkillEnds(t) ==
  /\ t \in skills
  /\ skills' = skills \ {t}
  /\ \/ acted' = [acted EXCEPT ![t] = @ \cup {"skill"}]
     \/ UNCHANGED acted
  /\ IF turn[t].at = "execute"
     THEN \E outcome \in DOMAIN told_of : Tell(t, told_of[outcome])
     ELSE UNCHANGED turn
  /\ UNCHANGED <<serving, store, restarts>>

SkillTimesOut_Reasons(t) ==
  turn[t].at = "execute" /\ Goes(t, "round") /\ UNCHANGED <<serving, store, skills, acted, restarts>>
(* SkillsClient gives up after 3 s.  What fails once a skill was chosen is *)
(* told as it is: no other way is tried.                                   *)
SkillTimesOut(t) ==
  /\ turn[t].at = "execute"
  /\ Tell(t, "SKILLS_UNAVAILABLE")
  /\ UNCHANGED <<serving, store, skills, acted, restarts>>

(***************************************************************************)
(* The rounds.                                                             *)
(***************************************************************************)
create(t) == store \cup {t}
require(t) == t \in store
complete(t) == store \ {t}

(* LlmService.reason, up to the provider: the first round creates the id,  *)
(* the others need it; without it the handler raises.                      *)
Arrives(t) ==
  LET first == turn[t].round = 0
  IN IF first \/ require(t)
     THEN /\ store' = IF first THEN create(t) ELSE store
          /\ serving' = serving \cup {Handler(t, "REASONING")}
     ELSE UNCHANGED <<store, serving>>

(* ReasoningOrchestrator: the next round, or none is left.                 *)
Round(t) ==
  /\ turn[t].at = "round"
  /\ IF turn[t].round = MaxRounds
     THEN Tell(t, "BUDGET_EXCEEDED") /\ UNCHANGED <<store, serving>>
     ELSE /\ turn' = [turn EXCEPT ![t].at = "reason", ![t].round = @ + 1]
          /\ Arrives(t) \/ UNCHANGED <<store, serving>>
  /\ UNCHANGED <<skills, acted, restarts>>

(* ReasoningCapabilityDispatcher.execute: whatever the read comes to, its  *)
(* result goes into the next round.                                        *)
Read(t) ==
  /\ turn[t].at = "capability"
  /\ Goes(t, "round")
  /\ UNCHANGED <<serving, store, skills, acted, restarts>>

(* LlmClient: 8 s are over, or the connection broke.                       *)
CallFails(t) ==
  /\ turn[t].at \in {"semantic", "reason"}
  /\ Unavailable(t)
  /\ UNCHANGED <<serving, store, skills, acted, restarts>>

ReasoningTimesOut_Calls(t) ==
  turn[t].at \in {"round", "reason"} /\ Tell(t, "BUDGET_EXCEEDED")
  /\ UNCHANGED <<serving, store, skills, acted, restarts>>
(* wait_for: all rounds together have 15 s, a read included.               *)
ReasoningTimesOut(t) ==
  /\ turn[t].at \in {"round", "reason", "capability"}
  /\ Tell(t, "BUDGET_EXCEEDED")
  /\ UNCHANGED <<serving, store, skills, acted, restarts>>

(* ReasoningResult._validate_outcome_payload.                              *)
_validate_outcome_payload(reply) ==
  reply.outcome \in Outcomes /\ (reply.plan # None => reply.outcome = "COMPLETED")

(* RouterLlmPort.reason, with the result of the last round.                *)
Decide(t, reply) ==
  CASE reply.outcome = "NEEDS_CAPABILITY" -> Goes(t, "capability")
    [] reply.plan # None -> turn' = [turn EXCEPT ![t].at = "gate", ![t].plan = reply.plan]
    [] OTHER -> Tell(t, reply.outcome)

(* LlmService.reason, from the provider's answer on.  What is no object    *)
(* raises before anything is completed.                                    *)
ReasonAnswers(h) ==
  /\ h.purpose = "REASONING"
  /\ \E reply \in Replies :
       LET valid == _validate_outcome_payload(reply)
           over == valid => reply.outcome # "NEEDS_CAPABILITY"
       IN /\ store' = IF over /\ reply # NoObject THEN complete(h.turn) ELSE store
          /\ IF valid
             THEN /\ serving' = serving \ {h}
                  /\ IF Awaited(h) THEN Decide(h.turn, reply) ELSE UNCHANGED turn
             ELSE Raises(h)
  /\ UNCHANGED <<skills, acted, restarts>>

(***************************************************************************)
(* The plan.                                                               *)
(***************************************************************************)
(* PlanValidator.validate.                                                 *)
validate(plan) == plan \subseteq {"allowed"}

(* LlmActionGate.validate_proposal and Skills behind it.                   *)
Gate(t) ==
  /\ turn[t].at = "gate"
  /\ \/ Tell(t, "PLAN_UNCHECKED")
     \/ IF validate(turn[t].plan) THEN Goes(t, "plan") ELSE Tell(t, "PLAN_REJECTED")
  /\ UNCHANGED <<serving, store, skills, acted, restarts>>

(* RouterPlanExecutor.execute, whose steps HouseCapability models.         *)
ExecutePlan(t) ==
  /\ turn[t].at = "plan"
  /\ \/ acted' = [acted EXCEPT ![t] = @ \cup {"plan"}] /\ Tell(t, "COMPLETED")
     \/ acted' = [acted EXCEPT ![t] = @ \cup {"part of a plan"}] /\ Tell(t, "ACTION_FAILED")
     \/ Tell(t, "ACTION_FAILED") /\ UNCHANGED acted
  /\ UNCHANGED <<serving, store, skills, restarts>>

(* The LLM service starts again, with nothing in memory.                   *)
Restart ==
  /\ restarts < MaxRestarts
  /\ restarts' = restarts + 1
  /\ serving' = {} /\ store' = {}
  /\ UNCHANGED <<turn, skills, acted>>

RouterStep(t) ==
  \/ semantic_check(t) \/ SkillTimesOut(t)
  \/ Round(t) \/ CallFails(t) \/ ReasoningTimesOut(t) \/ Gate(t) \/ ExecutePlan(t)
Answers(h) == ProviderFails(h) \/ SemanticAnswers(h) \/ ReasonAnswers(h)

Next ==
  \/ \E t \in Turns : Semantic(t) \/ RouterStep(t) \/ SkillEnds(t) \/ Read(t)
  \/ \E h \in serving : Answers(h)
  \/ Restart

Spec == Init /\ [][Next]_vars

(* The Router's own steps and time-outs come; providers, reads and skills  *)
(* need never answer.                                                      *)
Fairness == \A t \in Turns : WF_vars(RouterStep(t))
FairSpec == Spec /\ Fairness

(* Providers that answer, if only with their own time-out.                 *)
ProvidersAnswer == \A h \in Handlers : WF_vars(h \in serving /\ Answers(h))

-----------------------------------------------------------------------------
(* The house is as the turn was told, for good: one way only was taken to  *)
(* act, a plan that was executed had passed the gate, a plan told as       *)
(* completed was executed to its end, and for a turn that was told of a    *)
(* failure on the way nothing is done, however late an answer comes.       *)
NothingDone ==
  {"NEEDS_CLARIFICATION", "FAILED", "RAISED", "LLM_UNAVAILABLE", "BUDGET_EXCEEDED",
   "SKILLS_FAILED", "PLAN_UNCHECKED", "PLAN_REJECTED"}
ActsAsTold ==
  \A t \in Turns :
    /\ Cardinality(acted[t]) <= 1
    /\ acted[t] \cap {"plan", "part of a plan"} # {} => turn[t].plan \subseteq {"allowed"}
    /\ turn[t].told = "COMPLETED" =>
         acted[t] = IF turn[t].plan = None THEN {} ELSE {"plan"}
    /\ turn[t].told \in NothingDone => acted[t] = {}

(* A turn with the LLM gets its answer, though a provider, a read or a     *)
(* skill never answers.                                                    *)
EveryReasoningEnds == \A t \in Turns : turn[t].at = "semantic" ~> turn[t].at = "told"

(* docs/superpowers/specs/2026-09-10-milestone-6-llm-design.md:665 says    *)
(* that a reasoning id expires on completion, failure, timeout or budget   *)
(* exhaustion: once its turn is over it leaves the store.                  *)
ReasoningExpires == \A t \in Turns : turn[t].at = "told" ~> t \notin store
=============================================================================
