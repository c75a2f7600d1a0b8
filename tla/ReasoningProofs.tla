--------------------------- MODULE ReasoningProofs ---------------------------
(***************************************************************************)
(* What Reasoning promises of a turn for any number of turns, rounds and   *)
(* restarts, with a fallback model or without.  ActsAsTold speaks of turns *)
(* that were told; to stay true it needs to know that before that nothing  *)
(* was done, that Skills executes for a turn that waits for it or gave it  *)
(* up, and that a plan waits only behind the gate.                         *)
(***************************************************************************)
EXTENDS FeedbackAndReasoning, FiniteSetTheorems, TLAPS

Acts == {"skill", "plan", "part of a plan"}
TurnStates == [at : Waits \cup {"told"}, round : 0 .. MaxRounds,
               plan : Plans \cup {None}, told : Told \cup {None}]

(* Before a turn is told nothing was done, and only one that waits for a   *)
(* skill has one at work; a plan is there to be checked or executed, and   *)
(* was checked when it is executed.                                        *)
NothingYet(t) ==
  turn[t].at # "told" =>
    /\ acted[t] = {} /\ turn[t].told = None
    /\ t \in skills => turn[t].at = "execute"
    /\ turn[t].plan # None => turn[t].at \in {"gate", "plan"}
    /\ turn[t].at \in {"gate", "plan"} => turn[t].plan \in Plans
    /\ turn[t].at = "plan" => turn[t].plan \subseteq {"allowed"}

(* A skill still at work was given up, and has not acted yet.              *)
LateSkill(t) ==
  turn[t].at = "told" =>
    /\ turn[t].told \in Told
    /\ t \in skills => turn[t].told = "SKILLS_UNAVAILABLE" /\ acted[t] = {}

(* What was done is one of these, and goes with what was told.             *)
AsTold(t) ==
  turn[t].at = "told" =>
    \/ acted[t] = {} /\ (turn[t].told = "COMPLETED" => turn[t].plan = None)
    \/ acted[t] = {"skill"} /\ turn[t].told \in
         {"SKILLS_UNAVAILABLE", "SKILL_COMPLETED", "SKILL_FAILED", "SKILL_ASKED"}
    \/ acted[t] = {"plan"} /\ turn[t].told = "COMPLETED"
         /\ turn[t].plan # None /\ turn[t].plan \subseteq {"allowed"}
    \/ acted[t] = {"part of a plan"} /\ turn[t].told = "ACTION_FAILED"
         /\ turn[t].plan \subseteq {"allowed"}

TurnInv(t) == NothingYet(t) /\ LateSkill(t) /\ AsTold(t)

Typed ==
  /\ turn \in [Turns -> TurnStates]
  /\ acted \in [Turns -> SUBSET Acts]

IInv == Typed /\ \A t \in Turns : TurnInv(t)

-----------------------------------------------------------------------------
LEMMA Initially ==
  ASSUME Init
  PROVE  TypeOK /\ IInv
<1>1. 0 \in 0 .. MaxRounds /\ 0 \in 0 .. MaxRestarts
  BY ReasoningAssumption
<1>2. TypeOK
  BY <1>1 DEF Init, TypeOK, Waits
<1>3. Typed
  BY <1>1 DEF Init, Typed, TurnStates, Waits, Acts
<1>4. ASSUME NEW t \in Turns PROVE TurnInv(t)
  BY DEF Init, TurnInv, NothingYet, LateSkill, AsTold
<1>5. QED
  BY <1>2, <1>3, <1>4 DEF IInv

(* What a step on behalf of one turn must show: the others are as before.  *)
LEMMA OneTurn ==
  ASSUME IInv, NEW t \in Turns,
         \E s \in TurnStates : turn' = [turn EXCEPT ![t] = s],
         \E a \in SUBSET Acts : acted' = [acted EXCEPT ![t] = a],
         \A u \in Turns : u # t => (u \in skills' <=> u \in skills),
         TurnInv(t)'
  PROVE  IInv'
<1>1. Typed'
  BY DEF IInv, Typed
<1>2. ASSUME NEW u \in Turns, u # t PROVE TurnInv(u)'
  <2>1. turn'[u] = turn[u] /\ acted'[u] = acted[u] /\ (u \in skills' <=> u \in skills)
    BY <1>2 DEF IInv, Typed
  <2>2. QED
    BY <2>1 DEF IInv, TurnInv, NothingYet, LateSkill, AsTold
<1>3. QED
  BY <1>1, <1>2 DEF IInv

(* A turn moves on to what is no acting: before and after, nothing is done.*)
LEMMA Moves ==
  ASSUME IInv, NEW t \in Turns, NEW at,
         turn[t].at \in Waits \ {"execute", "gate", "plan"},
         at \in Waits \ {"execute", "gate", "plan"},
         Goes(t, at), UNCHANGED <<skills, acted>>
  PROVE  IInv'
<1>1. turn' = [turn EXCEPT ![t] = [turn[t] EXCEPT !.at = at]]
  BY DEF Goes
<1>2. [turn[t] EXCEPT !.at = at] \in TurnStates
  BY DEF IInv, Typed, TurnStates
<1>3. acted' = [acted EXCEPT ![t] = acted[t]] /\ acted[t] \in SUBSET Acts
  BY DEF IInv, Typed
<1>4. turn'[t] = [turn[t] EXCEPT !.at = at] /\ turn[t] \in TurnStates
  BY <1>1 DEF IInv, Typed
<1>5. TurnInv(t)'
  BY <1>4 DEF IInv, TurnInv, NothingYet, LateSkill, AsTold, Waits, TurnStates
<1>6. QED
  BY <1>1, <1>2, <1>3, <1>5, OneTurn

(* ... or it is told something that goes with nothing being done.          *)
LEMMA Tells ==
  ASSUME IInv, NEW t \in Turns, NEW told \in Told,
         turn[t].at \in Waits,
         turn[t].at = "execute" => told = "SKILLS_UNAVAILABLE",
         told = "COMPLETED" => turn[t].plan = None,
         Tell(t, told), UNCHANGED <<skills, acted>>
  PROVE  IInv'
<1> DEFINE s == [turn[t] EXCEPT !.at = "told", !.told = told]
<1>1. turn' = [turn EXCEPT ![t] = s]
  BY DEF Tell
<1>2. s \in TurnStates
  BY DEF IInv, Typed, TurnStates
<1>3. acted' = [acted EXCEPT ![t] = acted[t]] /\ acted[t] \in SUBSET Acts
  BY DEF IInv, Typed
<1>4. turn'[t] = s /\ turn[t] \in TurnStates
  BY <1>1 DEF IInv, Typed
<1>5. TurnInv(t)'
  BY <1>4 DEF IInv, TurnInv, NothingYet, LateSkill, AsTold, Waits, TurnStates
<1>6. QED
  BY <1>1, <1>2, <1>3, <1>5, OneTurn

-----------------------------------------------------------------------------
(* What keeps the invariant in the calls to the LLM service.               *)
LEMMA UnavailableKeeps ==
  ASSUME IInv, NEW t \in Turns, turn[t].at \in {"semantic", "reason"},
         Unavailable(t), UNCHANGED <<skills, acted>>
  PROVE  IInv'
<1>1. CASE turn[t].at = "semantic"
  <2>1. Goes(t, "round")
    BY <1>1 DEF Unavailable
  <2>2. QED
    BY <1>1, <2>1, Moves DEF Waits
<1>2. CASE turn[t].at = "reason"
  <2>1. Tell(t, "LLM_UNAVAILABLE")
    BY <1>2 DEF Unavailable
  <2>2. QED
    BY <1>2, <2>1, Tells DEF Waits, Told
<1>3. QED
  BY <1>1, <1>2

LEMMA StandsStill ==
  ASSUME IInv, UNCHANGED <<turn, skills, acted>>
  PROVE  IInv'
BY DEF IInv, Typed, TurnInv, NothingYet, LateSkill, AsTold

LEMMA RaisesKeeps ==
  ASSUME IInv, NEW h \in Handlers, Raises(h), UNCHANGED <<skills, acted>>
  PROVE  IInv'
<1>1. CASE Awaited(h)
  <2>1. Unavailable(h.turn) /\ h.turn \in Turns
    BY <1>1 DEF Raises, Handlers
  <2>2. turn[h.turn].at \in {"semantic", "reason"}
    BY <1>1 DEF Awaited
  <2>3. QED
    BY <2>1, <2>2, UnavailableKeeps
<1>2. CASE ~Awaited(h)
  BY <1>2, StandsStill DEF Raises
<1>3. QED
  BY <1>1, <1>2

(* What the LLM answered decides: on to a read, to the gate, or told.      *)
LEMMA DecideKeeps ==
  ASSUME IInv, NEW t \in Turns, turn[t].at = "reason",
         NEW reply \in Replies, _validate_outcome_payload(reply),
         Decide(t, reply), UNCHANGED <<skills, acted>>
  PROVE  IInv'
<1>0. /\ reply.outcome \in Outcomes /\ reply.plan \in Plans \cup {None}
      /\ reply.plan # None => reply.outcome = "COMPLETED"
  BY DEF Replies, NoObject, _validate_outcome_payload
<1>1. CASE reply.outcome = "NEEDS_CAPABILITY"
  <2>1. Goes(t, "capability")
    BY <1>0, <1>1 DEF Decide
  <2>2. QED
    BY <2>1, Moves DEF Waits
<1>2. CASE reply.outcome # "NEEDS_CAPABILITY" /\ reply.plan # None
  <2> DEFINE s == [turn[t] EXCEPT !.at = "gate", !.plan = reply.plan]
  <2>1. turn' = [turn EXCEPT ![t] = s]
    BY <1>2 DEF Decide
  <2>2. turn[t] \in TurnStates /\ acted[t] \in SUBSET Acts
    BY DEF IInv, Typed
  <2>3. s \in TurnStates
    BY <1>0, <2>2 DEF TurnStates, Waits
  <2>4. turn'[t] = s /\ acted' = [acted EXCEPT ![t] = acted[t]]
    BY <2>1 DEF IInv, Typed
  <2>5. TurnInv(t)'
    BY <1>0, <1>2, <2>2, <2>4
    DEF IInv, TurnInv, NothingYet, LateSkill, AsTold, TurnStates
  <2>6. QED
    BY <2>1, <2>2, <2>3, <2>4, <2>5, OneTurn
<1>3. CASE reply.outcome # "NEEDS_CAPABILITY" /\ reply.plan = None
  <2>1. Tell(t, reply.outcome) /\ reply.outcome \in Told
    BY <1>0, <1>3 DEF Decide, Outcomes, Told
  <2>2. turn[t].plan = None
    BY DEF IInv, TurnInv, NothingYet
  <2>3. QED
    BY <2>1, <2>2, Tells DEF Waits
<1>4. QED
  BY <1>1, <1>2, <1>3

LEMMA AnswersKeep ==
  ASSUME IInv, NEW h \in Handlers, Answers(h)
  PROVE  IInv'
<1>1. CASE ProviderFails(h)
  <2>1. UNCHANGED <<skills, acted>> /\ (Raises(h) \/ UNCHANGED turn)
    BY <1>1 DEF ProviderFails
  <2>2. QED
    BY <2>1, RaisesKeeps, StandsStill
<1>2. CASE SemanticAnswers(h)
  <2>1. CASE Raises(h)
    BY <1>2, <2>1, RaisesKeeps DEF SemanticAnswers
  <2>2. CASE ~Awaited(h) /\ UNCHANGED turn
    BY <1>2, <2>2, StandsStill DEF SemanticAnswers
  <2>3. CASE Awaited(h) /\ \E at \in {"check", "round"} : Goes(h.turn, at)
    <3>1. PICK at \in {"check", "round"} : Goes(h.turn, at)
      BY <2>3
    <3>2. h.turn \in Turns /\ turn[h.turn].at = "semantic"
      BY <1>2, <2>3 DEF Awaited, SemanticAnswers, Handlers
    <3>3. UNCHANGED <<skills, acted>>
      BY <1>2 DEF SemanticAnswers
    <3>4. QED
      BY <3>1, <3>2, <3>3, Moves DEF Waits
  <2>4. QED
    BY <1>2, <2>1, <2>2, <2>3 DEF SemanticAnswers
<1>3. CASE ReasonAnswers(h)
  <2>0. UNCHANGED <<skills, acted>> /\ h.turn \in Turns
    BY <1>3 DEF ReasonAnswers, Handlers
  <2>1. PICK reply \in Replies :
          IF _validate_outcome_payload(reply)
          THEN IF Awaited(h) THEN Decide(h.turn, reply) ELSE UNCHANGED turn
          ELSE Raises(h)
    BY <1>3 DEF ReasonAnswers
  <2>2. CASE ~_validate_outcome_payload(reply)
    BY <2>0, <2>1, <2>2, RaisesKeeps
  <2>3. CASE _validate_outcome_payload(reply) /\ ~Awaited(h)
    BY <2>0, <2>1, <2>3, StandsStill
  <2>4. CASE _validate_outcome_payload(reply) /\ Awaited(h)
    <3>1. turn[h.turn].at = "reason"
      BY <1>3, <2>4 DEF Awaited, ReasonAnswers
    <3>2. QED
      BY <2>0, <2>1, <2>4, <3>1, DecideKeeps
  <2>5. QED
    BY <2>2, <2>3, <2>4
<1>4. QED
  BY <1>1, <1>2, <1>3 DEF Answers

-----------------------------------------------------------------------------
(* The actions that act.                                                   *)
LEMMA SkillEndsKeeps ==
  ASSUME IInv, NEW t \in Turns, SkillEnds(t)
  PROVE  IInv'
<1>1. /\ t \in skills /\ skills' = skills \ {t}
      /\ acted[t] = {} /\ turn[t] \in TurnStates
      /\ turn[t].at \in {"execute", "told"}
  BY DEF SkillEnds, IInv, Typed, TurnInv, NothingYet, LateSkill, TurnStates
<1>2. PICK a \in {{}, {"skill"}} : acted' = [acted EXCEPT ![t] = a] /\ acted'[t] = a
  BY <1>1 DEF SkillEnds, IInv, Typed
<1>3. PICK s \in TurnStates :
        /\ turn' = [turn EXCEPT ![t] = s]
        /\ s.at = "told" /\ s.plan = turn[t].plan
        /\ s.told \in {"SKILLS_UNAVAILABLE", "SKILL_COMPLETED", "SKILL_FAILED", "SKILL_ASKED"}
  <2>1. CASE turn[t].at = "execute"
    <3>1. PICK told \in {"SKILL_COMPLETED", "SKILL_FAILED", "SKILL_ASKED"} :
            turn' = [turn EXCEPT ![t] = [turn[t] EXCEPT !.at = "told", !.told = told]]
      <4>1. PICK outcome \in DOMAIN told_of : Tell(t, told_of[outcome])
        BY <2>1 DEF SkillEnds
      <4>2. told_of[outcome] \in {"SKILL_COMPLETED", "SKILL_FAILED", "SKILL_ASKED"}
        BY DEF told_of
      <4>3. QED
        BY <4>1, <4>2 DEF Tell
    <3>2. [turn[t] EXCEPT !.at = "told", !.told = told] \in TurnStates
      BY <1>1 DEF TurnStates, Told
    <3>3. QED
      BY <1>1, <3>1, <3>2 DEF TurnStates
  <2>2. CASE turn[t].at = "told"
    <3>1. turn' = [turn EXCEPT ![t] = turn[t]]
      BY <2>2 DEF SkillEnds, IInv, Typed
    <3>2. turn[t].told = "SKILLS_UNAVAILABLE"
      BY <1>1, <2>2 DEF IInv, TurnInv, LateSkill
    <3>3. QED
      BY <1>1, <2>2, <3>1, <3>2
  <2>3. QED
    BY <1>1, <2>1, <2>2
<1>4. turn'[t] = s
  BY <1>3 DEF IInv, Typed
<1>5. TurnInv(t)'
  BY <1>1, <1>2, <1>3, <1>4 DEF TurnInv, NothingYet, LateSkill, AsTold, Told
<1>6. a \in SUBSET Acts
  BY DEF Acts
<1>7. QED
  BY <1>1, <1>2, <1>3, <1>5, <1>6, OneTurn

LEMMA semantic_checkKeeps ==
  ASSUME IInv, NEW t \in Turns, semantic_check(t)
  PROVE  IInv'
<1>0. turn[t].at = "check" /\ UNCHANGED acted
  BY DEF semantic_check
<1>1. CASE Goes(t, "execute") /\ skills' = skills \cup {t}
  <2> DEFINE s == [turn[t] EXCEPT !.at = "execute"]
  <2>1. turn' = [turn EXCEPT ![t] = s]
    BY <1>1 DEF Goes
  <2>2. turn[t] \in TurnStates /\ acted[t] \in SUBSET Acts
    BY DEF IInv, Typed
  <2>3. s \in TurnStates
    BY <2>2 DEF TurnStates, Waits
  <2>4. turn'[t] = s /\ acted' = [acted EXCEPT ![t] = acted[t]]
    BY <1>0, <2>1 DEF IInv, Typed
  <2>5. TurnInv(t)'
    BY <1>0, <1>1, <2>2, <2>4
    DEF IInv, TurnInv, NothingYet, LateSkill, AsTold, TurnStates
  <2>6. QED
    BY <1>1, <2>1, <2>2, <2>3, <2>4, <2>5, OneTurn
<1>2. CASE Goes(t, "round") /\ UNCHANGED skills
  BY <1>0, <1>2, Moves DEF Waits
<1>3. CASE UNCHANGED skills /\ \E told \in {"SKILLS_FAILED", "RAISED"} : Tell(t, told)
  <2>1. PICK told \in {"SKILLS_FAILED", "RAISED"} : Tell(t, told)
    BY <1>3
  <2>2. QED
    BY <1>0, <1>3, <2>1, Tells DEF Waits, Told
<1>4. QED
  BY <1>1, <1>2, <1>3 DEF semantic_check

LEMMA GateKeeps ==
  ASSUME IInv, NEW t \in Turns, Gate(t)
  PROVE  IInv'
<1>0. turn[t].at = "gate" /\ UNCHANGED <<skills, acted>>
  BY DEF Gate
<1>1. CASE \E told \in {"PLAN_UNCHECKED", "PLAN_REJECTED"} : Tell(t, told)
  <2>1. PICK told \in {"PLAN_UNCHECKED", "PLAN_REJECTED"} : Tell(t, told)
    BY <1>1
  <2>2. QED
    BY <1>0, <2>1, Tells DEF Waits, Told
<1>2. CASE validate(turn[t].plan) /\ Goes(t, "plan")
  <2> DEFINE s == [turn[t] EXCEPT !.at = "plan"]
  <2>1. turn' = [turn EXCEPT ![t] = s]
    BY <1>2 DEF Goes
  <2>2. turn[t] \in TurnStates /\ acted[t] \in SUBSET Acts
    BY DEF IInv, Typed
  <2>3. s \in TurnStates
    BY <2>2 DEF TurnStates, Waits
  <2>4. turn'[t] = s /\ acted' = [acted EXCEPT ![t] = acted[t]]
    BY <1>0, <2>1 DEF IInv, Typed
  <2>5. TurnInv(t)'
    BY <1>0, <1>2, <2>2, <2>4
    DEF IInv, TurnInv, NothingYet, LateSkill, AsTold, TurnStates, validate
  <2>6. QED
    BY <1>0, <2>1, <2>2, <2>3, <2>4, <2>5, OneTurn
<1>3. QED
  BY <1>1, <1>2 DEF Gate

LEMMA ExecutePlanKeeps ==
  ASSUME IInv, NEW t \in Turns, ExecutePlan(t)
  PROVE  IInv'
<1>1. /\ turn[t].at = "plan" /\ UNCHANGED skills /\ turn[t] \in TurnStates
      /\ acted[t] = {} /\ t \notin skills
      /\ turn[t].plan # None /\ turn[t].plan \subseteq {"allowed"}
  BY ReasoningAssumption DEF ExecutePlan, IInv, Typed, TurnInv, NothingYet
<1>2. PICK told \in {"COMPLETED", "ACTION_FAILED"}, a \in SUBSET Acts :
        /\ Tell(t, told) /\ acted' = [acted EXCEPT ![t] = a]
        /\ \/ told = "COMPLETED" /\ a = {"plan"}
           \/ told = "ACTION_FAILED" /\ a \in {{}, {"part of a plan"}}
  BY <1>1 DEF ExecutePlan, IInv, Typed, Acts
<1> DEFINE s == [turn[t] EXCEPT !.at = "told", !.told = told]
<1>3. turn' = [turn EXCEPT ![t] = s]
  BY <1>2 DEF Tell
<1>4. s \in TurnStates
  BY <1>1 DEF TurnStates, Told
<1>5. turn'[t] = s /\ acted'[t] = a
  BY <1>2, <1>3 DEF IInv, Typed
<1>6. TurnInv(t)'
  BY <1>1, <1>2, <1>5 DEF TurnInv, NothingYet, LateSkill, AsTold, TurnStates, Told
<1>7. QED
  BY <1>1, <1>2, <1>3, <1>4, <1>6, OneTurn

LEMMA RoundKeeps ==
  ASSUME IInv, NEW t \in Turns, Round(t)
  PROVE  IInv'
<1>0. turn[t].at = "round" /\ UNCHANGED <<skills, acted>>
  BY DEF Round
<1>1. CASE turn[t].round = MaxRounds
  <2>1. Tell(t, "BUDGET_EXCEEDED")
    BY <1>1 DEF Round
  <2>2. QED
    BY <1>0, <2>1, Tells DEF Waits, Told
<1>2. CASE turn[t].round # MaxRounds
  <2> DEFINE s == [turn[t] EXCEPT !.at = "reason", !.round = turn[t].round + 1]
  <2>1. turn' = [turn EXCEPT ![t] = s]
    BY <1>2 DEF Round
  <2>2. turn[t] \in TurnStates /\ acted[t] \in SUBSET Acts
    BY DEF IInv, Typed
  <2>3. turn[t].round + 1 \in 0 .. MaxRounds
    BY <1>2, <2>2, ReasoningAssumption DEF TurnStates
  <2>4. s \in TurnStates
    BY <2>2, <2>3 DEF TurnStates, Waits
  <2>5. turn'[t] = s /\ acted' = [acted EXCEPT ![t] = acted[t]]
    BY <1>0, <2>1 DEF IInv, Typed
  <2>6. TurnInv(t)'
    BY <1>0, <2>2, <2>5
    DEF IInv, TurnInv, NothingYet, LateSkill, AsTold, TurnStates
  <2>7. QED
    BY <1>0, <2>1, <2>2, <2>4, <2>5, <2>6, OneTurn
<1>3. QED
  BY <1>1, <1>2

-----------------------------------------------------------------------------
LEMMA Step ==
  ASSUME serving \subseteq Handlers, IInv, [Next]_vars
  PROVE  IInv'
<1>1. ASSUME NEW t \in Turns, Semantic(t) PROVE IInv'
  BY <1>1, Moves DEF Semantic, Waits
<1>2. ASSUME NEW t \in Turns, semantic_check(t) PROVE IInv'
  BY <1>2, semantic_checkKeeps
<1>3. ASSUME NEW t \in Turns, SkillTimesOut(t) PROVE IInv'
  BY <1>3, Tells DEF SkillTimesOut, Waits, Told
<1>4. ASSUME NEW t \in Turns, Round(t) PROVE IInv'
  BY <1>4, RoundKeeps
<1>5. ASSUME NEW t \in Turns, CallFails(t) PROVE IInv'
  BY <1>5, UnavailableKeeps DEF CallFails
<1>6. ASSUME NEW t \in Turns, ReasoningTimesOut(t) PROVE IInv'
  BY <1>6, Tells DEF ReasoningTimesOut, Waits, Told
<1>7. ASSUME NEW t \in Turns, Gate(t) PROVE IInv'
  BY <1>7, GateKeeps
<1>8. ASSUME NEW t \in Turns, ExecutePlan(t) PROVE IInv'
  BY <1>8, ExecutePlanKeeps
<1>9. ASSUME NEW t \in Turns, SkillEnds(t) PROVE IInv'
  BY <1>9, SkillEndsKeeps
<1>10. ASSUME NEW t \in Turns, Read(t) PROVE IInv'
  BY <1>10, Moves DEF Read, Waits
<1>11. ASSUME NEW h \in serving, Answers(h) PROVE IInv'
  BY <1>11, AnswersKeep
<1>12. CASE Restart
  BY <1>12, StandsStill DEF Restart
<1>13. CASE UNCHANGED vars
  BY <1>13, StandsStill DEF vars
<1>14. QED
  BY <1>1, <1>2, <1>3, <1>4, <1>5, <1>6, <1>7, <1>8, <1>9, <1>10, <1>11, <1>12, <1>13
  DEF Next, RouterStep

-----------------------------------------------------------------------------
(* TypeOK's part for the handlers and what else the invariant leaves out.  *)
LEMMA TypeStep ==
  ASSUME TypeOK, IInv, [Next]_vars
  PROVE  TypeOK'
<1>1. turn' \in [Turns -> TurnStates] /\ acted' \in [Turns -> SUBSET Acts]
  BY Step DEF TypeOK, IInv, Typed
<1>2. serving' \subseteq Handlers
  <2>1. ASSUME NEW t \in Turns PROVE \A p \in Purposes : Handler(t, p) \in Handlers
    BY DEF Handler, Handlers
  <2>2. ASSUME NEW h \in Handlers PROVE [h EXCEPT !.model = "fallback"] \in Handlers
    BY DEF Handlers
  <2>3. ASSUME NEW t \in Turns, Semantic(t) PROVE serving' \subseteq Handlers
    BY <2>1, <2>3 DEF Semantic, TypeOK, Purposes
  <2>4. ASSUME NEW t \in Turns, Round(t) PROVE serving' \subseteq Handlers
    <3>1. serving' \in {serving, serving \cup {Handler(t, "REASONING")}}
      BY <2>4 DEF Round, Arrives
    <3>2. Handler(t, "REASONING") \in Handlers
      BY <2>1 DEF Purposes
    <3>3. serving \subseteq Handlers
      BY DEF TypeOK
    <3>4. QED
      BY <3>1, <3>2, <3>3
  <2>5. ASSUME NEW h \in serving, Answers(h) PROVE serving' \subseteq Handlers
    <3>1. CASE ProviderFails(h)
      BY <2>2, <2>5, <3>1 DEF ProviderFails, Raises, TypeOK
    <3>2. CASE SemanticAnswers(h)
      BY <2>5, <3>2 DEF SemanticAnswers, Raises, TypeOK
    <3>3. CASE ReasonAnswers(h)
      BY <2>5, <3>3 DEF ReasonAnswers, Raises, TypeOK
    <3>4. QED
      BY <2>5, <3>1, <3>2, <3>3 DEF Answers
  <2>6. ASSUME NEW t \in Turns,
               \/ semantic_check(t) \/ SkillTimesOut(t) \/ CallFails(t) \/ ReasoningTimesOut(t)
               \/ Gate(t) \/ ExecutePlan(t) \/ SkillEnds(t) \/ Read(t)
        PROVE  serving' \subseteq Handlers
    BY <2>6 DEF TypeOK, semantic_check, SkillTimesOut, CallFails, ReasoningTimesOut, Gate,
                ExecutePlan, SkillEnds, Read
  <2>7. QED
    BY <2>3, <2>4, <2>5, <2>6 DEF Next, RouterStep, Restart, TypeOK, vars
<1>3. store' \subseteq Turns
  <2>1. ASSUME NEW t \in Turns, Round(t) PROVE store' \subseteq Turns
    BY <2>1 DEF Round, Arrives, create, TypeOK
  <2>2. ASSUME NEW h \in serving, Answers(h) PROVE store' \subseteq Turns
    <3>1. CASE ProviderFails(h) \/ SemanticAnswers(h)
      BY <3>1 DEF ProviderFails, SemanticAnswers, TypeOK
    <3>2. CASE ReasonAnswers(h)
      BY <3>2 DEF ReasonAnswers, complete, TypeOK
    <3>3. QED
      BY <2>2, <3>1, <3>2 DEF Answers
  <2>3. ASSUME NEW t \in Turns,
               \/ Semantic(t) \/ semantic_check(t) \/ SkillTimesOut(t) \/ CallFails(t)
               \/ ReasoningTimesOut(t) \/ Gate(t) \/ ExecutePlan(t) \/ SkillEnds(t) \/ Read(t)
        PROVE  store' \subseteq Turns
    BY <2>3 DEF TypeOK, Semantic, semantic_check, SkillTimesOut, CallFails, ReasoningTimesOut,
                Gate, ExecutePlan, SkillEnds, Read
  <2>4. QED
    BY <2>1, <2>2, <2>3 DEF Next, RouterStep, Restart, TypeOK, vars
<1>4. skills' \subseteq Turns
  <2>1. ASSUME NEW t \in Turns, semantic_check(t) \/ SkillEnds(t) PROVE skills' \subseteq Turns
    BY <2>1 DEF semantic_check, SkillEnds, TypeOK
  <2>2. ASSUME NEW h \in serving, Answers(h) PROVE skills' \subseteq Turns
    BY <2>2 DEF Answers, ProviderFails, SemanticAnswers, ReasonAnswers, TypeOK
  <2>3. ASSUME NEW t \in Turns,
               \/ Semantic(t) \/ SkillTimesOut(t) \/ CallFails(t) \/ Round(t)
               \/ ReasoningTimesOut(t) \/ Gate(t) \/ ExecutePlan(t) \/ Read(t)
        PROVE  skills' \subseteq Turns
    BY <2>3 DEF TypeOK, Semantic, SkillTimesOut, CallFails, Round, ReasoningTimesOut,
                Gate, ExecutePlan, Read
  <2>4. QED
    BY <2>1, <2>2, <2>3 DEF Next, RouterStep, Restart, TypeOK, vars
<1>5. restarts' \in 0 .. MaxRestarts
  <2>0. restarts \in 0 .. MaxRestarts /\ MaxRestarts \in Nat
    BY ReasoningAssumption DEF TypeOK
  <2>1. CASE Restart
    BY <2>0, <2>1 DEF Restart
  <2>2. ASSUME NEW h \in serving, Answers(h) PROVE restarts' = restarts
    BY <2>2 DEF Answers, ProviderFails, SemanticAnswers, ReasonAnswers
  <2>3. ASSUME NEW t \in Turns,
               Semantic(t) \/ RouterStep(t) \/ SkillEnds(t) \/ Read(t)
        PROVE  restarts' = restarts
    BY <2>3 DEF Semantic, RouterStep, semantic_check, SkillTimesOut, CallFails, Round,
                ReasoningTimesOut, Gate, ExecutePlan, SkillEnds, Read
  <2>4. QED
    BY <2>1, <2>2, <2>3 DEF Next, TypeOK, vars
<1>6. QED
  BY <1>1, <1>2, <1>3, <1>4, <1>5 DEF TypeOK, TurnStates, Acts

LEMMA Invariant ==
  Spec => [](TypeOK /\ IInv)
<1>1. Init => TypeOK /\ IInv
  BY Initially
<1>2. TypeOK /\ IInv /\ [Next]_vars => (TypeOK /\ IInv)'
  BY Step, TypeStep DEF TypeOK
<1>3. QED
  BY <1>1, <1>2, PTL DEF Spec

(* Turns, handlers and what the service keeps have their form, however     *)
(* answers and time-outs cross: no turn makes more than MaxRounds rounds.  *)
THEOREM TypeCorrect ==
  Spec => []TypeOK
BY Invariant, PTL

(* ReasoningOrchestrator and the ports behind it: the house is as the turn *)
(* was told, and stays so, however late a skill or a provider answers.     *)
THEOREM HouseIsAsTold ==
  Spec => []ActsAsTold
<1>1. IInv => ActsAsTold
  <2> SUFFICES ASSUME IInv, NEW t \in Turns
               PROVE  /\ Cardinality(acted[t]) <= 1
                      /\ acted[t] \cap {"plan", "part of a plan"} # {} =>
                           turn[t].plan \subseteq {"allowed"}
                      /\ turn[t].told = "COMPLETED" =>
                           acted[t] = IF turn[t].plan = None THEN {} ELSE {"plan"}
                      /\ turn[t].told \in NothingDone => acted[t] = {}
    BY DEF ActsAsTold
  <2>1. Cardinality(acted[t]) <= 1
    <3>1. acted[t] = {} \/ \E a : acted[t] = {a}
      BY DEF IInv, TurnInv, NothingYet, AsTold
    <3>2. QED
      BY <3>1, FS_EmptySet, FS_Singleton
  <2>2. CASE turn[t].at # "told"
    <3>1. acted[t] = {} /\ turn[t].told \notin Told
      BY <2>2, ReasoningAssumption DEF IInv, TurnInv, NothingYet
    <3>2. QED
      BY <2>1, <3>1 DEF Told
  <2>3. CASE turn[t].at = "told"
    <3>1. acted[t] \cap {"plan", "part of a plan"} # {} => turn[t].plan \subseteq {"allowed"}
      BY <2>3 DEF IInv, TurnInv, AsTold
    <3>2. turn[t].told = "COMPLETED" => acted[t] = IF turn[t].plan = None THEN {} ELSE {"plan"}
      BY <2>3 DEF IInv, TurnInv, AsTold
    <3>3. turn[t].told \in NothingDone => acted[t] = {}
      BY <2>3 DEF IInv, TurnInv, AsTold, NothingDone
    <3>4. QED
      BY <2>1, <3>1, <3>2, <3>3
  <2>4. QED
    BY <2>2, <2>3
<1>2. QED
  BY <1>1, Invariant, PTL
-----------------------------------------------------------------------------
(* Of the ring.  A connection subscribes once, before it is given          *)
(* anything; from then on its queue and what is sent of it are one chain   *)
(* of events, which grows at its end when an event is published and loses  *)
(* its first when one is handled (Chain).  The task of the last feedback   *)
(* sleeps just while the machine has its timer (RingInv).                  *)
Messages == [type : {"event", "snapshot"}, n : Nat]
EventsTyped ==
  /\ published \in Seq(Feedback!Kinds)
  /\ latest \in 0 .. Len(published)
  /\ queue \in [Feedback!Connections -> Seq(Nat) \cup {None}]
  /\ made \in 0 .. MaxConnections /\ looping \subseteq 1 .. made /\ subscribed \subseteq looping
  /\ asked \in Seq({"subscribe", "resync"})
  /\ sent \in Seq(Messages)
  /\ client \in 0 .. made \cup {None}
  /\ handled \in Nat

(* A connection that is not served has no queue, one that is subscribed    *)
(* has; and what is on its way is the client's.                            *)
ConnectionsOK ==
  /\ \A c \in Feedback!Connections : c \notin looping => queue[c] = None
  /\ \A c \in subscribed : queue[c] # None
  /\ client \notin Feedback!Connections => sent = <<>> /\ asked = <<>>

(* The client subscribes once, before it is given anything.                *)
SubscribesFirst ==
  \A i \in DOMAIN asked : asked[i] = "subscribe" =>
    i = 1 /\ client \in Feedback!Connections /\ queue[client] = None /\ handled = 0
          /\ Feedback!Coming(sent) = {}

EventsInv == EventsTyped /\ ConnectionsOK /\ SubscribesFirst /\ Feedback!NothingIsSkipped

(* The task of the last feedback sleeps just while the machine has a timer *)
(* set, which it has not while a feedback or an end is being shown.        *)
RingTyped ==
  /\ machine \in Feedback!Machines \cup {None}
  /\ sleeping \in Nat
  /\ handling \in {"none", "blinking", "closing", "darkening"}

TimerOf(m) == m # None /\ m.timer = TRUE

RingInv ==
  /\ RingTyped
  /\ sleeping = IF TimerOf(machine) THEN 1 ELSE 0
  /\ handling # "none" => ~TimerOf(machine)
  /\ handling = "blinking" => machine # None
-----------------------------------------------------------------------------
Given(messages, events, last) == Feedback!Due(messages, events) \cup ({last} \ {0})
Chain(messages, events, last, number, live) ==
  /\ Feedback!InOrder(messages, events)
  /\ Feedback!Unbroken(Feedback!Due(messages, events), last, number, live)

LEMMA AppendIs ==
  ASSUME NEW S, NEW s \in Seq(S), NEW x \in S
  PROVE  /\ Append(s, x) \in Seq(S) /\ Len(Append(s, x)) = Len(s) + 1
         /\ DOMAIN Append(s, x) = 1 .. Len(s) + 1
         /\ \A i \in 1 .. Len(s) : Append(s, x)[i] = s[i]
         /\ Append(s, x)[Len(s) + 1] = x
OBVIOUS

LEMMA TailIs ==
  ASSUME NEW S, NEW s \in Seq(S), s # <<>>
  PROVE  /\ Tail(s) \in Seq(S) /\ Head(s) \in S /\ Head(s) = s[1] /\ Len(s) \in Nat \ {0}
         /\ DOMAIN Tail(s) = 1 .. Len(s) - 1
         /\ \A i \in 1 .. Len(s) - 1 : Tail(s)[i] = s[i + 1]
OBVIOUS

LEMMA Later ==
  ASSUME NEW k \in Nat \ {0}, NEW i \in 1 .. k - 1
  PROVE  i + 1 \in 1 .. k /\ 1 \in 1 .. k /\ 1 < i + 1 /\ i \in Nat
OBVIOUS

LEMMA DueIsNat ==
  ASSUME NEW s \in Seq(Messages), NEW q \in Seq(Nat)
  PROVE  Feedback!Due(s, q) \subseteq Nat
<1>1. ASSUME NEW i \in Feedback!Coming(s) PROVE s[i].n \in Nat
  <2>1. i \in DOMAIN s
    BY DEF Feedback!Coming
  <2>2. s[i] \in Messages
    BY <2>1
  <2> QED
    BY <2>2 DEF Messages
<1>2. \A i \in DOMAIN q : q[i] \in Nat
  OBVIOUS
<1> QED
  BY <1>1, <1>2 DEF Feedback!Due

LEMMA ChainPublishes ==
  ASSUME NEW s \in Seq(Messages), NEW q \in Seq(Nat), NEW last \in Nat, NEW number \in Nat,
         Chain(s, q, last, number, TRUE)
  PROVE  Chain(s, Append(q, number + 1), last, number + 1, TRUE)
<1> PICK p : p = Append(q, number + 1)
  OBVIOUS
<1>1. /\ p \in Seq(Nat) /\ DOMAIN p = 1 .. Len(q) + 1 /\ p[Len(q) + 1] = number + 1
      /\ \A i \in 1 .. Len(q) : p[i] = q[i]
      /\ DOMAIN q = 1 .. Len(q) /\ Len(q) \in Nat
  BY AppendIs
<1>2. Feedback!Due(s, p) = Feedback!Due(s, q) \cup {number + 1}
  BY <1>1 DEF Feedback!Due
<1>3. Feedback!Due(s, q) \subseteq Nat
  BY DueIsNat
<1>4. \A n \in Given(s, q, last) : n \in 1 .. number
  BY DEF Chain, Feedback!Unbroken, Given
<1>5. Feedback!InOrder(s, p)
  <2>1. \A i \in Feedback!Coming(s) : s[i].n \in Feedback!Due(s, q)
    BY DEF Feedback!Due
  <2>2. \A j \in DOMAIN q : q[j] \in Feedback!Due(s, q)
    BY DEF Feedback!Due
  <2>3. \A n \in Feedback!Due(s, q) : n < number + 1
    BY <1>3, <1>4 DEF Given
  <2>4. \A i \in Feedback!Coming(s), j \in DOMAIN p : s[i].n < p[j]
    BY <1>1, <2>1, <2>3 DEF Chain, Feedback!InOrder
  <2>5. \A i, j \in DOMAIN p : i < j => p[i] < p[j]
    <3> SUFFICES ASSUME NEW i \in DOMAIN p, NEW j \in DOMAIN p, i < j PROVE p[i] < p[j]
      OBVIOUS
    <3>1. i \in DOMAIN q
      BY <1>1
    <3>2. CASE j = Len(q) + 1
      BY <1>1, <2>2, <2>3, <3>1, <3>2
    <3>3. CASE j # Len(q) + 1
      BY <1>1, <3>1, <3>3 DEF Chain, Feedback!InOrder
    <3> QED
      BY <3>2, <3>3
  <2> QED
    BY <2>4, <2>5 DEF Chain, Feedback!InOrder
<1>6. Feedback!Unbroken(Feedback!Due(s, p), last, number + 1, TRUE)
  <2>1. Given(s, p, last) = Given(s, q, last) \cup {number + 1}
    BY <1>2 DEF Given
  <2>2. last < number + 1 /\ \A n \in Feedback!Due(s, q) : last < n
    BY <1>4 DEF Chain, Feedback!Unbroken, Given
  <2>3. \A m, n \in Given(s, q, last) : m .. n \subseteq Given(s, q, last)
    BY DEF Chain, Feedback!Unbroken, Given
  <2>4. Given(s, q, last) # {} => number \in Given(s, q, last)
    BY DEF Chain, Feedback!Unbroken, Given
  <2>5. ASSUME NEW m \in Given(s, p, last), NEW n \in Given(s, p, last), NEW k \in m .. n
        PROVE  k \in Given(s, p, last)
    <3>1. CASE k = number + 1
      BY <2>1, <3>1
    <3>2. CASE k # number + 1
      <4>1. m \in Given(s, q, last) /\ k \in m .. number
        BY <1>4, <2>1, <2>5, <3>2
      <4> QED
        BY <2>1, <2>3, <2>4, <4>1
    <3> QED
      BY <3>1, <3>2
  <2>6. Given(s, p, last) \subseteq 1 .. number + 1
    BY <1>4, <2>1
  <2>7. number + 1 \in Given(s, p, last)
    BY <2>1
  <2> QED
    BY <1>2, <2>2, <2>5, <2>6, <2>7 DEF Feedback!Unbroken, Given
<1> QED
  BY <1>5, <1>6 DEF Chain

(* The subscription of a full queue is gone.                               *)
LEMMA ChainEnds ==
  ASSUME NEW s \in Seq(Messages), NEW q \in Seq(Nat), NEW last \in Nat, NEW number \in Nat,
         NEW live, Chain(s, q, last, number, live)
  PROVE  Chain(s, q, last, number + 1, FALSE)
<1>1. Given(s, q, last) \subseteq 1 .. number
  BY DEF Chain, Feedback!Unbroken, Given
<1>2. Given(s, q, last) \subseteq 1 .. number + 1
  BY <1>1
<1> QED
  BY <1>2 DEF Chain, Feedback!Unbroken, Given

(* An event goes from the queue to the client.                             *)
LEMMA ChainSends ==
  ASSUME NEW s \in Seq(Messages), NEW q \in Seq(Nat), q # <<>>, NEW last \in Nat,
         NEW number \in Nat, NEW live, Chain(s, q, last, number, live)
  PROVE  Chain(Append(s, Feedback!Message("event", Head(q))), Tail(q), last, number, live)
<1> PICK x : x = Feedback!Message("event", Head(q))
  OBVIOUS
<1> PICK t : t = Append(s, x)
  OBVIOUS
<1> PICK r : r = Tail(q)
  OBVIOUS
<1>1. /\ r \in Seq(Nat) /\ q[1] \in Nat /\ x.n = q[1] /\ x.type = "event" /\ x \in Messages
      /\ Len(q) \in Nat \ {0} /\ DOMAIN q = 1 .. Len(q) /\ DOMAIN r = 1 .. Len(q) - 1
      /\ \A i \in 1 .. Len(q) - 1 : r[i] = q[i + 1]
  BY TailIs DEF Feedback!Message, Messages
<1>2. /\ t \in Seq(Messages) /\ DOMAIN t = 1 .. Len(s) + 1 /\ t[Len(s) + 1] = x
      /\ DOMAIN s = 1 .. Len(s) /\ Len(s) \in Nat /\ \A i \in 1 .. Len(s) : t[i] = s[i]
  BY <1>1, AppendIs
<1>3. Feedback!Coming(t) = Feedback!Coming(s) \cup {Len(s) + 1}
  BY <1>1, <1>2 DEF Feedback!Coming
<1>4. Feedback!Due(t, r) = Feedback!Due(s, q)
  <2>1. ASSUME NEW n \in Feedback!Due(t, r) PROVE n \in Feedback!Due(s, q)
    <3>1. CASE \E i \in Feedback!Coming(t) : n = t[i].n
      <4>1. PICK i \in Feedback!Coming(t) : n = t[i].n
        BY <3>1
      <4>2. CASE i = Len(s) + 1
        <5>1. n = q[1] /\ 1 \in DOMAIN q
          BY <1>1, <1>2, <4>1, <4>2
        <5> QED
          BY <5>1 DEF Feedback!Due
      <4>3. CASE i # Len(s) + 1
        <5>1. i \in Feedback!Coming(s) /\ n = s[i].n
          BY <1>2, <1>3, <4>1, <4>3 DEF Feedback!Coming
        <5> QED
          BY <5>1 DEF Feedback!Due
      <4> QED
        BY <4>2, <4>3
    <3>2. CASE \E i \in DOMAIN r : n = r[i]
      <4>1. PICK i \in 1 .. Len(q) - 1 : n = q[i + 1]
        BY <1>1, <3>2
      <4>2. i + 1 \in DOMAIN q
        BY <1>1
      <4> QED
        BY <4>1, <4>2 DEF Feedback!Due
    <3> QED
      BY <3>1, <3>2 DEF Feedback!Due
  <2>2. ASSUME NEW n \in Feedback!Due(s, q) PROVE n \in Feedback!Due(t, r)
    <3>1. CASE \E i \in Feedback!Coming(s) : n = s[i].n
      BY <1>2, <1>3, <3>1 DEF Feedback!Due, Feedback!Coming
    <3>2. CASE \E i \in DOMAIN q : n = q[i]
      <4>1. PICK i \in DOMAIN q : n = q[i]
        BY <3>2
      <4>2. CASE i = 1
        BY <1>1, <1>2, <1>3, <4>1, <4>2 DEF Feedback!Due
      <4>3. CASE i # 1
        <5>1. i - 1 \in DOMAIN r /\ r[i - 1] = n
          BY <1>1, <4>1, <4>3
        <5> QED
          BY <5>1 DEF Feedback!Due
      <4> QED
        BY <4>2, <4>3
    <3> QED
      BY <3>1, <3>2 DEF Feedback!Due
  <2> QED
    BY <2>1, <2>2
<1>5. Feedback!InOrder(t, r)
  <2>1. \A i, j \in Feedback!Coming(t) : i < j => t[i].n < t[j].n
    BY <1>1, <1>2, <1>3 DEF Chain, Feedback!InOrder, Feedback!Coming
  <2>2. ASSUME NEW i \in Feedback!Coming(t), NEW j \in DOMAIN r PROVE t[i].n < r[j]
    <3>1. j + 1 \in DOMAIN q /\ r[j] = q[j + 1] /\ 1 \in DOMAIN q /\ 1 < j + 1
      BY <1>1, Later
    <3>2. CASE i = Len(s) + 1
      BY <1>1, <1>2, <3>1, <3>2 DEF Chain, Feedback!InOrder
    <3>3. CASE i # Len(s) + 1
      <4>1. i \in Feedback!Coming(s) /\ t[i] = s[i]
        BY <1>2, <1>3, <3>3 DEF Feedback!Coming
      <4> QED
        BY <3>1, <4>1 DEF Chain, Feedback!InOrder
    <3> QED
      BY <3>2, <3>3
  <2>3. ASSUME NEW i \in DOMAIN r, NEW j \in DOMAIN r, i < j PROVE r[i] < r[j]
    <3>1. i + 1 \in DOMAIN q /\ r[i] = q[i + 1] /\ i \in Nat
      BY <1>1, Later
    <3>2. j + 1 \in DOMAIN q /\ r[j] = q[j + 1] /\ j \in Nat
      BY <1>1, Later
    <3>3. i + 1 < j + 1
      BY <2>3, <3>1, <3>2
    <3> QED
      BY <3>1, <3>2, <3>3 DEF Chain, Feedback!InOrder
  <2> QED
    BY <2>1, <2>2, <2>3 DEF Feedback!InOrder
<1> QED
  BY <1>4, <1>5 DEF Chain

(* A snapshot takes no part.                                               *)
LEMMA ChainAnswers ==
  ASSUME NEW s \in Seq(Messages), NEW q \in Seq(Nat), NEW last \in Nat, NEW number \in Nat,
         NEW live, NEW n \in Nat, Chain(s, q, last, number, live)
  PROVE  Chain(Append(s, Feedback!Message("snapshot", n)), q, last, number, live)
<1> PICK x : x = Feedback!Message("snapshot", n)
  OBVIOUS
<1> PICK t : t = Append(s, x)
  OBVIOUS
<1>1. x \in Messages /\ x.type = "snapshot"
  BY DEF Feedback!Message, Messages
<1>2. /\ DOMAIN t = 1 .. Len(s) + 1 /\ t[Len(s) + 1] = x
      /\ DOMAIN s = 1 .. Len(s) /\ Len(s) \in Nat /\ \A i \in 1 .. Len(s) : t[i] = s[i]
  BY <1>1, AppendIs
<1>3. Feedback!Coming(t) = Feedback!Coming(s) /\ \A i \in Feedback!Coming(s) : t[i] = s[i]
  BY <1>1, <1>2 DEF Feedback!Coming
<1>4. Feedback!Due(t, q) = Feedback!Due(s, q)
  BY <1>3 DEF Feedback!Due
<1>5. Feedback!InOrder(t, q)
  <2>1. Feedback!InOrder(s, q)
    BY DEF Chain
  <2>2. ASSUME NEW i \in Feedback!Coming(t), NEW j \in Feedback!Coming(t), i < j
        PROVE  t[i].n < t[j].n
    <3>1. i \in Feedback!Coming(s) /\ j \in Feedback!Coming(s) /\ t[i] = s[i] /\ t[j] = s[j]
      BY <1>3
    <3>2. s[i].n < s[j].n
      BY <2>1, <2>2, <3>1 DEF Feedback!InOrder
    <3> QED
      BY <3>1, <3>2
  <2>3. \A i \in Feedback!Coming(t), j \in DOMAIN q : t[i].n < q[j]
    BY <1>3, <2>1 DEF Feedback!InOrder
  <2> QED
    BY <2>1, <2>2, <2>3 DEF Feedback!InOrder
<1> QED
  BY <1>4, <1>5 DEF Chain

(* The next message is handled.                                            *)
LEMMA ChainHandles ==
  ASSUME NEW s \in Seq(Messages), s # <<>>, NEW q \in Seq(Nat), NEW last \in Nat,
         NEW number \in Nat, NEW live, Chain(s, q, last, number, live)
  PROVE  Chain(Tail(s), q, IF Head(s).type = "event" THEN Head(s).n ELSE last, number, live)
<1> PICK k : k = Len(s)
  OBVIOUS
<1> PICK t : t = Tail(s)
  OBVIOUS
<1>1. /\ k \in Nat \ {0} /\ DOMAIN s = 1 .. k /\ DOMAIN t = 1 .. k - 1 /\ Head(s) = s[1]
      /\ t \in Seq(Messages) /\ s[1] \in Messages /\ \A i \in 1 .. k - 1 : t[i] = s[i + 1]
  BY TailIs
<1>2. ASSUME NEW i \in Feedback!Coming(t)
      PROVE  i + 1 \in Feedback!Coming(s) /\ t[i] = s[i + 1] /\ i \in Nat \ {0}
  <2>1. i \in 1 .. k - 1
    BY <1>1 DEF Feedback!Coming
  <2>2. i + 1 \in DOMAIN s /\ t[i] = s[i + 1]
    BY <1>1, <2>1, Later
  <2> QED
    BY <2>1, <2>2 DEF Feedback!Coming
<1>3. ASSUME NEW i \in Feedback!Coming(s), i # 1
      PROVE  i - 1 \in Feedback!Coming(t) /\ t[i - 1] = s[i]
  <2>1. i - 1 \in 1 .. k - 1 /\ (i - 1) + 1 = i
    BY <1>1, <1>3 DEF Feedback!Coming
  <2>2. t[i - 1] = s[i]
    BY <1>1, <2>1
  <2> QED
    BY <1>1, <2>1, <2>2 DEF Feedback!Coming
<1>4. ASSUME NEW n \in Feedback!Due(t, q) PROVE n \in Feedback!Due(s, q)
  <2>1. CASE \E i \in Feedback!Coming(t) : n = t[i].n
    <3>1. PICK i \in Feedback!Coming(t) : n = t[i].n
      BY <2>1
    <3>2. i + 1 \in Feedback!Coming(s) /\ n = s[i + 1].n
      BY <1>2, <3>1
    <3> QED
      BY <3>2 DEF Feedback!Due
  <2>2. CASE \E j \in DOMAIN q : n = q[j]
    BY <2>2 DEF Feedback!Due
  <2> QED
    BY <2>1, <2>2 DEF Feedback!Due
<1>5. ASSUME NEW n \in Feedback!Due(s, q), ~(1 \in Feedback!Coming(s) /\ n = s[1].n)
      PROVE  n \in Feedback!Due(t, q)
  <2>1. CASE \E i \in Feedback!Coming(s) : n = s[i].n
    <3>1. PICK i \in Feedback!Coming(s) : n = s[i].n
      BY <2>1
    <3>2. i - 1 \in Feedback!Coming(t) /\ t[i - 1].n = n
      BY <1>3, <1>5, <3>1
    <3> QED
      BY <3>2 DEF Feedback!Due
  <2>2. CASE \E j \in DOMAIN q : n = q[j]
    BY <2>2 DEF Feedback!Due
  <2> QED
    BY <2>1, <2>2 DEF Feedback!Due
<1>6. Feedback!InOrder(t, q)
  <2>1. ASSUME NEW i \in Feedback!Coming(t), NEW j \in Feedback!Coming(t), i < j
        PROVE  t[i].n < t[j].n
    <3>1. i + 1 < j + 1
      BY <1>2, <2>1
    <3> QED
      BY <1>2, <3>1 DEF Chain, Feedback!InOrder
  <2>2. \A i \in Feedback!Coming(t), j \in DOMAIN q : t[i].n < q[j]
    BY <1>2 DEF Chain, Feedback!InOrder
  <2> QED
    BY <2>1, <2>2 DEF Chain, Feedback!InOrder
<1>7. CASE Head(s).type # "event"
  <2>1. 1 \notin Feedback!Coming(s)
    BY <1>1, <1>7 DEF Feedback!Coming
  <2>2. Feedback!Due(t, q) = Feedback!Due(s, q)
    BY <1>4, <1>5, <2>1
  <2> QED
    BY <1>6, <1>7, <2>2 DEF Chain
<1>8. CASE Head(s).type = "event"
  <2> PICK h : h = Head(s).n
    OBVIOUS
  <2>1. 1 \in Feedback!Coming(s) /\ h = s[1].n /\ h \in Nat /\ h \in Feedback!Due(s, q)
    <3>1. 1 \in Feedback!Coming(s) /\ h = s[1].n
      BY <1>1, <1>8 DEF Feedback!Coming
    <3>2. h \in Nat
      BY <1>1, <3>1 DEF Messages
    <3> QED
      BY <3>1, <3>2 DEF Feedback!Due
  <2>2. ASSUME NEW n \in Feedback!Due(t, q) PROVE h < n
    <3>1. CASE \E i \in Feedback!Coming(t) : n = t[i].n
      <4>1. PICK i \in Feedback!Coming(t) : n = t[i].n
        BY <3>1
      <4>2. i + 1 \in Feedback!Coming(s) /\ n = s[i + 1].n /\ i \in Nat \ {0}
        BY <1>2, <4>1
      <4>3. 1 < i + 1
        BY <4>2
      <4> QED
        BY <2>1, <4>2, <4>3 DEF Chain, Feedback!InOrder
    <3>2. CASE \E j \in DOMAIN q : n = q[j]
      BY <2>1, <3>2 DEF Chain, Feedback!InOrder
    <3> QED
      BY <3>1, <3>2 DEF Feedback!Due
  <2>3. last < h /\ h \in 1 .. number
    BY <2>1 DEF Chain, Feedback!Unbroken
  <2>4. Given(t, q, h) = Feedback!Due(t, q) \cup {h}
    BY <2>3 DEF Given
  <2>5. Given(t, q, h) \subseteq Given(s, q, last) /\ Feedback!Due(t, q) \subseteq Nat
    BY <1>1, <1>4, <2>1, <2>4, DueIsNat DEF Given
  <2>6. ASSUME NEW n \in Given(s, q, last), h <= n PROVE n \in Given(t, q, h)
    BY <1>5, <2>1, <2>3, <2>4, <2>6 DEF Given
  <2>7. ASSUME NEW m \in Given(t, q, h), NEW n \in Given(t, q, h), NEW i \in m .. n
        PROVE  i \in Given(t, q, h)
    <3>1. m \in Nat /\ n \in Nat /\ h <= m
      BY <2>1, <2>2, <2>4, <2>5
    <3>2. i \in Given(s, q, last)
      BY <2>5 DEF Chain, Feedback!Unbroken, Given
    <3>3. h <= i
      BY <2>1, <3>1
    <3> QED
      BY <2>6, <3>2, <3>3
  <2>8. Given(t, q, h) \subseteq 1 .. number
    BY <2>5 DEF Chain, Feedback!Unbroken, Given
  <2>9. live => number \in Given(t, q, h)
    <3>1. live => number \in Given(s, q, last)
      BY <2>1 DEF Chain, Feedback!Unbroken, Given
    <3> QED
      BY <2>3, <2>6, <3>1
  <2> QED
    BY <1>6, <1>8, <2>2, <2>7, <2>8, <2>9 DEF Chain, Feedback!Unbroken, Given
<1> QED
  BY <1>7, <1>8

-----------------------------------------------------------------------------
(* The same, as it is proved: of the client's connection.                  *)
LEMMA Skipped ==
  ASSUME EventsInv, NEW c \in looping, client = c, queue[c] # None
  PROVE  /\ queue[c] \in Seq(Nat) /\ c \in Feedback!Connections
         /\ Chain(sent, queue[c], handled, Len(published), c \in subscribed)
<1>1. c \in Feedback!Connections /\ queue[c] \in Seq(Nat)
  BY FeedbackAssumption
     DEF EventsInv, EventsTyped, Feedback!EventsAssumption, Feedback!Connections
<1> QED
  BY <1>1 DEF EventsInv, Feedback!NothingIsSkipped, Chain

LEMMA SkippedNext ==
  ASSUME \A c \in looping' : client' = c /\ queue'[c] # None =>
           Chain(sent', queue'[c], handled', Len(published'), c \in subscribed')
  PROVE  Feedback!NothingIsSkipped'
BY DEF Feedback!NothingIsSkipped, Chain, Feedback!InOrder, Feedback!Unbroken, Feedback!Due,
       Feedback!Coming

LEMMA Numbers ==
  /\ made \in 0 .. MaxConnections => 1 .. made \subseteq Feedback!Connections
  /\ 0 \notin Feedback!Connections /\ None \notin Feedback!Connections /\ MaxConnections \in Nat
  /\ None \notin Seq(Nat)
BY FeedbackAssumption DEF Feedback!EventsAssumption, Feedback!Connections

LEMMA PublishKeeps ==
  ASSUME EventsInv, NEW kind \in Feedback!Kinds, Feedback!Publish(kind)
  PROVE  EventsInv'
<1> PICK n : n = Len(published)
  OBVIOUS
<1>1. /\ published' = Append(published, kind)
      /\ latest' = IF kind \in Feedback!States THEN n + 1 ELSE latest
      /\ queue' = [c \in Feedback!Connections |->
           IF c \in subscribed /\ Feedback!Room(c) THEN Append(queue[c], n + 1) ELSE queue[c]]
      /\ subscribed' = {c \in subscribed : Feedback!Room(c)}
      /\ UNCHANGED <<looping, asked, sent, client, made, handled>>
  BY DEF Feedback!Publish, Feedback!wireVars, Feedback!clientVars
<1>2. published' \in Seq(Feedback!Kinds) /\ Len(published') = n + 1 /\ n \in Nat
  BY <1>1, AppendIs DEF EventsInv, EventsTyped
<1>3. subscribed \subseteq Feedback!Connections /\ looping \subseteq Feedback!Connections
  BY Numbers DEF EventsInv, EventsTyped
<1>4. ASSUME NEW c \in Feedback!Connections
      PROVE  \/ /\ c \in subscribed' /\ queue[c] \in Seq(Nat)
                /\ queue'[c] = Append(queue[c], n + 1) /\ queue'[c] \in Seq(Nat)
             \/ c \notin subscribed' /\ queue'[c] = queue[c]
  <2>1. CASE c \in subscribed'
    <3>1. queue[c] \in Seq(Nat)
      BY <1>1, <2>1 DEF EventsInv, EventsTyped, ConnectionsOK
    <3>2. queue'[c] = Append(queue[c], n + 1)
      BY <1>1, <2>1
    <3> QED
      BY <1>2, <2>1, <3>1, <3>2, AppendIs
  <2>2. CASE c \notin subscribed'
    BY <1>1, <2>2
  <2> QED
    BY <2>1, <2>2
<1>5. EventsTyped'
  <2>1. queue' \in [Feedback!Connections -> Seq(Nat) \cup {None}]
    <3>1. \A c \in Feedback!Connections : queue'[c] \in Seq(Nat) \cup {None}
      BY <1>4 DEF EventsInv, EventsTyped
    <3> QED
      BY <1>1, <3>1
  <2>2. latest' \in 0 .. Len(published')
    BY <1>1, <1>2 DEF EventsInv, EventsTyped
  <2> QED
    BY <1>1, <1>2, <2>1, <2>2 DEF EventsInv, EventsTyped
<1>6. ConnectionsOK'
  BY <1>1, <1>3, <1>4, Numbers DEF EventsInv, EventsTyped, ConnectionsOK
<1>7. SubscribesFirst'
  BY <1>1, <1>4 DEF EventsInv, EventsTyped, ConnectionsOK, SubscribesFirst, Feedback!Coming
<1>8. Feedback!NothingIsSkipped'
  <2> SUFFICES ASSUME NEW c \in looping', client' = c, queue'[c] # None
               PROVE  Chain(sent', queue'[c], handled', Len(published'), c \in subscribed')
    BY SkippedNext
  <2>1. sent \in Seq(Messages) /\ handled \in Nat /\ c \in Feedback!Connections /\ c \in looping
    BY <1>1, <1>3 DEF EventsInv, EventsTyped
  <2>2. CASE c \in subscribed'
    <3>1. queue[c] \in Seq(Nat) /\ queue'[c] = Append(queue[c], n + 1)
      BY <1>4, <2>1, <2>2
    <3>2. Chain(sent, queue[c], handled, n, c \in subscribed)
      BY <1>1, <2>1, <3>1, Numbers, Skipped
    <3>3. (c \in subscribed) = TRUE /\ (c \in subscribed') = TRUE
      BY <1>1, <2>2
    <3>4. Chain(sent, Append(queue[c], n + 1), handled, n + 1, TRUE)
      BY <1>2, <2>1, <3>1, <3>2, <3>3, ChainPublishes
    <3> QED
      BY <1>1, <1>2, <3>1, <3>3, <3>4
  <2>3. CASE c \notin subscribed'
    <3>1. queue'[c] = queue[c]
      BY <1>4, <2>1, <2>3
    <3>2. queue[c] \in Seq(Nat) /\ Chain(sent, queue[c], handled, n, c \in subscribed)
      BY <1>1, <2>1, <3>1, Skipped
    <3>3. (c \in subscribed') = FALSE
      BY <2>3
    <3>4. Chain(sent, queue[c], handled, n + 1, FALSE)
      BY <1>2, <2>1, <3>2, ChainEnds
    <3> QED
      BY <1>1, <1>2, <3>1, <3>3, <3>4
  <2> QED
    BY <2>2, <2>3
<1> QED
  BY <1>5, <1>6, <1>7, <1>8 DEF EventsInv

LEMMA SendEventKeeps ==
  ASSUME EventsInv, NEW c \in Feedback!Connections, Feedback!SendEvent(c)
  PROVE  EventsInv'
<1> PICK q : q = queue[c]
  OBVIOUS
<1>1. /\ c \in looping /\ client = c /\ q # None /\ q # <<>>
      /\ sent' = Append(sent, Feedback!Message("event", Head(q)))
      /\ queue' = [queue EXCEPT ![c] = Tail(q)]
      /\ asked' = asked \/ (asked # <<>> /\ asked' = Tail(asked))
      /\ UNCHANGED <<published, latest, subscribed, looping, client, made, handled>>
  BY DEF Feedback!SendEvent, Feedback!Ready, Feedback!clientVars, EventsInv, EventsTyped
<1>2. /\ q \in Seq(Nat) /\ Tail(q) \in Seq(Nat) /\ Head(q) \in Nat /\ Tail(q) # None
      /\ queue'[c] = Tail(q) /\ \A d \in Feedback!Connections : d # c => queue'[d] = queue[d]
      /\ queue' \in [Feedback!Connections -> Seq(Nat) \cup {None}]
  <2>1. q \in Seq(Nat)
    BY <1>1 DEF EventsInv, EventsTyped
  <2>2. Tail(q) \in Seq(Nat) /\ Head(q) \in Nat
    BY <1>1, <2>1, TailIs
  <2> QED
    BY <1>1, <2>1, <2>2, Numbers DEF EventsInv, EventsTyped
<1>3. sent' \in Seq(Messages)
  <2>1. Feedback!Message("event", Head(q)) \in Messages
    BY <1>2 DEF Feedback!Message, Messages
  <2> QED
    BY <1>1, <2>1, AppendIs DEF EventsInv, EventsTyped
<1>4. asked' \in Seq({"subscribe", "resync"})
  BY <1>1, TailIs DEF EventsInv, EventsTyped
<1>5. EventsTyped'
  BY <1>1, <1>2, <1>3, <1>4 DEF EventsInv, EventsTyped
<1>6. ConnectionsOK'
  BY <1>1, <1>2, Numbers DEF EventsInv, EventsTyped, ConnectionsOK
<1>7. SubscribesFirst'
  <2>1. \A i \in DOMAIN asked : asked[i] # "subscribe"
    BY <1>1 DEF EventsInv, SubscribesFirst
  <2>2. \A i \in DOMAIN asked' : asked'[i] # "subscribe"
    <3>1. CASE asked' = asked
      BY <2>1, <3>1
    <3>2. CASE asked # <<>> /\ asked' = Tail(asked)
      <4> PICK k : k = Len(asked)
        OBVIOUS
      <4>1. /\ k \in Nat \ {0} /\ DOMAIN asked' = 1 .. k - 1 /\ DOMAIN asked = 1 .. k
            /\ \A i \in 1 .. k - 1 : asked'[i] = asked[i + 1]
        BY <3>2, TailIs DEF EventsInv, EventsTyped
      <4> QED
        BY <2>1, <4>1, Later
    <3> QED
      BY <1>1, <3>1, <3>2
  <2> QED
    BY <2>2 DEF SubscribesFirst
<1>8. Feedback!NothingIsSkipped'
  <2>1. sent \in Seq(Messages) /\ handled \in Nat /\ Len(published) \in Nat
    BY DEF EventsInv, EventsTyped
  <2>2. Chain(sent, q, handled, Len(published), c \in subscribed)
    BY <1>1, Skipped
  <2>3. Chain(sent', Tail(q), handled, Len(published), c \in subscribed)
    BY <1>1, <1>2, <2>1, <2>2, ChainSends
  <2>4. ASSUME NEW d \in looping', client' = d, queue'[d] # None
        PROVE  Chain(sent', queue'[d], handled', Len(published'), d \in subscribed')
    BY <1>1, <1>2, <2>3, <2>4
  <2> QED
    BY <2>4, SkippedNext
<1> QED
  BY <1>5, <1>6, <1>7, <1>8 DEF EventsInv

LEMMA TakeActionKeeps ==
  ASSUME EventsInv, NEW c \in Feedback!Connections, Feedback!TakeAction(c)
  PROVE  EventsInv'
<1>1. /\ c \in looping /\ client = c /\ asked # <<>> /\ asked' = Tail(asked)
      /\ UNCHANGED <<published, latest, looping, client, made, handled>>
  BY DEF Feedback!TakeAction, Feedback!clientVars
<1> PICK k : k = Len(asked)
  OBVIOUS
<1>2. /\ asked' \in Seq({"subscribe", "resync"}) /\ Head(asked) = asked[1]
      /\ k \in Nat \ {0} /\ DOMAIN asked' = 1 .. k - 1 /\ DOMAIN asked = 1 .. k
      /\ \A i \in 1 .. k - 1 : asked'[i] = asked[i + 1]
  BY <1>1, TailIs DEF EventsInv, EventsTyped
<1>3. SubscribesFirst'
  <2>1. ASSUME NEW i \in DOMAIN asked' PROVE asked'[i] # "subscribe"
    <3>1. i + 1 \in DOMAIN asked /\ asked'[i] = asked[i + 1] /\ i + 1 # 1
      BY <1>2, Later
    <3> QED
      BY <3>1 DEF EventsInv, SubscribesFirst
  <2> QED
    BY <2>1 DEF SubscribesFirst
<1>4. CASE /\ Head(asked) = "subscribe"
           /\ queue' = [queue EXCEPT ![c] = <<>>]
           /\ subscribed' = subscribed \cup {c}
           /\ UNCHANGED sent
  <2>1. queue[c] = None /\ handled = 0 /\ Feedback!Coming(sent) = {}
    BY <1>1, <1>2, <1>4 DEF EventsInv, SubscribesFirst
  <2>2. /\ queue'[c] = <<>> /\ <<>> \in Seq(Nat) /\ <<>> # None
        /\ \A d \in Feedback!Connections : d # c => queue'[d] = queue[d]
        /\ queue' \in [Feedback!Connections -> Seq(Nat) \cup {None}]
    <3>1. <<>> \in Seq(Nat)
      OBVIOUS
    <3>2. <<>> # None
      BY <3>1, Numbers
    <3> QED
      BY <1>4, <3>1, <3>2 DEF EventsInv, EventsTyped
  <2>3. EventsTyped'
    BY <1>1, <1>2, <1>4, <2>2 DEF EventsInv, EventsTyped
  <2>4. ConnectionsOK'
    BY <1>1, <1>4, <2>2, Numbers DEF EventsInv, EventsTyped, ConnectionsOK
  <2>5. Chain(sent, <<>>, 0, Len(published), TRUE)
    <3>1. Feedback!Due(sent, <<>>) = {}
      BY <2>1 DEF Feedback!Due
    <3> QED
      BY <2>1, <3>1 DEF Chain, Feedback!InOrder, Feedback!Unbroken
  <2>6. ASSUME NEW d \in looping', client' = d, queue'[d] # None
        PROVE  Chain(sent', queue'[d], handled', Len(published'), d \in subscribed')
    <3>1. d = c /\ (d \in subscribed') = TRUE
      BY <1>1, <1>4, <2>6
    <3> QED
      BY <1>1, <1>4, <2>1, <2>2, <2>5, <3>1
  <2> QED
    BY <1>3, <2>3, <2>4, <2>6, SkippedNext DEF EventsInv
<1>5. CASE /\ Head(asked) = "resync"
           /\ sent' = Append(sent, Feedback!Message("snapshot", latest))
           /\ UNCHANGED <<queue, subscribed>>
  <2>1. /\ sent \in Seq(Messages) /\ latest \in Nat
        /\ Feedback!Message("snapshot", latest) \in Messages
        /\ handled \in Nat /\ Len(published) \in Nat
    BY DEF EventsInv, EventsTyped, Feedback!Message, Messages
  <2>2. sent' \in Seq(Messages)
    BY <1>5, <2>1, AppendIs
  <2>3. EventsTyped'
    BY <1>1, <1>2, <1>5, <2>2 DEF EventsInv, EventsTyped
  <2>4. ConnectionsOK'
    BY <1>1, <1>5 DEF EventsInv, ConnectionsOK
  <2>5. ASSUME NEW d \in looping', client' = d, queue'[d] # None
        PROVE  Chain(sent', queue'[d], handled', Len(published'), d \in subscribed')
    <3>1. queue[d] \in Seq(Nat)
           /\ Chain(sent, queue[d], handled, Len(published), d \in subscribed)
      BY <1>1, <1>5, <2>5, Skipped
    <3>2. Chain(sent', queue[d], handled, Len(published), d \in subscribed)
      BY <1>5, <2>1, <3>1, ChainAnswers
    <3> QED
      BY <1>1, <1>5, <3>2
  <2> QED
    BY <1>3, <2>3, <2>4, <2>5, SkippedNext DEF EventsInv
<1> QED
  BY <1>4, <1>5 DEF Feedback!TakeAction

LEMMA LoopEndsKeeps ==
  ASSUME EventsInv, NEW c \in Feedback!Connections, Feedback!LoopEnds(c)
  PROVE  EventsInv'
<1>1. /\ client # c /\ looping' = looping \ {c} /\ subscribed' = subscribed \ {c}
      /\ queue' = [queue EXCEPT ![c] = None]
      /\ UNCHANGED <<published, latest, asked, sent, client, made, handled>>
  BY DEF Feedback!LoopEnds, Feedback!wireVars, Feedback!clientVars
<1>2. /\ queue'[c] = None /\ \A d \in Feedback!Connections : d # c => queue'[d] = queue[d]
      /\ queue' \in [Feedback!Connections -> Seq(Nat) \cup {None}]
  BY <1>1 DEF EventsInv, EventsTyped
<1>3. EventsTyped'
  BY <1>1, <1>2 DEF EventsInv, EventsTyped
<1>4. ConnectionsOK'
  BY <1>1, <1>2, Numbers DEF EventsInv, EventsTyped, ConnectionsOK
<1>5. SubscribesFirst'
  BY <1>1, <1>2 DEF EventsInv, SubscribesFirst, Feedback!Coming
<1>6. ASSUME NEW d \in looping', client' = d, queue'[d] # None
      PROVE  Chain(sent', queue'[d], handled', Len(published'), d \in subscribed')
  <2>1. d \in looping /\ d # c /\ d \in Feedback!Connections
    BY <1>1, <1>6, Numbers DEF EventsInv, EventsTyped
  <2>2. queue'[d] = queue[d] /\ (d \in subscribed') = (d \in subscribed)
    BY <1>1, <1>2, <2>1
  <2>3. Chain(sent, queue[d], handled, Len(published), d \in subscribed)
    BY <1>1, <1>6, <2>1, <2>2, Skipped
  <2> QED
    BY <1>1, <2>2, <2>3
<1> QED
  BY <1>3, <1>4, <1>5, <1>6, SkippedNext DEF EventsInv

LEMMA ConnectKeeps == ASSUME EventsInv, Feedback!Connect PROVE EventsInv'
<1> PICK c : c = made + 1
  OBVIOUS
<1>1. /\ client = 0 /\ made < MaxConnections /\ made' = c /\ client' = c
      /\ looping' = looping \cup {c} /\ asked' = <<"subscribe", "resync">> /\ handled' = 0
      /\ UNCHANGED <<published, latest, queue, subscribed, sent>>
  BY DEF Feedback!Connect
<1>2. c \in Feedback!Connections /\ c \notin looping /\ sent = <<>> /\ queue[c] = None
  <2>1. c \in Feedback!Connections /\ c \notin looping
    BY <1>1, Numbers DEF EventsInv, EventsTyped, Feedback!Connections
  <2> QED
    BY <1>1, <2>1, Numbers DEF EventsInv, ConnectionsOK
<1>3. EventsTyped'
  <2>1. made' \in 0 .. MaxConnections /\ 1 .. made \subseteq 1 .. made' /\ c \in 1 .. made'
    BY <1>1, Numbers DEF EventsInv, EventsTyped
  <2>2. looping' \subseteq 1 .. made' /\ subscribed' \subseteq looping' /\ client' \in 0 .. made'
    BY <1>1, <2>1 DEF EventsInv, EventsTyped
  <2> QED
    BY <1>1, <2>1, <2>2 DEF EventsInv, EventsTyped
<1>4. ConnectionsOK'
  BY <1>1, <1>2 DEF EventsInv, ConnectionsOK
<1>5. SubscribesFirst'
  <2>1. Feedback!Coming(sent') = {}
    BY <1>1, <1>2 DEF Feedback!Coming
  <2>2. \A i \in DOMAIN asked' : asked'[i] = "subscribe" => i = 1
    BY <1>1
  <2> QED
    BY <1>1, <1>2, <2>1, <2>2 DEF SubscribesFirst, Feedback!Coming
<1>6. Feedback!NothingIsSkipped'
  BY <1>1, <1>2, SkippedNext
<1> QED
  BY <1>3, <1>4, <1>5, <1>6 DEF EventsInv

(* The connection breaks, or the client stops.                             *)
LEMMA LeavesKeep ==
  ASSUME EventsInv, client' \in {0, None}, sent' = <<>>, asked' = <<>>,
         UNCHANGED <<published, latest, queue, subscribed, looping, made, handled>>
  PROVE  EventsInv'
<1>1. client' \notin Feedback!Connections
  BY Numbers
<1>2. EventsTyped'
  BY DEF EventsInv, EventsTyped
<1>3. ConnectionsOK' /\ SubscribesFirst'
  BY DEF EventsInv, ConnectionsOK, SubscribesFirst
<1>4. Feedback!NothingIsSkipped'
  BY <1>1, SkippedNext, Numbers DEF EventsInv, EventsTyped
<1> QED
  BY <1>2, <1>3, <1>4 DEF EventsInv

LEMMA HandleMessageKeeps == ASSUME EventsInv, Feedback!HandleMessage PROVE EventsInv'
<1>1. /\ client \in Feedback!Connections /\ sent # <<>> /\ sent' = Tail(sent)
      /\ handled' = IF Head(sent).type = "event" THEN Head(sent).n ELSE handled
      /\ UNCHANGED <<published, latest, queue, subscribed, looping, asked, client, made>>
  BY DEF Feedback!HandleMessage, Feedback!routerVars
<1>2. sent' \in Seq(Messages) /\ handled' \in Nat
  <2>1. Head(sent) \in Messages /\ Tail(sent) \in Seq(Messages) /\ handled \in Nat
    BY <1>1, TailIs DEF EventsInv, EventsTyped
  <2> QED
    BY <1>1, <2>1 DEF Messages
<1>3. EventsTyped'
  BY <1>1, <1>2 DEF EventsInv, EventsTyped
<1>4. ConnectionsOK'
  BY <1>1 DEF EventsInv, ConnectionsOK
<1>5. SubscribesFirst'
  <2> PICK k : k = Len(sent)
    OBVIOUS
  <2>1. /\ k \in Nat \ {0} /\ DOMAIN sent = 1 .. k /\ DOMAIN sent' = 1 .. k - 1
        /\ Head(sent) = sent[1] /\ \A i \in 1 .. k - 1 : sent'[i] = sent[i + 1]
    BY <1>1, TailIs DEF EventsInv, EventsTyped
  <2>2. ASSUME Feedback!Coming(sent) = {} PROVE Feedback!Coming(sent') = {} /\ handled' = handled
    <3>1. \A i \in 1 .. k : sent[i].type # "event"
      BY <2>1, <2>2 DEF Feedback!Coming
    <3>2. \A i \in 1 .. k - 1 : sent'[i].type # "event"
      BY <2>1, <3>1, Later
    <3> QED
      BY <1>1, <2>1, <3>1, <3>2 DEF Feedback!Coming
  <2> QED
    BY <1>1, <2>2 DEF EventsInv, SubscribesFirst, Feedback!Coming
<1>6. ASSUME NEW d \in looping', client' = d, queue'[d] # None
      PROVE  Chain(sent', queue'[d], handled', Len(published'), d \in subscribed')
  <2>1. queue[d] \in Seq(Nat)
         /\ Chain(sent, queue[d], handled, Len(published), d \in subscribed)
    BY <1>1, <1>6, Skipped
  <2>2. sent \in Seq(Messages) /\ handled \in Nat /\ Len(published) \in Nat
    BY DEF EventsInv, EventsTyped
  <2>3. Chain(sent', queue[d], handled', Len(published), d \in subscribed)
    BY <1>1, <2>1, <2>2, ChainHandles
  <2> QED
    BY <1>1, <2>3
<1> QED
  BY <1>3, <1>4, <1>5, <1>6, SkippedNext DEF EventsInv

(* What the speaker does is no matter of events.                           *)
LEMMA EventsStand ==
  ASSUME EventsInv, UNCHANGED <<Feedback!routerVars, Feedback!wireVars, client, made, handled>>
  PROVE  EventsInv'
<1>1. UNCHANGED <<published, latest, queue, subscribed, looping, asked, sent>>
  BY DEF Feedback!routerVars, Feedback!wireVars
<1>2. EventsTyped' /\ ConnectionsOK'
  BY <1>1 DEF EventsInv, EventsTyped, ConnectionsOK
<1>3. SubscribesFirst'
  BY <1>1 DEF EventsInv, SubscribesFirst, Feedback!Coming
<1>4. \A d \in looping' : client' = d /\ queue'[d] # None =>
        Chain(sent', queue'[d], handled', Len(published'), d \in subscribed')
  BY <1>1, Skipped
<1> QED
  BY <1>2, <1>3, <1>4, SkippedNext DEF EventsInv

LEMMA InitEvents == Feedback!Init => EventsInv
<1> SUFFICES ASSUME Feedback!Init PROVE EventsInv
  OBVIOUS
<1>1. EventsTyped
  BY Numbers DEF Feedback!Init, EventsTyped
<1>2. ConnectionsOK
  BY DEF Feedback!Init, ConnectionsOK
<1>3. SubscribesFirst
  BY DEF Feedback!Init, SubscribesFirst
<1>4. Feedback!NothingIsSkipped
  BY DEF Feedback!Init, Feedback!NothingIsSkipped
<1> QED
  BY <1>1, <1>2, <1>3, <1>4 DEF EventsInv

LEMMA NextEvents == EventsInv /\ [Feedback!Next]_Feedback!vars => EventsInv'
<1> SUFFICES ASSUME EventsInv, [Feedback!Next]_Feedback!vars PROVE EventsInv'
  OBVIOUS
<1>1. CASE \E kind \in Feedback!Kinds : Feedback!Publish(kind)
  BY <1>1, PublishKeeps
<1>2. CASE \E c \in Feedback!Connections : Feedback!Serve(c)
  BY <1>2, SendEventKeeps, TakeActionKeeps, LoopEndsKeeps DEF Feedback!Serve
<1>3. CASE Feedback!Breaks \/ Feedback!Stop
  BY <1>3, LeavesKeep DEF Feedback!Breaks, Feedback!Stop, Feedback!routerVars
<1>4. CASE Feedback!BlinkReturns \/ Feedback!CloseReturns \/ Feedback!DarkenReturns
  BY <1>4, EventsStand DEF Feedback!BlinkReturns, Feedback!CloseReturns, Feedback!DarkenReturns
<1>5. CASE \/ Feedback!FeedbackEnds \/ Feedback!BeginSpeaking \/ Feedback!EndSpeaking
           \/ UNCHANGED Feedback!vars
  BY <1>5, EventsStand
     DEF Feedback!FeedbackEnds, Feedback!BeginSpeaking, Feedback!EndSpeaking,
         Feedback!clientVars, Feedback!vars
<1> QED
  BY <1>1, <1>2, <1>3, <1>4, <1>5, ConnectKeeps, HandleMessageKeeps
     DEF Feedback!Next, Feedback!Handle

-----------------------------------------------------------------------------
(* The ring.                                                               *)
LEMMA KnownIs ==
  ASSUME RingTyped
  PROVE  Feedback!Known \in Feedback!Machines /\ (Feedback!Known.timer = TRUE <=> TimerOf(machine))
<1>1. CASE machine = None
  <2>1. Feedback!Known = Feedback!Quiet
    BY <1>1 DEF Feedback!Known
  <2>2. Feedback!Quiet \in Feedback!Machines /\ Feedback!Quiet.timer = FALSE
    BY DEF Feedback!Quiet, Feedback!Machines
  <2> QED
    BY <1>1, <2>1, <2>2 DEF TimerOf
<1>2. CASE machine # None
  BY <1>2 DEF RingTyped, Feedback!Known, TimerOf
<1> QED
  BY <1>1, <1>2

LEMMA MachineMoves ==
  ASSUME NEW m \in Feedback!Machines
  PROVE  m # None
BY FeedbackAssumption DEF Feedback!EventsAssumption

Seen == sleeping > 0 /\ ring = "blink" /\ ring' # "blink" => sleeping' = 0 \/ playing

LEMMA CancelIs == ASSUME RingInv, Feedback!Cancel(Feedback!Known) PROVE sleeping' = 0
<1>1. Feedback!Known.timer \in BOOLEAN /\ (Feedback!Known.timer = TRUE <=> TimerOf(machine))
  BY KnownIs DEF RingInv, Feedback!Machines
<1>2. CASE TimerOf(machine)
  <2>1. Feedback!Known.timer = TRUE /\ sleeping = 1
    BY <1>1, <1>2 DEF RingInv
  <2> QED
    BY <2>1 DEF Feedback!Cancel
<1>3. CASE ~TimerOf(machine)
  <2>1. Feedback!Known.timer = FALSE /\ sleeping = 0
    BY <1>1, <1>3 DEF RingInv
  <2> QED
    BY <2>1 DEF Feedback!Cancel
<1> QED
  BY <1>2, <1>3

(* The machine has a timer just if the task sleeps.                        *)
LEMMA RingMoves ==
  ASSUME RingInv, NEW m \in Feedback!Machines, machine' = m,
         sleeping' = IF m.timer = TRUE THEN 1 ELSE 0,
         handling' \in {"none", "blinking", "closing", "darkening"},
         handling' # "none" => m.timer = FALSE
  PROVE  RingInv'
<1>1. m # None
  BY MachineMoves
<1> QED
  BY <1>1 DEF RingInv, RingTyped, TimerOf

LEMMA HandleStateRing ==
  ASSUME RingInv, NEW kind \in Feedback!States, Feedback!HandleState(kind),
         handling = "none", handling' = "none"
  PROVE  RingInv' /\ Seen
<1>1. Feedback!Known \in Feedback!Machines /\ (Feedback!Known.timer = TRUE <=> TimerOf(machine))
  BY KnownIs DEF RingInv
<1> PICK x : x = (Feedback!Known.processing \/ kind = "processing")
  OBVIOUS
<1> PICK m : m = [Feedback!Known EXCEPT !.processing = x]
  OBVIOUS
<1>2. m \in Feedback!Machines /\ m.timer = Feedback!Known.timer
  <2>1. x \in BOOLEAN
    OBVIOUS
  <2> QED
    BY <1>1, <2>1 DEF Feedback!Machines
<1>3. m = [Feedback!Known EXCEPT !.processing = @ \/ kind = "processing"]
  BY <1>1 DEF Feedback!Machines
<1>4. sleeping' = sleeping
  BY DEF Feedback!HandleState
<1>5. CASE machine' = [m EXCEPT !.pending = kind] /\ UNCHANGED ring
  <2> PICK p : p = [m EXCEPT !.pending = kind]
    OBVIOUS
  <2>1. p \in Feedback!Machines /\ p.timer = m.timer
    BY <1>2 DEF Feedback!Machines
  <2>2. sleeping' = IF p.timer = TRUE THEN 1 ELSE 0
    BY <1>1, <1>2, <1>4, <2>1 DEF RingInv
  <2> QED
    BY <1>5, <2>1, <2>2, RingMoves DEF Seen
<1>6. CASE ~m.timer /\ Feedback!Shown(m, kind)
  <2>1. m.timer = FALSE /\ sleeping = 0
    BY <1>1, <1>2, <1>6 DEF RingInv, Feedback!Machines
  <2> QED
    BY <1>2, <1>4, <1>6, <2>1, RingMoves DEF Seen, Feedback!Shown
<1> QED
  BY <1>3, <1>5, <1>6 DEF Feedback!HandleState

LEMMA HandleIdentityRing ==
  ASSUME RingInv, Feedback!HandleIdentity, handling = "none", handling' = "blinking"
  PROVE  RingInv' /\ Seen
<1>1. Feedback!Known \in Feedback!Machines
  BY KnownIs DEF RingInv
<1> PICK m : m = [Feedback!Known EXCEPT !.timer = FALSE]
  OBVIOUS
<1> PICK p : p = [m EXCEPT !.pending = None]
  OBVIOUS
<1>2. m \in Feedback!Machines /\ m.timer = FALSE
  BY <1>1 DEF Feedback!Machines
<1>3. p \in Feedback!Machines /\ p.timer = FALSE
  BY <1>2 DEF Feedback!Machines
<1>4. machine' = p /\ ring' = "blink" /\ sleeping' = 0
  BY <1>1, CancelIs DEF Feedback!HandleIdentity, Feedback!Machines
<1> QED
  BY <1>3, <1>4, RingMoves DEF Seen

LEMMA HandleClosedRing ==
  ASSUME RingInv, Feedback!HandleClosed, handling = "none", handling' = "closing"
  PROVE  RingInv' /\ Seen
<1>1. sleeping' = 0
  BY CancelIs DEF Feedback!HandleClosed
<1>2. CASE machine = None
  <2>1. machine' = None
    BY <1>2 DEF Feedback!HandleClosed
  <2> QED
    BY <1>1, <2>1 DEF RingInv, RingTyped, TimerOf, Seen
<1>3. CASE machine # None
  <2> PICK p : p = [machine EXCEPT !.timer = FALSE]
    OBVIOUS
  <2>1. p \in Feedback!Machines /\ p.timer = FALSE
    BY <1>3 DEF RingInv, RingTyped, Feedback!Machines
  <2>2. machine' = p
    BY <1>3 DEF Feedback!HandleClosed
  <2> QED
    BY <1>1, <2>1, <2>2, RingMoves DEF Seen
<1> QED
  BY <1>2, <1>3

LEMMA HandleRing == ASSUME RingInv, Feedback!Handle PROVE RingInv' /\ Seen
<1>1. CASE Feedback!HandleMessage
  <2>1. handling = "none"
    BY <1>1 DEF Feedback!HandleMessage
  <2>2. CASE UNCHANGED <<Feedback!speakerVars, handling>>
    BY <2>2 DEF RingInv, RingTyped, TimerOf, Seen, Feedback!speakerVars
  <2>3. CASE /\ published[Head(sent).n] \in Feedback!States
             /\ Feedback!HandleState(published[Head(sent).n]) /\ UNCHANGED handling
    BY <2>1, <2>3, HandleStateRing
  <2> QED
    BY <1>1, <2>1, <2>2, <2>3, HandleIdentityRing, HandleClosedRing DEF Feedback!HandleMessage
<1>2. CASE Feedback!BlinkReturns
  <2>1. machine \in Feedback!Machines /\ sleeping = 0
    BY <1>2 DEF Feedback!BlinkReturns, RingInv, RingTyped
  <2> PICK p : p = [machine EXCEPT !.timer = TRUE]
    OBVIOUS
  <2>2. p \in Feedback!Machines /\ p.timer = TRUE
    BY <2>1 DEF Feedback!Machines
  <2>3. machine' = p /\ sleeping' = 1 /\ handling' = "none"
    BY <1>2, <2>1 DEF Feedback!BlinkReturns
  <2>4. RingInv'
    BY <2>2, <2>3, RingMoves
  <2>5. Seen
    BY <2>1 DEF Seen
  <2> QED
    BY <2>4, <2>5
<1>3. CASE Feedback!CloseReturns
  BY <1>3 DEF Feedback!CloseReturns, RingInv, RingTyped, TimerOf, Seen
<1>4. CASE Feedback!DarkenReturns
  BY <1>4 DEF Feedback!DarkenReturns, RingInv, RingTyped, TimerOf, Seen
<1> QED
  BY <1>1, <1>2, <1>3, <1>4 DEF Feedback!Handle

LEMMA FeedbackEndsRing == ASSUME RingInv, Feedback!FeedbackEnds PROVE RingInv' /\ Seen
<1>1. /\ machine \in Feedback!Machines /\ machine # None
      /\ sleeping = 1 /\ sleeping' = 0 /\ handling' = handling
  BY DEF Feedback!FeedbackEnds, RingInv, RingTyped, TimerOf, Feedback!clientVars
<1> PICK m : m = [machine EXCEPT !.timer = FALSE]
  OBVIOUS
<1>2. m \in Feedback!Machines /\ m.timer = FALSE
  BY <1>1 DEF Feedback!Machines
<1> PICK p : p = [m EXCEPT !.pending = None]
  OBVIOUS
<1>3. p \in Feedback!Machines /\ p.timer = FALSE
  BY <1>2 DEF Feedback!Machines
<1>4. machine' = m \/ machine' = p
  BY DEF Feedback!FeedbackEnds, Feedback!Shown
<1>5. RingInv'
  BY <1>1, <1>2, <1>3, <1>4, RingMoves DEF RingInv, RingTyped
<1> QED
  BY <1>1, <1>5 DEF Seen

LEMMA BeginSpeakingRing == ASSUME RingInv, Feedback!BeginSpeaking PROVE RingInv' /\ Seen
<1>1. Feedback!Known \in Feedback!Machines
  BY KnownIs DEF RingInv
<1> PICK m : m = [Feedback!Known EXCEPT !.speaking = TRUE]
  OBVIOUS
<1>2. m \in Feedback!Machines
  BY <1>1 DEF Feedback!Machines
<1> PICK p : p = [m EXCEPT !.timer = FALSE]
  OBVIOUS
<1>3. p \in Feedback!Machines /\ p.timer = FALSE
  BY <1>2 DEF Feedback!Machines
<1>4. machine' = p /\ sleeping' = 0 /\ handling' = handling
  BY <1>1, CancelIs DEF Feedback!BeginSpeaking, Feedback!Machines, Feedback!clientVars
<1>5. RingInv'
  BY <1>3, <1>4, RingMoves DEF RingInv, RingTyped
<1> QED
  BY <1>4, <1>5 DEF Seen

LEMMA EndSpeakingRing == ASSUME RingInv, Feedback!EndSpeaking PROVE RingInv' /\ Seen
<1>1. playing /\ sleeping' = sleeping /\ handling' = handling
  BY DEF Feedback!EndSpeaking, Feedback!clientVars
<1>2. CASE machine = None
  BY <1>1, <1>2 DEF Feedback!EndSpeaking, RingInv, RingTyped, TimerOf, Seen
<1>3. CASE machine # None
  <2>1. machine \in Feedback!Machines
    BY <1>3 DEF RingInv, RingTyped
  <2> PICK m : m = [machine EXCEPT !.speaking = FALSE]
    OBVIOUS
  <2>2. m \in Feedback!Machines /\ m.timer = machine.timer
    BY <2>1 DEF Feedback!Machines
  <2> PICK p : p = [m EXCEPT !.pending = None]
    OBVIOUS
  <2>3. p \in Feedback!Machines /\ p.timer = machine.timer
    BY <2>2 DEF Feedback!Machines
  <2>4. machine' = p
    BY <1>3, <2>1 DEF Feedback!EndSpeaking, Feedback!Shown, Feedback!Machines
  <2>5. sleeping' = IF p.timer = TRUE THEN 1 ELSE 0
    BY <1>1, <1>3, <2>3 DEF RingInv, TimerOf
  <2>6. handling' # "none" => p.timer = FALSE
    BY <1>1, <1>3, <2>3 DEF RingInv, TimerOf, Feedback!Machines
  <2> QED
    BY <1>1, <2>3, <2>4, <2>5, <2>6, RingMoves DEF Seen, RingInv, RingTyped
<1> QED
  BY <1>2, <1>3

LEMMA RingStands ==
  ASSUME RingInv, UNCHANGED Feedback!speakerVars, handling' \in {"none", handling}
  PROVE  RingInv' /\ Seen
BY DEF RingInv, RingTyped, TimerOf, Seen, Feedback!speakerVars

LEMMA InitRing == Feedback!Init => RingInv
BY DEF Feedback!Init, RingInv, RingTyped, TimerOf

LEMMA NextRing == RingInv /\ [Feedback!Next]_Feedback!vars => RingInv' /\ Seen
<1> SUFFICES ASSUME RingInv, [Feedback!Next]_Feedback!vars PROVE RingInv' /\ Seen
  OBVIOUS
<1>1. CASE \E kind \in Feedback!Kinds : Feedback!Publish(kind)
  BY <1>1, RingStands DEF Feedback!Publish, Feedback!clientVars
<1>2. CASE \E c \in Feedback!Connections : Feedback!Serve(c)
  BY <1>2, RingStands
     DEF Feedback!Serve, Feedback!SendEvent, Feedback!TakeAction, Feedback!LoopEnds,
         Feedback!clientVars
<1>3. CASE Feedback!Connect \/ Feedback!Breaks \/ Feedback!Stop
  BY <1>3, RingStands DEF Feedback!Connect, Feedback!Breaks, Feedback!Stop
<1>4. CASE UNCHANGED Feedback!vars
  BY <1>4, RingStands DEF Feedback!vars, Feedback!clientVars
<1> QED
  BY <1>1, <1>2, <1>3, <1>4, HandleRing, FeedbackEndsRing, BeginSpeakingRing, EndSpeakingRing
  DEF Feedback!Next

-----------------------------------------------------------------------------
(* From the subscription on, the client is given what is published, in     *)
(* order and without a gap, unless its queue was full.                     *)
THEOREM NothingSkipped == Feedback!Spec => []NothingIsSkipped
<1>1. EventsInv => NothingIsSkipped
  BY DEF EventsInv, NothingIsSkipped
<1> QED
  BY <1>1, InitEvents, NextEvents, PTL DEF Feedback!Spec

(* What follows a feedback on the ring waits for its end, or for playback. *)
THEOREM FeedbackSeen == Feedback!Spec => FeedbackIsSeen
<1>1. RingInv /\ [Feedback!Next]_Feedback!vars
        => [sleeping > 0 /\ ring = "blink" /\ ring' # "blink"
              => sleeping' = 0 \/ playing]_Feedback!vars
  BY NextRing DEF Seen
<1>2. RingInv /\ [Feedback!Next]_Feedback!vars => RingInv'
  BY NextRing
<1> QED
  BY <1>1, <1>2, InitRing, PTL DEF Feedback!Spec, FeedbackIsSeen, Feedback!FeedbackIsSeen
=============================================================================
