----------------------- MODULE MCFeedbackAndReasoning -----------------------
(***************************************************************************)
(* FeedbackAndReasoning for TLC.  Every behaviour is of the ring or of the *)
(* reasoning, the other standing still, so a run costs their sum and not   *)
(* their product.                                                          *)
(***************************************************************************)
EXTENDS FeedbackAndReasoning

VARIABLE part

MCInit == part \in {"feedback", "reasoning"} /\ Init /\ Feedback!Init

MCNext ==
  \/ part = "feedback" /\ Feedback!Next /\ UNCHANGED <<part, vars>>
  \/ part = "reasoning" /\ Next /\ UNCHANGED <<part, feedback>>

(* What stands still is owed nothing: no step that fairness is about can   *)
(* be taken in its initial states.                                         *)
MCSpec ==
  MCInit /\ [][MCNext]_<<part, vars, feedback>> /\ Fairness /\ Feedback!Fairness

(* What the LLM service keeps: the calls alone, with providers that answer.*)
LlmSpec ==
  /\ part = "reasoning" /\ Init /\ Feedback!Init
  /\ [][MCNext]_<<part, vars, feedback>>
  /\ Fairness /\ ProvidersAnswer
=============================================================================
