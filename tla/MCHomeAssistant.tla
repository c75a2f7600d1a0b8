--------------------------- MODULE MCHomeAssistant ---------------------------
(***************************************************************************)
(* What goes through Home Assistant besides the turns' own table, for TLC: *)
(* the acts and automations in the house, with or without the conversation *)
(* that asks for them, and the capture of wake words.  They share no       *)
(* state; every behaviour is of one of them, the others standing still, so *)
(* a run costs their sum and not their product.                            *)
(***************************************************************************)
EXTENDS HouseAndWakeWords, TLC

VARIABLE part

house == <<vars, assistVars>>

(* Users, sessions and recordings of the speaker are named after what      *)
(* there is two of in the house: a permutation may then exchange all of    *)
(* them at once.                                                           *)
Symmetry == Permutations(Turns) \cup Permutations(Lights) \cup Permutations(Signatures)

(* Where the house stands still it has no automation to name a signature.  *)
MCInit ==
  /\ AssistInit /\ WakeWords!Init
  /\ part \in {"house", "conversation", "wake words"}
  /\ part # "house" => file[Manual] = None

(* With the other agent the turns are one at a time: it acts for each turn *)
(* on its own.                                                             *)
OneTurn == Cardinality({t \in Turns : turn[t].kind # None}) <= 1

MCNext ==
  \/ /\ part = "house" /\ Next /\ UNCHANGED assistVars
     /\ UNCHANGED <<part, wakeWords>>
  \/ /\ part = "conversation" /\ AssistNext /\ OneTurn'
     /\ UNCHANGED <<part, wakeWords>>
  \/ part = "wake words" /\ WakeWords!Next /\ UNCHANGED <<part, house>>

MCSpec == MCInit /\ [][MCNext]_<<part, house, wakeWords>>

(* The conversation alone.                                                 *)
ConversationSpec == MCInit /\ part = "conversation" /\ [][MCNext]_<<part, house, wakeWords>>
=============================================================================
