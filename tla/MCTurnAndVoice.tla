--------------------------- MODULE MCTurnAndVoice ---------------------------
(***************************************************************************)
(* Turns that overlap, and the voices they wait for, for TLC.  Every       *)
(* behaviour is of one of the two models, the other standing still: a run  *)
(* so costs the sum of the two and not their product.                      *)
(***************************************************************************)
EXTENDS TurnAndVoice

CONSTANTS kitchen, study, t1, t2, t3, r1, s1

VARIABLE part

(* The turns are of one request, at most two at a time and whatever the    *)
(* ingress does, in a session of the kitchen; the clarification expires in *)
(* one tick of two.                                                        *)
OneSource == [s \in Sessions |-> kitchen]
OnePost == {<<r1, s1>>}

(* The third utterance is of another room.  A behaviour has two of the     *)
(* three: together those of one room, or apart one of each.                *)
TwoRooms == [u \in Utterances |-> IF u = 3 THEN study ELSE kitchen]

Unspoken(u) == UNCHANGED <<pipeline[u], capture[u]>>

MCInit == part \in {"together", "apart", "turns"} /\ Init /\ Voice!Init

MCNext ==
  \/ part = "together" /\ Voice!Next /\ Unspoken(3) /\ UNCHANGED <<part, vars>>
  \/ part = "apart" /\ Voice!Next /\ Unspoken(2) /\ UNCHANGED <<part, vars>>
  \/ part = "turns" /\ Next /\ UNCHANGED <<part, voices>>

(* What stands still is owed nothing: no step that fairness is about can   *)
(* be taken in its initial states.                                         *)
MCSpec == MCInit /\ [][MCNext]_<<part, vars, voices>> /\ Fairness
=============================================================================
