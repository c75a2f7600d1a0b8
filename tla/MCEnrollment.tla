---------------------------- MODULE MCEnrollment ----------------------------
(***************************************************************************)
(* Small instances of EnrollmentAndSamples.  Every behaviour is of the     *)
(* sessions or of the samples, the others standing still, so a run costs   *)
(* their sum and not their product.                                        *)
(*                                                                         *)
(* The streams of audio and the calls of the Admin are named after what    *)
(* there is two of in Enrollment: a permutation may then exchange all of   *)
(* them.  One is stored, or identified, while the other, stored before, is *)
(* deleted by either call; beside them the first user has a sample of an   *)
(* earlier enrollment, so that a voice is compared with two profiles.      *)
(***************************************************************************)
EXTENDS EnrollmentAndSamples, TLC

VARIABLE part

OneSetting == {[threshold |-> 1, margin |-> 1]}

(* Users, sessions and recordings are interchangeable.                     *)
Symmetry == Permutations(Users) \cup Permutations(Sessions) \cup Permutations(Captures)

MCInit ==
  /\ part \in {"sessions", "samples"} /\ Init /\ Store!Init
  /\ \A s \in OldSamples : owner[s] = 1

MCNext ==
  \/ part = "sessions" /\ Next /\ UNCHANGED <<part, store>>
  \/ part = "samples" /\ Store!Next /\ UNCHANGED <<part, vars>>

MCSpec == MCInit /\ [][MCNext]_<<part, vars, store>>

(* The sessions alone.                                                     *)
SessionsSpec == MCInit /\ part = "sessions" /\ [][MCNext]_<<part, vars, store>>
=============================================================================
