------------------------ MODULE MCRequestLifecycle ------------------------
(* Small instances of RequestLifecycle for TLC.                            *)
EXTENDS RequestLifecycleLedger, TLC

CONSTANTS t1, t2, t3, r1, r2, s1, s2, u1, kitchen

(* Every session below belongs to one speaker.                             *)
OneSource == [s \in Sessions |-> kitchen]

(* One request id that two sessions claim, and a second one of the first.  *)
TwoClaimOne == {<<r1, s1>>, <<r1, s2>>, <<r2, s1>>}

Symmetry == Permutations(Turns) \cup Permutations(Users)
=============================================================================
