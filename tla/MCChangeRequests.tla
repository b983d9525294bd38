-------------------------- MODULE MCChangeRequests --------------------------
(* Small instances of ChangeRequests for TLC.                              *)
EXTENDS ChangeRequests, TLC

(* The calls are interchangeable, and so are the users; the requests to    *)
(* the secret endpoints are too, but a run has one of them at most.        *)
Symmetry == Permutations(Calls) \cup Permutations(Users) \cup Permutations(Values)
=============================================================================
