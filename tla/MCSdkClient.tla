----------------------------- MODULE MCSdkClient -----------------------------
(* Small instances of SdkClient for TLC.                                    *)
EXTENDS SdkClient, TLC

(* Calls in progress are interchangeable, and so are scopes.                *)
Symmetry == Permutations(Calls) \cup Permutations(Scopes)
=============================================================================
