--------------------------- MODULE MCSecretStore ---------------------------
(* Small instances of SecretStore for TLC.                                 *)
EXTENDS SecretStore, TLC

(* Requests, names and values are only compared for equality, so a run may *)
(* permute each of them; secrets are not, one is seeded and the other not. *)
Symmetry == Permutations(Requests) \cup Permutations(Keys) \cup Permutations(Values)
=============================================================================
