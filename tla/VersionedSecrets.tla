-------------------------- MODULE VersionedSecrets --------------------------
(***************************************************************************)
(* What the secret store promises: each secret is an append-only sequence  *)
(* of values.  A write appends one value at the end, in one step; nothing  *)
(* overwrites or removes a value; a deletion hides a secret for good and   *)
(* keeps its history.  A write that read the secret before it was deleted  *)
(* may still append to it.                                                 *)
(***************************************************************************)
EXTENDS Naturals, Sequences

CONSTANTS Secrets, Values

VARIABLES
    history,  \* [Secrets -> Seq(Values)], <<>> for a secret never created
    deleted   \* the secrets that were deleted

Init ==
    /\ history \in [Secrets -> {<<>>} \cup {<<v>> : v \in Values}]
    /\ deleted = {}

(* The first value creates the secret.                                     *)
Write(s, v) ==
    /\ history' = [history EXCEPT ![s] = Append(@, v)]
    /\ UNCHANGED deleted

Delete(s) ==
    /\ history[s] # <<>>
    /\ deleted' = deleted \cup {s}
    /\ UNCHANGED history

Next == \E s \in Secrets : Delete(s) \/ \E v \in Values : Write(s, v)

Spec == Init /\ [][Next]_<<history, deleted>>
=============================================================================
