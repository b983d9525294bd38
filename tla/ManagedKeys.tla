----------------------------- MODULE ManagedKeys -----------------------------
(***************************************************************************)
(* The managed keys of the KMS API (kms_service.py): keys whose material   *)
(* is rotated while requests encrypt, decrypt, sign and verify with them,  *)
(* until they are disabled.                                                *)
(*                                                                         *)
(* A request is one transaction, used once.  get_owned_kms_key reads the   *)
(* row; the service's db.get meets the same instance in the session and    *)
(* reads nothing, so all that a request does depends on that one read.     *)
(* The material a request generates is called after the request, and that  *)
(* of a key that was there before after the key, for no two are equal.     *)
(* Encryption and signing differ in the algorithm and the usage they need  *)
(* and are both "seal", decryption and verification are both "open"; what  *)
(* usages a key permits never changes.                                     *)
(*                                                                         *)
(* sealed is history: what clients were given and may present again.  A    *)
(* definition whose name contains _Broken is a defect put in place of the  *)
(* one that follows it, to see that the properties notice.                 *)
(***************************************************************************)
EXTENDS Naturals

CONSTANTS Keys, Requests

VARIABLES
    current,      \* managed_keys: per key, its current version
    disabled,     \* the keys whose status is "disabled"
    versions,     \* managed_key_versions
    op, step,     \* what each request does, and how far it is
    seen,         \* the current version it read, as a set of at most one
    wanted,       \* what it is asked to open, likewise
    named,        \* the requests that say which version that was sealed with
    sealed

tables == <<current, disabled, versions>>
vars   == <<tables, op, step, seen, wanted, named, sealed>>

(* A version of a key: a row, what a request has read of one, or what a    *)
(* ciphertext or a signature was made with.                                *)
Version == [key : Keys, version : Nat \ {0}, material : Requests \cup Keys]

Ops == {"create", "rotate", "seal", "open", "disable"}

Steps == {"idle", "read", "flushed", "ok", "failed", "wrong"}

InFlight == {"read", "flushed"}

Of(V, k) == {v \in V : v.key = k}

(* What rotate_key makes of the version it has read.                       *)
NextVersion(r, v) == [key |-> v.key, version |-> v.version + 1, material |-> r]

Init ==
    /\ \E before \in SUBSET Keys :
          current = {[key |-> k, version |-> 1, material |-> k] : k \in before}
    /\ disabled = {}
    /\ versions = current
    /\ op = [r \in Requests |-> "none"]
    /\ step = [r \in Requests |-> "idle"]
    /\ seen = [r \in Requests |-> {}]
    /\ wanted = [r \in Requests |-> {}]
    /\ named = {}
    /\ sealed = {}

Goto(r, label) ==
    /\ step' = [step EXCEPT ![r] = label]
    /\ UNCHANGED <<op, seen, wanted, named>>

(* Nothing of a request is left but its outcome.                           *)
End(r, outcome) ==
    /\ step' = [step EXCEPT ![r] = outcome]
    /\ op' = [op EXCEPT ![r] = "none"]
    /\ seen' = [seen EXCEPT ![r] = {}]
    /\ wanted' = [wanted EXCEPT ![r] = {}]
    /\ named' = IF outcome = "wrong" THEN named ELSE named \ {r}

Begin(r, what, V, label) ==
    /\ step[r] = "idle"
    /\ op' = [op EXCEPT ![r] = what]
    /\ seen' = [seen EXCEPT ![r] = V]
    /\ step' = [step EXCEPT ![r] = label]
    /\ UNCHANGED <<tables, sealed>>

-----------------------------------------------------------------------------
(* create_key up to its commit: the uuid4 of its row is nobody else's.     *)
Create(r, k) ==
    /\ Of(current, k) = {}
    /\ \A q \in Requests : Of(seen[q], k) = {}
    /\ Begin(r, "create", {[key |-> k, version |-> 1, material |-> r]}, "flushed")
    /\ UNCHANGED <<wanted, named>>

(* get_owned_kms_key and the check of the status.  What is refused, or     *)
(* disables a disabled key, changes nothing and is left out.               *)
Read(r, what, k) ==
    /\ k \notin disabled /\ Of(current, k) # {}
    /\ Begin(r, what, Of(current, k), "read")

ReadToChange(r, k) ==
    /\ \E what \in {"rotate", "seal", "disable"} : Read(r, what, k)
    /\ UNCHANGED <<wanted, named>>

(* A client presents what it was given, with its version or without.       *)
ReadToOpen(r, c, withVersion) ==
    /\ Read(r, "open", c.key)
    /\ wanted' = [wanted EXCEPT ![r] = {c}]
    /\ named' = IF withVersion THEN named \cup {r} ELSE named

-----------------------------------------------------------------------------
(* The uncommitted UPDATE of a request holds the lock of its row.          *)
HoldsLock(r, k) ==
    step[r] = "flushed" /\ op[r] \in {"rotate", "disable"} /\ Of(seen[r], k) # {}

RowFree(k) == \A q \in Requests : ~HoldsLock(q, k)

FlushRotate_BrokenNotUnique(r) ==
    /\ step[r] = "read" /\ op[r] = "rotate"
    /\ \A v \in seen[r] : RowFree(v.key)
    /\ Goto(r, "flushed")
    /\ UNCHANGED <<tables, sealed>>

(* The flush of rotate_key waits for the row; uq_managed_key_version then  *)
(* refuses a version that another rotation has made meanwhile.             *)
FlushRotate(r) ==
    /\ step[r] = "read" /\ op[r] = "rotate"
    /\ \A v \in seen[r] : RowFree(v.key)
    /\ IF \E v \in seen[r], w \in versions : w.key = v.key /\ w.version = v.version + 1
       THEN End(r, "failed")
       ELSE Goto(r, "flushed")
    /\ UNCHANGED <<tables, sealed>>

FlushDisable(r) ==
    /\ step[r] = "read" /\ op[r] = "disable"
    /\ \A v \in seen[r] : RowFree(v.key)
    /\ Goto(r, "flushed")
    /\ UNCHANGED <<tables, sealed>>

CommitCreate(r) ==
    /\ step[r] = "flushed" /\ op[r] = "create"
    /\ current' = current \cup seen[r]
    /\ versions' = versions \cup seen[r]
    /\ End(r, "ok")
    /\ UNCHANGED <<disabled, sealed>>

(* The UPDATE writes version and material, and leaves the status alone.    *)
CommitRotate(r) ==
    /\ step[r] = "flushed" /\ op[r] = "rotate"
    /\ \E v \in seen[r] :
          /\ current' = (current \ Of(current, v.key)) \cup {NextVersion(r, v)}
          /\ versions' = versions \cup {NextVersion(r, v)}
    /\ End(r, "ok")
    /\ UNCHANGED <<disabled, sealed>>

CommitDisable(r) ==
    /\ step[r] = "flushed" /\ op[r] = "disable"
    /\ disabled' = disabled \cup {v.key : v \in seen[r]}
    /\ End(r, "ok")
    /\ UNCHANGED <<current, versions, sealed>>

(* encrypt and sign: with the version that was read, whatever it is now.   *)
Seal(r) ==
    /\ step[r] = "read" /\ op[r] = "seal"
    /\ sealed' = sealed \cup seen[r]
    /\ End(r, "ok")
    /\ UNCHANGED tables

(* _get_key_material_for_version: of the row that was read, when it has    *)
(* the version or none is asked for, else of the table of versions now.    *)
Found(r, v, c) ==
    IF r \notin named \/ c.version = v.version
    THEN {v.material}
    ELSE {w.material : w \in {u \in Of(versions, v.key) : u.version = c.version}}

(* decrypt and verify succeed with the material that sealed; with another, *)
(* with two of that version or with none, the client is told so.           *)
Open(r) ==
    /\ step[r] = "read" /\ op[r] = "open"
    /\ \E v \in seen[r], c \in wanted[r] :
          End(r, IF Found(r, v, c) = {c.material} THEN "ok" ELSE "wrong")
    /\ UNCHANGED <<tables, sealed>>

(* An exception, a lost connection or a crash before the commit.           *)
Abort(r) ==
    /\ step[r] \in InFlight
    /\ End(r, "failed")
    /\ UNCHANGED <<tables, sealed>>

Next ==
    \E r \in Requests :
        \/ \E k \in Keys : Create(r, k) \/ ReadToChange(r, k)
        \/ \E c \in sealed, withVersion \in BOOLEAN : ReadToOpen(r, c, withVersion)
        \/ FlushRotate(r) \/ FlushDisable(r)
        \/ CommitCreate(r) \/ CommitRotate(r) \/ CommitDisable(r)
        \/ Seal(r) \/ Open(r) \/ Abort(r)

Spec == Init /\ [][Next]_vars

-----------------------------------------------------------------------------
(* The types of the state.                                                 *)
TypeOK ==
    /\ current \subseteq Version /\ versions \subseteq Version /\ sealed \subseteq Version
    /\ disabled \subseteq Keys
    /\ op \in [Requests -> Ops \cup {"none"}]
    /\ step \in [Requests -> Steps]
    /\ seen \in [Requests -> SUBSET Version]
    /\ wanted \in [Requests -> SUBSET Version]
    /\ named \subseteq Requests

(* Whatever a client was given is opened when it names the version it was  *)
(* given with, however rotations overlapped with sealing, with opening and *)
(* with each other.                                                        *)
EveryCiphertextOpens == \A r \in Requests : step[r] = "wrong" => r \notin named
=============================================================================
