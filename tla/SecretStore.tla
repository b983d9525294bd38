---------------------------- MODULE SecretStore ----------------------------
(***************************************************************************)
(* The secret store of the API: the tables secrets and secret_versions,    *)
(* and the HTTP requests that create, update, roll back, delete and reveal *)
(* secrets.                                                                *)
(*                                                                         *)
(* Every request runs in one database transaction (get_db commits when the *)
(* handler returns and rolls back when it raises).  The database is        *)
(* PostgreSQL at READ COMMITTED: a SELECT sees what is committed when it   *)
(* runs, an UPDATE waits for the row lock of another uncommitted writer,   *)
(* and an INSERT that violates a unique constraint aborts.  Handlers of    *)
(* concurrent requests interleave at every statement they await, so each   *)
(* statement is a step here; the writes of a request become visible to     *)
(* the others at its commit.                                               *)
(*                                                                         *)
(* A request is used once: Requests bounds how many a run executes.        *)
(*                                                                         *)
(* A definition whose name ends in _Broken... is no part of the model: it  *)
(* is a defect put in place of the definition that follows it, to see that *)
(* the properties notice.                                                  *)
(***************************************************************************)
EXTENDS Naturals

CONSTANTS
    Requests,   \* the HTTP requests of a behaviour
    Secrets,    \* identities (uuid4) a secret can get
    Keys,       \* names of secrets in one (project, environment) scope
    Values,     \* plaintexts; what encryption does to them is in no property
    Seeded,     \* secrets created before the behaviour starts
    Null        \* no secret, no key, no value

ASSUME NullAssumption   == Null \notin Secrets \cup Keys \cup Values
ASSUME SeededAssumption == Seeded \subseteq Secrets

VARIABLES
    key,                  \* secrets.key; Null where there is no row
    is_deleted,           \* secrets.is_deleted
    current_version_num,  \* secrets.current_version_num; 0 where there is no row
    versions,             \* the rows of secret_versions
    pc,                   \* how far each request is
    tx                    \* what each request has read and is going to write

tables == <<key, is_deleted, current_version_num, versions>>
vars   == <<tables, pc, tx>>

-----------------------------------------------------------------------------
(* Types *)

(* restored is the version a rollback copied, 0 for "create" and "update"  *)
Version == [secret : Secrets, version : Nat, value : Values, restored : Nat]

Ops == {"create", "update", "rollback", "delete", "reveal"}

(* A request that is none of "idle", "ok", "failed" is in flight.          *)
InFlight == {"loaded", "selected", "flushed"}
Answered == {"ok", "failed"}

(* seen:   current_version_num as the ORM instance of the request holds it *)
(* target: the version a rollback asks for; for a reveal, versions[0] of   *)
(*         the instance                                                    *)
Transaction == [op     : Ops \cup {"none"},
                secret : Secrets \cup {Null},
                key    : Keys \cup {Null},
                value  : Values \cup {Null},
                seen   : Nat,
                target : Nat]

NoTransaction == [op |-> "none", secret |-> Null, key |-> Null,
                  value |-> Null, seen |-> 0, target |-> 0]

-----------------------------------------------------------------------------
(* What a statement sees *)

Exists(s) == current_version_num[s] > 0
Live(s)   == Exists(s) /\ ~is_deleted[s]

(* The duplicate check of create_secret and the lookup by key.             *)
LiveNamed(k) == {s \in Secrets : Live(s) /\ key[s] = k}

VersionsOf(s)    == {ver \in versions : ver.secret = s}
HasVersion(s, n) == \E ver \in VersionsOf(s) : ver.version = n
ValueOf(s, n)    == (CHOOSE ver \in VersionsOf(s) : ver.version = n).value

(* The head of Secret.versions, ordered by desc(version); 0 when empty.    *)
HeadOf(s) == {n \in {0} \cup {ver.version : ver \in VersionsOf(s)} :
                \A ver \in VersionsOf(s) : ver.version <= n}

(* The uncommitted UPDATE of a request holds the lock of its secrets row.  *)
HoldsLock_BrokenNever(r) == FALSE

HoldsLock_BrokenKept(r) ==
    pc[r] \in {"flushed", "ok"} /\ tx[r].op \in {"update", "rollback", "delete"}

HoldsLock(r) == pc[r] = "flushed" /\ tx[r].op \in {"update", "rollback", "delete"}

RowLocked(s) == \E q \in Requests : HoldsLock(q) /\ tx[q].secret = s

NextVersion(r) == tx[r].seen + 1

NewVersion(r) == [secret   |-> tx[r].secret,
                  version  |-> NextVersion(r),
                  value    |-> tx[r].value,
                  restored |-> IF tx[r].op = "rollback" THEN tx[r].target ELSE 0]

-----------------------------------------------------------------------------
Init ==
    /\ \E k \in [Seeded -> Keys], v \in [Seeded -> Values] :
         /\ \A s, t \in Seeded : k[s] = k[t] => s = t
         /\ key = [s \in Secrets |-> IF s \in Seeded THEN k[s] ELSE Null]
         /\ versions = {[secret |-> s, version |-> 1, value |-> v[s], restored |-> 0]
                          : s \in Seeded}
    /\ is_deleted = [s \in Secrets |-> FALSE]
    /\ current_version_num = [s \in Secrets |-> IF s \in Seeded THEN 1 ELSE 0]
    /\ pc = [r \in Requests |-> "idle"]
    /\ tx = [r \in Requests |-> NoTransaction]

Goto(r, label) == pc' = [pc EXCEPT ![r] = label]

-----------------------------------------------------------------------------
(* POST /secrets *)

(* create_secret up to the encryption of version 1: a live secret of that  *)
(* name is a 409, two of them make scalar_one_or_none raise.  The identity *)
(* s is the uuid4 the ORM will give to the row: nobody else has it.        *)
BeginCreate(r, s, k, v) ==
    /\ pc[r] = "idle"
    /\ ~Exists(s)
    /\ \A q \in Requests : tx[q].secret # s
    /\ tx' = [tx EXCEPT ![r] = [op |-> "create", secret |-> s, key |-> k,
                                value |-> v, seen |-> 0, target |-> 0]]
    /\ Goto(r, IF LiveNamed(k) = {} THEN "selected" ELSE "failed")
    /\ UNCHANGED tables

(* The two flushes of create_secret.  uq_secret_scope_key includes         *)
(* folder_id, which create_secret leaves NULL, and NULLs are distinct in a *)
(* unique constraint: neither INSERT can conflict or wait.                 *)
FlushCreate(r) ==
    /\ pc[r] = "selected"
    /\ tx[r].op = "create"
    /\ Goto(r, "flushed")
    /\ UNCHANGED <<tables, tx>>

CommitCreate(r) ==
    /\ pc[r] = "flushed"
    /\ tx[r].op = "create"
    /\ key' = [key EXCEPT ![tx[r].secret] = tx[r].key]
    /\ current_version_num' = [current_version_num EXCEPT ![tx[r].secret] = NextVersion(r)]
    /\ versions' = versions \cup {NewVersion(r)}
    /\ Goto(r, "ok")
    /\ UNCHANGED <<is_deleted, tx>>

-----------------------------------------------------------------------------
(* PUT /secrets/{id}, POST /secrets/{id}/rollback, DELETE /secrets/{id},   *)
(* GET /secrets/{id}/reveal                                                *)

(* get_owned_secret: the row enters the identity map of the session, and   *)
(* with it the current_version_num the request will use.                   *)
Load(r, op, s, v, n) ==
    /\ pc[r] = "idle"
    /\ Exists(s)
    /\ tx' = [tx EXCEPT ![r] = [op |-> op, secret |-> s, key |-> key[s],
                                value |-> v, seen |-> current_version_num[s],
                                target |-> n]]
    /\ Goto(r, IF is_deleted[s] THEN "failed"
               ELSE IF op = "delete" THEN "selected" ELSE "loaded")
    /\ UNCHANGED tables

(* LoadReveal also stands for GET /secrets/value, which finds the one live *)
(* secret of a name and reveals it; with two of them it raises.            *)
LoadUpdate(r, s, v)   == Load(r, "update", s, v, 0)
LoadRollback(r, s, n) == Load(r, "rollback", s, Null, n)
LoadDelete(r, s)      == Load(r, "delete", s, Null, 0)
LoadReveal(r, s)      == Load(r, "reveal", s, Null, 0)

(* The service selects the secret again: its WHERE sees a deletion         *)
(* committed since, the versions it loads are the ones of now, but the     *)
(* instance keeps the current_version_num of the first read.               *)
ReselectUpdate(r) ==
    /\ pc[r] = "loaded"
    /\ tx[r].op = "update"
    /\ Goto(r, IF is_deleted[tx[r].secret] THEN "failed" ELSE "selected")
    /\ UNCHANGED <<tables, tx>>

ReselectRollback_BrokenHead(r) ==
    /\ pc[r] = "loaded"
    /\ tx[r].op = "rollback"
    /\ tx' = [tx EXCEPT ![r].value = ValueOf(tx[r].secret, current_version_num[tx[r].secret])]
    /\ Goto(r, "selected")
    /\ UNCHANGED tables

(* rollback_secret finds and decrypts the target version as well.          *)
ReselectRollback(r) ==
    /\ pc[r] = "loaded"
    /\ tx[r].op = "rollback"
    /\ LET s == tx[r].secret
           n == tx[r].target
       IN  \/ /\ ~is_deleted[s] /\ HasVersion(s, n)
              /\ tx' = [tx EXCEPT ![r].value = ValueOf(s, n)]
              /\ Goto(r, "selected")
           \/ /\ is_deleted[s] \/ ~HasVersion(s, n)
              /\ Goto(r, "failed")
              /\ UNCHANGED tx
    /\ UNCHANGED tables

ReselectReveal(r) ==
    /\ pc[r] = "loaded"
    /\ tx[r].op = "reveal"
    /\ \/ /\ ~is_deleted[tx[r].secret]
          /\ \E n \in HeadOf(tx[r].secret) : tx' = [tx EXCEPT ![r].target = n]
          /\ Goto(r, "selected")
       \/ /\ is_deleted[tx[r].secret]
          /\ Goto(r, "failed")
          /\ UNCHANGED tx
    /\ UNCHANGED tables

FetchHead_BrokenNumber(r) ==
    /\ pc[r] = "selected"
    /\ tx[r].op = "reveal"
    /\ tx' = [tx EXCEPT ![r].value = tx[r].seen]
    /\ Goto(r, "flushed")
    /\ UNCHANGED tables

FetchHead_BrokenOldest(r) ==
    /\ pc[r] = "selected"
    /\ tx[r].op = "reveal"
    /\ tx' = [tx EXCEPT ![r].value = ValueOf(tx[r].secret, 1)]
    /\ Goto(r, "flushed")
    /\ UNCHANGED tables

(* reveal_secret decrypts the version current_version_num names, or the    *)
(* head of the versions it loaded when there is none.                      *)
FetchHead(r) ==
    /\ pc[r] = "selected"
    /\ tx[r].op = "reveal"
    /\ LET s == tx[r].secret
           n == IF HasVersion(s, tx[r].seen) THEN tx[r].seen ELSE tx[r].target
       IN  \/ /\ n > 0
              /\ tx' = [tx EXCEPT ![r].value = ValueOf(s, n)]
              /\ Goto(r, "flushed")
           \/ /\ n = 0
              /\ Goto(r, "failed")
              /\ UNCHANGED tx
    /\ UNCHANGED tables

FlushVersion_BrokenUnchecked(r) ==
    /\ pc[r] = "selected"
    /\ tx[r].op \in {"update", "rollback"}
    /\ ~RowLocked(tx[r].secret)
    /\ Goto(r, "flushed")
    /\ UNCHANGED <<tables, tx>>

(* The flush of update_secret and rollback_secret: UPDATE secrets takes    *)
(* the row lock, then INSERT INTO secret_versions meets uq_secret_version. *)
FlushVersion(r) ==
    /\ pc[r] = "selected"
    /\ tx[r].op \in {"update", "rollback"}
    /\ ~RowLocked(tx[r].secret)
    /\ Goto(r, IF HasVersion(tx[r].secret, NextVersion(r)) THEN "failed" ELSE "flushed")
    /\ UNCHANGED <<tables, tx>>

CommitVersion_BrokenWholeRow(r) ==
    /\ pc[r] = "flushed"
    /\ tx[r].op \in {"update", "rollback"}
    /\ current_version_num' = [current_version_num EXCEPT ![tx[r].secret] = NextVersion(r)]
    /\ versions' = versions \cup {NewVersion(r)}
    /\ is_deleted' = [is_deleted EXCEPT ![tx[r].secret] = FALSE]
    /\ Goto(r, "ok")
    /\ UNCHANGED <<key, tx>>

CommitVersion(r) ==
    /\ pc[r] = "flushed"
    /\ tx[r].op \in {"update", "rollback"}
    /\ current_version_num' = [current_version_num EXCEPT ![tx[r].secret] = NextVersion(r)]
    /\ versions' = versions \cup {NewVersion(r)}
    /\ Goto(r, "ok")
    /\ UNCHANGED <<key, is_deleted, tx>>

(* The ORM writes the changed columns only: is_deleted.                    *)
FlushDelete(r) ==
    /\ pc[r] = "selected"
    /\ tx[r].op = "delete"
    /\ ~RowLocked(tx[r].secret)
    /\ Goto(r, "flushed")
    /\ UNCHANGED <<tables, tx>>

CommitDelete(r) ==
    /\ pc[r] = "flushed"
    /\ tx[r].op = "delete"
    /\ is_deleted' = [is_deleted EXCEPT ![tx[r].secret] = TRUE]
    /\ Goto(r, "ok")
    /\ UNCHANGED <<key, current_version_num, versions, tx>>

CommitReveal(r) ==
    /\ pc[r] = "flushed"
    /\ tx[r].op = "reveal"
    /\ Goto(r, "ok")
    /\ UNCHANGED <<tables, tx>>

-----------------------------------------------------------------------------
(* An exception in the handler, a lost database connection or a crash of   *)
(* the API process before the commit: the transaction is rolled back.      *)
Abort(r) ==
    /\ pc[r] \in InFlight
    /\ Goto(r, "failed")
    /\ UNCHANGED <<tables, tx>>

(* What a request that has started goes on to do.                          *)
Advance(r) ==
    \/ FlushCreate(r)
    \/ CommitCreate(r)
    \/ ReselectUpdate(r)
    \/ ReselectRollback(r)
    \/ ReselectReveal(r)
    \/ FetchHead(r)
    \/ FlushVersion(r)
    \/ CommitVersion(r)
    \/ FlushDelete(r)
    \/ CommitDelete(r)
    \/ CommitReveal(r)

Start(r) ==
    \E s \in Secrets :
        \/ \E k \in Keys, v \in Values : BeginCreate(r, s, k, v)
        \/ \E v \in Values : LoadUpdate(r, s, v)
        \/ \E n \in 1..current_version_num[s] + 1 : LoadRollback(r, s, n)
        \/ LoadDelete(r, s)
        \/ LoadReveal(r, s)

Next == \E r \in Requests : Start(r) \/ Advance(r) \/ Abort(r)

Spec == Init /\ [][Next]_vars

(* The event loop resumes a handler whenever its statement has returned,   *)
(* and the database grants a row lock when its holder ends; whether a      *)
(* request arrives, and whether it fails, is up to the environment.        *)
FairSpec == Spec /\ \A r \in Requests : WF_vars(Advance(r))

-----------------------------------------------------------------------------
(* The types of the tables and of the requests' transactions.              *)
TypeOK ==
    /\ key \in [Secrets -> Keys \cup {Null}]
    /\ is_deleted \in [Secrets -> BOOLEAN]
    /\ current_version_num \in [Secrets -> Nat]
    /\ versions \subseteq Version
    /\ pc \in [Requests -> {"idle"} \cup InFlight \cup Answered]
    /\ tx \in [Requests -> Transaction]

(* The history of a secret has no gap and no fork: its versions are        *)
(* numbered 1..current_version_num, one row each, whichever updates and    *)
(* rollbacks overlapped (uq_secret_version and the row lock of             *)
(* update_secret and rollback_secret; docs/ARCHITECTURE.md calls every     *)
(* write an immutable version record).                                     *)
OneRowPerVersion ==
    \A v1, v2 \in versions :
        v1.secret = v2.secret /\ v1.version = v2.version => v1 = v2

NumberedToHead ==
    /\ \A ver \in versions : ver.version \in 1..current_version_num[ver.secret]
    /\ \A s \in Secrets : \A n \in 1..current_version_num[s] : HasVersion(s, n)

HistoryIntact == OneRowPerVersion /\ NumberedToHead

(* No acknowledged write is lost or shared: a create, update or rollback   *)
(* that was answered with success stands in the history as the version the *)
(* response named, and no two of them were answered with the same version, *)
(* although each computed its number from a read made before its lock.     *)
Writes == {"create", "update", "rollback"}

NoAcknowledgedWriteLost ==
    \A r \in Requests : pc[r] = "ok" /\ tx[r].op \in Writes =>
        /\ NewVersion(r) \in versions
        /\ \A q \in Requests \ {r} :
              pc[q] = "ok" /\ tx[q].op \in Writes => NewVersion(q) # NewVersion(r)

(* A rollback restores: the head it appends carries the plaintext of the   *)
(* version it names, an older one, whatever was committed between the read *)
(* of the target and the append (rollback_secret).                         *)
RollbackRestores ==
    \A ver \in versions : ver.restored > 0 =>
        \E old \in VersionsOf(ver.secret) :
            /\ old.version = ver.restored
            /\ old.version < ver.version
            /\ old.value = ver.value

(* A reveal answers with the number current_version_num and with a value:  *)
(* the value is the one that version holds, so the fallback to versions[0] *)
(* in reveal_secret never answers for it.                                  *)
RevealAnswersItsVersion ==
    \A r \in Requests : pc[r] \in {"flushed", "ok"} /\ tx[r].op = "reveal" =>
        \E ver \in VersionsOf(tx[r].secret) :
            ver.version = tx[r].seen /\ ver.value = tx[r].value

(* A secret whose deletion was acknowledged stays deleted, also when an    *)
(* update that read it live commits afterwards.                            *)
DeletionSticks ==
    \A r \in Requests : pc[r] = "ok" /\ tx[r].op = "delete" => is_deleted[tx[r].secret]

(* At most one live secret has a given name in its scope: what the         *)
(* duplicate check of create_secret answers 409 for and uq_secret_scope_key*)
(* is named after.  Two creates that overlap break it.                     *)
UniqueLiveKey ==
    \A s, t \in Secrets : Live(s) /\ Live(t) /\ key[s] = key[t] => s = t

(* Every request that starts is answered: no two requests wait for each    *)
(* other's row lock, and a lock is released by the end of its transaction. *)
EveryRequestAnswered ==
    \A r \in Requests : pc[r] \in InFlight ~> pc[r] \in Answered

-----------------------------------------------------------------------------
(* Why the history stays intact, as an inductive invariant.  A request     *)
(* carries current_version_num from its first read (ReadsRow), which other *)
(* requests may overtake; what makes its append safe is that between its   *)
(* flush and its commit nobody else writes the row (LockExclusive) and     *)
(* that the number it read is still the head (HoldsHead).                  *)
Started(r) ==
    pc[r] # "idle" => /\ tx[r].op \in Ops
                      /\ tx[r].secret \in Secrets
                      /\ tx[r].op = "update" => tx[r].value \in Values

(* A create in flight owns an identity nobody else has.                    *)
Fresh(r) ==
    tx[r].op = "create" /\ pc[r] \in InFlight =>
        /\ pc[r] # "loaded"
        /\ tx[r].seen = 0
        /\ tx[r].key \in Keys
        /\ tx[r].value \in Values
        /\ ~Exists(tx[r].secret)
        /\ \A q \in Requests \ {r} : tx[q].secret # tx[r].secret

ReadsRow(r) ==
    pc[r] # "idle" /\ tx[r].op # "create" =>
        tx[r].seen \in 1..current_version_num[tx[r].secret]

Copied(r) ==
    tx[r].op = "rollback" /\ pc[r] \in {"selected", "flushed"} =>
        \E old \in VersionsOf(tx[r].secret) :
            old.version = tx[r].target /\ old.value = tx[r].value

HoldsHead(r) ==
    tx[r].op \in {"update", "rollback"} /\ pc[r] = "flushed" =>
        current_version_num[tx[r].secret] = tx[r].seen

LockExclusive(r) ==
    HoldsLock(r) =>
        \A q \in Requests \ {r} : HoldsLock(q) => tx[q].secret # tx[r].secret

RequestInv(r) == /\ Started(r)
                 /\ Fresh(r)
                 /\ ReadsRow(r)
                 /\ Copied(r)
                 /\ HoldsHead(r)
                 /\ LockExclusive(r)

IInv == /\ TypeOK
        /\ HistoryIntact
        /\ \A r \in Requests : RequestInv(r)

-----------------------------------------------------------------------------
(* The store as a client sees it: per secret a sequence of values that     *)
(* only grows, and a mark when it is deleted.                              *)
Abstract == INSTANCE VersionedSecrets WITH
    history <- [s \in Secrets |-> [n \in 1..current_version_num[s] |-> ValueOf(s, n)]],
    deleted <- {s \in Secrets : is_deleted[s]}

(* The detailed store implements the abstract one.                         *)
ImplementsVersionedSecrets == Abstract!Spec
=============================================================================
