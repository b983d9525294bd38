--------------------------- MODULE ChangeRequests ---------------------------
(***************************************************************************)
(* Change requests: proposed changes of a secret that a second person has  *)
(* to approve before they are applied to the secret store.                 *)
(*                                                                         *)
(* Review, apply and cancel each read the row, check its status in memory, *)
(* write it and commit.  The UPDATE names the row by its id alone, so the  *)
(* status it replaces need not be the one that was checked.  apply works   *)
(* on the secret store inside the same transaction: its steps are those of *)
(* SecretStore, for the request r that makes the call, and the two tables  *)
(* commit together.                                                        *)
(*                                                                         *)
(* The requests in Calls go to the change-request endpoints, the others to *)
(* the secret endpoints; the sets bound how many of each a run executes.   *)
(* A definition whose name contains _Broken is a defect put in place of    *)
(* the one that follows it, to see that the properties notice.             *)
(***************************************************************************)
EXTENDS Naturals

CONSTANTS
    Requests, Secrets, Keys, Values, Seeded, Null,  \* as in SecretStore
    Calls,      \* the requests that review, apply or cancel
    Changes,    \* identities a change request can get
    Users       \* who may make such calls, in one organization

ASSUME StoreAssumption == Null \notin Secrets \cup Keys \cup Values /\ Seeded \subseteq Secrets
ASSUME CallsAssumption == Calls \subseteq Requests
ASSUME NobodyAssumption == Null \notin Users

VARIABLES
    key, is_deleted, current_version_num, versions, pc, tx,  \* of SecretStore
    cr,         \* the rows of secret_change_requests
    call,       \* what each request in Calls has read, and how far it is
    trail,      \* the audit events secret.change_request_* that are committed
    contended   \* changes on which two calls have overlapped

storeVars == <<key, is_deleted, current_version_num, versions, pc, tx>>
vars == <<storeVars, cr, call, trail, contended>>

Store == INSTANCE SecretStore

-----------------------------------------------------------------------------
ChangeTypes == {"create", "update", "delete", "rollback"}
Statuses    == {"pending", "approved", "rejected", "applied", "cancelled"}

Row == [status         : Statuses \cup {"none"},
        change_type    : ChangeTypes,
        secret_id      : Secrets \cup {Null},
        proposed_key   : Keys \cup {Null},
        proposed_value : Values \cup {Null},
        requester_id   : Users \cup {Null},
        reviewer_id    : Users \cup {Null}]

NoRow == [status |-> "none", change_type |-> "update", secret_id |-> Null,
          proposed_key |-> Null, proposed_value |-> Null,
          requester_id |-> Null, reviewer_id |-> Null]

(* action is the status the call is going to write.  actor is kept for     *)
(* reviews; who applies or cancels is never compared with anybody.         *)
Call == [action : Statuses \cup {"none"},
         change : Changes \cup {Null},
         actor  : Users \cup {Null},
         step   : {"idle", "read", "flushed", "ok", "failed"}]

NoCall == [action |-> "none", change |-> Null, actor |-> Null, step |-> "idle"]

Event == [request : Calls, change : Changes, action : Statuses,
          actor : Users \cup {Null}]

Init ==
    /\ Store!Init
    /\ cr = [c \in Changes |-> NoRow]
    /\ call = [r \in Calls |-> NoCall]
    /\ trail = {}
    /\ contended = {}

-----------------------------------------------------------------------------
(* create_change_request.  The secret it names must be live; one that is   *)
(* deleted before the row is committed might as well be deleted just after *)
(* it, so the check and the commit are one step.                           *)
Create(c, u, type, s, k, v) ==
    /\ cr[c].status = "none"
    /\ s # Null => Store!Live(s)
    /\ cr' = [cr EXCEPT ![c] = [status |-> "pending", change_type |-> type,
                                secret_id |-> s, proposed_key |-> k,
                                proposed_value |-> v, requester_id |-> u,
                                reviewer_id |-> Null]]
    /\ UNCHANGED <<storeVars, call, trail, contended>>

-----------------------------------------------------------------------------
(* The SELECT of a call and the checks on what it read                     *)

Active(r) == call[r].step \in {"read", "flushed"} /\ pc[r] # "failed"

Read(r, action, c, u, accepted) ==
    /\ call[r].step = "idle"
    /\ cr[c].status # "none"
    /\ call' = [call EXCEPT ![r] =
                  [action |-> action, change |-> c, actor |-> u,
                   step |-> IF accepted THEN "read" ELSE "failed"]]
    /\ contended' = contended \cup
                      {d \in {c} : \E q \in Calls : Active(q) /\ call[q].change = c}
    /\ UNCHANGED <<storeVars, cr, trail>>

ReadForReview_BrokenSelf(r, decision, c, u) ==
    Read(r, decision, c, u, cr[c].status = "pending")

ReadForReview(r, decision, c, u) ==
    Read(r, decision, c, u, cr[c].status = "pending" /\ cr[c].requester_id # u)

(* What makes apply raise before or instead of changing a secret: a value  *)
(* or a secret_id that the type needs is missing, or the type is delete,   *)
(* for which it calls a method secret_service does not have.               *)
Applicable(c) ==
    /\ cr[c].change_type # "delete"
    /\ cr[c].change_type \in {"create", "update"} => cr[c].proposed_value # Null
    /\ cr[c].change_type = "update" => cr[c].secret_id # Null

ReadForApply(r, c) ==
    Read(r, "applied", c, Null, cr[c].status = "approved" /\ Applicable(c))

ReadForCancel_BrokenApplied(r, c) == Read(r, "cancelled", c, Null, TRUE)

ReadForCancel(r, c) ==
    Read(r, "cancelled", c, Null, cr[c].status \in {"pending", "approved"})

-----------------------------------------------------------------------------
(* What apply does in the secret store before it writes its own row        *)

Applying(r, types) ==
    /\ call[r].step = "read"
    /\ call[r].action = "applied"
    /\ cr[call[r].change].change_type \in types

BeginCreate_BrokenUnchecked(r, s) ==
    /\ Applying(r, {"create"})
    /\ ~Store!Exists(s)
    /\ \A q \in Requests : tx[q].secret # s
    /\ LET row == cr[call[r].change]
       IN  tx' = [tx EXCEPT ![r] = [op |-> "create", secret |-> s, key |-> row.proposed_key,
                                    value |-> row.proposed_value, seen |-> 0, target |-> 0]]
    /\ pc' = [pc EXCEPT ![r] = "selected"]
    /\ UNCHANGED <<key, is_deleted, current_version_num, versions>>

(* create_secret up to its flushes.                                        *)
BeginCreate(r, s) ==
    /\ Applying(r, {"create"})
    /\ LET row == cr[call[r].change]
       IN  Store!BeginCreate(r, s, row.proposed_key, row.proposed_value)

(* Reading the change request loads its secret too, by a second SELECT;    *)
(* then update_secret up to its flush.  On a secret that is deleted the    *)
(* store's request fails at the first of the two SELECTs, the code's at    *)
(* the second, with nothing between them that another call could notice.   *)
LoadSecret(r) ==
    /\ Applying(r, {"update"})
    /\ LET row == cr[call[r].change]
       IN  Store!LoadUpdate(r, row.secret_id, row.proposed_value)

MutateSecret(r) ==
    /\ \/ \E s \in Secrets : BeginCreate(r, s)
       \/ LoadSecret(r)
       \/ /\ Applying(r, {"create", "update"})
          /\ \/ Store!FlushCreate(r)
             \/ Store!ReselectUpdate(r)
             \/ Store!FlushVersion(r)
    /\ UNCHANGED <<cr, call, trail, contended>>

-----------------------------------------------------------------------------
(* The flush in log_event: UPDATE secret_change_requests takes the row     *)
(* lock, or waits for it.  For apply it follows the flush of the secret;   *)
(* for the type rollback there is nothing to do in the store.              *)
RowLocked(c) == \E q \in Calls : call[q].step = "flushed" /\ call[q].change = c

FlushRow(r) ==
    /\ call[r].step = "read"
    /\ Applying(r, {"create", "update"}) => pc[r] = "flushed"
    /\ ~RowLocked(call[r].change)
    /\ call' = [call EXCEPT ![r].step = "flushed"]
    /\ UNCHANGED <<storeVars, cr, trail, contended>>

Acknowledge(r) ==
    /\ call' = [call EXCEPT ![r].step = "ok"]
    /\ trail' = trail \cup {[request |-> r, change |-> call[r].change,
                             action |-> call[r].action, actor |-> call[r].actor]}
    /\ UNCHANGED contended

CommitReview_BrokenSwapped(r) ==
    /\ call[r].step = "flushed"
    /\ call[r].action \in {"approved", "rejected"}
    /\ cr' = [cr EXCEPT ![call[r].change] =
                [@ EXCEPT !.status = call[r].actor, !.reviewer_id = call[r].action]]
    /\ Acknowledge(r)
    /\ UNCHANGED storeVars

CommitReview(r) ==
    /\ call[r].step = "flushed"
    /\ call[r].action \in {"approved", "rejected"}
    /\ cr' = [cr EXCEPT ![call[r].change] =
                [@ EXCEPT !.status = call[r].action, !.reviewer_id = call[r].actor]]
    /\ Acknowledge(r)
    /\ UNCHANGED storeVars

CommitCancel(r) ==
    /\ call[r].step = "flushed"
    /\ call[r].action = "cancelled"
    /\ cr' = [cr EXCEPT ![call[r].change].status = "cancelled"]
    /\ Acknowledge(r)
    /\ UNCHANGED storeVars

(* The one commit of apply: the secret, the row and the audit events.      *)
CommitApply_BrokenForgetsSecret(r) ==
    /\ call[r].step = "flushed"
    /\ call[r].action = "applied"
    /\ cr' = [cr EXCEPT ![call[r].change].status = "applied"]
    /\ \/ cr[call[r].change].change_type = "rollback" /\ UNCHANGED storeVars
       \/ Store!CommitVersion(r)
       \/ Store!CommitCreate(r)
    /\ Acknowledge(r)

CommitApply(r) ==
    /\ call[r].step = "flushed"
    /\ call[r].action = "applied"
    /\ LET c == call[r].change
       IN  \/ /\ cr[c].change_type = "rollback"
              /\ cr' = [cr EXCEPT ![c].status = "applied"]
              /\ UNCHANGED storeVars
           \/ /\ Store!CommitVersion(r)
              /\ cr' = [cr EXCEPT ![c].status = "applied"]
           \/ /\ Store!CommitCreate(r)
              /\ cr' = [cr EXCEPT ![c] = [@ EXCEPT !.status = "applied",
                                                   !.secret_id = tx[r].secret]]
    /\ Acknowledge(r)

(* An exception or a crash before the commit rolls back both tables.       *)
AbortCall(r) ==
    /\ Active(r)
    /\ call' = [call EXCEPT ![r].step = "failed"]
    /\ \/ Store!Abort(r)
       \/ pc[r] = "idle" /\ UNCHANGED storeVars
    /\ UNCHANGED <<cr, trail, contended>>

-----------------------------------------------------------------------------
(* Every input create_change_request accepts, save one bound: a delete or  *)
(* a rollback is proposed without a value, at which apply does not look.   *)
Submit ==
    \E c \in Changes, u \in Users, type \in ChangeTypes,
       s \in Secrets \cup {Null}, k \in Keys, v \in Values \cup {Null} :
          /\ type \in {"delete", "rollback"} => v = Null
          /\ Create(c, u, type, s, k, v)

Begin(r) ==
    \E c \in Changes :
        \/ \E decision \in {"approved", "rejected"}, u \in Users :
              ReadForReview(r, decision, c, u)
        \/ ReadForApply(r, c)
        \/ ReadForCancel(r, c)

Proceed(r) ==
    \/ MutateSecret(r)
    \/ FlushRow(r)
    \/ CommitReview(r)
    \/ CommitCancel(r)
    \/ CommitApply(r)

(* A request to the secret endpoints.                                      *)
Direct(r) ==
    /\ Store!Start(r) \/ Store!Advance(r) \/ Store!Abort(r)
    /\ UNCHANGED <<cr, call, trail, contended>>

Next ==
    \/ Submit
    \/ \E r \in Calls : Begin(r) \/ Proceed(r) \/ AbortCall(r)
    \/ \E r \in Requests \ Calls : Direct(r)

Spec == Init /\ [][Next]_vars

-----------------------------------------------------------------------------
(* The types of the rows, the calls and the audit events.                  *)
TypeOK ==
    /\ cr \in [Changes -> Row]
    /\ call \in [Calls -> Call]
    /\ trail \subseteq Event
    /\ contended \subseteq Changes

(* Four eyes: whoever applies a change, and however reviews, cancellations *)
(* and applications of it overlap, the secret store is changed on behalf   *)
(* of a change request only after somebody other than its requester has    *)
(* approved it on the record.                                              *)
Approved(c) ==
    \E e \in trail : /\ e.change = c
                     /\ e.action = "approved"
                     /\ e.actor # cr[c].requester_id

FourEyes ==
    \A r \in Calls : call[r].step = "ok" /\ call[r].action = "applied" =>
        Approved(call[r].change)

(* An applied create or update took effect: some call that applied the row *)
(* appended the version it was acknowledged with, that version is still in *)
(* the history of the secret the row names, and it holds the value that    *)
(* was approved, whatever other requests wrote to either in the meantime.  *)
AppliedTookEffect ==
    \A c \in Changes :
        cr[c].status = "applied" /\ cr[c].change_type \in {"create", "update"} =>
            \E r \in Calls :
                /\ call[r].step = "ok"
                /\ call[r].action = "applied"
                /\ call[r].change = c
                /\ \E ver \in versions : /\ ver.secret = cr[c].secret_id
                                         /\ ver.version = tx[r].seen + 1
                                         /\ ver.value = cr[c].proposed_value

(* Calls on a change request that do not overlap walk its state machine:   *)
(* it is applied only out of approved, reviewed only out of pending, and   *)
(* once applied, rejected or cancelled it stays so.                        *)
Follows == [pending  |-> {"approved", "rejected", "cancelled"},
            approved |-> {"applied", "cancelled"}]

UncontendedStateMachine ==
    [][\A c \in Changes \ contended :
          LET old == cr[c].status
              new == cr'[c].status
          IN  old \notin {"none", new} => old \in DOMAIN Follows /\ new \in Follows[old]]_vars

(* Through a change request the store is changed only as a request to the  *)
(* secret endpoints could change it: what holds of SecretStore holds here. *)
ImplementsSecretStore == Store!Spec

(* What docs/plans/secrets-approval-workflows.md says of the state machine:*)
(* an applied change request cannot be approved again.                     *)
NeverReapproved ==
    [][\A c \in Changes : cr[c].status = "applied" => cr'[c].status # "approved"]_vars

-----------------------------------------------------------------------------
(* Why four eyes hold, as an inductive invariant.  A call checks the status*)
(* once and carries its verdict to its commit, through statuses that other *)
(* calls write; the audit events are what never changes under it.          *)
RowInv(c) ==
    /\ cr[c].status # "none" => cr[c].requester_id \in Users /\ cr[c].proposed_key \in Keys
    /\ cr[c].status = "approved" => Approved(c)

EventInv(e) == cr[e.change].status # "none"

CallInv(r) ==
    /\ call[r].step # "idle" =>
          call[r].change \in Changes /\ cr[call[r].change].status # "none"
    /\ call[r].step \in {"read", "flushed"} => call[r].action \in Statuses
    /\ call[r].step \in {"read", "flushed"} /\ call[r].action = "approved" =>
          call[r].actor # cr[call[r].change].requester_id
    /\ call[r].step \in {"read", "flushed", "ok"} /\ call[r].action = "applied" =>
          Approved(call[r].change) /\ Applicable(call[r].change)

IInv ==
    /\ Store!IInv
    /\ TypeOK
    /\ \A c \in Changes : RowInv(c)
    /\ \A e \in trail : EventInv(e)
    /\ \A r \in Calls : CallInv(r)

(* Why an applied change took effect, as an invariant that is inductive    *)
(* together with IInv.  An apply works in the store with what its row says *)
(* (Faithful), and the row names the secret of the call that applied it    *)
(* last (Effect).                                                          *)
Mutating(r) ==
    /\ call[r].step \in {"read", "flushed", "ok"}
    /\ call[r].action = "applied"
    /\ cr[call[r].change].change_type \in {"create", "update"}

Faithful(r) ==
    /\ pc[r] # "idle" /\ call[r].step \in {"idle", "read", "flushed"} =>
          /\ Mutating(r)
          /\ LET row == cr[call[r].change]
             IN  /\ tx[r].op = row.change_type
                 /\ tx[r].value = row.proposed_value
                 /\ tx[r].op = "update" => tx[r].secret = row.secret_id
    /\ Mutating(r) /\ call[r].step = "flushed" => pc[r] = "flushed"

Effect(c) ==
    cr[c].status = "applied" /\ cr[c].change_type \in {"create", "update"} =>
        \E r \in Calls :
            /\ call[r].step = "ok"
            /\ call[r].action = "applied"
            /\ call[r].change = c
            /\ pc[r] = "ok"
            /\ \E ver \in versions : /\ ver.secret = cr[c].secret_id
                                     /\ ver.version = tx[r].seen + 1
                                     /\ ver.value = cr[c].proposed_value

EffectInv == /\ \A r \in Calls : Faithful(r)
             /\ \A c \in Changes : Effect(c)

(* Why calls that do not overlap walk the state machine: the status a call *)
(* has checked is still there when it commits.                             *)
Checked == [approved  |-> {"pending"},
            rejected  |-> {"pending"},
            applied   |-> {"approved"},
            cancelled |-> {"pending", "approved"}]

AloneInv ==
    \A r \in Calls : Active(r) /\ call[r].change \notin contended =>
        /\ call[r].action \in DOMAIN Checked
        /\ cr[call[r].change].status \in Checked[call[r].action]
        /\ \A q \in Calls : Active(q) /\ call[q].change = call[r].change => q = r
=============================================================================
