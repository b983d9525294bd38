--------------------------- MODULE AccessRequests ---------------------------
(***************************************************************************)
(* Privileged access: requests that are reviewed and revoked               *)
(* (pam_service.py, api/v1/access.py, models/pam.py).                      *)
(*                                                                         *)
(* A call is one transaction, used once.  get_owned_pam_request reads the  *)
(* row, and the service's db.get meets the same instance in the session;   *)
(* the flush waits for the row; the event of the audit trail is committed  *)
(* with the row or not at all.  No code sets the status "expired".         *)
(*                                                                         *)
(* What an event carries beside its action and actor is history: read, how *)
(* long the trail was when its call read the row.  Definitions whose names *)
(* contain _Broken are defects for mutation checks.                        *)
(***************************************************************************)
EXTENDS Naturals, Sequences

CONSTANTS Calls, Users

VARIABLES
    status,       \* access_requests: the row of one request, and
    requester,    \* who made it
    approvals,    \* access_approvals: who decided
    trail,        \* audit_events of the request: access.request, ...
    call

vars == <<status, requester, approvals, trail, call>>

Actions == {"approved", "rejected", "revoked"}

Idle == [pc |-> "idle", user |-> "none", does |-> "none", read |-> 0]

Event(c) == [action |-> call[c].does, actor |-> call[c].user, read |-> call[c].read]

Init ==
    /\ status = "none" /\ requester = "none"
    /\ approvals = {}
    /\ trail = <<>>
    /\ call = [c \in Calls |-> Idle]

Goto(c, pc) == call' = [call EXCEPT ![c].pc = pc]

Begin(c, u, action, pc) ==
    call' = [call EXCEPT ![c] = [pc |-> pc, user |-> u, does |-> action, read |-> Len(trail)]]

(* create_request: nobody knows the request before this is committed.      *)
Create(u) ==
    /\ status = "none"
    /\ status' = "pending" /\ requester' = u
    /\ trail' = <<[action |-> "pending", actor |-> u, read |-> 0]>>
    /\ UNCHANGED <<approvals, call>>

ReadToReview_BrokenOwn(c, u, decision) ==
    /\ call[c].pc = "idle" /\ status # "none"
    /\ Begin(c, u, decision, IF status = "pending" THEN "read" ELSE "failed")
    /\ UNCHANGED <<status, requester, approvals, trail>>

(* review_request up to the check of the status.  A requester who reviews  *)
(* is refused, and the event that says so is rolled back.                  *)
ReadToReview(c, u, decision) ==
    /\ call[c].pc = "idle" /\ status # "none"
    /\ Begin(c, u, decision,
             IF u # requester /\ status = "pending" THEN "read" ELSE "failed")
    /\ UNCHANGED <<status, requester, approvals, trail>>

(* The search for an earlier decision of the same approver.                *)
SelectApproval(c) ==
    /\ call[c].pc = "read" /\ call[c].does # "revoked"
    /\ Goto(c, IF call[c].user \in approvals THEN "failed" ELSE "selected")
    /\ UNCHANGED <<status, requester, approvals, trail>>

(* revoke_request up to its flush: whatever is not revoked may be.         *)
ReadToRevoke(c, u) ==
    /\ call[c].pc = "idle" /\ status # "none"
    /\ Begin(c, u, "revoked", IF status = "revoked" THEN "failed" ELSE "selected")
    /\ UNCHANGED <<status, requester, approvals, trail>>

(* The UPDATE of the row by its id, with the lock of the row.              *)
Flush(c) ==
    /\ call[c].pc = "selected"
    /\ \A d \in Calls : call[d].pc # "flushed"
    /\ Goto(c, "flushed")
    /\ UNCHANGED <<status, requester, approvals, trail>>

Commit(c) ==
    /\ call[c].pc = "flushed"
    /\ status' = call[c].does
    /\ approvals' = approvals \cup IF call[c].does = "revoked" THEN {} ELSE {call[c].user}
    /\ trail' = Append(trail, Event(c))
    /\ Goto(c, "ok")
    /\ UNCHANGED requester

(* An exception, a lost connection or a crash before the commit.           *)
Abort(c) ==
    /\ call[c].pc \in {"read", "selected", "flushed"}
    /\ Goto(c, "failed")
    /\ UNCHANGED <<status, requester, approvals, trail>>

Next ==
    \/ \E u \in Users : Create(u)
    \/ \E c \in Calls :
          \/ \E u \in Users :
                 \/ \E decision \in {"approved", "rejected"} : ReadToReview(c, u, decision)
                 \/ ReadToRevoke(c, u)
          \/ SelectApproval(c) \/ Flush(c) \/ Commit(c) \/ Abort(c)

Spec == Init /\ [][Next]_vars

-----------------------------------------------------------------------------
(* The types of the state.                                                 *)
TypeOK ==
    /\ status \in Actions \cup {"none", "pending"}
    /\ requester \in Users \cup {"none"} /\ approvals \subseteq Users
    /\ \A c \in Calls : call[c].read <= Len(trail)

(* The row says what the last event of the trail says; nobody decides on a *)
(* request of his own; and whoever read the row after a decision or a      *)
(* revocation had been committed does not decide, nor revoke what was      *)
(* revoked: only calls that overlap overrule each other.  Those do: a      *)
(* review that read the row before a revocation and commits after it       *)
(* brings the request back, and one approver may decide twice.             *)
DecisionsStand ==
    /\ trail # <<>> => status = trail[Len(trail)].action
    /\ \A i \in 2 .. Len(trail) :
          /\ trail[i].action # "revoked" => trail[i].actor # requester
          /\ trail[trail[i].read].action # "revoked"
          /\ trail[i].read > 1 => trail[i].action = "revoked"

(* What docs/SECURITY_AUDIT.md (SEC-03) says of review_request, that       *)
(* requests which are not pending cannot be approved again: an approval    *)
(* comes right after the request.  Two calls that overlap break it.        *)
ApprovedWhilePending ==
    \A i \in DOMAIN trail : trail[i].action = "approved" => trail[i - 1].action = "pending"
=============================================================================
