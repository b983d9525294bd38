----------------------------- MODULE AgentProxy -----------------------------
(***************************************************************************)
(* The sessions of an agent and the calls it makes through the proxy       *)
(* (agent_service.py, api/v1/agents.py): a call names secrets in its       *)
(* headers and its body, the service puts their values in and sends the    *)
(* request to its destination.                                             *)
(*                                                                         *)
(* A call is one transaction, used once.  The policy never changes, and    *)
(* the rate limiter may give any verdict: both may refuse a call.  A       *)
(* version of a secret stands for its value.                               *)
(*                                                                         *)
(* began and sent are history: what held when the call was checked, and    *)
(* what has left the system in a call's name.  A definition whose name     *)
(* contains _Broken is a defect for mutation checks.                       *)
(***************************************************************************)
EXTENDS Naturals

CONSTANTS
    Calls,
    Secrets,
    MaxVersion     \* bound: how often a secret is updated

VARIABLES
    session,       \* agent_sessions: the status, and whether expires_at has passed
    expired,
    version,       \* of the secrets: current_version_num
    deleted,
    trail,         \* audit_events of the calls
    call,
    began,
    sent

tables == <<session, expired, version, deleted, trail>>
vars   == <<tables, call, began, sent>>

Parts == {"headers", "body"}

Placeholder == [part : Parts, secret : Secrets]

Resolved == [part : Parts, secret : Secrets, version : 1 .. MaxVersion]

(* A call: what it has still to resolve, what the instance of a secret in  *)
(* its session says, and what it has resolved and logged.                  *)
Idle == [pc |-> "idle", todo |-> {}, read |-> {}, resolved |-> {}, events |-> {}]

Init ==
    /\ session = "none" /\ expired = FALSE
    /\ version = [s \in Secrets |-> 1]
    /\ deleted = {}
    /\ trail = {}
    /\ call = [c \in Calls |-> Idle]
    /\ began = [c \in Calls |-> <<>>]
    /\ sent = [c \in Calls |-> {}]

(* create_session and revoke_session.                                      *)
CreateSession ==
    /\ session = "none"
    /\ session' = "active"
    /\ UNCHANGED <<expired, version, deleted, trail, call, began, sent>>

RevokeSession ==
    /\ session = "active"
    /\ session' = "revoked"
    /\ UNCHANGED <<expired, version, deleted, trail, call, began, sent>>

SessionExpires ==
    /\ session # "none" /\ ~expired
    /\ expired' = TRUE
    /\ UNCHANGED <<session, version, deleted, trail, call, began, sent>>

(* The secret store, whose transactions are not this module's subject.     *)
Update(s) ==
    /\ s \notin deleted /\ version[s] < MaxVersion
    /\ version' = [version EXCEPT ![s] = @ + 1]
    /\ UNCHANGED <<session, expired, deleted, trail, call, began, sent>>

Delete(s) ==
    /\ s \notin deleted
    /\ deleted' = deleted \cup {s}
    /\ UNCHANGED <<session, expired, version, trail, call, began, sent>>

-----------------------------------------------------------------------------
(* execute_proxy_call: the session, the agent and the policy.              *)
Check(c, wanted) ==
    /\ call[c].pc = "idle"
    /\ session = "active" /\ ~expired
    /\ call' = [call EXCEPT ![c] = [Idle EXCEPT !.pc = "checked", !.todo = wanted]]
    /\ began' = [began EXCEPT ![c] = [version |-> version, deleted |-> deleted]]
    /\ UNCHANGED <<tables, sent>>

(* resolve_placeholders selects the secret.  An instance of it that is     *)
(* still in the session is not refreshed.                                  *)
SelectSecret(c, p) ==
    /\ call[c].pc = "checked"
    /\ p \in call[c].todo
    /\ p.part = "headers" \/ \A q \in call[c].todo : q.part = "body"
    /\ p.secret \notin deleted
    /\ \E v \in {version[p.secret]} \cup {r.version : r \in {q \in call[c].resolved :
                                                               q.secret = p.secret}} :
          call' = [call EXCEPT ![c].pc = "selected", ![c].todo = @ \ {p},
                               ![c].read = {[part |-> p.part, secret |-> p.secret, version |-> v]}]
    /\ UNCHANGED <<tables, began, sent>>

Logged_BrokenOncePerSecret(c, r) ==
    IF \E e \in call[c].events : e.secret = r.secret THEN call[c].events
    ELSE call[c].events \cup {r}

(* The event secret.reveal.                                                *)
Logged(c, r) == call[c].events \cup {r}

(* reveal_secret, which selects the secret once more.                      *)
Reveal(c) ==
    /\ call[c].pc = "selected"
    /\ \E r \in call[c].read :
          /\ r.secret \notin deleted
          /\ call' = [call EXCEPT ![c].pc = "checked", ![c].read = {},
                                  ![c].resolved = @ \cup {r}, ![c].events = Logged(c, r)]
    /\ UNCHANGED <<tables, began, sent>>

(* The request to the destination, and its answer.                         *)
Send(c) ==
    /\ call[c].pc = "checked" /\ call[c].todo = {}
    /\ sent' = [sent EXCEPT ![c] = call[c].resolved]
    /\ call' = [call EXCEPT ![c].pc = "sent"]
    /\ UNCHANGED <<tables, began>>

(* The event agent.proxy_call, which stands for the call itself, and the   *)
(* commit of all its events.                                               *)
Commit(c) ==
    /\ call[c].pc = "sent"
    /\ trail' = trail \cup {[call |-> c, reveals |-> call[c].events]}
    /\ call' = [call EXCEPT ![c] = [Idle EXCEPT !.pc = "ok"]]
    /\ UNCHANGED <<session, expired, version, deleted, began, sent>>

(* A refusal, a placeholder without a secret, a destination that does not  *)
(* answer, or a crash: the transaction is rolled back.                     *)
Abort(c) ==
    /\ call[c].pc \in {"checked", "selected", "sent"}
    /\ call' = [call EXCEPT ![c] = [Idle EXCEPT !.pc = "failed"]]
    /\ UNCHANGED <<tables, began, sent>>

Next ==
    \/ CreateSession \/ RevokeSession \/ SessionExpires
    \/ \E s \in Secrets : Update(s) \/ Delete(s)
    \/ \E c \in Calls :
          \/ \E wanted \in SUBSET Placeholder : Check(c, wanted)
          \/ \E p \in Placeholder : SelectSecret(c, p)
          \/ Reveal(c) \/ Send(c) \/ Commit(c) \/ Abort(c)

Spec == Init /\ [][Next]_vars

-----------------------------------------------------------------------------
(* The types of the state.                                                 *)
TypeOK ==
    /\ session \in {"none", "active", "revoked"}
    /\ version \in [Secrets -> 1 .. MaxVersion] /\ deleted \subseteq Secrets
    /\ \A c \in Calls :
          /\ call[c].todo \subseteq Placeholder
          /\ call[c].resolved \cup call[c].read \cup sent[c] \subseteq Resolved

(* The trail of a call that was answered names exactly the versions that   *)
(* were sent, one call has one entry, and what is sent was current at some *)
(* moment since the call began.                                            *)
CallsAccounted ==
    /\ \A e \in trail : call[e.call].pc = "ok" /\ e.reveals = sent[e.call]
    /\ \A c \in Calls : call[c].pc = "ok" => \E e \in trail : e.call = c
    /\ \A c \in Calls : \A r \in sent[c] :
          r.version >= began[c].version[r.secret] /\ r.secret \notin began[c].deleted
=============================================================================
