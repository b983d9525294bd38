------------------------------ MODULE ApiClient ------------------------------
(***************************************************************************)
(* The console's API client (apps/web/src/lib/api.ts): one token for the   *)
(* module, which a login stores when its answer is here, which every       *)
(* request reads when it is sent, and which setAuthToken(null) drops.      *)
(*                                                                         *)
(* Logins and sign-outs are numbered in the order in which they begin; a   *)
(* token is the number of the login it came from, 0 for none.  written is  *)
(* the operation that last wrote the token and settled the newest          *)
(* operation that ended with no login in flight; no step of the client     *)
(* reads either.                                                           *)
(*                                                                         *)
(* Operators whose names contain _Broken are defects for mutation checks;  *)
(* no behaviour of this module uses them.                                  *)
(***************************************************************************)
EXTENDS Integers, FiniteSets

CONSTANTS
    Calls,       \* the calls that may be in progress at once
    None,
    MaxOps       \* bound: how many logins and sign-outs there are

VARIABLES
    authToken,
    call,        \* the calls in progress
    data,        \* what the last step answered: the token it was asked with
    ops,
    written,
    settled

vars == <<authToken, call, data, ops, written, settled>>

Login == [kind : {"login"}, op : 1 .. MaxOps, header : 0 .. MaxOps]

Request == [kind : {"request"}, header : 0 .. MaxOps]

-----------------------------------------------------------------------------
Init ==
    /\ authToken = 0
    /\ call = [c \in Calls |-> None]
    /\ data = "none"
    /\ ops = 0
    /\ written = 0
    /\ settled = 0

LoginsBut(c) == {d \in Calls \ {c} : call[d] # None /\ call[d].kind = "login"}

(* The operation n ends, having written the token.                         *)
Settles(c, n) ==
    /\ written' = n
    /\ settled' = IF LoginsBut(c) = {} THEN n ELSE settled

(* fetchWithAuth takes the token as it is when the request is sent.        *)
login(c) ==
    /\ call[c] = None
    /\ ops < MaxOps
    /\ ops' = ops + 1
    /\ call' = [call EXCEPT ![c] = [kind |-> "login", op |-> ops', header |-> authToken]]
    /\ data' = "none"
    /\ UNCHANGED <<authToken, written, settled>>

(* getProjects, getSecrets and the others.                                 *)
request(c) ==
    /\ call[c] = None
    /\ call' = [call EXCEPT ![c] = [kind |-> "request", header |-> authToken]]
    /\ data' = "none"
    /\ UNCHANGED <<authToken, ops, written, settled>>

LoginAnswered_BrokenOnce(c) ==
    /\ call[c] # None /\ call[c].kind = "login"
    /\ authToken' = IF authToken = 0 THEN call[c].op ELSE authToken
    /\ call' = [call EXCEPT ![c] = None]
    /\ data' = "data"
    /\ written' = IF authToken = 0 THEN call[c].op ELSE written
    /\ settled' = IF LoginsBut(c) = {} THEN call[c].op ELSE settled
    /\ UNCHANGED ops

(* The login's answer is here: its token is stored, whatever came between. *)
LoginAnswered(c) ==
    /\ call[c] # None /\ call[c].kind = "login"
    /\ authToken' = call[c].op
    /\ call' = [call EXCEPT ![c] = None]
    /\ data' = "data"
    /\ Settles(c, call[c].op)
    /\ UNCHANGED ops

(* res.ok: the data, or {} for 204.                                        *)
RequestAnswered(c) ==
    /\ call[c] # None /\ call[c].kind = "request"
    /\ call' = [call EXCEPT ![c] = None]
    /\ data' \in {"data", "{}"}
    /\ UNCHANGED <<authToken, ops, written, settled>>

(* Not ok, or no answer at all: the call throws, and the token stays.      *)
Fails(c) ==
    /\ call[c] # None
    /\ call' = [call EXCEPT ![c] = None]
    /\ data' = "Error"
    /\ UNCHANGED <<authToken, ops, written, settled>>

(* The caller signs out.                                                   *)
setAuthToken ==
    /\ ops < MaxOps
    /\ ops' = ops + 1
    /\ authToken' = 0
    /\ written' = ops'
    /\ settled' = IF \E c \in Calls : call[c] # None /\ call[c].kind = "login"
                  THEN settled ELSE ops'
    /\ data' = "none"
    /\ UNCHANGED call

Next ==
    \/ \E c \in Calls :
          login(c) \/ request(c) \/ LoginAnswered(c) \/ RequestAnswered(c) \/ Fails(c)
    \/ setAuthToken

Spec == Init /\ [][Next]_vars

-----------------------------------------------------------------------------
(* A sign-out or a login that ended while no other login was in flight is  *)
(* never undone by an older one: the token the client sends was written by *)
(* it or by a newer operation.  A login whose answer was still to come may *)
(* bring its token back, after a sign-out too.                             *)
TokenNotRevived ==
    /\ written >= settled
    /\ authToken \in {0, written}
=============================================================================
