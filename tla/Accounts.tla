------------------------------ MODULE Accounts ------------------------------
(***************************************************************************)
(* Accounts: registration, multi-factor authentication and login           *)
(* (auth_service.py, api/v1/auth.py, api/deps.py, models/user.py).         *)
(*                                                                         *)
(* A call is one transaction, used once.  It reads the row of its account  *)
(* at its beginning, by the normalised address or by the token it carries, *)
(* and its flush waits for the row, or for the unique index on the email.  *)
(* An UPDATE writes the column that was set and no other.  Passwords are   *)
(* right and tokens valid: with others a call changes nothing.  No code    *)
(* disables an account or MFA, and a logout only deletes a cookie.         *)
(*                                                                         *)
(* A code is identified with the secret that generates it, and a secret    *)
(* with the call that drew it.  commits is history: the calls that were    *)
(* committed on an account, each with how many had been when it read.      *)
(* Definitions whose names contain _Broken are defects for mutation checks.*)
(***************************************************************************)
EXTENDS Naturals, Sequences

CONSTANTS Calls, Emails

VARIABLES
    users,      \* the rows of users, by their email
    commits,
    call

vars == <<users, commits, call>>

NoUser == [id |-> "none", mfa_secret |-> "none", mfa_enabled |-> FALSE]

Idle == [pc |-> "idle", does |-> "none", email |-> "none", code |-> "none",
         seen |-> NoUser, read |-> 0]

Init ==
    /\ users = [e \in Emails |-> NoUser]
    /\ commits = [e \in Emails |-> <<>>]
    /\ call = [c \in Calls |-> Idle]

(* The checks that follow the read need no other row: they fall with it.   *)
Begin(c, what, e, code, granted) ==
    /\ call[c].pc = "idle"
    /\ call' = [call EXCEPT ![c] = [pc |-> IF granted THEN "read" ELSE "failed",
                                    does |-> what, email |-> e, code |-> code,
                                    seen |-> users[e], read |-> Len(commits[e])]]
    /\ UNCHANGED <<users, commits>>

register_user(c, e) == Begin(c, "register", e, "none", users[e] = NoUser)

(* get_current_user: the row of the user whom the token names.             *)
setup_mfa(c, e) == users[e] # NoUser /\ Begin(c, "setup", e, "none", TRUE)

verify_and_enable_mfa(c, e, code) ==
    /\ users[e] # NoUser
    /\ Begin(c, "verify", e, code, code # "none" /\ code = users[e].mfa_secret)

authenticate_user(c, e, code) ==
    /\ users[e] # NoUser
    /\ Begin(c, "login", e, code,
             users[e].mfa_enabled => code # "none" /\ code = users[e].mfa_secret)

(* What a client can type: a code of a secret it was given, or none that   *)
(* any secret generates.                                                   *)
Codes(e) ==
    {"none"} \cup {c \in Calls : /\ call[c].pc = "ok" /\ call[c].does = "setup"
                                 /\ call[c].email = e}

-----------------------------------------------------------------------------
(* Setting mfa_enabled again is no change, and writes nothing.             *)
Writes(c) ==
    \/ call[c].does \in {"register", "setup"}
    \/ call[c].does = "verify" /\ ~call[c].seen.mfa_enabled

Flush(c) ==
    /\ call[c].pc = "read"
    /\ Writes(c) => \A d \in Calls :
                        call[d].email = call[c].email /\ Writes(d) => call[d].pc # "flushed"
    /\ call' = [call EXCEPT ![c].pc =
                    IF call[c].does = "register" /\ users[call[c].email] # NoUser
                    THEN "failed" ELSE "flushed"]
    /\ UNCHANGED <<users, commits>>

Stored_BrokenSeen(c) == call[c].seen

(* What an UPDATE leaves in the columns that it does not write.            *)
Stored(c) == users[call[c].email]

Written(c) ==
    [id          |-> IF call[c].does = "register" THEN c ELSE Stored(c).id,
     mfa_secret  |-> IF call[c].does = "setup" THEN c ELSE Stored(c).mfa_secret,
     mfa_enabled |-> call[c].does = "verify" \/ Stored(c).mfa_enabled]

Commit(c) ==
    /\ call[c].pc = "flushed"
    /\ users' = [users EXCEPT ![call[c].email] = Written(c)]
    /\ commits' = [commits EXCEPT ![call[c].email] =
           Append(@, [call |-> c, does |-> call[c].does, code |-> call[c].code,
                      read |-> call[c].read])]
    /\ call' = [call EXCEPT ![c].pc = "ok"]

(* An exception, a lost connection or a crash before the commit.           *)
Abort(c) ==
    /\ call[c].pc \in {"read", "flushed"}
    /\ call' = [call EXCEPT ![c].pc = "failed"]
    /\ UNCHANGED <<users, commits>>

Next ==
    \E c \in Calls :
        \/ \E e \in Emails :
               \/ register_user(c, e) \/ setup_mfa(c, e)
               \/ \E code \in Codes(e) :
                      verify_and_enable_mfa(c, e, code) \/ authenticate_user(c, e, code)
        \/ Flush(c) \/ Commit(c) \/ Abort(c)

Spec == Init /\ [][Next]_vars

-----------------------------------------------------------------------------
(* The types of the state.                                                 *)
TypeOK ==
    /\ users \in [Emails -> [id : Calls \cup {"none"}, mfa_secret : Calls \cup {"none"},
                            mfa_enabled : BOOLEAN]]
    /\ \A e \in Emails : \A i \in DOMAIN commits[e] : commits[e][i].read < i
    /\ \A c \in Calls : call[c].pc # "idle" => call[c].email \in Emails

Doing(e, what, n) == {i \in 1 .. n : commits[e][i].does = what}

(* The secret of the latest of the first n commits that set one up.        *)
SecretAfter(e, n) ==
    {commits[e][i].call : i \in {s \in Doing(e, "setup", n) :
                                   Doing(e, "setup", n) \subseteq 1 .. s}}

(* An account is registered once; its secret is that of the setup which    *)
(* was committed last and its MFA is enabled when a verification was,      *)
(* though both read the whole row and may overlap; and where MFA is        *)
(* enabled by a verification, or was when a login began, the code was of   *)
(* the secret which the account had then.  Nothing says that a code of the *)
(* secret it has now was ever verified: a setup may come later, or overlap.*)
RowsFollowCommits ==
    \A e \in Emails :
        LET n == Len(commits[e]) IN
        /\ Doing(e, "register", n) = 1 .. (IF n = 0 THEN 0 ELSE 1)
        /\ {users[e].mfa_secret} \ {"none"} = SecretAfter(e, n)
        /\ users[e].mfa_enabled <=> Doing(e, "verify", n) # {}
        /\ \A i \in 1 .. n :
              LET then == commits[e][i].read IN
              \/ commits[e][i].does = "verify"
              \/ commits[e][i].does = "login" /\ Doing(e, "verify", then) # {}
              => commits[e][i].code \in SecretAfter(e, then)
=============================================================================
