------------------------- MODULE MCTrailStoreAccounts -------------------------
(* The audit chain, the secret store under fairness and the accounts: small  *)
(* instances that share no state.  A behaviour runs the one that subject     *)
(* names and leaves the others alone.                                        *)
EXTENDS AuditChain, TLC

CONSTANTS Requests, Secrets, Keys, Values, Seeded, Null, Calls, Emails

VARIABLES
    subject,
    key, is_deleted, current_version_num, versions, progress, tx,
    users, commits, call

Store == INSTANCE SecretStore WITH pc <- progress

Auth == INSTANCE Accounts

storeVars == <<key, is_deleted, current_version_num, versions, progress, tx>>

authVars == <<users, commits, call>>

(* Only what the chain consists of is permuted.  While another runs, the     *)
(* chain is as it was initially, which no permutation changes: states of the *)
(* store and of the accounts are never taken for one another, and the        *)
(* liveness of the store is checked on all of them.                          *)
Symmetry == Permutations(Txns) \cup Permutations(Contents)

SidesInit ==
    /\ subject \in {"chain", "store", "accounts"}
    /\ Init /\ Store!Init /\ Auth!Init

SidesNext ==
    \/ subject = "chain" /\ Next /\ UNCHANGED <<subject, storeVars, authVars>>
    \/ subject = "store" /\ Store!Next /\ UNCHANGED <<subject, vars, authVars>>
    \/ subject = "accounts" /\ Auth!Next /\ UNCHANGED <<subject, vars, storeVars>>

(* The fairness of SecretStore, the only one of the three that has any.      *)
SidesFairness == \A r \in Requests : WF_storeVars(subject = "store" /\ Store!Advance(r))

SidesSpec == SidesInit /\ [][SidesNext]_<<subject, vars, storeVars, authVars>> /\ SidesFairness

-----------------------------------------------------------------------------
(* secret_service.py: every request that starts is answered; no two wait for *)
(* each other's row lock, and a lock is released with its transaction.       *)
EveryRequestAnswered == Store!EveryRequestAnswered

(* auth_service.py: the rows of accounts are what the calls that were        *)
(* committed made of them, however registrations, setups, verifications and  *)
(* logins overlap.                                                           *)
AccountsKept == Auth!TypeOK /\ Auth!RowsFollowCommits
=============================================================================
