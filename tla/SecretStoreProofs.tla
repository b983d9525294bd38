-------------------------- MODULE SecretStoreProofs --------------------------
(***************************************************************************)
(* Proofs about SecretStore, for every set of requests, secrets, names and *)
(* values.                                                                 *)
(***************************************************************************)
EXTENDS SecretStore, Sequences, TLAPS

-----------------------------------------------------------------------------
(* Every version a state knows has a value in Values.                      *)
LEMMA ValueOfType ==
  ASSUME TypeOK, NEW s, NEW n, HasVersion(s, n)
  PROVE  /\ ValueOf(s, n) \in Values
         /\ \E ver \in VersionsOf(s) : ver.version = n /\ ver.value = ValueOf(s, n)
BY DEF TypeOK, HasVersion, ValueOf, VersionsOf, Version

(* A request that read a row finds the version it read.                    *)
LEMMA SeenVersionExists ==
  ASSUME IInv, NEW r \in Requests, tx[r].op # "create", pc[r] # "idle"
  PROVE  HasVersion(tx[r].secret, tx[r].seen) /\ tx[r].seen > 0
<1>1. tx[r].secret \in Secrets /\ tx[r].seen \in 1..current_version_num[tx[r].secret]
  BY DEF IInv, RequestInv, Started, ReadsRow
<1>2. current_version_num[tx[r].secret] \in Nat
  BY <1>1 DEF IInv, TypeOK
<1> QED
  BY <1>1, <1>2 DEF IInv, HistoryIntact, NumberedToHead

(* A step of r that appends no version keeps the invariant if it keeps it  *)
(* for r and does not name an identity that a create in flight owns.       *)
LEMMA QuietStep ==
  ASSUME IInv, TypeOK', NEW r \in Requests, UNCHANGED <<current_version_num, versions>>,
         \A q \in Requests \ {r} : pc'[q] = pc[q] /\ tx'[q] = tx[q],
         \A q \in Requests \ {r} :
            tx[q].op = "create" /\ pc[q] \in InFlight => tx'[r].secret # tx[q].secret,
         RequestInv(r)'
  PROVE  IInv'
<1>1. HistoryIntact'
  BY DEF IInv, HistoryIntact, OneRowPerVersion, NumberedToHead, HasVersion, VersionsOf
<1>2. ASSUME NEW q \in Requests, q # r PROVE RequestInv(q)'
  <2>1. RequestInv(q) /\ pc'[q] = pc[q] /\ tx'[q] = tx[q]
    BY <1>2 DEF IInv
  <2>2. Started(q)'
    BY <2>1 DEF RequestInv, Started
  <2>3. Fresh(q)'
    <3> SUFFICES ASSUME tx[q].op = "create", pc[q] \in InFlight PROVE Fresh(q)'
      BY <2>1 DEF Fresh
    <3>1. \A p \in Requests \ {q} : tx'[p].secret # tx[q].secret
      <4> TAKE p \in Requests \ {q}
      <4>1. CASE p = r
        BY <1>2, <4>1
      <4>2. CASE p # r
        BY <2>1, <4>2 DEF RequestInv, Fresh
      <4> QED BY <4>1, <4>2
    <3> QED
      BY <2>1, <3>1 DEF RequestInv, Fresh, Exists
  <2>4. ReadsRow(q)' /\ HoldsHead(q)'
    BY <2>1 DEF RequestInv, ReadsRow, HoldsHead
  <2>5. Copied(q)'
    BY <2>1 DEF RequestInv, Copied, VersionsOf
  <2>6. LockExclusive(q)'
    <3> SUFFICES ASSUME HoldsLock(q)', NEW p \in Requests \ {q}, HoldsLock(p)'
                 PROVE  tx'[p].secret # tx'[q].secret
      BY DEF LockExclusive
    <3>1. CASE p = r
      BY <1>2, <3>1 DEF RequestInv, LockExclusive
    <3>2. CASE p # r
      BY <2>1, <3>2 DEF RequestInv, LockExclusive, HoldsLock
    <3> QED BY <3>1, <3>2
  <2> QED
    BY <2>2, <2>3, <2>4, <2>5, <2>6 DEF RequestInv
<1> QED
  BY <1>1, <1>2 DEF IInv

-----------------------------------------------------------------------------
(* The steps before a commit.                                              *)
LEMMA BeginCreateStep ==
  ASSUME IInv, NEW r \in Requests, NEW s \in Secrets, NEW k \in Keys, NEW v \in Values,
         BeginCreate(r, s, k, v)
  PROVE  IInv'
<1>1. TypeOK'
  BY DEF IInv, TypeOK, BeginCreate, Goto, tables, Transaction, Ops, InFlight, Answered
<1>2. \A q \in Requests \ {r} : pc'[q] = pc[q] /\ tx'[q] = tx[q] /\ tx'[r].secret # tx[q].secret
  BY DEF IInv, TypeOK, BeginCreate, Goto
<1>3. /\ pc'[r] \in {"selected", "failed"}
      /\ tx'[r] = [op |-> "create", secret |-> s, key |-> k, value |-> v, seen |-> 0, target |-> 0]
      /\ UNCHANGED tables
      /\ ~Exists(s)
  BY DEF IInv, TypeOK, BeginCreate, Goto
<1>4. RequestInv(r)'
  BY <1>2, <1>3 DEF RequestInv, Started, Fresh, ReadsRow, Copied, HoldsHead, LockExclusive,
                    HoldsLock, Exists, Ops, tables
<1> QED
  BY <1>1, <1>2, <1>3, <1>4, QuietStep DEF tables

LEMMA LoadStep ==
  ASSUME IInv, NEW r \in Requests, NEW op \in Ops \ {"create"}, NEW s \in Secrets,
         NEW v \in Values \cup {Null}, NEW n \in Nat, op = "update" => v \in Values,
         Load(r, op, s, v, n)
  PROVE  IInv'
<1>1. TypeOK'
  BY DEF IInv, TypeOK, Load, Goto, tables, Transaction, InFlight, Answered
<1>2. /\ pc'[r] \in {"loaded", "selected", "failed"}
      /\ pc'[r] = "selected" => op = "delete"
      /\ tx'[r] = [op |-> op, secret |-> s, key |-> key[s], value |-> v,
                   seen |-> current_version_num[s], target |-> n]
      /\ UNCHANGED tables
      /\ Exists(s)
  BY DEF IInv, TypeOK, Load, Goto
<1>3. \A q \in Requests \ {r} : pc'[q] = pc[q] /\ tx'[q] = tx[q]
  BY DEF IInv, TypeOK, Load, Goto
<1>4. \A q \in Requests \ {r} :
        tx[q].op = "create" /\ pc[q] \in InFlight => tx'[r].secret # tx[q].secret
  BY <1>2 DEF IInv, RequestInv, Fresh
<1>5. RequestInv(r)'
  BY <1>2 DEF IInv, TypeOK, RequestInv, Started, Fresh, ReadsRow, Copied, HoldsHead,
              LockExclusive, HoldsLock, Exists, Ops, tables
<1> QED
  BY <1>1, <1>2, <1>3, <1>4, <1>5, QuietStep DEF tables

(* A step that moves r on and at most fills in its value or its target.    *)
LEMMA MoveStep ==
  ASSUME IInv, TypeOK', NEW r \in Requests, UNCHANGED <<current_version_num, versions>>,
         \A q \in Requests \ {r} : pc'[q] = pc[q] /\ tx'[q] = tx[q],
         pc[r] \in InFlight,
         tx'[r].op = tx[r].op, tx'[r].secret = tx[r].secret, tx'[r].seen = tx[r].seen,
         tx'[r].key = tx[r].key, tx[r].op \in {"create", "update"} => tx'[r].value = tx[r].value,
         tx[r].op = "create" => pc'[r] # "loaded",
         (Copied(r) /\ HoldsHead(r) /\ LockExclusive(r))'
  PROVE  IInv'
<1>1. RequestInv(r)
  BY DEF IInv
<1>2. \A q \in Requests \ {r} :
        tx[q].op = "create" /\ pc[q] \in InFlight => tx'[r].secret # tx[q].secret
  BY DEF IInv, RequestInv, Fresh
<1>3. Started(r)'
  BY <1>1 DEF RequestInv, Started, InFlight
<1>4. Fresh(r)'
  BY <1>1 DEF RequestInv, Fresh, Exists
<1>5. ReadsRow(r)'
  BY <1>1 DEF RequestInv, ReadsRow, InFlight
<1> QED
  BY <1>2, <1>3, <1>4, <1>5, QuietStep DEF RequestInv

LEMMA ReadSteps ==
  ASSUME IInv, NEW r \in Requests,
         \/ FlushCreate(r) \/ ReselectUpdate(r) \/ CommitReveal(r) \/ Abort(r)
  PROVE  IInv'
<1>1. TypeOK'
  BY DEF IInv, TypeOK, FlushCreate, ReselectUpdate, CommitReveal, Abort, Goto, tables,
         InFlight, Answered
<1>2. /\ UNCHANGED <<tables, tx>>
      /\ pc[r] \in InFlight
      /\ \A q \in Requests \ {r} : pc'[q] = pc[q]
      /\ \/ tx[r].op = "create" /\ pc'[r] = "flushed"
         \/ tx[r].op = "update" /\ pc'[r] \in {"selected", "failed"}
         \/ pc'[r] \in {"ok", "failed"}
  BY DEF IInv, TypeOK, FlushCreate, ReselectUpdate, CommitReveal, Abort, Goto, tables, InFlight
<1>3. (Copied(r) /\ HoldsHead(r) /\ LockExclusive(r))'
  BY <1>2 DEF Copied, HoldsHead, LockExclusive, HoldsLock
<1> QED
  BY <1>1, <1>2, <1>3, MoveStep DEF tables

LEMMA ReselectRollbackStep ==
  ASSUME IInv, NEW r \in Requests, ReselectRollback(r)
  PROVE  IInv'
<1> DEFINE s == tx[r].secret
           n == tx[r].target
<1>1. CASE ~is_deleted[s] /\ HasVersion(s, n)
  <2>1. /\ tx' = [tx EXCEPT ![r].value = ValueOf(s, n)]
        /\ pc' = [pc EXCEPT ![r] = "selected"]
        /\ UNCHANGED tables
        /\ tx[r].op = "rollback" /\ pc[r] \in InFlight
    BY <1>1 DEF ReselectRollback, Goto, InFlight
  <2>2. /\ ValueOf(s, n) \in Values
        /\ \E old \in VersionsOf(s) : old.version = n /\ old.value = ValueOf(s, n)
    BY <1>1, ValueOfType DEF IInv
  <2>3. TypeOK'
    BY <2>1, <2>2 DEF IInv, TypeOK, Transaction, tables, InFlight
  <2>4. /\ pc'[r] = "selected"
        /\ \A q \in Requests \ {r} : pc'[q] = pc[q] /\ tx'[q] = tx[q]
        /\ tx'[r].op = "rollback" /\ tx'[r].secret = s /\ tx'[r].seen = tx[r].seen
        /\ tx'[r].key = tx[r].key /\ tx'[r].value = ValueOf(s, n) /\ tx'[r].target = n
    BY <2>1 DEF IInv, TypeOK, Transaction
  <2>5. (Copied(r) /\ HoldsHead(r) /\ LockExclusive(r))'
    BY <2>1, <2>2, <2>4 DEF Copied, HoldsHead, LockExclusive, HoldsLock, VersionsOf, tables
  <2> QED
    BY <2>1, <2>3, <2>4, <2>5, MoveStep DEF tables
<1>2. CASE is_deleted[s] \/ ~HasVersion(s, n)
  <2>1. /\ UNCHANGED <<tables, tx>>
        /\ pc' = [pc EXCEPT ![r] = "failed"]
        /\ pc[r] \in InFlight
    BY <1>2 DEF ReselectRollback, Goto, InFlight
  <2>2. TypeOK' /\ pc'[r] = "failed" /\ \A q \in Requests \ {r} : pc'[q] = pc[q]
    BY <2>1 DEF IInv, TypeOK, tables, Answered
  <2>3. (Copied(r) /\ HoldsHead(r) /\ LockExclusive(r))'
    BY <2>2 DEF Copied, HoldsHead, LockExclusive, HoldsLock
  <2> QED
    BY <2>1, <2>2, <2>3, MoveStep DEF tables
<1> QED
  BY <1>1, <1>2

LEMMA RevealSteps ==
  ASSUME IInv, NEW r \in Requests, ReselectReveal(r) \/ FetchHead(r)
  PROVE  IInv'
<1>1. /\ UNCHANGED tables
      /\ tx[r].op = "reveal" /\ pc[r] \in {"loaded", "selected"}
      /\ \/ UNCHANGED tx
         \/ \E n \in Nat : tx' = [tx EXCEPT ![r].target = n]
         \/ \E v \in Values : tx' = [tx EXCEPT ![r].value = v]
      /\ \E label \in {"selected", "flushed", "failed"} : Goto(r, label)
  <2>1. CASE ReselectReveal(r)
    <3>1. HeadOf(tx[r].secret) \subseteq Nat
      BY DEF IInv, TypeOK, HeadOf, VersionsOf, Version
    <3> QED
      BY <2>1, <3>1 DEF ReselectReveal
  <2>2. CASE FetchHead(r)
    <3>1. HasVersion(tx[r].secret, tx[r].seen) /\ tx[r].seen > 0
      BY <2>2, SeenVersionExists DEF FetchHead, Ops
    <3>2. ValueOf(tx[r].secret, tx[r].seen) \in Values
      BY <3>1, ValueOfType DEF IInv
    <3> QED
      BY <2>2, <3>1, <3>2 DEF FetchHead
  <2> QED
    BY <2>1, <2>2
<1>2. TypeOK'
  BY <1>1 DEF IInv, TypeOK, Goto, Transaction, tables, InFlight, Answered
<1>3. /\ \A q \in Requests \ {r} : pc'[q] = pc[q] /\ tx'[q] = tx[q]
      /\ pc[r] \in InFlight
      /\ tx'[r].op = "reveal" /\ tx'[r].secret = tx[r].secret
      /\ tx'[r].seen = tx[r].seen /\ tx'[r].key = tx[r].key
  BY <1>1 DEF IInv, TypeOK, Goto, Transaction, InFlight
<1>4. (Copied(r) /\ HoldsHead(r) /\ LockExclusive(r))'
  BY <1>3 DEF Copied, HoldsHead, LockExclusive, HoldsLock
<1> QED
  BY <1>1, <1>2, <1>3, <1>4, MoveStep DEF tables

LEMMA FlushSteps ==
  ASSUME IInv, NEW r \in Requests, FlushVersion(r) \/ FlushDelete(r)
  PROVE  IInv'
<1> DEFINE s == tx[r].secret
<1>1. /\ UNCHANGED <<tables, tx>>
      /\ pc[r] = "selected"
      /\ tx[r].op \in {"update", "rollback", "delete"}
      /\ ~RowLocked(s)
      /\ \/ Goto(r, "failed")
         \/ /\ Goto(r, "flushed")
            /\ tx[r].op # "delete" => ~HasVersion(s, NextVersion(r))
  BY DEF FlushVersion, FlushDelete
<1>2. TypeOK'
  BY <1>1 DEF IInv, TypeOK, Goto, tables, InFlight, Answered
<1>3. /\ \A q \in Requests \ {r} : pc'[q] = pc[q]
      /\ \/ pc'[r] = "failed"
         \/ /\ pc'[r] = "flushed"
            /\ tx[r].op # "delete" => ~HasVersion(s, NextVersion(r))
  BY <1>1 DEF IInv, TypeOK, Goto
<1>4. Copied(r)'
  BY <1>1, <1>3 DEF IInv, RequestInv, Copied, VersionsOf, tables
<1>5. HoldsHead(r)'
  <2> SUFFICES ASSUME tx[r].op \in {"update", "rollback"}, pc'[r] = "flushed"
               PROVE  current_version_num[s] = tx[r].seen
    BY <1>1 DEF HoldsHead, tables
  <2>1. ~HasVersion(s, tx[r].seen + 1)
    BY <1>3 DEF NextVersion
  <2>2. s \in Secrets /\ tx[r].seen \in 1..current_version_num[s]
    BY <1>1 DEF IInv, RequestInv, Started, ReadsRow, Ops
  <2>3. current_version_num[s] \in Nat
    BY <2>2 DEF IInv, TypeOK
  <2>4. tx[r].seen + 1 \notin 1..current_version_num[s]
    BY <2>1, <2>2 DEF IInv, HistoryIntact, NumberedToHead
  <2> QED
    BY <2>2, <2>3, <2>4
<1>6. LockExclusive(r)'
  BY <1>1, <1>3 DEF LockExclusive, RowLocked, HoldsLock
<1> QED
  BY <1>1, <1>2, <1>3, <1>4, <1>5, <1>6, MoveStep DEF tables, InFlight

-----------------------------------------------------------------------------
(* The commits.                                                            *)
LEMMA CommitDeleteStep ==
  ASSUME IInv, NEW r \in Requests, CommitDelete(r)
  PROVE  IInv'
<1>1. TypeOK'
  BY DEF IInv, TypeOK, CommitDelete, Goto, InFlight, Answered
<1>2. /\ UNCHANGED <<key, current_version_num, versions, tx>>
      /\ pc[r] = "flushed" /\ pc'[r] = "ok"
      /\ \A q \in Requests \ {r} : pc'[q] = pc[q]
  BY DEF IInv, TypeOK, CommitDelete, Goto
<1>3. (Copied(r) /\ HoldsHead(r) /\ LockExclusive(r))'
  BY <1>2 DEF Copied, HoldsHead, LockExclusive, HoldsLock
<1> QED
  BY <1>1, <1>2, <1>3, MoveStep DEF InFlight

(* A commit that appends the next version of a secret keeps the invariant  *)
(* if nobody else is creating the secret or has flushed a version of it.   *)
LEMMA AppendStep ==
  ASSUME IInv, TypeOK', NEW r \in Requests,
         tx[r].secret \in Secrets, NewVersion(r) \in Version,
         NextVersion(r) = current_version_num[tx[r].secret] + 1,
         pc[r] = "flushed", pc' = [pc EXCEPT ![r] = "ok"], UNCHANGED tx,
         current_version_num' = [current_version_num EXCEPT ![tx[r].secret] = NextVersion(r)],
         versions' = versions \cup {NewVersion(r)},
         \A q \in Requests \ {r} :
            \/ tx[q].op = "create" /\ pc[q] \in InFlight
            \/ tx[q].op \in {"update", "rollback"} /\ pc[q] = "flushed"
            => tx[q].secret # tx[r].secret
  PROVE  IInv'
<1> DEFINE s   == tx[r].secret
           new == NewVersion(r)
<1>0. new.secret = s /\ new.version = current_version_num[s] + 1
  BY DEF NewVersion
<1> HIDE DEF new
<1>1. /\ current_version_num \in [Secrets -> Nat]
      /\ versions \subseteq Version
      /\ pc \in [Requests -> {"idle"} \cup InFlight \cup Answered]
  BY DEF IInv, TypeOK
<1>2. \A t \in Secrets : /\ current_version_num[t] \in Nat
                         /\ t # s => current_version_num'[t] = current_version_num[t]
  BY <1>1
<1>3. current_version_num'[s] = current_version_num[s] + 1
  BY <1>1
<1>new. new \in Version /\ versions' = versions \cup {new}
  BY DEF new
<1>4. OneRowPerVersion'
  <2> SUFFICES ASSUME NEW v1 \in versions', NEW v2 \in versions',
                      v1.secret = v2.secret, v1.version = v2.version
               PROVE  v1 = v2
    BY DEF OneRowPerVersion
  <2>1. \A ver \in versions : ver.secret = s => ver.version # new.version
    BY <1>0, <1>2 DEF IInv, HistoryIntact, NumberedToHead
  <2> QED
    BY <1>0, <1>new, <2>1 DEF IInv, HistoryIntact, OneRowPerVersion
<1>5. NumberedToHead'
  <2>1. \A ver \in versions' : ver.version \in 1..current_version_num'[ver.secret]
    <3> TAKE ver \in versions'
    <3>1. CASE ver = new
      BY <1>0, <1>2, <1>3, <3>1
    <3>2. CASE ver \in versions
      <4>1. ver.secret \in Secrets /\ ver.version \in 1..current_version_num[ver.secret]
        BY <1>1, <3>2 DEF IInv, HistoryIntact, NumberedToHead, Version
      <4> QED
        BY <1>2, <1>3, <4>1
    <3> QED BY <1>new, <3>1, <3>2
  <2>2. ASSUME NEW t \in Secrets, NEW n \in 1..current_version_num'[t]
        PROVE  HasVersion(t, n)'
    <3>1. CASE n \in 1..current_version_num[t]
      BY <1>new, <3>1 DEF IInv, HistoryIntact, NumberedToHead, HasVersion, VersionsOf
    <3>2. CASE n \notin 1..current_version_num[t]
      <4>1. t = s /\ n = new.version
        BY <1>0, <1>2, <1>3, <2>2, <3>2
      <4> QED
        BY <1>0, <1>new, <4>1 DEF HasVersion, VersionsOf
    <3> QED BY <3>1, <3>2
  <2> QED
    BY <2>1, <2>2 DEF NumberedToHead
<1>6. ASSUME NEW q \in Requests PROVE RequestInv(q)'
  <2>1. /\ pc'[q] = IF q = r THEN "ok" ELSE pc[q]
        /\ pc'[q] = "ok" => q = r \/ pc[q] = "ok"
        /\ RequestInv(q)
    BY <1>1 DEF IInv
  <2>2. Started(q)'
    BY <2>1 DEF RequestInv, Started
  <2>3. Fresh(q)'
    <3> SUFFICES ASSUME tx[q].op = "create", pc'[q] \in InFlight PROVE Fresh(q)'
      BY DEF Fresh
    <3>1. q # r /\ pc'[q] = pc[q]
      BY <2>1 DEF InFlight
    <3>2. tx[q].secret # s /\ tx[q].secret \in Secrets
      BY <2>1, <3>1 DEF RequestInv, Started, InFlight
    <3> QED
      BY <1>2, <2>1, <3>1, <3>2 DEF RequestInv, Fresh, Exists
  <2>4. ReadsRow(q)'
    <3> SUFFICES ASSUME pc'[q] # "idle", tx[q].op # "create"
                 PROVE  tx[q].seen \in 1..current_version_num'[tx[q].secret]
      BY DEF ReadsRow
    <3>0. pc[q] # "idle"
      BY <2>1
    <3>1. tx[q].seen \in 1..current_version_num[tx[q].secret]
      BY <2>1, <3>0 DEF RequestInv, ReadsRow
    <3>2. tx[q].secret \in Secrets
      BY <2>1, <3>0 DEF RequestInv, Started
    <3> QED
      BY <1>2, <1>3, <3>1, <3>2
  <2>5. Copied(q)'
    BY <1>new, <2>1 DEF RequestInv, Copied, VersionsOf
  <2>6. HoldsHead(q)'
    <3> SUFFICES ASSUME tx[q].op \in {"update", "rollback"}, pc'[q] = "flushed"
                 PROVE  current_version_num'[tx[q].secret] = tx[q].seen
      BY DEF HoldsHead
    <3>1. q # r /\ pc[q] = "flushed" /\ tx[q].secret \in Secrets
      BY <2>1 DEF RequestInv, Started
    <3> QED
      BY <1>2, <2>1, <3>1 DEF RequestInv, HoldsHead
  <2>7. LockExclusive(q)'
    BY <1>1, <2>1 DEF RequestInv, LockExclusive, HoldsLock
  <2> QED
    BY <2>2, <2>3, <2>4, <2>5, <2>6, <2>7 DEF RequestInv
<1> QED
  BY <1>4, <1>5, <1>6 DEF IInv, HistoryIntact

LEMMA CommitCreateStep ==
  ASSUME IInv, NEW r \in Requests, CommitCreate(r)
  PROVE  IInv'
<1> DEFINE s == tx[r].secret
<1>1. /\ tx[r].op = "create" /\ pc[r] = "flushed"
      /\ s \in Secrets /\ tx[r].key \in Keys /\ tx[r].value \in Values /\ tx[r].seen = 0
      /\ current_version_num[s] = 0
      /\ \A q \in Requests \ {r} : tx[q].secret # s
  BY DEF IInv, TypeOK, RequestInv, Started, Fresh, Exists, CommitCreate, InFlight
<1>2. NewVersion(r) \in Version /\ NextVersion(r) = current_version_num[s] + 1
  BY <1>1 DEF NewVersion, NextVersion, Version
<1>3. TypeOK'
  BY <1>1, <1>2 DEF IInv, TypeOK, InFlight, Answered, CommitCreate, Goto
<1> QED
  BY <1>1, <1>2, <1>3, AppendStep DEF CommitCreate, Goto

LEMMA CommitVersionStep ==
  ASSUME IInv, NEW r \in Requests, CommitVersion(r)
  PROVE  IInv'
<1> DEFINE s == tx[r].secret
<1>1. /\ tx[r].op \in {"update", "rollback"} /\ pc[r] = "flushed"
      /\ s \in Secrets /\ tx[r].target \in Nat
      /\ current_version_num[s] \in Nat
      /\ current_version_num[s] = tx[r].seen
  BY DEF IInv, TypeOK, RequestInv, Started, HoldsHead, CommitVersion, Transaction
<1>2. current_version_num[s] > 0
  BY <1>1 DEF IInv, RequestInv, ReadsRow, Ops
<1>3. tx[r].value \in Values
  BY <1>1 DEF IInv, TypeOK, RequestInv, Started, Copied, VersionsOf, Version
<1>4. NewVersion(r) \in Version /\ NextVersion(r) = current_version_num[s] + 1
  BY <1>1, <1>3 DEF NewVersion, NextVersion, Version
<1>5. TypeOK'
  BY <1>1, <1>4 DEF IInv, TypeOK, InFlight, Answered, CommitVersion, Goto
<1>6. \A q \in Requests \ {r} :
         \/ tx[q].op = "create" /\ pc[q] \in InFlight
         \/ tx[q].op \in {"update", "rollback"} /\ pc[q] = "flushed"
         => tx[q].secret # s
  BY <1>1, <1>2 DEF IInv, RequestInv, Fresh, Exists, LockExclusive, HoldsLock
<1> QED
  BY <1>1, <1>4, <1>5, <1>6, AppendStep DEF CommitVersion, Goto

-----------------------------------------------------------------------------
(* Before the first request nothing is in flight, and a seeded secret has  *)
(* version 1 and no other.                                                 *)
LEMMA InitIInv == Init => IInv
<1> SUFFICES ASSUME Init PROVE IInv
  OBVIOUS
<1>1. PICK k \in [Seeded -> Keys], v \in [Seeded -> Values] :
        /\ key = [s \in Secrets |-> IF s \in Seeded THEN k[s] ELSE Null]
        /\ versions = {[secret |-> s, version |-> 1, value |-> v[s], restored |-> 0]
                         : s \in Seeded}
  BY DEF Init
<1>2. /\ is_deleted = [s \in Secrets |-> FALSE]
      /\ current_version_num = [s \in Secrets |-> IF s \in Seeded THEN 1 ELSE 0]
      /\ pc = [r \in Requests |-> "idle"]
      /\ tx = [r \in Requests |-> NoTransaction]
  BY DEF Init
<1>3. TypeOK
  BY <1>1, <1>2, SeededAssumption DEF TypeOK, Version, Transaction, NoTransaction, InFlight, Answered
<1>4. HistoryIntact
  <2>1. OneRowPerVersion
    BY <1>1 DEF OneRowPerVersion
  <2>2. \A ver \in versions : ver.version \in 1..current_version_num[ver.secret]
    BY <1>1, <1>2, SeededAssumption
  <2>3. ASSUME NEW s \in Secrets, NEW n \in 1..current_version_num[s]
        PROVE  HasVersion(s, n)
    <3>1. s \in Seeded /\ n = 1
      BY <1>2
    <3>2. [secret |-> s, version |-> 1, value |-> v[s], restored |-> 0] \in versions
      BY <1>1, <3>1
    <3> QED
      BY <3>1, <3>2 DEF HasVersion, VersionsOf
  <2> QED
    BY <2>1, <2>2, <2>3 DEF HistoryIntact, NumberedToHead
<1>5. ASSUME NEW r \in Requests PROVE RequestInv(r)
  BY <1>2 DEF RequestInv, Started, Fresh, ReadsRow, Copied, HoldsHead, LockExclusive, HoldsLock,
              NoTransaction, InFlight
<1> QED
  BY <1>3, <1>4, <1>5 DEF IInv

LEMMA NextIInv == IInv /\ [Next]_vars => IInv'
<1> SUFFICES ASSUME IInv, [Next]_vars PROVE IInv'
  OBVIOUS
<1>1. ASSUME NEW r \in Requests, Start(r) PROVE IInv'
  <2>1. PICK s \in Secrets :
           \/ \E k \in Keys, v \in Values : BeginCreate(r, s, k, v)
           \/ \E v \in Values : LoadUpdate(r, s, v)
           \/ \E n \in 1..current_version_num[s] + 1 : LoadRollback(r, s, n)
           \/ LoadDelete(r, s)
           \/ LoadReveal(r, s)
    BY <1>1 DEF Start
  <2>2. CASE \E k \in Keys, v \in Values : BeginCreate(r, s, k, v)
    BY <2>2, BeginCreateStep
  <2>3. CASE \E v \in Values : LoadUpdate(r, s, v)
    BY <2>3, LoadStep DEF LoadUpdate, Ops
  <2>4. CASE \E n \in 1..current_version_num[s] + 1 : LoadRollback(r, s, n)
    <3>1. PICK n \in 1..current_version_num[s] + 1 : Load(r, "rollback", s, Null, n)
      BY <2>4 DEF LoadRollback
    <3>2. n \in Nat
      BY <3>1
    <3> QED
      BY <3>1, <3>2, LoadStep DEF Ops
  <2>5. CASE LoadDelete(r, s)
    BY <2>5, LoadStep DEF LoadDelete, Ops
  <2>6. CASE LoadReveal(r, s)
    BY <2>6, LoadStep DEF LoadReveal, Ops
  <2> QED
    BY <2>1, <2>2, <2>3, <2>4, <2>5, <2>6
<1>2. ASSUME NEW r \in Requests, Advance(r) PROVE IInv'
  BY <1>2, ReadSteps, ReselectRollbackStep, RevealSteps, FlushSteps, CommitCreateStep,
     CommitVersionStep, CommitDeleteStep DEF Advance
<1>3. ASSUME NEW r \in Requests, Abort(r) PROVE IInv'
  BY <1>3, ReadSteps
<1>4. CASE UNCHANGED vars
  BY <1>4 DEF IInv, TypeOK, HistoryIntact, OneRowPerVersion, NumberedToHead, HasVersion,
              VersionsOf, RequestInv, Started, Fresh, ReadsRow, Copied, HoldsHead,
              LockExclusive, HoldsLock, Exists, vars, tables
<1> QED
  BY <1>1, <1>2, <1>3, <1>4 DEF Next

(* The inductive invariant holds in every reachable state.                 *)
THEOREM Inductive == Spec => []IInv
BY InitIInv, NextIInv, PTL DEF Spec

(* The tables and the transactions keep their types.                       *)
THEOREM TypeCorrect == Spec => []TypeOK
<1>1. IInv => TypeOK
  BY DEF IInv
<1> QED
  BY <1>1, Inductive, PTL

(* Whatever requests overlap, the versions of a secret are 1 up to         *)
(* current_version_num, one row each.                                      *)
THEOREM HistoryStaysIntact == Spec => []HistoryIntact
<1>1. IInv => HistoryIntact
  BY DEF IInv
<1> QED
  BY <1>1, Inductive, PTL

-----------------------------------------------------------------------------
(* Acknowledged writes.                                                    *)

(* What was committed once is never taken out of secret_versions, and the  *)
(* write set of an answered request does not change.                       *)
LEMMA AnsweredStays ==
  ASSUME TypeOK, [Next]_vars, NEW r \in Requests, pc[r] = "ok"
  PROVE  /\ pc'[r] = "ok" /\ tx'[r] = tx[r]
         /\ versions \subseteq versions'
<1>1. ASSUME NEW q \in Requests, NEW s \in Secrets,
             \/ \E k \in Keys, v \in Values : BeginCreate(q, s, k, v)
             \/ \E op \in Ops, v \in Values \cup {Null}, n \in Nat : Load(q, op, s, v, n)
      PROVE  pc'[r] = "ok" /\ tx'[r] = tx[r] /\ versions \subseteq versions'
  BY <1>1 DEF TypeOK, BeginCreate, Load, Goto, tables
<1>2. ASSUME NEW q \in Requests, Start(q)
      PROVE  pc'[r] = "ok" /\ tx'[r] = tx[r] /\ versions \subseteq versions'
  <2>1. PICK s \in Secrets :
           \/ \E k \in Keys, v \in Values : BeginCreate(q, s, k, v)
           \/ \E v \in Values : LoadUpdate(q, s, v)
           \/ \E n \in 1..current_version_num[s] + 1 : LoadRollback(q, s, n)
           \/ LoadDelete(q, s)
           \/ LoadReveal(q, s)
    BY <1>2 DEF Start
  <2>2. \A n \in 1..current_version_num[s] + 1 : n \in Nat
    OBVIOUS
  <2> QED
    BY <1>1, <2>1, <2>2 DEF LoadUpdate, LoadRollback, LoadDelete, LoadReveal, Ops
<1>3. ASSUME NEW q \in Requests, Advance(q) \/ Abort(q)
      PROVE  pc'[r] = "ok" /\ tx'[r] = tx[r] /\ versions \subseteq versions'
  <2>1. q # r
    BY <1>3 DEF Advance, Abort, FlushCreate, CommitCreate, ReselectUpdate, ReselectRollback,
                ReselectReveal, FetchHead, FlushVersion, CommitVersion, FlushDelete,
                CommitDelete, CommitReveal, InFlight
  <2>2. pc'[r] = "ok"
    BY <1>3, <2>1 DEF TypeOK, Advance, Abort, FlushCreate, CommitCreate, ReselectUpdate,
                ReselectRollback, ReselectReveal, FetchHead, FlushVersion, CommitVersion,
                FlushDelete, CommitDelete, CommitReveal, Goto
  <2>3. tx'[r] = tx[r]
    BY <1>3, <2>1 DEF TypeOK, Advance, Abort, FlushCreate, CommitCreate, ReselectUpdate,
                ReselectRollback, ReselectReveal, FetchHead, FlushVersion, CommitVersion,
                FlushDelete, CommitDelete, CommitReveal
  <2>4. versions \subseteq versions'
    BY <1>3 DEF Advance, Abort, FlushCreate, CommitCreate, ReselectUpdate, ReselectRollback,
                ReselectReveal, FetchHead, FlushVersion, CommitVersion, FlushDelete,
                CommitDelete, CommitReveal, tables
  <2> QED
    BY <2>2, <2>3, <2>4
<1>4. CASE UNCHANGED vars
  BY <1>4 DEF vars, tables
<1> QED
  BY <1>2, <1>3, <1>4 DEF Next

(* The step that acknowledges a write appends its version, which was not   *)
(* there before, and answers nobody else.                                  *)
LEMMA AcknowledgeStep ==
  ASSUME IInv, [Next]_vars, NEW r \in Requests, pc[r] # "ok", pc'[r] = "ok",
         tx'[r].op \in Writes
  PROVE  /\ tx'[r] = tx[r]
         /\ NewVersion(r) \in versions' /\ NewVersion(r) \notin versions
         /\ \A q \in Requests \ {r} : pc'[q] = pc[q]
<1>1. PICK p \in Requests : Start(p) \/ Advance(p) \/ Abort(p)
  BY DEF Next, vars
<1>2. p = r
  BY <1>1 DEF IInv, TypeOK, Start, BeginCreate, LoadUpdate, LoadRollback, LoadDelete, LoadReveal,
              Load, Advance, Abort, FlushCreate, CommitCreate, ReselectUpdate, ReselectRollback,
              ReselectReveal, FetchHead, FlushVersion, CommitVersion, FlushDelete, CommitDelete,
              CommitReveal, Goto
<1>3. ~Start(r) /\ ~Abort(r)
  BY DEF IInv, TypeOK, Start, BeginCreate, LoadUpdate, LoadRollback, LoadDelete, LoadReveal,
         Load, Abort, Goto
<1>4. CommitCreate(r) \/ CommitVersion(r)
  BY <1>1, <1>2, <1>3 DEF IInv, TypeOK, Advance, FlushCreate, ReselectUpdate, ReselectRollback,
              ReselectReveal, FetchHead, FlushVersion, FlushDelete, CommitDelete, CommitReveal,
              Goto, Writes
<1>5. UNCHANGED tx /\ versions' = versions \cup {NewVersion(r)}
  BY <1>4 DEF CommitCreate, CommitVersion
<1>6. \A q \in Requests \ {r} : pc'[q] = pc[q]
  BY <1>4 DEF IInv, TypeOK, CommitCreate, CommitVersion, Goto
<1>7. tx[r].secret \in Secrets /\ current_version_num[tx[r].secret] = tx[r].seen
  <2>1. CASE CommitCreate(r)
    BY <2>1 DEF IInv, TypeOK, RequestInv, Started, Fresh, Exists, CommitCreate, InFlight
  <2>2. CASE CommitVersion(r)
    BY <2>2 DEF IInv, RequestInv, Started, HoldsHead, CommitVersion
  <2> QED
    BY <1>4, <2>1, <2>2
<1>8. tx[r].seen \in Nat
  BY <1>7 DEF IInv, TypeOK
<1>9. NewVersion(r) \notin versions
  BY <1>7, <1>8 DEF IInv, HistoryIntact, NumberedToHead, NewVersion, NextVersion
<1> QED
  BY <1>5, <1>6, <1>9

(* Every create, update or rollback that was answered with success stands  *)
(* in the history under the number of its response, alone.                 *)
THEOREM NoWriteLost == Spec => []NoAcknowledgedWriteLost
<1>1. Init => NoAcknowledgedWriteLost
  BY DEF Init, NoAcknowledgedWriteLost
<1>2. IInv /\ NoAcknowledgedWriteLost /\ [Next]_vars => NoAcknowledgedWriteLost'
  <2> SUFFICES ASSUME IInv, NoAcknowledgedWriteLost, [Next]_vars,
                      NEW r \in Requests, pc'[r] = "ok", tx'[r].op \in Writes
               PROVE  /\ NewVersion(r)' \in versions'
                      /\ \A q \in Requests \ {r} :
                            pc'[q] = "ok" /\ tx'[q].op \in Writes => NewVersion(q)' # NewVersion(r)'
    BY DEF NoAcknowledgedWriteLost
  <2>1. \A q \in Requests : tx'[q] = tx[q] => NewVersion(q)' = NewVersion(q)
    BY DEF NewVersion, NextVersion
  <2>2. ASSUME NEW q \in Requests, pc[q] = "ok"
        PROVE  pc'[q] = "ok" /\ tx'[q] = tx[q] /\ versions \subseteq versions'
    BY <2>2, AnsweredStays DEF IInv
  <2>3. CASE pc[r] = "ok"
    <3>1. tx'[r] = tx[r] /\ NewVersion(r)' = NewVersion(r)
      BY <2>1, <2>2, <2>3
    <3>2. NewVersion(r) \in versions /\ versions \subseteq versions'
      BY <2>2, <2>3, <3>1 DEF NoAcknowledgedWriteLost
    <3>3. ASSUME NEW q \in Requests \ {r}, pc'[q] = "ok", tx'[q].op \in Writes
          PROVE  NewVersion(q)' # NewVersion(r)'
      <4>1. CASE pc[q] = "ok"
        BY <2>1, <2>2, <2>3, <3>1, <3>3, <4>1 DEF NoAcknowledgedWriteLost
      <4>2. CASE pc[q] # "ok"
        BY <2>1, <3>1, <3>2, <3>3, <4>2, AcknowledgeStep
      <4> QED BY <4>1, <4>2
    <3> QED
      BY <3>1, <3>2, <3>3
  <2>4. CASE pc[r] # "ok"
    <3>1. /\ tx'[r] = tx[r] /\ NewVersion(r)' = NewVersion(r)
          /\ NewVersion(r) \in versions' /\ NewVersion(r) \notin versions
          /\ \A q \in Requests \ {r} : pc'[q] = pc[q]
      BY <2>1, <2>4, AcknowledgeStep
    <3>2. ASSUME NEW q \in Requests \ {r}, pc'[q] = "ok", tx'[q].op \in Writes
          PROVE  NewVersion(q)' # NewVersion(r)'
      <4>1. pc[q] = "ok" /\ tx'[q] = tx[q]
        BY <2>2, <3>1, <3>2
      <4>2. NewVersion(q) \in versions
        BY <3>2, <4>1 DEF NoAcknowledgedWriteLost
      <4> QED
        BY <2>1, <3>1, <4>1, <4>2
    <3> QED
      BY <3>1, <3>2
  <2> QED
    BY <2>3, <2>4
<1> QED
  BY <1>1, <1>2, Inductive, PTL DEF Spec

-----------------------------------------------------------------------------
(* What a step does to the tables: nothing, or one commit.                 *)
LEMMA TableStep ==
  ASSUME [Next]_vars
  PROVE  \/ UNCHANGED tables
         \/ \E r \in Requests : CommitCreate(r) \/ CommitVersion(r) \/ CommitDelete(r)
BY DEF Next, vars, Start, BeginCreate, LoadUpdate, LoadRollback, LoadDelete, LoadReveal, Load,
       Advance, Abort, FlushCreate, ReselectUpdate, ReselectRollback, ReselectReveal, FetchHead,
       FlushVersion, FlushDelete, CommitReveal

(* The commit of a write appends one well-formed version right behind the  *)
(* head of its secret.                                                     *)
LEMMA CommitAppends ==
  ASSUME IInv, NEW r \in Requests, CommitCreate(r) \/ CommitVersion(r)
  PROVE  /\ tx[r].secret \in Secrets
         /\ NewVersion(r) \in Version
         /\ NewVersion(r).version = current_version_num[tx[r].secret] + 1
         /\ versions' = versions \cup {NewVersion(r)}
         /\ current_version_num' = [current_version_num EXCEPT
                                      ![tx[r].secret] = NewVersion(r).version]
         /\ UNCHANGED is_deleted
<1> DEFINE s == tx[r].secret
<1>1. CASE CommitCreate(r)
  <2>1. /\ tx[r].op = "create" /\ pc[r] = "flushed" /\ s \in Secrets
        /\ tx[r].value \in Values /\ tx[r].seen = 0
    BY <1>1 DEF IInv, TypeOK, RequestInv, Started, Fresh, CommitCreate, InFlight
  <2>2. current_version_num[s] = 0
    BY <1>1, <2>1 DEF IInv, TypeOK, RequestInv, Fresh, Exists, InFlight
  <2>3. NewVersion(r) \in Version /\ NewVersion(r).version = current_version_num[s] + 1
    BY <2>1, <2>2 DEF NewVersion, NextVersion, Version
  <2> QED
    BY <1>1, <2>1, <2>3 DEF CommitCreate, NewVersion
<1>2. CASE CommitVersion(r)
  <2>1. /\ tx[r].op \in {"update", "rollback"} /\ pc[r] = "flushed"
        /\ s \in Secrets /\ tx[r].target \in Nat
        /\ current_version_num[s] \in Nat
        /\ current_version_num[s] = tx[r].seen
    BY <1>2 DEF IInv, TypeOK, RequestInv, Started, HoldsHead, CommitVersion, Transaction
  <2>2. tx[r].value \in Values
    BY <2>1 DEF IInv, TypeOK, RequestInv, Started, Copied, VersionsOf, Version
  <2>3. NewVersion(r) \in Version /\ NewVersion(r).version = current_version_num[s] + 1
    BY <2>1, <2>2 DEF NewVersion, NextVersion, Version
  <2> QED
    BY <1>2, <2>1, <2>3 DEF CommitVersion, NewVersion
<1> QED
  BY <1>1, <1>2

(* No step takes a version away or undoes a deletion.                      *)
LEMMA TablesGrow ==
  ASSUME IInv, [Next]_vars
  PROVE  /\ versions \subseteq versions'
         /\ \A s \in Secrets : is_deleted[s] => is_deleted'[s]
<1>1. CASE UNCHANGED tables
  BY <1>1 DEF tables
<1>2. ASSUME NEW r \in Requests, CommitCreate(r) \/ CommitVersion(r)
      PROVE  versions \subseteq versions' /\ UNCHANGED is_deleted
  BY <1>2, CommitAppends
<1>3. ASSUME NEW r \in Requests, CommitDelete(r)
      PROVE  UNCHANGED versions /\ \A s \in Secrets : is_deleted[s] => is_deleted'[s]
  BY <1>3 DEF CommitDelete, IInv, TypeOK
<1> QED
  BY <1>1, <1>2, <1>3, TableStep

(* A deletion is acknowledged by its commit, and a reveal reaches its last *)
(* step through the fetch of a version.                                    *)
LEMMA AnswerStep ==
  ASSUME IInv, [Next]_vars, NEW r \in Requests, pc[r] # "ok", pc'[r] = "ok",
         tx'[r].op = "delete"
  PROVE  CommitDelete(r)
<1>1. PICK p \in Requests : Start(p) \/ Advance(p) \/ Abort(p)
  BY DEF Next, vars
<1>2. p = r
  BY <1>1 DEF IInv, TypeOK, Start, BeginCreate, LoadUpdate, LoadRollback, LoadDelete, LoadReveal,
              Load, Advance, Abort, FlushCreate, CommitCreate, ReselectUpdate, ReselectRollback,
              ReselectReveal, FetchHead, FlushVersion, CommitVersion, FlushDelete, CommitDelete,
              CommitReveal, Goto
<1>3. ~Start(r) /\ ~Abort(r)
  BY DEF IInv, TypeOK, Start, BeginCreate, LoadUpdate, LoadRollback, LoadDelete, LoadReveal,
         Load, Abort, Goto
<1> QED
  BY <1>1, <1>2, <1>3 DEF IInv, TypeOK, Advance, FlushCreate, CommitCreate, ReselectUpdate,
              ReselectRollback, ReselectReveal, FetchHead, FlushVersion, CommitVersion,
              FlushDelete, CommitReveal, Goto

LEMMA RevealStep ==
  ASSUME IInv, [Next]_vars, NEW r \in Requests, pc'[r] \in {"flushed", "ok"},
         tx'[r].op = "reveal"
  PROVE  \/ pc[r] \in {"flushed", "ok"} /\ tx'[r] = tx[r]
         \/ FetchHead(r)
<1>1. ASSUME NEW p \in Requests, p # r, Start(p) \/ Advance(p) \/ Abort(p)
      PROVE  pc'[r] = pc[r] /\ tx'[r] = tx[r]
  BY <1>1 DEF IInv, TypeOK, Start, BeginCreate, LoadUpdate, LoadRollback, LoadDelete, LoadReveal,
              Load, Advance, Abort, FlushCreate, CommitCreate, ReselectUpdate, ReselectRollback,
              ReselectReveal, FetchHead, FlushVersion, CommitVersion, FlushDelete, CommitDelete,
              CommitReveal, Goto
<1>2. ~Start(r) /\ ~Abort(r)
  BY DEF IInv, TypeOK, Start, BeginCreate, LoadUpdate, LoadRollback, LoadDelete, LoadReveal,
         Load, Abort, Goto
<1>3. Advance(r) => FetchHead(r) \/ CommitReveal(r)
  BY DEF IInv, TypeOK, Transaction, Advance, FlushCreate, CommitCreate, ReselectUpdate,
         ReselectRollback, ReselectReveal, FlushVersion, CommitVersion, FlushDelete, CommitDelete,
         Goto
<1>4. CommitReveal(r) => pc[r] = "flushed" /\ tx'[r] = tx[r]
  BY DEF CommitReveal
<1> QED
  BY <1>1, <1>2, <1>3, <1>4 DEF Next, vars

-----------------------------------------------------------------------------
(* A deletion that was acknowledged is never undone, by an update that     *)
(* read the secret live no more than by anything else.                     *)
THEOREM DeletionStays == Spec => []DeletionSticks
<1>1. Init => DeletionSticks
  BY DEF Init, DeletionSticks
<1>2. IInv /\ DeletionSticks /\ [Next]_vars => DeletionSticks'
  <2> SUFFICES ASSUME IInv, DeletionSticks, [Next]_vars,
                      NEW r \in Requests, pc'[r] = "ok", tx'[r].op = "delete"
               PROVE  is_deleted'[tx'[r].secret]
    BY DEF DeletionSticks
  <2>1. CASE pc[r] = "ok"
    <3>1. tx'[r] = tx[r]
      BY <2>1, AnsweredStays DEF IInv
    <3>2. tx[r].secret \in Secrets
      BY <2>1 DEF IInv, RequestInv, Started
    <3> QED
      BY <2>1, <3>1, <3>2, TablesGrow DEF DeletionSticks
  <2>2. CASE pc[r] # "ok"
    <3>1. CommitDelete(r)
      BY <2>2, AnswerStep
    <3>2. tx[r].secret \in Secrets
      BY <3>1 DEF IInv, RequestInv, Started, CommitDelete
    <3> QED
      BY <3>1, <3>2 DEF CommitDelete, IInv, TypeOK
  <2> QED
    BY <2>1, <2>2
<1> QED
  BY <1>1, <1>2, Inductive, PTL DEF Spec

(* The version a rollback appends repeats the plaintext of the older       *)
(* version it names.                                                       *)
THEOREM RollbacksRestore == Spec => []RollbackRestores
<1>1. Init => RollbackRestores
  BY DEF Init, RollbackRestores
<1>2. IInv /\ RollbackRestores /\ [Next]_vars => RollbackRestores'
  <2> SUFFICES ASSUME IInv, RollbackRestores, [Next]_vars,
                      NEW ver \in versions', ver.restored > 0
               PROVE  \E old \in VersionsOf(ver.secret)' :
                         /\ old.version = ver.restored
                         /\ old.version < ver.version
                         /\ old.value = ver.value
    BY DEF RollbackRestores
  <2>1. \A t : VersionsOf(t) \subseteq VersionsOf(t)'
    BY TablesGrow DEF VersionsOf
  <2>2. CASE ver \in versions
    BY <2>1, <2>2 DEF RollbackRestores
  <2>3. CASE ver \notin versions
    <3>1. PICK r \in Requests : CommitCreate(r) \/ CommitVersion(r)
      BY <2>3, TableStep DEF tables, CommitDelete
    <3>2. ver = NewVersion(r)
      BY <2>3, <3>1, CommitAppends
    <3>3. tx[r].op = "rollback" /\ pc[r] = "flushed" /\ ver.restored = tx[r].target
      BY <3>1, <3>2 DEF NewVersion, CommitVersion, CommitCreate
    <3>4. PICK old \in VersionsOf(tx[r].secret) :
             old.version = tx[r].target /\ old.value = tx[r].value
      BY <3>3 DEF IInv, RequestInv, Copied
    <3>5. /\ old \in versions /\ old.secret = tx[r].secret
          /\ current_version_num[tx[r].secret] \in Nat
          /\ ver.version = current_version_num[tx[r].secret] + 1
      BY <3>1, <3>2, CommitAppends DEF VersionsOf, IInv, TypeOK
    <3>6. old.version < ver.version
      BY <3>5 DEF IInv, HistoryIntact, NumberedToHead
    <3> QED
      BY <2>1, <3>2, <3>3, <3>4, <3>6 DEF NewVersion
  <2> QED
    BY <2>2, <2>3
<1> QED
  BY <1>1, <1>2, Inductive, PTL DEF Spec

(* A reveal answers with the number and the plaintext of one version.      *)
THEOREM RevealsAnswerTheirVersion == Spec => []RevealAnswersItsVersion
<1>1. Init => RevealAnswersItsVersion
  BY DEF Init, RevealAnswersItsVersion
<1>2. IInv /\ RevealAnswersItsVersion /\ [Next]_vars => RevealAnswersItsVersion'
  <2> SUFFICES ASSUME IInv, RevealAnswersItsVersion, [Next]_vars,
                      NEW r \in Requests, pc'[r] \in {"flushed", "ok"}, tx'[r].op = "reveal"
               PROVE  \E ver \in VersionsOf(tx[r].secret)' :
                         ver.version = tx'[r].seen /\ ver.value = tx'[r].value
    BY DEF RevealAnswersItsVersion
  <2>1. \A t : VersionsOf(t) \subseteq VersionsOf(t)'
    BY TablesGrow DEF VersionsOf
  <2>2. CASE pc[r] \in {"flushed", "ok"} /\ tx'[r] = tx[r]
    BY <2>1, <2>2 DEF RevealAnswersItsVersion
  <2>3. CASE FetchHead(r)
    <3>1. HasVersion(tx[r].secret, tx[r].seen) /\ tx[r].seen > 0
      BY <2>3, SeenVersionExists DEF FetchHead, Ops
    <3>2. tx' = [tx EXCEPT ![r].value = ValueOf(tx[r].secret, tx[r].seen)]
      BY <2>3, <3>1 DEF FetchHead
    <3>3. /\ tx'[r].secret = tx[r].secret /\ tx'[r].seen = tx[r].seen
          /\ tx'[r].value = ValueOf(tx[r].secret, tx[r].seen)
      BY <3>2 DEF IInv, TypeOK, Transaction
    <3>4. \E ver \in VersionsOf(tx[r].secret) :
             ver.version = tx[r].seen /\ ver.value = ValueOf(tx[r].secret, tx[r].seen)
      BY <3>1, ValueOfType DEF IInv
    <3> QED
      BY <2>1, <3>3, <3>4
  <2> QED
    BY <2>2, <2>3, RevealStep
<1> QED
  BY <1>1, <1>2, Inductive, PTL DEF Spec

-----------------------------------------------------------------------------
(* The store implements VersionedSecrets.                                  *)

(* The history the refinement mapping makes of the tables.                 *)
Contents == [s \in Secrets |-> [n \in 1..current_version_num[s] |-> ValueOf(s, n)]]

Gone == {s \in Secrets : is_deleted[s]}

LEMMA ContentsType ==
  ASSUME IInv
  PROVE  /\ \A s \in Secrets : /\ current_version_num[s] \in Nat
                               /\ Contents[s] \in Seq(Values)
                               /\ Len(Contents[s]) = current_version_num[s]
         /\ Contents \in [Secrets -> Seq(Values)]
<1>1. ASSUME NEW s \in Secrets
      PROVE  /\ current_version_num[s] \in Nat
             /\ Contents[s] \in [1..current_version_num[s] -> Values]
  <2>1. current_version_num[s] \in Nat
    BY DEF IInv, TypeOK
  <2>2. \A n \in 1..current_version_num[s] : ValueOf(s, n) \in Values
    BY ValueOfType DEF IInv, HistoryIntact, NumberedToHead
  <2> QED
    BY <2>1, <2>2 DEF Contents
<1>2. ASSUME NEW s \in Secrets
      PROVE  Contents[s] \in Seq(Values) /\ Len(Contents[s]) = current_version_num[s]
  BY <1>1
<1> QED
  BY <1>1, <1>2 DEF Contents

(* Appending the next version of a secret appends its value to the history *)
(* of that secret, and leaves every other value where it was: the row a    *)
(* number names is the only one with it.                                   *)
LEMMA AppendedContents ==
  ASSUME IInv, IInv', NEW s \in Secrets, NEW new \in Version, new.secret = s,
         new.version = current_version_num[s] + 1,
         versions' = versions \cup {new},
         current_version_num' = [current_version_num EXCEPT ![s] = new.version]
  PROVE  Contents' = [Contents EXCEPT ![s] = Append(@, new.value)]
<1>1. /\ current_version_num \in [Secrets -> Nat]
      /\ \A t \in Secrets : current_version_num[t] \in Nat
      /\ \A t \in Secrets : current_version_num'[t] =
            IF t = s THEN current_version_num[s] + 1 ELSE current_version_num[t]
  BY DEF IInv, TypeOK
<1>2. ASSUME NEW t \in Secrets, NEW n \in 1..current_version_num[t]
      PROVE  ValueOf(t, n)' = ValueOf(t, n)
  <2>1. PICK ver \in VersionsOf(t) : ver.version = n /\ ver.value = ValueOf(t, n)
    BY ValueOfType DEF IInv, HistoryIntact, NumberedToHead
  <2>2. ver \in VersionsOf(t)'
    BY <2>1 DEF VersionsOf
  <2>3. PICK now \in VersionsOf(t)' : now.version = n /\ now.value = ValueOf(t, n)'
    BY <2>1, <2>2 DEF ValueOf, VersionsOf
  <2>4. now = ver
    BY <2>1, <2>2, <2>3 DEF IInv, HistoryIntact, OneRowPerVersion, VersionsOf
  <2> QED
    BY <2>1, <2>3, <2>4
<1>3. ValueOf(s, new.version)' = new.value
  <2>1. new \in VersionsOf(s)'
    BY DEF VersionsOf
  <2>2. PICK now \in VersionsOf(s)' :
           now.version = new.version /\ now.value = ValueOf(s, new.version)'
    BY <2>1 DEF ValueOf, VersionsOf
  <2>3. now = new
    BY <2>1, <2>2 DEF IInv, HistoryIntact, OneRowPerVersion, VersionsOf
  <2> QED
    BY <2>2, <2>3
<1>4. \A t \in Secrets : /\ Contents[t] = [n \in 1..current_version_num[t] |-> ValueOf(t, n)]
                         /\ Contents'[t] = [n \in 1..current_version_num'[t] |-> ValueOf(t, n)']
  BY DEF Contents
<1>5. ASSUME NEW t \in Secrets, t # s PROVE Contents'[t] = Contents[t]
  <2>1. current_version_num'[t] = current_version_num[t]
    BY <1>1, <1>5
  <2>2. \A n \in 1..current_version_num[t] : ValueOf(t, n)' = ValueOf(t, n)
    BY <1>2
  <2>3. [n \in 1..current_version_num[t] |-> ValueOf(t, n)']
          = [n \in 1..current_version_num[t] |-> ValueOf(t, n)]
    BY <2>2
  <2> QED
    BY <1>4, <2>1, <2>3
<1>6. Contents'[s] = Append(Contents[s], new.value)
  <2>1. Contents[s] \in Seq(Values) /\ Len(Contents[s]) = current_version_num[s]
    BY ContentsType
  <2>2. Append(Contents[s], new.value) =
          [n \in 1..current_version_num[s] + 1 |->
             IF n = current_version_num[s] + 1 THEN new.value ELSE Contents[s][n]]
    BY <2>1
  <2>3. ASSUME NEW n \in 1..current_version_num[s] + 1
        PROVE  ValueOf(s, n)' = IF n = current_version_num[s] + 1 THEN new.value ELSE Contents[s][n]
    <3>1. CASE n = current_version_num[s] + 1
      BY <1>3, <3>1
    <3>2. CASE n # current_version_num[s] + 1
      <4>1. n \in 1..current_version_num[s]
        BY <1>1, <3>2
      <4>2. Contents[s][n] = ValueOf(s, n)
        BY <1>4, <4>1
      <4>3. ValueOf(s, n)' = ValueOf(s, n)
        BY <1>2, <4>1
      <4> QED
        BY <3>2, <4>2, <4>3
    <3> QED BY <3>1, <3>2
  <2>4. Contents'[s] = [n \in 1..current_version_num[s] + 1 |-> ValueOf(s, n)']
    BY <1>1, <1>4
  <2> QED
    BY <2>2, <2>3, <2>4
<1> QED
  BY <1>5, <1>6 DEF Contents

(* A commit of a write is one Write of the abstract store, a commit of a   *)
(* deletion one Delete (or nothing, when another request was first), and   *)
(* every other step changes nothing a client of the abstract store sees.   *)
THEOREM Implementation == Spec => ImplementsVersionedSecrets
<1>1. Init => Abstract!Init
  <2> SUFFICES ASSUME Init PROVE Contents \in [Secrets -> {<<>>} \cup {<<v>> : v \in Values}] /\ Gone = {}
    BY DEF Abstract!Init, Contents, Gone
  <2>1. IInv
    BY InitIInv
  <2>2. \A s \in Secrets : current_version_num[s] \in {0, 1}
    BY DEF Init
  <2>3. ASSUME NEW s \in Secrets PROVE Contents[s] \in {<<>>} \cup {<<v>> : v \in Values}
    <3>1. Contents[s] \in Seq(Values) /\ Len(Contents[s]) \in {0, 1}
      BY <2>1, <2>2, ContentsType
    <3>2. CASE Len(Contents[s]) = 0
      BY <3>1, <3>2
    <3>3. CASE Len(Contents[s]) = 1
      <4>1. Contents[s] = <<Contents[s][1]>> /\ Contents[s][1] \in Values
        BY <3>1, <3>3
      <4> QED
        BY <4>1
    <3> QED
      BY <3>1, <3>2, <3>3
  <2>4. Gone = {}
    BY DEF Gone, Init
  <2> QED
    BY <2>3, <2>4 DEF Contents
<1>2. IInv /\ IInv' /\ [Next]_vars => [Abstract!Next]_<<Contents, Gone>>
  <2> SUFFICES ASSUME IInv, IInv', [Next]_vars
               PROVE  Abstract!Next \/ (Contents' = Contents /\ Gone' = Gone)
    OBVIOUS
  <2>1. CASE UNCHANGED tables
    BY <2>1 DEF tables, Contents, Gone, ValueOf, VersionsOf
  <2>2. ASSUME NEW r \in Requests, CommitCreate(r) \/ CommitVersion(r)
        PROVE  Abstract!Next
    <3>1. PICK s \in Secrets, new \in Version :
             /\ new.secret = s
             /\ new.version = current_version_num[s] + 1
             /\ versions' = versions \cup {new}
             /\ current_version_num' = [current_version_num EXCEPT ![s] = new.version]
             /\ UNCHANGED is_deleted
      <4>1. NewVersion(r).secret = tx[r].secret
        BY DEF NewVersion
      <4> QED
        BY <2>2, <4>1, CommitAppends
    <3>2. Contents' = [Contents EXCEPT ![s] = Append(@, new.value)]
      BY <3>1, AppendedContents
    <3>3. Gone' = Gone /\ new.value \in Values
      BY <3>1 DEF Gone, Version
    <3>4. Abstract!Write(s, new.value)
      BY <3>2, <3>3 DEF Abstract!Write, Contents, Gone
    <3> QED
      BY <3>1, <3>3, <3>4 DEF Abstract!Next
  <2>3. ASSUME NEW r \in Requests, CommitDelete(r)
        PROVE  Abstract!Next
    <3>1. PICK s \in Secrets : s = tx[r].secret /\ tx[r].seen \in 1..current_version_num[s]
      BY <2>3 DEF CommitDelete, IInv, RequestInv, Started, ReadsRow
    <3>2. /\ UNCHANGED <<current_version_num, versions>>
          /\ is_deleted' = [is_deleted EXCEPT ![s] = TRUE]
          /\ is_deleted \in [Secrets -> BOOLEAN]
      BY <2>3, <3>1 DEF CommitDelete, IInv, TypeOK
    <3>3. Contents' = Contents
      BY <3>2 DEF Contents, ValueOf, VersionsOf
    <3>4. Gone' = Gone \cup {s}
      BY <3>1, <3>2 DEF Gone
    <3>5. Contents[s] # <<>>
      <4>1. Contents[s] \in Seq(Values) /\ Len(Contents[s]) = current_version_num[s]
            /\ current_version_num[s] \in Nat
        BY <3>1, ContentsType
      <4> QED
        BY <3>1, <4>1
    <3>6. Abstract!Delete(s)
      BY <3>3, <3>4, <3>5 DEF Abstract!Delete, Contents, Gone
    <3> QED
      BY <3>1, <3>6 DEF Abstract!Next
  <2> QED
    BY <2>1, <2>2, <2>3, TableStep
<1> QED
  BY <1>1, <1>2, Inductive, PTL DEF Spec, ImplementsVersionedSecrets, Abstract!Spec, Contents, Gone
=============================================================================
