------------------------ MODULE ChangeRequestsProofs ------------------------
(***************************************************************************)
(* Proofs about ChangeRequests: its steps are steps of the secret store,   *)
(* its rows keep their types, four eyes hold, what was applied took effect *)
(* and calls that do not overlap walk the state machine, for any number of *)
(* requests, changes and users.                                            *)
(***************************************************************************)
EXTENDS ChangeRequests, TLAPS

Proofs == INSTANCE SecretStoreProofs

(* A step of the store's part of the system is a step of the store.        *)
LEMMA ProceedIsStoreStep ==
  ASSUME IInv, NEW r \in Calls, MutateSecret(r)
  PROVE  Store!Next
<1>1. r \in Requests
  BY CallsAssumption
<1> DEFINE c   == call[r].change
           row == cr[c]
<1>2. CASE \E s \in Secrets : BeginCreate(r, s)
  <2>1. PICK s \in Secrets : BeginCreate(r, s)
    BY <1>2
  <2>2. Applying(r, {"create"})
        /\ Store!BeginCreate(r, s, row.proposed_key, row.proposed_value)
    BY <2>1 DEF BeginCreate
  <2>3. row.proposed_key \in Keys /\ row.proposed_value \in Values
    <3>1. c \in Changes /\ Applicable(c) /\ row.status # "none"
      BY <2>2 DEF IInv, CallInv, Applying
    <3> QED
      BY <3>1, <2>2 DEF IInv, RowInv, Applicable, Applying, TypeOK, Row
  <2> QED
    BY <1>1, <2>2, <2>3 DEF Store!Next, Store!Start
<1>3. CASE LoadSecret(r)
  <2>1. Applying(r, {"update"}) /\ Store!LoadUpdate(r, row.secret_id, row.proposed_value)
    BY <1>3 DEF LoadSecret
  <2>2. c \in Changes /\ Applicable(c)
    BY <2>1 DEF IInv, CallInv, Applying
  <2>3. row.secret_id \in Secrets /\ row.proposed_value \in Values
    BY <2>1, <2>2 DEF IInv, Applicable, Applying, TypeOK, Row
  <2> QED
    BY <1>1, <2>1, <2>3 DEF Store!Next, Store!Start
<1>4. CASE Store!FlushCreate(r) \/ Store!ReselectUpdate(r) \/ Store!FlushVersion(r)
  BY <1>1, <1>4 DEF Store!Next, Store!Advance
<1> QED
  BY <1>2, <1>3, <1>4 DEF MutateSecret

LEMMA StoreStep == IInv /\ [Next]_vars => [Store!Next]_(Store!vars)
<1> SUFFICES ASSUME IInv, [Next]_vars PROVE [Store!Next]_(Store!vars)
  OBVIOUS
<1> USE DEF storeVars, Store!vars, Store!tables
<1>1. CASE Submit
  BY <1>1 DEF Submit, Create
<1>2. CASE \E r \in Calls : Begin(r)
  BY <1>2 DEF Begin, ReadForReview, ReadForApply, ReadForCancel, Read
<1>3. CASE \E r \in Calls : MutateSecret(r)
  BY <1>3, ProceedIsStoreStep
<1>4. CASE \E r \in Calls : FlushRow(r) \/ CommitReview(r) \/ CommitCancel(r)
  BY <1>4 DEF FlushRow, CommitReview, CommitCancel
<1>5. CASE \E r \in Calls : CommitApply(r)
  <2>1. PICK r \in Calls : CommitApply(r)
    BY <1>5
  <2>2. UNCHANGED storeVars \/ Store!CommitVersion(r) \/ Store!CommitCreate(r)
    BY <2>1 DEF CommitApply
  <2> QED
    BY <2>2, CallsAssumption DEF Store!Next, Store!Advance
<1>6. CASE \E r \in Calls : AbortCall(r)
  BY <1>6, CallsAssumption DEF AbortCall, Store!Next
<1>7. CASE \E r \in Requests \ Calls : Direct(r)
  BY <1>7 DEF Direct, Store!Next
<1>8. CASE UNCHANGED vars
  BY <1>8 DEF vars
<1> QED
  BY <1>1, <1>2, <1>3, <1>4, <1>5, <1>6, <1>7, <1>8 DEF Next, Proceed

(* The module of the store's proofs instantiates the store a second time:  *)
(* the two copies of its invariant are one formula.                        *)
LEMMA SameIInv == (Store!IInv <=> Proofs!IInv) /\ (Store!IInv' <=> Proofs!IInv')
<1>1. Store!IInv <=> Proofs!IInv
  BY DEF Store!IInv, Proofs!IInv, Store!TypeOK, Proofs!TypeOK, Store!HistoryIntact,
       Proofs!HistoryIntact, Store!OneRowPerVersion, Proofs!OneRowPerVersion,
       Store!NumberedToHead, Proofs!NumberedToHead, Store!RequestInv,
       Proofs!RequestInv, Store!Started, Proofs!Started, Store!Fresh, Proofs!Fresh,
       Store!ReadsRow, Proofs!ReadsRow, Store!Copied, Proofs!Copied,
       Store!HoldsHead, Proofs!HoldsHead, Store!LockExclusive,
       Proofs!LockExclusive, Store!HoldsLock, Proofs!HoldsLock, Store!Exists,
       Proofs!Exists, Store!Version, Proofs!Version, Store!Ops, Proofs!Ops,
       Store!InFlight, Proofs!InFlight, Store!Answered, Proofs!Answered,
       Store!Transaction, Proofs!Transaction, Store!VersionsOf, Proofs!VersionsOf,
       Store!HasVersion, Proofs!HasVersion
<1>2. Store!IInv' <=> Proofs!IInv'
  BY DEF Store!IInv, Proofs!IInv, Store!TypeOK, Proofs!TypeOK, Store!HistoryIntact,
       Proofs!HistoryIntact, Store!OneRowPerVersion, Proofs!OneRowPerVersion,
       Store!NumberedToHead, Proofs!NumberedToHead, Store!RequestInv,
       Proofs!RequestInv, Store!Started, Proofs!Started, Store!Fresh, Proofs!Fresh,
       Store!ReadsRow, Proofs!ReadsRow, Store!Copied, Proofs!Copied,
       Store!HoldsHead, Proofs!HoldsHead, Store!LockExclusive,
       Proofs!LockExclusive, Store!HoldsLock, Proofs!HoldsLock, Store!Exists,
       Proofs!Exists, Store!Version, Proofs!Version, Store!Ops, Proofs!Ops,
       Store!InFlight, Proofs!InFlight, Store!Answered, Proofs!Answered,
       Store!Transaction, Proofs!Transaction, Store!VersionsOf, Proofs!VersionsOf,
       Store!HasVersion, Proofs!HasVersion
<1> QED
  BY <1>1, <1>2

LEMMA StoreInvStep == Store!IInv /\ [Store!Next]_(Store!vars) => Store!IInv'
<1>1. [Store!Next]_(Store!vars) <=> [Proofs!Next]_(Proofs!vars)
  BY DEF Store!Next, Proofs!Next, Store!Start, Proofs!Start, Store!Advance,
       Proofs!Advance, Store!Abort, Proofs!Abort, Store!BeginCreate,
       Proofs!BeginCreate, Store!FlushCreate, Proofs!FlushCreate,
       Store!CommitCreate, Proofs!CommitCreate, Store!Load, Proofs!Load,
       Store!LoadUpdate, Proofs!LoadUpdate, Store!LoadRollback,
       Proofs!LoadRollback, Store!LoadDelete, Proofs!LoadDelete, Store!LoadReveal,
       Proofs!LoadReveal, Store!ReselectUpdate, Proofs!ReselectUpdate,
       Store!ReselectRollback, Proofs!ReselectRollback, Store!ReselectReveal,
       Proofs!ReselectReveal, Store!FetchHead, Proofs!FetchHead,
       Store!FlushVersion, Proofs!FlushVersion, Store!CommitVersion,
       Proofs!CommitVersion, Store!FlushDelete, Proofs!FlushDelete,
       Store!CommitDelete, Proofs!CommitDelete, Store!CommitReveal,
       Proofs!CommitReveal, Store!Goto, Proofs!Goto, Store!tables, Proofs!tables,
       Store!vars, Proofs!vars, Store!Exists, Proofs!Exists, Store!LiveNamed,
       Proofs!LiveNamed, Store!Live, Proofs!Live, Store!VersionsOf,
       Proofs!VersionsOf, Store!HasVersion, Proofs!HasVersion, Store!ValueOf,
       Proofs!ValueOf, Store!HeadOf, Proofs!HeadOf, Store!HoldsLock,
       Proofs!HoldsLock, Store!RowLocked, Proofs!RowLocked, Store!NextVersion,
       Proofs!NextVersion, Store!NewVersion, Proofs!NewVersion, Store!InFlight,
       Proofs!InFlight
<1> QED
  BY <1>1, SameIInv, Proofs!NextIInv, StoreAssumption

LEMMA StoreInvInit == Store!Init => Store!IInv
<1>1. Store!Init <=> Proofs!Init
  BY DEF Store!Init, Proofs!Init, Store!NoTransaction, Proofs!NoTransaction
<1>2. Store!IInv <=> Proofs!IInv
  BY SameIInv
<1> QED
  BY <1>1, <1>2, Proofs!InitIInv, StoreAssumption

(* What the store part of the invariant says of the secret that an apply   *)
(* of a create is about to write into its row.                             *)
LEMMA SecretOfCall ==
  ASSUME Store!IInv, NEW r \in Requests, pc[r] # "idle"
  PROVE  tx[r].secret \in Secrets
BY DEF Store!IInv, Store!RequestInv, Store!Started

-----------------------------------------------------------------------------
(* A step that leaves the rows, the calls and the events alone.            *)
LEMMA SameRows ==
  ASSUME IInv, Store!IInv', UNCHANGED <<cr, call, trail, contended>>
  PROVE  IInv'
BY DEF IInv, TypeOK, RowInv, EventInv, CallInv, Approved, Applicable

LEMMA CreateStep ==
  ASSUME IInv, Store!IInv', NEW c \in Changes, NEW u \in Users, NEW type \in ChangeTypes,
         NEW s \in Secrets \cup {Null}, NEW k \in Keys, NEW v \in Values \cup {Null},
         Create(c, u, type, s, k, v)
  PROVE  IInv'
<1>1. /\ cr[c].status = "none"
      /\ UNCHANGED <<call, trail, contended>>
      /\ \A d \in Changes \ {c} : cr'[d] = cr[d]
      /\ cr'[c] = [status |-> "pending", change_type |-> type, secret_id |-> s,
                   proposed_key |-> k, proposed_value |-> v, requester_id |-> u,
                   reviewer_id |-> Null]
  BY DEF IInv, TypeOK, Create
<1>2. TypeOK'
  BY DEF IInv, TypeOK, Create, Row, Statuses, ChangeTypes
<1>3. \A d \in Changes : Approved(d) /\ cr[d].status # "none" => Approved(d)'
  BY <1>1 DEF Approved
<1>4. \A d \in Changes : RowInv(d)'
  BY <1>1, <1>3 DEF IInv, RowInv
<1>5. \A e \in trail' : EventInv(e)'
  BY <1>1 DEF IInv, EventInv, TypeOK, Event
<1>6. ASSUME NEW r \in Calls PROVE CallInv(r)'
  <2>1. CallInv(r)
    BY DEF IInv
  <2>2. CASE call[r].step = "idle"
    BY <1>1, <2>2 DEF CallInv
  <2>3. CASE call[r].step # "idle"
    <3>1. call[r].change \in Changes \ {c}
      BY <1>1, <2>1, <2>3 DEF CallInv
    <3> QED
      BY <1>1, <1>3, <2>1, <3>1 DEF CallInv, Applicable
  <2> QED
    BY <2>2, <2>3
<1> QED
  BY <1>2, <1>4, <1>5, <1>6 DEF IInv

LEMMA ReadStep ==
  ASSUME IInv, Store!IInv', NEW r \in Calls, NEW c \in Changes, NEW u \in Users \cup {Null},
         NEW action \in Statuses, NEW accepted \in BOOLEAN,
         Read(r, action, c, u, accepted),
         accepted /\ action = "approved" => u # cr[c].requester_id,
         accepted /\ action = "applied" => cr[c].status = "approved" /\ Applicable(c)
  PROVE  IInv'
<1>1. /\ UNCHANGED <<cr, trail>>
      /\ cr[c].status # "none"
      /\ \A q \in Calls \ {r} : call'[q] = call[q]
      /\ call'[r] = [action |-> action, change |-> c, actor |-> u,
                     step |-> IF accepted THEN "read" ELSE "failed"]
  BY DEF IInv, TypeOK, Read
<1>2. TypeOK'
  BY DEF IInv, TypeOK, Read, Call
<1>3. \A d \in Changes : (Approved(d) <=> Approved(d)') /\ (Applicable(d) <=> Applicable(d)')
  BY <1>1 DEF Approved, Applicable
<1>4. \A d \in Changes : RowInv(d)'
  BY <1>1, <1>3 DEF IInv, RowInv
<1>5. \A e \in trail' : EventInv(e)'
  BY <1>1 DEF IInv, EventInv
<1>6. CallInv(r)'
  <2>1. accepted /\ action = "applied" => Approved(c) /\ Applicable(c)
    BY DEF IInv, RowInv
  <2> QED
    BY <1>1, <1>3, <2>1 DEF CallInv
<1>7. \A q \in Calls \ {r} : CallInv(q)'
  BY <1>1, <1>3 DEF IInv, CallInv
<1> QED
  BY <1>2, <1>4, <1>5, <1>6, <1>7 DEF IInv

(* A call moves on without writing the row.                                *)
LEMMA StepStep ==
  ASSUME IInv, Store!IInv', NEW r \in Calls, NEW step \in {"flushed", "failed"},
         call[r].step \in {"read", "flushed"},
         call' = [call EXCEPT ![r].step = step], UNCHANGED <<cr, trail, contended>>
  PROVE  IInv'
<1>1. TypeOK'
  BY DEF IInv, TypeOK, Call
<1>2. \A d \in Changes : RowInv(d)'
  BY DEF IInv, RowInv, Approved
<1>3. \A e \in trail' : EventInv(e)'
  BY DEF IInv, EventInv
<1>4. ASSUME NEW q \in Calls PROVE CallInv(q)'
  <2>1. /\ CallInv(q)
        /\ call'[q].action = call[q].action /\ call'[q].change = call[q].change
        /\ call'[q].actor = call[q].actor
        /\ call'[q].step = call[q].step \/ (q = r /\ call'[q].step = step)
    BY DEF IInv, TypeOK, Call
  <2> QED
    BY <2>1 DEF CallInv, Approved, Applicable
<1> QED
  BY <1>1, <1>2, <1>3, <1>4 DEF IInv

(* A call commits: its event joins the trail, and of its row only the      *)
(* status, the reviewer and, for a create, the secret_id change.           *)
LEMMA CommitStep ==
  ASSUME IInv, Store!IInv', NEW r \in Calls, call[r].step = "flushed",
         Acknowledge(r), TypeOK',
         \A d \in Changes \ {call[r].change} : cr'[d] = cr[d],
         LET c == call[r].change
         IN  /\ cr'[c].status = call[r].action
             /\ cr'[c].change_type = cr[c].change_type
             /\ cr'[c].proposed_key = cr[c].proposed_key
             /\ cr'[c].proposed_value = cr[c].proposed_value
             /\ cr'[c].requester_id = cr[c].requester_id
             /\ cr[c].secret_id # Null => cr'[c].secret_id # Null
  PROVE  IInv'
<1> DEFINE c == call[r].change
           e == [request |-> r, change |-> c, action |-> call[r].action,
                 actor |-> call[r].actor]
<1>1. /\ c \in Changes /\ cr[c].status # "none"
      /\ call[r].action \in Statuses
      /\ call[r].action = "approved" => call[r].actor # cr[c].requester_id
  BY DEF IInv, CallInv
<1>2. trail' = trail \cup {e}
  BY DEF Acknowledge
<1>3. \A d \in Changes : Approved(d) => Approved(d)'
  BY <1>2 DEF Approved
<1>4. \A d \in Changes : Applicable(d) => Applicable(d)'
  BY <1>1 DEF Applicable
<1>5. ASSUME NEW d \in Changes, d = c, call[r].action = "approved" PROVE Approved(d)'
  <2>1. e \in trail' /\ e.change = d /\ e.action = "approved" /\ e.actor = call[r].actor
    BY <1>2, <1>5
  <2>2. e.actor # cr'[d].requester_id
    BY <1>1, <1>5, <2>1
  <2> HIDE DEF e
  <2> QED
    BY <2>1, <2>2 DEF Approved
<1>6. ASSUME NEW d \in Changes PROVE RowInv(d)'
  <2>1. RowInv(d)
    BY DEF IInv
  <2>2. CASE d # c
    BY <1>3, <2>1, <2>2 DEF RowInv
  <2>3. CASE d = c
    <3>1. cr'[d].status = "approved" => Approved(d)'
      BY <1>5, <2>3
    <3>2. cr'[d].requester_id \in Users /\ cr'[d].proposed_key \in Keys
      BY <1>1, <2>1, <2>3 DEF RowInv
    <3> QED
      BY <3>1, <3>2 DEF RowInv
  <2> QED
    BY <2>2, <2>3
<1>7. \A d \in Changes : cr[d].status # "none" => cr'[d].status # "none"
  BY <1>1 DEF Statuses
<1>8. ASSUME NEW d \in trail' PROVE EventInv(d)'
  BY <1>1, <1>2, <1>7 DEF IInv, EventInv, TypeOK, Event
<1>9. ASSUME NEW q \in Calls PROVE CallInv(q)'
  <2>1. /\ CallInv(q)
        /\ call'[q].action = call[q].action /\ call'[q].change = call[q].change
        /\ call'[q].actor = call[q].actor
        /\ call'[q].step = call[q].step \/ (q = r /\ call'[q].step = "ok")
    BY DEF IInv, TypeOK, Acknowledge, Call
  <2>2. \A d \in Changes : cr'[d].requester_id = cr[d].requester_id
    OBVIOUS
  <2> QED
    BY <1>3, <1>4, <1>7, <2>1, <2>2 DEF CallInv
<1> QED
  BY <1>6, <1>8, <1>9 DEF IInv

LEMMA CommitTypes ==
  ASSUME IInv, NEW r \in Calls, call[r].step = "flushed",
         CommitReview(r) \/ CommitCancel(r) \/ CommitApply(r)
  PROVE  /\ TypeOK'
         /\ Acknowledge(r)
         /\ \A d \in Changes \ {call[r].change} : cr'[d] = cr[d]
         /\ LET c == call[r].change
            IN  /\ cr'[c].status = call[r].action
                /\ cr'[c].change_type = cr[c].change_type
                /\ cr'[c].proposed_key = cr[c].proposed_key
                /\ cr'[c].proposed_value = cr[c].proposed_value
                /\ cr'[c].requester_id = cr[c].requester_id
                /\ cr[c].secret_id # Null => cr'[c].secret_id # Null
<1> DEFINE c == call[r].change
<1>1. /\ c \in Changes
      /\ call[r].action \in Statuses
      /\ call[r].actor \in Users \cup {Null}
      /\ cr \in [Changes -> Row]
  BY DEF IInv, CallInv, TypeOK, Call
<1>2. Acknowledge(r)
  <2>1. CommitReview(r) => Acknowledge(r)
    BY Zenon DEF CommitReview
  <2>2. CommitCancel(r) => Acknowledge(r)
    BY Zenon DEF CommitCancel
  <2>3. CommitApply(r) => Acknowledge(r)
    BY Zenon DEF CommitApply
  <2> QED
    BY <2>1, <2>2, <2>3, Zenon
<1>3. \/ cr' = [cr EXCEPT ![c] = [@ EXCEPT !.status = call[r].action,
                                           !.reviewer_id = call[r].actor]]
      \/ cr' = [cr EXCEPT ![c].status = call[r].action]
      \/ \E s \in Secrets :
            cr' = [cr EXCEPT ![c] = [@ EXCEPT !.status = call[r].action, !.secret_id = s]]
  <2>1. CASE Store!CommitCreate(r) /\ CommitApply(r)
    <3>1. tx[r].secret \in Secrets
      BY <2>1, CallsAssumption, SecretOfCall DEF IInv, Store!CommitCreate
    <3> QED
      BY <2>1, <3>1 DEF CommitApply
  <2>2. CASE CommitReview(r)
    BY <2>2 DEF CommitReview
  <2>3. CASE CommitCancel(r)
    BY <2>3 DEF CommitCancel
  <2>4. CASE CommitApply(r) /\ ~Store!CommitCreate(r)
    BY <2>4 DEF CommitApply
  <2> QED
    BY <2>1, <2>2, <2>3, <2>4, Zenon
<1>4. cr[c] \in Row
  BY <1>1, Zenon
<1>5. /\ cr'[c] \in Row
      /\ cr' = [cr EXCEPT ![c] = cr'[c]]
      /\ cr'[c].status = call[r].action
      /\ cr'[c].change_type = cr[c].change_type
      /\ cr'[c].proposed_key = cr[c].proposed_key
      /\ cr'[c].proposed_value = cr[c].proposed_value
      /\ cr'[c].requester_id = cr[c].requester_id
      /\ cr[c].secret_id # Null => cr'[c].secret_id # Null
  <2>1. CASE cr' = [cr EXCEPT ![c] = [@ EXCEPT !.status = call[r].action,
                                              !.reviewer_id = call[r].actor]]
    <3>1. cr'[c] = [cr[c] EXCEPT !.status = call[r].action, !.reviewer_id = call[r].actor]
      BY <1>1, <2>1
    <3> QED
      BY <1>1, <1>4, <2>1, <3>1 DEF Row
  <2>2. CASE cr' = [cr EXCEPT ![c].status = call[r].action]
    <3>1. cr'[c] = [cr[c] EXCEPT !.status = call[r].action]
      BY <1>1, <2>2
    <3> QED
      BY <1>1, <1>4, <2>2, <3>1 DEF Row
  <2>3. CASE \E s \in Secrets :
               cr' = [cr EXCEPT ![c] = [@ EXCEPT !.status = call[r].action, !.secret_id = s]]
    <3>1. PICK s \in Secrets :
             cr' = [cr EXCEPT ![c] = [@ EXCEPT !.status = call[r].action, !.secret_id = s]]
      BY <2>3
    <3>2. cr'[c] = [cr[c] EXCEPT !.status = call[r].action, !.secret_id = s]
      BY <1>1, <3>1
    <3> QED
      BY <1>1, <1>4, <3>1, <3>2, StoreAssumption DEF Row
  <2> QED
    BY <1>3, <2>1, <2>2, <2>3
<1>6. cr' \in [Changes -> Row] /\ \A d \in Changes \ {c} : cr'[d] = cr[d]
  BY <1>1, <1>5
<1>7. call' \in [Calls -> Call] /\ trail' \subseteq Event /\ contended' \subseteq Changes
  BY <1>1, <1>2 DEF IInv, TypeOK, Acknowledge, Call, Event
<1> QED
  BY <1>2, <1>5, <1>6, <1>7 DEF TypeOK

-----------------------------------------------------------------------------
LEMMA InitIInv == Init => IInv
<1> SUFFICES ASSUME Init PROVE IInv
  OBVIOUS
<1>1. Store!IInv
  BY StoreInvInit DEF Init
<1>2. TypeOK
  BY DEF Init, TypeOK, Row, NoRow, Statuses, ChangeTypes, Call, NoCall
<1>3. /\ \A c \in Changes : RowInv(c)
      /\ \A e \in trail : EventInv(e)
      /\ \A r \in Calls : CallInv(r)
  BY DEF Init, RowInv, EventInv, CallInv, NoRow, NoCall
<1> QED
  BY <1>1, <1>2, <1>3 DEF IInv

LEMMA NextIInv == IInv /\ [Next]_vars => IInv'
<1> SUFFICES ASSUME IInv, [Next]_vars PROVE IInv'
  OBVIOUS
<1>1. Store!IInv'
  BY StoreStep, StoreInvStep DEF IInv
<1>2. CASE Submit
  BY <1>1, <1>2, CreateStep DEF Submit
<1>3. ASSUME NEW r \in Calls, Begin(r) PROVE IInv'
  <2>1. PICK c \in Changes :
           \/ \E decision \in {"approved", "rejected"}, u \in Users :
                 ReadForReview(r, decision, c, u)
           \/ ReadForApply(r, c)
           \/ ReadForCancel(r, c)
    BY <1>3 DEF Begin
  <2>2. CASE \E decision \in {"approved", "rejected"}, u \in Users :
                ReadForReview(r, decision, c, u)
    <3>1. PICK decision \in {"approved", "rejected"}, u \in Users :
             Read(r, decision, c, u, cr[c].status = "pending" /\ cr[c].requester_id # u)
      BY <2>2 DEF ReadForReview
    <3>2. decision \in Statuses /\ u \in Users \cup {Null}
      BY DEF Statuses
    <3> QED
      BY <1>1, <3>1, <3>2, ReadStep
  <2>3. CASE ReadForApply(r, c)
    BY <1>1, <2>3, ReadStep DEF ReadForApply, Statuses
  <2>4. CASE ReadForCancel(r, c)
    <3> DEFINE accepted == cr[c].status \in {"pending", "approved"}
    <3>1. Read(r, "cancelled", c, Null, accepted)
      BY <2>4 DEF ReadForCancel
    <3>2. accepted \in BOOLEAN /\ "cancelled" \in Statuses
      BY DEF Statuses
    <3> HIDE DEF accepted
    <3> QED
      BY <1>1, <3>1, <3>2, ReadStep
  <2> QED
    BY <2>1, <2>2, <2>3, <2>4
<1>4. ASSUME NEW r \in Calls, Proceed(r) PROVE IInv'
  <2>1. CASE MutateSecret(r)
    BY <1>1, <2>1, SameRows DEF MutateSecret
  <2>2. CASE FlushRow(r)
    BY <1>1, <2>2, StepStep DEF FlushRow
  <2>3. CASE CommitReview(r) \/ CommitCancel(r) \/ CommitApply(r)
    <3>1. call[r].step = "flushed"
      BY <2>3 DEF CommitReview, CommitCancel, CommitApply
    <3> QED
      BY <1>1, <2>3, <3>1, CommitTypes, CommitStep
  <2> QED
    BY <1>4, <2>1, <2>2, <2>3 DEF Proceed
<1>5. ASSUME NEW r \in Calls, AbortCall(r) PROVE IInv'
  BY <1>1, <1>5, StepStep DEF AbortCall, Active
<1>6. CASE \E r \in Requests \ Calls : Direct(r)
  BY <1>1, <1>6, SameRows DEF Direct
<1>7. CASE UNCHANGED vars
  BY <1>1, <1>7, SameRows DEF vars
<1> QED
  BY <1>2, <1>3, <1>4, <1>5, <1>6, <1>7 DEF Next

-----------------------------------------------------------------------------
(* The invariant of the two components together.                           *)
THEOREM Inductive == Spec => []IInv
BY InitIInv, NextIInv, PTL DEF Spec

(* The rows of change requests, the calls on them and their audit events   *)
(* keep their types.                                                       *)
THEOREM TypeCorrect == Spec => []TypeOK
<1>1. IInv => TypeOK
  BY DEF IInv
<1> QED
  BY <1>1, Inductive, PTL

(* No secret is ever changed on behalf of a change request that nobody but *)
(* its requester approved, for any number of overlapping calls.            *)
THEOREM FourEyesHold == Spec => []FourEyes
<1>1. IInv => FourEyes
  BY DEF IInv, CallInv, FourEyes
<1> QED
  BY <1>1, Inductive, PTL

(* Applying change requests is using the secret store: every behaviour of  *)
(* the two is, of the store, a behaviour its own module allows.            *)
THEOREM StoreImplemented == Spec => ImplementsSecretStore
<1>1. Init => Store!Init
  BY DEF Init
<1> QED
  BY <1>1, StoreStep, Inductive, PTL DEF Spec, ImplementsSecretStore, Store!Spec

-----------------------------------------------------------------------------
(* What a step leaves alone.                                               *)
LEMMA StoreFrame ==
  ASSUME Store!TypeOK, NEW q \in Requests, NEW r \in Requests, q # r,
         Store!Start(q) \/ Store!Advance(q) \/ Store!Abort(q)
  PROVE  pc'[r] = pc[r] /\ tx'[r] = tx[r]
BY DEF Store!TypeOK, Store!Start, Store!BeginCreate, Store!LoadUpdate, Store!LoadRollback,
       Store!LoadDelete, Store!LoadReveal, Store!Load, Store!Advance, Store!Abort,
       Store!FlushCreate, Store!CommitCreate, Store!ReselectUpdate, Store!ReselectRollback,
       Store!ReselectReveal, Store!FetchHead, Store!FlushVersion, Store!CommitVersion,
       Store!FlushDelete, Store!CommitDelete, Store!CommitReveal, Store!Goto

LEMMA VersionsGrow ==
  ASSUME [Store!Next]_(Store!vars)
  PROVE  versions \subseteq versions'
BY DEF Store!Next, Store!vars, Store!tables, Store!Start, Store!BeginCreate, Store!LoadUpdate,
       Store!LoadRollback, Store!LoadDelete, Store!LoadReveal, Store!Load, Store!Advance,
       Store!Abort, Store!FlushCreate, Store!CommitCreate, Store!ReselectUpdate,
       Store!ReselectRollback, Store!ReselectReveal, Store!FetchHead, Store!FlushVersion,
       Store!CommitVersion, Store!FlushDelete, Store!CommitDelete, Store!CommitReveal

(* A call that takes no step keeps its place and its transaction.          *)
LEMMA CallFrame ==
  ASSUME IInv, [Next]_vars, NEW r \in Calls
  PROVE  \/ call'[r] = call[r] /\ pc'[r] = pc[r] /\ tx'[r] = tx[r]
         \/ Begin(r) \/ Proceed(r) \/ AbortCall(r)
<1> DEFINE Still == call'[r] = call[r] /\ pc'[r] = pc[r] /\ tx'[r] = tx[r]
<1>1. r \in Requests /\ Store!TypeOK
  BY CallsAssumption DEF IInv, Store!IInv
<1>2. CASE Submit \/ UNCHANGED vars
  BY <1>2 DEF Submit, Create, vars, storeVars
<1>3. ASSUME NEW q \in Calls, q # r, Begin(q) PROVE Still
  BY <1>3 DEF Begin, ReadForReview, ReadForApply, ReadForCancel, Read, storeVars, IInv, TypeOK
<1>4. ASSUME NEW q \in Calls, q # r, MutateSecret(q) PROVE Still
  BY <1>1, <1>4 DEF MutateSecret, BeginCreate, LoadSecret, Store!TypeOK, Store!BeginCreate,
       Store!LoadUpdate, Store!Load, Store!FlushCreate, Store!ReselectUpdate,
       Store!FlushVersion, Store!Goto
<1>5. ASSUME NEW q \in Calls, q # r, FlushRow(q) \/ CommitReview(q) \/ CommitCancel(q)
      PROVE  Still
  BY <1>5 DEF FlushRow, CommitReview, CommitCancel, Acknowledge, storeVars, IInv, TypeOK
<1>6. ASSUME NEW q \in Calls, q # r, CommitApply(q) PROVE Still
  <2>1. call'[r] = call[r]
    BY <1>6 DEF CommitApply, Acknowledge, IInv, TypeOK
  <2>2. pc'[r] = pc[r] /\ tx'[r] = tx[r]
    BY <1>1, <1>6 DEF CommitApply, storeVars, Store!TypeOK, Store!CommitVersion,
         Store!CommitCreate, Store!Goto
  <2> QED
    BY <2>1, <2>2
<1>7. ASSUME NEW q \in Calls, q # r, AbortCall(q) PROVE Still
  BY <1>1, <1>7 DEF AbortCall, storeVars, Store!Abort, Store!Goto, Store!TypeOK, IInv, TypeOK
<1>8. ASSUME NEW q \in Requests \ Calls, Direct(q) PROVE Still
  BY <1>1, <1>8, StoreFrame DEF Direct
<1> QED
  BY <1>2, <1>3, <1>4, <1>5, <1>6, <1>7, <1>8 DEF Next, Proceed

(* A row changes its status by the commit of a call on it; what was        *)
(* proposed never changes, and the secret it names only when the create it *)
(* proposes is applied.                                                    *)
LEMMA RowFrame ==
  ASSUME IInv, [Next]_vars, NEW c \in Changes, cr[c].status # "none"
  PROVE  /\ cr'[c].change_type = cr[c].change_type
         /\ cr'[c].proposed_value = cr[c].proposed_value
         /\ \/ cr'[c] = cr[c]
            \/ \E q \in Calls : /\ CommitReview(q) \/ CommitCancel(q) \/ CommitApply(q)
                                /\ call[q].step = "flushed" /\ call[q].change = c
                                /\ cr'[c].status = call[q].action
         /\ \/ cr'[c].secret_id = cr[c].secret_id
            \/ \E q \in Calls : /\ CommitApply(q) /\ Store!CommitCreate(q)
                                /\ call[q].change = c
<1>1. CASE \/ Submit \/ UNCHANGED vars
           \/ \E q \in Calls : Begin(q) \/ MutateSecret(q) \/ FlushRow(q) \/ AbortCall(q)
           \/ \E q \in Requests \ Calls : Direct(q)
  <2>1. cr'[c] = cr[c]
    BY <1>1 DEF Submit, Create, vars, Begin, ReadForReview, ReadForApply, ReadForCancel, Read,
         MutateSecret, FlushRow, AbortCall, Direct, IInv, TypeOK
  <2> QED
    BY <2>1
<1>2. ASSUME NEW q \in Calls, CommitReview(q) \/ CommitCancel(q) \/ CommitApply(q)
      PROVE  /\ cr'[c].change_type = cr[c].change_type
             /\ cr'[c].proposed_value = cr[c].proposed_value
             /\ \/ cr'[c] = cr[c]
                \/ /\ call[q].step = "flushed" /\ call[q].change = c
                   /\ cr'[c].status = call[q].action
             /\ \/ cr'[c].secret_id = cr[c].secret_id
                \/ CommitApply(q) /\ Store!CommitCreate(q) /\ call[q].change = c
  <2>1. call[q].step = "flushed"
    BY <1>2 DEF CommitReview, CommitCancel, CommitApply
  <2>2. CASE call[q].change # c
    BY <1>2, <2>1, <2>2, CommitTypes
  <2>3. CASE call[q].change = c
    <3>1. /\ cr'[c].change_type = cr[c].change_type
          /\ cr'[c].proposed_value = cr[c].proposed_value
          /\ cr'[c].status = call[q].action
      BY <1>2, <2>1, <2>3, CommitTypes
    <3>2. cr'[c].secret_id = cr[c].secret_id \/ (CommitApply(q) /\ Store!CommitCreate(q))
      BY <1>2, <2>3 DEF CommitReview, CommitCancel, CommitApply, IInv, TypeOK, Row
    <3> QED
      BY <2>1, <2>3, <3>1, <3>2
  <2> QED
    BY <2>2, <2>3
<1> QED
  BY <1>1, <1>2 DEF Next, Proceed

-----------------------------------------------------------------------------
(* An apply does in the store what its row says.                           *)
LEMMA FaithfulStep ==
  ASSUME IInv, EffectInv, [Next]_vars, NEW r \in Calls
  PROVE  Faithful(r)'
<1> DEFINE c == call[r].change
<1>1. Faithful(r) /\ CallInv(r)
  BY DEF EffectInv, IInv
<1>2. CASE call'[r] = call[r] /\ pc'[r] = pc[r] /\ tx'[r] = tx[r]
  <2>1. CASE call[r].step = "idle"
    BY <1>1, <1>2, <2>1 DEF Faithful, Mutating
  <2>2. CASE call[r].step # "idle"
    <3>1. c \in Changes /\ cr[c].status # "none"
      BY <1>1, <2>2 DEF CallInv
    <3>2. /\ cr'[c].change_type = cr[c].change_type
          /\ cr'[c].proposed_value = cr[c].proposed_value
      BY <3>1, RowFrame
    <3>3. Mutating(r)' <=> Mutating(r)
      BY <1>2, <3>2 DEF Mutating
    <3>4. ASSUME tx[r].op = "update", pc[r] # "idle", call[r].step \in {"read", "flushed"}
          PROVE  cr'[c].secret_id = cr[c].secret_id
      <4>1. cr[c].change_type = "update"
        BY <1>1, <3>4 DEF Faithful
      <4>2. ASSUME NEW q \in Calls, CommitApply(q), Store!CommitCreate(q), call[q].change = c
            PROVE  FALSE
        <5>1. Faithful(q)
          BY DEF EffectInv
        <5>2. tx[q].op = "create" /\ pc[q] = "flushed" /\ call[q].step = "flushed"
          BY <4>2 DEF CommitApply, Store!CommitCreate
        <5> QED
          BY <4>1, <4>2, <5>1, <5>2 DEF Faithful
      <4> QED
        BY <3>1, <4>2, RowFrame
    <3> QED
      BY <1>1, <1>2, <2>2, <3>2, <3>3, <3>4 DEF Faithful
  <2> QED
    BY <2>1, <2>2
<1>3. CASE Begin(r)
  <2>1. /\ call[r].step = "idle" /\ UNCHANGED <<pc, tx>>
        /\ call'[r].step \in {"read", "failed"}
    BY <1>3 DEF Begin, ReadForReview, ReadForApply, ReadForCancel, Read, storeVars, IInv, TypeOK
  <2>2. pc[r] = "idle"
    BY <1>1, <2>1 DEF Faithful, Mutating
  <2> QED
    BY <2>1, <2>2 DEF Faithful
<1>4. CASE MutateSecret(r)
  <2>1. /\ UNCHANGED <<cr, call>>
        /\ call[r].step = "read" /\ call[r].action = "applied"
        /\ cr[c].change_type \in {"create", "update"}
    BY <1>4 DEF MutateSecret, BeginCreate, LoadSecret, Applying
  <2>2. Mutating(r)' /\ call'[r].step = "read"
    BY <2>1 DEF Mutating
  <2>3. r \in Requests /\ Store!TypeOK
    BY CallsAssumption DEF IInv, Store!IInv
  <2>4. /\ tx'[r].op = cr[c].change_type
        /\ tx'[r].value = cr[c].proposed_value
        /\ tx'[r].op = "update" => tx'[r].secret = cr[c].secret_id
    <3>1. CASE \E s \in Secrets : BeginCreate(r, s)
      BY <2>3, <3>1 DEF BeginCreate, Applying, Store!BeginCreate, Store!TypeOK
    <3>2. CASE LoadSecret(r)
      BY <2>3, <3>2 DEF LoadSecret, Applying, Store!LoadUpdate, Store!Load, Store!TypeOK
    <3>3. CASE Store!FlushCreate(r) \/ Store!ReselectUpdate(r) \/ Store!FlushVersion(r)
      <4>1. pc[r] # "idle" /\ UNCHANGED tx
        BY <3>3 DEF Store!FlushCreate, Store!ReselectUpdate, Store!FlushVersion
      <4> QED
        BY <1>1, <2>1, <4>1 DEF Faithful
    <3> QED
      BY <1>4, <3>1, <3>2, <3>3 DEF MutateSecret
  <2> QED
    BY <2>1, <2>2, <2>4 DEF Faithful
<1>5. CASE FlushRow(r)
  <2>1. /\ UNCHANGED <<cr, pc, tx>>
        /\ call[r].step = "read" /\ call'[r] = [call[r] EXCEPT !.step = "flushed"]
        /\ Applying(r, {"create", "update"}) => pc[r] = "flushed"
    BY <1>5 DEF FlushRow, storeVars, IInv, TypeOK
  <2>2. /\ call'[r].step = "flushed" /\ call'[r].action = call[r].action
        /\ call'[r].change = call[r].change
    BY <2>1 DEF IInv, TypeOK, Call
  <2> QED
    BY <1>1, <2>1, <2>2 DEF Faithful, Mutating, Applying
<1>6. CASE CommitReview(r) \/ CommitCancel(r) \/ CommitApply(r) \/ AbortCall(r)
  <2>1. call'[r].step \in {"ok", "failed"}
    BY <1>6 DEF CommitReview, CommitCancel, CommitApply, AbortCall, Acknowledge, IInv, TypeOK, Call
  <2> QED
    BY <2>1 DEF Faithful
<1> QED
  BY <1>2, <1>3, <1>4, <1>5, <1>6, CallFrame DEF Proceed

(* The commit of an apply leaves its version in the history.               *)
LEMMA ApplyTakesEffect ==
  ASSUME IInv, EffectInv, NEW q \in Calls, CommitApply(q),
         cr[call[q].change].change_type \in {"create", "update"}
  PROVE  /\ pc'[q] = "ok"
         /\ call'[q].step = "ok" /\ call'[q].action = "applied"
         /\ call'[q].change = call[q].change
         /\ \E ver \in versions' : /\ ver.secret = cr'[call[q].change].secret_id
                                   /\ ver.version = tx'[q].seen + 1
                                   /\ ver.value = cr'[call[q].change].proposed_value
<1> DEFINE c == call[q].change
<1>1. /\ call[q].step = "flushed" /\ call[q].action = "applied"
      /\ Faithful(q) /\ q \in Requests /\ c \in Changes
      /\ Store!TypeOK /\ cr \in [Changes -> Row] /\ call \in [Calls -> Call]
  BY CallsAssumption DEF CommitApply, EffectInv, IInv, CallInv, TypeOK, Store!IInv
<1>2. call'[q].step = "ok" /\ call'[q].action = "applied" /\ call'[q].change = c
  BY <1>1 DEF CommitApply, Acknowledge, Call
<1>3. /\ tx[q].op = cr[c].change_type
      /\ tx[q].value = cr[c].proposed_value
      /\ tx[q].op = "update" => tx[q].secret = cr[c].secret_id
  BY <1>1 DEF Faithful, Mutating
<1>4. /\ cr'[c].proposed_value = cr[c].proposed_value
      /\ cr'[c].secret_id = tx[q].secret
      /\ Store!CommitVersion(q) \/ Store!CommitCreate(q)
  <2>1. CASE Store!CommitVersion(q) /\ cr' = [cr EXCEPT ![c].status = "applied"]
    BY <1>1, <1>3, <2>1 DEF Store!CommitVersion, Row
  <2>2. CASE /\ Store!CommitCreate(q)
             /\ cr' = [cr EXCEPT ![c] = [@ EXCEPT !.status = "applied", !.secret_id = tx[q].secret]]
    BY <1>1, <2>2 DEF Row
  <2> QED
    BY <2>1, <2>2 DEF CommitApply
<1>5. /\ versions' = versions \cup {Store!NewVersion(q)}
      /\ pc'[q] = "ok" /\ tx' = tx
  BY <1>1, <1>4 DEF Store!CommitVersion, Store!CommitCreate, Store!Goto, Store!TypeOK
<1>6. /\ Store!NewVersion(q).secret = tx[q].secret
      /\ Store!NewVersion(q).version = tx[q].seen + 1
      /\ Store!NewVersion(q).value = tx[q].value
  BY DEF Store!NewVersion, Store!NextVersion
<1> QED
  BY <1>2, <1>3, <1>4, <1>5, <1>6

LEMMA EffectStep ==
  ASSUME IInv, EffectInv, [Next]_vars, NEW c \in Changes
  PROVE  Effect(c)'
<1> SUFFICES ASSUME cr'[c].status = "applied", cr'[c].change_type \in {"create", "update"}
             PROVE  \E r \in Calls :
                       /\ call'[r].step = "ok"
                       /\ call'[r].action = "applied"
                       /\ call'[r].change = c
                       /\ pc'[r] = "ok"
                       /\ \E ver \in versions' : /\ ver.secret = cr'[c].secret_id
                                                 /\ ver.version = tx'[r].seen + 1
                                                 /\ ver.value = cr'[c].proposed_value
  BY DEF Effect
<1>1. cr[c].status # "none"
  <2> SUFFICES ASSUME cr[c].status = "none" PROVE FALSE
    OBVIOUS
  <2>1. CASE Submit
    BY <2>1 DEF Submit, Create, IInv, TypeOK
  <2>2. ASSUME NEW q \in Calls, CommitReview(q) \/ CommitCancel(q) \/ CommitApply(q)
        PROVE  FALSE
    <3>1. call[q].step = "flushed"
      BY <2>2 DEF CommitReview, CommitCancel, CommitApply
    <3>2. call[q].change # c
      BY <3>1 DEF IInv, CallInv
    <3> QED
      BY <2>2, <3>1, <3>2, CommitTypes
  <2>3. CASE \/ UNCHANGED vars
             \/ \E q \in Calls : Begin(q) \/ MutateSecret(q) \/ FlushRow(q) \/ AbortCall(q)
             \/ \E q \in Requests \ Calls : Direct(q)
    BY <2>3 DEF vars, Begin, ReadForReview, ReadForApply, ReadForCancel, Read, MutateSecret,
         FlushRow, AbortCall, Direct
  <2> QED
    BY <2>1, <2>2, <2>3 DEF Next, Proceed
<1>2. CASE cr'[c] = cr[c]
  <2>1. Effect(c)
    BY DEF EffectInv
  <2>2. PICK r \in Calls :
           /\ call[r].step = "ok" /\ call[r].action = "applied" /\ call[r].change = c
           /\ pc[r] = "ok"
           /\ \E ver \in versions : /\ ver.secret = cr[c].secret_id
                                    /\ ver.version = tx[r].seen + 1
                                    /\ ver.value = cr[c].proposed_value
    BY <1>2, <2>1 DEF Effect
  <2>3. ~Begin(r) /\ ~Proceed(r) /\ ~AbortCall(r)
    BY <2>2 DEF Begin, ReadForReview, ReadForApply, ReadForCancel, Read, Proceed, MutateSecret,
         BeginCreate, LoadSecret, Applying, FlushRow, CommitReview, CommitCancel, CommitApply,
         AbortCall, Active
  <2>4. call'[r] = call[r] /\ pc'[r] = pc[r] /\ tx'[r] = tx[r]
    BY <2>3, CallFrame
  <2>5. versions \subseteq versions'
    BY StoreStep, VersionsGrow
  <2> QED
    BY <1>2, <2>2, <2>4, <2>5, Zenon
<1>3. ASSUME NEW q \in Calls, CommitReview(q) \/ CommitCancel(q) \/ CommitApply(q),
             call[q].change = c, cr'[c].status = call[q].action
      PROVE  /\ CommitApply(q)
             /\ cr[c].change_type \in {"create", "update"}
  BY <1>1, <1>3, RowFrame DEF CommitReview, CommitCancel
<1> QED
  BY <1>1, <1>2, <1>3, RowFrame, ApplyTakesEffect

(* A change request that says applied was applied: the version its call    *)
(* was acknowledged with is in the history of the secret the row names.    *)
THEOREM ChangesTookEffect == Spec => []AppliedTookEffect
<1>1. Init => EffectInv
  <2> SUFFICES ASSUME Init PROVE EffectInv
    OBVIOUS
  <2>1. \A r \in Calls : pc[r] = "idle" /\ call[r].step = "idle"
    BY CallsAssumption DEF Init, Store!Init, NoCall
  <2>2. \A c \in Changes : cr[c].status = "none"
    BY DEF Init, NoRow
  <2> QED
    BY <2>1, <2>2 DEF EffectInv, Faithful, Mutating, Effect
<1>2. IInv /\ EffectInv /\ [Next]_vars => EffectInv'
  BY FaithfulStep, EffectStep DEF EffectInv
<1>3. EffectInv => AppliedTookEffect
  BY DEF EffectInv, Effect, AppliedTookEffect
<1> QED
  BY <1>1, <1>2, <1>3, Inductive, PTL DEF Spec

-----------------------------------------------------------------------------
(* A call that is about to commit is active: what it does in the store has *)
(* not failed.                                                             *)
LEMMA CommitterActive ==
  ASSUME EffectInv, NEW q \in Calls, call[q].step = "flushed"
  PROVE  Active(q)
<1>1. Faithful(q)
  BY DEF EffectInv
<1> QED
  BY <1>1 DEF Faithful, Active

(* Only a call that was active, or begins, is active after a step, and one *)
(* that begins next to another makes the change contended.                 *)
LEMMA ActiveFrame ==
  ASSUME IInv, EffectInv, [Next]_vars, NEW r \in Calls, Active(r)',
         call'[r].change \notin contended'
  PROVE  \/ Active(r) /\ call'[r].change = call[r].change /\ call'[r].action = call[r].action
         \/ /\ \E c \in Changes :
                  \/ \E decision \in {"approved", "rejected"}, u \in Users :
                        ReadForReview(r, decision, c, u)
                  \/ ReadForApply(r, c)
                  \/ ReadForCancel(r, c)
            /\ \A q \in Calls : Active(q) => call[q].change # call'[r].change
<1>1. CASE call'[r] = call[r] /\ pc'[r] = pc[r]
  BY <1>1 DEF Active
<1>2. CASE Begin(r)
  <2>1. \A c : call'[r].change = c /\ contended' = contended \cup
                 {d \in {c} : \E q \in Calls : Active(q) /\ call[q].change = c} =>
                 \A q \in Calls : Active(q) => call[q].change # c
    OBVIOUS
  <2>2. ASSUME NEW action, NEW c, NEW u, NEW accepted, Read(r, action, c, u, accepted)
        PROVE  \A q \in Calls : Active(q) => call[q].change # call'[r].change
    <3>1. call'[r].change = c
      BY <2>2 DEF Read, IInv, TypeOK
    <3> QED
      BY <2>1, <2>2, <3>1 DEF Read
  <2> QED
    BY <1>2, <2>2 DEF Begin, ReadForReview, ReadForApply, ReadForCancel
<1>3. CASE MutateSecret(r)
  <2>1. UNCHANGED call /\ call[r].step = "read" /\ pc[r] # "failed"
    BY <1>3 DEF MutateSecret, BeginCreate, LoadSecret, Applying, Store!BeginCreate,
         Store!LoadUpdate, Store!Load, Store!FlushCreate, Store!ReselectUpdate,
         Store!FlushVersion
  <2> QED
    BY <2>1 DEF Active
<1>4. CASE FlushRow(r)
  <2>1. /\ call[r].step = "read" /\ pc' = pc
        /\ call'[r].action = call[r].action /\ call'[r].change = call[r].change
    BY <1>4 DEF FlushRow, storeVars, IInv, TypeOK, Call
  <2> QED
    BY <2>1 DEF Active
<1>5. CASE CommitReview(r) \/ CommitCancel(r) \/ CommitApply(r) \/ AbortCall(r)
  <2>1. call'[r].step \in {"ok", "failed"}
    BY <1>5 DEF CommitReview, CommitCancel, CommitApply, AbortCall, Acknowledge, IInv, TypeOK, Call
  <2> QED
    BY <2>1 DEF Active
<1> QED
  BY <1>1, <1>2, <1>3, <1>4, <1>5, CallFrame DEF Proceed

(* The status of a row that an active, uncontended call has checked is     *)
(* changed by the commit of that call only, which ends it.                 *)
LEMMA CheckedStays ==
  ASSUME IInv, EffectInv, AloneInv, [Next]_vars, NEW r \in Calls, Active(r), Active(r)',
         call[r].change \notin contended
  PROVE  cr'[call[r].change].status = cr[call[r].change].status
<1> DEFINE c == call[r].change
<1>1. c \in Changes /\ cr[c].status # "none"
  BY DEF IInv, CallInv, Active
<1>2. ASSUME NEW q \in Calls, CommitReview(q) \/ CommitCancel(q) \/ CommitApply(q),
             call[q].step = "flushed", call[q].change = c
      PROVE  FALSE
  <2>1. q = r
    BY <1>2, CommitterActive DEF AloneInv
  <2>2. call'[r].step = "ok"
    BY <1>2, <2>1 DEF CommitReview, CommitCancel, CommitApply, Acknowledge, IInv, TypeOK, Call
  <2> QED
    BY <2>2 DEF Active
<1> QED
  BY <1>1, <1>2, RowFrame

LEMMA AloneStep ==
  ASSUME IInv, EffectInv, AloneInv, [Next]_vars, NEW r \in Calls, Active(r)',
         call'[r].change \notin contended'
  PROVE  /\ call'[r].action \in DOMAIN Checked
         /\ cr'[call'[r].change].status \in Checked[call'[r].action]
         /\ \A q \in Calls : Active(q)' /\ call'[q].change = call'[r].change => q = r
<1>1. contended \subseteq contended'
  BY DEF Next, vars, Submit, Create, Begin, ReadForReview, ReadForApply, ReadForCancel, Read,
     Proceed, MutateSecret, FlushRow, CommitReview, CommitCancel, CommitApply, Acknowledge,
     AbortCall, Direct
<1> DEFINE Begins(q) ==
      \E c \in Changes :
         \/ \E decision \in {"approved", "rejected"}, u \in Users : ReadForReview(q, decision, c, u)
         \/ ReadForApply(q, c)
         \/ ReadForCancel(q, c)
<1>2. ASSUME NEW q \in Calls, Begins(q)
      PROVE  \A p \in Calls \ {q} : call'[p] = call[p] /\ (Active(p)' => Active(p))
  BY <1>2 DEF ReadForReview, ReadForApply, ReadForCancel, Read, storeVars, Active, IInv, TypeOK
<1>3. CASE Active(r) /\ call'[r].change = call[r].change /\ call'[r].action = call[r].action
  <2>1. call[r].change \notin contended
    BY <1>1, <1>3
  <2>2. /\ call[r].action \in DOMAIN Checked
        /\ cr[call[r].change].status \in Checked[call[r].action]
        /\ \A q \in Calls : Active(q) /\ call[q].change = call[r].change => q = r
    BY <1>3, <2>1 DEF AloneInv
  <2>3. cr'[call[r].change].status = cr[call[r].change].status
    BY <1>3, <2>1, CheckedStays
  <2>4. ASSUME NEW q \in Calls, Active(q)', call'[q].change = call'[r].change PROVE q = r
    BY <1>3, <2>2, <2>4, ActiveFrame
  <2> QED
    BY <1>3, <2>2, <2>3, <2>4
<1>4. CASE Begins(r) /\ \A q \in Calls : Active(q) => call[q].change # call'[r].change
  <2>1. /\ call'[r].action \in DOMAIN Checked
        /\ cr'[call'[r].change].status \in Checked[call'[r].action]
    <3>1. ASSUME NEW c \in Changes, NEW decision \in {"approved", "rejected"}, NEW u \in Users,
                 ReadForReview(r, decision, c, u)
          PROVE  /\ call'[r].action = decision /\ call'[r].change = c
                 /\ cr' = cr /\ cr[c].status = "pending"
      BY <3>1 DEF ReadForReview, Read, Active, IInv, TypeOK
    <3>2. ASSUME NEW c \in Changes, ReadForApply(r, c)
          PROVE  /\ call'[r].action = "applied" /\ call'[r].change = c
                 /\ cr' = cr /\ cr[c].status = "approved"
      BY <3>2 DEF ReadForApply, Read, Active, IInv, TypeOK
    <3>3. ASSUME NEW c \in Changes, ReadForCancel(r, c)
          PROVE  /\ call'[r].action = "cancelled" /\ call'[r].change = c
                 /\ cr' = cr /\ cr[c].status \in {"pending", "approved"}
      BY <3>3 DEF ReadForCancel, Read, Active, IInv, TypeOK
    <3>4. CASE \E c \in Changes, decision \in {"approved", "rejected"}, u \in Users :
                  ReadForReview(r, decision, c, u)
      BY <3>1, <3>4 DEF Checked
    <3>5. CASE \E c \in Changes : ReadForApply(r, c)
      BY <3>2, <3>5 DEF Checked
    <3>6. CASE \E c \in Changes : ReadForCancel(r, c)
      BY <3>3, <3>6 DEF Checked
    <3> QED
      BY <1>4, <3>4, <3>5, <3>6
  <2>2. ASSUME NEW q \in Calls, Active(q)', call'[q].change = call'[r].change PROVE q = r
    BY <1>2, <1>4, <2>2
  <2> QED
    BY <2>1, <2>2
<1> QED
  BY <1>3, <1>4, ActiveFrame, Zenon

(* Calls on a change request that do not overlap apply it only out of      *)
(* approved, review it only out of pending, and leave what is applied,     *)
(* rejected or cancelled so.                                               *)
THEOREM StateMachineKept == Spec => UncontendedStateMachine
<1>1. Init => EffectInv /\ AloneInv
  <2> SUFFICES ASSUME Init PROVE EffectInv /\ AloneInv
    OBVIOUS
  <2>1. \A r \in Calls : pc[r] = "idle" /\ call[r].step = "idle"
    BY CallsAssumption DEF Init, Store!Init, NoCall
  <2>2. \A c \in Changes : cr[c].status = "none"
    BY DEF Init, NoRow
  <2> QED
    BY <2>1, <2>2 DEF EffectInv, Faithful, Mutating, Effect, AloneInv, Active
<1>2. IInv /\ EffectInv /\ AloneInv /\ [Next]_vars => EffectInv' /\ AloneInv'
  BY FaithfulStep, EffectStep, AloneStep DEF EffectInv, AloneInv
<1>3. IInv /\ EffectInv /\ AloneInv /\ [Next]_vars =>
        \A c \in Changes \ contended :
          LET old == cr[c].status
              new == cr'[c].status
          IN  old \notin {"none", new} => old \in DOMAIN Follows /\ new \in Follows[old]
  <2> SUFFICES ASSUME IInv, EffectInv, AloneInv, [Next]_vars, NEW c \in Changes \ contended,
                      cr[c].status \notin {"none", cr'[c].status}
               PROVE  cr[c].status \in DOMAIN Follows /\ cr'[c].status \in Follows[cr[c].status]
    OBVIOUS
  <2>1. PICK q \in Calls : /\ call[q].step = "flushed" /\ call[q].change = c
                           /\ cr'[c].status = call[q].action
    BY RowFrame
  <2>2. call[q].action \in DOMAIN Checked /\ cr[c].status \in Checked[call[q].action]
    BY <2>1, CommitterActive DEF AloneInv
  <2> QED
    BY <2>1, <2>2 DEF Checked, Follows
<1> QED
  BY <1>1, <1>2, <1>3, Inductive, PTL DEF Spec, UncontendedStateMachine
=============================================================================
