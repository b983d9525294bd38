-------------------------- MODULE ManagedKeysProofs --------------------------
(***************************************************************************)
(* Proofs about ManagedKeys: types, and that every ciphertext opens.       *)
(*                                                                         *)
(* The claim is about the end of a request; what makes it true is that no  *)
(* two versions of a key have one number.  That in turn rests on what      *)
(* requests carry: a rotation between its flush and its commit has checked *)
(* that its number is free and holds the row alone, and a creation owns a  *)
(* key that nobody knows.                                                  *)
(***************************************************************************)
EXTENDS ManagedKeys, TLAPS

(* What was read, given away or presented is a version that exists.        *)
Known ==
    /\ current \subseteq versions /\ sealed \subseteq versions
    /\ \A r \in Requests :
          /\ op[r] # "create" => seen[r] \subseteq versions
          /\ wanted[r] \subseteq sealed

(* A key of which there is a version has a row, and two versions differ.   *)
Numbered ==
    /\ \A v \in versions : \E w \in current : w.key = v.key
    /\ \A v, w \in versions : v.key = w.key /\ v.version = w.version => v = w

(* A creation under way owns its key, and makes one version.               *)
CreatesFresh ==
    \A r \in Requests : op[r] = "create" => \A v \in seen[r] :
        /\ \A w \in seen[r] : w = v
        /\ \A w \in versions : w.key # v.key
        /\ \A q \in Requests \ {r} : op[q] = "create" => \A w \in seen[q] : w.key # v.key

Rotating(r) == step[r] = "flushed" /\ op[r] = "rotate"

(* A rotation that has flushed makes a number that is not there, alone.    *)
RotatesNext ==
    \A r \in Requests : Rotating(r) => \A v \in seen[r] :
        /\ \A w \in versions : w.key = v.key => w.version # v.version + 1
        /\ \A q \in Requests \ {r} : Rotating(q) => \A w \in seen[q] : w.key # v.key

(* A request opens with the key that it was asked to open with.            *)
OpensItsKey ==
    \A r \in Requests : op[r] = "open" => \A v \in seen[r], c \in wanted[r] : v.key = c.key

IInv ==
    /\ TypeOK /\ Known /\ Numbered /\ CreatesFresh /\ RotatesNext /\ OpensItsKey
    /\ EveryCiphertextOpens

LEMMA InitIInv == Init => IInv
  BY DEF Init, IInv, TypeOK, Known, Numbered, CreatesFresh, RotatesNext, Rotating,
         OpensItsKey, EveryCiphertextOpens, Version, Steps, Ops

LEMMA CreateStep ==
    ASSUME IInv, NEW r \in Requests, NEW k \in Keys, Create(r, k)
    PROVE  IInv'
<1> USE DEF IInv, Create, Begin, Of, tables
<1>1. TypeOK'
  BY DEF TypeOK, Version, Ops, Steps
<1>2. Known'
  BY DEF TypeOK, Known
<1>3. Numbered'
  BY DEF TypeOK, Known, Numbered, CreatesFresh, RotatesNext, Rotating
<1>4. CreatesFresh'
  BY DEF TypeOK, Known, Numbered, CreatesFresh
<1>5. RotatesNext'
  BY DEF TypeOK, Known, RotatesNext, Rotating, CreatesFresh
<1>6. OpensItsKey'
  BY DEF TypeOK, OpensItsKey
<1>7. EveryCiphertextOpens'
  BY DEF TypeOK, Known, Numbered, OpensItsKey, EveryCiphertextOpens
<1> QED
  BY <1>1, <1>2, <1>3, <1>4, <1>5, <1>6, <1>7

LEMMA ReadToChangeStep ==
    ASSUME IInv, NEW r \in Requests, NEW k \in Keys, ReadToChange(r, k)
    PROVE  IInv'
<1> USE DEF IInv, ReadToChange, Read, Begin, Of, tables
<1>1. TypeOK'
  BY DEF TypeOK, Version, Ops, Steps
<1>2. Known'
  BY DEF TypeOK, Known
<1>3. Numbered'
  BY DEF TypeOK, Known, Numbered, CreatesFresh, RotatesNext, Rotating
<1>4. CreatesFresh'
  BY DEF TypeOK, Known, Numbered, CreatesFresh
<1>5. RotatesNext'
  BY DEF TypeOK, Known, RotatesNext, Rotating, CreatesFresh
<1>6. OpensItsKey'
  BY DEF TypeOK, OpensItsKey
<1>7. EveryCiphertextOpens'
  BY DEF TypeOK, Known, Numbered, OpensItsKey, EveryCiphertextOpens
<1> QED
  BY <1>1, <1>2, <1>3, <1>4, <1>5, <1>6, <1>7

LEMMA ReadToOpenStep ==
    ASSUME IInv, NEW r \in Requests, NEW c \in sealed, NEW b \in BOOLEAN, ReadToOpen(r, c, b)
    PROVE  IInv'
<1> USE DEF IInv, ReadToOpen, Read, Begin, Of, tables
<1>1. TypeOK'
  BY DEF TypeOK, Version, Ops, Steps
<1>2. Known'
  BY DEF TypeOK, Known
<1>3. Numbered'
  BY DEF TypeOK, Known, Numbered, CreatesFresh, RotatesNext, Rotating
<1>4. CreatesFresh'
  BY DEF TypeOK, Known, Numbered, CreatesFresh
<1>5. RotatesNext'
  BY DEF TypeOK, Known, RotatesNext, Rotating, CreatesFresh
<1>6. OpensItsKey'
  BY DEF TypeOK, OpensItsKey
<1>7. EveryCiphertextOpens'
  BY DEF TypeOK, Known, Numbered, OpensItsKey, EveryCiphertextOpens
<1> QED
  BY <1>1, <1>2, <1>3, <1>4, <1>5, <1>6, <1>7

LEMMA FlushRotateStep ==
    ASSUME IInv, NEW r \in Requests, FlushRotate(r)
    PROVE  IInv'
<1> USE DEF IInv, FlushRotate, Goto, End, RowFree, HoldsLock, Of, tables
<1>1. TypeOK'
  BY DEF TypeOK, Version, Ops, Steps
<1>2. Known'
  BY DEF TypeOK, Known
<1>3. Numbered'
  BY DEF TypeOK, Known, Numbered, CreatesFresh, RotatesNext, Rotating
<1>4. CreatesFresh'
  BY DEF TypeOK, Known, Numbered, CreatesFresh
<1>5. RotatesNext'
  BY DEF TypeOK, Known, RotatesNext, Rotating, CreatesFresh
<1>6. OpensItsKey'
  BY DEF TypeOK, OpensItsKey
<1>7. EveryCiphertextOpens'
  BY DEF TypeOK, Known, Numbered, OpensItsKey, EveryCiphertextOpens
<1> QED
  BY <1>1, <1>2, <1>3, <1>4, <1>5, <1>6, <1>7

LEMMA FlushDisableStep ==
    ASSUME IInv, NEW r \in Requests, FlushDisable(r)
    PROVE  IInv'
<1> USE DEF IInv, FlushDisable, Goto, Of, tables
<1>1. TypeOK'
  BY DEF TypeOK, Version, Ops, Steps
<1>2. Known'
  BY DEF TypeOK, Known
<1>3. Numbered'
  BY DEF TypeOK, Known, Numbered, CreatesFresh, RotatesNext, Rotating
<1>4. CreatesFresh'
  BY DEF TypeOK, Known, Numbered, CreatesFresh
<1>5. RotatesNext'
  BY DEF TypeOK, Known, RotatesNext, Rotating, CreatesFresh
<1>6. OpensItsKey'
  BY DEF TypeOK, OpensItsKey
<1>7. EveryCiphertextOpens'
  BY DEF TypeOK, Known, Numbered, OpensItsKey, EveryCiphertextOpens
<1> QED
  BY <1>1, <1>2, <1>3, <1>4, <1>5, <1>6, <1>7

LEMMA CommitCreateStep ==
    ASSUME IInv, NEW r \in Requests, CommitCreate(r)
    PROVE  IInv'
<1> USE DEF IInv, CommitCreate, End, Of, tables
<1>1. TypeOK'
  BY DEF TypeOK, Version, Ops, Steps
<1>2. Known'
  BY DEF TypeOK, Known
<1>3. Numbered'
  BY DEF TypeOK, Known, Numbered, CreatesFresh, RotatesNext, Rotating
<1>4. CreatesFresh'
  BY DEF TypeOK, Known, Numbered, CreatesFresh
<1>5. RotatesNext'
  BY DEF TypeOK, Known, RotatesNext, Rotating, CreatesFresh
<1>6. OpensItsKey'
  BY DEF TypeOK, OpensItsKey
<1>7. EveryCiphertextOpens'
  BY DEF TypeOK, Known, Numbered, OpensItsKey, EveryCiphertextOpens
<1> QED
  BY <1>1, <1>2, <1>3, <1>4, <1>5, <1>6, <1>7

LEMMA CommitRotateStep ==
    ASSUME IInv, NEW r \in Requests, CommitRotate(r)
    PROVE  IInv'
<1> USE DEF IInv, CommitRotate, End, NextVersion, Of, tables
<1>1. TypeOK'
  BY DEF TypeOK, Version, Ops, Steps
<1>2. Known'
  BY DEF TypeOK, Known
<1>3. Numbered'
  <2>1. PICK v \in seen[r] :
           /\ current' = (current \ Of(current, v.key)) \cup {NextVersion(r, v)}
           /\ versions' = versions \cup {NextVersion(r, v)}
    BY DEF CommitRotate
  <2>2. NextVersion(r, v).key = v.key /\ NextVersion(r, v).version = v.version + 1
    BY DEF NextVersion
  <2>3. \A w \in versions : w.key = v.key => w.version # v.version + 1
    BY DEF RotatesNext, Rotating
  <2>4. \A w \in versions' : \E u \in current' : u.key = w.key
    BY <2>1, <2>2 DEF Numbered
  <2> QED
    BY <2>1, <2>2, <2>3, <2>4 DEF Numbered
<1>4. CreatesFresh'
  BY DEF TypeOK, Known, Numbered, CreatesFresh
<1>5. RotatesNext'
  BY DEF TypeOK, Known, RotatesNext, Rotating, CreatesFresh
<1>6. OpensItsKey'
  BY DEF TypeOK, OpensItsKey
<1>7. EveryCiphertextOpens'
  BY DEF TypeOK, Known, Numbered, OpensItsKey, EveryCiphertextOpens
<1> QED
  BY <1>1, <1>2, <1>3, <1>4, <1>5, <1>6, <1>7

LEMMA CommitDisableStep ==
    ASSUME IInv, NEW r \in Requests, CommitDisable(r)
    PROVE  IInv'
<1> USE DEF IInv, CommitDisable, End, Of, tables
<1>1. TypeOK'
  BY DEF TypeOK, Version, Ops, Steps
<1>2. Known'
  BY DEF TypeOK, Known
<1>3. Numbered'
  BY DEF TypeOK, Known, Numbered, CreatesFresh, RotatesNext, Rotating
<1>4. CreatesFresh'
  BY DEF TypeOK, Known, Numbered, CreatesFresh
<1>5. RotatesNext'
  BY DEF TypeOK, Known, RotatesNext, Rotating, CreatesFresh
<1>6. OpensItsKey'
  BY DEF TypeOK, OpensItsKey
<1>7. EveryCiphertextOpens'
  BY DEF TypeOK, Known, Numbered, OpensItsKey, EveryCiphertextOpens
<1> QED
  BY <1>1, <1>2, <1>3, <1>4, <1>5, <1>6, <1>7

LEMMA SealStep ==
    ASSUME IInv, NEW r \in Requests, Seal(r)
    PROVE  IInv'
<1> USE DEF IInv, Seal, End, Of, tables
<1>1. TypeOK'
  BY DEF TypeOK, Version, Ops, Steps
<1>2. Known'
  BY DEF TypeOK, Known
<1>3. Numbered'
  BY DEF TypeOK, Known, Numbered, CreatesFresh, RotatesNext, Rotating
<1>4. CreatesFresh'
  BY DEF TypeOK, Known, Numbered, CreatesFresh
<1>5. RotatesNext'
  BY DEF TypeOK, Known, RotatesNext, Rotating, CreatesFresh
<1>6. OpensItsKey'
  BY DEF TypeOK, OpensItsKey
<1>7. EveryCiphertextOpens'
  BY DEF TypeOK, Known, Numbered, OpensItsKey, EveryCiphertextOpens
<1> QED
  BY <1>1, <1>2, <1>3, <1>4, <1>5, <1>6, <1>7

LEMMA OpenStep ==
    ASSUME IInv, NEW r \in Requests, Open(r)
    PROVE  IInv'
<1> USE DEF IInv, Open, End, Found, Of, tables
<1>1. TypeOK'
  BY DEF TypeOK, Version, Ops, Steps
<1>2. Known'
  BY DEF TypeOK, Known
<1>3. Numbered'
  BY DEF TypeOK, Known, Numbered, CreatesFresh, RotatesNext, Rotating
<1>4. CreatesFresh'
  BY DEF TypeOK, Known, Numbered, CreatesFresh
<1>5. RotatesNext'
  BY DEF TypeOK, Known, RotatesNext, Rotating, CreatesFresh
<1>6. OpensItsKey'
  BY DEF TypeOK, OpensItsKey
<1>7. EveryCiphertextOpens'
  <2> SUFFICES ASSUME NEW v \in seen[r], NEW c \in wanted[r], r \in named
               PROVE  Found(r, v, c) = {c.material}
    BY DEF TypeOK, EveryCiphertextOpens
  <2>1. v \in versions /\ c \in versions /\ v.key = c.key
    BY DEF Known, OpensItsKey
  <2>2. CASE c.version = v.version
    BY <2>1, <2>2 DEF Numbered
  <2>3. CASE c.version # v.version
    <3>1. {u \in versions : u.key = v.key /\ u.version = c.version} = {c}
      BY <2>1 DEF Numbered
    <3>2. {u \in Of(versions, v.key) : u.version = c.version} = {c}
      BY <3>1
    <3> QED
      BY <2>3, <3>2
  <2> QED
    BY <2>2, <2>3
<1> QED
  BY <1>1, <1>2, <1>3, <1>4, <1>5, <1>6, <1>7

LEMMA AbortStep ==
    ASSUME IInv, NEW r \in Requests, Abort(r)
    PROVE  IInv'
<1> USE DEF IInv, Abort, End, Of, tables
<1>1. TypeOK'
  BY DEF TypeOK, Version, Ops, Steps
<1>2. Known'
  BY DEF TypeOK, Known
<1>3. Numbered'
  BY DEF TypeOK, Known, Numbered, CreatesFresh, RotatesNext, Rotating
<1>4. CreatesFresh'
  BY DEF TypeOK, Known, Numbered, CreatesFresh
<1>5. RotatesNext'
  BY DEF TypeOK, Known, RotatesNext, Rotating, CreatesFresh
<1>6. OpensItsKey'
  BY DEF TypeOK, OpensItsKey
<1>7. EveryCiphertextOpens'
  BY DEF TypeOK, Known, Numbered, OpensItsKey, EveryCiphertextOpens
<1> QED
  BY <1>1, <1>2, <1>3, <1>4, <1>5, <1>6, <1>7

-----------------------------------------------------------------------------
LEMMA NextIInv == IInv /\ [Next]_vars => IInv'
<1> SUFFICES ASSUME IInv, [Next]_vars
             PROVE  IInv'
  OBVIOUS
<1>1. ASSUME NEW r \in Requests, NEW k \in Keys, Create(r, k) \/ ReadToChange(r, k)
      PROVE  IInv'
  BY <1>1, CreateStep, ReadToChangeStep
<1>2. ASSUME NEW r \in Requests, NEW c \in sealed, NEW withVersion \in BOOLEAN,
             ReadToOpen(r, c, withVersion)
      PROVE  IInv'
  BY <1>2, ReadToOpenStep
<1>3. ASSUME NEW r \in Requests,
             \/ FlushRotate(r) \/ FlushDisable(r)
             \/ CommitCreate(r) \/ CommitRotate(r) \/ CommitDisable(r)
             \/ Seal(r) \/ Open(r) \/ Abort(r)
      PROVE  IInv'
  BY <1>3, FlushRotateStep, FlushDisableStep, CommitCreateStep, CommitRotateStep,
     CommitDisableStep, SealStep, OpenStep, AbortStep
<1>4. CASE UNCHANGED vars
  BY <1>4 DEF IInv, TypeOK, Known, Numbered, CreatesFresh, RotatesNext, Rotating,
              OpensItsKey, EveryCiphertextOpens, vars, tables
<1> QED
  BY <1>1, <1>2, <1>3, <1>4 DEF Next

(* The invariant of every state that requests to kms_service.py reach.     *)
THEOREM Inductive == Spec => []IInv
<1> QED
  BY InitIInv, NextIInv, PTL DEF Spec

(* The tables of kms_service.py and the requests keep their types.         *)
THEOREM TypeCorrect == Spec => []TypeOK
<1>1. IInv => TypeOK
  BY DEF IInv
<1> QED
  BY <1>1, Inductive, PTL

(* No request that names the version it was given is told that what it     *)
(* presents is wrong (decrypt, verify), however many rotate the key.       *)
THEOREM CiphertextsOpen == Spec => []EveryCiphertextOpens
<1>1. IInv => EveryCiphertextOpens
  BY DEF IInv
<1> QED
  BY <1>1, Inductive, PTL
=============================================================================
