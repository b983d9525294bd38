---------------------------- MODULE ServicesProofs ----------------------------
(***************************************************************************)
(* Proofs about the services that MCServices puts side by side: types, and *)
(* what each promises, for any number of calls, keys and certificates.     *)
(*                                                                         *)
(* A step of the composition is a step of one service and leaves the state *)
(* of the others alone, so that each has an inductive invariant of its     *)
(* own.  That of managed keys is proved in ManagedKeysProofs.              *)
(***************************************************************************)
EXTENDS MCServices, Sequences, TLAPS, FiniteSetTheorems, SequenceTheorems, WellFoundedInduction

ManagedProofs == INSTANCE ManagedKeysProofs

-----------------------------------------------------------------------------
(* The rotation worker.  That events and versions agree is not inductive:  *)
(* between its flush and its commit a batch carries a version number that  *)
(* is not in the table.  FlushedIsNext says it is the one after the        *)
(* table's, which stays true because only one batch has a row              *)
(* (RowsExclusive) and no user has it.  LockKept needs that an execution   *)
(* with a lock is at a rotation (AtOne).                                   *)
AtOne(w) ==
    /\ run[w].pc \in {"idle", "batch"} => run[w].holds = "nothing"
    /\ run[w].pc \notin {"idle", "batch"} => run[w].at \in Rotations

FlushedIsNext(w) ==
    \A r \in Rotations : run[w].flushed[r] > 0 => run[w].flushed[r] = version[r] + 1

RowsExclusive(w) ==
    \A q \in Workers \ {w}, r \in Rotations :
        run[w].flushed[r] > 0 => run[q].flushed[r] = 0

IInv ==
    /\ TypeOK
    /\ \A w \in Workers : AtOne(w)
    /\ LockKept
    /\ \A w \in Workers : FlushedIsNext(w)
    /\ \A w \in Workers : RowsExclusive(w)
    /\ RotationsAccounted

-----------------------------------------------------------------------------
LEMMA NoRunType ==
    /\ NoRun \in Run
    /\ \A r \in Rotations : NoRun.flushed[r] = 0
    /\ NoRun.pc = "idle" /\ NoRun.holds = "nothing"
  BY DEF NoRun, Run

LEMMA InitIInv == Init => IInv
<1> SUFFICES ASSUME Init PROVE IInv
  OBVIOUS
<1>1. TypeOK
  BY NoRunType, BoundsAssumption DEF Init, TypeOK
<1>2. \A w \in Workers : AtOne(w) /\ FlushedIsNext(w) /\ RowsExclusive(w)
  BY NoRunType DEF Init, AtOne, FlushedIsNext, RowsExclusive
<1>3. LockKept /\ RotationsAccounted
  BY NoRunType DEF Init, LockKept, RotationsAccounted
<1> QED
  BY <1>1, <1>2, <1>3 DEF IInv

-----------------------------------------------------------------------------
(* A step that leaves the tables alone and flushes nothing.                *)
FlushesNothing ==
    /\ UNCHANGED rows
    /\ \A w \in Workers, r \in Rotations : run'[w].flushed[r] \in {run[w].flushed[r], 0}

LEMMA QuietTables ==
    ASSUME IInv, FlushesNothing, TypeOK', \A w \in Workers : AtOne(w)', LockKept'
    PROVE  IInv'
<1>1. ASSUME NEW w \in Workers PROVE FlushedIsNext(w)'
  BY <1>1 DEF IInv, TypeOK, FlushesNothing, FlushedIsNext, rows
<1>2. ASSUME NEW w \in Workers PROVE RowsExclusive(w)'
  BY <1>2 DEF IInv, TypeOK, FlushesNothing, RowsExclusive, rows
<1>3. RotationsAccounted'
  BY DEF IInv, RotationsAccounted, FlushesNothing, rows
<1> QED
  BY <1>1, <1>2, <1>3 DEF IInv

LEMMA RunType ==
    ASSUME TypeOK, NEW w \in Workers, NEW new \in Run
    PROVE  [run EXCEPT ![w] = new] \in [Workers -> Run]
  BY DEF TypeOK

LEMMA BeginStep ==
    ASSUME IInv, NEW w \in Workers, Begin(w)
    PROVE  IInv'
<1>1. TypeOK'
  BY NoRunType, TokensAssumption, BoundsAssumption DEF IInv, TypeOK, AtOne, LockKept, Begin, Run, rows, Due
<1>2. \A q \in Workers : AtOne(q)'
  BY NoRunType, RotationsAssumption DEF IInv, TypeOK, AtOne, Begin, Run, rows, Due
<1>3. LockKept'
  BY NoRunType, TokensAssumption, RotationsAssumption DEF IInv, TypeOK, AtOne, LockKept, Begin, Run, rows, Due
<1>4. FlushesNothing
  BY NoRunType DEF IInv, TypeOK, FlushesNothing, Begin, Run, rows, Due
<1> QED
  BY <1>1, <1>2, <1>3, <1>4, QuietTables

LEMMA AcquireStep ==
    ASSUME IInv, NEW w \in Workers, NEW r \in Rotations, Acquire(w, r)
    PROVE  IInv'
<1>1. TypeOK'
  <2> DEFINE new == [run[w] EXCEPT !.pc = "locked", !.at = r, !.holds = "redis",
                                  !.todo = @ \ {r}]
  <2>1. run[w] \in Run
    BY DEF IInv, TypeOK
  <2>2. new \in Run
    BY <2>1 DEF IInv, TypeOK, Run
  <2>3. run' = [run EXCEPT ![w] = new]
    BY DEF Acquire, Take
  <2>4. run' \in [Workers -> Run]
    BY <2>2, <2>3, RunType DEF IInv
  <2> HIDE DEF new
  <2> QED
    BY <2>4, TokensAssumption, BoundsAssumption DEF IInv, TypeOK, AtOne, Acquire, rows, Fault, Forgotten
<1>2. \A q \in Workers : AtOne(q)'
  BY RotationsAssumption DEF IInv, TypeOK, AtOne, Acquire, Run, rows, Take
<1>3. LockKept'
  BY TokensAssumption, RotationsAssumption DEF IInv, TypeOK, AtOne, LockKept, Acquire, Run, rows, Take
<1>4. FlushesNothing
  BY DEF IInv, TypeOK, FlushesNothing, Acquire, Run, rows, Take
<1> QED
  BY <1>1, <1>2, <1>3, <1>4, QuietTables

LEMMA SkipStep ==
    ASSUME IInv, NEW w \in Workers, NEW r \in Rotations, Skip(w, r)
    PROVE  IInv'
<1>1. TypeOK'
  <2> DEFINE new == [run[w] EXCEPT !.todo = @ \ {r}]
  <2>1. run[w] \in Run
    BY DEF IInv, TypeOK
  <2>2. new \in Run
    BY <2>1 DEF IInv, TypeOK, Run
  <2>3. run' = [run EXCEPT ![w] = new]
    BY DEF Skip
  <2>4. run' \in [Workers -> Run]
    BY <2>2, <2>3, RunType DEF IInv
  <2> HIDE DEF new
  <2> QED
    BY <2>4, TokensAssumption, BoundsAssumption DEF IInv, TypeOK, AtOne, Skip, rows, Fault, Forgotten
<1>2. \A q \in Workers : AtOne(q)'
  BY RotationsAssumption DEF IInv, TypeOK, AtOne, Skip, Run, rows
<1>3. LockKept'
  BY TokensAssumption, RotationsAssumption DEF IInv, TypeOK, AtOne, LockKept, Skip, Run, rows
<1>4. FlushesNothing
  BY DEF IInv, TypeOK, FlushesNothing, Skip, Run, rows
<1> QED
  BY <1>1, <1>2, <1>3, <1>4, QuietTables

LEMMA FallBackStep ==
    ASSUME IInv, NEW w \in Workers, NEW r \in Rotations, FallBack(w, r)
    PROVE  IInv'
<1>1. TypeOK'
  BY TokensAssumption, BoundsAssumption DEF IInv, TypeOK, AtOne, LockKept, FallBack, Run, rows, Take, Fault
<1>2. \A q \in Workers : AtOne(q)'
  BY RotationsAssumption DEF IInv, TypeOK, AtOne, FallBack, Run, rows, Take, Fault
<1>3. LockKept'
  BY TokensAssumption, RotationsAssumption DEF IInv, TypeOK, AtOne, LockKept, FallBack, Run, rows, Take, Fault
<1>4. FlushesNothing
  BY DEF IInv, TypeOK, FlushesNothing, FallBack, Run, rows, Take, Fault
<1> QED
  BY <1>1, <1>2, <1>3, <1>4, QuietTables

LEMMA LoadStep ==
    ASSUME IInv, NEW w \in Workers, Load(w)
    PROVE  IInv'
<1>1. TypeOK'
  <2> DEFINE new == [run[w] EXCEPT !.pc = IF deleted[run[w].at] THEN "release" ELSE "loaded",
                                  !.seen = version[run[w].at]]
  <2>1. run[w] \in Run
    BY DEF IInv, TypeOK
  <2>2. new \in Run
    BY <2>1 DEF IInv, TypeOK, AtOne, Run, Load
  <2>3. run' = [run EXCEPT ![w] = new]
    BY DEF Load
  <2>4. run' \in [Workers -> Run]
    BY <2>2, <2>3, RunType DEF IInv
  <2> HIDE DEF new
  <2> QED
    BY <2>4, TokensAssumption, BoundsAssumption DEF IInv, TypeOK, AtOne, Load, rows, Fault, Forgotten
<1>2. \A q \in Workers : AtOne(q)'
  BY RotationsAssumption DEF IInv, TypeOK, AtOne, Load, Run, rows
<1>3. LockKept'
  BY TokensAssumption, RotationsAssumption DEF IInv, TypeOK, AtOne, LockKept, Load, Run, rows
<1>4. FlushesNothing
  BY DEF IInv, TypeOK, FlushesNothing, Load, Run, rows
<1> QED
  BY <1>1, <1>2, <1>3, <1>4, QuietTables

LEMMA ReselectStep ==
    ASSUME IInv, NEW w \in Workers, Reselect(w)
    PROVE  IInv'
<1>1. TypeOK'
  <2> DEFINE new == [run[w] EXCEPT !.pc = IF deleted[run[w].at] THEN "refused" ELSE "selected"]
  <2>1. run[w] \in Run
    BY DEF IInv, TypeOK
  <2>2. new \in Run
    BY <2>1 DEF IInv, TypeOK, AtOne, Run, Reselect
  <2>3. run' = [run EXCEPT ![w] = new]
    BY DEF Reselect, Goto
  <2>4. run' \in [Workers -> Run]
    BY <2>2, <2>3, RunType DEF IInv
  <2> HIDE DEF new
  <2> QED
    BY <2>4, TokensAssumption, BoundsAssumption DEF IInv, TypeOK, AtOne, Reselect, rows, Fault, Forgotten
<1>2. \A q \in Workers : AtOne(q)'
  BY RotationsAssumption DEF IInv, TypeOK, AtOne, Reselect, Run, rows, Goto
<1>3. LockKept'
  BY TokensAssumption, RotationsAssumption DEF IInv, TypeOK, AtOne, LockKept, Reselect, Run, rows, Goto
<1>4. FlushesNothing
  BY DEF IInv, TypeOK, FlushesNothing, Reselect, Run, rows, Goto
<1> QED
  BY <1>1, <1>2, <1>3, <1>4, QuietTables

LEMMA RecordFailureStep ==
    ASSUME IInv, NEW w \in Workers, RecordFailure(w)
    PROVE  IInv'
<1>1. TypeOK'
  BY TokensAssumption, BoundsAssumption DEF IInv, TypeOK, AtOne, LockKept, RecordFailure, Run, rows
<1>2. \A q \in Workers : AtOne(q)'
  BY RotationsAssumption DEF IInv, TypeOK, AtOne, RecordFailure, Run, rows
<1>3. LockKept'
  BY TokensAssumption, RotationsAssumption DEF IInv, TypeOK, AtOne, LockKept, RecordFailure, Run, rows
<1>4. FlushesNothing
  BY DEF IInv, TypeOK, FlushesNothing, RecordFailure, Run, rows
<1> QED
  BY <1>1, <1>2, <1>3, <1>4, QuietTables

LEMMA DeadlockDetectedStep ==
    ASSUME IInv, NEW w \in Workers, DeadlockDetected(w)
    PROVE  IInv'
<1>1. TypeOK'
  <2> DEFINE new == [run[w] EXCEPT !.pc = "poisoned"]
  <2>1. run[w] \in Run
    BY DEF IInv, TypeOK
  <2>2. new \in Run
    BY <2>1 DEF IInv, TypeOK, Run
  <2>3. run' = [run EXCEPT ![w] = new]
    BY DEF DeadlockDetected, Goto
  <2>4. run' \in [Workers -> Run]
    BY <2>2, <2>3, RunType DEF IInv
  <2> HIDE DEF new
  <2> QED
    BY <2>4, TokensAssumption, BoundsAssumption DEF IInv, TypeOK, AtOne, DeadlockDetected, rows, Fault, Forgotten
<1>2. \A q \in Workers : AtOne(q)'
  BY RotationsAssumption DEF IInv, TypeOK, AtOne, DeadlockDetected, Run, rows, Goto, WaitsFor
<1>3. LockKept'
  BY TokensAssumption, RotationsAssumption DEF IInv, TypeOK, AtOne, LockKept, DeadlockDetected, Run, rows, Goto, WaitsFor
<1>4. FlushesNothing
  BY DEF IInv, TypeOK, FlushesNothing, DeadlockDetected, Run, rows, Goto, WaitsFor
<1> QED
  BY <1>1, <1>2, <1>3, <1>4, QuietTables

LEMMA ReleaseStep ==
    ASSUME IInv, NEW w \in Workers, Release(w)
    PROVE  IInv'
<1>1. TypeOK'
  <2> DEFINE new == IF run[w].pc = "poisoned" THEN NoRun
                   ELSE [run[w] EXCEPT !.pc = "batch", !.at = None, !.holds = "nothing",
                                       !.seen = 0]
  <2>1. run[w] \in Run
    BY DEF IInv, TypeOK
  <2>2. new \in Run
    BY <2>1, NoRunType DEF IInv, TypeOK, Run
  <2>3. run' = [run EXCEPT ![w] = new]
    BY DEF Release, AfterRelease
  <2>4. run' \in [Workers -> Run]
    BY <2>2, <2>3, RunType DEF IInv
  <2> HIDE DEF new
  <2> QED
    BY <2>4, TokensAssumption, BoundsAssumption DEF IInv, TypeOK, AtOne, Release, rows, Fault, Forgotten
<1>2. \A q \in Workers : AtOne(q)'
  BY NoRunType, RotationsAssumption DEF IInv, TypeOK, AtOne, Release, Run, rows, AfterRelease
<1>3. LockKept'
  BY NoRunType, TokensAssumption, RotationsAssumption DEF IInv, TypeOK, AtOne, LockKept, Release, Run, rows, AfterRelease
<1>4. FlushesNothing
  BY NoRunType DEF IInv, TypeOK, FlushesNothing, Release, Run, rows, AfterRelease
<1> QED
  BY <1>1, <1>2, <1>3, <1>4, QuietTables

LEMMA ReleaseFailsStep ==
    ASSUME IInv, NEW w \in Workers, ReleaseFails(w)
    PROVE  IInv'
<1>1. TypeOK'
  <2> DEFINE new == IF run[w].pc = "poisoned" THEN NoRun
                   ELSE [run[w] EXCEPT !.pc = "batch", !.at = None, !.holds = "nothing",
                                       !.seen = 0]
  <2>1. run[w] \in Run
    BY DEF IInv, TypeOK
  <2>2. new \in Run
    BY <2>1, NoRunType DEF IInv, TypeOK, Run
  <2>3. run' = [run EXCEPT ![w] = new]
    BY DEF ReleaseFails, AfterRelease
  <2>4. run' \in [Workers -> Run]
    BY <2>2, <2>3, RunType DEF IInv
  <2> HIDE DEF new
  <2> QED
    BY <2>4, TokensAssumption, BoundsAssumption DEF IInv, TypeOK, AtOne, ReleaseFails, rows, Fault, Forgotten
<1>2. \A q \in Workers : AtOne(q)'
  BY NoRunType, RotationsAssumption DEF IInv, TypeOK, AtOne, ReleaseFails, Run, rows, AfterRelease, Forgotten, Fault
<1>3. LockKept'
  BY NoRunType, TokensAssumption, RotationsAssumption DEF IInv, TypeOK, AtOne, LockKept, ReleaseFails, Run, rows, AfterRelease, Forgotten, Fault
<1>4. FlushesNothing
  BY NoRunType DEF IInv, TypeOK, FlushesNothing, ReleaseFails, Run, rows, AfterRelease, Forgotten, Fault
<1> QED
  BY <1>1, <1>2, <1>3, <1>4, QuietTables

LEMMA CrashStep ==
    ASSUME IInv, NEW w \in Workers, Crash(w)
    PROVE  IInv'
<1>1. TypeOK'
  BY NoRunType, TokensAssumption, BoundsAssumption DEF IInv, TypeOK, AtOne, LockKept, Crash, Run, rows, Forgotten, Fault
<1>2. \A q \in Workers : AtOne(q)'
  BY NoRunType, RotationsAssumption DEF IInv, TypeOK, AtOne, Crash, Run, rows, Forgotten, Fault
<1>3. LockKept'
  BY NoRunType, TokensAssumption, RotationsAssumption DEF IInv, TypeOK, AtOne, LockKept, Crash, Run, rows, Forgotten, Fault
<1>4. FlushesNothing
  BY NoRunType DEF IInv, TypeOK, FlushesNothing, Crash, Run, rows, Forgotten, Fault
<1> QED
  BY <1>1, <1>2, <1>3, <1>4, QuietTables

LEMMA OutliveStep ==
    ASSUME IInv, NEW w \in Workers, Outlive(w)
    PROVE  IInv'
<1>1. TypeOK'
  <2> DEFINE new == [run[w] EXCEPT !.holds = "expired"]
  <2>1. run[w] \in Run
    BY DEF IInv, TypeOK
  <2>2. new \in Run
    BY <2>1 DEF IInv, TypeOK, Run
  <2>3. run' = [run EXCEPT ![w] = new]
    BY DEF Outlive
  <2>4. run' \in [Workers -> Run]
    BY <2>2, <2>3, RunType DEF IInv
  <2> HIDE DEF new
  <2> QED
    BY <2>4, TokensAssumption, BoundsAssumption DEF IInv, TypeOK, AtOne, Outlive, rows, Fault, Forgotten
<1>2. \A q \in Workers : AtOne(q)'
  BY RotationsAssumption DEF IInv, TypeOK, AtOne, Outlive, Run, rows, Fault
<1>3. LockKept'
  BY TokensAssumption, RotationsAssumption DEF IInv, TypeOK, AtOne, LockKept, Outlive, Run, rows, Fault
<1>4. FlushesNothing
  BY DEF IInv, TypeOK, FlushesNothing, Outlive, Run, rows, Fault
<1> QED
  BY <1>1, <1>2, <1>3, <1>4, QuietTables

LEMMA ExpireStep ==
    ASSUME IInv, NEW r \in Rotations, Expire(r)
    PROVE  IInv'
<1>1. TypeOK'
  BY TokensAssumption, BoundsAssumption DEF IInv, TypeOK, AtOne, LockKept, Expire, Run, rows
<1>2. \A q \in Workers : AtOne(q)'
  BY RotationsAssumption DEF IInv, TypeOK, AtOne, Expire, Run, rows
<1>3. LockKept'
  BY TokensAssumption, RotationsAssumption DEF IInv, TypeOK, AtOne, LockKept, Expire, Run, rows
<1>4. FlushesNothing
  BY DEF IInv, TypeOK, FlushesNothing, Expire, Run, rows
<1> QED
  BY <1>1, <1>2, <1>3, <1>4, QuietTables

-----------------------------------------------------------------------------
(* The flush: WaitsFor is empty, so no other batch has the row, and the    *)
(* number is the one after the table's.                                    *)
LEMMA SyncStep ==
    ASSUME IInv, NEW w \in Workers, Sync(w)
    PROVE  IInv'
<1> DEFINE s == run[w].at
           flush == version[s] = run[w].seen
           new == IF flush
                  THEN [run[w] EXCEPT !.flushed = [@ EXCEPT ![s] = run[w].seen + 1],
                                      !.pc = "release"]
                  ELSE [run[w] EXCEPT !.pc = "poisoned"]
<1>1. run[w] \in Run /\ s \in Rotations
  BY DEF IInv, TypeOK, AtOne, Sync
<1>2. new \in Run
  <2>1. [run[w].flushed EXCEPT ![s] = run[w].seen + 1] \in [Rotations -> Nat]
    BY <1>1 DEF Run
  <2>2. CASE flush
    BY <1>1, <2>1, <2>2 DEF Run
  <2>3. CASE ~flush
    BY <1>1, <2>3 DEF Run
  <2> QED
    BY <2>2, <2>3
<1>3. run' = [run EXCEPT ![w] = new]
  BY DEF Sync
<1>4. TypeOK'
  <2>1. run' \in [Workers -> Run]
    BY <1>2, <1>3, RunType DEF IInv
  <2> HIDE DEF new
  <2> QED
    BY <2>1 DEF IInv, TypeOK, Sync, rows
<1>5. \A q \in Workers : AtOne(q)'
  BY <1>1, <1>3 DEF IInv, TypeOK, AtOne, Run
<1>6. LockKept'
  BY <1>1, <1>3 DEF IInv, TypeOK, LockKept, Run, Sync
<1>7. \A q \in Workers \ {w} : run[q].flushed[s] = 0
  BY <1>1 DEF IInv, TypeOK, Run, Sync, WaitsFor, Rotated
<1>8. \A r \in Rotations :
          new.flushed[r] = IF flush /\ r = s THEN version[s] + 1 ELSE run[w].flushed[r]
  BY <1>1 DEF IInv, TypeOK, Run
<1>9. ASSUME NEW q \in Workers PROVE FlushedIsNext(q)'
  <2> HIDE DEF new, flush
  <2> QED
    BY <1>1, <1>3, <1>8, <1>9 DEF IInv, TypeOK, FlushedIsNext, Sync, rows
<1>10. ASSUME NEW q \in Workers PROVE RowsExclusive(q)'
  <2> HIDE DEF new, flush
  <2>1. CASE q = w
    BY <1>3, <1>7, <1>8, <2>1 DEF IInv, TypeOK, RowsExclusive
  <2>2. CASE q # w
    <3> SUFFICES ASSUME NEW p \in Workers \ {q}, NEW r \in Rotations,
                        run'[q].flushed[r] > 0
                 PROVE  run'[p].flushed[r] = 0
      BY DEF RowsExclusive
    <3>1. run'[q] = run[q]
      BY <1>3, <2>2 DEF IInv, TypeOK
    <3>2. r # s
      BY <1>7, <2>2, <3>1
    <3>3. run[p].flushed[r] = 0
      BY <1>10, <3>1 DEF IInv, RowsExclusive
    <3> QED
      BY <1>3, <1>8, <3>2, <3>3 DEF IInv, TypeOK
  <2> QED
    BY <2>1, <2>2
<1>11. RotationsAccounted'
  BY DEF IInv, RotationsAccounted, Sync, rows
<1> QED
  BY <1>4, <1>5, <1>6, <1>9, <1>10, <1>11 DEF IInv

(* The commit: a version becomes the next one, and the row is nobody's.    *)
LEMMA CommitStep ==
    ASSUME IInv, NEW w \in Workers, Commit(w)
    PROVE  IInv'
<1>0. run[w] \in Run /\ run' = [run EXCEPT ![w] = NoRun]
  BY DEF IInv, TypeOK, Commit
<1>1. \A r \in Rotations :
          version'[r] = IF run[w].flushed[r] > 0 THEN version[r] + 1 ELSE version[r]
  BY <1>0 DEF IInv, TypeOK, Run, Commit, Rotated, FlushedIsNext
<1>2. TypeOK'
  <2>1. run' \in [Workers -> Run]
    BY <1>0, NoRunType, RunType DEF IInv
  <2>2. version' \in [Rotations -> Nat \ {0}]
    <3>1. version' = [r \in Rotations |-> version'[r]]
      BY DEF Commit
    <3>2. \A r \in Rotations : version'[r] \in Nat \ {0}
      BY <1>1 DEF IInv, TypeOK
    <3> QED
      BY <3>1, <3>2
  <2>3. successes' \in [Rotations -> Nat] /\ failures' \in [Rotations -> Nat]
    BY DEF IInv, TypeOK, Commit
  <2>4. due' \in [Rotations -> BOOLEAN] /\ status' \in [Rotations -> {"active", "failed"}]
    BY DEF IInv, TypeOK, Commit
  <2> QED
    BY <2>1, <2>2, <2>3, <2>4 DEF IInv, TypeOK, Commit
<1>3. \A q \in Workers : AtOne(q)'
  BY <1>0, NoRunType DEF IInv, TypeOK, AtOne
<1>4. LockKept'
  BY <1>0, NoRunType DEF IInv, TypeOK, LockKept, Commit
<1>5. \A q \in Workers, r \in Rotations :
          run'[q].flushed[r] = IF q = w THEN 0 ELSE run[q].flushed[r]
  BY <1>0, NoRunType DEF IInv, TypeOK
<1>6. ASSUME NEW q \in Workers PROVE FlushedIsNext(q)'
  <2> SUFFICES ASSUME NEW r \in Rotations, run'[q].flushed[r] > 0
               PROVE  run'[q].flushed[r] = version'[r] + 1
    BY DEF FlushedIsNext
  <2>1. q # w /\ run'[q].flushed[r] = run[q].flushed[r]
    BY <1>5, <1>6
  <2>2. run[w].flushed[r] = 0
    BY <2>1, <1>6 DEF IInv, RowsExclusive
  <2> QED
    BY <1>1, <1>6, <2>1, <2>2 DEF IInv, FlushedIsNext
<1>7. ASSUME NEW q \in Workers PROVE RowsExclusive(q)'
  BY <1>5, <1>7 DEF IInv, RowsExclusive
<1>8. RotationsAccounted'
  <2> SUFFICES ASSUME NEW r \in Rotations
               PROVE  /\ version'[r] = 1 + updates'[r] + successes'[r]
                      /\ status'[r] = "failed" <=> failures'[r] > 0
    BY DEF RotationsAccounted
  <2>1. version'[r] = 1 + updates'[r] + successes'[r]
    <3>1. successes'[r] = successes[r] + IF run[w].flushed[r] > 0 THEN 1 ELSE 0
      BY DEF Commit, Rotated
    <3>2. version[r] = 1 + updates[r] + successes[r] /\ updates' = updates
      BY DEF IInv, RotationsAccounted, Commit
    <3>3. updates[r] \in Nat /\ successes[r] \in Nat
      BY DEF IInv, TypeOK
    <3> QED
      BY <1>1, <3>1, <3>2, <3>3
  <2>2. status'[r] = "failed" <=> failures'[r] > 0
    BY DEF IInv, TypeOK, RotationsAccounted, Commit
  <2> QED
    BY <2>1, <2>2
<1> QED
  BY <1>2, <1>3, <1>4, <1>6, <1>7, <1>8 DEF IInv

-----------------------------------------------------------------------------
(* Time and the users.                                                     *)
LEMMA BecomeDueStep ==
    ASSUME IInv, NEW s \in Rotations, BecomeDue(s)
    PROVE  IInv'
<1>1. TypeOK'
  BY BoundsAssumption DEF IInv, TypeOK, BecomeDue
<1> QED
  BY <1>1 DEF IInv, AtOne, LockKept, FlushedIsNext, RowsExclusive, RotationsAccounted, BecomeDue

LEMMA DeleteByUserStep ==
    ASSUME IInv, NEW s \in Rotations, DeleteByUser(s)
    PROVE  IInv'
<1>1. TypeOK'
  BY BoundsAssumption DEF IInv, TypeOK, DeleteByUser, Fault
<1> QED
  BY <1>1 DEF IInv, AtOne, LockKept, FlushedIsNext, RowsExclusive, RotationsAccounted, DeleteByUser

LEMMA UpdateByUserStep ==
    ASSUME IInv, NEW s \in Rotations, UpdateByUser(s)
    PROVE  IInv'
<1>1. TypeOK'
  BY BoundsAssumption DEF IInv, TypeOK, UpdateByUser, Fault
<1>2. \A w \in Workers : run[w].flushed[s] = 0
  BY DEF IInv, TypeOK, Run, UpdateByUser, RowFree, Rotated
<1>3. ASSUME NEW w \in Workers PROVE FlushedIsNext(w)'
  BY <1>2, <1>3 DEF IInv, TypeOK, FlushedIsNext, UpdateByUser
<1>4. RotationsAccounted'
  BY DEF IInv, TypeOK, RotationsAccounted, UpdateByUser
<1>5. (\A w \in Workers : AtOne(w) /\ RowsExclusive(w))' /\ LockKept'
  BY DEF IInv, AtOne, RowsExclusive, LockKept, UpdateByUser
<1> QED
  BY <1>1, <1>3, <1>4, <1>5 DEF IInv

-----------------------------------------------------------------------------
LEMMA NextIInv == IInv /\ [Next]_vars => IInv'
<1> SUFFICES ASSUME IInv, [Next]_vars PROVE IInv'
  OBVIOUS
<1>1. CASE UNCHANGED vars
  BY <1>1 DEF IInv, TypeOK, AtOne, LockKept, FlushedIsNext, RowsExclusive, RotationsAccounted,
              vars, rows
<1>2. ASSUME NEW w \in Workers, Step(w) PROVE IInv'
  BY <1>2, AcquireStep, SkipStep, LoadStep, ReselectStep, SyncStep, RecordFailureStep,
     DeadlockDetectedStep, ReleaseStep, CommitStep DEF Step
<1>3. ASSUME NEW w \in Workers, Begin(w) \/ ReleaseFails(w) \/ Outlive(w) \/ Crash(w)
      PROVE  IInv'
  BY <1>3, BeginStep, ReleaseFailsStep, OutliveStep, CrashStep
<1>4. ASSUME NEW w \in Workers, NEW r \in Rotations, FallBack(w, r) PROVE IInv'
  BY <1>4, FallBackStep
<1>5. ASSUME NEW r \in Rotations,
             Expire(r) \/ BecomeDue(r) \/ UpdateByUser(r) \/ DeleteByUser(r)
      PROVE  IInv'
  BY <1>5, ExpireStep, BecomeDueStep, UpdateByUserStep, DeleteByUserStep
<1> QED
  BY <1>1, <1>2, <1>3, <1>4, <1>5 DEF Next

(* The invariant of every state that the workers and the users reach.      *)
THEOREM Inductive == Spec => []IInv
<1> QED
  BY InitIInv, NextIInv, PTL DEF Spec

(* The tables, the locks and the batches of the workers keep their types.  *)
THEOREM TypeCorrect == Spec => []TypeOK
<1>1. IInv => TypeOK
  BY DEF IInv
<1> QED
  BY <1>1, Inductive, PTL

(* DistributedLock.release takes away no lock but its owner's.             *)
THEOREM LocksAreKept == Spec => []LockKept
<1>1. IInv => LockKept
  BY DEF IInv
<1> QED
  BY <1>1, Inductive, PTL

(* rotate_scheduled_secrets: whatever batches overlap, expire or die, the  *)
(* success events and the updates are as many as there are versions.       *)
THEOREM RotationsAreAccounted == Spec => []RotationsAccounted
<1>1. IInv => RotationsAccounted
  BY DEF IInv
<1> QED
  BY <1>1, Inductive, PTL

-----------------------------------------------------------------------------
(* Master keys.  A registry has one entry per identifier and version; what *)
(* keeps a new version from replacing an entry is that the active one is   *)
(* the newest of its identifier, as long as the operator is careful.       *)
Entry == [id : MasterIds, version : Nat, material : Nat, status : {"Active", "DecryptOnly"}]

Wrapping == [id : MasterIds, version : Nat, material : Nat]

MasterInv ==
    /\ Master!TypeOK /\ Master!EverySecretOpens
    /\ registry \subseteq Entry
    /\ \A s \in Versions : wrapped[s] \subseteq Wrapping
    /\ wrapped = [s \in Versions |-> wrapped[s]]
    /\ active \in MasterIds \X Nat
    /\ config \in [id : MasterIds, material : Nat]
    /\ \A e \in registry : e.version <= drawn
    /\ \A e, f \in registry : Master!At(e) = Master!At(f) => e = f
    /\ careful => \A e \in registry : e.id = active[1] => e.version <= active[2]

(* Privileged access.  A call that is under way has read a row that was    *)
(* there and was not revoked; one that decides has read it when nothing    *)
(* but the request itself was in the trail.                                *)
AccessInFlight == {"read", "selected", "flushed"}

AccessCall == [pc : AccessInFlight \cup {"idle", "failed", "ok"}, user : Users \cup {"none"},
               does : Access!Actions \cup {"none"}, read : Nat]

AccessEvent == [action : Access!Actions \cup {"pending"}, actor : Users, read : Nat]

ReadBefore(c) ==
    /\ review[c].read \in 1 .. Len(events)
    /\ review[c].user \in Users /\ review[c].does \in Access!Actions
    /\ events[review[c].read].action # "revoked"
    /\ review[c].does # "revoked" => review[c].read = 1 /\ review[c].user # requester

AccessInv ==
    /\ Access!TypeOK /\ Access!DecisionsStand
    /\ review \in [Reviews -> AccessCall]
    /\ events \in Seq(AccessEvent)
    /\ access = "none" <=> events = <<>>
    /\ \A i \in 2 .. Len(events) :
          /\ events[i].action # "pending"
          /\ events[i].read \in 1 .. i - 1
    /\ \A c \in Reviews : review[c].pc \in AccessInFlight => ReadBefore(c)

(* Certificates.  A certificate that a call names has been issued, and is  *)
(* revoked once the call is done; a CRL under way lists what was revoked   *)
(* before it.  What a revocation has read of crl_number is at most one     *)
(* more than the revocations that are done; unless some have overlapped,   *)
(* it is alone and what it has read is still there.                        *)
AuthorityTypes ==
    /\ issued \subseteq Certificates /\ revoked \subseteq issued
    /\ crl_number \in Nat \ {0} /\ overlapped \in BOOLEAN
    /\ pc \in [Reviews -> {"idle", "cert", "locked", "counted", "flushed", "crl", "listed",
                           "ok", "failed"}]
    /\ target \in [Reviews -> SUBSET Certificates]
    /\ counted \in [Reviews -> Nat]
    /\ known \in [Reviews -> SUBSET Certificates]
    /\ listed \in [Reviews -> SUBSET Certificates]

CertificateKnown(c) ==
    /\ target[c] = {} \/ \E n \in issued : target[c] = {n}
    /\ Authority!Revoking(c) => target[c] # {}
    /\ pc[c] \in {"idle", "crl", "listed"} => target[c] = {}
    /\ pc[c] = "ok" => target[c] \subseteq revoked
    /\ pc[c] \in {"crl", "listed"} => known[c] \subseteq revoked
    /\ pc[c] = "listed" => known[c] \subseteq listed[c] /\ listed[c] \subseteq revoked

Counting(c) == pc[c] \in {"counted", "flushed"}

CountedInTime(c) ==
    /\ counted[c] <= Cardinality(Reviews)
    /\ Counting(c) => counted[c] <= 1 + Cardinality(Authority!Done)

Alone ==
    ~overlapped =>
        /\ crl_number = 1 + Cardinality(Authority!Done)
        /\ \A c \in Reviews : Authority!Revoking(c) =>
              /\ Counting(c) => counted[c] = crl_number
              /\ \A d \in Reviews : Authority!Revoking(d) => d = c

AuthorityInv ==
    /\ AuthorityTypes
    /\ \A c \in Reviews : CertificateKnown(c) /\ CountedInTime(c)
    /\ crl_number <= 1 + Cardinality(Authority!Done)
    /\ Alone

(* The agent proxy.  What a call has resolved was current at some moment   *)
(* since it began, and its events are what it has resolved.                *)
ProxyInFlight == {"checked", "selected", "sent"}

ProxyCall == [pc : ProxyInFlight \cup {"idle", "failed", "ok"},
              todo : SUBSET Proxy!Placeholder, read : SUBSET Proxy!Resolved,
              resolved : SUBSET Proxy!Resolved, events : SUBSET Proxy!Resolved]

ProxyTypes ==
    /\ session \in {"none", "active", "revoked"}
    /\ secret \in [Secrets -> 1 .. MaxVersion] /\ removed \subseteq Secrets
    /\ call \in [Calls -> ProxyCall]
    /\ sent \in [Calls -> SUBSET Proxy!Resolved]
    /\ began = [c \in Calls |-> began[c]]
    /\ \A e \in trail : e.call \in Calls

Since(c, r) ==
    /\ began[c].version[r.secret] <= r.version
    /\ r.secret \notin began[c].deleted

ResolvedSince(c) ==
    call[c].pc \in ProxyInFlight =>
        /\ call[c].events = call[c].resolved
        /\ began[c].version \in [Secrets -> 1 .. MaxVersion]
        /\ \A s \in Secrets : began[c].version[s] <= secret[s]
        /\ began[c].deleted \subseteq removed
        /\ \A r \in call[c].read \cup call[c].resolved : Since(c, r)

SentIsResolved(c) ==
    /\ call[c].pc \in {"idle", "checked", "selected"} => sent[c] = {}
    /\ call[c].pc = "sent" => sent[c] = call[c].resolved
    /\ \A r \in sent[c] : Since(c, r)

Logged(e) == call[e.call].pc = "ok" /\ e.reveals = sent[e.call]

ProxyInv ==
    /\ ProxyTypes
    /\ \A c \in Calls : ResolvedSince(c) /\ SentIsResolved(c)
    /\ \A e \in trail : Logged(e)
    /\ \A c \in Calls : call[c].pc = "ok" => \E e \in trail : e.call = c

(* The rate limiter.  One request at most has still to set the expiry of   *)
(* a counter, and until it has the counter is there and does not expire.   *)
LimiterTypes ==
    /\ now \in 0 .. MaxTime
    /\ requests \in 0 .. MaxRequests /\ count \in 0 .. requests
    /\ expires \in window_seconds .. Limiter!Never
    /\ expiring \in [Processes -> 0 .. 1]
    /\ memory \in [Processes -> [count : 0 .. max_requests, start : Nat]]

OneToExpire ==
    \A p \in Processes : expiring[p] > 0 =>
        /\ count > 0 /\ expires = Limiter!Never
        /\ \A q \in Processes : expiring[q] > 0 => q = p

NoCounterNoExpiry == count = 0 => expires = Limiter!Never

CounterInv ==
    LimiterTypes /\ OneToExpire /\ NoCounterNoExpiry /\ Limiter!CounterExpires

(* What it admits.  All but the last k requests were admitted before the   *)
(* counter that is there, or the window in memory, which admits no more    *)
(* than max_requests; all but max_requests of those, a window ago.         *)
InOrder(instants, time) ==
    /\ instants \in Seq(0 .. time)
    /\ \A i, j \in DOMAIN instants : i <= j => instants[i] <= instants[j]

Spaced(instants) ==
    \A i \in 1 .. Len(instants) - 2 * max_requests :
        instants[i] + window_seconds <= instants[i + 2 * max_requests]

Earlier(instants, k, time) ==
    /\ InOrder(instants, time) /\ Spaced(instants)
    /\ k \in 0 .. Len(instants) /\ Len(instants) - k <= max_requests
    /\ \A i \in 1 .. k - max_requests : instants[i] + window_seconds <= time

Waiting == IF \E p \in Processes : expiring[p] > 0 THEN 1 ELSE 0

ByRedis(k) ==
    /\ Earlier(admitted, k, now)
    /\ Len(admitted) - k + Waiting <= count
    /\ Len(admitted) - k + Waiting <= max_requests
    /\ \A i \in 1 .. k : admitted[i] + window_seconds <= expires

FromMemory(p) ==
    LET k == Len(inMemory[p]) - memory[p].count IN
    /\ Earlier(inMemory[p], k, now)
    /\ memory[p].start <= now
    /\ \A i \in 1 .. k : inMemory[p][i] <= memory[p].start

LimiterInv ==
    /\ CounterInv
    /\ \E k \in 0 .. Len(admitted) : ByRedis(k)
    /\ inMemory = [p \in Processes |-> inMemory[p]]
    /\ \A p \in Processes : FromMemory(p)

-----------------------------------------------------------------------------
LEMMA MasterInit == Master!Init => MasterInv
<1> SUFFICES ASSUME Master!Init PROVE MasterInv
  OBVIOUS
<1>1. PICK id \in MasterIds : config = [id |-> id, material |-> 1]
  BY DEF Master!Init
<1>2. /\ registry = {[id |-> id, version |-> 1, material |-> 1, status |-> "Active"]}
      /\ active = <<id, 1>> /\ drawn = 1 /\ careful = TRUE
      /\ wrapped = [s \in Versions |-> {}]
  BY <1>1 DEF Master!Init, Master!Initial
<1>3. Master!TypeOK
  BY <1>1, <1>2, MaximaAssumption DEF Master!TypeOK, Master!Material
<1>4. Master!EverySecretOpens
  BY <1>1, <1>2 DEF Master!EverySecretOpens, Master!At
<1> QED
  BY <1>1, <1>2, <1>3, <1>4 DEF MasterInv, Entry, Wrapping, Master!At

(* rotate_key: the entry that wrapped is demoted, and the new one replaces *)
(* none that anything is wrapped with.                                     *)
LEMMA RotateStep ==
  ASSUME MasterInv, NEW id \in MasterIds, Master!Rotate(id)
  PROVE  MasterInv'
<1> DEFINE number == Master!NewVersion(id)
           new == [id |-> id, version |-> number, material |-> drawn + 1, status |-> "Active"]
           Old(e) == IF Master!At(e) = active THEN [e EXCEPT !.status = "DecryptOnly"] ELSE e
<1>1. /\ drawn \in Nat /\ drawn' = drawn + 1 /\ drawn' \in Master!Material
      /\ active' = <<id, number>>
      /\ config' = config /\ wrapped' = wrapped
      /\ careful' = (careful /\ (id = active[1] \/ \A e \in registry : e.id # id))
  BY MaximaAssumption DEF Master!Rotate, MasterInv, Master!TypeOK, Master!Material
<1>2. active[1] \in MasterIds /\ active[2] \in Nat /\ active = <<active[1], active[2]>>
  BY DEF MasterInv
<1>3. \E e \in registry : e.version = active[2] /\ e.id = active[1]
  BY <1>2 DEF MasterInv, Master!EverySecretOpens, Master!At
<1>4. number \in Nat /\ number <= drawn + 1 /\ number >= 1
  BY <1>1, <1>2, <1>3 DEF Master!NewVersion, MasterInv, Master!TypeOK, Master!Material
<1>5. <<id, number>> # active
  BY <1>2 DEF Master!NewVersion
<1>6. new \in Entry /\ Master!At(new) = <<id, number>>
  BY <1>1, <1>4 DEF Entry, Master!At
<1> HIDE DEF number, new
<1>7. ASSUME NEW e \in registry
      PROVE  /\ Old(e) \in Entry /\ Master!At(Old(e)) = Master!At(e)
             /\ Old(e).id = e.id /\ Old(e).version = e.version /\ Old(e).material = e.material
             /\ Old(e).status = "DecryptOnly"
  BY <1>7 DEF MasterInv, Entry, Master!At, Master!EverySecretOpens
<1>8. registry' = {e \in {Old(f) : f \in registry} : Master!At(e) # <<id, number>>} \cup {new}
  BY <1>6 DEF Master!Rotate, Master!Register, Master!Demoted, number, new
<1> HIDE DEF Old
<1>9. ASSUME NEW e \in registry'
      PROVE  e = new \/ \E f \in registry : e = Old(f) /\ Master!At(f) # <<id, number>>
  BY <1>7, <1>8
<1>10. new \in registry' /\ \A f \in registry : Master!At(f) # <<id, number>> => Old(f) \in registry'
  BY <1>7, <1>8
<1>11. /\ registry' \subseteq Entry
       /\ \A e \in registry' : e.version <= drawn' /\ e.material \in 1 .. drawn'
                               /\ e.version \in Master!Material
  <2> SUFFICES ASSUME NEW e \in registry'
               PROVE  /\ e \in Entry /\ e.version <= drawn' /\ e.material \in 1 .. drawn'
                      /\ e.version \in Master!Material
    OBVIOUS
  <2>1. CASE e = new
    BY <1>1, <1>4, <1>6, <2>1, MaximaAssumption DEF new, Master!Material
  <2>2. CASE \E f \in registry : e = Old(f)
    BY <1>1, <1>7, <2>2 DEF MasterInv, Entry, Master!TypeOK, Master!Material
  <2> QED
    BY <1>9, <2>1, <2>2
<1>12. \A e, f \in registry' : Master!At(e) = Master!At(f) => e = f
  BY <1>6, <1>7, <1>9 DEF MasterInv
<1>13. Master!TypeOK'
  BY <1>1, <1>11, MaximaAssumption
     DEF Master!TypeOK, MasterInv, Entry, Wrapping, Master!Material
<1>14. careful' => \A e \in registry' : e.id = active'[1] => e.version <= active'[2]
  <2> SUFFICES ASSUME careful', NEW e \in registry', e.id = id, e # new PROVE e.version <= number
    BY <1>1, <1>4 DEF new
  <2>1. PICK f \in registry : e = Old(f)
    BY <1>9
  <2>2. f.id = active[1] /\ f.version <= active[2] /\ id = active[1]
    BY <1>1, <1>7, <2>1 DEF MasterInv
  <2> QED
    BY <1>1, <1>2, <1>7, <2>1, <2>2 DEF number, Master!NewVersion, MasterInv, Entry
<1>15. Master!EverySecretOpens'
  <2>1. ASSUME careful', NEW s \in Versions, NEW w \in wrapped'[s] PROVE Master!Unwraps(w)'
    <3>1. PICK e \in registry :
             Master!At(e) = Master!At(w) /\ e.status # "Retired" /\ e.material = w.material
      BY <1>1, <2>1 DEF MasterInv, Master!EverySecretOpens, Master!Unwraps
    <3>2. Master!At(e) # <<id, number>>
      <4>1. SUFFICES ASSUME e.id = id, e.version = number PROVE FALSE
        BY DEF Master!At
      <4>2. id = active[1] /\ e.version <= active[2]
        BY <1>1, <2>1, <4>1 DEF MasterInv
      <4> QED
        BY <1>2, <4>1, <4>2 DEF number, Master!NewVersion
    <3>3. Old(e) \in registry'
      BY <1>10, <3>2
    <3> QED
      BY <1>7, <3>1, <3>3 DEF Master!Unwraps, Master!At
  <2>2. \A e \in registry' : e.status = "Active" <=> Master!At(e) = active'
    BY <1>1, <1>6, <1>7, <1>9 DEF new
  <2>3. \E e \in registry' : Master!At(e) = active'
    BY <1>1, <1>6, <1>10
  <2> QED
    BY <2>1, <2>2, <2>3 DEF Master!EverySecretOpens, Master!At
<1> QED
  BY <1>1, <1>4, <1>11, <1>12, <1>13, <1>14, <1>15 DEF MasterInv

LEMMA WrapStep ==
  ASSUME MasterInv, NEW s \in Versions, Master!Encrypt(s) \/ Master!Rewrap(s)
  PROVE  MasterInv'
<1>1. PICK e \in registry :
         /\ Master!At(e) = active /\ e.status = "Active"
         /\ wrapped' = [wrapped EXCEPT ![s] =
               {[id |-> e.id, version |-> e.version, material |-> e.material]}]
  BY DEF Master!Encrypt, Master!Rewrap, Master!Wrap
<1>2. UNCHANGED <<registry, active, config, drawn, careful>>
  BY DEF Master!Encrypt, Master!Rewrap
<1> DEFINE new == [id |-> e.id, version |-> e.version, material |-> e.material]
<1>3. ASSUME NEW t \in Versions, NEW w \in wrapped'[t]
      PROVE  w = new \/ w \in wrapped[t]
  BY <1>1, <1>3 DEF MasterInv
<1>4. new \in Wrapping /\ new.material \in 1 .. drawn /\ Master!Unwraps(new)
  BY DEF MasterInv, Entry, Wrapping, Master!TypeOK, Master!Unwraps, Master!At
<1> HIDE DEF new
<1>5. Master!TypeOK'
  BY <1>2, <1>3, <1>4 DEF Master!TypeOK, MasterInv
<1>6. Master!EverySecretOpens'
  BY <1>2, <1>3, <1>4 DEF Master!EverySecretOpens, MasterInv, Master!Unwraps, Master!At
<1>7. wrapped' = [t \in Versions |-> wrapped'[t]] /\ \A t \in Versions : wrapped'[t] \subseteq Wrapping
  BY <1>1, <1>3, <1>4 DEF MasterInv
<1> QED
  BY <1>2, <1>5, <1>6, <1>7 DEF MasterInv, Master!At

LEMMA RestartStep ==
  ASSUME MasterInv, NEW c \in Master!Configurable, Master!Restart(c)
  PROVE  MasterInv'
<1> DEFINE new == [id |-> c.id, version |-> 1, material |-> c.material, status |-> "Active"]
<1>1. /\ c \in [id : MasterIds, material : Nat]
      /\ c.material \in 1 .. drawn /\ drawn \in Master!Material
  BY DEF Master!Configurable, MasterInv, Entry, Master!TypeOK
<1>2. /\ config' = c /\ registry' = {new} /\ active' = <<c.id, 1>>
      /\ careful' = (careful /\ \A s \in Versions : \A w \in wrapped[s] :
                        w = [id |-> c.id, version |-> 1, material |-> c.material])
      /\ wrapped' = wrapped /\ drawn' = drawn
  BY DEF Master!Restart, Master!Initial
<1>3. Master!TypeOK'
  BY <1>1, <1>2, MaximaAssumption DEF Master!TypeOK, MasterInv, Master!Material
<1>4. Master!EverySecretOpens'
  <2>1. ASSUME careful', NEW s \in Versions, NEW w \in wrapped'[s] PROVE Master!Unwraps(w)'
    <3>1. w \in wrapped[s] /\ (careful /\ \A t \in Versions : \A u \in wrapped[t] :
                                 u = [id |-> c.id, version |-> 1, material |-> c.material])
      BY <1>2, <2>1
    <3>2. w = [id |-> c.id, version |-> 1, material |-> c.material]
      BY <3>1
    <3>3. new \in registry' /\ Master!At(new) = Master!At(w)
          /\ new.status # "Retired" /\ new.material = w.material
      BY <1>2, <3>2 DEF Master!At
    <3> QED
      BY <3>3 DEF Master!Unwraps, Master!At
  <2>2. \A e \in registry' : e.status = "Active" /\ Master!At(e) = active'
    BY <1>2 DEF Master!At
  <2>3. \E e \in registry' : Master!At(e) = active'
    BY <1>2, <2>2
  <2> QED
    BY <2>1, <2>2, <2>3 DEF Master!EverySecretOpens, Master!At
<1> QED
  BY <1>1, <1>2, <1>3, <1>4, MaximaAssumption DEF MasterInv, Entry, Master!At, Master!Material

LEMMA MasterNext == MasterInv /\ [Master!Next]_masterVars => MasterInv'
<1> SUFFICES ASSUME MasterInv, [Master!Next]_masterVars PROVE MasterInv'
  OBVIOUS
<1>1. CASE UNCHANGED masterVars
  BY <1>1 DEF MasterInv, masterVars, Master!TypeOK, Master!EverySecretOpens, Master!Unwraps,
              Master!At
<1>2. CASE Master!Next
  BY <1>2, RotateStep, WrapStep, RestartStep DEF Master!Next
<1> QED
  BY <1>1, <1>2

-----------------------------------------------------------------------------
LEMMA AccessInit == Access!Init => AccessInv
  BY DEF Access!Init, AccessInv, AccessCall, AccessEvent, AccessInFlight, Access!Idle,
         Access!TypeOK, Access!Actions, Access!DecisionsStand

(* A call that does not touch the row keeps what the others have read.     *)
LEMMA AccessCallStep ==
  ASSUME AccessInv, NEW c \in Reviews, UNCHANGED <<access, requester, approvals, events>>,
         NEW new \in AccessCall, review' = [review EXCEPT ![c] = new],
         new.read <= Len(events), new.pc \in AccessInFlight => ReadBefore(c)'
  PROVE  AccessInv'
<1>1. review' \in [Reviews -> AccessCall] /\ review'[c] = new
      /\ \A d \in Reviews \ {c} : review'[d] = review[d]
  BY DEF AccessInv
<1>2. \A d \in Reviews : review'[d].read <= Len(events)
  BY <1>1 DEF AccessInv, Access!TypeOK
<1>3. ASSUME NEW d \in Reviews, review'[d].pc \in AccessInFlight PROVE ReadBefore(d)'
  BY <1>1, <1>3 DEF AccessInv, ReadBefore
<1>4. Access!TypeOK' /\ Access!DecisionsStand'
  BY <1>2 DEF AccessInv, Access!TypeOK, Access!DecisionsStand
<1> QED
  BY <1>1, <1>3, <1>4 DEF AccessInv

(* create_request: nothing was under way.                                  *)
LEMMA AccessCreateStep ==
  ASSUME AccessInv, NEW u \in Users, Access!Create(u)
  PROVE  AccessInv'
<1> DEFINE first == [action |-> "pending", actor |-> u, read |-> 0]
<1>1. /\ events = <<>> /\ events' = <<first>> /\ access' = "pending" /\ requester' = u
      /\ approvals' = approvals /\ review' = review
  BY DEF Access!Create, AccessInv
<1>2. /\ Len(events) = 0 /\ Len(events') = 1 /\ events'[1] = first /\ events' # <<>>
      /\ events' \in Seq(AccessEvent)
  BY <1>1 DEF AccessEvent
<1>3. \A c \in Reviews : review[c].pc \notin AccessInFlight /\ review[c].read <= 0
  BY <1>2 DEF AccessInv, ReadBefore, Access!TypeOK
<1>4. Access!TypeOK'
  BY <1>1, <1>2, <1>3 DEF AccessInv, Access!TypeOK, AccessCall
<1>5. Access!DecisionsStand'
  BY <1>1, <1>2 DEF Access!DecisionsStand
<1> QED
  BY <1>1, <1>2, <1>3, <1>4, <1>5 DEF AccessInv

LEMMA AccessReadStep ==
  ASSUME AccessInv, NEW c \in Reviews, NEW u \in Users,
         \/ \E decision \in {"approved", "rejected"} : Access!ReadToReview(c, u, decision)
         \/ Access!ReadToRevoke(c, u)
  PROVE  AccessInv'
<1>1. /\ UNCHANGED <<access, requester, approvals, events>>
      /\ access # "none"
  BY DEF Access!ReadToReview, Access!ReadToRevoke
<1>2. /\ Len(events) \in Nat \ {0} /\ events # <<>>
      /\ access = events[Len(events)].action
      /\ \A i \in 2 .. Len(events) : events[i].action # "pending"
  BY <1>1 DEF AccessInv, Access!DecisionsStand
<1>3. PICK pc1, does :
         /\ review' = [review EXCEPT ![c] = [pc |-> pc1, user |-> u, does |-> does,
                                             read |-> Len(events)]]
         /\ does \in Access!Actions
         /\ pc1 \in {"read", "selected", "failed"}
         /\ pc1 # "failed" => access # "revoked"
         /\ pc1 # "failed" /\ does # "revoked" => u # requester /\ access = "pending"
  <2>1. CASE \E decision \in {"approved", "rejected"} : Access!ReadToReview(c, u, decision)
    BY <2>1 DEF Access!ReadToReview, Access!Begin, Access!Actions
  <2>2. CASE Access!ReadToRevoke(c, u)
    BY <2>2 DEF Access!ReadToRevoke, Access!Begin, Access!Actions
  <2> QED
    BY <2>1, <2>2
<1> DEFINE new == [pc |-> pc1, user |-> u, does |-> does, read |-> Len(events)]
<1>4. new \in AccessCall
  BY <1>2, <1>3 DEF AccessCall, AccessInFlight
<1>5. ASSUME pc1 # "failed" PROVE ReadBefore(c)'
  <2>1. review'[c] = new
    BY <1>3 DEF AccessInv
  <2>2. does # "revoked" => Len(events) = 1
    <3> SUFFICES ASSUME does # "revoked", Len(events) # 1 PROVE FALSE
      OBVIOUS
    <3> HIDE DEF new
    <3>1. \A n \in Nat \ {0} : n # 1 => n \in 2 .. n
      OBVIOUS
    <3>2. access = "pending"
      BY <1>3, <1>5
    <3> QED
      BY <1>2, <3>1, <3>2, Zenon
  <2> QED
    BY <1>1, <1>2, <1>3, <1>5, <2>1, <2>2 DEF ReadBefore
<1>6. new.read <= Len(events) /\ new.pc = pc1
  BY <1>2
<1>7. review' = [review EXCEPT ![c] = new]
  BY <1>3
<1> HIDE DEF new
<1> QED
  BY <1>1, <1>3, <1>4, <1>5, <1>6, <1>7, AccessCallStep DEF AccessInFlight

LEMMA AccessGotoStep ==
  ASSUME AccessInv, NEW c \in Reviews,
         Access!SelectApproval(c) \/ Access!Flush(c) \/ Access!Abort(c)
  PROVE  AccessInv'
<1>1. PICK label \in AccessInFlight \cup {"failed"} :
         /\ review' = [review EXCEPT ![c].pc = label]
         /\ UNCHANGED <<access, requester, approvals, events>>
         /\ review[c].pc \in AccessInFlight
  BY DEF Access!SelectApproval, Access!Flush, Access!Abort, Access!Goto, AccessInFlight
<1> DEFINE new == [review[c] EXCEPT !.pc = label]
<1>2. new \in AccessCall /\ review' = [review EXCEPT ![c] = new] /\ review'[c] = new
  BY <1>1 DEF AccessInv, AccessCall, AccessInFlight
<1>3. /\ new.read = review[c].read /\ new.user = review[c].user /\ new.does = review[c].does
      /\ new.read <= Len(events)
  BY DEF AccessInv, AccessCall, Access!TypeOK
<1>4. ReadBefore(c)'
  BY <1>1, <1>2, <1>3 DEF AccessInv, ReadBefore
<1> QED
  BY <1>1, <1>2, <1>3, <1>4, AccessCallStep

(* review_request and revoke_request at their commit.                      *)
LEMMA AccessCommitStep ==
  ASSUME AccessInv, NEW c \in Reviews, Access!Commit(c)
  PROVE  AccessInv'
<1> DEFINE e == Access!Event(c)
           n == Len(events)
<1>1. ReadBefore(c) /\ review[c] \in AccessCall
  BY DEF AccessInv, Access!Commit, AccessInFlight
<1>2. /\ e \in AccessEvent /\ e.action = review[c].does /\ e.actor = review[c].user
      /\ e.read = review[c].read /\ e.action # "pending"
  BY <1>1 DEF Access!Event, AccessEvent, ReadBefore, AccessCall, Access!Actions
<1>3. n \in Nat \ {0}
  BY <1>1 DEF AccessInv, ReadBefore
<1>4. /\ events' \in Seq(AccessEvent) /\ Len(events') = n + 1 /\ events'[n + 1] = e
      /\ \A i \in 1 .. n : events'[i] = events[i]
      /\ events' # <<>> /\ events # <<>>
  BY <1>2, <1>3 DEF Access!Commit, AccessInv
<1>5. /\ access' = e.action /\ requester' = requester /\ approvals' \subseteq Users
      /\ access' \in Access!Actions
  BY <1>1, <1>2 DEF Access!Commit, AccessInv, Access!TypeOK, ReadBefore
<1>6. /\ review' = [review EXCEPT ![c].pc = "ok"]
      /\ review' \in [Reviews -> AccessCall]
      /\ \A d \in Reviews : /\ review'[d].read = review[d].read
                            /\ review'[d].user = review[d].user
                            /\ review'[d].does = review[d].does
                            /\ review'[d].pc \in AccessInFlight => review[d].pc \in AccessInFlight
  BY <1>1 DEF Access!Commit, Access!Goto, AccessInv, AccessCall, AccessInFlight
<1>7. Access!TypeOK'
  BY <1>3, <1>4, <1>5, <1>6 DEF AccessInv, Access!TypeOK, AccessCall
<1>8. ASSUME NEW i \in 2 .. Len(events')
      PROVE  /\ events'[i].action # "pending"
             /\ events'[i].read \in 1 .. i - 1
             /\ events'[i].action # "revoked" => events'[i].actor # requester'
             /\ events'[events'[i].read].action # "revoked"
             /\ events'[i].read > 1 => events'[i].action = "revoked"
  <2>1. CASE i = n + 1
    BY <1>1, <1>2, <1>3, <1>4, <1>5, <2>1 DEF ReadBefore
  <2>2. CASE i # n + 1
    <3>1. i \in 2 .. n /\ i \in 1 .. n
      BY <1>3, <1>4, <2>2
    <3>2. /\ events[i].action # "pending"
          /\ events[i].read \in 1 .. i - 1
          /\ events[i].action # "revoked" => events[i].actor # requester
          /\ events[events[i].read].action # "revoked"
          /\ events[i].read > 1 => events[i].action = "revoked"
      BY <3>1 DEF AccessInv, Access!DecisionsStand
    <3>3. events[i].read \in 1 .. n
      BY <1>3, <3>1, <3>2
    <3> QED
      BY <1>4, <1>5, <3>1, <3>2, <3>3
  <2> QED
    BY <2>1, <2>2
<1>9. Access!DecisionsStand'
  BY <1>4, <1>5, <1>8 DEF Access!DecisionsStand
<1>10. ASSUME NEW d \in Reviews, review'[d].pc \in AccessInFlight PROVE ReadBefore(d)'
  <2>1. ReadBefore(d)
    BY <1>6, <1>10 DEF AccessInv
  <2> QED
    BY <1>3, <1>4, <1>5, <1>6, <2>1 DEF ReadBefore
<1> QED
  BY <1>4, <1>5, <1>6, <1>7, <1>8, <1>9, <1>10 DEF AccessInv, Access!Actions

LEMMA AccessNext == AccessInv /\ [Access!Next]_accessVars => AccessInv'
<1> SUFFICES ASSUME AccessInv, [Access!Next]_accessVars PROVE AccessInv'
  OBVIOUS
<1>1. CASE UNCHANGED accessVars
  BY <1>1 DEF AccessInv, accessVars, Access!TypeOK, Access!DecisionsStand, ReadBefore
<1>2. CASE Access!Next
  BY <1>2, AccessCreateStep, AccessReadStep, AccessGotoStep, AccessCommitStep DEF Access!Next
<1> QED
  BY <1>1, <1>2

-----------------------------------------------------------------------------
(* The module of the authority brings in the library a second time.        *)
LEMMA SameCardinality == \A S : Authority!Cardinality(S) = Cardinality(S)
  BY DEF Authority!Cardinality, Cardinality

LEMMA DoneFinite ==
  /\ IsFiniteSet(Authority!Done)
  /\ Cardinality(Authority!Done) \in Nat
  /\ Cardinality(Reviews) \in Nat
  /\ Cardinality(Authority!Done) <= Cardinality(Reviews)
  /\ \A c \in Reviews \ Authority!Done : Cardinality(Authority!Done) < Cardinality(Reviews)
<1>1. Authority!Done \subseteq Reviews
  BY DEF Authority!Done
<1>2. /\ IsFiniteSet(Authority!Done)
      /\ Cardinality(Authority!Done) <= Cardinality(Reviews)
      /\ Cardinality(Authority!Done) = Cardinality(Reviews) => Authority!Done = Reviews
  BY <1>1, ReviewsAssumption, FS_Subset
<1>3. Cardinality(Authority!Done) \in Nat /\ Cardinality(Reviews) \in Nat
  BY <1>2, ReviewsAssumption, FS_CardinalityType
<1> QED
  BY <1>2, <1>3

LEMMA AuthorityInit == Authority!Init => AuthorityInv
<1> SUFFICES ASSUME Authority!Init PROVE AuthorityInv
  OBVIOUS
<1>1. Authority!Done = {} /\ Cardinality(Authority!Done) = 0
  BY FS_EmptySet DEF Authority!Init, Authority!Done
<1>2. AuthorityTypes
  <2>1. /\ target \in [Reviews -> SUBSET Certificates]
        /\ known \in [Reviews -> SUBSET Certificates]
        /\ listed \in [Reviews -> SUBSET Certificates]
    BY DEF Authority!Init
  <2>2. /\ pc \in [Reviews -> {"idle", "cert", "locked", "counted", "flushed", "crl",
                               "listed", "ok", "failed"}]
        /\ counted \in [Reviews -> Nat]
    BY DEF Authority!Init
  <2>3. issued \subseteq Certificates /\ revoked \subseteq issued /\ overlapped \in BOOLEAN
    BY Zenon DEF Authority!Init
  <2>4. crl_number \in Nat \ {0}
    BY DEF Authority!Init
  <2> QED
    BY <2>1, <2>2, <2>3, <2>4 DEF AuthorityTypes
<1>3. \A c \in Reviews : CertificateKnown(c) /\ CountedInTime(c)
  BY DoneFinite
     DEF Authority!Init, CertificateKnown, CountedInTime, Counting, Authority!Revoking
<1>4. Alone /\ crl_number <= 1 + Cardinality(Authority!Done)
  BY <1>1 DEF Authority!Init, Alone, Authority!Revoking
<1> QED
  BY <1>2, <1>3, <1>4 DEF AuthorityInv

(* What the invariant is for.                                              *)
LEMMA AuthorityImplied == AuthorityInv => Authority!TypeOK /\ Authority!RevocationsListed
<1> SUFFICES ASSUME AuthorityInv PROVE Authority!TypeOK /\ Authority!RevocationsListed
  OBVIOUS
<1>1. ASSUME NEW c \in Reviews PROVE Cardinality(target[c]) <= 1
  <2>1. target[c] = {} \/ \E n \in issued : target[c] = {n}
    BY DEF AuthorityInv, CertificateKnown
  <2>2. Cardinality({}) = 0 /\ \A n : Cardinality({n}) = 1
    BY FS_EmptySet, FS_Singleton
  <2> QED
    BY <2>1, <2>2
<1>2. Authority!TypeOK
  <2>1. crl_number \in 1 .. 1 + Cardinality(Reviews)
    BY DoneFinite DEF AuthorityInv, AuthorityTypes
  <2> QED
    BY <1>1, <2>1, SameCardinality
       DEF AuthorityInv, AuthorityTypes, CountedInTime, Authority!TypeOK
<1>3. Authority!RevocationsListed
  <2>1. \A c \in Reviews :
           pc[c] = "listed" => known[c] \subseteq listed[c] /\ listed[c] \subseteq revoked
    BY DEF AuthorityInv, CertificateKnown
  <2>2. /\ crl_number <= 1 + Cardinality(Authority!Done)
        /\ ~overlapped => crl_number = 1 + Cardinality(Authority!Done)
    BY DEF AuthorityInv, Alone
  <2> QED
    BY <2>1, <2>2, SameCardinality DEF Authority!RevocationsListed
<1> QED
  BY <1>2, <1>3

LEMMA IssueStep ==
  ASSUME AuthorityInv, NEW c \in Reviews, NEW n \in Certificates, Authority!Issue(c, n)
  PROVE  AuthorityInv'
<1> USE DEF AuthorityInv, AuthorityTypes, Authority!Issue, Authority!Goto
<1>1. AuthorityTypes'
  BY DoneFinite
<1>2. Authority!Done' = Authority!Done
  BY DEF Authority!Done, Authority!Revoking, CertificateKnown
<1>3. ASSUME NEW d \in Reviews PROVE CertificateKnown(d)'
  BY DEF CertificateKnown, Authority!Revoking, Authority!Done
<1>4. ASSUME NEW d \in Reviews PROVE CountedInTime(d)'
  BY <1>2, DoneFinite DEF CountedInTime, Counting, Authority!Done
<1>5. Alone'
  BY <1>2, DoneFinite DEF Alone, Counting, Authority!Revoking
<1> QED
  BY <1>1, <1>2, <1>3, <1>4, <1>5

LEMMA ReadCertificateStep ==
  ASSUME AuthorityInv, NEW c \in Reviews, NEW n \in Certificates, Authority!ReadCertificate(c, n)
  PROVE  AuthorityInv'
<1> USE DEF AuthorityInv, AuthorityTypes, Authority!ReadCertificate, Authority!Goto, Authority!rows
<1>1. AuthorityTypes'
  BY DoneFinite
<1>2. Authority!Done' = Authority!Done
  BY DEF Authority!Done, Authority!Revoking, CertificateKnown
<1>3. ASSUME NEW d \in Reviews PROVE CertificateKnown(d)'
  BY DEF CertificateKnown, Authority!Revoking, Authority!Done
<1>4. ASSUME NEW d \in Reviews PROVE CountedInTime(d)'
  BY <1>2, DoneFinite DEF CountedInTime, Counting, Authority!Done
<1>5. Alone'
  BY <1>2, DoneFinite DEF Alone, Counting, Authority!Revoking
<1> QED
  BY <1>1, <1>2, <1>3, <1>4, <1>5

LEMMA FlushCertificateStep ==
  ASSUME AuthorityInv, NEW c \in Reviews, Authority!FlushCertificate(c)
  PROVE  AuthorityInv'
<1> USE DEF AuthorityInv, AuthorityTypes, Authority!FlushCertificate, Authority!Goto, Authority!rows
<1>1. AuthorityTypes'
  BY DoneFinite
<1>2. Authority!Done' = Authority!Done
  BY DEF Authority!Done, Authority!Revoking, CertificateKnown
<1>3. ASSUME NEW d \in Reviews PROVE CertificateKnown(d)'
  BY DEF CertificateKnown, Authority!Revoking, Authority!Done
<1>4. ASSUME NEW d \in Reviews PROVE CountedInTime(d)'
  BY <1>2, DoneFinite DEF CountedInTime, Counting, Authority!Done
<1>5. Alone'
  BY <1>2, DoneFinite DEF Alone, Counting, Authority!Revoking
<1> QED
  BY <1>1, <1>2, <1>3, <1>4, <1>5

LEMMA ReadNumberStep ==
  ASSUME AuthorityInv, NEW c \in Reviews, Authority!ReadNumber(c)
  PROVE  AuthorityInv'
<1> USE DEF AuthorityInv, AuthorityTypes, Authority!ReadNumber, Authority!Goto, Authority!rows
<1>1. AuthorityTypes'
  BY DoneFinite
<1>2. Authority!Done' = Authority!Done
  BY DEF Authority!Done, Authority!Revoking, CertificateKnown
<1>3. ASSUME NEW d \in Reviews PROVE CertificateKnown(d)'
  BY DEF CertificateKnown, Authority!Revoking, Authority!Done
<1>4. ASSUME NEW d \in Reviews PROVE CountedInTime(d)'
  <2>1. c \notin Authority!Done
    BY DEF Authority!Done
  <2>2. crl_number <= Cardinality(Reviews)
    BY <2>1, DoneFinite
  <2>3. counted' = [counted EXCEPT ![c] = crl_number] /\ pc' = [pc EXCEPT ![c] = "counted"]
    OBVIOUS
  <2> QED
    BY <1>2, <2>3, <2>2, DoneFinite DEF CountedInTime, Counting
<1>5. Alone'
  BY <1>2, DoneFinite DEF Alone, Counting, Authority!Revoking
<1> QED
  BY <1>1, <1>2, <1>3, <1>4, <1>5

LEMMA FlushNumberStep ==
  ASSUME AuthorityInv, NEW c \in Reviews, Authority!FlushNumber(c)
  PROVE  AuthorityInv'
<1> USE DEF AuthorityInv, AuthorityTypes, Authority!FlushNumber, Authority!Goto, Authority!rows
<1>1. AuthorityTypes'
  BY DoneFinite
<1>2. Authority!Done' = Authority!Done
  BY DEF Authority!Done, Authority!Revoking, CertificateKnown
<1>3. ASSUME NEW d \in Reviews PROVE CertificateKnown(d)'
  BY DEF CertificateKnown, Authority!Revoking, Authority!Done
<1>4. ASSUME NEW d \in Reviews PROVE CountedInTime(d)'
  BY <1>2, DoneFinite DEF CountedInTime, Counting, Authority!Done
<1>5. Alone'
  BY <1>2, DoneFinite DEF Alone, Counting, Authority!Revoking
<1> QED
  BY <1>1, <1>2, <1>3, <1>4, <1>5

LEMMA ReadAuthorityStep ==
  ASSUME AuthorityInv, NEW c \in Reviews, Authority!ReadAuthority(c)
  PROVE  AuthorityInv'
<1> USE DEF AuthorityInv, AuthorityTypes, Authority!ReadAuthority, Authority!Goto, Authority!rows
<1>1. AuthorityTypes'
  <2>1. /\ UNION {target[d] : d \in Authority!Done} \subseteq Certificates
        /\ known' = [known EXCEPT ![c] = UNION {target[d] : d \in Authority!Done}]
    BY DEF Authority!Done
  <2>2. known' \in [Reviews -> SUBSET Certificates]
    BY <2>1
  <2> QED
    BY <2>2
<1>2. Authority!Done' = Authority!Done
  BY DEF Authority!Done, Authority!Revoking, CertificateKnown
<1>3. ASSUME NEW d \in Reviews PROVE CertificateKnown(d)'
  BY DEF CertificateKnown, Authority!Revoking, Authority!Done
<1>4. ASSUME NEW d \in Reviews PROVE CountedInTime(d)'
  BY <1>2, DoneFinite DEF CountedInTime, Counting, Authority!Done
<1>5. Alone'
  BY <1>2, DoneFinite DEF Alone, Counting, Authority!Revoking
<1> QED
  BY <1>1, <1>2, <1>3, <1>4, <1>5

LEMMA AnswerCRLStep ==
  ASSUME AuthorityInv, NEW c \in Reviews, Authority!AnswerCRL(c)
  PROVE  AuthorityInv'
<1> USE DEF AuthorityInv, AuthorityTypes, Authority!AnswerCRL, Authority!Goto, Authority!rows
<1>1. AuthorityTypes'
  <2>1. revoked \subseteq Certificates /\ listed' = [listed EXCEPT ![c] = revoked]
    OBVIOUS
  <2>2. listed' \in [Reviews -> SUBSET Certificates]
    BY <2>1
  <2> QED
    BY <2>2
<1>2. Authority!Done' = Authority!Done
  BY DEF Authority!Done, Authority!Revoking, CertificateKnown
<1>3. ASSUME NEW d \in Reviews PROVE CertificateKnown(d)'
  BY DEF CertificateKnown, Authority!Revoking, Authority!Done
<1>4. ASSUME NEW d \in Reviews PROVE CountedInTime(d)'
  BY <1>2, DoneFinite DEF CountedInTime, Counting, Authority!Done
<1>5. Alone'
  BY <1>2, DoneFinite DEF Alone, Counting, Authority!Revoking
<1> QED
  BY <1>1, <1>2, <1>3, <1>4, <1>5

LEMMA AuthorityAbortStep ==
  ASSUME AuthorityInv, NEW c \in Reviews, Authority!Abort(c)
  PROVE  AuthorityInv'
<1> USE DEF AuthorityInv, AuthorityTypes, Authority!Abort, Authority!Goto, Authority!rows
<1>1. AuthorityTypes'
  BY DoneFinite
<1>2. Authority!Done' = Authority!Done
  BY DEF Authority!Done, Authority!Revoking, CertificateKnown
<1>3. ASSUME NEW d \in Reviews PROVE CertificateKnown(d)'
  BY DEF CertificateKnown, Authority!Revoking, Authority!Done
<1>4. ASSUME NEW d \in Reviews PROVE CountedInTime(d)'
  BY <1>2, DoneFinite DEF CountedInTime, Counting, Authority!Done
<1>5. Alone'
  BY <1>2, DoneFinite DEF Alone, Counting, Authority!Revoking
<1> QED
  BY <1>1, <1>2, <1>3, <1>4, <1>5

(* revoke_certificate at its commit: one revocation more is done.          *)
LEMMA CommitRevocationStep ==
  ASSUME AuthorityInv, NEW c \in Reviews, Authority!CommitRevocation(c)
  PROVE  AuthorityInv'
<1> USE DEF AuthorityInv, AuthorityTypes, Authority!CommitRevocation, Authority!Goto
<1>1. /\ c \notin Authority!Done
      /\ Authority!Done' = Authority!Done \cup {c}
      /\ target[c] # {} /\ target[c] \subseteq issued
  BY DEF Authority!Done, CertificateKnown, Authority!Revoking
<1>2. Cardinality(Authority!Done') = Cardinality(Authority!Done) + 1
  BY <1>1, DoneFinite, FS_AddElement
<1>3. AuthorityTypes'
  BY <1>1
<1>4. ASSUME NEW d \in Reviews PROVE CertificateKnown(d)'
  BY <1>1 DEF CertificateKnown, Authority!Revoking
<1>5. ASSUME NEW d \in Reviews PROVE CountedInTime(d)'
  BY <1>1, <1>2, DoneFinite DEF CountedInTime, Counting
<1>6. crl_number' <= 1 + Cardinality(Authority!Done')
  BY <1>2, DoneFinite DEF CountedInTime, Counting
<1>7. Alone'
  BY <1>2, DoneFinite DEF Alone, Counting, Authority!Revoking
<1> QED
  BY <1>3, <1>4, <1>5, <1>6, <1>7

LEMMA AuthorityNext == AuthorityInv /\ [Authority!Next]_authorityVars => AuthorityInv'
<1> SUFFICES ASSUME AuthorityInv, [Authority!Next]_authorityVars PROVE AuthorityInv'
  OBVIOUS
<1>1. CASE UNCHANGED authorityVars
  <2>1. Authority!Done' = Authority!Done
    BY <1>1 DEF authorityVars, Authority!Done
  <2> QED
    BY <1>1, <2>1 DEF AuthorityInv, authorityVars, AuthorityTypes, CertificateKnown, CountedInTime,
                      Alone, Counting, Authority!Revoking
<1>2. CASE Authority!Next
  BY <1>2, IssueStep, ReadCertificateStep, FlushCertificateStep, ReadNumberStep,
     FlushNumberStep, ReadAuthorityStep, AnswerCRLStep, AuthorityAbortStep,
     CommitRevocationStep DEF Authority!Next
<1> QED
  BY <1>1, <1>2

-----------------------------------------------------------------------------
LEMMA ProxyImplied == ProxyInv => Proxy!TypeOK /\ Proxy!CallsAccounted
<1> SUFFICES ASSUME ProxyInv PROVE Proxy!TypeOK /\ Proxy!CallsAccounted
  OBVIOUS
<1>1. Proxy!TypeOK
  BY DEF ProxyInv, ProxyTypes, ProxyCall, Proxy!TypeOK
<1>2. Proxy!CallsAccounted
  <2>1. \A c \in Calls : \A r \in sent[c] :
           r.version >= began[c].version[r.secret] /\ r.secret \notin began[c].deleted
    <3> SUFFICES ASSUME NEW c \in Calls, NEW r \in sent[c]
                 PROVE  r.version >= began[c].version[r.secret] /\ r.secret \notin began[c].deleted
      OBVIOUS
    <3> QED
      BY DEF ProxyInv, SentIsResolved, Since
  <2> QED
    BY <2>1 DEF ProxyInv, Logged, Proxy!CallsAccounted
<1> QED
  BY <1>1, <1>2

LEMMA ProxyInit == Proxy!Init => ProxyInv
<1> SUFFICES ASSUME Proxy!Init PROVE ProxyInv
  OBVIOUS
<1>1. \A c \in Calls : call[c] = Proxy!Idle /\ sent[c] = {}
  BY DEF Proxy!Init
<1>2. ProxyTypes
  BY MaximaAssumption DEF Proxy!Init, Proxy!Idle, ProxyTypes, ProxyCall
<1>3. trail = {}
  BY DEF Proxy!Init
<1> QED
  BY <1>1, <1>2, <1>3
     DEF ProxyInv, ResolvedSince, SentIsResolved, ProxyInFlight, Proxy!Idle

(* Versions and deletions only grow: what a call holds against the tables  *)
(* it goes on holding.                                                     *)
LEMMA TablesStep ==
  ASSUME ProxyInv, UNCHANGED <<trail, call, began, sent>>,
         session' \in {"none", "active", "revoked"},
         secret' \in [Secrets -> 1 .. MaxVersion], \A s \in Secrets : secret[s] <= secret'[s],
         removed \subseteq removed', removed' \subseteq Secrets
  PROVE  ProxyInv'
<1>1. ProxyTypes'
  BY DEF ProxyInv, ProxyTypes
<1>2. ASSUME NEW c \in Calls PROVE ResolvedSince(c)'
  <2>1. SUFFICES ASSUME call[c].pc \in ProxyInFlight, NEW s \in Secrets
                 PROVE  began[c].version[s] <= secret'[s]
    BY DEF ProxyInv, ResolvedSince, Since
  <2>2. /\ began[c].version[s] <= secret[s] /\ secret[s] <= secret'[s]
        /\ began[c].version[s] \in Nat /\ secret[s] \in Nat /\ secret'[s] \in Nat
    BY <2>1 DEF ProxyInv, ProxyTypes, ResolvedSince
  <2> QED
    BY <2>2
<1>3. ASSUME NEW c \in Calls PROVE SentIsResolved(c)'
  BY DEF ProxyInv, SentIsResolved, Since
<1> QED
  BY <1>1, <1>2, <1>3 DEF ProxyInv, Logged

LEMMA ProxyTablesStep ==
  ASSUME ProxyInv,
         \/ Proxy!CreateSession \/ Proxy!RevokeSession \/ Proxy!SessionExpires
         \/ \E s \in Secrets : Proxy!Update(s) \/ Proxy!Delete(s)
  PROVE  ProxyInv'
<1>1. CASE Proxy!CreateSession \/ Proxy!RevokeSession \/ Proxy!SessionExpires
  <2>1. /\ UNCHANGED <<trail, call, began, sent, secret, removed>>
        /\ session' \in {"none", "active", "revoked"}
    BY <1>1 DEF Proxy!CreateSession, Proxy!RevokeSession, Proxy!SessionExpires, ProxyInv, ProxyTypes
  <2> QED
    BY <2>1, TablesStep DEF ProxyInv, ProxyTypes
<1>2. ASSUME NEW s \in Secrets, Proxy!Update(s) PROVE ProxyInv'
  <2>1. /\ UNCHANGED <<trail, call, began, sent, session, removed>>
        /\ secret' \in [Secrets -> 1 .. MaxVersion]
        /\ \A t \in Secrets : secret[t] <= secret'[t]
    BY <1>2, MaximaAssumption DEF Proxy!Update, ProxyInv, ProxyTypes
  <2> QED
    BY <2>1, TablesStep DEF ProxyInv, ProxyTypes
<1>3. ASSUME NEW s \in Secrets, Proxy!Delete(s) PROVE ProxyInv'
  <2>1. /\ UNCHANGED <<trail, call, began, sent, session, secret>>
        /\ removed \subseteq removed' /\ removed' \subseteq Secrets
        /\ \A t \in Secrets : secret[t] <= secret'[t]
    BY <1>3 DEF Proxy!Delete, ProxyInv, ProxyTypes
  <2> QED
    BY <2>1, TablesStep DEF ProxyInv, ProxyTypes
<1> QED
  BY <1>1, <1>2, <1>3

(* A step of one call before its commit.                                   *)
LEMMA ProxyCallStep ==
  ASSUME ProxyInv, NEW c \in Calls, UNCHANGED <<session, secret, removed, trail>>,
         call[c].pc # "ok", call'[c].pc # "ok",
         call' = [call EXCEPT ![c] = call'[c]], call'[c] \in ProxyCall,
         began' = [began EXCEPT ![c] = began'[c]],
         sent' = [sent EXCEPT ![c] = sent'[c]], sent'[c] \subseteq Proxy!Resolved,
         ResolvedSince(c)', SentIsResolved(c)'
  PROVE  ProxyInv'
<1>1. /\ ProxyTypes'
      /\ \A d \in Calls \ {c} : call'[d] = call[d] /\ began'[d] = began[d] /\ sent'[d] = sent[d]
  BY DEF ProxyInv, ProxyTypes
<1>2. ASSUME NEW d \in Calls PROVE ResolvedSince(d)' /\ SentIsResolved(d)'
  BY <1>1 DEF ProxyInv, ResolvedSince, SentIsResolved, Since
<1>3. ASSUME NEW e \in trail PROVE Logged(e)'
  BY <1>1 DEF ProxyInv, ProxyTypes, Logged
<1>4. ASSUME NEW d \in Calls, call'[d].pc = "ok" PROVE \E e \in trail : e.call = d
  BY <1>1, <1>4 DEF ProxyInv
<1> QED
  BY <1>1, <1>2, <1>3, <1>4 DEF ProxyInv

LEMMA ProxyCheckStep ==
  ASSUME ProxyInv, NEW c \in Calls, NEW asked \in SUBSET Proxy!Placeholder,
         Proxy!Check(c, asked)
  PROVE  ProxyInv'
<1>1. /\ call[c].pc = "idle" /\ sent[c] = {} /\ sent' = sent /\ sent'[c] = {}
      /\ UNCHANGED <<session, secret, removed, trail>>
  BY DEF Proxy!Check, Proxy!tables, ProxyInv, SentIsResolved
<1>2. /\ call'[c] = [pc |-> "checked", todo |-> asked, read |-> {}, resolved |-> {}, events |-> {}]
      /\ call' = [call EXCEPT ![c] = call'[c]]
      /\ began'[c] = [version |-> secret, deleted |-> removed]
      /\ began' = [began EXCEPT ![c] = began'[c]]
      /\ sent' = [sent EXCEPT ![c] = sent'[c]]
  BY <1>1 DEF Proxy!Check, Proxy!Idle, ProxyInv, ProxyTypes
<1>3. call'[c] \in ProxyCall
  BY <1>2 DEF ProxyCall, ProxyInFlight
<1>4. \A s \in Secrets : secret[s] <= secret[s]
  BY DEF ProxyInv, ProxyTypes
<1>5. ResolvedSince(c)'
  BY <1>1, <1>2, <1>4 DEF ResolvedSince, ProxyInv, ProxyTypes
<1>6. SentIsResolved(c)'
  BY <1>1, <1>2 DEF SentIsResolved
<1> QED
  BY <1>1, <1>2, <1>3, <1>5, <1>6, ProxyCallStep

(* resolve_placeholders: the version that is read was current at its SELECT*)
(* or when the call resolved the secret before.                            *)
LEMMA SelectSecretStep ==
  ASSUME ProxyInv, NEW c \in Calls, NEW p \in Proxy!Placeholder, Proxy!SelectSecret(c, p)
  PROVE  ProxyInv'
<1>1. /\ call[c].pc = "checked" /\ call[c] \in ProxyCall
      /\ began' = began /\ sent' = sent /\ sent[c] = {}
      /\ p.secret \in Secrets /\ p.secret \notin removed
      /\ UNCHANGED <<session, secret, removed, trail>>
  BY DEF Proxy!SelectSecret, Proxy!Placeholder, Proxy!tables, ProxyInv, ProxyTypes, SentIsResolved
<1>2. PICK v \in {secret[p.secret]} \cup {r.version : r \in {q \in call[c].resolved :
                                                               q.secret = p.secret}} :
         call' = [call EXCEPT ![c].pc = "selected", ![c].todo = @ \ {p},
                              ![c].read = {[part |-> p.part, secret |-> p.secret, version |-> v]}]
  BY DEF Proxy!SelectSecret
<1> DEFINE new == [part |-> p.part, secret |-> p.secret, version |-> v]
<1>3. /\ call'[c].pc = "selected" /\ call'[c].read = {new}
      /\ call'[c].resolved = call[c].resolved /\ call'[c].events = call[c].events
      /\ call'[c].todo = call[c].todo \ {p}
      /\ call' = [call EXCEPT ![c] = call'[c]]
      /\ call'[c] = [pc |-> "selected", todo |-> call[c].todo \ {p}, read |-> {new},
                     resolved |-> call[c].resolved, events |-> call[c].events]
  BY <1>1, <1>2 DEF ProxyInv, ProxyTypes, ProxyCall
<1>4. v \in 1 .. MaxVersion /\ began[c].version[p.secret] <= v
  <2>1. CASE v = secret[p.secret]
    BY <1>1, <2>1 DEF ProxyInv, ProxyTypes, ResolvedSince, ProxyInFlight
  <2>2. CASE \E r \in call[c].resolved : r.secret = p.secret /\ v = r.version
    BY <1>1, <2>2 DEF ProxyInv, ResolvedSince, ProxyInFlight, Since, ProxyCall, Proxy!Resolved
  <2> QED
    BY <1>2, <2>1, <2>2
<1>5. new \in Proxy!Resolved
  BY <1>4 DEF Proxy!Resolved, Proxy!Placeholder
<1>6. Since(c, new)
  BY <1>1, <1>4 DEF Since, ProxyInv, ResolvedSince, ProxyInFlight
<1> HIDE DEF new
<1>7. call'[c] \in ProxyCall
  BY <1>1, <1>3, <1>5 DEF ProxyCall, ProxyInFlight
<1>8. ResolvedSince(c)'
  BY <1>1, <1>3, <1>6 DEF ProxyInv, ResolvedSince, ProxyInFlight, Since
<1>9. SentIsResolved(c)'
  BY <1>1, <1>3 DEF SentIsResolved
<1>10. began' = [began EXCEPT ![c] = began'[c]] /\ sent' = [sent EXCEPT ![c] = sent'[c]]
  BY <1>1 DEF ProxyInv, ProxyTypes
<1> QED
  BY <1>1, <1>3, <1>7, <1>8, <1>9, <1>10, ProxyCallStep DEF ProxyInv, ProxyTypes

LEMMA RevealSecretStep ==
  ASSUME ProxyInv, NEW c \in Calls, Proxy!Reveal(c)
  PROVE  ProxyInv'
<1>1. /\ call[c].pc = "selected" /\ call[c] \in ProxyCall
      /\ began' = began /\ sent' = sent /\ sent[c] = {}
      /\ UNCHANGED <<session, secret, removed, trail>>
  BY DEF Proxy!Reveal, Proxy!tables, ProxyInv, ProxyTypes, SentIsResolved
<1>2. PICK r \in call[c].read :
         call' = [call EXCEPT ![c].pc = "checked", ![c].read = {},
                              ![c].resolved = @ \cup {r}, ![c].events = call[c].events \cup {r}]
  BY DEF Proxy!Reveal, Proxy!Logged
<1>3. /\ call'[c] = [pc |-> "checked", todo |-> call[c].todo, read |-> {},
                     resolved |-> call[c].resolved \cup {r}, events |-> call[c].events \cup {r}]
      /\ call' = [call EXCEPT ![c] = call'[c]]
  BY <1>1, <1>2 DEF ProxyInv, ProxyTypes, ProxyCall
<1>4. call'[c] \in ProxyCall
  BY <1>1, <1>3 DEF ProxyCall, ProxyInFlight
<1>5. ResolvedSince(c)'
  BY <1>1, <1>3 DEF ProxyInv, ResolvedSince, ProxyInFlight, Since
<1>6. SentIsResolved(c)'
  BY <1>1, <1>3 DEF SentIsResolved
<1>7. began' = [began EXCEPT ![c] = began'[c]] /\ sent' = [sent EXCEPT ![c] = sent'[c]]
  BY <1>1 DEF ProxyInv, ProxyTypes
<1>8. /\ call[c].pc # "ok" /\ call'[c].pc # "ok" /\ call' = [call EXCEPT ![c] = call'[c]]
      /\ sent'[c] \subseteq Proxy!Resolved /\ UNCHANGED <<session, secret, removed, trail>>
  BY <1>1, <1>3
<1> QED
  BY <1>4, <1>5, <1>6, <1>7, <1>8, ProxyCallStep

LEMMA SendStep ==
  ASSUME ProxyInv, NEW c \in Calls, Proxy!Send(c)
  PROVE  ProxyInv'
<1>1. /\ call[c].pc = "checked" /\ call[c] \in ProxyCall /\ began' = began
      /\ UNCHANGED <<session, secret, removed, trail>>
      /\ sent' = [sent EXCEPT ![c] = call[c].resolved] /\ sent'[c] = call[c].resolved
  BY DEF Proxy!Send, Proxy!tables, ProxyInv, ProxyTypes
<1>2. /\ call'[c] = [pc |-> "sent", todo |-> call[c].todo, read |-> call[c].read,
                     resolved |-> call[c].resolved, events |-> call[c].events]
      /\ call' = [call EXCEPT ![c] = call'[c]]
  BY <1>1 DEF Proxy!Send, ProxyInv, ProxyTypes, ProxyCall
<1>3. call'[c] \in ProxyCall /\ sent'[c] \subseteq Proxy!Resolved
  BY <1>1, <1>2 DEF ProxyCall, ProxyInFlight
<1>4. ResolvedSince(c)'
  BY <1>1, <1>2 DEF ProxyInv, ResolvedSince, ProxyInFlight, Since
<1>5. SentIsResolved(c)'
  BY <1>1, <1>2 DEF ProxyInv, ResolvedSince, ProxyInFlight, SentIsResolved, Since
<1>6. began' = [began EXCEPT ![c] = began'[c]] /\ sent' = [sent EXCEPT ![c] = sent'[c]]
  BY <1>1 DEF ProxyInv, ProxyTypes
<1>7. /\ call[c].pc # "ok" /\ call'[c].pc # "ok" /\ call' = [call EXCEPT ![c] = call'[c]]
      /\ UNCHANGED <<session, secret, removed, trail>>
  BY <1>1, <1>2
<1> QED
  BY <1>3, <1>4, <1>5, <1>6, <1>7, ProxyCallStep

LEMMA ProxyAbortStep ==
  ASSUME ProxyInv, NEW c \in Calls, Proxy!Abort(c)
  PROVE  ProxyInv'
<1>1. /\ call[c].pc \in ProxyInFlight /\ call[c] \in ProxyCall
      /\ began' = began /\ sent' = sent
      /\ UNCHANGED <<session, secret, removed, trail>>
  BY DEF Proxy!Abort, Proxy!tables, ProxyInFlight, ProxyInv, ProxyTypes
<1>2. /\ call'[c] = [pc |-> "failed", todo |-> {}, read |-> {}, resolved |-> {}, events |-> {}]
      /\ call' = [call EXCEPT ![c] = call'[c]]
  BY DEF Proxy!Abort, Proxy!Idle, ProxyInv, ProxyTypes
<1>3. call'[c] \in ProxyCall /\ sent'[c] \subseteq Proxy!Resolved
  BY <1>1, <1>2 DEF ProxyCall, ProxyInv, ProxyTypes
<1>4. ResolvedSince(c)' /\ SentIsResolved(c)'
  BY <1>1, <1>2 DEF ProxyInv, ResolvedSince, ProxyInFlight, SentIsResolved, Since
<1>5. began' = [began EXCEPT ![c] = began'[c]] /\ sent' = [sent EXCEPT ![c] = sent'[c]]
  BY <1>1 DEF ProxyInv, ProxyTypes
<1> QED
  BY <1>1, <1>2, <1>3, <1>4, <1>5, ProxyCallStep DEF ProxyInFlight

(* The commit of a call and of its events.                                 *)
LEMMA ProxyCommitStep ==
  ASSUME ProxyInv, NEW c \in Calls, Proxy!Commit(c)
  PROVE  ProxyInv'
<1> DEFINE e == [call |-> c, reveals |-> call[c].events]
<1>1. /\ call[c].pc = "sent" /\ call[c].events = sent[c]
      /\ trail' = trail \cup {e}
      /\ UNCHANGED <<session, secret, removed, began, sent>>
  BY DEF Proxy!Commit, ProxyInv, SentIsResolved, ResolvedSince, ProxyInFlight
<1>2. /\ call'[c] = [pc |-> "ok", todo |-> {}, read |-> {}, resolved |-> {}, events |-> {}]
      /\ call' = [call EXCEPT ![c] = call'[c]]
      /\ \A d \in Calls \ {c} : call'[d] = call[d]
  BY DEF Proxy!Commit, Proxy!Idle, ProxyInv, ProxyTypes
<1>3. ProxyTypes'
  <2>1. call'[c] \in ProxyCall
    BY <1>2 DEF ProxyCall
  <2>2. call' \in [Calls -> ProxyCall]
    BY <1>2, <2>1 DEF ProxyInv, ProxyTypes
  <2>3. \A f \in trail' : f.call \in Calls
    BY <1>1 DEF ProxyInv, ProxyTypes
  <2> QED
    BY <1>1, <2>2, <2>3 DEF ProxyInv, ProxyTypes
<1>4. ASSUME NEW d \in Calls PROVE ResolvedSince(d)' /\ SentIsResolved(d)'
  BY <1>1, <1>2 DEF ProxyInv, ResolvedSince, ProxyInFlight, SentIsResolved, Since
<1>5. ASSUME NEW f \in trail' PROVE Logged(f)'
  <2>1. CASE f = e
    BY <1>1, <1>2, <2>1 DEF Logged
  <2>2. CASE f \in trail
    BY <1>1, <1>2, <2>2 DEF ProxyInv, ProxyTypes, Logged
  <2> QED
    BY <1>1, <2>1, <2>2
<1>6. ASSUME NEW d \in Calls, call'[d].pc = "ok" PROVE \E f \in trail' : f.call = d
  <2>1. CASE d = c
    <3>1. e \in trail' /\ e.call = c
      BY <1>1
    <3> QED
      BY <2>1, <3>1
  <2>2. CASE d # c
    BY <1>1, <1>2, <1>6, <2>2 DEF ProxyInv
  <2> QED
    BY <2>1, <2>2
<1> QED
  BY <1>3, <1>4, <1>5, <1>6 DEF ProxyInv

LEMMA ProxyNext == ProxyInv /\ [Proxy!Next]_proxyVars => ProxyInv'
<1> SUFFICES ASSUME ProxyInv, [Proxy!Next]_proxyVars PROVE ProxyInv'
  OBVIOUS
<1>1. CASE UNCHANGED proxyVars
  BY <1>1 DEF ProxyInv, proxyVars, ProxyTypes, ResolvedSince, SentIsResolved, Since, Logged
<1>2. CASE Proxy!Next
  BY <1>2, ProxyTablesStep, ProxyCheckStep, SelectSecretStep, RevealSecretStep, SendStep,
     ProxyCommitStep, ProxyAbortStep DEF Proxy!Next
<1> QED
  BY <1>1, <1>2

-----------------------------------------------------------------------------
LEMMA LimiterImplied == CounterInv => Limiter!TypeOK
<1> SUFFICES ASSUME CounterInv PROVE Limiter!TypeOK
  OBVIOUS
<1>1. count \in 0 .. MaxRequests
  BY LimitAssumption DEF CounterInv, LimiterTypes
<1> QED
  BY <1>1, LimitAssumption DEF CounterInv, LimiterTypes, Limiter!TypeOK, Limiter!Times

LEMMA CounterInit == Limiter!Init => CounterInv
<1> SUFFICES ASSUME Limiter!Init PROVE CounterInv
  OBVIOUS
<1>1. LimiterTypes
  BY LimitAssumption DEF Limiter!Init, Limiter!NoWindow, Limiter!Never, LimiterTypes
<1>2. OneToExpire /\ NoCounterNoExpiry /\ Limiter!CounterExpires
  BY DEF Limiter!Init, OneToExpire, NoCounterNoExpiry, Limiter!CounterExpires
<1> QED
  BY <1>1, <1>2 DEF CounterInv

LEMMA FallBackType ==
  ASSUME CounterInv, NEW p \in Processes, Limiter!FallBack(p)
  PROVE  memory' \in [Processes -> [count : 0 .. max_requests, start : Nat]]
<1>1. /\ now \in Nat /\ memory[p] \in [count : 0 .. max_requests, start : Nat]
      /\ memory \in [Processes -> [count : 0 .. max_requests, start : Nat]]
  BY LimitAssumption DEF CounterInv, LimiterTypes
<1>2. CASE memory' = [memory EXCEPT ![p] = [count |-> 1, start |-> now]]
  BY <1>1, <1>2, LimitAssumption
<1>3. CASE memory[p].count < max_requests /\ memory' = [memory EXCEPT ![p].count = @ + 1]
  <2>1. [memory[p] EXCEPT !.count = @ + 1] \in [count : 0 .. max_requests, start : Nat]
    BY <1>1, <1>3, LimitAssumption
  <2> QED
    BY <1>1, <1>3, <2>1
<1>4. CASE memory' = memory
  BY <1>1, <1>4
<1> QED
  BY <1>2, <1>3, <1>4 DEF Limiter!FallBack

LEMMA IncrementStep ==
  ASSUME CounterInv, NEW p \in Processes, Limiter!Increment(p)
  PROVE  CounterInv'
<1>1. /\ requests < MaxRequests /\ requests' = requests + 1 /\ count' = count + 1
      /\ expiring' = [expiring EXCEPT ![p] = @ + IF count = 0 THEN 1 ELSE 0]
      /\ UNCHANGED <<now, expires, memory, cutOff>>
  BY DEF Limiter!Increment, Limiter!Request
<1>2. /\ count \in Nat /\ expiring[p] \in 0 .. 1
      /\ count = 0 => \A q \in Processes : expiring[q] = 0
  BY LimitAssumption DEF CounterInv, LimiterTypes, OneToExpire
<1>3. /\ expiring' \in [Processes -> 0 .. 1]
      /\ count = 0 => expiring'[p] = 1 /\ \A q \in Processes \ {p} : expiring'[q] = 0
      /\ count > 0 => expiring' = expiring
  BY <1>1, <1>2 DEF CounterInv, LimiterTypes
<1>4. LimiterTypes'
  BY <1>1, <1>3, LimitAssumption DEF CounterInv, LimiterTypes, Limiter!Never
<1>5. count = 0 => expires = Limiter!Never
  BY DEF CounterInv, NoCounterNoExpiry
<1>6. OneToExpire'
  BY <1>1, <1>2, <1>3, <1>5 DEF CounterInv, OneToExpire, Limiter!Never
<1>7. Limiter!CounterExpires'
  <2>1. CASE count = 0
    BY <1>3, <2>1 DEF Limiter!CounterExpires
  <2>2. CASE count > 0
    BY <1>1, <1>3, <2>2 DEF CounterInv, Limiter!CounterExpires, Limiter!Never
  <2> QED
    BY <1>2, <2>1, <2>2
<1>8. NoCounterNoExpiry'
  BY <1>1, <1>2 DEF NoCounterNoExpiry
<1> QED
  BY <1>4, <1>6, <1>7, <1>8 DEF CounterInv

LEMMA ExpiryStep ==
  ASSUME CounterInv, NEW p \in Processes, Limiter!Expire(p) \/ Limiter!ExpireFails(p)
  PROVE  CounterInv'
<1>1. /\ expiring[p] > 0 /\ expiring' = [expiring EXCEPT ![p] = @ - 1]
      /\ UNCHANGED <<now, count, requests>>
      /\ \/ expires' = now + window_seconds /\ cutOff' = cutOff
         \/ cutOff' = TRUE /\ expires' = expires
  BY DEF Limiter!Expire, Limiter!ExpireFails
<1>2. memory' \in [Processes -> [count : 0 .. max_requests, start : Nat]]
  BY FallBackType DEF Limiter!Expire, Limiter!ExpireFails, CounterInv, LimiterTypes
<1>3. /\ count > 0 /\ expires = Limiter!Never /\ expiring[p] = 1
      /\ \A q \in Processes \ {p} : expiring[q] = 0
  BY <1>1 DEF CounterInv, OneToExpire, LimiterTypes
<1>4. expiring' \in [Processes -> 0 .. 1] /\ \A q \in Processes : expiring'[q] = 0
  BY <1>1, <1>3 DEF CounterInv, LimiterTypes
<1>5. /\ expires' \in window_seconds .. Limiter!Never
      /\ expires' = now + window_seconds => expires' # Limiter!Never
  BY <1>1, LimitAssumption DEF CounterInv, LimiterTypes, Limiter!Never
<1>6. Limiter!Never' = Limiter!Never
  BY DEF Limiter!Never
<1>7. LimiterTypes'
  BY <1>1, <1>2, <1>4, <1>5, <1>6 DEF CounterInv, LimiterTypes
<1> QED
  BY <1>1, <1>3, <1>4, <1>5, <1>6, <1>7
     DEF CounterInv, OneToExpire, Limiter!CounterExpires, NoCounterNoExpiry

LEMMA IncrementFailsStep ==
  ASSUME CounterInv, NEW p \in Processes, Limiter!IncrementFails(p)
  PROVE  CounterInv'
<1>1. /\ requests < MaxRequests /\ requests' = requests + 1
      /\ \/ count' = count /\ cutOff' = cutOff
         \/ count' = count + 1 /\ cutOff' = (cutOff \/ count = 0)
      /\ UNCHANGED <<now, expires, expiring>>
  BY DEF Limiter!IncrementFails, Limiter!Request
<1>2. memory' \in [Processes -> [count : 0 .. max_requests, start : Nat]]
  BY FallBackType DEF Limiter!IncrementFails
<1>3. count \in Nat /\ count' >= count /\ count' \in 0 .. requests' /\ Limiter!Never' = Limiter!Never
  BY <1>1, LimitAssumption DEF CounterInv, LimiterTypes, Limiter!Never
<1>4. LimiterTypes'
  BY <1>1, <1>2, <1>3, LimitAssumption DEF CounterInv, LimiterTypes
<1>5. OneToExpire' /\ NoCounterNoExpiry'
  BY <1>1, <1>3 DEF CounterInv, OneToExpire, NoCounterNoExpiry
<1>6. Limiter!CounterExpires'
  <2>1. CASE count' = count /\ cutOff' = cutOff
    BY <1>1, <1>3, <2>1 DEF CounterInv, Limiter!CounterExpires
  <2>2. CASE count = 0 /\ cutOff' = (cutOff \/ count = 0)
    BY <2>2 DEF Limiter!CounterExpires
  <2>3. CASE count > 0 /\ cutOff' = (cutOff \/ count = 0)
    <3>1. expires = Limiter!Never => cutOff \/ \E q \in Processes : expiring[q] > 0
      BY <2>3 DEF CounterInv, Limiter!CounterExpires
    <3> QED
      BY <1>1, <1>3, <2>3, <3>1 DEF Limiter!CounterExpires
  <2> QED
    BY <1>1, <1>3, <2>1, <2>2, <2>3
<1> QED
  BY <1>4, <1>5, <1>6 DEF CounterInv

LEMMA LimiterCrashStep ==
  ASSUME CounterInv, NEW p \in Processes, Limiter!Crash(p)
  PROVE  CounterInv'
<1>1. /\ expiring' = [expiring EXCEPT ![p] = 0]
      /\ cutOff' = (cutOff \/ expiring[p] > 0)
      /\ memory' = [memory EXCEPT ![p] = [count |-> 0, start |-> 0]]
      /\ UNCHANGED <<now, count, expires, requests>>
  BY DEF Limiter!Crash, Limiter!NoWindow
<1>2. /\ Limiter!Never' = Limiter!Never
      /\ memory' \in [Processes -> [count : 0 .. max_requests, start : Nat]]
  BY <1>1, LimitAssumption DEF Limiter!Never, CounterInv, LimiterTypes
<1>3. LimiterTypes'
  BY <1>1, <1>2 DEF CounterInv, LimiterTypes
<1>4. OneToExpire' /\ NoCounterNoExpiry'
  BY <1>1, <1>2 DEF CounterInv, LimiterTypes, OneToExpire, NoCounterNoExpiry
<1>5. Limiter!CounterExpires'
  BY <1>1, <1>2 DEF CounterInv, LimiterTypes, Limiter!CounterExpires
<1> QED
  BY <1>3, <1>4, <1>5 DEF CounterInv

LEMMA TickStep ==
  ASSUME CounterInv, Limiter!Tick
  PROVE  CounterInv'
<1>1. /\ now < MaxTime /\ now' = now + 1
      /\ count' = IF expires <= now + 1 THEN 0 ELSE count
      /\ expires' = IF expires <= now + 1 THEN Limiter!Never ELSE expires
      /\ UNCHANGED <<memory, expiring, requests, cutOff>>
  BY DEF Limiter!Tick
<1>2. Limiter!Never' = Limiter!Never /\ Limiter!Never \in Nat /\ ~(Limiter!Never <= now + 1)
      /\ window_seconds <= Limiter!Never
  BY <1>1, LimitAssumption DEF Limiter!Never, CounterInv, LimiterTypes
<1>3. LimiterTypes'
  BY <1>1, <1>2, LimitAssumption DEF CounterInv, LimiterTypes
<1>4. OneToExpire' /\ NoCounterNoExpiry'
  BY <1>1, <1>2 DEF CounterInv, OneToExpire, NoCounterNoExpiry
<1>5. Limiter!CounterExpires'
  BY <1>1, <1>2 DEF CounterInv, Limiter!CounterExpires
<1> QED
  BY <1>3, <1>4, <1>5 DEF CounterInv

LEMMA LimiterTime ==
  ASSUME CounterInv
  PROVE  /\ now \in 0 .. MaxTime /\ now \in Nat /\ window_seconds \in Nat /\ max_requests \in Nat \ {0}
         /\ count \in Nat /\ expires \in Nat /\ Limiter!Never = MaxTime + window_seconds + 1
         /\ \A p \in Processes : memory[p].count \in 0 .. max_requests /\ memory[p].start \in Nat
  BY LimitAssumption DEF CounterInv, LimiterTypes, Limiter!Never

(* Where the order and the gaps of a log leave room for a window.          *)
LEMMA LeastElement ==
  ASSUME NEW T, T \subseteq Nat, T # {}
  PROVE  \E m \in T : \A k \in T : m <= k
<1> DEFINE Less == {p \in Nat \X Nat : p[1] < p[2]}
<1>1. IsWellFoundedOn(Less, Nat)
  BY NatLessThanWellFounded DEF OpToRel
<1>2. \A i, j \in Nat : <<j, i>> \notin Less => i <= j
  OBVIOUS
<1> HIDE DEF Less
<1>3. PICK i \in T : \A j \in T : <<j, i>> \notin Less
  BY <1>1, WFMin, Zenon
<1> QED
  BY <1>2, <1>3

LEMMA WindowBound ==
  ASSUME NEW time \in Nat, NEW instants, InOrder(instants, time), Spaced(instants), NEW t \in Nat
  PROVE  Limiter!InWindow(instants, t) <= 2 * max_requests
<1> DEFINE T == {i \in DOMAIN instants : t <= instants[i] /\ instants[i] < t + window_seconds}
           most == 2 * max_requests
<1>1. Limiter!InWindow(instants, t) = Cardinality(T)
  BY DEF Limiter!InWindow, Limiter!Cardinality, Cardinality
<1>2. most \in Nat /\ window_seconds \in Nat
  BY LimitAssumption
<1>3. /\ Len(instants) \in Nat /\ DOMAIN instants = 1 .. Len(instants)
      /\ \A i \in DOMAIN instants : instants[i] \in Nat
  BY DEF InOrder
<1>4. CASE T = {}
  BY <1>1, <1>2, <1>4, FS_EmptySet
<1>5. CASE T # {}
  <2>1. PICK m \in T : \A k \in T : m <= k
    <3>1. T \subseteq Nat
      BY <1>3
    <3> QED
      BY <1>5, <3>1, LeastElement
  <2>2. ASSUME NEW k \in T, k > m + most - 1 PROVE FALSE
    <3>1. m \in 1 .. Len(instants) - most /\ m + most \in DOMAIN instants /\ m + most <= k
      BY <1>2, <1>3, <2>2
    <3>2. instants[m] + window_seconds <= instants[m + most]
      BY <3>1 DEF Spaced
    <3>3. instants[m + most] <= instants[k]
      BY <3>1 DEF InOrder
    <3> QED
      BY <1>2, <1>3, <3>1, <3>2, <3>3
  <2>3. T \subseteq m .. m + most - 1
    BY <1>2, <1>3, <2>1, <2>2
  <2>4. m \in Int /\ m + most - 1 \in Int
    BY <1>2, <1>3
  <2>5. IsFiniteSet(m .. m + most - 1) /\ Cardinality(m .. m + most - 1) = most
    <3> HIDE DEF most, T
    <3> QED
      BY <1>2, <2>4, FS_Interval
  <2>6. Cardinality(T) <= Cardinality(m .. m + most - 1)
    BY <2>3, <2>5, FS_Subset
  <2> QED
    BY <1>1, <2>5, <2>6
<1> QED
  BY <1>4, <1>5

(* Time passes, and nothing is admitted.                                   *)
LEMMA EarlierStill ==
  ASSUME NEW time \in Nat, NEW later \in Nat, time <= later,
         NEW instants, NEW k, Earlier(instants, k, time)
  PROVE  Earlier(instants, k, later)
<1>1. instants \in Seq(0 .. later)
  BY SeqMonotonic DEF Earlier, InOrder
<1>2. Len(instants) \in Nat /\ \A i \in 1 .. Len(instants) : instants[i] \in Nat
  BY DEF Earlier, InOrder
<1> QED
  BY <1>1, <1>2, LimitAssumption DEF Earlier, InOrder

LEMMA Log ==
  ASSUME NEW time \in Nat, NEW instants, NEW k, Earlier(instants, k, time)
  PROVE  /\ Len(instants) \in Nat /\ DOMAIN instants = 1 .. Len(instants)
         /\ instants \in Seq(0 .. time)
         /\ k \in 0 .. Len(instants) /\ Len(instants) - k <= max_requests
         /\ \A i \in 1 .. Len(instants) : instants[i] \in 0 .. time
         /\ \A i, j \in 1 .. Len(instants) : i <= j => instants[i] <= instants[j]
<1>1. instants \in Seq(0 .. time)
  BY DEF Earlier, InOrder
<1>2. Len(instants) \in Nat /\ DOMAIN instants = 1 .. Len(instants)
      /\ \A i \in 1 .. Len(instants) : instants[i] \in 0 .. time
  BY <1>1
<1> QED
  BY <1>1, <1>2 DEF Earlier, InOrder

(* One more is admitted, and there was room for it.                        *)
LEMMA OneMore ==
  ASSUME NEW time \in Nat, NEW instants, NEW k,
         Earlier(instants, k, time), Len(instants) - k < max_requests
  PROVE  /\ Earlier(Append(instants, time), k, time)
         /\ Len(instants) \in Nat /\ Len(Append(instants, time)) = Len(instants) + 1
         /\ \A i \in 1 .. Len(instants) : Append(instants, time)[i] = instants[i]
<1> DEFINE n == Len(instants)  more == Append(instants, time)
<1>1. /\ n \in Nat /\ DOMAIN instants = 1 .. n /\ k \in 0 .. n
      /\ \A i \in 1 .. n : instants[i] \in 0 .. time
      /\ instants \in Seq(0 .. time)
      /\ \A i, j \in 1 .. n : i <= j => instants[i] <= instants[j]
  BY Log
<1>2. /\ more \in Seq(0 .. time) /\ Len(more) = n + 1 /\ DOMAIN more = 1 .. n + 1
      /\ \A i \in 1 .. n : more[i] = instants[i]
      /\ more[n + 1] = time
  BY <1>1, AppendProperties
<1>3. max_requests \in Nat \ {0} /\ window_seconds \in Nat
  BY LimitAssumption
<1> HIDE DEF n, more
<1>4. InOrder(more, time)
  <2> SUFFICES ASSUME NEW i \in 1 .. n + 1, NEW j \in 1 .. n + 1, i <= j
               PROVE  more[i] <= more[j]
    BY <1>2 DEF InOrder
  <2>1. CASE j = n + 1
    BY <1>1, <1>2, <2>1
  <2>2. CASE j # n + 1
    <3>1. i \in 1 .. n /\ j \in 1 .. n
      BY <1>1, <2>2
    <3>2. instants[i] <= instants[j]
      BY <1>1, <3>1
    <3> QED
      BY <1>2, <3>1, <3>2
  <2> QED
    BY <2>1, <2>2
<1>5. Spaced(more)
  <2> SUFFICES ASSUME NEW i \in 1 .. Len(more) - 2 * max_requests
               PROVE  more[i] + window_seconds <= more[i + 2 * max_requests]
    BY DEF Spaced
  <2> i \in 1 .. n + 1 - 2 * max_requests
    BY <1>1, <1>2, <1>3
  <2>1. i \in 1 .. n /\ i + 2 * max_requests \in 1 .. n + 1
    BY <1>1, <1>3
  <2>2. CASE i = n + 1 - 2 * max_requests
    <3>1. i <= k - max_requests
      BY <1>1, <1>3, <2>2 DEF n
    <3>2. instants[i] + window_seconds <= time
      BY <1>1, <1>3, <2>1, <3>1 DEF Earlier
    <3>3. i + 2 * max_requests = n + 1
      BY <1>1, <1>3, <2>2
    <3> QED
      BY <1>2, <2>1, <3>2, <3>3
  <2>3. CASE i # n + 1 - 2 * max_requests
    <3>1. i \in 1 .. n - 2 * max_requests /\ i + 2 * max_requests \in 1 .. n
      BY <1>1, <1>3, <2>3
    <3>2. instants[i] + window_seconds <= instants[i + 2 * max_requests]
      BY <3>1 DEF Earlier, Spaced, n
    <3> QED
      BY <1>2, <2>1, <3>1, <3>2
  <2> QED
    BY <2>2, <2>3
<1>6. Earlier(more, k, time)
  <2>1. k \in 0 .. n + 1 /\ n + 1 - k <= max_requests
    BY <1>1, <1>3 DEF n
  <2>2. ASSUME NEW i \in 1 .. k - max_requests PROVE more[i] + window_seconds <= time
    <3>1. i \in 1 .. n
      BY <1>1, <1>3
    <3> QED
      BY <1>2, <3>1 DEF Earlier
  <2>3. k \in 0 .. Len(more) /\ Len(more) - k <= max_requests
    <3>1. Len(more) = n + 1
      BY <1>2
    <3> QED
      BY <1>1, <2>1, <3>1
  <2>4. \A i \in 1 .. k - max_requests : more[i] + window_seconds <= time
    BY <2>2
  <2> QED
    BY <1>4, <1>5, <2>3, <2>4, Zenon DEF Earlier
<1> QED
  BY <1>1, <1>2, <1>6 DEF n, more

(* A step that admits nothing by Redis and forgets no counter.             *)
LEMMA QuietByRedis ==
  ASSUME CounterInv, CounterInv', NEW k, ByRedis(k), admitted' = admitted, now <= now',
         count <= count', Waiting' <= Waiting,
         expires' = expires \/ now + window_seconds <= expires'
  PROVE  ByRedis(k)'
<1>1. now \in Nat /\ now' \in Nat /\ count \in Nat /\ count' \in Nat /\ window_seconds \in Nat
      /\ expires \in Nat /\ expires' \in Nat /\ max_requests \in Nat
  BY LimiterTime, LimitAssumption DEF CounterInv, LimiterTypes, Limiter!Never
<1>2. Earlier(admitted, k, now')
  BY <1>1, EarlierStill DEF ByRedis
<1>3. Len(admitted) \in Nat /\ k \in 0 .. Len(admitted) /\ Waiting \in Nat /\ Waiting' \in Nat
      /\ \A i \in 1 .. k : admitted[i] \in 0 .. now
  <2>1. Earlier(admitted, k, now)
    BY DEF ByRedis
  <2> QED
    BY <1>1, <2>1, Log DEF Waiting
<1>4. Len(admitted) - k + Waiting' <= count' /\ Len(admitted) - k + Waiting' <= max_requests
  BY <1>1, <1>3 DEF ByRedis
<1>5. ASSUME NEW i \in 1 .. k PROVE admitted[i] + window_seconds <= expires'
  BY <1>1, <1>3 DEF ByRedis
<1> QED
  BY <1>2, <1>4, <1>5 DEF ByRedis

LEMMA RedisStep ==
  ASSUME CounterInv, CounterInv', NEW k, ByRedis(k), [Limiter!Next]_limiterVars
  PROVE  \E n \in 0 .. Len(admitted)' : ByRedis(n)'
<1>1. /\ now \in Nat /\ count \in Nat /\ window_seconds \in Nat /\ max_requests \in Nat \ {0}
      /\ expires \in Nat /\ now <= MaxTime /\ MaxTime \in Nat
      /\ Limiter!Never = MaxTime + window_seconds + 1 /\ Limiter!Never' = Limiter!Never
  BY LimiterTime, LimitAssumption DEF CounterInv, LimiterTypes, Limiter!Never
<1>2. /\ Len(admitted) \in Nat /\ k \in 0 .. Len(admitted)
      /\ \A i \in 1 .. Len(admitted) : admitted[i] \in 0 .. now
      /\ Earlier(admitted, k, now)
      /\ Len(admitted) - k + Waiting <= count /\ Len(admitted) - k + Waiting <= max_requests
      /\ \A i \in 1 .. k : admitted[i] + window_seconds <= expires
  BY <1>1, Log DEF ByRedis
<1>3. Waiting \in 0 .. 1 /\ Waiting' \in 0 .. 1
  BY DEF Waiting
<1>4. expiring \in [Processes -> 0 .. 1]
  BY DEF CounterInv, LimiterTypes
<1>5. CASE UNCHANGED limiterVars
  <2>1. ByRedis(k)'
    BY <1>1, <1>3, <1>5, QuietByRedis DEF limiterVars, Waiting
  <2> QED
    BY <1>2, <1>5, <2>1 DEF limiterVars
<1>6. CASE Limiter!Tick
  <2>1. /\ now' = now + 1 /\ admitted' = admitted /\ expiring' = expiring /\ now < MaxTime
        /\ count' = IF expires <= now + 1 THEN 0 ELSE count
        /\ expires' = IF expires <= now + 1 THEN Limiter!Never ELSE expires
    BY <1>6 DEF Limiter!Tick
  <2>2. Waiting' = Waiting
    BY <2>1 DEF Waiting
  <2>3. CASE expires <= now + 1
    <3>1. Waiting = 0
      BY <1>1, <2>1, <2>3 DEF CounterInv, OneToExpire, Waiting
    <3>2. Earlier(admitted, k, now + 1)
      BY <1>1, <1>2, EarlierStill
    <3>3. ASSUME NEW i \in 1 .. Len(admitted) - max_requests
          PROVE  admitted[i] + window_seconds <= now + 1
      <4>1. i \in 1 .. k /\ admitted[i] \in Nat
        BY <1>1, <1>2, <1>3
      <4> QED
        BY <1>1, <1>2, <2>3, <4>1
    <3>4. Earlier(admitted, Len(admitted), now + 1)
      BY <1>1, <1>2, <3>2, <3>3 DEF Earlier
    <3>5. ASSUME NEW i \in 1 .. Len(admitted) PROVE admitted[i] + window_seconds <= Limiter!Never
      BY <1>1, <1>2
    <3>6. ByRedis(Len(admitted))'
      BY <1>1, <1>2, <2>1, <2>2, <2>3, <3>1, <3>4, <3>5 DEF ByRedis
    <3> QED
      BY <1>2, <2>1, <3>6
  <2>4. CASE ~(expires <= now + 1)
    <3>1. ByRedis(k)'
      BY <1>1, <1>3, <2>1, <2>2, <2>4, QuietByRedis
    <3> QED
      BY <1>2, <2>1, <3>1
  <2> QED
    BY <2>3, <2>4
<1>7. ASSUME NEW p \in Processes, Limiter!Increment(p)
      PROVE  \E n \in 0 .. Len(admitted)' : ByRedis(n)'
  <2>1. /\ now' = now /\ expires' = expires /\ count' = count + 1
        /\ expiring' = [expiring EXCEPT ![p] = @ + IF count = 0 THEN 1 ELSE 0]
        /\ admitted' = IF count > 0 /\ count < max_requests
                       THEN Append(admitted, now) ELSE admitted
    BY <1>7 DEF Limiter!Increment
  <2>2. count > 0 => Waiting' = Waiting
    <3>1. count > 0 => expiring' = expiring
      BY <1>1, <1>4, <2>1
    <3> QED
      BY <3>1 DEF Waiting
  <2>3. CASE count = 0
    <3>1. ByRedis(k)'
      BY <1>1, <1>2, <1>3, <2>1, <2>3 DEF ByRedis
    <3> QED
      BY <1>2, <2>1, <2>3, <3>1
  <2>4. CASE count > 0 /\ count < max_requests
    <3>1. Len(admitted) - k < max_requests
      BY <1>1, <1>2, <1>3, <2>4
    <3>2. /\ Earlier(admitted', k, now) /\ Len(admitted') = Len(admitted) + 1
          /\ \A i \in 1 .. Len(admitted) : admitted'[i] = admitted[i]
      BY <1>1, <1>2, <2>1, <2>4, <3>1, OneMore
    <3>3. ByRedis(k)'
      BY <1>1, <1>2, <1>3, <2>1, <2>2, <2>4, <3>2 DEF ByRedis
    <3> QED
      BY <1>2, <3>2, <3>3
  <2>5. CASE count >= max_requests
    <3>1. ByRedis(k)'
      BY <1>1, <1>3, <2>1, <2>2, <2>5, QuietByRedis
    <3> QED
      BY <1>1, <1>2, <2>1, <2>5, <3>1
  <2> QED
    BY <1>1, <2>3, <2>4, <2>5
<1>8. ASSUME NEW p \in Processes, Limiter!Expire(p) \/ Limiter!ExpireFails(p)
      PROVE  \E n \in 0 .. Len(admitted)' : ByRedis(n)'
  <2>1. /\ now' = now /\ count' = count /\ expiring[p] > 0
        /\ expiring' = [expiring EXCEPT ![p] = @ - 1]
        /\ expires' = now + window_seconds \/ expires' = expires
    BY <1>8 DEF Limiter!Expire, Limiter!ExpireFails
  <2>2. Waiting = 1 /\ Waiting' = 0
    <3>1. expiring[p] = 1 /\ \A q \in Processes \ {p} : expiring[q] = 0
      BY <1>4, <2>1 DEF CounterInv, OneToExpire
    <3>2. \A q \in Processes : expiring'[q] = 0
      BY <1>4, <2>1, <3>1
    <3> QED
      BY <3>1, <3>2 DEF Waiting
  <2>3. CASE Limiter!ExpireFails(p)
    <3>1. admitted' = admitted
      BY <2>3 DEF Limiter!ExpireFails
    <3>2. ByRedis(k)'
      BY <1>1, <2>1, <2>2, <3>1, QuietByRedis
    <3> QED
      BY <1>2, <3>1, <3>2
  <2>4. CASE Limiter!Expire(p)
    <3>1. admitted' = Append(admitted, now) /\ expires' = now + window_seconds
      BY <2>4 DEF Limiter!Expire
    <3>2. Len(admitted) - k < max_requests
      BY <1>1, <1>2, <2>2
    <3>3. /\ Earlier(admitted', k, now) /\ Len(admitted') = Len(admitted) + 1
          /\ \A i \in 1 .. Len(admitted) : admitted'[i] = admitted[i]
      BY <1>1, <1>2, <3>1, <3>2, OneMore
    <3>4. ByRedis(k)'
      BY <1>1, <1>2, <2>1, <2>2, <3>1, <3>3 DEF ByRedis
    <3> QED
      BY <1>2, <3>3, <3>4
  <2> QED
    BY <1>8, <2>3, <2>4
<1>9. ASSUME NEW p \in Processes, Limiter!IncrementFails(p) \/ Limiter!Crash(p)
      PROVE  \E n \in 0 .. Len(admitted)' : ByRedis(n)'
  <2>1. now' = now /\ expires' = expires /\ admitted' = admitted /\ count' \in {count, count + 1}
    BY <1>9 DEF Limiter!IncrementFails, Limiter!Crash
  <2>2. Waiting' <= Waiting
    <3>1. \A q \in Processes : expiring'[q] \in {expiring[q], 0}
      BY <1>4, <1>9 DEF Limiter!IncrementFails, Limiter!Crash
    <3> QED
      BY <3>1 DEF Waiting
  <2>3. ByRedis(k)'
    BY <1>1, <2>1, <2>2, QuietByRedis
  <2> QED
    BY <1>2, <2>1, <2>3
<1> QED
  BY <1>5, <1>6, <1>7, <1>8, <1>9 DEF Limiter!Next

(* The window in memory of a process that lives.                           *)
LEMMA QuietFromMemory ==
  ASSUME CounterInv, CounterInv', NEW p \in Processes, FromMemory(p), now <= now',
         memory'[p] = memory[p], inMemory'[p] = inMemory[p]
  PROVE  FromMemory(p)'
<1> DEFINE k == Len(inMemory[p]) - memory[p].count
<1>1. now \in Nat /\ now' \in Nat /\ memory[p].start \in Nat
  BY LimiterTime DEF CounterInv, LimiterTypes
<1>2. Earlier(inMemory[p], k, now')
  BY <1>1, EarlierStill DEF FromMemory
<1> QED
  BY <1>1, <1>2 DEF FromMemory

LEMMA MemoryFallBack ==
  ASSUME CounterInv, CounterInv', inMemory = [q \in Processes |-> inMemory[q]], now' = now,
         NEW p \in Processes, FromMemory(p), Limiter!FallBack(p)
  PROVE  /\ FromMemory(p)'
         /\ inMemory' = [q \in Processes |-> inMemory'[q]]
         /\ \A q \in Processes \ {p} : memory'[q] = memory[q] /\ inMemory'[q] = inMemory[q]
<1> DEFINE s == inMemory[p]  w == memory[p]  k == Len(s) - w.count
<1>1. /\ now \in Nat /\ window_seconds \in Nat /\ max_requests \in Nat \ {0}
      /\ w.count \in 0 .. max_requests /\ w.start \in Nat
      /\ memory \in [Processes -> [count : 0 .. max_requests, start : Nat]]
  BY LimiterTime DEF CounterInv, LimiterTypes
<1>2. /\ Len(s) \in Nat /\ k \in 0 .. Len(s) /\ Earlier(s, k, now) /\ w.start <= now
      /\ \A i \in 1 .. Len(s) : s[i] \in 0 .. now
      /\ \A i \in 1 .. k : s[i] <= w.start
  BY <1>1, Log DEF FromMemory
<1>3. CASE w.count = 0 \/ Limiter!Over(w)
  <2>1. /\ memory' = [memory EXCEPT ![p] = [count |-> 1, start |-> now]]
        /\ inMemory' = [inMemory EXCEPT ![p] = Append(@, now)]
    BY <1>3 DEF Limiter!FallBack
  <2>2. /\ memory'[p].count = 1 /\ memory'[p].start = now /\ inMemory'[p] = Append(s, now)
        /\ inMemory' = [q \in Processes |-> inMemory'[q]]
        /\ \A q \in Processes \ {p} : memory'[q] = memory[q] /\ inMemory'[q] = inMemory[q]
    BY <1>1, <2>1
  <2>3. ASSUME NEW i \in 1 .. Len(s) - max_requests PROVE s[i] + window_seconds <= now
    <3>1. CASE w.count = 0
      BY <1>1, <1>2, <3>1 DEF Earlier
    <3>2. CASE Limiter!Over(w)
      <4>1. i \in 1 .. k /\ s[i] \in Nat /\ now - w.start > window_seconds
        BY <1>1, <1>2, <3>2 DEF Limiter!Over
      <4>2. s[i] <= w.start
        BY <1>2, <4>1
      <4> QED
        BY <1>1, <4>1, <4>2
    <3> QED
      BY <1>3, <3>1, <3>2
  <2>4. Earlier(s, Len(s), now)
    BY <1>1, <1>2, <2>3 DEF Earlier
  <2>5. /\ Earlier(Append(s, now), Len(s), now) /\ Len(Append(s, now)) = Len(s) + 1
        /\ \A i \in 1 .. Len(s) : Append(s, now)[i] = s[i]
    <3> HIDE DEF s
    <3> QED
      BY <1>1, <1>2, <2>4, OneMore
  <2>6. Len(inMemory'[p]) - memory'[p].count = Len(s)
    BY <1>2, <2>2, <2>5
  <2>7. FromMemory(p)'
    <3> HIDE DEF s, k, w
    <3> QED
      BY <1>1, <1>2, <2>2, <2>5, <2>6 DEF FromMemory
  <2> QED
    BY <2>2, <2>7
<1>4. CASE ~(w.count = 0 \/ Limiter!Over(w)) /\ w.count < max_requests
  <2>1. /\ memory' = [memory EXCEPT ![p].count = @ + 1]
        /\ inMemory' = [inMemory EXCEPT ![p] = Append(@, now)]
    BY <1>4 DEF Limiter!FallBack
  <2>2. /\ memory'[p].count = w.count + 1 /\ memory'[p].start = w.start
        /\ inMemory'[p] = Append(s, now)
        /\ inMemory' = [q \in Processes |-> inMemory'[q]]
        /\ \A q \in Processes \ {p} : memory'[q] = memory[q] /\ inMemory'[q] = inMemory[q]
    BY <1>1, <2>1
  <2>3. Len(s) - k < max_requests
    BY <1>1, <1>2, <1>4
  <2>4. /\ Earlier(Append(s, now), k, now) /\ Len(Append(s, now)) = Len(s) + 1
        /\ \A i \in 1 .. Len(s) : Append(s, now)[i] = s[i]
    <3> HIDE DEF s, k, w
    <3> QED
      BY <1>1, <1>2, <2>3, OneMore
  <2>5. Len(inMemory'[p]) - memory'[p].count = k
    BY <1>1, <1>2, <2>2, <2>4
  <2>6. FromMemory(p)'
    <3>1. \A i \in 1 .. k : inMemory'[p][i] <= memory'[p].start
      BY <1>2, <2>2, <2>4
    <3> HIDE DEF s, k, w
    <3> QED
      BY <1>1, <1>2, <2>2, <2>4, <2>5, <3>1 DEF FromMemory
  <2> QED
    BY <2>2, <2>6
<1>5. CASE UNCHANGED <<memory, inMemory>>
  <2>1. FromMemory(p)'
    BY <1>1, <1>5, QuietFromMemory
  <2> QED
    BY <1>5, <2>1
<1> QED
  BY <1>3, <1>4, <1>5 DEF Limiter!FallBack

LEMMA MemoryStep ==
  ASSUME CounterInv, CounterInv', inMemory = [p \in Processes |-> inMemory[p]],
         \A p \in Processes : FromMemory(p), [Limiter!Next]_limiterVars
  PROVE  /\ inMemory' = [p \in Processes |-> inMemory'[p]]
         /\ \A p \in Processes : FromMemory(p)'
<1>1. now \in Nat /\ max_requests \in Nat /\ now <= now'
  BY LimiterTime DEF Limiter!Next, limiterVars, Limiter!Tick, Limiter!Increment, Limiter!Expire,
     Limiter!IncrementFails, Limiter!ExpireFails, Limiter!Crash
<1>2. CASE UNCHANGED <<memory, inMemory>>
  BY <1>1, <1>2, QuietFromMemory
<1>3. ASSUME NEW p \in Processes, now' = now, Limiter!FallBack(p)
      PROVE  /\ inMemory' = [q \in Processes |-> inMemory'[q]]
             /\ \A q \in Processes : FromMemory(q)'
  BY <1>1, <1>3, MemoryFallBack, QuietFromMemory
<1>4. ASSUME NEW p \in Processes, Limiter!Crash(p)
      PROVE  /\ inMemory' = [q \in Processes |-> inMemory'[q]]
             /\ \A q \in Processes : FromMemory(q)'
  <2>1. /\ memory' = [memory EXCEPT ![p] = [count |-> 0, start |-> 0]]
        /\ inMemory' = [inMemory EXCEPT ![p] = <<>>] /\ now' = now
    BY <1>4 DEF Limiter!Crash, Limiter!NoWindow
  <2>2. /\ memory'[p].count = 0 /\ memory'[p].start = 0 /\ inMemory'[p] = <<>>
        /\ inMemory' = [q \in Processes |-> inMemory'[q]]
        /\ \A q \in Processes \ {p} : memory'[q] = memory[q] /\ inMemory'[q] = inMemory[q]
    BY <2>1 DEF CounterInv, LimiterTypes
  <2>3. Earlier(<<>>, 0, now)
    BY <1>1 DEF Earlier, InOrder, Spaced
  <2>4. FromMemory(p)'
    BY <1>1, <2>1, <2>2, <2>3 DEF FromMemory
  <2> QED
    BY <1>1, <2>1, <2>2, <2>4, QuietFromMemory
<1> QED
  BY <1>2, <1>3, <1>4 DEF Limiter!Next, limiterVars, Limiter!Tick, Limiter!Increment,
     Limiter!Expire, Limiter!IncrementFails, Limiter!ExpireFails

LEMMA LimiterStart == Limiter!Init => LimiterInv
<1> SUFFICES ASSUME Limiter!Init PROVE LimiterInv
  OBVIOUS
<1>1. CounterInv
  BY CounterInit
<1>2. /\ now = 0 /\ count = 0 /\ expires = Limiter!Never /\ admitted = <<>>
      /\ \A p \in Processes : expiring[p] = 0
      /\ \A p \in Processes : memory[p].count = 0 /\ memory[p].start = 0 /\ inMemory[p] = <<>>
      /\ inMemory = [p \in Processes |-> inMemory[p]]
  BY DEF Limiter!Init, Limiter!NoWindow
<1>3. max_requests \in Nat
  BY LimitAssumption
<1>4. Earlier(<<>>, 0, 0)
  BY <1>3 DEF Earlier, InOrder, Spaced
<1>5. ByRedis(0)
  BY <1>2, <1>3, <1>4 DEF ByRedis, Waiting
<1>6. \A p \in Processes : FromMemory(p)
  BY <1>2, <1>4 DEF FromMemory
<1> QED
  BY <1>1, <1>2, <1>5, <1>6 DEF LimiterInv

LEMMA LimiterNext == LimiterInv /\ [Limiter!Next]_limiterVars => LimiterInv'
<1> SUFFICES ASSUME LimiterInv, [Limiter!Next]_limiterVars PROVE LimiterInv'
  OBVIOUS
<1>1. CounterInv'
  <2>1. CASE UNCHANGED limiterVars
    BY <2>1 DEF LimiterInv, CounterInv, limiterVars, LimiterTypes, OneToExpire,
                NoCounterNoExpiry, Limiter!CounterExpires, Limiter!Never
  <2>2. CASE Limiter!Next
    BY <2>2, TickStep, IncrementStep, ExpiryStep, IncrementFailsStep, LimiterCrashStep
       DEF Limiter!Next, LimiterInv
  <2> QED
    BY <2>1, <2>2
<1>2. PICK k \in 0 .. Len(admitted) : ByRedis(k)
  BY DEF LimiterInv
<1>3. \E n \in 0 .. Len(admitted)' : ByRedis(n)'
  BY <1>1, <1>2, RedisStep DEF LimiterInv
<1>4. inMemory' = [p \in Processes |-> inMemory'[p]] /\ \A p \in Processes : FromMemory(p)'
  BY <1>1, MemoryStep DEF LimiterInv
<1> QED
  BY <1>1, <1>3, <1>4 DEF LimiterInv

(* What the invariant is for.                                              *)
LEMMA LimiterHeld == LimiterInv => Limiter!LimitKept
<1> SUFFICES ASSUME LimiterInv PROVE Limiter!LimitKept
  OBVIOUS
<1>1. now \in Nat /\ Limiter!CounterExpires
  BY LimiterTime DEF LimiterInv, CounterInv
<1>2. ASSUME NEW t \in 0 .. MaxTime
      PROVE  /\ Limiter!InWindow(admitted, t) <= 2 * max_requests
             /\ \A p \in Processes : Limiter!InWindow(inMemory[p], t) <= 2 * max_requests
  <2>1. t \in Nat
    OBVIOUS
  <2>2. InOrder(admitted, now) /\ Spaced(admitted)
    BY DEF LimiterInv, ByRedis, Earlier
  <2>3. \A p \in Processes : InOrder(inMemory[p], now) /\ Spaced(inMemory[p])
    BY DEF LimiterInv, FromMemory, Earlier
  <2> QED
    BY <1>1, <2>1, <2>2, <2>3, WindowBound
<1> QED
  BY <1>1, <1>2 DEF Limiter!LimitKept, Limiter!Times

-----------------------------------------------------------------------------
(* A step of the composition is a step, or none, of each service.          *)
LEMMA EachService ==
  ASSUME [ServicesNext]_servicesVars
  PROVE  /\ [Next]_vars
         /\ [Managed!Next]_managedVars
         /\ [Master!Next]_masterVars
         /\ [Access!Next]_accessVars
         /\ [Authority!Next]_authorityVars
         /\ [Limiter!Next]_limiterVars
         /\ [Proxy!Next]_proxyVars
  BY DEF ServicesNext, servicesVars, keyVars, apiVars

(* The module of the proofs about managed keys instantiates ManagedKeys a  *)
(* second time: the two copies of the specification are one formula.       *)
LEMMA SameManaged ==
  /\ Managed!Init => ManagedProofs!Init
  /\ [Managed!Next]_managedVars => [ManagedProofs!Next]_(ManagedProofs!vars)
  /\ ManagedProofs!IInv => Managed!TypeOK /\ Managed!EveryCiphertextOpens
<1>1. Managed!Init => ManagedProofs!Init
  BY DEF Managed!Init, ManagedProofs!Init
<1>2. [Managed!Next]_managedVars => [ManagedProofs!Next]_(ManagedProofs!vars)
  BY DEF managedVars, ManagedProofs!vars, ManagedProofs!tables, Managed!tables,
         Managed!Next, ManagedProofs!Next, Managed!Create, ManagedProofs!Create,
         Managed!ReadToChange, ManagedProofs!ReadToChange,
         Managed!ReadToOpen, ManagedProofs!ReadToOpen, Managed!Read, ManagedProofs!Read,
         Managed!Begin, ManagedProofs!Begin, Managed!End, ManagedProofs!End,
         Managed!Goto, ManagedProofs!Goto, Managed!Of, ManagedProofs!Of,
         Managed!FlushRotate, ManagedProofs!FlushRotate,
         Managed!FlushDisable, ManagedProofs!FlushDisable,
         Managed!CommitCreate, ManagedProofs!CommitCreate,
         Managed!CommitRotate, ManagedProofs!CommitRotate,
         Managed!CommitDisable, ManagedProofs!CommitDisable,
         Managed!Seal, ManagedProofs!Seal, Managed!Open, ManagedProofs!Open,
         Managed!Abort, ManagedProofs!Abort, Managed!Found, ManagedProofs!Found,
         Managed!RowFree, ManagedProofs!RowFree, Managed!HoldsLock, ManagedProofs!HoldsLock,
         Managed!NextVersion, ManagedProofs!NextVersion,
         Managed!InFlight, ManagedProofs!InFlight
<1>3. ManagedProofs!IInv => Managed!TypeOK /\ Managed!EveryCiphertextOpens
  BY DEF ManagedProofs!IInv, ManagedProofs!TypeOK, Managed!TypeOK,
         ManagedProofs!EveryCiphertextOpens, Managed!EveryCiphertextOpens,
         Managed!Version, ManagedProofs!Version, Managed!Ops, ManagedProofs!Ops,
         Managed!Steps, ManagedProofs!Steps
<1> QED
  BY <1>1, <1>2, <1>3

ServicesInv ==
    /\ IInv /\ ManagedProofs!IInv /\ MasterInv /\ AccessInv
    /\ AuthorityInv /\ LimiterInv /\ ProxyInv

(* The services' invariants hold together, whatever each of them does.     *)
THEOREM ServicesInductive == ServicesSpec => []ServicesInv
<1>1. ServicesInit => ServicesInv
  BY InitIInv, ManagedProofs!InitIInv, SameManaged, MasterInit, AccessInit, AuthorityInit,
     LimiterStart, ProxyInit DEF ServicesInit, ServicesInv
<1>2. ServicesInv /\ [ServicesNext]_servicesVars => ServicesInv'
  <2> SUFFICES ASSUME ServicesInv, [ServicesNext]_servicesVars PROVE ServicesInv'
    OBVIOUS
  <2>1. IInv'
    BY EachService, NextIInv DEF ServicesInv
  <2>2. ManagedProofs!IInv'
    BY EachService, SameManaged, ManagedProofs!NextIInv DEF ServicesInv
  <2>3. MasterInv' /\ AccessInv'
    BY EachService, MasterNext, AccessNext DEF ServicesInv
  <2>4. AuthorityInv' /\ LimiterInv' /\ ProxyInv'
    BY EachService, AuthorityNext, LimiterNext, ProxyNext DEF ServicesInv
  <2> QED
    BY <2>1, <2>2, <2>3, <2>4 DEF ServicesInv
<1> QED
  BY <1>1, <1>2, PTL DEF ServicesSpec

(* The rows, requests, locks and counters of the services keep their types.*)
THEOREM ServicesTypeCorrect == ServicesSpec => []ServiceTypes
<1>1. ServicesInv => ServiceTypes
  BY SameManaged, AuthorityImplied, LimiterImplied, ProxyImplied
     DEF ServicesInv, ServiceTypes, IInv, MasterInv, AccessInv, LimiterInv
<1> QED
  BY <1>1, ServicesInductive, PTL

(* kms_service.py, kms_provider.py: whatever was encrypted or signed opens *)
(* with the version it names, however many requests rotate its key; and a  *)
(* careful operator loses no data key, however many master keys there are. *)
THEOREM EverythingIsOpened == ServicesSpec => []EverythingOpens
<1>1. ServicesInv => EverythingOpens
  BY SameManaged DEF ServicesInv, EverythingOpens, MasterInv
<1> QED
  BY <1>1, ServicesInductive, PTL

(* pam_service.py, pki_service.py: no call that began after a decision or a*)
(* revocation overrules it, and no CRL asked for after an acknowledged     *)
(* revocation misses it, for any number of calls.                          *)
THEOREM DecisionsAreFinal == ServicesSpec => []DecisionsStand
<1>1. ServicesInv => DecisionsStand
  BY AuthorityImplied DEF ServicesInv, DecisionsStand, AccessInv
<1> QED
  BY <1>1, ServicesInductive, PTL

(* agent_service.py: the audit events of every answered call name what it  *)
(* sent, and that was current since the call began.                        *)
THEOREM CallsAreAccounted == ServicesSpec => []CallsAccounted
<1>1. ServicesInv => CallsAccounted
  BY ProxyImplied DEF ServicesInv, CallsAccounted
<1> QED
  BY <1>1, ServicesInductive, PTL

(* rate_limiter.py: no window of time, wherever it begins, admits more than*)
(* two windows' requests, by Redis or by one process that does without; and*)
(* a counter without expiry is left by a request that was cut off between  *)
(* INCR and EXPIRE and by no other.                                        *)
THEOREM LimitsAreKept == ServicesSpec => []LimitKept
<1>1. ServicesInv => LimitKept
  BY LimiterHeld DEF ServicesInv, LimitKept
<1> QED
  BY <1>1, ServicesInductive, PTL

(* rotation_service.py, redis_lock.py, as they run beside the others.      *)
THEOREM RotationsStayAccounted == ServicesSpec => [](RotationsAccounted /\ LockKept)
<1>1. ServicesInv => RotationsAccounted /\ LockKept
  BY DEF ServicesInv, IInv
<1> QED
  BY <1>1, ServicesInductive, PTL
=============================================================================
