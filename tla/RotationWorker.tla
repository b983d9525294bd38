---------------------------- MODULE RotationWorker ----------------------------
(***************************************************************************)
(* Scheduled rotation: the Celery task rotate_scheduled_secrets            *)
(* (apps/worker/tasks.py), execute_rotation and the distributed lock it    *)
(* takes (apps/api/app/services/rotation_service.py, core/redis_lock.py).  *)
(*                                                                         *)
(* A run of the task is one transaction: it reads the rotations that are   *)
(* due, executes one after the other under a lock in Redis, and commits at *)
(* the end.  The database is PostgreSQL at READ COMMITTED, as in the       *)
(* secret store: what a run has flushed keeps the rows locked and others   *)
(* waiting until it ends.  A secret has one rotation, so r names both.     *)
(* Whoever is waited for in a circle is aborted.                           *)
(*                                                                         *)
(* The lock may expire before the execution is over, as nothing bounds how *)
(* long a step takes.  Redis may fail: a lock is then one in the memory of *)
(* the process and excludes nobody, for a process runs one task at a time. *)
(*                                                                         *)
(* Operators whose names contain _Broken are defects for mutation checks;  *)
(* no behaviour of this module uses them.                                  *)
(***************************************************************************)
EXTENDS Integers, FiniteSets

CONSTANTS
    Workers,
    Rotations,
    None,
    Lost,          \* a token whose execution is over
    MaxPeriods,    \* bound: how often a rotation becomes due
    MaxFaults      \* bound: how many crashes, failures of Redis and executions
                   \* that outlive their lock there are, and how many updates
                   \* through the API

ASSUME TokensAssumption == None \notin Workers /\ Lost \notin Workers \cup {None}

ASSUME RotationsAssumption == None \notin Rotations

ASSUME BoundsAssumption == MaxPeriods \in Nat \ {0} /\ MaxFaults \in Nat

VARIABLES
    status,        \* the rows of secret_rotations
    due,           \* whether next_run_at has passed
    version,       \* of the secrets: current_version_num
    deleted,
    updates,       \* the audit trail: how often a secret was updated by users,
    successes,     \* and the events rotate_success and rotate_failure
    failures,
    lock,          \* in Redis: who holds the lock of a rotation
    run,           \* the runs of the task
    periods,
    faults

rows == <<status, due, version, deleted, updates, successes, failures>>

vars == <<rows, lock, run, periods, faults>>

-----------------------------------------------------------------------------
(* A run: what it has still to execute, the rotation it is at and how the  *)
(* lock of that was taken, the version it read, and what it has flushed.   *)
Run == [pc : {"idle", "batch", "locked", "loaded", "selected", "refused", "release", "poisoned"},
        todo : SUBSET Rotations,
        at : Rotations \cup {None},
        holds : {"nothing", "redis", "expired", "memory"},
        seen : Nat,
        flushed : [Rotations -> Nat],   \* the version of a secret, or 0
        failed : SUBSET Rotations]

NoRun == [pc |-> "idle", todo |-> {}, at |-> None, holds |-> "nothing", seen |-> 0,
          flushed |-> [r \in Rotations |-> 0], failed |-> {}]

Rotated(w) == {r \in Rotations : run[w].flushed[r] > 0}

Init ==
    /\ status = [r \in Rotations |-> "active"]
    /\ due = [r \in Rotations |-> TRUE]
    /\ version = [r \in Rotations |-> 1]
    /\ deleted = [r \in Rotations |-> FALSE]
    /\ updates = [r \in Rotations |-> 0]
    /\ successes = [r \in Rotations |-> 0]
    /\ failures = [r \in Rotations |-> 0]
    /\ lock = [r \in Rotations |-> None]
    /\ run = [w \in Workers |-> NoRun]
    /\ periods = [r \in Rotations |-> 1]
    /\ faults = 0

Due == {r \in Rotations : status[r] = "active" /\ due[r]}

Goto(w, pc) == run' = [run EXCEPT ![w].pc = pc]

Fault == faults < MaxFaults /\ faults' = faults + 1

-----------------------------------------------------------------------------
(* The task is started and reads what is due.                              *)
Begin(w) ==
    /\ run[w].pc = "idle" /\ Due # {}
    /\ run' = [run EXCEPT ![w] = [NoRun EXCEPT !.pc = "batch", !.todo = Due]]
    /\ UNCHANGED <<rows, lock, periods, faults>>

Take(w, r, how) ==
    run' = [run EXCEPT ![w].pc = "locked", ![w].at = r, ![w].holds = how,
                       ![w].todo = @ \ {r}]

(* SET NX succeeds.                                                        *)
Acquire(w, r) ==
    /\ run[w].pc = "batch" /\ r \in run[w].todo
    /\ lock[r] = None
    /\ lock' = [lock EXCEPT ![r] = w]
    /\ Take(w, r, "redis")
    /\ UNCHANGED <<rows, periods, faults>>

(* Somebody has the lock: the rotation is left for another run.            *)
Skip(w, r) ==
    /\ run[w].pc = "batch" /\ r \in run[w].todo
    /\ lock[r] # None
    /\ run' = [run EXCEPT ![w].todo = @ \ {r}]
    /\ UNCHANGED <<rows, lock, periods, faults>>

(* Redis fails, perhaps after it has set the key.                          *)
FallBack(w, r) ==
    /\ run[w].pc = "batch" /\ r \in run[w].todo
    /\ Fault
    /\ \/ UNCHANGED lock
       \/ lock[r] = None /\ lock' = [lock EXCEPT ![r] = Lost]
    /\ Take(w, r, "memory")
    /\ UNCHANGED <<rows, periods>>

Load_BrokenAttribute(w) ==
    /\ run[w].pc = "locked"
    /\ run' = [run EXCEPT ![w].pc = IF deleted[run[w].at] THEN "release" ELSE "loaded",
                          ![w].seen = IF deleted[run[w].at] THEN None ELSE version[run[w].at]]
    /\ UNCHANGED <<rows, lock, periods, faults>>

(* db.get: a rotation of a secret that is gone is left as it is.           *)
Load(w) ==
    /\ run[w].pc = "locked"
    /\ run' = [run EXCEPT ![w].pc = IF deleted[run[w].at] THEN "release" ELSE "loaded",
                          ![w].seen = version[run[w].at]]
    /\ UNCHANGED <<rows, lock, periods, faults>>

(* update_secret selects the secret again, and its 404 is an exception;    *)
(* the version stays the one that was read first.                          *)
Reselect(w) ==
    /\ run[w].pc = "loaded"
    /\ Goto(w, IF deleted[run[w].at] THEN "refused" ELSE "selected")
    /\ UNCHANGED <<rows, lock, periods, faults>>

(* The runs that hold a row this one is about to write.                    *)
WaitsFor(w) ==
    {q \in Workers \ {w} :
        run[w].pc \in {"selected", "refused"} /\ run[w].at \in Rotated(q) \cup run[q].failed}

Sync_BrokenUnchecked(w) ==
    /\ run[w].pc = "selected"
    /\ WaitsFor(w) = {}
    /\ run' = [run EXCEPT ![w].flushed[run[w].at] = run[w].seen + 1, ![w].pc = "release"]
    /\ UNCHANGED <<rows, lock, periods, faults>>

(* The flushes of update_secret and of the rotation.  A version of that    *)
(* number violates uq_secret_version.                                      *)
Sync(w) ==
    /\ run[w].pc = "selected"
    /\ WaitsFor(w) = {}
    /\ run' = IF version[run[w].at] = run[w].seen
              THEN [run EXCEPT ![w].flushed[run[w].at] = run[w].seen + 1, ![w].pc = "release"]
              ELSE [run EXCEPT ![w].pc = "poisoned"]
    /\ UNCHANGED <<rows, lock, periods, faults>>

(* The except clause when the session is in order: the row is failed.      *)
RecordFailure(w) ==
    /\ run[w].pc = "refused"
    /\ WaitsFor(w) = {}
    /\ run' = [run EXCEPT ![w].failed = @ \cup {run[w].at}, ![w].pc = "release"]
    /\ UNCHANGED <<rows, lock, periods, faults>>

DeadlockDetected_BrokenNever(w) ==
    /\ \E q \in WaitsFor(w) : w \in WaitsFor(q)
    /\ UNCHANGED vars

(* Two runs wait for each other, and the database aborts one.              *)
DeadlockDetected(w) ==
    /\ \E q \in WaitsFor(w) : w \in WaitsFor(q)
    /\ Goto(w, "poisoned")
    /\ UNCHANGED <<rows, lock, periods, faults>>

(* What follows the release: the next rotation, or the end of a run whose  *)
(* session refuses another flush, with all that it had flushed.            *)
AfterRelease(w) ==
    run' = [run EXCEPT ![w] =
        IF @.pc = "poisoned" THEN NoRun
        ELSE [@ EXCEPT !.pc = "batch", !.at = None, !.holds = "nothing", !.seen = 0]]

Release_BrokenAnyToken(w) ==
    /\ run[w].pc \in {"release", "poisoned"}
    /\ lock' = [lock EXCEPT ![run[w].at] = None]
    /\ AfterRelease(w)
    /\ UNCHANGED <<rows, periods, faults>>

(* The finally clause: the script deletes the key if it has the token.     *)
Release(w) ==
    /\ run[w].pc \in {"release", "poisoned"}
    /\ lock' = [lock EXCEPT ![run[w].at] = IF run[w].holds = "redis" THEN None ELSE @]
    /\ AfterRelease(w)
    /\ UNCHANGED <<rows, periods, faults>>

Forgotten(w) ==
    [r \in Rotations |-> IF lock[r] = w THEN Lost ELSE lock[r]]

(* Redis fails: the key stays until it expires.                            *)
ReleaseFails(w) ==
    /\ run[w].pc \in {"release", "poisoned"}
    /\ run[w].holds \in {"redis", "expired"}
    /\ Fault
    /\ lock' = Forgotten(w)
    /\ AfterRelease(w)
    /\ UNCHANGED <<rows, periods>>

(* Only what changed is written: a success leaves the status as it is.     *)
Commit(w) ==
    /\ run[w].pc = "batch" /\ run[w].todo = {}
    /\ version' = [r \in Rotations |-> IF r \in Rotated(w) THEN run[w].flushed[r] ELSE version[r]]
    /\ due' = [r \in Rotations |-> due[r] /\ r \notin Rotated(w)]
    /\ status' = [r \in Rotations |-> IF r \in run[w].failed THEN "failed" ELSE status[r]]
    /\ successes' = [r \in Rotations |-> successes[r] + IF r \in Rotated(w) THEN 1 ELSE 0]
    /\ failures' = [r \in Rotations |-> failures[r] + IF r \in run[w].failed THEN 1 ELSE 0]
    /\ run' = [run EXCEPT ![w] = NoRun]
    /\ UNCHANGED <<deleted, updates, lock, periods, faults>>

(* The worker dies; the database rolls back, and Redis keeps the key.      *)
Crash(w) ==
    /\ run[w].pc # "idle"
    /\ Fault
    /\ run' = [run EXCEPT ![w] = NoRun]
    /\ lock' = Forgotten(w)
    /\ UNCHANGED <<rows, periods>>

(* Time passes: a key that a dead execution left expires, the key of one   *)
(* that takes longer than ttl_seconds, or a rotation becomes due.          *)
Expire(r) ==
    /\ lock[r] = Lost
    /\ lock' = [lock EXCEPT ![r] = None]
    /\ UNCHANGED <<rows, run, periods, faults>>

Outlive(w) ==
    /\ run[w].holds = "redis"
    /\ Fault
    /\ lock' = [lock EXCEPT ![run[w].at] = None]
    /\ run' = [run EXCEPT ![w].holds = "expired"]
    /\ UNCHANGED <<rows, periods>>

BecomeDue(r) ==
    /\ ~due[r] /\ periods[r] < MaxPeriods
    /\ due' = [due EXCEPT ![r] = TRUE]
    /\ periods' = [periods EXCEPT ![r] = @ + 1]
    /\ UNCHANGED <<status, version, deleted, updates, successes, failures, lock, run, faults>>

(* The API updates or deletes the secret, in a transaction of its own.     *)
RowFree(r) == \A w \in Workers : r \notin Rotated(w)

UpdateByUser(r) ==
    /\ RowFree(r) /\ ~deleted[r]
    /\ Fault
    /\ version' = [version EXCEPT ![r] = @ + 1]
    /\ updates' = [updates EXCEPT ![r] = @ + 1]
    /\ UNCHANGED <<status, due, deleted, successes, failures, lock, run, periods>>

DeleteByUser(r) ==
    /\ RowFree(r) /\ ~deleted[r]
    /\ Fault
    /\ deleted' = [deleted EXCEPT ![r] = TRUE]
    /\ UNCHANGED <<status, due, version, updates, successes, failures, lock, run, periods>>

Step(w) ==
    \/ \E r \in Rotations : Acquire(w, r) \/ Skip(w, r)
    \/ Load(w) \/ Reselect(w) \/ Sync(w) \/ RecordFailure(w) \/ DeadlockDetected(w)
    \/ Release(w) \/ Commit(w)

Next ==
    \/ \E w \in Workers :
           \/ Begin(w) \/ Step(w) \/ ReleaseFails(w) \/ Outlive(w) \/ Crash(w)
           \/ \E r \in Rotations : FallBack(w, r)
    \/ \E r \in Rotations : Expire(r) \/ BecomeDue(r) \/ UpdateByUser(r) \/ DeleteByUser(r)

(* Beat starts the task again and again, a run that does not die goes on,  *)
(* the database gives a row to who has been waiting for it, and the keys   *)
(* of the dead expire.                                                     *)
Fairness ==
    /\ \A w \in Workers :
           WF_vars(Begin(w) \/ Step(w)) /\ SF_vars(Sync(w) \/ RecordFailure(w))
    /\ WF_vars(\E r \in Rotations : Expire(r))

Spec == Init /\ [][Next]_vars /\ Fairness

-----------------------------------------------------------------------------
(* The types of the state.                                                 *)
TypeOK ==
    /\ status \in [Rotations -> {"active", "failed"}]
    /\ due \in [Rotations -> BOOLEAN] /\ deleted \in [Rotations -> BOOLEAN]
    /\ version \in [Rotations -> Nat \ {0}]
    /\ updates \in [Rotations -> Nat]
    /\ successes \in [Rotations -> Nat] /\ failures \in [Rotations -> Nat]
    /\ lock \in [Rotations -> Workers \cup {None, Lost}]
    /\ run \in [Workers -> Run]
    /\ periods \in [Rotations -> 1 .. MaxPeriods] /\ faults \in 0 .. MaxFaults

(* Every event of a success stands for one version of the secret, however  *)
(* many runs had read the rotation as due and whoever updated the secret   *)
(* meanwhile; a row is failed when and only when an event says so.         *)
RotationsAccounted ==
    \A r \in Rotations :
        /\ version[r] = 1 + updates[r] + successes[r]
        /\ status[r] = "failed" <=> failures[r] > 0

(* An execution whose key has not expired still has it: no release of an   *)
(* execution that was too slow, or of one that fell back, takes it away.   *)
LockKept ==
    \A w \in Workers : run[w].holds = "redis" => lock[run[w].at] = w

(* A rotation that is due is executed, marked failed, or its secret is     *)
(* gone, in spite of keys that dead executions left and of aborted runs.   *)
DueIsSettled ==
    \A r \in Rotations : r \in Due ~> r \notin Due \/ deleted[r]
=============================================================================
