---------------------------- MODULE RateLimiter ----------------------------
(***************************************************************************)
(* check_rate_limit (rate_limiter.py) for one key: a counter in Redis that *)
(* expires, shared by the processes, or a window in the memory of the      *)
(* process when Redis fails.                                               *)
(*                                                                         *)
(* Two of its steps await Redis, INCR and EXPIRE; what it does in memory   *)
(* is under a lock and awaits nothing.  A request in between is known by   *)
(* its process alone.                                                      *)
(*                                                                         *)
(* admitted, inMemory and cutOff are history.  A definition whose name     *)
(* contains _Broken is a defect for mutation checks.                       *)
(***************************************************************************)
EXTENDS Integers, Sequences, FiniteSets

CONSTANTS
    Processes,
    max_requests,
    window_seconds,
    MaxTime,        \* bound: the last instant
    MaxRequests     \* bound: how many requests are made

VARIABLES
    now,
    count,          \* in Redis: the counter, or 0 when there is none
    expires,        \* when it expires, or Never
    memory,         \* _MEMORY_RATE_LIMITS, per process
    expiring,       \* how many requests have still to set the expiry
    requests,
    admitted,       \* when requests were admitted by Redis, in order
    inMemory,       \* and by the memory of a process that lives
    cutOff          \* whether a request ended between INCR and EXPIRE

vars == <<now, count, expires, memory, expiring, requests, admitted, inMemory, cutOff>>

Times == 0 .. MaxTime

Never == MaxTime + window_seconds + 1

NoWindow == [count |-> 0, start |-> 0]

Init ==
    /\ now = 0
    /\ count = 0 /\ expires = Never
    /\ memory = [p \in Processes |-> NoWindow]
    /\ expiring = [p \in Processes |-> 0]
    /\ requests = 0
    /\ admitted = <<>>
    /\ inMemory = [p \in Processes |-> <<>>]
    /\ cutOff = FALSE

Request == requests < MaxRequests /\ requests' = requests + 1

(* INCR: it makes a counter that does not expire, and keeps the expiry of  *)
(* one that is there.                                                      *)
Increment(p) ==
    /\ Request
    /\ count' = count + 1
    /\ expiring' = [expiring EXCEPT ![p] = @ + IF count = 0 THEN 1 ELSE 0]
    /\ admitted' = IF count > 0 /\ count < max_requests THEN Append(admitted, now) ELSE admitted
    /\ UNCHANGED <<now, expires, memory, inMemory, cutOff>>

(* EXPIRE by the request that counted 1.                                   *)
Expire(p) ==
    /\ expiring[p] > 0
    /\ expires' = now + window_seconds
    /\ expiring' = [expiring EXCEPT ![p] = @ - 1]
    /\ admitted' = Append(admitted, now)
    /\ UNCHANGED <<now, count, memory, requests, inMemory, cutOff>>

Over_BrokenAtOnce(w) == now - w.start >= 1

Over(w) == now - w.start > window_seconds

(* The window in memory.                                                   *)
FallBack(p) ==
    LET w == memory[p] IN
    IF w.count = 0 \/ Over(w)
    THEN /\ memory' = [memory EXCEPT ![p] = [count |-> 1, start |-> now]]
         /\ inMemory' = [inMemory EXCEPT ![p] = Append(@, now)]
    ELSE IF w.count < max_requests
    THEN /\ memory' = [memory EXCEPT ![p].count = @ + 1]
         /\ inMemory' = [inMemory EXCEPT ![p] = Append(@, now)]
    ELSE UNCHANGED <<memory, inMemory>>

(* INCR fails, or its answer is lost.                                      *)
IncrementFails(p) ==
    /\ Request
    /\ \/ UNCHANGED <<count, cutOff>>
       \/ count' = count + 1 /\ cutOff' = (cutOff \/ count = 0)
    /\ FallBack(p)
    /\ UNCHANGED <<now, expires, expiring, admitted>>

(* So does EXPIRE: the request is admitted by memory, if at all.           *)
ExpireFails(p) ==
    /\ expiring[p] > 0
    /\ \/ expires' = now + window_seconds /\ UNCHANGED cutOff
       \/ cutOff' = TRUE /\ UNCHANGED expires
    /\ expiring' = [expiring EXCEPT ![p] = @ - 1]
    /\ FallBack(p)
    /\ UNCHANGED <<now, count, requests, admitted>>

(* The process dies and is started again.                                  *)
Crash(p) ==
    /\ expiring[p] > 0 \/ memory[p] # NoWindow
    /\ expiring' = [expiring EXCEPT ![p] = 0]
    /\ cutOff' = (cutOff \/ expiring[p] > 0)
    /\ memory' = [memory EXCEPT ![p] = NoWindow]
    /\ inMemory' = [inMemory EXCEPT ![p] = <<>>]
    /\ UNCHANGED <<now, count, expires, requests, admitted>>

Tick ==
    /\ now < MaxTime
    /\ now' = now + 1
    /\ count' = IF expires <= now + 1 THEN 0 ELSE count
    /\ expires' = IF expires <= now + 1 THEN Never ELSE expires
    /\ UNCHANGED <<memory, expiring, requests, admitted, inMemory, cutOff>>

Next ==
    \/ Tick
    \/ \E p \in Processes :
          \/ Increment(p) \/ Expire(p) \/ IncrementFails(p) \/ ExpireFails(p) \/ Crash(p)

Spec == Init /\ [][Next]_vars

-----------------------------------------------------------------------------
(* The types of the state.                                                 *)
TypeOK ==
    /\ now \in Times /\ count \in 0 .. MaxRequests
    /\ expires \in window_seconds .. Never
    /\ \A p \in Processes : expiring[p] \in 0 .. 1 /\ memory[p].count <= max_requests

(* How many of these instants fall in the window that begins at t.         *)
InWindow(instants, t) ==
    Cardinality({i \in DOMAIN instants : t <= instants[i] /\ instants[i] < t + window_seconds})

(* Only a request that was cut off between its two calls of Redis leaves a *)
(* counter that does not expire.                                           *)
CounterExpires ==
    count > 0 /\ expires = Never => cutOff \/ \E p \in Processes : expiring[p] > 0

(* No window of time admits more than two windows' requests, by Redis or   *)
(* by one process that does without, however requests, failures and        *)
(* expiries fall; and what is counted is forgotten.                        *)
LimitKept ==
    /\ \A t \in Times :
          /\ InWindow(admitted, t) <= 2 * max_requests
          /\ \A p \in Processes : InWindow(inMemory[p], t) <= 2 * max_requests
    /\ CounterExpires
=============================================================================
