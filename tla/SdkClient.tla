------------------------------ MODULE SdkClient ------------------------------
(***************************************************************************)
(* The JavaScript client (sdks/js): get with its cache, its timeout and    *)
(* its errors, and invalidateCache, against a server whose secrets change. *)
(*                                                                         *)
(* The client runs on one thread: what get does up to its fetch is one     *)
(* step, and what it does with the response is another.  In between, other *)
(* calls of the same client run, secrets change, and the abort timer may   *)
(* fire.  Time is Date.now() and the timers' clock, taken to be one; it    *)
(* does not pass the moment an abort timer is due before the timer has     *)
(* run.                                                                    *)
(*                                                                         *)
(* A secret's states are numbered by its changes: history[k][n] says when  *)
(* the n-th change of k took place and whether it left a value, which is   *)
(* the current one until the change n + 1.  answer is what the last step   *)
(* returned or threw, if it did; a call that has been answered is idle     *)
(* again, for the next get.  floor is history that no step of the client   *)
(* reads.  A definition whose name contains _Broken is a defect put in     *)
(* place of the one that follows it, to see that the properties notice.    *)
(***************************************************************************)
EXTENDS Integers, Sequences, FiniteSets

CONSTANTS
    Calls,       \* the calls of get that may be in progress at once
    Scopes,      \* pairs of project and environment
    Names,       \* names of secrets, as the server spells them
    Spellings,   \* ways a caller may write a name: case, blanks around it
    NoKey,       \* the key of a call that is not in progress
    Ttl,         \* cacheTtlMs; 0 turns the cache off
    Timeout,     \* timeoutMs
    MaxTime,     \* bound: how long a behaviour lasts
    MaxChanges   \* bound: how often secrets change

ASSUME TimesAssumption == Ttl \in Nat /\ Timeout \in Nat /\ MaxTime \in Nat

Keys == Scopes \X Names

ASSUME NoKeyAssumption == NoKey \notin Keys

RawKeys == Names \X Spellings

VARIABLES
    clock,
    history,     \* per key, the changes of the secret on the server
    cache,       \* the client's Map, from cache keys to entries
    call,        \* the calls of get
    answer,      \* what the last step answered
    floor        \* per key, the value current at its last undisturbed invalidation

vars == <<clock, history, cache, call, answer, floor>>

Change == [at : Nat, exists : BOOLEAN]

CacheEntry == [num : Nat, expiresAt : Nat]

Errors == {"AegisVaultError", "AuthenticationError", "AuthorizationError",
           "SecretNotFoundError", "VaultUnavailableError"}

Statuses == {0, 200, 401, 403, 404, 500}

Call == [key : Keys \cup {NoKey}, startedAt : Nat, status : Statuses, num : Nat, floor : Nat]

Answer == [outcome : Errors \cup {"none", "value", "default"}, key : Keys \cup {NoKey},
           num : Nat, startedAt : Nat, floor : Nat, fetched : BOOLEAN]

-----------------------------------------------------------------------------
(* key.trim().toUpperCase(): every spelling of a name is the name.         *)
formattedKey(raw) == raw[1]

cacheKey(scope, raw) == <<scope, formattedKey(raw)>>

Current(k) == Len(history[k])

Idle == [key |-> NoKey, startedAt |-> 0, status |-> 0, num |-> 0, floor |-> 0]

Fetching(c) == call[c].key # NoKey

NoAnswer == [outcome |-> "none", key |-> NoKey, num |-> 0, startedAt |-> 0, floor |-> 0,
             fetched |-> FALSE]

Threw(error) == [NoAnswer EXCEPT !.outcome = error]

Without_BrokenUndefined(K) == [k \in DOMAIN cache \cup K |-> IF k \in K THEN NoKey ELSE cache[k]]

(* The cache without some keys, and with an entry added or replaced.       *)
Without(K) == [k \in DOMAIN cache \ K |-> cache[k]]

With(k, entry) == [j \in DOMAIN cache \cup {k} |-> IF j = k THEN entry ELSE cache[j]]

Init ==
    /\ clock = 0
    /\ history = [k \in Keys |-> <<[at |-> 0, exists |-> TRUE]>>]
    /\ cache = <<>>
    /\ call = [c \in Calls |-> Idle]
    /\ answer = NoAnswer
    /\ floor = [k \in Keys |-> 0]

-----------------------------------------------------------------------------
CacheHit_BrokenNoExpiry(k, bypassCache) == ~bypassCache /\ Ttl > 0 /\ k \in DOMAIN cache

(* An entry serves a call while it has not expired.                        *)
CacheHit(k, bypassCache) ==
    /\ ~bypassCache
    /\ Ttl > 0
    /\ k \in DOMAIN cache
    /\ clock < cache[k].expiresAt

(* get without a project or an environment throws at once.                 *)
GetUnscoped ==
    /\ answer' = Threw("AegisVaultError")
    /\ UNCHANGED <<clock, history, cache, call, floor>>

(* get answers from the cache.                                             *)
GetCached(scope, raw) ==
    LET k == cacheKey(scope, raw)
    IN  /\ CacheHit(k, FALSE)
        /\ answer' = [outcome |-> "value", key |-> k, num |-> cache[k].num,
                      startedAt |-> clock, floor |-> floor[k], fetched |-> FALSE]
        /\ UNCHANGED <<clock, history, cache, call, floor>>

(* get sends its request and sets the abort timer.  The bound leaves time  *)
(* for the timer.                                                          *)
GetFetched(c, scope, raw, bypassCache) ==
    LET k == cacheKey(scope, raw)
    IN  /\ ~Fetching(c)
        /\ ~CacheHit(k, bypassCache)
        /\ clock + Timeout <= MaxTime
        /\ call' = [call EXCEPT ![c] = [Idle EXCEPT !.key = k, !.startedAt = clock,
                                                    !.floor = floor[k]]]
        /\ answer' = NoAnswer
        /\ UNCHANGED <<clock, history, cache, floor>>

(* The server reads the secret and answers, or refuses, or fails.          *)
Respond(c) ==
    /\ Fetching(c)
    /\ call[c].status = 0
    /\ LET n == Current(call[c].key)
           found == IF history[call[c].key][n].exists THEN 200 ELSE 404
       IN  \/ call' = [call EXCEPT ![c].status = found, ![c].num = n]
           \/ \E status \in {401, 403, 500} : call' = [call EXCEPT ![c].status = status]
    /\ answer' = NoAnswer
    /\ UNCHANGED <<clock, history, cache, floor>>

Outcome_BrokenDefault(status, default) ==
    CASE status = 200 -> "value"
      [] status # 200 /\ default -> "default"
      [] status = 404 /\ ~default -> "SecretNotFoundError"
      [] status = 401 /\ ~default -> "AuthenticationError"
      [] status = 403 /\ ~default -> "AuthorizationError"
      [] OTHER -> "VaultUnavailableError"

(* What a response makes get do, with or without options.default.          *)
Outcome(status, default) ==
    CASE status = 200 -> "value"
      [] status = 404 /\ default -> "default"
      [] status = 404 /\ ~default -> "SecretNotFoundError"
      [] status = 401 -> "AuthenticationError"
      [] status = 403 -> "AuthorizationError"
      [] OTHER -> "VaultUnavailableError"

(* The response is here: a value goes into the cache, with a new expiry.   *)
Receive(c, default) ==
    LET k == call[c].key
        outcome == Outcome(call[c].status, default)
    IN  /\ Fetching(c)
        /\ call[c].status # 0
        /\ answer' = [outcome |-> outcome, key |-> k, num |-> call[c].num,
                      startedAt |-> call[c].startedAt, floor |-> call[c].floor,
                      fetched |-> TRUE]
        /\ cache' = IF outcome = "value" /\ Ttl > 0
                    THEN With(k, [num |-> call[c].num, expiresAt |-> clock + Ttl])
                    ELSE cache
        /\ call' = [call EXCEPT ![c] = Idle]
        /\ UNCHANGED <<clock, history, floor>>

(* The call throws because there is no response it can use.                *)
ThrowUnavailable(c) ==
    /\ call' = [call EXCEPT ![c] = Idle]
    /\ answer' = Threw("VaultUnavailableError")
    /\ UNCHANGED <<clock, history, cache, floor>>

(* The connection fails, before or after the server has answered.          *)
NetworkError(c) == Fetching(c) /\ ThrowUnavailable(c)

Overdue_BrokenNever(c) == FALSE

Overdue(c) == Fetching(c) /\ clock >= call[c].startedAt + Timeout

(* The abort timer ends the fetch.                                         *)
Abort(c) == Overdue(c) /\ ThrowUnavailable(c)

(* An invalidation nothing disturbs: no fetch of the key is in flight.     *)
RaisedFloor(K) ==
    [k \in Keys |-> IF k \in K /\ \A c \in Calls : call[c].key # k
                    THEN Current(k) ELSE floor[k]]

Matches_BrokenUnformatted(k, raw) == k[2] = raw

(* An entry's key ends with the name that is invalidated.                  *)
Matches(k, raw) == k[2] = formattedKey(raw)

(* invalidateCache(key) drops the name in every project and environment.   *)
Invalidate(raw) ==
    /\ cache' = Without({k \in Keys : Matches(k, raw)})
    /\ floor' = RaisedFloor({k \in Keys : k[2] = formattedKey(raw)})
    /\ answer' = NoAnswer
    /\ UNCHANGED <<clock, history, call>>

InvalidateAll ==
    /\ cache' = <<>>
    /\ floor' = RaisedFloor(Keys)
    /\ answer' = NoAnswer
    /\ UNCHANGED <<clock, history, call>>

(* Somebody creates, updates or deletes the secret on the server.          *)
ServerChange(k, exists) ==
    /\ Cardinality(UNION {{j} \X DOMAIN history[j] : j \in Keys})
          < MaxChanges + Cardinality(Keys)
    /\ exists \/ history[k][Current(k)].exists
    /\ history' = [history EXCEPT ![k] = Append(@, [at |-> clock, exists |-> exists])]
    /\ answer' = NoAnswer
    /\ UNCHANGED <<clock, cache, call, floor>>

Tick ==
    /\ clock < MaxTime
    /\ \A c \in Calls : ~Overdue(c)
    /\ clock' = clock + 1
    /\ answer' = NoAnswer
    /\ UNCHANGED <<history, cache, call, floor>>

Next ==
    \/ GetUnscoped
    \/ \E scope \in Scopes, raw \in RawKeys :
          \/ GetCached(scope, raw)
          \/ \E c \in Calls, bypassCache \in BOOLEAN : GetFetched(c, scope, raw, bypassCache)
    \/ \E c \in Calls :
          \/ Respond(c)
          \/ \E default \in BOOLEAN : Receive(c, default)
          \/ NetworkError(c)
          \/ Abort(c)
    \/ \E raw \in RawKeys : Invalidate(raw)
    \/ InvalidateAll
    \/ \E k \in Keys, exists \in BOOLEAN : ServerChange(k, exists)
    \/ Tick

Spec == Init /\ [][Next]_vars

-----------------------------------------------------------------------------
(* The types of the state.                                                 *)
TypeOK ==
    /\ clock \in Nat
    /\ history \in [Keys -> Seq(Change)]
    /\ DOMAIN cache \subseteq Keys
    /\ \A k \in DOMAIN cache : cache[k] \in CacheEntry
    /\ call \in [Calls -> Call]
    /\ answer \in Answer
    /\ floor \in [Keys -> Nat]

(* The n-th state of k was replaced at time t or later, if at all.         *)
StoodUntil(k, n, t) == n < Current(k) => history[k][n + 1].at >= t

(* A rotation or a deletion reaches every reader within the cache's TTL    *)
(* and one request's timeout: what get returns had not been replaced for   *)
(* longer than that, whichever calls overlapped, in whatever order their   *)
(* responses came.  What a call fetched itself, as one that bypasses the   *)
(* cache does, was current at some moment of the call.                     *)
BoundedStaleness ==
    answer.outcome = "value" =>
        LET k == answer.key  n == answer.num
        IN  /\ n \in 1 .. Current(k) /\ history[k][n].exists
            /\ StoodUntil(k, n, clock - (Ttl + Timeout))
            /\ answer.fetched => StoodUntil(k, n, answer.startedAt)

(* invalidateCache takes effect: a call made after it returns no value     *)
(* older than the one that was current then, in any project, however the   *)
(* name was spelled, unless a fetch of the key was in flight at the        *)
(* invalidation, whose late response puts the old value back.              *)
InvalidationHeeded == answer.outcome = "value" => answer.num >= answer.floor

(* The caller's default, and SecretNotFoundError, stand for a secret that  *)
(* does not exist, never for one that could not be reached or read: at     *)
(* some moment of the call the secret was missing.                         *)
MissingMeansMissing ==
    answer.outcome \in {"default", "SecretNotFoundError"} =>
        LET k == answer.key  n == answer.num
        IN  /\ n \in 1 .. Current(k) /\ ~history[k][n].exists
            /\ StoodUntil(k, n, answer.startedAt)
=============================================================================
