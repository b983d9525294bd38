--------------------------- MODULE SdkClientProofs ---------------------------
(***************************************************************************)
(* Proofs about SdkClient, for any number of calls, names and changes and  *)
(* any times: types, and what the cache may and may not answer.            *)
(*                                                                         *)
(* What an answer says rests on what the cache and the calls carry: a call *)
(* that the server has answered holds a state of the secret that had not   *)
(* been replaced when the call started (Carried), and so does an entry of  *)
(* the cache, counted back from its expiry (Cached).  A call is over in    *)
(* time because the abort timer runs before the clock passes it; and an    *)
(* invalidation raises the floor of a key only while no call is after it.  *)
(***************************************************************************)
EXTENDS SdkClient, TLAPS

(* A secret has a state from the start, and none from the future.          *)
Recorded(k) ==
    /\ history[k] # <<>>
    /\ floor[k] <= Current(k)

Cached(k) ==
    LET n == cache[k].num
    IN  /\ n \in 1 .. Current(k) /\ history[k][n].exists
        /\ n >= floor[k]
        /\ cache[k].expiresAt <= clock + Ttl
        /\ StoodUntil(k, n, cache[k].expiresAt - (Ttl + Timeout))

Carried(c) ==
    LET k == call[c].key  n == call[c].num
    IN  /\ call[c].startedAt <= clock /\ clock <= call[c].startedAt + Timeout
        /\ call[c].floor = floor[k]
        /\ call[c].status \in {200, 404} =>
              /\ n \in 1 .. Current(k) /\ n >= floor[k]
              /\ history[k][n].exists <=> call[c].status = 200
              /\ StoodUntil(k, n, call[c].startedAt)

Answered == BoundedStaleness /\ InvalidationHeeded /\ MissingMeansMissing

IInv ==
    /\ TypeOK
    /\ \A k \in Keys : Recorded(k)
    /\ \A k \in DOMAIN cache : Cached(k)
    /\ \A c \in Calls : Fetching(c) => Carried(c)
    /\ Answered

-----------------------------------------------------------------------------
LEMMA InitIInv == Init => IInv
<1> SUFFICES ASSUME Init PROVE IInv
  OBVIOUS
<1>1. \A k \in Keys : history[k] = <<[at |-> 0, exists |-> TRUE]>> /\ floor[k] = 0
  BY DEF Init
<1>2. <<[at |-> 0, exists |-> TRUE]>> \in Seq(Change)
  BY DEF Change
<1>3. cache = <<>> /\ DOMAIN cache = {}
  BY DEF Init
<1>4. \A c \in Calls : call[c].key = NoKey
  BY DEF Init, Idle
<1>5. TypeOK
  <2>1. Idle \in Call /\ NoAnswer \in Answer
    BY DEF Idle, Call, Statuses, NoAnswer, Answer
  <2> QED
    BY <1>2, <1>3, <2>1 DEF Init, TypeOK
<1>6. Answered
  BY DEF Init, NoAnswer, Answered, BoundedStaleness, InvalidationHeeded, MissingMeansMissing
<1>7. \A k \in Keys : Recorded(k)
  BY <1>1 DEF Recorded, Current
<1> QED
  BY <1>3, <1>4, <1>5, <1>6, <1>7 DEF IInv, Fetching

(* A step that answers no value and no absence says nothing false.         *)
LEMMA NothingSaid ==
  ASSUME answer'.outcome \notin {"value", "default", "SecretNotFoundError"}
  PROVE  Answered'
  BY DEF Answered, BoundedStaleness, InvalidationHeeded, MissingMeansMissing

LEMMA Facts ==
  ASSUME IInv
  PROVE  /\ clock \in Nat /\ Ttl \in Nat /\ Timeout \in Nat
         /\ \A k \in Keys : /\ Current(k) \in Nat \ {0} /\ floor[k] \in Nat
                            /\ \A n \in 1 .. Current(k) : history[k][n] \in Change
         /\ \A c \in Calls : /\ call[c] \in Call
                             /\ Fetching(c) => call[c].key \in Keys
         /\ NoAnswer \in Answer /\ Idle \in Call /\ Idle.key = NoKey
         /\ NoAnswer.outcome = "none"
<1>1. \A k \in Keys : history[k] \in Seq(Change) /\ history[k] # <<>> /\ floor[k] \in Nat
  BY DEF IInv, TypeOK, Recorded
<1>2. NoAnswer \in Answer /\ Idle \in Call /\ Idle.key = NoKey /\ NoAnswer.outcome = "none"
  BY DEF Idle, Call, Statuses, NoAnswer, Answer
<1>3. \A c \in Calls : call[c] \in Call /\ (Fetching(c) => call[c].key \in Keys)
  BY DEF IInv, TypeOK, Call, Fetching
<1>4. \A k \in Keys : /\ Current(k) \in Nat \ {0}
                      /\ \A n \in 1 .. Current(k) : history[k][n] \in Change
  BY <1>1 DEF Current
<1> QED
  BY <1>1, <1>2, <1>3, <1>4, TimesAssumption DEF IInv, TypeOK

(* A step of one call that leaves the cache alone.                         *)
LEMMA CallStep ==
  ASSUME IInv, NEW c \in Calls, NEW new \in Call, call' = [call EXCEPT ![c] = new],
         UNCHANGED <<clock, history, cache, floor>>, answer' \in Answer,
         new.key # NoKey => Carried(c)', Answered'
  PROVE  IInv'
<1>1. /\ call' \in [Calls -> Call] /\ call'[c] = new
      /\ \A d \in Calls \ {c} : call'[d] = call[d]
  BY DEF IInv, TypeOK
<1>2. TypeOK'
  BY <1>1 DEF IInv, TypeOK
<1>3. \A k \in Keys : Recorded(k)'
  BY DEF IInv, Recorded, Current
<1>4. \A k \in DOMAIN cache : Cached(k)'
  BY DEF IInv, Cached, Current, StoodUntil
<1>5. ASSUME NEW d \in Calls, Fetching(d)' PROVE Carried(d)'
  BY <1>1, <1>5 DEF IInv, Fetching, Carried, Current, StoodUntil
<1> QED
  BY <1>2, <1>3, <1>4, <1>5 DEF IInv

LEMMA GetUnscopedStep ==
  ASSUME IInv, GetUnscoped
  PROVE  IInv'
<1>1. answer'.outcome = "AegisVaultError" /\ answer' \in Answer
  BY DEF GetUnscoped, Threw, NoAnswer, Answer, Errors
<1>2. Answered'
  BY <1>1, NothingSaid
<1> QED
  BY <1>1, <1>2 DEF GetUnscoped, IInv, TypeOK, Recorded, Cached, Fetching, Carried, Current,
                    StoodUntil

(* get from the cache: the entry has not expired.                          *)
LEMMA GetCachedStep ==
  ASSUME IInv, NEW scope \in Scopes, NEW raw \in RawKeys, GetCached(scope, raw)
  PROVE  IInv'
<1> DEFINE k == cacheKey(scope, raw)
           n == cache[k].num
<1>1. /\ k \in Keys /\ k \in DOMAIN cache /\ clock < cache[k].expiresAt
      /\ answer' = [outcome |-> "value", key |-> k, num |-> n, startedAt |-> clock,
                    floor |-> floor[k], fetched |-> FALSE]
      /\ UNCHANGED <<clock, history, cache, call, floor>>
  BY DEF GetCached, CacheHit, cacheKey, formattedKey, RawKeys, Keys
<1>2. n \in Nat /\ cache[k].expiresAt \in Nat /\ floor[k] \in Nat
  BY <1>1 DEF IInv, TypeOK, CacheEntry
<1>3. Cached(k)
  BY <1>1 DEF IInv
<1> HIDE DEF k
<1>4. answer' \in Answer
  BY <1>1, <1>2, Facts DEF Answer
<1>5. TypeOK'
  BY <1>1, <1>4 DEF IInv, TypeOK
<1>6. StoodUntil(k, n, clock - (Ttl + Timeout))
  <2>1. ASSUME n < Current(k) PROVE history[k][n + 1].at >= clock - (Ttl + Timeout)
    <3>1. history[k][n + 1].at >= cache[k].expiresAt - (Ttl + Timeout)
      BY <1>3, <2>1 DEF Cached, StoodUntil
    <3>2. history[k][n + 1].at \in Nat
      BY <1>1, <1>2, <2>1, Facts DEF Change
    <3> QED
      BY <1>1, <1>2, <3>1, <3>2, Facts
  <2> QED
    BY <2>1 DEF StoodUntil
<1>7. Answered'
  BY <1>1, <1>3, <1>6
     DEF Answered, BoundedStaleness, InvalidationHeeded, MissingMeansMissing, Cached, Current,
         StoodUntil
<1> QED
  BY <1>1, <1>5, <1>7 DEF IInv, Recorded, Cached, Fetching, Carried, Current, StoodUntil

LEMMA GetFetchedStep ==
  ASSUME IInv, NEW c \in Calls, NEW scope \in Scopes, NEW raw \in RawKeys,
         NEW bypassCache \in BOOLEAN, GetFetched(c, scope, raw, bypassCache)
  PROVE  IInv'
<1> DEFINE k == cacheKey(scope, raw)
           new == [Idle EXCEPT !.key = k, !.startedAt = clock, !.floor = floor[k]]
<1>1. /\ k \in Keys
      /\ call' = [call EXCEPT ![c] = new] /\ answer' = NoAnswer
      /\ UNCHANGED <<clock, history, cache, floor>>
  <2>1. k \in Keys
    BY DEF cacheKey, formattedKey, RawKeys, Keys
  <2> QED
    BY <2>1 DEF GetFetched
<1> HIDE DEF k
<1>2. /\ new \in Call /\ new.key = k /\ new.startedAt = clock /\ new.status = 0
      /\ new.floor = floor[k]
  <2> DEFINE keyed == [Idle EXCEPT !.key = k]
             begun == [keyed EXCEPT !.startedAt = clock]
  <2>1. Idle \in Call /\ Idle.status = 0 /\ clock \in Nat /\ floor[k] \in Nat
    BY <1>1, Facts DEF Idle
  <2>2. keyed \in Call /\ keyed.key = k /\ keyed.status = 0
    BY <1>1, <2>1 DEF Call
  <2> HIDE DEF keyed
  <2>3. begun \in Call /\ begun.key = k /\ begun.status = 0 /\ begun.startedAt = clock
    BY <2>1, <2>2 DEF Call
  <2>4. new = [begun EXCEPT !.floor = floor[k]]
    BY DEF keyed
  <2> HIDE DEF begun, new
  <2> QED
    BY <2>1, <2>3, <2>4 DEF Call
<1> HIDE DEF new
<1>3. Carried(c)'
  <2>1. call'[c] = new
    BY <1>1 DEF IInv, TypeOK
  <2>2. clock' = clock /\ floor' = floor /\ clock <= clock + Timeout
    BY <1>1, Facts
  <2>3. new.startedAt <= clock /\ clock <= new.startedAt + Timeout
    BY <1>2, <2>2, Facts
  <2>4. call'[c].status \notin {200, 404} /\ call'[c].floor = floor'[call'[c].key]
    BY <1>2, <2>1, <2>2
  <2> QED
    BY <2>1, <2>2, <2>3, <2>4 DEF Carried
<1>4. Answered' /\ answer' \in Answer
  BY <1>1, Facts, NothingSaid
<1> QED
  BY <1>1, <1>2, <1>3, <1>4, CallStep

(* A call with an answer is a call.                                        *)
WithAnswer(old, status, n) == [old EXCEPT !.status = status, !.num = n]

LEMMA AnsweredCall ==
  ASSUME NEW old \in Call, NEW status \in Statuses, NEW n \in Nat
  PROVE  LET new == WithAnswer(old, status, n)
         IN  /\ new \in Call /\ new.key = old.key /\ new.startedAt = old.startedAt
             /\ new.floor = old.floor /\ new.status = status /\ new.num = n
<1> DEFINE mid == [old EXCEPT !.status = status]
           new == [mid EXCEPT !.num = n]
<1>1. /\ mid \in Call /\ mid.key = old.key /\ mid.startedAt = old.startedAt
      /\ mid.floor = old.floor /\ mid.status = status
  BY DEF Call, Statuses
<1> HIDE DEF mid
<1>2. /\ new \in Call /\ new.key = mid.key /\ new.startedAt = mid.startedAt
      /\ new.floor = mid.floor /\ new.status = mid.status /\ new.num = n
  BY <1>1 DEF Call
<1>3. WithAnswer(old, status, n) = new
  BY DEF WithAnswer, mid
<1> HIDE DEF new
<1> QED
  BY <1>1, <1>2, <1>3

(* The server answers with the state that is current then.                 *)
LEMMA RespondStep ==
  ASSUME IInv, NEW c \in Calls, Respond(c)
  PROVE  IInv'
<1> DEFINE k == call[c].key
           n == Current(k)
<1>1. /\ k \in Keys /\ Carried(c) /\ call[c] \in Call
      /\ answer' = NoAnswer /\ UNCHANGED <<clock, history, cache, floor>>
  BY Facts DEF Respond, IInv
<1>2. Answered' /\ answer' \in Answer
  BY <1>1, Facts, NothingSaid
<1>3. ASSUME NEW status \in {401, 403, 500}, call' = [call EXCEPT ![c].status = status]
      PROVE  IInv'
  <2> DEFINE new == [call[c] EXCEPT !.status = status]
  <2>1. /\ new \in Call /\ call' = [call EXCEPT ![c] = new]
        /\ call'[c] = new /\ new.key = k /\ new.startedAt = call[c].startedAt
        /\ new.floor = call[c].floor /\ new.status = status
    <3>1. new \in Call /\ new.key = k /\ new.startedAt = call[c].startedAt
          /\ new.floor = call[c].floor /\ new.status = status
      BY <1>1 DEF Call, Statuses
    <3>2. call' = [call EXCEPT ![c] = new]
      BY <1>3
    <3> HIDE DEF new
    <3> QED
      BY <3>1, <3>2 DEF IInv, TypeOK
  <2> HIDE DEF new
  <2>2. Carried(c)'
    BY <1>1, <2>1 DEF Carried
  <2> QED
    BY <1>1, <1>2, <2>1, <2>2, CallStep
<1>4. ASSUME NEW status \in {200, 404}, history[k][n].exists <=> status = 200,
             call' = [call EXCEPT ![c].status = status, ![c].num = n]
      PROVE  IInv'
  <2> DEFINE new == WithAnswer(call[c], status, n)
  <2>1. n \in Nat \ {0} /\ n >= floor[k]
    BY <1>1, Facts DEF IInv, Recorded
  <2> HIDE DEF n
  <2>2. /\ new \in Call /\ call' = [call EXCEPT ![c] = new]
        /\ call'[c] = new /\ new.key = k /\ new.startedAt = call[c].startedAt
        /\ new.floor = call[c].floor /\ new.status = status /\ new.num = n
    <3>1. /\ new \in Call /\ new.key = k /\ new.startedAt = call[c].startedAt
          /\ new.floor = call[c].floor /\ new.status = status /\ new.num = n
      <4>1. call[c] \in Call /\ status \in Statuses /\ n \in Nat
        BY <1>1, <2>1 DEF Statuses
      <4> QED
        BY <4>1, AnsweredCall
    <3>2. call' = [call EXCEPT ![c] = new]
      <4>1. \A x, y : [[call EXCEPT ![c] = x] EXCEPT ![c] = y] = [call EXCEPT ![c] = y]
        BY DEF IInv, TypeOK
      <4>2. \A x : [call EXCEPT ![c] = x][c] = x
        BY DEF IInv, TypeOK
      <4> DEFINE x == [call[c] EXCEPT !.status = status]
                 m == [call EXCEPT ![c] = x]
      <4>3. call' = [m EXCEPT ![c] = [m[c] EXCEPT !.num = n]]
        BY <1>4
      <4>4. m[c] = x
        BY <4>2
      <4>5. new = [x EXCEPT !.num = n]
        BY DEF new, WithAnswer
      <4>6. [m EXCEPT ![c] = new] = [call EXCEPT ![c] = new]
        BY <4>1
      <4> HIDE DEF m, x, new
      <4> QED
        BY <4>3, <4>4, <4>5, <4>6
    <3> HIDE DEF new
    <3> QED
      BY <3>1, <3>2 DEF IInv, TypeOK
  <2> HIDE DEF new
  <2>3. StoodUntil(k, n, call[c].startedAt) /\ n \in 1 .. Current(k)
    BY <2>1 DEF StoodUntil, n
  <2>4. Carried(c)'
    BY <1>1, <1>4, <2>1, <2>2, <2>3 DEF Carried, StoodUntil, Current
  <2> QED
    BY <1>1, <1>2, <2>2, <2>4, CallStep
<1> QED
  BY <1>3, <1>4 DEF Respond

LEMMA ThrowStep ==
  ASSUME IInv, NEW c \in Calls, ThrowUnavailable(c)
  PROVE  IInv'
<1>1. answer'.outcome = "VaultUnavailableError" /\ answer' \in Answer
  BY DEF ThrowUnavailable, Threw, NoAnswer, Answer, Errors
<1> QED
  BY <1>1, Facts, NothingSaid, CallStep DEF ThrowUnavailable

(* get with the response: what it puts into the cache is as fresh as what  *)
(* it returns, and no staler than the floor of the key.                    *)
LEMMA ReceiveStep ==
  ASSUME IInv, NEW c \in Calls, NEW default \in BOOLEAN, Receive(c, default)
  PROVE  IInv'
<1> DEFINE k == call[c].key
           n == call[c].num
           outcome == Outcome(call[c].status, default)
           entry == [num |-> n, expiresAt |-> clock + Ttl]
<1>1. /\ k \in Keys /\ Carried(c) /\ call[c] \in Call
      /\ answer' = [outcome |-> outcome, key |-> k, num |-> n, startedAt |-> call[c].startedAt,
                    floor |-> call[c].floor, fetched |-> TRUE]
      /\ cache' = IF outcome = "value" /\ Ttl > 0 THEN With(k, entry) ELSE cache
      /\ call' = [call EXCEPT ![c] = Idle]
      /\ UNCHANGED <<clock, history, floor>>
  BY Facts DEF Receive, IInv
<1>2. /\ outcome \in Errors \cup {"value", "default"}
      /\ outcome = "value" => call[c].status = 200
      /\ outcome \in {"default", "SecretNotFoundError"} => call[c].status = 404
  BY <1>1 DEF Outcome, Errors, Call, Statuses
<1>3. n \in Nat /\ call[c].startedAt \in Nat /\ call[c].floor \in Nat
  BY <1>1 DEF Call
<1> HIDE DEF outcome, k, n
<1>4. answer' \in Answer
  BY <1>1, <1>2, <1>3 DEF Answer
<1>5. /\ call' \in [Calls -> Call] /\ call'[c] = Idle
      /\ \A d \in Calls \ {c} : call'[d] = call[d]
  BY <1>1, Facts DEF IInv, TypeOK
<1>6. outcome \in {"value", "default", "SecretNotFoundError"} =>
         /\ n \in 1 .. Current(k) /\ n >= floor[k] /\ call[c].floor = floor[k]
         /\ history[k][n].exists <=> outcome = "value"
         /\ StoodUntil(k, n, call[c].startedAt)
         /\ StoodUntil(k, n, clock - (Ttl + Timeout))
         /\ StoodUntil(k, n, clock - Timeout)
  <2> SUFFICES ASSUME outcome \in {"value", "default", "SecretNotFoundError"}
               PROVE  /\ n \in 1 .. Current(k) /\ n >= floor[k] /\ call[c].floor = floor[k]
                      /\ history[k][n].exists <=> outcome = "value"
                      /\ StoodUntil(k, n, call[c].startedAt)
                      /\ StoodUntil(k, n, clock - (Ttl + Timeout))
                      /\ StoodUntil(k, n, clock - Timeout)
    OBVIOUS
  <2>1. /\ n \in 1 .. Current(k) /\ n >= floor[k] /\ call[c].floor = floor[k]
        /\ history[k][n].exists <=> call[c].status = 200
        /\ StoodUntil(k, n, call[c].startedAt)
        /\ clock <= call[c].startedAt + Timeout
    BY <1>1, <1>2 DEF Carried, k, n
  <2>2. ASSUME n < Current(k)
        PROVE  history[k][n + 1].at >= clock - Timeout
               /\ history[k][n + 1].at >= clock - (Ttl + Timeout)
    <3>1. history[k][n + 1].at >= call[c].startedAt /\ history[k][n + 1].at \in Nat
      BY <1>1, <1>3, <2>1, <2>2, Facts DEF StoodUntil, Change
    <3> QED
      BY <1>3, <2>1, <3>1, Facts
  <2> QED
    BY <1>2, <2>1, <2>2 DEF StoodUntil
<1>7. Answered'
  BY <1>1, <1>2, <1>6
     DEF Answered, BoundedStaleness, InvalidationHeeded, MissingMeansMissing, Current, StoodUntil
<1>8. ASSUME outcome = "value" /\ Ttl > 0
      PROVE  /\ DOMAIN cache' = DOMAIN cache \cup {k}
             /\ cache'[k] = entry /\ \A j \in DOMAIN cache \ {k} : cache'[j] = cache[j]
  BY <1>1, <1>8 DEF With
<1>9. entry \in CacheEntry
  BY <1>3, Facts DEF CacheEntry
<1>10. DOMAIN cache' \subseteq Keys /\ \A j \in DOMAIN cache' : cache'[j] \in CacheEntry
  BY <1>1, <1>8, <1>9 DEF IInv, TypeOK
<1>11. TypeOK'
  BY <1>1, <1>4, <1>5, <1>10 DEF IInv, TypeOK
<1>12. ASSUME NEW j \in DOMAIN cache' PROVE Cached(j)'
  <2>1. CASE outcome = "value" /\ Ttl > 0 /\ j = k
    <3>1. cache'[j] = entry /\ entry.num = n /\ entry.expiresAt = clock + Ttl
      BY <1>8, <2>1
    <3>2. (clock + Ttl) - (Ttl + Timeout) = clock - Timeout
      BY Facts
    <3> HIDE DEF entry
    <3>3. Cached(j)' <=>
             /\ n \in 1 .. Current(k) /\ history[k][n].exists /\ n >= floor[k]
             /\ clock + Ttl <= clock + Ttl
             /\ StoodUntil(k, n, (clock + Ttl) - (Ttl + Timeout))
      BY <1>1, <2>1, <3>1 DEF Cached, StoodUntil, Current
    <3> QED
      BY <1>6, <2>1, <3>2, <3>3, Facts
  <2>2. CASE j \in DOMAIN cache /\ cache'[j] = cache[j]
    BY <1>1, <2>2 DEF IInv, Cached, StoodUntil, Current
  <2> QED
    BY <1>1, <1>8, <2>1, <2>2
<1>13. ASSUME NEW d \in Calls, Fetching(d)' PROVE Carried(d)'
  BY <1>1, <1>5, <1>13, Facts DEF IInv, Fetching, Carried, Current, StoodUntil
<1> QED
  BY <1>1, <1>7, <1>11, <1>12, <1>13 DEF IInv, Recorded, Current

(* invalidateCache: what is raised is not in the cache and not in flight.  *)
LEMMA DropStep ==
  ASSUME IInv, NEW K \in SUBSET Keys,
         DOMAIN cache' = DOMAIN cache \ K, \A j \in DOMAIN cache' : cache'[j] = cache[j],
         floor' = RaisedFloor(K), answer' = NoAnswer, UNCHANGED <<clock, history, call>>
  PROVE  IInv'
<1>1. \A k \in Keys : /\ floor'[k] = IF k \in K /\ \A c \in Calls : call[c].key # k
                                     THEN Current(k) ELSE floor[k]
                      /\ floor'[k] \in Nat /\ floor'[k] <= Current(k)
  BY Facts DEF RaisedFloor, IInv, Recorded
<1>2. TypeOK'
  <2>1. floor' \in [Keys -> Nat]
    BY <1>1 DEF RaisedFloor
  <2> QED
    BY <2>1, Facts DEF IInv, TypeOK
<1>3. \A k \in Keys : Recorded(k)'
  BY <1>1 DEF IInv, Recorded, Current
<1>4. ASSUME NEW k \in DOMAIN cache' PROVE Cached(k)'
  <2>1. k \in DOMAIN cache /\ k \notin K /\ k \in Keys /\ cache'[k] = cache[k] /\ Cached(k)
    BY DEF IInv, TypeOK
  <2>2. floor'[k] = floor[k]
    BY <1>1, <2>1
  <2> QED
    BY <2>1, <2>2 DEF Cached, StoodUntil, Current
<1>5. ASSUME NEW c \in Calls, Fetching(c)' PROVE Carried(c)'
  <2>1. Fetching(c) /\ Carried(c) /\ call[c].key \in Keys
    BY <1>5, Facts DEF Fetching, IInv
  <2>2. floor'[call[c].key] = floor[call[c].key]
    BY <1>1, <2>1
  <2> QED
    BY <2>1, <2>2 DEF Carried, StoodUntil, Current
<1>6. Answered'
  BY Facts, NothingSaid
<1> QED
  BY <1>2, <1>3, <1>4, <1>5, <1>6 DEF IInv

LEMMA InvalidateStep ==
  ASSUME IInv, InvalidateAll \/ \E raw \in RawKeys : Invalidate(raw)
  PROVE  IInv'
<1>1. CASE InvalidateAll
  <2>1. /\ DOMAIN cache' = {} /\ DOMAIN cache \subseteq Keys
        /\ floor' = RaisedFloor(Keys) /\ answer' = NoAnswer /\ UNCHANGED <<clock, history, call>>
    BY <1>1 DEF InvalidateAll, IInv, TypeOK
  <2> QED
    BY <2>1, DropStep
<1>2. ASSUME NEW raw \in RawKeys, Invalidate(raw) PROVE IInv'
  <2> DEFINE K == {k \in Keys : k[2] = formattedKey(raw)}
  <2>1. /\ cache' = Without(K) /\ floor' = RaisedFloor(K) /\ answer' = NoAnswer
        /\ UNCHANGED <<clock, history, call>>
    BY <1>2 DEF Invalidate, Matches
  <2>2. DOMAIN cache' = DOMAIN cache \ K /\ \A j \in DOMAIN cache' : cache'[j] = cache[j]
    BY <2>1 DEF Without
  <2>3. K \in SUBSET Keys
    OBVIOUS
  <2> HIDE DEF K
  <2> QED
    BY <2>1, <2>2, <2>3, DropStep
<1> QED
  BY <1>1, <1>2

(* A change on the server is the latest: what was current stood until now. *)
LEMMA ServerChangeStep ==
  ASSUME IInv, NEW k \in Keys, NEW exists \in BOOLEAN, ServerChange(k, exists)
  PROVE  IInv'
<1> DEFINE new == [at |-> clock, exists |-> exists]
<1>1. /\ history' = [history EXCEPT ![k] = Append(history[k], new)] /\ answer' = NoAnswer
      /\ UNCHANGED <<clock, cache, call, floor>>
  BY DEF ServerChange
<1>2. new \in Change /\ history \in [Keys -> Seq(Change)]
  BY Facts DEF Change, IInv, TypeOK
<1>3. /\ history' \in [Keys -> Seq(Change)]
      /\ \A j \in Keys \ {k} : history'[j] = history[j]
      /\ history'[k] = Append(history[k], new)
  BY <1>1, <1>2
<1>4. /\ Len(history'[k]) = Current(k) + 1 /\ history'[k][Current(k) + 1] = new
      /\ \A n \in 1 .. Current(k) : history'[k][n] = history[k][n]
      /\ history'[k] # <<>>
  BY <1>2, <1>3 DEF Current
<1>5. ASSUME NEW j \in Keys, NEW n \in 1 .. Current(j), NEW t \in Int, t <= clock,
             StoodUntil(j, n, t)
      PROVE  StoodUntil(j, n, t)' /\ n \in 1 .. Current(j)' /\ history'[j][n] = history[j][n]
  <2>1. CASE j # k
    BY <1>3, <1>5, <2>1 DEF StoodUntil, Current
  <2>2. CASE j = k
    <3>1. Current(k) \in Nat /\ n \in 1 .. Current(k) /\ Current(k)' = Current(k) + 1
      BY <1>4, <2>2, Facts DEF Current
    <3>2. CASE n < Current(k)
      <4>1. history'[k][n + 1] = history[k][n + 1] /\ history'[k][n] = history[k][n]
        BY <1>4, <3>1, <3>2
      <4>2. history[k][n + 1].at >= t
        BY <1>5, <2>2, <3>2 DEF StoodUntil
      <4>3. n \in 1 .. Current(k)'
        BY <3>1
      <4> QED
        BY <2>2, <4>1, <4>2, <4>3 DEF StoodUntil
    <3>3. CASE n = Current(k)
      BY <1>4, <1>5, <2>2, <3>1, <3>3, Facts DEF StoodUntil
    <3> QED
      BY <3>1, <3>2, <3>3
  <2> QED
    BY <2>1, <2>2
<1>6. TypeOK'
  BY <1>1, <1>3, Facts DEF IInv, TypeOK
<1>7. ASSUME NEW j \in Keys PROVE Recorded(j)'
  BY <1>1, <1>3, <1>4, Facts DEF IInv, Recorded, Current
<1>8. ASSUME NEW j \in DOMAIN cache PROVE Cached(j)'
  <2>1. Cached(j) /\ j \in Keys /\ cache[j] \in CacheEntry
    BY DEF IInv, TypeOK
  <2> DEFINE t == cache[j].expiresAt - (Ttl + Timeout)
  <2>2. t \in Int /\ t <= clock /\ StoodUntil(j, cache[j].num, t)
        /\ cache[j].num \in 1 .. Current(j)
    BY <2>1, Facts DEF Cached, CacheEntry
  <2>3. /\ StoodUntil(j, cache[j].num, t)' /\ cache[j].num \in 1 .. Current(j)'
        /\ history'[j][cache[j].num] = history[j][cache[j].num]
    BY <1>1, <1>5, <2>1, <2>2
  <2> QED
    BY <1>1, <2>1, <2>3 DEF Cached
<1>9. ASSUME NEW c \in Calls, Fetching(c)' PROVE Carried(c)'
  <2>1. Carried(c) /\ call[c].key \in Keys /\ call[c].startedAt \in Nat
    BY <1>1, <1>9, Facts DEF IInv, Fetching, Call
  <2>2. CASE call[c].status \notin {200, 404}
    BY <1>1, <2>1, <2>2 DEF Carried
  <2>3. CASE call[c].status \in {200, 404}
    <3>1. /\ call[c].startedAt \in Int /\ call[c].startedAt <= clock
          /\ StoodUntil(call[c].key, call[c].num, call[c].startedAt)
          /\ call[c].num \in 1 .. Current(call[c].key)
      BY <2>1, <2>3 DEF Carried
    <3>2. /\ StoodUntil(call[c].key, call[c].num, call[c].startedAt)'
          /\ call[c].num \in 1 .. Current(call[c].key)'
          /\ history'[call[c].key][call[c].num] = history[call[c].key][call[c].num]
      BY <1>1, <1>5, <2>1, <3>1
    <3>3. call'[c] = call[c] /\ clock' = clock /\ floor' = floor
      BY <1>1
    <3>4. /\ call[c].startedAt <= clock /\ clock <= call[c].startedAt + Timeout
          /\ call[c].floor = floor[call[c].key] /\ call[c].num >= floor[call[c].key]
      BY <2>1, <2>3 DEF Carried
    <3>5. history[call[c].key][call[c].num].exists <=> call[c].status = 200
      BY <2>1, <2>3 DEF Carried
    <3>6. history'[call[c].key][call[c].num].exists <=> call[c].status = 200
      BY <3>2, <3>5
    <3>7. /\ (call[c].startedAt <= clock /\ clock <= call[c].startedAt + Timeout)'
          /\ (call[c].floor = floor[call[c].key] /\ call[c].num >= floor[call[c].key])'
          /\ (history[call[c].key][call[c].num].exists <=> call[c].status = 200)'
          /\ (call[c].num \in 1 .. Current(call[c].key))'
          /\ StoodUntil(call[c].key, call[c].num, call[c].startedAt)'
      BY <1>1, <3>2, <3>3, <3>4, <3>6
    <3> QED
      BY <3>7 DEF Carried
  <2> QED
    BY <2>2, <2>3
<1>10. Answered'
  BY <1>1, Facts, NothingSaid
<1> QED
  BY <1>1, <1>6, <1>7, <1>8, <1>9, <1>10 DEF IInv

(* The clock does not pass the end of a call.                              *)
LEMMA TickStep ==
  ASSUME IInv, Tick
  PROVE  IInv'
<1>1. /\ clock' = clock + 1 /\ answer' = NoAnswer
      /\ UNCHANGED <<history, cache, call, floor>>
      /\ \A c \in Calls : ~Overdue(c)
  BY DEF Tick
<1>2. TypeOK'
  BY <1>1, Facts DEF IInv, TypeOK
<1>3. ASSUME NEW k \in DOMAIN cache PROVE Cached(k)'
  <2>1. Cached(k) /\ cache[k].expiresAt \in Nat
    BY DEF IInv, TypeOK, CacheEntry
  <2>2. cache[k].expiresAt <= clock' + Ttl
    BY <1>1, <2>1, Facts DEF Cached
  <2> QED
    BY <1>1, <2>1, <2>2 DEF Cached, StoodUntil, Current
<1>4. ASSUME NEW c \in Calls, Fetching(c)' PROVE Carried(c)'
  <2>1. Fetching(c) /\ Carried(c) /\ call[c].startedAt \in Nat /\ ~(clock >= call[c].startedAt + Timeout)
    BY <1>1, <1>4, Facts DEF IInv, Fetching, Overdue, Call
  <2>2. call[c].startedAt <= clock' /\ clock' <= call[c].startedAt + Timeout
    BY <1>1, <2>1, Facts DEF Carried
  <2> QED
    BY <1>1, <2>1, <2>2 DEF Carried, StoodUntil, Current
<1>5. Answered'
  BY <1>1, Facts, NothingSaid
<1> QED
  BY <1>1, <1>2, <1>3, <1>4, <1>5 DEF IInv, Recorded, Current

-----------------------------------------------------------------------------
LEMMA NextIInv == IInv /\ [Next]_vars => IInv'
<1> SUFFICES ASSUME IInv, [Next]_vars PROVE IInv'
  OBVIOUS
<1>1. ASSUME NEW scope \in Scopes, NEW raw \in RawKeys, GetCached(scope, raw) PROVE IInv'
  BY <1>1, GetCachedStep
<1>2. ASSUME NEW scope \in Scopes, NEW raw \in RawKeys, NEW c \in Calls,
             NEW bypassCache \in BOOLEAN, GetFetched(c, scope, raw, bypassCache)
      PROVE  IInv'
  BY <1>2, GetFetchedStep
<1>3. ASSUME NEW c \in Calls, Respond(c) \/ NetworkError(c) \/ Abort(c) PROVE IInv'
  BY <1>3, RespondStep, ThrowStep DEF NetworkError, Abort
<1>4. ASSUME NEW c \in Calls, NEW default \in BOOLEAN, Receive(c, default) PROVE IInv'
  BY <1>4, ReceiveStep
<1>5. ASSUME NEW k \in Keys, NEW exists \in BOOLEAN, ServerChange(k, exists) PROVE IInv'
  BY <1>5, ServerChangeStep
<1>6. CASE GetUnscoped \/ Tick \/ InvalidateAll \/ \E raw \in RawKeys : Invalidate(raw)
  BY <1>6, GetUnscopedStep, TickStep, InvalidateStep
<1>7. CASE UNCHANGED vars
  BY <1>7 DEF IInv, vars, TypeOK, Recorded, Cached, Fetching, Carried, Current, StoodUntil,
              Answered, BoundedStaleness, InvalidationHeeded, MissingMeansMissing
<1> QED
  BY <1>1, <1>2, <1>3, <1>4, <1>5, <1>6, <1>7 DEF Next

(* The invariant of every state that clients and servers reach.            *)
THEOREM Inductive == Spec => []IInv
<1> QED
  BY InitIInv, NextIInv, PTL DEF Spec

(* The cache, the calls and the answers of the client keep their types.    *)
THEOREM TypeCorrect == Spec => []TypeOK
<1>1. IInv => TypeOK
  BY DEF IInv
<1> QED
  BY <1>1, Inductive, PTL

(* get (client.ts): nothing it returns had been replaced for longer than   *)
(* cacheTtlMs and timeoutMs together, whichever calls overlapped; what a   *)
(* call fetched itself was current during the call.                        *)
THEOREM StalenessIsBounded == Spec => []BoundedStaleness
<1>1. IInv => BoundedStaleness
  BY DEF IInv, Answered
<1> QED
  BY <1>1, Inductive, PTL

(* invalidateCache: no later call returns what was older than the value    *)
(* current at an invalidation that no fetch of the key overlapped.         *)
THEOREM InvalidationsAreHeeded == Spec => []InvalidationHeeded
<1>1. IInv => InvalidationHeeded
  BY DEF IInv, Answered
<1> QED
  BY <1>1, Inductive, PTL

(* options.default and SecretNotFoundError answer for a secret that was    *)
(* missing at some moment of the call, never for a failure.                *)
THEOREM MissingIsMissing == Spec => []MissingMeansMissing
<1>1. IInv => MissingMeansMissing
  BY DEF IInv, Answered
<1> QED
  BY <1>1, Inductive, PTL
=============================================================================
