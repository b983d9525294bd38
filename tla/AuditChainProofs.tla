-------------------------- MODULE AuditChainProofs --------------------------
(***************************************************************************)
(* Proofs about AuditChain: rows keep their types, every committed event   *)
(* links to an older committed one, the ledger of transactions that do not *)
(* overlap verifies, and a ledger that verified does not after a row was   *)
(* tampered with; for any number of transactions and events.               *)
(***************************************************************************)
EXTENDS AuditChain, WellFoundedInduction, TLAPS

(* A link that resolves in a set resolves in a larger one and later.       *)
LEMMA ResolvesMonotone ==
  ASSUME NEW prev, NEW at, NEW S, NEW T, S \subseteq T, ResolvesIn(prev, at, S)
  PROVE  ResolvesIn(prev, at, T)
BY DEF ResolvesIn

THEOREM TypeCorrect == Spec => []TypeOK
<1>1. Init => TypeOK
  <2> SUFFICES ASSUME Init PROVE TypeOK
    OBVIOUS
  <2>1. Row(events) /\ \A t \in Txns : Row(pending[t])
    BY DEF Init, Row
  <2>2. DOMAIN pending = Txns /\ DOMAIN prev_hash = Txns
    BY DEF Init
  <2>3. pc \in [Txns -> {"idle", "reading", "open", "done"}] /\ now \in Nat
    BY DEF Init
  <2> QED
    BY <2>1, <2>2, <2>3 DEF Init, TypeOK
<1>2. TypeOK /\ [Next]_vars => TypeOK'
  <2> SUFFICES ASSUME TypeOK, [Next]_vars PROVE TypeOK'
    OBVIOUS
  <2>1. ASSUME NEW t \in Txns, ReadHead(t) PROVE TypeOK'
    BY <2>1 DEF ReadHead, TypeOK, Row
  <2>2. ASSUME NEW t \in Txns, NEW c \in Contents, Insert(t, c) PROVE TypeOK'
    <3> DEFINE new == [at |-> now + 1, prev |-> prev_hash[t], content |-> c,
                       hash |-> EventHash(prev_hash[t], c)]
    <3>1. now' = now + 1 /\ now \in Nat
      BY <2>2 DEF Insert, TypeOK
    <3>2. \A S : Row(S) => Row(S)'
      BY <3>1 DEF Row
    <3> QED
      BY <2>2, <3>1 DEF Insert, TypeOK, Row
  <2>3. ASSUME NEW t \in Txns, Commit(t) PROVE TypeOK'
    BY <2>3 DEF Commit, TypeOK, Row
  <2>4. ASSUME NEW t \in Txns, Rollback(t) PROVE TypeOK'
    BY <2>4 DEF Rollback, TypeOK, Row
  <2>5. ASSUME NEW e \in events, NEW c \in Contents, Alter(e, c) PROVE TypeOK'
    BY <2>5 DEF Alter, TypeOK, Row
  <2>6. ASSUME NEW e \in events, Remove(e) PROVE TypeOK'
    BY <2>6 DEF Remove, TypeOK, Row
  <2>7. CASE UNCHANGED vars
    BY <2>7 DEF vars, TypeOK, Row
  <2> QED
    BY <2>1, <2>2, <2>3, <2>4, <2>5, <2>6, <2>7 DEF Next
<1> QED
  BY <1>1, <1>2, PTL DEF Spec

-----------------------------------------------------------------------------
(* The read of log_event takes the hash of an event it sees.               *)
LEMMA ReadHeadLinks ==
  ASSUME TypeOK, LinkInv, NEW t \in Txns, ReadHead(t)
  PROVE  LinkInv'
<1> SUFFICES ASSUME ~tampered' PROVE LinkInv'
  BY DEF LinkInv
<1>1. UNCHANGED <<events, pending, now, tampered>> /\ now \in Nat
  BY DEF ReadHead, TypeOK
<1>2. \A u \in Txns : Visible(u)' = Visible(u)
  BY <1>1 DEF Visible
<1>3. ResolvesIn(prev_hash'[t], now + 1, Visible(t))
  <2>1. CASE prev_hash' = [prev_hash EXCEPT ![t] = Genesis]
    BY <2>1 DEF TypeOK, ResolvesIn
  <2>2. CASE \E e \in Visible(t) : prev_hash' = [prev_hash EXCEPT ![t] = e.hash]
    <3>1. PICK e \in Visible(t) : prev_hash' = [prev_hash EXCEPT ![t] = e.hash]
      BY <2>2
    <3>2. e.at < now + 1
      BY <1>1, <3>1 DEF Visible, TypeOK, Row
    <3>3. prev_hash'[t] = e.hash
      BY <3>1 DEF TypeOK
    <3> QED
      BY <3>1, <3>2, <3>3 DEF ResolvesIn
  <2> QED
    BY <2>1, <2>2 DEF ReadHead
<1>4. \A u \in Txns \ {t} : prev_hash'[u] = prev_hash[u] /\ pc'[u] = pc[u]
  BY DEF ReadHead, TypeOK
<1> QED
  BY <1>1, <1>2, <1>3, <1>4 DEF LinkInv

LEMMA InsertLinks ==
  ASSUME TypeOK, LinkInv, NEW t \in Txns, NEW content \in Contents, Insert(t, content)
  PROVE  LinkInv'
<1> SUFFICES ASSUME ~tampered' PROVE LinkInv'
  BY DEF LinkInv
<1> DEFINE new == [at |-> now + 1, prev |-> prev_hash[t], content |-> content,
                   hash |-> EventHash(prev_hash[t], content)]
<1>1. /\ UNCHANGED <<events, prev_hash, tampered>>
      /\ now \in Nat /\ now' = now + 1
      /\ pc[t] = "reading" /\ pc'[t] = "open"
      /\ pending'[t] = pending[t] \cup {new}
      /\ \A u \in Txns \ {t} : pending'[u] = pending[u] /\ pc'[u] = pc[u]
  BY DEF Insert, TypeOK
<1>2. \A u \in Txns : Visible(u) \subseteq Visible(u)'
  BY <1>1 DEF Visible
<1>3. ASSUME NEW u \in Txns, NEW e \in pending'[u]
      PROVE  ResolvesIn(e.prev, e.at, Visible(u)')
  <2>1. CASE e \in pending[u]
    BY <1>1, <1>2, <2>1, ResolvesMonotone DEF LinkInv
  <2>2. CASE u = t /\ e = new
    <3>1. e.prev = prev_hash[t] /\ e.at = now + 1
      BY <2>2
    <3> QED
      BY <1>1, <1>2, <2>2, <3>1, ResolvesMonotone DEF LinkInv
  <2> QED
    BY <1>1, <2>1, <2>2
<1>4. ASSUME NEW u \in Txns, pc'[u] = "reading"
      PROVE  ResolvesIn(prev_hash'[u], now' + 1, Visible(u)')
  <2>1. u # t /\ ResolvesIn(prev_hash[u], now + 1, Visible(u))
    BY <1>1, <1>4 DEF LinkInv
  <2>2. Visible(u)' = Visible(u)
    BY <1>1, <2>1 DEF Visible
  <2>3. \A d \in Visible(u) : d.at < now + 1 => d.at < now' + 1
    BY <1>1 DEF Visible, TypeOK, Row
  <2> QED
    BY <1>1, <2>1, <2>2, <2>3 DEF ResolvesIn
<1> QED
  BY <1>1, <1>3, <1>4 DEF LinkInv

LEMMA CommitLinks ==
  ASSUME TypeOK, LinkInv, NEW t \in Txns, Commit(t)
  PROVE  LinkInv'
<1> SUFFICES ASSUME ~tampered' PROVE LinkInv'
  BY DEF LinkInv
<1>1. /\ UNCHANGED <<prev_hash, now, tampered>>
      /\ events' = events \cup pending[t]
      /\ pending'[t] = {} /\ pc'[t] = "done"
      /\ \A u \in Txns \ {t} : pending'[u] = pending[u] /\ pc'[u] = pc[u]
  BY DEF Commit, TypeOK
<1>2. \A u \in Txns \ {t} : Visible(u) \subseteq Visible(u)'
  BY <1>1 DEF Visible
<1>3. ASSUME NEW e \in events' PROVE ResolvesIn(e.prev, e.at, events')
  BY <1>1, ResolvesMonotone DEF LinkInv, Visible
<1>4. ASSUME NEW u \in Txns, NEW e \in pending'[u]
      PROVE  ResolvesIn(e.prev, e.at, Visible(u)')
  BY <1>1, <1>2, ResolvesMonotone DEF LinkInv
<1>5. ASSUME NEW u \in Txns, pc'[u] = "reading"
      PROVE  ResolvesIn(prev_hash'[u], now' + 1, Visible(u)')
  <2>1. u # t /\ ResolvesIn(prev_hash[u], now + 1, Visible(u))
    BY <1>1, <1>5 DEF LinkInv
  <2> QED
    BY <1>1, <1>2, <2>1, ResolvesMonotone
<1> QED
  BY <1>3, <1>4, <1>5 DEF LinkInv

LEMMA RollbackLinks ==
  ASSUME TypeOK, LinkInv, NEW t \in Txns, Rollback(t)
  PROVE  LinkInv'
<1>1. /\ UNCHANGED <<events, prev_hash, now, tampered>>
      /\ pending'[t] = {} /\ pc'[t] = "done"
      /\ \A u \in Txns \ {t} : pending'[u] = pending[u] /\ pc'[u] = pc[u]
  BY DEF Rollback, TypeOK
<1>2. \A u \in Txns \ {t} : Visible(u)' = Visible(u)
  BY <1>1 DEF Visible
<1> QED
  BY <1>1, <1>2 DEF LinkInv

(* Nothing rolled back is ever part of the ledger's links: every committed *)
(* event continues Genesis or an older committed event.                    *)
THEOREM LinksResolve == Spec => []EveryLinkResolves
<1>1. Init => LinkInv
  BY DEF Init, LinkInv
<1>2. TypeOK /\ LinkInv /\ [Next]_vars => LinkInv'
  <2> SUFFICES ASSUME TypeOK, LinkInv, [Next]_vars PROVE LinkInv'
    OBVIOUS
  <2>1. CASE \E t \in Txns : ReadHead(t)
    BY <2>1, ReadHeadLinks
  <2>2. CASE \E t \in Txns, c \in Contents : Insert(t, c)
    BY <2>2, InsertLinks
  <2>3. CASE \E t \in Txns : Commit(t)
    BY <2>3, CommitLinks
  <2>4. CASE \E t \in Txns : Rollback(t)
    BY <2>4, RollbackLinks
  <2>5. CASE \E e \in events : Remove(e) \/ \E c \in Contents : Alter(e, c)
    BY <2>5 DEF Remove, Alter, LinkInv
  <2>6. CASE UNCHANGED vars
    BY <2>6 DEF vars, LinkInv, Visible
  <2> QED
    BY <2>1, <2>2, <2>3, <2>4, <2>5, <2>6 DEF Next
<1>3. LinkInv => EveryLinkResolves
  BY DEF LinkInv, EveryLinkResolves
<1> QED
  BY <1>1, <1>2, <1>3, TypeCorrect, PTL DEF Spec

-----------------------------------------------------------------------------
(* A chain stays one when an event is added that continues it and is newer *)
(* than all of it.                                                         *)
LEMMA ChainExtended ==
  ASSUME NEW S, NEW new, Chained(S), Continues(new.prev, S),
         \A e \in S : e.at < new.at,
         new.at \in Nat, \A e \in S : e.at \in Nat,
         new.hash = EventHash(new.prev, new.content)
  PROVE  Chained(S \cup {new})
<1>1. Earlier(new, S \cup {new}) = S
  BY DEF Earlier
<1>2. \A e \in S : Earlier(e, S \cup {new}) = Earlier(e, S)
  BY DEF Earlier
<1>3. Linked(new, S \cup {new})
  BY <1>1 DEF Linked
<1>4. \A e \in S : Linked(e, S \cup {new})
  BY <1>2 DEF Linked, Chained
<1> QED
  BY <1>3, <1>4 DEF Chained

LEMMA ReadHeadContinues ==
  ASSUME TypeOK, SerialInv, NEW t \in Txns, ReadHead(t)
  PROVE  SerialInv'
<1> SUFFICES ASSUME ~overlapped', ~tampered' PROVE SerialInv'
  BY DEF SerialInv
<1>1. /\ UNCHANGED <<events, pending, now, tampered>>
      /\ ~overlapped /\ Logging \ {t} = {}
      /\ pc[t] \in {"idle", "open"} /\ pc'[t] = "reading"
      /\ \A u \in Txns \ {t} : pc'[u] = pc[u] /\ u \notin Logging
  BY DEF ReadHead, TypeOK
<1>2. Logging' = {t}
  BY <1>1 DEF Logging
<1>3. Chained(events) /\ \A u \in Txns \ {t} : pending[u] = {}
  BY <1>1 DEF SerialInv
<1>4. Chained(Visible(t))
  <2>1. CASE pc[t] = "open"
    BY <1>1, <2>1 DEF SerialInv, Logging
  <2>2. CASE pc[t] = "idle"
    BY <1>1, <2>2 DEF SerialInv, Logging, Visible
  <2> QED
    BY <1>1, <2>1, <2>2
<1>5. Continues(prev_hash'[t], Visible(t))
  BY DEF ReadHead, Continues, TypeOK
<1>6. Visible(t)' = Visible(t)
  BY <1>1 DEF Visible
<1> QED
  BY <1>1, <1>2, <1>3, <1>4, <1>5, <1>6 DEF SerialInv

LEMMA InsertContinues ==
  ASSUME TypeOK, SerialInv, NEW t \in Txns, NEW content \in Contents, Insert(t, content)
  PROVE  SerialInv'
<1> SUFFICES ASSUME ~overlapped', ~tampered' PROVE SerialInv'
  BY DEF SerialInv
<1> DEFINE new == [at |-> now + 1, prev |-> prev_hash[t], content |-> content,
                   hash |-> EventHash(prev_hash[t], content)]
<1>1. /\ UNCHANGED <<events, prev_hash, overlapped, tampered>>
      /\ now \in Nat
      /\ pc[t] = "reading" /\ pc'[t] = "open"
      /\ pending'[t] = pending[t] \cup {new}
      /\ \A u \in Txns \ {t} : pending'[u] = pending[u] /\ pc'[u] = pc[u]
  BY DEF Insert, TypeOK
<1>2. t \in Logging /\ Logging' = Logging
  BY <1>1 DEF Logging
<1>3. Visible(t)' = Visible(t) \cup {new}
  BY <1>1 DEF Visible
<1>4. Chained(Visible(t)')
  <2>1. Chained(Visible(t)) /\ Continues(prev_hash[t], Visible(t))
    BY <1>1, <1>2 DEF SerialInv
  <2>2. \A e \in Visible(t) : e.at \in Nat /\ e.at < now + 1
    BY <1>1 DEF Visible, TypeOK, Row
  <2>3. /\ new.prev = prev_hash[t] /\ new.at = now + 1
        /\ new.hash = EventHash(new.prev, new.content)
    OBVIOUS
  <2> HIDE DEF new
  <2> QED
    BY <1>1, <1>3, <2>1, <2>2, <2>3, ChainExtended
<1> QED
  BY <1>1, <1>2, <1>4 DEF SerialInv

LEMMA EndContinues ==
  ASSUME TypeOK, SerialInv, NEW t \in Txns, Commit(t) \/ Rollback(t)
  PROVE  SerialInv'
<1> SUFFICES ASSUME ~overlapped', ~tampered' PROVE SerialInv'
  BY DEF SerialInv
<1>1. /\ UNCHANGED <<prev_hash, now, overlapped, tampered>>
      /\ events' = events \/ events' = Visible(t)
      /\ t \in Logging
      /\ pending'[t] = {} /\ pc'[t] = "done"
      /\ \A u \in Txns \ {t} : pending'[u] = pending[u] /\ pc'[u] = pc[u]
  BY DEF Commit, Rollback, TypeOK, Visible, Logging
<1>2. Logging' = {} /\ \A u \in Txns \ {t} : u \notin Logging
  BY <1>1 DEF SerialInv, Logging
<1>3. Chained(events')
  BY <1>1 DEF SerialInv
<1> QED
  BY <1>1, <1>2, <1>3 DEF SerialInv

(* verify_chain accepts whatever transactions leave that log one after the *)
(* other, with any number of events each and any of them rolled back.      *)
THEOREM SerialChain == Spec => []SerialChainVerifies
<1>1. Init => SerialInv
  BY DEF Init, SerialInv, Chained, Logging
<1>2. TypeOK /\ SerialInv /\ [Next]_vars => SerialInv'
  <2> SUFFICES ASSUME TypeOK, SerialInv, [Next]_vars PROVE SerialInv'
    OBVIOUS
  <2>1. CASE \E t \in Txns : ReadHead(t)
    BY <2>1, ReadHeadContinues
  <2>2. CASE \E t \in Txns, c \in Contents : Insert(t, c)
    BY <2>2, InsertContinues
  <2>3. CASE \E t \in Txns : Commit(t) \/ Rollback(t)
    BY <2>3, EndContinues
  <2>4. CASE \E e \in events : Remove(e) \/ \E c \in Contents : Alter(e, c)
    BY <2>4 DEF Remove, Alter, SerialInv
  <2>5. CASE UNCHANGED vars
    BY <2>5 DEF vars, SerialInv, Logging, Visible
  <2> QED
    BY <2>1, <2>2, <2>3, <2>4, <2>5 DEF Next
<1>3. SerialInv => SerialChainVerifies
  BY DEF SerialInv, SerialChainVerifies, Verifies
<1> QED
  BY <1>1, <1>2, <1>3, TypeCorrect, PTL DEF Spec

-----------------------------------------------------------------------------
LEMMA HashInvStep == TypeOK /\ HashInv /\ [Next]_vars => HashInv'
<1> SUFFICES ASSUME TypeOK, HashInv, [Next]_vars, ~tampered' PROVE HashInv'
  BY DEF HashInv
<1>0. \A e \in Rows : e.at \in 1..now /\ e.content \in Contents
  BY DEF Rows, TypeOK, Row
<1>1. ASSUME NEW t \in Txns, ReadHead(t) PROVE HashInv'
  <2>1. /\ UNCHANGED <<events, pending, tampered>>
        /\ \A u \in Txns \ {t} : pc'[u] = pc[u] /\ prev_hash'[u] = prev_hash[u]
        /\ \/ prev_hash'[t] = Genesis
           \/ \E e \in Visible(t) : prev_hash'[t] = e.hash
    BY <1>1 DEF ReadHead, TypeOK
  <2>2. Visible(t) \subseteq Rows /\ Rows' = Rows
    BY <2>1 DEF Visible, Rows
  <2>3. ASSUME NEW c \in Contents PROVE prev_hash'[t] # EventHash(prev_hash'[t], c)
    <3>1. CASE prev_hash'[t] = Genesis
      BY <3>1, GenesisAssumption
    <3>2. CASE \E e \in Visible(t) : prev_hash'[t] = e.hash
      <4>1. PICK e \in Rows : prev_hash'[t] = e.hash
        BY <2>2, <3>2
      <4>2. e.hash = EventHash(e.prev, e.content) /\ e.prev # e.hash
        BY <2>1 DEF HashInv
      <4> QED
        BY <4>1, <4>2 DEF EventHash
    <3> QED
      BY <2>1, <3>1, <3>2
  <2> QED
    BY <2>1, <2>2, <2>3 DEF HashInv
<1>2. ASSUME NEW t \in Txns, NEW c \in Contents, Insert(t, c) PROVE HashInv'
  <2> DEFINE new == [at |-> now + 1, prev |-> prev_hash[t], content |-> c,
                     hash |-> EventHash(prev_hash[t], c)]
  <2>1. /\ UNCHANGED <<events, prev_hash, tampered>>
        /\ pc[t] = "reading" /\ pc'[t] = "open"
        /\ pending' = [pending EXCEPT ![t] = @ \cup {new}]
        /\ \A u \in Txns \ {t} : pc'[u] = pc[u]
        /\ now \in Nat
    BY <1>2 DEF Insert, TypeOK
  <2>2. Rows' \subseteq Rows \cup {new}
    BY <2>1 DEF Rows, TypeOK
  <2>3. new.hash = EventHash(new.prev, new.content) /\ new.prev # new.hash
    BY <2>1 DEF HashInv
  <2>4. \A e \in Rows : e.at < new.at
    BY <1>0, <2>1
  <2> HIDE DEF new
  <2>5. \A d, e \in Rows' : d.at = e.at => d = e
    BY <1>0, <2>1, <2>2, <2>4 DEF HashInv
  <2> QED
    BY <2>1, <2>2, <2>3, <2>5 DEF HashInv
<1>3. ASSUME NEW t \in Txns, Commit(t) \/ Rollback(t) PROVE HashInv'
  <2>1. /\ UNCHANGED <<prev_hash, tampered>>
        /\ events' = events \/ events' = events \cup pending[t]
        /\ pending' = [pending EXCEPT ![t] = {}]
        /\ pc'[t] = "done"
        /\ \A u \in Txns \ {t} : pc'[u] = pc[u]
    BY <1>3 DEF Commit, Rollback, TypeOK
  <2>2. Rows' \subseteq Rows
    BY <2>1 DEF Rows, TypeOK
  <2> QED
    BY <2>1, <2>2 DEF HashInv
<1>4. ~ \E e \in events : Remove(e) \/ \E c \in Contents : Alter(e, c)
  BY DEF Remove, Alter
<1>5. CASE UNCHANGED vars
  BY <1>5 DEF vars, HashInv, Rows
<1> QED
  BY <1>1, <1>2, <1>3, <1>4, <1>5 DEF Next

LEMMA LeastElement ==
  ASSUME NEW T, T \subseteq Nat, T # {}
  PROVE  \E m \in T : \A n \in T : m <= n
<1> DEFINE Less == {p \in Nat \X Nat : p[1] < p[2]}
<1>1. IsWellFoundedOn(Less, Nat)
  BY NatLessThanWellFounded DEF OpToRel
<1>2. \A m, n \in Nat : <<n, m>> \notin Less => m <= n
  OBVIOUS
<1> HIDE DEF Less
<1>3. PICK m \in T : \A n \in T : <<n, m>> \notin Less
  BY <1>1, WFMin, Zenon
<1>4. \A n \in T : m <= n
  BY <1>2, <1>3, Zenon
<1> QED
  BY <1>4

(* An event whose content no longer is what its hash was made of.          *)
LEMMA AlterDetected ==
  ASSUME TypeOK, Verifies, NEW e \in events, NEW content \in Contents, Alter(e, content)
  PROVE  ~Verifies'
<1> DEFINE now_e == [e EXCEPT !.content = content]
<1>1. now_e \in events'
  BY DEF Alter
<1>2. /\ DOMAIN e = {"at", "prev", "content", "hash"}
      /\ e.hash = EventHash(e.prev, e.content)
  BY DEF TypeOK, Row, Verifies, Chained
<1>3. now_e.hash = e.hash /\ now_e.prev = e.prev /\ now_e.content = content
  BY <1>2
<1>4. now_e.hash # EventHash(now_e.prev, now_e.content)
  BY <1>2, <1>3 DEF Alter, EventHash
<1> HIDE DEF now_e
<1> QED
  BY <1>1, <1>4 DEF Verifies, Chained

(* The event that followed a removed one names a hash nobody before it has.*)
LEMMA RemoveDetected ==
  ASSUME TypeOK, HashInv, Verifies, NEW e \in events, Remove(e)
  PROVE  ~Verifies'
<1> SUFFICES ASSUME Verifies' PROVE FALSE
  OBVIOUS
<1>1. /\ ~tampered /\ ~IsLatest(e, events)
      /\ events' = events \ {e}
  BY DEF Remove
<1>2. /\ \A d \in events : d.at \in Nat /\ d.content \in Contents
      /\ \A c, d \in events : c.at = d.at => c = d
      /\ \A d \in events : d.hash = EventHash(d.prev, d.content) /\ d.prev # d.hash
  BY <1>1 DEF TypeOK, Row, HashInv, Rows
<1>3. PICK f \in events : f.at > e.at /\ \A d \in events : d.at > e.at => f.at <= d.at
  <2> DEFINE T == {d.at : d \in {c \in events : c.at > e.at}}
  <2>1. T \subseteq Nat /\ T # {}
    BY <1>1, <1>2 DEF IsLatest
  <2>2. PICK m \in T : \A n \in T : m <= n
    <3> HIDE DEF T
    <3> QED
      BY <2>1, LeastElement
  <2> QED
    BY <2>2
<1> DEFINE before == Earlier(f, events)
<1>4. e \in before /\ Earlier(f, events \ {e}) = before \ {e}
  BY <1>2, <1>3 DEF Earlier
<1>5. \A d \in before : d \in events /\ (d = e \/ d.at < e.at)
  BY <1>2, <1>3 DEF Earlier
<1>6. before \ {e} = Earlier(e, events)
  BY <1>2, <1>3, <1>5 DEF Earlier
<1>7. f.prev = e.hash
  <2>1. Linked(f, events)
    BY DEF Verifies, Chained
  <2>2. PICK d \in before : IsLatest(d, before) /\ f.prev = d.hash
    BY <1>4, <2>1 DEF Linked, Continues
  <2>3. d = e
    BY <1>2, <1>4, <1>5, <2>2 DEF IsLatest
  <2> QED
    BY <2>2, <2>3
<1>8. Continues(e.hash, Earlier(e, events))
  <2>1. f \in events' /\ Linked(f, events')
    BY <1>1, <1>2, <1>3 DEF Verifies, Chained
  <2> QED
    BY <1>1, <1>4, <1>6, <1>7, <2>1 DEF Linked
<1>9. Continues(e.prev, Earlier(e, events))
  BY DEF Verifies, Chained, Linked
<1>10. CASE Earlier(e, events) = {}
  <2>1. e.hash = Genesis /\ e.prev = Genesis
    BY <1>8, <1>9, <1>10 DEF Continues
  <2> QED
    BY <1>2, <2>1
<1>11. CASE Earlier(e, events) # {}
  <2>1. PICK c \in Earlier(e, events) : IsLatest(c, Earlier(e, events)) /\ e.hash = c.hash
    BY <1>8, <1>11 DEF Continues
  <2>2. PICK d \in Earlier(e, events) : IsLatest(d, Earlier(e, events)) /\ e.prev = d.hash
    BY <1>9, <1>11 DEF Continues
  <2>3. c = d
    BY <1>2, <2>1, <2>2 DEF IsLatest, Earlier
  <2> QED
    BY <1>2, <2>1, <2>2, <2>3
<1> QED
  BY <1>10, <1>11

(* Whatever overlapped before: a ledger that verify_chain accepts is       *)
(* rejected once a hashed field was changed or an event that others follow *)
(* was deleted.                                                            *)
THEOREM Tampering == Spec => TamperingDetected
<1>1. Init => HashInv
  BY DEF Init, HashInv, Rows
<1>2. TypeOK /\ HashInv /\ [Next]_vars => (Verifies /\ tampered' # tampered => ~Verifies')
  <2> SUFFICES ASSUME TypeOK, HashInv, [Next]_vars, Verifies, tampered' # tampered
               PROVE  ~Verifies'
    OBVIOUS
  <2>1. \E e \in events : Remove(e) \/ \E c \in Contents : Alter(e, c)
    BY DEF Next, vars, ReadHead, Insert, Commit, Rollback
  <2> QED
    BY <2>1, AlterDetected, RemoveDetected
<1> QED
  BY <1>1, <1>2, HashInvStep, TypeCorrect, PTL DEF Spec, TamperingDetected
=============================================================================
