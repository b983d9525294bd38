----------------------------- MODULE AuditChain -----------------------------
(***************************************************************************)
(* The audit ledger of one organization: log_event, called by the services *)
(* inside their own transactions, and verify_chain.                        *)
(*                                                                         *)
(* log_event selects the newest event it can see, puts its hash into the   *)
(* new event and flushes the event; the caller's transaction commits or    *)
(* rolls back later.  Nothing is locked between the select and the commit, *)
(* and READ COMMITTED shows a transaction the committed events and its     *)
(* own.  A step is one of these statements.                                *)
(*                                                                         *)
(* verify_chain and log_event order events by (created_at, id).  Here that *)
(* pair is the number at: created_at is the client's clock at the flush,   *)
(* taken to be one clock that no two flushes read at the same microsecond. *)
(* A definition whose name contains _Broken is a defect put in place of    *)
(* the one that follows it, to see that the properties notice.             *)
(***************************************************************************)
EXTENDS Naturals, FiniteSets

CONSTANTS
    Txns,        \* transactions that log events of the organization
    Contents,    \* what an event says, in the fields its hash covers
    Genesis,     \* GENESIS_HASH
    MaxEvents    \* how many events one transaction logs at most

ASSUME MaxEventsAssumption == MaxEvents \in Nat \ {0}

VARIABLES
    events,      \* the committed rows of audit_events
    pending,     \* the rows each transaction has flushed and not committed
    prev_hash,   \* the hash each transaction read, until its flush
    pc,          \* how far each transaction is
    now,         \* the clock
    overlapped,  \* has a transaction logged while another one was logging?
    tampered     \* was a committed row changed behind the application?

vars == <<events, pending, prev_hash, pc, now, overlapped, tampered>>

(* SHA-256 over the previous hash and the fields, taken to be injective.   *)
EventHash_BrokenNoContent(prev, content) == <<prev>>

EventHash(prev, content) == <<prev, content>>

(* GENESIS_HASH has letters that no hexadecimal digest has.                *)
ASSUME GenesisAssumption == \A c \in Contents : Genesis # EventHash(Genesis, c)

-----------------------------------------------------------------------------
Visible_BrokenDirty(t) == events \cup UNION {pending[u] : u \in Txns}

Visible(t) == events \cup pending[t]

(* The first row of a set in the order desc(created_at), desc(id).         *)
IsLatest(e, S) == e \in S /\ \A d \in S : d.at <= e.at

Logging == {u \in Txns : pc[u] \in {"reading", "open"}}

Init ==
    /\ events = {}
    /\ pending = [t \in Txns |-> {}]
    /\ prev_hash = [t \in Txns |-> Genesis]
    /\ pc = [t \in Txns |-> "idle"]
    /\ now = 0
    /\ overlapped = FALSE
    /\ tampered = FALSE

(* The select of log_event.                                                *)
ReadHead_BrokenOldest(t) ==
    /\ pc[t] \in {"idle", "open"}
    /\ Cardinality(pending[t]) < MaxEvents
    /\ IF Visible(t) = {} THEN prev_hash' = [prev_hash EXCEPT ![t] = Genesis]
       ELSE \E e \in Visible(t) : /\ \A d \in Visible(t) : e.at <= d.at
                                  /\ prev_hash' = [prev_hash EXCEPT ![t] = e.hash]
    /\ pc' = [pc EXCEPT ![t] = "reading"]
    /\ overlapped' = (overlapped \/ Logging \ {t} # {})
    /\ UNCHANGED <<events, pending, now, tampered>>

ReadHead(t) ==
    /\ pc[t] \in {"idle", "open"}
    /\ Cardinality(pending[t]) < MaxEvents
    /\ \/ /\ Visible(t) = {}
          /\ prev_hash' = [prev_hash EXCEPT ![t] = Genesis]
       \/ \E e \in Visible(t) :
             /\ IsLatest(e, Visible(t))
             /\ prev_hash' = [prev_hash EXCEPT ![t] = e.hash]
    /\ pc' = [pc EXCEPT ![t] = "reading"]
    /\ overlapped' = (overlapped \/ Logging \ {t} # {})
    /\ UNCHANGED <<events, pending, now, tampered>>

Insert_BrokenAhead(t, content) ==
    /\ pc[t] = "reading"
    /\ now' = now + 1
    /\ pending' = [pending EXCEPT ![t] = @ \cup
                     {[at |-> now + 2, prev |-> prev_hash[t], content |-> content,
                       hash |-> EventHash(prev_hash[t], content)]}]
    /\ pc' = [pc EXCEPT ![t] = "open"]
    /\ UNCHANGED <<events, prev_hash, overlapped, tampered>>

(* The flush of log_event.                                                 *)
Insert(t, content) ==
    /\ pc[t] = "reading"
    /\ now' = now + 1
    /\ pending' = [pending EXCEPT ![t] = @ \cup
                     {[at |-> now + 1, prev |-> prev_hash[t], content |-> content,
                       hash |-> EventHash(prev_hash[t], content)]}]
    /\ pc' = [pc EXCEPT ![t] = "open"]
    /\ UNCHANGED <<events, prev_hash, overlapped, tampered>>

(* The caller's transaction commits, with the events of all its calls ...  *)
Commit(t) ==
    /\ pc[t] = "open"
    /\ events' = events \cup pending[t]
    /\ pending' = [pending EXCEPT ![t] = {}]
    /\ pc' = [pc EXCEPT ![t] = "done"]
    /\ UNCHANGED <<prev_hash, now, overlapped, tampered>>

(* ... or raises after it has logged, or its process dies.                 *)
Rollback(t) ==
    /\ t \in Logging
    /\ pending' = [pending EXCEPT ![t] = {}]
    /\ pc' = [pc EXCEPT ![t] = "done"]
    /\ UNCHANGED <<events, prev_hash, now, overlapped, tampered>>

-----------------------------------------------------------------------------
(* What the tests do to a stored row with plain SQL: change a field the    *)
(* hash covers, or delete an event that others follow.                     *)
Alter(e, content) ==
    /\ ~tampered
    /\ content # e.content
    /\ events' = (events \ {e}) \cup {[e EXCEPT !.content = content]}
    /\ tampered' = TRUE
    /\ UNCHANGED <<pending, prev_hash, pc, now, overlapped>>

Remove(e) ==
    /\ ~tampered
    /\ ~IsLatest(e, events)
    /\ events' = events \ {e}
    /\ tampered' = TRUE
    /\ UNCHANGED <<pending, prev_hash, pc, now, overlapped>>

Next ==
    \/ \E t \in Txns : \/ ReadHead(t)
                       \/ \E c \in Contents : Insert(t, c)
                       \/ Commit(t)
                       \/ Rollback(t)
    \/ \E e \in events : \/ \E c \in Contents : Alter(e, c)
                         \/ Remove(e)

Spec == Init /\ [][Next]_vars

-----------------------------------------------------------------------------
(* verify_chain: each event in order must name the hash of the one before  *)
(* it, the first one Genesis, and its hash must be the hash of its fields. *)
Continues(prev, S) == \/ S = {} /\ prev = Genesis
                      \/ \E d \in S : IsLatest(d, S) /\ prev = d.hash

Earlier(e, S) == {d \in S : d.at < e.at}

Linked(e, S) == Continues(e.prev, Earlier(e, S))

Chained(S) == \A e \in S : Linked(e, S) /\ e.hash = EventHash(e.prev, e.content)

Verifies_BrokenLinksOnly == \A e \in events : Linked(e, events)

Verifies == Chained(events)

-----------------------------------------------------------------------------
Row(S) == \A e \in S : /\ DOMAIN e = {"at", "prev", "content", "hash"}
                       /\ e.at \in 1..now
                       /\ e.content \in Contents

(* The rows have the columns modelled, and no timestamp is in the future.  *)
TypeOK ==
    /\ Row(events)
    /\ \A t \in Txns : Row(pending[t])
    /\ DOMAIN pending = Txns /\ DOMAIN prev_hash = Txns
    /\ pc \in [Txns -> {"idle", "reading", "open", "done"}]
    /\ now \in Nat
    /\ overlapped \in BOOLEAN
    /\ tampered \in BOOLEAN

(* An event of hash prev, older than at, is in S.                          *)
ResolvesIn(prev, at, S) == prev = Genesis \/ \E d \in S : d.at < at /\ d.hash = prev

(* However transactions overlap and whichever of them roll back, every     *)
(* committed event links to Genesis or to an older committed event: the    *)
(* ledger is a tree, and no event continues one that was rolled back.      *)
EveryLinkResolves ==
    ~tampered => \A e \in events : ResolvesIn(e.prev, e.at, events)

(* Why, as an inductive invariant: what a transaction sees only grows until*)
(* it ends, so the event it read is there when its own events commit.      *)
LinkInv ==
    ~tampered =>
        /\ \A e \in events : ResolvesIn(e.prev, e.at, events)
        /\ \A t \in Txns :
              /\ \A e \in pending[t] : ResolvesIn(e.prev, e.at, Visible(t))
              /\ pc[t] = "reading" => ResolvesIn(prev_hash[t], now + 1, Visible(t))

(* As long as no two transactions log at the same time, verify_chain       *)
(* accepts the ledger, whatever is rolled back and however many events a   *)
(* transaction logs.                                                       *)
SerialChainVerifies == ~overlapped /\ ~tampered => Verifies

(* Why, as an inductive invariant: the one transaction that logs extends   *)
(* the chain it sees, and what it sees becomes the ledger when it commits. *)
SerialInv ==
    ~overlapped /\ ~tampered =>
        /\ Chained(events)
        /\ \A t, u \in Logging : t = u
        /\ \A t \in Txns \ Logging : pending[t] = {}
        /\ \A t \in Logging :
              /\ Chained(Visible(t))
              /\ pc[t] = "reading" => Continues(prev_hash[t], Visible(t))

(* Changing a hashed field of an event, or deleting one that others        *)
(* follow, makes verify_chain reject a ledger it accepted (the tests       *)
(* test_tampered_payload_detected, test_deleted_event_chain_break_detected)*)
TamperingDetected == [][Verifies /\ tampered' # tampered => ~Verifies']_vars

(* Why, as an inductive invariant: two rows never have one place in the    *)
(* order, and no row is its own predecessor, although rows of overlapping  *)
(* transactions may have one hash.                                         *)
Rows == events \cup UNION {pending[t] : t \in Txns}

HashInv ==
    ~tampered =>
        /\ \A d, e \in Rows : d.at = e.at => d = e
        /\ \A e \in Rows : e.hash = EventHash(e.prev, e.content) /\ e.prev # e.hash
        /\ \A t \in Txns : pc[t] = "reading" =>
              \A c \in Contents : prev_hash[t] # EventHash(prev_hash[t], c)

(* What docs/PRD_TRD.md says of the ledger: the chain stays contiguous.    *)
ChainContiguous == ~tampered => Verifies
=============================================================================
