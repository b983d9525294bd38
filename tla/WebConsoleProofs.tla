--------------------------- MODULE WebConsoleProofs ---------------------------
(***************************************************************************)
(* Proofs about WebConsole, for any names, environments, profiles, seed    *)
(* data and number of copies: what histories, trail and dialogs show       *)
(* agrees after every sequence of clicks.                                  *)
(*                                                                         *)
(* Every step either leaves secrets, trail and user alone, or writes one   *)
(* event (Logs) and with it changes at most one secret (Writes).  What the *)
(* properties need beyond themselves is that numbers are drawn in order    *)
(* (Drawn), and that an event, and a copy that is under way, refer to a    *)
(* trail that has only grown since (ClickedBefore, Named).                 *)
(***************************************************************************)
EXTENDS WebConsole, FiniteSetTheorems, SequenceTheorems, WellFoundedInduction,
        TLAPS

Switches == {"user.profile.switch", "user.profile.create"}

Drawn ==
    /\ \A s \in secrets :
          /\ s.id <= globalSeqCounter
          /\ \A v \in DOMAIN s.versions : s.versions[v].value <= globalSeqCounter
    /\ \A i \in DOMAIN auditLogs : auditLogs[i].id <= globalSeqCounter

ClickedBefore == \A n \in DOMAIN auditLogs : Oldest(n).clicked < n

Named(c) ==
    copying[c] # None =>
        /\ copying[c].clicked <= Len(auditLogs)
        /\ copying[c].user.name = UserAfter(copying[c].clicked)

NamesInv == ClickedBefore /\ EveryEventNamesItsUser /\ \A c \in Copies : Named(c)

SecretsInv == HistoryTruthful /\ Drawn /\ IsFiniteSet(secrets) /\ LedgerBalances

IInv == TypeOK /\ SecretsInv /\ NamesInv /\ SnapshotCurrent

(* One event is written, by the user of the click it stands for.           *)
Logs(e) ==
    /\ e \in AuditLog
    /\ auditLogs' = <<e>> \o auditLogs
    /\ e.id = globalSeqCounter' /\ e.id \in globalSeqCounter + 1 .. MaxId
    /\ e.clicked <= Len(auditLogs)
    /\ e.actor = UserAfter(e.clicked)
    /\ IF e.action \in Switches THEN currentUser'.name = e.resource
                                ELSE currentUser' = currentUser
    /\ \A c \in Copies : copying'[c] \in {copying[c], None}

(* What it says of the secrets: a version is only added whose value, if    *)
(* generated, was drawn by this step.                                      *)
Added(e, s) ==
    /\ e.action = "secret.create" /\ e.resource = s.key
    /\ s.id \in globalSeqCounter + 1 .. globalSeqCounter'
    /\ secrets' = secrets \cup {s}

Replaced(e, old, new) ==
    /\ e.action \in {"secret.rotate", "secret.rollback"} /\ e.resource = old.key
    /\ new.id = old.id /\ new.key = old.key
    /\ secrets' = (secrets \ {old}) \cup {new}

Removed(e, s) ==
    /\ e.action = "secret.delete" /\ e.resource = s.key
    /\ secrets' = secrets \ {s}

Sound(s) ==
    /\ s \in Secret /\ Truthful(s)
    /\ \A v \in DOMAIN s.versions : s.versions[v].value <= globalSeqCounter'

Writes(e) ==
    \/ e.action \notin {"secret.create", "secret.delete"} /\ secrets' = secrets
    \/ \E s \in Secret : Sound(s) /\ Added(e, s)
    \/ \E old \in secrets, new \in Secret : Sound(new) /\ Replaced(e, old, new)
    \/ \E s \in secrets : Removed(e, s)

-----------------------------------------------------------------------------
(* One more event: the older ones keep their places from the end.          *)
LEMMA TrailGrows ==
  ASSUME TypeOK, NEW e \in AuditLog, auditLogs' = <<e>> \o auditLogs,
         NEW k, k = Len(auditLogs)
  PROVE  /\ k \in Nat /\ Len(auditLogs') = k + 1
         /\ DOMAIN auditLogs = 1 .. k /\ DOMAIN auditLogs' = 1 .. k + 1
         /\ auditLogs' \in Seq(AuditLog)
         /\ \A n \in 1 .. k : Oldest(n) \in AuditLog /\ Oldest(n)' = Oldest(n)
         /\ Oldest(k + 1)' = e
         /\ Head(auditLogs') = e /\ Tail(auditLogs') = auditLogs /\ auditLogs' # auditLogs
<1>1. auditLogs \in Seq(AuditLog) /\ <<e>> \in Seq(AuditLog)
  BY DEF TypeOK
<1>2. /\ k \in Nat /\ Len(auditLogs') = k + 1
      /\ DOMAIN auditLogs = 1 .. k /\ DOMAIN auditLogs' = 1 .. k + 1
      /\ auditLogs' \in Seq(AuditLog)
  BY <1>1
<1>3. auditLogs'[1] = e /\ \A i \in 1 .. k : auditLogs'[i + 1] = auditLogs[i]
  BY <1>1
<1>4. ASSUME NEW n \in 1 .. k PROVE Oldest(n) \in AuditLog /\ Oldest(n)' = Oldest(n)
  <2>1. k + 1 - n \in 1 .. k /\ Len(auditLogs') + 1 - n = (k + 1 - n) + 1
    BY <1>2
  <2> QED
    BY <1>1, <1>3, <2>1 DEF Oldest
<1>5. Oldest(k + 1)' = e
  <2>1. Len(auditLogs') + 1 - (k + 1) = 1
    BY <1>2
  <2> QED
    BY <1>3, <2>1 DEF Oldest
<1>6. auditLogs' # <<>>
  BY <1>2
<1>7. Head(auditLogs') = e /\ Tail(auditLogs') \in Seq(AuditLog) /\ Len(Tail(auditLogs')) = k
      /\ \A i \in 1 .. k : Tail(auditLogs')[i] = auditLogs'[i + 1]
  BY <1>2, <1>3, <1>6
<1>8. Tail(auditLogs') = auditLogs
  BY <1>1, <1>3, <1>7, SeqEqual
<1> QED
  BY <1>2, <1>4, <1>5, <1>7, <1>8

LEMMA GreatestElement ==
  ASSUME NEW n \in Nat, NEW T, T \subseteq 1 .. n, T # {}
  PROVE  \E m \in T : \A k \in T : k <= m
<1> DEFINE Greater == {p \in Nat \X Nat : p[1] < p[2]}
           U == {n - m : m \in T}
<1>1. IsWellFoundedOn(Greater, Nat)
  BY NatLessThanWellFounded DEF OpToRel
<1>2. \A i, j \in Nat : <<j, i>> \notin Greater => i <= j
  OBVIOUS
<1> HIDE DEF Greater
<1>3. U \subseteq Nat /\ U # {}
  <2>1. \A m \in T : m \in 1 .. n
    OBVIOUS
  <2>2. \A m \in 1 .. n : n - m \in Nat
    OBVIOUS
  <2>3. PICK m \in T : TRUE
    OBVIOUS
  <2>4. n - m \in U
    BY <2>3
  <2> QED
    BY <2>1, <2>2, <2>4
<1>4. PICK i \in U : \A j \in U : <<j, i>> \notin Greater
  <2> HIDE DEF U
  <2> QED
    BY <1>1, <1>3, WFMin, Zenon
<1>5. \A j \in U : i <= j
  BY <1>2, <1>3, <1>4, Zenon
<1>6. PICK m \in T : i = n - m
  OBVIOUS
<1>7. ASSUME NEW k \in T PROVE k <= m
  <2>1. n - k \in U
    OBVIOUS
  <2>2. n - m <= n - k
    BY <1>5, <1>6, <2>1
  <2>3. m \in Int /\ k \in Int
    OBVIOUS
  <2> HIDE DEF U
  <2> QED
    BY <2>2, <2>3
<1> QED
  BY <1>7

(* The same of any trail: who was active after n of its events depends on  *)
(* those n only ...                                                        *)
Nth(logs, n) == logs[Len(logs) + 1 - n]

Switched(logs, n) == {m \in 1 .. n : Nth(logs, m).action \in Switches}

UserOf(logs, switches) ==
    IF switches = {} THEN InitialProfiles[1].name
    ELSE Nth(logs, CHOOSE m \in switches : \A k \in switches : k <= m).resource

UserIn(logs, n) == UserOf(logs, Switched(logs, n))

LEMMA UserOfTrail ==
  ASSUME NEW n
  PROVE  UserAfter(n) = UserIn(auditLogs, n) /\ UserAfter(n)' = UserIn(auditLogs', n)
<1>1. UserAfter(n) = UserIn(auditLogs, n)
  BY Zenon DEF UserAfter, UserIn, UserOf, Switched, Nth, Oldest, Switches
<1>2. UserAfter(n)' = UserIn(auditLogs', n)
  BY Zenon DEF UserAfter, UserIn, UserOf, Switched, Nth, Oldest, Switches
<1> QED
  BY <1>1, <1>2

NamesOf(logs, user) ==
    /\ \A n \in DOMAIN logs : Nth(logs, n).actor = UserIn(logs, Nth(logs, n).clicked)
    /\ user.name = UserIn(logs, Len(logs))

LEMMA NamesOfTrail ==
  /\ EveryEventNamesItsUser <=> NamesOf(auditLogs, currentUser)
  /\ EveryEventNamesItsUser' <=> NamesOf(auditLogs', currentUser')
<1>1. EveryEventNamesItsUser <=> NamesOf(auditLogs, currentUser)
  BY Zenon DEF EveryEventNamesItsUser, NamesOf, UserAfter, UserIn, UserOf, Switched, Nth,
               Oldest, Switches
<1>2. EveryEventNamesItsUser' <=> NamesOf(auditLogs', currentUser')
  BY Zenon DEF EveryEventNamesItsUser, NamesOf, UserAfter, UserIn, UserOf, Switched, Nth,
               Oldest, Switches
<1> QED
  BY <1>1, <1>2

LEMMA UserStays ==
  ASSUME NEW logs, NEW more, NEW n \in Nat,
         \A m \in 1 .. n : Nth(more, m) = Nth(logs, m)
  PROVE  UserIn(more, n) = UserIn(logs, n)
<1> DEFINE T == Switched(logs, n)
<1>1. Switched(more, n) = T /\ T \subseteq 1 .. n
  BY DEF Switched
<1>2. CASE T = {}
  BY <1>1, <1>2 DEF UserIn, UserOf
<1>3. CASE T # {}
  <2> DEFINE last == CHOOSE m \in T : \A k \in T : k <= m
  <2> HIDE DEF T
  <2>1. \E m \in T : \A k \in T : k <= m
    BY <1>1, <1>3, GreatestElement
  <2>2. last \in T
    BY <2>1
  <2>3. UserIn(logs, n) = Nth(logs, last).resource
    BY <1>3, Zenon DEF UserIn, UserOf, T
  <2>4. UserIn(more, n) = Nth(more, last).resource
    BY <1>1, <1>3, Zenon DEF UserIn, UserOf
  <2> HIDE DEF last
  <2> QED
    BY <1>1, <2>2, <2>3, <2>4
<1> QED
  BY <1>2, <1>3

(* ... and on the latest of them, if that is a switch.                     *)
LEMMA UserNext ==
  ASSUME NEW logs, NEW n \in Nat
  PROVE  UserIn(logs, n + 1) = IF Nth(logs, n + 1).action \in Switches
                               THEN Nth(logs, n + 1).resource ELSE UserIn(logs, n)
<1> DEFINE T == Switched(logs, n + 1)
<1>1. CASE Nth(logs, n + 1).action \in Switches
  <2> DEFINE last == CHOOSE m \in T : \A k \in T : k <= m
  <2>1. n + 1 \in T /\ T \subseteq 1 .. n + 1
    BY <1>1 DEF Switched
  <2>2. UserIn(logs, n + 1) = Nth(logs, last).resource
    BY <2>1, Zenon DEF UserIn, UserOf
  <2> HIDE DEF T
  <2>3. \E m \in T : \A k \in T : k <= m
    BY <2>1
  <2>4. last \in T /\ \A k \in T : k <= last
    BY <2>3
  <2> HIDE DEF last
  <2>5. last = n + 1
    BY <2>1, <2>4
  <2> QED
    BY <1>1, <2>2, <2>5
<1>2. CASE Nth(logs, n + 1).action \notin Switches
  <2>1. T = Switched(logs, n)
    BY <1>2 DEF Switched
  <2>2. UserIn(logs, n + 1) = UserIn(logs, n)
    BY <2>1, Zenon DEF UserIn
  <2> QED
    BY <1>2, <2>2
<1> QED
  BY <1>1, <1>2

(* An event in the name of its click's user keeps every event's name right.*)
LEMMA NamesStep ==
  ASSUME IInv, NEW e, Logs(e)
  PROVE  NamesInv'
<1> DEFINE logs == auditLogs  more == auditLogs'
<1>1. PICK n : n = Len(auditLogs)
  OBVIOUS
<1>2. /\ e \in AuditLog /\ auditLogs' = <<e>> \o auditLogs
      /\ e.clicked \in Nat /\ e.clicked <= n /\ e.actor = UserAfter(e.clicked)
      /\ TypeOK
  BY <1>1 DEF Logs, AuditLog, IInv
<1>3. /\ n \in Nat /\ Len(auditLogs') = n + 1
      /\ DOMAIN auditLogs = 1 .. n /\ DOMAIN auditLogs' = 1 .. n + 1
      /\ \A m \in 1 .. n : Nth(logs, m) \in AuditLog /\ Nth(more, m) = Nth(logs, m)
      /\ Nth(more, n + 1) = e
  BY <1>1, <1>2, TrailGrows DEF Oldest, Nth
<1>4. \A m \in 0 .. n : UserIn(more, m) = UserIn(logs, m)
  <2> SUFFICES ASSUME NEW m \in 0 .. n PROVE UserIn(more, m) = UserIn(logs, m)
    OBVIOUS
  <2>1. m \in Nat /\ \A k \in 1 .. m : Nth(more, k) = Nth(logs, k)
    BY <1>3
  <2> QED
    BY <2>1, UserStays
<1>5. UserIn(more, n + 1) = IF e.action \in Switches THEN e.resource ELSE UserIn(logs, n)
  BY <1>3, <1>4, UserNext
<1>6. /\ \A m \in 1 .. n : /\ Nth(logs, m).clicked \in Nat /\ Nth(logs, m).clicked < m
                           /\ Nth(logs, m).actor = UserIn(logs, Nth(logs, m).clicked)
      /\ currentUser.name = UserIn(logs, n)
  <2>1. ASSUME NEW m \in 1 .. n
        PROVE  Oldest(m).clicked < m /\ Oldest(m).actor = UserAfter(Oldest(m).clicked)
    BY <1>3 DEF IInv, NamesInv, ClickedBefore, EveryEventNamesItsUser
  <2>2. currentUser.name = UserAfter(n)
    BY <1>1 DEF IInv, NamesInv, EveryEventNamesItsUser
  <2>3. \A m : Oldest(m) = Nth(logs, m)
    BY DEF Oldest, Nth
  <2> QED
    BY <1>3, <2>1, <2>2, <2>3, UserOfTrail DEF AuditLog
<1>7. e.actor = UserIn(logs, e.clicked)
  BY <1>2, UserOfTrail
<1>8. \A m \in 1 .. n + 1 : /\ Nth(more, m).clicked \in Nat /\ Nth(more, m).clicked < m
                            /\ Nth(more, m).actor = UserIn(more, Nth(more, m).clicked)
  <2> SUFFICES ASSUME NEW m \in 1 .. n + 1
               PROVE  /\ Nth(more, m).clicked \in Nat /\ Nth(more, m).clicked < m
                      /\ Nth(more, m).actor = UserIn(more, Nth(more, m).clicked)
    OBVIOUS
  <2> HIDE DEF logs, more
  <2>1. CASE m = n + 1
    <3>1. e.clicked \in 0 .. n
      BY <1>2, <1>3
    <3> QED
      BY <1>2, <1>3, <1>4, <1>7, <2>1, <3>1
  <2>2. CASE m \in 1 .. n
    <3>1. Nth(logs, m).clicked \in 0 .. n
      BY <1>3, <1>6, <2>2
    <3> QED
      BY <1>3, <1>4, <1>6, <2>2, <3>1
  <2> QED
    BY <1>3, <2>1, <2>2
<1>9. currentUser'.name = UserIn(more, n + 1)
  BY <1>5, <1>6 DEF Logs
<1>10. ClickedBefore' /\ EveryEventNamesItsUser'
  <2>1. ClickedBefore'
    BY <1>3, <1>8 DEF ClickedBefore, Oldest, Nth
  <2>2. NamesOf(auditLogs', currentUser')
    BY <1>3, <1>8, <1>9 DEF NamesOf
  <2> QED
    BY <2>1, <2>2, NamesOfTrail
<1>11. ASSUME NEW c \in Copies PROVE Named(c)'
  <2> SUFFICES ASSUME copying'[c] # None
               PROVE  /\ copying'[c].clicked <= Len(auditLogs')
                      /\ copying'[c].user.name = UserIn(more, copying'[c].clicked)
    BY UserOfTrail DEF Named
  <2>1. copying'[c] = copying[c] /\ copying[c] # None /\ copying[c] \in Copy
    BY DEF Logs, IInv, TypeOK
  <2>2. /\ copying[c].clicked <= n /\ copying[c].clicked \in Nat
        /\ copying[c].user.name = UserIn(logs, copying[c].clicked)
    BY <1>1, <2>1, UserOfTrail DEF IInv, NamesInv, Named, Copy
  <2>3. copying[c].clicked \in 0 .. n
    BY <1>3, <2>2
  <2> QED
    BY <1>3, <1>4, <2>1, <2>2, <2>3
<1> QED
  BY <1>10, <1>11 DEF NamesInv

-----------------------------------------------------------------------------
(* One more event is at most one more of the events of a kind.             *)
LEMMA EventsGrow ==
  ASSUME TypeOK, NEW e \in AuditLog, auditLogs' = <<e>> \o auditLogs,
         NEW action, NEW key
  PROVE  /\ Cardinality(Events(action, key)) \in Nat
         /\ Cardinality(Events(action, key)')
              = IF e.action = action /\ e.resource = key
                THEN Cardinality(Events(action, key)) + 1
                ELSE Cardinality(Events(action, key))
<1> DEFINE logs == auditLogs  more == auditLogs'
           old == Events(action, key)  new == Events(action, key)'
<1>1. PICK n : n = Len(auditLogs)
  OBVIOUS
<1>2. /\ n \in Nat /\ DOMAIN logs = 1 .. n /\ DOMAIN more = 1 .. n + 1
      /\ \A m \in 1 .. n : Nth(more, m) = Nth(logs, m)
      /\ Nth(more, n + 1) = e
  BY <1>1, TrailGrows DEF Oldest, Nth
<1>3. old = {m \in 1 .. n : Nth(logs, m).action = action /\ Nth(logs, m).resource = key}
  BY <1>2, Zenon DEF Events, Oldest, Nth
<1>4. new = {m \in 1 .. n + 1 : Nth(more, m).action = action /\ Nth(more, m).resource = key}
  BY <1>2, Zenon DEF Events, Oldest, Nth
<1> HIDE DEF logs, more, old, new
<1>5. IsFiniteSet(old) /\ Cardinality(old) \in Nat /\ n + 1 \notin old
  <2>1. old \subseteq 1 .. n
    BY <1>3
  <2>2. IsFiniteSet(1 .. n)
    BY <1>2, FS_Interval
  <2>3. IsFiniteSet(old)
    BY <2>1, <2>2, FS_Subset
  <2> QED
    BY <1>2, <2>1, <2>3, FS_CardinalityType
<1>6. CASE e.action = action /\ e.resource = key
  <2>1. new = old \cup {n + 1}
    BY <1>2, <1>3, <1>4, <1>6
  <2>2. Cardinality(new) = Cardinality(old) + 1
    BY <1>5, <2>1, FS_AddElement
  <2> QED
    BY <1>5, <1>6, <2>2, Zenon DEF old, new
<1>7. CASE ~(e.action = action /\ e.resource = key)
  <2>1. new = old
    BY <1>2, <1>3, <1>4, <1>7
  <2> QED
    BY <1>5, <1>7, <2>1 DEF old, new
<1> QED
  BY <1>6, <1>7

One(s, key) == IF s.key = key THEN 1 ELSE 0

(* The secrets of a name, when one is added or removed.                    *)
LEMMA HavingAdded ==
  ASSUME NEW S, IsFiniteSet(S), NEW s, s \notin S, NEW key
  PROVE  Cardinality(Having(S \cup {s}, key)) = Cardinality(Having(S, key)) + One(s, key)
<1>1. IsFiniteSet(Having(S, key)) /\ s \notin Having(S, key)
  BY FS_Subset DEF Having
<1>2. Cardinality(Having(S, key)) \in Nat
  BY <1>1, FS_CardinalityType
<1>3. CASE s.key = key
  <2>1. Having(S \cup {s}, key) = Having(S, key) \cup {s}
    BY <1>3 DEF Having
  <2> QED
    BY <1>1, <1>3, <2>1, FS_AddElement DEF One
<1>4. CASE s.key # key
  <2>1. Having(S \cup {s}, key) = Having(S, key)
    BY <1>4 DEF Having
  <2> QED
    BY <1>2, <1>4, <2>1 DEF One
<1> QED
  BY <1>3, <1>4

LEMMA HavingRemoved ==
  ASSUME NEW S, IsFiniteSet(S), NEW s \in S, NEW key
  PROVE  Cardinality(Having(S \ {s}, key)) = Cardinality(Having(S, key)) - One(s, key)
<1> DEFINE R == S \ {s}
<1>1. IsFiniteSet(R) /\ s \notin R /\ S = R \cup {s}
  BY FS_Subset
<1> HIDE DEF R
<1>2. Cardinality(Having(S, key)) = Cardinality(Having(R, key)) + One(s, key)
  BY <1>1, HavingAdded
<1>3. Cardinality(Having(R, key)) \in Nat
  BY <1>1, FS_Subset, FS_CardinalityType DEF Having
<1> QED
  BY <1>2, <1>3 DEF R, One

(* An event that says what changed keeps the ledger balanced.              *)
LEMMA LedgerStep ==
  ASSUME IInv, NEW e, Logs(e), Writes(e), NEW key \in Keys
  PROVE  Cardinality(Having(secrets', key)) + Cardinality(Events("secret.delete", key)')
           = Cardinality(Having(InitialSecrets, key))
             + Cardinality(Events("secret.create", key)')
<1> DEFINE h == Cardinality(Having(secrets, key))
           hh == Cardinality(Having(secrets', key))
           i == Cardinality(Having(InitialSecrets, key))
           d == Cardinality(Events("secret.delete", key))
           dd == Cardinality(Events("secret.delete", key)')
           c == Cardinality(Events("secret.create", key))
           cc == Cardinality(Events("secret.create", key)')
           one(action) == IF e.action = action /\ e.resource = key THEN 1 ELSE 0
<1>1. e \in AuditLog /\ auditLogs' = <<e>> \o auditLogs /\ TypeOK
  BY DEF Logs, IInv
<1>2. d \in Nat /\ dd = d + one("secret.delete")
  BY <1>1, EventsGrow
<1>3. c \in Nat /\ cc = c + one("secret.create")
  BY <1>1, EventsGrow
<1>4. IsFiniteSet(secrets) /\ h + d = i + c
  BY DEF IInv, SecretsInv, LedgerBalances
<1>5. h \in Nat /\ i \in Nat
  BY <1>4, SeedAssumption, FS_Subset, FS_CardinalityType DEF Having
<1>6. hh = h + one("secret.create") - one("secret.delete")
  <2>1. CASE e.action \notin {"secret.create", "secret.delete"} /\ secrets' = secrets
    BY <1>5, <2>1
  <2>2. CASE \E s \in Secret : Sound(s) /\ Added(e, s)
    <3>1. PICK s \in Secret : Added(e, s)
      BY <2>2
    <3>2. s \notin secrets
      BY <3>1 DEF Added, IInv, TypeOK, SecretsInv, Drawn, Secret
    <3>3. hh = h + One(s, key)
      BY <1>4, <3>1, <3>2, HavingAdded DEF Added
    <3> QED
      BY <1>5, <3>1, <3>3 DEF Added, One
  <2>3. CASE \E old \in secrets, new \in Secret : Sound(new) /\ Replaced(e, old, new)
    <3>1. PICK old \in secrets, new \in Secret : Replaced(e, old, new)
      BY <2>3
    <3>2. new \notin secrets \ {old} /\ IsFiniteSet(secrets \ {old})
      BY <1>4, <3>1, FS_Subset DEF Replaced, IInv, SecretsInv, HistoryTruthful
    <3>3. Cardinality(Having(secrets \ {old}, key)) = h - One(old, key)
      BY <1>4, HavingRemoved
    <3>4. hh = Cardinality(Having(secrets \ {old}, key)) + One(new, key)
      BY <3>1, <3>2, HavingAdded DEF Replaced
    <3> QED
      BY <1>5, <3>1, <3>3, <3>4 DEF Replaced, One
  <2>4. CASE \E s \in secrets : Removed(e, s)
    <3>1. PICK s \in secrets : Removed(e, s)
      BY <2>4
    <3>2. hh = h - One(s, key)
      BY <1>4, <3>1, HavingRemoved DEF Removed
    <3> QED
      BY <1>5, <3>1, <3>2 DEF Removed, One
  <2> QED
    BY <2>1, <2>2, <2>3, <2>4 DEF Writes
<1> HIDE DEF h, hh, i, d, dd, c, cc
<1> QED
  BY <1>2, <1>3, <1>4, <1>5, <1>6 DEF h, hh, i, d, dd, c, cc

(* What is written down of a secret is sound, and ids stay their own.      *)
LEMMA SecretsStep ==
  ASSUME IInv, NEW e, Logs(e), Writes(e)
  PROVE  secrets' \subseteq Secret /\ SecretsInv'
<1> USE DEF IInv, SecretsInv
<1>1. /\ globalSeqCounter \in Nat /\ globalSeqCounter' \in Nat
      /\ globalSeqCounter' > globalSeqCounter
  BY DEF Logs, TypeOK, FirstId
<1>2. /\ \A s \in secrets : s \in Secret /\ Truthful(s) /\ s.id <= globalSeqCounter
      /\ \A s, t \in secrets : s.id = t.id => s = t
      /\ \A s \in secrets : \A v \in DOMAIN s.versions :
            s.versions[v].value <= globalSeqCounter
  BY DEF TypeOK, HistoryTruthful, Drawn
<1>3. \A s \in secrets : Sound(s) /\ s.id <= globalSeqCounter'
  <2> SUFFICES ASSUME NEW s \in secrets PROVE Sound(s) /\ s.id <= globalSeqCounter'
    OBVIOUS
  <2>1. s \in Secret /\ Truthful(s) /\ s.id \in Nat /\ s.id <= globalSeqCounter
    BY <1>2 DEF Secret
  <2>2. ASSUME NEW v \in DOMAIN s.versions
        PROVE  s.versions[v].value <= globalSeqCounter'
    <3>1. s.versions \in Seq(SecretVersion)
      BY <2>1 DEF Secret
    <3>2. s.versions[v] \in SecretVersion
      BY <3>1
    <3>3. s.versions[v].value \in Int
      BY <3>2, TypingAssumption DEF SecretVersion, Values
    <3> QED
      BY <1>1, <1>2, <3>3
  <2> QED
    BY <1>1, <2>1, <2>2 DEF Sound
<1>4. /\ IsFiniteSet(secrets')
      /\ \A s \in secrets' : Sound(s) /\ s.id <= globalSeqCounter'
      /\ \A s, t \in secrets' : s.id = t.id => s = t
  <2>1. CASE secrets' = secrets
    BY <1>2, <1>3, <2>1
  <2>2. CASE \E s \in Secret : Sound(s) /\ Added(e, s)
    <3>1. PICK s \in Secret : Sound(s) /\ Added(e, s)
      BY <2>2
    <3>2. /\ secrets' = secrets \cup {s} /\ s.id \in Nat
          /\ s.id > globalSeqCounter /\ s.id <= globalSeqCounter'
      BY <1>1, <3>1 DEF Added, Secret
    <3>3. \A t \in secrets : t.id # s.id
      BY <1>1, <1>2, <3>2 DEF Secret
    <3>4. IsFiniteSet(secrets')
      BY <3>2, FS_AddElement
    <3> QED
      BY <1>2, <1>3, <3>1, <3>2, <3>3, <3>4
  <2>3. CASE \E old \in secrets, new \in Secret : Sound(new) /\ Replaced(e, old, new)
    <3>1. PICK old \in secrets, new \in Secret : Sound(new) /\ Replaced(e, old, new)
      BY <2>3
    <3>2. secrets' = (secrets \ {old}) \cup {new} /\ new.id = old.id
      BY <3>1 DEF Replaced
    <3>3. IsFiniteSet(secrets')
      BY <3>2, FS_AddElement, FS_RemoveElement
    <3> QED
      BY <1>2, <1>3, <3>1, <3>2, <3>3
  <2>4. CASE \E s \in secrets : Removed(e, s)
    <3>1. PICK s \in secrets : secrets' = secrets \ {s}
      BY <2>4 DEF Removed
    <3>2. IsFiniteSet(secrets')
      BY <3>1, FS_RemoveElement
    <3> QED
      BY <1>2, <1>3, <3>1, <3>2
  <2> QED
    BY <2>1, <2>2, <2>3, <2>4 DEF Writes
<1>5. secrets' \subseteq Secret /\ HistoryTruthful'
  BY <1>4 DEF HistoryTruthful, Sound, Truthful
<1>6. Drawn'
  <2>1. ASSUME NEW i \in DOMAIN auditLogs' PROVE auditLogs'[i].id <= globalSeqCounter'
    <3> DEFINE k == Len(auditLogs)
    <3>1. auditLogs \in Seq(AuditLog) /\ auditLogs' = <<e>> \o auditLogs /\ e \in AuditLog
      BY DEF Logs, TypeOK
    <3>2. CASE i = 1
      BY <1>1, <3>1, <3>2 DEF Logs
    <3>3. CASE i # 1
      <4>1. i - 1 \in DOMAIN auditLogs /\ auditLogs'[i] = auditLogs[i - 1]
        BY <3>1, <3>3
      <4>2. auditLogs[i - 1] \in AuditLog
        BY <3>1, <4>1
      <4>3. auditLogs[i - 1].id \in Nat /\ auditLogs[i - 1].id <= globalSeqCounter
        BY <4>1, <4>2 DEF AuditLog, Drawn
      <4> QED
        BY <1>1, <4>1, <4>3
    <3> QED
      BY <3>2, <3>3
  <2> QED
    BY <1>4, <2>1 DEF Drawn, Sound
<1>7. LedgerBalances'
  <2> SUFFICES ASSUME NEW key \in Keys
               PROVE  Cardinality(Having(secrets', key))
                        + Cardinality(Events("secret.delete", key)')
                      = Cardinality(Having(InitialSecrets, key))
                        + Cardinality(Events("secret.create", key)')
    BY Zenon DEF LedgerBalances, Having
  <2> QED
    BY LedgerStep
<1> QED
  BY <1>4, <1>5, <1>6, <1>7

(* What a step may never do, of the steps that write an event.             *)
LEMMA TrailStep ==
  ASSUME IInv, NEW e, Logs(e), Writes(e)
  PROVE  /\ Tail(auditLogs') = auditLogs
         /\ \A i \in DOMAIN auditLogs : auditLogs[i].id < Head(auditLogs').id
         /\ \A s \in secrets, t \in secrets' :
               s.id = t.id /\ s.value # t.value =>
                  /\ auditLogs' # auditLogs
                  /\ Head(auditLogs').action \in {"secret.rotate", "secret.rollback"}
                  /\ Head(auditLogs').resource = s.key
<1> USE DEF IInv, SecretsInv
<1>1. Tail(auditLogs') = auditLogs /\ Head(auditLogs') = e /\ auditLogs' # auditLogs
  BY TrailGrows DEF Logs
<1>2. ASSUME NEW i \in DOMAIN auditLogs PROVE auditLogs[i].id < e.id
  <2>1. auditLogs[i] \in AuditLog
    BY DEF TypeOK
  <2>2. auditLogs[i].id \in Nat /\ auditLogs[i].id <= globalSeqCounter
    BY <2>1 DEF AuditLog, Drawn
  <2>3. globalSeqCounter \in Nat /\ e.id \in Nat /\ e.id > globalSeqCounter
    BY DEF Logs, TypeOK, AuditLog, FirstId
  <2> QED
    BY <2>2, <2>3
<1>3. ASSUME NEW s \in secrets, NEW t \in secrets', s.id = t.id, s.value # t.value
      PROVE  e.action \in {"secret.rotate", "secret.rollback"} /\ e.resource = s.key
  <2>1. \A r \in secrets : r.id = s.id => r = s
    BY DEF HistoryTruthful
  <2>2. t \notin secrets
    BY <1>3, <2>1
  <2>3. ASSUME NEW r \in Secret, Added(e, r) PROVE FALSE
    <3>1. t = r /\ r.id \in Nat /\ r.id > globalSeqCounter
      BY <2>2, <2>3 DEF Added, Secret, TypeOK, FirstId
    <3> QED
      BY <1>3, <3>1 DEF Drawn, Secret, TypeOK
  <2>4. ASSUME NEW old \in secrets, NEW new \in Secret, Replaced(e, old, new)
        PROVE  e.action \in {"secret.rotate", "secret.rollback"} /\ e.resource = s.key
    BY <1>3, <2>1, <2>2, <2>4 DEF Replaced
  <2> QED
    BY <2>2, <2>3, <2>4 DEF Writes, Removed
<1> QED
  BY <1>1, <1>2, <1>3

-----------------------------------------------------------------------------
(* A step that writes nothing: at most a copy is begun, by whoever is      *)
(* active.                                                                 *)
Quiet ==
    /\ UNCHANGED <<globalSeqCounter, secrets, auditLogs, currentUser>>
    /\ \A c \in Copies : copying'[c] # None =>
          \/ copying'[c] = copying[c]
          \/ copying'[c].user = currentUser /\ copying'[c].clicked = Len(auditLogs)

Explained == Quiet \/ \E e : Logs(e) /\ Writes(e)

(* The ledger, of any secrets and any trail.                               *)
Balanced(some, logs) ==
    \A key \in Keys :
        Cardinality(Having(some, key))
          + Cardinality({n \in DOMAIN logs : /\ Nth(logs, n).action = "secret.delete"
                                             /\ Nth(logs, n).resource = key})
        = Cardinality(Having(InitialSecrets, key))
          + Cardinality({n \in DOMAIN logs : /\ Nth(logs, n).action = "secret.create"
                                             /\ Nth(logs, n).resource = key})

LEMMA QuietStep ==
  ASSUME IInv, Quiet
  PROVE  SecretsInv' /\ NamesInv'
<1>1. /\ globalSeqCounter' = globalSeqCounter /\ secrets' = secrets
      /\ auditLogs' = auditLogs /\ currentUser' = currentUser
  BY DEF Quiet
<1>2. SecretsInv'
  <2>1. LedgerBalances' <=> LedgerBalances
    <3>1. LedgerBalances <=> Balanced(secrets, auditLogs)
      BY Zenon DEF LedgerBalances, Events, Balanced, Oldest, Nth
    <3>2. LedgerBalances' <=> Balanced(secrets', auditLogs')
      BY Zenon DEF LedgerBalances, Events, Balanced, Oldest, Nth
    <3> QED
      BY <1>1, <3>1, <3>2
  <2> QED
    BY <1>1, <2>1 DEF IInv, SecretsInv, HistoryTruthful, Drawn
<1>3. ClickedBefore' /\ EveryEventNamesItsUser'
  <2>1. ClickedBefore' <=> ClickedBefore
    BY <1>1, Zenon DEF ClickedBefore, Oldest
  <2>2. EveryEventNamesItsUser' <=> EveryEventNamesItsUser
    BY <1>1, NamesOfTrail
  <2> QED
    BY <2>1, <2>2 DEF IInv, NamesInv
<1>4. ASSUME NEW c \in Copies, copying'[c] # None
      PROVE  /\ copying'[c].clicked <= Len(auditLogs')
             /\ copying'[c].user.name = UserIn(auditLogs', copying'[c].clicked)
  <2>1. CASE copying'[c] = copying[c]
    BY <1>1, <1>4, <2>1, UserOfTrail DEF IInv, NamesInv, Named
  <2>2. CASE copying'[c].user = currentUser /\ copying'[c].clicked = Len(auditLogs)
    <3>1. currentUser.name = UserIn(auditLogs, Len(auditLogs))
      BY UserOfTrail DEF IInv, NamesInv, EveryEventNamesItsUser
    <3>2. Len(auditLogs) \in Nat
      BY DEF IInv, TypeOK
    <3> QED
      BY <1>1, <2>2, <3>1, <3>2
  <2> QED
    BY <1>4, <2>1, <2>2 DEF Quiet
<1>5. \A c \in Copies : Named(c)'
  BY <1>4, UserOfTrail DEF Named
<1> QED
  BY <1>2, <1>3, <1>5 DEF NamesInv

(* The user who is active has a profile.                                   *)
LEMMA CurrentUser ==
  ASSUME IInv
  PROVE  /\ currentUser \in UserProfile
         /\ Len(auditLogs) \in Nat /\ currentUser.name = UserAfter(Len(auditLogs))
BY DEF IInv, TypeOK, NamesInv, EveryEventNamesItsUser

(* The event of a handler, and what it leaves in order.                    *)
LEMMA LogStep ==
  ASSUME IInv, NEW n \in {1, 2}, Draws(n),
         NEW action \in Actions, NEW resource \in Keys \cup STRING,
         NEW user \in UserProfile, NEW clicked \in Nat,
         logEvent(action, resource, user, clicked),
         clicked <= Len(auditLogs), user.name = UserAfter(clicked),
         IF action \in Switches THEN currentUser'.name = resource
                                ELSE currentUser' = currentUser,
         \A c \in Copies : copying'[c] \in {copying[c], None}
  PROVE  /\ \E e : Logs(e) /\ e.action = action /\ e.resource = resource
         /\ globalSeqCounter' = globalSeqCounter + n
         /\ globalSeqCounter' \in FirstId .. MaxId
         /\ auditLogs' \in Seq(AuditLog)
<1> DEFINE e == [id |-> globalSeqCounter', action |-> action, actor |-> user.name,
                 resource |-> resource, clicked |-> clicked]
<1>1. /\ globalSeqCounter \in FirstId .. MaxId /\ globalSeqCounter' = globalSeqCounter + n
      /\ globalSeqCounter' <= MaxId /\ FirstId \in Nat /\ MaxId \in Nat
  BY TypingAssumption DEF Draws, IInv, TypeOK, FirstId
<1>2. e \in AuditLog
  BY <1>1 DEF AuditLog, UserProfile, FirstId
<1>3. auditLogs' = <<e>> \o auditLogs
  BY DEF logEvent
<1>4. e.id \in globalSeqCounter + 1 .. MaxId
  BY <1>1
<1>5. Logs(e)
  BY <1>2, <1>3, <1>4 DEF Logs
<1>6. auditLogs' \in Seq(AuditLog)
  BY <1>2, <1>3, TrailGrows DEF IInv
<1>7. e.action = action /\ e.resource = resource
  OBVIOUS
<1> HIDE DEF e
<1> QED
  BY <1>1, <1>5, <1>6, <1>7

(* The same for a handler that logs when it is clicked.                    *)
LEMMA ClickStep ==
  ASSUME IInv, NEW n \in {1, 2}, Draws(n),
         NEW action \in Actions, NEW resource \in Keys \cup STRING,
         Log(action, resource),
         IF action \in Switches THEN currentUser'.name = resource
                                ELSE currentUser' = currentUser,
         copying' = copying
  PROVE  /\ \E e : Logs(e) /\ e.action = action /\ e.resource = resource
         /\ globalSeqCounter' = globalSeqCounter + n
         /\ globalSeqCounter' \in FirstId .. MaxId
         /\ auditLogs' \in Seq(AuditLog)
<1>1. logEvent(action, resource, currentUser, Len(auditLogs))
  BY DEF Log
<1>2. Len(auditLogs) <= Len(auditLogs)
  BY CurrentUser
<1> QED
  BY <1>1, <1>2, CurrentUser, LogStep

(* The values that are written are sound.                                  *)
LEMMA NewSecretSound ==
  ASSUME IInv, globalSeqCounter' = globalSeqCounter + 2, globalSeqCounter' <= MaxId,
         NEW key \in Keys, NEW value \in TypedValues
  PROVE  /\ Sound(NewSecret(key, value)) /\ NewSecret(key, value).key = key
         /\ NewSecret(key, value).id = globalSeqCounter + 1
<1> DEFINE s == NewSecret(key, value)  v == [version |-> 1, value |-> value]
<1>1. /\ globalSeqCounter \in Nat /\ globalSeqCounter >= FirstId /\ FirstId \in Nat
      /\ environment \in Environments
      /\ value \in Nat /\ value <= FirstId /\ value \in Values
  BY TypingAssumption DEF IInv, TypeOK, FirstId, Values
<1>2. /\ s.id = globalSeqCounter + 1 /\ s.key = key /\ s.value = value
      /\ s.environment = environment /\ s.updated = "written" /\ s.version = 1
      /\ s.versions = <<v>>
  BY DEF NewSecret
<1>3. v \in SecretVersion /\ <<v>> \in Seq(SecretVersion)
  BY <1>1 DEF SecretVersion
<1>4. s \in Secret
  BY <1>1, <1>3 DEF NewSecret, Secret
<1>5. DOMAIN <<v>> = {1} /\ <<v>>[1] = v
  OBVIOUS
<1>6. Truthful(s)
  BY <1>1, <1>2, <1>5 DEF Truthful
<1>7. value <= globalSeqCounter'
  BY <1>1
<1> QED
  BY <1>2, <1>4, <1>5, <1>6, <1>7 DEF Sound

(* A version that is put before the others.                                *)
LEMMA VersionPut ==
  ASSUME NEW vs \in Seq(SecretVersion), NEW w \in SecretVersion
  PROVE  LET ws == <<w>> \o vs
         IN  /\ ws \in Seq(SecretVersion) /\ 1 \in DOMAIN ws /\ ws[1] = w
             /\ \A v \in DOMAIN ws :
                   v # 1 => /\ v \in Nat /\ v - 1 \in DOMAIN vs
                            /\ ws[v] = vs[v - 1] /\ ws[v] \in SecretVersion
<1> DEFINE ws == <<w>> \o vs
<1>1. PICK k : k = Len(vs)
  OBVIOUS
<1>2. /\ ws \in Seq(SecretVersion) /\ Len(ws) = k + 1 /\ k \in Nat /\ ws[1] = w
      /\ DOMAIN vs = 1 .. k /\ DOMAIN ws = 1 .. k + 1
  BY <1>1
<1>3. ASSUME NEW v \in DOMAIN ws, v # 1
      PROVE  v \in Nat /\ v - 1 \in DOMAIN vs /\ ws[v] = vs[v - 1]
  BY <1>1, <1>2, <1>3
<1>4. \A v \in DOMAIN vs : vs[v] \in SecretVersion
  OBVIOUS
<1> HIDE DEF ws
<1>5. 1 \in DOMAIN ws
  BY <1>2
<1> QED
  BY <1>2, <1>3, <1>4, <1>5 DEF ws

LEMMA RotatedSound ==
  ASSUME IInv, globalSeqCounter' = globalSeqCounter + 2, globalSeqCounter' <= MaxId,
         NEW s \in secrets
  PROVE  /\ Sound(Rotated(s)) /\ Rotated(s).key = s.key /\ Rotated(s).id = s.id
<1>1. /\ s \in Secret /\ Truthful(s)
      /\ \A v \in DOMAIN s.versions : s.versions[v].value <= globalSeqCounter
      /\ globalSeqCounter \in Nat /\ globalSeqCounter >= FirstId
  BY DEF IInv, TypeOK, SecretsInv, HistoryTruthful, Drawn, FirstId
<1> DEFINE new == [version |-> s.version + 1, value |-> globalSeqCounter + 1]
<1>2. PICK t, vs, ws, w : /\ t = Rotated(s) /\ vs = s.versions /\ w = new
                          /\ ws = <<w>> \o vs
  OBVIOUS
<1>3. /\ vs \in Seq(SecretVersion) /\ s.version \in Nat
      /\ s.id \in Nat /\ s.key \in Keys /\ s.environment \in Environments
  BY <1>1, <1>2 DEF Secret
<1>4. /\ w \in SecretVersion /\ w.version = s.version + 1
      /\ w.value = globalSeqCounter + 1 /\ w.value \in Values
  BY <1>1, <1>2, <1>3, TypingAssumption DEF Values, SecretVersion
<1>5. /\ ws \in Seq(SecretVersion) /\ 1 \in DOMAIN ws /\ ws[1] = w
      /\ \A v \in DOMAIN ws :
            v # 1 => v \in Nat /\ v - 1 \in DOMAIN vs /\ ws[v] = vs[v - 1]
  BY <1>2, <1>3, <1>4, VersionPut
<1>6. t = [id |-> s.id, key |-> s.key, value |-> w.value, environment |-> s.environment,
           updated |-> "written", version |-> s.version + 1, versions |-> ws]
  BY <1>1, <1>2 DEF Rotated, Secret
<1>7. /\ t.id = s.id /\ t.key = s.key /\ t.value = w.value /\ t.version = s.version + 1
      /\ t.versions = ws
  BY <1>6
<1>8. t \in Secret
  BY <1>3, <1>4, <1>5, <1>6 DEF Secret
<1>9. \A v \in DOMAIN vs : /\ v \in Nat /\ vs[v].version = s.version + 1 - v
                           /\ vs[v].value \in Nat /\ vs[v].value <= globalSeqCounter
  <2> SUFFICES ASSUME NEW v \in DOMAIN vs
               PROVE  /\ v \in Nat /\ vs[v].version = s.version + 1 - v
                      /\ vs[v].value \in Nat /\ vs[v].value <= globalSeqCounter
    OBVIOUS
  <2>1. v \in Nat /\ vs[v] \in SecretVersion
    BY <1>3
  <2>2. vs[v].value \in Nat
    BY <2>1, TypingAssumption DEF SecretVersion, Values
  <2> QED
    BY <1>1, <1>2, <2>1, <2>2 DEF Truthful
<1>10. \A v \in DOMAIN ws : /\ ws[v].version = s.version + 1 + 1 - v
                            /\ ws[v].value <= globalSeqCounter'
  <2> SUFFICES ASSUME NEW v \in DOMAIN ws
               PROVE  /\ ws[v].version = s.version + 1 + 1 - v
                      /\ ws[v].value <= globalSeqCounter'
    OBVIOUS
  <2>1. CASE v = 1
    BY <1>1, <1>3, <1>4, <1>5, <2>1
  <2>2. CASE v # 1
    <3>1. PICK u \in DOMAIN vs : u = v - 1 /\ ws[v] = vs[u] /\ v \in Nat
      BY <1>5, <2>2
    <3>2. vs[u].version = s.version + 1 - u /\ vs[u].value \in Nat
          /\ vs[u].value <= globalSeqCounter
      BY <1>9
    <3> QED
      <4>1. ws[v].version = vs[u].version /\ ws[v].value = vs[u].value
        BY <3>1
      <4>2. v = u + 1 /\ u \in Nat
        BY <1>9, <3>1
      <4> QED
        BY <1>1, <1>3, <3>2, <4>1, <4>2
  <2> QED
    BY <2>1, <2>2
<1>11. ASSUME NEW v \in DOMAIN ws, NEW u \in DOMAIN ws, v # u, ws[v].value > FirstId
       PROVE  ws[v].value # ws[u].value
  <2>1. \A x \in DOMAIN ws : x # 1 => /\ ws[x].value \in Nat
                                      /\ ws[x].value <= globalSeqCounter
    BY <1>5, <1>9
  <2>2. CASE v = 1 \/ u = 1
    BY <1>1, <1>4, <1>5, <1>11, <2>1, <2>2
  <2>3. CASE v # 1 /\ u # 1
    <3>1. PICK x \in DOMAIN vs, y \in DOMAIN vs :
             x = v - 1 /\ y = u - 1 /\ ws[v] = vs[x] /\ ws[u] = vs[y]
      BY <1>5, <2>3
    <3>2. x # y
      BY <1>5, <1>11, <2>3, <3>1
    <3> QED
      BY <1>1, <1>2, <1>11, <3>1, <3>2 DEF Truthful
  <2> QED
    BY <2>2, <2>3
<1>12. Truthful(t)
  <2>1. ws[1].value = t.value
    BY <1>5, <1>7
  <2> QED
    BY <1>5, <1>7, <1>10, <1>11, <2>1 DEF Truthful
<1> QED
  BY <1>2, <1>7, <1>8, <1>10, <1>12 DEF Sound

LEMMA RolledBackSound ==
  ASSUME IInv, globalSeqCounter' = globalSeqCounter + 1,
         NEW s \in secrets, NEW v \in DOMAIN s.versions
  PROVE  LET t == RolledBack(s, s.versions[v])
         IN  Sound(t) /\ t.key = s.key /\ t.id = s.id
<1> DEFINE t == RolledBack(s, s.versions[v])
<1>1. /\ s \in Secret /\ Truthful(s)
      /\ \A w \in DOMAIN s.versions : s.versions[w].value <= globalSeqCounter
      /\ globalSeqCounter \in Nat
  BY DEF IInv, TypeOK, SecretsInv, HistoryTruthful, Drawn, FirstId
<1>2. s.versions \in Seq(SecretVersion)
  BY <1>1 DEF Secret
<1>3. \A w \in DOMAIN s.versions : s.versions[w] \in SecretVersion
  BY <1>2
<1>4. /\ t.id = s.id /\ t.key = s.key /\ t.value = s.versions[v].value
      /\ t.updated = "rollback" /\ t.version = s.version /\ t.versions = s.versions
      /\ t \in Secret
  BY <1>1, <1>3 DEF RolledBack, Secret, SecretVersion
<1>5. \A w \in DOMAIN s.versions : s.versions[w].value <= globalSeqCounter'
  BY <1>1, <1>3, TypingAssumption DEF SecretVersion, Values
<1>6. Truthful(t)
  BY <1>1, <1>4 DEF Truthful
<1> HIDE DEF t
<1> QED
  BY <1>4, <1>5, <1>6 DEF Sound, t

-----------------------------------------------------------------------------
(* The actions, one by one.                                                *)
LEMMA NavigateStep ==
  ASSUME IInv, Navigate
  PROVE  TypeOK' /\ SnapshotCurrent' /\ Explained
<1>1. ASSUME NEW page \in Sections, setSection(page)
      PROVE  TypeOK' /\ SnapshotCurrent' /\ Quiet
  BY <1>1 DEF setSection, IInv, TypeOK, SnapshotCurrent, Quiet
<1>2. ASSUME NEW e \in Environments, setEnvironment(e)
      PROVE  TypeOK' /\ SnapshotCurrent' /\ Quiet
  BY <1>2 DEF setEnvironment, IInv, TypeOK, SnapshotCurrent, Quiet
<1> QED
  BY <1>1, <1>2 DEF Navigate, OverviewPage, Sections, Explained

LEMMA SwitchStep ==
  ASSUME IInv, NEW i \in DOMAIN profiles, setCurrentUser(profiles[i])
  PROVE  TypeOK' /\ SnapshotCurrent' /\ Explained
<1>1. profiles[i] \in UserProfile
  BY DEF IInv, TypeOK
<1>2. profiles[i].name \in STRING
  BY <1>1 DEF UserProfile
<1>3. /\ \E e : Logs(e) /\ e.action = "user.profile.switch"
      /\ globalSeqCounter' \in FirstId .. MaxId /\ auditLogs' \in Seq(AuditLog)
  <2>1. /\ "user.profile.switch" \in Actions /\ "user.profile.switch" \in Switches
        /\ currentUser'.name = profiles[i].name /\ copying' = copying
        /\ Draws(1) /\ Log("user.profile.switch", profiles[i].name)
    BY DEF setCurrentUser, Actions, Switches
  <2> QED
    BY <1>2, <2>1, ClickStep
<1>4. Explained
  BY <1>3 DEF setCurrentUser, Explained, Writes
<1>5. TypeOK' /\ SnapshotCurrent'
  BY <1>3 DEF setCurrentUser, IInv, TypeOK, SnapshotCurrent
<1> QED
  BY <1>4, <1>5

LEMMA CreateProfileStep ==
  ASSUME IInv, NEW name \in ProfileNames, handleCreateProfile(name)
  PROVE  TypeOK' /\ SnapshotCurrent' /\ Explained
<1> DEFINE created == [id |-> globalSeqCounter + 1, name |-> name]
<1>1. created \in UserProfile /\ name \in STRING
  BY TypingAssumption DEF UserProfile, IInv, TypeOK, FirstId
<1>2. currentUser' = created /\ currentUser'.name = name
  BY DEF handleCreateProfile
<1>3. /\ \E e : Logs(e) /\ e.action = "user.profile.create"
      /\ globalSeqCounter' \in FirstId .. MaxId /\ auditLogs' \in Seq(AuditLog)
  <2>1. /\ "user.profile.create" \in Actions /\ "user.profile.create" \in Switches
        /\ copying' = copying
        /\ Draws(2) /\ Log("user.profile.create", name)
    BY DEF handleCreateProfile, Actions, Switches
  <2> QED
    BY <1>1, <1>2, <2>1, ClickStep
<1>4. Explained
  BY <1>3 DEF handleCreateProfile, Explained, Writes
<1>5. /\ profiles' \in Seq(UserProfile)
      /\ \E i \in DOMAIN profiles' : currentUser' = profiles'[i]
  <2>1. profiles \in Seq(UserProfile) /\ profiles' = Append(profiles, created)
    BY DEF handleCreateProfile, IInv, TypeOK
  <2> HIDE DEF created
  <2>2. /\ profiles' \in Seq(UserProfile) /\ Len(profiles) + 1 \in DOMAIN profiles'
        /\ profiles'[Len(profiles) + 1] = created
    BY <1>1, <2>1
  <2> QED
    BY <1>2, <2>2
<1>6. TypeOK' /\ SnapshotCurrent'
  BY <1>3, <1>5 DEF handleCreateProfile, IInv, TypeOK, SnapshotCurrent
<1> QED
  BY <1>4, <1>6

LEMMA ProfilesStep ==
  ASSUME IInv, Profiles
  PROVE  TypeOK' /\ SnapshotCurrent' /\ Explained
<1>1. ASSUME setOpenProfileModal
      PROVE  TypeOK' /\ SnapshotCurrent' /\ Quiet
  BY <1>1 DEF setOpenProfileModal, IInv, TypeOK, SnapshotCurrent, Quiet
<1> QED
  BY <1>1, SwitchStep, CreateProfileStep DEF Profiles, Explained

LEMMA CopyStep ==
  ASSUME IInv, NEW c \in Copies, NEW s \in secrets, copyToClipboard(c, s)
  PROVE  TypeOK' /\ SnapshotCurrent' /\ Explained
<1> DEFINE copy == [key |-> s.key, user |-> currentUser, clicked |-> Len(auditLogs)]
<1>1. copy \in Copy /\ copy.user = currentUser /\ copy.clicked = Len(auditLogs)
  BY CurrentUser DEF Copy, IInv, TypeOK, Secret
<1>2. copying \in [Copies -> Copy \cup {None}] /\ copying' = [copying EXCEPT ![c] = copy]
  BY DEF copyToClipboard, IInv, TypeOK
<1> HIDE DEF copy
<1>3. TypeOK' /\ SnapshotCurrent'
  BY <1>1, <1>2 DEF copyToClipboard, IInv, TypeOK, SnapshotCurrent
<1>4. Quiet
  BY <1>1, <1>2 DEF copyToClipboard, Quiet
<1> QED
  BY <1>3, <1>4 DEF Explained

LEMMA RevealStep ==
  ASSUME IInv, NEW key \in Keys, toggleReveal(key)
  PROVE  TypeOK' /\ SnapshotCurrent' /\ Explained
<1>1. CASE key \in revealed
  BY <1>1 DEF toggleReveal, IInv, TypeOK, SnapshotCurrent, Explained, Quiet
<1>2. CASE key \notin revealed
  <2>1. /\ \E e : Logs(e) /\ e.action = "secret.reveal"
        /\ globalSeqCounter' \in FirstId .. MaxId /\ auditLogs' \in Seq(AuditLog)
    <3>1. /\ "secret.reveal" \in Actions /\ "secret.reveal" \notin Switches
          /\ copying' = copying /\ currentUser' = currentUser
          /\ Draws(1) /\ Log("secret.reveal", key)
      BY <1>2 DEF toggleReveal, Actions, Switches
    <3> QED
      BY <3>1, ClickStep
  <2>2. Explained
    BY <2>1 DEF toggleReveal, Explained, Writes
  <2>3. TypeOK' /\ SnapshotCurrent'
    BY <1>2, <2>1 DEF toggleReveal, IInv, TypeOK, SnapshotCurrent
  <2> QED
    BY <2>2, <2>3
<1> QED
  BY <1>1, <1>2

LEMMA DeleteStep ==
  ASSUME IInv, NEW s \in secrets, handleDeleteSecret(s)
  PROVE  TypeOK' /\ SnapshotCurrent' /\ Explained
<1>1. s.key \in Keys
  BY DEF IInv, TypeOK, Secret
<1>2. /\ \E e : Logs(e) /\ e.action = "secret.delete" /\ e.resource = s.key
      /\ globalSeqCounter' \in FirstId .. MaxId /\ auditLogs' \in Seq(AuditLog)
  <2>1. /\ "secret.delete" \in Actions /\ "secret.delete" \notin Switches
        /\ copying' = copying /\ currentUser' = currentUser
        /\ Draws(1) /\ Log("secret.delete", s.key)
    BY DEF handleDeleteSecret, Actions, Switches
  <2> QED
    BY <1>1, <2>1, ClickStep
<1>3. secrets' = secrets \ {s}
  BY DEF handleDeleteSecret, IInv, SecretsInv, HistoryTruthful
<1>4. Explained
  BY <1>2, <1>3 DEF Explained, Writes, Removed
<1>5. TypeOK' /\ SnapshotCurrent'
  BY <1>2, <1>3 DEF handleDeleteSecret, At, IInv, TypeOK, SnapshotCurrent
<1> QED
  BY <1>4, <1>5

LEMMA AddStep ==
  ASSUME IInv, NEW raw \in RawKeys, NEW value \in TypedValues \cup {0},
         handleAddSecret(raw, value)
  PROVE  TypeOK' /\ SnapshotCurrent' /\ Explained
<1>1. PICK key \in Keys : key = raw[1]
  BY DEF RawKeys
<1>2. value \in TypedValues
  BY DEF handleAddSecret
<1>3. /\ Draws(2) /\ Log("secret.create", key)
      /\ secrets' = secrets \cup {NewSecret(key, value)}
  BY <1>1 DEF handleAddSecret
<1>4. /\ \E e : Logs(e) /\ e.action = "secret.create" /\ e.resource = key
      /\ globalSeqCounter' = globalSeqCounter + 2
      /\ globalSeqCounter' \in FirstId .. MaxId /\ auditLogs' \in Seq(AuditLog)
  <2>1. /\ "secret.create" \in Actions /\ "secret.create" \notin Switches
        /\ copying' = copying /\ currentUser' = currentUser
    BY DEF handleAddSecret, Actions, Switches
  <2> QED
    BY <1>3, <2>1, ClickStep
<1>5. /\ Sound(NewSecret(key, value)) /\ NewSecret(key, value).key = key
      /\ NewSecret(key, value).id = globalSeqCounter + 1
  BY <1>2, <1>4, NewSecretSound
<1>6. NewSecret(key, value).id \in globalSeqCounter + 1 .. globalSeqCounter'
  BY <1>4, <1>5 DEF IInv, TypeOK, FirstId
<1>7. NewSecret(key, value) \in Secret
  BY <1>5 DEF Sound
<1>8. Explained
  BY <1>3, <1>4, <1>5, <1>6, <1>7 DEF Explained, Writes, Added
<1>9. TypeOK' /\ SnapshotCurrent'
  BY <1>3, <1>4, <1>7 DEF handleAddSecret, IInv, TypeOK, SnapshotCurrent
<1> QED
  BY <1>8, <1>9

LEMMA RotateStep ==
  ASSUME IInv, NEW s \in secrets, handleRotateSecret(s)
  PROVE  TypeOK' /\ SnapshotCurrent' /\ Explained
<1>1. s.key \in Keys
  BY DEF IInv, TypeOK, Secret
<1>2. /\ \E e : Logs(e) /\ e.action = "secret.rotate" /\ e.resource = s.key
      /\ globalSeqCounter' = globalSeqCounter + 2
      /\ globalSeqCounter' \in FirstId .. MaxId /\ auditLogs' \in Seq(AuditLog)
  <2>1. /\ "secret.rotate" \in Actions /\ "secret.rotate" \notin Switches
        /\ copying' = copying /\ currentUser' = currentUser
        /\ Draws(2) /\ Log("secret.rotate", s.key)
    BY DEF handleRotateSecret, Actions, Switches
  <2> QED
    BY <1>1, <2>1, ClickStep
<1>3. Sound(Rotated(s)) /\ Rotated(s).key = s.key /\ Rotated(s).id = s.id
  BY <1>2, RotatedSound
<1>4. secrets' = (secrets \ {s}) \cup {Rotated(s)}
  <2>1. \A r \in secrets : r.id = s.id => r = s
    BY DEF IInv, SecretsInv, HistoryTruthful
  <2>2. secrets' = {IF r.id = s.id THEN Rotated(r) ELSE r : r \in secrets}
    BY DEF handleRotateSecret
  <2> QED
    BY <2>1, <2>2
<1>5. Rotated(s) \in Secret
  BY <1>3 DEF Sound
<1>6. Explained
  BY <1>2, <1>3, <1>4, <1>5 DEF Explained, Writes, Replaced
<1>7. TypeOK' /\ SnapshotCurrent'
  BY <1>2, <1>4, <1>5 DEF handleRotateSecret, At, IInv, TypeOK, SnapshotCurrent
<1> QED
  BY <1>6, <1>7

LEMMA RollbackStep ==
  ASSUME IInv, dialog = "versions", NEW v \in DOMAIN selectedSecretForVersions.versions,
         handleRollbackSecret(selectedSecretForVersions.versions[v])
  PROVE  TypeOK' /\ SnapshotCurrent' /\ Explained
<1>1. PICK s \in secrets : s = selectedSecretForVersions
  BY DEF IInv, TypeOK, SnapshotCurrent
<1> DEFINE t == RolledBack(s, s.versions[v])
<1>2. s.key \in Keys
  BY DEF IInv, TypeOK, Secret
<1>3. /\ \E e : Logs(e) /\ e.action = "secret.rollback" /\ e.resource = s.key
      /\ globalSeqCounter' = globalSeqCounter + 1
      /\ globalSeqCounter' \in FirstId .. MaxId /\ auditLogs' \in Seq(AuditLog)
  <2>1. /\ "secret.rollback" \in Actions /\ "secret.rollback" \notin Switches
        /\ copying' = copying /\ currentUser' = currentUser
        /\ Draws(1) /\ Log("secret.rollback", s.key)
    BY <1>1 DEF handleRollbackSecret, Actions, Switches
  <2> QED
    BY <1>2, <2>1, ClickStep
<1>4. Sound(t) /\ t.key = s.key /\ t.id = s.id
  BY <1>1, <1>3, RolledBackSound
<1>5. secrets' = (secrets \ {s}) \cup {t}
  <2>1. \A r \in secrets : r.id = s.id => r = s
    BY DEF IInv, SecretsInv, HistoryTruthful
  <2>2. secrets' = {IF r.id = s.id THEN RolledBack(r, s.versions[v]) ELSE r : r \in secrets}
    BY <1>1 DEF handleRollbackSecret
  <2> QED
    BY <2>1, <2>2
<1>6. t \in Secret
  BY <1>4 DEF Sound
<1> HIDE DEF t
<1>7. Explained
  BY <1>3, <1>4, <1>5, <1>6 DEF Explained, Writes, Replaced
<1>8. TypeOK' /\ SnapshotCurrent'
  BY <1>3, <1>5, <1>6 DEF handleRollbackSecret, IInv, TypeOK, SnapshotCurrent
<1> QED
  BY <1>7, <1>8

LEMMA CopyDoneStep ==
  ASSUME IInv, NEW c \in Copies, CopyDone(c)
  PROVE  TypeOK' /\ SnapshotCurrent' /\ Explained
<1>1. /\ copying[c] # None /\ copying[c] \in Copy
      /\ copying' = [copying EXCEPT ![c] = None]
      /\ copying \in [Copies -> Copy \cup {None}]
  BY DEF CopyDone, IInv, TypeOK
<1>2. /\ copying[c].key \in Keys /\ copying[c].user \in UserProfile
      /\ copying[c].clicked \in Nat
      /\ copying[c].clicked <= Len(auditLogs)
      /\ copying[c].user.name = UserAfter(copying[c].clicked)
  BY <1>1 DEF Copy, IInv, NamesInv, Named
<1>3. \A d \in Copies : copying'[d] \in {copying[d], None}
  BY <1>1
<1>4. /\ \E e : Logs(e) /\ e.action = "secret.copy"
      /\ globalSeqCounter' \in FirstId .. MaxId /\ auditLogs' \in Seq(AuditLog)
  <2>1. /\ "secret.copy" \in Actions /\ "secret.copy" \notin Switches
        /\ currentUser' = currentUser /\ Draws(1)
        /\ logEvent("secret.copy", copying[c].key, copying[c].user, copying[c].clicked)
    BY DEF CopyDone, Actions, Switches
  <2> QED
    BY <1>2, <1>3, <2>1, LogStep
<1>5. Explained
  BY <1>4 DEF CopyDone, Explained, Writes
<1>6. TypeOK' /\ SnapshotCurrent'
  BY <1>1, <1>4 DEF CopyDone, IInv, TypeOK, SnapshotCurrent
<1> QED
  BY <1>5, <1>6

LEMMA NextStep ==
  ASSUME IInv, Next
  PROVE  TypeOK' /\ SnapshotCurrent' /\ Explained
<1>1. CASE SecretsPage
  <2>1. CASE setOpenAddSecret
    BY <2>1 DEF setOpenAddSecret, IInv, TypeOK, SnapshotCurrent, Quiet, Explained
  <2>2. ASSUME NEW s \in filteredSecrets, Row(s)
        PROVE  TypeOK' /\ SnapshotCurrent' /\ Explained
    <3>1. s \in secrets /\ s \in Secret /\ s.key \in Keys
      BY DEF filteredSecrets, IInv, TypeOK, Secret
    <3>2. CASE setSelectedSecretForVersions(s)
      BY <3>1, <3>2, TypingAssumption
         DEF setSelectedSecretForVersions, IInv, TypeOK, SnapshotCurrent, Quiet, Explained
    <3> QED
      BY <2>2, <3>1, <3>2, CopyStep, RevealStep, DeleteStep DEF Row
  <2> QED
    BY <1>1, <2>1, <2>2, AddStep DEF SecretsPage
<1>2. CASE Versions
  <2>1. CASE CloseVersions
    BY <2>1 DEF CloseVersions, IInv, TypeOK, SnapshotCurrent, Quiet, Explained
  <2> QED
    BY <1>2, <2>1, RollbackStep DEF Versions
<1>3. ASSUME NEW c \in Copies, CopyRefused(c)
      PROVE  TypeOK' /\ SnapshotCurrent' /\ Quiet
  BY <1>3 DEF CopyRefused, IInv, TypeOK, SnapshotCurrent, Quiet
<1> QED
  BY <1>1, <1>2, <1>3, NavigateStep, ProfilesStep, RotateStep, CopyDoneStep
     DEF Next, RotationsPage, Explained

-----------------------------------------------------------------------------
LEMMA InitIInv ==
  ASSUME Init
  PROVE  IInv
<1> USE SeedAssumption, TypingAssumption
<1>1. TypeOK
  <2>1. InitialProfiles \in Seq(UserProfile) /\ 1 \in DOMAIN InitialProfiles
    OBVIOUS
  <2>2. copying \in [Copies -> Copy \cup {None}]
    BY DEF Init
  <2> QED
    BY <2>1, <2>2 DEF Init, TypeOK, FirstId, Sections
<1>2. HistoryTruthful /\ Drawn /\ IsFiniteSet(secrets)
  BY DEF Init, HistoryTruthful, Drawn
<1>3. \A action, key : Events(action, key) = {}
  BY DEF Init, Events
<1>4. LedgerBalances
  <2> SUFFICES ASSUME NEW key \in Keys
               PROVE  Cardinality(Having(secrets, key)) + 0
                        = Cardinality(Having(InitialSecrets, key)) + 0
    BY <1>3, FS_EmptySet, Zenon DEF LedgerBalances
  <2> QED
    BY DEF Init
<1>5. NamesInv
  <2>1. UserAfter(0) = InitialProfiles[1].name
    BY DEF UserAfter
  <2>2. DOMAIN auditLogs = {} /\ Len(auditLogs) = 0
    BY DEF Init
  <2>3. \A c \in Copies : copying[c] = None
    BY DEF Init
  <2>4. currentUser = InitialProfiles[1]
    BY DEF Init
  <2> QED
    BY <2>1, <2>2, <2>3, <2>4
       DEF NamesInv, ClickedBefore, EveryEventNamesItsUser, Named
<1> QED
  BY <1>1, <1>2, <1>4, <1>5 DEF Init, IInv, SecretsInv, SnapshotCurrent

LEMMA NextIInv ==
  ASSUME IInv, [Next]_vars
  PROVE  IInv'
<1>1. CASE Next
  <2>1. TypeOK' /\ SnapshotCurrent' /\ Explained
    BY <1>1, NextStep
  <2>2. SecretsInv' /\ NamesInv'
    BY <2>1, QuietStep, SecretsStep, NamesStep DEF Explained
  <2> QED
    BY <2>1, <2>2 DEF IInv
<1>2. CASE UNCHANGED vars
  <2>1. TypeOK' /\ SnapshotCurrent' /\ Quiet
    BY <1>2 DEF vars, IInv, TypeOK, SnapshotCurrent, Quiet
  <2> QED
    BY <2>1, QuietStep DEF IInv
<1> QED
  BY <1>1, <1>2

(* The invariant of the component.                                         *)
THEOREM Inductive == Spec => []IInv
<1>1. Init => IInv
  BY InitIInv
<1>2. IInv /\ [Next]_vars => IInv'
  BY NextIInv
<1> QED
  BY <1>1, <1>2, PTL DEF Spec

(* The state has its types; a copy is under way or it is not.              *)
THEOREM TypeCorrect == Spec => []TypeOK
<1>1. IInv => TypeOK
  BY DEF IInv
<1> QED
  BY <1>1, Inductive, PTL

(* What the version history shows of a secret (the numbers, the value that *)
(* is current) is right after any rotations, rollbacks and deletions, and  *)
(* ids stay unique.                                                        *)
THEOREM HistoriesAreTruthful == Spec => []HistoryTruthful
<1>1. IInv => HistoryTruthful
  BY DEF IInv, SecretsInv
<1> QED
  BY <1>1, Inductive, PTL

(* The trail's creations and deletions account for the secrets of every    *)
(* name.                                                                   *)
THEOREM TheLedgerBalances == Spec => []LedgerBalances
<1>1. IInv => LedgerBalances
  BY DEF IInv, SecretsInv
<1> QED
  BY <1>1, Inductive, PTL

(* Every event names the user who was active at the click, whoever is      *)
(* active when it is written.                                              *)
THEOREM EventsNameTheirUser == Spec => []EveryEventNamesItsUser
<1>1. IInv => EveryEventNamesItsUser
  BY DEF IInv, NamesInv
<1> QED
  BY <1>1, Inductive, PTL

(* The version dialog rolls back the secret as it is.                      *)
THEOREM SnapshotsAreCurrent == Spec => []SnapshotCurrent
<1>1. IInv => SnapshotCurrent
  BY DEF IInv
<1> QED
  BY <1>1, Inductive, PTL

(* No step takes an event out of the trail, writes two, or changes a       *)
(* secret's value without the event of it.                                 *)
THEOREM TrailIsKept == Spec => TrailKept
<1> DEFINE Kept ==
      /\ \/ auditLogs' = auditLogs
         \/ /\ Tail(auditLogs') = auditLogs
            /\ \A i \in DOMAIN auditLogs : auditLogs[i].id < Head(auditLogs').id
      /\ \A s \in secrets, t \in secrets' :
            s.id = t.id /\ s.value # t.value =>
               /\ auditLogs' # auditLogs
               /\ Head(auditLogs').action \in {"secret.rotate", "secret.rollback"}
               /\ Head(auditLogs').resource = s.key
<1>1. IInv /\ [Next]_vars => [Kept]_vars
  <2> SUFFICES ASSUME IInv, Next PROVE Kept
    OBVIOUS
  <2>1. CASE Quiet
    BY <2>1 DEF Quiet, IInv, SecretsInv, HistoryTruthful
  <2>2. CASE \E e : Logs(e) /\ Writes(e)
    BY <2>2, TrailStep
  <2> QED
    BY <2>1, <2>2, NextStep DEF Explained
<1>2. TrailKept <=> [][Kept]_vars
  BY PTL DEF TrailKept
<1> QED
  BY <1>1, <1>2, Inductive, PTL DEF Spec
=============================================================================
