------------------------------ MODULE WebConsole ------------------------------
(***************************************************************************)
(* The web console's Home component (apps/web/src/app/page.tsx): the       *)
(* secrets with their versions, what of them is shown, the profiles, and   *)
(* the audit trail that every handler writes by logEvent.                  *)
(*                                                                         *)
(* A handler is one step: React applies its state changes before the next  *)
(* click.  Only copyToClipboard awaits, and other handlers run before it   *)
(* goes on.  A dialog is modal: while one is open, nothing outside it can  *)
(* be clicked.  What a form's fields hold is chosen when its button is     *)
(* pressed.  The search box, paths, rotation policies and toasts are left  *)
(* out, and so are the 200 ms for which a page that is left stays on the   *)
(* screen.                                                                 *)
(*                                                                         *)
(* Values are numbers: 0 is blank, the typed ones are in TypedValues, and  *)
(* a generated one is the number generateToken drew.  clicked is the part  *)
(* of an event that the program does not keep: how many events there were  *)
(* when the user clicked.                                                  *)
(*                                                                         *)
(* Operators whose names contain _Broken are defects for mutation checks;  *)
(* no behaviour of this module uses them.                                  *)
(***************************************************************************)
EXTENDS Integers, Sequences, FiniteSets

CONSTANTS
    Keys,            \* names of secrets
    Spellings,       \* ways to type a name: case, blanks around it
    TypedValues,     \* values a user may type
    Environments,
    ProfileNames,    \* names a user may give a new profile
    InitialSecrets,  \* the seed data: a set of secrets ...
    InitialProfiles, \* ... and a sequence of profiles
    Copies,          \* the calls of copyToClipboard that may be under way
    None,
    MaxId            \* bound: the last number that is drawn

FirstId == 1000

VARIABLES
    globalSeqCounter,
    section,
    environment,
    secrets,         \* a set: their order on the page is left out
    revealed,        \* the keys whose value is shown
    auditLogs,       \* newest first
    profiles,
    currentUser,
    dialog,          \* which of the modal dialogs is open
    selectedSecretForVersions,
    copying          \* the calls that await the clipboard

vars == <<globalSeqCounter, section, environment, secrets, revealed, auditLogs, profiles,
          currentUser, dialog, selectedSecretForVersions, copying>>

Sections == {"Overview", "Secrets", "Secret_rotations", "Audit_logs"}

RawKeys == Keys \X Spellings

Values == 0 .. MaxId

SecretVersion == [version : Nat, value : Values]

Secret == [id : Nat, key : Keys, value : Values, environment : Environments,
           updated : {"seeded", "written", "rollback"}, version : Nat,
           versions : Seq(SecretVersion)]

UserProfile == [id : Nat, name : STRING]

Copy == [key : Keys, user : UserProfile, clicked : Nat]

Actions == {"secret.create", "secret.delete", "secret.rotate", "secret.rollback",
            "secret.reveal", "secret.copy", "user.profile.switch", "user.profile.create"}

AuditLog == [id : Nat, action : Actions, actor : STRING, resource : Keys \cup STRING,
             clicked : Nat]

(* A history tells what the value is and was: its numbers go down by one   *)
(* from the version the page shows, the value is the newest version's, or, *)
(* after a rollback, that of an older one, and no version has a generated  *)
(* value that another has.                                                 *)
Truthful(s) ==
    /\ \A v \in DOMAIN s.versions : s.versions[v].version = s.version + 1 - v
    /\ \E v \in DOMAIN s.versions : s.versions[v].value = s.value
    /\ s.updated # "rollback" => s.versions[1].value = s.value
    /\ \A v, w \in DOMAIN s.versions : s.versions[v].value > FirstId /\ v # w =>
          s.versions[v].value # s.versions[w].value

(* What a user types is no number that is drawn, and neither are the ids   *)
(* and values of the seed data (page.tsx:205-322).                         *)
ASSUME TypingAssumption ==
    /\ TypedValues \subseteq 1 .. FirstId
    /\ MaxId \in Nat /\ MaxId >= FirstId
    /\ "production" \in Environments
    /\ ProfileNames \subseteq STRING
    /\ None \notin Keys /\ None \notin Secret /\ None \notin Copy

ASSUME SeedAssumption ==
    /\ IsFiniteSet(InitialSecrets)
    /\ \A s \in InitialSecrets :
          /\ s \in Secret /\ Truthful(s)
          /\ s.id <= FirstId
          /\ \A v \in DOMAIN s.versions : s.versions[v].value <= FirstId
          /\ \A t \in InitialSecrets \ {s} : t.id # s.id
    /\ InitialProfiles \in Seq(UserProfile) /\ InitialProfiles # <<>>

-----------------------------------------------------------------------------
Init ==
    /\ globalSeqCounter = FirstId
    /\ section = "Overview"
    /\ environment = "production"
    /\ secrets = InitialSecrets
    /\ revealed = {}
    /\ auditLogs = <<>>
    /\ profiles = InitialProfiles
    /\ currentUser = InitialProfiles[1]
    /\ dialog = "none"
    /\ selectedSecretForVersions = None
    /\ copying = [c \in Copies |-> None]

(* generateId and generateToken draw the next number.                      *)
Draws(n) ==
    /\ globalSeqCounter + n <= MaxId
    /\ globalSeqCounter' = globalSeqCounter + n

(* logEvent, by the user of the render whose handler calls it; its id is   *)
(* the last number the handler draws.                                      *)
logEvent(action, resource, user, clicked) ==
    auditLogs' = <<[id |-> globalSeqCounter', action |-> action, actor |-> user.name,
                    resource |-> resource, clicked |-> clicked]>> \o auditLogs

Log(action, resource) == logEvent(action, resource, currentUser, Len(auditLogs))

At(page) == section = page /\ dialog = "none"

filteredSecrets == {s \in secrets : s.environment = environment}

-----------------------------------------------------------------------------
(* The sidebar leads everywhere, the overview's buttons to two pages.      *)
setSection(page) ==
    /\ dialog = "none"
    /\ section' = page
    /\ UNCHANGED <<globalSeqCounter, environment, secrets, revealed, auditLogs, profiles,
                   currentUser, dialog, selectedSecretForVersions, copying>>

OverviewPage == section = "Overview" /\ \E page \in {"Audit_logs", "Secrets"} : setSection(page)

setEnvironment(e) ==
    /\ At("Secrets")
    /\ environment' = e
    /\ UNCHANGED <<globalSeqCounter, section, secrets, revealed, auditLogs, profiles,
                   currentUser, dialog, selectedSecretForVersions, copying>>

setCurrentUser_BrokenEarly(p) ==
    /\ dialog = "none"
    /\ Draws(1)
    /\ currentUser' = p
    /\ logEvent("user.profile.switch", p.name, p, Len(auditLogs))
    /\ UNCHANGED <<section, environment, secrets, revealed, profiles, dialog,
                   selectedSecretForVersions, copying>>

(* A profile is chosen in the menu; the event is by the user before.       *)
setCurrentUser(p) ==
    /\ dialog = "none"
    /\ Draws(1)
    /\ currentUser' = p
    /\ Log("user.profile.switch", p.name)
    /\ UNCHANGED <<section, environment, secrets, revealed, profiles, dialog,
                   selectedSecretForVersions, copying>>

handleCreateProfile(name) ==
    LET created == [id |-> globalSeqCounter + 1, name |-> name]
    IN  /\ dialog = "profile"
        /\ Draws(2)
        /\ profiles' = Append(profiles, created)
        /\ currentUser' = created
        /\ dialog' = "none"
        /\ Log("user.profile.create", name)
        /\ UNCHANGED <<section, environment, secrets, revealed, selectedSecretForVersions,
                       copying>>

setOpenProfileModal ==
    /\ \/ dialog = "none" /\ dialog' = "profile"
       \/ dialog = "profile" /\ dialog' = "none"
    /\ UNCHANGED <<globalSeqCounter, section, environment, secrets, revealed, auditLogs,
                   profiles, currentUser, selectedSecretForVersions, copying>>

-----------------------------------------------------------------------------
(* The secrets page.  copyToClipboard keeps what its render knew.          *)
copyToClipboard(c, s) ==
    /\ At("Secrets")
    /\ copying[c] = None
    /\ copying' = [copying EXCEPT ![c] =
           [key |-> s.key, user |-> currentUser, clicked |-> Len(auditLogs)]]
    /\ UNCHANGED <<globalSeqCounter, section, environment, secrets, revealed, auditLogs,
                   profiles, currentUser, dialog, selectedSecretForVersions>>

CopyDone_BrokenLatest(c) ==
    /\ copying[c] # None
    /\ Draws(1)
    /\ logEvent("secret.copy", copying[c].key, currentUser, copying[c].clicked)
    /\ copying' = [copying EXCEPT ![c] = None]
    /\ UNCHANGED <<section, environment, secrets, revealed, profiles, currentUser, dialog,
                   selectedSecretForVersions>>

(* The clipboard has the value: the event is the one of the click.         *)
CopyDone(c) ==
    /\ copying[c] # None
    /\ Draws(1)
    /\ logEvent("secret.copy", copying[c].key, copying[c].user, copying[c].clicked)
    /\ copying' = [copying EXCEPT ![c] = None]
    /\ UNCHANGED <<section, environment, secrets, revealed, profiles, currentUser, dialog,
                   selectedSecretForVersions>>

(* The clipboard refuses; the rejection is nobody's.                       *)
CopyRefused(c) ==
    /\ copying[c] # None
    /\ copying' = [copying EXCEPT ![c] = None]
    /\ UNCHANGED <<globalSeqCounter, section, environment, secrets, revealed, auditLogs,
                   profiles, currentUser, dialog, selectedSecretForVersions>>

(* What is revealed is a key, whichever secrets have it.                   *)
toggleReveal(key) ==
    /\ At("Secrets")
    /\ IF key \in revealed
       THEN revealed' = revealed \ {key} /\ UNCHANGED <<globalSeqCounter, auditLogs>>
       ELSE revealed' = revealed \cup {key} /\ Draws(1) /\ Log("secret.reveal", key)
    /\ UNCHANGED <<section, environment, secrets, profiles, currentUser, dialog,
                   selectedSecretForVersions, copying>>

setOpenAddSecret ==
    /\ section = "Secrets"
    /\ \/ dialog = "none" /\ dialog' = "add_secret"
       \/ dialog = "add_secret" /\ dialog' = "none"
    /\ UNCHANGED <<globalSeqCounter, section, environment, secrets, revealed, auditLogs,
                   profiles, currentUser, selectedSecretForVersions, copying>>

NewSecret_BrokenEnvironment(key, value) ==
    [id |-> globalSeqCounter + 1, key |-> key, value |-> value, environment |-> None,
     updated |-> "written", version |-> 1,
     versions |-> <<[version |-> 1, value |-> value]>>]

NewSecret(key, value) ==
    [id |-> globalSeqCounter + 1, key |-> key, value |-> value, environment |-> environment,
     updated |-> "written", version |-> 1,
     versions |-> <<[version |-> 1, value |-> value]>>]

(* A new secret, whether or not the environment has one of that name.      *)
handleAddSecret(raw, value) ==
    LET key == raw[1]
    IN  /\ dialog = "add_secret"
        /\ value # 0
        /\ Draws(2)
        /\ secrets' = secrets \cup {NewSecret(key, value)}
        /\ dialog' = "none"
        /\ Log("secret.create", key)
        /\ UNCHANGED <<section, environment, revealed, profiles, currentUser,
                       selectedSecretForVersions, copying>>

Rotated_BrokenSameVersion(s) ==
    LET version == s.version  newVal == globalSeqCounter + 1
    IN  [s EXCEPT !.version = version, !.value = newVal, !.updated = "written",
                  !.versions = <<[version |-> version, value |-> newVal]>> \o @]

Rotated(s) ==
    LET nextVer == s.version + 1  newVal == globalSeqCounter + 1
    IN  [s EXCEPT !.version = nextVer, !.value = newVal, !.updated = "written",
                  !.versions = <<[version |-> nextVer, value |-> newVal]>> \o @]

(* A click on the secrets page or on the rotations page.                   *)
handleRotateSecret(s) ==
    /\ \/ At("Secrets") /\ s.environment = environment
       \/ At("Secret_rotations")
    /\ Draws(2)
    /\ secrets' = {IF t.id = s.id THEN Rotated(t) ELSE t : t \in secrets}
    /\ Log("secret.rotate", s.key)
    /\ UNCHANGED <<section, environment, revealed, profiles, currentUser, dialog,
                   selectedSecretForVersions, copying>>

handleDeleteSecret_BrokenByKey(s) ==
    /\ At("Secrets")
    /\ Draws(1)
    /\ secrets' = {t \in secrets : t.key # s.key}
    /\ Log("secret.delete", s.key)
    /\ UNCHANGED <<section, environment, revealed, profiles, currentUser, dialog,
                   selectedSecretForVersions, copying>>

handleDeleteSecret(s) ==
    /\ At("Secrets")
    /\ Draws(1)
    /\ secrets' = {t \in secrets : t.id # s.id}
    /\ Log("secret.delete", s.key)
    /\ UNCHANGED <<section, environment, revealed, profiles, currentUser, dialog,
                   selectedSecretForVersions, copying>>

(* The version history shows the secret as it is at the click.             *)
setSelectedSecretForVersions(s) ==
    /\ At("Secrets")
    /\ dialog' = "versions"
    /\ selectedSecretForVersions' = s
    /\ UNCHANGED <<globalSeqCounter, section, environment, secrets, revealed, auditLogs,
                   profiles, currentUser, copying>>

CloseVersions ==
    /\ dialog = "versions"
    /\ dialog' = "none"
    /\ selectedSecretForVersions' = None
    /\ UNCHANGED <<globalSeqCounter, section, environment, secrets, revealed, auditLogs,
                   profiles, currentUser, copying>>

RolledBack(s, target) == [s EXCEPT !.value = target.value, !.updated = "rollback"]

handleRollbackSecret_BrokenLeftOpen(target) ==
    LET selected == selectedSecretForVersions
    IN  /\ dialog = "versions"
        /\ target.version # selected.version
        /\ Draws(1)
        /\ secrets' = {IF s.id = selected.id THEN RolledBack(s, target) ELSE s : s \in secrets}
        /\ Log("secret.rollback", selected.key)
        /\ UNCHANGED <<section, environment, revealed, profiles, currentUser, copying, dialog,
                       selectedSecretForVersions>>

handleRollbackSecret_BrokenSilent(target) ==
    LET selected == selectedSecretForVersions
    IN  /\ dialog = "versions"
        /\ target.version # selected.version
        /\ secrets' = {IF s.id = selected.id THEN RolledBack(s, target) ELSE s : s \in secrets}
        /\ dialog' = "none"
        /\ selectedSecretForVersions' = None
        /\ UNCHANGED <<globalSeqCounter, auditLogs, section, environment, revealed, profiles,
                       currentUser, copying>>

(* The value of an older version comes back; version and versions stay.    *)
handleRollbackSecret(target) ==
    LET selected == selectedSecretForVersions
    IN  /\ dialog = "versions"
        /\ target.version # selected.version
        /\ Draws(1)
        /\ secrets' = {IF s.id = selected.id THEN RolledBack(s, target) ELSE s : s \in secrets}
        /\ Log("secret.rollback", selected.key)
        /\ dialog' = "none"
        /\ selectedSecretForVersions' = None
        /\ UNCHANGED <<section, environment, revealed, profiles, currentUser, copying>>

-----------------------------------------------------------------------------
Navigate ==
    \/ \E page \in Sections : setSection(page)
    \/ OverviewPage
    \/ \E e \in Environments : setEnvironment(e)

Profiles ==
    \/ \E i \in DOMAIN profiles : setCurrentUser(profiles[i])
    \/ \E name \in ProfileNames : handleCreateProfile(name)
    \/ setOpenProfileModal

(* The buttons of a row of the secrets page.                               *)
Row(s) ==
    \/ \E c \in Copies : copyToClipboard(c, s)
    \/ toggleReveal(s.key)
    \/ handleDeleteSecret(s)
    \/ setSelectedSecretForVersions(s)

SecretsPage ==
    \/ setOpenAddSecret
    \/ \E raw \in RawKeys, value \in TypedValues \cup {0} : handleAddSecret(raw, value)
    \/ \E s \in filteredSecrets : Row(s)

Versions ==
    \/ CloseVersions
    \/ /\ dialog = "versions"
       /\ \E v \in DOMAIN selectedSecretForVersions.versions :
             handleRollbackSecret(selectedSecretForVersions.versions[v])

(* The button of a secret in the list of rotations, or of the secrets.     *)
RotationsPage == \E s \in secrets : handleRotateSecret(s)

Next ==
    \/ Navigate
    \/ Profiles
    \/ SecretsPage
    \/ Versions
    \/ RotationsPage
    \/ \E c \in Copies : CopyDone(c) \/ CopyRefused(c)

Spec == Init /\ [][Next]_vars

-----------------------------------------------------------------------------
(* The types of the state.                                                 *)
TypeOK ==
    /\ globalSeqCounter \in FirstId .. MaxId
    /\ section \in Sections
    /\ environment \in Environments
    /\ secrets \subseteq Secret
    /\ revealed \subseteq Keys
    /\ auditLogs \in Seq(AuditLog)
    /\ profiles \in Seq(UserProfile)
    /\ \E i \in DOMAIN profiles : currentUser = profiles[i]
    /\ dialog \in {"none", "add_secret", "profile", "versions"}
    /\ dialog = "versions" <=> selectedSecretForVersions # None
    /\ copying \in [Copies -> Copy \cup {None}]

(* The version history tells what a secret's value is and was, whatever is *)
(* rotated, rolled back and copied in between, and no two secrets share an *)
(* id, by which the handlers find them.                                    *)
HistoryTruthful ==
    \A s \in secrets : Truthful(s) /\ \A t \in secrets \ {s} : t.id # s.id

(* The n-th oldest event of the trail, and which are about a name.         *)
Oldest(n) == auditLogs[Len(auditLogs) + 1 - n]

Events(action, key) ==
    {n \in DOMAIN auditLogs : Oldest(n).action = action /\ Oldest(n).resource = key}

Having(some, key) == {s \in some : s.key = key}

(* The audit trail accounts for the secrets: of every name there are as    *)
(* many as the seed data had and were created, less those deleted.  Names  *)
(* are not unique, and a deletion must take one secret, not its namesakes. *)
LedgerBalances ==
    \A key \in Keys :
        Cardinality(Having(secrets, key)) + Cardinality(Events("secret.delete", key))
          = Cardinality(Having(InitialSecrets, key))
            + Cardinality(Events("secret.create", key))

(* Who was active after the n oldest events: whom the last of them that    *)
(* switched to or created a profile names.                                 *)
UserAfter(n) ==
    LET switches == {m \in 1 .. n :
            Oldest(m).action \in {"user.profile.switch", "user.profile.create"}}
    IN  IF switches = {} THEN InitialProfiles[1].name
        ELSE Oldest(CHOOSE m \in switches : \A k \in switches : k <= m).resource

(* An event names the user who was active at the click, also when it is    *)
(* written after the user has been switched, as a copy's may be, and for   *)
(* the switch itself.                                                      *)
EveryEventNamesItsUser ==
    /\ \A n \in DOMAIN auditLogs : Oldest(n).actor = UserAfter(Oldest(n).clicked)
    /\ currentUser.name = UserAfter(Len(auditLogs))

(* The dialog acts on what it shows: the secret of which it keeps a copy   *)
(* has not changed since, nor gone.                                        *)
SnapshotCurrent ==
    selectedSecretForVersions # None => selectedSecretForVersions \in secrets

(* The trail only grows, with one event a step, and no secret gets another *)
(* value but with the event of it.                                         *)
TrailKept ==
    [][/\ \/ auditLogs' = auditLogs
          \/ /\ Tail(auditLogs') = auditLogs
             /\ \A i \in DOMAIN auditLogs : auditLogs[i].id < Head(auditLogs').id
       /\ \A s \in secrets, t \in secrets' :
             s.id = t.id /\ s.value # t.value =>
                /\ auditLogs' # auditLogs
                /\ Head(auditLogs').action \in {"secret.rotate", "secret.rollback"}
                /\ Head(auditLogs').resource = s.key]_vars

(* The audit page: "Immutable event log of every secret access".  A value  *)
(* on the secrets page has been revealed by an event of its own, one that  *)
(* is newer than the secret.                                               *)
ShownValuesWereRevealed ==
    section = "Secrets" =>
        \A s \in filteredSecrets : s.key \in revealed =>
            \E n \in Events("secret.reveal", s.key) : Oldest(n).id > s.id
=============================================================================
