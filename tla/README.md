# Formal specification of the secret manager

TLA+ modules of the parts of this repository where overlapping requests, late
commits and partial failures decide whether the system is correct, the TLC
configurations that check them on small instances, and TLAPS proofs for every
size of instance. Every definition follows the code under `src/`; the
correspondence, definition by definition, is in `PROJECT.json` under `map`.

## 1. The system

The API (`src/apps/api`) is a FastAPI application over PostgreSQL. Every request
runs in one session: `get_db` (`db/session.py`) commits when the handler
returns and rolls back when it raises. Handlers are coroutines in several
processes, so at every awaited statement any other request may run. No
isolation level is set anywhere: transactions run at READ COMMITTED. No code
locks a row explicitly (`with_for_update` is never used); what orders writers
is the row lock an UPDATE takes until its transaction ends, and the unique
constraints. The Celery worker (`src/apps/worker`) runs the same services in
batches; a Redis lock is to keep two workers apart. The JavaScript client
(`src/sdks/js`) and the web console (`src/apps/web`) each run on one thread:
there, what may run in between is whatever runs while a promise is pending, an
effect has not run yet, or a render's closures are still in use.

| Component | State | Operations | What makes it hard | What makes it correct |
|---|---|---|---|---|
| Secret store (`services/secret_service.py`, `api/v1/secrets.py`, `models/secret.py`) | `secrets` (key, `is_deleted`, `current_version_num`), `secret_versions` | create, update, rollback, delete, reveal | version numbers computed from a read made before the lock; duplicate check and insert in two statements; soft deletion under a running update | history without gap or fork, no lost write, a rollback restores, a deletion sticks |
| Audit ledger (`services/audit_service.py`) | `audit_events`, a hash chain per organization | `log_event` in its callers' transactions, `verify_chain` | read of the newest event and insert of the next in two statements; rollbacks after logging | links resolve; the chain verifies; tampering is detected |
| Change requests (`services/change_request_service.py`) | `secret_change_requests` | create, review, apply, cancel | status checked in memory, row updated by id; apply writes two components in one transaction | nobody approves alone; an application took effect; the state machine is followed |
| Rotation worker and `DistributedLock` | `secret_rotations`, Redis keys, memory fallback | rotate a batch, acquire, release | lock released before the commit, TTL, one commit for the batch, failed flushes | versions, events and failed rows agree; a lock is released by its owner; what is due is settled |
| KMS service (`services/kms_service.py`) | `managed_keys`, `managed_key_versions` | create, rotate, disable, encrypt, decrypt, sign, verify | rotations that overlap make the same number; what was sealed is opened after others have rotated | what a client was given opens with the version it names |
| Master keys (`core/kms_provider.py`, `core/crypto.py`) | the registry in the memory of a process, wrapped data keys | rotate, wrap, unwrap, re-wrap, restart | an identifier used again, a registry that a restart forgets | every stored secret can be unwrapped |
| Privileged access (`services/pam_service.py`) | `access_requests`, `access_approvals` | request, review, revoke | racing reviewers, revocation against review | nobody decides on a request of his own, a decision is overruled by nobody who has read it |
| PKI (`services/pki_service.py`) | certificates, `crl_number` | issue, revoke, CRL | two locks, lost update of the number | a CRL lists what was revoked before |
| Agent proxy (`services/agent_service.py`) | `agent_sessions`, secrets, the trail | session, revoke, proxied call | the session, the policy and each secret are read at moments of their own; the request leaves before the commit | the trail names what was sent, and it was current |
| Rate limiter (`core/rate_limiter.py`) | counters in Redis or in memory | `check_rate_limit` | increment and expiry in two calls, fallback | a window admits what it should, a counter resets |
| Dynamic leases | `dynamic_leases` | issue, revoke, expiry sweep | the sweep | not modelled, see section 8 |
| JavaScript client (`sdks/js/src/client.ts`) | a map from keys to values with expiry times | get, invalidate | a fetch in flight during an invalidation, timeouts, a default for missing secrets | a bound on the age of an answer; a default for missing secrets only |
| Web console (`app/page.tsx`) | secrets with versions, revealed names, profiles, certificates, access requests, the audit trail; leases, scan results, integrations and ciphertext per page | one handler per button | the copy to the clipboard awaits; a dialog works on a copy of a secret; names against ids; what a page forgets when it is left | histories, trail and what is shown agree |
| Web API client (`lib/api.ts`) | the token | login, setAuthToken, the requests | answers in another order than their calls | a sign-out, or a login, that ended while no other login was in flight is undone by no older one |
| Web component library (`components/ui`) | open state and cookie of the sidebar, the carousel's position, the pending copies of a card, memos | see section 2 | effects against events, closures of an older render, memos | see section 3 |
| Accounts (`services/auth_service.py`, `api/v1/auth.py`) | `users` | register, set up MFA, enable MFA, log in | checks against a row that another call changes before the commit | a row is what the committed calls made of it |
| Roles and tenancy, scanner, integrations, seed, deployment | - | - | - | not modelled, see section 8 |

Interaction: every service that changes something calls `log_event` in the same
session, so its audit event commits or disappears with the change. `apply` of a
change request and the rotation worker call the secret service in their own
transaction. `PROJECT.json` lists the hazards of all components with the line
where each bites, including those no module covers yet.

## 2. Modules

| Module | Content |
|---|---|
| `SecretStore` | the secret store; a request is a transaction, a step is one statement |
| `VersionedSecrets` | what the store promises: per secret a sequence of values that only grows, and a mark when deleted |
| `SecretStoreProofs` | inductive invariant of `SecretStore` and what follows from it |
| `AuditChain` | the ledger of one organization, its verifier, alterations of stored rows |
| `AuditChainProofs` | that links resolve, that serial logging verifies, and that tampering is detected |
| `ChangeRequests` | change requests composed with an instance of `SecretStore` |
| `ChangeRequestsProofs` | four eyes, effects, the state machine, and that the composition implements `SecretStore` |
| `RotationWorker` | batches of scheduled rotations, the distributed lock, the users beside them |
| `ManagedKeys` | keys of the KMS API: rotations against encryption, decryption and each other |
| `ManagedKeysProofs` | inductive invariant of `ManagedKeys`, and that every ciphertext opens |
| `MasterKeys` | the registry of master keys, rotation, re-wrapping, restart |
| `AccessRequests` | one access request, its reviewers and its revocation |
| `CertificateAuthority` | certificates of one authority, revocation, the CRL |
| `RateLimiter` | one rate-limited key in Redis and in the memory of the processes |
| `AgentProxy` | a session of an agent and its calls, while secrets change |
| `Accounts` | registration, MFA and login by overlapping calls |
| `ServicesProofs` | inductive invariants of `RotationWorker`, of the five from `MasterKeys` to `AgentProxy` and of the composition `MCServices`, with that of `ManagedKeys` |
| `SdkClient` | the JavaScript client against a server whose secrets change |
| `SdkClientProofs` | inductive invariant of `SdkClient` and what follows from it |
| `WebConsole` | Home: secrets, version history, profiles, audit trail |
| `WebConsoleProofs` | inductive invariant of `WebConsole` and what follows from it |
| `ConsolePages` | the other pages: leases, scanner, integrations, certificates, KMS, access |
| `ApiClient` | the token of the web application's requests |
| `WebSidebar`, `WebCarousel`, `SecretCard` | components with effects, subscriptions or asynchronous handlers |
| `ChartTooltip`, `FormFields` | what is shown, derived from props, a memo, and the errors of a form |
| `WebLibrary` | the seven modules above, from `ConsolePages` on, side by side |
| `WebLibraryProofs` | inductive invariants of the seven and what follows for `WebLibrary` |
| `MC...` | values and symmetry sets for TLC; `MCServices` also puts seven modules side by side, `MCTrailStoreAccounts` three |

A definition named `..._Broken...` is not part of a model. It is a defect such
as a change of the code could bring, kept next to the definition it would
replace, to see that a property notices it (`mutants` in `PROJECT.json`). A
property of several parts has such a defect for more than one of them; the list
in `PROJECT.json` holds one per property, and TLC finds the others too.

### SecretStore

`key`, `is_deleted`, `current_version_num` and `versions` are the committed
tables. `tx[r]` is what request `r` holds in its session: the operation, its
arguments, and `seen`, the `current_version_num` of the ORM instance. The first
SELECT (`get_owned_secret`) fixes `seen`: the second SELECT of the service
meets the identity map of the session and does not refresh it, although its
WHERE clause sees deletions committed since. `pc[r]` runs through

    idle -> loaded -> selected -> flushed -> ok        (failed from any of them)

Load/BeginCreate are the first SELECT with its checks, Reselect... the second,
Flush... the UPDATE and INSERT (which wait for the row lock or fail on
`uq_secret_version`), Commit... the commit. `Abort` is any exception,
lost connection or crash before it. The UPDATE of a deletion writes
`is_deleted` only and that of an update writes `current_version_num` only,
as the ORM does; encryption, comments and the audit event are left out.
`uq_secret_scope_key` contains the nullable `folder_id`, so it never conflicts.

### AuditChain

`events` are the committed rows, `pending[t]` those a transaction has flushed,
`prev_hash[t]` the hash it read. ReadHead and Insert are the two halves of
`log_event`; Commit and Rollback belong to the caller. Hashes are injective
tuples. Alter and Remove do what the tests in
`tests/security/test_audit_immutability.py` do with SQL, once in a behaviour.
The last event cannot be missed by a chain, so Remove takes one that others follow.
`overlapped` and `tampered` record what a behaviour has seen; no action reads
`overlapped`, and `tampered` only limits tampering to once.

### ChangeRequests

`cr` are the rows, `call[r]` what a call has read and how far it is, `trail`
the committed audit events `secret.change_request_*`. A call checks the status
when it reads the row, waits for the row lock at its flush, and writes the
status at its commit. `apply` takes the steps of `Store == INSTANCE SecretStore`
in between and commits the two together. Requests outside `Calls` use the
secret endpoints directly. What apply cannot do is in `Applicable`: it raises
for every delete (it calls `secret_service.delete_secret`, which does not
exist) and for a create or update without value or secret. A rollback is marked
applied without any change in the store, since no branch handles that type; the
plan (`docs/plans/secrets-approval-workflows.md:11`) has an application create a
version. `contended` records changes on which two calls have overlapped; no
action reads it.

### RotationWorker

A worker's `run[w]` is one transaction of `rotate_scheduled_secrets`: `todo` is
what it has read as due and not yet met, `at` and `holds` the rotation it is at
and how its lock was taken, `seen` the version `db.get` read, `flushed` and
`failed` what it will commit. Its steps are

    idle -> batch -> locked -> loaded -> selected -> release -> batch ... -> idle

with `refused` for a 404 of `update_secret` (the row is failed), and `poisoned`
after a flush that failed: the session then refuses the flush of the except
clause, the exception leaves the task after the lock is released, and everything
the batch did is gone. `WaitsFor` are PostgreSQL's row locks. The two facts that
shape the component are that the lock of a rotation is released before its batch
commits, so it does not keep a second batch from rotating again, and that
batches read their rows in no order, so that two may deadlock. The module states
what holds nevertheless. `docs/SECURITY_AUDIT.md:62` calls double rotation
remedied by the lock; it still happens, as two versions and two events. The
secret store appears as a version number per secret: what `update_secret` does
to histories is `SecretStore`'s subject.

### ManagedKeys

A request reads the row once (`get_owned_kms_key`); what the service does with
`db.get` meets the same instance. `seen[r]` is that version. A rotation flushes
the number after it with new material: the flush waits for the row and then fails
on `uq_managed_key_version` if that number exists. `current` and `versions` are
the two tables, written by the commits; the UPDATE of a rotation and that of a
disabling write different columns. Opening takes the material of the row that was
read when its number fits, else that of the version in the table by then
(`Found`). `sealed` is what clients hold; material is named after the request
that generated it.

### MasterKeys

No method of the provider awaits, so each is one step. `Rotate` registers the new
key as version 1 unless the identifier is the active one, `Restart` leaves the
configured key alone as version 1. Both can lose keys: rotating back to an
identifier replaces its version 1, and a restart forgets every version that was
rotated in, also that of the key which is then configured. `careful` says that
the operator has avoided the two: `EverySecretOpens`, half of `EverythingOpens`,
shows that nothing else loses a key.

### AccessRequests, CertificateAuthority

Calls that read, wait for a row and commit, as in `ChangeRequests`. Each event of
the trail carries how long the trail was when its call read the row (`read`),
which says whether two calls overlapped. Calls on an access request that overlap
overrule each other: a review may commit after a revocation it did not see, and one
approver may be recorded twice. `DecisionsStand` is about those that read what the
others did; what the repository says of all of them is the subject of
`ApprovedWhilePending` (section 3). `CertificateAuthority` has two rows to
lock, the certificate and then the authority; the number that is written comes
from the read in between. Revoking again is allowed and counts again.

### RateLimiter, AgentProxy

`RateLimiter` has time in steps, a counter of Redis that expires and one window
per process. INCR may fail, or succeed with its answer lost; so may EXPIRE. As
history it keeps, in order, the instants at which requests were admitted, by Redis
(`admitted`) and by each process (`inMemory`). In
`AgentProxy` a call resolves placeholders one at a time, in the headers before
the body, and each secret is selected twice (`SelectSecret`, `Reveal`): a
deletion is noticed by either, an update by the first, unless the instance is
still in the session. `Send` comes before `Commit`: when the commit fails, or the
destination does not answer, values have left the system and no event says so.
That is what the code does, and no text of the repository says otherwise;
`CallsAccounted` is about calls that were answered.

`MCServices` puts these six beside `RotationWorker`, whose state it extends.

### Accounts

A call reads the row at its beginning, and what it checks, it checks of that row: the
address is free, the code belongs to the secret, MFA is enabled. Its UPDATE writes one
column, so that a setup and a verification that overlap both take effect. Passwords
are right and tokens valid, for otherwise nothing changes; a code stands for the secret
that generates it. `commits` is history, from which `RowsFollowCommits` tells what each
row has to be and which secret the code of a login had to fit. A setup after MFA has been
enabled replaces the secret at once; nothing in the code promises that a code of the
new one was verified, and neither does the property. `MCTrailStoreAccounts` runs the
module beside `AuditChain` and `SecretStore`.

### SdkClient

What `get` does up to its fetch is one step (`GetUnscoped`, `GetCached`,
`GetFetched`), the server's answer is chosen when it is sent (`Respond`), and
what the client does with it is another (`Receive`, `Abort`, `NetworkError`).
`history` says when each secret changed, so that an answer can be compared with
what was true at any moment since the call.

### WebConsole and ConsolePages

A handler is one step, for React applies its changes before the next event; only
`copyToClipboard` is two. A dialog is modal, which its guards say (`At`). `secrets`
is a set: the page shows the newest first, but no handler looks at places. The
numbers `generateId` and `generateToken` draw are drawn in the same order. Each
event carries how many events there were when the user clicked, which lets
`EveryEventNamesItsUser` compare the event of a copy with who was there then.
Leases, integrations, scan results and the ciphertext are `useState` of a page
and start afresh whenever it is opened. A scan finds a set of the leaks the scanner
knows, which its event counts. A rollback names "Saurabh Kuthe"
whoever the user is, as the code does, and the version history shows values
without an event.

### The component library

`WebSidebar` has the window as an actor: it is resized between the first render,
the effect that subscribes and the events it delivers. A handler uses `rendered`,
the values of the render that made it. `WebCarousel` has Embla as the external
actor that creates the API, emits and changes slides, `SecretCard` a parent that
passes other props while a copy is pending; the page may have a clipboard or none.
`ChartTooltip` has the memo of the label with its dependencies and the
lookups of tooltip, legend and style; `FormFields` the ids, attributes and
messages of a field. What the source does and no property forbids:

- `ApiClient`: a login that is in flight when the user signs out brings its token back
  (`lib/api.ts` sets the token when the answer comes).
- `SecretCard`: without a clipboard, as in a page that is not served securely,
  `navigator.clipboard?.writeText` does nothing, and `onCopy` is called all the same.
- `WebSidebar`: `setOpen` branches on `onOpenChange` alone and `open` on the prop alone. A
  sidebar that is given only one of the two writes a cookie which its open state need
  not match.
- `FormFields`: a control always refers to a description id, even when there is
  no description; `FieldError` that is given children shows these, whatever the
  errors, and otherwise may raise an empty alert for two different errors without a message.

`WebLibrary` composes seven modules that share no variable. `subject`, fixed by
the initial state, says which of them a behaviour runs; the state graph is the
union of theirs, and a property is the conjunction of the modules' own. All of
their data, that of the seeds, charts and forms included, are constants, to
which `MCWebLibrary` gives values. `MCServices` and `MCTrailStoreAccounts` compose in
the same way.

## 3. What the runs check

| Run | Instance | Result |
|---|---|---|
| `secret_store` | 4 requests, 2 secrets (1 seeded), 2 names, 2 values; 420,000 states | history intact, no acknowledged write lost, rollbacks restore, reveals answer the version they name, deletions stick, and the store implements `VersionedSecrets` |
| `secret_store_duplicate` | 2 creates of one name | violated: two live secrets of one name |
| `trail_store_accounts` | the ledger with 3 transactions of 2 events and 2 contents; the store with 3 requests and fair handlers; 4 calls on an account; 258,000 states | links resolve, serial logging verifies, tampering is detected; every request that starts is answered; accounts are what the committed calls made of them |
| `audit_chain_fork` | 2 transactions, 1 event each | violated: an untouched ledger does not verify |
| `change_requests` | 1 change request, 3 calls, 1 direct request, 2 users; 357,000 states | four eyes, applications took effect, calls that do not overlap follow the state machine, and the store is used as `SecretStore` allows |
| `change_request_reapproved` | 3 calls | violated: an applied change request becomes approved again |
| `access_request_reapproved` | 2 calls, 2 users | violated: a revoked access request becomes approved |
| `services` | each module in its own bounds; 360,000 states | see below |
| `sdk_client` | 2 calls, 1 name in 2 environments, 1 change each, 3 instants; 859,000 states | an answer is never older than the lifetime of an entry and a fetch allow; an invalidation that no fetch overlapped is heeded; only what is missing is answered by the default |
| `web_console` | 2 names, 2 environments, 2 users and a new one, 1 copy, 5 drawn numbers; 2,730,000 states | versions are distinct and in order, the trail accounts for what there is, events name who clicked, the version history shows the secret as it is, and the trail only grows |
| `web_console_reveal` | as `web_console` | violated: a value is shown for which there is no reveal event |
| `web_library` | each module in its own bounds; 111,000 states | see below |

Bounds. A request, transaction or call is used once, so the size of the set
bounds how many a behaviour has. Four requests on one secret let a writer be
overtaken by two others and a fourth observe it; two secrets suffice because
the operations of different secrets meet only in the duplicate check of a name,
for which there are two names. Two values distinguish a restored value from the
current one. Three transactions of two events allow a fork whose branches
overlap with a third transaction and with a second event of their own. Three
calls are the least that approve, apply and interfere; the fourth request writes
the same secret from outside. With one value in that run,
`AppliedTookEffect` identifies the version by the number the call appended.
Change requests of types delete and rollback are proposed without a value,
at which apply does not look. Who applies or cancels is not
represented, since the code compares nobody with them.

In `services`, by module:

- `RotationWorker`, 2 workers, 2 rotations, each due twice, one fault:
  `RotationsAccounted` (a success stands for a version of its own, a failed row
  for a failure event), `LockKept` (no release takes away another's lock) and
  `DueSettled` (what is due is settled).
- `ManagedKeys`, 1 key, 4 requests: `EverythingOpens`, which includes
  `EveryCiphertextOpens`. Two rotations, one that
  seals and one that opens are the least; a key that is created is one of them. The
  theorem has no bound.
- `MasterKeys`, 2 versions of secrets, 3 identifiers, 4 keys: `EverythingOpens`,
  which includes `EverySecretOpens`.
  Three rotations leave an identifier, come back to it and go on.
- `AccessRequests`, 3 calls, 2 users: `DecisionsStand`. Two reviewers and a
  revocation overlap in every way; row and trail agree, and who read a decision
  does not overrule it. Who did not read it may: see below.
- `CertificateAuthority`, 3 calls, 2 certificates: `DecisionsStand` too, which
  includes `RevocationsListed`: a CRL lists every revocation acknowledged before
  it was asked for, and the number is right unless revocations overlapped.
- `RateLimiter`, 2 requests per 3 seconds, 5 instants, 6 requests: `LimitKept` (no
  window admits more than two windows' requests, and a counter is forgotten). Two
  windows touch, fail over and are cut off.
- `AgentProxy`, 1 call, 2 secrets in headers and body, one update each:
  `CallsAccounted` (the trail of an answered call names exactly what was sent, and
  it was current since the call began). Calls meet in the secrets and the session only,
  which other actors change at any moment.

Two rotations and two workers are the least that can wait for each other in a
circle. A rotation due a second time shows that a batch which rotated it does not
confuse the next. A fault is a crash, a failure of Redis, an execution that
outlives its lock, or an update or deletion by a user: one is enough for each of
the paths; with two, the safety properties were checked as well, in 1,550,000
states. In
`sdk_client` time runs to 3 with a lifetime and a timeout of 1, so an entry can
expire and be renewed, and a timeout can fall on the instant of a change. Five
drawn numbers allow five actions that are logged, of which a creation draws two:
create, reveal, delete, create again is the longest story a property needs.

In `trail_store_accounts`, four calls on one address are a registration, a setup and two
more that overlap: another setup and a verification, or a verification and a login.
Two registrations may meet as well.

In `web_library`:

- `LateIsHarmless`: two calls and four operations let a login be overtaken by
  another and by a sign-out (`ApiClient!TokenNotRevived`); handlers of an older
  render meet three resizes and a parent that passes other props
  (`WebSidebar!CookieRemembers`, of a sidebar that is given neither `open` nor
  `onOpenChange`; `SecretCard!CopiedWasWritten`, of a page with a clipboard).
- `EffectsCatchUp`: up to three resizes and three slides, before and after the
  effects have run (`WebSidebar!WidthNoticed`, `WebCarousel!ButtonsEnabled`).
- `ShownIsTrue`: four drawn numbers, by which certificates, decisions, leases and
  what a page shows have their events (`ConsolePages!KeptIsAccounted`,
  `ShownHasEvent`); charts with entries with and without labels, colours and themes
  (`ChartTooltip!TooltipTruthful`); forms of two fields with up to two errors
  (`FormFields!ErrorsAnnounced`, its list for fields whose `FieldError` has no children).
Symmetry is used where identities are only compared for equality: requests,
names, values, transactions, contents, calls and users. Of the runs with liveness,
`services` and `web_library` use none, and `trail_store_accounts` permutes only the
transactions and contents of the ledger, on which no state of the store depends.

Deadlock checking is off because every behaviour ends when all requests have
been answered; that nobody waits for ever is what `EveryRequestAnswered` says.

### The five disagreements

- **Duplicate names.** `create_secret` says a name that exists is refused
  (`secret_service.py:34`, `:47`). Two creates that overlap both find nothing and
  both commit. Afterwards every lookup by that name finds two rows and raises.
- **Forked ledger.** The PRD (`docs/PRD_TRD.md:207`) has the chain stay contiguous.
  Two transactions that overlap link to the same event, and `verify_chain`
  reports a break in a ledger nobody touched. `SerialChainVerifies` shows that
  overlap is the only cause, `EveryLinkResolves` that the ledger is still a tree.
- **Shown without an event.** The console calls its trail a log of every secret
  access (`page.tsx:1676`). `revealed` holds names and no name is ever removed with
  its secret, so a secret of that name in the other environment, or one created
  after a deletion, is shown at once and nothing is logged. `LedgerBalances` shows
  that the trail accounts for everything else.
- **Approved again.** The plan of the approval workflow (`:60`) forbids to
  approve an applied change request. A reviewer who read it pending does so when
  the commit comes after another review and the application.
  `UncontendedStateMachine` shows that overlap is the only cause, and
  `FourEyes` that even then somebody other than the requester has approved.
- **A revocation undone.** The audit of security (`docs/SECURITY_AUDIT.md:49`) has
  duplicate reviews prevented and requests that are not pending never approved again, and
  `pam_service.py:95` refuses them. A review that read the request pending commits
  after the revocation, or after another review by the same approver, and approves.
  `DecisionsStand` shows that overlap is the only cause, and that nobody decides on a
  request of his own even then.

## 4. Fairness

- `trail_store_accounts`, in `SecretStore` only: weak fairness of each request's own
  next step once it has started. The event loop resumes a coroutine when its statement
  has returned, and PostgreSQL grants a row lock when its holder ends. Arrival of
  requests, failures and crashes have no fairness.
- `services`, in `RotationWorker` only: weak fairness of a worker's going on, by
  starting a batch (beat does it every five minutes, `celery_app.py`) or by the next
  step of the one it runs, and of the expiry of some key whose owner is gone; strong
  fairness of a worker's two flushes that wait for a row, for
  PostgreSQL queues waiters, and a batch that begins later does not overtake one
  that waits. Executions that outlive their lock are faults, and faults are
  bounded: if every execution took longer than 120 seconds, two workers could abort each
  other for ever, and TLC finds that behaviour when the bound is lifted.
- `web_library`: weak fairness of what React and the browser do by themselves: running an
  effect, delivering an event, rendering, creating the carousel. Nobody need click.

All other properties are safety properties and need none.

## 5. What is proved

Each theorem holds for any number of requests, secrets, transactions, changes,
workers, keys, calls, copies and users, and for any names, values and times. The
proofs have one shape: an inductive invariant, whose parts are named after what they
say, holds initially and is kept by every step, one lemma per kind of step; the
properties follow from it.

- **`SecretStoreProofs`**: `TypeCorrect`, `HistoryStaysIntact`, `NoWriteLost`. The
  history alone is not inductive: a request carries a version number it read
  long ago. The invariant `IInv` adds, per request, that what it read was once
  the head (`ReadsRow`), that from flush to commit it holds the row lock alone
  (`LockExclusive`) and its number is still the head (`HoldsHead`, which
  `uq_secret_version` establishes at the flush: if the number were stale the
  version after it would exist already), that a rollback holds the value of its
  target (`Copied`), and that a create owns its identity (`Fresh`).
  Steps that append nothing share `QuietStep`, the two that append `AppendStep`.
  - `DeletionStays`, `RollbacksRestore` and `RevealsAnswerTheirVersion` each add to
    `IInv` what an answered request leaves behind: a deletion is a flag no step
    clears, and a version, once written, is never written again.
  - `Implementation`: `SecretStore` implements `VersionedSecrets`. The mapping makes
    a sequence of values of the version rows (`Contents`) and the set of deleted
    secrets of the flags (`Gone`). `AppendedContents` is the heart of it: by the
    invariant the row of the next number is the only one with that number, so that
    a commit appends one value to one sequence. Commits are Write, Delete or, for a
    second deletion, nothing; every other step is a stutter.
- **`AuditChainProofs`**: `TypeCorrect`, `LinksResolve`. `LinkInv` extends the claim to
  what transactions have flushed and what they have read: a link resolves in
  what its transaction sees, which only grows until it commits.
  - `SerialChain`: while no two transactions have logged at a time, the one that logs
    extends the chain it sees (`SerialInv`), and that becomes the ledger.
  - `Tampering`, an action property: `HashInv` says that no two rows share a place and
    that no row is its own predecessor, whatever forks there are. So the event after
    the one that was changed or removed no longer continues what it follows.
- **`ChangeRequestsProofs`**: `TypeCorrect`, `FourEyesHold`, `StoreImplemented`. A call
  carries the verdict of its read through statuses that others overwrite; the
  committed audit events are what never changes under it, so the invariant says
  that an approval by another user is in `trail` for every row that is approved
  and every application under way. With the types of the row it gives that
  every step of the composition is a step of the store or leaves it alone. The
  store's part of the invariant is reused through an instance of
  `SecretStoreProofs`.
  - `ChangesTookEffect`: the transaction that applies carries what the row proposes
    (`Faithful`), to its commit and, as a version, for ever (`Effect`). The row may be
    read again and applied again; the version of the first application stays.
  - `StateMachineKept`, an action property: a call whose change nobody else has touched
    is the only one on it, and the status it has checked still stands (`AloneInv`,
    with the table `Checked`).
- **`ManagedKeysProofs`**: `TypeCorrect`, `CiphertextsOpen`. The claim is about the end of
  a request; `IInv` adds what makes it true: no two versions of a key share a
  number (`Numbered`), since a rotation that has flushed holds the row alone and
  its number is free (`RotatesNext`), a creation owns a key that nobody knows
  (`CreatesFresh`), and whatever was read, sealed or presented is a version that
  exists (`Known`) of the key it is opened with (`OpensItsKey`).
- **`ServicesProofs`**: the invariants of the seven services hold together
  (`ServicesInductive`), since a step of one leaves the others' variables alone. From it
  `ServicesTypeCorrect`, `EverythingIsOpened`, `DecisionsAreFinal`, `CallsAreAccounted`,
  `LimitsAreKept` and `RotationsStayAccounted`.
  - Rotation worker (`IInv`): `TypeCorrect`, `LocksAreKept`, `RotationsAreAccounted`. A
    batch carries, from its flush to its commit, a version that is not in the table
    yet. `IInv` adds that this version is the one after the table's
    (`FlushedIsNext`), which stays true because at most one batch has flushed a row
    (`RowsExclusive`, from the row locks) and no user writes it meanwhile, and that an
    execution with a lock is at a rotation (`AtOne`). Steps that write no table
    share `QuietTables`; flush and commit have proofs of their own.
  - Master keys (`MasterInv`): a registry has one entry per identifier and version, and
    for a careful operator the active entry is the newest of its identifier, so a new
    version replaces none.
  - Access requests (`AccessInv`): a call in flight has read a row that was not revoked,
    and one that decides has read it undecided (`ReadBefore`).
  - Certificates (`AuthorityInv`): a CRL under way lists what was revoked before it
    (`CertificateKnown`); what a revocation read of `crl_number` is at most one more
    than the revocations that are done (`CountedInTime`), and exactly that unless
    revocations overlapped (`Alone`).
  - Agent proxy (`ProxyInv`): what a call has resolved was current since it began
    (`ResolvedSince`), what it sent is what it resolved (`SentIsResolved`), and its event
    says so (`Logged`).
  - Rate limiter (`LimiterInv`): one request at most has still to set an expiry
    (`OneToExpire`), and there is none without a counter (`NoCounterNoExpiry`). The
    limit itself is not about the counter but about every window of time, also one
    that begins in the middle of another. The invariant says that of the instants
    admitted so far, any two that are `2 * max_requests` apart are a window apart
    (`Spaced`). To be kept by the next request it needs a point in that sequence
    (`ByRedis`): after it are the requests the counter that is there has admitted, at
    most `max_requests` with the one that has not set its expiry yet; those before it
    were admitted a window or more before that counter expires. `FromMemory` says the
    same of a process's own window. That no window then holds more is a fact about
    sequences in order, proved apart.
- **`SdkClientProofs`**: `TypeCorrect`, `StalenessIsBounded`, `InvalidationsAreHeeded`,
  `MissingIsMissing`. An answer is only as true as what was carried to it: a call that
  the server has answered holds a state of the secret that stood when the call started
  (`Carried`), an entry of the cache one that stood at its expiry less a lifetime and a
  timeout (`Cached`).
- **`WebConsoleProofs`**: `TypeCorrect`, `HistoriesAreTruthful`, `TheLedgerBalances`,
  `EventsNameTheirUser`, `SnapshotsAreCurrent` and the action property `TrailIsKept`. A
  step is `Quiet`, or writes one event (`Logs`) that says what it does to at most one
  secret (`Writes`); the actions are proved to be one or the other, and the invariant to
  follow from that. It adds that numbers are drawn in order (`Drawn`), which keeps ids and
  generated values apart, and that an event, and a copy under way, refer to a part of
  the trail that no longer changes (`ClickedBefore`, `Named`). `UserNext` and
  `UserStays` are the lemmas on who was active after so many events.
- **`WebLibraryProofs`**: `TypesAreKept`, `LateDoesNoHarm`, `WhatIsShownIsTrue` and
  `EffectsOnceRun`, all from one invariant
  (`LibraryInductive`) with a part for each of the seven modules. `Parts` says that a step of the
  composition is a step of one and a stutter of the others.
  - API client (`ClientInv`): a login in flight is newer than everything that has
    settled, so that its answer cannot undo what settled. What settles is what ends with no
    other login in flight; of a sign-out during a login nothing is said.
  - Sidebar and carousel (`SidebarInv`, `CarouselInv`): a handler writes what the render
    that made it has captured. To the cookie are added the two facts that hold between
    effects: a listener with nothing left to deliver knows the width (`Noticed`), and a
    carousel that follows its slides has the buttons they require (`Follows`). They are the
    safety half of `EffectsCatchUp`.
  - Secret card (`CardInv`): a click that awaits the clipboard holds a value of the
    secret it will name (`Sound`), whatever the parent has passed since. `onCopy` is then
    called with a value that was written or, without a clipboard, with nothing written.
  - Pages (`PagesInv`): certificates and decided requests are counted against the trail,
    one for one (`CertificatesKept`, `RequestsKept`); what a page shows has an event at
    least. A decision changes exactly one request because ids are distinct, which the
    invariant carries along. `LogStep` says what an event adds to the trail, once for
    all handlers; `AmountPrepended` and `AmountChanged` what a new and a changed entry
    add to a count.
  - Chart and form (`ChartInv`, `FormInv`): the memo holds the label of what it depended on
    when it was computed. That label, legend and style agree, and that every message is
    listed once where `FieldError` has no children, are lemmas about the operators
    (`ChartImplied`, `FormImplied`).

Assumptions. `Null` is no secret, name, value or user, seeded secrets are
secrets, calls are requests, a transaction logs at least one event, `None` and
`Lost` are no workers and `None` no rotation, the bounds are numbers, reviewers are
finitely many, a rate limit is at least 1. `GenesisAssumption`: the hash of an event
after Genesis is not Genesis, whose text is no hexadecimal digest. `SeedAssumption`:
the console's seed data is finite, its version histories are in order and its ids
distinct. `TypingAssumption`: nobody types the number of a value that is still to be
generated, and `None` is no name, secret or copy. In `WebLibrary` the pages' seed data
has leases that are active and were numbered before the first draw and requests with ids
of their own, and the scanner knows finitely many leaks. TLC evaluates all of them. Beyond
these, hashes and ciphers are injective by their definitions.

## 6. Only model-checked

- `EveryRequestAnswered`, `DueSettled` and `EffectsCatchUp`: liveness under fairness,
  beyond the prover. `EffectsOnceRun` is the part of the last that is safety.
- `Accounts`, whose property TLC checks for four calls on one address.
- The properties that the code violates, which no theorem could state.

## 7. What is left

Every safety property that a run checks and the code keeps is a theorem, but for
`AccountsKept`, which comes first. What else could be added is listed next with the
reason it was left out; the first candidate is the ledger with a clock per machine,
for which the order of its events would have to be told apart from the order of their
commits.

## 8. Not modelled

- Clocks that differ between machines, and ties of `created_at`: the ledger has
  one clock.
- The moment a response is sent relative to the commit of `get_db`: the models
  answer at the commit.
- The refresh after the commit of a change-request call, which only fills the
  response.
- Ciphers, hashing and encoding, taken as ideal; the logins of machines, roles and
  tenant checks, which compare a request with rows that do not change meanwhile; SSRF
  checks, scanner patterns, connectors, seed data and deployment files.
- Leases. The worker's sweep (`apps/worker/tasks.py:54`) reads `lease.provider`,
  which an asynchronous session cannot load lazily: with an expired lease it raises
  and rolls back, without one it does nothing. What is left are an INSERT and an
  UPDATE that no check precedes. The task that reports expiring
  certificates fails in the same way.
- `create_agent`, `create_resource` and `create_ca`, one INSERT each of a row that the
  modules have from the start, and `reveal_private_key`, which reads and logs. Access
  requests carry no time: no code acts on `expires_at`, or sets a request expired.
- The providers of other vendors in `kms_provider.py`, which raise or keep no state.
- The Python client and the Go programs. The Python client's cache is that of the
  JavaScript one, with threads.
- Dialogs, sheets, drawers, menus, selects, popovers and comboboxes of the component
  library: Radix, vaul and Base UI decide how they open and are dismissed, and the source
  only styles them.
- In the web application: the search box and filters, toasts, the 200 ms for which a page
  that is left stays on the screen, components that only lay out what they are
  given, and requests without an answer (`fetchWithAuth` has no timeout).
- Redis as more than a map with expiring keys: no failover, by which a key
  could be lost while its owner lives, other than as an expiry.
