----------------------------- MODULE ConsolePages -----------------------------
(***************************************************************************)
(* The other pages of the web console (apps/web/src/app/page.tsx): dynamic *)
(* secrets, the scanner, integrations, certificates, KMS and access.       *)
(*                                                                         *)
(* Certificates, access requests and the audit trail belong to Home and    *)
(* stay.  Leases, integrations, scan results and the ciphertext are state  *)
(* of their page: whoever opens the page finds the seed data again.  A     *)
(* handler is one step; a page's dialog is modal.                          *)
(*                                                                         *)
(* Numbers stand for what generateId and generateToken draw.  A definition *)
(* whose name contains _Broken is a defect put in place of the one that    *)
(* follows it, to see that the properties notice.                          *)
(***************************************************************************)
EXTENDS Integers, Sequences, FiniteSets, SequencesExt

CONSTANTS
    Providers,        \* what a lease can be asked for
    Leaks,            \* texts the scanner knows
    Integrations,
    CommonNames,
    Plaintexts,
    SeedLeases,
    SeedCertificates,
    SeedRequests,
    MaxId             \* bound: the last number that is drawn

FirstId == 1000

VARIABLES
    globalSeqCounter,
    section,
    certificates,
    accessRequests,
    auditLogs,        \* newest first
    leases,           \* of the page of dynamic secrets
    code,             \* of the scanner: the leaks in the text
    results,          \* those the last scan found
    lastSync,         \* of the integrations
    ciphertext,       \* of the KMS page
    open              \* whether the page's dialog is open

home == <<certificates, accessRequests>>

local == <<leases, code, results, lastSync, ciphertext>>

vars == <<globalSeqCounter, section, home, auditLogs, local, open>>

Sections == {"DynamicSecrets", "SecretScanning", "Integrations", "Certificates", "KMS",
             "Access"}

DynamicLease == [id : Nat, provider : Providers, username : Nat, secret : Nat,
                 status : {"Active", "Revoked"}]

Certificate == [id : Nat, commonName : CommonNames, status : {"Active", "Expiring"}]

AccessRequest == [id : Nat, requester : STRING, status : {"Pending", "Approved", "Rejected"}]

Ciphertext == [payload : Plaintexts, tag : Nat]

NoCiphertext == [tag |-> 0]

-----------------------------------------------------------------------------
(* The state of a page that has just been mounted.                         *)
PageState ==
    [leases |-> SeedLeases, code |-> Leaks, results |-> {},
     lastSync |-> [i \in Integrations |-> "earlier"], ciphertext |-> NoCiphertext]

Init ==
    /\ globalSeqCounter = FirstId
    /\ section = "DynamicSecrets"
    /\ certificates = SeedCertificates
    /\ accessRequests = SeedRequests
    /\ auditLogs = <<>>
    /\ leases = PageState.leases
    /\ code = PageState.code
    /\ results = PageState.results
    /\ lastSync = PageState.lastSync
    /\ ciphertext = PageState.ciphertext
    /\ open = FALSE

Draws(n) ==
    /\ globalSeqCounter + n <= MaxId
    /\ globalSeqCounter' = globalSeqCounter + n

(* logEvent; its id is the last number the handler draws.                  *)
logEvent(action, resource) ==
    auditLogs' = <<[id |-> globalSeqCounter', action |-> action, resource |-> resource]>>
                    \o auditLogs

At(page) == section = page /\ ~open

-----------------------------------------------------------------------------
(* AnimatePresence: the page that is left unmounts, and its state is gone. *)
setSection(page) ==
    /\ ~open
    /\ page # section
    /\ section' = page
    /\ leases' = PageState.leases
    /\ code' = PageState.code
    /\ results' = PageState.results
    /\ lastSync' = PageState.lastSync
    /\ ciphertext' = PageState.ciphertext
    /\ UNCHANGED <<globalSeqCounter, home, auditLogs, open>>

(* A page's dialog is opened, or dismissed.                                *)
setOpen ==
    /\ section \in {"DynamicSecrets", "Certificates"}
    /\ open' = ~open
    /\ UNCHANGED <<globalSeqCounter, section, home, auditLogs, local>>

NewLease(provider) ==
    [id |-> globalSeqCounter + 1, provider |-> provider, username |-> globalSeqCounter + 2,
     secret |-> globalSeqCounter + 3, status |-> "Active"]

handleGenerateLease(provider) ==
    /\ section = "DynamicSecrets" /\ open
    /\ Draws(4)
    /\ leases' = <<NewLease(provider)>> \o leases
    /\ open' = FALSE
    /\ logEvent("dynamic.lease.create", provider)
    /\ UNCHANGED <<section, home, code, results, lastSync, ciphertext>>

(* A list with the status of the entry with this id replaced.              *)
WithStatus(list, id, status) ==
    [i \in DOMAIN list |-> IF list[i].id = id THEN [list[i] EXCEPT !.status = status]
                           ELSE list[i]]

handleRevokeLease_BrokenSilent(lease) ==
    /\ At("DynamicSecrets")
    /\ lease.status = "Active"
    /\ leases' = WithStatus(leases, lease.id, "Revoked")
    /\ UNCHANGED <<globalSeqCounter, auditLogs, section, home, code, results, lastSync,
                   ciphertext, open>>

handleRevokeLease(lease) ==
    /\ At("DynamicSecrets")
    /\ lease.status = "Active"
    /\ Draws(1)
    /\ leases' = WithStatus(leases, lease.id, "Revoked")
    /\ logEvent("dynamic.lease.revoke", lease.id)
    /\ UNCHANGED <<section, home, code, results, lastSync, ciphertext, open>>

setCode(leaks) ==
    /\ At("SecretScanning")
    /\ code' = leaks
    /\ UNCHANGED <<globalSeqCounter, section, home, auditLogs, leases, results, lastSync,
                   ciphertext, open>>

(* The results stay until the next scan, whatever becomes of the text.     *)
handleRunScan ==
    LET found == Leaks \cap code
    IN  /\ At("SecretScanning")
        /\ Draws(1)
        /\ results' = found
        /\ IF found # {} THEN logEvent("scanner.detect", Cardinality(found))
           ELSE logEvent("scanner.clean", "clean")
        /\ UNCHANGED <<section, home, leases, code, lastSync, ciphertext, open>>

handleSync(name) ==
    /\ At("Integrations")
    /\ Draws(1)
    /\ lastSync' = [lastSync EXCEPT ![name] = "now"]
    /\ logEvent("integration.sync", name)
    /\ UNCHANGED <<section, home, leases, code, results, ciphertext, open>>

NewCertificate_BrokenStatus(cn) ==
    [id |-> globalSeqCounter + 1, commonName |-> cn, status |-> "Issued"]

NewCertificate(cn) == [id |-> globalSeqCounter + 1, commonName |-> cn, status |-> "Active"]

handleIssueCert(cn) ==
    /\ section = "Certificates" /\ open
    /\ Draws(2)
    /\ certificates' = <<NewCertificate(cn)>> \o certificates
    /\ open' = FALSE
    /\ logEvent("pki.issue", cn)
    /\ UNCHANGED <<section, accessRequests, local>>

handleEncrypt(plaintext) ==
    /\ At("KMS")
    /\ Draws(2)
    /\ ciphertext' = [payload |-> plaintext, tag |-> globalSeqCounter + 1]
    /\ logEvent("kms.encrypt", "payments-master")
    /\ UNCHANGED <<section, home, leases, code, results, lastSync, open>>

Decided_BrokenByRequester(request, status) ==
    [i \in DOMAIN accessRequests |->
        IF accessRequests[i].requester = request.requester
        THEN [accessRequests[i] EXCEPT !.status = status] ELSE accessRequests[i]]

Decided(request, status) == WithStatus(accessRequests, request.id, status)

(* Only a pending request has its buttons; the event names the requester.  *)
Decide(request, status, action) ==
    /\ At("Access")
    /\ request.status = "Pending"
    /\ Draws(1)
    /\ accessRequests' = Decided(request, status)
    /\ logEvent(action, request.requester)
    /\ UNCHANGED <<section, certificates, local, open>>

handleApprove(request) == Decide(request, "Approved", "access.approve")

handleReject(request) == Decide(request, "Rejected", "access.reject")

Next ==
    \/ \E page \in Sections : setSection(page)
    \/ setOpen
    \/ \E provider \in Providers : handleGenerateLease(provider)
    \/ \E lease \in ToSet(leases) : handleRevokeLease(lease)
    \/ \E leaks \in SUBSET Leaks : setCode(leaks)
    \/ handleRunScan
    \/ \E name \in Integrations : handleSync(name)
    \/ \E cn \in CommonNames : handleIssueCert(cn)
    \/ \E plaintext \in Plaintexts : handleEncrypt(plaintext)
    \/ \E request \in ToSet(accessRequests) : handleApprove(request) \/ handleReject(request)

Spec == Init /\ [][Next]_vars

-----------------------------------------------------------------------------
(* The types of the state.                                                 *)
TypeOK ==
    /\ globalSeqCounter \in FirstId .. MaxId
    /\ section \in Sections
    /\ certificates \in Seq(Certificate)
    /\ accessRequests \in Seq(AccessRequest)
    /\ \A i \in DOMAIN auditLogs : auditLogs[i].id \in FirstId + 1 .. globalSeqCounter
    /\ leases \in Seq(DynamicLease)
    /\ code \subseteq Leaks
    /\ results \subseteq Leaks
    /\ lastSync \in [Integrations -> {"earlier", "now"}]
    /\ ciphertext \in Ciphertext \cup {NoCiphertext}
    /\ open \in BOOLEAN

Events(action, resource) ==
    Cardinality({i \in DOMAIN auditLogs :
        auditLogs[i].action = action /\ auditLogs[i].resource = resource})

(* The trail accounts for what Home keeps: as many certificates of a name  *)
(* were added as there are issue events, and as many of a requester's      *)
(* requests were decided either way as there are events of that decision,  *)
(* also when one requester has several.                                    *)
KeptIsAccounted ==
    LET Issued(list, cn) == Cardinality({i \in DOMAIN list : list[i].commonName = cn})
        With(list, requester, status) == Cardinality({i \in DOMAIN list :
            list[i].requester = requester /\ list[i].status = status})
        Tally(requester, status, action) ==
            With(accessRequests, requester, status)
               = With(SeedRequests, requester, status) + Events(action, requester)
    IN  /\ \A cn \in CommonNames :
              Issued(certificates, cn) = Issued(SeedCertificates, cn) + Events("pki.issue", cn)
        /\ \A i \in DOMAIN SeedRequests :
              /\ Tally(SeedRequests[i].requester, "Approved", "access.approve")
              /\ Tally(SeedRequests[i].requester, "Rejected", "access.reject")

(* What a page shows has its event, however often the page has been left   *)
(* and opened: a revocation, a lease that is no seed, a sync, a            *)
(* ciphertext, and findings, which are as many as the event says.          *)
ShownHasEvent ==
    /\ \A i \in DOMAIN leases :
          /\ leases[i].status = "Revoked" => Events("dynamic.lease.revoke", leases[i].id) > 0
          /\ leases[i].id > FirstId =>
                Events("dynamic.lease.create", leases[i].provider) > 0
    /\ \A name \in Integrations :
          lastSync[name] = "now" => Events("integration.sync", name) > 0
    /\ ciphertext # NoCiphertext => Events("kms.encrypt", "payments-master") > 0
    /\ results # {} => Events("scanner.detect", Cardinality(results)) > 0
=============================================================================
