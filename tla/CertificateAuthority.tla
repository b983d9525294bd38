------------------------ MODULE CertificateAuthority ------------------------
(***************************************************************************)
(* A certificate authority whose certificates are issued and revoked and   *)
(* listed in a CRL (pki_service.py, api/v1/pki.py, models/pki.py).         *)
(*                                                                         *)
(* A call is one transaction, used once.  A revocation takes the lock of   *)
(* the certificate's row, then reads crl_number, then takes the lock of    *)
(* the authority's row to write the number it has read plus one: in        *)
(* between, another may have written it.  Serial numbers are random and    *)
(* a certificate is named by its own.  No code reads crl_number but to     *)
(* increase it, and the CRL does not carry it.                             *)
(*                                                                         *)
(* known and overlapped are history.  Definitions whose names contain      *)
(* _Broken are defects for mutation checks.                                *)
(***************************************************************************)
EXTENDS Naturals, FiniteSets

CONSTANTS Calls, Certificates

VARIABLES
    issued,         \* certificates, and those of them whose status is "revoked"
    revoked,
    crl_number,     \* certificate_authorities
    pc,
    target,         \* the certificate of a call, as a set of at most one
    seen,           \* the crl_number it read
    listed,         \* the CRL it answered with
    known,          \* what had been revoked before it began
    overlapped      \* whether two were under way at a time

rows == <<issued, revoked, crl_number>>
vars == <<rows, pc, target, seen, known, listed, overlapped>>

Init ==
    /\ issued \in SUBSET Certificates /\ revoked = {}
    /\ crl_number = 1
    /\ pc = [c \in Calls |-> "idle"]
    /\ target = [c \in Calls |-> {}]
    /\ seen = [c \in Calls |-> 0]
    /\ known = [c \in Calls |-> {}]
    /\ listed = [c \in Calls |-> {}]
    /\ overlapped = FALSE

Goto(c, label) == pc' = [pc EXCEPT ![c] = label]

Revoking(c) == pc[c] \in {"cert", "locked", "counted", "flushed"}

(* issue_certificate reads nothing that changes: one step, its commit.     *)
Issue(c, n) ==
    /\ pc[c] = "idle" /\ n \notin issued
    /\ issued' = issued \cup {n}
    /\ Goto(c, "ok")
    /\ UNCHANGED <<revoked, crl_number, target, seen, known, listed, overlapped>>

(* get_owned_certificate.  What is revoked may be revoked again.           *)
ReadCertificate(c, n) ==
    /\ pc[c] = "idle" /\ n \in issued
    /\ target' = [target EXCEPT ![c] = {n}]
    /\ overlapped' = (overlapped \/ \E d \in Calls : Revoking(d))
    /\ Goto(c, "cert")
    /\ UNCHANGED <<rows, seen, known, listed>>

FlushCertificate(c) ==
    /\ pc[c] = "cert"
    /\ \A d \in Calls :
          pc[d] \in {"locked", "counted", "flushed"} => target[d] # target[c]
    /\ Goto(c, "locked")
    /\ UNCHANGED <<rows, target, seen, known, listed, overlapped>>

ReadNumber(c) ==
    /\ pc[c] = "locked"
    /\ seen' = [seen EXCEPT ![c] = crl_number]
    /\ Goto(c, "counted")
    /\ UNCHANGED <<rows, target, known, listed, overlapped>>

(* The flush that the first query of log_event brings.                     *)
FlushNumber(c) ==
    /\ pc[c] = "counted"
    /\ \A d \in Calls : pc[d] # "flushed"
    /\ Goto(c, "flushed")
    /\ UNCHANGED <<rows, target, seen, known, listed, overlapped>>

CommitRevocation_BrokenUnlisted(c) ==
    /\ pc[c] = "flushed"
    /\ crl_number' = seen[c] + 1
    /\ Goto(c, "ok")
    /\ UNCHANGED <<issued, revoked, target, seen, known, listed, overlapped>>

CommitRevocation(c) ==
    /\ pc[c] = "flushed"
    /\ revoked' = revoked \cup target[c]
    /\ crl_number' = seen[c] + 1
    /\ Goto(c, "ok")
    /\ UNCHANGED <<issued, target, seen, known, listed, overlapped>>

Done == {c \in Calls : pc[c] = "ok" /\ target[c] # {}}

(* generate_crl: the authority, then its revoked certificates.             *)
ReadAuthority(c) ==
    /\ pc[c] = "idle"
    /\ known' = [known EXCEPT ![c] = UNION {target[d] : d \in Done}]
    /\ Goto(c, "crl")
    /\ UNCHANGED <<rows, target, seen, listed, overlapped>>

AnswerCRL(c) ==
    /\ pc[c] = "crl"
    /\ listed' = [listed EXCEPT ![c] = revoked]
    /\ Goto(c, "listed")
    /\ UNCHANGED <<rows, target, seen, known, overlapped>>

(* An exception, a lost connection or a crash before the commit.           *)
Abort(c) ==
    /\ Revoking(c)
    /\ Goto(c, "failed")
    /\ UNCHANGED <<rows, target, seen, known, listed, overlapped>>

Next ==
    \E c \in Calls :
        \/ \E n \in Certificates : Issue(c, n) \/ ReadCertificate(c, n)
        \/ FlushCertificate(c) \/ ReadNumber(c) \/ FlushNumber(c) \/ CommitRevocation(c)
        \/ ReadAuthority(c) \/ AnswerCRL(c) \/ Abort(c)

Spec == Init /\ [][Next]_vars

-----------------------------------------------------------------------------
(* The types of the state.                                                 *)
TypeOK ==
    /\ revoked \subseteq issued /\ issued \subseteq Certificates
    /\ crl_number \in 1 .. 1 + Cardinality(Calls)
    /\ \A c \in Calls : Cardinality(target[c]) <= 1 /\ seen[c] <= Cardinality(Calls)

(* A CRL lists every certificate whose revocation was acknowledged before  *)
(* the CRL was asked for, and no other than revoked ones; its authority    *)
(* has counted the revocations unless some overlapped, and never too many. *)
RevocationsListed ==
    /\ \A c \in Calls :
          pc[c] = "listed" => known[c] \subseteq listed[c] /\ listed[c] \subseteq revoked
    /\ crl_number <= 1 + Cardinality(Done)
    /\ ~overlapped => crl_number = 1 + Cardinality(Done)
=============================================================================
