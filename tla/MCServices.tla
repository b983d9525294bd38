------------------------------ MODULE MCServices ------------------------------
(* Services of the API and the worker that share no row, side by side: a    *)
(* behaviour runs the one that subject names and leaves the others alone.   *)
EXTENDS RotationWorker

CONSTANTS Requests, Keys, Versions, MasterIds, MaxMaterial, Reviews, Users, Certificates,
          Processes, max_requests, window_seconds, MaxTime, MaxRequests,
          Calls, Secrets, MaxVersion

(* Who calls is finite; a limit is at least 1 (schemas/agent.py:11).        *)
ASSUME ReviewsAssumption == IsFiniteSet(Reviews)

ASSUME LimitAssumption ==
    max_requests \in Nat \ {0} /\ window_seconds \in Nat /\ MaxTime \in Nat /\ MaxRequests \in Nat

ASSUME MaximaAssumption == MaxMaterial \in Nat \ {0} /\ MaxVersion \in Nat \ {0}

VARIABLES
    subject,
    current, disabled, versions, op, step, seen, wanted, named, sealed,
    registry, active, config, wrapped, drawn, careful,
    access, requester, approvals, events, review,
    issued, revoked, crl_number, pc, target, counted, listed, known, overlapped,
    now, count, expires, memory, expiring, requests, admitted, inMemory, cutOff,
    session, expired, secret, removed, trail, call, began, sent

Managed == INSTANCE ManagedKeys

Master == INSTANCE MasterKeys

Access == INSTANCE AccessRequests WITH
    Calls <- Reviews, status <- access, trail <- events, call <- review

Authority == INSTANCE CertificateAuthority WITH Calls <- Reviews, seen <- counted

Limiter == INSTANCE RateLimiter

Proxy == INSTANCE AgentProxy WITH version <- secret, deleted <- removed

managedVars == <<current, disabled, versions, op, step, seen, wanted, named, sealed>>

masterVars == <<registry, active, config, wrapped, drawn, careful>>

accessVars == <<access, requester, approvals, events, review>>

authorityVars == <<issued, revoked, crl_number, pc, target, counted, listed, known, overlapped>>

limiterVars == <<now, count, expires, memory, expiring, requests, admitted, inMemory, cutOff>>

proxyVars == <<session, expired, secret, removed, trail, call, began, sent>>

keyVars == <<managedVars, masterVars>>

apiVars == <<accessVars, authorityVars, limiterVars, proxyVars>>

servicesVars == <<subject, vars, keyVars, apiVars>>

ServicesInit ==
    /\ subject \in {"rotation", "keys", "master", "access", "authority", "limiter", "proxy"}
    /\ Init
    /\ Managed!Init /\ Master!Init /\ Access!Init
    /\ Authority!Init /\ Limiter!Init /\ Proxy!Init
    /\ subject # "keys" => current = {}
    /\ subject # "master" => config.id = CHOOSE id \in MasterIds : TRUE
    /\ subject # "authority" => issued = {}

ServicesNext ==
    \/ /\ subject = "rotation" /\ Next
       /\ UNCHANGED <<subject, keyVars, apiVars>>
    \/ /\ subject = "keys" /\ Managed!Next
       /\ UNCHANGED <<subject, vars, masterVars, apiVars>>
    \/ /\ subject = "master" /\ Master!Next
       /\ UNCHANGED <<subject, vars, managedVars, apiVars>>
    \/ /\ subject = "access" /\ Access!Next
       /\ UNCHANGED <<subject, vars, keyVars, authorityVars, limiterVars, proxyVars>>
    \/ /\ subject = "authority" /\ Authority!Next
       /\ UNCHANGED <<subject, vars, keyVars, accessVars, limiterVars, proxyVars>>
    \/ /\ subject = "limiter" /\ Limiter!Next
       /\ UNCHANGED <<subject, vars, keyVars, accessVars, authorityVars, proxyVars>>
    \/ /\ subject = "proxy" /\ Proxy!Next
       /\ UNCHANGED <<subject, vars, keyVars, accessVars, authorityVars, limiterVars>>

(* The fairness of RotationWorker, the only one that has any.               *)
ServicesFairness ==
    /\ \A w \in Workers :
           /\ WF_vars(subject = "rotation" /\ (Begin(w) \/ Step(w)))
           /\ SF_vars(subject = "rotation" /\ (Sync(w) \/ RecordFailure(w)))
    /\ WF_vars(subject = "rotation" /\ \E r \in Rotations : Expire(r))

ServicesSpec == ServicesInit /\ [][ServicesNext]_servicesVars /\ ServicesFairness

-----------------------------------------------------------------------------
(* The types of the services' states.                                       *)
ServiceTypes ==
    /\ TypeOK /\ Managed!TypeOK /\ Master!TypeOK
    /\ Access!TypeOK /\ Authority!TypeOK /\ Limiter!TypeOK /\ Proxy!TypeOK

(* rotation_service.py: what is due is executed, marked failed or gone.     *)
DueSettled == subject = "rotation" => DueIsSettled

(* kms_service.py: whatever was encrypted or signed is opened with the      *)
(* version it names, however rotations overlap; kms_provider.py: the data   *)
(* keys of secrets can be unwrapped as long as the operator does not come   *)
(* back to an identifier nor restarts early.                                *)
EverythingOpens == Managed!EveryCiphertextOpens /\ Master!EverySecretOpens

(* pam_service.py, pki_service.py: a decision or a revocation is overruled  *)
(* by none that was begun after it, and the trail and the CRL tell.  One    *)
(* that overlaps it may overrule it.                                        *)
DecisionsStand == Access!DecisionsStand /\ Authority!RevocationsListed

(* agent_service.py: an answered call's events name what was sent, which    *)
(* was current when the call was made or later.                             *)
CallsAccounted == Proxy!CallsAccounted

(* rate_limiter.py: no window admits more than two windows' requests.       *)
LimitKept == Limiter!LimitKept
=============================================================================
