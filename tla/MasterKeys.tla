----------------------------- MODULE MasterKeys -----------------------------
(***************************************************************************)
(* The master keys that wrap the data keys of secrets: LocalKMSProvider    *)
(* (kms_provider.py) in the memory of a process, as EnvelopeCryptoEngine   *)
(* (crypto.py) uses it.  No method awaits, so each is one step; ciphers    *)
(* are ideal, and what a key is made of is a number that nobody has drawn  *)
(* before.                                                                 *)
(*                                                                         *)
(* careful is history: TRUE while whoever rotates and deploys has kept the *)
(* two rules that Rotate and Restart name.                                 *)
(***************************************************************************)
EXTENDS Naturals

CONSTANTS
    Versions,       \* of secrets
    MasterIds,
    MaxMaterial     \* bound: how many master keys are drawn

VARIABLES
    registry,       \* LocalKMSProvider.keys, as a set of entries
    active,         \* active_mek_id and active_version
    config,         \* MEK_ID and MASTER_ENCRYPTION_KEY
    wrapped,        \* per version, its data key in the database, as a set of at most one
    drawn,
    careful

vars == <<registry, active, config, wrapped, drawn, careful>>

Material == 1 .. MaxMaterial

At(entry) == <<entry.id, entry.version>>

(* What __init__ leaves: the configured key alone, as version 1.           *)
Initial(c) == {[id |-> c.id, version |-> 1, material |-> c.material, status |-> "Active"]}

Init ==
    /\ \E id \in MasterIds : config = [id |-> id, material |-> 1]
    /\ registry = Initial(config)
    /\ active = <<config.id, 1>>
    /\ wrapped = [s \in Versions |-> {}]
    /\ drawn = 1
    /\ careful = TRUE

(* register_key replaces the entry that is there.                          *)
Register(R, entry) == {e \in R : At(e) # At(entry)} \cup {entry}

Demoted(R) ==
    {IF At(e) = active THEN [e EXCEPT !.status = "DecryptOnly"] ELSE e : e \in R}

NewVersion(id) == IF id = active[1] THEN active[2] + 1 ELSE 1

(* rotate_key.  The rule is never to come back to an identifier.           *)
Rotate(id) ==
    /\ drawn < MaxMaterial
    /\ drawn' = drawn + 1
    /\ registry' = Register(Demoted(registry),
                            [id |-> id, version |-> NewVersion(id),
                             material |-> drawn + 1, status |-> "Active"])
    /\ active' = <<id, NewVersion(id)>>
    /\ careful' = (careful /\ (id = active[1] \/ \A e \in registry : e.id # id))
    /\ UNCHANGED <<config, wrapped>>

(* wrap_key and unwrap_key.                                                *)
Wrap(s) ==
    \E e \in registry :
        /\ At(e) = active /\ e.status = "Active"
        /\ wrapped' = [wrapped EXCEPT ![s] =
               {[id |-> e.id, version |-> e.version, material |-> e.material]}]

Unwraps(w) ==
    \E e \in registry :
        At(e) = At(w) /\ e.status # "Retired" /\ e.material = w.material

(* encrypt_secret, for a new version.                                      *)
Encrypt(s) ==
    /\ wrapped[s] = {}
    /\ Wrap(s)
    /\ UNCHANGED <<registry, active, config, drawn, careful>>

(* rewrap_secret_dek.                                                      *)
Rewrap(s) ==
    /\ \E w \in wrapped[s] : Unwraps(w)
    /\ Wrap(s)
    /\ UNCHANGED <<registry, active, config, drawn, careful>>

(* The operator puts a registered key into the environment, or leaves what *)
(* is there, and the process starts anew.  The rule is to have wrapped all *)
(* under version 1 of what is then configured.                             *)
Restart(c) ==
    /\ config' = c
    /\ registry' = Initial(c)
    /\ active' = <<c.id, 1>>
    /\ careful' = (careful /\ \A s \in Versions : \A w \in wrapped[s] :
                                  w = [id |-> c.id, version |-> 1, material |-> c.material])
    /\ UNCHANGED <<wrapped, drawn>>

Configurable == {config} \cup {[id |-> e.id, material |-> e.material] : e \in registry}

Next ==
    \/ \E id \in MasterIds : Rotate(id)
    \/ \E s \in Versions : Encrypt(s) \/ Rewrap(s)
    \/ \E c \in Configurable : Restart(c)

Spec == Init /\ [][Next]_vars

-----------------------------------------------------------------------------
(* The types of the state.                                                 *)
TypeOK ==
    /\ drawn \in Material /\ careful \in BOOLEAN
    /\ \A e \in registry :
          /\ e.id \in MasterIds /\ e.version \in Material /\ e.material \in 1 .. drawn
          /\ e.status \in {"Active", "DecryptOnly"}
    /\ \A s \in Versions : \A w \in wrapped[s] : w.material \in 1 .. drawn
    /\ config.id \in MasterIds /\ config.material \in 1 .. drawn

(* While the two rules are kept, every stored data key can be unwrapped,   *)
(* however rotations, re-wrapping and restarts follow each other; and with *)
(* or without them, the one active entry is the one that wraps.            *)
EverySecretOpens ==
    /\ careful => \A s \in Versions : \A w \in wrapped[s] : Unwraps(w)
    /\ \A e \in registry : e.status = "Active" <=> At(e) = active
    /\ \E e \in registry : At(e) = active
=============================================================================
