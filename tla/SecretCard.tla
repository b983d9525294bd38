------------------------------ MODULE SecretCard ------------------------------
(***************************************************************************)
(* SecretCard (apps/web/src/components/ui/secret-card.tsx): one secret,    *)
(* masked until it is revealed.  handleCopy awaits the clipboard and then  *)
(* calls onCopy; meanwhile the parent may pass the card another secret, or *)
(* another value, and whether the card is revealed stays with the card.    *)
(* A page that is not served securely has no clipboard: then nothing is    *)
(* written, and onCopy is called all the same.                             *)
(*                                                                         *)
(* A value is a pair of the name it belongs to and a version.              *)
(*                                                                         *)
(* Operators whose names contain _Broken are defects for mutation checks;  *)
(* no behaviour of this module uses them.                                  *)
(***************************************************************************)
EXTENDS Integers, FiniteSets

CONSTANTS
    Keys,
    Clicks,        \* the calls of handleCopy that may be under way
    None,
    MaxVersion     \* bound: how often a secret is rotated

VARIABLES
    available,     \* whether there is a navigator.clipboard
    secretKey,     \* the props
    secretValue,
    isRevealed,
    copying,       \* per click, what its render had passed to the clipboard
    clipboard,
    copied         \* the pairs of key and version onCopy was called for

vars == <<available, secretKey, secretValue, isRevealed, copying, clipboard, copied>>

Values == Keys \X (1 .. MaxVersion)

Copy == [key : Keys, value : Values, written : BOOLEAN]

-----------------------------------------------------------------------------
Init ==
    /\ available \in BOOLEAN
    /\ secretKey \in Keys
    /\ secretValue = <<secretKey, 1>>
    /\ isRevealed = FALSE
    /\ copying = [c \in Clicks |-> None]
    /\ clipboard = {}
    /\ copied = {}

(* The parent renders the card with a secret's current value.              *)
PassProps(value) ==
    /\ secretKey' = value[1]
    /\ secretValue' = value
    /\ value[1] = secretKey => value[2] >= secretValue[2]
    /\ UNCHANGED <<isRevealed, copying, clipboard, copied>>

toggleReveal ==
    /\ isRevealed' = ~isRevealed
    /\ UNCHANGED <<secretKey, secretValue, copying, clipboard, copied>>

handleCopy(c) ==
    /\ copying[c] = None
    /\ copying' = [copying EXCEPT ![c] =
           [key |-> secretKey, value |-> secretValue, written |-> FALSE]]
    /\ UNCHANGED <<secretKey, secretValue, isRevealed, clipboard, copied>>

(* clipboard?.writeText: the browser writes the value, or refuses.         *)
WriteText(c) ==
    /\ available
    /\ copying[c] # None /\ ~copying[c].written
    /\ copying' = [copying EXCEPT ![c].written = TRUE]
    /\ clipboard' = clipboard \cup {copying[c].value}
    /\ UNCHANGED <<secretKey, secretValue, isRevealed, copied>>

Refuse(c) ==
    /\ available
    /\ copying[c] # None /\ ~copying[c].written
    /\ copying' = [copying EXCEPT ![c] = None]
    /\ UNCHANGED <<secretKey, secretValue, isRevealed, clipboard, copied>>

onCopy_BrokenLatest(c) ==
    /\ copying[c] # None /\ (available => copying[c].written)
    /\ copying' = [copying EXCEPT ![c] = None]
    /\ copied' = copied \cup {secretKey}
    /\ UNCHANGED <<secretKey, secretValue, isRevealed, clipboard>>

(* The await is over, or there was nothing to await: onCopy of the render  *)
(* that was clicked.                                                       *)
onCopy(c) ==
    /\ copying[c] # None /\ (available => copying[c].written)
    /\ copying' = [copying EXCEPT ![c] = None]
    /\ copied' = copied \cup {copying[c].key}
    /\ UNCHANGED <<secretKey, secretValue, isRevealed, clipboard>>

Next ==
    /\ UNCHANGED available
    /\ \/ \E value \in Values : PassProps(value)
       \/ toggleReveal
       \/ \E c \in Clicks : handleCopy(c) \/ WriteText(c) \/ Refuse(c) \/ onCopy(c)

Spec == Init /\ [][Next]_vars

-----------------------------------------------------------------------------
(* Where there is a clipboard, onCopy is told of a secret only after a     *)
(* value of that secret has been written to it, also when the card shows   *)
(* another by then.  Where there is none it is told of secrets of which    *)
(* nothing was written.                                                    *)
CopiedWasWritten ==
    available => \A key \in copied : \E value \in clipboard : value[1] = key
=============================================================================
