------------------------------ MODULE FormFields ------------------------------
(***************************************************************************)
(* The fields of a form (apps/web/src/components/ui/form.tsx, field.tsx).  *)
(* A FormItem gives its label, control, description and message ids made   *)
(* from one; every one of them asks react-hook-form, which is external,    *)
(* for the state of the field.  A validation of the form sets the errors   *)
(* of all fields at once; one of a field, its own.  A FormMessage or a     *)
(* FieldError may have children: the first gives them up for an error, the *)
(* second shows them whatever errors there are.                            *)
(*                                                                         *)
(* Operators whose names contain _Broken are defects for mutation checks;  *)
(* no behaviour of this module uses them.                                  *)
(***************************************************************************)
EXTENDS Integers, Sequences

CONSTANTS
    Fields,
    Messages,      \* texts of errors
    None

VARIABLES
    described,     \* the fields with a FormDescription
    hints,         \* the fields whose FormMessage has children of its own
    given,         \* the fields whose FieldError has children of its own
    errors,        \* per field the messages of its errors as they were found
    submitted

formVars == <<described, hints, given, errors, submitted>>

(* An error may have no message, or an empty one.                          *)
NoText == ""

Texts == Messages \cup {NoText, None}

Found == {<<>>} \cup {<<a>> : a \in Texts} \cup {<<a, b>> : a, b \in Texts}

-----------------------------------------------------------------------------
Init ==
    /\ described \in SUBSET Fields
    /\ hints \in SUBSET Fields
    /\ given \in SUBSET Fields
    /\ errors = [f \in Fields |-> <<>>]
    /\ submitted = FALSE

(* A field is validated when it changes, once the form was submitted.      *)
Change(f) ==
    /\ submitted
    /\ \E found \in Found : errors' = [errors EXCEPT ![f] = found]
    /\ UNCHANGED <<described, hints, given, submitted>>

Submit ==
    /\ submitted' = TRUE
    /\ errors' \in [Fields -> Found]
    /\ UNCHANGED <<described, hints, given>>

Reset ==
    /\ submitted' = FALSE
    /\ errors' = [f \in Fields |-> <<>>]
    /\ UNCHANGED <<described, hints, given>>

Next == (\E f \in Fields : Change(f)) \/ Submit \/ Reset

Spec == Init /\ [][Next]_formVars

-----------------------------------------------------------------------------
(* The state of the field, and its three ids.                              *)
useFormField(f) ==
    [error |-> errors[f] # <<>>,
     message |-> IF errors[f] = <<>> \/ errors[f][1] = None THEN NoText ELSE errors[f][1],
     formItemId |-> <<f, "form-item">>,
     formDescriptionId |-> <<f, "form-item-description">>,
     formMessageId |-> <<f, "form-item-message">>]

FormLabel(f) ==
    [htmlFor |-> useFormField(f).formItemId, error |-> useFormField(f).error]

FormControl_BrokenDescriptionOnly(f) ==
    [id |-> useFormField(f).formItemId,
     describedBy |-> {useFormField(f).formDescriptionId},
     invalid |-> useFormField(f).error]

FormControl(f) ==
    [id |-> useFormField(f).formItemId,
     describedBy |-> {useFormField(f).formDescriptionId}
         \cup IF useFormField(f).error THEN {useFormField(f).formMessageId} ELSE {},
     invalid |-> useFormField(f).error]

(* The elements of a field: whether there is one with the id.              *)
FormDescription(f) == IF f \in described THEN {useFormField(f).formDescriptionId} ELSE {}

Body(f) ==
    IF useFormField(f).error THEN useFormField(f).message
    ELSE IF f \in hints THEN "hint" ELSE NoText

(* Nothing is rendered without a body.                                     *)
FormMessage(f) ==
    IF Body(f) = NoText THEN {} ELSE {[id |-> useFormField(f).formMessageId, body |-> Body(f)]}

Elements(f) ==
    {FormControl(f).id} \cup FormDescription(f) \cup {message.id : message \in FormMessage(f)}

(* The errors that differ, in the order in which each was met first.       *)
Unique(found) == {i \in DOMAIN found : \A j \in 1 .. i - 1 : found[j] # found[i]}

(* Children come before the errors are looked at.  Else the one message,   *)
(* or a list of those there are: with two errors that differ there is an   *)
(* alert, though neither need have a message.                              *)
FieldError(f, found) ==
    LET listed == {i \in Unique(found) : found[i] \in Messages} IN
    IF f \in given THEN [alert |-> TRUE, listed |-> {}]
    ELSE [alert |-> IF \E i \in Unique(found) : Unique(found) = {i} THEN listed # {}
                    ELSE found # <<>>,
          listed |-> listed]

(* What a control refers to is there, when the field has a description and *)
(* its error a message: an error that has one is read out with the control *)
(* and is the first that was found, a hint never stands in for it, and an  *)
(* invalid control is told by its label.                                   *)
(* FieldError raises an alert for every message and lists it once, unless  *)
(* it has children: then the alert is of those, with or without an error.  *)
ErrorsAnnounced ==
    \A f \in Fields :
        /\ f \in described /\ ~(FormControl(f).invalid /\ useFormField(f).message = NoText) =>
               FormControl(f).describedBy \subseteq Elements(f)
        /\ useFormField(f).message # NoText =>
               \E message \in FormMessage(f) :
                   message.id \in FormControl(f).describedBy /\ message.body = errors[f][1]
        /\ FormLabel(f).htmlFor \in Elements(f)
        /\ FormLabel(f).error <=> FormControl(f).invalid
        /\ LET shown == FieldError(f, errors[f]) IN
           \A message \in Messages \cap {errors[f][i] : i \in DOMAIN errors[f]} :
               /\ shown.alert
               /\ f \notin given =>
                      \E i \in shown.listed : \A j \in shown.listed :
                          errors[f][i] = message /\ (errors[f][j] = message => i = j)
=============================================================================
