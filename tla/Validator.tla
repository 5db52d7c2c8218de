------------------------------ MODULE Validator ------------------------------
(***************************************************************************)
(* validateInput and addError of bottle-create.js, acting on one input     *)
(* element of the form, and the part of every add handler that clears the *)
(* field once all of its fields validated.                                 *)
(*                                                                         *)
(* The element's DOM neighbourhood is kept as: its "invalid" class, whether *)
(* its parent is an "error-element" wrapper, how many <p class="error">    *)
(* follow it in that wrapper, and how many wrappers enclose it.  A value   *)
(* is one of a few classes that the three checks tell apart.  Each input   *)
(* is always validated with the same arguments; `call` is the triple of    *)
(* one of the call sites, chosen in Init.                                  *)
(***************************************************************************)
EXTENDS Naturals

CONSTANT MaxChecks   \* bound on the validations of the field

\* Classes of element.value: "" ; whitespace only ; a value shorter than
\* maxLength ; one of exactly maxLength characters ; one longer (otherwise
\* well formed) ; one the pattern rejects.
Values == {"empty", "blank", "fits", "full", "long", "malformed"}

\* The (required, maxLength > 0, regEx) arguments of the call sites:
\* author and source names; the email, label, annotation and metric keys,
\* metric values and part names; the source URI and annotation value; the
\* optional label and part values.
Calls ==
    { [required |-> TRUE,  bounded |-> TRUE,  pattern |-> FALSE],
      [required |-> TRUE,  bounded |-> TRUE,  pattern |-> TRUE],
      [required |-> TRUE,  bounded |-> FALSE, pattern |-> FALSE],
      [required |-> FALSE, bounded |-> TRUE,  pattern |-> TRUE] }

NoCheck == [value |-> "empty", passed |-> TRUE]

VARIABLES
    call,      \* the arguments this field is validated with
    value,     \* element.value
    invalid,   \* element.classList.contains("invalid")
    wrapped,   \* element.parentNode.classList.contains("error-element")
    wrappers,  \* error-element divs inserted around the element
    errors,    \* <p class="error"> siblings after the element
    checks,    \* validations so far
    last       \* the value and the result of the last validation

vars == <<call, value, invalid, wrapped, wrappers, errors, checks, last>>

TypeOK ==
    /\ call \in Calls
    /\ value \in Values
    /\ invalid \in BOOLEAN
    /\ wrapped \in BOOLEAN
    /\ wrappers \in Nat
    /\ errors \in Nat
    /\ checks \in 0..MaxChecks
    /\ last \in [value: Values, passed: BOOLEAN]

Init ==
    /\ call \in Calls
    /\ value = "empty"
    /\ invalid = FALSE
    /\ wrapped = FALSE
    /\ wrappers = 0
    /\ errors = 0
    /\ checks = 0
    /\ last = NoCheck

-----------------------------------------------------------------------------

\* The checks in their order: required (length 0), then maxLength (for a
\* non-empty value), then the pattern (for a non-empty value).
Fails(c, v) ==
    \/ c.required /\ v = "empty"
    \/ c.bounded /\ v = "long"
    \/ c.pattern /\ v \in {"blank", "malformed"}

\* Mutant: the old message removed whenever the field was checked before,
\* rather than when it carries the "invalid" class.
ClearedErrorsAfterAny == IF checks > 0 THEN errors - 1 ELSE errors

\* The clearing at the top of validateInput: for an "invalid" element the
\* class goes and element.nextSibling, the old message, is removed.
ClearedErrors == IF invalid THEN errors - 1 ELSE errors

\* Mutant: addError inserting a new wrapper on every failure.
AddErrorAlwaysWraps(errs) ==
    /\ invalid' = TRUE
    /\ wrapped' = TRUE
    /\ wrappers' = wrappers + 1
    /\ errors' = errs + 1

\* addError: the class added, the element moved into a new wrapper unless
\* its parent already is one, and a new message appended to the wrapper.
AddError(errs) ==
    /\ invalid' = TRUE
    /\ wrapped' = TRUE
    /\ wrappers' = IF wrapped THEN wrappers ELSE wrappers + 1
    /\ errors' = errs + 1

\* onSubmit dispatching to the field's add handler: validateInput on this
\* field (and on the handler's other field, whose verdict is `ok`); on a
\* failed check addError, otherwise the old error stays cleared; on
\* success of both fields the handler clears the field (value = "").
ValidateInput(ok) ==
    LET fail == Fails(call, value)
    IN /\ checks < MaxChecks
       /\ \/ fail /\ AddError(ClearedErrors)
          \/ /\ ~fail
             /\ invalid' = FALSE
             /\ errors' = ClearedErrors
             /\ UNCHANGED <<wrapped, wrappers>>
       /\ checks' = checks + 1
       /\ last' = [value |-> value, passed |-> ~fail]
       /\ value' = IF ~fail /\ ok THEN "empty" ELSE value
       /\ UNCHANGED call

\* The user edits the field.
Type(v) ==
    /\ value' = v
    /\ UNCHANGED <<call, invalid, wrapped, wrappers, errors, checks, last>>

Next ==
    \/ \E ok \in BOOLEAN : ValidateInput(ok)
    \/ \E v \in Values : Type(v)

Spec == Init /\ [][Next]_vars

-----------------------------------------------------------------------------
(* Properties.                                                             *)

\* Spec 4.1: however often the field is validated, the field shows one
\* error message exactly when its last validation failed, inside a single
\* wrapper, and carries the "invalid" class exactly then.  validateInput
\* relies on the message being element.nextSibling and on the class
\* marking that a message is there.
OneErrorIffLastFailed ==
    /\ errors = (IF last.passed THEN 0 ELSE 1)
    /\ invalid = ~last.passed
    /\ wrappers <= 1

=============================================================================
