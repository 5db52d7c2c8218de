-------------------------------- MODULE Codec --------------------------------
(***************************************************************************)
(* saveLabel of bottle-create.js at the level of characters, with the text *)
(* conversions a label value goes through on its way into the document:    *)
(* the label value check of validateInput, the string written to           *)
(* li.innerHTML, the browser's serialization of that markup when the final *)
(* SAVE reads innerHTML back, and the split at the first "=".              *)
(*                                                                         *)
(* Pills abstracts a value to a model value; here it is a sequence of      *)
(* characters from a small alphabet: a letter, a digit, "-" (the pattern's *)
(* only non-alphanumeric character) and "&" (a character HTML escapes).    *)
(* The label key is fixed to one the anchored key pattern accepts.  With   *)
(* values of at most three characters over this alphabet no HTML named    *)
(* character reference can occur, so parsing the assigned markup keeps    *)
(* every character, and serializing it escapes "&" alone.                  *)
(***************************************************************************)
EXTENDS Naturals, Sequences, SequencesExt

CONSTANTS
    MaxLen,    \* bound on the characters typed into #labelValue
    MaxPills   \* bound on the label pills

Alnum == {"a", "1"}
Digits == {"1"}
\* [a-zA-Z0-9-], the class of the value pattern.
ValueClass == Alnum \cup {"-"}
Chars == ValueClass \cup {"&"}

\* A label key the key pattern accepts.
Key == <<"k">>

P == INSTANCE Pills WITH Keys <- {"k"}, Vals <- Chars, NoValue <- "none",
                         labels <- <<>>, annotations <- <<>>, metrics <- <<>>

VARIABLES
    value,   \* labelValue.value
    pills    \* for each <li> of labelList: its innerHTML before "<i"

vars == <<value, pills>>

TypeOK ==
    /\ value \in Seq(Chars) /\ Len(value) <= MaxLen
    /\ pills \in Seq(Seq(Chars \cup {"k", "=", "m", "p", ";"}))
    /\ Len(pills) <= MaxPills

Init == value = <<>> /\ pills = <<>>

-----------------------------------------------------------------------------

\* The pattern (?![0-9]+$)(?!.*-$)(?!-)[a-zA-Z0-9-]{1,63}$ tried at
\* position i: the rest of the string is not all digits, does not end in
\* "-", does not start with "-", and is a run of at most 63 characters of
\* the class reaching the end.
MatchesAt(s, i) ==
    LET rest == SubSeq(s, i, Len(s))
    IN /\ \E j \in 1..Len(rest) : rest[j] \notin Digits
       /\ Last(rest) # "-"
       /\ rest[1] # "-"
       /\ Len(rest) <= 63
       /\ \A j \in 1..Len(rest) : rest[j] \in ValueClass

\* regEx.test(value): the pattern has no leading "^", so test succeeds when
\* it matches at any position.
LabelValueTest(s) == \E i \in 1..Len(s) : MatchesAt(s, i)

\* validateInput(labelValue, false, 63, ...): an empty value passes (not
\* required, and the length and pattern checks need a non-empty value).
ValidValue(s) == s = <<>> \/ (Len(s) <= 63 /\ LabelValueTest(s))

\* The text saveLabel writes before the close icon: name, then "=" and the
\* value when the value is non-empty.
Render(v) == Key \o (IF v = <<>> THEN <<>> ELSE <<"=">> \o v)

\* Reading innerHTML back: the text is serialized with "&" as "&amp;".
Serialize(t) ==
    FlattenSeq([i \in 1..Len(t) |->
                  IF t[i] = "&" THEN <<"&", "a", "m", "p", ";">> ELSE <<t[i]>>])

\* The user types a character into the value field, or erases one.
Type(c) ==
    /\ Len(value) < MaxLen
    /\ value' = Append(value, c)
    /\ UNCHANGED pills

Backspace ==
    /\ value # <<>>
    /\ value' = SubSeq(value, 1, Len(value) - 1)
    /\ UNCHANGED pills

\* onSubmit with ADD LABEL, saveLabel after both validations passed: the
\* <li> appended and both fields cleared.  A value the check rejects
\* leaves the list and the field as they are.
SaveLabel ==
    /\ ValidValue(value)
    /\ Len(pills) < MaxPills
    /\ pills' = Append(pills, Serialize(Render(value)))
    /\ value' = <<>>

\* labels[key] of the document: the text after the first "=".
LabelValuesDoc == [i \in 1..Len(pills) |-> P!PillValue(pills[i])]

Next ==
    \/ \E c \in Chars : Type(c)
    \/ Backspace
    \/ SaveLabel

Spec == Init /\ [][Next]_vars

-----------------------------------------------------------------------------
(* Properties.                                                             *)

\* Spec 4.2: a label value is made of letters, digits and hyphens, is not
\* purely numeric and does not end in a hyphen.
SpecLabelValue(v) ==
    \/ v = <<>>
    \/ /\ \A j \in 1..Len(v) : v[j] \in ValueClass
       /\ \E j \in 1..Len(v) : v[j] \notin Digits
       /\ Last(v) # "-"

\* Spec 4.2 and 4.3: every value in the labels object of the document is
\* a label value the spec admits, i.e. what saveLabel's check accepted,
\* written into the pill and parsed back by the final SAVE.
LabelValuesConform ==
    \A i \in 1..Len(pills) : SpecLabelValue(LabelValuesDoc[i])

=============================================================================
