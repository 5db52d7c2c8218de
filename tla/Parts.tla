-------------------------------- MODULE Parts --------------------------------
(***************************************************************************)
(* The parts table of bottle-create.js: addPartLabel, deletePartLabel and  *)
(* the parts part of the final SAVE branch of onSubmit.                    *)
(*                                                                         *)
(* The template renders each part as two rows of partsTable: the part row *)
(* at an even index p (its first cell holds the selection checkbox) and   *)
(* the row p + 1 holding the part's label list.  Part rows are never added *)
(* or removed by the script, so the table is a function from the even row *)
(* indices to the label lists.  A part label is a pill as in Pills, whose *)
(* close icon carries two arguments baked in when it was created: the row *)
(* index of its part and its key.                                          *)
(***************************************************************************)
EXTENDS Naturals, Sequences, SequencesExt

CONSTANTS
    NParts,    \* parts rendered by the template
    Keys,      \* part label keys the validators accept (model values)
    Vals,      \* non-empty part label values (model values)
    NoValue,   \* an empty optional value
    MaxPills   \* bound on the labels of one part

P == INSTANCE Pills WITH labels <- <<>>, annotations <- <<>>, metrics <- <<>>

\* The DOM indices of the part rows: 0, 2, 4, ...
PartRows == {2 * i : i \in 0..NParts - 1}

\* The tokens a part label renders: "key=" or "key=value".
PartToken == {<<k, "=">> : k \in Keys} \cup P!PairToken

\* The icon's first argument is a part row index.
PartPill == [text: PartToken, part: PartRows, name: Keys]

VARIABLES
    labels,     \* labels[p]: the <li>s in row p + 1's list
    checked,    \* checked[p]: the checkbox of part row p
    selectAll   \* the #part_checked_All checkbox

vars == <<labels, checked, selectAll>>

TypeOK ==
    /\ labels \in [PartRows -> Seq(PartPill)]
    /\ \A p \in PartRows : Len(labels[p]) <= MaxPills
    /\ checked \in [PartRows -> BOOLEAN]
    /\ selectAll \in BOOLEAN

Init ==
    /\ labels = [p \in PartRows |-> <<>>]
    /\ checked = [p \in PartRows |-> FALSE]
    /\ selectAll = FALSE

-----------------------------------------------------------------------------

\* The user ticks or clears a part's checkbox, or "select all".
Check(p, b) ==
    /\ checked' = [checked EXCEPT ![p] = b]
    /\ UNCHANGED <<labels, selectAll>>

CheckAll(b) ==
    /\ selectAll' = b
    /\ UNCHANGED <<labels, checked>>

\* The part rows the loop of addPartLabel appends to.
Selected == {p \in PartRows : checked[p] \/ selectAll}

\* Mutant: the close icon given the label row p + 1 it is appended to,
\* to which deletePartLabel adds one again.
NewPillLabelRow(p, k, v) ==
    [text |-> <<k, "=">> \o (IF v = NoValue THEN <<>> ELSE <<v>>),
     part |-> p + 1, name |-> k]

\* The <li> addPartLabel creates for part row p: name + "=" + value, with
\* "=" written even for an empty value, and a close icon calling
\* deletePartLabel(p, name).
NewPill(p, k, v) ==
    [text |-> <<k, "=">> \o (IF v = NoValue THEN <<>> ELSE <<v>>),
     part |-> p, name |-> k]

\* onSubmit with ADD PART, addPartLabel after both validations passed:
\* for p = 0, 2, ... a pill appended to every checked part, or to all of
\* them when "select all" is ticked.  No part selected adds nothing.
AddPartLabel(k, v) ==
    /\ \A p \in Selected : Len(labels[p]) < MaxPills
    /\ labels' = [p \in PartRows |->
                    IF p \in Selected THEN Append(labels[p], NewPill(p, k, v))
                                      ELSE labels[p]]
    /\ UNCHANGED <<checked, selectAll>>

\* Mutant: the clicked <li> itself removed, not the first with its key.
DeletePartLabelClicked(q, i) ==
    LET pill == labels[q][i]
    IN /\ pill.part \in PartRows
       /\ labels' = [labels EXCEPT ![pill.part] = RemoveAt(@, i)]
       /\ UNCHANGED <<checked, selectAll>>

\* The close icon of pill i in part row q's list: deletePartLabel(part,
\* name) takes the list of row part + 1 and removes its first pill whose
\* key is `name` (getIndex); with none, removeChild throws and nothing
\* changes.
DeletePartLabel(q, i) ==
    LET pill == labels[q][i]
    IN /\ pill.part \in PartRows
       /\ labels' = [labels EXCEPT ![pill.part] = P!RemoveByKey(@, <<pill.name>>)]
       /\ UNCHANGED <<checked, selectAll>>

\* part["labels"] of the document: label[key] = value for each pill of the
\* part's list in order, split at the first "=".
PartLabelsDoc(list) ==
    LET put(obj, pill) == (P!PillKey(pill.text) :> P!PillValue(pill.text)) @@ obj
    IN FoldLeft(put, P!EmptyObject, list)

PartsDoc == [p \in PartRows |-> PartLabelsDoc(labels[p])]

\* What the pills of part row p parse back to at the final SAVE, in order:
\* the key before the first "=" and the value after it.
PartEntries(p) ==
    [i \in 1..Len(labels[p]) |->
        [key |-> P!PillKey(labels[p][i].text),
         value |-> P!PillValue(labels[p][i].text)]]

\* Each part's label list seen as the abstract keyed list of spec 4.2.
PartList(p) == INSTANCE KeyedList WITH entries <- PartEntries(p),
                                       MaxEntries <- MaxPills

Next ==
    \/ \E p \in PartRows, b \in BOOLEAN : Check(p, b)
    \/ \E b \in BOOLEAN : CheckAll(b)
    \/ \E k \in Keys, v \in Vals \cup {NoValue} : AddPartLabel(k, v)
    \/ \E q \in PartRows : \E i \in 1..Len(labels[q]) : DeletePartLabel(q, i)

Spec == Init /\ [][Next]_vars

-----------------------------------------------------------------------------
(* Properties.                                                             *)

\* Spec 4.2 for the labels of every part: each part's list behaves as a
\* keyed list of its own.  addPartLabel appends "key=value" to each
\* selected part (one Add per part in a single step), and the close icon's
\* deletePartLabel removes the first label of its key from the list it
\* sits in, which is the one DeleteKey removes.
\* (\A p : PartList(p)!Spec, with the quantifier moved inside the box.)
PartListsRefineKeyedList ==
    /\ \A p \in PartRows : PartList(p)!Init
    /\ [][\A p \in PartRows : [PartList(p)!Next]_(PartEntries(p))]_vars

=============================================================================
