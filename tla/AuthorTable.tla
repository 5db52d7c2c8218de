----------------------------- MODULE AuthorTable -----------------------------
(***************************************************************************)
(* The authors table of bottle-create.js: addAuthor, editAuthor,           *)
(* updateAuthor, deleteAuthorUpdate and deleteAuthor, and the authors part *)
(* of the final SAVE branch of onSubmit.                                   *)
(*                                                                         *)
(* A row of the tbody is abstracted to one record: its three data cells    *)
(* (name, email, url) either hold text or inline <input> elements, its     *)
(* fourth cell holds two icons whose onclick attributes carry a row number *)
(* `at` (JavaScript, 0-based) and call either editAuthor/deleteAuthor      *)
(* ("view") or updateAuthor/deleteAuthorUpdate ("edit").  Position p of    *)
(* the sequence is tbody.children[p-1].                                    *)
(*                                                                         *)
(* Author data is a model value of Authors; editAuthor pre-fills the name  *)
(* input with the name followed by a space, recorded by pad.  An inline    *)
(* input that holds something the validators reject is Bad.  A cell that  *)
(* holds inline inputs reads back through innerHTML as Markup.  Pasting    *)
(* that markup into value="..." (editAuthor again on such a cell) ends the *)
(* attribute at the markup's first quote, so the new input holds the      *)
(* fragment `<input id=`, which is Cut; written back through innerHTML     *)
(* that fragment is an unfinished tag the parser drops, which leaves the  *)
(* cell Empty.  A handler that indexes a missing row throws a TypeError   *)
(* before mutating anything, so it is not a step of the model.             *)
(***************************************************************************)
EXTENDS Naturals, Sequences, SequencesExt

CONSTANTS
    Authors,   \* author triples the user types (model values)
    MaxRows,   \* bound on the rows of the table
    Bad,       \* inline input content the validators reject (model value)
    Markup,    \* <input ...> markup read back from a cell (model value)
    Cut,       \* `<input id=`: markup pasted into value="..." (model value)
    Empty,     \* a cell emptied by writing Cut through innerHTML
    MarkupPasses  \* whether the update handler's validation accepts Markup

\* The text of the data cells of a saved row.
Entry == [who: Authors, pad: BOOLEAN]

CellVal == Entry \cup {Bad, Cut, Empty}

Row == [kind: {"text", "input"}, val: CellVal,
        mode: {"view", "edit"}, at: 0..MaxRows - 1]

VARIABLE rows

vars == <<rows>>

TypeOK == rows \in Seq(Row) /\ Len(rows) <= MaxRows

Init == rows = <<>>

\* The JavaScript index of position p.
Js(p) == p - 1

\* Row k of tbody.children exists.
Exists(k) == k + 1 <= Len(rows)

\* The first inline input in document order: getElementById returns it for
\* every row being edited, since they all use the same ids.
FirstInput == CHOOSE q \in 1..Len(rows) :
                  /\ rows[q].kind = "input"
                  /\ \A r \in 1..q - 1 : rows[r].kind = "text"

HasInput == \E q \in 1..Len(rows) : rows[q].kind = "input"

\* validateInput on the inline inputs.  For authors the name is checked
\* for required and <= 256 and the email against its anchored pattern,
\* which `<input id=` fails, so MarkupPasses is FALSE.  An emptied cell
\* pre-fills an empty second field, which required rejects.
Valid(v) == v \in Entry \/ (MarkupPasses /\ v = Cut)

\* The value a cell shows when read back through innerHTML.
Shown(r) == IF r.kind = "input" THEN Markup ELSE r.val

-----------------------------------------------------------------------------

\* Mutant: the icons' row number taken from childElementCount - 1 before
\* insertRow.
AddAuthorCountBefore(a) ==
    /\ Len(rows) < MaxRows
    /\ rows' = Append(rows, [kind |-> "text", val |-> [who |-> a, pad |-> FALSE],
                             mode |-> "view", at |-> Len(rows) - 1])

\* addAuthor after its validation passed: a row appended, its icons bound
\* to childElementCount - 1 computed after the insertion.
AddAuthor(a) ==
    /\ Len(rows) < MaxRows
    /\ rows' = Append(rows, [kind |-> "text", val |-> [who |-> a, pad |-> FALSE],
                             mode |-> "view", at |-> Len(rows)])

\* The pre-filled value of an inline input: innerHTML of the cell, with a
\* space appended to the name (value="' + name + ' ").  A cell holding
\* inputs gives the fragment Cut; an emptied cell stays empty.
Prefill(r) == CASE r.kind = "input"  -> Cut
                [] r.val \in Entry   -> [r.val EXCEPT !.pad = TRUE]
                [] OTHER             -> r.val

\* cell.innerHTML = input.value: a typed value is kept, the fragment Cut
\* is dropped by the HTML parser.
Written(v) == IF v = Cut THEN Empty ELSE v

\* editAuthor(k), called by the pencil icon of a row in view mode.
EditAuthor(k) ==
    /\ \E p \in 1..Len(rows) : rows[p].mode = "view" /\ rows[p].at = k
    /\ Exists(k)
    /\ rows' = [rows EXCEPT ![k + 1] = [kind |-> "input", val |-> Prefill(@),
                                        mode |-> "edit", at |-> k]]

\* The user types into the inline inputs of row p.
TypeInline(p, v) ==
    /\ rows[p].kind = "input"
    /\ rows' = [rows EXCEPT ![p].val = v]

\* Mutant: updateAuthor writing the cells but not re-rendering the icons.
UpdateAuthorKeepsIcons(k) ==
    /\ \E p \in 1..Len(rows) : rows[p].mode = "edit" /\ rows[p].at = k
    /\ HasInput
    /\ Valid(rows[FirstInput].val)
    /\ Exists(k)
    /\ rows' = [rows EXCEPT ![k + 1].kind = "text",
                            ![k + 1].val = Written(rows[FirstInput].val)]

\* updateAuthor(k), called by the save icon of a row in edit mode: reads
\* the inputs found by id, validates them, and writes them into row k.
UpdateAuthor(k) ==
    /\ \E p \in 1..Len(rows) : rows[p].mode = "edit" /\ rows[p].at = k
    /\ HasInput
    /\ Valid(rows[FirstInput].val)
    /\ Exists(k)
    /\ rows' = [rows EXCEPT ![k + 1] = [kind |-> "text",
                                        val |-> Written(rows[FirstInput].val),
                                        mode |-> "view", at |-> k]]

\* deleteAuthorUpdate(k), the close icon of a row in edit mode: removes
\* row k and leaves every other row's icons as they are.
DeleteAuthorUpdate(k) ==
    /\ \E p \in 1..Len(rows) : rows[p].mode = "edit" /\ rows[p].at = k
    /\ Exists(k)
    /\ rows' = RemoveAt(rows, k + 1)

\* The fourth cell of every row rewritten as pencil and close icons bound to
\* the row's current index.
Rebind(s) == [p \in 1..Len(s) |-> [s[p] EXCEPT !.mode = "view", !.at = Js(p)]]

\* Mutant: the re-render loop writing the deleted row number k into every
\* row instead of the loop index.
DeleteAuthorBindsDeleted(k) ==
    /\ \E p \in 1..Len(rows) : rows[p].mode = "view" /\ rows[p].at = k
    /\ Exists(k)
    /\ rows' = [p \in 1..Len(rows) - 1 |->
                   [RemoveAt(rows, k + 1)[p] EXCEPT !.mode = "view", !.at = k]]

\* deleteAuthor(k), the close icon of a row in view mode: removes row k
\* and re-renders the icons of all remaining rows.
DeleteAuthor(k) ==
    /\ \E p \in 1..Len(rows) : rows[p].mode = "view" /\ rows[p].at = k
    /\ Exists(k)
    /\ rows' = Rebind(RemoveAt(rows, k + 1))

\* The "authors" array of the document built by the final SAVE.
AuthorsDoc == [p \in 1..Len(rows) |-> Shown(rows[p])]

Next ==
    \/ \E a \in Authors : AddAuthor(a)
    \/ \E k \in 0..MaxRows - 1 :
          EditAuthor(k) \/ UpdateAuthor(k) \/ DeleteAuthorUpdate(k)
          \/ DeleteAuthor(k)
    \/ \E p \in 1..Len(rows), v \in {[who |-> a, pad |-> FALSE] : a \in Authors}
                                     \cup {Bad} :
          TypeInline(p, v)

Spec == Init /\ [][Next]_vars

-----------------------------------------------------------------------------
(* Properties.                                                             *)

\* The icons of a row never point at a row before it: the row numbers in
\* onclick attributes only go stale by rows above being removed, so a stale
\* icon acts on a later row or on none.  addAuthor, editAuthor and
\* updateAuthor bind the row they write; deleteAuthor re-binds them all.
BindingsNeverBehind ==
    \A p \in 1..Len(rows) : rows[p].at >= Js(p)

\* A save or cancel icon is only shown on a row whose cells are inline
\* inputs, so updateAuthor always has inputs to read.
EditControlsOnInputRows ==
    \A p \in 1..Len(rows) : rows[p].mode = "edit" => rows[p].kind = "input"

\* Spec 3 and 8: after any deletion every surviving row's edit and delete
\* controls are bound to its current position.
BindingsCurrent ==
    \A p \in 1..Len(rows) : rows[p].at = Js(p)

\* Spec 4.2 commitEdit: saving a row in edit mode writes back the values
\* typed into that row's own inputs.
UpdateSavesOwnInputs ==
    [][\A p \in 1..Len(rows) :
          (/\ Len(rows') = Len(rows)
           /\ rows[p].kind = "input"
           /\ rows'[p].kind = "text")
          => rows'[p].val = rows[p].val]_vars

=============================================================================
