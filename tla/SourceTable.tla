----------------------------- MODULE SourceTable -----------------------------
(***************************************************************************)
(* The sources table of bottle-create.js: addSource, editSource,           *)
(* updateSource, saveSource, deleteSourceUpdate and deleteSource, the      *)
(* "sourceAdd" button whose label onSubmit dispatches on, and the sources  *)
(* part of the final SAVE branch of onSubmit.                              *)
(*                                                                         *)
(* Row for row the handlers are those of the authors table with two data  *)
(* cells instead of three: the same row numbers baked into onclick, the   *)
(* same shared inline input ids, the same trailing space after the name,  *)
(* the same missing re-bind in the cancel handler.  The table is therefore *)
(* the AuthorTable model instanced over sources; what is new is the label *)
(* of the form button, which editSource sets to SAVE SOURCE and only       *)
(* saveSource sets back, and saveSource itself, which reads the undeclared *)
(* identifier `row` (l.431) and throws after its validation passed.        *)
(***************************************************************************)
EXTENDS Naturals, Sequences

CONSTANTS
    Sources,   \* {name, uri} pairs the user types (model values)
    MaxRows,   \* bound on the rows of the table
    Bad,       \* inline input content the validators reject (model value)
    Markup,    \* <input ...> markup read back from a cell (model value)
    Cut,       \* `<input id=`, see AuthorTable
    Empty      \* a cell emptied by writing Cut through innerHTML

VARIABLES
    rows,      \* tbody.children of source-table, as in AuthorTable
    addButton  \* innerHTML of the #sourceAdd button

vars == <<rows, addButton>>

\* updateSource checks the name for required and <= 256 and the URI for
\* required only: no pattern, so the fragment pre-filled from a cell that
\* already held inline inputs passes.
Coll == INSTANCE AuthorTable WITH Authors <- Sources, MarkupPasses <- TRUE

TypeOK ==
    /\ Coll!TypeOK
    /\ addButton \in {"ADD SOURCE", "SAVE SOURCE"}

Init == rows = <<>> /\ addButton = "ADD SOURCE"

-----------------------------------------------------------------------------

\* Mutant: the icons bound to childElementCount - 1 read before insertRow.
AddSourceCountBefore(s) ==
    /\ addButton = "ADD SOURCE"
    /\ Coll!AddAuthorCountBefore(s)
    /\ UNCHANGED addButton

\* onSubmit with the button reading ADD SOURCE, addSource after both
\* validations passed: the row appended and bound to its index.
AddSource(s) ==
    /\ addButton = "ADD SOURCE"
    /\ Coll!AddAuthor(s)
    /\ UNCHANGED addButton

\* editSource(k): the row's cells become inline inputs pre-filled from
\* innerHTML, save/cancel icons bound to k, and the form button relabelled.
EditSource(k) ==
    /\ Coll!EditAuthor(k)
    /\ addButton' = "SAVE SOURCE"

\* onSubmit with the button reading SAVE SOURCE: saveSource validates the
\* form fields, scans for a row whose icon cell has one child, then reads
\* `row`, which is declared nowhere, and throws a ReferenceError before
\* writing a cell or relabelling the button.  With invalid fields it
\* returns earlier; either way the table and the button stay as they are.
SaveSource ==
    /\ addButton = "SAVE SOURCE"
    /\ UNCHANGED vars

\* updateSource(k): inputs found by id, validated, written into row k,
\* icons re-rendered for k.  The form button is left as it is.
UpdateSource(k) ==
    /\ Coll!UpdateAuthor(k)
    /\ UNCHANGED addButton

\* deleteSourceUpdate(k): row k removed, no re-bind, button untouched.
DeleteSourceUpdate(k) ==
    /\ Coll!DeleteAuthorUpdate(k)
    /\ UNCHANGED addButton

\* Mutant: the re-render loop binding every row to the deleted number.
DeleteSourceBindsDeleted(k) ==
    /\ Coll!DeleteAuthorBindsDeleted(k)
    /\ UNCHANGED addButton

\* deleteSource(k): row k removed and every remaining row re-bound.
DeleteSource(k) ==
    /\ Coll!DeleteAuthor(k)
    /\ UNCHANGED addButton

TypeInline(p, v) ==
    /\ Coll!TypeInline(p, v)
    /\ UNCHANGED addButton

\* The "sources" array of the document built by the final SAVE.
SourcesDoc == Coll!AuthorsDoc

Next ==
    \/ \E s \in Sources : AddSource(s)
    \/ SaveSource
    \/ \E k \in 0..MaxRows - 1 :
          \/ EditSource(k) \/ UpdateSource(k)
          \/ DeleteSourceUpdate(k) \/ DeleteSource(k)
    \/ \E p \in 1..Len(rows), v \in {[who |-> s, pad |-> FALSE] : s \in Sources}
                                     \cup {Bad} :
          TypeInline(p, v)

Spec == Init /\ [][Next]_vars

-----------------------------------------------------------------------------
(* Properties.                                                             *)

\* A stale icon of the sources table only ever points at a later row or at
\* none: addSource binds after insertRow, updateSource and editSource bind
\* the row they write, deleteSource re-binds all, and deleteSourceUpdate
\* leaves later rows one too high.
SourceBindingsNeverBehind == Coll!BindingsNeverBehind

\* A save or cancel icon is only shown on a row whose cells are inline
\* inputs, so updateSource always has inputs to read, whatever stale row
\* numbers editSource and the delete handlers leave behind.
SourceEditControlsOnInputRows == Coll!EditControlsOnInputRows

\* Spec 4.2 and 8: when no source is being edited, a valid source typed
\* into the form can be added, i.e. the form button dispatches to
\* addSource.  editSource relabels the button, and only saveSource, which
\* always throws, would relabel it back.
CanAddWhenNotEditing ==
    (Len(rows) < MaxRows /\ ~Coll!HasInput) => addButton = "ADD SOURCE"

\* Spec 4.1 and 4.3: the name and URI of a source are required, and the
\* sources of the document are pairs the user entered.  With no source
\* being edited, a SAVE exports only such pairs: no empty cell that an
\* update through editSource's pre-fill (l.369-370) and updateSource's
\* innerHTML write (l.456-457) left behind.
SourcesDocEntered ==
    ~Coll!HasInput => \A p \in 1..Len(rows) : SourcesDoc[p] \in Coll!Entry

=============================================================================
