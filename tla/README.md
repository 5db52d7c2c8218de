# TLA+ models of the bottle editor page

The system is `src/internal/actions/bottle/templates/assets/bottle-create.js`.
That script runs in the browser page the data-tool CLI serves for
`bottle create`. The user builds a bottle's metadata on the page, then
either saves it back to the CLI over HTTP or discards it. Line numbers
below refer to that file.

## Inventory

### Components, their state and operations

| Component | State (in the DOM or in globals) | Operations |
|---|---|---|
| Dirty-state tracker | `isFormDirty` (l.2) | set by `onSubmit` (l.63), `updateAuthor` (l.304) and `updateSource` (l.465); cleared by a 200 (l.182); read by `beforeunload` (l.3-9) |
| Session protocol | the page, its pending XHRs, the `submitError` banner | final SAVE branch of `onSubmit` (l.80-189), `onDiscard` (l.193-201), the `visibilitychange` beacon (l.205-209), `window.close()` |
| Authors table | rows of `author-table`: three data cells (text or inline `<input>`), an icon cell whose `onclick` carries a row number | `addAuthor`, `editAuthor`, `updateAuthor`, `deleteAuthorUpdate`, `deleteAuthor` (defined twice, l.333 and l.347, identically). `saveAuthor` is unreachable: nothing labels a button SAVE AUTHOR |
| Sources table | rows of `source-table`, same shape with two data cells | `addSource`, `editSource`, `updateSource`, `saveSource`, `deleteSource`, `deleteSourceUpdate` |
| Pills: labels, annotations, metrics | `<li>` elements whose text is `key`, `key=value` or `name=value`, plus a tooltip for annotations and metrics; close icons carry the key | `saveLabel`/`deleteLabel`, `saveAnnotation`/`deleteAnnotations`, `addMetric`/`deleteMetric`, all deleting through `getIndex` (first pill with the key) |
| Parts | pairs of rows in `parts-table`: a part row (checkbox, name, size) and a row holding its label list | `addPartLabel` (to checked parts, or all when "select all" is checked), `deletePartLabel` |
| Field validator | per input: the `invalid` class, an `error-element` wrapper, an error `<p>` | `validateInput`, `addError` |
| Document assembler | none (reads the DOM) | the final SAVE branch builds the JSON document from the tables and pills |
| Backing process | not in this repository (Go CLI) | answers the commit POST, exits on a commit or a discard |

### How they interact

Everything runs on the browser's single event loop. User events call the
handlers synchronously. The only asynchrony is the network:
- the commit XHR, answered by `onreadystatechange`;
- the discard XHR, answered by `onload`;
- the beacon, which nobody answers.

Those callbacks interleave with further user events, with tab switches
(`visibilitychange`), and with `window.close()`. The browser may ignore
`close()`, or run `beforeunload` before it. The collections talk to each
other only through the DOM that the assembler reads, and through the
global dirty flag.

### What is hard

- **Ordering and interleaving of the session.** A save's answer can arrive
  after more edits. A tab switch sends `/discard` while the page stays usable.
  Unloading after a successful save fires the beacon again. Two saves can be
  in flight at once.
- **Stale row numbers.** Each row's icons carry a number that is fixed when
  the row is rendered. Only `deleteAuthor`/`deleteSource` re-render the
  icons of every row.
- **Shared element ids.** Every row in edit mode uses the same input ids.
- **Text conversions.** Keys and values are recovered by parsing
  `innerHTML`. The label value pattern has no `^` anchor at the start.
- **Partial failure.** The discard XHR has no `onerror`. `close()` may be ignored.

### What makes each component correct

- Session: one notification per outcome. No commit after a discard. The
  page closes only after the CLI knows the outcome. Every save is settled.
  The dirty flag covers every unsaved change.
- Tables: every icon is bound to its row's current position. A save writes
  the row's own inputs. The exported document holds entered values, never markup.
- Pills: the exported objects hold exactly the pills shown, with keys and
  values parsed back as entered.
- Validator: at most one error message per field. The message shows exactly
  when the last validation failed. Required means non-empty after trimming.

## Modules

| Module | Models | State | Actions |
|---|---|---|---|
| `Session` | session protocol, dirty flag, CLI boundary | `isFormDirty`, `draft` version, `visibility`, `page`, `closable`, `xhrs` (set of requests/answers), `beacons`, `server`, `savedSnap`, `banner`, history variables (counters, `beaconLost`) | `SubmitEdit` (onSubmit ADD/SAVE), `ClickDelete` (delete/cancel/edit handlers), `ClickUpdate` (updateAuthor/updateSource), `ClickSave`, `CommitDone`, `ClickDiscard`, `DiscardLoad`, `DiscardError`, `Hide`, `Show`, `UserLeave`; environment: `ServerCommit`, `ServerDiscard`, `ServerGone`, `BeaconArrives`, `BeaconLost`, `DropResponse` |
| `AuthorTable` | authors table and its part of the document | `rows`: each row is cell kind (text/input), value, icon mode (view/edit), bound number `at` | `AddAuthor`, `EditAuthor`, `TypeInline` (the user typing), `UpdateAuthor`, `DeleteAuthorUpdate`, `DeleteAuthor`; `AuthorsDoc` is the exported array |
| `SourceTable` | sources table | `rows` (the `AuthorTable` model, through `Coll == INSTANCE AuthorTable WITH Authors <- Sources`), `addButton` (label of `#sourceAdd`) | `AddSource`, `EditSource` (also relabels the button), `SaveSource` (throws at l.431, so it changes nothing), `UpdateSource`, `DeleteSourceUpdate`, `DeleteSource`, `TypeInline`; `SourcesDoc` |
| `Pills` | labels, annotations, metrics and their part of the document | `labels`, `annotations`, `metrics`: sequences of pills (token, tooltip, key baked into the close icon) | `SaveLabel`, `DeleteLabel`, `SaveAnnotation`, `DeleteAnnotations`, `AddMetric`, `DeleteMetric`; `LabelsDoc`, `AnnotationsDoc`, `MetricsDoc` |
| `KeyedList` | the abstract keyed collection of spec 4.2/4.3 | `entries`: a sequence of (key, value) | `Add`, `DeleteKey` (the first entry with the key) |
| `Parts` | part rows and their label lists | `labels` (even row index to pill list), `checked`, `selectAll` | `Check`, `CheckAll`, `AddPartLabel` (to every selected part), `DeletePartLabel` (through the part row baked into the icon); `PartsDoc` |
| `Codec` | `saveLabel` on characters, with the text conversions of a label value | `value` (labelValue.value as a character sequence), `pills` (each pill's innerHTML before `<i`, as the browser serializes it) | `Type`, `Backspace` (the user), `SaveLabel`; `LabelValueTest` is the unanchored value pattern, `Serialize` the `innerHTML` read-back, `LabelValuesDoc` the values of the labels object |
| `Validator` | `validateInput`/`addError` on one field | `call` (the call site's required/maxLength/pattern), `value` class, `invalid`, `wrapped`, `wrappers`, `errors`, `checks`, `last` (history) | `ValidateInput` (the handler's other field passing or not; the field cleared on success), `Type` |

`Pills` implements `KeyedList` three times. `LabelList`, `AnnotationList`
and `MetricList` instance it with `entries` mapped to what each pill's
token parses back to (`LabelEntries` and so on). The conjunction of the
three abstract `Spec`s is the property `PillListsRefineKeyedList`. `Parts`
reuses the token operators of `Pills` through a named instance, and
implements `KeyedList` once per part: `PartList(p)` is a parameterised
instance with `entries` mapped to `PartEntries(p)`, what part row `p`'s
pills parse back to. `PartListsRefineKeyedList` asserts every part's
abstract spec. TLC does not accept a quantifier over a `[][...]_v`
formula, so the property puts the quantifier inside the box. One
`addPartLabel` step is an `Add` on each selected part at once, and a
stutter on the others.
The refinement is checked per part. A close icon that deleted the same
key from another part's list would still pass as a `DeleteKey` there.
Only the type invariant's part-row argument ties an icon to a part.

`MC_*` modules give the constants for TLC.

### Abstractions

- In `Session` the draft is a version number. The handlers are grouped by
  what they do to `isFormDirty`. Validation failure is a draft that does not
  change.
- In `AuthorTable` an author triple is a model value. The three data cells
  move together. `pad` records the space `editAuthor` appends to the name.
  `Bad` is inline input the validators reject. `Markup` is what
  `innerHTML` gives back for a cell holding `<input>`. Editing such a cell
  again pastes that markup inside `value="..."`, where the attribute ends
  at the markup's first quote. The new input therefore holds the fragment
  `<input id=` (`Cut`). Written back through `innerHTML`, the fragment is
  an unfinished tag that the parser drops, and the cell becomes `Empty`
  (`Written`). `MarkupPasses` says whether the update handler's
  validation accepts `Cut`. It does not for authors, because the email
  pattern rejects it. It does for sources, because `updateSource` checks
  only required and length.
- In `Pills` a token is a sequence of symbols (key, `=`, value), so
  `indexOf("=")` and `substring` become `SelectInSeq` and `SubSeq`.
- A handler that indexes a missing row (`children[k]` undefined) throws a
  TypeError before it mutates anything. Such a call is a stuttering step and
  is left out.
- The backing process is modelled from the spec (`spec_modelled` in
  PROJECT.json). It answers a commit with 200 and exits, or answers with an
  error status. It exits on a discard. After that, every request gets a
  transport error. Requests travel on separate connections, so they are a
  set and are answered in any order. A beacon may be lost.
- `window.close()` is honoured or not; `closable` is chosen in `Init`,
  because browsers only let a script close a tab it opened. When it is
  honoured with the flag set, the browser asks and the user may stay.
- In `Validator` a value is one of six classes that the three checks
  tell apart: empty, whitespace only, shorter than `maxLength`, exactly
  `maxLength`, longer, or rejected by the pattern. Each input always gets
  the same arguments, so a call site is fixed in `Init`.
- In `Codec` a character is one of `a`, `1`, `-` and `&`: a letter, a
  digit, the pattern's only other character, and one that HTML escapes.
  With values of at most three such characters no HTML character reference
  can form, so assigning the markup keeps every character and reading it
  back escapes `&` alone. `<` is left out: it would start an element, and
  `&` already shows the conversion is not the identity.
- In `Parts` the part rows come from the template and never change; only
  their label lists, the checkboxes and "select all" do.

### Fairness

`Session` assumes weak fairness for the CLI answering each request and for
the browser running each XHR callback. It also assumes weak fairness for a
beacon either arriving or being lost. User actions get no fairness: the
user may do nothing. The liveness properties are therefore about what the
browser and the CLI do on their own. `ServerStopsWhenPageGone` allows for
a lost beacon, because the CLI has no timeout and nothing stops it then.
The other modules check only safety, and their specs have no fairness.

## Runs

| Run | Checks | Result |
|---|---|---|
| `session` | `TypeOK`; `ScriptCloseFollowsNotice` (the page closes itself only after the CLI has the outcome); `SaveSettles` (every save is answered and handled, or the page is gone); `ServerStopsWhenPageGone` (once the page is gone the CLI stops, unless a beacon was lost) | pass, 36k states |
| `session_tab_switch` | `NoCommitAfterCloseBeacon` (spec 4.4 and 8: no commit follows the involuntary-close beacon) | violation: hide (beacon), show, SAVE |
| `session_stale_clear` | `SaveClearsOnlyWhatItSaved` | violation: SAVE, edit, 200 clears the flag over the edit |
| `authors_stale_binding` | `BindingsCurrent` (spec 3 and 8) | violation: add, add, edit row 0, cancel it; the remaining row is bound to 1 |
| `authors_shared_ids` | `UpdateSavesOwnInputs` | violation: edit two rows, save the second; it gets the first row's values |
| `sources` | `TypeOK`; `SourceBindingsNeverBehind` (stale icons only point at later rows); `SourceEditControlsOnInputRows` (save/cancel icons only on inline-input rows) | pass, 1.2k states |
| `sources_emptied_row` | `SourcesDocEntered` (with no source being edited, every exported source is a pair the user entered) | violation: add, add, edit row 0, `deleteSource` on row 1 gives the editing row view icons, its pencil pre-fills `<input id=`, `updateSource` accepts it and the cells become empty, so SAVE exports `{name: "", uri: ""}` |
| `sources_add_blocked` | `CanAddWhenNotEditing` | violation: add, edit, update; the button still reads SAVE SOURCE, so no source can be added again |
| `pills` | `TypeOK`; `LabelKeysMatchPills`; `PillListsRefineKeyedList` (refines `KeyedList`) | pass, 3k states |
| `codec_label_value` | `LabelValuesConform` (every label value in the document is one spec 4.2 admits) | violation: type `&`, type `a`, ADD LABEL; the check accepts `&a` on its suffix `a`, and the document's value is `&amp;a` |
| `validator` | `TypeOK`; `OneErrorIffLastFailed` (one message exactly when the last check failed, in one wrapper) | pass, 624 states |
| `parts` | `TypeOK` (including that every close icon names a part row); `PartListsRefineKeyedList` (each part's list refines `KeyedList`) | pass, 3.5k states |

The sources table is the authors table model instanced over sources, so
the `sources` run also checks the authors handlers. The violation runs of
`MC_AuthorTable` use the authors model directly.

Every property of a passing run has a mutant in PROJECT.json: a plausible
bug in one mapped definition that TLC then catches. Examples:
- a visibility listener without its `'hidden'` test;
- `onDiscard` closing on send;
- a callback ignoring errors;
- the unload not sending a beacon;
- a row number taken before `insertRow`;
- a re-render loop writing the deleted number;
- `updateAuthor` not restoring its icons;
- a key parse without the `indexOf > -1` test;
- `getIndex` letting the last match win;
- `addError` wrapping on every failure;
- a part label's icon bound to its label row `p + 1` rather than the part row `p`;
- `deletePartLabel` removing the clicked `<li>` rather than the first with
  its key.

### Bounds

- `Session`: 2 edits (enough to tell "saved" from "edited since"), 2
  requests (a double save, or a save then a discard), 1 hide (one tab
  switch). Every violation above needs at most 5 steps within these bounds.
  With 3 requests the `session` run also passes (421k states), but it
  takes about three minutes, so the configured bound stays at 2.
- `AuthorTable` and `SourceTable`: 2 entries, 3 rows. Three rows are
  needed for a row above an edited row to be removed while a row below it
  exists, which is the shape of every stale-binding scenario.
- `Pills`: 2 keys, 1 value plus the empty value, 2 pills per list. This
  covers duplicate keys, distinct keys, and both token forms.
- `Parts`: 2 parts (rows 0 and 2), 2 keys, 2 labels per part. A label on
  the second part is what an ordinal/row mix-up would misplace. With 3
  parts the run still passes, but it takes 11 minutes, because the
  refinement mapping is evaluated for every part in every step.
- `Codec`: values of up to 2 characters, 1 pill. `&a` and `-a` are the
  shortest values the unanchored check accepts and the spec does not.
- `Validator`: 3 validations, enough for fail-fail-pass and pass-fail-fail,
  the sequences where a message could stack or be left behind.

## Other divergences seen while modelling

These can be seen in the code, and they came up while the models were
written, but they are not kept as runs:
- After a successful save, `window.close()` unloads the visible page. The
  `visibilitychange` listener (l.205-209) then sends `/discard` to a CLI
  that has already exited, and that request just fails.
- A second SAVE whose request fails leaves the `submitError` banner up
  (l.185), even when the first SAVE was committed.
- `onDiscard` has no `onerror` (l.193-201). A transport error leaves the
  page open and clean, e.g. when a tab switch has already stopped the CLI.
- Saving while a row is in edit mode exports the `<input>` markup of its
  cells (l.89, l.152). `AuthorsDoc` models this. `sources_emptied_row`
  shows the worse case: after the edit ends, the row is left empty.
- No delete or cancel handler sets `isFormDirty` (e.g. l.333), so a draft
  whose only change is a deletion closes without the unsaved-changes
  prompt, although spec 2 says every mutating operation sets the flag.
- The annotations loop declares `var anno = {}` inside its body (l.162),
  so the document's annotations hold only the last pill.
- Annotation values, metric descriptions and table cells also go through
  `innerHTML` both ways with no pattern (e.g. l.524, l.167), so `&` comes
  back as `&amp;` there too; `Codec` shows the conversion on labels.
- `required` tests `value.length` (l.629), so a field of spaces passes.
- `editAuthor`/`editSource` append a space to the name (l.315, l.369), so
  a name of exactly 256 characters fails its own re-validation.

## Not modelled, and why

- Page markup, styling and wording: not in this repository, and no property is about them.
- `saveAuthor`: unreachable from this script.
- `console.log` in `validateInput`: output only.
- Character-level conversion of fields other than label values: they go
  through the same `Serialize` step as labels, so a model of them would
  repeat what `codec_label_value` shows.
- An abstract ordered list for the authors and sources tables: under
  the code, a refinement would fail on the stale-binding traces that
  `authors_stale_binding` and `authors_shared_ids` already show. A mapping
  loose enough to hold would have to let an update overwrite any row, so
  it would say nothing.
- Part rows, names, sizes and digests: the template renders them and no
  script changes them, so `Parts` keeps the rows fixed.
- A composed model of `Session` with a table: the session run already
  needs 36k states with the draft as a counter; instancing a table for the
  draft multiplies that by the table's 1.2k states, beyond what a check
  can finish. The two are linked only by `isFormDirty`, which `Session`
  sets from the same handlers the tables model.

## Plan

Done:
1. `Session`: the session-termination protocol, the dirty flag, and the
   backing process stopping unless a beacon is lost.
2. `AuthorTable` and `SourceTable`: the collection controllers with index
   re-binding, the stuck SAVE SOURCE button, and markup accepted by
   `updateSource`.
3. `Pills`, shown to refine `KeyedList`.
4. `Parts` and `Validator`.
5. `Codec`: the label value check, render and `innerHTML` read-back on
   characters.
6. `Parts`: each part's label list shown to refine `KeyedList`.

Nothing more is planned. What is left is listed under "Not modelled".
