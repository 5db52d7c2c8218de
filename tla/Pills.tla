-------------------------------- MODULE Pills --------------------------------
(***************************************************************************)
(* The three pill lists of bottle-create.js (labels, annotations, metrics):*)
(* saveLabel/deleteLabel, saveAnnotation/deleteAnnotations,                *)
(* addMetric/deleteMetric, the getIndex helper, and the parts of the final *)
(* SAVE branch of onSubmit that turn the pills back into the document.     *)
(*                                                                         *)
(* A pill is an <li> whose text before its first "<i" is a token, a        *)
(* sequence of symbols: a key, "=" and a value.  A key or a value is a     *)
(* model value; the validators keep "=" out of keys.  Annotations and      *)
(* metrics also carry a tooltip <span> (children[1]).  Each close icon has *)
(* the key baked into its onclick attribute when the pill was created     *)
(* (`name`); getIndex resolves it to the first pill with that key.         *)
(***************************************************************************)
EXTENDS Naturals, Sequences, SequencesExt, TLC

CONSTANTS
    Keys,      \* keys/names the validators accept (model values)
    Vals,      \* non-empty values and tooltip texts (model values)
    NoValue,   \* an empty optional label value
    MaxPills   \* bound on the pills of each list

Token == Seq(Keys \cup Vals \cup {"="})

Pill == [text: Token, tip: Vals \cup {NoValue}, name: Keys]

\* The token shapes each list renders: "key" or "key=value" for labels,
\* "key" for annotations, "name=value" for metrics.
KeyToken == {<<k>> : k \in Keys}
PairToken == {<<k, "=", v>> : k \in Keys, v \in Vals}

VARIABLES labels, annotations, metrics

vars == <<labels, annotations, metrics>>

TypeOK ==
    /\ labels \in Seq(Pill) /\ Len(labels) <= MaxPills
    /\ annotations \in Seq(Pill) /\ Len(annotations) <= MaxPills
    /\ metrics \in Seq(Pill) /\ Len(metrics) <= MaxPills
    /\ \A i \in 1..Len(labels) : labels[i].text \in KeyToken \cup PairToken
    /\ \A i \in 1..Len(annotations) : annotations[i].text \in KeyToken
    /\ \A i \in 1..Len(metrics) : metrics[i].text \in PairToken

Init == labels = <<>> /\ annotations = <<>> /\ metrics = <<>>

-----------------------------------------------------------------------------
(* Token parsing: text.indexOf("=") and the substrings around it.          *)

EqAt(t) == SelectInSeq(t, LAMBDA c : c = "=")

\* Mutant: the key taken as text.substring(0, text.indexOf("=")) without
\* the indexOf > -1 test, as the metrics loop does.
PillKeyNoCheck(t) == SubSeq(t, 1, EqAt(t) - 1)

\* The key of a token: the text before the first "=", or all of it.
PillKey(t) == IF EqAt(t) > 0 THEN SubSeq(t, 1, EqAt(t) - 1) ELSE t

\* The value of a token: the text after the first "=", or empty.
PillValue(t) == IF EqAt(t) > 0 THEN SubSeq(t, EqAt(t) + 1, Len(t)) ELSE <<>>

\* Mutant: getIndex scanning without the early return, so the last match
\* wins.
GetIndexLast(list, key) ==
    LET m == {i \in 1..Len(list) : PillKey(list[i].text) = key}
    IN IF m = {} THEN 0 ELSE CHOOSE i \in m : \A j \in m : j <= i

\* getIndex(list, key): the first position whose key is `key`, 0 (the
\* code's undefined) when there is none.
GetIndex(list, key) == SelectInSeq(list, LAMBDA p : PillKey(p.text) = key)

\* list.removeChild(list.children[getIndex(list, key)]); with no match the
\* call throws a TypeError and nothing is removed.
RemoveByKey(list, key) ==
    IF GetIndex(list, key) > 0 THEN RemoveAt(list, GetIndex(list, key)) ELSE list

-----------------------------------------------------------------------------

\* Mutant: "=" + value appended whatever the value, as addPartLabel does.
SaveLabelAlwaysEq(k, v) ==
    /\ Len(labels) < MaxPills
    /\ labels' = Append(labels,
                   [text |-> IF v = NoValue THEN <<k, "=">> ELSE <<k, "=", v>>,
                    tip |-> NoValue, name |-> k])
    /\ UNCHANGED <<annotations, metrics>>

\* saveLabel: key, then "=value" only when the value is non-empty.
SaveLabel(k, v) ==
    /\ Len(labels) < MaxPills
    /\ labels' = Append(labels,
                   [text |-> IF v = NoValue THEN <<k>> ELSE <<k, "=", v>>,
                    tip |-> NoValue, name |-> k])
    /\ UNCHANGED <<annotations, metrics>>

\* The close icon of label i: deleteLabel(name).
DeleteLabel(i) ==
    /\ labels' = RemoveByKey(labels, <<labels[i].name>>)
    /\ UNCHANGED <<annotations, metrics>>

\* saveAnnotation: the key as text, the value in the tooltip.
SaveAnnotation(k, v) ==
    /\ Len(annotations) < MaxPills
    /\ annotations' = Append(annotations, [text |-> <<k>>, tip |-> v, name |-> k])
    /\ UNCHANGED <<labels, metrics>>

DeleteAnnotations(i) ==
    /\ annotations' = RemoveByKey(annotations, <<annotations[i].name>>)
    /\ UNCHANGED <<labels, metrics>>

\* addMetric: name=value as text, the description in the tooltip.
AddMetric(k, v, d) ==
    /\ Len(metrics) < MaxPills
    /\ metrics' = Append(metrics, [text |-> <<k, "=", v>>, tip |-> d, name |-> k])
    /\ UNCHANGED <<labels, annotations>>

DeleteMetric(i) ==
    /\ metrics' = RemoveByKey(metrics, <<metrics[i].name>>)
    /\ UNCHANGED <<labels, annotations>>

-----------------------------------------------------------------------------
(* The document built by the final SAVE (lines 94-119, 160-169).           *)

EmptyObject == [x \in {} |-> x]

\* label[key] = value for each pill in order: a later key overwrites.
LabelsDoc ==
    LET put(obj, p) == (PillKey(p.text) :> PillValue(p.text)) @@ obj
    IN FoldLeft(put, EmptyObject, labels)

\* `anno = {}` before the loop but `var anno = {}` inside it: the loop body
\* starts every iteration from an empty object, then sets anno[text].
AnnotationsDoc ==
    LET put(obj, p) == (p.text :> p.tip) @@ EmptyObject
    IN FoldLeft(put, EmptyObject, annotations)

MetricsDoc ==
    [r \in 1..Len(metrics) |->
        [name |-> SubSeq(metrics[r].text, 1, EqAt(metrics[r].text) - 1),
         value |-> SubSeq(metrics[r].text, EqAt(metrics[r].text) + 1,
                          Len(metrics[r].text)),
         description |-> metrics[r].tip]]

-----------------------------------------------------------------------------

Next ==
    \/ \E k \in Keys, v \in Vals \cup {NoValue} : SaveLabel(k, v)
    \/ \E k \in Keys, v \in Vals : SaveAnnotation(k, v)
    \/ \E k \in Keys, v \in Vals, d \in Vals \cup {NoValue} : AddMetric(k, v, d)
    \/ \E i \in 1..Len(labels) : DeleteLabel(i)
    \/ \E i \in 1..Len(annotations) : DeleteAnnotations(i)
    \/ \E i \in 1..Len(metrics) : DeleteMetric(i)

Spec == Init /\ [][Next]_vars

-----------------------------------------------------------------------------
(* Properties.                                                             *)

\* The labels object of the document has exactly the keys of the label
\* pills on screen: rendering without "=" for an empty value, parsing at
\* the first "=", and deleting through getIndex by key keep them in step.
LabelKeysMatchPills ==
    DOMAIN LabelsDoc = {<<labels[i].name>> : i \in 1..Len(labels)}

\* The entries a pill list stands for: each pill's token split at the
\* first "=" (labels, metrics), or its text as key and its tooltip as
\* value (annotations).
LabelEntries ==
    [i \in 1..Len(labels) |->
        [key |-> PillKey(labels[i].text), value |-> PillValue(labels[i].text)]]

AnnotationEntries ==
    [i \in 1..Len(annotations) |->
        [key |-> annotations[i].text, value |-> <<annotations[i].tip>>]]

MetricEntries ==
    [i \in 1..Len(metrics) |->
        [key |-> PillKey(metrics[i].text), value |-> PillValue(metrics[i].text)]]

LabelList == INSTANCE KeyedList WITH entries <- LabelEntries, MaxEntries <- MaxPills
AnnotationList == INSTANCE KeyedList WITH entries <- AnnotationEntries, MaxEntries <- MaxPills
MetricList == INSTANCE KeyedList WITH entries <- MetricEntries, MaxEntries <- MaxPills

\* Spec 4.2 and 4.3: each pill list implements a keyed list.  Rendering a
\* pill and splitting its text at the first "=" gives back the key and
\* value that were added, and a close icon removes the first entry with
\* its pill's key, through the text getIndex parses.
PillListsRefineKeyedList ==
    LabelList!Spec /\ AnnotationList!Spec /\ MetricList!Spec

=============================================================================
