------------------------------ MODULE KeyedList ------------------------------
(***************************************************************************)
(* What a key-addressed collection of the editor promises (spec 4.2 and   *)
(* 4.3): an ordered list of entries, each a key and a value, the value    *)
(* the empty string when none was given.  add appends an entry; deleting  *)
(* by key removes the first entry with that key (lookupByKey resolves the *)
(* first positional match); duplicate keys are permitted.                 *)
(*                                                                         *)
(* Keys and values are strings, here sequences of symbols, so that a      *)
(* refinement mapping can supply what a rendered token parses back to.    *)
(***************************************************************************)
EXTENDS Naturals, Sequences, SequencesExt

CONSTANTS
    Keys,        \* keys the callers accept (model values)
    Vals,        \* non-empty values (model values)
    NoValue,     \* no value given
    MaxEntries   \* bound on the entries

Entry == [key: Seq(Keys), value: Seq(Vals)]

\* The string a given value stands for.
Text(v) == IF v = NoValue THEN <<>> ELSE <<v>>

VARIABLE entries

TypeOK == entries \in Seq(Entry) /\ Len(entries) <= MaxEntries

Init == entries = <<>>

Add(k, v) ==
    /\ Len(entries) < MaxEntries
    /\ entries' = Append(entries, [key |-> <<k>>, value |-> Text(v)])

\* The position lookupByKey returns, 0 for not-found.
Lookup(k) == SelectInSeq(entries, LAMBDA e : e.key = <<k>>)

DeleteKey(k) ==
    /\ Lookup(k) > 0
    /\ entries' = RemoveAt(entries, Lookup(k))

Next ==
    \/ \E k \in Keys, v \in Vals \cup {NoValue} : Add(k, v)
    \/ \E k \in Keys : DeleteKey(k)

Spec == Init /\ [][Next]_entries

=============================================================================
