------------------------- MODULE KeyframeDedupCheck -------------------------
(***************************************************************************)
(* gen_css replaces the new-node keyframe entries by one entry per offset *)
(* (the last one written) in ascending order.  This module checks that    *)
(* the browser plays the deduplicated block exactly as it would play the  *)
(* raw entries, over every entry list of at most MaxEntries keyframes     *)
(* with offsets from Offsets (out-of-range ones included, as app - 1 can  *)
(* be) and paints from Colours.  The state is the entry list; the actions *)
(* write one more entry or drop one, so every list is reached.            *)
(***************************************************************************)
EXTENDS Integers, SequencesExt, Keyframes

CONSTANTS Offsets, Colours, MaxEntries

VARIABLE entries

\* Offsets of the model: one before 0% (app - 1 of a node appearing at 0%),
\* 0%, 1% and 100%.
DedupOffsets == {-1, 0, 1, 100}

Entries == {[pct |-> o, paint |-> c, op |-> v] : o \in Offsets, c \in Colours, v \in {0, 100}}

Init == entries = <<>>

AddEntry ==
    /\ Len(entries) < MaxEntries
    /\ \E e \in Entries : entries' = Append(entries, e)

DropEntry == \E k \in DOMAIN entries : entries' = RemoveAt(entries, k)

Next == AddEntry \/ DropEntry

Spec == Init /\ [][Next]_entries

\* Times (half-percent steps) on every offset and just before and after it:
\* each interval between two keyframe offsets contains one of them.
Times == {2 * o + d : o \in Offsets, d \in {-1, 0, 1}}

\* Dedup-by-offset of the new-node keyframes (last entry per offset kept,
\* sorted) leaves the played paint and opacity unchanged at every instant:
\* it agrees with the browser's last-declaration-wins cascade.
DedupPreservesPlayback ==
    \A x \in Times :
        /\ ValuesAt(DedupByPct(entries), "paint", x, "unset") = ValuesAt(entries, "paint", x, "unset")
        /\ ValuesAt(DedupByPct(entries), "op", x, 100) = ValuesAt(entries, "op", x, 100)

=============================================================================
