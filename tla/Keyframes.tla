----------------------------- MODULE Keyframes -----------------------------
(***************************************************************************)
(* What a browser plays for one CSS @keyframes block, and the generator's *)
(* dedup-by-offset of the new-node keyframe entries.                      *)
(*                                                                         *)
(* A keyframe is a record with a field pct (its offset in percent of the  *)
(* cycle) and one field per animated property it declares: paint (the    *)
(* fill or stroke colour class) and op (opacity in hundredths).  A block  *)
(* is a sequence of keyframes in declaration order; a selector list such  *)
(* as "0%,14%" is two keyframes with the same declarations.               *)
(*                                                                         *)
(* Time is measured in half-percent steps x: every offset the generator   *)
(* writes is a whole percent, so the half-integers stand for the open     *)
(* intervals between offsets, on which an eased interpolation lies        *)
(* strictly between its two end points.                                   *)
(***************************************************************************)
EXTENDS Integers, SequencesExt

\* A finite set of integers as the ascending sequence of its elements.
Ascending(S) ==
    [k \in 1 .. Cardinality(S) |-> CHOOSE x \in S : Cardinality({y \in S : y < x}) = k - 1]

\* Keyframes at offsets outside 0%..100% make their rule invalid and are ignored.
ValidOffset(o) == 0 <= o /\ o <= 100

\* Positions in the block of the valid keyframes that declare property p.
Declaring(frames, p) ==
    {k \in DOMAIN frames : ValidOffset(frames[k].pct) /\ p \in DOMAIN frames[k]}

OffsetsOf(frames, p) == {frames[k].pct : k \in Declaring(frames, p)}

\* Several keyframes at one offset cascade: the last declaration of p wins.
Resolved(frames, p, o) ==
    frames[Max({k \in Declaring(frames, p) : frames[k].pct = o})][p]

(***************************************************************************)
(* The end points of the interpolation of p at time x: a single value on  *)
(* a keyframe, otherwise the values of the neighbouring keyframes.  Where *)
(* no keyframe declares p before (after) x, the element's own value base  *)
(* is used, as CSS does for a missing 0% (100%) keyframe.                 *)
(***************************************************************************)
ValuesAt(frames, p, x, base) ==
    LET offs   == OffsetsOf(frames, p)
        before == {o \in offs : 2 * o < x}
        after  == {o \in offs : 2 * o > x}
    IN  IF \E o \in offs : 2 * o = x
        THEN {Resolved(frames, p, x \div 2)}
        ELSE { IF before = {} THEN base ELSE Resolved(frames, p, Max(before)),
               IF after = {} THEN base ELSE Resolved(frames, p, Min(after)) }

(***************************************************************************)
(* gen_css, new-node keyframes: entries are put into a dict keyed by      *)
(* offset, a later entry replacing an earlier one, and the dict's items   *)
(* are emitted sorted by offset.                                          *)
(***************************************************************************)
\* Fault: the first entry for an offset kept instead of the last.
DedupByPct_KeepFirst(entries) ==
    LET put(d, e) == [o \in DOMAIN d \cup {e.pct} |-> IF o \in DOMAIN d THEN d[o] ELSE e]
        by_pct    == FoldLeft(put, <<>>, entries)
        order     == Ascending(DOMAIN by_pct)
    IN  [k \in DOMAIN order |-> by_pct[order[k]]]

DedupByPct(entries) ==
    LET put(d, e) == [o \in DOMAIN d \cup {e.pct} |-> IF o = e.pct THEN e ELSE d[o]]
        by_pct    == FoldLeft(put, <<>>, entries)
        order     == Ascending(DOMAIN by_pct)
    IN  [k \in DOMAIN order |-> by_pct[order[k]]]

=============================================================================
