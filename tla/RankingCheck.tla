---------------------------- MODULE RankingCheck ----------------------------
(***************************************************************************)
(* node_inv_pct's rank checked against the spec's definition (section 4.2 *)
(* and 8: rightmost affected node first, offsets base, base+2, ...), over *)
(* every host of NodeCount nodes with x-coordinates from XS and every    *)
(* affected set.  The state is the host being ranked; the two actions    *)
(* move from one host table to another, so every table is reached.       *)
(***************************************************************************)
EXTENDS Integers, Ranking

CONSTANTS NodeCount, XS, BASE

VARIABLES x, affected
vars == <<x, affected>>

Idx == 0 .. NodeCount - 1
INV_STAGGER == 2

Init == x = [i \in Idx |-> Min(XS)] /\ affected = {}

MoveNode == \E i \in Idx, v \in XS : x' = [x EXCEPT ![i] = v] /\ UNCHANGED affected

ToggleAffected ==
    \E i \in Idx : affected' = (affected \ {i}) \cup ({i} \ affected) /\ UNCHANGED x

Next == MoveNode \/ ToggleAffected

Spec == Init /\ [][Next]_vars

\* Rank by the spec: the affected nodes strictly to the right, and those at the
\* same x with a smaller index.
ReferenceRank(i) == Cardinality({j \in affected : x[j] > x[i] \/ (x[j] = x[i] /\ j < i)})

\* The sort-and-index of node_inv_pct gives every affected node the offset
\* BASE + 2 * rank of the spec: offsets start at BASE, are distinct, and
\* strictly increase from the rightmost node leftwards (ties by index).
StaggerMatchesSpec ==
    \A i \in affected :
        BASE + RankRightmostFirst(affected, x)[i] * INV_STAGGER = BASE + ReferenceRank(i) * INV_STAGGER

=============================================================================
