------------------------------ MODULE Ranking ------------------------------
(***************************************************************************)
(* node_inv_pct ranks the affected nodes of a host with                   *)
(*     sorted(host["affected"], key=x, reverse=True).index(idx)           *)
(* The set of small integers iterates in ascending order, and Python's    *)
(* sort is stable also with reverse=True: nodes with equal x keep their   *)
(* ascending index order.                                                  *)
(***************************************************************************)
EXTENDS Integers, SequencesExt, Keyframes

\* Insert i into a sequence sorted by descending x, after every element whose
\* x is not smaller (this keeps the sort stable).
InsertDesc(s, i, x) ==
    LET k == Cardinality({j \in DOMAIN s : x[s[j]] >= x[i]})
    IN  SubSeq(s, 1, k) \o <<i>> \o SubSeq(s, k + 1, Len(s))

\* sorted(affected, key=lambda i: x[i], reverse=True)
SortedRightmostFirst(affected, x) ==
    FoldLeft(LAMBDA s, i : InsertDesc(s, i, x), <<>>, Ascending(affected))

\* Fault: ranks counted from 1.
RankRightmostFirst_OneBased(affected, x) ==
    LET ranked == SortedRightmostFirst(affected, x)
    IN  [i \in affected |-> CHOOSE k \in 1..Len(ranked) : ranked[k] = i]

\* ranked.index(idx): the 0-based position of each affected node.
RankRightmostFirst(affected, x) ==
    LET ranked == SortedRightmostFirst(affected, x)
    IN  [i \in affected |-> CHOOSE k \in 0..Len(ranked) - 1 : ranked[k + 1] = i]

=============================================================================
