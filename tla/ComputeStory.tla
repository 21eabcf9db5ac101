---------------------------- MODULE ComputeStory ----------------------------
(***************************************************************************)
(* What the diagram promises to show (the comments of lines 231 and 257  *)
(* of gen_distributed_scaling.py and the captions): the life cycle of    *)
(* Fusion's computed values after a database change.                      *)
(*                                                                         *)
(*   consistent --Invalidate--> invalidated --Request--> computing         *)
(*              --Complete--> recomputed,  and Restart begins the story    *)
(*   again once every value is recomputed.                                 *)
(*                                                                         *)
(* A value is invalidated only after the database has changed.  It is    *)
(* recomputed only on demand, top down: it starts computing when a value *)
(* that reads it has started (a value nobody reads is requested by the   *)
(* user).  It completes bottom up: only together with or after every     *)
(* value it reads.  Several values may move in one step, so the guards   *)
(* read the next state.                                                   *)
(***************************************************************************)
CONSTANTS
    Values,   \* the values the change affects
    Reads     \* <<v, w>>: v is computed from w (both in Values)

VARIABLES db, phase
vars == <<db, phase>>

Phases == {"consistent", "invalidated", "computing", "recomputed"}

Callers(v) == {u \in Values : <<u, v>> \in Reads}
Callees(v) == {w \in Values : <<v, w>> \in Reads}

Init ==
    /\ db = "unchanged"
    /\ phase = [v \in Values |-> "consistent"]

ChangeDb == db = "unchanged" /\ db' = "changed"

Invalidate(v) ==
    /\ phase[v] = "consistent" /\ phase'[v] = "invalidated"
    /\ db' = "changed"

Request(v) ==
    /\ phase[v] = "invalidated" /\ phase'[v] = "computing"
    /\ Callers(v) = {} \/ \E u \in Callers(v) : phase'[u] \in {"computing", "recomputed"}

Complete(v) ==
    /\ phase[v] = "computing" /\ phase'[v] = "recomputed"
    /\ \A w \in Callees(v) : phase'[w] = "recomputed"

\* Every value stays or takes one step of its life cycle.
Evolve ==
    /\ db' = db \/ ChangeDb
    /\ \A v \in Values : phase'[v] = phase[v] \/ Invalidate(v) \/ Request(v) \/ Complete(v)

Restart ==
    /\ \A v \in Values : phase[v] = "recomputed"
    /\ Init'

Next == Evolve \/ Restart

Spec == Init /\ [][Next]_vars

=============================================================================
