--------------------------- MODULE AnimatedDiagram ---------------------------
(***************************************************************************)
(* The generator composed with the browser that plays its output.  Once   *)
(* the file is written and verified, the clock t walks the 48 s cycle in  *)
(* half-percent steps and wraps from 100% to 0%, as "infinite" does.      *)
(* Every property about the animation reads the generated rules and       *)
(* keyframes (css, rules, svg), not the tables they were made from.       *)
(***************************************************************************)
EXTENDS DistributedScaling

\* t: the cycle position; compiled: the animation as the browser resolves
\* it when the document is loaded, what each instant of the cycle shows.
VARIABLES t, compiled
vars == <<genVars, t, compiled>>

\* Half-percent steps per cycle.
CycleSteps == 200

-----------------------------------------------------------------------------
(* The picture at time x *)
SvgIds == {svg[k].id : k \in DOMAIN svg} \ {NoId}
KeyframeNames == {css[k].name : k \in DOMAIN css}

\* The keyframes an element plays: those named by the rule whose selector is
\* its id (none when no rule or no such @keyframes exists).
Anim(id) ==
    LET rs == {k \in DOMAIN rules : rules[k].sel = id}
        r  == rules[Max(rs)]
        bs == {k \in DOMAIN css : css[k].name = r.kf}
    IN  IF rs = {} \/ bs = {} THEN <<>> ELSE css[Max(bs)].frames

\* An element's own opacity is 1 and its own paint is unset.
OpAt(id, x) == ValuesAt(Anim(id), "op", x, 100)
PaintAt(id, x) == ValuesAt(Anim(id), "paint", x, "unset")
Shown(id, x) == id \in SvgIds /\ Max(OpAt(id, x)) > 0
FullyShown(id, x) == id \in SvgIds /\ OpAt(id, x) = {100}

Nodes == Range(AllNodes)
Affected(n) == is_affected(n[1], n[2])

\* A node is on screen through its static circle or one of its two versions.
NodeShown(n, x) == ~Affected(n) \/ Shown(OldId(n), x) \/ Shown(NewId(n), x)

\* Consistent: every visible version of the node is green (or flashing a cache hit).
NodeConsistent(n, x) ==
    /\ NodeShown(n, x)
    /\ \A id \in {OldId(n), NewId(n)} :
           Shown(id, x) => PaintAt(id, x) \subseteq {"green", "hit"}

\* Not yet touched by the invalidation: the old version, fully green, alone.
Untouched(n, x) ==
    Shown(OldId(n), x) /\ PaintAt(OldId(n), x) = {"green"} /\ ~Shown(NewId(n), x)

\* Invalidated and not yet recomputing.
Invalidated(n, x) == ~Untouched(n, x) /\ ~Shown(NewId(n), x)

NewConsistent(n, x) == Shown(NewId(n), x) /\ PaintAt(NewId(n), x) \subseteq {"green", "hit"}

\* n depends on m: an internal edge src -> dst, or a cross edge from -> to
\* (a caller on the left uses a value computed on the right).
DependsOn ==
    {<< <<e[1], e[2]>>, <<e[3], e[4]>> >> : e \in Range(InternalEdges) \cup Range(CROSS_AFFECTED) \cup Range(CROSS_SAFE)}

\* Lines drawn for an edge that are animated, with their edge.
AnimatedLines == {svg[k] : k \in {j \in DOMAIN svg : svg[j].tag = "line" /\ svg[j].id # NoId}}

-----------------------------------------------------------------------------
(* The story told by the played animation (refinement mapping) *)
StoryValues == {n \in Nodes : Affected(n)}
StoryReads == {d \in DependsOn : d[1] \in StoryValues /\ d[2] \in StoryValues}

\* Where an affected node is in its life cycle at time x, read from what is
\* on screen: its new version (blue while computing, green or a cache-hit
\* flash once recomputed), else its old version (fully green until touched).
Phase(n, x) ==
    IF Shown(NewId(n), x)
    THEN IF PaintAt(NewId(n), x) \subseteq {"green", "hit"} THEN "recomputed" ELSE "computing"
    ELSE IF Untouched(n, x) THEN "consistent" ELSE "invalidated"

\* The database change is shown by the db-flash of B2's DB node.
FlashAt(x) == "dbflash" \in PaintAt(DbId("B2", 3), x)

\* For each instant: every affected node's phase, and whether the DB flash
\* has been shown since the cycle began.
Compile ==
    LET flashes == {x \in 0 .. CycleSteps : FlashAt(x)}
    IN  [x \in 0 .. CycleSteps |->
            [phase |-> [n \in StoryValues |-> Phase(n, x)],
             db    |-> \E y \in flashes : y <= x]]

Playing == pc = "done"

\* A generator step; the finished document is shown at 0%.
Generate ==
    /\ GenNext
    /\ UNCHANGED t
    /\ compiled' = IF pc' = "done" THEN Compile ELSE compiled

Tick ==
    /\ Playing
    /\ t < CycleSteps
    /\ t' = t + 1
    /\ UNCHANGED <<genVars, compiled>>

Wrap ==
    /\ Playing
    /\ t = CycleSteps
    /\ t' = 0
    /\ UNCHANGED <<genVars, compiled>>

Init ==
    /\ GenInit
    /\ t = 0
    /\ compiled = <<>>

Next == Generate \/ Tick \/ Wrap

\* What a caption speaks of: the affected values of some hosts, and those
\* with every affected value they read, directly or not ("full chain").
ValuesOf(hs) == {n \in StoryValues : n[1] \in hs}
RECURSIVE ReadClosure(_)
ReadClosure(S) ==
    LET T == S \cup {d[2] : d \in {e \in StoryReads : e[1] \in S}}
    IN  IF T = S THEN S ELSE ReadClosure(T)
ChainOf(hs) == ReadClosure(ValuesOf(hs))

\* What is on screen now; before the document is shown, the story's start.
Screen == IF Playing THEN compiled[t]
          ELSE [phase |-> [n \in StoryValues |-> "consistent"], db |-> FALSE]

Story == INSTANCE ComputeStory
           WITH Values <- StoryValues, Reads <- StoryReads,
                db <- IF Screen.db THEN "changed" ELSE "unchanged", phase <- Screen.phase

Spec == Init /\ [][Next]_vars

-----------------------------------------------------------------------------
(* Properties of the generated document *)

\* An id is NoId or a tuple whose first token is one of the code's prefixes.
IdWords == {"old", "new", "ie", "xe", "bx", "desc", "db", "bg", "sbg", "ah"}
IsId(id) == id = NoId \/ id[1] \in IdWords

Paints == {"green", "bleach", "blue", "hit", "db", "dbflash", "idle"}

TypeOK ==
    /\ pc \in {"defs", "css_old", "css_new", "css_db", "css_ie", "css_xe", "css_bx",
               "css_desc", "css_apply", "decorations", "boxes", "db_partitions", "static_edges", "animated_edges",
               "safe_cross", "volatile_cross", "static_nodes", "db_nodes", "old_groups",
               "new_groups", "descriptions", "legend", "write", "verify", "failed", "done"}
    /\ file \in {"previous", "truncated", "complete"}
    /\ \A k \in DOMAIN css :
           /\ IsId(css[k].name)
           /\ \A j \in DOMAIN css[k].frames :
                  LET f == css[k].frames[j]
                  IN  /\ f.pct \in Int
                      /\ DOMAIN f \in {{"pct", "op"}, {"pct", "paint"}, {"pct", "paint", "op"}}
                      /\ "op" \in DOMAIN f => f.op \in 0 .. 100
                      /\ "paint" \in DOMAIN f => f.paint \in Paints
    /\ \A k \in DOMAIN rules : IsId(rules[k].sel) /\ IsId(rules[k].kf)
    /\ \A k \in DOMAIN svg : svg[k].tag \in STRING /\ IsId(svg[k].id)
    /\ report \in [circles : Nat, ids : Nat, dupes : SUBSET Range(Ids),
                   keyframes : Nat, old_groups : Nat, new_groups : Nat]
    /\ t \in 0 .. CycleSteps
    /\ compiled \in {<<>>} \cup [0 .. CycleSteps -> [phase : [StoryValues -> Story!Phases], db : BOOLEAN]]

\* The verifier's uniqueness check: no id is written twice into the document
\* (old-/new- groups, ie-/xe- lines, bx- boxes, desc- captions, db- node, defs).
IdsUnique == pc = "done" => report.dupes = {}

\* gen_css and gen_svg iterate different tables for the same elements
\* (CROSS_DISC_RECON vs CROSS_AFFECTED, RECOMP.get vs membership): every
\* animation rule targets an element of the document and names a @keyframes
\* block of the style, and every element with an animated id has a rule.
AnimationsBound ==
    pc = "done" =>
        /\ \A k \in DOMAIN rules : rules[k].sel \in SvgIds /\ rules[k].kf \in KeyframeNames
        /\ \A id \in SvgIds :
               id[1] \in {"old", "new", "ie", "xe", "bx", "desc", "db"} =>
                   \E k \in DOMAIN rules : rules[k].sel = id

\* Spec section 8: the number of @keyframes blocks the verifier counts is
\* 2 per affected node, plus one per animated edge (an internal edge whose
\* source node is affected, spec section 3, or a volatile cross edge), per
\* box with both invalidation and recomputation, per caption, plus db-flash.
KeyframeCountAsSpecified ==
    pc = "done" =>
        report.keyframes =
            2 * Cardinality({n \in Nodes : Affected(n)})
            + Cardinality({e \in Range(InternalEdges) : Affected(<<e[1], e[2]>>)})
            + Len(CROSS_AFFECTED)
            + Cardinality(Range(Keys(INV)) \cap Range(Keys(RECOMP)))
            + Len(DESCRIPTIONS) + 1

\* Spec section 3: every keyframe offset gen_css writes (inv + FADE_LEN,
\* app - 1, ht + 4, earliest_inv - 1, the clamped caption offsets, ...)
\* lies in 0%..100%; a browser drops a keyframe rule outside it.
KeyframeOffsetsInRange ==
    \A k \in DOMAIN css : \A j \in DOMAIN css[k].frames : ValidOffset(css[k].frames[j].pct)

\* Spec section 8: the number of circles equals the number of declared nodes.
CircleCountMatchesNodes == pc = "done" => report.circles = Cardinality(Nodes)

\* edge_pts: every line drawn for an edge is shorter than the distance of the
\* two node centres and points the same way (the trim by the radius NR must
\* not reverse or lengthen it; the d < 0.1 guard covers coincident centres).
EdgesTrimmedForward ==
    \A k \in DOMAIN svg :
        svg[k].tag = "line" /\ svg[k].edge # <<>> =>
            LET e  == svg[k].edge
                c1 == abs_pos(e[1], e[2])
                c2 == abs_pos(e[3], e[4])
                s  == svg[k].seg
                dx == c2[1] - c1[1]
                dy == c2[2] - c1[2]
                lx == s[3] - s[1]
                ly == s[4] - s[2]
            IN  /\ lx * dx + ly * dy > 0
                /\ lx * lx + ly * ly < dx * dx + dy * dy

\* Every host with DB nodes gets a partition line (gen_svg's literal host
\* list against HOSTS' db sets), and the line runs between the circles: the
\* DB nodes lie wholly to its right, every other node wholly to its left
\* (DB_PART_FRAC against the node fractions, through abs_pos's rounding).
DbPartitionSeparates ==
    pc = "done" =>
        \A h \in {k \in Range(Keys(HOSTS)) : "db" \in DOMAIN H(k) /\ H(k).db # {}} :
            /\ h \in Range(DbPartitionHosts)
            /\ \A i \in 0 .. Len(H(h).nodes) - 1 :
                   IF i \in H(h).db THEN abs_pos(h, i)[1] - NR > db_part_x(h)
                                    ELSE abs_pos(h, i)[1] + NR < db_part_x(h)

-----------------------------------------------------------------------------
(* Properties of the animation as played (checked at every half percent) *)

\* Fusion's invalidation runs from a value to the values computed from it:
\* when a dependent node starts to invalidate (node_inv_pct, the per-host
\* stagger, CROSS_DISC_RECON), each affected node it depends on has already
\* left its untouched green state.
InvalidationFollowsDependencies ==
    Playing =>
        \A d \in DependsOn :
            Affected(d[1]) /\ Affected(d[2]) /\ Invalidated(d[1], t) => ~Untouched(d[2], t)

\* Recomputation runs the other way: a recomputed node shows green (or a
\* cache hit) only while every node it depends on is shown consistent
\* (RECOMP, NODE_RECOMP and the cache-hit flashes, as keyframed by gen_css).
RecomputeAfterDependencies ==
    Playing =>
        \A d \in DependsOn : NewConsistent(d[1], t) => NodeConsistent(d[2], t)

\* An animated edge (ie- internal, xe- cross) is visible only while the node
\* it starts from is visible: the disconnect/reconnect times of
\* CROSS_DISC_RECON agree with the fade-out and appearance of the caller.
EdgesOnlyFromShownCallers ==
    Playing =>
        \A l \in AnimatedLines :
            Shown(l.id, t) => NodeShown(<<l.edge[1], l.edge[2]>>, t)

\* A node is never drawn twice: the old version has faded out before the new
\* one appears (FADE_LEN against the appear times).
NoNodeDrawnTwice ==
    Playing => \A n \in Nodes : ~(Shown(OldId(n), t) /\ Shown(NewId(n), t))

\* The loop has no jump at 100% -> 0%: every node shows the same colours, and
\* every animated line and box the same opacity and paint, at the end of the
\* cycle as at its start.
Picture(x) ==
    [n \in Nodes |-> UNION {PaintAt(id, x) : id \in {i \in {OldId(n), NewId(n)} : Shown(i, x)}}]
SeamlessLoop ==
    (Playing /\ t = CycleSteps) =>
        /\ Picture(CycleSteps) = Picture(0)
        /\ \A id \in {l.id : l \in AnimatedLines} \cup {BxId(h) : h \in Range(BoxHosts)} :
               /\ OpAt(id, CycleSteps) = OpAt(id, 0)
               /\ PaintAt(id, CycleSteps) = PaintAt(id, 0)

\* The captions that say all computed values are consistent are true
\* whenever they are visible at all.
ConsistentCaptionsTruthful ==
    Playing =>
        \A i \in DOMAIN DESCRIPTIONS :
            DESCRIPTIONS[i].claim = "consistent" /\ Shown(DescId(i - 1), t) =>
                \A n \in Nodes : NodeConsistent(n, t)

\* The played animation implements the story of ComputeStory: no value is
\* shown invalidated before the DB flash, none skips a phase (also across
\* the 100% -> 0% wrap), a value starts computing only once a caller has
\* (NODE_RECOMP's "only when A2 requests it"), and turns green only with
\* or after the values it reads (node_inv_pct, node_recomp, the keyframes).
StoryRefined == Story!Spec

\* Each caption's phase shows what its text says happens in it: a DB change
\* starts invalidation in its host; invalidation reaches the hosts it names;
\* a client recomputes, with the full chain of values it reads, between the
\* caption's start and end (DESCRIPTIONS against INV, node_inv_pct, RECOMP,
\* NODE_RECOMP and the db-flash keyframes, separate tables of the code).
CaptionPhasesTruthful ==
    Playing =>
        \A i \in DOMAIN DESCRIPTIONS :
            LET c       == DESCRIPTIONS[i]
                At(x)   == compiled[2 * x]
            IN  /\ c.claim = "db_change" =>
                       /\ ~At(c.start).db /\ At(c.end).db
                       /\ \E n \in ValuesOf(c.hosts) : At(c.end).phase[n] = "invalidated"
                /\ c.claim = "invalidation" =>
                       \A n \in ValuesOf(c.hosts) :
                           At(c.start).phase[n] = "consistent" /\ At(c.end).phase[n] # "consistent"
                /\ c.claim = "recompute" =>
                       /\ \A n \in ValuesOf(c.hosts) : At(c.start).phase[n] # "recomputed"
                       /\ \A n \in ChainOf(c.hosts) : At(c.end).phase[n] = "recomputed"

\* While a caption says a host is already consistent ("cache hit"), every
\* value of that host in the recomputing client's chain is shown recomputed.
CachedCaptionsTruthful ==
    Playing =>
        \A i \in DOMAIN DESCRIPTIONS :
            LET c == DESCRIPTIONS[i]
            IN  2 * c.start <= t /\ t <= 2 * c.end =>
                    \A n \in ChainOf(c.hosts) \cap ValuesOf(c.cached) :
                        Screen.phase[n] = "recomputed"

\* A host's box stroke follows its affected nodes (gen_css's earliest_inv,
\* first_app and latest_grn over node_inv_pct and node_recomp, overrides
\* included): the box is back to its idle stroke only when every affected
\* node of the host is shown consistent, and it shows the computing stroke
\* whenever one of them is shown computing.
BoxStrokeFollowsNodes ==
    Playing =>
        \A h \in Range(BoxHosts) :
            /\ PaintAt(BxId(h), t) = {"idle"} =>
                   \A n \in ValuesOf({h}) : Screen.phase[n] \in {"consistent", "recomputed"}
            /\ (\E n \in ValuesOf({h}) : Screen.phase[n] = "computing") =>
                   "blue" \in PaintAt(BxId(h), t)

\* Each caption is fully shown from its start to its end (spec: "a
\* (start%, end%, label) triple describing when a description caption is
\* visible within the repeating cycle").
CaptionsShownThroughPhase ==
    Playing =>
        \A i \in DOMAIN DESCRIPTIONS :
            2 * DESCRIPTIONS[i].start <= t /\ t <= 2 * DESCRIPTIONS[i].end =>
                FullyShown(DescId(i - 1), t)

=============================================================================
