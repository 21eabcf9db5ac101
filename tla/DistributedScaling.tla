------------------------- MODULE DistributedScaling -------------------------
(***************************************************************************)
(* The generator src/docs/img/gen_distributed_scaling.py.                 *)
(*                                                                         *)
(* The seven tables of the script are CONSTANTS; the module is the code   *)
(* that walks them.  A Python dict is a sequence of <<key, value>> pairs  *)
(* in insertion order; a set of node indices iterates in ascending order. *)
(* Each section of gen_css, gen_svg and __main__ is one action, taken in  *)
(* program order (pc).                                                    *)
(*                                                                         *)
(* Abstraction.  An element id is the sequence of the tokens the code     *)
(* joins with "-" (f"old-{host}-{idx}" is <<"old", host, idx>>); host ids *)
(* contain no "-", so two ids are equal exactly when their tokens are.    *)
(* A CSS declaration keeps the colour class (paint) and the opacity in    *)
(* hundredths (op); stroke widths and translations are left out.  An SVG  *)
(* element keeps its tag, its id (NoId when it has none) and, for a line  *)
(* drawn for an edge or a DB partition, its end points.  Shapes without *)
(* an id (panels, header bars, labels, the legend) keep only their tag.   *)
(***************************************************************************)
EXTENDS Integers, SequencesExt, Keyframes, Ranking

CONSTANTS
    HOSTS,            \* dict host -> [box, nodes, edges, affected, db (optional)]
    CROSS_AFFECTED,   \* seq of <<from_host, from_node, to_host, to_node>>
    CROSS_SAFE,       \* seq of <<from_host, from_node, to_host, to_node>>
    INV,              \* dict host -> invalidation start %
    RECOMP,           \* dict host -> [appear, green, cache_hits (optional)]
    NODE_RECOMP,      \* dict <<host, node>> -> [appear, green]
    CROSS_DISC_RECON, \* dict cross edge -> <<disconnect %, reconnect %>>
    DESCRIPTIONS      \* seq of [start, end, claim, hosts, cached]: the text's claim

VARIABLES pc, css, rules, svg, file, report
genVars == <<pc, css, rules, svg, file, report>>

\* Layout and timing constants (lines 19-22, 219).
NR == 5
FADE_LEN == 8
PAD == 10
HDR_H == 18
INV_STAGGER == 2
DB_PART_FRAC == 62   \* 0.62, in hundredths (line 39)

NoId == <<>>

-----------------------------------------------------------------------------
(* Dicts *)
Keys(d) == [k \in DOMAIN d |-> d[k][1]]
HasKey(d, key) == \E k \in DOMAIN d : d[k][1] = key
Get(d, key) == d[CHOOSE k \in DOMAIN d : d[k][1] = key][2]

(* Python's round(): to the nearest integer, halves to the even one. *)
PyRound(num, den) ==
    LET q == num \div den
        r == num % den
    IN  IF 2 * r < den \/ (2 * r = den /\ q % 2 = 0) THEN q ELSE q + 1

\* u <= v / sqrt(D), for integers u, v and D > 0
AtMostScaled(u, v, D) ==
    IF v >= 0 THEN u <= 0 \/ u * u * D <= v * v
              ELSE u < 0 /\ u * u * D >= v * v

\* round(x + a / sqrt(D)) for an integer x and |a / sqrt(D)| <= NR
RoundShift(x, a, D) ==
    LET near == {n \in x - NR - 1 .. x + NR + 1 :
                    /\ AtMostScaled(2 * (n - x) - 1, 2 * a, D)
                    /\ AtMostScaled(-(2 * (n - x) + 1), -2 * a, D)}
    IN  IF Cardinality(near) = 1 THEN CHOOSE n \in near : TRUE
                                 ELSE CHOOSE n \in near : n % 2 = 0

-----------------------------------------------------------------------------
(* Helpers (lines 185-240) *)
H(hid) == Get(HOSTS, hid)

abs_pos(hid, idx) ==
    LET b  == H(hid).box
        f  == H(hid).nodes[idx + 1]
        iw == b[3] - 2 * PAD
        ih == (b[4] - HDR_H) - 2 * PAD
    IN  << PyRound(100 * (b[1] + PAD) + f[1] * iw, 100),
           PyRound(100 * (b[2] + HDR_H + PAD) + f[2] * ih, 100) >>

\* e = <<h1, n1, h2, n2>>; d < 0.1 holds for integer centres only when d = 0.
\* Fault: the target end shifted with the same sign as the source end.
edge_pts_SameSign(e) ==
    LET c1 == abs_pos(e[1], e[2])
        c2 == abs_pos(e[3], e[4])
        dx == c2[1] - c1[1]
        dy == c2[2] - c1[2]
        D  == dx * dx + dy * dy
    IN  IF D = 0 THEN <<c1[1], c1[2], c2[1], c2[2]>>
        ELSE << RoundShift(c1[1], NR * dx, D), RoundShift(c1[2], NR * dy, D),
                RoundShift(c2[1], NR * dx, D), RoundShift(c2[2], NR * dy, D) >>

edge_pts(e) ==
    LET c1 == abs_pos(e[1], e[2])
        c2 == abs_pos(e[3], e[4])
        dx == c2[1] - c1[1]
        dy == c2[2] - c1[2]
        D  == dx * dx + dy * dy
    IN  IF D = 0 THEN <<c1[1], c1[2], c2[1], c2[2]>>
        ELSE << RoundShift(c1[1], NR * dx, D), RoundShift(c1[2], NR * dy, D),
                RoundShift(c2[1], -NR * dx, D), RoundShift(c2[2], -NR * dy, D) >>

is_db(hid, idx) == "db" \in DOMAIN H(hid) /\ idx \in H(hid).db
is_affected(hid, idx) == idx \in H(hid).affected
\* Fault: an edge animated only when both of its ends are affected.
is_edge_animated_BothEnds(hid, src, dst) == is_affected(hid, src) /\ is_affected(hid, dst)
is_edge_animated(hid, src, dst) == is_affected(hid, src)

node_inv_pct(hid, idx) ==
    LET host == H(hid)
        x    == [i \in 0 .. Len(host.nodes) - 1 |-> host.nodes[i + 1][1]]
    IN  Get(INV, hid) + RankRightmostFirst(host.affected, x)[idx] * INV_STAGGER

\* Fault: the per-node NODE_RECOMP overrides ignored.
node_recomp_NoOverride(hid, idx) ==
    LET rc == Get(RECOMP, hid)
    IN  [appear |-> rc.appear, green |-> rc.green,
         hits   |-> IF "cache_hits" \in DOMAIN rc THEN rc.cache_hits ELSE <<>>]

node_recomp(hid, idx) ==
    LET rc == IF HasKey(NODE_RECOMP, <<hid, idx>>) THEN Get(NODE_RECOMP, <<hid, idx>>)
                                                   ELSE Get(RECOMP, hid)
    IN  [appear |-> rc.appear, green |-> rc.green,
         hits   |-> IF "cache_hits" \in DOMAIN rc THEN rc.cache_hits ELSE <<>>]

(* Ids (nid and the f-strings that use it) *)
OldId(n) == <<"old">> \o n
\* Fault: the new-node id written with the old- prefix.
NewId_OldPrefix(n) == <<"old">> \o n
NewId(n) == <<"new">> \o n
IeId(e) == <<"ie">> \o e
XeId(e) == <<"xe">> \o e
BxId(hid) == <<"bx", hid>>
DescId(i) == <<"desc", i>>
DbId(hid, idx) == <<"db", hid, idx>>
DbFlash == <<"db", "flash">>

(* The iteration orders of the emitting loops *)
AffectedSeq(hid) == Ascending(H(hid).affected)
NodesOf(hids) ==
    FlattenSeq([k \in DOMAIN hids |->
        [j \in DOMAIN AffectedSeq(hids[k]) |-> <<hids[k], AffectedSeq(hids[k])[j]>>]])
OldNodes == NodesOf(Keys(INV))
NewNodes == NodesOf(Keys(RECOMP))
\* The hosts of INV that recompute.  gen_css skips a host unless
\* RECOMP.get(hid) is truthy (a present, non-empty entry); the rules and
\* gen_svg test membership, hid in RECOMP.
RecompTruthy(h) == HasKey(RECOMP, h) /\ DOMAIN Get(RECOMP, h) # {}
InRecomp(h) == HasKey(RECOMP, h)
CssBoxHosts == SelectSeq(Keys(INV), RecompTruthy)
BoxHosts == SelectSeq(Keys(INV), InRecomp)
\* Animated internal edges <<h, src, h, dst>> of those hosts.
EdgesOfHosts(hs) ==
    FlattenSeq([k \in DOMAIN hs |->
        LET es == SelectSeq(H(hs[k]).edges, LAMBDA e : is_edge_animated(hs[k], e[1], e[2]))
        IN  [j \in DOMAIN es |-> <<hs[k], es[j][1], hs[k], es[j][2]>>]])
CssAnimatedEdges == EdgesOfHosts(CssBoxHosts)
AnimatedEdges == EdgesOfHosts(BoxHosts)

-----------------------------------------------------------------------------
(* Keyframe blocks of gen_css *)
Block(name, frames) == [name |-> name, frames |-> frames]
Op(o, v) == [pct |-> o, op |-> v]
Paint(o, c) == [pct |-> o, paint |-> c]
Frame(o, c, v) == [pct |-> o, paint |-> c, op |-> v]

\* Fault: the closing 100% {opacity:0} keyframe left out.
OldFrames_NoEnd(n) ==
    LET inv  == node_inv_pct(n[1], n[2])
        gone == inv + FADE_LEN
    IN  << Frame(0, "green", 100), Frame(inv, "green", 100),
           Frame(inv + 1, "bleach", 85), Frame(gone, "bleach", 0) >>

\* Old nodes: bleach, then fade and drift down.
OldFrames(n) ==
    LET inv  == node_inv_pct(n[1], n[2])
        gone == inv + FADE_LEN
    IN  << Frame(0, "green", 100), Frame(inv, "green", 100),
           Frame(inv + 1, "bleach", 85), Frame(gone, "bleach", 0), Op(100, 0) >>

\* Fault: the GREEN keyframe written one percent late (grn + 1).
NewEntries_LateGreen(n) ==
    LET r    == node_recomp(n[1], n[2])
        hits == FlattenSeq([k \in DOMAIN r.hits |->
                    << Frame(r.hits[k], "hit", 100), Frame(r.hits[k] + 2, "hit", 100),
                       Frame(r.hits[k] + 4, "green", 100) >>])
    IN  << Frame(0, "blue", 0), Frame(r.appear - 1, "blue", 0),
           Frame(r.appear + 1, "blue", 100), Frame(r.green, "blue", 100),
           Frame(r.green + 1, "green", 100) >> \o hits \o << Frame(100, "green", 100) >>

\* New nodes: appear computing (blue), turn green, optional cache-hit flashes.
NewEntries(n) ==
    LET r    == node_recomp(n[1], n[2])
        hits == FlattenSeq([k \in DOMAIN r.hits |->
                    << Frame(r.hits[k], "hit", 100), Frame(r.hits[k] + 2, "hit", 100),
                       Frame(r.hits[k] + 4, "green", 100) >>])
    IN  << Frame(0, "blue", 0), Frame(r.appear - 1, "blue", 0),
           Frame(r.appear + 1, "blue", 100), Frame(r.green - 1, "blue", 100),
           Frame(r.green, "green", 100) >> \o hits \o << Frame(100, "green", 100) >>
NewFrames(n) == DedupByPct(NewEntries(n))

\* Fault: a misspelt colour class in the flash keyframes.
DbFlashFrames_Typo ==
    << Paint(0, "db"), Paint(7, "db"), Paint(8, "db-flash"), Paint(10, "db-flash"),
       Paint(12, "db"), Paint(100, "db") >>

DbFlashFrames ==
    << Paint(0, "db"), Paint(7, "db"), Paint(8, "dbflash"), Paint(10, "dbflash"),
       Paint(12, "db"), Paint(100, "db") >>

\* Internal edges use the timing of their source node.
IeFrames(e) ==
    LET inv   == node_inv_pct(e[1], e[2])
        recon == node_recomp(e[1], e[2]).appear
    IN  << Op(0, 100), Op(inv, 100), Op(inv + 1, 0), Op(recon - 1, 0),
           Op(recon, 100), Op(100, 100) >>

\* Fault: the reconnect written one percent early.
XeFrames_EarlyReconnect(disc, recon) ==
    << Op(0, 50), Op(disc, 50), Op(disc + 1, 0), Op(recon - 2, 0),
       Op(recon - 1, 50), Op(100, 50) >>

\* Fault: the closing keyframe at full opacity.
XeFrames_OpaqueEnd(disc, recon) ==
    << Op(0, 50), Op(disc, 50), Op(disc + 1, 0), Op(recon - 1, 0),
       Op(recon, 50), Op(100, 100) >>

XeFrames(disc, recon) ==
    << Op(0, 50), Op(disc, 50), Op(disc + 1, 0), Op(recon - 1, 0),
       Op(recon, 50), Op(100, 50) >>

\* Box stroke: earliest invalidation to latest green of the host's affected nodes.
\* Fault: latest_grn taken from the host's RECOMP entry, not per node.
BxFrames_HostGreen(hid) ==
    LET A  == H(hid).affected
        ei == Min({node_inv_pct(hid, i) : i \in A})
        fa == Min({node_recomp(hid, i).appear : i \in A})
        lg == Get(RECOMP, hid).green
    IN  << Paint(0, "idle"), Paint(ei - 1, "idle"), Paint(ei, "bleach"),
           Paint(fa - 1, "bleach"), Paint(fa, "blue"), Paint(lg - 1, "blue"),
           Paint(lg, "idle"), Paint(100, "idle") >>

BxFrames(hid) ==
    LET A  == H(hid).affected
        ei == Min({node_inv_pct(hid, i) : i \in A})
        fa == Min({node_recomp(hid, i).appear : i \in A})
        lg == Max({node_recomp(hid, i).green : i \in A})
    IN  << Paint(0, "idle"), Paint(ei - 1, "idle"), Paint(ei, "bleach"),
           Paint(fa - 1, "bleach"), Paint(fa, "blue"), Paint(lg - 1, "blue"),
           Paint(lg, "idle"), Paint(100, "idle") >>

\* Fault: the max(0, ...) and min(100, ...) clamps left out.
DescFrames_NoClamp(d) ==
    << Op(0, 0), Op(d.start - 1, 0), Op(d.start, 100), Op(d.end, 100),
       Op(d.end + 1, 0), Op(100, 0) >>

\* Fault: captions fading out over FADE_LEN, as the old nodes do.
DescFrames_SlowFade(d) ==
    << Op(0, 0), Op(Max({0, d.start - 1}), 0), Op(d.start, 100), Op(d.end, 100),
       Op(Min({100, d.end + FADE_LEN}), 0), Op(100, 0) >>

DescFrames(d) ==
    << Op(0, 0), Op(Max({0, d.start - 1}), 0), Op(d.start, 100), Op(d.end, 100),
       Op(Min({100, d.end + 1}), 0), Op(100, 0) >>

Rule(id) == [sel |-> id, kf |-> id]

(* SVG elements of gen_svg *)
El(tag, id) == [tag |-> tag, id |-> id, edge |-> <<>>, seg |-> <<>>]
Line(id, e) == [tag |-> "line", id |-> id, edge |-> e, seg |-> edge_pts(e)]
Map(s, F(_)) == [k \in DOMAIN s |-> F(s[k])]

-----------------------------------------------------------------------------
(* gen_svg, gen_css and __main__, one action per section *)
Step(from, to) == pc = from /\ pc' = to

\* svg root and defs: the two gradients and the arrow-head marker carry ids.
OpenDefs ==
    /\ Step("defs", "css_old")
    /\ svg' = << El("linearGradient", <<"bg">>), El("linearGradient", <<"sbg">>),
                 El("marker", <<"ah">>) >>
    /\ UNCHANGED <<css, rules, file, report>>

CssOldKeyframes ==
    /\ Step("css_old", "css_new")
    /\ css' = css \o Map(OldNodes, LAMBDA n : Block(OldId(n), OldFrames(n)))
    /\ UNCHANGED <<rules, svg, file, report>>

CssNewKeyframes ==
    /\ Step("css_new", "css_db")
    /\ css' = css \o Map(NewNodes, LAMBDA n : Block(NewId(n), NewFrames(n)))
    /\ UNCHANGED <<rules, svg, file, report>>

CssDbFlash ==
    /\ Step("css_db", "css_ie")
    /\ css' = Append(css, Block(DbFlash, DbFlashFrames))
    /\ UNCHANGED <<rules, svg, file, report>>

CssInternalEdgeKeyframes ==
    /\ Step("css_ie", "css_xe")
    /\ css' = css \o Map(CssAnimatedEdges, LAMBDA e : Block(IeId(e), IeFrames(e)))
    /\ UNCHANGED <<rules, svg, file, report>>

CssCrossEdgeKeyframes ==
    /\ Step("css_xe", "css_bx")
    /\ css' = css \o Map(CROSS_DISC_RECON,
                         LAMBDA kv : Block(XeId(kv[1]), XeFrames(kv[2][1], kv[2][2])))
    /\ UNCHANGED <<rules, svg, file, report>>

CssBoxKeyframes ==
    /\ Step("css_bx", "css_desc")
    /\ css' = css \o Map(CssBoxHosts, LAMBDA h : Block(BxId(h), BxFrames(h)))
    /\ UNCHANGED <<rules, svg, file, report>>

CssDescKeyframes ==
    /\ Step("css_desc", "css_apply")
    /\ css' = css \o [i \in DOMAIN DESCRIPTIONS |->
                          Block(DescId(i - 1), DescFrames(DESCRIPTIONS[i]))]
    /\ UNCHANGED <<rules, svg, file, report>>

\* "Apply animations": one rule per animated element, named after its id,
\* except the DB node of B2 which plays db-flash.
CssApplyAnimations ==
    /\ Step("css_apply", "decorations")
    /\ rules' = Map(OldNodes, LAMBDA n : Rule(OldId(n)))
                \o Map(NewNodes, LAMBDA n : Rule(NewId(n)))
                \o << [sel |-> DbId("B2", 3), kf |-> DbFlash] >>
                \o Map(AnimatedEdges, LAMBDA e : Rule(IeId(e)))
                \o Map(Keys(CROSS_DISC_RECON), LAMBDA e : Rule(XeId(e)))
                \o Map(BoxHosts, LAMBDA h : Rule(BxId(h)))
                \o [i \in DOMAIN DESCRIPTIONS |-> Rule(DescId(i - 1))]
    /\ UNCHANGED <<css, svg, file, report>>

\* Background, the three section panels, two division lines, three headers.
EmitDecorations ==
    /\ Step("decorations", "boxes")
    /\ svg' = svg \o << El("rect", NoId) >> \o [i \in 1 .. 3 |-> El("rect", NoId)]
                   \o [i \in 1 .. 2 |-> El("line", NoId)] \o [i \in 1 .. 3 |-> El("text", NoId)]
    /\ UNCHANGED <<css, rules, file, report>>

\* Window-style boxes: only the outer rect of a host in both INV and RECOMP has an id.
EmitBoxes ==
    /\ Step("boxes", "db_partitions")
    /\ svg' = svg \o FlattenSeq(Map(Keys(HOSTS), LAMBDA h :
                 << El("rect", IF HasKey(INV, h) /\ HasKey(RECOMP, h) THEN BxId(h) ELSE NoId),
                    El("rect", NoId), El("rect", NoId), El("line", NoId), El("text", NoId) >>))
    /\ UNCHANGED <<css, rules, file, report>>

\* The dashed DB partition line of each backend (a literal list of hosts),
\* at DB_PART_FRAC of the box width, with its "DBs" label.
DbPartitionHosts == <<"B1", "B2", "B3">>
\* Fault: the fraction taken of the box height instead of its width.
db_part_x_OfHeight(hid) == LET b == H(hid).box IN PyRound(100 * b[1] + DB_PART_FRAC * b[4], 100)
db_part_x(hid) == LET b == H(hid).box IN PyRound(100 * b[1] + DB_PART_FRAC * b[3], 100)
DbPartition(hid) ==
    LET b == H(hid).box
    IN  [tag |-> "line", id |-> NoId, edge |-> <<>>,
         seg |-> <<db_part_x(hid), b[2] + HDR_H + 4, db_part_x(hid), b[2] + b[4] - 8>>]

EmitDbPartitions ==
    /\ Step("db_partitions", "static_edges")
    /\ svg' = svg \o FlattenSeq(Map(DbPartitionHosts, LAMBDA h : <<DbPartition(h), El("text", NoId)>>))
    /\ UNCHANGED <<css, rules, file, report>>

\* Internal edges of every host, <<h, src, h, dst>> in declaration order.
InternalEdges ==
    FlattenSeq(Map(Keys(HOSTS), LAMBDA h :
        Map(H(h).edges, LAMBDA e : <<h, e[1], h, e[2]>>)))

EmitStaticEdges ==
    /\ Step("static_edges", "animated_edges")
    /\ svg' = svg \o Map(SelectSeq(InternalEdges, LAMBDA e : ~is_edge_animated(e[1], e[2], e[4])),
                         LAMBDA e : Line(NoId, e))
    /\ UNCHANGED <<css, rules, file, report>>

EmitAnimatedEdges ==
    /\ Step("animated_edges", "safe_cross")
    /\ svg' = svg \o Map(AnimatedEdges, LAMBDA e : Line(IeId(e), e))
    /\ UNCHANGED <<css, rules, file, report>>

EmitSafeCrossEdges ==
    /\ Step("safe_cross", "volatile_cross")
    /\ svg' = svg \o Map(CROSS_SAFE, LAMBDA e : Line(NoId, e))
    /\ UNCHANGED <<css, rules, file, report>>

EmitVolatileCrossEdges ==
    /\ Step("volatile_cross", "static_nodes")
    /\ svg' = svg \o Map(CROSS_AFFECTED, LAMBDA e : Line(XeId(e), e))
    /\ UNCHANGED <<css, rules, file, report>>

\* Every node <<h, idx>> of every host, in emission order.
AllNodes ==
    FlattenSeq(Map(Keys(HOSTS), LAMBDA h :
        [j \in 1 .. Len(H(h).nodes) |-> <<h, j - 1>>]))

EmitStaticNodes ==
    /\ Step("static_nodes", "db_nodes")
    /\ svg' = svg \o Map(SelectSeq(AllNodes, LAMBDA n : ~is_affected(n[1], n[2]) /\ ~is_db(n[1], n[2])),
                         LAMBDA n : El("circle", NoId))
    /\ UNCHANGED <<css, rules, file, report>>

\* Fault: the hid == "B2" test left out, every DB node gets an id.
EmitDbNodes_AllIds ==
    /\ Step("db_nodes", "old_groups")
    /\ svg' = svg \o Map(SelectSeq(AllNodes, LAMBDA n : is_db(n[1], n[2])),
                         LAMBDA n : El("circle", DbId(n[1], n[2])))
    /\ UNCHANGED <<css, rules, file, report>>

\* DB nodes: static, except those of B2 which get the id the db-flash rule targets.
EmitDbNodes ==
    /\ Step("db_nodes", "old_groups")
    /\ svg' = svg \o Map(SelectSeq(AllNodes, LAMBDA n : is_db(n[1], n[2])),
                         LAMBDA n : El("circle", IF n[1] = "B2" THEN DbId(n[1], n[2]) ELSE NoId))
    /\ UNCHANGED <<css, rules, file, report>>

\* <g id="old-h-i"><circle/></g>
EmitOldGroups ==
    /\ Step("old_groups", "new_groups")
    /\ svg' = svg \o FlattenSeq(Map(OldNodes, LAMBDA n : << El("g", OldId(n)), El("circle", NoId) >>))
    /\ UNCHANGED <<css, rules, file, report>>

EmitNewGroups ==
    /\ Step("new_groups", "descriptions")
    /\ svg' = svg \o FlattenSeq(Map(NewNodes, LAMBDA n : << El("g", NewId(n)), El("circle", NoId) >>))
    /\ UNCHANGED <<css, rules, file, report>>

EmitDescriptions ==
    /\ Step("descriptions", "legend")
    /\ svg' = svg \o [i \in DOMAIN DESCRIPTIONS |-> El("text", DescId(i - 1))]
    /\ UNCHANGED <<css, rules, file, report>>

\* The legend: a group with five sample circles and a dashed line, each
\* followed by its label.
EmitLegend ==
    /\ Step("legend", "write")
    /\ LET Entry(tag) == << El(tag, NoId), El("text", NoId) >>
       IN  svg' = svg \o << El("g", NoId) >>
                      \o FlattenSeq(Map(<<"circle", "circle", "circle", "circle", "line", "circle">>, Entry))
    /\ UNCHANGED <<css, rules, file, report>>

\* with open(out, "w"): an open that raises (a missing directory, no
\* permission) leaves the previous asset as it was; once open, the file is
\* truncated, and the write either completes or raises, leaving it truncated.
\* Either exception ends the program.
WriteFile ==
    /\ pc = "write"
    /\ \/ pc' = "verify" /\ file' = "complete"
       \/ pc' = "failed" /\ file' = "previous"
       \/ pc' = "failed" /\ file' = "truncated"
    /\ UNCHANGED <<css, rules, svg, report>>

Ids == SelectSeq(Map(svg, LAMBDA el : el.id), LAMBDA id : id # NoId)
Occurrences(s, x) == Cardinality({k \in DOMAIN s : s[k] = x})
GroupsWith(prefix) == Cardinality({k \in DOMAIN svg : svg[k].tag = "g" /\ svg[k].id # NoId /\ svg[k].id[1] = prefix})

\* Re-parse the file and print the counts; a mismatch is only printed.
Verify ==
    /\ Step("verify", "done")
    /\ report' = [circles    |-> Cardinality({k \in DOMAIN svg : svg[k].tag = "circle"}),
                  ids        |-> Len(Ids),
                  dupes      |-> {id \in Range(Ids) : Occurrences(Ids, id) > 1},
                  keyframes  |-> Len(css),
                  old_groups |-> GroupsWith("old"),
                  new_groups |-> GroupsWith("new")]
    /\ UNCHANGED <<css, rules, svg, file>>

-----------------------------------------------------------------------------
GenInit ==
    /\ pc = "defs"
    /\ css = <<>>
    /\ rules = <<>>
    /\ svg = <<>>
    /\ file = "previous"
    /\ report = [circles |-> 0, ids |-> 0, dupes |-> {}, keyframes |-> 0,
                 old_groups |-> 0, new_groups |-> 0]

GenNext ==
    \/ OpenDefs \/ CssOldKeyframes \/ CssNewKeyframes \/ CssDbFlash
    \/ CssInternalEdgeKeyframes \/ CssCrossEdgeKeyframes \/ CssBoxKeyframes
    \/ CssDescKeyframes \/ CssApplyAnimations
    \/ EmitDecorations \/ EmitBoxes \/ EmitDbPartitions \/ EmitStaticEdges \/ EmitAnimatedEdges \/ EmitSafeCrossEdges
    \/ EmitVolatileCrossEdges \/ EmitStaticNodes \/ EmitDbNodes \/ EmitOldGroups
    \/ EmitNewGroups \/ EmitDescriptions \/ EmitLegend \/ WriteFile \/ Verify

=============================================================================
