# TLA+ model of `gen_distributed_scaling.py`

The repository's only program, `src/docs/img/gen_distributed_scaling.py`, writes
`distributed-scaling.svg`: an animated diagram of Fusion's distributed
invalidation and recomputation across clients, API servers and backends. The
program is sequential and deterministic. What is hard about it is not
concurrency but *meaning*: seven hand-maintained tables (hosts, cross-host
edges, invalidation starts, recomputation times, per-node overrides,
disconnect/reconnect times, caption phases) are turned into CSS keyframes, and
the browser interpolates those keyframes into a 48 s loop. Whether the loop
shows a causally sensible story (a dependency invalidates before its dependents,
a dependent turns consistent only after its dependencies, an edge is drawn only
while its caller exists, captions say what the picture shows) depends on how
these tables interact through the code's arithmetic, and on CSS cascade rules
for duplicate keyframe offsets. No unit test looks at this; a model checker can
play the animation and check every instant.

## 1. Inventory

| Component | Source lines | State | Operations |
|---|---|---|---|
| Layout model | 18-138 | constant tables `HOSTS`, `CROSS_AFFECTED`, `CROSS_SAFE` and the layout constants | none (read only) |
| Timing model | 144-179, 218-240 | constant tables `INV`, `RECOMP`, `CROSS_DISC_RECON`, `DESCRIPTIONS`, `NODE_RECOMP`, `INV_STAGGER`, `FADE_LEN` | `node_inv_pct` (staggered invalidation start: a stable descending sort by x), `node_recomp` (override lookup) |
| Geometry resolver | 185-203 | none | `abs_pos` (fractional to pixel, Python banker's rounding), `edge_pts` (trim a segment by the node radius, zero-length guard) |
| Animation-declaration emitter (`gen_css`) | 246-413 | the list `L` of CSS fragments | old-node, new-node (with dedup-by-offset and sort), DB flash, internal edge, cross edge, box stroke, caption keyframes; the animation rules binding ids to keyframes |
| Markup emitter (`gen_svg`) | 420-587 | the list `P` of SVG fragments | defs, boxes, static/animated/safe/volatile edges, static, DB, old and new nodes, captions, legend |
| Writer and verifier (`__main__`) | 590-622 | the output file | write the file (truncating open), re-parse it, count circles, ids, duplicates, keyframes, groups, print the report |
| Browser playback (not code of this repository) | - | the cycle position | CSS keyframe semantics: cascade of duplicate offsets, interpolation between offsets, invalid offsets ignored |

How they interact: `gen_svg` calls `gen_css` once and embeds its text; both
read the same tables but iterate *different* ones for the same elements
(`CROSS_AFFECTED` draws the volatile edges, `CROSS_DISC_RECON` animates them;
`INV`/`RECOMP` membership is tested with `RECOMP.get(hid)` truthiness in
`gen_css` (`RecompTruthy`, `CssBoxHosts`, `CssAnimatedEdges`) and with `hid in
RECOMP` in the rules and in `gen_svg` (`InRecomp`, `BoxHosts`,
`AnimatedEdges`). The two agree on the real tables, which have no empty
RECOMP entry). Element ids written into the SVG must
match the selectors of the CSS rules, and the rules must name keyframes that
exist. The verifier re-reads the written file but only prints what it finds.

Hard behaviour (there is no concurrency, no message passing and nothing
persisted except the output file):

* numeric edges: offsets `inv+1`, `app-1`, `grn-1`, `ht+4`, `end+1` clamped
  with `min(100, ...)`, Python's half-to-even `round`, the `d < 0.1` guard;
* CSS ordering: several keyframes at one offset (the later declaration wins),
  the new-node dedup-by-offset that must agree with that rule;
* cross-table consistency: causality of the invalidation and recomputation
  story, which no single table states;
* an I/O failure in the writer: an `open` that raises leaves the previous
  asset, a write that raises after `open(out, "w")` leaves it truncated.

What makes each component correct:

* emitter + markup: ids unique; every animation rule binds an existing element
  to an existing keyframes block and every animated element has a rule;
  keyframe count as the spec states; drawn edges point from source to target;
* timing + emitter, as played: invalidation reaches a dependency before its
  dependents; a recomputed node turns consistent only when its dependencies
  are consistent; an animated edge is visible only while its caller node is;
  a node is never drawn twice (old and new version); the loop has no jump at
  100% -> 0%; a caption is fully shown through its phase, and the captions
  that claim "all values consistent" are true while they are visible;
* algorithms: the stagger rank equals the spec's rank (rightmost first, ties
  by index); dedup-by-offset does not change what the browser plays.

## 2. Plan

Modules, in the order they are built (most important behaviour first):

1. `Keyframes` - CSS keyframe semantics (cascade, interpolation end points,
   validity of offsets) and the code's dedup-by-offset operator. Pure.
2. `Ranking` - the stable descending sort behind `node_inv_pct`. Pure.
3. `DistributedScaling` - the generator, parameterised by the seven tables
   (CONSTANTS): every helper as an operator, every section of `gen_css`,
   `gen_svg` and `__main__` as one action, in program order, with the write
   failure as a nondeterministic outcome.
4. `AnimatedDiagram` - composes the generator with browser playback: once the
   file is written and verified, a clock walks the cycle in half-percent steps
   and the properties read the *generated* CSS, not the tables.
5. `MCDistributedScaling` - the tables of the source, translated.
6. `KeyframeDedupCheck`, `RankingCheck` - bounded input enumerations checking
   the two algorithms against reference definitions.

7. `ComputeStory` - the abstract story the diagram tells, independent of the
   code: per affected value consistent, invalidated, computing, recomputed,
   driven by the DB change and the dependency edges. `AnimatedDiagram` maps
   the played picture onto it and checks `Story!Spec` as a property.

Captions: each caption's text is abstracted, in `MC_DESCRIPTIONS`, to what
it claims: `claim` (consistent, db_change, invalidation, recompute), the
`hosts` it names as changing, and the `cached` hosts it says are already
consistent. "Client 1 recomputes - full chain through API Server 1 to
Backend 2" is a recompute of C1 together with every affected value C1 reads,
directly or not (`ChainOf`, the closure of the dependency edges).

## 3. Modules

| Module | Models | State | Actions / operators |
|---|---|---|---|
| `Keyframes` | CSS keyframe playback (browser, not code of this repository) and the new-node dedup (lines 291-295) | none | `ValuesAt` (end points of the interpolation at a half-percent time), `Resolved` (last declaration at an offset wins), `ValidOffset`, `DedupByPct`, `Ascending` |
| `Ranking` | the sort in `node_inv_pct` (line 225) | none | `SortedRightmostFirst` (a stable insertion sort on descending x over the ascending set), `RankRightmostFirst` (`ranked.index(idx)`) |
| `DistributedScaling` | `gen_css`, `gen_svg`, `__main__` | `pc` (the section being run), `css` (keyframe blocks), `rules` (animation rules), `svg` (elements), `file` (previous / truncated / complete), `report` (the verifier's counts) | one action per section, in program order: `OpenDefs`, `CssOldKeyframes` ... `CssApplyAnimations`, `EmitDecorations`, `EmitBoxes`, `EmitDbPartitions` ... `EmitLegend`, `WriteFile`, `Verify` |
| `AnimatedDiagram` | the generator, then the played loop | the above plus `t`, the cycle position in half percents, and `compiled`, the picture per instant as the browser resolves it when the document loads (`Compile`, set by the step that ends the generator) | `Generate` (a `GenNext` step), then `Tick` (t + 1 up to 200) and `Wrap` (200 to 0) |
| `ComputeStory` | the life cycle the diagram promises (comments of lines 231 and 257, the captions) | `db` (unchanged / changed), `phase` per value | `Evolve` (the DB change and any set of values each taking one step: `Invalidate` after the change, `Request` once a caller computes, `Complete` with or after every callee), `Restart` once all are recomputed |
| `MCDistributedScaling` | the tables of lines 35-179 and 230-232 | - | constant definitions substituted for the CONSTANTS |
| `RankingCheck`, `KeyframeDedupCheck` | bounded checks of the two algorithms | the input (a host's x-positions and affected set; a keyframe entry list) | actions that move between inputs, so that every input is reached |

Correspondence to the code. Helper names are the code's (`abs_pos`,
`edge_pts`, `node_inv_pct`, `node_recomp`, `is_affected`, ...). A dict is a
sequence of `<<key, value>>` pairs in insertion order (`Keys`, `Get`); a set of
node indices iterates ascending. An id is the tuple of the tokens the code joins
with `-` (`f"old-{hid}-{idx}"` is `<<"old", hid, idx>>`); host ids have no `-`,
so this is injective exactly when the strings are. A keyframe keeps its offset,
its colour class (`paint`) and its opacity in hundredths (`op`); widths and
translations are dropped. `round()` is Python's half-to-even in exact integer
arithmetic: `abs_pos` of A2-2 is an exact tie (446.5 -> 446). `edge_pts`
computes `round(x + r*dx/d)` exactly, without floating point. The model's
output was compared with the script's: all 40 node positions, all 40 edge
segments, the 67 keyframe blocks and the 67 rules are equal, and the verifier
counts (70 ids, 61 circles, 67 keyframes) match what the script prints.

`WriteFile` has three outcomes. The write completes. The `open` raises
and the previous file is left as it was. Or the `open` has already
truncated the file when the write raises. Either exception ends the program
(`pc = "failed"`). That end state has no successor, so every cfg says
`CHECK_DEADLOCK FALSE`. After `Verify` the diagram plays forever.

Each property is stated as a mutant-checked invariant: every pass-run property
has an operator `<of>_<Fault>` placed just before the definition it replaces
(for example `XeFrames_EarlyReconnect`), a plausible fault of that code under
which TLC finds the property violated. They are listed in `PROJECT.json`.

## 4. Runs

| Run | cfg | Expect | What it shows |
|---|---|---|---|
| document | `MCDocument.cfg` | pass | ids unique; every rule targets an element and names a keyframes block, and every animated element has a rule (the code iterates `CROSS_DISC_RECON` in CSS but `CROSS_AFFECTED` in SVG, and hard-codes the B2 DB node); the keyframe count is the spec's; every drawn edge is shorter than and parallel to its centre line; every offset is in 0-100; every backend with DB nodes gets a partition line (gen_svg's literal B1/B2/B3 list), and the line at `DB_PART_FRAC` of the box width runs between its DB node circles and its other node circles, after `abs_pos`'s rounding |
| timeline | `MCTimeline.cfg` | pass | at every half percent: a recomputed node is green only while every node it reads is consistent; an animated edge is visible only while its caller is; a node's old and new versions are never both visible; 100% looks like 0%; the two "all consistent" captions are true while visible; a host's box stroke (folded with min/max over its nodes' times, overrides included) is idle only when every affected node is consistent, and blue whenever one computes |
| invalidation_order | `MCInvalidationOrder.cfg` | violation | see finding 1 |
| caption_phase | `MCCaptionPhase.cfg` | violation | see finding 2 |
| circle_count | `MCCircleCount.cfg` | violation | see finding 3 |
| stagger_rank | `RankingCheck.cfg` | pass | the sort-and-index rank equals the spec's rank (nodes strictly to the right, or at equal x with a lower index) for all 4-node hosts over 3 x-positions (ties included) and all affected sets |
| story | `MCStoryRefinement.cfg` | pass | the played loop implements `ComputeStory` (`StoryRefined`): no node bleaches before the DB flash is shown, none is shown computing before a node that reads it, none turns green before a node it reads, and the loop restarts only when every affected node is green |
| captions | `MCCaptions.cfg` | pass | every caption's phase shows what its text claims: the DB flash starts inside "A database change..." and a B2 value is invalidated by its end; invalidation reaches every affected value of A1, A2, C1, C2, C4 within 11-22%; each "Client n recomputes" caption begins with the client not yet recomputed and ends with it and its whole read chain recomputed |
| cached_caption | `MCCachedCaption.cfg` | violation | see finding 4 |
| keyframe_dedup | `KeyframeDedupCheck.cfg` | pass | deduplicating entries by offset (last wins) and sorting does not change the played paint or opacity at any time, for all lists of up to 3 entries over offsets -1, 0, 1, 100 |

## 5. Bounds

The generator has no inputs: its tables are the state the program is in, so
the document and timeline runs check the real diagram, all 227 states of it
(25 generator steps, the two failed writes, 201 cycle positions). Half-percent
steps are enough because every offset the code writes is a whole percent:
on an offset the value is the resolved keyframe, strictly between two offsets
it lies strictly between their values, and one half-percent point stands for
that whole open interval. `CycleSteps == 200` names this.

The algorithm checks enumerate inputs. Ranking: 4 nodes (the largest host
has 5, and the ties of interest need 2), x-positions from {10, 50, 90} so that
ties and all orders occur. Dedup: up to 3 entries, enough for two at one
offset plus a third elsewhere, offsets including an invalid one (app - 1 for a
node appearing at 0%), two colours and two opacities.

## 6. Fairness

None is assumed, and no liveness property is checked. The only candidate,
"once the DB change is shown, every affected value is eventually shown
recomputed", holds whatever the timing tables say. Every new node's keyframes
end with `100% GREEN` (line 290), so the loop ends with every node green
anyway. What the timing tables decide is the order in which that happens, and
`StoryRefined` checks that order as a safety property.

Refinement mapping. A node's phase at an instant is read from its two
versions: if the new version is shown, it is `recomputed` when its paint is
green (or a cache-hit flash), else `computing`; otherwise it is `consistent`
while the old version is untouched, else `invalidated`. `db` is `changed`
once the `dbflash` class of `#db-B2-3` has been shown in this cycle. The
values are the affected nodes, and the reads are the dependency edges between
them. The abstract spec does not order invalidations: finding 1 is about that.

The picture per instant is compiled once, when the generator finishes (the
browser resolves the keyframes when it loads the document). Tick and Wrap
only move `t`, and the mapping reads `compiled[t]`.

## 7. Not modelled

* Colours, stroke widths, drift translation, fonts, label texts and the
  coordinates of shapes without an id: no property reads them. These shapes
  are still emitted, by tag, in their order. The DB partition lines keep their
  geometry.
* Byte-level determinism (spec section 8): the model has no bytes, and its
  only nondeterminism is the write failure.
* The XML re-parse can only fail on a malformed file, which the emitter's
  fixed templates never produce; it is not an action outcome.
* `min()` over an empty affected set (line 340) is unreachable with the
  tables; it is listed as a hazard.

## 8. Findings

1. **Invalidation runs against a dependency** (`InvalidationFollowsDependencies`,
   line 147). A2 starts at 11%, and B2's staggered nodes invalidate at 8, 10
   and 12%: A2-3, which reads B2-1, bleaches at 11%, a percent before B2-1.
   C1-2 (14%) likewise bleaches before A1-0 (15%), which it reads. The comments
   say invalidation runs right to left.
2. **The last caption fades through its phase** (`CaptionsShownThroughPhase`,
   line 354). For (78, 100), `min(100, end+1)` is 100, so the block ends with
   `78%,100% {opacity:1}` followed by `100%,100% {opacity:0}`. The later
   declaration wins, and the caption fades out from 78% to 100%.
3. **Circle count** (`CircleCountMatchesNodes`, line 603). The spec says the
   count of circles equals the count of declared nodes (40). The code draws
   each affected node twice, plus five legend circles, and the verifier counts
   61. It only prints the number.

4. **"Backend 2 is already consistent" is not** (`CachedCaptionsTruthful`,
   line 177). The 62-72% caption says Client 4 recomputes via API Server 2
   while Backend 2 is already consistent. C4-1 reads A2-0, which reads A2-3,
   which reads B2-1 (`CROSS_AFFECTED`). `NODE_RECOMP` (line 231) holds B2-1
   back until A2 requests it: it appears at 66% and turns green at 70%. From
   62% the caption is visible while B2-1 is shown invalidated, and then
   computing. The code's own comment, "only when A2 requests it", is the
   story the caption contradicts.

## 9. What is left

* Byte-level output (section 7) stays out of reach.
* The partial write at line 593 has no property: the code has no recovery to
  check.
* The `ValueError` of `min()`/`max()` over an empty affected set (line 340)
  needs a host in both INV and RECOMP with no affected node. The tables have
  none. Modelling the raise would add a branch that no run of the program's
  real state can take, so the hazard is listed without a property.
