----------------------------- MODULE MCGpuProbe -----------------------------
(* Values for the constants of GpuProbe: recipes of two to six operators   *)
(* over two columns and three rows, for workers of a third of a GPU.       *)
EXTENDS GpuProbe

CONSTANTS img, score, e1, e2

MCDataset == <<1, 2, 3>>
Keep == [b \in BOOLEAN |-> {}]

Mapper(n, uses, makes) ==
    [name |-> n, kind |-> "mapper", gpu |-> FALSE, batch |-> 1, peak |-> 1, declared |-> TRUE,
     uses |-> uses, makes |-> makes, drops |-> Keep, indexed |-> FALSE, env |-> e1, hint |-> 0]
OnGpu(op, batch, peak, hint) ==
    [op EXCEPT !.gpu = TRUE, !.batch = batch, !.peak = peak, !.hint = hint]
Filter(n, uses, raw, done) ==
    [Mapper(n, uses, {}) EXCEPT !.kind = "filter", !.drops = [b \in BOOLEAN |-> IF b THEN done ELSE raw]]

resize  == Mapper("resize", {img}, {img})
tag     == Mapper("tag", {img}, {score})
strict  == Filter("strict", {img}, {1}, {2})
nothing == Filter("nothing", {score}, {1, 2, 3}, {1, 2, 3})
dedup   == [Filter("dedup", {img}, {1, 2}, {1, 2}) EXCEPT !.kind = "dedup"]
legacy  == [Mapper("legacy", {img}, {img}) EXCEPT !.declared = FALSE]
fused   == [OnGpu(Mapper("fused", {img}, {img}), 1, 100, 0) EXCEPT !.kind = "pipeline"]
caption == OnGpu(Mapper("caption", {img}, {score}), 2, 300, 0)
rate    == OnGpu(Mapper("rate", {img, score}, {score}), 3, 400, 60)
aside   == OnGpu(Mapper("aside", {}, {score}), 1, 500, 0)
blurry  == OnGpu(Filter("blurry", {img}, {3}, {3}), 2, 200, 250)
away    == [caption EXCEPT !.env = e2]
large   == OnGpu(Mapper("large", {}, {}), 1, 950, 0)
judge   == OnGpu(Mapper("judge", {score}, {}), 2, 400, 0)
small   == [caption EXCEPT !.batch = 1]

MCRecipes == {
    <<resize, caption, strict, rate>>, <<judge, resize, strict, small, rate, blurry>>,
    <<caption, tag, aside, rate>>, <<legacy, caption, strict, rate>>,
    <<resize, blurry, rate>>, <<dedup, caption, rate>>, <<resize, away, aside>>,
    <<resize, tag, judge>>, <<nothing, caption>>, <<tag, strict>>, <<large, aside>>, <<resize, fused>>}

MCNames == {op.name : op \in UNION {Range(r) : r \in MCRecipes}}
MCGpus  == {[name |-> "A", total |-> 1000], [name |-> "A", total |-> 990],
            [name |-> "A", total |-> 2000], [name |-> "B", total |-> 1000]}
=============================================================================
