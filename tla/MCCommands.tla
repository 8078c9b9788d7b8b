------------------------------ MODULE MCCommands ------------------------------
(* Two chunks, three blocks, two assets and two version files. *)
EXTENDS CommandsProgress, TLC

CONSTANTS c1, c2, b1, b2, b12, a1, a2, n1, n2, u1, u2, p1, k1, f1

MCHolds == (b1 :> {c1}) @@ (b2 :> {c2}) @@ (b12 :> {c1, c2})

\* old has one asset, new has both, and swap has the content of old elsewhere.
old == (a1 :> c1) @@ (a2 :> Absent)
new == (a1 :> c1) @@ (a2 :> c2)
swap == (a1 :> Absent) @@ (a2 :> c1)

MCVersion == {old, new, swap}

MCUpload ==
    {[kind |-> "upsync", name |-> n1, version |-> new, local |-> FALSE],
     [kind |-> "upsync", name |-> n2, version |-> old, local |-> TRUE],
     [kind |-> "put", name |-> n2, version |-> new, local |-> TRUE],
     [kind |-> "index", name |-> n1, version |-> old, local |-> TRUE],
     [kind |-> "init", name |-> n1, version |-> old, local |-> FALSE]}

PlainPrune ==
    [kind |-> "store", list |-> <<n1>>, local |-> FALSE, rewrite |-> FALSE,
     validate |-> FALSE, skip |-> FALSE, dryRun |-> FALSE]

MCPrune ==
    {PlainPrune,
     [PlainPrune EXCEPT !.list = <<n1, n2>>, !.local = TRUE, !.validate = TRUE],
     [PlainPrune EXCEPT !.kind = "index", !.list = <<n1, n2>>, !.local = TRUE,
                        !.rewrite = TRUE, !.validate = TRUE, !.skip = TRUE],
     [PlainPrune EXCEPT !.dryRun = TRUE, !.list = <<n2>>, !.local = TRUE, !.rewrite = TRUE],
     [PlainPrune EXCEPT !.kind = "blocks", !.list = <<>>],
     [PlainPrune EXCEPT !.kind = "blocks", !.list = <<>>, !.dryRun = TRUE]}

MCClone == {[list |-> <<n1, n2>>, local |-> TRUE], [list |-> <<n2>>, local |-> FALSE]}

MCSource == (n1 :> old) @@ (n2 :> new)

PlainSync ==
    [kind |-> "downsync", list |-> <<n1>>, archive |-> old, caching |-> TRUE,
     target |-> "scan", given |-> old, hidden |-> {}, local |-> FALSE, validate |-> FALSE]

MCSync ==
    {PlainSync,
     [PlainSync EXCEPT !.list = <<n1, n2>>, !.caching = FALSE, !.local = TRUE],
     [PlainSync EXCEPT !.kind = "get", !.list = <<n2>>],
     [PlainSync EXCEPT !.kind = "unpack", !.list = <<>>, !.archive = swap],
     [PlainSync EXCEPT !.target = "given", !.validate = TRUE],
     [PlainSync EXCEPT !.target = "none", !.validate = TRUE],
     [PlainSync EXCEPT !.hidden = {a2}, !.caching = FALSE, !.validate = TRUE]}

Scene(mixed, bounds, blocks, index, v1, v2, l1, dir) ==
    [mix |-> mixed, starts |-> bounds[1], faults |-> bounds[2],
     stored |-> blocks, indexed |-> index,
     versions |-> (n1 :> v1) @@ (n2 :> v2), localIndexes |-> (n1 :> l1) @@ (n2 :> NoFile),
     folder |-> dir, work |-> dir]

\* One version, beside a block that a crashed upload left.
One(mixed, bounds) == Scene(mixed, bounds, {b1, b2}, {b1}, old, NoFile, {b1}, old)

\* Two versions that share a chunk, stored in a block of its own as well.
Two(mixed, bounds) == Scene(mixed, bounds, {b1, b12}, {b1, b12}, new, old, {b12}, swap)

\* A store that init-remote-store or a first upload makes.
Fresh(mixed, bounds) == Scene(mixed, bounds, {}, {}, NoFile, NoFile, NoFile, new)

\* Bounds: commands started, faults.
MCScenario ==
    {Two({u1, u2}, <<2, 1>>), One({u1, p1}, <<2, 1>>), Two({u1, p1}, <<2, 1>>),
     One({u1, k1}, <<2, 1>>), One({u1, f1}, <<2, 1>>), Two({p1, f1}, <<2, 1>>),
     Two({p1, k1}, <<2, 1>>), One({f1}, <<3, 1>>), One({u1, p1, f1}, <<3, 0>>),
     Fresh({u1, u2}, <<2, 1>>), Fresh({k1}, <<1, 2>>)}

\* Two names of one version, of which one is uploaded again without its .lsi.
MCStale == {Scene({u1, p1}, <<2, 0>>, {b1}, {b1}, old, old, {b1}, old)}

===============================================================================
