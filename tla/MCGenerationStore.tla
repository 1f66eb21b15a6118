-------------------------- MODULE MCGenerationStore --------------------------
(* Finite instances of the catalogue for TLC.                               *)
EXTENDS GenerationStore, TLC

CONSTANTS s1, s2, x1, x2, y1, b1, b2, itemX, itemY, profile1, commit1, commit2

MCItemOf == (x1 :> itemX) @@ (x2 :> itemX) @@ (y1 :> itemY)

\* Both builds run the same adapter profile at different commits.
MCProfileOf == (b1 :> profile1) @@ (b2 :> profile1)
MCCommitOf == (b1 :> commit1) @@ (b2 :> commit2)

\* An update of one item, and a deletion and a creation of another.
MCManifests == {{x1}, {x2, y1}}

\* One item: enough for two sources, one of which is a test source.
MCOneItem == {{x1}, {x2}}

\* The two states of the item differ in name only.
Symmetric == Permutations({x1, x2})

\* Bound: one of the sources is registered, and the test source s2, which differs
\* in what may be called of it only, has a single generation.
OneSource ==
    /\ Cardinality(registered) <= 1
    /\ nextSeq[s2] <= 2
==============================================================================
