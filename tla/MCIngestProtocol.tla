--------------------------- MODULE MCIngestProtocol ---------------------------
(* Finite instances of the ingest protocol for TLC.                         *)
EXTENDS IngestProtocol, TLC

CONSTANTS s1, s2, x1, x2, y1, rc, rc2, native, fixture, itemX, itemY,
          profile1, profile2, commit1, commit2, w1, w2

MCItemOf == (x1 :> itemX) @@ (x2 :> itemX) @@ (y1 :> itemY)

\* A release-candidate build, the same build after an upgrade, an ordinary ingest
\* with the adapter profile and commit of the first, and a fixture slice, whose
\* profile is its own.
MCProfileOf == (rc :> profile1) @@ (rc2 :> profile1) @@ (native :> profile1)
                  @@ (fixture :> profile2)
MCCommitOf == (rc :> commit1) @@ (rc2 :> commit2) @@ (native :> commit1)
                  @@ (fixture :> commit1)

\* An update of one item, and a deletion and a creation of another.
MCManifests == {{x1}, {x2, y1}}

\* One item: enough where several sources advance.
MCOneItem == {{x1}, {x2}}

Symmetric == Permutations({w1, w2})
==============================================================================
