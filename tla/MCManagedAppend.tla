--------------------------- MODULE MCManagedAppend ---------------------------
(* Finite instances of managed append sources for TLC.                      *)
EXTENDS ManagedAppend, TLC

CONSTANTS s1, a1, a2, b1, rc, native, later, seg1, seg2,
          profile1, profile2, commit1, commit2, w1, epoch1

\* Two segments of a root, and a manifest of the same epoch with another first one.
MCItemOf == (a1 :> seg1) @@ (a2 :> seg2) @@ (b1 :> seg1)
MCEpochOf == (a1 :> epoch1) @@ (a2 :> epoch1) @@ (b1 :> epoch1)

MCRoots == {{a1}, {a1, a2}, {b1}}

\* An ordinary ingest of one release, a candidate build of the next one, which keeps
\* the adapter profile, and an ordinary ingest of a release with another profile.
MCProfileOf == (rc :> profile1) @@ (native :> profile1) @@ (later :> profile2)
MCCommitOf == (rc :> commit2) @@ (native :> commit1) @@ (later :> commit2)
==============================================================================
