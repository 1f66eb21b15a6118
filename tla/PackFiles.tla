------------------------------- MODULE PackFiles -------------------------------
(***************************************************************************)
(* The files of the pack store and what a power failure leaves of them:       *)
(* pack builds (PackBuilder and SealedPack in content_store.rs), the adoption  *)
(* of an interrupted replacement and the removal of packs (repack and finish    *)
(* in pack_maintenance.rs), and the cleanup of abandoned builds                *)
(* (content_store/build_recovery.rs).                                         *)
(*                                                                          *)
(* A build is named by its nonce, which also names the file it writes (the      *)
(* inode).  Its directory holds the candidate name of that file; the final name *)
(* of a pack is a second link to the file of one of its builds.  What a process *)
(* sees is in memory first: for each name the model keeps what it is now and    *)
(* what it may turn out to be if the power fails, until the directory is synced. *)
(***************************************************************************)
EXTENDS FiniteSets

CONSTANTS
    PackIds,  \* pack identities
    Builds,   \* build nonces, each used once
    None      \* no file

ASSUME NoneAssumption == None \notin Builds

VARIABLES
    name,       \* the file under <pack>.pack
    nameMay,    \* those a power failure may leave there
    dir,        \* whether the directory of a build exists
    dirMay,     \* what a power failure may leave of that
    content,    \* what a file holds: a part of a pack or all of it
    stored,     \* what is certain to be on the disk of it
    build,      \* the writer of each build
    cleaner,    \* the cleanup that holds the lease exclusively
    finisher,   \* the removal that holds the lock of the pack root
    recorded,   \* content_pack.status, as far as it concerns files
    accounted,  \* packs with a removal receipt
    cleaned     \* builds whose cleanup was reported as done

filesVars == <<name, nameMay, dir, dirMay, content, stored, build, cleaner, finisher,
               recorded, accounted, cleaned>>

rootVars == <<name, nameMay>>
buildRootVars == <<dir, dirMay>>
fileVars == <<content, stored>>
recordVars == <<recorded, accounted>>

Files == Builds \cup {None}

Unused == [pc |-> "unused"]
Ended == [pc |-> "ended"]
AtRest == [pc |-> "idle"]

Writers ==
    {Unused, Ended} \cup
    [pc : {"writing", "sealed", "linked", "adopting", "synced", "published"}, pack : PackIds]

Cleaners == {AtRest} \cup [pc : {"remove", "sync"}, nonce : Builds]

\* retry: an earlier attempt had the permission to remove the file already.
Finishers == {AtRest} \cup [pc : {"unlink", "sync", "receipt"}, pack : PackIds, retry : BOOLEAN]

Active(b) == build[b] \notin {Unused, Ended}

Working(b, pc) == Active(b) /\ build[b].pc = pc

Become(b, pc) == build' = [build EXCEPT ![b].pc = pc]

FilesInit ==
    /\ name = [p \in PackIds |-> None]
    /\ nameMay = [p \in PackIds |-> {None}]
    /\ dir = [b \in Builds |-> FALSE]
    /\ dirMay = [b \in Builds |-> {FALSE}]
    /\ content = [b \in Builds |-> "part"]
    /\ stored = [b \in Builds |-> "part"]
    /\ build = [b \in Builds |-> Unused]
    /\ cleaner = AtRest
    /\ finisher = AtRest
    /\ recorded = [p \in PackIds |-> "absent"]
    /\ accounted = {}
    /\ cleaned = {}

------------------------------------------------------------------------------
(* The file system.                                                         *)

\* link and unlink of the final name of a pack.
SetName(p, f) ==
    /\ name' = [name EXCEPT ![p] = f]
    /\ nameMay' = [nameMay EXCEPT ![p] = @ \cup {f}]

\* mkdir and removal of the directory of a build.
SetDir(b, exists) ==
    /\ dir' = [dir EXCEPT ![b] = exists]
    /\ dirMay' = [dirMay EXCEPT ![b] = @ \cup {exists}]

\* fsync of the pack root.
SyncNames == nameMay' = [p \in PackIds |-> {name[p]}] /\ UNCHANGED name

\* fsync of the .building directory.
SyncDirs == dirMay' = [b \in Builds |-> {dir[b]}] /\ UNCHANGED dir

\* The power fails: every process ends, every name is one of those it may be, and
\* what of a file was not synced is there or is not.
LosePower ==
    /\ name' \in [PackIds -> Files]
    /\ \A p \in PackIds : name'[p] \in nameMay[p]
    /\ nameMay' = [p \in PackIds |-> {name'[p]}]
    /\ dir' \in [Builds -> BOOLEAN]
    /\ \A b \in Builds : dir'[b] \in dirMay[b]
    /\ dirMay' = [b \in Builds |-> {dir'[b]}]
    /\ content' \in [Builds -> {"part", "whole"}]
    /\ \A b \in Builds : content'[b] \in {stored[b], content[b]}
    /\ stored' = content'
    /\ build' = [b \in Builds |-> IF Active(b) THEN Ended ELSE build[b]]
    /\ cleaner' = AtRest /\ finisher' = AtRest
    /\ UNCHANGED <<recordVars, cleaned>>

------------------------------------------------------------------------------
(* Builds.                                                                  *)

\* PackBuilder::new takes the lease shared, unless a cleanup holds it.  A pack has
\* one build at a time: ingests draw new identities, a repack checks that its own
\* is not registered and holds the lock of the root.
StartBuild(b, p) ==
    /\ build[b] = Unused
    /\ cleaner = AtRest
    /\ recorded[p] = "absent"
    /\ \A c \in Builds : Active(c) => build[c].pack # p
    /\ build' = [build EXCEPT ![b] = [pc |-> "writing", pack |-> p]]
    /\ SetDir(b, TRUE)
    /\ UNCHANGED <<rootVars, fileVars, cleaner, finisher, recordVars, cleaned>>

\* Mutant: the candidate is flushed and not synced.
SealUnsynced(b) ==
    /\ Working(b, "writing")
    /\ content' = [content EXCEPT ![b] = "whole"]
    /\ Become(b, "sealed")
    /\ UNCHANGED <<stored, rootVars, buildRootVars, cleaner, finisher, recordVars, cleaned>>

\* The entries are added, then PackBuilder::seal syncs the candidate.
Seal(b) ==
    /\ Working(b, "writing")
    /\ content' = [content EXCEPT ![b] = "whole"]
    /\ stored' = [stored EXCEPT ![b] = "whole"]
    /\ Become(b, "sealed")
    /\ UNCHANGED <<rootVars, buildRootVars, cleaner, finisher, recordVars, cleaned>>

\* SealedPack::publish: the hard link fails where the name exists.
LinkFinal(b) ==
    /\ Working(b, "sealed")
    /\ name[build[b].pack] = None
    /\ SetName(build[b].pack, b)
    /\ Become(b, "linked")
    /\ UNCHANGED <<buildRootVars, fileVars, cleaner, finisher, recordVars, cleaned>>

\* Mutant: a file that is there already is taken as durable.
AdoptUnsynced(b) ==
    /\ Working(b, "sealed")
    /\ LET f == name[build[b].pack] IN f # None /\ content[f] = "whole"
    /\ Become(b, "synced")
    /\ UNCHANGED <<rootVars, buildRootVars, fileVars, cleaner, finisher, recordVars, cleaned>>

\* repack: the file of an interrupted attempt is verified and used.
Adopt(b) ==
    /\ Working(b, "sealed")
    /\ LET f == name[build[b].pack] IN f # None /\ content[f] = "whole"
    /\ Become(b, "adopting")
    /\ UNCHANGED <<rootVars, buildRootVars, fileVars, cleaner, finisher, recordVars, cleaned>>

SyncRoot(b) ==
    /\ Working(b, "linked") \/ Working(b, "adopting")
    /\ SyncNames
    /\ Become(b, "synced")
    /\ UNCHANGED <<buildRootVars, fileVars, cleaner, finisher, recordVars, cleaned>>

\* The candidate name goes, and the directory with it; it is not synced.
RemoveCandidate(b) ==
    /\ Working(b, "synced")
    /\ SetDir(b, FALSE)
    /\ Become(b, "published")
    /\ UNCHANGED <<rootVars, fileVars, cleaner, finisher, recordVars, cleaned>>

\* The published file is read again, then the transaction that registers the pack
\* commits.
Record(b) ==
    /\ Working(b, "published")
    /\ LET p == build[b].pack
       IN  /\ name[p] # None /\ content[name[p]] = "whole"
           /\ recorded[p] = "absent"
           /\ recorded' = [recorded EXCEPT ![p] = "published"]
    /\ build' = [build EXCEPT ![b] = Ended]
    /\ UNCHANGED <<rootVars, buildRootVars, fileVars, cleaner, finisher, accounted, cleaned>>

\* An error on the way: Drop removes the directory.
FailBuild(b) ==
    /\ Active(b)
    /\ build' = [build EXCEPT ![b] = Ended]
    /\ IF dir[b] THEN SetDir(b, FALSE) ELSE UNCHANGED buildRootVars
    /\ UNCHANGED <<rootVars, fileVars, cleaner, finisher, recordVars, cleaned>>

\* The process is killed, or Drop fails: the directory stays, the lease is released.
KillBuild(b) ==
    /\ Active(b)
    /\ build' = [build EXCEPT ![b] = Ended]
    /\ UNCHANGED <<rootVars, buildRootVars, fileVars, cleaner, finisher, recordVars, cleaned>>

------------------------------------------------------------------------------
(* Cleanup of one build, by its nonce.                                      *)

\* Mutant: the lease is taken shared.
StartCleanupShared(b) ==
    /\ cleaner = AtRest
    /\ build[b] # Unused
    /\ cleaner' = [pc |-> IF dir[b] THEN "remove" ELSE "sync", nonce |-> b]
    /\ UNCHANGED <<rootVars, buildRootVars, fileVars, build, finisher, recordVars, cleaned>>

\* The lease is exclusive: no writer is at work.
StartCleanup(b) ==
    /\ cleaner = AtRest
    /\ build[b] # Unused
    /\ \A c \in Builds : ~Active(c)
    /\ cleaner' = [pc |-> IF dir[b] THEN "remove" ELSE "sync", nonce |-> b]
    /\ UNCHANGED <<rootVars, buildRootVars, fileVars, build, finisher, recordVars, cleaned>>

RemoveBuild ==
    /\ cleaner.pc = "remove"
    /\ SetDir(cleaner.nonce, FALSE)
    /\ cleaner' = [cleaner EXCEPT !.pc = "sync"]
    /\ UNCHANGED <<rootVars, fileVars, build, finisher, recordVars, cleaned>>

\* Mutant: a cleanup reports what it removed without a sync.
SyncBuildsNever ==
    /\ cleaner.pc = "sync"
    /\ cleaned' = cleaned \cup {cleaner.nonce}
    /\ cleaner' = AtRest
    /\ UNCHANGED <<rootVars, buildRootVars, fileVars, build, finisher, recordVars>>

\* The removal is made durable and reported, also where an earlier attempt did it.
SyncBuilds ==
    /\ cleaner.pc = "sync"
    /\ SyncDirs
    /\ cleaned' = cleaned \cup {cleaner.nonce}
    /\ cleaner' = AtRest
    /\ UNCHANGED <<rootVars, fileVars, build, finisher, recordVars>>

StopCleanup ==
    /\ cleaner # AtRest
    /\ cleaner' = AtRest
    /\ UNCHANGED <<rootVars, buildRootVars, fileVars, build, finisher, recordVars, cleaned>>

------------------------------------------------------------------------------
(* Removal of a pack, by finish.                                            *)

\* Mutant: the file is removed before the permission commits.
PermitUncommitted(p) ==
    /\ finisher = AtRest
    /\ recorded[p] \in {"published", "reclaimed"} /\ p \notin accounted
    /\ finisher' = [pc |-> "unlink", pack |-> p, retry |-> recorded[p] = "reclaimed"]
    /\ UNCHANGED <<rootVars, buildRootVars, fileVars, build, cleaner, recordVars, cleaned>>

\* The permission commits, or an earlier attempt committed it.
PermitRemoval(p) ==
    /\ finisher = AtRest
    /\ recorded[p] \in {"published", "reclaimed"} /\ p \notin accounted
    /\ recorded' = [recorded EXCEPT ![p] = "reclaimed"]
    /\ finisher' = [pc |-> "unlink", pack |-> p, retry |-> recorded[p] = "reclaimed"]
    /\ UNCHANGED <<rootVars, buildRootVars, fileVars, build, cleaner, accounted, cleaned>>

RemoveName ==
    /\ finisher.pc = "unlink"
    /\ LET p == finisher.pack
       IN  \/ name[p] # None /\ content[name[p]] = "whole" /\ SetName(p, None)
           \/ name[p] = None /\ finisher.retry /\ UNCHANGED rootVars
    /\ finisher' = [finisher EXCEPT !.pc = "sync"]
    /\ UNCHANGED <<buildRootVars, fileVars, build, cleaner, recordVars, cleaned>>

SyncRemoval ==
    /\ finisher.pc = "sync"
    /\ SyncNames
    /\ finisher' = [finisher EXCEPT !.pc = "receipt"]
    /\ UNCHANGED <<buildRootVars, fileVars, build, cleaner, recordVars, cleaned>>

AccountRemoval ==
    /\ finisher.pc = "receipt"
    /\ accounted' = accounted \cup {finisher.pack}
    /\ finisher' = AtRest
    /\ UNCHANGED <<rootVars, buildRootVars, fileVars, build, cleaner, recorded, cleaned>>

StopRemoval ==
    /\ finisher # AtRest
    /\ finisher' = AtRest
    /\ UNCHANGED <<rootVars, buildRootVars, fileVars, build, cleaner, recordVars, cleaned>>

------------------------------------------------------------------------------
BuildStep(b) ==
    \/ \E p \in PackIds : StartBuild(b, p)
    \/ Seal(b) \/ LinkFinal(b) \/ Adopt(b) \/ SyncRoot(b) \/ RemoveCandidate(b)
    \/ Record(b) \/ FailBuild(b) \/ KillBuild(b)

CleanupStep ==
    (\E b \in Builds : StartCleanup(b)) \/ RemoveBuild \/ SyncBuilds \/ StopCleanup

RemovalStep ==
    \/ \E p \in PackIds : PermitRemoval(p)
    \/ RemoveName \/ SyncRemoval \/ AccountRemoval \/ StopRemoval

FilesNext == (\E b \in Builds : BuildStep(b)) \/ CleanupStep \/ RemovalStep \/ LosePower

FilesSpec == FilesInit /\ [][FilesNext]_filesVars

------------------------------------------------------------------------------
(* Properties.                                                              *)

FilesTypeOK ==
    /\ name \in [PackIds -> Files] /\ nameMay \in [PackIds -> SUBSET Files]
    /\ dir \in [Builds -> BOOLEAN] /\ dirMay \in [Builds -> SUBSET BOOLEAN]
    /\ content \in [Builds -> {"part", "whole"}] /\ stored \in [Builds -> {"part", "whole"}]
    /\ build \in [Builds -> Writers]
    /\ cleaner \in Cleaners /\ finisher \in Finishers
    /\ recorded \in [PackIds -> {"absent", "published", "reclaimed"}]
    /\ accounted \subseteq PackIds /\ cleaned \subseteq Builds
    /\ finisher # AtRest => recorded[finisher.pack] = "reclaimed"

\* A pack the catalogue has registered and not released would survive a power
\* failure at this very moment, all of it and under its name, whichever build
\* wrote it and whichever adopted it ("a crash between those steps leaves a
\* complete retryable file", content_store.rs).
RecordedPacksLast ==
    \A p \in PackIds : recorded[p] = "published" =>
        \E b \in Builds : nameMay[p] = {b} /\ stored[b] = "whole"

\* What was reported as removed does not come back with the power: neither a pack
\* with a receipt (finish) nor a build whose cleanup returned, although an earlier
\* attempt may have removed it and failed before the sync (cleanup_incomplete_build).
RemovalsLast ==
    /\ \A p \in accounted : nameMay[p] = {None}
    /\ \A b \in cleaned : dirMay[b] = {FALSE}

\* No cleanup takes the directory of a build that is still at work, whichever
\* nonce it was called with (the lease).
BuildersKeepTheirFiles ==
    \A b \in Builds : Active(b) /\ build[b].pc # "published" => dir[b]

\* What the rest of the store sees of the directory.
FileOf == [p \in PackIds |-> IF name[p] = None THEN "none" ELSE content[name[p]]]

Directory == INSTANCE PackDirectory WITH
    Packs <- PackIds, file <- FileOf, status <- recorded, receipts <- accounted

\* Never a partly readable pack under its final name, and no recorded one lost,
\* whatever builds, adoptions, removals and power failures come together: the
\* atomic files that PackStore takes for granted.
ImplementsPackDirectory == Directory!DirectorySpec
==============================================================================
