------------------------------ MODULE PackStore ------------------------------
(***************************************************************************)
(* Packed content bodies: the pack catalogue of migrations 030, 055, 056 and *)
(* 136, the pack files beside it, the clients that read and add bodies, and  *)
(* the maintenance that rewrites, retires and removes packs                  *)
(* (api/src/services/pack_maintenance.rs, ops/storage-v2/native-gc.py).      *)
(*                                                                          *)
(* The catalogue is transactional, the files are not: a file appears before   *)
(* the transaction that registers it commits, and disappears after the one    *)
(* that permits it.  A client reads a file whose place it looked up earlier,   *)
(* under a reader epoch that is registered in a transaction of its own or in   *)
(* the client's only one; until that transaction ends, the epoch is invisible  *)
(* to others and the client holds a shared lock, the placement fence.         *)
(***************************************************************************)
EXTENDS Naturals, FiniteSets

CONSTANTS
    Packs,      \* pack identities
    Bodies,     \* content_body rows
    Clients,    \* database sessions of readers and builders
    Null,       \* no pack, no file, no retirement
    Unborn,     \* the place of a body that is not inserted yet
    Swept,      \* that of a body whose row garbage collection deleted
    MaxEpochs,  \* bound: reader epochs ever begun
    MaxSweeps   \* bound: garbage collections

ASSUME BoundsAssumption == MaxEpochs \in Nat /\ MaxSweeps \in Nat

ASSUME NamesAssumption ==
    /\ {Null, Unborn, Swept} \cap Packs = {}
    /\ \A B \in SUBSET Bodies : B # Null

Idle == [pc |-> "idle"]

\* committed: the registration is durable and the fence released.  pack is the
\* file the client looked up last, adding the pack it has published on disk.
Sessions == [pc : {"open"}, epoch : 1 .. MaxEpochs, committed : BOOLEAN,
             pack : Packs \cup {Null}, adding : Packs \cup {Null}]

\* before is switched_at: the epochs up to it had started by then.
Retirements == [replacement : Packs \cup {Null}, before : 0 .. MaxEpochs]

ASSUME RecordsAssumption == \A r \in Retirements : r # Null

Jobs == [pc : {"copying", "written"}, old : Packs, new : Packs]
          \cup [pc : {"switched"}, old : Packs, new : Packs, before : 0 .. MaxEpochs]
          \cup [pc : {"unlink", "receipt"}, old : Packs, retry : BOOLEAN]

VARIABLES
    status,      \* content_pack.status, "absent" before its registration commits
    entries,     \* content_pack_entry: the bodies each registered pack holds
    place,       \* content_body.pack_id
    retirement,  \* content_pack_retirement
    receipts,    \* packs with a removal receipt
    targets,     \* packs some accepted collection names
    nextEpoch,   \* content_reader_epoch, in the order of started_at
    openEpochs,  \* the durable ones that are not finished
    file,        \* the bodies in each pack file, Null where there is none
    client,      \* the work of each client session
    job,         \* the maintenance call that holds the lock of the pack root
    sweeps       \* collections so far

vars == <<status, entries, place, retirement, receipts, targets, nextEpoch,
          openEpochs, file, client, job, sweeps>>

catalogVars == <<status, entries, place, retirement, receipts, targets, sweeps>>

TypeOK ==
    /\ status \in [Packs -> {"absent", "published", "retired", "reclaimed"}]
    /\ entries \in [Packs -> SUBSET Bodies]
    /\ place \in [Bodies -> Packs \cup {Unborn, Swept}]
    /\ retirement \in [Packs -> Retirements \cup {Null}]
    /\ receipts \subseteq Packs
    /\ targets \subseteq Packs
    /\ nextEpoch \in 1 .. MaxEpochs + 1
    /\ openEpochs \subseteq 1 .. MaxEpochs
    /\ file \in [Packs -> (SUBSET Bodies) \cup {Null}]
    /\ client \in [Clients -> Sessions \cup {Idle}]
    /\ job \in Jobs \cup {Idle}
    /\ sweeps \in 0 .. MaxSweeps

Init ==
    /\ status = [p \in Packs |-> "absent"]
    /\ entries = [p \in Packs |-> {}]
    /\ place = [b \in Bodies |-> Unborn]
    /\ retirement = [p \in Packs |-> Null]
    /\ receipts = {}
    /\ targets = {}
    /\ nextEpoch = 1
    /\ openEpochs = {}
    /\ file = [p \in Packs |-> Null]
    /\ client = [c \in Clients |-> Idle]
    /\ job = Idle
    /\ sweeps = 0

PlacedAt(p) == {b \in Bodies : place[b] = p}

\* Mutant: a file is trusted by its name.
PresentFor(p, B) == file[p] # Null

\* Integrity verification of a pack file against the entries it must hold.
HoldsExactly(p, B) == file[p] # Null /\ file[p] = B

------------------------------------------------------------------------------
(* Readers and builders.                                                    *)

\* begin_reader_epoch waits for a placement switch that has not committed.
BeginEpoch(c) ==
    /\ client[c] = Idle
    /\ nextEpoch <= MaxEpochs
    /\ job.pc # "switched"
    /\ client' = [client EXCEPT ![c] =
                    [pc |-> "open", epoch |-> nextEpoch, committed |-> FALSE,
                     pack |-> Null, adding |-> Null]]
    /\ nextEpoch' = nextEpoch + 1
    /\ UNCHANGED <<catalogVars, openEpochs, file, job>>

\* A client without an explicit transaction commits the registration at once.
CommitRegistration(c) ==
    /\ client[c].pc = "open"
    /\ ~client[c].committed /\ client[c].pack = Null /\ client[c].adding = Null
    /\ client' = [client EXCEPT ![c].committed = TRUE]
    /\ openEpochs' = openEpochs \cup {client[c].epoch}
    /\ UNCHANGED <<catalogVars, nextEpoch, file, job>>

\* A later statement fetches the placement of a body; file I/O follows.
FetchPlacement(c, b) ==
    /\ client[c].pc = "open"
    /\ place[b] \in Packs
    /\ status[place[b]] = "published"
    /\ client' = [client EXCEPT ![c].pack = place[b]]
    /\ UNCHANGED <<catalogVars, nextEpoch, openEpochs, file, job>>

\* The file I/O has ended, with success or not.
EndEpoch(c) ==
    /\ client[c].pc = "open"
    /\ client[c].adding = Null
    /\ client' = [client EXCEPT ![c] = Idle]
    /\ openEpochs' = openEpochs \ {client[c].epoch}
    /\ UNCHANGED <<catalogVars, nextEpoch, file, job>>

\* A cancelled or crashed client: an open transaction is rolled back, a durable
\* epoch stays open for ever.
Cancel(c) ==
    /\ client[c].pc = "open"
    /\ client' = [client EXCEPT ![c] = Idle]
    /\ UNCHANGED <<catalogVars, nextEpoch, openEpochs, file, job>>

\* A build writes the bodies it found nowhere to a new pack file ...
PublishFile(c, p, B) ==
    /\ client[c].pc = "open"
    /\ ~client[c].committed /\ client[c].adding = Null
    /\ status[p] = "absent" /\ file[p] = Null
    /\ job.pc \in {"copying", "written", "switched"} => job.new # p
    /\ B # {} /\ \A b \in B : place[b] = Unborn
    /\ file' = [file EXCEPT ![p] = B]
    /\ client' = [client EXCEPT ![c].adding = p, ![c].pack = Null]
    /\ UNCHANGED <<catalogVars, nextEpoch, openEpochs, job>>

\* ... and commits create_pack, put_packed_body, verify_pack and publish_pack
\* together; a body another build has inserted since is a unique violation.
CommitPack(c) ==
    /\ client[c].pc = "open" /\ client[c].adding # Null
    /\ LET p == client[c].adding
       IN  /\ \A b \in file[p] : place[b] = Unborn
           /\ status' = [status EXCEPT ![p] = "published"]
           /\ entries' = [entries EXCEPT ![p] = file[p]]
           /\ place' = [b \in Bodies |-> IF b \in file[p] THEN p ELSE place[b]]
    /\ client' = [client EXCEPT ![c] = Idle]
    /\ UNCHANGED <<retirement, receipts, targets, sweeps, nextEpoch, openEpochs, file, job>>

------------------------------------------------------------------------------
(* Garbage collection and pack maintenance.                                 *)

\* native-gc.py deletes unreachable rows while no session is inside a transaction
\* and no epoch is open, and names the packs that may then be maintained.
Sweep(D) ==
    /\ sweeps < MaxSweeps
    /\ \A c \in Clients : client[c] = Idle
    /\ openEpochs = {}
    /\ job.pc \in {"idle", "unlink", "receipt"}
    /\ \A b \in D : place[b] \in Packs
    /\ place' = [b \in Bodies |-> IF b \in D THEN Swept ELSE place[b]]
    /\ targets' = targets \cup {p \in Packs : status[p] # "absent"}
    /\ sweeps' = sweeps + 1
    /\ UNCHANGED <<status, entries, retirement, receipts, nextEpoch, openEpochs,
                   file, client, job>>

\* Mutant: a replacement may be rewritten before its predecessor is removed.
StartRepackOfAny(old, new) ==
    /\ job = Idle
    /\ old \in targets /\ status[old] = "published"
    /\ status[new] = "absent"
    /\ PlacedAt(old) # {} /\ PlacedAt(old) # entries[old]
    /\ job' = [pc |-> "copying", old |-> old, new |-> new]
    /\ UNCHANGED <<catalogVars, nextEpoch, openEpochs, file, client>>

\* repack: a published pack with both live and dead entries, whose own
\* predecessors have been removed, is rewritten under a new identity.
StartRepack(old, new) ==
    /\ job = Idle
    /\ old \in targets /\ status[old] = "published"
    /\ status[new] = "absent"
    /\ \A p \in Packs \ receipts :
          retirement[p] # Null => retirement[p].replacement # old
    /\ PlacedAt(old) # {} /\ PlacedAt(old) # entries[old]
    /\ job' = [pc |-> "copying", old |-> old, new |-> new]
    /\ UNCHANGED <<catalogVars, nextEpoch, openEpochs, file, client>>

\* The file of an interrupted attempt is adopted if it holds the same bodies.
WriteReplacement ==
    /\ job.pc = "copying"
    /\ \/ /\ file[job.new] = Null
          /\ file' = [file EXCEPT ![job.new] = PlacedAt(job.old)]
       \/ HoldsExactly(job.new, PlacedAt(job.old)) /\ file' = file
    /\ job' = [job EXCEPT !.pc = "written"]
    /\ UNCHANGED <<catalogVars, nextEpoch, openEpochs, client>>

\* Mutant: the switch does not wait for registrations in flight.
SwitchUnfenced ==
    /\ job.pc = "written"
    /\ job' = [pc |-> "switched", old |-> job.old, new |-> job.new,
               before |-> nextEpoch - 1]
    /\ UNCHANGED <<catalogVars, nextEpoch, openEpochs, file, client>>

\* switch_pack takes the fence exclusively, which waits for the transaction of
\* every registration, and holds it until its own transaction commits.
Switch ==
    /\ job.pc = "written"
    /\ \A c \in Clients : client[c] # Idle => client[c].committed
    /\ job' = [pc |-> "switched", old |-> job.old, new |-> job.new,
               before |-> nextEpoch - 1]
    /\ UNCHANGED <<catalogVars, nextEpoch, openEpochs, file, client>>

\* The new pack is registered, unless its identity is taken, the bodies move, the
\* old pack is retired and the new one published: at once.
CommitSwitch ==
    /\ job.pc = "switched"
    /\ status[job.new] = "absent"
    /\ HoldsExactly(job.new, PlacedAt(job.old))
    /\ status' = [status EXCEPT ![job.old] = "retired", ![job.new] = "published"]
    /\ entries' = [entries EXCEPT ![job.new] = PlacedAt(job.old)]
    /\ place' = [b \in Bodies |-> IF place[b] = job.old THEN job.new ELSE place[b]]
    /\ retirement' = [retirement EXCEPT ![job.old] =
                        [replacement |-> job.new, before |-> job.before]]
    /\ job' = Idle
    /\ UNCHANGED <<receipts, targets, sweeps, nextEpoch, openEpochs, file, client>>

\* Mutant: an empty pack's retirement is dated after the next registration.
RetireEmptyLate(p) ==
    /\ job = Idle
    /\ p \in targets /\ status[p] = "published"
    /\ PlacedAt(p) = {}
    /\ HoldsExactly(p, entries[p])
    /\ status' = [status EXCEPT ![p] = "retired"]
    /\ retirement' = [retirement EXCEPT ![p] =
                        [replacement |-> Null, before |-> nextEpoch]]
    /\ UNCHANGED <<entries, place, receipts, targets, sweeps, nextEpoch, openEpochs,
                   file, client, job>>

\* A pack without a live body is retired without a replacement.
RetireEmpty(p) ==
    /\ job = Idle
    /\ p \in targets /\ status[p] = "published"
    /\ PlacedAt(p) = {}
    /\ HoldsExactly(p, entries[p])
    /\ status' = [status EXCEPT ![p] = "retired"]
    /\ retirement' = [retirement EXCEPT ![p] =
                        [replacement |-> Null, before |-> nextEpoch - 1]]
    /\ UNCHANGED <<entries, place, receipts, targets, sweeps, nextEpoch, openEpochs,
                   file, client, job>>

\* What finish re-verifies on every attempt before it touches the file.
ReplacementSound(p) ==
    LET new == retirement[p].replacement
    IN  IF new # Null THEN status[new] = "published" /\ HoldsExactly(new, entries[new])
        ELSE status[p] = "retired" => HoldsExactly(p, entries[p])

\* Mutant: every open reader holds up the drain, not only those that began before
\* the switch.
DrainedOfAll(p) == openEpochs = {}

Drained(p) == \A e \in openEpochs : e > retirement[p].before

Finishable(p) ==
    /\ p \in targets \ receipts
    /\ status[p] \in {"retired", "reclaimed"}
    /\ PlacedAt(p) = {}
    /\ ReplacementSound(p)

\* finish: mark_pack_readers_drained and reclaim_pack commit first, or an earlier
\* attempt committed them ...
Reclaim(p) ==
    /\ job = Idle
    /\ Finishable(p)
    /\ status[p] = "retired" => Drained(p)
    /\ status' = [status EXCEPT ![p] = "reclaimed"]
    /\ job' = [pc |-> "unlink", old |-> p, retry |-> status[p] = "reclaimed"]
    /\ UNCHANGED <<entries, place, retirement, receipts, targets, sweeps, nextEpoch,
                   openEpochs, file, client>>

\* Mutant: the receipt is due although the file is still there.
UnlinkLater ==
    /\ job.pc = "unlink"
    /\ file[job.old] # Null \/ job.retry
    /\ job' = [job EXCEPT !.pc = "receipt"]
    /\ UNCHANGED <<catalogVars, nextEpoch, openEpochs, file, client>>

\* ... then the file is removed, unless an earlier attempt removed it ...
Unlink ==
    /\ job.pc = "unlink"
    /\ file[job.old] # Null \/ job.retry
    /\ file' = [file EXCEPT ![job.old] = Null]
    /\ job' = [job EXCEPT !.pc = "receipt"]
    /\ UNCHANGED <<catalogVars, nextEpoch, openEpochs, client>>

\* ... and record_pack_removal accounts for it.
RecordRemoval ==
    /\ job.pc = "receipt"
    /\ receipts' = receipts \cup {job.old}
    /\ job' = Idle
    /\ UNCHANGED <<status, entries, place, retirement, targets, sweeps, nextEpoch,
                   openEpochs, file, client>>

\* The maintenance process dies or fails: its transaction is rolled back and the
\* lock of the pack root released; what it did to files stays.
AbortJob ==
    /\ job # Idle
    /\ job' = Idle
    /\ UNCHANGED <<catalogVars, nextEpoch, openEpochs, file, client>>

------------------------------------------------------------------------------
ClientStep(c) ==
    \/ BeginEpoch(c)
    \/ CommitRegistration(c)
    \/ \E b \in Bodies : FetchPlacement(c, b)
    \/ EndEpoch(c)
    \/ Cancel(c)
    \/ \E p \in Packs, B \in SUBSET Bodies : PublishFile(c, p, B)
    \/ CommitPack(c)

MaintenanceStep ==
    \/ \E D \in SUBSET Bodies : Sweep(D)
    \/ \E old, new \in Packs : StartRepack(old, new)
    \/ WriteReplacement
    \/ Switch
    \/ CommitSwitch
    \/ \E p \in Packs : RetireEmpty(p) \/ Reclaim(p)
    \/ Unlink
    \/ RecordRemoval
    \/ AbortJob

Next == (\E c \in Clients : ClientStep(c)) \/ MaintenanceStep

Spec == Init /\ [][Next]_vars

\* Maintenance is retried, a call that nothing interrupts runs on, interruptions
\* do not for ever hit the same stretch, and clients end their epochs or die.
Fairness ==
    /\ SF_vars(\E p \in Packs : Reclaim(p))
    /\ SF_vars(Unlink)
    /\ SF_vars(RecordRemoval)
    /\ WF_vars(AbortJob)
    /\ \A c \in Clients : WF_vars(EndEpoch(c) \/ Cancel(c))

FairSpec == Spec /\ Fairness

------------------------------------------------------------------------------
(* Properties.                                                              *)

\* The file a client looked up stays until the client's epoch ends, however
\* rewriting, retirement, removal and collection interleave with it (migration
\* 055, "retain their epoch through verified file I/O").
ReadersKeepTheirFile ==
    \A c \in Clients : client[c].pc = "open" =>
        client[c].pack = Null \/ file[client[c].pack] # Null

\* A committed placement names a published pack whose file holds the body, at
\* every instant at which a crash could stop the world (switch_pack, finish).
PlacedBodiesAreStored ==
    \A b \in Bodies : place[b] \in Packs =>
        /\ status[place[b]] = "published"
        /\ file[place[b]] # Null /\ b \in file[place[b]]

\* "finish predecessor removals before rewriting their replacement": while a
\* retired pack waits for its removal, its replacement is not rewritten.
ReplacementsStayUntilRemoval ==
    \A p \in Packs \ receipts : retirement[p] # Null =>
        LET new == retirement[p].replacement
        IN  new # Null /\ retirement[new] # Null => retirement[new].replacement = Null

\* A removal receipt is durable evidence: the file is gone for good
\* (record_pack_removal).
ReceiptsAreTruthful ==
    \A p \in receipts : status[p] = "reclaimed" /\ file[p] = Null

\* finish, in pack_maintenance.rs: "A retry after unlink but before receipt
\* observes reclaimed state and safely completes accounting".
InterruptedRemovalsComplete ==
    \A p \in Packs \ receipts :
        status[p] = "reclaimed" /\ file[p] = Null => Finishable(p)

\* The two things that may stop a removal for good: an abandoned epoch that began
\* before the switch, and a replacement that is no longer published.
Blocked(p) ==
    \/ \E e \in openEpochs : e <= retirement[p].before
    \/ /\ retirement[p].replacement # Null
       /\ status[retirement[p].replacement] # "published"

\* A retired pack whose removal nothing blocks is removed in the end, whatever
\* crashes; readers that began after the switch never hold it up, not even when
\* they are abandoned (mark_pack_readers_drained, finish).
RetiredPacksAreRemoved ==
    \A p \in Packs :
        <>[](status[p] \in {"retired", "reclaimed"} /\ p \notin receipts)
            => <>[](retirement[p] # Null /\ Blocked(p))
==============================================================================
