------------------------------ MODULE PackProofs ------------------------------
(***************************************************************************)
(* Proofs about the pack store and its files.                                *)
(*                                                                          *)
(* The store (PackStore): whatever the number of packs, bodies and clients,    *)
(* readers keep their files, placements keep their bytes, a replacement         *)
(* outlasts its predecessor and a receipt tells the truth.                     *)
(*                                                                          *)
(* The files (PackFiles), for any number of packs and builds: recorded packs    *)
(* and accounted removals survive a power failure, the cleanup spares live      *)
(* builds, and the directory is as atomic as the catalogue assumes.             *)
(***************************************************************************)
EXTENDS PackStore, PackFiles, TLAPS

(* THE STORE.                                                               *)

Open(c) == client[c].pc = "open"
Rewriting == job.pc \in {"copying", "written", "switched"}
Removing == job.pc \in {"unlink", "receipt"}

------------------------------------------------------------------------------
(* The inductive invariant.                                                 *)

\* The bytes of a pack exist from its registration to its reclamation.
FilesExist == \A p \in Packs : status[p] \in {"published", "retired"} => file[p] # Null

\* A build adds, under the fence, a pack nobody has registered and nobody else adds.
AddingIsExclusive ==
    \A c \in Clients : Open(c) /\ client[c].adding # Null =>
        LET p == client[c].adding
        IN  /\ ~client[c].committed
            /\ status[p] = "absent" /\ file[p] # Null
            /\ \A d \in Clients \ {c} : Open(d) => client[d].adding # p

\* Clients have epochs of their own; a committed one is open in the catalogue.
EpochsAreOwned ==
    \A c \in Clients : Open(c) =>
        /\ client[c].epoch < nextEpoch
        /\ client[c].committed => client[c].epoch \in openEpochs
        /\ \A d \in Clients \ {c} : Open(d) => client[d].epoch # client[c].epoch

\* What is read is published and not empty, or retired with the reader's epoch
\* holding up the drain.
ReadersAreFenced ==
    \A c \in Clients : Open(c) /\ client[c].pack # Null =>
        LET p == client[c].pack
        IN  \/ status[p] = "published" /\ \E b \in Bodies : place[b] = p
            \/ /\ status[p] = "retired" /\ retirement[p] # Null
               /\ client[c].committed /\ client[c].epoch <= retirement[p].before

\* Only packs past publication have a retirement record.
RetiredPacksHaveRecords ==
    \A p \in Packs : retirement[p] # Null <=> status[p] \in {"retired", "reclaimed"}

\* What a call in progress relies on.
JobIsSound ==
    /\ Rewriting =>
          /\ status[job.old] = "published"
          /\ status[job.new] \in {"absent", "published"}
          /\ \A p \in Packs \ receipts :
                retirement[p] # Null => retirement[p].replacement # job.old
    /\ job.pc = "switched" =>
          \A c \in Clients : Open(c) => client[c].committed /\ client[c].epoch <= job.before
    /\ Removing => status[job.old] = "reclaimed"
    /\ job.pc = "receipt" => file[job.old] = Null

\* The catalogue and the files alone.
StoreIsSound ==
    /\ FilesExist
    /\ RetiredPacksHaveRecords
    /\ PlacedBodiesAreStored
    /\ ReplacementsStayUntilRemoval
    /\ ReceiptsAreTruthful

ClientsAreSound == AddingIsExclusive /\ EpochsAreOwned /\ ReadersAreFenced

PackInv == TypeOK /\ StoreIsSound /\ ClientsAreSound /\ JobIsSound

------------------------------------------------------------------------------
(* Shapes: which fields a client and a job have in which phase.             *)

\* A client at work is a session; the others are idle.
LEMMA ClientShape ==
    ASSUME TypeOK, NEW c \in Clients
    PROVE  /\ Open(c) => client[c] \in Sessions
           /\ ~Open(c) => client[c] = Idle
           /\ client[c] = Idle => ~Open(c)
  BY DEF TypeOK, Open, Sessions, Idle

\* The fields of a session.
LEMMA SessionShape ==
    ASSUME NEW x \in Sessions
    PROVE  /\ x.pc = "open" /\ x.epoch \in 1 .. MaxEpochs /\ x.committed \in BOOLEAN
           /\ x.pack \in Packs \cup {Null} /\ x.adding \in Packs \cup {Null}
  BY DEF Sessions

\* The packs a job names.
LEMMA JobShape ==
    ASSUME TypeOK
    PROVE  /\ job.pc \in {"idle", "copying", "written", "switched", "unlink", "receipt"}
           /\ job = Idle <=> job.pc = "idle"
           /\ Rewriting => job.old \in Packs /\ job.new \in Packs
           /\ Removing => job.old \in Packs /\ job.retry \in BOOLEAN
           /\ job.pc = "switched" => job.before \in 0 .. MaxEpochs
  <1>1. CASE job = Idle
    BY <1>1 DEF Idle, Rewriting, Removing
  <1>2. CASE job \in [pc : {"copying", "written"}, old : Packs, new : Packs]
    BY <1>2 DEF Idle, Rewriting, Removing
  <1>3. CASE job \in [pc : {"switched"}, old : Packs, new : Packs, before : 0 .. MaxEpochs]
    BY <1>3 DEF Idle, Rewriting, Removing
  <1>4. CASE job \in [pc : {"unlink", "receipt"}, old : Packs, retry : BOOLEAN]
    BY <1>4 DEF Idle, Rewriting, Removing
  <1> QED
    BY <1>1, <1>2, <1>3, <1>4 DEF TypeOK, Jobs

\* A retirement record names a replacement, or none, and an epoch.
LEMMA RetirementShape ==
    ASSUME TypeOK, NEW p \in Packs, retirement[p] # Null
    PROVE  /\ retirement[p].replacement \in Packs \cup {Null}
           /\ retirement[p].before \in 0 .. MaxEpochs
  BY DEF TypeOK, Retirements

------------------------------------------------------------------------------
(* Type correctness.                                                        *)

\* The empty store is well typed.
LEMMA InitType == Init => TypeOK
  BY BoundsAssumption DEF Init, TypeOK, Idle

\* What a client does keeps the store well typed.
LEMMA ClientType ==
    ASSUME TypeOK, AddingIsExclusive, NEW c \in Clients, ClientStep(c)
    PROVE  TypeOK'
  <1>1. CASE BeginEpoch(c)
    BY <1>1, BoundsAssumption DEF BeginEpoch, TypeOK, catalogVars, Sessions
  <1>2. CASE CommitRegistration(c)
    <2> DEFINE x == [client[c] EXCEPT !.committed = TRUE]
    <2>1. client[c] \in Sessions
      BY <1>2, ClientShape DEF CommitRegistration, Open
    <2>2. x \in Sessions /\ client[c].epoch \in 1 .. MaxEpochs
      BY <2>1 DEF Sessions
    <2>3. client' = [client EXCEPT ![c] = x]
      BY <1>2 DEF CommitRegistration
    <2> QED
      BY <1>2, <2>2, <2>3 DEF CommitRegistration, TypeOK, catalogVars
  <1>3. CASE \E b \in Bodies : FetchPlacement(c, b)
    <2>1. PICK b \in Bodies : FetchPlacement(c, b)
      BY <1>3
    <2> DEFINE x == [client[c] EXCEPT !.pack = place[b]]
    <2>2. x \in Sessions
      BY <2>1, ClientShape DEF FetchPlacement, Open, Sessions
    <2>3. client' = [client EXCEPT ![c] = x]
      BY <2>1 DEF FetchPlacement
    <2> QED
      BY <2>1, <2>2, <2>3 DEF FetchPlacement, TypeOK, catalogVars
  <1>4. CASE EndEpoch(c)
    BY <1>4 DEF EndEpoch, TypeOK, catalogVars
  <1>5. CASE Cancel(c)
    BY <1>5 DEF Cancel, TypeOK, catalogVars
  <1>6. CASE \E p \in Packs, B \in SUBSET Bodies : PublishFile(c, p, B)
    <2>1. PICK p \in Packs, B \in SUBSET Bodies : PublishFile(c, p, B)
      BY <1>6
    <2> DEFINE x == [client[c] EXCEPT !.adding = p, !.pack = Null]
    <2>2. x \in Sessions
      BY <2>1, ClientShape DEF PublishFile, Open, Sessions
    <2>3. client' = [client EXCEPT ![c] = x]
      BY <2>1 DEF PublishFile
    <2> QED
      BY <2>1, <2>2, <2>3 DEF PublishFile, TypeOK, catalogVars
  <1>7. CASE CommitPack(c)
    <2> DEFINE p == client[c].adding
    <2>1. p \in Packs
      BY <1>7, ClientShape, SessionShape DEF CommitPack, Open
    <2>2. file[p] \in SUBSET Bodies
      BY <1>7, <2>1 DEF CommitPack, AddingIsExclusive, Open, TypeOK
    <2> QED
      BY <1>7, <2>1, <2>2 DEF CommitPack, TypeOK
  <1> QED
    BY <1>1, <1>2, <1>3, <1>4, <1>5, <1>6, <1>7 DEF ClientStep

\* What maintenance does keeps the store well typed.
LEMMA MaintenanceType ==
    ASSUME TypeOK, MaintenanceStep
    PROVE  TypeOK'
  <1>1. CASE \E D \in SUBSET Bodies : Sweep(D)
    BY <1>1, BoundsAssumption DEF Sweep, TypeOK
  <1>2. CASE \E old, new \in Packs : StartRepack(old, new)
    BY <1>2 DEF StartRepack, TypeOK, Jobs, catalogVars
  <1>3. CASE WriteReplacement
    <2>1. job \in [pc : {"copying", "written"}, old : Packs, new : Packs]
      BY <1>3 DEF WriteReplacement, TypeOK, Jobs, Idle
    <2>2. job' \in Jobs
      BY <1>3, <2>1 DEF WriteReplacement, Jobs
    <2>3. PlacedAt(job.old) \in SUBSET Bodies
      BY DEF PlacedAt
    <2> QED
      BY <1>3, <2>2, <2>3 DEF WriteReplacement, TypeOK, catalogVars
  <1>4. CASE Switch
    <2>1. job.old \in Packs /\ job.new \in Packs
      BY <1>4, JobShape DEF Switch, Rewriting
    <2>2. nextEpoch - 1 \in 0 .. MaxEpochs
      BY BoundsAssumption DEF TypeOK
    <2>3. job' \in Jobs
      BY <1>4, <2>1, <2>2 DEF Switch, Jobs
    <2> QED
      BY <1>4, <2>3 DEF Switch, TypeOK, catalogVars
  <1>5. CASE CommitSwitch
    <2>1. job.old \in Packs /\ job.new \in Packs /\ job.before \in 0 .. MaxEpochs
      BY <1>5, JobShape DEF CommitSwitch, Rewriting
    <2>2. PlacedAt(job.old) \in SUBSET Bodies
      BY DEF PlacedAt
    <2> QED
      BY <1>5, <2>1, <2>2 DEF CommitSwitch, TypeOK, Retirements
  <1>6. CASE \E p \in Packs : RetireEmpty(p)
    <2>1. nextEpoch - 1 \in 0 .. MaxEpochs
      BY BoundsAssumption DEF TypeOK
    <2> QED
      BY <1>6, <2>1 DEF RetireEmpty, TypeOK, Retirements
  <1>7. CASE \E p \in Packs : Reclaim(p)
    BY <1>7 DEF Reclaim, TypeOK, Jobs
  <1>8. CASE Unlink
    <2>1. job \in [pc : {"unlink", "receipt"}, old : Packs, retry : BOOLEAN]
      BY <1>8 DEF Unlink, TypeOK, Jobs, Idle
    <2>2. job' \in Jobs
      BY <1>8, <2>1 DEF Unlink, Jobs
    <2> QED
      BY <1>8, <2>1, <2>2 DEF Unlink, TypeOK, catalogVars
  <1>9. CASE RecordRemoval
    BY <1>9, JobShape DEF RecordRemoval, Removing, TypeOK
  <1>10. CASE AbortJob
    BY <1>10 DEF AbortJob, TypeOK, catalogVars
  <1> QED
    BY <1>1, <1>2, <1>3, <1>4, <1>5, <1>6, <1>7, <1>8, <1>9, <1>10 DEF MaintenanceStep

------------------------------------------------------------------------------
(* What a step leaves alone stays sound.                                    *)

\* A step that changes neither catalogue nor files.
LEMMA StoreUntouched ==
    ASSUME StoreIsSound, UNCHANGED <<catalogVars, file>>
    PROVE  StoreIsSound'
  BY DEF StoreIsSound, FilesExist, RetiredPacksHaveRecords, PlacedBodiesAreStored,
         ReplacementsStayUntilRemoval, ReceiptsAreTruthful, catalogVars

\* A step of the catalogue or the files that touches no pack a client works on.
LEMMA ClientsUntouched ==
    ASSUME ClientsAreSound, UNCHANGED <<client, nextEpoch, openEpochs>>,
           \A c \in Clients : Open(c) /\ client[c].adding # Null =>
              /\ status'[client[c].adding] = status[client[c].adding]
              /\ file'[client[c].adding] # Null,
           \A c \in Clients : Open(c) /\ client[c].pack # Null =>
              /\ status'[client[c].pack] = status[client[c].pack]
              /\ retirement'[client[c].pack] = retirement[client[c].pack]
              /\ \A b \in Bodies : place[b] = client[c].pack => place'[b] = client[c].pack
    PROVE  ClientsAreSound'
  <1>1. AddingIsExclusive'
    BY DEF ClientsAreSound, AddingIsExclusive, Open
  <1>2. EpochsAreOwned'
    BY DEF ClientsAreSound, EpochsAreOwned, Open
  <1>3. ReadersAreFenced'
    BY DEF ClientsAreSound, ReadersAreFenced, Open
  <1> QED
    BY <1>1, <1>2, <1>3 DEF ClientsAreSound

\* A step of a client while the job, the catalogue and the files stay.
LEMMA JobUntouched ==
    ASSUME JobIsSound, UNCHANGED <<job, catalogVars, file>>,
           job.pc = "switched" =>
              \A c \in Clients : Open(c)' =>
                 client'[c].committed /\ client'[c].epoch <= job.before
    PROVE  JobIsSound'
  BY DEF JobIsSound, Rewriting, Removing, catalogVars

------------------------------------------------------------------------------
(* Readers and builders preserve the invariant.                             *)

\* A new epoch is nobody else's, and none begins while a switch is pending.
LEMMA BeginEpochSound ==
    ASSUME PackInv, NEW c \in Clients, BeginEpoch(c)
    PROVE  StoreIsSound' /\ ClientsAreSound' /\ JobIsSound'
  <1> USE DEF BeginEpoch
  <1>1. StoreIsSound'
    BY StoreUntouched DEF PackInv
  <1>2. \A d \in Clients : Open(d)' /\ d # c =>
           client'[d] = client[d] /\ Open(d) /\ client[d].epoch \in Nat
    BY ClientShape, SessionShape DEF PackInv, TypeOK, Open
  <1>3. /\ client'[c].pack = Null /\ client'[c].adding = Null
        /\ client'[c].epoch = nextEpoch /\ client'[c].committed = FALSE
    BY DEF PackInv, TypeOK
  <1>4. AddingIsExclusive'
    BY <1>2, <1>3 DEF PackInv, ClientsAreSound, AddingIsExclusive, catalogVars
  <1>5. EpochsAreOwned'
    <2>1. nextEpoch \in Nat /\ nextEpoch' = nextEpoch + 1
      BY DEF PackInv, TypeOK
    <2> QED
      BY <1>2, <1>3, <2>1 DEF PackInv, ClientsAreSound, EpochsAreOwned
  <1>6. ReadersAreFenced'
    BY <1>2, <1>3 DEF PackInv, ClientsAreSound, ReadersAreFenced, catalogVars
  <1>7. JobIsSound'
    BY JobUntouched DEF PackInv
  <1> QED
    BY <1>1, <1>4, <1>5, <1>6, <1>7 DEF ClientsAreSound

\* Committing a registration makes the epoch visible before anything is read.
LEMMA CommitRegistrationSound ==
    ASSUME PackInv, NEW c \in Clients, CommitRegistration(c)
    PROVE  StoreIsSound' /\ ClientsAreSound' /\ JobIsSound'
  <1> USE DEF CommitRegistration
  <1>1. StoreIsSound'
    BY StoreUntouched DEF PackInv
  <1>2. \A d \in Clients : d # c => client'[d] = client[d]
    BY DEF PackInv, TypeOK
  <1>3. /\ client'[c].pack = Null /\ client'[c].adding = Null
        /\ client'[c].epoch = client[c].epoch /\ client'[c].committed
        /\ client'[c].pc = "open" /\ Open(c)
    BY ClientShape, SessionShape DEF PackInv, TypeOK, Open, Sessions
  <1>4. AddingIsExclusive'
    BY <1>2, <1>3 DEF PackInv, ClientsAreSound, AddingIsExclusive, catalogVars, Open
  <1>5. EpochsAreOwned'
    BY <1>2, <1>3 DEF PackInv, TypeOK, ClientsAreSound, EpochsAreOwned, Open
  <1>6. ReadersAreFenced'
    BY <1>2, <1>3 DEF PackInv, ClientsAreSound, ReadersAreFenced, catalogVars, Open
  <1>7. JobIsSound'
    BY <1>2, <1>3, JobUntouched DEF PackInv, JobIsSound, Open
  <1> QED
    BY <1>1, <1>4, <1>5, <1>6, <1>7 DEF ClientsAreSound

\* What a client looks up is published and holds the body it wants.
LEMMA FetchPlacementSound ==
    ASSUME PackInv, NEW c \in Clients, NEW b \in Bodies, FetchPlacement(c, b)
    PROVE  StoreIsSound' /\ ClientsAreSound' /\ JobIsSound'
  <1> USE DEF FetchPlacement
  <1>1. StoreIsSound'
    BY StoreUntouched DEF PackInv
  <1>2. \A d \in Clients : d # c => client'[d] = client[d]
    BY DEF PackInv, TypeOK
  <1>3. /\ client'[c].pack = place[b] /\ client'[c].adding = client[c].adding
        /\ client'[c].epoch = client[c].epoch /\ client'[c].committed = client[c].committed
        /\ client'[c].pc = "open" /\ Open(c)
    BY ClientShape, SessionShape DEF PackInv, TypeOK, Open, Sessions
  <1>4. AddingIsExclusive'
    BY <1>2, <1>3 DEF PackInv, ClientsAreSound, AddingIsExclusive, catalogVars, Open
  <1>5. EpochsAreOwned'
    BY <1>2, <1>3 DEF PackInv, TypeOK, ClientsAreSound, EpochsAreOwned, Open
  <1>6. ReadersAreFenced'
    BY <1>2, <1>3 DEF PackInv, ClientsAreSound, ReadersAreFenced, catalogVars, Open
  <1>7. JobIsSound'
    BY <1>2, <1>3, JobUntouched DEF PackInv, JobIsSound, Open
  <1> QED
    BY <1>1, <1>4, <1>5, <1>6, <1>7 DEF ClientsAreSound

\* A client that leaves takes no epoch but its own with it.
LEMMA LeaveSound ==
    ASSUME PackInv, NEW c \in Clients, EndEpoch(c) \/ Cancel(c)
    PROVE  StoreIsSound' /\ ClientsAreSound' /\ JobIsSound'
  <1> USE DEF EndEpoch, Cancel
  <1>1. StoreIsSound'
    BY StoreUntouched DEF PackInv
  <1>2. \A d \in Clients : Open(d)' => d # c /\ client'[d] = client[d] /\ Open(d)
    BY DEF PackInv, TypeOK, Open, Idle
  <1>3. Open(c) /\ (openEpochs' = openEpochs \/ openEpochs' = openEpochs \ {client[c].epoch})
    BY DEF Open
  <1>4. AddingIsExclusive'
    BY <1>2 DEF PackInv, ClientsAreSound, AddingIsExclusive, catalogVars
  <1>5. EpochsAreOwned'
    BY <1>2, <1>3 DEF PackInv, ClientsAreSound, EpochsAreOwned
  <1>6. ReadersAreFenced'
    BY <1>2 DEF PackInv, ClientsAreSound, ReadersAreFenced, catalogVars
  <1>7. JobIsSound'
    BY <1>2, JobUntouched DEF PackInv, JobIsSound
  <1> QED
    BY <1>1, <1>4, <1>5, <1>6, <1>7 DEF ClientsAreSound

\* A pack file appears under an unused identity: no row, no client and no job
\* knows it.
LEMMA PublishFileSound ==
    ASSUME PackInv, NEW c \in Clients, NEW p \in Packs, NEW B \in SUBSET Bodies,
           PublishFile(c, p, B)
    PROVE  StoreIsSound' /\ ClientsAreSound' /\ JobIsSound'
  <1>1. B # Null /\ file' = [file EXCEPT ![p] = B] /\ file[p] = Null /\ status[p] = "absent"
    BY NamesAssumption DEF PublishFile
  <1>2. UNCHANGED <<status, place, retirement, receipts, nextEpoch, openEpochs, job>>
    BY DEF catalogVars, PublishFile
  <1>3. StoreIsSound'
    <2>1. FilesExist'
      BY <1>1, <1>2 DEF PackInv, TypeOK, StoreIsSound, FilesExist
    <2>2. PlacedBodiesAreStored'
      BY <1>1, <1>2 DEF PackInv, TypeOK, StoreIsSound, PlacedBodiesAreStored
    <2>3. ReceiptsAreTruthful'
      BY <1>1, <1>2 DEF PackInv, TypeOK, StoreIsSound, ReceiptsAreTruthful
    <2>4. RetiredPacksHaveRecords' /\ ReplacementsStayUntilRemoval'
      BY <1>2 DEF PackInv, StoreIsSound, RetiredPacksHaveRecords, ReplacementsStayUntilRemoval
    <2> QED
      BY <2>1, <2>2, <2>3, <2>4 DEF StoreIsSound
  <1>4. \A d \in Clients : d # c => client'[d] = client[d]
    BY DEF PackInv, TypeOK, PublishFile
  <1>5. /\ client'[c].pack = Null /\ client'[c].adding = p
        /\ client'[c].epoch = client[c].epoch /\ ~client'[c].committed
        /\ ~client[c].committed /\ client'[c].pc = "open" /\ Open(c)
    BY ClientShape, SessionShape DEF PackInv, TypeOK, Open, Sessions, PublishFile
  <1>6. AddingIsExclusive'
    <2>1. \A d \in Clients : Open(d) /\ client[d].adding # Null =>
             /\ client[d].adding # p /\ client[d].adding \in Packs
             /\ file'[client[d].adding] # Null
      BY <1>1, ClientShape, SessionShape DEF PackInv, TypeOK, ClientsAreSound, AddingIsExclusive
    <2>2. p # Null
      BY NamesAssumption
    <2>3. file'[p] # Null /\ status'[p] = "absent" /\ ~client'[c].committed
      BY <1>1, <1>2, <1>5 DEF PackInv, TypeOK
    <2> QED
      BY <1>2, <1>4, <1>5, <2>1, <2>2, <2>3 DEF PackInv, ClientsAreSound, AddingIsExclusive, Open
  <1>7. EpochsAreOwned'
    <2>1. \A d \in Clients : Open(d)' =>
             /\ Open(d) /\ client'[d].epoch = client[d].epoch
             /\ client'[d].committed => client[d].committed
      BY <1>4, <1>5 DEF Open
    <2> QED
      BY <1>2, <2>1 DEF PackInv, ClientsAreSound, EpochsAreOwned
  <1>8. ReadersAreFenced'
    BY <1>2, <1>4, <1>5 DEF PackInv, ClientsAreSound, ReadersAreFenced, Open
  <1>9. JobIsSound'
    <2>1. job.pc = "receipt" => file'[job.old] = Null
      BY <1>1, JobShape DEF PackInv, TypeOK, JobIsSound, Removing
    <2> QED
      BY <1>2, <1>4, <1>5, <2>1 DEF PackInv, JobIsSound, Rewriting, Removing, Open
  <1> QED
    BY <1>3, <1>6, <1>7, <1>8, <1>9 DEF ClientsAreSound

\* The build's transaction registers its pack, which no one else refers to.
LEMMA CommitPackSound ==
    ASSUME PackInv, NEW c \in Clients, CommitPack(c)
    PROVE  StoreIsSound' /\ ClientsAreSound' /\ JobIsSound'
  <1> DEFINE p == client[c].adding
  <1>1. /\ p \in Packs /\ Open(c) /\ status[p] = "absent"
        /\ file[p] # Null /\ ~client[c].committed
    BY ClientShape, SessionShape DEF PackInv, ClientsAreSound, AddingIsExclusive, CommitPack, Open
  <1>2. /\ status' = [status EXCEPT ![p] = "published"]
        /\ place' = [b \in Bodies |-> IF b \in file[p] THEN p ELSE place[b]]
        /\ \A b \in file[p] : place[b] = Unborn
        /\ client' = [client EXCEPT ![c] = Idle]
        /\ UNCHANGED <<retirement, receipts, nextEpoch, openEpochs, file, job>>
    BY DEF CommitPack
  <1>3. StoreIsSound'
    <2>1. FilesExist' /\ ReceiptsAreTruthful' /\ ReplacementsStayUntilRemoval'
      BY <1>1, <1>2 DEF PackInv, TypeOK, StoreIsSound, FilesExist, ReceiptsAreTruthful,
         ReplacementsStayUntilRemoval
    <2>2. RetiredPacksHaveRecords'
      BY <1>1, <1>2 DEF PackInv, TypeOK, StoreIsSound, RetiredPacksHaveRecords
    <2>3. PlacedBodiesAreStored'
      BY <1>1, <1>2 DEF PackInv, TypeOK, StoreIsSound, PlacedBodiesAreStored
    <2> QED
      BY <2>1, <2>2, <2>3 DEF StoreIsSound
  <1>4. \A d \in Clients : Open(d)' => d # c /\ client'[d] = client[d] /\ Open(d)
    BY <1>2 DEF PackInv, TypeOK, Open, Idle
  <1>5. AddingIsExclusive'
    <2> SUFFICES ASSUME NEW d \in Clients, Open(d)', client'[d].adding # Null
                 PROVE  LET q == client'[d].adding
                        IN  /\ ~client'[d].committed
                            /\ status'[q] = "absent" /\ file'[q] # Null
                            /\ \A e \in Clients \ {d} : Open(e)' => client'[e].adding # q
      BY DEF AddingIsExclusive
    <2>1. d # c /\ client'[d] = client[d] /\ Open(d)
      BY <1>4
    <2>2. client[d].adding # p /\ client[d].adding \in Packs
      BY <1>1, <2>1, ClientShape, SessionShape DEF PackInv, ClientsAreSound, AddingIsExclusive
    <2>3. status'[client[d].adding] = status[client[d].adding]
      BY <1>2, <2>2 DEF PackInv, TypeOK
    <2> QED
      BY <1>2, <1>4, <2>1, <2>3 DEF PackInv, ClientsAreSound, AddingIsExclusive
  <1>6. EpochsAreOwned'
    BY <1>2, <1>4 DEF PackInv, ClientsAreSound, EpochsAreOwned
  <1>7. ReadersAreFenced'
    <2> SUFFICES ASSUME NEW d \in Clients, Open(d)', client'[d].pack # Null
                 PROVE  LET q == client'[d].pack
                        IN  \/ status'[q] = "published" /\ \E b \in Bodies : place'[b] = q
                            \/ /\ status'[q] = "retired" /\ retirement'[q] # Null
                               /\ client'[d].committed
                               /\ client'[d].epoch <= retirement'[q].before
      BY DEF ReadersAreFenced
    <2> DEFINE q == client[d].pack
    <2>1. client'[d] = client[d] /\ Open(d) /\ q \in Packs
      BY <1>4, ClientShape, SessionShape DEF PackInv
    <2>2. \/ status[q] = "published" /\ \E b \in Bodies : place[b] = q
          \/ /\ status[q] = "retired" /\ retirement[q] # Null
             /\ client[d].committed /\ client[d].epoch <= retirement[q].before
      BY <2>1 DEF PackInv, ClientsAreSound, ReadersAreFenced
    <2>3. q # p /\ status'[q] = status[q]
      BY <1>1, <1>2, <2>1, <2>2 DEF PackInv, TypeOK
    <2>4. \A b \in Bodies : place[b] = q => place'[b] = q
      BY <1>2, <2>1, NamesAssumption
    <2> QED
      BY <1>2, <2>1, <2>2, <2>3, <2>4
  <1>8. JobIsSound'
    <2>1. \A q \in Packs : status[q] # "absent" => status'[q] = status[q]
      BY <1>1, <1>2 DEF PackInv, TypeOK
    <2>2. Rewriting => status'[job.new] \in {"absent", "published"}
      BY <1>1, <1>2, JobShape DEF PackInv, TypeOK, JobIsSound
    <2>3. Rewriting => status'[job.old] = "published"
      BY <2>1, JobShape DEF PackInv, JobIsSound
    <2>4. Removing => status'[job.old] = "reclaimed"
      BY <2>1, JobShape DEF PackInv, JobIsSound
    <2> QED
      BY <1>2, <1>4, <2>2, <2>3, <2>4 DEF PackInv, JobIsSound, Rewriting, Removing
  <1> QED
    BY <1>3, <1>5, <1>6, <1>7, <1>8 DEF ClientsAreSound

------------------------------------------------------------------------------
(* Collection and maintenance preserve the invariant.                       *)

\* A collection runs while there is no client, and takes bodies out of packs.
LEMMA SweepSound ==
    ASSUME PackInv, NEW D \in SUBSET Bodies, Sweep(D)
    PROVE  StoreIsSound' /\ ClientsAreSound' /\ JobIsSound'
  <1> USE DEF Sweep
  <1>1. \A c \in Clients : ~Open(c) /\ ~Open(c)'
    BY ClientShape DEF PackInv, Open
  <1>2. StoreIsSound'
    <2>1. \A b \in Bodies : place'[b] \in Packs => place'[b] = place[b]
      BY NamesAssumption
    <2> QED
      BY <2>1 DEF PackInv, StoreIsSound, FilesExist, RetiredPacksHaveRecords,
         PlacedBodiesAreStored, ReplacementsStayUntilRemoval, ReceiptsAreTruthful
  <1>3. ClientsAreSound'
    BY <1>1 DEF ClientsAreSound, AddingIsExclusive, EpochsAreOwned, ReadersAreFenced
  <1>4. JobIsSound'
    BY <1>1 DEF PackInv, JobIsSound, Rewriting, Removing
  <1> QED
    BY <1>2, <1>3, <1>4

\* The maintenance steps that only move the job along leave store and clients alone.
LEMMA JobOnly ==
    ASSUME PackInv, UNCHANGED <<catalogVars, nextEpoch, openEpochs, file, client>>
    PROVE  StoreIsSound' /\ ClientsAreSound'
  <1>1. StoreIsSound'
    BY StoreUntouched DEF PackInv
  <1>2. \A c \in Clients : Open(c) /\ client[c].adding # Null => file[client[c].adding] # Null
    BY DEF PackInv, ClientsAreSound, AddingIsExclusive
  <1> QED
    BY <1>1, <1>2, ClientsUntouched DEF PackInv, catalogVars

\* A rewrite starts on a published pack without predecessors that wait.
LEMMA StartRepackSound ==
    ASSUME PackInv, NEW old \in Packs, NEW new \in Packs, StartRepack(old, new)
    PROVE  StoreIsSound' /\ ClientsAreSound' /\ JobIsSound'
  <1>1. JobIsSound'
    BY DEF StartRepack, JobIsSound, Rewriting, Removing, catalogVars
  <1> QED
    BY <1>1, JobOnly DEF StartRepack

\* The replacement's file appears, or is already there, and no row names it yet.
LEMMA WriteReplacementSound ==
    ASSUME PackInv, WriteReplacement
    PROVE  StoreIsSound' /\ ClientsAreSound' /\ JobIsSound'
  <1>1. job.old \in Packs /\ job.new \in Packs /\ Rewriting
    BY JobShape DEF PackInv, WriteReplacement, Rewriting
  <1>2. UNCHANGED <<status, place, retirement, receipts, nextEpoch, openEpochs, client>>
    BY DEF WriteReplacement, catalogVars
  <1>3. \A p \in Packs : \/ file'[p] = file[p]
                         \/ p = job.new /\ file[p] = Null /\ file'[p] # Null
    <2>1. PlacedAt(job.old) # Null
      BY NamesAssumption DEF PlacedAt
    <2> QED
      BY <1>1, <2>1 DEF PackInv, TypeOK, WriteReplacement
  <1>4. StoreIsSound'
    <2>1. FilesExist'
      BY <1>2, <1>3 DEF PackInv, StoreIsSound, FilesExist
    <2>2. PlacedBodiesAreStored'
      BY <1>2, <1>3 DEF PackInv, StoreIsSound, PlacedBodiesAreStored
    <2>3. ReceiptsAreTruthful'
      BY <1>1, <1>2, <1>3 DEF PackInv, TypeOK, StoreIsSound, ReceiptsAreTruthful, JobIsSound
    <2>4. RetiredPacksHaveRecords' /\ ReplacementsStayUntilRemoval'
      BY <1>2 DEF PackInv, StoreIsSound, RetiredPacksHaveRecords, ReplacementsStayUntilRemoval
    <2> QED
      BY <2>1, <2>2, <2>3, <2>4 DEF StoreIsSound
  <1>5. ClientsAreSound'
    <2>1. \A c \in Clients : Open(c) /\ client[c].adding # Null =>
             file'[client[c].adding] # Null
      BY <1>3, ClientShape, SessionShape DEF PackInv, ClientsAreSound, AddingIsExclusive
    <2> QED
      BY <1>2, <2>1, ClientsUntouched DEF PackInv
  <1>6. JobIsSound'
    <2>1. /\ job'.pc = "written" /\ job'.old = job.old /\ job'.new = job.new
      <3>1. job \in [pc : {"copying", "written"}, old : Packs, new : Packs]
        BY DEF PackInv, TypeOK, Jobs, Idle, WriteReplacement
      <3> QED
        BY <3>1 DEF WriteReplacement
    <2> QED
      BY <1>1, <1>2, <2>1 DEF PackInv, JobIsSound, Rewriting, Removing
  <1> QED
    BY <1>4, <1>5, <1>6

\* When the fence is taken, every client at work has a durable epoch that is not
\* later than the switch.
LEMMA SwitchSound ==
    ASSUME PackInv, Switch
    PROVE  StoreIsSound' /\ ClientsAreSound' /\ JobIsSound'
  <1>1. /\ job'.pc = "switched" /\ job'.old = job.old /\ job'.new = job.new
        /\ job'.before = nextEpoch - 1
    BY DEF Switch
  <1>2. \A c \in Clients : Open(c) => client[c].committed /\ client[c].epoch <= nextEpoch - 1
    <2> SUFFICES ASSUME NEW c \in Clients, Open(c)
                 PROVE  client[c].committed /\ client[c].epoch <= nextEpoch - 1
      OBVIOUS
    <2>1. client[c].epoch \in Nat /\ nextEpoch \in Nat
      BY ClientShape, SessionShape DEF PackInv, TypeOK
    <2>2. client[c].epoch < nextEpoch
      BY DEF PackInv, ClientsAreSound, EpochsAreOwned
    <2> QED
      BY <2>1, <2>2, ClientShape DEF Switch, PackInv
  <1>3. Rewriting /\ UNCHANGED <<status, retirement, receipts, file, client>>
    BY DEF Switch, Rewriting, catalogVars
  <1>4. JobIsSound'
    BY <1>1, <1>2, <1>3 DEF PackInv, JobIsSound, Rewriting, Removing, Open
  <1> QED
    BY <1>4, JobOnly DEF Switch

\* An interruption rolls the transaction back; the files stay as they are.
LEMMA AbortJobSound ==
    ASSUME PackInv, AbortJob
    PROVE  StoreIsSound' /\ ClientsAreSound' /\ JobIsSound'
  <1>1. JobIsSound'
    BY DEF AbortJob, JobIsSound, Rewriting, Removing, Idle
  <1> QED
    BY <1>1, JobOnly DEF AbortJob

\* The switch commits: whoever reads the old pack holds up its drain.
LEMMA CommitSwitchSound ==
    ASSUME PackInv, CommitSwitch
    PROVE  StoreIsSound' /\ ClientsAreSound' /\ JobIsSound'
  <1> DEFINE o == job.old
             n == job.new
             r == [replacement |-> n, before |-> job.before]
  <1>1. /\ o \in Packs /\ n \in Packs /\ job.before \in 0 .. MaxEpochs
        /\ job.pc = "switched" /\ Rewriting
    BY JobShape DEF PackInv, CommitSwitch, Rewriting
  <1>2. /\ status[o] = "published" /\ status[n] = "absent" /\ o # n
        /\ file[o] # Null /\ file[n] = PlacedAt(o) /\ file[n] # Null
        /\ retirement[n] = Null
    BY <1>1 DEF PackInv, StoreIsSound, FilesExist, RetiredPacksHaveRecords, JobIsSound,
                CommitSwitch, HoldsExactly
  <1>3. r \in Retirements /\ r # Null
    BY <1>1, RecordsAssumption DEF Retirements
  <1>4. /\ status' = [status EXCEPT ![o] = "retired", ![n] = "published"]
        /\ retirement' = [retirement EXCEPT ![o] = r]
        /\ place' = [b \in Bodies |-> IF place[b] = o THEN n ELSE place[b]]
        /\ job' = Idle
        /\ UNCHANGED <<receipts, nextEpoch, openEpochs, file, client>>
    BY DEF CommitSwitch
  <1>5. /\ status'[o] = "retired" /\ status'[n] = "published"
        /\ retirement'[o] = r /\ retirement'[n] = Null
        /\ \A p \in Packs \ {o, n} : status'[p] = status[p] /\ retirement'[p] = retirement[p]
    BY <1>1, <1>2, <1>4 DEF PackInv, TypeOK
  <1>6. StoreIsSound'
    <2>1. FilesExist'
      BY <1>2, <1>4, <1>5 DEF PackInv, StoreIsSound, FilesExist
    <2>2. RetiredPacksHaveRecords'
      BY <1>2, <1>3, <1>5 DEF PackInv, StoreIsSound, RetiredPacksHaveRecords
    <2>3. PlacedBodiesAreStored'
      <3> SUFFICES ASSUME NEW b \in Bodies, place'[b] \in Packs
                   PROVE  /\ status'[place'[b]] = "published"
                          /\ file'[place'[b]] # Null /\ b \in file'[place'[b]]
        BY DEF PlacedBodiesAreStored
      <3>1. CASE place[b] = o
        BY <3>1, <1>2, <1>4, <1>5 DEF PlacedAt
      <3>2. CASE place[b] # o
        <4>1. place'[b] = place[b]
          BY <3>2, <1>4
        <4>2. /\ status[place[b]] = "published"
              /\ file[place[b]] # Null /\ b \in file[place[b]]
          BY <4>1 DEF PackInv, StoreIsSound, PlacedBodiesAreStored
        <4>3. place[b] # n /\ place[b] \in Packs
          BY <4>1, <4>2, <1>2
        <4>4. status'[place[b]] = "published"
          BY <3>2, <4>2, <4>3, <1>5
        <4> QED
          BY <4>1, <4>2, <4>4, <1>4
      <3> QED
        BY <3>1, <3>2
    <2>4. ReplacementsStayUntilRemoval'
      <3> SUFFICES ASSUME NEW p \in Packs \ receipts, retirement'[p] # Null,
                          NEW q, q = retirement'[p].replacement,
                          q # Null, retirement'[q] # Null
                   PROVE  retirement'[q].replacement = Null
        BY <1>4 DEF ReplacementsStayUntilRemoval
      <3>1. p # o /\ p # n
        BY <1>5
      <3>2. retirement[p] # Null /\ q = retirement[p].replacement /\ q \in Packs
        BY <3>1, <1>5, RetirementShape DEF PackInv
      <3>3. q # o /\ q # n
        BY <3>2, <1>1, <1>5 DEF PackInv, JobIsSound
      <3> QED
        BY <3>2, <3>3, <1>5 DEF PackInv, StoreIsSound, ReplacementsStayUntilRemoval
    <2>5. ReceiptsAreTruthful'
      BY <1>2, <1>4, <1>5 DEF PackInv, TypeOK, StoreIsSound, ReceiptsAreTruthful
    <2> QED
      BY <2>1, <2>2, <2>3, <2>4, <2>5 DEF StoreIsSound
  <1>7. \A c \in Clients : Open(c) => client[c].committed /\ client[c].epoch <= job.before
    BY <1>1 DEF PackInv, JobIsSound
  <1>8. AddingIsExclusive'
    BY <1>4, <1>7 DEF PackInv, ClientsAreSound, AddingIsExclusive, Open
  <1>9. EpochsAreOwned'
    BY <1>4 DEF PackInv, ClientsAreSound, EpochsAreOwned, Open
  <1>10. ReadersAreFenced'
    <2> SUFFICES ASSUME NEW c \in Clients, Open(c), client[c].pack # Null
                 PROVE  LET q == client[c].pack
                        IN  \/ status'[q] = "published" /\ \E b \in Bodies : place'[b] = q
                            \/ /\ status'[q] = "retired" /\ retirement'[q] # Null
                               /\ client[c].committed /\ client[c].epoch <= retirement'[q].before
      BY <1>4 DEF ReadersAreFenced, Open
    <2> DEFINE q == client[c].pack
    <2>1. q \in Packs
      BY ClientShape, SessionShape DEF PackInv
    <2>2. \/ status[q] = "published" /\ \E b \in Bodies : place[b] = q
          \/ /\ status[q] = "retired" /\ retirement[q] # Null
             /\ client[c].committed /\ client[c].epoch <= retirement[q].before
      BY DEF PackInv, ClientsAreSound, ReadersAreFenced
    <2>3. CASE q = o
      BY <2>3, <1>3, <1>5, <1>7
    <2>4. CASE q # o
      <3>1. q # n
        BY <2>2, <1>2
      <3>2. \A b \in Bodies : place[b] = q => place'[b] = q
        BY <2>4, <1>4
      <3> QED
        BY <2>1, <2>2, <2>4, <3>1, <3>2, <1>5
    <2> QED
      BY <2>3, <2>4
  <1>11. JobIsSound'
    BY <1>4 DEF JobIsSound, Rewriting, Removing, Idle
  <1> QED
    BY <1>6, <1>8, <1>9, <1>10, <1>11 DEF ClientsAreSound

\* Nobody reads a pack without a live body.
LEMMA RetireEmptySound ==
    ASSUME PackInv, NEW p \in Packs, RetireEmpty(p)
    PROVE  StoreIsSound' /\ ClientsAreSound' /\ JobIsSound'
  <1> DEFINE r == [replacement |-> Null, before |-> nextEpoch - 1]
  <1>1. r \in Retirements /\ r # Null
    BY BoundsAssumption, RecordsAssumption DEF Retirements, PackInv, TypeOK
  <1>2. /\ status[p] = "published" /\ \A b \in Bodies : place[b] # p
        /\ job = Idle
        /\ status' = [status EXCEPT ![p] = "retired"]
        /\ retirement' = [retirement EXCEPT ![p] = r]
        /\ UNCHANGED <<place, receipts, nextEpoch, openEpochs, file, client, job>>
    BY DEF RetireEmpty, PlacedAt
  <1>3. /\ status'[p] = "retired" /\ retirement'[p] = r
        /\ \A q \in Packs \ {p} : status'[q] = status[q] /\ retirement'[q] = retirement[q]
    BY <1>2 DEF PackInv, TypeOK
  <1>4. StoreIsSound'
    <2>1. FilesExist' /\ RetiredPacksHaveRecords'
      BY <1>1, <1>2, <1>3 DEF PackInv, StoreIsSound, FilesExist, RetiredPacksHaveRecords
    <2>2. PlacedBodiesAreStored' /\ ReceiptsAreTruthful'
      BY <1>2, <1>3 DEF PackInv, TypeOK, StoreIsSound, PlacedBodiesAreStored, ReceiptsAreTruthful
    <2>3. ReplacementsStayUntilRemoval'
      <3> SUFFICES ASSUME NEW q \in Packs \ receipts, retirement'[q] # Null,
                          NEW x, x = retirement'[q].replacement,
                          x # Null, retirement'[x] # Null
                   PROVE  retirement'[x].replacement = Null
        BY <1>2 DEF ReplacementsStayUntilRemoval
      <3>1. q # p /\ retirement[q] # Null /\ x = retirement[q].replacement /\ x \in Packs
        BY <1>3, RetirementShape DEF PackInv
      <3> QED
        BY <3>1, <1>3 DEF PackInv, StoreIsSound, ReplacementsStayUntilRemoval
    <2> QED
      BY <2>1, <2>2, <2>3 DEF StoreIsSound
  <1>5. ClientsAreSound'
    <2>1. \A c \in Clients : Open(c) /\ client[c].adding # Null =>
             /\ client[c].adding \in Packs \ {p} /\ file'[client[c].adding] # Null
      BY <1>2, ClientShape, SessionShape DEF PackInv, ClientsAreSound, AddingIsExclusive
    <2>2. \A c \in Clients : Open(c) /\ client[c].pack # Null => client[c].pack \in Packs \ {p}
      BY <1>2, ClientShape, SessionShape DEF PackInv, ClientsAreSound, ReadersAreFenced
    <2> QED
      BY <1>2, <1>3, <2>1, <2>2, ClientsUntouched DEF PackInv
  <1>6. JobIsSound'
    BY <1>2 DEF JobIsSound, Rewriting, Removing, Idle
  <1> QED
    BY <1>4, <1>5, <1>6

\* A drained pack has no reader.
LEMMA ReclaimSound ==
    ASSUME PackInv, NEW p \in Packs, Reclaim(p)
    PROVE  StoreIsSound' /\ ClientsAreSound' /\ JobIsSound'
  <1>1. /\ p \notin receipts /\ status[p] \in {"retired", "reclaimed"}
        /\ status[p] = "retired" => Drained(p)
        /\ status' = [status EXCEPT ![p] = "reclaimed"]
        /\ job'.pc = "unlink" /\ job'.old = p
        /\ UNCHANGED <<place, retirement, receipts, nextEpoch, openEpochs, file, client>>
    BY DEF Reclaim, Finishable
  <1>2. /\ status'[p] = "reclaimed"
        /\ \A q \in Packs \ {p} : status'[q] = status[q]
    BY <1>1 DEF PackInv, TypeOK
  <1>3. StoreIsSound'
    <2>1. FilesExist' /\ RetiredPacksHaveRecords'
      BY <1>1, <1>2 DEF PackInv, StoreIsSound, FilesExist, RetiredPacksHaveRecords
    <2>2. PlacedBodiesAreStored' /\ ReceiptsAreTruthful' /\ ReplacementsStayUntilRemoval'
      BY <1>1, <1>2 DEF PackInv, TypeOK, StoreIsSound, PlacedBodiesAreStored,
         ReceiptsAreTruthful, ReplacementsStayUntilRemoval
    <2> QED
      BY <2>1, <2>2 DEF StoreIsSound
  <1>4. ClientsAreSound'
    <2>1. \A c \in Clients : Open(c) /\ client[c].adding # Null =>
             /\ client[c].adding \in Packs \ {p} /\ file'[client[c].adding] # Null
      BY <1>1, ClientShape, SessionShape DEF PackInv, ClientsAreSound, AddingIsExclusive
    <2>2. \A c \in Clients : Open(c) /\ client[c].pack # Null => client[c].pack \in Packs \ {p}
      <3> SUFFICES ASSUME NEW c \in Clients, Open(c), client[c].pack = p
                   PROVE  FALSE
        BY ClientShape, SessionShape DEF PackInv
      <3>1. /\ p # Null /\ client[c].epoch \in Nat
        BY NamesAssumption, ClientShape, SessionShape DEF PackInv
      <3>2. /\ status[p] = "retired" /\ retirement[p] # Null
            /\ client[c].committed /\ client[c].epoch <= retirement[p].before
        BY <1>1, <3>1 DEF PackInv, ClientsAreSound, ReadersAreFenced
      <3>3. client[c].epoch \in openEpochs
        BY <3>2 DEF PackInv, ClientsAreSound, EpochsAreOwned
      <3>4. client[c].epoch > retirement[p].before /\ retirement[p].before \in Nat
        BY <1>1, <3>2, <3>3, RetirementShape DEF PackInv, Drained
      <3> QED
        BY <3>1, <3>2, <3>4
    <2> QED
      BY <1>1, <1>2, <2>1, <2>2, ClientsUntouched DEF PackInv
  <1>5. JobIsSound'
    BY <1>1, <1>2 DEF JobIsSound, Rewriting, Removing
  <1> QED
    BY <1>3, <1>4, <1>5

\* Only the file of a reclaimed pack is removed.
LEMMA UnlinkSound ==
    ASSUME PackInv, Unlink
    PROVE  StoreIsSound' /\ ClientsAreSound' /\ JobIsSound'
  <1>1. job.old \in Packs /\ status[job.old] = "reclaimed"
    BY JobShape DEF PackInv, Unlink, JobIsSound, Removing
  <1>2. UNCHANGED <<status, place, retirement, receipts, nextEpoch, openEpochs, client>>
    BY DEF Unlink, catalogVars
  <1>3. /\ file'[job.old] = Null
        /\ \A p \in Packs \ {job.old} : file'[p] = file[p]
    BY <1>1 DEF PackInv, TypeOK, Unlink
  <1>4. StoreIsSound'
    <2>1. FilesExist' /\ PlacedBodiesAreStored' /\ ReceiptsAreTruthful'
      BY <1>1, <1>2, <1>3 DEF PackInv, TypeOK, StoreIsSound, FilesExist,
         PlacedBodiesAreStored, ReceiptsAreTruthful
    <2>2. RetiredPacksHaveRecords' /\ ReplacementsStayUntilRemoval'
      BY <1>2 DEF PackInv, StoreIsSound, RetiredPacksHaveRecords, ReplacementsStayUntilRemoval
    <2> QED
      BY <2>1, <2>2 DEF StoreIsSound
  <1>5. ClientsAreSound'
    <2>1. \A c \in Clients : Open(c) /\ client[c].adding # Null =>
             file'[client[c].adding] # Null
      BY <1>1, <1>3, ClientShape, SessionShape DEF PackInv, ClientsAreSound, AddingIsExclusive
    <2> QED
      BY <1>2, <2>1, ClientsUntouched DEF PackInv
  <1>6. JobIsSound'
    <2>1. job'.pc = "receipt" /\ job'.old = job.old
      <3>1. job \in [pc : {"unlink", "receipt"}, old : Packs, retry : BOOLEAN]
        BY DEF PackInv, TypeOK, Jobs, Idle, Unlink
      <3> QED
        BY <3>1 DEF Unlink
    <2> QED
      BY <1>1, <1>2, <1>3, <2>1 DEF JobIsSound, Rewriting, Removing
  <1> QED
    BY <1>4, <1>5, <1>6

\* The receipt is written for a file that is gone.
LEMMA RecordRemovalSound ==
    ASSUME PackInv, RecordRemoval
    PROVE  StoreIsSound' /\ ClientsAreSound' /\ JobIsSound'
  <1>1. status[job.old] = "reclaimed" /\ file[job.old] = Null
    BY DEF PackInv, RecordRemoval, JobIsSound, Removing
  <1>2. StoreIsSound'
    BY <1>1 DEF RecordRemoval, PackInv, StoreIsSound, FilesExist, RetiredPacksHaveRecords,
       PlacedBodiesAreStored, ReplacementsStayUntilRemoval, ReceiptsAreTruthful
  <1>3. ClientsAreSound'
    <2>1. \A c \in Clients : Open(c) /\ client[c].adding # Null => file[client[c].adding] # Null
      BY DEF PackInv, ClientsAreSound, AddingIsExclusive
    <2> QED
      BY <2>1, ClientsUntouched DEF PackInv, RecordRemoval
  <1>4. JobIsSound'
    BY DEF RecordRemoval, JobIsSound, Rewriting, Removing, Idle
  <1> QED
    BY <1>2, <1>3, <1>4

------------------------------------------------------------------------------
(* The theorems.                                                            *)

\* The empty store satisfies the invariant.
LEMMA InitSound == Init => PackInv
  <1> SUFFICES ASSUME Init PROVE PackInv
    OBVIOUS
  <1>1. \A c \in Clients : ~Open(c)
    BY DEF Init, Open, Idle
  <1>2. StoreIsSound
    BY NamesAssumption DEF Init, StoreIsSound, FilesExist, RetiredPacksHaveRecords,
       PlacedBodiesAreStored, ReplacementsStayUntilRemoval, ReceiptsAreTruthful
  <1>3. ClientsAreSound
    BY <1>1 DEF ClientsAreSound, AddingIsExclusive, EpochsAreOwned, ReadersAreFenced
  <1>4. JobIsSound
    BY DEF Init, JobIsSound, Rewriting, Removing, Idle
  <1> QED
    BY <1>2, <1>3, <1>4, InitType DEF PackInv

\* Every step preserves the invariant.
LEMMA NextSound == PackInv /\ [Next]_vars => PackInv'
  <1> SUFFICES ASSUME PackInv, [Next]_vars PROVE PackInv'
    OBVIOUS
  <1>1. ASSUME NEW c \in Clients, ClientStep(c) PROVE PackInv'
    <2>1. TypeOK'
      BY <1>1, ClientType DEF PackInv, ClientsAreSound
    <2>2. StoreIsSound' /\ ClientsAreSound' /\ JobIsSound'
      BY <1>1, BeginEpochSound, CommitRegistrationSound, FetchPlacementSound, LeaveSound,
         PublishFileSound, CommitPackSound DEF ClientStep
    <2> QED
      BY <2>1, <2>2 DEF PackInv
  <1>2. ASSUME MaintenanceStep PROVE PackInv'
    <2>1. TypeOK'
      BY <1>2, MaintenanceType DEF PackInv
    <2>2. StoreIsSound' /\ ClientsAreSound' /\ JobIsSound'
      BY <1>2, SweepSound, StartRepackSound, WriteReplacementSound, SwitchSound,
         CommitSwitchSound, RetireEmptySound, ReclaimSound, UnlinkSound, RecordRemovalSound,
         AbortJobSound DEF MaintenanceStep
    <2> QED
      BY <2>1, <2>2 DEF PackInv
  <1>3. CASE UNCHANGED vars
    BY <1>3 DEF vars, PackInv, TypeOK, StoreIsSound, FilesExist, RetiredPacksHaveRecords,
       PlacedBodiesAreStored, ReplacementsStayUntilRemoval, ReceiptsAreTruthful,
       ClientsAreSound, AddingIsExclusive, EpochsAreOwned, ReadersAreFenced, Open,
       JobIsSound, Rewriting, Removing
  <1> QED
    BY <1>1, <1>2, <1>3 DEF Next

\* The invariant holds in every reachable state.
LEMMA PackSound == Spec => []PackInv
  BY InitSound, NextSound, PTL DEF Spec

\* Every reachable state of the pack store is well typed.
THEOREM PackTypeCorrect == Spec => []TypeOK
  <1>1. PackInv => TypeOK
    BY DEF PackInv
  <1> QED
    BY <1>1, PackSound, PTL

\* No reader loses the file it looked up: its epoch, registered under the fence,
\* holds up the drain of whatever it may have seen (migration 055).
THEOREM ReadersAreSafe == Spec => []ReadersKeepTheirFile
  <1>1. PackInv => ReadersKeepTheirFile
    <2> SUFFICES ASSUME PackInv, NEW c \in Clients, Open(c), client[c].pack # Null
                 PROVE  file[client[c].pack] # Null
      BY DEF ReadersKeepTheirFile, Open
    <2>1. client[c].pack \in Packs
      BY ClientShape, SessionShape DEF PackInv
    <2> QED
      BY <2>1 DEF PackInv, ClientsAreSound, ReadersAreFenced, StoreIsSound, FilesExist
  <1> QED
    BY <1>1, PackSound, PTL

\* A committed placement names a published pack whose file holds the body
\* (switch_pack, publish_pack, finish).
THEOREM PlacementsAreSafe == Spec => []PlacedBodiesAreStored
  <1>1. PackInv => PlacedBodiesAreStored
    BY DEF PackInv, StoreIsSound
  <1> QED
    BY <1>1, PackSound, PTL

\* A replacement is not rewritten before its predecessor is accounted for (repack).
THEOREM ReplacementsAreKept == Spec => []ReplacementsStayUntilRemoval
  <1>1. PackInv => ReplacementsStayUntilRemoval
    BY DEF PackInv, StoreIsSound
  <1> QED
    BY <1>1, PackSound, PTL

\* A receipt exists only for a pack that is reclaimed and whose file is gone
\* (record_pack_removal).
THEOREM ReceiptsAreSafe == Spec => []ReceiptsAreTruthful
  <1>1. PackInv => ReceiptsAreTruthful
    BY DEF PackInv, StoreIsSound
  <1> QED
    BY <1>1, PackSound, PTL

------------------------------------------------------------------------------
(* THE FILES.                                                               *)

------------------------------------------------------------------------------
(* The inductive invariant.                                                 *)

\* What is now may be found after a power failure, and a final name is only given
\* to a file that is on the disk.
DiskIsSound ==
    /\ \A p \in PackIds : name[p] \in nameMay[p]
    /\ \A b \in Builds : dir[b] \in dirMay[b]
    /\ \A b \in Builds : stored[b] = "whole" => content[b] = "whole"
    /\ \A p \in PackIds, b \in Builds : b \in nameMay[p] => stored[b] = "whole"

\* A pack has one writer.
PacksAreOwned ==
    \A b, c \in Builds :
        Active(b) /\ Active(c) /\ build[b].pack = build[c].pack => b = c

\* A writer's pack is not registered, its name is given once it is linked and
\* durable once it is synced, and no cleanup runs beside it.
WriterIsSound(b) ==
    /\ recorded[build[b].pack] = "absent"
    /\ cleaner = AtRest
    /\ build[b].pc # "writing" => stored[b] = "whole"
    /\ build[b].pc \in {"linked", "adopting", "synced", "published"}
          => name[build[b].pack] # None
    /\ build[b].pc \in {"synced", "published"}
          => nameMay[build[b].pack] = {name[build[b].pack]}
    /\ build[b].pc # "published" => dir[b]

WritersAreSound == PacksAreOwned /\ \A b \in Builds : Active(b) => WriterIsSound(b)

\* A cleanup is of a build that was begun; what it removed is gone.
CleanupsAreSound ==
    /\ \A b \in cleaned : dirMay[b] = {FALSE} /\ build[b] # Unused
    /\ cleaner # AtRest => build[cleaner.nonce] # Unused
    /\ cleaner # AtRest /\ cleaner.pc = "sync" => dir[cleaner.nonce] = FALSE

\* The name of a removed pack is gone, and durably so once the root is synced.
RemovalsAreSound ==
    /\ \A p \in accounted : nameMay[p] = {None} /\ recorded[p] = "reclaimed"
    /\ finisher # AtRest /\ finisher.pc \in {"sync", "receipt"} => name[finisher.pack] = None
    /\ finisher # AtRest /\ finisher.pc = "receipt" => nameMay[finisher.pack] = {None}

FilesInv ==
    /\ FilesTypeOK
    /\ DiskIsSound
    /\ WritersAreSound
    /\ CleanupsAreSound
    /\ RemovalsAreSound
    /\ RecordedPacksLast

WriterPhases == {"writing", "sealed", "linked", "adopting", "synced", "published"}

------------------------------------------------------------------------------
(* Shapes of the writers and what their steps leave alone.                   *)

\* A writer at work has a phase and a pack.
LEMMA WriterShape ==
    ASSUME FilesTypeOK, NEW b \in Builds, Active(b)
    PROVE  build[b] \in [pc : WriterPhases, pack : PackIds]
  BY DEF FilesTypeOK, Writers, Active, WriterPhases

\* A writer of some phase is at work.
LEMMA PhaseShape ==
    ASSUME NEW w \in [pc : WriterPhases, pack : PackIds]
    PROVE  /\ w.pc \in WriterPhases /\ w.pack \in PackIds
           /\ w \notin {Unused, Ended}
           /\ w \in Writers
  BY DEF WriterPhases, Unused, Ended, Writers

\* A writer goes on: its pack and the other writers stay as they are.
LEMMA BecomeShape ==
    ASSUME FilesTypeOK, NEW b \in Builds, Active(b), NEW pc \in WriterPhases, Become(b, pc)
    PROVE  /\ build' \in [Builds -> Writers]
           /\ build'[b].pc = pc /\ build'[b].pack = build[b].pack
           /\ \A c \in Builds : c # b => build'[c] = build[c]
           /\ \A c \in Builds : Active(c)' <=> Active(c)
           /\ \A c \in Builds : build'[c] = Unused <=> build[c] = Unused
  <1>1. build[b] \in [pc : WriterPhases, pack : PackIds]
    BY WriterShape
  <1>2. build' = [build EXCEPT ![b] = [build[b] EXCEPT !.pc = pc]]
    BY DEF Become
  <1>3. [build[b] EXCEPT !.pc = pc] \in [pc : WriterPhases, pack : PackIds]
    BY <1>1
  <1>4. /\ build'[b] = [build[b] EXCEPT !.pc = pc]
        /\ \A c \in Builds : c # b => build'[c] = build[c]
    BY <1>2 DEF FilesTypeOK
  <1>5. build' \in [Builds -> Writers]
    BY <1>2, <1>3, PhaseShape DEF FilesTypeOK
  <1>6. build'[b].pc = pc /\ build'[b].pack = build[b].pack
    BY <1>1, <1>4
  <1>7. build[b] \notin {Unused, Ended} /\ build'[b] \notin {Unused, Ended}
    BY <1>1, <1>3, <1>4, PhaseShape
  <1> QED
    BY <1>4, <1>5, <1>6, <1>7 DEF Active

\* A writer ends: the others stay as they are.
LEMMA EndShape ==
    ASSUME FilesTypeOK, NEW b \in Builds, Active(b), build' = [build EXCEPT ![b] = Ended]
    PROVE  /\ build' \in [Builds -> Writers]
           /\ ~Active(b)'
           /\ \A c \in Builds : c # b => build'[c] = build[c]
           /\ \A c \in Builds : Active(c)' => Active(c) /\ c # b
           /\ \A c \in Builds : build'[c] = Unused <=> build[c] = Unused
  BY DEF FilesTypeOK, Writers, Active, Unused, Ended

------------------------------------------------------------------------------
(* Shapes of the names, the directories, the cleanup and the removal.         *)

\* A final name changes.
LEMMA NameShape ==
    ASSUME FilesTypeOK, NEW p \in PackIds, NEW f \in Files, SetName(p, f)
    PROVE  /\ name' \in [PackIds -> Files] /\ nameMay' \in [PackIds -> SUBSET Files]
           /\ name'[p] = f /\ nameMay'[p] = nameMay[p] \cup {f}
           /\ \A q \in PackIds : q # p => name'[q] = name[q] /\ nameMay'[q] = nameMay[q]
  BY DEF FilesTypeOK, SetName

\* The root is synced.
LEMMA SyncShape ==
    ASSUME FilesTypeOK, SyncNames
    PROVE  /\ name' = name /\ nameMay' \in [PackIds -> SUBSET Files]
           /\ \A q \in PackIds : nameMay'[q] = {name[q]}
  BY DEF FilesTypeOK, SyncNames

\* The directory of a build comes or goes.
LEMMA DirShape ==
    ASSUME FilesTypeOK, NEW b \in Builds, NEW exists \in BOOLEAN, SetDir(b, exists)
    PROVE  /\ dir' \in [Builds -> BOOLEAN] /\ dirMay' \in [Builds -> SUBSET BOOLEAN]
           /\ dir'[b] = exists /\ dirMay'[b] = dirMay[b] \cup {exists}
           /\ \A c \in Builds : c # b => dir'[c] = dir[c] /\ dirMay'[c] = dirMay[c]
  BY DEF FilesTypeOK, SetDir

\* A cleanup in progress.
LEMMA CleanerShape ==
    ASSUME FilesTypeOK
    PROVE  /\ cleaner # AtRest => cleaner.nonce \in Builds /\ cleaner.pc \in {"remove", "sync"}
           /\ cleaner.pc \in {"remove", "sync"} => cleaner # AtRest
           /\ cleaner # AtRest =>
                 /\ [cleaner EXCEPT !.pc = "sync"] \in Cleaners
                 /\ [cleaner EXCEPT !.pc = "sync"] # AtRest
                 /\ [cleaner EXCEPT !.pc = "sync"].nonce = cleaner.nonce
  BY DEF FilesTypeOK, Cleaners, AtRest

\* A removal in progress.
LEMMA FinisherShape ==
    ASSUME FilesTypeOK
    PROVE  /\ finisher # AtRest => finisher.pack \in PackIds /\ recorded[finisher.pack] = "reclaimed"
           /\ finisher.pc \in {"unlink", "sync", "receipt"} => finisher # AtRest
           /\ \A pc \in {"sync", "receipt"} : finisher # AtRest =>
                 /\ [finisher EXCEPT !.pc = pc] \in Finishers
                 /\ [finisher EXCEPT !.pc = pc] # AtRest
                 /\ [finisher EXCEPT !.pc = pc].pc = pc
                 /\ [finisher EXCEPT !.pc = pc].pack = finisher.pack
  BY DEF FilesTypeOK, Finishers, AtRest

\* A step leaves a writer, and what it relies on, as they are; it may decide what
\* the name of its pack is.
Undisturbed(b) ==
    /\ build'[b] = build[b]
    /\ recorded'[build[b].pack] = "absent"
    /\ cleaner' = AtRest
    /\ dir'[b] = dir[b]
    /\ stored[b] = "whole" => stored'[b] = "whole"
    /\ name'[build[b].pack] = name[build[b].pack]
    /\ \/ nameMay'[build[b].pack] = nameMay[build[b].pack]
       \/ nameMay'[build[b].pack] = {name[build[b].pack]}

\* Writers that do not move stay sound if no cleanup begins beside them and what
\* they rely on stays; the one that moves, if any, has to be sound by itself.
LEMMA WritersKept ==
    ASSUME FilesInv, NEW B,
           \A c \in Builds : Active(c)' =>
               /\ Active(c) /\ build'[c].pack = build[c].pack
               /\ IF c \in B THEN WriterIsSound(c)' ELSE Undisturbed(c)
    PROVE  WritersAreSound'
  <1>1. PacksAreOwned'
    BY DEF FilesInv, WritersAreSound, PacksAreOwned
  <1>2. ASSUME NEW c \in Builds, Active(c)', c \notin B
        PROVE  WriterIsSound(c)'
    BY <1>2 DEF FilesInv, WritersAreSound, WriterIsSound, Undisturbed
  <1> QED
    BY <1>1, <1>2 DEF WritersAreSound

------------------------------------------------------------------------------
(* One lemma per action: the invariant is kept.                              *)

\* Sealing makes the file whole, on the disk too.
LEMMA SealStep ==
    ASSUME FilesInv, NEW b \in Builds, Seal(b)
    PROVE  FilesInv'
  <1> USE DEF FilesInv
  <1>a. /\ Active(b) /\ build[b] \in [pc : WriterPhases, pack : PackIds]
        /\ WriterIsSound(b) /\ cleaner = AtRest
    BY WriterShape DEF Seal, Working, WritersAreSound, WriterIsSound
  <1>b. /\ build' \in [Builds -> Writers]
        /\ build'[b].pc = "sealed" /\ build'[b].pack = build[b].pack
        /\ \A c \in Builds : c # b => build'[c] = build[c]
        /\ \A c \in Builds : Active(c)' <=> Active(c)
        /\ \A c \in Builds : build'[c] = Unused <=> build[c] = Unused
    BY <1>a, BecomeShape DEF Seal, WriterPhases
  <1>p. /\ build[b].pack \in PackIds
        /\ \A c \in Builds : Active(c) => build[c].pack \in PackIds
        /\ \A c \in Builds : Active(c) /\ c # b => build[c].pack # build[b].pack
    BY <1>a, WriterShape DEF WritersAreSound, PacksAreOwned
  <1>1. FilesTypeOK'
    BY <1>a, <1>b, <1>p
       DEF Seal, FilesTypeOK, rootVars, buildRootVars, fileVars, recordVars
  <1>2. DiskIsSound'
    BY <1>a, <1>b, <1>p
       DEF Seal, FilesTypeOK, DiskIsSound, rootVars, buildRootVars, fileVars,
           recordVars
  <1>3. WritersAreSound'
    <2>1. WriterIsSound(b)'
      BY <1>a, <1>b, <1>p, NoneAssumption
         DEF Seal, Working, WriterIsSound, FilesTypeOK, rootVars, buildRootVars,
             fileVars, recordVars
    <2>2. ASSUME NEW c \in Builds, Active(c)', c # b
          PROVE  /\ Active(c) /\ WriterIsSound(c)
                 /\ build[c].pack \in PackIds /\ build[c].pack # build[b].pack
      BY <2>2, <1>b, <1>p DEF WritersAreSound
    <2> DEFINE B == {b}
    <2>3. \A c \in Builds : Active(c)' =>
             /\ Active(c) /\ build'[c].pack = build[c].pack
             /\ IF c \in B THEN WriterIsSound(c)' ELSE Undisturbed(c)
      BY <2>1, <2>2, <1>a, <1>b, <1>p
         DEF Seal, Undisturbed, WriterIsSound, FilesTypeOK, rootVars, buildRootVars,
             fileVars, recordVars
    <2> HIDE DEF B
    <2> QED
      BY <2>3, WritersKept
  <1>4. CleanupsAreSound'
    BY <1>a, <1>b, <1>p
       DEF Seal, FilesTypeOK, CleanupsAreSound, rootVars, buildRootVars, fileVars,
           recordVars
  <1>5. RemovalsAreSound'
    BY <1>a, <1>b, <1>p
       DEF Seal, FilesTypeOK, DiskIsSound, RemovalsAreSound, rootVars, buildRootVars,
           fileVars, recordVars
  <1>6. RecordedPacksLast'
    BY <1>a, <1>b, <1>p
       DEF Seal, FilesTypeOK, DiskIsSound, RecordedPacksLast, rootVars, buildRootVars,
           fileVars, recordVars
  <1> QED
    BY <1>1, <1>2, <1>3, <1>4, <1>5, <1>6

\* The final name is given to a file that is on the disk.
LEMMA LinkStep ==
    ASSUME FilesInv, NEW b \in Builds, LinkFinal(b)
    PROVE  FilesInv'
  <1> USE DEF FilesInv
  <1>a. /\ Active(b) /\ build[b] \in [pc : WriterPhases, pack : PackIds]
        /\ WriterIsSound(b) /\ cleaner = AtRest
    BY WriterShape DEF LinkFinal, Working, WritersAreSound, WriterIsSound
  <1>b. /\ build' \in [Builds -> Writers]
        /\ build'[b].pc = "linked" /\ build'[b].pack = build[b].pack
        /\ \A c \in Builds : c # b => build'[c] = build[c]
        /\ \A c \in Builds : Active(c)' <=> Active(c)
        /\ \A c \in Builds : build'[c] = Unused <=> build[c] = Unused
    BY <1>a, BecomeShape DEF LinkFinal, WriterPhases
  <1>p. /\ build[b].pack \in PackIds
        /\ \A c \in Builds : Active(c) => build[c].pack \in PackIds
        /\ \A c \in Builds : Active(c) /\ c # b => build[c].pack # build[b].pack
    BY <1>a, WriterShape DEF WritersAreSound, PacksAreOwned
  <1>n. /\ name' \in [PackIds -> Files] /\ nameMay' \in [PackIds -> SUBSET Files]
        /\ name'[build[b].pack] = b /\ nameMay'[build[b].pack] = nameMay[build[b].pack] \cup {b}
        /\ \A q \in PackIds : q # build[b].pack => name'[q] = name[q] /\ nameMay'[q] = nameMay[q]
    BY <1>p, NameShape DEF LinkFinal, Files
  <1>f. finisher # AtRest => finisher.pack \in PackIds /\ recorded[finisher.pack] = "reclaimed"
    BY FinisherShape
  <1>w. /\ stored[b] = "whole" /\ build[b].pc = "sealed"
        /\ recorded[build[b].pack] = "absent"
    BY <1>a DEF LinkFinal, Working, WriterIsSound
  <1>1. FilesTypeOK'
    BY <1>a, <1>b, <1>p, <1>n, <1>f, <1>w
       DEF LinkFinal, FilesTypeOK, rootVars, buildRootVars, fileVars, recordVars
  <1>2. DiskIsSound'
    BY <1>a, <1>b, <1>p, <1>n, <1>f, <1>w
       DEF LinkFinal, FilesTypeOK, DiskIsSound, rootVars, buildRootVars, fileVars,
           recordVars
  <1>3. WritersAreSound'
    <2>1. WriterIsSound(b)'
      BY <1>a, <1>b, <1>p, <1>n, <1>f, <1>w, NoneAssumption
         DEF LinkFinal, Working, WriterIsSound, FilesTypeOK, rootVars, buildRootVars,
             fileVars, recordVars
    <2>2. ASSUME NEW c \in Builds, Active(c)', c # b
          PROVE  /\ Active(c) /\ WriterIsSound(c)
                 /\ build[c].pack \in PackIds /\ build[c].pack # build[b].pack
      BY <2>2, <1>b, <1>p DEF WritersAreSound
    <2> DEFINE B == {b}
    <2>3. \A c \in Builds : Active(c)' =>
             /\ Active(c) /\ build'[c].pack = build[c].pack
             /\ IF c \in B THEN WriterIsSound(c)' ELSE Undisturbed(c)
      BY <2>1, <2>2, <1>a, <1>b, <1>p, <1>n, <1>f, <1>w
         DEF LinkFinal, Undisturbed, WriterIsSound, FilesTypeOK, rootVars,
             buildRootVars, fileVars, recordVars
    <2> HIDE DEF B
    <2> QED
      BY <2>3, WritersKept
  <1>4. CleanupsAreSound'
    BY <1>a, <1>b, <1>p, <1>n, <1>f, <1>w
       DEF LinkFinal, FilesTypeOK, CleanupsAreSound, rootVars, buildRootVars, fileVars,
           recordVars
  <1>5. RemovalsAreSound'
    BY <1>a, <1>b, <1>p, <1>n, <1>f, <1>w
       DEF LinkFinal, FilesTypeOK, DiskIsSound, RemovalsAreSound, rootVars,
           buildRootVars, fileVars, recordVars
  <1>6. RecordedPacksLast'
    BY <1>a, <1>b, <1>p, <1>n, <1>f, <1>w
       DEF LinkFinal, FilesTypeOK, DiskIsSound, RecordedPacksLast, rootVars,
           buildRootVars, fileVars, recordVars
  <1> QED
    BY <1>1, <1>2, <1>3, <1>4, <1>5, <1>6

\* An existing file is taken over.
LEMMA AdoptStep ==
    ASSUME FilesInv, NEW b \in Builds, Adopt(b)
    PROVE  FilesInv'
  <1> USE DEF FilesInv
  <1>a. /\ Active(b) /\ build[b] \in [pc : WriterPhases, pack : PackIds]
        /\ WriterIsSound(b) /\ cleaner = AtRest
    BY WriterShape DEF Adopt, Working, WritersAreSound, WriterIsSound
  <1>b. /\ build' \in [Builds -> Writers]
        /\ build'[b].pc = "adopting" /\ build'[b].pack = build[b].pack
        /\ \A c \in Builds : c # b => build'[c] = build[c]
        /\ \A c \in Builds : Active(c)' <=> Active(c)
        /\ \A c \in Builds : build'[c] = Unused <=> build[c] = Unused
    BY <1>a, BecomeShape DEF Adopt, WriterPhases
  <1>p. /\ build[b].pack \in PackIds
        /\ \A c \in Builds : Active(c) => build[c].pack \in PackIds
        /\ \A c \in Builds : Active(c) /\ c # b => build[c].pack # build[b].pack
    BY <1>a, WriterShape DEF WritersAreSound, PacksAreOwned
  <1>1. FilesTypeOK'
    BY <1>a, <1>b, <1>p
       DEF Adopt, FilesTypeOK, rootVars, buildRootVars, fileVars, recordVars
  <1>2. DiskIsSound'
    BY <1>a, <1>b, <1>p
       DEF Adopt, FilesTypeOK, DiskIsSound, rootVars, buildRootVars, fileVars,
           recordVars
  <1>3. WritersAreSound'
    <2>1. WriterIsSound(b)'
      BY <1>a, <1>b, <1>p, NoneAssumption
         DEF Adopt, Working, WriterIsSound, FilesTypeOK, rootVars, buildRootVars,
             fileVars, recordVars
    <2>2. ASSUME NEW c \in Builds, Active(c)', c # b
          PROVE  /\ Active(c) /\ WriterIsSound(c)
                 /\ build[c].pack \in PackIds /\ build[c].pack # build[b].pack
      BY <2>2, <1>b, <1>p DEF WritersAreSound
    <2> DEFINE B == {b}
    <2>3. \A c \in Builds : Active(c)' =>
             /\ Active(c) /\ build'[c].pack = build[c].pack
             /\ IF c \in B THEN WriterIsSound(c)' ELSE Undisturbed(c)
      BY <2>1, <2>2, <1>a, <1>b, <1>p
         DEF Adopt, Undisturbed, WriterIsSound, FilesTypeOK, rootVars, buildRootVars,
             fileVars, recordVars
    <2> HIDE DEF B
    <2> QED
      BY <2>3, WritersKept
  <1>4. CleanupsAreSound'
    BY <1>a, <1>b, <1>p
       DEF Adopt, FilesTypeOK, CleanupsAreSound, rootVars, buildRootVars, fileVars,
           recordVars
  <1>5. RemovalsAreSound'
    BY <1>a, <1>b, <1>p
       DEF Adopt, FilesTypeOK, DiskIsSound, RemovalsAreSound, rootVars, buildRootVars,
           fileVars, recordVars
  <1>6. RecordedPacksLast'
    BY <1>a, <1>b, <1>p
       DEF Adopt, FilesTypeOK, DiskIsSound, RecordedPacksLast, rootVars, buildRootVars,
           fileVars, recordVars
  <1> QED
    BY <1>1, <1>2, <1>3, <1>4, <1>5, <1>6

\* A sync decides what every name is.
LEMMA SyncRootStep ==
    ASSUME FilesInv, NEW b \in Builds, SyncRoot(b)
    PROVE  FilesInv'
  <1> USE DEF FilesInv
  <1>a. /\ Active(b) /\ build[b] \in [pc : WriterPhases, pack : PackIds]
        /\ WriterIsSound(b) /\ cleaner = AtRest
    BY WriterShape DEF SyncRoot, Working, WritersAreSound, WriterIsSound
  <1>b. /\ build' \in [Builds -> Writers]
        /\ build'[b].pc = "synced" /\ build'[b].pack = build[b].pack
        /\ \A c \in Builds : c # b => build'[c] = build[c]
        /\ \A c \in Builds : Active(c)' <=> Active(c)
        /\ \A c \in Builds : build'[c] = Unused <=> build[c] = Unused
    BY <1>a, BecomeShape DEF SyncRoot, WriterPhases
  <1>p. /\ build[b].pack \in PackIds
        /\ \A c \in Builds : Active(c) => build[c].pack \in PackIds
        /\ \A c \in Builds : Active(c) /\ c # b => build[c].pack # build[b].pack
    BY <1>a, WriterShape DEF WritersAreSound, PacksAreOwned
  <1>s. /\ name' = name /\ nameMay' \in [PackIds -> SUBSET Files]
        /\ \A q \in PackIds : nameMay'[q] = {name[q]}
    BY SyncShape DEF SyncRoot
  <1>f. finisher # AtRest => finisher.pack \in PackIds /\ recorded[finisher.pack] = "reclaimed"
    BY FinisherShape
  <1>1. FilesTypeOK'
    BY <1>a, <1>b, <1>p, <1>s, <1>f
       DEF SyncRoot, FilesTypeOK, rootVars, buildRootVars, fileVars, recordVars
  <1>2. DiskIsSound'
    BY <1>a, <1>b, <1>p, <1>s, <1>f
       DEF SyncRoot, FilesTypeOK, DiskIsSound, rootVars, buildRootVars, fileVars,
           recordVars
  <1>3. WritersAreSound'
    <2>1. WriterIsSound(b)'
      BY <1>a, <1>b, <1>p, <1>s, <1>f, NoneAssumption
         DEF SyncRoot, Working, WriterIsSound, FilesTypeOK, rootVars, buildRootVars,
             fileVars, recordVars
    <2>2. ASSUME NEW c \in Builds, Active(c)', c # b
          PROVE  /\ Active(c) /\ WriterIsSound(c)
                 /\ build[c].pack \in PackIds /\ build[c].pack # build[b].pack
      BY <2>2, <1>b, <1>p DEF WritersAreSound
    <2> DEFINE B == {b}
    <2>3. \A c \in Builds : Active(c)' =>
             /\ Active(c) /\ build'[c].pack = build[c].pack
             /\ IF c \in B THEN WriterIsSound(c)' ELSE Undisturbed(c)
      BY <2>1, <2>2, <1>a, <1>b, <1>p, <1>s, <1>f
         DEF SyncRoot, Undisturbed, WriterIsSound, FilesTypeOK, rootVars,
             buildRootVars, fileVars, recordVars
    <2> HIDE DEF B
    <2> QED
      BY <2>3, WritersKept
  <1>4. CleanupsAreSound'
    BY <1>a, <1>b, <1>p, <1>s, <1>f
       DEF SyncRoot, FilesTypeOK, CleanupsAreSound, rootVars, buildRootVars, fileVars,
           recordVars
  <1>5. RemovalsAreSound'
    BY <1>a, <1>b, <1>p, <1>s, <1>f
       DEF SyncRoot, FilesTypeOK, DiskIsSound, RemovalsAreSound, rootVars,
           buildRootVars, fileVars, recordVars
  <1>6. RecordedPacksLast'
    BY <1>a, <1>b, <1>p, <1>s, <1>f
       DEF SyncRoot, FilesTypeOK, DiskIsSound, RecordedPacksLast, rootVars,
           buildRootVars, fileVars, recordVars
  <1> QED
    BY <1>1, <1>2, <1>3, <1>4, <1>5, <1>6

\* The candidate is removed.
LEMMA RemoveCandidateStep ==
    ASSUME FilesInv, NEW b \in Builds, RemoveCandidate(b)
    PROVE  FilesInv'
  <1> USE DEF FilesInv
  <1>a. /\ Active(b) /\ build[b] \in [pc : WriterPhases, pack : PackIds]
        /\ WriterIsSound(b) /\ cleaner = AtRest
    BY WriterShape DEF RemoveCandidate, Working, WritersAreSound, WriterIsSound
  <1>b. /\ build' \in [Builds -> Writers]
        /\ build'[b].pc = "published" /\ build'[b].pack = build[b].pack
        /\ \A c \in Builds : c # b => build'[c] = build[c]
        /\ \A c \in Builds : Active(c)' <=> Active(c)
        /\ \A c \in Builds : build'[c] = Unused <=> build[c] = Unused
    BY <1>a, BecomeShape DEF RemoveCandidate, WriterPhases
  <1>p. /\ build[b].pack \in PackIds
        /\ \A c \in Builds : Active(c) => build[c].pack \in PackIds
        /\ \A c \in Builds : Active(c) /\ c # b => build[c].pack # build[b].pack
    BY <1>a, WriterShape DEF WritersAreSound, PacksAreOwned
  <1>d. /\ dir' \in [Builds -> BOOLEAN] /\ dirMay' \in [Builds -> SUBSET BOOLEAN]
        /\ dir'[b] = FALSE /\ dirMay'[b] = dirMay[b] \cup {FALSE}
        /\ \A c \in Builds : c # b => dir'[c] = dir[c] /\ dirMay'[c] = dirMay[c]
    BY <1>a, DirShape DEF RemoveCandidate
  <1>1. FilesTypeOK'
    BY <1>a, <1>b, <1>p, <1>d
       DEF RemoveCandidate, FilesTypeOK, rootVars, buildRootVars, fileVars, recordVars
  <1>2. DiskIsSound'
    <2>1. \A c \in Builds : dir'[c] \in dirMay'[c]
      <3>1. ASSUME NEW c \in Builds  PROVE dir'[c] \in dirMay'[c]
        <4>1. CASE c = b
          BY <4>1, <1>d
        <4>2. CASE c # b
          BY <4>2, <1>d DEF DiskIsSound
        <4> QED
          BY <4>1, <4>2
      <3> QED
        BY <3>1
    <2>2. UNCHANGED <<rootVars, fileVars>>
      BY DEF RemoveCandidate
    <2> QED
      BY <2>1, <2>2 DEF DiskIsSound, rootVars, fileVars
  <1>3. WritersAreSound'
    <2>1. WriterIsSound(b)'
      BY <1>a, <1>b, <1>p, <1>d, NoneAssumption
         DEF RemoveCandidate, Working, WriterIsSound, FilesTypeOK, rootVars,
             buildRootVars, fileVars, recordVars
    <2>2. ASSUME NEW c \in Builds, Active(c)', c # b
          PROVE  /\ Active(c) /\ WriterIsSound(c)
                 /\ build[c].pack \in PackIds /\ build[c].pack # build[b].pack
      BY <2>2, <1>b, <1>p DEF WritersAreSound
    <2> DEFINE B == {b}
    <2>3. \A c \in Builds : Active(c)' =>
             /\ Active(c) /\ build'[c].pack = build[c].pack
             /\ IF c \in B THEN WriterIsSound(c)' ELSE Undisturbed(c)
      BY <2>1, <2>2, <1>a, <1>b, <1>p, <1>d
         DEF RemoveCandidate, Undisturbed, WriterIsSound, FilesTypeOK, rootVars,
             buildRootVars, fileVars, recordVars
    <2> HIDE DEF B
    <2> QED
      BY <2>3, WritersKept
  <1>4. CleanupsAreSound'
    <2>1. \A c \in cleaned : c \in Builds /\ dirMay'[c] = {FALSE} /\ build'[c] # Unused
      <3>1. ASSUME NEW c \in cleaned
            PROVE  c \in Builds /\ dirMay'[c] = {FALSE} /\ build'[c] # Unused
        <4>1. c \in Builds /\ dirMay[c] = {FALSE} /\ build[c] # Unused
          BY DEF FilesTypeOK, CleanupsAreSound
        <4>2. CASE c = b
          BY <4>1, <4>2, <1>b, <1>d
        <4>3. CASE c # b
          BY <4>1, <4>3, <1>b, <1>d
        <4> QED
          BY <4>2, <4>3
      <3> QED
        BY <3>1
    <2>2. cleaned' = cleaned /\ cleaner' = cleaner
      BY DEF RemoveCandidate
    <2> QED
      BY <1>a, <2>1, <2>2 DEF CleanupsAreSound
  <1>5. RemovalsAreSound'
    BY <1>a, <1>b, <1>p, <1>d
       DEF RemoveCandidate, FilesTypeOK, DiskIsSound, RemovalsAreSound, rootVars,
           buildRootVars, fileVars, recordVars
  <1>6. RecordedPacksLast'
    BY <1>a, <1>b, <1>p, <1>d
       DEF RemoveCandidate, FilesTypeOK, DiskIsSound, RecordedPacksLast, rootVars,
           buildRootVars, fileVars, recordVars
  <1> QED
    BY <1>1, <1>2, <1>3, <1>4, <1>5, <1>6

\* A durable file is recorded.
LEMMA RecordStep ==
    ASSUME FilesInv, NEW b \in Builds, Record(b)
    PROVE  FilesInv'
  <1> USE DEF FilesInv
  <1>a. /\ Active(b) /\ build[b] \in [pc : WriterPhases, pack : PackIds]
        /\ WriterIsSound(b) /\ cleaner = AtRest
    BY WriterShape DEF Record, Working, WritersAreSound, WriterIsSound
  <1>b. /\ build' \in [Builds -> Writers]
        /\ ~Active(b)'
        /\ \A c \in Builds : c # b => build'[c] = build[c]
        /\ \A c \in Builds : Active(c)' => Active(c) /\ c # b
        /\ \A c \in Builds : build'[c] = Unused <=> build[c] = Unused
    BY <1>a, EndShape DEF Record
  <1>p. /\ build[b].pack \in PackIds
        /\ \A c \in Builds : Active(c) => build[c].pack \in PackIds
        /\ \A c \in Builds : Active(c) /\ c # b => build[c].pack # build[b].pack
    BY <1>a, WriterShape DEF WritersAreSound, PacksAreOwned
  <1>w. build[b].pc = "published" /\ stored[name[build[b].pack]] = "whole"
        /\ name[build[b].pack] \in Builds /\ nameMay[build[b].pack] = {name[build[b].pack]}
    BY <1>a, <1>p DEF Record, Working, WriterIsSound, DiskIsSound, FilesTypeOK, Files
  <1>f. finisher # AtRest => finisher.pack \in PackIds /\ recorded[finisher.pack] = "reclaimed"
    BY FinisherShape
  <1>1. FilesTypeOK'
    BY <1>a, <1>b, <1>p, <1>w, <1>f
       DEF Record, FilesTypeOK, rootVars, buildRootVars, fileVars, recordVars
  <1>2. DiskIsSound'
    BY <1>a, <1>b, <1>p, <1>w, <1>f
       DEF Record, FilesTypeOK, DiskIsSound, rootVars, buildRootVars, fileVars,
           recordVars
  <1>3. WritersAreSound'
    <2>1. ASSUME NEW c \in Builds, Active(c)'
          PROVE  /\ Active(c) /\ WriterIsSound(c) /\ c # b
                 /\ build[c].pack \in PackIds /\ build[c].pack # build[b].pack
      BY <2>1, <1>b, <1>p DEF WritersAreSound
    <2> DEFINE B == {}
    <2>2. \A c \in Builds : Active(c)' =>
             /\ Active(c) /\ build'[c].pack = build[c].pack
             /\ IF c \in B THEN WriterIsSound(c)' ELSE Undisturbed(c)
      BY <2>1, <1>a, <1>b, <1>p, <1>w, <1>f
         DEF Record, Undisturbed, WriterIsSound, FilesTypeOK, rootVars, buildRootVars,
             fileVars, recordVars
    <2> HIDE DEF B
    <2> QED
      BY <2>2, WritersKept
  <1>4. CleanupsAreSound'
    BY <1>a, <1>b, <1>p, <1>w, <1>f
       DEF Record, FilesTypeOK, CleanupsAreSound, rootVars, buildRootVars, fileVars,
           recordVars
  <1>5. RemovalsAreSound'
    BY <1>a, <1>b, <1>p, <1>w, <1>f
       DEF Record, FilesTypeOK, DiskIsSound, RemovalsAreSound, rootVars, buildRootVars,
           fileVars, recordVars
  <1>6. RecordedPacksLast'
    BY <1>a, <1>b, <1>p, <1>w, <1>f
       DEF Record, FilesTypeOK, DiskIsSound, RecordedPacksLast, rootVars,
           buildRootVars, fileVars, recordVars
  <1> QED
    BY <1>1, <1>2, <1>3, <1>4, <1>5, <1>6

\* A build fails.
LEMMA FailBuildStep ==
    ASSUME FilesInv, NEW b \in Builds, FailBuild(b)
    PROVE  FilesInv'
  <1> USE DEF FilesInv
  <1>a. /\ Active(b) /\ build[b] \in [pc : WriterPhases, pack : PackIds]
        /\ WriterIsSound(b) /\ cleaner = AtRest
    BY WriterShape DEF FailBuild, Working, WritersAreSound, WriterIsSound
  <1>b. /\ build' \in [Builds -> Writers]
        /\ ~Active(b)'
        /\ \A c \in Builds : c # b => build'[c] = build[c]
        /\ \A c \in Builds : Active(c)' => Active(c) /\ c # b
        /\ \A c \in Builds : build'[c] = Unused <=> build[c] = Unused
    BY <1>a, EndShape DEF FailBuild
  <1>p. /\ build[b].pack \in PackIds
        /\ \A c \in Builds : Active(c) => build[c].pack \in PackIds
        /\ \A c \in Builds : Active(c) /\ c # b => build[c].pack # build[b].pack
    BY <1>a, WriterShape DEF WritersAreSound, PacksAreOwned
  <1>d. /\ dir' \in [Builds -> BOOLEAN] /\ dirMay' \in [Builds -> SUBSET BOOLEAN]
        /\ dir'[b] = FALSE /\ dirMay'[b] \in {dirMay[b], dirMay[b] \cup {FALSE}}
        /\ \A c \in Builds : c # b => dir'[c] = dir[c] /\ dirMay'[c] = dirMay[c]
        /\ dir[b] = FALSE => dirMay'[b] = dirMay[b]
    <2>1. CASE dir[b]
      BY <2>1, DirShape DEF FailBuild
    <2>2. CASE ~dir[b]
      BY <2>2 DEF FailBuild, buildRootVars, FilesTypeOK
    <2> QED
      BY <2>1, <2>2
  <1>1. FilesTypeOK'
    BY <1>a, <1>b, <1>p, <1>d
       DEF FailBuild, FilesTypeOK, rootVars, buildRootVars, fileVars, recordVars
  <1>2. DiskIsSound'
    <2>1. \A c \in Builds : dir'[c] \in dirMay'[c]
      <3>1. ASSUME NEW c \in Builds  PROVE dir'[c] \in dirMay'[c]
        <4>1. CASE c = b /\ dir[b] = FALSE
          BY <4>1, <1>d DEF DiskIsSound
        <4>2. CASE c = b /\ dir[b] # FALSE
          <5>1. SetDir(b, FALSE)
            BY <4>2 DEF FailBuild, FilesTypeOK
          <5> QED
            BY <4>2, <5>1, DirShape
        <4>3. CASE c # b
          BY <4>3, <1>d DEF DiskIsSound
        <4> QED
          BY <4>1, <4>2, <4>3
      <3> QED
        BY <3>1
    <2>2. UNCHANGED <<rootVars, fileVars>>
      BY DEF FailBuild
    <2> QED
      BY <2>1, <2>2 DEF DiskIsSound, rootVars, fileVars
  <1>3. WritersAreSound'
    <2>1. ASSUME NEW c \in Builds, Active(c)'
          PROVE  /\ Active(c) /\ WriterIsSound(c) /\ c # b
                 /\ build[c].pack \in PackIds /\ build[c].pack # build[b].pack
      BY <2>1, <1>b, <1>p DEF WritersAreSound
    <2> DEFINE B == {}
    <2>2. \A c \in Builds : Active(c)' =>
             /\ Active(c) /\ build'[c].pack = build[c].pack
             /\ IF c \in B THEN WriterIsSound(c)' ELSE Undisturbed(c)
      BY <2>1, <1>a, <1>b, <1>p, <1>d
         DEF FailBuild, Undisturbed, WriterIsSound, FilesTypeOK, rootVars,
             buildRootVars, fileVars, recordVars
    <2> HIDE DEF B
    <2> QED
      BY <2>2, WritersKept
  <1>4. CleanupsAreSound'
    <2>1. \A c \in cleaned : c \in Builds /\ dirMay'[c] = {FALSE} /\ build'[c] # Unused
      <3>1. ASSUME NEW c \in cleaned
            PROVE  c \in Builds /\ dirMay'[c] = {FALSE} /\ build'[c] # Unused
        <4>1. c \in Builds /\ dirMay[c] = {FALSE} /\ build[c] # Unused
          BY DEF FilesTypeOK, CleanupsAreSound
        <4>2. CASE c = b
          BY <4>1, <4>2, <1>b, <1>d
        <4>3. CASE c # b
          BY <4>1, <4>3, <1>b, <1>d
        <4> QED
          BY <4>2, <4>3
      <3> QED
        BY <3>1
    <2>2. cleaned' = cleaned /\ cleaner' = cleaner
      BY DEF FailBuild
    <2> QED
      BY <1>a, <2>1, <2>2 DEF CleanupsAreSound
  <1>5. RemovalsAreSound'
    BY <1>a, <1>b, <1>p, <1>d
       DEF FailBuild, FilesTypeOK, DiskIsSound, RemovalsAreSound, rootVars,
           buildRootVars, fileVars, recordVars
  <1>6. RecordedPacksLast'
    BY <1>a, <1>b, <1>p, <1>d
       DEF FailBuild, FilesTypeOK, DiskIsSound, RecordedPacksLast, rootVars,
           buildRootVars, fileVars, recordVars
  <1> QED
    BY <1>1, <1>2, <1>3, <1>4, <1>5, <1>6

\* A build is killed.
LEMMA KillBuildStep ==
    ASSUME FilesInv, NEW b \in Builds, KillBuild(b)
    PROVE  FilesInv'
  <1> USE DEF FilesInv
  <1>a. /\ Active(b) /\ build[b] \in [pc : WriterPhases, pack : PackIds]
        /\ WriterIsSound(b) /\ cleaner = AtRest
    BY WriterShape DEF KillBuild, Working, WritersAreSound, WriterIsSound
  <1>b. /\ build' \in [Builds -> Writers]
        /\ ~Active(b)'
        /\ \A c \in Builds : c # b => build'[c] = build[c]
        /\ \A c \in Builds : Active(c)' => Active(c) /\ c # b
        /\ \A c \in Builds : build'[c] = Unused <=> build[c] = Unused
    BY <1>a, EndShape DEF KillBuild
  <1>p. /\ build[b].pack \in PackIds
        /\ \A c \in Builds : Active(c) => build[c].pack \in PackIds
        /\ \A c \in Builds : Active(c) /\ c # b => build[c].pack # build[b].pack
    BY <1>a, WriterShape DEF WritersAreSound, PacksAreOwned
  <1>1. FilesTypeOK'
    BY <1>a, <1>b, <1>p
       DEF KillBuild, FilesTypeOK, rootVars, buildRootVars, fileVars, recordVars
  <1>2. DiskIsSound'
    BY <1>a, <1>b, <1>p
       DEF KillBuild, FilesTypeOK, DiskIsSound, rootVars, buildRootVars, fileVars,
           recordVars
  <1>3. WritersAreSound'
    <2>1. ASSUME NEW c \in Builds, Active(c)'
          PROVE  /\ Active(c) /\ WriterIsSound(c) /\ c # b
                 /\ build[c].pack \in PackIds /\ build[c].pack # build[b].pack
      BY <2>1, <1>b, <1>p DEF WritersAreSound
    <2> DEFINE B == {}
    <2>2. \A c \in Builds : Active(c)' =>
             /\ Active(c) /\ build'[c].pack = build[c].pack
             /\ IF c \in B THEN WriterIsSound(c)' ELSE Undisturbed(c)
      BY <2>1, <1>a, <1>b, <1>p
         DEF KillBuild, Undisturbed, WriterIsSound, FilesTypeOK, rootVars,
             buildRootVars, fileVars, recordVars
    <2> HIDE DEF B
    <2> QED
      BY <2>2, WritersKept
  <1>4. CleanupsAreSound'
    BY <1>a, <1>b, <1>p
       DEF KillBuild, FilesTypeOK, CleanupsAreSound, rootVars, buildRootVars, fileVars,
           recordVars
  <1>5. RemovalsAreSound'
    BY <1>a, <1>b, <1>p
       DEF KillBuild, FilesTypeOK, DiskIsSound, RemovalsAreSound, rootVars,
           buildRootVars, fileVars, recordVars
  <1>6. RecordedPacksLast'
    BY <1>a, <1>b, <1>p
       DEF KillBuild, FilesTypeOK, DiskIsSound, RecordedPacksLast, rootVars,
           buildRootVars, fileVars, recordVars
  <1> QED
    BY <1>1, <1>2, <1>3, <1>4, <1>5, <1>6

\* A cleanup begins.
LEMMA StartCleanupStep ==
    ASSUME FilesInv, NEW b \in Builds, StartCleanup(b)
    PROVE  FilesInv'
  <1> USE DEF FilesInv
  <1>c. cleaner' \in Cleaners /\ cleaner' # AtRest /\ cleaner'.nonce = b
        /\ cleaner'.pc = (IF dir[b] THEN "remove" ELSE "sync")
    BY DEF StartCleanup, Cleaners, AtRest
  <1>1. FilesTypeOK'
    BY <1>c
       DEF StartCleanup, FilesTypeOK, rootVars, buildRootVars, fileVars, recordVars
  <1>2. DiskIsSound'
    BY <1>c
       DEF StartCleanup, FilesTypeOK, DiskIsSound, rootVars, buildRootVars, fileVars,
           recordVars
  <1>3. WritersAreSound'
    <2>1. ASSUME NEW c \in Builds, Active(c)'
          PROVE  Active(c) /\ WriterIsSound(c) /\ build[c].pack \in PackIds
      BY <2>1, WriterShape DEF StartCleanup, Active, WritersAreSound
    <2> DEFINE B == {}
    <2>2. \A c \in Builds : Active(c)' =>
             /\ Active(c) /\ build'[c].pack = build[c].pack
             /\ IF c \in B THEN WriterIsSound(c)' ELSE Undisturbed(c)
      BY <2>1, <1>c
         DEF StartCleanup, Undisturbed, WriterIsSound, FilesTypeOK, rootVars,
             buildRootVars, fileVars, recordVars
    <2> HIDE DEF B
    <2> QED
      BY <2>2, WritersKept
  <1>4. CleanupsAreSound'
    BY <1>c
       DEF StartCleanup, FilesTypeOK, CleanupsAreSound, rootVars, buildRootVars,
           fileVars, recordVars
  <1>5. RemovalsAreSound'
    BY <1>c
       DEF StartCleanup, FilesTypeOK, DiskIsSound, RemovalsAreSound, rootVars,
           buildRootVars, fileVars, recordVars
  <1>6. RecordedPacksLast'
    BY <1>c
       DEF StartCleanup, FilesTypeOK, DiskIsSound, RecordedPacksLast, rootVars,
           buildRootVars, fileVars, recordVars
  <1> QED
    BY <1>1, <1>2, <1>3, <1>4, <1>5, <1>6

\* A cleanup removes a directory.
LEMMA RemoveBuildStep ==
    ASSUME FilesInv, RemoveBuild
    PROVE  FilesInv'
  <1> USE DEF FilesInv
  <1>c. cleaner # AtRest /\ cleaner.nonce \in Builds
    BY CleanerShape DEF RemoveBuild
  <1>z. \A c \in Builds : ~Active(c)
    BY <1>c DEF WritersAreSound, WriterIsSound
  <1>e. cleaner' \in Cleaners /\ cleaner' # AtRest /\ cleaner'.nonce = cleaner.nonce
    BY CleanerShape DEF RemoveBuild
  <1>d. /\ dir' \in [Builds -> BOOLEAN] /\ dirMay' \in [Builds -> SUBSET BOOLEAN]
        /\ dir'[cleaner.nonce] = FALSE /\ dirMay'[cleaner.nonce] = dirMay[cleaner.nonce] \cup {FALSE}
        /\ \A c \in Builds : c # cleaner.nonce => dir'[c] = dir[c] /\ dirMay'[c] = dirMay[c]
    BY <1>c, DirShape DEF RemoveBuild
  <1>1. FilesTypeOK'
    BY <1>c, <1>z, <1>e, <1>d
       DEF RemoveBuild, FilesTypeOK, rootVars, buildRootVars, fileVars, recordVars
  <1>2. DiskIsSound'
    BY <1>c, <1>z, <1>e, <1>d
       DEF RemoveBuild, FilesTypeOK, DiskIsSound, rootVars, buildRootVars, fileVars,
           recordVars
  <1>3. WritersAreSound'
    <2>1. ASSUME NEW c \in Builds, Active(c)'
          PROVE  Active(c) /\ WriterIsSound(c) /\ build[c].pack \in PackIds
      BY <2>1, WriterShape DEF RemoveBuild, Active, WritersAreSound
    <2> DEFINE B == {}
    <2>2. \A c \in Builds : Active(c)' =>
             /\ Active(c) /\ build'[c].pack = build[c].pack
             /\ IF c \in B THEN WriterIsSound(c)' ELSE Undisturbed(c)
      BY <2>1, <1>c, <1>z, <1>e, <1>d
         DEF RemoveBuild, Undisturbed, WriterIsSound, FilesTypeOK, rootVars,
             buildRootVars, fileVars, recordVars
    <2> HIDE DEF B
    <2> QED
      BY <2>2, WritersKept
  <1>4. CleanupsAreSound'
    BY <1>c, <1>z, <1>e, <1>d
       DEF RemoveBuild, FilesTypeOK, CleanupsAreSound, rootVars, buildRootVars,
           fileVars, recordVars
  <1>5. RemovalsAreSound'
    BY <1>c, <1>z, <1>e, <1>d
       DEF RemoveBuild, FilesTypeOK, DiskIsSound, RemovalsAreSound, rootVars,
           buildRootVars, fileVars, recordVars
  <1>6. RecordedPacksLast'
    BY <1>c, <1>z, <1>e, <1>d
       DEF RemoveBuild, FilesTypeOK, DiskIsSound, RecordedPacksLast, rootVars,
           buildRootVars, fileVars, recordVars
  <1> QED
    BY <1>1, <1>2, <1>3, <1>4, <1>5, <1>6

\* A cleanup is made durable.
LEMMA SyncBuildsStep ==
    ASSUME FilesInv, SyncBuilds
    PROVE  FilesInv'
  <1> USE DEF FilesInv
  <1>c. cleaner # AtRest /\ cleaner.nonce \in Builds
    BY CleanerShape DEF SyncBuilds
  <1>z. \A c \in Builds : ~Active(c)
    BY <1>c DEF WritersAreSound, WriterIsSound
  <1>e. cleaner' = AtRest /\ cleaner' \in Cleaners
    BY DEF SyncBuilds, Cleaners
  <1>d. /\ dir' = dir /\ dirMay' \in [Builds -> SUBSET BOOLEAN]
        /\ \A c \in Builds : dirMay'[c] = {dir[c]}
    BY DEF SyncBuilds, SyncDirs, FilesTypeOK
  <1>1. FilesTypeOK'
    BY <1>c, <1>z, <1>e, <1>d
       DEF SyncBuilds, FilesTypeOK, rootVars, buildRootVars, fileVars, recordVars
  <1>2. DiskIsSound'
    BY <1>c, <1>z, <1>e, <1>d
       DEF SyncBuilds, FilesTypeOK, DiskIsSound, rootVars, buildRootVars, fileVars,
           recordVars
  <1>3. WritersAreSound'
    <2>1. ASSUME NEW c \in Builds, Active(c)'
          PROVE  Active(c) /\ WriterIsSound(c) /\ build[c].pack \in PackIds
      BY <2>1, WriterShape DEF SyncBuilds, Active, WritersAreSound
    <2> DEFINE B == {}
    <2>2. \A c \in Builds : Active(c)' =>
             /\ Active(c) /\ build'[c].pack = build[c].pack
             /\ IF c \in B THEN WriterIsSound(c)' ELSE Undisturbed(c)
      BY <2>1, <1>c, <1>z, <1>e, <1>d
         DEF SyncBuilds, Undisturbed, WriterIsSound, FilesTypeOK, rootVars,
             buildRootVars, fileVars, recordVars
    <2> HIDE DEF B
    <2> QED
      BY <2>2, WritersKept
  <1>4. CleanupsAreSound'
    <2>1. ASSUME NEW c \in cleaned'
          PROVE  dirMay'[c] = {FALSE} /\ build'[c] # Unused
      <3>1. c = cleaner.nonce \/ c \in cleaned
        BY <2>1 DEF SyncBuilds
      <3>2. CASE c = cleaner.nonce
        <4>1. dir[c] = FALSE /\ build[c] # Unused
          BY <1>c, <3>2 DEF SyncBuilds, CleanupsAreSound
        <4> QED
          BY <1>c, <1>d, <3>2, <4>1 DEF SyncBuilds
      <3>3. CASE c \in cleaned
        <4>1. c \in Builds /\ dirMay[c] = {FALSE} /\ build[c] # Unused
          BY <3>3 DEF FilesTypeOK, CleanupsAreSound
        <4>2. dir[c] = FALSE
          BY <4>1 DEF DiskIsSound
        <4> QED
          BY <1>d, <4>1, <4>2 DEF SyncBuilds
      <3> QED
        BY <3>1, <3>2, <3>3
    <2> QED
      BY <1>e, <2>1 DEF CleanupsAreSound
  <1>5. RemovalsAreSound'
    BY <1>c, <1>z, <1>e, <1>d
       DEF SyncBuilds, FilesTypeOK, DiskIsSound, RemovalsAreSound, rootVars,
           buildRootVars, fileVars, recordVars
  <1>6. RecordedPacksLast'
    BY <1>c, <1>z, <1>e, <1>d
       DEF SyncBuilds, FilesTypeOK, DiskIsSound, RecordedPacksLast, rootVars,
           buildRootVars, fileVars, recordVars
  <1> QED
    BY <1>1, <1>2, <1>3, <1>4, <1>5, <1>6

\* A cleanup stops.
LEMMA StopCleanupStep ==
    ASSUME FilesInv, StopCleanup
    PROVE  FilesInv'
  <1> USE DEF FilesInv
  <1>e. cleaner' = AtRest /\ cleaner' \in Cleaners
    BY DEF StopCleanup, Cleaners
  <1>z. \A c \in Builds : ~Active(c)
    BY DEF StopCleanup, WritersAreSound, WriterIsSound
  <1>1. FilesTypeOK'
    BY <1>e, <1>z
       DEF StopCleanup, FilesTypeOK, rootVars, buildRootVars, fileVars, recordVars
  <1>2. DiskIsSound'
    BY <1>e, <1>z
       DEF StopCleanup, FilesTypeOK, DiskIsSound, rootVars, buildRootVars, fileVars,
           recordVars
  <1>3. WritersAreSound'
    <2>1. ASSUME NEW c \in Builds, Active(c)'
          PROVE  Active(c) /\ WriterIsSound(c) /\ build[c].pack \in PackIds
      BY <2>1, WriterShape DEF StopCleanup, Active, WritersAreSound
    <2> DEFINE B == {}
    <2>2. \A c \in Builds : Active(c)' =>
             /\ Active(c) /\ build'[c].pack = build[c].pack
             /\ IF c \in B THEN WriterIsSound(c)' ELSE Undisturbed(c)
      BY <2>1, <1>e, <1>z
         DEF StopCleanup, Undisturbed, WriterIsSound, FilesTypeOK, rootVars,
             buildRootVars, fileVars, recordVars
    <2> HIDE DEF B
    <2> QED
      BY <2>2, WritersKept
  <1>4. CleanupsAreSound'
    BY <1>e, <1>z
       DEF StopCleanup, FilesTypeOK, CleanupsAreSound, rootVars, buildRootVars,
           fileVars, recordVars
  <1>5. RemovalsAreSound'
    BY <1>e, <1>z
       DEF StopCleanup, FilesTypeOK, DiskIsSound, RemovalsAreSound, rootVars,
           buildRootVars, fileVars, recordVars
  <1>6. RecordedPacksLast'
    BY <1>e, <1>z
       DEF StopCleanup, FilesTypeOK, DiskIsSound, RecordedPacksLast, rootVars,
           buildRootVars, fileVars, recordVars
  <1> QED
    BY <1>1, <1>2, <1>3, <1>4, <1>5, <1>6

\* A pack may be removed.
LEMMA PermitRemovalStep ==
    ASSUME FilesInv, NEW p \in PackIds, PermitRemoval(p)
    PROVE  FilesInv'
  <1> USE DEF FilesInv
  <1>f. /\ finisher' # AtRest /\ finisher' \in Finishers
        /\ finisher'.pc = "unlink" /\ finisher'.pack = p
    BY DEF PermitRemoval, Finishers, AtRest
  <1>1. FilesTypeOK'
    BY <1>f
       DEF PermitRemoval, FilesTypeOK, rootVars, buildRootVars, fileVars, recordVars
  <1>2. DiskIsSound'
    BY <1>f
       DEF PermitRemoval, FilesTypeOK, DiskIsSound, rootVars, buildRootVars, fileVars,
           recordVars
  <1>3. WritersAreSound'
    <2>1. ASSUME NEW c \in Builds, Active(c)'
          PROVE  Active(c) /\ WriterIsSound(c) /\ build[c].pack \in PackIds
      BY <2>1, WriterShape DEF PermitRemoval, Active, WritersAreSound
    <2> DEFINE B == {}
    <2>2. \A c \in Builds : Active(c)' =>
             /\ Active(c) /\ build'[c].pack = build[c].pack
             /\ IF c \in B THEN WriterIsSound(c)' ELSE Undisturbed(c)
      BY <2>1, <1>f
         DEF PermitRemoval, Undisturbed, WriterIsSound, FilesTypeOK, rootVars,
             buildRootVars, fileVars, recordVars
    <2> HIDE DEF B
    <2> QED
      BY <2>2, WritersKept
  <1>4. CleanupsAreSound'
    BY <1>f
       DEF PermitRemoval, FilesTypeOK, CleanupsAreSound, rootVars, buildRootVars,
           fileVars, recordVars
  <1>5. RemovalsAreSound'
    BY <1>f
       DEF PermitRemoval, FilesTypeOK, DiskIsSound, RemovalsAreSound, rootVars,
           buildRootVars, fileVars, recordVars
  <1>6. RecordedPacksLast'
    BY <1>f
       DEF PermitRemoval, FilesTypeOK, DiskIsSound, RecordedPacksLast, rootVars,
           buildRootVars, fileVars, recordVars
  <1> QED
    BY <1>1, <1>2, <1>3, <1>4, <1>5, <1>6

\* A name is removed.
LEMMA RemoveNameStep ==
    ASSUME FilesInv, RemoveName
    PROVE  FilesInv'
  <1> USE DEF FilesInv
  <1>f. /\ finisher # AtRest /\ finisher.pack \in PackIds /\ recorded[finisher.pack] = "reclaimed"
        /\ finisher' # AtRest /\ finisher' \in Finishers
        /\ finisher'.pc = "sync" /\ finisher'.pack = finisher.pack
    BY FinisherShape DEF RemoveName
  <1>n. /\ name' \in [PackIds -> Files] /\ nameMay' \in [PackIds -> SUBSET Files]
        /\ name'[finisher.pack] = None
        /\ nameMay'[finisher.pack] = nameMay[finisher.pack] \cup {None}
        /\ \A q \in PackIds : q # finisher.pack => name'[q] = name[q] /\ nameMay'[q] = nameMay[q]
    <2>1. CASE SetName(finisher.pack, None)
      BY <2>1, <1>f, NameShape DEF Files
    <2>2. CASE name[finisher.pack] = None /\ UNCHANGED rootVars
      BY <2>2, <1>f DEF rootVars, FilesTypeOK, DiskIsSound
    <2> QED
      BY <2>1, <2>2 DEF RemoveName
  <1>v. UNCHANGED <<buildRootVars, fileVars>>
    BY DEF RemoveName
  <1>1. FilesTypeOK'
    BY <1>f, <1>n, <1>v
       DEF RemoveName, FilesTypeOK, rootVars, buildRootVars, fileVars, recordVars
  <1>2. DiskIsSound'
    <2>1. \A p \in PackIds : name'[p] \in nameMay'[p]
      BY <1>f, <1>n DEF DiskIsSound
    <2>2. \A p \in PackIds, b \in Builds : b \in nameMay'[p] => b \in nameMay[p]
      <3>1. ASSUME NEW p \in PackIds, NEW b \in Builds, b \in nameMay'[p]
            PROVE  b \in nameMay[p]
        <4>1. b # None
          BY NoneAssumption
        <4> QED
          BY <1>f, <1>n, <3>1, <4>1
      <3> QED
        BY <3>1
    <2> QED
      BY <1>v, <2>1, <2>2 DEF DiskIsSound, buildRootVars, fileVars
  <1>3. WritersAreSound'
    <2>1. ASSUME NEW c \in Builds, Active(c)'
          PROVE  Active(c) /\ WriterIsSound(c) /\ build[c].pack \in PackIds
      BY <2>1, WriterShape DEF RemoveName, Active, WritersAreSound
    <2> DEFINE B == {}
    <2>2. \A c \in Builds : Active(c)' =>
             /\ Active(c) /\ build'[c].pack = build[c].pack
             /\ IF c \in B THEN WriterIsSound(c)' ELSE Undisturbed(c)
      BY <2>1, <1>f, <1>n, <1>v
         DEF RemoveName, Undisturbed, WriterIsSound, FilesTypeOK, rootVars, buildRootVars,
             fileVars, recordVars
    <2> HIDE DEF B
    <2> QED
      BY <2>2, WritersKept
  <1>4. CleanupsAreSound'
    BY <1>f, <1>n, <1>v
       DEF RemoveName, FilesTypeOK, CleanupsAreSound, rootVars, buildRootVars, fileVars,
           recordVars
  <1>5. RemovalsAreSound'
    BY <1>f, <1>n, <1>v
       DEF RemoveName, FilesTypeOK, DiskIsSound, RemovalsAreSound, rootVars, buildRootVars,
           fileVars, recordVars
  <1>6. RecordedPacksLast'
    BY <1>f, <1>n, <1>v
       DEF RemoveName, FilesTypeOK, DiskIsSound, RecordedPacksLast, rootVars,
           buildRootVars, fileVars, recordVars
  <1> QED
    BY <1>1, <1>2, <1>3, <1>4, <1>5, <1>6

\* The removal of a name is made durable.
LEMMA SyncRemovalStep ==
    ASSUME FilesInv, SyncRemoval
    PROVE  FilesInv'
  <1> USE DEF FilesInv
  <1>f. /\ finisher # AtRest /\ finisher.pack \in PackIds /\ recorded[finisher.pack] = "reclaimed"
        /\ finisher' # AtRest /\ finisher' \in Finishers
        /\ finisher'.pc = "receipt" /\ finisher'.pack = finisher.pack
    BY FinisherShape DEF SyncRemoval
  <1>s. /\ name' = name /\ nameMay' \in [PackIds -> SUBSET Files]
        /\ \A q \in PackIds : nameMay'[q] = {name[q]}
    BY SyncShape DEF SyncRemoval
  <1>1. FilesTypeOK'
    BY <1>f, <1>s
       DEF SyncRemoval, FilesTypeOK, rootVars, buildRootVars, fileVars, recordVars
  <1>2. DiskIsSound'
    BY <1>f, <1>s
       DEF SyncRemoval, FilesTypeOK, DiskIsSound, rootVars, buildRootVars, fileVars,
           recordVars
  <1>3. WritersAreSound'
    <2>1. ASSUME NEW c \in Builds, Active(c)'
          PROVE  Active(c) /\ WriterIsSound(c) /\ build[c].pack \in PackIds
      BY <2>1, WriterShape DEF SyncRemoval, Active, WritersAreSound
    <2> DEFINE B == {}
    <2>2. \A c \in Builds : Active(c)' =>
             /\ Active(c) /\ build'[c].pack = build[c].pack
             /\ IF c \in B THEN WriterIsSound(c)' ELSE Undisturbed(c)
      BY <2>1, <1>f, <1>s
         DEF SyncRemoval, Undisturbed, WriterIsSound, FilesTypeOK, rootVars,
             buildRootVars, fileVars, recordVars
    <2> HIDE DEF B
    <2> QED
      BY <2>2, WritersKept
  <1>4. CleanupsAreSound'
    BY <1>f, <1>s
       DEF SyncRemoval, FilesTypeOK, CleanupsAreSound, rootVars, buildRootVars,
           fileVars, recordVars
  <1>5. RemovalsAreSound'
    BY <1>f, <1>s
       DEF SyncRemoval, FilesTypeOK, DiskIsSound, RemovalsAreSound, rootVars,
           buildRootVars, fileVars, recordVars
  <1>6. RecordedPacksLast'
    BY <1>f, <1>s
       DEF SyncRemoval, FilesTypeOK, DiskIsSound, RecordedPacksLast, rootVars,
           buildRootVars, fileVars, recordVars
  <1> QED
    BY <1>1, <1>2, <1>3, <1>4, <1>5, <1>6

\* A removal is accounted for.
LEMMA AccountRemovalStep ==
    ASSUME FilesInv, AccountRemoval
    PROVE  FilesInv'
  <1> USE DEF FilesInv
  <1>f. /\ finisher # AtRest /\ finisher.pack \in PackIds /\ recorded[finisher.pack] = "reclaimed"
        /\ finisher' = AtRest /\ finisher' \in Finishers
    BY FinisherShape DEF AccountRemoval, Finishers
  <1>1. FilesTypeOK'
    BY <1>f
       DEF AccountRemoval, FilesTypeOK, rootVars, buildRootVars, fileVars, recordVars
  <1>2. DiskIsSound'
    BY <1>f
       DEF AccountRemoval, FilesTypeOK, DiskIsSound, rootVars, buildRootVars, fileVars,
           recordVars
  <1>3. WritersAreSound'
    <2>1. ASSUME NEW c \in Builds, Active(c)'
          PROVE  Active(c) /\ WriterIsSound(c) /\ build[c].pack \in PackIds
      BY <2>1, WriterShape DEF AccountRemoval, Active, WritersAreSound
    <2> DEFINE B == {}
    <2>2. \A c \in Builds : Active(c)' =>
             /\ Active(c) /\ build'[c].pack = build[c].pack
             /\ IF c \in B THEN WriterIsSound(c)' ELSE Undisturbed(c)
      BY <2>1, <1>f
         DEF AccountRemoval, Undisturbed, WriterIsSound, FilesTypeOK, rootVars,
             buildRootVars, fileVars, recordVars
    <2> HIDE DEF B
    <2> QED
      BY <2>2, WritersKept
  <1>4. CleanupsAreSound'
    BY <1>f
       DEF AccountRemoval, FilesTypeOK, CleanupsAreSound, rootVars, buildRootVars,
           fileVars, recordVars
  <1>5. RemovalsAreSound'
    BY <1>f
       DEF AccountRemoval, FilesTypeOK, DiskIsSound, RemovalsAreSound, rootVars,
           buildRootVars, fileVars, recordVars
  <1>6. RecordedPacksLast'
    BY <1>f
       DEF AccountRemoval, FilesTypeOK, DiskIsSound, RecordedPacksLast, rootVars,
           buildRootVars, fileVars, recordVars
  <1> QED
    BY <1>1, <1>2, <1>3, <1>4, <1>5, <1>6

\* A removal stops.
LEMMA StopRemovalStep ==
    ASSUME FilesInv, StopRemoval
    PROVE  FilesInv'
  <1> USE DEF FilesInv
  <1>f. finisher' = AtRest /\ finisher' \in Finishers
    BY DEF StopRemoval, Finishers
  <1>1. FilesTypeOK'
    BY <1>f DEF StopRemoval, FilesTypeOK, rootVars, buildRootVars, fileVars, recordVars
  <1>2. DiskIsSound'
    BY <1>f
       DEF StopRemoval, FilesTypeOK, DiskIsSound, rootVars, buildRootVars, fileVars,
           recordVars
  <1>3. WritersAreSound'
    <2>1. ASSUME NEW c \in Builds, Active(c)'
          PROVE  Active(c) /\ WriterIsSound(c) /\ build[c].pack \in PackIds
      BY <2>1, WriterShape DEF StopRemoval, Active, WritersAreSound
    <2> DEFINE B == {}
    <2>2. \A c \in Builds : Active(c)' =>
             /\ Active(c) /\ build'[c].pack = build[c].pack
             /\ IF c \in B THEN WriterIsSound(c)' ELSE Undisturbed(c)
      BY <2>1, <1>f
         DEF StopRemoval, Undisturbed, WriterIsSound, FilesTypeOK, rootVars,
             buildRootVars, fileVars, recordVars
    <2> HIDE DEF B
    <2> QED
      BY <2>2, WritersKept
  <1>4. CleanupsAreSound'
    BY <1>f
       DEF StopRemoval, FilesTypeOK, CleanupsAreSound, rootVars, buildRootVars,
           fileVars, recordVars
  <1>5. RemovalsAreSound'
    BY <1>f
       DEF StopRemoval, FilesTypeOK, DiskIsSound, RemovalsAreSound, rootVars,
           buildRootVars, fileVars, recordVars
  <1>6. RecordedPacksLast'
    BY <1>f
       DEF StopRemoval, FilesTypeOK, DiskIsSound, RecordedPacksLast, rootVars,
           buildRootVars, fileVars, recordVars
  <1> QED
    BY <1>1, <1>2, <1>3, <1>4, <1>5, <1>6

\* A build begins: its directory is new and no cleanup runs.
LEMMA StartBuildStep ==
    ASSUME FilesInv, NEW b \in Builds, NEW p \in PackIds, StartBuild(b, p)
    PROVE  FilesInv'
  <1> USE DEF FilesInv
  <1> DEFINE w == [pc |-> "writing", pack |-> p]
  <1>1. /\ build[b] = Unused /\ cleaner = AtRest /\ recorded[p] = "absent"
        /\ build' = [build EXCEPT ![b] = w]
        /\ UNCHANGED <<rootVars, fileVars, cleaner, finisher, recordVars, cleaned>>
    BY DEF StartBuild
  <1>2. w \in [pc : WriterPhases, pack : PackIds] /\ w.pc = "writing" /\ w.pack = p
    BY DEF WriterPhases
  <1>3. w \in Writers /\ w \notin {Unused, Ended}
    BY <1>2, PhaseShape
  <1> HIDE DEF w
  <1>4. /\ build' \in [Builds -> Writers] /\ build'[b] = w
        /\ \A c \in Builds : c # b => build'[c] = build[c]
    BY <1>1, <1>3 DEF FilesTypeOK
  <1>5. /\ Active(b)'
        /\ \A c \in Builds : c # b => (Active(c)' <=> Active(c))
    BY <1>3, <1>4 DEF Active
  <1>d. /\ dir' \in [Builds -> BOOLEAN] /\ dirMay' \in [Builds -> SUBSET BOOLEAN]
        /\ dir'[b] = TRUE /\ dirMay'[b] = dirMay[b] \cup {TRUE}
        /\ \A c \in Builds : c # b => dir'[c] = dir[c] /\ dirMay'[c] = dirMay[c]
    BY DirShape DEF StartBuild
  <1>6. FilesTypeOK'
    BY <1>1, <1>4, <1>d DEF FilesTypeOK, rootVars, fileVars, recordVars
  <1>7. DiskIsSound'
    <2>1. \A c \in Builds : dir'[c] \in dirMay'[c]
      <3>1. ASSUME NEW c \in Builds  PROVE dir'[c] \in dirMay'[c]
        <4>1. CASE c = b
          BY <4>1, <1>d
        <4>2. CASE c # b
          BY <4>2, <1>d DEF DiskIsSound
        <4> QED
          BY <4>1, <4>2
      <3> QED
        BY <3>1
    <2> QED
      BY <1>1, <2>1 DEF DiskIsSound, rootVars, fileVars
  <1>8. WritersAreSound'
    <2>1. PacksAreOwned'
      <3>1. \A c \in Builds : Active(c) => build[c].pack # p
        BY DEF StartBuild
      <3> QED
        BY <1>2, <1>4, <1>5, <3>1 DEF WritersAreSound, PacksAreOwned
    <2>2. WriterIsSound(b)'
      BY <1>1, <1>2, <1>4, <1>d DEF WriterIsSound, recordVars
    <2>3. ASSUME NEW c \in Builds, Active(c)', c # b
          PROVE  WriterIsSound(c)'
      <3>1. Active(c) /\ WriterIsSound(c)
        BY <1>5, <2>3 DEF WritersAreSound
      <3> QED
        BY <1>1, <1>4, <1>d, <2>3, <3>1
           DEF WriterIsSound, rootVars, fileVars, recordVars
    <2> QED
      BY <2>1, <2>2, <2>3 DEF WritersAreSound
  <1>9. CleanupsAreSound'
    <2>1. ASSUME NEW c \in cleaned
          PROVE  dirMay'[c] = {FALSE} /\ build'[c] # Unused
      <3>1. c \in Builds /\ dirMay[c] = {FALSE} /\ build[c] # Unused
        BY DEF FilesTypeOK, CleanupsAreSound
      <3> QED
        BY <1>1, <1>4, <1>d, <3>1
    <2> QED
      BY <1>1, <2>1 DEF CleanupsAreSound
  <1>10. RemovalsAreSound' /\ RecordedPacksLast'
    BY <1>1 DEF RemovalsAreSound, RecordedPacksLast, rootVars, fileVars, recordVars
  <1> QED
    BY <1>6, <1>7, <1>8, <1>9, <1>10

\* The power fails: what is found is what was certain.
LEMMA LosePowerStep ==
    ASSUME FilesInv, LosePower
    PROVE  FilesInv'
  <1> USE DEF FilesInv
  <1>1. /\ name' \in [PackIds -> Files] /\ \A p \in PackIds : name'[p] \in nameMay[p]
        /\ nameMay' = [p \in PackIds |-> {name'[p]}]
    BY DEF LosePower
  <1>2. /\ dir' \in [Builds -> BOOLEAN] /\ \A b \in Builds : dir'[b] \in dirMay[b]
        /\ dirMay' = [b \in Builds |-> {dir'[b]}]
    BY DEF LosePower
  <1>3. /\ content' \in [Builds -> {"part", "whole"}] /\ stored' = content'
        /\ \A b \in Builds : content'[b] \in {stored[b], content[b]}
    BY DEF LosePower
  <1>4. /\ build' = [b \in Builds |-> IF Active(b) THEN Ended ELSE build[b]]
        /\ cleaner' = AtRest /\ finisher' = AtRest
        /\ recorded' = recorded /\ accounted' = accounted /\ cleaned' = cleaned
    BY DEF LosePower, recordVars
  <1>5. /\ build' \in [Builds -> Writers]
        /\ \A b \in Builds : ~Active(b)' /\ (build[b] # Unused => build'[b] # Unused)
    BY <1>4 DEF FilesTypeOK, Active, Writers, Unused, Ended
  <1>6. \A b \in Builds : stored[b] = "whole" => stored'[b] = "whole"
    BY <1>3 DEF DiskIsSound
  <1>7. FilesTypeOK'
    <2>1. nameMay' \in [PackIds -> SUBSET Files] /\ dirMay' \in [Builds -> SUBSET BOOLEAN]
      BY <1>1, <1>2
    <2> QED
      BY <1>1, <1>2, <1>3, <1>4, <1>5, <2>1 DEF FilesTypeOK, Cleaners, Finishers
  <1>8. DiskIsSound'
    <2>1. \A b \in Builds : dir'[b] \in dirMay'[b]
      BY <1>2
    <2>2. \A p \in PackIds : name'[p] \in nameMay'[p]
      BY <1>1
    <2>3. \A p \in PackIds, b \in Builds : b \in nameMay'[p] => stored'[b] = "whole"
      BY <1>1, <1>6 DEF DiskIsSound
    <2> QED
      BY <1>3, <2>1, <2>2, <2>3 DEF DiskIsSound
  <1>9. WritersAreSound'
    BY <1>5 DEF WritersAreSound, PacksAreOwned
  <1>10. CleanupsAreSound'
    <2>1. ASSUME NEW b \in cleaned
          PROVE  dirMay'[b] = {FALSE} /\ build'[b] # Unused
      <3>1. b \in Builds /\ dirMay[b] = {FALSE} /\ build[b] # Unused
        BY DEF FilesTypeOK, CleanupsAreSound
      <3>2. dir'[b] \in {FALSE}
        BY <1>2, <3>1
      <3>3. dir'[b] = FALSE
        BY <3>2
      <3> QED
        BY <1>2, <1>5, <3>1, <3>3
    <2> QED
      BY <1>4, <2>1 DEF CleanupsAreSound
  <1>11. RemovalsAreSound'
    BY <1>1, <1>4 DEF FilesTypeOK, RemovalsAreSound
  <1>12. RecordedPacksLast'
    <2>1. ASSUME NEW p \in PackIds, recorded[p] = "published"
          PROVE  \E b \in Builds : nameMay'[p] = {b} /\ stored'[b] = "whole"
      <3>1. PICK b \in Builds : nameMay[p] = {b} /\ stored[b] = "whole"
        BY <2>1 DEF RecordedPacksLast
      <3> QED
        BY <1>1, <1>6, <3>1
    <2> QED
      BY <1>4, <2>1 DEF RecordedPacksLast
  <1> QED
    BY <1>7, <1>8, <1>9, <1>10, <1>11, <1>12

\* Nothing exists and nothing is at work at first.
LEMMA InvInit == FilesInit => FilesInv
  <1> SUFFICES ASSUME FilesInit PROVE FilesInv
    OBVIOUS
  <1>1. FilesTypeOK
    BY DEF FilesInit, FilesTypeOK, Files, Writers, Cleaners, Finishers
  <1>2. DiskIsSound
    BY NoneAssumption DEF FilesInit, DiskIsSound
  <1>3. WritersAreSound
    BY DEF FilesInit, WritersAreSound, PacksAreOwned, Active
  <1>4. CleanupsAreSound /\ RemovalsAreSound /\ RecordedPacksLast
    BY DEF FilesInit, CleanupsAreSound, RemovalsAreSound, RecordedPacksLast
  <1> QED
    BY <1>1, <1>2, <1>3, <1>4 DEF FilesInv

\* A step that changes nothing keeps the invariant.
LEMMA InvStutter ==
    ASSUME FilesInv, UNCHANGED filesVars
    PROVE  FilesInv'
  <1>1. /\ FilesTypeOK' /\ DiskIsSound'
    BY DEF FilesInv, FilesTypeOK, DiskIsSound, filesVars
  <1>2. WritersAreSound'
    BY DEF FilesInv, WritersAreSound, PacksAreOwned, WriterIsSound, Active, filesVars
  <1>3. CleanupsAreSound' /\ RemovalsAreSound' /\ RecordedPacksLast'
    BY DEF FilesInv, CleanupsAreSound, RemovalsAreSound, RecordedPacksLast, filesVars
  <1> QED
    BY <1>1, <1>2, <1>3 DEF FilesInv

\* Every step keeps the invariant.
LEMMA InvNext ==
    ASSUME FilesInv, [FilesNext]_filesVars
    PROVE  FilesInv'
  <1>1. ASSUME NEW b \in Builds, BuildStep(b) PROVE FilesInv'
    BY <1>1, StartBuildStep, SealStep, LinkStep, AdoptStep, SyncRootStep,
       RemoveCandidateStep, RecordStep, FailBuildStep, KillBuildStep DEF BuildStep
  <1>2. CASE CleanupStep
    BY <1>2, StartCleanupStep, RemoveBuildStep, SyncBuildsStep, StopCleanupStep
       DEF CleanupStep
  <1>3. CASE RemovalStep
    BY <1>3, PermitRemovalStep, RemoveNameStep, SyncRemovalStep, AccountRemovalStep,
       StopRemovalStep DEF RemovalStep
  <1>4. CASE LosePower
    BY <1>4, LosePowerStep
  <1>5. CASE UNCHANGED filesVars
    BY <1>5, InvStutter
  <1> QED
    BY <1>1, <1>2, <1>3, <1>4, <1>5 DEF FilesNext

------------------------------------------------------------------------------
(* Theorems.                                                                *)

\* The invariant holds in every behaviour.
THEOREM FilesInvariant == FilesSpec => []FilesInv
  BY InvInit, InvNext, PTL DEF FilesSpec

\* The states are those of the files, the processes and the catalogue.
THEOREM FilesAreTyped == FilesSpec => []FilesTypeOK
  <1>1. FilesInv => FilesTypeOK
    BY DEF FilesInv
  <1> QED
    BY <1>1, FilesInvariant, PTL

\* A registered pack survives a power failure at any moment, complete and under
\* its name, although the transaction of the catalogue and the file system know
\* nothing of each other: the order in publish and the sync of an adopted file.
THEOREM RecordedPacksSurvive == FilesSpec => []RecordedPacksLast
  <1>1. FilesInv => RecordedPacksLast
    BY DEF FilesInv
  <1> QED
    BY <1>1, FilesInvariant, PTL

\* A removal that was accounted for, of a pack or of an abandoned build, is never
\* undone by a power failure.
THEOREM RemovalsSurvive == FilesSpec => []RemovalsLast
  <1>1. FilesInv => RemovalsLast
    BY DEF FilesInv, RemovalsAreSound, CleanupsAreSound, RemovalsLast
  <1> QED
    BY <1>1, FilesInvariant, PTL

\* A cleanup never takes the directory of a live build.
THEOREM LiveBuildsAreSpared == FilesSpec => []BuildersKeepTheirFiles
  <1>1. FilesInv => BuildersKeepTheirFiles
    BY DEF FilesInv, WritersAreSound, WriterIsSound, BuildersKeepTheirFiles
  <1> QED
    BY <1>1, FilesInvariant, PTL

------------------------------------------------------------------------------
(* The refinement.                                                          *)

\* The directory as its names alone show it.
Named == [p \in PackIds |-> IF name[p] = None THEN "none" ELSE "whole"]

\* What has a final name is whole.
LEMMA NamedIsWhole == FilesInv => FileOf = Named
  <1> SUFFICES ASSUME FilesInv PROVE FileOf = Named
    OBVIOUS
  <1>1. ASSUME NEW p \in PackIds, name[p] # None  PROVE content[name[p]] = "whole"
    <2>1. name[p] \in Builds /\ name[p] \in nameMay[p]
      BY <1>1 DEF FilesInv, FilesTypeOK, Files, DiskIsSound
    <2> QED
      BY <2>1 DEF FilesInv, DiskIsSound
  <1> QED
    BY <1>1 DEF FileOf, Named

\* The same after a step.
LEMMA NamedStaysWhole == FilesInv' => FileOf' = Named'
  <1> SUFFICES ASSUME FilesInv' PROVE FileOf' = Named'
    OBVIOUS
  <1>1. ASSUME NEW p \in PackIds, name'[p] # None  PROVE content'[name'[p]] = "whole"
    <2>1. name'[p] \in Builds /\ name'[p] \in nameMay'[p]
      BY <1>1 DEF FilesInv, FilesTypeOK, Files, DiskIsSound
    <2> QED
      BY <2>1 DEF FilesInv, DiskIsSound
  <1> QED
    BY <1>1 DEF FileOf, Named

\* Where neither the names nor the catalogue change, nothing is seen.
LEMMA Unseen ==
    ASSUME FilesInv, FilesInv', name' = name, UNCHANGED recordVars
    PROVE  UNCHANGED <<FileOf, recorded, accounted>>
  <1>1. Named' = Named
    BY DEF Named
  <1> QED
    BY <1>1, NamedIsWhole, NamedStaysWhole DEF recordVars

\* One name changes.
LEMMA NamedChange ==
    ASSUME FilesInv, FilesInv', NEW p \in PackIds, NEW f \in Files, SetName(p, f)
    PROVE  FileOf' = [FileOf EXCEPT ![p] = IF f = None THEN "none" ELSE "whole"]
  <1>1. /\ name'[p] = f
        /\ \A q \in PackIds : q # p => name'[q] = name[q]
    BY NameShape DEF FilesInv
  <1>2. Named' = [Named EXCEPT ![p] = IF f = None THEN "none" ELSE "whole"]
    BY <1>1 DEF Named
  <1> QED
    BY <1>2, NamedIsWhole, NamedStaysWhole

\* A step of a build is a file that appears or a record, or is not seen.
LEMMA BuildMapped ==
    ASSUME FilesInv, FilesInv', NEW b \in Builds, BuildStep(b)
    PROVE  Directory!Next \/ UNCHANGED <<FileOf, recorded, accounted>>
  <1>1. CASE LinkFinal(b)
    <2>1. Active(b) /\ SetName(build[b].pack, b) /\ UNCHANGED recordVars
      BY <1>1 DEF LinkFinal, Working
    <2>2. build[b].pack \in PackIds /\ recorded[build[b].pack] = "absent"
      BY <2>1, WriterShape DEF FilesInv, WritersAreSound, WriterIsSound
    <2>3. FileOf' = [FileOf EXCEPT ![build[b].pack] = "whole"]
      BY <2>1, <2>2, NamedChange, NoneAssumption DEF Files
    <2> QED
      BY <2>1, <2>2, <2>3 DEF Directory!Next, Directory!Appear, recordVars
  <1>2. CASE Record(b)
    <2>1. /\ Active(b) /\ name' = name /\ name[build[b].pack] # None
          /\ recorded[build[b].pack] = "absent"
          /\ recorded' = [recorded EXCEPT ![build[b].pack] = "published"]
          /\ accounted' = accounted
      BY <1>2 DEF Record, Working, rootVars
    <2>2. build[b].pack \in PackIds
      BY <2>1, WriterShape DEF FilesInv
    <2>3. Named' = Named /\ Named[build[b].pack] = "whole"
      BY <2>1, <2>2 DEF Named
    <2> QED
      BY <2>1, <2>2, <2>3, NamedIsWhole, NamedStaysWhole
         DEF Directory!Next, Directory!Record
  <1>3. ASSUME NEW p \in PackIds, StartBuild(b, p)
        PROVE  UNCHANGED <<FileOf, recorded, accounted>>
    BY <1>3, Unseen DEF StartBuild, rootVars
  <1>4. CASE Seal(b) \/ Adopt(b) \/ RemoveCandidate(b) \/ FailBuild(b) \/ KillBuild(b)
    BY <1>4, Unseen DEF Seal, Adopt, RemoveCandidate, FailBuild, KillBuild, rootVars
  <1>5. CASE SyncRoot(b)
    BY <1>5, Unseen DEF SyncRoot, SyncNames
  <1> QED
    BY <1>1, <1>2, <1>3, <1>4, <1>5 DEF BuildStep

\* A step of a removal is a permission, a file that vanishes or an account, or is
\* not seen.
LEMMA RemovalMapped ==
    ASSUME FilesInv, FilesInv', RemovalStep
    PROVE  Directory!Next \/ UNCHANGED <<FileOf, recorded, accounted>>
  <1>1. ASSUME NEW p \in PackIds, PermitRemoval(p)
        PROVE  Directory!Next \/ UNCHANGED <<FileOf, recorded, accounted>>
    <2>1. /\ recorded[p] \in {"published", "reclaimed"} /\ name' = name
          /\ recorded' = [recorded EXCEPT ![p] = "reclaimed"] /\ accounted' = accounted
      BY <1>1 DEF PermitRemoval, rootVars
    <2>2. FileOf' = FileOf
      <3>1. Named' = Named
        BY <2>1 DEF Named
      <3> QED
        BY <3>1, NamedIsWhole, NamedStaysWhole
    <2>3. CASE recorded[p] = "published"
      BY <2>1, <2>2, <2>3 DEF Directory!Next, Directory!PermitRemoval
    <2>4. CASE recorded[p] = "reclaimed"
      <3>1. recorded' = recorded
        BY <2>1, <2>4 DEF FilesInv, FilesTypeOK
      <3> QED
        BY <2>1, <2>2, <3>1
    <2> QED
      BY <2>1, <2>3, <2>4
  <1>2. CASE RemoveName
    <2>1. finisher.pack \in PackIds /\ recorded[finisher.pack] = "reclaimed"
      BY <1>2, FinisherShape DEF RemoveName, FilesInv
    <2>2. UNCHANGED recordVars
      BY <1>2 DEF RemoveName
    <2>3. CASE SetName(finisher.pack, None)
      <3>1. FileOf' = [FileOf EXCEPT ![finisher.pack] = "none"]
        BY <2>1, <2>3, NamedChange DEF Files
      <3> QED
        BY <2>1, <2>2, <3>1 DEF Directory!Next, Directory!Vanish, recordVars
    <2>4. CASE UNCHANGED rootVars
      BY <2>2, <2>4, Unseen DEF rootVars
    <2> QED
      BY <1>2, <2>3, <2>4 DEF RemoveName
  <1>3. CASE AccountRemoval
    <2>1. /\ finisher.pack \in PackIds /\ recorded[finisher.pack] = "reclaimed"
          /\ finisher # AtRest /\ finisher.pc = "receipt"
      BY <1>3, FinisherShape DEF AccountRemoval, FilesInv
    <2>2. /\ name[finisher.pack] = None /\ name' = name /\ recorded' = recorded
          /\ accounted' = accounted \cup {finisher.pack}
      BY <1>3, <2>1 DEF AccountRemoval, FilesInv, RemovalsAreSound, rootVars
    <2>3. Named' = Named /\ Named[finisher.pack] = "none"
      BY <2>1, <2>2 DEF Named
    <2> QED
      BY <2>1, <2>2, <2>3, NamedIsWhole, NamedStaysWhole
         DEF Directory!Next, Directory!Account
  <1>4. CASE SyncRemoval
    BY <1>4, Unseen DEF SyncRemoval, SyncNames
  <1>5. CASE StopRemoval
    BY <1>5, Unseen DEF StopRemoval, rootVars
  <1> QED
    BY <1>1, <1>2, <1>3, <1>4, <1>5 DEF RemovalStep

\* A power failure is one of the directory.
LEMMA PowerMapped ==
    ASSUME FilesInv, FilesInv', LosePower
    PROVE  Directory!LosePower
  <1>1. recorded' = recorded /\ accounted' = accounted
    BY DEF LosePower, recordVars
  <1>2. FileOf' \in [PackIds -> {"none", "whole"}]
    BY NamedStaysWhole DEF Named
  <1>3. ASSUME NEW p \in PackIds, recorded[p] = "published" \/ p \in accounted
        PROVE  FileOf'[p] = FileOf[p]
    <2>1. name'[p] \in nameMay[p] /\ name[p] \in nameMay[p]
      BY DEF LosePower, FilesInv, DiskIsSound
    <2>2. \E f \in Files : nameMay[p] = {f}
      BY <1>3 DEF FilesInv, RecordedPacksLast, RemovalsAreSound, Files
    <2>3. name'[p] = name[p]
      BY <2>1, <2>2
    <2>4. Named'[p] = Named[p]
      BY <2>3 DEF Named
    <2> QED
      BY <2>4, NamedIsWhole, NamedStaysWhole
  <1> QED
    BY <1>1, <1>2, <1>3 DEF Directory!LosePower

\* Every step is one of the directory or is not seen.
LEMMA DirectoryStepMapped ==
    ASSUME FilesInv, FilesInv', [FilesNext]_filesVars
    PROVE  [Directory!Next]_<<FileOf, recorded, accounted>>
  <1>1. CASE \E b \in Builds : BuildStep(b)
    BY <1>1, BuildMapped
  <1>2. CASE RemovalStep
    BY <1>2, RemovalMapped
  <1>3. CASE LosePower
    BY <1>3, PowerMapped DEF Directory!Next
  <1>4. CASE CleanupStep
    BY <1>4, Unseen DEF CleanupStep, StartCleanup, RemoveBuild, SyncBuilds, StopCleanup,
                        rootVars
  <1>5. CASE UNCHANGED filesVars
    BY <1>5, Unseen DEF filesVars, recordVars
  <1> QED
    BY <1>1, <1>2, <1>3, <1>4, <1>5 DEF FilesNext

\* The directory is empty at first.
LEMMA DirectoryInitMapped == FilesInit => Directory!Init
  BY DEF FilesInit, Directory!Init, FileOf

\* The builds, adoptions, cleanups and removals implement a directory of files that
\* come and go as wholes and in agreement with the catalogue, across power failures.
THEOREM FilesImplementDirectory == FilesSpec => ImplementsPackDirectory
  <1>1. FilesInv /\ FilesInv' /\ [FilesNext]_filesVars => [Directory!Next]_<<FileOf, recorded, accounted>>
    BY DirectoryStepMapped
  <1> QED
    BY DirectoryInitMapped, FilesInvariant, <1>1, PTL
       DEF FilesSpec, ImplementsPackDirectory, Directory!DirectorySpec

===============================================================================
