CONSTANTS
    p1 = p1  p2 = p2  p3 = p3  b1 = b1  b2 = b2  b3 = b3  c1 = c1  c2 = c2
    f1 = f1  f2 = f2  n1 = n1  n2 = n2  n3 = n3
    Null = Null  Unborn = Unborn  Swept = Swept  None = None
    Packs = {p1, p2, p3}
    Bodies = {b1, b2, b3}
    Clients = {c1, c2}
    MaxEpochs = 2
    MaxSweeps = 2
    PackIds = {f1, f2}
    Builds = {n1, n2}
SPECIFICATION MCPacksSpec
INVARIANTS
    TypeOK
    ReadersKeepTheirFile
    PlacedBodiesAreStored
    ReplacementsStayUntilRemoval
    ReceiptsAreTruthful
    FilesTypeOK
    RecordedPacksLast
    RemovalsLast
    BuildersKeepTheirFiles
PROPERTIES
    RetiredPacksAreRemoved
    ImplementsPackDirectory
CHECK_DEADLOCK FALSE
