CONSTANTS
    s1 = s1  s2 = s2  x1 = x1  x2 = x2  y1 = y1  b1 = b1  b2 = b2
    itemX = itemX  itemY = itemY  profile1 = profile1
    commit1 = commit1  commit2 = commit2
    Sources = {s1, s2}
    TestSources = {s2}
    Files = {x1, x2, y1}
    ItemOf <- MCItemOf
    Manifests <- MCManifests
    Builds = {b1}
    ProfileOf <- MCProfileOf
    CommitOf <- MCCommitOf
    MaxSeq = 2
    MaxActivations = 1
SPECIFICATION StoreSpec
INVARIANTS
    StoreTypeOK
    PointerNamesTheActive
    ServedSetsWereIngested
PROPERTIES
    SettledGenerationsAreFixed
CONSTRAINT OneSource
CHECK_DEADLOCK FALSE
