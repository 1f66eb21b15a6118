CONSTANTS
    s1 = s1  a1 = a1  a2 = a2  b1 = b1
    rc = rc  native = native  later = later  seg1 = seg1  seg2 = seg2
    profile1 = profile1  profile2 = profile2  commit1 = commit1  commit2 = commit2
    w1 = w1  epoch1 = epoch1
    Sources = {s1}
    TestSources = {}
    Files = {a1, a2, b1}
    ItemOf <- MCItemOf
    EpochOf <- MCEpochOf
    Manifests <- MCRoots
    Builds = {rc, native, later}
    NativeBuilds = {native, later}
    FixtureBuilds = {}
    ProfileOf <- MCProfileOf
    CommitOf <- MCCommitOf
    Writers = {w1}
    MaxSeq = 3
    MaxActivations = 1
    FullEvery = 2
    MaxDamage = 1
SPECIFICATION AppendFairSpec
INVARIANTS
    AppendTypeOK
    FrontierNamesTheNewest
    DamageIsFoundInTime
    GenerationsExtend
PROPERTIES
    AppendedContentIsPublished
CHECK_DEADLOCK FALSE
