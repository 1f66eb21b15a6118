CONSTANTS
    s1 = s1  s2 = s2  x1 = x1  x2 = x2  y1 = y1
    rc = rc  rc2 = rc2  native = native  fixture = fixture
    itemX = itemX  itemY = itemY  profile1 = profile1  profile2 = profile2
    commit1 = commit1  commit2 = commit2  w1 = w1  w2 = w2
    Sources = {s1}
    TestSources = {s1}
    Files = {x1, x2, y1}
    ItemOf <- MCItemOf
    Manifests <- MCManifests
    Builds = {rc, fixture}
    NativeBuilds = {}
    FixtureBuilds = {fixture}
    ProfileOf <- MCProfileOf
    CommitOf <- MCCommitOf
    Writers = {w1, w2}
    MaxSeq = 3
    MaxActivations = 0
SPECIFICATION Spec
INVARIANTS
    SealedShowsItsRun
SYMMETRY Symmetric
CHECK_DEADLOCK FALSE
