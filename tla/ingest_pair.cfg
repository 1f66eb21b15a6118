CONSTANTS
    s1 = s1  s2 = s2  x1 = x1  x2 = x2  y1 = y1
    rc = rc  rc2 = rc2  native = native  fixture = fixture
    itemX = itemX  itemY = itemY  profile1 = profile1  profile2 = profile2
    commit1 = commit1  commit2 = commit2  w1 = w1  w2 = w2
    Sources = {s1, s2}
    TestSources = {}
    Files = {x1, x2, y1}
    ItemOf <- MCItemOf
    Manifests <- MCOneItem
    Builds = {rc, native}
    NativeBuilds = {native}
    FixtureBuilds = {}
    ProfileOf <- MCProfileOf
    CommitOf <- MCCommitOf
    Writers = {w1}
    MaxSeq = 2
    MaxActivations = 1
SPECIFICATION Spec
PROPERTIES
    ActiveSetStaysComplete
SYMMETRY Symmetric
CHECK_DEADLOCK FALSE
