SPECIFICATION Spec
CONSTANTS
    libPath = libPath  envPath = envPath  cast1 = cast1  cast2 = cast2  node1 = node1  Nobody = Nobody
    Paths = {libPath, envPath}
    Root = envPath
    Refs <- MCRefs
    OnCache = {libPath}
    Casts = {cast1, cast2}
    At <- MCAt
    Uploads = {u}
    TakesSigned = TRUE
    MaxFaults = 1
    CachePeers = {p1, p2}
    Builds = {b1, b2}
    NoBuild = NoBuild
    Asks = {r1, r2}
    object1 = object1  object2 = object2  object3 = object3
    user1 = user1  user2 = user2  user3 = user3  run1 = run1  run2 = run2
    file1 = file1  file2 = file2  file3 = file3
    Closures = {k1, k2}
    Storers = {s1, s2, s3}
    Exports = {s1}
    NarMax = 1
    Objects = {object1, object2, object3}
    Users = {user1, user2, user3}
    Needs <- MCNeeds
    DirMax = 2
    ProjectFiles = {file1, file2, file3}
    Ignored = {file2}
    Shims = {file3}
    Runs = {run1, run2}
    Touches <- MCTouches
    TheUser = TheUser
    MaxEdits = 1
    MaxMishaps = 1
INVARIANTS OneSend LookupsTrue NothingTornOrLost
PROPERTIES SendsEnd
