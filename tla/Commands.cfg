SPECIFICATION Spec
CONSTANTS
    c1 = c1  c2 = c2  b1 = b1  b2 = b2  b12 = b12  a1 = a1  a2 = a2
    n1 = n1  n2 = n2  u1 = u1  u2 = u2  p1 = p1  k1 = k1  f1 = f1
    Chunk = {c1, c2}
    Block = {b1, b2, b12}
    Asset = {a1, a2}
    Name = {n1, n2}
    Absent = Absent  NoFile = NoFile  Torn = Torn
    Holds <- MCHolds
    Version <- MCVersion
    Scenario <- MCScenario
    Uploader = {u1, u2}  Pruner = {p1}  Cloner = {k1}  Folder = {f1}
    Upload <- MCUpload  Prune <- MCPrune  Clone <- MCClone  Sync <- MCSync
    Source <- MCSource
    PoolSize = 1
INVARIANTS
    TypeOK
    PublishedIsRestorable
    ListedIsStored
    CacheIsTrue
    SyncedIsVersion
    ValidatedIsVersion
    UploadedCanBeHad
    WorkIsCurrent
    EveryoneHasAStep
PROPERTIES
    DryRunKeepsAll
    NobodyGoesRound
CHECK_DEADLOCK FALSE
