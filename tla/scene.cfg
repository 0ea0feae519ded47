SPECIFICATION SceneSpec
CONSTANTS
    None = None
    Limits <- MCLimits
    a = a
    b = b
    x = x
    n1 = n1
    n2 = n2
    n3 = n3
    Obj <- MCObj
    Value = {0, 1, 2}
    FirstScene <- MCFirstScene
    Request <- MCRequest
    StrayPath = "/stray"
    DefaultValue = 0
    CacheMax = 1
    MaxEdits = 1
    MaxCalls = 2
    SandboxObj = {o1, o2, o3, o4, o5, o6, o7, o8}
    ManifestBatches <- MCManifestBatches
    ParmManifests <- MCParmManifests
    ExprDepth = 3
    ExprNodes = 4
    ManifestCalls = 4
    Parm = {"p", "q"}
    ParmValue = {0, 1, 2}
    Original <- MCOriginal
    Sample <- MCSample
    MaxProbes = 2
INVARIANTS WritesAreUndoable SandboxInOrder NoUndeclaredDriver ProbesLeaveNoTrace
PROPERTIES ImplementsTransaction CommitAllOrNothing
CHECK_DEADLOCK FALSE
