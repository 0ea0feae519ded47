SPECIFICATION PartSpec
CONSTANTS
    Caller = {q1, q2, q3}
    NoCaller = NoCaller
    CancelAtBegin = TRUE
    Session = {"s1", "s2"}
    Change = {"c1", "c2"}
    SessionOf <- MCSessionOf
    WorkspaceOf <- MCWorkspaceOf
    NodesOf <- MCNodesOf
    None = None
    Call = {k1}
    MaxEdits = 1
    Artifact = {1, 2, 3}
    Owner <- MCOwner
    Size <- MCSize
    MaxSessionCount = 1
    MaxSessionBytes = 3
    MaxGlobalCount = 3
    MaxGlobalBytes = 2
    MaxRegisters = 2
    MaxFaults = 1
    Record = {1, 2}
    MaxCrashes = 2
    Process = {p1, p2, p3}
    Nobody = Nobody
    MaxKills = 2
    Build = {b1, b2, b3}
    Free = Free
INVARIANTS AppendIsExact WorkspacesHold ArtifactsHold CapsHold WholeVersions LockFilesHold
CHECK_DEADLOCK FALSE
