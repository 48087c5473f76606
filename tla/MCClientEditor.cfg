\* An edit made while a save is being sealed.
CONSTANTS
    D1 = D1
    D2 = D2
    P1 = P1
    W1 = W1
    M1 = M1
    M2 = M2
    M3 = M3
    A1 = A1
    TabB = TabB
    TabE = TabE
    TabP = TabP
    SaveKeys = 1
    DeskKeys = 0
    None = None
    Project <- MCProject
    Definition <- MCDefinition
    Workspace = {W1}
    Manifest <- MCManifest
    ValidManifest <- MCValidManifest
    Name <- MCName
    Actor = {A1}
    Key <- MCKey
    Request <- MCRequest
    Origin <- MCRequest
    Entry <- MCEntry
    Editor <- MCEditor
    Publisher <- MCPublisher
    PageOf <- MCPageOf
    PoolOf <- MCPoolOf
SPECIFICATION ClientSpec
INVARIANTS CleanMeansSaved
CHECK_DEADLOCK FALSE
