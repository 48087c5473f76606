\* Entry page, editor and publication desk over the lifecycle: lost and late calls.
CONSTANTS
    D1 = D1
    D2 = D2
    P1 = P1
    W1 = W1
    M1 = M1
    M2 = M2
    M3 = M3
    A1 = A1
    TabB = TabB
    TabE = TabE
    TabP = TabP
    SaveKeys = 1
    DeskKeys = 1
    None = None
    Project <- MCProject
    Definition <- MCDefinition
    Workspace = {W1}
    Manifest <- MCManifest
    ValidManifest <- MCValidManifest
    Name <- MCName
    Actor = {A1}
    Key <- MCKey
    Request <- MCRequest
    Origin <- MCRequest
    Entry <- MCEntry
    Editor <- MCEditor
    Publisher <- MCPublisher
    PageOf <- MCPageOf
    PoolOf <- MCPoolOf
SPECIFICATION ClientSpec
INVARIANTS TruthfulVerdicts WritesAreCovered
CONSTRAINT OnePage
CHECK_DEADLOCK FALSE
