\* A failed validation racing with the save it was meant for.
CONSTANTS
    P1 = P1
    P2 = P2
    D1 = D1
    D2 = D2
    D3 = D3
    D4 = D4
    W1 = W1
    M1 = M1
    M2 = M2
    A1 = A1
    A2 = A2
    K1 = K1
    K2 = K2
    K3 = K3
    K4 = K4
    K5 = K5
    K6 = K6
    K7 = K7
    Worker1 = Worker1
    Worker2 = Worker2
    None = None
    Free = Free
    Project <- MCProject
    Definition <- MCDefinition
    Workspace <- MCWorkspace
    Manifest <- MCManifest
    ValidManifest <- MCValidManifest
    Name <- MCName
    Actor <- MCActor
    Key <- MCKey
    Worker <- MCWorker
    ScopeChange <- NoScopeChange
    Request <- ReportRequests
    Origin <- ReportRequests
SPECIFICATION GatewaySpec
INVARIANTS FailureReportBindsManifest
