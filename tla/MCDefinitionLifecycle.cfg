\* Sequential lifecycle: chains, rivals and dead ends of one project;
\* the projection of the manifests of another one into its workspaces.
CONSTANTS
    P1 = P1
    D1 = D1
    D2 = D2
    D3 = D3
    D4 = D4
    P2 = P2
    W2 = W2
    K3 = K3
    W1 = W1
    M1 = M1
    M2 = M2
    A1 = A1
    K1 = K1
    K2 = K2
    D5 = D5
    D6 = D6
    P3 = P3
    W3 = W3
    W4 = W4
    W5 = W5
    M3 = M3
    M4 = M4
    None = None
    Absent = None
    Project <- MCProject
    Definition <- MCDefinition
    Workspace <- MCWorkspace
    Manifest <- MCManifest
    ValidManifest <- MCValidManifest
    Name <- MCName
    Actor <- MCActor
    Key <- MCKey
    Request <- MCRequest
    Origin <- MCRequest
    Content <- MCContent
    PublishedTopic <- MCPublishedTopic
    OrderLimit <- MCOrderLimit
    Creation <- MCCreation
    Projecting <- MCProjecting
    Legacy <- MCLegacy
SPECIFICATION ProjectionSpec
INVARIANTS PublishedChain ReviewedBytes ReadinessAgrees
           ProjectableExactly ProjectionsReplay CellsAreDeclared
CONSTRAINT Apart
CHECK_DEADLOCK FALSE
