\* A published definition that a package brought with a first workspace that is
\* not the default one: the Player can open none of its definitions.
CONSTANTS
    P1 = P1
    P2 = P2
    D1 = D1
    D2 = D2
    D3 = D3
    D4 = D4
    W1 = W1
    W2 = W2
    W3 = W3
    M1 = M1
    M2 = M2
    A1 = A1
    A2 = A2
    K1 = K1
    K2 = K2
    C0 = C0
    C1 = C1
    C2 = C2
    S1 = S1
    S2 = S2
    T1 = T1
    B1 = B1
    X2 = X2
    X3 = X3
    E1 = E1
    E2 = E2
    None = None
    Project <- MCProject
    Definition <- MCDefinition
    Workspace <- MCWorkspace
    Manifest <- MCManifest
    ValidManifest <- MCManifest
    Name <- MCName
    Actor <- MCActor
    Key <- MCKey
    Request <- MCRequest
    Origin <- MCOrigin
    Package <- AsidePackage
    Importer = {E1, E2}
    Capability <- MCCapability
    Binding = {B1}
    BindingsOf <- MCBindingsOf
    PlayerRequest <- MCPlayerRequest
    Slice = {S1, S2}
    Cutoff = {T1}
    InitialCode = C0
SPECIFICATION WorkspacesSpec
CONSTRAINT Bounded
INVARIANTS PackagesBootstrapPlayers
CHECK_DEADLOCK FALSE
