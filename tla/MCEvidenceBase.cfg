\* Four documents and their translations; two importers and the Player in one
\* workspace; databases of the first migration, canonical rows and a value.
CONSTANTS
    D1 = D1
    D2 = D2
    D3 = D3
    D4 = D4
    W1 = W1
    W2 = W2
    W3 = W3
    RU = RU
    EN = EN
    Und = Und
    S1 = S1
    S2 = S2
    Tale = Tale
    Copy = Copy
    Loose = Loose
    None = None
    Absent = Absent
    Document <- MCDocument
    Workspace <- MCWorkspace
    Language <- MCLanguage
    Segmentation <- MCSegmentation
    Text <- MCText
    Blank <- MCBlank
    LanguageOf <- MCLanguageOf
    Submission <- MCSubmission
    Anchor <- MCAnchor
    E1 = E1
    E2 = E2
    A1 = A1
    A2 = A2
    A3 = A3
    Old = Old
    New = New
    Scan = Scan
    F1 = F1
    F2 = F2
    F3 = F3
    I1 = I1
    I2 = I2
    Experiment <- MCExperiment
    Name <- MCName
    Importer <- MCImporter
    Request <- MCRequest
    PlayerRow <- MCPlayerRow
    N1 = N1
    N2 = N2
    M1 = M1
    C1 = C1
    C2 = C2
    V1 = V1
    V2 = V2
    Ev1 = Ev1
    Ev2 = Ev2
    H1 = H1
    K1 = K1
    K2 = K2
    X1 = X1
    B1 = B1
    B2 = B2
    Nothing = Nothing
    Sample <- MCSample
    Entity <- MCEntity
    Parameter <- MCParameter
    TableOf <- MCTableOf
    Content <- MCContent
    Pin <- MCPin
    Event <- MCEvent
    Header <- MCHeader
    Definition <- MCDefinition
    Value <- MCValue
    Context <- MCContext
    Lasting <- MCLasting
SPECIFICATION EvidenceBaseSpec
CONSTRAINT RefusalsAlone
SYMMETRY Importers
INVARIANTS OriginalsHold SynchronizedIsShown
    RowsHaveOneOrigin ConfirmedIsBacked UpgradesArrive ValuesHoldGround
PROPERTIES FrozenLanesClosed LinksAreHonestWhenMade HistoryStays GuardedRowsStay
