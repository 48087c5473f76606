\* Experiments, their values and imports, the calculations over them, and the
\* envelopes that calculations of version 1.1 have.
CONSTANTS
    W1 = W1
    W2 = W2
    E1 = E1
    E2 = E2
    P1 = P1
    P2 = P2
    I1 = I1
    I2 = I2
    L1 = L1
    L2 = L2
    U1 = U1
    U2 = U2
    T1 = T1
    T2 = T2
    K1 = K1
    K2 = K2
    K3 = K3
    K4 = K4
    K5 = K5
    K6 = K6
    K7 = K7
    K8 = K8
    K9 = K9
    K10 = K10
    K11 = K11
    K12 = K12
    K13 = K13
    K14 = K14
    K15 = K15
    K16 = K16
    S1 = S1
    S2 = S2
    S3 = S3
    G1 = G1
    G2 = G2
    N1 = N1
    F1 = F1
    None = None
    Workspace <- MCWorkspace
    Experiment <- MCExperiment
    Profile <- MCProfile
    Identity <- MCIdentity
    Label <- MCLabel
    User <- MCUser
    Key <- MCKey
    Target <- MCTarget
    ScopeChange <- MCScopeChange
    Request <- MCRequest
    Slice <- MCSlice
    SliceOf <- MCSliceOf
    HomeOf <- MCHomeOf
    Weights <- MCWeights
    Calculation <- RunCalculations
    ReworkKey <- MCReworkKey
    Scenario <- MCScenario
    Figure <- MCFigure
    Q1 = Q1
    Q2 = Q2
    A1 = A1
    A2 = A2
    A3 = A3
    Missing = Missing
    Top = 2
    Budget = 12
    Digit = 10
    Grain = 2
    Ptn <- MCPtn
    Actor <- MCActor
    Snapshot <- MCSnapshot
    Overridden <- MCOverridden
SPECIFICATION MCSpec
INVARIANTS RowsFitTogether KeysTellHistory RunsTellOneHistory
           ScenariosStandOnRuns EnvelopeIsExact DirectionIsCertain
PROPERTIES LedgerImplemented
