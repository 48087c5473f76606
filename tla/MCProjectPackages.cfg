\* Packages, callers, services and the seed around the same Projects.
CONSTANTS
    P0 = P0
    P1 = P1
    P2 = P2
    A0 = A0
    A = A
    B = B
    N1 = N1
    N2 = N2
    I1 = I1
    I2 = I2
    S1 = S1
    S2 = S2
    None = None
    MaxLength = 64
    Word <- MCWord
    Grandfathered <- MCGrandfathered
    Und <- MCUnd
    ProjectId = {P0, P1, P2}
    ProjectCode = {A0, A, B}
    ProjectName = {N1, N2}
    Session = {S1, S2}
    Importer = {I1, I2}
    Call <- MCCall
    Package <- MCPackage
    OtherRow <- MCOtherRow
    DemoId = P0
    DemoCode = A0
    DemoName = N1
    Ru <- MCRu
    SeedRow <- MCSeedRow
    TypedRow <- MCTypedRow
SPECIFICATION MCSpec
CONSTRAINT FewAtOnce
SYMMETRY Processes
INVARIANTS AnswersHold TagsAreParsed ChecksPredictWrites ImportsComeBack FilesAreGood
