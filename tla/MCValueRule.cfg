\* What the triggers of migration 0020 say of themselves.
CONSTANTS
    N1 = N1
    N2 = N2
    M1 = M1
    C1 = C1
    C2 = C2
    V1 = V1
    V2 = V2
    Ev1 = Ev1
    Ev2 = Ev2
    H1 = H1
    K1 = K1
    K2 = K2
    X1 = X1
    B1 = B1
    B2 = B2
    Nothing = Nothing
    Sample <- MCSample
    Entity <- MCEntity
    Parameter <- MCParameter
    TableOf <- MCTableOf
    Content <- MCContent
    Pin <- MCPin
    Event <- MCEvent
    Header <- MCHeader
    Definition <- MCDefinition
    Value <- MCValue
    Context <- MCContext
    Lasting <- MCLasting
SPECIFICATION DatabaseSpec
INVARIANT ValuesAreExplained
