SPECIFICATION Spec
CONSTANTS
    d1 = d1
    d2 = d2
    Discs = {d1, d2}
    NoDisc = NoDisc
    Leadout <- TwoLeadouts
    Addresses = {0, 1, 3}
    Counts = {0, 3}
    AddressSpace = 16
    MaxBlocks = 2
    SubFit = 1
    Preempts <- QuietPreempts
INVARIANTS
    TypeOK
    EjectedIsEmpty
    ReadyMeansDisc
    BatchInsideDisc
    CompletionsExpected
    FailureHasSense
PROPERTIES
    ImplementsDrive
    GoodReadIsWhole
