SPECIFICATION Spec
CONSTANTS
    d1 = d1
    d2 = d2
    Discs = {d1}
    NoDisc = NoDisc
    Leadout <- OneLeadout
    Addresses = {0}
    Counts = {3}
    AddressSpace = 16
    MaxBlocks = 2
    SubFit = 1
    Preempts <- NoPreempts
INVARIANT
    OnlyReadsStream
