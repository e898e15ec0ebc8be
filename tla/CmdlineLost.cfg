SPECIFICATION Spec
CONSTANTS
    BlockSize = 1
    MaxConfigSize = 1
    MaxUploads = 0
    NoFile = NoFile
    MaxChanges = 1
    MaxUploadsWithSets = 0
    Empty = Empty
    Partial = Partial
INVARIANT
    CmdlineLoads
