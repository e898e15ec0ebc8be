SPECIFICATION FairSpec
CONSTANTS
    BlockSize = 2
    MaxConfigSize = 3
    MaxUploads = 3
    NoFile = NoFile
    MaxChanges = 2
    MaxUploadsWithSets = 1
    Empty = Empty
    Partial = Partial
INVARIANTS
    NoSettingForgotten
    TypeOK
    PreviousConfigSurvives
    OnlyAcceptedInstalled
PROPERTIES
    SettingsAreSaved
    CommitEnds
