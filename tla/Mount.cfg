SPECIFICATION FairSpec
CONSTANTS
    Images = {1, 2, 3}
    MaxFileChanges = 2
    RequestsLand = {"Idle", "Scanned"}
INVARIANTS
    TypeOK
    CurrentIsMounted
    MountedIsSaved
    BootStaysEmpty
PROPERTIES
    EjectIsSaved
    MountIsServed
