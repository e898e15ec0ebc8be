SPECIFICATION Spec
CONSTANTS
    Images = {1}
    MaxFileChanges = 1
    RequestsLand = {"Idle"}
PROPERTY
    EjectedStaysEmpty
