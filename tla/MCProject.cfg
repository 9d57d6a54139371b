SPECIFICATION Spec
CONSTANTS
    Created = 1
    Installed = 2
    Arch = "x64"
    AppVersions = {1, 2}
    MaxCommands = 2
    MaxUpsets = 2
    MaxKills = 1
INVARIANTS
    StampIsEarned
    OnlyTornFilesStopUpdate
    SharedFilesKept
    BuildsAreFresh
    DevRunCompiles
PROPERTIES
    UpdateKeepsEdits
CHECK_DEADLOCK FALSE
