SPECIFICATION Spec
CONSTANTS
    Created = 1
    Installed = 2
    Arch = "x64"
    AppVersions = {1, 2}
    MaxCommands = 3
    MaxUpsets = 1
    MaxKills = 0
INVARIANTS
    AppImageIsCurrent
CHECK_DEADLOCK FALSE
