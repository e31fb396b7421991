\* Four names, two acts of the user, two of other programs.
CONSTANTS
    Names = {1, 2, 3, 4}
    Folders = {2}
    HiddenNames = {4}
    NewName <- MCNewName
    Start = {1}
    MaxCalls = 2
    MaxOutside = 2
SPECIFICATION IconsFairSpec
INVARIANTS DesktopKept
PROPERTIES IconsFollow TrashIconFollows
CHECK_DEADLOCK FALSE
