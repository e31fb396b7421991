\* Two windows, one of them open at the start, two events, and a click, restart or error.
CONSTANTS
    NoWindow = 0
    Windows = {1, 2}
    Opened = {1}
    MaxEvents = 2
    MaxTrouble = 1
SPECIFICATION WinFairSpec
INVARIANTS RowsConsistent
PROPERTIES TaskbarFollows NeverBackwards ContextFollows
CHECK_DEADLOCK FALSE
