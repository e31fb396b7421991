\* Two calls at a time, two failing system calls.
CONSTANTS
    Bases = {"home", "usb", "trash", "d", "f", "g", "h", "x", "l"}
    Jobs = {1, 2}
    Requests <- MCRequests
    Hidden <- MCHidden
    Tree <- MCTree
    LinkTo <- MCLinkTo
    Trash <- MCTrash
    MaxErrors = 2
    MaxVariants = 2
    MaxDepth = 4
    MaxLinks = 1
SPECIFICATION OpsFairSpec
INVARIANTS TreeKept
PROPERTIES ArrivesWhole CallsEnd
CHECK_DEADLOCK FALSE
