\* Three directories, three acts of the user, two changes of the disk.
CONSTANTS
    Dirs = {"/", "h", "d"}
    Names = {"/", "h", "d", "a", "b", ".x"}
    Parent <- MCParent
    NameOf <- MCNameOf
    Home = "h"
    NoDir = "none"
    Disk <- MCDisk
    Volatile <- MCVolatile
    HiddenNames = {".x"}
    Queries = {"", "a", "b"}
    Filters = {"", "b"}
    Passes <- MCPasses
    Key <- MCKey
    MaxMoves = 3
    MaxChanges = 2
SPECIFICATION FairSpec
INVARIANTS WindowConsistent
PROPERTIES ImplementsView EventuallyFresh
CHECK_DEADLOCK FALSE
