\* Three prompts in a row, closing at any time, a daemon that may stall.
SPECIFICATION FairSpec
CONSTANTS
    MaxGens = 3
    MaxQueued = 2
INVARIANTS OneAtATime ClosesCleanly
PROPERTIES UiReleased
