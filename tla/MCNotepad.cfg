\* Two documents in two tabs, or one in both, three edits, failing system calls, a crash at any point.
CONSTANTS
    source = source
    text = text
    Files = {source, text}
    NoFile = NoFile
    Absent = Absent
    Partial = Partial
    Language <- MCLanguage
    MaxTabs = 2
    MaxEdits = 3
    MaxFails = 2
    MaxSwitches = 3
    MaxRecent = 1
SPECIFICATION FairSpec
INVARIANTS TabsNotMixed DocumentKept MarkerExactUnlessLeft
PROPERTIES AutoSaved
CHECK_DEADLOCK FALSE
