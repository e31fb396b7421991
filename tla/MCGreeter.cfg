\* Two users, three login attempts, two prompts each, two faults of the connection.
CONSTANTS
    NUsers = 2
    MaxAttempts = 3
    MaxPrompts = 2
    MaxFaults = 2
SPECIFICATION FairSpec
INVARIANTS ConversationInStep RightUser
PROPERTIES AttemptEnds SuccessStarts
CHECK_DEADLOCK FALSE
