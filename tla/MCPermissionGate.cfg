\* Two requests, crashes of both services, changing grants and files.
CONSTANTS
    Requests = {r1, r2}
    r1 = r1
    r2 = r2
    p1 = p1
    p2 = p2
    Paths = {p1, p2}
    Images = {image}
    NoParam = NoParam
    Blank = Blank
    Missing = Missing
    Junk = Junk
    Free = Free
    Asked <- MCAsked
    MaxTries = 1
    MaxRegrants = 1
    MaxWrites = 1
SPECIFICATION FairSpec
ACTION_CONSTRAINT InOrder
INVARIANTS FailClosed GrantedFirst ReplyTruthful
PROPERTIES RequestsAnswered ActionManagerComesUp
