CONSTANTS
    None = None
    Blank = Blank
    NonAscii = NonAscii
    Extensions <- Extended
    Oversize = Oversize
    LF = LF
    CR = CR
    Colon = Colon
    Space = Space
    DataField = DataField
    MaxEventBytes = 3
    Null = Null
    Here = Here
    Missing = Missing
    i1 = i1
    i2 = i2
    t1 = t1
    add = add
    Ids <- MCIds
    Tools <- MCTools
    FixtureTools <- MCFixtureTools
    Fragments = {12}
    Requests <- ListenRequests
    Replies <- ListenReplies
    MaxRequests = 2
    Faults = {}

SPECIFICATION FairSpec

PROPERTIES
    PostsServed

\* A server that keeps its stream open may have nothing more to say.
CHECK_DEADLOCK FALSE
