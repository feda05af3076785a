CONSTANTS
    A = A
    B = B
    C = C
    c1 = c1
    c2 = c2
    NoUser = NoUser
    User = {A, B}
    CallId = {c1}
    Conversation <- MCConversation
    Members <- MCMembers
    Direct <- MCDirect
    StoreYields = TRUE
    DatabaseFails = TRUE
    RestCalls = {}
    MaxPending = 2
SPECIFICATION FairSpec
PROPERTY RingingEnds
PROPERTY ReceiverStopsRinging
CHECK_DEADLOCK FALSE
