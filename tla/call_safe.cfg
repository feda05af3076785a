CONSTANTS
    A = A
    B = B
    C = C
    c1 = c1
    c2 = c2
    NoUser = NoUser
    User = {A, B, C}
    CallId = {c1, c2}
    Conversation <- MCConversation
    Members <- MCMembers
    Direct <- MCDirect
    StoreYields = FALSE
    DatabaseFails = FALSE
    RestCalls = {c2}
    MaxPending = 1
SPECIFICATION Spec
SYMMETRY UserSymmetry
INVARIANT NoCrossedCalls
INVARIANT AnsweredIsNotMissed
PROPERTY CallsAreAtomic
CHECK_DEADLOCK FALSE
