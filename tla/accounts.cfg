CONSTANTS
    NoOp = NoOp
    Op = {n1, n2, n3}
    External = {n1, n2, n3}
    Failures = TRUE
    Session = {"s1", "s2"}
    Errand = {e1, e2}
    LastKey = 2
    MaxFound = 2
    PageLimit = 2
    LastPage = 2
    Process = {"p1", "p2"}
    Mail = {"plain", "odd"}
    WellFormed = {"plain"}
    Minutes <- Intervals
    MaxMissed = 1
SPECIFICATION SideSpec
SYMMETRY Interchangeable
INVARIANT CodesAreSingle
INVARIANT SessionsKnowPassword
PROPERTY ResendKeepsCode
INVARIANT SuspensionBites
INVARIANT AnsweredChangeIsWhole
INVARIANT RevokedIsRefused
INVARIANT DirectoryIsRegistered
INVARIANT StartIsSound
INVARIANT AnswersAreTrue
INVARIANT StaysAwake
CHECK_DEADLOCK FALSE
