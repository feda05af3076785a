CONSTANTS
    alice = alice
    NoUser = NoUser
    User = {alice}
    Socket = {a1, a2, a3}
    UserOf <- MCUserOf
    Failures = TRUE
    MaxCrashes = 1
    LastMessage = 3
    Text = {1, 2}
    Call = {"c1", "c2"}
    Limit = 1
    LastTime = 2
    Entry <- MCEntry
    PageLimit = 2
    LastUpdate = 4
    Member = {"ann", "ben"}
    Client = {"s1", "s2"}
    ClientOf <- MCClientOf
    Request = {"r1", "r2"}
    Publication = {"m"}
SPECIFICATION FairSideSpec
INVARIANT RowIsTrue
PROPERTY ArrivalIsTold
INVARIANT WalkIsComplete
PROPERTY DeletionStands
INVARIANT ViewsAreCurrent
INVARIANT UntouchedAreSeen
PROPERTY PublicationsReachMembers
CHECK_DEADLOCK FALSE
