CONSTANTS
    alice = alice
    NoSocket = NoSocket
    User = {alice}
    Conversation = {c1, c2}
    Socket = {a1, a2}
    UserOf <- MCUserOf
    Handler = {h1, h2, h3, h4}
SPECIFICATION FairTypingSpec
INVARIANT ShownIsTyping
PROPERTY EndsForCause
PROPERTY IndicatorEnds
CHECK_DEADLOCK FALSE
