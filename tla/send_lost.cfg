CONSTANTS
    s1 = s1
    s2 = s2
    s3 = s3
    s4 = s4
    s5 = s5
    k1 = k1
    k2 = k2
    NoKey = NoKey
    NoSend = NoSend
    Send <- MCSend
    ClientKey <- MCKey
    KeyOf <- MCKeyOf
    Failures = TRUE
    Crashes = FALSE
SPECIFICATION Spec
INVARIANT AnsweredIsBroadcast
CHECK_DEADLOCK FALSE
