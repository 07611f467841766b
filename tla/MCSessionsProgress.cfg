SPECIFICATION FairSpec
CONSTANTS
    r1 = r1
    r2 = r2
    s1 = s1
    s2 = s2
    t1 = t1
    t2 = t2
    t3 = t3
    t4 = t4
    t5 = t5
    u1 = u1
    u2 = u2
    NoRow = NoRow
    NoUser = NoUser
    NoSession = NoSession
    NoToken = NoToken
    User <- OneUser
    Session <- TwoSessions
    Token <- FiveTokens
    Request <- TwoRequests
    Faults = FALSE
PROPERTY Progress
CONSTRAINT DrawnInOrder
ACTION_CONSTRAINT ExpiresEarly
