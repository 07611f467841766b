SPECIFICATION Spec
CONSTANTS
    p1 = p1
    p2 = p2
    e1 = e1
    g1 = g1
    g2 = g2
    u1 = u1
    u2 = u2
    u3 = u3
    s1 = s1
    s2 = s2
    s3 = s3
    c1 = c1
    c2 = c2
    r1 = r1
    r2 = r2
    None = None
    Project <- TwoProjects
    Email <- OneEmail
    Subject <- TwoSubjects
    User <- ThreeUsers
    State <- ThreeStates
    AuthCode <- TwoCodes
    Request <- TwoRequests
    Faults = TRUE
SYMMETRY Symmetry
INVARIANT TypeOK
INVARIANT CodesFollowTheFlow
INVARIANT OneUserPerEmail
INVARIANT GoogleUsersAreLinked
PROPERTY LinkNeedsVouchedEmail
PROPERTY ExchangeJudgesAgain
PROPERTY StatesAreOneTimeGrants
PROPERTY CodesAreOneTimeGrants
