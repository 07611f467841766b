SPECIFICATION Spec
CONSTANTS
    p1 = p1
    p2 = p2
    n1 = n1
    n2 = n2
    k1 = k1
    k2 = k2
    u1 = u1
    u2 = u2
    t1 = t1
    r1 = r1
    r2 = r2
    None = None
    Project <- TwoProjects
    Name <- TwoNames
    Role <- TwoRoles
    RoleProject <- OneRoleEach
    DefaultRole <- DefaultInOne
    User <- TwoUsers
    Token <- OneToken
    Request <- TwoRequests
    Faults = TRUE
SYMMETRY Symmetry
INVARIANT TypeOK
INVARIANT OneUserPerIdentifier
INVARIANT TenantIsolation
PROPERTY BornWithDefaultRole
PROPERTY ClaimsOfThisRequest
