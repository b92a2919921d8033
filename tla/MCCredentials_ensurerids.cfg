\* The first search after a group is declared.
SPECIFICATION Spec
CONSTANTS
    u1 = u1  u2 = u2  g1 = g1  g2 = g2  w1 = w1  w2 = w2
    r1 = r1  r2 = r2  t1 = t1  t2 = t2  p1 = p1  p2 = p2
    Null = Null
    Users <- OneUser
    Groups <- TwoGroups
    Passwords <- OnePassword
    Replicas <- OneReplica
    Tokens <- NoTokens
    Procs <- TwoProcs
    MaxRID <- FourRIDs
INVARIANT EnsureRIDsReturnsEveryName
