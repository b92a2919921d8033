\* One account and one group drawing RIDs, two concurrent handlers, one reset link; fairness, hence no symmetry.
SPECIFICATION FairSpec
CONSTANTS
    u1 = u1  u2 = u2  g1 = g1  g2 = g2  w1 = w1  w2 = w2
    r1 = r1  r2 = r2  t1 = t1  t2 = t2  p1 = p1  p2 = p2
    Null = Null
    Users <- OneUser
    Groups <- OneGroup
    Passwords <- TwoPasswords
    Replicas <- OneReplica
    Tokens <- OneToken
    Procs <- TwoProcs
    MaxRID <- ThreeRIDs
INVARIANTS TypeOK NTHashMatchesPassword ResetLinkActsOnce RIDsIdentify PublishedSIDsStand
PROPERTIES KeepsPasswordRecord LocksAreReleased
