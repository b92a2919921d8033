\* Two replicas, three keys and two rotations; fairness, hence no symmetry.
SPECIFICATION FairSpec
CONSTANTS
    r1 = r1  r2 = r2  None = None
    Replicas <- TwoReplicas
    Interval = 2
    Overlap = 3
    TokenTTL = 1
    Stale = 1
    MaxKeys = 3
    MaxTime = 4
INVARIANTS TypeOK ExactlyOneSigner TokensVerifyEverywhere ServingReplicaCanSign
PROPERTY RetiredSignerIsDropped
