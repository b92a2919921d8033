\* One user, two challenges, two handlers at a time.
SPECIFICATION Spec
CONSTANTS
    u1 = u1  c1 = c1  c2 = c2  p1 = p1  p2 = p2
    None = None
    Users <- OneUser
    Challenges <- TwoChallenges
    Procs <- TwoProcs
    maxMFAAttempts = 2
SYMMETRY Symmetry
INVARIANTS TypeOK CodeGuessBudget CodeOpensOneSession PasswordAloneNotEnough
PROPERTY SupersededCodeIsDead
