\* Two accounts that share a browser, one passkey, registered before or not,
\* and two ceremonies; two handlers at a time.
SPECIFICATION Spec
CONSTANTS
    u1 = u1  u2 = u2  k1 = k1  x1 = x1  x2 = x2  p1 = p1  p2 = p2
    None = None
    Users <- TwoUsers
    Keys <- OneKey
    Ceremonies <- TwoCeremonies
    Procs <- TwoProcs
    MaxCount = 1
SYMMETRY Symmetry
INVARIANTS TypeOK CeremonyActsOnce PasskeyKeepsOwner
PROPERTY DeletedPasskeyIsDead
