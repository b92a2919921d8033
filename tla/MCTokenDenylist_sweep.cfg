\* Two tokens of two clients, revoked, presented and swept by two handlers.
SPECIFICATION DenylistSpec
CONSTANTS
    c1 = c1  c2 = c2  j1 = j1  j2 = j2  p1 = p1  p2 = p2  Nil = Nil
    Clients <- TwoClients
    Tokens <- TwoTokens
    Procs <- TwoProcs
    TTL = 2
    MaxTime = 5
SYMMETRY Symmetry
INVARIANTS DenylistTypeOK RevokedIsRefused
