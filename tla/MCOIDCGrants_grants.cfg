\* A web session, one code, two more sessions; two handlers at a time.
SPECIFICATION Spec
CONSTANTS
    c1 = c1  c2 = c2  x1 = x1  v1 = v1  k1 = k1
    s1 = s1  s2 = s2  s3 = s3  p1 = p1  p2 = p2
    None = None  WebUI = WebUI
    Clients <- TwoClients
    Public <- OneClient
    URIs <- OneURI
    Verifiers <- OneVerifier
    Codes <- OneCode
    Sessions <- ThreeSessions
    Procs <- TwoProcs
    MaxSecret = 2
SYMMETRY Symmetry
INVARIANTS TypeOK CodeOpensOneSession SecretEarnsOnce
PROPERTY RevocationIsFinal
