\* Two failures that both find no row.
SPECIFICATION FairSpec
CONSTANTS
    a1 = a1  i1 = i1  p1 = p1  p2 = p2  None = None
    Accounts <- OneAccount
    IPs <- OneIP
    Procs <- TwoProcs
    UserParams <- ShortUser
    IPParams <- ShortIP
    Width = 3
    Slow = 1
    MaxCount = 5
PROPERTY RecordFailureIncrements
