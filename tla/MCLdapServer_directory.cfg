\* Every directory is loaded; a connection under five of them, one of which does
\* not load, and three configurations; u1 gets an NT hash and groups get RIDs meanwhile.
SPECIFICATION Spec
CONSTANTS
    Attributes = {"a", "b", "uid"}
    ReservedNames = {"uid", "objectClass"}
    Values = {"0", "1", "2", "3", "4", "map"}
    Unrepresentable = {"map"}
    Trees <- MCTrees
    Served <- MCServed
    Configs <- MCConfigs
    BindRequests <- MCBindRequests
    Filters <- MCFilters
    Queries <- MCQueries
    PageSizes = {0, 3}
    StaleCookies = {4}
    Passwords <- MCPasswords
    DNOrder <- MCDNOrder
INVARIANTS
    TypeOK
    LoadIsExact
    PagesEnumerate
    PrivilegeIsEarned
