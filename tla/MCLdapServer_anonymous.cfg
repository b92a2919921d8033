SPECIFICATION Spec
CONSTANTS
    Attributes = {"a", "b", "uid"}
    ReservedNames = {"uid", "objectClass"}
    Values = {"0", "1", "2", "3", "4", "map"}
    Unrepresentable = {"map"}
    Trees <- MCServed
    Served <- MCServed
    Configs <- MCConfigsSamba
    BindRequests <- MCBindRequests
    Filters <- MCFilters
    Queries <- MCQueries
    PageSizes = {0, 3}
    StaleCookies = {4}
    Passwords <- MCPasswords
    DNOrder <- MCDNOrder
INVARIANTS
    NeverAnonymous
