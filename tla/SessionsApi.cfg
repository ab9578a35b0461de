SPECIFICATION Spec
CONSTANTS
    c1 = c1
    c2 = c2
    root = root
    guest = guest
    neo = neo
    p1 = p1
    Conns <- TwoConns
    IPs <- OneIP
    IPOf <- TheIPOf
    Logins <- TheLogins
    Nicks <- TheNicks
    AccountName <- TheName
    Admins <- TheEmpty
    Protected <- TheEmpty
    AnyName <- JustGuest
    BanRequests <- AllRequests
    IDSpace = 3
    MaxRequests = 1
    MaxApi = 1
    NoConn = NoConn
    NoName = NoName
INVARIANTS
    BanDisconnects
SYMMETRY ConnSymmetry
CHECK_DEADLOCK FALSE
