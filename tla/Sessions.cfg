SPECIFICATION FairSpec
CONSTANTS
    c1 = c1
    c2 = c2
    root = root
    guest = guest
    neo = neo
    p1 = p1
    Conns <- TwoConns
    IPs <- OneIP
    IPOf <- TheIPOf
    Logins <- TheLogins
    Nicks <- TheNicks
    AccountName <- TheName
    Admins <- JustRoot
    Protected <- JustRoot
    AnyName <- JustGuest
    BanRequests <- AllRequests
    IDSpace = 3
    MaxRequests = 1
    MaxApi = 0
    NoConn = NoConn
    NoName = NoName
INVARIANTS
    TypeOK
    NoGhostClient
    CountMatchesSessions
    ServedIsListed
    DeletedAccountEvicted
PROPERTIES
    EvictedLeaves
CHECK_DEADLOCK FALSE
