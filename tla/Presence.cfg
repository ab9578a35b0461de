SPECIFICATION FairSpec
CONSTANTS
    c1 = c1
    c2 = c2
    root = root
    guest = guest
    e1 = e1
    e2 = e2
    Conns <- TwoConns
    Logins <- Edited
    LoginOf <- TheLoginOf
    Admins <- TheAdmins
    Askers <- TheAskers
    IdleLimit = 1
    MaxRequests = 1
    Editors <- TwoEditors
    MaxEdits = 2
    Grants = {FALSE}
    Choices <- OneChoice
INVARIANTS
    TypeOK
    ChangeIsAnnounced
    AwayMeansIdle
PROPERTIES
    InactiveGoesAway
    NobodyIsHeldUp
