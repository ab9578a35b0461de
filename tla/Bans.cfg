SPECIFICATION SystemSpec
CONSTANTS
    IPs = {p1, p2}
    Users = {u1}
    Nicks = {n1}
    None = None
    Perm = Perm
    BanDuration = 1
    MaxTime = 1
SYMMETRY MCSymmetry
INVARIANTS
    TrustedFileIsCurrent
    CheckIsRight
PROPERTIES
    ImplementsBanMgr
    RedisImplementsBanMgr
