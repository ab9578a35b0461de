SPECIFICATION Spec
CONSTANTS
    Conns = {c1, c2, c3}
    ChatIDs = {k1}
    Subjects = {s1, s2}
    NoSubject = NoSubject
    NoChat = NoChat
    CanOpen = {c1, c2, c3}
    CanSend = {c1, c2, c3}
    CanRead = {c1, c2, c3}
    Refusers = {c3}
    MaxRequests = 5
SYMMETRY ConnSymmetry
INVARIANTS
    PrivateStaysPrivate
    SubjectReachesMembers
    OneSeesTheOther
    LeftIsForgotten
CHECK_DEADLOCK FALSE
