SPECIFICATION FilesSpec
CONSTANTS
    c1 = c1
    c2 = c2
    a = a
    b = b
    hello = hello
    Cut = Cut
    NoComment = NoComment
    Keep = Keep
    Conns <- Two
    Names <- TheNames
    Paths <- ThePaths
    Comments = {hello}
    Rights <- TheRights
    Preserve = {TRUE, FALSE}
    Tree <- TheTree
    MaxNodes = 8
    MaxRequests = 3
INVARIANTS
    SideEntriesFollow
    OneMaker
CHECK_DEADLOCK FALSE
