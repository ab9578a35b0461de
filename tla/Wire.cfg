SPECIFICATION Spec
CONSTANTS
    W = 16
    Chunk = 8
    MaxToken = 16
    Requests <- TheRequests
    Pushes <- ThePushes
    Unanswered = {2}
    Pieces <- ThePieces
INVARIANTS
    ReceivedAsSent
    RepliesFindRequests
PROPERTY
    AllArrive
CHECK_DEADLOCK FALSE
