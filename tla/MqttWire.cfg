CONSTANTS
    r = r
    u = u
    R = r
    U = u
    Nobody = nobody
    Senders <- MCSenders
    Requests <- MCRequests
    Pushes <- MCPushes
    MaxPushes = 2
    MaxAsked = 2
    HttpMax = 6
    Radix = 4
SPECIFICATION MCSpec
INVARIANTS ReadsWhatWasSent SeenAsSent NothingHeld NothingInClear
