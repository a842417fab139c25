SPECIFICATION Spec
CONSTANTS
    p1 = p1
    p2 = p2
    c1 = c1
    c2 = c2
    x1 = x1
    x2 = x2
    Processes = {p1, p2}
    Skew <- MCSkew
    Clients = {c1, c2}
    Local = {c2}
    Proxies = {x1, x2}
    Appending = {x1}
    Users = {}
    NoUser = NoUser
    NoAddress = NoAddress
    FailOpen = TRUE
    Limit = 1
    Window = 3
    MaxSkew = 1
    MaxDelay = 1
    MaxRoute = 3
    MaxSupplied = 2
    MaxRuns = 3
    MaxFaults = 1
    MaxNow = 5
INVARIANTS LimitKept LockoutEnds ChargedToSender
CHECK_DEADLOCK FALSE
