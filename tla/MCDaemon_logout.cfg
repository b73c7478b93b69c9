CONSTANTS
    top = top
    sub = sub
    bad = bad
    Items = {top, sub, bad}
    Nil = Nil
    Requests = {r1}
    Loader = Loader
    FirstParent <- MCFirstParent
    Broken = {bad}
    Listing <- MCListing
    Edits <- MCEdits
    MaxPermits = 3
    Tokens = {t1, t2}
    Sequential = {t1}
    Tasks = {k1}
    TokenLife = 0
    EventLife = 0
    MaxTime = 1
    e1 = e1
    e2 = e2
    w1 = w1
    w2 = w2
    Elements = {e1, e2}
    Keys = {k1, k2}
    NoKey = NoKey
    Workers = {w1, w2}
    Nobody = Nobody
    Clients <- MCClients
SPECIFICATION DSpec
INVARIANT LogoutRetires
CHECK_DEADLOCK FALSE
