\* Two goroutines of each kind.
CONSTANTS
    c1 = c1
    c2 = c2
    Nobody = Nobody
    None = None
    NoFile = NoFile
    Corrupt = Corrupt
    NoRequest = NoRequest
    log = log
    small = small
    full = full
    big = big
    Absent = Absent
    NL = NL
    r1 = r1
    r2 = r2
    t0 = t0
    t1 = t1
    NoToken = NoToken
    NoResult = NoResult
    h1 = h1
    h2 = h2
    w1 = w1
    w2 = w2
    x1 = x1
    x2 = x2
    NoQuery = NoQuery
    Canceled = Canceled
SPECIFICATION FairSpec
PROPERTIES LedgerCallsEnd LogCallsEnd RotationsEnd RequestsAnswered WaitReturns CloseReleases
