\* Three requests, two Waits, one Close; two token requests, with durations of four
\* bits; three logins with and without PKCE, each URL opened up to twice.
CONSTANTS
    Hit = {h1, h2, h3}
    Waiter = {w1, w2}
    Closer = {c1}
    Query <- MCQuery
    Expected <- MCExpected
    Path = "cb"
    Nobody = Nobody
    NoQuery = NoQuery
    None = None
    Canceled = Canceled
    Request = {r1, r2}
    Redirect = Redirect
    Nil = Nil
    MaxInt = 7
    Second = 2
    Limit = 1
    Answer <- MCAnswer
    MaxTime = 4
    Login = {l1, l2, l3}
    NoLogin = NoLogin
    stale = stale
    Preset <- MCPreset
    MaxVisits = 2
SPECIFICATION PartsSpec
SYMMETRY PartsSymmetry
INVARIANTS DeliveredOnce OnlyOurLogin SecretsStay TokenExact LoginsApart
