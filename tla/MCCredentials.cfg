\* Two callers with every profile operation on two names, one of them the default;
\* sessions of two providers with durations of four bits; chains of up to four
\* steps over four sources, one of which changes.
CONSTANTS
    Caller = {c1, c2}
    Name = {default, work}
    Invalid = Invalid
    Empty = Empty
    Default = default
    Fields = {f1, f2}
    Cred = {secret}
    Absent = Absent
    Damaged = Damaged
    NoValue = NoValue
    Calls <- MCCalls
    MaxCalls = 3
    Begun <- MCBegun
    IOErrors = TRUE
    work = work
    f1 = f1
    k1 = k1
    k2 = k2
    NoKey = NoKey
    Given = Given
    NoSession = NoSession
    Nil = Nil
    MaxInt = 7
    Second = 2
    Provider = {NoProvider, aws}
    NoProvider = NoProvider
    BadProvider = BadProvider
    Key = {k1, k2}
    TTL <- MCTTL
    DefaultTTL = 4
    LegacyTTL <- MCLegacyTTL
    MaxTime = 7
    MaxResolves = 2
    Source = {"a", "b", "c", "d"}
    Chains <- MCChains
    Credential = {key}
    MaxChanges = 1
    NotOk = NotOk
    Blank = Blank
\* The calls and the clock come to an end, and a chain is resolved once.
CHECK_DEADLOCK FALSE
SYMMETRY PartsSymmetry
SPECIFICATION PartsSpec
INVARIANTS ReadsExplained DeleteComplete ResolveExact FirstCredential
PROPERTIES StaleOnlyIfOverlapped
