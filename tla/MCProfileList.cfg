\* Two callers that list, save, update and delete; no system call fails by itself.
CONSTANTS
    Caller = {c1, c2}
    Name = {default, work}
    Invalid = Invalid
    Empty = Empty
    Default = default
    Fields = {f1, f2}
    Cred = {key}
    Absent = Absent
    Damaged = Damaged
    NoValue = NoValue
    Calls <- MCListCalls
    MaxCalls = 3
    Begun <- MCBegun
    IOErrors = FALSE
    work = work
    f1 = f1
\* The calls come to an end.
CHECK_DEADLOCK FALSE
SYMMETRY MCSymmetry
SPECIFICATION Spec
INVARIANT ListAll
