\* A log written by Log only, with writes that may stop halfway.
CONSTANTS
    c1 = c1
    c2 = c2
    c3 = c3
    l1 = l1
    l2 = l2
    small = small
    full = full
    big = big
    Client = {c1, c2}
    Logger = {l1}
    Uses <- MCShared
    Entry = {small, full, big}
    Size <- MCSize
    MaxEntrySize = 2
    Selection <- MCSelection
    Initial <- MCNoLog
    ForeignMode = {"ur", "uw", "go"}
    Umask = {"uw"}
    Absent = Absent
    NL = NL
    Nobody = Nobody
    None = None
SPECIFICATION Spec
INVARIANTS AckedReadable
