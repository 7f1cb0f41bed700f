\* Three goroutines with two Loggers, records below, at and over the bound.
CONSTANTS
    c1 = c1
    c2 = c2
    c3 = c3
    l1 = l1
    l2 = l2
    small = small
    full = full
    big = big
    Client = {c1, c2, c3}
    Logger = {l1, l2}
    Uses <- MCUses
    Entry = {small, full, big}
    Size <- MCSize
    MaxEntrySize = 2
    Selection <- MCSelection
    Initial <- MCInitial
    ForeignMode = {"ur", "uw", "go"}
    Umask = {"uw"}
    Absent = Absent
    NL = NL
    Nobody = Nobody
    None = None
SPECIFICATION Spec
SYMMETRY MCSymmetry
INVARIANTS OpensSafely DamageBounded QueryExact
