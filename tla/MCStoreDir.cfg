\* Two callers, a path of two components below the root, one rename by another
\* program; descriptors of up to two entries in a buffer of 48 bytes, well-formed ones
\* and ones whose parts lie at and around its limits.
CONSTANTS
    d1 = d1
    d2 = d2
    d3 = d3
    d4 = d4
    Proc = {p1, p2}
    Dir = {d1, d2, d3, d4}
    Top = Top
    Foreign = Foreign
    Link = Link
    File = File
    None = None
    Depth = 2
    Initial <- MCInitial
    StartMode <- MCStartMode
    ForeignMode = {"ur", "uw", "ux", "go"}
    Umask = {"uw"}
    MaxSwaps = 1
    Missing = Missing
    User = User
    System = System
    Administrators = Administrators
    Outsiders = {everyone}
    FileObject <- MCFileObject
    Directory = {d1, d2}
    Descriptor <- MCDescriptor
    MaxChanges = 1
    Invalid = Invalid
    Null = Null
SPECIFICATION PartsSpec
SYMMETRY MCSymmetry
INVARIANTS ForeignUntouched MkdirRaceHarmless  AclExact
