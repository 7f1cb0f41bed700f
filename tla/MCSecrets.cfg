\* Two callers; files: four keys, two of them valid, and two values; keychain: a plain
\* secret and the one that looks like its encoding, one write of another program.
CONSTANTS
    Client = {c1, c2}
    SecretValue = {v1, v2}
    NoSecret = NoSecret
    Unreadable = Unreadable
    NoRequest = NoRequest
    NUL = NUL
    a = a
    b = b
    SecretKey <- MCKey
    Base = {s1}
    theKey = theKey
    Junk = Junk
    MaxForeign = 1
SYMMETRY MCSymmetry
SPECIFICATION PartsSpec
INVARIANTS WrongOnlyAfterTwoFlips
PROPERTIES FilesImplementStore KeychainImplementsStore
