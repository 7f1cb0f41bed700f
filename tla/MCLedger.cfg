\* Two goroutines, up to two entries, a clock of three instants; health reports on
\* ledgers of up to three entries, with a clock of four instants and one change.
CONSTANTS
    Entry <- MCEntry
    Unencodable <- MCUnencodable
    Request <- MCRequest
    NoRequest = NoRequest
    NoFile = NoFile
    Corrupt = Corrupt
    Client = {c1, c2}
    Nobody = Nobody
    MaxTime = 2
    MaxLen = 2
    Files <- MCFiles
    Provider = "gh"
    Windows <- MCWindows
    LastTime = 3
    MaxChanges = 1
SPECIFICATION PartsSpec
INVARIANTS SnapshotCurrent ReportExact
PROPERTIES Transactional ImplementsTokenLedger
