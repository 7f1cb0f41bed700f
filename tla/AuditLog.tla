------------------------------ MODULE AuditLog ------------------------------
(***************************************************************************)
(* audit/audit.go and store.OpenAppendSecure: goroutines that log to and   *)
(* query one audit file through Logger instances, each with a mutex of its *)
(* own and possibly in a process of its own.  The file is a sequence of    *)
(* cells: <<e, k>> is the k-th part of the encoding of entry e, NL a line  *)
(* ending.  A write appends everything or, when the disk fills up or the   *)
(* process dies, a proper prefix.  Nobody removes the file meanwhile, and  *)
(* links and special files are the subject of SecureFile.                  *)
(***************************************************************************)
EXTENDS Integers, Sequences, FiniteSets, SequencesExt, StorePermissions

CONSTANTS Client,        \* the goroutines
          Logger,        \* the Logger instances
          Uses,          \* which Logger a goroutine calls
          Entry, Size,   \* the records and their encoded sizes
          MaxEntrySize,
          Selection,     \* what (since, provider) lets through, as sets
          Initial,       \* the logs the program may find
          ForeignMode,   \* the mode another tool gave such a log
          Umask,
          Absent, NL, Nobody, None

Cell == (Entry \X Nat) \cup {NL}

\* No record is in f twice.
Unique(f) == \A i, j \in 1..Len(f) : f[i] = f[j] /\ f[i] # NL => i = j

ASSUME AuditAssumption ==
    /\ Uses \in [Client -> Logger]
    /\ Size \in [Entry -> Nat \ {0}]
    /\ MaxEntrySize \in Nat \ {0}
    /\ Selection \subseteq SUBSET Entry
    /\ Nobody \notin Client /\ None \notin Entry
    /\ ForeignMode \subseteq Bits /\ Umask \subseteq Bits
    /\ NL \notin Entry \X Nat /\ Absent \notin Seq(Cell)
    /\ Initial \subseteq Seq(Cell) \cup {Absent}
    /\ \A f \in Initial \ {Absent} : Unique(f)

\* json.Marshal, and the bytes that Log hands to Write.
Body(e) == [k \in 1..Size[e] |-> <<e, k>>]
Bytes(e) == Append(Body(e), NL)

PC == {"idle", "size", "lock", "stat", "open", "write", "query", "scan", "done"}

\* Where a goroutine holds l.mu.
Critical == {"stat", "open", "write"}

Result == {"none", "ok", "toolarge", "unsafe", "err"}

VARIABLES file, mode,
          mu,      \* the holder of each Logger's mutex
          pc,
          entry,   \* the entry a Log appends
          want,    \* the entries a Query selects
          seen,    \* whether openManagedFile's Lstat found the file
          tries,   \* its passes through the loop
          pos,     \* how far a scanner has got
          got,     \* the entries a Query has collected
          ret,
          logged,  \* history: entries some Log was called with, or that were there
          acked,   \* history: entries whose Log returned nil
          known,   \* history: acked when the Query began
          torn     \* history: writes that left a fragment behind, an earlier
                   \* program's included

disk == <<file, mode>>
opening == <<seen, tries>>
reading == <<want, pos, got, known>>
history == <<logged, acked, torn>>
vars == <<disk, mu, pc, entry, opening, reading, ret, history>>

TypeOK ==
    /\ file \in Seq(Cell) \cup {Absent}
    /\ mode \in SUBSET Bits
    /\ mu \in [Logger -> Client \cup {Nobody}]
    /\ pc \in [Client -> PC]
    /\ entry \in [Client -> Entry \cup {None}]
    /\ want \in [Client -> SUBSET Entry]
    /\ seen \in [Client -> BOOLEAN]
    /\ tries \in [Client -> 0..2]
    /\ pos \in [Client -> Nat]
    /\ got \in [Client -> Seq(Entry)]
    /\ ret \in [Client -> Result]
    /\ logged \in SUBSET Entry /\ acked \in SUBSET logged
    /\ known \in [Client -> SUBSET Entry]
    /\ torn \in Nat

\* The entries of which something is in f.
Mentioned(f) == {e \in Entry : f # Absent /\ \E i \in 1..Len(f) : f[i] # NL /\ f[i][1] = e}

\* The last line of f is without an ending.
Dangling(f) == f \notin {Absent, <<>>} /\ f[Len(f)] # NL

Init ==
    /\ file \in Initial
    /\ mode = IF file = Absent THEN {} ELSE ForeignMode
    /\ mu = [l \in Logger |-> Nobody]
    /\ pc = [c \in Client |-> "idle"]
    /\ entry = [c \in Client |-> None]
    /\ want = [c \in Client |-> {}]
    /\ seen = [c \in Client |-> FALSE]
    /\ tries = [c \in Client |-> 0]
    /\ pos = [c \in Client |-> 0]
    /\ got = [c \in Client |-> <<>>]
    /\ ret = [c \in Client |-> "none"]
    /\ logged = Mentioned(file) /\ acked = {}
    /\ torn = IF Dangling(file) THEN 1 ELSE 0
    /\ known = [c \in Client |-> {}]

Goto(c, l) == pc' = [pc EXCEPT ![c] = l]

Answer(c, r) == Goto(c, "done") /\ ret' = [ret EXCEPT ![c] = r]

\* Mutant: only the successful return of Log releases the mutex.
Unlock_OnSuccessOnly(c, r) == mu' = IF r = "ok" THEN [mu EXCEPT ![Uses[c]] = Nobody] ELSE mu

\* The deferred Unlock of Log.
Unlock(c, r) == mu' = [mu EXCEPT ![Uses[c]] = Nobody]

\* Log returns r while it holds the mutex; the open file is closed.
Finish(c, r) ==
    /\ Answer(c, r) /\ Unlock(c, r)
    /\ seen' = [seen EXCEPT ![c] = FALSE]
    /\ tries' = [tries EXCEPT ![c] = 0]

BeginLog(c) ==
    /\ pc[c] = "idle"
    /\ \E e \in Entry \ logged :
          /\ entry' = [entry EXCEPT ![c] = e]
          /\ logged' = logged \cup {e}
    /\ Goto(c, "size")
    /\ UNCHANGED <<disk, mu, opening, reading, ret, acked, torn>>

Fits(n) == n <= MaxEntrySize

\* The encoded entry is measured before the mutex is taken.
CheckSize(c) ==
    /\ pc[c] = "size"
    /\ IF Fits(Size[entry[c]])
         THEN Goto(c, "lock") /\ UNCHANGED ret
         ELSE Answer(c, "toolarge")
    /\ UNCHANGED <<disk, mu, entry, opening, reading, history>>

Lock(c) ==
    /\ pc[c] = "lock"
    /\ mu[Uses[c]] = Nobody
    /\ mu' = [mu EXCEPT ![Uses[c]] = c]
    /\ Goto(c, "stat")
    /\ UNCHANGED <<disk, entry, opening, reading, ret, history>>

\* EnsureDir and openParent have found the directory; regularInfo looks for the
\* file.
Stat(c) ==
    /\ pc[c] = "stat"
    /\ seen' = [seen EXCEPT ![c] = file # Absent]
    /\ tries' = [tries EXCEPT ![c] = @ + 1]
    /\ Goto(c, "open")
    /\ UNCHANGED <<disk, mu, entry, reading, ret, history>>

\* Mutant: openManagedFile gives up at the first collision.
MayRetry_Never(n) == FALSE

\* for range 2
MayRetry(n) == n < 2

\* openManagedFile's flags say that this is a write, which repairs the mode.
Secured(m) == securePermissions(m, FilePerm, TRUE).mode

\* The file that Lstat found is opened as it is; a missing one is created with
\* O_EXCL, which fails when another Logger was faster.
Open(c) ==
    /\ pc[c] = "open"
    /\ \/ /\ seen[c]
          /\ mode' = Secured(mode)
          /\ Goto(c, "write")
          /\ UNCHANGED <<file, mu, opening, ret>>
       \/ /\ ~seen[c] /\ file = Absent
          /\ file' = <<>>
          /\ mode' = Secured(FilePerm \ Umask)
          /\ Goto(c, "write")
          /\ UNCHANGED <<mu, opening, ret>>
       \/ /\ ~seen[c] /\ file # Absent
          /\ IF MayRetry(tries[c])
               THEN Goto(c, "stat") /\ UNCHANGED <<mu, opening, ret>>
               ELSE Finish(c, "unsafe")
          /\ UNCHANGED disk
    /\ UNCHANGED <<entry, reading, history>>

\* The directory or the file cannot be opened.
OpenFails(c) ==
    /\ pc[c] \in {"stat", "open"}
    /\ Finish(c, "err")
    /\ UNCHANGED <<disk, entry, reading, history>>

\* The file after an O_APPEND write of s.
Appended(s) == file \o s

Write(c) ==
    /\ pc[c] = "write"
    /\ file' = Appended(Bytes(entry[c]))
    /\ acked' = acked \cup {entry[c]}
    /\ Finish(c, "ok")
    /\ UNCHANGED <<mode, entry, reading, logged, torn>>

\* A proper prefix of what Log writes for e has reached the file.
Tear(e) ==
    \E n \in 0..Size[e] :
        /\ file' = Appended(SubSeq(Bytes(e), 1, n))
        /\ torn' = torn + IF n = 0 THEN 0 ELSE 1

\* Mutant: the error of Write is dropped.
ShortResult_Dropped(c) == Finish(c, "ok") /\ acked' = acked \cup {entry[c]}

ShortResult(c) == Finish(c, "err") /\ UNCHANGED acked

\* Write fails; what it appended stays.
WriteFails(c) ==
    /\ pc[c] = "write"
    /\ Tear(entry[c])
    /\ ShortResult(c)
    /\ UNCHANGED <<mode, entry, reading, logged>>

BeginQuery(c) ==
    /\ pc[c] = "idle"
    /\ \E s \in Selection : want' = [want EXCEPT ![c] = s]
    /\ Goto(c, "query")
    /\ known' = [known EXCEPT ![c] = acked]
    /\ UNCHANGED <<disk, mu, entry, opening, pos, got, ret, history>>

\* os.Open.  A log that does not exist has no entries.  Query takes no lock.
OpenQuery(c) ==
    /\ pc[c] = "query"
    /\ IF file = Absent THEN Answer(c, "ok") ELSE Goto(c, "scan") /\ UNCHANGED ret
    /\ UNCHANGED <<disk, mu, entry, opening, reading, history>>

\* Where the line after cell p ends; the end of the file ends the last one.
LineEnd(p) ==
    LET E == {n \in p + 1..Len(file) : file[n] = NL}
    IN  IF E = {} THEN Len(file) + 1 ELSE CHOOSE n \in E : \A m \in E : n <= m

\* The scanner has returned everything up to the end of the file.
AtEnd(p) == p >= Len(file)

\* json.Unmarshal accepts a whole record and nothing else: a fragment of one,
\* or a record with a fragment in front, is malformed.
Decodes(line, e) == line = Body(e)

\* Mutant: the first malformed line ends the scan.
AfterLine_StopsAtMalformed(c, line, end) ==
    IF end <= Len(file) /\ \E e \in Entry : Decodes(line, e)
      THEN Goto(c, "scan") /\ UNCHANGED ret
      ELSE Answer(c, "ok")

\* Whatever is on a line, the scan goes on with the next one.  A line without
\* an ending was returned because the scanner has seen the end of the file, and
\* it never reads again.
AfterLine(c, line, end) ==
    IF end <= Len(file) THEN Goto(c, "scan") /\ UNCHANGED ret ELSE Answer(c, "ok")

\* e.Timestamp.Before(since) and the provider.
Selected(c, e) == e \in want[c]

\* What a line adds to the answer: at most one entry.
Collected(c, line) == SetToSeq({e \in Entry : Decodes(line, e) /\ Selected(c, e)})

\* One turn of the scanner loop.  A line over the bound ends the Query with the
\* entries collected so far; empty and malformed lines are skipped.
Scan(c) ==
    /\ pc[c] = "scan" /\ ~AtEnd(pos[c])
    /\ LET end  == LineEnd(pos[c])
           line == SubSeq(file, pos[c] + 1, end - 1)
       IN  IF Len(line) > MaxEntrySize
             THEN Answer(c, "toolarge") /\ UNCHANGED <<pos, got>>
             ELSE /\ pos' = [pos EXCEPT ![c] = end]
                  /\ got' = [got EXCEPT ![c] = @ \o Collected(c, line)]
                  /\ AfterLine(c, line, end)
    /\ UNCHANGED <<disk, mu, entry, opening, want, known, history>>

ScanEnd(c) ==
    /\ pc[c] = "scan" /\ AtEnd(pos[c])
    /\ Answer(c, "ok")
    /\ UNCHANGED <<disk, mu, entry, opening, reading, history>>

\* os.Open or a read of the scanner fails.
QueryFails(c) ==
    /\ pc[c] \in {"query", "scan"}
    /\ Answer(c, "err")
    /\ UNCHANGED <<disk, mu, entry, opening, reading, history>>

Forget(C) ==
    /\ pc' = [c \in Client |-> IF c \in C THEN "idle" ELSE pc[c]]
    /\ entry' = [c \in Client |-> IF c \in C THEN None ELSE entry[c]]
    /\ want' = [c \in Client |-> IF c \in C THEN {} ELSE want[c]]
    /\ seen' = [c \in Client |-> seen[c] /\ c \notin C]
    /\ tries' = [c \in Client |-> IF c \in C THEN 0 ELSE tries[c]]
    /\ pos' = [c \in Client |-> IF c \in C THEN 0 ELSE pos[c]]
    /\ got' = [c \in Client |-> IF c \in C THEN <<>> ELSE got[c]]
    /\ ret' = [c \in Client |-> IF c \in C THEN "none" ELSE ret[c]]
    /\ known' = [c \in Client |-> IF c \in C THEN {} ELSE known[c]]

\* The caller takes the result.
Return(c) ==
    /\ pc[c] = "done"
    /\ Forget({c})
    /\ UNCHANGED <<disk, mu, history>>

\* The process that owns Logger l dies with its goroutines, perhaps in the
\* middle of a write, and starts again.
Crash(l) ==
    /\ \E c \in Client : Uses[c] = l /\ pc[c] # "idle"
    /\ Forget({c \in Client : Uses[c] = l})
    /\ mu' = [mu EXCEPT ![l] = Nobody]
    /\ IF mu[l] # Nobody /\ pc[mu[l]] = "write"
         THEN Tear(entry[mu[l]])
         ELSE UNCHANGED <<file, torn>>
    /\ UNCHANGED <<mode, logged, acked>>

Step(c) ==
    \/ CheckSize(c) \/ Lock(c) \/ Stat(c) \/ Open(c) \/ OpenFails(c)
    \/ Write(c) \/ WriteFails(c)
    \/ OpenQuery(c) \/ Scan(c) \/ ScanEnd(c) \/ QueryFails(c)
    \/ Return(c)

Next ==
    \/ \E c \in Client : BeginLog(c) \/ BeginQuery(c) \/ Step(c)
    \/ \E l \in Logger : Crash(l)

Spec == Init /\ [][Next]_vars

\* A goroutine inside a call keeps running, and sync.Mutex hands the lock to a
\* waiter that has been starving.
Fairness == \A c \in Client : WF_vars(Step(c)) /\ SF_vars(Lock(c))

-----------------------------------------------------------------------------
\* Entry e has a line to itself whose first cell is i + 1.
LineAt(e, i) ==
    LET n == i + Size[e]
    IN  /\ n <= Len(file) /\ SubSeq(file, i + 1, n) = Body(e)
        /\ i = 0 \/ file[i] = NL
        /\ n = Len(file) \/ file[n + 1] = NL

Intact(e) == file # Absent /\ \E i \in 0..Len(file) : LineAt(e, i)

\* Loggers that create the log at the same moment do not fail each other: as
\* long as nobody removes files, the second pass of openManagedFile succeeds
\* (root.go:147-176).
CreationRaceHarmless == \A c \in Client : ret[c] # "unsafe"

\* A record is only ever written to a log that nobody else can read, even if
\* another tool created the log with a wider mode (root.go:170, README.md:191).
AppendsPrivate == \A c \in Client : pc[c] = "write" => Private(mode, FilePerm)

\* Opening the log for appending: creators do not fail each other, and whichever of
\* them comes first, none writes where others can read (root.go:145-177, 239-257).
OpensSafely == CreationRaceHarmless /\ AppendsPrivate

\* A write that fails or dies halfway costs at most one of the records that Log
\* acknowledged; without one, every acknowledged record is on a line of its own
\* (audit.go:64-74).
DamageBounded == Cardinality({e \in acked : ~Intact(e)}) <= torn

\* A Query that returns no error has every selected record that was
\* acknowledged before it began and is still on a line of its own, whatever
\* was appended, torn or malformed in between (audit.go:79-124).
QueryComplete ==
    \A c \in Client : (pc[c] = "done" /\ ret[c] = "ok") =>
        {e \in known[c] \cap want[c] : Intact(e)} \subseteq Range(got[c])

\* What a Query returns, with or without an error, are selected records in the
\* order of the log, none of them twice (audit.go:92-115).
QuerySound ==
    LET Start(e) == CHOOSE i \in 1..Len(file) : file[i] = <<e, 1>>
    IN  \A c \in Client : \A i \in 1..Len(got[c]) :
            /\ got[c][i] \in want[c]
            /\ \A j \in 1..i - 1 : Start(got[c][j]) < Start(got[c][i])

\* A Query stops at a line over the bound only in a log that holds a fragment or
\* something that Log did not acknowledge: whatever Log accepts whole, Query can
\* read (audit.go:56-58, 91-97).
BoundShared ==
    \A c \in Client : (pc[c] = "done" /\ entry[c] = None /\ ret[c] = "toolarge") =>
        torn > 0 \/ \E i \in 1..Len(file) : file[i] # NL /\ file[i][1] \notin acked

\* What a Query answers while others log and tear: everything it should have, nothing
\* it should not, and it gives up only where no Log can be blamed (audit.go:79-124).
QueryExact == QueryComplete /\ QuerySound /\ BoundShared

\* "Log and Query share this bound to keep records readable" (audit.go:20): a
\* Query that reads the log to the end, or to the bound, has every selected
\* record that Log acknowledged before it began.
AckedReadable ==
    \A c \in Client : (pc[c] = "done" /\ ret[c] \in {"ok", "toolarge"}) =>
        known[c] \cap want[c] \subseteq Range(got[c])
=============================================================================
