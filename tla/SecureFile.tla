----------------------------- MODULE SecureFile -----------------------------
(***************************************************************************)
(* The file operations of store/root.go below an opened managed directory: *)
(* WriteSecureAt, ReadSecureAt, RemoveSecureAt and ExistsSecureAt, each as *)
(* the sequence of file-system calls it makes, interleaved with those of   *)
(* any number of concurrent callers.  Each caller may be killed between    *)
(* two calls, any call may fail, and other programs may chmod a file.      *)
(*                                                                         *)
(* A name is a directory entry for an inode; inode numbers are reused as   *)
(* soon as no entry and no open descriptor refers to them, which is what   *)
(* os.SameFile has to cope with.  The random ".credkit-write-*" entries    *)
(* are kept apart from the names: staged[p] is the one caller p is filling *)
(* and orphans are those whose owner was killed or could not remove them.  *)
(***************************************************************************)
EXTENDS StorePermissions

CONSTANTS Proc, Name, Value,
          Inode,        \* inode numbers
          NoInode,      \* no directory entry, no descriptor
          NoValue, Alien, NoCall,   \* as in CredentialFile
          Torn,         \* a file that does not hold a complete value
          ForeignMode,  \* modes other programs give a file
          Umask         \* the umasks the callers may run under

Op == {"write", "read", "exists", "remove"}

Call == [op : Op, name : Name, value : Value \cup {NoValue}]

Result == {"none", "ok", "notexist", "unsafe", "err", "false"}

\* Where a caller stands: the system call it makes next.
PC == {"idle", "parent", "lstat", "create", "secure", "write", "sync",
       "rename", "unlink", "open", "read", "done"}

\* The steps during which a writer owns a staged file.
Staging == {"secure", "write", "sync", "rename"}

ASSUME ConstantsAssumption ==
    /\ NoInode \notin Inode /\ Alien \notin Inode /\ Alien # NoInode
    /\ NoValue \notin Value /\ Alien \notin Value /\ Torn \notin Value
    /\ Alien # NoValue
    /\ NoCall \notin Call
    /\ ForeignMode \subseteq SUBSET Bits
    /\ Umask \subseteq SUBSET Bits

VARIABLES dirUp,    \* the managed directory exists
          link,     \* link[n]: the inode name n refers to, NoInode or Alien
          staged,   \* staged[p]: the temporary file caller p has created
          orphans,  \* temporary files nobody will remove any more
          body, mode, synced,    \* contents, permissions, fsynced, per inode
          pc, call,
          seen,     \* what a reader's Lstat found
          fd,       \* the inode a reader has open
          ret, out, \* result and data of the operation that is done
          window,   \* history: what the call's name held since it began
          disturbed \* history: the name was unsafe or changed since then

files == <<dirUp, link, staged, orphans, body, mode, synced>>
vars == <<files, pc, call, seen, fd, ret, out, window, disturbed>>

TypeOK ==
    /\ dirUp \in BOOLEAN
    /\ link \in [Name -> Inode \cup {NoInode, Alien}]
    /\ staged \in [Proc -> Inode \cup {NoInode}]
    /\ orphans \subseteq Inode
    /\ body \in [Inode -> Value \cup {Torn}]
    /\ mode \in [Inode -> SUBSET Bits]
    /\ synced \in [Inode -> BOOLEAN]
    /\ pc \in [Proc -> PC]
    /\ call \in [Proc -> Call \cup {NoCall}]
    /\ seen \in [Proc -> Inode \cup {NoInode}]
    /\ fd \in [Proc -> Inode \cup {NoInode}]
    /\ ret \in [Proc -> Result]
    /\ out \in [Proc -> Value \cup {NoValue}]
    /\ window \in [Proc -> SUBSET (Value \cup {NoValue, Alien})]
    /\ disturbed \in [Proc -> BOOLEAN]

Linked == {i \in Inode : \E n \in Name : link[n] = i}

Free(i) ==
    /\ i \notin Linked \cup orphans
    /\ \A p \in Proc : staged[p] # i /\ fd[p] # i

\* What name n holds, given its entry and the bodies of the inodes.
Holds(l, b) == CASE l = NoInode -> NoValue
                 [] l = Alien   -> Alien
                 [] OTHER       -> b[l]

Unsafe(l, m) == l = Alien \/ (l \in Inode /\ ~Private(m[l], FilePerm))

\* A managed name may have been put there by another program: a regular file
\* of any mode, or something that is not a regular file.
Init ==
    /\ dirUp \in BOOLEAN
    /\ link \in [Name -> Inode \cup {NoInode, Alien}]
    /\ dirUp \/ \A n \in Name : link[n] = NoInode
    /\ \A n, m \in Name : n # m => link[n] \notin Inode \/ link[n] # link[m]
    /\ body \in [Inode -> Value \cup {Torn}]
    /\ mode \in [Inode -> ForeignMode \cup {FilePerm}]
    /\ \A i \in Inode : IF i \in Linked THEN body[i] \in Value
                                        ELSE body[i] = Torn /\ mode[i] = FilePerm
    /\ synced = [i \in Inode |-> TRUE]
    /\ staged = [p \in Proc |-> NoInode]
    /\ orphans = {}
    /\ pc = [p \in Proc |-> "idle"]
    /\ call = [p \in Proc |-> NoCall]
    /\ seen = [p \in Proc |-> NoInode]
    /\ fd = [p \in Proc |-> NoInode]
    /\ ret = [p \in Proc |-> "none"]
    /\ out = [p \in Proc |-> NoValue]
    /\ window = [p \in Proc |-> {}]
    /\ disturbed = [p \in Proc |-> FALSE]

Goto(p, l) == pc' = [pc EXCEPT ![p] = l]

\* ExistsSecureAt turns every failure into false.
Report(p, r) == IF call[p].op = "exists" /\ r # "ok" THEN "false" ELSE r

\* Operation p has its result; the deferred closes have run.
Finish(p, r, v) ==
    /\ Goto(p, "done")
    /\ ret' = [ret EXCEPT ![p] = Report(p, r)]
    /\ out' = [out EXCEPT ![p] = v]
    /\ fd' = [fd EXCEPT ![p] = NoInode]
    /\ seen' = [seen EXCEPT ![p] = NoInode]
    /\ UNCHANGED call

Continue(p, l) ==
    /\ Goto(p, l)
    /\ UNCHANGED <<call, seen, fd, ret, out>>

\* History of a change of name n's entry to l (bodies as they are).
Observed(n, l) ==
    /\ window' = [q \in Proc |-> IF call[q] # NoCall /\ call[q].name = n
                                 THEN window[q] \cup {Holds(l, body)}
                                 ELSE window[q]]
    /\ disturbed' = [q \in Proc |-> disturbed[q] \/
                                    (call[q] # NoCall /\ call[q].name = n)]

NothingObserved == UNCHANGED <<window, disturbed>>

Begin(p) ==
    /\ pc[p] = "idle"
    /\ \E c \in Call :
          /\ c.value = NoValue <=> c.op # "write"
          /\ call' = [call EXCEPT ![p] = c]
          /\ window' = [window EXCEPT ![p] = {Holds(link[c.name], body)}]
          /\ disturbed' = [disturbed EXCEPT ![p] = Unsafe(link[c.name], mode)]
    /\ Goto(p, "parent")
    /\ UNCHANGED <<files, seen, fd, ret, out>>

\* openParent: only a write creates the directory (see StoreDir for the walk).
OpenParent(p) ==
    /\ pc[p] = "parent"
    /\ \/ /\ call[p].op = "write" \/ dirUp
          /\ dirUp' = TRUE
          /\ Continue(p, "lstat")
       \/ /\ call[p].op # "write" /\ ~dirUp
          /\ Finish(p, "notexist", NoValue)
          /\ UNCHANGED dirUp
    /\ UNCHANGED <<link, staged, orphans, body, mode, synced>>
    /\ NothingObserved

\* The directory is a symlink, not private, or was exchanged during the walk.
OpenParentUnsafe(p) ==
    /\ pc[p] = "parent"
    /\ Finish(p, "unsafe", NoValue)
    /\ disturbed' = [disturbed EXCEPT ![p] = TRUE]
    /\ UNCHANGED <<files, window>>

AfterLstat(op) == CASE op = "write"  -> "create"
                    [] op = "remove" -> "unlink"
                    [] OTHER         -> "open"

\* The Lstat every operation starts with.  A missing file stops everybody but
\* the writer, anything but a regular file stops everybody.
regularInfo(p) ==
    /\ pc[p] = "lstat"
    /\ LET l == link[call[p].name] IN
       \/ /\ l = Alien
          /\ Finish(p, "unsafe", NoValue)
       \/ /\ l = NoInode /\ call[p].op # "write"
          /\ Finish(p, "notexist", NoValue)
       \/ /\ l \in Inode \/ (l = NoInode /\ call[p].op = "write")
          /\ Goto(p, AfterLstat(call[p].op))
          /\ seen' = [seen EXCEPT ![p] = IF call[p].op \in {"read", "exists"}
                                         THEN l ELSE NoInode]
          /\ UNCHANGED <<call, fd, ret, out>>
    /\ UNCHANGED files
    /\ NothingObserved

-----------------------------------------------------------------------------
(* WriteSecureAt *)

\* Mutant: the temporary file is created with os.Create's 0666.
Created_Default(umask) == (FilePerm \cup {"go"}) \ umask

\* The mode the open leaves on a file it creates.
Created(umask) == FilePerm \ umask

\* O_CREATE|O_EXCL on a random name: always a new, empty inode.
CreateStaged(p) ==
    /\ pc[p] = "create"
    /\ \E i \in Inode, umask \in Umask :
          /\ Free(i)
          /\ staged' = [staged EXCEPT ![p] = i]
          /\ body' = [body EXCEPT ![i] = Torn]
          /\ mode' = [mode EXCEPT ![i] = Created(umask)]
          /\ synced' = [synced EXCEPT ![i] = FALSE]
    /\ Continue(p, "secure")
    /\ UNCHANGED <<dirUp, link, orphans>>
    /\ NothingObserved

\* Undo whatever the umask took away from FilePerm.
SecureStaged(p) ==
    /\ pc[p] = "secure"
    /\ mode' = [mode EXCEPT ![staged[p]] =
                    securePermissions(@, FilePerm, TRUE).mode]
    /\ Continue(p, "write")
    /\ UNCHANGED <<dirUp, link, staged, orphans, body, synced>>
    /\ NothingObserved

\* Mutant: an existing destination is overwritten in place.
WriteStaged_InPlace(p) ==
    /\ pc[p] = "write"
    /\ LET l == link[call[p].name]
       IN  body' = [body EXCEPT ![IF l \in Inode THEN l ELSE staged[p]] = call[p].value]
    /\ Continue(p, "sync")
    /\ UNCHANGED <<dirUp, link, staged, orphans, mode, synced>>
    /\ NothingObserved

WriteStaged(p) ==
    /\ pc[p] = "write"
    /\ body' = [body EXCEPT ![staged[p]] = call[p].value]
    /\ Continue(p, "sync")
    /\ UNCHANGED <<dirUp, link, staged, orphans, mode, synced>>
    /\ NothingObserved

\* Mutant: the file is closed without Sync.
SyncStaged_CloseOnly(p) ==
    /\ pc[p] = "sync"
    /\ Continue(p, "rename")
    /\ UNCHANGED files
    /\ NothingObserved

\* Sync, then Close.
SyncStaged(p) ==
    /\ pc[p] = "sync"
    /\ synced' = [synced EXCEPT ![staged[p]] = TRUE]
    /\ Continue(p, "rename")
    /\ UNCHANGED <<dirUp, link, staged, orphans, body, mode>>
    /\ NothingObserved

\* The temporary file of p disappears, or stays behind.
Discard(p, removed) ==
    /\ staged' = [staged EXCEPT ![p] = NoInode]
    /\ orphans' = IF removed \/ staged[p] = NoInode THEN orphans
                                                    ELSE orphans \cup {staged[p]}
    /\ UNCHANGED <<dirUp, link, body, mode, synced>>

\* Mutant: a failed rename is reported as success.
Rename_ErrorIgnored(p) ==
    /\ pc[p] = "rename"
    /\ Discard(p, TRUE)
    /\ Finish(p, "ok", NoValue)
    /\ NothingObserved

\* The staged file becomes the destination in one step; the deferred Remove of
\* the temporary name finds nothing.
Rename(p) ==
    /\ pc[p] = "rename"
    /\ link' = [link EXCEPT ![call[p].name] = staged[p]]
    /\ staged' = [staged EXCEPT ![p] = NoInode]
    /\ Observed(call[p].name, staged[p])
    /\ Finish(p, "ok", NoValue)
    /\ UNCHANGED <<dirUp, orphans, body, mode, synced>>

-----------------------------------------------------------------------------
(* RemoveSecureAt, ReadSecureAt, ExistsSecureAt *)

\* Remove acts on whatever the name refers to by now.
RemoveLeaf(p) ==
    /\ pc[p] = "unlink"
    /\ LET n == call[p].name IN
       \/ /\ link[n] \in Inode
          /\ link' = [link EXCEPT ![n] = NoInode]
          /\ Observed(n, NoInode)
          /\ Finish(p, "ok", NoValue)
       \/ /\ link[n] = NoInode
          /\ Finish(p, "notexist", NoValue)
          /\ UNCHANGED link
          /\ NothingObserved
    /\ UNCHANGED <<dirUp, staged, orphans, body, mode, synced>>

\* openManagedFile for reading: open, Stat of the descriptor, the comparison
\* with what Lstat found, the permission check.  The calls after the open look
\* at the opened inode only, so that they are one step with it.
openManagedFile(p) ==
    /\ pc[p] = "open"
    /\ LET l == link[call[p].name] IN
       \/ /\ l = NoInode
          /\ Finish(p, "notexist", NoValue)
          /\ UNCHANGED mode
       \/ /\ l \in Inode /\ "ur" \notin mode[l]
          /\ Finish(p, "err", NoValue)
          /\ UNCHANGED mode
       \/ /\ l \in Inode /\ "ur" \in mode[l]
          /\ LET check == securePermissions(mode[l], FilePerm, FALSE) IN
             /\ IF l = seen[p] /\ check.ok
                THEN IF call[p].op = "exists"
                     THEN Finish(p, "ok", NoValue)
                     ELSE /\ fd' = [fd EXCEPT ![p] = l]
                          /\ Goto(p, "read")
                          /\ UNCHANGED <<call, seen, ret, out>>
                ELSE Finish(p, "unsafe", NoValue)
             /\ mode' = [mode EXCEPT ![l] = IF l = seen[p] THEN check.mode ELSE @]
    /\ UNCHANGED <<dirUp, link, staged, orphans, body, synced>>
    /\ NothingObserved

\* io.ReadAll: one step, because an inode somebody has open never changes
\* (OpenInodesImmutable).
ReadLeaf(p) ==
    /\ pc[p] = "read"
    /\ Finish(p, "ok", body[fd[p]])
    /\ UNCHANGED files
    /\ NothingObserved

-----------------------------------------------------------------------------

\* Any system call may fail; the deferred Remove is tried once, and a failure
\* of that is ignored.
IOError(p) ==
    /\ pc[p] \notin {"idle", "done"}
    /\ Finish(p, "err", NoValue)
    /\ \E removed \in BOOLEAN : Discard(p, removed)
    /\ NothingObserved

Leave(p) ==
    /\ Goto(p, "idle")
    /\ call' = [call EXCEPT ![p] = NoCall]
    /\ window' = [window EXCEPT ![p] = {}]
    /\ disturbed' = [disturbed EXCEPT ![p] = FALSE]
    /\ ret' = [ret EXCEPT ![p] = "none"]
    /\ out' = [out EXCEPT ![p] = NoValue]
    /\ seen' = [seen EXCEPT ![p] = NoInode]
    /\ fd' = [fd EXCEPT ![p] = NoInode]

Return(p) ==
    /\ pc[p] = "done"
    /\ Leave(p)
    /\ UNCHANGED files

\* The caller's process is killed.  No deferred function runs.
Crash(p) ==
    /\ pc[p] # "idle"
    /\ Leave(p)
    /\ Discard(p, FALSE)

\* Another program changes the mode of a managed file.
Chmod(n) ==
    /\ link[n] \in Inode
    /\ \E m \in ForeignMode : mode' = [mode EXCEPT ![link[n]] = m]
    /\ disturbed' = [q \in Proc |-> disturbed[q] \/
                                    (call[q] # NoCall /\ call[q].name = n)]
    /\ UNCHANGED <<dirUp, link, staged, orphans, body, synced,
                   pc, call, seen, fd, ret, out, window>>

WriteStep(p) == \/ CreateStaged(p) \/ SecureStaged(p) \/ WriteStaged(p)
                \/ SyncStaged(p) \/ Rename(p)

Step(p) == \/ Begin(p) \/ OpenParent(p) \/ OpenParentUnsafe(p) \/ regularInfo(p)
           \/ WriteStep(p) \/ RemoveLeaf(p) \/ openManagedFile(p) \/ ReadLeaf(p)
           \/ IOError(p) \/ Return(p) \/ Crash(p)

Next == (\E p \in Proc : Step(p)) \/ (\E n \in Name : Chmod(n))

Spec == Init /\ [][Next]_vars

-----------------------------------------------------------------------------
(* Properties *)

\* Refinement mapping: a name holds what its inode holds.
content == [n \in Name |-> Holds(link[n], body)]

CF == INSTANCE CredentialFile

\* The operations of store/root.go implement the abstract credential file: a
\* write or removal takes effect in one step exactly if it reports success,
\* whatever fails or is killed around it, and a read reports a complete value
\* the name held while the read ran (WriteSecureAt: "failure leaves the
\* previous destination intact").
ImplementsCredentialFile == CF!Spec

\* A temporary file is never accessible to anybody but its owner, whatever the
\* umask and wherever its writer was killed (root.go:114-127).
StagedPrivate ==
    \A i \in orphans \cup {staged[p] : p \in Proc} :
        i # NoInode => Private(mode[i], FilePerm)

\* Whatever the library puts behind a name is, at that moment, complete, on
\* disk and exactly FilePerm: the order secure, write, sync, close, rename of
\* WriteSecureAt (root.go:121-139).
PublishedComplete ==
    \A n \in Name : link'[n] # link[n] /\ link'[n] # NoInode =>
        /\ body'[link'[n]] \in Value
        /\ synced'[link'[n]]
        /\ mode'[link'[n]] = FilePerm

PublishesComplete == [][PublishedComplete]_vars

\* A file somebody can reach by name or has open never changes: new data only
\* ever goes to new inodes, although inode numbers are reused (root.go:114-139).
ReachableImmutable ==
    \A i \in Inode : (i \in Linked \/ \E p \in Proc : fd[p] = i) => body'[i] = body[i]

OpenInodesImmutable == [][ReachableImmutable]_vars

\* No operation of the library changes the mode of a file that is already
\* there: reads reject what they do not like and writes replace it (root.go:180
\* "reads never repair them").
ModesKept ==
    (\E p \in Proc : Step(p)) => \A i \in Linked : mode'[i] = mode[i]

NeverRepairs == [][ModesKept]_vars

\* ErrUnsafePath is reported only if the directory or file really was unsafe,
\* or was exchanged or chmodded, while the operation ran: a private file nobody
\* touches is never rejected, one the owner made read-only included
\* (openManagedFile, root.go:166-173).
UnsafeExplained ==
    \A p \in Proc : ret[p] = "unsafe" => disturbed[p]
=============================================================================
