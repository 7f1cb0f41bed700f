-------------------------- MODULE SecureFileProofs --------------------------
(***************************************************************************)
(* Proofs about SecureFile for any number of callers, names, values and    *)
(* inodes.  The inductive invariant IInv says who may refer to which inode *)
(* (Ownership), what a staged file has been through at each step of        *)
(* WriteSecureAt (Stages), and what a reader has seen (Observation).       *)
(***************************************************************************)
EXTENDS SecureFile, TLAPS

\* Control: which operation can be at which step, and when a result exists.
Control ==
    \A p \in Proc :
        /\ pc[p] = "idle" <=> call[p] = NoCall
        /\ pc[p] # "idle" => (call[p].value = NoValue <=> call[p].op # "write")
        /\ pc[p] \in Staging \cup {"create"} => call[p].op = "write"
        /\ pc[p] = "unlink" => call[p].op = "remove"
        /\ pc[p] = "open" => call[p].op \in {"read", "exists"}
        /\ pc[p] = "read" => call[p].op = "read"
        /\ ret[p] = "none" <=> pc[p] # "done"
        /\ pc[p] # "done" => out[p] = NoValue
        /\ staged[p] # NoInode <=> pc[p] \in Staging
        /\ fd[p] # NoInode <=> pc[p] = "read"
        /\ pc[p] \notin {"idle", "parent", "done"} => dirUp

\* A staged file is referred to by its writer alone.
Ownership ==
    /\ \A p, q \in Proc : p # q /\ staged[p] # NoInode => staged[p] # staged[q]
    /\ \A p, q \in Proc : staged[p] # NoInode => staged[p] # fd[q]
    /\ \A p \in Proc : staged[p] \notin orphans
    /\ \A p \in Proc, n \in Name : staged[p] # NoInode => staged[p] # link[n]
    /\ \A n \in Name : link[n] \notin orphans
    /\ \A n, m \in Name : n # m /\ link[n] \in Inode => link[n] # link[m]
    /\ \A n \in Name : ~dirUp => link[n] = NoInode

\* What has been done to a staged file.
Stages ==
    \A p \in Proc :
        /\ staged[p] # NoInode => Private(mode[staged[p]], FilePerm)
        /\ pc[p] \in {"write", "sync", "rename"} => mode[staged[p]] = FilePerm
        /\ pc[p] \in {"sync", "rename"} => body[staged[p]] = call[p].value
        /\ pc[p] = "rename" => synced[staged[p]]

OrphansPrivate == \A i \in orphans : Private(mode[i], FilePerm)

LinkedComplete == \A n \in Name : link[n] \in Inode => body[link[n]] \in Value

\* What a caller has observed is explained by its history variables.
Observation ==
    \A p \in Proc :
        /\ pc[p] # "idle" => Holds(link[call[p].name], body) \in window[p]
        /\ fd[p] # NoInode => body[fd[p]] \in Value \cap window[p]
        /\ pc[p] \notin {"idle", "parent", "lstat", "done"} => link[call[p].name] # Alien
        /\ ret[p] = "unsafe" => disturbed[p]
        /\ pc[p] # "idle" /\ ~disturbed[p] => ~Unsafe(link[call[p].name], mode)
        /\ pc[p] = "open" /\ ~disturbed[p] => seen[p] = link[call[p].name]

IInv == /\ TypeOK
        /\ Control
        /\ Ownership
        /\ Stages
        /\ OrphansPrivate
        /\ LinkedComplete
        /\ Observation

\* A call begins with the contents of its name as all it can have seen.
LEMMA BeginInv ==
    ASSUME IInv, NEW p \in Proc, Begin(p) PROVE IInv'
<1> USE ConstantsAssumption DEF files, NothingObserved, Call, Op, Result, PC, Staging,
                                TypeOK, Control
<1>1. TypeOK'
  BY DEF IInv, Begin, Goto, LinkedComplete, Unsafe, Holds
<1>2. Control'
  BY DEF IInv, Begin, Goto
<1>3. Ownership'
  BY DEF IInv, Begin, Goto, Ownership
<1>4. Stages'
  BY DEF IInv, Begin, Goto, Stages
<1>5. OrphansPrivate'
  BY DEF IInv, Begin, Goto, OrphansPrivate
<1>6. LinkedComplete'
  BY DEF IInv, Begin, Goto, LinkedComplete
<1>7. Observation'
  BY DEF IInv, Begin, Goto, Observation
<1> QED
  BY <1>1, <1>2, <1>3, <1>4, <1>5, <1>6, <1>7 DEF IInv

\* Opening the parent directory touches no file.
LEMMA OpenParentInv ==
    ASSUME IInv, NEW p \in Proc, OpenParent(p) PROVE IInv'
<1> USE ConstantsAssumption DEF files, NothingObserved, Call, Op, Result, PC, Staging,
                                TypeOK, Control
<1>1. TypeOK'
  <2>1. dirUp' \in BOOLEAN
    BY DEF IInv, OpenParent
  <2>2. pc' \in [Proc -> PC] /\ ret' \in [Proc -> Result] /\ call' = call
    BY DEF IInv, OpenParent, Goto, Continue, Finish, Report
  <2>3. /\ seen' \in [Proc -> Inode \cup {NoInode}]
        /\ fd' \in [Proc -> Inode \cup {NoInode}]
        /\ out' \in [Proc -> Value \cup {NoValue}]
    BY DEF IInv, OpenParent, Continue, Finish
  <2> QED
    BY <2>1, <2>2, <2>3 DEF IInv, OpenParent
<1>2. Control'
  BY DEF IInv, OpenParent, Goto, Continue, Finish, Report
<1>3. Ownership'
  BY DEF IInv, OpenParent, Goto, Continue, Finish, Report, Ownership
<1>4. Stages'
  BY DEF IInv, OpenParent, Goto, Continue, Finish, Report, Stages
<1>5. OrphansPrivate'
  BY DEF IInv, OpenParent, Goto, Continue, Finish, Report, OrphansPrivate
<1>6. LinkedComplete'
  BY DEF IInv, OpenParent, Goto, Continue, Finish, Report, LinkedComplete
<1>7. Observation'
  BY DEF IInv, OpenParent, Goto, Continue, Finish, Report, Observation
<1> QED
  BY <1>1, <1>2, <1>3, <1>4, <1>5, <1>6, <1>7 DEF IInv

\* A rejected directory ends the call.
LEMMA OpenParentUnsafeInv ==
    ASSUME IInv, NEW p \in Proc, OpenParentUnsafe(p) PROVE IInv'
<1> USE ConstantsAssumption DEF files, NothingObserved, Call, Op, Result, PC, Staging,
                                TypeOK, Control
<1>1. TypeOK'
  BY DEF IInv, OpenParentUnsafe, Goto, Finish, Report
<1>2. Control'
  BY DEF IInv, OpenParentUnsafe, Goto, Finish, Report
<1>3. Ownership'
  BY DEF IInv, OpenParentUnsafe, Goto, Finish, Report, Ownership
<1>4. Stages'
  BY DEF IInv, OpenParentUnsafe, Goto, Finish, Report, Stages
<1>5. OrphansPrivate'
  BY DEF IInv, OpenParentUnsafe, Goto, Finish, Report, OrphansPrivate
<1>6. LinkedComplete'
  BY DEF IInv, OpenParentUnsafe, Goto, Finish, Report, LinkedComplete
<1>7. Observation'
  BY DEF IInv, OpenParentUnsafe, Goto, Finish, Report, Observation
<1> QED
  BY <1>1, <1>2, <1>3, <1>4, <1>5, <1>6, <1>7 DEF IInv

\* Lstat reads one directory entry.
LEMMA regularInfoInv ==
    ASSUME IInv, NEW p \in Proc, regularInfo(p) PROVE IInv'
<1> USE ConstantsAssumption DEF files, NothingObserved, Call, Op, Result, PC, Staging,
                                TypeOK, Control
<1>1. TypeOK'
  BY DEF IInv, regularInfo, AfterLstat, Goto, Finish, Report
<1>2. Control'
  BY DEF IInv, regularInfo, AfterLstat, Goto, Finish, Report
<1>3. Ownership'
  BY DEF IInv, regularInfo, AfterLstat, Goto, Finish, Report, Ownership
<1>4. Stages'
  BY DEF IInv, regularInfo, AfterLstat, Goto, Finish, Report, Stages
<1>5. OrphansPrivate'
  BY DEF IInv, regularInfo, AfterLstat, Goto, Finish, Report, OrphansPrivate
<1>6. LinkedComplete'
  BY DEF IInv, regularInfo, AfterLstat, Goto, Finish, Report, LinkedComplete
<1>7. Observation'
  BY DEF IInv, regularInfo, AfterLstat, Goto, Finish, Report, Observation,
         Unsafe
<1> QED
  BY <1>1, <1>2, <1>3, <1>4, <1>5, <1>6, <1>7 DEF IInv

\* A new staged file takes an inode nobody refers to.
LEMMA CreateStagedInv ==
    ASSUME IInv, NEW p \in Proc, CreateStaged(p) PROVE IInv'
<1> USE ConstantsAssumption DEF files, NothingObserved, Call, Op, Result, PC, Staging,
                                TypeOK, Control
<1>1. TypeOK'
  BY DEF IInv, CreateStaged, Created, Free, Linked, Goto, Continue, FilePerm, Bits
<1>2. Control'
  BY DEF IInv, CreateStaged, Created, Free, Linked, Goto, Continue
<1>3. Ownership'
  BY DEF IInv, CreateStaged, Created, Free, Linked, Goto, Continue, Ownership
<1>4. Stages'
  BY DEF IInv, CreateStaged, Created, Free, Linked, Goto, Continue, Stages, Private
<1>5. OrphansPrivate'
  BY DEF IInv, CreateStaged, Created, Free, Linked, Goto, Continue, OrphansPrivate
<1>6. LinkedComplete'
  BY DEF IInv, CreateStaged, Created, Free, Linked, Goto, Continue, LinkedComplete
<1>7. Observation'
  BY DEF IInv, CreateStaged, Created, Free, Linked, Goto, Continue, Observation, Holds,
         Unsafe
<1> QED
  BY <1>1, <1>2, <1>3, <1>4, <1>5, <1>6, <1>7 DEF IInv

\* The repair of the mode concerns the staged file of p alone.
LEMMA SecureStagedInv ==
    ASSUME IInv, NEW p \in Proc, SecureStaged(p) PROVE IInv'
<1> USE ConstantsAssumption DEF files, NothingObserved, Call, Op, Result, PC, Staging,
                                TypeOK, Control
<1>1. TypeOK'
  BY DEF IInv, SecureStaged, securePermissions, Goto, Continue, FilePerm, Bits
<1>2. Control'
  BY DEF IInv, SecureStaged, securePermissions, Goto, Continue
<1>3. Ownership'
  BY DEF IInv, SecureStaged, securePermissions, Goto, Continue, Ownership
<1>4. Stages'
  BY DEF IInv, SecureStaged, securePermissions, Goto, Continue, Stages,
         Private
<1>5. OrphansPrivate'
  BY DEF IInv, SecureStaged, securePermissions, Goto, Continue,
         OrphansPrivate, Private
<1>6. LinkedComplete'
  BY DEF IInv, SecureStaged, securePermissions, Goto, Continue, LinkedComplete
<1>7. Observation'
  BY DEF IInv, SecureStaged, securePermissions, Goto, Continue, Observation,
         Unsafe, Private
<1> QED
  BY <1>1, <1>2, <1>3, <1>4, <1>5, <1>6, <1>7 DEF IInv

\* Data goes to the staged file of p alone.
LEMMA WriteStagedInv ==
    ASSUME IInv, NEW p \in Proc, WriteStaged(p) PROVE IInv'
<1> USE ConstantsAssumption DEF files, NothingObserved, Call, Op, Result, PC, Staging,
                                TypeOK, Control
<1>1. TypeOK'
  BY DEF IInv, WriteStaged, Goto, Continue
<1>2. Control'
  BY DEF IInv, WriteStaged, Goto, Continue
<1>3. Ownership'
  BY DEF IInv, WriteStaged, Goto, Continue, Ownership
<1>4. Stages'
  BY DEF IInv, WriteStaged, Goto, Continue, Stages, Ownership
<1>5. OrphansPrivate'
  BY DEF IInv, WriteStaged, Goto, Continue, OrphansPrivate
<1>6. LinkedComplete'
  BY DEF IInv, WriteStaged, Goto, Continue, LinkedComplete
<1>7. Observation'
  BY DEF IInv, WriteStaged, Goto, Continue, Observation, Holds, Ownership
<1> QED
  BY <1>1, <1>2, <1>3, <1>4, <1>5, <1>6, <1>7 DEF IInv

\* Sync concerns the staged file of p alone.
LEMMA SyncStagedInv ==
    ASSUME IInv, NEW p \in Proc, SyncStaged(p) PROVE IInv'
<1> USE ConstantsAssumption DEF files, NothingObserved, Call, Op, Result, PC, Staging,
                                TypeOK, Control
<1>1. TypeOK'
  BY DEF IInv, SyncStaged, Goto, Continue
<1>2. Control'
  BY DEF IInv, SyncStaged, Goto, Continue
<1>3. Ownership'
  BY DEF IInv, SyncStaged, Goto, Continue, Ownership
<1>4. Stages'
  BY DEF IInv, SyncStaged, Goto, Continue, Stages
<1>5. OrphansPrivate'
  BY DEF IInv, SyncStaged, Goto, Continue, OrphansPrivate
<1>6. LinkedComplete'
  BY DEF IInv, SyncStaged, Goto, Continue, LinkedComplete
<1>7. Observation'
  BY DEF IInv, SyncStaged, Goto, Continue, Observation
<1> QED
  BY <1>1, <1>2, <1>3, <1>4, <1>5, <1>6, <1>7 DEF IInv

\* Renaming moves a complete private file from its writer to the name.
LEMMA RenameInv ==
    ASSUME IInv, NEW p \in Proc, Rename(p) PROVE IInv'
<1> USE ConstantsAssumption DEF files, NothingObserved, Call, Op, Result, PC, Staging,
                                TypeOK, Control
<1>1. TypeOK'
  <2>1. Holds(staged[p], body) \in Value
    BY DEF IInv, Rename, Stages, Holds
  <2>2. window' \in [Proc -> SUBSET (Value \cup {NoValue, Alien})]
    BY <2>1 DEF IInv, Rename, Observed
  <2>3. disturbed' \in [Proc -> BOOLEAN]
    BY DEF IInv, Rename, Observed
  <2>4. pc' \in [Proc -> PC] /\ ret' \in [Proc -> Result] /\ call' = call
    BY DEF IInv, Rename, Goto, Finish, Report
  <2>5. /\ seen' \in [Proc -> Inode \cup {NoInode}]
        /\ fd' \in [Proc -> Inode \cup {NoInode}]
        /\ out' \in [Proc -> Value \cup {NoValue}]
    BY DEF IInv, Rename, Finish
  <2>6. /\ link' \in [Name -> Inode \cup {NoInode, Alien}]
        /\ staged' \in [Proc -> Inode \cup {NoInode}]
    BY DEF IInv, Rename
  <2>7. UNCHANGED <<dirUp, orphans, body, mode, synced>>
    BY DEF Rename
  <2> QED
    BY <2>2, <2>3, <2>4, <2>5, <2>6, <2>7 DEF IInv
<1>2. Control'
  BY DEF IInv, Rename, Observed, Goto, Finish, Report
<1>3. Ownership'
  <2>1. \A q \in Proc : staged'[q] # NoInode => q # p /\ staged'[q] = staged[q]
    BY DEF IInv, Rename
  <2>2. staged[p] # NoInode /\ staged[p] \in Inode
    BY DEF IInv, Rename
  <2>3. link' = [link EXCEPT ![call[p].name] = staged[p]] /\ call[p].name \in Name
    BY DEF IInv, Rename
  <2>4. orphans' = orphans /\ \A q \in Proc : fd'[q] = fd[q] \/ fd'[q] = NoInode
    BY DEF IInv, Rename, Finish
  <2>5. dirUp' = dirUp /\ dirUp
    BY DEF IInv, Rename
  <2> QED
    BY <2>1, <2>2, <2>3, <2>4, <2>5 DEF IInv, Ownership
<1>4. Stages'
  BY DEF IInv, Rename, Observed, Goto, Finish, Report, Stages
<1>5. OrphansPrivate'
  BY DEF IInv, Rename, Observed, Goto, Finish, Report, OrphansPrivate
<1>6. LinkedComplete'
  BY DEF IInv, Rename, Observed, Goto, Finish, Report, LinkedComplete, Stages
<1>7. Observation'
  BY DEF IInv, Rename, Observed, Goto, Finish, Report, Observation, Stages
<1> QED
  BY <1>1, <1>2, <1>3, <1>4, <1>5, <1>6, <1>7 DEF IInv

\* Removing an entry leaves the inode to whoever has it open.
LEMMA RemoveLeafInv ==
    ASSUME IInv, NEW p \in Proc, RemoveLeaf(p) PROVE IInv'
<1> USE ConstantsAssumption DEF files, NothingObserved, Call, Op, Result, PC, Staging,
                                TypeOK, Control
<1>1. TypeOK'
  <2>1. Holds(NoInode, body) = NoValue
    BY DEF Holds
  <2>2. window' \in [Proc -> SUBSET (Value \cup {NoValue, Alien})]
    BY <2>1 DEF IInv, RemoveLeaf, Observed
  <2>3. disturbed' \in [Proc -> BOOLEAN]
    BY DEF IInv, RemoveLeaf, Observed
  <2>4. link' \in [Name -> Inode \cup {NoInode, Alien}]
    BY DEF IInv, RemoveLeaf
  <2>5. pc' \in [Proc -> PC] /\ ret' \in [Proc -> Result] /\ call' = call
    BY DEF IInv, RemoveLeaf, Goto, Finish, Report
  <2>6. /\ seen' \in [Proc -> Inode \cup {NoInode}]
        /\ fd' \in [Proc -> Inode \cup {NoInode}]
        /\ out' \in [Proc -> Value \cup {NoValue}]
    BY DEF IInv, RemoveLeaf, Finish
  <2>7. UNCHANGED <<dirUp, staged, orphans, body, mode, synced>>
    BY DEF RemoveLeaf
  <2> QED
    BY <2>2, <2>3, <2>4, <2>5, <2>6, <2>7 DEF IInv
<1>2. Control'
  BY DEF IInv, RemoveLeaf, Observed, Goto, Finish, Report
<1>3. Ownership'
  <2>1. staged' = staged /\ orphans' = orphans /\ dirUp' = dirUp
    BY DEF RemoveLeaf
  <2>2. \A n \in Name : link'[n] = link[n] \/ link'[n] = NoInode
    BY DEF IInv, RemoveLeaf
  <2>3. \A q \in Proc : fd'[q] = fd[q] \/ fd'[q] = NoInode
    BY DEF IInv, RemoveLeaf, Finish
  <2>4. \A q \in Proc, n \in Name : staged'[q] # NoInode => staged'[q] # link'[n]
    BY <2>1, <2>2 DEF IInv, Ownership
  <2>5. \A q, r \in Proc : staged'[q] # NoInode => staged'[q] # fd'[r]
    BY <2>1, <2>3 DEF IInv, Ownership
  <2>6. \A n \in Name : link'[n] \notin orphans'
    BY <2>1, <2>2 DEF IInv, Ownership
  <2>7. \A n, m \in Name : n # m /\ link'[n] \in Inode => link'[n] # link'[m]
    BY <2>2 DEF IInv, Ownership
  <2>8. \A n \in Name : ~dirUp' => link'[n] = NoInode
    BY <2>1, <2>2 DEF IInv, Ownership
  <2> QED
    BY <2>1, <2>4, <2>5, <2>6, <2>7, <2>8 DEF IInv, Ownership
<1>4. Stages'
  BY DEF IInv, RemoveLeaf, Observed, Goto, Finish, Report, Stages
<1>5. OrphansPrivate'
  BY DEF IInv, RemoveLeaf, Observed, Goto, Finish, Report, OrphansPrivate
<1>6. LinkedComplete'
  BY DEF IInv, RemoveLeaf, Observed, Goto, Finish, Report, LinkedComplete
<1>7. Observation'
  BY DEF IInv, RemoveLeaf, Observed, Goto, Finish, Report, Observation,
         Ownership
<1> QED
  BY <1>1, <1>2, <1>3, <1>4, <1>5, <1>6, <1>7 DEF IInv

\* What a reader opens is what its name holds at that moment.
LEMMA openManagedFileInv ==
    ASSUME IInv, NEW p \in Proc, openManagedFile(p) PROVE IInv'
<1> USE ConstantsAssumption DEF files, NothingObserved, Call, Op, Result, PC, Staging,
                                TypeOK, Control
<1> DEFINE l == link[call[p].name]
           Ends(r) == Finish(p, r, NoValue)
           Opens == /\ l \in Inode /\ call[p].op = "read"
                    /\ fd' = [fd EXCEPT ![p] = l]
                    /\ Goto(p, "read")
                    /\ UNCHANGED <<call, seen, ret, out>>
<1>0. /\ mode' = mode
      /\ \/ \E r \in {"notexist", "err", "ok"} : Ends(r)
         \/ Ends("unsafe") /\ (l # seen[p] \/ Unsafe(l, mode))
         \/ Opens
  BY DEF IInv, openManagedFile, securePermissions, Unsafe, Private
<1> HIDE DEF Ends, Opens
<1>1. TypeOK'
  BY <1>0 DEF IInv, openManagedFile, Ends, Opens, Goto, Finish, Report
<1>8. pc[p] = "open" /\ UNCHANGED <<dirUp, link, staged, orphans, body, synced, window, disturbed>>
  BY DEF openManagedFile
<1>2. Control'
  BY <1>0, <1>8 DEF IInv, Ends, Opens, Goto, Finish, Report
<1>3. Ownership'
  BY <1>0, <1>8 DEF IInv, Ends, Opens, Goto, Finish, Report, Ownership
<1>4. Stages'
  BY <1>0, <1>8 DEF IInv, Ends, Opens, Goto, Finish, Report, Stages
<1>5. OrphansPrivate'
  BY <1>0, <1>8 DEF IInv, Ends, Opens, Goto, Finish, Report, OrphansPrivate
<1>6. LinkedComplete'
  BY <1>0, <1>8 DEF IInv, Ends, Opens, Goto, Finish, Report, LinkedComplete
<1>7. Observation'
  BY <1>0, <1>8 DEF IInv, Ends, Opens, Goto, Finish, Report, Observation,
         Holds, LinkedComplete
<1> QED
  BY <1>1, <1>2, <1>3, <1>4, <1>5, <1>6, <1>7 DEF IInv

\* The open inode still holds what it held when it was opened.
LEMMA ReadLeafInv ==
    ASSUME IInv, NEW p \in Proc, ReadLeaf(p) PROVE IInv'
<1> USE ConstantsAssumption DEF files, NothingObserved, Call, Op, Result, PC, Staging,
                                TypeOK, Control
<1>1. TypeOK'
  BY DEF IInv, ReadLeaf, Goto, Finish, Report, Observation
<1>2. Control'
  BY DEF IInv, ReadLeaf, Goto, Finish, Report
<1>3. Ownership'
  BY DEF IInv, ReadLeaf, Goto, Finish, Report, Ownership
<1>4. Stages'
  BY DEF IInv, ReadLeaf, Goto, Finish, Report, Stages
<1>5. OrphansPrivate'
  BY DEF IInv, ReadLeaf, Goto, Finish, Report, OrphansPrivate
<1>6. LinkedComplete'
  BY DEF IInv, ReadLeaf, Goto, Finish, Report, LinkedComplete
<1>7. Observation'
  BY DEF IInv, ReadLeaf, Goto, Finish, Report, Observation
<1> QED
  BY <1>1, <1>2, <1>3, <1>4, <1>5, <1>6, <1>7 DEF IInv

\* A failing call drops or orphans the staged file.
LEMMA IOErrorInv ==
    ASSUME IInv, NEW p \in Proc, IOError(p) PROVE IInv'
<1> USE ConstantsAssumption DEF files, NothingObserved, Call, Op, Result, PC, Staging,
                                TypeOK, Control
<1>1. TypeOK'
  BY DEF IInv, IOError, Discard, Goto, Finish, Report
<1>2. Control'
  BY DEF IInv, IOError, Discard, Goto, Finish, Report
<1>3. Ownership'
  BY DEF IInv, IOError, Discard, Goto, Finish, Report, Ownership
<1>4. Stages'
  BY DEF IInv, IOError, Discard, Goto, Finish, Report, Stages
<1>5. OrphansPrivate'
  BY DEF IInv, IOError, Discard, Goto, Finish, Report, OrphansPrivate, Stages
<1>6. LinkedComplete'
  BY DEF IInv, IOError, Discard, Goto, Finish, Report, LinkedComplete
<1>7. Observation'
  BY DEF IInv, IOError, Discard, Goto, Finish, Report, Observation
<1> QED
  BY <1>1, <1>2, <1>3, <1>4, <1>5, <1>6, <1>7 DEF IInv

\* Returning forgets the call.
LEMMA ReturnInv ==
    ASSUME IInv, NEW p \in Proc, Return(p) PROVE IInv'
<1> USE ConstantsAssumption DEF files, NothingObserved, Call, Op, Result, PC, Staging,
                                TypeOK, Control
<1>1. TypeOK'
  BY DEF IInv, Return, Leave, Goto
<1>2. Control'
  BY DEF IInv, Return, Leave, Goto
<1>3. Ownership'
  BY DEF IInv, Return, Leave, Goto, Ownership
<1>4. Stages'
  BY DEF IInv, Return, Leave, Goto, Stages
<1>5. OrphansPrivate'
  BY DEF IInv, Return, Leave, Goto, OrphansPrivate
<1>6. LinkedComplete'
  BY DEF IInv, Return, Leave, Goto, LinkedComplete
<1>7. Observation'
  BY DEF IInv, Return, Leave, Goto, Observation
<1> QED
  BY <1>1, <1>2, <1>3, <1>4, <1>5, <1>6, <1>7 DEF IInv

\* A killed writer leaves a private orphan.
LEMMA CrashInv ==
    ASSUME IInv, NEW p \in Proc, Crash(p) PROVE IInv'
<1> USE ConstantsAssumption DEF files, NothingObserved, Call, Op, Result, PC, Staging,
                                TypeOK, Control
<1>1. TypeOK'
  BY DEF IInv, Crash, Leave, Discard, Goto
<1>2. Control'
  BY DEF IInv, Crash, Leave, Discard, Goto
<1>3. Ownership'
  BY DEF IInv, Crash, Leave, Discard, Goto, Ownership
<1>4. Stages'
  BY DEF IInv, Crash, Leave, Discard, Goto, Stages
<1>5. OrphansPrivate'
  BY DEF IInv, Crash, Leave, Discard, Goto, OrphansPrivate, Stages
<1>6. LinkedComplete'
  BY DEF IInv, Crash, Leave, Discard, Goto, LinkedComplete
<1>7. Observation'
  BY DEF IInv, Crash, Leave, Discard, Goto, Observation
<1> QED
  BY <1>1, <1>2, <1>3, <1>4, <1>5, <1>6, <1>7 DEF IInv

\* Another program's chmod concerns a file that is linked, hence not staged.
LEMMA ChmodInv ==
    ASSUME IInv, NEW n \in Name, Chmod(n) PROVE IInv'
<1> USE ConstantsAssumption DEF Call, Op, Result, PC, Staging, TypeOK, Control
<1>1. TypeOK' /\ Control'
  BY DEF IInv, Chmod
<1>2. Ownership' /\ LinkedComplete'
  BY DEF IInv, Chmod, Ownership, LinkedComplete
<1>3. Stages' /\ OrphansPrivate'
  BY DEF IInv, Chmod, Ownership, Stages, OrphansPrivate, Private
<1>4. Observation'
  BY DEF IInv, Chmod, Ownership, Observation, Unsafe
<1> QED
  BY <1>1, <1>2, <1>3, <1>4 DEF IInv

\* The invariant holds initially, whatever other programs left behind.
LEMMA InitInv == Init => IInv
<1> SUFFICES ASSUME Init PROVE IInv
  OBVIOUS
<1> USE ConstantsAssumption DEF Init, Call, Op, Result, PC, Staging
<1>1. TypeOK
  <2>1. /\ dirUp \in BOOLEAN
        /\ link \in [Name -> Inode \cup {NoInode, Alien}]
        /\ body \in [Inode -> Value \cup {Torn}]
        /\ synced \in [Inode -> BOOLEAN]
    OBVIOUS
  <2>2. mode \in [Inode -> SUBSET Bits]
    <3>1. ForeignMode \cup {FilePerm} \subseteq SUBSET Bits
      BY DEF FilePerm, Bits
    <3> QED
      BY <3>1
  <2>3. /\ window \in [Proc -> SUBSET (Value \cup {NoValue, Alien})]
        /\ disturbed \in [Proc -> BOOLEAN]
    OBVIOUS
  <2> QED
    BY <2>1, <2>2, <2>3 DEF TypeOK
<1>2. Control
  BY DEF Control
<1>3. Ownership
  BY DEF Ownership
<1>4. Stages /\ OrphansPrivate
  BY DEF Stages, OrphansPrivate
<1>5. LinkedComplete
  BY DEF LinkedComplete, Linked
<1>6. Observation
  BY DEF Observation
<1> QED
  BY <1>1, <1>2, <1>3, <1>4, <1>5, <1>6 DEF IInv

\* IInv is inductive.
LEMMA NextInv == IInv /\ [Next]_vars => IInv'
<1> SUFFICES ASSUME IInv, [Next]_vars PROVE IInv'
  OBVIOUS
<1>1. ASSUME NEW p \in Proc, Step(p) PROVE IInv'
  BY <1>1, BeginInv, OpenParentInv, OpenParentUnsafeInv, regularInfoInv,
     CreateStagedInv, SecureStagedInv, WriteStagedInv, SyncStagedInv, RenameInv,
     RemoveLeafInv, openManagedFileInv, ReadLeafInv, IOErrorInv, ReturnInv, CrashInv
     DEF Step, WriteStep
<1>2. ASSUME NEW n \in Name, Chmod(n) PROVE IInv'
  BY <1>2, ChmodInv
<1>3. CASE UNCHANGED vars
  <2>1. TypeOK' /\ Control' /\ Ownership' /\ Stages'
    BY <1>3 DEF vars, files, IInv, TypeOK, Control, Ownership, Stages
  <2>2. OrphansPrivate' /\ LinkedComplete' /\ Observation'
    BY <1>3 DEF vars, files, IInv, OrphansPrivate, LinkedComplete, Observation
  <2> QED
    BY <2>1, <2>2 DEF IInv
<1> QED
  BY <1>1, <1>2, <1>3 DEF Next

\* The inductive invariant is an invariant of store/root.go's operations.
THEOREM Invariance == Spec => []IInv
<1> QED
  BY InitInv, NextInv, PTL DEF Spec

\* TypeOK for any number of callers, names, values and inodes.
THEOREM TypeCorrect == Spec => []TypeOK
<1>1. IInv => TypeOK
  BY DEF IInv
<1> QED
  BY <1>1, Invariance, PTL

\* A temporary credential file is never accessible to group or others, also
\* after its writer was killed.
THEOREM StagedStaysPrivate == Spec => []StagedPrivate
<1>1. IInv => StagedPrivate
  BY DEF IInv, Stages, OrphansPrivate, StagedPrivate
<1> QED
  BY <1>1, Invariance, PTL

\* ErrUnsafePath always has a cause in the file system.
THEOREM UnsafeHasCause == Spec => []UnsafeExplained
<1>1. IInv => UnsafeExplained
  BY DEF IInv, Observation, UnsafeExplained
<1> QED
  BY <1>1, Invariance, PTL

-----------------------------------------------------------------------------

\* Only a rename puts an inode behind a name.
LEMMA OnlyRenamePublishes ==
    ASSUME TypeOK, NEW p \in Proc, Step(p), ~Rename(p)
    PROVE  \A n \in Name : link'[n] = link[n] \/ link'[n] = NoInode
<1>1. CASE RemoveLeaf(p)
  BY <1>1 DEF RemoveLeaf, TypeOK
<1>2. CASE ~RemoveLeaf(p)
  <2>1. link' = link
    BY <1>2 DEF Step, WriteStep, files, Begin, OpenParent, OpenParentUnsafe,
                regularInfo, CreateStaged, SecureStaged, WriteStaged, SyncStaged,
                openManagedFile, ReadLeaf, IOError, Discard, Return, Crash
  <2> QED
    BY <2>1
<1> QED
  BY <1>1, <1>2

\* Whatever a rename puts behind a name is complete, synced and private.
THEOREM PublishedIsComplete == Spec => PublishesComplete
<1>1. ASSUME IInv, [Next]_vars PROVE [PublishedComplete]_vars
  <2>1. ASSUME NEW p \in Proc, Rename(p) PROVE PublishedComplete
    <3> USE ConstantsAssumption DEF IInv, TypeOK, Call, Op, Control, Staging
    <3>1. /\ staged[p] \in Inode /\ body[staged[p]] \in Value
          /\ synced[staged[p]] /\ mode[staged[p]] = FilePerm
      BY <1>1, <2>1 DEF Rename, Stages
    <3>2. /\ link' = [link EXCEPT ![call[p].name] = staged[p]]
          /\ UNCHANGED <<body, mode, synced>>
      BY <2>1 DEF Rename
    <3> QED
      BY <1>1, <3>1, <3>2 DEF PublishedComplete
  <2>2. ASSUME NEW p \in Proc, Step(p), ~Rename(p) PROVE PublishedComplete
    BY <1>1, <2>2, OnlyRenamePublishes DEF PublishedComplete, IInv
  <2>3. ASSUME NEW n \in Name, Chmod(n) PROVE PublishedComplete
    BY <2>3 DEF Chmod, PublishedComplete
  <2> QED
    BY <1>1, <2>1, <2>2, <2>3 DEF Next
<1> QED
  BY <1>1, Invariance, PTL DEF Spec, PublishesComplete

\* Steps of the library other than these two leave every body alone.
LEMMA OnlyStagingWrites ==
    ASSUME NEW p \in Proc, Step(p), ~CreateStaged(p), ~WriteStaged(p)
    PROVE  body' = body
BY DEF Step, WriteStep, files, Begin, OpenParent, OpenParentUnsafe, regularInfo,
       SecureStaged, SyncStaged, Rename, RemoveLeaf, openManagedFile, ReadLeaf,
       IOError, Discard, Return, Crash

\* An inode that has a name or is open keeps its contents for ever.
THEOREM ReachableNeverChanges == Spec => OpenInodesImmutable
<1>1. ASSUME IInv, [Next]_vars PROVE [ReachableImmutable]_vars
  <2>1. ASSUME NEW p \in Proc, CreateStaged(p) PROVE ReachableImmutable
    BY <1>1, <2>1 DEF CreateStaged, Free, ReachableImmutable, IInv, TypeOK
  <2>2. ASSUME NEW p \in Proc, WriteStaged(p) PROVE ReachableImmutable
    <3> USE ConstantsAssumption DEF IInv, TypeOK, Control, Staging
    <3>1. staged[p] \in Inode /\ body' = [body EXCEPT ![staged[p]] = call[p].value]
      BY <1>1, <2>2 DEF WriteStaged
    <3>2. staged[p] \notin Linked /\ \A q \in Proc : fd[q] # staged[p]
      BY <1>1, <3>1 DEF Ownership, Linked
    <3> QED
      BY <1>1, <3>1, <3>2 DEF ReachableImmutable
  <2>3. ASSUME NEW p \in Proc, Step(p), ~CreateStaged(p), ~WriteStaged(p)
        PROVE  ReachableImmutable
    BY <2>3, OnlyStagingWrites DEF ReachableImmutable
  <2>4. ASSUME NEW n \in Name, Chmod(n) PROVE ReachableImmutable
    BY <2>4 DEF Chmod, ReachableImmutable
  <2> QED
    BY <1>1, <2>1, <2>2, <2>3, <2>4 DEF Next
<1> QED
  BY <1>1, Invariance, PTL DEF Spec, OpenInodesImmutable

\* No operation of the library changes the mode of a file that has a name.
THEOREM NamedModesKept == Spec => NeverRepairs
<1>1. ASSUME IInv, [Next]_vars PROVE [ModesKept]_vars
  <2> SUFFICES ASSUME NEW p \in Proc, Step(p), NEW i \in Linked
               PROVE  mode'[i] = mode[i]
    BY DEF ModesKept
  <2> USE ConstantsAssumption DEF IInv, TypeOK, Control, Staging
  <2>1. CASE CreateStaged(p)
    BY <1>1, <2>1 DEF CreateStaged, Free, Linked
  <2>2. CASE SecureStaged(p)
    <3>1. staged[p] \in Inode /\ staged[p] # i
      BY <1>1, <2>2 DEF SecureStaged, Ownership, Linked
    <3> QED
      BY <1>1, <2>2, <3>1 DEF SecureStaged, Linked
  <2>3. CASE openManagedFile(p)
    BY <1>1, <2>3 DEF openManagedFile, securePermissions
  <2>4. CASE ~CreateStaged(p) /\ ~SecureStaged(p) /\ ~openManagedFile(p)
    <3>1. mode' = mode
      BY <2>4 DEF Step, WriteStep, files, Begin, OpenParent, OpenParentUnsafe,
                  regularInfo, WriteStaged, SyncStaged, Rename, RemoveLeaf, ReadLeaf,
                  IOError, Discard, Return, Crash
    <3> QED
      BY <3>1
  <2> QED
    BY <2>1, <2>2, <2>3, <2>4
<1> QED
  BY <1>1, Invariance, PTL DEF Spec, NeverRepairs

-----------------------------------------------------------------------------
(* Refinement *)

\* A step that leaves names, bodies, calls and results alone is a stutter.
LEMMA Stutter ==
    ASSUME UNCHANGED <<link, body, call, window, ret, out>>
    PROVE  UNCHANGED CF!vars
BY DEF CF!vars, content

\* What a name holds changes with its entry or with the body of its inode only.
LEMMA ContentKept ==
    ASSUME IInv, link' = link, \A i \in Linked : body'[i] = body[i]
    PROVE  content' = content
<1>1. \A n \in Name : Holds(link[n], body') = Holds(link[n], body)
  BY DEF Holds, Linked, IInv, TypeOK
<1> QED
  BY <1>1 DEF content

\* A call that ends without having changed anything decides its result.
LEMMA FinishDecides ==
    ASSUME IInv, NEW p \in Proc, pc[p] \notin {"idle", "done"},
           NEW r \in Result \ {"none"}, NEW v \in Value \cup {NoValue},
           Finish(p, r, v), UNCHANGED <<link, body, window>>,
           CF!Allowed(p, Report(p, r), v)
    PROVE  CF!Next
<1>1. CF!Pending(p)
  BY DEF CF!Pending, IInv, Control
<1>2. Report(p, r) \in Result \ {"none"}
  BY DEF Report, Result
<1>3. UNCHANGED <<content, call, window>>
  BY DEF Finish, content
<1>4. CF!Decide(p)
  BY <1>1, <1>2, <1>3 DEF CF!Decide, Finish, Result, CF!Result
<1> QED
  BY <1>4 DEF CF!Next

\* The rename is the moment at which a write takes effect.
LEMMA RenameInstalls ==
    ASSUME IInv, NEW p \in Proc, Rename(p) PROVE CF!Next
<1> USE ConstantsAssumption DEF IInv, TypeOK, Control, Staging, Call, Op
<1> DEFINE n == call[p].name
<1>1. CF!Pending(p) /\ call[p].op = "write" /\ n \in Name
  BY DEF Rename, CF!Pending
<1>2. content[n] # Alien
  BY DEF Rename, Observation, LinkedComplete, content, Holds
<1>3. staged[p] \in Inode /\ body[staged[p]] = call[p].value
  BY DEF Rename, Stages
<1>4. Holds(staged[p], body) = call[p].value
  BY <1>3 DEF Holds
<1>5. content' = [content EXCEPT ![n] = call[p].value]
  <2>1. link' = [link EXCEPT ![n] = staged[p]] /\ body' = body
    BY DEF Rename
  <2> QED
    BY <1>1, <1>4, <2>1 DEF content
<1>6. window' = [q \in Proc |-> IF call[q] # NoCall /\ call[q].name = n
                                THEN window[q] \cup {call[p].value} ELSE window[q]]
  BY <1>4 DEF Rename, Observed
<1>7. ret' = [ret EXCEPT ![p] = "ok"] /\ UNCHANGED <<call, out>>
  BY <1>1 DEF Rename, Finish, Report
<1>8. CF!Install(p)
  BY <1>1, <1>2, <1>5, <1>6, <1>7 DEF CF!Install, CF!TakesEffect
<1> QED
  BY <1>8 DEF CF!Next

\* A removal takes effect when the entry goes, unless somebody else was faster.
LEMMA RemoveUnlinks ==
    ASSUME IInv, NEW p \in Proc, RemoveLeaf(p) PROVE CF!Next
<1> USE ConstantsAssumption DEF IInv, TypeOK, Control, Staging, Call, Op
<1> DEFINE n == call[p].name
<1>1. CF!Pending(p) /\ call[p].op = "remove" /\ n \in Name /\ pc[p] = "unlink"
  BY DEF RemoveLeaf, CF!Pending
<1>2. CASE link[n] = NoInode
  <2>1. Finish(p, "notexist", NoValue) /\ UNCHANGED <<link, body, window>>
    BY <1>2 DEF RemoveLeaf, NothingObserved
  <2>2. NoValue \in window[p]
    BY <1>1, <1>2 DEF Observation, Holds
  <2>3. Report(p, "notexist") = "notexist"
    BY <1>1 DEF Report
  <2>4. CF!Allowed(p, Report(p, "notexist"), NoValue)
    BY <2>2, <2>3 DEF CF!Allowed
  <2> QED
    BY <1>1, <2>1, <2>4, FinishDecides DEF Result
<1>3. CASE link[n] # NoInode
  <2>1. /\ link[n] \in Inode /\ link' = [link EXCEPT ![n] = NoInode]
        /\ body' = body /\ Observed(n, NoInode) /\ Finish(p, "ok", NoValue)
    BY <1>3 DEF RemoveLeaf
  <2>2. content[n] \in Value
    BY <1>1, <2>1 DEF content, Holds, LinkedComplete
  <2>3. Holds(NoInode, body) = NoValue
    BY DEF Holds
  <2>4. content' = [content EXCEPT ![n] = NoValue]
    BY <1>1, <2>1, <2>3 DEF content
  <2>5. window' = [q \in Proc |-> IF call[q] # NoCall /\ call[q].name = n
                                  THEN window[q] \cup {NoValue} ELSE window[q]]
    BY <2>1, <2>3 DEF Observed
  <2>6. ret' = [ret EXCEPT ![p] = "ok"] /\ UNCHANGED <<call, out>>
    BY <1>1, <2>1 DEF Finish, Report
  <2>7. CF!Unlink(p)
    BY <1>1, <2>2, <2>4, <2>5, <2>6 DEF CF!Unlink, CF!TakesEffect
  <2> QED
    BY <2>7 DEF CF!Next
<1> QED
  BY <1>2, <1>3

\* A failing call, or a rejected directory, reports nothing about the name.
LEMMA FailureDecides ==
    ASSUME IInv, NEW p \in Proc, IOError(p) \/ OpenParentUnsafe(p) PROVE CF!Next
<1>1. PICK r \in {"err", "unsafe"} : Finish(p, r, NoValue)
  BY DEF IOError, OpenParentUnsafe
<1>2. UNCHANGED <<link, body, window>> /\ pc[p] \notin {"idle", "done"}
  BY DEF IOError, OpenParentUnsafe, Discard, NothingObserved, files
<1>3. CF!Allowed(p, Report(p, r), NoValue)
  BY DEF CF!Allowed, Report
<1> QED
  BY <1>1, <1>2, <1>3, FinishDecides DEF Result

\* The name was absent if openParent or Lstat says so.
LEMMA InspectRefines ==
    ASSUME IInv, NEW p \in Proc, OpenParent(p) \/ regularInfo(p)
    PROVE  CF!Next \/ UNCHANGED CF!vars
<1> USE ConstantsAssumption DEF IInv, TypeOK, Control, Call, Op
<1> DEFINE n == call[p].name
<1>1. UNCHANGED <<link, body, window>> /\ pc[p] \in {"parent", "lstat"}
  BY DEF OpenParent, regularInfo, NothingObserved, files
<1>2. \/ UNCHANGED <<call, ret, out>>
      \/ link[n] = NoInode /\ Finish(p, "notexist", NoValue)
      \/ Finish(p, "unsafe", NoValue)
  BY DEF OpenParent, regularInfo, Continue, Ownership
<1>3. CASE UNCHANGED <<call, ret, out>>
  BY <1>1, <1>3, Stutter
<1>4. CASE link[n] = NoInode /\ Finish(p, "notexist", NoValue)
  <2>1. NoValue \in window[p]
    BY <1>1, <1>4 DEF Observation, Holds
  <2>2. CF!Allowed(p, Report(p, "notexist"), NoValue)
    BY <2>1 DEF CF!Allowed, Report
  <2> QED
    BY <1>1, <1>4, <2>2, FinishDecides DEF Result
<1>5. CASE Finish(p, "unsafe", NoValue)
  <2>1. CF!Allowed(p, Report(p, "unsafe"), NoValue)
    BY DEF CF!Allowed, Report
  <2> QED
    BY <1>1, <1>5, <2>1, FinishDecides DEF Result
<1> QED
  BY <1>2, <1>3, <1>4, <1>5

\* Opening for reading decides existence, or starts the read.
LEMMA OpenRefines ==
    ASSUME IInv, NEW p \in Proc, openManagedFile(p)
    PROVE  CF!Next \/ UNCHANGED CF!vars
<1> USE ConstantsAssumption DEF IInv, TypeOK, Control, Call, Op
<1> DEFINE n == call[p].name
<1>1. UNCHANGED <<link, body, window>> /\ pc[p] = "open" /\ n \in Name
  BY DEF openManagedFile, NothingObserved
<1>2. \/ UNCHANGED <<call, ret, out>>
      \/ link[n] = NoInode /\ Finish(p, "notexist", NoValue)
      \/ link[n] \in Inode /\ call[p].op = "exists" /\ Finish(p, "ok", NoValue)
      \/ \E r \in {"err", "unsafe"} : Finish(p, r, NoValue)
  BY DEF openManagedFile
<1>3. CASE UNCHANGED <<call, ret, out>>
  BY <1>1, <1>3, Stutter
<1>4. CASE link[n] = NoInode /\ Finish(p, "notexist", NoValue)
  <2>1. NoValue \in window[p]
    BY <1>1, <1>4 DEF Observation, Holds
  <2>2. CF!Allowed(p, Report(p, "notexist"), NoValue)
    BY <2>1 DEF CF!Allowed, Report
  <2> QED
    BY <1>1, <1>4, <2>2, FinishDecides DEF Result
<1>5. CASE link[n] \in Inode /\ call[p].op = "exists" /\ Finish(p, "ok", NoValue)
  <2>1. Holds(link[n], body) \in Value \cap window[p]
    BY <1>1, <1>5 DEF Observation, LinkedComplete, Holds
  <2>2. CF!Allowed(p, Report(p, "ok"), NoValue)
    BY <1>5, <2>1 DEF CF!Allowed, Report
  <2> QED
    BY <1>1, <1>5, <2>2, FinishDecides DEF Result
<1>6. CASE \E r \in {"err", "unsafe"} : Finish(p, r, NoValue)
  <2>1. PICK r \in {"err", "unsafe"} : Finish(p, r, NoValue)
    BY <1>6
  <2>2. CF!Allowed(p, Report(p, r), NoValue)
    BY DEF CF!Allowed, Report
  <2> QED
    BY <1>1, <2>1, <2>2, FinishDecides DEF Result
<1> QED
  BY <1>2, <1>3, <1>4, <1>5, <1>6

\* A read returns a complete value the name held while the read ran.
LEMMA ReadDecides ==
    ASSUME IInv, NEW p \in Proc, ReadLeaf(p) PROVE CF!Next
<1> USE ConstantsAssumption DEF IInv, TypeOK, Control
<1>1. body[fd[p]] \in Value \cap window[p] /\ call[p].op = "read"
  BY DEF ReadLeaf, Observation
<1>2. CF!Allowed(p, Report(p, "ok"), body[fd[p]])
  BY <1>1 DEF CF!Allowed, Report
<1>3. /\ Finish(p, "ok", body[fd[p]]) /\ pc[p] = "read"
      /\ UNCHANGED <<link, body, window>>
  BY DEF ReadLeaf, NothingObserved, files
<1> QED
  BY <1>1, <1>2, <1>3, FinishDecides DEF Result

\* Staging a file is invisible.
LEMMA StagingStutters ==
    ASSUME IInv, NEW p \in Proc,
           CreateStaged(p) \/ SecureStaged(p) \/ WriteStaged(p) \/ SyncStaged(p)
    PROVE  UNCHANGED CF!vars
<1> USE ConstantsAssumption DEF IInv, TypeOK, Control, Staging
<1>1. link' = link /\ UNCHANGED <<call, window, ret, out>>
  BY DEF CreateStaged, SecureStaged, WriteStaged, SyncStaged, Continue, NothingObserved
<1>2. \A i \in Linked : body'[i] = body[i]
  <2>1. CASE CreateStaged(p)
    BY <2>1 DEF CreateStaged, Free, Linked
  <2>2. CASE WriteStaged(p)
    <3>1. \A i \in Linked : i # staged[p]
      BY <2>2 DEF WriteStaged, Ownership, Linked
    <3> QED
      BY <2>2, <3>1 DEF WriteStaged, Linked
  <2>3. CASE SecureStaged(p) \/ SyncStaged(p)
    BY <2>3 DEF SecureStaged, SyncStaged
  <2> QED
    BY <2>1, <2>2, <2>3
<1>3. content' = content
  BY <1>1, <1>2, ContentKept
<1> QED
  BY <1>1, <1>3 DEF CF!vars

\* Calls begin, return and die in both specifications alike.
LEMMA BoundariesRefine ==
    ASSUME IInv, NEW p \in Proc, Begin(p) \/ Return(p) \/ Crash(p)
    PROVE  CF!Next
<1> USE DEF IInv, TypeOK, Control
<1>1. CASE Begin(p)
  <2>1. PICK c \in Call : /\ call' = [call EXCEPT ![p] = c]
                          /\ window' = [window EXCEPT ![p] = {Holds(link[c.name], body)}]
    BY <1>1 DEF Begin
  <2>2. content[c.name] = Holds(link[c.name], body)
    BY DEF content, Call
  <2>3. c \in CF!Call
    BY DEF Call, Op, CF!Call, CF!Op
  <2>4. UNCHANGED <<content, ret, out>> /\ call[p] = NoCall
    BY <1>1 DEF Begin, files, content
  <2>5. CF!Begin(p)
    BY <2>1, <2>2, <2>3, <2>4 DEF CF!Begin
  <2> QED
    BY <2>5 DEF CF!Next
<1>2. CASE Return(p) \/ Crash(p)
  <2>1. Leave(p) /\ UNCHANGED <<link, body>> /\ call[p] # NoCall
    BY <1>2 DEF Return, Crash, Discard, files
  <2>2. UNCHANGED content
    BY <2>1 DEF content
  <2>3. CF!Leave(p)
    BY <2>1, <2>2 DEF CF!Leave, Leave
  <2> QED
    BY <2>3 DEF CF!Next
<1> QED
  BY <1>1, <1>2

\* store/root.go implements the abstract credential file: every initial state
\* and every step maps to one of CredentialFile, or to a stutter.
THEOREM Refinement == Spec => ImplementsCredentialFile
<1>1. Init => CF!Init
  <2> SUFFICES ASSUME Init PROVE CF!Init
    OBVIOUS
  <2>1. \A n \in Name : Holds(link[n], body) \in Value \cup {NoValue, Alien}
    BY ConstantsAssumption DEF Init, Holds, Linked
  <2>2. content \in [Name -> Value \cup {NoValue, Alien}]
    BY <2>1 DEF content
  <2> QED
    BY <2>2 DEF Init, CF!Init
<1>2. IInv /\ [Next]_vars => [CF!Next]_(CF!vars)
  <2> SUFFICES ASSUME IInv, [Next]_vars PROVE CF!Next \/ UNCHANGED CF!vars
    OBVIOUS
  <2>1. ASSUME NEW p \in Proc, Step(p) PROVE CF!Next \/ UNCHANGED CF!vars
    BY <2>1, RenameInstalls, RemoveUnlinks, FailureDecides, InspectRefines,
       OpenRefines, ReadDecides, StagingStutters, BoundariesRefine DEF Step, WriteStep
  <2>2. ASSUME NEW n \in Name, Chmod(n) PROVE UNCHANGED CF!vars
    BY <2>2, Stutter DEF Chmod
  <2>3. CASE UNCHANGED vars
    BY <2>3, Stutter DEF vars, files
  <2> QED
    BY <2>1, <2>2, <2>3 DEF Next
<1> QED
  BY <1>1, <1>2, Invariance, PTL DEF Spec, ImplementsCredentialFile, CF!Spec

=============================================================================
