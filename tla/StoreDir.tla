------------------------------ MODULE StoreDir ------------------------------
(***************************************************************************)
(* openDirectory and secureDirectory of store/root.go and EnsureDir of     *)
(* store/store.go: how concurrent callers walk from a trusted root down to *)
(* a managed directory, one component at a time, creating and repairing    *)
(* directories on the way when they are going to write.  Every directory   *)
(* has one entry that matters here, the next component of the path.  Other *)
(* programs may rename something else into the place of an entry below the *)
(* root while a caller is between looking at it and opening it.            *)
(***************************************************************************)
EXTENDS Naturals, StorePermissions

CONSTANTS Proc,
          Dir,          \* directories of the managed tree, present or future
          Top,          \* the parent of the root, which callers trust
          Foreign,      \* a directory the path does not lead through
          Link, File,   \* a symbolic link to Foreign, a regular file
          None,
          Depth,        \* components of the path below the root
          Initial,      \* the trees the callers may find
          StartMode,    \* the modes the directories in them may have
          ForeignMode, Umask,
          MaxSwaps      \* bound on the renames by other programs

Node == Dir \cup {Foreign}
Object == Dir \cup {Link, File, None}

\* In a tree no two directories share an entry, one that is nowhere in it is empty,
\* and the path does not continue in Foreign.
Tree(t) ==
    /\ \A m, n \in Node \cup {Top} : t[m] \in Dir /\ t[m] = t[n] => m = n
    /\ \A d \in Dir : (\A n \in Node \cup {Top} : t[n] # d) => t[d] = None
    /\ t[Foreign] = None

ASSUME DirAssumption ==
    /\ Top \notin Node /\ Foreign \notin Object /\ Dir \cap {Link, File, None} = {}
    /\ Link # File /\ None \notin {Link, File}
    /\ Depth \in Nat /\ MaxSwaps \in Nat
    /\ Initial \subseteq [Node \cup {Top} -> Object] /\ \A t \in Initial : Tree(t)
    /\ StartMode \subseteq SUBSET Bits /\ ForeignMode \subseteq Bits /\ Umask \subseteq Bits

Op == {"read", "write", "ensure"}

PC == {"idle", "mkroot", "openroot", "lstat", "mkdir", "relstat", "open", "secure",
       "inspect", "chmod", "done"}

Result == {"none", "ok", "notexist", "unsafe", "err"}

VARIABLES child,    \* the entry of each directory
          mode,
          swaps,    \* renames by other programs so far
          pc, op,
          at,       \* the directory a caller has open
          depth,    \* how many components it has passed
          info,     \* what its Lstat found
          ret,
          excused   \* history: a call failed or was denied for other reasons

tree == <<child, mode, swaps>>
vars == <<tree, pc, op, at, depth, info, ret, excused>>

TypeOK ==
    /\ child \in [Node \cup {Top} -> Object]
    /\ mode \in [Node -> SUBSET Bits]
    /\ swaps \in 0..MaxSwaps
    /\ pc \in [Proc -> PC]
    /\ op \in [Proc -> Op]
    /\ at \in [Proc -> Node \cup {None}]
    /\ depth \in [Proc -> 0..Depth]
    /\ info \in [Proc -> Dir \cup {None}]
    /\ ret \in [Proc -> Result]
    /\ excused \in [Proc -> BOOLEAN]

Init ==
    /\ child \in Initial
    /\ mode \in {m \in [Node -> StartMode \cup {ForeignMode}] : m[Foreign] = ForeignMode}
    /\ swaps = 0
    /\ pc = [p \in Proc |-> "idle"]
    /\ op = [p \in Proc |-> "read"]
    /\ at = [p \in Proc |-> None]
    /\ depth = [p \in Proc |-> 0]
    /\ info = [p \in Proc |-> None]
    /\ ret = [p \in Proc |-> "none"]
    /\ excused = [p \in Proc |-> FALSE]

Goto(p, l) == pc' = [pc EXCEPT ![p] = l]

\* Return r; the handles of a call that failed are closed.
Finish(p, r) ==
    /\ Goto(p, "done")
    /\ ret' = [ret EXCEPT ![p] = r]
    /\ at' = [at EXCEPT ![p] = IF r = "ok" THEN @ ELSE None]
    /\ info' = [info EXCEPT ![p] = None]

Begin(p) ==
    /\ pc[p] = "idle"
    /\ \E o \in Op :
          /\ op' = [op EXCEPT ![p] = o]
          /\ Goto(p, IF o = "read" THEN "openroot" ELSE "mkroot")
    /\ UNCHANGED <<tree, at, depth, info, ret, excused>>

\* Directories that nothing refers to yet.
Unused == {d \in Dir : /\ \A n \in Node \cup {Top} : child[n] # d
                       /\ \A p \in Proc : at[p] # d /\ info[p] # d}

\* mkdir of the entry of n with DirPerm under the umask.
Made(n) ==
    \E d \in Unused :
        /\ child' = [child EXCEPT ![n] = d, ![d] = None]
        /\ mode' = [mode EXCEPT ![d] = DirPerm \ Umask]

\* os.MkdirAll of the root.
MkdirAll(p) ==
    /\ pc[p] = "mkroot"
    /\ \/ /\ child[Top] = None
          /\ Made(Top)
       \/ child[Top] # None /\ UNCHANGED <<child, mode>>
    /\ IF child[Top] = File
         THEN Finish(p, "err")
         ELSE /\ Goto(p, IF op[p] = "ensure" THEN "inspect" ELSE "openroot")
              /\ UNCHANGED <<at, info, ret>>
    /\ UNCHANGED <<swaps, op, depth, excused>>

\* What opening an entry leads to: os.Root follows a link that stays inside it.
Target(x) == IF x = Link THEN Foreign ELSE x

Openable(x) == Target(x) \in Node /\ "ur" \in mode[Target(x)]

\* os.OpenRoot(rootDir).  The root itself may be a link.
OpenRootDir(p) ==
    /\ pc[p] = "openroot"
    /\ IF Openable(child[Top])
         THEN /\ at' = [at EXCEPT ![p] = Target(child[Top])]
              /\ Goto(p, "secure")
              /\ UNCHANGED <<info, ret, excused>>
         ELSE /\ Finish(p, IF child[Top] = None THEN "notexist" ELSE "err")
              /\ excused' = [excused EXCEPT ![p] = TRUE]
    /\ UNCHANGED <<tree, op, depth>>

\* Mutant: the identity of the opened directory is not compared.
SameFile_Unchecked(p) == TRUE

\* The handle is the directory that Lstat found; the root was not looked at.
SameFile(p) == info[p] \in {None, at[p]}

\* Mutant: only the last directory of a path is secured.
Checked_LastOnly(p) ==
    IF depth[p] = Depth THEN securePermissions(mode[at[p]], DirPerm, op[p] = "write")
                        ELSE [ok |-> TRUE, mode |-> mode[at[p]]]

Checked(p) == securePermissions(mode[at[p]], DirPerm, op[p] = "write")

\* secureDirectory, and then the next component or the end of the walk.
secureDirectory(p) ==
    /\ pc[p] = "secure"
    /\ IF SameFile(p) /\ Checked(p).ok
         THEN /\ mode' = [mode EXCEPT ![at[p]] = Checked(p).mode]
              /\ IF depth[p] = Depth
                   THEN Finish(p, "ok")
                   ELSE Goto(p, "lstat") /\ info' = [info EXCEPT ![p] = None] /\ UNCHANGED <<at, ret>>
         ELSE Finish(p, "unsafe") /\ UNCHANGED mode
    /\ UNCHANGED <<child, swaps, op, depth, excused>>

\* What the walk makes of the entry that Lstat found.
Inspected(p, x) ==
    IF x \in Dir
      THEN /\ info' = [info EXCEPT ![p] = x]
           /\ Goto(p, "open") /\ UNCHANGED <<at, ret>>
      ELSE Finish(p, IF x = None THEN "notexist" ELSE "unsafe")

Lstat(p) ==
    /\ pc[p] = "lstat" /\ "ux" \in mode[at[p]]
    /\ LET x == child[at[p]]
       IN  IF x = None /\ op[p] = "write"
             THEN Goto(p, "mkdir") /\ UNCHANGED <<at, info, ret>>
             ELSE Inspected(p, x)
    /\ UNCHANGED <<tree, op, depth, excused>>

\* Mutant: a directory that another caller has just created is an error.
Collides_Fails(p) == Finish(p, "err")

\* fs.ErrExist is as good as success: the entry is inspected again.
Collides(p) == Goto(p, "relstat") /\ UNCHANGED <<at, info, ret>>

Mkdir(p) ==
    /\ pc[p] = "mkdir"
    /\ \/ /\ child[at[p]] = None
          /\ Made(at[p])
          /\ Goto(p, "relstat") /\ UNCHANGED <<at, info, ret>>
       \/ /\ child[at[p]] # None
          /\ Collides(p)
          /\ UNCHANGED <<child, mode>>
    /\ UNCHANGED <<swaps, op, depth, excused>>

Relstat(p) ==
    /\ pc[p] = "relstat"
    /\ Inspected(p, child[at[p]])
    /\ UNCHANGED <<tree, op, depth, excused>>

\* r.OpenRoot(part): what is there now may no longer be what Lstat found.
OpenNext(p) ==
    /\ pc[p] = "open"
    /\ IF Openable(child[at[p]])
         THEN /\ at' = [at EXCEPT ![p] = Target(child[at[p]])]
              /\ depth' = [depth EXCEPT ![p] = @ + 1]
              /\ Goto(p, "secure")
              /\ UNCHANGED <<info, ret, excused>>
         ELSE /\ Finish(p, "err")
              /\ excused' = [excused EXCEPT ![p] = TRUE]
              /\ UNCHANGED depth
    /\ UNCHANGED <<tree, op>>

\* EnsureDir: the entry must be a directory itself, not a link to one.
Inspect(p) ==
    /\ pc[p] = "inspect"
    /\ IF child[Top] \in Dir
         THEN Goto(p, "chmod") /\ UNCHANGED <<at, info, ret>>
         ELSE Finish(p, "unsafe")
    /\ UNCHANGED <<tree, op, depth, excused>>

\* chmod by name, which works even if the owner cannot open the directory.
secureDirectoryPath(p) ==
    /\ pc[p] = "chmod"
    /\ mode' = [mode EXCEPT ![child[Top]] = DirPerm]
    /\ Finish(p, "ok")
    /\ UNCHANGED <<child, swaps, op, depth, excused>>

\* A system call fails, or a directory may not be searched.
IOError(p) ==
    /\ pc[p] \notin {"idle", "done"}
    /\ Finish(p, "err")
    /\ excused' = [excused EXCEPT ![p] = TRUE]
    /\ UNCHANGED <<tree, op, depth>>

\* The caller closes the handle, or its process dies at any point.
Leave(p) ==
    /\ pc[p] # "idle"
    /\ Goto(p, "idle")
    /\ op' = [op EXCEPT ![p] = "read"]
    /\ at' = [at EXCEPT ![p] = None]
    /\ depth' = [depth EXCEPT ![p] = 0]
    /\ info' = [info EXCEPT ![p] = None]
    /\ ret' = [ret EXCEPT ![p] = "none"]
    /\ excused' = [excused EXCEPT ![p] = FALSE]
    /\ UNCHANGED tree

\* Another program renames something over an entry below the root.
Swap ==
    /\ swaps < MaxSwaps
    /\ swaps' = swaps + 1
    /\ \E n \in Dir, x \in Unused \cup {Link, File} :
          /\ child[n] \notin {None, x}
          /\ child' = [child EXCEPT ![n] = x]
    /\ UNCHANGED <<mode, pc, op, at, depth, info, ret, excused>>

Next ==
    \/ \E p \in Proc :
          \/ Begin(p) \/ MkdirAll(p) \/ OpenRootDir(p) \/ secureDirectory(p)
          \/ Lstat(p) \/ Mkdir(p) \/ Relstat(p) \/ OpenNext(p)
          \/ Inspect(p) \/ secureDirectoryPath(p)
          \/ IOError(p) \/ Leave(p)
    \/ Swap

Spec == Init /\ [][Next]_vars

-----------------------------------------------------------------------------
\* In a directory off the path nothing is created and its mode does not change,
\* even if a link to it is renamed into the path between a walk's Lstat and its
\* OpenRoot (root.go:37-60, 65-79).
ForeignUntouched ==
    child[Top] # Link => mode[Foreign] = ForeignMode /\ child[Foreign] = None

\* Callers that create the same directories at once do not fail each other: a
\* writer fails only because of a link, a file, a swap or a failed system call
\* (root.go:39-43).
MkdirRaceHarmless ==
    \A p \in Proc :
        (pc[p] = "done" /\ op[p] # "read" /\ ret[p] # "ok") =>
            excused[p] \/ swaps > 0 \/ \E n \in Dir \cup {Top} : child[n] \in {Link, File}

\* The directories from the root down to n: the least set with n and, with every
\* directory, the one it is an entry of.
Upward(A) == \A d \in Node : child[d] \in A => d \in A
Above(n) == {d \in Node : \A A \in SUBSET Node : n \in A /\ Upward(A) => d \in A}

\* A directory is handed out only if every directory from the root down to it
\* is private, and EnsureDir leaves exactly DirPerm (root.go:29-32, 57-60,
\* store.go:56).
PathPrivate ==
    \A p \in Proc : (pc[p] = "done" /\ ret[p] = "ok" /\ swaps = 0) =>
        IF op[p] = "ensure"
          THEN mode[child[Top]] = DirPerm
          ELSE \A d \in Above(at[p]) : Private(mode[d], DirPerm)
=============================================================================
