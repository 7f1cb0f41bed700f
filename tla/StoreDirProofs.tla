--------------------------- MODULE StoreDirProofs ---------------------------
(***************************************************************************)
(* Proofs about StoreDir for any number of callers, directories and levels *)
(* of the path.  As long as nobody renames anything the tree only grows:   *)
(* an entry that a walk has seen stays, what is above an open directory    *)
(* never gains a member, and a mode that is private stays private.  A      *)
(* rename can send a walk into Foreign, but the comparison with what Lstat *)
(* found ends it there.  The last section is about the access control      *)
(* lists of WindowsACL.                                                    *)
(***************************************************************************)
EXTENDS StoreParts, Integers, Sequences, TLAPS

\* Where a walk has secured the directory it has open and looks for the next one.
Between == {"lstat", "mkdir", "relstat", "open"}

\* p has a directory open, and has secured it.
Holds(p) == pc[p] \in Between \/ (pc[p] = "done" /\ ret[p] = "ok" /\ op[p] # "ensure")

\* What the place of a caller says of its handle and of its operation.
Handle(p) ==
    /\ pc[p] \in {"idle", "mkroot", "openroot"} => info[p] = None
    /\ pc[p] \in Between => depth[p] < Depth
    /\ pc[p] \in Between \cup {"secure", "openroot"} => op[p] # "ensure"
    /\ pc[p] \in {"inspect", "chmod"} => op[p] = "ensure"
    /\ pc[p] = "secure" \/ Holds(p) => at[p] \in Node
    /\ pc[p] = "open" => info[p] \in Dir
    /\ pc[p] = "chmod" => child[Top] \in Dir

\* A walk that was sent to Foreign has not secured it, and will not.
Off ==
    child[Top] # Link =>
        /\ mode[Foreign] = ForeignMode /\ child[Foreign] = None
        /\ \A p \in Proc : at[p] = Foreign => pc[p] = "secure" /\ info[p] \in Dir

\* No directory is an entry of two, and one that is nowhere in the tree is empty.
Forest(c) ==
    /\ \A m, n \in Node \cup {Top} : c[m] \in Dir /\ c[m] = c[n] => m = n
    /\ \A d \in Dir : (\A n \in Node \cup {Top} : c[n] # d) => c[d] = None

\* Directory n is an entry of another.
Reached(n) == \E m \in Node \cup {Top} : child[m] = n

\* Upward and Above for the entries c.
Closed(c, A) == \A d \in Node : c[d] \in A => d \in A
Over(c, n) == {d \in Node : \A A \in SUBSET Node : n \in A /\ Closed(c, A) => d \in A}

\* The directories whose mode in m is private.
Secure(m) == {d \in Node : Private(m[d], DirPerm)}

\* How far a walk has got, as long as nobody has renamed anything.
Walk(p) ==
    /\ at[p] \in Dir => Reached(at[p])
    /\ pc[p] = "open" => info[p] = child[at[p]]
    /\ pc[p] = "secure" => info[p] \in {None, at[p]} /\ Over(child, at[p]) \subseteq Secure(mode) \cup {at[p]}
    /\ pc[p] = "relstat" => child[at[p]] # None
    /\ pc[p] = "inspect" => child[Top] # None
    /\ Holds(p) => Over(child, at[p]) \subseteq Secure(mode)
    /\ pc[p] = "done" /\ ret[p] = "ok" /\ op[p] = "ensure" => child[Top] \in Dir /\ mode[child[Top]] = DirPerm

Calm == swaps = 0 => Forest(child) /\ \A p \in Proc : Walk(p)

Clean == swaps = 0 /\ \A n \in Dir \cup {Top} : child[n] \notin {Link, File}

\* A writer that failed in such a tree has an excuse.
Blameless(p) == pc[p] = "done" /\ op[p] # "read" /\ ret[p] # "ok" => excused[p]

IInv ==
    /\ TypeOK
    /\ \A p \in Proc : Handle(p)
    /\ Off
    /\ Calm
    /\ Clean => \A p \in Proc : Blameless(p)

-----------------------------------------------------------------------------
\* The constants.

LEMMA Objects == /\ Top \notin Node /\ Foreign \notin Object /\ None \notin Node
                 /\ Link \notin Node /\ File \notin Node /\ Top # Foreign
                 /\ Link # File /\ None \notin {Link, File} /\ Foreign \notin Dir /\ None \notin Dir
                 /\ Dir \subseteq Node /\ Foreign \in Node /\ Top \notin Dir
BY DirAssumption DEF Node, Object

LEMMA Modes == DirPerm \subseteq Bits
BY DEF DirPerm, Bits

-----------------------------------------------------------------------------
\* What lies over a directory.

LEMMA OverLeast == ASSUME NEW c, NEW n, NEW A \in SUBSET Node, n \in A, Closed(c, A)
                   PROVE  Over(c, n) \subseteq A
BY DEF Over

LEMMA OverClosed == ASSUME NEW c, NEW n \in Node
                    PROVE  n \in Over(c, n) /\ Closed(c, Over(c, n))
<1>1. n \in Over(c, n)
  BY DEF Over
<1>2. ASSUME NEW d \in Node, c[d] \in Over(c, n) PROVE d \in Over(c, n)
  BY <1>2 DEF Over, Closed
<1> QED
  BY <1>1, <1>2 DEF Closed

\* Over an entry of the root there is nothing else.
LEMMA OverRoot == ASSUME NEW c, NEW b \in Node, \A e \in Node : c[e] # b
                  PROVE  Over(c, b) \subseteq {b}
<1>1. Closed(c, {b})
  BY DEF Closed
<1> QED
  BY <1>1, OverLeast

\* A step down the path adds the directory that it leads to.
LEMMA OverNext == ASSUME NEW c, Forest(c), NEW a \in Node, c[a] \in Dir
                  PROVE  Over(c, c[a]) \subseteq Over(c, a) \cup {c[a]}
<1>1. Over(c, a) \cup {c[a]} \in SUBSET Node
  BY DEF Over, Node
<1>2. ASSUME NEW d \in Node, c[d] \in Over(c, a) \cup {c[a]} PROVE d \in Over(c, a)
  <2>1. CASE c[d] \in Over(c, a)
    BY <2>1, OverClosed DEF Closed
  <2>2. CASE c[d] = c[a]
    BY <2>2, OverClosed DEF Forest
  <2> QED
    BY <1>2, <2>1, <2>2
<1> QED
  BY <1>1, <1>2, OverLeast DEF Closed

\* A new directory n -> d does not get over one that is not new.
LEMMA OverMade == ASSUME NEW c \in [Node \cup {Top} -> Object], NEW n \in Node \cup {Top}, c[n] = None,
                         NEW d \in Dir, \A m \in Node \cup {Top} : c[m] # d, c[d] = None,
                         NEW a \in Node, a # d
                  PROVE  Over([c EXCEPT ![n] = d, ![d] = None], a) \subseteq Over(c, a)
<1> DEFINE e == [c EXCEPT ![n] = d, ![d] = None]
           A == Over(c, a) \ {d}
<1>1. A \in SUBSET Node /\ a \in A
  BY OverClosed DEF Over
<1>2. ASSUME NEW m \in Node, c[m] \in A PROVE m \in A
  <2>1. m \in Over(c, a)
    BY <1>2, OverClosed DEF Closed
  <2>2. m # d
    BY <1>1, <1>2, Objects
  <2> QED
    BY <2>1, <2>2
<1>3. Closed(e, A)
  <2> SUFFICES ASSUME NEW m \in Node, e[m] \in A PROVE c[m] \in A
    BY <1>2 DEF Closed
  <2> QED
    BY <1>1, Objects
<1> QED
  BY <1>1, <1>3, OverLeast

-----------------------------------------------------------------------------
\* The types.

LEMMA CheckedType == ASSUME TypeOK, NEW p \in Proc, at[p] \in Node
                     PROVE  /\ Checked(p).mode \in SUBSET Bits
                            /\ Checked(p).mode = DirPerm \/ Checked(p).mode = mode[at[p]]
                            /\ Checked(p).ok /\ op[p] = "write" => Checked(p).mode = DirPerm
                            /\ Checked(p).ok => Checked(p).mode \subseteq DirPerm
                            /\ op[p] = "write" => Checked(p).ok
<1>1. mode[at[p]] \in SUBSET Bits
  BY DEF TypeOK
<1>2. CASE op[p] = "write"
  <2>1. Checked(p).ok /\ Checked(p).mode = DirPerm
    BY <1>2 DEF Checked, securePermissions
  <2> QED
    BY <1>2, <2>1, Modes
<1>3. CASE op[p] # "write"
  <2>1. Checked(p).mode = mode[at[p]] /\ (Checked(p).ok <=> mode[at[p]] \cap DirPerm = mode[at[p]])
    BY <1>3 DEF Checked, securePermissions
  <2> QED
    BY <1>1, <1>3, <2>1
<1> QED
  BY <1>2, <1>3

LEMMA TypeStep == ASSUME TypeOK, \A p \in Proc : Handle(p), [Next]_vars PROVE TypeOK'
<1> USE DirAssumption DEF tree, vars
<1>0. \A x \in Dir \cup {None} : x \in Object /\ x \in Node \cup {None}
  BY DEF Object, Node
<1>1. ASSUME NEW n \in Node \cup {Top}, Made(n)
      PROVE  child' \in [Node \cup {Top} -> Object] /\ mode' \in [Node -> SUBSET Bits]
  BY <1>0, <1>1, Modes DEF TypeOK, Made, Unused
<1>2. ASSUME NEW p \in Proc, NEW r \in Result, Finish(p, r)
      PROVE  /\ pc' \in [Proc -> PC] /\ ret' \in [Proc -> Result]
             /\ at' \in [Proc -> Node \cup {None}] /\ info' \in [Proc -> Dir \cup {None}]
  BY <1>2 DEF TypeOK, Finish, Goto, PC
<1>3. ASSUME NEW p \in Proc, Begin(p) PROVE TypeOK'
  BY <1>3 DEF TypeOK, Begin, Goto, Op, PC
<1>4. ASSUME NEW p \in Proc, MkdirAll(p) PROVE TypeOK'
  <2>1. child' \in [Node \cup {Top} -> Object] /\ mode' \in [Node -> SUBSET Bits]
    BY <1>1, <1>4 DEF MkdirAll, TypeOK
  <2>2. /\ pc' \in [Proc -> PC] /\ ret' \in [Proc -> Result]
        /\ at' \in [Proc -> Node \cup {None}] /\ info' \in [Proc -> Dir \cup {None}]
    BY <1>2, <1>4 DEF MkdirAll, TypeOK, Goto, PC, Result
  <2> QED
    BY <1>4, <2>1, <2>2 DEF TypeOK, MkdirAll
<1>5. ASSUME NEW p \in Proc, OpenRootDir(p) PROVE TypeOK'
  <2>1. Openable(child[Top]) => Target(child[Top]) \in Node
    BY DEF Openable
  <2>2. /\ pc' \in [Proc -> PC] /\ ret' \in [Proc -> Result]
        /\ at' \in [Proc -> Node \cup {None}] /\ info' \in [Proc -> Dir \cup {None}]
    BY <1>2, <1>5, <2>1 DEF OpenRootDir, TypeOK, Goto, PC, Result
  <2> QED
    BY <1>5, <2>2 DEF TypeOK, OpenRootDir
<1>6. ASSUME NEW p \in Proc, secureDirectory(p) PROVE TypeOK'
  <2>1. mode' \in [Node -> SUBSET Bits]
    BY <1>6, CheckedType DEF secureDirectory, TypeOK, Handle
  <2>2. /\ pc' \in [Proc -> PC] /\ ret' \in [Proc -> Result]
        /\ at' \in [Proc -> Node \cup {None}] /\ info' \in [Proc -> Dir \cup {None}]
    BY <1>2, <1>6 DEF secureDirectory, TypeOK, Goto, PC, Result
  <2> QED
    BY <1>6, <2>1, <2>2 DEF TypeOK, secureDirectory
<1>7. ASSUME NEW p \in Proc, NEW x, Inspected(p, x)
      PROVE  /\ pc' \in [Proc -> PC] /\ ret' \in [Proc -> Result]
             /\ at' \in [Proc -> Node \cup {None}] /\ info' \in [Proc -> Dir \cup {None}]
  BY <1>2, <1>7 DEF Inspected, TypeOK, Goto, PC, Result
<1>8. ASSUME NEW p \in Proc, Lstat(p) PROVE TypeOK'
  <2>1. /\ pc' \in [Proc -> PC] /\ ret' \in [Proc -> Result]
        /\ at' \in [Proc -> Node \cup {None}] /\ info' \in [Proc -> Dir \cup {None}]
    BY <1>7, <1>8 DEF Lstat, TypeOK, Goto, PC
  <2> QED
    BY <1>8, <2>1 DEF TypeOK, Lstat
<1>9. ASSUME NEW p \in Proc, Mkdir(p) PROVE TypeOK'
  <2>1. child' \in [Node \cup {Top} -> Object] /\ mode' \in [Node -> SUBSET Bits]
    BY <1>1, <1>9 DEF Mkdir, TypeOK, Handle, Holds, Between
  <2> QED
    BY <1>9, <2>1 DEF TypeOK, Mkdir, Collides, Goto, PC
<1>10. ASSUME NEW p \in Proc, Relstat(p) PROVE TypeOK'
  BY <1>7, <1>10 DEF TypeOK, Relstat
<1>11. ASSUME NEW p \in Proc, OpenNext(p) PROVE TypeOK'
  <2>1. Openable(child[at[p]]) => Target(child[at[p]]) \in Node
    BY DEF Openable
  <2>2. /\ pc' \in [Proc -> PC] /\ ret' \in [Proc -> Result]
        /\ at' \in [Proc -> Node \cup {None}] /\ info' \in [Proc -> Dir \cup {None}]
    BY <1>2, <1>11, <2>1 DEF OpenNext, TypeOK, Goto, PC, Result
  <2>3. depth[p] \in 0..Depth /\ depth[p] < Depth
    BY <1>11 DEF OpenNext, TypeOK, Handle, Between
  <2>4. depth' \in [Proc -> 0..Depth]
    BY <1>11, <2>3 DEF OpenNext, TypeOK
  <2> QED
    BY <1>11, <2>2, <2>4 DEF TypeOK, OpenNext
<1>12. ASSUME NEW p \in Proc, Inspect(p) PROVE TypeOK'
  <2>1. /\ pc' \in [Proc -> PC] /\ ret' \in [Proc -> Result]
        /\ at' \in [Proc -> Node \cup {None}] /\ info' \in [Proc -> Dir \cup {None}]
    BY <1>2, <1>12 DEF Inspect, TypeOK, Goto, PC, Result
  <2> QED
    BY <1>12, <2>1 DEF TypeOK, Inspect
<1>13. ASSUME NEW p \in Proc, secureDirectoryPath(p) PROVE TypeOK'
  BY <1>2, <1>13, Modes DEF TypeOK, secureDirectoryPath, Result
<1>14. ASSUME NEW p \in Proc, IOError(p) PROVE TypeOK'
  BY <1>2, <1>14 DEF TypeOK, IOError, Result
<1>15. ASSUME NEW p \in Proc, Leave(p) PROVE TypeOK'
  BY <1>15 DEF TypeOK, Leave, Goto, Op, PC, Result
<1>16. CASE Swap
  <2>1. \A x \in Unused \cup {Link, File} : x \in Object
    BY DEF Unused, Object
  <2>2. swaps' \in 0..MaxSwaps
    BY <1>16 DEF Swap, TypeOK
  <2>3. child' \in [Node \cup {Top} -> Object]
    BY <1>16, <2>1 DEF Swap, TypeOK
  <2> QED
    BY <1>16, <2>2, <2>3 DEF Swap, TypeOK
<1>17. CASE UNCHANGED vars
  BY <1>17 DEF TypeOK
<1> QED
  BY <1>3, <1>4, <1>5, <1>6, <1>8, <1>9, <1>10, <1>11, <1>12, <1>13, <1>14, <1>15, <1>16, <1>17 DEF Next

-----------------------------------------------------------------------------
\* What a step of p leaves alone, and where it leads.

Step(p) ==
    \/ Begin(p) \/ MkdirAll(p) \/ OpenRootDir(p) \/ secureDirectory(p)
    \/ Lstat(p) \/ Mkdir(p) \/ Relstat(p) \/ OpenNext(p)
    \/ Inspect(p) \/ secureDirectoryPath(p) \/ IOError(p) \/ Leave(p)

Same(q) ==
    /\ pc'[q] = pc[q] /\ op'[q] = op[q] /\ at'[q] = at[q] /\ depth'[q] = depth[q]
    /\ info'[q] = info[q] /\ ret'[q] = ret[q] /\ excused'[q] = excused[q]

LEMMA Others == ASSUME TypeOK, NEW p \in Proc, Step(p), NEW q \in Proc, q # p PROVE Same(q)
<1> USE DEF TypeOK, Same, Goto, Finish, Inspected
<1>1. CASE Begin(p) \/ MkdirAll(p) \/ OpenRootDir(p)
  BY <1>1 DEF Begin, MkdirAll, OpenRootDir
<1>2. CASE secureDirectory(p) \/ Lstat(p) \/ Relstat(p)
  BY <1>2 DEF secureDirectory, Lstat, Relstat
<1>3. CASE Mkdir(p) \/ OpenNext(p) \/ Inspect(p)
  BY <1>3 DEF Mkdir, Collides, OpenNext, Inspect
<1>4. CASE secureDirectoryPath(p) \/ IOError(p) \/ Leave(p)
  BY <1>4 DEF secureDirectoryPath, IOError, Leave
<1> QED
  BY <1>1, <1>2, <1>3, <1>4 DEF Step

\* A call that ends.
LEMMA Ended == ASSUME TypeOK, NEW p \in Proc, NEW r, Finish(p, r)
               PROVE  pc'[p] = "done" /\ ret'[p] = r /\ (r # "ok" => at'[p] = None) /\ (r = "ok" => at'[p] = at[p])
BY DEF TypeOK, Finish, Goto

\* What a step does to the tree: nothing, a new directory, a new mode, a rename.
Still == UNCHANGED <<child, mode, swaps>>
Grown == swaps' = swaps /\ \E n \in Node \cup {Top} : child[n] = None /\ Made(n)
             /\ (n = Top \/ \E p \in Proc : n = at[p] /\ pc[p] = "mkdir")
Repaired(p) ==
    /\ swaps' = swaps /\ child' = child
    /\ \/ /\ secureDirectory(p) /\ SameFile(p) /\ Checked(p).ok
          /\ mode' = [mode EXCEPT ![at[p]] = Checked(p).mode]
       \/ secureDirectoryPath(p)

LEMMA TreeStep == ASSUME TypeOK, \A p \in Proc : Handle(p), NEW p \in Proc, Step(p)
                  PROVE  Still \/ Grown \/ Repaired(p)
<1> USE DEF tree
<1>1. CASE Begin(p) \/ OpenRootDir(p) \/ Lstat(p) \/ Relstat(p) \/ OpenNext(p) \/ Inspect(p) \/ IOError(p) \/ Leave(p)
  BY <1>1 DEF Still, Begin, OpenRootDir, Lstat, Relstat, OpenNext, Inspect, IOError, Leave
<1>2. CASE MkdirAll(p)
  BY <1>2 DEF Still, Grown, MkdirAll
<1>3. CASE Mkdir(p)
  <2>1. at[p] \in Node
    BY <1>3 DEF Mkdir, Handle, Holds, Between
  <2> QED
    BY <1>3, <2>1 DEF Still, Grown, Mkdir
<1>4. CASE secureDirectory(p)
  BY <1>4 DEF Still, Repaired, secureDirectory
<1>5. CASE secureDirectoryPath(p)
  BY <1>5 DEF Repaired, secureDirectoryPath
<1> QED
  BY <1>1, <1>2, <1>3, <1>4, <1>5 DEF Step

\* The root comes once and stays, and nothing but itself takes its place.
LEMMA RootStays == ASSUME TypeOK, \A p \in Proc : Handle(p), NEW p \in Proc, Step(p) \/ Swap
                   PROVE  /\ child[Top] # None => child'[Top] = child[Top]
                          /\ child'[Top] = child[Top] \/ child'[Top] \in Dir
<1>1. CASE Step(p)
  <2>1. CASE Grown
    BY <2>1, Objects DEF Grown, Made, Unused, TypeOK, Node
  <2> QED
    BY <1>1, <2>1, TreeStep DEF Still, Repaired
<1>2. CASE Swap
  BY <1>2, Objects DEF Swap, TypeOK, Node
<1> QED
  BY <1>1, <1>2

LEMMA HandleStep == ASSUME TypeOK, \A q \in Proc : Handle(q), NEW p \in Proc, Step(p)
                    PROVE  \A q \in Proc : Handle(q)'
<1>1. ASSUME NEW q \in Proc, q # p PROVE Handle(q)'
  <2>1. child[Top] \in Dir => child'[Top] \in Dir
    BY RootStays
  <2> QED
    BY <1>1, <2>1, Others DEF Same, Handle, Holds
<1>2. Handle(p)'
  <2>1. ASSUME NEW r \in Result \ {"ok"}, Finish(p, r) PROVE Handle(p)'
    BY <2>1, Ended DEF Handle, Holds, Between
  <2>2. CASE Begin(p) \/ Leave(p)
    BY <2>2 DEF TypeOK, Begin, Leave, Goto, Handle, Holds, Between
  <2>3. CASE MkdirAll(p)
    <3>1. CASE child[Top] # File
      BY <2>3, <3>1 DEF TypeOK, MkdirAll, Goto, Handle, Holds, Between
    <3> QED
      BY <2>1, <2>3, <3>1 DEF MkdirAll, Result
  <2>4. CASE OpenRootDir(p)
    <3>1. CASE Openable(child[Top])
      BY <2>4, <3>1 DEF TypeOK, OpenRootDir, Openable, Goto, Handle, Holds, Between
    <3> QED
      BY <2>1, <2>4, <3>1 DEF OpenRootDir, Result
  <2>5. CASE secureDirectory(p)
    <3> USE <2>5 DEF secureDirectory
    <3>1. CASE ~(SameFile(p) /\ Checked(p).ok)
      BY <2>1, <3>1 DEF Result
    <3>2. CASE SameFile(p) /\ Checked(p).ok /\ depth[p] = Depth
      BY <3>2, Ended DEF TypeOK, Handle, Holds, Between
    <3>3. CASE SameFile(p) /\ Checked(p).ok /\ depth[p] # Depth
      <4>1. depth[p] < Depth
        BY <3>3, DirAssumption DEF TypeOK
      <4> QED
        BY <3>3, <4>1 DEF TypeOK, Goto, Handle, Holds, Between
    <3> QED
      BY <3>1, <3>2, <3>3
  <2>6. CASE Lstat(p)
    <3>1. CASE child[at[p]] = None /\ op[p] = "write"
      BY <2>6, <3>1 DEF TypeOK, Lstat, Goto, Handle, Holds, Between
    <3>2. CASE ~(child[at[p]] = None /\ op[p] = "write") /\ child[at[p]] \in Dir
      BY <2>6, <3>2 DEF TypeOK, Lstat, Inspected, Goto, Handle, Holds, Between
    <3> QED
      BY <2>1, <2>6, <3>1, <3>2 DEF Lstat, Inspected, Result
  <2>7. CASE Mkdir(p)
    BY <2>7 DEF TypeOK, Mkdir, Collides, Goto, Handle, Holds, Between
  <2>8. CASE Relstat(p)
    <3>1. CASE child[at[p]] \in Dir
      BY <2>8, <3>1 DEF TypeOK, Relstat, Inspected, Goto, Handle, Holds, Between
    <3> QED
      BY <2>1, <2>8, <3>1 DEF Relstat, Inspected, Result
  <2>9. CASE OpenNext(p)
    <3>1. CASE Openable(child[at[p]])
      BY <2>9, <3>1 DEF TypeOK, OpenNext, Openable, Goto, Handle, Holds, Between
    <3> QED
      BY <2>1, <2>9, <3>1 DEF OpenNext, Result
  <2>10. CASE Inspect(p)
    <3>1. CASE child[Top] \in Dir
      BY <2>10, <3>1 DEF TypeOK, Inspect, tree, Goto, Handle, Holds, Between
    <3> QED
      BY <2>1, <2>10, <3>1 DEF Inspect, Result
  <2>11. CASE secureDirectoryPath(p)
    BY <2>11, Ended DEF TypeOK, secureDirectoryPath, Handle, Holds, Between
  <2>12. CASE IOError(p)
    BY <2>1, <2>12 DEF IOError, Result
  <2> QED
    BY <2>2, <2>3, <2>4, <2>5, <2>6, <2>7, <2>8, <2>9, <2>10, <2>11, <2>12 DEF Step
<1> QED
  BY <1>1, <1>2

-----------------------------------------------------------------------------
\* A walk that ends up in Foreign is refused there.

LEMMA OffStep == ASSUME TypeOK, \A q \in Proc : Handle(q), Off, NEW p \in Proc, Step(p) PROVE Off'
<1> SUFFICES ASSUME child'[Top] # Link
             PROVE  /\ mode'[Foreign] = ForeignMode /\ child'[Foreign] = None
                    /\ \A q \in Proc : at'[q] = Foreign => pc'[q] = "secure" /\ info'[q] \in Dir
  BY DEF Off
<1>0. /\ child[Top] # Link /\ mode[Foreign] = ForeignMode /\ child[Foreign] = None
      /\ \A q \in Proc : at[q] = Foreign => pc[q] = "secure" /\ info[q] \in Dir
  <2>1. child[Top] # Link
    BY RootStays, Objects
  <2> QED
    BY <2>1 DEF Off
<1>1. mode'[Foreign] = ForeignMode /\ child'[Foreign] = None
  <2>1. CASE Grown
    <3>1. PICK n \in Node \cup {Top} : Made(n) /\ n # Foreign
      BY <1>0, <2>1, Objects DEF Grown
    <3> QED
      BY <1>0, <3>1, Objects DEF TypeOK, Made, Unused, Object
  <2>2. CASE Repaired(p) /\ secureDirectory(p)
    <3>1. at[p] # Foreign
      BY <1>0, <2>2, Objects, DirAssumption DEF Repaired, SameFile, secureDirectory, secureDirectoryPath, Object
    <3>2. child' = child /\ mode' = [mode EXCEPT ![at[p]] = Checked(p).mode]
      BY <2>2 DEF Repaired, secureDirectory, secureDirectoryPath
    <3> QED
      BY <1>0, <3>1, <3>2, Objects DEF TypeOK
  <2>3. CASE Repaired(p) /\ secureDirectoryPath(p)
    <3>1. child[Top] # Foreign
      BY <2>3, Objects DEF secureDirectoryPath, Handle, Object
    <3> QED
      BY <1>0, <2>3, <3>1 DEF Repaired, secureDirectoryPath, TypeOK
  <2> QED
    BY <1>0, <2>1, <2>2, <2>3, TreeStep DEF Still, Repaired
<1>2. ASSUME NEW q \in Proc, q # p, at'[q] = Foreign PROVE pc'[q] = "secure" /\ info'[q] \in Dir
  BY <1>0, <1>2, Others DEF Same
<1>3. at'[p] = Foreign => pc'[p] = "secure" /\ info'[p] \in Dir
  <2>0. Foreign # None
    BY Objects DEF Object
  <2>1. ASSUME NEW r, Finish(p, r), r # "ok" PROVE at'[p] # Foreign
    BY <2>0, <2>1, Ended
  <2>2. CASE Begin(p) \/ Mkdir(p) \/ MkdirAll(p) \/ Inspect(p)
    <3>1. pc[p] # "secure" /\ at'[p] \in {at[p], None}
      BY <2>2 DEF TypeOK, Begin, Mkdir, Collides, MkdirAll, Inspect, Finish, Goto
    <3> QED
      BY <1>0, <2>0, <3>1
  <2>3. CASE OpenRootDir(p)
    <3>1. CASE Openable(child[Top])
      <4>1. child[Top] # Foreign /\ Target(child[Top]) = child[Top]
        BY <1>0, Objects DEF TypeOK, Target
      <4>2. at'[p] = child[Top]
        BY <2>3, <3>1, <4>1 DEF TypeOK, OpenRootDir
      <4> QED
        BY <4>1, <4>2
    <3> QED
      BY <2>1, <2>3, <3>1 DEF OpenRootDir
  <2>4. CASE secureDirectory(p)
    <3>1. CASE SameFile(p) /\ Checked(p).ok
      <4>1. at[p] # Foreign
        BY <1>0, <3>1, Objects DEF SameFile, Object
      <4> QED
        BY <2>0, <2>4, <3>1, <4>1 DEF TypeOK, secureDirectory, Finish
    <3> QED
      BY <2>1, <2>4, <3>1 DEF secureDirectory
  <2>5. CASE Lstat(p) \/ Relstat(p)
    <3>1. pc[p] # "secure" /\ at'[p] \in {at[p], None}
      BY <2>5 DEF TypeOK, Lstat, Relstat, Inspected, Finish, Goto
    <3> QED
      BY <1>0, <2>0, <3>1
  <2>6. CASE OpenNext(p)
    <3>1. CASE Openable(child[at[p]])
      BY <2>6, <3>1 DEF TypeOK, OpenNext, Goto, Handle
    <3> QED
      BY <2>1, <2>6, <3>1 DEF OpenNext
  <2>7. CASE secureDirectoryPath(p)
    <3>1. pc[p] # "secure" /\ at'[p] \in {at[p], None}
      BY <2>7 DEF TypeOK, secureDirectoryPath, Finish
    <3> QED
      BY <1>0, <2>0, <3>1
  <2>8. CASE IOError(p) \/ Leave(p)
    BY <2>0, <2>1, <2>8 DEF TypeOK, IOError, Leave
  <2> QED
    BY <2>2, <2>3, <2>4, <2>5, <2>6, <2>7, <2>8 DEF Step
<1> QED
  BY <1>1, <1>2, <1>3

-----------------------------------------------------------------------------
\* Without renames the tree only grows.

Grows ==
    /\ Forest(child')
    /\ \A n \in Node \cup {Top} : child[n] # None => child'[n] = child[n]
    /\ \A q \in Proc : at[q] \in Node => Over(child', at[q]) \subseteq Over(child, at[q])
    /\ Secure(mode) \subseteq Secure(mode')
    /\ (child[Top] \in Dir /\ mode[child[Top]] = DirPerm) => mode'[child[Top]] = DirPerm

LEMMA MadeGrows == ASSUME TypeOK, Forest(child), NEW n \in Node \cup {Top}, child[n] = None, Made(n),
                          n \in Dir => Reached(n)
                   PROVE  Grows
<1>1. PICK d \in Unused : /\ child' = [child EXCEPT ![n] = d, ![d] = None]
                          /\ mode' = [mode EXCEPT ![d] = DirPerm \ Umask]
  BY DEF Made
<1>2. /\ d \in Dir /\ d \in Node /\ d # Top /\ d # None /\ child[d] = None
      /\ \A m \in Node \cup {Top} : child[m] # d
      /\ \A q \in Proc : at[q] # d
  BY Objects DEF Unused, Forest, Node
<1>3. child \in [Node \cup {Top} -> Object]
  BY DEF TypeOK
<1>4. \A m \in Node \cup {Top} : child'[m] = IF m = d THEN None ELSE IF m = n THEN d ELSE child[m]
  BY <1>1, <1>2, <1>3
<1>5. \A m \in Node \cup {Top} : child[m] # None => child'[m] = child[m]
  BY <1>2, <1>4
<1>6. Forest(child')
  <2>1. ASSUME NEW k \in Node \cup {Top}, NEW m \in Node \cup {Top}, child'[m] \in Dir, child'[m] = child'[k]
        PROVE  m = k
    BY <1>2, <1>4, <2>1, Objects DEF Forest, Node
  <2>2. ASSUME NEW e \in Dir, \A m \in Node \cup {Top} : child'[m] # e PROVE child'[e] = None
    <3>1. CASE n = d
      BY <1>2, <1>3, <1>4, <2>2, <3>1, Objects DEF Forest, Node
    <3>2. CASE n # d
      <4>1. e # d
        BY <1>2, <1>4, <2>2, <3>2
      <4>2. \A m \in Node \cup {Top} : child[m] # e
        BY <1>2, <1>4, <2>2, Objects DEF Node
      <4>3. child[e] = None
        BY <4>2 DEF Forest
      <4>4. e # n
        BY <4>2 DEF Reached
      <4> QED
        BY <1>4, <4>1, <4>3, <4>4 DEF Node
    <3> QED
      BY <3>1, <3>2
  <2> QED
    BY <2>1, <2>2 DEF Forest
<1>7. ASSUME NEW q \in Proc, at[q] \in Node PROVE Over(child', at[q]) \subseteq Over(child, at[q])
  BY <1>1, <1>2, <1>3, <1>7, OverMade
<1>8. Secure(mode) \subseteq Secure(mode')
  BY <1>1, <1>2 DEF TypeOK, Secure, Private
<1>9. child[Top] \in Dir => mode'[child[Top]] = mode[child[Top]]
  BY <1>1, <1>2 DEF TypeOK
<1> QED
  BY <1>5, <1>6, <1>7, <1>8, <1>9 DEF Grows

LEMMA StepGrows == ASSUME TypeOK, \A q \in Proc : Handle(q) /\ Walk(q), Forest(child), NEW p \in Proc, Step(p) PROVE Grows
<1>1. CASE Still
  BY <1>1 DEF Still, Grows
<1>2. CASE Grown
  BY <1>2, MadeGrows, Objects DEF Grown, Walk
<1>3. CASE Repaired(p) /\ secureDirectory(p)
  <2>1. at[p] \in Node
    BY <1>3 DEF secureDirectory, Handle
  <2>2. /\ mode' = [mode EXCEPT ![at[p]] = Checked(p).mode] /\ child' = child
        /\ Checked(p).mode \in {DirPerm, mode[at[p]]}
    BY <1>3, <2>1, CheckedType DEF Repaired, secureDirectory, secureDirectoryPath
  <2> QED
    BY <2>1, <2>2 DEF TypeOK, Grows, Secure, Private
<1>4. CASE Repaired(p) /\ secureDirectoryPath(p)
  <2>1. child' = child /\ mode' = [mode EXCEPT ![child[Top]] = DirPerm]
    BY <1>4 DEF Repaired, secureDirectoryPath
  <2> QED
    BY <2>1 DEF TypeOK, Grows, Secure, Private
<1> QED
  BY <1>1, <1>2, <1>3, <1>4, TreeStep DEF Repaired

LEMMA WalkKept == ASSUME TypeOK, Grows, NEW q \in Proc, Handle(q), Walk(q), Same(q) PROVE Walk(q)'
<1> USE DEF Same
<1>1. (at[q] \in Dir => Reached(at[q]))'
  BY Objects DEF Grows, Walk, Reached
<1>2. (pc[q] = "open" => info[q] = child[at[q]])'
  BY Objects DEF Grows, Walk, Handle, Holds, Between
<1>3. pc[q] = "secure" \/ Holds(q) => Over(child', at[q]) \subseteq Over(child, at[q])
  BY DEF Grows, Handle
<1>4. (pc[q] = "secure" => info[q] \in {None, at[q]} /\ Over(child, at[q]) \subseteq Secure(mode) \cup {at[q]})'
  BY <1>3 DEF Grows, Walk
<1>5. (pc[q] = "relstat" => child[at[q]] # None)'
  BY DEF Grows, Walk, Handle, Holds, Between
<1>6. (pc[q] = "inspect" => child[Top] # None)'
  BY DEF Grows, Walk
<1>7. (Holds(q) => Over(child, at[q]) \subseteq Secure(mode))'
  <2>1. Holds(q)' <=> Holds(q)
    BY DEF Holds
  <2> QED
    BY <1>3, <2>1 DEF Grows, Walk
<1>8. (pc[q] = "done" /\ ret[q] = "ok" /\ op[q] = "ensure" => child[Top] \in Dir /\ mode[child[Top]] = DirPerm)'
  BY Objects DEF Grows, Walk
<1> QED
  BY <1>1, <1>2, <1>4, <1>5, <1>6, <1>7, <1>8 DEF Walk

LEMMA WalkStep == ASSUME TypeOK, \A q \in Proc : Handle(q) /\ Walk(q), Forest(child), NEW p \in Proc, Step(p)
                  PROVE  Walk(p)'
<1> USE DEF tree
<1>0. Grows
  BY StepGrows
<1>1. ASSUME at'[p] = None, pc'[p] \in {"done", "idle"}, ret'[p] # "ok" PROVE Walk(p)'
  BY <1>1, Objects DEF Walk, Holds, Between
<1>2. ASSUME NEW r, Finish(p, r), r # "ok" PROVE Walk(p)'
  BY <1>1, <1>2, Ended
<1>3. ASSUME at'[p] = at[p], pc'[p] \in {"mkroot", "openroot", "inspect", "mkdir", "chmod"},
             pc'[p] = "inspect" => child'[Top] # None,
             pc'[p] = "mkdir" => Over(child, at[p]) \subseteq Secure(mode) /\ at[p] \in Node
      PROVE  Walk(p)'
  <2>1. (at[p] \in Dir => Reached(at[p]))'
    BY <1>0, <1>3, Objects DEF Grows, Walk, Reached
  <2> QED
    BY <1>0, <1>3, <2>1, Objects DEF Walk, Holds, Between, Grows
<1>4. CASE Begin(p)
  BY <1>3, <1>4 DEF Begin, Goto, TypeOK
<1>5. CASE MkdirAll(p)
  <2>1. CASE child[Top] # File
    <3>1. child'[Top] # None
      BY <1>5, Objects DEF MkdirAll, Made, Unused, TypeOK
    <3> QED
      BY <1>3, <1>5, <2>1, <3>1 DEF MkdirAll, Goto, TypeOK
  <2> QED
    BY <1>2, <1>5, <2>1 DEF MkdirAll
<1>6. CASE OpenRootDir(p)
  <2>1. CASE Openable(child[Top])
    <3> DEFINE b == Target(child[Top])
    <3>1. b \in Node /\ child' = child /\ mode' = mode /\ at'[p] = b /\ pc'[p] = "secure" /\ info'[p] = None
      BY <1>6, <2>1 DEF OpenRootDir, Openable, Goto, TypeOK, Handle
    <3>2. b \in Dir => b = child[Top]
      BY Objects DEF Target
    <3>3. \A e \in Node : child[e] # b
      BY <3>1, <3>2, Objects DEF Forest, TypeOK, Node
    <3>4. Over(child, b) \subseteq {b}
      BY <3>1, <3>3, OverRoot
    <3>5. (at[p] \in Dir => Reached(at[p]))'
      BY <3>1, <3>2 DEF Reached
    <3>6. (Over(child, at[p]) \subseteq Secure(mode) \cup {at[p]})'
      BY <3>1, <3>4
    <3> QED
      BY <3>1, <3>5, <3>6 DEF Walk, Holds, Between
  <2> QED
    BY <1>2, <1>6, <2>1 DEF OpenRootDir
<1>7. CASE secureDirectory(p)
  <2>1. CASE SameFile(p) /\ Checked(p).ok
    <3>1. /\ at[p] \in Node /\ at'[p] = at[p] /\ child' = child
          /\ mode' = [mode EXCEPT ![at[p]] = Checked(p).mode] /\ op'[p] = op[p] /\ op[p] # "ensure"
          /\ pc'[p] \in {"lstat", "done"}
      BY <1>7, <2>1, Ended DEF secureDirectory, Goto, TypeOK, Handle
    <3>2. at[p] \in Secure(mode')
      BY <2>1, <3>1, CheckedType DEF Secure, Private, TypeOK
    <3>3. Over(child, at[p]) \subseteq Secure(mode')
      BY <1>0, <1>7, <3>2 DEF Grows, secureDirectory, Walk
    <3>4. (at[p] \in Dir => Reached(at[p]))'
      BY <3>1 DEF Reached, Walk
    <3>5. (Over(child, at[p]) \subseteq Secure(mode))'
      BY <3>1, <3>3
    <3> QED
      BY <3>1, <3>4, <3>5 DEF Walk
  <2> QED
    BY <1>2, <1>7, <2>1 DEF secureDirectory
<1>8. ASSUME pc[p] \in Between, child' = child, mode' = mode, Inspected(p, child[at[p]]) PROVE Walk(p)'
  <2>1. CASE child[at[p]] \in Dir
    <3>1. at'[p] = at[p] /\ pc'[p] = "open" /\ info'[p] = child[at[p]]
      BY <1>8, <2>1 DEF Inspected, Goto, TypeOK
    <3>2. (at[p] \in Dir => Reached(at[p]))'
      BY <1>8, <3>1 DEF Reached, Walk
    <3>3. (Over(child, at[p]) \subseteq Secure(mode))'
      BY <1>8, <3>1 DEF Walk, Holds
    <3> QED
      BY <1>8, <3>1, <3>2, <3>3 DEF Walk
  <2> QED
    BY <1>2, <1>8, <2>1 DEF Inspected
<1>9. CASE Lstat(p)
  <2>1. CASE child[at[p]] = None /\ op[p] = "write"
    BY <1>3, <1>9, <2>1 DEF Lstat, Goto, TypeOK, Walk, Handle, Holds, Between
  <2> QED
    BY <1>8, <1>9, <2>1 DEF Lstat, Between
<1>10. CASE Relstat(p)
  BY <1>8, <1>10 DEF Relstat, Between
<1>11. CASE Mkdir(p)
  <2>1. at[p] \in Node /\ at'[p] = at[p] /\ pc'[p] = "relstat"
    BY <1>11 DEF Mkdir, Collides, Goto, TypeOK, Handle, Holds, Between
  <2>2. child'[at[p]] # None
    BY <1>11, <2>1, Objects DEF Mkdir, Made, Unused, TypeOK
  <2>3. (at[p] \in Dir => Reached(at[p]))'
    BY <1>0, <2>1, Objects DEF Grows, Walk, Reached
  <2>4. Over(child', at[p]) \subseteq Secure(mode')
    BY <1>0, <1>11, <2>1 DEF Grows, Walk, Mkdir, Holds, Between
  <2>5. (Over(child, at[p]) \subseteq Secure(mode))'
    BY <2>1, <2>4
  <2> QED
    BY <2>1, <2>2, <2>3, <2>5 DEF Walk
<1>12. CASE OpenNext(p)
  <2>1. CASE Openable(child[at[p]])
    <3>1. at[p] \in Node /\ info[p] \in Dir /\ info[p] = child[at[p]]
      BY <1>12 DEF OpenNext, Handle, Walk, Holds, Between
    <3>2. /\ at'[p] = child[at[p]] /\ pc'[p] = "secure" /\ info'[p] = info[p]
          /\ child' = child /\ mode' = mode
      BY <1>12, <2>1, <3>1, Objects DEF OpenNext, Target, Goto, TypeOK
    <3>3. Over(child, child[at[p]]) \subseteq Secure(mode) \cup {child[at[p]]}
      BY <1>12, <3>1, OverNext DEF OpenNext, Walk, Holds, Between
    <3>4. (at[p] \in Dir => Reached(at[p]))'
      BY <3>1, <3>2 DEF Reached
    <3>5. (Over(child, at[p]) \subseteq Secure(mode) \cup {at[p]})'
      BY <3>2, <3>3
    <3> QED
      BY <3>1, <3>2, <3>4, <3>5 DEF Walk, Holds, Between
  <2> QED
    BY <1>2, <1>12, <2>1 DEF OpenNext
<1>13. CASE Inspect(p)
  BY <1>2, <1>3, <1>13 DEF Inspect, Goto, TypeOK
<1>14. CASE secureDirectoryPath(p)
  <2>1. /\ child[Top] \in Dir /\ child' = child /\ mode'[child[Top]] = DirPerm
        /\ op'[p] = "ensure" /\ at'[p] = at[p] /\ pc'[p] = "done"
    BY <1>14, Ended, Objects DEF secureDirectoryPath, Handle, TypeOK
  <2>2. (at[p] \in Dir => Reached(at[p]))'
    BY <2>1 DEF Reached, Walk
  <2> QED
    BY <2>1, <2>2 DEF Walk, Holds, Between
<1>15. CASE IOError(p) \/ Leave(p)
  BY <1>1, <1>2, <1>15 DEF IOError, Leave, Goto, TypeOK
<1> QED
  BY <1>4, <1>5, <1>6, <1>7, <1>9, <1>10, <1>11, <1>12, <1>13, <1>14, <1>15 DEF Step

-----------------------------------------------------------------------------
\* In a tree without links and files a writer fails only with an excuse.

LEMMA BlamelessStep == ASSUME IInv, NEW p \in Proc, Step(p), Clean', Forest(child), \A q \in Proc : Walk(q)
                       PROVE  \A q \in Proc : Blameless(q)'
<1> USE DEF tree
<1>0. TypeOK /\ \A q \in Proc : Handle(q)
  BY DEF IInv
<1>1. Clean
  <2>1. swaps' = swaps
    BY <1>0, TreeStep DEF Still, Grown, Repaired
  <2> QED
    BY <1>0, <2>1, StepGrows, Objects DEF Clean, Grows
<1>2. ASSUME NEW q \in Proc, q # p PROVE Blameless(q)'
  BY <1>0, <1>1, <1>2, Others DEF IInv, Same, Blameless
<1>3. child[Top] \in Dir \cup {None}
  BY <1>0, <1>1 DEF Clean, TypeOK, Object
<1>4. ASSUME pc[p] \in Between PROVE child[at[p]] \in Dir \cup {None}
  <2>1. at[p] \in Dir
    BY <1>0, <1>1, <1>4, Objects DEF IInv, Off, Clean, Handle, Holds, Between, Node
  <2> QED
    BY <1>0, <1>1, <2>1, Objects DEF Clean, TypeOK, Object
<1>5. Blameless(p)'
  <2>1. CASE Begin(p) \/ Mkdir(p) \/ Leave(p)
    BY <1>0, <2>1 DEF Begin, Mkdir, Collides, Leave, Goto, TypeOK, Blameless
  <2>2. CASE MkdirAll(p)
    BY <1>0, <1>3, <2>2, Objects DEF MkdirAll, Goto, TypeOK, Blameless
  <2>3. CASE OpenRootDir(p)
    BY <1>0, <2>3 DEF OpenRootDir, Goto, TypeOK, Blameless
  <2>4. CASE secureDirectory(p)
    <3>1. SameFile(p) /\ op[p] # "ensure" /\ at[p] \in Node
      BY <1>0, <2>4 DEF secureDirectory, SameFile, Walk, Handle
    <3>2. op[p] # "read" => Checked(p).ok
      BY <1>0, <3>1, CheckedType DEF TypeOK, Op
    <3> QED
      BY <1>0, <2>4, <3>1, <3>2, Ended DEF secureDirectory, Goto, TypeOK, Blameless
  <2>5. CASE Lstat(p) \/ Relstat(p)
    <3>1. op[p] # "ensure" /\ child[at[p]] \in Dir \cup {None} /\ op'[p] = op[p]
      BY <1>0, <1>4, <2>5 DEF Lstat, Relstat, Handle, Between
    <3>2. Relstat(p) => child[at[p]] # None
      BY <2>5 DEF Relstat, Walk
    <3>3. op[p] # "read" => pc'[p] # "done"
      BY <1>0, <2>5, <3>1, <3>2 DEF Lstat, Relstat, Inspected, Goto, TypeOK, Op
    <3> QED
      BY <3>1, <3>3 DEF Blameless
  <2>6. CASE OpenNext(p)
    BY <1>0, <2>6 DEF OpenNext, Goto, TypeOK, Blameless
  <2>7. CASE Inspect(p)
    <3>1. child[Top] \in Dir
      BY <1>3, <2>7 DEF Inspect, Walk
    <3> QED
      BY <1>0, <2>7, <3>1 DEF Inspect, Goto, TypeOK, Blameless
  <2>8. CASE secureDirectoryPath(p)
    BY <1>0, <2>8, Ended DEF secureDirectoryPath, Blameless
  <2>9. CASE IOError(p)
    BY <1>0, <2>9 DEF IOError, TypeOK, Blameless
  <2> QED
    BY <2>1, <2>2, <2>3, <2>4, <2>5, <2>6, <2>7, <2>8, <2>9 DEF Step
<1> QED
  BY <1>2, <1>5

-----------------------------------------------------------------------------

LEMMA InitInv == Init => IInv
<1> SUFFICES ASSUME Init PROVE IInv
  OBVIOUS
<1> USE DirAssumption DEF Init
<1>1. TypeOK
  <2>1. mode \in [Node -> SUBSET Bits]
    OBVIOUS
  <2>2. pc \in [Proc -> PC] /\ op \in [Proc -> Op] /\ ret \in [Proc -> Result]
    BY DEF PC, Op, Result
  <2>3. swaps \in 0..MaxSwaps /\ depth \in [Proc -> 0..Depth]
    OBVIOUS
  <2> QED
    BY <2>1, <2>2, <2>3 DEF TypeOK
<1>2. \A p \in Proc : Handle(p) /\ Walk(p) /\ Blameless(p)
  BY Objects DEF Handle, Walk, Blameless, Holds, Between
<1>3. Forest(child) /\ child[Foreign] = None
  <2>1. Tree(child)
    OBVIOUS
  <2> QED
    BY <2>1 DEF Tree, Forest
<1>4. Off
  BY <1>3, Objects DEF Off
<1> QED
  BY <1>1, <1>2, <1>3, <1>4 DEF IInv, Calm

LEMMA InvStep == IInv /\ [Next]_vars => IInv'
<1> SUFFICES ASSUME IInv, [Next]_vars PROVE IInv'
  OBVIOUS
<1>0. TypeOK /\ (\A q \in Proc : Handle(q)) /\ Off
  BY DEF IInv
<1>1. TypeOK'
  BY <1>0, TypeStep
<1>2. ASSUME NEW p \in Proc, Step(p) PROVE IInv'
  <2>1. (\A q \in Proc : Handle(q)') /\ Off'
    BY <1>0, <1>2, HandleStep, OffStep
  <2>2. ASSUME swaps' = 0
        PROVE  /\ Forest(child) /\ \A q \in Proc : Walk(q)
               /\ Forest(child)' /\ \A q \in Proc : Walk(q)'
    <3>1. swaps = 0
      BY <1>0, <1>2, <2>2, TreeStep DEF Still, Grown, Repaired
    <3>2. Forest(child) /\ \A q \in Proc : Walk(q)
      BY <3>1 DEF IInv, Calm
    <3>3. Grows
      BY <1>0, <1>2, <3>2, StepGrows
    <3>4. Forest(child)'
      BY <3>3 DEF Grows
    <3>5. \A q \in Proc : Walk(q)'
      BY <1>0, <1>2, <3>2, <3>3, WalkKept, WalkStep, Others
    <3> QED
      BY <3>2, <3>4, <3>5
  <2>3. Calm'
    BY <2>2 DEF Calm
  <2>4. Clean' => \A q \in Proc : Blameless(q)'
    <3>1. Clean' => swaps' = 0
      BY DEF Clean
    <3> QED
      BY <1>2, <2>2, <3>1, BlamelessStep
  <2> QED
    BY <1>1, <2>1, <2>3, <2>4 DEF IInv
<1>3. CASE Swap
  <2>1. swaps' # 0
    BY <1>0, <1>3 DEF Swap, TypeOK
  <2>2. \A q \in Proc : Handle(q)'
    <3>1. child'[Top] = child[Top]
      BY <1>0, <1>3, Objects DEF Swap, TypeOK
    <3> QED
      BY <1>0, <1>3, <3>1 DEF Swap, Handle, Holds
  <2>3. Off'
    BY <1>0, <1>3, Objects DEF Swap, TypeOK, Off
  <2> QED
    BY <1>1, <2>1, <2>2, <2>3 DEF IInv, Calm, Clean
<1>4. CASE UNCHANGED vars
  BY <1>0, <1>1, <1>4 DEF vars, tree, IInv, Handle, Holds, Off, Calm, Walk, Reached, Clean, Blameless
<1> QED
  BY <1>2, <1>3, <1>4 DEF Next, Step

LEMMA Invariant == Spec => []IInv
BY InitInv, InvStep, PTL DEF Spec

-----------------------------------------------------------------------------
\* Every caller is at a place of the walk with handles and modes of the declared
\* types, and never deeper than the path (root.go:16-63).
THEOREM TypeCorrect == Spec => []TypeOK
BY Invariant, PTL DEF IInv

\* However a directory off the path is renamed into it, a walk neither creates in
\* it nor changes its mode (root.go:37-60, 65-79).
THEOREM ForeignStaysUntouched == Spec => []ForeignUntouched
<1>1. IInv => ForeignUntouched
  BY DEF IInv, Off, ForeignUntouched
<1> QED
  BY <1>1, Invariant, PTL

\* Any number of callers that create the same directories never fail each other
\* (root.go:39-43).
THEOREM MkdirRacesHarmless == Spec => []MkdirRaceHarmless
<1>1. IInv => MkdirRaceHarmless
  <2> SUFFICES ASSUME IInv, NEW p \in Proc, pc[p] = "done", op[p] # "read", ret[p] # "ok", swaps = 0,
                      \A n \in Dir \cup {Top} : child[n] \notin {Link, File}
               PROVE  excused[p]
    BY DEF MkdirRaceHarmless, IInv, TypeOK
  <2> QED
    BY DEF IInv, Clean, Blameless
<1> QED
  BY <1>1, Invariant, PTL

\* What is handed out is private all the way up to the root, however long the path
\* and whoever creates or repairs parts of it meanwhile (root.go:29-32, 57-60).
THEOREM PathsPrivate == Spec => []PathPrivate
<1>1. IInv => PathPrivate
  <2> SUFFICES ASSUME IInv, NEW p \in Proc, pc[p] = "done", ret[p] = "ok", swaps = 0
               PROVE  IF op[p] = "ensure" THEN mode[child[Top]] = DirPerm
                      ELSE \A d \in Above(at[p]) : Private(mode[d], DirPerm)
    BY DEF PathPrivate
  <2>1. Walk(p)
    BY DEF IInv, Calm
  <2>2. Above(at[p]) = Over(child, at[p])
    BY DEF Above, Over, Upward, Closed
  <2> QED
    BY <2>1, <2>2 DEF Walk, Holds, Secure
<1> QED
  BY <1>1, Invariant, PTL

-----------------------------------------------------------------------------
(* Access control lists                                                     *)

\* What the place in the check says of the opened object and of the descriptor: the
\* entries before the one at hand have passed.
Examined ==
    /\ expected \in Directory /\ sd \subseteq Descriptor /\ ace \in Nat \ {0}
    /\ \A d, e \in sd : d = e
    /\ step \in {"query", "descriptor", "ace", "ok"} => opened = expected
    /\ step \in {"open", "stat", "query"} => sd = {}
    /\ step \in {"open", "stat", "query", "descriptor"} => ace = 1
    /\ step \in {"ace", "ok"} =>
          \A d \in sd : ACL!HeadOk(d) /\ \A i \in DOMAIN d.dacl : i < ace => ACL!EntryOk(d, d.dacl[i])
    /\ step = "ok" => \A d \in sd : \A i \in DOMAIN d.dacl : i < ace

\* Everything read of an entry lies within what holds it.
Bounded == \A s \in reads : \A d \in sd : 0 <= s.from /\ s.to <= s.limit /\ s.limit <= d.length

AclInv == Examined /\ Bounded /\ (step \notin {"ace", "ok", "unsafe", "err"} => reads = {}) /\ ACL!AclExact

\* Of any entry, whatever it claims, only what is inside is read.
LEMMA ReadsInside ==
    ASSUME NEW d \in ACL!DescriptorType, NEW a \in ACL!Ace, NEW s \in ACL!ReadsOf(d, a)
    PROVE  0 <= s.from /\ s.to <= s.limit /\ s.limit <= d.length
<1>0. a.at \in Int /\ a.size \in Nat /\ a.subs \in Nat /\ d.length \in Nat
  BY DEF ACL!Ace, ACL!DescriptorType
<1> DEFINE header == ACL!Span(a, 4, d.length)
           count == ACL!Span(a, 8 + 2, a.at + a.size)
           whole == ACL!Span(a, 8 + ACL!SidLength(a), a.at + a.size)
<1>1. /\ header.from = a.at /\ header.to = a.at + 4 /\ header.limit = d.length
      /\ count.from = a.at /\ count.to = a.at + 10 /\ count.limit = a.at + a.size
      /\ whole.from = a.at /\ whole.to = a.at + (8 + ACL!SidLength(a)) /\ whole.limit = a.at + a.size
  BY <1>0 DEF ACL!Span
<1>2. /\ ACL!HeaderInside(d, a)
      /\ \/ s = header
         \/ ACL!EntryInside(d, a) /\ ~(a.size < 16) /\ (s = count \/ (ACL!SidInside(a) /\ s = whole))
  <2>1. /\ header = ACL!Span(a, ACL!HeaderSize, d.length)
        /\ count = ACL!Span(a, ACL!SidStart + 2, a.at + a.size)
        /\ whole = ACL!Span(a, ACL!SidStart + ACL!SidLength(a), a.at + a.size)
    BY DEF ACL!HeaderSize, ACL!SidStart
  <2>2. ACL!SidStart + ACL!SidHeader = 16
    BY DEF ACL!SidStart, ACL!SidHeader
  <2> HIDE DEF header, count, whole
  <2>3. ACL!HeaderInside(d, a)
    BY DEF ACL!ReadsOf
  <2>4. CASE ~(ACL!EntryInside(d, a) /\ a.type = "allowed" /\ a.size >= ACL!SidStart + ACL!SidHeader)
    BY <2>1, <2>3, <2>4 DEF ACL!ReadsOf
  <2>5. CASE ACL!EntryInside(d, a) /\ a.type = "allowed" /\ a.size >= ACL!SidStart + ACL!SidHeader
    <3>1. s \in {header, count} \cup (IF ACL!SidInside(a) THEN {whole} ELSE {})
      BY <2>1, <2>3, <2>5 DEF ACL!ReadsOf
    <3> QED
      BY <1>0, <2>2, <2>3, <2>5, <3>1
  <2> QED
    BY <2>4, <2>5
<1> HIDE DEF header, count, whole
<1>3. a.at >= 0 /\ 4 <= d.length - a.at
  BY <1>2 DEF ACL!HeaderInside, ACL!HeaderSize
<1>4. CASE s = header
  BY <1>0, <1>1, <1>3, <1>4
<1>5. CASE ACL!EntryInside(d, a) /\ ~(a.size < 16) /\ s = count
  <2>1. a.size <= d.length - a.at
    BY <1>5 DEF ACL!EntryInside
  <2> QED
    BY <1>0, <1>1, <1>3, <1>5, <2>1
<1>6. CASE ACL!EntryInside(d, a) /\ ACL!SidInside(a) /\ s = whole
  <2>1. a.size <= d.length - a.at
    BY <1>6 DEF ACL!EntryInside
  <2>2. ACL!SidLength(a) <= a.size - 8 /\ ACL!SidLength(a) \in Nat
    BY <1>0, <1>6 DEF ACL!SidInside, ACL!SidStart, ACL!SidLength, ACL!SidHeader
  <2> QED
    BY <1>0, <1>1, <1>3, <1>6, <2>1, <2>2
<1> QED
  BY <1>2, <1>4, <1>5, <1>6

\* An entry that does not pass lets somebody else in, or lies about itself.
LEMMA Refused ==
    ASSUME ACL!AclAssumption, NEW d \in ACL!DescriptorType, d.dacl # Null, NEW i \in DOMAIN d.dacl,
           ~ACL!EntryOk(d, d.dacl[i])
    PROVE  ~(ACL!Private(d) /\ ACL!WellFormed(d))
<1> DEFINE a == d.dacl[i]
<1>0. a \in ACL!Ace /\ d.length \in Nat
  BY DEF ACL!DescriptorType
<1>1. a.at \in Int /\ a.size \in Nat /\ a.subs \in Nat
  BY <1>0 DEF ACL!Ace
<1> SUFFICES ASSUME ACL!Private(d), ACL!WellFormed(d) PROVE FALSE
  OBVIOUS
<1>2. a.type = "denied" \/ (a.type = "allowed" /\ a.sid \in ACL!Trustee)
  BY DEF ACL!Private
<1>3. /\ a.at >= 0 /\ a.size >= 4 /\ a.at + a.size <= d.length
      /\ a.type = "allowed" => 8 + 8 + 4 * a.subs <= a.size
  BY DEF ACL!WellFormed, ACL!HeaderSize, ACL!SidStart, ACL!SidHeader
<1> HIDE DEF a
<1>4. ACL!HeaderInside(d, a) /\ ACL!EntryInside(d, a)
  BY <1>0, <1>1, <1>3 DEF ACL!HeaderInside, ACL!EntryInside, ACL!HeaderSize
<1>5. a.type = "allowed" => ACL!SidInside(a)
  BY <1>1, <1>3 DEF ACL!SidInside, ACL!SidLength, ACL!SidStart, ACL!SidHeader
<1>6. a.sid \in ACL!Trustee => a.sid # Invalid /\ ACL!trustedWindowsPrincipal(a.sid)
  BY DEF ACL!AclAssumption, ACL!trustedWindowsPrincipal
<1>7. ACL!EntryOk(d, a)
  BY <1>2, <1>4, <1>5, <1>6 DEF ACL!EntryOk
<1> QED
  BY <1>7 DEF a

\* A head that does not pass is not private, or not well-formed.
LEMMA RefusedHead ==
    ASSUME ACL!AclAssumption, NEW d \in ACL!DescriptorType, ~ACL!HeadOk(d)
    PROVE  ~(ACL!Private(d) /\ ACL!WellFormed(d))
BY DEF ACL!AclAssumption, ACL!HeadOk, ACL!Private, ACL!WellFormed, ACL!trustedWindowsPrincipal

\* What passed is private.
LEMMA Passed ==
    ASSUME NEW d, ACL!HeadOk(d), \A i \in DOMAIN d.dacl : ACL!EntryOk(d, d.dacl[i])
    PROVE  ACL!Private(d) /\ d.valid
BY DEF ACL!HeadOk, ACL!EntryOk, ACL!Private, ACL!trustedWindowsPrincipal

LEMMA AclInit == ASSUME ACL!AclAssumption PROVE ACL!Init => AclInv
BY DEF ACL!Init, AclInv, Examined, Bounded, ACL!AclExact

LEMMA AclStep == ASSUME ACL!AclAssumption PROVE AclInv /\ [ACL!Next]_(ACL!vars) => AclInv'
<1> SUFFICES ASSUME AclInv, [ACL!Next]_(ACL!vars) PROVE AclInv'
  OBVIOUS
<1> USE DEF ACL!Outside
<1>0. sd \subseteq ACL!DescriptorType /\ expected \in Directory /\ ace \in Nat \ {0}
  BY DEF AclInv, Examined, ACL!AclAssumption
<1>1. CASE ACL!Open
  BY <1>1 DEF ACL!Open, AclInv, Examined, Bounded, ACL!AclExact
<1>2. CASE ACL!Stat
  BY <1>2 DEF ACL!Stat, AclInv, Examined, Bounded, ACL!AclExact
<1>3. CASE ACL!securePermissions
  BY <1>3 DEF ACL!securePermissions, AclInv, Examined, Bounded, ACL!AclExact
<1>4. CASE ACL!CheckHead
  <2>1. PICK d \in sd : step' = IF ACL!HeadOk(d) THEN "ace" ELSE "unsafe"
    BY <1>4 DEF ACL!CheckHead
  <2>2. \A e \in sd : e = d
    BY DEF AclInv, Examined
  <2>3. step = "descriptor" /\ UNCHANGED <<atPath, changes, expected, opened, sd, ace, failed, reads>>
    BY <1>4 DEF ACL!CheckHead
  <2>4. CASE ACL!HeadOk(d)
    <3>1. \A e \in sd : ACL!HeadOk(e) /\ \A i \in DOMAIN e.dacl : i < ace => ACL!EntryOk(e, e.dacl[i])
      <4>1. d.dacl \in Seq(ACL!Ace) /\ ace = 1
        BY <1>0, <2>3, <2>4 DEF ACL!DescriptorType, ACL!HeadOk, AclInv, Examined
      <4>2. \A i \in DOMAIN d.dacl : ~(i < ace)
        BY <4>1
      <4> QED
        BY <2>2, <2>4, <4>2
    <3> QED
      BY <2>1, <2>3, <2>4, <3>1 DEF AclInv, Examined, Bounded, ACL!AclExact
  <2>5. CASE ~ACL!HeadOk(d)
    <3>1. \A e \in sd : ~(ACL!Private(e) /\ ACL!WellFormed(e))
      BY <1>0, <2>2, <2>5, RefusedHead
    <3> QED
      BY <2>1, <2>3, <2>5, <3>1 DEF AclInv, Examined, Bounded, ACL!AclExact
  <2> QED
    BY <2>4, <2>5
<1>5. CASE ACL!Accept
  BY <1>5, Passed DEF ACL!Accept, AclInv, Examined, Bounded, ACL!AclExact
<1>6. CASE ACL!CheckAce
  <2>1. PICK d \in sd :
           /\ ace <= Len(d.dacl)
           /\ \/ step' = "unsafe" /\ failed' = TRUE /\ UNCHANGED <<ace, reads>>
              \/ /\ reads' = reads \cup ACL!ReadsOf(d, d.dacl[ace]) /\ UNCHANGED failed
                 /\ IF ACL!EntryOk(d, d.dacl[ace]) THEN ace' = ace + 1 /\ UNCHANGED step
                                                   ELSE step' = "unsafe" /\ UNCHANGED ace
    BY <1>6 DEF ACL!CheckAce
  <2>2. /\ step = "ace" /\ UNCHANGED <<atPath, changes, expected, opened, sd>>
        /\ opened = expected /\ (\A e \in sd : e = d) /\ ACL!HeadOk(d)
        /\ \A i \in DOMAIN d.dacl : i < ace => ACL!EntryOk(d, d.dacl[i])
    BY <1>6 DEF ACL!CheckAce, AclInv, Examined
  <2>3. d \in ACL!DescriptorType /\ d.dacl \in Seq(ACL!Ace) /\ d.dacl # Null
    BY <1>0, <2>2 DEF ACL!DescriptorType, ACL!HeadOk
  <2>4. Len(d.dacl) \in Nat /\ DOMAIN d.dacl = 1..Len(d.dacl) /\ ace \in DOMAIN d.dacl /\ d.dacl[ace] \in ACL!Ace
    BY <1>0, <2>1, <2>3
  <2>5. CASE step' = "unsafe" /\ failed' = TRUE /\ UNCHANGED <<ace, reads>>
    BY <2>2, <2>5 DEF AclInv, Examined, Bounded, ACL!AclExact
  <2>6. ASSUME reads' = reads \cup ACL!ReadsOf(d, d.dacl[ace]) PROVE Bounded'
    <3>1. \A s \in ACL!ReadsOf(d, d.dacl[ace]) : 0 <= s.from /\ s.to <= s.limit /\ s.limit <= d.length
      BY <2>3, <2>4, ReadsInside
    <3> QED
      BY <2>2, <2>6, <3>1 DEF AclInv, Bounded
  <2>7. CASE /\ reads' = reads \cup ACL!ReadsOf(d, d.dacl[ace]) /\ ACL!EntryOk(d, d.dacl[ace])
             /\ ace' = ace + 1 /\ UNCHANGED <<step, failed>>
    <3>1. \A i \in DOMAIN d.dacl : i < ace + 1 => ACL!EntryOk(d, d.dacl[i])
      <4>1. \A i \in DOMAIN d.dacl : i < ace + 1 => i < ace \/ i = ace
        BY <1>0, <2>4
      <4> QED
        BY <2>2, <2>7, <4>1
    <3>2. ace + 1 \in Nat \ {0}
      BY <1>0
    <3>3. Examined'
      BY <1>0, <2>2, <2>7, <3>1, <3>2 DEF AclInv, Examined
    <3> QED
      BY <2>2, <2>6, <2>7, <3>3 DEF AclInv, Bounded, ACL!AclExact
  <2>8. CASE /\ reads' = reads \cup ACL!ReadsOf(d, d.dacl[ace]) /\ ~ACL!EntryOk(d, d.dacl[ace])
             /\ step' = "unsafe" /\ UNCHANGED <<ace, failed>>
    <3>1. \A e \in sd : ~(ACL!Private(e) /\ ACL!WellFormed(e))
      BY <2>2, <2>3, <2>4, <2>8, Refused
    <3>2. Examined'
      BY <1>0, <2>2, <2>8 DEF AclInv, Examined
    <3> QED
      BY <2>2, <2>6, <2>8, <3>1, <3>2 DEF AclInv, Bounded, ACL!AclExact
  <2> QED
    BY <2>1, <2>5, <2>7, <2>8
<1>7. CASE ACL!OthersRename
  BY <1>7 DEF ACL!OthersRename, AclInv, Examined, Bounded, ACL!AclExact
<1>8. CASE UNCHANGED ACL!vars
  BY <1>8 DEF ACL!vars, AclInv, Examined, Bounded, ACL!AclExact
<1> QED
  BY <1>1, <1>2, <1>3, <1>4, <1>5, <1>6, <1>7, <1>8 DEF ACL!Next

\* Whatever a descriptor claims and whatever is renamed: only the inspected directory
\* with a private list is accepted, a refusal has a reason, and no read leaves the
\* descriptor or the entry at hand (permissions_windows.go:26-89, 95-109).
THEOREM AclsExact == ASSUME ACL!AclAssumption PROVE ACL!Spec => []AclExact
<1>1. AclInv => AclExact
  BY DEF AclInv, AclExact
<1> QED
  BY <1>1, AclInit, AclStep, PTL DEF ACL!Spec
=============================================================================
