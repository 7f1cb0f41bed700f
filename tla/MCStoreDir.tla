----------------------------- MODULE MCStoreDir -----------------------------
(***************************************************************************)
(* Small instances, for TLC, of the two parts of package store that decide *)
(* which directories are handed out: the walk of StoreDir, and the check   *)
(* of access control lists of WindowsACL.  The parts share nothing; a      *)
(* behaviour is about one of them, and the other keeps an initial state.   *)
(***************************************************************************)
EXTENDS StoreParts, Integers, TLC

CONSTANTS d1, d2, d3, d4

\* The tree whose root is r, with x in it and y below that.
T(r, x, y) == [n \in Node \cup {Top} |-> CASE n = Top -> r
                                           [] n = r   -> x
                                           [] n = x   -> y
                                           [] OTHER   -> None]

\* No root; roots that are empty, have a directory or two below them, have a
\* link or a file on the path, or are a link or a file.
MCInitial == {T(None, None, None), T(d1, None, None), T(d1, d2, None), T(d1, d2, d3),
              T(d1, Link, None), T(d1, d2, File), T(Link, None, None), T(File, None, None)}

\* 0700, 0755, 0500 and 0300.
MCStartMode == {DirPerm, DirPerm \cup {"go"}, DirPerm \ {"uw"}, DirPerm \ {"ur"}}

MCSymmetry == Permutations(Proc)

-----------------------------------------------------------------------------

A(off, size, type, subs, sid, io) ==
    [at |-> off, size |-> size, type |-> type, subs |-> subs, sid |-> sid, inheritOnly |-> io]

D(valid, owner, dacl, rel) ==
    [valid |-> valid, owner |-> owner, dacl |-> dacl, selfRelative |-> rel, length |-> 48]

Sids == {User, System, Administrators, Invalid} \cup Outsiders

\* Entries that lie where they should, and for each field those that are off: before
\* the buffer, at its end, across it; sizes at and around each limit.
Good == {A(20, 24, t, 2, s, io) : t \in {"allowed", "denied", "object"}, s \in Sids, io \in BOOLEAN}
Odd == {A(p, z, t, n, User, FALSE) : p \in {0 - 4, 20, 32, 44, 46, 48, 52}, z \in {3, 4, 15, 16, 20},
                                     t \in {"allowed", "denied"}, n \in {0, 1, 2}}

MCDescriptor ==
    {D(v, o, Null, r) : v \in BOOLEAN, o \in Sids, r \in BOOLEAN}
      \cup {D(v, o, <<>>, r) : v \in BOOLEAN, o \in Sids, r \in BOOLEAN}
      \cup {D(TRUE, Administrators, <<a>>, TRUE) : a \in Odd}
      \cup {D(TRUE, User, <<a, b>>, TRUE) : a \in Good, b \in {A(44, 4, "denied", 0, User, FALSE),
                                                              A(32, 16, "allowed", 0, System, FALSE)}}

MCFileObject == {d1, d2, File}

VARIABLE part

ASSUME AclInstance == ACL!AclAssumption

\* An initial state of a part that a behaviour is not about.
QuietWalk == child = T(None, None, None) /\ mode = [n \in Node |-> IF n = Foreign THEN ForeignMode
                                                                                  ELSE DirPerm]
QuietAcl == expected = d1

PartsInit ==
    /\ part \in {"walk", "acl"}
    /\ Init /\ (part = "walk" \/ QuietWalk)
    /\ ACL!Init /\ (part = "acl" \/ QuietAcl)

\* The check of a descriptor ends.
AclDone == part = "acl" /\ step \in {"ok", "unsafe", "err"} /\ UNCHANGED <<part, vars, aclVars>>

PartsNext ==
    \/ part = "walk" /\ Next /\ UNCHANGED <<part, aclVars>>
    \/ part = "acl" /\ ACL!Next /\ UNCHANGED <<part, vars>>
    \/ AclDone

PartsSpec == PartsInit /\ [][PartsNext]_<<part, vars, aclVars>>
=============================================================================
