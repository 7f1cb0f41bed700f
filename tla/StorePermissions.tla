-------------------------- MODULE StorePermissions --------------------------
(***************************************************************************)
(* The POSIX permission policy of package store (store/store.go and        *)
(* store/permissions_other.go).  A mode is the set of permission bits that *)
(* are on: "ur", "uw" and "ux" are the owner's, "go" stands for any bit    *)
(* granted to group or others, which the policy never tells apart.         *)
(***************************************************************************)

Bits == {"ur", "uw", "ux", "go"}

\* 0600 and 0700.
FilePerm == {"ur", "uw"}
DirPerm == {"ur", "uw", "ux"}

Private(mode, permitted) == mode \subseteq permitted

\* Mutant: the read-only early return (`if !write`) is missing, so that a read
\* repairs the mode it should only reject.
securePermissions_RepairsOnRead(mode, permitted, write) ==
    LET want == IF write THEN permitted ELSE mode \cap permitted
    IN  [ok |-> TRUE, mode |-> want]

\* Mutant: a read demands exactly the permitted mode, so that it rejects 0400.
securePermissions_Exact(mode, permitted, write) ==
    [ok |-> mode = permitted \/ write, mode |-> IF write THEN permitted ELSE mode]

\* What the permission check makes of an opened object: whether it passes and
\* the mode it leaves behind.  Writers force the permitted mode; everybody else
\* only validates, and a mode that is already narrower stays as it is.
securePermissions(mode, permitted, write) ==
    LET want == IF write THEN permitted ELSE mode \cap permitted
    IN  [ok   |-> want = mode \/ write,
         mode |-> IF write THEN want ELSE mode]
=============================================================================
