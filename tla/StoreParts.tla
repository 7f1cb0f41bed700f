----------------------------- MODULE StoreParts -----------------------------
(***************************************************************************)
(* The two parts of package store that decide which directories are handed *)
(* out: the walk of StoreDir, and the check of access control lists of     *)
(* WindowsACL, which shares no state with it.                              *)
(***************************************************************************)
EXTENDS StoreDir

CONSTANTS FileObject, Directory, Missing, Descriptor, User, System, Administrators,
          Outsiders, Invalid, Null, MaxChanges

VARIABLES atPath, changes, expected, opened, sd, ace, step, failed, reads

aclVars == <<atPath, changes, expected, opened, sd, ace, step, failed, reads>>

ACL == INSTANCE WindowsACL
         WITH Object <- FileObject, Others <- Outsiders, at <- atPath, pc <- step

\* Only the inspected, private directory is accepted, a refusal has a reason, and
\* nothing outside the descriptor is read (permissions_windows.go 26-89, 95-109).
AclExact == ACL!AclExact
=============================================================================
