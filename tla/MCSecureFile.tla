---------------------------- MODULE MCSecureFile ----------------------------
(* Small instances of SecureFile for TLC. *)
EXTENDS SecureFile, TLC

\* 0400 and 0640.
MCForeignMode == {{"ur"}, {"ur", "uw", "go"}}

\* umask 0200: a new file lacks a bit that securePermissions has to restore.
MCUmask == {{"uw"}}

MCSymmetry == Permutations(Proc) \cup Permutations(Value) \cup Permutations(Inode)

\* What is left in an inode nobody refers to is never looked at.
MCView ==
    <<dirUp, link, staged, orphans,
      [i \in Inode |-> IF Free(i) THEN <<>> ELSE <<body[i], mode[i], synced[i]>>],
      pc, call, seen, fd, ret, out, window, disturbed>>
=============================================================================
