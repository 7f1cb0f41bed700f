----------------------------- MODULE MCAuditLog -----------------------------
(***************************************************************************)
(* Small instances of AuditLog for TLC.                                    *)
(***************************************************************************)
EXTENDS AuditLog, TLC

CONSTANTS c1, c2, c3, l1, l2, small, full, big

\* c1 and c2 share a Logger, c3 has its own.
MCUses == (c1 :> l1) @@ (c2 :> l1) @@ (c3 :> l2)

\* c1 and c2 are alike.
MCSymmetry == Permutations({c1, c2})

MCShared == (c1 :> l1) @@ (c2 :> l1)

\* A record below the bound, one at the bound and one over it.
MCSize == (small :> 1) @@ (full :> 2) @@ (big :> 3)

MCSelection == {{small, full, big}, {small}}

\* No log; one with a malformed line, one with a line over the bound, both the
\* work of another tool; one with a record and a fragment.
MCInitial == {Absent, <<<<big, 1>>, NL>>, Bytes(big), Bytes(small) \o <<<<big, 1>>>>}

MCNoLog == {Absent}
=============================================================================
