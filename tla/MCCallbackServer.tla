-------------------------- MODULE MCCallbackServer --------------------------
(***************************************************************************)
(* Small instances of CallbackServer for TLC.                              *)
(***************************************************************************)
EXTENDS CallbackServer, TLC

Q(p, s, e, c) == [path |-> p, state |-> s, error |-> e, code |-> c]

\* The redirect of this login, its denial, one without a code, those of another
\* login, and the browser's request for an icon.
MCQuery ==
    {Q("cb", "s", "", "x"), Q("cb", "s", "denied", ""), Q("cb", "s", "", ""),
     Q("cb", "t", "", "y"), Q("cb", "t", "denied", ""), Q("icon", "", "", "")}

MCExpected == {"", "s"}

MCSymmetry == Permutations(Hit) \cup Permutations(Waiter)
=============================================================================
