----------------------------- MODULE MCProfile -----------------------------
(* Small instances of Profile for TLC. *)
EXTENDS Profile, TLC

CONSTANT work, f1

R(op, n) == [op |-> op, name |-> n, value |-> NoValue]

\* Every operation on one name, and what involves the selection on both.
MCCalls ==
    {k \in Call : k.op \in {"Save", "SaveCredential"} /\ k.name \in {work, Invalid}}
    \cup {R(op, work) : op \in {"Load", "Exists", "LoadCredential", "UpdateLastUsed"}}
    \cup {k \in Call : k.op \in {"Delete", "SetActive", "Active", "List"}}

\* What List may meet.
MCListCalls == {k \in Call : k.op \in {"Save", "Delete", "UpdateLastUsed", "List"}}

MCOld == [fields |-> f1, used |-> "before"]

\* The default profile has no credential; the other one is in any state.
MCBegun ==
    {[p \in Path |-> CASE p = ActivePath -> a
                       [] p = ProfilePath(work) -> x
                       [] p = CredentialPath(work) -> k
                       [] p = ProfilePath(Default) -> MCOld
                       [] OTHER -> Absent]
       : a \in Name \cup {Invalid, Empty, Absent}, x \in {MCOld, Damaged, Absent},
         k \in Cred \cup {Absent}}

MCSymmetry == Permutations(Caller)
=============================================================================
