------------------------------ MODULE MCLedger ------------------------------
(***************************************************************************)
(* Small instances, for TLC, of Ledger and of Health, which reads it.  A   *)
(* behaviour is about one of them, and the other keeps an initial state.   *)
(***************************************************************************)
EXTENDS LedgerParts

E(p, n, i, t, h, x) == [provider |-> p, name |-> n, id |-> i, issued |-> t,
                        hasExpiry |-> h, expires |-> x]

\* An entry that expires at 1; one of another provider with the same name, no
\* ID and no issue time; one whose name is the ID of the first.
e1 == E("gh", "ci", "7", 1, TRUE, 1)
e2 == E("gl", "ci", "", 0, FALSE, 0)
e3 == E("gh", "7", "8", 2, FALSE, 0)
e4 == E("gh", "far", "9", 0, TRUE, 9)

\* e4 expires beyond the year 9999.
MCUnencodable == {e4}

R(op, e, p, x, d) == [op |-> op, entry |-> e, provider |-> p, key |-> x, span |-> d]

MCRequest ==
    {R("Record", e, "", "", 0) : e \in {e1, e2, e4}} \cup
    {R("List", e1, p, "", 0) : p \in {"", "gh"}} \cup
    {R("Expiring", e1, "", "", 1), R("Cleanup", e1, "", "", 1),
     R("Remove", e1, "gh", "ci", 0), R("RemoveByID", e1, "gh", "7", 0),
     R("RemoveByID", e1, "gl", "", 0),
     R("FindByID", e1, "gl", "", 0), R("FindByID", e1, "gh", "7", 0),
     R("FindByName", e1, "gh", "ci", 0)}

-----------------------------------------------------------------------------

\* For the reports, another one that expires after the first.
e5 == E("gh", "ci", "10", 1, TRUE, 2)

MCEntry == {e1, e2, e3, e4, e5}

MCWindows == {0 - 1, 0, 1, 2}

MCFiles == {NoFile, Corrupt, <<>>, <<e5, e2, e1>>, <<e1, e1>>, <<e3, e5>>}

VARIABLE part

ASSUME HealthInstance == H!HealthAssumption

\* An initial state of a part that a behaviour is not about.
QuietLedger == file = NoFile
QuietHealth == listed = NoFile /\ clock = 0 /\ window = 0

PartsInit ==
    /\ part \in {"ledger", "health"}
    /\ Init /\ (part = "ledger" \/ QuietLedger)
    /\ H!Init /\ (part = "health" \/ QuietHealth)

\* One report is made.
HealthDone == part = "health" /\ step \in {"report", "err"} /\ UNCHANGED <<part, vars, healthVars>>

PartsNext ==
    \/ part = "ledger" /\ Next /\ UNCHANGED <<part, healthVars>>
    \/ part = "health" /\ H!Next /\ UNCHANGED <<part, vars>>
    \/ HealthDone

PartsSpec == PartsInit /\ [][PartsNext]_<<part, vars, healthVars>>
=============================================================================
