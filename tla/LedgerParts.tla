----------------------------- MODULE LedgerParts ----------------------------
(***************************************************************************)
(* The ledger and the health report made of it.  Health has a file and a   *)
(* clock of its own: of the ledger it takes what a List returns.           *)
(***************************************************************************)
EXTENDS Ledger

CONSTANTS Files, Provider, Windows, LastTime, MaxChanges

VARIABLES listed, clock, changes, cancelled, window, step, snapshot, pos, report, source,
          began

healthVars == <<listed, clock, changes, cancelled, window, step, snapshot, pos, report,
                source, began>>

H == INSTANCE Health
       WITH MaxTime <- LastTime, file <- listed, now <- clock, pc <- step,
            entries <- snapshot

\* The health report files every token of one snapshot under one true heading,
\* whatever happens while it is made (health.go 10-52).
ReportExact == H!ReportExact
=============================================================================
