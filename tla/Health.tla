------------------------------- MODULE Health -------------------------------
(***************************************************************************)
(* sts/health.go: CheckHealth takes one snapshot of a provider's tracked   *)
(* tokens and files each of them under one heading.  It looks at the clock *)
(* once or twice per entry, and at its context before each; meanwhile time *)
(* passes, others change the ledger and the caller may cancel.  A status   *)
(* in the report stands for the entry it names, by its place in the        *)
(* snapshot.                                                               *)
(***************************************************************************)
EXTENDS LedgerOps

CONSTANTS Files,     \* what the ledger file may hold
          Provider,  \* the name of the provider asked about
          Windows,   \* the values of expiringWithin
          MaxTime,   \* bound on the clock
          MaxChanges \* bound on the changes others make to the ledger

\* What the constants have to be.
HealthAssumption ==
    /\ Files \subseteq Seq(Entry) \cup {NoFile, Corrupt}
    /\ Windows \subseteq Int /\ MaxTime \in Nat /\ MaxChanges \in Nat

VARIABLES file,       \* the ledger file
          now, changes,
          cancelled,  \* ctx
          window,
          pc,
          entries,    \* what ledger.List returned
          pos,        \* the entry at hand
          report,
          source,     \* history: the file that was listed
          began       \* history: the time of the call

vars == <<file, now, changes, cancelled, window, pc, entries, pos, report, source, began>>

Heading == {"Unknown", "Valid", "Invalid", "Expired", "ExpiringSoon"}

TypeOK ==
    /\ file \in Files /\ source \in Files /\ window \in Windows
    /\ now \in 0 .. MaxTime /\ began \in 0 .. MaxTime /\ changes \in 0 .. MaxChanges
    /\ cancelled \in BOOLEAN
    /\ pc \in {"start", "list", "entry", "expired?", "soon?", "report", "err"}
    /\ entries \in Seq(Entry) /\ pos \in 1 .. Len(entries) + 1
    /\ report \in [Heading -> Seq(Nat)]

Init ==
    /\ file \in Files /\ source = file
    /\ now \in 0 .. MaxTime /\ began = now /\ changes = 0
    /\ cancelled = FALSE /\ window \in Windows
    /\ pc = "start" /\ entries = <<>> /\ pos = 1
    /\ report = [h \in Heading |-> <<>>]

\* ledger.List's selection from the entries s.
Tracked(s) == Picked(s, {i \in DOMAIN s : Provider = "" \/ s[i].provider = Provider})

Outside == <<file, now, changes, cancelled, window>>

\* ctx.Err() before the ledger is read.
CheckHealth ==
    /\ pc = "start"
    /\ pc' = IF cancelled THEN "err" ELSE "list"
    /\ began' = now
    /\ UNCHANGED <<Outside, entries, pos, report, source>>

\* ledger.List: read under the ledger's lock, so one step.
List ==
    /\ pc = "list"
    /\ source' = file
    /\ IF file = Corrupt
          THEN pc' = "err" /\ UNCHANGED entries
          ELSE entries' = Tracked(Contents(file)) /\ pc' = "entry"
    /\ UNCHANGED <<Outside, pos, report, began>>

NextEntry == pos' = pos + 1 /\ pc' = "entry"

\* The head of the loop: the end, or a look at the context.
LoopHead ==
    /\ pc = "entry"
    /\ pc' = IF pos > Len(entries) THEN "report"
             ELSE IF cancelled THEN "err" ELSE "expired?"
    /\ UNCHANGED <<Outside, entries, pos, report, source, began>>

File(h) == report' = [report EXCEPT ![h] = Append(@, pos)]

\* Mutant: no continue after an expired entry.
AfterExpired_FallsThrough == pc' = "soon?" /\ UNCHANGED pos

AfterExpired == NextEntry

CheckExpired ==
    /\ pc = "expired?"
    /\ IF IsExpired(entries[pos], now)
          THEN File("Expired") /\ AfterExpired
          ELSE pc' = "soon?" /\ UNCHANGED <<pos, report>>
    /\ UNCHANGED <<Outside, entries, source, began>>

\* By now the clock may have moved on.
CheckSoon ==
    /\ pc = "soon?"
    /\ File(IF window > 0 /\ ExpiresWithin(entries[pos], window, now)
               THEN "ExpiringSoon" ELSE "Unknown")
    /\ NextEntry
    /\ UNCHANGED <<Outside, entries, source, began>>

Running == pc \notin {"report", "err"}

Tick ==
    /\ Running /\ now < MaxTime /\ now' = now + 1
    /\ UNCHANGED <<file, changes, cancelled, window, pc, entries, pos, report, source, began>>

Cancel ==
    /\ Running /\ ~cancelled /\ cancelled' = TRUE
    /\ UNCHANGED <<file, now, changes, window, pc, entries, pos, report, source, began>>

OthersChange ==
    /\ Running /\ changes < MaxChanges /\ changes' = changes + 1
    /\ file' \in Files
    /\ UNCHANGED <<now, cancelled, window, pc, entries, pos, report, source, began>>

Next ==
    \/ CheckHealth \/ List \/ LoopHead \/ CheckExpired \/ CheckSoon
    \/ Tick \/ Cancel \/ OthersChange

Spec == Init /\ [][Next]_vars

-----------------------------------------------------------------------------

\* HealthReport.Counts: the total.
Counts == Len(report["Valid"]) + Len(report["Invalid"]) + Len(report["Expired"])
            + Len(report["ExpiringSoon"]) + Len(report["Unknown"])

\* The report files every token the ledger tracked for the provider at one moment
\* under exactly one heading, whatever the clock and the others did between the two
\* looks at it.  A token called expired is expired; one called expiring soon was not
\* when the check began and is within the window by its end; one that is neither was
\* not expired, nor within the window, when the check began.  Nothing is called valid
\* (health.go 10-52, Counts at types.go 56-63).
ReportExact ==
    LET mine == Tracked(Contents(source))
        In(h) == {report[h][i] : i \in DOMAIN report[h]}
        Soon(e, t) == window > 0 /\ ExpiresWithin(e, window, t)
    IN  pc = "report" =>
          /\ entries = mine /\ Counts = Len(mine)
          /\ UNION {In(h) : h \in Heading} = DOMAIN mine
          /\ In("Valid") = {} /\ In("Invalid") = {}
          /\ \A i \in In("Expired") : IsExpired(mine[i], now)
          /\ \A i \in In("ExpiringSoon") : ~IsExpired(mine[i], began) /\ Soon(mine[i], now)
          /\ \A i \in In("Unknown") : ~IsExpired(mine[i], began) /\ ~Soon(mine[i], began)
=============================================================================
