----------------------------- MODULE MCProgress -----------------------------
(***************************************************************************)
(* Progress of the four components in which somebody waits: the ledger,    *)
(* the audit log, rotations and the callback server, each on an instance   *)
(* that is small enough for TLC's search for cycles.  A behaviour is about *)
(* one of them, and the others keep an initial state; of its scheduling    *)
(* the Fairness of that component is assumed, and nothing of the others.   *)
(***************************************************************************)
EXTENDS Integers, Sequences, TLC

CONSTANTS c1, c2, Nobody, None, NoFile, Corrupt, NoRequest,
          log, small, full, big, Absent, NL,
          r1, r2, t0, t1, NoToken, NoResult,
          h1, h2, w1, w2, x1, x2, NoQuery, Canceled

Client == {c1, c2}
Rotator == {r1, r2}
Hit == {h1, h2}
Waiter == {w1, w2}
Closer == {x1, x2}

VARIABLES
    part,
    lfile, now, processMu, lpc, req, entries, k, kept, cutoff, lres, ans, since,
    afile, amode, mu, apc, entry, want, aseen, tries, pos, agot, aret, logged, acked, known, torn,
    config, live, issued, ledger, rpc, old, new, cfg, rresult, cancelled, failed, trail, faults,
    expected, listener, shutdown, once, cresult, hpc, query, page, wait, ctx, cgot, closing, winner

ledgerVars == <<lfile, now, processMu, lpc, req, entries, k, kept, cutoff, lres, ans, since>>
auditVars == <<afile, amode, mu, apc, entry, want, aseen, tries, pos, agot, aret, logged, acked,
               known, torn>>
rotateVars == <<config, live, issued, ledger, rpc, old, new, cfg, rresult, cancelled, failed, trail, faults>>
serverVars == <<expected, listener, shutdown, once, cresult, hpc, query, page, wait, ctx, cgot,
                closing, winner>>
all == <<part, ledgerVars, auditVars, rotateVars, serverVars>>

-----------------------------------------------------------------------------

e1 == [provider |-> "gh", name |-> "ci", id |-> "7", issued |-> 1, hasExpiry |-> TRUE, expires |-> 1]

\* A request of each kind that takes a way of its own through a call.
R(op, p, x) == [op |-> op, entry |-> e1, provider |-> p, key |-> x, span |-> 0]
Requests == {R("Record", "", ""), R("List", "", ""), R("Cleanup", "", ""), R("RemoveByID", "gh", "")}

L == INSTANCE Ledger
       WITH Entry <- {e1}, Unencodable <- {}, Request <- Requests, MaxTime <- 1, MaxLen <- 1,
            file <- lfile, pc <- lpc, res <- lres

\* One Logger; records below, at and over the bound.
A == INSTANCE AuditLog
       WITH Logger <- {log}, Uses <- [c \in Client |-> log], Entry <- {small, full, big},
            Size <- (small :> 1) @@ (full :> 2) @@ (big :> 3), MaxEntrySize <- 2,
            Selection <- {{small, full, big}}, Initial <- {Absent},
            ForeignMode <- {"ur", "uw", "go"}, Umask <- {"uw"},
            file <- afile, mode <- amode, pc <- apc, seen <- aseen, got <- agot, ret <- aret

\* No ledger and no audit log is kept.
RO == INSTANCE Rotate
        WITH Token <- {t0, t1}, First <- t0,
             Configs <- {{[ledger |-> FALSE, audit |-> FALSE, transition |-> TRUE]}},
             pc <- rpc, result <- rresult

\* The redirect of this login, and a denial of another one.
Q(p, s, e, c) == [path |-> p, state |-> s, error |-> e, code |-> c]

CS == INSTANCE CallbackServer
        WITH Query <- {Q("cb", "s", "", "x"), Q("cb", "t", "denied", "")},
             Expected <- {"s"}, Path <- "cb", pc <- hpc, result <- cresult, got <- cgot

-----------------------------------------------------------------------------

Init ==
    /\ part \in {"ledger", "audit", "rotate", "server"}
    /\ L!Init /\ (part = "ledger" \/ lfile = NoFile)
    /\ A!Init /\ RO!Init /\ CS!Init

Next ==
    \/ part = "ledger" /\ L!Next /\ UNCHANGED <<part, auditVars, rotateVars, serverVars>>
    \/ part = "audit" /\ A!Next /\ UNCHANGED <<part, ledgerVars, rotateVars, serverVars>>
    \/ part = "rotate" /\ RO!Next /\ UNCHANGED <<part, ledgerVars, auditVars, serverVars>>
    \/ part = "server" /\ CS!Next /\ UNCHANGED <<part, ledgerVars, auditVars, rotateVars>>

FairSpec ==
    /\ Init /\ [][Next]_all
    /\ \/ part = "ledger" /\ L!Fairness
       \/ part = "audit" /\ A!Fairness
       \/ part = "rotate" /\ RO!Fairness
       \/ part = "server" /\ CS!Fairness

-----------------------------------------------------------------------------

\* Every call of a Ledger that asks for the lock ends, whatever failed in the calls
\* before: no way out of a call keeps the lock, and nobody is passed over for ever
\* (token.go 49-235).
LedgerCallsEnd == \A c \in Client : lpc[c] = "lock" ~> lpc[c] \in {"done", "idle"}

\* So does every call of a Logger, which holds its mutex across opening and writing the
\* file (audit.go 49-124).
LogCallsEnd == \A c \in Client : apc[c] = "lock" ~> apc[c] \in {"done", "idle"}

\* Every rotation ends, in success or failure: the transition wait ends by itself or with
\* the context (rotate.go 100-108).
RotationsEnd == \A r \in Rotator : rpc[r] = "enter" ~> rpc[r] \in {"done", "idle"}

\* Every request that a handler has taken is answered, even when the login is already
\* consumed and nobody waits for it (callback.go 137-180).
RequestsAnswered == \A h \in Hit : hpc[h] = "path" ~> hpc[h] = "done"

\* A Wait returns once there is an event or its context has ended (callback.go 112-128).
WaitReturns == CS!WaitReturns

\* Close releases the listener, also if it comes before Serve (callback.go 130-135).
CloseReleases == CS!CloseReleases
=============================================================================
