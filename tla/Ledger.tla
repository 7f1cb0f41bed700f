------------------------------- MODULE Ledger -------------------------------
(***************************************************************************)
(* token/token.go: goroutines of one process, with any number of Ledger    *)
(* instances, working on one ledger file.  Every call is the sequence      *)
(* processMu.Lock, loadLocked, a loop over the entries, saveLocked and the *)
(* deferred Unlock.  The process may be killed anywhere, reads and writes  *)
(* may fail, and the clock runs while a loop judges one entry after the    *)
(* other.  saveLocked replaces the file in one step or leaves it alone,    *)
(* which is what SecureFile shows of store.WriteSecure.                    *)
(***************************************************************************)
EXTENDS LedgerOps

CONSTANTS Client,   \* the goroutines
          Nobody,   \* holds the lock when it is free
          MaxTime,  \* bound on the clock
          MaxLen    \* bound on the number of entries

ASSUME LedgerAssumption == Nobody \notin Client /\ MaxTime \in Nat /\ MaxLen \in Nat

PC == {"idle", "lock", "load", "cutoff", "scan", "save", "done"}

\* Where a goroutine holds processMu.
Critical == {"load", "cutoff", "scan", "save"}

Result == {"none", "ok", "notfound", "err"}

VARIABLES file, now,
          processMu,  \* the goroutine that holds the lock
          pc, req,
          entries,    \* what loadLocked returned
          k,          \* the next entry the loop looks at
          kept,       \* the slice the loop builds
          cutoff,     \* Cleanup's instant
          res, ans,
          since       \* history: when the call began

local == <<entries, k, kept, cutoff>>
vars == <<file, now, processMu, pc, req, local, res, ans, since>>

TypeOK ==
    /\ file \in Seq(Entry) \cup {NoFile, Corrupt}
    /\ now \in Nat
    /\ processMu \in Client \cup {Nobody}
    /\ pc \in [Client -> PC]
    /\ req \in [Client -> Request \cup {NoRequest}]
    /\ entries \in [Client -> Seq(Entry)]
    /\ k \in [Client -> Nat \ {0}]
    /\ kept \in [Client -> Seq(Entry)]
    /\ cutoff \in [Client -> Int]
    /\ res \in [Client -> Result]
    /\ ans \in [Client -> Seq(Entry)]
    /\ since \in [Client -> Nat]

Init ==
    /\ file \in {NoFile, Corrupt, <<>>} \cup {<<e>> : e \in Entry \ Unencodable}
    /\ now = 0
    /\ processMu = Nobody
    /\ pc = [c \in Client |-> "idle"]
    /\ req = [c \in Client |-> NoRequest]
    /\ entries = [c \in Client |-> <<>>]
    /\ k = [c \in Client |-> 1]
    /\ kept = [c \in Client |-> <<>>]
    /\ cutoff = [c \in Client |-> 0]
    /\ res = [c \in Client |-> "none"]
    /\ ans = [c \in Client |-> <<>>]
    /\ since = [c \in Client |-> 0]

Tick ==
    /\ now < MaxTime
    /\ now' = now + 1
    /\ UNCHANGED <<file, processMu, pc, req, local, res, ans, since>>

\* Mutant: an error return does not release the lock.
Unlock_OnSuccessOnly(c, r) == processMu' = IF r = "err" THEN processMu ELSE Nobody

\* The deferred Unlock.
Unlock(c, r) == processMu' = Nobody

\* The call has its result; the lock is released and the slices are garbage.
Finish(c, r, a) ==
    /\ pc' = [pc EXCEPT ![c] = "done"]
    /\ res' = [res EXCEPT ![c] = r]
    /\ ans' = [ans EXCEPT ![c] = a]
    /\ entries' = [entries EXCEPT ![c] = <<>>]
    /\ k' = [k EXCEPT ![c] = 1]
    /\ kept' = [kept EXCEPT ![c] = <<>>]
    /\ cutoff' = [cutoff EXCEPT ![c] = 0]
    /\ Unlock(c, r)
    /\ UNCHANGED <<now, req, since>>

Goto(c, l) == pc' = [pc EXCEPT ![c] = l]

Fits(r) == IF r.op # "Record" \/ file \in {NoFile, Corrupt} THEN TRUE ELSE Len(file) < MaxLen

Begin(c) ==
    /\ pc[c] = "idle"
    /\ \E r \in Request : Fits(r) /\ req' = [req EXCEPT ![c] = r]
    /\ Goto(c, "lock")
    /\ since' = [since EXCEPT ![c] = now]
    /\ UNCHANGED <<file, now, processMu, local, res, ans>>

\* An empty ID or name is refused before anything else.
Reject(c) ==
    /\ pc[c] = "lock"
    /\ Rejected(req[c])
    /\ Goto(c, "done")
    /\ res' = [res EXCEPT ![c] = "err"]
    /\ UNCHANGED <<file, now, processMu, req, local, ans, since>>

\* Mutant: the lock belongs to the Ledger instance instead of the process.
Lock_PerInstance(c) ==
    /\ pc[c] = "lock" /\ ~Rejected(req[c])
    /\ processMu' = c
    /\ Goto(c, "load")
    /\ UNCHANGED <<file, now, req, local, res, ans, since>>

Lock(c) ==
    /\ pc[c] = "lock" /\ ~Rejected(req[c])
    /\ processMu = Nobody
    /\ processMu' = c
    /\ Goto(c, "load")
    /\ UNCHANGED <<file, now, req, local, res, ans, since>>

AfterLoad(op) == CASE op = "Record"  -> "save"
                   [] op = "Cleanup" -> "cutoff"
                   [] OTHER          -> "scan"

Readable(f) == f # Corrupt

\* loadLocked.  Record appends right away; the others loop over the entries.
loadLocked(c) ==
    /\ pc[c] = "load"
    /\ \/ /\ Readable(file)
          /\ LET s == IF file = Corrupt THEN <<>> ELSE Contents(file) IN
             /\ entries' = [entries EXCEPT ![c] = s]
             /\ kept' = [kept EXCEPT ![c] =
                           IF req[c].op = "Record" THEN Append(s, req[c].entry) ELSE @]
          /\ Goto(c, AfterLoad(req[c].op))
          /\ UNCHANGED <<now, processMu, req, k, cutoff, res, ans, since>>
       \/ Finish(c, "err", <<>>)    \* Corrupt, or the read failed
    /\ UNCHANGED file

\* Cleanup fixes its cutoff before the loop.
Cutoff(c) ==
    /\ pc[c] = "cutoff"
    /\ cutoff' = [cutoff EXCEPT ![c] = now - req[c].span]
    /\ Goto(c, "scan")
    /\ UNCHANGED <<file, now, processMu, req, entries, k, kept, res, ans, since>>

\* One iteration of the loop; a search ends at its first match.
Scan(c) ==
    /\ pc[c] = "scan"
    /\ k[c] <= Len(entries[c])
    /\ LET e == entries[c][k[c]]
           hit == Selects(req[c], e, cutoff[c], now) IN
       \/ /\ hit /\ req[c].op \in Finder
          /\ Finish(c, "ok", <<e>>)
       \/ /\ ~(hit /\ req[c].op \in Finder)
          /\ kept' = [kept EXCEPT ![c] = IF hit THEN Append(@, e) ELSE @]
          /\ k' = [k EXCEPT ![c] = @ + 1]
          /\ UNCHANGED <<now, processMu, pc, req, entries, cutoff, res, ans, since>>
    /\ UNCHANGED file

\* Mutant: Cleanup tests for removed entries the wrong way round.
Saves_Inverted(r, s, t) == r.op \in Mutator /\ (r.op = "Cleanup" => Len(t) = Len(s))

\* Whether the result t of a loop over s is written back.
Saves(r, s, t) == r.op \in Mutator /\ (r.op = "Cleanup" => Len(t) # Len(s))

\* The entries a loop that is over answers with.
Answered(r, t) == IF r.op \in Mutator THEN <<>> ELSE t

\* The loop is over.
ScanEnd(c) ==
    /\ pc[c] = "scan"
    /\ k[c] > Len(entries[c])
    /\ \/ /\ Saves(req[c], entries[c], kept[c])
          /\ Goto(c, "save")
          /\ UNCHANGED <<now, processMu, req, local, res, ans, since>>
       \/ /\ ~Saves(req[c], entries[c], kept[c])
          /\ Finish(c, IF req[c].op \in Finder THEN "notfound" ELSE "ok",
                       Answered(req[c], kept[c]))
    /\ UNCHANGED file

\* saveLocked: encode everything, then replace the file.  Either may fail, and
\* then the file is as it was.
saveLocked(c) ==
    /\ pc[c] = "save"
    /\ \/ /\ \A i \in DOMAIN kept[c] : kept[c][i] \notin Unencodable
          /\ file' = kept[c]
          /\ Finish(c, "ok", <<>>)
       \/ /\ Finish(c, "err", <<>>)
          /\ UNCHANGED file

Return(c) ==
    /\ pc[c] = "done"
    /\ Goto(c, "idle")
    /\ req' = [req EXCEPT ![c] = NoRequest]
    /\ res' = [res EXCEPT ![c] = "none"]
    /\ ans' = [ans EXCEPT ![c] = <<>>]
    /\ since' = [since EXCEPT ![c] = 0]
    /\ UNCHANGED <<file, now, processMu, local>>

\* The process is killed and started again: only the file and the clock stay.
Crash ==
    /\ \E c \in Client : pc[c] # "idle"
    /\ processMu' = Nobody
    /\ pc' = [c \in Client |-> "idle"]
    /\ req' = [c \in Client |-> NoRequest]
    /\ entries' = [c \in Client |-> <<>>]
    /\ k' = [c \in Client |-> 1]
    /\ kept' = [c \in Client |-> <<>>]
    /\ cutoff' = [c \in Client |-> 0]
    /\ res' = [c \in Client |-> "none"]
    /\ ans' = [c \in Client |-> <<>>]
    /\ since' = [c \in Client |-> 0]
    /\ UNCHANGED <<file, now>>

Running(c) == Reject(c) \/ loadLocked(c) \/ Cutoff(c) \/ Scan(c) \/ ScanEnd(c) \/ saveLocked(c)

Next == \/ Tick \/ Crash
        \/ \E c \in Client : Begin(c) \/ Lock(c) \/ Running(c) \/ Return(c)

Spec == Init /\ [][Next]_vars

\* A goroutine that can run does, and sync.Mutex starves nobody.
Fairness == \A c \in Client : WF_vars(Running(c)) /\ SF_vars(Lock(c))

-----------------------------------------------------------------------------
(* Properties *)

\* Two goroutines are never inside a transaction together, and the lock knows
\* who is (token.go:49-52).
MutualExclusion == \A c \in Client : pc[c] \in Critical => processMu = c

\* What a transaction read is still what the file holds when it writes, so that
\* no concurrent Record, Remove or Cleanup is overwritten (token.go:49-52).
SnapshotCurrent ==
    \A c \in Client : pc[c] \in Critical \ {"load"} =>
        file # Corrupt /\ entries[c] = Contents(file)

Elements(s) == {s[i] : i \in DOMAIN s}

\* Client c's removal or cleanup, applied to the entries s at a time between
\* its cutoff and t, leaves the entries of u: nothing is invented, what is
\* dropped is what was asked for, and what is kept was not yet expired when
\* Cleanup began.
Drops(c, s, u, t) ==
    /\ Elements(u) \subseteq Elements(s)
    /\ \A e \in Elements(s) \ Elements(u) :
          IF req[c].op = "Cleanup" THEN IsExpired(e, t) \/ TooOld(e, cutoff[c])
                                   ELSE Matches(req[c], e)
    /\ \A e \in Elements(u) :
          IF req[c].op = "Cleanup"
          THEN ~IsExpired(e, cutoff[c] + req[c].span) /\ ~TooOld(e, cutoff[c])
          ELSE ~Matches(req[c], e)

\* The file changes only when one mutator's effect is applied to the entries
\* the file holds at that very moment, and never when they cannot be read.  An
\* empty ID, which would match every entry without one, removes nothing
\* (token.go:60-70, 121-179).
AppliesOne ==
    file' # file =>
        /\ file # Corrupt
        /\ \E c \in Client :
              /\ pc[c] = "save" /\ res'[c] = "ok"
              /\ IF req[c].op = "Record"
                 THEN file' = Append(Contents(file), req[c].entry)
                 ELSE /\ req[c].op \in Mutator
                      /\ req[c].op = "RemoveByID" => req[c].key # ""
                      /\ Drops(c, Contents(file), file', now)

Transactional == [][AppliesOne]_vars

TL == INSTANCE TokenLedger

\* The locked transactions of token.go implement the atomic ones: every change
\* and every answer is the one a single call makes on the current entries at
\* one moment, whatever interleaves, fails or dies (token.go:60-235).
ImplementsTokenLedger == TL!Spec
=============================================================================
