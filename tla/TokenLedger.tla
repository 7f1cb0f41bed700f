----------------------------- MODULE TokenLedger -----------------------------
(***************************************************************************)
(* What package token promises: every call is one transaction.  A mutator  *)
(* applies itself to the current entries in one step exactly if it reports *)
(* success, a reader answers from the entries of one moment, and entries   *)
(* that cannot be read are never replaced.  Only the clock may move during *)
(* a call, so that each entry is judged at some instant of the call.       *)
(***************************************************************************)
EXTENDS LedgerOps

CONSTANT Client

VARIABLES file,    \* the ledger's entries, NoFile or Corrupt
          now,     \* the clock
          req,     \* the call each client is inside
          since,   \* when it began
          res, ans \* its result, once decided

vars == <<file, now, req, since, res, ans>>

Init ==
    /\ file \in Seq(Entry) \cup {NoFile, Corrupt}
    /\ now \in Nat
    /\ req = [c \in Client |-> NoRequest]
    /\ since = [c \in Client |-> 0]
    /\ res = [c \in Client |-> "none"]
    /\ ans = [c \in Client |-> <<>>]

Tick == now' = now + 1 /\ UNCHANGED <<file, req, since, res, ans>>

Begin(c) ==
    /\ req[c] = NoRequest
    /\ \E r \in Request : req' = [req EXCEPT ![c] = r]
    /\ since' = [since EXCEPT ![c] = now]
    /\ UNCHANGED <<file, now, res, ans>>

Pending(c) == req[c] # NoRequest /\ res[c] = "none"

\* The instants at which a loop that runs from t0 to t1 looks at the clock: before
\* the first of n entries, and once for each entry.
Looks(n, t0, t1) ==
    {at \in [0 .. n -> t0 .. t1] : \A i \in 1 .. n : at[i - 1] <= at[i]}

\* The places in s at which the loop of request r appends, given those instants.
Chosen(r, s, at) == {i \in DOMAIN s : Selects(r, s[i], at[0] - r.span, at[i])}

\* Every outcome of the loop of request r over s, begun at t0 and ended at t1.
Outcomes(r, s, t0, t1) ==
    IF r.op = "Record" THEN {Append(s, r.entry)}
    ELSE {Picked(s, Chosen(r, s, at)) : at \in Looks(Len(s), t0, t1)}

\* A mutator takes effect.  A Cleanup that removes nothing writes nothing.
Commit(c) ==
    /\ Pending(c) /\ req[c].op \in Mutator /\ ~Rejected(req[c])
    /\ file # Corrupt
    /\ \E s \in Outcomes(req[c], Contents(file), since[c], now) :
          /\ \A i \in DOMAIN s : s[i] \notin Unencodable
          /\ file' = IF req[c].op = "Cleanup" /\ s = Contents(file) THEN file ELSE s
    /\ res' = [res EXCEPT ![c] = "ok"]
    /\ UNCHANGED <<now, req, since, ans>>

\* A search answers with the first match, the others with the whole selection.
Answer(c) ==
    /\ Pending(c) /\ req[c].op \notin Mutator /\ ~Rejected(req[c])
    /\ file # Corrupt
    /\ \E s \in Outcomes(req[c], Contents(file), since[c], now) :
          /\ ans' = [ans EXCEPT ![c] = IF req[c].op \in Finder /\ s # <<>>
                                       THEN <<Head(s)>> ELSE s]
          /\ res' = [res EXCEPT ![c] = IF req[c].op \in Finder /\ s = <<>>
                                       THEN "notfound" ELSE "ok"]
    /\ UNCHANGED <<file, now, req, since>>

Fail(c) ==
    /\ Pending(c)
    /\ res' = [res EXCEPT ![c] = "err"]
    /\ UNCHANGED <<file, now, req, since, ans>>

Forget(C) ==
    /\ req' = [c \in Client |-> IF c \in C THEN NoRequest ELSE req[c]]
    /\ since' = [c \in Client |-> IF c \in C THEN 0 ELSE since[c]]
    /\ res' = [c \in Client |-> IF c \in C THEN "none" ELSE res[c]]
    /\ ans' = [c \in Client |-> IF c \in C THEN <<>> ELSE ans[c]]
    /\ UNCHANGED <<file, now>>

\* A client gets its result, or the process dies with all of them.
Leave == (\E c \in Client : res[c] # "none" /\ Forget({c})) \/ Forget(Client)

Next == Tick \/ Leave \/ \E c \in Client : Begin(c) \/ Commit(c) \/ Answer(c) \/ Fail(c)

Spec == Init /\ [][Next]_vars
==============================================================================
