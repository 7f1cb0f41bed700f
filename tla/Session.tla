------------------------------- MODULE Session -------------------------------
(***************************************************************************)
(* session/session.go: a cached key per provider that expires.  Callers    *)
(* save, load, clear and resolve sessions while the clock moves; a Save    *)
(* takes its time stamp before it writes the file, and a Resolve looks at  *)
(* the clock after it has read it.  A write or a removal changes the file  *)
(* in one step or not at all, and a read returns what the file held (see   *)
(* CredentialFile); reads that race with a writer may fail.                *)
(***************************************************************************)
EXTENDS Duration

CONSTANTS Caller,
          Provider,    \* providers that validateProvider accepts
          NoProvider,  \* the empty one, which has a file of its own
          BadProvider, \* one that is not accepted
          Key,         \* session keys
          NoKey,       \* the empty string
          Given,       \* a key given explicitly or in the environment
          Absent, Damaged,  \* no file; one that is not JSON
          Nil,         \* a legacy session has no ExpiresAt
          TTL,         \* what managers are created with
          DefaultTTL,
          LegacyTTL,   \* TTLSeconds found in files of older versions
          NoCall, MaxTime, MaxCalls

\* What the constants have to be.
SessionAssumption ==
    /\ TTL \subseteq Int /\ DefaultTTL \in Nat \ {0} /\ LegacyTTL \subseteq Int
    /\ NoProvider \in Provider /\ BadProvider \notin Provider
    /\ NoKey \notin Key \cup {Given} /\ Absent # Damaged /\ Nil \notin Int
    /\ MaxTime \in Nat /\ MaxCalls \in Nat

\* The field until is not in the file: it is the exact end of the session's
\* lifetime, which the other fields have to represent.
SessionFile(k, expires, created, seconds, until) ==
    [key |-> k, ExpiresAt |-> expires, CreatedAt |-> created, TTLSeconds |-> seconds,
     until |-> until]

Legacy == {SessionFile(k, Nil, 0, n, n * Second) : k \in Key, n \in LegacyTTL}

path(p) == IF p = NoProvider THEN <<"session">> ELSE <<"session", p>>

Call == [op : {"Save"}, provider : Provider \cup {BadProvider}, key : Key, ttl : TTL]
        \cup [op : {"Load", "Clear"}, provider : Provider, key : {NoKey}, ttl : {0}]
        \cup [op : {"Resolve"}, provider : Provider, key : {NoKey, Given}, ttl : {0}]

VARIABLES file,   \* what each path holds
          now, begun,
          pc, call,
          got,    \* Save: the session to write; readers: what was read
          res,    \* <<status, value>>
          since,  \* history: when the call began
          held    \* history: what its file held since then

vars == <<file, now, begun, pc, call, got, res, since, held>>

NoResult == <<"none", NoKey>>

TypeOK ==
    /\ DOMAIN file = {path(p) : p \in Provider}
    /\ now \in 0 .. MaxTime /\ begun \in 0 .. MaxCalls
    /\ pc \in [Caller -> {"idle", "stamp", "write", "read", "remove", "check", "done"}]
    /\ call \in [Caller -> Call \cup {NoCall}]
    /\ since \in [Caller -> 0 .. MaxTime]

Init ==
    /\ \E x \in Legacy \cup {Absent, Damaged} :
          file = [f \in {path(p) : p \in Provider} |-> IF f = path(NoProvider) THEN x ELSE Absent]
    /\ now = 0 /\ begun = 0
    /\ pc = [c \in Caller |-> "idle"]
    /\ call = [c \in Caller |-> NoCall]
    /\ got = [c \in Caller |-> Absent]
    /\ res = [c \in Caller |-> NoResult]
    /\ since = [c \in Caller |-> 0]
    /\ held = [c \in Caller |-> {}]

Goto(c, l) == pc' = [pc EXCEPT ![c] = l]

Finish(c, st, v) == Goto(c, "done") /\ res' = [res EXCEPT ![c] = <<st, v>>]

\* The calls that the histories are kept for.
Resolving(k) == k # NoCall /\ k.op = "Resolve" /\ k.key = NoKey

validateProvider(p) == p \in Provider

\* An explicit key, or one in the environment, is the answer whatever is cached.
Begin(c) ==
    /\ pc[c] = "idle" /\ begun < MaxCalls /\ begun' = begun + 1
    /\ \E k \in Call :
          /\ call' = [call EXCEPT ![c] = k]
          /\ CASE ~validateProvider(k.provider) -> Finish(c, "err", NoKey)
               [] validateProvider(k.provider) /\ k.key = Given -> Finish(c, "ok", Given)
               [] OTHER -> /\ Goto(c, CASE k.op = "Save" -> "stamp" [] k.op = "Clear" -> "remove"
                                        [] OTHER -> "read")
                           /\ UNCHANGED res
          /\ held' = [held EXCEPT ![c] = IF Resolving(k) THEN {file[path(k.provider)]} ELSE {}]
          /\ since' = [since EXCEPT ![c] = IF Resolving(k) THEN now ELSE 0]
    /\ UNCHANGED <<file, now, got>>

\* NewManager: zero stands for the default.
EffectiveTTL(ttl) == IF ttl = 0 THEN DefaultTTL ELSE ttl

NewSession(k, t, ttl) == SessionFile(k, t + ttl, t, Quot(ttl, Second), t + ttl)

\* Save: the session is made up at one instant and written later.
Stamp(c) ==
    /\ pc[c] = "stamp"
    /\ got' = [got EXCEPT ![c] = NewSession(call[c].key, now, EffectiveTTL(call[c].ttl))]
    /\ Goto(c, "write")
    /\ UNCHANGED <<file, now, begun, call, res, since, held>>

\* The file of c's provider holds x from now on.
Apply(c, x) ==
    /\ file' = [file EXCEPT ![path(call[c].provider)] = x]
    /\ held' = [d \in Caller |-> IF Resolving(call[d]) /\ call[d].provider = call[c].provider
                                 THEN held[d] \cup {x} ELSE held[d]]

Write(c) ==
    /\ pc[c] = "write"
    /\ Apply(c, got[c])
    /\ got' = [got EXCEPT ![c] = Absent]
    /\ Finish(c, "ok", NoKey)
    /\ UNCHANGED <<now, begun, call, since>>

Remove(c) ==
    /\ pc[c] = "remove"
    /\ Apply(c, Absent)
    /\ Finish(c, "ok", NoKey)
    /\ UNCHANGED <<now, begun, call, got, since>>

\* Load, alone or in Resolve: only a missing file means that there is no session.
Read(c) ==
    /\ pc[c] = "read"
    /\ LET f == file[path(call[c].provider)]
       IN  CASE f = Absent -> /\ IF call[c].op = "Resolve" THEN Finish(c, "ok", NoKey)
                                                           ELSE Finish(c, "absent", NoKey)
                              /\ UNCHANGED got
             [] f = Damaged -> Finish(c, "err", NoKey) /\ UNCHANGED got
             [] OTHER -> /\ got' = [got EXCEPT ![c] = f]
                         /\ IF call[c].op = "Resolve" THEN Goto(c, "check") /\ UNCHANGED res
                                                      ELSE Finish(c, "ok", f.key)
    /\ UNCHANGED <<file, now, begun, call, since, held>>

\* Mutant: negative lifetimes are multiplied like the others.
OutOfRange_Large(n) == n > MaxSeconds

OutOfRange(n) == n < 0 \/ n > MaxSeconds

IsExpired(s, t) ==
    IF s.ExpiresAt # Nil THEN t >= s.ExpiresAt
    ELSE OutOfRange(s.TTLSeconds) \/ t >= s.CreatedAt + Wrap(s.TTLSeconds * Second)

\* Resolve asks the clock after it has read the file.
Check(c) ==
    /\ pc[c] = "check"
    /\ Finish(c, "ok", IF IsExpired(got[c], now) THEN NoKey ELSE got[c].key)
    /\ UNCHANGED <<file, now, begun, call, got, since, held>>

Fails(c) ==
    /\ pc[c] \in {"write", "read", "remove"}
    /\ Finish(c, "err", NoKey)
    /\ UNCHANGED <<file, now, begun, call, got, since, held>>

\* The caller has its result, or its process is killed.
Leave(c) ==
    /\ pc[c] # "idle" /\ Goto(c, "idle")
    /\ call' = [call EXCEPT ![c] = NoCall]
    /\ got' = [got EXCEPT ![c] = Absent]
    /\ res' = [res EXCEPT ![c] = NoResult]
    /\ since' = [since EXCEPT ![c] = 0]
    /\ held' = [held EXCEPT ![c] = {}]
    /\ UNCHANGED <<file, now, begun>>

Tick ==
    /\ now < MaxTime /\ now' = now + 1
    /\ UNCHANGED <<file, begun, pc, call, got, res, since, held>>

Step(c) ==
    \/ Begin(c) \/ Stamp(c) \/ Write(c) \/ Remove(c) \/ Read(c) \/ Check(c) \/ Fails(c) \/ Leave(c)

Next == Tick \/ \E c \in Caller : Step(c)

Spec == Init /\ [][Next]_vars

-----------------------------------------------------------------------------

Cached(c) == held[c] \ {Absent, Damaged}

\* A Resolve from the cache has just returned.
FromCache(c) == pc[c] = "done" /\ Resolving(call[c]) /\ res[c][1] = "ok"

\* A key that Resolve takes from the cache was stored for this provider and its
\* lifetime, in exact arithmetic, had not ended when Resolve was called: no wrapped
\* product and no stamp taken late makes it live longer (session.go 39-48, 83-103,
\* 132-142).
ResolveFresh ==
    \A c \in Caller : FromCache(c) /\ res[c][2] # NoKey =>
       \E s \in Cached(c) : s.key = res[c][2] /\ since[c] < s.until

\* Resolve finds no session only if there was none at some moment, or one whose
\* lifetime had ended, or a legacy one whose lifetime is no Duration; a session is
\* not lost before its time, lifetimes below a second included (session.go 40-47,
\* 88-94, 133-141).
ResolveAvailable ==
    \A c \in Caller : FromCache(c) /\ res[c][2] = NoKey =>
       \/ Absent \in held[c]
       \/ \E s \in Cached(c) : \/ s.until <= now
                               \/ s.ExpiresAt = Nil /\ s.TTLSeconds > MaxSeconds

\* Both: what Resolve says of the cache is what the lifetimes say (session.go 118-143).
ResolveExact == ResolveFresh /\ ResolveAvailable
=============================================================================
