------------------------------ MODULE Keychain ------------------------------
(***************************************************************************)
(* The KeychainStore of secret/secret.go: Put, Get and Delete as sequences *)
(* of runs of the security program, each of which sees or changes the      *)
(* keychain at one moment.  The program is external.  In interactive mode  *)
(* it reports success also when its command failed; any run may fail or be *)
(* killed with its context, before or after its effect.  Programs that do  *)
(* not mark what they store (older versions, other tools) may write too.   *)
(* One key: items of different keys do not affect each other.              *)
(***************************************************************************)
EXTENDS Naturals

CONSTANTS Client,
          Base,        \* plain byte strings
          NoSecret, Unreadable, NoCall,
          theKey,
          Junk,        \* text that is not base64
          MaxForeign   \* bound on the writes of other programs

\* A secret is a plain string or itself begins with b64:, and in the keychain each
\* of them may be encoded.
Encoded(v) == <<"b64", v>>
Secret == Base \cup {Encoded(v) : v \in Base}
Text == Secret \cup {Encoded(v) : v \in Secret \cup {Junk}}
Policy == {"LegacyRejectAmbiguous", "LegacyPlain", "LegacyBase64"}

\* What the constants have to be.
KeychainAssumption ==
    /\ Base \cap {Encoded(v) : v \in Secret \cup {Junk}} = {}
    /\ Junk \notin Secret /\ NoSecret \notin Text /\ MaxForeign \in Nat
    /\ NoCall \notin [op : {"Put", "Get", "Delete"}, key : {theKey}, value : Secret \cup {NoSecret}]

NoItem == [marked |-> FALSE, text |-> NoSecret]
Item == [marked : BOOLEAN, text : Text]

Call == [op : {"Put"}, key : {theKey}, value : Secret]
        \cup [op : {"Get", "Delete"}, key : {theKey}, value : {NoSecret}]

None == <<"none", NoSecret>>
Err == <<"err", NoSecret>>
NotFound == <<"notfound", NoSecret>>
Ambiguous == <<"ambiguous", NoSecret>>

VARIABLES item,     \* what the keychain holds
          policy,   \* LegacyEncoding, the same for all
          call, pc,
          marked,   \* hasEncodedKind of the first metadata
          read,     \* the text that was read
          out,      \* the result about to be returned
          foreign,  \* writes of other programs so far
          acted,    \* history: the call's own command took effect
          seen,     \* history: what was stored since the call began
          flips     \* history: how often the marking changed since, up to 2 (for Get)

locals == <<call, pc, marked, read, out>>
vars == <<item, policy, locals, foreign, acted, seen, flips>>

PC == {"idle", "add", "metadata", "value", "recheck", "delete", "return", "done"}

TypeOK ==
    /\ item \in Item \cup {NoItem} /\ policy \in Policy
    /\ call \in [Client -> Call \cup {NoCall}] /\ pc \in [Client -> PC]
    /\ marked \in [Client -> BOOLEAN] /\ read \in [Client -> Text \cup {NoSecret}]
    /\ foreign \in 0 .. MaxForeign
    /\ acted \in [Client -> BOOLEAN] /\ seen \in [Client -> SUBSET (Text \cup {NoSecret, Unreadable})]
    /\ flips \in [Client -> 0 .. 2]

Init ==
    /\ item \in {NoItem} \cup [marked : {FALSE}, text : Text]
                         \cup [marked : {TRUE}, text : {Encoded(v) : v \in Secret}]
    /\ policy \in Policy
    /\ call = [c \in Client |-> NoCall] /\ pc = [c \in Client |-> "idle"]
    /\ marked = [c \in Client |-> FALSE] /\ read = [c \in Client |-> NoSecret]
    /\ out = [c \in Client |-> None]
    /\ foreign = 0
    /\ acted = [c \in Client |-> FALSE] /\ seen = [c \in Client |-> {}]
    /\ flips = [c \in Client |-> 0]

\* The secret that an item stands for, by its own marking: the text of a marked
\* item is encoded, and what an unmarked one means is for the policy to say.
Plain(t) == t \in Base \/ policy = "LegacyPlain"

Meaning(i) ==
    CASE i = NoItem -> NoSecret
      [] i.marked /\ i.text \in {Encoded(v) : v \in Secret} -> i.text[2]
      [] i # NoItem /\ ~i.marked /\ Plain(i.text) -> i.text
      [] ~i.marked /\ ~Plain(i.text) /\ policy = "LegacyBase64"
            /\ i.text \in {Encoded(v) : v \in Secret} -> i.text[2]
      [] OTHER -> Unreadable

Goto(c, l) == pc' = [pc EXCEPT ![c] = l]

Finish(c, r) == Goto(c, "return") /\ out' = [out EXCEPT ![c] = r]

Inside(c) == pc[c] \notin {"idle", "done"}

Getting == {"metadata", "value", "recheck"}

\* The keychain holds i from now on.
Store(i) ==
    /\ item' = i
    /\ seen' = [c \in Client |-> IF Inside(c) THEN seen[c] \cup {Meaning(i)} ELSE seen[c]]
    /\ flips' = [c \in Client |-> IF pc[c] \in Getting /\ call[c].op = "Get" /\ i.marked # item.marked
                                     /\ flips[c] < 2
                                  THEN flips[c] + 1 ELSE flips[c]]

Kept == UNCHANGED <<item, seen, flips>>

\* An invalid policy or key, or a platform without keychain, returns an error
\* before any run of the program.
Refuse(c) ==
    /\ pc[c] = "idle"
    /\ \E k \in Call : call' = [call EXCEPT ![c] = k]
    /\ Goto(c, "done") /\ out' = [out EXCEPT ![c] = Err]
    /\ UNCHANGED <<item, policy, marked, read, foreign, acted, seen, flips>>

Begin(c) ==
    /\ pc[c] = "idle"
    /\ \E k \in Call :
          /\ call' = [call EXCEPT ![c] = k]
          /\ Goto(c, CASE k.op = "Put" -> "add" [] k.op = "Get" -> "metadata"
                       [] k.op = "Delete" -> "delete")
    /\ seen' = [seen EXCEPT ![c] = {Meaning(item)}]
    /\ UNCHANGED <<item, policy, marked, read, out, foreign, acted, flips>>

\* A run of the program that changes the keychain to i, if it does, and its exit
\* status, which need not agree.
Changes(c, i) == Store(i) /\ acted' = [acted EXCEPT ![c] = TRUE]
DoesNot == Kept /\ UNCHANGED acted

Add(c) ==
    /\ pc[c] = "add"
    /\ Changes(c, [marked |-> TRUE, text |-> Encoded(call[c].value)]) \/ DoesNot
    /\ \/ Goto(c, "metadata") /\ UNCHANGED out
       \/ Finish(c, Err)
    /\ UNCHANGED <<policy, call, marked, read, foreign>>

\* How the Get that Put ends with decides Put's result.
\* Mutant: whatever can be read back confirms the write.
Confirmed_Found(c, r) == r[1] = "ok"

Confirmed(c, r) == r = <<"ok", call[c].value>>

GetEnds(c, r) ==
    /\ Finish(c, IF call[c].op # "Put" THEN r
                 ELSE IF Confirmed(c, r) THEN <<"ok", NoSecret>> ELSE Err)
    /\ marked' = [marked EXCEPT ![c] = FALSE]
    /\ read' = [read EXCEPT ![c] = NoSecret]

\* find-generic-password: the item, nothing (exit status 44) or a failure.
Find(c, at, Found) ==
    /\ pc[c] = at
    /\ \/ item # NoItem /\ Found
       \/ item = NoItem /\ GetEnds(c, NotFound)
       \/ GetEnds(c, Err)
    /\ Kept /\ UNCHANGED <<policy, call, foreign, acted>>

Metadata(c) ==
    Find(c, "metadata", /\ marked' = [marked EXCEPT ![c] = item.marked]
                        /\ Goto(c, "value")
                        /\ UNCHANGED <<read, out>>)

ReadValue(c) ==
    Find(c, "value", /\ read' = [read EXCEPT ![c] = item.text]
                     /\ Goto(c, "recheck")
                     /\ UNCHANGED <<marked, out>>)

Prefixed(t) == \E v \in Secret \cup {Junk} : t = Encoded(v)

Decodes(m, t) == m \/ (Prefixed(t) /\ policy = "LegacyBase64")

\* The end of Get: the secret that a text stands for.
Decode(m, t) ==
    CASE Decodes(m, t) -> IF Prefixed(t) /\ t # Encoded(Junk) THEN <<"ok", t[2]>> ELSE Err
      [] ~Decodes(m, t) /\ Prefixed(t) /\ policy = "LegacyRejectAmbiguous" -> Ambiguous
      [] OTHER -> <<"ok", t>>

\* Mutant: the metadata are not read again.
SameMarking_Unchecked(c) == TRUE

SameMarking(c) == item.marked = marked[c]

Recheck(c) ==
    Find(c, "recheck", IF SameMarking(c) THEN GetEnds(c, Decode(marked[c], read[c]))
                                         ELSE GetEnds(c, Err))

\* delete-generic-password; a missing item is success.
Delete(c) ==
    /\ pc[c] = "delete"
    /\ \/ item # NoItem /\ Changes(c, NoItem) /\ Finish(c, <<"ok", NoSecret>>)
       \/ item # NoItem /\ Changes(c, NoItem) /\ Finish(c, Err)
       \/ item = NoItem /\ DoesNot /\ Finish(c, <<"ok", NoSecret>>)
       \/ DoesNot /\ Finish(c, Err)
    /\ UNCHANGED <<policy, call, marked, read, foreign>>

\* The call's frame is gone.
Forget(c) ==
    /\ marked' = [marked EXCEPT ![c] = FALSE]
    /\ read' = [read EXCEPT ![c] = NoSecret]
    /\ seen' = [seen EXCEPT ![c] = {}]
    /\ flips' = [flips EXCEPT ![c] = 0]

Return(c) ==
    /\ pc[c] = "return" /\ Goto(c, "done")
    /\ Forget(c)
    /\ UNCHANGED <<item, policy, call, out, foreign, acted>>

\* The caller has its result, or its process is killed.
Leave(c) ==
    /\ pc[c] # "idle" /\ Goto(c, "idle")
    /\ call' = [call EXCEPT ![c] = NoCall]
    /\ Forget(c)
    /\ out' = [out EXCEPT ![c] = None]
    /\ acted' = [acted EXCEPT ![c] = FALSE]
    /\ UNCHANGED <<item, policy, foreign>>

\* Another program stores an unmarked item.
Foreign ==
    /\ foreign < MaxForeign /\ foreign' = foreign + 1
    /\ \E t \in Text : Store([marked |-> FALSE, text |-> t])
    /\ UNCHANGED <<policy, locals, acted>>

Step(c) ==
    \/ Refuse(c) \/ Begin(c) \/ Add(c) \/ Metadata(c) \/ ReadValue(c) \/ Recheck(c)
    \/ Delete(c) \/ Return(c) \/ Leave(c)

Next == Foreign \/ \E c \in Client : Step(c)

Spec == Init /\ [][Next]_vars

-----------------------------------------------------------------------------

Result(r) == IF r = Ambiguous THEN Err ELSE r

SS == INSTANCE SecretStore
        WITH Key <- {theKey}, Value <- Text,
             content <- [k \in {theKey} |-> Meaning(item)],
             res <- [c \in Client |-> IF pc[c] = "done" THEN Result(out[c]) ELSE None]

\* As long as only credkit writes to the keychain its commands make up a Store: a
\* Get returns a secret that was put, in the form in which it was put, and a Put
\* that reports success has stored its value even though the program's exit status
\* does not tell (secret.go 156-171, 175-223, 239-251).
ImplementsSecretStore == SS!Init /\ [][foreign' = 0 => UNCHANGED SS!vars \/ SS!Next]_vars

\* Another program writes during the call.  A Get that reads the marking and the
\* value of different items notices it, and returns a secret that no item stood
\* for, only if the marking changed at least twice, so that the second look at the
\* metadata found what the first had found (secret.go 185-208).
WrongOnlyAfterTwoFlips ==
    \A c \in Client :
       pc[c] = "return" /\ call[c].op = "Get" /\ out[c][1] = "ok" =>
          out[c][2] \in seen[c] \/ flips[c] = 2
=============================================================================
