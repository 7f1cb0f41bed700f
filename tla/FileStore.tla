----------------------------- MODULE FileStore ------------------------------
(***************************************************************************)
(* The FileStore of secret/secret.go, on top of the file operations that   *)
(* CredentialFile specifies and SecureFile implements: one file per key,   *)
(* named after the digest of service, NUL and account.  SHA-256 is taken   *)
(* to be free of collisions, so the file's name is that sequence itself.   *)
(* The store is shown to implement SecretStore.                            *)
(***************************************************************************)
EXTENDS Sequences

CONSTANTS Client, Value, NoSecret, Unreadable, NoCall,
          Key,  \* [service, account], each a sequence of characters
          NUL   \* the character that separates them

\* Mutant: control characters are accepted.
validateKey_Blank(key) == key.service # <<>> /\ key.account # <<>>

\* Blank and malformed parts are rejected.
validateKey(key) ==
    \A w \in {key.service, key.account} : w # <<>> /\ \A i \in DOMAIN w : w[i] # NUL

path(key) == key.service \o <<NUL>> \o key.account

Call == [op : {"Put"}, key : Key, value : Value]
        \cup [op : {"Get", "Delete"}, key : Key, value : {NoSecret}]

None == <<"none", NoSecret>>

VARIABLES call, res,                      \* the calls of the store
          file, fcall, window, ret, out   \* the file operations

files == <<file, fcall, window, ret, out>>
vars == <<call, res, files>>

\* No special files are in the directory: nobody else writes there.
CF == INSTANCE CredentialFile
        WITH Proc <- Client, Name <- {path(k) : k \in Key}, NoValue <- NoSecret,
             Alien <- Unreadable, content <- file, call <- fcall

\* What the constants have to be.
StoreAssumption ==
    /\ \A k \in Key : /\ k = [service |-> k.service, account |-> k.account]
                      /\ \A w \in {k.service, k.account} : w \in Seq({w[i] : i \in DOMAIN w})
    /\ NoSecret \notin Value /\ Unreadable \notin Value \cup {NoSecret}
    /\ NoCall \notin [op : {"Put", "Get", "Delete"}, key : Key, value : Value \cup {NoSecret}]
                      \cup CF!Call

TypeOK ==
    /\ file \in [{path(k) : k \in Key} -> Value \cup {NoSecret}]
    /\ call \in [Client -> Call \cup {NoCall}]
    /\ fcall \in [Client -> CF!Call \cup {NoCall}]
    /\ ret \in [Client -> CF!Result]

Init ==
    /\ call = [c \in Client |-> NoCall]
    /\ res = [c \in Client |-> None]
    /\ CF!Init
    /\ file = [f \in {path(k) : k \in Key} |-> NoSecret]

FileOp(op) == CASE op = "Put" -> "write" [] op = "Get" -> "read" [] op = "Delete" -> "remove"

\* A done context and an invalid key end the call before a file is touched.
Reject(c) ==
    /\ call[c] = NoCall
    /\ \E k \in Call : call' = [call EXCEPT ![c] = k]
    /\ res' = [res EXCEPT ![c] = <<"err", NoSecret>>]
    /\ UNCHANGED files

Begin(c) ==
    /\ call[c] = NoCall
    /\ \E k \in Call :
          /\ validateKey(k.key)
          /\ call' = [call EXCEPT ![c] = k]
          /\ CF!Begin(c)
          /\ fcall'[c] = [op |-> FileOp(k.op), name |-> path(k.key), value |-> k.value]
    /\ UNCHANGED res

\* WriteSecureAt, ReadSecureAt or RemoveSecureAt at work.
Access(c) ==
    /\ CF!Install(c) \/ CF!Unlink(c) \/ CF!Decide(c)
    /\ UNCHANGED <<call, res>>

\* A missing file is ErrNotFound to Get and success to Delete.
Outcome(c) ==
    CASE ret[c] = "ok" -> <<"ok", out[c]>>
      [] ret[c] = "notexist" /\ call[c].op = "Get" -> <<"notfound", NoSecret>>
      [] ret[c] = "notexist" /\ call[c].op = "Delete" -> <<"ok", NoSecret>>
      [] OTHER -> <<"err", NoSecret>>

Return(c) ==
    /\ fcall[c] # NoCall /\ ret[c] # "none" /\ res[c] = None
    /\ res' = [res EXCEPT ![c] = Outcome(c)]
    /\ UNCHANGED <<call, files>>

\* The caller has its result, or is killed.
Leave(c) ==
    /\ call[c] # NoCall
    /\ call' = [call EXCEPT ![c] = NoCall]
    /\ res' = [res EXCEPT ![c] = None]
    /\ IF fcall[c] = NoCall THEN UNCHANGED files ELSE CF!Leave(c)

Next == \E c \in Client : Reject(c) \/ Begin(c) \/ Access(c) \/ Return(c) \/ Leave(c)

Spec == Init /\ [][Next]_vars

-----------------------------------------------------------------------------

\* What is stored under a key: the contents of its file.
Stored == [k \in Key |-> IF validateKey(k) THEN file[path(k)] ELSE NoSecret]

Watched == [c \in Client |-> IF res[c] = None THEN window[c] ELSE {}]

Changed == [c \in Client |-> fcall[c] # NoCall /\ fcall[c].op \in {"write", "remove"}
                               /\ ret[c] = "ok"]

SS == INSTANCE SecretStore WITH content <- Stored, seen <- Watched, acted <- Changed

\* The file store keeps the promises of the Store interface: distinct keys never
\* share a file, a Get returns what was put under its key, a Delete is idempotent
\* (secret.go 53-110).  The first disjunct only spares TLC the mapped variables.
ImplementsSecretStore ==
    SS!Init /\ [][UNCHANGED vars \/ UNCHANGED SS!vars \/ SS!Next]_vars
=============================================================================
