------------------------------ MODULE Profile -------------------------------
(***************************************************************************)
(* profile/profile.go: callers of Manager, in one process or in several,   *)
(* over the three kinds of files it keeps, without a lock.  SecureFile     *)
(* shows that a write or a removal changes its file in one step or, with   *)
(* an error, not at all, and that a read is an Lstat and an open: a file   *)
(* replaced in between makes it fail with ErrUnsafePath, unless the new    *)
(* file got the inode number of the old one.                               *)
(***************************************************************************)
EXTENDS Naturals

CONSTANTS Caller,
          Name,      \* the names that ValidateName accepts
          Invalid,   \* one that it rejects
          Empty,     \* the empty name
          Default,   \* DefaultName
          Fields,    \* what an application stores in a profile
          Cred,      \* credentials
          Absent,    \* no file
          Damaged,   \* a profile file that is not JSON
          NoValue,
          Calls,     \* the calls that are made
          MaxCalls,  \* and how many
          Begun,     \* what the files may hold at the start
          IOErrors   \* whether a system call may fail by itself

ProfileType == [fields : Fields, used : {"before", "now"}]

ProfilePath(n) == <<"profiles", n>>
CredentialPath(n) == <<"credentials", n>>
ActivePath == <<"active-profile">>

Path == {ProfilePath(n) : n \in Name} \cup {CredentialPath(n) : n \in Name} \cup {ActivePath}

Content == ProfileType \cup {Damaged} \cup Cred \cup Name \cup {Invalid, Empty, Absent}

Request(ops, names, values) == [op : ops, name : names, value : values]

Call ==
    Request({"Save"}, Name \cup {Invalid}, [fields : Fields, used : {"before"}])
    \cup Request({"SaveCredential"}, Name, Cred)
    \cup Request({"SetActive"}, Name \cup {Empty, Invalid}, {NoValue})
    \cup Request({"Delete", "Load", "Exists", "LoadCredential", "UpdateLastUsed"}, Name, {NoValue})
    \cup Request({"Active", "List"}, {Empty}, {NoValue})

\* Earlier calls, one that was killed half way or a user with an editor may have
\* left any of these contents.
ASSUME ProfileAssumption ==
    /\ Default \in Name /\ {Invalid, Empty} \cap Name = {}
    /\ Absent \notin Name \cup {Invalid, Damaged} /\ Invalid # Empty /\ NoValue # Damaged
    /\ Calls \subseteq Call /\ MaxCalls \in Nat
    /\ \A f \in Begun :
          /\ f \in [Path -> Content]
          /\ \A n \in Name : /\ f[ProfilePath(n)] \in ProfileType \cup {Damaged, Absent}
                             /\ f[CredentialPath(n)] \in Cred \cup {Absent}
          /\ f[ActivePath] \in Name \cup {Invalid, Empty, Absent}
    /\ IOErrors \in BOOLEAN

NoCall == [op |-> "none", name |-> Empty, value |-> NoValue]

VARIABLES file,   \* what each path holds
          begun,  \* calls made so far
          pc, call,
          cur,    \* the name whose profile is being read
          raced,  \* the file being read was replaced since its Lstat
          got,    \* the value read before a write follows
          todo,   \* List: directory entries not yet loaded
          seen,   \* List: <<name, status, value>> of those that were
          res,    \* <<status, value>> of a call that has returned
          met,    \* history: paths that others changed during the call
          held    \* history: what each path held during the call

locals == <<call, cur, got, todo, seen, res>>
vars == <<file, begun, pc, raced, met, held, locals>>

PC == {"idle", "readdir", "stat", "open", "rmprofile", "rmcredential", "write", "done"}

Status == {"none", "ok", "absent", "invalid", "unsafe", "io"}

Value == Content \cup {NoValue}

Nothing == [p \in Path |-> {}]

TypeOK ==
    /\ file \in [Path -> Content]
    /\ begun \in 0 .. MaxCalls
    /\ pc \in [Caller -> PC]
    /\ call \in [Caller -> Call \cup {NoCall}]
    /\ cur \in [Caller -> Name \cup {Empty, Invalid}]
    /\ raced \in [Caller -> BOOLEAN]
    /\ got \in [Caller -> Value]
    /\ todo \in [Caller -> SUBSET Name]
    /\ seen \in [Caller -> SUBSET (Name \X Status \X Value)]
    /\ res \in [Caller -> Status \X Value]
    /\ met \in [Caller -> SUBSET Path]
    /\ held \in [Caller -> [Path -> SUBSET Content]]

Init ==
    /\ file \in Begun
    /\ begun = 0
    /\ pc = [c \in Caller |-> "idle"]
    /\ call = [c \in Caller |-> NoCall]
    /\ cur = [c \in Caller |-> Empty]
    /\ raced = [c \in Caller |-> FALSE]
    /\ got = [c \in Caller |-> NoValue]
    /\ todo = [c \in Caller |-> {}]
    /\ seen = [c \in Caller |-> {}]
    /\ res = [c \in Caller |-> <<"none", NoValue>>]
    /\ met = [c \in Caller |-> {}]
    /\ held = [c \in Caller |-> Nothing]

Goto(c, l) == pc' = [pc EXCEPT ![c] = l]

Finish(c, st, v) == Goto(c, "done") /\ res' = [res EXCEPT ![c] = <<st, v>>]

\* The paths a call reads before it answers or writes; its history is about them.
Watched(k) ==
    CASE k.op = "List" -> {ProfilePath(n) : n \in Name}
      [] k.op = "Active" -> {ActivePath}
      [] k.op = "Delete" -> {ActivePath, ProfilePath(k.name), CredentialPath(k.name)}
      [] k.op = "LoadCredential" -> {CredentialPath(k.name)}
      [] k.op \in {"Load", "Exists", "UpdateLastUsed"} -> {ProfilePath(k.name)}
      [] OTHER -> {}

ValidateName(n) == n \in Name

\* SetActive alone accepts the empty name; Active and List take none.
Accepted(k) == ValidateName(k.name) \/ k.name = Empty

First(op) ==
    CASE op \in {"Save", "SaveCredential", "SetActive"} -> "write"
      [] op = "List" -> "readdir"
      [] OTHER -> "stat"

Begin(c) ==
    /\ pc[c] = "idle"
    /\ begun < MaxCalls /\ begun' = begun + 1
    /\ \E k \in Calls :
          /\ call' = [call EXCEPT ![c] = k]
          /\ cur' = [cur EXCEPT ![c] = k.name]
          /\ IF Accepted(k) THEN Goto(c, First(k.op)) /\ UNCHANGED res
                            ELSE Finish(c, "invalid", NoValue)
    /\ held' = [held EXCEPT ![c] = [p \in Path |-> IF p \in Watched(call'[c]) THEN {file[p]} ELSE {}]]
    /\ UNCHANGED <<file, raced, got, todo, seen, met>>

\* The file that the current read is about.
Target(c) ==
    CASE call[c].op \in {"Active", "Delete"} -> ActivePath
      [] call[c].op = "LoadCredential" -> CredentialPath(cur[c])
      [] OTHER -> ProfilePath(cur[c])

\* Mutant: any failure to read the selection selects the default profile.
Selected_AnyError(st, v) == IF st # "ok" \/ v = Empty THEN <<"ok", Default>>
                            ELSE IF ValidateName(v) THEN <<"ok", v>> ELSE <<"invalid", NoValue>>

\* Active: what the contents of the file, or the failure to read it, mean.
Selected(st, v) ==
    CASE st = "absent" \/ (st = "ok" /\ v = Empty) -> <<"ok", Default>>
      [] st = "ok" /\ v # Empty -> IF ValidateName(v) THEN <<"ok", v>> ELSE <<"invalid", NoValue>>
      [] OTHER -> <<st, NoValue>>

\* What the bytes mean to the operation that reads them.
Decoded(op, st, v) ==
    CASE op \in {"Active", "Delete"} -> Selected(st, v)
      [] op \in {"Load", "List", "UpdateLastUsed"} /\ v = Damaged -> <<"invalid", NoValue>>
      [] OTHER -> <<st, v>>

\* List goes on with any entry that is left; the answer is sorted anyway.
NextEntry(c, left) ==
    /\ todo' = [todo EXCEPT ![c] = left]
    /\ IF left = {} THEN Finish(c, "ok", NoValue) /\ UNCHANGED cur
       ELSE /\ Goto(c, "stat")
            /\ \E n \in left : cur' = [cur EXCEPT ![c] = n]
            /\ UNCHANGED res

\* A failed Load is skipped.
ListRead(c, r) ==
    /\ seen' = [seen EXCEPT ![c] = @ \cup {<<cur[c], r[1], r[2]>>}]
    /\ NextEntry(c, todo[c] \ {cur[c]})
    /\ UNCHANGED got

\* UpdateLastUsed and Delete go on with what they have read, the others return.
SingleRead(c, r) ==
    /\ IF call[c].op \in {"UpdateLastUsed", "Delete"} /\ r[1] = "ok"
       THEN /\ got' = [got EXCEPT ![c] = r[2]]
            /\ Goto(c, IF call[c].op = "Delete" THEN "rmprofile" ELSE "write")
            /\ UNCHANGED res
       ELSE Finish(c, r[1], r[2]) /\ UNCHANGED got
    /\ UNCHANGED <<cur, todo, seen>>

ReadEnds(c, st, v) ==
    /\ LET r == Decoded(call[c].op, st, v)
       IN  IF call[c].op = "List" THEN ListRead(c, r) ELSE SingleRead(c, r)
    /\ raced' = [raced EXCEPT ![c] = FALSE]
    /\ UNCHANGED <<file, begun, call, met, held>>

\* ReadSecureAt, ExistsSecureAt: the Lstat.
Stat(c) ==
    /\ pc[c] = "stat"
    /\ \/ file[Target(c)] = Absent /\ ReadEnds(c, "absent", NoValue)
       \/ /\ file[Target(c)] # Absent
          /\ Goto(c, "open")
          /\ UNCHANGED <<file, begun, raced, met, held, locals>>

\* The open, with the comparison of the inodes.
Open(c) ==
    /\ pc[c] = "open"
    /\ \/ file[Target(c)] = Absent /\ ReadEnds(c, "absent", NoValue)
       \/ file[Target(c)] # Absent /\ ReadEnds(c, "ok", file[Target(c)])
       \/ file[Target(c)] # Absent /\ raced[c] /\ ReadEnds(c, "unsafe", NoValue)

ReadFails(c) == IOErrors /\ pc[c] \in {"stat", "open"} /\ ReadEnds(c, "io", NoValue)

\* Caller c leaves v at path p.
Apply(c, p, v) ==
    /\ file' = [file EXCEPT ![p] = v]
    /\ raced' = [d \in Caller |-> raced[d] \/ (pc[d] = "open" /\ Target(d) = p)]
    /\ met' = [d \in Caller |-> IF d # c /\ p \in Watched(call[d]) /\ <<v, file[p]>> # <<Absent, Absent>>
                                THEN met[d] \cup {p} ELSE met[d]]
    /\ held' = [d \in Caller |-> IF p \in Watched(call[d]) THEN [held[d] EXCEPT ![p] = @ \cup {v}]
                                                              ELSE held[d]]

\* ReadDirSecureAt; a directory that does not exist has no entries.
ReadDir(c) ==
    /\ pc[c] = "readdir"
    /\ NextEntry(c, {n \in Name : file[ProfilePath(n)] # Absent})
    /\ UNCHANGED <<file, begun, raced, met, held, call, got, seen>>

\* Mutant: a profile that is already gone ends Delete.
AfterProfile_Returns(c) ==
    IF file[ProfilePath(cur[c])] = Absent THEN Finish(c, "ok", NoValue)
    ELSE Goto(c, "rmcredential") /\ UNCHANGED res

AfterProfile(c) == Goto(c, "rmcredential") /\ UNCHANGED res

RemoveProfile(c) ==
    /\ pc[c] = "rmprofile"
    /\ Apply(c, ProfilePath(cur[c]), Absent)
    /\ AfterProfile(c)
    /\ UNCHANGED <<begun, call, cur, got, todo, seen>>

\* Mutant: the selection is cleared whichever profile it names.
ClearsSelection_Always(c) == TRUE

\* The selection as Delete read it at its start.
ClearsSelection(c) == got[c] = call[c].name

RemoveCredential(c) ==
    /\ pc[c] = "rmcredential"
    /\ Apply(c, CredentialPath(cur[c]), Absent)
    /\ IF ClearsSelection(c) THEN Goto(c, "write") /\ UNCHANGED res
                             ELSE Finish(c, "ok", NoValue)
    /\ UNCHANGED <<begun, call, cur, got, todo, seen>>

\* What WriteSecureAt is called with, and where.
Written(c) ==
    CASE call[c].op = "UpdateLastUsed" -> [got[c] EXCEPT !.used = "now"]
      [] call[c].op = "SetActive" -> call[c].name
      [] call[c].op = "Delete" -> Empty
      [] OTHER -> call[c].value

WritePath(c) ==
    CASE call[c].op \in {"Save", "UpdateLastUsed"} -> ProfilePath(cur[c])
      [] call[c].op = "SaveCredential" -> CredentialPath(cur[c])
      [] OTHER -> ActivePath

Write(c) ==
    /\ pc[c] = "write"
    /\ Apply(c, WritePath(c), Written(c))
    /\ Finish(c, "ok", NoValue)
    /\ UNCHANGED <<begun, call, cur, got, todo, seen>>

ChangeFails(c) ==
    /\ IOErrors /\ pc[c] \in {"readdir", "rmprofile", "rmcredential", "write"}
    /\ Finish(c, "io", NoValue)
    /\ UNCHANGED <<file, begun, raced, met, held, call, cur, got, todo, seen>>

\* The caller has its result, or its process is killed anywhere.
Leave(c) ==
    /\ pc[c] # "idle"
    /\ Goto(c, "idle")
    /\ call' = [call EXCEPT ![c] = NoCall]
    /\ cur' = [cur EXCEPT ![c] = Empty]
    /\ raced' = [raced EXCEPT ![c] = FALSE]
    /\ got' = [got EXCEPT ![c] = NoValue]
    /\ todo' = [todo EXCEPT ![c] = {}]
    /\ seen' = [seen EXCEPT ![c] = {}]
    /\ res' = [res EXCEPT ![c] = <<"none", NoValue>>]
    /\ met' = [met EXCEPT ![c] = {}]
    /\ held' = [held EXCEPT ![c] = Nothing]
    /\ UNCHANGED <<file, begun>>

Step(c) ==
    \/ Begin(c) \/ Stat(c) \/ Open(c) \/ ReadFails(c) \/ ReadDir(c)
    \/ RemoveProfile(c) \/ RemoveCredential(c) \/ Write(c) \/ ChangeFails(c) \/ Leave(c)

Next == \E c \in Caller : Step(c)

Spec == Init /\ [][Next]_vars

-----------------------------------------------------------------------------

Returned(c, op) == pc[c] = "done" /\ call[c].op = op

\* The answer that contents x call for.
Answer(op, x) ==
    CASE op = "Active" /\ x \in {Absent, Empty} -> <<"ok", Default>>
      [] op = "Active" /\ x = Invalid -> <<"invalid", NoValue>>
      [] op # "Active" /\ x = Absent -> <<"absent", NoValue>>
      [] op \in {"Load", "List"} /\ x = Damaged -> <<"invalid", NoValue>>
      [] OTHER -> <<"ok", x>>

\* A read of path p ends with answer a: the one for what was there at some moment
\* of the call, or ErrUnsafePath because somebody else replaced the file.
Explained(c, p, a) ==
    \/ a \in {Answer(call[c].op, x) : x \in held[c][p]}
    \/ a[1] = "unsafe" /\ p \in met[c]
    \/ a[1] = "io" /\ IOErrors

\* Every answer is one of the moment, whatever overlaps: Active names the default
\* profile only if no selection was there to be read, a load returns a value the
\* file held, List lists such values, and it leaves out (profile.go 69-71) only
\* entries that were missing or damaged, were being replaced, or failed to be read
\* (profile.go 54-97, 148-168).
ReadsExplained ==
    \A c \in Caller :
       /\ pc[c] = "done" /\ call[c].op \in {"Active", "Load", "Exists", "LoadCredential"}
            => Explained(c, Target(c), res[c])
       /\ Returned(c, "List") /\ res[c][1] = "ok"
            => /\ \A s \in seen[c] : Explained(c, ProfilePath(s[1]), <<s[2], s[3]>>)
               /\ \A n \in Name : \/ \E s \in seen[c] : s[1] = n
                                  \/ Absent \in held[c][ProfilePath(n)]

\* A Delete that reports success has removed the profile and its credential, also
\* when an earlier Delete was killed or failed between the two, and no selection
\* of the profile is left; unless another call wrote the file in the meantime
\* (profile.go 120-146).
DeleteComplete ==
    \A c \in Caller :
       Returned(c, "Delete") /\ res[c][1] = "ok" =>
          /\ \A p \in {ProfilePath(call[c].name), CredentialPath(call[c].name)} :
                /\ Absent \in held[c][p]
                /\ file[p] = Absent \/ p \in met[c]
          /\ file[ActivePath] # call[c].name \/ ActivePath \in met[c]

\* Delete and UpdateLastUsed act on what they read earlier.  Unless another call
\* changed the file in between, Delete resets only a selection of the profile it
\* deletes, and UpdateLastUsed changes nothing but the time stamp and brings
\* nothing back (profile.go 124-145, 206-214).
StaleOnlyIfOverlapped ==
    [][\A c \in Caller : pc[c] = "write" /\ pc'[c] = "done" /\ file' # file =>
          /\ call[c].op = "Delete" /\ ActivePath \notin met[c]
               => file[ActivePath] \in {call[c].name}
                     \cup (IF call[c].name = Default THEN {Absent, Empty} ELSE {})
          /\ call[c].op = "UpdateLastUsed" /\ ProfilePath(cur[c]) \notin met[c]
               => /\ file[ProfilePath(cur[c])] \in ProfileType
                  /\ file'[ProfilePath(cur[c])].fields = file[ProfilePath(cur[c])].fields]_vars

\* What the comment of List says (profile.go 52): all profiles are returned, here
\* at least those that were there and readable during the whole call.
ListAll ==
    \A c \in Caller : Returned(c, "List") /\ res[c][1] = "ok" =>
       \A n \in Name : held[c][ProfilePath(n)] \subseteq ProfileType
                         => \E s \in seen[c] : s[1] = n /\ s[2] = "ok"
=============================================================================
