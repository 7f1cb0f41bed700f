-------------------------- MODULE CredentialProofs --------------------------
(***************************************************************************)
(* Proofs about what keeps credentials, for any number of callers, calls   *)
(* and names.                                                              *)
(*                                                                         *)
(* Profiles: nothing is locked, so what a caller has read says little      *)
(* about the files; the invariant says what it does say, with the two      *)
(* histories of a call: every file that it watches was, at some moment of  *)
(* the call, what held says, and is still as the call found or left it     *)
(* unless met names it.                                                    *)
(* Sessions (Session) and chains (ResolveChain): what they return follows  *)
(* from the clock and from the sources asked so far.                       *)
(* Secrets: the file store (FileStore) and the keychain (Keychain) both    *)
(* implement SecretStore.                                                  *)
(***************************************************************************)
EXTENDS CredentialParts, SecretParts, TLAPS

Ops == {"Save", "SaveCredential", "SetActive", "Delete", "Load", "Exists",
        "LoadCredential", "UpdateLastUsed", "Active", "List"}

\* What each kind of file may hold.
Sorted(f) ==
    /\ \A n \in Name : /\ f[ProfilePath(n)] \in ProfileType \cup {Damaged, Absent}
                       /\ f[CredentialPath(n)] \in Cred \cup {Absent}
    /\ f[ActivePath] \in Name \cup {Invalid, Empty, Absent}

Succeeded(c) == pc[c] = "done" /\ res[c][1] = "ok"

\* What the place of a caller says of its call.
Shape(c) ==
    /\ pc[c] # "idle" => call[c] \in Call
    /\ pc[c] \notin {"idle", "done"} => Accepted(call[c])
    /\ pc[c] = "idle" => call[c] = NoCall /\ seen[c] = {}
    /\ pc[c] \in {"stat", "open"} => call[c].op \notin {"Save", "SaveCredential", "SetActive"}
    /\ pc[c] = "readdir" => call[c].op = "List" /\ seen[c] = {}
    /\ pc[c] \in {"rmprofile", "rmcredential"} => call[c].op = "Delete"
    /\ pc[c] = "write" => call[c].op \in {"Save", "SaveCredential", "SetActive", "UpdateLastUsed", "Delete"}
    /\ call[c].op = "List" /\ pc[c] \in {"stat", "open"} => cur[c] \in todo[c]
    /\ call[c].op # "List" => cur[c] = call[c].name

\* The histories hold what they are meant to; a file that vanished between Lstat and
\* open, or was replaced there, was touched by another.
History(c) ==
    /\ \A p \in Watched(call[c]) : file[p] \in held[c][p]
    /\ pc[c] = "open" => file[Target(c)] # Absent \/ Target(c) \in met[c]
    /\ raced[c] => pc[c] = "open" /\ Target(c) \in met[c]

\* What has been read so far, and returned, is explained; List has missed no entry.
Answers(c) ==
    /\ pc[c] = "done" /\ call[c].op \in {"Active", "Load", "Exists", "LoadCredential"}
            => Explained(c, Target(c), res[c])
    /\ call[c].op = "List" => \A s \in seen[c] : Explained(c, ProfilePath(s[1]), <<s[2], s[3]>>)
    /\ call[c].op = "List" /\ (pc[c] \in {"stat", "open"} \/ Succeeded(c)) =>
          \A n \in Name : \/ \E s \in seen[c] : s[1] = n
                          \/ Absent \in held[c][ProfilePath(n)]
                          \/ pc[c] # "done" /\ n \in todo[c]

Gone(c, p) == Absent \in held[c][p] /\ (file[p] = Absent \/ p \in met[c])

\* What Delete has read of the selection is what it still is.
Chosen(c) ==
    \/ ActivePath \in met[c]
    \/ got[c] = Default /\ file[ActivePath] \in {Absent, Empty}
    \/ got[c] \in Name /\ file[ActivePath] = got[c]

Deleted(c) ==
    call[c].op = "Delete" =>
       /\ pc[c] \in {"rmcredential", "write"} \/ Succeeded(c) => Gone(c, ProfilePath(call[c].name))
       /\ pc[c] = "write" \/ Succeeded(c) => Gone(c, CredentialPath(call[c].name))
       /\ pc[c] \in {"rmprofile", "rmcredential", "write"} => Chosen(c)
       /\ pc[c] = "write" => got[c] = call[c].name
       /\ Succeeded(c) => file[ActivePath] # call[c].name \/ ActivePath \in met[c]

Updated(c) ==
    call[c].op = "UpdateLastUsed" /\ pc[c] = "write" =>
       /\ got[c] \in ProfileType
       /\ ProfilePath(cur[c]) \in met[c] \/ file[ProfilePath(cur[c])] = got[c]

Own(c) == Shape(c) /\ History(c) /\ Answers(c) /\ Deleted(c) /\ Updated(c)

IInv == TypeOK /\ Sorted(file) /\ \A c \in Caller : Own(c)

-----------------------------------------------------------------------------
(* Paths and calls                                                          *)

\* Two kinds of files, or two names, have different paths.
LEMMA PathsDiffer ==
    /\ \A m, n : ProfilePath(m) = ProfilePath(n) => m = n
    /\ \A m, n : CredentialPath(m) = CredentialPath(n) => m = n
    /\ \A m, n : ProfilePath(m) # CredentialPath(n)
    /\ \A n : ProfilePath(n) # ActivePath /\ CredentialPath(n) # ActivePath
<1>1. ASSUME NEW m, NEW n
      PROVE  /\ <<"profiles", m>>[2] = m /\ <<"credentials", m>>[2] = m
             /\ <<"profiles", m>>[1] = "profiles" /\ <<"credentials", m>>[1] = "credentials"
             /\ <<"active-profile">>[1] = "active-profile"
  OBVIOUS
<1>2. \A m, n : ProfilePath(m) = ProfilePath(n) => m = n
  BY <1>1 DEF ProfilePath
<1>3. \A m, n : CredentialPath(m) = CredentialPath(n) => m = n
  BY <1>1 DEF CredentialPath
<1>4. \A m, n : ProfilePath(m) # CredentialPath(n)
  BY <1>1 DEF ProfilePath, CredentialPath
<1>5. \A n : ProfilePath(n) # ActivePath /\ CredentialPath(n) # ActivePath
  BY <1>1 DEF ProfilePath, CredentialPath, ActivePath
<1> QED  BY <1>2, <1>3, <1>4, <1>5

LEMMA PathsIn ==
    /\ ActivePath \in Path
    /\ \A n \in Name : ProfilePath(n) \in Path /\ CredentialPath(n) \in Path
BY DEF Path

LEMMA CallFacts ==
    ASSUME NEW k \in Call
    PROVE  /\ k.op \in Ops
           /\ k.name \in Name \cup {Empty, Invalid}
           /\ k.op \in {"SaveCredential", "Delete", "Load", "Exists", "LoadCredential",
                        "UpdateLastUsed"} => k.name \in Name
           /\ k.op = "Save" => k.name # Empty
           /\ k.op \in {"Active", "List"} => k.name = Empty
           /\ k.op = "Save" => k.value \in ProfileType
           /\ k.op = "SaveCredential" => k.value \in Cred
BY ProfileAssumption DEF Call, Request, Ops, ProfileType

\* A call that goes on with an operation on one profile has a valid name for it.
LEMMA NameFacts ==
    ASSUME NEW k \in Call, Accepted(k)
    PROVE  k.op \notin {"SetActive", "Active", "List"} => k.name \in Name
BY CallFacts, ProfileAssumption DEF Accepted, ValidateName, Ops

LEMMA WatchedIn ==
    ASSUME NEW k \in Call \cup {NoCall}
    PROVE  /\ Watched(k) \subseteq Path
           /\ k = NoCall => Watched(k) = {}
           /\ k.op = "List" => Watched(k) = {ProfilePath(n) : n \in Name}
           /\ k.op = "Active" => Watched(k) = {ActivePath}
           /\ k.op = "Delete" => Watched(k) = {ActivePath, ProfilePath(k.name), CredentialPath(k.name)}
           /\ k.op = "LoadCredential" => Watched(k) = {CredentialPath(k.name)}
           /\ k.op \in {"Load", "Exists", "UpdateLastUsed"} => Watched(k) = {ProfilePath(k.name)}
           /\ k.op \in {"Save", "SaveCredential", "SetActive"} => Watched(k) = {}
<1>1. CASE k = NoCall
  BY <1>1 DEF Watched, NoCall
<1>2. CASE k \in Call
  <2>1. Watched(k) \subseteq Path
    BY <1>2, CallFacts, PathsIn DEF Watched, Ops
  <2>2. k # NoCall
    BY <1>2, CallFacts DEF NoCall, Ops
  <2> QED  BY <2>1, <2>2 DEF Watched
<1> QED  BY <1>1, <1>2

Reading(c) == pc[c] \in {"stat", "open"}

\* A read is of a file that the call watches.
LEMMA TargetWatched ==
    ASSUME TypeOK, NEW c \in Caller, Shape(c), Reading(c)
    PROVE  /\ Target(c) \in Watched(call[c]) /\ Target(c) \in Path
           /\ call[c].op \in {"Load", "Exists", "LoadCredential", "UpdateLastUsed", "Delete", "List"} => cur[c] \in Name
           /\ call[c].op \in {"Active", "Delete"} => Target(c) = ActivePath
           /\ call[c].op = "LoadCredential" => Target(c) = CredentialPath(cur[c])
           /\ call[c].op \in {"Load", "Exists", "UpdateLastUsed", "List"} => Target(c) = ProfilePath(cur[c])
<1>1. /\ call[c] \in Call /\ Accepted(call[c])
      /\ call[c].op \notin {"Save", "SaveCredential", "SetActive"}
      /\ call[c].op # "List" => cur[c] = call[c].name
      /\ call[c].op = "List" => cur[c] \in todo[c]
  BY DEF Shape, Reading
<1>2. call[c].op \in {"Delete", "Load", "Exists", "LoadCredential", "UpdateLastUsed", "Active", "List"}
  BY <1>1, CallFacts DEF Ops
<1>3. call[c].op = "List" => cur[c] \in Name
  BY <1>1 DEF TypeOK
<1>4. call[c].op \in {"Load", "Exists", "LoadCredential", "UpdateLastUsed", "Delete"} => cur[c] \in Name
  BY <1>1, CallFacts
<1>5. /\ call[c].op \in {"Active", "Delete"} => Target(c) = ActivePath
      /\ call[c].op = "LoadCredential" => Target(c) = CredentialPath(cur[c])
      /\ call[c].op \in {"Load", "Exists", "UpdateLastUsed", "List"} => Target(c) = ProfilePath(cur[c])
  BY DEF Target
<1>6. Target(c) \in Watched(call[c])
  <2> call[c] \in Call \cup {NoCall}
    BY <1>1
  <2>1. CASE call[c].op = "List"
    BY <1>3, <1>5, <2>1, WatchedIn
  <2>2. CASE call[c].op # "List"
    BY <1>1, <1>2, <1>4, <1>5, <2>2, WatchedIn
  <2> QED  BY <2>1, <2>2
<1>7. Target(c) \in Path
  BY <1>1, <1>6, WatchedIn
<1> QED  BY <1>2, <1>3, <1>4, <1>5, <1>6, <1>7

\* What a read can end with, given what is there.
ReadsAs(c, st, v) ==
    \/ st = "absent" /\ v = NoValue /\ file[Target(c)] = Absent
    \/ st = "ok" /\ v = file[Target(c)] /\ v # Absent
    \/ st = "unsafe" /\ v = NoValue /\ Target(c) \in met[c]
    \/ st = "io" /\ v = NoValue /\ IOErrors

\* And the answer made of it is explained by the histories.
LEMMA ReadExplained ==
    ASSUME TypeOK, Sorted(file), NEW c \in Caller, Shape(c), History(c), Reading(c),
           NEW st, NEW v, ReadsAs(c, st, v),
           call[c].op \in {"Active", "Load", "Exists", "LoadCredential", "List"}
    PROVE  Explained(c, Target(c), Decoded(call[c].op, st, v))
<1> DEFINE a == Decoded(call[c].op, st, v)
           x == file[Target(c)]
<1>1. x \in held[c][Target(c)]
  BY TargetWatched DEF History
<1>2. ASSUME st = "absent", x = Absent, v = NoValue  PROVE a = Answer(call[c].op, x)
  BY <1>2, ProfileAssumption DEF Answer, Decoded, Selected
<1>3. ASSUME st = "ok", v = x, v # Absent  PROVE a = Answer(call[c].op, x)
  <2>1. CASE call[c].op = "Active"
    <3>1. x \in Name \cup {Invalid, Empty}
      BY <1>3, <2>1, TargetWatched DEF Sorted
    <3> QED  BY <1>3, <2>1, <3>1, ProfileAssumption DEF Answer, Decoded, Selected, ValidateName
  <2>2. CASE call[c].op # "Active"
    <3>1. CASE call[c].op \in {"Load", "List"} /\ x = Damaged
      BY <1>3, <2>2, <3>1, ProfileAssumption DEF Answer, Decoded
    <3>2. CASE ~(call[c].op \in {"Load", "List"} /\ x = Damaged)
      BY <1>3, <2>2, <3>2, ProfileAssumption DEF Answer, Decoded
    <3> QED  BY <3>1, <3>2
  <2> QED  BY <2>1, <2>2
<1>4. ASSUME st \in {"unsafe", "io"}, v = NoValue  PROVE a = <<st, NoValue>>
  <2>1. CASE call[c].op = "Active"
    BY <1>4, <2>1 DEF Decoded, Selected
  <2>2. CASE call[c].op # "Active"
    BY <1>4, <2>2, ProfileAssumption DEF Decoded
  <2> QED  BY <2>1, <2>2
<1>5. CASE a = Answer(call[c].op, x)
  BY <1>1, <1>5 DEF Explained
<1>6. CASE a = <<st, NoValue>> /\ st = "unsafe" /\ Target(c) \in met[c]
  <2>1. a[1] = "unsafe"
    BY <1>6
  <2> QED  BY <1>6, <2>1 DEF Explained
<1>7. CASE a = <<st, NoValue>> /\ st = "io" /\ IOErrors
  <2>1. a[1] = "io"
    BY <1>7
  <2> QED  BY <1>7, <2>1 DEF Explained
<1> QED  BY <1>2, <1>3, <1>4, <1>5, <1>6, <1>7 DEF ReadsAs

\* The three ways a read ends are ways of ReadsAs.
LEMMA ReadingStep ==
    ASSUME TypeOK, NEW c \in Caller, Shape(c), History(c), Stat(c) \/ Open(c) \/ ReadFails(c)
    PROVE  /\ Reading(c)
           /\ \/ /\ pc[c] = "stat" /\ file[Target(c)] # Absent /\ Goto(c, "open")
                 /\ UNCHANGED <<file, begun, raced, met, held, locals>>
              \/ \E st \in {"absent", "ok", "unsafe", "io"} : \E v \in Value :
                    ReadsAs(c, st, v) /\ ReadEnds(c, st, v)
<1>1. Reading(c)
  BY DEF Stat, Open, ReadFails, Reading
<1>2. Target(c) \in Path /\ file[Target(c)] \in Content
  BY <1>1, TargetWatched DEF TypeOK
<1>3. raced[c] => Target(c) \in met[c]
  BY DEF History
<1>4. CASE Stat(c)
  BY <1>1, <1>2, <1>4 DEF Stat, ReadsAs, Value
<1>5. CASE Open(c)
  BY <1>1, <1>2, <1>3, <1>5 DEF Open, ReadsAs, Value
<1>6. CASE ReadFails(c)
  BY <1>1, <1>6 DEF ReadFails, ReadsAs, Value
<1> QED  BY <1>1, <1>4, <1>5, <1>6

-----------------------------------------------------------------------------
(* The other callers                                                        *)

LocalsKept(d) ==
    /\ pc'[d] = pc[d] /\ call'[d] = call[d] /\ cur'[d] = cur[d] /\ got'[d] = got[d]
    /\ todo'[d] = todo[d] /\ seen'[d] = seen[d] /\ res'[d] = res[d]

\* What a step of another caller does to the histories of d: they only grow, what is
\* new in a watched file is recorded, and who changed it is blamed.
HistoryGrows(d) ==
    /\ \A p \in Path : held[d][p] \subseteq held'[d][p]
    /\ met[d] \subseteq met'[d]
    /\ \A p \in Watched(call[d]) : /\ file'[p] # file[p] => file'[p] \in held'[d][p]
                                   /\ file'[p] = file[p] \/ p \in met'[d]
    /\ raced'[d] => \/ raced[d]
                    \/ /\ pc[d] = "open"
                       /\ Target(d) \in Watched(call[d]) =>
                             Target(d) \in met'[d] \/ file[Target(d)] = Absent

LEMMA ApplyGrows ==
    ASSUME TypeOK, NEW c \in Caller, NEW d \in Caller, d # c,
           NEW q \in Path, NEW w \in Content, Apply(c, q, w),
           Watched(call[d]) \subseteq Path
    PROVE  HistoryGrows(d)
<1> USE DEF Apply, TypeOK
<1>1. \A p \in Path : file'[p] = IF p = q THEN w ELSE file[p]
  OBVIOUS
<1>2. met'[d] = IF q \in Watched(call[d]) /\ <<w, file[q]>> # <<Absent, Absent>>
                THEN met[d] \cup {q} ELSE met[d]
  OBVIOUS
<1>3. held'[d] = IF q \in Watched(call[d]) THEN [held[d] EXCEPT ![q] = @ \cup {w}] ELSE held[d]
  OBVIOUS
<1>4. held[d] \in [Path -> SUBSET Content]
  OBVIOUS
<1>5. \A p \in Path : held[d][p] \subseteq held'[d][p]
  BY <1>3, <1>4
<1>6. met[d] \subseteq met'[d]
  BY <1>2
<1>7. ASSUME q \in Watched(call[d]), w # file[q]  PROVE w \in held'[d][q] /\ q \in met'[d]
  <2>1. w \in held'[d][q]
    BY <1>3, <1>4, <1>7
  <2>2. <<w, file[q]>> # <<Absent, Absent>>
    BY <1>7
  <2> QED  BY <1>2, <1>7, <2>1, <2>2
<1>8. ASSUME raced'[d], ~raced[d]
      PROVE  /\ pc[d] = "open"
             /\ Target(d) \in Watched(call[d]) => Target(d) \in met'[d] \/ file[Target(d)] = Absent
  <2>1. pc[d] = "open" /\ Target(d) = q
    BY <1>8
  <2>2. ASSUME file[q] # Absent  PROVE <<w, file[q]>> # <<Absent, Absent>>
    BY <2>2
  <2> QED  BY <1>2, <2>1, <2>2
<1> QED  BY <1>1, <1>5, <1>6, <1>7, <1>8 DEF HistoryGrows

\* What a step writes, and where: the path takes what is written there.
Fits(q, w) ==
    \/ \E n \in Name : \/ q = ProfilePath(n) /\ w \in ProfileType \cup {Absent}
                       \/ q = CredentialPath(n) /\ w \in Cred \cup {Absent}
    \/ q = ActivePath /\ w \in Name \cup {Empty}

LEMMA FitsSorted ==
    ASSUME TypeOK, Sorted(file), NEW q, NEW w, Fits(q, w), file' = [file EXCEPT ![q] = w]
    PROVE  q \in Path /\ w \in Content /\ Sorted(file') /\ file' \in [Path -> Content]
<1>1. q \in Path /\ w \in Content
  BY PathsIn DEF Fits, Content
<1>2. file' \in [Path -> Content] /\ \A p \in Path : file'[p] = IF p = q THEN w ELSE file[p]
  BY <1>1 DEF TypeOK
<1>3. ASSUME NEW n \in Name
      PROVE  /\ file'[ProfilePath(n)] \in ProfileType \cup {Damaged, Absent}
             /\ file'[CredentialPath(n)] \in Cred \cup {Absent}
  BY <1>2, PathsIn, PathsDiffer DEF Fits, Sorted
<1>4. file'[ActivePath] \in Name \cup {Invalid, Empty, Absent}
  BY <1>2, PathsIn, PathsDiffer DEF Fits, Sorted
<1> QED  BY <1>1, <1>2, <1>3, <1>4 DEF Sorted

LEMMA WriteFits ==
    ASSUME TypeOK, NEW c \in Caller, Shape(c), Updated(c), pc[c] = "write"
    PROVE  Fits(WritePath(c), Written(c))
<1>1. /\ call[c] \in Call /\ Accepted(call[c]) /\ cur[c] = call[c].name
      /\ call[c].op \in {"Save", "SaveCredential", "SetActive", "UpdateLastUsed", "Delete"}
  BY DEF Shape
<1>2. call[c].op \in {"Save", "SaveCredential", "UpdateLastUsed", "Delete"} => cur[c] \in Name
  BY <1>1, NameFacts
<1>3. CASE call[c].op = "Save"
  BY <1>1, <1>2, <1>3, CallFacts DEF Fits, WritePath, Written
<1>4. CASE call[c].op = "SaveCredential"
  BY <1>1, <1>2, <1>4, CallFacts DEF Fits, WritePath, Written
<1>5. CASE call[c].op = "SetActive"
  BY <1>1, <1>5 DEF Fits, WritePath, Written, Accepted, ValidateName
<1>6. CASE call[c].op = "UpdateLastUsed"
  <2>1. [got[c] EXCEPT !.used = "now"] \in ProfileType
    BY <1>6 DEF Updated, ProfileType
  <2> QED  BY <1>2, <1>6, <2>1 DEF Fits, WritePath, Written
<1>7. CASE call[c].op = "Delete"
  BY <1>7 DEF Fits, WritePath, Written
<1> QED  BY <1>1, <1>3, <1>4, <1>5, <1>6, <1>7

\* A step changes no file, or one, as Apply says; and no other caller.
LEMMA Changes ==
    ASSUME TypeOK, NEW c \in Caller, Shape(c), Updated(c), Step(c)
    PROVE  /\ \/ /\ file' = file
                 /\ \A d \in Caller : d # c => raced'[d] = raced[d] /\ met'[d] = met[d] /\ held'[d] = held[d]
              \/ \E q \in Path : \E w \in Content : Apply(c, q, w) /\ Fits(q, w)
           /\ \A d \in Caller : d # c => LocalsKept(d)
<1> DEFINE Quiet == /\ file' = file
                    /\ \A d \in Caller : d # c => raced'[d] = raced[d] /\ met'[d] = met[d] /\ held'[d] = held[d]
           Alone == \A d \in Caller : d # c => LocalsKept(d)
<1> USE DEF TypeOK, LocalsKept, Goto, Finish, locals
<1>1. CASE Begin(c)
  <2>1. PICK k \in Calls :
           /\ call' = [call EXCEPT ![c] = k] /\ cur' = [cur EXCEPT ![c] = k.name]
           /\ \E l \in PC : Goto(c, l)
           /\ \/ UNCHANGED res
              \/ res' = [res EXCEPT ![c] = <<"invalid", NoValue>>]
    BY <1>1 DEF Begin, PC, First
  <2>2. Quiet
    BY <1>1 DEF Begin
  <2>3. Alone
    BY <1>1, <2>1 DEF Begin
  <2> QED  BY <2>2, <2>3
<1>0. ASSUME NEW left, NextEntry(c, left)
      PROVE  \A d \in Caller : d # c => /\ pc'[d] = pc[d] /\ cur'[d] = cur[d] /\ todo'[d] = todo[d]
                                        /\ res'[d] = res[d]
  BY <1>0 DEF NextEntry
<1>2. ASSUME NEW st, NEW v, ReadEnds(c, st, v)  PROVE Quiet /\ Alone
  <2>1. CASE call[c].op = "List"
    BY <1>0, <1>2, <2>1 DEF ReadEnds, ListRead
  <2>2. CASE call[c].op # "List"
    BY <1>2, <2>2 DEF ReadEnds, SingleRead
  <2> QED  BY <2>1, <2>2
<1>3. CASE Stat(c)
  <2>1. CASE \E st, v : ReadEnds(c, st, v)
    BY <1>2, <2>1
  <2>2. CASE ~ \E st, v : ReadEnds(c, st, v)
    BY <1>3, <2>2 DEF Stat
  <2> QED  BY <2>1, <2>2
<1>4. CASE Open(c)
  BY <1>2, <1>4 DEF Open
<1>5. CASE ReadFails(c)
  BY <1>2, <1>5 DEF ReadFails
<1>6. CASE ReadDir(c)
  BY <1>0, <1>6 DEF ReadDir
<1>7. ASSUME pc[c] \in {"rmprofile", "rmcredential"}  PROVE cur[c] \in Name
  <2>1. cur[c] = call[c].name /\ call[c] \in Call /\ call[c].op = "Delete"
    BY <1>7 DEF Shape
  <2> QED  BY <2>1, CallFacts
<1>8. CASE RemoveProfile(c)
  <2>1. Fits(ProfilePath(cur[c]), Absent) /\ ProfilePath(cur[c]) \in Path /\ Absent \in Content
    BY <1>7, <1>8, PathsIn DEF Fits, RemoveProfile, Content
  <2>2. Alone
    BY <1>8 DEF RemoveProfile, AfterProfile
  <2> QED  BY <1>8, <2>1, <2>2 DEF RemoveProfile
<1>9. CASE RemoveCredential(c)
  <2>1. Fits(CredentialPath(cur[c]), Absent) /\ CredentialPath(cur[c]) \in Path /\ Absent \in Content
    BY <1>7, <1>9, PathsIn DEF Fits, RemoveCredential, Content
  <2>2. Alone
    BY <1>9 DEF RemoveCredential
  <2> QED  BY <1>9, <2>1, <2>2 DEF RemoveCredential
<1>10. CASE Write(c)
  <2>1. Fits(WritePath(c), Written(c)) /\ WritePath(c) \in Path /\ Written(c) \in Content
    BY <1>10, WriteFits, PathsIn DEF Write, Fits, Content
  <2>2. Alone
    BY <1>10 DEF Write
  <2> QED  BY <1>10, <2>1, <2>2 DEF Write
<1>11. CASE ChangeFails(c)
  BY <1>11 DEF ChangeFails
<1>12. CASE Leave(c)
  BY <1>12 DEF Leave
<1> QED  BY <1>1, <1>3, <1>4, <1>5, <1>6, <1>8, <1>9, <1>10, <1>11, <1>12 DEF Step

\* The other callers keep their part of the invariant.
LEMMA OtherKeeps ==
    ASSUME IInv, NEW c \in Caller, Step(c), NEW d \in Caller, d # c
    PROVE  Own(d)'
<1> USE DEF IInv, Own
<1>1. LocalsKept(d)
  BY Changes
<1>2. call[d] \in Call \cup {NoCall} /\ Watched(call[d]) \subseteq Path
  BY WatchedIn DEF TypeOK
<1>3. HistoryGrows(d)
  <2>1. CASE \E q \in Path : \E w \in Content : Apply(c, q, w)
    BY <1>2, <2>1, ApplyGrows
  <2>2. CASE file' = file /\ raced'[d] = raced[d] /\ met'[d] = met[d] /\ held'[d] = held[d]
    BY <2>2 DEF HistoryGrows
  <2> QED  BY <2>1, <2>2, Changes
<1>4. Target(d)' = Target(d) /\ Succeeded(d)' = Succeeded(d)
  BY <1>1 DEF LocalsKept, Target, Succeeded
<1>5. Shape(d)'
  BY <1>1 DEF Shape, LocalsKept
<1>6. Reading(d) => Target(d) \in Watched(call[d]) /\ Target(d) \in Path
  BY TargetWatched
<1>7. History(d)'
  <2>1. \A p \in Watched(call[d]) : file'[p] \in held'[d][p]
    BY <1>2, <1>3 DEF HistoryGrows, History
  <2>2. pc[d] = "open" => file'[Target(d)] # Absent \/ Target(d) \in met'[d]
    BY <1>3, <1>6 DEF HistoryGrows, History, Reading
  <2>3. raced'[d] => pc[d] = "open" /\ Target(d) \in met'[d]
    BY <1>3, <1>6 DEF HistoryGrows, History, Reading
  <2> QED  BY <1>1, <1>4, <2>1, <2>2, <2>3 DEF LocalsKept, History
<1>8. ASSUME NEW p \in Path, NEW a, Explained(d, p, a)  PROVE Explained(d, p, a)'
  BY <1>1, <1>3, <1>8 DEF Explained, LocalsKept, HistoryGrows
<1>9. Answers(d)'
  <2>1. ASSUME pc[d] = "done", call[d].op \in {"Active", "Load", "Exists", "LoadCredential"}
        PROVE  Explained(d, Target(d), res[d])'
    <3>1. call[d] \in Call /\ cur[d] = call[d].name /\ Target(d) \in Path
      <4>1. call[d] \in Call /\ cur[d] = call[d].name
        BY <2>1 DEF Shape
      <4> QED  BY <2>1, <4>1, CallFacts, PathsIn DEF Target
    <3>2. Explained(d, Target(d), res[d])
      BY <2>1 DEF Answers
    <3> QED  BY <1>1, <1>4, <1>8, <3>1, <3>2 DEF LocalsKept
  <2>2. ASSUME call[d].op = "List", NEW s \in seen[d]
        PROVE  Explained(d, ProfilePath(s[1]), <<s[2], s[3]>>)'
    <3>1. Explained(d, ProfilePath(s[1]), <<s[2], s[3]>>)
      BY <2>2 DEF Answers
    <3>2. s[1] \in Name
      BY DEF TypeOK
    <3> QED  BY <1>8, <3>1, <3>2, PathsIn
  <2>3. ASSUME call[d].op = "List", pc[d] \in {"stat", "open"} \/ Succeeded(d), NEW n \in Name
        PROVE  \/ \E s \in seen[d] : s[1] = n
               \/ Absent \in held'[d][ProfilePath(n)]
               \/ pc[d] # "done" /\ n \in todo[d]
    <3>1. held[d][ProfilePath(n)] \subseteq held'[d][ProfilePath(n)]
      BY <1>3, PathsIn DEF HistoryGrows
    <3> QED  BY <2>3, <3>1 DEF Answers
  <2> QED  BY <1>1, <1>4, <2>1, <2>2, <2>3 DEF LocalsKept, Answers
<1>10. ASSUME NEW p \in Watched(call[d]), Gone(d, p)
       PROVE  Absent \in held'[d][p] /\ (file'[p] = Absent \/ p \in met'[d])
  BY <1>2, <1>3, <1>10 DEF Gone, HistoryGrows
<1>11. Deleted(d)'
  <2> SUFFICES ASSUME call[d].op = "Delete"  PROVE Deleted(d)'
    BY <1>1 DEF Deleted, LocalsKept
  <2>1. Watched(call[d]) = {ActivePath, ProfilePath(call[d].name), CredentialPath(call[d].name)}
    BY <1>2, WatchedIn
  <2>2. ActivePath \in met'[d] \/ (file'[ActivePath] = file[ActivePath] /\ ActivePath \notin met[d])
    <3>1. ActivePath \in Watched(call[d])
      BY <2>1
    <3> QED  BY <1>3, <3>1 DEF HistoryGrows
  <2>3. pc[d] \in {"rmcredential", "write"} \/ Succeeded(d) => Gone(d, ProfilePath(call[d].name))'
    <3>1. ProfilePath(call[d].name) \in Watched(call[d])
      BY <2>1
    <3>2. ASSUME Gone(d, ProfilePath(call[d].name))  PROVE Gone(d, ProfilePath(call[d].name))'
      <4> DEFINE p == ProfilePath(call[d].name)
      <4>1. Absent \in held'[d][p] /\ (file'[p] = Absent \/ p \in met'[d])
        BY <1>10, <3>1, <3>2
      <4> QED  BY <1>1, <4>1 DEF Gone, LocalsKept
    <3> QED  BY <3>2 DEF Deleted
  <2>4. pc[d] = "write" \/ Succeeded(d) => Gone(d, CredentialPath(call[d].name))'
    <3>1. CredentialPath(call[d].name) \in Watched(call[d])
      BY <2>1
    <3>2. ASSUME Gone(d, CredentialPath(call[d].name))  PROVE Gone(d, CredentialPath(call[d].name))'
      <4> DEFINE p == CredentialPath(call[d].name)
      <4>1. Absent \in held'[d][p] /\ (file'[p] = Absent \/ p \in met'[d])
        BY <1>10, <3>1, <3>2
      <4> QED  BY <1>1, <4>1 DEF Gone, LocalsKept
    <3> QED  BY <3>2 DEF Deleted
  <2>5. pc[d] \in {"rmprofile", "rmcredential", "write"} => Chosen(d)'
    BY <1>1, <2>2 DEF Deleted, Chosen, LocalsKept
  <2>6. Succeeded(d) => file'[ActivePath] # call[d].name \/ ActivePath \in met'[d]
    BY <2>2 DEF Deleted
  <2> QED  BY <1>1, <1>4, <2>3, <2>4, <2>5, <2>6 DEF Deleted, LocalsKept
<1>12. Updated(d)'
  <2> SUFFICES ASSUME call[d].op = "UpdateLastUsed", pc[d] = "write"  PROVE Updated(d)'
    BY <1>1 DEF Updated, LocalsKept
  <2>1. cur[d] = call[d].name
    BY DEF Shape
  <2>2. ProfilePath(cur[d]) \in Watched(call[d])
    BY <1>2, <2>1, WatchedIn
  <2>3. /\ got[d] \in ProfileType
        /\ ProfilePath(cur[d]) \in met[d] \/ file[ProfilePath(cur[d])] = got[d]
    BY DEF Updated
  <2>4. ProfilePath(cur[d]) \in met'[d] \/ file'[ProfilePath(cur[d])] = got[d]
    BY <1>3, <2>2, <2>3 DEF HistoryGrows
  <2> QED  BY <1>1, <2>3, <2>4 DEF Updated, LocalsKept
<1> QED  BY <1>5, <1>7, <1>9, <1>11, <1>12

-----------------------------------------------------------------------------
(* The caller that acts                                                     *)

\* Its own change is in its history as well, and it does not blame itself.
LEMMA ApplyOwn ==
    ASSUME TypeOK, NEW c \in Caller, History(c), Watched(call[c]) \subseteq Path,
           NEW q \in Path, NEW w \in Content, Apply(c, q, w)
    PROVE  /\ file' \in [Path -> Content] /\ raced' \in [Caller -> BOOLEAN]
           /\ met' \in [Caller -> SUBSET Path] /\ held' \in [Caller -> [Path -> SUBSET Content]]
           /\ met'[c] = met[c]
           /\ \A p \in Path : file'[p] = IF p = q THEN w ELSE file[p]
           /\ \A p \in Watched(call[c]) : file'[p] \in held'[c][p] /\ held[c][p] \subseteq held'[c][p]
           /\ raced'[c] => raced[c] \/ pc[c] = "open"
<1> USE DEF Apply, TypeOK
<1>1. file' \in [Path -> Content] /\ raced' \in [Caller -> BOOLEAN] /\ met' \in [Caller -> SUBSET Path]
  OBVIOUS
<1>2. held' \in [Caller -> [Path -> SUBSET Content]]
  <2>1. ASSUME NEW d \in Caller
        PROVE  (IF q \in Watched(call[d]) THEN [held[d] EXCEPT ![q] = @ \cup {w}] ELSE held[d])
                  \in [Path -> SUBSET Content]
    <3>1. held[d] \in [Path -> SUBSET Content] /\ held[d][q] \cup {w} \in SUBSET Content
      OBVIOUS
    <3> QED  BY <3>1
  <2> QED  BY <2>1
<1>3. met'[c] = met[c] /\ (raced'[c] => raced[c] \/ pc[c] = "open")
  OBVIOUS
<1>4. \A p \in Path : file'[p] = IF p = q THEN w ELSE file[p]
  OBVIOUS
<1>5. ASSUME NEW p \in Watched(call[c])
      PROVE  file'[p] \in held'[c][p] /\ held[c][p] \subseteq held'[c][p]
  <2>1. held'[c] = IF q \in Watched(call[c]) THEN [held[c] EXCEPT ![q] = @ \cup {w}] ELSE held[c]
    OBVIOUS
  <2>2. held[c] \in [Path -> SUBSET Content] /\ p \in Path /\ file[p] \in held[c][p]
    BY DEF History
  <2>3. CASE p = q
    BY <1>4, <2>1, <2>2, <2>3
  <2>4. CASE p # q
    BY <1>4, <2>1, <2>2, <2>4
  <2> QED  BY <2>3, <2>4
<1> QED  BY <1>1, <1>2, <1>3, <1>4, <1>5

LEMMA BeginStep ==
    ASSUME IInv, NEW c \in Caller, Begin(c)
    PROVE  TypeOK' /\ Own(c)'
<1> USE ProfileAssumption DEF IInv, Own
<1>1. PICK k \in Calls :
         /\ call' = [call EXCEPT ![c] = k] /\ cur' = [cur EXCEPT ![c] = k.name]
         /\ Accepted(k) => pc' = [pc EXCEPT ![c] = First(k.op)] /\ UNCHANGED res
         /\ ~Accepted(k) => /\ pc' = [pc EXCEPT ![c] = "done"]
                            /\ res' = [res EXCEPT ![c] = <<"invalid", NoValue>>]
  BY DEF Begin, Goto, Finish
<1>2. /\ k \in Call /\ k.op \in Ops /\ k.name \in Name \cup {Empty, Invalid}
      /\ First(k.op) \in {"write", "readdir", "stat"}
  BY CallFacts DEF First
<1>3. /\ call'[c] = k /\ cur'[c] = k.name /\ raced'[c] = raced[c] /\ met'[c] = met[c]
      /\ got'[c] = got[c] /\ seen'[c] = seen[c] /\ todo'[c] = todo[c] /\ file' = file
      /\ held' = [held EXCEPT ![c] = [p \in Path |-> IF p \in Watched(k) THEN {file[p]} ELSE {}]]
  BY <1>1 DEF Begin, TypeOK
<1>4. \/ Accepted(k) /\ pc'[c] = First(k.op)
      \/ ~Accepted(k) /\ pc'[c] = "done" /\ res'[c] = <<"invalid", NoValue>>
  BY <1>1 DEF TypeOK
<1>5. TypeOK'
  <2>1. [p \in Path |-> IF p \in Watched(k) THEN {file[p]} ELSE {}] \in [Path -> SUBSET Content]
    BY DEF TypeOK
  <2>2. held' \in [Caller -> [Path -> SUBSET Content]]
    BY <1>3, <2>1 DEF TypeOK
  <2>3. pc' \in [Caller -> PC]
    BY <1>1, <1>2 DEF TypeOK, PC
  <2>4. res' \in [Caller -> Status \X Value]
    <3>1. <<"invalid", NoValue>> \in Status \X Value
      BY DEF Status, Value
    <3> QED  BY <1>1, <3>1 DEF TypeOK
  <2>5. call' \in [Caller -> Call \cup {NoCall}] /\ cur' \in [Caller -> Name \cup {Empty, Invalid}]
    BY <1>1, <1>2 DEF TypeOK
  <2>6. begun' \in 0 .. MaxCalls
    BY DEF TypeOK, Begin
  <2> QED  BY <2>2, <2>3, <2>4, <2>5, <2>6 DEF TypeOK, Begin
<1>6. Shape(c)'
  <2>0. seen[c] = {}
    BY DEF Begin, Shape
  <2> QED  BY <1>2, <1>3, <1>4, <2>0, CallFacts DEF Shape, First, Ops
<1>7. History(c)'
  <2>1. Watched(k) \subseteq Path
    BY <1>2, WatchedIn
  <2>2. \A p \in Watched(k) : file[p] \in held'[c][p]
    BY <1>3, <2>1 DEF TypeOK
  <2>3. pc'[c] # "open" /\ raced'[c] = FALSE
    BY <1>2, <1>3, <1>4 DEF History, TypeOK, Begin
  <2> QED  BY <1>3, <2>2, <2>3 DEF History
<1>8. Answers(c)'
  <2>0. seen'[c] = {}
    BY <1>3 DEF Begin, Shape
  <2>1. k.op = "List" => k.name = Empty /\ pc'[c] = "readdir"
    BY <1>2, <1>4, CallFacts DEF Accepted, First
  <2>2. pc'[c] = "done" => k.op \notin {"Active", "Load", "Exists", "LoadCredential"}
    BY <1>2, <1>4, CallFacts DEF Accepted, ValidateName, First
  <2>3. ~Succeeded(c)'
    <3>1. <<"invalid", NoValue>>[1] # "ok"
      OBVIOUS
    <3> QED  BY <1>2, <1>4, <3>1 DEF Succeeded
  <2> QED  BY <1>3, <2>0, <2>1, <2>2, <2>3 DEF Answers
<1>9. Deleted(c)' /\ Updated(c)'
  <2>1. ~Succeeded(c)'
    <3>1. <<"invalid", NoValue>>[1] # "ok"
      OBVIOUS
    <3> QED  BY <1>2, <1>4, <3>1 DEF Succeeded
  <2>2. k.op \in {"Delete", "UpdateLastUsed"} => pc'[c] \in {"stat", "done"}
    BY <1>4 DEF First
  <2> QED  BY <1>3, <2>1, <2>2 DEF Deleted, Updated
<1> QED  BY <1>5, <1>6, <1>7, <1>8, <1>9

\* List goes on with an entry that is left, or has loaded them all.
LEMMA NextEntryStep ==
    ASSUME TypeOK, NEW c \in Caller, NEW left \in SUBSET Name, NextEntry(c, left)
    PROVE  /\ pc' \in [Caller -> PC] /\ todo' \in [Caller -> SUBSET Name]
           /\ cur' \in [Caller -> Name \cup {Empty, Invalid}] /\ res' \in [Caller -> Status \X Value]
           /\ todo'[c] = left
           /\ left = {} => pc'[c] = "done"
           /\ left # {} => pc'[c] = "stat" /\ cur'[c] \in left
<1>1. CASE left = {}
  <2>1. <<"ok", NoValue>> \in Status \X Value
    BY DEF Status, Value
  <2> QED  BY <1>1, <2>1 DEF NextEntry, Finish, Goto, TypeOK, PC
<1>2. CASE left # {}
  BY <1>2 DEF NextEntry, Finish, Goto, TypeOK, PC
<1> QED  BY <1>1, <1>2

\* Of a well-typed read, what it means is well-typed.
LEMMA DecodedTyped ==
    ASSUME NEW op, NEW st \in Status, NEW v \in Value
    PROVE  Decoded(op, st, v) \in Status \X Value
<1>1. Selected(st, v) \in Status \X Value
  BY ProfileAssumption DEF Selected, Status, Value, Content, ValidateName
<1>2. <<"invalid", NoValue>> \in Status \X Value /\ <<st, v>> \in Status \X Value
  BY DEF Status, Value
<1> QED  BY <1>1, <1>2 DEF Decoded

LEMMA ListReadStep ==
    ASSUME IInv, NEW c \in Caller, Reading(c), call[c].op = "List",
           NEW st \in {"absent", "ok", "unsafe", "io"}, NEW v \in Value,
           ReadsAs(c, st, v), ReadEnds(c, st, v)
    PROVE  TypeOK' /\ Own(c)'
<1> USE DEF IInv, Own
<1> DEFINE r == Decoded("List", st, v)
           left == todo[c] \ {cur[c]}
<1>1. /\ seen' = [seen EXCEPT ![c] = @ \cup {<<cur[c], r[1], r[2]>>}] /\ NextEntry(c, left)
      /\ raced' = [raced EXCEPT ![c] = FALSE] /\ UNCHANGED <<file, begun, call, met, held, got>>
  BY DEF ReadEnds, ListRead
<1>2. left \in SUBSET Name /\ cur[c] \in Name /\ Target(c) = ProfilePath(cur[c])
  BY TargetWatched DEF TypeOK
<1>3. r \in Status \X Value
  BY DecodedTyped DEF Status
<1> HIDE DEF r
<1>4. seen'[c] = seen[c] \cup {<<cur[c], r[1], r[2]>>}
  BY <1>1 DEF TypeOK
<1>5. TypeOK'
  <2>1. seen' \in [Caller -> SUBSET (Name \X Status \X Value)]
    <3>1. <<cur[c], r[1], r[2]>> \in Name \X Status \X Value
      BY <1>2, <1>3
    <3> QED  BY <1>1, <3>1 DEF TypeOK
  <2>2. raced' \in [Caller -> BOOLEAN]
    BY <1>1 DEF TypeOK
  <2> QED  BY <1>1, <1>2, <2>1, <2>2, NextEntryStep DEF TypeOK
<1>6. /\ todo'[c] = left /\ raced'[c] = FALSE
      /\ left = {} => pc'[c] = "done"
      /\ left # {} => pc'[c] = "stat" /\ cur'[c] \in left
  <2>1. raced'[c] = FALSE
    BY <1>1 DEF TypeOK
  <2>2. TypeOK /\ left \in SUBSET Name /\ NextEntry(c, left)
    BY <1>1, <1>2
  <2> HIDE DEF left, IInv, Own
  <2> QED  BY <2>1, <2>2, NextEntryStep
<1>7. Shape(c)'
  BY <1>1, <1>6 DEF Shape, Reading
<1>8. History(c)'
  BY <1>1, <1>6 DEF History
<1>9. Explained(c, ProfilePath(cur[c]), <<r[1], r[2]>>)
  <2>1. r = <<r[1], r[2]>>
    BY <1>3
  <2> QED  BY <1>2, <2>1, ReadExplained DEF r
<1>10. Answers(c)'
  <2>1. ASSUME NEW s \in seen'[c]  PROVE Explained(c, ProfilePath(s[1]), <<s[2], s[3]>>)
    <3>1. CASE s \in seen[c]
      BY <3>1 DEF Answers
    <3>2. CASE s = <<cur[c], r[1], r[2]>>
      <4>1. s[1] = cur[c] /\ s[2] = r[1] /\ s[3] = r[2]
        BY <3>2
      <4> QED  BY <1>9, <4>1
    <3> QED  BY <1>4, <3>1, <3>2
  <2>2. ASSUME NEW n \in Name
        PROVE  \/ \E s \in seen'[c] : s[1] = n
               \/ Absent \in held[c][ProfilePath(n)]
               \/ n \in left
    <3>1. CASE n = cur[c]
      <4>1. <<cur[c], r[1], r[2]>>[1] = cur[c]
        OBVIOUS
      <4> QED  BY <1>4, <3>1, <4>1
    <3>2. CASE n # cur[c]
      BY <1>4, <3>2 DEF Answers, Reading
    <3> QED  BY <3>1, <3>2
  <2>3. ASSUME NEW p, NEW a, Explained(c, p, a)  PROVE Explained(c, p, a)'
    BY <1>1, <2>3 DEF Explained
  <2> QED  BY <1>1, <1>6, <2>1, <2>2, <2>3 DEF Answers
<1>11. Deleted(c)' /\ Updated(c)'
  BY <1>1 DEF Deleted, Updated
<1> QED  BY <1>5, <1>7, <1>8, <1>10, <1>11

LEMMA SingleReadStep ==
    ASSUME IInv, NEW c \in Caller, Reading(c), call[c].op # "List",
           NEW st \in {"absent", "ok", "unsafe", "io"}, NEW v \in Value,
           ReadsAs(c, st, v), ReadEnds(c, st, v)
    PROVE  TypeOK' /\ Own(c)'
<1> USE DEF IInv, Own
<1> DEFINE r == Decoded(call[c].op, st, v)
           goes == call[c].op \in {"UpdateLastUsed", "Delete"} /\ r[1] = "ok"
           next == IF call[c].op = "Delete" THEN "rmprofile" ELSE "write"
<1>1. r \in Status \X Value
  BY DecodedTyped DEF Status
<1>2. r = <<r[1], r[2]>>
  BY <1>1
<1>3. /\ raced' = [raced EXCEPT ![c] = FALSE]
      /\ UNCHANGED <<file, begun, call, met, held, cur, todo, seen>>
      /\ \/ goes /\ got' = [got EXCEPT ![c] = r[2]] /\ pc' = [pc EXCEPT ![c] = next] /\ res' = res
         \/ ~goes /\ pc' = [pc EXCEPT ![c] = "done"] /\ res' = [res EXCEPT ![c] = r] /\ got' = got
  BY <1>2 DEF ReadEnds, SingleRead, Goto, Finish
<1>4. /\ call[c] \in Call /\ cur[c] = call[c].name
      /\ call[c].op \in {"Active", "Load", "Exists", "LoadCredential", "Delete", "UpdateLastUsed"}
  BY CallFacts DEF Shape, Reading, Ops
<1>5. TypeOK'
  <2> HIDE DEF r
  <2>1. raced' \in [Caller -> BOOLEAN] /\ pc' \in [Caller -> PC]
    BY <1>3 DEF TypeOK, PC
  <2>2. got' \in [Caller -> Value] /\ res' \in [Caller -> Status \X Value]
    BY <1>1, <1>3 DEF TypeOK
  <2> QED  BY <1>3, <2>1, <2>2 DEF TypeOK
<1>6. /\ raced'[c] = FALSE
      /\ \/ goes /\ got'[c] = r[2] /\ pc'[c] = next
         \/ ~goes /\ pc'[c] = "done" /\ res'[c] = r
  BY <1>3 DEF TypeOK
<1>7. Shape(c)'
  BY <1>3, <1>4, <1>6 DEF Shape, Reading
<1>8. History(c)'
  BY <1>3, <1>6 DEF History
<1>9. ASSUME NEW p, NEW a, Explained(c, p, a)  PROVE Explained(c, p, a)'
  BY <1>3, <1>9 DEF Explained
<1>10. Answers(c)'
  <2>1. ASSUME call[c].op \in {"Active", "Load", "Exists", "LoadCredential"}
        PROVE  Explained(c, Target(c), res'[c])
    <3>1. res'[c] = r
      BY <1>6, <2>1
    <3>2. Explained(c, Target(c), r)
      BY <2>1, ReadExplained
    <3> QED  BY <3>1, <3>2
  <2>2. Target(c)' = Target(c)
    BY <1>3 DEF Target
  <2>3. ASSUME call[c].op \in {"Active", "Load", "Exists", "LoadCredential"}
        PROVE  Explained(c, Target(c), res[c])'
    BY <1>3, <2>1, <2>2, <2>3 DEF Explained
  <2> HIDE DEF r
  <2> QED  BY <1>3, <1>4, <2>3 DEF Answers
<1>11. Deleted(c)'
  <2> SUFFICES ASSUME call[c].op = "Delete"  PROVE Deleted(c)'
    BY <1>3 DEF Deleted
  <2>1. CASE ~goes
    <3>1. ~Succeeded(c)'
      BY <1>6, <2>1 DEF Succeeded
    <3> QED  BY <1>3, <1>6, <2>1, <3>1 DEF Deleted
  <2>2. CASE goes
    <3>1. pc'[c] = "rmprofile" /\ got'[c] = r[2]
      BY <1>6, <2>2
    <3>2. r = Selected(st, v) /\ Target(c) = ActivePath
      BY TargetWatched DEF Decoded
    <3>3. file[ActivePath] \in Name \cup {Invalid, Empty, Absent}
      BY DEF Sorted
    <3>4. \/ r[2] = Default /\ file[ActivePath] \in {Absent, Empty}
          \/ r[2] \in Name /\ file[ActivePath] = r[2]
      <4>1. <<"invalid", NoValue>>[1] # "ok" /\ <<st, NoValue>>[1] = st
        OBVIOUS
      <4>2. st = "absent" \/ (st = "ok" /\ v = file[ActivePath] /\ v # Absent) \/ st \in {"unsafe", "io"}
        BY <3>2 DEF ReadsAs
      <4>3. CASE st = "absent"
        BY <3>2, <4>3 DEF Selected, ReadsAs
      <4>4. CASE st = "ok"
        BY <2>2, <3>2, <3>3, <4>1, <4>2, <4>4, ProfileAssumption DEF Selected, ValidateName
      <4>5. CASE st \in {"unsafe", "io"}
        BY <2>2, <3>2, <4>1, <4>5 DEF Selected
      <4> QED  BY <4>2, <4>3, <4>4, <4>5
    <3>5. Chosen(c)'
      BY <1>3, <3>1, <3>4 DEF Chosen
    <3> QED  BY <1>3, <3>1, <3>5 DEF Deleted, Succeeded
  <2> QED  BY <2>1, <2>2
<1>12. Updated(c)'
  <2> SUFFICES ASSUME call[c].op = "UpdateLastUsed", pc'[c] = "write"  PROVE Updated(c)'
    BY <1>3 DEF Updated
  <2>1. r[1] = "ok" /\ got'[c] = r[2]
    BY <1>6
  <2>2. Target(c) = ProfilePath(cur[c]) /\ cur[c] \in Name
    BY TargetWatched
  <2>3. <<"invalid", NoValue>>[1] # "ok" /\ <<st, v>>[1] = st /\ <<st, v>>[2] = v
    OBVIOUS
  <2>4. v # Damaged /\ st = "ok" /\ r[2] = v
    BY <2>1, <2>3 DEF Decoded
  <2>5. v = file[ProfilePath(cur[c])] /\ v # Absent
    BY <2>2, <2>4 DEF ReadsAs
  <2>6. v \in ProfileType
    BY <2>2, <2>4, <2>5 DEF Sorted
  <2> QED  BY <1>3, <2>1, <2>4, <2>5, <2>6 DEF Updated
<1> QED  BY <1>5, <1>7, <1>8, <1>10, <1>11, <1>12

LEMMA ReadStep ==
    ASSUME IInv, NEW c \in Caller, Stat(c) \/ Open(c) \/ ReadFails(c)
    PROVE  TypeOK' /\ Own(c)'
<1> USE DEF IInv, Own
<1>1. Reading(c)
  BY ReadingStep
<1>2. CASE \E st \in {"absent", "ok", "unsafe", "io"} : \E v \in Value : ReadsAs(c, st, v) /\ ReadEnds(c, st, v)
  BY <1>1, <1>2, ListReadStep, SingleReadStep
<1>3. CASE /\ pc[c] = "stat" /\ file[Target(c)] # Absent /\ Goto(c, "open")
           /\ UNCHANGED <<file, begun, raced, met, held, locals>>
  <2>1. pc'[c] = "open" /\ pc' \in [Caller -> PC]
    BY <1>3 DEF Goto, TypeOK, PC
  <2>2. UNCHANGED <<call, cur, got, todo, seen, res>>
    BY <1>3 DEF locals
  <2>3. TypeOK'
    BY <1>3, <2>1, <2>2 DEF TypeOK
  <2>4. Target(c)' = Target(c) /\ ~Succeeded(c)'
    BY <2>1, <2>2 DEF Target, Succeeded
  <2>5. Shape(c)'
    BY <1>3, <2>1, <2>2 DEF Shape
  <2>6. History(c)'
    BY <1>3, <2>1, <2>2, <2>4 DEF History
  <2>7. Answers(c)'
    <3>1. ASSUME NEW p, NEW a, Explained(c, p, a)  PROVE Explained(c, p, a)'
      BY <1>3, <2>2, <3>1 DEF Explained
    <3> QED  BY <1>3, <2>1, <2>2, <2>4, <3>1 DEF Answers
  <2>8. Deleted(c)' /\ Updated(c)'
    BY <1>3, <2>1, <2>2, <2>4 DEF Deleted, Updated
  <2> QED  BY <2>3, <2>5, <2>6, <2>7, <2>8
<1> QED  BY <1>2, <1>3, ReadingStep

LEMMA ReadDirStep ==
    ASSUME IInv, NEW c \in Caller, ReadDir(c)
    PROVE  TypeOK' /\ Own(c)'
<1> USE DEF IInv, Own
<1> DEFINE left == {n \in Name : file[ProfilePath(n)] # Absent}
<1>1. NextEntry(c, left) /\ UNCHANGED <<file, begun, raced, met, held, call, got, seen>>
  BY DEF ReadDir
<1>2. /\ pc' \in [Caller -> PC] /\ todo' \in [Caller -> SUBSET Name]
      /\ cur' \in [Caller -> Name \cup {Empty, Invalid}] /\ res' \in [Caller -> Status \X Value]
      /\ todo'[c] = left
      /\ left = {} => pc'[c] = "done"
      /\ left # {} => pc'[c] = "stat" /\ cur'[c] \in left
  BY <1>1, NextEntryStep
<1>3. pc[c] = "readdir" /\ call[c] \in Call /\ call[c].op = "List" /\ seen[c] = {} /\ ~raced[c]
  BY DEF ReadDir, Shape, History
<1>4. TypeOK'
  BY <1>1, <1>2 DEF TypeOK
<1>5. Shape(c)'
  BY <1>1, <1>2, <1>3 DEF Shape
<1>6. History(c)'
  BY <1>1, <1>2, <1>3 DEF History
<1>7. ASSUME NEW n \in Name  PROVE n \in left \/ Absent \in held[c][ProfilePath(n)]
  <2>1. ProfilePath(n) \in Watched(call[c])
    BY <1>3, WatchedIn
  <2> QED  BY <2>1 DEF History
<1>8. Answers(c)'
  BY <1>1, <1>2, <1>3, <1>7 DEF Answers
<1>9. Deleted(c)' /\ Updated(c)'
  BY <1>1, <1>3 DEF Deleted, Updated
<1> QED  BY <1>4, <1>5, <1>6, <1>8, <1>9

\* What Delete does to the two files leaves the selection alone.
LEMMA RemoveProfileStep ==
    ASSUME IInv, NEW c \in Caller, RemoveProfile(c)
    PROVE  TypeOK' /\ Own(c)'
<1> USE DEF IInv, Own
<1> DEFINE p == ProfilePath(cur[c])
<1>1. /\ pc[c] = "rmprofile" /\ Apply(c, p, Absent) /\ pc' = [pc EXCEPT ![c] = "rmcredential"]
      /\ UNCHANGED <<begun, call, cur, got, todo, seen, res>>
  BY DEF RemoveProfile, AfterProfile, Goto
<1>2. call[c] \in Call /\ call[c].op = "Delete" /\ cur[c] = call[c].name /\ cur[c] \in Name
  BY <1>1, CallFacts DEF Shape
<1>3. Watched(call[c]) = {ActivePath, p, CredentialPath(cur[c])} /\ Watched(call[c]) \subseteq Path
  BY <1>2, WatchedIn
<1>4. p \in Path /\ Absent \in Content /\ p # ActivePath
  BY <1>2, PathsIn, PathsDiffer DEF Content
<1>5. /\ file' \in [Path -> Content] /\ raced' \in [Caller -> BOOLEAN]
      /\ met' \in [Caller -> SUBSET Path] /\ held' \in [Caller -> [Path -> SUBSET Content]]
      /\ met'[c] = met[c]
      /\ \A q \in Path : file'[q] = IF q = p THEN Absent ELSE file[q]
      /\ \A q \in Watched(call[c]) : file'[q] \in held'[c][q] /\ held[c][q] \subseteq held'[c][q]
      /\ raced'[c] => raced[c] \/ pc[c] = "open"
  BY <1>1, <1>3, <1>4, ApplyOwn
<1>6. pc'[c] = "rmcredential" /\ pc' \in [Caller -> PC] /\ ~raced'[c]
  BY <1>1, <1>5 DEF TypeOK, PC, History
<1>7. TypeOK'
  BY <1>1, <1>5, <1>6 DEF TypeOK
<1>8. Shape(c)'
  BY <1>1, <1>2, <1>6 DEF Shape
<1>9. History(c)'
  BY <1>1, <1>5, <1>6 DEF History
<1>10. Answers(c)' /\ Updated(c)'
  BY <1>1, <1>2, <1>6 DEF Answers, Updated
<1>11. Deleted(c)'
  <2>1. Absent \in held'[c][p] /\ file'[p] = Absent
    BY <1>3, <1>4, <1>5
  <2>2. file'[ActivePath] = file[ActivePath]
    BY <1>4, <1>5, PathsIn
  <2>3. Chosen(c)'
    BY <1>1, <1>2, <1>5, <2>2 DEF Deleted, Chosen
  <2> QED  BY <1>1, <1>2, <1>6, <2>1, <2>3 DEF Deleted, Gone, Succeeded
<1> QED  BY <1>7, <1>8, <1>9, <1>10, <1>11

LEMMA RemoveCredentialStep ==
    ASSUME IInv, NEW c \in Caller, RemoveCredential(c)
    PROVE  TypeOK' /\ Own(c)'
<1> USE DEF IInv, Own
<1> DEFINE p == CredentialPath(cur[c])
<1>1. /\ pc[c] = "rmcredential" /\ Apply(c, p, Absent)
      /\ \/ got[c] = call[c].name /\ pc' = [pc EXCEPT ![c] = "write"] /\ res' = res
         \/ /\ got[c] # call[c].name /\ pc' = [pc EXCEPT ![c] = "done"]
            /\ res' = [res EXCEPT ![c] = <<"ok", NoValue>>]
      /\ UNCHANGED <<begun, call, cur, got, todo, seen>>
  BY DEF RemoveCredential, ClearsSelection, Goto, Finish
<1>2. call[c] \in Call /\ call[c].op = "Delete" /\ cur[c] = call[c].name /\ cur[c] \in Name
  BY <1>1, CallFacts DEF Shape
<1>3. Watched(call[c]) = {ActivePath, ProfilePath(cur[c]), p} /\ Watched(call[c]) \subseteq Path
  BY <1>2, WatchedIn
<1>4. p \in Path /\ Absent \in Content /\ p # ActivePath /\ ProfilePath(cur[c]) # p
  BY <1>2, PathsIn, PathsDiffer DEF Content
<1>5. /\ file' \in [Path -> Content] /\ raced' \in [Caller -> BOOLEAN]
      /\ met' \in [Caller -> SUBSET Path] /\ held' \in [Caller -> [Path -> SUBSET Content]]
      /\ met'[c] = met[c]
      /\ \A q \in Path : file'[q] = IF q = p THEN Absent ELSE file[q]
      /\ \A q \in Watched(call[c]) : file'[q] \in held'[c][q] /\ held[c][q] \subseteq held'[c][q]
      /\ raced'[c] => raced[c] \/ pc[c] = "open"
  BY <1>1, <1>3, <1>4, ApplyOwn
<1>6. /\ pc'[c] \in {"write", "done"} /\ pc' \in [Caller -> PC] /\ ~raced'[c]
      /\ pc'[c] = "write" <=> got[c] = call[c].name
  BY <1>1, <1>5 DEF TypeOK, PC, History
<1>7. TypeOK'
  <2>1. <<"ok", NoValue>> \in Status \X Value
    BY DEF Status, Value
  <2>2. res' \in [Caller -> Status \X Value]
    BY <1>1, <2>1 DEF TypeOK
  <2> QED  BY <1>1, <1>5, <1>6, <2>2 DEF TypeOK
<1>8. Shape(c)'
  BY <1>1, <1>2, <1>6 DEF Shape, Accepted
<1>9. History(c)'
  BY <1>1, <1>5, <1>6 DEF History
<1>10. Answers(c)' /\ Updated(c)'
  BY <1>1, <1>2, <1>6 DEF Answers, Updated
<1>11. Deleted(c)'
  <2>1. Absent \in held'[c][p] /\ file'[p] = Absent
    BY <1>3, <1>4, <1>5
  <2>2. file'[ActivePath] = file[ActivePath]
    BY <1>4, <1>5, PathsIn
  <2>3. Chosen(c)
    BY <1>1, <1>2 DEF Deleted
  <2>4. Chosen(c)'
    BY <1>1, <1>5, <2>2, <2>3 DEF Chosen
  <2>5. Gone(c, ProfilePath(cur[c]))
    BY <1>1, <1>2 DEF Deleted
  <2>6. /\ Absent \in held'[c][ProfilePath(cur[c])]
        /\ file'[ProfilePath(cur[c])] = Absent \/ ProfilePath(cur[c]) \in met'[c]
    BY <1>2, <1>3, <1>4, <1>5, <2>5, PathsIn DEF Gone
  <2>7. ASSUME got[c] # call[c].name  PROVE file'[ActivePath] # call[c].name \/ ActivePath \in met'[c]
    BY <1>2, <1>5, <2>2, <2>3, <2>7, ProfileAssumption DEF Chosen
  <2> QED  BY <1>1, <1>2, <1>6, <2>1, <2>4, <2>6, <2>7 DEF Deleted, Gone, Succeeded
<1> QED  BY <1>7, <1>8, <1>9, <1>10, <1>11

LEMMA WriteStep ==
    ASSUME IInv, NEW c \in Caller, Write(c)
    PROVE  TypeOK' /\ Own(c)'
<1> USE DEF IInv, Own
<1>1. /\ pc[c] = "write" /\ Apply(c, WritePath(c), Written(c)) /\ pc' = [pc EXCEPT ![c] = "done"]
      /\ res' = [res EXCEPT ![c] = <<"ok", NoValue>>]
      /\ UNCHANGED <<begun, call, cur, got, todo, seen>>
  BY DEF Write, Goto, Finish
<1>2. /\ call[c] \in Call /\ cur[c] = call[c].name
      /\ call[c].op \in {"Save", "SaveCredential", "SetActive", "UpdateLastUsed", "Delete"}
  BY <1>1 DEF Shape
<1>3. Watched(call[c]) \subseteq Path
  BY <1>2, WatchedIn
<1>4. WritePath(c) \in Path /\ Written(c) \in Content
  BY <1>1, WriteFits, PathsIn DEF Fits, Content
<1>5. /\ file' \in [Path -> Content] /\ raced' \in [Caller -> BOOLEAN]
      /\ met' \in [Caller -> SUBSET Path] /\ held' \in [Caller -> [Path -> SUBSET Content]]
      /\ met'[c] = met[c]
      /\ \A q \in Path : file'[q] = IF q = WritePath(c) THEN Written(c) ELSE file[q]
      /\ \A q \in Watched(call[c]) : file'[q] \in held'[c][q] /\ held[c][q] \subseteq held'[c][q]
      /\ raced'[c] => raced[c] \/ pc[c] = "open"
  BY <1>1, <1>3, <1>4, ApplyOwn
<1>6. pc'[c] = "done" /\ pc' \in [Caller -> PC] /\ ~raced'[c]
  BY <1>1, <1>5 DEF TypeOK, PC, History
<1>7. TypeOK'
  <2>1. <<"ok", NoValue>> \in Status \X Value
    BY DEF Status, Value
  <2> QED  BY <1>1, <1>5, <1>6, <2>1 DEF TypeOK
<1>8. Shape(c)'
  BY <1>1, <1>2, <1>6 DEF Shape
<1>9. History(c)'
  BY <1>1, <1>5, <1>6 DEF History
<1>10. Answers(c)' /\ Updated(c)'
  BY <1>1, <1>2, <1>6 DEF Answers, Updated
<1>11. Deleted(c)'
  <2> SUFFICES ASSUME call[c].op = "Delete"  PROVE Deleted(c)'
    BY <1>1 DEF Deleted
  <2>1. WritePath(c) = ActivePath /\ Written(c) = Empty
    BY DEF WritePath, Written
  <2>2. call[c].name \in Name
    BY <1>2, CallFacts
  <2>3. file'[ActivePath] # call[c].name
    BY <1>5, <2>1, <2>2, PathsIn, ProfileAssumption
  <2>4. Watched(call[c]) = {ActivePath, ProfilePath(call[c].name), CredentialPath(call[c].name)}
    BY <1>2, WatchedIn
  <2>5. ASSUME NEW q \in {ProfilePath(call[c].name), CredentialPath(call[c].name)}, Gone(c, q)
        PROVE  Absent \in held'[c][q] /\ (file'[q] = Absent \/ q \in met'[c])
    BY <1>3, <1>5, <2>1, <2>4, <2>5, PathsDiffer DEF Gone
  <2>6. Gone(c, ProfilePath(call[c].name)) /\ Gone(c, CredentialPath(call[c].name))
    BY <1>1 DEF Deleted
  <2> QED  BY <1>1, <1>6, <2>3, <2>5, <2>6 DEF Deleted, Gone
<1> QED  BY <1>7, <1>8, <1>9, <1>10, <1>11

LEMMA ChangeFailsStep ==
    ASSUME IInv, NEW c \in Caller, ChangeFails(c)
    PROVE  TypeOK' /\ Own(c)'
<1> USE DEF IInv, Own
<1>1. /\ pc[c] \in {"readdir", "rmprofile", "rmcredential", "write"}
      /\ pc' = [pc EXCEPT ![c] = "done"] /\ res' = [res EXCEPT ![c] = <<"io", NoValue>>]
      /\ UNCHANGED <<file, begun, raced, met, held, call, cur, got, todo, seen>>
  BY DEF ChangeFails, Goto, Finish
<1>2. /\ call[c] \in Call
      /\ call[c].op \in {"List", "Save", "SaveCredential", "SetActive", "UpdateLastUsed", "Delete"}
      /\ call[c].op = "List" => seen[c] = {}
  BY <1>1 DEF Shape
<1>3. pc'[c] = "done" /\ pc' \in [Caller -> PC] /\ res'[c] = <<"io", NoValue>>
  BY <1>1 DEF TypeOK, PC
<1>4. ~Succeeded(c)'
  <2>1. <<"io", NoValue>>[1] # "ok"
    OBVIOUS
  <2> QED  BY <1>3, <2>1 DEF Succeeded
<1>5. TypeOK'
  <2>1. <<"io", NoValue>> \in Status \X Value
    BY DEF Status, Value
  <2> QED  BY <1>1, <1>3, <2>1 DEF TypeOK
<1>6. Shape(c)'
  BY <1>1, <1>3 DEF Shape
<1>7. History(c)'
  BY <1>1, <1>3 DEF History
<1>8. Answers(c)'
  BY <1>1, <1>2, <1>3, <1>4 DEF Answers
<1>9. Deleted(c)' /\ Updated(c)'
  BY <1>1, <1>3, <1>4 DEF Deleted, Updated
<1> QED  BY <1>5, <1>6, <1>7, <1>8, <1>9

LEMMA LeaveStep ==
    ASSUME IInv, NEW c \in Caller, Leave(c)
    PROVE  TypeOK' /\ Own(c)'
<1> USE DEF IInv, Own
<1>1. /\ pc'[c] = "idle" /\ call'[c] = NoCall /\ raced'[c] = FALSE /\ seen'[c] = {}
      /\ cur'[c] = Empty /\ file' = file
  BY DEF Leave, Goto, TypeOK
<1>2. TypeOK'
  <2>1. <<"none", NoValue>> \in Status \X Value /\ NoValue \in Value
    BY DEF Status, Value
  <2>2. Nothing \in [Path -> SUBSET Content]
    BY DEF Nothing
  <2>3. pc' \in [Caller -> PC]
    BY DEF Leave, Goto, TypeOK, PC
  <2>4. call' \in [Caller -> Call \cup {NoCall}] /\ cur' \in [Caller -> Name \cup {Empty, Invalid}]
    BY DEF Leave, TypeOK
  <2>5. got' \in [Caller -> Value] /\ res' \in [Caller -> Status \X Value]
    BY <2>1 DEF Leave, TypeOK
  <2>6. held' \in [Caller -> [Path -> SUBSET Content]]
    BY <2>2 DEF Leave, TypeOK
  <2>7. /\ raced' \in [Caller -> BOOLEAN] /\ todo' \in [Caller -> SUBSET Name]
        /\ seen' \in [Caller -> SUBSET (Name \X Status \X Value)] /\ met' \in [Caller -> SUBSET Path]
    BY DEF Leave, TypeOK
  <2> QED  BY <1>1, <2>3, <2>4, <2>5, <2>6, <2>7 DEF Leave, TypeOK
<1>3. NoCall.op = "none" /\ NoCall.name = Empty /\ Watched(NoCall) = {}
  BY WatchedIn DEF NoCall
<1>4. Shape(c)' /\ Answers(c)' /\ Deleted(c)' /\ Updated(c)'
  BY <1>1, <1>3 DEF Shape, Answers, Deleted, Updated, Succeeded
<1>5. History(c)'
  BY <1>1, <1>3 DEF History
<1> QED  BY <1>2, <1>4, <1>5

-----------------------------------------------------------------------------
(* Theorems                                                                 *)

LEMMA InitInv == Init => IInv
<1> SUFFICES ASSUME Init  PROVE IInv
  OBVIOUS
<1>1. TypeOK
  <2>1. <<"none", NoValue>> \in Status \X Value /\ NoValue \in Value
    BY DEF Status, Value
  <2>2. Nothing \in [Path -> SUBSET Content]
    BY DEF Nothing
  <2>3. file \in [Path -> Content] /\ begun \in 0 .. MaxCalls
    BY ProfileAssumption DEF Init
  <2> QED  BY <2>1, <2>2, <2>3 DEF Init, TypeOK, PC
<1>2. Sorted(file)
  BY ProfileAssumption DEF Init, Sorted
<1>3. ASSUME NEW c \in Caller  PROVE Own(c)
  <2>1. NoCall.op = "none" /\ NoCall.name = Empty /\ Watched(NoCall) = {}
    BY WatchedIn DEF NoCall
  <2>2. pc[c] = "idle" /\ call[c] = NoCall /\ raced[c] = FALSE /\ seen[c] = {} /\ cur[c] = Empty
    BY DEF Init
  <2> QED  BY <2>1, <2>2 DEF Own, Shape, History, Answers, Deleted, Updated, Succeeded
<1> QED  BY <1>1, <1>2, <1>3 DEF IInv

LEMMA StepInv ==
    ASSUME IInv, NEW c \in Caller, Step(c)
    PROVE  IInv'
<1>1. TypeOK' /\ Own(c)'
  BY BeginStep, ReadStep, ReadDirStep, RemoveProfileStep, RemoveCredentialStep, WriteStep,
     ChangeFailsStep, LeaveStep DEF Step
<1>2. Sorted(file)'
  <2>1. CASE file' = file
    BY <2>1 DEF IInv, Sorted
  <2>2. CASE \E q \in Path : \E w \in Content : Apply(c, q, w) /\ Fits(q, w)
    <3>1. PICK q \in Path, w \in Content : Apply(c, q, w) /\ Fits(q, w)
      BY <2>2
    <3>2. file' = [file EXCEPT ![q] = w]
      BY <3>1 DEF Apply
    <3> QED  BY <3>1, <3>2, FitsSorted DEF IInv
  <2> QED  BY <2>1, <2>2, Changes DEF IInv, Own
<1>3. \A d \in Caller : Own(d)'
  BY <1>1, OtherKeeps
<1> QED  BY <1>1, <1>2, <1>3 DEF IInv

LEMMA NextInv == IInv /\ [Next]_vars => IInv'
<1> SUFFICES ASSUME IInv, [Next]_vars  PROVE IInv'
  OBVIOUS
<1>1. CASE Next
  BY <1>1, StepInv DEF Next
<1>2. CASE UNCHANGED vars
  BY <1>2 DEF vars, locals, IInv, TypeOK, Sorted, Own, Shape, History, Answers, Deleted, Updated,
              Succeeded, Explained, Gone, Chosen, Target
<1> QED  BY <1>1, <1>2

\* The histories of every call are true, whatever the callers do (profile.go).
THEOREM ProfileInvariant == Spec => []IInv
<1>1. IInv /\ UNCHANGED vars => IInv'
  BY NextInv
<1> QED  BY InitInv, NextInv, PTL DEF Spec

\* Every variable of the callers of Manager keeps its type (profile.go).
THEOREM ProfileTypeCorrect == Spec => []TypeOK
<1>1. IInv => TypeOK
  BY DEF IInv
<1> QED  BY <1>1, ProfileInvariant, PTL

\* Whatever overlaps, a read answers for a moment of the call (profile.go 54-97, 148-168).
THEOREM ReadsAreExplained == Spec => []ReadsExplained
<1>1. IInv => ReadsExplained
  BY DEF IInv, Own, Answers, Succeeded, Returned, ReadsExplained
<1> QED  BY <1>1, ProfileInvariant, PTL

\* A Delete that succeeded has left nothing that another call did not write since
\* (profile.go 120-146).
THEOREM DeletesAreComplete == Spec => []DeleteComplete
<1>1. IInv => DeleteComplete
  BY DEF IInv, Own, Deleted, Gone, Succeeded, Returned, DeleteComplete
<1> QED  BY <1>1, ProfileInvariant, PTL

\* Delete and UpdateLastUsed undo the work of another caller only when it overlapped
\* (profile.go 124-145, 206-214).
THEOREM StaleWritesOverlapped == Spec => StaleOnlyIfOverlapped
<1> DEFINE Overwrites(c) ==
             pc[c] = "write" /\ pc'[c] = "done" /\ file' # file =>
               /\ call[c].op = "Delete" /\ ActivePath \notin met[c]
                    => file[ActivePath] \in {call[c].name}
                          \cup (IF call[c].name = Default THEN {Absent, Empty} ELSE {})
               /\ call[c].op = "UpdateLastUsed" /\ ProfilePath(cur[c]) \notin met[c]
                    => /\ file[ProfilePath(cur[c])] \in ProfileType
                       /\ file'[ProfilePath(cur[c])].fields = file[ProfilePath(cur[c])].fields
<1>1. ASSUME IInv, [Next]_vars, NEW c \in Caller  PROVE Overwrites(c)
  <2> SUFFICES ASSUME pc[c] = "write", pc'[c] = "done", file' # file  PROVE Overwrites(c)
    OBVIOUS
  <2>1. Shape(c) /\ Updated(c) /\ Deleted(c) /\ TypeOK
    BY <1>1 DEF IInv, Own
  <2>2. PICK d \in Caller : Step(d)
    BY <1>1 DEF Next, vars
  <2>3. d = c
    BY <1>1, <2>2, Changes DEF LocalsKept, IInv, Own
  <2>4. Write(c)
    <3>1. ~Begin(c) /\ ~Stat(c) /\ ~Open(c) /\ ~ReadFails(c) /\ ~ReadDir(c) /\ ~RemoveProfile(c)
          /\ ~RemoveCredential(c)
      BY DEF Begin, Stat, Open, ReadFails, ReadDir, RemoveProfile, RemoveCredential
    <3>2. ~ChangeFails(c) /\ ~Leave(c)
      BY DEF ChangeFails, Leave
    <3> QED  BY <2>2, <2>3, <3>1, <3>2 DEF Step
  <2>5. ASSUME call[c].op = "Delete", ActivePath \notin met[c]
        PROVE  file[ActivePath] \in {call[c].name}
                  \cup (IF call[c].name = Default THEN {Absent, Empty} ELSE {})
    BY <2>1, <2>5 DEF Deleted, Chosen
  <2>6. ASSUME call[c].op = "UpdateLastUsed", ProfilePath(cur[c]) \notin met[c]
        PROVE  /\ file[ProfilePath(cur[c])] \in ProfileType
               /\ file'[ProfilePath(cur[c])].fields = file[ProfilePath(cur[c])].fields
    <3>1. got[c] \in ProfileType /\ file[ProfilePath(cur[c])] = got[c]
      BY <2>1, <2>6 DEF Updated
    <3>2. call[c] \in Call /\ cur[c] = call[c].name
      BY <2>1, <2>6 DEF Shape
    <3>3. ProfilePath(cur[c]) \in Path
      BY <2>6, <3>2, CallFacts, PathsIn
    <3>4. file' = [file EXCEPT ![ProfilePath(cur[c])] = [got[c] EXCEPT !.used = "now"]]
      BY <2>4, <2>6 DEF Write, Apply, WritePath, Written
    <3>5. file'[ProfilePath(cur[c])] = [got[c] EXCEPT !.used = "now"]
      BY <2>1, <3>3, <3>4 DEF TypeOK
    <3> QED  BY <3>1, <3>5 DEF ProfileType
  <2> QED  BY <2>5, <2>6
<1>2. IInv /\ [Next]_vars => [\A c \in Caller : Overwrites(c)]_vars
  BY <1>1
<1> QED  BY <1>2, ProfileInvariant, PTL DEF Spec, StaleOnlyIfOverlapped

-----------------------------------------------------------------------------
(* Cached sessions                                                          *)

\* What this version or an earlier one has written.
Sessions ==
    SE!Legacy \cup {SE!NewSession(k, t, ttl) : k \in Key, t \in 0 .. MaxTime, ttl \in Int}

Stored == Sessions \cup {Absent, Damaged}

CacheTyped ==
    /\ cache \in [{SE!path(p) : p \in Provider} -> Stored]
    /\ now \in 0 .. MaxTime /\ since \in [Caller -> 0 .. MaxTime]
    /\ DOMAIN spc = Caller /\ scall \in [Caller -> SE!Call \cup {NoSession}]
    /\ DOMAIN cached = Caller /\ DOMAIN sres = Caller /\ sheld \in [Caller -> SUBSET Stored]

Resolves(c) == SE!Resolving(scall[c])

\* What the place of a caller says of its call, and of what it has read.
SessionShape(c) ==
    /\ spc[c] # "idle" => scall[c] \in SE!Call
    /\ spc[c] = "idle" => scall[c] = NoSession
    /\ spc[c] \in {"stamp", "write"} => scall[c].op = "Save" /\ scall[c].provider \in Provider
    /\ spc[c] = "remove" => scall[c].op = "Clear"
    /\ spc[c] = "read" => scall[c].op \in {"Load", "Resolve"} /\ scall[c].key = NoKey
    /\ spc[c] = "write" => cached[c] \in Sessions
    /\ spc[c] = "check" =>
          /\ scall[c].op = "Resolve" /\ scall[c].key = NoKey
          /\ cached[c] \in Sessions
          /\ Resolves(c) => cached[c] \in SE!Cached(c)

SessionHistory(c) ==
    Resolves(c) => cache[SE!path(scall[c].provider)] \in sheld[c] /\ since[c] <= now

Resolved(c) ==
    /\ SE!FromCache(c) /\ sres[c][2] # NoKey =>
          \E s \in SE!Cached(c) : s.key = sres[c][2] /\ since[c] < s.until
    /\ SE!FromCache(c) /\ sres[c][2] = NoKey =>
          \/ Absent \in sheld[c]
          \/ \E s \in SE!Cached(c) : \/ s.until <= now
                                     \/ s.ExpiresAt = Nil /\ s.TTLSeconds > SE!MaxSeconds

SInv == CacheTyped /\ \A c \in Caller : SessionShape(c) /\ SessionHistory(c) /\ Resolved(c)

\* Lifetimes that the range check lets through do not wrap.
LEMMA LifetimeExact ==
    ASSUME SE!DurationAssumption, NEW n \in Int, ~SE!OutOfRange(n)
    PROVE  SE!Wrap(n * Second) = n * Second /\ n * Second \in Nat
<1>1. MaxInt \in Nat /\ Second \in Nat /\ Second > 0
  BY DEF SE!DurationAssumption
<1>2. PICK q \in Int : q = MaxInt \div Second
  BY <1>1
<1>3. q * Second <= MaxInt
  BY <1>1, <1>2
<1>4. n \in Nat /\ n <= q
  BY <1>2 DEF SE!OutOfRange, SE!MaxSeconds
<1>5. n * Second <= q * Second /\ n * Second \in Nat
  BY <1>1, <1>4
<1>6. PICK x \in Nat : x = n * Second /\ x <= MaxInt
  BY <1>1, <1>3, <1>5
<1>7. (x + MaxInt + 1) % (2 * MaxInt + 2) = x + MaxInt + 1
  BY <1>1, <1>6
<1>8. SE!Wrap(x) = x
  BY <1>1, <1>6, <1>7 DEF SE!Wrap
<1> QED  BY <1>6, <1>8

LEMMA SessionFields ==
    ASSUME SE!SessionAssumption, SE!DurationAssumption, NEW s \in Sessions
    PROVE  /\ s.key \in Key /\ s.until \in Int
           /\ \/ s.ExpiresAt = Nil /\ s.CreatedAt = 0 /\ s.TTLSeconds \in Int /\ s.until = s.TTLSeconds * Second
              \/ s.ExpiresAt # Nil /\ s.ExpiresAt = s.until
<1>1. Second \in Int
  BY DEF SE!DurationAssumption
<1>2. CASE s \in SE!Legacy
  <2>1. PICK k \in Key, n \in LegacyTTL : s = SE!SessionFile(k, Nil, 0, n, n * Second)
    BY <1>2 DEF SE!Legacy
  <2>2. n \in Int
    BY DEF SE!SessionAssumption
  <2> QED  BY <1>1, <2>1, <2>2 DEF SE!SessionFile
<1>3. CASE s \notin SE!Legacy
  <2>1. PICK k \in Key, t \in 0 .. MaxTime, ttl \in Int : s = SE!NewSession(k, t, ttl)
    BY <1>3 DEF Sessions
  <2>2. t + ttl \in Int /\ t + ttl # Nil
    BY <2>1 DEF SE!SessionAssumption
  <2>3. s.key = k /\ s.until = t + ttl /\ s.ExpiresAt = t + ttl
    BY <2>1 DEF SE!NewSession, SE!SessionFile
  <2> QED  BY <2>1, <2>2, <2>3
<1> QED  BY <1>2, <1>3

\* IsExpired says whether the lifetime has ended, in exact arithmetic.
LEMMA ExpiryExact ==
    ASSUME SE!SessionAssumption, SE!DurationAssumption, NEW s \in Sessions, NEW t \in Nat
    PROVE  /\ ~SE!IsExpired(s, t) => t < s.until
           /\ SE!IsExpired(s, t) => \/ s.until <= t
                                    \/ s.ExpiresAt = Nil /\ s.TTLSeconds > SE!MaxSeconds
<1>1. CASE s.ExpiresAt # Nil
  BY <1>1, SessionFields DEF SE!IsExpired
<1>2. CASE s.ExpiresAt = Nil
  <2>1. s.CreatedAt = 0 /\ s.TTLSeconds \in Int /\ s.until = s.TTLSeconds * Second /\ s.until \in Int
    BY <1>2, SessionFields
  <2>2. CASE ~SE!OutOfRange(s.TTLSeconds)
    <3>1. SE!Wrap(s.TTLSeconds * Second) = s.until /\ s.until \in Nat
      BY <2>1, <2>2, LifetimeExact
    <3> QED  BY <1>2, <2>1, <2>2, <3>1 DEF SE!IsExpired
  <2>3. CASE SE!OutOfRange(s.TTLSeconds)
    <3>1. SE!IsExpired(s, t)
      BY <1>2, <2>3 DEF SE!IsExpired
    <3>2. s.TTLSeconds < 0 => s.until <= t
      <4>1. Second \in Nat /\ Second > 0
        BY DEF SE!DurationAssumption
      <4>2. PICK n \in Int : n = s.TTLSeconds
        BY <2>1
      <4>3. n < 0 => n * Second <= 0
        BY <4>1, <4>2
      <4> QED  BY <2>1, <4>2, <4>3
    <3> QED  BY <1>2, <2>3, <3>1, <3>2 DEF SE!OutOfRange
  <2> QED  BY <2>2, <2>3
<1> QED  BY <1>1, <1>2

LEMMA SessionPaths ==
    \A p, q : SE!path(p) = SE!path(q) => p = q
<1>1. ASSUME NEW p  PROVE <<"session">> # <<"session", p>> /\ <<"session", p>>[2] = p
  <2>1. Len(<<"session">>) = 1 /\ Len(<<"session", p>>) = 2
    OBVIOUS
  <2> QED  BY <2>1
<1> QED  BY <1>1 DEF SE!path

LEMMA SessionCalls ==
    ASSUME NEW k \in SE!Call
    PROVE  /\ k.op \in {"Save", "Load", "Clear", "Resolve"}
           /\ k.op # "Save" => k.provider \in Provider
           /\ k.op = "Save" => k.key \in Key /\ k.ttl \in TTL
           /\ k.op \in {"Load", "Clear"} => k.key = NoKey
           /\ k.op = "Resolve" => k.key \in {NoKey, Given}
BY DEF SE!Call

\* What a step leaves to a caller that does not act in it.
SessionKept(d) ==
    /\ spc'[d] = spc[d] /\ scall'[d] = scall[d] /\ cached'[d] = cached[d] /\ sres'[d] = sres[d]
    /\ since'[d] = since[d] /\ now <= now' /\ sheld[d] \subseteq sheld'[d]
    /\ Resolves(d) => cache'[SE!path(scall[d].provider)] \in sheld'[d]

LEMMA SessionOther ==
    ASSUME SE!SessionAssumption, SE!DurationAssumption, SInv, CacheTyped',
           NEW d \in Caller, SessionKept(d)
    PROVE  SessionShape(d)' /\ SessionHistory(d)' /\ Resolved(d)'
<1> USE DEF SInv, SessionKept
<1>1. Resolves(d)' = Resolves(d) /\ SE!FromCache(d)' = SE!FromCache(d)
  BY DEF Resolves, SE!Resolving, SE!FromCache
<1>2. SE!Cached(d) \subseteq SE!Cached(d)'
  BY DEF SE!Cached
<1>3. now \in Nat /\ now' \in Nat /\ since[d] \in Nat
  BY DEF CacheTyped, SE!SessionAssumption
<1>4. SessionShape(d)'
  BY <1>1, <1>2 DEF SessionShape
<1>5. SessionHistory(d)'
  <2>1. Resolves(d) => since[d] <= now
    BY DEF SessionHistory
  <2>2. Resolves(d) => since'[d] <= now'
    BY <1>3, <2>1
  <2> QED  BY <1>1, <2>2 DEF SessionHistory
<1>6. Resolved(d)'
  <2>1. ASSUME SE!FromCache(d), sres[d][2] # NoKey
        PROVE  \E s \in SE!Cached(d)' : s.key = sres[d][2] /\ since[d] < s.until
    BY <1>2, <2>1 DEF Resolved
  <2>2. ASSUME SE!FromCache(d), sres[d][2] = NoKey
        PROVE  \/ Absent \in sheld'[d]
               \/ \E s \in SE!Cached(d)' : \/ s.until <= now'
                                           \/ s.ExpiresAt = Nil /\ s.TTLSeconds > SE!MaxSeconds
    <3>1. CASE Absent \in sheld[d]
      BY <3>1
    <3>2. CASE \E s \in SE!Cached(d) : \/ s.until <= now
                                       \/ s.ExpiresAt = Nil /\ s.TTLSeconds > SE!MaxSeconds
      <4>1. PICK s \in SE!Cached(d) : \/ s.until <= now
                                      \/ s.ExpiresAt = Nil /\ s.TTLSeconds > SE!MaxSeconds
        BY <3>2
      <4>2. s \in Sessions
        BY DEF CacheTyped, SE!Cached, Stored
      <4>3. s.until \in Int
        BY <4>2, SessionFields
      <4>4. s.until <= now => s.until <= now'
        BY <1>3, <4>3
      <4> QED  BY <1>2, <4>1, <4>4
    <3> QED  BY <2>2, <3>1, <3>2 DEF Resolved
  <2> QED  BY <1>1, <2>1, <2>2 DEF Resolved
<1> QED  BY <1>4, <1>5, <1>6

\* Everybody whose file is written has the new contents in his history.
LEMMA SessionApply ==
    ASSUME SInv, NEW c \in Caller, scall[c] \in SE!Call, scall[c].provider \in Provider,
           NEW x \in Stored, SE!Apply(c, x)
    PROVE  /\ cache' \in [{SE!path(p) : p \in Provider} -> Stored]
           /\ sheld' \in [Caller -> SUBSET Stored]
           /\ \A d \in Caller : /\ sheld[d] \subseteq sheld'[d]
                                /\ Resolves(d) => cache'[SE!path(scall[d].provider)] \in sheld'[d]
<1> USE DEF SInv, CacheTyped, SE!Apply
<1>1. cache' \in [{SE!path(p) : p \in Provider} -> Stored] /\ sheld' \in [Caller -> SUBSET Stored]
  OBVIOUS
<1>2. ASSUME NEW d \in Caller, Resolves(d)  PROVE cache'[SE!path(scall[d].provider)] \in sheld'[d]
  <2>1. scall[d] \in SE!Call /\ scall[d].provider \in Provider
    BY <1>2, SessionCalls DEF Resolves, SE!Resolving
  <2>2. cache[SE!path(scall[d].provider)] \in sheld[d]
    BY <1>2 DEF SessionHistory
  <2>3. CASE scall[d].provider = scall[c].provider
    BY <1>2, <2>1, <2>3 DEF Resolves
  <2>4. CASE scall[d].provider # scall[c].provider
    <3>1. SE!path(scall[d].provider) # SE!path(scall[c].provider)
      BY <2>4, SessionPaths
    <3> QED  BY <2>1, <2>2, <3>1
  <2> QED  BY <2>3, <2>4
<1>3. ASSUME NEW d \in Caller  PROVE sheld[d] \subseteq sheld'[d]
  OBVIOUS
<1> QED  BY <1>1, <1>2, <1>3

\* A step that touches neither files nor histories of others.
LEMMA SessionQuiet ==
    ASSUME SInv, NEW d \in Caller,
           cache' = cache, now <= now', sheld'[d] = sheld[d], since'[d] = since[d],
           spc'[d] = spc[d], scall'[d] = scall[d], cached'[d] = cached[d], sres'[d] = sres[d]
    PROVE  SessionKept(d)
BY DEF SInv, SessionKept, SessionHistory

SessionOwn(c) == SessionShape(c) /\ SessionHistory(c) /\ Resolved(c)

LEMMA SessionBegin ==
    ASSUME SE!SessionAssumption, SInv, NEW c \in Caller, SE!Begin(c)
    PROVE  CacheTyped' /\ SessionOwn(c)' /\ \A d \in Caller \ {c} : SessionKept(d)
<1> USE DEF SInv, CacheTyped, SE!Goto, SE!Finish
<1>0. now \in Nat
  BY DEF SE!SessionAssumption
<1>1. PICK k \in SE!Call :
         /\ scall' = [scall EXCEPT ![c] = k]
         /\ sheld' = [sheld EXCEPT ![c] = IF SE!Resolving(k) THEN {cache[SE!path(k.provider)]} ELSE {}]
         /\ since' = [since EXCEPT ![c] = IF SE!Resolving(k) THEN now ELSE 0]
         /\ \/ k.provider \notin Provider /\ SE!Finish(c, "err", NoKey)
            \/ k.provider \in Provider /\ k.key = Given /\ SE!Finish(c, "ok", Given)
            \/ /\ k.provider \in Provider /\ k.key # Given /\ UNCHANGED sres
               /\ SE!Goto(c, CASE k.op = "Save" -> "stamp" [] k.op = "Clear" -> "remove"
                               [] OTHER -> "read")
  BY DEF SE!Begin, SE!validateProvider
<1>2. UNCHANGED <<cache, now, cached>>
  BY DEF SE!Begin
<1>3. SE!Resolving(k) => k.provider \in Provider /\ k.op = "Resolve" /\ k.key = NoKey
  BY SessionCalls DEF SE!Resolving
<1>4. CacheTyped'
  <2>1. SE!Resolving(k) => cache[SE!path(k.provider)] \in Stored
    BY <1>3
  <2>2. sheld' \in [Caller -> SUBSET Stored]
    BY <1>1, <2>1
  <2>3. since' \in [Caller -> 0 .. MaxTime]
    <3>1. (IF SE!Resolving(k) THEN now ELSE 0) \in 0 .. MaxTime
      BY DEF SE!SessionAssumption
    <3> QED  BY <1>1, <3>1
  <2> QED  BY <1>1, <1>2, <2>2, <2>3
<1>5. ASSUME NEW d \in Caller \ {c}  PROVE SessionKept(d)
  <2>1. sheld'[d] = sheld[d] /\ since'[d] = since[d] /\ scall'[d] = scall[d]
    BY <1>1
  <2>2. spc'[d] = spc[d] /\ sres'[d] = sres[d]
    BY <1>1
  <2> QED  BY <1>0, <1>2, <2>1, <2>2, SessionQuiet
<1>6. scall'[c] = k /\ since'[c] = (IF SE!Resolving(k) THEN now ELSE 0)
      /\ sheld'[c] = (IF SE!Resolving(k) THEN {cache[SE!path(k.provider)]} ELSE {})
  BY <1>1
<1>7. \/ spc'[c] = "done" /\ ~SE!Resolving(k)
      \/ /\ k.provider \in Provider
         /\ \/ spc'[c] = "stamp" /\ k.op = "Save"
            \/ spc'[c] = "remove" /\ k.op = "Clear"
            \/ spc'[c] = "read" /\ k.op \in {"Load", "Resolve"} /\ k.key = NoKey
  <2>1. CASE k.provider \notin Provider /\ SE!Finish(c, "err", NoKey)
    BY <1>3, <2>1
  <2>2. CASE k.provider \in Provider /\ k.key = Given /\ SE!Finish(c, "ok", Given)
    BY <1>3, <2>2 DEF SE!SessionAssumption
  <2>3. CASE /\ k.provider \in Provider /\ k.key # Given
             /\ SE!Goto(c, CASE k.op = "Save" -> "stamp" [] k.op = "Clear" -> "remove"
                             [] OTHER -> "read")
    BY <2>3, SessionCalls
  <2> QED  BY <1>1, <2>1, <2>2, <2>3
<1>8. SessionShape(c)'
  BY <1>6, <1>7 DEF SessionShape
<1>9. SessionHistory(c)'
  BY <1>0, <1>2, <1>6 DEF SessionHistory, Resolves
<1>10. Resolved(c)'
  BY <1>6, <1>7 DEF Resolved, SE!FromCache
<1> QED  BY <1>4, <1>5, <1>8, <1>9, <1>10 DEF SessionOwn

LEMMA SessionRead ==
    ASSUME SE!SessionAssumption, SInv, NEW c \in Caller, SE!Read(c)
    PROVE  CacheTyped' /\ SessionOwn(c)' /\ \A d \in Caller \ {c} : SessionKept(d)
<1> USE DEF SInv, CacheTyped, SE!Goto, SE!Finish
<1> DEFINE f == cache[SE!path(scall[c].provider)]
<1>0. now \in Nat
  BY DEF SE!SessionAssumption
<1>1. /\ scall[c] \in SE!Call /\ scall[c].op \in {"Load", "Resolve"} /\ scall[c].key = NoKey
      /\ scall[c].provider \in Provider /\ f \in Stored
      /\ Resolves(c) <=> (scall[c].op = "Resolve" /\ scall[c] # NoSession)
  BY SessionCalls DEF SE!Read, SessionShape, Resolves, SE!Resolving
<1>2. UNCHANGED <<cache, now, made, scall, since, sheld>>
  BY DEF SE!Read
<1>3. \/ /\ f = Absent /\ cached' = cached /\ spc' = [spc EXCEPT ![c] = "done"]
         /\ \/ sres' = [sres EXCEPT ![c] = <<"ok", NoKey>>] /\ scall[c].op = "Resolve"
            \/ sres' = [sres EXCEPT ![c] = <<"absent", NoKey>>]
      \/ /\ f = Damaged /\ cached' = cached /\ spc' = [spc EXCEPT ![c] = "done"]
         /\ sres' = [sres EXCEPT ![c] = <<"err", NoKey>>]
      \/ /\ f \notin {Absent, Damaged} /\ cached' = [cached EXCEPT ![c] = f]
         /\ \/ scall[c].op = "Resolve" /\ spc' = [spc EXCEPT ![c] = "check"] /\ sres' = sres
            \/ /\ scall[c].op # "Resolve" /\ spc' = [spc EXCEPT ![c] = "done"]
               /\ sres' = [sres EXCEPT ![c] = <<"ok", f.key>>]
  BY DEF SE!Read, SE!SessionAssumption
<1>4. CacheTyped'
  BY <1>2, <1>3
<1>5. ASSUME NEW d \in Caller \ {c}  PROVE SessionKept(d)
  <2>1. cached'[d] = cached[d] /\ spc'[d] = spc[d] /\ sres'[d] = sres[d]
    BY <1>3
  <2> QED  BY <1>0, <1>2, <2>1, SessionQuiet
<1>6. \/ /\ f = Absent /\ spc'[c] = "done"
         /\ sres'[c] = <<"ok", NoKey>> \/ sres'[c] = <<"absent", NoKey>>
      \/ spc'[c] = "done" /\ sres'[c] = <<"err", NoKey>>
      \/ spc'[c] = "done" /\ ~Resolves(c)
      \/ /\ spc'[c] = "check" /\ scall[c].op = "Resolve" /\ f \in Sessions \ {Absent, Damaged}
         /\ cached'[c] = f
  BY <1>1, <1>3 DEF Stored
<1>7. Resolves(c)' = Resolves(c) /\ SE!Cached(c)' = SE!Cached(c)
  BY <1>2 DEF Resolves, SE!Cached
<1>8. Resolves(c) => f \in sheld[c]
  BY DEF SessionHistory
<1>9. SessionShape(c)'
  BY <1>1, <1>2, <1>6, <1>7, <1>8 DEF SessionShape, SE!Cached
<1>10. SessionHistory(c)'
  BY <1>2, <1>7 DEF SessionHistory
<1>11. Resolved(c)'
  <2>1. /\ <<"ok", NoKey>>[2] = NoKey /\ <<"absent", NoKey>>[1] # "ok" /\ <<"err", NoKey>>[1] # "ok"
    OBVIOUS
  <2>2. SE!FromCache(c)' => Resolves(c) /\ sres'[c][2] = NoKey /\ f = Absent
    BY <1>6, <1>7, <2>1 DEF SE!FromCache, Resolves
  <2> QED  BY <1>2, <1>8, <2>2 DEF Resolved
<1> QED  BY <1>4, <1>5, <1>9, <1>10, <1>11 DEF SessionOwn

LEMMA SessionCheck ==
    ASSUME SE!SessionAssumption, SE!DurationAssumption, SInv, NEW c \in Caller, SE!Check(c)
    PROVE  CacheTyped' /\ SessionOwn(c)' /\ \A d \in Caller \ {c} : SessionKept(d)
<1> USE DEF SInv, CacheTyped, SE!Goto, SE!Finish
<1> DEFINE s == cached[c]
           given == IF SE!IsExpired(s, now) THEN NoKey ELSE s.key
<1>0. now \in Nat
  BY DEF SE!SessionAssumption
<1>1. /\ UNCHANGED <<cache, now, made, scall, cached, since, sheld>>
      /\ spc' = [spc EXCEPT ![c] = "done"] /\ sres' = [sres EXCEPT ![c] = <<"ok", given>>]
  BY DEF SE!Check
<1>2. CacheTyped'
  BY <1>1
<1>3. ASSUME NEW d \in Caller \ {c}  PROVE SessionKept(d)
  <2>1. spc'[d] = spc[d] /\ sres'[d] = sres[d]
    BY <1>1
  <2> QED  BY <1>0, <1>1, <2>1, SessionQuiet
<1>4. spc'[c] = "done" /\ sres'[c][2] = given
  BY <1>1
<1>5. s \in Sessions /\ (Resolves(c) => s \in SE!Cached(c)) /\ scall[c] \in SE!Call
  BY DEF SE!Check, SessionShape
<1>6. Resolves(c)' = Resolves(c) /\ SE!Cached(c)' = SE!Cached(c)
  BY <1>1 DEF Resolves, SE!Cached
<1>7. SessionShape(c)'
  BY <1>1, <1>4, <1>5 DEF SessionShape
<1>8. SessionHistory(c)'
  BY <1>1, <1>6 DEF SessionHistory
<1>9. Resolved(c)'
  <2>1. SE!FromCache(c)' => Resolves(c)
    BY <1>6 DEF SE!FromCache, Resolves
  <2>2. s.key \in Key /\ s.key # NoKey /\ s.until \in Int
    BY <1>5, SessionFields DEF SE!SessionAssumption
  <2>3. ASSUME Resolves(c), ~SE!IsExpired(s, now)
        PROVE  given = s.key /\ since[c] < s.until
    <3>1. now < s.until
      BY <1>0, <1>5, <2>3, ExpiryExact
    <3>2. since[c] <= now /\ since[c] \in Nat
      BY <2>3 DEF SessionHistory
    <3> QED  BY <1>0, <2>2, <2>3, <3>1, <3>2
  <2>4. ASSUME SE!IsExpired(s, now)
        PROVE  given = NoKey /\ (\/ s.until <= now
                                 \/ s.ExpiresAt = Nil /\ s.TTLSeconds > SE!MaxSeconds)
    BY <1>0, <1>5, <2>4, ExpiryExact
  <2> HIDE DEF given, s
  <2> QED  BY <1>1, <1>4, <1>5, <1>6, <2>1, <2>2, <2>3, <2>4 DEF Resolved
<1> QED  BY <1>2, <1>3, <1>7, <1>8, <1>9 DEF SessionOwn

LEMMA SessionWrite ==
    ASSUME SE!SessionAssumption, SInv, NEW c \in Caller, SE!Write(c) \/ SE!Remove(c)
    PROVE  CacheTyped' /\ SessionOwn(c)' /\ \A d \in Caller \ {c} : SessionKept(d)
<1> USE DEF SInv, CacheTyped, SE!Goto, SE!Finish
<1>0. now \in Nat
  BY DEF SE!SessionAssumption
<1>1. /\ UNCHANGED <<now, made, scall, since>>
      /\ spc' = [spc EXCEPT ![c] = "done"] /\ sres' = [sres EXCEPT ![c] = <<"ok", NoKey>>]
      /\ cached' = cached \/ cached' = [cached EXCEPT ![c] = Absent]
  BY DEF SE!Write, SE!Remove
<1>2. PICK x \in Stored : SE!Apply(c, x)
  BY DEF SE!Write, SE!Remove, SessionShape, Stored
<1>3. scall[c] \in SE!Call /\ scall[c].op \in {"Save", "Clear"} /\ scall[c].provider \in Provider
  BY SessionCalls DEF SE!Write, SE!Remove, SessionShape
<1>4. /\ cache' \in [{SE!path(p) : p \in Provider} -> Stored]
      /\ sheld' \in [Caller -> SUBSET Stored]
      /\ \A d \in Caller : /\ sheld[d] \subseteq sheld'[d]
                           /\ Resolves(d) => cache'[SE!path(scall[d].provider)] \in sheld'[d]
  BY <1>2, <1>3, SessionApply
<1>5. CacheTyped'
  BY <1>1, <1>4
<1>6. ASSUME NEW d \in Caller \ {c}  PROVE SessionKept(d)
  <2>1. spc'[d] = spc[d] /\ sres'[d] = sres[d] /\ cached'[d] = cached[d]
    BY <1>1
  <2> QED  BY <1>0, <1>1, <1>4, <2>1 DEF SessionKept
<1>7. ~Resolves(c)' /\ ~Resolves(c) /\ spc'[c] = "done" /\ scall'[c] = scall[c]
  BY <1>1, <1>3 DEF Resolves, SE!Resolving
<1>8. SessionOwn(c)'
  BY <1>3, <1>7 DEF SessionOwn, SessionShape, SessionHistory, Resolved, SE!FromCache, Resolves
<1> QED  BY <1>5, <1>6, <1>8

LEMMA TTLTyped ==
    ASSUME SE!SessionAssumption, NEW ttl \in TTL
    PROVE  SE!EffectiveTTL(ttl) \in Int
<1>1. TTL \subseteq Int
  BY DEF SE!SessionAssumption
<1>2. DefaultTTL \in Int
  BY DEF SE!SessionAssumption
<1> QED  BY <1>1, <1>2 DEF SE!EffectiveTTL

LEMMA SessionStamp ==
    ASSUME SE!SessionAssumption, SInv, NEW c \in Caller, SE!Stamp(c)
    PROVE  CacheTyped' /\ SessionOwn(c)' /\ \A d \in Caller \ {c} : SessionKept(d)
<1> USE DEF SInv, CacheTyped, SE!Goto
<1>0. now \in Nat
  BY DEF SE!SessionAssumption
<1>1. /\ UNCHANGED <<cache, now, made, scall, sres, since, sheld>>
      /\ spc' = [spc EXCEPT ![c] = "write"]
      /\ cached' = [cached EXCEPT ![c] = SE!NewSession(scall[c].key, now, SE!EffectiveTTL(scall[c].ttl))]
  BY DEF SE!Stamp
<1>2. scall[c] \in SE!Call /\ scall[c].op = "Save" /\ scall[c].provider \in Provider
  BY DEF SE!Stamp, SessionShape
<1>3. SE!NewSession(scall[c].key, now, SE!EffectiveTTL(scall[c].ttl)) \in Sessions
  <2>1. SE!EffectiveTTL(scall[c].ttl) \in Int /\ scall[c].key \in Key
    <3>1. scall[c].key \in Key /\ scall[c].ttl \in TTL
      BY <1>2, SessionCalls
    <3> QED  BY <3>1, TTLTyped
  <2> QED  BY <2>1 DEF Sessions
<1>4. CacheTyped'
  BY <1>1
<1>5. ASSUME NEW d \in Caller \ {c}  PROVE SessionKept(d)
  <2>1. spc'[d] = spc[d] /\ cached'[d] = cached[d]
    BY <1>1
  <2> QED  BY <1>0, <1>1, <2>1, SessionQuiet
<1>6. spc'[c] = "write" /\ cached'[c] \in Sessions
  BY <1>1, <1>3
<1>7. SessionShape(c)'
  BY <1>1, <1>2, <1>6 DEF SessionShape
<1>8. SessionHistory(c)' /\ Resolved(c)'
  BY <1>1, <1>6 DEF SessionHistory, Resolved, Resolves, SE!FromCache
<1> QED  BY <1>4, <1>5, <1>7, <1>8 DEF SessionOwn

LEMMA SessionFails ==
    ASSUME SE!SessionAssumption, SInv, NEW c \in Caller, SE!Fails(c)
    PROVE  CacheTyped' /\ SessionOwn(c)' /\ \A d \in Caller \ {c} : SessionKept(d)
<1> USE DEF SInv, CacheTyped, SE!Goto, SE!Finish
<1>0. now \in Nat
  BY DEF SE!SessionAssumption
<1>1. /\ UNCHANGED <<cache, now, made, scall, cached, since, sheld>>
      /\ spc' = [spc EXCEPT ![c] = "done"] /\ sres' = [sres EXCEPT ![c] = <<"err", NoKey>>]
  BY DEF SE!Fails
<1>2. CacheTyped'
  BY <1>1
<1>3. ASSUME NEW d \in Caller \ {c}  PROVE SessionKept(d)
  <2>1. spc'[d] = spc[d] /\ sres'[d] = sres[d]
    BY <1>1
  <2> QED  BY <1>0, <1>1, <2>1, SessionQuiet
<1>4. spc'[c] = "done" /\ sres'[c][1] # "ok"
  BY <1>1
<1>5. scall[c] \in SE!Call
  BY DEF SE!Fails, SessionShape
<1>6. SessionOwn(c)'
  BY <1>1, <1>4, <1>5 DEF SessionOwn, SessionShape, SessionHistory, Resolved, SE!FromCache, Resolves
<1> QED  BY <1>2, <1>3, <1>6

LEMMA SessionLeave ==
    ASSUME SE!SessionAssumption, SInv, NEW c \in Caller, SE!Leave(c)
    PROVE  CacheTyped' /\ SessionOwn(c)' /\ \A d \in Caller \ {c} : SessionKept(d)
<1> USE DEF SInv, CacheTyped, SE!Goto, SE!Leave
<1>0. now \in Nat /\ 0 \in 0 .. MaxTime
  BY DEF SE!SessionAssumption
<1>1. CacheTyped'
  <2>1. sheld' \in [Caller -> SUBSET Stored] /\ since' \in [Caller -> 0 .. MaxTime]
    BY <1>0
  <2>2. scall' \in [Caller -> SE!Call \cup {NoSession}]
    OBVIOUS
  <2> QED  BY <2>1, <2>2
<1>2. ASSUME NEW d \in Caller \ {c}  PROVE SessionKept(d)
  <2>1. sheld'[d] = sheld[d] /\ since'[d] = since[d] /\ scall'[d] = scall[d]
    OBVIOUS
  <2>2. spc'[d] = spc[d] /\ sres'[d] = sres[d] /\ cached'[d] = cached[d] /\ cache' = cache
    OBVIOUS
  <2> QED  BY <1>0, <2>1, <2>2, SessionQuiet
<1>3. spc'[c] = "idle" /\ scall'[c] = NoSession
  OBVIOUS
<1>4. SessionOwn(c)'
  BY <1>3 DEF SessionOwn, SessionShape, SessionHistory, Resolved, SE!FromCache, Resolves, SE!Resolving
<1> QED  BY <1>1, <1>2, <1>4

LEMMA SessionStep ==
    ASSUME SE!SessionAssumption, SE!DurationAssumption
    PROVE  SInv /\ [SE!Next]_(SE!vars) => SInv'
<1> SUFFICES ASSUME SInv, [SE!Next]_(SE!vars)  PROVE SInv'
  OBVIOUS
<1>1. ASSUME NEW c \in Caller, SE!Step(c)  PROVE SInv'
  <2>1. CacheTyped' /\ SessionOwn(c)' /\ \A d \in Caller \ {c} : SessionKept(d)
    BY <1>1, SessionBegin, SessionStamp, SessionWrite, SessionRead, SessionCheck, SessionFails,
       SessionLeave DEF SE!Step
  <2>2. \A d \in Caller \ {c} : SessionShape(d)' /\ SessionHistory(d)' /\ Resolved(d)'
    BY <2>1, SessionOther
  <2> QED  BY <2>1, <2>2 DEF SInv, SessionOwn
<1>2. CASE SE!Tick
  <2>1. CacheTyped' /\ now <= now'
    BY <1>2 DEF SE!Tick, SInv, CacheTyped, SE!SessionAssumption
  <2>2. \A d \in Caller : SessionKept(d)
    BY <1>2, <2>1, SessionQuiet DEF SE!Tick
  <2>3. \A d \in Caller : SessionShape(d)' /\ SessionHistory(d)' /\ Resolved(d)'
    BY <2>1, <2>2, SessionOther
  <2> QED  BY <2>1, <2>3 DEF SInv
<1>3. CASE UNCHANGED SE!vars
  BY <1>3 DEF SE!vars, SInv, CacheTyped, SessionShape, SessionHistory, Resolved, Resolves,
              SE!FromCache, SE!Cached
<1> QED  BY <1>1, <1>2, <1>3 DEF SE!Next

LEMMA SessionInit ==
    ASSUME SE!SessionAssumption
    PROVE  SE!Init => SInv
<1> SUFFICES ASSUME SE!Init  PROVE SInv
  OBVIOUS
<1> USE DEF SE!Init
<1>1. CacheTyped
  <2>1. PICK x \in SE!Legacy \cup {Absent, Damaged} :
           cache = [f \in {SE!path(p) : p \in Provider} |-> IF f = SE!path(NoProvider) THEN x ELSE Absent]
    OBVIOUS
  <2>2. x \in Stored /\ Absent \in Stored
    BY DEF Stored, Sessions
  <2>3. cache \in [{SE!path(p) : p \in Provider} -> Stored]
    BY <2>1, <2>2
  <2> QED  BY <2>3 DEF CacheTyped, SE!SessionAssumption
<1>2. ASSUME NEW c \in Caller  PROVE SessionShape(c) /\ SessionHistory(c) /\ Resolved(c)
  BY DEF SessionShape, SessionHistory, Resolved, SE!FromCache, Resolves, SE!Resolving
<1> QED  BY <1>1, <1>2 DEF SInv

\* What Resolve says of the cache is what the exact lifetimes say, for every width of
\* a Duration and whatever is saved, cleared or ticks in between (session.go 39-48,
\* 83-143).
THEOREM SessionsAreExact ==
    ASSUME SE!SessionAssumption, SE!DurationAssumption
    PROVE  SE!Spec => []ResolveExact
<1>1. SInv => ResolveExact
  BY DEF SInv, Resolved, ResolveExact, SE!ResolveExact, SE!ResolveFresh, SE!ResolveAvailable
<1> QED  BY <1>1, SessionInit, SessionStep, PTL DEF SE!Spec

-----------------------------------------------------------------------------
(* Chains of sources                                                        *)

\* The positions that have been tried, and those that never are.
Asked == {read[i][1] : i \in DOMAIN read}
Silent == {i \in DOMAIN chain : chain[i].kind \in RC!Prompt /\ ~terminal}

\* Every step before the current one has been tried, and of the current one the
\* sources before the current source.
Tried == (1 .. (IF sub > 1 THEN pos ELSE pos - 1)) \ Silent

ChainInv ==
    /\ RC!TypeOK /\ read \in Seq((Nat \ {0}) \X (Credential \cup {Empty, Blank, NotOk}))
    /\ pos <= Len(chain) => sub <= Len(chain[pos].sources)
    /\ pos > Len(chain) => sub = 1
    /\ prompts = {i \in Asked : chain[i].kind \in RC!Prompt}
    /\ RC!Running =>
          /\ Asked = Tried
          /\ \A i \in DOMAIN read : ~RC!Usable(chain[read[i][1]].kind, read[i][2])
    /\ RC!FirstCredential

\* A step takes what it finds exactly if it is usable, and then as it is.
LEMMA MatchExact ==
    ASSUME RC!ChainAssumption, NEW k \in RC!Kind, NEW v \in Credential \cup {Empty, Blank, NotOk}
    PROVE  /\ RC!Matches(RC!Yields(k, v)) <=> RC!Usable(k, v)
           /\ RC!Usable(k, v) => RC!Yields(k, v) = v
<1> USE DEF RC!ChainAssumption
<1>1. CASE v \in Credential
  BY <1>1 DEF RC!Matches, RC!Yields, RC!Usable, RC!Trimmed
<1>2. CASE v = Blank
  BY <1>2 DEF RC!Matches, RC!Yields, RC!Usable, RC!Trimmed, RC!Kind, RC!Prompt
<1>3. CASE v \in {Empty, NotOk}
  BY <1>3 DEF RC!Matches, RC!Yields, RC!Usable, RC!Trimmed
<1> QED  BY <1>1, <1>2, <1>3

LEMMA ChainTyped ==
    ASSUME RC!ChainAssumption, RC!TypeOK
    PROVE  /\ Len(chain) \in Nat /\ DOMAIN chain = 1 .. Len(chain)
           /\ \A i \in 1 .. Len(chain) :
                 /\ chain[i].kind \in RC!Kind /\ chain[i].sources \in Seq(Source)
                 /\ Len(chain[i].sources) \in Nat \ {0}
                 /\ chain[i].kind \in RC!Prompt => Len(chain[i].sources) = 1
<1>1. chain \in Seq([kind : RC!Kind, sources : Seq(Source)])
  BY DEF RC!ChainAssumption, RC!TypeOK
<1>2. Len(chain) \in Nat /\ DOMAIN chain = 1 .. Len(chain)
  BY <1>1
<1>3. ASSUME NEW i \in 1 .. Len(chain)
      PROVE  /\ chain[i].kind \in RC!Kind /\ chain[i].sources \in Seq(Source)
             /\ Len(chain[i].sources) \in Nat \ {0}
             /\ chain[i].kind \in RC!Prompt => Len(chain[i].sources) = 1
  <2>1. chain[i] \in [kind : RC!Kind, sources : Seq(Source)]
    <3> DEFINE S == [kind : RC!Kind, sources : Seq(Source)]
    <3>1. chain \in Seq(S) /\ i \in 1 .. Len(chain)
      BY <1>1
    <3> HIDE DEF S
    <3>2. chain[i] \in S
      BY <3>1
    <3> QED  BY <3>2 DEF S
  <2>2. chain[i].kind \in RC!Kind /\ chain[i].sources \in Seq(Source) /\ Len(chain[i].sources) \in Nat
    BY <2>1
  <2>3. Len(chain[i].sources) >= 1 /\ (chain[i].kind # "env" => Len(chain[i].sources) = 1)
    BY <1>2 DEF RC!ChainAssumption, RC!TypeOK
  <2> QED  BY <2>2, <2>3 DEF RC!Prompt
<1> QED  BY <1>2, <1>3

\* Advance leaves the current step behind as tried, whichever source it goes on with.
LEMMA AdvanceStep ==
    ASSUME RC!ChainAssumption, ChainInv, pos <= Len(chain), RC!Advance, UNCHANGED <<chain, terminal>>
    PROVE  /\ pos' \in 1 .. Len(chain) + 1 /\ sub' \in Nat \ {0}
           /\ pos' <= Len(chain) => sub' <= Len(chain[pos'].sources)
           /\ pos' > Len(chain) => sub' = 1
           /\ Tried' = (1 .. pos) \ Silent
<1>1. /\ pos \in 1 .. Len(chain) /\ Len(chain) \in Nat /\ pos \in Nat
      /\ sub \in Nat \ {0} /\ sub <= Len(chain[pos].sources)
      /\ \A i \in 1 .. Len(chain) : Len(chain[i].sources) \in Nat \ {0}
  BY ChainTyped DEF ChainInv, RC!TypeOK
<1>2. \/ sub < Len(chain[pos].sources) /\ sub' = sub + 1 /\ pos' = pos
      \/ pos' = pos + 1 /\ sub' = 1
  BY DEF RC!Advance, RC!Current
<1>3. (IF sub' > 1 THEN pos' ELSE pos' - 1) = pos
  BY <1>1, <1>2
<1>4. Silent' = Silent
  BY DEF Silent
<1>5. Tried' = (1 .. pos) \ Silent
  BY <1>3, <1>4 DEF Tried
<1> QED  BY <1>1, <1>2, <1>5

LEMMA TryStep ==
    ASSUME RC!ChainAssumption, ChainInv, RC!Try
    PROVE  ChainInv'
<1> USE DEF ChainInv
<1> DEFINE k == chain[pos].kind
           v == value[chain[pos].sources[sub]]
           Contents == Credential \cup {Empty, Blank, NotOk}
<1>1. /\ RC!Running /\ pos \in 1 .. Len(chain) /\ Len(chain) \in Nat /\ pos \in Nat \ {0}
      /\ DOMAIN chain = 1 .. Len(chain)
      /\ k \in RC!Kind /\ (k \in RC!Prompt => terminal) /\ sub \in 1 .. Len(chain[pos].sources)
      /\ chain[pos].sources \in Seq(Source) /\ (k \in RC!Prompt => sub = 1)
  BY ChainTyped DEF RC!Try, RC!TypeOK, RC!Current
<1>2. v \in Contents
  <2>1. chain[pos].sources[sub] \in Source
    BY <1>1
  <2> QED  BY <2>1 DEF RC!TypeOK
<1>3. /\ prompts' = (IF k \in RC!Prompt THEN prompts \cup {pos} ELSE prompts)
      /\ read' = Append(read, <<pos, v>>)
      /\ \/ /\ RC!Usable(k, v) /\ found' = <<"found", v, pos>> /\ UNCHANGED <<pos, sub>>
         \/ ~RC!Usable(k, v) /\ RC!Advance /\ UNCHANGED found
      /\ UNCHANGED <<value, chain, terminal, changes>>
  BY <1>1, <1>2, MatchExact DEF RC!Try, RC!Current
<1> HIDE DEF v
<1>4. /\ read' \in Seq((Nat \ {0}) \X Contents) /\ Len(read') = Len(read) + 1 /\ Len(read) \in Nat
      /\ DOMAIN read = 1 .. Len(read) /\ DOMAIN read' = 1 .. Len(read')
      /\ read'[Len(read')] = <<pos, v>>
      /\ \A i \in DOMAIN read : read'[i] = read[i]
  <2>1. <<pos, v>> \in (Nat \ {0}) \X Contents
    BY <1>1, <1>2
  <2> DEFINE S == (Nat \ {0}) \X Contents
  <2>2. read \in Seq(S) /\ <<pos, v>> \in S
    BY <2>1
  <2> HIDE DEF S
  <2>3. read' = Append(read, <<pos, v>>)
    BY <1>3
  <2>4. read' \in Seq(S) /\ Len(read') = Len(read) + 1 /\ Len(read) \in Nat
    BY <2>2, <2>3
  <2>5. DOMAIN read = 1 .. Len(read) /\ DOMAIN read' = 1 .. Len(read')
    BY <2>2, <2>4
  <2>6. read'[Len(read')] = <<pos, v>> /\ \A i \in DOMAIN read : read'[i] = read[i]
    BY <2>2, <2>3, <2>4, <2>5
  <2> QED  BY <2>4, <2>5, <2>6 DEF S
<1>5. <<pos, v>>[1] = pos /\ <<pos, v>>[2] = v
  OBVIOUS
<1>6. Asked' = Asked \cup {pos}
  <2>1. Asked' = {read'[i][1] : i \in DOMAIN read'}
    BY DEF Asked
  <2>2. DOMAIN read' = DOMAIN read \cup {Len(read')}
    BY <1>4
  <2>3. ASSUME NEW i \in DOMAIN read'  PROVE read'[i][1] \in Asked \cup {pos}
    BY <1>4, <1>5, <2>2 DEF Asked
  <2>4. ASSUME NEW i \in DOMAIN read  PROVE read[i][1] \in Asked'
    <3>1. i \in DOMAIN read' /\ read'[i] = read[i]
      BY <1>4, <2>2
    <3> QED  BY <2>1, <3>1
  <2>5. pos \in Asked'
    <3>1. Len(read') \in DOMAIN read' /\ read'[Len(read')][1] = pos
      BY <1>4, <1>5, <2>2
    <3> QED  BY <2>1, <3>1
  <2>6. Asked' \subseteq Asked \cup {pos}
    BY <2>1, <2>3
  <2>7. Asked \subseteq Asked'
    BY <2>4 DEF Asked
  <2> QED  BY <2>5, <2>6, <2>7
<1>7. pos \notin Silent /\ Silent' = Silent /\ Asked' = (1 .. pos) \ Silent
  <2>1. pos \notin Silent /\ Silent' = Silent
    BY <1>1, <1>3 DEF Silent
  <2>2. Asked = Tried
    BY <1>1
  <2>3. Tried \cup {pos} = (1 .. pos) \ Silent
    BY <1>1, <2>1 DEF Tried
  <2> QED  BY <1>6, <2>1, <2>2, <2>3
<1>8. prompts' = {i \in Asked' : chain'[i].kind \in RC!Prompt}
  BY <1>3, <1>6
<1>9. \A i \in DOMAIN read' : RC!Usable(chain[read'[i][1]].kind, read'[i][2]) => i = Len(read') /\ RC!Usable(k, v)
  <2> SUFFICES ASSUME NEW i \in DOMAIN read', RC!Usable(chain[read'[i][1]].kind, read'[i][2])
               PROVE  i = Len(read') /\ RC!Usable(k, v)
    OBVIOUS
  <2>1. i \notin DOMAIN read
    <3>1. ASSUME i \in DOMAIN read  PROVE FALSE
      <4>1. ~RC!Usable(chain[read[i][1]].kind, read[i][2])
        BY <1>1, <3>1
      <4>2. read'[i] = read[i]
        BY <1>4, <3>1
      <4> QED  BY <4>1, <4>2
    <3> QED  BY <3>1
  <2>2. i = Len(read')
    BY <1>4, <2>1
  <2> QED  BY <1>4, <1>5, <2>2
<1>10. CASE RC!Usable(k, v)
  <2>1. found' = <<"found", v, pos>> /\ pos' = pos /\ sub' = sub
    BY <1>3, <1>10
  <2>2. found'[1] = "found" /\ found'[2] = v /\ found'[3] = pos
    BY <2>1
  <2>3. ~RC!Running'
    <3>1. <<"none", Empty, 0>>[1] = "none"
      OBVIOUS
    <3> QED  BY <2>2, <3>1 DEF RC!Running
  <2>4. prompts' \subseteq DOMAIN chain
    BY <1>1, <1>3 DEF RC!TypeOK
  <2>5. RC!TypeOK'
    BY <1>3, <2>1, <2>4 DEF RC!TypeOK
  <2>6. RC!FirstCredential'
    BY <1>3, <1>4, <1>7, <1>8, <1>9, <1>10, <2>2 DEF RC!FirstCredential, Asked, Silent
  <2> QED  BY <1>3, <1>4, <1>8, <2>1, <2>3, <2>5, <2>6
<1>11. CASE ~RC!Usable(k, v)
  <2>1. found' = found /\ RC!Advance /\ UNCHANGED <<chain, terminal>>
    BY <1>3, <1>11
  <2>2. /\ pos' \in 1 .. Len(chain) + 1 /\ sub' \in Nat \ {0}
        /\ pos' <= Len(chain) => sub' <= Len(chain[pos'].sources)
        /\ pos' > Len(chain) => sub' = 1
        /\ Tried' = (1 .. pos) \ Silent
    BY <1>1, <2>1, AdvanceStep
  <2>3. prompts' \subseteq DOMAIN chain
    BY <1>1, <1>3 DEF RC!TypeOK
  <2>4. RC!TypeOK'
    BY <1>3, <2>2, <2>3 DEF RC!TypeOK
  <2>5. RC!Running'
    BY <1>1, <2>1 DEF RC!Running
  <2>6. RC!FirstCredential'
    BY <2>5 DEF RC!FirstCredential
  <2>7. \A i \in DOMAIN read' : ~RC!Usable(chain'[read'[i][1]].kind, read'[i][2])
    BY <1>3, <1>9, <1>11
  <2> QED  BY <1>3, <1>4, <1>7, <1>8, <2>2, <2>4, <2>6, <2>7
<1> QED  BY <1>10, <1>11

LEMMA SkipStep ==
    ASSUME RC!ChainAssumption, ChainInv, RC!Skip
    PROVE  ChainInv'
<1> USE DEF ChainInv
<1>1. /\ RC!Running /\ pos \in 1 .. Len(chain) /\ pos \in Nat \ {0} /\ pos \in Silent
      /\ sub = 1 /\ RC!Advance
      /\ UNCHANGED <<value, chain, terminal, changes, prompts, found, read>>
  <2>1. pos \in 1 .. Len(chain) /\ pos \in Nat \ {0} /\ DOMAIN chain = 1 .. Len(chain)
    BY ChainTyped DEF RC!Skip, RC!TypeOK
  <2>2. chain[pos].kind \in RC!Prompt /\ ~terminal
    BY DEF RC!Skip, RC!Current
  <2>3. Len(chain[pos].sources) = 1 /\ sub <= Len(chain[pos].sources) /\ sub \in Nat \ {0}
    BY <2>1, <2>2, ChainTyped DEF RC!TypeOK
  <2> QED  BY <2>1, <2>2, <2>3 DEF RC!Skip, Silent
<1>2. /\ pos' \in 1 .. Len(chain) + 1 /\ sub' \in Nat \ {0}
      /\ pos' <= Len(chain) => sub' <= Len(chain[pos'].sources)
      /\ pos' > Len(chain) => sub' = 1
      /\ Tried' = (1 .. pos) \ Silent
  BY <1>1, AdvanceStep
<1>3. Asked' = Asked /\ RC!Running'
  BY <1>1 DEF Asked, RC!Running
<1>4. Tried' = Tried
  BY <1>1, <1>2 DEF Tried
<1>5. RC!TypeOK'
  BY <1>1, <1>2 DEF RC!TypeOK
<1>6. RC!FirstCredential'
  BY <1>3 DEF RC!FirstCredential
<1> QED  BY <1>1, <1>2, <1>3, <1>4, <1>5, <1>6

LEMMA NoCredentialStep ==
    ASSUME RC!ChainAssumption, ChainInv, RC!NoCredential
    PROVE  ChainInv'
<1> USE DEF ChainInv
<1>1. /\ RC!Running /\ pos = Len(chain) + 1 /\ sub = 1 /\ Len(chain) \in Nat
      /\ found' = <<"notfound", Empty, 0>>
      /\ UNCHANGED <<value, chain, terminal, pos, sub, changes, prompts, read>>
  BY ChainTyped DEF RC!NoCredential, RC!TypeOK
<1>2. found'[1] = "notfound"
  BY <1>1
<1>3. Asked' = Asked /\ Silent' = Silent /\ RC!TypeOK'
  BY <1>1 DEF Asked, Silent, RC!TypeOK
<1>4. ~RC!Running'
  <2>1. <<"none", Empty, 0>>[1] = "none"
    OBVIOUS
  <2> QED  BY <1>2, <2>1 DEF RC!Running
<1>5. Asked = (1 .. Len(chain)) \ Silent
  BY <1>1 DEF Tried
<1>6. \A i \in DOMAIN read : ~RC!Usable(chain[read[i][1]].kind, read[i][2])
  BY <1>1
<1>7. RC!FirstCredential'
  BY <1>1, <1>2, <1>3, <1>5, <1>6 DEF RC!FirstCredential, Asked, Silent
<1> QED  BY <1>1, <1>3, <1>4, <1>7

LEMMA ChainStep ==
    ASSUME RC!ChainAssumption
    PROVE  ChainInv /\ [RC!Next]_(RC!vars) => ChainInv'
<1> SUFFICES ASSUME ChainInv, [RC!Next]_(RC!vars)  PROVE ChainInv'
  OBVIOUS
<1>1. CASE RC!Change
  <2>1. UNCHANGED <<chain, terminal, pos, sub, prompts, found, read>>
    BY <1>1 DEF RC!Change
  <2>2. value' \in [Source -> Credential \cup {Empty, Blank, NotOk}]
    BY <1>1 DEF RC!Change, ChainInv, RC!TypeOK
  <2> QED  BY <2>1, <2>2 DEF ChainInv, RC!TypeOK, Asked, Tried, Silent, RC!Running, RC!FirstCredential
<1>2. CASE UNCHANGED RC!vars
  BY <1>2 DEF RC!vars, ChainInv, RC!TypeOK, Asked, Tried, Silent, RC!Running, RC!FirstCredential
<1> QED  BY <1>1, <1>2, TryStep, SkipStep, NoCredentialStep DEF RC!Next

LEMMA ChainInit ==
    ASSUME RC!ChainAssumption
    PROVE  RC!Init => ChainInv
<1> SUFFICES ASSUME RC!Init  PROVE ChainInv
  OBVIOUS
<1> USE DEF RC!Init
<1>1. RC!TypeOK
  <2>1. Len(chain) \in Nat
    BY DEF RC!ChainAssumption
  <2> QED  BY <2>1 DEF RC!TypeOK
<1>2. 1 <= Len(chain) => 1 <= Len(chain[1].sources)
  BY <1>1, ChainTyped
<1>3. RC!Running /\ Asked = {} /\ Tried = {} /\ DOMAIN read = {}
  BY DEF RC!Running, Asked, Tried
<1>4. read \in Seq((Nat \ {0}) \X (Credential \cup {Empty, Blank, NotOk}))
  OBVIOUS
<1>5. RC!FirstCredential
  BY <1>3 DEF RC!FirstCredential
<1> QED  BY <1>1, <1>2, <1>3, <1>4, <1>5 DEF ChainInv

\* A chain of any length returns the first credential there is, and nobody is prompted
\* in vain, however the sources change while it is tried (resolve.go 41-48 and the
\* steps).
THEOREM ChainsFindTheFirst ==
    ASSUME RC!ChainAssumption
    PROVE  RC!Spec => []FirstCredential
<1>1. ChainInv => FirstCredential
  BY DEF ChainInv, FirstCredential
<1> QED  BY <1>1, ChainInit, ChainStep, PTL DEF RC!Spec

-----------------------------------------------------------------------------
(* Secrets in files                                                         *)

\* Of valid keys the name of the file says which they are.
LEMMA PathsApart ==
    ASSUME FS!StoreAssumption, NEW j \in SecretKey, NEW k \in SecretKey,
           FS!validateKey(j), FS!validateKey(k), FS!path(j) = FS!path(k)
    PROVE  j = k
<1> DEFINE s == j.service  a == j.account  t == k.service  b == k.account
           S == {s[i] : i \in DOMAIN s} \cup {a[i] : i \in DOMAIN a} \cup {t[i] : i \in DOMAIN t}
                  \cup {b[i] : i \in DOMAIN b} \cup {NUL}
<1>1. s \in Seq(S) /\ a \in Seq(S) /\ t \in Seq(S) /\ b \in Seq(S)
  <2>1. ASSUME NEW w, w \in Seq({w[i] : i \in DOMAIN w}), {w[i] : i \in DOMAIN w} \subseteq S
        PROVE  w \in Seq(S)
    <3> DEFINE T == {w[i] : i \in DOMAIN w}
    <3>1. w \in Seq(T) /\ T \subseteq S
      BY <2>1
    <3> HIDE DEF T, S
    <3>2. w \in [1 .. Len(w) -> T] /\ Len(w) \in Nat
      BY <3>1
    <3>3. w \in [1 .. Len(w) -> S]
      BY <3>1, <3>2
    <3> QED  BY <3>2, <3>3
  <2> QED  BY <2>1 DEF FS!StoreAssumption
<1>2. NUL \in S
  OBVIOUS
<1>3. /\ \A i \in 1 .. Len(s) : s[i] # NUL
      /\ \A i \in 1 .. Len(t) : t[i] # NUL
  BY <1>1 DEF FS!validateKey
<1>4. (s \o <<NUL>>) \o a = (t \o <<NUL>>) \o b
  BY DEF FS!path
<1>5. j = [service |-> s, account |-> a] /\ k = [service |-> t, account |-> b]
  BY DEF FS!StoreAssumption
<1> HIDE DEF s, a, t, b, S
<1> DEFINE x == (s \o <<NUL>>) \o a
           y == (t \o <<NUL>>) \o b
<1>6. /\ Len(s) \in Nat /\ Len(a) \in Nat /\ Len(t) \in Nat /\ Len(b) \in Nat
      /\ Len(x) = Len(s) + 1 + Len(a) /\ Len(y) = Len(t) + 1 + Len(b)
      /\ \A i \in 1 .. Len(s) : x[i] = s[i]
      /\ \A i \in 1 .. Len(t) : y[i] = t[i]
      /\ x[Len(s) + 1] = NUL /\ y[Len(t) + 1] = NUL
      /\ \A i \in 1 .. Len(a) : x[Len(s) + 1 + i] = a[i]
      /\ \A i \in 1 .. Len(b) : y[Len(t) + 1 + i] = b[i]
  BY <1>1, <1>2
<1>7. x = y
  BY <1>4
<1> HIDE DEF x, y
<1>8. Len(s) = Len(t)
  <2>1. ~(Len(s) < Len(t))
    <3>1. ASSUME Len(s) < Len(t)  PROVE FALSE
      <4>1. Len(s) + 1 \in 1 .. Len(t)
        BY <1>6, <3>1
      <4> QED  BY <1>3, <1>6, <1>7, <4>1
    <3> QED  BY <3>1
  <2>2. ~(Len(t) < Len(s))
    <3>1. ASSUME Len(t) < Len(s)  PROVE FALSE
      <4>1. Len(t) + 1 \in 1 .. Len(s)
        BY <1>6, <3>1
      <4> QED  BY <1>3, <1>6, <1>7, <4>1
    <3> QED  BY <3>1
  <2> QED  BY <1>6, <2>1, <2>2
<1>9. Len(a) = Len(b)
  BY <1>6, <1>7, <1>8
<1>10. s = t /\ a = b
  <2>1. \A i \in 1 .. Len(s) : s[i] = t[i]
    BY <1>6, <1>7, <1>8
  <2>2. \A i \in 1 .. Len(a) : a[i] = b[i]
    BY <1>6, <1>7, <1>8, <1>9
  <2>3. ASSUME NEW v \in Seq(S), NEW w \in Seq(S), Len(v) = Len(w), \A i \in 1 .. Len(v) : v[i] = w[i]
        PROVE  v = w
    BY <2>3
  <2>4. s = t
    BY <1>1, <1>8, <2>1, <2>3
  <2>5. a = b
    BY <1>1, <1>9, <2>2, <2>3
  <2> QED  BY <2>4, <2>5
<1> QED  BY <1>5, <1>10

Names == {FS!path(k) : k \in SecretKey}
Contents == SecretValue \cup {NoSecret}

FilesTyped ==
    /\ secretFile \in [Names -> Contents]
    /\ request \in [Client -> FS!Call \cup {NoRequest}] /\ DOMAIN answer = Client
    /\ fcall \in [Client -> FS!CF!Call \cup {NoRequest}]
    /\ window \in [Client -> SUBSET Contents]
    /\ ret \in [Client -> FS!CF!Result] /\ out \in [Client -> Contents]

\* The file operation of a client is the one its call asks for, on the file of its
\* key, and what it reports is covered by what the file has held meanwhile.
Served(c) ==
    /\ request[c] = NoRequest => fcall[c] = NoRequest /\ answer[c] = FS!None
    /\ fcall[c] = NoRequest => /\ window[c] = {} /\ ret[c] = "none" /\ out[c] = NoSecret
                               /\ request[c] # NoRequest => answer[c] # FS!None
    /\ fcall[c] # NoRequest =>
          /\ FS!validateKey(request[c].key)
          /\ fcall[c].op = FS!FileOp(request[c].op)
          /\ fcall[c].name = FS!path(request[c].key) /\ fcall[c].value = request[c].value
    /\ ret[c] = "none" => out[c] = NoSecret
    /\ fcall[c] # NoRequest /\ ret[c] = "none" => answer[c] = FS!None
    /\ ret[c] = "ok" =>
          /\ request[c].op = "Get" => out[c] \in SecretValue \cap window[c]
          /\ request[c].op # "Get" => out[c] = NoSecret /\ request[c].value \in window[c]
    /\ ret[c] = "notexist" => NoSecret \in window[c]

FilesInv == FilesTyped /\ \A c \in Client : Served(c)

LEMMA RequestFacts ==
    ASSUME FS!StoreAssumption, NEW k \in FS!Call
    PROVE  /\ k # NoRequest /\ k.key \in SecretKey /\ k.value \in Contents
           /\ k.op \in {"Put", "Get", "Delete"}
           /\ k.op = "Put" => k.value \in SecretValue
           /\ k.op # "Put" => k.value = NoSecret
           /\ k \in FS!SS!Call
           /\ FS!FileOp(k.op) = "write" <=> k.op = "Put"
           /\ FS!FileOp(k.op) = "read" <=> k.op = "Get"
           /\ FS!FileOp(k.op) = "remove" <=> k.op = "Delete"
           /\ FS!FileOp(k.op) \in {"write", "read", "remove"}
<1>1. k \in [op : {"Put", "Get", "Delete"}, key : SecretKey, value : Contents]
  BY DEF FS!Call, Contents
<1>2. k # NoRequest
  BY <1>1 DEF FS!StoreAssumption, Contents
<1>3. /\ k.op \in {"Put", "Get", "Delete"} /\ k.key \in SecretKey /\ k.value \in Contents
      /\ k.op = "Put" => k.value \in SecretValue
      /\ k.op # "Put" => k.value = NoSecret
  BY DEF FS!Call, Contents
<1>4. k \in FS!SS!Call
  BY DEF FS!Call, FS!SS!Call
<1> QED  BY <1>2, <1>3, <1>4 DEF FS!FileOp

LEMMA FileCallFacts ==
    ASSUME FS!StoreAssumption, NEW f \in FS!CF!Call, f.op \in {"write", "read", "remove"}
    PROVE  f.name \in Names /\ f.value \in Contents
BY DEF FS!CF!Call, Names, Contents

\* A change of one file is a change of what is stored under one key.
LEMMA StoredChange ==
    ASSUME FS!StoreAssumption, FilesTyped, NEW k \in SecretKey, FS!validateKey(k), NEW v,
           secretFile' = [secretFile EXCEPT ![FS!path(k)] = v]
    PROVE  FS!Stored' = [FS!Stored EXCEPT ![k] = v]
<1>1. ASSUME NEW j \in SecretKey
      PROVE  (IF FS!validateKey(j) THEN secretFile'[FS!path(j)] ELSE NoSecret)
                = (IF j = k THEN v ELSE IF FS!validateKey(j) THEN secretFile[FS!path(j)] ELSE NoSecret)
  <2>1. FS!path(j) \in Names /\ FS!path(k) \in Names
    BY DEF Names
  <2>2. FS!validateKey(j) /\ FS!path(j) = FS!path(k) => j = k
    BY PathsApart
  <2>3. secretFile'[FS!path(j)] = IF FS!path(j) = FS!path(k) THEN v ELSE secretFile[FS!path(j)]
    BY <2>1 DEF FilesTyped
  <2>4. CASE j = k
    BY <2>3, <2>4
  <2>5. CASE j # k
    BY <2>2, <2>3, <2>5
  <2> QED  BY <2>4, <2>5
<1>2. FS!Stored' = [j \in SecretKey |-> IF FS!validateKey(j) THEN secretFile'[FS!path(j)] ELSE NoSecret]
  BY DEF FS!Stored, FS!validateKey
<1>3. [FS!Stored EXCEPT ![k] = v]
         = [j \in SecretKey |-> IF j = k THEN v
                                ELSE IF FS!validateKey(j) THEN secretFile[FS!path(j)] ELSE NoSecret]
  BY DEF FS!Stored
<1> QED  BY <1>1, <1>2, <1>3

LEMMA ServedKept ==
    ASSUME FilesInv, NEW d \in Client,
           request'[d] = request[d], answer'[d] = answer[d], fcall'[d] = fcall[d],
           ret'[d] = ret[d], out'[d] = out[d], window[d] \subseteq window'[d],
           fcall[d] = NoRequest => window'[d] = window[d]
    PROVE  Served(d)'
BY DEF FilesInv, Served, FS!validateKey, FS!None

\* The calls of SecretStore that these calls implement.
LEMMA SecretViews ==
    ASSUME FilesInv
    PROVE  /\ \A c \in Client : FS!Watched[c] = IF answer[c] = FS!None THEN window[c] ELSE {}
           /\ \A c \in Client : FS!Changed[c] <=> /\ fcall[c] # NoRequest
                                                  /\ fcall[c].op \in {"write", "remove"}
                                                  /\ ret[c] = "ok"
           /\ \A c \in Client : FS!SS!Pending(c) <=> request[c] # NoRequest /\ answer[c] = FS!None
BY DEF FS!Watched, FS!Changed, FS!SS!Pending, FS!SS!None, FS!None

LEMMA RejectStep ==
    ASSUME FS!StoreAssumption, FilesInv, NEW c \in Client, FS!Reject(c)
    PROVE  FilesInv' /\ FS!SS!Refuse(c)
<1> USE DEF FilesInv, FilesTyped
<1>1. PICK k \in FS!Call : request' = [request EXCEPT ![c] = k]
  BY DEF FS!Reject
<1>2. /\ request[c] = NoRequest /\ answer' = [answer EXCEPT ![c] = <<"err", NoSecret>>]
      /\ UNCHANGED <<secretFile, fcall, window, ret, out>>
  BY DEF FS!Reject, FS!files
<1>3. k # NoRequest /\ k \in FS!SS!Call
  BY RequestFacts
<1>4. <<"err", NoSecret>> # FS!None
  <2>1. <<"err", NoSecret>>[1] # <<"none", NoSecret>>[1]
    OBVIOUS
  <2> QED  BY <2>1 DEF FS!None
<1>5. /\ fcall[c] = NoRequest /\ window[c] = {} /\ ret[c] = "none" /\ out[c] = NoSecret
      /\ request'[c] = k /\ answer'[c] = <<"err", NoSecret>>
  BY <1>1, <1>2 DEF Served
<1>6. FilesTyped'
  BY <1>1, <1>2
<1>7. Served(c)'
  BY <1>2, <1>3, <1>4, <1>5 DEF Served
<1>8. ASSUME NEW d \in Client, d # c  PROVE Served(d)'
  <2>1. request'[d] = request[d] /\ answer'[d] = answer[d]
    BY <1>1, <1>2, <1>8
  <2> QED  BY <1>2, <2>1, ServedKept
<1>9. FilesInv'
  BY <1>6, <1>7, <1>8
<1>10. FS!Watched' = FS!Watched
  <2>1. ASSUME NEW d \in Client
        PROVE  (IF answer'[d] = FS!None THEN window[d] ELSE {}) = (IF answer[d] = FS!None THEN window[d] ELSE {})
    BY <1>2, <1>5
  <2>2. FS!None' = FS!None
    BY DEF FS!None
  <2> QED  BY <1>2, <2>1, <2>2 DEF FS!Watched
<1>11. FS!Stored' = FS!Stored /\ FS!Changed' = FS!Changed
  BY <1>2 DEF FS!Stored, FS!Changed, FS!validateKey
<1> QED  BY <1>1, <1>2, <1>3, <1>9, <1>10, <1>11 DEF FS!SS!Refuse, FS!SS!Err

LEMMA FileBeginStep ==
    ASSUME FS!StoreAssumption, FilesInv, NEW c \in Client, FS!Begin(c)
    PROVE  FilesInv' /\ FS!SS!Begin(c)
<1> USE DEF FilesInv, FilesTyped
<1>1. PICK k \in FS!Call :
         /\ FS!validateKey(k.key) /\ request' = [request EXCEPT ![c] = k] /\ FS!CF!Begin(c)
         /\ fcall'[c] = [op |-> FS!FileOp(k.op), name |-> FS!path(k.key), value |-> k.value]
  BY DEF FS!Begin
<1>2. PICK f \in FS!CF!Call :
         fcall' = [fcall EXCEPT ![c] = f] /\ window' = [window EXCEPT ![c] = {secretFile[f.name]}]
  BY <1>1 DEF FS!CF!Begin
<1>3. /\ request[c] = NoRequest /\ fcall[c] = NoRequest
      /\ UNCHANGED <<answer, secretFile, ret, out>>
  BY <1>1 DEF FS!Begin, FS!CF!Begin
<1>4. /\ k # NoRequest /\ k \in FS!SS!Call /\ k.key \in SecretKey
      /\ FS!FileOp(k.op) \in {"write", "read", "remove"}
  BY RequestFacts
<1>5. /\ f.op = FS!FileOp(k.op) /\ f.name = FS!path(k.key) /\ f.value = k.value
      /\ fcall'[c] = f /\ f # NoRequest
  <2>1. fcall'[c] = f
    BY <1>2
  <2> QED  BY <1>1, <1>2, <2>1 DEF FS!StoreAssumption
<1>6. f.name \in Names /\ secretFile[f.name] \in Contents
  BY <1>4, <1>5 DEF Names
<1>7. /\ request'[c] = k /\ window'[c] = {secretFile[f.name]} /\ ret[c] = "none" /\ out[c] = NoSecret
      /\ answer[c] = FS!None
  BY <1>1, <1>2, <1>3 DEF Served
<1>8. FilesTyped'
  BY <1>1, <1>2, <1>3, <1>6
<1>9. Served(c)'
  BY <1>1, <1>3, <1>4, <1>5, <1>7 DEF Served, FS!validateKey, FS!None
<1>10. ASSUME NEW d \in Client, d # c  PROVE Served(d)'
  <2>1. request'[d] = request[d] /\ fcall'[d] = fcall[d] /\ window'[d] = window[d]
    BY <1>1, <1>2, <1>10
  <2> QED  BY <1>3, <2>1, ServedKept
<1>11. FilesInv'
  BY <1>8, <1>9, <1>10
<1>12. FS!Watched' = [FS!Watched EXCEPT ![c] = {FS!Stored[k.key]}]
  <2>1. FS!Stored[k.key] = secretFile[f.name]
    BY <1>1, <1>4, <1>5 DEF FS!Stored
  <2>2. ASSUME NEW d \in Client
        PROVE  (IF answer[d] = FS!None THEN window'[d] ELSE {})
                  = (IF d = c THEN {secretFile[f.name]} ELSE IF answer[d] = FS!None THEN window[d] ELSE {})
    BY <1>2, <1>7
  <2>3. FS!Watched' = [d \in Client |-> IF answer[d] = FS!None THEN window'[d] ELSE {}]
    BY <1>3 DEF FS!Watched, FS!None
  <2>4. [FS!Watched EXCEPT ![c] = {FS!Stored[k.key]}]
           = [d \in Client |-> IF d = c THEN {secretFile[f.name]}
                               ELSE IF answer[d] = FS!None THEN window[d] ELSE {}]
    BY <2>1 DEF FS!Watched
  <2> QED  BY <2>2, <2>3, <2>4
<1>13. FS!Stored' = FS!Stored
  BY <1>3 DEF FS!Stored, FS!validateKey
<1>14. FS!Changed' = FS!Changed
  <2>1. ASSUME NEW d \in Client
        PROVE  (fcall'[d] # NoRequest /\ fcall'[d].op \in {"write", "remove"} /\ ret[d] = "ok")
                  = (fcall[d] # NoRequest /\ fcall[d].op \in {"write", "remove"} /\ ret[d] = "ok")
    BY <1>2, <1>7
  <2> QED  BY <1>3, <2>1 DEF FS!Changed
<1> QED  BY <1>1, <1>3, <1>4, <1>11, <1>12, <1>13, <1>14 DEF FS!SS!Begin

LEMMA EffectStep ==
    ASSUME FS!StoreAssumption, FilesInv, NEW c \in Client, FS!CF!Pending(c),
           fcall[c].op \in {"write", "remove"}, UNCHANGED <<request, answer>>,
           FS!CF!TakesEffect(c, fcall[c].name, request[c].value)
    PROVE  FilesInv' /\ FS!SS!Effect(c)
<1> USE DEF FilesInv, FilesTyped
<1> DEFINE k == request[c]
           v == request[c].value
<1>1. /\ fcall[c] # NoRequest /\ ret[c] = "none" /\ answer[c] = FS!None
      /\ FS!validateKey(k.key) /\ fcall[c].op = FS!FileOp(k.op) /\ fcall[c].name = FS!path(k.key)
      /\ request[c] # NoRequest /\ out[c] = NoSecret
  BY DEF FS!CF!Pending, Served
<1>2. /\ secretFile' = [secretFile EXCEPT ![FS!path(k.key)] = v]
      /\ window' = [d \in Client |-> IF fcall[d] # NoRequest /\ fcall[d].name = FS!path(k.key)
                                     THEN window[d] \cup {v} ELSE window[d]]
      /\ ret' = [ret EXCEPT ![c] = "ok"] /\ UNCHANGED <<request, answer, fcall, out>>
  BY <1>1 DEF FS!CF!TakesEffect
<1>3. k \in FS!Call /\ k.key \in SecretKey /\ v \in Contents /\ k.op \in {"Put", "Delete"}
  BY <1>1, RequestFacts
<1>4. FilesTyped'
  <2>1. FS!path(k.key) \in Names /\ "ok" \in FS!CF!Result
    BY <1>3 DEF Names, FS!CF!Result
  <2>2. secretFile' \in [Names -> Contents] /\ ret' \in [Client -> FS!CF!Result]
    BY <1>2, <1>3, <2>1
  <2>3. window' \in [Client -> SUBSET Contents]
    BY <1>2, <1>3
  <2> QED  BY <1>2, <2>2, <2>3
<1>5. Served(c)'
  <2>1. v \in window'[c] /\ ret'[c] = "ok"
    BY <1>1, <1>2
  <2> QED  BY <1>1, <1>2, <1>3, <2>1 DEF Served, FS!validateKey, FS!None
<1>6. ASSUME NEW d \in Client, d # c  PROVE Served(d)'
  <2>1. ret'[d] = ret[d] /\ window[d] \subseteq window'[d]
        /\ (fcall[d] = NoRequest => window'[d] = window[d])
    BY <1>2, <1>6
  <2> QED  BY <1>2, <2>1, ServedKept
<1>7. FilesInv'
  BY <1>4, <1>5, <1>6
<1>8. FS!Stored' = [FS!Stored EXCEPT ![k.key] = v]
  BY <1>1, <1>2, <1>3, StoredChange
<1>9. FS!Watched' = [d \in Client |-> IF FS!SS!Pending(d) /\ request[d].key = k.key
                                      THEN FS!Watched[d] \cup {v} ELSE FS!Watched[d]]
  <2>1. ASSUME NEW d \in Client
        PROVE  (IF answer[d] = FS!None THEN window'[d] ELSE {})
                  = (IF FS!SS!Pending(d) /\ request[d].key = k.key
                     THEN FS!Watched[d] \cup {v} ELSE FS!Watched[d])
    <3>1. CASE answer[d] # FS!None
      BY <3>1, SecretViews
    <3>2. CASE answer[d] = FS!None /\ fcall[d] = NoRequest
      <4>1. request[d] = NoRequest
        BY <3>2 DEF Served
      <4> QED  BY <1>2, <3>2, <4>1, SecretViews
    <3>3. CASE answer[d] = FS!None /\ fcall[d] # NoRequest
      <4>1. request[d] # NoRequest /\ FS!validateKey(request[d].key) /\ fcall[d].name = FS!path(request[d].key)
        BY <3>3 DEF Served
      <4>2. request[d].key \in SecretKey
        BY <4>1, RequestFacts
      <4>3. FS!path(request[d].key) = FS!path(k.key) <=> request[d].key = k.key
        BY <1>1, <1>3, <4>1, <4>2, PathsApart
      <4> QED  BY <1>2, <3>3, <4>1, <4>3, SecretViews
    <3> QED  BY <3>1, <3>2, <3>3
  <2>2. FS!Watched' = [d \in Client |-> IF answer[d] = FS!None THEN window'[d] ELSE {}]
    BY <1>2 DEF FS!Watched, FS!None
  <2> QED  BY <2>1, <2>2
<1>10. FS!Changed' = [FS!Changed EXCEPT ![c] = TRUE]
  <2>1. ASSUME NEW d \in Client
        PROVE  (fcall[d] # NoRequest /\ fcall[d].op \in {"write", "remove"} /\ ret'[d] = "ok")
                  = (IF d = c THEN TRUE
                     ELSE fcall[d] # NoRequest /\ fcall[d].op \in {"write", "remove"} /\ ret[d] = "ok")
    BY <1>1, <1>2
  <2>2. FS!Changed' = [d \in Client |-> fcall[d] # NoRequest /\ fcall[d].op \in {"write", "remove"}
                                           /\ ret'[d] = "ok"]
    BY <1>2 DEF FS!Changed
  <2>3. [FS!Changed EXCEPT ![c] = TRUE]
          = [d \in Client |-> IF d = c THEN TRUE
                ELSE fcall[d] # NoRequest /\ fcall[d].op \in {"write", "remove"} /\ ret[d] = "ok"]
    BY DEF FS!Changed
  <2> QED  BY <2>1, <2>2, <2>3
<1>11. FS!SS!Pending(c) /\ ~FS!Changed[c]
  BY <1>1, SecretViews
<1> QED  BY <1>2, <1>3, <1>7, <1>8, <1>9, <1>10, <1>11 DEF FS!SS!Effect

\* A file operation that only comes to a result does not show in the store.
LEMMA DecideStep ==
    ASSUME FS!StoreAssumption, FilesInv, NEW c \in Client, FS!CF!Decide(c),
           UNCHANGED <<request, answer>>
    PROVE  FilesInv' /\ UNCHANGED FS!SS!vars
<1> USE DEF FilesInv, FilesTyped
<1>1. PICK r \in FS!CF!Result \ {"none"}, v \in Contents :
         /\ FS!CF!Allowed(c, r, v)
         /\ ret' = [ret EXCEPT ![c] = r] /\ out' = [out EXCEPT ![c] = v]
  BY DEF FS!CF!Decide, Contents
<1>2. /\ fcall[c] # NoRequest /\ ret[c] = "none" /\ answer[c] = FS!None
      /\ UNCHANGED <<secretFile, fcall, window, request, answer>>
      /\ FS!validateKey(request[c].key) /\ fcall[c].op = FS!FileOp(request[c].op)
      /\ request[c] # NoRequest
  BY DEF FS!CF!Decide, FS!CF!Pending, Served
<1>3. ret'[c] = r /\ out'[c] = v
  BY <1>1
<1>4. /\ r = "ok" => request[c].op = "Get" /\ v \in SecretValue \cap window[c]
      /\ r = "notexist" => NoSecret \in window[c]
  <2>1. fcall[c].op = "read" => request[c].op = "Get"
    BY <1>2, RequestFacts
  <2>2. fcall[c].op # "exists"
    BY <1>2, RequestFacts
  <2> QED  BY <1>1, <2>1, <2>2 DEF FS!CF!Allowed
<1>5. FilesTyped'
  BY <1>1, <1>2
<1>6. Served(c)'
  BY <1>1, <1>2, <1>3, <1>4 DEF Served, FS!validateKey, FS!None
<1>7. ASSUME NEW d \in Client, d # c  PROVE Served(d)'
  <2>1. ret'[d] = ret[d] /\ out'[d] = out[d]
    BY <1>1, <1>7
  <2> QED  BY <1>2, <2>1, ServedKept
<1>8. FilesInv'
  BY <1>5, <1>6, <1>7
<1>9. FS!Stored' = FS!Stored /\ FS!Watched' = FS!Watched
  BY <1>2 DEF FS!Stored, FS!Watched, FS!validateKey, FS!None
<1>10. FS!Changed' = FS!Changed
  <2>1. ASSUME NEW d \in Client
        PROVE  (fcall[d] # NoRequest /\ fcall[d].op \in {"write", "remove"} /\ ret'[d] = "ok")
                  = (fcall[d] # NoRequest /\ fcall[d].op \in {"write", "remove"} /\ ret[d] = "ok")
    <3>1. r = "ok" => fcall[c].op = "read"
      BY <1>2, <1>4, RequestFacts
    <3> QED  BY <1>1, <1>2, <3>1
  <2> QED  BY <1>2, <2>1 DEF FS!Changed
<1> QED  BY <1>2, <1>8, <1>9, <1>10 DEF FS!SS!vars

LEMMA AccessStep ==
    ASSUME FS!StoreAssumption, FilesInv, NEW c \in Client, FS!Access(c)
    PROVE  FilesInv' /\ (FS!SS!Effect(c) \/ UNCHANGED FS!SS!vars)
<1>1. UNCHANGED <<request, answer>>
  BY DEF FS!Access
<1>2. CASE FS!CF!Install(c)
  <2>1. fcall[c].value = request[c].value
    BY <1>2 DEF FS!CF!Install, FS!CF!Pending, FilesInv, Served
  <2> QED  BY <1>1, <1>2, <2>1, EffectStep DEF FS!CF!Install
<1>3. CASE FS!CF!Unlink(c)
  <2>1. /\ request[c] # NoRequest /\ fcall[c].op = FS!FileOp(request[c].op) /\ fcall[c].op = "remove"
        /\ request[c] \in FS!Call
    BY <1>3 DEF FS!CF!Unlink, FS!CF!Pending, FilesInv, FilesTyped, Served
  <2>2. request[c].value = NoSecret
    BY <2>1, RequestFacts
  <2> QED  BY <1>1, <1>3, <2>2, EffectStep DEF FS!CF!Unlink
<1> QED  BY <1>1, <1>2, <1>3, DecideStep DEF FS!Access

LEMMA FileReturnStep ==
    ASSUME FS!StoreAssumption, FilesInv, NEW c \in Client, FS!Return(c)
    PROVE  FilesInv' /\ FS!SS!Return(c)
<1> USE DEF FilesInv, FilesTyped
<1>1. /\ fcall[c] # NoRequest /\ ret[c] # "none" /\ answer[c] = FS!None
      /\ answer' = [answer EXCEPT ![c] = FS!Outcome(c)]
      /\ UNCHANGED <<request, secretFile, fcall, window, ret, out>>
  BY DEF FS!Return, FS!files
<1>2. request[c] # NoRequest /\ request[c] \in FS!Call /\ answer'[c] = FS!Outcome(c)
  BY <1>1 DEF Served
<1>3. request[c].op \in {"Put", "Get", "Delete"} /\ (request[c].op = "Delete" => request[c].value = NoSecret)
  BY <1>2, RequestFacts
<1>4. FS!Watched[c] = window[c]
  BY <1>1, SecretViews
<1>5. FS!Outcome(c) \in FS!SS!Answers(c) \cup {FS!SS!Err}
  <2>1. CASE ret[c] = "ok" /\ request[c].op = "Get"
    <3>1. FS!Outcome(c) = FS!SS!Ok(out[c]) /\ out[c] \in FS!Watched[c] \cap SecretValue
      BY <1>4, <2>1 DEF FS!Outcome, FS!SS!Ok, Served
    <3> QED  BY <2>1, <3>1 DEF FS!SS!Answers
  <2>2. CASE ret[c] = "ok" /\ request[c].op # "Get"
    <3>1. FS!Outcome(c) = FS!SS!Ok(NoSecret) /\ request[c].value \in FS!Watched[c]
      BY <1>4, <2>2 DEF FS!Outcome, FS!SS!Ok, Served
    <3> QED  BY <2>2, <3>1 DEF FS!SS!Answers
  <2>3. CASE ret[c] = "notexist" /\ request[c].op = "Get"
    <3>1. FS!Outcome(c) = FS!SS!NotFound /\ NoSecret \in FS!Watched[c]
      BY <1>4, <2>3 DEF FS!Outcome, FS!SS!NotFound, Served
    <3> QED  BY <2>3, <3>1 DEF FS!SS!Answers
  <2>4. CASE ret[c] = "notexist" /\ request[c].op = "Delete"
    <3>1. FS!Outcome(c) = FS!SS!Ok(NoSecret) /\ request[c].value \in FS!Watched[c]
      BY <1>3, <1>4, <2>4 DEF FS!Outcome, FS!SS!Ok, Served
    <3> QED  BY <2>4, <3>1 DEF FS!SS!Answers
  <2>5. CASE ret[c] # "ok" /\ ~(ret[c] = "notexist" /\ request[c].op \in {"Get", "Delete"})
    BY <2>5 DEF FS!Outcome, FS!SS!Err
  <2> QED  BY <1>3, <2>1, <2>2, <2>3, <2>4, <2>5
<1>6. FS!Outcome(c) # FS!None
  <2>1. FS!Outcome(c)[1] \in {"ok", "notfound", "err"}
    BY DEF FS!Outcome
  <2>2. <<"none", NoSecret>>[1] = "none"
    OBVIOUS
  <2> QED  BY <2>1, <2>2 DEF FS!None
<1>7. FilesTyped'
  BY <1>1
<1>8. Served(c)'
  BY <1>1, <1>2, <1>6 DEF Served, FS!validateKey, FS!None
<1>9. ASSUME NEW d \in Client, d # c  PROVE Served(d)'
  <2>1. answer'[d] = answer[d]
    BY <1>1, <1>9
  <2> QED  BY <1>1, <2>1, ServedKept
<1>10. FilesInv'
  BY <1>7, <1>8, <1>9
<1>11. FS!Watched' = [FS!Watched EXCEPT ![c] = {}]
  <2>1. ASSUME NEW d \in Client
        PROVE  (IF answer'[d] = FS!None THEN window[d] ELSE {})
                  = (IF d = c THEN {} ELSE IF answer[d] = FS!None THEN window[d] ELSE {})
    BY <1>1, <1>2, <1>6
  <2>2. FS!Watched' = [d \in Client |-> IF answer'[d] = FS!None THEN window[d] ELSE {}]
    BY <1>1 DEF FS!Watched, FS!None
  <2>3. [FS!Watched EXCEPT ![c] = {}]
          = [d \in Client |-> IF d = c THEN {} ELSE IF answer[d] = FS!None THEN window[d] ELSE {}]
    BY DEF FS!Watched
  <2> QED  BY <2>1, <2>2, <2>3
<1>12. FS!Stored' = FS!Stored /\ FS!Changed' = FS!Changed
  BY <1>1 DEF FS!Stored, FS!Changed, FS!validateKey
<1>13. FS!SS!Pending(c)
  BY <1>1, <1>2, SecretViews
<1> QED  BY <1>1, <1>5, <1>10, <1>11, <1>12, <1>13 DEF FS!SS!Return

LEMMA FileLeaveStep ==
    ASSUME FS!StoreAssumption, FilesInv, NEW c \in Client, FS!Leave(c)
    PROVE  FilesInv' /\ FS!SS!Leave(c)
<1> USE DEF FilesInv, FilesTyped
<1>1. /\ request[c] # NoRequest /\ request' = [request EXCEPT ![c] = NoRequest]
      /\ answer' = [answer EXCEPT ![c] = FS!None]
      /\ secretFile' = secretFile
  BY DEF FS!Leave, FS!files, FS!CF!Leave
<1>2. /\ fcall' = [fcall EXCEPT ![c] = NoRequest] /\ window' = [window EXCEPT ![c] = {}]
      /\ ret' = [ret EXCEPT ![c] = "none"] /\ out' = [out EXCEPT ![c] = NoSecret]
  <2>1. CASE fcall[c] = NoRequest
    <3>1. window[c] = {} /\ ret[c] = "none" /\ out[c] = NoSecret
      BY <2>1 DEF Served
    <3>2. UNCHANGED <<fcall, window, ret, out>>
      BY <2>1 DEF FS!Leave, FS!files
    <3> QED  BY <2>1, <3>1, <3>2
  <2>2. CASE fcall[c] # NoRequest
    BY <2>2 DEF FS!Leave, FS!CF!Leave
  <2> QED  BY <2>1, <2>2
<1>3. /\ request'[c] = NoRequest /\ answer'[c] = FS!None /\ fcall'[c] = NoRequest
      /\ window'[c] = {} /\ ret'[c] = "none" /\ out'[c] = NoSecret
  BY <1>1, <1>2
<1>4. FilesTyped'
  <2>1. "none" \in FS!CF!Result /\ NoSecret \in Contents
    BY DEF FS!CF!Result, Contents
  <2> QED  BY <1>1, <1>2, <2>1
<1>5. Served(c)'
  BY <1>3 DEF Served, FS!validateKey, FS!None
<1>6. ASSUME NEW d \in Client, d # c  PROVE Served(d)'
  <2>1. /\ request'[d] = request[d] /\ answer'[d] = answer[d] /\ fcall'[d] = fcall[d]
        /\ window'[d] = window[d] /\ ret'[d] = ret[d] /\ out'[d] = out[d]
    BY <1>1, <1>2, <1>6
  <2> QED  BY <2>1, ServedKept
<1>7. FilesInv'
  BY <1>4, <1>5, <1>6
<1>8. FS!Watched' = [FS!Watched EXCEPT ![c] = {}]
  <2>1. ASSUME NEW d \in Client
        PROVE  (IF answer'[d] = FS!None THEN window'[d] ELSE {})
                  = (IF d = c THEN {} ELSE IF answer[d] = FS!None THEN window[d] ELSE {})
    BY <1>1, <1>2, <1>3
  <2>2. FS!Watched' = [d \in Client |-> IF answer'[d] = FS!None THEN window'[d] ELSE {}]
    BY DEF FS!Watched, FS!None
  <2>3. [FS!Watched EXCEPT ![c] = {}]
          = [d \in Client |-> IF d = c THEN {} ELSE IF answer[d] = FS!None THEN window[d] ELSE {}]
    BY DEF FS!Watched
  <2> QED  BY <2>1, <2>2, <2>3
<1>9. FS!Changed' = [FS!Changed EXCEPT ![c] = FALSE]
  <2>1. ASSUME NEW d \in Client
        PROVE  (fcall'[d] # NoRequest /\ fcall'[d].op \in {"write", "remove"} /\ ret'[d] = "ok")
                  = (IF d = c THEN FALSE
                     ELSE fcall[d] # NoRequest /\ fcall[d].op \in {"write", "remove"} /\ ret[d] = "ok")
    BY <1>2, <1>3
  <2>2. FS!Changed' = [d \in Client |-> fcall'[d] # NoRequest /\ fcall'[d].op \in {"write", "remove"}
                                           /\ ret'[d] = "ok"]
    BY DEF FS!Changed
  <2>3. [FS!Changed EXCEPT ![c] = FALSE]
          = [d \in Client |-> IF d = c THEN FALSE
                ELSE fcall[d] # NoRequest /\ fcall[d].op \in {"write", "remove"} /\ ret[d] = "ok"]
    BY DEF FS!Changed
  <2> QED  BY <2>1, <2>2, <2>3
<1>10. FS!Stored' = FS!Stored
  BY <1>1 DEF FS!Stored, FS!validateKey
<1> QED  BY <1>1, <1>7, <1>8, <1>9, <1>10 DEF FS!SS!Leave, FS!SS!None, FS!None

LEMMA FilesStart ==
    ASSUME FS!StoreAssumption, FS!Init
    PROVE  FilesInv /\ FS!SS!Init
<1>1. /\ request = [c \in Client |-> NoRequest] /\ answer = [c \in Client |-> FS!None]
      /\ secretFile = [f \in Names |-> NoSecret]
      /\ fcall = [c \in Client |-> NoRequest] /\ window = [c \in Client |-> {}]
      /\ ret = [c \in Client |-> "none"] /\ out = [c \in Client |-> NoSecret]
  BY DEF FS!Init, FS!CF!Init, Names
<1>2. FilesTyped
  <2>1. "none" \in FS!CF!Result /\ NoSecret \in Contents
    BY DEF FS!CF!Result, Contents
  <2> QED  BY <1>1, <2>1 DEF FilesTyped
<1>3. ASSUME NEW c \in Client  PROVE Served(c)
  BY <1>1 DEF Served
<1>4. FilesInv
  BY <1>2, <1>3 DEF FilesInv
<1>5. FS!Stored \in [SecretKey -> SecretValue \cup {NoSecret, Unreadable}]
  BY <1>1 DEF FS!Stored, Names
<1>6. FS!Watched = [c \in Client |-> {}] /\ FS!Changed = [c \in Client |-> FALSE]
  BY <1>1 DEF FS!Watched, FS!Changed
<1>7. answer = [c \in Client |-> FS!SS!None]
  BY <1>1 DEF FS!None, FS!SS!None
<1> QED  BY <1>1, <1>4, <1>5, <1>6, <1>7 DEF FS!SS!Init

LEMMA FilesStep ==
    ASSUME FS!StoreAssumption, FilesInv, [FS!Next]_(FS!vars)
    PROVE  FilesInv' /\ [FS!SS!Next]_(FS!SS!vars)
<1>1. CASE UNCHANGED FS!vars
  <2>1. UNCHANGED <<request, answer, secretFile, fcall, window, ret, out>>
    BY <1>1 DEF FS!vars, FS!files
  <2>2. FilesInv'
    <3>1. \A c \in Client : Served(c)'
      BY <2>1, ServedKept
    <3> QED  BY <2>1, <3>1 DEF FilesInv, FilesTyped
  <2>3. UNCHANGED FS!SS!vars
    BY <2>1 DEF FS!SS!vars, FS!Stored, FS!Watched, FS!Changed, FS!validateKey, FS!None
  <2> QED  BY <2>2, <2>3
<1>2. ASSUME NEW c \in Client, FS!Reject(c) \/ FS!Begin(c) \/ FS!Access(c) \/ FS!Return(c) \/ FS!Leave(c)
      PROVE  FilesInv' /\ [FS!SS!Next]_(FS!SS!vars)
  BY <1>2, RejectStep, FileBeginStep, AccessStep, FileReturnStep, FileLeaveStep DEF FS!SS!Next
<1> QED  BY <1>1, <1>2 DEF FS!Next

\* The file store does what the Store interface promises, for any keys, values and
\* number of clients: a Get returns what was stored under its own key during the
\* call, and the digest of service, NUL and account keeps the keys apart because
\* neither part may contain NUL (secret/secret.go 53-110).
THEOREM FilesImplementSecretStore ==
    ASSUME FS!StoreAssumption
    PROVE  FS!Spec => FilesImplementStore
<1>1. FS!Init => FilesInv /\ FS!SS!Init
  BY FilesStart
<1>2. FilesInv /\ [FS!Next]_(FS!vars) => FilesInv' /\ [FS!SS!Next]_(FS!SS!vars)
  BY FilesStep
<1>3. FilesInv /\ [FS!Next]_(FS!vars) =>
        FilesInv' /\ [UNCHANGED FS!vars \/ UNCHANGED FS!SS!vars \/ FS!SS!Next]_(FS!vars)
  BY <1>2
<1> QED  BY <1>1, <1>3, PTL DEF FS!Spec, FilesImplementStore, FS!ImplementsSecretStore

-----------------------------------------------------------------------------
(* Secrets in the keychain                                                  *)

KeychainTyped == KC!TypeOK /\ DOMAIN reply = Client

\* What a Get has read so far, as one item.
Pieced(c) == [marked |-> marking[c], text |-> text[c]]

\* The place of a client says which call it is in, and an item that is there now
\* was there during the call.
Placed(c) ==
    /\ place[c] = "idle" => order[c] = NoRequest /\ ~acted[c]
    /\ place[c] # "idle" => order[c] \in KC!Call
    /\ place[c] = "add" => order[c].op = "Put" /\ ~acted[c]
    /\ place[c] = "delete" => order[c].op = "Delete" /\ ~acted[c]
    /\ place[c] \in KC!Getting => order[c].op \in {"Put", "Get"}
    /\ place[c] = "recheck" => text[c] \in KC!Text
    /\ KC!Inside(c) => KC!Meaning(item) \in stored[c]
    /\ place[c] \in {"return", "done"} => reply[c][1] # "none"

\* The marking of the keychain differs from what a Get has read only after a change
\* of the marking; and as long as they agree without two changes, what the Get has
\* pieced together was there.
Dated(c) ==
    place[c] \in {"value", "recheck"} /\ order[c].op = "Get" =>
        /\ item.marked # marking[c] => flips[c] >= 1
        /\ place[c] = "recheck" /\ item.marked = marking[c] /\ flips[c] < 2 =>
              KC!Meaning(Pieced(c)) \in stored[c]

Truthful(c) ==
    place[c] = "return" /\ order[c].op = "Get" /\ reply[c][1] = "ok" =>
        reply[c][2] \in stored[c] \/ flips[c] = 2

\* While nobody else writes, a marked item is only ever replaced by a marked one or
\* by nothing.
Alone(c) ==
    /\ place[c] \in {"value", "recheck"} /\ marking[c] => item.marked \/ item = KC!NoItem
    /\ place[c] = "recheck" =>
          \/ KC!Meaning(Pieced(c)) \in stored[c]
          \/ ~marking[c] /\ (item.marked \/ item = KC!NoItem)
    /\ place[c] = "return" => KC!Result(reply[c]) \in KC!SS!Answers(c) \cup {KC!Err}

KeychainInv ==
    /\ KeychainTyped
    /\ \A c \in Client : Placed(c) /\ Dated(c) /\ Truthful(c)
    /\ foreign = 0 => \A c \in Client : Alone(c)

LEMMA EncodedFacts ==
    ASSUME NEW v, NEW w
    PROVE  KC!Encoded(v)[2] = v /\ (KC!Encoded(v) = KC!Encoded(w) <=> v = w)
BY DEF KC!Encoded

\* What credkit writes and reads are items, and NoItem is none.
LEMMA ItemFacts ==
    ASSUME KC!KeychainAssumption, NEW m \in BOOLEAN, NEW t \in KC!Text
    PROVE  /\ [marked |-> m, text |-> t] \in KC!Item
           /\ [marked |-> m, text |-> t] # KC!NoItem
<1>1. t # NoSecret
  BY DEF KC!KeychainAssumption
<1>2. [marked |-> m, text |-> t].text # KC!NoItem.text
  BY <1>1 DEF KC!NoItem
<1> QED  BY <1>2 DEF KC!Item

\* The secret that a Get returns is the one that the item it has seen stands for.
LEMMA DecodeExact ==
    ASSUME KC!KeychainAssumption, policy \in KC!Policy, NEW m \in BOOLEAN, NEW t \in KC!Text,
           KC!Decode(m, t)[1] = "ok"
    PROVE  /\ KC!Decode(m, t) = <<"ok", KC!Meaning([marked |-> m, text |-> t])>>
           /\ KC!Meaning([marked |-> m, text |-> t]) \in KC!Text
<1> DEFINE i == [marked |-> m, text |-> t]
<1>1. i # KC!NoItem /\ i.marked = m /\ i.text = t
  BY ItemFacts
<1>2. t \in Base <=> ~KC!Prefixed(t)
  <2>1. ASSUME t \in Base  PROVE ~KC!Prefixed(t)
    BY <2>1 DEF KC!Prefixed, KC!KeychainAssumption
  <2>2. ASSUME t \notin Base  PROVE KC!Prefixed(t)
    BY <2>2 DEF KC!Prefixed, KC!Text, KC!Secret
  <2> QED  BY <2>1, <2>2
<1>3. <<"err", NoSecret>>[1] # "ok" /\ <<"ambiguous", NoSecret>>[1] # "ok"
  OBVIOUS
<1>4. CASE KC!Decodes(m, t)
  <2>1. KC!Prefixed(t) /\ t # KC!Encoded(Junk) /\ KC!Decode(m, t) = <<"ok", t[2]>>
    BY <1>3, <1>4 DEF KC!Decode, KC!Err
  <2>2. PICK v \in KC!Secret : t = KC!Encoded(v)
    BY <2>1 DEF KC!Prefixed
  <2>3. t[2] = v /\ v \in KC!Text /\ t \in {KC!Encoded(w) : w \in KC!Secret}
    BY <2>2, EncodedFacts DEF KC!Text
  <2>4. KC!Meaning(i) = t[2]
    <3>1. CASE m
      BY <1>1, <2>3, <3>1 DEF KC!Meaning
    <3>2. CASE ~m
      <4>1. policy = "LegacyBase64" /\ ~KC!Plain(t)
        BY <1>2, <1>4, <2>1, <3>2 DEF KC!Decodes, KC!Plain
      <4> QED  BY <1>1, <2>3, <3>2, <4>1 DEF KC!Meaning
    <3> QED  BY <3>1, <3>2
  <2> QED  BY <2>1, <2>3, <2>4
<1>5. CASE ~KC!Decodes(m, t)
  <2>1. /\ ~m /\ KC!Decode(m, t) = <<"ok", t>>
        /\ ~(KC!Prefixed(t) /\ policy = "LegacyRejectAmbiguous")
        /\ ~(KC!Prefixed(t) /\ policy = "LegacyBase64")
    BY <1>3, <1>5 DEF KC!Decode, KC!Ambiguous, KC!Decodes
  <2>2. KC!Plain(t)
    BY <1>2, <2>1 DEF KC!Plain, KC!Policy
  <2>3. KC!Meaning(i) = t
    BY <1>1, <2>1, <2>2 DEF KC!Meaning
  <2> QED  BY <2>1, <2>3
<1> QED  BY <1>4, <1>5

LEMMA MarkedTyped ==
    ASSUME NEW i \in KC!Item \cup {KC!NoItem}
    PROVE  i.marked \in BOOLEAN /\ (i = KC!NoItem \/ i.text \in KC!Text)
<1>1. CASE i \in KC!Item
  BY <1>1 DEF KC!Item
<1>2. CASE i = KC!NoItem
  BY <1>2 DEF KC!NoItem
<1> QED  BY <1>1, <1>2

LEMMA MeaningTyped ==
    ASSUME NEW i \in KC!Item \cup {KC!NoItem}
    PROVE  KC!Meaning(i) \in KC!Text \cup {NoSecret, Unreadable}
<1>1. i.marked \in BOOLEAN /\ (i = KC!NoItem \/ i.text \in KC!Text)
  BY MarkedTyped
<1>2. \A w \in {KC!Encoded(v) : v \in KC!Secret} : w[2] \in KC!Text
  BY EncodedFacts DEF KC!Text
<1> QED  BY <1>1, <1>2 DEF KC!Meaning

\* What Put stores stands for the secret it was given.
LEMMA AddedMeaning ==
    ASSUME KC!KeychainAssumption, NEW v \in KC!Secret
    PROVE  /\ [marked |-> TRUE, text |-> KC!Encoded(v)] \in KC!Item
           /\ KC!Meaning([marked |-> TRUE, text |-> KC!Encoded(v)]) = v
<1>1. KC!Encoded(v) \in KC!Text
  BY DEF KC!Text
<1>2. [marked |-> TRUE, text |-> KC!Encoded(v)] # KC!NoItem
  BY <1>1, ItemFacts
<1>3. [marked |-> TRUE, text |-> KC!Encoded(v)] \in KC!Item
  BY <1>1, ItemFacts
<1> QED  BY <1>2, <1>3, EncodedFacts DEF KC!Meaning

LEMMA NothingMeans ==
    ASSUME KC!KeychainAssumption
    PROVE  KC!NoItem.marked = FALSE /\ KC!Meaning(KC!NoItem) = NoSecret
<1>1. KC!NoItem.marked = FALSE /\ KC!NoItem.text \notin {KC!Encoded(v) : v \in KC!Secret}
  BY DEF KC!NoItem, KC!KeychainAssumption, KC!Text
<1> QED  BY <1>1 DEF KC!Meaning

\* The priming of what does not change, and of what changes only with its argument.
LEMMA KeychainPrimes ==
    /\ KC!NoItem' = KC!NoItem /\ KC!Call' = KC!Call /\ KC!Text' = KC!Text /\ KC!Err' = KC!Err
    /\ KC!Getting' = KC!Getting
    /\ \A c \in Client : KC!Inside(c)' <=> place'[c] \notin {"idle", "done"}
    /\ \A c \in Client : KC!Result(reply[c])' = KC!Result(reply'[c])
BY DEF KC!NoItem, KC!Call, KC!Text, KC!Secret, KC!Encoded, KC!Err, KC!Getting, KC!Inside,
       KC!Result, KC!Ambiguous

LEMMA MeaningNext ==
    ASSUME policy' = policy
    PROVE  /\ KC!Meaning(item)' = KC!Meaning(item')
           /\ \A c \in Client : KC!Meaning(Pieced(c))'
                                   = KC!Meaning([marked |-> marking'[c], text |-> text'[c]])
BY DEF KC!Meaning, KC!Plain, Pieced, KC!NoItem, KC!Secret, KC!Encoded

LEMMA AnswersGrow ==
    ASSUME NEW c \in Client, order'[c] = order[c], stored[c] \subseteq stored'[c]
    PROVE  KC!SS!Answers(c) \subseteq KC!SS!Answers(c)'
BY DEF KC!SS!Answers, KC!SS!Ok, KC!SS!NotFound, KC!Text, KC!Secret, KC!Encoded

\* What a client has found out stays as it is when it does nothing itself ...
LEMMA IdleClient ==
    ASSUME KeychainInv, UNCHANGED <<item, policy>>, NEW d \in Client,
           order'[d] = order[d], place'[d] = place[d], marking'[d] = marking[d], text'[d] = text[d],
           reply'[d] = reply[d], acted'[d] = acted[d], stored'[d] = stored[d], flips'[d] = flips[d]
    PROVE  Placed(d)' /\ Dated(d)' /\ Truthful(d)' /\ (Alone(d) => Alone(d)')
<1> USE DEF KeychainInv, KeychainTyped
<1>1. Placed(d)'
  BY KeychainPrimes, MeaningNext DEF Placed, KC!Inside
<1>2. Dated(d)' /\ (Alone(d) => Alone(d)')
  <2>1. KC!Meaning(Pieced(d))' = KC!Meaning(Pieced(d))
    BY MeaningNext DEF Pieced
  <2> QED  BY <2>1, KeychainPrimes, AnswersGrow DEF Dated, Alone
<1>3. Truthful(d)'
  BY DEF Truthful
<1> QED  BY <1>1, <1>2, <1>3

\* ... and when another changes the keychain.
LEMMA BusyClient ==
    ASSUME KC!KeychainAssumption, KeychainInv, NEW i \in KC!Item \cup {KC!NoItem}, KC!Store(i),
           policy' = policy, NEW d \in Client,
           order'[d] = order[d], place'[d] = place[d], marking'[d] = marking[d], text'[d] = text[d],
           reply'[d] = reply[d], acted'[d] = acted[d]
    PROVE  /\ Placed(d)' /\ Dated(d)' /\ Truthful(d)'
           /\ Alone(d) /\ (i.marked \/ i = KC!NoItem) => Alone(d)'
<1> USE DEF KeychainInv, KeychainTyped
<1>1. /\ item' = i
      /\ stored'[d] = IF KC!Inside(d) THEN stored[d] \cup {KC!Meaning(i)} ELSE stored[d]
      /\ flips'[d] = IF place[d] \in KC!Getting /\ order[d].op = "Get" /\ i.marked # item.marked
                        /\ flips[d] < 2
                     THEN flips[d] + 1 ELSE flips[d]
      /\ flips[d] \in 0 .. 2
  BY DEF KC!Store, KC!TypeOK
<1>2. Placed(d)'
  BY <1>1, KeychainPrimes, MeaningNext DEF Placed, KC!Inside
<1>3. KC!Meaning(Pieced(d))' = KC!Meaning(Pieced(d)) /\ stored[d] \subseteq stored'[d]
  BY <1>1, MeaningNext DEF Pieced
<1>4. Dated(d)'
  <2>1. SUFFICES ASSUME place[d] \in {"value", "recheck"}, order[d].op = "Get"
                 PROVE  /\ i.marked # marking[d] => flips'[d] >= 1
                        /\ place[d] = "recheck" /\ i.marked = marking[d] /\ flips'[d] < 2 =>
                              KC!Meaning(Pieced(d)) \in stored'[d]
    BY <1>1, <1>3 DEF Dated
  <2>2. place[d] \in KC!Getting
    BY <2>1 DEF KC!Getting
  <2>3. /\ item.marked # marking[d] => flips[d] >= 1
        /\ place[d] = "recheck" /\ item.marked = marking[d] /\ flips[d] < 2 =>
              KC!Meaning(Pieced(d)) \in stored[d]
    BY <2>1 DEF Dated
  <2>4. i.marked # item.marked => flips'[d] >= 1 /\ (flips[d] >= 1 => flips'[d] = 2)
    BY <1>1, <2>1, <2>2
  <2>5. i.marked = item.marked => flips'[d] = flips[d]
    BY <1>1
  <2>6. item.marked \in BOOLEAN /\ marking[d] \in BOOLEAN /\ i.marked \in BOOLEAN
    BY MarkedTyped DEF KC!TypeOK
  <2>7. flips'[d] \in 0 .. 2
    BY <1>1
  <2>8. CASE i.marked = item.marked
    BY <1>3, <2>3, <2>5, <2>8
  <2>9. CASE i.marked # item.marked
    <3>1. flips'[d] >= 1
      BY <2>4, <2>9
    <3>2. i.marked = marking[d] => item.marked # marking[d]
      BY <2>9
    <3>3. i.marked = marking[d] => flips'[d] = 2
      BY <2>3, <2>4, <2>9, <3>2
    <3> QED  BY <3>1, <3>3
  <2> QED  BY <2>8, <2>9
<1>5. Truthful(d)'
  <2>1. place[d] = "return" => flips'[d] = flips[d]
    BY <1>1 DEF KC!Getting
  <2> QED  BY <1>3, <2>1 DEF Truthful
<1>6. ASSUME Alone(d), i.marked \/ i = KC!NoItem  PROVE Alone(d)'
  <2>1. KC!SS!Answers(d) \subseteq KC!SS!Answers(d)'
    BY <1>3, AnswersGrow
  <2> QED  BY <1>1, <1>3, <1>6, <2>1, KeychainPrimes DEF Alone
<1> QED  BY <1>2, <1>4, <1>5, <1>6

\* A step of client c is none of any other client.
OthersKept(c) ==
    \A d \in Client \ {c} :
       /\ order'[d] = order[d] /\ place'[d] = place[d] /\ marking'[d] = marking[d]
       /\ text'[d] = text[d] /\ reply'[d] = reply[d] /\ acted'[d] = acted[d]

LEMMA QuietStep ==
    ASSUME KeychainInv, UNCHANGED <<item, policy, foreign>>, NEW c \in Client, KeychainTyped',
           OthersKept(c), \A d \in Client \ {c} : stored'[d] = stored[d] /\ flips'[d] = flips[d],
           Placed(c)', Dated(c)', Truthful(c)', foreign = 0 => Alone(c)'
    PROVE  KeychainInv'
<1>1. ASSUME NEW d \in Client
      PROVE  Placed(d)' /\ Dated(d)' /\ Truthful(d)' /\ (foreign = 0 => Alone(d)')
  <2>1. CASE d = c
    BY <2>1
  <2>2. CASE d # c
    <3>1. d \in Client \ {c}
      BY <2>2
    <3>2. /\ order'[d] = order[d] /\ place'[d] = place[d] /\ marking'[d] = marking[d]
          /\ text'[d] = text[d] /\ reply'[d] = reply[d] /\ acted'[d] = acted[d]
          /\ stored'[d] = stored[d] /\ flips'[d] = flips[d]
      BY <3>1 DEF OthersKept
    <3>3. foreign = 0 => Alone(d)
      BY DEF KeychainInv
    <3> QED  BY <3>2, <3>3, IdleClient
  <2> QED  BY <2>1, <2>2
<1>2. foreign' = foreign
  OBVIOUS
<1> QED  BY <1>1, <1>2 DEF KeychainInv

LEMMA ChangeStep ==
    ASSUME KC!KeychainAssumption, KeychainInv, NEW i \in KC!Item \cup {KC!NoItem}, KC!Store(i),
           i.marked \/ i = KC!NoItem, UNCHANGED <<policy, foreign>>, NEW c \in Client, KeychainTyped',
           OthersKept(c), Placed(c)', Dated(c)', Truthful(c)', foreign = 0 => Alone(c)'
    PROVE  KeychainInv'
<1>1. ASSUME NEW d \in Client
      PROVE  Placed(d)' /\ Dated(d)' /\ Truthful(d)' /\ (foreign = 0 => Alone(d)')
  <2>1. CASE d = c
    BY <2>1
  <2>2. CASE d # c
    <3>1. d \in Client \ {c}
      BY <2>2
    <3>2. /\ order'[d] = order[d] /\ place'[d] = place[d] /\ marking'[d] = marking[d]
          /\ text'[d] = text[d] /\ reply'[d] = reply[d] /\ acted'[d] = acted[d]
      BY <3>1 DEF OthersKept
    <3>3. foreign = 0 => Alone(d)
      BY DEF KeychainInv
    <3> QED  BY <3>2, <3>3, BusyClient
  <2> QED  BY <2>1, <2>2
<1>2. foreign' = foreign
  OBVIOUS
<1> QED  BY <1>1, <1>2 DEF KeychainInv

LEMMA StoreTyped ==
    ASSUME KeychainInv, NEW i \in KC!Item \cup {KC!NoItem}, KC!Store(i)
    PROVE  /\ item' = i /\ flips' \in [Client -> 0 .. 2]
           /\ stored' \in [Client -> SUBSET (KC!Text \cup {NoSecret, Unreadable})]
<1>1. KC!Meaning(i) \in KC!Text \cup {NoSecret, Unreadable}
  BY MeaningTyped
<1>2. /\ stored \in [Client -> SUBSET (KC!Text \cup {NoSecret, Unreadable})]
      /\ flips \in [Client -> 0 .. 2]
  BY DEF KeychainInv, KeychainTyped, KC!TypeOK
<1>3. flips' \in [Client -> 0 .. 2]
  <2>1. ASSUME NEW d \in Client
        PROVE  (IF place[d] \in KC!Getting /\ order[d].op = "Get" /\ i.marked # item.marked
                      /\ flips[d] < 2 THEN flips[d] + 1 ELSE flips[d]) \in 0 .. 2
    BY <1>2
  <2> QED  BY <2>1 DEF KC!Store
<1>4. stored' \in [Client -> SUBSET (KC!Text \cup {NoSecret, Unreadable})]
  BY <1>1, <1>2 DEF KC!Store
<1> QED  BY <1>3, <1>4 DEF KC!Store

\* The results that SecretStore shows.
Results == [c \in Client |-> IF place[c] = "done" THEN KC!Result(reply[c]) ELSE KC!None]

LEMMA OrderFacts ==
    ASSUME KC!KeychainAssumption, NEW k \in KC!Call
    PROVE  /\ k # NoRequest /\ k.key = theKey /\ k.op \in {"Put", "Get", "Delete"}
           /\ k.op = "Put" => k.value \in KC!Secret
           /\ k.op # "Put" => k.value = NoSecret
           /\ k \in KC!SS!Call
<1>1. k \in [op : {"Put", "Get", "Delete"}, key : {theKey}, value : KC!Secret \cup {NoSecret}]
  BY DEF KC!Call
<1>2. k # NoRequest
  BY <1>1 DEF KC!KeychainAssumption
<1>3. /\ k.key = theKey /\ k.op \in {"Put", "Get", "Delete"}
      /\ k.op = "Put" => k.value \in KC!Secret
      /\ k.op # "Put" => k.value = NoSecret
  BY DEF KC!Call
<1>4. k \in KC!SS!Call
  BY DEF KC!Call, KC!SS!Call, KC!Text
<1> QED  BY <1>2, <1>3, <1>4

LEMMA ResultFacts ==
    ASSUME KC!KeychainAssumption, KeychainInv
    PROVE  /\ \A c \in Client : place[c] = "done" => KC!Result(reply[c]) # KC!None
           /\ \A c \in Client : KC!SS!Pending(c) <=> KC!Inside(c)
<1>1. KC!None[1] = "none" /\ KC!Err[1] # "none"
  BY DEF KC!None, KC!Err
<1>2. ASSUME NEW c \in Client, place[c] = "done"  PROVE KC!Result(reply[c]) # KC!None
  <2>1. reply[c][1] # "none"
    BY <1>2 DEF KeychainInv, Placed
  <2> QED  BY <1>1, <2>1 DEF KC!Result
<1>3. ASSUME NEW c \in Client  PROVE KC!SS!Pending(c) <=> KC!Inside(c)
  <2>1. order[c] = NoRequest <=> place[c] = "idle"
    BY OrderFacts DEF KeychainInv, Placed
  <2> QED  BY <1>2, <2>1 DEF KC!SS!Pending, KC!SS!None, KC!None, KC!Inside
<1> QED  BY <1>2, <1>3

LEMMA Unseen ==
    ASSUME KeychainInv, UNCHANGED <<item, policy, order, acted, stored>>,
           \A d \in Client : /\ place'[d] = "done" <=> place[d] = "done"
                             /\ place[d] = "done" => reply'[d] = reply[d]
    PROVE  UNCHANGED KC!SS!vars
<1>1. KC!Meaning(item)' = KC!Meaning(item)
  BY MeaningNext
<1>2. ASSUME NEW d \in Client
      PROVE  (IF place'[d] = "done" THEN KC!Result(reply[d])' ELSE KC!None)
                = (IF place[d] = "done" THEN KC!Result(reply[d]) ELSE KC!None)
  BY DEF KC!Result, KC!Ambiguous, KC!Err
<1>3. Results' = Results
  <2>1. Results' = [d \in Client |-> IF place'[d] = "done" THEN KC!Result(reply[d])' ELSE KC!None]
    BY DEF Results, KC!None
  <2> QED  BY <1>2, <2>1 DEF Results
<1> QED  BY <1>1, <1>3 DEF KC!SS!vars, Results

LEMMA TypedNext ==
    ASSUME item' \in KC!Item \cup {KC!NoItem}, policy' \in KC!Policy, foreign' \in 0 .. MaxForeign,
           order' \in [Client -> KC!Call \cup {NoRequest}], place' \in [Client -> KC!PC],
           marking' \in [Client -> BOOLEAN], text' \in [Client -> KC!Text \cup {NoSecret}],
           acted' \in [Client -> BOOLEAN], flips' \in [Client -> 0 .. 2], DOMAIN reply' = Client,
           stored' \in [Client -> SUBSET (KC!Text \cup {NoSecret, Unreadable})]
    PROVE  KeychainTyped'
BY DEF KeychainTyped, KC!TypeOK, KC!Item, KC!NoItem, KC!Policy, KC!Call, KC!PC, KC!Text, KC!Secret,
       KC!Encoded

LEMMA KcRefuseStep ==
    ASSUME KC!KeychainAssumption, KeychainInv, NEW c \in Client, KC!Refuse(c)
    PROVE  KeychainInv' /\ KC!SS!Refuse(c)
<1> USE DEF KeychainInv, KeychainTyped, KC!TypeOK
<1>1. PICK k \in KC!Call : order' = [order EXCEPT ![c] = k]
  BY DEF KC!Refuse
<1>2. /\ place[c] = "idle" /\ place' = [place EXCEPT ![c] = "done"]
      /\ reply' = [reply EXCEPT ![c] = KC!Err]
      /\ UNCHANGED <<item, policy, marking, text, foreign, acted, stored, flips>>
  BY DEF KC!Refuse, KC!Goto
<1>3. k # NoRequest /\ k \in KC!SS!Call
  BY OrderFacts
<1>4. place'[c] = "done" /\ order'[c] = k /\ reply'[c] = KC!Err /\ KC!Err[1] # "none"
  BY <1>1, <1>2 DEF KC!Err
<1>5. KeychainTyped'
  <2>1. "done" \in KC!PC
    BY DEF KC!PC
  <2> QED  BY <1>1, <1>2, <2>1, TypedNext
<1>6. Placed(c)' /\ Dated(c)' /\ Truthful(c)' /\ Alone(c)'
  BY <1>4, KeychainPrimes DEF Placed, Dated, Truthful, Alone, KC!Getting
<1>7. OthersKept(c)
  BY <1>1, <1>2 DEF OthersKept
<1>8. KeychainInv'
  <2> HIDE DEF KeychainInv, KeychainTyped
  <2> QED  BY <1>2, <1>5, <1>6, <1>7, QuietStep
<1>9. KC!Meaning(item)' = KC!Meaning(item)
  BY <1>2, MeaningNext
<1>10. Results' = [Results EXCEPT ![c] = KC!Err]
  <2>1. KC!Result(KC!Err) = KC!Err
    BY DEF KC!Result
  <2>2. ASSUME NEW d \in Client
        PROVE  (IF place'[d] = "done" THEN KC!Result(reply[d])' ELSE KC!None)
                  = (IF d = c THEN KC!Err ELSE IF place[d] = "done" THEN KC!Result(reply[d]) ELSE KC!None)
    BY <1>2, <1>4, <2>1, KeychainPrimes
  <2>3. Results' = [d \in Client |-> IF place'[d] = "done" THEN KC!Result(reply[d])' ELSE KC!None]
    BY DEF Results, KC!None
  <2>4. [Results EXCEPT ![c] = KC!Err]
          = [d \in Client |-> IF d = c THEN KC!Err
                              ELSE IF place[d] = "done" THEN KC!Result(reply[d]) ELSE KC!None]
    BY DEF Results
  <2> QED  BY <2>2, <2>3, <2>4
<1>11. order[c] = NoRequest
  BY <1>2 DEF Placed
<1> QED  BY <1>1, <1>2, <1>3, <1>8, <1>9, <1>10, <1>11 DEF KC!SS!Refuse, Results, KC!SS!Err, KC!Err

LEMMA KcBeginStep ==
    ASSUME KC!KeychainAssumption, KeychainInv, NEW c \in Client, KC!Begin(c)
    PROVE  KeychainInv' /\ KC!SS!Begin(c)
<1> USE DEF KeychainInv, KeychainTyped, KC!TypeOK
<1> DEFINE l(k) == IF k.op = "Put" THEN "add" ELSE IF k.op = "Get" THEN "metadata" ELSE "delete"
<1>1. PICK k \in KC!Call : order' = [order EXCEPT ![c] = k] /\ place' = [place EXCEPT ![c] = l(k)]
  <2>1. ASSUME NEW k \in KC!Call
        PROVE  (CASE k.op = "Put" -> "add" [] k.op = "Get" -> "metadata" [] k.op = "Delete" -> "delete") = l(k)
    BY OrderFacts
  <2> QED  BY <2>1 DEF KC!Begin, KC!Goto
<1>2. /\ place[c] = "idle" /\ stored' = [stored EXCEPT ![c] = {KC!Meaning(item)}]
      /\ UNCHANGED <<item, policy, marking, text, reply, foreign, acted, flips>>
  BY DEF KC!Begin
<1>3. k # NoRequest /\ k \in KC!SS!Call /\ k.key = theKey /\ k.op \in {"Put", "Get", "Delete"}
  BY OrderFacts
<1>4. /\ place'[c] = l(k) /\ l(k) \in {"add", "metadata", "delete"}
      /\ order'[c] = k /\ stored'[c] = {KC!Meaning(item)} /\ acted'[c] = FALSE
  BY <1>1, <1>2 DEF Placed
<1>5. KeychainTyped'
  <2>1. l(k) \in KC!PC
    BY DEF KC!PC
  <2>2. KC!Meaning(item) \in KC!Text \cup {NoSecret, Unreadable}
    BY MeaningTyped
  <2> HIDE DEF l
  <2> QED  BY <1>1, <1>2, <2>1, <2>2, TypedNext
<1>6. KC!Meaning(item)' = KC!Meaning(item)
  BY <1>2, MeaningNext
<1>7. Placed(c)'
  BY <1>3, <1>4, <1>6, KeychainPrimes DEF Placed, KC!Getting
<1>8. Dated(c)' /\ Truthful(c)' /\ Alone(c)'
  BY <1>4 DEF Dated, Truthful, Alone
<1> HIDE DEF l
<1>9. OthersKept(c) /\ \A d \in Client \ {c} : stored'[d] = stored[d] /\ flips'[d] = flips[d]
  BY <1>1, <1>2 DEF OthersKept
<1>10. KeychainInv'
  <2> HIDE DEF KeychainInv, KeychainTyped
  <2> QED  BY <1>2, <1>5, <1>7, <1>8, <1>9, QuietStep
<1>11. Results' = Results
  <2>1. ASSUME NEW d \in Client
        PROVE  (IF place'[d] = "done" THEN KC!Result(reply[d])' ELSE KC!None)
                  = (IF place[d] = "done" THEN KC!Result(reply[d]) ELSE KC!None)
    BY <1>1, <1>2, <1>4, KeychainPrimes
  <2>2. Results' = [d \in Client |-> IF place'[d] = "done" THEN KC!Result(reply[d])' ELSE KC!None]
    BY DEF Results, KC!None
  <2> QED  BY <2>1, <2>2 DEF Results
<1>12. order[c] = NoRequest
  BY <1>2 DEF Placed
<1>13. [j \in {theKey} |-> KC!Meaning(item)][k.key] = KC!Meaning(item)
  BY <1>3
<1> QED  BY <1>1, <1>2, <1>3, <1>6, <1>10, <1>11, <1>12, <1>13 DEF KC!SS!Begin, Results

\* How a Get ends, alone or as the last part of a Put.
LEMMA GetEndsStep ==
    ASSUME KC!KeychainAssumption, KeychainInv, NEW c \in Client, place[c] \in KC!Getting,
           UNCHANGED <<item, stored, flips, policy, order, foreign, acted>>,
           NEW r, KC!GetEnds(c, r), r[1] # "none",
           r[1] = "ok" => /\ r = <<"ok", r[2]>> /\ r[2] \in KC!Text
                          /\ order[c].op = "Get" => r[2] \in stored[c] \/ flips[c] = 2
                          /\ foreign = 0 => r[2] \in stored[c],
           r[1] # "ok" => r \in {KC!Err, KC!Ambiguous} \/ (r = KC!NotFound /\ NoSecret \in stored[c])
    PROVE  KeychainInv' /\ UNCHANGED KC!SS!vars
<1> USE DEF KeychainInv, KeychainTyped, KC!TypeOK
<1> DEFINE a == IF order[c].op # "Put" THEN r
                ELSE IF KC!Confirmed(c, r) THEN <<"ok", NoSecret>> ELSE KC!Err
<1>1. /\ place' = [place EXCEPT ![c] = "return"] /\ reply' = [reply EXCEPT ![c] = a]
      /\ marking' = [marking EXCEPT ![c] = FALSE] /\ text' = [text EXCEPT ![c] = NoSecret]
  BY DEF KC!GetEnds, KC!Finish, KC!Goto
<1>2. /\ order[c] \in KC!Call /\ order[c].op \in {"Put", "Get"}
      /\ KC!Inside(c) /\ KC!Meaning(item) \in stored[c]
  BY DEF Placed, KC!Getting, KC!Inside
<1>3. /\ KC!Err[1] = "err" /\ KC!Ambiguous[1] = "ambiguous" /\ KC!NotFound[1] = "notfound"
      /\ <<"ok", NoSecret>>[1] = "ok"
  BY DEF KC!Err, KC!Ambiguous, KC!NotFound
<1>4. a[1] # "none" /\ place'[c] = "return" /\ reply'[c] = a /\ order'[c] = order[c]
  BY <1>1, <1>3
<1>5. KC!Meaning(item)' = KC!Meaning(item)
  BY MeaningNext
<1>6. foreign = 0 => KC!Result(a) \in KC!SS!Answers(c) \cup {KC!Err}
  <2>1. SUFFICES ASSUME foreign = 0  PROVE KC!Result(a) \in KC!SS!Answers(c) \cup {KC!Err}
    OBVIOUS
  <2>2. CASE order[c].op = "Get" /\ r[1] = "ok"
    <3>1. a = KC!SS!Ok(r[2]) /\ r[2] \in stored[c] \cap KC!Text
      BY <2>1, <2>2 DEF KC!SS!Ok
    <3>2. KC!Result(a) = a
      BY <1>3, <2>2 DEF KC!Result
    <3> QED  BY <2>2, <3>1, <3>2 DEF KC!SS!Answers
  <2>3. CASE order[c].op = "Get" /\ r = KC!NotFound
    <3>1. a = KC!SS!NotFound /\ NoSecret \in stored[c]
      BY <1>3, <2>3 DEF KC!SS!NotFound, KC!NotFound
    <3>2. KC!Result(a) = a
      BY <1>3, <2>3 DEF KC!Result
    <3> QED  BY <2>3, <3>1, <3>2 DEF KC!SS!Answers
  <2>4. CASE order[c].op = "Get" /\ r \in {KC!Err, KC!Ambiguous}
    BY <2>4 DEF KC!Result
  <2>5. CASE order[c].op = "Put" /\ KC!Confirmed(c, r)
    <3>1. r = <<"ok", order[c].value>>
      BY <2>5 DEF KC!Confirmed
    <3>2. order[c].value \in stored[c]
      BY <2>1, <3>1
    <3>3. KC!Result(a) = KC!SS!Ok(NoSecret)
      BY <1>3, <2>5 DEF KC!Result, KC!SS!Ok
    <3> QED  BY <2>5, <3>2, <3>3 DEF KC!SS!Answers
  <2>6. CASE order[c].op = "Put" /\ ~KC!Confirmed(c, r)
    BY <2>6 DEF KC!Result
  <2> QED  BY <1>2, <2>2, <2>3, <2>4, <2>5, <2>6
<1>7. order[c].op = "Get" => a = r
  OBVIOUS
<1> HIDE DEF a
<1>8. KeychainTyped'
  <2>1. "return" \in KC!PC
    BY DEF KC!PC
  <2> QED  BY <1>1, <2>1, TypedNext
<1>9. Placed(c)'
  BY <1>2, <1>4, <1>5, KeychainPrimes DEF Placed, KC!Getting
<1>10. Dated(c)' /\ Truthful(c)'
  BY <1>4, <1>7 DEF Dated, Truthful
<1>11. foreign = 0 => Alone(c)'
  <2>1. KC!SS!Answers(c) \subseteq KC!SS!Answers(c)'
    BY AnswersGrow
  <2> QED  BY <1>4, <1>6, <2>1, KeychainPrimes DEF Alone
<1>12. OthersKept(c)
  BY <1>1 DEF OthersKept
<1>13. place[c] # "done" /\ \A d \in Client : place'[d] = "done" <=> place[d] = "done"
  BY <1>1 DEF KC!Getting
<1>14. \A d \in Client : place[d] = "done" => reply'[d] = reply[d]
  BY <1>1, <1>13
<1> HIDE DEF KeychainInv, KeychainTyped, KC!TypeOK
<1>15. KeychainInv'
  BY <1>8, <1>9, <1>10, <1>11, <1>12, QuietStep
<1>16. UNCHANGED KC!SS!vars
  BY <1>13, <1>14, Unseen
<1> QED  BY <1>15, <1>16

\* A lookup that finds nothing, or fails.
LEMMA FindEnds ==
    ASSUME KC!KeychainAssumption, KeychainInv, NEW c \in Client, place[c] \in KC!Getting,
           UNCHANGED <<item, stored, flips, policy, order, foreign, acted>>,
           (item = KC!NoItem /\ KC!GetEnds(c, KC!NotFound)) \/ KC!GetEnds(c, KC!Err)
    PROVE  KeychainInv' /\ UNCHANGED KC!SS!vars
<1>1. KC!Err[1] = "err" /\ KC!NotFound[1] = "notfound"
  BY DEF KC!Err, KC!NotFound
<1>2. CASE item = KC!NoItem /\ KC!GetEnds(c, KC!NotFound)
  <2>1. NoSecret \in stored[c]
    BY <1>2, NothingMeans DEF KeychainInv, Placed, KC!Getting, KC!Inside
  <2> QED  BY <1>1, <1>2, <2>1, GetEndsStep
<1>3. CASE KC!GetEnds(c, KC!Err)
  BY <1>1, <1>3, GetEndsStep
<1> QED  BY <1>2, <1>3

LEMMA MetadataStep ==
    ASSUME KC!KeychainAssumption, KeychainInv, NEW c \in Client, KC!Metadata(c)
    PROVE  KeychainInv' /\ UNCHANGED KC!SS!vars
<1>1. /\ place[c] = "metadata" /\ place[c] \in KC!Getting
      /\ UNCHANGED <<item, stored, flips, policy, order, foreign, acted>>
  BY DEF KC!Metadata, KC!Find, KC!Kept, KC!Getting
<1>2. CASE /\ item # KC!NoItem /\ marking' = [marking EXCEPT ![c] = item.marked]
           /\ place' = [place EXCEPT ![c] = "value"] /\ UNCHANGED <<text, reply>>
  <2> USE DEF KeychainInv, KeychainTyped, KC!TypeOK
  <2>1. item.marked \in BOOLEAN
    BY MarkedTyped
  <2>2. KeychainTyped'
    <3>1. "value" \in KC!PC
      BY DEF KC!PC
    <3> QED  BY <1>1, <1>2, <2>1, <3>1, TypedNext
  <2>3. place'[c] = "value" /\ marking'[c] = item.marked
    BY <1>2
  <2>4. KC!Meaning(item)' = KC!Meaning(item)
    BY <1>1, MeaningNext
  <2>5. Placed(c)'
    BY <1>1, <2>3, <2>4, KeychainPrimes DEF Placed, KC!Getting, KC!Inside
  <2>6. Dated(c)' /\ Truthful(c)' /\ Alone(c)'
    BY <1>1, <2>3 DEF Dated, Truthful, Alone
  <2>7. OthersKept(c)
    BY <1>1, <1>2 DEF OthersKept
  <2>8. \A d \in Client : place'[d] = "done" <=> place[d] = "done"
    BY <1>1, <1>2
  <2> HIDE DEF KeychainInv, KeychainTyped, KC!TypeOK
  <2>9. KeychainInv'
    BY <1>1, <2>2, <2>5, <2>6, <2>7, QuietStep
  <2>10. UNCHANGED KC!SS!vars
    BY <1>1, <1>2, <2>8, Unseen
  <2> QED  BY <2>9, <2>10
<1> QED  BY <1>1, <1>2, FindEnds DEF KC!Metadata, KC!Find, KC!Goto

LEMMA ReadValueStep ==
    ASSUME KC!KeychainAssumption, KeychainInv, NEW c \in Client, KC!ReadValue(c)
    PROVE  KeychainInv' /\ UNCHANGED KC!SS!vars
<1>1. /\ place[c] = "value" /\ place[c] \in KC!Getting
      /\ UNCHANGED <<item, stored, flips, policy, order, foreign, acted>>
  BY DEF KC!ReadValue, KC!Find, KC!Kept, KC!Getting
<1>2. CASE /\ item # KC!NoItem /\ text' = [text EXCEPT ![c] = item.text]
           /\ place' = [place EXCEPT ![c] = "recheck"] /\ UNCHANGED <<marking, reply>>
  <2> USE DEF KeychainInv, KeychainTyped, KC!TypeOK
  <2>1. item \in KC!Item /\ item.marked \in BOOLEAN /\ item.text \in KC!Text
    BY <1>2, MarkedTyped
  <2>2. KeychainTyped'
    <3>1. "recheck" \in KC!PC
      BY DEF KC!PC
    <3> QED  BY <1>1, <1>2, <2>1, <3>1, TypedNext
  <2>3. place'[c] = "recheck" /\ text'[c] = item.text
    BY <1>2
  <2>4. KC!Meaning(item)' = KC!Meaning(item) /\ KC!Meaning(item) \in stored[c]
    BY <1>1, MeaningNext DEF Placed, KC!Inside
  <2>5. Placed(c)'
    BY <1>1, <2>1, <2>3, <2>4, KeychainPrimes DEF Placed, KC!Getting, KC!Inside
  <2>6. item.marked = marking[c] => KC!Meaning(Pieced(c))' \in stored[c]
    <3>1. item = [marked |-> item.marked, text |-> item.text]
      BY <2>1 DEF KC!Item
    <3>2. KC!Meaning(Pieced(c))' = KC!Meaning([marked |-> marking'[c], text |-> text'[c]])
      BY <1>1, MeaningNext
    <3> QED  BY <1>2, <2>3, <2>4, <3>1, <3>2
  <2>7. Dated(c)'
    BY <1>1, <1>2, <2>3, <2>6 DEF Dated
  <2>8. Truthful(c)'
    BY <2>3 DEF Truthful
  <2>9. foreign = 0 => Alone(c)'
    BY <1>1, <1>2, <2>1, <2>3, <2>6, KeychainPrimes DEF Alone
  <2>10. OthersKept(c)
    BY <1>1, <1>2 DEF OthersKept
  <2>11. \A d \in Client : place'[d] = "done" <=> place[d] = "done"
    BY <1>1, <1>2
  <2> HIDE DEF KeychainInv, KeychainTyped, KC!TypeOK
  <2>12. KeychainInv'
    BY <1>1, <2>2, <2>5, <2>7, <2>8, <2>9, <2>10, QuietStep
  <2>13. UNCHANGED KC!SS!vars
    BY <1>1, <1>2, <2>11, Unseen
  <2> QED  BY <2>12, <2>13
<1> QED  BY <1>1, <1>2, FindEnds DEF KC!ReadValue, KC!Find, KC!Goto

LEMMA RecheckStep ==
    ASSUME KC!KeychainAssumption, KeychainInv, NEW c \in Client, KC!Recheck(c)
    PROVE  KeychainInv' /\ UNCHANGED KC!SS!vars
<1> DEFINE r == KC!Decode(marking[c], text[c])
<1>1. /\ place[c] = "recheck" /\ place[c] \in KC!Getting
      /\ UNCHANGED <<item, stored, flips, policy, order, foreign, acted>>
  BY DEF KC!Recheck, KC!Find, KC!Kept, KC!Getting
<1>2. CASE item # KC!NoItem /\ KC!SameMarking(c) /\ KC!GetEnds(c, r)
  <2>1. /\ marking[c] \in BOOLEAN /\ text[c] \in KC!Text /\ policy \in KC!Policy
        /\ order[c] \in KC!Call /\ order[c].op \in {"Put", "Get"} /\ flips[c] \in 0 .. 2
        /\ item.marked = marking[c]
    BY <1>1, <1>2 DEF KeychainInv, KeychainTyped, KC!TypeOK, Placed, KC!SameMarking
  <2>2. r \in {KC!Err, KC!Ambiguous} \/ r[1] = "ok"
    <3>1. \A x : <<"ok", x>>[1] = "ok"
      OBVIOUS
    <3> QED  BY <3>1 DEF KC!Decode
  <2>3. KC!Err[1] = "err" /\ KC!Ambiguous[1] = "ambiguous"
    BY DEF KC!Err, KC!Ambiguous
  <2>4. r[1] = "ok" => /\ r = <<"ok", KC!Meaning(Pieced(c))>> /\ r[2] = KC!Meaning(Pieced(c))
                       /\ r[2] \in KC!Text
    <3>1. SUFFICES ASSUME r[1] = "ok"
                   PROVE  /\ r = <<"ok", KC!Meaning(Pieced(c))>> /\ r[2] = KC!Meaning(Pieced(c))
                          /\ r[2] \in KC!Text
      OBVIOUS
    <3>2. r = <<"ok", KC!Meaning(Pieced(c))>> /\ KC!Meaning(Pieced(c)) \in KC!Text
      BY <2>1, <3>1, DecodeExact DEF Pieced
    <3> QED  BY <3>2
  <2>5. order[c].op = "Get" /\ flips[c] # 2 => KC!Meaning(Pieced(c)) \in stored[c]
    BY <1>1, <2>1 DEF KeychainInv, Dated
  <2>6. foreign = 0 => KC!Meaning(Pieced(c)) \in stored[c]
    <3>1. marking[c] \/ ~(item.marked \/ item = KC!NoItem)
      BY <1>2, <2>1
    <3> QED  BY <1>1, <3>1 DEF KeychainInv, Alone
  <2> HIDE DEF r
  <2>7. r[1] = "ok" => /\ r = <<"ok", r[2]>> /\ r[2] \in KC!Text
                       /\ order[c].op = "Get" => r[2] \in stored[c] \/ flips[c] = 2
                       /\ foreign = 0 => r[2] \in stored[c]
    BY <2>4, <2>5, <2>6
  <2> QED  BY <1>1, <1>2, <2>2, <2>3, <2>7, GetEndsStep
<1> HIDE DEF r
<1>3. CASE KC!GetEnds(c, KC!Err)
  BY <1>1, <1>3, FindEnds
<1> QED  BY <1>1, <1>2, <1>3, FindEnds DEF KC!Recheck, KC!Find, r

\* A run of the program has changed the keychain, and the call goes on or ends.
LEMMA KcEffectStep ==
    ASSUME KC!KeychainAssumption, KeychainInv, NEW c \in Client, place[c] \in {"add", "delete"},
           NEW i \in KC!Item \cup {KC!NoItem}, i.marked \/ i = KC!NoItem, KC!Changes(c, i),
           KC!Meaning(i) = order[c].value, UNCHANGED <<policy, order, marking, text, foreign>>,
           \/ /\ place[c] = "add" /\ place' = [place EXCEPT ![c] = "metadata"] /\ UNCHANGED reply
           \/ KC!Finish(c, KC!Err)
           \/ place[c] = "delete" /\ KC!Finish(c, <<"ok", NoSecret>>)
    PROVE  KeychainInv' /\ KC!SS!Effect(c)
<1> USE DEF KeychainInv, KeychainTyped, KC!TypeOK
<1>1. KC!Store(i) /\ acted' = [acted EXCEPT ![c] = TRUE] /\ item' = i
  BY DEF KC!Changes, KC!Store
<1>2. /\ order[c] \in KC!Call /\ ~acted[c] /\ KC!Inside(c)
      /\ place[c] = "add" => order[c].op = "Put"
      /\ place[c] = "delete" => order[c].op = "Delete"
  BY DEF Placed, KC!Inside
<1>3. PICK l \in {"metadata", "return"}, q \in {reply[c], KC!Err, <<"ok", NoSecret>>} :
         /\ place' = [place EXCEPT ![c] = l] /\ reply'[c] = q /\ DOMAIN reply' = Client
         /\ \A d \in Client \ {c} : reply'[d] = reply[d]
         /\ l = "metadata" => place[c] = "add"
         /\ l = "return" => q = KC!Err \/ (place[c] = "delete" /\ q = <<"ok", NoSecret>>)
  <2>1. CASE place[c] = "add" /\ place' = [place EXCEPT ![c] = "metadata"] /\ UNCHANGED reply
    BY <2>1
  <2>2. CASE KC!Finish(c, KC!Err)
    BY <2>2 DEF KC!Finish, KC!Goto
  <2>3. CASE place[c] = "delete" /\ KC!Finish(c, <<"ok", NoSecret>>)
    BY <2>3 DEF KC!Finish, KC!Goto
  <2> QED  BY <2>1, <2>2, <2>3
<1>4. place'[c] = l /\ reply'[c] = q
  BY <1>3
<1>5. order[c].value \in stored'[c]
  BY <1>1, <1>2 DEF KC!Store
<1>6. KeychainTyped'
  <2>1. l \in KC!PC
    BY DEF KC!PC
  <2> HIDE DEF KeychainInv
  <2>2. /\ flips' \in [Client -> 0 .. 2]
        /\ stored' \in [Client -> SUBSET (KC!Text \cup {NoSecret, Unreadable})]
    BY <1>1, StoreTyped
  <2> QED  BY <1>1, <1>3, <2>1, <2>2, TypedNext DEF KeychainInv
<1>7. KC!Err[1] = "err" /\ <<"ok", NoSecret>>[1] = "ok"
  BY DEF KC!Err
<1>8. Placed(c)'
  <2>1. KC!Meaning(item)' = order[c].value
    BY <1>1, MeaningNext
  <2>2. l = "return" => reply'[c][1] # "none"
    BY <1>3, <1>4, <1>7
  <2> QED  BY <1>2, <1>3, <1>4, <1>5, <2>1, <2>2, KeychainPrimes DEF Placed, KC!Getting
<1>9. Dated(c)' /\ Truthful(c)'
  BY <1>2, <1>3, <1>4, <1>7 DEF Dated, Truthful
<1>10. Alone(c)'
  <2>1. ASSUME l = "return"  PROVE KC!Result(reply'[c]) \in KC!SS!Answers(c)' \cup {KC!Err}
    <3>1. CASE q = KC!Err
      BY <1>4, <3>1 DEF KC!Result
    <3>2. CASE place[c] = "delete" /\ q = <<"ok", NoSecret>>
      <4>1. KC!Result(reply'[c]) = <<"ok", NoSecret>>
        <5>1. KC!Ambiguous[1] = "ambiguous"
          BY DEF KC!Ambiguous
        <5> QED  BY <1>4, <1>7, <3>2, <5>1 DEF KC!Result
      <4>2. <<"ok", NoSecret>> \in KC!SS!Answers(c)'
        BY <1>2, <1>5, <3>2 DEF KC!SS!Answers, KC!SS!Ok
      <4> QED  BY <4>1, <4>2
    <3> QED  BY <1>3, <2>1, <3>1, <3>2
  <2> QED  BY <1>4, <2>1, KeychainPrimes DEF Alone
<1>11. OthersKept(c)
  BY <1>1, <1>3 DEF OthersKept
<1>12. KeychainInv'
  <2> HIDE DEF KeychainInv, KeychainTyped, KC!TypeOK
  <2> QED  BY <1>1, <1>6, <1>8, <1>9, <1>10, <1>11, ChangeStep
<1>13. [k \in {theKey} |-> KC!Meaning(item)]'
          = [[k \in {theKey} |-> KC!Meaning(item)] EXCEPT ![order[c].key] = order[c].value]
  <2>1. order[c].key = theKey
    BY <1>2, OrderFacts
  <2>2. [k \in {theKey} |-> KC!Meaning(item)]' = [k \in {theKey} |-> order[c].value]
    BY <1>1, MeaningNext
  <2> QED  BY <2>1, <2>2
<1>14. Results' = Results
  <2>1. ASSUME NEW d \in Client
        PROVE  (IF place'[d] = "done" THEN KC!Result(reply[d])' ELSE KC!None)
                  = (IF place[d] = "done" THEN KC!Result(reply[d]) ELSE KC!None)
    BY <1>3, <1>4, KeychainPrimes
  <2>2. Results' = [d \in Client |-> IF place'[d] = "done" THEN KC!Result(reply[d])' ELSE KC!None]
    BY DEF Results, KC!None
  <2> QED  BY <2>1, <2>2 DEF Results
<1>15. stored' = [d \in Client |-> IF KC!SS!Pending(d) /\ order[d].key = order[c].key
                                   THEN stored[d] \cup {order[c].value} ELSE stored[d]]
  <2>1. ASSUME NEW d \in Client
        PROVE  (IF KC!SS!Pending(d) /\ order[d].key = order[c].key
                THEN stored[d] \cup {order[c].value} ELSE stored[d])
                  = (IF KC!Inside(d) THEN stored[d] \cup {order[c].value} ELSE stored[d])
    <3>1. KC!SS!Pending(d) <=> KC!Inside(d)
      BY ResultFacts
    <3>2. KC!Inside(d) => order[d].key = order[c].key
      BY <1>2, OrderFacts DEF Placed, KC!Inside
    <3> QED  BY <3>1, <3>2
  <2> QED  BY <1>1, <2>1 DEF KC!Store
<1>16. KC!SS!Pending(c)
  BY <1>2, ResultFacts
<1> QED  BY <1>1, <1>2, <1>12, <1>13, <1>14, <1>15, <1>16 DEF KC!SS!Effect, Results

\* It has not changed it.
LEMMA KcNoEffectStep ==
    ASSUME KC!KeychainAssumption, KeychainInv, NEW c \in Client, place[c] \in {"add", "delete"},
           KC!DoesNot, UNCHANGED <<policy, order, marking, text, foreign>>,
           \/ /\ place[c] = "add" /\ place' = [place EXCEPT ![c] = "metadata"] /\ UNCHANGED reply
           \/ KC!Finish(c, KC!Err)
           \/ place[c] = "delete" /\ item = KC!NoItem /\ KC!Finish(c, <<"ok", NoSecret>>)
    PROVE  KeychainInv' /\ UNCHANGED KC!SS!vars
<1> USE DEF KeychainInv, KeychainTyped, KC!TypeOK
<1>1. UNCHANGED <<item, stored, flips, acted>>
  BY DEF KC!DoesNot, KC!Kept
<1>2. /\ order[c] \in KC!Call /\ KC!Inside(c) /\ KC!Meaning(item) \in stored[c]
      /\ place[c] = "add" => order[c].op = "Put"
      /\ place[c] = "delete" => order[c].op = "Delete"
  BY DEF Placed, KC!Inside
<1>3. PICK l \in {"metadata", "return"}, q \in {reply[c], KC!Err, <<"ok", NoSecret>>} :
         /\ place' = [place EXCEPT ![c] = l] /\ reply'[c] = q /\ DOMAIN reply' = Client
         /\ \A d \in Client \ {c} : reply'[d] = reply[d]
         /\ l = "metadata" => place[c] = "add"
         /\ l = "return" => \/ q = KC!Err
                            \/ place[c] = "delete" /\ item = KC!NoItem /\ q = <<"ok", NoSecret>>
  <2>1. CASE place[c] = "add" /\ place' = [place EXCEPT ![c] = "metadata"] /\ UNCHANGED reply
    BY <2>1
  <2>2. CASE KC!Finish(c, KC!Err)
    BY <2>2 DEF KC!Finish, KC!Goto
  <2>3. CASE place[c] = "delete" /\ item = KC!NoItem /\ KC!Finish(c, <<"ok", NoSecret>>)
    BY <2>3 DEF KC!Finish, KC!Goto
  <2> QED  BY <2>1, <2>2, <2>3
<1>4. place'[c] = l /\ reply'[c] = q
  BY <1>3
<1>5. KeychainTyped'
  <2>1. l \in KC!PC
    BY DEF KC!PC
  <2> QED  BY <1>1, <1>3, <2>1, TypedNext
<1>6. KC!Err[1] = "err" /\ <<"ok", NoSecret>>[1] = "ok"
  BY DEF KC!Err
<1>7. Placed(c)'
  <2>1. KC!Meaning(item)' = KC!Meaning(item)
    BY <1>1, MeaningNext
  <2>2. l = "return" => reply'[c][1] # "none"
    BY <1>3, <1>4, <1>6
  <2> QED  BY <1>1, <1>2, <1>3, <1>4, <2>1, <2>2, KeychainPrimes DEF Placed, KC!Getting
<1>8. Dated(c)' /\ Truthful(c)'
  BY <1>2, <1>3, <1>4, <1>6 DEF Dated, Truthful
<1>9. Alone(c)'
  <2>1. ASSUME l = "return"  PROVE KC!Result(reply'[c]) \in KC!SS!Answers(c)' \cup {KC!Err}
    <3>1. CASE q = KC!Err
      BY <1>4, <3>1 DEF KC!Result
    <3>2. CASE place[c] = "delete" /\ item = KC!NoItem /\ q = <<"ok", NoSecret>>
      <4>1. KC!Result(reply'[c]) = <<"ok", NoSecret>>
        <5>1. KC!Ambiguous[1] = "ambiguous"
          BY DEF KC!Ambiguous
        <5> QED  BY <1>4, <1>6, <3>2, <5>1 DEF KC!Result
      <4>2. order[c].value = NoSecret /\ NoSecret \in stored'[c]
        BY <1>1, <1>2, <3>2, OrderFacts, NothingMeans
      <4>3. <<"ok", NoSecret>> \in KC!SS!Answers(c)'
        BY <1>2, <3>2, <4>2 DEF KC!SS!Answers, KC!SS!Ok
      <4> QED  BY <4>1, <4>3
    <3> QED  BY <1>3, <2>1, <3>1, <3>2
  <2> QED  BY <1>4, <2>1, KeychainPrimes DEF Alone
<1>10. OthersKept(c)
  BY <1>1, <1>3 DEF OthersKept
<1>11. \A d \in Client : /\ place'[d] = "done" <=> place[d] = "done"
                         /\ place[d] = "done" => reply'[d] = reply[d]
  BY <1>3, <1>4
<1> HIDE DEF KeychainInv, KeychainTyped, KC!TypeOK
<1>12. KeychainInv'
  BY <1>1, <1>5, <1>7, <1>8, <1>9, <1>10, QuietStep
<1>13. UNCHANGED KC!SS!vars
  BY <1>1, <1>11, Unseen
<1> QED  BY <1>12, <1>13

LEMMA AddStep ==
    ASSUME KC!KeychainAssumption, KeychainInv, NEW c \in Client, KC!Add(c)
    PROVE  KeychainInv' /\ (KC!SS!Effect(c) \/ UNCHANGED KC!SS!vars)
<1> DEFINE i == [marked |-> TRUE, text |-> KC!Encoded(order[c].value)]
<1>1. place[c] = "add" /\ order[c] \in KC!Call /\ order[c].value \in KC!Secret
  <2>1. place[c] = "add" /\ order[c] \in KC!Call /\ order[c].op = "Put"
    BY DEF KC!Add, KeychainInv, Placed
  <2> QED  BY <2>1, OrderFacts
<1>2. i \in KC!Item /\ i.marked /\ KC!Meaning(i) = order[c].value
  BY <1>1, AddedMeaning
<1>3. /\ UNCHANGED <<policy, order, marking, text, foreign>>
      /\ KC!Changes(c, i) \/ KC!DoesNot
      /\ \/ place[c] = "add" /\ place' = [place EXCEPT ![c] = "metadata"] /\ UNCHANGED reply
         \/ KC!Finish(c, KC!Err)
  BY <1>1 DEF KC!Add, KC!Goto
<1> HIDE DEF i
<1> QED  BY <1>1, <1>2, <1>3, KcEffectStep, KcNoEffectStep

LEMMA KcDeleteStep ==
    ASSUME KC!KeychainAssumption, KeychainInv, NEW c \in Client, KC!Delete(c)
    PROVE  KeychainInv' /\ (KC!SS!Effect(c) \/ UNCHANGED KC!SS!vars)
<1>1. place[c] = "delete" /\ order[c] \in KC!Call /\ order[c].value = NoSecret
  <2>1. place[c] = "delete" /\ order[c] \in KC!Call /\ order[c].op = "Delete"
    BY DEF KC!Delete, KeychainInv, Placed
  <2> QED  BY <2>1, OrderFacts
<1>2. KC!Meaning(KC!NoItem) = order[c].value
  BY <1>1, NothingMeans
<1>3. /\ UNCHANGED <<policy, order, marking, text, foreign>>
      /\ \/ /\ KC!Changes(c, KC!NoItem)
            /\ KC!Finish(c, <<"ok", NoSecret>>) \/ KC!Finish(c, KC!Err)
         \/ /\ KC!DoesNot
            /\ (item = KC!NoItem /\ KC!Finish(c, <<"ok", NoSecret>>)) \/ KC!Finish(c, KC!Err)
  BY DEF KC!Delete
<1> QED  BY <1>1, <1>2, <1>3, KcEffectStep, KcNoEffectStep

LEMMA KcReturnStep ==
    ASSUME KC!KeychainAssumption, KeychainInv, NEW c \in Client, KC!Return(c)
    PROVE  KeychainInv' /\ (foreign = 0 => KC!SS!Return(c))
<1> USE DEF KeychainInv, KeychainTyped, KC!TypeOK
<1>1. /\ place[c] = "return" /\ place' = [place EXCEPT ![c] = "done"]
      /\ marking' = [marking EXCEPT ![c] = FALSE] /\ text' = [text EXCEPT ![c] = NoSecret]
      /\ stored' = [stored EXCEPT ![c] = {}] /\ flips' = [flips EXCEPT ![c] = 0]
      /\ UNCHANGED <<item, policy, order, reply, foreign, acted>>
  BY DEF KC!Return, KC!Forget, KC!Goto
<1>2. place'[c] = "done" /\ order[c] \in KC!Call /\ reply[c][1] # "none" /\ KC!Inside(c)
  BY <1>1 DEF Placed, KC!Inside
<1>3. KeychainTyped'
  <2>1. "done" \in KC!PC
    BY DEF KC!PC
  <2> QED  BY <1>1, <2>1, TypedNext
<1>4. Placed(c)' /\ Dated(c)' /\ Truthful(c)' /\ Alone(c)'
  BY <1>1, <1>2, KeychainPrimes DEF Placed, Dated, Truthful, Alone, KC!Getting
<1>5. OthersKept(c) /\ \A d \in Client \ {c} : stored'[d] = stored[d] /\ flips'[d] = flips[d]
  BY <1>1 DEF OthersKept
<1>6. KeychainInv'
  <2> HIDE DEF KeychainInv, KeychainTyped, KC!TypeOK
  <2> QED  BY <1>1, <1>3, <1>4, <1>5, QuietStep
<1>7. Results' = [Results EXCEPT ![c] = KC!Result(reply[c])]
  <2>1. ASSUME NEW d \in Client
        PROVE  (IF place'[d] = "done" THEN KC!Result(reply[d])' ELSE KC!None)
                  = (IF d = c THEN KC!Result(reply[c])
                     ELSE IF place[d] = "done" THEN KC!Result(reply[d]) ELSE KC!None)
    BY <1>1, <1>2, KeychainPrimes
  <2>2. Results' = [d \in Client |-> IF place'[d] = "done" THEN KC!Result(reply[d])' ELSE KC!None]
    BY DEF Results, KC!None
  <2>3. [Results EXCEPT ![c] = KC!Result(reply[c])]
          = [d \in Client |-> IF d = c THEN KC!Result(reply[c])
                              ELSE IF place[d] = "done" THEN KC!Result(reply[d]) ELSE KC!None]
    BY DEF Results
  <2> QED  BY <2>1, <2>2, <2>3
<1>8. foreign = 0 => KC!Result(reply[c]) \in KC!SS!Answers(c) \cup {KC!SS!Err}
  BY <1>1 DEF Alone, KC!SS!Err, KC!Err
<1>9. KC!SS!Pending(c)
  BY <1>2, ResultFacts
<1>10. KC!Meaning(item)' = KC!Meaning(item)
  BY <1>1, MeaningNext
<1> QED  BY <1>1, <1>6, <1>7, <1>8, <1>9, <1>10 DEF KC!SS!Return, Results

LEMMA KcLeaveStep ==
    ASSUME KC!KeychainAssumption, KeychainInv, NEW c \in Client, KC!Leave(c)
    PROVE  KeychainInv' /\ KC!SS!Leave(c)
<1> USE DEF KeychainInv, KeychainTyped, KC!TypeOK
<1>1. /\ place[c] # "idle" /\ place' = [place EXCEPT ![c] = "idle"]
      /\ order' = [order EXCEPT ![c] = NoRequest]
      /\ marking' = [marking EXCEPT ![c] = FALSE] /\ text' = [text EXCEPT ![c] = NoSecret]
      /\ stored' = [stored EXCEPT ![c] = {}] /\ flips' = [flips EXCEPT ![c] = 0]
      /\ reply' = [reply EXCEPT ![c] = KC!None] /\ acted' = [acted EXCEPT ![c] = FALSE]
      /\ UNCHANGED <<item, policy, foreign>>
  BY DEF KC!Leave, KC!Forget, KC!Goto
<1>2. place'[c] = "idle" /\ order'[c] = NoRequest /\ acted'[c] = FALSE
  BY <1>1
<1>3. KeychainTyped'
  <2>1. "idle" \in KC!PC
    BY DEF KC!PC
  <2> QED  BY <1>1, <2>1, TypedNext
<1>4. Placed(c)' /\ Dated(c)' /\ Truthful(c)' /\ Alone(c)'
  BY <1>2, KeychainPrimes DEF Placed, Dated, Truthful, Alone, KC!Getting
<1>5. OthersKept(c) /\ \A d \in Client \ {c} : stored'[d] = stored[d] /\ flips'[d] = flips[d]
  BY <1>1 DEF OthersKept
<1>6. KeychainInv'
  <2> HIDE DEF KeychainInv, KeychainTyped, KC!TypeOK
  <2> QED  BY <1>1, <1>3, <1>4, <1>5, QuietStep
<1>7. Results' = [Results EXCEPT ![c] = KC!None]
  <2>1. ASSUME NEW d \in Client
        PROVE  (IF place'[d] = "done" THEN KC!Result(reply[d])' ELSE KC!None)
                  = (IF d = c THEN KC!None
                     ELSE IF place[d] = "done" THEN KC!Result(reply[d]) ELSE KC!None)
    BY <1>1, <1>2, KeychainPrimes
  <2>2. Results' = [d \in Client |-> IF place'[d] = "done" THEN KC!Result(reply[d])' ELSE KC!None]
    BY DEF Results, KC!None
  <2>3. [Results EXCEPT ![c] = KC!None]
          = [d \in Client |-> IF d = c THEN KC!None
                              ELSE IF place[d] = "done" THEN KC!Result(reply[d]) ELSE KC!None]
    BY DEF Results
  <2> QED  BY <2>1, <2>2, <2>3
<1>8. order[c] # NoRequest
  BY <1>1, OrderFacts DEF Placed
<1>9. KC!Meaning(item)' = KC!Meaning(item)
  BY <1>1, MeaningNext
<1> QED  BY <1>1, <1>6, <1>7, <1>8, <1>9 DEF KC!SS!Leave, Results, KC!SS!None, KC!None

LEMMA ForeignStep ==
    ASSUME KC!KeychainAssumption, KeychainInv, KC!Foreign
    PROVE  KeychainInv' /\ foreign' # 0
<1>1. PICK t \in KC!Text : KC!Store([marked |-> FALSE, text |-> t])
  BY DEF KC!Foreign
<1>2. /\ foreign < MaxForeign /\ foreign' = foreign + 1
      /\ UNCHANGED <<policy, order, place, marking, text, reply, acted>>
      /\ foreign \in 0 .. MaxForeign /\ MaxForeign \in Nat
  BY DEF KC!Foreign, KC!locals, KeychainInv, KeychainTyped, KC!TypeOK, KC!KeychainAssumption
<1>3. [marked |-> FALSE, text |-> t] \in KC!Item
  BY ItemFacts
<1>4. KeychainTyped'
  <2>1. /\ item' \in KC!Item /\ flips' \in [Client -> 0 .. 2] /\ foreign' \in 0 .. MaxForeign
        /\ stored' \in [Client -> SUBSET (KC!Text \cup {NoSecret, Unreadable})]
    BY <1>1, <1>2, <1>3, StoreTyped
  <2> QED  BY <1>2, <2>1, TypedNext DEF KeychainInv, KeychainTyped, KC!TypeOK
<1>5. foreign' # 0
  BY <1>2
<1>6. ASSUME NEW d \in Client  PROVE Placed(d)' /\ Dated(d)' /\ Truthful(d)'
  BY <1>1, <1>2, <1>3, BusyClient
<1> QED  BY <1>4, <1>5, <1>6 DEF KeychainInv

LEMMA KeychainStart ==
    ASSUME KC!KeychainAssumption, KC!Init
    PROVE  KeychainInv /\ KC!SS!Init
<1>1. /\ policy \in KC!Policy /\ order = [c \in Client |-> NoRequest]
      /\ place = [c \in Client |-> "idle"] /\ marking = [c \in Client |-> FALSE]
      /\ text = [c \in Client |-> NoSecret] /\ reply = [c \in Client |-> KC!None] /\ foreign = 0
      /\ acted = [c \in Client |-> FALSE] /\ stored = [c \in Client |-> {}]
      /\ flips = [c \in Client |-> 0]
  BY DEF KC!Init
<1>2. item \in KC!Item \cup {KC!NoItem}
  <2>1. CASE item \in [marked : {TRUE}, text : {KC!Encoded(v) : v \in KC!Secret}]
    BY <2>1 DEF KC!Item, KC!Text
  <2>2. CASE item \in [marked : {FALSE}, text : KC!Text]
    BY <2>2 DEF KC!Item
  <2> QED  BY <2>1, <2>2 DEF KC!Init
<1>3. KeychainTyped
  <2>1. "idle" \in KC!PC /\ 0 \in 0 .. MaxForeign
    BY DEF KC!PC, KC!KeychainAssumption
  <2> QED  BY <1>1, <1>2, <2>1 DEF KeychainTyped, KC!TypeOK
<1>4. ASSUME NEW c \in Client  PROVE Placed(c) /\ Dated(c) /\ Truthful(c) /\ Alone(c)
  BY <1>1 DEF Placed, Dated, Truthful, Alone, KC!Getting, KC!Inside
<1>5. KeychainInv
  BY <1>3, <1>4 DEF KeychainInv
<1>6. [k \in {theKey} |-> KC!Meaning(item)] \in [{theKey} -> KC!Text \cup {NoSecret, Unreadable}]
  BY <1>2, MeaningTyped
<1>7. Results = [c \in Client |-> KC!SS!None]
  BY <1>1 DEF Results, KC!None, KC!SS!None
<1> QED  BY <1>1, <1>5, <1>6, <1>7 DEF KC!SS!Init, Results

LEMMA KeychainStep ==
    ASSUME KC!KeychainAssumption, KeychainInv, [KC!Next]_(KC!vars)
    PROVE  /\ KeychainInv'
           /\ foreign' = 0 => UNCHANGED KC!SS!vars \/ KC!SS!Next
<1>1. CASE UNCHANGED KC!vars
  <2>1. UNCHANGED <<item, policy, order, place, marking, text, reply, foreign, acted, stored, flips>>
    BY <1>1 DEF KC!vars, KC!locals
  <2>2. KeychainTyped'
    BY <2>1, TypedNext DEF KeychainInv, KeychainTyped, KC!TypeOK
  <2>3. \A c \in Client : Placed(c)' /\ Dated(c)' /\ Truthful(c)' /\ (Alone(c) => Alone(c)')
    BY <2>1, IdleClient
  <2>4. KeychainInv'
    BY <2>1, <2>2, <2>3 DEF KeychainInv
  <2> QED  BY <2>1, <2>4, Unseen
<1>2. CASE KC!Foreign
  BY <1>2, ForeignStep
<1>3. ASSUME NEW c \in Client, KC!Step(c)
      PROVE  KeychainInv' /\ (foreign' = 0 => UNCHANGED KC!SS!vars \/ KC!SS!Next)
  <2>1. CASE KC!Refuse(c)
    BY <2>1, KcRefuseStep DEF KC!SS!Next
  <2>2. CASE KC!Begin(c)
    BY <2>2, KcBeginStep DEF KC!SS!Next
  <2>3. CASE KC!Add(c)
    BY <2>3, AddStep DEF KC!SS!Next
  <2>4. CASE KC!Metadata(c) \/ KC!ReadValue(c) \/ KC!Recheck(c)
    BY <2>4, MetadataStep, ReadValueStep, RecheckStep
  <2>5. CASE KC!Delete(c)
    BY <2>5, KcDeleteStep DEF KC!SS!Next
  <2>6. CASE KC!Return(c)
    <3>1. foreign' = foreign
      BY <2>6 DEF KC!Return
    <3> QED  BY <2>6, <3>1, KcReturnStep DEF KC!SS!Next
  <2>7. CASE KC!Leave(c)
    BY <2>7, KcLeaveStep DEF KC!SS!Next
  <2> QED  BY <1>3, <2>1, <2>2, <2>3, <2>4, <2>5, <2>6, <2>7 DEF KC!Step
<1> QED  BY <1>1, <1>2, <1>3 DEF KC!Next

\* The invariant of the keychain's commands (secret/secret.go 175-251).
THEOREM KeychainInvariant ==
    ASSUME KC!KeychainAssumption
    PROVE  KC!Spec => []KeychainInv
<1>1. KC!Init => KeychainInv
  BY KeychainStart
<1>2. KeychainInv /\ [KC!Next]_(KC!vars) => KeychainInv'
  BY KeychainStep
<1> QED  BY <1>1, <1>2, PTL DEF KC!Spec

\* While only credkit writes, the runs of the security program make up a Store: Get
\* returns a secret in the form in which it was put, and a Put reports success only
\* when it has stored its value, whatever the program's exit status said
\* (secret/secret.go 156-171, 175-223, 239-251).
THEOREM KeychainImplementsSecretStore ==
    ASSUME KC!KeychainAssumption
    PROVE  KC!Spec => KeychainImplementsStore
<1>1. KC!Init => KeychainInv /\ KC!SS!Init
  BY KeychainStart
<1>2. KeychainInv /\ [KC!Next]_(KC!vars)
         => KeychainInv' /\ [foreign' = 0 => UNCHANGED KC!SS!vars \/ KC!SS!Next]_(KC!vars)
  BY KeychainStep
<1> QED  BY <1>1, <1>2, PTL DEF KC!Spec, KeychainImplementsStore, KC!ImplementsSecretStore

\* With any number of writes by other programs, a Get that returns what no item
\* stood for had the marking changed under it at least twice: one change is always
\* noticed (secret/secret.go 185-208).
THEOREM WrongSecretsNeedTwoFlips ==
    ASSUME KC!KeychainAssumption
    PROVE  KC!Spec => []WrongOnlyAfterTwoFlips
<1>1. KeychainInv => WrongOnlyAfterTwoFlips
  BY DEF KeychainInv, Truthful, WrongOnlyAfterTwoFlips, KC!WrongOnlyAfterTwoFlips
<1> QED  BY <1>1, KeychainInvariant, PTL
=============================================================================
