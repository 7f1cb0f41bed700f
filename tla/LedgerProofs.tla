---------------------------- MODULE LedgerProofs ----------------------------
(***************************************************************************)
(* Proofs about Ledger for any number of goroutines, entries and requests, *)
(* that it implements TokenLedger, and about Health, which reads the       *)
(* ledger.  The clock and the length of the ledger are not bounded by more *)
(* than the constants of the modules.  The loop over the entries is an     *)
(* action, so that its invariant (Loop, Judging) takes the place of an     *)
(* induction on sequences; where a loop is one recursive function (Picks), *)
(* the induction is over a set of numbers (AllNumbers).                    *)
(***************************************************************************)
EXTENDS LedgerParts, FiniteSetTheorems, TLAPS

\* Which request can be where.
Control ==
    \A c \in Client :
        /\ pc[c] # "idle" => req[c] \in Request
        /\ pc[c] \in Critical => ~Rejected(req[c])
        /\ pc[c] = "cutoff" => req[c].op = "Cleanup"
        /\ pc[c] = "scan" => req[c].op # "Record"
        /\ pc[c] = "save" => req[c].op \in Mutator

\* The entries before position k[c] have been judged by the loop of c.
Seen(c, e) == \E j \in 1 .. k[c] - 1 : j <= Len(entries[c]) /\ e = entries[c][j]

Dropped(c, e) == IF req[c].op = "Cleanup" THEN IsExpired(e, now) \/ TooOld(e, cutoff[c])
                                          ELSE Matches(req[c], e)

Stays(c, e) == IF req[c].op = "Cleanup"
               THEN ~IsExpired(e, cutoff[c] + req[c].span) /\ ~TooOld(e, cutoff[c])
               ELSE ~Matches(req[c], e)

Remover == {"Remove", "RemoveByID", "Cleanup"}

\* The loop invariant of remove and Cleanup.
Loop ==
    \A c \in Client :
        /\ pc[c] \in {"load", "cutoff"} => kept[c] = <<>> /\ k[c] = 1
        /\ pc[c] \in {"scan", "save"} /\ req[c].op \in Remover =>
             /\ \A e \in Elements(kept[c]) : Seen(c, e) /\ Stays(c, e)
             /\ \A e \in Entry : Seen(c, e) => e \in Elements(kept[c]) \/ Dropped(c, e)
             /\ req[c].op = "Cleanup" => cutoff[c] + req[c].span <= now
        /\ pc[c] = "save" /\ req[c].op \in Remover => k[c] > Len(entries[c])
        /\ pc[c] = "save" /\ req[c].op = "Record" =>
             kept[c] = Append(entries[c], req[c].entry)

\* What a goroutine that is not in a transaction has left in its slices.
Clean == \A c \in Client : pc[c] \in {"idle", "lock", "done"} => kept[c] = <<>> /\ k[c] = 1

IInv == /\ TypeOK
        /\ MutualExclusion
        /\ SnapshotCurrent
        /\ Control
        /\ Clean
        /\ Loop

-----------------------------------------------------------------------------

\* Appending adds one element.
LEMMA ElementsAppend ==
    ASSUME NEW T, NEW s \in Seq(T), NEW e \in T
    PROVE  /\ Append(s, e) \in Seq(T)
           /\ Elements(Append(s, e)) = Elements(s) \cup {e}
<1>1. Append(s, e) \in Seq(T) /\ Len(Append(s, e)) = Len(s) + 1
  OBVIOUS
<1>2. \A i \in 1 .. Len(s) : Append(s, e)[i] = s[i]
  OBVIOUS
<1>3. Append(s, e)[Len(s) + 1] = e
  OBVIOUS
<1>4. DOMAIN s = 1 .. Len(s) /\ DOMAIN Append(s, e) = 1 .. Len(s) + 1 /\ Len(s) \in Nat
  BY <1>1
<1>5. Elements(s) \cup {e} \subseteq Elements(Append(s, e))
  BY <1>2, <1>3, <1>4 DEF Elements
<1>6. Elements(Append(s, e)) \subseteq Elements(s) \cup {e}
  BY <1>2, <1>3, <1>4 DEF Elements
<1> QED
  BY <1>1, <1>5, <1>6

\* The elements of a list of entries are entries.
LEMMA ElementsType == ASSUME NEW s \in Seq(Entry) PROVE Elements(s) \subseteq Entry
BY DEF Elements

\* What the loop keeps, for the requests that write it back.
LEMMA SelectsRemover ==
    ASSUME NEW r, NEW e, NEW x, NEW t, r.op \in Remover
    PROVE  Selects(r, e, x, t) <=> IF r.op = "Cleanup"
                                   THEN ~IsExpired(e, t) /\ ~TooOld(e, x)
                                   ELSE ~Matches(r, e)
BY DEF Selects, Remover, Finder

\* The contents of a readable file are a list of entries.
LEMMA ContentsType ==
    ASSUME TypeOK, file # Corrupt PROVE Contents(file) \in Seq(Entry)
BY DEF TypeOK, Contents

\* The invariant holds initially.
LEMMA InitInv == Init => IInv
<1> SUFFICES ASSUME Init PROVE IInv
  OBVIOUS
<1> USE DataAssumption, LedgerAssumption DEF Init
<1>1. TypeOK
  <2>1. <<>> \in Seq(Entry) /\ \A e \in Entry : <<e>> \in Seq(Entry)
    OBVIOUS
  <2>2. file \in Seq(Entry) \cup {NoFile, Corrupt}
    BY <2>1
  <2> QED
    BY <2>1, <2>2 DEF TypeOK, PC, Result
<1>2. MutualExclusion /\ SnapshotCurrent
  BY DEF MutualExclusion, SnapshotCurrent, Critical
<1>3. Control /\ Clean /\ Loop
  BY DEF Control, Clean, Loop, Critical
<1> QED
  BY <1>1, <1>2, <1>3 DEF IInv

\* Whatever ends a transaction leaves the others where they were.
LEMMA FinishInv ==
    ASSUME IInv, NEW c \in Client, pc[c] \in Critical,
           NEW r \in Result, NEW a \in Seq(Entry), Finish(c, r, a),
           file' \in Seq(Entry) \cup {NoFile, Corrupt}
    PROVE  IInv'
<1> USE DataAssumption, LedgerAssumption DEF IInv, Finish, Unlock
<1>1. TypeOK'
  BY DEF TypeOK, PC
<1>2. \A d \in Client : d # c => pc[d] \notin Critical
  BY DEF MutualExclusion
<1>3. \A d \in Client : pc'[d] \notin Critical /\ (pc'[d] # "idle" => pc[d] # "idle")
  BY <1>2 DEF Critical, TypeOK
<1>4. MutualExclusion' /\ SnapshotCurrent'
  BY <1>3 DEF MutualExclusion, SnapshotCurrent
<1>5. Control'
  BY <1>3 DEF Control, Critical
<1>6. Clean' /\ Loop'
  BY <1>3 DEF Clean, Loop, Critical, TypeOK
<1> QED
  BY <1>1, <1>4, <1>5, <1>6

\* Steps of c outside the critical section.
LEMMA OutsideInv ==
    ASSUME IInv, NEW c \in Client, Begin(c) \/ Reject(c) \/ Return(c)
    PROVE  IInv'
<1> USE DataAssumption, LedgerAssumption DEF IInv, Begin, Reject, Return, Goto, local
<1>1. TypeOK'
  <2>1. <<>> \in Seq(Entry)
    OBVIOUS
  <2>2. CASE Begin(c)
    BY <2>2 DEF TypeOK, PC
  <2>3. CASE Reject(c)
    BY <2>3 DEF TypeOK, PC, Result
  <2>4. CASE Return(c)
    BY <2>1, <2>4 DEF TypeOK, PC, Result
  <2> QED
    BY <2>2, <2>3, <2>4
<1>2. pc[c] \notin Critical /\ pc'[c] \notin Critical
  BY DEF Critical, TypeOK
<1>3. \A d \in Client : d # c => pc'[d] = pc[d] /\ req'[d] = req[d]
  BY DEF TypeOK
<1>4. UNCHANGED <<file, now, processMu, entries, k, kept, cutoff>>
  OBVIOUS
<1>5. MutualExclusion' /\ SnapshotCurrent'
  BY <1>2, <1>3, <1>4 DEF MutualExclusion, SnapshotCurrent
<1>6. Control'
  <2>1. pc'[c] # "idle" => req'[c] \in Request
    BY DEF Control, TypeOK
  <2> QED
    BY <1>2, <1>3, <2>1 DEF Control, Critical
<1>7. Clean'
  BY <1>2, <1>3, <1>4 DEF Clean, Critical, TypeOK, PC
<1>8. Loop'
  BY <1>2, <1>3, <1>4 DEF Loop, Critical, Seen, Stays, Dropped
<1> QED
  BY <1>1, <1>5, <1>6, <1>7, <1>8

\* The lock is taken by one goroutine at a time.
LEMMA LockInv == ASSUME IInv, NEW c \in Client, Lock(c) PROVE IInv'
<1> USE DataAssumption, LedgerAssumption DEF IInv, Lock, Goto, local
<1>1. TypeOK'
  BY DEF TypeOK, PC
<1>2. \A d \in Client : pc[d] \notin Critical
  BY DEF MutualExclusion
<1>3. MutualExclusion' /\ SnapshotCurrent'
  BY <1>2 DEF MutualExclusion, SnapshotCurrent, Critical, TypeOK
<1>4. Control'
  BY DEF Control, Critical, TypeOK
<1>5. Clean' /\ Loop'
  BY <1>2 DEF Clean, Loop, Critical, TypeOK
<1> QED
  BY <1>1, <1>3, <1>4, <1>5

\* A goroutine in the critical section is alone there.
LEMMA Alone ==
    ASSUME IInv, NEW c \in Client, pc[c] \in Critical, NEW d \in Client, d # c
    PROVE  pc[d] \notin Critical
BY LedgerAssumption DEF IInv, MutualExclusion

\* loadLocked takes a snapshot that nobody can make stale.
LEMMA LoadInv == ASSUME IInv, NEW c \in Client, loadLocked(c) PROVE IInv'
<1> USE DataAssumption, LedgerAssumption
<1>1. CASE Finish(c, "err", <<>>) /\ UNCHANGED file
  <2>1. pc[c] \in Critical
    BY DEF loadLocked, Critical
  <2>2. "err" \in Result /\ <<>> \in Seq(Entry)
    BY DEF Result
  <2>3. file' \in Seq(Entry) \cup {NoFile, Corrupt}
    BY <1>1 DEF IInv, TypeOK
  <2> QED
    BY <1>1, <2>1, <2>2, <2>3, FinishInv
<1>2. CASE ~(Finish(c, "err", <<>>) /\ UNCHANGED file)
  <2> DEFINE s == Contents(file)
             l == AfterLoad(req[c].op)
  <2>1. /\ pc[c] = "load" /\ file # Corrupt
        /\ entries' = [entries EXCEPT ![c] = s]
        /\ kept' = [kept EXCEPT ![c] = IF req[c].op = "Record"
                                       THEN Append(s, req[c].entry) ELSE @]
        /\ pc' = [pc EXCEPT ![c] = l]
        /\ UNCHANGED <<file, now, processMu, req, k, cutoff, res, ans, since>>
    BY <1>2 DEF loadLocked, Readable, Goto
  <2>2. s \in Seq(Entry)
    BY <2>1, ContentsType DEF IInv
  <2>3. /\ req[c] \in Request /\ req[c].entry \in Entry /\ req[c].op \in Op
        /\ ~Rejected(req[c]) /\ kept[c] = <<>> /\ k[c] = 1
    BY <2>1 DEF IInv, Control, Loop, RequestType, Critical
  <2>4. /\ req[c].op = "Record" => l = "save"
        /\ req[c].op = "Cleanup" => l = "cutoff"
        /\ req[c].op \notin {"Record", "Cleanup"} => l = "scan"
    BY DEF AfterLoad
  <2> HIDE DEF s, l
  <2>5. l \in Critical \ {"load"} /\ l \in PC
    BY <2>4 DEF Critical, PC
  <2>6. TypeOK'
    <3>1. pc' \in [Client -> PC] /\ entries' \in [Client -> Seq(Entry)]
      BY <2>1, <2>2, <2>5 DEF IInv, TypeOK
    <3>2. Append(s, req[c].entry) \in Seq(Entry)
      BY <2>2, <2>3
    <3>3. kept' \in [Client -> Seq(Entry)]
      BY <2>1, <3>2 DEF IInv, TypeOK
    <3> QED
      BY <2>1, <3>1, <3>3 DEF IInv, TypeOK
  <2>7. \A d \in Client : d # c => pc'[d] \notin Critical
    BY <2>1, Alone DEF Critical, IInv, TypeOK
  <2>8. MutualExclusion' /\ SnapshotCurrent'
    BY <2>1, <2>5, <2>7 DEF IInv, TypeOK, MutualExclusion, SnapshotCurrent, Critical, s
  <2>9. Control'
    BY <2>1, <2>3, <2>4, <2>5, <2>7 DEF IInv, Control, Critical, TypeOK, Mutator
  <2>10. Clean'
    BY <2>1, <2>5 DEF IInv, Clean, Critical, TypeOK
  <2>11. Loop'
    <3>1. \A d \in Client : d # c => pc'[d] \notin {"load", "cutoff", "scan", "save"}
      BY <2>7 DEF Critical
    <3>2. req'[c] = req[c] /\ pc'[c] = l /\ k'[c] = 1 /\ entries'[c] = s
      BY <2>1, <2>3 DEF IInv, TypeOK
    <3>3. CASE req[c].op = "Record"
      <4>1. kept'[c] = Append(s, req[c].entry)
        BY <2>1, <3>3 DEF IInv, TypeOK
      <4> QED
        BY <2>4, <3>1, <3>2, <3>3, <4>1 DEF Loop, Remover
    <3>4. CASE req[c].op # "Record"
      <4>1. kept'[c] = <<>> /\ l \in {"cutoff", "scan"}
        BY <2>1, <2>3, <2>4, <3>4 DEF IInv, TypeOK
      <4>2. Elements(kept'[c]) = {} /\ \A e : ~(Seen(c, e))'
        BY <3>2, <4>1 DEF Elements, Seen
      <4>3. l = "scan" => req[c].op # "Cleanup"
        BY <2>4, <3>4
      <4> QED
        BY <3>1, <3>2, <3>4, <4>1, <4>2, <4>3 DEF Loop
    <3> QED
      BY <3>3, <3>4
  <2> QED
    BY <2>6, <2>8, <2>9, <2>10, <2>11 DEF IInv
<1> QED
  BY <1>1, <1>2

\* Cleanup's cutoff lies its span before the present.
LEMMA CutoffInv == ASSUME IInv, NEW c \in Client, Cutoff(c) PROVE IInv'
<1> USE DataAssumption, LedgerAssumption DEF IInv, Cutoff, Goto
<1>1. req[c] \in RequestType /\ req[c].op = "Cleanup" /\ req[c].span \in Nat
  BY DEF Control, RequestType
<1>2. TypeOK'
  <2>1. now - req[c].span \in Int
    BY <1>1 DEF TypeOK
  <2>2. cutoff' \in [Client -> Int] /\ pc' \in [Client -> PC]
    BY <2>1 DEF TypeOK, PC
  <2> QED
    BY <2>2 DEF TypeOK
<1>3. \A d \in Client : d # c => pc'[d] \notin Critical
  BY Alone DEF Critical, TypeOK
<1>4. MutualExclusion' /\ SnapshotCurrent'
  BY <1>3 DEF MutualExclusion, SnapshotCurrent, Critical, TypeOK
<1>5. Control' /\ Clean'
  BY <1>1 DEF Control, Clean, Critical, TypeOK
<1>6. Loop'
  <2>1. \A d \in Client : d # c => pc'[d] \notin {"load", "cutoff", "scan", "save"}
    BY <1>3 DEF Critical
  <2>2. /\ pc'[c] = "scan" /\ kept'[c] = <<>> /\ k'[c] = 1 /\ req'[c] = req[c]
        /\ now' = now /\ cutoff'[c] = now - req[c].span
    BY DEF TypeOK, Loop
  <2>3. Elements(kept'[c]) = {} /\ \A e : ~(Seen(c, e))'
    BY <2>2 DEF Elements, Seen
  <2>4. cutoff'[c] + req'[c].span <= now'
    BY <1>1, <2>2 DEF TypeOK
  <2> QED
    BY <2>1, <2>2, <2>3, <2>4 DEF Loop
<1> QED
  BY <1>2, <1>4, <1>5, <1>6

\* One iteration of the loop judges one more entry.
LEMMA ScanInv == ASSUME IInv, NEW c \in Client, Scan(c) PROVE IInv'
<1> USE DataAssumption, LedgerAssumption
<1> DEFINE e == entries[c][k[c]]
           hit == Selects(req[c], e, cutoff[c], now)
<1>1. /\ pc[c] = "scan" /\ k[c] \in Nat \ {0} /\ k[c] <= Len(entries[c])
      /\ entries[c] \in Seq(Entry) /\ e \in Entry /\ req[c] \in Request /\ now \in Nat
      /\ kept[c] \in Seq(Entry) /\ req[c].span \in Nat /\ req[c].op \in Op
  BY DEF Scan, IInv, TypeOK, Control, RequestType
<1>2. CASE Finish(c, "ok", <<e>>) /\ UNCHANGED file
  <2>1. pc[c] \in Critical /\ "ok" \in Result /\ <<e>> \in Seq(Entry)
    BY <1>1 DEF Critical, Result
  <2>2. file' \in Seq(Entry) \cup {NoFile, Corrupt}
    BY <1>2 DEF IInv, TypeOK
  <2> QED
    BY <1>2, <2>1, <2>2, FinishInv
<1>3. CASE ~(Finish(c, "ok", <<e>>) /\ UNCHANGED file)
  <2>1. /\ kept' = [kept EXCEPT ![c] = IF hit THEN Append(@, e) ELSE @]
        /\ k' = [k EXCEPT ![c] = @ + 1]
        /\ UNCHANGED <<file, now, processMu, pc, req, entries, cutoff, res, ans, since>>
    BY <1>3 DEF Scan
  <2>2. Append(kept[c], e) \in Seq(Entry)
    BY <1>1, ElementsAppend
  <2> HIDE DEF e, hit
  <2>3. TypeOK'
    BY <1>1, <2>1, <2>2 DEF IInv, TypeOK
  <2>4. MutualExclusion' /\ SnapshotCurrent' /\ Control'
    BY <2>1 DEF IInv, MutualExclusion, SnapshotCurrent, Control
  <2>5. Clean'
    BY <1>1, <2>1 DEF IInv, Clean, TypeOK
  <2>6. Loop'
    <3>1. \A d \in Client : d # c => pc'[d] \notin {"load", "cutoff", "scan", "save"}
      BY <1>1, <2>1, Alone DEF Critical
    <3> SUFFICES ASSUME req[c].op \in Remover
                 PROVE  /\ \A x \in Elements(kept'[c]) : (Seen(c, x) /\ Stays(c, x))'
                        /\ \A x \in Entry :
                             Seen(c, x)' => x \in Elements(kept'[c]) \/ Dropped(c, x)'
                        /\ req[c].op = "Cleanup" => cutoff[c] + req[c].span <= now
      BY <1>1, <2>1, <3>1 DEF Loop
    <3>2. \A x : Seen(c, x)' <=> Seen(c, x) \/ x = e
      BY <1>1, <2>1 DEF Seen, e, IInv, TypeOK
    <3>3. \A x : (Stays(c, x)' <=> Stays(c, x)) /\ (Dropped(c, x)' <=> Dropped(c, x))
      BY <2>1 DEF Stays, Dropped
    <3>4. /\ \A x \in Elements(kept[c]) : Seen(c, x) /\ Stays(c, x)
          /\ \A x \in Entry : Seen(c, x) => x \in Elements(kept[c]) \/ Dropped(c, x)
          /\ req[c].op = "Cleanup" => cutoff[c] + req[c].span <= now
      BY <1>1 DEF IInv, Loop
    <3>5. CASE hit
      <4>1. Elements(kept'[c]) = Elements(kept[c]) \cup {e}
        BY <1>1, <2>1, <3>5, ElementsAppend DEF IInv, TypeOK
      <4>2. Stays(c, e)
        <5>1. e.expires \in Nat
          BY <1>1 DEF EntryType
        <5>2. cutoff[c] \in Int
          BY DEF IInv, TypeOK
        <5> QED
          BY <1>1, <3>4, <3>5, <5>1, <5>2, SelectsRemover DEF hit, Stays, IsExpired
      <4> QED
        BY <3>2, <3>3, <3>4, <4>1, <4>2
    <3>6. CASE ~hit
      <4>1. kept'[c] = kept[c]
        BY <2>1, <3>6 DEF IInv, TypeOK
      <4>2. Dropped(c, e)
        BY <3>6, SelectsRemover DEF hit, Dropped
      <4> QED
        BY <3>2, <3>3, <3>4, <4>1, <4>2
    <3> QED
      BY <3>5, <3>6
  <2> QED
    BY <2>3, <2>4, <2>5, <2>6 DEF IInv
<1> QED
  BY <1>2, <1>3

\* The end of the loop, with or without something to write.
LEMMA ScanEndInv == ASSUME IInv, NEW c \in Client, ScanEnd(c) PROVE IInv'
<1> USE DataAssumption, LedgerAssumption
<1> DEFINE r == IF req[c].op \in Finder THEN "notfound" ELSE "ok"
           a == IF req[c].op \in Mutator THEN <<>> ELSE kept[c]
<1>1. pc[c] = "scan" /\ k[c] > Len(entries[c]) /\ UNCHANGED file
  BY DEF ScanEnd, Answered
<1>2. CASE Finish(c, r, a)
  <2>1. pc[c] \in Critical /\ r \in Result /\ a \in Seq(Entry)
    BY <1>1 DEF Critical, Result, IInv, TypeOK
  <2>2. file' \in Seq(Entry) \cup {NoFile, Corrupt}
    BY <1>1 DEF IInv, TypeOK
  <2> QED
    BY <1>2, <2>1, <2>2, FinishInv
<1>3. CASE ~Finish(c, r, a)
  <2>1. /\ Saves(req[c], entries[c], kept[c])
        /\ pc' = [pc EXCEPT ![c] = "save"]
        /\ UNCHANGED <<file, now, processMu, req, local, res, ans, since>>
    BY <1>1, <1>3 DEF ScanEnd, Answered, Goto
  <2>2. req[c].op \in Remover
    BY <1>1, <2>1 DEF Saves, IInv, Control, Mutator, Remover
  <2>3. TypeOK'
    BY <2>1 DEF IInv, TypeOK, PC, local
  <2>4. \A d \in Client : d # c => pc'[d] \notin Critical
    BY <1>1, <2>1, Alone DEF Critical, IInv, TypeOK
  <2>5. MutualExclusion' /\ SnapshotCurrent'
    BY <1>1, <2>1, <2>4 DEF IInv, TypeOK, MutualExclusion, SnapshotCurrent, Critical, local
  <2>6. Control' /\ Clean'
    BY <1>1, <2>1, <2>2 DEF IInv, TypeOK, Control, Clean, Critical, Remover, Mutator, local
  <2>7. Loop'
    <3>1. \A d \in Client : d # c => pc'[d] \notin {"load", "cutoff", "scan", "save"}
      BY <2>4 DEF Critical
    <3>2. pc'[c] = "save"
      BY <2>1 DEF IInv, TypeOK
    <3> QED
      BY <1>1, <2>1, <2>2, <3>1, <3>2 DEF IInv, Loop, Remover, Seen, Stays, Dropped, local
  <2> QED
    BY <2>3, <2>5, <2>6, <2>7 DEF IInv
<1> QED
  BY <1>2, <1>3

\* Writing ends the transaction.
LEMMA SaveInv == ASSUME IInv, NEW c \in Client, saveLocked(c) PROVE IInv'
<1>1. pc[c] \in Critical /\ <<>> \in Seq(Entry)
  BY DEF saveLocked, Critical
<1>2. file' \in Seq(Entry) \cup {NoFile, Corrupt}
  BY DEF saveLocked, IInv, TypeOK
<1>3. PICK r \in Result : Finish(c, r, <<>>)
  BY DEF saveLocked, Result
<1> QED
  BY <1>1, <1>2, <1>3, FinishInv

\* Time only makes more entries expire.
LEMMA TickInv == ASSUME IInv, Tick PROVE IInv'
<1> USE DataAssumption, LedgerAssumption DEF IInv, Tick, local
<1>1. TypeOK' /\ now \in Nat /\ now' = now + 1
  BY DEF TypeOK
<1>2. MutualExclusion' /\ SnapshotCurrent' /\ Control' /\ Clean'
  BY DEF MutualExclusion, SnapshotCurrent, Control, Clean
<1>3. Loop'
  <2>1. \A e \in Entry : IsExpired(e, now) => IsExpired(e, now')
    BY <1>1 DEF IsExpired, EntryType
  <2>2. \A c \in Client : \A e \in Entry : Dropped(c, e) => Dropped(c, e)'
    BY <2>1 DEF Dropped
  <2>3. \A c \in Client : \A e : /\ Seen(c, e)' <=> Seen(c, e)
                                /\ Stays(c, e)' <=> Stays(c, e)
    BY DEF Seen, Stays
  <2>4. \A x \in Int : x <= now => x <= now'
    BY <1>1
  <2>5. ASSUME NEW c \in Client, pc[c] \in {"scan", "save"}, req[c].op \in Remover
        PROVE  /\ \A e \in Elements(kept[c]) : (Seen(c, e) /\ Stays(c, e))'
               /\ \A e \in Entry : Seen(c, e)' => e \in Elements(kept[c]) \/ Dropped(c, e)'
               /\ req[c].op = "Cleanup" => cutoff[c] + req[c].span <= now'
    <3>1. cutoff[c] + req[c].span \in Int
      <4>1. req[c] \in Request
        BY <2>5 DEF Control
      <4>2. req[c].span \in Nat /\ cutoff[c] \in Int
        BY <4>1 DEF RequestType, TypeOK
      <4> QED
        BY <4>2
    <3>2. /\ \A e \in Elements(kept[c]) : Seen(c, e) /\ Stays(c, e)
          /\ \A e \in Entry : Seen(c, e) => e \in Elements(kept[c]) \/ Dropped(c, e)
          /\ req[c].op = "Cleanup" => cutoff[c] + req[c].span <= now
      BY <2>5 DEF Loop
    <3>3. \A e \in Elements(kept[c]) : (Seen(c, e) /\ Stays(c, e))'
      BY <2>3, <3>2
    <3>4. \A e \in Entry : Seen(c, e)' => e \in Elements(kept[c]) \/ Dropped(c, e)'
      <4> SUFFICES ASSUME NEW e \in Entry, Seen(c, e)'
                   PROVE  e \in Elements(kept[c]) \/ Dropped(c, e)'
        OBVIOUS
      <4>1. Seen(c, e)
        BY DEF Seen
      <4>2. e \in Elements(kept[c]) \/ Dropped(c, e)
        BY <3>2, <4>1
      <4> QED
        BY <2>2, <4>2
    <3>5. req[c].op = "Cleanup" => cutoff[c] + req[c].span <= now'
      BY <2>4, <3>1, <3>2
    <3> QED
      BY <3>3, <3>4, <3>5
  <2> QED
    BY <2>5 DEF Loop
<1> QED
  BY <1>1, <1>2, <1>3

\* After a crash nobody is in a transaction.
LEMMA CrashInv == ASSUME IInv, Crash PROVE IInv'
<1>1. TypeOK'
  <2>1. <<>> \in Seq(Entry)
    OBVIOUS
  <2> QED
    BY <2>1 DEF IInv, Crash, TypeOK, PC, Result
<1>2. MutualExclusion' /\ SnapshotCurrent' /\ Control' /\ Clean' /\ Loop'
  BY DEF Crash, MutualExclusion, SnapshotCurrent, Control, Clean, Loop, Critical
<1> QED
  BY <1>1, <1>2 DEF IInv

\* IInv is inductive.
LEMMA NextInv == IInv /\ [Next]_vars => IInv'
<1> SUFFICES ASSUME IInv, [Next]_vars PROVE IInv'
  OBVIOUS
<1>1. CASE Next
  BY <1>1, OutsideInv, LockInv, LoadInv, CutoffInv, ScanInv, ScanEndInv, SaveInv,
     TickInv, CrashInv DEF Next, Running
<1>2. CASE UNCHANGED vars
  <2>1. TypeOK' /\ MutualExclusion' /\ SnapshotCurrent' /\ Control' /\ Clean'
    BY <1>2 DEF vars, local, IInv, TypeOK, MutualExclusion, SnapshotCurrent, Control, Clean
  <2>2. Loop'
    BY <1>2 DEF vars, local, IInv, Loop, Seen, Stays, Dropped
  <2> QED
    BY <2>1, <2>2 DEF IInv
<1> QED
  BY <1>1, <1>2

\* The inductive invariant is an invariant of token.go's transactions.
THEOREM Invariance == Spec => []IInv
<1> QED
  BY InitInv, NextInv, PTL DEF Spec

\* TypeOK, for any number of goroutines.
THEOREM TypeCorrect == Spec => []TypeOK
<1>1. IInv => TypeOK
  BY DEF IInv
<1> QED
  BY <1>1, Invariance, PTL

\* No two goroutines are in a ledger transaction together.
THEOREM Exclusion == Spec => []MutualExclusion
<1>1. IInv => MutualExclusion
  BY DEF IInv
<1> QED
  BY <1>1, Invariance, PTL

\* A transaction never works on entries that somebody has replaced meanwhile.
THEOREM SnapshotStaysCurrent == Spec => []SnapshotCurrent
<1>1. IInv => SnapshotCurrent
  BY DEF IInv
<1> QED
  BY <1>1, Invariance, PTL

\* Only a save changes the file.
LEMMA OnlySaveWrites ==
    ASSUME [Next]_vars, file' # file PROVE \E c \in Client : saveLocked(c)
BY DEF Next, Running, vars, local, Tick, Crash, Begin, Reject, Lock, loadLocked, Cutoff,
       Scan, ScanEnd, Answered, Return

\* Every change of the ledger file is exactly one call's effect on the entries
\* it holds at that moment.
THEOREM ChangesAreTransactions == Spec => Transactional
<1>1. ASSUME IInv, [Next]_vars PROVE [AppliesOne]_vars
  <2> SUFFICES ASSUME file' # file PROVE AppliesOne
    BY DEF AppliesOne
  <2> USE DataAssumption, LedgerAssumption
  <2>1. PICK c \in Client : saveLocked(c)
    BY <1>1, OnlySaveWrites
  <2>2. pc[c] = "save" /\ file' = kept[c] /\ res'[c] = "ok"
    BY <1>1, <2>1 DEF saveLocked, Finish, IInv, TypeOK
  <2>3. /\ file # Corrupt /\ entries[c] = Contents(file)
        /\ req[c] \in Request /\ req[c].op \in Mutator /\ ~Rejected(req[c])
    BY <1>1, <2>2 DEF IInv, SnapshotCurrent, Control, Critical
  <2>4. CASE req[c].op = "Record"
    BY <1>1, <2>2, <2>3, <2>4 DEF IInv, Loop, AppliesOne
  <2>5. CASE req[c].op # "Record"
    <3>1. req[c].op \in Remover /\ (req[c].op = "RemoveByID" => req[c].key # "")
      BY <2>3, <2>5 DEF Mutator, Remover, Rejected
    <3>2. /\ \A e \in Elements(kept[c]) : Seen(c, e) /\ Stays(c, e)
          /\ \A e \in Entry : Seen(c, e) => e \in Elements(kept[c]) \/ Dropped(c, e)
          /\ k[c] > Len(entries[c])
      BY <1>1, <2>2, <3>1 DEF IInv, Loop
    <3>3. \A e : Seen(c, e) <=> e \in Elements(entries[c])
      <4>1. DOMAIN entries[c] = 1 .. Len(entries[c]) /\ Len(entries[c]) \in Nat /\ k[c] \in Nat
        BY <1>1 DEF IInv, TypeOK
      <4> QED
        BY <3>2, <4>1 DEF Seen, Elements
    <3>4. Elements(entries[c]) \subseteq Entry
      BY <1>1, ElementsType DEF IInv, TypeOK
    <3>5. Drops(c, entries[c], kept[c], now)
      BY <3>2, <3>3, <3>4 DEF Drops, Stays, Dropped
    <3> QED
      BY <2>2, <2>3, <2>5, <3>1, <3>5 DEF AppliesOne
  <2> QED
    BY <2>4, <2>5
<1> QED
  BY <1>1, Invariance, PTL DEF Spec, Transactional

-----------------------------------------------------------------------------
(* Loops                                                                    *)

\* Induction over the numbers of a set.
LEMMA AllNumbers ==
    ASSUME NEW S, 0 \in S, \A n \in Nat : n \in S => n + 1 \in S
    PROVE  Nat \subseteq S
<1> SUFFICES ASSUME ~(Nat \subseteq S) PROVE FALSE
  OBVIOUS
<1> DEFINE I(n) == 0 .. n
           T == {I(n) : n \in Nat \ S}
           R == StrictSubsetOrdering(Nat)
<1>1. \A n \in Nat : I(n) \in FiniteSubsetsOf(Nat)
  BY FS_Interval DEF FiniteSubsetsOf
<1>2. T \subseteq FiniteSubsetsOf(Nat) /\ T # {}
  BY <1>1
<1>3. IsWellFoundedOn(R, FiniteSubsetsOf(Nat))
  BY FS_StrictSubsetOrderingWellFounded
<1> HIDE DEF T, R
<1>4. PICK x \in T : \A y \in T : <<y, x>> \notin R
  BY <1>2, <1>3, WFMin
<1>5. PICK m \in Nat \ S : x = I(m)
  BY <1>4 DEF T
<1>6. m # 0 /\ m - 1 \in Nat /\ (m - 1) + 1 = m
  BY <1>5
<1>7. m - 1 \notin S
  BY <1>5, <1>6
<1>8. I(m - 1) \in T
  BY <1>6, <1>7 DEF T
<1>9. I(m - 1) \subseteq I(m) /\ I(m - 1) # I(m) /\ I(m) \in SUBSET Nat /\ I(m - 1) \in SUBSET Nat
  <2>1. m \in I(m) /\ m \notin I(m - 1)
    BY <1>5, <1>6
  <2> QED
    BY <1>5, <1>6, <2>1
<1>10. <<I(m - 1), I(m)>> \in R
  BY <1>9 DEF R, StrictSubsetOrdering
<1> QED
  BY <1>4, <1>5, <1>8, <1>10

\* The recursion of Picks has a solution.
LEMMA PicksFixpoint ==
    ASSUME NEW s \in Seq(Entry), NEW I
    PROVE  /\ DOMAIN Picks(s, I) = 0 .. Len(s)
           /\ Picks(s, I)[0] = <<>>
           /\ \A n \in 1 .. Len(s) :
                Picks(s, I)[n] = IF n \in I THEN Append(Picks(s, I)[n - 1], s[n])
                                            ELSE Picks(s, I)[n - 1]
<1> DEFINE B(g, n) == IF n = 0 THEN <<>>
                      ELSE IF n \in I THEN Append(g[n - 1], s[n]) ELSE g[n - 1]
           D(m, g) == g = [n \in 0 .. m |-> B(g, n)]
           S == {m \in Nat : \E g : D(m, g)}
<1>1. 0 \in S
  <2> DEFINE g == [n \in {0} |-> <<>>]
  <2>1. g = [n \in 0 .. 0 |-> B(g, n)]
    OBVIOUS
  <2> QED
    BY <2>1
<1>2. ASSUME NEW m \in Nat, m \in S PROVE m + 1 \in S
  <2>1. PICK g : D(m, g)
    BY <1>2
  <2> DEFINE h == [n \in 0 .. (m + 1) |-> IF n = m + 1 THEN B(g, n) ELSE g[n]]
  <2> HIDE DEF B
  <2>2. DOMAIN g = 0 .. m /\ \A n \in 0 .. m : g[n] = B(g, n)
    BY <2>1
  <2>3. \A n \in 0 .. m : h[n] = g[n]
    OBVIOUS
  <2>4. h[m + 1] = B(g, m + 1)
    OBVIOUS
  <2>5. \A n \in 0 .. (m + 1) : B(h, n) = B(g, n)
    BY <2>3 DEF B
  <2>6. \A n \in 0 .. (m + 1) : h[n] = B(h, n)
    BY <2>2, <2>3, <2>4, <2>5
  <2>7. D(m + 1, h)
    <3> DEFINE f == [n \in 0 .. (m + 1) |-> B(h, n)]
    <3>1. h = [n \in 0 .. (m + 1) |-> h[n]]
      OBVIOUS
    <3> HIDE DEF h
    <3>2. h = f
      BY <2>6, <3>1
    <3> QED
      BY <3>2
  <2> HIDE DEF D
  <2> QED
    BY <2>7
<1> HIDE DEF D
<1>3. Len(s) \in S
  <2>1. \A m \in Nat : m \in S => m + 1 \in S
    BY <1>2
  <2> HIDE DEF S
  <2> QED
    BY <1>1, <2>1, AllNumbers
<1>4. PICK f : D(Len(s), f)
  BY <1>3
<1>5. Picks(s, I) = CHOOSE g : D(Len(s), g)
  BY DEF Picks, D
<1>6. D(Len(s), Picks(s, I))
  BY <1>4, <1>5
<1>7. Picks(s, I) = [n \in 0 .. Len(s) |-> B(Picks(s, I), n)]
  BY <1>6 DEF D
<1> HIDE DEF B
<1>8. DOMAIN Picks(s, I) = 0 .. Len(s) /\ \A n \in 0 .. Len(s) : Picks(s, I)[n] = B(Picks(s, I), n)
  BY <1>7
<1>9. Len(s) \in Nat
  OBVIOUS
<1>10. Picks(s, I)[0] = <<>>
  BY <1>8, <1>9 DEF B
<1>11. ASSUME NEW n \in 1 .. Len(s)
       PROVE  Picks(s, I)[n] = IF n \in I THEN Append(Picks(s, I)[n - 1], s[n])
                                          ELSE Picks(s, I)[n - 1]
  <2>1. n \in 0 .. Len(s) /\ n # 0
    BY <1>9
  <2> QED
    BY <1>8, <2>1 DEF B
<1> QED
  BY <1>8, <1>10, <1>11

\* What Picks has at n are entries of s.
LEMMA PicksType ==
    ASSUME NEW s \in Seq(Entry), NEW I, NEW n \in 0 .. Len(s)
    PROVE  Picks(s, I)[n] \in Seq(Entry) /\ Len(Picks(s, I)[n]) <= n
<1> DEFINE P == Picks(s, I)
           S == {m \in Nat : m <= Len(s) => P[m] \in Seq(Entry) /\ Len(P[m]) <= m}
<1>1. 0 \in S
  <2>1. P[0] = <<>>
    BY PicksFixpoint
  <2>2. <<>> \in Seq(Entry) /\ Len(<<>>) = 0
    OBVIOUS
  <2>3. P[0] \in Seq(Entry) /\ Len(P[0]) <= 0
    BY <2>1, <2>2
  <2> HIDE DEF P
  <2> QED
    BY <2>3
<1>2. ASSUME NEW m \in Nat, m \in S PROVE m + 1 \in S
  <2> SUFFICES ASSUME m + 1 <= Len(s)
               PROVE  P[m + 1] \in Seq(Entry) /\ Len(P[m + 1]) <= m + 1
    OBVIOUS
  <2> HIDE DEF P
  <2>1. m + 1 \in 1 .. Len(s) /\ (m + 1) - 1 = m /\ m <= Len(s)
    OBVIOUS
  <2>2. P[m] \in Seq(Entry) /\ Len(P[m]) <= m
    BY <1>2, <2>1
  <2>3. P[m + 1] = IF m + 1 \in I THEN Append(P[m], s[m + 1]) ELSE P[m]
    BY <2>1, PicksFixpoint DEF P
  <2>4. s[m + 1] \in Entry
    BY <2>1
  <2> QED
    BY <2>2, <2>3, <2>4
<1>3. n \in S
  <2>1. \A m \in Nat : m \in S => m + 1 \in S
    BY <1>2
  <2>2. n \in Nat
    OBVIOUS
  <2> HIDE DEF S
  <2> QED
    BY <1>1, <2>1, <2>2, AllNumbers
<1> QED
  BY <1>3

\* Picks at n depends on the places up to n only.
LEMMA PicksPrefix ==
    ASSUME NEW s \in Seq(Entry), NEW I, NEW J, NEW n \in 0 .. Len(s),
           \A i \in 1 .. n : i \in I <=> i \in J
    PROVE  Picks(s, I)[n] = Picks(s, J)[n]
<1> DEFINE P == Picks(s, I)
           Q == Picks(s, J)
           S == {m \in Nat : m <= n => P[m] = Q[m]}
<1>0. Len(s) \in Nat /\ n \in Nat /\ n <= Len(s)
  OBVIOUS
<1>1. 0 \in S
  BY PicksFixpoint
<1>2. ASSUME NEW m \in Nat, m \in S PROVE m + 1 \in S
  <2> SUFFICES ASSUME m + 1 <= n PROVE P[m + 1] = Q[m + 1]
    OBVIOUS
  <2> HIDE DEF P, Q
  <2>1. m + 1 \in 1 .. Len(s) /\ m + 1 \in 1 .. n /\ (m + 1) - 1 = m /\ m <= n
    BY <1>0
  <2>2. P[m] = Q[m]
    BY <1>2, <2>1
  <2>3. P[m + 1] = IF m + 1 \in I THEN Append(P[m], s[m + 1]) ELSE P[m]
    BY <2>1, PicksFixpoint DEF P
  <2>4. Q[m + 1] = IF m + 1 \in J THEN Append(Q[m], s[m + 1]) ELSE Q[m]
    BY <2>1, PicksFixpoint DEF Q
  <2> QED
    BY <2>1, <2>2, <2>3, <2>4
<1>3. n \in S
  <2>1. \A m \in Nat : m \in S => m + 1 \in S
    BY <1>2
  <2> HIDE DEF S
  <2> QED
    BY <1>0, <1>1, <2>1, AllNumbers
<1> QED
  BY <1>3

\* A selection as long as the list is the list.
LEMMA PicksAll ==
    ASSUME NEW s \in Seq(Entry), NEW I, Len(Picked(s, I)) = Len(s)
    PROVE  Picked(s, I) = s
<1> DEFINE P == Picks(s, I)
           S == {m \in Nat : m <= Len(s) /\ Len(P[m]) = m => P[m] = SubSeq(s, 1, m)}
<1>0. Len(s) \in Nat
  OBVIOUS
<1>1. 0 \in S
  BY PicksFixpoint
<1>2. ASSUME NEW m \in Nat, m \in S PROVE m + 1 \in S
  <2> SUFFICES ASSUME m + 1 <= Len(s), Len(P[m + 1]) = m + 1
               PROVE  P[m + 1] = SubSeq(s, 1, m + 1)
    OBVIOUS
  <2>1. m + 1 \in 1 .. Len(s) /\ m \in 0 .. Len(s) /\ (m + 1) - 1 = m
    BY <1>0
  <2>2. P[m] \in Seq(Entry) /\ Len(P[m]) <= m
    BY <2>1, PicksType
  <2>3. P[m + 1] = IF m + 1 \in I THEN Append(P[m], s[m + 1]) ELSE P[m]
    BY <2>1, PicksFixpoint
  <2> HIDE DEF P
  <2>4. s[m + 1] \in Entry
    BY <2>1
  <2>5. P[m + 1] = Append(P[m], s[m + 1]) /\ Len(P[m]) = m
    BY <2>2, <2>3, <2>4
  <2>6. P[m] = SubSeq(s, 1, m)
    BY <1>2, <2>1, <2>5
  <2> QED
    BY <2>1, <2>5, <2>6, <1>0
<1>3. Len(s) \in S
  <2>1. \A m \in Nat : m \in S => m + 1 \in S
    BY <1>2
  <2> HIDE DEF S
  <2> QED
    BY <1>0, <1>1, <2>1, AllNumbers
<1>4. P[Len(s)] = SubSeq(s, 1, Len(s))
  BY <1>0, <1>3 DEF Picked
<1> QED
  BY <1>4 DEF Picked

\* Once something is selected, the first selected entry stays the first.
LEMMA PicksHead ==
    ASSUME NEW s \in Seq(Entry), NEW I, NEW n \in 0 .. Len(s), Picks(s, I)[n] # <<>>
    PROVE  Picked(s, I) # <<>> /\ Head(Picked(s, I)) = Head(Picks(s, I)[n])
<1> DEFINE P == Picks(s, I)
           S == {m \in Nat : n <= m /\ m <= Len(s) => P[m] # <<>> /\ Head(P[m]) = Head(P[n])}
<1>0. Len(s) \in Nat /\ n \in Nat /\ n <= Len(s)
  OBVIOUS
<1>1. 0 \in S
  BY <1>0
<1>2. ASSUME NEW m \in Nat, m \in S PROVE m + 1 \in S
  <2> SUFFICES ASSUME n <= m + 1, m + 1 <= Len(s)
               PROVE  P[m + 1] # <<>> /\ Head(P[m + 1]) = Head(P[n])
    OBVIOUS
  <2>1. CASE n = m + 1
    BY <2>1
  <2>2. CASE n # m + 1
    <3>1. m + 1 \in 1 .. Len(s) /\ m \in 0 .. Len(s) /\ (m + 1) - 1 = m /\ n <= m
      BY <1>0, <2>2
    <3>2. P[m] \in Seq(Entry)
      BY <3>1, PicksType
    <3>3. P[m + 1] = IF m + 1 \in I THEN Append(P[m], s[m + 1]) ELSE P[m]
      BY <3>1, PicksFixpoint
    <3> HIDE DEF P
    <3>4. P[m] # <<>> /\ Head(P[m]) = Head(P[n]) /\ s[m + 1] \in Entry
      BY <1>2, <3>1
    <3>5. Append(P[m], s[m + 1]) # <<>> /\ Head(Append(P[m], s[m + 1])) = Head(P[m])
      BY <3>2, <3>4
    <3> QED
      BY <3>3, <3>4, <3>5
  <2> QED
    BY <2>1, <2>2
<1>3. Len(s) \in S
  <2>1. \A m \in Nat : m \in S => m + 1 \in S
    BY <1>2
  <2> HIDE DEF S
  <2> QED
    BY <1>0, <1>1, <2>1, AllNumbers
<1> QED
  BY <1>0, <1>3 DEF Picked

-----------------------------------------------------------------------------
(* The atomic ledger                                                        *)

\* What TokenLedger sees of a call.
Outer ==
    \A c \in Client :
        /\ pc[c] = "idle" => req[c] = NoRequest /\ since[c] = 0
        /\ pc[c] # "idle" => since[c] <= now
        /\ pc[c] # "done" => res[c] = "none" /\ ans[c] = <<>>
        /\ pc[c] = "done" => res[c] # "none"

\* Only what can be encoded is ever written.
Encodable == file \in Seq(Entry) => \A i \in DOMAIN file : file[i] \notin Unencodable

\* What a loop has built is the outcome, up to here, of looks at the clock since the
\* call began.  A search that found something is over, and Cleanup saves only a change.
Judging ==
    \A c \in Client :
        /\ pc[c] \in {"scan", "save"} /\ req[c].op # "Record" =>
             /\ k[c] <= Len(entries[c]) + 1
             /\ \E at \in TL!Looks(Len(entries[c]), since[c], now) :
                  /\ kept[c] = Picks(entries[c], TL!Chosen(req[c], entries[c], at))[k[c] - 1]
                  /\ req[c].op = "Cleanup" => cutoff[c] = at[0] - req[c].span
        /\ pc[c] = "scan" /\ req[c].op \in Finder => kept[c] = <<>>
        /\ pc[c] = "save" /\ req[c].op = "Cleanup" => Len(kept[c]) # Len(entries[c])

RInv == IInv /\ Outer /\ Encodable /\ Judging

\* The data mean the same to both specifications.
LEMMA SameOps ==
    /\ \A r, e, x, t : TL!Selects(r, e, x, t) <=> Selects(r, e, x, t)
    /\ \A s, I : TL!Picked(s, I) = Picked(s, I)
    /\ \A f : TL!Contents(f) = Contents(f)
    /\ \A r : TL!Rejected(r) <=> Rejected(r)
    /\ TL!Mutator = Mutator /\ TL!Finder = Finder
<1>1. \A r, e, x, t : TL!Selects(r, e, x, t) <=> Selects(r, e, x, t)
  BY DEF TL!Selects, Selects, TL!IsExpired, IsExpired, TL!ExpiresWithin, ExpiresWithin,
         TL!TooOld, TooOld, TL!Matches, Matches, TL!Finder, Finder
<1>2. \A s, I : TL!Picked(s, I) = Picked(s, I)
  BY DEF TL!Picked, Picked, TL!Picks, Picks
<1> QED
  BY <1>1, <1>2 DEF TL!Contents, Contents, TL!Rejected, Rejected, TL!Mutator, Mutator,
     TL!Finder, Finder

\* Only Cleanup looks at the cutoff.
LEMMA CutoffOnly ==
    ASSUME NEW r \in Request, r.op # "Cleanup", NEW e, NEW x, NEW y, NEW t
    PROVE  Selects(r, e, x, t) <=> Selects(r, e, y, t)
BY DataAssumption DEF Selects, RequestType, Op, Finder

\* The next look of a loop: some history of looks explains what it has and whether it
\* selects the entry at hand.
LEMMA NextLook ==
    ASSUME RInv, NEW c \in Client, pc[c] = "scan", k[c] <= Len(entries[c])
    PROVE  \E at \in TL!Looks(Len(entries[c]), since[c], now) :
              LET I == TL!Chosen(req[c], entries[c], at) IN
              /\ kept[c] = Picks(entries[c], I)[k[c] - 1]
              /\ k[c] \in I <=> Selects(req[c], entries[c][k[c]], cutoff[c], now)
              /\ req[c].op = "Cleanup" => cutoff[c] = at[0] - req[c].span
<1> DEFINE s == entries[c]
           r == req[c]
           n == k[c]
<1>1. /\ s \in Seq(Entry) /\ n \in Nat \ {0} /\ n <= Len(s) /\ Len(s) \in Nat
      /\ now \in Nat /\ since[c] \in Nat /\ since[c] <= now /\ cutoff[c] \in Int
      /\ r \in Request /\ r.op # "Record" /\ r.span \in Nat
  BY DataAssumption DEF RInv, IInv, TypeOK, Control, Outer, RequestType
<1>2. PICK b \in TL!Looks(Len(s), since[c], now) :
         /\ kept[c] = Picks(s, TL!Chosen(r, s, b))[n - 1]
         /\ r.op = "Cleanup" => cutoff[c] = b[0] - r.span
  BY <1>1 DEF RInv, Judging
<1> DEFINE at == [i \in 0 .. Len(s) |-> IF i < n THEN b[i] ELSE now]
<1> HIDE DEF s, r, n
<1>3. /\ b \in [0 .. Len(s) -> since[c] .. now]
      /\ \A i \in 1 .. Len(s) : b[i - 1] <= b[i]
  BY <1>2 DEF TL!Looks
<1>4. at \in TL!Looks(Len(s), since[c], now)
  <2>1. at \in [0 .. Len(s) -> since[c] .. now]
    BY <1>1, <1>3
  <2>2. ASSUME NEW i \in 1 .. Len(s) PROVE at[i - 1] <= at[i]
    <3>0. i \in 0 .. Len(s) /\ i - 1 \in 0 .. Len(s)
      BY <1>1
    <3>1. i \in 0 .. Len(s) /\ i - 1 \in 0 .. Len(s) /\ b[i - 1] \in since[c] .. now
      BY <1>3, <3>0
    <3>2. at[i] = (IF i < n THEN b[i] ELSE now)
      BY <3>1
    <3>3. at[i - 1] = (IF i - 1 < n THEN b[i - 1] ELSE now)
      BY <3>1
    <3> HIDE DEF at
    <3> QED
      BY <1>1, <1>3, <3>1, <3>2, <3>3
  <2> QED
    BY <2>1, <2>2 DEF TL!Looks
<1>5. at[0] = b[0] /\ at[n] = now /\ \A i \in 1 .. n - 1 : at[i] = b[i]
  BY <1>1
<1> HIDE DEF at
<1>6. DOMAIN s = 1 .. Len(s) /\ n \in 1 .. Len(s) /\ n - 1 \in 0 .. Len(s)
      /\ \A i \in 1 .. n - 1 : i \in 1 .. Len(s)
  BY <1>1
<1>7. \A i \in 1 .. n - 1 : i \in TL!Chosen(r, s, at) <=> i \in TL!Chosen(r, s, b)
  BY <1>5, <1>6 DEF TL!Chosen
<1>8. kept[c] = Picks(s, TL!Chosen(r, s, at))[n - 1]
  BY <1>1, <1>2, <1>6, <1>7, PicksPrefix
<1>9. n \in TL!Chosen(r, s, at) <=> Selects(r, s[n], at[0] - r.span, now)
  <2>1. n \in TL!Chosen(r, s, at) <=> n \in DOMAIN s /\ Selects(r, s[n], at[0] - r.span, at[n])
    BY SameOps DEF TL!Chosen
  <2>2. n \in DOMAIN s /\ at[n] = now
    BY <1>5, <1>6
  <2> QED
    BY <2>1, <2>2, Zenon
<1>10. Selects(r, s[n], at[0] - r.span, now) <=> Selects(r, s[n], cutoff[c], now)
  BY <1>1, <1>2, <1>5, CutoffOnly
<1> QED
  BY <1>2, <1>4, <1>5, <1>8, <1>9, <1>10 DEF s, r, n

\* Initially nobody is inside a call and the file can be encoded.
LEMMA InitOuter == Init => RInv
<1> SUFFICES ASSUME Init PROVE RInv
  OBVIOUS
<1> USE DataAssumption, LedgerAssumption
<1>1. IInv
  BY InitInv
<1>2. Outer /\ Judging
  BY DEF Init, Outer, Judging
<1>3. Encodable
  <2> SUFFICES ASSUME file \in Seq(Entry), NEW i \in DOMAIN file PROVE file[i] \notin Unencodable
    BY DEF Encodable
  <2>1. file # <<>>
    OBVIOUS
  <2>2. PICK e \in Entry \ Unencodable : file = <<e>>
    BY <2>1 DEF Init
  <2>3. i = 1 /\ file[1] = e
    BY <2>2
  <2> QED
    BY <2>2, <2>3
<1> QED
  BY <1>1, <1>2, <1>3 DEF RInv

\* A step of c is no concern of a loop of somebody else.
Elsewhere(c) == \A d \in Client : d # c => pc'[d] \notin {"scan", "save"}

\* The end of a transaction.
LEMMA FinishOuter ==
    ASSUME RInv, NEW c \in Client, pc[c] \in Critical,
           NEW r \in Result \ {"none"}, NEW a, Finish(c, r, a)
    PROVE  Outer' /\ Judging'
<1> USE DEF RInv, IInv, TypeOK
<1>1. pc'[c] = "done" /\ res'[c] = r /\ pc[c] # "idle"
  BY DEF Finish, Critical
<1>2. \A d \in Client : d # c => pc'[d] = pc[d] /\ res'[d] = res[d] /\ ans'[d] = ans[d]
  BY DEF Finish
<1>3. UNCHANGED <<now, req, since>>
  BY DEF Finish
<1>4. Outer'
  BY <1>1, <1>2, <1>3 DEF Outer
<1>5. \A d \in Client : pc'[d] \notin {"scan", "save"}
  BY <1>1, <1>2, Alone DEF Critical
<1>6. Judging'
  BY <1>5 DEF Judging
<1> QED
  BY <1>4, <1>6

\* Steps outside the critical section.
LEMMA OutsideOuter ==
    ASSUME RInv, NEW c \in Client, Begin(c) \/ Reject(c) \/ Lock(c) \/ Return(c)
    PROVE  Outer' /\ Judging'
<1> USE DEF RInv, IInv, TypeOK
<1>1. pc[c] \notin {"scan", "save"} /\ pc'[c] \notin {"scan", "save"}
  BY DEF Begin, Reject, Lock, Return, Goto
<1>2. \A d \in Client : d # c => /\ pc'[d] = pc[d] /\ res'[d] = res[d] /\ ans'[d] = ans[d]
                                 /\ req'[d] = req[d] /\ since'[d] = since[d]
  BY DEF Begin, Reject, Lock, Return, Goto
<1>3. UNCHANGED <<now, entries, k, kept, cutoff>>
  BY DEF Begin, Reject, Lock, Return, local
<1>4. Judging'
  <2>1. ASSUME NEW d \in Client, pc'[d] \in {"scan", "save"}
        PROVE  /\ pc'[d] = pc[d] /\ req'[d] = req[d] /\ since'[d] = since[d]
    BY <1>1, <1>2, <2>1
  <2> HIDE DEF RInv, IInv, TypeOK
  <2> QED
    BY <1>3, <2>1 DEF RInv, Judging
<1>5. Outer'
  <2>1. CASE Begin(c)
    BY <1>2, <2>1 DEF Outer, Begin, Goto
  <2>2. CASE Reject(c)
    BY <1>2, <2>2 DEF Outer, Reject, Goto
  <2>3. CASE Lock(c)
    BY <1>2, <2>3 DEF Outer, Lock, Goto
  <2>4. CASE Return(c)
    BY <1>2, <2>4 DEF Outer, Return, Goto
  <2> QED
    BY <2>1, <2>2, <2>3, <2>4
<1> QED
  BY <1>4, <1>5

\* A step inside the critical section that stays there.
LEMMA InsideOuter ==
    ASSUME RInv, NEW c \in Client, pc[c] \in Critical, pc'[c] \in Critical,
           \A d \in Client : d # c => pc'[d] = pc[d], UNCHANGED <<now, req, res, ans, since>>
    PROVE  Outer' /\ Elsewhere(c)
<1>1. Outer'
  BY DEF RInv, Outer, Critical
<1>2. Elsewhere(c)
  BY Alone DEF RInv, Elsewhere, Critical
<1> QED
  BY <1>1, <1>2

\* A loop that has not begun has built what no look explains and every look would.
LEMMA FirstLook ==
    ASSUME RInv, NEW c \in Client, pc[c] # "idle", NEW s \in Seq(Entry), NEW r
    PROVE  \E at \in TL!Looks(Len(s), since[c], now) :
             at[0] = now /\ Picks(s, TL!Chosen(r, s, at))[0] = <<>>
<1>1. Len(s) \in Nat /\ now \in Nat /\ since[c] \in Nat /\ since[c] <= now
  BY DEF RInv, IInv, TypeOK, Outer
<1> DEFINE at == [i \in 0 .. Len(s) |-> now]
<1>2. at \in [0 .. Len(s) -> since[c] .. now] /\ at[0] = now
  BY <1>1
<1>3. \A i \in 1 .. Len(s) : at[i - 1] <= at[i]
  <2> SUFFICES ASSUME NEW i \in 1 .. Len(s) PROVE at[i - 1] <= at[i]
    OBVIOUS
  <2>1. i \in 0 .. Len(s) /\ i - 1 \in 0 .. Len(s)
    BY <1>1
  <2> QED
    BY <1>1, <2>1
<1>4. at \in TL!Looks(Len(s), since[c], now)
  BY <1>2, <1>3 DEF TL!Looks
<1> HIDE DEF at
<1> QED
  BY <1>2, <1>4, PicksFixpoint

\* Loading begins a loop or appends.
LEMMA LoadOuter == ASSUME RInv, NEW c \in Client, loadLocked(c) PROVE Outer' /\ Judging'
<1> USE DataAssumption DEF IInv, TypeOK
<1>1. CASE Finish(c, "err", <<>>)
  <2>1. pc[c] \in Critical /\ "err" \in Result \ {"none"}
    BY DEF loadLocked, Critical, Result
  <2> QED
    BY <1>1, <2>1, FinishOuter
<1>2. CASE ~Finish(c, "err", <<>>)
  <2> DEFINE s == Contents(file)
             l == AfterLoad(req[c].op)
  <2>1. /\ pc[c] = "load" /\ file # Corrupt
        /\ entries' = [entries EXCEPT ![c] = s]
        /\ kept' = [kept EXCEPT ![c] = IF req[c].op = "Record"
                                       THEN Append(s, req[c].entry) ELSE @]
        /\ pc' = [pc EXCEPT ![c] = l]
        /\ UNCHANGED <<file, now, processMu, req, k, cutoff, res, ans, since>>
    BY <1>2 DEF loadLocked, Readable, Goto
  <2>2. s \in Seq(Entry)
    BY <2>1, ContentsType DEF RInv
  <2>3. req[c] \in Request /\ kept[c] = <<>> /\ k[c] = 1
    BY <2>1 DEF RInv, Control, Loop, Critical
  <2>4. /\ req[c].op = "Record" => l = "save"
        /\ req[c].op = "Cleanup" => l = "cutoff"
        /\ req[c].op \notin {"Record", "Cleanup"} => l = "scan"
    BY DEF AfterLoad
  <2> HIDE DEF s, l
  <2>5. pc'[c] = l /\ l \in Critical /\ pc[c] \in Critical
        /\ \A d \in Client : d # c => pc'[d] = pc[d]
    BY <2>1, <2>4 DEF RInv, Critical
  <2>6. Outer' /\ Elsewhere(c)
    BY <2>1, <2>5, InsideOuter
  <2>7. Judging'
    <3>1. CASE l = "scan"
      <4>1. req[c].op \notin {"Record", "Cleanup"}
        BY <2>4, <3>1
      <4>2. entries'[c] = s /\ kept'[c] = <<>> /\ k'[c] = 1
        BY <2>1, <2>3, <4>1 DEF RInv
      <4>3. PICK at \in TL!Looks(Len(s), since[c], now) :
              at[0] = now /\ Picks(s, TL!Chosen(req[c], s, at))[0] = <<>>
        BY <2>1, <2>2, FirstLook
      <4>4. Len(s) \in Nat
        BY <2>2
      <4> HIDE DEF TypeOK, IInv
      <4> QED
        BY <2>1, <2>5, <2>6, <3>1, <4>1, <4>2, <4>3, <4>4 DEF Judging, Elsewhere
    <3>2. CASE l # "scan"
      <4>1. l = "save" => req[c].op = "Record"
        BY <2>4, <3>2
      <4> QED
        BY <2>1, <2>5, <2>6, <3>2, <4>1 DEF Judging, Elsewhere
    <3> QED
      BY <3>1, <3>2
  <2> QED
    BY <2>6, <2>7
<1> QED
  BY <1>1, <1>2

\* Cleanup's first look at the clock fixes its cutoff.
LEMMA CutoffOuter == ASSUME RInv, NEW c \in Client, Cutoff(c) PROVE Outer' /\ Judging'
<1> USE DataAssumption DEF IInv, TypeOK
<1>1. /\ pc[c] = "cutoff" /\ pc'[c] = "scan" /\ cutoff'[c] = now - req[c].span
      /\ \A d \in Client : d # c => pc'[d] = pc[d]
      /\ UNCHANGED <<file, now, processMu, req, entries, k, kept, res, ans, since>>
  BY DEF Cutoff, Goto, RInv
<1>2. req[c].op = "Cleanup" /\ kept[c] = <<>> /\ k[c] = 1 /\ entries[c] \in Seq(Entry)
  BY <1>1 DEF RInv, Control, Loop
<1>3. Outer' /\ Elsewhere(c)
  BY <1>1, InsideOuter DEF Critical
<1>4. PICK at \in TL!Looks(Len(entries[c]), since[c], now) :
        at[0] = now /\ Picks(entries[c], TL!Chosen(req[c], entries[c], at))[0] = <<>>
  BY <1>1, <1>2, FirstLook
<1>5. Len(entries[c]) \in Nat /\ "Cleanup" \notin Finder
  BY <1>2 DEF Finder
<1> HIDE DEF TypeOK, IInv
<1>6. Judging'
  BY <1>1, <1>2, <1>3, <1>4, <1>5 DEF Judging, Elsewhere
<1> QED
  BY <1>3, <1>6

\* One iteration adds one look.
LEMMA ScanOuter == ASSUME RInv, NEW c \in Client, Scan(c) PROVE Outer' /\ Judging'
<1> DEFINE e == entries[c][k[c]]
           hit == Selects(req[c], e, cutoff[c], now)
<1>1. /\ pc[c] = "scan" /\ k[c] \in Nat \ {0} /\ k[c] <= Len(entries[c])
      /\ entries[c] \in Seq(Entry) /\ Len(entries[c]) \in Nat /\ req[c].op # "Record"
  BY DEF Scan, RInv, IInv, TypeOK, Control
<1>2. CASE Finish(c, "ok", <<e>>)
  <2>1. pc[c] \in Critical /\ "ok" \in Result \ {"none"}
    BY <1>1 DEF Critical, Result
  <2> QED
    BY <1>2, <2>1, FinishOuter
<1>3. CASE ~Finish(c, "ok", <<e>>)
  <2>1. /\ ~(hit /\ req[c].op \in Finder)
        /\ kept' = [kept EXCEPT ![c] = IF hit THEN Append(@, e) ELSE @]
        /\ k' = [k EXCEPT ![c] = @ + 1]
        /\ UNCHANGED <<file, now, processMu, pc, req, entries, cutoff, res, ans, since>>
    BY <1>3 DEF Scan
  <2> HIDE DEF e, hit
  <2>2. kept'[c] = (IF hit THEN Append(kept[c], e) ELSE kept[c]) /\ k'[c] = k[c] + 1
    BY <2>1 DEF RInv, IInv, TypeOK
  <2>3. Outer' /\ Elsewhere(c)
    BY <1>1, <2>1, InsideOuter DEF Critical
  <2>4. PICK at \in TL!Looks(Len(entries[c]), since[c], now) :
           /\ kept[c] = Picks(entries[c], TL!Chosen(req[c], entries[c], at))[k[c] - 1]
           /\ k[c] \in TL!Chosen(req[c], entries[c], at) <=> hit
           /\ req[c].op = "Cleanup" => cutoff[c] = at[0] - req[c].span
    BY <1>1, NextLook DEF hit, e
  <2>5. k[c] \in 1 .. Len(entries[c]) /\ k'[c] - 1 = k[c]
        /\ k'[c] <= Len(entries[c]) + 1
    BY <1>1, <2>2
  <2>6. kept'[c] = Picks(entries[c], TL!Chosen(req[c], entries[c], at))[k'[c] - 1]
    BY <1>1, <2>2, <2>4, <2>5, PicksFixpoint DEF e
  <2>7. req[c].op \in Finder => kept'[c] = <<>>
    BY <1>1, <2>1, <2>2 DEF RInv, Judging
  <2> QED
    BY <1>1, <2>1, <2>3, <2>4, <2>5, <2>6, <2>7 DEF Judging, Elsewhere
<1> QED
  BY <1>2, <1>3

\* The end of a loop writes back what it has built.
LEMMA ScanEndOuter == ASSUME RInv, NEW c \in Client, ScanEnd(c) PROVE Outer' /\ Judging'
<1> DEFINE r == IF req[c].op \in Finder THEN "notfound" ELSE "ok"
<1>1. pc[c] = "scan" /\ pc[c] \in Critical /\ k[c] > Len(entries[c])
  BY DEF ScanEnd, Critical
<1>2. CASE Finish(c, r, Answered(req[c], kept[c]))
  <2>1. r \in Result \ {"none"}
    BY DEF Result
  <2> QED
    BY <1>1, <1>2, <2>1, FinishOuter
<1>3. CASE ~Finish(c, r, Answered(req[c], kept[c]))
  <2>1. /\ Saves(req[c], entries[c], kept[c])
        /\ pc' = [pc EXCEPT ![c] = "save"]
        /\ UNCHANGED <<file, now, processMu, req, entries, k, kept, cutoff, res, ans, since>>
    BY <1>3 DEF ScanEnd, Goto, local
  <2>2. pc'[c] = "save" /\ \A d \in Client : d # c => pc'[d] = pc[d]
    BY <2>1 DEF RInv, IInv, TypeOK
  <2>3. Outer' /\ Elsewhere(c)
    BY <1>1, <2>1, <2>2, InsideOuter DEF Critical
  <2> QED
    BY <1>1, <2>1, <2>2, <2>3 DEF RInv, Judging, Elsewhere, Saves
<1> QED
  BY <1>2, <1>3

\* The clock moves on: the looks so far stay looks.
LEMMA TickOuter == ASSUME RInv, Tick PROVE Outer' /\ Judging'
<1>1. now \in Nat /\ now' = now + 1
      /\ UNCHANGED <<file, processMu, pc, req, entries, k, kept, cutoff, res, ans, since>>
  BY DEF RInv, IInv, TypeOK, Tick, local
<1>2. \A c \in Client : since[c] \in Nat
  BY DEF RInv, IInv, TypeOK
<1>3. Outer'
  BY <1>1, <1>2 DEF RInv, Outer
<1>4. \A n : \A c \in Client : TL!Looks(n, since[c], now) \subseteq TL!Looks(n, since[c], now')
  <2> SUFFICES ASSUME NEW n, NEW c \in Client, NEW at \in TL!Looks(n, since[c], now)
               PROVE  at \in TL!Looks(n, since[c], now')
    OBVIOUS
  <2>1. since[c] .. now \subseteq since[c] .. now'
    BY <1>1, <1>2
  <2> QED
    BY <2>1 DEF TL!Looks
<1>5. Judging'
  BY <1>1, <1>4 DEF RInv, Judging
<1> QED
  BY <1>3, <1>5

LEMMA CrashOuter == ASSUME RInv, Crash PROVE Outer' /\ Judging'
<1>1. \A c \in Client : pc'[c] = "idle" /\ req'[c] = NoRequest /\ since'[c] = 0
                        /\ res'[c] = "none" /\ ans'[c] = <<>>
  BY DEF Crash
<1> QED
  BY <1>1 DEF Outer, Judging

\* Only a save changes the file, and it saves what it could encode.
LEMMA EncodableStays == ASSUME RInv, [Next]_vars PROVE Encodable'
<1>1. CASE file' = file
  BY <1>1 DEF RInv, Encodable
<1>2. CASE file' # file
  <2>1. PICK c \in Client : saveLocked(c)
    BY <1>2, OnlySaveWrites
  <2>2. file' = kept[c] /\ \A i \in DOMAIN kept[c] : kept[c][i] \notin Unencodable
    BY <1>2, <2>1 DEF saveLocked
  <2> QED
    BY <2>2 DEF Encodable
<1> QED
  BY <1>1, <1>2

\* The invariant of the refinement is inductive.
LEMMA NextOuter == RInv /\ [Next]_vars => RInv'
<1> SUFFICES ASSUME RInv, [Next]_vars PROVE RInv'
  OBVIOUS
<1>1. IInv' /\ Encodable'
  BY NextInv, EncodableStays DEF RInv
<1>2. Outer' /\ Judging'
  <2>1. CASE UNCHANGED vars
    <3>1. Outer'
      BY <2>1 DEF vars, RInv, Outer
    <3>2. Judging'
      BY <2>1 DEF vars, local, RInv, Judging
    <3> QED
      BY <3>1, <3>2
  <2>2. ASSUME NEW c \in Client, saveLocked(c) PROVE Outer' /\ Judging'
    <3>1. PICK r \in Result \ {"none"} : Finish(c, r, <<>>)
      BY <2>2 DEF saveLocked, Result
    <3> QED
      BY <2>2, <3>1, FinishOuter DEF saveLocked, Critical
  <2> QED
    BY <2>1, <2>2, TickOuter, CrashOuter, OutsideOuter, LoadOuter, CutoffOuter, ScanOuter,
       ScanEndOuter DEF Next, Running
<1> QED
  BY <1>1, <1>2 DEF RInv

\* A loop that is over has an outcome of the request.
LEMMA LoopOutcome ==
    ASSUME RInv, NEW c \in Client, pc[c] \in {"scan", "save"}, req[c].op # "Record",
           k[c] > Len(entries[c])
    PROVE  \E I : /\ kept[c] = Picked(entries[c], I)
                  /\ Picked(entries[c], I) \in TL!Outcomes(req[c], entries[c], since[c], now)
<1>1. entries[c] \in Seq(Entry) /\ Len(entries[c]) \in Nat /\ k[c] \in Nat
  BY DEF RInv, IInv, TypeOK
<1>2. PICK at \in TL!Looks(Len(entries[c]), since[c], now) :
        /\ k[c] <= Len(entries[c]) + 1
        /\ kept[c] = Picks(entries[c], TL!Chosen(req[c], entries[c], at))[k[c] - 1]
  BY DEF RInv, Judging
<1>3. k[c] - 1 = Len(entries[c])
  BY <1>1, <1>2
<1>4. kept[c] = Picked(entries[c], TL!Chosen(req[c], entries[c], at))
  BY <1>2, <1>3 DEF Picked
<1>5. TL!Picked(entries[c], TL!Chosen(req[c], entries[c], at))
        \in TL!Outcomes(req[c], entries[c], since[c], now)
  BY <1>2 DEF TL!Outcomes
<1> QED
  BY <1>4, <1>5, SameOps

\* What a transaction knows when it ends.
LEMMA Inside ==
    ASSUME RInv, NEW c \in Client, pc[c] \in Critical
    PROVE  /\ TL!Pending(c) /\ ~TL!Rejected(req[c]) /\ ans[c] = <<>>
           /\ pc[c] # "load" => file # Corrupt /\ entries[c] = TL!Contents(file)
           /\ req[c] \in Request
           /\ ans = [ans EXCEPT ![c] = <<>>]
<1>1. req[c] \in Request /\ ~Rejected(req[c])
  BY DEF RInv, IInv, Control, Critical
<1>2. req[c] # NoRequest
  BY <1>1, DataAssumption
<1>3. res[c] = "none" /\ ans[c] = <<>>
  BY DEF RInv, Outer, Critical
<1>4. pc[c] # "load" => file # Corrupt /\ entries[c] = Contents(file)
  BY DEF RInv, IInv, SnapshotCurrent
<1>5. ans = [ans EXCEPT ![c] = <<>>]
  BY <1>3 DEF RInv, IInv, TypeOK
<1> QED
  BY <1>1, <1>2, <1>3, <1>4, <1>5, SameOps DEF TL!Pending

\* An error leaves the entries alone.
LEMMA FailRefines ==
    ASSUME RInv, NEW c \in Client, pc[c] \in Critical, Finish(c, "err", <<>>), UNCHANGED file
    PROVE  TL!Fail(c)
BY Inside DEF TL!Fail, Finish

\* A search that succeeds answers with the first match.
LEMMA ScanRefines ==
    ASSUME RInv, NEW c \in Client, Scan(c) PROVE TL!Answer(c) \/ UNCHANGED TL!vars
<1> DEFINE s == entries[c]
           e == s[k[c]]
<1>1. /\ pc[c] = "scan" /\ pc[c] \in Critical /\ k[c] \in Nat \ {0} /\ k[c] <= Len(s)
      /\ s \in Seq(Entry) /\ Len(s) \in Nat /\ UNCHANGED file
  BY DEF Scan, RInv, IInv, TypeOK, Critical
<1>2. CASE /\ Selects(req[c], e, cutoff[c], now) /\ req[c].op \in Finder
           /\ Finish(c, "ok", <<e>>)
  <2>1. PICK at \in TL!Looks(Len(s), since[c], now) :
          /\ kept[c] = Picks(s, TL!Chosen(req[c], s, at))[k[c] - 1]
          /\ k[c] \in TL!Chosen(req[c], s, at)
    BY <1>1, <1>2, NextLook
  <2> DEFINE I == TL!Chosen(req[c], s, at)
  <2> HIDE DEF I
  <2>2. kept[c] = <<>> /\ e \in Entry /\ k[c] \in 1 .. Len(s) /\ k[c] \in 0 .. Len(s)
    BY <1>1, <1>2 DEF RInv, Judging
  <2>3. Picks(s, I)[k[c]] = Append(<<>>, e)
    <3>1. k[c] \in I /\ Picks(s, I)[k[c] - 1] = <<>>
      BY <2>1, <2>2 DEF I
    <3>2. Picks(s, I)[k[c]] = IF k[c] \in I THEN Append(Picks(s, I)[k[c] - 1], s[k[c]])
                                            ELSE Picks(s, I)[k[c] - 1]
      BY <1>1, <2>2, PicksFixpoint
    <3> QED
      BY <3>1, <3>2
  <2>4. Append(<<>>, e) = <<e>> /\ <<e>> # <<>> /\ Head(<<e>>) = e
    BY <2>2
  <2>5. Picked(s, I) # <<>> /\ Head(Picked(s, I)) = e
    BY <1>1, <2>2, <2>3, <2>4, PicksHead
  <2>6. TL!Picked(s, I) \in TL!Outcomes(req[c], s, since[c], now)
    BY <1>2, <2>1 DEF TL!Outcomes, I, Finder
  <2>7. req[c].op \in TL!Finder /\ req[c].op \notin TL!Mutator
    BY <1>2 DEF Finder, TL!Finder, TL!Mutator
  <2>8. ans' = [ans EXCEPT ![c] = <<Head(Picked(s, I))>>] /\ res' = [res EXCEPT ![c] = "ok"]
        /\ UNCHANGED <<file, now, req, since>>
    BY <1>1, <1>2, <2>5 DEF Finish
  <2>9. Picked(s, I) \in TL!Outcomes(req[c], TL!Contents(file), since[c], now)
    BY <1>1, <2>6, Inside, SameOps
  <2>10. TL!Pending(c) /\ ~TL!Rejected(req[c]) /\ file # Corrupt
    BY <1>1, Inside
  <2> QED
    BY <2>5, <2>7, <2>8, <2>9, <2>10 DEF TL!Answer
<1>3. CASE UNCHANGED <<now, processMu, pc, req, entries, cutoff, res, ans, since>>
  BY <1>1, <1>3 DEF TL!vars
<1> QED
  BY <1>2, <1>3 DEF Scan

\* A loop that ends without a save answers, or has found nothing to remove.
LEMMA ScanEndRefines ==
    ASSUME RInv, NEW c \in Client, ScanEnd(c)
    PROVE  TL!Answer(c) \/ TL!Commit(c) \/ UNCHANGED TL!vars
<1> DEFINE s == entries[c]
<1>1. /\ pc[c] = "scan" /\ pc[c] \in Critical /\ k[c] > Len(s) /\ UNCHANGED file
      /\ s \in Seq(Entry) /\ req[c].op # "Record"
  BY DEF ScanEnd, RInv, IInv, TypeOK, Control, Critical
<1>2. /\ TL!Pending(c) /\ ~TL!Rejected(req[c]) /\ file # Corrupt
      /\ s = TL!Contents(file) /\ ans = [ans EXCEPT ![c] = <<>>]
  BY <1>1, Inside
<1>3. PICK I : /\ kept[c] = Picked(s, I)
               /\ Picked(s, I) \in TL!Outcomes(req[c], s, since[c], now)
  BY <1>1, LoopOutcome
<1>4. CASE UNCHANGED <<now, processMu, req, local, res, ans, since>>
  BY <1>1, <1>4 DEF TL!vars
<1>5. CASE /\ ~Saves(req[c], s, kept[c])
           /\ Finish(c, IF req[c].op \in Finder THEN "notfound" ELSE "ok",
                        Answered(req[c], kept[c]))
  <2>1. UNCHANGED <<file, now, req, since>>
    BY <1>1, <1>5 DEF Finish
  <2>2. CASE req[c].op \in Finder
    <3>1. kept[c] = <<>> /\ req[c].op \notin Mutator
      BY <1>1, <2>2 DEF RInv, Judging, Finder, Mutator
    <3>2. ans' = [ans EXCEPT ![c] = kept[c]] /\ res' = [res EXCEPT ![c] = "notfound"]
      BY <1>5, <2>2, <3>1 DEF Finish, Answered
    <3> QED
      BY <1>2, <1>3, <2>1, <2>2, <3>1, <3>2, SameOps DEF TL!Answer
  <2>3. CASE req[c].op \notin Finder /\ req[c].op \notin Mutator
    <3>1. ans' = [ans EXCEPT ![c] = kept[c]] /\ res' = [res EXCEPT ![c] = "ok"]
      BY <1>5, <2>3 DEF Finish, Answered
    <3> QED
      BY <1>2, <1>3, <2>1, <2>3, <3>1, SameOps DEF TL!Answer
  <2>4. CASE req[c].op \in Mutator
    <3>1. req[c].op = "Cleanup" /\ Len(kept[c]) = Len(s) /\ req[c].op \notin Finder
      BY <1>5, <2>4 DEF Saves, Finder
    <3>2. kept[c] = s
      BY <1>1, <1>3, <3>1, PicksAll
    <3>3. \A i \in DOMAIN s : s[i] \notin Unencodable
      BY <1>1, <1>2 DEF RInv, Encodable, TL!Contents
    <3>4. ans' = ans /\ res' = [res EXCEPT ![c] = "ok"]
      BY <1>2, <1>5, <2>4, <3>1 DEF Finish, Answered
    <3> QED
      BY <1>2, <1>3, <2>1, <2>4, <3>1, <3>2, <3>3, <3>4, SameOps DEF TL!Commit
  <2> QED
    BY <2>2, <2>3, <2>4
<1> QED
  BY <1>4, <1>5 DEF ScanEnd

\* A save puts the outcome of its request in the place of the entries.
LEMMA SaveRefines == ASSUME RInv, NEW c \in Client, saveLocked(c) PROVE TL!Commit(c) \/ TL!Fail(c)
<1> DEFINE s == entries[c]
<1>1. pc[c] = "save" /\ pc[c] \in Critical /\ s \in Seq(Entry)
  BY DEF saveLocked, RInv, IInv, TypeOK, Critical
<1>2. /\ TL!Pending(c) /\ ~TL!Rejected(req[c]) /\ file # Corrupt
      /\ s = TL!Contents(file) /\ ans = [ans EXCEPT ![c] = <<>>] /\ req[c].op \in TL!Mutator
  BY <1>1, Inside, SameOps DEF RInv, IInv, Control
<1>3. CASE Finish(c, "err", <<>>) /\ UNCHANGED file
  BY <1>1, <1>3, FailRefines
<1>4. CASE /\ \A i \in DOMAIN kept[c] : kept[c][i] \notin Unencodable
           /\ file' = kept[c] /\ Finish(c, "ok", <<>>)
  <2>1. kept[c] \in TL!Outcomes(req[c], s, since[c], now)
    <3>1. CASE req[c].op = "Record"
      BY <1>1, <3>1 DEF RInv, IInv, Loop, TL!Outcomes
    <3>2. CASE req[c].op # "Record"
      <4>1. k[c] > Len(s)
        BY <1>1, <3>2 DEF RInv, IInv, Loop, Control, Mutator, Remover
      <4> QED
        BY <1>1, <3>2, <4>1, LoopOutcome
    <3> QED
      BY <3>1, <3>2
  <2>2. ~(req[c].op = "Cleanup" /\ kept[c] = s)
    BY <1>1 DEF RInv, Judging
  <2>3. ans' = ans /\ res' = [res EXCEPT ![c] = "ok"] /\ UNCHANGED <<now, req, since>>
    BY <1>2, <1>4 DEF Finish
  <2> QED
    BY <1>2, <1>4, <2>1, <2>2, <2>3 DEF TL!Commit
<1> QED
  BY <1>3, <1>4 DEF saveLocked

\* Every step of the locked ledger is a step of the atomic one, or none.
LEMMA StepRefines == ASSUME RInv, [Next]_vars PROVE [TL!Next]_(TL!vars)
<1>1. CASE UNCHANGED vars
  BY <1>1 DEF vars, TL!vars
<1>2. CASE Tick
  BY <1>2 DEF Tick, TL!Tick, TL!Next
<1>3. CASE Crash
  <2>1. TL!Forget(Client)
    BY <1>3 DEF Crash, TL!Forget
  <2> QED
    BY <2>1 DEF TL!Leave, TL!Next
<1>4. ASSUME NEW c \in Client, Begin(c) PROVE TL!Begin(c)
  BY <1>4 DEF Begin, TL!Begin, RInv, Outer
<1>5. ASSUME NEW c \in Client, Lock(c) \/ Cutoff(c) PROVE UNCHANGED TL!vars
  BY <1>5 DEF Lock, Cutoff, TL!vars
<1>6. ASSUME NEW c \in Client, Reject(c) PROVE TL!Fail(c)
  <2>1. req[c] \in Request /\ res[c] = "none"
    BY <1>6 DEF Reject, RInv, IInv, Control, Outer
  <2> QED
    BY <1>6, <2>1, DataAssumption DEF Reject, TL!Fail, TL!Pending
<1>7. ASSUME NEW c \in Client, loadLocked(c) PROVE TL!Fail(c) \/ UNCHANGED TL!vars
  BY <1>7, FailRefines DEF loadLocked, Critical, TL!vars
<1>8. ASSUME NEW c \in Client, Return(c) PROVE TL!Leave
  <2>1. res[c] # "none"
    BY <1>8 DEF Return, RInv, Outer
  <2>2. TL!Forget({c})
    BY <1>8 DEF Return, Goto, TL!Forget, RInv, IInv, TypeOK
  <2> QED
    BY <2>1, <2>2 DEF TL!Leave
<1> QED
  BY <1>1, <1>2, <1>3, <1>4, <1>5, <1>6, <1>7, <1>8, ScanRefines, ScanEndRefines, SaveRefines
     DEF Next, Running, TL!Next

\* What RInv says of the calls and the entries, for any number of goroutines.
THEOREM OuterInvariance == Spec => []RInv
<1> QED
  BY InitOuter, NextOuter, PTL DEF Spec

\* token.go's locked transactions implement the atomic ledger: every call takes effect,
\* answers or fails in one step on the entries of that step.
THEOREM LedgerImplementsAtomic == Spec => ImplementsTokenLedger
<1>1. Init => TL!Init
  BY InitOuter DEF Init, TL!Init, RInv, IInv, TypeOK
<1>2. RInv /\ [Next]_vars => [TL!Next]_(TL!vars)
  BY StepRefines
<1> QED
  BY <1>1, <1>2, OuterInvariance, PTL DEF Spec, ImplementsTokenLedger, TL!Spec

-----------------------------------------------------------------------------
(* The health report                                                        *)

HealthTypes ==
    /\ listed \in Files /\ source \in Files /\ window \in Int
    /\ clock \in Nat /\ began \in Nat /\ began <= clock
    /\ step \in {"start", "list", "entry", "expired?", "soon?", "report", "err"}
    /\ snapshot \in Seq(Entry) /\ pos \in Nat \ {0} /\ pos <= Len(snapshot) + 1
    /\ report \in [H!Heading -> Seq(Nat)]

\* Where the check is.
Place ==
    /\ step \in {"start", "list"} => pos = 1
    /\ step \in {"entry", "expired?", "soon?", "report"} =>
         source # Corrupt /\ snapshot = H!Tracked(H!Contents(source))
    /\ step \in {"expired?", "soon?"} => pos <= Len(snapshot)
    /\ step = "soon?" => ~IsExpired(snapshot[pos], began)
    /\ step = "report" => pos > Len(snapshot)

\* The entries before the one at hand have been filed, each once.
Filed ==
    /\ H!Counts = pos - 1
    /\ UNION {Elements(report[h]) : h \in H!Heading} = 1 .. pos - 1

\* What the headings say so far.
Soon(e, t) == window > 0 /\ ExpiresWithin(e, window, t)

Truthful ==
    /\ report["Valid"] = <<>> /\ report["Invalid"] = <<>>
    /\ \A i \in Elements(report["Expired"]) : IsExpired(snapshot[i], clock)
    /\ \A i \in Elements(report["ExpiringSoon"]) :
          ~IsExpired(snapshot[i], began) /\ Soon(snapshot[i], clock)
    /\ \A i \in Elements(report["Unknown"]) :
          ~IsExpired(snapshot[i], began) /\ ~Soon(snapshot[i], began)

HealthInv == HealthTypes /\ Place /\ Filed /\ Truthful

\* The questions mean the same to both modules.
LEMMA HealthOps ==
    /\ \A e, t : H!IsExpired(e, t) <=> IsExpired(e, t)
    /\ \A e, d, t : H!ExpiresWithin(e, d, t) <=> ExpiresWithin(e, d, t)
    /\ \A f : H!Contents(f) = Contents(f)
    /\ \A s, I : H!Picked(s, I) = Picked(s, I)
<1>1. \A s, I : H!Picked(s, I) = Picked(s, I)
  BY DEF H!Picked, Picked, H!Picks, Picks
<1> QED
  BY <1>1 DEF H!IsExpired, IsExpired, H!ExpiresWithin, ExpiresWithin, H!Contents, Contents

\* The list of a readable file is a list of entries.
LEMMA TrackedType ==
    ASSUME H!HealthAssumption, NEW f \in Files, f # Corrupt
    PROVE  H!Tracked(H!Contents(f)) \in Seq(Entry)
<1>1. f \in Seq(Entry) \cup {NoFile}
  BY DEF H!HealthAssumption
<1>2. <<>> \in Seq(Entry)
  OBVIOUS
<1>3. H!Contents(f) \in Seq(Entry)
  BY <1>1, <1>2 DEF H!Contents
<1> DEFINE s == H!Contents(f)
           I == {i \in DOMAIN s : Provider = "" \/ s[i].provider = Provider}
<1>4. H!Tracked(s) = Picked(s, I)
  BY HealthOps DEF H!Tracked
<1> HIDE DEF s, I
<1>5. s \in Seq(Entry)
  BY <1>3 DEF s
<1>6. Len(s) \in 0 .. Len(s)
  BY <1>5
<1> QED
  BY <1>4, <1>5, <1>6, PicksType DEF Picked, s

\* Later instants only make more entries expire, or expire soon.
LEMMA Later ==
    ASSUME NEW e \in Entry, NEW t \in Nat, NEW u \in Nat, t <= u, window \in Int
    PROVE  (IsExpired(e, t) => IsExpired(e, u)) /\ (Soon(e, t) => Soon(e, u))
BY DataAssumption DEF EntryType, IsExpired, Soon, ExpiresWithin

LEMMA HealthInit == ASSUME H!HealthAssumption, H!Init PROVE HealthInv
<1>1. <<>> \in Seq(Entry) /\ <<>> \in Seq(Nat) /\ Len(<<>>) = 0 /\ Elements(<<>>) = {}
  BY DEF Elements
<1>2. \A h \in H!Heading : report[h] = <<>>
  BY DEF H!Init
<1>3. "Valid" \in H!Heading /\ "Invalid" \in H!Heading /\ "Expired" \in H!Heading
      /\ "ExpiringSoon" \in H!Heading /\ "Unknown" \in H!Heading
  BY DEF H!Heading
<1>4. HealthTypes
  BY <1>1 DEF H!HealthAssumption, H!Init, HealthTypes
<1>5. Place
  BY DEF H!Init, Place
<1>6. Filed
  BY <1>1, <1>2, <1>3 DEF H!Init, Filed, H!Counts
<1>7. Truthful
  BY <1>1, <1>2, <1>3 DEF Truthful
<1> QED
  BY <1>4, <1>5, <1>6, <1>7 DEF HealthInv

\* The entry at hand is filed under h.
LEMMA FileOne ==
    ASSUME HealthInv, NEW h \in {"Expired", "ExpiringSoon", "Unknown"}, H!File(h),
           pos' = pos + 1
    PROVE  /\ report' \in [H!Heading -> Seq(Nat)]
           /\ Filed'
           /\ Elements(report'[h]) = Elements(report[h]) \cup {pos}
           /\ \A g \in H!Heading : g # h => report'[g] = report[g]
<1>1. report \in [H!Heading -> Seq(Nat)] /\ pos \in Nat /\ h \in H!Heading
  BY DEF HealthInv, HealthTypes, H!Heading
<1>2. report' = [report EXCEPT ![h] = Append(@, pos)]
  BY DEF H!File
<1>3. report[h] \in Seq(Nat)
  BY <1>1
<1>4. Append(report[h], pos) \in Seq(Nat)
      /\ Elements(Append(report[h], pos)) = Elements(report[h]) \cup {pos}
      /\ Len(Append(report[h], pos)) = Len(report[h]) + 1
  BY <1>1, <1>3, ElementsAppend
<1>5. report' \in [H!Heading -> Seq(Nat)] /\ report'[h] = Append(report[h], pos)
      /\ \A g \in H!Heading : g # h => report'[g] = report[g]
  BY <1>1, <1>2, <1>4
<1>6. (H!Counts)' = H!Counts + 1
  <2>1. \A g \in H!Heading : Len(report[g]) \in Nat
    BY <1>1
  <2>2. \A g \in H!Heading : Len(report'[g]) = IF g = h THEN Len(report[g]) + 1 ELSE Len(report[g])
    BY <1>4, <1>5
  <2> DEFINE L(g) == Len(report[g])
             M(g) == Len(report'[g])
  <2>3. /\ L("Valid") \in Nat /\ L("Invalid") \in Nat /\ L("Expired") \in Nat
        /\ L("ExpiringSoon") \in Nat /\ L("Unknown") \in Nat
    BY <2>1 DEF H!Heading
  <2>4. M("Valid") = L("Valid") /\ M("Invalid") = L("Invalid")
    BY <2>2 DEF H!Heading
  <2>5. /\ M("Expired") = IF h = "Expired" THEN L("Expired") + 1 ELSE L("Expired")
        /\ M("ExpiringSoon") = IF h = "ExpiringSoon" THEN L("ExpiringSoon") + 1
                                                     ELSE L("ExpiringSoon")
        /\ M("Unknown") = IF h = "Unknown" THEN L("Unknown") + 1 ELSE L("Unknown")
    BY <2>2 DEF H!Heading
  <2>6. H!Counts = L("Valid") + L("Invalid") + L("Expired") + L("ExpiringSoon") + L("Unknown")
    BY DEF H!Counts
  <2>7. (H!Counts)' = M("Valid") + M("Invalid") + M("Expired") + M("ExpiringSoon") + M("Unknown")
    BY DEF H!Counts
  <2> HIDE DEF HealthInv, L, M
  <2> QED
    BY <2>3, <2>4, <2>5, <2>6, <2>7
<1> DEFINE Old == UNION {Elements(report[g]) : g \in H!Heading}
           New == UNION {Elements(report'[g]) : g \in H!Heading}
<1>7. New = Old \cup {pos}
  <2>1. \A g \in H!Heading : Elements(report'[g]) = IF g = h THEN Elements(report[g]) \cup {pos}
                                                          ELSE Elements(report[g])
    BY <1>4, <1>5
  <2>2. \A x : (\E g \in H!Heading : x \in Elements(report'[g]))
                <=> (\E g \in H!Heading : x \in Elements(report[g])) \/ x = pos
    BY <1>1, <2>1
  <2>3. \A x : x \in New <=> \E g \in H!Heading : x \in Elements(report'[g])
    BY Zenon
  <2>4. \A x : x \in Old <=> \E g \in H!Heading : x \in Elements(report[g])
    BY Zenon
  <2> HIDE DEF New, Old
  <2>5. \A x : x \in New <=> x \in Old \/ x = pos
    BY <2>2, <2>3, <2>4
  <2> QED
    BY <2>5
<1>8. pos' - 1 = pos /\ 1 .. pos = (1 .. (pos - 1)) \cup {pos}
  <2>1. pos \in Nat \ {0}
    BY DEF HealthInv, HealthTypes
  <2> QED
    BY <2>1
<1>9. H!Counts = pos - 1 /\ Old = 1 .. (pos - 1)
  BY DEF HealthInv, Filed
<1>10. Filed'
  <2>1. (H!Counts)' = pos' - 1
    BY <1>1, <1>6, <1>8, <1>9
  <2>2. New = 1 .. (pos' - 1)
    <3> HIDE DEF New, Old
    <3> QED
      BY <1>7, <1>8, <1>9
  <2> QED
    BY <2>1, <2>2 DEF Filed, H!Heading
<1> QED
  BY <1>4, <1>5, <1>10

\* What is filed says something of an entry of the snapshot.
LEMMA FiledPlaces ==
    ASSUME HealthInv, NEW h \in H!Heading, NEW i \in Elements(report[h])
    PROVE  i \in 1 .. pos - 1 /\ i \in 1 .. Len(snapshot) /\ snapshot[i] \in Entry
<1>1. i \in 1 .. pos - 1
  BY DEF HealthInv, Filed
<1>2. i \in 1 .. Len(snapshot)
  BY <1>1 DEF HealthInv, HealthTypes
<1> QED
  BY <1>1, <1>2 DEF HealthInv, HealthTypes

LEMMA HealthNext == ASSUME H!HealthAssumption, HealthInv, [H!Next]_(H!vars) PROVE HealthInv'
<1> USE DEF HealthInv
<1>0. "Valid" \in H!Heading /\ "Invalid" \in H!Heading /\ "Expired" \in H!Heading
      /\ "ExpiringSoon" \in H!Heading /\ "Unknown" \in H!Heading
  BY DEF H!Heading
<1>1. CASE H!CheckHealth
  <2>1. pos = 1 /\ pos' = pos /\ report' = report /\ snapshot' = snapshot
        /\ clock' = clock /\ began' = clock
    BY <1>1 DEF H!CheckHealth, H!Outside, Place
  <2>2. \A h \in H!Heading : Elements(report[h]) = {}
    BY <2>1, FiledPlaces
  <2>3. HealthTypes' /\ Place'
    BY <1>1 DEF H!CheckHealth, H!Outside, HealthTypes, Place
  <2>4. Filed'
    BY <2>1 DEF Filed, H!Counts
  <2>5. Truthful'
    BY <1>0, <2>1, <2>2 DEF Truthful
  <2> QED
    BY <2>3, <2>4, <2>5
<1>2. CASE H!List
  <2>1. pos = 1 /\ pos' = pos /\ report' = report /\ clock' = clock /\ began' = began
    BY <1>2 DEF H!List, H!Outside, Place
  <2>2. \A h \in H!Heading : Elements(report[h]) = {}
    BY <2>1, FiledPlaces
  <2>3. Filed' /\ Truthful'
    <3>1. Filed'
      BY <2>1 DEF Filed, H!Counts
    <3>2. Truthful'
      BY <1>0, <2>1, <2>2 DEF Truthful
    <3> QED
      BY <3>1, <3>2
  <2>4. HealthTypes' /\ Place'
    <3>1. CASE listed = Corrupt
      BY <1>2, <3>1 DEF H!List, H!Outside, HealthTypes, Place
    <3>2. CASE listed # Corrupt
      <4>1. snapshot' = H!Tracked(H!Contents(listed)) /\ source' = listed /\ step' = "entry"
            /\ UNCHANGED <<listed, clock, window, pos, report, began>>
        BY <1>2, <3>2 DEF H!List, H!Outside
      <4>2. snapshot' \in Seq(Entry)
        BY <3>2, <4>1, TrackedType DEF HealthTypes
      <4>3. Len(snapshot') \in Nat
        BY <4>2
      <4>4. HealthTypes'
        BY <2>1, <4>1, <4>2, <4>3 DEF HealthTypes
      <4>5. Place'
        BY <3>2, <4>1 DEF Place
      <4> QED
        BY <4>4, <4>5
    <3> QED
      BY <3>1, <3>2
  <2> QED
    BY <2>3, <2>4
<1>3. CASE H!LoopHead
  <2>1. UNCHANGED <<listed, clock, window, snapshot, pos, report, source, began>>
        /\ step = "entry" /\ step' \in {"report", "err", "expired?"}
        /\ (step' = "report" <=> pos > Len(snapshot))
    BY <1>3 DEF H!LoopHead, H!Outside
  <2>2. HealthTypes'
    BY <2>1 DEF HealthTypes
  <2>3. Place'
    <3>1. pos \in Nat /\ Len(snapshot) \in Nat
      BY DEF HealthTypes
    <3> QED
      BY <2>1, <3>1 DEF Place
  <2>4. Filed' /\ Truthful'
    BY <2>1 DEF Filed, Truthful, H!Counts, Soon
  <2> QED
    BY <2>2, <2>3, <2>4
<1>4. CASE H!CheckExpired
  <2>1. step = "expired?" /\ pos <= Len(snapshot) /\ pos \in Nat \ {0} /\ snapshot \in Seq(Entry)
        /\ Len(snapshot) \in Nat
        /\ UNCHANGED <<listed, clock, changes, cancelled, window, snapshot, source, began>>
    BY <1>4 DEF H!CheckExpired, H!Outside, Place, HealthTypes
  <2>2. snapshot[pos] \in Entry
    BY <2>1
  <2>3. CASE IsExpired(snapshot[pos], clock)
    <3>1. H!File("Expired") /\ pos' = pos + 1 /\ step' = "entry"
      BY <1>4, <2>3, HealthOps DEF H!CheckExpired, H!AfterExpired, H!NextEntry
    <3>2. /\ report' \in [H!Heading -> Seq(Nat)] /\ Filed'
          /\ Elements(report'["Expired"]) = Elements(report["Expired"]) \cup {pos}
          /\ \A g \in H!Heading : g # "Expired" => report'[g] = report[g]
      BY <3>1, FileOne
    <3>3. HealthTypes' /\ Place'
      BY <2>1, <3>1, <3>2 DEF HealthTypes, Place
    <3>4. Truthful'
      BY <1>0, <2>1, <2>3, <3>1, <3>2 DEF Truthful, Soon
    <3> QED
      BY <3>2, <3>3, <3>4
  <2>4. CASE ~IsExpired(snapshot[pos], clock)
    <3>1. step' = "soon?" /\ UNCHANGED <<pos, report>>
      BY <1>4, <2>4, HealthOps DEF H!CheckExpired
    <3>2. ~IsExpired(snapshot[pos], began)
      BY <2>2, <2>4, Later DEF HealthTypes
    <3>3. HealthTypes' /\ Place'
      BY <2>1, <3>1, <3>2 DEF HealthTypes, Place
    <3>4. Filed' /\ Truthful'
      BY <2>1, <3>1 DEF Filed, Truthful, H!Counts, Soon
    <3> QED
      BY <3>3, <3>4
  <2> QED
    BY <2>3, <2>4
<1>5. CASE H!CheckSoon
  <2>1. step = "soon?" /\ pos <= Len(snapshot) /\ pos \in Nat \ {0} /\ snapshot \in Seq(Entry)
        /\ Len(snapshot) \in Nat /\ ~IsExpired(snapshot[pos], began)
        /\ UNCHANGED <<listed, clock, changes, cancelled, window, snapshot, source, began>>
        /\ pos' = pos + 1 /\ step' = "entry"
    BY <1>5 DEF H!CheckSoon, H!NextEntry, H!Outside, Place, HealthTypes
  <2>2. snapshot[pos] \in Entry
    BY <2>1
  <2>3. CASE Soon(snapshot[pos], clock)
    <3>1. H!File("ExpiringSoon")
      BY <1>5, <2>3, HealthOps DEF H!CheckSoon, Soon
    <3>2. /\ report' \in [H!Heading -> Seq(Nat)] /\ Filed'
          /\ Elements(report'["ExpiringSoon"]) = Elements(report["ExpiringSoon"]) \cup {pos}
          /\ \A g \in H!Heading : g # "ExpiringSoon" => report'[g] = report[g]
      BY <2>1, <3>1, FileOne
    <3>3. HealthTypes' /\ Place'
      BY <2>1, <3>2 DEF HealthTypes, Place
    <3>4. Truthful'
      BY <1>0, <2>1, <2>3, <3>2 DEF Truthful, Soon
    <3> QED
      BY <3>2, <3>3, <3>4
  <2>4. CASE ~Soon(snapshot[pos], clock)
    <3>1. H!File("Unknown")
      BY <1>5, <2>4, HealthOps DEF H!CheckSoon, Soon
    <3>2. /\ report' \in [H!Heading -> Seq(Nat)] /\ Filed'
          /\ Elements(report'["Unknown"]) = Elements(report["Unknown"]) \cup {pos}
          /\ \A g \in H!Heading : g # "Unknown" => report'[g] = report[g]
      BY <2>1, <3>1, FileOne
    <3>3. HealthTypes' /\ Place'
      BY <2>1, <3>2 DEF HealthTypes, Place
    <3>4. ~Soon(snapshot[pos], began)
      BY <2>2, <2>4, Later DEF HealthTypes
    <3>5. Truthful'
      BY <1>0, <2>1, <3>2, <3>4 DEF Truthful, Soon
    <3> QED
      BY <3>2, <3>3, <3>5
  <2> QED
    BY <2>3, <2>4
<1>6. CASE H!Tick \/ H!Cancel \/ H!OthersChange \/ UNCHANGED H!vars
  <2>1. clock' \in Nat /\ clock <= clock' /\ listed' \in Files
        /\ UNCHANGED <<window, step, snapshot, pos, report, source, began>>
    BY <1>6 DEF H!Tick, H!Cancel, H!OthersChange, H!vars, HealthTypes
  <2>2. HealthTypes' /\ Place'
    BY <2>1 DEF HealthTypes, Place
  <2>3. Filed'
    BY <2>1 DEF Filed, H!Counts
  <2>4. \A h \in H!Heading : \A i \in Elements(report[h]) :
           /\ IsExpired(snapshot[i], clock) => IsExpired(snapshot[i], clock')
           /\ Soon(snapshot[i], clock) => Soon(snapshot[i], clock')
    <3>1. clock \in Nat /\ window \in Int
      BY DEF HealthTypes
    <3> QED
      BY <2>1, <3>1, FiledPlaces, Later
  <2>5. Truthful'
    <3>1. \A e, t : Soon(e, t)' <=> Soon(e, t)
      BY <2>1 DEF Soon
    <3> QED
      BY <1>0, <2>1, <2>4 DEF Truthful, Soon
  <2> QED
    BY <2>2, <2>3, <2>5
<1> QED
  BY <1>1, <1>2, <1>3, <1>4, <1>5, <1>6 DEF H!Next

\* The health report files every tracked token of one snapshot once, and says the truth
\* of it (health.go 10-52).
THEOREM HealthReportExact == ASSUME H!HealthAssumption PROVE H!Spec => []ReportExact
<1>1. HealthInv => ReportExact
  <2> SUFFICES ASSUME HealthInv, step = "report" PROVE H!ReportExact
    BY DEF ReportExact, H!ReportExact
  <2>1. snapshot = H!Tracked(H!Contents(source)) /\ pos = Len(snapshot) + 1
        /\ Len(snapshot) \in Nat /\ DOMAIN snapshot = 1 .. Len(snapshot)
    BY DEF HealthInv, Place, HealthTypes
  <2>2. H!Counts = Len(snapshot) /\ UNION {Elements(report[h]) : h \in H!Heading} = DOMAIN snapshot
    BY <2>1 DEF HealthInv, Filed
  <2>3. Elements(report["Valid"]) = {} /\ Elements(report["Invalid"]) = {}
    BY DEF HealthInv, Truthful, Elements
  <2>4. Truthful
    BY DEF HealthInv
  <2> HIDE DEF HealthInv
  <2> QED
    BY <2>1, <2>2, <2>3, <2>4, HealthOps DEF H!ReportExact, Truthful, Soon, Elements
<1>2. H!Init => HealthInv
  BY HealthInit
<1>3. HealthInv /\ [H!Next]_(H!vars) => HealthInv'
  BY HealthNext
<1> QED
  BY <1>1, <1>2, <1>3, PTL DEF H!Spec

=============================================================================
