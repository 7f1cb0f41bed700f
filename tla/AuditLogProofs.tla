--------------------------- MODULE AuditLogProofs ---------------------------
(***************************************************************************)
(* Proofs about AuditLog for any number of goroutines, Loggers, records    *)
(* and logs found.  Cells are only ever appended, and those of a record    *)
(* by the one Log that was called with it; so a line that has an ending    *)
(* stays what it is, a fragment without one spoils exactly the next        *)
(* record, and what a scanner has passed is settled.                       *)
(***************************************************************************)
EXTENDS AuditLog, SequenceTheorems, FiniteSetTheorems, WellFoundedInduction, TLAPS

\* Inside Log, before and after the size of the record is known.
Logging == {"size", "lock"} \cup Critical
Sized == {"lock"} \cup Critical

\* What a goroutine knows about the file that it is about to open, or has open.
Opening(c) ==
    /\ pc[c] \in {"idle", "size", "lock"} => tries[c] = 0
    /\ pc[c] = "stat" => tries[c] = 0 \/ (tries[c] = 1 /\ file # Absent)
    /\ pc[c] = "open" => /\ tries[c] = 1 \/ (tries[c] = 2 /\ seen[c])
                         /\ seen[c] => file # Absent
    /\ pc[c] = "write" => file # Absent /\ mode = FilePerm
    /\ ret[c] # "unsafe"

\* The record of a Log is new, and nothing of it is in the file before its Write.
Pending(c) ==
    /\ pc[c] \in Logging => entry[c] \in logged \ (acked \cup Mentioned(file))
    /\ pc[c] \in Sized => Fits(Size[entry[c]])
    /\ pc[c] \in {"idle", "query", "scan"} => entry[c] = None

Distinct == \A c, d \in Client : pc[c] \in Logging /\ pc[d] \in Logging /\ entry[c] = entry[d] => c = d

\* The mutex of a Logger is with one of its goroutines.
Held == \A l \in Logger : mu[l] # Nobody => Uses[mu[l]] = l

\* A line of its own and with an ending, whose first cell is i + 1.
SealedAt(f, e, i) ==
    /\ i \in Nat /\ i + Size[e] < Len(f)
    /\ \A k \in 1..Size[e] : f[i + k] = <<e, k>>
    /\ i = 0 \/ f[i] = NL
    /\ f[i + Size[e] + 1] = NL

Sealed(f, e) == f # Absent /\ \E i \in Nat : SealedAt(f, e, i)

\* The acknowledged records that are lost.
Lost(f, A) == {e \in A : ~Sealed(f, e)}

Log ==
    /\ Mentioned(file) \subseteq logged
    /\ \A e \in acked : Fits(Size[e])
    /\ acked # {} => file # Absent
    /\ file # Absent => Unique(file)
    /\ Dangling(file) => torn > 0 /\ file[Len(file)][1] \notin acked

Damage ==
    /\ IsFiniteSet(acked)
    /\ Cardinality(Lost(file, acked)) + (IF Dangling(file) THEN 1 ELSE 0) <= torn

\* Without a fragment, every cell of an acknowledged record is in its line.
Whole ==
    torn = 0 /\ file # Absent =>
        \A i \in 1..Len(file) : file[i] # NL /\ file[i][1] \in acked =>
            \E k \in 1..Size[file[i][1]] : SealedAt(file, file[i][1], i - k)

\* There is something in the file that no Log acknowledged or ever will.
Foul == torn > 0 \/ (file # Absent /\ Mentioned(file) \ acked # {})

\* The first cell of e is p.
Place(e, p) == file # Absent /\ p \in 1..Len(file) /\ file[p] = <<e, 1>>

\* The goroutine reads the log, or has read it.
Reading(c) == pc[c] = "scan" \/ (pc[c] = "done" /\ entry[c] = None)

\* What a Query has passed, it has collected if it is to collect it.
Passed(c) ==
    \A e \in known[c] \cap want[c], i \in Nat :
        file # Absent /\ SealedAt(file, e, i) => e \in Range(got[c]) \/ (pc[c] = "scan" /\ i >= pos[c])

\* What it has collected is in the file, in this order.
Ordered(c) ==
    \A i \in 1..Len(got[c]) :
        /\ got[c][i] \in want[c]
        /\ \E p \in Nat : Place(got[c][i], p) /\ (pc[c] = "scan" => p <= pos[c])
        /\ \A j \in 1..i - 1 : \A p, q \in Nat : Place(got[c][j], q) /\ Place(got[c][i], p) => q < p

Query(c) ==
    /\ known[c] \subseteq acked
    /\ entry[c] # None \/ pc[c] = "idle" => known[c] = {}
    /\ ~Reading(c) => got[c] = <<>>
    /\ pc[c] \notin {"scan", "done"} => pos[c] = 0
    /\ pc[c] = "scan" => file # Absent /\ pos[c] <= Len(file) /\ (pos[c] = 0 \/ file[pos[c]] = NL)
    /\ pc[c] = "scan" \/ (pc[c] = "done" /\ ret[c] = "ok") => Passed(c)
    /\ Ordered(c)
    /\ pc[c] = "done" /\ entry[c] = None /\ ret[c] = "toolarge" => Foul

IInv ==
    /\ TypeOK
    /\ \A c \in Client : Opening(c) /\ Pending(c) /\ Query(c)
    /\ Distinct /\ Held /\ Log /\ Damage /\ Whole

-----------------------------------------------------------------------------
\* The constants.

LEMMA Constants == /\ \A e \in Entry : Size[e] \in Nat /\ Size[e] > 0
                   /\ \A e, k : e \in Entry /\ k \in Nat => <<e, k>> # NL /\ <<e, k>> \in Cell
                   /\ NL \in Cell /\ Absent \notin Seq(Cell) /\ Nobody \notin Client /\ None \notin Entry
                   /\ MaxEntrySize \in Nat /\ \A c \in Client : Uses[c] \in Logger
                   /\ FilePerm \subseteq Bits
BY AuditAssumption DEF Cell, FilePerm, Bits

LEMMA BodyOf == ASSUME NEW e \in Entry
                PROVE  Body(e) \in Seq(Cell) /\ Len(Body(e)) = Size[e] /\ \A k \in 1..Size[e] : Body(e)[k] = <<e, k>>
<1>0. Size[e] \in Nat
  BY Constants
<1>1. \A k \in 1..Size[e] : <<e, k>> \in Cell
  BY <1>0, Constants
<1>2. \A k \in 1..Size[e] : Body(e)[k] = <<e, k>>
  BY DEF Body
<1>3. Body(e) \in [1..Size[e] -> Cell]
  BY <1>1 DEF Body
<1> QED
  BY <1>0, <1>2, <1>3, IsASeq, LenProperties

LEMMA BytesOf == ASSUME NEW e \in Entry
                 PROVE  /\ Bytes(e) \in Seq(Cell) /\ Len(Bytes(e)) = Size[e] + 1
                        /\ \A k \in 1..Size[e] : Bytes(e)[k] = <<e, k>>
                        /\ Bytes(e)[Size[e] + 1] = NL
BY BodyOf, Constants, AppendProperties DEF Bytes

-----------------------------------------------------------------------------
\* What an append does to a log.

\* g is f with the first n cells of what Log writes for e.
Adds(f, g, e, n) ==
    /\ f \in Seq(Cell) /\ g \in Seq(Cell)
    /\ n \in 0..Size[e] + 1 /\ Len(g) = Len(f) + n
    /\ \A i \in 1..Len(g) : g[i] = IF i <= Len(f) THEN f[i]
                                   ELSE IF i - Len(f) <= Size[e] THEN <<e, i - Len(f)>> ELSE NL

LEMMA WriteAdds == ASSUME NEW f \in Seq(Cell), NEW e \in Entry
                   PROVE  Adds(f, f \o Bytes(e), e, Size[e] + 1)
<1> DEFINE s == Bytes(e)
<1>1. /\ s \in Seq(Cell) /\ Len(s) = Size[e] + 1 /\ Size[e] \in Nat /\ Len(f) \in Nat
      /\ \A k \in 1..Len(s) : s[k] = IF k <= Size[e] THEN <<e, k>> ELSE NL
  <2>1. Size[e] \in Nat /\ Len(f) \in Nat /\ s \in Seq(Cell) /\ Len(s) = Size[e] + 1
    BY BytesOf, Constants
  <2>2. \A k \in 1..Size[e] + 1 : IF k <= Size[e] THEN k \in 1..Size[e] ELSE k = Size[e] + 1
    BY <2>1
  <2>3. \A k \in 1..Size[e] + 1 : s[k] = IF k <= Size[e] THEN <<e, k>> ELSE NL
    BY <2>2, BytesOf
  <2> QED
    BY <2>1, <2>3
<1> HIDE DEF s
<1>2. /\ f \o s \in Seq(Cell) /\ Len(f \o s) = Len(f) + Len(s)
      /\ \A i \in 1 .. Len(f) + Len(s) : (f \o s)[i] = IF i <= Len(f) THEN f[i] ELSE s[i - Len(f)]
  BY <1>1, ConcatProperties
<1>3. \A i \in 1 .. Len(f) + Len(s) : i <= Len(f) \/ i - Len(f) \in 1..Len(s)
  BY <1>1
<1> QED
  BY <1>1, <1>2, <1>3 DEF Adds, s

LEMMA TearAdds == ASSUME NEW f \in Seq(Cell), NEW e \in Entry, NEW n \in 0..Size[e]
                  PROVE  Adds(f, f \o SubSeq(Bytes(e), 1, n), e, n)
<1> DEFINE s == SubSeq(Bytes(e), 1, n)
<1>0. Size[e] \in Nat /\ Len(f) \in Nat /\ n \in Nat /\ n <= Size[e]
  BY Constants
<1>1. s \in Seq(Cell) /\ Len(s) = n /\ \A k \in 1..n : s[k] = <<e, k>>
  <2>1. \A i \in 1..n : Bytes(e)[i] = <<e, i>> /\ Bytes(e)[i] \in Cell
    BY <1>0, BytesOf, Constants
  <2>2. /\ SubSeq(Bytes(e), 1, n) \in Seq(Cell) /\ Len(SubSeq(Bytes(e), 1, n)) = IF 1 <= n THEN n - 1 + 1 ELSE 0
        /\ \A i \in 1..n - 1 + 1 : SubSeq(Bytes(e), 1, n)[i] = Bytes(e)[1 + i - 1]
    BY <1>0, <2>1, SubSeqProperties
  <2> QED
    BY <1>0, <2>1, <2>2
<1> HIDE DEF s
<1>2. /\ f \o s \in Seq(Cell) /\ Len(f \o s) = Len(f) + Len(s)
      /\ \A i \in 1 .. Len(f) + Len(s) : (f \o s)[i] = IF i <= Len(f) THEN f[i] ELSE s[i - Len(f)]
  BY <1>1, ConcatProperties
<1>3. \A i \in 1 .. Len(f) + n : i <= Len(f) \/ (i - Len(f) \in 1..n /\ i - Len(f) <= Size[e])
  BY <1>0
<1>4. ASSUME NEW i \in 1..Len(f) + n
      PROVE  (f \o s)[i] = IF i <= Len(f) THEN f[i]
                            ELSE IF i - Len(f) <= Size[e] THEN <<e, i - Len(f)>> ELSE NL
  <2>1. CASE i <= Len(f)
    BY <1>1, <1>2, <2>1
  <2>2. CASE ~(i <= Len(f))
    <3>1. i - Len(f) \in 1..n /\ i - Len(f) <= Size[e]
      BY <1>3, <2>2
    <3>2. (f \o s)[i] = s[i - Len(f)] /\ s[i - Len(f)] = <<e, i - Len(f)>>
      BY <1>1, <1>2, <2>2, <3>1
    <3> QED
      BY <2>2, <3>1, <3>2
  <2> QED
    BY <2>1, <2>2
<1>5. n \in 0..Size[e] + 1 /\ Len(f \o s) = Len(f) + n
  BY <1>0, <1>1, <1>2
<1> QED
  BY <1>2, <1>4, <1>5 DEF Adds, s

\* The old cells and the new ones.
LEMMA AddsCells == ASSUME NEW f, NEW g, NEW e \in Entry, NEW n, Adds(f, g, e, n)
                   PROVE  /\ f # Absent /\ g # Absent /\ Len(f) \in Nat /\ Len(g) \in Nat /\ n \in Nat
                          /\ Len(g) = Len(f) + n
                          /\ \A i \in 1..Len(f) : i \in 1..Len(g) /\ g[i] = f[i]
                          /\ \A k \in 1..n : k <= Size[e] => g[Len(f) + k] = <<e, k>>
                          /\ \A i \in 1..Len(g) : \/ i \in 1..Len(f) /\ g[i] = f[i]
                                                  \/ i > Len(f) /\ (g[i] = NL \/ g[i] = <<e, i - Len(f)>>)
<1>1. /\ f # Absent /\ g # Absent /\ Len(f) \in Nat /\ Len(g) \in Nat /\ n \in Nat
      /\ Len(g) = Len(f) + n
  BY Constants DEF Adds
<1>2. \A i \in 1..Len(f) : i \in 1..Len(g) /\ g[i] = f[i]
  BY <1>1 DEF Adds
<1>3. ASSUME NEW k \in 1..n, k <= Size[e] PROVE g[Len(f) + k] = <<e, k>>
  <2>1. Len(f) + k \in 1..Len(g) /\ ~(Len(f) + k <= Len(f)) /\ (Len(f) + k) - Len(f) = k
    BY <1>1
  <2> QED
    BY <1>3, <2>1 DEF Adds
<1>4. ASSUME NEW i \in 1..Len(g)
      PROVE  \/ i \in 1..Len(f) /\ g[i] = f[i]
             \/ i > Len(f) /\ (g[i] = NL \/ g[i] = <<e, i - Len(f)>>)
  BY <1>1 DEF Adds
<1> QED
  BY <1>1, <1>2, <1>3, <1>4

\* Nothing else comes in with it, and no cell twice.
LEMMA AddsMentions == ASSUME NEW f, NEW g, NEW e \in Entry, NEW n, Adds(f, g, e, n)
                      PROVE  Mentioned(f) \subseteq Mentioned(g) /\ Mentioned(g) \subseteq Mentioned(f) \cup {e}
<1>1. ASSUME NEW x \in Mentioned(f) PROVE x \in Mentioned(g)
  BY AddsCells DEF Mentioned
<1>2. ASSUME NEW x \in Mentioned(g), x # e PROVE x \in Mentioned(f)
  <2>1. PICK i \in 1..Len(g) : g[i] # NL /\ g[i][1] = x
    BY <1>2 DEF Mentioned
  <2>2. i \in 1..Len(f) /\ g[i] = f[i]
    BY <1>2, <2>1, AddsCells
  <2> QED
    BY <2>1, <2>2, <1>2, AddsCells DEF Mentioned
<1> QED
  BY <1>1, <1>2

LEMMA AddsUnique == ASSUME NEW f, NEW g, NEW e \in Entry, NEW n, Adds(f, g, e, n), e \notin Mentioned(f), Unique(f)
                    PROVE  Unique(g)
<1> SUFFICES ASSUME NEW i \in 1..Len(g), NEW j \in 1..Len(g), g[i] = g[j], g[i] # NL PROVE i = j
  BY DEF Unique
<1>1. ASSUME NEW m \in 1..Len(g), g[m] # NL
      PROVE  \/ m \in 1..Len(f) /\ g[m] = f[m] /\ g[m][1] # e
             \/ g[m] = <<e, m - Len(f)>>
  <2>1. CASE m \in 1..Len(f) /\ g[m] = f[m]
    <3>1. f[m] # NL /\ f # Absent
      BY <1>1, <2>1, AddsCells
    <3>2. f[m][1] # e
      BY <2>1, <3>1 DEF Mentioned
    <3> QED
      BY <2>1, <3>2
  <2> QED
    BY <1>1, <2>1, AddsCells
<1>2. CASE i \in 1..Len(f) /\ j \in 1..Len(f)
  BY <1>2, AddsCells DEF Unique
<1>3. CASE g[i] = <<e, i - Len(f)>> /\ g[j] = <<e, j - Len(f)>>
  <2> DEFINE a == i - Len(f)
             b == j - Len(f)
  <2>1. a \in Int /\ b \in Int /\ i = a + Len(f) /\ j = b + Len(f)
    BY AddsCells
  <2>2. g[i] = <<e, a>> /\ g[j] = <<e, b>>
    BY <1>3
  <2> HIDE DEF a, b
  <2>3. <<e, a>>[2] = a /\ <<e, b>>[2] = b
    OBVIOUS
  <2>4. a = b
    BY <2>2, <2>3
  <2> QED
    BY <2>1, <2>4
<1>4. CASE g[i][1] # e \/ g[j][1] # e
  BY <1>1, <1>2, <1>4
<1> QED
  BY <1>1, <1>3, <1>4

\* A line with an ending stays, and no other line gets one than that of e.
LEMMA AddsSealed == ASSUME NEW f, NEW g, NEW e \in Entry, NEW n, Adds(f, g, e, n), NEW x \in Entry, NEW i
                    PROVE  /\ SealedAt(f, x, i) => SealedAt(g, x, i)
                           /\ x # e /\ SealedAt(g, x, i) => SealedAt(f, x, i)
<1>0. Size[x] \in Nat /\ Size[x] > 0
  BY Constants
<1>1. ASSUME SealedAt(f, x, i) PROVE SealedAt(g, x, i)
  <2>1. /\ i \in Nat /\ i + Size[x] < Len(f) /\ Len(f) \in Nat /\ Len(f) <= Len(g)
        /\ (i = 0 \/ f[i] = NL) /\ f[i + Size[x] + 1] = NL
    BY <1>1, AddsCells DEF SealedAt
  <2>2. (\A k \in 1..Size[x] : i + k \in 1..Len(f)) /\ i + Size[x] + 1 \in 1..Len(f) /\ (i # 0 => i \in 1..Len(f))
    BY <1>0, <2>1
  <2>3. \A k \in 1..Size[x] : g[i + k] = <<x, k>>
    <3>1. \A k \in 1..Size[x] : f[i + k] = <<x, k>>
      BY <1>1 DEF SealedAt
    <3>2. \A k \in 1..Len(f) : g[k] = f[k]
      BY AddsCells
    <3> QED
      BY <2>2, <3>1, <3>2
  <2>4. g[i + Size[x] + 1] = NL /\ (i = 0 \/ g[i] = NL)
    BY <2>1, <2>2, AddsCells
  <2>5. i + Size[x] < Len(g)
    BY <1>0, <2>1, AddsCells
  <2> QED
    BY <2>1, <2>3, <2>4, <2>5 DEF SealedAt
<1>2. ASSUME x # e, SealedAt(g, x, i) PROVE SealedAt(f, x, i)
  <2> DEFINE m == i + Size[x]
  <2>1. /\ i \in Nat /\ m \in Nat /\ m > i /\ m < Len(g) /\ (i = 0 \/ g[i] = NL) /\ g[m + 1] = NL
        /\ Len(f) \in Nat /\ Len(g) \in Nat
    BY <1>0, <1>2, AddsCells DEF SealedAt
  <2>2. \A k \in 1..Size[x] : g[i + k] = <<x, k>>
    BY <1>2 DEF SealedAt
  <2>3. Size[x] \in 1..Size[x] /\ m \in 1..Len(g)
    BY <1>0, <2>1
  <2>4. g[m] = <<x, Size[x]>> /\ g[m] # NL
    BY <1>0, <2>2, <2>3, Constants
  <2>5. m \in 1..Len(f)
    <3>1. <<x, Size[x]>>[1] = x /\ <<e, m - Len(f)>>[1] = e
      OBVIOUS
    <3>2. g[m] # <<e, m - Len(f)>>
      BY <1>2, <2>4, <3>1
    <3>3. \A j \in 1..Len(g) : (j \in 1..Len(f) /\ g[j] = f[j]) \/ g[j] = NL \/ g[j] = <<e, j - Len(f)>>
      BY AddsCells
    <3> HIDE DEF m
    <3> QED
      BY <2>3, <2>4, <3>2, <3>3
  <2>6. m # Len(f)
    <3> SUFFICES ASSUME m = Len(f) PROVE FALSE
      OBVIOUS
    <3>1. 1 \in 1..n /\ 1 <= Size[e] /\ <<e, 1>> # NL
      BY <2>1, AddsCells, Constants
    <3>2. g[Len(f) + 1] = <<e, 1>>
      BY <3>1, AddsCells
    <3> QED
      BY <2>1, <3>1, <3>2
  <2>7. m < Len(f) /\ m + 1 \in 1..Len(f) /\ (i # 0 => i \in 1..Len(f)) /\ \A k \in 1..Size[x] : i + k \in 1..Len(f)
    BY <1>0, <2>1, <2>5, <2>6
  <2>8. \A k \in 1..Size[x] : f[i + k] = <<x, k>>
    BY <2>2, <2>7, AddsCells
  <2>9. f[m + 1] = NL /\ (i = 0 \/ f[i] = NL)
    BY <2>1, <2>7, AddsCells
  <2> QED
    BY <2>1, <2>7, <2>8, <2>9 DEF SealedAt
<1> QED
  BY <1>1, <1>2

\* A whole record after a log without a fragment has its own line.
LEMMA AddsWhole == ASSUME NEW f, NEW g, NEW e \in Entry, Adds(f, g, e, Size[e] + 1)
                   PROVE  ~Dangling(g) /\ (~Dangling(f) => SealedAt(g, e, Len(f)))
<1>1. /\ Len(f) \in Nat /\ Len(g) = Len(f) + (Size[e] + 1) /\ Size[e] \in Nat /\ Size[e] > 0
      /\ f # Absent /\ g # Absent
  BY Constants, AddsCells
<1>2. Len(g) \in 1..Len(g) /\ ~(Len(g) <= Len(f)) /\ ~(Len(g) - Len(f) <= Size[e]) /\ Len(g) = Len(f) + Size[e] + 1
  BY <1>1
<1>3. g[Len(g)] = NL
  BY <1>2 DEF Adds
<1>4. ~Dangling(g)
  BY <1>3 DEF Dangling
<1>5. \A k \in 1..Size[e] : g[Len(f) + k] = <<e, k>>
  BY <1>1, AddsCells
<1>6. ASSUME ~Dangling(f) PROVE Len(f) = 0 \/ g[Len(f)] = NL
  <2>1. f = <<>> \/ f[Len(f)] = NL
    BY <1>1, <1>6 DEF Dangling
  <2>2. Len(f) # 0 => g[Len(f)] = f[Len(f)]
    BY <1>1, AddsCells
  <2> QED
    BY <1>1, <2>1, <2>2
<1>7. Len(f) + Size[e] < Len(g) /\ g[Len(f) + Size[e] + 1] = NL
  BY <1>1, <1>2, <1>3
<1> QED
  BY <1>1, <1>4, <1>5, <1>6, <1>7 DEF SealedAt

\* A part of one leaves a fragment of it.
LEMMA AddsPart == ASSUME NEW f, NEW g, NEW e \in Entry, NEW n \in 1..Size[e], Adds(f, g, e, n)
                  PROVE  Dangling(g) /\ g[Len(g)] = <<e, n>>
<1>1. n \in 1..n /\ n <= Size[e] /\ Len(g) = Len(f) + n /\ Len(g) # 0 /\ g # Absent /\ <<e, n>> # NL
  BY AddsCells, Constants
<1>2. g[Len(g)] = <<e, n>>
  BY <1>1, AddsCells
<1> QED
  BY <1>1, <1>2 DEF Dangling

\* The places of the other records stay.
LEMMA AddsPlaces == ASSUME NEW f, NEW g, NEW e \in Entry, NEW n, Adds(f, g, e, n),
                           NEW x \in Entry, NEW p \in Nat
                    PROVE  /\ p \in 1..Len(f) /\ f[p] = <<x, 1>> => p \in 1..Len(g) /\ g[p] = <<x, 1>>
                           /\ x # e /\ p \in 1..Len(g) /\ g[p] = <<x, 1>> => p \in 1..Len(f) /\ f[p] = <<x, 1>>
<1>1. ASSUME x # e, p \in 1..Len(g), g[p] = <<x, 1>> PROVE p \in 1..Len(f) /\ f[p] = <<x, 1>>
  <2>1. <<x, 1>>[1] = x /\ <<e, p - Len(f)>>[1] = e
    OBVIOUS
  <2>2. g[p] # NL /\ g[p] # <<e, p - Len(f)>>
    BY <1>1, <2>1, Constants
  <2>3. \A j \in 1..Len(g) : (j \in 1..Len(f) /\ g[j] = f[j]) \/ g[j] = NL \/ g[j] = <<e, j - Len(f)>>
    BY AddsCells
  <2> QED
    BY <1>1, <2>2, <2>3
<1>2. p \in 1..Len(f) => p \in 1..Len(g) /\ g[p] = f[p]
  BY AddsCells
<1> QED
  BY <1>1, <1>2

-----------------------------------------------------------------------------
\* How a log falls into lines.

\* A nonempty set of numbers has a least one.
LEMMA Least == ASSUME NEW S \in SUBSET Nat, S # {} PROVE \E n \in S : \A m \in S : n <= m
<1>1. PICK n \in S : \A m \in S : ~(<<m, n>> \in OpToRel(<, Nat))
  BY NatLessThanWellFounded, WFMin
<1>2. ASSUME NEW m \in S, m < n PROVE FALSE
  <2>1. <<m, n>> \in Nat \X Nat /\ <<m, n>>[1] < <<m, n>>[2]
    BY <1>2
  <2>2. <<m, n>> \in OpToRel(<, Nat)
    BY <2>1 DEF OpToRel
  <2> QED
    BY <1>1, <2>2
<1> QED
  BY <1>2

LEMMA LineEndIs == ASSUME NEW p \in Nat, file \in Seq(Cell), p <= Len(file)
                   PROVE  /\ LineEnd(p) \in p + 1..Len(file) + 1
                          /\ LineEnd(p) <= Len(file) => file[LineEnd(p)] = NL
                          /\ \A n \in p + 1..Len(file) : file[n] = NL => LineEnd(p) <= n
<1> DEFINE E == {n \in p + 1..Len(file) : file[n] = NL}
<1>0. Len(file) \in Nat
  OBVIOUS
<1>1. CASE E = {}
  BY <1>0, <1>1 DEF LineEnd
<1>2. CASE E # {}
  <2>1. E \in SUBSET Nat
    BY <1>0
  <2>2. \E n \in E : \A m \in E : n <= m
    BY <1>2, <2>1, Least
  <2>3. LineEnd(p) = CHOOSE n \in E : \A m \in E : n <= m
    BY <1>2 DEF LineEnd
  <2> QED
    BY <1>0, <2>2, <2>3
<1> QED
  BY <1>1, <1>2

\* A line is one record or none.
LEMMA DecodesOne == ASSUME NEW line, NEW e \in Entry, NEW x \in Entry, Decodes(line, e), Decodes(line, x)
                    PROVE  x = e
<1>1. 1 \in 1..Size[e] /\ 1 \in 1..Size[x]
  BY Constants
<1>2. Body(e)[1] = <<e, 1>> /\ Body(x)[1] = <<x, 1>>
  BY <1>1 DEF Body
<1>3. <<e, 1>>[1] = e /\ <<x, 1>>[1] = x
  OBVIOUS
<1> QED
  BY <1>2, <1>3 DEF Decodes

LEMMA CollectedIs == ASSUME NEW c \in Client, NEW line
                     PROVE  /\ Collected(c, line) \in Seq(Entry)
                            /\ \/ /\ Collected(c, line) = <<>>
                                  /\ \A e \in Entry : ~(Decodes(line, e) /\ Selected(c, e))
                               \/ \E e \in Entry : Decodes(line, e) /\ Selected(c, e) /\ Collected(c, line) = <<e>>
<1> DEFINE S == {e \in Entry : Decodes(line, e) /\ Selected(c, e)}
<1>1. CASE S = {}
  <2>1. Cardinality(S) = 0
    BY <1>1, FS_EmptySet
  <2>2. <<>> \in [1..0 -> S] /\ IsInjective(<<>>) /\ \A f \in [1..0 -> S] : f = <<>>
    BY DEF IsInjective
  <2>3. SetToSeq(S) = <<>>
    BY <2>1, <2>2 DEF SetToSeq
  <2> QED
    BY <1>1, <2>3 DEF Collected
<1>2. ASSUME NEW e \in S PROVE Collected(c, line) = <<e>>
  <2>1. S = {e}
    BY <1>2, DecodesOne
  <2>2. Cardinality(S) = 1
    BY <2>1, FS_Singleton
  <2>3. <<e>> \in [1..1 -> S] /\ IsInjective(<<e>>) /\ \A f \in [1..1 -> S] : f = <<e>>
    BY <2>1 DEF IsInjective
  <2>4. SetToSeq(S) = <<e>>
    BY <2>2, <2>3 DEF SetToSeq
  <2> QED
    BY <2>4 DEF Collected
<1>3. CASE S # {}
  <2>1. PICK e \in S : TRUE
    BY <1>3
  <2>2. Collected(c, line) = <<e>> /\ e \in Entry
    BY <1>2
  <2>3. Collected(c, line) \in Seq(Entry)
    BY <2>2
  <2> QED
    BY <2>1, <2>2, <2>3
<1> QED
  BY <1>1, <1>3

-----------------------------------------------------------------------------
\* The types.

LEMMA TypeStep == ASSUME TypeOK, \A c \in Client : Opening(c) /\ Pending(c) /\ Query(c), [Next]_vars PROVE TypeOK'
<1> USE Constants DEF disk, opening, reading, history
<1>1. ASSUME NEW c \in Client, NEW r \in Result, Answer(c, r)
      PROVE  pc' \in [Client -> PC] /\ ret' \in [Client -> Result]
  BY <1>1 DEF TypeOK, Answer, Goto, PC
<1>2. ASSUME NEW c \in Client, NEW r \in Result, Finish(c, r)
      PROVE  /\ pc' \in [Client -> PC] /\ ret' \in [Client -> Result]
             /\ mu' \in [Logger -> Client \cup {Nobody}]
             /\ seen' \in [Client -> BOOLEAN] /\ tries' \in [Client -> 0..2]
  BY <1>1, <1>2 DEF TypeOK, Finish, Unlock
<1>3. ASSUME NEW e \in Entry, file \in Seq(Cell), Tear(e)
      PROVE  file' \in Seq(Cell) /\ torn' \in Nat
  BY <1>3, TearAdds DEF TypeOK, Tear, Appended, Adds
<1>4. ASSUME NEW C \in SUBSET Client, Forget(C)
      PROVE  /\ pc' \in [Client -> PC] /\ entry' \in [Client -> Entry \cup {None}]
             /\ want' \in [Client -> SUBSET Entry] /\ seen' \in [Client -> BOOLEAN]
             /\ tries' \in [Client -> 0..2] /\ pos' \in [Client -> Nat]
             /\ got' \in [Client -> Seq(Entry)] /\ ret' \in [Client -> Result]
             /\ known' \in [Client -> SUBSET Entry]
  <2>1. <<>> \in Seq(Entry)
    OBVIOUS
  <2> QED
    BY <1>4, <2>1 DEF TypeOK, Forget, PC, Result
<1>5. ASSUME NEW c \in Client, pc[c] = "write"
      PROVE  entry[c] \in Entry /\ entry[c] \in logged /\ file \in Seq(Cell)
  BY <1>5 DEF TypeOK, Opening, Pending, Logging, Critical
<1>6. ASSUME NEW c \in Client, BeginLog(c) PROVE TypeOK'
  BY <1>6 DEF TypeOK, BeginLog, Goto, PC
<1>7. ASSUME NEW c \in Client, CheckSize(c) PROVE TypeOK'
  BY <1>1, <1>7 DEF TypeOK, CheckSize, Goto, PC, Result
<1>8. ASSUME NEW c \in Client, Lock(c) PROVE TypeOK'
  BY <1>8 DEF TypeOK, Lock, Goto, PC
<1>9. ASSUME NEW c \in Client, Stat(c) PROVE TypeOK'
  <2>1. tries[c] \in {0, 1}
    BY <1>9 DEF Stat, Opening
  <2> QED
    BY <1>9, <2>1 DEF TypeOK, Stat, Goto, PC
<1>10. ASSUME NEW c \in Client, Open(c) PROVE TypeOK'
  <2>1. Secured(mode) \in SUBSET Bits /\ Secured(FilePerm \ Umask) \in SUBSET Bits
    BY DEF Secured, securePermissions
  <2>2. CASE seen[c]
    BY <1>10, <2>1, <2>2 DEF TypeOK, Open, Goto, PC
  <2>3. CASE ~seen[c] /\ file = Absent
    <3>1. <<>> \in Seq(Cell)
      OBVIOUS
    <3> QED
      BY <1>10, <2>1, <2>3, <3>1 DEF TypeOK, Open, Goto, PC
  <2>4. CASE ~seen[c] /\ file # Absent
    BY <1>2, <1>10, <2>4 DEF TypeOK, Open, Goto, PC, Result
  <2> QED
    BY <2>2, <2>3, <2>4
<1>11. ASSUME NEW c \in Client, OpenFails(c) PROVE TypeOK'
  BY <1>2, <1>11 DEF TypeOK, OpenFails, Result
<1>12. ASSUME NEW c \in Client, Write(c) PROVE TypeOK'
  <2>1. file' \in Seq(Cell)
    BY <1>5, <1>12, WriteAdds DEF Write, Appended, Adds
  <2>2. acked' \in SUBSET logged
    BY <1>5, <1>12 DEF TypeOK, Write
  <2> QED
    BY <1>2, <1>12, <2>1, <2>2 DEF TypeOK, Write, Result
<1>13. ASSUME NEW c \in Client, WriteFails(c) PROVE TypeOK'
  <2>1. file' \in Seq(Cell) /\ torn' \in Nat
    BY <1>3, <1>5, <1>13 DEF WriteFails
  <2> QED
    BY <1>2, <1>13, <2>1 DEF TypeOK, WriteFails, ShortResult, Result
<1>14. ASSUME NEW c \in Client, BeginQuery(c) PROVE TypeOK'
  BY <1>14, AuditAssumption DEF TypeOK, BeginQuery, Goto, PC
<1>15. ASSUME NEW c \in Client, OpenQuery(c) \/ ScanEnd(c) \/ QueryFails(c) PROVE TypeOK'
  BY <1>1, <1>15 DEF TypeOK, OpenQuery, ScanEnd, QueryFails, Answer, Goto, PC, Result
<1>16. ASSUME NEW c \in Client, Scan(c) PROVE TypeOK'
  <2> DEFINE end == LineEnd(pos[c])
             line == SubSeq(file, pos[c] + 1, end - 1)
  <2>1. file \in Seq(Cell)
    BY <1>16 DEF TypeOK, Scan, Query
  <2>2. end \in Nat
    BY <1>16, <2>1, LineEndIs DEF TypeOK, Scan, AtEnd, Query
  <2>3. Collected(c, line) \in Seq(Entry)
    BY CollectedIs
  <2>4. got[c] \o Collected(c, line) \in Seq(Entry)
    BY <2>3 DEF TypeOK
  <2> HIDE DEF end, line
  <2>5. CASE Len(line) > MaxEntrySize
    <3>1. Answer(c, "toolarge") /\ UNCHANGED <<pos, got>>
      BY <1>16, <2>5 DEF Scan, end, line
    <3> QED
      BY <1>1, <1>16, <3>1 DEF TypeOK, Scan, Result
  <2>6. CASE ~(Len(line) > MaxEntrySize)
    <3>1. /\ pos' = [pos EXCEPT ![c] = end] /\ got' = [got EXCEPT ![c] = @ \o Collected(c, line)]
          /\ AfterLine(c, line, end)
      BY <1>16, <2>6 DEF Scan, end, line
    <3>2. pos' \in [Client -> Nat] /\ got' \in [Client -> Seq(Entry)]
      BY <2>2, <2>4, <3>1 DEF TypeOK
    <3>3. pc' \in [Client -> PC] /\ ret' \in [Client -> Result]
      BY <1>1, <3>1 DEF TypeOK, AfterLine, Goto, PC, Result
    <3> QED
      BY <1>16, <3>2, <3>3 DEF TypeOK, Scan
  <2> QED
    BY <2>5, <2>6
<1>17. ASSUME NEW c \in Client, Return(c) PROVE TypeOK'
  BY <1>4, <1>17 DEF TypeOK, Return
<1>18. ASSUME NEW l \in Logger, Crash(l) PROVE TypeOK'
  <2>1. mu' \in [Logger -> Client \cup {Nobody}]
    BY <1>18 DEF TypeOK, Crash
  <2>2. file' \in Seq(Cell) \cup {Absent} /\ torn' \in Nat
    <3>1. CASE mu[l] # Nobody /\ pc[mu[l]] = "write"
      <4>1. mu[l] \in Client
        BY <3>1 DEF TypeOK
      <4> QED
        BY <1>3, <1>5, <1>18, <3>1, <4>1 DEF Crash
    <3> QED
      BY <1>18, <3>1 DEF TypeOK, Crash
  <2> QED
    BY <1>4, <1>18, <2>1, <2>2 DEF TypeOK, Crash
<1>19. CASE UNCHANGED vars
  BY <1>19 DEF TypeOK, vars
<1> QED
  BY <1>6, <1>7, <1>8, <1>9, <1>10, <1>11, <1>12, <1>13, <1>14, <1>15, <1>16, <1>17, <1>18, <1>19 DEF Next, Step

-----------------------------------------------------------------------------
\* What a step does to the log.

\* Nothing; it creates it; it appends n cells of a new record e, all of them if the
\* record is then acknowledged.
Still == UNCHANGED <<file, acked, torn>>

Created == file = Absent /\ file' = <<>> /\ UNCHANGED <<acked, torn>>

Appends(e, n) ==
    /\ Adds(file, file', e, n) /\ e \in logged \ (acked \cup Mentioned(file)) /\ Fits(Size[e])
    /\ \/ n = Size[e] + 1 /\ acked' = acked \cup {e} /\ torn' = torn
       \/ n = 0 /\ UNCHANGED <<acked, torn>>
       \/ n \in 1..Size[e] /\ acked' = acked /\ torn' = torn + 1

\* The Log that appends is over with it.
FileStep ==
    \/ Still \/ Created
    \/ \E c \in Client, n \in Nat : /\ pc[c] = "write" /\ pc'[c] \notin Logging
                                  /\ entry[c] \in Entry /\ Appends(entry[c], n)

LEMMA TearAppends == ASSUME TypeOK, NEW c \in Client, Opening(c), Pending(c), pc[c] = "write",
                            Tear(entry[c]), acked' = acked
                     PROVE  entry[c] \in Entry /\ \E n \in Nat : Appends(entry[c], n)
<1>1. entry[c] \in Entry /\ file \in Seq(Cell)
  BY DEF TypeOK, Opening, Pending, Logging, Critical
<1>2. PICK n \in 0..Size[entry[c]] :
          /\ file' = file \o SubSeq(Bytes(entry[c]), 1, n)
          /\ torn' = torn + IF n = 0 THEN 0 ELSE 1
  BY DEF Tear, Appended
<1>3. Adds(file, file', entry[c], n)
  BY <1>1, <1>2, TearAdds
<1>4. Size[entry[c]] \in Nat /\ torn \in Nat
  BY <1>1, Constants DEF TypeOK
<1>5. Appends(entry[c], n)
  BY <1>2, <1>3, <1>4 DEF Appends, Pending, Logging, Sized, Critical
<1> QED
  BY <1>1, <1>4, <1>5

LEMMA FileSteps == ASSUME TypeOK, Held, \A c \in Client : Opening(c) /\ Pending(c), [Next]_vars PROVE FileStep
<1> USE DEF disk, opening, reading, history
<1>1. ASSUME NEW c \in Client, BeginLog(c) \/ BeginQuery(c) \/ CheckSize(c) \/ Lock(c) \/ Stat(c) \/ OpenFails(c)
                               \/ OpenQuery(c) \/ Scan(c) \/ ScanEnd(c) \/ QueryFails(c) \/ Return(c)
      PROVE  Still
  BY <1>1 DEF Still, BeginLog, BeginQuery, CheckSize, Lock, Stat, OpenFails, OpenQuery, Scan, ScanEnd, QueryFails, Return
<1>2. ASSUME NEW c \in Client, Open(c) PROVE Still \/ Created
  BY <1>2 DEF Still, Created, Open
<1>3. ASSUME NEW c \in Client, Write(c) PROVE FileStep
  <2>1. entry[c] \in Entry /\ file \in Seq(Cell)
    BY <1>3 DEF TypeOK, Opening, Pending, Logging, Critical, Write
  <2>2. Size[entry[c]] + 1 \in Nat
    BY <2>1, Constants
  <2>3. Appends(entry[c], Size[entry[c]] + 1)
    BY <1>3, <2>1, WriteAdds DEF Write, Appended, Appends, Pending, Logging, Sized, Critical
  <2>4. pc[c] = "write" /\ pc'[c] = "done"
    BY <1>3 DEF Write, Finish, Answer, Goto, TypeOK
  <2> QED
    BY <2>1, <2>2, <2>3, <2>4 DEF FileStep, Logging, Critical
<1>4. ASSUME NEW c \in Client, WriteFails(c) PROVE FileStep
  <2>1. pc[c] = "write" /\ pc'[c] = "done" /\ Tear(entry[c]) /\ acked' = acked
    BY <1>4 DEF WriteFails, ShortResult, Finish, Answer, Goto, TypeOK
  <2> QED
    BY <2>1, TearAppends DEF FileStep, Logging, Critical
<1>5. ASSUME NEW l \in Logger, Crash(l) PROVE FileStep
  <2>1. CASE mu[l] # Nobody /\ pc[mu[l]] = "write"
    <3>1. PICK c \in Client : c = mu[l]
      BY <2>1 DEF TypeOK
    <3>2. pc'[c] = "idle" /\ Tear(entry[c]) /\ acked' = acked /\ pc[c] = "write"
      BY <1>5, <2>1, <3>1 DEF Crash, Held, Forget
    <3> QED
      BY <3>2, TearAppends DEF FileStep, Logging, Critical
  <2>2. CASE ~(mu[l] # Nobody /\ pc[mu[l]] = "write")
    BY <1>5, <2>2 DEF Crash, FileStep, Still
  <2> QED
    BY <2>1, <2>2
<1>6. CASE UNCHANGED vars
  BY <1>6 DEF vars, FileStep, Still
<1> QED
  BY <1>1, <1>2, <1>3, <1>4, <1>5, <1>6 DEF Next, Step, FileStep

LEMMA LoggedGrows == ASSUME [Next]_vars PROVE logged \subseteq logged'
<1> USE DEF disk, opening, reading, history
<1>1. ASSUME NEW c \in Client, BeginLog(c) PROVE logged \subseteq logged'
  BY <1>1 DEF BeginLog
<1>2. ASSUME NEW c \in Client, BeginQuery(c) \/ Step(c) PROVE logged' = logged
  BY <1>2 DEF BeginQuery, Step, CheckSize, Lock, Stat, OpenFails, Open, Write, WriteFails, ShortResult,
              OpenQuery, Scan, ScanEnd, QueryFails, Return
<1>3. ASSUME NEW l \in Logger, Crash(l) PROVE logged' = logged
  BY <1>3 DEF Crash
<1> QED
  BY <1>1, <1>2, <1>3 DEF Next, vars

\* The log itself.
LEMMA LogStep == ASSUME TypeOK, Log, FileStep, logged \subseteq logged' PROVE Log'
<1>1. CASE Still
  BY <1>1 DEF Still, Log, Mentioned, Unique, Dangling
<1>2. CASE Created
  BY <1>2, Constants DEF Created, Log, Mentioned, Unique, Dangling
<1>3. ASSUME NEW e \in Entry, NEW n \in Nat, Appends(e, n) PROVE Log'
  <2>1. Adds(file, file', e, n) /\ e \in logged \ (acked \cup Mentioned(file)) /\ file # Absent /\ file' # Absent
    BY <1>3, AddsCells DEF Appends
  <2>2. Mentioned(file') \subseteq logged'
    BY <2>1, AddsMentions DEF Log
  <2>3. \A x \in acked' : Fits(Size[x])
    BY <1>3 DEF Appends, Log
  <2>4. Unique(file')
    BY <2>1, AddsUnique DEF Log
  <2>5. Dangling(file') => torn' > 0 /\ file'[Len(file')][1] \notin acked'
    <3>1. CASE n = Size[e] + 1
      BY <2>1, <3>1, AddsWhole
    <3>2. CASE n = 0 /\ UNCHANGED <<acked, torn>>
      <4>1. file' = file
        BY <2>1, <3>2, SeqEqual DEF Adds
      <4> QED
        BY <3>2, <4>1 DEF Log, Dangling
    <3>3. CASE n \in 1..Size[e] /\ acked' = acked /\ torn' = torn + 1
      <4>1. file'[Len(file')] = <<e, n>> /\ <<e, n>>[1] = e
        BY <2>1, <3>3, AddsPart
      <4> QED
        BY <2>1, <3>3, <4>1 DEF TypeOK
    <3> QED
      BY <1>3, <3>1, <3>2, <3>3 DEF Appends
  <2> QED
    BY <2>1, <2>2, <2>3, <2>4, <2>5 DEF Log
<1> QED
  BY <1>1, <1>2, <1>3 DEF FileStep

\* Nothing was appended.
LEMMA AddsNothing == ASSUME NEW f, NEW g, NEW e, Adds(f, g, e, 0) PROVE g = f
BY SeqEqual DEF Adds

\* Sealed records stay sealed.
LEMMA SealedStays == ASSUME TypeOK, Log, FileStep, NEW x \in acked, Sealed(file, x) PROVE Sealed(file', x)
<1>1. CASE Still
  BY <1>1 DEF Still
<1>2. CASE Created
  BY <1>2 DEF Created, Sealed
<1>3. ASSUME NEW e \in Entry, NEW n \in Nat, Appends(e, n) PROVE Sealed(file', x)
  <2>1. x \in Entry /\ Adds(file, file', e, n)
    BY <1>3, Constants DEF Appends, TypeOK, Log, Fits
  <2>2. PICK i \in Nat : SealedAt(file, x, i)
    BY DEF Sealed
  <2>3. SealedAt(file', x, i)
    BY <2>1, <2>2, AddsSealed
  <2> QED
    BY <2>1, <2>3, AddsCells DEF Sealed
<1> QED
  BY <1>1, <1>2, <1>3 DEF FileStep

LEMMA OneMore == ASSUME NEW S, IsFiniteSet(S), NEW x
                 PROVE  /\ IsFiniteSet(S \cup {x}) /\ Cardinality(S \cup {x}) \in Nat
                        /\ Cardinality(S \cup {x}) <= Cardinality(S) + 1
<1>1. Cardinality(S) \in Nat /\ IsFiniteSet(S \cup {x})
  BY FS_AddElement, FS_CardinalityType
<1>2. Cardinality(S \cup {x}) = IF x \in S THEN Cardinality(S) ELSE Cardinality(S) + 1
  BY FS_AddElement
<1> QED
  BY <1>1, <1>2

LEMMA DamageStep == ASSUME TypeOK, Log, Damage, FileStep PROVE Damage'
<1>0. torn \in Nat /\ IsFiniteSet(acked)
  BY DEF TypeOK, Damage
<1>1. Lost(file, acked) \in SUBSET acked
  BY DEF Lost
<1>2. IsFiniteSet(Lost(file, acked)) /\ Cardinality(Lost(file, acked)) \in Nat
  BY <1>0, <1>1, FS_Subset, FS_CardinalityType
<1>3. Lost(file', acked) \subseteq Lost(file, acked)
  BY SealedStays DEF Lost
<1>4. IsFiniteSet(Lost(file', acked)) /\ Cardinality(Lost(file', acked)) \in Nat
      /\ Cardinality(Lost(file', acked)) <= Cardinality(Lost(file, acked))
  BY <1>2, <1>3, FS_Subset, FS_CardinalityType
<1>5. CASE Still
  BY <1>5 DEF Still, Damage, Lost, Sealed, Dangling
<1>6. CASE Created
  <2>1. ~Dangling(file') /\ acked' = acked /\ torn' = torn
    BY <1>6 DEF Created, Dangling
  <2> QED
    BY <1>0, <1>2, <1>4, <2>1 DEF Damage
<1>7. ASSUME NEW e \in Entry, NEW n \in Nat, Appends(e, n) PROVE Damage'
  <2>1. Adds(file, file', e, n) /\ file # Absent /\ file' # Absent
    BY <1>7, AddsCells DEF Appends
  <2>2. CASE n = Size[e] + 1 /\ acked' = acked \cup {e} /\ torn' = torn
    <3>1. ~Dangling(file') /\ IsFiniteSet(acked')
      BY <1>0, <2>1, <2>2, AddsWhole, FS_AddElement
    <3>2. CASE Dangling(file)
      <4>1. Lost(file', acked') \subseteq Lost(file', acked) \cup {e}
        BY <2>2 DEF Lost
      <4>2. IsFiniteSet(Lost(file', acked) \cup {e})
            /\ Cardinality(Lost(file', acked) \cup {e}) <= Cardinality(Lost(file', acked)) + 1
            /\ Cardinality(Lost(file', acked) \cup {e}) \in Nat
        BY <1>4, OneMore
      <4>3. Cardinality(Lost(file', acked')) <= Cardinality(Lost(file', acked)) + 1
            /\ Cardinality(Lost(file', acked')) \in Nat
        BY <1>4, <4>1, <4>2, FS_Subset, FS_CardinalityType
      <4> QED
        BY <1>0, <1>2, <1>4, <2>2, <3>1, <3>2, <4>3 DEF Damage
    <3>3. CASE ~Dangling(file)
      <4>1. SealedAt(file', e, Len(file)) /\ Len(file) \in Nat
        BY <2>1, <2>2, <3>3, AddsWhole, AddsCells
      <4>2. Lost(file', acked') = Lost(file', acked)
        BY <2>1, <2>2, <4>1 DEF Lost, Sealed
      <4> QED
        BY <1>0, <1>2, <1>4, <2>2, <3>1, <3>3, <4>2 DEF Damage
    <3> QED
      BY <3>2, <3>3
  <2>3. CASE n = 0 /\ UNCHANGED <<acked, torn>>
    <3>1. file' = file
      BY <2>1, <2>3, AddsNothing
    <3> QED
      BY <2>3, <3>1 DEF Damage, Lost, Sealed, Dangling
  <2>4. CASE n \in 1..Size[e] /\ acked' = acked /\ torn' = torn + 1
    BY <1>0, <1>2, <1>4, <2>4 DEF Damage
  <2> QED
    BY <1>7, <2>2, <2>3, <2>4 DEF Appends
<1> QED
  BY <1>5, <1>6, <1>7 DEF FileStep

LEMMA WholeStep == ASSUME TypeOK, Log, Whole, FileStep PROVE Whole'
<1>1. CASE Still
  BY <1>1 DEF Still, Whole, SealedAt
<1>2. CASE Created
  BY <1>2 DEF Created, Whole
<1>3. ASSUME NEW e \in Entry, NEW n \in Nat, Appends(e, n) PROVE Whole'
  <2>1. Adds(file, file', e, n) /\ file # Absent /\ file' # Absent /\ e \notin Mentioned(file)
    BY <1>3, AddsCells DEF Appends
  <2>2. CASE n = 0 /\ UNCHANGED <<acked, torn>>
    <3>1. file' = file
      BY <2>1, <2>2, AddsNothing
    <3> QED
      BY <2>2, <3>1 DEF Whole, SealedAt
  <2>3. CASE n \in 1..Size[e] /\ acked' = acked /\ torn' = torn + 1
    BY <2>3 DEF TypeOK, Whole
  <2>4. CASE n = Size[e] + 1 /\ acked' = acked \cup {e} /\ torn' = torn
    <3> SUFFICES ASSUME torn = 0, NEW i \in 1..Len(file'), file'[i] # NL, file'[i][1] \in acked'
                 PROVE  \E k \in 1..Size[file'[i][1]] : SealedAt(file', file'[i][1], i - k)
      BY <2>4 DEF Whole
    <3>1. CASE i \in 1..Len(file) /\ file'[i] = file[i]
      <4>1. file[i][1] # e
        BY <2>1, <3>1 DEF Mentioned
      <4>2. file[i][1] \in acked /\ file[i][1] \in Entry
        BY <2>4, <3>1, <4>1 DEF TypeOK
      <4>3. PICK k \in 1..Size[file[i][1]] : SealedAt(file, file[i][1], i - k)
        BY <2>1, <3>1, <4>2 DEF Whole
      <4>4. SealedAt(file', file[i][1], i - k)
        BY <2>1, <4>2, <4>3, AddsSealed
      <4> QED
        BY <3>1, <4>4
    <3>2. CASE ~(i \in 1..Len(file) /\ file'[i] = file[i])
      <4> DEFINE k == i - Len(file)
      <4>1. k \in 1..Size[e] /\ file'[i] = <<e, k>> /\ Len(file) = i - k
        <5>1. /\ Len(file) \in Nat /\ Len(file') = Len(file) + (Size[e] + 1) /\ Size[e] \in Nat
              /\ \A j \in 1..Len(file) : file'[j] = file[j]
          BY <2>1, <2>4, Constants, AddsCells
        <5>2. i > Len(file) /\ i <= Len(file) + Size[e] + 1 /\ i \in Nat
          BY <3>2, <5>1
        <5>3. file'[i] = IF k <= Size[e] THEN <<e, k>> ELSE NL
          BY <2>1, <5>1, <5>2 DEF Adds
        <5> QED
          BY <5>1, <5>2, <5>3
      <4>2. file'[i][1] = e
        BY <4>1
      <4>3. SealedAt(file', e, Len(file))
        BY <2>1, <2>4, AddsWhole DEF Log
      <4> HIDE DEF k
      <4> QED
        BY <4>1, <4>2, <4>3
    <3> QED
      BY <3>1, <3>2
  <2> QED
    BY <1>3, <2>2, <2>3, <2>4 DEF Appends
<1> QED
  BY <1>1, <1>2, <1>3 DEF FileStep

-----------------------------------------------------------------------------
\* What a step leaves alone of the goroutines.

Same(d) ==
    /\ pc'[d] = pc[d] /\ entry'[d] = entry[d] /\ want'[d] = want[d] /\ seen'[d] = seen[d]
    /\ tries'[d] = tries[d] /\ pos'[d] = pos[d] /\ got'[d] = got[d] /\ ret'[d] = ret[d]
    /\ known'[d] = known[d]

Acts(c) == BeginLog(c) \/ BeginQuery(c) \/ Step(c)

\* A goroutine whose process dies, or that returns, starts anew.
Anew(d) ==
    /\ pc'[d] = "idle" /\ entry'[d] = None /\ seen'[d] = FALSE /\ tries'[d] = 0 /\ pos'[d] = 0
    /\ got'[d] = <<>> /\ ret'[d] = "none" /\ known'[d] = {}

LEMMA Forgets == ASSUME TypeOK, NEW C \in SUBSET Client, Forget(C), NEW d \in Client
                 PROVE  IF d \in C THEN Anew(d) ELSE Same(d)
BY DEF TypeOK, Forget, Anew, Same

LEMMA Others == ASSUME TypeOK, NEW c \in Client, Acts(c), NEW d \in Client, d # c PROVE Same(d)
<1> USE DEF TypeOK, Same, opening, reading, history, Goto, Answer, Finish
<1>1. CASE BeginLog(c) \/ BeginQuery(c) \/ CheckSize(c) \/ Lock(c) \/ Stat(c)
  BY <1>1 DEF BeginLog, BeginQuery, CheckSize, Lock, Stat
<1>2. CASE Open(c) \/ OpenFails(c) \/ Write(c) \/ WriteFails(c)
  BY <1>2 DEF Open, OpenFails, Write, WriteFails, ShortResult
<1>3. CASE OpenQuery(c) \/ ScanEnd(c) \/ QueryFails(c)
  BY <1>3 DEF OpenQuery, ScanEnd, QueryFails
<1>5. CASE Return(c)
  <2>1. {c} \in SUBSET Client /\ Forget({c}) /\ d \notin {c}
    BY <1>5 DEF Return
  <2>2. IF d \in {c} THEN Anew(d) ELSE Same(d)
    BY <2>1, Forgets
  <2> QED
    BY <2>1, <2>2
<1>4. CASE Scan(c)
  <2>1. /\ \/ Answer(c, "toolarge") /\ UNCHANGED <<pos, got>>
           \/ /\ \E end : pos' = [pos EXCEPT ![c] = end]
              /\ \E s : got' = [got EXCEPT ![c] = @ \o s]
              /\ (Goto(c, "scan") /\ UNCHANGED ret) \/ Answer(c, "ok")
        /\ UNCHANGED <<entry, opening, want, known>>
    BY <1>4 DEF Scan, AfterLine
  <2> QED
    BY <2>1
<1> QED
  BY <1>1, <1>2, <1>3, <1>4, <1>5 DEF Acts, Step

LEMMA Steps == ASSUME TypeOK, [Next]_vars, NEW d \in Client
               PROVE  Same(d) \/ Anew(d) \/ (Acts(d) /\ ~Return(d))
<1>1. ASSUME NEW c \in Client, Acts(c) PROVE Same(d) \/ Anew(d) \/ (Acts(d) /\ ~Return(d))
  <2>1. CASE Return(d)
    BY <2>1, Forgets DEF Return
  <2> QED
    BY <1>1, <2>1, Others
<1>2. ASSUME NEW l \in Logger, Crash(l) PROVE Same(d) \/ Anew(d)
  BY <1>2, Forgets DEF Crash
<1>3. CASE UNCHANGED vars
  BY <1>3 DEF vars, Same, opening, reading, history
<1> QED
  BY <1>1, <1>2, <1>3 DEF Next, Acts

LEMMA SecuredIs == \A m : Secured(m) = FilePerm
BY DEF Secured, securePermissions

LEMMA ModeStays == ASSUME [Next]_vars, mode = FilePerm PROVE mode' = FilePerm
<1> USE DEF disk, opening, reading, history
<1>1. ASSUME NEW c \in Client, Open(c) PROVE mode' = FilePerm
  BY <1>1, SecuredIs DEF Open
<1>2. ASSUME NEW c \in Client, BeginLog(c) \/ BeginQuery(c) \/ (Step(c) /\ ~Open(c)) PROVE mode' = mode
  BY <1>2 DEF Step, BeginLog, BeginQuery, CheckSize, Lock, Stat, OpenFails, Write, WriteFails,
              OpenQuery, Scan, ScanEnd, QueryFails, Return
<1>3. ASSUME NEW l \in Logger, Crash(l) PROVE mode' = mode
  BY <1>3 DEF Crash
<1> QED
  BY <1>1, <1>2, <1>3 DEF Next, vars

LEMMA FileStays == ASSUME FileStep, file # Absent PROVE file' # Absent
<1>1. ASSUME NEW e \in Entry, NEW n \in Nat, Appends(e, n) PROVE file' # Absent
  BY <1>1, AddsCells DEF Appends
<1> QED
  BY <1>1 DEF FileStep, Still, Created

\* A goroutine in Log stays in it, and only BeginLog enters it.
LEMMA InLog == ASSUME TypeOK, [Next]_vars, NEW d \in Client, pc'[d] \in Logging
               PROVE  (pc[d] \in Logging /\ entry'[d] = entry[d]) \/ BeginLog(d)
<1> USE DEF TypeOK, opening, reading, history, Goto, Answer, Finish, Logging, Critical
<1>1. CASE Same(d) \/ Anew(d)
  BY <1>1 DEF Same, Anew
<1>2. CASE CheckSize(d) \/ Lock(d) \/ Stat(d) \/ Open(d) \/ OpenFails(d) \/ Write(d) \/ WriteFails(d)
  BY <1>2 DEF CheckSize, Lock, Stat, Open, OpenFails, Write, WriteFails
<1>3. CASE BeginQuery(d) \/ OpenQuery(d) \/ Scan(d) \/ ScanEnd(d) \/ QueryFails(d)
  BY <1>3 DEF BeginQuery, OpenQuery, Scan, AfterLine, ScanEnd, QueryFails
<1> QED
  BY <1>1, <1>2, <1>3, Steps DEF Acts, Step

\* Nothing of its record gets into the log before it is over.
LEMMA FreshStays == ASSUME TypeOK, Distinct, FileStep, NEW d \in Client, pc[d] \in Logging, pc'[d] \in Logging, Pending(d)
                    PROVE  entry[d] \notin acked' \cup Mentioned(file')
<1>1. entry[d] \notin acked \cup Mentioned(file)
  BY DEF Pending
<1>2. CASE Still
  BY <1>1, <1>2 DEF Still
<1>3. CASE Created
  BY <1>1, <1>3 DEF Created, Mentioned
<1>4. ASSUME NEW c \in Client, NEW n \in Nat, pc[c] = "write", pc'[c] \notin Logging, entry[c] \in Entry,
             Appends(entry[c], n)
      PROVE  entry[d] \notin acked' \cup Mentioned(file')
  <2>1. entry[c] # entry[d]
    BY <1>4 DEF Distinct, Logging, Critical
  <2>2. entry[d] \notin Mentioned(file')
    BY <1>1, <1>4, <2>1, AddsMentions DEF Appends
  <2> QED
    BY <1>1, <1>4, <2>1, <2>2 DEF Appends
<1> QED
  BY <1>2, <1>3, <1>4 DEF FileStep

-----------------------------------------------------------------------------
\* The parts of the invariant about Log.

LEMMA OpeningStep == ASSUME TypeOK, FileStep, [Next]_vars, NEW d \in Client, Opening(d) PROVE Opening(d)'
<1> USE DEF TypeOK, opening, reading, history, Goto, Answer, Finish
<1>1. CASE Same(d) \/ Anew(d)
  BY <1>1, FileStays, ModeStays DEF Same, Anew, Opening
<1>2. CASE BeginLog(d) \/ CheckSize(d) \/ Lock(d)
  BY <1>2 DEF BeginLog, CheckSize, Lock, Opening
<1>3. CASE Stat(d)
  <2>1. pc'[d] = "open" /\ tries'[d] = tries[d] + 1 /\ file' = file /\ ret'[d] = ret[d]
    BY <1>3 DEF Stat, disk
  <2>3. (seen'[d] => file # Absent) /\ (file # Absent => seen'[d])
    BY <1>3 DEF Stat
  <2>2. (tries[d] = 0 \/ (tries[d] = 1 /\ file # Absent)) /\ ret[d] # "unsafe"
    BY <1>3 DEF Stat, Opening
  <2> QED
    BY <2>1, <2>2, <2>3 DEF Opening
<1>4. CASE Open(d)
  <2>1. CASE seen[d]
    BY <1>4, <2>1, SecuredIs DEF Open, Opening
  <2>2. CASE ~seen[d] /\ file = Absent
    <3>1. <<>> # Absent
      <4>1. <<>> \in Seq(Cell)
        OBVIOUS
      <4> QED
        BY <4>1, Constants
    <3> QED
      BY <1>4, <2>2, <3>1, SecuredIs DEF Open, Opening
  <2>3. CASE ~seen[d] /\ file # Absent
    <3>1. tries[d] = 1 /\ MayRetry(tries[d])
      BY <1>4, <2>3 DEF Open, Opening, MayRetry
    <3> QED
      BY <1>4, <2>3, <3>1 DEF Open, Opening, disk
  <2> QED
    BY <2>1, <2>2, <2>3
<1>5. CASE OpenFails(d) \/ Write(d) \/ WriteFails(d)
  <2>1. pc'[d] = "done" /\ ret'[d] \in {"ok", "err"}
    BY <1>5 DEF OpenFails, Write, WriteFails, ShortResult
  <2> QED
    BY <2>1 DEF Opening
<1>6. CASE BeginQuery(d) \/ OpenQuery(d) \/ ScanEnd(d) \/ QueryFails(d)
  BY <1>6 DEF BeginQuery, OpenQuery, ScanEnd, QueryFails, Opening
<1>7. CASE Scan(d)
  <2>1. pc'[d] \in {"scan", "done"} /\ ret'[d] \in {ret[d], "ok", "toolarge"}
    BY <1>7 DEF Scan, AfterLine
  <2> QED
    BY <2>1 DEF Opening
<1> QED
  BY <1>1, <1>2, <1>3, <1>4, <1>5, <1>6, <1>7, Steps DEF Acts, Step

LEMMA PendingStep == ASSUME TypeOK, Distinct, Log, FileStep, [Next]_vars, NEW d \in Client, Pending(d)
                     PROVE  Pending(d)'
<1> USE DEF TypeOK, opening, reading, history, Goto, Answer, Finish
<1>1. pc'[d] \in Logging => entry'[d] \in logged' \ (acked' \cup Mentioned(file'))
  <2> SUFFICES ASSUME pc'[d] \in Logging PROVE entry'[d] \in logged' \ (acked' \cup Mentioned(file'))
    OBVIOUS
  <2>1. CASE pc[d] \in Logging /\ entry'[d] = entry[d]
    BY <2>1, FreshStays, LoggedGrows DEF Pending
  <2>2. CASE BeginLog(d)
    BY <2>2 DEF BeginLog, disk, Log
  <2> QED
    BY <2>1, <2>2, InLog
<1>2. pc'[d] \in Sized => Fits(Size[entry'[d]])
  <2>1. CASE Same(d) \/ Anew(d)
    BY <2>1 DEF Same, Anew, Pending, Sized, Critical
  <2>2. CASE BeginLog(d) \/ CheckSize(d) \/ Lock(d) \/ Stat(d)
    BY <2>2 DEF BeginLog, CheckSize, Lock, Stat, Pending, Sized, Critical
  <2>3. CASE Open(d) \/ OpenFails(d) \/ Write(d) \/ WriteFails(d)
    BY <2>3 DEF Open, OpenFails, Write, WriteFails, Pending, Sized, Critical
  <2>4. CASE BeginQuery(d) \/ OpenQuery(d) \/ Scan(d) \/ ScanEnd(d) \/ QueryFails(d)
    BY <2>4 DEF BeginQuery, OpenQuery, Scan, AfterLine, ScanEnd, QueryFails, Sized, Critical
  <2> QED
    BY <2>1, <2>2, <2>3, <2>4, Steps DEF Acts, Step
<1>3. pc'[d] \in {"idle", "query", "scan"} => entry'[d] = None
  <2>1. CASE Same(d) \/ Anew(d)
    BY <2>1 DEF Same, Anew, Pending
  <2>2. CASE BeginLog(d) \/ CheckSize(d) \/ Lock(d) \/ Stat(d)
    BY <2>2 DEF BeginLog, CheckSize, Lock, Stat
  <2>3. CASE Open(d) \/ OpenFails(d) \/ Write(d) \/ WriteFails(d)
    <3>1. Open(d) => pc'[d] \in {"write", "stat", "done"}
      BY DEF Open
    <3>2. OpenFails(d) \/ Write(d) \/ WriteFails(d) => pc'[d] = "done"
      BY DEF OpenFails, Write, WriteFails, ShortResult
    <3> QED
      BY <2>3, <3>1, <3>2
  <2>4. CASE BeginQuery(d) \/ OpenQuery(d) \/ Scan(d) \/ ScanEnd(d) \/ QueryFails(d)
    BY <2>4 DEF BeginQuery, OpenQuery, Scan, AfterLine, ScanEnd, QueryFails, Pending
  <2> QED
    BY <2>1, <2>2, <2>3, <2>4, Steps DEF Acts, Step
<1> QED
  BY <1>1, <1>2, <1>3 DEF Pending

LEMMA DistinctStep == ASSUME TypeOK, \A c \in Client : Pending(c), Distinct, [Next]_vars PROVE Distinct'
<1> SUFFICES ASSUME NEW c \in Client, NEW d \in Client, pc'[c] \in Logging, pc'[d] \in Logging,
                    entry'[c] = entry'[d]
             PROVE  c = d
  BY DEF Distinct
<1>1. ASSUME NEW a \in Client, NEW b \in Client, BeginLog(a), a # b, pc'[b] \in Logging PROVE entry'[a] # entry'[b]
  <2>1. entry'[a] \notin logged
    BY <1>1 DEF BeginLog, TypeOK
  <2>2. Same(b)
    BY <1>1, Others DEF Acts
  <2> QED
    BY <1>1, <2>1, <2>2 DEF Same, Pending
<1>2. CASE BeginLog(c) \/ BeginLog(d)
  BY <1>1, <1>2
<1>3. CASE ~BeginLog(c) /\ ~BeginLog(d)
  BY <1>3, InLog DEF Distinct
<1> QED
  BY <1>2, <1>3

LEMMA HeldStep == ASSUME TypeOK, Held, [Next]_vars PROVE Held'
<1> USE Constants DEF TypeOK, opening, reading, history
<1>1. ASSUME NEW c \in Client, Lock(c) PROVE Held'
  BY <1>1 DEF Lock, Held
<1>2. ASSUME NEW c \in Client, NEW r, Finish(c, r) PROVE Held'
  BY <1>2 DEF Finish, Unlock, Held
<1>3. ASSUME NEW c \in Client, BeginLog(c) \/ BeginQuery(c) \/ CheckSize(c) \/ Stat(c)
                               \/ OpenQuery(c) \/ Scan(c) \/ ScanEnd(c) \/ QueryFails(c) \/ Return(c)
      PROVE  Held'
  BY <1>3 DEF Held, BeginLog, BeginQuery, CheckSize, Stat, OpenQuery, Scan, ScanEnd, QueryFails, Return
<1>4. ASSUME NEW c \in Client, Open(c) PROVE Held'
  BY <1>2, <1>4 DEF Open, Held
<1>5. ASSUME NEW c \in Client, OpenFails(c) \/ Write(c) \/ WriteFails(c) PROVE Held'
  BY <1>2, <1>5 DEF OpenFails, Write, WriteFails, ShortResult
<1>6. ASSUME NEW l \in Logger, Crash(l) PROVE Held'
  BY <1>6 DEF Crash, Held
<1>7. CASE UNCHANGED vars
  BY <1>7 DEF vars, Held
<1> QED
  BY <1>1, <1>3, <1>4, <1>5, <1>6, <1>7 DEF Next, Step

-----------------------------------------------------------------------------
\* What a Query knows stays true while others append.

LEMMA AckedGrows == ASSUME FileStep PROVE acked \subseteq acked'
BY DEF FileStep, Still, Created, Appends

\* An append can give no acknowledged record a line.
LEMMA NoNewLine == ASSUME TypeOK, Log, FileStep, NEW x \in acked, NEW i, file' # Absent, SealedAt(file', x, i)
                   PROVE  file # Absent /\ SealedAt(file, x, i)
<1>1. CASE Still
  BY <1>1 DEF Still
<1>2. CASE Created
  BY <1>2 DEF Created, Log
<1>3. ASSUME NEW e \in Entry, NEW n \in Nat, Appends(e, n) PROVE file # Absent /\ SealedAt(file, x, i)
  <2>1. x \in Entry /\ x # e
    BY <1>3 DEF Appends, TypeOK, Log
  <2> QED
    BY <1>3, <2>1, AddsSealed, AddsCells DEF Appends
<1> QED
  BY <1>1, <1>2, <1>3 DEF FileStep

\* Nor can it give a record that is in the log another place.
LEMMA PlacesStay == ASSUME TypeOK, FileStep, NEW x \in Entry, NEW q \in Nat, Place(x, q), NEW p \in Nat
                    PROVE  Place(x, p)' <=> Place(x, p)
<1>1. CASE Still
  BY <1>1 DEF Still, Place
<1>2. CASE Created
  BY <1>2 DEF Created, Place
<1>3. ASSUME NEW e \in Entry, NEW n \in Nat, Appends(e, n) PROVE Place(x, p)' <=> Place(x, p)
  <2>1. <<x, 1>> # NL /\ <<x, 1>>[1] = x
    BY Constants
  <2>2. x \in Mentioned(file)
    BY <2>1 DEF Place, Mentioned
  <2>3. x # e /\ Adds(file, file', e, n)
    BY <1>3, <2>2 DEF Appends
  <2>4. file # Absent /\ file' # Absent
    BY <2>3, AddsCells
  <2>5. p \in 1..Len(file') /\ file'[p] = <<x, 1>> <=> p \in 1..Len(file) /\ file[p] = <<x, 1>>
    BY <2>3, AddsPlaces
  <2> QED
    BY <2>4, <2>5 DEF Place
<1> QED
  BY <1>1, <1>2, <1>3 DEF FileStep

LEMMA FoulStays == ASSUME TypeOK, FileStep, Foul PROVE Foul'
<1>1. CASE Still
  BY <1>1 DEF Still, Foul
<1>2. CASE Created
  BY <1>2 DEF Created, Foul
<1>3. ASSUME NEW e \in Entry, NEW n \in Nat, Appends(e, n) PROVE Foul'
  <2>1. Adds(file, file', e, n) /\ e \notin Mentioned(file)
    BY <1>3 DEF Appends
  <2>2. Mentioned(file) \subseteq Mentioned(file') /\ file' # Absent
    BY <2>1, AddsMentions, AddsCells
  <2>3. torn' >= torn
    BY <1>3 DEF Appends, TypeOK
  <2>4. acked' \subseteq acked \cup {e}
    BY <1>3 DEF Appends
  <2>5. torn \in Nat /\ torn' \in Nat
    BY <1>3 DEF Appends, TypeOK
  <2>6. CASE torn > 0
    BY <2>3, <2>5, <2>6 DEF Foul
  <2>7. ASSUME NEW x \in Mentioned(file) \ acked PROVE Foul'
    <3>1. x \in Mentioned(file') \ acked'
      BY <2>1, <2>2, <2>4, <2>7
    <3> QED
      BY <2>2, <3>1 DEF Foul
  <2> QED
    BY <2>6, <2>7 DEF Foul
<1> QED
  BY <1>1, <1>2, <1>3 DEF FileStep

LEMMA QueryKept == ASSUME TypeOK, Log, FileStep, NEW d \in Client, Query(d), Same(d) PROVE Query(d)'
<1> USE DEF Same
<1>1. known[d] \subseteq acked /\ known[d] \subseteq acked'
  BY AckedGrows DEF Query
<1>2. pc[d] = "scan" => file' # Absent /\ pos[d] <= Len(file') /\ (pos[d] = 0 \/ file'[pos[d]] = NL)
  <2> SUFFICES ASSUME pc[d] = "scan" PROVE file' # Absent /\ pos[d] <= Len(file') /\ (pos[d] = 0 \/ file'[pos[d]] = NL)
    OBVIOUS
  <2>1. file # Absent /\ pos[d] <= Len(file) /\ (pos[d] = 0 \/ file[pos[d]] = NL) /\ pos[d] \in Nat
    BY DEF Query, TypeOK
  <2>2. CASE Still
    BY <2>1, <2>2 DEF Still
  <2>3. ASSUME NEW e \in Entry, NEW n \in Nat, Appends(e, n)
        PROVE  file' # Absent /\ pos[d] <= Len(file') /\ (pos[d] = 0 \/ file'[pos[d]] = NL)
    <3>1. /\ file' # Absent /\ Len(file) \in Nat /\ Len(file') = Len(file) + n
          /\ \A j \in 1..Len(file) : file'[j] = file[j]
      BY <2>3, AddsCells DEF Appends
    <3> QED
      BY <2>1, <3>1
  <2> QED
    BY <2>1, <2>2, <2>3 DEF FileStep, Created
<1>3. Passed(d) => Passed(d)'
  <2> SUFFICES ASSUME Passed(d), NEW e \in known[d] \cap want[d], NEW i \in Nat, file' # Absent, SealedAt(file', e, i)
               PROVE  e \in Range(got[d]) \/ (pc[d] = "scan" /\ i >= pos[d])
    BY DEF Passed
  <2> QED
    BY <1>1, NoNewLine DEF Passed
<1>4. Ordered(d)'
  <2>0. Ordered(d) /\ got[d] \in Seq(Entry)
    BY DEF Query, TypeOK
  <2>1. ASSUME NEW i \in 1..Len(got[d])
        PROVE  /\ got[d][i] \in Entry
               /\ \E q \in Nat : Place(got[d][i], q) /\ (pc[d] = "scan" => q <= pos[d])
    BY <2>0 DEF Ordered
  <2>2. ASSUME NEW i \in 1..Len(got[d]), NEW p \in Nat PROVE Place(got[d][i], p)' <=> Place(got[d][i], p)
    <3>1. PICK x \in Entry : x = got[d][i]
      BY <2>1
    <3>2. PICK q \in Nat : Place(x, q)
      BY <2>1, <3>1
    <3>3. Place(x, p)' <=> Place(x, p)
      BY <3>2, PlacesStay
    <3> QED
      BY <3>1, <3>3 DEF Place
  <2>3. ASSUME NEW i \in 1..Len(got[d])
        PROVE  /\ got[d][i] \in want[d]
               /\ \E p \in Nat : Place(got[d][i], p)' /\ (pc[d] = "scan" => p <= pos[d])
    BY <2>0, <2>1, <2>2 DEF Ordered
  <2>4. ASSUME NEW i \in 1..Len(got[d]), NEW j \in 1..i - 1, NEW p \in Nat, NEW q \in Nat,
               Place(got[d][j], q)', Place(got[d][i], p)'
        PROVE  q < p
    <3>1. j \in 1..Len(got[d])
      BY <2>0
    <3> QED
      BY <2>0, <2>2, <2>4, <3>1 DEF Ordered
  <2> QED
    BY <2>3, <2>4 DEF Ordered, Place
<1>5. Foul => Foul'
  BY FoulStays
<1>6. /\ (entry[d] # None \/ pc[d] = "idle" => known[d] = {})
      /\ (~Reading(d) => got[d] = <<>>)
      /\ (Reading(d)' <=> Reading(d))
      /\ (pc[d] \notin {"scan", "done"} => pos[d] = 0)
  BY DEF Query, Reading
<1> QED
  BY <1>1, <1>2, <1>3, <1>4, <1>5, <1>6 DEF Query

-----------------------------------------------------------------------------
\* One turn of the scanner.

\* The line that a Query looks at.
LineOf(c) == SubSeq(file, pos[c] + 1, LineEnd(pos[c]) - 1)

LEMMA LineIs == ASSUME TypeOK, NEW c \in Client, Query(c), pc[c] = "scan", ~AtEnd(pos[c])
                PROVE  /\ file \in Seq(Cell) /\ file # Absent /\ pos[c] \in Nat /\ pos[c] < Len(file) /\ Len(file) \in Nat
                       /\ LineEnd(pos[c]) \in pos[c] + 1..Len(file) + 1
                       /\ LineOf(c) \in Seq(Cell) /\ Len(LineOf(c)) = LineEnd(pos[c]) - 1 - pos[c]
                       /\ \A k \in 1..Len(LineOf(c)) : LineOf(c)[k] = file[pos[c] + k] /\ file[pos[c] + k] # NL
<1>1. file \in Seq(Cell) /\ file # Absent /\ pos[c] \in Nat /\ pos[c] < Len(file) /\ Len(file) \in Nat
  <2>1. file \in Seq(Cell) /\ file # Absent /\ pos[c] \in Nat
    BY DEF TypeOK, Query
  <2> QED
    BY <2>1 DEF AtEnd
<1>2. /\ LineEnd(pos[c]) \in pos[c] + 1..Len(file) + 1
      /\ \A n \in pos[c] + 1..Len(file) : file[n] = NL => LineEnd(pos[c]) <= n
  BY <1>1, LineEndIs
<1> DEFINE p == pos[c]
           q == LineEnd(pos[c]) - 1
<1>3. p \in Nat /\ q \in Nat /\ p <= q /\ q <= Len(file)
  BY <1>1, <1>2
<1>4. /\ SubSeq(file, p + 1, q) \in Seq(Cell)
      /\ Len(SubSeq(file, p + 1, q)) = IF p + 1 <= q THEN q - (p + 1) + 1 ELSE 0
      /\ \A k \in 1 .. q - (p + 1) + 1 : SubSeq(file, p + 1, q)[k] = file[(p + 1) + k - 1]
  <2>1. \A i \in p + 1..q : file[i] \in Cell
    BY <1>1, <1>3
  <2> QED
    BY <1>3, <2>1, SubSeqProperties
<1>5. \A k \in 1..q - p : p + k \in p + 1..Len(file) /\ p + k < LineEnd(pos[c]) /\ (p + 1) + k - 1 = p + k
  <2> DEFINE n == LineEnd(pos[c])
  <2>1. n \in Int /\ q = n - 1
    BY <1>2, <1>1
  <2> HIDE DEF n, p, q
  <2> QED
    BY <1>1, <1>3, <2>1 DEF n
<1>6. \A k \in 1..q - p : SubSeq(file, p + 1, q)[k] = file[p + k] /\ file[p + k] # NL
  BY <1>2, <1>3, <1>4, <1>5
<1>7. Len(SubSeq(file, p + 1, q)) = q - p
  BY <1>3, <1>4
<1> QED
  BY <1>1, <1>2, <1>4, <1>6, <1>7 DEF LineOf

\* A line of a record that starts here is the line that the scanner sees.
LEMMA LineSealed == ASSUME TypeOK, NEW c \in Client, Query(c), pc[c] = "scan", ~AtEnd(pos[c]),
                           NEW x \in Entry, SealedAt(file, x, pos[c])
                    PROVE  LineEnd(pos[c]) = pos[c] + Size[x] + 1 /\ LineOf(c) = Body(x)
<1> DEFINE p == pos[c]
           n == LineEnd(pos[c])
<1>0. /\ file \in Seq(Cell) /\ p \in Nat /\ Len(file) \in Nat /\ p <= Len(file) /\ Size[x] \in Nat
      /\ n \in p + 1..Len(file) + 1
      /\ p + Size[x] < Len(file) /\ (\A k \in 1..Size[x] : file[p + k] = <<x, k>>) /\ file[p + Size[x] + 1] = NL
  BY LineIs, Constants DEF SealedAt
<1>1. n <= p + Size[x] + 1
  <2>1. p + Size[x] + 1 \in p + 1..Len(file)
    BY <1>0
  <2> QED
    BY <1>0, <2>1, LineEndIs
<1>2. ASSUME n < p + Size[x] + 1 PROVE FALSE
  <2>1. n - p \in 1..Size[x] /\ p + (n - p) = n /\ n <= Len(file)
    BY <1>0, <1>2
  <2>2. file[n] = <<x, n - p>>
    BY <1>0, <2>1
  <2>3. file[n] = NL
    BY <1>0, <2>1, LineEndIs
  <2>4. n - p \in Nat
    BY <1>0, <1>2
  <2>5. <<x, n - p>> # NL
    BY <2>4, Constants
  <2> QED
    BY <2>2, <2>3, <2>5
<1>3. n = p + Size[x] + 1
  BY <1>0, <1>1, <1>2
<1>4. Len(LineOf(c)) = Size[x] /\ LineOf(c) \in Seq(Cell)
  BY <1>0, <1>3, LineIs
<1>5. \A k \in 1..Size[x] : LineOf(c)[k] = Body(x)[k]
  BY <1>0, <1>4, LineIs DEF Body
<1>6. Body(x) \in Seq(Cell) /\ Len(Body(x)) = Size[x]
  BY BodyOf
<1> QED
  BY <1>3, <1>4, <1>5, <1>6, SeqEqual

\* A line that is too long is no Log's doing.
LEMMA TooLongIsFoul == ASSUME TypeOK, Log, Whole, NEW c \in Client, Query(c), pc[c] = "scan", ~AtEnd(pos[c]),
                              Len(LineOf(c)) > MaxEntrySize
                       PROVE  Foul
<1>a. file # Absent /\ torn \in Nat
  BY LineIs DEF TypeOK
<1> SUFFICES ASSUME torn = 0, Mentioned(file) \subseteq acked PROVE FALSE
  BY <1>a DEF Foul
<1> DEFINE p == pos[c]
<1>0. /\ file \in Seq(Cell) /\ file # Absent /\ p \in Nat /\ p < Len(file) /\ Len(file) \in Nat
      /\ MaxEntrySize \in Nat /\ Len(LineOf(c)) \in Nat /\ LineEnd(p) \in p + 1..Len(file) + 1
      /\ Len(LineOf(c)) = LineEnd(p) - 1 - p
  BY LineIs, Constants
<1>1. p + 1 \in 1..Len(file) /\ 1 \in 1..Len(LineOf(c))
  BY <1>0
<1>2. file[p + 1] # NL /\ file[p + 1] \in Cell
  <2>1. file[p + 1] # NL
    BY <1>1, LineIs
  <2>2. file[p + 1] \in Cell
    <3> HIDE DEF p
    <3> QED
      BY <1>0, <1>1
  <2> QED
    BY <2>1, <2>2
<1>3. PICK x \in Entry : x = file[p + 1][1]
  BY <1>2 DEF Cell
<1>4. x \in acked
  BY <1>0, <1>1, <1>2, <1>3 DEF Mentioned
<1>b. \A i \in 1..Len(file) : file[i] # NL /\ file[i][1] \in acked =>
          \E k \in 1..Size[file[i][1]] : SealedAt(file, file[i][1], i - k)
  BY <1>0 DEF Whole
<1>c. \E k \in 1..Size[x] : SealedAt(file, x, (p + 1) - k)
  <2> DEFINE i == p + 1
  <2>1. i \in 1..Len(file) /\ file[i] # NL /\ file[i][1] = x /\ x \in acked
    BY <1>1, <1>2, <1>3, <1>4
  <2> HIDE DEF i
  <2>2. \E k \in 1..Size[x] : SealedAt(file, x, i - k)
    BY <2>1, <1>b
  <2> QED
    BY <2>2 DEF i
<1>5. PICK k \in 1..Size[x] : SealedAt(file, x, (p + 1) - k)
  BY <1>c
<1>6. Size[x] \in Nat /\ Size[x] <= MaxEntrySize
  BY <1>3, <1>4, Constants DEF Log, Fits
<1>7. k = 1
  <2> SUFFICES ASSUME k # 1 PROVE FALSE
    OBVIOUS
  <2>0. (p + 1) - k \in Nat /\ (\A m \in 1..Size[x] : file[((p + 1) - k) + m] = <<x, m>>)
    BY <1>5 DEF SealedAt
  <2>1. k - 1 \in 1..Size[x] /\ k - 1 \in Nat /\ ((p + 1) - k) + (k - 1) = p /\ p # 0
    <3>1. p \in Nat /\ Size[x] \in Nat /\ k \in 1..Size[x] /\ (p + 1) - k >= 0
      BY <1>0, <1>5, <1>6, <2>0
    <3> DEFINE z == Size[x]
    <3> HIDE DEF p, z
    <3> QED
      BY <3>1 DEF z
  <2>2. file[p] = <<x, k - 1>>
    BY <2>0, <2>1
  <2>3. file[p] = NL
    BY <2>1 DEF Query
  <2>4. <<x, k - 1>> # NL
    BY <1>3, <2>1, Constants
  <2> QED
    BY <2>2, <2>3, <2>4
<1>8. SealedAt(file, x, p)
  <2>1. (p + 1) - k = p
    BY <1>0, <1>7
  <2> QED
    BY <1>5, <2>1
<1>9. LineEnd(p) = p + Size[x] + 1
  BY <1>3, <1>8, LineSealed
<1> QED
  BY <1>0, <1>6, <1>9

\* One more record.
LEMMA Extends == ASSUME NEW s \in Seq(Entry), NEW e \in Entry
                 PROVE  /\ s \o <<e>> \in Seq(Entry) /\ Len(s \o <<e>>) = Len(s) + 1
                        /\ \A j \in 1..Len(s) : (s \o <<e>>)[j] = s[j]
                        /\ (s \o <<e>>)[Len(s) + 1] = e
                        /\ e \in Range(s \o <<e>>) /\ Range(s) \subseteq Range(s \o <<e>>)
<1>1. <<e>> \in Seq(Entry) /\ Len(<<e>>) = 1 /\ <<e>>[1] = e /\ Len(s) \in Nat
  OBVIOUS
<1>2. /\ s \o <<e>> \in Seq(Entry) /\ Len(s \o <<e>>) = Len(s) + Len(<<e>>)
      /\ \A i \in 1..Len(s) + Len(<<e>>) :
            (s \o <<e>>)[i] = IF i <= Len(s) THEN s[i] ELSE <<e>>[i - Len(s)]
  BY <1>1, ConcatProperties
<1> DEFINE t == s \o <<e>>
           n == Len(s)
<1>3. t \in Seq(Entry) /\ Len(t) = n + 1 /\ n \in Nat
  BY <1>1, <1>2
<1>4. \A j \in 1..n : t[j] = s[j]
  BY <1>1, <1>2
<1>5. t[n + 1] = e
  <2>1. n + 1 \in 1..n + Len(<<e>>) /\ ~(n + 1 <= n) /\ (n + 1) - n = 1
    BY <1>1
  <2> QED
    BY <1>1, <1>2, <2>1
<1>6. DOMAIN t = 1..n + 1 /\ DOMAIN s = 1..n
  BY <1>3
<1> HIDE DEF t, n
<1>7. e \in Range(t) /\ Range(s) \subseteq Range(t)
  <2>1. n + 1 \in DOMAIN t /\ \A j \in DOMAIN s : j \in DOMAIN t /\ t[j] = s[j]
    BY <1>3, <1>4, <1>6
  <2> QED
    BY <1>5, <2>1 DEF Range
<1> QED
  BY <1>3, <1>4, <1>5, <1>7 DEF t, n

\* A record has one place.
LEMMA OnePlace == ASSUME TypeOK, Log, NEW x \in Entry, NEW p \in Nat, NEW q \in Nat, Place(x, p), Place(x, q)
                  PROVE  p = q
<1>1. file # Absent /\ Unique(file)
  BY DEF Place, Log
<1>2. <<x, 1>> # NL
  BY Constants
<1> QED
  BY <1>1, <1>2 DEF Place, Unique

\* What a line adds to the answer is the record on it.
LEMMA LineHolds == ASSUME TypeOK, NEW c \in Client, Query(c), pc[c] = "scan", ~AtEnd(pos[c]),
                          NEW e \in Entry, Decodes(LineOf(c), e)
                   PROVE  Place(e, pos[c] + 1)
<1>1. Len(LineOf(c)) = Size[e] /\ Size[e] \in Nat /\ Size[e] > 0 /\ LineOf(c) = Body(e)
  BY BodyOf, Constants DEF Decodes
<1>2. 1 \in 1..Size[e]
  BY <1>1
<1>3. LineOf(c)[1] = <<e, 1>>
  BY <1>1, <1>2, BodyOf
<1>4. file[pos[c] + 1] = <<e, 1>>
  BY <1>1, <1>2, <1>3, LineIs
<1>5. file # Absent /\ pos[c] + 1 \in 1..Len(file)
  BY LineIs
<1> QED
  BY <1>4, <1>5 DEF Place

\* The facts about a turn that does not end at the bound.
Turn(c) ==
    /\ pos'[c] = LineEnd(pos[c])
    /\ got'[c] = got[c] \o Collected(c, LineOf(c))
    /\ IF LineEnd(pos[c]) <= Len(file) THEN pc'[c] = "scan" /\ ret'[c] = ret[c] ELSE pc'[c] = "done" /\ ret'[c] = "ok"

LEMMA ScanTurns == ASSUME TypeOK, NEW c \in Client, Scan(c)
                   PROVE  /\ pc[c] = "scan" /\ ~AtEnd(pos[c])
                          /\ file' = file /\ acked' = acked /\ torn' = torn
                          /\ entry'[c] = entry[c] /\ want'[c] = want[c] /\ known'[c] = known[c]
                          /\ \/ /\ Len(LineOf(c)) > MaxEntrySize
                                /\ pc'[c] = "done" /\ ret'[c] = "toolarge" /\ pos'[c] = pos[c] /\ got'[c] = got[c]
                             \/ Turn(c)
<1>1. /\ pc[c] = "scan" /\ ~AtEnd(pos[c])
      /\ file' = file /\ acked' = acked /\ torn' = torn
      /\ entry' = entry /\ want' = want /\ known' = known
  BY DEF Scan, disk, history
<1>2. CASE Len(LineOf(c)) > MaxEntrySize
  BY <1>1, <1>2 DEF Scan, LineOf, Answer, Goto, TypeOK
<1>3. CASE ~(Len(LineOf(c)) > MaxEntrySize)
  <2>1. /\ pos' = [pos EXCEPT ![c] = LineEnd(pos[c])]
        /\ got' = [got EXCEPT ![c] = @ \o Collected(c, LineOf(c))]
        /\ AfterLine(c, LineOf(c), LineEnd(pos[c]))
    BY <1>3 DEF Scan, LineOf
  <2>2. pos'[c] = LineEnd(pos[c]) /\ got'[c] = got[c] \o Collected(c, LineOf(c))
    BY <2>1 DEF TypeOK
  <2>3. IF LineEnd(pos[c]) <= Len(file) THEN pc'[c] = "scan" /\ ret'[c] = ret[c] ELSE pc'[c] = "done" /\ ret'[c] = "ok"
    BY <2>1 DEF AfterLine, Answer, Goto, TypeOK
  <2> QED
    BY <1>1, <2>2, <2>3 DEF Turn
<1> QED
  BY <1>2, <1>3

\* Either nothing or the record on the line is collected.
LEMMA TurnCollects == ASSUME TypeOK, NEW c \in Client, Turn(c)
                      PROVE  \/ /\ got'[c] = got[c]
                                /\ \A e \in Entry : ~(Decodes(LineOf(c), e) /\ Selected(c, e))
                             \/ \E e \in Entry : /\ Decodes(LineOf(c), e) /\ Selected(c, e)
                                                 /\ got'[c] = got[c] \o <<e>>
<1>1. got[c] \in Seq(Entry) /\ got[c] \o <<>> = got[c]
  BY DEF TypeOK
<1>2. got'[c] = got[c] \o Collected(c, LineOf(c))
  BY DEF Turn
<1>3. CASE /\ Collected(c, LineOf(c)) = <<>>
           /\ \A e \in Entry : ~(Decodes(LineOf(c), e) /\ Selected(c, e))
  BY <1>1, <1>2, <1>3
<1>4. ASSUME NEW e \in Entry, Decodes(LineOf(c), e), Selected(c, e), Collected(c, LineOf(c)) = <<e>>
      PROVE  \E x \in Entry : Decodes(LineOf(c), x) /\ Selected(c, x) /\ got'[c] = got[c] \o <<x>>
  BY <1>2, <1>4
<1> QED
  BY <1>3, <1>4, CollectedIs

LEMMA TurnPasses == ASSUME TypeOK, Log, NEW c \in Client, Query(c), Scan(c), Turn(c) PROVE Passed(c)'
<1>0. /\ pc[c] = "scan" /\ ~AtEnd(pos[c]) /\ file' = file
      /\ want'[c] = want[c] /\ known'[c] = known[c]
  BY ScanTurns
<1>1. Passed(c) /\ known[c] \subseteq acked /\ acked \subseteq Entry
  BY <1>0 DEF Query, TypeOK
<1>2. /\ file \in Seq(Cell) /\ file # Absent /\ pos[c] \in Nat /\ pos[c] < Len(file) /\ Len(file) \in Nat
      /\ LineEnd(pos[c]) \in pos[c] + 1..Len(file) + 1
  BY <1>0, LineIs
<1>3. Range(got[c]) \subseteq Range(got'[c])
  <2>1. got[c] \in Seq(Entry)
    BY DEF TypeOK
  <2>2. ASSUME NEW e \in Entry, got'[c] = got[c] \o <<e>> PROVE Range(got[c]) \subseteq Range(got'[c])
    BY <2>1, <2>2, Extends
  <2> QED
    BY <2>2, TurnCollects
<1> SUFFICES ASSUME NEW e \in known[c] \cap want[c], NEW i \in Nat, SealedAt(file, e, i)
             PROVE  e \in Range(got'[c]) \/ (pc'[c] = "scan" /\ i >= pos'[c])
  BY <1>0 DEF Passed
<1>4. e \in Entry
  BY <1>1
<1>5. CASE e \in Range(got[c])
  BY <1>3, <1>5
<1>6. CASE i = pos[c]
  <2>1. LineOf(c) = Body(e)
    BY <1>0, <1>4, <1>6, LineSealed
  <2>2. Decodes(LineOf(c), e) /\ Selected(c, e)
    BY <2>1 DEF Decodes, Selected
  <2>3. PICK x \in Entry : Decodes(LineOf(c), x) /\ got'[c] = got[c] \o <<x>>
    BY <1>4, <2>2, TurnCollects
  <2>4. x = e
    BY <1>4, <2>2, <2>3, DecodesOne
  <2>5. got[c] \in Seq(Entry)
    BY DEF TypeOK
  <2> QED
    BY <1>4, <2>3, <2>4, <2>5, Extends
<1>7. CASE i > pos[c]
  <2>1. file[i] = NL /\ i \in pos[c] + 1..Len(file)
    <3>1. Size[e] \in Nat
      BY <1>4, Constants
    <3>2. (i = 0 \/ file[i] = NL) /\ i + Size[e] < Len(file)
      BY DEF SealedAt
    <3> QED
      BY <1>2, <1>7, <3>1, <3>2
  <2>2. LineEnd(pos[c]) <= i
    <3>1. pos[c] <= Len(file)
      BY <1>2
    <3>2. \A n \in pos[c] + 1..Len(file) : file[n] = NL => LineEnd(pos[c]) <= n
      BY <1>2, <3>1, LineEndIs
    <3> QED
      BY <2>1, <3>2
  <2>3. LineEnd(pos[c]) <= Len(file)
    BY <1>2, <2>1, <2>2
  <2> QED
    BY <2>2, <2>3, <1>2 DEF Turn
<1>8. e \in Range(got[c]) \/ i >= pos[c]
  BY <1>1, <1>2 DEF Passed
<1> QED
  BY <1>2, <1>5, <1>6, <1>7, <1>8

LEMMA TurnOrders == ASSUME TypeOK, Log, NEW c \in Client, Query(c), Scan(c), Turn(c) PROVE Ordered(c)'
<1>0. pc[c] = "scan" /\ ~AtEnd(pos[c]) /\ file' = file /\ want'[c] = want[c] /\ Ordered(c)
  BY ScanTurns DEF Query
<1>1. /\ file # Absent /\ pos[c] \in Nat /\ LineEnd(pos[c]) \in Nat /\ pos[c] + 1 <= LineEnd(pos[c])
      /\ pos'[c] = LineEnd(pos[c])
  BY <1>0, LineIs DEF Turn
<1>2. got[c] \in Seq(Entry) /\ Len(got[c]) \in Nat
  BY DEF TypeOK
<1>4. ASSUME NEW i \in 1..Len(got[c])
      PROVE  /\ got[c][i] \in want[c] /\ got[c][i] \in Entry
             /\ \E p \in Nat : Place(got[c][i], p) /\ p <= pos[c]
             /\ \A j \in 1..i - 1 : \A p, q \in Nat : Place(got[c][j], q) /\ Place(got[c][i], p) => q < p
  BY <1>0, <1>2 DEF Ordered
<1>5. CASE got'[c] = got[c]
  <2>1. ASSUME NEW i \in 1..Len(got[c])
        PROVE  /\ got[c][i] \in want'[c]
               /\ \E p \in Nat : Place(got[c][i], p) /\ (pc'[c] = "scan" => p <= pos'[c])
    <3>1. PICK p \in Nat : Place(got[c][i], p) /\ p <= pos[c]
      BY <1>4
    <3> QED
      BY <1>0, <1>1, <1>4, <1>5, <3>1
  <2>2. ASSUME NEW i \in 1..Len(got[c]), NEW j \in 1..i - 1, NEW p \in Nat, NEW q \in Nat,
               Place(got[c][j], q), Place(got[c][i], p)
        PROVE  q < p
    <3>1. j \in 1..Len(got[c])
      BY <1>2
    <3> QED
      BY <1>4, <2>2, <3>1
  <2> QED
    BY <1>0, <1>5, <2>1, <2>2 DEF Ordered, Place
<1>6. ASSUME NEW e \in Entry, Decodes(LineOf(c), e), Selected(c, e), got'[c] = got[c] \o <<e>> PROVE Ordered(c)'
  <2> DEFINE g == got'[c]
             n == Len(got[c])
  <2>0. /\ n \in Nat /\ Len(g) = n + 1 /\ g[n + 1] = e /\ \A j \in 1..n : g[j] = got[c][j]
    BY <1>2, <1>6, Extends
  <2>1. Place(e, pos[c] + 1) /\ e \in want[c]
    BY <1>0, <1>6, LineHolds DEF Selected
  <2>2. ASSUME NEW i \in 1..n
        PROVE  /\ g[i] = got[c][i] /\ g[i] \in want[c] /\ g[i] \in Entry
               /\ \E p \in Nat : Place(g[i], p) /\ p <= pos[c]
               /\ \A p, q \in Nat : Place(g[i], q) /\ Place(e, p) => q < p
    <3>1. g[i] = got[c][i]
      BY <2>0
    <3>2. PICK r \in Nat : Place(got[c][i], r) /\ r <= pos[c]
      BY <1>4
    <3>3. ASSUME NEW p \in Nat, NEW q \in Nat, Place(got[c][i], q), Place(e, p) PROVE q < p
      <4>1. q = r
        BY <1>4, <3>2, <3>3, OnePlace
      <4>2. p = pos[c] + 1
        BY <1>1, <2>1, <3>3, OnePlace
      <4> QED
        BY <1>1, <3>2, <4>1, <4>2
    <3> QED
      BY <1>4, <3>1, <3>2, <3>3
  <2>3. \A i \in 1..n + 1 : i \in 1..n \/ i = n + 1
    BY <2>0
  <2> HIDE DEF g, n
  <2>4. ASSUME NEW i \in 1..n + 1
        PROVE  /\ g[i] \in want'[c] /\ g[i] \in Entry
               /\ \E p \in Nat : Place(g[i], p) /\ (pc'[c] = "scan" => p <= pos'[c])
    <3>1. CASE i \in 1..n
      <4>1. PICK p \in Nat : Place(g[i], p) /\ p <= pos[c]
        BY <2>2, <3>1
      <4> QED
        BY <1>0, <1>1, <2>2, <3>1, <4>1
    <3>2. CASE i = n + 1
      <4>1. pos[c] + 1 \in Nat /\ Place(e, pos[c] + 1)
        BY <1>1, <2>1
      <4> QED
        BY <1>0, <1>1, <2>0, <2>1, <3>2, <4>1
    <3> QED
      BY <2>3, <3>1, <3>2
  <2>5. ASSUME NEW i \in 1..n + 1, NEW j \in 1..i - 1, NEW p \in Nat, NEW q \in Nat, Place(g[j], q), Place(g[i], p)
        PROVE  q < p
    <3>1. j \in 1..n /\ j \in 1..n + 1
      BY <2>0
    <3>2. Place(g[j], q) /\ Place(g[i], p)
      BY <2>5
    <3>3. CASE i \in 1..n
      BY <1>4, <2>2, <3>1, <3>2, <3>3 DEF n
    <3>4. CASE i = n + 1
      BY <2>0, <2>2, <3>1, <3>2, <3>4
    <3> QED
      BY <2>3, <3>3, <3>4
  <2>6. Len(g) = n + 1
    BY <2>0
  <2> QED
    BY <1>0, <2>4, <2>5, <2>6 DEF Ordered, Place, g
<1> QED
  BY <1>5, <1>6, TurnCollects

LEMMA ScanStep == ASSUME TypeOK, Log, Whole, NEW c \in Client, Pending(c), Query(c), Scan(c) PROVE Query(c)'
<1>0. /\ pc[c] = "scan" /\ ~AtEnd(pos[c]) /\ file' = file /\ acked' = acked /\ torn' = torn
      /\ entry'[c] = None /\ want'[c] = want[c] /\ known'[c] = known[c] /\ known[c] \subseteq acked
  BY ScanTurns DEF Pending, Query
<1>1. CASE /\ Len(LineOf(c)) > MaxEntrySize
           /\ pc'[c] = "done" /\ ret'[c] = "toolarge" /\ pos'[c] = pos[c] /\ got'[c] = got[c]
  <2>1. Foul'
    BY <1>0, <1>1, TooLongIsFoul DEF Foul
  <2>2. Ordered(c)'
    BY <1>0, <1>1 DEF Query, Ordered, Place
  <2> QED
    BY <1>0, <1>1, <2>1, <2>2 DEF Query, Reading
<1>2. CASE Turn(c)
  <2>1. Passed(c)' /\ Ordered(c)'
    BY <1>2, TurnPasses, TurnOrders
  <2>2. pc'[c] = "scan" => file' # Absent /\ pos'[c] <= Len(file') /\ (pos'[c] = 0 \/ file'[pos'[c]] = NL)
    <3>1. file \in Seq(Cell) /\ file # Absent /\ pos[c] \in Nat /\ pos[c] <= Len(file)
      BY <1>0, LineIs
    <3>2. LineEnd(pos[c]) <= Len(file) => file[LineEnd(pos[c])] = NL
      BY <3>1, LineEndIs
    <3> QED
      BY <1>0, <1>2, <3>1, <3>2 DEF Turn
  <2>3. pc'[c] = "scan" \/ (pc'[c] = "done" /\ ret'[c] = "ok")
    BY <1>2 DEF Turn
  <2> QED
    BY <1>0, <2>1, <2>2, <2>3 DEF Query, Reading
<1> QED
  BY <1>1, <1>2, ScanTurns

\* A goroutine that has collected nothing has nothing to account for.
LEMMA QueryEmpty == ASSUME NEW d \in Client, got'[d] = <<>>, known'[d] \subseteq acked', ret'[d] # "toolarge" \/ entry'[d] # None,
                           entry'[d] # None \/ pc'[d] = "idle" => known'[d] = {},
                           pc'[d] # "scan",
                           pc'[d] # "done" => pos'[d] = 0,
                           pc'[d] = "done" => known'[d] = {} \/ file' = Absent
                    PROVE  Query(d)'
<1>1. Len(<<>>) = 0 /\ 1..0 = {}
  OBVIOUS
<1>2. Ordered(d)'
  BY <1>1 DEF Ordered
<1>3. pc'[d] = "done" => Passed(d)'
  BY DEF Passed
<1> QED
  BY <1>2, <1>3 DEF Query, Reading

LEMMA QueryStep == ASSUME TypeOK, Log, Whole, FileStep, [Next]_vars, NEW d \in Client, Pending(d), Query(d)
                   PROVE  Query(d)'
<1> USE DEF TypeOK, opening, reading, history, disk, Goto, Answer, Finish
<1>1. CASE Same(d)
  BY <1>1, QueryKept
<1>2. CASE Anew(d)
  BY <1>2, QueryEmpty DEF Anew
<1>3. CASE BeginLog(d)
  <2>1. /\ pc'[d] = "size" /\ entry'[d] # None /\ known'[d] = {} /\ got'[d] = <<>> /\ pos'[d] = 0
    BY <1>3, Constants DEF BeginLog, Query, Reading
  <2> QED
    BY <2>1, QueryEmpty
<1>4. CASE CheckSize(d) \/ Lock(d) \/ Stat(d) \/ Open(d) \/ OpenFails(d) \/ Write(d) \/ WriteFails(d)
  <2>1. pc[d] \in Logging /\ entry'[d] = entry[d] /\ known'[d] = known[d] /\ got'[d] = got[d] /\ pos'[d] = pos[d]
    BY <1>4 DEF CheckSize, Lock, Stat, Open, OpenFails, Write, WriteFails, Logging, Critical
  <2>2. pc'[d] \in Logging \cup {"done"}
    BY <1>4 DEF CheckSize, Lock, Stat, Open, OpenFails, Write, WriteFails, ShortResult, Logging, Critical
  <2>3. entry[d] # None
    BY <2>1, Constants DEF Pending
  <2>4. known[d] = {} /\ got[d] = <<>> /\ pos[d] = 0
    BY <2>1, <2>3 DEF Query, Reading, Logging, Critical
  <2> QED
    BY <2>1, <2>2, <2>3, <2>4, QueryEmpty DEF Logging, Critical
<1>5. CASE BeginQuery(d)
  <2>1. /\ pc[d] = "idle" /\ pc'[d] = "query" /\ entry'[d] = None /\ known'[d] = acked /\ acked' = acked
        /\ got'[d] = got[d] /\ pos'[d] = pos[d] /\ ret'[d] = ret[d] /\ pos[d] = 0 /\ got[d] = <<>>
    BY <1>5 DEF BeginQuery, Pending, Query, Reading
  <2>2. Ordered(d)'
    BY <2>1 DEF Ordered
  <2> QED
    BY <2>1, <2>2 DEF Query, Reading
<1>6. CASE OpenQuery(d)
  <2>1. /\ pc[d] = "query" /\ entry'[d] = None /\ known'[d] = known[d] /\ acked' = acked /\ want'[d] = want[d]
        /\ got'[d] = <<>> /\ pos'[d] = 0 /\ file' = file /\ known[d] \subseteq acked
    BY <1>6 DEF OpenQuery, Pending, Query, Reading
  <2>2. Ordered(d)'
    BY <2>1 DEF Ordered
  <2>3. CASE file = Absent
    <3>1. pc'[d] = "done" /\ ret'[d] = "ok"
      BY <1>6, <2>3 DEF OpenQuery
    <3>2. Passed(d)'
      BY <2>1, <2>3 DEF Passed
    <3> QED
      BY <2>1, <2>2, <3>1, <3>2 DEF Query, Reading
  <2>4. CASE file # Absent
    <3>1. pc'[d] = "scan" /\ Len(file) \in Nat
      BY <1>6, <2>4 DEF OpenQuery
    <3>2. Passed(d)'
      BY <2>1, <3>1 DEF Passed
    <3>3. file' # Absent /\ pos'[d] <= Len(file')
      BY <2>1, <2>4, <3>1
    <3> QED
      BY <2>1, <2>2, <3>1, <3>2, <3>3 DEF Query, Reading
  <2> QED
    BY <2>3, <2>4
<1>7. CASE Scan(d)
  BY <1>7, ScanStep
<1>8. CASE ScanEnd(d)
  <2>1. /\ pc[d] = "scan" /\ AtEnd(pos[d]) /\ pc'[d] = "done" /\ ret'[d] = "ok" /\ entry'[d] = None
        /\ known'[d] = known[d] /\ want'[d] = want[d] /\ got'[d] = got[d] /\ pos'[d] = pos[d]
        /\ file' = file /\ acked' = acked /\ known[d] \subseteq acked
    BY <1>8 DEF ScanEnd, Pending, Query
  <2>2. Ordered(d)'
    BY <2>1 DEF Query, Ordered, Place
  <2>3. Passed(d)'
    <3> SUFFICES ASSUME NEW e \in known[d] \cap want[d], NEW i \in Nat, file # Absent, SealedAt(file, e, i)
                 PROVE  e \in Range(got[d])
      BY <2>1 DEF Passed
    <3>1. e \in Range(got[d]) \/ i >= pos[d]
      BY <2>1 DEF Query, Passed
    <3>2. e \in Entry
      BY <2>1
    <3>3. Size[e] \in Nat /\ i + Size[e] < Len(file) /\ Len(file) \in Nat
      BY <3>2, Constants DEF SealedAt
    <3>4. pos[d] \in Nat /\ pos[d] >= Len(file)
      BY <2>1 DEF AtEnd
    <3> QED
      BY <3>1, <3>3, <3>4
  <2> QED
    BY <2>1, <2>2, <2>3 DEF Query, Reading
<1>9. CASE QueryFails(d)
  <2>1. /\ pc[d] \in {"query", "scan"} /\ pc'[d] = "done" /\ ret'[d] = "err" /\ entry'[d] = None
        /\ known'[d] = known[d] /\ want'[d] = want[d] /\ got'[d] = got[d]
        /\ file' = file /\ acked' = acked /\ known[d] \subseteq acked
    BY <1>9 DEF QueryFails, Pending, Query
  <2>2. Ordered(d)'
    BY <2>1 DEF Query, Ordered, Place
  <2> QED
    BY <2>1, <2>2 DEF Query, Reading
<1> QED
  BY <1>1, <1>2, <1>3, <1>4, <1>5, <1>6, <1>7, <1>8, <1>9, Steps DEF Acts, Step

-----------------------------------------------------------------------------
\* The invariant.

LEMMA InitInv == Init => IInv
<1> SUFFICES ASSUME Init PROVE IInv
  OBVIOUS
<1>1. file \in Seq(Cell) \cup {Absent} /\ (file # Absent => Unique(file))
  BY AuditAssumption DEF Init
<1>2. TypeOK
  <2>1. Mentioned(file) \subseteq Entry /\ <<>> \in Seq(Entry)
    BY DEF Mentioned
  <2>2. mode \subseteq Bits
    BY AuditAssumption DEF Init
  <2>3. torn \in Nat
    BY DEF Init
  <2> QED
    BY <1>1, <2>1, <2>2, <2>3 DEF Init, TypeOK, PC, Result
<1>3. ASSUME NEW c \in Client PROVE Opening(c) /\ Pending(c) /\ Query(c)
  <2>1. pc[c] = "idle" /\ tries[c] = 0 /\ ret[c] = "none" /\ entry[c] = None /\ known[c] = {} /\ got[c] = <<>> /\ pos[c] = 0
    BY DEF Init
  <2>2. Ordered(c)
    <3>1. Len(<<>>) = 0 /\ 1..0 = {}
      OBVIOUS
    <3> QED
      BY <2>1, <3>1 DEF Ordered
  <2> QED
    BY <2>1, <2>2 DEF Opening, Pending, Query, Reading, Logging, Sized, Critical
<1>4. Distinct /\ Held
  BY DEF Init, Distinct, Held, Logging, Critical
<1>5. acked = {} /\ logged = Mentioned(file) /\ torn = IF Dangling(file) THEN 1 ELSE 0
  BY DEF Init
<1>6. Log
  BY <1>1, <1>5 DEF Log
<1>7. Damage
  <2>1. Lost(file, acked) = {} /\ IsFiniteSet(acked)
    BY <1>5, FS_EmptySet DEF Lost
  <2>2. Cardinality({}) = 0
    BY FS_EmptySet
  <2> QED
    BY <1>5, <2>1, <2>2 DEF Damage
<1>8. Whole
  BY <1>5 DEF Whole
<1> QED
  BY <1>2, <1>3, <1>4, <1>6, <1>7, <1>8 DEF IInv

LEMMA InvStep == IInv /\ [Next]_vars => IInv'
<1> SUFFICES ASSUME IInv, [Next]_vars PROVE IInv'
  OBVIOUS
<1>1. TypeOK /\ Distinct /\ Held /\ Log /\ Damage /\ Whole
  BY DEF IInv
<1>2. \A c \in Client : Opening(c) /\ Pending(c) /\ Query(c)
  BY DEF IInv
<1>3. FileStep /\ logged \subseteq logged'
  BY <1>1, <1>2, FileSteps, LoggedGrows
<1>4. TypeOK'
  BY <1>1, <1>2, TypeStep
<1>5. ASSUME NEW c \in Client PROVE Opening(c)' /\ Pending(c)' /\ Query(c)'
  BY <1>1, <1>2, <1>3, OpeningStep, PendingStep, QueryStep
<1>6. Distinct' /\ Held'
  BY <1>1, <1>2, DistinctStep, HeldStep
<1>7. Log' /\ Damage' /\ Whole'
  BY <1>1, <1>3, LogStep, DamageStep, WholeStep
<1> QED
  BY <1>4, <1>5, <1>6, <1>7 DEF IInv

\* The facts about the log and its readers hold in every reachable state.
THEOREM Invariant == Spec => []IInv
BY InitInv, InvStep, PTL DEF Spec

-----------------------------------------------------------------------------
\* What Log and Query promise.

\* Every variable keeps its type (audit.go:33-124).
THEOREM TypeCorrect == Spec => []TypeOK
<1>1. IInv => TypeOK
  BY DEF IInv
<1> QED
  BY <1>1, Invariant, PTL

\* Loggers that create the log at the same moment do not fail each other, and
\* whoever writes has secured the log first (root.go:145-177, 239-257).
THEOREM OpensAreSafe == Spec => []OpensSafely
<1>1. IInv => OpensSafely
  BY DEF IInv, OpensSafely, CreationRaceHarmless, AppendsPrivate, Opening, Private
<1> QED
  BY <1>1, Invariant, PTL

\* A line with an ending is a line.
LEMMA SealedIsIntact == ASSUME TypeOK, NEW e \in Entry, Sealed(file, e) PROVE Intact(e)
<1>1. PICK i \in Nat : SealedAt(file, e, i)
  BY DEF Sealed
<1> DEFINE n == i + Size[e]
<1>2. file # Absent /\ file \in Seq(Cell) /\ Len(file) \in Nat /\ Size[e] \in Nat /\ Size[e] > 0
  BY Constants DEF TypeOK, Sealed
<1>3. /\ n < Len(file) /\ (i = 0 \/ file[i] = NL) /\ file[n + 1] = NL
      /\ \A k \in 1..Size[e] : file[i + k] = <<e, k>>
  BY <1>1 DEF SealedAt
<1>4. SubSeq(file, i + 1, n) = Body(e)
  <2>1. \A j \in i + 1..n : file[j] \in Cell
    BY <1>2, <1>3
  <2>2. /\ SubSeq(file, i + 1, n) \in Seq(Cell)
        /\ Len(SubSeq(file, i + 1, n)) = IF i + 1 <= n THEN n - (i + 1) + 1 ELSE 0
        /\ \A j \in 1 .. n - (i + 1) + 1 : SubSeq(file, i + 1, n)[j] = file[(i + 1) + j - 1]
    BY <1>2, <2>1, SubSeqProperties
  <2>3. n - (i + 1) + 1 = Size[e] /\ i + 1 <= n /\ \A j \in 1..Size[e] : (i + 1) + j - 1 = i + j
    BY <1>2
  <2>4. Len(SubSeq(file, i + 1, n)) = Size[e]
    BY <1>2, <2>2, <2>3
  <2>5. \A j \in 1..Size[e] : SubSeq(file, i + 1, n)[j] = <<e, j>>
    <3>1. \A j \in 1..Size[e] : j \in 1 .. n - (i + 1) + 1
      BY <1>2
    <3> QED
      BY <1>3, <2>2, <2>3, <3>1
  <2> DEFINE t == SubSeq(file, i + 1, n)
  <2>6. /\ t \in Seq(Cell) /\ Body(e) \in Seq(Cell) /\ Len(t) = Len(Body(e))
        /\ \A j \in 1..Len(t) : t[j] = Body(e)[j]
    BY <2>2, <2>4, <2>5, BodyOf
  <2> HIDE DEF t
  <2>7. t = Body(e)
    BY <2>6, SeqEqual
  <2> QED
    BY <2>7 DEF t
<1>5. i \in 0..Len(file) /\ n <= Len(file)
  BY <1>2, <1>3
<1> QED
  BY <1>2, <1>3, <1>4, <1>5 DEF Intact, LineAt

\* The line of an acknowledged record has an ending.
LEMMA IntactIsSealed == ASSUME TypeOK, Log, NEW e \in acked, NEW i \in 0..Len(file), file # Absent, LineAt(e, i)
                        PROVE  SealedAt(file, e, i)
<1> DEFINE n == i + Size[e]
<1>1. e \in Entry /\ file \in Seq(Cell) /\ Len(file) \in Nat /\ Size[e] \in Nat /\ Size[e] > 0
  BY Constants DEF TypeOK
<1>2. /\ n <= Len(file) /\ SubSeq(file, i + 1, n) = Body(e)
      /\ (i = 0 \/ file[i] = NL) /\ (n = Len(file) \/ file[n + 1] = NL)
  BY DEF LineAt
<1>3. \A k \in 1..Size[e] : file[i + k] = <<e, k>>
  <2>1. \A j \in i + 1..n : file[j] \in Cell
    BY <1>1, <1>2
  <2>2. \A j \in 1 .. n - (i + 1) + 1 : SubSeq(file, i + 1, n)[j] = file[(i + 1) + j - 1]
    BY <1>1, <2>1, SubSeqProperties
  <2>3. \A j \in 1..Size[e] : j \in 1 .. n - (i + 1) + 1 /\ (i + 1) + j - 1 = i + j
    BY <1>1
  <2> QED
    BY <1>1, <1>2, <2>2, <2>3, BodyOf
<1>4. n # Len(file)
  <2> SUFFICES ASSUME n = Len(file) PROVE FALSE
    OBVIOUS
  <2>1. Size[e] \in 1..Size[e] /\ Len(file) # 0
    BY <1>1
  <2>2. file[Len(file)] = <<e, Size[e]>> /\ <<e, Size[e]>> # NL /\ <<e, Size[e]>>[1] = e
    BY <1>1, <1>3, <2>1, Constants
  <2>3. file # <<>>
    BY <2>1
  <2> QED
    BY <2>2, <2>3 DEF Log, Dangling
<1>5. n < Len(file)
  <2>1. n \in Int
    BY <1>1
  <2> HIDE DEF n
  <2> QED
    BY <1>1, <1>2, <1>4, <2>1
<1> QED
  BY <1>1, <1>2, <1>3, <1>4, <1>5 DEF SealedAt

\* Whatever fails or dies, and however many at once: each write that left a
\* fragment costs at most one acknowledged record (audit.go:64-74).
THEOREM DamageIsBounded == Spec => []DamageBounded
<1> SUFFICES ASSUME IInv PROVE DamageBounded
  BY Invariant, PTL
<1> DEFINE S == {e \in acked : ~Intact(e)}
           L == Lost(file, acked)
<1>1. TypeOK /\ Damage /\ torn \in Nat
  BY DEF IInv, TypeOK
<1>2. S \subseteq L
  BY <1>1, SealedIsIntact DEF TypeOK, Lost
<1>3. IsFiniteSet(L) /\ Cardinality(L) \in Nat
  <2>1. L \subseteq acked /\ IsFiniteSet(acked)
    BY <1>1 DEF Lost, Damage
  <2> QED
    BY <2>1, FS_Subset, FS_CardinalityType
<1>4. Cardinality(S) <= Cardinality(L) /\ Cardinality(S) \in Nat
  BY <1>2, <1>3, FS_Subset, FS_CardinalityType
<1>5. Cardinality(L) <= torn
  BY <1>1, <1>3 DEF Damage
<1> QED
  BY <1>1, <1>3, <1>4, <1>5 DEF DamageBounded

\* A Query that returns no error has every selected record that was acknowledged
\* before it began and is still whole (audit.go:79-124).
LEMMA Complete == IInv => QueryComplete
<1> SUFFICES ASSUME IInv, NEW c \in Client, pc[c] = "done", ret[c] = "ok",
                    NEW e \in known[c] \cap want[c], Intact(e)
             PROVE  e \in Range(got[c])
  BY DEF QueryComplete
<1>1. TypeOK /\ Log /\ Query(c)
  BY DEF IInv
<1>2. e \in acked /\ Passed(c)
  BY <1>1 DEF Query
<1>3. PICK i \in 0..Len(file) : file # Absent /\ LineAt(e, i)
  BY DEF Intact
<1>4. SealedAt(file, e, i) /\ i \in Nat
  BY <1>1, <1>2, <1>3, IntactIsSealed DEF SealedAt
<1> QED
  BY <1>2, <1>3, <1>4 DEF Passed

\* What a Query returns are selected records in the order of the log (audit.go:92-115).
LEMMA Sound == IInv => QuerySound
<1> DEFINE Start(e) == CHOOSE i \in 1..Len(file) : file[i] = <<e, 1>>
<1> SUFFICES ASSUME IInv, NEW c \in Client, NEW i \in 1..Len(got[c])
             PROVE  /\ got[c][i] \in want[c]
                    /\ \A j \in 1..i - 1 : Start(got[c][j]) < Start(got[c][i])
  BY DEF QuerySound
<1>1. TypeOK /\ Log /\ Ordered(c) /\ got[c] \in Seq(Entry) /\ Len(got[c]) \in Nat
  BY DEF IInv, Query, TypeOK
<1>2. ASSUME NEW j \in 1..Len(got[c]) PROVE Start(got[c][j]) \in Nat /\ Place(got[c][j], Start(got[c][j]))
  <2>1. PICK p \in Nat : Place(got[c][j], p)
    BY <1>1 DEF Ordered
  <2>2. \E k \in 1..Len(file) : file[k] = <<got[c][j], 1>>
    BY <2>1 DEF Place
  <2>3. Start(got[c][j]) \in 1..Len(file) /\ file[Start(got[c][j])] = <<got[c][j], 1>>
    BY <2>2
  <2>4. file # Absent /\ Len(file) \in Nat
    BY <1>1, <2>1 DEF Place, TypeOK
  <2> QED
    BY <2>3, <2>4 DEF Place
<1>3. ASSUME NEW j \in 1..i - 1 PROVE Start(got[c][j]) < Start(got[c][i])
  <2>1. j \in 1..Len(got[c])
    BY <1>1
  <2>2. \A p, q \in Nat : Place(got[c][j], q) /\ Place(got[c][i], p) => q < p
    BY <1>1 DEF Ordered
  <2>3. Start(got[c][j]) \in Nat /\ Place(got[c][j], Start(got[c][j]))
    BY <1>2, <2>1
  <2>4. Start(got[c][i]) \in Nat /\ Place(got[c][i], Start(got[c][i]))
    BY <1>2
  <2> HIDE DEF Start
  <2> QED
    BY <2>2, <2>3, <2>4
<1> QED
  BY <1>1, <1>3 DEF Ordered

\* A Query that gives up at the bound saw what no Log answers for (audit.go:56-58, 91-97).
LEMMA Bound == IInv => BoundShared
<1> SUFFICES ASSUME IInv, NEW c \in Client, pc[c] = "done", entry[c] = None, ret[c] = "toolarge", ~(torn > 0)
             PROVE  \E i \in 1..Len(file) : file[i] # NL /\ file[i][1] \notin acked
  BY DEF BoundShared
<1>1. Foul
  BY DEF IInv, Query
<1>2. PICK x \in Mentioned(file) \ acked : file # Absent
  BY <1>1 DEF Foul
<1> QED
  BY <1>2 DEF Mentioned

\* What a Query answers, whatever others append or tear meanwhile: everything it
\* should have, nothing it should not, in order (audit.go:79-124).
THEOREM QueriesAreExact == Spec => []QueryExact
<1>1. IInv => QueryExact
  BY Complete, Sound, Bound DEF QueryExact
<1> QED
  BY <1>1, Invariant, PTL
=============================================================================
