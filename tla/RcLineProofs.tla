------------------------------ MODULE RcLineProofs -----------------------------
(***************************************************************************)
(* What the edits of a newsrc line do, for lines of every length: lemmas   *)
(* about the operators of RcLine.                                          *)
(***************************************************************************)
EXTENDS RcLine, SequenceTheorems, FiniteSetTheorems, TLAPS

-------------------------------------------------------------------------------
(* Numbers.                                                                *)

LEMMA LeastOf ==
  ASSUME NEW T \in SUBSET Nat, T # {}
  PROVE  \E m \in T : \A n \in T : m <= n
  <1> DEFINE R == OpToRel(<, Nat)
  <1>1. \A n, m \in Nat : n < m => <<n, m>> \in R
    BY DEF OpToRel
  <1>2. IsWellFoundedOn(R, Nat)
    BY NatLessThanWellFounded
  <1> HIDE DEF R
  <1>3. PICK m \in T : \A n \in T : ~(<<n, m>> \in R)
    BY <1>2, WFMin, Zenon
  <1>4. ASSUME NEW n \in T PROVE m <= n
    <2>1. n \in Nat /\ m \in Nat
      OBVIOUS
    <2>2. ~(n < m)
      BY <1>1, <1>3, <2>1, Zenon
    <2> QED
      BY <2>1, <2>2
  <1> QED
    BY <1>4

LEMMA GreatestOf ==
  ASSUME NEW T \in SUBSET Int, T # {}, NEW b \in Int, \A n \in T : n <= b
  PROVE  \E m \in T : \A n \in T : n <= m
  <1> DEFINE D == {k \in Nat : b - k \in T}
  <1>1. \A n \in T : b - n \in D /\ b - (b - n) = n
    OBVIOUS
  <1>2. D \in SUBSET Nat /\ D # {}
    BY <1>1
  <1>3. PICK k \in D : \A j \in D : k <= j
    BY <1>2, LeastOf
  <1>4. ASSUME NEW n \in T PROVE n <= b - k
    <2>1. b - n \in D /\ n \in Int
      BY <1>1
    <2>2. k <= b - n /\ k \in Nat
      BY <2>1, <1>3
    <2> QED
      BY <2>1, <2>2
  <1> QED
    BY <1>4, <1>3

LEMMA MaxIs ==
  ASSUME NEW T \in SUBSET Int, T # {}, NEW b \in Int, \A n \in T : n <= b
  PROVE  Max(T) \in T /\ \A n \in T : n <= Max(T)
  <1>1. \E m \in T : \A n \in T : m >= n
    BY GreatestOf
  <1> QED
    BY <1>1 DEF Max

LEMMA MinIs ==
  ASSUME NEW T \in SUBSET Nat, T # {}
  PROVE  Min(T) \in T /\ \A n \in T : Min(T) <= n
  <1>1. \E m \in T : \A n \in T : m <= n
    BY LeastOf
  <1> QED
    BY <1>1 DEF Min

-------------------------------------------------------------------------------
(* Lines and their parts.                                                  *)

Entries == [lo : Nat \ {0}, hi : Nat, rng : BOOLEAN]

IsEntry(e) ==
  /\ e \in Entries
  /\ e.lo <= e.hi + 1
  /\ ~e.rng => e.lo = e.hi

LEMMA LineIs ==
  ASSUME NEW line, IsRcLine(line)
  PROVE  /\ line \in Seq(Entries)
         /\ Len(line) \in Nat
         /\ DOMAIN line = 1 .. Len(line)
         /\ \A i \in 1 .. Len(line) :
              /\ IsEntry(line[i])
              /\ line[i].lo \in Nat \ {0}
              /\ line[i].hi \in Nat
              /\ line[i].lo <= line[i].hi + 1
         /\ \A i, j \in 1 .. Len(line) :
              i < j => line[i].hi < line[j].lo /\ line[i].lo <= line[j].lo
  <1>1. line \in Seq(Entries) /\ Len(line) \in Nat /\ DOMAIN line = 1 .. Len(line)
    BY LenProperties DEF IsRcLine, Entries
  <1>2. \A i \in 1 .. Len(line) :
          /\ IsEntry(line[i])
          /\ line[i].lo \in Nat \ {0}
          /\ line[i].hi \in Nat
          /\ line[i].lo <= line[i].hi + 1
    <2>1. \A i \in 1 .. Len(line) : line[i] \in Entries
      BY <1>1, ElementOfSeq
    <2>2. \A i \in 1 .. Len(line) : IsEntry(line[i])
      BY <1>1, <2>1 DEF IsRcLine, IsEntry
    <2> QED
      BY <2>1, <2>2 DEF IsEntry, Entries
  <1>3. \A i, j \in 1 .. Len(line) : i < j => line[i].hi < line[j].lo
    BY <1>1 DEF IsRcLine
  <1>4. \A i, j \in 1 .. Len(line) :
          i < j => line[i].hi < line[j].lo /\ line[i].lo <= line[j].lo
    BY <1>2, <1>3
  <1> QED
    BY <1>1, <1>2, <1>4

LEMMA DenotesIs ==
  ASSUME NEW line, IsRcLine(line), NEW n
  PROVE  n \in Denotes(line) <=>
           \E i \in 1 .. Len(line) : n \in line[i].lo .. line[i].hi
  BY LineIs DEF Denotes

LEMMA DenotesBy ==
  ASSUME NEW line, NEW n
  PROVE  n \in Denotes(line) <=> \E e \in Range(line) : n \in e.lo .. e.hi
  BY DEF Denotes, Range

LEMMA LineIntro ==
  ASSUME NEW line \in Seq(Entries),
         \A i \in 1 .. Len(line) : IsEntry(line[i]),
         \A i, j \in 1 .. Len(line) : i < j => line[i].hi < line[j].lo
  PROVE  IsRcLine(line)
  BY LenProperties DEF IsRcLine, IsEntry, Entries

LEMMA EmptyLine == IsRcLine(<<>>) /\ Denotes(<<>>) = {}
  <1>1. <<>> \in Seq(Entries) /\ Len(<<>>) = 0
    BY EmptySeq
  <1>2. IsRcLine(<<>>)
    <2>1. \A i \in 1 .. Len(<<>>) : FALSE
      BY <1>1
    <2> QED
      BY <1>1, <2>1, LineIntro, Zenon
  <1> QED
    BY <1>1, <1>2, DenotesIs

LEMMA OneEntry ==
  ASSUME NEW e, IsEntry(e)
  PROVE  /\ IsRcLine(<<e>>)
         /\ Denotes(<<e>>) = e.lo .. e.hi
         /\ Range(<<e>>) = {e}
         /\ Len(<<e>>) = 1 /\ <<e>>[1] = e
  <1>1. <<e>> \in Seq(Entries) /\ Len(<<e>>) = 1 /\ <<e>>[1] = e
    BY DEF IsEntry
  <1>2. IsRcLine(<<e>>)
    BY <1>1, LineIntro
  <1>3. \A n : n \in Denotes(<<e>>) <=> n \in e.lo .. e.hi
    <2> DEFINE line == <<e>>
    <2>1. IsRcLine(line) /\ Len(line) = 1 /\ line[1] = e
      BY <1>1, <1>2
    <2> HIDE DEF line
    <2>2. \A n : n \in Denotes(line) <=>
                  \E i \in 1 .. Len(line) : n \in line[i].lo .. line[i].hi
      BY <2>1, DenotesIs
    <2>3. 1 .. Len(line) = {1}
      BY <2>1
    <2>4. \A n : n \in Denotes(line) <=> n \in e.lo .. e.hi
      BY <2>1, <2>2, <2>3
    <2> QED
      BY <2>4 DEF line
  <1>4. Denotes(<<e>>) = e.lo .. e.hi
    BY <1>3, Zenon
  <1>5. Range(<<e>>) = {e}
    BY <1>1 DEF Range
  <1> QED
    BY <1>1, <1>2, <1>4, <1>5

\* A run of entries of a line.
LEMMA PartOf ==
  ASSUME NEW line, IsRcLine(line),
         NEW a \in 1 .. Len(line) + 1, NEW b \in 0 .. Len(line), a <= b + 1
  PROVE  LET part == SubSeq(line, a, b) IN
         /\ IsRcLine(part)
         /\ Len(part) = b - a + 1
         /\ \A i \in 1 .. Len(part) : part[i] = line[a + i - 1]
         /\ \A n : n \in Denotes(part) <=>
                     \E i \in a .. b : n \in line[i].lo .. line[i].hi
  <1> DEFINE part == SubSeq(line, a, b)
  <1>1. Len(line) \in Nat
    BY LineIs
  <1>2. \A i \in a .. b : line[i] \in Entries
    BY <1>1, LineIs DEF IsEntry
  <1>3. /\ part \in Seq(Entries)
        /\ Len(part) = IF a <= b THEN b - a + 1 ELSE 0
        /\ \A i \in 1 .. b - a + 1 : part[i] = line[a + i - 1]
    BY <1>1, <1>2, SubSeqProperties
  <1>9. Len(part) = b - a + 1
    BY <1>1, <1>3
  <1>4. Len(part) \in Nat /\ \A i \in 1 .. Len(part) :
          part[i] = line[a + i - 1] /\ a + i - 1 \in 1 .. Len(line)
    BY <1>1, <1>3
  <1> HIDE DEF part
  <1>5. IsRcLine(part)
    <2>1. \A i \in 1 .. Len(part) : IsEntry(part[i])
      BY <1>1, <1>4, LineIs
    <2>2. ASSUME NEW i \in 1 .. Len(part), NEW j \in 1 .. Len(part), i < j
          PROVE  part[i].hi < part[j].lo
      <3>1. a + i - 1 < a + j - 1
        BY <2>2, <1>1, <1>3
      <3> QED
        BY <3>1, <1>1, <1>4, LineIs
    <2> QED
      BY <1>3, <2>1, <2>2, LineIntro
  <1>6. ASSUME NEW n
        PROVE  n \in Denotes(part) <=>
                 \E i \in a .. b : n \in line[i].lo .. line[i].hi
    <2>1. ASSUME NEW i \in a .. b
          PROVE  i - a + 1 \in 1 .. Len(part) /\ a + (i - a + 1) - 1 = i
      <3>1. i \in Int /\ a <= i /\ i <= b /\ a \in Int /\ b \in Int
        OBVIOUS
      <3>2. i - a + 1 \in Int /\ 1 <= i - a + 1 /\ i - a + 1 <= b - a + 1
        BY <3>1
      <3> QED
        BY <1>9, <3>1, <3>2
    <2>2. ASSUME NEW i \in 1 .. Len(part) PROVE a + i - 1 \in a .. b
      <3>1. i \in Int /\ 1 <= i /\ i <= b - a + 1 /\ a \in Int /\ b \in Int
        BY <1>9
      <3> QED
        BY <3>1
    <2>3. n \in Denotes(part) <=>
            \E i \in 1 .. Len(part) : n \in part[i].lo .. part[i].hi
      BY <1>5, DenotesIs
    <2>4. ASSUME NEW i \in 1 .. Len(part), n \in part[i].lo .. part[i].hi
          PROVE  \E k \in a .. b : n \in line[k].lo .. line[k].hi
      BY <2>4, <1>4, <2>2
    <2>5. ASSUME NEW k \in a .. b, n \in line[k].lo .. line[k].hi
          PROVE  \E i \in 1 .. Len(part) : n \in part[i].lo .. part[i].hi
      <3>1. part[k - a + 1] = line[k]
        BY <1>4, <2>1
      <3> QED
        BY <3>1, <2>1, <2>5
    <2> QED
      BY <2>3, <2>4, <2>5
  <1> QED
    BY <1>3, <1>4, <1>5, <1>6, <1>9 DEF part

\* Two lines, one after the other.
LEMMA JoinedIs ==
  ASSUME NEW a, IsRcLine(a), NEW b, IsRcLine(b),
         \A i \in 1 .. Len(a), j \in 1 .. Len(b) : a[i].hi < b[j].lo
  PROVE  /\ IsRcLine(a \o b)
         /\ Len(a \o b) = Len(a) + Len(b)
         /\ \A i \in 1 .. Len(a) : (a \o b)[i] = a[i]
         /\ \A i \in 1 .. Len(b) : (a \o b)[Len(a) + i] = b[i]
         /\ Denotes(a \o b) = Denotes(a) \cup Denotes(b)
         /\ Range(a \o b) = Range(a) \cup Range(b)
  <1> DEFINE c == a \o b
  <1>1. /\ a \in Seq(Entries) /\ b \in Seq(Entries)
        /\ Len(a) \in Nat /\ Len(b) \in Nat
    BY LineIs
  <1>2. /\ c \in Seq(Entries) /\ Len(c) = Len(a) + Len(b)
        /\ \A i \in 1 .. Len(c) :
             c[i] = IF i <= Len(a) THEN a[i] ELSE b[i - Len(a)]
    BY <1>1, ConcatProperties
  <1> HIDE DEF c
  <1>3. \A i \in 1 .. Len(a) : c[i] = a[i] /\ i \in 1 .. Len(c)
    BY <1>1, <1>2
  <1>4. \A i \in 1 .. Len(b) : c[Len(a) + i] = b[i] /\ Len(a) + i \in 1 .. Len(c)
    BY <1>1, <1>2
  <1>5. ASSUME NEW i \in 1 .. Len(c), ~(i \in 1 .. Len(a))
        PROVE  i - Len(a) \in 1 .. Len(b) /\ c[i] = b[i - Len(a)]
    BY <1>1, <1>2, <1>5
  <1>6. IsRcLine(c)
    <2>1. \A i \in 1 .. Len(c) : IsEntry(c[i])
      BY <1>3, <1>5, LineIs
    <2>2. ASSUME NEW i \in 1 .. Len(c), NEW j \in 1 .. Len(c), i < j
          PROVE  c[i].hi < c[j].lo
      <3>1. CASE j \in 1 .. Len(a)
        <4>1. i \in 1 .. Len(a)
          BY <1>1, <2>2, <3>1
        <4> QED
          BY <4>1, <3>1, <2>2, <1>3, LineIs
      <3>2. CASE i \in 1 .. Len(a) /\ ~(j \in 1 .. Len(a))
        BY <3>2, <1>3, <1>5
      <3>3. CASE ~(i \in 1 .. Len(a)) /\ ~(j \in 1 .. Len(a))
        <4>1. i - Len(a) < j - Len(a)
          BY <1>1, <1>2, <2>2
        <4> QED
          BY <4>1, <3>3, <1>5, LineIs
      <3> QED
        BY <3>1, <3>2, <3>3, <2>2, <1>1, <1>2
    <2> QED
      BY <1>2, <2>1, <2>2, LineIntro
  <1>7. Denotes(c) = Denotes(a) \cup Denotes(b)
    <2>1. ASSUME NEW n \in Denotes(c) PROVE n \in Denotes(a) \cup Denotes(b)
      <3>1. PICK i \in 1 .. Len(c) : n \in c[i].lo .. c[i].hi
        BY <2>1, <1>6, DenotesIs
      <3> QED
        BY <3>1, <1>3, <1>5, DenotesIs
    <2>2. ASSUME NEW n \in Denotes(a) PROVE n \in Denotes(c)
      BY <2>2, <1>3, <1>6, DenotesIs
    <2>3. ASSUME NEW n \in Denotes(b) PROVE n \in Denotes(c)
      BY <2>3, <1>4, <1>6, DenotesIs
    <2> QED
      BY <2>1, <2>2, <2>3
  <1> QED
    BY <1>1, <1>2, <1>3, <1>4, <1>6, <1>7, RangeConcatenation DEF c

\* The entries of a line up to a and from b on.
Outside(line, a, b) == {line[i] : i \in (1 .. a) \cup (b .. Len(line))}

IsSplice(r, line, a, b, m) ==
  IsRcLine(r) /\ Range(r) = Range(m) \cup Outside(line, a, b)

\* p is the line up to entry a, q the line from entry b on.
IsFront(p, line, a) ==
  IsRcLine(p) /\ Len(p) = a /\ \A i \in 1 .. a : p[i] = line[i]

IsBack(q, line, b) ==
  /\ IsRcLine(q)
  /\ Len(q) = Len(line) - b + 1
  /\ \A i \in 1 .. Len(q) : q[i] = line[b + i - 1]

\* A line in which the entries between a and b are replaced by others.
LEMMA SplicedIs ==
  ASSUME NEW line, IsRcLine(line),
         NEW a \in 0 .. Len(line), NEW b \in a + 1 .. Len(line) + 1,
         NEW p, IsFront(p, line, a), NEW q, IsBack(q, line, b),
         NEW m, IsRcLine(m),
         \A i \in 1 .. a, j \in 1 .. Len(m) : line[i].hi < m[j].lo,
         \A i \in 1 .. Len(m), j \in b .. Len(line) : m[i].hi < line[j].lo
  PROVE  IsSplice(p \o m \o q, line, a, b, m)
  <1> USE DEF IsFront, IsBack
  <1> DEFINE r == p \o m \o q
  <1>1. /\ Len(line) \in Nat /\ Len(m) \in Nat
        /\ DOMAIN p = 1 .. a /\ DOMAIN q = 1 .. Len(q) /\ Len(q) \in Nat
    BY LineIs
  <1>2. /\ IsRcLine(p \o m)
        /\ Len(p \o m) = a + Len(m)
        /\ \A i \in 1 .. a : (p \o m)[i] = p[i]
        /\ \A i \in 1 .. Len(m) : (p \o m)[a + i] = m[i]
        /\ Range(p \o m) = Range(p) \cup Range(m)
    <2>1. \A i \in 1 .. Len(p), j \in 1 .. Len(m) : p[i].hi < m[j].lo
      OBVIOUS
    <2>2. IsRcLine(p \o m) /\ Range(p \o m) = Range(p) \cup Range(m)
      BY <2>1, JoinedIs
    <2>3. Len(p \o m) = Len(p) + Len(m)
      BY <2>1, JoinedIs
    <2>4. \A i \in 1 .. Len(p) : (p \o m)[i] = p[i]
      BY <2>1, JoinedIs
    <2>5. \A i \in 1 .. Len(m) : (p \o m)[Len(p) + i] = m[i]
      BY <2>1, JoinedIs
    <2> QED
      BY <2>2, <2>3, <2>4, <2>5
  <1>3. ASSUME NEW i \in 1 .. Len(p \o m), NEW j \in 1 .. Len(q)
        PROVE  (p \o m)[i].hi < q[j].lo
    <2> DEFINE k == b + j - 1
    <2>1. k \in b .. Len(line) /\ k \in 1 .. Len(line) /\ q[j] = line[k]
      BY <1>1
    <2> HIDE DEF k
    <2>2. CASE i <= a
      <3>1. i \in 1 .. a /\ i \in 1 .. Len(line) /\ i < k
        BY <1>1, <1>2, <2>1, <2>2
      <3>2. line[i].hi < line[k].lo
        BY <3>1, <2>1, LineIs
      <3> QED
        BY <3>1, <3>2, <2>1, <1>2
    <2>3. CASE ~(i <= a)
      <3>1. i - a \in 1 .. Len(m) /\ a + (i - a) = i
        BY <1>1, <1>2, <2>3
      <3>2. (p \o m)[i] = m[i - a]
        BY <3>1, <1>2
      <3> QED
        BY <3>1, <3>2, <2>1
    <2> QED
      BY <2>2, <2>3
  <1>4. IsRcLine(r) /\ Range(r) = Range(p) \cup Range(m) \cup Range(q)
    <2> DEFINE pm == p \o m
    <2>1. /\ IsRcLine(pm) /\ Range(pm) = Range(p) \cup Range(m) /\ r = pm \o q
          /\ \A i \in 1 .. Len(pm), j \in 1 .. Len(q) : pm[i].hi < q[j].lo
      BY <1>2, <1>3
    <2> HIDE DEF pm, r
    <2>2. IsRcLine(q)
      OBVIOUS
    <2>3. IsRcLine(pm \o q) /\ Range(pm \o q) = Range(pm) \cup Range(q)
      BY <2>1, <2>2, JoinedIs
    <2> QED
      BY <2>1, <2>3
  <1>5. \A e : e \in Range(p) <=> \E i \in 1 .. Len(line) : i <= a /\ e = line[i]
    <2>1. Range(p) = {line[i] : i \in 1 .. a}
      BY <1>1 DEF Range
    <2> QED
      BY <2>1, <1>1
  <1>6. \A e : e \in Range(q) <=> \E i \in 1 .. Len(line) : b <= i /\ e = line[i]
    <2>1. ASSUME NEW e \in Range(q)
          PROVE  \E i \in 1 .. Len(line) : b <= i /\ e = line[i]
      <3>1. PICK j \in 1 .. Len(q) : e = q[j]
        BY <1>1 DEF Range
      <3>2. b + j - 1 \in 1 .. Len(line) /\ b <= b + j - 1
        BY <1>1
      <3> QED
        BY <3>1, <3>2
    <2>2. ASSUME NEW i \in 1 .. Len(line), b <= i
          PROVE  line[i] \in Range(q)
      <3>1. i - b + 1 \in 1 .. Len(q) /\ b + (i - b + 1) - 1 = i
        BY <1>1, <2>2
      <3> QED
        BY <3>1, <1>1 DEF Range
    <2> QED
      BY <2>1, <2>2
  <1>7. \A i : i \in (1 .. a) \cup (b .. Len(line)) <=>
                i \in 1 .. Len(line) /\ (i <= a \/ b <= i)
    BY <1>1
  <1> HIDE DEF r
  <1>8. Range(r) = Range(m) \cup Outside(line, a, b)
    BY <1>4, <1>5, <1>6, <1>7 DEF Outside
  <1> QED
    BY <1>4, <1>8 DEF r, IsSplice

-------------------------------------------------------------------------------
(* Where an edit takes place.                                              *)

LEMMA LeadingIs ==
  ASSUME NEW line, IsRcLine(line), NEW n \in Nat
  PROVE  /\ Leading(line, n) \in 0 .. Len(line)
         /\ \A i \in 1 .. Len(line) : line[i].lo <= n <=> i <= Leading(line, n)
  <1> DEFINE T == {k \in 0 .. Len(line) : \A j \in 1 .. k : line[j].lo <= n}
             m == Max(T)
  <1>1. Len(line) \in Nat
    BY LineIs
  <1>2. T \in SUBSET Int /\ 0 \in T /\ \A k \in T : k <= Len(line)
    BY <1>1
  <1> HIDE DEF T
  <1>3. m \in T /\ \A k \in T : k <= m
    <2>1. Len(line) \in Int /\ T # {}
      BY <1>1, <1>2
    <2> QED
      BY <2>1, <1>2, MaxIs, Zenon
  <1> USE DEF T
  <1>4. ASSUME NEW i \in 1 .. Len(line), line[i].lo <= n
        PROVE  i \in T
    <2>1. \A j \in 1 .. i : line[j].lo <= line[i].lo
      BY <1>1, LineIs
    <2>2. \A j \in 1 .. i : line[j].lo <= n
      BY <1>1, <1>4, <2>1, LineIs
    <2> QED
      BY <2>2, <1>1
  <1>5. m = Leading(line, n)
    BY DEF Leading
  <1> QED
    BY <1>1, <1>3, <1>4, <1>5

LEMMA BeforeIs ==
  ASSUME NEW line, IsRcLine(line), NEW n \in Nat
  PROVE  /\ IsRcLine(Before(line, n))
         /\ Len(Before(line, n)) = Leading(line, n)
         /\ \A i \in 1 .. Leading(line, n) : Before(line, n)[i] = line[i]
  <1>1. Leading(line, n) \in 0 .. Len(line) /\ Len(line) \in Nat
    BY LeadingIs, LineIs
  <1> QED
    BY <1>1, PartOf DEF Before

LEMMA AfterIs ==
  ASSUME NEW line, IsRcLine(line), NEW n \in Nat
  PROVE  /\ IsRcLine(After(line, n))
         /\ Len(After(line, n)) = Len(line) - Leading(line, n)
         /\ \A i \in 1 .. Len(After(line, n)) :
              After(line, n)[i] = line[Leading(line, n) + i]
  <1> DEFINE k == Leading(line, n)
  <1>1. k \in 0 .. Len(line) /\ Len(line) \in Nat
    BY LeadingIs, LineIs
  <1>2. /\ k + 1 \in 1 .. Len(line) + 1 /\ Len(line) \in 0 .. Len(line)
        /\ k + 1 <= Len(line) + 1
    BY <1>1
  <1>3. /\ IsRcLine(After(line, n))
        /\ Len(After(line, n)) = Len(line) - (k + 1) + 1
        /\ \A i \in 1 .. Len(After(line, n)) :
             After(line, n)[i] = line[(k + 1) + i - 1]
    BY <1>2, PartOf DEF After
  <1> QED
    BY <1>1, <1>3

LEMMA EmptyIs ==
  ASSUME NEW line, IsRcLine(line)
  PROVE  line = <<>> <=> Len(line) = 0
  BY LineIs, EmptySeq
-------------------------------------------------------------------------------
(* add_art_num.                                                            *)

\* No edit of a line brings forth a number above those it is about, nor
\* forgets an entry "1-0".
Within(r, line, n) ==
  /\ \A e \in Range(r) : e.hi <= n \/ \E f \in Range(line) : e.hi <= f.hi
  /\ \A f \in Range(line) : f.hi = 0 => f \in Range(r)

LEMMA EndsBelow ==
  ASSUME NEW line, IsRcLine(line), NEW n \in Nat, n \notin Denotes(line),
         NEW i \in 1 .. Len(line), line[i].lo <= n
  PROVE  line[i].hi < n
  <1>1. ~(n \in line[i].lo .. line[i].hi)
    BY DenotesIs
  <1>2. line[i].lo \in Nat /\ line[i].hi \in Nat
    BY LineIs
  <1> QED
    BY <1>1, <1>2

LEMMA InsertIs ==
  ASSUME NEW line, IsRcLine(line), NEW n \in Nat \ {0}, n \notin Denotes(line)
  PROVE  LET r == Insert(Before(line, n), n, After(line, n)) IN
         /\ IsRcLine(r)
         /\ Denotes(r) = Denotes(line) \cup {n}
         /\ Within(r, line, n)
  <1> DEFINE k == Leading(line, n)
             l == Len(line)
             before == Before(line, n)
             after == After(line, n)
             joins == before # <<>> /\ Last(before).hi # 0 /\ n = Last(before).hi + 1
             meets == after # <<>> /\ Head(after).lo = n + 1
             entry == [lo  |-> IF joins THEN Last(before).lo ELSE n,
                       hi  |-> IF meets THEN Head(after).hi ELSE n,
                       rng |-> joins \/ meets]
             p == IF joins THEN Front(before) ELSE before
             q == IF meets THEN Tail(after) ELSE after
             a == IF joins THEN k - 1 ELSE k
             b == IF meets THEN k + 2 ELSE k + 1
  <1>1. k \in 0 .. l /\ l \in Nat /\ \A i \in 1 .. l : line[i].lo <= n <=> i <= k
    BY LeadingIs, LineIs
  <1>2. /\ IsRcLine(before) /\ Len(before) = k
        /\ \A i \in 1 .. k : before[i] = line[i]
    BY BeforeIs
  <1>3. /\ IsRcLine(after) /\ Len(after) = l - k
        /\ \A i \in 1 .. l - k : after[i] = line[k + i]
    BY AfterIs
  <1>4. /\ \A i \in 1 .. l : /\ line[i].lo \in Nat \ {0}
                             /\ line[i].hi \in Nat
                             /\ line[i].lo <= line[i].hi + 1
        /\ \A i \in 1 .. k : line[i].lo <= n /\ line[i].hi < n
        /\ \A i \in (k + 1) .. l : n < line[i].lo /\ n <= line[i].hi
    <2>1. \A i \in 1 .. l : /\ line[i].lo \in Nat \ {0}
                            /\ line[i].hi \in Nat
                            /\ line[i].lo <= line[i].hi + 1
      BY LineIs
    <2>2. ASSUME NEW i \in 1 .. k PROVE line[i].lo <= n /\ line[i].hi < n
      <3>1. i \in 1 .. l /\ i <= k
        BY <1>1
      <3> QED
        BY <1>1, <3>1, EndsBelow
    <2>3. ASSUME NEW i \in (k + 1) .. l PROVE n < line[i].lo /\ n <= line[i].hi
      <3>1. i \in 1 .. l /\ ~(i <= k)
        BY <1>1
      <3> QED
        BY <1>1, <2>1, <3>1
    <2> QED
      BY <2>1, <2>2, <2>3
  <1>5. joins <=> k > 0 /\ line[k].hi # 0 /\ n = line[k].hi + 1
    BY <1>1, <1>2, EmptyIs DEF Last
  <1>6. joins => Last(before) = line[k]
    BY <1>1, <1>2, <1>5 DEF Last
  <1>7. after # <<>> => Head(after) = line[k + 1] /\ k < l
    <2>1. ASSUME after # <<>> PROVE Head(after) = after[1] /\ k < l
      BY <2>1, <1>1, <1>3, EmptyIs, LineIs
    <2> QED
      BY <2>1, <1>1, <1>3
  <1>8. meets <=> k < l /\ line[k + 1].lo = n + 1
    BY <1>1, <1>3, <1>7, EmptyIs
  <1>9. /\ IsRcLine(p) /\ Len(p) = a
        /\ \A i \in 1 .. a : p[i] = line[i]
    <2>1. CASE joins
      <3>1. /\ k - 1 \in 0 .. Len(before) /\ 1 \in 1 .. Len(before) + 1
            /\ 1 <= (k - 1) + 1
        BY <1>1, <1>2, <1>5, <2>1
      <3>2. p = SubSeq(before, 1, k - 1)
        BY <1>2, <2>1 DEF Front
      <3>9. a = k - 1
        BY <2>1
      <3> HIDE DEF p, k, before, joins, a
      <3>3. /\ IsRcLine(p)
            /\ Len(p) = (k - 1) - 1 + 1
            /\ \A i \in 1 .. Len(p) : p[i] = before[1 + i - 1]
        BY <3>1, <3>2, <1>2, PartOf
      <3>4. Len(p) = a
        BY <3>3, <3>9, <1>1
      <3>5. ASSUME NEW i \in 1 .. a PROVE p[i] = line[i]
        <4>1. i \in 1 .. k /\ i \in 1 .. Len(p) /\ 1 + i - 1 = i
          BY <3>4, <3>9, <1>1
        <4>2. before[i] = line[i]
          BY <4>1, <1>2
        <4>3. p[i] = before[1 + i - 1]
          BY <4>1, <3>3
        <4> QED
          BY <4>1, <4>2, <4>3
      <3> QED
        BY <3>3, <3>4, <3>5
    <2>2. CASE ~joins
      BY <1>2, <2>2
    <2> QED
      BY <2>1, <2>2
  <1>10. /\ IsRcLine(q) /\ Len(q) = l - b + 1
         /\ \A i \in 1 .. Len(q) : q[i] = line[b + i - 1]
    <2>1. CASE meets
      <3>1. /\ Len(after) \in 0 .. Len(after) /\ 2 \in 1 .. Len(after) + 1
            /\ 2 <= Len(after) + 1
        BY <1>1, <1>3, <1>8, <2>1
      <3>2. q = SubSeq(after, 2, Len(after))
        BY <1>3, <2>1, LineIs, TailIsSubSeq
      <3>9. b = k + 2
        BY <2>1
      <3> HIDE DEF q, k, after, meets, b
      <3>3. /\ IsRcLine(q)
            /\ Len(q) = Len(after) - 2 + 1
            /\ \A i \in 1 .. Len(q) : q[i] = after[2 + i - 1]
        BY <3>1, <3>2, <1>3, PartOf
      <3>4. Len(q) = l - k - 1
        BY <3>3, <1>1, <1>3, <1>8, <2>1
      <3>5. ASSUME NEW i \in 1 .. Len(q) PROVE q[i] = line[b + i - 1]
        <4>1. i \in Nat /\ 1 <= i /\ i <= l - k - 1
          BY <3>4, <1>1
        <4>2. 2 + i - 1 \in 1 .. l - k
          BY <4>1, <1>1
        <4>3. k + (2 + i - 1) = b + i - 1
          BY <4>1, <3>9, <1>1
        <4>4. q[i] = after[2 + i - 1] /\ after[2 + i - 1] = line[k + (2 + i - 1)]
          BY <4>2, <3>3, <1>3
        <4> QED
          BY <4>3, <4>4
      <3>6. Len(q) = l - b + 1
        BY <3>4, <3>9, <1>1
      <3> QED
        BY <3>3, <3>5, <3>6
    <2>2. CASE ~meets
      BY <1>1, <1>3, <2>2
    <2> QED
      BY <2>1, <2>2
  <1>11. /\ entry.lo = IF joins THEN line[k].lo ELSE n
         /\ entry.hi = IF meets THEN line[k + 1].hi ELSE n
         /\ entry.rng = (joins \/ meets)
    BY <1>6, <1>7
  <1>12. Insert(before, n, after) = p \o <<entry>> \o q
    BY DEF Insert
  <1>13. a \in 0 .. l /\ b \in a + 1 .. l + 1
    BY <1>1, <1>5, <1>8
  <1>14. entry = [lo |-> entry.lo, hi |-> entry.hi, rng |-> entry.rng]
    OBVIOUS
  <1> HIDE DEF k, before, after, joins, meets, entry, p, q
  <1>15. /\ entry.lo \in Nat \ {0} /\ entry.hi \in Nat
         /\ entry.lo <= n /\ n <= entry.hi
         /\ ~entry.rng => entry.lo = entry.hi
    <2>1. joins => k \in 1 .. k /\ k \in 1 .. l
      BY <1>1, <1>5
    <2>2. meets => k + 1 \in (k + 1) .. l /\ k + 1 \in 1 .. l
      BY <1>1, <1>8
    <2>3. entry.lo \in Nat \ {0} /\ entry.lo <= n
      BY <1>4, <1>11, <2>1
    <2>4. entry.hi \in Nat /\ n <= entry.hi
      BY <1>4, <1>11, <2>2
    <2> QED
      BY <1>11, <2>3, <2>4
  <1>16. IsEntry(entry)
    <2>1. entry.rng \in BOOLEAN
      BY <1>11
    <2>2. entry \in Entries
      BY <1>14, <1>15, <2>1 DEF Entries
    <2> QED
      BY <1>15, <2>2 DEF IsEntry
  <1>17. ASSUME NEW i \in 1 .. a PROVE line[i].hi < entry.lo
    <2>1. i \in 1 .. k /\ i \in 1 .. l
      BY <1>1, <1>13
    <2>2. CASE joins
      <3>1. i < k /\ k \in 1 .. l
        BY <1>1, <1>5, <2>2
      <3> QED
        BY <3>1, <2>1, <2>2, <1>11, LineIs
    <2>3. CASE ~joins
      BY <2>1, <2>3, <1>4, <1>11
    <2> QED
      BY <2>2, <2>3
  <1>18. ASSUME NEW j \in b .. l PROVE entry.hi < line[j].lo
    <2>1. j \in (k + 1) .. l /\ j \in 1 .. l
      BY <1>1, <1>13
    <2>2. CASE meets
      <3>1. k + 1 < j /\ k + 1 \in 1 .. l
        BY <1>1, <1>8, <2>2
      <3> QED
        BY <3>1, <2>1, <2>2, <1>11, LineIs
    <2>3. CASE ~meets
      BY <2>1, <2>3, <1>4, <1>11
    <2> QED
      BY <2>2, <2>3
  <1> DEFINE m == <<entry>>
             r == p \o m \o q
  <1>19. /\ IsRcLine(m) /\ Len(m) = 1 /\ m[1] = entry /\ Range(m) = {entry}
    BY <1>16, OneEntry
  <1>20. /\ IsRcLine(r)
         /\ \A e : e \in Range(r) <=>
                     \/ e \in Range(m)
                     \/ \E i \in 1 .. Len(line) : (i <= a \/ b <= i) /\ e = line[i]
    <2>1. \A i \in 1 .. a, j \in 1 .. Len(m) : line[i].hi < m[j].lo
      BY <1>17, <1>19
    <2>2. \A i \in 1 .. Len(m), j \in b .. Len(line) : m[i].hi < line[j].lo
      BY <1>18, <1>19
    <2> HIDE DEF m, a, b, l
    <2>3. /\ Len(q) = Len(line) - b + 1
          /\ a \in 0 .. Len(line) /\ b \in a + 1 .. Len(line) + 1
      BY <1>10, <1>13 DEF l
    <2>4. IsFront(p, line, a) /\ IsBack(q, line, b)
      BY <1>9, <1>10 DEF IsFront, IsBack, l
    <2>5. IsSplice(p \o m \o q, line, a, b, m)
      BY <1>19, <2>1, <2>2, <2>3, <2>4, SplicedIs
    <2>6. \A i : i \in (1 .. a) \cup (b .. Len(line)) <=>
                  i \in 1 .. Len(line) /\ (i <= a \/ b <= i)
      BY <2>3, <1>1 DEF l
    <2> QED
      BY <2>5, <2>6 DEF Outside, IsSplice
  <1> HIDE DEF m, r
  <1>21. \A i \in 1 .. l : \/ i <= a
                           \/ b <= i
                           \/ joins /\ i = k
                           \/ meets /\ i = k + 1
    BY <1>1
  <1>22. \A x : x \in Denotes(r) <=> x \in Denotes(line) \cup {n}
    <2>1. ASSUME NEW x \in Denotes(r) PROVE x \in Denotes(line) \cup {n}
      <3>1. PICK e \in Range(r) : x \in e.lo .. e.hi
        BY <2>1, DenotesBy
      <3>2. CASE \E i \in 1 .. l : e = line[i]
        BY <3>1, <3>2, DenotesIs
      <3>3. CASE e = entry
        <4>1. x \in Nat
          BY <3>1, <3>3, <1>15
        <4>2. CASE x < n
          <5>1. joins /\ k \in 1 .. l /\ x \in line[k].lo .. line[k].hi
            BY <3>1, <3>3, <4>1, <4>2, <1>1, <1>4, <1>5, <1>11
          <5> QED
            BY <5>1, DenotesIs
        <4>3. CASE x > n
          <5>1. meets /\ k + 1 \in 1 .. l /\ x \in line[k + 1].lo .. line[k + 1].hi
            BY <3>1, <3>3, <4>1, <4>3, <1>1, <1>4, <1>8, <1>11, <1>15
          <5> QED
            BY <5>1, DenotesIs
        <4> QED
          BY <4>1, <4>2, <4>3
      <3> QED
        BY <3>2, <3>3, <1>19, <1>20
    <2>2. n \in Denotes(r)
      <3>1. entry \in Range(r) /\ n \in entry.lo .. entry.hi
        BY <1>15, <1>19, <1>20
      <3> QED
        BY <3>1, DenotesBy
    <2>3. ASSUME NEW x \in Denotes(line) PROVE x \in Denotes(r)
      <3>1. PICK i \in 1 .. l : x \in line[i].lo .. line[i].hi
        BY <2>3, DenotesIs
      <3>2. CASE i <= a \/ b <= i
        <4>1. line[i] \in Range(r)
          BY <1>20, <3>2
        <4> QED
          BY <4>1, <3>1, DenotesBy
      <3>3. CASE (joins /\ i = k) \/ (meets /\ i = k + 1)
        <4>1. x \in entry.lo .. entry.hi
          <5>1. CASE joins /\ i = k
            BY <3>1, <5>1, <1>4, <1>5, <1>11, <1>15
          <5>2. CASE meets /\ i = k + 1
            BY <3>1, <5>2, <1>4, <1>8, <1>11, <1>15
          <5> QED
            BY <3>3, <5>1, <5>2
        <4> QED
          BY <4>1, <1>19, <1>20, DenotesBy
      <3> QED
        BY <3>2, <3>3, <1>21
    <2> QED
      BY <2>1, <2>2, <2>3
  <1>23. Within(r, line, n)
    <2>1. DOMAIN line = 1 .. l /\ \A i \in 1 .. l : line[i] \in Range(line)
      BY LineIs DEF Range
    <2>2. ASSUME NEW e \in Range(r)
          PROVE  e.hi <= n \/ \E f \in Range(line) : e.hi <= f.hi
      <3>1. CASE \E i \in 1 .. l : e = line[i]
        BY <3>1, <2>1, <1>4
      <3>2. CASE e = entry
        <4>1. CASE meets
          BY <4>1, <3>2, <2>1, <1>1, <1>4, <1>8, <1>11
        <4>2. CASE ~meets
          BY <4>2, <3>2, <1>11
        <4> QED
          BY <4>1, <4>2
      <3> QED
        BY <3>1, <3>2, <1>19, <1>20
    <2>3. ASSUME NEW f \in Range(line), f.hi = 0 PROVE f \in Range(r)
      <3>1. PICK i \in 1 .. l : f = line[i]
        BY <2>1 DEF Range
      <3>2. ~(joins /\ i = k) /\ ~(meets /\ i = k + 1)
        BY <3>1, <2>3, <1>1, <1>4, <1>5, <1>8
      <3> QED
        BY <3>1, <3>2, <1>20, <1>21
    <2> QED
      BY <2>2, <2>3 DEF Within
  <1>24. Denotes(r) = Denotes(line) \cup {n}
    BY <1>22, Zenon
  <1>25. Insert(Before(line, n), n, After(line, n)) = r
    BY <1>12 DEF r, m, before, after
  <1> QED
    BY <1>20, <1>23, <1>24, <1>25
LEMMA WithinItself ==
  ASSUME NEW line, IsRcLine(line), NEW n
  PROVE  Within(line, line, n)
  <1>1. \A f \in Range(line) : f.hi \in Nat
    BY LineIs DEF Range
  <1> QED
    BY <1>1 DEF Within

\* A number glued to "1-0" makes a line of it, though not the right one.
LEMMA GluedIs ==
  ASSUME NEW line, IsRcLine(line), NEW n \in Nat \ {0}, Glues(line, n)
  PROVE  LET r == Append(Front(line), Span(Last(line).lo, n)) IN
         /\ IsRcLine(r)
         /\ \A e \in Range(r) : e.hi <= n \/ \E f \in Range(line) : e.hi <= f.hi
  <1> DEFINE l == Len(line)
             e == Span(Last(line).lo, n)
             front == Front(line)
             r == front \o <<e>>
  <1>1. l \in Nat /\ l > 0 /\ DOMAIN line = 1 .. l
    BY EmptyIs, LineIs DEF Glues
  <1>2. line[l].hi = 0 /\ line[l].lo = 1
    <2>1. l \in 1 .. l /\ line[l].hi = 0
      BY <1>1 DEF Glues, Last
    <2> QED
      BY <2>1, LineIs
  <1>3. e = [lo |-> 1, hi |-> n, rng |-> TRUE]
    BY <1>2 DEF Last, Span
  <1>4. IsEntry(e)
    BY <1>3 DEF IsEntry, Entries
  <1>5. front = SubSeq(line, 1, l - 1)
    BY DEF Front
  <1> HIDE DEF front
  <1>6. l - 1 \in 0 .. l /\ 1 \in 1 .. l + 1 /\ 1 <= (l - 1) + 1
    BY <1>1
  <1>7. /\ IsRcLine(front)
        /\ Len(front) = (l - 1) - 1 + 1
        /\ \A i \in 1 .. Len(front) : front[i] = line[1 + i - 1]
    <2> DEFINE a == 1
               b == l - 1
    <2>0. a \in 1 .. Len(line) + 1 /\ b \in 0 .. Len(line) /\ a <= b + 1
      BY <1>6
    <2> HIDE DEF a, b
    <2>1. /\ IsRcLine(SubSeq(line, a, b))
          /\ Len(SubSeq(line, a, b)) = b - a + 1
          /\ \A i \in 1 .. Len(SubSeq(line, a, b)) :
               SubSeq(line, a, b)[i] = line[a + i - 1]
      BY <2>0, PartOf
    <2> USE DEF a, b
    <2> QED
      BY <2>1, <1>5
  <1>8. /\ IsRcLine(<<e>>) /\ Range(<<e>>) = {e}
        /\ Len(<<e>>) = 1 /\ <<e>>[1] = e
    BY <1>4, OneEntry
  <1> HIDE DEF e
  <1>9. \A i \in 1 .. Len(front) : i \in 1 .. l /\ i < l /\ front[i] = line[i]
    <2>1. Len(front) = l - 1
      BY <1>1, <1>7
    <2>2. \A i \in 1 .. Len(front) : i \in 1 .. l /\ i < l /\ 1 + i - 1 = i
      BY <1>1, <2>1
    <2> QED
      BY <1>7, <2>2
  <1>10. \A i \in 1 .. Len(front), j \in 1 .. Len(<<e>>) : front[i].hi < <<e>>[j].lo
    <2>1. \A i \in 1 .. Len(front) : line[i].hi < line[l].lo
      BY <1>1, <1>9, LineIs
    <2>2. e.lo = 1
      BY <1>3
    <2> QED
      BY <1>2, <1>8, <1>9, <2>1, <2>2
  <1>11. IsRcLine(r) /\ Range(r) = Range(front) \cup {e}
    BY <1>7, <1>8, <1>10, JoinedIs
  <1>12. Append(front, e) = r
    <2>1. front \in Seq(Entries) /\ e \in Entries
      BY <1>4, <1>7, LineIs DEF IsEntry
    <2> QED
      BY <2>1, AppendIsConcat
  <1>13. ASSUME NEW f \in Range(front)
         PROVE  \E g \in Range(line) : f.hi <= g.hi
    <2>1. PICK i \in 1 .. Len(front) : f = front[i]
      BY <1>7, LineIs DEF Range
    <2>2. line[i] \in Range(line) /\ line[i].hi \in Nat /\ f = line[i]
      BY <2>1, <1>1, <1>9, LineIs DEF Range
    <2> QED
      BY <2>2
  <1>14. e.hi = n
    BY <1>3
  <1> QED
    BY <1>11, <1>12, <1>13, <1>14 DEF e, front

LEMMA AddIs ==
  ASSUME NEW line, IsRcLine(line), NEW n \in Nat \ {0}
  PROVE  LET r == AddArtNum(line, n) IN
         /\ IsRcLine(r)
         /\ \A e \in Range(r) : e.hi <= n \/ \E f \in Range(line) : e.hi <= f.hi
         /\ n \in Denotes(line) \/ ~Glues(line, n) =>
              Denotes(r) = Denotes(line) \cup {n} /\ Within(r, line, n)
  <1>1. CASE n \in Denotes(line)
    <2>1. AddArtNum(line, n) = line /\ Denotes(line) = Denotes(line) \cup {n}
      BY <1>1 DEF AddArtNum
    <2> QED
      BY <2>1, WithinItself DEF Within
  <1>2. CASE n \notin Denotes(line) /\ Glues(line, n)
    <2>1. AddArtNum(line, n) = Append(Front(line), Span(Last(line).lo, n))
      BY <1>2 DEF AddArtNum
    <2> QED
      BY <1>2, <2>1, GluedIs
  <1>3. CASE n \notin Denotes(line) /\ ~Glues(line, n)
    <2>1. AddArtNum(line, n) = Insert(Before(line, n), n, After(line, n))
      BY <1>3 DEF AddArtNum
    <2> QED
      BY <1>3, <2>1, InsertIs DEF Within
  <1> QED
    BY <1>1, <1>2, <1>3

-------------------------------------------------------------------------------
(* sub_art_num.                                                            *)

LEMMA SpanIs ==
  ASSUME NEW a \in Nat \ {0}, NEW b \in Nat, a <= b + 1
  PROVE  /\ IsEntry(Span(a, b))
         /\ Span(a, b).lo = a /\ Span(a, b).hi = b
  BY DEF Span, IsEntry, Entries

LEMMA SingleIs ==
  ASSUME NEW a \in Nat \ {0}
  PROVE  /\ IsEntry(Single(a))
         /\ Single(a).lo = a /\ Single(a).hi = a
  BY DEF Single, IsEntry, Entries

LEMMA WithoutNumIs ==
  ASSUME NEW e, IsEntry(e), NEW n \in e.lo .. e.hi
  PROVE  LET m == WithoutNum(e, n) IN
         /\ IsRcLine(m)
         /\ Denotes(m) = (e.lo .. e.hi) \ {n}
         /\ \A i \in 1 .. Len(m) : e.lo <= m[i].lo /\ m[i].hi <= e.hi
  <1> DEFINE m == WithoutNum(e, n)
             a == IF n = e.lo THEN n + 1 ELSE e.lo
             b == IF n # e.lo /\ n = e.hi THEN n - 1 ELSE e.hi
  <1>1. /\ e.lo \in Nat \ {0} /\ e.hi \in Nat /\ n \in Nat
        /\ e.lo <= n /\ n <= e.hi /\ (~e.rng => e.lo = e.hi)
    BY DEF IsEntry, Entries
  <1>2. CASE ~e.rng
    <2>1. m = <<>> /\ (e.lo .. e.hi) \ {n} = {}
      BY <1>1, <1>2 DEF WithoutNum
    <2>2. \A i \in 1 .. Len(<<>>) : FALSE
      BY EmptySeq
    <2> QED
      BY <2>1, <2>2, EmptyLine, Zenon
  <1>3. CASE e.rng /\ n \notin {e.lo, e.hi}
    <2> DEFINE d == Span(e.lo, n - 1)
               f == Span(n + 1, e.hi)
    <2>1. m = <<d, f>> /\ <<d, f>> = <<d>> \o <<f>>
      BY <1>3 DEF WithoutNum
    <2>2. IsEntry(d) /\ IsEntry(f) /\ d.lo = e.lo /\ d.hi = n - 1
          /\ f.lo = n + 1 /\ f.hi = e.hi
      BY <1>1, <1>3, SpanIs
    <2> HIDE DEF d, f
    <2>3. /\ IsRcLine(<<d>>) /\ Denotes(<<d>>) = d.lo .. d.hi
          /\ Len(<<d>>) = 1 /\ <<d>>[1] = d
          /\ IsRcLine(<<f>>) /\ Denotes(<<f>>) = f.lo .. f.hi
          /\ Len(<<f>>) = 1 /\ <<f>>[1] = f
      BY <2>2, OneEntry
    <2>4. \A i \in 1 .. Len(<<d>>), j \in 1 .. Len(<<f>>) :
             <<d>>[i].hi < <<f>>[j].lo
      BY <1>1, <2>2, <2>3
    <2>8. /\ IsRcLine(<<d>> \o <<f>>)
          /\ Denotes(<<d>> \o <<f>>) = Denotes(<<d>>) \cup Denotes(<<f>>)
      BY <2>3, <2>4, JoinedIs
    <2> HIDE DEF m
    <2>5. IsRcLine(m) /\ Denotes(m) = (d.lo .. d.hi) \cup (f.lo .. f.hi)
      BY <2>1, <2>3, <2>8
    <2>6. (d.lo .. d.hi) \cup (f.lo .. f.hi) = (e.lo .. e.hi) \ {n}
      BY <1>1, <2>2
    <2>7. \A i \in 1 .. Len(<<d, f>>) :
             e.lo <= <<d, f>>[i].lo /\ <<d, f>>[i].hi <= e.hi
      BY <1>1, <2>2
    <2> QED
      BY <2>1, <2>5, <2>6, <2>7 DEF m
  <1>4. CASE e.rng /\ n \in {e.lo, e.hi}
    <2> DEFINE f == IF a = b THEN Single(a) ELSE Span(a, b)
    <2>1. m = <<f>>
      BY <1>4 DEF WithoutNum
    <2>2. /\ a \in Nat \ {0} /\ b \in Nat /\ a <= b + 1
          /\ e.lo <= a /\ b <= e.hi
          /\ a .. b = (e.lo .. e.hi) \ {n}
      BY <1>1, <1>4
    <2> HIDE DEF a, b
    <2>3. IsEntry(f) /\ f.lo = a /\ f.hi = b
      BY <2>2, SpanIs, SingleIs
    <2> HIDE DEF f
    <2>4. /\ IsRcLine(<<f>>) /\ Denotes(<<f>>) = f.lo .. f.hi
          /\ Len(<<f>>) = 1 /\ <<f>>[1] = f
      BY <2>3, OneEntry
    <2> HIDE DEF m
    <2> QED
      BY <2>1, <2>2, <2>3, <2>4 DEF m
  <1> QED
    BY <1>2, <1>3, <1>4

LEMMA SubIs ==
  ASSUME NEW line, IsRcLine(line), NEW n
  PROVE  LET r == SubArtNum(line, n) IN
         /\ IsRcLine(r)
         /\ Denotes(r) = Denotes(line) \ {n}
         /\ Within(r, line, n)
  <1> DEFINE l == Len(line)
             Covers(i) == n \in line[i].lo .. line[i].hi
             k == CHOOSE i \in DOMAIN line : Covers(i)
             p == SubSeq(line, 1, k - 1)
             m == WithoutNum(line[k], n)
             q == SubSeq(line, k + 1, l)
             r == p \o m \o q
  <1>1. /\ l \in Nat /\ DOMAIN line = 1 .. l
        /\ \A i \in 1 .. l : /\ line[i].lo \in Nat \ {0}
                             /\ line[i].hi \in Nat
                             /\ IsEntry(line[i])
    BY LineIs
  <1>2. CASE n \notin Denotes(line)
    <2>1. SubArtNum(line, n) = line /\ Denotes(line) = Denotes(line) \ {n}
      BY <1>2 DEF SubArtNum
    <2> QED
      BY <2>1, WithinItself
  <1>3. CASE n \in Denotes(line)
    <2>1. \E i \in 1 .. l : Covers(i)
      BY <1>3, DenotesIs
    <2>2. k \in 1 .. l /\ n \in line[k].lo .. line[k].hi
      BY <1>1, <2>1
    <2>3. SubArtNum(line, n) = r
      BY <1>3 DEF SubArtNum
    <2> HIDE DEF k
    <2>4. n \in Nat \ {0} /\ line[k].lo <= n /\ n <= line[k].hi
      BY <1>1, <2>2
    <2>5. /\ IsRcLine(m)
          /\ Denotes(m) = (line[k].lo .. line[k].hi) \ {n}
          /\ \A i \in 1 .. Len(m) : line[k].lo <= m[i].lo /\ m[i].hi <= line[k].hi
      BY <1>1, <2>2, WithoutNumIs
    <2>6. k - 1 \in 0 .. l /\ k + 1 \in (k - 1) + 1 .. l + 1
      BY <1>1, <2>2
    <2>7. IsFront(p, line, k - 1)
      <3>1. 1 \in 1 .. l + 1 /\ 1 <= (k - 1) + 1
        BY <1>1, <2>2
      <3>2. /\ IsRcLine(p) /\ Len(p) = (k - 1) - 1 + 1
            /\ \A i \in 1 .. Len(p) : p[i] = line[1 + i - 1]
        BY <3>1, <2>6, PartOf
      <3> HIDE DEF p
      <3> QED
        <4>1. Len(p) = k - 1
          BY <3>2, <1>1, <2>2
        <4>2. \A i \in 1 .. k - 1 : p[i] = line[i]
          BY <3>2, <4>1, <1>1, <2>2
        <4> QED
          BY <3>2, <4>1, <4>2 DEF IsFront
    <2>8. IsBack(q, line, k + 1)
      <3>1. k + 1 \in 1 .. l + 1 /\ l \in 0 .. l /\ k + 1 <= l + 1
        BY <1>1, <2>2
      <3>2. /\ IsRcLine(q) /\ Len(q) = l - (k + 1) + 1
            /\ \A i \in 1 .. Len(q) : q[i] = line[(k + 1) + i - 1]
        BY <3>1, PartOf
      <3> HIDE DEF q
      <3>3. Len(q) = l - (k + 1) + 1
        BY <3>2, <1>1, <2>2
      <3> QED
        BY <3>2, <3>3 DEF IsBack
    <2> HIDE DEF p, q, m
    <2>9. \A i \in 1 .. l : /\ i < k => line[i].hi < line[k].lo
                            /\ k < i => line[k].hi < line[i].lo
      BY <2>2, LineIs
    <2>10. Len(m) \in Nat /\ \A i \in 1 .. Len(m) : m[i].lo \in Nat /\ m[i].hi \in Nat
      BY <2>5, LineIs
    <2>11. \A i \in 1 .. k - 1, j \in 1 .. Len(m) : line[i].hi < m[j].lo
      <3>1. \A i \in 1 .. k - 1 : i \in 1 .. l /\ i < k
        BY <1>1, <2>2
      <3> QED
        BY <3>1, <1>1, <2>2, <2>5, <2>9, <2>10
    <2>12. \A i \in 1 .. Len(m), j \in k + 1 .. l : m[i].hi < line[j].lo
      <3>1. \A j \in k + 1 .. l : j \in 1 .. l /\ k < j
        BY <1>1, <2>2
      <3> QED
        BY <3>1, <1>1, <2>2, <2>5, <2>9, <2>10
    <2>13. IsSplice(r, line, k - 1, k + 1, m)
      BY <2>5, <2>6, <2>7, <2>8, <2>11, <2>12, SplicedIs
    <2> HIDE DEF r
    <2>14. /\ IsRcLine(r)
           /\ \A e : e \in Range(r) <=>
                       e \in Range(m) \/ \E i \in 1 .. l : i # k /\ e = line[i]
      <3>1. \A i : i \in (1 .. k - 1) \cup (k + 1 .. l) <=> i \in 1 .. l /\ i # k
        BY <1>1, <2>2
      <3> QED
        BY <2>13, <3>1 DEF IsSplice, Outside
    <2>15. \A x : x \in Denotes(r) <=> x \in Denotes(line) /\ x # n
      <3>1. ASSUME NEW x \in Denotes(r) PROVE x \in Denotes(line) /\ x # n
        <4>1. PICK e \in Range(r) : x \in e.lo .. e.hi
          BY <3>1, DenotesBy
        <4>2. CASE e \in Range(m)
          <5>1. x \in Denotes(m)
            BY <4>1, <4>2, DenotesBy
          <5> QED
            BY <5>1, <2>2, <2>5, DenotesIs
        <4>3. CASE \E i \in 1 .. l : i # k /\ e = line[i]
          <5>1. PICK i \in 1 .. l : i # k /\ e = line[i]
            BY <4>3
          <5>2. x # n
            BY <4>1, <5>1, <1>1, <2>2, <2>4, <2>9
          <5> QED
            BY <4>1, <5>1, <5>2, DenotesIs
        <4> QED
          BY <4>1, <4>2, <4>3, <2>14
      <3>2. ASSUME NEW x \in Denotes(line), x # n PROVE x \in Denotes(r)
        <4>1. PICK i \in 1 .. l : x \in line[i].lo .. line[i].hi
          BY DenotesIs
        <4>2. CASE i = k
          <5>1. x \in Denotes(m)
            BY <4>1, <4>2, <3>2, <2>5
          <5>2. PICK e \in Range(m) : x \in e.lo .. e.hi
            BY <5>1, DenotesBy
          <5> QED
            BY <5>2, <2>14, DenotesBy
        <4>3. CASE i # k
          <5>1. line[i] \in Range(r)
            BY <4>3, <2>14
          <5> QED
            BY <4>1, <5>1, DenotesBy
        <4> QED
          BY <4>2, <4>3
      <3> QED
        BY <3>1, <3>2
    <2>16. Denotes(r) = Denotes(line) \ {n}
      BY <2>15
    <2>17. Within(r, line, n)
      <3>1. ASSUME NEW e \in Range(r)
            PROVE  e.hi <= n \/ \E f \in Range(line) : e.hi <= f.hi
        <4>1. CASE e \in Range(m)
          <5>1. PICK i \in 1 .. Len(m) : e = m[i]
            BY <4>1, <2>5, LineIs DEF Range
          <5>2. line[k] \in Range(line)
            BY <1>1, <2>2 DEF Range
          <5> QED
            BY <5>1, <5>2, <2>5
        <4>2. CASE \E i \in 1 .. l : i # k /\ e = line[i]
          <5>1. e \in Range(line) /\ e.hi \in Nat
            BY <4>2, <1>1 DEF Range
          <5> QED
            BY <5>1
        <4> QED
          BY <4>1, <4>2, <2>14
      <3>2. ASSUME NEW f \in Range(line), f.hi = 0 PROVE f \in Range(r)
        <4>1. PICK i \in 1 .. l : f = line[i]
          BY <1>1 DEF Range
        <4>2. i # k
          BY <4>1, <3>2, <1>1, <2>2, <2>4
        <4> QED
          BY <4>1, <4>2, <2>14
      <3> QED
        BY <3>1, <3>2 DEF Within
    <2> QED
      BY <2>3, <2>14, <2>16, <2>17
  <1> QED
    BY <1>2, <1>3
-------------------------------------------------------------------------------
(* check_expired.                                                          *)

LEMMA CheckExpiredIs ==
  ASSUME NEW line, IsRcLine(line), NEW first \in Nat
  PROVE  LET r == CheckExpired(line, first) IN
         /\ IsRcLine(r)
         /\ Denotes(r) = Denotes(line) \cup (1 .. first - 1)
         /\ \A e \in Range(r) : e.hi <= first - 1 \/ \E f \in Range(line) : e.hi <= f.hi
  <1> DEFINE k == Leading(line, first)
             l == Len(line)
             before == Before(line, first)
             after == After(line, first)
             e == Stretched(before, first)
             h == IF k # 0 /\ line[k].hi >= first THEN line[k].hi ELSE first - 1
             r == <<e>> \o after
  <1>1. /\ l \in Nat /\ DOMAIN line = 1 .. l
        /\ \A i \in 1 .. l : /\ line[i].lo \in Nat \ {0}
                             /\ line[i].hi \in Nat
                             /\ IsEntry(line[i])
                             /\ line[i] \in Range(line)
    BY LineIs DEF Range
  <1>2. CASE first <= 1
    <2>1. CheckExpired(line, first) = line /\ 1 .. first - 1 = {}
      BY <1>2 DEF CheckExpired
    <2>2. Denotes(line) = Denotes(line) \cup {}
      OBVIOUS
    <2>3. \A f \in Range(line) : f.hi \in Nat
      BY <1>1 DEF Range
    <2> QED
      BY <2>1, <2>2, <2>3
  <1>3. CASE first > 1
    <2>1. /\ k \in 0 .. l
          /\ \A i \in 1 .. l : line[i].lo <= first <=> i <= k
      BY LeadingIs
    <2>2. /\ IsRcLine(before) /\ Len(before) = k
          /\ \A i \in 1 .. k : before[i] = line[i]
      BY BeforeIs
    <2>3. /\ IsRcLine(after) /\ Len(after) = l - k
          /\ \A i \in 1 .. l - k : after[i] = line[k + i]
      BY AfterIs
    <2>4. CheckExpired(line, first) = r
      BY <1>3 DEF CheckExpired
    <2>5. before # <<>> <=> k # 0
      BY <2>2, EmptyIs
    <2>6. k # 0 => Last(before) = line[k] /\ k \in 1 .. l
      BY <2>1, <2>2, <1>1 DEF Last
    <2>7. k # 0 => /\ line[k].lo <= first
                   /\ ~line[k].rng => line[k].hi <= first
      BY <2>1, <2>6, <1>1 DEF IsEntry
    <2>8. h \in Nat /\ 1 <= h + 1 /\ first - 1 <= h
      BY <1>1, <1>3, <2>6
    <2>9. e = Span(1, h)
      <3>1. CASE k = 0
        BY <2>5, <3>1 DEF Stretched
      <3>2. CASE k # 0
        BY <2>5, <2>6, <2>7, <3>2, <1>1 DEF Stretched
      <3> QED
        BY <3>1, <3>2
    <2> HIDE DEF k, before, after, e, h
    <2>10. IsEntry(e) /\ e.lo = 1 /\ e.hi = h
      BY <2>8, <2>9, SpanIs
    <2>11. /\ IsRcLine(<<e>>) /\ Range(<<e>>) = {e}
           /\ Len(<<e>>) = 1 /\ <<e>>[1] = e
      BY <2>10, OneEntry
    <2>12. ASSUME NEW i \in 1 .. l - k PROVE h < line[k + i].lo
      <3>1. k + i \in 1 .. l /\ k < k + i /\ ~(k + i <= k)
        BY <1>1, <2>1
      <3>2. first < line[k + i].lo
        BY <2>1, <3>1, <1>1
      <3>3. CASE k # 0 /\ line[k].hi >= first
        BY <2>6, <3>1, <3>3, LineIs DEF h
      <3>4. CASE ~(k # 0 /\ line[k].hi >= first)
        BY <3>1, <3>2, <3>4, <1>1 DEF h
      <3> QED
        BY <3>3, <3>4
    <2>13. \A i \in 1 .. Len(<<e>>), j \in 1 .. Len(after) : <<e>>[i].hi < after[j].lo
      BY <2>3, <2>10, <2>11, <2>12
    <2>14. IsRcLine(r) /\ Range(r) = {e} \cup Range(after)
      BY <2>3, <2>11, <2>13, JoinedIs
    <2>15. \A f : f \in Range(after) <=> \E i \in 1 .. l : k < i /\ f = line[i]
      <3>1. ASSUME NEW f \in Range(after) PROVE \E i \in 1 .. l : k < i /\ f = line[i]
        <4>1. PICK i \in 1 .. l - k : f = after[i]
          BY <2>3, LineIs DEF Range
        <4>2. k + i \in 1 .. l /\ k < k + i
          BY <1>1, <2>1
        <4> QED
          BY <4>1, <4>2, <2>3
      <3>2. ASSUME NEW i \in 1 .. l, k < i PROVE line[i] \in Range(after)
        <4>1. i - k \in 1 .. l - k /\ k + (i - k) = i
          BY <1>1, <2>1, <3>2
        <4>2. DOMAIN after = 1 .. l - k
          BY <2>3, LineIs
        <4> QED
          BY <4>1, <4>2, <2>3 DEF Range
      <3> QED
        BY <3>1, <3>2
    <2> HIDE DEF r
    <2>16. \A x : x \in Denotes(r) <=> x \in Denotes(line) \cup (1 .. first - 1)
      <3>1. ASSUME NEW x \in Denotes(r)
            PROVE  x \in Denotes(line) \cup (1 .. first - 1)
        <4>1. PICK f \in Range(r) : x \in f.lo .. f.hi
          BY <3>1, DenotesBy
        <4>2. CASE f = e /\ x >= first
          <5>1. k # 0 /\ x \in line[k].lo .. line[k].hi
            BY <4>1, <4>2, <2>6, <2>7, <2>10, <1>1 DEF h
          <5> QED
            BY <5>1, <2>6, DenotesIs
        <4>3. CASE f = e /\ x < first
          BY <4>1, <4>3, <2>10
        <4>4. CASE f \in Range(after)
          BY <4>1, <4>4, <2>15, DenotesIs
        <4> QED
          BY <4>1, <4>2, <4>3, <4>4, <2>10, <2>14, <2>8
      <3>2. ASSUME NEW x \in 1 .. first - 1 PROVE x \in Denotes(r)
        <4>1. x \in e.lo .. e.hi /\ e \in Range(r)
          BY <2>8, <2>10, <2>14
        <4> QED
          BY <4>1, DenotesBy
      <3>3. ASSUME NEW x \in Denotes(line) PROVE x \in Denotes(r)
        <4>1. PICK i \in 1 .. l : x \in line[i].lo .. line[i].hi
          BY DenotesIs
        <4>2. CASE k < i
          <5>1. line[i] \in Range(r)
            BY <4>2, <2>14, <2>15
          <5> QED
            BY <4>1, <5>1, DenotesBy
        <4>3. CASE i <= k
          <5>1. k # 0 /\ line[i].hi <= line[k].hi
            <6>1. k # 0 /\ k \in 1 .. l
              BY <4>3, <2>1, <2>6
            <6>2. CASE i = k
              BY <6>1, <6>2, <1>1
            <6>3. CASE i # k
              <7>1. line[i].hi < line[k].lo /\ line[k].lo <= line[k].hi + 1
                BY <6>1, <6>3, <4>3, <2>1, LineIs
              <7> QED
                BY <7>1, <6>1, <1>1
            <6> QED
              BY <6>2, <6>3
          <5>2. x \in 1 .. h
            BY <5>1, <4>1, <2>6, <2>8, <1>1 DEF h
          <5>3. x \in e.lo .. e.hi /\ e \in Range(r)
            BY <5>2, <2>10, <2>14
          <5> QED
            BY <5>3, DenotesBy
        <4> QED
          BY <4>2, <4>3, <2>1
      <3> QED
        BY <3>1, <3>2, <3>3
    <2>17. Denotes(r) = Denotes(line) \cup (1 .. first - 1)
      BY <2>16, Zenon
    <2>18. ASSUME NEW f \in Range(r)
           PROVE  f.hi <= first - 1 \/ \E g \in Range(line) : f.hi <= g.hi
      <3>1. CASE f = e
        <4>1. h <= first - 1 \/ (k # 0 /\ h = line[k].hi)
          BY <1>3 DEF h
        <4> QED
          BY <4>1, <3>1, <2>6, <2>8, <2>10, <1>1
      <3>2. CASE f \in Range(after)
        BY <3>2, <2>15, <1>1
      <3> QED
        BY <3>1, <3>2, <2>14
    <2> QED
      BY <2>4, <2>14, <2>17, <2>18
  <1> QED
    BY <1>2, <1>3

-------------------------------------------------------------------------------
(* rc_to_bits.                                                             *)

\* Where no single number is raised, an article that counts as read is one
\* that the line denotes.
LEMMA RcToBitsIs ==
  ASSUME NEW line, IsRcLine(line), NEW first \in Nat \ {0}, NEW last \in Int,
         ~RaisesSingle(line, first), NEW n \in first .. last,
         n \notin RcToBits(line, first, last)
  PROVE  n \in Denotes(line)
  <1> DEFINE leads == line # <<>> /\ line[1].rng /\ line[1].lo = 1
             start == IF leads /\ line[1].hi + 1 > first THEN line[1].hi + 1 ELSE first
             scanned == IF leads THEN 2 .. Len(line) ELSE 1 .. Len(line)
             Raised(m) == IF m < start THEN start ELSE m
             Covered(e) == IF e.rng THEN Raised(e.lo) .. e.hi ELSE {Raised(e.lo)}
  <1>1. /\ Len(line) \in Nat /\ DOMAIN line = 1 .. Len(line)
        /\ \A i \in 1 .. Len(line) : /\ line[i].lo \in Nat \ {0}
                                     /\ line[i].hi \in Nat
                                     /\ IsEntry(line[i])
    BY LineIs
  <1>2. leads => 1 \in 1 .. Len(line)
    BY <1>1, EmptyIs
  <1>3. \A i \in 1 .. Len(line) : ~line[i].rng => ~(line[i].lo < start)
    BY <1>1 DEF RaisesSingle
  <1>4. n \notin (start .. last) \/ \E i \in scanned : n \in Covered(line[i])
    BY DEF RcToBits
  <1>5. start \in Nat
    BY <1>1, <1>2
  <1>6. CASE n \notin start .. last
    <2>1. leads /\ n < line[1].hi + 1
      BY <1>1, <1>2, <1>5, <1>6
    <2>2. n \in line[1].lo .. line[1].hi
      BY <2>1, <1>1, <1>2
    <2> QED
      BY <2>1, <2>2, <1>2, DenotesIs
  <1>7. CASE \E i \in scanned : n \in Covered(line[i])
    <2>1. PICK i \in 1 .. Len(line) : n \in Covered(line[i])
      BY <1>1, <1>7
    <2>2. n \in line[i].lo .. line[i].hi
      <3>1. CASE line[i].rng
        BY <2>1, <3>1, <1>1, <1>5
      <3>2. CASE ~line[i].rng
        BY <2>1, <3>2, <1>1, <1>3, <1>5 DEF IsEntry
      <3> QED
        BY <3>1, <3>2
    <2> QED
      BY <2>2, DenotesIs
  <1> QED
    BY <1>4, <1>6, <1>7
-------------------------------------------------------------------------------
(* bits_to_rc.                                                             *)

\* Every set of numbers up to b can be put in ascending order: the smallest
\* one that could not would lose its greatest member to one that can.
LEMMA AscendingIs ==
  ASSUME NEW b \in Nat, NEW S \in SUBSET (0 .. b)
  PROVE  /\ IsFiniteSet(S) /\ Cardinality(S) \in Nat
         /\ Ascending(S) \in [1 .. Cardinality(S) -> S]
         /\ Ascends(Ascending(S), S)
  <1> DEFINE Sorts(T) == \E s \in [1 .. Cardinality(T) -> T] : Ascends(s, T)
             Bad == {Cardinality(T) : T \in {U \in SUBSET (0 .. b) : ~Sorts(U)}}
  <1>1. ASSUME NEW T \in SUBSET (0 .. b)
        PROVE  IsFiniteSet(T) /\ Cardinality(T) \in Nat
    <2>1. IsFiniteSet(0 .. b)
      BY FS_Interval
    <2>2. IsFiniteSet(T)
      BY <2>1, FS_Subset
    <2> QED
      BY <2>2, FS_CardinalityType
  <1>2. Bad = {}
    <2> SUFFICES ASSUME Bad # {} PROVE FALSE
      OBVIOUS
    <2>1. Bad \in SUBSET Nat
      BY <1>1
    <2> HIDE DEF Sorts
    <2>2. PICK c \in Bad : \A d \in Bad : c <= d
      <3> HIDE DEF Bad
      <3> QED
        BY <2>1, LeastOf
    <2>3. PICK T \in SUBSET (0 .. b) : c = Cardinality(T) /\ ~Sorts(T)
      OBVIOUS
    <2>4. c \in Nat /\ IsFiniteSet(T)
      BY <1>1, <2>3
    <2>5. CASE T = {}
      <3> DEFINE s == [i \in 1 .. Cardinality(T) |-> 0]
      <3>1. Cardinality(T) = 0
        BY <2>5, FS_EmptySet
      <3>2. DOMAIN s = {} /\ s \in [1 .. Cardinality(T) -> T]
        BY <3>1, <2>5
      <3>3. Ascends(s, T)
        BY <3>2, <2>5 DEF Ascends
      <3> QED
        BY <3>2, <3>3, <2>3 DEF Sorts
    <2>6. CASE T # {}
      <3>1. T \in SUBSET Int /\ b \in Int /\ \A n \in T : n <= b
        OBVIOUS
      <3>2. PICK m \in T : \A n \in T : n <= m
        BY <2>6, <3>1, GreatestOf
      <3> DEFINE U == T \ {m}
      <3>3. IsFiniteSet(U) /\ Cardinality(U) = c - 1
        BY <2>3, <2>4, FS_RemoveElement
      <3>4. U \in SUBSET (0 .. b) /\ Cardinality(U) \in Nat
        BY <1>1
      <3>5. Sorts(U)
        <4>1. ~(Cardinality(U) \in Bad)
          BY <3>3, <3>4, <2>2, <2>4
        <4> QED
          BY <4>1, <3>4
      <3>6. PICK s \in [1 .. c - 1 -> U] : Ascends(s, U)
        BY <3>3, <3>5 DEF Sorts
      <3> DEFINE t == [i \in 1 .. c |-> IF i = c THEN m ELSE s[i]]
      <3>7. c - 1 \in Nat
        BY <3>3, <3>4
      <3>8. \A i \in 1 .. c : i # c => i \in 1 .. c - 1 /\ s[i] \in U /\ t[i] = s[i]
        BY <3>7, <2>4
      <3>9. t \in [1 .. c -> T]
        BY <3>8
      <3>10. Ascends(t, T)
        <4>1. ASSUME NEW i \in 1 .. c, NEW j \in 1 .. c, i < j
              PROVE  t[i] < t[j]
          <5>1. i # c
            BY <4>1, <2>4
          <5>2. CASE j = c
            <6>1. s[i] <= m /\ s[i] # m /\ s[i] \in Int /\ m \in Int
              BY <5>1, <3>1, <3>2, <3>8
            <6>2. t[i] = s[i] /\ t[j] = m
              BY <5>1, <5>2, <3>8
            <6> HIDE DEF t
            <6> QED
              BY <6>1, <6>2
          <5>3. CASE j # c
            <6>1. i \in DOMAIN s /\ j \in DOMAIN s
              BY <5>1, <5>3, <3>8
            <6> QED
              BY <6>1, <5>1, <5>3, <4>1, <3>6, <3>8 DEF Ascends
          <5> QED
            BY <5>2, <5>3
        <4>2. ASSUME NEW n \in T
              PROVE  \E i \in 1 .. c : t[i] = n
          <5>1. CASE n = m
            <6>1. c \in 1 .. c
              BY <3>7, <2>4
            <6> QED
              BY <6>1, <5>1
          <5>2. CASE n # m
            <6>1. PICK i \in 1 .. c - 1 : s[i] = n
              BY <5>2, <3>6 DEF Ascends
            <6>2. i \in 1 .. c /\ i # c
              BY <2>4
            <6> QED
              BY <6>1, <6>2, <3>8
          <5> QED
            BY <5>1, <5>2
        <4>3. DOMAIN t = 1 .. c
          OBVIOUS
        <4> QED
          BY <4>1, <4>2, <4>3 DEF Ascends
      <3> HIDE DEF t
      <3> QED
        BY <3>9, <3>10, <2>3 DEF Sorts
    <2> QED
      BY <2>5, <2>6
  <1>3. Sorts(S)
    BY <1>2
  <1> QED
    BY <1>1, <1>3 DEF Ascending

LEMMA BitsToRcIs ==
  ASSUME NEW unread, NEW first \in Nat \ {0}, NEW last \in Nat
  PROVE  LET r == BitsToRc(unread, first, last) IN
         /\ IsRcLine(r)
         /\ Denotes(r) = (1 .. last) \ (unread \cap (first .. last))
         /\ \A e \in Range(r) : e.hi <= last
  <1> DEFINE unreadHere == unread \cap (first .. last)
             i == IF unreadHere = {} THEN last + 1 ELSE Min(unreadHere)
             starts == {n \in (i + 1) .. last : n \notin unread /\ n - 1 \in unread}
             Run(n) == {m \in n .. last : \A k \in n .. m : k \notin unread}
             End(n) == Max(Run(n))
             Entry(n) == IF End(n) = n THEN Single(n) ELSE Span(n, End(n))
             sorted == Ascending(starts)
             c == Cardinality(starts)
             rest == [k \in DOMAIN sorted |-> Entry(sorted[k])]
             r == <<Span(1, i - 1)>> \o rest
  <1>1. BitsToRc(unread, first, last) = r
    BY DEF BitsToRc
  <1>2. /\ i \in Nat \ {0} /\ i <= last + 1
        /\ i <= last => i \in unread /\ first <= i
        /\ \A n \in first .. last : n < i => n \notin unread
    <2>1. CASE unreadHere = {}
      <3>1. \A n \in first .. last : n \notin unread
        BY <2>1
      <3> HIDE DEF unreadHere
      <3>2. i = last + 1
        BY <2>1
      <3> QED
        BY <3>1, <3>2
    <2>2. CASE unreadHere # {}
      <3>1. unreadHere \in SUBSET Nat
        OBVIOUS
      <3>2. Min(unreadHere) \in unreadHere /\ \A n \in unreadHere : Min(unreadHere) <= n
        <4> HIDE DEF unreadHere
        <4> QED
          BY <2>2, <3>1, MinIs
      <3> QED
        BY <2>2, <3>2
    <2> QED
      BY <2>1, <2>2
  <1> HIDE DEF i
  <1>3. ASSUME NEW n \in (i + 1) .. last, n \notin unread
        PROVE  /\ End(n) \in n .. last
               /\ \A k \in n .. End(n) : k \notin unread
               /\ \A m \in n .. last :
                    (\A k \in n .. m : k \notin unread) => m <= End(n)
    <2>1. n \in Run(n) /\ Run(n) \in SUBSET Int /\ \A m \in Run(n) : m <= last
      BY <1>2, <1>3
    <2>3. End(n) \in Run(n) /\ \A m \in Run(n) : m <= End(n)
      <3> HIDE DEF Run
      <3>1. Run(n) # {} /\ last \in Int
        BY <2>1
      <3> QED
        BY <2>1, <3>1, MaxIs
    <2> HIDE DEF End
    <2> QED
      BY <2>3
  <1>4. /\ c \in Nat /\ sorted \in [1 .. c -> starts] /\ Ascends(sorted, starts)
    <2>1. starts \in SUBSET (0 .. last)
      BY <1>2
    <2> HIDE DEF starts
    <2> QED
      BY <2>1, AscendingIs
  <1> HIDE DEF End, c, sorted
  <1>5. ASSUME NEW n \in starts
        PROVE  /\ IsEntry(Entry(n)) /\ Entry(n).lo = n /\ Entry(n).hi = End(n)
               /\ n \in (i + 1) .. last /\ n \in Nat \ {0}
               /\ End(n) \in Nat /\ n <= End(n) /\ End(n) <= last
    <2>1. n \in (i + 1) .. last /\ n \notin unread /\ n \in Nat \ {0}
      BY <1>2
    <2>2. End(n) \in Nat /\ n <= End(n) /\ End(n) <= last
      BY <1>3, <2>1
    <2> QED
      BY <2>1, <2>2, SpanIs, SingleIs
  <1> HIDE DEF Entry
  <1>6. ASSUME NEW n \in starts, NEW m \in starts, n < m
        PROVE  End(n) < m
    <2>1. /\ m - 1 \in unread
          /\ n \in (i + 1) .. last /\ n \notin unread
          /\ m \in (i + 1) .. last
      OBVIOUS
    <2>2. ~(m - 1 \in n .. End(n))
      BY <2>1, <1>3
    <2>3. End(n) \in Nat /\ n \in Nat /\ m \in Nat
      BY <1>5
    <2> QED
      BY <2>2, <2>3, <1>6
  <1>7. /\ rest \in Seq(Entries) /\ Len(rest) = c
        /\ \A k \in 1 .. c : rest[k] = Entry(sorted[k]) /\ sorted[k] \in starts
    <2>1. \A k \in 1 .. c : rest[k] = Entry(sorted[k]) /\ sorted[k] \in starts
      BY <1>4
    <2>2. rest \in [1 .. c -> Entries]
      BY <1>4, <1>5, <2>1 DEF IsEntry
    <2> HIDE DEF rest
    <2> QED
      BY <1>4, <2>1, <2>2
  <1> HIDE DEF starts, rest
  <1>8. IsRcLine(rest)
    <2>1. \A k \in 1 .. Len(rest) : IsEntry(rest[k])
      BY <1>5, <1>7
    <2>2. ASSUME NEW k \in 1 .. Len(rest), NEW j \in 1 .. Len(rest), k < j
          PROVE  rest[k].hi < rest[j].lo
      <3>1. sorted[k] < sorted[j] /\ sorted[k] \in starts /\ sorted[j] \in starts
        BY <1>4, <1>7, <2>2 DEF Ascends
      <3> QED
        BY <3>1, <1>5, <1>6, <1>7
    <2> QED
      BY <1>7, <2>1, <2>2, LineIntro
  <1> DEFINE e == Span(1, i - 1)
  <1>9. IsEntry(e) /\ e.lo = 1 /\ e.hi = i - 1
    BY <1>2, SpanIs
  <1> HIDE DEF e
  <1>10. /\ IsRcLine(<<e>>) /\ Range(<<e>>) = {e}
         /\ Len(<<e>>) = 1 /\ <<e>>[1] = e
    BY <1>9, OneEntry
  <1>11. \A k \in 1 .. Len(<<e>>), j \in 1 .. Len(rest) : <<e>>[k].hi < rest[j].lo
    BY <1>2, <1>5, <1>7, <1>9, <1>10
  <1>12. IsRcLine(<<e>> \o rest) /\ Range(<<e>> \o rest) = {e} \cup Range(rest)
    BY <1>8, <1>10, <1>11, JoinedIs
  <1>13. r = <<e>> \o rest
    BY DEF e
  <1> HIDE DEF r
  <1>14. \A f : f \in Range(rest) <=> \E n \in starts : f = Entry(n)
    <2>1. DOMAIN rest = 1 .. c /\ DOMAIN sorted = 1 .. c
      BY <1>4, <1>7, <1>8, LineIs
    <2>2. ASSUME NEW f \in Range(rest) PROVE \E n \in starts : f = Entry(n)
      BY <2>1, <1>7 DEF Range
    <2>3. ASSUME NEW n \in starts PROVE Entry(n) \in Range(rest)
      <3>1. PICK k \in 1 .. c : sorted[k] = n
        BY <2>1, <1>4 DEF Ascends
      <3> QED
        BY <3>1, <2>1, <1>7 DEF Range
    <2> QED
      BY <2>2, <2>3
  <1>15. ASSUME NEW x \in Denotes(r)
         PROVE  x \in 1 .. last /\ ~(x \in unread /\ x \in first .. last)
    <2>1. PICK f \in Range(r) : x \in f.lo .. f.hi
      BY <1>15, DenotesBy
    <2>2. CASE f = e
      BY <2>1, <2>2, <1>2, <1>9
    <2>3. CASE f \in Range(rest)
      <3>1. PICK n \in starts : f = Entry(n)
        BY <2>3, <1>14
      <3>2. x \in n .. End(n) /\ n \in (i + 1) .. last /\ n \notin unread
        BY <2>1, <3>1, <1>5 DEF starts
      <3>3. x \notin unread
        BY <3>2, <1>3
      <3> QED
        BY <3>1, <3>2, <3>3, <1>5
    <2> QED
      BY <2>1, <2>2, <2>3, <1>12, <1>13
  <1>16. ASSUME NEW x \in 1 .. last, ~(x \in unread /\ x \in first .. last)
         PROVE  x \in Denotes(r)
    <2>1. CASE x < i
      <3>1. x \in e.lo .. e.hi /\ e \in Range(r)
        BY <2>1, <1>2, <1>9, <1>12, <1>13
      <3> QED
        BY <3>1, DenotesBy
    <2>2. CASE i <= x
      <3>1. i \in unread /\ first <= i /\ x \notin unread /\ i < x
        BY <1>2, <1>16, <2>2
      <3> DEFINE T == {n \in (i + 1) .. x : \A k \in n .. x : k \notin unread}
      <3>2. T \in SUBSET Nat /\ x \in T
        BY <1>2, <3>1
      <3>3. PICK n \in T : \A m \in T : n <= m
        <4> HIDE DEF T
        <4> QED
          BY <3>2, LeastOf
      <3>4. n \in (i + 1) .. x /\ n \in Nat /\ \A k \in n .. x : k \notin unread
        BY <3>2, <3>3
      <3>5. n \notin unread /\ n \in (i + 1) .. last
        BY <3>4, <1>2
      <3>6. n - 1 \in unread
        <4>1. CASE n = i + 1
          BY <4>1, <3>1, <1>2
        <4>2. CASE n # i + 1
          <5>1. n - 1 \in (i + 1) .. x /\ n - 1 \notin T
            BY <4>2, <3>3, <3>4, <1>2
          <5>2. PICK k \in (n - 1) .. x : k \in unread
            BY <5>1
          <5>3. ~(k \in n .. x)
            BY <5>2, <3>4
          <5>4. k = n - 1
            BY <5>3, <3>4
          <5> QED
            BY <5>2, <5>4
        <4> QED
          BY <4>1, <4>2
      <3>7. n \in starts
        BY <3>5, <3>6 DEF starts
      <3>8. x <= End(n)
        <4>1. x \in n .. last
          BY <3>4
        <4> QED
          BY <4>1, <3>4, <3>5, <1>3
      <3>9. x \in Entry(n).lo .. Entry(n).hi
        BY <3>4, <3>7, <3>8, <1>5
      <3>10. Entry(n) \in Range(r)
        BY <3>7, <1>12, <1>13, <1>14
      <3> QED
        BY <3>9, <3>10, DenotesBy
    <2> QED
      BY <2>1, <2>2, <1>2
  <1>17. Denotes(r) = (1 .. last) \ (unread \cap (first .. last))
    <2>1. \A x : x \in Denotes(r) <=> x \in (1 .. last) \ (unread \cap (first .. last))
      BY <1>15, <1>16
    <2> QED
      BY <2>1, Zenon
  <1>18. \A f \in Range(r) : f.hi <= last
    BY <1>2, <1>5, <1>9, <1>12, <1>13, <1>14
  <1> QED
    BY <1>1, <1>12, <1>13, <1>17, <1>18
-------------------------------------------------------------------------------
(* The tally of set_to_read.                                               *)

TallyStart(size) == [unread |-> size, size |-> size, reset |-> FALSE]

TallyNext(t, line, k, lax) == TallyStep(t[k - 1], line[k], lax)

\* t is the tally's function over the first m entries.
IsTally(t, line, size, lax, m) ==
  t = [k \in 0 .. m |-> IF k = 0 THEN TallyStart(size) ELSE TallyNext(t, line, k, lax)]

\* There is such a function, for every number of entries.
LEMMA TallyExists ==
  ASSUME NEW line, NEW size, NEW lax, NEW n \in Nat
  PROVE  \E t : IsTally(t, line, size, lax, n)
  <1> DEFINE Bad == {m \in Nat : ~\E t : IsTally(t, line, size, lax, m)}
  <1>1. Bad = {}
    <2> SUFFICES ASSUME Bad # {} PROVE FALSE
      OBVIOUS
    <2>1. PICK m \in Bad : \A j \in Bad : m <= j
      <3>1. Bad \in SUBSET Nat
        OBVIOUS
      <3> HIDE DEF Bad
      <3> QED
        BY <3>1, LeastOf
    <2>2. m \in Nat /\ ~\E t : IsTally(t, line, size, lax, m)
      OBVIOUS
    <2>3. CASE m = 0
      <3> DEFINE t == [k \in 0 .. 0 |-> TallyStart(size)]
      <3>1. t = [k \in 0 .. m |-> IF k = 0 THEN TallyStart(size)
                                  ELSE TallyNext(t, line, k, lax)]
        BY <2>3
      <3> HIDE DEF t
      <3> QED
        BY <3>1, <2>2 DEF IsTally
    <2>4. CASE m # 0
      <3>1. m - 1 \in Nat /\ ~(m - 1 \in Bad)
        BY <2>1, <2>2, <2>4
      <3>2. PICK s : IsTally(s, line, size, lax, m - 1)
        BY <3>1
      <3> DEFINE Value(k) == IF k = m THEN TallyNext(s, line, m, lax) ELSE s[k]
                 t == [k \in 0 .. m |-> Value(k)]
      <3>3. \A k \in 0 .. m : t[k] = Value(k)
        OBVIOUS
      <3>4. \A k \in 0 .. m - 1 :
              s[k] = IF k = 0 THEN TallyStart(size) ELSE TallyNext(s, line, k, lax)
        BY <3>2 DEF IsTally
      <3>5. ASSUME NEW k \in 0 .. m
            PROVE  Value(k) = IF k = 0 THEN TallyStart(size)
                              ELSE TallyNext(t, line, k, lax)
        <4>1. CASE k = 0
          <5>1. 0 \in 0 .. m - 1 /\ k # m
            BY <3>1, <2>4, <4>1
          <5> QED
            BY <5>1, <4>1, <3>4
        <4>2. CASE k # 0
          <5>1. k - 1 \in 0 .. m /\ k - 1 # m /\ (k # m => k \in 0 .. m - 1)
            BY <2>2, <4>2
          <5>2. t[k - 1] = s[k - 1]
            BY <5>1, <3>3
          <5>3. TallyNext(t, line, k, lax) = TallyNext(s, line, k, lax)
            BY <5>2 DEF TallyNext
          <5> QED
            BY <4>2, <5>1, <5>3, <3>4
        <4> QED
          BY <4>1, <4>2
      <3> HIDE DEF Value
      <3>6. t = [k \in 0 .. m |-> IF k = 0 THEN TallyStart(size)
                                  ELSE TallyNext(t, line, k, lax)]
        BY <3>5
      <3> HIDE DEF t
      <3> QED
        BY <3>6, <2>2 DEF IsTally
    <2> QED
      BY <2>3, <2>4
  <1> QED
    BY <1>1

UnfoldsTo(t, line, size, lax) ==
  /\ Tally(line, size, lax) = t[Len(line)]
  /\ t[0] = TallyStart(size)
  /\ \A k \in 1 .. Len(line) : t[k] = TallyStep(t[k - 1], line[k], lax)

LEMMA TallyUnfolds ==
  ASSUME NEW line, NEW size, NEW lax, Len(line) \in Nat
  PROVE  \E t : UnfoldsTo(t, line, size, lax)
  <1> DEFINE t == CHOOSE t : IsTally(t, line, size, lax, Len(line))
  <1>1. Tally(line, size, lax) = t[Len(line)]
    BY DEF Tally, IsTally, TallyStart, TallyNext
  <1>2. IsTally(t, line, size, lax, Len(line))
    BY TallyExists
  <1> HIDE DEF t
  <1>3. \A k \in 0 .. Len(line) :
          t[k] = IF k = 0 THEN TallyStart(size) ELSE TallyNext(t, line, k, lax)
    BY <1>2 DEF IsTally
  <1>4. t[0] = TallyStart(size)
    BY <1>3
  <1>5. ASSUME NEW k \in 1 .. Len(line)
        PROVE  t[k] = TallyStep(t[k - 1], line[k], lax)
    <2>1. k \in 0 .. Len(line) /\ k # 0
      OBVIOUS
    <2> QED
      BY <2>1, <1>3 DEF TallyNext
  <1> QED
    BY <1>1, <1>4, <1>5 DEF UnfoldsTo

\* The numbers up to s that the first k entries leave unread.
Left(line, k, s) == {n \in 1 .. s : \A i \in 1 .. k : n \notin line[i].lo .. line[i].hi}

LEMMA LeftIsFinite ==
  ASSUME NEW line, NEW k, NEW s \in Nat
  PROVE  IsFiniteSet(Left(line, k, s)) /\ Cardinality(Left(line, k, s)) \in Nat
  <1>1. IsFiniteSet(1 .. s) /\ Left(line, k, s) \in SUBSET (1 .. s)
    <2>1. 1 \in Int /\ s \in Int
      OBVIOUS
    <2>2. IsFiniteSet(1 .. s)
      BY <2>1, FS_Interval
    <2>3. Left(line, k, s) \in SUBSET (1 .. s)
      BY DEF Left
    <2> QED
      BY <2>2, <2>3
  <1>2. IsFiniteSet(Left(line, k, s))
    BY <1>1, FS_Subset
  <1> QED
    BY <1>2, FS_CardinalityType

\* One entry more, and the numbers up to r instead of s.
LEMMA LeftStep ==
  ASSUME NEW line, IsRcLine(line), NEW k \in 1 .. Len(line),
         NEW s \in Nat, \A i \in 1 .. k - 1 : line[i].hi <= s,
         NEW r \in Nat, s <= r, line[k].hi <= r
  PROVE  Cardinality(Left(line, k, r)) =
           Cardinality(Left(line, k - 1, s)) + (r - s) - (line[k].hi - line[k].lo + 1)
  <1> DEFINE old == Left(line, k - 1, s)
             grown == Left(line, k - 1, r)
             e == line[k]
             run == e.lo .. e.hi
  <1>1. /\ Len(line) \in Nat
        /\ \A i \in 1 .. Len(line) : line[i].lo \in Nat \ {0} /\ line[i].hi \in Nat
        /\ e.lo <= e.hi + 1
        /\ \A i \in 1 .. k - 1 : i \in 1 .. Len(line) /\ line[i].hi < e.lo
    <2>1. \A i \in 1 .. k - 1 : i \in 1 .. Len(line) /\ i < k
      BY LineIs
    <2> QED
      BY <2>1, LineIs
  <1>2. grown = old \cup (s + 1 .. r)
    <2>1. ASSUME NEW n \in s + 1 .. r PROVE n \in grown
      <3>1. \A i \in 1 .. k - 1 : ~(n <= line[i].hi)
        BY <1>1
      <3> QED
        BY <3>1, <1>1 DEF Left
    <2>2. ASSUME NEW n \in 1 .. s PROVE n \in old <=> n \in grown
      BY DEF Left
    <2>3. \A n \in old : n \in 1 .. s
      BY DEF Left
    <2>4. \A n \in grown : n \in 1 .. s \/ n \in s + 1 .. r
      BY DEF Left
    <2> HIDE DEF old, grown
    <2> QED
      BY <2>1, <2>2, <2>3, <2>4
  <1>3. old \cap (s + 1 .. r) = {}
    BY DEF Left
  <1>4. Left(line, k, r) = grown \ run
    <2>1. ASSUME NEW n PROVE n \in Left(line, k, r) <=> n \in grown \ run
      <3>1. \A i : i \in 1 .. k <=> i \in 1 .. k - 1 \/ i = k
        BY <1>1
      <3> QED
        BY <3>1 DEF Left
    <2> QED
      BY <2>1
  <1>5. run \subseteq grown
    <2>1. ASSUME NEW n \in run PROVE n \in grown
      <3>1. n \in 1 .. r /\ \A i \in 1 .. k - 1 : ~(n <= line[i].hi)
        BY <1>1
      <3> QED
        BY <3>1, <1>1 DEF Left
    <2> QED
      BY <2>1
  <1>6. IsFiniteSet(old) /\ IsFiniteSet(grown) /\ Cardinality(old) \in Nat
    BY LeftIsFinite
  <1> HIDE DEF old, grown
  <1>7. IsFiniteSet(s + 1 .. r) /\ Cardinality(s + 1 .. r) = r - s
    <2> DEFINE a == s + 1
    <2>1. a \in Int /\ r \in Int
      OBVIOUS
    <2> HIDE DEF a
    <2>2. IsFiniteSet(a .. r) /\ Cardinality(a .. r) = IF a > r THEN 0 ELSE r - a + 1
      BY <2>1, FS_Interval
    <2>3. a = s + 1
      BY DEF a
    <2> QED
      BY <2>2, <2>3
  <1>8. Cardinality(grown) = Cardinality(old) + (r - s) - Cardinality({})
    <2> DEFINE more == s + 1 .. r
    <2>1. /\ grown = old \cup more /\ old \cap more = {}
          /\ IsFiniteSet(old) /\ IsFiniteSet(more) /\ Cardinality(more) = r - s
      BY <1>2, <1>3, <1>6, <1>7
    <2> HIDE DEF more
    <2>2. Cardinality(old \cup more) =
            Cardinality(old) + Cardinality(more) - Cardinality(old \cap more)
      BY <2>1, FS_Union
    <2> QED
      BY <2>1, <2>2
  <1>9. Cardinality(run) = e.hi - e.lo + 1
    <2>1. e.lo \in Nat \ {0} /\ e.hi \in Nat
      BY <1>1
    <2> DEFINE a == e.lo
               b == e.hi
    <2>2. a \in Int /\ b \in Int /\ a <= b + 1 /\ run = a .. b
      BY <1>1
    <2> HIDE DEF a, b, run, e
    <2>3. Cardinality(a .. b) = IF a > b THEN 0 ELSE b - a + 1
      BY <2>2, FS_Interval
    <2>4. Cardinality(run) = b - a + 1
      BY <2>2, <2>3
    <2> QED
      BY <2>4 DEF a, b
  <1>10. grown \cap run = run
    BY <1>5
  <1>11. Cardinality(grown \ run) = Cardinality(grown) - Cardinality(run)
    BY <1>6, <1>10, FS_Difference
  <1>12. Cardinality({}) = 0
    BY FS_EmptySet
  <1>13. Cardinality(grown \ run) = (Cardinality(old) + (r - s)) - (e.hi - e.lo + 1)
    <2>1. Cardinality(grown) = Cardinality(old) + (r - s)
      BY <1>6, <1>8, <1>12
    <2> QED
      BY <1>9, <1>11, <2>1
  <1>14. Cardinality(old) \in Int /\ e.lo \in Int /\ e.hi \in Int
    BY <1>1, <1>6
  <1> QED
    BY <1>4, <1>13, <1>14 DEF old

TallyStates == [unread : Int, size : Nat, reset : BOOLEAN]

\* What the tally has found after k entries.
TallySound(u, line, size, lax, k) ==
  /\ u \in TallyStates
  /\ size <= u.size
  /\ ~lax => u.size = size
  /\ u.size = size \/ \E i \in 1 .. k : u.size = line[i].hi
  /\ u.reset <=> ~lax /\ \E i \in 1 .. k : line[i].hi > size
  /\ u.reset => u.unread = -1
  /\ ~u.reset =>
       /\ \A i \in 1 .. k : line[i].hi <= u.size
       /\ Cardinality(Left(line, k, u.size)) <= u.unread
       /\ (\A i \in 1 .. k : line[i].hi # 0) =>
            Cardinality(Left(line, k, u.size)) = u.unread

LEMMA TallyStepSound ==
  ASSUME NEW line, IsRcLine(line), NEW size \in Nat, NEW lax \in BOOLEAN,
         NEW k \in 1 .. Len(line),
         NEW u, TallySound(u, line, size, lax, k - 1)
  PROVE  TallySound(TallyStep(u, line[k], lax), line, size, lax, k)
  <1> DEFINE e == line[k]
             zero == IF e.hi # 0 THEN 1 ELSE 0
             rest == u.unread - (e.hi - e.lo) - zero
             v == TallyStep(u, e, lax)
  <1>1. /\ Len(line) \in Nat
        /\ e.lo \in Nat \ {0} /\ e.hi \in Nat /\ e.lo <= e.hi + 1
        /\ \A i : i \in 1 .. k <=> i \in 1 .. k - 1 \/ i = k
    BY LineIs
  <1>2. /\ u \in TallyStates /\ u.unread \in Int /\ u.size \in Nat /\ u.reset \in BOOLEAN
        /\ size <= u.size /\ (~lax => u.size = size)
        /\ u.size = size \/ \E i \in 1 .. k - 1 : u.size = line[i].hi
        /\ u.reset <=> ~lax /\ \E i \in 1 .. k - 1 : line[i].hi > size
        /\ u = [unread |-> u.unread, size |-> u.size, reset |-> u.reset]
    BY DEF TallySound, TallyStates
  <1>3. CASE u.reset \/ (e.hi > u.size /\ ~lax)
    <2>1. v = [unread |-> -1, size |-> u.size, reset |-> TRUE]
      BY <1>3 DEF TallyStep
    <2>2. ~lax /\ u.size = size /\ \E i \in 1 .. k : line[i].hi > size
      BY <1>1, <1>2, <1>3
    <2> HIDE DEF v
    <2> QED
      BY <2>1, <2>2, <1>2 DEF TallySound, TallyStates, v
  <1>4. CASE ~u.reset /\ ~(e.hi > u.size /\ ~lax)
    <2> DEFINE r == IF e.hi <= u.size THEN u.size ELSE e.hi
               w == rest + (r - u.size)
    <2>1. zero \in 0 .. 1 /\ rest \in Int /\ r \in Nat /\ w \in Int
          /\ u.size <= r /\ e.hi <= r
      <3>1. zero \in 0 .. 1 /\ r \in Nat /\ u.size <= r /\ e.hi <= r
        BY <1>1, <1>2
      <3> HIDE DEF zero, r
      <3>2. rest \in Int
        BY <3>1, <1>1, <1>2
      <3> HIDE DEF rest
      <3> QED
        BY <3>1, <3>2, <1>2
    <2>2. v = [unread |-> w, size |-> r, reset |-> FALSE]
      <3>1. CASE e.hi <= u.size
        <4>1. v = [u EXCEPT !.unread = rest]
          BY <1>4, <3>1 DEF TallyStep
        <4>2. w = rest
          BY <1>1, <1>2, <3>1
        <4> HIDE DEF rest, w, v
        <4> QED
          BY <4>1, <4>2, <3>1, <1>2, <1>4
      <3>2. CASE ~(e.hi <= u.size)
        <4>1. v = [u EXCEPT !.unread = rest + e.hi - u.size, !.size = e.hi]
          BY <1>4, <3>2 DEF TallyStep
        <4>2. w = rest + e.hi - u.size
          BY <1>1, <1>2, <3>2, <2>1
        <4> HIDE DEF rest, w, v
        <4> QED
          BY <4>1, <4>2, <3>2, <1>2, <1>4
      <3> QED
        BY <3>1, <3>2
    <2>3. /\ \A i \in 1 .. k - 1 : line[i].hi <= u.size
          /\ Cardinality(Left(line, k - 1, u.size)) <= u.unread
          /\ (\A i \in 1 .. k - 1 : line[i].hi # 0) =>
               Cardinality(Left(line, k - 1, u.size)) = u.unread
      BY <1>4 DEF TallySound
    <2>4. Cardinality(Left(line, k, r)) =
            Cardinality(Left(line, k - 1, u.size)) + (r - u.size) - (e.hi - e.lo + 1)
      <3> HIDE DEF r
      <3> QED
        BY <1>2, <2>1, <2>3, LeftStep
    <2>5. Cardinality(Left(line, k - 1, u.size)) \in Nat
      BY <1>2, LeftIsFinite
    <2>6. Cardinality(Left(line, k, r)) <= w
      <3> DEFINE c == Cardinality(Left(line, k - 1, u.size))
                 d == e.hi - e.lo
                 grow == r - u.size
                 before == u.unread
      <3>1. w = before - d - zero + grow
        OBVIOUS
      <3>2. c \in Nat /\ c <= before /\ before \in Int /\ d \in Int /\ grow \in Int
        <4>1. c \in Nat /\ c <= before
          BY <2>3, <2>5
        <4>2. before \in Int /\ d \in Int
          BY <1>1, <1>2
        <4>3. grow \in Int
          <5>1. r \in Nat /\ u.size \in Nat
            BY <1>2, <2>1
          <5> HIDE DEF r
          <5> QED
            BY <5>1
        <4> QED
          BY <4>1, <4>2, <4>3
      <3>3. Cardinality(Left(line, k, r)) = c + grow - (d + 1)
        BY <2>4
      <3> HIDE DEF c, d, grow, before, w, r, zero, e
      <3>4. c + grow - (d + 1) <= before - d - zero + grow
        BY <3>2, <2>1
      <3> QED
        BY <3>1, <3>3, <3>4
    <2>7. (\A i \in 1 .. k : line[i].hi # 0) => Cardinality(Left(line, k, r)) = w
      <3>1. ASSUME \A i \in 1 .. k : line[i].hi # 0
            PROVE  Cardinality(Left(line, k, r)) = w
        <4>1. e.hi # 0 /\ Cardinality(Left(line, k - 1, u.size)) = u.unread
          BY <3>1, <1>1, <2>3
        <4> DEFINE grow == r - u.size
                   span == e.hi - e.lo
                   before == u.unread
        <4>2. w = before - span - 1 + grow
          BY <4>1
        <4>3. Cardinality(Left(line, k, r)) = before + grow - (span + 1)
          BY <4>1, <2>4
        <4>4. before \in Int /\ span \in Int
          BY <1>1, <1>2
        <4>5. grow \in Int
          <5>1. r \in Nat /\ u.size \in Nat
            BY <1>2, <2>1
          <5> HIDE DEF r
          <5> QED
            BY <5>1
        <4> HIDE DEF grow, span, before, w, r, e
        <4> QED
          BY <4>2, <4>3, <4>4, <4>5
      <3> QED
        BY <3>1
    <2>8. \A i \in 1 .. k : line[i].hi <= r
      <3>1. ASSUME NEW i \in 1 .. k - 1 PROVE line[i].hi <= r
        <4>1. i \in 1 .. Len(line)
          BY <1>1
        <4> DEFINE hi == line[i].hi
        <4>2. hi \in Nat /\ hi <= u.size
          BY <4>1, <2>3, LineIs
        <4>3. u.size \in Nat /\ r \in Nat /\ u.size <= r
          BY <1>2, <2>1
        <4> HIDE DEF hi, r
        <4>4. hi <= r
          BY <4>2, <4>3
        <4> QED
          BY <4>4 DEF hi
      <3> QED
        BY <3>1, <1>1, <2>1
    <2>9. /\ size <= r
          /\ ~lax => r = size
          /\ r = size \/ \E i \in 1 .. k : r = line[i].hi
          /\ ~(~lax /\ \E i \in 1 .. k : line[i].hi > size)
      <3>1. size <= r /\ (~lax => r = size)
        BY <1>1, <1>2, <1>4
      <3>2. r = size \/ \E i \in 1 .. k : r = line[i].hi
        BY <1>1, <1>2
      <3>3. ~lax => ~\E i \in 1 .. k : line[i].hi > size
        BY <1>1, <1>2, <1>4
      <3> QED
        BY <3>1, <3>2, <3>3
    <2> HIDE DEF v, w, r
    <2>10. /\ v.unread = w /\ v.size = r /\ v.reset = FALSE /\ v \in TallyStates
      BY <2>1, <2>2 DEF TallyStates
    <2> QED
      BY <2>6, <2>7, <2>8, <2>9, <2>10 DEF TallySound, v
  <1> QED
    BY <1>2, <1>3, <1>4

\* Unless a strict check meets a number above size, the tally counts what the
\* line leaves unread; an entry "1-0" adds one to the count.
Tallies(t, line, size, lax) ==
  /\ t.unread \in Int /\ t.size \in Nat /\ size <= t.size
  /\ t.unread < 0 <=> ~lax /\ \E e \in Range(line) : e.hi > size
  /\ ~lax => t.size = size
  /\ t.unread >= 0 =>
       /\ \A e \in Range(line) : e.hi <= t.size
       /\ (\A e \in Range(line) : e.hi # 0) =>
            t.unread = Cardinality((1 .. t.size) \ Denotes(line))

LEMMA TallyIs ==
  ASSUME NEW line, IsRcLine(line), NEW size \in Nat, NEW lax \in BOOLEAN
  PROVE  Tallies(Tally(line, size, lax), line, size, lax)
  <1> DEFINE l == Len(line)
  <1>1. /\ l \in Nat /\ DOMAIN line = 1 .. l
        /\ \A i \in 1 .. l : line[i].hi \in Nat
    BY LineIs
  <1>2. PICK t : UnfoldsTo(t, line, size, lax)
    BY <1>1, TallyUnfolds
  <1> DEFINE Bad == {k \in 0 .. l : ~TallySound(t[k], line, size, lax, k)}
  <1>3. TallySound(t[0], line, size, lax, 0)
    <2>1. \A i : ~(i \in 1 .. 0)
      OBVIOUS
    <2>2. Left(line, 0, size) = 1 .. size
      BY <2>1 DEF Left
    <2>3. Cardinality(Left(line, 0, size)) = size
      BY <2>2, FS_Interval
    <2>4. /\ t[0].unread = size /\ t[0].size = size /\ t[0].reset = FALSE
          /\ t[0] \in TallyStates
      BY <1>2 DEF TallyStart, TallyStates, UnfoldsTo
    <2> QED
      BY <2>1, <2>3, <2>4 DEF TallySound
  <1>4. Bad = {}
    <2> SUFFICES ASSUME Bad # {} PROVE FALSE
      OBVIOUS
    <2>1. PICK k \in Bad : \A j \in Bad : k <= j
      <3>1. Bad \in SUBSET Nat
        OBVIOUS
      <3> HIDE DEF Bad
      <3> QED
        BY <3>1, LeastOf
    <2>2. k \in 1 .. l /\ k - 1 \in 0 .. l /\ ~(k - 1 \in Bad)
      BY <1>1, <1>3, <2>1
    <2>3. TallySound(t[k - 1], line, size, lax, k - 1)
      BY <2>2
    <2>4. TallySound(TallyStep(t[k - 1], line[k], lax), line, size, lax, k)
      BY <2>2, <2>3, TallyStepSound
    <2> QED
      BY <2>2, <2>4, <1>2 DEF UnfoldsTo
  <1> DEFINE u == t[l]
  <1>5. TallySound(u, line, size, lax, l)
    BY <1>1, <1>4
  <1> HIDE DEF u
  <1>6. \A e : e \in Range(line) <=> \E i \in 1 .. l : e = line[i]
    BY <1>1 DEF Range
  <1>7. u.unread \in Int /\ u.size \in Nat /\ u.reset \in BOOLEAN
    BY <1>5 DEF TallySound, TallyStates
  <1>8. Left(line, l, u.size) = (1 .. u.size) \ Denotes(line)
    BY DenotesIs DEF Left
  <1>9. Cardinality(Left(line, l, u.size)) \in Nat
    BY <1>7, LeftIsFinite
  <1>10. u.reset <=> u.unread < 0
    BY <1>5, <1>7, <1>9 DEF TallySound
  <1>11. u.reset <=> ~lax /\ \E e \in Range(line) : e.hi > size
    BY <1>5, <1>6 DEF TallySound
  <1>12. /\ size <= u.size /\ (~lax => u.size = size)
    BY <1>5 DEF TallySound
  <1>13. ~u.reset =>
           /\ \A e \in Range(line) : e.hi <= u.size
           /\ (\A e \in Range(line) : e.hi # 0) =>
                u.unread = Cardinality((1 .. u.size) \ Denotes(line))
    BY <1>5, <1>6, <1>8 DEF TallySound
  <1>14. u.unread >= 0 => ~u.reset
    BY <1>7, <1>10
  <1>15. Tally(line, size, lax) = u
    BY <1>2 DEF u, UnfoldsTo
  <1> QED
    BY <1>7, <1>10, <1>11, <1>12, <1>13, <1>14, <1>15 DEF Tallies
===============================================================================
