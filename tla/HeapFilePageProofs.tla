-------------------------- MODULE HeapFilePageProofs ---------------------------
(****************************************************************************)
(* Proofs about HeapFilePage: for every page size, every set of threads and *)
(* every sequence of INSERTs, deletions, scans and VACUUMs.                 *)
(*                                                                          *)
(* The argument is in two halves.  The first is about one page: Layout says *)
(* which rows a page holds and where, and try_insert_record,                *)
(* delete_record_physically, vacuum and the constructor each turn a page    *)
(* with the rows R into a page with the rows that the table then has.       *)
(* VACUUM is the hard one: that the new offsets do not overlap follows from *)
(* counting the cells of the slots before them, and that the rows fit at    *)
(* all from the old page, into which their cells are mapped one to one.     *)
(*                                                                          *)
(* The second half is about the threads: until a page is damaged, every     *)
(* page holds its rows, and a scan has the rows that it still owes ahead of *)
(* it, or in a page whose half-written header has misled it.                *)
(****************************************************************************)
EXTENDS HeapFilePage, FiniteSetTheorems, TLAPS

\* A set of natural numbers has a least element.
LEMMA LeastElement ==
    ASSUME NEW S, S \subseteq Nat, S # {}
    PROVE  Min(S) \in S /\ \A x \in S : Min(S) <= x
<1> DEFINE R == {pair \in Nat \X Nat : pair[1] < pair[2]}
<1>1. IsWellFoundedOn(R, Nat)
  BY NatLessThanWellFounded DEF OpToRel
<1>2. \E x \in S : \A y \in S : ~(<<y, x>> \in R)
  <2> HIDE DEF R
  <2> QED
    BY <1>1, WFMin
<1>3. PICK m \in S : \A y \in S : ~(<<y, m>> \in R)
  BY <1>2
<1>4. \A y \in S : m <= y
  <2> SUFFICES ASSUME NEW y \in S, ~(m <= y) PROVE FALSE
    OBVIOUS
  <2>1. y \in Nat /\ m \in Nat
    OBVIOUS
  <2>2. y < m
    BY <2>1
  <2>3. <<y, m>> \in R
    BY <2>1, <2>2
  <2> QED
    BY <1>3, <2>3
<1> QED
  BY <1>4 DEF Min

\* A bounded set of natural numbers has a greatest element.
LEMMA GreatestElement ==
    ASSUME NEW S, NEW n \in Nat, S \subseteq 0..n, S # {}
    PROVE  Max(S) \in S /\ \A x \in S : x <= Max(S)
<1> DEFINE T == {k \in 0..n : n - k \in S}
<1>1. T \subseteq Nat
  OBVIOUS
<1>2. PICK x \in S : TRUE
  OBVIOUS
<1>3. n - x \in T
  <2>1. n - (n - x) = x /\ n - x \in 0..n
    OBVIOUS
  <2> QED
    BY <2>1
<1>4. PICK k \in T : \A y \in T : k <= y
  <2> HIDE DEF T
  <2> QED
    BY <1>1, <1>3, LeastElement
<1>5. \A y \in S : n - y \in T
  <2>1. \A y \in S : n - (n - y) = y /\ n - y \in 0..n
    OBVIOUS
  <2> QED
    BY <2>1
<1>6. n - k \in S /\ \A y \in S : y <= n - k
  BY <1>4, <1>5
<1>7. \E m \in S : \A y \in S : m >= y
  BY <1>6
<1> QED
  BY <1>7 DEF Max

\* The smaller and the greater of two numbers.
LEMMA OfTwo ==
    ASSUME NEW a \in Int, NEW b \in Int
    PROVE  /\ Min({a, b}) = IF a <= b THEN a ELSE b
           /\ Max({a, b}) = IF a <= b THEN b ELSE a
BY DEF Min, Max

--------------------------------------------------------------------------------
(****************************************************************************)
(* A page.                                                                  *)
(****************************************************************************)

\* Function R with x at d, and without d.
With(R, d, x) == [e \in DOMAIN R \cup {d} |-> IF e = d THEN x ELSE R[e]]
Without(R, d) == [e \in DOMAIN R \ {d} |-> R[e]]

\* The cells of row r, and what the i-th of them holds.
Size(r) == RecordSize(r.length)
CellOf(r, i) == IF i = TUPLE_HEADER_SIZE THEN r.length ELSE r.tag

\* Page pg has the rows R, a function of the slots that are taken: they lie behind
\* the free space and do not overlap, and every other slot is marked as free.
Layout(pg, R) ==
    /\ pg \in [Cells -> Int]
    /\ pg[0] \in Nat /\ pg[1] \in Nat /\ 2 + pg[0] + pg[1] <= SIZE
    /\ DOMAIN R \subseteq 0..(pg[0] - 1)
    /\ \A d \in DOMAIN R : R[d] \in Row
    /\ \A d \in 0..(pg[0] - 1) : d \notin DOMAIN R => pg[2 + d] < 0
    /\ \A d \in DOMAIN R : 2 + pg[0] + pg[1] <= pg[2 + d] /\ pg[2 + d] + Size(R[d]) <= SIZE
    /\ \A d \in DOMAIN R : \A i \in 0..(Size(R[d]) - 1) : pg[pg[2 + d] + i] = CellOf(R[d], i)
    /\ \A d, e \in DOMAIN R : d # e => \/ pg[2 + d] + Size(R[d]) <= pg[2 + e]
                                       \/ pg[2 + e] + Size(R[e]) <= pg[2 + d]

\* The sizes, as numbers.
LEMMA Sizes ==
    /\ HEADER_SIZE = 2 /\ DIR_SIZE = 1 /\ SIZE \in Nat /\ SIZE >= 3
    /\ TUPLE_HEADER_SIZE \in Nat /\ TUPLE_HEADER_SIZE > 0
    /\ \A d \in Int : DirOffset(d) = 2 + d
    /\ \A r \in Row : /\ r.length \in Nat /\ r.tag \in Nat
                      /\ RecordSize(r.length) = TUPLE_HEADER_SIZE + 1 + r.length
                      /\ RecordSize(r.length) \in Nat /\ RecordSize(r.length) >= 2
                      /\ RecordSize(r.length) + 3 <= SIZE
<1>1. /\ HEADER_SIZE = 2 /\ DIR_SIZE = 1 /\ SIZE \in Nat /\ SIZE >= 3
      /\ TUPLE_HEADER_SIZE \in Nat /\ TUPLE_HEADER_SIZE > 0
  BY HeapFilePageAssumption DEF HEADER_SIZE, DIR_SIZE
<1>2. \A d \in Int : DirOffset(d) = 2 + d
  BY <1>1 DEF DirOffset
<1>3. ASSUME NEW r \in Row
      PROVE  /\ r.length \in Nat /\ r.tag \in Nat
             /\ RecordSize(r.length) = TUPLE_HEADER_SIZE + 1 + r.length
             /\ RecordSize(r.length) + 3 <= SIZE
  <2>1. r.length \in Lengths /\ r.tag \in 1..MaxRows
    BY DEF Row, Tags
  <2>2. Lengths \subseteq Nat /\ MaxRows \in Nat
    BY HeapFilePageAssumption, Zenon
  <2>3. 1..MaxRows \subseteq Nat
    BY <2>2
  <2>4. r.length \in Nat /\ r.tag \in Nat
    BY <2>1, <2>2, <2>3, Zenon
  <2>5. HEADER_SIZE + DIR_SIZE + RecordSize(r.length) <= SIZE
    BY <2>1, HeapFilePageAssumption, Zenon
  <2> QED
    BY <1>1, <2>4, <2>5 DEF RecordSize
<1> QED
  BY <1>1, <1>2, <1>3

\* A row has cells, and there is room for it in an empty page.
LEMMA RowSize ==
    ASSUME NEW r \in Row
    PROVE  /\ Size(r) \in Nat /\ Size(r) >= 2 /\ Size(r) + 3 <= SIZE
           /\ RecordSize(r.length) = Size(r)
           /\ TUPLE_HEADER_SIZE \in 0..(Size(r) - 1)
           /\ \A i : CellOf(r, i) \in Int
<1>1. /\ r.length \in Nat /\ r.tag \in Nat
      /\ RecordSize(r.length) = TUPLE_HEADER_SIZE + 1 + r.length
      /\ RecordSize(r.length) + 3 <= SIZE
      /\ TUPLE_HEADER_SIZE \in Nat /\ TUPLE_HEADER_SIZE > 0 /\ SIZE \in Nat
  BY Sizes
<1>2. PICK n \in Nat : n = r.length
  BY <1>1
<1>3. /\ Size(r) \in Nat /\ Size(r) >= 2 /\ Size(r) + 3 <= SIZE
      /\ TUPLE_HEADER_SIZE \in 0..(Size(r) - 1)
  BY <1>1, <1>2 DEF Size
<1>4. \A i : CellOf(r, i) \in Int
  <2>1. r.length \in Int /\ r.tag \in Int
    BY <1>1
  <2> QED
    BY <2>1, Zenon DEF CellOf
<1> QED
  BY <1>3, <1>4 DEF Size

\* The header and the directory of a page, as numbers.
LEMMA LayoutFacts ==
    ASSUME NEW pg, NEW R, Layout(pg, R)
    PROVE  /\ GetDirCount(pg) = pg[0] /\ GetFreeSpace(pg) = pg[1]
           /\ Slots(pg) = 0..(pg[0] - 1)
           /\ \A d \in 0..(pg[0] - 1) : /\ d \in Cells /\ 2 + d \in Cells
                                        /\ GetDir(pg, d) = pg[2 + d] /\ pg[2 + d] \in Int
<1>1. pg[0] \in Nat /\ pg[1] \in Nat /\ 2 + pg[0] + pg[1] <= SIZE /\ pg \in [Cells -> Int]
  BY DEF Layout
<1>2. GetDirCount(pg) = pg[0] /\ GetFreeSpace(pg) = pg[1] /\ Slots(pg) = 0..(pg[0] - 1)
  BY DEF GetDirCount, GetFreeSpace, Slots
<1>3. ASSUME NEW d \in 0..(pg[0] - 1)
      PROVE  d \in Cells /\ 2 + d \in Cells /\ GetDir(pg, d) = pg[2 + d] /\ pg[2 + d] \in Int
  <2>1. PICK n \in Nat, f \in Nat : n = pg[0] /\ f = pg[1]
    BY <1>1
  <2>2. SIZE \in Nat
    BY Sizes
  <2>3. d \in 0..(n - 1) /\ 2 + n + f <= SIZE
    BY <1>1, <2>1
  <2>4. d \in Cells /\ 2 + d \in Cells
    BY <2>2, <2>3 DEF Cells
  <2>5. DirOffset(d) = 2 + d
    BY <1>1, Sizes
  <2> QED
    BY <1>1, <2>4, <2>5 DEF GetDir, At
<1> QED
  BY <1>2, <1>3

\* get_record returns a row as it was inserted.
LEMMA RecordIsRead ==
    ASSUME NEW pg, NEW R, Layout(pg, R), NEW d \in DOMAIN R
    PROVE  /\ RecordLength(pg, GetDir(pg, d)) = Size(R[d])
           /\ GetRecord(pg, d) = Encoded(R[d])
           /\ GetRecord(pg, d) # <<>>
<1> DEFINE off == pg[2 + d]
           n == Size(R[d])
<1>1. d \in 0..(pg[0] - 1) /\ R[d] \in Row
  BY DEF Layout
<1>2. GetDir(pg, d) = off /\ off \in Int
  BY <1>1, LayoutFacts
<1>3. n \in Nat /\ n >= 2 /\ TUPLE_HEADER_SIZE \in 0..(n - 1)
  BY <1>1, RowSize
<1>4. off >= 2 /\ off + n <= SIZE
  BY <1>2, <1>3 DEF Layout
<1>5. \A i \in 0..(n - 1) : pg[off + i] = CellOf(R[d], i)
  BY DEF Layout
<1>6. At(pg, off + TUPLE_HEADER_SIZE) = R[d].length
  <2>1. off + TUPLE_HEADER_SIZE \in Cells
    BY <1>2, <1>3, <1>4, Sizes DEF Cells
  <2> QED
    BY <1>3, <1>5, <2>1 DEF CellOf, At
<1>7. RecordLength(pg, off) = Min({n, SIZE - off})
  BY <1>6 DEF RecordLength, Size
<1>8. RecordLength(pg, off) = n
  <2>1. SIZE - off \in Int /\ n <= SIZE - off
    BY <1>2, <1>3, <1>4, Sizes
  <2> HIDE DEF n, off
  <2> QED
    BY <1>3, <1>7, <2>1, OfTwo
<1>9. GetRecord(pg, d) = [c \in 1..n |-> pg[off + c - 1]]
  <2>1. \A c \in 1..n : off + c - 1 \in Cells
    BY <1>2, <1>3, <1>4, Sizes DEF Cells
  <2>2. \A c \in 1..n : At(pg, off + c - 1) = pg[off + c - 1]
    BY <2>1 DEF At
  <2>3. GetRecord(pg, d) = [c \in 1..n |-> At(pg, off + c - 1)]
    BY <1>2, <1>4, <1>8 DEF GetRecord
  <2> QED
    BY <2>2, <2>3
<1>10. ASSUME NEW c \in 1..n
       PROVE  pg[off + c - 1] = IF c = TUPLE_HEADER_SIZE + 1 THEN R[d].length ELSE R[d].tag
  <2>1. c - 1 \in 0..(n - 1) /\ off + c - 1 = off + (c - 1)
        /\ (c = TUPLE_HEADER_SIZE + 1 <=> c - 1 = TUPLE_HEADER_SIZE)
    BY <1>2, <1>3
  <2> QED
    BY <1>5, <2>1 DEF CellOf
<1>11. GetRecord(pg, d) = Encoded(R[d])
  BY <1>9, <1>10 DEF Encoded, Size
<1>12. GetRecord(pg, d) # <<>>
  <2>1. DOMAIN GetRecord(pg, d) = 1..n /\ 1 \in 1..n
    BY <1>3, <1>9
  <2>2. DOMAIN <<>> = {}
    OBVIOUS
  <2> QED
    BY <2>1, <2>2
<1> QED
  BY <1>2, <1>8, <1>11, <1>12

\* try_insert_record puts a row that fits into a slot that is free, between the
\* directory and the records, and leaves the other rows where they are.
LEMMA InsertKeepsLayout ==
    ASSUME NEW pg, NEW R, Layout(pg, R), NEW r \in Row, Fits(pg, r)
    PROVE  /\ FreeSlot(pg) \in Cells \ DOMAIN R
           /\ Layout(Inserted(pg, r), With(R, FreeSlot(pg), r))
<1>1. PICK n \in Nat, f \in Nat : n = pg[0] /\ f = pg[1]
  BY DEF Layout
<1>2. 2 + n + f <= SIZE /\ SIZE \in Nat
  BY <1>1, Sizes DEF Layout
<1>3. PICK d \in 0..n : d = FreeSlot(pg) /\ d \notin DOMAIN R
  <2> DEFINE S == {x \in Slots(pg) : GetDir(pg, x) <= 0} \cup {GetDirCount(pg)}
  <2>1. Slots(pg) = 0..(n - 1) /\ GetDirCount(pg) = n
    BY <1>1, LayoutFacts
  <2>2. S \subseteq 0..n /\ S # {}
    BY <2>1
  <2>3. FreeSlot(pg) \in S
    <3>1. FreeSlot(pg) = Min(S)
      BY DEF FreeSlot
    <3>2. S \subseteq Nat
      BY <2>2
    <3> HIDE DEF S
    <3> QED
      BY <2>2, <3>1, <3>2, LeastElement
  <2>4. ASSUME NEW x \in DOMAIN R PROVE x \notin S
    <3>1. x \in 0..(n - 1) /\ 2 + n + f <= pg[2 + x]
      BY <1>1 DEF Layout
    <3>2. GetDir(pg, x) = pg[2 + x] /\ pg[2 + x] \in Int
      BY <1>1, <3>1, LayoutFacts
    <3>3. ~(GetDir(pg, x) <= 0) /\ x # n
      BY <3>1, <3>2
    <3> QED
      BY <2>1, <3>3
  <2> QED
    BY <2>2, <2>3, <2>4
<1> DEFINE s == Size(r)
<1>4. s \in Nat /\ s >= 2 /\ RecordSize(r.length) = s /\ TUPLE_HEADER_SIZE \in 0..(s - 1)
  BY RowSize
<1>5. PICK m \in Nat : m = Max({GetDirCount(pg), d + 1}) /\ (m = IF d < n THEN n ELSE n + 1)
  <2>1. GetDirCount(pg) = n
    BY <1>1, LayoutFacts
  <2>2. Max({n, d + 1}) = IF n <= d + 1 THEN d + 1 ELSE n
    BY OfTwo
  <2> QED
    BY <2>1, <2>2
<1>6. PICK g \in Nat : g = GetFreeSpace(pg) - NeededSpace(pg, r) /\ 2 + m + g + s = 2 + n + f
  <2>1. GetDirCount(pg) = n /\ GetFreeSpace(pg) = f
    BY <1>1, LayoutFacts
  <2>2. NeededSpace(pg, r) = s + IF d < n THEN 0 ELSE 1
    BY <1>3, <1>4, <2>1, Sizes DEF NeededSpace
  <2>3. NeededSpace(pg, r) <= f
    BY <2>1 DEF Fits
  <2> HIDE DEF s
  <2>4. PICK k \in Nat : k = NeededSpace(pg, r) /\ k <= f /\ m + s = n + k
    BY <1>4, <1>5, <2>2, <2>3
  <2>5. GetFreeSpace(pg) - NeededSpace(pg, r) = f - k
    BY <2>1, <2>4
  <2>6. f - k \in Nat /\ 2 + m + (f - k) + s = 2 + n + f
    BY <1>4, <2>4
  <2> QED
    BY <2>5, <2>6
<1> DEFINE off == 2 + m + g
           q == Inserted(pg, r)
<1>7. /\ off \in Nat /\ 2 + d < off /\ off + s = 2 + n + f /\ off + s <= SIZE
      /\ 0 \in Cells /\ 1 \in Cells /\ 2 + d \in Cells
  <2> HIDE DEF s
  <2> QED
    BY <1>2, <1>4, <1>5, <1>6 DEF Cells
<1>8. q = [c \in Cells |->
              IF c \in off..(off + s - 1) THEN Encoded(r)[c - off + 1]
              ELSE IF c = 2 + d THEN off ELSE IF c = 0 THEN m ELSE IF c = 1 THEN g ELSE pg[c]]
  <2>1. DirOffset(d) = 2 + d /\ HEADER_SIZE + DIR_SIZE * m + g = off
    BY <1>5, <1>6, Sizes
  <2>2. Inserted(pg, r) =
          [c \in Cells |->
              CASE c \in off..(off + RecordSize(r.length) - 1) -> Encoded(r)[c - off + 1]
                [] c = DirOffset(d) -> off
                [] c = 0 -> m
                [] c = 1 -> g
                [] OTHER -> pg[c]]
    <3> HIDE DEF off
    <3> QED
      BY <1>3, <1>5, <1>6, <2>1 DEF Inserted
  <2>3. ASSUME NEW c \in off..(off + s - 1) PROVE c # 2 + d /\ c # 0 /\ c # 1
    BY <1>4, <1>7
  <2>4. 2 + d # 0 /\ 2 + d # 1
    OBVIOUS
  <2> HIDE DEF off, s
  <2> QED
    BY <1>4, <2>1, <2>2, <2>3, <2>4
<1> HIDE DEF q, s
<1>9. q[0] = m /\ q[1] = g /\ q[2 + d] = off
  BY <1>4, <1>7, <1>8
<1>10. ASSUME NEW i \in 0..(s - 1) PROVE off + i \in Cells /\ q[off + i] = CellOf(r, i)
  <2>1. off + i \in Cells /\ off + i \in off..(off + s - 1)
    BY <1>2, <1>4, <1>7 DEF Cells
  <2>2. q[off + i] = Encoded(r)[i + 1]
    <3>1. (off + i) - off + 1 = i + 1
      BY <1>7
    <3> HIDE DEF off
    <3> QED
      BY <1>8, <2>1, <3>1
  <2>3. i + 1 \in 1..RecordSize(r.length)
    BY <1>4
  <2>4. i + 1 = TUPLE_HEADER_SIZE + 1 <=> i = TUPLE_HEADER_SIZE
    BY <1>4
  <2>5. Encoded(r)[i + 1] = CellOf(r, i)
    BY <2>3, <2>4 DEF Encoded, CellOf
  <2> QED
    BY <2>1, <2>2, <2>5
<1>11. ASSUME NEW c \in Cells, c # 0, c # 1, c # 2 + d, c < off \/ off + s <= c
       PROVE  q[c] = pg[c]
  <2>1. c \notin off..(off + s - 1)
    BY <1>4, <1>7, <1>11 DEF Cells
  <2> HIDE DEF off
  <2> QED
    BY <1>8, <1>11, <2>1
<1>12. q \in [Cells -> Int]
  <2>1. ASSUME NEW c \in Cells PROVE q[c] \in Int
    <3>1. c \in Nat
      BY DEF Cells
    <3>2. CASE c \in off..(off + s - 1)
      <4>1. c - off \in 0..(s - 1) /\ off + (c - off) = c
        BY <1>4, <1>7, <3>1, <3>2
      <4>2. q[c] = CellOf(r, c - off)
        BY <1>10, <4>1
      <4> QED
        BY <4>2, RowSize
    <3>3. CASE c = 0 \/ c = 1 \/ c = 2 + d
      BY <1>7, <1>9, <3>3
    <3>4. CASE ~(c \in off..(off + s - 1)) /\ c # 0 /\ c # 1 /\ c # 2 + d
      <4>1. c < off \/ off + s <= c
        BY <1>4, <1>7, <3>1, <3>4
      <4>2. q[c] = pg[c]
        BY <1>11, <3>4, <4>1
      <4> QED
        BY <4>2 DEF Layout
    <3> QED
      BY <3>2, <3>3, <3>4
  <2>2. DOMAIN q = Cells /\ q = [c \in Cells |-> q[c]]
    BY <1>8
  <2> QED
    BY <2>1, <2>2
<1> DEFINE Q == With(R, d, r)
<1>13. /\ DOMAIN Q = DOMAIN R \cup {d} /\ Q[d] = r
       /\ \A e \in DOMAIN R : Q[e] = R[e] /\ e # d
  BY <1>3 DEF With
<1>14. ASSUME NEW e \in DOMAIN R
       PROVE  /\ e \in 0..(n - 1) /\ R[e] \in Row /\ Size(R[e]) \in Nat
              /\ q[2 + e] = pg[2 + e] /\ q[2 + e] \in Int
              /\ 2 + n + f <= q[2 + e] /\ q[2 + e] + Size(R[e]) <= SIZE
              /\ \A i \in 0..(Size(R[e]) - 1) : q[q[2 + e] + i] = CellOf(R[e], i)
  <2>1. e \in 0..(n - 1) /\ R[e] \in Row /\ e # d
    BY <1>1, <1>3 DEF Layout
  <2>2. Size(R[e]) \in Nat
    BY <2>1, RowSize
  <2>3. 2 + e \in Cells /\ pg[2 + e] \in Int
    BY <1>1, <2>1, LayoutFacts
  <2>4. 2 + e < off
    BY <1>5, <1>6, <2>1
  <2>5. q[2 + e] = pg[2 + e]
    BY <1>11, <2>1, <2>3, <2>4
  <2>6. 2 + n + f <= pg[2 + e] /\ pg[2 + e] + Size(R[e]) <= SIZE
    BY <1>1 DEF Layout
  <2>7. ASSUME NEW i \in 0..(Size(R[e]) - 1) PROVE q[pg[2 + e] + i] = CellOf(R[e], i)
    <3>1. PICK o \in Int : o = pg[2 + e]
      BY <2>3
    <3>2. /\ o + i \in Cells /\ o + i # 0 /\ o + i # 1 /\ o + i # 2 + d /\ off + s <= o + i
      BY <1>2, <1>4, <1>7, <2>2, <2>6, <3>1 DEF Cells
    <3>3. q[o + i] = pg[o + i]
      BY <1>11, <3>2
    <3>4. pg[pg[2 + e] + i] = CellOf(R[e], i)
      BY DEF Layout
    <3> QED
      BY <3>1, <3>3, <3>4
  <2> QED
    BY <2>1, <2>2, <2>3, <2>5, <2>6, <2>7
<1> HIDE DEF Q
<1>15. Layout(q, Q)
  <2>1. q[0] \in Nat /\ q[1] \in Nat /\ 2 + q[0] + q[1] <= SIZE
    <3>1. 2 + m + g <= SIZE
      BY <1>2, <1>4, <1>7
    <3> QED
      BY <1>9, <3>1
  <2>2. DOMAIN Q \subseteq 0..(q[0] - 1)
    <3>1. d \in 0..(m - 1) /\ \A e \in 0..(n - 1) : e \in 0..(m - 1)
      BY <1>5
    <3> QED
      BY <1>9, <1>13, <1>14, <3>1
  <2>3. \A e \in DOMAIN Q : Q[e] \in Row
    BY <1>13, <1>14
  <2>4. ASSUME NEW e \in 0..(q[0] - 1), e \notin DOMAIN Q PROVE q[2 + e] < 0
    <3>1. e \in 0..(m - 1) /\ e # d /\ e \notin DOMAIN R
      BY <1>9, <1>13, <2>4
    <3>2. e \in 0..(n - 1)
      BY <1>5, <3>1
    <3>3. 2 + e \in Cells /\ pg[2 + e] < 0
      <4>1. 2 + e \in Cells
        BY <1>1, <3>2, LayoutFacts
      <4> QED
        BY <1>1, <3>1, <3>2, <4>1 DEF Layout
    <3>4. 2 + e < off /\ 2 + e # 2 + d
      BY <1>6, <3>1
    <3>5. q[2 + e] = pg[2 + e]
      BY <1>11, <3>2, <3>3, <3>4
    <3> QED
      BY <3>3, <3>5
  <2>5. ASSUME NEW e \in DOMAIN Q
        PROVE  /\ 2 + q[0] + q[1] <= q[2 + e] /\ q[2 + e] + Size(Q[e]) <= SIZE
               /\ \A i \in 0..(Size(Q[e]) - 1) : q[q[2 + e] + i] = CellOf(Q[e], i)
    <3>1. CASE e = d
      <4>1. q[2 + e] = off /\ Q[e] = r
        BY <1>9, <1>13, <3>1
      <4>2. 2 + q[0] + q[1] <= q[2 + e] /\ q[2 + e] + Size(Q[e]) <= SIZE
        BY <1>7, <1>9, <4>1 DEF s
      <4>3. \A i \in 0..(Size(Q[e]) - 1) : q[q[2 + e] + i] = CellOf(Q[e], i)
        BY <1>10, <4>1 DEF s
      <4> QED
        BY <4>2, <4>3
    <3>2. CASE e \in DOMAIN R
      <4>1. Q[e] = R[e]
        BY <1>13, <3>2
      <4>2. 2 + m + g <= 2 + n + f
        BY <1>4, <1>6
      <4>3. 2 + q[0] + q[1] <= q[2 + e]
        BY <1>9, <1>14, <3>2, <4>2
      <4> QED
        BY <1>14, <3>2, <4>1, <4>3
    <3> QED
      BY <1>13, <3>1, <3>2
  <2>6. ASSUME NEW e1 \in DOMAIN Q, NEW e2 \in DOMAIN Q, e1 # e2
        PROVE  \/ q[2 + e1] + Size(Q[e1]) <= q[2 + e2]
               \/ q[2 + e2] + Size(Q[e2]) <= q[2 + e1]
    <3>1. ASSUME NEW e \in DOMAIN R PROVE q[2 + d] + Size(Q[d]) <= q[2 + e]
      BY <1>7, <1>9, <1>13, <1>14, <3>1 DEF s
    <3>2. CASE e1 = d \/ e2 = d
      BY <1>13, <2>6, <3>1, <3>2
    <3>3. CASE e1 \in DOMAIN R /\ e2 \in DOMAIN R
      <4>1. \/ pg[2 + e1] + Size(R[e1]) <= pg[2 + e2]
            \/ pg[2 + e2] + Size(R[e2]) <= pg[2 + e1]
        BY <2>6, <3>3 DEF Layout
      <4> QED
        BY <1>13, <1>14, <3>3, <4>1
    <3> QED
      BY <1>13, <3>2, <3>3
  <2> QED
    BY <1>12, <2>1, <2>2, <2>3, <2>4, <2>5, <2>6 DEF Layout
<1>16. d \in Cells
  BY <1>2, <1>7 DEF Cells
<1> QED
  BY <1>3, <1>15, <1>16 DEF q, Q

\* delete_record_physically frees the slot and leaves the other rows alone.
LEMMA DeleteKeepsLayout ==
    ASSUME NEW pg, NEW R, Layout(pg, R), NEW d \in DOMAIN R
    PROVE  /\ Layout(Deleted(pg, d), Without(R, d))
           /\ Deleted(pg, d)[0] = pg[0]
<1> DEFINE q == Deleted(pg, d)
           Q == Without(R, d)
<1>1. PICK n \in Nat, f \in Nat : n = pg[0] /\ f = pg[1]
  BY DEF Layout
<1>2. 2 + n + f <= SIZE /\ SIZE \in Nat /\ d \in 0..(n - 1)
  BY <1>1, Sizes DEF Layout
<1>3. q = [pg EXCEPT ![2 + d] = -2] /\ pg \in [Cells -> Int] /\ 2 + d \in Cells
  <2>1. DirOffset(d) = 2 + d
    BY <1>2, Sizes
  <2> QED
    BY <1>1, <1>2, <2>1, LayoutFacts DEF Deleted, Layout
<1> HIDE DEF q
<1>4. q \in [Cells -> Int] /\ q[2 + d] = -2 /\ \A c \in Cells : c # 2 + d => q[c] = pg[c]
  BY <1>3
<1>5. q[0] = n /\ q[1] = f
  <2>1. 0 \in Cells /\ 1 \in Cells /\ 0 # 2 + d /\ 1 # 2 + d
    BY <1>2 DEF Cells
  <2> QED
    BY <1>1, <1>4, <2>1
<1>6. DOMAIN Q = DOMAIN R \ {d} /\ \A e \in DOMAIN Q : Q[e] = R[e] /\ e \in DOMAIN R /\ e # d
  BY DEF Without
<1>7. ASSUME NEW e \in 0..(n - 1), e # d PROVE q[2 + e] = pg[2 + e] /\ pg[2 + e] \in Int
  <2>1. 2 + e \in Cells /\ 2 + e # 2 + d /\ pg[2 + e] \in Int
    BY <1>1, <1>2, <1>7, LayoutFacts
  <2> QED
    BY <1>4, <2>1
<1>8. ASSUME NEW e \in DOMAIN R, e # d
      PROVE  /\ e \in 0..(n - 1) /\ R[e] \in Row /\ q[2 + e] = pg[2 + e]
             /\ 2 + n + f <= pg[2 + e] /\ pg[2 + e] + Size(R[e]) <= SIZE
             /\ \A i \in 0..(Size(R[e]) - 1) : q[pg[2 + e] + i] = CellOf(R[e], i)
  <2>1. /\ e \in 0..(n - 1) /\ R[e] \in Row
        /\ 2 + n + f <= pg[2 + e] /\ pg[2 + e] + Size(R[e]) <= SIZE
    BY <1>1 DEF Layout
  <2>2. Size(R[e]) \in Nat
    BY <2>1, RowSize
  <2>3. q[2 + e] = pg[2 + e] /\ pg[2 + e] \in Int
    BY <1>7, <1>8, <2>1
  <2>4. ASSUME NEW i \in 0..(Size(R[e]) - 1) PROVE q[pg[2 + e] + i] = CellOf(R[e], i)
    <3>1. PICK o \in Int : o = pg[2 + e]
      BY <2>3
    <3>2. o + i \in Cells /\ o + i # 2 + d
      BY <1>2, <2>1, <2>2, <3>1 DEF Cells
    <3>3. q[o + i] = pg[o + i]
      BY <1>4, <3>2
    <3>4. pg[pg[2 + e] + i] = CellOf(R[e], i)
      BY DEF Layout
    <3> QED
      BY <3>1, <3>3, <3>4
  <2> QED
    BY <2>1, <2>3, <2>4
<1> HIDE DEF Q
<1>9. Layout(q, Q)
  <2>1. q[0] \in Nat /\ q[1] \in Nat /\ 2 + q[0] + q[1] <= SIZE
    BY <1>2, <1>5
  <2>2. DOMAIN Q \subseteq 0..(q[0] - 1) /\ \A e \in DOMAIN Q : Q[e] \in Row
    BY <1>5, <1>6, <1>8
  <2>3. ASSUME NEW e \in 0..(q[0] - 1), e \notin DOMAIN Q PROVE q[2 + e] < 0
    <3>1. CASE e = d
      BY <1>4, <3>1
    <3>2. CASE e # d
      <4>1. e \in 0..(n - 1) /\ e \notin DOMAIN R
        BY <1>5, <1>6, <2>3, <3>2
      <4>2. q[2 + e] = pg[2 + e] /\ pg[2 + e] < 0
        BY <1>1, <1>7, <3>2, <4>1 DEF Layout
      <4> QED
        BY <4>2
    <3> QED
      BY <3>1, <3>2
  <2>4. ASSUME NEW e \in DOMAIN Q
        PROVE  /\ 2 + q[0] + q[1] <= q[2 + e] /\ q[2 + e] + Size(Q[e]) <= SIZE
               /\ \A i \in 0..(Size(Q[e]) - 1) : q[q[2 + e] + i] = CellOf(Q[e], i)
    BY <1>5, <1>6, <1>8
  <2>5. ASSUME NEW e1 \in DOMAIN Q, NEW e2 \in DOMAIN Q, e1 # e2
        PROVE  \/ q[2 + e1] + Size(Q[e1]) <= q[2 + e2]
               \/ q[2 + e2] + Size(Q[e2]) <= q[2 + e1]
    <3>1. \/ pg[2 + e1] + Size(R[e1]) <= pg[2 + e2]
          \/ pg[2 + e2] + Size(R[e2]) <= pg[2 + e1]
      BY <1>6, <2>5 DEF Layout
    <3> QED
      BY <1>6, <1>8, <3>1
  <2> QED
    BY <1>4, <2>1, <2>2, <2>3, <2>4, <2>5 DEF Layout
<1> QED
  BY <1>1, <1>5, <1>9 DEF q, Q

\* The constructor does no harm to a page that has no entry, however often it runs.
LEMMA InitKeepsLayout ==
    ASSUME NEW pg, NEW R, Layout(pg, R), GetDirCount(pg) = 0
    PROVE  Layout(Initialized(pg), R)
<1>1. pg[0] = 0 /\ SIZE \in Nat /\ SIZE >= 3 /\ HEADER_SIZE = 2
  BY Sizes DEF GetDirCount
<1>2. DOMAIN R = {}
  <2>1. DOMAIN R \subseteq 0..(pg[0] - 1)
    BY DEF Layout
  <2>2. 0..(0 - 1) = {}
    OBVIOUS
  <2> QED
    BY <1>1, <2>1, <2>2
<1>3. 0 \in Cells /\ 1 \in Cells
  BY <1>1 DEF Cells
<1> DEFINE q == Initialized(pg)
<1>4. q \in [Cells -> Int] /\ q[0] = 0 /\ q[1] = SIZE - 2
  BY <1>1, <1>3 DEF Initialized, Layout
<1> HIDE DEF q
<1>5. q[0] \in Nat /\ q[1] \in Nat /\ 2 + q[0] + q[1] <= SIZE /\ 0..(q[0] - 1) = {}
  BY <1>1, <1>4
<1>6. Layout(q, R)
  BY <1>2, <1>4, <1>5 DEF Layout
<1> QED
  BY <1>6 DEF q

--------------------------------------------------------------------------------
(****************************************************************************)
(* VACUUM of a page.                                                        *)
(****************************************************************************)

\* The cells of the rows in the slots up to i, as pairs of a slot and a position.
RowCells(pg, R, i) ==
    {x \in (0..(pg[0] - 1)) \X (1..SIZE) :
        x[1] \in DOMAIN R /\ x[1] <= i /\ x[2] <= Size(R[x[1]])}

\* vacuum() keeps exactly the slots that hold a row, and as many cells as the row has.
LEMMA KeptRows ==
    ASSUME NEW pg, NEW R, Layout(pg, R)
    PROVE  /\ Kept(pg) = DOMAIN R
           /\ \A d \in DOMAIN R : KeptSize(pg, d) = Size(R[d])
           /\ \A i : KeptCells(pg, i) = RowCells(pg, R, i)
<1>1. PICK n \in Nat, f \in Nat : n = pg[0] /\ f = pg[1]
  BY DEF Layout
<1>2. /\ Slots(pg) = 0..(n - 1) /\ DOMAIN R \subseteq 0..(n - 1)
      /\ \A d \in 0..(n - 1) : GetDir(pg, d) = pg[2 + d] /\ pg[2 + d] \in Int
  BY <1>1, LayoutFacts DEF Layout
<1>3. \A d \in DOMAIN R : 2 + n + f <= pg[2 + d]
  BY <1>1 DEF Layout
<1>4. Kept(pg) = DOMAIN R
  <2>1. \A d \in 0..(n - 1) : d \notin DOMAIN R => pg[2 + d] < 0
    BY <1>1 DEF Layout
  <2>2. \A d \in 0..(n - 1) : GetDir(pg, d) >= 0 <=> d \in DOMAIN R
    BY <1>2, <1>3, <2>1
  <2> QED
    BY <1>2, <2>2 DEF Kept
<1>5. ASSUME NEW d \in DOMAIN R PROVE KeptSize(pg, d) = Size(R[d])
  <2>1. ~(GetDir(pg, d) <= 0)
    BY <1>2, <1>3
  <2> QED
    BY <2>1, RecordIsRead DEF KeptSize
<1>6. ASSUME NEW i PROVE KeptCells(pg, i) = RowCells(pg, R, i)
  <2>1. \A d \in DOMAIN R : Size(R[d]) \in Nat /\ Size(R[d]) <= SIZE
    <3>1. ASSUME NEW d \in DOMAIN R PROVE Size(R[d]) \in Nat /\ Size(R[d]) + 3 <= SIZE
      BY RowSize DEF Layout
    <3>2. SIZE \in Nat
      BY Sizes
    <3> QED
      BY <3>1, <3>2
  <2>2. SIZE \in Nat
    BY Sizes
  <2>3. ASSUME NEW x \in KeptCells(pg, i) PROVE x \in RowCells(pg, R, i)
    <3>1. PICK d \in DOMAIN R : d <= i /\ x \in {d} \X (1..KeptSize(pg, d))
      BY <1>4 DEF KeptCells
    <3>2. x \in {d} \X (1..Size(R[d]))
      BY <1>5, <3>1
    <3>3. PICK j \in 1..Size(R[d]) : x = <<d, j>>
      BY <3>2
    <3>4. j \in 1..SIZE /\ d \in 0..(pg[0] - 1)
      BY <1>1, <1>2, <2>1, <2>2
    <3> QED
      BY <3>1, <3>3, <3>4 DEF RowCells
  <2>4. ASSUME NEW x \in RowCells(pg, R, i) PROVE x \in KeptCells(pg, i)
    <3>1. PICK d \in 0..(pg[0] - 1), j \in 1..SIZE :
            x = <<d, j>> /\ d \in DOMAIN R /\ d <= i /\ j <= Size(R[d])
      BY DEF RowCells
    <3>2. j \in 1..Size(R[d])
      BY <2>1, <3>1
    <3>3. x \in {d} \X (1..KeptSize(pg, d))
      BY <1>5, <3>1, <3>2
    <3> QED
      BY <1>4, <3>1, <3>3 DEF KeptCells
  <2> QED
    BY <2>3, <2>4
<1> QED
  BY <1>4, <1>5, <1>6

\* How many cells the rows up to a slot have: the slots add up, and together the
\* rows take no more than what is behind the free space.
LEMMA KeptCounts ==
    ASSUME NEW pg, NEW R, Layout(pg, R)
    PROVE  /\ \A i \in Int : IsFiniteSet(KeptCells(pg, i)) /\ Cardinality(KeptCells(pg, i)) \in Nat
           /\ \A i \in Int : Cardinality(KeptCells(pg, i)) <= Cardinality(KeptCells(pg, pg[0] - 1))
           /\ \A d \in DOMAIN R : \A i \in Int : i < d =>
                Cardinality(KeptCells(pg, i)) + Size(R[d]) <= Cardinality(KeptCells(pg, d))
           /\ 2 + pg[0] + pg[1] + Cardinality(KeptCells(pg, pg[0] - 1)) <= SIZE
<1>1. PICK n \in Nat, f \in Nat : n = pg[0] /\ f = pg[1]
  BY DEF Layout
<1>2. /\ 2 + n + f <= SIZE /\ SIZE \in Nat /\ DOMAIN R \subseteq 0..(n - 1)
      /\ \A i : KeptCells(pg, i) = RowCells(pg, R, i)
  <2>1. SIZE \in Nat
    BY Sizes
  <2> QED
    BY <1>1, <2>1, KeptRows DEF Layout
<1>3. \A d \in DOMAIN R : Size(R[d]) \in Nat /\ R[d] \in Row
  BY RowSize DEF Layout
<1> DEFINE A(i) == KeptCells(pg, i)
           All == A(n - 1)
<1>4. \A i \in Int : A(i) \subseteq All
  BY <1>1, <1>2 DEF RowCells
<1>5. IsFiniteSet(All)
  <2>1. IsFiniteSet(0..(n - 1)) /\ IsFiniteSet(1..SIZE)
    BY <1>2, FS_Interval
  <2>2. IsFiniteSet((0..(n - 1)) \X (1..SIZE))
    BY <2>1, FS_Product
  <2>3. All \subseteq (0..(n - 1)) \X (1..SIZE)
    BY <1>1, <1>2 DEF RowCells
  <2> HIDE DEF All
  <2> QED
    BY <2>2, <2>3, FS_Subset
<1>6. ASSUME NEW i \in Int
      PROVE  IsFiniteSet(A(i)) /\ Cardinality(A(i)) \in Nat /\ Cardinality(A(i)) <= Cardinality(All)
  <2>1. A(i) \in SUBSET All
    BY <1>4
  <2> HIDE DEF A, All
  <2>2. IsFiniteSet(A(i)) /\ Cardinality(A(i)) <= Cardinality(All)
    BY <1>5, <2>1, FS_Subset
  <2> QED
    BY <2>2, FS_CardinalityType
<1>7. ASSUME NEW d \in DOMAIN R, NEW i \in Int, i < d
      PROVE  Cardinality(A(i)) + Size(R[d]) <= Cardinality(A(d))
  <2> DEFINE B == {d} \X (1..Size(R[d]))
  <2>1. d \in 0..(n - 1) /\ d \in Int
    BY <1>2
  <2>2. IsFiniteSet(B) /\ Cardinality(B) = Size(R[d])
    <3>1. IsFiniteSet({d}) /\ Cardinality({d}) = 1
      BY FS_Singleton
    <3>2. IsFiniteSet(1..Size(R[d])) /\ Cardinality(1..Size(R[d])) = Size(R[d])
      BY <1>3, FS_Interval
    <3>3. IsFiniteSet(B) /\ Cardinality(B) = 1 * Size(R[d])
      BY <3>1, <3>2, FS_Product
    <3> QED
      BY <1>3, <3>3
  <2>3. A(i) \cap B = {}
    <3>1. ASSUME NEW x \in A(i) PROVE x[1] <= i /\ x[1] \in 0..(n - 1)
      BY <1>1, <1>2 DEF RowCells
    <3>2. ASSUME NEW x \in B PROVE x[1] = d
      OBVIOUS
    <3>3. ~(d <= i)
      BY <1>7, <2>1
    <3> HIDE DEF A, B
    <3> QED
      BY <3>1, <3>2, <3>3
  <2>4. A(i) \cup B \subseteq A(d)
    <3>1. \A x \in A(i) : x \in A(d)
      <4>1. \A k \in 0..(n - 1) : k <= i => k <= d
        BY <1>7, <2>1
      <4> QED
        BY <1>1, <1>2, <4>1 DEF RowCells
    <3>2. ASSUME NEW j \in 1..Size(R[d]) PROVE <<d, j>> \in A(d)
      <4>1. Size(R[d]) + 3 <= SIZE /\ Size(R[d]) \in Nat
        BY <1>3, RowSize
      <4>2. j \in 1..SIZE /\ j <= Size(R[d]) /\ d <= d
        BY <1>2, <2>1, <4>1
      <4> QED
        BY <1>1, <1>2, <2>1, <4>2 DEF RowCells
    <3> QED
      BY <3>1, <3>2
  <2>5. IsFiniteSet(A(i)) /\ IsFiniteSet(A(d)) /\ Cardinality(A(i)) \in Nat
        /\ Cardinality(A(d)) \in Nat
    BY <1>6, <2>1
  <2> HIDE DEF A, B
  <2>6. Cardinality(A(i) \cup B) = Cardinality(A(i)) + Cardinality(B) - Cardinality(A(i) \cap B)
    BY <2>2, <2>5, FS_Union
  <2>7. Cardinality(A(i) \cap B) = 0
    BY <2>3, FS_EmptySet
  <2>8. Cardinality(A(i) \cup B) <= Cardinality(A(d))
    BY <2>4, <2>5, FS_Subset
  <2> QED
    BY <1>3, <2>2, <2>5, <2>6, <2>7, <2>8
<1>8. 2 + n + f + Cardinality(All) <= SIZE
  <2> DEFINE T == (2 + n + f)..(SIZE - 1)
             F == [x \in All |-> pg[2 + x[1]] + (x[2] - 1)]
  <2>1. \A x \in All : /\ x[1] \in DOMAIN R /\ x[2] \in Nat /\ 1 <= x[2]
                       /\ x[2] <= Size(R[x[1]]) /\ x = <<x[1], x[2]>>
    BY <1>2 DEF RowCells
  <2>2. \A d \in DOMAIN R : /\ pg[2 + d] \in Int /\ 2 + n + f <= pg[2 + d]
                            /\ pg[2 + d] + Size(R[d]) <= SIZE
    <3>1. ASSUME NEW d \in DOMAIN R PROVE pg[2 + d] \in Int
      <4>1. d \in 0..(pg[0] - 1)
        BY <1>1, <1>2
      <4> QED
        BY <4>1, LayoutFacts
    <3> QED
      BY <1>1, <3>1 DEF Layout
  <2> HIDE DEF A, All
  <2>3. ASSUME NEW x \in All PROVE F[x] \in T
    <3>1. PICK d \in DOMAIN R, j \in Nat, o \in Int, s \in Nat :
            /\ d = x[1] /\ j = x[2] /\ o = pg[2 + d] /\ s = Size(R[d])
            /\ 1 <= j /\ j <= s /\ 2 + n + f <= o /\ o + s <= SIZE
      BY <1>3, <2>1, <2>2
    <3>2. F[x] = o + (j - 1)
      BY <3>1
    <3>3. o + (j - 1) \in T
      BY <1>2, <3>1
    <3> QED
      BY <3>2, <3>3
  <2>4. ASSUME NEW x \in All, NEW y \in All, F[x] = F[y] PROVE x = y
    <3>1. PICK d \in DOMAIN R, j \in Nat, o \in Int, s \in Nat :
            /\ d = x[1] /\ j = x[2] /\ o = pg[2 + d] /\ s = Size(R[d])
            /\ 1 <= j /\ j <= s
      BY <1>3, <2>1, <2>2
    <3>2. PICK e \in DOMAIN R, k \in Nat, u \in Int, v \in Nat :
            /\ e = y[1] /\ k = y[2] /\ u = pg[2 + e] /\ v = Size(R[e])
            /\ 1 <= k /\ k <= v
      BY <1>3, <2>1, <2>2
    <3>3. o + (j - 1) = u + (k - 1)
      BY <2>4, <3>1, <3>2
    <3>4. d = e
      <4>1. d # e => o + s <= u \/ u + v <= o
        BY <3>1, <3>2 DEF Layout
      <4>2. ~(o + s <= u \/ u + v <= o)
        BY <3>1, <3>2, <3>3
      <4> QED
        BY <4>1, <4>2
    <3>5. j = k
      <4>1. o = u
        BY <3>1, <3>2, <3>4
      <4> QED
        BY <3>3, <4>1
    <3> QED
      BY <2>1, <3>1, <3>2, <3>4, <3>5
  <2>5. F \in [All -> T]
    BY <2>3
  <2>6. F \in Injection(All, T)
    BY <2>4, <2>5 DEF Injection, IsInjective
  <2>7. IsFiniteSet(T) /\ Cardinality(T) = SIZE - (2 + n + f)
    <3>1. 2 + n + f \in Int /\ SIZE - 1 \in Int
      BY <1>2
    <3>2. IsFiniteSet(T) /\ Cardinality(T) = IF 2 + n + f > SIZE - 1 THEN 0
                                             ELSE (SIZE - 1) - (2 + n + f) + 1
      BY <3>1, FS_Interval
    <3> QED
      BY <1>2, <3>2
  <2>8. Cardinality(All) <= Cardinality(T) /\ Cardinality(All) \in Nat
    <3> HIDE DEF T, F
    <3> QED
      BY <1>5, <2>6, <2>7, FS_Injection, FS_CardinalityType
  <2> QED
    BY <1>2, <2>7, <2>8
<1> QED
  BY <1>1, <1>6, <1>7, <1>8

\* vacuum() moves the rows to the end of the page and keeps them, and leaves no
\* dead cell and, but for the first one, no free slot behind the last row.  The page
\* of a file without entries keeps u, whatever it is, as its only one.
LEMMA VacuumKeepsLayout ==
    ASSUME NEW pg, NEW R, Layout(pg, R), NEW u \in Int
    PROVE  /\ u < 0 \/ GetDirCount(pg) # 0 => Layout(Vacuumed(pg, u), R)
           /\ Vacuumed(pg, u)[0] \in Nat /\ Vacuumed(pg, u)[1] \in Nat
           /\ Vacuumed(pg, u)[0] > 1 => Vacuumed(pg, u)[0] - 1 \in DOMAIN R
           /\ SIZE = 2 + Vacuumed(pg, u)[0] + Vacuumed(pg, u)[1]
                       + Cardinality(KeptCells(pg, pg[0] - 1))
<1>1. PICK n \in Nat, f \in Nat : n = pg[0] /\ f = pg[1]
  BY DEF Layout
<1> DEFINE K(i) == Cardinality(KeptCells(pg, i))
<1>2. PICK k \in Nat : k = K(n - 1)
  BY <1>1, KeptCounts
<1>3. SIZE \in Nat /\ SIZE >= 3 /\ HEADER_SIZE = 2 /\ DIR_SIZE = 1
  BY Sizes
<1>4. 2 + n + f + k <= SIZE
  BY <1>1, <1>2, KeptCounts
<1>5. Kept(pg) = DOMAIN R /\ DOMAIN R \subseteq 0..(n - 1) /\ \A d \in DOMAIN R : KeptSize(pg, d) = Size(R[d])
  BY <1>1, KeptRows DEF Layout
<1>6. \A d \in DOMAIN R : R[d] \in Row /\ Size(R[d]) \in Nat /\ Size(R[d]) >= 2
  BY RowSize DEF Layout
<1>7. \A d \in DOMAIN R : d \in Nat /\ K(d) \in Nat /\ K(d) <= k /\ Size(R[d]) <= K(d)
  <2>1. ASSUME NEW d \in DOMAIN R
        PROVE  d \in Nat /\ K(d) \in Nat /\ K(d) <= k /\ Size(R[d]) <= K(d)
    <3>1. d \in 0..(n - 1) /\ d \in Int /\ -1 \in Int /\ -1 < d
      BY <1>5
    <3>2. K(d) \in Nat /\ K(-1) \in Nat /\ K(d) <= k
      BY <1>1, <1>2, <3>1, KeptCounts
    <3>3. K(-1) + Size(R[d]) <= K(d)
      BY <3>1, KeptCounts
    <3> HIDE DEF K
    <3> QED
      BY <1>6, <3>1, <3>2, <3>3
  <2> QED
    BY <2>1
<1>8. \A d, e \in DOMAIN R : e < d => K(e) + Size(R[d]) <= K(d)
  BY <1>7, KeptCounts
<1>9. PICK last \in Nat : /\ last = LastUseful(pg) /\ last \in {0} \cup DOMAIN R
                          /\ \A d \in DOMAIN R : d <= last
  <2> DEFINE S == {0} \cup Kept(pg)
  <2>1. S \subseteq 0..n /\ S # {}
    BY <1>5
  <2>2. LastUseful(pg) = Max(S)
    BY DEF LastUseful
  <2> HIDE DEF S
  <2>3. Max(S) \in S /\ \A x \in S : x <= Max(S)
    BY <2>1, GreatestElement
  <2> QED
    BY <1>5, <2>1, <2>2, <2>3 DEF S
<1>10. last + 1 <= n \/ (n = 0 /\ last = 0 /\ k = 0)
  <2>1. CASE n > 0
    BY <1>5, <1>9, <2>1
  <2>2. CASE n = 0
    <3>1. DOMAIN R = {}
      BY <1>5, <2>2
    <3>2. last = 0
      BY <1>9, <3>1
    <3>3. KeptCells(pg, n - 1) = {}
      BY <3>1, KeptRows DEF RowCells
    <3>4. k = 0
      BY <1>2, <3>3, FS_EmptySet
    <3> QED
      BY <2>2, <3>2, <3>4
  <2> QED
    BY <2>1, <2>2
<1>11. PICK g \in Nat : g = VacuumedFree(pg) /\ g = SIZE - 3 - last - k
  <2>1. GetDirCount(pg) = n
    BY <1>1 DEF GetDirCount
  <2>2. FreeAfter(pg, n - 1) = SIZE - 2 - 1 * ((n - 1) + 1) - k
    BY <1>2, <1>3 DEF FreeAfter
  <2>3. VacuumedFree(pg) = FreeAfter(pg, n - 1) + (n - (last + 1)) * 1
    BY <1>3, <1>9, <2>1 DEF VacuumedFree
  <2>4. (SIZE - 2 - 1 * ((n - 1) + 1) - k) + (n - (last + 1)) * 1 = SIZE - 3 - last - k
    BY <1>3
  <2>5. SIZE - 3 - last - k \in Nat
    BY <1>3, <1>4, <1>10
  <2> HIDE DEF K
  <2> QED
    BY <2>2, <2>3, <2>4, <2>5
<1> DEFINE offset == [d \in Kept(pg) |-> NewOffset(pg, d)]
<1>12. \A d \in DOMAIN R : NewOffset(pg, d) = SIZE - K(d) /\ offset[d] = SIZE - K(d)
  <2>1. ASSUME NEW d \in DOMAIN R PROVE NewOffset(pg, d) = SIZE - K(d)
    <3>1. d \in Nat /\ K(d) \in Nat
      BY <1>7
    <3>2. FreeAfter(pg, d) = SIZE - 2 - 1 * (d + 1) - K(d)
      BY <1>3 DEF FreeAfter
    <3>3. NewOffset(pg, d) = 2 + 1 * (d + 1) + (SIZE - 2 - 1 * (d + 1) - K(d))
      BY <1>3, <3>2 DEF NewOffset
    <3> HIDE DEF K
    <3> QED
      BY <1>3, <3>1, <3>3
  <2> QED
    BY <1>5, <2>1
<1> HIDE DEF K
<1>13. \A d \in DOMAIN R : /\ offset[d] \in Int /\ 2 + (last + 1) + g <= offset[d]
                           /\ offset[d] + Size(R[d]) <= SIZE
  <2> HIDE DEF offset
  <2> QED
    BY <1>3, <1>6, <1>7, <1>11, <1>12
<1>14. \A d, e \in DOMAIN R : e < d => offset[d] + Size(R[d]) <= offset[e]
  BY <1>3, <1>6, <1>7, <1>8, <1>12
<1>15. \A d, e \in DOMAIN R : d # e => \/ offset[d] + Size(R[d]) <= offset[e]
                                       \/ offset[e] + Size(R[e]) <= offset[d]
  <2>1. \A d, e \in DOMAIN R : d # e => d < e \/ e < d
    BY <1>7
  <2> QED
    BY <1>14, <2>1
<1> DEFINE owner(c) == {d \in Kept(pg) : c \in offset[d]..(offset[d] + KeptSize(pg, d) - 1)}
           entry(d) == IF d \in Kept(pg) THEN offset[d] ELSE IF d \in Slots(pg) THEN -1 ELSE u
           q == Vacuumed(pg, u)
<1>16. q = [c \in Cells |->
              CASE c = 0 -> last + 1
                [] c = 1 -> g
                [] c \in {DirOffset(d) : d \in 0..last} -> entry((c - HEADER_SIZE) \div DIR_SIZE)
                [] OTHER -> IF owner(c) = {} THEN 0
                            ELSE LET d == Max(owner(c)) IN At(pg, GetDir(pg, d) + c - offset[d])]
  BY <1>9, <1>11 DEF Vacuumed
<1>17. ASSUME NEW c, NEW d
        PROVE  d \in owner(c) <=> /\ d \in DOMAIN R
                                  /\ c \in offset[d]..(offset[d] + Size(R[d]) - 1)
  <2> HIDE DEF offset
  <2> QED
    BY <1>5
<1>18. \A d : entry(d) = IF d \in DOMAIN R THEN offset[d] ELSE IF d \in Slots(pg) THEN -1 ELSE u
  <2> HIDE DEF offset
  <2> QED
    BY <1>5
<1> HIDE DEF q, owner, offset, entry
<1>19. {DirOffset(d) : d \in 0..last} = 2..(last + 2)
  <2>1. \A d \in 0..last : DirOffset(d) = 2 + d /\ 2 + d \in 2..(last + 2)
    BY Sizes
  <2>2. \A c \in 2..(last + 2) : c - 2 \in 0..last /\ 2 + (c - 2) = c
    OBVIOUS
  <2> QED
    BY <2>1, <2>2
<1>20. q[0] = last + 1 /\ q[1] = g
  <2>1. 0 \in Cells /\ 1 \in Cells
    BY <1>3 DEF Cells
  <2>2. 0 \notin 2..(last + 2) /\ 1 \notin 2..(last + 2)
    OBVIOUS
  <2> QED
    BY <1>16, <1>19, <2>1, <2>2
<1>21. ASSUME NEW d \in 0..last PROVE 2 + d \in Cells /\ q[2 + d] = entry(d)
  <2>1. 2 + d \in Cells
    BY <1>3, <1>11 DEF Cells
  <2>2. 2 + d \in 2..(last + 2) /\ 2 + d # 0 /\ 2 + d # 1
    OBVIOUS
  <2>3. PICK c \in Cells : c = 2 + d
    BY <2>1
  <2>4. c # 0 /\ c # 1 /\ c \in {DirOffset(e) : e \in 0..last}
    BY <1>19, <2>2, <2>3
  <2>5. q[c] = entry((c - HEADER_SIZE) \div DIR_SIZE)
    BY <1>16, <2>4
  <2>6. (c - HEADER_SIZE) \div DIR_SIZE = d
    BY <1>3, <2>3
  <2>7. q[c] = entry(d)
    BY <2>5, <2>6, Zenon
  <2> QED
    BY <2>1, <2>3, <2>7
<1>22. ASSUME NEW d \in DOMAIN R, NEW i \in 0..(Size(R[d]) - 1)
       PROVE  offset[d] + i \in Cells /\ q[offset[d] + i] = CellOf(R[d], i)
  <2>1. PICK o \in Int, s \in Nat : /\ o = offset[d] /\ s = Size(R[d])
                                    /\ 2 + (last + 1) + g <= o /\ o + s <= SIZE
    BY <1>6, <1>13
  <2>2. /\ o + i \in Cells /\ o + i # 0 /\ o + i # 1 /\ o + i \notin 2..(last + 2)
        /\ o + i \in o..(o + s - 1)
    BY <1>3, <2>1 DEF Cells
  <2>3. owner(o + i) = {d}
    <3>1. d \in owner(o + i)
      BY <1>17, <2>1, <2>2
    <3>2. ASSUME NEW e \in owner(o + i) PROVE e = d
      <4>1. e \in DOMAIN R /\ o + i \in offset[e]..(offset[e] + Size(R[e]) - 1)
        BY <1>17
      <4>2. PICK v \in Int, w \in Nat : v = offset[e] /\ w = Size(R[e])
        BY <1>6, <1>13, <4>1
      <4>3. o + i \in v..(v + w - 1)
        BY <4>1, <4>2
      <4>4. ~(o + s <= v \/ v + w <= o)
        BY <2>1, <4>3
      <4> QED
        BY <1>15, <2>1, <4>1, <4>2, <4>4
    <3> QED
      BY <3>1, <3>2
  <2>4. Max(owner(o + i)) = d
    <3>1. {d, d} = {d} /\ d \in Int
      BY <1>7
    <3> QED
      BY <2>3, <3>1, OfTwo
  <2>5. q[o + i] = At(pg, GetDir(pg, d) + (o + i) - o)
    <3> QED
      BY <1>16, <1>19, <2>1, <2>2, <2>3, <2>4
  <2>6. d \in 0..(pg[0] - 1)
    BY <1>1, <1>5
  <2>7. PICK x \in Int : x = pg[2 + d] /\ GetDir(pg, d) = x
    BY <2>6, LayoutFacts
  <2>8. x + (o + i) - o = x + i
    BY <2>1
  <2>9. pg[x + i] = CellOf(R[d], i) /\ x + i \in Cells
    <3>1. x >= 2 /\ x + s <= SIZE
      BY <1>1, <2>1, <2>7 DEF Layout
    <3>2. x + i \in Cells
      BY <1>3, <2>1, <3>1 DEF Cells
    <3> QED
      BY <2>7, <3>2 DEF Layout
  <2>10. At(pg, x + i) = CellOf(R[d], i)
    BY <2>9 DEF At
  <2> QED
    BY <2>1, <2>2, <2>5, <2>7, <2>8, <2>10
<1>23. q \in [Cells -> Int]
  <2>1. ASSUME NEW c \in Cells PROVE q[c] \in Int
    <3>1. c \in Nat /\ c < SIZE
      BY <1>3 DEF Cells
    <3>2. CASE c = 0 \/ c = 1
      BY <1>20, <3>2
    <3>3. CASE c \in 2..(last + 2)
      <4>1. c - 2 \in 0..last /\ 2 + (c - 2) = c
        BY <3>3
      <4>2. q[c] = entry(c - 2)
        BY <1>21, <4>1
      <4>3. entry(c - 2) \in Int
        BY <1>13, <1>18
      <4> QED
        BY <4>2, <4>3
    <3>4. CASE c # 0 /\ c # 1 /\ c \notin 2..(last + 2) /\ owner(c) = {}
      <4>1. q[c] = 0
        <5> QED
          BY <1>16, <1>19, <3>4
      <4> QED
        BY <4>1
    <3>5. CASE owner(c) # {}
      <4>1. PICK d \in DOMAIN R : c \in offset[d]..(offset[d] + Size(R[d]) - 1)
        BY <1>17, <3>5
      <4>2. PICK o \in Int, s \in Nat : o = offset[d] /\ s = Size(R[d])
        BY <1>6, <1>13
      <4>3. c - o \in 0..(s - 1) /\ o + (c - o) = c
        BY <3>1, <4>1, <4>2
      <4>4. q[c] = CellOf(R[d], c - o)
        BY <1>22, <4>2, <4>3
      <4> QED
        BY <1>6, <4>4, RowSize
    <3> QED
      BY <3>2, <3>3, <3>4, <3>5
  <2>2. DOMAIN q = Cells /\ q = [c \in Cells |-> q[c]]
    <3> QED
      BY <1>16
  <2> QED
    BY <2>1, <2>2
<1>24. \A d \in DOMAIN R : d \in 0..last /\ q[2 + d] = offset[d]
  BY <1>7, <1>9, <1>18, <1>21
<1>25. ASSUME u < 0 \/ GetDirCount(pg) # 0 PROVE Layout(q, R)
  <2>1. q[0] \in Nat /\ q[1] \in Nat /\ 2 + q[0] + q[1] <= SIZE
    BY <1>3, <1>11, <1>20
  <2>2. DOMAIN R \subseteq 0..(q[0] - 1)
    <3>1. 0..((last + 1) - 1) = 0..last
      OBVIOUS
    <3> QED
      BY <1>20, <1>24, <3>1
  <2>3. ASSUME NEW d \in 0..(q[0] - 1), d \notin DOMAIN R PROVE q[2 + d] < 0
    <3>1. d \in 0..last
      BY <1>20
    <3>2. q[2 + d] = IF d \in Slots(pg) THEN -1 ELSE u
      BY <1>18, <1>21, <2>3, <3>1
    <3>3. n # 0 => d \in Slots(pg)
      BY <1>1, <1>10, <3>1 DEF Slots, GetDirCount
    <3>4. n = 0 => u < 0
      BY <1>1, <1>25 DEF GetDirCount
    <3> QED
      BY <3>2, <3>3, <3>4
  <2>4. ASSUME NEW d \in DOMAIN R
        PROVE  2 + q[0] + q[1] <= q[2 + d] /\ q[2 + d] + Size(R[d]) <= SIZE
    BY <1>13, <1>20, <1>24
  <2>5. ASSUME NEW d \in DOMAIN R, NEW i \in 0..(Size(R[d]) - 1)
        PROVE  q[q[2 + d] + i] = CellOf(R[d], i)
    BY <1>22, <1>24
  <2>6. ASSUME NEW d \in DOMAIN R, NEW e \in DOMAIN R, d # e
        PROVE  q[2 + d] + Size(R[d]) <= q[2 + e] \/ q[2 + e] + Size(R[e]) <= q[2 + d]
    BY <1>15, <1>24, <2>6
  <2> QED
    BY <1>6, <1>23, <2>1, <2>2, <2>3, <2>4, <2>5, <2>6 DEF Layout
<1>26. q[0] > 1 => q[0] - 1 \in DOMAIN R
  BY <1>9, <1>20
<1>27. SIZE = 2 + q[0] + q[1] + k
  BY <1>3, <1>11, <1>20
<1>28. q[0] \in Nat /\ q[1] \in Nat
  BY <1>20
<1> QED
  BY <1>1, <1>2, <1>25, <1>26, <1>27, <1>28 DEF q, K

--------------------------------------------------------------------------------
(****************************************************************************)
(* The inductive invariant.                                                 *)
(****************************************************************************)

\* Of the rows rs, those of page p.
RowsIn(rs, p) == [d \in {c \in Cells : <<p, c>> \in DOMAIN rs} |-> rs[<<p, d>>]]

\* Every page holds its rows, and no row is in a page that the file does not have.
PagesHoldRows ==
    /\ \A p \in Pages : Layout(pages[p], RowsIn(rows, p))
    /\ \A r \in DOMAIN rows : r[1] < total_pages

\* What a thread is doing belongs to its statement, its page is one of the file,
\* an INSERT has its row, and a scan that reads a record has a slot.
Control ==
    \A t \in Threads :
        /\ pc[t] = "idle" => op[t] = "none"
        /\ pc[t] \in {"load", "insert", "advance"} => op[t] = "insert"
        /\ pc[t] \in {"count", "read", "record"} => op[t] = "scan"
        /\ pc[t] \in {"vacuum", "header", "reset"} => op[t] = "vacuum"
        /\ pc[t] # "idle" => op[t] # "none"
        /\ pc[t] = "record" => slot[t] >= 0
        /\ pc[t] = "count" => slot[t] = -1
        /\ op[t] = "insert" => record[t] \in Row
        /\ pc[t] \in {"check", "check_free", "init", "insert", "count", "read", "record",
                      "vacuum", "header"} => current_page[t] < total_pages
        /\ last_page[t] <= total_pages

\* The rows that a scan still has to meet are there.  But for those of a page whose
\* header misled it, they are ahead of it and, once it has counted the pages, before
\* the page where it stops; a scan that has ended has none of them left.
ScanBehind(t) ==
    /\ owed[t] \subseteq DOMAIN rows
    /\ \A r \in owed[t] : r[1] \notin misled[t] =>
          /\ op[t] = "scan"
          /\ \/ r[1] > current_page[t]
             \/ /\ r[1] = current_page[t] /\ r[2] >= slot[t]
                /\ pc[t] = "read" => r[2] > slot[t]
          /\ pc[t] = "read" \/ slot[t] >= 0 \/ current_page[t] > 0 => r[1] < last_page[t]

ScanIsBehind == \A t \in Threads : ScanBehind(t)

\* The types of everything but the pages and what lies in them.
ThreadTypes ==
    /\ total_pages \in 0..MaxPages
    /\ last_insert_page \in Nat
    /\ pc \in [Threads -> Labels]
    /\ op \in [Threads -> {"none", "insert", "scan", "vacuum"}]
    /\ page_num \in [Threads -> Nat]
    /\ current_page \in [Threads -> 0..MaxPages]
    /\ slot \in [Threads -> Nat \cup {-1}]
    /\ last_page \in [Threads -> 0..MaxPages]
    /\ record \in [Threads -> Row \cup {NoRow}]
    /\ misled \in [Threads -> SUBSET Pages]
    /\ defect \in {"none", "reinitialized", "garbage_entry"}
    /\ used \in [{"insert", "vacuum", "scan", "delete"} -> Nat]

\* The state of the pages as long as none is damaged.
Sound == PageTypes /\ PagesHoldRows /\ ScanIsBehind

\* Nothing is said of the pages after a damage, everything of the threads.
IInv == ThreadTypes /\ Control /\ (defect = "none" => Sound)

\* Damage stays.
LEMMA DefectStays ==
    ASSUME Next, defect' = "none"
    PROVE  defect = "none"
<1>1. ASSUME NEW t \in Threads, Starts(t) PROVE defect = "none"
  BY <1>1 DEF Starts, StartInsert, StartScan, StartVacuum
<1>2. ASSUME NEW t \in Threads, InsertStep(t) PROVE defect = "none"
  BY <1>2 DEF InsertStep, Load, GetPage, CheckNew, CheckFree, InitPage, TryInsert, Advance
<1>3. ASSUME NEW t \in Threads, ScanStep(t) PROVE defect = "none"
  BY <1>3 DEF ScanStep, CountPages, ReadCount, ReadRecord
<1>4. ASSUME NEW t \in Threads, VacuumStep(t) PROVE defect = "none"
  BY <1>4 DEF VacuumStep, VacuumPage, WriteHeader, VacuumEnds
<1>5. ASSUME NEW r \in DOMAIN rows, DeleteRecordPhysically(r) PROVE defect = "none"
  BY <1>5 DEF DeleteRecordPhysically
<1> QED
  BY <1>1, <1>2, <1>3, <1>4, <1>5 DEF Next

\* A page that a thread has open is one of the file's.
LEMMA OpenPage ==
    ASSUME IInv, NEW t \in Threads,
           pc[t] \in {"check", "check_free", "init", "insert", "count", "read", "record",
                      "vacuum", "header"}
    PROVE  /\ current_page[t] \in Pages /\ current_page[t] < total_pages
           /\ current_page[t] \in Nat /\ current_page[t] + 1 \in 0..MaxPages
<1>1. current_page[t] \in 0..MaxPages /\ total_pages \in 0..MaxPages /\ current_page[t] < total_pages
  BY DEF IInv, ThreadTypes, Control
<1>2. MaxPages \in Nat
  BY HeapFilePageAssumption
<1> QED
  BY <1>1, <1>2 DEF Pages

\* A step that changes no row of a page leaves the page's rows the same.
LEMMA RowsElsewhere ==
    ASSUME NEW rs, NEW rs2, NEW p,
           \A c \in Cells : <<p, c>> \in DOMAIN rs2 <=> <<p, c>> \in DOMAIN rs,
           \A c \in Cells : <<p, c>> \in DOMAIN rs => rs2[<<p, c>>] = rs[<<p, c>>]
    PROVE  RowsIn(rs2, p) = RowsIn(rs, p)
<1>1. {c \in Cells : <<p, c>> \in DOMAIN rs2} = {c \in Cells : <<p, c>> \in DOMAIN rs}
  OBVIOUS
<1>2. \A d \in {c \in Cells : <<p, c>> \in DOMAIN rs} : rs2[<<p, d>>] = rs[<<p, d>>]
  OBVIOUS
<1> QED
  BY <1>1, <1>2 DEF RowsIn

\* The rows of the pages after an INSERT into slot d of page p.
LEMMA RowsAfterInsert ==
    ASSUME NEW rs, NEW p, NEW d \in Cells, NEW x
    PROVE  /\ RowsIn(With(rs, <<p, d>>, x), p) = With(RowsIn(rs, p), d, x)
           /\ \A q : q # p => RowsIn(With(rs, <<p, d>>, x), q) = RowsIn(rs, q)
<1> DEFINE rs2 == With(rs, <<p, d>>, x)
<1>1. /\ DOMAIN rs2 = DOMAIN rs \cup {<<p, d>>}
      /\ \A r \in DOMAIN rs2 : rs2[r] = IF r = <<p, d>> THEN x ELSE rs[r]
  BY DEF With
<1> HIDE DEF rs2
<1>2. \A q, c : <<q, c>> = <<p, d>> <=> q = p /\ c = d
  OBVIOUS
<1>3. DOMAIN RowsIn(rs2, p) = DOMAIN RowsIn(rs, p) \cup {d}
  BY <1>1, <1>2 DEF RowsIn
<1>4. ASSUME NEW e \in DOMAIN RowsIn(rs2, p)
      PROVE  RowsIn(rs2, p)[e] = IF e = d THEN x ELSE RowsIn(rs, p)[e]
  <2>1. e \in Cells /\ <<p, e>> \in DOMAIN rs2 /\ RowsIn(rs2, p)[e] = rs2[<<p, e>>]
    BY DEF RowsIn
  <2>2. e # d => <<p, e>> \in DOMAIN rs /\ rs2[<<p, e>>] = rs[<<p, e>>]
    BY <1>1, <1>2, <2>1
  <2>3. e # d => RowsIn(rs, p)[e] = rs[<<p, e>>]
    BY <2>1, <2>2 DEF RowsIn
  <2>4. e = d => rs2[<<p, e>>] = x
    BY <1>1, <2>1
  <2> QED
    BY <2>1, <2>2, <2>3, <2>4
<1>5. RowsIn(rs2, p) = [e \in DOMAIN RowsIn(rs2, p) |-> RowsIn(rs2, p)[e]]
  BY DEF RowsIn
<1>6. ASSUME NEW q, q # p PROVE RowsIn(rs2, q) = RowsIn(rs, q)
  <2>1. \A c \in Cells : <<q, c>> # <<p, d>>
    BY <1>2, <1>6
  <2> QED
    BY <1>1, <2>1, RowsElsewhere
<1> QED
  BY <1>3, <1>4, <1>5, <1>6 DEF With, rs2

\* The rows of the pages after a deletion from slot d of page p.
LEMMA RowsAfterDelete ==
    ASSUME NEW rs, NEW p, NEW d
    PROVE  /\ RowsIn(Without(rs, <<p, d>>), p) = Without(RowsIn(rs, p), d)
           /\ \A q : q # p => RowsIn(Without(rs, <<p, d>>), q) = RowsIn(rs, q)
<1> DEFINE rs2 == Without(rs, <<p, d>>)
<1>1. DOMAIN rs2 = DOMAIN rs \ {<<p, d>>} /\ \A r \in DOMAIN rs2 : rs2[r] = rs[r]
  BY DEF Without
<1> HIDE DEF rs2
<1>2. \A q, c : <<q, c>> = <<p, d>> <=> q = p /\ c = d
  OBVIOUS
<1>3. DOMAIN RowsIn(rs2, p) = DOMAIN RowsIn(rs, p) \ {d}
  BY <1>1, <1>2 DEF RowsIn
<1>4. ASSUME NEW e \in DOMAIN RowsIn(rs2, p) PROVE RowsIn(rs2, p)[e] = RowsIn(rs, p)[e]
  <2>1. e \in Cells /\ <<p, e>> \in DOMAIN rs2 /\ RowsIn(rs2, p)[e] = rs2[<<p, e>>]
    BY DEF RowsIn
  <2>2. RowsIn(rs, p)[e] = rs[<<p, e>>]
    BY <1>1, <2>1 DEF RowsIn
  <2> QED
    BY <1>1, <2>1, <2>2
<1>5. RowsIn(rs2, p) = [e \in DOMAIN RowsIn(rs2, p) |-> RowsIn(rs2, p)[e]]
  BY DEF RowsIn
<1>6. ASSUME NEW q, q # p PROVE RowsIn(rs2, q) = RowsIn(rs, q)
  <2>1. \A c \in Cells : <<q, c>> # <<p, d>>
    BY <1>2, <1>6
  <2> QED
    BY <1>1, <2>1, RowsElsewhere
<1> QED
  BY <1>3, <1>4, <1>5, <1>6 DEF Without, rs2

\* A row of the table is one of the rows of its page.
LEMMA RowIsInPage ==
    ASSUME PageTypes, NEW r \in DOMAIN rows
    PROVE  /\ r = <<r[1], r[2]>> /\ r[1] \in Pages /\ r[2] \in Cells /\ rows[r] \in Row
           /\ r[2] \in DOMAIN RowsIn(rows, r[1]) /\ RowsIn(rows, r[1])[r[2]] = rows[r]
<1>1. r = <<r[1], r[2]>> /\ r[1] \in Pages /\ r[2] \in Cells /\ rows[r] \in Row
  BY DEF PageTypes, RID
<1>2. r[2] \in DOMAIN RowsIn(rows, r[1])
  BY <1>1 DEF RowsIn
<1>3. RowsIn(rows, r[1])[r[2]] = rows[<<r[1], r[2]>>]
  BY <1>2 DEF RowsIn
<1> QED
  BY <1>1, <1>2, <1>3

--------------------------------------------------------------------------------
(****************************************************************************)
(* The steps that change a page.                                            *)
(****************************************************************************)

\* The types of the pages and of their rows.
PagesTyped ==
    /\ pages \in [Pages -> [Cells -> Int]]
    /\ \A p \in Pages : pages[p][0] \in 0..SIZE /\ pages[p][1] \in 0..SIZE
    /\ DOMAIN rows \subseteq RID /\ rows \in [DOMAIN rows -> Row]

\* A step that changes page p and the rows, and leaves the rows of other pages
\* alone, keeps the pages and the rows together if it does so for page p.
LEMMA PageChange ==
    ASSUME PageTypes, PagesHoldRows, NEW p \in Pages, NEW q, NEW rs2,
           pages' = [pages EXCEPT ![p] = q], rows' = rs2, total_pages' = total_pages,
           Layout(q, RowsIn(rs2, p)),
           \A x : x # p => RowsIn(rs2, x) = RowsIn(rows, x),
           DOMAIN rs2 \subseteq RID, rs2 \in [DOMAIN rs2 -> Row],
           \A r \in DOMAIN rs2 : r[1] < total_pages
    PROVE  /\ PagesHoldRows' /\ PagesTyped'
           /\ \A x \in Pages : pages'[x] = IF x = p THEN q ELSE pages[x]
<1>1. \A x \in Pages : pages'[x] = IF x = p THEN q ELSE pages[x]
  BY DEF PageTypes
<1>2. ASSUME NEW x \in Pages PROVE Layout(pages'[x], RowsIn(rs2, x))
  <2>1. x # p => Layout(pages[x], RowsIn(rows, x))
    BY DEF PagesHoldRows
  <2> QED
    BY <1>1, <2>1
<1>3. PagesHoldRows'
  BY <1>2 DEF PagesHoldRows
<1>4. ASSUME NEW x \in Pages
      PROVE  pages'[x] \in [Cells -> Int] /\ pages'[x][0] \in 0..SIZE /\ pages'[x][1] \in 0..SIZE
  <2>1. PICK pg : pg = pages'[x] /\ Layout(pg, RowsIn(rs2, x))
    BY <1>2
  <2>2. pg \in [Cells -> Int] /\ pg[0] \in Nat /\ pg[1] \in Nat /\ 2 + pg[0] + pg[1] <= SIZE /\ SIZE \in Nat
    BY <2>1, Sizes DEF Layout
  <2>3. PICK n \in Nat, f \in Nat : n = pg[0] /\ f = pg[1]
    BY <2>2
  <2>4. n \in 0..SIZE /\ f \in 0..SIZE
    BY <2>2, <2>3
  <2> QED
    BY <2>1, <2>2, <2>3, <2>4
<1>5. pages' \in [Pages -> [Cells -> Int]]
  <2>1. DOMAIN pages' = Pages /\ pages' = [x \in Pages |-> pages'[x]]
    BY DEF PageTypes
  <2> QED
    BY <1>4, <2>1
<1> QED
  BY <1>1, <1>3, <1>4, <1>5 DEF PagesTyped

\* An initialization that damages nothing: the page has no entry, or vacuum() is
\* about to overwrite what the constructor writes.
LEMMA InitPageStep ==
    ASSUME IInv, Sound, NEW t \in Threads, InitPage(t), defect' = "none"
    PROVE  PagesHoldRows' /\ PagesTyped'
<1> DEFINE p == current_page[t]
<1>1. p \in Pages
  BY OpenPage DEF InitPage
<1>2. rows' = rows /\ total_pages' = total_pages
  BY DEF InitPage
<1>3. CASE HeaderPending(p)
  <2>1. pages' = pages
    BY <1>3 DEF InitPage
  <2> QED
    BY <1>2, <2>1 DEF Sound, PageTypes, PagesTyped, PagesHoldRows
<1>4. CASE ~HeaderPending(p)
  <2> DEFINE q == Initialized(pages[p])
  <2>1. pages' = [pages EXCEPT ![p] = q] /\ GetDirCount(pages[p]) = 0
    BY <1>4 DEF InitPage
  <2>2. Layout(pages[p], RowsIn(rows, p))
    BY <1>1 DEF Sound, PagesHoldRows
  <2>3. Layout(q, RowsIn(rows, p))
    <3> HIDE DEF p
    <3> QED
      BY <2>1, <2>2, InitKeepsLayout
  <2>4. /\ DOMAIN rows \subseteq RID /\ rows \in [DOMAIN rows -> Row]
        /\ \A r \in DOMAIN rows : r[1] < total_pages
    BY DEF Sound, PageTypes, PagesHoldRows
  <2> HIDE DEF q, p
  <2> QED
    BY <1>1, <1>2, <2>1, <2>3, <2>4, PageChange DEF Sound
<1> QED
  BY <1>3, <1>4

\* A row that fits goes into its page.
LEMMA TryInsertStep ==
    ASSUME IInv, Sound, NEW t \in Threads, TryInsert(t)
    PROVE  PagesHoldRows' /\ PagesTyped' /\ DOMAIN rows \subseteq DOMAIN rows'
<1> DEFINE p == current_page[t]
           pg == pages[p]
           d == FreeSlot(pg)
<1>1. p \in Pages /\ record[t] \in Row /\ p < total_pages
  BY OpenPage DEF TryInsert, IInv, Control
<1>2. Layout(pg, RowsIn(rows, p))
  BY <1>1 DEF Sound, PagesHoldRows
<1>3. CASE ~Fits(pg, record[t])
  <2>1. pages' = pages /\ rows' = rows /\ total_pages' = total_pages
    BY <1>3 DEF TryInsert
  <2> QED
    BY <2>1 DEF Sound, PagesHoldRows, PageTypes, PagesTyped
<1>4. CASE Fits(pg, record[t])
  <2> DEFINE q == Inserted(pg, record[t])
             rs2 == With(rows, <<p, d>>, record[t])
             R2 == With(RowsIn(rows, p), d, record[t])
  <2>1. pages' = [pages EXCEPT ![p] = q] /\ rows' = rs2 /\ total_pages' = total_pages
    BY <1>4 DEF TryInsert, With
  <2>2. d \in Cells /\ d \notin DOMAIN RowsIn(rows, p) /\ Layout(q, R2)
    <3> HIDE DEF p
    <3> QED
      BY <1>1, <1>2, <1>4, InsertKeepsLayout
  <2>3. R2 = RowsIn(rs2, p) /\ \A x : x # p => RowsIn(rs2, x) = RowsIn(rows, x)
    <3> HIDE DEF p, d
    <3> QED
      BY <2>2, RowsAfterInsert
  <2>4. /\ DOMAIN rs2 = DOMAIN rows \cup {<<p, d>>} /\ DOMAIN rs2 \subseteq RID
        /\ rs2 \in [DOMAIN rs2 -> Row]
    <3>1. DOMAIN rows \subseteq RID /\ rows \in [DOMAIN rows -> Row] /\ <<p, d>> \in RID
      BY <1>1, <2>2 DEF Sound, PageTypes, RID
    <3> HIDE DEF p, d
    <3> QED
      BY <1>1, <3>1 DEF With
  <2>5. \A r \in DOMAIN rs2 : r[1] < total_pages
    <3>1. \A r \in DOMAIN rows : r[1] < total_pages
      BY DEF Sound, PagesHoldRows
    <3>2. <<p, d>>[1] = p
      OBVIOUS
    <3> HIDE DEF p, d, rs2
    <3> QED
      BY <1>1, <2>4, <3>1, <3>2
  <2> HIDE DEF q, rs2, R2, d, p
  <2>6. PagesHoldRows' /\ PagesTyped'
    BY <1>1, <2>1, <2>2, <2>3, <2>4, <2>5, PageChange DEF Sound
  <2>7. DOMAIN rows \subseteq DOMAIN rows'
    BY <2>1, <2>4
  <2> QED
    BY <2>6, <2>7
<1> QED
  BY <1>3, <1>4

\* A deleted row leaves its page.
LEMMA DeleteStep ==
    ASSUME IInv, Sound, NEW r \in DOMAIN rows, DeleteRecordPhysically(r)
    PROVE  PagesHoldRows' /\ PagesTyped' /\ DOMAIN rows' = DOMAIN rows \ {r}
<1>1. PICK p \in Pages, d \in Cells : r = <<p, d>> /\ d \in DOMAIN RowsIn(rows, p) /\ r[1] = p /\ r[2] = d
  BY RowIsInPage DEF Sound
<1>2. Layout(pages[p], RowsIn(rows, p))
  BY <1>1 DEF Sound, PagesHoldRows
<1> DEFINE q == Deleted(pages[p], d)
           rs2 == Without(rows, <<p, d>>)
<1>3. pages' = [pages EXCEPT ![p] = q] /\ rows' = rs2 /\ total_pages' = total_pages
  BY <1>1 DEF DeleteRecordPhysically, Restrict, Without
<1>4. Layout(q, Without(RowsIn(rows, p), d))
  BY <1>1, <1>2, DeleteKeepsLayout
<1>5. RowsIn(rs2, p) = Without(RowsIn(rows, p), d) /\ \A x : x # p => RowsIn(rs2, x) = RowsIn(rows, x)
  BY RowsAfterDelete
<1>6. /\ DOMAIN rs2 = DOMAIN rows \ {r} /\ DOMAIN rs2 \subseteq RID
      /\ rs2 \in [DOMAIN rs2 -> Row] /\ \A s \in DOMAIN rs2 : s[1] < total_pages
  BY <1>1 DEF Without, Sound, PageTypes, PagesHoldRows
<1> HIDE DEF q, rs2
<1>7. PagesHoldRows' /\ PagesTyped'
  <2>1. Layout(q, RowsIn(rs2, p)) /\ PageTypes /\ PagesHoldRows
    BY <1>4, <1>5 DEF Sound
  <2> QED
    BY <1>3, <1>5, <1>6, <2>1, PageChange
<1> QED
  BY <1>3, <1>6, <1>7

\* VACUUM keeps the rows of a page; it damages only one that has no entry.
LEMMA VacuumPageStep ==
    ASSUME IInv, Sound, NEW t \in Threads, VacuumPage(t), defect' = "none"
    PROVE  PagesHoldRows' /\ PagesTyped'
<1> DEFINE p == current_page[t]
<1>1. p \in Pages
  BY OpenPage DEF VacuumPage
<1>2. Layout(pages[p], RowsIn(rows, p))
  BY <1>1 DEF Sound, PagesHoldRows
<1>3. PICK u \in Uninit :
        /\ pages' = [pages EXCEPT ![p] = Vacuumed(pages[p], u)]
        /\ defect' = IF GetDirCount(pages[p]) = 0 /\ u >= 0 THEN "garbage_entry" ELSE defect
  BY DEF VacuumPage
<1>4. u \in Int /\ (u < 0 \/ GetDirCount(pages[p]) # 0)
  <2>1. u \in Int
    BY HeapFilePageAssumption
  <2>2. ~(GetDirCount(pages[p]) = 0 /\ u >= 0)
    BY <1>3
  <2> QED
    BY <2>1, <2>2
<1> DEFINE q == Vacuumed(pages[p], u)
<1>5. Layout(q, RowsIn(rows, p))
  <2> HIDE DEF p
  <2> QED
    BY <1>2, <1>4, VacuumKeepsLayout
<1>6. pages' = [pages EXCEPT ![p] = q] /\ rows' = rows /\ total_pages' = total_pages
  BY <1>3 DEF VacuumPage
<1>7. /\ DOMAIN rows \subseteq RID /\ rows \in [DOMAIN rows -> Row]
      /\ \A r \in DOMAIN rows : r[1] < total_pages
  BY DEF Sound, PageTypes, PagesHoldRows
<1> HIDE DEF q, p
<1> QED
  BY <1>1, <1>5, <1>6, <1>7, PageChange DEF Sound

\* A step that leaves the pages and the rows alone, and at most extends the file.
LEMMA QuietStep ==
    ASSUME IInv, Sound, pages' = pages, rows' = rows, total_pages' \in Nat, total_pages' >= total_pages
    PROVE  PagesHoldRows' /\ PagesTyped'
<1>1. PagesTyped'
  BY DEF Sound, PageTypes, PagesTyped
<1>2. ASSUME NEW r \in DOMAIN rows PROVE r[1] < total_pages'
  <2>1. PICK p \in Pages : r[1] = p
    BY RowIsInPage DEF Sound
  <2>2. p \in Nat
    BY HeapFilePageAssumption DEF Pages
  <2>3. p < total_pages /\ total_pages \in Nat
    <3>1. r[1] < total_pages
      BY DEF Sound, PagesHoldRows
    <3>2. total_pages \in 0..MaxPages /\ MaxPages \in Nat
      BY HeapFilePageAssumption DEF IInv, ThreadTypes
    <3> QED
      BY <2>1, <3>1, <3>2
  <2> QED
    BY <2>1, <2>2, <2>3
<1>3. \A p \in Pages : Layout(pages[p], RowsIn(rows, p))
  BY DEF Sound, PagesHoldRows
<1> QED
  BY <1>1, <1>2, <1>3 DEF PagesHoldRows

\* The page that get_page opens is then one of the file.
LEMMA GetPageStep ==
    ASSUME IInv, NEW t \in Threads, GetPage(t)
    PROVE  /\ total_pages' \in 0..MaxPages /\ total_pages' >= total_pages
           /\ current_page'[t] \in 0..MaxPages /\ current_page'[t] < total_pages'
           /\ op[t] # "insert" => current_page'[t] = current_page[t]
           /\ current_page' = [current_page EXCEPT ![t] = current_page'[t]]
<1>1. PICK p : /\ p = IF op[t] = "insert" THEN last_insert_page ELSE current_page[t]
               /\ p < MaxPages
               /\ current_page' = [current_page EXCEPT ![t] = p]
               /\ total_pages' = Max({total_pages, p + 1})
  BY DEF GetPage
<1>2. MaxPages \in Nat /\ total_pages \in 0..MaxPages /\ last_insert_page \in Nat
      /\ current_page[t] \in 0..MaxPages /\ current_page \in [Threads -> 0..MaxPages]
  BY HeapFilePageAssumption DEF IInv, ThreadTypes
<1>3. p \in Nat
  BY <1>1, <1>2
<1>4. total_pages' = IF total_pages <= p + 1 THEN p + 1 ELSE total_pages
  <2>1. total_pages \in Int /\ p + 1 \in Int
    BY <1>2, <1>3
  <2> QED
    BY <1>1, <2>1, OfTwo
<1>5. current_page'[t] = p /\ (op[t] # "insert" => p = current_page[t])
  BY <1>1, <1>2
<1>6. total_pages' \in 0..MaxPages /\ total_pages' >= total_pages /\ p \in 0..MaxPages /\ p < total_pages'
  BY <1>1, <1>2, <1>3, <1>4
<1> QED
  BY <1>1, <1>5, <1>6

\* Every step that damages nothing keeps pages and rows together.
LEMMA PagesStep ==
    ASSUME IInv, Sound, Next, defect' = "none"
    PROVE  PagesHoldRows' /\ PagesTyped'
<1> DEFINE G == PagesHoldRows' /\ PagesTyped'
<1>1. total_pages \in Nat /\ total_pages >= total_pages
  <2>1. total_pages \in 0..MaxPages /\ MaxPages \in Nat
    BY HeapFilePageAssumption DEF IInv, ThreadTypes
  <2> QED
    BY <2>1
<1>2. ASSUME pages' = pages, rows' = rows, total_pages' = total_pages PROVE G
  BY <1>1, <1>2, QuietStep
<1> HIDE DEF G
<1>3. ASSUME NEW t \in Threads, Starts(t) PROVE G
  BY <1>2, <1>3 DEF Starts, StartInsert, StartScan, StartVacuum
<1>4. ASSUME NEW t \in Threads, InsertStep(t) PROVE G
  <2>1. CASE Load(t) \/ CheckNew(t) \/ CheckFree(t) \/ Advance(t)
    BY <1>2, <2>1 DEF Load, CheckNew, CheckFree, Advance
  <2>2. CASE GetPage(t)
    <3>1. total_pages' \in 0..MaxPages /\ total_pages' >= total_pages
      BY <2>2, GetPageStep
    <3>2. \A x \in 0..MaxPages : x \in Nat
      BY HeapFilePageAssumption
    <3>3. total_pages' \in Nat /\ pages' = pages /\ rows' = rows
      BY <2>2, <3>1, <3>2 DEF GetPage
    <3> QED
      BY <3>1, <3>3, QuietStep DEF G
  <2>3. CASE InitPage(t)
    BY <2>3, InitPageStep DEF G
  <2>4. CASE TryInsert(t)
    BY <2>4, TryInsertStep DEF G
  <2> QED
    BY <1>4, <2>1, <2>2, <2>3, <2>4 DEF InsertStep
<1>5. ASSUME NEW t \in Threads, ScanStep(t) PROVE G
  BY <1>2, <1>5 DEF ScanStep, CountPages, ReadCount, ReadRecord
<1>6. ASSUME NEW t \in Threads, VacuumStep(t) PROVE G
  <2>1. CASE VacuumPage(t)
    BY <2>1, VacuumPageStep DEF G
  <2>2. CASE WriteHeader(t) \/ VacuumEnds(t)
    BY <1>2, <2>2 DEF WriteHeader, VacuumEnds
  <2> QED
    BY <1>6, <2>1, <2>2 DEF VacuumStep
<1>7. ASSUME NEW r \in DOMAIN rows, DeleteRecordPhysically(r) PROVE G
  BY <1>7, DeleteStep DEF G
<1> QED
  BY <1>3, <1>4, <1>5, <1>6, <1>7 DEF Next, G

--------------------------------------------------------------------------------
(****************************************************************************)
(* The other parts of the invariant, action by action.                      *)
(****************************************************************************)

\* The label after opening a page is the one of the thread's statement.
LEMMA OpenedLabel ==
    ASSUME IInv, NEW t \in Threads, op[t] # "none"
    PROVE  /\ Opened(t) \in {"insert", "vacuum", "count", "read", "record"}
           /\ Opened(t) = "insert" => op[t] = "insert"
           /\ Opened(t) = "vacuum" => op[t] = "vacuum"
           /\ Opened(t) \in {"count", "read", "record"} => op[t] = "scan"
           /\ Opened(t) = "record" => slot[t] >= 0
           /\ Opened(t) \in {"count", "read"} => slot[t] = -1
           /\ Opened(t) = "read" => current_page[t] # 0
<1>1. op[t] \in {"insert", "scan", "vacuum"} /\ slot[t] \in Nat \cup {-1}
  BY DEF IInv, ThreadTypes
<1>2. CASE op[t] = "insert"
  BY <1>2 DEF Opened
<1>3. CASE op[t] = "vacuum"
  BY <1>3 DEF Opened
<1>4. CASE op[t] = "scan"
  <2>1. Opened(t) = IF slot[t] >= 0 THEN "record" ELSE IF current_page[t] = 0 THEN "count" ELSE "read"
    BY <1>4 DEF Opened
  <2>2. ~(slot[t] >= 0) => slot[t] = -1
    BY <1>1
  <2> QED
    BY <1>4, <2>1, <2>2
<1> QED
  BY <1>1, <1>2, <1>3, <1>4

\* The steps that open a page, seen from the thread's control state.
LEMMA OpeningSteps ==
    ASSUME IInv, NEW t \in Threads, CheckNew(t) \/ CheckFree(t) \/ InitPage(t)
    PROVE  /\ \E l \in {"check_free", "init", Opened(t)} : pc' = [pc EXCEPT ![t] = l]
           /\ pc[t] \in {"check", "check_free", "init"} /\ op[t] # "none"
           /\ UNCHANGED <<total_pages, last_insert_page, op, page_num, current_page, slot, last_page,
                          record, rows, owed, misled, used>>
<1>1. CASE CheckNew(t)
  BY <1>1 DEF CheckNew, GoTo, localVars, IInv, Control
<1>2. CASE CheckFree(t)
  BY <1>2 DEF CheckFree, GoTo, localVars, IInv, Control
<1>3. CASE InitPage(t)
  BY <1>3 DEF InitPage, GoTo, localVars, IInv, Control
<1> QED
  BY <1>1, <1>2, <1>3

\* What next() does after it has read a count.
LEMMA ReadCountStep ==
    ASSUME IInv, NEW t \in Threads, ReadCount(t)
    PROVE  \E count \in SeenDirCount(current_page[t]) :
            /\ pc[t] = "read"
            /\ misled' = [misled EXCEPT ![t] =
                    IF count = GetDirCount(pages[current_page[t]]) THEN @ ELSE @ \cup {current_page[t]}]
            /\ \/ /\ slot[t] + 1 < count /\ slot' = [slot EXCEPT ![t] = @ + 1]
                  /\ pc' = [pc EXCEPT ![t] = "check"]
                  /\ UNCHANGED <<op, page_num, current_page, last_page, record>>
               \/ /\ slot[t] + 1 >= count /\ current_page[t] + 1 < last_page[t]
                  /\ current_page' = [current_page EXCEPT ![t] = @ + 1]
                  /\ slot' = [slot EXCEPT ![t] = -1] /\ pc' = [pc EXCEPT ![t] = "get_page"]
                  /\ UNCHANGED <<op, page_num, last_page, record>>
               \/ /\ slot[t] + 1 >= count /\ ~(current_page[t] + 1 < last_page[t])
                  /\ Return(t)
            /\ UNCHANGED <<pages, total_pages, last_insert_page, rows, owed, defect, used>>
BY DEF ReadCount, NextPage, GoTo

\* The end of a statement.
LEMMA ReturnTypes ==
    ASSUME ThreadTypes, NEW t \in Threads, Return(t)
    PROVE  /\ pc' \in [Threads -> Labels]
           /\ op' \in [Threads -> {"none", "insert", "scan", "vacuum"}]
           /\ page_num' \in [Threads -> Nat] /\ current_page' \in [Threads -> 0..MaxPages]
           /\ slot' \in [Threads -> Nat \cup {-1}] /\ last_page' \in [Threads -> 0..MaxPages]
           /\ record' \in [Threads -> Row \cup {NoRow}]
<1>1. 0 \in 0..MaxPages /\ 0 \in Nat /\ -1 \in Nat \cup {-1} /\ "idle" \in Labels
  BY HeapFilePageAssumption DEF Labels
<1> QED
  BY <1>1 DEF ThreadTypes, Return, GoTo

\* Every step keeps the types.
LEMMA TypesStep ==
    ASSUME IInv, Next
    PROVE  ThreadTypes'
<1> USE DEF ThreadTypes, GoTo
<1>1. ThreadTypes /\ Control
  BY DEF IInv
<1>2. /\ MaxPages \in Nat /\ MaxRows \in Nat
      /\ 0 \in 0..MaxPages /\ 0 \in Nat /\ -1 \in Nat \cup {-1}
  BY HeapFilePageAssumption
<1>3. ASSUME NEW t \in Threads, StartInsert(t) PROVE ThreadTypes'
  <2>1. used["insert"] \in Nat /\ used["insert"] < MaxRows
    BY <1>1, <1>3 DEF StartInsert
  <2>2. used["insert"] + 1 \in 1..MaxRows /\ used["insert"] + 1 \in Nat
    BY <1>2, <2>1
  <2>3. PICK n \in Lengths : record' = [record EXCEPT ![t] = [tag |-> used["insert"] + 1, length |-> n]]
    BY <1>3 DEF StartInsert
  <2>4. [tag |-> used["insert"] + 1, length |-> n] \in Row
    BY <2>2 DEF Row, Tags
  <2>5. record' \in [Threads -> Row \cup {NoRow}]
    BY <1>1, <2>3, <2>4
  <2>6. used' \in [{"insert", "vacuum", "scan", "delete"} -> Nat]
    BY <1>1, <1>3, <2>2 DEF StartInsert
  <2>7. "load" \in Labels
    BY DEF Labels
  <2> QED
    BY <1>1, <1>3, <2>5, <2>6, <2>7 DEF StartInsert
<1>4. ASSUME NEW t \in Threads, StartScan(t) PROVE ThreadTypes'
  <2>1. used["scan"] + 1 \in Nat /\ "get_page" \in Labels
    BY <1>1 DEF Labels
  <2>2. used' \in [{"insert", "vacuum", "scan", "delete"} -> Nat] /\ misled' \in [Threads -> SUBSET Pages]
    BY <1>1, <1>4, <2>1 DEF StartScan
  <2> QED
    BY <1>1, <1>2, <1>4, <2>1, <2>2 DEF StartScan
<1>5. ASSUME NEW t \in Threads, StartVacuum(t) PROVE ThreadTypes'
  <2>1. used["vacuum"] + 1 \in Nat /\ "get_page" \in Labels /\ "reset" \in Labels
    BY <1>1 DEF Labels
  <2>2. used' \in [{"insert", "vacuum", "scan", "delete"} -> Nat]
    BY <1>1, <1>5, <2>1 DEF StartVacuum
  <2> QED
    BY <1>1, <1>2, <1>5, <2>1, <2>2 DEF StartVacuum
<1>6. ASSUME NEW t \in Threads, Load(t) PROVE ThreadTypes'
  <2>1. "get_page" \in Labels
    BY DEF Labels
  <2> QED
    BY <1>1, <1>6, <2>1 DEF Load
<1>7. ASSUME NEW t \in Threads, GetPage(t) PROVE ThreadTypes'
  <2>1. total_pages' \in 0..MaxPages /\ current_page' \in [Threads -> 0..MaxPages] /\ "check" \in Labels
    BY <1>1, <1>7, GetPageStep DEF Labels
  <2> QED
    BY <1>1, <1>7, <2>1 DEF GetPage
<1>8. ASSUME NEW t \in Threads, CheckNew(t) \/ CheckFree(t) \/ InitPage(t) PROVE ThreadTypes'
  <2>1. PICK l \in {"check_free", "init", Opened(t)} : pc' = [pc EXCEPT ![t] = l]
    BY <1>8, OpeningSteps
  <2>2. l \in Labels
    <3>1. Opened(t) \in {"insert", "vacuum", "count", "read", "record"}
      BY <1>8, OpeningSteps, OpenedLabel
    <3> QED
      BY <3>1 DEF Labels
  <2>3. defect' \in {"none", "reinitialized", "garbage_entry"}
    BY <1>1, <1>8 DEF CheckNew, CheckFree, InitPage
  <2>4. UNCHANGED <<total_pages, last_insert_page, op, page_num, current_page, slot, last_page,
                    record, rows, owed, misled, used>>
    BY <1>8, OpeningSteps
  <2> QED
    BY <1>1, <2>1, <2>2, <2>3, <2>4
<1>9. ASSUME NEW t \in Threads, TryInsert(t) PROVE ThreadTypes'
  <2>1. CASE Return(t)
    BY <1>1, <1>9, <2>1, ReturnTypes DEF TryInsert
  <2>2. CASE pc' = [pc EXCEPT ![t] = "advance"] /\ UNCHANGED localVars
    <3>1. "advance" \in Labels
      BY DEF Labels
    <3> QED
      BY <1>1, <1>9, <2>2, <3>1 DEF TryInsert, localVars
  <2> QED
    BY <1>9, <2>1, <2>2 DEF TryInsert
<1>10. ASSUME NEW t \in Threads, Advance(t) PROVE ThreadTypes'
  <2>1. page_num[t] + 1 \in Nat /\ "load" \in Labels
    BY <1>1 DEF Labels
  <2> QED
    BY <1>1, <1>10, <2>1 DEF Advance, localVars
<1>11. ASSUME NEW r \in DOMAIN rows, DeleteRecordPhysically(r) PROVE ThreadTypes'
  <2>1. used["delete"] + 1 \in Nat
    BY <1>1
  <2>2. used' \in [{"insert", "vacuum", "scan", "delete"} -> Nat]
    BY <1>1, <1>11, <2>1 DEF DeleteRecordPhysically
  <2> QED
    BY <1>1, <1>11, <2>2 DEF DeleteRecordPhysically, localVars
<1>12. ASSUME NEW t \in Threads, CountPages(t) PROVE ThreadTypes'
  <2>1. "read" \in Labels
    BY DEF Labels
  <2> QED
    BY <1>1, <1>12, <2>1 DEF CountPages
<1>13. ASSUME NEW t \in Threads, ReadCount(t) PROVE ThreadTypes'
  <2> DEFINE p == current_page[t]
  <2>1. PICK count :
            /\ pc[t] = "read"
            /\ misled' = [misled EXCEPT ![t] = IF count = GetDirCount(pages[p]) THEN @ ELSE @ \cup {p}]
            /\ \/ /\ slot[t] + 1 < count /\ slot' = [slot EXCEPT ![t] = @ + 1]
                  /\ pc' = [pc EXCEPT ![t] = "check"]
                  /\ UNCHANGED <<op, page_num, current_page, last_page, record>>
               \/ /\ slot[t] + 1 >= count /\ p + 1 < last_page[t]
                  /\ current_page' = [current_page EXCEPT ![t] = @ + 1]
                  /\ slot' = [slot EXCEPT ![t] = -1] /\ pc' = [pc EXCEPT ![t] = "get_page"]
                  /\ UNCHANGED <<op, page_num, last_page, record>>
               \/ /\ slot[t] + 1 >= count /\ ~(p + 1 < last_page[t])
                  /\ Return(t)
            /\ UNCHANGED <<pages, total_pages, last_insert_page, rows, owed, defect, used>>
    BY <1>13, ReadCountStep
  <2>2. p \in Pages /\ p + 1 \in 0..MaxPages
    BY <2>1, OpenPage
  <2>3. misled' \in [Threads -> SUBSET Pages]
    <3>1. misled[t] \cup {p} \in SUBSET Pages
      BY <1>1, <2>2
    <3> HIDE DEF p
    <3> QED
      BY <1>1, <2>1, <3>1
  <2>4. slot[t] + 1 \in Nat \cup {-1} /\ "check" \in Labels /\ "get_page" \in Labels
    <3>1. slot[t] \in Nat \cup {-1}
      BY <1>1
    <3> QED
      BY <3>1 DEF Labels
  <2>5. CASE /\ slot' = [slot EXCEPT ![t] = @ + 1] /\ pc' = [pc EXCEPT ![t] = "check"]
             /\ UNCHANGED <<op, page_num, current_page, last_page, record>>
    BY <1>1, <2>1, <2>3, <2>4, <2>5
  <2>6. CASE /\ current_page' = [current_page EXCEPT ![t] = @ + 1]
             /\ slot' = [slot EXCEPT ![t] = -1] /\ pc' = [pc EXCEPT ![t] = "get_page"]
             /\ UNCHANGED <<op, page_num, last_page, record>>
    BY <1>1, <1>2, <2>1, <2>2, <2>3, <2>4, <2>6
  <2>7. CASE Return(t)
    BY <1>1, <2>1, <2>3, <2>7, ReturnTypes
  <2> QED
    BY <2>1, <2>5, <2>6, <2>7
<1>14. ASSUME NEW t \in Threads, ReadRecord(t) PROVE ThreadTypes'
  <2>1. "read" \in Labels
    BY DEF Labels
  <2> QED
    BY <1>1, <1>14, <2>1 DEF ReadRecord, localVars
<1>15. ASSUME NEW t \in Threads, VacuumPage(t) PROVE ThreadTypes'
  <2>1. "header" \in Labels
    BY DEF Labels
  <2> QED
    BY <1>1, <1>15, <2>1 DEF VacuumPage, localVars
<1>16. ASSUME NEW t \in Threads, WriteHeader(t) PROVE ThreadTypes'
  <2>1. current_page[t] + 1 \in 0..MaxPages /\ "get_page" \in Labels /\ "reset" \in Labels
    BY <1>16, OpenPage DEF WriteHeader, Labels
  <2> QED
    BY <1>1, <1>16, <2>1 DEF WriteHeader
<1>17. ASSUME NEW t \in Threads, VacuumEnds(t) PROVE ThreadTypes'
  BY <1>1, <1>2, <1>17, ReturnTypes DEF VacuumEnds
<1> QED
  BY <1>3, <1>4, <1>5, <1>6, <1>7, <1>8, <1>9, <1>10, <1>11, <1>12, <1>13, <1>14, <1>15, <1>16, <1>17
     DEF Next, Starts, InsertStep, ScanStep, VacuumStep

\* Every step keeps the threads' control state consistent.
LEMMA ControlStep ==
    ASSUME IInv, Next
    PROVE  Control'
<1> USE DEF GoTo
<1>1. ThreadTypes /\ Control
  BY DEF IInv
<1>2. /\ MaxPages \in Nat /\ MaxRows \in Nat
      /\ total_pages \in Nat /\ \A u \in Threads : current_page[u] \in Nat /\ last_page[u] \in Nat
  BY <1>1, HeapFilePageAssumption DEF ThreadTypes
<1>3. ASSUME NEW t \in Threads, StartInsert(t) PROVE Control'
  <2>1. used["insert"] \in Nat /\ used["insert"] < MaxRows
    BY <1>1, <1>3 DEF StartInsert, ThreadTypes
  <2>2. used["insert"] + 1 \in 1..MaxRows
    BY <1>2, <2>1
  <2>3. PICK n \in Lengths : record' = [record EXCEPT ![t] = [tag |-> used["insert"] + 1, length |-> n]]
    BY <1>3 DEF StartInsert
  <2>4. [tag |-> used["insert"] + 1, length |-> n] \in Row
    BY <2>2 DEF Row, Tags
  <2>5. \A u \in Threads : record'[u] = IF u = t THEN [tag |-> used["insert"] + 1, length |-> n] ELSE record[u]
    BY <1>1, <2>3 DEF ThreadTypes
  <2> QED
    BY <1>1, <1>3, <2>4, <2>5 DEF StartInsert, ThreadTypes, Control
<1>4. ASSUME NEW t \in Threads, StartScan(t) PROVE Control'
  BY <1>1, <1>4 DEF StartScan, ThreadTypes, Control
<1>5. ASSUME NEW t \in Threads, StartVacuum(t) PROVE Control'
  BY <1>1, <1>2, <1>5 DEF StartVacuum, ThreadTypes, Control
<1>6. ASSUME NEW t \in Threads, Load(t) PROVE Control'
  BY <1>1, <1>6 DEF Load, ThreadTypes, Control
<1>7. ASSUME NEW t \in Threads, GetPage(t) PROVE Control'
  <2> DEFINE Open == {"check", "check_free", "init", "insert", "count", "read", "record",
                      "vacuum", "header"}
  <2>1. /\ total_pages' >= total_pages /\ total_pages' \in Nat /\ current_page'[t] < total_pages'
        /\ \A u \in Threads : u # t => current_page'[u] = current_page[u]
    BY <1>1, <1>2, <1>7, GetPageStep DEF ThreadTypes
  <2>2. \A u \in Threads : last_page'[u] <= total_pages'
    BY <1>1, <1>2, <1>7, <2>1 DEF GetPage, Control
  <2>3. \A u \in Threads : current_page[u] < total_pages => current_page[u] < total_pages'
    BY <1>2, <2>1
  <2>4. /\ \A u \in Threads : pc'[u] = IF u = t THEN "check" ELSE pc[u]
        /\ pc[t] = "get_page" /\ op' = op /\ record' = record /\ slot' = slot
    BY <1>1, <1>7 DEF GetPage, ThreadTypes
  <2>5. ASSUME NEW u \in Threads, pc'[u] \in Open PROVE current_page'[u] < total_pages'
    <3>1. CASE u = t
      BY <2>1, <3>1
    <3>2. CASE u # t
      <4>1. pc[u] \in Open
        BY <2>4, <2>5, <3>2
      <4>2. current_page[u] < total_pages
        BY <1>1, <4>1 DEF Control
      <4> QED
        BY <2>1, <2>3, <3>2, <4>2
    <3> QED
      BY <3>1, <3>2
  <2> QED
    BY <1>1, <2>2, <2>4, <2>5 DEF Control
<1>8. ASSUME NEW t \in Threads, CheckNew(t) \/ CheckFree(t) \/ InitPage(t) PROVE Control'
  <2>1. PICK l \in {"check_free", "init", Opened(t)} : pc' = [pc EXCEPT ![t] = l]
    BY <1>8, OpeningSteps
  <2>2. /\ UNCHANGED <<total_pages, op, current_page, slot, last_page, record>>
        /\ pc[t] \in {"check", "check_free", "init"} /\ op[t] # "none"
    BY <1>8, OpeningSteps
  <2>3. /\ l \in {"check_free", "init", "insert", "vacuum", "count", "read", "record"}
        /\ l = "insert" => op[t] = "insert"
        /\ l = "vacuum" => op[t] = "vacuum"
        /\ l \in {"count", "read", "record"} => op[t] = "scan"
        /\ l = "record" => slot[t] >= 0
        /\ l = "count" => slot[t] = -1
    BY <2>2, OpenedLabel
  <2>4. current_page[t] < total_pages
    BY <1>1, <2>2 DEF Control
  <2>5. \A u \in Threads : pc'[u] = IF u = t THEN l ELSE pc[u]
    BY <1>1, <2>1 DEF ThreadTypes
  <2> QED
    BY <1>1, <2>2, <2>3, <2>4, <2>5 DEF Control
<1>9. ASSUME NEW t \in Threads, Return(t), total_pages' = total_pages PROVE Control'
  BY <1>1, <1>2, <1>9 DEF Return, ThreadTypes, Control
<1>10. ASSUME NEW t \in Threads, TryInsert(t) PROVE Control'
  <2>1. CASE Return(t)
    BY <1>9, <1>10, <2>1 DEF TryInsert
  <2>2. CASE pc' = [pc EXCEPT ![t] = "advance"] /\ UNCHANGED localVars
    BY <1>1, <1>10, <2>2 DEF TryInsert, localVars, ThreadTypes, Control
  <2> QED
    BY <1>10, <2>1, <2>2 DEF TryInsert
<1>11. ASSUME NEW t \in Threads, Advance(t) PROVE Control'
  BY <1>1, <1>11 DEF Advance, localVars, ThreadTypes, Control
<1>12. ASSUME NEW r \in DOMAIN rows, DeleteRecordPhysically(r) PROVE Control'
  BY <1>1, <1>12 DEF DeleteRecordPhysically, localVars, Control
<1>13. ASSUME NEW t \in Threads, CountPages(t) PROVE Control'
  BY <1>1, <1>2, <1>13 DEF CountPages, ThreadTypes, Control
<1>14. ASSUME NEW t \in Threads, ReadCount(t) PROVE Control'
  <2>1. pc[t] = "read" /\ total_pages' = total_pages
    BY <1>14 DEF ReadCount
  <2>2. op[t] = "scan" /\ current_page[t] < total_pages
    BY <1>1, <2>1 DEF Control
  <2>3. CASE Return(t)
    BY <1>9, <2>1, <2>3
  <2>4. CASE /\ pc' = [pc EXCEPT ![t] = "get_page"] /\ UNCHANGED <<op, last_page, record>>
             /\ current_page' = [current_page EXCEPT ![t] = @ + 1]
             /\ slot' = [slot EXCEPT ![t] = -1]
    BY <1>1, <2>1, <2>2, <2>4 DEF ThreadTypes, Control
  <2>5. CASE /\ slot' = [slot EXCEPT ![t] = @ + 1] /\ pc' = [pc EXCEPT ![t] = "check"]
             /\ UNCHANGED <<op, current_page, last_page, record>>
    BY <1>1, <2>1, <2>2, <2>5 DEF ThreadTypes, Control
  <2> QED
    BY <1>14, <2>3, <2>4, <2>5, ReadCountStep
<1>15. ASSUME NEW t \in Threads, ReadRecord(t) PROVE Control'
  BY <1>1, <1>15 DEF ReadRecord, localVars, ThreadTypes, Control
<1>16. ASSUME NEW t \in Threads, VacuumPage(t) PROVE Control'
  BY <1>1, <1>16 DEF VacuumPage, localVars, ThreadTypes, Control
<1>17. ASSUME NEW t \in Threads, WriteHeader(t) PROVE Control'
  BY <1>1, <1>17 DEF WriteHeader, ThreadTypes, Control
<1>18. ASSUME NEW t \in Threads, VacuumEnds(t) PROVE Control'
  BY <1>9, <1>18 DEF VacuumEnds
<1> QED
  BY <1>3, <1>4, <1>5, <1>6, <1>7, <1>8, <1>10, <1>11, <1>12, <1>13, <1>14, <1>15, <1>16, <1>17, <1>18
     DEF Next, Starts, InsertStep, ScanStep, VacuumStep

\* A scan that does not move, while rows are at most added, still has its rows ahead.
LEMMA ScanWaits ==
    ASSUME NEW u, ScanBehind(u), DOMAIN rows \subseteq DOMAIN rows',
           owed'[u] = owed[u], misled'[u] = misled[u], op'[u] = op[u],
           current_page'[u] = current_page[u], slot'[u] = slot[u], last_page'[u] = last_page[u],
           \A r \in owed[u] : r[2] \in Nat,
           pc'[u] = "read" => pc[u] = "read" \/ (current_page[u] > 0 /\ slot[u] = -1)
    PROVE  ScanBehind(u)'
<1>1. \A r \in owed[u] : r[2] > -1
  OBVIOUS
<1> QED
  BY <1>1 DEF ScanBehind

\* A scan all of whose rows are in pages that misled it has nothing ahead to keep.
LEMMA ScanOver ==
    ASSUME NEW u, owed'[u] \subseteq DOMAIN rows', \A r \in owed'[u] : r[1] \in misled'[u]
    PROVE  ScanBehind(u)'
BY DEF ScanBehind

\* A step of thread t leaves the scans of the others alone.
LEMMA ScanOfOthers ==
    ASSUME IInv, Sound, NEW t \in Threads, DOMAIN rows \subseteq DOMAIN rows',
           \A u \in Threads : u # t => /\ pc'[u] = pc[u] /\ op'[u] = op[u]
                                       /\ owed'[u] = owed[u] /\ misled'[u] = misled[u]
                                       /\ slot'[u] = slot[u]
                                       /\ current_page'[u] = current_page[u]
                                       /\ last_page'[u] = last_page[u],
           ScanBehind(t)'
    PROVE  ScanIsBehind'
<1>1. ASSUME NEW u \in Threads, u # t PROVE ScanBehind(u)'
  <2>1. ScanBehind(u) /\ owed[u] \subseteq DOMAIN rows
    BY DEF Sound, ScanIsBehind, ScanBehind
  <2>2. \A r \in DOMAIN rows : r[2] \in Cells
    BY RowIsInPage DEF Sound
  <2>3. \A r \in owed[u] : r[2] \in Nat
    BY <2>1, <2>2 DEF Cells
  <2> QED
    BY <1>1, <2>1, <2>3, ScanWaits
<1> QED
  BY <1>1 DEF ScanIsBehind

\* Every step that damages nothing keeps the scans behind the rows that they owe.
LEMMA ScansStep ==
    ASSUME IInv, Sound, Next
    PROVE  ScanIsBehind'
<1> USE DEF GoTo
<1>1. ThreadTypes /\ Control /\ ScanIsBehind /\ owed \in [Threads -> SUBSET RID]
  BY DEF IInv, Sound, PageTypes
<1>2. \A u \in Threads : op[u] # "scan" => \A r \in owed[u] : r[1] \in misled[u]
  BY <1>1 DEF ScanIsBehind, ScanBehind
<1>3. \A u \in Threads : owed[u] \subseteq DOMAIN rows
  BY <1>1 DEF ScanIsBehind, ScanBehind
<1>4. \A r \in DOMAIN rows : r[1] \in Nat /\ r[2] \in Nat /\ r = <<r[1], r[2]>>
  <2>1. ASSUME NEW r \in DOMAIN rows PROVE r[1] \in Pages /\ r[2] \in Cells /\ r = <<r[1], r[2]>>
    BY RowIsInPage DEF Sound
  <2> QED
    BY <2>1 DEF Pages, Cells
<1>5. ASSUME NEW t \in Threads, op[t] # "scan", owed' = owed, misled' = misled,
             DOMAIN rows \subseteq DOMAIN rows',
             \A u \in Threads : u # t => /\ pc'[u] = pc[u] /\ op'[u] = op[u] /\ slot'[u] = slot[u]
                                         /\ current_page'[u] = current_page[u]
                                         /\ last_page'[u] = last_page[u]
      PROVE  ScanIsBehind'
  <2>1. ScanBehind(t)'
    <3>1. owed'[t] \subseteq DOMAIN rows' /\ \A r \in owed'[t] : r[1] \in misled'[t]
      BY <1>2, <1>3, <1>5
    <3> QED
      BY <3>1, ScanOver
  <2> QED
    BY <1>5, <2>1, ScanOfOthers
<1>6. ASSUME NEW t \in Threads, Return(t)
      PROVE  \A u \in Threads : u # t => /\ pc'[u] = pc[u] /\ op'[u] = op[u] /\ slot'[u] = slot[u]
                                         /\ current_page'[u] = current_page[u]
                                         /\ last_page'[u] = last_page[u]
  BY <1>1, <1>6 DEF Return, ThreadTypes
<1>7. ASSUME NEW t \in Threads, Starts(t) PROVE ScanIsBehind'
  <2>1. op[t] = "none"
    BY <1>1, <1>7 DEF Starts, StartInsert, StartScan, StartVacuum, Control
  <2>2. CASE StartInsert(t)
    <3>1. /\ pc' = [pc EXCEPT ![t] = "load"] /\ op' = [op EXCEPT ![t] = "insert"]
          /\ UNCHANGED <<current_page, slot, last_page, rows, owed, misled>>
      BY <2>2 DEF StartInsert
    <3> QED
      BY <1>1, <1>5, <2>1, <3>1 DEF ThreadTypes
  <2>3. CASE StartVacuum(t)
    <3>1. PICK l : pc' = [pc EXCEPT ![t] = l]
      BY <2>3 DEF StartVacuum
    <3> QED
      BY <1>1, <1>5, <2>1, <2>3, <3>1 DEF StartVacuum, ThreadTypes
  <2>4. CASE StartScan(t)
    <3>1. /\ owed'[t] = DOMAIN rows /\ op'[t] = "scan" /\ current_page'[t] = 0 /\ slot'[t] = -1
          /\ pc'[t] = "get_page" /\ rows' = rows
      BY <1>1, <2>4 DEF StartScan, ThreadTypes
    <3>2. \A r \in DOMAIN rows : (r[1] > 0 \/ r[1] = 0) /\ r[2] >= -1
      BY <1>4
    <3>3. ScanBehind(t)'
      BY <3>1, <3>2 DEF ScanBehind
    <3> QED
      BY <1>1, <2>4, <3>1, <3>3, ScanOfOthers DEF StartScan, ThreadTypes
  <2> QED
    BY <1>7, <2>2, <2>3, <2>4 DEF Starts
<1>8. ASSUME NEW t \in Threads, Load(t) \/ Advance(t) PROVE ScanIsBehind'
  <2>1. op[t] # "scan"
    BY <1>1, <1>8 DEF Load, Advance, Control
  <2> QED
    BY <1>1, <1>5, <1>8, <2>1 DEF Load, Advance, localVars, ThreadTypes
<1>9. ASSUME NEW t \in Threads, GetPage(t) PROVE ScanIsBehind'
  <2>1. /\ \A u \in Threads : u # t => pc'[u] = pc[u] /\ current_page'[u] = current_page[u]
        /\ pc'[t] = "check" /\ UNCHANGED <<op, slot, last_page, owed, misled, rows>>
    <3>1. pc' = [pc EXCEPT ![t] = "check"] /\ UNCHANGED <<op, slot, last_page, owed, misled, rows>>
      BY <1>9 DEF GetPage
    <3>2. current_page' = [current_page EXCEPT ![t] = current_page'[t]]
      BY <1>9, GetPageStep
    <3>3. \A u \in Threads : u # t => current_page'[u] = current_page[u]
      BY <1>1, <3>2 DEF ThreadTypes
    <3> QED
      BY <1>1, <3>1, <3>3 DEF ThreadTypes
  <2>2. CASE op[t] # "scan"
    BY <1>5, <2>1, <2>2
  <2>3. CASE op[t] = "scan"
    <3>1. current_page'[t] = current_page[t]
      BY <1>9, <2>3, GetPageStep
    <3>2. \A r \in owed[t] : r[2] \in Nat
      BY <1>3, <1>4
    <3>3. ScanBehind(t)'
      BY <1>1, <2>1, <3>1, <3>2, ScanWaits DEF ScanIsBehind
    <3> QED
      BY <2>1, <3>3, ScanOfOthers
  <2> QED
    BY <2>2, <2>3
<1>10. ASSUME NEW t \in Threads, CheckNew(t) \/ CheckFree(t) \/ InitPage(t) PROVE ScanIsBehind'
  <2>1. PICK l \in {"check_free", "init", Opened(t)} : pc' = [pc EXCEPT ![t] = l]
    BY <1>10, OpeningSteps
  <2>2. /\ op[t] # "none"
        /\ UNCHANGED <<op, slot, last_page, current_page, owed, misled, rows>>
    BY <1>10, OpeningSteps
  <2>3. pc'[t] = l /\ \A u \in Threads : u # t => pc'[u] = pc[u]
    BY <1>1, <2>1 DEF ThreadTypes
  <2>4. l = "read" => current_page[t] > 0 /\ slot[t] = -1
    <3>1. l = "read" => current_page[t] # 0 /\ slot[t] = -1
      BY <2>2, OpenedLabel
    <3>2. current_page[t] \in Nat
      BY <1>1, HeapFilePageAssumption DEF ThreadTypes
    <3> QED
      BY <3>1, <3>2
  <2>5. \A r \in owed[t] : r[2] \in Nat
    BY <1>3, <1>4
  <2>6. ScanBehind(t)'
    BY <1>1, <2>2, <2>3, <2>4, <2>5, ScanWaits DEF ScanIsBehind
  <2> QED
    BY <2>2, <2>3, <2>6, ScanOfOthers
<1>11. ASSUME NEW t \in Threads, TryInsert(t) PROVE ScanIsBehind'
  <2>1. op[t] # "scan" /\ owed' = owed /\ misled' = misled
    BY <1>1, <1>11 DEF TryInsert, Control
  <2>2. DOMAIN rows \subseteq DOMAIN rows'
    BY <1>11, TryInsertStep
  <2>3. CASE Return(t)
    BY <1>5, <1>6, <2>1, <2>2, <2>3
  <2>4. CASE pc' = [pc EXCEPT ![t] = "advance"] /\ UNCHANGED localVars
    BY <1>1, <1>5, <2>1, <2>2, <2>4 DEF localVars, ThreadTypes
  <2> QED
    BY <1>11, <2>3, <2>4 DEF TryInsert
<1>12. ASSUME NEW r \in DOMAIN rows, DeleteRecordPhysically(r) PROVE ScanIsBehind'
  <2>1. DOMAIN rows' = DOMAIN rows \ {r}
    BY <1>12, DeleteStep
  <2>2. /\ \A u \in Threads : owed'[u] = owed[u] \ {r}
        /\ UNCHANGED <<pc, op, current_page, slot, last_page, misled>>
    BY <1>12 DEF DeleteRecordPhysically, localVars
  <2>3. ASSUME NEW u \in Threads PROVE ScanBehind(u)'
    BY <1>1, <2>1, <2>2 DEF ScanIsBehind, ScanBehind
  <2> QED
    BY <2>3 DEF ScanIsBehind
<1>13. ASSUME NEW t \in Threads, CountPages(t) PROVE ScanIsBehind'
  <2>1. /\ pc[t] = "count" /\ pc'[t] = "read" /\ last_page'[t] = total_pages
        /\ \A u \in Threads : u # t => pc'[u] = pc[u] /\ last_page'[u] = last_page[u]
        /\ UNCHANGED <<op, slot, current_page, owed, misled, rows>>
    BY <1>1, <1>13 DEF CountPages, ThreadTypes
  <2>2. \A r \in owed[t] : r[1] < total_pages
    BY <1>3 DEF Sound, PagesHoldRows
  <2>3. slot[t] = -1
    BY <1>13, <1>1 DEF CountPages, Control
  <2>4. ASSUME NEW r \in owed[t], r[1] \notin misled[t]
        PROVE  /\ op[t] = "scan"
               /\ r[1] > current_page[t] \/ (r[1] = current_page[t] /\ r[2] >= slot[t] /\ r[2] > slot[t])
    <3>1. /\ op[t] = "scan" /\ r[2] \in Nat
          /\ r[1] > current_page[t] \/ (r[1] = current_page[t] /\ r[2] >= slot[t])
      BY <1>1, <1>3, <1>4, <2>4 DEF ScanIsBehind, ScanBehind
    <3> QED
      BY <2>3, <3>1
  <2>5. ScanBehind(t)'
    BY <1>3, <2>1, <2>2, <2>4 DEF ScanBehind
  <2> QED
    BY <2>1, <2>5, ScanOfOthers
<1>14. ASSUME NEW t \in Threads, pc[t] \in {"read", "record"}, NEW r \in owed[t]
       PROVE  /\ current_page[t] \in Nat /\ slot[t] \in Nat \cup {-1} /\ last_page[t] \in Nat
              /\ r = <<r[1], r[2]>> /\ r[1] \in Nat /\ r[2] \in Nat
              /\ r[1] \notin misled[t] =>
                    /\ op[t] = "scan" /\ r[1] < last_page[t]
                    /\ \/ r[1] > current_page[t]
                       \/ r[1] = current_page[t] /\ r[2] >= slot[t] /\ (pc[t] = "read" => r[2] > slot[t])
              /\ r[1] = current_page[t] =>
                    /\ GetDirCount(pages[current_page[t]]) \in Nat
                    /\ r[2] < GetDirCount(pages[current_page[t]])
                    /\ GetRecord(pages[current_page[t]], r[2]) # <<>>
  <2>1. r \in DOMAIN rows /\ r = <<r[1], r[2]>> /\ r[1] \in Nat /\ r[2] \in Nat
    BY <1>3, <1>4
  <2>2. pc[t] = "record" => slot[t] >= 0
    BY <1>1 DEF Control
  <2>3. ASSUME r[1] \notin misled[t]
        PROVE  /\ op[t] = "scan" /\ r[1] < last_page[t]
               /\ \/ r[1] > current_page[t]
                  \/ r[1] = current_page[t] /\ r[2] >= slot[t] /\ (pc[t] = "read" => r[2] > slot[t])
    BY <1>1, <1>14, <2>2, <2>3 DEF ScanIsBehind, ScanBehind
  <2>4. current_page[t] \in Pages /\ current_page[t] \in Nat
    BY <1>14, OpenPage
  <2>5. slot[t] \in Nat \cup {-1} /\ last_page[t] \in Nat
    BY <1>1, HeapFilePageAssumption DEF ThreadTypes
  <2>6. ASSUME r[1] = current_page[t]
        PROVE  /\ GetDirCount(pages[current_page[t]]) \in Nat
               /\ r[2] < GetDirCount(pages[current_page[t]])
               /\ GetRecord(pages[current_page[t]], r[2]) # <<>>
    <3>1. PICK pg, R, d : /\ pg = pages[current_page[t]] /\ R = RowsIn(rows, current_page[t]) /\ d = r[2]
                          /\ Layout(pg, R) /\ d \in DOMAIN R
      BY <2>1, <2>4, <2>6, RowIsInPage DEF Sound, PagesHoldRows
    <3>2. GetRecord(pg, d) # <<>>
      BY <3>1, RecordIsRead
    <3>3. d \in 0..(pg[0] - 1) /\ pg[0] \in Nat /\ GetDirCount(pg) = pg[0]
      BY <3>1, LayoutFacts DEF Layout
    <3>4. GetDirCount(pg) \in Nat /\ d < GetDirCount(pg)
      BY <3>3
    <3> QED
      BY <3>1, <3>2, <3>4
  <2> QED
    BY <2>1, <2>3, <2>4, <2>5, <2>6
<1>15. ASSUME NEW t \in Threads, ReadRecord(t) PROVE ScanIsBehind'
  <2> DEFINE here == <<current_page[t], slot[t]>>
  <2>1. /\ pc[t] = "record" /\ pc'[t] = "read"
        /\ owed'[t] = IF GetRecord(pages[current_page[t]], slot[t]) = <<>> THEN owed[t]
                      ELSE owed[t] \ {here}
        /\ \A u \in Threads : u # t => pc'[u] = pc[u] /\ owed'[u] = owed[u]
        /\ UNCHANGED <<op, slot, current_page, last_page, rows, misled>>
    BY <1>1, <1>15 DEF ReadRecord, localVars, ThreadTypes
  <2>2. owed'[t] \subseteq owed[t] /\ here \notin owed'[t]
    <3>1. ASSUME here \in owed[t] PROVE GetRecord(pages[current_page[t]], slot[t]) # <<>>
      <4>1. here[1] = current_page[t] /\ here[2] = slot[t]
        OBVIOUS
      <4> HIDE DEF here
      <4> QED
        BY <1>14, <2>1, <3>1, <4>1
    <3> HIDE DEF here
    <3> QED
      BY <2>1, <3>1
  <2>3. ASSUME NEW r \in owed'[t], r[1] \notin misled[t]
        PROVE  /\ op[t] = "scan" /\ r[1] < last_page[t]
               /\ r[1] > current_page[t] \/ (r[1] = current_page[t] /\ r[2] > slot[t] /\ r[2] >= slot[t])
    <3>1. /\ op[t] = "scan" /\ r[1] < last_page[t]
          /\ r[1] > current_page[t] \/ (r[1] = current_page[t] /\ r[2] >= slot[t])
          /\ r = <<r[1], r[2]>> /\ r[1] \in Nat /\ r[2] \in Nat
          /\ slot[t] \in Nat \cup {-1} /\ current_page[t] \in Nat
      BY <1>14, <2>1, <2>2, <2>3
    <3>2. ~(r[1] = current_page[t] /\ r[2] = slot[t])
      BY <2>2, <3>1
    <3>3. PICK a \in Nat, b \in Nat : a = r[1] /\ b = r[2]
      BY <3>1
    <3> QED
      BY <3>1, <3>2, <3>3
  <2>4. ScanBehind(t)'
    <3>1. owed'[t] \subseteq DOMAIN rows'
      BY <1>3, <2>1, <2>2
    <3> QED
      BY <2>1, <2>3, <3>1 DEF ScanBehind
  <2> QED
    BY <2>1, <2>4, ScanOfOthers
<1>16. ASSUME NEW t \in Threads, ReadCount(t) PROVE ScanIsBehind'
  <2> DEFINE p == current_page[t]
  <2>1. PICK count \in SeenDirCount(p) :
            /\ pc[t] = "read"
            /\ misled' = [misled EXCEPT ![t] = IF count = GetDirCount(pages[p]) THEN @ ELSE @ \cup {p}]
            /\ \/ /\ slot[t] + 1 < count /\ slot' = [slot EXCEPT ![t] = @ + 1]
                  /\ pc' = [pc EXCEPT ![t] = "check"]
                  /\ UNCHANGED <<op, page_num, current_page, last_page, record>>
               \/ /\ slot[t] + 1 >= count /\ p + 1 < last_page[t]
                  /\ current_page' = [current_page EXCEPT ![t] = @ + 1]
                  /\ slot' = [slot EXCEPT ![t] = -1] /\ pc' = [pc EXCEPT ![t] = "get_page"]
                  /\ UNCHANGED <<op, page_num, last_page, record>>
               \/ /\ slot[t] + 1 >= count /\ ~(p + 1 < last_page[t])
                  /\ Return(t)
            /\ UNCHANGED <<pages, total_pages, last_insert_page, rows, owed, defect, used>>
    BY <1>16, ReadCountStep
  <2>2. /\ misled'[t] = IF count = GetDirCount(pages[p]) THEN misled[t] ELSE misled[t] \cup {p}
        /\ \A u \in Threads : u # t => misled'[u] = misled[u]
    <3> HIDE DEF p
    <3> QED
      BY <1>1, <2>1 DEF ThreadTypes
  <2>3. ASSUME NEW r \in owed[t], r[1] \notin misled'[t]
        PROVE  /\ op[t] = "scan" /\ r[1] < last_page[t] /\ r[1] \in Nat /\ r[2] \in Nat
               /\ p \in Nat /\ last_page[t] \in Nat /\ slot[t] \in Nat \cup {-1}
               /\ r[1] > p \/ (r[1] = p /\ r[2] > slot[t])
               /\ r[1] = p => count \in Nat /\ r[2] < count
    <3>1. r[1] \notin misled[t] /\ (r[1] = p => count = GetDirCount(pages[p]))
      BY <2>2, <2>3
    <3> QED
      BY <1>14, <2>1, <3>1
  <2>4. owed' = owed /\ rows' = rows /\ owed'[t] \subseteq DOMAIN rows'
    BY <1>3, <2>1
  <2> HIDE DEF p
  <2>5. CASE slot[t] + 1 < count /\ slot' = [slot EXCEPT ![t] = @ + 1] /\ pc' = [pc EXCEPT ![t] = "check"]
             /\ UNCHANGED <<op, page_num, current_page, last_page, record>>
    <3>1. /\ slot'[t] = slot[t] + 1 /\ pc'[t] = "check"
          /\ \A u \in Threads : u # t => pc'[u] = pc[u] /\ slot'[u] = slot[u]
      BY <1>1, <2>5 DEF ThreadTypes
    <3>2. ASSUME NEW r \in owed[t], r[1] \notin misled'[t]
          PROVE  /\ op[t] = "scan" /\ r[1] < last_page[t]
                 /\ r[1] > p \/ (r[1] = p /\ r[2] >= slot[t] + 1)
      <4>1. PICK b \in Nat : b = r[2]
        BY <2>3, <3>2
      <4> QED
        BY <2>3, <3>2, <4>1
    <3>3. ScanBehind(t)'
      BY <2>4, <2>5, <3>1, <3>2 DEF ScanBehind, p
    <3> QED
      BY <2>2, <2>4, <2>5, <3>1, <3>3, ScanOfOthers
  <2>6. ASSUME slot[t] + 1 >= count, NEW r \in owed[t], r[1] \notin misled'[t] PROVE r[1] > p
    <3>1. ASSUME r[1] = p PROVE FALSE
      <4>1. count \in Nat /\ r[2] \in Nat /\ r[2] < count /\ slot[t] \in Nat \cup {-1} /\ (r[1] > p \/ r[2] > slot[t])
            /\ r[1] \in Nat /\ p \in Nat
        BY <2>3, <2>6, <3>1
      <4>2. PICK a \in Nat, b \in Nat : a = r[1] /\ b = r[2]
        BY <4>1
      <4> QED
        BY <2>6, <3>1, <4>1, <4>2
    <3> QED
      BY <2>3, <2>6, <3>1
  <2>7. CASE /\ slot[t] + 1 >= count /\ p + 1 < last_page[t]
             /\ current_page' = [current_page EXCEPT ![t] = @ + 1]
             /\ slot' = [slot EXCEPT ![t] = -1] /\ pc' = [pc EXCEPT ![t] = "get_page"]
             /\ UNCHANGED <<op, page_num, last_page, record>>
    <3>1. /\ current_page'[t] = p + 1 /\ slot'[t] = -1 /\ pc'[t] = "get_page"
          /\ \A u \in Threads : u # t => /\ pc'[u] = pc[u] /\ slot'[u] = slot[u]
                                         /\ current_page'[u] = current_page[u]
      BY <1>1, <2>7 DEF ThreadTypes, p
    <3>2. ASSUME NEW r \in owed[t], r[1] \notin misled'[t]
          PROVE  /\ op[t] = "scan" /\ r[1] < last_page[t]
                 /\ r[1] > p + 1 \/ (r[1] = p + 1 /\ r[2] >= -1)
      <4>1. PICK a \in Nat, b \in Nat : a = r[1] /\ b = r[2]
        BY <2>3, <3>2
      <4>2. a > p /\ p \in Nat
        BY <2>3, <2>6, <2>7, <3>2, <4>1
      <4> QED
        BY <2>3, <3>2, <4>1, <4>2
    <3>3. ScanBehind(t)'
      BY <2>4, <2>7, <3>1, <3>2 DEF ScanBehind
    <3> QED
      BY <2>2, <2>4, <2>7, <3>1, <3>3, ScanOfOthers
  <2>8. CASE slot[t] + 1 >= count /\ ~(p + 1 < last_page[t]) /\ Return(t)
    <3>1. ASSUME NEW r \in owed[t], r[1] \notin misled'[t] PROVE FALSE
      <4>1. PICK a \in Nat, c \in Nat, l \in Nat : a = r[1] /\ c = p /\ l = last_page[t]
        BY <2>3, <3>1
      <4>2. a > c /\ a < l /\ ~(c + 1 < l)
        BY <2>3, <2>6, <2>8, <3>1, <4>1
      <4> QED
        BY <4>2
    <3>2. ScanBehind(t)'
      BY <2>4, <3>1, ScanOver
    <3> QED
      BY <1>6, <2>2, <2>4, <2>8, <3>2, ScanOfOthers
  <2> QED
    BY <2>1, <2>5, <2>7, <2>8 DEF p
<1>17. ASSUME NEW t \in Threads, VacuumStep(t) PROVE ScanIsBehind'
  <2>1. op[t] # "scan" /\ UNCHANGED <<owed, misled, rows>>
    BY <1>1, <1>17 DEF VacuumStep, VacuumPage, WriteHeader, VacuumEnds, Control
  <2>2. CASE VacuumPage(t)
    <3>1. pc' = [pc EXCEPT ![t] = "header"] /\ UNCHANGED <<op, slot, last_page, current_page>>
      BY <2>2 DEF VacuumPage, localVars
    <3> QED
      BY <1>1, <1>5, <2>1, <3>1 DEF ThreadTypes
  <2>3. CASE WriteHeader(t)
    <3>1. PICK l, x : pc' = [pc EXCEPT ![t] = l] /\ current_page' = [current_page EXCEPT ![t] = x]
      BY <2>3 DEF WriteHeader
    <3>2. UNCHANGED <<op, slot, last_page>>
      BY <2>3 DEF WriteHeader
    <3> QED
      BY <1>1, <1>5, <2>1, <3>1, <3>2 DEF ThreadTypes
  <2>4. CASE VacuumEnds(t)
    BY <1>5, <1>6, <2>1, <2>4 DEF VacuumEnds
  <2> QED
    BY <1>17, <2>2, <2>3, <2>4 DEF VacuumStep
<1> QED
  BY <1>7, <1>8, <1>9, <1>10, <1>11, <1>12, <1>13, <1>15, <1>16, <1>17 DEF Next, InsertStep, ScanStep

\* What a scan owes stays a set of RIDs for every thread.
LEMMA OwedStep ==
    ASSUME IInv, Sound, Next
    PROVE  owed' = [t \in Threads |-> owed'[t]]
<1>1. owed \in [Threads -> SUBSET RID]
  BY DEF Sound, PageTypes
<1>2. ASSUME NEW t \in Threads, NEW v, owed' = [owed EXCEPT ![t] = v]
      PROVE  owed' = [u \in Threads |-> owed'[u]]
  BY <1>1, <1>2
<1>3. ASSUME owed' = owed PROVE owed' = [u \in Threads |-> owed'[u]]
  BY <1>1, <1>3
<1>4. ASSUME NEW t \in Threads, Starts(t) PROVE owed' = [u \in Threads |-> owed'[u]]
  BY <1>2, <1>3, <1>4 DEF Starts, StartInsert, StartScan, StartVacuum
<1>5. ASSUME NEW t \in Threads, InsertStep(t) PROVE owed' = [u \in Threads |-> owed'[u]]
  BY <1>3, <1>5 DEF InsertStep, Load, GetPage, CheckNew, CheckFree, InitPage, TryInsert, Advance
<1>6. ASSUME NEW t \in Threads, ScanStep(t) PROVE owed' = [u \in Threads |-> owed'[u]]
  <2>1. CASE CountPages(t) \/ ReadCount(t)
    BY <1>3, <2>1 DEF CountPages, ReadCount
  <2>2. CASE ReadRecord(t)
    <3>1. PICK v : owed' = [owed EXCEPT ![t] = v]
      BY <2>2 DEF ReadRecord
    <3> QED
      BY <1>2, <3>1
  <2> QED
    BY <1>6, <2>1, <2>2 DEF ScanStep
<1>7. ASSUME NEW t \in Threads, VacuumStep(t) PROVE owed' = [u \in Threads |-> owed'[u]]
  BY <1>3, <1>7 DEF VacuumStep, VacuumPage, WriteHeader, VacuumEnds
<1>8. ASSUME NEW r \in DOMAIN rows, DeleteRecordPhysically(r) PROVE owed' = [u \in Threads |-> owed'[u]]
  BY <1>8 DEF DeleteRecordPhysically
<1> QED
  BY <1>4, <1>5, <1>6, <1>7, <1>8 DEF Next

--------------------------------------------------------------------------------
(****************************************************************************)
(* The theorems.                                                            *)
(****************************************************************************)

\* An empty file satisfies the invariant.
LEMMA InitInvariant == Init => IInv
<1> SUFFICES ASSUME Init PROVE IInv
  OBVIOUS
<1>1. MaxPages \in Nat /\ SIZE \in Nat /\ SIZE >= 3 /\ 0 \in Cells /\ 1 \in Cells
  <2>1. SIZE \in Nat /\ SIZE >= 3
    BY Sizes
  <2> QED
    BY <2>1, HeapFilePageAssumption DEF Cells
<1>2. DOMAIN rows = {}
  BY DEF Init
<1>3. \A p \in Pages : pages[p] = [c \in Cells |-> 0]
  BY DEF Init
<1>4. PageTypes
  <2>1. pages \in [Pages -> [Cells -> Int]]
    BY DEF Init
  <2>2. \A p \in Pages : pages[p][0] \in 0..SIZE /\ pages[p][1] \in 0..SIZE
    BY <1>1, <1>3
  <2>3. rows \in [DOMAIN rows -> Row]
    <3>1. rows = <<>>
      BY DEF Init
    <3> QED
      BY <1>2, <3>1
  <2>4. owed \in [Threads -> SUBSET RID]
    BY DEF Init
  <2> QED
    BY <1>2, <2>1, <2>2, <2>3, <2>4 DEF PageTypes
<1>5. ThreadTypes
  <2>1. "idle" \in Labels
    BY DEF Labels
  <2> QED
    BY <1>1, <2>1 DEF Init, ThreadTypes
<1>6. PagesHoldRows
  <2>1. ASSUME NEW p \in Pages PROVE Layout(pages[p], RowsIn(rows, p))
    <3>1. DOMAIN RowsIn(rows, p) = {}
      BY <1>2 DEF RowsIn
    <3>2. pages[p] \in [Cells -> Int] /\ pages[p][0] = 0 /\ pages[p][1] = 0
      BY <1>1, <1>3
    <3>3. 0..(0 - 1) = {} /\ 2 + 0 + 0 <= SIZE
      BY <1>1
    <3> QED
      BY <3>1, <3>2, <3>3 DEF Layout
  <2> QED
    BY <1>2, <2>1 DEF PagesHoldRows
<1>7. Control
  BY DEF Init, Control
<1>8. ScanIsBehind
  BY DEF Init, ScanIsBehind, ScanBehind
<1> QED
  BY <1>4, <1>5, <1>6, <1>7, <1>8 DEF IInv, Sound

\* Every step keeps the invariant.
LEMMA NextInvariant ==
    ASSUME IInv, [Next]_vars
    PROVE  IInv'
<1>1. CASE Next
  <2>1. ThreadTypes' /\ Control'
    BY <1>1, TypesStep, ControlStep
  <2>2. ASSUME defect' = "none" PROVE Sound'
    <3>1. Sound
      BY <1>1, <2>2, DefectStays DEF IInv
    <3>2. PagesHoldRows' /\ PagesTyped' /\ ScanIsBehind'
      BY <1>1, <2>2, <3>1, PagesStep, ScansStep
    <3>3. owed' \in [Threads -> SUBSET RID]
      <4>1. \A t \in Threads : owed'[t] \subseteq DOMAIN rows'
        BY <3>2 DEF ScanIsBehind, ScanBehind
      <4>2. \A t \in Threads : owed'[t] \in SUBSET RID
        BY <3>2, <4>1 DEF PagesTyped
      <4>3. owed' = [t \in Threads |-> owed'[t]]
        BY <1>1, <3>1, OwedStep
      <4> QED
        BY <4>2, <4>3
    <3> QED
      BY <3>2, <3>3 DEF Sound, PageTypes, PagesTyped
  <2> QED
    BY <2>1, <2>2 DEF IInv
<1>2. CASE UNCHANGED vars
  BY <1>2 DEF vars, IInv, Sound, ThreadTypes, PageTypes, PagesHoldRows, Control, ScanIsBehind, ScanBehind
<1> QED
  BY <1>1, <1>2

\* The invariant holds in every behaviour of the heap file's pages: the threads stay
\* consistent whatever happens, and the pages until one of them is damaged.
THEOREM PageInvariant == Spec => []IInv
<1>1. IInv /\ [Next]_vars => IInv'
  BY NextInvariant
<1> QED
  BY <1>1, InitInvariant, PTL DEF Spec

\* Every variable of heap_file.cc and heap_file_page.cc keeps its type; a count of
\* slots and a free space do not leave 0..SIZE before a page is damaged.
THEOREM PageTypesHold == Spec => []TypeOK
<1>1. IInv => TypeOK
  BY DEF IInv, ThreadTypes, Sound, TypeOK
<1> QED
  BY <1>1, PageInvariant, PTL

\* Every inserted and not deleted record is read back whole under its RID, for any
\* number of threads, any sizes and anything that uninitialized memory holds, until a
\* constructor initializes a page with entries or VACUUM keeps an entry nobody wrote:
\* these two are the only ways in which a row is lost.
THEOREM RowsStayIntact == Spec => []RowsIntact
<1>1. ASSUME IInv, defect = "none" PROVE RowsReadBack
  <2>1. Sound
    BY <1>1 DEF IInv
  <2>2. ASSUME NEW r \in DOMAIN rows
        PROVE  /\ r[2] \in Slots(pages[r[1]])
               /\ GetRecord(pages[r[1]], r[2]) = Encoded(rows[r])
    <3>1. PICK pg, R, d : /\ pg = pages[r[1]] /\ R = RowsIn(rows, r[1]) /\ d = r[2]
                          /\ Layout(pg, R) /\ d \in DOMAIN R /\ R[d] = rows[r]
      BY <2>1, RowIsInPage DEF Sound, PagesHoldRows
    <3>2. GetRecord(pg, d) = Encoded(rows[r])
      BY <3>1, RecordIsRead
    <3>3. d \in Slots(pg)
      <4>1. d \in 0..(pg[0] - 1)
        BY <3>1 DEF Layout
      <4> QED
        BY <3>1, <4>1, LayoutFacts
    <3> QED
      BY <3>1, <3>2, <3>3
  <2> QED
    BY <2>2 DEF RowsReadBack
<1>2. IInv => RowsIntact
  BY <1>1 DEF RowsIntact
<1> QED
  BY <1>2, PageInvariant, PTL

\* get_record finds no record in a slot that nobody inserted into, until a page is
\* damaged.
THEOREM NoRowIsInvented == Spec => []NoPhantomRow
<1>1. ASSUME IInv, defect = "none", NEW p \in Pages, NEW d \in Slots(pages[p]), GetDir(pages[p], d) > 0
      PROVE  <<p, d>> \in DOMAIN rows
  <2>1. PICK pg, R : pg = pages[p] /\ R = RowsIn(rows, p) /\ Layout(pg, R)
    BY <1>1 DEF IInv, Sound, PagesHoldRows
  <2>2. d \in 0..(pg[0] - 1) /\ GetDir(pg, d) = pg[2 + d] /\ pg[2 + d] \in Int
    BY <2>1, LayoutFacts
  <2>3. d \in DOMAIN R
    <3>1. d \notin DOMAIN R => pg[2 + d] < 0
      BY <2>1, <2>2 DEF Layout
    <3>2. ~(pg[2 + d] < 0)
      BY <1>1, <2>1, <2>2
    <3> QED
      BY <3>1, <3>2
  <2> QED
    BY <2>1, <2>3 DEF RowsIn
<1>2. IInv => NoPhantomRow
  BY <1>1 DEF NoPhantomRow
<1> QED
  BY <1>2, PageInvariant, PTL

\* The space that a page calls free is inside the page and in front of its records,
\* until a page is damaged.
THEOREM FreeSpaceStaysFree == Spec => []FreeSpaceIsFree
<1>1. ASSUME IInv, defect = "none", NEW p \in Pages
      PROVE  /\ DirOffset(GetDirCount(pages[p])) + GetFreeSpace(pages[p]) <= SIZE
             /\ \A r \in DOMAIN rows : r[1] = p =>
                  DirOffset(GetDirCount(pages[p])) + GetFreeSpace(pages[p]) <= GetDir(pages[p], r[2])
  <2>1. PICK pg, R : pg = pages[p] /\ R = RowsIn(rows, p) /\ Layout(pg, R)
    BY <1>1 DEF IInv, Sound, PagesHoldRows
  <2>2. pg[0] \in Nat /\ 2 + pg[0] + pg[1] <= SIZE /\ GetDirCount(pg) = pg[0] /\ GetFreeSpace(pg) = pg[1]
    BY <2>1, LayoutFacts DEF Layout
  <2>3. DirOffset(GetDirCount(pg)) + GetFreeSpace(pg) = 2 + pg[0] + pg[1]
    <3>1. DirOffset(pg[0]) = 2 + pg[0]
      BY <2>2, Sizes
    <3> QED
      BY <2>2, <3>1
  <2>4. ASSUME NEW r \in DOMAIN rows, r[1] = p PROVE 2 + pg[0] + pg[1] <= GetDir(pg, r[2])
    <3>1. PICK d : d = r[2] /\ d \in DOMAIN R
      BY <1>1, <2>1, <2>4, RowIsInPage DEF IInv, Sound
    <3>2. d \in 0..(pg[0] - 1) /\ 2 + pg[0] + pg[1] <= pg[2 + d]
      BY <2>1, <3>1 DEF Layout
    <3>3. GetDir(pg, d) = pg[2 + d]
      BY <2>1, <3>2, LayoutFacts
    <3> QED
      BY <3>1, <3>2, <3>3
  <2> QED
    BY <2>1, <2>2, <2>3, <2>4
<1>2. IInv => FreeSpaceIsFree
  BY <1>1 DEF FreeSpaceIsFree
<1> QED
  BY <1>2, PageInvariant, PTL

\* When HeapFileIter ends it has met every row that was there when it began and that
\* nobody has deleted, but for the rows of a page whose directory count it read while
\* vacuum() was writing the header, as long as no page is damaged.
THEOREM ScansMeetEveryRow == Spec => []ScanMeetsEveryRow
<1>1. IInv => ScanMeetsEveryRow
  <2>1. ASSUME IInv, defect = "none", NEW t \in Threads, pc[t] = "idle", NEW r \in owed[t]
        PROVE  r[1] \in misled[t]
    <3>1. op[t] = "none"
      BY <2>1 DEF IInv, Control
    <3> QED
      BY <2>1, <3>1 DEF IInv, Sound, ScanIsBehind, ScanBehind
  <2> QED
    BY <2>1 DEF ScanMeetsEveryRow
<1> QED
  BY <1>1, PageInvariant, PTL

\* The cells that vacuum() keeps of a page are those of the table's rows in it.
LEMMA LiveCells ==
    ASSUME Sound, NEW p \in Pages
    PROVE  Cardinality(UNION {{r} \X (1..RecordSize(rows[r].length)) :
                                  r \in {s \in DOMAIN rows : s[1] = p}})
               = Cardinality(KeptCells(pages[p], pages[p][0] - 1))
<1> DEFINE T == UNION {{r} \X (1..RecordSize(rows[r].length)) : r \in {s \in DOMAIN rows : s[1] = p}}
           S == KeptCells(pages[p], pages[p][0] - 1)
           F == [x \in S |-> <<<<p, x[1]>>, x[2]>>]
<1>1. PICK pg, R : pg = pages[p] /\ R = RowsIn(rows, p) /\ Layout(pg, R)
  BY DEF Sound, PagesHoldRows
<1>2. pg[0] - 1 \in Int /\ DOMAIN R \subseteq 0..(pg[0] - 1)
  BY <1>1 DEF Layout
<1>3. IsFiniteSet(S)
  BY <1>1, <1>2, KeptCounts
<1>4. S = RowCells(pg, R, pg[0] - 1)
  BY <1>1, KeptRows
<1>5. \A d : d \in DOMAIN R <=> d \in Cells /\ <<p, d>> \in DOMAIN rows
  BY <1>1 DEF RowsIn
<1>6. \A d \in DOMAIN R : R[d] = rows[<<p, d>>]
  BY <1>1 DEF RowsIn
<1>7. ASSUME NEW x \in S
      PROVE  /\ x[1] \in DOMAIN R /\ x[2] \in 1..Size(R[x[1]]) /\ x = <<x[1], x[2]>>
  <2>1. x[1] \in DOMAIN R /\ x[2] \in 1..SIZE /\ x[2] <= Size(R[x[1]]) /\ x = <<x[1], x[2]>>
    BY <1>4 DEF RowCells
  <2>2. Size(R[x[1]]) \in Nat /\ SIZE \in Nat
    BY <1>1, <2>1, RowSize, Sizes DEF Layout
  <2> QED
    BY <2>1, <2>2
<1>8. ASSUME NEW d \in DOMAIN R, NEW j \in 1..Size(R[d]) PROVE <<d, j>> \in S
  <2>1. Size(R[d]) \in Nat /\ Size(R[d]) + 3 <= SIZE /\ SIZE \in Nat
    BY <1>1, RowSize, Sizes DEF Layout
  <2>2. j \in 1..SIZE /\ j <= Size(R[d])
    BY <2>1
  <2>3. d \in 0..(pg[0] - 1)
    BY <1>2
  <2>4. d <= pg[0] - 1
    BY <2>3
  <2> QED
    BY <1>4, <2>2, <2>3, <2>4 DEF RowCells
<1>9. \A x \in S : F[x] \in T
  <2>1. ASSUME NEW x \in S PROVE <<<<p, x[1]>>, x[2]>> \in T
    <3>1. PICK d, j : d = x[1] /\ j = x[2] /\ d \in DOMAIN R /\ j \in 1..Size(R[d])
      BY <1>7
    <3>2. <<p, d>> \in DOMAIN rows /\ <<p, d>>[1] = p /\ j \in 1..RecordSize(rows[<<p, d>>].length)
      BY <1>5, <1>6, <3>1 DEF Size
    <3>3. <<<<p, d>>, j>> \in T
      BY <3>2
    <3> QED
      BY <3>1, <3>3
  <2> QED
    BY <2>1
<1>10. \A y \in T : \E x \in S : F[x] = y
  <2>1. ASSUME NEW y \in T PROVE \E x \in S : <<<<p, x[1]>>, x[2]>> = y
    <3>1. PICK r \in DOMAIN rows : r[1] = p /\ y \in {r} \X (1..RecordSize(rows[r].length))
      OBVIOUS
    <3>2. PICK j \in 1..RecordSize(rows[r].length) : y = <<r, j>>
      BY <3>1
    <3>3. PICK d \in Cells : r = <<p, d>>
      BY <3>1, RowIsInPage DEF Sound
    <3>4. d \in DOMAIN R /\ j \in 1..Size(R[d])
      BY <1>5, <1>6, <3>3 DEF Size
    <3>5. <<d, j>> \in S
      BY <1>8, <3>4
    <3> HIDE DEF S
    <3> QED
      BY <3>2, <3>3, <3>5
  <2> QED
    BY <2>1
<1>11. \A x, y \in S : F[x] = F[y] => x = y
  <2>1. ASSUME NEW x \in S, NEW y \in S, <<<<p, x[1]>>, x[2]>> = <<<<p, y[1]>>, y[2]>>
        PROVE  x = y
    <3>1. x[1] = y[1] /\ x[2] = y[2]
      BY <2>1
    <3> QED
      BY <1>7, <3>1
  <2> QED
    BY <2>1
<1>12. F \in [S -> T]
  BY <1>9
<1>13. ExistsBijection(S, T)
  <2> HIDE DEF S, T
  <2>1. F \in Bijection(S, T)
    BY <1>10, <1>11, <1>12 DEF Bijection, Injection, Surjection, IsInjective
  <2> QED
    BY <2>1 DEF ExistsBijection
<1> HIDE DEF S, T
<1>14. Cardinality(T) = Cardinality(S)
  BY <1>3, <1>13, FS_Bijection
<1> QED
  BY <1>14 DEF S, T

\* After VACUUM of a page its header, directory, free space and rows fill it exactly,
\* and the directory ends with a row, or is one slot long; this holds of every VACUUM
\* of a file that is not damaged, also of the one that damages it.
THEOREM VacuumReclaimsAll == Spec => VacuumReclaims
<1>1. ASSUME IInv, NEW t \in Threads, VacuumPage(t), defect = "none"
      PROVE  LET p == current_page[t]
                 pg == pages'[p]
                 live == {r \in DOMAIN rows : r[1] = p}
                 cells == UNION {{r} \X (1..RecordSize(rows[r].length)) : r \in live}
             IN  /\ SIZE = DirOffset(GetDirCount(pg)) + GetFreeSpace(pg) + Cardinality(cells)
                 /\ GetDirCount(pg) > 1 => <<p, GetDirCount(pg) - 1>> \in live
  <2>1. PICK p \in Pages : p = current_page[t]
    BY <1>1, OpenPage DEF VacuumPage
  <2>2. PICK u \in Uninit : pages' = [pages EXCEPT ![p] = Vacuumed(pages[p], u)]
    BY <1>1, <2>1 DEF VacuumPage
  <2>3. u \in Int /\ Sound
    BY <1>1, HeapFilePageAssumption DEF IInv
  <2>4. PICK pg, R, q : /\ pg = pages[p] /\ R = RowsIn(rows, p) /\ Layout(pg, R) /\ q = Vacuumed(pg, u)
    BY <2>3 DEF Sound, PagesHoldRows
  <2>5. pages'[p] = q
    BY <2>2, <2>3, <2>4 DEF Sound, PageTypes
  <2>6. /\ q[0] \in Nat /\ q[1] \in Nat /\ (q[0] > 1 => q[0] - 1 \in DOMAIN R)
        /\ SIZE = 2 + q[0] + q[1] + Cardinality(KeptCells(pg, pg[0] - 1))
    BY <2>3, <2>4, VacuumKeepsLayout
  <2> DEFINE live == {r \in DOMAIN rows : r[1] = p}
             cells == UNION {{r} \X (1..RecordSize(rows[r].length)) : r \in live}
  <2>7. Cardinality(cells) = Cardinality(KeptCells(pg, pg[0] - 1))
    BY <2>3, <2>4, LiveCells
  <2>8. GetDirCount(q) = q[0] /\ GetFreeSpace(q) = q[1] /\ q[0] \in Nat
    BY <2>6 DEF GetDirCount, GetFreeSpace
  <2>9. DirOffset(q[0]) = 2 + q[0]
    BY <2>8, Sizes
  <2>10. SIZE = DirOffset(GetDirCount(q)) + GetFreeSpace(q) + Cardinality(cells)
    <3> HIDE DEF cells
    <3> QED
      BY <2>6, <2>7, <2>8, <2>9
  <2>11. GetDirCount(q) > 1 => <<p, GetDirCount(q) - 1>> \in live
    <3>1. \A d \in DOMAIN R : <<p, d>> \in DOMAIN rows /\ <<p, d>>[1] = p
      BY <2>4 DEF RowsIn
    <3> QED
      BY <2>6, <2>8, <3>1
  <2> HIDE DEF live, cells
  <2>12. /\ SIZE = DirOffset(GetDirCount(pages'[p])) + GetFreeSpace(pages'[p]) + Cardinality(cells)
         /\ GetDirCount(pages'[p]) > 1 => <<p, GetDirCount(pages'[p]) - 1>> \in live
    BY <2>5, <2>10, <2>11
  <2> QED
    BY <2>1, <2>12 DEF live, cells
<1>2. IInv =>
        [\A t \in Threads : VacuumPage(t) /\ defect = "none" =>
            LET p == current_page[t]
                pg == pages'[p]
                live == {r \in DOMAIN rows : r[1] = p}
                cells == UNION {{r} \X (1..RecordSize(rows[r].length)) : r \in live}
            IN  /\ SIZE = DirOffset(GetDirCount(pg)) + GetFreeSpace(pg) + Cardinality(cells)
                /\ GetDirCount(pg) > 1 => <<p, GetDirCount(pg) - 1>> \in live]_vars
  BY <1>1, Zenon
<1> QED
  BY <1>2, PageInvariant, PTL DEF VacuumReclaims

================================================================================
