----------------------------- MODULE WalProofs -----------------------------
(***************************************************************************)
(* What a server's log on the simulated disk keeps, for records of any     *)
(* size, logs of any length and any number of crashes, failed writes and   *)
(* restarts: it implements HardStateStore.                                 *)
(***************************************************************************)
EXTENDS Wal, SequenceTheorems, WellFoundedInduction, TLAPS

-----------------------------------------------------------------------------
(* Numbers.                                                                *)

LEMMA LeastOf ==
  ASSUME NEW T, T \subseteq Nat, T # {}
  PROVE  \E x \in T : \A y \in T : x <= y
<1> DEFINE Q == {p \in Nat \X Nat : p[1] < p[2]}
<1>1. IsWellFoundedOn(Q, Nat)
  BY NatLessThanWellFounded DEF OpToRel
<1> HIDE DEF Q
<1>2. PICK x \in T : \A y \in T : <<y, x>> \notin Q
  BY <1>1, WFMin
<1>3. \A y \in T : ~ (y < x)
  BY <1>2 DEF Q
<1> QED BY <1>3

(* The length of n records.                                                *)
Cells(n) == n * CELLS

LEMMA Multiples ==
  ASSUME NEW a \in Nat, NEW b \in Nat
  PROVE  /\ CELLS \in Nat /\ CELLS >= 1
         /\ Cells(a) \in Nat /\ Cells(b) \in Nat
         /\ a <= Cells(a)
         /\ Cells(a + b) = Cells(a) + Cells(b)
         /\ Cells(a + 1) = Cells(a) + CELLS
         /\ a <= b => Cells(a) <= Cells(b)
         /\ a < b => Cells(a) + CELLS <= Cells(b)
<1>1. CELLS \in Nat /\ CELLS >= 1
  BY CellsAssumption
<1>2. a * CELLS \in Nat /\ b * CELLS \in Nat /\ a <= a * CELLS
  BY <1>1
<1>3. (a + b) * CELLS = a * CELLS + b * CELLS /\ (a + 1) * CELLS = a * CELLS + CELLS
  BY <1>1
<1>4. a <= b => a * CELLS <= b * CELLS
  BY <1>1
<1>5. a < b => a * CELLS + CELLS <= b * CELLS
  <2> SUFFICES ASSUME a < b PROVE (a + 1) * CELLS <= b * CELLS
    BY <1>3
  <2> QED BY <1>1
<1> QED BY <1>1, <1>2, <1>3, <1>4, <1>5 DEF Cells

LEMMA NoCells == Cells(0) = 0
BY CellsAssumption DEF Cells

(* Every position is in some cell k of some record j.                      *)
LEMMA CellOf ==
  ASSUME NEW n \in Nat, NEW i \in 1 .. Cells(n)
  PROVE  \E j \in 1 .. n, k \in 1 .. CELLS : i = Cells(j - 1) + k
<1>1. CELLS \in Nat /\ CELLS >= 1
  BY CellsAssumption
<1> DEFINE q == (i - 1) \div CELLS
           r == (i - 1) % CELLS
<1>2. q \in Nat /\ r \in 0 .. CELLS - 1 /\ i - 1 = q * CELLS + r
  BY <1>1
<1> HIDE DEF q, r
<1>3. i = Cells((q + 1) - 1) + (r + 1)
  BY <1>1, <1>2 DEF Cells
<1>4. q + 1 \in Nat \ {0} /\ r + 1 \in 1 .. CELLS
  BY <1>1, <1>2
<1>5. q + 1 <= n
  <2> SUFFICES ASSUME n <= q PROVE FALSE
    BY <1>2
  <2>1. Cells(n) <= Cells(q) /\ Cells(n) \in Nat /\ Cells(q) \in Nat
    BY <1>2, Multiples
  <2>2. i = Cells(q) + (r + 1)
    BY <1>2, <1>3
  <2> QED BY <1>1, <1>2, <2>1, <2>2
<1>6. q + 1 \in 1 .. n
  BY <1>4, <1>5
<1> QED BY <1>3, <1>4, <1>6

LEMMA CellIs ==
  ASSUME NEW n \in Nat, NEW j \in 1 .. n, NEW k \in 1 .. CELLS,
         NEW i, i = Cells(j - 1) + k
  PROVE  /\ i \in 1 .. Cells(n)
         /\ (i - 1) \div CELLS = j - 1
         /\ (i - 1) % CELLS = k - 1
<1>1. CELLS \in Nat /\ CELLS >= 1
  BY CellsAssumption
<1> DEFINE p == i - 1
           q == p \div CELLS
           r == p % CELLS
<1>2. /\ Cells(j - 1) \in Nat /\ Cells(n) \in Nat
      /\ Cells(j - 1) + CELLS <= Cells(n)
  <2>1. j - 1 \in Nat /\ j - 1 < n
    OBVIOUS
  <2> QED BY <2>1, Multiples
<1>3. p \in Nat /\ p = Cells(j - 1) + (k - 1)
  BY <1>1, <1>2
<1> HIDE DEF p
<1>4. q \in Nat /\ r \in 0 .. CELLS - 1 /\ p = Cells(q) + r
  BY <1>1, <1>3 DEF Cells
<1>5. q = j - 1
  <2>1. CASE q < j - 1
    <3>1. Cells(q) + CELLS <= Cells(j - 1) /\ Cells(q) \in Nat
      BY <1>4, <2>1, Multiples
    <3> HIDE DEF q, r
    <3> QED BY <1>3, <1>1, <1>2, <1>4, <3>1
  <2>2. CASE j - 1 < q
    <3>1. Cells(j - 1) + CELLS <= Cells(q) /\ Cells(q) \in Nat
      BY <1>4, <2>2, Multiples
    <3> HIDE DEF q, r
    <3> QED BY <1>3, <1>1, <1>2, <1>4, <3>1
  <2> HIDE DEF q
  <2> QED BY <1>4, <2>1, <2>2
<1>6. r = k - 1
  <2> HIDE DEF q, r
  <2> QED BY <1>3, <1>1, <1>2, <1>4, <1>5
<1>7. i \in 1 .. Cells(n)
  BY <1>1, <1>2
<1> QED BY <1>5, <1>6, <1>7 DEF p

-----------------------------------------------------------------------------
(* The framing.                                                            *)

Cell(S) == [rec : S, part : 1 .. CELLS]

LEMMA EncodeIs ==
  ASSUME NEW S, NEW rs \in Seq(S)
  PROVE  /\ Encode(rs) \in Seq(Cell(S))
         /\ Len(Encode(rs)) = Cells(Len(rs))
         /\ \A j \in 1 .. Len(rs), k \in 1 .. CELLS :
              Encode(rs)[Cells(j - 1) + k] = [rec |-> rs[j], part |-> k]
<1>1. Len(rs) \in Nat /\ Cells(Len(rs)) \in Nat
  BY Multiples
<1>2. Encode(rs) = [i \in 1 .. Cells(Len(rs)) |->
                      [rec |-> rs[((i - 1) \div CELLS) + 1], part |-> ((i - 1) % CELLS) + 1]]
  BY DEF Encode, Cells
<1>3. ASSUME NEW j \in 1 .. Len(rs), NEW k \in 1 .. CELLS
      PROVE  Encode(rs)[Cells(j - 1) + k] = [rec |-> rs[j], part |-> k]
  <2>1. PICK i : i = Cells(j - 1) + k
    OBVIOUS
  <2>2. i \in 1 .. Cells(Len(rs)) /\ (i - 1) \div CELLS = j - 1 /\ (i - 1) % CELLS = k - 1
    BY <1>1, <2>1, CellIs
  <2>3. Encode(rs)[i] = [rec |-> rs[(j - 1) + 1], part |-> (k - 1) + 1]
    BY <1>2, <2>2
  <2>4. (j - 1) + 1 = j /\ (k - 1) + 1 = k
    BY CellsAssumption
  <2> QED BY <2>1, <2>3, <2>4
<1>4. ASSUME NEW i \in 1 .. Cells(Len(rs))
      PROVE  Encode(rs)[i] \in Cell(S)
  <2>1. PICK j \in 1 .. Len(rs), k \in 1 .. CELLS : i = Cells(j - 1) + k
    BY <1>1, CellOf
  <2>2. Encode(rs)[i] = [rec |-> rs[j], part |-> k] /\ rs[j] \in S
    BY <1>3, <2>1
  <2> QED BY <2>2 DEF Cell
<1>5. Encode(rs) \in [1 .. Cells(Len(rs)) -> Cell(S)]
  BY <1>2, <1>4
<1>6. Encode(rs) \in Seq(Cell(S)) /\ Len(Encode(rs)) = Cells(Len(rs))
  BY <1>1, <1>5
<1> QED BY <1>3, <1>6

(* Two sequences with the same cells are the same.                         *)
LEMMA SameCells ==
  ASSUME NEW S, NEW a \in Seq(S), NEW b \in Seq(S), NEW n \in Nat,
         Len(a) = Cells(n), Len(b) = Cells(n),
         \A j \in 1 .. n, k \in 1 .. CELLS : a[Cells(j - 1) + k] = b[Cells(j - 1) + k]
  PROVE  a = b
<1>1. ASSUME NEW i \in 1 .. Cells(n) PROVE a[i] = b[i]
  <2>1. PICK j \in 1 .. n, k \in 1 .. CELLS : i = Cells(j - 1) + k
    BY CellOf
  <2> QED BY <2>1
<1> QED BY <1>1

LEMMA EncodeConcat ==
  ASSUME NEW S, NEW a \in Seq(S), NEW b \in Seq(S)
  PROVE  Encode(a \o b) = Encode(a) \o Encode(b)
<1> DEFINE c == a \o b
           d == Encode(a) \o Encode(b)
           n == Len(a) + Len(b)
<1>1. /\ c \in Seq(S) /\ Len(c) = n
      /\ \A j \in 1 .. n : c[j] = IF j <= Len(a) THEN a[j] ELSE b[j - Len(a)]
  BY ConcatProperties
<1>2. /\ Encode(a) \in Seq(Cell(S)) /\ Len(Encode(a)) = Cells(Len(a))
      /\ Encode(b) \in Seq(Cell(S)) /\ Len(Encode(b)) = Cells(Len(b))
      /\ Encode(c) \in Seq(Cell(S)) /\ Len(Encode(c)) = Cells(n)
  BY <1>1, EncodeIs
<1>3. /\ n \in Nat /\ Len(a) \in Nat /\ Len(b) \in Nat /\ CELLS \in Nat
      /\ Cells(n) = Cells(Len(a)) + Cells(Len(b))
      /\ Cells(n) \in Nat /\ Cells(Len(a)) \in Nat /\ Cells(Len(b)) \in Nat
  <2>1. Len(a) \in Nat /\ Len(b) \in Nat /\ n \in Nat
    OBVIOUS
  <2> QED BY <2>1, Multiples
<1>4. /\ d \in Seq(Cell(S)) /\ Len(d) = Cells(n)
      /\ \A i \in 1 .. Cells(n) :
           d[i] = IF i <= Cells(Len(a)) THEN Encode(a)[i] ELSE Encode(b)[i - Cells(Len(a))]
  <2>1. /\ d \in Seq(Cell(S)) /\ Len(d) = Len(Encode(a)) + Len(Encode(b))
        /\ \A i \in 1 .. Len(Encode(a)) + Len(Encode(b)) :
             d[i] = IF i <= Len(Encode(a)) THEN Encode(a)[i] ELSE Encode(b)[i - Len(Encode(a))]
    BY <1>2, ConcatProperties
  <2> HIDE DEF d, n, c
  <2> QED BY <1>2, <1>3, <2>1
<1> HIDE DEF c, d
<1>5. ASSUME NEW j \in 1 .. n, NEW k \in 1 .. CELLS
      PROVE  Encode(c)[Cells(j - 1) + k] = d[Cells(j - 1) + k]
  <2> DEFINE i == Cells(j - 1) + k
  <2>1. i \in 1 .. Cells(n)
    BY <1>3, CellIs
  <2>2. Encode(c)[i] = [rec |-> c[j], part |-> k]
    <3> HIDE DEF n
    <3>1. c \in Seq(S) /\ j \in 1 .. Len(c)
      BY <1>1
    <3>2. \A y \in 1 .. Len(c), z \in 1 .. CELLS :
            Encode(c)[Cells(y - 1) + z] = [rec |-> c[y], part |-> z]
      BY ONLY <3>1, EncodeIs
    <3> QED BY <3>1, <3>2
  <2>3. CASE j <= Len(a)
    <3>1. j \in 1 .. Len(a)
      BY <2>3
    <3>2. i \in 1 .. Cells(Len(a)) /\ Encode(a)[i] = [rec |-> a[j], part |-> k]
      <4>1. i \in 1 .. Cells(Len(a))
        BY <1>3, <3>1, CellIs
      <4>2. Encode(a)[i] = [rec |-> a[j], part |-> k]
        BY <3>1, EncodeIs
      <4> QED BY <4>1, <4>2
    <3>3. c[j] = a[j]
      BY <1>1, <2>3
    <3> HIDE DEF i, n
    <3>4. d[i] = Encode(a)[i]
      BY <1>3, <1>4, <2>1, <3>2
    <3> QED BY <2>2, <3>2, <3>3, <3>4 DEF i
  <2>4. CASE j > Len(a)
    <3> DEFINE h == j - Len(a)
               o == Cells(h - 1) + k
    <3>1. h \in 1 .. Len(b) /\ j - 1 = Len(a) + (h - 1) /\ h - 1 \in Nat
      BY <1>3, <2>4
    <3>2. o \in 1 .. Cells(Len(b)) /\ Encode(b)[o] = [rec |-> b[h], part |-> k]
      <4> HIDE DEF h
      <4> QED BY <1>3, <3>1, EncodeIs, CellIs
    <3>3. c[j] = b[h]
      BY <1>1, <2>4
    <3>4. i = Cells(Len(a)) + o
      <4>1. Cells(Len(a) + (h - 1)) = Cells(Len(a)) + Cells(h - 1) /\ Cells(h - 1) \in Nat
        BY <1>3, <3>1, Multiples
      <4> HIDE DEF h
      <4> QED BY <1>3, <3>1, <4>1
    <3> HIDE DEF i, o, h, n
    <3>5. d[i] = Encode(b)[o]
      <4>1. PICK z : z = Cells(Len(a))
        OBVIOUS
      <4>2. PICK w : w = Cells(Len(b))
        OBVIOUS
      <4>3. z \in Nat /\ w \in Nat /\ o \in 1 .. w /\ i = z + o
        BY <1>3, <3>2, <3>4, <4>1, <4>2
      <4>4. ~(i <= z) /\ i - z = o
        BY ONLY <4>3
      <4>5. d[i] = IF i <= Cells(Len(a)) THEN Encode(a)[i] ELSE Encode(b)[i - Cells(Len(a))]
        BY ONLY <1>4, <2>1
      <4> QED BY ONLY <4>1, <4>4, <4>5
    <3> QED BY <2>2, <3>2, <3>3, <3>5 DEF i
  <2> QED BY <1>3, <2>3, <2>4
<1>6. Encode(c) = d
  <2> HIDE DEF n
  <2>1. PICK Q : Q = Cell(S)
    OBVIOUS
  <2>2. PICK e : e = Encode(c)
    OBVIOUS
  <2>3. e \in Seq(Q) /\ d \in Seq(Q) /\ n \in Nat /\ Len(e) = Cells(n) /\ Len(d) = Cells(n)
    BY <1>2, <1>3, <1>4, <2>1, <2>2
  <2>4. \A j \in 1 .. n, k \in 1 .. CELLS : e[Cells(j - 1) + k] = d[Cells(j - 1) + k]
    BY ONLY <1>5, <2>2
  <2>5. e = d
    BY ONLY <2>3, <2>4, SameCells
  <2> QED BY <2>2, <2>5
<1> QED BY <1>6 DEF c, d

LEMMA WholeIs ==
  ASSUME NEW image, NEW j \in Nat \ {0}
  PROVE  Whole(image, j) <=>
           /\ Cells(j) <= Len(image)
           /\ \A k \in 1 .. CELLS :
                image[Cells(j - 1) + k] = [rec |-> image[Cells(j)].rec, part |-> k]
BY DEF Whole, Cells

LEMMA ValidIs ==
  ASSUME NEW S, NEW image \in Seq(S), NEW n \in Nat,
         \A j \in 1 .. n : Whole(image, j), ~Whole(image, n + 1)
  PROVE  Valid(image) = n
<1> DEFINE Good(m) == (\A j \in 1 .. m : Whole(image, j)) /\ ~Whole(image, m + 1)
<1>1. n \in 0 .. Len(image)
  <2>1. CASE n = 0
    BY <2>1
  <2>2. CASE n # 0
    <3>1. Cells(n) <= Len(image)
      BY <2>2, WholeIs
    <3>2. n <= Cells(n) /\ Cells(n) \in Nat
      BY Multiples
    <3> QED BY <3>1, <3>2
  <2> QED BY <2>1, <2>2
<1>2. ASSUME NEW m \in 0 .. Len(image), Good(m) PROVE m = n
  <2>1. CASE m < n
    <3>1. m + 1 \in 1 .. n
      BY <2>1
    <3> QED BY <1>2, <3>1
  <2>2. CASE n < m
    <3>1. n + 1 \in 1 .. m
      BY <2>2
    <3> QED BY <1>2, <3>1
  <2> QED BY <2>1, <2>2
<1>3. Good(n)
  OBVIOUS
<1>4. Valid(image) = CHOOSE m \in 0 .. Len(image) : Good(m)
  BY DEF Valid
<1> HIDE DEF Good
<1> QED BY <1>1, <1>2, <1>3, <1>4

LEMMA ValidExists ==
  ASSUME NEW S, NEW image \in Seq(S)
  PROVE  /\ Valid(image) \in Nat
         /\ \A j \in 1 .. Valid(image) : Whole(image, j)
         /\ ~Whole(image, Valid(image) + 1)
<1> DEFINE T == {m \in Nat : ~Whole(image, m + 1)}
<1>1. Len(image) \in T
  <2>1. Len(image) \in Nat /\ Len(image) + 1 \in Nat \ {0}
    OBVIOUS
  <2>2. /\ Len(image) + 1 <= Cells(Len(image) + 1)
        /\ Cells(Len(image) + 1) \in Nat
    BY ONLY <2>1, Multiples, Zenon
  <2>3. ~ (Cells(Len(image) + 1) <= Len(image))
    BY <2>1, <2>2
  <2>4. ~Whole(image, Len(image) + 1)
    BY <2>1, <2>3, WholeIs
  <2> QED BY <2>1, <2>4
<1>2. PICK m \in T : \A y \in T : m <= y
  <2>1. T \subseteq Nat
    OBVIOUS
  <2> HIDE DEF T
  <2> QED BY <1>1, <2>1, LeastOf
<1>3. \A j \in 1 .. m : Whole(image, j)
  <2> SUFFICES ASSUME NEW j \in 1 .. m, ~Whole(image, j) PROVE FALSE
    OBVIOUS
  <2>1. j - 1 \in Nat /\ (j - 1) + 1 = j
    OBVIOUS
  <2>2. j - 1 \in T
    BY <2>1
  <2> QED BY <1>2, <2>1, <2>2
<1>4. m \in Nat /\ ~Whole(image, m + 1)
  OBVIOUS
<1>5. Valid(image) = m
  BY <1>3, <1>4, ValidIs
<1> QED BY <1>3, <1>4, <1>5

(* An image that was cut at l gives back the records that are whole.       *)
LEMMA DecodeTorn ==
  ASSUME NEW S, NEW rs \in Seq(S), NEW n \in 0 .. Len(rs), NEW l \in 0 .. Cells(Len(rs)),
         Cells(n) <= l, l < Cells(n) + CELLS
  PROVE  LET image == SubSeq(Encode(rs), 1, l)
         IN  Valid(image) = n /\ Decode(image) = SubSeq(rs, 1, n)
<1> DEFINE image == SubSeq(Encode(rs), 1, l)
<1>1. /\ Encode(rs) \in Seq(Cell(S)) /\ Len(Encode(rs)) = Cells(Len(rs))
      /\ \A j \in 1 .. Len(rs), k \in 1 .. CELLS :
           Encode(rs)[Cells(j - 1) + k] = [rec |-> rs[j], part |-> k]
  BY EncodeIs
<1>2. /\ CELLS \in Nat /\ CELLS >= 1 /\ n \in Nat /\ Len(rs) \in Nat
      /\ Cells(n) \in Nat /\ Cells(Len(rs)) \in Nat
      /\ Cells(n + 1) = Cells(n) + CELLS
  <2>1. n \in Nat /\ Len(rs) \in Nat
    OBVIOUS
  <2> QED BY <2>1, Multiples
<1>3. /\ image \in Seq(Cell(S)) /\ Len(image) = l
      /\ \A i \in 1 .. l : image[i] = Encode(rs)[i]
  <2>1. l \in 0 .. Len(Encode(rs))
    BY <1>1
  <2> QED BY <1>1, <1>2, <2>1
<1> HIDE DEF image
<1>4. ASSUME NEW j \in 1 .. n
      PROVE  Whole(image, j) /\ image[Cells(j)].rec = rs[j]
  <2>1. /\ j \in Nat \ {0} /\ j \in 1 .. Len(rs) /\ j - 1 \in Nat /\ (j - 1) + 1 = j
        /\ j - 1 < n
    BY <1>2
  <2>2. /\ Cells(j) <= Cells(n) /\ Cells(j) = Cells(j - 1) + CELLS
        /\ Cells(j) \in Nat /\ Cells(j - 1) \in Nat
    <3>1. Cells(j) <= Cells(n) /\ Cells(j) \in Nat
      BY <1>2, <2>1, Multiples
    <3>2. Cells((j - 1) + 1) = Cells(j - 1) + CELLS /\ Cells(j - 1) \in Nat
      BY ONLY <2>1, Multiples, Zenon
    <3> QED BY <2>1, <3>1, <3>2
  <2>3. ASSUME NEW k \in 1 .. CELLS
        PROVE  image[Cells(j - 1) + k] = [rec |-> rs[j], part |-> k]
    <3>1. Cells(j - 1) + k \in 1 .. l
      BY <1>2, <2>2
    <3> QED BY <1>1, <1>3, <2>1, <3>1
  <2>4. image[Cells(j)] = [rec |-> rs[j], part |-> CELLS]
    BY <1>2, <2>2, <2>3
  <2>5. image[Cells(j)].rec = rs[j]
    BY <2>4
  <2>6. Cells(j) <= Len(image)
    BY <1>2, <1>3, <2>2
  <2> QED BY <2>1, <2>3, <2>5, <2>6, WholeIs
<1>5. ~Whole(image, n + 1)
  <2>1. n + 1 \in Nat \ {0} /\ ~ (Cells(n + 1) <= Len(image))
    BY <1>2, <1>3
  <2> QED BY <2>1, WholeIs
<1>6. Valid(image) = n
  BY <1>2, <1>3, <1>4, <1>5, ValidIs
<1>7. Decode(image) = [j \in 1 .. n |-> rs[j]]
  BY <1>4, <1>6 DEF Decode, Cells
<1>8. SubSeq(rs, 1, n) = [j \in 1 .. n |-> rs[j]]
  BY <1>2
<1> QED BY <1>6, <1>7, <1>8 DEF image

LEMMA DecodeEncode ==
  ASSUME NEW S, NEW rs \in Seq(S)
  PROVE  Valid(Encode(rs)) = Len(rs) /\ Decode(Encode(rs)) = rs
<1>1. /\ Encode(rs) \in Seq(Cell(S)) /\ Len(Encode(rs)) = Cells(Len(rs))
      /\ Len(rs) \in Nat /\ Cells(Len(rs)) \in Nat /\ CELLS \in Nat /\ CELLS >= 1
  <2>1. Len(rs) \in Nat
    OBVIOUS
  <2> QED BY <2>1, EncodeIs, Multiples
<1>2. SubSeq(Encode(rs), 1, Cells(Len(rs))) = Encode(rs)
  BY <1>1
<1>3. SubSeq(rs, 1, Len(rs)) = rs
  BY <1>1
<1>4. LET image == SubSeq(Encode(rs), 1, Cells(Len(rs)))
      IN  Valid(image) = Len(rs) /\ Decode(image) = SubSeq(rs, 1, Len(rs))
  <2>1. /\ Len(rs) \in 0 .. Len(rs) /\ Cells(Len(rs)) \in 0 .. Cells(Len(rs))
        /\ Cells(Len(rs)) <= Cells(Len(rs)) /\ Cells(Len(rs)) < Cells(Len(rs)) + CELLS
    BY <1>1
  <2> QED BY <2>1, DecodeTorn
<1> QED BY <1>2, <1>3, <1>4

(* What recovery keeps is the records it reads, and no more.               *)
LEMMA RecoveredIs ==
  ASSUME NEW S, NEW image \in Seq(Cell(S))
  PROVE  /\ Decode(image) \in Seq(S)
         /\ Recovered(image) = Encode(Decode(image))
<1> DEFINE v == Valid(image)
           rs == Decode(image)
<1>1. v \in Nat /\ \A j \in 1 .. v : Whole(image, j)
  BY ValidExists
<1>2. rs = [j \in 1 .. v |-> image[Cells(j)].rec]
  BY DEF Decode, Cells
<1> HIDE DEF v, rs
<1>3. ASSUME NEW j \in 1 .. v
      PROVE  /\ Cells(j) \in 1 .. Len(image)
             /\ \A k \in 1 .. CELLS : image[Cells(j - 1) + k] = [rec |-> rs[j], part |-> k]
  <2>1. j \in Nat \ {0}
    OBVIOUS
  <2>2. Cells(j) \in Nat /\ j <= Cells(j)
    BY <2>1, Multiples
  <2>3. /\ Cells(j) <= Len(image)
        /\ \A k \in 1 .. CELLS :
             image[Cells(j - 1) + k] = [rec |-> image[Cells(j)].rec, part |-> k]
    BY <1>1, <2>1, WholeIs
  <2> QED BY <1>2, <2>1, <2>2, <2>3
<1>4. ASSUME NEW j \in 1 .. v PROVE image[Cells(j)].rec \in S
  <2>1. image[Cells(j)] \in Cell(S)
    BY <1>3
  <2> QED BY <2>1 DEF Cell
<1>5. rs \in Seq(S) /\ Len(rs) = v
  BY <1>1, <1>2, <1>4
<1>6. Cells(v) \in 0 .. Len(image)
  <2>1. CASE v = 0
    BY <2>1, NoCells
  <2>2. CASE v # 0
    BY <1>1, <1>3, <2>2
  <2> QED BY <2>1, <2>2
<1>7. /\ Recovered(image) \in Seq(Cell(S)) /\ Len(Recovered(image)) = Cells(v)
      /\ \A i \in 1 .. Cells(v) : Recovered(image)[i] = image[i]
  <2>1. Recovered(image) = SubSeq(image, 1, Cells(v))
    BY DEF Recovered, Cells, v
  <2> QED BY <1>6, <2>1
<1>8. /\ Encode(rs) \in Seq(Cell(S)) /\ Len(Encode(rs)) = Cells(v)
      /\ \A j \in 1 .. v, k \in 1 .. CELLS :
           Encode(rs)[Cells(j - 1) + k] = [rec |-> rs[j], part |-> k]
  BY <1>5, EncodeIs
<1>9. ASSUME NEW j \in 1 .. v, NEW k \in 1 .. CELLS
      PROVE  Recovered(image)[Cells(j - 1) + k] = Encode(rs)[Cells(j - 1) + k]
  <2>1. Cells(j - 1) + k \in 1 .. Cells(v)
    BY <1>1, CellIs
  <2>2. Recovered(image)[Cells(j - 1) + k] = image[Cells(j - 1) + k]
    BY <1>7, <2>1
  <2>3. image[Cells(j - 1) + k] = [rec |-> rs[j], part |-> k]
    BY <1>3
  <2>4. Encode(rs)[Cells(j - 1) + k] = [rec |-> rs[j], part |-> k]
    BY <1>8
  <2> QED BY <2>2, <2>3, <2>4
<1>10. Recovered(image) = Encode(rs)
  BY <1>1, <1>7, <1>8, <1>9, SameCells
<1> QED BY <1>5, <1>10 DEF rs

-----------------------------------------------------------------------------
(* The replay.                                                             *)

(* f holds what the first i of rs give, for each i up to n.                *)
IsReplay(f, rs, n) ==
  f = [i \in 0 .. n |-> IF i = 0 THEN Fresh ELSE Replayed(f[i - 1], rs[i])]

LEMMA ReplayExists ==
  ASSUME NEW rs, NEW n \in Nat
  PROVE  \E f : IsReplay(f, rs, n)
<1> SUFFICES ASSUME ~ \E f : IsReplay(f, rs, n) PROVE FALSE
  OBVIOUS
<1> DEFINE T == {k \in Nat : ~ \E f : IsReplay(f, rs, k)}
<1>1. n \in T
  OBVIOUS
<1>2. PICK k \in T : \A j \in T : k <= j
  <2> HIDE DEF T
  <2>1. T \subseteq Nat
    BY DEF T
  <2> QED BY <1>1, <2>1, LeastOf
<1>3. k # 0
  <2>1. IsReplay([i \in 0 .. 0 |-> Fresh], rs, 0)
    BY DEF IsReplay
  <2> QED BY <2>1
<1>4. PICK f : IsReplay(f, rs, k - 1)
  BY <1>2, <1>3
<1> DEFINE g == [i \in 0 .. k |-> IF i = 0 THEN Fresh ELSE Replayed(f[i - 1], rs[i])]
<1>5. \A i \in 0 .. k - 1 : g[i] = f[i]
  BY <1>3, <1>4 DEF IsReplay
<1>6. \A i \in 0 .. k : g[i] = IF i = 0 THEN Fresh ELSE Replayed(g[i - 1], rs[i])
  <2>1. \A i \in 0 .. k : i # 0 => i - 1 \in 0 .. k - 1
    BY <1>3
  <2>2. \A i \in 0 .. k : g[i] = IF i = 0 THEN Fresh ELSE Replayed(f[i - 1], rs[i])
    OBVIOUS
  <2> HIDE DEF g
  <2> QED BY <1>5, <2>1, <2>2
<1>7. g = [i \in 0 .. k |-> g[i]]
  OBVIOUS
<1> HIDE DEF g
<1>8. IsReplay(g, rs, k)
  BY <1>6, <1>7 DEF IsReplay
<1> QED BY <1>2, <1>8

LEMMA ReplayIs ==
  ASSUME NEW rs, Len(rs) \in Nat
  PROVE  \E f : IsReplay(f, rs, Len(rs)) /\ Replay(rs) = f[Len(rs)]
<1> DEFINE g == CHOOSE f : IsReplay(f, rs, Len(rs))
<1>1. IsReplay(g, rs, Len(rs))
  BY ReplayExists
<1>2. Replay(rs) = g[Len(rs)]
  BY DEF Replay, IsReplay
<1> QED BY <1>1, <1>2

LEMMA ReplayNone == Replay(<< >>) = Fresh
<1>1. Len(<< >>) = 0
  OBVIOUS
<1>2. PICK f : IsReplay(f, << >>, 0) /\ Replay(<< >>) = f[0]
  BY <1>1, ReplayIs
<1>3. f[0] = Fresh
  BY <1>2 DEF IsReplay
<1> QED BY <1>2, <1>3

(* One record more.                                                        *)
LEMMA ReplayOne ==
  ASSUME NEW S, NEW rs \in Seq(S), NEW r \in S
  PROVE  Replay(Append(rs, r)) = Replayed(Replay(rs), r)
<1> DEFINE more == Append(rs, r)
           n == Len(rs)
<1>1. /\ n \in Nat /\ Len(more) = n + 1 /\ more[n + 1] = r
      /\ \A i \in 1 .. n : more[i] = rs[i]
  OBVIOUS
<1> HIDE DEF more, n
<1>2. PICK f : IsReplay(f, rs, n) /\ Replay(rs) = f[n]
  BY <1>1, ReplayIs DEF n
<1>3. PICK g : IsReplay(g, more, n + 1) /\ Replay(more) = g[n + 1]
  <2>1. Len(more) \in Nat
    BY <1>1
  <2> QED BY <1>1, <2>1, ReplayIs
<1>4. \A i \in 0 .. n : f[i] = IF i = 0 THEN Fresh ELSE Replayed(f[i - 1], rs[i])
  BY <1>2 DEF IsReplay
<1>5. \A i \in 0 .. n + 1 : g[i] = IF i = 0 THEN Fresh ELSE Replayed(g[i - 1], more[i])
  BY <1>3 DEF IsReplay
<1> DEFINE T == {i \in Nat : i <= n /\ f[i] # g[i]}
<1>6. T = {}
  <2> SUFFICES ASSUME T # {} PROVE FALSE
    OBVIOUS
  <2>1. PICK k \in T : \A j \in T : k <= j
    <3>1. T \subseteq Nat
      OBVIOUS
    <3> HIDE DEF T
    <3> QED BY <3>1, LeastOf
  <2>2. k \in 0 .. n /\ k \in 0 .. n + 1
    BY <1>1
  <2>3. k # 0
    BY <1>4, <1>5, <2>2
  <2>4. f[k - 1] = g[k - 1]
    <3>1. k - 1 \in Nat /\ k - 1 <= n /\ ~ (k <= k - 1)
      BY <1>1, <2>2, <2>3
    <3>2. k - 1 \notin T
      BY ONLY <2>1, <3>1
    <3> QED BY <3>1, <3>2
  <2>5. k \in 1 .. n /\ more[k] = rs[k]
    BY <1>1, <2>2, <2>3
  <2> QED BY <1>4, <1>5, <2>2, <2>3, <2>4, <2>5
<1>7. f[n] = g[n]
  BY <1>1, <1>6
<1>8. g[n + 1] = Replayed(g[n], r)
  <2>1. n + 1 \in 0 .. n + 1 /\ n + 1 # 0 /\ (n + 1) - 1 = n
    BY <1>1
  <2> QED BY <1>1, <1>5, <2>1
<1> QED BY <1>2, <1>3, <1>7, <1>8 DEF more

-----------------------------------------------------------------------------
(* The records of a write.                                                 *)

Record ==
  [kind : {"STATE"}, current_term : Nat, voted_for : Voter \cup {Nil}]
    \cup [kind : {"ENTRY"}, entry : Entry]
    \cup [kind : {"TRUNCATE"}, index : Nat]

Cuts(m, w) == IF w.cut <= Len(m.log) THEN <<TruncateRecord(w.cut)>> ELSE << >>
Adds(new) == [i \in DOMAIN new |-> EntryRecord(new[i])]
States(w) == IF w.state THEN <<StateRecord(w)>> ELSE << >>
RecordsOf(m, w) == (Cuts(m, w) \o Adds(w.new)) \o States(w)

LEMMA AddsAre ==
  ASSUME NEW new \in Seq(Entry)
  PROVE  /\ Adds(new) \in Seq(Record) /\ Len(Adds(new)) = Len(new)
         /\ \A i \in 1 .. Len(new) : Adds(new)[i] = EntryRecord(new[i])
<1>1. \A e \in Entry : EntryRecord(e) \in Record
  BY DEF EntryRecord, Record
<1>2. Adds(new) \in [1 .. Len(new) -> Record]
  BY <1>1 DEF Adds
<1>3. Adds(new) \in Seq(Record) /\ Len(Adds(new)) = Len(new)
  BY <1>2
<1>4. \A i \in 1 .. Len(new) : Adds(new)[i] = EntryRecord(new[i])
  BY DEF Adds
<1> QED BY <1>3, <1>4

LEMMA LongerBy ==
  ASSUME NEW S, NEW s \in Seq(S), NEW a \in Seq(S), NEW k \in 1 .. Len(a)
  PROVE  /\ SubSeq(a, 1, k - 1) \in Seq(S) /\ SubSeq(a, 1, k) \in Seq(S) /\ a[k] \in S
         /\ s \o SubSeq(a, 1, k - 1) \in Seq(S)
         /\ s \o SubSeq(a, 1, k) = Append(s \o SubSeq(a, 1, k - 1), a[k])
<1>1. SubSeq(a, 1, k - 1) \in Seq(S) /\ SubSeq(a, 1, k) \in Seq(S) /\ a[k] \in S
  BY SubSeqProperties
<1>2. s \o SubSeq(a, 1, k - 1) \in Seq(S)
  BY <1>1, ConcatProperties
<1>3. SubSeq(a, 1, k) = Append(SubSeq(a, 1, k - 1), a[k])
  BY <1>1
<1>4. s \o Append(SubSeq(a, 1, k - 1), a[k]) = Append(s \o SubSeq(a, 1, k - 1), a[k])
  BY <1>1, <1>2
<1> QED BY <1>1, <1>2, <1>3, <1>4

(* The first k entries of a write, read back.                              *)
LEMMA ReplayEntries ==
  ASSUME NEW rs \in Seq(Record), Replay(rs) \in Store, NEW new \in Seq(Entry),
         NEW n \in 0 .. Len(new)
  PROVE  Replay(rs \o SubSeq(Adds(new), 1, n))
           = [Replay(rs) EXCEPT !.log = @ \o SubSeq(new, 1, n)]
<1> DEFINE Reads(k) == Replay(rs \o SubSeq(Adds(new), 1, k))
                         = [Replay(rs) EXCEPT !.log = @ \o SubSeq(new, 1, k)]
           T == {k \in Nat : k <= Len(new) /\ ~Reads(k)}
<1>1. /\ Adds(new) \in Seq(Record) /\ Len(Adds(new)) = Len(new) /\ Len(new) \in Nat
      /\ \A i \in 1 .. Len(new) : Adds(new)[i] = EntryRecord(new[i])
  BY AddsAre
<1>2. Reads(0)
  <2>1. SubSeq(Adds(new), 1, 0) = << >> /\ SubSeq(new, 1, 0) = << >>
    BY <1>1
  <2>2. rs \o << >> = rs /\ Replay(rs).log \o << >> = Replay(rs).log
    BY DEF Store
  <2>3. [Replay(rs) EXCEPT !.log = Replay(rs).log] = Replay(rs)
    BY DEF Store
  <2> QED BY <2>1, <2>2, <2>3
<1>3. ASSUME NEW k \in 1 .. Len(new), Reads(k - 1) PROVE Reads(k)
  <2> DEFINE before == rs \o SubSeq(Adds(new), 1, k - 1)
             lg == Replay(rs).log
  <2>1. /\ before \in Seq(Record) /\ EntryRecord(new[k]) \in Record
        /\ rs \o SubSeq(Adds(new), 1, k) = Append(before, EntryRecord(new[k]))
    <3>1. k \in 1 .. Len(Adds(new)) /\ Adds(new)[k] = EntryRecord(new[k])
      BY <1>1
    <3>2. /\ Adds(new)[k] \in Record /\ before \in Seq(Record)
          /\ rs \o SubSeq(Adds(new), 1, k) = Append(before, Adds(new)[k])
      <4>1. PICK a : a = Adds(new)
        OBVIOUS
      <4>2. a \in Seq(Record) /\ k \in 1 .. Len(a)
        BY <1>1, <3>1, <4>1
      <4>3. /\ a[k] \in Record /\ rs \o SubSeq(a, 1, k - 1) \in Seq(Record)
            /\ rs \o SubSeq(a, 1, k) = Append(rs \o SubSeq(a, 1, k - 1), a[k])
        <5>1. PICK Q : Q = Record
          OBVIOUS
        <5>2. a \in Seq(Q) /\ k \in 1 .. Len(a) /\ rs \in Seq(Q)
          BY <4>2, <5>1
        <5>3. /\ a[k] \in Q /\ rs \o SubSeq(a, 1, k - 1) \in Seq(Q)
              /\ rs \o SubSeq(a, 1, k) = Append(rs \o SubSeq(a, 1, k - 1), a[k])
          BY ONLY <5>2, LongerBy, SMTT(40)
        <5> QED BY <5>1, <5>3
      <4> QED BY <4>1, <4>3
    <3> QED BY <3>1, <3>2
  <2>2. /\ lg \o SubSeq(new, 1, k - 1) \in Seq(Entry)
        /\ lg \o SubSeq(new, 1, k) = Append(lg \o SubSeq(new, 1, k - 1), new[k])
    <3>1. lg \in Seq(Entry)
      BY DEF Store
    <3> HIDE DEF lg
    <3>2. PICK Q : Q = Entry
      OBVIOUS
    <3>3. lg \in Seq(Q) /\ new \in Seq(Q) /\ k \in 1 .. Len(new)
      BY <3>1, <3>2
    <3>4. /\ lg \o SubSeq(new, 1, k - 1) \in Seq(Q)
          /\ lg \o SubSeq(new, 1, k) = Append(lg \o SubSeq(new, 1, k - 1), new[k])
      BY ONLY <3>3, LongerBy, SMTT(40)
    <3> QED BY <3>2, <3>4
  <2>3. Replay(before) = [Replay(rs) EXCEPT !.log = lg \o SubSeq(new, 1, k - 1)]
    BY <1>3
  <2> HIDE DEF before, lg
  <2>4. Replay(Append(before, EntryRecord(new[k]))) = Replayed(Replay(before), EntryRecord(new[k]))
    BY <2>1, ReplayOne
  <2>5. Replayed(Replay(before), EntryRecord(new[k]))
          = [Replay(before) EXCEPT !.log = Append(Replay(before).log, new[k])]
    BY DEF Replayed, EntryRecord
  <2>6. Replay(before).log = lg \o SubSeq(new, 1, k - 1)
    BY <2>3 DEF Store
  <2>7. Replayed(Replay(before), EntryRecord(new[k]))
          = [Replay(rs) EXCEPT !.log = lg \o SubSeq(new, 1, k)]
    BY <2>2, <2>3, <2>5, <2>6 DEF Store
  <2> QED BY <2>1, <2>4, <2>7 DEF lg
<1> HIDE DEF Reads
<1>4. T = {}
  <2> SUFFICES ASSUME T # {} PROVE FALSE
    OBVIOUS
  <2>1. T \subseteq Nat
    OBVIOUS
  <2>2. PICK k \in T : \A j \in T : k <= j
    <3> HIDE DEF T
    <3> QED BY <2>1, LeastOf
  <2>3. k \in Nat /\ k <= Len(new) /\ ~Reads(k) /\ k # 0
    BY <1>2
  <2>4. k - 1 \notin T
    BY <2>2, <2>3
  <2>5. Reads(k - 1)
    BY <1>1, <2>3, <2>4
  <2> QED BY <1>1, <1>3, <2>3, <2>5
<1>5. Reads(n)
  BY <1>1, <1>4
<1> QED BY <1>5 DEF Reads

LEMMA CutConcat ==
  ASSUME NEW S, NEW a \in Seq(S), NEW b \in Seq(S), NEW n \in 0 .. Len(a) + Len(b)
  PROVE  /\ a \o b \in Seq(S) /\ Len(a \o b) = Len(a) + Len(b)
         /\ n <= Len(a) => SubSeq(a \o b, 1, n) = SubSeq(a, 1, n)
         /\ n >= Len(a) => SubSeq(a \o b, 1, n) = a \o SubSeq(b, 1, n - Len(a))
<1> DEFINE c == a \o b
<1>1. /\ c \in Seq(S) /\ Len(c) = Len(a) + Len(b) /\ Len(a) \in Nat /\ Len(b) \in Nat
      /\ \A i \in 1 .. Len(a) + Len(b) : c[i] = IF i <= Len(a) THEN a[i] ELSE b[i - Len(a)]
  BY ConcatProperties
<1> HIDE DEF c
<1>2. /\ SubSeq(c, 1, n) \in Seq(S) /\ Len(SubSeq(c, 1, n)) = n
      /\ \A i \in 1 .. n : SubSeq(c, 1, n)[i] = c[i]
  BY <1>1
<1>3. ASSUME n <= Len(a) PROVE SubSeq(c, 1, n) = SubSeq(a, 1, n)
  <2>1. /\ SubSeq(a, 1, n) \in Seq(S) /\ Len(SubSeq(a, 1, n)) = n
        /\ \A i \in 1 .. n : SubSeq(a, 1, n)[i] = a[i]
    BY <1>1, <1>3
  <2>2. \A i \in 1 .. n : SubSeq(c, 1, n)[i] = SubSeq(a, 1, n)[i]
    BY <1>1, <1>2, <1>3, <2>1
  <2> QED BY <1>2, <2>1, <2>2
<1>4. ASSUME n >= Len(a) PROVE SubSeq(c, 1, n) = a \o SubSeq(b, 1, n - Len(a))
  <2> DEFINE t == SubSeq(b, 1, n - Len(a))
             d == a \o t
  <2>1. /\ t \in Seq(S) /\ Len(t) = n - Len(a)
        /\ \A i \in 1 .. n - Len(a) : t[i] = b[i]
    BY <1>1, <1>4
  <2> HIDE DEF t
  <2>2. /\ d \in Seq(S) /\ Len(d) = Len(a) + Len(t)
        /\ \A i \in 1 .. Len(a) + Len(t) : d[i] = IF i <= Len(a) THEN a[i] ELSE t[i - Len(a)]
    BY <2>1, ConcatProperties
  <2> HIDE DEF d
  <2>3. Len(d) = n
    BY <1>1, <2>1, <2>2
  <2>4. ASSUME NEW i \in 1 .. n PROVE SubSeq(c, 1, n)[i] = d[i]
    <3>0. i \in 1 .. Len(a) + Len(t) /\ i \in 1 .. Len(a) + Len(b)
      BY <1>1, <1>4, <2>1
    <3>1. CASE i <= Len(a)
      <4>1. d[i] = a[i] /\ c[i] = a[i]
        BY <1>1, <2>2, <3>0, <3>1
      <4> QED BY <1>2, <4>1
    <3>2. CASE i > Len(a)
      <4>1. i - Len(a) \in 1 .. n - Len(a) /\ ~ (i <= Len(a))
        BY <1>1, <3>2
      <4>2. d[i] = t[i - Len(a)] /\ t[i - Len(a)] = b[i - Len(a)]
        BY <2>1, <2>2, <3>0, <4>1
      <4>3. c[i] = b[i - Len(a)]
        BY <1>1, <3>0, <4>1
      <4> QED BY <1>2, <4>2, <4>3
    <3> QED BY <1>1, <3>1, <3>2
  <2> QED BY <1>2, <2>2, <2>3, <2>4 DEF d, t
<1> QED BY <1>1, <1>3, <1>4 DEF c

LEMMA WriteIs ==
  ASSUME NEW m \in Store, NEW w \in WritesIn(m)
  PROVE  /\ w.cut \in 1 .. Len(m.log) + 1 /\ w.new \in Seq(Entry)
         /\ w.term \in Nat /\ w.vote \in Voter \cup {Nil} /\ w.state \in BOOLEAN
         /\ ~w.state => w.term = m.current_term /\ w.vote = m.voted_for
<1> DEFINE Range0 == [cut : 1 .. Len(m.log) + 1, new : Logs(MaxLog), term : m.current_term .. MaxTerm,
                      vote : Voter \cup {Nil}, state : BOOLEAN]
<1>1. w \in Range0 /\ (~w.state => w.term = m.current_term /\ w.vote = m.voted_for)
  BY DEF WritesIn
<1>2. /\ w.cut \in 1 .. Len(m.log) + 1 /\ w.new \in Logs(MaxLog)
      /\ w.term \in m.current_term .. MaxTerm
      /\ w.vote \in Voter \cup {Nil} /\ w.state \in BOOLEAN
  BY <1>1
<1>3. w.term \in Nat
  <2>1. m.current_term \in Nat
    BY DEF Store
  <2> QED BY <1>2, <2>1, BoundsAssumption
<1>4. w.new \in Seq(Entry)
  <2>1. PICK l \in 0 .. MaxLog : w.new \in [1 .. l -> Entry]
    BY <1>2 DEF Logs
  <2> QED BY <2>1, BoundsAssumption
<1> QED BY <1>1, <1>2, <1>3, <1>4

LEMMA RecordsType ==
  ASSUME NEW m \in Store, NEW w \in WritesIn(m)
  PROVE  /\ Cuts(m, w) \in Seq(Record) /\ Adds(w.new) \in Seq(Record)
         /\ States(w) \in Seq(Record) /\ RecordsOf(m, w) \in Seq(Record)
         /\ Cuts(m, w) \o Adds(w.new) \in Seq(Record)
         /\ Len(Cuts(m, w) \o Adds(w.new)) = Len(Cuts(m, w)) + Len(w.new)
         /\ Len(RecordsOf(m, w)) = Len(Cuts(m, w)) + Len(w.new) + Len(States(w))
         /\ Len(Cuts(m, w)) \in {0, 1} /\ Len(States(w)) \in {0, 1}
<1>1. /\ w.cut \in Nat /\ w.new \in Seq(Entry) /\ w.term \in Nat /\ w.vote \in Voter \cup {Nil}
      /\ m.log \in Seq(Entry)
  BY WriteIs DEF Store
<1>2. TruncateRecord(w.cut) \in Record /\ StateRecord(w) \in Record
  BY <1>1 DEF TruncateRecord, StateRecord, Record
<1>3. Cuts(m, w) \in Seq(Record) /\ Len(Cuts(m, w)) \in {0, 1}
  BY <1>2 DEF Cuts
<1>4. States(w) \in Seq(Record) /\ Len(States(w)) \in {0, 1}
  BY <1>2 DEF States
<1>5. Adds(w.new) \in Seq(Record) /\ Len(Adds(w.new)) = Len(w.new)
  BY <1>1, AddsAre
<1>6. /\ Cuts(m, w) \o Adds(w.new) \in Seq(Record)
      /\ Len(Cuts(m, w) \o Adds(w.new)) = Len(Cuts(m, w)) + Len(w.new)
  BY <1>3, <1>5, ConcatProperties, SMTT(30)
<1>7. /\ RecordsOf(m, w) \in Seq(Record)
      /\ Len(RecordsOf(m, w)) = Len(Cuts(m, w) \o Adds(w.new)) + Len(States(w))
  BY <1>4, <1>6, ConcatProperties DEF RecordsOf
<1> QED BY <1>3, <1>4, <1>5, <1>6, <1>7

LEMMA WithLog ==
  ASSUME NEW m \in Store, NEW lg
  PROVE  [m EXCEPT !.log = lg]
           = [current_term |-> m.current_term, voted_for |-> m.voted_for, log |-> lg]
BY DEF Store

LEMMA ReplayedState ==
  ASSUME NEW m \in Store, NEW w
  PROVE  Replayed(m, StateRecord(w))
           = [current_term |-> w.term, voted_for |-> w.vote, log |-> m.log]
<1>1. Replayed(m, StateRecord(w)) = [m EXCEPT !.current_term = w.term, !.voted_for = w.vote]
  BY DEF Replayed, StateRecord
<1>2. [m EXCEPT !.current_term = w.term, !.voted_for = w.vote]
        = [[m EXCEPT !.current_term = w.term] EXCEPT !.voted_for = w.vote]
  BY DEF Store
<1>3. [m EXCEPT !.current_term = w.term]
        = [current_term |-> w.term, voted_for |-> m.voted_for, log |-> m.log]
  BY DEF Store
<1>4. [[current_term |-> w.term, voted_for |-> m.voted_for, log |-> m.log] EXCEPT !.voted_for = w.vote]
        = [current_term |-> w.term, voted_for |-> w.vote, log |-> m.log]
  OBVIOUS
<1> QED BY <1>1, <1>2, <1>3, <1>4

(* A write of which a beginning is read back, and one that is read whole.  *)
LEMMA ReplayWrite ==
  ASSUME NEW base \in Seq(Record), NEW m \in Store, m = Replay(base), NEW w \in WritesIn(m)
  PROVE  /\ Replay(base \o RecordsOf(m, w)) = AfterWrite(m, w.cut, w.new, w.term, w.vote)
         /\ \A n \in 0 .. Len(RecordsOf(m, w)) :
              Replay(base \o SubSeq(RecordsOf(m, w), 1, n))
                \in AfterTear(m, w.cut, w.new, w.term, w.vote)
<1> DEFINE cut == Cuts(m, w)
           add == Adds(w.new)
           p == Len(cut)
           e == Len(w.new)
           first == TruncateFrom(m.log, w.cut)
<1>1. /\ w.cut \in 1 .. Len(m.log) + 1 /\ w.new \in Seq(Entry)
      /\ w.term \in Nat /\ w.vote \in Voter \cup {Nil} /\ w.state \in BOOLEAN
      /\ ~w.state => w.term = m.current_term /\ w.vote = m.voted_for
  BY WriteIs
<1>2. /\ cut \in Seq(Record) /\ add \in Seq(Record) /\ States(w) \in Seq(Record)
      /\ RecordsOf(m, w) \in Seq(Record) /\ cut \o add \in Seq(Record)
      /\ RecordsOf(m, w) = (cut \o add) \o States(w)
  BY RecordsType DEF RecordsOf
<1>a. /\ p = Len(cut) /\ e = Len(w.new) /\ e = Len(add)
      /\ Len(cut \o add) = p + e /\ Len(RecordsOf(m, w)) = p + e + Len(States(w))
      /\ p \in Nat /\ p <= 1 /\ e \in Nat /\ Len(States(w)) \in Nat /\ Len(States(w)) <= 1
  <2>1. Len(add) = e /\ e \in Nat
    BY <1>1, AddsAre
  <2>2. /\ Len(cut \o add) = p + e
        /\ Len(RecordsOf(m, w)) = p + e + Len(States(w))
        /\ p = 0 \/ p = 1
        /\ Len(States(w)) = 0 \/ Len(States(w)) = 1
    BY ONLY m \in Store, w \in WritesIn(m), RecordsType
  <2> HIDE DEF p, e, add, cut
  <2>3. p \in Nat /\ p <= 1 /\ Len(States(w)) \in Nat /\ Len(States(w)) <= 1
    <3>1. (p = 0 \/ p = 1) /\ (Len(States(w)) = 0 \/ Len(States(w)) = 1)
      BY <2>2
    <3>2. \A k : k = 0 \/ k = 1 => k \in Nat /\ k <= 1
      OBVIOUS
    <3> QED BY <3>1, <3>2, Zenon
  <2>4. p = Len(cut) /\ e = Len(w.new)
    BY DEF p, e
  <2> QED BY <2>1, <2>2, <2>3, <2>4
<1>3. m.log \in Seq(Entry) /\ first \in Seq(Entry) /\ Len(m.log) \in Nat
  <2>1. m.log \in Seq(Entry)
    BY DEF Store
  <2> QED BY <1>1, <2>1 DEF TruncateFrom, LastIndex
<1>4. Replay(base \o cut) = [m EXCEPT !.log = first]
  <2>1. CASE w.cut <= Len(m.log)
    <3>1. cut = <<TruncateRecord(w.cut)>> /\ first = SubSeq(m.log, 1, w.cut - 1)
      BY <2>1 DEF Cuts, TruncateFrom, LastIndex
    <3>2. TruncateRecord(w.cut) \in Record
      BY <1>1 DEF TruncateRecord, Record
    <3>3. base \o cut = Append(base, TruncateRecord(w.cut))
      BY <3>1, <3>2
    <3>4. Replay(base \o cut) = Replayed(m, TruncateRecord(w.cut))
      BY <3>2, <3>3, ReplayOne
    <3>5. Replayed(m, TruncateRecord(w.cut)) = [m EXCEPT !.log = SubSeq(m.log, 1, w.cut - 1)]
      BY DEF Replayed, TruncateRecord
    <3> QED BY <3>1, <3>4, <3>5
  <2>2. CASE ~ (w.cut <= Len(m.log))
    <3>1. cut = << >> /\ first = m.log
      BY <2>2 DEF Cuts, TruncateFrom, LastIndex
    <3>2. base \o cut = base /\ [m EXCEPT !.log = m.log] = m
      BY <3>1 DEF Store
    <3> QED BY <3>1, <3>2
  <2> QED BY <2>1, <2>2
<1>5. [m EXCEPT !.log = first] \in Store /\ first = TruncateFrom(m.log, w.cut)
  BY <1>3 DEF Store
<1> HIDE DEF cut, add, p, e, first
<1>6. base \o cut \in Seq(Record)
  BY <1>2, ConcatProperties
<1> DEFINE Part(k) == [m EXCEPT !.log = first \o SubSeq(w.new, 1, k)]
<1>7. ASSUME NEW n \in p .. p + e
      PROVE  Replay(base \o SubSeq(RecordsOf(m, w), 1, n)) = Part(n - p)
  <2>1. n \in Nat /\ n - p \in 0 .. e /\ n \in 0 .. p + e + Len(States(w)) /\ n <= p + e
    BY <1>a
  <2>2. SubSeq(RecordsOf(m, w), 1, n) = SubSeq(cut \o add, 1, n)
    BY <1>2, <1>a, <2>1, CutConcat
  <2>3. SubSeq(cut \o add, 1, n) = cut \o SubSeq(add, 1, n - p)
    <3>1. n \in 0 .. Len(cut) + Len(add) /\ n >= Len(cut)
      BY <1>a, <2>1
    <3>2. SubSeq(cut \o add, 1, n) = cut \o SubSeq(add, 1, n - Len(cut))
      BY <1>2, <3>1, CutConcat, SMTT(30)
    <3> QED BY <1>a, <3>2
  <2>4. SubSeq(add, 1, n - p) \in Seq(Record)
    BY <1>2, <1>a, <2>1, SubSeqProperties
  <2>5. base \o (cut \o SubSeq(add, 1, n - p)) = (base \o cut) \o SubSeq(add, 1, n - p)
    <3>1. PICK part : part = SubSeq(add, 1, n - p)
      OBVIOUS
    <3>2. part \in Seq(Record)
      BY <2>4, <3>1
    <3>3. cut \in Seq(Record)
      BY <1>2
    <3>4. base \o (cut \o part) = (base \o cut) \o part
      BY <3>2, <3>3, ConcatAssociative
    <3> QED BY <3>1, <3>4
  <2>6. Replay((base \o cut) \o SubSeq(add, 1, n - p))
          = [Replay(base \o cut) EXCEPT !.log = @ \o SubSeq(w.new, 1, n - p)]
    <3>1. Replay(base \o cut) \in Store
      BY <1>4, <1>5
    <3>2. n - p \in 0 .. Len(w.new)
      BY <1>a, <2>1
    <3> QED BY <1>1, <1>6, <3>1, <3>2, ReplayEntries DEF add
  <2>7. [[m EXCEPT !.log = first] EXCEPT !.log = @ \o SubSeq(w.new, 1, n - p)] = Part(n - p)
    BY DEF Store
  <2> QED BY <1>4, <2>2, <2>3, <2>5, <2>6, <2>7
<1>8. Part(e) = [m EXCEPT !.log = first \o w.new]
  <2>1. SubSeq(w.new, 1, Len(w.new)) = w.new
    BY <1>1
  <2> QED BY <1>a, <2>1
<1> HIDE DEF Part
<1>9. RecordsOf(m, w) = SubSeq(RecordsOf(m, w), 1, Len(RecordsOf(m, w)))
  BY <1>2
<1>10. p + e \in p .. p + e /\ (p + e) - p = e
  BY <1>a
<1>11. Replay(base \o RecordsOf(m, w)) = AfterWrite(m, w.cut, w.new, w.term, w.vote)
  <2>1. CASE ~w.state
    <3>1. Len(RecordsOf(m, w)) = p + e
      BY <1>a, <2>1 DEF States
    <3>2. Replay(base \o RecordsOf(m, w)) = Part(e)
      BY <1>7, <1>9, <1>10, <3>1
    <3>3. [m EXCEPT !.log = first \o w.new]
            = [current_term |-> m.current_term, voted_for |-> m.voted_for, log |-> first \o w.new]
      BY WithLog
    <3> QED BY <1>1, <1>5, <1>8, <2>1, <3>2, <3>3 DEF AfterWrite
  <2>2. CASE w.state
    <3> DEFINE before == base \o (cut \o add)
    <3>1. before \in Seq(Record) /\ StateRecord(w) \in Record
      <4>1. StateRecord(w) \in Record
        BY <1>1 DEF StateRecord, Record
      <4> QED BY <1>2, <4>1, ConcatProperties
    <3>2. base \o RecordsOf(m, w) = Append(before, StateRecord(w))
      <4>1. RecordsOf(m, w) = Append(cut \o add, StateRecord(w))
        BY <1>2, <2>2, <3>1 DEF States
      <4>2. cut \o add \in Seq(Record)
        BY <1>2
      <4>3. base \o Append(cut \o add, StateRecord(w)) = Append(base \o (cut \o add), StateRecord(w))
        <5>1. PICK ca : ca = cut \o add
          OBVIOUS
        <5>2. ca \in Seq(Record)
          BY <4>2, <5>1
        <5>3. base \o Append(ca, StateRecord(w)) = Append(base \o ca, StateRecord(w))
          BY ONLY base \in Seq(Record), <5>2, <3>1
        <5> QED BY <5>1, <5>3
      <4> QED BY <4>1, <4>3
    <3>3. Replay(before) = Part(e)
      <4>1. /\ p + e \in 0 .. Len(cut \o add) + Len(States(w)) /\ p + e = Len(cut \o add)
            /\ p + e <= Len(cut \o add)
            /\ SubSeq(cut \o add, 1, Len(cut \o add)) = cut \o add
        <5>1. PICK ca : ca = cut \o add
          OBVIOUS
        <5>2. ca \in Seq(Record) /\ Len(ca) = p + e
          BY <1>2, <1>a, <5>1
        <5>3. SubSeq(ca, 1, Len(ca)) = ca
          BY ONLY <5>2
        <5> QED BY <1>a, <5>1, <5>2, <5>3
      <4>2. SubSeq((cut \o add) \o States(w), 1, p + e) = SubSeq(cut \o add, 1, p + e)
        BY <1>2, <4>1, CutConcat
      <4> QED BY <1>2, <1>7, <1>10, <4>1, <4>2
    <3> HIDE DEF before
    <3>4. Replay(Append(before, StateRecord(w))) = Replayed(Replay(before), StateRecord(w))
      BY <3>1, ReplayOne
    <3>5. Part(e) \in Store /\ Part(e).log = first \o w.new
      <4>1. first \o w.new \in Seq(Entry)
        BY <1>1, <1>3, ConcatProperties
      <4>2. PICK lg : lg = first \o w.new
        OBVIOUS
      <4>3. [m EXCEPT !.log = lg] \in Store /\ [m EXCEPT !.log = lg].log = lg
        BY <4>1, <4>2 DEF Store
      <4> QED BY <1>8, <4>2, <4>3
    <3>6. Replayed(Part(e), StateRecord(w))
            = [current_term |-> w.term, voted_for |-> w.vote, log |-> first \o w.new]
      BY <3>5, ReplayedState
    <3> QED BY <1>5, <3>2, <3>3, <3>4, <3>6 DEF AfterWrite
  <2> QED BY <1>1, <2>1, <2>2
<1>12. ASSUME NEW n \in 0 .. Len(RecordsOf(m, w))
       PROVE  Replay(base \o SubSeq(RecordsOf(m, w), 1, n))
                \in AfterTear(m, w.cut, w.new, w.term, w.vote)
  <2>1. CASE n < p
    <3>1. n = 0 /\ SubSeq(RecordsOf(m, w), 1, 0) = << >>
      <4>1. n = 0
        BY <1>a, <2>1
      <4>2. SubSeq(RecordsOf(m, w), 1, 0) = << >>
        OBVIOUS
      <4> QED BY <4>1, <4>2
    <3>2. base \o << >> = base
      OBVIOUS
    <3> QED BY <3>1, <3>2 DEF AfterTear
  <2>2. CASE n \in p .. p + e
    <3>1. n - p \in 0 .. Len(w.new)
      BY <1>a, <2>2
    <3>2. Replay(base \o SubSeq(RecordsOf(m, w), 1, n))
            = [m EXCEPT !.log = TruncateFrom(m.log, w.cut) \o SubSeq(w.new, 1, n - p)]
      BY <1>5, <1>7, <2>2 DEF Part
    <3> QED BY <3>1, <3>2 DEF AfterTear
  <2>3. CASE n > p + e
    <3>1. n = Len(RecordsOf(m, w))
      <4>1. PICK l : l = Len(RecordsOf(m, w))
        OBVIOUS
      <4>2. l = p + e + Len(States(w)) /\ n \in 0 .. l
        BY <1>a, <4>1
      <4>3. n = l
        BY <1>a, <2>3, <4>2
      <4> QED BY <4>1, <4>3
    <3> QED BY <1>9, <1>11, <3>1 DEF AfterTear
  <2>4. n < p \/ n \in p .. p + e \/ n > p + e
    BY <1>a
  <2> QED BY <2>1, <2>2, <2>3, <2>4
<1> QED BY <1>11, <1>12

-----------------------------------------------------------------------------
(* The inductive invariant.                                                *)

(* What was synced, and the records it holds.                              *)
Synced == SubSeq(bytes, 1, durable)
Base == Decode(Synced)

(* What the disk holds when the write is done.                             *)
All == Base \o RecordsOf(Survives, writing)

(* The records of the append() calls that are left.                        *)
At(t, i) == IF i <= Len(t) THEN t[i] ELSE << >>
Rest(t) == At(t, 1) \o (At(t, 2) \o At(t, 3))

Types ==
  /\ bytes \in Seq(Cell(Record))
  /\ durable \in 0 .. Len(bytes)
  /\ online \in BOOLEAN /\ failed \in BOOLEAN
  /\ memory \in Store \cup {Nil}
  /\ todo \in Seq(Seq(Record)) /\ Len(todo) <= 3
  /\ Survives \in Store

Modes ==
  /\ online <=> memory # Nil
  /\ failed => writing # Nil
  /\ writing # Nil => memory # Nil
  /\ writing = Nil => durable = Len(bytes) /\ todo = << >>

(* A server at no write has no torn record, and has read all its records.  *)
Idle == writing = Nil /\ memory # Nil =>
  /\ bytes = Encode(Decode(bytes))
  /\ memory = Survives

(* A server at a write has a beginning of it after what was synced, and    *)
(* lacks what is left to append.                                           *)
AtWrite == writing # Nil =>
  /\ Synced = Encode(Base)
  /\ writing \in WritesIn(Survives)
  /\ memory = AfterWrite(Survives, writing.cut, writing.new, writing.term, writing.vote)
  /\ Len(bytes) <= Cells(Len(All))
  /\ bytes = SubSeq(Encode(All), 1, Len(bytes))
  /\ ~failed => bytes \o Encode(Rest(todo)) = Encode(All)

WInv == Types /\ Modes /\ Idle /\ AtWrite

LEMMA RestNone == Rest(<< >>) = << >>
BY DEF Rest, At

LEMMA RestNext ==
  ASSUME NEW S, NEW t \in Seq(Seq(S)), Len(t) <= 3, t # << >>
  PROVE  /\ Head(t) \in Seq(S) /\ Tail(t) \in Seq(Seq(S)) /\ Len(Tail(t)) <= 3
         /\ Rest(Tail(t)) \in Seq(S)
         /\ Rest(t) = Head(t) \o Rest(Tail(t))
<1>1. /\ Head(t) \in Seq(S) /\ Tail(t) \in Seq(Seq(S)) /\ Len(Tail(t)) = Len(t) - 1
      /\ \A i \in 1 .. Len(Tail(t)) : Tail(t)[i] = t[i + 1]
  <2>1. PICK Q : Q = Seq(S)
    OBVIOUS
  <2>2. t \in Seq(Q)
    BY <2>1
  <2> QED BY <2>1, <2>2, HeadTailProperties
<1>a. Head(t) = t[1] /\ Len(t) \in 1 .. 3
  <2>1. Len(t) \in Nat \ {0}
    <3>1. PICK Q : Q = Seq(S)
      OBVIOUS
    <3>2. t \in Seq(Q)
      BY <3>1
    <3> QED BY <3>2, EmptySeq
  <2>2. PICK l \in Nat : l = Len(t)
    BY <2>1
  <2>3. l \in Nat \ {0} /\ l <= 3
    BY <2>1, <2>2
  <2>4. l \in 1 .. 3
    BY ONLY <2>3
  <2> QED BY <2>2, <2>4
<1>2. At(t, 1) = Head(t) /\ At(t, 2) = At(Tail(t), 1) /\ At(t, 3) = At(Tail(t), 2)
  BY <1>1, <1>a DEF At
<1>3. At(Tail(t), 3) = << >>
  BY <1>1, <1>a DEF At
<1>4. At(t, 2) \in Seq(S) /\ At(t, 3) \in Seq(S)
  <2>1. \A i \in 1 .. Len(t) : t[i] \in Seq(S)
    BY ElementOfSeq
  <2> QED BY <1>a, <2>1, EmptySeq DEF At
<1>5. At(t, 3) \o << >> = At(t, 3)
  BY <1>4, ConcatEmptySeq
<1>6. Rest(Tail(t)) = At(t, 2) \o At(t, 3)
  BY <1>2, <1>3, <1>5 DEF Rest
<1>7. Rest(Tail(t)) \in Seq(S)
  BY <1>4, <1>6, ConcatProperties
<1>8. Rest(t) = Head(t) \o Rest(Tail(t))
  BY <1>2, <1>6 DEF Rest
<1> QED BY <1>1, <1>a, <1>7, <1>8

(* The calls of a write are for its records, in their order.               *)
OneCall(rs) == IF rs = << >> THEN << >> ELSE <<rs>>

LEMMA RestAfter ==
  ASSUME NEW S, NEW x \in Seq(S), NEW t \in Seq(Seq(S)), Len(t) <= 2
  PROVE  /\ OneCall(x) \o t \in Seq(Seq(S)) /\ Len(OneCall(x) \o t) <= Len(t) + 1
         /\ Rest(OneCall(x) \o t) = x \o Rest(t)
         /\ Rest(t) \in Seq(S)
<1> DEFINE c == OneCall(x) \o t
<1>1. Rest(t) \in Seq(S)
  <2>1. CASE t = << >>
    BY <2>1, RestNone, EmptySeq
  <2>2. CASE t # << >>
    <3>1. Len(t) <= 3
      BY LenProperties
    <3>2. Head(t) \in Seq(S) /\ Rest(Tail(t)) \in Seq(S) /\ Rest(t) = Head(t) \o Rest(Tail(t))
      BY <2>2, <3>1, RestNext
    <3> QED BY <3>2, ConcatProperties
  <2> QED BY <2>1, <2>2
<1>2. CASE x = << >>
  <2>1. c = t /\ x \o Rest(t) = Rest(t)
    BY <1>1, <1>2, ConcatEmptySeq DEF OneCall
  <2> QED BY <1>1, <2>1, LenProperties
<1>3. CASE x # << >>
  <2>1. /\ <<x>> \in Seq(Seq(S)) /\ Len(<<x>>) = 1 /\ <<x>>[1] = x
        /\ c = <<x>> \o t
    BY <1>3 DEF OneCall
  <2> HIDE DEF c
  <2>2. Len(t) \in Nat
    BY LenProperties
  <2>3. /\ c \in Seq(Seq(S)) /\ Len(c) = Len(t) + 1
        /\ \A i \in 1 .. Len(t) + 1 : c[i] = IF i <= 1 THEN x ELSE t[i - 1]
    <3>1. /\ c \in Seq(Seq(S)) /\ Len(c) = 1 + Len(t)
          /\ \A i \in 1 .. 1 + Len(t) : c[i] = IF i <= 1 THEN <<x>>[i] ELSE t[i - 1]
      BY <2>1, ConcatProperties
    <3> QED BY <2>1, <2>2, <3>1
  <2>4. c # << >> /\ Len(c) <= 3
    BY <2>2, <2>3
  <2>5. Tail(c) \in Seq(Seq(S)) /\ Len(Tail(c)) = Len(t)
          /\ \A i \in 1 .. Len(Tail(c)) : Tail(c)[i] = c[i + 1]
    <3>1. PICK Q : Q = Seq(S)
      OBVIOUS
    <3>2. c \in Seq(Q)
      BY <2>3, <3>1
    <3>3. Tail(c) \in Seq(Q) /\ Len(Tail(c)) = Len(c) - 1
          /\ \A i \in 1 .. Len(Tail(c)) : Tail(c)[i] = c[i + 1]
      BY <2>4, <3>2, HeadTailProperties
    <3> QED BY <2>2, <2>3, <3>1, <3>3
  <2>6. Tail(c) = t
    <3>1. ASSUME NEW i \in 1 .. Len(t) PROVE Tail(c)[i] = t[i]
      <4>1. PICK z : z = Len(t)
        OBVIOUS
      <4>2. z \in Nat /\ i \in 1 .. z
        BY <2>2, <4>1
      <4>3. i + 1 \in 1 .. z + 1 /\ ~(i + 1 <= 1) /\ (i + 1) - 1 = i
        BY ONLY <4>2
      <4>4. PICK y : y = i + 1
        OBVIOUS
      <4>5. c[y] = t[i]
        BY ONLY <2>3, <4>1, <4>3, <4>4
      <4>6. Tail(c)[i] = c[i + 1]
        BY ONLY <2>5, i \in 1 .. Len(t)
      <4> QED BY ONLY <4>4, <4>5, <4>6
    <3>2. PICK Q : Q = Seq(S)
      OBVIOUS
    <3>3. PICK u : u = Tail(c)
      OBVIOUS
    <3>4. u \in Seq(Q) /\ t \in Seq(Q) /\ Len(u) = Len(t) /\ \A i \in 1 .. Len(u) : u[i] = t[i]
      BY <2>5, <3>1, <3>2, <3>3
    <3>5. u = t
      BY ONLY <3>4, SeqEqual
    <3> QED BY ONLY <3>3, <3>5
  <2>7. Head(c) = x
    BY <2>2, <2>3
  <2>8. Rest(c) = x \o Rest(t)
    BY <2>3, <2>4, <2>6, <2>7, RestNext
  <2>9. Len(c) <= Len(t) + 1
    BY <2>2, <2>3
  <2> QED BY <1>1, <2>3, <2>8, <2>9 DEF c
<1> QED BY <1>2, <1>3

LEMMA RestOfCalls ==
  ASSUME NEW m \in Store, NEW w \in WritesIn(m)
  PROVE  /\ CallsOf(m, w) \in Seq(Seq(Record)) /\ Len(CallsOf(m, w)) <= 3
         /\ Rest(CallsOf(m, w)) = RecordsOf(m, w)
<1>1. /\ Cuts(m, w) \in Seq(Record) /\ Adds(w.new) \in Seq(Record)
      /\ States(w) \in Seq(Record)
  BY RecordsType
<1>2. OneCall(Cuts(m, w))
        = IF w.cut <= Len(m.log) THEN <<<<TruncateRecord(w.cut)>>>> ELSE << >>
  BY DEF OneCall, Cuts
<1>3. OneCall(Adds(w.new))
        = IF w.new # << >> THEN <<[i \in DOMAIN w.new |-> EntryRecord(w.new[i])]>> ELSE << >>
  <2>1. w.new \in Seq(Entry)
    BY WriteIs
  <2>2. Len(Adds(w.new)) = Len(w.new)
    BY <2>1, AddsAre
  <2>3. Adds(w.new) = << >> <=> w.new = << >>
    BY <1>1, <2>1, <2>2, EmptySeq
  <2> QED BY <2>3 DEF OneCall, Adds
<1>4. OneCall(States(w)) = IF w.state THEN <<<<StateRecord(w)>>>> ELSE << >>
  BY DEF OneCall, States
<1> DEFINE a == OneCall(Cuts(m, w))
           b == OneCall(Adds(w.new))
           c == OneCall(States(w))
<1>5. CallsOf(m, w) = (a \o b) \o c
  BY <1>2, <1>3, <1>4 DEF CallsOf
<1>6. a \in Seq(Seq(Record)) /\ b \in Seq(Seq(Record)) /\ c \in Seq(Seq(Record))
  BY <1>1 DEF OneCall
<1> HIDE DEF a, b, c
<1>7. (a \o b) \o c = a \o (b \o (c \o << >>))
  <2>1. PICK Q : Q = Seq(Record)
    OBVIOUS
  <2>2. a \in Seq(Q) /\ b \in Seq(Q) /\ c \in Seq(Q)
    BY <1>6, <2>1
  <2> QED BY <2>2, ConcatEmptySeq, ConcatAssociative
<1>8. /\ c \o << >> \in Seq(Seq(Record)) /\ Len(c \o << >>) <= 1
      /\ Rest(c \o << >>) = States(w)
  <2>1. << >> \in Seq(Seq(Record)) /\ Len(<< >>) = 0 /\ Rest(<< >>) = << >>
    BY RestNone, EmptySeq
  <2>2. States(w) \o << >> = States(w)
    BY <1>1, ConcatEmptySeq
  <2>3. PICK t : t = << >>
    OBVIOUS
  <2>4. t \in Seq(Seq(Record)) /\ Len(t) = 0 /\ Len(t) <= 2 /\ Rest(t) = << >>
    BY <2>1, <2>3
  <2>5. /\ c \o t \in Seq(Seq(Record)) /\ Len(c \o t) <= Len(t) + 1
        /\ Rest(c \o t) = States(w) \o Rest(t)
    BY <1>1, <2>4, RestAfter DEF c
  <2>6. Len(c \o t) <= 1
    BY <2>4, <2>5
  <2> QED BY <2>2, <2>3, <2>4, <2>5, <2>6
<1>9. PICK d : d = c \o << >>
  OBVIOUS
<1>10. /\ b \o d \in Seq(Seq(Record)) /\ Len(b \o d) <= 2
       /\ Rest(b \o d) = Adds(w.new) \o States(w)
  <2>1. d \in Seq(Seq(Record)) /\ Len(d) <= 1 /\ Rest(d) = States(w) /\ Len(d) \in Nat
    BY <1>8, <1>9, LenProperties
  <2>2. /\ b \o d \in Seq(Seq(Record)) /\ Len(b \o d) <= Len(d) + 1
        /\ Rest(b \o d) = Adds(w.new) \o Rest(d)
    BY <1>1, <2>1, RestAfter DEF b
  <2> QED BY <2>1, <2>2, LenProperties
<1>11. PICK e : e = b \o d
  OBVIOUS
<1>12. /\ a \o e \in Seq(Seq(Record)) /\ Len(a \o e) <= 3
       /\ Rest(a \o e) = Cuts(m, w) \o (Adds(w.new) \o States(w))
  <2>1. e \in Seq(Seq(Record)) /\ Len(e) <= 2 /\ Rest(e) = Adds(w.new) \o States(w)
          /\ Len(e) \in Nat
    BY <1>10, <1>11, LenProperties
  <2>2. /\ a \o e \in Seq(Seq(Record)) /\ Len(a \o e) <= Len(e) + 1
        /\ Rest(a \o e) = Cuts(m, w) \o Rest(e)
    BY <1>1, <2>1, RestAfter DEF a
  <2> QED BY <2>1, <2>2, LenProperties
<1>13. Cuts(m, w) \o (Adds(w.new) \o States(w)) = RecordsOf(m, w)
  BY <1>1, ConcatAssociative DEF RecordsOf
<1>14. CallsOf(m, w) = a \o e
  BY <1>5, <1>7, <1>9, <1>11
<1> QED BY <1>12, <1>13, <1>14

(* A length of an image ends in some record, which may be cut.             *)
LEMMA WithinRecord ==
  ASSUME NEW n \in Nat, NEW l \in 0 .. Cells(n)
  PROVE  \E j \in 0 .. n : Cells(j) <= l /\ l < Cells(j) + CELLS
<1>1. CELLS \in Nat /\ CELLS >= 1 /\ Cells(n) \in Nat
  BY Multiples
<1>2. CASE l = Cells(n)
  BY <1>1, <1>2
<1>3. CASE l # Cells(n)
  <2>1. l + 1 \in 1 .. Cells(n)
    BY <1>1, <1>3
  <2>2. PICK j \in 1 .. n, k \in 1 .. CELLS : l + 1 = Cells(j - 1) + k
    BY <2>1, CellOf
  <2>3. j - 1 \in Nat /\ j - 1 \in 0 .. n
    OBVIOUS
  <2>4. Cells(j - 1) \in Nat
    BY <2>3, Multiples
  <2>5. l = Cells(j - 1) + (k - 1)
    BY <1>1, <2>2, <2>4
  <2>6. Cells(j - 1) <= l /\ l < Cells(j - 1) + CELLS
    BY <1>1, <2>4, <2>5
  <2> QED BY <2>3, <2>6
<1> QED BY <1>2, <1>3

LEMMA AfterTearIsStore ==
  ASSUME NEW m \in Store, NEW w \in WritesIn(m)
  PROVE  /\ AfterWrite(m, w.cut, w.new, w.term, w.vote) \in Store
         /\ AfterTear(m, w.cut, w.new, w.term, w.vote) \subseteq Store
<1>1. w.cut \in 1 .. Len(m.log) + 1 /\ w.new \in Seq(Entry) /\ w.term \in Nat
        /\ w.vote \in Voter \cup {Nil} /\ m.log \in Seq(Entry)
  BY WriteIs DEF Store
<1>2. TruncateFrom(m.log, w.cut) \in Seq(Entry)
  BY <1>1 DEF TruncateFrom, LastIndex
<1>3. \A k \in 0 .. Len(w.new) : SubSeq(w.new, 1, k) \in Seq(Entry)
  BY <1>1
<1>4. TruncateFrom(m.log, w.cut) \o w.new \in Seq(Entry)
  BY <1>1, <1>2, ConcatProperties
<1>5. \A k \in 0 .. Len(w.new) :
        TruncateFrom(m.log, w.cut) \o SubSeq(w.new, 1, k) \in Seq(Entry)
  BY <1>2, <1>3, ConcatProperties
<1>6. AfterWrite(m, w.cut, w.new, w.term, w.vote) \in Store
  BY <1>1, <1>4 DEF AfterWrite, Store
<1>7. ASSUME NEW k \in 0 .. Len(w.new)
      PROVE  [m EXCEPT !.log = TruncateFrom(@, w.cut) \o SubSeq(w.new, 1, k)] \in Store
  <2>1. PICK lg \in Seq(Entry) : lg = TruncateFrom(m.log, w.cut) \o SubSeq(w.new, 1, k)
    BY <1>5
  <2>2. [m EXCEPT !.log = lg] \in Store
    BY DEF Store
  <2> QED BY <2>1, <2>2
<1> QED BY <1>6, <1>7 DEF AfterTear

LEMMA WriteType ==
  ASSUME NEW m \in Store, NEW w \in WritesIn(m)
  PROVE  w \in Write /\ w # Nil
<1>1. /\ w.cut \in 1 .. Len(m.log) + 1 /\ w.new \in Seq(Entry)
      /\ w.term \in Nat /\ w.vote \in Voter \cup {Nil} /\ w.state \in BOOLEAN
  BY WriteIs
<1>2. w \in [cut : 1 .. Len(m.log) + 1, new : Logs(MaxLog), term : m.current_term .. MaxTerm,
             vote : Voter \cup {Nil}, state : BOOLEAN]
  BY DEF WritesIn
<1>3. w = [cut |-> w.cut, new |-> w.new, term |-> w.term, vote |-> w.vote, state |-> w.state]
  BY <1>2
<1>4. w.cut \in Nat
  <2>1. Len(m.log) \in Nat
    BY DEF Store
  <2> QED BY <1>1, <2>1
<1>5. w \in Write
  BY <1>1, <1>3, <1>4 DEF Write
<1> QED BY <1>5, NilAssumption

LEMMA EncodeNone == Encode(<< >>) = << >>
<1>1. << >> \in Seq(Record) /\ Len(<< >>) = 0
  BY EmptySeq
<1>2. Encode(<< >>) \in Seq(Cell(Record)) /\ Len(Encode(<< >>)) = Cells(Len(<< >>))
  BY <1>1, EncodeIs
<1>3. Len(Encode(<< >>)) = 0
  BY <1>1, <1>2, NoCells
<1> QED BY <1>2, <1>3, EmptySeq

LEMMA CutCut ==
  ASSUME NEW S, NEW s \in Seq(S), NEW a \in 0 .. Len(s), NEW b \in 0 .. a
  PROVE  /\ SubSeq(s, 1, a) \in Seq(S) /\ Len(SubSeq(s, 1, a)) = a
         /\ SubSeq(SubSeq(s, 1, a), 1, b) = SubSeq(s, 1, b)
<1>1. Len(s) \in Nat /\ \A i \in 1 .. Len(s) : s[i] \in S
  BY LenProperties, ElementOfSeq
<1>2. a \in Int /\ b \in Int /\ 1 \in Int /\ (\A i \in 1 .. a : s[i] \in S)
        /\ (\A i \in 1 .. b : s[i] \in S)
  BY <1>1
<1>3. /\ SubSeq(s, 1, a) \in Seq(S)
      /\ Len(SubSeq(s, 1, a)) = IF 1 <= a THEN a - 1 + 1 ELSE 0
      /\ \A i \in 1 .. a - 1 + 1 : SubSeq(s, 1, a)[i] = s[1 + i - 1]
  BY <1>2, SubSeqProperties
<1>4. /\ SubSeq(s, 1, b) \in Seq(S)
      /\ Len(SubSeq(s, 1, b)) = IF 1 <= b THEN b - 1 + 1 ELSE 0
      /\ \A i \in 1 .. b - 1 + 1 : SubSeq(s, 1, b)[i] = s[1 + i - 1]
  BY <1>2, SubSeqProperties
<1>5. PICK t : t = SubSeq(s, 1, a)
  OBVIOUS
<1>6. t \in Seq(S) /\ Len(t) = a /\ \A i \in 1 .. a : t[i] = s[i]
  BY <1>1, <1>3, <1>5
<1>7. \A i \in 1 .. b : t[i] \in S
  BY <1>1, <1>6
<1>8. /\ SubSeq(t, 1, b) \in Seq(S)
      /\ Len(SubSeq(t, 1, b)) = IF 1 <= b THEN b - 1 + 1 ELSE 0
      /\ \A i \in 1 .. b - 1 + 1 : SubSeq(t, 1, b)[i] = t[1 + i - 1]
  BY <1>2, <1>7, SubSeqProperties
<1>9. PICK u, v : u = SubSeq(t, 1, b) /\ v = SubSeq(s, 1, b)
  OBVIOUS
<1>10. /\ u \in Seq(S) /\ v \in Seq(S) /\ Len(u) = b /\ Len(v) = b
       /\ \A i \in 1 .. b : u[i] = v[i]
  BY <1>4, <1>6, <1>8, <1>9
<1>11. u = v
  BY <1>10, SeqEqual
<1> QED BY <1>5, <1>6, <1>9, <1>11

(* An image begins with the image of its first records.                    *)
LEMMA Beginning ==
  ASSUME NEW S, NEW a \in Seq(S), NEW b \in Seq(S)
  PROVE  /\ a \o b \in Seq(S) /\ Len(a \o b) = Len(a) + Len(b)
         /\ Cells(Len(a)) <= Cells(Len(a \o b))
         /\ Len(Encode(a \o b)) = Cells(Len(a \o b))
         /\ SubSeq(Encode(a \o b), 1, Cells(Len(a))) = Encode(a)
<1>1. a \o b \in Seq(S) /\ Len(a \o b) = Len(a) + Len(b)
  BY ConcatProperties
<1>2. Len(a) \in Nat /\ Len(b) \in Nat /\ Len(a) <= Len(a) + Len(b)
  BY LenProperties
<1>3. Cells(Len(a)) \in Nat /\ Cells(Len(a)) <= Cells(Len(a \o b))
  BY <1>1, <1>2, Multiples
<1>4. /\ Encode(a) \in Seq(Cell(S)) /\ Encode(b) \in Seq(Cell(S))
      /\ Len(Encode(a)) = Cells(Len(a)) /\ Len(Encode(b)) \in Nat
      /\ Len(Encode(a \o b)) = Cells(Len(a \o b))
      /\ Encode(a \o b) = Encode(a) \o Encode(b)
  BY <1>1, EncodeIs, EncodeConcat, LenProperties
<1>5. SubSeq(Encode(a) \o Encode(b), 1, Cells(Len(a))) = Encode(a)
  <2>1. Cells(Len(a)) \in 0 .. Len(Encode(a)) + Len(Encode(b)) /\ Cells(Len(a)) <= Len(Encode(a))
    BY <1>3, <1>4
  <2>2. SubSeq(Encode(a) \o Encode(b), 1, Cells(Len(a))) = SubSeq(Encode(a), 1, Cells(Len(a)))
    BY <1>4, <2>1, CutConcat
  <2>3. SubSeq(Encode(a), 1, Len(Encode(a))) = Encode(a)
    BY <1>4, SubSeqFull
  <2> QED BY <1>4, <2>2, <2>3
<1> QED BY <1>1, <1>3, <1>4, <1>5

-----------------------------------------------------------------------------
(* Every step keeps the invariant.                                         *)

LEMMA InitOK == Init => WInv
<1> SUFFICES ASSUME Init PROVE WInv
  OBVIOUS
<1> USE DEF Init
<1>1. << >> \in Seq(Record) /\ << >> \in Seq(Cell(Record)) /\ Len(<< >>) = 0
        /\ << >> \in Seq(Seq(Record)) /\ << >> \in Seq(Entry)
  BY EmptySeq
<1>2. Decode(<< >>) = << >>
  BY <1>1, DecodeEncode, EncodeNone
<1>3. SubSeq(<< >>, 1, 0) = << >>
  BY SubSeqEmpty
<1>4. Survives = Fresh
  BY <1>2, <1>3, ReplayNone DEF Survives
<1>5. Fresh \in Store
  BY <1>1 DEF Fresh, Store
<1>6. Types
  <2>1. bytes = << >> /\ todo = << >> /\ durable = 0 /\ online = TRUE /\ failed = FALSE
          /\ memory = Fresh
    OBVIOUS
  <2>2. durable \in 0 .. Len(bytes) /\ Len(todo) <= 3
    BY <1>1, <2>1
  <2> QED BY <1>1, <1>4, <1>5, <2>1, <2>2 DEF Types
<1>7. Fresh # Nil
  BY <1>5, NilAssumption
<1>8. Modes /\ Idle /\ AtWrite
  BY <1>1, <1>2, <1>4, <1>7, EncodeNone DEF Modes, Idle, AtWrite
<1> QED BY <1>6, <1>8 DEF WInv

(* The invariant as the steps use it.                                      *)
LEMMA IdleIs ==
  ASSUME WInv, writing = Nil
  PROVE  /\ Synced = bytes /\ Base = Decode(bytes) /\ Survives = Replay(Base)
         /\ Base \in Seq(Record)
<1>1. bytes \in Seq(Cell(Record)) /\ durable = Len(bytes)
  BY DEF WInv, Types, Modes
<1>2. Synced = bytes
  BY <1>1, SubSeqFull DEF Synced
<1> QED BY <1>1, <1>2, RecoveredIs DEF Base, Survives, Synced

LEMMA WritingIs ==
  ASSUME WInv, writing # Nil
  PROVE  /\ Base \in Seq(Record) /\ Survives = Replay(Base) /\ Survives \in Store
         /\ writing \in WritesIn(Survives)
         /\ RecordsOf(Survives, writing) \in Seq(Record) /\ All \in Seq(Record)
         /\ Len(All) = Len(Base) + Len(RecordsOf(Survives, writing))
         /\ Len(Base) \in Nat /\ Len(RecordsOf(Survives, writing)) \in Nat
         /\ durable = Cells(Len(Base))
         /\ Encode(All) \in Seq(Cell(Record)) /\ Len(Encode(All)) = Cells(Len(All))
         /\ Cells(Len(All)) \in Nat
<1>1. bytes \in Seq(Cell(Record)) /\ durable \in 0 .. Len(bytes) /\ Survives \in Store
        /\ Synced = Encode(Base) /\ writing \in WritesIn(Survives)
  BY DEF WInv, Types, AtWrite
<1>2. Synced \in Seq(Cell(Record)) /\ Len(Synced) = durable
  <2>1. durable \in 0 .. durable
    BY <1>1
  <2> QED BY <1>1, <2>1, CutCut DEF Synced
<1>3. Base \in Seq(Record)
  BY <1>2, RecoveredIs DEF Base
<1>4. durable = Cells(Len(Base))
  BY <1>1, <1>2, <1>3, EncodeIs
<1>5. RecordsOf(Survives, writing) \in Seq(Record)
  BY <1>1, RecordsType
<1>6. All \in Seq(Record) /\ Len(All) = Len(Base) + Len(RecordsOf(Survives, writing))
  BY <1>3, <1>5, ConcatProperties DEF All
<1>7. /\ Encode(All) \in Seq(Cell(Record)) /\ Len(Encode(All)) = Cells(Len(All))
      /\ Len(Base) \in Nat /\ Len(RecordsOf(Survives, writing)) \in Nat
      /\ Len(All) \in Nat /\ Len(Encode(All)) \in Nat
  BY <1>3, <1>5, <1>6, EncodeIs, LenProperties
<1> QED BY <1>1, <1>3, <1>4, <1>5, <1>6, <1>7 DEF Survives, Base, Synced

LEMMA HandleStep ==
  ASSUME WInv, NEW w \in WritesIn(memory), Handle(w)
  PROVE  WInv' /\ Survives' = Survives
<1>1. /\ memory # Nil /\ writing = Nil /\ writing' = w /\ todo' = CallsOf(memory, w)
      /\ memory' = AfterWrite(memory, w.cut, w.new, w.term, w.vote)
      /\ bytes' = bytes /\ durable' = durable /\ online' = online /\ failed' = failed
  BY DEF Handle
<1>2. /\ Synced' = Synced /\ Base' = Base /\ Survives' = Survives
  BY <1>1 DEF Synced, Base, Survives
<1>3. /\ Synced = bytes /\ Base \in Seq(Record) /\ bytes = Encode(Base)
      /\ memory = Survives /\ memory \in Store /\ memory = Replay(Base)
  <2>1. memory \in Store
    BY <1>1 DEF WInv, Types
  <2> QED BY <1>1, <2>1, IdleIs DEF WInv, Idle
<1>4. /\ CallsOf(memory, w) \in Seq(Seq(Record)) /\ Len(CallsOf(memory, w)) <= 3
      /\ Rest(CallsOf(memory, w)) = RecordsOf(memory, w)
  BY <1>3, RestOfCalls
<1>5. AfterWrite(memory, w.cut, w.new, w.term, w.vote) \in Store
  BY <1>3, AfterTearIsStore
<1>6. w # Nil
  BY <1>3, WriteType
<1>7. Types'
  BY <1>1, <1>2, <1>4, <1>5 DEF WInv, Types
<1>8. memory' # Nil
  BY <1>1, <1>5, NilAssumption
<1>9. Modes'
  BY <1>1, <1>6, <1>8 DEF WInv, Modes
<1>10. Idle'
  BY <1>1, <1>6 DEF Idle
<1>11. AtWrite'
  <2>1. All' = Base \o RecordsOf(memory, w)
    BY <1>1, <1>2, <1>3 DEF All
  <2>2. RecordsOf(memory, w) \in Seq(Record)
    BY <1>3, RecordsType
  <2>3. PICK rs : rs = RecordsOf(memory, w)
    OBVIOUS
  <2>4. /\ Cells(Len(Base)) <= Cells(Len(Base \o rs))
        /\ SubSeq(Encode(Base \o rs), 1, Cells(Len(Base))) = Encode(Base)
    BY <1>3, <2>2, <2>3, Beginning
  <2>5. Len(bytes) = Cells(Len(Base))
    BY <1>3, EncodeIs
  <2>6. Encode(Base) \o Encode(rs) = Encode(Base \o rs)
    BY <1>3, <2>2, <2>3, EncodeConcat
  <2>7. Rest(todo') = rs
    BY <1>1, <1>4, <2>3
  <2>8. /\ Len(bytes') <= Cells(Len(All')) /\ bytes' = SubSeq(Encode(All'), 1, Len(bytes'))
        /\ bytes' \o Encode(Rest(todo')) = Encode(All')
    BY <1>1, <1>3, <2>1, <2>3, <2>4, <2>5, <2>6, <2>7
  <2>9. Synced' = Encode(Base') /\ writing' \in WritesIn(Survives')
          /\ memory' = AfterWrite(Survives', writing'.cut, writing'.new, writing'.term, writing'.vote)
    BY <1>1, <1>2, <1>3
  <2> QED BY <2>8, <2>9 DEF AtWrite
<1> QED BY <1>2, <1>7, <1>9, <1>10, <1>11 DEF WInv

(* Appending takes nothing from what was synced.                           *)
LEMMA SyncedStays ==
  ASSUME WInv, writing # Nil, NEW x \in Seq(Cell(Record)), bytes' = bytes \o x,
         durable' = durable, writing' = writing
  PROVE  /\ bytes' \in Seq(Cell(Record)) /\ durable' \in 0 .. Len(bytes')
         /\ Synced' = Synced /\ Base' = Base /\ Survives' = Survives /\ All' = All
<1>1. bytes \in Seq(Cell(Record)) /\ durable \in 0 .. Len(bytes)
  BY DEF WInv, Types
<1>2. Len(bytes) \in Nat /\ Len(x) \in Nat
  BY <1>1, LenProperties
<1>3. bytes \o x \in Seq(Cell(Record)) /\ Len(bytes \o x) = Len(bytes) + Len(x)
  BY <1>1, ConcatProperties
<1>4. durable \in 0 .. Len(bytes) + Len(x) /\ durable <= Len(bytes)
  BY <1>1, <1>2
<1>5. SubSeq(bytes \o x, 1, durable) = SubSeq(bytes, 1, durable)
  BY <1>1, <1>4, CutConcat
<1>6. Synced' = Synced
  BY <1>5 DEF Synced
<1>7. Base' = Base /\ Survives' = Survives
  BY <1>6 DEF Base, Survives, Synced
<1>8. All' = All
  BY <1>7 DEF All
<1> QED BY <1>3, <1>4, <1>6, <1>7, <1>8

(* What is left to append, from the next call on.                          *)
LEMMA NextCall ==
  ASSUME WInv, writing # Nil, ~failed, todo # << >>
  PROVE  /\ Encode(Head(todo)) \in Seq(Cell(Record))
         /\ Encode(Rest(Tail(todo))) \in Seq(Cell(Record))
         /\ Tail(todo) \in Seq(Seq(Record)) /\ Len(Tail(todo)) <= 3
         /\ Encode(All) = bytes \o (Encode(Head(todo)) \o Encode(Rest(Tail(todo))))
<1>1. /\ Head(todo) \in Seq(Record) /\ Rest(Tail(todo)) \in Seq(Record)
      /\ Rest(todo) = Head(todo) \o Rest(Tail(todo))
      /\ Tail(todo) \in Seq(Seq(Record)) /\ Len(Tail(todo)) <= 3
  BY RestNext DEF WInv, Types
<1>2. /\ Encode(Head(todo)) \in Seq(Cell(Record))
      /\ Encode(Rest(Tail(todo))) \in Seq(Cell(Record))
  BY <1>1, EncodeIs
<1>3. Encode(Rest(todo)) = Encode(Head(todo)) \o Encode(Rest(Tail(todo)))
  BY <1>1, EncodeConcat
<1> QED BY <1>1, <1>2, <1>3 DEF WInv, AtWrite

LEMMA AppendStep ==
  ASSUME WInv, AppendRecords
  PROVE  WInv' /\ Survives' = Survives
<1> DEFINE x == Encode(Head(todo))
           y == Encode(Rest(Tail(todo)))
<1>1. /\ online /\ ~failed /\ todo # << >> /\ bytes' = bytes \o x /\ todo' = Tail(todo)
      /\ durable' = durable /\ online' = online /\ failed' = failed /\ memory' = memory
      /\ writing' = writing
  BY DEF AppendRecords
<1>2. writing # Nil
  BY <1>1 DEF WInv, Modes
<1>3. /\ x \in Seq(Cell(Record)) /\ y \in Seq(Cell(Record))
      /\ todo' \in Seq(Seq(Record)) /\ Len(todo') <= 3
      /\ Encode(All) = bytes \o (x \o y) /\ y = Encode(Rest(todo'))
  BY <1>1, <1>2, NextCall
<1> HIDE DEF x, y
<1>4. /\ bytes' \in Seq(Cell(Record)) /\ durable' \in 0 .. Len(bytes')
      /\ Synced' = Synced /\ Base' = Base /\ Survives' = Survives /\ All' = All
  BY <1>1, <1>2, <1>3, SyncedStays
<1>5. bytes' \o y = Encode(All)
  <2>1. bytes \in Seq(Cell(Record))
    BY DEF WInv, Types
  <2>2. (bytes \o x) \o y = bytes \o (x \o y)
    <3>1. PICK Q : Q = Cell(Record)
      OBVIOUS
    <3>2. bytes \in Seq(Q) /\ x \in Seq(Q) /\ y \in Seq(Q)
      BY <1>3, <2>1, <3>1
    <3> QED BY ONLY <3>2, ConcatAssociative
  <2> QED BY <1>1, <1>3, <2>2
<1>6. Len(bytes') <= Cells(Len(All)) /\ bytes' = SubSeq(Encode(All), 1, Len(bytes'))
  <2>1. Len(bytes') \in Nat /\ Len(y) \in Nat
    BY <1>3, <1>4, LenProperties
  <2>2. Len(bytes' \o y) = Len(bytes') + Len(y)
    BY <1>3, <1>4, ConcatProperties
  <2>3. Cells(Len(All)) = Len(bytes') + Len(y)
    BY <1>2, <1>5, <2>2, WritingIs
  <2>4. Len(bytes') \in 0 .. Len(bytes') + Len(y) /\ Len(bytes') <= Len(bytes')
    BY <2>1
  <2>5. SubSeq(bytes' \o y, 1, Len(bytes')) = SubSeq(bytes', 1, Len(bytes'))
    BY <1>3, <1>4, <2>4, CutConcat
  <2>6. SubSeq(bytes', 1, Len(bytes')) = bytes'
    BY <1>4, SubSeqFull
  <2>7. Len(bytes') <= Cells(Len(All))
    BY <2>1, <2>3
  <2> QED BY <1>5, <2>5, <2>6, <2>7
<1>7. Types'
  BY <1>1, <1>3, <1>4 DEF WInv, Types
<1>8. Modes' /\ Idle'
  BY <1>1, <1>2 DEF WInv, Modes, Idle
<1>9. AtWrite'
  BY <1>1, <1>2, <1>3, <1>4, <1>5, <1>6 DEF WInv, AtWrite
<1> QED BY <1>4, <1>7, <1>8, <1>9 DEF WInv

LEMMA AppendFailsStep ==
  ASSUME WInv, AppendFails
  PROVE  WInv' /\ Survives' = Survives
<1> DEFINE x == Encode(Head(todo))
           y == Encode(Rest(Tail(todo)))
<1>1. /\ online /\ ~failed /\ todo # << >> /\ failed' = TRUE
      /\ durable' = durable /\ online' = online /\ memory' = memory
      /\ writing' = writing /\ todo' = todo
      /\ \E landed \in 0 .. Len(x) : bytes' = bytes \o SubSeq(x, 1, landed)
  BY DEF AppendFails
<1>2. writing # Nil
  BY <1>1 DEF WInv, Modes
<1>3. /\ x \in Seq(Cell(Record)) /\ y \in Seq(Cell(Record)) /\ bytes \in Seq(Cell(Record))
      /\ Encode(All) = bytes \o (x \o y)
  BY <1>1, <1>2, NextCall DEF WInv, Types
<1> HIDE DEF x, y
<1>4. PICK landed \in 0 .. Len(x) : bytes' = bytes \o SubSeq(x, 1, landed)
  BY <1>1
<1>5. PICK z : z = SubSeq(x, 1, landed)
  OBVIOUS
<1>6. z \in Seq(Cell(Record)) /\ Len(z) = landed
  <2>1. landed \in 0 .. landed
    OBVIOUS
  <2> QED BY <1>3, <1>5, <2>1, CutCut
<1>7. bytes' = bytes \o z
  BY <1>4, <1>5
<1>8. /\ bytes' \in Seq(Cell(Record)) /\ durable' \in 0 .. Len(bytes')
      /\ Synced' = Synced /\ Base' = Base /\ Survives' = Survives /\ All' = All
  BY <1>1, <1>2, <1>6, <1>7, SyncedStays
<1>9. Len(bytes') <= Cells(Len(All)) /\ bytes' = SubSeq(Encode(All), 1, Len(bytes'))
  <2>1. Len(bytes) \in Nat /\ Len(x) \in Nat /\ Len(y) \in Nat
    BY <1>3, LenProperties
  <2>2. /\ x \o y \in Seq(Cell(Record)) /\ Len(x \o y) = Len(x) + Len(y)
        /\ landed \in 0 .. Len(x) + Len(y) /\ landed <= Len(x)
    BY <1>3, <2>1, ConcatProperties
  <2>3. SubSeq(x \o y, 1, landed) = z
    BY <1>3, <1>5, <2>2, CutConcat
  <2>4. PICK xy : xy = x \o y
    OBVIOUS
  <2>5. /\ Len(bytes \o xy) = Len(bytes) + Len(xy)
        /\ Len(bytes') = Len(bytes) + landed
    BY <1>3, <1>6, <1>7, <2>2, <2>4, ConcatProperties
  <2>6. Len(bytes) + landed \in 0 .. Len(bytes) + Len(xy) /\ Len(bytes) + landed >= Len(bytes)
          /\ (Len(bytes) + landed) - Len(bytes) = landed
    BY <2>1, <2>2, <2>4
  <2>7. SubSeq(bytes \o xy, 1, Len(bytes) + landed) = bytes \o SubSeq(xy, 1, landed)
    <3>1. PICK n : n = Len(bytes) + landed
      OBVIOUS
    <3>2. n \in 0 .. Len(bytes) + Len(xy) /\ n >= Len(bytes) /\ n - Len(bytes) = landed
      BY <2>6, <3>1
    <3>3. xy \in Seq(Cell(Record))
      BY <2>2, <2>4
    <3>4. SubSeq(bytes \o xy, 1, n) = bytes \o SubSeq(xy, 1, n - Len(bytes))
      BY ONLY <1>3, <3>2, <3>3, CutConcat
    <3> QED BY <3>1, <3>2, <3>4
  <2>8. bytes' = SubSeq(Encode(All), 1, Len(bytes'))
    BY <1>3, <1>7, <2>3, <2>4, <2>5, <2>7
  <2>9. Cells(Len(All)) = Len(bytes) + Len(xy)
    BY <1>2, <1>3, <2>4, <2>5, WritingIs
  <2>10. Len(bytes') <= Cells(Len(All))
    BY <2>5, <2>6, <2>9
  <2> QED BY <2>8, <2>10
<1>10. Types'
  BY <1>1, <1>8 DEF WInv, Types
<1>11. Modes' /\ Idle'
  BY <1>1, <1>2 DEF WInv, Modes, Idle
<1>12. AtWrite'
  BY <1>1, <1>2, <1>8, <1>9 DEF WInv, AtWrite
<1> QED BY <1>8, <1>10, <1>11, <1>12 DEF WInv

LEMMA SyncStep ==
  ASSUME WInv, Sync
  PROVE  /\ WInv' /\ writing # Nil /\ writing' = Nil /\ memory # Nil /\ memory' # Nil
         /\ Survives' = AfterWrite(Survives, writing.cut, writing.new, writing.term, writing.vote)
<1>1. /\ online /\ ~failed /\ writing # Nil /\ todo = << >>
      /\ durable' = Len(bytes) /\ writing' = Nil
      /\ bytes' = bytes /\ online' = online /\ failed' = failed /\ memory' = memory
      /\ todo' = todo
  BY DEF Sync
<1>2. /\ bytes \in Seq(Cell(Record)) /\ memory \in Store \cup {Nil} /\ memory # Nil
      /\ bytes \o Encode(Rest(todo)) = Encode(All)
  BY <1>1 DEF WInv, Types, Modes, AtWrite
<1>3. bytes = Encode(All)
  BY <1>1, <1>2, RestNone, EncodeNone, ConcatEmptySeq
<1>4. All \in Seq(Record) /\ All = Base \o RecordsOf(Survives, writing)
        /\ Base \in Seq(Record) /\ Survives = Replay(Base) /\ Survives \in Store
        /\ writing \in WritesIn(Survives)
  BY <1>1, WritingIs DEF All
<1>5. Decode(bytes) = All
  BY <1>3, <1>4, DecodeEncode
<1>6. SubSeq(bytes', 1, durable') = bytes
  BY <1>1, <1>2, SubSeqFull
<1>7. Survives' = Replay(All)
  BY <1>5, <1>6 DEF Survives
<1>8. Replay(All)
        = AfterWrite(Survives, writing.cut, writing.new, writing.term, writing.vote)
  <2>1. PICK m : m = Survives
    OBVIOUS
  <2>2. PICK b : b = Base
    OBVIOUS
  <2>3. Replay(b \o RecordsOf(m, writing))
          = AfterWrite(m, writing.cut, writing.new, writing.term, writing.vote)
    BY <1>4, <2>1, <2>2, ReplayWrite
  <2> QED BY <1>4, <2>1, <2>2, <2>3
<1>9. memory = AfterWrite(Survives, writing.cut, writing.new, writing.term, writing.vote)
  BY <1>1 DEF WInv, AtWrite
<1>10. Len(bytes) \in 0 .. Len(bytes)
  BY <1>2, LenProperties
<1>11. Types'
  <2>1. Survives' \in Store
    BY <1>2, <1>7, <1>8, <1>9
  <2> QED BY <1>1, <1>10, <2>1 DEF WInv, Types
<1>12. Modes' /\ AtWrite'
  BY <1>1 DEF WInv, Modes, AtWrite
<1>13. Idle'
  BY <1>1, <1>3, <1>5, <1>7, <1>8, <1>9 DEF Idle
<1> QED BY <1>1, <1>2, <1>7, <1>8, <1>11, <1>12, <1>13 DEF WInv

LEMMA CrashStep ==
  ASSUME WInv, Crash
  PROVE  /\ WInv' /\ writing' = Nil /\ memory # Nil /\ memory' = Nil
         /\ writing = Nil => Survives' = Survives
         /\ writing # Nil =>
              Survives' \in AfterTear(Survives, writing.cut, writing.new, writing.term, writing.vote)
<1>1. /\ online /\ (failed \/ writing = Nil)
      /\ online' = FALSE /\ failed' = FALSE /\ memory' = Nil /\ writing' = Nil
      /\ todo' = << >>
  BY DEF Crash
<1>2. PICK kept \in 0 .. Len(bytes) - durable :
        bytes' = SubSeq(bytes, 1, durable + kept) /\ durable' = durable + kept
  BY DEF Crash
<1>3. /\ bytes \in Seq(Cell(Record)) /\ durable \in 0 .. Len(bytes) /\ Len(bytes) \in Nat
      /\ memory # Nil
  BY <1>1, LenProperties DEF WInv, Types, Modes
<1>4. PICK l \in 0 .. Len(bytes) : l = durable + kept /\ durable <= l
  BY <1>2, <1>3
<1>5. bytes' = SubSeq(bytes, 1, l) /\ durable' = l
  BY <1>2, <1>4
<1>6. bytes' \in Seq(Cell(Record)) /\ Len(bytes') = l
  <2>1. l \in 0 .. l
    BY <1>4
  <2> QED BY <1>3, <1>4, <1>5, <2>1, CutCut
<1>7. SubSeq(bytes', 1, durable') = bytes'
  BY <1>5, <1>6, SubSeqFull
<1>8. Survives' = Replay(Decode(bytes'))
  BY <1>7 DEF Survives
<1>9. Modes' /\ Idle' /\ AtWrite'
  BY <1>1, <1>5, <1>6 DEF Modes, Idle, AtWrite
<1>10. ASSUME writing = Nil PROVE Survives' = Survives
  <2>1. durable = Len(bytes)
    BY <1>10 DEF WInv, Modes
  <2>2. l = Len(bytes)
    BY <1>3, <1>4, <2>1
  <2>3. bytes' = bytes
    BY <1>3, <1>5, <2>2, SubSeqFull
  <2>4. Survives' = Survives
    BY <1>8, <1>10, <2>3, IdleIs
  <2> QED BY <1>10, <2>4
<1>11. ASSUME writing # Nil
       PROVE  Survives' \in
                AfterTear(Survives, writing.cut, writing.new, writing.term, writing.vote)
  <2> DEFINE rs == RecordsOf(Survives, writing)
  <2>1. /\ Base \in Seq(Record) /\ Survives = Replay(Base) /\ Survives \in Store
        /\ writing \in WritesIn(Survives)
        /\ rs \in Seq(Record) /\ All \in Seq(Record)
        /\ Len(All) = Len(Base) + Len(rs) /\ Len(Base) \in Nat /\ Len(rs) \in Nat
        /\ durable = Cells(Len(Base))
        /\ Encode(All) \in Seq(Cell(Record)) /\ Len(Encode(All)) = Cells(Len(All))
        /\ Cells(Len(All)) \in Nat
        /\ All = Base \o rs
    BY <1>11, WritingIs DEF All
  <2>2. Len(bytes) <= Cells(Len(All)) /\ bytes = SubSeq(Encode(All), 1, Len(bytes))
    BY <1>11 DEF WInv, AtWrite
  <2> HIDE DEF rs
  <2>3. l \in 0 .. Cells(Len(All)) /\ Len(bytes) \in 0 .. Len(Encode(All))
    BY <1>3, <1>4, <2>1, <2>2
  <2>4. bytes' = SubSeq(Encode(All), 1, l)
    <3>1. PICK a : a = Len(bytes)
      OBVIOUS
    <3>2. a \in 0 .. Len(Encode(All)) /\ l \in 0 .. a
      BY <1>4, <2>3, <3>1
    <3>3. SubSeq(SubSeq(Encode(All), 1, a), 1, l) = SubSeq(Encode(All), 1, l)
      BY <2>1, <3>2, CutCut
    <3> QED BY <1>5, <2>2, <3>1, <3>3
  <2>5. Len(All) \in Nat
    BY <2>1
  <2>6. PICK n \in 0 .. Len(All) : Cells(n) <= l /\ l < Cells(n) + CELLS
    BY <2>3, <2>5, WithinRecord
  <2>7. Decode(bytes') = SubSeq(All, 1, n)
    BY <2>1, <2>3, <2>4, <2>6, DecodeTorn
  <2>8. n \in 0 .. Len(Base) + Len(rs) /\ n >= Len(Base)
    <3>1. n \in Nat /\ Cells(n) \in Nat /\ CELLS \in Nat
      BY <2>5, Multiples
    <3>2. SUFFICES ASSUME n < Len(Base) PROVE FALSE
      BY <2>1, <3>1
    <3>3. Cells(n) + CELLS <= Cells(Len(Base)) /\ Cells(Len(Base)) \in Nat
      BY <2>1, <3>1, <3>2, Multiples
    <3> QED BY <1>4, <2>1, <2>6, <3>1, <3>3
  <2>9. SubSeq(All, 1, n) = Base \o SubSeq(rs, 1, n - Len(Base))
    <3>1. PICK Q : Q = Record
      OBVIOUS
    <3>2. PICK b : b = Base
      OBVIOUS
    <3>3. b \in Seq(Q) /\ rs \in Seq(Q) /\ n \in 0 .. Len(b) + Len(rs) /\ n >= Len(b)
      BY <2>1, <2>8, <3>1, <3>2
    <3>4. SubSeq(b \o rs, 1, n) = b \o SubSeq(rs, 1, n - Len(b))
      BY ONLY <3>3, CutConcat, SMTT(40)
    <3> QED BY <2>1, <3>2, <3>4
  <2>10. n - Len(Base) \in 0 .. Len(rs)
    BY <2>1, <2>8
  <2>11. Replay(Base \o SubSeq(rs, 1, n - Len(Base)))
           \in AfterTear(Survives, writing.cut, writing.new, writing.term, writing.vote)
    <3>1. PICK m : m = Survives
      OBVIOUS
    <3>2. PICK b : b = Base
      OBVIOUS
    <3>3. PICK k : k = n - Len(Base)
      OBVIOUS
    <3>4. rs = RecordsOf(m, writing) /\ k \in 0 .. Len(RecordsOf(m, writing))
      BY <2>10, <3>1, <3>3 DEF rs
    <3>5. Replay(b \o SubSeq(RecordsOf(m, writing), 1, k))
            \in AfterTear(m, writing.cut, writing.new, writing.term, writing.vote)
      BY <2>1, <3>1, <3>2, <3>4, ReplayWrite
    <3> QED BY <3>1, <3>2, <3>3, <3>4, <3>5
  <2> QED BY <1>8, <1>11, <2>7, <2>9, <2>11
<1>12. Survives' \in Store
  <2>1. CASE writing = Nil
    BY <1>10, <2>1 DEF WInv, Types
  <2>2. CASE writing # Nil
    <3>1. Survives \in Store /\ writing \in WritesIn(Survives)
      BY <2>2, WritingIs
    <3>2. AfterTear(Survives, writing.cut, writing.new, writing.term, writing.vote) \subseteq Store
      BY <3>1, AfterTearIsStore
    <3> QED BY <1>11, <2>2, <3>2
  <2> QED BY <2>1, <2>2
<1>13. Types'
  <2>1. durable' \in 0 .. Len(bytes')
    BY <1>4, <1>5, <1>6
  <2>2. todo' \in Seq(Seq(Record)) /\ Len(todo') <= 3
    BY <1>1, EmptySeq
  <2> QED BY <1>1, <1>6, <1>12, <2>1, <2>2 DEF Types
<1> QED BY <1>1, <1>3, <1>9, <1>10, <1>11, <1>13 DEF WInv

LEMMA RestartStep ==
  ASSUME WInv, Restart
  PROVE  /\ WInv' /\ writing = Nil /\ writing' = Nil /\ memory' # Nil
         /\ Survives' = Survives
<1> DEFINE kept == Encode(Decode(bytes))
<1>1. /\ writing = Nil /\ ~failed /\ bytes' = Recovered(bytes)
      /\ durable' = Len(Recovered(bytes)) /\ online' = TRUE
      /\ memory' = Replay(Decode(Recovered(bytes)))
      /\ failed' = failed /\ writing' = writing /\ todo' = todo
  BY DEF Restart
<1>2. bytes \in Seq(Cell(Record)) /\ Survives \in Store /\ todo = << >>
  BY <1>1 DEF WInv, Types, Modes
<1>3. Decode(bytes) \in Seq(Record) /\ Recovered(bytes) = kept
  BY <1>2, RecoveredIs
<1>4. kept \in Seq(Cell(Record)) /\ Decode(kept) = Decode(bytes)
  BY <1>3, EncodeIs, DecodeEncode
<1>5. Survives = Replay(Decode(bytes))
  BY <1>1, IdleIs
<1>6. kept = Encode(Decode(kept))
  BY <1>4
<1> HIDE DEF kept
<1>7. bytes' = kept /\ durable' = Len(kept) /\ memory' = Survives
  BY <1>1, <1>3, <1>4, <1>5
<1>8. SubSeq(bytes', 1, durable') = kept
  BY <1>4, <1>7, SubSeqFull
<1>9. Survives' = Survives
  BY <1>4, <1>5, <1>8 DEF Survives
<1>10. memory' # Nil
  BY <1>2, <1>7, NilAssumption
<1>11. Types'
  <2>1. durable' \in 0 .. Len(bytes')
    BY <1>4, <1>7, LenProperties
  <2> QED BY <1>1, <1>2, <1>4, <1>7, <1>9, <2>1 DEF WInv, Types
<1>12. Modes' /\ AtWrite'
  BY <1>1, <1>2, <1>7, <1>10 DEF Modes, AtWrite
<1>13. Idle'
  BY <1>6, <1>7, <1>9 DEF Idle
<1> QED BY <1>1, <1>9, <1>10, <1>11, <1>12, <1>13 DEF WInv

-----------------------------------------------------------------------------
LEMMA StutterStep ==
  ASSUME WInv, UNCHANGED vars
  PROVE  WInv' /\ Survives' = Survives
<1> USE DEF vars
<1>1. Synced' = Synced /\ Base' = Base /\ Survives' = Survives /\ All' = All
  BY DEF Synced, Base, Survives, All
<1>2. Types'
  BY <1>1 DEF WInv, Types
<1>3. Modes' /\ Idle' /\ AtWrite'
  BY <1>1 DEF WInv, Modes, Idle, AtWrite
<1> QED BY <1>1, <1>2, <1>3 DEF WInv

LEMMA StepOK == WInv /\ [Next]_vars => WInv'
<1> SUFFICES ASSUME WInv, [Next]_vars PROVE WInv'
  OBVIOUS
<1>1. CASE memory # Nil /\ \E w \in WritesIn(memory) : Handle(w)
  BY <1>1, HandleStep
<1>2. CASE AppendRecords
  BY <1>2, AppendStep
<1>3. CASE AppendFails
  BY <1>3, AppendFailsStep
<1>4. CASE Sync
  BY <1>4, SyncStep
<1>5. CASE Crash
  BY <1>5, CrashStep
<1>6. CASE Restart
  BY <1>6, RestartStep
<1>7. CASE UNCHANGED vars
  BY <1>7, StutterStep
<1> QED BY <1>1, <1>2, <1>3, <1>4, <1>5, <1>6, <1>7 DEF Next

LEMMA WInvAlways == Spec => []WInv
<1> QED BY InitOK, StepOK, PTL DEF Spec

(* A server that is at no write has in memory what it would read back from *)
(* its disk (raft/persist.py: recover), whatever crashed, failed or was    *)
(* torn before.                                                            *)
THEOREM MemoryIsTheDisk == Spec => []MemoryIsRecovered
<1>1. WInv => MemoryIsRecovered
  BY DEF WInv, Idle, MemoryIsRecovered
<1> QED BY <1>1, WInvAlways, PTL

(* The disk keeps the promise of storage.py: what was written before sync  *)
(* returned survives every crash, and of a write that a crash or a failure *)
(* cut short a beginning of its records is there, and nothing else.        *)
THEOREM DiskKeepsPromise == Spec => KeepsPromise
<1> DEFINE abstract == <<Survives, writing, memory # Nil>>
           Abstract == Promise!Begin \/ Promise!Complete \/ Promise!Tear \/ Promise!UpOrDown
<1>1. Init => Survives = Fresh /\ writing = Nil /\ (memory # Nil) = TRUE
  <2> SUFFICES ASSUME Init
               PROVE  Survives = Fresh /\ writing = Nil /\ (memory # Nil) = TRUE
    OBVIOUS
  <2>1. WInv
    BY InitOK
  <2>2. writing = Nil /\ memory = Fresh
    BY DEF Init
  <2>3. memory # Nil
    BY <2>1 DEF WInv, Modes, Init
  <2>4. memory = Survives
    BY <2>1, <2>2, <2>3 DEF WInv, Idle
  <2> QED BY <2>2, <2>3, <2>4
<1>2. WInv /\ WInv' /\ [Next]_vars => [Abstract]_abstract
  <2> SUFFICES ASSUME WInv, WInv', [Next]_vars PROVE [Abstract]_abstract
    OBVIOUS
  <2>0. ASSUME NEW s, NEW cut, NEW new, NEW term, NEW vote
        PROVE  /\ Promise!AfterWrite(s, cut, new, term, vote) = AfterWrite(s, cut, new, term, vote)
               /\ Promise!AfterTear(s, cut, new, term, vote) = AfterTear(s, cut, new, term, vote)
    <3>1. Promise!TruncateFrom(s.log, cut) = TruncateFrom(s.log, cut)
      BY DEF Promise!TruncateFrom, TruncateFrom, Promise!LastIndex, LastIndex
    <3> QED BY <3>1 DEF Promise!AfterWrite, AfterWrite, Promise!AfterTear, AfterTear
  <2>1. ASSUME memory # Nil, NEW w \in WritesIn(memory), Handle(w) PROVE Promise!Begin
    <3>1. writing = Nil /\ writing' = w /\ Survives' = Survives
      BY <2>1, HandleStep DEF Handle
    <3>2. memory \in Store
      BY <2>1 DEF WInv, Types
    <3>3. w \in Write /\ w # Nil
      BY <3>2, WriteType
    <3>4. memory' # Nil
      BY <3>1, <3>3 DEF WInv, Modes
    <3> QED BY <2>1, <3>1, <3>3, <3>4 DEF Promise!Begin
  <2>2. CASE AppendRecords
    BY <2>2, AppendStep DEF AppendRecords
  <2>3. CASE AppendFails
    BY <2>3, AppendFailsStep DEF AppendFails
  <2>4. ASSUME Sync PROVE Promise!Complete
    <3>1. /\ writing # Nil /\ writing' = Nil /\ memory # Nil /\ memory' # Nil
          /\ Survives'
               = AfterWrite(Survives, writing.cut, writing.new, writing.term, writing.vote)
      BY <2>4, SyncStep
    <3> QED BY <2>0, <3>1 DEF Promise!Complete
  <2>5. ASSUME Crash PROVE Promise!Tear \/ Promise!UpOrDown
    <3>1. /\ writing' = Nil /\ memory # Nil /\ memory' = Nil
          /\ writing = Nil => Survives' = Survives
          /\ writing # Nil =>
               Survives' \in AfterTear(Survives, writing.cut, writing.new, writing.term, writing.vote)
      BY <2>5, CrashStep
    <3>2. CASE writing = Nil
      BY <3>1, <3>2 DEF Promise!UpOrDown
    <3>3. CASE writing # Nil
      BY <2>0, <3>1, <3>3 DEF Promise!Tear
    <3> QED BY <3>2, <3>3
  <2>6. ASSUME Restart PROVE Promise!UpOrDown
    <3>1. writing = Nil /\ writing' = Nil /\ memory' # Nil /\ Survives' = Survives
      BY <2>6, RestartStep
    <3> QED BY <3>1 DEF Promise!UpOrDown
  <2>7. CASE UNCHANGED vars
    BY <2>7, StutterStep DEF vars
  <2> QED BY <2>1, <2>2, <2>3, <2>4, <2>5, <2>6, <2>7 DEF Next
<1> HIDE DEF Abstract
<1>3. Spec => [][Abstract]_abstract
  BY <1>2, WInvAlways, PTL DEF Spec
<1> QED BY <1>1, <1>3, PTL DEF Spec, KeepsPromise, Promise!Spec, Abstract
=============================================================================
