----------------------------- MODULE NaiveProofs ----------------------------
(***************************************************************************)
(* What the naive replicator keeps, for any number of backups, writes,     *)
(* keys and faults: one batch is lost by each death of the primary and no  *)
(* more; without faults the copies agree; when messages only overtake each *)
(* other, a key that was written once is right everywhere; and a world     *)
(* that counts as quiet lacks one node for each failed write at most.      *)
(***************************************************************************)
EXTENDS NaiveCluster, SequenceTheorems, FiniteSetTheorems, WellFoundedInduction, TLAPS

-----------------------------------------------------------------------------
(* The store.                                                              *)

LEMMA LeastOf ==
  ASSUME NEW T, T \subseteq Nat, T # {}
  PROVE  \E x \in T : \A y \in T : x <= y
<1> DEFINE Q == {p \in Nat \X Nat : p[1] < p[2]}
<1>1. IsWellFoundedOn(Q, Nat)
  BY NatLessThanWellFounded DEF OpToRel
<1> HIDE DEF Q
<1>2. PICK x \in T : \A y \in T : <<y, x>> \notin Q
  BY <1>1, WFMin
<1>3. \A y \in T : ~ (y < x)
  BY <1>2 DEF Q
<1> QED BY <1>3

(* What a command leaves at its key.                                       *)
Effect(x) == IF CommandOf(x).op = "put" THEN CommandOf(x).value ELSE Nil

Stores == [Key -> Nat \cup {Nil}]

LEMMA KeyOf == ASSUME NEW x \in Nat PROVE CommandOf(x).key \in Key
<1>1. Keys \in Nat /\ Keys > 0
  BY KeysAssumption
<1>2. x % Keys \in 0 .. Keys - 1
  BY <1>1
<1> QED BY <1>2 DEF CommandOf, Key

LEMMA ApplyIs ==
  ASSUME NEW store \in Stores, NEW x \in Nat
  PROVE  /\ Apply(store, x) \in Stores
         /\ \A k \in Key :
              Apply(store, x)[k] = IF CommandOf(x).key = k THEN Effect(x) ELSE store[k]
<1>1. CommandOf(x).key \in Key
  BY KeyOf
<1>2. CommandOf(x).value = x
  BY DEF CommandOf
<1>3. Effect(x) \in Nat \cup {Nil}
  BY <1>2 DEF Effect
<1>4. Apply(store, x) = [store EXCEPT ![CommandOf(x).key] = Effect(x)]
  BY DEF Apply, Effect
<1> QED BY <1>1, <1>3, <1>4 DEF Stores

LEMMA EmptyIs == Empty \in Stores /\ \A k \in Key : Empty[k] = Nil
BY DEF Empty, Stores

IsReplay(f, rs, n) ==
  f = [i \in 0 .. n |-> IF i = 0 THEN Empty ELSE Apply(f[i - 1], rs[i])]

LEMMA ReplayExists ==
  ASSUME NEW rs, NEW n \in Nat
  PROVE  \E f : IsReplay(f, rs, n)
<1> SUFFICES ASSUME ~ \E f : IsReplay(f, rs, n) PROVE FALSE
  OBVIOUS
<1> DEFINE T == {k \in Nat : ~ \E f : IsReplay(f, rs, k)}
<1>1. n \in T
  OBVIOUS
<1>2. PICK k \in T : \A j \in T : k <= j
  <2> HIDE DEF T
  <2>1. T \subseteq Nat
    BY DEF T
  <2> QED BY <1>1, <2>1, LeastOf
<1>3. k # 0
  <2>1. IsReplay([i \in 0 .. 0 |-> Empty], rs, 0)
    BY DEF IsReplay
  <2> QED BY <2>1
<1>4. PICK f : IsReplay(f, rs, k - 1)
  BY <1>2, <1>3
<1> DEFINE g == [i \in 0 .. k |-> IF i = 0 THEN Empty ELSE Apply(f[i - 1], rs[i])]
<1>5. \A i \in 0 .. k - 1 : g[i] = f[i]
  BY <1>3, <1>4 DEF IsReplay
<1>6. \A i \in 0 .. k : g[i] = IF i = 0 THEN Empty ELSE Apply(g[i - 1], rs[i])
  <2>1. \A i \in 0 .. k : i # 0 => i - 1 \in 0 .. k - 1
    BY <1>3
  <2>2. \A i \in 0 .. k : g[i] = IF i = 0 THEN Empty ELSE Apply(f[i - 1], rs[i])
    OBVIOUS
  <2> HIDE DEF g
  <2> QED BY <1>5, <2>1, <2>2
<1>7. g = [i \in 0 .. k |-> g[i]]
  OBVIOUS
<1> HIDE DEF g
<1>8. IsReplay(g, rs, k)
  BY <1>6, <1>7 DEF IsReplay
<1> QED BY <1>2, <1>8

LEMMA ReplayIs ==
  ASSUME NEW rs, Len(rs) \in Nat
  PROVE  \E f : IsReplay(f, rs, Len(rs)) /\ Replay(rs) = f[Len(rs)]
<1> DEFINE g == CHOOSE f : IsReplay(f, rs, Len(rs))
<1>1. IsReplay(g, rs, Len(rs))
  BY ReplayExists
<1>2. Replay(rs) = g[Len(rs)]
  BY DEF Replay, IsReplay
<1> QED BY <1>1, <1>2

LEMMA ReplayNone == Replay(<< >>) = Empty
<1>1. Len(<< >>) = 0
  OBVIOUS
<1>2. PICK f : IsReplay(f, << >>, 0) /\ Replay(<< >>) = f[0]
  BY <1>1, ReplayIs
<1>3. f[0] = Empty
  BY <1>2 DEF IsReplay
<1> QED BY <1>2, <1>3

(* One command more.                                                       *)
LEMMA ReplayOne ==
  ASSUME NEW S, NEW rs \in Seq(S), NEW r \in S
  PROVE  Replay(Append(rs, r)) = Apply(Replay(rs), r)
<1> DEFINE more == Append(rs, r)
           n == Len(rs)
<1>1. /\ n \in Nat /\ Len(more) = n + 1 /\ more[n + 1] = r
      /\ \A i \in 1 .. n : more[i] = rs[i]
  OBVIOUS
<1> HIDE DEF more, n
<1>2. PICK f : IsReplay(f, rs, n) /\ Replay(rs) = f[n]
  BY <1>1, ReplayIs DEF n
<1>3. PICK g : IsReplay(g, more, n + 1) /\ Replay(more) = g[n + 1]
  <2>1. Len(more) \in Nat
    BY <1>1
  <2> QED BY <1>1, <2>1, ReplayIs
<1>4. \A i \in 0 .. n : f[i] = IF i = 0 THEN Empty ELSE Apply(f[i - 1], rs[i])
  BY <1>2 DEF IsReplay
<1>5. \A i \in 0 .. n + 1 : g[i] = IF i = 0 THEN Empty ELSE Apply(g[i - 1], more[i])
  BY <1>3 DEF IsReplay
<1> DEFINE T == {i \in Nat : i <= n /\ f[i] # g[i]}
<1>6. T = {}
  <2> SUFFICES ASSUME T # {} PROVE FALSE
    OBVIOUS
  <2>1. PICK k \in T : \A j \in T : k <= j
    <3>1. T \subseteq Nat
      OBVIOUS
    <3> HIDE DEF T
    <3> QED BY <3>1, LeastOf
  <2>2. k \in 0 .. n /\ k \in 0 .. n + 1
    BY <1>1
  <2>3. k # 0
    BY <1>4, <1>5, <2>2
  <2>4. f[k - 1] = g[k - 1]
    <3>1. k - 1 \in Nat /\ k - 1 <= n /\ ~ (k <= k - 1)
      BY <1>1, <2>2, <2>3
    <3>2. k - 1 \notin T
      BY ONLY <2>1, <3>1
    <3> QED BY <3>1, <3>2
  <2>5. k \in 1 .. n /\ more[k] = rs[k]
    BY <1>1, <2>2, <2>3
  <2> QED BY <1>4, <1>5, <2>2, <2>3, <2>4, <2>5
<1>7. f[n] = g[n]
  BY <1>1, <1>6
<1>8. g[n + 1] = Apply(g[n], r)
  <2>1. n + 1 \in 0 .. n + 1 /\ n + 1 # 0 /\ (n + 1) - 1 = n
    BY <1>1
  <2> QED BY <1>1, <1>5, <2>1
<1> QED BY <1>2, <1>3, <1>7, <1>8 DEF more

LEMMA ReplayType == ASSUME NEW numbers \in Seq(Nat) PROVE Replay(numbers) \in Stores
<1> DEFINE n == Len(numbers)
<1>1. n \in Nat /\ \A i \in 1 .. n : numbers[i] \in Nat
  BY LenProperties, ElementOfSeq
<1>2. PICK f : IsReplay(f, numbers, n) /\ Replay(numbers) = f[n]
  BY <1>1, ReplayIs
<1>3. \A i \in 0 .. n : f[i] = IF i = 0 THEN Empty ELSE Apply(f[i - 1], numbers[i])
  BY <1>2 DEF IsReplay
<1> DEFINE T == {i \in Nat : i <= n /\ f[i] \notin Stores}
<1>4. T = {}
  <2> SUFFICES ASSUME T # {} PROVE FALSE
    OBVIOUS
  <2>1. PICK i \in T : \A j \in T : i <= j
    <3>1. T \subseteq Nat
      OBVIOUS
    <3> HIDE DEF T
    <3> QED BY <3>1, LeastOf
  <2>2. i \in Nat /\ i <= n /\ f[i] \notin Stores /\ i # 0
    BY <1>1, <1>3, EmptyIs
  <2>3. i \in 1 .. n /\ i - 1 \in Nat /\ i - 1 <= n /\ ~ (i <= i - 1)
    BY <1>1, <2>2
  <2>4. i - 1 \notin T
    BY ONLY <2>1, <2>3
  <2>5. f[i - 1] \in Stores /\ f[i] = Apply(f[i - 1], numbers[i]) /\ numbers[i] \in Nat
    BY <1>1, <1>3, <2>3, <2>4
  <2> QED BY <2>2, <2>5, ApplyIs
<1> QED BY <1>1, <1>2, <1>4

(* A key that one command at most wrote holds what that command left, in   *)
(* whatever order the log has its commands and however often.              *)
LEMMA ReplayAt ==
  ASSUME NEW numbers \in Seq(Nat), NEW k \in Key, NEW x, WritesTo(k, numbers) \subseteq {x}
  PROVE  /\ Replay(numbers) \in Stores
         /\ Replay(numbers)[k] = IF WritesTo(k, numbers) = {} THEN Nil ELSE Effect(x)
<1> DEFINE n == Len(numbers)
           Wrote(i) == \E j \in 1 .. i : CommandOf(numbers[j]).key = k
           Right(s, i) == s \in Stores /\ s[k] = IF Wrote(i) THEN Effect(x) ELSE Nil
<1>1. n \in Nat /\ \A i \in 1 .. n : numbers[i] \in Nat
  BY LenProperties, ElementOfSeq
<1>2. ASSUME NEW i \in 1 .. n, CommandOf(numbers[i]).key = k PROVE numbers[i] = x
  BY <1>1, <1>2 DEF WritesTo, ToSet
<1>3. PICK f : IsReplay(f, numbers, n) /\ Replay(numbers) = f[n]
  BY <1>1, ReplayIs
<1>4. \A i \in 0 .. n : f[i] = IF i = 0 THEN Empty ELSE Apply(f[i - 1], numbers[i])
  BY <1>3 DEF IsReplay
<1>5. Right(f[0], 0)
  <2>1. f[0] = Empty
    BY <1>1, <1>4
  <2> QED BY <2>1, EmptyIs
<1>6. ASSUME NEW i \in 1 .. n, Right(f[i - 1], i - 1) PROVE Right(f[i], i)
  <2>1. f[i] = Apply(f[i - 1], numbers[i]) /\ f[i - 1] \in Stores /\ numbers[i] \in Nat
    BY <1>1, <1>4, <1>6
  <2>2. /\ f[i] \in Stores
        /\ f[i][k] = IF CommandOf(numbers[i]).key = k THEN Effect(numbers[i]) ELSE f[i - 1][k]
    <3>1. PICK st, y : st = f[i - 1] /\ y = numbers[i]
      OBVIOUS
    <3>2. st \in Stores /\ y \in Nat /\ k \in Key
      BY <2>1, <3>1
    <3>3. PICK after : after = Apply(st, y)
      OBVIOUS
    <3>4. /\ after \in Stores
          /\ after[k] = IF CommandOf(y).key = k THEN Effect(y) ELSE st[k]
      BY ONLY <3>2, <3>3, ApplyIs
    <3> QED BY ONLY <2>1, <3>1, <3>3, <3>4
  <2>3. Wrote(i) <=> Wrote(i - 1) \/ CommandOf(numbers[i]).key = k
    <3>1. \A j : j \in 1 .. i <=> (j \in 1 .. i - 1 \/ j = i)
      BY <1>1
    <3> QED BY <3>1
  <2>4. CASE CommandOf(numbers[i]).key = k
    BY <1>2, <2>2, <2>3, <2>4
  <2>5. CASE CommandOf(numbers[i]).key # k
    BY <1>6, <2>2, <2>3, <2>5
  <2> QED BY <2>4, <2>5
<1> HIDE DEF Right
<1> DEFINE T == {i \in Nat : i <= n /\ ~Right(f[i], i)}
<1>7. T = {}
  <2> SUFFICES ASSUME T # {} PROVE FALSE
    OBVIOUS
  <2>1. PICK i \in T : \A j \in T : i <= j
    <3>1. T \subseteq Nat
      OBVIOUS
    <3> HIDE DEF T
    <3> QED BY <3>1, LeastOf
  <2>2. i \in Nat /\ i <= n /\ ~Right(f[i], i) /\ i # 0
    BY <1>5
  <2>3. i \in 1 .. n /\ i - 1 \in Nat /\ i - 1 <= n /\ ~ (i <= i - 1)
    BY <1>1, <2>2
  <2>4. i - 1 \notin T
    BY ONLY <2>1, <2>3
  <2>5. Right(f[i - 1], i - 1)
    BY <2>3, <2>4
  <2> QED BY <1>6, <2>2, <2>3, <2>5
<1>8. Right(f[n], n)
  BY <1>1, <1>7
<1>9. Wrote(n) <=> WritesTo(k, numbers) # {}
  <2>1. DOMAIN numbers = 1 .. n
    BY LenProperties
  <2> QED BY <2>1 DEF WritesTo, ToSet
<1> QED BY <1>3, <1>8, <1>9 DEF Right


-----------------------------------------------------------------------------
(* Sequences.                                                              *)

LEMMA ToSetAppend ==
  ASSUME NEW S, NEW s \in Seq(S), NEW x \in S
  PROVE  /\ Append(s, x) \in Seq(S) /\ Len(Append(s, x)) = Len(s) + 1
         /\ ToSet(Append(s, x)) = ToSet(s) \cup {x}
<1>1. /\ Append(s, x) \in Seq(S) /\ Len(Append(s, x)) = Len(s) + 1
      /\ \A i \in 1 .. Len(s) : Append(s, x)[i] = s[i]
      /\ Append(s, x)[Len(s) + 1] = x
  BY AppendProperties
<1>2. PICK t : t = Append(s, x)
  OBVIOUS
<1>3. /\ DOMAIN s = 1 .. Len(s) /\ DOMAIN t = 1 .. Len(s) + 1 /\ Len(s) \in Nat
      /\ \A i \in 1 .. Len(s) : t[i] = s[i]
      /\ t[Len(s) + 1] = x
  BY <1>1, <1>2, LenProperties
<1>4. ToSet(t) = ToSet(s) \cup {x}
  <2>1. \A i : i \in 1 .. Len(s) + 1 <=> (i \in 1 .. Len(s) \/ i = Len(s) + 1)
    BY <1>3
  <2> QED BY <1>3, <2>1 DEF ToSet
<1> QED BY <1>1, <1>2, <1>4

LEMMA ToSetIs ==
  ASSUME NEW S, NEW s \in Seq(S)
  PROVE  ToSet(s) \subseteq S /\ IsFiniteSet(ToSet(s)) /\ ToSet(s) = {s[i] : i \in 1 .. Len(s)}
<1>1. DOMAIN s = 1 .. Len(s) /\ Len(s) \in Nat /\ s \in [1 .. Len(s) -> S]
  BY LenProperties
<1>2. s \in Surjection(1 .. Len(s), ToSet(s))
  BY <1>1 DEF Surjection, ToSet
<1>3. IsFiniteSet(1 .. Len(s))
  BY <1>1, FS_Interval
<1> QED BY <1>1, <1>2, <1>3, FS_Surjection DEF ToSet

LEMMA RemoveAtIs ==
  ASSUME NEW S, NEW s \in Seq(S), NEW i \in DOMAIN s
  PROVE  /\ s[i] \in S /\ RemoveAt(s, i) \in Seq(S) /\ Len(RemoveAt(s, i)) = Len(s) - 1
         /\ ToSet(s) = ToSet(RemoveAt(s, i)) \cup {s[i]}
         /\ i = 1 => s = <<s[1]>> \o RemoveAt(s, 1)
<1>1. /\ Len(s) \in Nat /\ i \in 1 .. Len(s) /\ s[i] \in S /\ DOMAIN s = 1 .. Len(s)
      /\ \A j \in 1 .. Len(s) : s[j] \in S
  BY LenProperties, ElementOfSeq
<1>2. PICK a, b : a = SubSeq(s, 1, i - 1) /\ b = SubSeq(s, i + 1, Len(s))
  OBVIOUS
<1>3. /\ a \in Seq(S) /\ Len(a) = i - 1
      /\ \A j \in 1 .. i - 1 : a[j] = s[j]
  <2>1. i - 1 \in Int /\ 1 \in Int /\ (\A j \in 1 .. i - 1 : s[j] \in S)
    BY <1>1
  <2>2. /\ SubSeq(s, 1, i - 1) \in Seq(S)
        /\ Len(SubSeq(s, 1, i - 1)) = IF 1 <= i - 1 THEN (i - 1) - 1 + 1 ELSE 0
        /\ \A j \in 1 .. (i - 1) - 1 + 1 : SubSeq(s, 1, i - 1)[j] = s[1 + j - 1]
    BY ONLY <2>1, SubSeqProperties
  <2> QED BY <1>1, <1>2, <2>2
<1>4. /\ b \in Seq(S) /\ Len(b) = Len(s) - i
      /\ \A j \in 1 .. Len(s) - i : b[j] = s[i + j]
  <2>1. i + 1 \in Int /\ Len(s) \in Int /\ (\A j \in i + 1 .. Len(s) : s[j] \in S)
    BY <1>1
  <2>2. /\ SubSeq(s, i + 1, Len(s)) \in Seq(S)
        /\ Len(SubSeq(s, i + 1, Len(s)))
             = IF i + 1 <= Len(s) THEN Len(s) - (i + 1) + 1 ELSE 0
        /\ \A j \in 1 .. Len(s) - (i + 1) + 1 :
             SubSeq(s, i + 1, Len(s))[j] = s[(i + 1) + j - 1]
    BY ONLY <2>1, SubSeqProperties
  <2> QED BY <1>1, <1>2, <2>2
<1>5. PICK c : c = a \o b
  OBVIOUS
<1>6. /\ c = RemoveAt(s, i) /\ c \in Seq(S) /\ Len(c) = Len(s) - 1
      /\ \A j \in 1 .. Len(s) - 1 : c[j] = IF j <= i - 1 THEN s[j] ELSE s[j + 1]
  <2>1. /\ c \in Seq(S) /\ Len(c) = Len(a) + Len(b)
        /\ \A j \in 1 .. Len(a) + Len(b) : c[j] = IF j <= Len(a) THEN a[j] ELSE b[j - Len(a)]
    BY ONLY <1>3, <1>4, <1>5, ConcatProperties
  <2>2. ASSUME NEW j \in 1 .. Len(s) - 1
        PROVE  c[j] = IF j <= i - 1 THEN s[j] ELSE s[j + 1]
    <3>1. CASE j <= i - 1
      BY <1>1, <1>3, <1>4, <2>1, <3>1
    <3>2. CASE ~ (j <= i - 1)
      <4>1. j - (i - 1) \in 1 .. Len(s) - i /\ i + (j - (i - 1)) = j + 1
        BY <1>1, <3>2
      <4>2. c[j] = b[j - (i - 1)]
        BY <1>1, <1>3, <1>4, <2>1, <3>2
      <4> QED BY <1>4, <3>2, <4>1, <4>2
    <3> QED BY <3>1, <3>2
  <2>3. c = RemoveAt(s, i)
    BY ONLY <1>2, <1>5 DEF RemoveAt
  <2>4. PICK l : l = Len(s)
    OBVIOUS
  <2>5. l \in Nat /\ i \in 1 .. l /\ Len(c) = (i - 1) + (l - i)
    BY <1>1, <1>3, <1>4, <2>1, <2>4
  <2>6. Len(c) = l - 1
    BY ONLY <2>5
  <2> QED BY ONLY <2>1, <2>2, <2>3, <2>4, <2>6
<1>7. ToSet(s) = ToSet(c) \cup {s[i]}
  <2>1. DOMAIN c = 1 .. Len(s) - 1
    BY <1>6, LenProperties
  <2>2. \A j \in 1 .. Len(s) : j < i => j \in 1 .. Len(s) - 1 /\ c[j] = s[j]
    BY <1>1, <1>6
  <2>3. \A j \in 1 .. Len(s) : j > i => j - 1 \in 1 .. Len(s) - 1 /\ c[j - 1] = s[j]
    BY <1>1, <1>6
  <2>4. \A j \in 1 .. Len(s) - 1 : c[j] = s[j] \/ c[j] = s[j + 1]
    BY <1>6
  <2>5. \A j \in 1 .. Len(s) - 1 : j \in 1 .. Len(s) /\ j + 1 \in 1 .. Len(s)
    BY <1>1
  <2>6. ToSet(c) = {c[j] : j \in 1 .. Len(s) - 1} /\ ToSet(s) = {s[j] : j \in 1 .. Len(s)}
    BY <1>1, <2>1 DEF ToSet
  <2>7. ASSUME NEW y \in ToSet(s) PROVE y \in ToSet(c) \cup {s[i]}
    <3>1. PICK j \in 1 .. Len(s) : y = s[j]
      BY <2>6
    <3>2. j < i \/ j = i \/ j > i
      BY <1>1
    <3> QED BY <2>2, <2>3, <2>6, <3>1, <3>2
  <2>8. ASSUME NEW y \in ToSet(c) PROVE y \in ToSet(s)
    <3>1. PICK j \in 1 .. Len(s) - 1 : y = c[j]
      BY <2>6
    <3> QED BY <2>4, <2>5, <2>6, <3>1
  <2>9. s[i] \in ToSet(s)
    BY <1>1, <2>6
  <2> QED BY <2>7, <2>8, <2>9
<1>8. ASSUME i = 1 PROVE s = <<s[1]>> \o c
  <2>1. PICK h : h = <<s[1]>>
    OBVIOUS
  <2>2. h \in Seq(S) /\ Len(h) = 1 /\ h[1] = s[1]
    BY <1>1, <1>8, <2>1
  <2>3. /\ h \o c \in Seq(S) /\ Len(h \o c) = Len(h) + Len(c)
        /\ \A j \in 1 .. Len(h) + Len(c) : (h \o c)[j] = IF j <= Len(h) THEN h[j] ELSE c[j - Len(h)]
    <3>1. c \in Seq(S) /\ h \in Seq(S)
      BY ONLY <1>6, <2>2
    <3> QED BY ONLY <3>1, ConcatProperties
  <2>4. PICK d : d = h \o c
    OBVIOUS
  <2>5. d \in Seq(S) /\ Len(d) = Len(s) /\ \A j \in 1 .. Len(s) : d[j] = s[j]
    <3>1. ASSUME NEW j \in 1 .. Len(s) PROVE d[j] = s[j]
      <4>1. CASE j = 1
        BY <1>1, <1>6, <2>2, <2>3, <2>4, <4>1
      <4>2. CASE j # 1
        <5>1. j - 1 \in 1 .. Len(s) - 1 /\ (j - 1) + 1 = j /\ ~ (j - 1 <= i - 1) /\ ~ (j <= 1)
          BY <1>1, <1>8, <4>2
        <5>2. c[j - 1] = s[j]
          BY <1>6, <5>1
        <5>3. d[j] = c[j - 1]
          BY <1>1, <1>6, <2>2, <2>3, <2>4, <5>1
        <5> QED BY <5>2, <5>3
      <4> QED BY <4>1, <4>2
    <3>2. PICK l : l = Len(s)
      OBVIOUS
    <3>3. l \in Nat /\ Len(d) = 1 + (l - 1)
      BY ONLY <1>1, <1>6, <2>2, <2>3, <2>4, <3>2
    <3>4. Len(d) = l
      BY ONLY <3>3
    <3>5. d \in Seq(S)
      BY ONLY <2>3, <2>4
    <3> QED BY ONLY <3>1, <3>2, <3>4, <3>5
  <2>6. d = s
    BY <2>5, SeqEqual
  <2> QED BY <2>1, <2>4, <2>6
<1> QED BY <1>1, <1>6, <1>7, <1>8

LEMMA InsertAtIs ==
  ASSUME NEW S, NEW s \in Seq(S), NEW i \in DOMAIN s, NEW x \in S
  PROVE  InsertAt(s, i, x) \in Seq(S)
<1>1. Len(s) \in Nat /\ i \in 1 .. Len(s) /\ \A j \in 1 .. Len(s) : s[j] \in S
  BY LenProperties, ElementOfSeq
<1>2. PICK a, b : a = SubSeq(s, 1, i - 1) /\ b = SubSeq(s, i, Len(s))
  OBVIOUS
<1>3. a \in Seq(S)
  <2>1. i - 1 \in Int /\ 1 \in Int /\ \A j \in 1 .. i - 1 : s[j] \in S
    BY <1>1
  <2> QED BY <1>2, <2>1, SubSeqProperties
<1>4. b \in Seq(S)
  <2>1. i \in Int /\ Len(s) \in Int /\ \A j \in i .. Len(s) : s[j] \in S
    BY <1>1
  <2> QED BY <1>2, <2>1, SubSeqProperties
<1>5. PICK h : h = <<x>>
  OBVIOUS
<1>6. h \in Seq(S)
  BY <1>5
<1>7. a \o h \in Seq(S)
  BY <1>3, <1>6, ConcatProperties
<1>8. (a \o h) \o b \in Seq(S)
  BY <1>4, <1>7, ConcatProperties
<1> QED BY <1>2, <1>5, <1>8 DEF InsertAt

-----------------------------------------------------------------------------
(* The inductive invariant.                                                *)

NodeTypes ==
  /\ log \in [Node -> Seq(Nat)] /\ durable \in [Node -> Nat]
  /\ kv \in [Node -> Stores] /\ unsynced \in [Node -> Nat]
  /\ running \in [Node -> BOOLEAN] /\ up \in [Node -> BOOLEAN]
  /\ deaths \in Nat

Types ==
  /\ NodeTypes
  /\ issued \in Nat /\ acked \in Seq(Nat)
  /\ flight \in [Backup -> Seq(Nat)]

(* A node counts what it has not synced, and it is less than a batch.      *)
Counted(n) ==
  /\ durable[n] <= Len(log[n])
  /\ unsynced[n] = Len(log[n]) - durable[n]
  /\ unsynced[n] < SYNC_EVERY
  /\ ~running[n] => unsynced[n] = 0

(* Its store is what its log gives.                                        *)
Built(n) == running[n] => kv[n] = Replay(log[n])

(* Whom the network takes for dead does not run.                           *)
DeadIsDown(n) == ~up[n] => ~running[n]

NodesOK == \A n \in Node : Counted(n) /\ Built(n) /\ DeadIsDown(n)

(* Without faults, what the client was promised is at the primary, and at  *)
(* each backup or on its way there; with one latency for all, in order.    *)
Clean ==
  profile # "aggressive" =>
    /\ \A n \in Node : running[n] /\ up[n]
    /\ log[Primary] = acked
    /\ \A b \in Backup :
         /\ Len(log[b]) + Len(flight[b]) = Len(acked)
         /\ ToSet(log[b]) \cup ToSet(flight[b]) = ToSet(acked)
         /\ profile = "perfect" => log[b] \o flight[b] = acked

NInv == Types /\ NodesOK /\ Clean /\ LossIsTheWindow

-----------------------------------------------------------------------------
(* What a node does keeps its count and its store.                         *)

LEMMA WriteOK ==
  ASSUME NodeTypes, NodesOK, NEW n \in Node, NEW x \in Nat, running[n], Write(n, x), up' = up
  PROVE  /\ NodeTypes' /\ NodesOK'
         /\ log' = [log EXCEPT ![n] = Append(log[n], x)]
         /\ running' = running /\ deaths' = deaths /\ profile' = profile
<1>1. /\ log' = [log EXCEPT ![n] = Append(log[n], x)]
      /\ kv' = [kv EXCEPT ![n] = Apply(kv[n], x)]
      /\ unsynced' = [unsynced EXCEPT ![n] = IF SyncDue(n) THEN 0 ELSE unsynced[n] + 1]
      /\ durable' = [durable EXCEPT ![n] = IF SyncDue(n) THEN Len(log[n]) + 1 ELSE durable[n]]
      /\ running' = running /\ deaths' = deaths /\ profile' = profile
  BY DEF Write, faultVars
<1>2. /\ log[n] \in Seq(Nat) /\ kv[n] \in Stores /\ unsynced[n] \in Nat /\ durable[n] \in Nat
      /\ Len(log[n]) \in Nat /\ Counted(n) /\ kv[n] = Replay(log[n])
  <2>1. log[n] \in Seq(Nat)
    BY DEF NodeTypes
  <2> QED BY <2>1, LenProperties DEF NodeTypes, NodesOK, Built
<1>3. Append(log[n], x) \in Seq(Nat) /\ Len(Append(log[n], x)) = Len(log[n]) + 1
  BY <1>2, AppendProperties
<1>4. Apply(kv[n], x) \in Stores
  BY <1>2, ApplyIs
<1>5. Replay(Append(log[n], x)) = Apply(kv[n], x)
  BY <1>2, ReplayOne
<1>6. NodeTypes'
  BY <1>1, <1>2, <1>3, <1>4 DEF NodeTypes
<1>7. ASSUME NEW p \in Node PROVE Counted(p)' /\ Built(p)' /\ DeadIsDown(p)'
  <2>1. CASE p # n
    <3>1. /\ log'[p] = log[p] /\ kv'[p] = kv[p] /\ unsynced'[p] = unsynced[p]
          /\ durable'[p] = durable[p] /\ running'[p] = running[p] /\ up'[p] = up[p]
      BY <1>1, <2>1 DEF NodeTypes
    <3> QED BY <3>1 DEF NodesOK, Counted, Built, DeadIsDown
  <2>2. CASE p = n
    <3>1. log'[n] = Append(log[n], x) /\ kv'[n] = Apply(kv[n], x) /\ running'[n]
      BY <1>1 DEF NodeTypes
    <3>2. Built(n)'
      BY <1>5, <3>1 DEF Built
    <3>3. Counted(n)'
      <4>1. Len(log'[n]) = Len(log[n]) + 1
        BY <1>3, <3>1
      <4>2. CASE SyncDue(n)
        <5>1. unsynced'[n] = 0 /\ durable'[n] = Len(log[n]) + 1
          BY <1>1, <4>2 DEF NodeTypes
        <5> QED BY <1>2, <3>1, <4>1, <5>1, SyncAssumption DEF Counted
      <4>3. CASE ~SyncDue(n)
        <5>1. unsynced'[n] = unsynced[n] + 1 /\ durable'[n] = durable[n]
          BY <1>1, <4>3 DEF NodeTypes
        <5> QED BY <1>2, <3>1, <4>1, <4>3, <5>1, SyncAssumption DEF Counted, SyncDue
      <4> QED BY <4>2, <4>3
    <3>4. DeadIsDown(n)'
      BY <1>1 DEF NodesOK, DeadIsDown
    <3> QED BY <2>2, <3>2, <3>3, <3>4
  <2> QED BY <2>1, <2>2
<1> QED BY <1>1, <1>6, <1>7 DEF NodesOK

(* A crash takes nothing that was synced.                                  *)
LEMMA CrashOK ==
  ASSUME NodeTypes, NodesOK, NEW n \in Node, NEW image \in Seq(Nat),
         Len(image) >= Len(log[n]), \A i \in 1 .. Len(log[n]) : image[i] = log[n][i],
         Crash(n, image), up' = up \/ up' = [up EXCEPT ![n] = FALSE]
  PROVE  /\ NodeTypes' /\ NodesOK'
         /\ \A p \in Node \ {n} : log'[p] = log[p]
         /\ \A i \in 1 .. durable[n] : log[n][i] \in ToSet(log'[n])
         /\ deaths' = IF n = Primary THEN deaths + 1 ELSE deaths
<1>1. /\ running' = [running EXCEPT ![n] = FALSE]
      /\ kv' = [kv EXCEPT ![n] = Empty]
      /\ unsynced' = [unsynced EXCEPT ![n] = 0]
      /\ deaths' = IF n = Primary THEN deaths + 1 ELSE deaths
  BY DEF Crash
<1>2. PICK kept \in durable[n] .. Len(image) :
        /\ log' = [log EXCEPT ![n] = SubSeq(image, 1, kept)]
        /\ durable' = [durable EXCEPT ![n] = kept]
  BY DEF Crash
<1>3. /\ log[n] \in Seq(Nat) /\ durable[n] \in Nat /\ Len(log[n]) \in Nat /\ Len(image) \in Nat
      /\ durable[n] <= Len(log[n])
  <2>1. log[n] \in Seq(Nat)
    BY DEF NodeTypes
  <2> QED BY <2>1, LenProperties DEF NodeTypes, NodesOK, Counted
<1>4. kept \in Nat /\ kept <= Len(image) /\ durable[n] <= kept
  BY <1>3
<1>5. PICK rest : rest = SubSeq(image, 1, kept)
  OBVIOUS
<1>6. rest \in Seq(Nat) /\ Len(rest) = kept /\ \A i \in 1 .. kept : rest[i] = image[i]
  <2>1. kept \in Int /\ 1 \in Int /\ \A i \in 1 .. kept : image[i] \in Nat
    BY <1>3, <1>4, ElementOfSeq
  <2>2. /\ SubSeq(image, 1, kept) \in Seq(Nat)
        /\ Len(SubSeq(image, 1, kept)) = IF 1 <= kept THEN kept - 1 + 1 ELSE 0
        /\ \A i \in 1 .. kept - 1 + 1 : SubSeq(image, 1, kept)[i] = image[1 + i - 1]
    BY ONLY <2>1, SubSeqProperties
  <2> QED BY <1>4, <1>5, <2>2
<1>7. log'[n] = rest /\ durable'[n] = kept /\ unsynced'[n] = 0 /\ running'[n] = FALSE
  BY <1>1, <1>2, <1>5 DEF NodeTypes
<1>8. NodeTypes'
  <2>1. log' \in [Node -> Seq(Nat)]
    BY <1>2, <1>5, <1>6 DEF NodeTypes
  <2>2. durable' \in [Node -> Nat]
    BY <1>2, <1>4 DEF NodeTypes
  <2>3. kv' \in [Node -> Stores]
    BY <1>1, EmptyIs DEF NodeTypes
  <2>4. unsynced' \in [Node -> Nat] /\ running' \in [Node -> BOOLEAN]
    BY <1>1 DEF NodeTypes
  <2>5. deaths' \in Nat
    BY <1>1 DEF NodeTypes
  <2> QED BY <2>1, <2>2, <2>3, <2>4, <2>5 DEF NodeTypes
<1>9. ASSUME NEW p \in Node, p # n
      PROVE  /\ log'[p] = log[p] /\ kv'[p] = kv[p] /\ unsynced'[p] = unsynced[p]
             /\ durable'[p] = durable[p] /\ running'[p] = running[p] /\ up'[p] = up[p]
  BY <1>1, <1>2, <1>9 DEF NodeTypes
<1>10. ASSUME NEW p \in Node PROVE Counted(p)' /\ Built(p)' /\ DeadIsDown(p)'
  <2>1. CASE p # n
    BY <1>9, <2>1 DEF NodesOK, Counted, Built, DeadIsDown
  <2>2. CASE p = n
    BY <1>4, <1>6, <1>7, <2>2, SyncAssumption DEF Counted, Built, DeadIsDown
  <2> QED BY <2>1, <2>2
<1>11. ASSUME NEW i \in 1 .. durable[n] PROVE log[n][i] \in ToSet(log'[n])
  <2>1. i \in 1 .. kept /\ i \in 1 .. Len(log[n])
    BY <1>3, <1>4
  <2>2. rest[i] = log[n][i] /\ i \in DOMAIN rest
    BY <1>6, <2>1, LenProperties
  <2> QED BY <1>7, <2>2 DEF ToSet
<1> QED BY <1>1, <1>8, <1>9, <1>10, <1>11 DEF NodesOK

LEMMA WriteFailsOK ==
  ASSUME NodeTypes, NodesOK, NEW n \in Node, NEW x \in Nat, WriteFails(n, x), up' = up
  PROVE  /\ NodeTypes' /\ NodesOK' /\ profile' = profile /\ profile = "aggressive"
         /\ \A p \in Node \ {n} : log'[p] = log[p]
         /\ \A i \in 1 .. durable[n] : log[n][i] \in ToSet(log'[n])
         /\ deaths' = IF n = Primary THEN deaths + 1 ELSE deaths
<1>1. /\ profile = "aggressive" /\ profile' = profile
      /\ \E image \in {log[n], Append(log[n], x)} : Crash(n, image)
  BY DEF WriteFails
<1>2. PICK image \in {log[n], Append(log[n], x)} : Crash(n, image)
  BY <1>1
<1>3. /\ log[n] \in Seq(Nat) /\ Len(log[n]) \in Nat
      /\ Append(log[n], x) \in Seq(Nat) /\ Len(Append(log[n], x)) = Len(log[n]) + 1
      /\ \A i \in 1 .. Len(log[n]) : Append(log[n], x)[i] = log[n][i]
  <2>1. log[n] \in Seq(Nat)
    BY DEF NodeTypes
  <2> QED BY <2>1, LenProperties, AppendProperties
<1>4. /\ image \in Seq(Nat) /\ Len(image) >= Len(log[n])
      /\ \A i \in 1 .. Len(log[n]) : image[i] = log[n][i]
  <2>1. CASE image = log[n]
    BY <1>3, <2>1
  <2>2. CASE image = Append(log[n], x)
    BY <1>3, <2>2
  <2> QED BY <2>1, <2>2
<1> QED BY <1>1, <1>2, <1>4, CrashOK

-----------------------------------------------------------------------------
(* What is lost.                                                           *)

LostSet == ToSet(acked) \ ToSet(log[Primary])

LEMMA LostIsFinite ==
  ASSUME Types
  PROVE  IsFiniteSet(LostSet) /\ Cardinality(LostSet) \in Nat
<1>1. IsFiniteSet(ToSet(acked))
  BY ToSetIs DEF Types
<1> QED BY <1>1, FS_Subset, FS_CardinalityType DEF LostSet

(* Nothing more is lost as long as the primary does not die.               *)
LEMMA LossStays ==
  ASSUME Types, LossIsTheWindow, LostSet' \subseteq LostSet, deaths' = deaths
  PROVE  LossIsTheWindow'
<1>1. IsFiniteSet(LostSet) /\ Cardinality(LostSet) \in Nat
  BY LostIsFinite
<1>2. IsFiniteSet(LostSet') /\ Cardinality(LostSet') <= Cardinality(LostSet)
  BY <1>1, FS_Subset
<1>3. Cardinality(LostSet') \in Nat
  BY <1>2, FS_CardinalityType
<1>4. (SYNC_EVERY - 1) * deaths \in Int
  BY SyncAssumption DEF Types, NodeTypes
<1>5. Cardinality(LostSet) <= (SYNC_EVERY - 1) * deaths
  BY DEF LossIsTheWindow, LostSet
<1>6. Cardinality(LostSet') <= (SYNC_EVERY - 1) * deaths'
  BY <1>1, <1>2, <1>3, <1>4, <1>5
<1> QED BY <1>6 DEF LossIsTheWindow, LostSet

(* A death costs what was not synced at most.                              *)
LEMMA LossByDeath ==
  ASSUME Types, NodesOK, LossIsTheWindow, acked' = acked, deaths' = deaths + 1,
         \A i \in 1 .. durable[Primary] : log[Primary][i] \in ToSet(log'[Primary])
  PROVE  LossIsTheWindow'
<1> DEFINE lg == log[Primary]
           d == durable[Primary]
           D == d + 1 .. Len(lg)
           f == [i \in D |-> lg[i]]
           Tail0 == {lg[i] : i \in D}
<1>1. /\ lg \in Seq(Nat) /\ d \in Nat /\ Len(lg) \in Nat /\ d <= Len(lg)
      /\ Len(lg) - d <= SYNC_EVERY - 1
  <2>1. Primary \in Node
    BY DEF Node
  <2>2. lg \in Seq(Nat) /\ d \in Nat /\ unsynced[Primary] \in Nat
    BY <2>1 DEF Types, NodeTypes
  <2>3. Len(lg) \in Nat
    BY <2>2, LenProperties
  <2>4. d <= Len(lg) /\ unsynced[Primary] = Len(lg) - d /\ unsynced[Primary] < SYNC_EVERY
    BY <2>1 DEF NodesOK, Counted
  <2> QED BY <2>2, <2>3, <2>4, SyncAssumption
<1>2. IsFiniteSet(D) /\ Cardinality(D) = Len(lg) - d
  <2>1. d + 1 \in Int /\ Len(lg) \in Int
    BY <1>1
  <2>2. IsFiniteSet(D) /\ Cardinality(D) = IF d + 1 > Len(lg) THEN 0 ELSE Len(lg) - (d + 1) + 1
    BY <2>1, FS_Interval
  <2> QED BY <1>1, <2>2
<1> HIDE DEF D
<1>3. f \in Surjection(D, Tail0)
  BY DEF Surjection
<1>4. IsFiniteSet(Tail0) /\ Cardinality(Tail0) <= Cardinality(D)
  BY <1>2, <1>3, FS_Surjection
<1>5. LostSet' \subseteq LostSet \cup Tail0
  <2> SUFFICES ASSUME NEW y \in LostSet', y \notin LostSet PROVE y \in Tail0
    OBVIOUS
  <2>1. y \in ToSet(acked) /\ y \notin ToSet(log'[Primary])
    BY DEF LostSet
  <2>2. y \in ToSet(lg)
    BY <2>1 DEF LostSet
  <2>3. PICK i \in 1 .. Len(lg) : y = lg[i]
    BY <1>1, <2>2, ToSetIs
  <2>4. i \notin 1 .. d
    BY <2>1, <2>3
  <2>5. i \in D
    BY <1>1, <2>4 DEF D
  <2> QED BY <2>3, <2>5
<1>6. IsFiniteSet(LostSet) /\ Cardinality(LostSet) \in Nat
  BY LostIsFinite
<1> HIDE DEF Tail0, lg, d, f
<1>7. Cardinality(Tail0) \in Nat /\ Cardinality(Tail0) <= SYNC_EVERY - 1
  BY <1>1, <1>2, <1>4, FS_CardinalityType, SyncAssumption
<1>8. Cardinality(LostSet') <= Cardinality(LostSet) + Cardinality(Tail0)
  <2>1. /\ IsFiniteSet(LostSet \cup Tail0)
        /\ Cardinality(LostSet \cup Tail0)
             = Cardinality(LostSet) + Cardinality(Tail0) - Cardinality(LostSet \cap Tail0)
    BY <1>4, <1>6, FS_Union
  <2>2. IsFiniteSet(LostSet') /\ Cardinality(LostSet') <= Cardinality(LostSet \cup Tail0)
    BY <1>5, <2>1, FS_Subset
  <2>3. IsFiniteSet(LostSet \cap Tail0)
    BY <1>6, FS_Subset
  <2>4. /\ Cardinality(LostSet \cap Tail0) \in Nat /\ Cardinality(LostSet') \in Nat
        /\ Cardinality(LostSet \cup Tail0) \in Nat
    BY <2>1, <2>2, <2>3, FS_CardinalityType
  <2> QED BY <1>6, <1>7, <2>1, <2>2, <2>4
<1>9. Cardinality(LostSet') \in Nat
  <2>1. IsFiniteSet(LostSet \cup Tail0)
    BY <1>4, <1>6, FS_Union
  <2>2. IsFiniteSet(LostSet')
    BY <1>5, <2>1, FS_Subset
  <2> QED BY <2>2, FS_CardinalityType
<1>10. /\ (SYNC_EVERY - 1) * deaths \in Int
       /\ (SYNC_EVERY - 1) * (deaths + 1) = (SYNC_EVERY - 1) * deaths + (SYNC_EVERY - 1)
  BY SyncAssumption DEF Types, NodeTypes
<1>11. Cardinality(LostSet) <= (SYNC_EVERY - 1) * deaths
  BY DEF LossIsTheWindow, LostSet
<1>12. Cardinality(LostSet') <= (SYNC_EVERY - 1) * deaths + (SYNC_EVERY - 1)
  <2>1. PICK w \in Int : w = (SYNC_EVERY - 1) * deaths
    BY <1>10
  <2> QED BY <1>6, <1>7, <1>8, <1>9, <1>11, <2>1, SyncAssumption
<1> QED BY <1>10, <1>12 DEF LossIsTheWindow, LostSet

-----------------------------------------------------------------------------
(* Every step keeps the invariant.                                         *)

LEMMA PrimaryIsNoBackup ==
  Primary \in Node /\ \A b \in Backup : b \in Node /\ b # Primary
BY NodeAssumption DEF Node

LEMMA InitOK == Init => NInv
<1> SUFFICES ASSUME Init PROVE NInv
  OBVIOUS
<1> USE DEF Init
<1>1. /\ << >> \in Seq(Nat) /\ Len(<< >>) = 0 /\ ToSet(<< >>) = {} /\ << >> \o << >> = << >>
      /\ Replay(<< >>) = Empty
  BY EmptySeq, ConcatEmptySeq, ReplayNone DEF ToSet
<1>2. Types
  BY <1>1, EmptyIs DEF Types, NodeTypes
<1>3. NodesOK
  BY <1>1, SyncAssumption DEF NodesOK, Counted, Built, DeadIsDown
<1>4. Clean
  BY <1>1, PrimaryIsNoBackup DEF Clean
<1>5. LossIsTheWindow
  <2>1. ToSet(acked) \ ToSet(log[Primary]) = {} /\ deaths = 0
    BY <1>1
  <2>2. (SYNC_EVERY - 1) * 0 = 0
    BY SyncAssumption
  <2>3. Cardinality(ToSet(acked) \ ToSet(log[Primary])) = 0
    BY ONLY <2>1, FS_EmptySet
  <2> QED BY <2>1, <2>2, <2>3 DEF LossIsTheWindow
<1> QED BY <1>2, <1>3, <1>4, <1>5 DEF NInv

LEMMA AcceptStep ==
  ASSUME NInv, Issue, Accept
  PROVE  NInv'
<1> DEFINE x == issued
<1>0. Types /\ NodeTypes /\ NodesOK /\ Clean /\ LossIsTheWindow
  BY DEF NInv, Types
<1>1. /\ x \in Nat /\ issued' = x + 1 /\ up' = up /\ running[Primary] /\ Write(Primary, x)
      /\ flight' = [b \in Backup |-> Append(flight[b], x)] /\ acked' = Append(acked, x)
  BY <1>0 DEF Issue, Accept, Tell, Types
<1> HIDE DEF x
<1>2. /\ NodeTypes' /\ NodesOK'
      /\ log' = [log EXCEPT ![Primary] = Append(log[Primary], x)]
      /\ running' = running /\ deaths' = deaths /\ profile' = profile
  BY <1>0, <1>1, WriteOK, PrimaryIsNoBackup
<1>3. /\ acked \in Seq(Nat) /\ log \in [Node -> Seq(Nat)] /\ flight \in [Backup -> Seq(Nat)]
  BY <1>0 DEF Types, NodeTypes
<1>4. /\ acked' \in Seq(Nat) /\ Len(acked') = Len(acked) + 1
      /\ ToSet(acked') = ToSet(acked) \cup {x}
  BY <1>1, <1>3, ToSetAppend
<1>5. /\ log'[Primary] = Append(log[Primary], x)
      /\ ToSet(log'[Primary]) = ToSet(log[Primary]) \cup {x}
      /\ \A b \in Backup : log'[b] = log[b]
  <2>1. log'[Primary] = Append(log[Primary], x) /\ \A b \in Backup : log'[b] = log[b]
    BY <1>2, <1>3, PrimaryIsNoBackup
  <2>2. log[Primary] \in Seq(Nat)
    BY <1>3, PrimaryIsNoBackup
  <2> QED BY <1>1, <2>1, <2>2, ToSetAppend
<1>6. ASSUME NEW b \in Backup
      PROVE  /\ flight'[b] = Append(flight[b], x) /\ flight[b] \in Seq(Nat)
             /\ flight'[b] \in Seq(Nat) /\ Len(flight'[b]) = Len(flight[b]) + 1
             /\ ToSet(flight'[b]) = ToSet(flight[b]) \cup {x}
  <2>1. flight'[b] = Append(flight[b], x) /\ flight[b] \in Seq(Nat)
    BY <1>1, <1>3
  <2> QED BY <1>1, <2>1, ToSetAppend
<1>7. Types'
  <2>1. flight' \in [Backup -> Seq(Nat)]
    BY <1>1, <1>6
  <2> QED BY <1>1, <1>2, <1>4, <2>1 DEF Types
<1>8. Clean'
  <2> SUFFICES ASSUME profile # "aggressive"
               PROVE  /\ \A n \in Node : running'[n] /\ up'[n]
                      /\ log'[Primary] = acked'
                      /\ \A b \in Backup :
                           /\ Len(log'[b]) + Len(flight'[b]) = Len(acked')
                           /\ ToSet(log'[b]) \cup ToSet(flight'[b]) = ToSet(acked')
                           /\ profile = "perfect" => log'[b] \o flight'[b] = acked'
    BY <1>2 DEF Clean
  <2>1. /\ \A n \in Node : running[n] /\ up[n]
        /\ log[Primary] = acked
        /\ \A b \in Backup :
             /\ Len(log[b]) + Len(flight[b]) = Len(acked)
             /\ ToSet(log[b]) \cup ToSet(flight[b]) = ToSet(acked)
             /\ profile = "perfect" => log[b] \o flight[b] = acked
    BY <1>0 DEF Clean
  <2>2. ASSUME NEW b \in Backup
        PROVE  /\ Len(log'[b]) + Len(flight'[b]) = Len(acked')
               /\ ToSet(log'[b]) \cup ToSet(flight'[b]) = ToSet(acked')
               /\ profile = "perfect" => log'[b] \o flight'[b] = acked'
    <3>1. log[b] \in Seq(Nat) /\ Len(log[b]) \in Nat
      BY <1>3, PrimaryIsNoBackup, LenProperties
    <3>2. Len(flight[b]) \in Nat /\ Len(acked) \in Nat
      BY <1>3, <1>6, LenProperties
    <3>3. Len(log'[b]) + Len(flight'[b]) = Len(acked')
      <4>1. PICK l, f, a : l = Len(log[b]) /\ f = Len(flight[b]) /\ a = Len(acked)
        OBVIOUS
      <4>2. /\ l \in Nat /\ f \in Nat /\ a \in Nat /\ l + f = a
        BY <2>1, <3>1, <3>2, <4>1
      <4>3. Len(log'[b]) = l /\ Len(flight'[b]) = f + 1 /\ Len(acked') = a + 1
        BY <1>4, <1>5, <1>6, <4>1
      <4> QED BY ONLY <4>2, <4>3
    <3>4. ToSet(log'[b]) \cup ToSet(flight'[b]) = ToSet(acked')
      BY <1>4, <1>5, <1>6, <2>1
    <3>5. log[b] \o Append(flight[b], x) = Append(log[b] \o flight[b], x)
      <4>1. PICK p, q : p = log[b] /\ q = flight[b]
        OBVIOUS
      <4>2. p \in Seq(Nat) /\ q \in Seq(Nat) /\ x \in Nat
        BY <1>1, <1>6, <3>1, <4>1
      <4>3. p \o Append(q, x) = Append(p \o q, x)
        BY ONLY <4>2
      <4> QED BY <4>1, <4>3
    <3> QED BY <1>1, <1>5, <1>6, <2>1, <3>3, <3>4, <3>5
  <2> QED BY <1>1, <1>2, <1>5, <2>1, <2>2
<1>9. LossIsTheWindow'
  <2>1. LostSet' \subseteq LostSet
    BY <1>4, <1>5 DEF LostSet
  <2> QED BY <1>0, <1>2, <2>1, LossStays
<1> QED BY <1>2, <1>7, <1>8, <1>9 DEF NInv

LEMMA RefuseStep ==
  ASSUME NInv, Issue, Refuse
  PROVE  NInv'
<1>0. Types /\ NodeTypes /\ NodesOK /\ Clean /\ LossIsTheWindow
  BY DEF NInv, Types
<1>1. /\ issued \in Nat /\ issued' = issued + 1 /\ up' = up /\ acked' = acked /\ flight' = flight
  BY <1>0 DEF Issue, Refuse, Types
<1>2. CASE UNCHANGED <<nodeVars, faultVars>>
  <2>1. /\ log' = log /\ durable' = durable /\ kv' = kv /\ running' = running
        /\ unsynced' = unsynced /\ deaths' = deaths /\ profile' = profile
    BY <1>2 DEF nodeVars, diskVars, faultVars
  <2>2. Types'
    BY <1>0, <1>1, <2>1 DEF Types, NodeTypes
  <2>3. NodesOK' /\ Clean' /\ LossIsTheWindow'
    BY <1>0, <1>1, <2>1 DEF NodesOK, Counted, Built, DeadIsDown, Clean, LossIsTheWindow
  <2> QED BY <2>2, <2>3 DEF NInv
<1>3. CASE WriteFails(Primary, issued)
  <2>1. /\ NodeTypes' /\ NodesOK' /\ profile' = profile /\ profile = "aggressive"
        /\ \A i \in 1 .. durable[Primary] : log[Primary][i] \in ToSet(log'[Primary])
        /\ deaths' = deaths + 1
    BY <1>0, <1>1, <1>3, WriteFailsOK, PrimaryIsNoBackup
  <2>2. LossIsTheWindow'
    BY <1>0, <1>1, <2>1, LossByDeath
  <2>3. Types' /\ Clean'
    BY <1>0, <1>1, <2>1 DEF Types, Clean
  <2> QED BY <2>1, <2>2, <2>3 DEF NInv
<1> QED BY <1>2, <1>3 DEF Refuse

LEMMA DeliverStep ==
  ASSUME NInv, NEW b \in Backup, Deliver(b)
  PROVE  NInv'
<1>0. Types /\ NodeTypes /\ NodesOK /\ Clean /\ LossIsTheWindow
  BY DEF NInv, Types
<1>1. PICK i \in MayArrive(b) :
        /\ Receive(b, flight[b][i])
        /\ flight' = [flight EXCEPT ![b] = RemoveAt(flight[b], i)]
        /\ issued' = issued /\ acked' = acked /\ up' = up
  BY DEF Deliver
<1>2. PICK f, x : f = flight[b] /\ x = flight[b][i]
  OBVIOUS
<1>3. f \in Seq(Nat) /\ i \in DOMAIN f /\ (profile = "perfect" => i = 1) /\ x = f[i]
  BY <1>0, <1>1, <1>2 DEF MayArrive, Types
<1>4. PICK g : g = RemoveAt(f, i)
  OBVIOUS
<1>5. /\ x \in Nat /\ g \in Seq(Nat) /\ Len(g) = Len(f) - 1
      /\ ToSet(f) = ToSet(g) \cup {x}
      /\ i = 1 => f = <<x>> \o g
  <2>1. f \in Seq(Nat) /\ i \in DOMAIN f /\ x = f[i]
    BY ONLY <1>3
  <2>2. /\ f[i] \in Nat /\ g \in Seq(Nat) /\ Len(g) = Len(f) - 1
        /\ ToSet(f) = ToSet(g) \cup {f[i]}
    BY ONLY <2>1, <1>4, RemoveAtIs
  <2>3. ASSUME i = 1 PROVE f = <<f[1]>> \o g
    BY ONLY <2>1, <2>3, <1>4, RemoveAtIs
  <2> QED BY ONLY <2>1, <2>2, <2>3
<1>6. /\ flight \in [Backup -> Seq(Nat)] /\ flight' = [flight EXCEPT ![b] = g]
      /\ flight'[b] = g /\ \A c \in Backup : c # b => flight'[c] = flight[c]
  BY <1>0, <1>1, <1>2, <1>4 DEF Types
<1>7. b \in Node /\ Primary \in Node /\ b # Primary
  BY PrimaryIsNoBackup
<1>8. ASSUME NodeTypes' PROVE Types'
  <2>1. flight' \in [Backup -> Seq(Nat)]
    BY <1>5, <1>6
  <2> QED BY <1>0, <1>1, <1>8, <2>1 DEF Types
<1>9. ASSUME deaths' = deaths, log'[Primary] = log[Primary] PROVE LossIsTheWindow'
  <2>1. LostSet' \subseteq LostSet
    BY <1>1, <1>9 DEF LostSet
  <2> QED BY <1>0, <1>9, <2>1, LossStays
<1>10. CASE running[b] /\ Write(b, x)
  <2>1. /\ NodeTypes' /\ NodesOK'
        /\ log' = [log EXCEPT ![b] = Append(log[b], x)]
        /\ running' = running /\ deaths' = deaths /\ profile' = profile
    BY <1>0, <1>1, <1>5, <1>7, <1>10, WriteOK
  <2>2. log \in [Node -> Seq(Nat)]
    BY <1>0 DEF NodeTypes
  <2>3. PICK l : l = log[b]
    OBVIOUS
  <2>4. l \in Seq(Nat)
    BY <1>7, <2>2, <2>3
  <2>5. /\ log'[b] = Append(l, x) /\ log'[Primary] = log[Primary]
        /\ \A c \in Backup : c # b => log'[c] = log[c]
    BY <1>7, <2>1, <2>2, <2>3, PrimaryIsNoBackup
  <2>6. Clean'
    <3> SUFFICES ASSUME profile # "aggressive"
                 PROVE  /\ \A n \in Node : running'[n] /\ up'[n]
                        /\ log'[Primary] = acked'
                        /\ \A c \in Backup :
                             /\ Len(log'[c]) + Len(flight'[c]) = Len(acked')
                             /\ ToSet(log'[c]) \cup ToSet(flight'[c]) = ToSet(acked')
                             /\ profile = "perfect" => log'[c] \o flight'[c] = acked'
      BY <2>1 DEF Clean
    <3>1. /\ \A n \in Node : running[n] /\ up[n]
          /\ log[Primary] = acked
          /\ \A c \in Backup :
               /\ Len(log[c]) + Len(flight[c]) = Len(acked)
               /\ ToSet(log[c]) \cup ToSet(flight[c]) = ToSet(acked)
               /\ profile = "perfect" => log[c] \o flight[c] = acked
      BY <1>0 DEF Clean
    <3>2. Len(l) + Len(f) = Len(acked) /\ ToSet(l) \cup ToSet(f) = ToSet(acked)
            /\ (profile = "perfect" => l \o f = acked)
      BY <1>2, <2>3, <3>1
    <3>3. /\ Len(Append(l, x)) = Len(l) + 1 /\ ToSet(Append(l, x)) = ToSet(l) \cup {x}
      BY <1>5, <2>4, ToSetAppend
    <3>4. Len(Append(l, x)) + Len(g) = Len(acked)
      <4>1. Len(l) \in Nat /\ Len(f) \in Nat /\ Len(g) \in Nat
        BY <1>3, <1>5, <2>4, LenProperties
      <4> QED BY <1>5, <3>2, <3>3, <4>1
    <3>5. ToSet(Append(l, x)) \cup ToSet(g) = ToSet(acked)
      BY <1>5, <3>2, <3>3
    <3>6. ASSUME profile = "perfect" PROVE Append(l, x) \o g = acked
      <4>1. f = <<x>> \o g /\ l \o f = acked
        BY <1>3, <1>5, <3>2, <3>6
      <4>2. PICK h : h = <<x>>
        OBVIOUS
      <4>3. h \in Seq(Nat) /\ Append(l, x) = l \o h
        BY <1>5, <2>4, <4>2, AppendIsConcat
      <4>4. (l \o h) \o g = l \o (h \o g)
        <5>1. l \in Seq(Nat) /\ h \in Seq(Nat) /\ g \in Seq(Nat)
          BY <1>5, <2>4, <4>3
        <5> QED BY ONLY <5>1, ConcatAssociative
      <4> QED BY <4>1, <4>2, <4>3, <4>4
    <3>7. ASSUME NEW c \in Backup
          PROVE  /\ Len(log'[c]) + Len(flight'[c]) = Len(acked')
                 /\ ToSet(log'[c]) \cup ToSet(flight'[c]) = ToSet(acked')
                 /\ profile = "perfect" => log'[c] \o flight'[c] = acked'
      <4>1. CASE c = b
        BY <1>1, <1>6, <2>5, <3>4, <3>5, <3>6, <4>1
      <4>2. CASE c # b
        BY <1>1, <1>6, <2>5, <3>1, <4>2
      <4> QED BY <4>1, <4>2
    <3> QED BY <1>1, <2>1, <2>5, <3>1, <3>7
  <2> QED BY <1>8, <1>9, <2>1, <2>5, <2>6 DEF NInv
<1>11. CASE WriteFails(b, x)
  <2>1. /\ NodeTypes' /\ NodesOK' /\ profile' = profile /\ profile = "aggressive"
        /\ log'[Primary] = log[Primary] /\ deaths' = deaths
    <3>1. /\ NodeTypes' /\ NodesOK' /\ profile' = profile /\ profile = "aggressive"
          /\ \A p \in Node \ {b} : log'[p] = log[p]
          /\ deaths' = IF b = Primary THEN deaths + 1 ELSE deaths
      BY <1>0, <1>1, <1>5, <1>7, <1>11, WriteFailsOK
    <3> QED BY <1>7, <3>1
  <2>2. Clean'
    BY <2>1 DEF Clean
  <2> QED BY <1>8, <1>9, <2>1, <2>2 DEF NInv
<1>12. CASE ~ (up[b] /\ running[b]) /\ UNCHANGED <<nodeVars, faultVars>>
  <2>1. /\ log' = log /\ durable' = durable /\ kv' = kv /\ running' = running
        /\ unsynced' = unsynced /\ deaths' = deaths /\ profile' = profile
    BY <1>12 DEF nodeVars, diskVars, faultVars
  <2>2. NodeTypes' /\ NodesOK'
    BY <1>0, <1>1, <2>1 DEF NodeTypes, NodesOK, Counted, Built, DeadIsDown
  <2>3. Clean'
    BY <1>0, <1>7, <1>12, <2>1 DEF Clean
  <2> QED BY <1>8, <1>9, <2>1, <2>2, <2>3 DEF NInv
<1> QED BY <1>1, <1>2, <1>10, <1>11, <1>12 DEF Receive, Hears

(* A message that is lost, or sent once more, is no concern of the nodes.  *)
LEMMA DropOrRepeatStep ==
  ASSUME NInv, NEW b \in Backup, Drop(b) \/ Repeat(b)
  PROVE  NInv'
<1>0. Types /\ NodeTypes /\ NodesOK /\ Clean /\ LossIsTheWindow
  BY DEF NInv, Types
<1>1. /\ profile = "aggressive" /\ profile' = profile
      /\ log' = log /\ durable' = durable /\ kv' = kv /\ running' = running
      /\ unsynced' = unsynced /\ deaths' = deaths
      /\ issued' = issued /\ acked' = acked /\ up' = up
      /\ \E i \in DOMAIN flight[b] :
           flight' = [flight EXCEPT ![b] = RemoveAt(flight[b], i)]
             \/ flight' = [flight EXCEPT ![b] = InsertAt(flight[b], i, flight[b][i])]
  BY DEF Drop, Repeat, nodeVars, diskVars, faultVars
<1>2. PICK i \in DOMAIN flight[b] :
        flight' = [flight EXCEPT ![b] = RemoveAt(flight[b], i)]
          \/ flight' = [flight EXCEPT ![b] = InsertAt(flight[b], i, flight[b][i])]
  BY <1>1
<1>3. flight \in [Backup -> Seq(Nat)] /\ flight[b] \in Seq(Nat)
  BY <1>0 DEF Types
<1>4. RemoveAt(flight[b], i) \in Seq(Nat) /\ InsertAt(flight[b], i, flight[b][i]) \in Seq(Nat)
  BY <1>3, RemoveAtIs, InsertAtIs
<1>5. flight' \in [Backup -> Seq(Nat)]
  <2>1. PICK r, s : r = RemoveAt(flight[b], i) /\ s = InsertAt(flight[b], i, flight[b][i])
    OBVIOUS
  <2> QED BY <1>2, <1>3, <1>4, <2>1
<1>6. Types'
  BY <1>0, <1>1, <1>5 DEF Types, NodeTypes
<1>7. NodesOK' /\ Clean' /\ LossIsTheWindow'
  BY <1>0, <1>1 DEF NodesOK, Counted, Built, DeadIsDown, Clean, LossIsTheWindow
<1> QED BY <1>6, <1>7 DEF NInv

LEMMA BeginCrashStep ==
  ASSUME NInv, NEW n \in Node, BeginCrash(n)
  PROVE  NInv'
<1>0. Types /\ NodeTypes /\ NodesOK /\ Clean /\ LossIsTheWindow
  BY DEF NInv, Types
<1>1. /\ profile = "aggressive" /\ profile' = profile /\ up' = [up EXCEPT ![n] = FALSE]
      /\ issued' = issued /\ acked' = acked /\ flight' = flight
      /\ \/ running[n] /\ Crash(n, log[n])
         \/ ~running[n] /\ UNCHANGED nodeVars
  BY DEF BeginCrash
<1>2. Clean'
  BY <1>1 DEF Clean
<1>3. ASSUME NodeTypes' PROVE Types'
  BY <1>0, <1>1, <1>3 DEF Types
<1>4. CASE running[n] /\ Crash(n, log[n])
  <2>1. log[n] \in Seq(Nat) /\ Len(log[n]) >= Len(log[n])
    <3>1. log[n] \in Seq(Nat)
      BY <1>0 DEF NodeTypes
    <3>2. Len(log[n]) \in Nat
      BY <3>1, LenProperties
    <3> QED BY <3>1, <3>2
  <2>2. /\ NodeTypes' /\ NodesOK'
        /\ \A p \in Node \ {n} : log'[p] = log[p]
        /\ \A i \in 1 .. durable[n] : log[n][i] \in ToSet(log'[n])
        /\ deaths' = IF n = Primary THEN deaths + 1 ELSE deaths
    BY <1>0, <1>1, <1>4, <2>1, CrashOK
  <2>3. LossIsTheWindow'
    <3>1. CASE n = Primary
      BY <1>0, <1>1, <2>2, <3>1, LossByDeath
    <3>2. CASE n # Primary
      <4>1. LostSet' \subseteq LostSet /\ deaths' = deaths
        BY <1>1, <2>2, <3>2, PrimaryIsNoBackup DEF LostSet
      <4> QED BY <1>0, <4>1, LossStays
    <3> QED BY <3>1, <3>2
  <2> QED BY <1>2, <1>3, <2>2, <2>3 DEF NInv
<1>5. CASE ~running[n] /\ UNCHANGED nodeVars
  <2>1. /\ log' = log /\ durable' = durable /\ kv' = kv /\ running' = running
        /\ unsynced' = unsynced /\ deaths' = deaths
    BY <1>5 DEF nodeVars, diskVars
  <2>2. NodeTypes'
    BY <1>0, <1>1, <2>1 DEF NodeTypes
  <2>3. \A p \in Node : DeadIsDown(p)'
    BY <1>0, <1>1, <1>5, <2>1 DEF NodesOK, DeadIsDown, NodeTypes
  <2>4. NodesOK'
    BY <1>0, <2>1, <2>3 DEF NodesOK, Counted, Built
  <2>5. LossIsTheWindow'
    BY <1>0, <1>1, <2>1 DEF LossIsTheWindow
  <2> QED BY <1>2, <1>3, <2>2, <2>4, <2>5 DEF NInv
<1> QED BY <1>1, <1>4, <1>5

LEMMA EndCrashStep ==
  ASSUME NInv, NEW n \in Node, EndCrash(n)
  PROVE  NInv'
<1>0. Types /\ NodeTypes /\ NodesOK /\ Clean /\ LossIsTheWindow
  BY DEF NInv, Types
<1>1. /\ ~up[n] /\ up' = [up EXCEPT ![n] = TRUE]
      /\ running' = [running EXCEPT ![n] = TRUE]
      /\ kv' = [kv EXCEPT ![n] = Replay(log[n])]
      /\ unsynced' = [unsynced EXCEPT ![n] = 0]
      /\ log' = log /\ durable' = durable /\ deaths' = deaths /\ profile' = profile
      /\ issued' = issued /\ acked' = acked /\ flight' = flight
  BY DEF EndCrash, Restart, diskVars, faultVars
<1>2. log[n] \in Seq(Nat) /\ Replay(log[n]) \in Stores
  <2>1. log[n] \in Seq(Nat)
    BY <1>0 DEF NodeTypes
  <2> QED BY <2>1, ReplayType
<1>3. NodeTypes'
  BY <1>0, <1>1, <1>2 DEF NodeTypes
<1>4. ASSUME NEW p \in Node PROVE Counted(p)' /\ Built(p)' /\ DeadIsDown(p)'
  <2>1. CASE p # n
    <3>1. /\ log'[p] = log[p] /\ kv'[p] = kv[p] /\ unsynced'[p] = unsynced[p]
          /\ durable'[p] = durable[p] /\ running'[p] = running[p] /\ up'[p] = up[p]
      BY <1>0, <1>1, <2>1 DEF NodeTypes
    <3> QED BY <1>0, <3>1 DEF NodesOK, Counted, Built, DeadIsDown
  <2>2. CASE p = n
    <3>1. /\ log'[n] = log[n] /\ durable'[n] = durable[n] /\ kv'[n] = Replay(log[n])
          /\ unsynced'[n] = 0 /\ running'[n] = TRUE
      BY <1>0, <1>1 DEF NodeTypes
    <3>2. unsynced[n] = 0 /\ Counted(n)
      BY <1>0, <1>1 DEF NodesOK, Counted, DeadIsDown
    <3>3. Counted(n)'
      BY ONLY <3>1, <3>2 DEF Counted
    <3>4. Built(n)' /\ DeadIsDown(n)'
      <4>1. kv'[n] = Replay(log'[n])
        BY ONLY <3>1
      <4>2. running'[n]
        BY ONLY <3>1
      <4>3. up'[n]
        BY <1>0, <1>1 DEF NodeTypes
      <4> QED BY ONLY <4>1, <4>2, <4>3 DEF Built, DeadIsDown
    <3> QED BY ONLY <2>2, <3>3, <3>4
  <2> QED BY <2>1, <2>2
<1>5. Clean'
  BY <1>0, <1>1 DEF Clean
<1>6. LossIsTheWindow'
  BY <1>0, <1>1 DEF LossIsTheWindow
<1>7. Types'
  BY <1>0, <1>1, <1>3 DEF Types
<1> QED BY <1>4, <1>5, <1>6, <1>7 DEF NInv, NodesOK

LEMMA StepOK == NInv /\ [Next]_vars => NInv'
<1> SUFFICES ASSUME NInv, [Next]_vars PROVE NInv'
  OBVIOUS
<1>1. CASE Issue
  BY <1>1, AcceptStep, RefuseStep DEF Issue
<1>2. ASSUME NEW b \in Backup, Deliver(b) \/ Drop(b) \/ Repeat(b) PROVE NInv'
  BY <1>2, DeliverStep, DropOrRepeatStep
<1>3. ASSUME NEW n \in Node, BeginCrash(n) \/ EndCrash(n) PROVE NInv'
  BY <1>3, BeginCrashStep, EndCrashStep
<1>4. CASE UNCHANGED vars
  <2>1. /\ log' = log /\ durable' = durable /\ kv' = kv /\ running' = running
        /\ unsynced' = unsynced /\ deaths' = deaths /\ profile' = profile
        /\ issued' = issued /\ acked' = acked /\ flight' = flight /\ up' = up
    BY <1>4 DEF vars, nodeVars, diskVars, faultVars
  <2> QED BY <2>1 DEF NInv, Types, NodeTypes, NodesOK, Counted, Built, DeadIsDown, Clean,
                      LossIsTheWindow
<1> QED BY <1>1, <1>2, <1>3, <1>4 DEF Next

LEMMA NInvAlways == Spec => []NInv
<1> QED BY InitOK, StepOK, PTL DEF Spec

-----------------------------------------------------------------------------
(* The verdict.                                                            *)

(* Copies whose logs have the same commands agree on each key that was     *)
(* written once at most, and hold there what was promised.                 *)
LEMMA WrittenOnceIsRight ==
  ASSUME Types, NodesOK, \A n \in Node : running[n],
         \A n \in Node : ToSet(log[n]) = ToSet(acked),
         NEW k \in Key, ~ (Cardinality(WritesTo(k, acked)) > 1), NEW n \in Node
  PROVE  kv[n][k] = Replay(acked)[k]
<1>1. acked \in Seq(Nat) /\ log[n] \in Seq(Nat) /\ kv[n] = Replay(log[n])
  BY DEF Types, NodeTypes, NodesOK, Built
<1>2. WritesTo(k, log[n]) = WritesTo(k, acked)
  BY DEF WritesTo
<1>3. IsFiniteSet(WritesTo(k, acked)) /\ Cardinality(WritesTo(k, acked)) \in Nat
  <2>1. IsFiniteSet(ToSet(acked))
    BY <1>1, ToSetIs
  <2>2. WritesTo(k, acked) \in SUBSET ToSet(acked)
    BY DEF WritesTo
  <2> QED BY <2>1, <2>2, FS_Subset, FS_CardinalityType
<1>4. PICK x : WritesTo(k, acked) \subseteq {x}
  <2>1. Cardinality(WritesTo(k, acked)) = 0 \/ Cardinality(WritesTo(k, acked)) = 1
    BY <1>3
  <2> QED BY <1>3, <2>1, FS_EmptySet, FS_Singleton
<1>5. ASSUME NEW s \in Seq(Nat), WritesTo(k, s) \subseteq {x}
      PROVE  Replay(s)[k] = IF WritesTo(k, s) = {} THEN Nil ELSE Effect(x)
  BY <1>5, ReplayAt
<1> QED BY <1>1, <1>2, <1>4, <1>5

(* Of the writes it promised, a primary loses less than a batch by each of *)
(* its deaths (naive/replicator.py), for any number of writes, deaths and  *)
(* faults.                                                                 *)
THEOREM LossIsBounded == Spec => []LossIsTheWindow
<1>1. NInv => LossIsTheWindow
  BY DEF NInv
<1> QED BY <1>1, NInvAlways, PTL

(* With one latency for all and no faults, every copy is what the client   *)
(* was promised.                                                           *)
LEMMA PerfectIsRight ==
  ASSUME NInv, profile = "perfect", Quiescent, NEW n \in Node
  PROVE  kv[n] = Replay(acked)
<1>1. log[Primary] = acked /\ running[n]
  BY DEF NInv, Clean
<1>2. ASSUME NEW b \in Backup PROVE log[b] = acked
  <2>1. log[b] \o flight[b] = acked /\ flight[b] = << >>
    BY DEF NInv, Clean, Quiescent
  <2>2. log[b] \in Seq(Nat)
    BY PrimaryIsNoBackup DEF NInv, Types, NodeTypes
  <2> QED BY <2>1, <2>2, ConcatEmptySeq
<1>3. log[n] = acked
  BY <1>1, <1>2 DEF Node
<1> QED BY <1>1, <1>3 DEF NInv, NodesOK, Built

(* Without crashes, failed writes and losses each copy ends with each      *)
(* write the client was promised, once.  With one latency for all none is  *)
(* wrong (tests/test_naive_replication.py); when messages overtake each    *)
(* other, only a key that was written twice can be (naive/client.py).      *)
THEOREM OnlyOverwritesDiffer == Spec => []OnlyOrderDiffers
<1>1. NInv => OnlyOrderDiffers
  <2> DEFINE Wrong == Divergent(kv) \cup UNION {Lost(acked, kv[n]) : n \in Node}
  <2> SUFFICES ASSUME NInv, profile # "aggressive", Quiescent
               PROVE  /\ \A n \in Node : Len(log[n]) = Len(acked) /\ ToSet(log[n]) = ToSet(acked)
                      /\ \A k \in Wrong : profile # "perfect" /\ Cardinality(WritesTo(k, acked)) > 1
    BY DEF OnlyOrderDiffers
  <2>0. Types /\ NodesOK
    BY DEF NInv
  <2>1. \A n \in Node :
          running[n] /\ Len(log[n]) = Len(acked) /\ ToSet(log[n]) = ToSet(acked)
    <3>1. log[Primary] = acked /\ \A n \in Node : running[n]
      BY DEF NInv, Clean
    <3>2. ASSUME NEW b \in Backup PROVE Len(log[b]) = Len(acked) /\ ToSet(log[b]) = ToSet(acked)
      <4>1. /\ Len(log[b]) + Len(flight[b]) = Len(acked)
            /\ ToSet(log[b]) \cup ToSet(flight[b]) = ToSet(acked)
            /\ flight[b] = << >>
        BY DEF NInv, Clean, Quiescent
      <4>2. Len(<< >>) = 0 /\ ToSet(<< >>) = {}
        BY EmptySeq DEF ToSet
      <4>3. Len(log[b]) \in Nat
        BY <2>0, PrimaryIsNoBackup, LenProperties DEF Types, NodeTypes
      <4>4. Len(flight[b]) = 0 /\ ToSet(flight[b]) = {}
        BY ONLY <4>1, <4>2
      <4>5. ToSet(log[b]) = ToSet(acked)
        BY ONLY <4>1, <4>4
      <4>6. Len(log[b]) = Len(acked)
        BY ONLY <4>1, <4>3, <4>4
      <4> QED BY ONLY <4>5, <4>6
    <3> QED BY <3>1, <3>2 DEF Node
  <2>2. ASSUME NEW k \in Wrong PROVE profile # "perfect" /\ Cardinality(WritesTo(k, acked)) > 1
    <3> SUFFICES ASSUME profile = "perfect" \/ ~ (Cardinality(WritesTo(k, acked)) > 1)
                 PROVE  FALSE
      OBVIOUS
    <3>1. k \in Key
      BY DEF Divergent, Lost
    <3>2. \A n \in Node : kv[n][k] = Replay(acked)[k]
      BY <2>0, <2>1, <3>1, WrittenOnceIsRight, PerfectIsRight
    <3>3. DOMAIN kv = Node
      BY <2>0 DEF Types, NodeTypes
    <3>4. k \notin Divergent(kv)
      BY <3>2, <3>3 DEF Divergent
    <3>5. \A n \in Node : k \notin Lost(acked, kv[n])
      BY <3>2 DEF Lost
    <3> QED BY <3>4, <3>5
  <2> QED BY <2>1, <2>2
<1> QED BY <1>1, NInvAlways, PTL

-----------------------------------------------------------------------------
(* Who has fallen without the network knowing.                             *)

Fallen == {n \in Node : up[n] /\ ~running[n]}

(* Each of them has had a write fail.                                      *)
FInv == errors \in Nat /\ IsFiniteSet(Fallen) /\ Cardinality(Fallen) <= errors

LEMMA NoneFalls ==
  ASSUME FInv, Fallen' \subseteq Fallen, errors' = errors
  PROVE  FInv'
<1>1. IsFiniteSet(Fallen') /\ Cardinality(Fallen') <= Cardinality(Fallen)
  BY FS_Subset DEF FInv
<1>2. Cardinality(Fallen') \in Nat /\ Cardinality(Fallen) \in Nat
  BY <1>1, FS_CardinalityType DEF FInv
<1> QED BY <1>1, <1>2 DEF FInv

LEMMA OneFalls ==
  ASSUME FInv, NEW n, Fallen' \subseteq Fallen \cup {n}, errors' = errors + 1
  PROVE  FInv'
<1> DEFINE More == Fallen \cup {n}
<1>1. /\ IsFiniteSet(More) /\ Cardinality(Fallen) \in Nat
      /\ Cardinality(More) \in {Cardinality(Fallen), Cardinality(Fallen) + 1}
  BY FS_AddElement, FS_CardinalityType DEF FInv
<1>2. /\ IsFiniteSet(Fallen') /\ Cardinality(Fallen') \in Nat
      /\ Cardinality(Fallen') <= Cardinality(More)
  BY <1>1, FS_Subset, FS_CardinalityType
<1> QED BY <1>1, <1>2 DEF FInv

LEMMA WriteFailsFalls ==
  ASSUME NodeTypes, NEW n \in Node, NEW x, WriteFails(n, x), up' = up
  PROVE  Fallen' \subseteq Fallen \cup {n} /\ errors' = errors + 1
<1>1. running' = [running EXCEPT ![n] = FALSE] /\ errors' = errors + 1
  BY DEF WriteFails, Crash
<1> QED BY <1>1 DEF Fallen, NodeTypes

LEMMA FInvInit == Init => FInv
<1> SUFFICES ASSUME Init PROVE FInv
  OBVIOUS
<1>1. errors = 0 /\ Fallen = {}
  BY DEF Init, Fallen
<1> QED BY <1>1, FS_EmptySet DEF FInv

LEMMA FInvStep == NInv /\ FInv /\ [Next]_vars => FInv'
<1> SUFFICES ASSUME NInv, FInv, [Next]_vars PROVE FInv'
  OBVIOUS
<1>1. NodeTypes
  BY DEF NInv, Types
<1>2. ASSUME UNCHANGED <<running, up, errors>> PROVE FInv'
  BY <1>2 DEF FInv, Fallen
<1>3. ASSUME NEW n \in Node, NEW x, WriteFails(n, x), up' = up PROVE FInv'
  BY <1>1, <1>3, WriteFailsFalls, OneFalls
<1>4. CASE Issue
  <2>1. CASE Accept
    BY <1>2, <1>4, <2>1 DEF Issue, Accept, Write, faultVars
  <2>2. CASE Refuse
    <3>1. CASE UNCHANGED <<nodeVars, faultVars>>
      BY <1>2, <1>4, <3>1 DEF Issue, nodeVars, faultVars
    <3>2. CASE WriteFails(Primary, issued)
      BY <1>3, <1>4, <3>2 DEF Issue, Node
    <3> QED BY <2>2, <3>1, <3>2 DEF Refuse
  <2> QED BY <1>4, <2>1, <2>2 DEF Issue
<1>5. ASSUME NEW b \in Backup, Deliver(b) PROVE FInv'
  <2>1. PICK i \in MayArrive(b) : Receive(b, flight[b][i]) /\ up' = up
    BY <1>5 DEF Deliver
  <2>2. CASE Write(b, flight[b][i])
    BY <1>2, <2>1, <2>2 DEF Write, faultVars
  <2>3. CASE WriteFails(b, flight[b][i])
    BY <1>3, <2>1, <2>3 DEF Node
  <2>4. CASE UNCHANGED <<nodeVars, faultVars>>
    BY <1>2, <2>1, <2>4 DEF nodeVars, faultVars
  <2> QED BY <2>1, <2>2, <2>3, <2>4 DEF Receive
<1>6. ASSUME NEW b \in Backup, Drop(b) \/ Repeat(b) PROVE FInv'
  BY <1>2, <1>6 DEF Drop, Repeat, nodeVars, faultVars
<1>7. ASSUME NEW n \in Node, BeginCrash(n) PROVE FInv'
  <2>1. /\ up' = [up EXCEPT ![n] = FALSE] /\ errors' = errors
        /\ running' \in {running, [running EXCEPT ![n] = FALSE]}
    BY <1>7 DEF BeginCrash, Crash, nodeVars
  <2>2. Fallen' \subseteq Fallen
    BY <1>1, <2>1 DEF Fallen, NodeTypes
  <2> QED BY <2>1, <2>2, NoneFalls
<1>8. ASSUME NEW n \in Node, EndCrash(n) PROVE FInv'
  <2>1. /\ up' = [up EXCEPT ![n] = TRUE] /\ errors' = errors
        /\ running' = [running EXCEPT ![n] = TRUE]
    BY <1>8 DEF EndCrash, Restart, faultVars
  <2>2. Fallen' \subseteq Fallen
    BY <1>1, <2>1 DEF Fallen, NodeTypes
  <2> QED BY <2>1, <2>2, NoneFalls
<1>9. CASE UNCHANGED vars
  BY <1>2, <1>9 DEF vars, nodeVars, faultVars
<1> QED BY <1>4, <1>5, <1>6, <1>7, <1>8, <1>9 DEF Next

(* Whom the verdict does not know to be dead (naive/replicator.py), a      *)
(* failed write has killed since its last outage: a quiet world lacks no   *)
(* more nodes than there were failed writes, and the others hold what      *)
(* their logs say.                                                         *)
THEOREM QuietWorldIsWhole == Spec => []QuietIsWhole
<1>1. NInv /\ FInv => QuietIsWhole
  <2> SUFFICES ASSUME NInv, FInv, Quiescent
               PROVE  /\ Cardinality({n \in Node : ~running[n]}) <= errors
                      /\ \A n \in Node : running[n] => kv[n] = Replay(log[n])
    BY DEF QuietIsWhole
  <2>1. {n \in Node : ~running[n]} = Fallen
    BY DEF Quiescent, Fallen
  <2> QED BY <2>1 DEF FInv, NInv, NodesOK, Built
<1> QED BY <1>1, NInvAlways, FInvInit, FInvStep, PTL DEF Spec
=============================================================================
