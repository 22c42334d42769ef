-------------------------- MODULE GameLogTailProofs --------------------------
(***************************************************************************)
(* GameLogTail.tla for logs and slices of any size: every byte appended to *)
(* the log is read once, in order; a call that ends at a line's end gives  *)
(* the parser the log's lines.                                             *)
(***************************************************************************)
EXTENDS GameLogTail, FiniteSetTheorems, WellFoundedInduction, TLAPS

-----------------------------------------------------------------------------
(* Sequences *)

Bytes == Seq(Byte)

LEMMA SliceOfAny ==
  ASSUME NEW A, NEW s \in Seq(A), NEW a \in 1..(Len(s) + 1), NEW b \in (a - 1)..Len(s)
  PROVE  /\ SubSeq(s, a, b) \in Seq(A) /\ Len(SubSeq(s, a, b)) = b - a + 1
         /\ \A i \in 1..(b - a + 1) : SubSeq(s, a, b)[i] = s[a + i - 1]
<1>1. Len(s) \in Nat /\ \A i \in a..b : s[i] \in A
  OBVIOUS
<1>2. SubSeq(s, a, b) = [i \in 1..(b - a + 1) |-> s[a + i - 1]]
  BY <1>1
<1>3. SubSeq(s, a, b) \in Seq(A) /\ Len(SubSeq(s, a, b)) = b - a + 1
  BY <1>1
<1> QED BY <1>2, <1>3

LEMMA Slice ==
  ASSUME NEW s \in Bytes, NEW a \in 1..(Len(s) + 1), NEW b \in (a - 1)..Len(s)
  PROVE  /\ SubSeq(s, a, b) \in Bytes /\ Len(SubSeq(s, a, b)) = b - a + 1
         /\ \A i \in 1..(b - a + 1) : SubSeq(s, a, b)[i] = s[a + i - 1]
BY SliceOfAny DEF Bytes

LEMMA SameOfAny ==
  ASSUME NEW A, NEW s \in Seq(A), NEW t \in Seq(A), NEW n \in Nat, Len(s) = n, Len(t) = n,
         \A i \in 1..n : s[i] = t[i]
  PROVE  s = t
<1>1. s = [i \in 1..n |-> s[i]]
  OBVIOUS
<1>2. t = [i \in 1..n |-> t[i]]
  OBVIOUS
<1> QED BY <1>1, <1>2

LEMMA SameSequence ==
  ASSUME NEW s \in Bytes, NEW t \in Bytes, NEW n \in Nat, Len(s) = n, Len(t) = n,
         \A i \in 1..n : s[i] = t[i]
  PROVE  s = t
BY SameOfAny DEF Bytes

LEMMA Concatenated ==
  ASSUME NEW s \in Bytes, NEW t \in Bytes
  PROVE  /\ s \o t \in Bytes /\ Len(s \o t) = Len(s) + Len(t)
         /\ \A i \in 1..(Len(s) + Len(t)) :
              (s \o t)[i] = IF i <= Len(s) THEN s[i] ELSE t[i - Len(s)]
BY DEF Bytes

(* Two slices, the second from where the first ends. *)
LEMMA SlicesMeet ==
  ASSUME NEW s \in Bytes, NEW a \in Nat, NEW b \in Nat, NEW c \in Nat,
         a <= b, b <= c, c <= Len(s)
  PROVE  SubSeq(s, a + 1, b) \o SubSeq(s, b + 1, c) = SubSeq(s, a + 1, c)
<1> DEFINE x == SubSeq(s, a + 1, b)
           y == SubSeq(s, b + 1, c)
           z == SubSeq(s, a + 1, c)
<1>1. Len(s) \in Nat
  BY DEF Bytes
<1>2. /\ x \in Bytes /\ Len(x) = b - a /\ \A i \in 1..(b - a) : x[i] = s[a + i]
      /\ y \in Bytes /\ Len(y) = c - b /\ \A i \in 1..(c - b) : y[i] = s[b + i]
      /\ z \in Bytes /\ Len(z) = c - a /\ \A i \in 1..(c - a) : z[i] = s[a + i]
  BY <1>1, Slice
<1> HIDE DEF x, y, z
<1>3. x \o y \in Bytes /\ Len(x \o y) = c - a
  BY <1>2 DEF Bytes
<1>4. ASSUME NEW i \in 1..(c - a) PROVE (x \o y)[i] = z[i]
  <2>1. CASE i <= b - a
    <3>1. i \in 1..(b - a) /\ (x \o y)[i] = x[i]
      BY <1>2, <2>1 DEF Bytes
    <3> QED BY <1>2, <3>1
  <2>2. CASE ~ (i <= b - a)
    <3>0. i - (b - a) \in 1..(c - b) /\ i \in 1..(Len(x) + Len(y)) /\ i > Len(x)
      BY <1>2, <2>2
    <3>1. (x \o y)[i] = y[i - (b - a)]
      <4>1. (x \o y)[i] = y[i - Len(x)]
        <5>1. \A j \in 1..(Len(x) + Len(y)) :
                 (x \o y)[j] = IF j <= Len(x) THEN x[j] ELSE y[j - Len(x)]
          BY <1>2, Concatenated
        <5>2. ~ (i <= Len(x))
          BY <1>2, <2>2
        <5> QED BY <3>0, <5>1, <5>2
      <4> QED BY <1>2, <4>1
    <3>2. y[i - (b - a)] = s[b + (i - (b - a))] /\ b + (i - (b - a)) = a + i
      BY <1>2, <3>0
    <3> QED BY <1>2, <3>1, <3>2
  <2> QED BY <2>1, <2>2
<1>5. x \o y = z
  <2> DEFINE w == x \o y
  <2>1. w \in Bytes /\ Len(w) = c - a /\ \A i \in 1..(c - a) : w[i] = z[i]
    BY <1>3, <1>4
  <2>2. c - a \in Nat
    OBVIOUS
  <2> HIDE DEF w
  <2>3. w = z
    BY <1>2, <2>1, <2>2, SameSequence
  <2> QED BY <2>3 DEF w
<1> QED BY <1>5 DEF x, y, z

(* What is appended is not in an earlier slice. *)
LEMMA SliceOfAppended ==
  ASSUME NEW s \in Bytes, NEW e \in Byte, NEW a \in Nat, NEW b \in Nat, a <= b, b <= Len(s)
  PROVE  SubSeq(Append(s, e), a + 1, b) = SubSeq(s, a + 1, b)
<1> DEFINE t == Append(s, e)
<1>1. /\ t \in Bytes /\ Len(t) = Len(s) + 1 /\ Len(s) \in Nat
      /\ \A i \in 1..Len(s) : t[i] = s[i]
  BY DEF Bytes
<1> HIDE DEF t
<1> DEFINE x == SubSeq(t, a + 1, b)
           y == SubSeq(s, a + 1, b)
<1>2. /\ a + 1 \in 1..(Len(t) + 1) /\ b \in a..Len(t)
      /\ a + 1 \in 1..(Len(s) + 1) /\ b \in a..Len(s)
      /\ b - (a + 1) + 1 = b - a /\ (a + 1) - 1 = a
      /\ \A i \in 1..(b - a) : (a + 1) + i - 1 = a + i
  BY <1>1
<1>3. x \in Bytes /\ Len(x) = b - a /\ \A i \in 1..(b - a) : x[i] = t[a + i]
  BY <1>1, <1>2, Slice
<1>4. y \in Bytes /\ Len(y) = b - a /\ \A i \in 1..(b - a) : y[i] = s[a + i]
  BY <1>1, <1>2, Slice
<1> HIDE DEF x, y
<1>5. ASSUME NEW i \in 1..(b - a) PROVE x[i] = y[i]
  <2>1. a + i \in 1..Len(s)
    BY <1>1
  <2> QED BY <1>1, <1>3, <1>4, <2>1
<1>6. x = y
  BY <1>3, <1>4, <1>5, SameSequence
<1> QED BY <1>6 DEF x, y, t

-----------------------------------------------------------------------------
(* Counting in a set of numbers *)

(* A nonempty set of numbers has a least one. *)
LEMMA LeastNumber ==
  ASSUME NEW S, S \subseteq Nat, S # {}
  PROVE  \E n \in S : \A m \in S : n <= m
<1>1. \E n \in S : \A m \in S : ~ (<<m, n>> \in OpToRel(<, Nat))
  BY NatLessThanWellFounded, WFMin
<1>2. PICK n \in S : \A m \in S : ~ (<<m, n>> \in OpToRel(<, Nat))
  BY <1>1
<1>3. ASSUME NEW m \in S PROVE n <= m
  <2>1. <<m, n>> \in Nat \X Nat
    OBVIOUS
  <2>2. <<m, n>>[1] < <<m, n>>[2] => <<m, n>> \in OpToRel(<, Nat)
    BY <2>1 DEF OpToRel
  <2>3. ~ (m < n)
    BY <1>2, <2>2
  <2> QED BY <2>3
<1> QED BY <1>3

Upper(S, n) == S \subseteq 1..n

UpTo(S, i) == S \cap 1..i

Rank(S, i) == Cardinality(UpTo(S, i))

LEMMA RankSteps ==
  ASSUME NEW n \in Nat, NEW S, Upper(S, n), NEW i \in Nat
  PROVE  /\ IsFiniteSet(S) /\ Cardinality(S) \in Nat
         /\ Rank(S, i) \in Nat /\ Rank(S, i) <= Cardinality(S)
         /\ Rank(S, 0) = 0
         /\ Rank(S, i + 1) = IF i + 1 \in S THEN Rank(S, i) + 1 ELSE Rank(S, i)
         /\ i >= n => Rank(S, i) = Cardinality(S)
<1>1. IsFiniteSet(S) /\ Cardinality(S) \in Nat
  <2>1. IsFiniteSet(1..n)
    BY FS_Interval
  <2> QED BY <2>1, FS_Subset, FS_CardinalityType DEF Upper
<1>2. IsFiniteSet(UpTo(S, i)) /\ Rank(S, i) \in Nat /\ Rank(S, i) <= Cardinality(S)
  BY <1>1, FS_Subset, FS_CardinalityType DEF UpTo, Rank
<1>3. Rank(S, 0) = 0
  <2>1. UpTo(S, 0) = {}
    BY DEF UpTo
  <2> QED BY <2>1, FS_EmptySet DEF Rank
<1>4. Rank(S, i + 1) = IF i + 1 \in S THEN Rank(S, i) + 1 ELSE Rank(S, i)
  <2>1. CASE i + 1 \in S
    <3>1. UpTo(S, i + 1) = UpTo(S, i) \cup {i + 1} /\ i + 1 \notin UpTo(S, i)
      BY <2>1 DEF UpTo
    <3> QED BY <1>2, <2>1, <3>1, FS_AddElement DEF Rank
  <2>2. CASE i + 1 \notin S
    <3>1. UpTo(S, i + 1) = UpTo(S, i)
      BY <2>2 DEF UpTo
    <3> QED BY <2>2, <3>1 DEF Rank
  <2> QED BY <2>1, <2>2
<1>5. i >= n => Rank(S, i) = Cardinality(S)
  <2>1. ASSUME i >= n, NEW x \in S PROVE x \in 1..i
    BY <2>1 DEF Upper
  <2>2. i >= n => UpTo(S, i) = S
    BY <2>1 DEF UpTo
  <2> QED BY <2>2 DEF Rank
<1> QED BY <1>1, <1>2, <1>3, <1>4, <1>5

LEMMA RankGrows ==
  ASSUME NEW n \in Nat, NEW S, Upper(S, n), NEW i \in Nat, NEW j \in S, i < j
  PROVE  Rank(S, i) < Rank(S, j)
<1>0. j \in 1..n
  BY DEF Upper
<1>1. IsFiniteSet(UpTo(S, i)) /\ IsFiniteSet(UpTo(S, j))
  BY RankSteps, FS_Subset DEF UpTo
<1>2. j \notin UpTo(S, i) /\ UpTo(S, i) \cup {j} \subseteq UpTo(S, j)
  BY <1>0 DEF UpTo
<1>3. Cardinality(UpTo(S, i) \cup {j}) = Cardinality(UpTo(S, i)) + 1
  BY <1>1, <1>2, FS_AddElement
<1>4. Cardinality(UpTo(S, i) \cup {j}) <= Cardinality(UpTo(S, j))
  BY <1>1, <1>2, FS_Subset
<1>5. Rank(S, i) \in Nat /\ Rank(S, j) \in Nat
  BY <1>0, RankSteps
<1> QED BY <1>3, <1>4, <1>5 DEF Rank

(* There is a k-th smallest number, and only one. *)
LEMMA NthIs ==
  ASSUME NEW n \in Nat, NEW S, Upper(S, n), NEW k \in 1..Cardinality(S)
  PROVE  /\ Nth(S, k) \in S /\ Rank(S, Nth(S, k)) = k
         /\ \A i \in S : Rank(S, i) = k => i = Nth(S, k)
<1>1. \A i \in Nat :
        /\ Rank(S, i) \in Nat
        /\ Rank(S, i + 1) = IF i + 1 \in S THEN Rank(S, i) + 1 ELSE Rank(S, i)
  BY RankSteps
<1>2. Rank(S, 0) = 0 /\ Rank(S, n) = Cardinality(S) /\ Cardinality(S) \in Nat
  BY RankSteps
<1>3. \E i \in S : Rank(S, i) = k
  <2> DEFINE Enough == {i \in Nat : Rank(S, i) >= k}
  <2>1. n \in Enough
    BY <1>2
  <2>2. PICK m \in Enough : \A i \in Enough : m <= i
    BY <2>1, LeastNumber
  <2>3. m # 0
    BY <1>2, <2>2
  <2>4. m - 1 \in Nat /\ (m - 1) + 1 = m /\ m - 1 \notin Enough
    BY <2>2, <2>3
  <2>5. ~ (Rank(S, m - 1) >= k) /\ Rank(S, m - 1) \in Nat
    BY <1>1, <2>4
  <2>6. Rank(S, m) = IF m \in S THEN Rank(S, m - 1) + 1 ELSE Rank(S, m - 1)
    BY <1>1, <2>4
  <2>7. Rank(S, m) >= k
    BY <2>2
  <2>8. m \in S /\ Rank(S, m) = k
    BY <2>5, <2>6, <2>7
  <2> QED BY <2>8
<1>4. Nth(S, k) = CHOOSE i \in S : Rank(S, i) = k
  <2>1. ASSUME NEW i \in S, NEW j \in S PROVE j <= i <=> j \in 1..i
    BY DEF Upper
  <2>2. ASSUME NEW i \in S PROVE {j \in S : j <= i} = UpTo(S, i)
    BY <2>1, <2>2 DEF UpTo
  <2> QED BY <2>2, Zenon DEF Nth, Rank
<1>5. Nth(S, k) \in S /\ Rank(S, Nth(S, k)) = k
  BY <1>3, <1>4
<1>6. ASSUME NEW i \in S, NEW j \in S, Rank(S, i) = k, Rank(S, j) = k PROVE i = j
  <2>1. ~ (i < j) /\ ~ (j < i)
    <3>1. i \in 1..n /\ j \in 1..n
      BY DEF Upper
    <3>2. i < j => Rank(S, i) < Rank(S, j)
      BY <3>1, RankGrows
    <3>3. j < i => Rank(S, j) < Rank(S, i)
      BY <3>1, RankGrows
    <3> QED BY <1>6, <3>2, <3>3
  <2>2. i \in Int /\ j \in Int
    BY DEF Upper
  <2> QED BY <2>1, <2>2
<1> QED BY <1>5, <1>6

(* U: the numbers of S above t, as seen from t. *)
Seen(U, S, t) == \A i \in Nat \ {0} : i \in U <=> t + i \in S

LEMMA SeenFrom ==
  ASSUME NEW n \in Nat, NEW S, Upper(S, n), NEW t \in Nat, NEW m \in Nat,
         NEW U, Upper(U, m), Seen(U, S, t)
  PROVE  /\ Cardinality(S) = Rank(S, t) + Cardinality(U)
         /\ \A k \in 1..Cardinality(U) : Nth(S, Rank(S, t) + k) = t + Nth(U, k)
<1> DEFINE Wrong == {i \in Nat : Rank(S, t + i) # Rank(S, t) + Rank(U, i)}
<1>1. ASSUME NEW i \in Nat
      PROVE  /\ Rank(S, t + i) \in Nat /\ Rank(U, i) \in Nat
             /\ Rank(S, (t + i) + 1) = IF (t + i) + 1 \in S THEN Rank(S, t + i) + 1 ELSE Rank(S, t + i)
             /\ Rank(U, i + 1) = IF i + 1 \in U THEN Rank(U, i) + 1 ELSE Rank(U, i)
  BY RankSteps
<1>2. /\ Rank(U, 0) = 0 /\ Rank(S, t) \in Nat
      /\ Cardinality(S) \in Nat /\ Cardinality(U) \in Nat
  BY RankSteps
<1>3. Wrong = {}
  <2> SUFFICES ASSUME Wrong # {} PROVE FALSE
    OBVIOUS
  <2>1. PICK i \in Wrong : \A j \in Wrong : i <= j
    BY LeastNumber
  <2>2. i # 0
    BY <1>2, <2>1
  <2>3. i - 1 \in Nat /\ i - 1 \notin Wrong /\ (i - 1) + 1 = i /\ (t + (i - 1)) + 1 = t + i
    BY <2>1, <2>2
  <2>4. Rank(S, t + (i - 1)) = Rank(S, t) + Rank(U, i - 1)
    BY <2>3
  <2>5. i \in U <=> t + i \in S
    BY <2>1, <2>2 DEF Seen
  <2>6. /\ Rank(S, t + (i - 1)) \in Nat /\ Rank(U, i - 1) \in Nat
        /\ Rank(S, t + i) = IF t + i \in S THEN Rank(S, t + (i - 1)) + 1 ELSE Rank(S, t + (i - 1))
        /\ Rank(U, i) = IF i \in U THEN Rank(U, i - 1) + 1 ELSE Rank(U, i - 1)
    BY <1>1, <2>3
  <2>7. Rank(S, t + i) = Rank(S, t) + Rank(U, i)
    BY <1>2, <2>4, <2>5, <2>6
  <2> QED BY <2>1, <2>7
<1>4. \A i \in Nat : Rank(S, t + i) = Rank(S, t) + Rank(U, i)
  BY <1>3
<1>5. Cardinality(S) = Rank(S, t) + Cardinality(U)
  <2>1. Rank(S, t + (n + m)) = Cardinality(S) /\ Rank(U, n + m) = Cardinality(U)
    BY RankSteps
  <2> QED BY <1>4, <2>1
<1>6. ASSUME NEW k \in 1..Cardinality(U)
      PROVE  Nth(S, Rank(S, t) + k) = t + Nth(U, k)
  <2>1. Nth(U, k) \in U /\ Rank(U, Nth(U, k)) = k
    BY NthIs
  <2>2. Nth(U, k) \in Nat \ {0}
    <3>1. Nth(U, k) \in 1..m
      BY <2>1 DEF Upper
    <3> QED BY <3>1
  <2>3. t + Nth(U, k) \in S /\ Rank(S, t + Nth(U, k)) = Rank(S, t) + k
    <3>1. t + Nth(U, k) \in S
      BY <2>1, <2>2 DEF Seen
    <3> QED BY <1>4, <2>1, <2>2, <3>1
  <2>4. Rank(S, t) + k \in 1..Cardinality(S)
    BY <1>2, <1>5
  <2> QED BY <2>3, <2>4, NthIs
<1> QED BY <1>5, <1>6

(* The greatest of them is the last. *)
LEMMA GreatestIsLast ==
  ASSUME NEW n \in Nat, NEW S, Upper(S, n), S # {}
  PROVE  /\ Max(S) \in S /\ \A i \in S : i <= Max(S)
         /\ Cardinality(S) \in Nat \ {0} /\ Nth(S, Cardinality(S)) = Max(S)
<1> DEFINE c == Cardinality(S)
<1>1. IsFiniteSet(S) /\ c \in Nat \ {0}
  BY RankSteps, FS_EmptySet
<1>2. Nth(S, c) \in S /\ Rank(S, Nth(S, c)) = c
  BY <1>1, NthIs
<1>3. ASSUME NEW i \in S PROVE Nth(S, c) >= i
  <2>0. i \in 1..n /\ Nth(S, c) \in 1..n
    BY <1>2 DEF Upper
  <2>1. Nth(S, c) < i => Rank(S, Nth(S, c)) < Rank(S, i)
    BY <1>2, <2>0, RankGrows
  <2>2. Rank(S, i) \in Nat /\ Rank(S, i) <= c
    BY <2>0, RankSteps
  <2> QED BY <1>1, <1>2, <2>0, <2>1, <2>2
<1>4. Max(S) = Nth(S, c)
  <2>1. Max(S) \in S /\ \A i \in S : Max(S) >= i
    BY <1>2, <1>3 DEF Max
  <2>2. Max(S) \in 1..n /\ Nth(S, c) \in 1..n
    BY <1>2, <2>1 DEF Upper
  <2> QED BY <1>2, <1>3, <2>1, <2>2
<1> QED BY <1>1, <1>2, <1>3, <1>4

LEMMA NthGrows ==
  ASSUME NEW n \in Nat, NEW S, Upper(S, n),
         NEW k \in 1..Cardinality(S), NEW l \in 1..Cardinality(S), k < l
  PROVE  Nth(S, k) \in 1..n /\ Nth(S, l) \in 1..n /\ Nth(S, k) < Nth(S, l)
<1>1. /\ Nth(S, k) \in S /\ Rank(S, Nth(S, k)) = k
      /\ Nth(S, l) \in S /\ Rank(S, Nth(S, l)) = l
  BY NthIs
<1>2. Nth(S, k) \in 1..n /\ Nth(S, l) \in 1..n
  BY <1>1 DEF Upper
<1>3. Nth(S, l) < Nth(S, k) => Rank(S, Nth(S, l)) < Rank(S, Nth(S, k))
  BY <1>1, <1>2, RankGrows
<1>4. Cardinality(S) \in Nat
  BY RankSteps
<1> QED BY <1>1, <1>2, <1>3, <1>4

-----------------------------------------------------------------------------
(* Slices of Go *)

SliceType(s) == s \in [arr : Bytes, len : Nat] /\ s.len <= Len(s.arr)

LEMMA RoundedUp ==
  ASSUME NEW n \in Nat
  PROVE  RoundUp(n) \in Nat /\ RoundUp(n) >= n
<1> DEFINE q == (n + Unit - 1) \div Unit
<1>1. Unit \in Nat \ {0}
  BY TailAssumption
<1>2. q \in Nat /\ q * Unit <= n + Unit - 1 /\ n + Unit - 1 < q * Unit + Unit
  BY <1>1
<1> HIDE DEF q
<1>3. q * Unit \in Nat
  BY <1>1, <1>2
<1> QED BY <1>1, <1>2, <1>3 DEF RoundUp, q

LEMMA ContentType ==
  ASSUME NEW s, SliceType(s)
  PROVE  /\ Content(s) \in Bytes /\ Len(Content(s)) = s.len
         /\ \A i \in 1..s.len : Content(s)[i] = s.arr[i]
<1>1. /\ s.arr \in Bytes /\ s.len \in Nat /\ s.len <= Len(s.arr) /\ Len(s.arr) \in Nat
  BY DEF SliceType, Bytes
<1>2. 1 \in 1..(Len(s.arr) + 1) /\ s.len \in (1 - 1)..Len(s.arr) /\ s.len - 1 + 1 = s.len
  BY <1>1
<1>3. /\ SubSeq(s.arr, 1, s.len) \in Bytes /\ Len(SubSeq(s.arr, 1, s.len)) = s.len
      /\ \A i \in 1..s.len : SubSeq(s.arr, 1, s.len)[i] = s.arr[1 + i - 1]
  BY <1>1, <1>2, Slice
<1>4. \A i \in 1..s.len : 1 + i - 1 = i
  BY <1>1
<1> QED BY <1>3, <1>4 DEF Content

(* append, in place or not, appends; nothing appended changes nothing. *)
LEMMA Appended ==
  ASSUME NEW s, SliceType(s), NEW b \in Bytes
  PROVE  /\ SliceType(GoAppend(s, b))
         /\ Content(GoAppend(s, b)) = Content(s) \o b
         /\ b = <<>> => GoAppend(s, b).arr = s.arr
<1> DEFINE n   == s.len + Len(b)
           new == Content(s) \o b
           cap == IF Fits(s, b) THEN Len(s.arr) ELSE RoundUp(Larger(n, 2 * Len(s.arr)))
           arr == [i \in 1..cap |-> IF i <= n THEN new[i]
                                    ELSE IF i <= Len(s.arr) THEN s.arr[i] ELSE NL]
           g   == GoAppend(s, b)
<1>1. /\ s.arr \in Bytes /\ s.len \in Nat /\ s.len <= Len(s.arr)
      /\ Len(s.arr) \in Nat /\ Len(b) \in Nat
  BY DEF SliceType, Bytes
<1>2. new \in Bytes /\ Len(new) = n /\ \A i \in 1..s.len : new[i] = s.arr[i]
  <2>1. /\ Content(s) \in Bytes /\ Len(Content(s)) = s.len
        /\ \A i \in 1..s.len : Content(s)[i] = s.arr[i]
    BY ContentType
  <2>2. /\ new \in Bytes /\ Len(new) = Len(Content(s)) + Len(b)
        /\ \A i \in 1..(Len(Content(s)) + Len(b)) :
             new[i] = IF i <= Len(Content(s)) THEN Content(s)[i] ELSE b[i - Len(Content(s))]
    BY <2>1, Concatenated
  <2>3. \A i \in 1..s.len : i \in 1..(Len(Content(s)) + Len(b)) /\ i <= Len(Content(s))
    BY <1>1, <2>1
  <2> QED BY <2>1, <2>2, <2>3
<1>3. cap \in Nat /\ n <= cap
  <2>1. CASE Fits(s, b)
    BY <1>1, <2>1 DEF Fits
  <2>2. CASE ~ Fits(s, b)
    <3>1. Larger(n, 2 * Len(s.arr)) \in Nat /\ Larger(n, 2 * Len(s.arr)) >= n
      BY <1>1 DEF Larger
    <3>2. /\ RoundUp(Larger(n, 2 * Len(s.arr))) \in Nat
          /\ RoundUp(Larger(n, 2 * Len(s.arr))) >= Larger(n, 2 * Len(s.arr))
      BY <3>1, RoundedUp
    <3> QED BY <1>1, <2>2, <3>1, <3>2
  <2> QED BY <2>1, <2>2
<1>4. g = [arr |-> arr, len |-> n]
  BY DEF GoAppend
<1>5. NL \in Byte
  BY DEF Byte
<1> HIDE DEF cap, new
<1>6. ASSUME NEW i \in 1..cap
      PROVE  (IF i <= n THEN new[i] ELSE IF i <= Len(s.arr) THEN s.arr[i] ELSE NL) \in Byte
  <2>1. CASE i <= n
    BY <1>1, <1>2, <1>3, <2>1 DEF Bytes
  <2>2. CASE ~ (i <= n) /\ i <= Len(s.arr)
    BY <1>1, <1>3, <2>2 DEF Bytes
  <2>3. CASE ~ (i <= n) /\ ~ (i <= Len(s.arr))
    BY <1>5, <2>3
  <2> QED BY <2>1, <2>2, <2>3
<1>7. arr \in Bytes /\ Len(arr) = cap
  <2>1. arr \in [1..cap -> Byte]
    BY <1>6
  <2> HIDE DEF arr
  <2> QED BY <1>3, <2>1 DEF Bytes
<1>8. \A i \in 1..cap : arr[i] = IF i <= n THEN new[i]
                                 ELSE IF i <= Len(s.arr) THEN s.arr[i] ELSE NL
  OBVIOUS
<1> HIDE DEF arr
<1>9. g.arr = arr /\ g.len = n /\ SliceType(g)
  BY <1>1, <1>3, <1>4, <1>7 DEF SliceType
<1> HIDE DEF g
<1>10. Content(g) = new
  <2>1. Content(g) \in Bytes /\ Len(Content(g)) = n /\ \A i \in 1..n : Content(g)[i] = arr[i]
    BY <1>9, ContentType
  <2>2. ASSUME NEW i \in 1..n PROVE Content(g)[i] = new[i]
    <3>1. i \in 1..cap /\ i <= n
      BY <1>1, <1>3
    <3> QED BY <1>8, <2>1, <3>1
  <2>3. n \in Nat
    BY <1>1
  <2> QED BY <1>2, <2>1, <2>2, <2>3, SameSequence
<1>11. b = <<>> => arr = s.arr
  <2> SUFFICES ASSUME b = <<>> PROVE arr = s.arr
    OBVIOUS
  <2>1. n = s.len
    BY <1>1
  <2>2. cap = Len(s.arr)
    BY <1>1, <2>1 DEF cap, Fits
  <2>3. ASSUME NEW i \in 1..cap PROVE arr[i] = s.arr[i]
    <3>1. CASE i <= n
      <4>1. i \in 1..s.len
        BY <1>1, <2>1, <3>1
      <4> QED BY <1>2, <1>8, <3>1, <4>1
    <3>2. CASE ~ (i <= n)
      <4>1. i <= Len(s.arr)
        BY <2>2
      <4> QED BY <1>8, <3>2, <4>1
    <3> QED BY <3>1, <3>2
  <2> QED BY <1>1, <1>3, <1>7, <2>2, <2>3, SameSequence
<1> QED BY <1>9, <1>10, <1>11 DEF g, new

-----------------------------------------------------------------------------
(* Lines *)

LEMMA SliceOfSlice ==
  ASSUME NEW s \in Bytes, NEW t \in Nat, NEW m \in Nat, t <= m, m <= Len(s),
         NEW a \in Nat \ {0}, NEW b \in Nat, a <= b + 1, b <= m - t
  PROVE  SubSeq(SubSeq(s, t + 1, m), a, b) = SubSeq(s, t + a, t + b)
<1> DEFINE w == SubSeq(s, t + 1, m)
<1>1. Len(s) \in Nat
  BY DEF Bytes
<1>2. t + 1 \in 1..(Len(s) + 1) /\ m \in ((t + 1) - 1)..Len(s)
  BY <1>1
<1>3. w \in Bytes /\ Len(w) = m - (t + 1) + 1 /\ \A i \in 1..(m - (t + 1) + 1) : w[i] = s[(t + 1) + i - 1]
  BY <1>2, Slice
<1> HIDE DEF w
<1>4. Len(w) = m - t /\ \A i \in 1..(m - t) : w[i] = s[t + i]
  <2>1. m - (t + 1) + 1 = m - t /\ \A i \in 1..(m - t) : (t + 1) + i - 1 = t + i
    OBVIOUS
  <2> QED BY <1>3, <2>1
<1> DEFINE x == SubSeq(w, a, b)
           y == SubSeq(s, t + a, t + b)
<1>5. /\ a \in 1..(Len(w) + 1) /\ b \in (a - 1)..Len(w)
      /\ t + a \in 1..(Len(s) + 1) /\ t + b \in ((t + a) - 1)..Len(s)
      /\ (t + b) - (t + a) + 1 = b - a + 1
  BY <1>1, <1>4
<1>6. x \in Bytes /\ Len(x) = b - a + 1 /\ \A i \in 1..(b - a + 1) : x[i] = w[a + i - 1]
  BY <1>3, <1>5, Slice
<1>7. y \in Bytes /\ Len(y) = b - a + 1 /\ \A i \in 1..(b - a + 1) : y[i] = s[(t + a) + i - 1]
  BY <1>5, Slice
<1> HIDE DEF x, y
<1>8. ASSUME NEW i \in 1..(b - a + 1) PROVE x[i] = y[i]
  <2>1. a + i - 1 \in 1..(m - t) /\ t + (a + i - 1) = (t + a) + i - 1
    OBVIOUS
  <2>2. w[a + i - 1] = s[t + (a + i - 1)]
    BY <1>4, <2>1
  <2> QED BY <1>6, <1>7, <2>1, <2>2
<1>9. x = y
  <2>1. b - a + 1 \in Nat
    OBVIOUS
  <2> QED BY <1>6, <1>7, <1>8, <2>1, SameSequence
<1> QED BY <1>9 DEF x, y, w

Begin(S, k) == IF k = 1 THEN 1 ELSE Nth(S, k - 1) + 1

LEMMA LinesAre ==
  ASSUME NEW b, NEW t
  PROVE  LinesIn(b, t) = [k \in 1..Cardinality(Newlines(b)) |->
                            SubSeq(t, Begin(Newlines(b), k), Nth(Newlines(b), k) - 1)]
BY DEF LinesIn, Begin

(* Where a line lies. *)
LEMMA LineRange ==
  ASSUME NEW n \in Nat, NEW S, Upper(S, n), NEW k \in 1..Cardinality(S)
  PROVE  /\ Begin(S, k) \in Nat \ {0} /\ Nth(S, k) \in Nat
         /\ Begin(S, k) <= Nth(S, k) /\ Nth(S, k) <= n
<1>1. Nth(S, k) \in 1..n
  BY NthIs DEF Upper
<1>2. CASE k = 1
  BY <1>1, <1>2 DEF Begin
<1>3. CASE k # 1
  <2>1. Cardinality(S) \in Nat
    BY RankSteps
  <2>2. k - 1 \in 1..Cardinality(S) /\ k - 1 < k
    BY <1>3, <2>1
  <2>3. Nth(S, k - 1) \in 1..n /\ Nth(S, k - 1) < Nth(S, k)
    BY <2>2, NthGrows
  <2> QED BY <1>1, <1>3, <2>3 DEF Begin
<1> QED BY <1>2, <1>3

LEMMA NewlinesUpper ==
  ASSUME NEW b \in Bytes
  PROVE  Upper(Newlines(b), Len(b)) /\ Len(b) \in Nat /\ Cardinality(Newlines(b)) \in Nat
<1>1. Upper(Newlines(b), Len(b)) /\ Len(b) \in Nat
  BY DEF Newlines, Upper, Bytes
<1> QED BY <1>1, RankSteps

(* Only the text up to the last newline matters. *)
LEMMA LinesOfPrefix ==
  ASSUME NEW s \in Bytes, NEW n \in Nat, n <= Len(s)
  PROVE  LinesIn(SubSeq(s, 1, n), s) = LinesIn(SubSeq(s, 1, n), SubSeq(s, 1, n))
<1> DEFINE w == SubSeq(s, 1, n)
           S == Newlines(w)
<1>1. Len(s) \in Nat
  BY DEF Bytes
<1>2. 1 \in 1..(Len(s) + 1) /\ n \in (1 - 1)..Len(s) /\ n - 1 + 1 = n
  BY <1>1
<1>3. w \in Bytes /\ Len(w) = n
  BY <1>2, Slice
<1>4. Upper(S, n)
  BY <1>3, NewlinesUpper
<1>5. ASSUME NEW k \in 1..Cardinality(S)
      PROVE  SubSeq(s, Begin(S, k), Nth(S, k) - 1) = SubSeq(w, Begin(S, k), Nth(S, k) - 1)
  <2> DEFINE a == Begin(S, k)
             b == Nth(S, k) - 1
  <2>1. a \in Nat \ {0} /\ b \in Nat /\ a <= b + 1 /\ b <= n - 0
    BY <1>4, LineRange
  <2> HIDE DEF a, b
  <2>2. SubSeq(SubSeq(s, 0 + 1, n), a, b) = SubSeq(s, 0 + a, 0 + b)
    BY <2>1, SliceOfSlice
  <2>3. 0 + 1 = 1 /\ 0 + a = a /\ 0 + b = b
    BY <2>1
  <2>4. SubSeq(w, a, b) = SubSeq(s, a, b)
    BY <2>2, <2>3
  <2> QED BY <2>4 DEF a, b
<1> HIDE DEF w
<1>6. LinesIn(w, s) = LinesIn(w, w)
  BY <1>5, LinesAre
<1> QED BY <1>6 DEF w

(* Where the unfinished line begins. *)
LEMMA TailPlace ==
  ASSUME NEW b \in Bytes
  PROVE  /\ TailStart(b) - 1 \in Nat /\ TailStart(b) \in Nat \ {0} /\ TailStart(b) - 1 <= Len(b)
         /\ Newlines(b) = {} => TailStart(b) = 1
         /\ Newlines(b) # {} => /\ TailStart(b) - 1 = Max(Newlines(b))
                                /\ TailStart(b) - 1 \in Newlines(b)
         /\ \A i \in Newlines(b) : i <= TailStart(b) - 1
<1>1. Upper(Newlines(b), Len(b)) /\ Len(b) \in Nat
  BY NewlinesUpper
<1>2. CASE Newlines(b) = {}
  BY <1>1, <1>2 DEF TailStart
<1>3. CASE Newlines(b) # {}
  <2>1. Max(Newlines(b)) \in Newlines(b) /\ \A i \in Newlines(b) : i <= Max(Newlines(b))
    BY <1>1, <1>3, GreatestIsLast
  <2>2. Max(Newlines(b)) \in 1..Len(b)
    BY <1>1, <2>1 DEF Upper
  <2>3. TailStart(b) = Max(Newlines(b)) + 1
    BY <1>3 DEF TailStart
  <2>4. TailStart(b) - 1 = Max(Newlines(b))
    BY <2>2, <2>3
  <2> QED BY <1>1, <1>3, <2>1, <2>2, <2>3, <2>4
<1> QED BY <1>2, <1>3

LEMMA LinesType ==
  ASSUME NEW b \in Bytes
  PROVE  LinesIn(b, b) \in Seq(Bytes) /\ Len(LinesIn(b, b)) = Cardinality(Newlines(b))
<1> DEFINE S == Newlines(b)
           L == LinesIn(b, b)
<1>1. Upper(S, Len(b)) /\ Len(b) \in Nat /\ Cardinality(S) \in Nat
  BY NewlinesUpper
<1>2. ASSUME NEW k \in 1..Cardinality(S)
      PROVE  SubSeq(b, Begin(S, k), Nth(S, k) - 1) \in Bytes
  <2>1. /\ Begin(S, k) \in Nat \ {0} /\ Nth(S, k) \in Nat
        /\ Begin(S, k) <= Nth(S, k) /\ Nth(S, k) <= Len(b)
    BY <1>1, LineRange
  <2>2. Begin(S, k) \in 1..(Len(b) + 1) /\ Nth(S, k) - 1 \in (Begin(S, k) - 1)..Len(b)
    BY <1>1, <2>1
  <2> QED BY <2>2, Slice
<1>3. L = [k \in 1..Cardinality(S) |-> SubSeq(b, Begin(S, k), Nth(S, k) - 1)]
  BY LinesAre
<1> HIDE DEF S
<1>4. L \in [1..Cardinality(S) -> Bytes]
  BY <1>2, <1>3
<1> HIDE DEF L
<1>5. L \in Seq(Bytes) /\ Len(L) = Cardinality(S)
  BY <1>1, <1>4
<1> QED BY <1>5 DEF L, S

(* What is read of `d`, if `c` was read before: its unfinished line goes   *)
(* in front of `g`, the rest.                                              *)
LEMMA RestOfLog ==
  ASSUME NEW c \in Bytes, NEW g \in Bytes
  PROVE  /\ c \o g \in Bytes /\ Len(c \o g) = Len(c) + Len(g)
         /\ TailOf(c) \o g = SubSeq(c \o g, (TailStart(c) - 1) + 1, Len(c \o g))
         /\ SubSeq(c \o g, 1, Len(c)) = c
<1> DEFINE d == c \o g
           t == TailStart(c) - 1
           x == TailOf(c)
           w == x \o g
           y == SubSeq(d, t + 1, Len(d))
<1>1. Len(c) \in Nat /\ Len(g) \in Nat
  BY DEF Bytes
<1>2. /\ d \in Bytes /\ Len(d) = Len(c) + Len(g)
      /\ \A i \in 1..(Len(c) + Len(g)) : d[i] = IF i <= Len(c) THEN c[i] ELSE g[i - Len(c)]
  BY Concatenated
<1>3. t \in Nat /\ t <= Len(c) /\ t + 1 = TailStart(c)
  BY TailPlace
<1> HIDE DEF d, t
<1>4. /\ x \in Bytes /\ Len(x) = Len(c) - t
      /\ \A i \in 1..(Len(c) - t) : x[i] = c[t + i]
  <2>1. t + 1 \in 1..(Len(c) + 1) /\ Len(c) \in ((t + 1) - 1)..Len(c)
        /\ Len(c) - (t + 1) + 1 = Len(c) - t
        /\ \A i \in 1..(Len(c) - t) : (t + 1) + i - 1 = t + i
    BY <1>1, <1>3
  <2>2. x = SubSeq(c, t + 1, Len(c))
    BY <1>3 DEF TailOf
  <2> HIDE DEF x
  <2> QED BY <2>1, <2>2, Slice
<1> HIDE DEF x
<1>5. /\ w \in Bytes /\ Len(w) = Len(x) + Len(g)
      /\ \A i \in 1..(Len(x) + Len(g)) : w[i] = IF i <= Len(x) THEN x[i] ELSE g[i - Len(x)]
  BY <1>4, Concatenated
<1>6. y \in Bytes /\ Len(y) = Len(d) - t /\ \A i \in 1..(Len(d) - t) : y[i] = d[t + i]
  <2>1. t + 1 \in 1..(Len(d) + 1) /\ Len(d) \in ((t + 1) - 1)..Len(d)
        /\ Len(d) - (t + 1) + 1 = Len(d) - t
        /\ \A i \in 1..(Len(d) - t) : (t + 1) + i - 1 = t + i
    BY <1>1, <1>2, <1>3
  <2> QED BY <1>2, <2>1, Slice
<1> HIDE DEF w, y
<1>7. ASSUME NEW i \in 1..(Len(d) - t) PROVE w[i] = y[i]
  <2>1. /\ t + i \in 1..(Len(c) + Len(g)) /\ i \in 1..(Len(x) + Len(g))
        /\ t + i <= Len(c) <=> i <= Len(x)
        /\ (t + i) - Len(c) = i - Len(x)
        /\ i <= Len(x) => i \in 1..(Len(c) - t)
    BY <1>1, <1>2, <1>3, <1>4
  <2>2. y[i] = IF i <= Len(x) THEN c[t + i] ELSE g[i - Len(x)]
    BY <1>2, <1>6, <2>1
  <2>3. w[i] = IF i <= Len(x) THEN c[t + i] ELSE g[i - Len(x)]
    BY <1>4, <1>5, <2>1
  <2> QED BY <2>2, <2>3
<1>8. w = y
  <2>1. Len(w) = Len(d) - t /\ Len(d) - t \in Nat
    BY <1>1, <1>2, <1>3, <1>4, <1>5
  <2> QED BY <1>5, <1>6, <1>7, <2>1, SameSequence
<1>9. SubSeq(d, 1, Len(c)) = c
  <2> DEFINE z == SubSeq(d, 1, Len(c))
  <2>1. 1 \in 1..(Len(d) + 1) /\ Len(c) \in (1 - 1)..Len(d) /\ Len(c) - 1 + 1 = Len(c)
        /\ \A i \in 1..Len(c) : 1 + i - 1 = i
    BY <1>1, <1>2
  <2>2. z \in Bytes /\ Len(z) = Len(c) /\ \A i \in 1..Len(c) : z[i] = d[i]
    BY <1>2, <2>1, Slice
  <2> HIDE DEF z
  <2>3. ASSUME NEW i \in 1..Len(c) PROVE z[i] = c[i]
    <3>1. i \in 1..(Len(c) + Len(g)) /\ i <= Len(c)
      BY <1>1
    <3> QED BY <1>2, <2>2, <3>1
  <2>4. z = c
    BY <1>1, <2>2, <2>3, SameSequence
  <2> QED BY <2>4 DEF z
<1> QED BY <1>2, <1>8, <1>9 DEF d, t, x, w, y

(* Of the bytes d, c followed by g, the rest w begins after place t, the   *)
(* last newline of c.                                                      *)
Rest(c, g, d, w, t) == d = c \o g /\ w = TailOf(c) \o g /\ t = TailStart(c) - 1

Divided(c, d, w, t) ==
  /\ d \in Bytes /\ w \in Bytes /\ t \in Nat /\ t <= Len(d)
  /\ w = SubSeq(d, t + 1, Len(d)) /\ Len(w) = Len(d) - t
  /\ Upper(Newlines(d), Len(d)) /\ Upper(Newlines(w), Len(w))
  /\ Seen(Newlines(w), Newlines(d), t)
  /\ Rank(Newlines(d), t) = Cardinality(Newlines(c))
  /\ t # 0 => t \in Newlines(d)
  /\ t = 0 => Newlines(c) = {}

LEMMA NewlinesOfRest ==
  ASSUME NEW c \in Bytes, NEW g \in Bytes, NEW d, NEW w, NEW t, Rest(c, g, d, w, t)
  PROVE  Divided(c, d, w, t)
<1>0. d = c \o g /\ w = TailOf(c) \o g /\ t = TailStart(c) - 1
  BY DEF Rest
<1>1. Len(c) \in Nat /\ Len(g) \in Nat
  BY DEF Bytes
<1>2. /\ d \in Bytes /\ Len(d) = Len(c) + Len(g) /\ w = SubSeq(d, t + 1, Len(d))
      /\ t \in Nat /\ t <= Len(c)
  BY <1>0, RestOfLog, TailPlace
<1>3. t + 1 \in 1..(Len(d) + 1) /\ Len(d) \in ((t + 1) - 1)..Len(d)
      /\ Len(d) - (t + 1) + 1 = Len(d) - t
      /\ \A i \in 1..(Len(d) - t) : (t + 1) + i - 1 = t + i
  BY <1>1, <1>2
<1>4. w \in Bytes /\ Len(w) = Len(d) - t /\ \A i \in 1..(Len(d) - t) : w[i] = d[t + i]
  <2> DEFINE v == SubSeq(d, t + 1, Len(d))
  <2>1. d \in Bytes
    BY <1>2
  <2>2. /\ v \in Bytes /\ Len(v) = Len(d) - (t + 1) + 1
        /\ \A i \in 1..(Len(d) - (t + 1) + 1) : v[i] = d[(t + 1) + i - 1]
    BY <1>3, <2>1, Slice
  <2>3. w = v
    BY <1>2
  <2> HIDE DEF v
  <2>4. v \in Bytes /\ Len(v) = Len(d) - t /\ \A i \in 1..(Len(d) - t) : v[i] = d[t + i]
    BY <1>3, <2>2
  <2> QED BY <2>3, <2>4
<1>5. Upper(Newlines(d), Len(d)) /\ Upper(Newlines(w), Len(w)) /\ Upper(Newlines(c), Len(c))
  BY <1>2, <1>4, NewlinesUpper
<1>6. Seen(Newlines(w), Newlines(d), t)
  <2> SUFFICES ASSUME NEW i \in Nat \ {0}
               PROVE  i \in Newlines(w) <=> t + i \in Newlines(d)
    BY DEF Seen
  <2>1. i \in 1..Len(w) <=> t + i \in 1..Len(d)
    BY <1>1, <1>2, <1>4
  <2>2. i \in 1..Len(w) => w[i] = d[t + i]
    BY <1>4
  <2> QED BY <2>1, <2>2 DEF Newlines
<1>7. \A i \in 1..Len(c) : i \in 1..Len(d) /\ d[i] = c[i]
  <2>1. /\ \A i \in 1..(Len(c) + Len(g)) : d[i] = IF i <= Len(c) THEN c[i] ELSE g[i - Len(c)]
    BY <1>0, Concatenated
  <2> QED BY <1>1, <1>2, <2>1
<1>8. UpTo(Newlines(d), t) = Newlines(c)
  <2>1. ASSUME NEW i \in UpTo(Newlines(d), t) PROVE i \in Newlines(c)
    <3>1. i \in Newlines(d) /\ i \in 1..t
      BY <2>1 DEF UpTo
    <3>2. i \in 1..Len(c)
      BY <1>1, <1>2, <3>1
    <3> QED BY <1>7, <3>1, <3>2 DEF Newlines
  <2>2. ASSUME NEW i \in Newlines(c) PROVE i \in UpTo(Newlines(d), t)
    <3>1. i \in 1..Len(c) /\ c[i] = NL
      BY <2>2 DEF Newlines
    <3>2. i \in Newlines(d)
      BY <1>7, <3>1 DEF Newlines
    <3>3. i \in 1..t
      BY <1>0, <1>2, <2>2, <3>1, TailPlace
    <3> QED BY <3>2, <3>3 DEF UpTo
  <2> QED BY <2>1, <2>2
<1>9. t # 0 => t \in Newlines(d)
  <2> SUFFICES ASSUME t # 0 PROVE t \in Newlines(d)
    OBVIOUS
  <2>1. Newlines(c) # {}
    BY <1>0, TailPlace
  <2>2. t \in Newlines(c)
    BY <1>0, <2>1, TailPlace
  <2> QED BY <1>7, <2>2 DEF Newlines
<1>10. t = 0 => Newlines(c) = {}
  <2> SUFFICES ASSUME t = 0, Newlines(c) # {} PROVE FALSE
    OBVIOUS
  <2>1. 0 \in Newlines(c)
    BY <1>0, TailPlace
  <2> QED BY <1>1, <2>1 DEF Newlines
<1>11. t <= Len(d)
  BY <1>1, <1>2
<1>12. Rank(Newlines(d), t) = Cardinality(Newlines(c))
  BY <1>8 DEF Rank
<1> QED BY <1>2, <1>4, <1>5, <1>6, <1>9, <1>10, <1>11, <1>12 DEF Divided

LEMMA TailOfRest ==
  ASSUME NEW c \in Bytes, NEW g \in Bytes
  PROVE  TailOf(TailOf(c) \o g) = TailOf(c \o g)
<1> DEFINE d == c \o g
           w == TailOf(c) \o g
           t == TailStart(c) - 1
           S == Newlines(d)
           U == Newlines(w)
<1>0. Rest(c, g, d, w, t)
  BY DEF Rest
<1> HIDE DEF d, w, t
<1>1. /\ d \in Bytes /\ w \in Bytes /\ t \in Nat /\ t <= Len(d)
      /\ w = SubSeq(d, t + 1, Len(d)) /\ Len(w) = Len(d) - t
      /\ Upper(S, Len(d)) /\ Upper(U, Len(w))
      /\ Seen(U, S, t)
      /\ Rank(S, t) = Cardinality(Newlines(c))
      /\ t # 0 => t \in S
      /\ t = 0 => Newlines(c) = {}
  BY <1>0, NewlinesOfRest DEF Divided
<1>2. Len(d) \in Nat /\ Len(w) \in Nat /\ Cardinality(S) \in Nat /\ Cardinality(U) \in Nat
  BY <1>1, NewlinesUpper
<1>3. /\ Cardinality(S) = Rank(S, t) + Cardinality(U)
      /\ \A k \in 1..Cardinality(U) : Nth(S, Rank(S, t) + k) = t + Nth(U, k)
  BY <1>1, <1>2, SeenFrom
<1>4. Rank(S, t) \in Nat
  BY <1>1, <1>2, RankSteps
<1>5. TailStart(d) = t + TailStart(w)
  <2>1. CASE U # {}
    <3>1. Max(U) = Nth(U, Cardinality(U)) /\ Max(U) \in 1..Len(w) /\ Cardinality(U) \in Nat \ {0}
      <4>1. Max(U) = Nth(U, Cardinality(U)) /\ Max(U) \in U /\ Cardinality(U) \in Nat \ {0}
        BY <1>1, <1>2, <2>1, GreatestIsLast
      <4> QED BY <1>1, <4>1 DEF Upper
    <3>2. S # {}
      <4>1. Max(U) \in U
        BY <1>1, <1>2, <2>1, GreatestIsLast
      <4>2. Max(U) \in Nat \ {0}
        BY <3>1
      <4> QED BY <1>1, <4>1, <4>2 DEF Seen
    <3>3. Max(S) = Nth(S, Cardinality(S))
      BY <1>1, <1>2, <3>2, GreatestIsLast
    <3>4. Max(S) = t + Max(U)
      BY <1>3, <3>1, <3>3
    <3>5. TailStart(d) = Max(S) + 1 /\ TailStart(w) = Max(U) + 1
      BY <2>1, <3>2 DEF TailStart
    <3> QED BY <1>1, <3>1, <3>4, <3>5
  <2>2. CASE U = {}
    <3>1. Cardinality(U) = 0 /\ TailStart(w) = 1
      BY <2>2, FS_EmptySet DEF TailStart
    <3>2. CASE t = 0
      <4>1. Cardinality(S) = 0
        <5>1. Rank(S, t) = 0
          BY <1>1, <3>2, FS_EmptySet
        <5> QED BY <1>3, <3>1, <5>1
      <4>2. S = {}
        <5>1. S # {} => Cardinality(S) \in Nat \ {0}
          BY <1>1, <1>2, GreatestIsLast
        <5> QED BY <4>1, <5>1
      <4> QED BY <3>1, <3>2, <4>2 DEF TailStart
    <3>3. CASE t # 0
      <4>1. t \in S
        BY <1>1, <3>3
      <4>2. Cardinality(S) = Rank(S, t) /\ Cardinality(S) \in 1..Cardinality(S)
        <5>1. Cardinality(S) \in Nat \ {0}
          BY <1>1, <1>2, <4>1, GreatestIsLast
        <5> QED BY <1>3, <1>4, <3>1, <5>1
      <4>3. t = Nth(S, Cardinality(S))
        BY <1>1, <1>2, <4>1, <4>2, NthIs
      <4>4. Max(S) = t
        BY <1>1, <1>2, <4>1, <4>3, GreatestIsLast
      <4> QED BY <3>1, <4>1, <4>4 DEF TailStart
    <3> QED BY <3>2, <3>3
  <2> QED BY <2>1, <2>2
<1>6. SubSeq(w, TailStart(w), Len(w)) = SubSeq(d, t + TailStart(w), t + Len(w))
  <2>1. /\ TailStart(w) \in Nat \ {0} /\ TailStart(w) <= Len(w) + 1
    <3>1. TailStart(w) \in Nat \ {0} /\ TailStart(w) - 1 <= Len(w)
      BY <1>1, TailPlace
    <3> QED BY <1>2, <3>1
  <2>2. /\ d \in Bytes /\ t \in Nat /\ t <= Len(d) /\ Len(d) <= Len(d)
        /\ Len(d) \in Nat /\ Len(w) \in Nat /\ Len(w) <= Len(d) - t
    BY <1>1, <1>2
  <2> DEFINE a == TailStart(w)
             b == Len(w)
             m == Len(d)
  <2>3. /\ a \in Nat \ {0} /\ b \in Nat /\ a <= b + 1 /\ b <= m - t
        /\ m \in Nat /\ m <= Len(d) /\ t <= m /\ d \in Bytes /\ t \in Nat
    BY <2>1, <2>2
  <2>4. w = SubSeq(d, t + 1, m)
    BY <1>1
  <2> HIDE DEF a, b, m
  <2>5. SubSeq(SubSeq(d, t + 1, m), a, b) = SubSeq(d, t + a, t + b)
    BY <2>3, SliceOfSlice
  <2>6. SubSeq(w, a, b) = SubSeq(d, t + a, t + b)
    BY <2>4, <2>5
  <2> QED BY <2>6 DEF a, b
<1>7. t + Len(w) = Len(d)
  BY <1>1, <1>2
<1>8. TailOf(w) = TailOf(d)
  BY <1>5, <1>6, <1>7 DEF TailOf
<1> QED BY <1>8 DEF d, w

LEMMA LinesOfRest ==
  ASSUME NEW c \in Bytes, NEW g \in Bytes, NEW d, NEW w,
         Rest(c, g, d, w, TailStart(c) - 1)
  PROVE  LinesIn(w, w)
           = SubSeq(LinesIn(d, d), Cardinality(Newlines(c)) + 1, Cardinality(Newlines(d)))
<1> DEFINE t == TailStart(c) - 1
           S == Newlines(d)
           U == Newlines(w)
           K == Cardinality(Newlines(c))
           M == Cardinality(U)
           L == LinesIn(d, d)
           R == SubSeq(L, K + 1, Cardinality(S))
<1>0. t = TailStart(c) - 1 /\ Divided(c, d, w, t)
  BY NewlinesOfRest
<1> HIDE DEF t
<1>1. /\ d \in Bytes /\ w \in Bytes /\ t \in Nat /\ t <= Len(d)
      /\ w = SubSeq(d, t + 1, Len(d)) /\ Len(w) = Len(d) - t
      /\ Upper(S, Len(d)) /\ Upper(U, Len(w))
      /\ Seen(U, S, t)
      /\ Rank(S, t) = K
      /\ t # 0 => t \in S
      /\ t = 0 => Newlines(c) = {}
  BY <1>0 DEF Divided
<1>2. Len(d) \in Nat /\ Len(w) \in Nat /\ Cardinality(S) \in Nat /\ M \in Nat /\ K \in Nat
  BY <1>1, NewlinesUpper
<1>3. /\ Cardinality(S) = K + M
      /\ \A k \in 1..M : Nth(S, K + k) = t + Nth(U, k)
  BY <1>1, <1>2, SeenFrom
<1>4. L \in Seq(Bytes) /\ Len(L) = Cardinality(S)
  BY <1>1, LinesType
<1>5. L = [k \in 1..Cardinality(S) |-> SubSeq(d, Begin(S, k), Nth(S, k) - 1)]
  BY LinesAre
<1>6. R \in Seq(Bytes) /\ Len(R) = M /\ \A k \in 1..M : R[k] = L[K + k]
  <2> HIDE DEF L, M, K, S
  <2>1. /\ K + 1 \in 1..(Len(L) + 1) /\ Cardinality(S) \in ((K + 1) - 1)..Len(L)
        /\ Cardinality(S) - (K + 1) + 1 = M
        /\ \A k \in 1..M : (K + 1) + k - 1 = K + k
    BY <1>2, <1>3, <1>4
  <2> QED BY <1>4, <2>1, SliceOfAny
<1>7. ASSUME NEW k \in 1..M
      PROVE  SubSeq(w, Begin(U, k), Nth(U, k) - 1) = SubSeq(d, Begin(S, K + k), Nth(S, K + k) - 1)
  <2>1. /\ Begin(U, k) \in Nat \ {0} /\ Nth(U, k) \in Nat
        /\ Begin(U, k) <= Nth(U, k) /\ Nth(U, k) <= Len(w)
    BY <1>1, <1>2, LineRange
  <2>2. Nth(S, K + k) = t + Nth(U, k)
    BY <1>3
  <2>3. Begin(S, K + k) = t + Begin(U, k)
    <3>1. CASE k # 1
      <4>1. k - 1 \in 1..M /\ K + k # 1 /\ (K + k) - 1 = K + (k - 1)
        BY <1>2, <3>1
      <4>2. Nth(S, (K + k) - 1) = t + Nth(U, k - 1)
        BY <1>3, <4>1
      <4>3. Nth(U, k - 1) \in 1..Len(w)
        BY <1>1, <1>2, <4>1, NthIs DEF Upper
      <4>4. Begin(S, K + k) = Nth(S, (K + k) - 1) + 1 /\ Begin(U, k) = Nth(U, k - 1) + 1
        BY <3>1, <4>1 DEF Begin
      <4> QED BY <1>1, <4>2, <4>3, <4>4
    <3>2. CASE k = 1 /\ t = 0
      <4>1. K = 0
        BY <1>1, <3>2, FS_EmptySet
      <4> QED BY <3>2, <4>1 DEF Begin
    <3>3. CASE k = 1 /\ t # 0
      <4>1. t \in S
        BY <1>1, <3>3
      <4>2. K # 0
        <5>1. Newlines(c) # {}
          BY <1>0, <3>3, TailPlace
        <5>2. Upper(Newlines(c), Len(c)) /\ Len(c) \in Nat
          BY NewlinesUpper
        <5> QED BY <5>1, <5>2, GreatestIsLast
      <4>3. K \in 1..Cardinality(S)
        BY <1>2, <1>3, <4>2
      <4>4. t = Nth(S, K)
        BY <1>1, <1>2, <4>1, <4>3, NthIs
      <4>5. K + k # 1 /\ (K + k) - 1 = K
        BY <1>2, <3>3, <4>2
      <4> QED BY <3>3, <4>4, <4>5 DEF Begin
    <3> QED BY <3>1, <3>2, <3>3
  <2> DEFINE a == Begin(U, k)
             b == Nth(U, k) - 1
  <2>4. /\ a \in Nat \ {0} /\ b \in Nat /\ a <= b + 1 /\ b <= Len(d) - t
        /\ Len(d) <= Len(d) /\ d \in Bytes /\ t \in Nat /\ t <= Len(d) /\ Len(d) \in Nat
    <3>1. Len(w) = Len(d) - t /\ d \in Bytes /\ t \in Nat /\ t <= Len(d)
      BY <1>1
    <3> HIDE DEF S, U
    <3> QED BY <1>2, <2>1, <3>1
  <2>5. t + b = Nth(S, K + k) - 1
    BY <1>1, <2>1, <2>2
  <2> HIDE DEF a, b
  <2>6. SubSeq(SubSeq(d, t + 1, Len(d)), a, b) = SubSeq(d, t + a, t + b)
    BY <2>4, SliceOfSlice
  <2>7. SubSeq(w, a, b) = SubSeq(d, t + a, t + b)
    BY <1>1, <2>6
  <2> QED BY <2>3, <2>5, <2>7 DEF a, b
<1>8. ASSUME NEW k \in 1..M PROVE LinesIn(w, w)[k] = R[k]
  <2>1. K + k \in 1..Cardinality(S)
    BY <1>2, <1>3
  <2>2. L[K + k] = SubSeq(d, Begin(S, K + k), Nth(S, K + k) - 1)
    BY <1>5, <2>1
  <2>3. LinesIn(w, w)[k] = SubSeq(w, Begin(U, k), Nth(U, k) - 1)
    BY LinesAre
  <2> HIDE DEF L, R, S, U, M, K
  <2> QED BY <1>6, <1>7, <2>2, <2>3
<1>9. LinesIn(w, w) \in Seq(Bytes) /\ Len(LinesIn(w, w)) = M
  BY <1>1, LinesType
<1> DEFINE V == LinesIn(w, w)
<1> HIDE DEF R, M, V, L, S, U, K
<1>10. V = R
  <2>1. V \in Seq(Bytes) /\ Len(V) = M /\ \A k \in 1..M : V[k] = R[k]
    BY <1>8, <1>9 DEF V
  <2> QED BY <1>2, <1>6, <2>1, SameOfAny
<1> QED BY <1>10 DEF R, V, L, S, K

-----------------------------------------------------------------------------
(* The inductive invariant: until the game truncates the log, the reader   *)
(* stays within it, also between the look at its size and the read.        *)

Types ==
  /\ file \in Bytes /\ truncations \in Nat
  /\ offset \in Nat /\ start \in Nat /\ want \in Nat \cup {None}

Within ==
  truncations = 0 =>
    /\ start <= offset /\ offset <= Len(file)
    /\ want # None => offset + want <= Len(file)

IInv == Types /\ Within /\ ReadsTheLog

LEMMA InitInv == Init => IInv
<1> SUFFICES ASSUME Init PROVE IInv
  OBVIOUS
<1>1. file \in Bytes /\ Len(file) \in Nat
  <2>1. <<>> \in Bytes /\ Len(<<>>) \in Nat
    BY DEF Bytes
  <2>2. "x" \in Byte
    BY DEF Byte
  <2>3. <<"x">> \in Bytes /\ Len(<<"x">>) \in Nat
    BY <2>2 DEF Bytes
  <2> QED BY <2>1, <2>3 DEF Init
<1>2. Types
  BY <1>1 DEF Init, Types, None
<1>3. Within
  BY <1>1 DEF Init, Within
<1>4. SubSeq(file, Len(file) + 1, Len(file)) = <<>>
  BY <1>1 DEF Bytes
<1>5. ReadsTheLog
  BY <1>4 DEF Init, ReadsTheLog
<1> QED BY <1>2, <1>3, <1>5 DEF IInv

LEMMA StepInv == IInv /\ [Next]_vars => IInv'
<1> SUFFICES ASSUME IInv, [Next]_vars PROVE IInv'
  OBVIOUS
<1>0. /\ Types /\ Within /\ ReadsTheLog
      /\ file \in Bytes /\ Len(file) \in Nat
  BY DEF IInv, Types, Bytes
<1>1. CASE Stat
  <2> DEFINE truncated == Len(file) < offset
  <2>1. /\ want' = IF truncated THEN Len(file) ELSE Len(file) - offset
        /\ offset' = IF truncated THEN 0 ELSE offset
        /\ start' = IF truncated THEN 0 ELSE start
        /\ consumed' = IF truncated THEN <<>> ELSE consumed
        /\ UNCHANGED <<file, truncations>>
    BY <1>1 DEF Stat
  <2>2. Types'
    BY <1>0, <2>1 DEF Types
  <2>3. truncations = 0 => ~ truncated
    BY <1>0 DEF Within, Types
  <2>4. Within'
    BY <1>0, <2>1, <2>3 DEF Within, Types
  <2>5. ReadsTheLog'
    BY <1>0, <2>1, <2>3 DEF ReadsTheLog
  <2> QED BY <2>2, <2>4, <2>5 DEF IInv
<1>2. CASE Read
  <2> DEFINE end == IF offset + want <= Len(file) THEN offset + want ELSE Len(file)
             got == SubSeq(file, offset + 1, end)
  <2>1. /\ want # None /\ want' = None /\ UNCHANGED <<file, truncations, start>>
        /\ \/ UNCHANGED <<offset, consumed>>
           \/ offset' = offset + Len(got) /\ consumed' = consumed \o got
    BY <1>2 DEF Read, Advance
  <2>2. Len(got) \in Nat
    BY <1>0 DEF Types, Bytes
  <2>3. Types'
    BY <1>0, <2>1, <2>2 DEF Types
  <2>4. ASSUME truncations = 0, offset' = offset + Len(got), consumed' = consumed \o got
        PROVE  Within' /\ ReadsTheLog'
    <3>1. /\ start <= offset /\ offset <= end /\ end <= Len(file)
          /\ offset \in Nat /\ start \in Nat /\ end \in Nat
      BY <1>0, <2>1, <2>4 DEF Within, Types
    <3> HIDE DEF end
    <3>2. Len(got) = end - offset
      BY <1>0, <3>1, Slice
    <3>3. consumed = SubSeq(file, start + 1, offset)
      BY <1>0, <2>4 DEF ReadsTheLog
    <3>4. consumed \o got = SubSeq(file, start + 1, end)
      BY <1>0, <3>1, <3>3, SlicesMeet
    <3> HIDE DEF got
    <3>5. offset' = end
      BY <2>4, <3>1, <3>2
    <3> QED BY <2>1, <2>4, <3>1, <3>4, <3>5 DEF Within, ReadsTheLog
  <2>5. ASSUME UNCHANGED <<offset, consumed>> PROVE Within' /\ ReadsTheLog'
    BY <1>0, <2>1, <2>5 DEF Within, ReadsTheLog
  <2>6. truncations # 0 => Within' /\ ReadsTheLog'
    BY <2>1 DEF Within, ReadsTheLog
  <2> QED BY <2>1, <2>3, <2>4, <2>5, <2>6 DEF IInv
<1>3. ASSUME NEW b \in Byte, Write(b) PROVE IInv'
  <2>1. file' = Append(file, b) /\ UNCHANGED <<truncations, offset, want, start, consumed>>
    BY <1>3 DEF Write
  <2>2. file' \in Bytes /\ Len(file') = Len(file) + 1
    BY <1>0, <2>1 DEF Bytes
  <2>3. Types' /\ Within'
    BY <1>0, <2>1, <2>2 DEF Types, Within
  <2>4. ReadsTheLog'
    <3> SUFFICES ASSUME truncations = 0 PROVE consumed = SubSeq(file', start + 1, offset)
      BY <2>1 DEF ReadsTheLog
    <3>1. consumed = SubSeq(file, start + 1, offset)
      BY <1>0 DEF ReadsTheLog
    <3>2. SubSeq(file', start + 1, offset) = SubSeq(file, start + 1, offset)
      BY <1>0, <2>1, SliceOfAppended DEF Within, Types
    <3> QED BY <3>1, <3>2
  <2> QED BY <2>3, <2>4 DEF IInv
<1>4. CASE Truncate
  <2>1. truncations' \in Nat /\ truncations' # 0 /\ file' = <<>>
        /\ UNCHANGED <<offset, want, start>>
    BY <1>0, <1>4 DEF Truncate, Types
  <2>2. Types'
    BY <1>0, <2>1 DEF Types, Bytes
  <2>3. Within' /\ ReadsTheLog'
    BY <2>1 DEF Within, ReadsTheLog
  <2> QED BY <2>2, <2>3 DEF IInv
<1>5. CASE UNCHANGED vars
  BY <1>0, <1>5 DEF vars, IInv, Types, Within, ReadsTheLog
<1> QED BY <1>1, <1>2, <1>3, <1>4, <1>5 DEF Next

(* The invariant the theorem below rests on. *)
THEOREM InvariantHolds == Spec => []IInv
<1>1. Init => IInv
  BY InitInv
<1>2. IInv /\ [Next]_vars => IInv'
  BY StepInv
<1> QED BY <1>1, <1>2, PTL DEF Spec

(* live.go, offset and ReadAt: while the game only appends, every byte     *)
(* written after OpenLive is read once and in order, also when it is       *)
(* written between the look at the size and the read.                      *)
THEOREM EveryByteIsRead == Spec => []ReadsTheLog
<1>1. IInv => ReadsTheLog
  BY DEF IInv
<1> QED BY <1>1, InvariantHolds, PTL

-----------------------------------------------------------------------------
(* The second inductive invariant: the carry's bytes are the unfinished    *)
(* line of what has been read, whichever array they are in.                *)

Carried ==
  /\ SliceType(carry) /\ consumed \in Bytes
  /\ Content(carry) = TailOf(consumed)

LInv == Carried /\ WholeLinesAreTheLogs

(* An empty slice of any array has no content; neither has the start of a  *)
(* log an unfinished line.                                                 *)
LEMMA Emptied ==
  /\ <<>> \in Bytes /\ TailOf(<<>>) = <<>>
  /\ \A a \in Bytes : SliceType([arr |-> a, len |-> 0]) /\ Content([arr |-> a, len |-> 0]) = <<>>
<1>1. <<>> \in Bytes /\ Len(<<>>) = 0
  BY DEF Bytes
<1>2. Newlines(<<>>) = {}
  BY <1>1 DEF Newlines
<1>3. TailOf(<<>>) = <<>>
  <2>1. TailStart(<<>>) = 1
    BY <1>2 DEF TailStart
  <2>2. SubSeq(<<>>, 1, 0) = <<>>
    OBVIOUS
  <2> QED BY <1>1, <2>1, <2>2 DEF TailOf
<1>4. ASSUME NEW a \in Bytes
      PROVE  SliceType([arr |-> a, len |-> 0]) /\ Content([arr |-> a, len |-> 0]) = <<>>
  <2> DEFINE s == [arr |-> a, len |-> 0]
  <2>1. s.arr = a /\ s.len = 0 /\ s \in [arr : Bytes, len : Nat]
    OBVIOUS
  <2>2. Len(a) \in Nat
    BY DEF Bytes
  <2> HIDE DEF s
  <2>3. SliceType(s)
    BY <2>1, <2>2 DEF SliceType
  <2>4. SubSeq(a, 1, 0) = <<>>
    BY <2>2 DEF Bytes
  <2>5. Content(s) = <<>>
    BY <2>1, <2>4 DEF Content
  <2> QED BY <2>3, <2>5 DEF s
<1> QED BY <1>1, <1>3, <1>4

LEMMA TailType ==
  ASSUME NEW b \in Bytes
  PROVE  TailOf(b) \in Bytes
<1>1. Len(b) \in Nat /\ TailStart(b) \in Nat \ {0} /\ TailStart(b) - 1 <= Len(b)
  BY TailPlace DEF Bytes
<1> DEFINE a == TailStart(b)
<1> HIDE DEF a
<1>2. a \in 1..(Len(b) + 1) /\ Len(b) \in (a - 1)..Len(b)
  BY <1>1 DEF a
<1>3. SubSeq(b, a, Len(b)) \in Bytes
  BY <1>2, Slice
<1> QED BY <1>3 DEF a, TailOf

(* What a read gets is bytes, however short the log has become.            *)
LEMMA GotBytes ==
  ASSUME NEW f \in Bytes, NEW o \in Nat, NEW e \in Nat, e <= Len(f)
  PROVE  SubSeq(f, o + 1, e) \in Bytes
<1>1. Len(f) \in Nat
  BY DEF Bytes
<1>2. CASE o <= e
  <2>1. o + 1 \in 1..(Len(f) + 1) /\ e \in ((o + 1) - 1)..Len(f)
    BY <1>1, <1>2
  <2> QED BY <2>1, Slice
<1>3. CASE e < o
  <2>1. SubSeq(f, o + 1, e) = <<>>
    BY <1>1, <1>3 DEF Bytes
  <2> QED BY <2>1, Emptied
<1> QED BY <1>2, <1>3

(* Split, given the bytes that follow those consumed.                      *)
LEMMA SplitCarries ==
  ASSUME NEW g \in Bytes, Carried, Split(g), consumed' = consumed \o g
  PROVE  /\ Carried'
         /\ carry'.len = 0 =>
              lines' = SubSeq(LinesIn(consumed', consumed'),
                              Cardinality(Newlines(consumed)) + 1,
                              Cardinality(Newlines(consumed')))
<1> DEFINE shared == Fits(carry, g)
           data   == GoAppend(carry, g)
           whole  == Content(data)
           base   == [arr |-> IF shared THEN data.arr ELSE carry.arr, len |-> 0]
           kept   == GoAppend(base, TailOf(whole))
<1>1. carry' = kept /\ lines' = LinesIn(whole, IF shared THEN kept.arr ELSE data.arr)
  BY DEF Split
<1>2. SliceType(carry) /\ consumed \in Bytes /\ Content(carry) = TailOf(consumed)
  BY DEF Carried
<1>3. SliceType(data) /\ whole = TailOf(consumed) \o g
  BY <1>2, Appended
<1>4. data.arr \in Bytes /\ data.len \in Nat /\ data.len <= Len(data.arr) /\ carry.arr \in Bytes
  BY <1>2, <1>3 DEF SliceType
<1>5. SliceType(base) /\ Content(base) = <<>>
  <2>1. (IF shared THEN data.arr ELSE carry.arr) \in Bytes
    BY <1>4
  <2> QED BY <2>1, Emptied
<1>6. whole \in Bytes /\ whole = SubSeq(data.arr, 1, data.len)
  BY <1>3, ContentType DEF Content
<1>7. TailOf(whole) = TailOf(consumed') /\ consumed' \in Bytes
  <2>1. TailOf(TailOf(consumed) \o g) = TailOf(consumed \o g) /\ consumed \o g \in Bytes
    BY <1>2, TailOfRest, RestOfLog
  <2> QED BY <1>3, <2>1
<1>8. TailOf(whole) \in Bytes
  BY <1>6, TailType
<1>9. SliceType(kept) /\ Content(kept) = TailOf(whole)
  <2>1. /\ SliceType(kept) /\ Content(kept) = Content(base) \o TailOf(whole)
    BY <1>5, <1>8, Appended
  <2>2. <<>> \o TailOf(whole) = TailOf(whole)
    BY <1>8 DEF Bytes
  <2> QED BY <1>5, <2>1, <2>2
<1>10. Carried'
  BY <1>1, <1>7, <1>9 DEF Carried, SliceType, Content
<1>11. ASSUME carry'.len = 0
       PROVE  lines' = LinesIn(whole, data.arr)
  <2>1. TailOf(whole) = <<>>
    <3>1. Len(TailOf(whole)) = 0
      BY <1>1, <1>9, <1>11, ContentType
    <3> QED BY <1>8, <3>1 DEF Bytes
  <2>2. kept.arr = base.arr
    BY <1>5, <1>8, <2>1, Appended
  <2>3. shared => kept.arr = data.arr
    BY <2>2
  <2> QED BY <1>1, <2>3
<1>12. LinesIn(whole, data.arr) = LinesIn(whole, whole)
  BY <1>4, <1>6, LinesOfPrefix
<1>13. LinesIn(whole, whole)
         = SubSeq(LinesIn(consumed', consumed'),
                  Cardinality(Newlines(consumed)) + 1, Cardinality(Newlines(consumed')))
  <2>1. Rest(consumed, g, consumed', whole, TailStart(consumed) - 1)
    BY <1>3 DEF Rest
  <2> QED BY <1>2, <2>1, LinesOfRest
<1> QED BY <1>10, <1>11, <1>12, <1>13

LEMMA InitLines == Init => LInv
<1> SUFFICES ASSUME Init PROVE LInv
  OBVIOUS
<1>1. carry = [arr |-> <<>>, len |-> 0] /\ consumed = <<>> /\ fresh = 0
  BY DEF Init, Nil
<1>2. Carried
  BY <1>1, Emptied DEF Carried
<1> QED BY <1>1, <1>2 DEF LInv, WholeLinesAreTheLogs

LEMMA StepLines == IInv /\ LInv /\ [Next]_vars => LInv'
<1> SUFFICES ASSUME IInv, LInv, [Next]_vars PROVE LInv'
  OBVIOUS
<1>0. Types /\ Carried /\ WholeLinesAreTheLogs
  BY DEF IInv, LInv
<1>1. CASE Stat
  <2>1. fresh' = 0
    BY <1>1 DEF Stat
  <2>2. \/ carry' = Nil /\ consumed' = <<>>
        \/ UNCHANGED <<carry, consumed>>
    BY <1>1 DEF Stat
  <2>3. CASE carry' = Nil /\ consumed' = <<>>
    <3>1. Carried'
      BY <2>3, Emptied DEF Nil, Carried, SliceType, Content
    <3> QED BY <2>1, <3>1 DEF LInv, WholeLinesAreTheLogs
  <2>4. CASE UNCHANGED <<carry, consumed>>
    <3>1. Carried'
      BY <1>0, <2>4 DEF Carried, SliceType, Content
    <3> QED BY <2>1, <3>1 DEF LInv, WholeLinesAreTheLogs
  <2> QED BY <2>2, <2>3, <2>4
<1>2. CASE Read
  <2> DEFINE end == IF offset + want <= Len(file) THEN offset + want ELSE Len(file)
             got == SubSeq(file, offset + 1, end)
  <2>1. want # None
        /\ \/ fresh' = 0 /\ UNCHANGED <<carry, consumed>>
           \/ Split(got) /\ consumed' = consumed \o got /\ fresh' = Len(got)
    BY <1>2 DEF Read
  <2>2. CASE fresh' = 0 /\ UNCHANGED <<carry, consumed>>
    <3>1. Carried'
      BY <1>0, <2>2 DEF Carried, SliceType, Content
    <3> QED BY <2>2, <3>1 DEF LInv, WholeLinesAreTheLogs
  <2>3. CASE Split(got) /\ consumed' = consumed \o got /\ fresh' = Len(got)
    <3>1. got \in Bytes
      <4>1. /\ file \in Bytes /\ Len(file) \in Nat /\ offset \in Nat /\ want \in Nat
        BY <1>0, <2>1 DEF Types, Bytes
      <4>2. end \in Nat /\ end <= Len(file)
        BY <4>1
      <4> HIDE DEF end
      <4> QED BY <4>1, <4>2, GotBytes
    <3> HIDE DEF got
    <3>2. /\ Carried'
          /\ carry'.len = 0 =>
               lines' = SubSeq(LinesIn(consumed', consumed'),
                               Cardinality(Newlines(consumed)) + 1,
                               Cardinality(Newlines(consumed')))
      BY <1>0, <2>3, <3>1, SplitCarries
    <3>3. SubSeq(consumed', 1, Len(consumed') - fresh') = consumed
      <4>1. consumed \in Bytes /\ Len(consumed) \in Nat /\ Len(got) \in Nat
        BY <1>0, <3>1 DEF Carried, Bytes
      <4>2. Len(consumed') = Len(consumed) + Len(got) /\ SubSeq(consumed', 1, Len(consumed)) = consumed
        BY <2>3, <3>1, <4>1, RestOfLog
      <4>3. Len(consumed') - fresh' = Len(consumed)
        BY <2>3, <4>1, <4>2
      <4> QED BY <4>2, <4>3
    <3>4. carry'.len = 0 => (lines = Completed)'
      BY <3>2, <3>3 DEF Completed
    <3> QED BY <3>2, <3>4 DEF LInv, WholeLinesAreTheLogs
  <2> QED BY <2>1, <2>2, <2>3
<1>3. CASE UNCHANGED <<carry, want, lines, consumed, fresh>>
  BY <1>0, <1>3 DEF LInv, Carried, WholeLinesAreTheLogs, SliceType, Content, Completed
<1>4. ASSUME NEW b \in Byte, Write(b) PROVE LInv'
  BY <1>3, <1>4 DEF Write
<1>5. CASE Truncate
  BY <1>3, <1>5 DEF Truncate
<1>6. CASE UNCHANGED vars
  BY <1>3, <1>6 DEF vars
<1> QED BY <1>1, <1>2, <1>4, <1>5, <1>6 DEF Next

(* live.go, carry and Split: a call that ends at a line's end has given    *)
(* the parser the log's lines, whole and in order, also those whose        *)
(* beginning was carried over from earlier calls.                          *)
THEOREM LinesAreGivenWhole == Spec => []WholeLinesAreTheLogs
<1>1. Init => LInv
  BY InitLines
<1>2. IInv /\ LInv /\ [Next]_vars => LInv'
  BY StepLines
<1>3. LInv => WholeLinesAreTheLogs
  BY DEF LInv
<1> QED BY <1>1, <1>2, <1>3, InvariantHolds, PTL DEF Spec
=============================================================================
