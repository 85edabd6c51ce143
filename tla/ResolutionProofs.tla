---------------------------- MODULE ResolutionProofs ----------------------------
(*****************************************************************************)
(* Which price a verdict rests on, and that it is the right one, for any     *)
(* feed, thresholds, ages, clock and number of digits.                       *)
(*                                                                           *)
(* The numbers come first: printing an integer with d decimals, padding and  *)
(* trimming it keeps its value, because every digit that is dropped is zero; *)
(* parseFloat keeps the order of numbers, and makes different ones equal     *)
(* only when they are less than a unit of the last digit apart.  The steps come after: FinishPrice         *)
(* compares the price's age with the clock of that moment, which is not      *)
(* before the deadline, and what was read then is followed to the verdict.   *)
(*****************************************************************************)
EXTENDS Resolution, Sums, SequenceTheorems

-----------------------------------------------------------------------------
(* Natural numbers *)

\* The law of the powers of ten, which the provers know for constants only: the
\* theorems that rest on it take it as a hypothesis.
PowersOfTen == \A k \in Nat : 10 ^ k \in Nat \ {0} /\ 10 ^ (k + 1) = 10 * 10 ^ k

LEMMA Least ==
    ASSUME NEW S \in SUBSET Nat, S # {}
    PROVE  \E m \in S : \A k \in S : m <= k
  <1>1. PICK b : b \in S
    OBVIOUS
  <1>2. PICK D : D = 0..b /\ IsFiniteSet(D)
    BY <1>1, FS_Interval
  <1>3. PICK F : F = {0..k : k \in {k \in S : k <= b}}
    OBVIOUS
  <1>4. PICK A \in F : \A B \in F : B \subseteq A => B = A
    <2>1. F \in SUBSET SUBSET D /\ F # {}
      BY <1>1, <1>2, <1>3
    <2>2. IsFiniteSet(D)
      BY <1>2
    <2> QED
      BY <2>1, <2>2, SmallestMember
  <1>5. PICK m \in S : m <= b /\ A = 0..m
    BY <1>3, <1>4
  <1>6. ASSUME NEW k \in S, k < m PROVE FALSE
    <2>1. 0..k \in F /\ 0..k \subseteq A
      BY <1>1, <1>3, <1>5, <1>6
    <2>2. m \in 0..k
      BY <1>4, <1>5, <2>1
    <2> QED
      BY <1>6, <2>2
  <1> QED
    BY <1>5, <1>6

\* Induction, for a set of numbers.
LEMMA AllNumbers ==
    ASSUME NEW S \in SUBSET Nat, 0 \in S, \A n \in S : n + 1 \in S
    PROVE  S = Nat
  <1> SUFFICES ASSUME Nat \ S # {} PROVE FALSE
    OBVIOUS
  <1>1. PICK m \in Nat \ S : \A k \in Nat \ S : m <= k
    BY Least
  <1>2. m - 1 \in Nat /\ m - 1 \notin Nat \ S
    BY <1>1
  <1> QED
    BY <1>1, <1>2

LEMMA PowerSum ==
    ASSUME PowersOfTen, NEW a \in Nat, NEW b \in Nat PROVE 10 ^ (a + b) = 10 ^ a * 10 ^ b
  <1> DEFINE S == {n \in Nat : 10 ^ (a + n) = 10 ^ a * 10 ^ n}
  <1>1. 0 \in S
    BY DEF PowersOfTen
  <1>2. ASSUME NEW n \in S PROVE n + 1 \in S
    <2>1. PICK p \in Nat, q \in Nat, r \in Nat : p = 10 ^ a /\ q = 10 ^ n /\ r = 10 ^ (a + n)
      BY DEF PowersOfTen
    <2>2. 10 ^ (n + 1) = 10 * q /\ 10 ^ (a + (n + 1)) = 10 * r
      <3>1. 10 ^ ((a + n) + 1) = 10 * 10 ^ (a + n)
        BY DEF PowersOfTen
      <3>2. (a + n) + 1 = a + (n + 1)
        OBVIOUS
      <3> QED
        BY <2>1, <3>1, <3>2 DEF PowersOfTen
    <2>3. r = p * q
      BY <2>1
    <2>4. 10 * r = p * (10 * q)
      BY <2>3
    <2> QED
      BY <2>1, <2>2, <2>4
  <1>3. S = Nat
    BY <1>1, <1>2, AllNumbers
  <1> QED
    BY <1>3

LEMMA PowerGrows ==
    ASSUME PowersOfTen, NEW a \in Nat, NEW b \in Nat, a <= b PROVE 10 ^ a <= 10 ^ b
  <1>1. b - a \in Nat /\ b = a + (b - a)
    OBVIOUS
  <1>2. PICK c \in Nat : b = a + c
    BY <1>1
  <1>3. PICK p \in Nat, q \in Nat \ {0} : p = 10 ^ a /\ q = 10 ^ c
    BY DEF PowersOfTen
  <1>4. 10 ^ b = p * q
    BY <1>2, <1>3, PowerSum
  <1>5. p <= p * q
    BY <1>3
  <1> QED
    BY <1>3, <1>4, <1>5

\* A number has the digits that Width counts.
LEMMA WidthCounts ==
    ASSUME PowersOfTen, NEW n \in Nat, n < 10 ^ (2 * SCALE + SIG)
    PROVE  /\ Width(n) \in 1..(2 * SCALE + SIG) /\ n < 10 ^ Width(n)
           /\ Width(n) > 1 => n >= 10 ^ (Width(n) - 1)
  <1> DEFINE S == {k \in Nat : k >= 1 /\ n < 10 ^ k}
             Fits(k) == n < 10 ^ k /\ (k > 1 => n >= 10 ^ (k - 1))
  <1>1. PICK bound \in Nat : bound = 2 * SCALE + SIG /\ bound >= 1
    BY PriceTextAssumption
  <1>2. bound \in S
    BY <1>1
  <1>3. PICK k \in S : \A j \in S : k <= j
    BY <1>2, Least
  <1>4. k \in 1..bound /\ n < 10 ^ k
    BY <1>2, <1>3
  <1>5. ASSUME k > 1 PROVE n >= 10 ^ (k - 1)
    <2>1. PICK j \in Nat : j = k - 1
      BY <1>3, <1>5
    <2>2. j \notin S /\ j >= 1
      BY <1>3, <1>5, <2>1
    <2> QED
      BY <2>1, <2>2 DEF PowersOfTen
  <1>6. Fits(k) /\ k \in 1..(2 * SCALE + SIG)
    BY <1>1, <1>4, <1>5
  <1>7. Width(n) = CHOOSE j \in 1..(2 * SCALE + SIG) : Fits(j)
    BY DEF Width
  <1> HIDE DEF Fits
  <1>8. Fits(Width(n)) /\ Width(n) \in 1..(2 * SCALE + SIG)
    BY <1>6, <1>7
  <1> QED
    BY <1>8 DEF Fits

-----------------------------------------------------------------------------
(* The value of a sequence of digits *)

Value(s) == FoldLeft(LAMBDA n, d : 10 * n + d, 0, s)

\* v[k] is the value of the first k digits.
PrefixValues(s, v) ==
    /\ v \in [0..Len(s) -> Nat]
    /\ v[0] = 0
    /\ \A k \in 0..(Len(s) - 1) : v[k + 1] = 10 * v[k] + s[k + 1]

\* The recursion by which the community modules fold the first n digits.
Recursion(n, s, g) ==
    g = [S \in SUBSET (1..n) |-> IF S = {} THEN 0
                                 ELSE LET x == Max(S) IN 10 * g[S \ {x}] + s[x]]

LEMMA MaxIsLast ==
    ASSUME NEW n \in Nat, NEW S \in SUBSET (1..(n + 1)), n + 1 \in S PROVE Max(S) = n + 1
  <1>1. \A x \in S : x \in Int /\ x <= n + 1
    OBVIOUS
  <1>2. \A x \in S : (\A y \in S : x >= y) <=> x = n + 1
    BY <1>1
  <1> QED
    BY <1>2 DEF Max

LEMMA RecursionExists ==
    ASSUME NEW s, NEW n \in Nat PROVE \E g : Recursion(n, s, g)
  <1> DEFINE N == {k \in Nat : \E g : Recursion(k, s, g)}
  <1>1. 0 \in N
    <2> DEFINE g == [S \in SUBSET (1..0) |-> 0]
    <2>1. \A S \in SUBSET (1..0) : S = {}
      OBVIOUS
    <2>2. Recursion(0, s, g)
      BY <2>1 DEF Recursion
    <2> QED
      BY <2>2
  <1>2. ASSUME NEW k \in N PROVE k + 1 \in N
    <2>1. PICK g : Recursion(k, s, g)
      OBVIOUS
    <2> DEFINE h == [S \in SUBSET (1..(k + 1)) |->
                        IF k + 1 \in S THEN 10 * g[S \ {k + 1}] + s[k + 1] ELSE g[S]]
    <2>2. ASSUME NEW S \in SUBSET (1..k)
          PROVE  /\ h[S] = g[S] /\ S \in SUBSET (1..(k + 1)) /\ k + 1 \notin S
                 /\ g[S] = IF S = {} THEN 0 ELSE LET x == Max(S) IN 10 * g[S \ {x}] + s[x]
      <3>1. S \in SUBSET (1..(k + 1)) /\ k + 1 \notin S
        OBVIOUS
      <3> QED
        BY <2>1, <3>1 DEF Recursion
    <2>3. ASSUME NEW S \in SUBSET (1..(k + 1))
          PROVE  h[S] = IF S = {} THEN 0 ELSE LET x == Max(S) IN 10 * h[S \ {x}] + s[x]
      <3>1. CASE k + 1 \in S
        <4>1. Max(S) = k + 1 /\ S \ {k + 1} \in SUBSET (1..k)
          BY <3>1, MaxIsLast
        <4>2. h[S] = 10 * g[S \ {k + 1}] + s[k + 1] /\ h[S \ {k + 1}] = g[S \ {k + 1}]
          BY <2>2, <3>1, <4>1
        <4> HIDE DEF h
        <4> QED
          BY <3>1, <4>1, <4>2
      <3>2. CASE k + 1 \notin S
        <4>1. S \in SUBSET (1..k)
          BY <3>2
        <4>2. \A x : h[S \ {x}] = g[S \ {x}]
          BY <2>2, <4>1
        <4> HIDE DEF h
        <4> QED
          BY <2>2, <4>1, <4>2
      <3> QED
        BY <3>1, <3>2
    <2>4. h = [S \in SUBSET (1..(k + 1)) |->
                  IF S = {} THEN 0 ELSE LET x == Max(S) IN 10 * h[S \ {x}] + s[x]]
      <3> DEFINE f == [S \in SUBSET (1..(k + 1)) |->
                         IF S = {} THEN 0 ELSE LET x == Max(S) IN 10 * h[S \ {x}] + s[x]]
      <3>1. \A S \in SUBSET (1..(k + 1)) : h[S] = f[S]
        BY <2>3
      <3>2. DOMAIN h = SUBSET (1..(k + 1)) /\ h = [S \in DOMAIN h |-> h[S]]
        OBVIOUS
      <3>3. DOMAIN f = SUBSET (1..(k + 1)) /\ f = [S \in DOMAIN f |-> f[S]]
        OBVIOUS
      <3> HIDE DEF f, h
      <3>4. h = f
        BY <3>1, <3>2, <3>3
      <3> QED
        BY <3>4 DEF f
    <2>5. Recursion(k + 1, s, h)
      BY <2>4 DEF Recursion
    <2> HIDE DEF h
    <2> QED
      BY <2>5
  <1> HIDE DEF N
  <1>3. N = Nat
    BY <1>1, <1>2, AllNumbers DEF N
  <1> QED
    BY <1>3 DEF N

LEMMA RecursionStep ==
    ASSUME NEW s, NEW n \in Nat, NEW g, Recursion(n, s, g)
    PROVE  /\ g[1..0] = 0
           /\ \A k \in 0..(n - 1) : g[1..(k + 1)] = 10 * g[1..k] + s[k + 1]
  <1>1. ASSUME NEW S \in SUBSET (1..n)
        PROVE  g[S] = IF S = {} THEN 0 ELSE LET x == Max(S) IN 10 * g[S \ {x}] + s[x]
    BY DEF Recursion
  <1>2. g[1..0] = 0
    <2>1. 1..0 \in SUBSET (1..n) /\ 1..0 = {}
      OBVIOUS
    <2> QED
      BY <1>1, <2>1
  <1>3. ASSUME NEW k \in 0..(n - 1) PROVE g[1..(k + 1)] = 10 * g[1..k] + s[k + 1]
    <2>1. 1..(k + 1) \in SUBSET (1..n) /\ 1..(k + 1) # {} /\ k + 1 \in 1..(k + 1)
      OBVIOUS
    <2>2. Max(1..(k + 1)) = k + 1
      BY <2>1, MaxIsLast
    <2>3. (1..(k + 1)) \ {k + 1} = 1..k
      OBVIOUS
    <2> QED
      BY <1>1, <2>1, <2>2, <2>3
  <1> QED
    BY <1>2, <1>3

LEMMA PrefixValuesUnique ==
    ASSUME NEW s, Len(s) \in Nat, NEW v, NEW w, v[0] = w[0],
           \A k \in 0..(Len(s) - 1) : v[k + 1] = 10 * v[k] + s[k + 1],
           \A k \in 0..(Len(s) - 1) : w[k + 1] = 10 * w[k] + s[k + 1]
    PROVE  v[Len(s)] = w[Len(s)]
  <1> DEFINE N == {k \in Nat : k <= Len(s) => v[k] = w[k]}
  <1>1. 0 \in N
    OBVIOUS
  <1>2. ASSUME NEW k \in N PROVE k + 1 \in N
    <2>1. ASSUME k + 1 <= Len(s) PROVE v[k + 1] = w[k + 1]
      <3>1. k \in 0..(Len(s) - 1) /\ v[k] = w[k]
        BY <2>1
      <3> QED
        BY <3>1
    <2> QED
      BY <2>1
  <1> HIDE DEF N
  <1>3. N = Nat
    BY <1>1, <1>2, AllNumbers DEF N
  <1> QED
    BY <1>3 DEF N

LEMMA ValueOfPrefixes ==
    ASSUME NEW s \in Seq(Nat), NEW v, PrefixValues(s, v) PROVE Value(s) = v[Len(s)]
  <1> DEFINE g == CHOOSE g : Recursion(Len(s), s, g)
  <1>1. DOMAIN s = 1..Len(s) /\ Len(s) \in Nat
    BY LenProperties
  <1>2. Value(s) = g[1..Len(s)]
    BY <1>1 DEF Value, FoldLeft, MapThenFoldSet, Recursion
  <1>3. Recursion(Len(s), s, g)
    BY <1>1, RecursionExists
  <1> HIDE DEF g
  <1> DEFINE w == [k \in 0..Len(s) |-> g[1..k]]
  <1>4. /\ w[0] = 0 /\ w[Len(s)] = g[1..Len(s)]
        /\ \A k \in 0..(Len(s) - 1) : w[k + 1] = 10 * w[k] + s[k + 1]
    <2>1. /\ g[1..0] = 0
          /\ \A k \in 0..(Len(s) - 1) : g[1..(k + 1)] = 10 * g[1..k] + s[k + 1]
      BY <1>1, <1>3, RecursionStep
    <2>2. \A k \in 0..Len(s) : w[k] = g[1..k]
      OBVIOUS
    <2>3. /\ 0 \in 0..Len(s) /\ Len(s) \in 0..Len(s)
          /\ \A k \in 0..(Len(s) - 1) : k \in 0..Len(s) /\ k + 1 \in 0..Len(s)
      BY <1>1
    <2> HIDE DEF w
    <2> QED
      BY <2>1, <2>2, <2>3
  <1> HIDE DEF w
  <1>5. v[Len(s)] = w[Len(s)]
    BY <1>1, <1>4, PrefixValuesUnique DEF PrefixValues
  <1> QED
    BY <1>2, <1>4, <1>5

LEMMA ValueBounded ==
    ASSUME PowersOfTen, NEW s \in Seq(0..9) PROVE Value(s) \in Nat /\ Value(s) < 10 ^ Len(s)
  <1> DEFINE g == CHOOSE g : Recursion(Len(s), s, g)
  <1>1. DOMAIN s = 1..Len(s) /\ Len(s) \in Nat /\ \A k \in 1..Len(s) : s[k] \in 0..9
    BY LenProperties, ElementOfSeq
  <1>2. Value(s) = g[1..Len(s)]
    BY <1>1 DEF Value, FoldLeft, MapThenFoldSet, Recursion
  <1>3. Recursion(Len(s), s, g)
    BY <1>1, RecursionExists
  <1> HIDE DEF g
  <1>4. /\ g[1..0] = 0
        /\ \A k \in 0..(Len(s) - 1) : g[1..(k + 1)] = 10 * g[1..k] + s[k + 1]
    BY <1>1, <1>3, RecursionStep
  <1> DEFINE N == {k \in Nat : k <= Len(s) => g[1..k] \in Nat /\ g[1..k] < 10 ^ k}
  <1>5. 0 \in N
    BY <1>4
  <1>6. ASSUME NEW k \in N PROVE k + 1 \in N
    <2>1. ASSUME k + 1 <= Len(s) PROVE g[1..(k + 1)] \in Nat /\ g[1..(k + 1)] < 10 ^ (k + 1)
      <3>1. k \in 0..(Len(s) - 1) /\ s[k + 1] \in 0..9
        BY <1>1, <2>1
      <3>2. PICK x \in Nat, p \in Nat : x = g[1..k] /\ p = 10 ^ k /\ x < p
        BY <2>1 DEF PowersOfTen
      <3>3. 10 ^ (k + 1) = 10 * p
        BY <3>2 DEF PowersOfTen
      <3>4. g[1..(k + 1)] = 10 * x + s[k + 1]
        BY <1>4, <3>1, <3>2
      <3>5. PICK d \in 0..9 : d = s[k + 1]
        BY <3>1
      <3>6. 10 * x + d \in Nat /\ 10 * x + d < 10 * p
        BY <3>2
      <3> QED
        BY <3>3, <3>4, <3>5, <3>6
    <2> QED
      BY <2>1
  <1> HIDE DEF N
  <1>7. N = Nat
    BY <1>5, <1>6, AllNumbers DEF N
  <1> QED
    BY <1>1, <1>2, <1>7 DEF N

-----------------------------------------------------------------------------
(* Printing *)

DigitAt(r, j) == (r \div 10 ^ j) % 10

LEMMA LastDigit ==
    ASSUME NEW q \in Nat PROVE q = 10 * (q \div 10) + (q % 10) /\ q % 10 \in 0..9
  OBVIOUS

LEMMA Quotients ==
    ASSUME PowersOfTen, NEW r \in Nat, NEW j \in Nat
    PROVE  /\ r \div 10 ^ j \in Nat /\ DigitAt(r, j) \in 0..9
           /\ r \div 10 ^ j = 10 * (r \div 10 ^ (j + 1)) + DigitAt(r, j)
           /\ r < 10 ^ j => r \div 10 ^ j = 0 /\ DigitAt(r, j) = 0
  <1>1. PICK p \in Nat \ {0} : p = 10 ^ j /\ 10 ^ (j + 1) = 10 * p
    BY DEF PowersOfTen
  <1>2. PICK q \in Nat : q = r \div p
    BY <1>1
  <1>3. r \div (10 * p) = q \div 10
    BY <1>1, <1>2
  <1>4. q = 10 * (q \div 10) + (q % 10) /\ q % 10 \in 0..9
    BY LastDigit
  <1>5. r < p => q = 0 /\ q % 10 = 0
    BY <1>1, <1>2
  <1> QED
    BY <1>1, <1>2, <1>3, <1>4, <1>5 DEF DigitAt

LEMMA FunctionIsSeq ==
    ASSUME NEW S, NEW n \in Nat, NEW f \in [1..n -> S] PROVE f \in Seq(S) /\ Len(f) = n
  OBVIOUS

\* Digits gives one zero for zero, else no leading zeros.
LEMMA WidthWithin ==
    ASSUME PowersOfTen, NEW r \in Nat, NEW d \in 0..SCALE, r < 10 ^ d
    PROVE  Width(r) \in Nat /\ r < 10 ^ Width(r) /\ Width(r) >= 1
           /\ Width(r) <= IF d = 0 THEN 1 ELSE d
  <1>1. d \in Nat /\ SCALE \in Nat /\ 2 * SCALE + SIG \in Nat /\ d <= 2 * SCALE + SIG
    BY PriceTextAssumption
  <1>2. r < 10 ^ (2 * SCALE + SIG)
    <2>1. PICK p \in Nat, q \in Nat : p = 10 ^ d /\ q = 10 ^ (2 * SCALE + SIG)
      BY <1>1 DEF PowersOfTen
    <2>2. p <= q
      BY <1>1, <2>1, PowerGrows
    <2> QED
      BY <2>1, <2>2
  <1>3. PICK w \in Nat : /\ w = Width(r) /\ w >= 1 /\ r < 10 ^ w
                         /\ w > 1 => r >= 10 ^ (w - 1)
    BY <1>1, <1>2, WidthCounts
  <1>4. ASSUME w > 1, w > d PROVE FALSE
    <2>1. PICK e \in Nat : e = w - 1 /\ d <= e
      BY <1>1, <1>3, <1>4
    <2>2. PICK p \in Nat, q \in Nat : p = 10 ^ d /\ q = 10 ^ e
      BY <1>1, <2>1 DEF PowersOfTen
    <2>3. p <= q
      BY <1>1, <2>1, <2>2, PowerGrows
    <2> QED
      BY <1>3, <1>4, <2>1, <2>2, <2>3
  <1> QED
    BY <1>1, <1>3, <1>4

\* A fraction is printed with as many digits as the feed has decimals, at least one.
LEMMA PaddedDigits ==
    ASSUME PowersOfTen, NEW r \in Nat, NEW d \in 0..SCALE, r < 10 ^ d,
           NEW n \in Nat, (d = 0 /\ n = 1) \/ (d > 0 /\ n = d),
           NEW s, s = PadStart(Digits(r), d)
    PROVE  /\ s \in Seq(0..9) /\ Len(s) = n
           /\ \A k \in 1..n : s[k] = DigitAt(r, n - k)
  <1>1. PICK w \in Nat : w = Width(r) /\ r < 10 ^ w /\ w >= 1 /\ w <= n
    BY WidthWithin
  <1>2. d \in Nat /\ n \in Nat /\ n - w \in Nat
    BY <1>1, PriceTextAssumption
  <1>3. PICK digits \in [1..w -> 0..9] :
           digits = Digits(r) /\ \A i \in 1..w : digits[i] = DigitAt(r, w - i)
    <2>1. \A i \in 1..w : w - i \in Nat
      OBVIOUS
    <2>2. \A i \in 1..w : DigitAt(r, w - i) \in 0..9
      BY <2>1, Quotients
    <2>3. Digits(r) = [i \in 1..w |-> DigitAt(r, w - i)]
      BY <1>1 DEF Digits, DigitAt
    <2> QED
      BY <2>2, <2>3
  <1>4. digits \in Seq(0..9) /\ Len(digits) = w
    BY FunctionIsSeq
  <1>5. PICK zeros \in [1..(n - w) -> 0..9] :
           zeros = [i \in 1..(d - w) |-> 0] /\ \A i \in 1..(n - w) : zeros[i] = 0
    <2>1. PICK D : D = 1..(d - w) /\ D = 1..(n - w)
      BY <1>1, <1>2
    <2>2. [i \in D |-> 0] \in [D -> 0..9] /\ \A i \in D : [j \in D |-> 0][i] = 0
      OBVIOUS
    <2> QED
      BY <2>1, <2>2
  <1>6. zeros \in Seq(0..9) /\ Len(zeros) = n - w
    BY <1>2, FunctionIsSeq
  <1>7. s = zeros \o digits
    BY <1>3, <1>4, <1>5 DEF PadStart
  <1>8. /\ s \in Seq(0..9) /\ Len(s) = n
        /\ \A k \in 1..n : s[k] = IF k <= n - w THEN zeros[k] ELSE digits[k - (n - w)]
    <2>1. /\ s \in Seq(0..9) /\ Len(s) = Len(zeros) + Len(digits)
          /\ \A k \in 1..(Len(zeros) + Len(digits)) :
                s[k] = IF k <= Len(zeros) THEN zeros[k] ELSE digits[k - Len(zeros)]
      BY <1>4, <1>6, <1>7, ConcatProperties
    <2>2. Len(zeros) + Len(digits) = n
      BY <1>2, <1>4, <1>6
    <2> QED
      BY <1>4, <1>6, <2>1, <2>2
  <1>9. ASSUME NEW k \in 1..n PROVE s[k] = DigitAt(r, n - k)
    <2>1. CASE k <= n - w
      <3>1. PICK j \in Nat : j = n - k /\ w <= j
        BY <1>1, <1>2, <2>1
      <3>2. r < 10 ^ j
        <4>1. PICK p \in Nat, q \in Nat : p = 10 ^ w /\ q = 10 ^ j
          BY DEF PowersOfTen
        <4>2. p <= q
          BY <3>1, <4>1, PowerGrows
        <4> QED
          BY <1>1, <4>1, <4>2
      <3>3. DigitAt(r, j) = 0
        BY <3>2, Quotients
      <3>4. zeros[k] = 0
        BY <1>2, <1>5, <2>1
      <3> QED
        BY <1>8, <2>1, <3>1, <3>3, <3>4
    <2>2. CASE ~(k <= n - w)
      <3>1. PICK i \in 1..w : i = k - (n - w) /\ w - i = n - k
        <4>1. PICK m \in Nat : m = n - w
          BY <1>2
        <4>2. k - m \in 1..w /\ w - (k - m) = n - k
          BY <1>2, <2>2, <4>1
        <4> QED
          BY <4>1, <4>2
      <3> QED
        BY <1>3, <1>8, <2>2, <3>1
    <2> QED
      BY <2>1, <2>2
  <1> QED
    BY <1>8, <1>9

\* What is printed is what was to be printed.
LEMMA PaddedValue ==
    ASSUME PowersOfTen, NEW r \in Nat, NEW d \in 0..SCALE, r < 10 ^ d,
           NEW s, s = PadStart(Digits(r), d)
    PROVE  \E v : PrefixValues(s, v) /\ v[Len(s)] = r
  <1>0. PICK n \in Nat : (d = 0 /\ n = 1) \/ (d > 0 /\ n = d)
    BY PriceTextAssumption
  <1>1. n >= d /\ n >= 1
    BY <1>0, PriceTextAssumption
  <1>2. /\ s \in Seq(0..9) /\ Len(s) = n
        /\ \A k \in 1..n : s[k] = DigitAt(r, n - k)
    BY <1>0, PaddedDigits
  <1> DEFINE v == [k \in 0..n |-> r \div 10 ^ (n - k)]
  <1>3. v \in [0..n -> Nat]
    <2>1. ASSUME NEW k \in 0..n PROVE r \div 10 ^ (n - k) \in Nat
      <3>1. n - k \in Nat
        OBVIOUS
      <3> QED
        BY <3>1, Quotients
    <2> QED
      BY <2>1
  <1>4. v[0] = 0
    <2>1. PICK p \in Nat, q \in Nat : p = 10 ^ d /\ q = 10 ^ n
      BY PriceTextAssumption DEF PowersOfTen
    <2>2. p <= q
      BY <1>1, <2>1, PowerGrows, PriceTextAssumption
    <2>3. r < 10 ^ n
      BY <2>1, <2>2
    <2>4. v[0] = r \div 10 ^ n
      OBVIOUS
    <2> QED
      BY <2>3, <2>4, Quotients
  <1>5. ASSUME NEW k \in 0..(n - 1) PROVE v[k + 1] = 10 * v[k] + s[k + 1]
    <2>1. PICK j \in Nat : j = n - (k + 1) /\ j + 1 = n - k
      BY <1>1
    <2>2. v[k + 1] = r \div 10 ^ j /\ v[k] = r \div 10 ^ (j + 1)
      BY <1>1, <2>1
    <2>3. s[k + 1] = DigitAt(r, j)
      BY <1>1, <1>2, <2>1
    <2> HIDE DEF v
    <2> QED
      BY <2>2, <2>3, Quotients
  <1>6. v[n] = r
    BY <1>1
  <1> HIDE DEF v
  <1> QED
    BY <1>2, <1>3, <1>4, <1>5, <1>6 DEF PrefixValues

\* Trimming keeps at least one digit, and the value.
LEMMA TrimmedValue ==
    ASSUME PowersOfTen, NEW s \in Seq(0..9), Len(s) >= 1, Len(s) <= SCALE,
           NEW v, PrefixValues(s, v), NEW t, t = TrimZeros(s)
    PROVE  /\ t \in Seq(0..9) /\ Len(t) \in 1..Len(s)
           /\ Value(t) * 10 ^ (SCALE - Len(t)) = v[Len(s)] * 10 ^ (SCALE - Len(s))
  <1>1. PICK n \in Nat : n = Len(s) /\ n >= 1 /\ SCALE - n \in Nat
    BY LenProperties, PriceTextAssumption
  <1>2. \A i \in 1..n : s[i] \in 0..9
    BY <1>1, ElementOfSeq
  <1>3. /\ v \in [0..n -> Nat] /\ v[0] = 0
        /\ \A k \in 0..(n - 1) : v[k + 1] = 10 * v[k] + s[k + 1]
    BY <1>1 DEF PrefixValues
  <1>4. ASSUME t = s PROVE Value(t) = v[n]
    BY <1>1, <1>4, ValueOfPrefixes, SeqMonotonic
  <1> DEFINE enough == {k \in 2..(n - 1) : \A i \in (k + 1)..n : s[i] = 0}
  <1>5. CASE enough = {}
    <2>1. t = s
      BY <1>1, <1>5 DEF TrimZeros
    <2> QED
      BY <1>1, <1>4, <2>1
  <1>6. CASE enough # {}
    <2>1. PICK m : m = Min(enough)
      OBVIOUS
    <2>2. m \in enough
      <3>1. enough \in SUBSET Nat
        OBVIOUS
      <3> HIDE DEF enough
      <3>2. \E k \in enough : \A j \in enough : k <= j
        BY <1>6, <3>1, Least
      <3> QED
        BY <2>1, <3>2 DEF Min
    <2>3. m \in Nat /\ m >= 1 /\ m < n /\ \A i \in (m + 1)..n : s[i] = 0
      BY <2>2
    <2>4. t = SubSeq(s, 1, m)
      BY <1>1, <1>6, <2>1 DEF TrimZeros
    <2> HIDE DEF enough
    <2>5. /\ t \in Seq(0..9) /\ Len(t) = m /\ \A i \in 1..m : t[i] = s[i]
      <3>1. \A i \in 1..m : s[i] \in 0..9
        BY <1>2, <2>3
      <3> QED
        BY <2>3, <2>4, <3>1, SubSeqProperties
    <2> DEFINE u == [k \in 0..m |-> v[k]]
    <2>6. /\ \A k \in 0..m : u[k] = v[k] /\ v[k] \in Nat
          /\ u \in [0..m -> Nat]
      BY <1>3, <2>3
    <2> HIDE DEF u
    <2>7. PrefixValues(t, u)
      <3>1. ASSUME NEW k \in 0..(m - 1) PROVE u[k + 1] = 10 * u[k] + t[k + 1]
        <4>1. k \in 0..m /\ k + 1 \in 0..m /\ k \in 0..(n - 1) /\ k + 1 \in 1..m
          BY <2>3
        <4> QED
          BY <1>3, <2>5, <2>6, <4>1
      <3> QED
        BY <1>3, <2>3, <2>5, <2>6, <3>1 DEF PrefixValues
    <2>8. Value(t) = v[m]
      <3>1. t \in Seq(Nat)
        BY <2>5, SeqMonotonic
      <3>2. u[m] = v[m]
        BY <2>3, <2>6
      <3> QED
        BY <2>5, <2>7, <3>1, <3>2, ValueOfPrefixes
    <2> DEFINE N == {j \in Nat : m + j <= n => v[m + j] = v[m] * 10 ^ j}
    <2>9. PICK x \in Nat : x = v[m]
      BY <1>3, <2>3
    <2>10. 0 \in N
      BY <2>3, <2>9
    <2>11. ASSUME NEW j \in N PROVE j + 1 \in N
      <3>1. ASSUME m + (j + 1) <= n PROVE v[m + (j + 1)] = v[m] * 10 ^ (j + 1)
        <4>1. PICK k \in 0..(n - 1) : k = m + j /\ k + 1 = m + (j + 1) /\ k + 1 \in (m + 1)..n
          BY <2>3, <3>1
        <4>2. v[k + 1] = 10 * v[k] + 0
          BY <1>3, <2>3, <4>1
        <4>3. PICK p \in Nat : p = 10 ^ j /\ 10 ^ (j + 1) = 10 * p
          BY DEF PowersOfTen
        <4>4. v[k] = x * p
          BY <2>3, <2>9, <3>1, <4>1, <4>3
        <4>5. 10 * (x * p) + 0 = x * (10 * p)
          OBVIOUS
        <4> QED
          BY <2>9, <4>1, <4>2, <4>3, <4>4, <4>5
      <3> QED
        BY <3>1
    <2> HIDE DEF N
    <2>12. N = Nat
      BY <2>10, <2>11, AllNumbers DEF N
    <2>13. PICK j \in Nat : j = n - m /\ m + j = n
      BY <2>3
    <2>14. v[n] = x * 10 ^ j
      BY <2>9, <2>12, <2>13 DEF N
    <2>15. PICK e \in Nat : e = SCALE - n /\ SCALE - m = j + e
      <3>1. SCALE - m = (n - m) + (SCALE - n)
        BY <1>1, <2>3, PriceTextAssumption
      <3> QED
        BY <1>1, <2>13, <3>1
    <2>16. PICK p \in Nat, q \in Nat : p = 10 ^ j /\ q = 10 ^ e /\ 10 ^ (SCALE - m) = p * q
      <3>1. 10 ^ (j + e) = 10 ^ j * 10 ^ e
        BY PowerSum
      <3> QED
        BY <2>15, <3>1 DEF PowersOfTen
    <2>17. x * (p * q) = (x * p) * q
      OBVIOUS
    <2> QED
      BY <1>1, <2>3, <2>5, <2>8, <2>9, <2>14, <2>15, <2>16, <2>17
  <1> QED
    BY <1>5, <1>6

\* The text of a price is worth the integer that the feed reported.
LEMMA PrintedPrice ==
    ASSUME PowersOfTen, NEW a \in Int, NEW d \in 0..SCALE,
           NEW text, text = PrintPrice(a, d)
    PROVE  /\ Len(text.frac) \in 1..SCALE
           /\ Exact(text) = Max({a, 0}) * 10 ^ (SCALE - d)
  <1>1. PICK raw \in Nat : raw = Max({a, 0})
    <2>1. CASE a >= 0
      BY <2>1 DEF Max
    <2>2. CASE a < 0
      BY <2>2 DEF Max
    <2> QED
      BY <2>1, <2>2
  <1>2. PICK e \in Nat : e = SCALE - d /\ SCALE = d + e
    BY PriceTextAssumption
  <1>3. PICK p \in Nat \ {0}, q \in Nat : p = 10 ^ d /\ q = 10 ^ e /\ 10 ^ SCALE = p * q
    BY <1>2, PowerSum, PriceTextAssumption DEF PowersOfTen
  <1>4. PICK whole \in Nat, r \in Nat : /\ whole = raw \div p /\ r = raw % p
                                        /\ raw = whole * p + r /\ r < p
    OBVIOUS
  <1>5. PICK s : s = PadStart(Digits(r), d)
    OBVIOUS
  <1>6. PICK n \in Nat : (d = 0 /\ n = 1) \/ (d > 0 /\ n = d)
    BY PriceTextAssumption
  <1>7. r < 10 ^ d
    BY <1>3, <1>4
  <1>8. s \in Seq(0..9) /\ Len(s) = n
    BY <1>5, <1>6, <1>7, PaddedDigits
  <1>9. PICK v : PrefixValues(s, v) /\ v[Len(s)] = r
    BY <1>5, <1>7, PaddedValue
  <1>10. PICK t : t = TrimZeros(s)
    OBVIOUS
  <1>11. n >= 1 /\ n <= SCALE
    BY <1>6, PriceTextAssumption
  <1>12. /\ Len(t) \in 1..n
         /\ Value(t) * 10 ^ (SCALE - Len(t)) = r * 10 ^ (SCALE - n)
    BY <1>8, <1>9, <1>10, <1>11, TrimmedValue
  <1>13. text = [whole |-> whole, frac |-> t]
    BY <1>1, <1>3, <1>4, <1>5, <1>10 DEF PrintPrice
  <1>14. Exact(text) = whole * 10 ^ SCALE + Value(t) * 10 ^ (SCALE - Len(t))
    <2>1. Exact(text) = text.whole * 10 ^ SCALE
                          + Value(text.frac) * 10 ^ (SCALE - Len(text.frac))
      BY DEF Exact, Value
    <2>2. text.whole = whole /\ text.frac = t
      BY <1>13
    <2> QED
      BY <2>1, <2>2
  <1>15. r * 10 ^ (SCALE - n) = r * q
    <2>1. CASE d = 0
      <3>1. r = 0
        BY <1>3, <1>4, <2>1
      <3>2. PICK f \in Nat : f = SCALE - n
        BY <1>11, PriceTextAssumption
      <3>3. PICK g \in Nat : g = 10 ^ f
        BY DEF PowersOfTen
      <3> QED
        BY <3>1, <3>2, <3>3
    <2>2. CASE d > 0
      BY <1>2, <1>3, <1>6, <2>2
    <2> QED
      BY <2>1, <2>2, PriceTextAssumption
  <1>16. whole * (p * q) + r * q = (whole * p + r) * q
    OBVIOUS
  <1>17. Exact(text) = raw * q
    BY <1>3, <1>4, <1>12, <1>14, <1>15, <1>16
  <1> QED
    BY <1>1, <1>2, <1>3, <1>11, <1>12, <1>13, <1>17

-----------------------------------------------------------------------------
(* Comparing *)

\* A threshold is a number that Width can count.
LEMMA ThresholdBounded ==
    ASSUME PowersOfTen, NEW t \in Thresholds
    PROVE  Exact(t) \in Nat /\ Exact(t) < 10 ^ (2 * SCALE + SIG)
  <1>1. t.whole \in Nat /\ t.whole < 10 ^ (SCALE + SIG) /\ t.frac \in Seq(0..9)
    BY ResolutionAssumption
  <1>2. PICK l \in Nat, e \in Nat : l = Len(t.frac) /\ e = SCALE - l /\ SCALE = l + e
    <2>1. PICK l \in Nat : l = Len(t.frac) /\ l <= SCALE
      BY <1>1, LenProperties, ResolutionAssumption
    <2>2. PICK e \in Nat : e = SCALE - l /\ SCALE = l + e
      <3>1. SCALE - l \in Nat /\ SCALE = l + (SCALE - l)
        BY <2>1, PriceTextAssumption
      <3> QED
        BY <3>1
    <2> QED
      BY <2>1, <2>2
  <1>3. PICK p \in Nat, q \in Nat \ {0} : p = 10 ^ l /\ q = 10 ^ e /\ 10 ^ SCALE = p * q
    <2>1. 10 ^ (l + e) = 10 ^ l * 10 ^ e
      BY PowerSum
    <2> QED
      BY <1>2, <2>1 DEF PowersOfTen
  <1>4. PICK x \in Nat : x = Value(t.frac) /\ x + 1 <= p
    BY <1>1, <1>2, <1>3, ValueBounded
  <1>5. PICK whole \in Nat, b \in Nat : whole = t.whole /\ b = 10 ^ (SCALE + SIG) /\ whole + 1 <= b
    BY <1>1, PriceTextAssumption DEF PowersOfTen
  <1>6. PICK scale \in Nat \ {0} : scale = p * q
    BY <1>2, <1>3 DEF PowersOfTen
  <1>7. Exact(t) = whole * scale + x * q
    BY <1>2, <1>3, <1>4, <1>5, <1>6 DEF Exact, Value
  <1>8. (x + 1) * q <= p * q /\ (x + 1) * q = x * q + q /\ x * q \in Nat
    BY <1>4
  <1>9. (whole + 1) * scale <= b * scale /\ (whole + 1) * scale = whole * scale + scale
        /\ whole * scale \in Nat
    <2>1. whole + 1 <= b
      BY <1>5
    <2>2. (whole + 1) * scale <= b * scale
      BY <2>1
    <2>3. (whole + 1) * scale = whole * scale + scale /\ whole * scale \in Nat
      OBVIOUS
    <2> QED
      BY <2>2, <2>3
  <1>10. b * scale = 10 ^ (2 * SCALE + SIG)
    <2>1. (SCALE + SIG) + SCALE = 2 * SCALE + SIG /\ SCALE + SIG \in Nat /\ SCALE \in Nat
      BY PriceTextAssumption
    <2>2. 10 ^ ((SCALE + SIG) + SCALE) = 10 ^ (SCALE + SIG) * 10 ^ SCALE
      BY <2>1, PowerSum
    <2> QED
      BY <1>3, <1>5, <1>6, <2>1, <2>2
  <1>11. x * q < scale
    BY <1>6, <1>8
  <1> QED
    BY <1>7, <1>8, <1>9, <1>10, <1>11

LEMMA PriceBounded ==
    ASSUME PowersOfTen, NEW a \in RawAnswers, NEW d \in 0..SCALE,
           NEW price, price = Max({a, 0}) * 10 ^ (SCALE - d)
    PROVE  price \in Nat /\ price < 10 ^ (2 * SCALE + SIG)
  <1>1. a \in Int /\ a < 10 ^ (SCALE + SIG) /\ SCALE \in Nat /\ SCALE + SIG \in Nat
    BY ResolutionAssumption, PriceTextAssumption
  <1>2. PICK e \in Nat : e = SCALE - d /\ e <= SCALE
    BY <1>1
  <1>3. PICK b \in Nat \ {0}, q \in Nat \ {0}, scale \in Nat \ {0} :
           b = 10 ^ (SCALE + SIG) /\ q = 10 ^ e /\ scale = 10 ^ SCALE
    BY <1>1 DEF PowersOfTen
  <1>4. PICK raw \in Nat : raw = Max({a, 0}) /\ raw < b
    <2>1. CASE a >= 0
      BY <1>1, <1>3, <2>1 DEF Max
    <2>2. CASE a < 0
      BY <1>1, <1>3, <2>2 DEF Max
    <2>3. a >= 0 \/ a < 0
      <3>1. a \in Int
        BY <1>1
      <3> QED
        BY <3>1
    <2> QED
      BY <2>1, <2>2, <2>3
  <1>5. q <= scale
    BY <1>1, <1>2, <1>3, PowerGrows
  <1>6. raw * q < b * q /\ b * q <= b * scale /\ raw * q \in Nat
    BY <1>4, <1>5
  <1>7. b * scale = 10 ^ (2 * SCALE + SIG)
    <2>1. (SCALE + SIG) + SCALE = 2 * SCALE + SIG
      BY PriceTextAssumption
    <2>2. 10 ^ ((SCALE + SIG) + SCALE) = 10 ^ (SCALE + SIG) * 10 ^ SCALE
      BY <1>1, PowerSum
    <2> QED
      BY <1>3, <2>1, <2>2
  <1> QED
    BY <1>2, <1>3, <1>4, <1>6, <1>7

\* The unit a number is rounded to is one, or below its SIG-th digit.
LEMMA UnitOf ==
    ASSUME PowersOfTen, NEW n \in Nat, n < 10 ^ (2 * SCALE + SIG)
    PROVE  \E e \in Nat, u \in Nat \ {0} :
              /\ u = 10 ^ e /\ Rounded(n) = ((n + u \div 2) \div u) * u
              /\ e = 0 \/ (e = Width(n) - SIG /\ u * 10 ^ (SIG - 1) <= n)
              /\ Width(n) <= SIG + e
  <1>1. PICK w \in Nat : w = Width(n) /\ w >= 1 /\ (w > 1 => n >= 10 ^ (w - 1))
    <2>1. /\ Width(n) \in 1..(2 * SCALE + SIG)
          /\ Width(n) > 1 => n >= 10 ^ (Width(n) - 1)
      BY WidthCounts
    <2>2. 2 * SCALE + SIG \in Nat
      BY PriceTextAssumption
    <2>3. Width(n) \in Nat /\ Width(n) >= 1
      BY <2>1, <2>2
    <2> QED
      BY <2>1, <2>3
  <1>2. SIG \in Nat /\ SIG >= 1
    BY PriceTextAssumption
  <1>3. PICK e \in Nat : e = Max({w - SIG, 0}) /\ (e = 0 \/ e = w - SIG) /\ w <= SIG + e
    <2>1. CASE w <= SIG
      BY <1>2, <2>1 DEF Max
    <2>2. CASE w > SIG
      BY <1>2, <2>2 DEF Max
    <2> QED
      BY <1>2, <2>1, <2>2
  <1>4. PICK u \in Nat \ {0} : u = 10 ^ e
    BY DEF PowersOfTen
  <1>5. Rounded(n) = ((n + u \div 2) \div u) * u
    BY <1>1, <1>3, <1>4 DEF Rounded
  <1>6. ASSUME e # 0 PROVE u * 10 ^ (SIG - 1) <= n
    <2>1. PICK s \in Nat : s = SIG - 1 /\ e + s = w - 1 /\ w > 1
      <3>1. SIG - 1 \in Nat /\ e + (SIG - 1) = w - 1 /\ w > 1
        BY <1>2, <1>3, <1>6
      <3> QED
        BY <3>1
    <2>2. 10 ^ (e + s) = 10 ^ e * 10 ^ s
      BY PowerSum
    <2> QED
      BY <1>1, <1>4, <2>1, <2>2
  <1> QED
    BY <1>1, <1>3, <1>4, <1>5, <1>6

LEMMA RoundedNatural ==
    ASSUME PowersOfTen, NEW n \in Nat, n < 10 ^ (2 * SCALE + SIG) PROVE Rounded(n) \in Nat
  <1>1. PICK u \in Nat \ {0} : Rounded(n) = ((n + u \div 2) \div u) * u
    BY UnitOf
  <1>2. PICK h \in Nat : h = u \div 2
    BY SMT
  <1>3. PICK q \in Nat : q = (n + h) \div u
    BY SMT
  <1>4. q * u \in Nat
    OBVIOUS
  <1> QED
    BY <1>1, <1>2, <1>3, <1>4

\* A multiple of the unit bounds what is rounded below it ...
LEMMA RoundedBelow ==
    ASSUME NEW n \in Nat, NEW u \in Nat \ {0}, NEW k \in Nat, n < k * u
    PROVE  ((n + u \div 2) \div u) * u <= k * u
  <1>1. PICK h \in Nat : h = u \div 2 /\ h < u
    BY SMT
  <1>2. PICK q \in Nat : q = (n + h) \div u /\ u * q <= n + h
    BY SMT
  <1>3. q < k + 1
    <2> SUFFICES ASSUME q >= k + 1 PROVE FALSE
      OBVIOUS
    <2>1. u * (k + 1) <= u * q
      OBVIOUS
    <2>2. u * (k + 1) = k * u + u
      OBVIOUS
    <2> QED
      BY <1>1, <1>2, <2>1, <2>2
  <1>4. q * u <= k * u
    <2>1. q <= k
      BY <1>3
    <2> QED
      BY <2>1
  <1> QED
    BY <1>1, <1>2, <1>4

\* ... and above it.
LEMMA RoundedAbove ==
    ASSUME NEW n \in Nat, NEW u \in Nat \ {0}, NEW k \in Nat, k * u <= n
    PROVE  k * u <= ((n + u \div 2) \div u) * u
  <1>1. PICK h \in Nat : h = u \div 2
    BY SMT
  <1>2. PICK q \in Nat : q = (n + h) \div u /\ n + h < u * q + u
    BY SMT
  <1>3. k < q + 1
    <2> SUFFICES ASSUME k >= q + 1 PROVE FALSE
      OBVIOUS
    <2>1. (q + 1) * u <= k * u
      OBVIOUS
    <2>2. (q + 1) * u = u * q + u
      OBVIOUS
    <2> QED
      BY <1>2, <2>1, <2>2
  <1>4. k * u <= q * u
    <2>1. k <= q
      BY <1>3
    <2> QED
      BY <2>1
  <1> QED
    BY <1>1, <1>2, <1>4

\* Rounding to the same unit keeps the order.
LEMMA RoundedInOrder ==
    ASSUME NEW n \in Nat, NEW m \in Nat, n <= m, NEW u \in Nat \ {0}
    PROVE  ((n + u \div 2) \div u) * u <= ((m + u \div 2) \div u) * u
  <1>1. PICK h \in Nat : h = u \div 2
    BY SMT
  <1>2. PICK p \in Nat, q \in Nat : /\ p = (n + h) \div u /\ u * p <= n + h
                                    /\ q = (m + h) \div u /\ m + h < u * q + u
    BY SMT
  <1>3. p < q + 1
    <2> SUFFICES ASSUME p >= q + 1 PROVE FALSE
      OBVIOUS
    <2>1. u * (q + 1) <= u * p
      OBVIOUS
    <2>2. u * (q + 1) = u * q + u
      OBVIOUS
    <2> QED
      BY <1>2, <2>1, <2>2
  <1>4. p * u <= q * u
    <2>1. p <= q
      BY <1>3
    <2> QED
      BY <2>1
  <1> QED
    BY <1>1, <1>2, <1>4

\* What is rounded to the same number differs by less than the larger unit.
LEMMA RoundedAlike ==
    ASSUME NEW n \in Nat, NEW m \in Nat, n < m,
           NEW u \in Nat \ {0}, NEW v \in Nat \ {0}, u <= v,
           ((n + u \div 2) \div u) * u = ((m + v \div 2) \div v) * v
    PROVE  m - n < v
  <1>1. PICK h \in Nat, k \in Nat : h = u \div 2 /\ k = v \div 2 /\ h <= k
    BY SMT
  <1>2. PICK p \in Nat : p = (n + h) \div u /\ u * p <= n + h
    BY SMT
  <1>3. PICK q \in Nat : q = (m + k) \div v /\ m + k < v * q + v
    BY SMT
  <1>4. u * p = v * q
    <2>1. p * u = q * v
      BY <1>1, <1>2, <1>3
    <2> QED
      BY <2>1
  <1>5. PICK r \in Nat : r = u * p /\ r = v * q
    BY <1>4
  <1> QED
    BY <1>1, <1>2, <1>3, <1>5

\* Rounding keeps the order of two numbers, or they are too close.
LEMMA RoundedApart ==
    ASSUME PowersOfTen, NEW n \in Nat, NEW m \in Nat, n < m, m < 10 ^ (2 * SCALE + SIG)
    PROVE  /\ Rounded(n) \in Nat /\ Rounded(m) \in Nat
           /\ Rounded(n) < Rounded(m) \/ (TooClose(n, m) /\ TooClose(m, n))
  <1>1. n < 10 ^ (2 * SCALE + SIG)
    <2>1. PICK b \in Nat : b = 10 ^ (2 * SCALE + SIG)
      BY PriceTextAssumption DEF PowersOfTen
    <2> QED
      BY <2>1
  <1>2. PICK e \in Nat, u \in Nat \ {0} :
           /\ u = 10 ^ e /\ Rounded(n) = ((n + u \div 2) \div u) * u
           /\ e = 0 \/ (e = Width(n) - SIG /\ u * 10 ^ (SIG - 1) <= n)
           /\ Width(n) <= SIG + e
    BY <1>1, UnitOf
  <1>3. PICK f \in Nat, v \in Nat \ {0} :
           /\ v = 10 ^ f /\ Rounded(m) = ((m + v \div 2) \div v) * v
           /\ f = 0 \/ (f = Width(m) - SIG /\ v * 10 ^ (SIG - 1) <= m)
           /\ Width(m) <= SIG + f
    BY UnitOf
  <1>4. PICK s \in Nat, power \in Nat \ {0} : s = SIG - 1 /\ power = 10 ^ s /\ SIG = s + 1
    <2>1. SIG - 1 \in Nat /\ SIG = (SIG - 1) + 1
      BY PriceTextAssumption
    <2> QED
      BY <2>1 DEF PowersOfTen
  <1>5. PICK x \in Nat, y \in Nat : x = Rounded(n) /\ y = Rounded(m)
    <2>1. Rounded(n) \in Nat /\ Rounded(m) \in Nat
      BY <1>1, RoundedNatural
    <2> QED
      BY <2>1
  <1>6. e <= f
    <2> SUFFICES ASSUME e > f PROVE FALSE
      OBVIOUS
    <2>1. u * power <= n
      BY <1>2, <1>4
    <2>2. m < 10 ^ Width(m) /\ Width(m) \in Nat
      <3>1. Width(m) \in 1..(2 * SCALE + SIG) /\ m < 10 ^ Width(m)
        BY WidthCounts
      <3>2. 2 * SCALE + SIG \in Nat
        BY PriceTextAssumption
      <3> QED
        BY <3>1, <3>2
    <2>3. Width(m) <= e + s
      BY <1>3, <1>4, <2>2
    <2>4. PICK a \in Nat, b \in Nat : a = 10 ^ Width(m) /\ b = 10 ^ (e + s) /\ a <= b
      BY <2>2, <2>3, PowerGrows DEF PowersOfTen
    <2>5. b = u * power
      BY <1>2, <1>4, <2>4, PowerSum
    <2> QED
      BY <2>1, <2>2, <2>4, <2>5
  <1>7. u <= v
    BY <1>2, <1>3, <1>6, PowerGrows
  <1>8. x <= y
    <2>1. CASE e = f
      <3>1. u = v
        BY <1>2, <1>3, <2>1
      <3>2. x = ((n + v \div 2) \div v) * v /\ y = ((m + v \div 2) \div v) * v
        BY <1>2, <1>3, <1>5, <3>1
      <3>3. ((n + v \div 2) \div v) * v <= ((m + v \div 2) \div v) * v
        <4>1. n <= m
          OBVIOUS
        <4> QED
          BY <4>1, RoundedInOrder
      <3> QED
        BY <3>2, <3>3
    <2>2. CASE e < f
      <3>1. v * power <= m
        BY <1>3, <1>4, <2>2
      <3>2. PICK b \in Nat : b = v * power
        OBVIOUS
      <3>3. n < 10 ^ Width(n) /\ Width(n) \in Nat
        <4>1. Width(n) \in 1..(2 * SCALE + SIG) /\ n < 10 ^ Width(n)
          BY <1>1, WidthCounts
        <4>2. 2 * SCALE + SIG \in Nat
          BY PriceTextAssumption
        <4> QED
          BY <4>1, <4>2
      <3>4. PICK g \in Nat : f = e + (g + 1) /\ f + s = e + (g + 1 + s)
        <4>1. f - e - 1 \in Nat /\ f = e + ((f - e - 1) + 1)
          BY <2>2
        <4>2. PICK g \in Nat : g = f - e - 1
          BY <4>1
        <4> QED
          BY <4>1, <4>2
      <3>5. Width(n) <= f + s
        BY <1>2, <1>4, <3>3, <3>4
      <3>6. n < b
        <4>1. PICK c \in Nat, d \in Nat : c = 10 ^ Width(n) /\ d = 10 ^ (f + s) /\ c <= d
          BY <3>3, <3>5, PowerGrows DEF PowersOfTen
        <4>2. d = b
          BY <1>3, <1>4, <3>2, <4>1, PowerSum
        <4> QED
          BY <3>3, <4>1, <4>2
      <3>7. PICK k \in Nat : b = k * u
        <4>1. g + 1 + s \in Nat
          OBVIOUS
        <4>2. PICK k \in Nat : k = 10 ^ (g + 1 + s)
          BY <4>1 DEF PowersOfTen
        <4>3. 10 ^ (f + s) = 10 ^ e * 10 ^ (g + 1 + s)
          BY <3>4, <4>1, PowerSum
        <4>4. 10 ^ (f + s) = b
          BY <1>3, <1>4, <3>2, PowerSum
        <4>5. b = u * k
          BY <1>2, <4>2, <4>3, <4>4
        <4> QED
          BY <4>5
      <3>8. x <= b
        BY <1>2, <1>5, <3>6, <3>7, RoundedBelow
      <3>9. power * v = b
        BY <3>2
      <3>10. b <= y
        BY <1>3, <1>5, <3>1, <3>2, <3>9, RoundedAbove
      <3> QED
        BY <3>8, <3>10
    <2> QED
      BY <1>6, <2>1, <2>2
  <1>9. CASE x = y
    <2>1. m - n < v
      BY <1>2, <1>3, <1>5, <1>7, <1>9, RoundedAlike
    <2>2. v # 1 /\ f # 0
      <3>1. v # 1
        BY <2>1
      <3>2. 10 ^ 0 = 1
        OBVIOUS
      <3> QED
        BY <1>3, <3>1, <3>2
    <2>3. v * power <= m
      BY <1>3, <1>4, <2>2
    <2>4. PICK d \in Nat : d = m - n /\ d >= 1 /\ d < v
      BY <2>1
    <2>5. d * power < m
      <3>1. (d + 1) * power <= v * power
        BY <2>4
      <3>2. (d + 1) * power = d * power + power /\ d * power \in Nat
        OBVIOUS
      <3> QED
        BY <2>3, <3>1, <3>2
    <2>6. (n - m) * power < n
      <3>1. (n - m) * power <= 0 - 1
        <4>1. (n - m) * power = 0 - (d * power)
          BY <2>4
        <4>2. d * power >= 1
          BY <2>4
        <4> QED
          BY <4>1, <4>2
      <3> QED
        BY <3>1
    <2>7. (m - n) * power < m
      BY <2>4, <2>5
    <2> QED
      BY <1>4, <1>5, <1>9, <2>6, <2>7 DEF TooClose
  <1>10. CASE x # y
    BY <1>5, <1>8, <1>10
  <1> QED
    BY <1>5, <1>9, <1>10

\* The verdict is that of exact arithmetic, unless the two are too close.
LEMMA ComparedExactly ==
    ASSUME PowersOfTen, NEW a \in RawAnswers, NEW d \in FeedDecimals,
           NEW t \in Thresholds, NEW op \in Operators,
           NEW price, price = Max({a, 0}) * 10 ^ (SCALE - d),
           NEW threshold, threshold = Exact(t)
    PROVE  /\ Compare(op, ParseFloat(PrintPrice(a, d)), ParseFloat(t)) \in BOOLEAN
           /\ \/ TooClose(price, threshold)
              \/ Compare(op, ParseFloat(PrintPrice(a, d)), ParseFloat(t))
                    = Compare(op, price, threshold)
  <1>1. a \in Int /\ d \in 0..SCALE
    BY ResolutionAssumption
  <1>2. op \in {"gt", "gte", "lt", "lte", "eq", "neq"}
    BY ResolutionAssumption
  <1>3. PICK n \in Nat, m \in Nat :
           /\ n = price /\ m = threshold
           /\ n < 10 ^ (2 * SCALE + SIG) /\ m < 10 ^ (2 * SCALE + SIG)
    BY <1>1, PriceBounded, ThresholdBounded
  <1>4. Exact(PrintPrice(a, d)) = n /\ Exact(t) = m
    BY <1>1, <1>3, PrintedPrice
  <1>5. PICK x \in Nat, y \in Nat : x = Rounded(n) /\ y = Rounded(m)
    <2>1. Rounded(n) \in Nat /\ Rounded(m) \in Nat
      BY <1>3, RoundedNatural
    <2> QED
      BY <2>1
  <1>6. ParseFloat(PrintPrice(a, d)) = x /\ ParseFloat(t) = y
    BY <1>4, <1>5 DEF ParseFloat
  <1>7. Compare(op, x, y) \in BOOLEAN
    <2>1. (x > y) \in BOOLEAN /\ (x >= y) \in BOOLEAN /\ (x < y) \in BOOLEAN /\ (x <= y) \in BOOLEAN
      OBVIOUS
    <2> QED
      BY <1>2, <2>1 DEF Compare
  <1>8. CASE n = m
    <2>1. x = y
      BY <1>5, <1>8
    <2>2. Compare(op, x, y) = Compare(op, n, m)
      BY <1>2, <1>8, <2>1 DEF Compare
    <2> QED
      BY <1>3, <1>6, <1>7, <2>2
  <1>9. CASE (n < m /\ x < y) \/ (m < n /\ y < x)
    <2>1. Compare(op, x, y) = Compare(op, n, m)
      BY <1>2, <1>9 DEF Compare
    <2> QED
      BY <1>3, <1>6, <1>7, <2>1
  <1>10. CASE TooClose(n, m)
    BY <1>3, <1>6, <1>7, <1>10
  <1>11. ASSUME n < m PROVE x < y \/ TooClose(n, m)
    BY <1>3, <1>5, <1>11, RoundedApart
  <1>12. ASSUME m < n PROVE y < x \/ TooClose(n, m)
    BY <1>3, <1>5, <1>12, RoundedApart
  <1> QED
    BY <1>8, <1>9, <1>10, <1>11, <1>12

-----------------------------------------------------------------------------
(* The inductive invariant *)

ClockInv ==
    /\ now \in Nat /\ market.deadline \in Nat
    /\ feed \in [decimals : FeedDecimals, answer : RawAnswers, updatedAt : Nat]
    /\ feed.updatedAt <= now

\* Only the steps of a price read the feed, and never before the deadline.
ReadInv ==
    /\ read.at \in Nat /\ read.updatedAt \in Nat
    /\ pc \in {"round", "description"} => /\ market.source = "CHAINLINK_PRICE"
                                          /\ now >= market.deadline
    /\ pc = "description" => read.at >= market.deadline
    /\ pc = "search" => market.source # "CHAINLINK_PRICE"

Timely == read.at >= market.deadline /\ read.updatedAt + STALE >= market.deadline

\* What is evaluated is a price that passed, and so is what was decided.
VerdictInv ==
    /\ pc \in {"asked", "open", "round", "description", "search", "evaluate"} => outcome = "NONE"
    /\ pc = "evaluate" /\ market.source = "CHAINLINK_PRICE" => Timely
    /\ DecidedByPrice => Timely

IInv == ClockInv /\ ReadInv /\ VerdictInv

LEMMA InvInit == Init => IInv
  BY DEF Init, IInv, ClockInv, ReadInv, VerdictInv, NoMarket, NoRead, DecidedByPrice

LEMMA ParseInv == ASSUME IInv, Parse \/ ParseFails PROVE IInv'
  <1>1. CASE ParseFails
    BY <1>1 DEF ParseFails, IInv, ClockInv, ReadInv, VerdictInv, Timely, DecidedByPrice
  <1>2. CASE Parse
    <2>1. market'.deadline \in Nat
      BY <1>2, ResolutionAssumption DEF Parse
    <2> QED
      BY <1>2, <2>1 DEF Parse, IInv, ClockInv, ReadInv, VerdictInv, Timely, DecidedByPrice
  <1> QED
    BY <1>1, <1>2

LEMMA OracleInv ==
    ASSUME IInv, StartResolve \/ OracleFails \/ ReadRound \/ FinishPrice \/ SearchReplies
    PROVE  IInv'
  <1>1. CASE StartResolve
    BY <1>1 DEF StartResolve, Void, IInv, ClockInv, ReadInv, VerdictInv, Timely, DecidedByPrice
  <1>2. CASE OracleFails
    BY <1>2 DEF OracleFails, Void, IInv, ClockInv, ReadInv, VerdictInv, Timely, DecidedByPrice
  <1>3. CASE ReadRound
    BY <1>3 DEF ReadRound, IInv, ClockInv, ReadInv, VerdictInv, Timely, DecidedByPrice
  <1>4. CASE FinishPrice
    <2>1. CASE now - read.updatedAt > STALE
      BY <1>4, <2>1, ResolutionAssumption
         DEF FinishPrice, Void, IInv, ClockInv, ReadInv, VerdictInv, Timely, DecidedByPrice
    <2>2. CASE now - read.updatedAt <= STALE
      <3>1. now >= market.deadline /\ read.at >= market.deadline
        BY <1>4 DEF FinishPrice, IInv, ReadInv
      <3>2. Timely
        BY <2>2, <3>1, ResolutionAssumption DEF Timely, IInv, ClockInv, ReadInv
      <3> QED
        BY <1>4, <2>2, <3>2, ResolutionAssumption
           DEF FinishPrice, IInv, ClockInv, ReadInv, VerdictInv, Timely, DecidedByPrice
    <2> QED
      BY <1>4, <2>1, <2>2 DEF FinishPrice
  <1>5. CASE SearchReplies
    BY <1>5 DEF SearchReplies, IInv, ClockInv, ReadInv, VerdictInv, Timely, DecidedByPrice
  <1> QED
    BY <1>1, <1>2, <1>3, <1>4, <1>5

LEMMA AgentInv ==
    ASSUME IInv, EvaluatePrice \/ AgentReplies \/ AgentFails \/ Settle PROVE IInv'
  <1>1. CASE EvaluatePrice
    BY <1>1 DEF EvaluatePrice, IInv, ClockInv, ReadInv, VerdictInv, Timely, DecidedByPrice
  <1>2. CASE AgentReplies \/ AgentFails
    BY <1>2 DEF AgentReplies, AgentFails, Void, IInv, ClockInv, ReadInv, VerdictInv, Timely,
                DecidedByPrice
  <1>3. CASE Settle
    BY <1>3 DEF Settle, IInv, ClockInv, ReadInv, VerdictInv, Timely, DecidedByPrice
  <1> QED
    BY <1>1, <1>2, <1>3

LEMMA WorldInv == ASSUME IInv, Tick \/ FeedMoves \/ UNCHANGED vars PROVE IInv'
  <1>1. CASE Tick
    BY <1>1 DEF Tick, IInv, ClockInv, ReadInv, VerdictInv, Timely, DecidedByPrice
  <1>2. CASE FeedMoves
    <2>1. PICK a \in RawAnswers : feed' = [feed EXCEPT !.answer = a, !.updatedAt = now]
      BY <1>2 DEF FeedMoves
    <2>2. /\ feed' \in [decimals : FeedDecimals, answer : RawAnswers, updatedAt : Nat]
          /\ feed'.updatedAt = now
      BY <2>1 DEF IInv, ClockInv
    <2>3. ClockInv'
      <3>1. UNCHANGED <<now, market>>
        BY <1>2 DEF FeedMoves
      <3> QED
        BY <2>2, <3>1 DEF IInv, ClockInv
    <2>4. ReadInv' /\ VerdictInv'
      BY <1>2 DEF FeedMoves, IInv, ReadInv, VerdictInv, Timely, DecidedByPrice
    <2> QED
      BY <2>3, <2>4 DEF IInv
  <1>3. CASE UNCHANGED vars
    BY <1>3 DEF vars, IInv, ClockInv, ReadInv, VerdictInv, Timely, DecidedByPrice
  <1> QED
    BY <1>1, <1>2, <1>3

-----------------------------------------------------------------------------
(* Types *)

LEMMA TypeInit == Init => TypeOK
  <1> SUFFICES ASSUME Init PROVE TypeOK
    OBVIOUS
  <1>1. 1 \in 1..MaxTime
    BY ResolutionAssumption
  <1>2. PICK a \in RawAnswers, d \in FeedDecimals : feed = [decimals |-> d, answer |-> a, updatedAt |-> 1]
    BY DEF Init
  <1> QED
    BY <1>1, <1>2 DEF Init, TypeOK, NoOracle, Outcomes

LEMMA TypeParse == ASSUME TypeOK, Parse \/ ParseFails PROVE TypeOK'
  <1>1. CASE ParseFails
    BY <1>1 DEF ParseFails, TypeOK
  <1>2. CASE Parse
    <2>1. now \in 1..MaxTime /\ MaxTime \in Nat
      BY ResolutionAssumption DEF TypeOK
    <2>2. PICK s \in Sources, known \in BOOLEAN, op \in Operators, t \in Thresholds, d \in 1..MaxTime :
             /\ d > now
             /\ market' = [source |-> s, feedKnown |-> known, operator |-> op,
                           threshold |-> t, deadline |-> d]
      BY <1>2 DEF Parse
    <2>3. d \in 2..MaxTime
      BY <2>1, <2>2
    <2> QED
      BY <1>2, <2>2, <2>3 DEF Parse, TypeOK
  <1> QED
    BY <1>1, <1>2

\* The printed price has a digit after the point, and no more than SCALE.
LEMMA TypePrice == ASSUME PowersOfTen, TypeOK, FinishPrice PROVE TypeOK'
  <1>1. CASE now - read.updatedAt > STALE /\ Void /\ UNCHANGED oracle
    BY <1>1 DEF FinishPrice, Void, Outcomes, TypeOK
  <1>2. CASE /\ oracle' = [kind |-> "price", text |-> PrintPrice(read.answer, feed.decimals)]
             /\ pc' = "evaluate"
             /\ UNCHANGED outcome
    <2>1. read.answer \in Int /\ feed.decimals \in 0..SCALE
      <3>1. (read = NoRead \/ read.answer \in RawAnswers) /\ feed.decimals \in FeedDecimals
        BY DEF TypeOK
      <3>2. RawAnswers \subseteq Int /\ FeedDecimals \subseteq 0..SCALE
        BY ResolutionAssumption
      <3>3. read.answer = 0 \/ read.answer \in RawAnswers
        BY <3>1 DEF NoRead
      <3>4. \A r : r \in RawAnswers => r \in Int
        BY <3>2
      <3>5. read.answer \in Int
        BY <3>3, <3>4
      <3>6. feed.decimals \in 0..SCALE
        BY <3>1, <3>2, Zenon
      <3> QED
        BY <3>5, <3>6
    <2>2. PICK text : text = PrintPrice(read.answer, feed.decimals)
      OBVIOUS
    <2>3. Len(text.frac) \in 1..SCALE
      BY <2>1, <2>2, PrintedPrice
    <2>4. oracle'.kind = "price" /\ oracle'.text = text
      BY <1>2, <2>2
    <2> QED
      BY <1>2, <2>3, <2>4 DEF FinishPrice, TypeOK
  <1> QED
    BY <1>1, <1>2 DEF FinishPrice

LEMMA TypeOracle ==
    ASSUME TypeOK, StartResolve \/ OracleFails \/ ReadRound \/ SearchReplies PROVE TypeOK'
  <1>1. CASE StartResolve
    BY <1>1 DEF StartResolve, Void, Outcomes, TypeOK
  <1>2. CASE OracleFails
    BY <1>2 DEF OracleFails, Void, Outcomes, TypeOK
  <1>3. CASE ReadRound
    BY <1>3 DEF ReadRound, TypeOK
  <1>4. CASE SearchReplies
    <2>1. PICK kind \in {"finding", "not found"} : oracle' = [NoOracle EXCEPT !.kind = kind]
      BY <1>4 DEF SearchReplies
    <2>2. oracle'.kind = kind
      BY <2>1 DEF NoOracle
    <2> QED
      BY <1>4, <2>2 DEF SearchReplies, TypeOK
  <1> QED
    BY <1>1, <1>2, <1>3, <1>4

LEMMA TypeAgent ==
    ASSUME TypeOK, EvaluatePrice \/ AgentReplies \/ AgentFails \/ Settle PROVE TypeOK'
  <1>1. CASE EvaluatePrice
    BY <1>1 DEF EvaluatePrice, NumericVerdict, Outcomes, TypeOK
  <1>2. CASE AgentReplies \/ AgentFails
    BY <1>2 DEF AgentReplies, AgentFails, Void, Outcomes, TypeOK
  <1>3. CASE Settle
    BY <1>3 DEF Settle, TypeOK
  <1> QED
    BY <1>1, <1>2, <1>3

LEMMA TypeWorld == ASSUME IInv, TypeOK, Tick \/ FeedMoves \/ UNCHANGED vars PROVE TypeOK'
  <1>1. CASE Tick
    <2>1. now \in 1..MaxTime /\ feed.updatedAt \in 1..now /\ MaxTime \in Nat
      BY ResolutionAssumption DEF TypeOK
    <2>2. now' \in 1..MaxTime /\ feed'.updatedAt \in 1..now'
      BY <1>1, <2>1 DEF Tick
    <2> QED
      BY <1>1, <2>2 DEF Tick, TypeOK
  <1>2. CASE FeedMoves
    <2>1. PICK a \in RawAnswers : feed' = [feed EXCEPT !.answer = a, !.updatedAt = now]
      BY <1>2 DEF FeedMoves
    <2>2. feed'.decimals = feed.decimals /\ feed'.answer = a /\ feed'.updatedAt = now
      BY <2>1 DEF IInv, ClockInv
    <2>3. now \in 1..now
      <3>1. now \in 1..MaxTime
        BY DEF TypeOK
      <3> QED
        BY <3>1, ResolutionAssumption
    <2> QED
      BY <1>2, <2>2, <2>3 DEF FeedMoves, TypeOK
  <1>3. CASE UNCHANGED vars
    BY <1>3 DEF vars, TypeOK
  <1> QED
    BY <1>1, <1>2, <1>3

-----------------------------------------------------------------------------
(* The price and the verdict *)

\* What the verdict on a price is, by the code.
Verdict(op, t, a, d) ==
    IF Compare(op, ParseFloat(PrintPrice(a, d)), ParseFloat(t)) THEN "YES" ELSE "NO"

Chosen == market.operator \in Operators /\ market.threshold \in Thresholds

\* What was read is what is printed, compared and decided on: the feed moves
\* on, but its decimals and the accepted condition stay.
PriceInv ==
    /\ pc \in {"open", "round", "description", "search", "evaluate"} => Chosen
    /\ pc = "description" => read.answer \in RawAnswers
    /\ pc = "evaluate" /\ market.source = "CHAINLINK_PRICE" =>
          /\ read.answer \in RawAnswers
          /\ \E a \in RawAnswers, d \in FeedDecimals :
                a = read.answer /\ d = feed.decimals /\ oracle.text = PrintPrice(a, d)
    /\ DecidedByPrice =>
          \E op \in Operators, t \in Thresholds, a \in RawAnswers, d \in FeedDecimals :
             /\ op = market.operator /\ t = market.threshold
             /\ a = read.answer /\ d = feed.decimals
             /\ outcome = Verdict(op, t, a, d)

LEMMA PriceInit == Init => PriceInv
  BY DEF Init, PriceInv, DecidedByPrice, NoMarket

LEMMA PriceParse == ASSUME IInv, PriceInv, Parse \/ ParseFails PROVE PriceInv'
  <1>1. outcome = "NONE" /\ outcome' = outcome
    BY DEF Parse, ParseFails, IInv, VerdictInv
  <1>2. ~DecidedByPrice'
    BY <1>1 DEF DecidedByPrice
  <1>3. CASE ParseFails
    BY <1>2, <1>3 DEF ParseFails, PriceInv
  <1>4. CASE Parse
    <2>1. market'.operator \in Operators /\ market'.threshold \in Thresholds
      BY <1>4 DEF Parse
    <2> QED
      BY <1>2, <1>4, <2>1 DEF Parse, PriceInv, Chosen
  <1> QED
    BY <1>3, <1>4

\* Until the price is evaluated, what was asked and what was read stay.
LEMMA PriceOracle ==
    ASSUME IInv, TypeOK, PriceInv,
           StartResolve \/ OracleFails \/ ReadRound \/ FinishPrice \/ SearchReplies
    PROVE  PriceInv'
  <1>1. ~DecidedByPrice'
    <2>1. outcome = "NONE"
      BY DEF StartResolve, OracleFails, ReadRound, FinishPrice, SearchReplies, IInv, VerdictInv
    <2>2. outcome' \in {"NONE", "VOID"}
      BY <2>1 DEF StartResolve, OracleFails, ReadRound, FinishPrice, SearchReplies, Void
    <2> QED
      BY <2>2 DEF DecidedByPrice
  <1>2. CASE StartResolve
    BY <1>1, <1>2 DEF StartResolve, Void, PriceInv, Chosen
  <1>3. CASE OracleFails
    BY <1>1, <1>3 DEF OracleFails, Void, PriceInv, Chosen
  <1>4. CASE ReadRound
    <2>1. read'.answer \in RawAnswers
      BY <1>4 DEF ReadRound, TypeOK
    <2> QED
      BY <1>1, <1>4, <2>1 DEF ReadRound, PriceInv, Chosen
  <1>5. CASE FinishPrice
    <2>1. CASE pc' = "settle"
      BY <1>1, <2>1 DEF PriceInv
    <2>2. CASE oracle' = [kind |-> "price", text |-> PrintPrice(read.answer, feed.decimals)]
      <3>1. PICK a \in RawAnswers, d \in FeedDecimals : a = read.answer /\ d = feed.decimals
        BY <1>5 DEF FinishPrice, PriceInv, TypeOK
      <3>2. oracle'.text = PrintPrice(a, d)
        BY <2>2, <3>1
      <3>3. UNCHANGED <<market, feed, read>> /\ pc' \in {"settle", "evaluate"} /\ Chosen
        BY <1>5 DEF FinishPrice, Void, PriceInv
      <3>4. a = read'.answer /\ d = feed'.decimals
        BY <3>1, <3>3
      <3> QED
        BY <1>1, <3>1, <3>2, <3>3, <3>4 DEF PriceInv, Chosen
    <2> QED
      BY <1>5, <2>1, <2>2 DEF FinishPrice, Void
  <1>6. CASE SearchReplies
    <2>1. market.source # "CHAINLINK_PRICE"
      BY <1>6 DEF SearchReplies, IInv, ReadInv
    <2> QED
      BY <1>1, <1>6, <2>1 DEF SearchReplies, PriceInv, Chosen
  <1> QED
    BY <1>2, <1>3, <1>4, <1>5, <1>6

LEMMA PriceAgent ==
    ASSUME IInv, PriceInv, EvaluatePrice \/ AgentReplies \/ AgentFails \/ Settle PROVE PriceInv'
  <1>1. CASE EvaluatePrice
    <2>1. PICK op \in Operators, t \in Thresholds : op = market.operator /\ t = market.threshold
      BY <1>1 DEF EvaluatePrice, PriceInv, Chosen
    <2>2. PICK a \in RawAnswers, d \in FeedDecimals :
             a = read.answer /\ d = feed.decimals /\ oracle.text = PrintPrice(a, d)
      BY <1>1 DEF EvaluatePrice, PriceInv
    <2>3. outcome' = Verdict(op, t, a, d)
      BY <1>1, <2>1, <2>2 DEF EvaluatePrice, NumericVerdict, Verdict
    <2>4. UNCHANGED <<market, feed, read>> /\ pc' = "settle"
      BY <1>1 DEF EvaluatePrice
    <2>5. op = market'.operator /\ t = market'.threshold /\ a = read'.answer /\ d = feed'.decimals
      BY <2>1, <2>2, <2>4
    <2> QED
      BY <2>3, <2>4, <2>5 DEF PriceInv
  <1>2. CASE AgentReplies \/ AgentFails
    <2>1. market.source # "CHAINLINK_PRICE" /\ market' = market /\ pc' = "settle"
      BY <1>2 DEF AgentReplies, AgentFails, Void
    <2> QED
      BY <2>1 DEF PriceInv, DecidedByPrice
  <1>3. CASE Settle
    BY <1>3 DEF Settle, PriceInv, DecidedByPrice
  <1> QED
    BY <1>1, <1>2, <1>3

LEMMA PriceWorld == ASSUME IInv, PriceInv, Tick \/ FeedMoves \/ UNCHANGED vars PROVE PriceInv'
  <1>1. feed'.decimals = feed.decimals
    BY DEF Tick, FeedMoves, vars, IInv, ClockInv
  <1>2. UNCHANGED <<market, pc, read, oracle, outcome>>
    BY DEF Tick, FeedMoves, vars
  <1> QED
    BY <1>1, <1>2 DEF PriceInv, Chosen, DecidedByPrice

\* The code's verdict is the one of exact arithmetic.
LEMMA PriceIsExact == ASSUME PowersOfTen, PriceInv PROVE VerdictMatchesPrice
  <1> SUFFICES ASSUME DecidedByPrice PROVE VerdictMatchesPrice
    BY DEF VerdictMatchesPrice
  <1>1. PICK op \in Operators, t \in Thresholds, a \in RawAnswers, d \in FeedDecimals :
           /\ op = market.operator /\ t = market.threshold
           /\ a = read.answer /\ d = feed.decimals
           /\ outcome = Verdict(op, t, a, d)
    BY DEF PriceInv
  <1>2. PICK price, threshold : price = Max({a, 0}) * 10 ^ (SCALE - d) /\ threshold = Exact(t)
    OBVIOUS
  <1>3. \/ TooClose(price, threshold)
        \/ Compare(op, ParseFloat(PrintPrice(a, d)), ParseFloat(t)) = Compare(op, price, threshold)
    BY <1>2, ComparedExactly
  <1>4. (outcome = "YES") = Compare(op, ParseFloat(PrintPrice(a, d)), ParseFloat(t))
    <2>1. PICK decided \in BOOLEAN : decided = Compare(op, ParseFloat(PrintPrice(a, d)), ParseFloat(t))
      BY <1>2, ComparedExactly
    <2> QED
      BY <1>1, <2>1 DEF Verdict
  <1>5. \/ TooClose(price, threshold)
        \/ (outcome = "YES") = Compare(op, price, threshold)
    BY <1>3, <1>4
  <1> QED
    BY <1>1, <1>2, <1>5 DEF VerdictMatchesPrice

-----------------------------------------------------------------------------
(* The theorems *)

LEMMA Invariance == FairSpec => []IInv
  <1>1. IInv /\ [Next]_vars => IInv'
    BY ParseInv, OracleInv, AgentInv, WorldInv DEF Next, Resolve
  <1> QED
    BY InvInit, <1>1, PTL DEF FairSpec

LEMMA TypeStep == ASSUME PowersOfTen, IInv, TypeOK, [Next]_vars PROVE TypeOK'
  BY TypeParse, TypePrice, TypeOracle, TypeAgent, TypeWorld DEF Next, Resolve

LEMMA PriceStep == ASSUME IInv, TypeOK, PriceInv, [Next]_vars PROVE PriceInv'
  BY PriceParse, PriceOracle, PriceAgent, PriceWorld DEF Next, Resolve

\* A verdict on a price rests on one that fetchPrice read after the deadline
\* and that was at most STALE old when the market closed.
THEOREM PricesAreTimely == FairSpec => []PriceIsOfTheDeadline
  <1>1. IInv => PriceIsOfTheDeadline
    BY DEF IInv, VerdictInv, Timely, PriceIsOfTheDeadline
  <1> QED
    BY Invariance, <1>1, PTL

\* Times, answers, texts and outcomes are what the code's types allow; a
\* printed price has at least one digit after the point and at most SCALE.
THEOREM TypeCorrect == ASSUME PowersOfTen PROVE FairSpec => []TypeOK
  <1>1. IInv /\ TypeOK /\ [Next]_vars => TypeOK'
    BY TypeStep
  <1> QED
    BY Invariance, TypeInit, <1>1, PTL DEF FairSpec

\* Scaling, padding, trimming, parsing and comparing never decide otherwise
\* than exact arithmetic on the feed's integer and the threshold would, except
\* between two numbers less than a unit of the SIG-th digit apart, which
\* parseFloat makes the same.
THEOREM VerdictsAreExact == ASSUME PowersOfTen PROVE FairSpec => []VerdictMatchesPrice
  <1>1. IInv /\ TypeOK /\ PriceInv /\ [Next]_vars => PriceInv'
    BY PriceStep
  <1>2. PriceInv => VerdictMatchesPrice
    BY PriceIsExact
  <1> QED
    BY Invariance, TypeCorrect, PriceInit, <1>1, <1>2, PTL DEF FairSpec

=============================================================================
