---------------------------------- MODULE Sums ----------------------------------
(*****************************************************************************)
(* Sums of natural numbers over a finite set, as the ledgers of the escrow   *)
(* contract and the pools of the stake mirror use them.                      *)
(*                                                                           *)
(* The folds of the community modules are recursive functions on the subsets *)
(* of a set.  The proofs work with a measure instead: a function m on the    *)
(* subsets of D that grows by f[x] when x is added.  A finite set has one,   *)
(* every measure satisfies the recursion of the fold, and the recursion has  *)
(* at most one solution, so the fold of D is m[D].                           *)
(*                                                                           *)
(* Induction over finite sets is done by hand: a family of subsets of a      *)
(* finite set that is not empty has a smallest member.                       *)
(*****************************************************************************)
EXTENDS Integers, FiniteSetsExt, FiniteSetTheorems, TLAPS

IsMeasure(D, f, m) ==
    /\ m \in [SUBSET D -> Nat]
    /\ m[{}] = 0
    /\ \A S \in SUBSET D : \A x \in D \ S : m[S \cup {x}] = m[S] + f[x]

\* The values f[x], x in D, sum up to T.
SumsTo(D, f, T) == \E m : IsMeasure(D, f, m) /\ m[D] = T

Natural(D, f) == \A x \in D : f[x] \in Nat

-----------------------------------------------------------------------------
(* Finite sets *)

\* Of the subsets of a finite set that a family holds, one holds no smaller one.
LEMMA SmallestMember ==
    ASSUME NEW D, IsFiniteSet(D), NEW F \in SUBSET SUBSET D, F # {}
    PROVE  \E S \in F : \A T \in F : T \subseteq S => T = S
  <1>1. IsWellFoundedOn(StrictSubsetOrdering(D), FiniteSubsetsOf(D))
    BY FS_StrictSubsetOrderingWellFounded
  <1>2. FiniteSubsetsOf(D) = SUBSET D
    BY FS_FiniteSubsetsOfFinite
  <1>3. F \subseteq FiniteSubsetsOf(D)
    BY <1>2
  <1>4. \E S \in F : \A T \in F : ~(<<T, S>> \in StrictSubsetOrdering(D))
    BY <1>1, <1>3, WFMin
  <1>5. PICK S \in F : \A T \in F : <<T, S>> \notin StrictSubsetOrdering(D)
    BY <1>4
  <1>6. ASSUME NEW T \in F, T \subseteq S, T # S
        PROVE  FALSE
    BY <1>5, <1>6 DEF StrictSubsetOrdering
  <1> QED
    BY <1>5, <1>6

-----------------------------------------------------------------------------
(* Every natural function on a finite set has a sum. *)

\* A measure of S extends to one of S and one more element.
LEMMA MeasureExtends ==
    ASSUME NEW S, NEW u, u \notin S, NEW E, E = S \cup {u},
           NEW f, Natural(E, f), NEW m, IsMeasure(S, f, m)
    PROVE  \E n : IsMeasure(E, f, n) /\ n[E] = m[S] + f[u]
  <1> DEFINE n == [A \in SUBSET E |-> IF u \in A THEN m[A \ {u}] + f[u] ELSE m[A]]
  <1>1. /\ \A A \in SUBSET S : m[A] \in Nat
        /\ m[{}] = 0
        /\ \A A \in SUBSET S : \A x \in S \ A : m[A \cup {x}] = m[A] + f[x]
        /\ \A x \in E : f[x] \in Nat
    BY DEF IsMeasure, Natural
  <1>2. ASSUME NEW A \in SUBSET E
        PROVE  /\ A \ {u} \in SUBSET S
               /\ u \notin A => A \in SUBSET S
    OBVIOUS
  <1>3. n \in [SUBSET E -> Nat]
    <2> SUFFICES ASSUME NEW A \in SUBSET E
                 PROVE  (IF u \in A THEN m[A \ {u}] + f[u] ELSE m[A]) \in Nat
      OBVIOUS
    <2> QED
      BY <1>1, <1>2
  <1>4. n[{}] = 0
    BY <1>1
  <1>5. ASSUME NEW A \in SUBSET E, NEW x \in E \ A
        PROVE  n[A \cup {x}] = n[A] + f[x]
    <2>1. CASE x = u
      <3>1. (A \cup {x}) \ {u} = A /\ A \in SUBSET S
        BY <2>1
      <3> QED
        BY <2>1, <3>1
    <2>2. CASE x # u /\ u \notin A
      <3>1. A \in SUBSET S /\ x \in S \ A /\ u \notin A \cup {x} /\ A \cup {x} \in SUBSET E
        BY <2>2
      <3> QED
        BY <1>1, <2>2, <3>1
    <2>3. CASE x # u /\ u \in A
      <3>1. /\ (A \cup {x}) \ {u} = (A \ {u}) \cup {x}
            /\ A \ {u} \in SUBSET S /\ x \in S \ (A \ {u})
            /\ A \cup {x} \in SUBSET E
        BY <2>3
      <3>2. m[(A \ {u}) \cup {x}] = m[A \ {u}] + f[x]
        BY <1>1, <3>1
      <3>3. n[A \cup {x}] = m[(A \ {u}) \cup {x}] + f[u] /\ n[A] = m[A \ {u}] + f[u]
        BY <2>3, <3>1
      <3>4. m[A \ {u}] \in Nat /\ f[x] \in Nat /\ f[u] \in Nat
        BY <1>1, <3>1
      <3> HIDE DEF n
      <3> QED
        BY <3>2, <3>3, <3>4
    <2> QED
      BY <2>1, <2>2, <2>3
  <1>6. n[E] = m[S] + f[u]
    <2>1. E \ {u} = S /\ u \in E /\ E \in SUBSET E
      OBVIOUS
    <2> QED
      BY <2>1
  <1> QED
    BY <1>3, <1>4, <1>5, <1>6 DEF IsMeasure

\* A set that does not have a measure would have a smallest subset without one.
LEMMA MeasureExists ==
    ASSUME NEW D, IsFiniteSet(D), NEW f, Natural(D, f)
    PROVE  \E m : IsMeasure(D, f, m)
  <1> DEFINE Bad == {S \in SUBSET D : ~\E m : IsMeasure(S, f, m)}
  <1> SUFFICES ASSUME Bad # {} PROVE FALSE
    <2>1. D \in SUBSET D
      OBVIOUS
    <2> QED
      BY <2>1
  <1>1. Bad \in SUBSET SUBSET D
    OBVIOUS
  <1>2. PICK S \in Bad : \A T \in Bad : T \subseteq S => T = S
    <2> HIDE DEF Bad
    <2> QED
      BY <1>1, SmallestMember
  <1>3. S # {}
    <2>1. IsMeasure({}, f, [A \in SUBSET {} |-> 0])
      BY DEF IsMeasure
    <2> QED
      BY <2>1
  <1>4. PICK u \in S : TRUE
    BY <1>3
  <1>5. S \ {u} \notin Bad /\ S \ {u} \in SUBSET D /\ S = (S \ {u}) \cup {u}
    BY <1>2, <1>4
  <1>6. PICK m : IsMeasure(S \ {u}, f, m)
    BY <1>5
  <1>7. Natural(S, f)
    BY <1>2 DEF Natural
  <1> DEFINE R == S \ {u}
  <1>8. u \notin R /\ S = R \cup {u} /\ IsMeasure(R, f, m)
    BY <1>5, <1>6
  <1> HIDE DEF R
  <1>9. \E n : IsMeasure(S, f, n)
    BY <1>7, <1>8, MeasureExtends
  <1> QED
    BY <1>2, <1>9

LEMMA SumExists ==
    ASSUME NEW D, IsFiniteSet(D), NEW f, Natural(D, f)
    PROVE  \E T \in Nat : SumsTo(D, f, T)
  <1>1. PICK m : IsMeasure(D, f, m)
    BY MeasureExists
  <1>2. m[D] \in Nat /\ SumsTo(D, f, m[D])
    BY <1>1 DEF SumsTo, IsMeasure
  <1> QED
    BY <1>2

-----------------------------------------------------------------------------
(* The fold *)

\* g solves the recursion by which the community modules fold f over D.
Folds(D, f, g) ==
    g = [S \in SUBSET D |-> IF S = {} THEN 0
                            ELSE LET x == CHOOSE x \in S : TRUE
                                 IN  f[x] + g[S \ {x}]]

LEMMA MeasureFolds ==
    ASSUME NEW D, NEW f, Natural(D, f), NEW m, IsMeasure(D, f, m)
    PROVE  Folds(D, f, m)
  <1>1. ASSUME NEW S \in SUBSET D, S # {}, NEW x \in S
        PROVE  m[S] = f[x] + m[S \ {x}]
    <2> DEFINE R == S \ {x}
    <2>1. R \in SUBSET D /\ x \in D \ R /\ S = R \cup {x}
      OBVIOUS
    <2> HIDE DEF R
    <2>2. m[R \cup {x}] = m[R] + f[x]
      BY <2>1 DEF IsMeasure
    <2>3. m[R] \in Nat /\ f[x] \in Nat
      BY <2>1 DEF IsMeasure, Natural
    <2>4. m[S] = f[x] + m[R]
      <3>1. m[S] = m[R \cup {x}]
        BY <2>1, Zenon
      <3> QED
        BY <2>2, <2>3, <3>1
    <2> QED
      BY <2>4 DEF R
  <1>2. ASSUME NEW S \in SUBSET D
        PROVE  m[S] = IF S = {} THEN 0 ELSE LET x == CHOOSE x \in S : TRUE
                                            IN  f[x] + m[S \ {x}]
    <2>1. CASE S = {}
      BY <2>1 DEF IsMeasure
    <2>2. CASE S # {}
      <3>1. (CHOOSE x \in S : TRUE) \in S
        BY <2>2
      <3> QED
        BY <1>1, <2>2, <3>1
    <2> QED
      BY <2>1, <2>2
  <1> QED
    BY <1>2 DEF Folds, IsMeasure

\* A solution of the recursion agrees with a measure: where it did not, there
\* would be a smallest set on which it does not.
LEMMA FoldIsMeasure ==
    ASSUME NEW D, IsFiniteSet(D), NEW f, Natural(D, f), NEW m, IsMeasure(D, f, m),
           NEW g, Folds(D, f, g)
    PROVE  g[D] = m[D]
  <1> DEFINE Bad == {S \in SUBSET D : g[S] # m[S]}
  <1> SUFFICES ASSUME Bad # {} PROVE FALSE
    <2>1. D \in SUBSET D
      OBVIOUS
    <2> QED
      BY <2>1
  <1>0. Folds(D, f, m)
    BY MeasureFolds
  <1>1. Bad \in SUBSET SUBSET D
    OBVIOUS
  <1>2. PICK S \in Bad : \A T \in Bad : T \subseteq S => T = S
    <2> HIDE DEF Bad
    <2> QED
      BY <1>1, SmallestMember
  <1>3. S \in SUBSET D /\ S # {}
    BY <1>0 DEF Folds
  <1> DEFINE x == CHOOSE x \in S : TRUE
  <1>4. x \in S
    BY <1>3
  <1>5. g[S] = f[x] + g[S \ {x}] /\ m[S] = f[x] + m[S \ {x}]
    BY <1>0, <1>3 DEF Folds
  <1> HIDE DEF x
  <1>6. S \ {x} \notin Bad /\ S \ {x} \in SUBSET D
    BY <1>2, <1>3, <1>4
  <1> QED
    BY <1>2, <1>5, <1>6

\* The community modules' sum of a function, and of a mapped set.
LEMMA SumOfFunction ==
    ASSUME NEW D, IsFiniteSet(D), NEW f, DOMAIN f = D, Natural(D, f),
           NEW T, SumsTo(D, f, T)
    PROVE  FoldFunction(LAMBDA x, y : x + y, 0, f) = T
  <1>1. PICK m : IsMeasure(D, f, m) /\ m[D] = T
    BY DEF SumsTo
  <1> DEFINE g == CHOOSE g : Folds(D, f, g)
  <1>2. Folds(D, f, g)
    BY <1>1, MeasureFolds
  <1>3. FoldFunction(LAMBDA x, y : x + y, 0, f) = g[D]
    BY DEF FoldFunction, FoldFunctionOnSet, MapThenFoldSet, Folds
  <1> HIDE DEF g
  <1> QED
    BY <1>1, <1>2, <1>3, FoldIsMeasure

-----------------------------------------------------------------------------
(* What the proofs about ledgers need of a sum. *)

LEMMA SumUnique ==
    ASSUME NEW D, IsFiniteSet(D), NEW f, Natural(D, f),
           NEW T, SumsTo(D, f, T), NEW U, SumsTo(D, f, U)
    PROVE  T = U
  <1>1. PICK m : IsMeasure(D, f, m) /\ m[D] = T
    BY DEF SumsTo
  <1>2. PICK n : IsMeasure(D, f, n) /\ n[D] = U
    BY DEF SumsTo
  <1> QED
    BY <1>1, <1>2, MeasureFolds, FoldIsMeasure

LEMMA SumZero ==
    ASSUME NEW D, NEW f, \A x \in D : f[x] = 0
    PROVE  SumsTo(D, f, 0)
  <1> DEFINE m == [S \in SUBSET D |-> 0]
  <1>1. IsMeasure(D, f, m) /\ m[D] = 0
    BY DEF IsMeasure
  <1> QED
    BY <1>1 DEF SumsTo

LEMMA SumSingleOut ==
    ASSUME NEW D, NEW f, NEW m, IsMeasure(D, f, m), NEW S, S \subseteq D, NEW x \in S
    PROVE  \E rest \in Nat : m[S] = rest + f[x]
  <1> DEFINE R == S \ {x}
  <1>1. R \in SUBSET D /\ x \in D \ R /\ S = R \cup {x}
    OBVIOUS
  <1> HIDE DEF R
  <1>2. m[R \cup {x}] = m[R] + f[x] /\ m[R] \in Nat
    BY <1>1 DEF IsMeasure
  <1>3. m[S] = m[R \cup {x}]
    BY <1>1, Zenon
  <1> QED
    BY <1>2, <1>3

\* A sum is a natural number and at least each of its terms.
LEMMA SumMember ==
    ASSUME NEW D, NEW f \in [D -> Nat], NEW T, SumsTo(D, f, T), NEW x \in D
    PROVE  T \in Nat /\ f[x] <= T
  <1>1. PICK m : IsMeasure(D, f, m) /\ m[D] = T
    BY DEF SumsTo
  <1> DEFINE S == D
  <1>2. S \subseteq D /\ x \in S /\ IsMeasure(D, f, m) /\ m[S] = T
    BY <1>1
  <1> HIDE DEF S
  <1>3. \E rest \in Nat : m[S] = rest + f[x]
    BY <1>2, SumSingleOut
  <1> QED
    BY <1>2, <1>3

\* Changing one term changes the sum by as much.
LEMMA SumChange ==
    ASSUME NEW D, NEW f \in [D -> Nat], NEW T, SumsTo(D, f, T), NEW u \in D, NEW x \in Nat
    PROVE  SumsTo(D, [f EXCEPT ![u] = x], T - f[u] + x)
  <1> DEFINE g == [f EXCEPT ![u] = x]
  <1>1. PICK m : IsMeasure(D, f, m) /\ m[D] = T
    BY DEF SumsTo
  <1>0. IsMeasure(D, f, m)
    BY <1>1
  <1> DEFINE n == [S \in SUBSET D |-> IF u \in S THEN m[S] - f[u] + x ELSE m[S]]
  <1>2. \A S \in SUBSET D : m[S] \in Nat
    BY <1>1 DEF IsMeasure
  <1>3. \A S \in SUBSET D : u \in S => m[S] - f[u] \in Nat
    <2> SUFFICES ASSUME NEW S, S \subseteq D, u \in S
                 PROVE  m[S] - f[u] \in Nat
      OBVIOUS
    <2>1. \E rest \in Nat : m[S] = rest + f[u]
      BY <1>0, SumSingleOut
    <2> QED
      BY <2>1
  <1>4. n \in [SUBSET D -> Nat]
    BY <1>2, <1>3
  <1>5. n[{}] = 0
    BY <1>1 DEF IsMeasure
  <1>6. ASSUME NEW S \in SUBSET D, NEW v \in D \ S
        PROVE  n[S \cup {v}] = n[S] + g[v]
    <2>1. m[S \cup {v}] = m[S] + f[v]
      BY <1>1 DEF IsMeasure
    <2>2. m[S] \in Nat /\ S \cup {v} \in SUBSET D
      BY <1>2
    <2>3. CASE v = u
      BY <2>1, <2>2, <2>3
    <2>4. CASE v # u
      BY <2>1, <2>2, <2>4
    <2> QED
      BY <2>3, <2>4
  <1>7. n[D] = T - f[u] + x
    BY <1>1
  <1>8. IsMeasure(D, g, n)
    BY <1>4, <1>5, <1>6 DEF IsMeasure
  <1> QED
    BY <1>7, <1>8 DEF SumsTo

\* The sum of sums.
LEMMA SumPlus ==
    ASSUME NEW D, NEW f \in [D -> Nat], NEW S, SumsTo(D, f, S),
           NEW g \in [D -> Nat], NEW T, SumsTo(D, g, T)
    PROVE  SumsTo(D, [x \in D |-> f[x] + g[x]], S + T)
  <1>1. PICK m : IsMeasure(D, f, m) /\ m[D] = S
    BY DEF SumsTo
  <1>2. PICK n : IsMeasure(D, g, n) /\ n[D] = T
    BY DEF SumsTo
  <1> DEFINE h == [x \in D |-> f[x] + g[x]]
             k == [A \in SUBSET D |-> m[A] + n[A]]
  <1>3. \A A \in SUBSET D : m[A] \in Nat /\ n[A] \in Nat
    BY <1>1, <1>2 DEF IsMeasure
  <1>4. k \in [SUBSET D -> Nat] /\ k[{}] = 0 /\ k[D] = S + T
    BY <1>1, <1>2, <1>3 DEF IsMeasure
  <1>5. ASSUME NEW A \in SUBSET D, NEW x \in D \ A
        PROVE  k[A \cup {x}] = k[A] + h[x]
    <2>1. m[A \cup {x}] = m[A] + f[x] /\ n[A \cup {x}] = n[A] + g[x]
      BY <1>1, <1>2 DEF IsMeasure
    <2> QED
      BY <2>1, <1>3
  <1>6. IsMeasure(D, h, k)
    BY <1>4, <1>5 DEF IsMeasure
  <1> QED
    BY <1>4, <1>6 DEF SumsTo

\* One more element.
LEMMA SumAdd ==
    ASSUME NEW D, NEW x, x \notin D, NEW E, E = D \cup {x},
           NEW f, Natural(E, f), NEW T, SumsTo(D, f, T)
    PROVE  SumsTo(E, f, T + f[x])
  <1>1. PICK m : IsMeasure(D, f, m) /\ m[D] = T
    BY DEF SumsTo
  <1>2. \E n : IsMeasure(E, f, n) /\ n[E] = m[D] + f[x]
    BY <1>1, MeasureExtends
  <1> QED
    BY <1>1, <1>2 DEF SumsTo

=============================================================================
