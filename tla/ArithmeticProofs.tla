-------------------------- MODULE ArithmeticProofs --------------------------
(***************************************************************************)
(* What the ledger's arithmetic computes: finite sums (Sums), where one    *)
(* changed entry changes the total by as much, and the share arithmetic    *)
(* (ShareMath), where rounding never favours the staker who leaves.        *)
(***************************************************************************)
EXTENDS ShareMath, Sums, Sequences, WellFoundedInduction, TLAPS

(***************************************************************************)
(* Induction over the naturals, with the induction predicate given as the  *)
(* set C of the numbers that satisfy it.                                   *)
(***************************************************************************)
LEMMA SetInduction ==
  ASSUME NEW C, 0 \in C, \A n \in Nat : n \in C => n + 1 \in C
  PROVE  \A n \in Nat : n \in C
<1> DEFINE Bad  == Nat \ C
           Less == {pair \in Nat \X Nat : pair[1] < pair[2]}
<1>1. \A x, y \in Nat : x < y => <<x, y>> \in Less
  OBVIOUS
<1>2. IsWellFoundedOn(Less, Nat)
  BY NatLessThanWellFounded DEF OpToRel
<1>3. SUFFICES ASSUME Bad # {} PROVE FALSE
  OBVIOUS
<1>4. PICK n \in Bad : \A m \in Bad : ~(<<m, n>> \in Less)
  <2>1. Bad \subseteq Nat
    OBVIOUS
  <2> HIDE DEF Bad, Less
  <2> QED BY <1>2, <1>3, <2>1, WFMin, Zenon
<1>5. n - 1 \in Nat /\ n - 1 < n /\ (n - 1) + 1 = n
  <2>1. n # 0
    BY <1>4
  <2> QED BY <2>1
<1>6. n - 1 \in C
  <2>1. ~(<<n - 1, n>> \in Less) \/ n - 1 \notin Bad
    BY <1>4
  <2> HIDE DEF Less
  <2> QED BY <1>1, <1>5, <2>1
<1> QED BY <1>4, <1>5, <1>6

(***************************************************************************)
(* The subsets of S that a list of n elements contains.                    *)
(***************************************************************************)
Listed(S, n) ==
  {T \in SUBSET S : \E q : \A t \in T : \E i \in 1 .. n : q[i] = t}

\* Some length lists every subset of a finite set, the empty list only the
\* empty one, longer lists contain what shorter ones do, and a set that leaves
\* out an element of a listed one needs one element less.
LEMMA ListedSets ==
  ASSUME NEW S, IsFiniteSet(S)
  PROVE  /\ \E n \in Nat : \A T \in SUBSET S : T \in Listed(S, n)
         /\ Listed(S, 0) = {{}}
         /\ \A n \in Nat : Listed(S, n) \subseteq Listed(S, n + 1)
         /\ \A n \in Nat : \A T \in Listed(S, n + 1) : \A U \in SUBSET T :
              U # T => U \in Listed(S, n)
<1>1. \E n \in Nat : \A T \in SUBSET S : T \in Listed(S, n)
  <2>1. PICK seq \in Seq(S) : \A s \in S : \E n \in 1 .. Len(seq) : seq[n] = s
    BY DEF IsFiniteSet
  <2>2. Len(seq) \in Nat
    OBVIOUS
  <2>3. \A T \in SUBSET S : T \in Listed(S, Len(seq))
    BY <2>1, <2>2 DEF Listed
  <2> QED BY <2>2, <2>3
<1>2. Listed(S, 0) = {{}}
  BY DEF Listed
<1>3. \A n \in Nat : Listed(S, n) \subseteq Listed(S, n + 1)
  <2>1. \A n \in Nat : \A i \in 1 .. n : i \in 1 .. n + 1
    OBVIOUS
  <2> QED BY <2>1 DEF Listed
<1>4. ASSUME NEW n \in Nat, NEW T \in Listed(S, n + 1), NEW U \in SUBSET T, U # T
      PROVE  U \in Listed(S, n)
  <2>1. PICK q : \A t \in T : \E i \in 1 .. n + 1 : q[i] = t
    BY DEF Listed
  <2>2. PICK p \in T : p \notin U
    BY <1>4, Zenon
  <2>3. PICK j \in 1 .. n + 1 : q[j] = p
    BY <2>1
  <2> DEFINE r == [i \in 1 .. n |-> IF i = j THEN q[n + 1] ELSE q[i]]
  <2>4. ASSUME NEW u \in U PROVE \E i \in 1 .. n : r[i] = u
    <3>1. PICK i \in 1 .. n + 1 : q[i] = u
      BY <2>1
    <3>2. i # j
      BY <2>2, <2>3, <3>1
    <3>3. CASE i = n + 1
      <4>1. j \in 1 .. n /\ r[j] = u
        BY <3>1, <3>2, <3>3
      <4> QED BY <4>1
    <3>4. CASE i # n + 1
      <4>1. i \in 1 .. n /\ r[i] = u
        BY <3>1, <3>2, <3>4
      <4> QED BY <4>1
    <3> QED BY <3>3, <3>4
  <2>5. U \in SUBSET S
    BY DEF Listed
  <2> HIDE DEF r
  <2> QED BY <2>4, <2>5 DEF Listed
<1> QED BY <1>1, <1>2, <1>3, <1>4

\* An interval is a finite set.
LEMMA IntervalFinite ==
  ASSUME NEW n \in Nat
  PROVE  IsFiniteSet(0 .. n - 1)
<1> DEFINE seq == [i \in 1 .. n |-> i - 1]
<1>1. seq \in Seq(0 .. n - 1) /\ Len(seq) = n
  OBVIOUS
<1>2. ASSUME NEW s \in 0 .. n - 1 PROVE \E i \in 1 .. n : seq[i] = s
  <2>1. s + 1 \in 1 .. n /\ seq[s + 1] = s
    OBVIOUS
  <2> QED BY <2>1
<1> HIDE DEF seq
<1> QED BY <1>1, <1>2, Zenon DEF IsFiniteSet

(***************************************************************************)
(* Induction over the subsets of a finite set, with the induction          *)
(* predicate given as the set C of subsets that satisfy it.                *)
(***************************************************************************)
LEMMA FiniteInduction ==
  ASSUME NEW S, IsFiniteSet(S), NEW C,
         \A T \in SUBSET S : (\A U \in SUBSET T : U # T => U \in C) => T \in C
  PROVE  \A T \in SUBSET S : T \in C
<1> DEFINE G == {n \in Nat : \A T \in Listed(S, n) : T \in C}
<1>1. \A n \in Nat : \A T \in Listed(S, n) : T \in SUBSET S
  BY DEF Listed
<1>2. 0 \in G
  <2>1. {} \in C
    OBVIOUS
  <2>2. Listed(S, 0) = {{}}
    BY ListedSets
  <2> QED BY <2>1, <2>2
<1>3. ASSUME NEW n \in Nat, n \in G PROVE n + 1 \in G
  <2>1. ASSUME NEW T \in Listed(S, n + 1) PROVE T \in C
    <3>1. \A U \in SUBSET T : U # T => U \in C
      BY <1>3, ListedSets
    <3>2. T \in SUBSET S
      BY <1>1
    <3> QED BY <3>1, <3>2
  <2> QED BY <2>1
<1>4. \A n \in Nat : n \in G
  <2> HIDE DEF G
  <2> QED BY <1>2, <1>3, SetInduction
<1> QED BY <1>4, ListedSets

(***************************************************************************)
(* The recursion that defines PartialSums has a solution: a solution for   *)
(* the subsets that n elements list extends to those n + 1 elements list.  *)
(***************************************************************************)
LEMMA PartialSumsExist ==
  ASSUME NEW f, IsFiniteSet(DOMAIN f)
  PROVE  IsPartialSums(PartialSums(f), f, SUBSET DOMAIN f)
<1> DEFINE D     == DOMAIN f
           Up(n) == Listed(D, n)
           C     == {n \in Nat : \E g : IsPartialSums(g, f, Up(n))}
<1>1. \A s \in SUBSET D : s # {} =>
        Pick(s) \in s /\ s \ {Pick(s)} \in SUBSET s /\ s \ {Pick(s)} # s
  BY DEF Pick
<1>2. 0 \in C
  <2> DEFINE g == [s \in Up(0) |-> 0]
  <2>1. \A s \in Up(0) : s = {}
    BY ListedSets
  <2>2. IsPartialSums(g, f, Up(0))
    BY <2>1 DEF IsPartialSums
  <2>3. \E k : IsPartialSums(k, f, Up(0))
    <3> HIDE DEF g
    <3> QED BY <2>2
  <2> QED BY <2>3
<1>3. ASSUME NEW n \in Nat, n \in C PROVE n + 1 \in C
  <2>1. PICK g : IsPartialSums(g, f, Up(n))
    BY <1>3
  <2> DEFINE h == [s \in Up(n + 1) |-> IF s = {} THEN 0 ELSE f[Pick(s)] + g[s \ {Pick(s)}]]
  <2>2. \A s \in Up(n) : s \in Up(n + 1) /\ h[s] = g[s]
    <3>1. \A s \in Up(n) : g[s] = IF s = {} THEN 0 ELSE f[Pick(s)] + g[s \ {Pick(s)}]
      BY <2>1, Zenon DEF IsPartialSums
    <3> QED BY <3>1, ListedSets
  <2>3. \A s \in Up(n + 1) : s # {} => s \ {Pick(s)} \in Up(n)
    <3>1. \A s \in Up(n + 1) : s \in SUBSET D
      BY DEF Listed
    <3> QED BY <1>1, <3>1, ListedSets
  <2>4. \A s \in Up(n + 1) :
          h[s] = IF s = {} THEN 0 ELSE f[Pick(s)] + h[s \ {Pick(s)}]
    BY <2>2, <2>3, Zenon
  <2>5. IsPartialSums(h, f, Up(n + 1))
    BY <2>4, Zenon DEF IsPartialSums
  <2>6. \E k : IsPartialSums(k, f, Up(n + 1))
    <3> HIDE DEF h
    <3> QED BY <2>5
  <2> QED BY <2>6
<1>4. \A n \in Nat : n \in C
  <2> HIDE DEF C
  <2> QED BY <1>2, <1>3, SetInduction
<1>5. PICK n \in Nat : \A s \in SUBSET D : s \in Up(n)
  BY ListedSets
<1>6. Up(n) = SUBSET D
  BY <1>5 DEF Listed
<1>7. \E g : IsPartialSums(g, f, SUBSET DOMAIN f)
  BY <1>4, <1>6
<1> QED BY <1>7, Zenon DEF PartialSums, IsPartialSums

(***************************************************************************)
(* The recursion, one unfolding at a time.                                 *)
(***************************************************************************)
LEMMA PartialSumsUnfold ==
  ASSUME NEW f, IsFiniteSet(DOMAIN f)
  PROVE  /\ PartialSums(f)[{}] = 0
         /\ \A s \in SUBSET DOMAIN f : s # {} =>
              /\ Pick(s) \in s
              /\ PartialSums(f)[s] = f[Pick(s)] + PartialSums(f)[s \ {Pick(s)}]
<1> DEFINE g == PartialSums(f)
<1>1. g = [s \in SUBSET DOMAIN f |-> IF s = {} THEN 0 ELSE f[Pick(s)] + g[s \ {Pick(s)}]]
  BY PartialSumsExist, Zenon DEF IsPartialSums
<1>2. \A s \in SUBSET DOMAIN f : s # {} => Pick(s) \in s
  BY DEF Pick
<1> HIDE DEF g
<1>3. g[{}] = 0
  BY <1>1
<1>4. \A s \in SUBSET DOMAIN f : s # {} => g[s] = f[Pick(s)] + g[s \ {Pick(s)}]
  BY <1>1, Zenon
<1> QED BY <1>2, <1>3, <1>4, Zenon DEF g

(***************************************************************************)
(* A sum of integers is an integer, a sum of naturals is a natural.        *)
(***************************************************************************)
LEMMA PartialSumsType ==
  ASSUME NEW D, IsFiniteSet(D), NEW f \in [D -> Int]
  PROVE  \A s \in SUBSET D : /\ PartialSums(f)[s] \in Int
                             /\ (\A x \in D : f[x] >= 0) => PartialSums(f)[s] >= 0
<1> DEFINE g == PartialSums(f)
           C == {s \in SUBSET D : g[s] \in Int /\ ((\A x \in D : f[x] >= 0) => g[s] >= 0)}
<1>1. ASSUME NEW T \in SUBSET D, \A U \in SUBSET T : U # T => U \in C
      PROVE  T \in C
  <2>1. CASE T = {}
    BY <2>1, PartialSumsUnfold
  <2>2. CASE T # {}
    <3>1. Pick(T) \in T /\ g[T] = f[Pick(T)] + g[T \ {Pick(T)}]
      BY <2>2, PartialSumsUnfold
    <3>2. T \ {Pick(T)} \in C
      BY <1>1, <3>1
    <3> HIDE DEF g
    <3> QED BY <3>1, <3>2
  <2> QED BY <2>1, <2>2
<1>2. C \in SUBSET SUBSET D
  OBVIOUS
<1>3. \A T \in SUBSET D : T \in C
  <2> HIDE DEF C
  <2> QED BY <1>1, <1>2, FiniteInduction
<1> QED BY <1>3

\* The sum of integers is an integer.
LEMMA SumType ==
  ASSUME NEW D, IsFiniteSet(D), NEW f \in [D -> Int]
  PROVE  Sum(f) \in Int
BY PartialSumsType DEF Sum

\* The sum of natural numbers is a natural number.
LEMMA SumNat ==
  ASSUME NEW D, IsFiniteSet(D), NEW f \in [D -> Nat]
  PROVE  Sum(f) \in Nat
<1>1. f \in [D -> Int] /\ \A x \in D : f[x] >= 0
  OBVIOUS
<1> QED BY <1>1, PartialSumsType DEF Sum

(***************************************************************************)
(* If two functions differ at most at x, their sums differ by the          *)
(* difference of their values at x.                                        *)
(***************************************************************************)
LEMMA SumChange ==
  ASSUME NEW D, IsFiniteSet(D), NEW f \in [D -> Int], NEW h \in [D -> Int],
         NEW x \in D, \A y \in D : y # x => h[y] = f[y]
  PROVE  Sum(h) = Sum(f) + h[x] - f[x]
<1> DEFINE F == PartialSums(f)
           H == PartialSums(h)
           C == {s \in SUBSET D : H[s] = IF x \in s THEN F[s] + h[x] - f[x] ELSE F[s]}
<1>1. \A s \in SUBSET D : F[s] \in Int /\ H[s] \in Int
  BY PartialSumsType
<1>2. ASSUME NEW T \in SUBSET D, \A U \in SUBSET T : U # T => U \in C
      PROVE  T \in C
  <2>1. CASE T = {}
    <3>1. F[T] = 0 /\ H[T] = 0
      BY <2>1, PartialSumsUnfold
    <3> QED BY <2>1, <3>1
  <2>2. CASE T # {}
    <3>1. /\ Pick(T) \in T
          /\ F[T] = f[Pick(T)] + F[T \ {Pick(T)}]
          /\ H[T] = h[Pick(T)] + H[T \ {Pick(T)}]
      BY <2>2, PartialSumsUnfold, Zenon
    <3>2. T \ {Pick(T)} \in C
      BY <1>2, <3>1
    <3>3. F[T \ {Pick(T)}] \in Int /\ H[T \ {Pick(T)}] \in Int
      BY <1>1
    <3> HIDE DEF F, H
    <3> QED BY <3>1, <3>2, <3>3
  <2> QED BY <2>1, <2>2
<1>3. C \in SUBSET SUBSET D
  OBVIOUS
<1>4. \A T \in SUBSET D : T \in C
  <2> HIDE DEF C
  <2> QED BY <1>2, <1>3, FiniteInduction
<1>5. D \in C
  BY <1>4
<1> QED BY <1>5 DEF Sum

(***************************************************************************)
(* Equal functions have equal sums; a function that is 0 everywhere sums   *)
(* to 0.                                                                   *)
(***************************************************************************)
LEMMA SumZero ==
  ASSUME NEW D, IsFiniteSet(D), NEW f \in [D -> Int], \A x \in D : f[x] = 0
  PROVE  Sum(f) = 0
<1> DEFINE F == PartialSums(f)
           C == {s \in SUBSET D : F[s] = 0}
<1>1. ASSUME NEW T \in SUBSET D, \A U \in SUBSET T : U # T => U \in C
      PROVE  T \in C
  <2>1. CASE T = {}
    BY <2>1, PartialSumsUnfold
  <2>2. CASE T # {}
    <3>1. Pick(T) \in T /\ F[T] = f[Pick(T)] + F[T \ {Pick(T)}]
      BY <2>2, PartialSumsUnfold
    <3>2. T \ {Pick(T)} \in C
      BY <1>1, <3>1
    <3> HIDE DEF F
    <3> QED BY <3>1, <3>2
  <2> QED BY <2>1, <2>2
<1>2. C \in SUBSET SUBSET D
  OBVIOUS
<1>3. \A T \in SUBSET D : T \in C
  <2> HIDE DEF C
  <2> QED BY <1>1, <1>2, FiniteInduction
<1> QED BY <1>3 DEF Sum

(***************************************************************************)
(* A term of a sum of naturals is at most the sum.                         *)
(***************************************************************************)
LEMMA SumTerm ==
  ASSUME NEW D, IsFiniteSet(D), NEW f \in [D -> Nat], NEW x \in D
  PROVE  f[x] <= Sum(f)
<1> DEFINE h == [f EXCEPT ![x] = 0]
<1>1. f \in [D -> Int] /\ h \in [D -> Int] /\ h \in [D -> Nat]
  OBVIOUS
<1>2. h[x] = 0 /\ \A y \in D : y # x => h[y] = f[y]
  OBVIOUS
<1> HIDE DEF h
<1>3. Sum(h) = Sum(f) + h[x] - f[x]
  BY <1>1, <1>2, SumChange
<1>4. Sum(h) \in Nat /\ Sum(f) \in Nat
  BY <1>1, SumNat
<1> QED BY <1>2, <1>3, <1>4

(***************************************************************************)
(* The sum of a function that is the sum of two others.                    *)
(***************************************************************************)
LEMMA SumAdd ==
  ASSUME NEW D, IsFiniteSet(D), NEW f \in [D -> Int], NEW g \in [D -> Int]
  PROVE  Sum([x \in D |-> f[x] + g[x]]) = Sum(f) + Sum(g)
<1>a. [x \in D |-> f[x] + g[x]] \in [D -> Int]
  OBVIOUS
<1>0. PICK h \in [D -> Int] : h = [x \in D |-> f[x] + g[x]] /\ \A x \in D : h[x] = f[x] + g[x]
  BY <1>a, Zenon
<1> DEFINE F == PartialSums(f)
           G == PartialSums(g)
           H == PartialSums(h)
           C == {s \in SUBSET D : H[s] = F[s] + G[s]}
<1>1. \A s \in SUBSET D : F[s] \in Int /\ G[s] \in Int /\ H[s] \in Int
  BY PartialSumsType
<1>2. ASSUME NEW T \in SUBSET D, \A U \in SUBSET T : U # T => U \in C
      PROVE  T \in C
  <2>1. CASE T = {}
    <3>1. F[T] = 0 /\ G[T] = 0 /\ H[T] = 0
      BY <2>1, PartialSumsUnfold
    <3> HIDE DEF F, G, H
    <3> QED BY <3>1
  <2>2. CASE T # {}
    <3>1. /\ Pick(T) \in T
          /\ F[T] = f[Pick(T)] + F[T \ {Pick(T)}]
          /\ G[T] = g[Pick(T)] + G[T \ {Pick(T)}]
          /\ H[T] = h[Pick(T)] + H[T \ {Pick(T)}]
      BY <2>2, PartialSumsUnfold, Zenon
    <3>2. T \ {Pick(T)} \in C
      BY <1>2, <3>1
    <3>3. /\ F[T \ {Pick(T)}] \in Int /\ G[T \ {Pick(T)}] \in Int
          /\ h[Pick(T)] = f[Pick(T)] + g[Pick(T)]
      BY <1>0, <1>1, <3>1
    <3> HIDE DEF F, G, H
    <3> QED BY <3>1, <3>2, <3>3
  <2> QED BY <2>1, <2>2
<1>3. C \in SUBSET SUBSET D
  OBVIOUS
<1>4. \A T \in SUBSET D : T \in C
  <2> HIDE DEF C
  <2> QED BY <1>2, <1>3, FiniteInduction
<1>5. D \in C
  BY <1>4
<1>6. Sum(h) = Sum(f) + Sum(g)
  BY <1>5 DEF Sum
<1> QED BY <1>0, <1>6, Zenon

(***************************************************************************)
(* A sum does not depend on the order of its terms: any of them can be     *)
(* taken out first.                                                        *)
(***************************************************************************)
LEMMA SumTakeOut ==
  ASSUME NEW D, IsFiniteSet(D), NEW f \in [D -> Int]
  PROVE  \A s \in SUBSET D : \A y \in s : PartialSums(f)[s] = f[y] + PartialSums(f)[s \ {y}]
<1> DEFINE F == PartialSums(f)
           C == {s \in SUBSET D : \A y \in s : F[s] = f[y] + F[s \ {y}]}
<1>1. \A s \in SUBSET D : F[s] \in Int
  BY PartialSumsType
<1>2. ASSUME NEW T \in SUBSET D, \A U \in SUBSET T : U # T => U \in C
      PROVE  T \in C
  <2> SUFFICES ASSUME NEW y \in T PROVE F[T] = f[y] + F[T \ {y}]
    OBVIOUS
  <2>1. PICK p \in T : F[T] = f[p] + F[T \ {p}]
    BY PartialSumsUnfold, Zenon
  <2>2. CASE y = p
    BY <2>1, <2>2
  <2>3. CASE y # p
    <3>1. T \ {p} \in C /\ T \ {y} \in C
      BY <1>2
    <3>2. y \in T \ {p} /\ p \in T \ {y} /\ (T \ {p}) \ {y} = (T \ {y}) \ {p}
      BY <2>3
    <3>3. F[T \ {p}] = f[y] + F[(T \ {p}) \ {y}] /\ F[T \ {y}] = f[p] + F[(T \ {p}) \ {y}]
      BY <3>1, <3>2, Zenon
    <3>4. F[(T \ {p}) \ {y}] \in Int /\ f[p] \in Int /\ f[y] \in Int
      BY <1>1
    <3> HIDE DEF F
    <3> QED BY <2>1, <3>3, <3>4
  <2> QED BY <2>2, <2>3
<1>3. C \in SUBSET SUBSET D
  OBVIOUS
<1>4. \A T \in SUBSET D : T \in C
  <2> HIDE DEF C
  <2> QED BY <1>2, <1>3, FiniteInduction
<1> QED BY <1>4, Zenon

(***************************************************************************)
(* A sum is a term and the sum of the others.                              *)
(***************************************************************************)
LEMMA SumExtend ==
  ASSUME NEW E, IsFiniteSet(E), NEW x \in E, IsFiniteSet(E \ {x}), NEW h \in [E -> Int]
  PROVE  Sum(h) = Sum([y \in E \ {x} |-> h[y]]) + h[x]
<1>0. PICK D : D = E \ {x} /\ IsFiniteSet(D)
  BY Zenon
<1>b. IsFiniteSet(D)
  BY <1>0, Zenon
<1>a. [y \in D |-> h[y]] \in [D -> Int]
  BY <1>0
<1>1. PICK f \in [D -> Int] : f = [y \in D |-> h[y]] /\ \A y \in D : h[y] = f[y]
  BY <1>a, Zenon
<1> DEFINE F == PartialSums(f)
           H == PartialSums(h)
           C == {s \in SUBSET D : H[s] = F[s]}
<1>2. ASSUME NEW T \in SUBSET D, \A U \in SUBSET T : U # T => U \in C
      PROVE  T \in C
  <2>1. CASE T = {}
    BY <1>0, <2>1, PartialSumsUnfold
  <2>2. CASE T # {}
    <3>1. /\ Pick(T) \in T
          /\ F[T] = f[Pick(T)] + F[T \ {Pick(T)}]
          /\ H[T] = h[Pick(T)] + H[T \ {Pick(T)}]
      <4>1. T \in SUBSET DOMAIN f /\ T \in SUBSET DOMAIN h
        BY <1>0
      <4> QED BY <1>0, <2>2, <4>1, PartialSumsUnfold, Zenon
    <3>2. T \ {Pick(T)} \in C
      BY <1>2, <3>1
    <3> HIDE DEF F, H
    <3>3. h[Pick(T)] = f[Pick(T)]
      BY <1>1, <3>1, Zenon
    <3> QED BY <3>1, <3>2, <3>3, Zenon
  <2> QED BY <2>1, <2>2
<1>3. C \in SUBSET SUBSET D
  OBVIOUS
<1>4. \A T \in SUBSET D : T \in C
  <2> HIDE DEF C
  <2> QED BY <1>b, <1>2, <1>3, FiniteInduction, Zenon
<1>5. H[D] = F[D]
  BY <1>4
<1>6. H[E] = h[x] + H[E \ {x}] /\ E \ {x} = D
  <2>1. E \in SUBSET E
    OBVIOUS
  <2>2. H[E] = h[x] + H[E \ {x}]
    BY <2>1, SumTakeOut
  <2> QED BY <1>0, <2>2, Zenon
<1>7. Sum(h) = h[x] + Sum(f)
  BY <1>5, <1>6, Zenon DEF Sum
<1>8. Sum(f) \in Int /\ h[x] \in Int
  BY <1>0, SumType
<1>9. Sum(h) = Sum(f) + h[x]
  BY <1>7, <1>8
<1> QED BY <1>0, <1>1, <1>9, Zenon
-----------------------------------------------------------------------------
\* Integer division is the largest quotient that does not exceed.
LEMMA DivBounds ==
  ASSUME NEW a \in Nat, NEW b \in Nat \ {0}
  PROVE  /\ a \div b \in Nat
         /\ b * (a \div b) <= a
         /\ a < b * (a \div b) + b
<1>1. a \div b \in Int /\ a % b \in 0 .. b - 1 /\ a = b * (a \div b) + (a % b)
  OBVIOUS
<1>2. b * (a \div b) <= a /\ a < b * (a \div b) + b
  BY <1>1
<1>3. a \div b \in Nat
  BY <1>1, <1>2
<1> QED
  BY <1>2, <1>3

\* Multiplication is monotone, in both positions.
LEMMA TimesMonotone ==
  ASSUME NEW x \in Nat, NEW y \in Nat, NEW z \in Nat, x <= y
  PROVE  x * z <= y * z /\ z * x <= z * y
<1> DEFINE d == y - x
<1>1. d \in Nat /\ y = x + d
  OBVIOUS
<1>2. (x + d) * z = x * z + d * z /\ z * (x + d) = z * x + z * d
  BY <1>1
<1>3. d * z \in Nat /\ z * d \in Nat /\ x * z \in Nat /\ z * x \in Nat
  BY <1>1
<1> HIDE DEF d
<1> QED
  BY <1>1, <1>2, <1>3

\* A common factor cancels in the comparison that bounds a truncated quotient.
LEMMA TimesCancel ==
  ASSUME NEW x \in Nat, NEW y \in Nat, NEW z \in Nat, z * x < z * (y + 1)
  PROVE  x <= y
<1> SUFFICES ASSUME x > y PROVE FALSE
  OBVIOUS
<1>1. y + 1 \in Nat /\ y + 1 <= x
  OBVIOUS
<1>2. z * (y + 1) <= z * x
  BY <1>1, TimesMonotone
<1>3. z * x \in Int /\ z * (y + 1) \in Int
  BY <1>1
<1> QED
  BY <1>2, <1>3

\* A quotient by b is at most n when the dividend is less than b * (n + 1).
LEMMA DivAtMost ==
  ASSUME NEW a \in Nat, NEW b \in Nat \ {0}, NEW n \in Nat, a < b * (n + 1)
  PROVE  a \div b <= n
<1>1. a \div b \in Nat /\ b * (a \div b) <= a
  BY DivBounds
<1>2. b * (a \div b) \in Int /\ b * (n + 1) \in Int
  BY <1>1
<1>3. b * (a \div b) < b * (n + 1)
  BY <1>1, <1>2
<1> QED
  BY <1>1, <1>3, TimesCancel

\* A proportion of at most one takes at most the whole amount: the slash
\* of a pool or of an undelegation never exceeds it.
LEMMA TruncateProportion ==
  ASSUME NEW p \in 0 .. One, NEW a \in Nat
  PROVE  TruncateInt(p * a) \in 0 .. a
<1>1. Precision \in Nat \ {0} /\ p \in Nat /\ p <= Precision
  BY PrecisionAssumption DEF One
<1>2. p * a \in Nat /\ Precision * a \in Nat
  BY <1>1
<1>3. p * a <= Precision * a
  BY <1>1, TimesMonotone
<1>4. Precision * (a + 1) = Precision * a + Precision
  BY <1>1
<1>5. p * a < Precision * (a + 1)
  BY <1>1, <1>2, <1>3, <1>4
<1>6. (p * a) \div Precision <= a
  BY <1>1, <1>2, <1>5, DivAtMost
<1>7. (p * a) \div Precision \in Nat
  BY <1>1, <1>2, DivBounds
<1> QED
  BY <1>6, <1>7 DEF TruncateInt

\* chopPrecisionAndRound of LegacyDec returns a natural number for one.
LEMMA ChopType ==
  ASSUME NEW n \in Nat
  PROVE  ChopPrecisionAndRound(n) \in Nat
<1>1. n \div Precision \in Nat
  BY PrecisionAssumption, DivBounds
<1> QED
  BY <1>1 DEF ChopPrecisionAndRound

\* Mul and Quo of LegacyDec stay natural; Quo needs a divisor.
LEMMA QuoMulType ==
  ASSUME NEW d1 \in Nat, NEW d2 \in Nat
  PROVE  Mul(d1, d2) \in Nat /\ (d2 # 0 => Quo(d1, d2) \in Nat)
<1>1. d1 * d2 \in Nat /\ d1 * Precision * Precision \in Nat
  BY PrecisionAssumption
<1>2. d2 # 0 => (d1 * Precision * Precision) \div d2 \in Nat
  BY <1>1, DivBounds
<1> QED
  BY <1>1, <1>2, ChopType DEF Mul, Quo

\* TokensFromShares of share.go returns a natural number, also for an empty pool.
LEMMA TokensFromSharesType ==
  ASSUME NEW share \in Nat, NEW totalShare \in Nat, NEW totalAmount \in Nat
  PROVE  TokensFromShares(share, totalShare, totalAmount) \in Nat
<1>1. share * totalAmount \in Nat
  OBVIOUS
<1>2. CASE totalShare = 0
  BY <1>2 DEF TokensFromShares
<1>3. CASE totalShare # 0
  <2>1. Quo(share * totalAmount, totalShare) \in Nat
    BY <1>1, <1>3, QuoMulType
  <2>2. TruncateInt(Quo(share * totalAmount, totalShare)) \in Nat
    BY <2>1, DivBounds, PrecisionAssumption DEF TruncateInt
  <2> QED
    BY <1>3, <2>2 DEF TokensFromShares
<1> QED
  BY <1>2, <1>3

\* So does the amount that RemoveShareFromOperator takes out for a share.
LEMMA RemovedTokenType ==
  ASSUME NEW share \in Nat, NEW totalShare \in Nat, NEW totalAmount \in Nat
  PROVE  RemovedToken(share, totalShare, totalAmount) \in Nat
BY TokensFromSharesType DEF RemovedToken

\* And SharesFromTokens, the share that an amount stands for.
LEMMA SharesFromTokensType ==
  ASSUME NEW totalShare \in Nat, NEW x \in Nat, NEW totalAmount \in Nat
  PROVE  SharesFromTokens(totalShare, x, totalAmount) \in Nat
<1>1. totalShare * x \in Nat
  OBVIOUS
<1> QED
  BY <1>1, DivBounds DEF SharesFromTokens

\* Rounding half to even does not pass a whole number.
LEMMA ChopAtMost ==
  ASSUME NEW n \in Nat, NEW m \in Nat, n <= Precision * m
  PROVE  ChopPrecisionAndRound(n) <= m
<1> DEFINE q == n \div Precision
           r == n % Precision
<1>1. Precision \in Nat \ {0} /\ Precision >= 2 /\ Precision \div 2 >= 1 /\ Precision \div 2 \in Int
  BY PrecisionAssumption
<1>2. q \in Nat /\ r \in 0 .. Precision - 1 /\ n = Precision * q + r
  BY <1>1, DivBounds
<1>3. Precision * (m + 1) = Precision * m + Precision
  BY <1>1
<1>4. n < Precision * (m + 1)
  BY <1>1, <1>3
<1>5. q <= m
  BY <1>1, <1>4, DivAtMost
<1>6. CASE q = m
  <2>1. Precision * q = Precision * m /\ Precision * m \in Int
    BY <1>1, <1>6
  <2> HIDE DEF q, r
  <2>2. r = 0
    BY <1>2, <2>1
  <2> QED
    BY <1>1, <1>6, <2>2 DEF ChopPrecisionAndRound, q, r
<1>7. CASE q < m
  BY <1>2, <1>7 DEF ChopPrecisionAndRound
<1> QED
  BY <1>2, <1>5, <1>6, <1>7

\* Rounding in Quo does not lift a truncated quotient above a whole bound.
LEMMA TruncatedQuoAtMost ==
  ASSUME NEW d1 \in Nat, NEW d2 \in Nat \ {0}, NEW m \in Nat, d1 <= d2 * m
  PROVE  TruncateInt(Quo(d1, d2)) <= m
<1> DEFINE P == Precision
           a == d1 * P * P
           b == m * P * P
<1>1. P \in Nat \ {0} /\ P * P \in Nat /\ d2 * m \in Nat
  BY PrecisionAssumption
<1>2. a = d1 * (P * P) /\ b = m * (P * P) /\ b = P * (P * m) /\ d2 * b = (d2 * m) * (P * P)
  BY <1>1
<1>3. a \in Nat /\ b \in Nat /\ P * m \in Nat /\ d2 * b \in Nat
  BY <1>1, <1>2
<1>4. a <= d2 * b
  BY <1>1, <1>2, TimesMonotone
<1> HIDE DEF a, b, P
<1>5. d2 * (b + 1) = d2 * b + d2
  BY <1>3
<1>6. a < d2 * (b + 1)
  BY <1>3, <1>4, <1>5
<1>7. a \div d2 <= b /\ a \div d2 \in Nat
  BY <1>3, <1>6, DivAtMost, DivBounds
<1>8. ChopPrecisionAndRound(a \div d2) <= P * m
  BY <1>2, <1>3, <1>7, ChopAtMost DEF P
<1>9. Quo(d1, d2) \in Nat /\ Quo(d1, d2) <= P * m
  BY <1>7, <1>8, ChopType DEF Quo, a, P
<1>10. P * (m + 1) = P * m + P
  BY <1>1
<1>11. Quo(d1, d2) < P * (m + 1)
  BY <1>1, <1>3, <1>9, <1>10
<1> QED
  BY <1>1, <1>9, <1>11, DivAtMost DEF TruncateInt, P

\* Shares of a pool are worth at most its tokens: RemoveShareFromOperator
\* never takes more than UpdateOperatorAssetState can subtract, in spite of
\* the banker's rounding its comment is concerned about.
THEOREM RemovedWithinPool ==
  ASSUME NEW share \in Nat, NEW totalShare \in Nat, NEW totalAmount \in Nat,
         share <= totalShare
  PROVE  RemovedToken(share, totalShare, totalAmount) <= totalAmount
<1>1. CASE share = totalShare \/ totalShare = 0
  BY <1>1 DEF RemovedToken, TokensFromShares
<1>2. CASE share # totalShare /\ totalShare # 0
  <2>1. share * totalAmount \in Nat /\ share * totalAmount <= totalShare * totalAmount
    BY TimesMonotone
  <2> QED
    BY <1>2, <2>1, TruncatedQuoAtMost DEF RemovedToken, TokensFromShares
<1> QED
  BY <1>1, <1>2

\* Tokens turned into shares and back are never worth more: the share that
\* delegateTo mints, or that UndelegateFrom requests, for x tokens stands
\* for at most x of the tokens that the pool holds for its shares.
THEOREM RoundTripNoGain ==
  ASSUME NEW totalShare \in Nat \ {0}, NEW totalAmount \in Nat \ {0}, NEW x \in Nat
  PROVE  TokensFromShares(SharesFromTokens(totalShare, x, totalAmount), totalShare, totalAmount) <= x
<1> DEFINE share == (totalShare * x) \div totalAmount
<1>1. totalShare * x \in Nat
  OBVIOUS
<1>2. share \in Nat /\ totalAmount * share <= totalShare * x
  BY <1>1, DivBounds
<1> HIDE DEF share
<1>3. share * totalAmount \in Nat /\ share * totalAmount <= totalShare * x
  BY <1>2
<1>4. TruncateInt(Quo(share * totalAmount, totalShare)) <= x
  BY <1>3, TruncatedQuoAtMost
<1> QED
  BY <1>4 DEF SharesFromTokens, TokensFromShares, share

\* A quotient is at least what the divisor fits in.
LEMMA DivAtLeast ==
  ASSUME NEW a \in Nat, NEW b \in Nat \ {0}, NEW n \in Nat, b * n <= a
  PROVE  n <= a \div b
<1> DEFINE q == a \div b
<1>1. q \in Nat /\ a < b * q + b
  BY DivBounds
<1> HIDE DEF q
<1>2. b * (q + 1) = b * q + b /\ b * n \in Nat /\ b * q \in Nat
  BY <1>1
<1>3. b * n < b * (q + 1)
  BY <1>1, <1>2
<1>4. n <= q
  BY <1>1, <1>3, TimesCancel
<1> QED
  BY <1>4 DEF q

\* Nor does the rounding in Quo put a truncated quotient below a whole bound.
LEMMA TruncatedQuoAtLeast ==
  ASSUME NEW d1 \in Nat, NEW d2 \in Nat \ {0}, NEW m \in Nat, d2 * m <= d1
  PROVE  m <= TruncateInt(Quo(d1, d2))
<1> DEFINE P == Precision
           a == d1 * P * P
           b == m * P * P
           n == a \div d2
           c == n \div P
<1>1. P \in Nat \ {0} /\ P * P \in Nat /\ d2 * m \in Nat
  BY PrecisionAssumption
<1>2. a = d1 * (P * P) /\ b = P * (P * m) /\ d2 * b = (d2 * m) * (P * P)
  BY <1>1
<1>3. a \in Nat /\ b \in Nat /\ P * m \in Nat
  BY <1>1, <1>2
<1>4. d2 * b <= a
  BY <1>1, <1>2, TimesMonotone
<1> HIDE DEF a, b, P
<1>5. n \in Nat /\ b <= n
  BY <1>3, <1>4, DivBounds, DivAtLeast
<1> HIDE DEF n
<1>6. c \in Nat /\ P * m <= c
  BY <1>1, <1>2, <1>3, <1>5, DivBounds, DivAtLeast
<1>7. c <= ChopPrecisionAndRound(n) /\ ChopPrecisionAndRound(n) \in Nat
  BY <1>5, <1>6, ChopType DEF ChopPrecisionAndRound, P
<1>8. Quo(d1, d2) = ChopPrecisionAndRound(n)
  BY DEF Quo, n, a, P
<1>9. Quo(d1, d2) \in Nat /\ P * m <= Quo(d1, d2)
  BY <1>3, <1>6, <1>7, <1>8
<1> QED
  BY <1>1, <1>9, DivAtLeast DEF TruncateInt, P

\* What RemoveShareFromOperator takes out of the pool is no less than the share
\* is worth in whole tokens.
LEMMA RemovedAtLeast ==
  ASSUME NEW share \in Nat, NEW totalShare \in Nat \ {0}, NEW totalAmount \in Nat,
         NEW m \in Nat, totalShare * m <= share * totalAmount
  PROVE  m <= RemovedToken(share, totalShare, totalAmount)
<1>1. CASE share = totalShare
  <2>1. totalShare * (totalAmount + 1) = totalShare * totalAmount + totalShare
        /\ totalShare * totalAmount \in Nat /\ totalShare * m \in Nat
    OBVIOUS
  <2>2. totalShare * m < totalShare * (totalAmount + 1)
    BY <1>1, <2>1
  <2>3. m <= totalAmount
    BY <2>2, TimesCancel
  <2> QED
    BY <1>1, <2>3 DEF RemovedToken
<1>2. CASE share # totalShare
  <2>1. share * totalAmount \in Nat
    OBVIOUS
  <2> QED
    BY <1>2, <2>1, TruncatedQuoAtLeast DEF RemovedToken, TokensFromShares
<1> QED
  BY <1>1, <1>2

\* A pool with no more tokens than shares (in units of 1/Precision) keeps that
\* when a share is removed from it (RemoveShareFromOperator).
LEMMA RemovalKeepsBacking ==
  ASSUME NEW share \in Nat, NEW totalShare \in Nat, NEW totalAmount \in Nat,
         share <= totalShare, totalAmount <= totalShare
  PROVE  totalAmount - RemovedToken(share, totalShare, totalAmount) <= totalShare - share
<1> DEFINE d == totalShare - totalAmount
           m == share - d
           t == RemovedToken(share, totalShare, totalAmount)
<1>1. t \in Nat /\ d \in Nat /\ totalAmount = totalShare - d
  BY RemovedTokenType
<1> HIDE DEF t
<1>2. CASE share <= d
  BY <1>1, <1>2 DEF t
<1>3. CASE share > d
  <2>1. m \in Nat /\ totalShare \in Nat \ {0} /\ share = m + d
    BY <1>1, <1>3
  <2> HIDE DEF d, m
  <2>2. share * d <= totalShare * d /\ share * d \in Nat /\ totalShare * d \in Nat
    BY <1>1, TimesMonotone
  <2>3. totalShare * m = totalShare * share - totalShare * d
    <3>1. totalShare * (m + d) = totalShare * m + totalShare * d /\ totalShare * m \in Nat
      BY <1>1, <2>1
    <3> QED
      BY <2>1, <2>2, <3>1
  <2>4. share * totalAmount = totalShare * share - share * d
    BY <1>1
  <2>5. totalShare * m <= share * totalAmount
    <3>1. totalShare * share \in Nat
      OBVIOUS
    <3> QED
      BY <2>2, <2>3, <2>4, <3>1
  <2>6. m <= t
    BY <2>1, <2>5, RemovedAtLeast DEF t
  <2> QED
    BY <1>1, <2>1, <2>6 DEF t
<1> QED
  BY <1>1, <1>2, <1>3

\* Undelegating x tokens from such a pool takes out at least x - 1: the request
\* is rounded down once, to a share, and one share is at most one token
\* (ValidateUndelegationAmount, RemoveShareFromOperator).
THEOREM RequestedRemoved ==
  ASSUME NEW share \in Nat, NEW totalShare \in Nat \ {0}, NEW totalAmount \in Nat \ {0},
         NEW x \in Nat, totalAmount <= totalShare,
         SharesFromTokens(totalShare, x, totalAmount) <= share
  PROVE  x <= RemovedToken(share, totalShare, totalAmount) + 1
<1> DEFINE q == (totalShare * x) \div totalAmount
           t == RemovedToken(share, totalShare, totalAmount)
<1>1. t \in Nat
  BY RemovedTokenType
<1>2. totalShare * x \in Nat
  OBVIOUS
<1>3. q \in Nat /\ totalShare * x < totalAmount * q + totalAmount
  BY <1>2, DivBounds, Zenon
<1>4. q <= share
  BY DEF SharesFromTokens
<1> HIDE DEF q, t
<1>5. totalAmount * q <= totalAmount * share /\ totalAmount * q \in Nat /\ totalAmount * share \in Nat
  BY <1>3, <1>4, TimesMonotone
<1>6. totalAmount * share = share * totalAmount
  OBVIOUS
<1>7. totalShare * x < share * totalAmount + totalShare
  BY <1>2, <1>3, <1>5, <1>6
<1>8. CASE x = 0
  BY <1>1, <1>8 DEF t
<1>9. CASE x # 0
  <2> DEFINE m == x - 1
  <2>1. m \in Nat /\ x = m + 1
    BY <1>9
  <2> HIDE DEF m
  <2>2. totalShare * (m + 1) = totalShare * m + totalShare /\ totalShare * m \in Nat
    BY <2>1
  <2>3. totalShare * m <= share * totalAmount
    BY <1>5, <1>6, <1>7, <2>1, <2>2
  <2>4. m <= t
    BY <2>1, <2>3, RemovedAtLeast DEF t
  <2> QED
    BY <1>1, <2>1, <2>4 DEF t
<1> QED
  BY <1>8, <1>9
=============================================================================
