----------------------------- MODULE SumsProofs -----------------------------
(***************************************************************************)
(* What the ledger proofs need to know about SumTo: it exists, it is a     *)
(* natural number, it is 0 on a zero function, and changing one term       *)
(* changes the sum by the same amount.  The library's induction rules      *)
(* cannot be instantiated by the provers, so the two inductions below are  *)
(* carried out on a minimal counterexample.                                *)
(***************************************************************************)
EXTENDS Sums, WellFoundedInduction, TLAPS

\* s is the sequence of partial sums of f[1], f[2], ..., f[n].
PartialSums(f, n, s) ==
    s = [i \in 0..n |-> IF i = 0 THEN 0 ELSE s[i - 1] + f[i]]

\* Every nonempty set of naturals has a least element.
LEMMA LeastNatural ==
    ASSUME NEW T, T \subseteq Nat, T # {}
    PROVE  \E x \in T : \A y \in T : x <= y
<1> DEFINE R == {ss \in Nat \X Nat : ss[1] < ss[2]}
<1>1. IsWellFoundedOn(R, Nat)
  BY NatLessThanWellFounded DEF OpToRel
<1>2. PICK x \in T : \A y \in T : ~ (<<y, x>> \in R)
  <2> HIDE DEF R
  <2> QED BY <1>1, WFMin
<1>3. ASSUME NEW y \in T PROVE x <= y
  <2>1. <<y, x>> \in Nat \X Nat
    OBVIOUS
  <2>2. ~ (<<y, x>>[1] < <<y, x>>[2])
    BY <1>2, <2>1
  <2> QED
    BY <2>2
<1> QED
  BY <1>3

\* Partial sums of a natural-valued function exist and are natural numbers.
LEMMA PartialSumsExist ==
    ASSUME NEW n \in Nat, NEW f, \A i \in 1..n : f[i] \in Nat
    PROVE  \E s \in [0..n -> Nat] : PartialSums(f, n, s)
<1> DEFINE Good(m) == \E s \in [0..m -> Nat] : PartialSums(f, m, s)
           Bad == {m \in 0..n : ~ Good(m)}
<1>1. SUFFICES ASSUME Bad # {} PROVE FALSE
  <2>1. n \in 0..n
    OBVIOUS
  <2> QED
    BY <1>1, <2>1
<1>2. PICK m \in Bad : \A k \in Bad : m <= k
  <2>1. Bad \subseteq Nat
    OBVIOUS
  <2> HIDE DEF Bad
  <2> QED
    BY <1>1, <2>1, LeastNatural
<1>3. m \in 0..n /\ m \in Nat
  OBVIOUS
<1>4. CASE m = 0
  <2> DEFINE z == [i \in 0..0 |-> 0]
  <2>1. z \in [0..0 -> Nat]
    OBVIOUS
  <2>2. PartialSums(f, 0, z)
    BY DEF PartialSums
  <2>3. Good(0)
    BY <2>1, <2>2
  <2> QED
    BY <2>3, <1>2, <1>4
<1>5. CASE m # 0
  <2>1. m - 1 \in 0..n /\ ~ (m <= m - 1)
    BY <1>3, <1>5
  <2>2. Good(m - 1)
    BY <2>1, <1>2
  <2>3. PICK s \in [0..(m - 1) -> Nat] : PartialSums(f, m - 1, s)
    BY <2>2
  <2> DEFINE t == [i \in 0..m |-> IF i = m THEN s[m - 1] + f[m] ELSE s[i]]
  <2>4. t \in [0..m -> Nat]
    <3>1. f[m] \in Nat /\ s[m - 1] \in Nat
      BY <1>3, <1>5
    <3>2. \A i \in 0..m : i # m => s[i] \in Nat
      BY <1>3
    <3> QED
      BY <3>1, <3>2
  <2>5. ASSUME NEW i \in 0..m
        PROVE  t[i] = IF i = 0 THEN 0 ELSE t[i - 1] + f[i]
    <3>1. CASE i = m
      <4>1. i - 1 \in 0..m /\ i - 1 # m
        BY <3>1, <1>3, <1>5
      <4> QED
        BY <3>1, <4>1, <1>5
    <3>2. CASE i # m
      <4>1. i \in 0..(m - 1)
        BY <3>2, <1>3
      <4>2. s[i] = IF i = 0 THEN 0 ELSE s[i - 1] + f[i]
        BY <2>3, <4>1 DEF PartialSums
      <4>3. i # 0 => i - 1 \in 0..m /\ i - 1 # m
        BY <4>1, <1>3
      <4> QED
        BY <4>2, <4>3, <3>2
    <3> QED
      BY <3>1, <3>2
  <2>6. PartialSums(f, m, t)
    <3> HIDE DEF t
    <3>1. t = [i \in 0..m |-> t[i]]
      BY <2>4
    <3> QED
      BY <3>1, <2>5 DEF PartialSums
  <2>7. Good(m)
    BY <2>4, <2>6
  <2> QED
    BY <2>7, <1>2
<1> QED
  BY <1>4, <1>5

\* There is only one sequence of partial sums.
LEMMA PartialSumsUnique ==
    ASSUME NEW n \in Nat, NEW f, NEW s, NEW t,
           PartialSums(f, n, s), PartialSums(f, n, t)
    PROVE  s = t
<1> DEFINE Bad == {m \in 0..n : s[m] # t[m]}
<1>0. s = [i \in 0..n |-> s[i]] /\ t = [i \in 0..n |-> t[i]]
  BY DEF PartialSums
<1>1. SUFFICES ASSUME Bad # {} PROVE FALSE
  <2>1. \A m \in 0..n : s[m] = t[m]
    BY <1>1
  <2> QED
    BY <1>0, <2>1
<1>2. PICK m \in Bad : \A k \in Bad : m <= k
  <2>1. Bad \subseteq Nat
    OBVIOUS
  <2> HIDE DEF Bad
  <2> QED
    BY <1>1, <2>1, LeastNatural
<1>3. m \in 0..n /\ s[m] # t[m]
  OBVIOUS
<1>4. /\ s[m] = IF m = 0 THEN 0 ELSE s[m - 1] + f[m]
      /\ t[m] = IF m = 0 THEN 0 ELSE t[m - 1] + f[m]
  BY <1>3 DEF PartialSums
<1>5. m # 0 => m - 1 \in 0..n /\ ~ (m <= m - 1)
  BY <1>3
<1>6. m # 0 => s[m - 1] = t[m - 1]
  BY <1>2, <1>5
<1> QED
  BY <1>3, <1>4, <1>6

\* SumTo is the last partial sum.
LEMMA SumToIs ==
    ASSUME NEW n \in Nat, NEW f, NEW s, PartialSums(f, n, s)
    PROVE  SumTo(f, n) = s[n]
<1> DEFINE c == CHOOSE q : PartialSums(f, n, q)
<1>1. PartialSums(f, n, c)
  OBVIOUS
<1>2. c = s
  <2> HIDE DEF c
  <2> QED BY <1>1, PartialSumsUnique
<1>3. SumTo(f, n) = c[n]
  BY DEF SumTo, PartialSums
<1> QED
  BY <1>2, <1>3

\* The sum of natural numbers is a natural number.
LEMMA SumToType ==
    ASSUME NEW n \in Nat, NEW f, \A i \in 1..n : f[i] \in Nat
    PROVE  SumTo(f, n) \in Nat
<1>1. PICK s \in [0..n -> Nat] : PartialSums(f, n, s)
  BY PartialSumsExist
<1>2. SumTo(f, n) = s[n]
  BY <1>1, SumToIs
<1> QED
  BY <1>2

\* The sum of zeros is zero.
LEMMA SumToZero ==
    ASSUME NEW n \in Nat, NEW f, \A i \in 1..n : f[i] = 0
    PROVE  SumTo(f, n) = 0
<1> DEFINE z == [i \in 0..n |-> 0]
<1>1. ASSUME NEW i \in 0..n
      PROVE  z[i] = IF i = 0 THEN 0 ELSE z[i - 1] + f[i]
  <2>1. i # 0 => i - 1 \in 0..n /\ i \in 1..n
    OBVIOUS
  <2> QED
    BY <2>1
<1>2. PartialSums(f, n, z)
  BY <1>1 DEF PartialSums
<1>3. SumTo(f, n) = z[n]
  <2> HIDE DEF z
  <2> QED BY <1>2, SumToIs
<1> QED
  BY <1>3

\* Equal terms give equal sums.
LEMMA SumToSame ==
    ASSUME NEW n \in Nat, NEW f, NEW g, \A i \in 1..n : f[i] \in Nat,
           \A i \in 1..n : g[i] = f[i]
    PROVE  SumTo(g, n) = SumTo(f, n)
<1>1. PICK s \in [0..n -> Nat] : PartialSums(f, n, s)
  BY PartialSumsExist
<1>2. ASSUME NEW i \in 0..n
      PROVE  s[i] = IF i = 0 THEN 0 ELSE s[i - 1] + g[i]
  <2>1. i # 0 => i \in 1..n
    OBVIOUS
  <2> QED BY <1>1, <2>1 DEF PartialSums
<1>3. PartialSums(g, n, s)
  <2>1. s = [i \in 0..n |-> s[i]]
    OBVIOUS
  <2> QED BY <1>2, <2>1 DEF PartialSums
<1> QED
  BY <1>1, <1>3, SumToIs

\* Changing the k-th term changes the sum by the same amount.
LEMMA SumToUpdate ==
    ASSUME NEW n \in Nat, NEW f, NEW g, NEW k \in 1..n,
           \A i \in 1..n : f[i] \in Nat,
           \A i \in 1..n : i # k => g[i] = f[i],
           g[k] \in Nat
    PROVE  SumTo(g, n) = SumTo(f, n) - f[k] + g[k]
<1>1. PICK s \in [0..n -> Nat] : PartialSums(f, n, s)
  BY PartialSumsExist
<1> DEFINE d == g[k] - f[k]
           t == [i \in 0..n |-> IF i < k THEN s[i] ELSE s[i] + d]
<1>2. ASSUME NEW i \in 0..n
      PROVE  t[i] = IF i = 0 THEN 0 ELSE t[i - 1] + g[i]
  <2>1. s[i] = IF i = 0 THEN 0 ELSE s[i - 1] + f[i]
    BY <1>1 DEF PartialSums
  <2>2. i # 0 => i \in 1..n /\ i - 1 \in 0..n
    OBVIOUS
  <2>3. s[i] \in Nat /\ (i # 0 => s[i - 1] \in Nat /\ f[i] \in Nat)
    BY <2>2
  <2>4. f[k] \in Nat /\ g[k] \in Nat
    OBVIOUS
  <2>5. CASE i < k
    BY <2>1, <2>2, <2>3, <2>5
  <2>6. CASE i = k
    BY <2>1, <2>2, <2>3, <2>4, <2>6
  <2>7. CASE i > k
    BY <2>1, <2>2, <2>3, <2>4, <2>7
  <2> QED
    BY <2>5, <2>6, <2>7
<1>3. PartialSums(g, n, t)
  BY <1>2 DEF PartialSums
<1>4. SumTo(g, n) = t[n]
  <2> HIDE DEF t
  <2> QED BY <1>3, SumToIs
<1>5. SumTo(f, n) = s[n]
  BY <1>1, SumToIs
<1>6. t[n] = s[n] + d
  OBVIOUS
<1>7. s[n] \in Nat /\ f[k] \in Nat /\ g[k] \in Nat
  OBVIOUS
<1> QED
  BY <1>4, <1>5, <1>6, <1>7

\* SumToUpdate with its hypotheses named, for the provers' sake.
NatTerms(f, n) == \A i \in 1..n : f[i] \in Nat
SameBut(f, g, n, k) == \A i \in 1..n : i # k => g[i] = f[i]

LEMMA SumToChanged ==
    ASSUME NEW n \in Nat, NEW f, NEW g, NEW k \in 1..n,
           NatTerms(f, n), SameBut(f, g, n, k), g[k] \in Nat
    PROVE  SumTo(g, n) = SumTo(f, n) - f[k] + g[k]
BY SumToUpdate DEF NatTerms, SameBut

\* One term is at most the whole sum.
LEMMA SumToTermBound ==
    ASSUME NEW n \in Nat, NEW f, NEW k \in 1..n, \A i \in 1..n : f[i] \in Nat
    PROVE  f[k] <= SumTo(f, n)
<1> DEFINE g == [i \in 1..n |-> IF i = k THEN 0 ELSE f[i]]
<1>1. SumTo(g, n) = SumTo(f, n) - f[k] + g[k]
  <2>1. /\ \A i \in 1..n : i # k => g[i] = f[i]
        /\ g[k] \in Nat
    OBVIOUS
  <2> HIDE DEF g
  <2> QED BY <2>1, SumToUpdate
<1>2. SumTo(g, n) \in Nat
  <2>1. \A i \in 1..n : g[i] \in Nat
    OBVIOUS
  <2> HIDE DEF g
  <2> QED BY <2>1, SumToType
<1>3. SumTo(f, n) \in Nat
  BY SumToType
<1>4. g[k] = 0 /\ f[k] \in Nat
  OBVIOUS
<1> QED
  BY <1>1, <1>2, <1>3, <1>4

=============================================================================
