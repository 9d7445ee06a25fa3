--------------------------- MODULE CountingLemmas ---------------------------
(***************************************************************************)
(* What several proofs share: induction over numbers, loops, division,     *)
(* sums over finite sets, how many entries of a family of tables name a    *)
(* given page when one table grows, shrinks at an end, or has one more     *)
(* entry taken from it, ranks, and work that is taken from the front of a  *)
(* sequence.                                                               *)
(***************************************************************************)
EXTENDS Integers, Sequences, FiniteSets, FiniteSetTheorems,
        WellFoundedInduction, TLAPS

-----------------------------------------------------------------------------
(***************************************************************************)
(* Induction over numbers, as the principle of the least counterexample.   *)
(***************************************************************************)
LEMMA LeastNumber ==
  ASSUME NEW T, T \subseteq Nat, T # {}
  PROVE  \E m \in T : \A n \in T : m <= n
<1> DEFINE R == {ss \in Nat \X Nat : ss[1] < ss[2]}
<1>1. IsWellFoundedOn(R, Nat)
  BY NatLessThanWellFounded DEF OpToRel
<1> HIDE DEF R
<1>2. PICK m \in T : \A n \in T : ~(<<n, m>> \in R)
  BY <1>1, WFMin
<1>3. ASSUME NEW n \in T PROVE m <= n
  <2>1. ~(<<n, m>> \in R) /\ <<n, m>> \in Nat \X Nat
    BY <1>2
  <2> QED BY <2>1 DEF R
<1> QED BY <1>3

\* What a recursive function computes step by step, if it holds initially and
\* every step preserves it.
LEMMA NoCounterexample ==
  ASSUME NEW n \in Nat, NEW Good, 0 \in Good,
         \A k \in 0 .. n - 1 : k \in Good => k + 1 \in Good
  PROVE  0 .. n \subseteq Good
<1> SUFFICES ASSUME ~(0 .. n \subseteq Good) PROVE FALSE
  OBVIOUS
<1> DEFINE T == {k \in 0 .. n : k \notin Good}
<1>1. T \subseteq Nat /\ T # {}
  OBVIOUS
<1>2. PICK m \in T : \A k \in T : m <= k
  BY <1>1, LeastNumber
<1>3. m # 0 /\ m \in 0 .. n /\ m \notin Good
  OBVIOUS
<1>4. m - 1 \in 0 .. n - 1 /\ m - 1 \notin T
  BY <1>2, <1>3
<1>5. m - 1 \in Good
  BY <1>4
<1> QED BY <1>3, <1>4, <1>5

-----------------------------------------------------------------------------
(***************************************************************************)
(* Loops.  A function that a loop computes is the one that satisfies the   *)
(* recursion of the loop; there is one, so CHOOSE returns one.             *)
(***************************************************************************)
Steps(S, n) == [1 .. n -> [S -> S]]
Runs(S, b, n, step) ==
    {f \in [0 .. n -> S] : f[0] = b /\ \A m \in 1 .. n : f[m] = step[m][f[m - 1]]}

LEMMA LoopExists ==
  ASSUME NEW S, NEW b \in S, NEW n \in Nat, NEW step \in Steps(S, n)
  PROVE  Runs(S, b, n, step) # {}
<1> USE DEF Steps
<1> DEFINE Good == {l \in 0 .. n : \E f \in [0 .. l -> S] : f[0] = b /\ \A m \in 1 .. l : f[m] = step[m][f[m - 1]]}
<1>1. 0 \in Good
  <2> DEFINE f == [m \in 0 .. 0 |-> b]
  <2>1. f \in [0 .. 0 -> S] /\ f[0] = b /\ \A m \in 1 .. 0 : f[m] = step[m][f[m - 1]]
    OBVIOUS
  <2> HIDE DEF f
  <2>2. 0 \in 0 .. n
    OBVIOUS
  <2> QED BY <2>1, <2>2
<1>2. ASSUME NEW l \in 0 .. n - 1, l \in Good PROVE l + 1 \in Good
  <2>1. PICK f \in [0 .. l -> S] : f[0] = b /\ \A m \in 1 .. l : f[m] = step[m][f[m - 1]]
    BY <1>2
  <2>2. l \in Nat /\ l + 1 \in 1 .. n /\ f[l] \in S /\ step[l + 1][f[l]] \in S
    <3>1. l + 1 \in 1 .. n /\ f[l] \in S
      BY <2>1
    <3>2. step[l + 1] \in [S -> S]
      BY <3>1
    <3> QED BY <3>1, <3>2
  <2> DEFINE g == [m \in 0 .. l + 1 |-> IF m = l + 1 THEN step[l + 1][f[l]] ELSE f[m]]
  <2>3. g \in [0 .. l + 1 -> S] /\ g[0] = b
    BY <2>1, <2>2
  <2>4. ASSUME NEW m \in 1 .. l + 1 PROVE g[m] = step[m][g[m - 1]]
    <3>1. CASE m = l + 1
      BY <2>2, <3>1
    <3>2. CASE m # l + 1
      <4>1. m \in 1 .. l /\ m - 1 \in 0 .. l + 1 /\ m - 1 # l + 1 /\ m \in 0 .. l + 1
        BY <2>2, <3>2
      <4>2. g[m] = f[m] /\ g[m - 1] = f[m - 1]
        BY <3>2, <4>1
      <4> QED BY <2>1, <4>1, <4>2
    <3> QED BY <3>1, <3>2
  <2> HIDE DEF g
  <2>5. l + 1 \in 0 .. n
    BY <2>2
  <2> QED BY <2>3, <2>4, <2>5
<1> HIDE DEF Good
<1>3. n \in Good
  <2>1. 0 .. n \subseteq Good
    BY <1>1, <1>2, NoCounterexample
  <2> QED BY <2>1
<1> QED BY <1>3 DEF Good, Runs

-----------------------------------------------------------------------------
(***************************************************************************)
(* Division with remainder by a positive number.                           *)
(***************************************************************************)
LEMMA DivUnique ==
  ASSUME NEW P \in Nat \ {0}, NEW n \in Int, NEW q \in Int, NEW r \in 0 .. P - 1,
         n = P * q + r
  PROVE  n \div P = q /\ n % P = r
  OBVIOUS

LEMMA DivMod ==
  ASSUME NEW P \in Nat \ {0}, NEW n \in Nat
  PROVE  /\ n \div P \in Nat /\ n % P \in 0 .. P - 1
         /\ n = P * (n \div P) + (n % P)
<1>1. n % P \in 0 .. P - 1
  OBVIOUS
<1>2. n \div P \in Int
  OBVIOUS
<1>3. n = P * (n \div P) + (n % P)
  OBVIOUS
<1>4. n \div P >= 0
  <2> DEFINE q == n \div P  r == n % P
  <2>1. q \in Int /\ r \in 0 .. P - 1 /\ n = P * q + r
    BY <1>1, <1>2, <1>3
  <2> HIDE DEF q, r
  <2>2. ASSUME q < 0 PROVE FALSE
    <3>1. q + 1 <= 0
      BY <2>1, <2>2
    <3>2. P * (q + 1) <= 0
      BY <3>1, <2>1
    <3> QED BY <2>1, <3>2
  <2> QED BY <2>1, <2>2 DEF q
<1> QED BY <1>1, <1>2, <1>3, <1>4

\* ceil(n / P): the pages that n slots need, and the page of slot n.
LEMMA CeilNext ==
  ASSUME NEW P \in Nat \ {0}, NEW n \in Nat
  PROVE  /\ (n + 1 + P - 1) \div P = n \div P + 1
         /\ n % P = 0 => (n + P - 1) \div P = n \div P
         /\ n % P # 0 => (n + P - 1) \div P = n \div P + 1
         /\ (n + P - 1) \div P \in Nat
<1> DEFINE q == n \div P  r == n % P
<1>1. q \in Nat /\ r \in 0 .. P - 1 /\ n = P * q + r
  BY DivMod
<1> HIDE DEF q, r
<1>2. n + 1 + P - 1 = P * (q + 1) + r /\ q + 1 \in Nat
  BY <1>1
<1>3. (n + 1 + P - 1) \div P = q + 1
  BY <1>1, <1>2, DivUnique
<1>4. r = 0 => (n + P - 1) \div P = q
  <2> SUFFICES ASSUME r = 0 PROVE (n + P - 1) \div P = q
    OBVIOUS
  <2>1. n + P - 1 = P * q + (P - 1) /\ P - 1 \in 0 .. P - 1
    BY <1>1
  <2> QED BY <1>1, <2>1, DivUnique
<1>5. r # 0 => (n + P - 1) \div P = q + 1
  <2> SUFFICES ASSUME r # 0 PROVE (n + P - 1) \div P = q + 1
    OBVIOUS
  <2>1. n + P - 1 = P * (q + 1) + (r - 1) /\ r - 1 \in 0 .. P - 1 /\ q + 1 \in Int
    BY <1>1
  <2> QED BY <1>1, <2>1, DivUnique
<1> QED BY <1>1, <1>3, <1>4, <1>5 DEF q, r

LEMMA DivMonotone ==
  ASSUME NEW P \in Nat \ {0}, NEW a \in Nat, NEW b \in Nat, a <= b
  PROVE  a \div P <= b \div P
<1> DEFINE q == a \div P  r == a % P  u == b \div P  v == b % P
<1>1. /\ q \in Nat /\ r \in 0 .. P - 1 /\ a = P * q + r
      /\ u \in Nat /\ v \in 0 .. P - 1 /\ b = P * u + v
  BY DivMod
<1> HIDE DEF q, r, u, v
<1>2. ASSUME u < q PROVE FALSE
  <2>1. u + 1 <= q
    BY <1>1, <1>2
  <2>2. P * (u + 1) <= P * q
    BY <1>1, <2>1
  <2> QED BY <1>1, <2>2
<1> QED BY <1>1, <1>2 DEF q, u

-----------------------------------------------------------------------------
(***************************************************************************)
(* The sum over a finite set, as FiniteSetsExt computes it: one element    *)
(* after the other, in an order of its choice.                             *)
(***************************************************************************)
Pick(s) == CHOOSE x \in s : TRUE
Summing(h, S, f) ==
    [s \in SUBSET S |-> IF s = {} THEN 0 ELSE h[Pick(s)] + f[s \ {Pick(s)}]]

LEMMA PickIn == ASSUME NEW s, s # {} PROVE Pick(s) \in s
BY DEF Pick

LEMMA SmallerSet ==
  ASSUME NEW S, IsFiniteSet(S), NEW s \in SUBSET S, s # {}
  PROVE  /\ Pick(s) \in s /\ s \ {Pick(s)} \in SUBSET S /\ IsFiniteSet(s)
         /\ Cardinality(s) \in Nat /\ Cardinality(s) > 0
         /\ Cardinality(s \ {Pick(s)}) = Cardinality(s) - 1
<1>1. Pick(s) \in s
  BY PickIn
<1>2. IsFiniteSet(s)
  BY FS_Subset
<1>3. Cardinality(s \ {Pick(s)}) = Cardinality(s) - 1
  BY <1>1, <1>2, FS_RemoveElement
<1>4. Cardinality(s) \in Nat /\ Cardinality(s) # 0
  BY <1>2, FS_CardinalityType, FS_EmptySet
<1> QED BY <1>1, <1>2, <1>3, <1>4

SubsetsOfAtMost(S, k) == {s \in SUBSET S : Cardinality(s) <= k}
Sums(h, S, k, f) ==
    \A s \in SubsetsOfAtMost(S, k) : f[s] = IF s = {} THEN 0 ELSE h[Pick(s)] + f[s \ {Pick(s)}]

\* There is such a sum.
LEMMA SumExists ==
  ASSUME NEW S, IsFiniteSet(S), NEW h
  PROVE  \E f : f = Summing(h, S, f)
<1> DEFINE Good == {k \in Nat : \E f : Sums(h, S, k, f)}
           n == Cardinality(S)
<1>0. n \in Nat
  BY FS_CardinalityType
<1>1. 0 \in Good
  <2> DEFINE f == [s \in SUBSET S |-> 0]
  <2>1. ASSUME NEW s \in SubsetsOfAtMost(S, 0) PROVE s = {} /\ f[s] = 0
    <3>1. s \in SUBSET S /\ Cardinality(s) <= 0
      BY DEF SubsetsOfAtMost
    <3>2. s # {} => Cardinality(s) > 0
      BY <3>1, SmallerSet
    <3> QED BY <3>1, <3>2, FS_CardinalityType, FS_Subset
  <2> HIDE DEF f
  <2>2. Sums(h, S, 0, f)
    BY <2>1 DEF Sums
  <2> QED BY <2>2
<1>2. ASSUME NEW k \in 0 .. n - 1, k \in Good PROVE k + 1 \in Good
  <2>1. PICK f : Sums(h, S, k, f)
    BY <1>2
  <2> DEFINE g == [s \in SUBSET S |-> IF s = {} THEN 0
                                      ELSE IF Cardinality(s) <= k THEN f[s]
                                      ELSE h[Pick(s)] + f[s \ {Pick(s)}]]
  <2>2. ASSUME NEW s \in SubsetsOfAtMost(S, k) PROVE g[s] = f[s]
    <3>1. s \in SUBSET S /\ Cardinality(s) <= k
      BY DEF SubsetsOfAtMost
    <3>2. s = {} => f[s] = 0
      BY <2>1 DEF Sums
    <3> QED BY <3>1, <3>2
  <2>3. ASSUME NEW s \in SubsetsOfAtMost(S, k + 1), s # {}
        PROVE  g[s] = h[Pick(s)] + g[s \ {Pick(s)}]
    <3>1. s \in SUBSET S /\ Cardinality(s) <= k + 1
      BY DEF SubsetsOfAtMost
    <3>2. s \ {Pick(s)} \in SubsetsOfAtMost(S, k)
      BY <1>0, <2>3, <3>1, SmallerSet DEF SubsetsOfAtMost
    <3>3. g[s \ {Pick(s)}] = f[s \ {Pick(s)}]
      BY <2>2, <3>2
    <3>4. CASE Cardinality(s) <= k
      <4>1. s \in SubsetsOfAtMost(S, k)
        BY <3>1, <3>4 DEF SubsetsOfAtMost
      <4>2. f[s] = h[Pick(s)] + f[s \ {Pick(s)}] /\ g[s] = f[s]
        BY <2>1, <2>2, <2>3, <4>1 DEF Sums
      <4> QED BY <3>3, <4>2
    <3>5. CASE ~(Cardinality(s) <= k)
      <4>1. g[s] = h[Pick(s)] + f[s \ {Pick(s)}]
        BY <2>3, <3>1, <3>5
      <4> QED BY <3>3, <4>1
    <3> QED BY <3>4, <3>5
  <2>4. g[{}] = 0
    OBVIOUS
  <2> HIDE DEF g
  <2>5. Sums(h, S, k + 1, g)
    BY <2>3, <2>4 DEF Sums
  <2> QED BY <1>0, <2>5
<1>3. n \in Good
  <2> HIDE DEF Good, n
  <2> QED BY <1>0, <1>1, <1>2, NoCounterexample
<1>4. PICK f : Sums(h, S, n, f)
  BY <1>3
<1> DEFINE g == [s \in SUBSET S |-> f[s]]
<1>5. ASSUME NEW s \in SUBSET S PROVE s \in SubsetsOfAtMost(S, n)
  BY FS_Subset DEF SubsetsOfAtMost
<1>6. ASSUME NEW s \in SUBSET S
      PROVE  g[s] = IF s = {} THEN 0 ELSE h[Pick(s)] + g[s \ {Pick(s)}]
  BY <1>4, <1>5 DEF Sums
<1>7. g = [s \in SUBSET S |-> g[s]]
  OBVIOUS
<1> HIDE DEF g
<1>8. g = Summing(h, S, g)
  BY <1>6, <1>7 DEF Summing
<1> QED BY <1>8

\* A product with one more.
LEMMA OneMoreFactor == ASSUME NEW c \in Nat, NEW b \in Nat PROVE c * b \in Nat /\ (c + 1) * b = c * b + b
OBVIOUS

LEMMA OrderedProducts ==
  ASSUME NEW c \in Nat, NEW b \in Nat, NEW m \in Nat, c <= b
  PROVE  c * m <= b * m /\ c * m \in Nat /\ b * m \in Nat
<1>1. PICK d \in Nat : b = c + d
  <2>1. b - c \in Nat /\ b = c + (b - c)
    OBVIOUS
  <2> QED BY <2>1
<1>2. (c + d) * m = c * m + d * m /\ c * m \in Nat /\ d * m \in Nat
  OBVIOUS
<1> QED BY <1>1, <1>2

\* No sum exceeds the number of its terms times a bound of the terms, even when each
\* term in M is counted one higher.
LEMMA SumBound ==
  ASSUME NEW S, IsFiniteSet(S), NEW h, NEW f, f = Summing(h, S, f), NEW M, NEW b \in Nat,
         \A i \in S : h[i] \in Nat /\ h[i] <= b /\ (i \in M => h[i] + 1 <= b)
  PROVE  f[S] \in Nat /\ f[S] + Cardinality(S \cap M) <= Cardinality(S) * b
<1> DEFINE n == Cardinality(S)
           Fits(s) == f[s] \in Nat /\ f[s] + Cardinality(s \cap M) <= Cardinality(s) * b
           Good == {k \in Nat : \A s \in SUBSET S : Cardinality(s) = k => Fits(s)}
<1>0. n \in Nat
  BY FS_CardinalityType
<1>1. 0 \in Good
  <2>1. ASSUME NEW s \in SUBSET S, Cardinality(s) = 0 PROVE Fits(s)
    <3>1. s = {}
      <4>1. s # {} => Cardinality(s) > 0
        BY SmallerSet
      <4> QED BY <2>1, <4>1
    <3>2. f[{}] = 0
      <4>1. Summing(h, S, f)[{}] = 0
        BY DEF Summing
      <4> QED BY <4>1
    <3>3. Cardinality({}) = 0 /\ {} \cap M = {} /\ 0 * b = 0
      BY FS_EmptySet
    <3> QED BY <3>1, <3>2, <3>3
  <2> HIDE DEF Fits
  <2> QED BY <2>1
<1>2. ASSUME NEW k \in 0 .. n - 1, k \in Good PROVE k + 1 \in Good
  <2>1. ASSUME NEW s \in SUBSET S, Cardinality(s) = k + 1 PROVE Fits(s)
    <3> DEFINE x == Pick(s)  r == s \ {Pick(s)}
    <3>1. s # {}
      BY <1>0, <2>1, FS_EmptySet
    <3>2. x \in s /\ r \in SUBSET S /\ IsFiniteSet(s) /\ Cardinality(r) = k
      BY <1>0, <2>1, <3>1, SmallerSet
    <3>3. f[s] = h[x] + f[r]
      <4>1. Summing(h, S, f)[s] = h[x] + f[r]
        BY <3>1 DEF Summing
      <4> QED BY <4>1
    <3>4. Fits(r)
      <4> HIDE DEF Fits, r
      <4> QED BY <1>2, <3>2
    <3> HIDE DEF x
    <3>5. IsFiniteSet(r \cap M) /\ Cardinality(r \cap M) \in Nat
      BY <3>2, FS_Subset, FS_CardinalityType
    <3>6. x \in S /\ x \notin r /\ s = r \cup {x}
      BY <3>2 DEF x
    <3> HIDE DEF r
    <3>7. h[x] \in Nat /\ h[x] <= b /\ (x \in M => h[x] + 1 <= b)
      BY <3>6
    <3>8. Cardinality(s \cap M) = Cardinality(r \cap M) + (IF x \in M THEN 1 ELSE 0)
      <4>1. CASE x \in M
        <5>1. s \cap M = (r \cap M) \cup {x} /\ x \notin r \cap M
          BY <3>6, <4>1
        <5> QED BY <3>5, <4>1, <5>1, FS_AddElement
      <4>2. CASE x \notin M
        <5>1. s \cap M = r \cap M
          BY <3>6, <4>2
        <5>2. Cardinality(s \cap M) = Cardinality(r \cap M)
          BY <5>1, Zenon
        <5> QED BY <3>5, <4>2, <5>2
      <4> QED BY <4>1, <4>2
    <3>9. k * b \in Nat /\ (k + 1) * b = k * b + b /\ k \in Nat
      BY <1>0, OneMoreFactor
    <3>10. f[r] \in Nat /\ f[r] + Cardinality(r \cap M) <= k * b
      BY <3>2, <3>4
    <3>11. PICK kb, fr, cr : kb = k * b /\ fr = f[r] /\ cr = Cardinality(r \cap M)
      OBVIOUS
    <3>12. h[x] + fr \in Nat /\ h[x] + fr + (cr + (IF x \in M THEN 1 ELSE 0)) <= kb + b
      BY <3>5, <3>7, <3>9, <3>10, <3>11
    <3> QED BY <2>1, <3>3, <3>8, <3>9, <3>11, <3>12
  <2> HIDE DEF Fits
  <2> QED BY <1>0, <2>1
<1>3. n \in Good
  <2> HIDE DEF Good, n
  <2> QED BY <1>0, <1>1, <1>2, NoCounterexample
<1>4. Fits(S)
  <2> HIDE DEF Fits
  <2> QED BY <1>3
<1> QED BY <1>4

-----------------------------------------------------------------------------
(***************************************************************************)
(* How many of the first n elements of a sequence are not x.               *)
(***************************************************************************)
CountNot(q, n, x) == Cardinality({b \in 1 .. n : q[b] # x})

LEMMA CountNotType ==
  ASSUME NEW q, NEW x, NEW n \in Nat
  PROVE  /\ IsFiniteSet({b \in 1 .. n : q[b] # x})
         /\ CountNot(q, n, x) \in 0 .. n
<1>1. IsFiniteSet(1 .. n) /\ Cardinality(1 .. n) = n
  BY FS_Interval
<1>2. {b \in 1 .. n : q[b] # x} \in SUBSET (1 .. n)
  OBVIOUS
<1>3. /\ IsFiniteSet({b \in 1 .. n : q[b] # x})
      /\ Cardinality({b \in 1 .. n : q[b] # x}) <= n
  BY <1>1, <1>2, FS_Subset
<1> QED BY <1>3, FS_CardinalityType DEF CountNot

LEMMA CountNotStep ==
  ASSUME NEW q, NEW x, NEW n \in Nat
  PROVE  CountNot(q, n + 1, x) = CountNot(q, n, x) + (IF q[n + 1] # x THEN 1 ELSE 0)
<1> DEFINE A(k) == {b \in 1 .. k : q[b] # x}
<1>0. IsFiniteSet(A(n)) /\ CountNot(q, n, x) \in Nat
  BY CountNotType
<1>1. CASE q[n + 1] # x
  <2>1. A(n + 1) = A(n) \cup {n + 1} /\ n + 1 \notin A(n)
    BY <1>1
  <2> HIDE DEF A
  <2>2. Cardinality(A(n + 1)) = Cardinality(A(n)) + 1
    BY <1>0, <2>1, FS_AddElement
  <2> QED BY <1>1, <2>2 DEF CountNot, A
<1>2. CASE q[n + 1] = x
  <2>1. A(n + 1) = A(n)
    BY <1>2
  <2> QED BY <1>0, <1>2, <2>1 DEF CountNot
<1> QED BY <1>1, <1>2

LEMMA CountNotMonotone ==
  ASSUME NEW q, NEW x, NEW m \in Nat, NEW n \in Nat, m <= n
  PROVE  CountNot(q, m, x) <= CountNot(q, n, x)
<1>1. {b \in 1 .. m : q[b] # x} \in SUBSET {b \in 1 .. n : q[b] # x}
  OBVIOUS
<1>2. IsFiniteSet({b \in 1 .. n : q[b] # x})
  BY CountNotType
<1>3. Cardinality({b \in 1 .. m : q[b] # x}) <= Cardinality({b \in 1 .. n : q[b] # x})
  BY <1>1, <1>2, FS_Subset
<1> QED BY <1>3 DEF CountNot

-----------------------------------------------------------------------------
(***************************************************************************)
(* tab[s] is a table of pages and the entries up to from[s] do not count:  *)
(* the places of page p are the pairs <<s, i>> with tab[s][i] = p.         *)
(***************************************************************************)
Places(tab, from, p) ==
    {h \in (DOMAIN tab) \X Nat :
        h[2] \in from[h[1]] + 1 .. Len(tab[h[1]]) /\ tab[h[1]][h[2]] = p}
One(c) == IF c THEN 1 ELSE 0
Tables(S, P) == [S -> Seq(P)]
Marks(S) == [S -> Nat]

Named(tab, from, p, s, i) == i \in from[s] + 1 .. Len(tab[s]) /\ tab[s][i] = p

LEMMA AddOne ==
  ASSUME NEW A, IsFiniteSet(A), NEW x, x \notin A
  PROVE  /\ IsFiniteSet(A \cup {x})
         /\ Cardinality(A \cup {x}) = Cardinality(A) + 1
  BY FS_AddElement

LEMMA PlacesIff ==
  ASSUME NEW tab, NEW from, NEW p, NEW h
  PROVE  h \in Places(tab, from, p) <=>
           \E s \in DOMAIN tab, i \in Nat : h = <<s, i>> /\ Named(tab, from, p, s, i)
  BY DEF Places, Named

LEMMA PlacesFinite ==
  ASSUME NEW S, IsFiniteSet(S), NEW P, NEW tab \in Tables(S, P), NEW from \in Marks(S), NEW p
  PROVE  /\ IsFiniteSet(Places(tab, from, p))
         /\ Cardinality(Places(tab, from, p)) \in Nat
<1> USE DEF Tables, Marks
<1> DEFINE row == [s \in S |-> {s} \X (1 .. Len(tab[s]))]
           rows == {row[s] : s \in S}
<1>1. IsFiniteSet(rows)
  <2>2. row \in [S -> rows]
    OBVIOUS
  <2> HIDE DEF row
  <2>3. \A R \in rows : \E s \in S : row[s] = R
    OBVIOUS
  <2> HIDE DEF rows
  <2>4. row \in Surjection(S, rows)
    BY <2>2, <2>3 DEF Surjection
  <2> QED BY <2>4, FS_Surjection
<1>2. \A R \in rows : IsFiniteSet(R)
  <2> SUFFICES ASSUME NEW s \in S PROVE IsFiniteSet({s} \X (1 .. Len(tab[s])))
    OBVIOUS
  <2>1. Len(tab[s]) \in Int /\ 1 \in Int
    OBVIOUS
  <2>2. IsFiniteSet({s})
    BY FS_Singleton
  <2>3. IsFiniteSet(1 .. Len(tab[s]))
    BY <2>1, FS_Interval
  <2> QED BY <2>2, <2>3, FS_Product
<1>3. IsFiniteSet(UNION rows)
  BY <1>1, <1>2, FS_UNION
<1>4. Places(tab, from, p) \in SUBSET UNION rows
  <2> SUFFICES ASSUME NEW h \in Places(tab, from, p) PROVE h \in UNION rows
    OBVIOUS
  <2>1. h[1] \in S /\ h = <<h[1], h[2]>> /\ h[2] \in from[h[1]] + 1 .. Len(tab[h[1]])
    BY DEF Places
  <2>2. h[2] \in 1 .. Len(tab[h[1]])
    BY <2>1
  <2>3. h \in row[h[1]]
    BY <2>1, <2>2
  <2> QED BY <2>1, <2>3
<1>5. IsFiniteSet(Places(tab, from, p))
  BY <1>3, <1>4, FS_Subset
<1> QED BY <1>5, FS_CardinalityType

LEMMA FrontFacts ==
  ASSUME NEW P, NEW q \in Seq(P), Len(q) > 0
  PROVE  /\ SubSeq(q, 1, Len(q) - 1) \in Seq(P)
         /\ Len(SubSeq(q, 1, Len(q) - 1)) = Len(q) - 1
         /\ \A i \in 1 .. Len(q) - 1 : SubSeq(q, 1, Len(q) - 1)[i] = q[i]
<1> DEFINE m == Len(q) - 1
<1>1. m \in Nat /\ m <= Len(q)
  OBVIOUS
<1> HIDE DEF m
<1>2. SubSeq(q, 1, m) \in Seq(P)
  BY <1>1
<1>3. Len(SubSeq(q, 1, m)) = m /\ \A i \in 1 .. m : SubSeq(q, 1, m)[i] = q[i]
  BY <1>1
<1> QED BY <1>2, <1>3 DEF m

\* A page at the end of table s.
LEMMA PlacesAppend ==
  ASSUME NEW S, IsFiniteSet(S), NEW P, NEW tab \in Tables(S, P), NEW from \in Marks(S),
         NEW s \in S, NEW q \in P, from[s] <= Len(tab[s]),
         NEW new \in Tables(S, P), \A r \in S : r # s => new[r] = tab[r],
         Len(new[s]) = Len(tab[s]) + 1, new[s][Len(tab[s]) + 1] = q,
         \A i \in 1 .. Len(tab[s]) : new[s][i] = tab[s][i],
         NEW p
  PROVE  /\ q = p => Cardinality(Places(new, from, p)) = Cardinality(Places(tab, from, p)) + 1
         /\ q # p => Cardinality(Places(new, from, p)) = Cardinality(Places(tab, from, p))
<1> USE DEF Tables, Marks
<1> DEFINE L == Len(tab[s])
<1>1. /\ new \in [S -> Seq(P)] /\ L \in Nat
      /\ Len(new[s]) = L + 1 /\ new[s][L + 1] = q
      /\ \A i \in 1 .. L : new[s][i] = tab[s][i]
      /\ \A r \in S : r # s => new[r] = tab[r]
  OBVIOUS
<1> HIDE DEF L
<1>2. L = Len(tab[s])
  BY DEF L
<1>3. \A h : h \in Places(new, from, p) <=>
            h \in Places(tab, from, p) \/ (h = <<s, L + 1>> /\ q = p)
  <2> SUFFICES ASSUME NEW h
               PROVE  h \in Places(new, from, p) <=> h \in Places(tab, from, p) \/ (h = <<s, L + 1>> /\ q = p)
    OBVIOUS
  <2>d. DOMAIN tab = S /\ DOMAIN new = S
    BY <1>1
  <2>a. h \in Places(tab, from, p) <=>
          \E r \in S, i \in Nat : h = <<r, i>> /\ Named(tab, from, p, r, i)
    BY <2>d, PlacesIff
  <2>b. h \in Places(new, from, p) <=>
          \E r \in S, i \in Nat : h = <<r, i>> /\ Named(new, from, p, r, i)
    BY <2>d, PlacesIff
  <2>1. ASSUME NEW r \in S, NEW i \in Nat, Named(new, from, p, r, i)
        PROVE  Named(tab, from, p, r, i) \/ (<<r, i>> = <<s, L + 1>> /\ q = p)
    <3>1. CASE r = s
      BY <1>1, <1>2, <2>1, <3>1 DEF Named
    <3>2. CASE r # s
      BY <1>1, <2>1, <3>2 DEF Named
    <3> QED BY <3>1, <3>2
  <2>2. ASSUME NEW r \in S, NEW i \in Nat, Named(tab, from, p, r, i)
        PROVE  Named(new, from, p, r, i)
    <3>1. CASE r = s
      BY <1>1, <1>2, <2>2, <3>1 DEF Named
    <3>2. CASE r # s
      BY <1>1, <2>2, <3>2 DEF Named
    <3> QED BY <3>1, <3>2
  <2>3. q = p => L + 1 \in Nat /\ Named(new, from, p, s, L + 1)
    BY <1>1, <1>2 DEF Named
  <2> QED BY <1>1, <2>1, <2>2, <2>3, <2>a, <2>b
<1>4. <<s, L + 1>> \notin Places(tab, from, p)
  BY <1>1, <1>2 DEF Places
<1>5. IsFiniteSet(Places(tab, from, p)) /\ Cardinality(Places(tab, from, p)) \in Nat
  BY PlacesFinite
<1>6. CASE q = p
  <2>1. Places(new, from, p) = Places(tab, from, p) \cup {<<s, L + 1>>}
    BY <1>3, <1>6
  <2>2. PICK g : g = <<s, L + 1>>
    OBVIOUS
  <2>3. Cardinality(Places(tab, from, p) \cup {g}) = Cardinality(Places(tab, from, p)) + 1
    BY <1>4, <1>5, <2>2, AddOne
  <2> QED BY <1>6, <2>1, <2>2, <2>3
<1>7. CASE q # p
  <2>1. Places(new, from, p) = Places(tab, from, p)
    BY <1>3, <1>7
  <2> QED BY <1>1, <1>5, <1>7, <2>1
<1> QED BY <1>6, <1>7

\* The last page of table s goes.
LEMMA PlacesFront ==
  ASSUME NEW S, IsFiniteSet(S), NEW P, NEW tab \in Tables(S, P), NEW from \in Marks(S),
         NEW s \in S, from[s] < Len(tab[s]),
         NEW new \in Tables(S, P), \A r \in S : r # s => new[r] = tab[r],
         Len(new[s]) = Len(tab[s]) - 1,
         \A i \in 1 .. Len(tab[s]) - 1 : new[s][i] = tab[s][i],
         NEW p
  PROVE  /\ tab[s][Len(tab[s])] = p => Cardinality(Places(new, from, p)) = Cardinality(Places(tab, from, p)) - 1
         /\ tab[s][Len(tab[s])] # p => Cardinality(Places(new, from, p)) = Cardinality(Places(tab, from, p))
<1> USE DEF Tables, Marks
<1> DEFINE L == Len(tab[s])
<1>1. /\ new \in [S -> Seq(P)] /\ L \in Nat /\ from[s] < L
      /\ Len(new[s]) = L - 1
      /\ \A i \in 1 .. L - 1 : new[s][i] = tab[s][i]
      /\ \A r \in S : r # s => new[r] = tab[r]
  OBVIOUS
<1> HIDE DEF L
<1>2. L = Len(tab[s])
  BY DEF L
<1>3. \A h : h \in Places(new, from, p) <=> h \in Places(tab, from, p) /\ h # <<s, L>>
  <2> SUFFICES ASSUME NEW h
               PROVE  h \in Places(new, from, p) <=> h \in Places(tab, from, p) /\ h # <<s, L>>
    OBVIOUS
  <2>d. DOMAIN tab = S /\ DOMAIN new = S
    BY <1>1
  <2>a. h \in Places(tab, from, p) <=>
          \E r \in S, i \in Nat : h = <<r, i>> /\ Named(tab, from, p, r, i)
    BY <2>d, PlacesIff
  <2>b. h \in Places(new, from, p) <=>
          \E r \in S, i \in Nat : h = <<r, i>> /\ Named(new, from, p, r, i)
    BY <2>d, PlacesIff
  <2>1. ASSUME NEW r \in S, NEW i \in Nat, Named(new, from, p, r, i)
        PROVE  Named(tab, from, p, r, i) /\ <<r, i>> # <<s, L>>
    <3>1. CASE r = s
      <4>1. from[s] \in Nat /\ i \in from[s] + 1 .. L - 1 /\ new[s][i] = p
        BY <1>1, <2>1, <3>1 DEF Named
      <4>2. i \in 1 .. L - 1 /\ i \in from[s] + 1 .. L /\ i # L
        BY <1>1, <4>1
      <4>3. tab[s][i] = p
        BY <1>1, <4>1, <4>2
      <4> QED BY <1>2, <3>1, <4>2, <4>3 DEF Named
    <3>2. CASE r # s
      BY <1>1, <2>1, <3>2 DEF Named
    <3> QED BY <3>1, <3>2
  <2>2. ASSUME NEW r \in S, NEW i \in Nat, Named(tab, from, p, r, i), <<r, i>> # <<s, L>>
        PROVE  Named(new, from, p, r, i)
    <3>1. CASE r = s
      BY <1>1, <1>2, <2>2, <3>1, SMTT(30) DEF Named
    <3>2. CASE r # s
      BY <1>1, <2>2, <3>2 DEF Named
    <3> QED BY <3>1, <3>2
  <2> QED BY <1>1, <2>1, <2>2, <2>a, <2>b
<1>4. <<s, L>> \in Places(tab, from, p) <=> tab[s][L] = p
  BY <1>1, <1>2 DEF Places
<1>5. IsFiniteSet(Places(tab, from, p)) /\ Cardinality(Places(tab, from, p)) \in Nat
  BY PlacesFinite
<1>6. Places(new, from, p) = Places(tab, from, p) \ {<<s, L>>}
  BY <1>3
<1>7. Cardinality(Places(new, from, p)) =
        IF tab[s][L] = p THEN Cardinality(Places(tab, from, p)) - 1 ELSE Cardinality(Places(tab, from, p))
  BY <1>4, <1>5, <1>6, FS_RemoveElement
<1> QED BY <1>1, <1>2, <1>5, <1>7

\* One more entry of table s does not count.
LEMMA PlacesBump ==
  ASSUME NEW S, IsFiniteSet(S), NEW P, NEW tab \in Tables(S, P), NEW from \in Marks(S),
         NEW s \in S, from[s] < Len(tab[s]),
         NEW bump \in Marks(S), \A r \in S : r # s => bump[r] = from[r],
         bump[s] = from[s] + 1,
         NEW p
  PROVE  /\ tab[s][from[s] + 1] = p => Cardinality(Places(tab, bump, p)) = Cardinality(Places(tab, from, p)) - 1
         /\ tab[s][from[s] + 1] # p => Cardinality(Places(tab, bump, p)) = Cardinality(Places(tab, from, p))
<1> USE DEF Tables, Marks
<1> DEFINE k == from[s] + 1
<1>1. /\ bump \in [S -> Nat] /\ k \in Nat /\ k <= Len(tab[s]) /\ k = from[s] + 1
      /\ bump[s] = k /\ \A r \in S : r # s => bump[r] = from[r]
  OBVIOUS
<1> HIDE DEF k
<1>3. \A h : h \in Places(tab, bump, p) <=> h \in Places(tab, from, p) /\ h # <<s, k>>
  <2> SUFFICES ASSUME NEW h
               PROVE  h \in Places(tab, bump, p) <=> h \in Places(tab, from, p) /\ h # <<s, k>>
    OBVIOUS
  <2>d. DOMAIN tab = S
    OBVIOUS
  <2>a. h \in Places(tab, from, p) <=>
          \E r \in S, i \in Nat : h = <<r, i>> /\ Named(tab, from, p, r, i)
    BY <2>d, PlacesIff
  <2>b. h \in Places(tab, bump, p) <=>
          \E r \in S, i \in Nat : h = <<r, i>> /\ Named(tab, bump, p, r, i)
    BY <1>1, <2>d, PlacesIff
  <2>1. ASSUME NEW r \in S, NEW i \in Nat, Named(tab, bump, p, r, i)
        PROVE  Named(tab, from, p, r, i) /\ <<r, i>> # <<s, k>>
    BY <1>1, <2>1 DEF Named
  <2>2. ASSUME NEW r \in S, NEW i \in Nat, Named(tab, from, p, r, i), <<r, i>> # <<s, k>>
        PROVE  Named(tab, bump, p, r, i)
    BY <1>1, <2>2 DEF Named
  <2> QED BY <1>1, <2>1, <2>2, <2>a, <2>b
<1>4. <<s, k>> \in Places(tab, from, p) <=> tab[s][k] = p
  BY <1>1 DEF Places
<1>5. IsFiniteSet(Places(tab, from, p)) /\ Cardinality(Places(tab, from, p)) \in Nat
  BY PlacesFinite
<1>6. Places(tab, bump, p) = Places(tab, from, p) \ {<<s, k>>}
  BY <1>3
<1>7. Cardinality(Places(tab, bump, p)) =
        IF tab[s][k] = p THEN Cardinality(Places(tab, from, p)) - 1 ELSE Cardinality(Places(tab, from, p))
  <2>1. <<s, k>> \in Places(tab, from, p) =>
          Cardinality(Places(tab, from, p) \ {<<s, k>>}) = Cardinality(Places(tab, from, p)) - 1
    BY <1>5, FS_RemoveElement
  <2>2. <<s, k>> \notin Places(tab, from, p) =>
          Places(tab, from, p) \ {<<s, k>>} = Places(tab, from, p)
    OBVIOUS
  <2> QED BY <1>4, <1>6, <2>1, <2>2
<1> QED BY <1>1, <1>5, <1>7

\* The first page of table s goes and the others move up: places move too.
LEMMA PlacesTail ==
  ASSUME NEW S, IsFiniteSet(S), NEW P, NEW tab \in Tables(S, P), NEW from \in Marks(S),
         NEW s \in S, from[s] = 0, tab[s] # <<>>,
         NEW new \in Tables(S, P), \A r \in S : r # s => new[r] = tab[r],
         Len(new[s]) = Len(tab[s]) - 1,
         \A i \in 1 .. Len(tab[s]) - 1 : new[s][i] = tab[s][i + 1],
         NEW p
  PROVE  /\ Head(tab[s]) = p => Cardinality(Places(new, from, p)) = Cardinality(Places(tab, from, p)) - 1
         /\ Head(tab[s]) # p => Cardinality(Places(new, from, p)) = Cardinality(Places(tab, from, p))
<1> USE DEF Tables, Marks
<1> DEFINE L == Len(tab[s])
<1>1. /\ new \in [S -> Seq(P)] /\ L \in Nat /\ L >= 1
      /\ Len(new[s]) = L - 1 /\ Head(tab[s]) = tab[s][1]
      /\ \A i \in 1 .. L - 1 : new[s][i] = tab[s][i + 1]
      /\ \A r \in S : r # s => new[r] = tab[r]
  <2>1. /\ tab[s] \in Seq(P) /\ L \in Nat /\ L >= 1
        /\ Tail(tab[s]) \in Seq(P) /\ Len(Tail(tab[s])) = L - 1
        /\ Head(tab[s]) = tab[s][1]
        /\ \A i \in 1 .. L - 1 : Tail(tab[s])[i] = tab[s][i + 1]
    OBVIOUS
  <2> QED BY <2>1
<1> HIDE DEF L
<1>2. L = Len(tab[s])
  BY DEF L
<1>d. DOMAIN tab = S /\ DOMAIN new = S
  BY <1>1
<1> DEFINE A == Places(new, from, p)
           B == Places(tab, from, p) \ {<<s, 1>>}
           up(h) == IF h[1] = s THEN <<s, h[2] + 1>> ELSE h
           f == [h \in A |-> up(h)]
<1>3. \A h : h \in A <=> \E r \in S, i \in Nat : h = <<r, i>> /\ Named(new, from, p, r, i)
  BY <1>d, PlacesIff
<1>4. \A h : h \in Places(tab, from, p) <=>
            \E r \in S, i \in Nat : h = <<r, i>> /\ Named(tab, from, p, r, i)
  BY <1>d, PlacesIff
<1> HIDE DEF A
<1>5. ASSUME NEW h \in A PROVE up(h) \in B
  <2>1. PICK r \in S, i \in Nat : h = <<r, i>> /\ Named(new, from, p, r, i)
    BY <1>3
  <2>2. CASE r = s
    <3>1. Named(tab, from, p, s, i + 1) /\ i + 1 \in Nat /\ i + 1 # 1 /\ up(h) = <<s, i + 1>>
      BY <1>1, <1>2, <2>1, <2>2 DEF Named
    <3> HIDE DEF up
    <3> QED BY <1>4, <3>1
  <2>3. CASE r # s
    <3>1. Named(tab, from, p, r, i) /\ up(h) = <<r, i>>
      BY <1>1, <2>1, <2>3 DEF Named
    <3> HIDE DEF up
    <3> QED BY <1>4, <2>3, <3>1
  <2> QED BY <2>2, <2>3
<1>6. ASSUME NEW g \in A, NEW h \in A, up(g) = up(h) PROVE g = h
  <2>1. PICK r \in S, i \in Nat : g = <<r, i>>
    BY <1>3
  <2>2. PICK q \in S, j \in Nat : h = <<q, j>>
    BY <1>3
  <2> QED BY <1>6, <2>1, <2>2
<1>7. ASSUME NEW g \in B PROVE \E h \in A : up(h) = g
  <2>1. PICK r \in S, i \in Nat : g = <<r, i>> /\ Named(tab, from, p, r, i) /\ g # <<s, 1>>
    BY <1>4
  <2>2. CASE r = s
    <3>1. /\ Named(new, from, p, s, i - 1) /\ i - 1 \in Nat
          /\ up(<<s, i - 1>>) = <<s, i>>
      BY <1>1, <1>2, <2>1, <2>2 DEF Named
    <3>2. <<s, i - 1>> \in A
      BY <1>3, <3>1
    <3> HIDE DEF up
    <3> QED BY <2>1, <2>2, <3>1, <3>2
  <2>3. CASE r # s
    <3>1. Named(new, from, p, r, i) /\ up(<<r, i>>) = <<r, i>>
      BY <1>1, <2>1, <2>3 DEF Named
    <3>2. <<r, i>> \in A
      BY <1>3, <3>1
    <3> HIDE DEF up
    <3> QED BY <2>1, <3>1, <3>2
  <2> QED BY <2>2, <2>3
<1>8. Cardinality(A) = Cardinality(B) /\ IsFiniteSet(B)
  <2> HIDE DEF up, B
  <2>1. f \in Bijection(A, B)
    <3>1. f \in [A -> B] /\ \A h \in A : f[h] = up(h)
      BY <1>5
    <3> HIDE DEF f
    <3>2. IsInjective(f)
      BY <1>6, <3>1 DEF IsInjective
    <3>3. \A g \in B : \E h \in A : f[h] = g
      BY <1>7, <3>1
    <3> QED BY <3>1, <3>2, <3>3 DEF Bijection, Injection, Surjection
  <2>2. IsFiniteSet(A)
    BY <1>1, PlacesFinite DEF A
  <2> HIDE DEF f
  <2>3. ExistsBijection(A, B)
    BY <2>1 DEF ExistsBijection
  <2> QED BY <2>2, <2>3, FS_Bijection
<1>9. IsFiniteSet(Places(tab, from, p)) /\ Cardinality(Places(tab, from, p)) \in Nat
  BY PlacesFinite
<1>10. <<s, 1>> \in Places(tab, from, p) <=> Head(tab[s]) = p
  BY <1>1, <1>2 DEF Places
<1>11. Cardinality(B) =
         IF Head(tab[s]) = p THEN Cardinality(Places(tab, from, p)) - 1 ELSE Cardinality(Places(tab, from, p))
  BY <1>9, <1>10, FS_RemoveElement
<1> QED BY <1>1, <1>8, <1>9, <1>11 DEF A

\* The same entries count in both.
LEMMA PlacesSame ==
  ASSUME NEW S, NEW tab, NEW from, NEW new, NEW to, NEW p,
         DOMAIN tab = S, DOMAIN new = S,
         \A s \in S, i \in Nat : Named(new, to, p, s, i) <=> Named(tab, from, p, s, i)
  PROVE  Places(new, to, p) = Places(tab, from, p)
<1>1. \A h : h \in Places(new, to, p) <=> \E r \in S, i \in Nat : h = <<r, i>> /\ Named(new, to, p, r, i)
  BY PlacesIff
<1>2. \A h : h \in Places(tab, from, p) <=> \E r \in S, i \in Nat : h = <<r, i>> /\ Named(tab, from, p, r, i)
  BY PlacesIff
<1> QED BY <1>1, <1>2

\* Table s, empty before, is now a list of different pages.
LEMMA PlacesTake ==
  ASSUME NEW S, IsFiniteSet(S), NEW P, NEW tab \in Tables(S, P), NEW from \in Marks(S),
         NEW s \in S, from[s] = 0, tab[s] = <<>>, NEW q \in Seq(P),
         \A i, j \in 1 .. Len(q) : q[i] = q[j] => i = j,
         NEW new \in Tables(S, P), \A r \in S : r # s => new[r] = tab[r],
         new[s] = q,
         NEW p
  PROVE  /\ (\E i \in 1 .. Len(q) : q[i] = p) => Cardinality(Places(new, from, p)) = Cardinality(Places(tab, from, p)) + 1
         /\ ~(\E i \in 1 .. Len(q) : q[i] = p) => Cardinality(Places(new, from, p)) = Cardinality(Places(tab, from, p))
<1> USE DEF Tables, Marks
<1>1. /\ new \in [S -> Seq(P)] /\ new[s] = q /\ Len(q) \in Nat
      /\ \A r \in S : r # s => new[r] = tab[r]
  OBVIOUS
<1>d. DOMAIN tab = S /\ DOMAIN new = S
  BY <1>1
<1>2. \A h : h \in Places(new, from, p) <=> \E r \in S, i \in Nat : h = <<r, i>> /\ Named(new, from, p, r, i)
  BY <1>d, PlacesIff
<1>3. \A h : h \in Places(tab, from, p) <=> \E r \in S, i \in Nat : h = <<r, i>> /\ Named(tab, from, p, r, i)
  BY <1>d, PlacesIff
<1>4. IsFiniteSet(Places(tab, from, p)) /\ Cardinality(Places(tab, from, p)) \in Nat
  BY PlacesFinite
<1>5. \A i \in Nat : ~Named(tab, from, p, s, i)
  BY DEF Named
<1>6. \A r \in S, i \in Nat : r # s => (Named(new, from, p, r, i) <=> Named(tab, from, p, r, i))
  BY <1>1 DEF Named
<1>7. CASE \E i \in 1 .. Len(q) : q[i] = p
  <2>1. PICK i \in 1 .. Len(q) : q[i] = p
    BY <1>7
  <2>2. \A j \in Nat : Named(new, from, p, s, j) <=> j = i
    BY <1>1, <2>1 DEF Named
  <2>3. i \in Nat
    OBVIOUS
  <2>4. Places(new, from, p) = Places(tab, from, p) \cup {<<s, i>>}
    <3>1. ASSUME NEW h \in Places(new, from, p) PROVE h \in Places(tab, from, p) \/ h = <<s, i>>
      <4>1. PICK r \in S, j \in Nat : h = <<r, j>> /\ Named(new, from, p, r, j)
        BY <1>2
      <4>2. CASE r = s
        BY <2>2, <4>1, <4>2
      <4>3. CASE r # s
        BY <1>3, <1>6, <4>1, <4>3
      <4> QED BY <4>2, <4>3
    <3>2. <<s, i>> \in Places(new, from, p)
      BY <1>2, <2>2, <2>3
    <3>3. ASSUME NEW h \in Places(tab, from, p) PROVE h \in Places(new, from, p)
      <4>1. PICK r \in S, j \in Nat : h = <<r, j>> /\ Named(tab, from, p, r, j)
        BY <1>3
      <4>2. r # s
        BY <1>5, <4>1
      <4> QED BY <1>2, <1>6, <4>1, <4>2
    <3> QED BY <3>1, <3>2, <3>3
  <2>5. <<s, i>> \notin Places(tab, from, p)
    BY <1>1, <2>3 DEF Places
  <2>6. Cardinality(Places(tab, from, p) \cup {<<s, i>>}) = Cardinality(Places(tab, from, p)) + 1
    BY <1>4, <2>5, AddOne
  <2> QED BY <1>1, <1>7, <2>4, <2>6
<1>8. CASE ~ \E i \in 1 .. Len(q) : q[i] = p
  <2>1. \A j \in Nat : ~Named(new, from, p, s, j)
    BY <1>1, <1>8 DEF Named
  <2>2. Places(new, from, p) = Places(tab, from, p)
    <3>1. \A r \in S, j \in Nat : Named(new, from, p, r, j) <=> Named(tab, from, p, r, j)
      BY <1>5, <1>6, <2>1
    <3> QED BY <1>d, <3>1, PlacesSame
  <2> QED BY <1>1, <1>4, <1>8, <2>2
<1> QED BY <1>7, <1>8

\* One place, and two places.
LEMMA PlacesAny ==
  ASSUME NEW S, IsFiniteSet(S), NEW P, NEW tab \in Tables(S, P), NEW from \in Marks(S), NEW p,
         NEW s \in S, NEW i \in from[s] + 1 .. Len(tab[s]), tab[s][i] = p
  PROVE  Cardinality(Places(tab, from, p)) >= 1
<1> USE DEF Tables, Marks
<1>1. i \in Nat /\ <<s, i>> \in Places(tab, from, p)
  BY DEF Places
<1>2. IsFiniteSet(Places(tab, from, p)) /\ Cardinality(Places(tab, from, p)) \in Nat
  BY PlacesFinite
<1>3. Cardinality(Places(tab, from, p)) # 0
  BY <1>1, <1>2, FS_EmptySet
<1> QED BY <1>2, <1>3

LEMMA PlacesIn ==
  ASSUME NEW S, NEW P, NEW tab \in Tables(S, P), NEW from \in Marks(S), NEW p,
         NEW s \in S, NEW i \in from[s] + 1 .. Len(tab[s]), tab[s][i] = p
  PROVE  <<s, i>> \in Places(tab, from, p)
<1> USE DEF Tables, Marks
<1>1. i \in Nat
  OBVIOUS
<1> QED BY <1>1 DEF Places

LEMMA PlacesPair ==
  ASSUME NEW S, IsFiniteSet(S), NEW P, NEW tab \in Tables(S, P), NEW from \in Marks(S), NEW p,
         NEW g \in Places(tab, from, p), NEW h \in Places(tab, from, p), g # h
  PROVE  Cardinality(Places(tab, from, p)) >= 2
<1> USE DEF Tables, Marks
<1>1. {g, h} \subseteq Places(tab, from, p)
  OBVIOUS
<1>2. IsFiniteSet(Places(tab, from, p)) /\ Cardinality(Places(tab, from, p)) \in Nat
  BY PlacesFinite
<1>3. Cardinality({g, h}) = 2
  <2>2. IsFiniteSet({g}) /\ Cardinality({g}) = 1
    BY FS_Singleton
  <2> DEFINE both == {g} \cup {h}
  <2>3. Cardinality(both) = 1 + 1
    BY <2>2, AddOne
  <2>4. both = {g, h}
    OBVIOUS
  <2> HIDE DEF both
  <2>5. 1 + 1 = 2
    OBVIOUS
  <2> QED BY <2>3, <2>4, <2>5, Zenon
<1>4. Cardinality({g, h}) <= Cardinality(Places(tab, from, p))
  BY <1>1, <1>2, FS_Subset
<1> QED BY <1>2, <1>3, <1>4


-----------------------------------------------------------------------------
\* The ranks of the elements of a finite set in a strict order number the set;
\* so do those of numbers, where the order is <.
RankBy(S, R, l) == Cardinality({r \in S : <<r, l>> \in R})
StrictOrder(S, R) ==
    /\ \A l, m, r \in S : <<l, m>> \in R /\ <<m, r>> \in R => <<l, r>> \in R
    /\ \A l, m \in S : l = m \/ <<l, m>> \in R \/ <<m, l>> \in R
    /\ \A l \in S : <<l, l>> \notin R

LEMMA RanksBy ==
  ASSUME NEW S, IsFiniteSet(S), NEW R, StrictOrder(S, R)
  PROVE  /\ Cardinality(S) \in Nat
         /\ \A l \in S : RankBy(S, R, l) \in 0 .. Cardinality(S) - 1
         /\ \A l, m \in S : <<l, m>> \in R => RankBy(S, R, l) < RankBy(S, R, m)
         /\ \A l, m \in S : RankBy(S, R, l) = RankBy(S, R, m) => l = m
         /\ {RankBy(S, R, l) : l \in S} = 0 .. Cardinality(S) - 1
<1> DEFINE Below(l) == {r \in S : <<r, l>> \in R}
           n == Cardinality(S)
           f == [l \in S |-> RankBy(S, R, l)]
<1>1. n \in Nat
  BY FS_CardinalityType
<1>2. ASSUME NEW l \in S PROVE IsFiniteSet(Below(l)) /\ RankBy(S, R, l) \in Nat /\ RankBy(S, R, l) = Cardinality(Below(l))
  <2>1. Below(l) \in SUBSET S
    OBVIOUS
  <2>2. IsFiniteSet(Below(l)) /\ Cardinality(Below(l)) \in Nat
    BY <2>1, FS_Subset, FS_CardinalityType
  <2> QED BY <2>2 DEF RankBy
<1>3. ASSUME NEW l \in S, NEW A, IsFiniteSet(A), Below(l) \subseteq A, l \in A
      PROVE  RankBy(S, R, l) < Cardinality(A)
  <2>1. Below(l) \in SUBSET A /\ Below(l) # A
    BY <1>3 DEF StrictOrder
  <2>2. Cardinality(Below(l)) <= Cardinality(A) /\ Cardinality(A) # Cardinality(Below(l)) /\ Cardinality(A) \in Nat
    <3> HIDE DEF Below
    <3> QED BY <1>3, <2>1, FS_Subset, FS_CardinalityType
  <2> QED BY <1>2, <2>2
<1>4. ASSUME NEW l \in S PROVE RankBy(S, R, l) \in 0 .. n - 1
  <2>1. RankBy(S, R, l) < n
    BY <1>3
  <2>2. RankBy(S, R, l) \in Nat
    BY <1>2
  <2> HIDE DEF n
  <2> QED BY <1>1, <2>1, <2>2
<1>5. ASSUME NEW l \in S, NEW m \in S, <<l, m>> \in R PROVE RankBy(S, R, l) < RankBy(S, R, m)
  <2>1. Below(l) \subseteq Below(m) /\ l \in Below(m)
    BY <1>5 DEF StrictOrder
  <2> QED BY <1>2, <1>3, <2>1
<1>6. ASSUME NEW l \in S, NEW m \in S, RankBy(S, R, l) = RankBy(S, R, m) PROVE l = m
  <2>1. RankBy(S, R, l) \in Nat /\ RankBy(S, R, m) \in Nat
    BY <1>2
  <2>2. <<l, m>> \notin R
    BY <1>5, <1>6, <2>1
  <2>3. <<m, l>> \notin R
    BY <1>5, <1>6, <2>1
  <2> QED BY <2>2, <2>3 DEF StrictOrder
<1>7. f \in Injection(S, 0 .. n - 1)
  <2>1. f \in [S -> 0 .. n - 1]
    BY <1>4
  <2>2. IsInjective(f)
    BY <1>6 DEF IsInjective
  <2> QED BY <2>1, <2>2 DEF Injection
<1>8. f \in Surjection(S, 0 .. n - 1)
  <2>1. IsFiniteSet(0 .. n - 1) /\ Cardinality(0 .. n - 1) = n
    <3>1. PICK z \in Int, y \in Int : z = 0 /\ y = n - 1
      BY <1>1
    <3>2. IsFiniteSet(z .. y) /\ Cardinality(z .. y) = IF z > y THEN 0 ELSE y - z + 1
      BY FS_Interval
    <3> QED BY <1>1, <3>1, <3>2
  <2>2. Cardinality(S) = Cardinality(0 .. n - 1)
    BY <2>1
  <2> HIDE DEF f, n
  <2> QED BY <1>7, <2>1, <2>2, FS_Injection
<1>9. \A k \in 0 .. n - 1 : \E l \in S : RankBy(S, R, l) = k
  BY <1>8 DEF Surjection
<1> QED BY <1>1, <1>4, <1>5, <1>6, <1>9

RankIn(S, l) == Cardinality({r \in S : r < l})

LEMMA Ranks ==
  ASSUME NEW S, S \subseteq Int, IsFiniteSet(S)
  PROVE  /\ Cardinality(S) \in Nat
         /\ \A l \in S : RankIn(S, l) \in 0 .. Cardinality(S) - 1
         /\ \A l, m \in S : RankIn(S, l) = RankIn(S, m) => l = m
         /\ {RankIn(S, l) : l \in S} = 0 .. Cardinality(S) - 1
<1>0. PICK R : R = {h \in S \X S : h[1] < h[2]}
  OBVIOUS
<1>1. \A r, l \in S : <<r, l>> \in R <=> r < l
  BY <1>0
<1>2. StrictOrder(S, R)
  <2>1. \A l, m, r \in S : l < m /\ m < r => l < r
    OBVIOUS
  <2>2. \A l, m \in S : l = m \/ l < m \/ m < l
    OBVIOUS
  <2>3. \A l \in S : ~(l < l)
    OBVIOUS
  <2> QED BY <1>1, <2>1, <2>2, <2>3 DEF StrictOrder
<1>3. \A l \in S : RankIn(S, l) = RankBy(S, R, l)
  <2> SUFFICES ASSUME NEW l \in S PROVE {r \in S : r < l} = {r \in S : <<r, l>> \in R}
    BY DEF RankIn, RankBy
  <2> QED BY <1>1
<1>4. {RankIn(S, l) : l \in S} = {RankBy(S, R, l) : l \in S}
  BY <1>3
<1>5. /\ Cardinality(S) \in Nat
      /\ \A l \in S : RankBy(S, R, l) \in 0 .. Cardinality(S) - 1
      /\ \A l, m \in S : RankBy(S, R, l) = RankBy(S, R, m) => l = m
      /\ {RankBy(S, R, l) : l \in S} = 0 .. Cardinality(S) - 1
  BY <1>2, RanksBy
<1> QED BY <1>3, <1>4, <1>5

-----------------------------------------------------------------------------
LEMMA SameSequence ==
  ASSUME NEW S, NEW s \in Seq(S), NEW t \in Seq(S), Len(s) = Len(t),
         \A i \in 1 .. Len(s) : s[i] = t[i]
  PROVE  s = t
  OBVIOUS

LEMMA EmptySequence == ASSUME NEW S, NEW s \in Seq(S) PROVE s = <<>> <=> Len(s) = 0
  OBVIOUS

LEMMA TailOf ==
  ASSUME NEW S, NEW s \in Seq(S), s # <<>>
  PROVE  /\ Tail(s) \in Seq(S) /\ Len(Tail(s)) = Len(s) - 1
         /\ \A i \in 1 .. Len(s) - 1 : Tail(s)[i] = s[i + 1]
  OBVIOUS

LEMMA WholeSequence == ASSUME NEW S, NEW s \in Seq(S) PROVE SubSeq(s, 1, Len(s)) = s
  OBVIOUS

\* What is left of a sequence of operations when n of them are done: whoever works
\* through it takes the next one from the front.
LEMMA Rest ==
  ASSUME NEW S, NEW c \in Seq(S), NEW n \in Nat, n <= Len(c)
  PROVE  /\ SubSeq(c, n + 1, Len(c)) \in Seq(S)
         /\ Len(SubSeq(c, n + 1, Len(c))) = Len(c) - n
         /\ \A i \in 1 .. Len(c) - n : SubSeq(c, n + 1, Len(c))[i] = c[n + i]
  OBVIOUS

LEMMA WorkLeft ==
  ASSUME NEW S, NEW c \in Seq(S), NEW n \in 0 .. Len(c)
  PROVE  LET left == SubSeq(c, n + 1, Len(c)) IN
         /\ Len(c) \in Nat /\ DOMAIN c = 1 .. Len(c)
         /\ left = <<>> <=> n = Len(c)
         /\ left # <<>> => /\ n + 1 \in 1 .. Len(c) /\ Head(left) = c[n + 1]
                           /\ Tail(left) = SubSeq(c, n + 2, Len(c))
<1> DEFINE left == SubSeq(c, n + 1, Len(c))
           next == SubSeq(c, n + 1 + 1, Len(c))
<1>1. Len(c) \in Nat /\ n \in Nat /\ n <= Len(c)
  OBVIOUS
<1>0. DOMAIN c = 1 .. Len(c)
  OBVIOUS
<1>2. /\ left \in Seq(S) /\ Len(left) = Len(c) - n
      /\ \A i \in 1 .. Len(c) - n : left[i] = c[n + i]
  BY <1>1, Rest
<1>3. n < Len(c) => /\ next \in Seq(S) /\ Len(next) = Len(c) - (n + 1)
                    /\ \A i \in 1 .. Len(c) - (n + 1) : next[i] = c[n + 1 + i]
  <2> SUFFICES ASSUME n < Len(c)
               PROVE  /\ next \in Seq(S) /\ Len(next) = Len(c) - (n + 1)
                      /\ \A i \in 1 .. Len(c) - (n + 1) : next[i] = c[n + 1 + i]
    OBVIOUS
  <2>1. n + 1 \in Nat /\ n + 1 <= Len(c)
    BY <1>1
  <2> HIDE DEF left
  <2> QED BY <2>1, Rest
<1>4. n + 1 + 1 = n + 2
  BY <1>1
<1> HIDE DEF left, next
<1>5. left = <<>> <=> n = Len(c)
  <2>1. left = <<>> <=> Len(left) = 0
    BY <1>2, EmptySequence
  <2>2. Len(left) = 0 <=> n = Len(c)
    BY <1>1, <1>2
  <2> QED BY <2>1, <2>2
<1>6. ASSUME left # <<>> PROVE n + 1 \in 1 .. Len(c) /\ Head(left) = c[n + 1] /\ Tail(left) = next
  <2>1. n < Len(c)
    BY <1>1, <1>5, <1>6
  <2>2. Head(left) = c[n + 1]
    BY <1>1, <1>2, <1>6, <2>1
  <2>3. /\ Tail(left) \in Seq(S) /\ Len(Tail(left)) = Len(c) - n - 1
        /\ \A i \in 1 .. Len(c) - n - 1 : Tail(left)[i] = left[i + 1]
    BY <1>1, <1>2, <1>6, <2>1, TailOf
  <2>4. \A i \in 1 .. Len(c) - n - 1 : Tail(left)[i] = next[i]
    BY <1>1, <1>2, <1>3, <2>1, <2>3
  <2>5. Tail(left) = next
    <3>1. /\ next \in Seq(S) /\ Len(Tail(left)) = Len(next)
          /\ \A i \in 1 .. Len(Tail(left)) : Tail(left)[i] = next[i]
      BY <1>1, <1>3, <2>1, <2>3, <2>4
    <3> HIDE DEF next
    <3> QED BY <2>3, <3>1, SameSequence
  <2> QED BY <1>1, <2>1, <2>2, <2>5
<1> QED BY <1>0, <1>1, <1>4, <1>5, <1>6 DEF left, next
=============================================================================
