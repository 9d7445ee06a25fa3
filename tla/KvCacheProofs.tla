--------------------------- MODULE KvCacheProofs ---------------------------
(***************************************************************************)
(* What holds of the paged KV cache of 01-gguf-inference for every number  *)
(* of layers, pages and sequences, every page size and length bound, and   *)
(* every layer whose copies may fail, except the first: when the copy of   *)
(* the first layer fails, the pages reserved for the token are not given   *)
(* back (kv_append_failure), so 0 \notin FaultLayers is assumed.           *)
(*                                                                         *)
(* The invariant KvInv relates a token under way to the page tables: how   *)
(* long each table is before, at and after next_layer (TablesFit), which   *)
(* pages are reserved for the layers to come (Reserves), and where every   *)
(* page is (Accounted).  CacheInv adds what the pages hold: complete       *)
(* tokens (Written) and the layers done of the token under way (Settled).  *)
(***************************************************************************)
EXTENDS KvCache, CountingLemmas

\* Division, as the solver needs it spelled out.
LEMMA Quotient ==
  ASSUME NEW p \in Nat \ {0}, NEW n \in Nat
  PROVE  /\ n \div p \in Nat /\ n % p \in 0 .. p - 1 /\ n = p * (n \div p) + (n % p)
<1>1. n \div p \in Int /\ n % p \in 0 .. p - 1
  OBVIOUS
<1>2. n = p * (n \div p) + (n % p)
  OBVIOUS
<1>3. n \div p >= 0
  OBVIOUS
<1> QED BY <1>1, <1>2, <1>3

Divides(n, p, a, b) == n = p * a + b

LEMMA QuotientUnique ==
  ASSUME NEW p \in Nat \ {0}, NEW a \in Nat, NEW b \in 0 .. p - 1, NEW n, Divides(n, p, a, b)
  PROVE  n \in Nat /\ n \div p = a /\ n % p = b
<1>1. p * a \in Nat
  <2>1. \A x, y \in Nat : x * y \in Nat
    OBVIOUS
  <2> QED BY <2>1
<1>2. n \in Nat /\ n = p * a + b
  BY <1>1 DEF Divides
<1> PICK q, r : q = n \div p /\ r = n % p
  OBVIOUS
<1>3. q \in Nat /\ r \in 0 .. p - 1 /\ n = p * q + r
  BY <1>2, Quotient
<1>4. p * q \in Int /\ p * a \in Int /\ p * q - p * a = b - r
  BY <1>1, <1>2, <1>3
<1>5. ASSUME q > a PROVE FALSE
  <2>1. PICK d \in Nat \ {0} : q = a + d
    <3>1. q - a \in Nat \ {0} /\ q = a + (q - a)
      BY <1>3, <1>5
    <3> QED BY <3>1
  <2>2. p * (a + d) = p * a + p * d /\ p * d >= p
    BY <2>1
  <2>3. p * q = p * a + p * d
    BY <2>1, <2>2
  <2> QED BY <1>1, <1>3, <1>4, <2>2, <2>3
<1>6. ASSUME q < a PROVE FALSE
  <2>1. PICK d \in Nat \ {0} : a = q + d
    <3>1. a - q \in Nat \ {0} /\ a = q + (a - q)
      BY <1>3, <1>6
    <3> QED BY <3>1
  <2>2. p * (q + d) = p * q + p * d /\ p * d >= p
    BY <1>3, <2>1
  <2>3. p * a = p * q + p * d
    BY <2>1, <2>2
  <2> QED BY <1>1, <1>3, <1>4, <2>2, <2>3
<1>7. q = a
  BY <1>3, <1>5, <1>6
<1> QED BY <1>2, <1>3, <1>4, <1>7

LEMMA Quotients ==
  ASSUME NEW p \in Nat \ {0}, NEW n \in Nat
  PROVE  /\ n \div p <= n
         /\ n > 0 => (n - 1) \div p \in {n \div p, n \div p - 1}
<1> PICK q, r : q = n \div p /\ r = n % p
  OBVIOUS
<1>1. q = n \div p /\ q \in Nat /\ r \in 0 .. p - 1 /\ n = p * q + r
  BY Quotient
<1>2. q <= n
  <2>1. p * q >= q
    BY <1>1
  <2> QED BY <1>1, <2>1
<1>3. ASSUME n > 0 PROVE (n - 1) \div p \in {q, q - 1}
  <2>0. n - 1 \in Nat
    BY <1>3
  <2> PICK m, a, b : m = n - 1 /\ a = m \div p /\ b = m % p
    OBVIOUS
  <2>1. a = (n - 1) \div p /\ a \in Nat /\ b \in 0 .. p - 1 /\ n - 1 = p * a + b
    BY <2>0, Quotient
  <2>2. PICK d \in Int : d = q - a
    BY <1>1, <2>1
  <2>3. p * d = b + 1 - r
    <3>1. q = a + d
      BY <1>1, <2>1, <2>2
    <3>2. p * (a + d) = p * a + p * d
      BY <2>1
    <3>3. p * q = p * a + p * d
      BY <3>1, <3>2
    <3>4. p * q \in Int /\ p * a \in Int /\ p * d \in Int
      BY <1>1, <2>1
    <3> QED BY <1>1, <2>1, <3>3, <3>4
  <2>4. d <= 1
    <3>1. ASSUME d >= 2 PROVE FALSE
      <4>1. p * d >= p * 2
        BY <3>1
      <4> QED BY <2>3, <4>1, <1>1, <2>1
    <3> QED BY <3>1
  <2>5. d >= 0
    <3>1. ASSUME d <= -1 PROVE FALSE
      <4>1. p * d <= p * (-1)
        BY <3>1
      <4> QED BY <2>3, <4>1, <1>1, <2>1
    <3> QED BY <3>1
  <2> QED BY <1>1, <2>1, <2>2, <2>4, <2>5
<1> QED BY <1>1, <1>2, <1>3
-----------------------------------------------------------------------------
(***************************************************************************)
(* PagesAmong lists the pages of c, in whatever places they are.           *)
(***************************************************************************)
Collects(c, n, g) ==
    g = [k \in 0 .. n |-> IF k = 0 THEN <<>>
                          ELSE IF c[k] >= 0 THEN Append(g[k - 1], c[k]) ELSE g[k - 1]]

LEMMA CollectorExists ==
  ASSUME NEW n \in Nat, NEW c
  PROVE  \E g : Collects(c, n, g)
<1> DEFINE Good == {m \in 0 .. n : \E g : Collects(c, m, g)}
<1>1. 0 \in Good
  <2>1. Collects(c, 0, [k \in 0 .. 0 |-> <<>>])
    BY DEF Collects
  <2> QED BY <2>1
<1>2. ASSUME NEW m \in 0 .. n - 1, m \in Good PROVE m + 1 \in Good
  <2>1. PICK g : Collects(c, m, g)
    BY <1>2
  <2> DEFINE h == [k \in 0 .. m + 1 |->
                     IF k # m + 1 THEN g[k]
                     ELSE IF c[k] >= 0 THEN Append(g[k - 1], c[k]) ELSE g[k - 1]]
  <2>2. \A k \in 0 .. m : h[k] = g[k]
    OBVIOUS
  <2>3. h[m + 1] = IF c[m + 1] >= 0 THEN Append(g[m], c[m + 1]) ELSE g[m]
    OBVIOUS
  <2>4. h = [k \in 0 .. m + 1 |-> h[k]]
    OBVIOUS
  <2> HIDE DEF h
  <2>5. \A k \in 0 .. m + 1 :
           h[k] = IF k = 0 THEN <<>> ELSE IF c[k] >= 0 THEN Append(h[k - 1], c[k]) ELSE h[k - 1]
    <3> TAKE k \in 0 .. m + 1
    <3>1. CASE k = m + 1
      BY <2>2, <2>3, <3>1
    <3>2. CASE k \in 0 .. m
      <4>1. g[k] = IF k = 0 THEN <<>> ELSE IF c[k] >= 0 THEN Append(g[k - 1], c[k]) ELSE g[k - 1]
        BY <2>1, <3>2 DEF Collects
      <4>2. k # 0 => h[k - 1] = g[k - 1]
        BY <2>2, <3>2
      <4> QED BY <2>2, <3>2, <4>1, <4>2
    <3> QED BY <3>1, <3>2
  <2>6. Collects(c, m + 1, h)
    BY <2>4, <2>5 DEF Collects
  <2> QED BY <2>6
<1> HIDE DEF Good
<1>3. n \in Good
  BY <1>1, <1>2, NoCounterexample
<1> QED BY <1>3 DEF Good

\* q lists the pages among the first k entries of c, each once.
Lists(q, c, k, P) ==
    /\ q \in Seq(P)
    /\ \A i \in 1 .. Len(q) : \E j \in 1 .. k : c[j] = q[i]
    /\ \A j \in 1 .. k : c[j] >= 0 => \E i \in 1 .. Len(q) : q[i] = c[j]
    /\ \A i, j \in 1 .. Len(q) : q[i] = q[j] => i = j

NoneTwice(c, n) == \A i, j \in 1 .. n : c[i] = c[j] /\ c[i] >= 0 => i = j

LEMMA ListsNothing ==
  ASSUME NEW P, NEW c
  PROVE  Lists(<<>>, c, 0, P)
<1>1. <<>> \in Seq(P) /\ Len(<<>>) = 0
  OBVIOUS
<1> QED BY <1>1 DEF Lists

LEMMA ListsOneMore ==
  ASSUME NEW n \in Nat, NEW P, P \subseteq Nat, NEW c \in [1 .. n -> P \cup {-1}], NoneTwice(c, n),
         NEW k \in 0 .. n - 1, NEW q, Lists(q, c, k, P), c[k + 1] >= 0,
         NEW r, r = Append(q, c[k + 1])
  PROVE  Lists(r, c, k + 1, P)
<1>1. /\ q \in Seq(P)
      /\ \A i \in 1 .. Len(q) : \E j \in 1 .. k : c[j] = q[i]
      /\ \A j \in 1 .. k : c[j] >= 0 => \E i \in 1 .. Len(q) : q[i] = c[j]
      /\ \A i, j \in 1 .. Len(q) : q[i] = q[j] => i = j
  BY DEF Lists
<1>2. k + 1 \in 1 .. n
  OBVIOUS
<1>3. c[k + 1] \in P
  BY <1>2
<1>4. /\ r \in Seq(P) /\ Len(r) = Len(q) + 1 /\ r[Len(q) + 1] = c[k + 1]
      /\ \A i \in 1 .. Len(q) : r[i] = q[i]
  BY <1>1, <1>3
<1>5. Len(q) \in Nat
  BY <1>1
<1>6. \A i \in 1 .. Len(q) : q[i] # c[k + 1]
  <2> TAKE i \in 1 .. Len(q)
  <2>1. PICK j \in 1 .. k : c[j] = q[i]
    BY <1>1
  <2>2. j \in 1 .. n /\ j # k + 1
    OBVIOUS
  <2> QED BY <1>2, <2>1, <2>2 DEF NoneTwice
<1>7. \A i \in 1 .. Len(r) : i = Len(q) + 1 \/ i \in 1 .. Len(q)
  BY <1>4, <1>5
<1>8. \A i \in 1 .. Len(r) : \E j \in 1 .. k + 1 : c[j] = r[i]
  <2> TAKE i \in 1 .. Len(r)
  <2>1. CASE i = Len(q) + 1
    <3>1. k + 1 \in 1 .. k + 1
      OBVIOUS
    <3> QED BY <1>4, <2>1, <3>1
  <2>2. CASE i \in 1 .. Len(q)
    <3>1. PICK j \in 1 .. k : c[j] = q[i]
      BY <1>1, <2>2
    <3>2. j \in 1 .. k + 1 /\ r[i] = q[i]
      BY <1>4, <2>2
    <3> QED BY <3>1, <3>2
  <2> QED BY <1>7, <2>1, <2>2
<1>9. \A j \in 1 .. k + 1 : c[j] >= 0 => \E i \in 1 .. Len(r) : r[i] = c[j]
  <2> SUFFICES ASSUME NEW j \in 1 .. k + 1, c[j] >= 0 PROVE \E i \in 1 .. Len(r) : r[i] = c[j]
    OBVIOUS
  <2>1. CASE j = k + 1
    <3>1. Len(q) + 1 \in 1 .. Len(r)
      BY <1>4, <1>5
    <3> QED BY <1>4, <2>1, <3>1
  <2>2. CASE j \in 1 .. k
    <3>1. PICK i \in 1 .. Len(q) : q[i] = c[j]
      BY <1>1, <2>2
    <3>2. i \in 1 .. Len(r) /\ r[i] = q[i]
      BY <1>4, <1>5
    <3> QED BY <3>1, <3>2
  <2> QED BY <2>1, <2>2
<1>10. \A i, j \in 1 .. Len(r) : r[i] = r[j] => i = j
  BY <1>1, <1>4, <1>6, <1>7
<1> QED BY <1>4, <1>8, <1>9, <1>10 DEF Lists

LEMMA ListsNoMore ==
  ASSUME NEW n \in Nat, NEW P, P \subseteq Nat, NEW c \in [1 .. n -> P \cup {-1}],
         NEW k \in 0 .. n - 1, NEW q, Lists(q, c, k, P), ~(c[k + 1] >= 0)
  PROVE  Lists(q, c, k + 1, P)
  BY DEF Lists

LEMMA CollectorFacts ==
  ASSUME NEW n \in Nat, NEW P, P \subseteq Nat, NEW c \in [1 .. n -> P \cup {-1}], NoneTwice(c, n),
         NEW g, Collects(c, n, g)
  PROVE  Lists(g[n], c, n, P)
<1> DEFINE Good == {k \in 0 .. n : Lists(g[k], c, k, P)}
<1>1. 0 \in Good
  <2>1. g[0] = <<>> /\ 0 \in 0 .. n
    BY DEF Collects
  <2> QED BY <2>1, ListsNothing
<1>2. ASSUME NEW k \in 0 .. n - 1, k \in Good PROVE k + 1 \in Good
  <2>1. k + 1 \in 0 .. n /\ k + 1 # 0 /\ (k + 1) - 1 = k
    OBVIOUS
  <2>2. g[k + 1] = IF c[k + 1] >= 0 THEN Append(g[k], c[k + 1]) ELSE g[k]
    BY <2>1 DEF Collects
  <2>3. PICK q, r : q = g[k] /\ r = g[k + 1] /\ Lists(q, c, k, P)
    BY <1>2
  <2>4. CASE c[k + 1] >= 0
    BY <2>1, <2>2, <2>3, <2>4, ListsOneMore
  <2>5. CASE ~(c[k + 1] >= 0)
    BY <2>1, <2>2, <2>3, <2>5, ListsNoMore
  <2> QED BY <2>4, <2>5
<1> HIDE DEF Good
<1>3. n \in 0 .. n
  OBVIOUS
<1>4. n \in Good
  BY <1>1, <1>2, <1>3, NoCounterexample
<1> QED BY <1>4 DEF Good

LEMMA PagesAmongLists ==
  ASSUME NEW n \in Nat, NEW P, P \subseteq Nat, NEW c \in [1 .. n -> P \cup {-1}], NoneTwice(c, n)
  PROVE  Lists(PagesAmong(c, n), c, n, P)
<1> DEFINE Eq(g) == g = [k \in 0 .. n |-> IF k = 0 THEN <<>>
                             ELSE IF c[k] >= 0 THEN Append(g[k - 1], c[k]) ELSE g[k - 1]]
<1>1. PagesAmong(c, n) = (CHOOSE g : Eq(g))[n]
  BY DEF PagesAmong
<1>2. \E g : Eq(g)
  BY CollectorExists DEF Collects
<1> HIDE DEF Eq
<1>3. PICK g : Eq(g) /\ PagesAmong(c, n) = g[n]
  BY <1>1, <1>2
<1>4. Collects(c, n, g)
  BY <1>3 DEF Eq, Collects
<1> QED BY <1>3, <1>4, CollectorFacts

-----------------------------------------------------------------------------
(***************************************************************************)
(* Where the pages are: on the free list f, reserved in rs, or named by    *)
(* the page tables tb of as many sequences as rc says.                     *)
(***************************************************************************)
TableSet == [SeqIds -> [Layers -> Seq(Pages)]]
ReserveSet == [SeqIds -> [Layers -> Pages \cup {-1}]]

Names(tb, s, p) == \E l \in Layers : \E i \in 1 .. Len(tb[s][l]) : tb[s][l][i] = p
Naming(tb, p) == {s \in SeqIds : Names(tb, s, p)}
OnFree(f, p) == \E i \in 1 .. Len(f) : f[i] = p
Kept(rs, p) == \E s \in SeqIds, l \in Layers : rs[s][l] = p

FreeOnce(f) == \A i, j \in 1 .. Len(f) : f[i] = f[j] => i = j
KeptOnce(rs) ==
    \A s, u \in SeqIds, l, m \in Layers :
        rs[s][l] = rs[u][m] /\ rs[s][l] # -1 => s = u /\ l = m
NamedOnce(tb, s) ==
    \A l, m \in Layers : \A i \in 1 .. Len(tb[s][l]), j \in 1 .. Len(tb[s][m]) :
        tb[s][l][i] = tb[s][m][j] => l = m /\ i = j

Located(f, rc, tb, rs, p) ==
    /\ rc[p] = Cardinality(Naming(tb, p))
    /\ OnFree(f, p) => rc[p] = 0 /\ ~Kept(rs, p)
    /\ Kept(rs, p) => rc[p] = 0
    /\ rc[p] = 0 => OnFree(f, p) \/ Kept(rs, p)

Accounted(f, rc, tb, rs) ==
    /\ f \in Seq(Pages) /\ rc \in [Pages -> Nat] /\ tb \in TableSet /\ rs \in ReserveSet
    /\ FreeOnce(f) /\ KeptOnce(rs) /\ \A s \in SeqIds : NamedOnce(tb, s)
    /\ \A p \in Pages : Located(f, rc, tb, rs, p)

LEMMA SeqIdsFinite == IsFiniteSet(SeqIds) /\ IsFiniteSet(Layers)
<1>1. MaxSeqs - 1 \in Int /\ NLayers - 1 \in Int
  BY KvCacheAssumption
<1> QED BY <1>1, FS_Interval DEF SeqIds, Layers

LEMMA NamingFinite ==
  ASSUME NEW tb, NEW p
  PROVE  IsFiniteSet(Naming(tb, p)) /\ Cardinality(Naming(tb, p)) \in Nat
<1>1. Naming(tb, p) \in SUBSET SeqIds
  BY DEF Naming
<1>2. IsFiniteSet(Naming(tb, p))
  BY <1>1, SeqIdsFinite, FS_Subset
<1> QED BY <1>2, FS_CardinalityType

\* What a count says about the sequences that name the page.
LEMMA CountSays ==
  ASSUME NEW tb, NEW p, NEW n, n = Cardinality(Naming(tb, p))
  PROVE  /\ n \in Nat
         /\ n = 0 => \A s \in SeqIds : ~Names(tb, s, p)
         /\ \A s \in SeqIds : Names(tb, s, p) => n > 0
         /\ n = 1 => \A s, u \in SeqIds : Names(tb, s, p) /\ Names(tb, u, p) => s = u
         /\ n # 1 => \A s \in SeqIds : Names(tb, s, p) => n > 1
         /\ n > 0 => \E s \in SeqIds : Names(tb, s, p)
<1>1. IsFiniteSet(Naming(tb, p)) /\ n \in Nat
  BY NamingFinite
<1>2. n = 0 <=> Naming(tb, p) = {}
  BY <1>1, FS_EmptySet
<1>3. ASSUME n = 1, NEW s \in SeqIds, NEW u \in SeqIds, Names(tb, s, p), Names(tb, u, p)
      PROVE  s = u
  <2>1. PICK x : Naming(tb, p) = {x}
    BY <1>1, <1>3, FS_Singleton
  <2>2. s \in Naming(tb, p) /\ u \in Naming(tb, p)
    BY <1>3 DEF Naming
  <2> QED BY <2>1, <2>2
<1> QED BY <1>1, <1>2, <1>3 DEF Naming

LEMMA NamesSame ==
  ASSUME NEW tb, NEW new, NEW s, new[s] = tb[s]
  PROVE  /\ \A p : Names(new, s, p) <=> Names(tb, s, p)
         /\ NamedOnce(new, s) <=> NamedOnce(tb, s)
  BY DEF Names, NamedOnce

LEMMA AccountedTypes ==
  ASSUME NEW f, NEW rc, NEW tb, NEW rs, Accounted(f, rc, tb, rs)
  PROVE  /\ f \in Seq(Pages) /\ Len(f) \in Nat /\ \A i \in 1 .. Len(f) : f[i] \in Pages
         /\ \A p \in Pages : rc[p] \in Nat
         /\ \A s \in SeqIds, l \in Layers : tb[s][l] \in Seq(Pages) /\ Len(tb[s][l]) \in Nat
         /\ \A s \in SeqIds, l \in Layers : \A i \in 1 .. Len(tb[s][l]) : tb[s][l][i] \in Pages
         /\ \A s \in SeqIds, l \in Layers : rs[s][l] \in Pages \cup {-1}
         /\ -1 \notin Pages /\ Pages \subseteq Nat
<1>1. /\ f \in Seq(Pages) /\ rc \in [Pages -> Nat]
      /\ tb \in [SeqIds -> [Layers -> Seq(Pages)]]
      /\ rs \in [SeqIds -> [Layers -> Pages \cup {-1}]]
  BY DEF Accounted, TableSet, ReserveSet
<1>2. \A s \in SeqIds, l \in Layers : tb[s][l] \in Seq(Pages)
  BY <1>1
<1>3. \A q \in Seq(Pages) : Len(q) \in Nat /\ \A i \in 1 .. Len(q) : q[i] \in Pages
  OBVIOUS
<1>4. -1 \notin Pages /\ Pages \subseteq Nat
  BY DEF Pages
<1> QED BY <1>1, <1>2, <1>3, <1>4

(***************************************************************************)
(* A reserved page r becomes a page of s; the pages in gone, which others  *)
(* share, leave its tables.                                                *)
(***************************************************************************)
Releases(rs, nrs, s, l) ==
    /\ nrs \in ReserveSet /\ nrs[s][l] = -1
    /\ \A u \in SeqIds, m \in Layers : u # s \/ m # l => nrs[u][m] = rs[u][m]
Renames(tb, new, s, r, gone) ==
    /\ new \in TableSet /\ NamedOnce(new, s)
    /\ \A u \in SeqIds : u # s => new[u] = tb[u]
    /\ \A p : Names(new, s, p) <=> p = r \/ (Names(tb, s, p) /\ p \notin gone)
Recounts(rc, nrc, tb, s, r, gone) ==
    /\ \A p \in gone : Names(tb, s, p) /\ rc[p] > 1
    /\ nrc \in [Pages -> Nat]
    /\ \A p \in Pages : nrc[p] = IF p = r THEN 1 ELSE IF p \in gone THEN rc[p] - 1 ELSE rc[p]

LEMMA PlacedAccounted ==
  ASSUME NEW f, NEW rc, NEW tb, NEW rs, Accounted(f, rc, tb, rs),
         NEW s \in SeqIds, NEW l \in Layers, NEW r, r = rs[s][l], r # -1,
         NEW gone, NEW new, Renames(tb, new, s, r, gone),
         NEW nrs, Releases(rs, nrs, s, l),
         NEW nrc, Recounts(rc, nrc, tb, s, r, gone)
  PROVE  Accounted(f, nrc, new, nrs)
<1>0. /\ nrs \in ReserveSet /\ nrs[s][l] = -1
      /\ \A u \in SeqIds, m \in Layers : u # s \/ m # l => nrs[u][m] = rs[u][m]
  BY DEF Releases
<1>a. /\ new \in TableSet /\ NamedOnce(new, s)
      /\ \A u \in SeqIds : u # s => new[u] = tb[u]
      /\ \A p : Names(new, s, p) <=> p = r \/ (Names(tb, s, p) /\ p \notin gone)
  BY DEF Renames
<1>b. /\ \A p \in gone : Names(tb, s, p) /\ rc[p] > 1
      /\ nrc \in [Pages -> Nat]
      /\ \A p \in Pages : nrc[p] = IF p = r THEN 1 ELSE IF p \in gone THEN rc[p] - 1 ELSE rc[p]
  BY DEF Recounts
<1>1. r \in Pages /\ Kept(rs, r)
  BY AccountedTypes DEF Kept
<1>2. Located(f, rc, tb, rs, r)
  BY <1>1 DEF Accounted
<1>3. rc[r] = 0 /\ \A u \in SeqIds : ~Names(tb, u, r)
  BY <1>1, <1>2, CountSays DEF Located
<1>4. \A u \in SeqIds : \A p : u # s => (Names(new, u, p) <=> Names(tb, u, p))
  BY <1>a, NamesSame
<1>5. \A p \in Pages : Kept(nrs, p) <=> Kept(rs, p) /\ p # r
  <2>1. ASSUME NEW p \in Pages, Kept(nrs, p) PROVE Kept(rs, p) /\ p # r
    <3>1. PICK u \in SeqIds, m \in Layers : nrs[u][m] = p
      BY <2>1 DEF Kept
    <3>2. u # s \/ m # l
      BY <1>0, <3>1, AccountedTypes
    <3>3. rs[u][m] = p
      BY <1>0, <3>1, <3>2
    <3>4. p # -1
      BY AccountedTypes
    <3> QED BY <3>2, <3>3, <3>4 DEF Kept, Accounted, KeptOnce
  <2>2. ASSUME NEW p \in Pages, Kept(rs, p), p # r PROVE Kept(nrs, p)
    <3>1. PICK u \in SeqIds, m \in Layers : rs[u][m] = p
      BY <2>2 DEF Kept
    <3> QED BY <1>0, <2>2, <3>1 DEF Kept
  <2> QED BY <2>1, <2>2
<1>6. KeptOnce(nrs)
  BY <1>0 DEF Accounted, KeptOnce
<1>7. \A u \in SeqIds : NamedOnce(new, u)
  BY <1>a, NamesSame DEF Accounted
<1>8. ASSUME NEW p \in Pages PROVE Located(f, nrc, new, nrs, p)
  <2>1. Located(f, rc, tb, rs, p) /\ rc[p] \in Nat
    BY AccountedTypes DEF Accounted
  <2>2. CASE p = r
    <3>1. Naming(new, p) = {s}
      BY <1>a, <1>b, <1>3, <1>4, <2>2 DEF Naming
    <3>2. Cardinality(Naming(new, p)) = 1
      BY <3>1, FS_Singleton
    <3>3. ~OnFree(f, p) /\ ~Kept(nrs, p) /\ nrc[p] = 1
      BY <1>b, <1>1, <1>2, <1>5, <2>2 DEF Located
    <3> QED BY <3>2, <3>3 DEF Located
  <2>3. CASE p # r /\ p \in gone
    <3>1. Naming(new, p) = Naming(tb, p) \ {s} /\ s \in Naming(tb, p)
      BY <1>a, <1>b, <1>4, <2>3 DEF Naming
    <3>2. Cardinality(Naming(new, p)) = Cardinality(Naming(tb, p)) - 1
      <4>1. PICK N : N = Naming(tb, p) /\ IsFiniteSet(N) /\ s \in N
        BY <3>1, NamingFinite
      <4>2. Cardinality(N \ {s}) = Cardinality(N) - 1
        BY <4>1, FS_RemoveElement
      <4> QED BY <3>1, <4>1, <4>2
    <3>3. nrc[p] = rc[p] - 1 /\ rc[p] > 1
      BY <1>b, <2>3
    <3> QED BY <1>5, <2>1, <3>2, <3>3 DEF Located
  <2>4. CASE p # r /\ p \notin gone
    <3>1. Naming(new, p) = Naming(tb, p)
      BY <1>a, <1>4, <2>4 DEF Naming
    <3>2. nrc[p] = rc[p]
      BY <1>b, <2>4
    <3> QED BY <1>5, <2>1, <2>4, <3>1, <3>2 DEF Located
  <2> QED BY <2>2, <2>3, <2>4
<1> QED BY <1>0, <1>a, <1>b, <1>6, <1>7, <1>8 DEF Accounted

Pushed(f, r, nf) == nf = Append(f, r)

\* A reserved page that is not needed goes back.
LEMMA ReturnedAccounted ==
  ASSUME NEW f, NEW rc, NEW tb, NEW rs, Accounted(f, rc, tb, rs),
         NEW s \in SeqIds, NEW l \in Layers, NEW r, r = rs[s][l], r # -1,
         NEW nf, Pushed(f, r, nf),
         NEW nrs, Releases(rs, nrs, s, l)
  PROVE  Accounted(nf, rc, tb, nrs)
<1>0. /\ nrs \in ReserveSet /\ nrs[s][l] = -1
      /\ \A u \in SeqIds, m \in Layers : u # s \/ m # l => nrs[u][m] = rs[u][m]
  BY DEF Releases
<1>1. r \in Pages /\ Kept(rs, r)
  BY AccountedTypes DEF Kept
<1>2. Located(f, rc, tb, rs, r)
  BY <1>1 DEF Accounted
<1>3. /\ nf \in Seq(Pages) /\ Len(nf) = Len(f) + 1 /\ nf[Len(f) + 1] = r
      /\ \A i \in 1 .. Len(f) : nf[i] = f[i]
  BY <1>1, AccountedTypes DEF Pushed
<1>4. \A i \in 1 .. Len(nf) : i = Len(f) + 1 \/ i \in 1 .. Len(f)
  BY <1>3, AccountedTypes
<1>5. \A p : OnFree(nf, p) <=> OnFree(f, p) \/ p = r
  <2>1. Len(f) + 1 \in 1 .. Len(nf) /\ \A i \in 1 .. Len(f) : i \in 1 .. Len(nf)
    BY <1>3, AccountedTypes
  <2> QED BY <1>3, <1>4, <2>1 DEF OnFree
<1>6. FreeOnce(nf)
  <2>1. \A i \in 1 .. Len(f) : f[i] # r
    BY <1>1, <1>2 DEF Located, OnFree
  <2> QED BY <1>3, <1>4, <2>1 DEF Accounted, FreeOnce
<1>7. \A p \in Pages : Kept(nrs, p) <=> Kept(rs, p) /\ p # r
  <2>1. ASSUME NEW p \in Pages, Kept(nrs, p) PROVE Kept(rs, p) /\ p # r
    <3>1. PICK u \in SeqIds, m \in Layers : nrs[u][m] = p
      BY <2>1 DEF Kept
    <3>2. u # s \/ m # l
      BY <1>0, <3>1, AccountedTypes
    <3>3. rs[u][m] = p
      BY <1>0, <3>1, <3>2
    <3>4. p # -1
      BY AccountedTypes
    <3> QED BY <3>2, <3>3, <3>4 DEF Kept, Accounted, KeptOnce
  <2>2. ASSUME NEW p \in Pages, Kept(rs, p), p # r PROVE Kept(nrs, p)
    <3>1. PICK u \in SeqIds, m \in Layers : rs[u][m] = p
      BY <2>2 DEF Kept
    <3> QED BY <1>0, <2>2, <3>1 DEF Kept
  <2> QED BY <2>1, <2>2
<1>8. KeptOnce(nrs)
  BY <1>0 DEF Accounted, KeptOnce
<1>9. \A p \in Pages : Located(nf, rc, tb, nrs, p)
  BY <1>1, <1>2, <1>5, <1>7 DEF Accounted, Located
<1> QED BY <1>0, <1>3, <1>6, <1>8, <1>9 DEF Accounted

\* place takes a place behind the first n of f for each layer of X, and all of
\* them: sequence s, for which rs keeps nothing, keeps those pages in nrs; nf is
\* what is left.
Takes(f, nf, X, n, place, s, rs, nrs) ==
    /\ X \subseteq Layers /\ n \in 0 .. Len(f) /\ nf = SubSeq(f, 1, n)
    /\ place \in [X -> n + 1 .. Len(f)]
    /\ \A l, m \in X : place[l] = place[m] => l = m
    /\ \A i \in n + 1 .. Len(f) : \E l \in X : place[l] = i
    /\ \A m \in Layers : rs[s][m] = -1
    /\ nrs \in ReserveSet /\ \A u \in SeqIds : u # s => nrs[u] = rs[u]
    /\ \A m \in Layers : nrs[s][m] = IF m \in X THEN f[place[m]] ELSE -1

\* The pages behind the first n of the free list are reserved for the layers
\* of X, one each.
LEMMA ReservedAccounted ==
  ASSUME NEW f, NEW rc, NEW tb, NEW rs, Accounted(f, rc, tb, rs),
         NEW s \in SeqIds, NEW nf, NEW X, NEW n, NEW place, NEW nrs,
         Takes(f, nf, X, n, place, s, rs, nrs)
  PROVE  Accounted(nf, rc, tb, nrs)
<1>0. /\ X \subseteq Layers /\ n \in 0 .. Len(f) /\ nf = SubSeq(f, 1, n)
      /\ place \in [X -> n + 1 .. Len(f)]
      /\ \A l, m \in X : place[l] = place[m] => l = m
      /\ \A i \in n + 1 .. Len(f) : \E l \in X : place[l] = i
  BY DEF Takes
<1>r. /\ \A m \in Layers : rs[s][m] = -1
      /\ nrs \in ReserveSet /\ \A u \in SeqIds : u # s => nrs[u] = rs[u]
      /\ \A m \in Layers : nrs[s][m] = IF m \in X THEN f[place[m]] ELSE -1
  BY DEF Takes
<1>1. n \in Nat /\ n <= Len(f) /\ Len(f) \in Nat
  BY <1>0, AccountedTypes
<1>2. nf \in Seq(Pages) /\ Len(nf) = n /\ \A i \in 1 .. n : nf[i] = f[i]
  BY <1>0, <1>1, AccountedTypes
<1>3. \A m \in X : m \in Layers /\ place[m] \in n + 1 .. Len(f) /\ nrs[s][m] = f[place[m]]
  BY <1>0, <1>r
<1>4. \A i \in n + 1 .. Len(f) : i \in 1 .. Len(f) /\ i \notin 1 .. n
  BY <1>1
<1>5. \A i \in 1 .. n : i \in 1 .. Len(f)
  BY <1>1
<1>6. \A i, j \in 1 .. Len(f) : f[i] = f[j] => i = j
  BY DEF Accounted, FreeOnce
<1>7. FreeOnce(nf)
  BY <1>2, <1>5, <1>6 DEF FreeOnce
<1>8. \A p : OnFree(nf, p) <=> \E i \in 1 .. n : f[i] = p
  BY <1>2 DEF OnFree
<1>9. \A p \in Pages : Kept(nrs, p) <=> Kept(rs, p) \/ \E m \in X : f[place[m]] = p
  <2> TAKE p \in Pages
  <2>0. p # -1
    BY AccountedTypes
  <2>1. ASSUME Kept(nrs, p) PROVE Kept(rs, p) \/ \E m \in X : f[place[m]] = p
    <3>1. PICK u \in SeqIds, m \in Layers : nrs[u][m] = p
      BY <2>1 DEF Kept
    <3>2. CASE u = s
      BY <1>r, <2>0, <3>1, <3>2
    <3>3. CASE u # s
      BY <1>r, <3>1, <3>3 DEF Kept
    <3> QED BY <3>2, <3>3
  <2>2. ASSUME Kept(rs, p) PROVE Kept(nrs, p)
    <3>1. PICK u \in SeqIds, m \in Layers : rs[u][m] = p
      BY <2>2 DEF Kept
    <3>2. u # s
      BY <1>r, <2>0, <3>1
    <3> QED BY <1>r, <3>1, <3>2 DEF Kept
  <2>3. ASSUME NEW m \in X, f[place[m]] = p PROVE Kept(nrs, p)
    BY <1>3, <2>3 DEF Kept
  <2> QED BY <2>1, <2>2, <2>3
<1>10. \A i \in 1 .. Len(f) : f[i] \in Pages /\ OnFree(f, f[i]) /\ ~Kept(rs, f[i]) /\ rc[f[i]] = 0
  <2> TAKE i \in 1 .. Len(f)
  <2>1. f[i] \in Pages /\ OnFree(f, f[i])
    BY AccountedTypes DEF OnFree
  <2>2. Located(f, rc, tb, rs, f[i])
    BY <2>1 DEF Accounted
  <2> QED BY <2>1, <2>2 DEF Located
<1>11. KeptOnce(nrs)
  <2> SUFFICES ASSUME NEW u \in SeqIds, NEW v \in SeqIds, NEW l \in Layers, NEW m \in Layers,
                      nrs[u][l] = nrs[v][m], nrs[u][l] # -1
               PROVE  u = v /\ l = m
    BY DEF KeptOnce
  <2>1. CASE u = s /\ v = s
    <3>1. l \in X /\ m \in X /\ f[place[l]] = f[place[m]]
      BY <1>r, <2>1
    <3>2. place[l] = place[m]
      BY <1>3, <1>4, <1>6, <3>1
    <3> QED BY <1>0, <2>1, <3>1, <3>2
  <2>2. CASE u # s /\ v # s
    <3>1. KeptOnce(rs)
      BY DEF Accounted
    <3>2. rs[u][l] = rs[v][m] /\ rs[u][l] # -1
      BY <1>r, <2>2
    <3> QED BY <3>1, <3>2 DEF KeptOnce
  <2>3. CASE u = s /\ v # s
    <3>1. l \in X /\ rs[v][m] = f[place[l]]
      BY <1>r, <2>3
    <3>2. Kept(rs, f[place[l]])
      BY <3>1 DEF Kept
    <3> QED BY <1>3, <1>4, <1>10, <3>1, <3>2
  <2>4. CASE u # s /\ v = s
    <3>1. m \in X /\ rs[u][l] = f[place[m]]
      BY <1>r, <2>4
    <3>2. Kept(rs, f[place[m]])
      BY <3>1 DEF Kept
    <3> QED BY <1>3, <1>4, <1>10, <3>1, <3>2
  <2> QED BY <2>1, <2>2, <2>3, <2>4
<1>12. ASSUME NEW p \in Pages PROVE Located(nf, rc, tb, nrs, p)
  <2>1. Located(f, rc, tb, rs, p)
    BY DEF Accounted
  <2>2. OnFree(nf, p) => rc[p] = 0 /\ ~Kept(nrs, p)
    <3>1. SUFFICES ASSUME NEW i \in 1 .. n, f[i] = p PROVE rc[p] = 0 /\ ~Kept(nrs, p)
      BY <1>8
    <3>2. rc[p] = 0 /\ ~Kept(rs, p)
      BY <1>5, <1>10, <3>1
    <3>3. \A m \in X : f[place[m]] # p
      BY <1>3, <1>4, <1>5, <1>6, <3>1
    <3> QED BY <1>9, <3>2, <3>3
  <2>3. Kept(nrs, p) => rc[p] = 0
    BY <1>3, <1>4, <1>9, <1>10, <2>1 DEF Located
  <2>4. rc[p] = 0 => OnFree(nf, p) \/ Kept(nrs, p)
    <3>1. SUFFICES ASSUME OnFree(f, p) PROVE OnFree(nf, p) \/ Kept(nrs, p)
      BY <1>9, <2>1 DEF Located
    <3>2. PICK i \in 1 .. Len(f) : f[i] = p
      BY <3>1 DEF OnFree
    <3>3. i \in 1 .. n \/ i \in n + 1 .. Len(f)
      BY <1>1
    <3> QED BY <1>0, <1>8, <1>9, <3>2, <3>3
  <2> QED BY <2>1, <2>2, <2>3, <2>4 DEF Located
<1> QED BY <1>r, <1>2, <1>7, <1>11, <1>12 DEF Accounted

\* The layers of X below each of its layers number them from 0 on.
Rank(X, l) == Cardinality({m \in X : m < l})

LEMMA RankFacts ==
  ASSUME NEW X, X \subseteq Layers
  PROVE  /\ IsFiniteSet(X) /\ Cardinality(X) \in Nat
         /\ \A l \in X : Rank(X, l) \in 0 .. Cardinality(X) - 1
         /\ \A l, m \in X : Rank(X, l) = Rank(X, m) => l = m
         /\ \A k \in 0 .. Cardinality(X) - 1 : \E l \in X : Rank(X, l) = k
<1> DEFINE Below(l) == {m \in X : m < l}
           N == Cardinality(X)
<1>1. IsFiniteSet(X) /\ N \in Nat
  BY SeqIdsFinite, FS_Subset, FS_CardinalityType
<1>2. ASSUME NEW l \in X, NEW Y, Below(l) \subseteq Y, l \in Y, Y \subseteq X
      PROVE  /\ Rank(X, l) \in Nat /\ Rank(X, l) < Cardinality(Y)
  <2>1. PICK B : B = Below(l)
    OBVIOUS
  <2>2. B \in SUBSET X /\ l \notin B /\ B \cup {l} \in SUBSET Y /\ Y \in SUBSET X /\ X \subseteq Int
    BY <1>2, <2>1 DEF Layers
  <2>3. IsFiniteSet(B) /\ IsFiniteSet(Y) /\ Cardinality(B) \in Nat /\ Cardinality(Y) \in Nat
    BY <1>1, <2>2, FS_Subset, FS_CardinalityType
  <2>4. Cardinality(B \cup {l}) = Cardinality(B) + 1
    BY <2>2, <2>3, FS_AddElement
  <2>5. Cardinality(B \cup {l}) <= Cardinality(Y)
    BY <2>2, <2>3, FS_Subset
  <2>6. Rank(X, l) = Cardinality(B)
    BY <2>1 DEF Rank
  <2> QED BY <2>3, <2>4, <2>5, <2>6
<1>3. \A l \in X : Rank(X, l) \in 0 .. N - 1
  BY <1>1, <1>2
<1>4. \A l, m \in X : l < m => Rank(X, l) < Rank(X, m)
  <2> SUFFICES ASSUME NEW l \in X, NEW m \in X, l < m PROVE Rank(X, l) < Rank(X, m)
    OBVIOUS
  <2>1. l \in Int /\ m \in Int /\ X \subseteq Int
    BY DEF Layers
  <2>2. Below(l) \subseteq Below(m) /\ l \in Below(m) /\ Below(m) \subseteq X
    <3>1. ASSUME NEW x \in Below(l) PROVE x \in Below(m)
      <4>1. x \in X /\ x < l /\ x \in Int
        BY <2>1
      <4>2. x < m
        BY <2>1, <4>1
      <4> QED BY <4>1, <4>2
    <3> QED BY <3>1
  <2>3. Rank(X, m) = Cardinality(Below(m))
    BY DEF Rank
  <2> HIDE DEF Below
  <2> QED BY <1>2, <2>2, <2>3
<1>5. \A l, m \in X : Rank(X, l) = Rank(X, m) => l = m
  <2> SUFFICES ASSUME NEW l \in X, NEW m \in X, Rank(X, l) = Rank(X, m) PROVE l = m
    OBVIOUS
  <2>1. l \in Int /\ m \in Int
    BY DEF Layers
  <2>2. Rank(X, l) \in Int
    BY <1>3
  <2> QED BY <1>4, <2>1, <2>2
<1>6. ASSUME NEW k \in 0 .. N - 1 PROVE \E l \in X : Rank(X, l) = k
  <2> SUFFICES ASSUME \A l \in X : Rank(X, l) # k PROVE FALSE
    OBVIOUS
  <2> DEFINE T == (0 .. N - 1) \ {k}
             g == [l \in X |-> Rank(X, l)]
  <2>1. IsFiniteSet(0 .. N - 1) /\ Cardinality(0 .. N - 1) = N
    BY <1>1, FS_Interval
  <2>2. IsFiniteSet(T) /\ Cardinality(T) = N - 1
    BY <2>1, FS_RemoveElement
  <2>3. g \in [X -> T]
    BY <1>3
  <2>4. N - 1 < N
    BY <1>1
  <2> HIDE DEF T, g
  <2>5. \E x, y \in X : x # y /\ g[x] = g[y]
    BY <1>1, <2>2, <2>3, <2>4, FS_PigeonHole
  <2> QED BY <1>5, <2>5 DEF g
<1> QED BY <1>1, <1>3, <1>5, <1>6

\* A fork names the pages of its parent.
LEMMA ForkAccounted ==
  ASSUME NEW f, NEW rc, NEW tb, NEW rs, Accounted(f, rc, tb, rs),
         NEW s \in SeqIds, NEW child \in SeqIds, s # child, \A p : ~Names(tb, child, p),
         NEW new \in TableSet, new[child] = tb[s], \A u \in SeqIds : u # child => new[u] = tb[u],
         NEW nrc \in [Pages -> Nat],
         \A p \in Pages : nrc[p] = IF Names(tb, s, p) THEN rc[p] + 1 ELSE rc[p]
  PROVE  Accounted(f, nrc, new, rs)
<1>1. \A p : Names(new, child, p) <=> Names(tb, s, p)
  BY DEF Names
<1>2. \A u \in SeqIds : \A p : u # child => (Names(new, u, p) <=> Names(tb, u, p))
  BY NamesSame
<1>3. \A u \in SeqIds : NamedOnce(new, u)
  <2>1. NamedOnce(tb, s) => NamedOnce(new, child)
    BY DEF NamedOnce
  <2> QED BY <2>1, NamesSame DEF Accounted
<1>4. ASSUME NEW p \in Pages PROVE Located(f, nrc, new, rs, p)
  <2>1. Located(f, rc, tb, rs, p) /\ rc[p] \in Nat
    BY AccountedTypes DEF Accounted
  <2>2. CASE Names(tb, s, p)
    <3>1. PICK N : N = Naming(tb, p) /\ IsFiniteSet(N)
      BY NamingFinite
    <3>2. Naming(new, p) = N \cup {child} /\ child \notin N
      BY <1>1, <1>2, <2>2, <3>1 DEF Naming
    <3>3. Cardinality(Naming(new, p)) = Cardinality(N) + 1
      BY <3>1, <3>2, FS_AddElement
    <3>4. rc[p] > 0 /\ rc[p] = Cardinality(N)
      BY <2>1, <2>2, <3>1, CountSays DEF Located
    <3>5. nrc[p] = rc[p] + 1 /\ nrc[p] # 0
      BY <2>1, <2>2
    <3> QED BY <2>1, <3>3, <3>4, <3>5 DEF Located
  <2>3. CASE ~Names(tb, s, p)
    <3>1. Naming(new, p) = Naming(tb, p)
      BY <1>1, <1>2, <2>3 DEF Naming
    <3> QED BY <2>1, <2>3, <3>1 DEF Located
  <2> QED BY <2>2, <2>3
<1> QED BY <1>3, <1>4 DEF Accounted

Joined(f, q, nf) == nf = f \o q
\* The state without sequence s.
Without(rc, nrc, tb, new, rs, nrs, s) ==
    /\ new \in TableSet /\ (\A p : ~Names(new, s, p)) /\ NamedOnce(new, s)
    /\ \A u \in SeqIds : u # s => new[u] = tb[u]
    /\ nrs \in ReserveSet /\ \A l \in Layers : nrs[s][l] = -1
    /\ \A u \in SeqIds : u # s => nrs[u] = rs[u]
    /\ nrc \in [Pages -> Nat]
    /\ \A p \in Pages : nrc[p] = IF Names(tb, s, p) THEN rc[p] - 1 ELSE rc[p]
\* q lists what it gives back.
GivenBack(q, rc, tb, rs, s) ==
    /\ q \in Seq(Pages) /\ \A i, j \in 1 .. Len(q) : q[i] = q[j] => i = j
    /\ \A p \in Pages : OnFree(q, p) <=> \/ Names(tb, s, p) /\ rc[p] = 1
                                         \/ \E l \in Layers : rs[s][l] = p

\* A sequence that goes gives back the pages in q: those that only it names and
\* those reserved for it.
LEMMA FreeAccounted ==
  ASSUME NEW f, NEW rc, NEW tb, NEW rs, Accounted(f, rc, tb, rs), NEW s \in SeqIds,
         NEW q, GivenBack(q, rc, tb, rs, s), NEW nf, Joined(f, q, nf),
         NEW new, NEW nrs, NEW nrc, Without(rc, nrc, tb, new, rs, nrs, s)
  PROVE  Accounted(nf, nrc, new, nrs)
<1>a. /\ new \in TableSet /\ (\A p : ~Names(new, s, p)) /\ NamedOnce(new, s)
      /\ \A u \in SeqIds : u # s => new[u] = tb[u]
  BY DEF Without
<1>b. /\ nrs \in ReserveSet /\ \A l \in Layers : nrs[s][l] = -1
      /\ \A u \in SeqIds : u # s => nrs[u] = rs[u]
  BY DEF Without
<1>c. /\ nrc \in [Pages -> Nat]
      /\ \A p \in Pages : nrc[p] = IF Names(tb, s, p) THEN rc[p] - 1 ELSE rc[p]
  BY DEF Without
<1>d. /\ q \in Seq(Pages) /\ \A i, j \in 1 .. Len(q) : q[i] = q[j] => i = j
      /\ \A p \in Pages : OnFree(q, p) <=> \/ Names(tb, s, p) /\ rc[p] = 1
                                           \/ \E l \in Layers : rs[s][l] = p
  BY DEF GivenBack
<1>1. f \in Seq(Pages) /\ Len(f) \in Nat /\ Len(q) \in Nat
  BY <1>d, AccountedTypes
<1>2. /\ nf \in Seq(Pages) /\ Len(nf) = Len(f) + Len(q)
      /\ \A i \in 1 .. Len(f) : nf[i] = f[i]
      /\ \A i \in 1 .. Len(q) : nf[Len(f) + i] = q[i]
  BY <1>d, <1>1 DEF Joined
<1>3. \A i \in 1 .. Len(nf) : i \in 1 .. Len(f) \/ \E j \in 1 .. Len(q) : i = Len(f) + j
  <2> TAKE i \in 1 .. Len(nf)
  <2>1. i \in 1 .. Len(f) \/ (i - Len(f) \in 1 .. Len(q) /\ i = Len(f) + (i - Len(f)))
    BY <1>1, <1>2
  <2> QED BY <2>1
<1>4. \A p : OnFree(nf, p) <=> OnFree(f, p) \/ OnFree(q, p)
  <2> TAKE p
  <2>1. ASSUME OnFree(nf, p) PROVE OnFree(f, p) \/ OnFree(q, p)
    BY <1>2, <1>3, <2>1 DEF OnFree
  <2>2. ASSUME NEW i \in 1 .. Len(f), f[i] = p PROVE OnFree(nf, p)
    <3>1. i \in 1 .. Len(nf)
      BY <1>1, <1>2
    <3> QED BY <1>2, <2>2, <3>1 DEF OnFree
  <2>3. ASSUME NEW i \in 1 .. Len(q), q[i] = p PROVE OnFree(nf, p)
    <3>1. Len(f) + i \in 1 .. Len(nf)
      BY <1>1, <1>2
    <3> QED BY <1>2, <2>3, <3>1 DEF OnFree
  <2> QED BY <2>1, <2>2, <2>3 DEF OnFree
<1>5. \A p \in Pages : OnFree(f, p) => ~OnFree(q, p)
  <2> SUFFICES ASSUME NEW p \in Pages, OnFree(f, p) PROVE ~OnFree(q, p)
    OBVIOUS
  <2>1. Located(f, rc, tb, rs, p)
    BY DEF Accounted
  <2> QED BY <1>d, <2>1 DEF Located, Kept
<1>6. FreeOnce(nf)
  <2>1. \A i, j \in 1 .. Len(f) : f[i] = f[j] => i = j
    BY DEF Accounted, FreeOnce
  <2>2. \A i \in 1 .. Len(f), j \in 1 .. Len(q) : f[i] # q[j]
    <3>1. \A i \in 1 .. Len(f) : f[i] \in Pages /\ OnFree(f, f[i])
      BY AccountedTypes DEF OnFree
    <3> QED BY <1>5, <3>1 DEF OnFree
  <2> SUFFICES ASSUME NEW i \in 1 .. Len(nf), NEW j \in 1 .. Len(nf), nf[i] = nf[j] PROVE i = j
    BY DEF FreeOnce
  <2>3. CASE i \in 1 .. Len(f) /\ j \in 1 .. Len(f)
    BY <1>2, <2>1, <2>3
  <2>4. CASE \E a \in 1 .. Len(q) : i = Len(f) + a
    <3>1. PICK a \in 1 .. Len(q) : i = Len(f) + a /\ nf[i] = q[a]
      BY <1>2, <2>4
    <3>2. \A b \in 1 .. Len(q) : j = Len(f) + b => i = j
      BY <1>d, <1>2, <3>1
    <3>3. j \in 1 .. Len(f) => FALSE
      BY <1>2, <2>2, <3>1
    <3> QED BY <1>3, <3>2, <3>3
  <2>5. CASE \E a \in 1 .. Len(q) : j = Len(f) + a
    <3>1. PICK a \in 1 .. Len(q) : j = Len(f) + a /\ nf[j] = q[a]
      BY <1>2, <2>5
    <3>2. \A b \in 1 .. Len(q) : i = Len(f) + b => i = j
      BY <1>d, <1>2, <3>1
    <3>3. i \in 1 .. Len(f) => FALSE
      BY <1>2, <2>2, <3>1
    <3> QED BY <1>3, <3>2, <3>3
  <2> QED BY <1>3, <2>3, <2>4, <2>5
<1>7. \A u \in SeqIds : \A p : u # s => (Names(new, u, p) <=> Names(tb, u, p))
  BY <1>a, NamesSame
<1>8. \A u \in SeqIds : NamedOnce(new, u)
  BY <1>a, NamesSame DEF Accounted
<1>9. \A p \in Pages : Kept(rs, p) <=> Kept(nrs, p) \/ \E l \in Layers : rs[s][l] = p
  <2> TAKE p \in Pages
  <2>0. p # -1
    BY AccountedTypes
  <2>1. ASSUME Kept(nrs, p) PROVE Kept(rs, p)
    <3>1. PICK u \in SeqIds, m \in Layers : nrs[u][m] = p
      BY <2>1 DEF Kept
    <3>2. u # s
      BY <1>b, <2>0, <3>1
    <3>3. rs[u][m] = p
      BY <1>b, <3>1, <3>2
    <3> QED BY <3>3 DEF Kept
  <2>2. ASSUME Kept(rs, p) PROVE Kept(nrs, p) \/ \E l \in Layers : rs[s][l] = p
    <3>1. PICK u \in SeqIds, m \in Layers : rs[u][m] = p
      BY <2>2 DEF Kept
    <3>2. CASE u = s
      BY <3>1, <3>2
    <3>3. CASE u # s
      <4>1. nrs[u][m] = p
        BY <1>b, <3>1, <3>3
      <4> QED BY <4>1 DEF Kept
    <3> QED BY <3>2, <3>3
  <2> QED BY <2>1, <2>2 DEF Kept
<1>10. KeptOnce(rs)
  BY DEF Accounted
<1>11. KeptOnce(nrs)
  BY <1>b, <1>10 DEF KeptOnce
<1>12. \A p \in Pages : (\E l \in Layers : rs[s][l] = p) => ~Kept(nrs, p)
  <2> SUFFICES ASSUME NEW l \in Layers, rs[s][l] \in Pages, Kept(nrs, rs[s][l]) PROVE FALSE
    OBVIOUS
  <2>0. rs[s][l] # -1
    BY AccountedTypes
  <2>1. PICK u \in SeqIds, m \in Layers : nrs[u][m] = rs[s][l]
    BY DEF Kept
  <2>2. u # s
    BY <1>b, <2>0, <2>1
  <2>3. rs[u][m] = rs[s][l]
    BY <1>b, <2>1, <2>2
  <2> QED BY <1>10, <2>0, <2>2, <2>3 DEF KeptOnce
<1>13. ASSUME NEW p \in Pages PROVE Located(nf, nrc, new, nrs, p)
  <2>1. Located(f, rc, tb, rs, p) /\ rc[p] \in Nat
    BY AccountedTypes DEF Accounted
  <2>2. OnFree(q, p) <=> \/ Names(tb, s, p) /\ rc[p] = 1
                         \/ \E l \in Layers : rs[s][l] = p
    BY <1>d
  <2>3. CASE Names(tb, s, p)
    <3>0. s \in Naming(tb, p)
      BY <2>3 DEF Naming
    <3>1. PICK N : N = Naming(tb, p) /\ IsFiniteSet(N) /\ s \in N
      BY <3>0, NamingFinite
    <3>2. Naming(new, p) = N \ {s}
      BY <1>a, <1>7, <3>1 DEF Naming
    <3>3. Cardinality(Naming(new, p)) = Cardinality(N) - 1
      BY <3>1, <3>2, FS_RemoveElement
    <3>4. rc[p] > 0 /\ rc[p] = Cardinality(N)
      BY <2>1, <2>3, <3>1, CountSays DEF Located
    <3>5. nrc[p] = rc[p] - 1
      BY <1>c, <2>3
    <3>6. ~OnFree(f, p) /\ ~Kept(rs, p)
      BY <2>1, <3>4 DEF Located
    <3>7. ~Kept(nrs, p) /\ (OnFree(nf, p) <=> rc[p] = 1)
      BY <1>4, <1>9, <2>2, <2>3, <3>6
    <3> QED BY <2>1, <3>3, <3>4, <3>5, <3>7 DEF Located
  <2>4. CASE ~Names(tb, s, p)
    <3>1. Naming(new, p) = Naming(tb, p) /\ nrc[p] = rc[p]
      BY <1>a, <1>c, <1>7, <2>4 DEF Naming
    <3>2. OnFree(nf, p) <=> OnFree(f, p) \/ \E l \in Layers : rs[s][l] = p
      BY <1>4, <2>2, <2>4
    <3> QED BY <1>9, <1>12, <2>1, <3>1, <3>2 DEF Located, Kept
  <2> QED BY <2>3, <2>4
<1> QED BY <1>a, <1>b, <1>c, <1>2, <1>6, <1>8, <1>11, <1>13 DEF Accounted

\* A table row that grows by r, and one whose entry i becomes r.
RowSet(tb, s, l, row) == [tb EXCEPT ![s] = [tb[s] EXCEPT ![l] = row]]

LEMMA RowSetFacts ==
  ASSUME NEW tb \in TableSet, NEW s \in SeqIds, NEW l \in Layers, NEW row \in Seq(Pages),
         NEW new, new = RowSet(tb, s, l, row)
  PROVE  /\ new \in TableSet
         /\ new[s][l] = row
         /\ \A u \in SeqIds : u # s => new[u] = tb[u]
         /\ \A m \in Layers : m # l => new[s][m] = tb[s][m]
<1>1. tb \in [SeqIds -> [Layers -> Seq(Pages)]] /\ tb[s] \in [Layers -> Seq(Pages)]
  BY DEF TableSet
<1>2. PICK fn : fn = [tb[s] EXCEPT ![l] = row]
  OBVIOUS
<1>3. /\ fn \in [Layers -> Seq(Pages)] /\ fn[l] = row
      /\ \A m \in Layers : m # l => fn[m] = tb[s][m]
  BY <1>1, <1>2
<1>4. new = [tb EXCEPT ![s] = fn]
  BY <1>2 DEF RowSet
<1> QED BY <1>1, <1>3, <1>4 DEF TableSet

LEMMA RowAppended ==
  ASSUME NEW tb \in TableSet, NEW s \in SeqIds, NEW l \in Layers, NEW r \in Pages,
         ~Names(tb, s, r), NamedOnce(tb, s),
         NEW row \in Seq(Pages), Len(row) = Len(tb[s][l]) + 1, row[Len(row)] = r,
         \A i \in 1 .. Len(tb[s][l]) : row[i] = tb[s][l][i],
         NEW new, new = RowSet(tb, s, l, row)
  PROVE  /\ new \in TableSet /\ NamedOnce(new, s)
         /\ \A u \in SeqIds : u # s => new[u] = tb[u]
         /\ \A p : Names(new, s, p) <=> p = r \/ Names(tb, s, p)
         /\ new[s][l] = row /\ Len(row) = Len(tb[s][l]) + 1 /\ row[Len(row)] = r
         /\ \A m \in Layers : m # l => new[s][m] = tb[s][m]
<1>1. tb[s] \in [Layers -> Seq(Pages)]
  BY DEF TableSet
<1>2. PICK q \in Seq(Pages) : q = tb[s][l]
  BY <1>1
<1>3. PICK n \in Nat : n = Len(q) + 1
  OBVIOUS
<1>4. /\ row \in Seq(Pages) /\ Len(row) = n /\ row[n] = r
      /\ n \in 1 .. Len(row) /\ \A i \in 1 .. Len(q) : i \in 1 .. Len(row) /\ row[i] = q[i]
  BY <1>2, <1>3
<1>5. \A i \in 1 .. Len(row) : i = n \/ i \in 1 .. Len(q)
  BY <1>3, <1>4
<1>7. /\ new \in TableSet /\ new[s][l] = row
      /\ \A u \in SeqIds : u # s => new[u] = tb[u]
      /\ \A m \in Layers : m # l => new[s][m] = tb[s][m]
  BY RowSetFacts
<1> DEFINE Old(x, y) == x \in Layers /\ y \in 1 .. Len(tb[s][x])
           Added(x, y) == x = l /\ y = n
<1>8. \A x \in Layers : \A y \in 1 .. Len(new[s][x]) : Old(x, y) \/ Added(x, y)
  <2> TAKE x \in Layers
  <2> TAKE y \in 1 .. Len(new[s][x])
  <2>1. CASE x = l
    BY <1>2, <1>5, <1>7, <2>1
  <2>2. CASE x # l
    BY <1>7, <2>2
  <2> QED BY <2>1, <2>2
<1>9. \A x, y : Old(x, y) => x \in Layers /\ y \in 1 .. Len(new[s][x]) /\ new[s][x][y] = tb[s][x][y]
  <2> SUFFICES ASSUME NEW x \in Layers, NEW y \in 1 .. Len(tb[s][x])
               PROVE  y \in 1 .. Len(new[s][x]) /\ new[s][x][y] = tb[s][x][y]
    OBVIOUS
  <2>1. CASE x = l
    BY <1>2, <1>4, <1>7, <2>1
  <2>2. CASE x # l
    BY <1>7, <2>2
  <2> QED BY <2>1, <2>2
<1>10. \A x, y : Old(x, y) => tb[s][x][y] # r
  BY DEF Names
<1>11. \A x, y, z, w : Old(x, y) /\ Old(z, w) /\ tb[s][x][y] = tb[s][z][w] => x = z /\ y = w
  <2> SUFFICES ASSUME NEW x \in Layers, NEW y \in 1 .. Len(tb[s][x]),
                      NEW z \in Layers, NEW w \in 1 .. Len(tb[s][z]), tb[s][x][y] = tb[s][z][w]
               PROVE  x = z /\ y = w
    OBVIOUS
  <2> QED BY DEF NamedOnce
<1>12. \A x, y : Added(x, y) => x = l /\ y = n /\ new[s][x][y] = r
  BY <1>4, <1>7
<1>13. n \in 1 .. Len(new[s][l]) /\ new[s][l][n] = r
  BY <1>4, <1>7
<1>14. \A p : Names(tb, s, p) <=> \E x, y : Old(x, y) /\ tb[s][x][y] = p
  BY DEF Names
<1> HIDE DEF Old, Added
<1>15. NamedOnce(new, s)
  <2> SUFFICES ASSUME NEW m \in Layers, NEW k \in Layers,
                      NEW i \in 1 .. Len(new[s][m]), NEW j \in 1 .. Len(new[s][k]),
                      new[s][m][i] = new[s][k][j]
               PROVE  m = k /\ i = j
    BY DEF NamedOnce
  <2>1. (Old(m, i) \/ Added(m, i)) /\ (Old(k, j) \/ Added(k, j))
    BY <1>8
  <2>2. CASE Old(m, i) /\ Old(k, j)
    <3>1. tb[s][m][i] = tb[s][k][j]
      BY <1>9, <2>2
    <3> QED BY <1>11, <2>2, <3>1
  <2>3. CASE Old(m, i) /\ Added(k, j)
    <3>1. tb[s][m][i] = new[s][k][j] /\ new[s][k][j] = r
      BY <1>9, <1>12, <2>3
    <3> QED BY <1>10, <2>3, <3>1
  <2>4. CASE Added(m, i) /\ Old(k, j)
    <3>1. tb[s][k][j] = new[s][m][i] /\ new[s][m][i] = r
      BY <1>9, <1>12, <2>4
    <3> QED BY <1>10, <2>4, <3>1
  <2>5. CASE Added(m, i) /\ Added(k, j)
    BY <1>12, <2>5
  <2> QED BY <2>1, <2>2, <2>3, <2>4, <2>5
<1>16. \A p : Names(new, s, p) <=> p = r \/ Names(tb, s, p)
  <2> TAKE p
  <2>1. ASSUME NEW m \in Layers, NEW i \in 1 .. Len(new[s][m]), new[s][m][i] = p
        PROVE  p = r \/ Names(tb, s, p)
    <3>1. Old(m, i) \/ Added(m, i)
      BY <1>8
    <3> QED BY <1>9, <1>12, <1>14, <2>1, <3>1
  <2>2. Names(new, s, r)
    BY <1>13 DEF Names
  <2>3. ASSUME NEW x, NEW y, Old(x, y), tb[s][x][y] = p PROVE Names(new, s, p)
    <3>1. x \in Layers /\ y \in 1 .. Len(new[s][x]) /\ new[s][x][y] = p
      BY <1>9, <2>3
    <3> QED BY <3>1 DEF Names
  <2>4. Names(new, s, p) => p = r \/ Names(tb, s, p)
    BY <2>1 DEF Names
  <2> QED BY <1>14, <2>2, <2>3, <2>4
<1>17. Len(row) = Len(tb[s][l]) + 1 /\ row[Len(row)] = r
  BY <1>2, <1>3, <1>4
<1> QED BY <1>7, <1>15, <1>16, <1>17

LEMMA RowReplaced ==
  ASSUME NEW tb \in TableSet, NEW s \in SeqIds, NEW l \in Layers, NEW r \in Pages,
         ~Names(tb, s, r), NamedOnce(tb, s), NEW n \in 1 .. Len(tb[s][l]),
         NEW row \in Seq(Pages), Len(row) = Len(tb[s][l]), row[n] = r,
         \A i \in 1 .. Len(tb[s][l]) : i # n => row[i] = tb[s][l][i],
         NEW new, new = RowSet(tb, s, l, row)
  PROVE  /\ new \in TableSet /\ NamedOnce(new, s)
         /\ \A u \in SeqIds : u # s => new[u] = tb[u]
         /\ \A p : Names(new, s, p) <=> p = r \/ (Names(tb, s, p) /\ p # tb[s][l][n])
         /\ new[s][l] = row /\ Len(row) = Len(tb[s][l]) /\ row[n] = r
         /\ \A m \in Layers : m # l => new[s][m] = tb[s][m]
<1>1. tb[s] \in [Layers -> Seq(Pages)]
  BY DEF TableSet
<1>2. PICK q \in Seq(Pages) : q = tb[s][l]
  BY <1>1
<1>3. n \in 1 .. Len(q)
  BY <1>2
<1>4. /\ row \in Seq(Pages) /\ Len(row) = Len(q) /\ row[n] = r /\ n \in 1 .. Len(row)
      /\ \A i \in 1 .. Len(q) : i # n => row[i] = q[i]
  BY <1>2, <1>3
<1>7. /\ new \in TableSet /\ new[s][l] = row
      /\ \A u \in SeqIds : u # s => new[u] = tb[u]
      /\ \A m \in Layers : m # l => new[s][m] = tb[s][m]
  BY RowSetFacts
<1> DEFINE Old(x, y) == x \in Layers /\ y \in 1 .. Len(tb[s][x]) /\ ~(x = l /\ y = n)
           Added(x, y) == x = l /\ y = n
<1>8. \A x \in Layers : \A y \in 1 .. Len(new[s][x]) : Old(x, y) \/ Added(x, y)
  <2> TAKE x \in Layers
  <2> TAKE y \in 1 .. Len(new[s][x])
  <2>1. CASE x = l
    BY <1>2, <1>4, <1>7, <2>1
  <2>2. CASE x # l
    BY <1>7, <2>2
  <2> QED BY <2>1, <2>2
<1>9. \A x, y : Old(x, y) => x \in Layers /\ y \in 1 .. Len(new[s][x]) /\ new[s][x][y] = tb[s][x][y]
  <2> SUFFICES ASSUME NEW x \in Layers, NEW y \in 1 .. Len(tb[s][x]), ~(x = l /\ y = n)
               PROVE  y \in 1 .. Len(new[s][x]) /\ new[s][x][y] = tb[s][x][y]
    OBVIOUS
  <2>1. CASE x = l
    BY <1>2, <1>4, <1>7, <2>1
  <2>2. CASE x # l
    BY <1>7, <2>2
  <2> QED BY <2>1, <2>2
<1>10. \A x, y : Old(x, y) => tb[s][x][y] # r /\ tb[s][x][y] # tb[s][l][n]
  <2> SUFFICES ASSUME NEW x \in Layers, NEW y \in 1 .. Len(tb[s][x]), ~(x = l /\ y = n)
               PROVE  tb[s][x][y] # r /\ tb[s][x][y] # tb[s][l][n]
    OBVIOUS
  <2>1. tb[s][x][y] # r
    BY DEF Names
  <2> QED BY <2>1 DEF NamedOnce
<1>11. \A x, y, z, w : Old(x, y) /\ Old(z, w) /\ tb[s][x][y] = tb[s][z][w] => x = z /\ y = w
  <2> SUFFICES ASSUME NEW x \in Layers, NEW y \in 1 .. Len(tb[s][x]),
                      NEW z \in Layers, NEW w \in 1 .. Len(tb[s][z]), tb[s][x][y] = tb[s][z][w]
               PROVE  x = z /\ y = w
    OBVIOUS
  <2> QED BY DEF NamedOnce
<1>12. \A x, y : Added(x, y) => x = l /\ y = n /\ new[s][x][y] = r
  BY <1>4, <1>7
<1>13. n \in 1 .. Len(new[s][l]) /\ new[s][l][n] = r
  BY <1>4, <1>7
<1>14. \A p : Names(tb, s, p) <=> p = tb[s][l][n] \/ \E x, y : Old(x, y) /\ tb[s][x][y] = p
  <2> TAKE p
  <2>1. ASSUME NEW x \in Layers, NEW y \in 1 .. Len(tb[s][x]), tb[s][x][y] = p
        PROVE  p = tb[s][l][n] \/ Old(x, y)
    BY <2>1
  <2>2. Names(tb, s, tb[s][l][n])
    BY DEF Names
  <2> QED BY <2>1, <2>2 DEF Names
<1>18. tb[s][l][n] # r
  BY DEF Names
<1> HIDE DEF Old, Added
<1>15. NamedOnce(new, s)
  <2> SUFFICES ASSUME NEW m \in Layers, NEW k \in Layers,
                      NEW i \in 1 .. Len(new[s][m]), NEW j \in 1 .. Len(new[s][k]),
                      new[s][m][i] = new[s][k][j]
               PROVE  m = k /\ i = j
    BY DEF NamedOnce
  <2>1. (Old(m, i) \/ Added(m, i)) /\ (Old(k, j) \/ Added(k, j))
    BY <1>8
  <2>2. CASE Old(m, i) /\ Old(k, j)
    <3>1. tb[s][m][i] = tb[s][k][j]
      BY <1>9, <2>2
    <3> QED BY <1>11, <2>2, <3>1
  <2>3. CASE Old(m, i) /\ Added(k, j)
    <3>1. tb[s][m][i] = new[s][k][j] /\ new[s][k][j] = r
      BY <1>9, <1>12, <2>3
    <3> QED BY <1>10, <2>3, <3>1
  <2>4. CASE Added(m, i) /\ Old(k, j)
    <3>1. tb[s][k][j] = new[s][m][i] /\ new[s][m][i] = r
      BY <1>9, <1>12, <2>4
    <3> QED BY <1>10, <2>4, <3>1
  <2>5. CASE Added(m, i) /\ Added(k, j)
    BY <1>12, <2>5
  <2> QED BY <2>1, <2>2, <2>3, <2>4, <2>5
<1>16. \A p : Names(new, s, p) <=> p = r \/ (Names(tb, s, p) /\ p # tb[s][l][n])
  <2> TAKE p
  <2>1. ASSUME NEW m \in Layers, NEW i \in 1 .. Len(new[s][m]), new[s][m][i] = p
        PROVE  p = r \/ (Names(tb, s, p) /\ p # tb[s][l][n])
    <3>1. Old(m, i) \/ Added(m, i)
      BY <1>8
    <3>2. CASE Old(m, i)
      <4>1. tb[s][m][i] = p
        BY <1>9, <2>1, <3>2
      <4> QED BY <1>10, <1>14, <3>2, <4>1
    <3>3. CASE Added(m, i)
      BY <1>12, <2>1, <3>3
    <3> QED BY <3>1, <3>2, <3>3
  <2>2. Names(new, s, r)
    BY <1>13 DEF Names
  <2>3. ASSUME NEW x, NEW y, Old(x, y), tb[s][x][y] = p PROVE Names(new, s, p)
    <3>1. x \in Layers /\ y \in 1 .. Len(new[s][x]) /\ new[s][x][y] = p
      BY <1>9, <2>3
    <3> QED BY <3>1 DEF Names
  <2>4. Names(new, s, p) => p = r \/ (Names(tb, s, p) /\ p # tb[s][l][n])
    BY <2>1 DEF Names
  <2> QED BY <1>14, <2>2, <2>3, <2>4
<1>17. Len(row) = Len(tb[s][l])
  BY <1>2, <1>4
<1> QED BY <1>4, <1>7, <1>15, <1>16, <1>17

-----------------------------------------------------------------------------
(***************************************************************************)
(* The invariant.  What a failing copy of the first layer does is outside  *)
(* of it: the pages of the later layers stay reserved, and are lost when   *)
(* the call is tried again (run kv_append_failure).                        *)
(***************************************************************************)
PageTables == [s \in SeqIds |-> seqs[s].pages]
Reserved == [s \in SeqIds |-> seqs[s].reserved]

\* The pages that n complete tokens take.
PagesFor(n) == IF n = 0 THEN 0 ELSE (n - 1) \div PageTokens + 1

\* How long the page tables are, part-way through a token.
TablesFit(s) ==
    \A l \in Layers :
        LET n == Len(seqs[s].pages[l]) IN
        /\ l < seqs[s].next_layer => n = PageIndex(s)
        /\ l > seqs[s].next_layer \/ seqs[s].next_layer = 0 => n = PagesFor(seqs[s].length)
        /\ n \in {PagesFor(seqs[s].length), PageIndex(s)}

\* What is reserved: for the layers to come, every page they will need.
Reserves(s) ==
    /\ \A l \in Layers :
         seqs[s].next_layer = 0 \/ l < seqs[s].next_layer => seqs[s].reserved[l] = -1
    /\ seqs[s].next_layer > 0 =>
         /\ seqs[s].length < MaxLength
         /\ \A l \in Layers :
              l >= seqs[s].next_layer /\ l \in Lacking(s) => seqs[s].reserved[l] >= 0

SeqSound(s) ==
    /\ ~seqs[s].live => seqs[s] = EmptySeq
    /\ TablesFit(s)
    /\ Reserves(s)

KvInv ==
    /\ TypeOK
    /\ \A s \in SeqIds : SeqSound(s)
    /\ Accounted(free, refcount, PageTables, Reserved)

LEMMA ConstantsAre ==
  /\ PageTokens \in Nat \ {0} /\ MaxLength \in Nat \ {0} /\ NLayers \in Nat \ {0}
  /\ TotalPages \in Nat \ {0} /\ MaxSeqs \in Nat \ {0}
  /\ 0 \in Layers /\ Layers \subseteq Nat /\ NLayers - 1 \in Layers
  /\ \A l \in Layers : l < NLayers
BY KvCacheAssumption DEF Layers

LEMMA PagesForFacts ==
  ASSUME NEW n \in 0 .. MaxLength
  PROVE  /\ n \div PageTokens \in Nat /\ n % PageTokens \in 0 .. PageTokens - 1
         /\ PagesFor(n) \in {n \div PageTokens, n \div PageTokens + 1}
         /\ PagesFor(n) \in 0 .. MaxLength
         /\ n < MaxLength => n \div PageTokens + 1 \in 1 .. MaxLength
         /\ PagesFor(n + 1) = n \div PageTokens + 1
<1>1. n \in Nat /\ PageTokens \in Nat \ {0} /\ MaxLength \in Nat
  BY ConstantsAre
<1>2. n \div PageTokens \in Nat /\ n % PageTokens \in 0 .. PageTokens - 1
  BY <1>1, Quotient
<1>3. n \div PageTokens <= n /\ (n > 0 => (n - 1) \div PageTokens \in {n \div PageTokens, n \div PageTokens - 1})
  BY <1>1, Quotients
<1>4. CASE n = 0
  <2>1. PagesFor(n) = 0 /\ n \div PageTokens = 0
    BY <1>2, <1>3, <1>4 DEF PagesFor
  <2>2. PagesFor(n + 1) = n \div PageTokens + 1
    BY <1>4 DEF PagesFor
  <2> QED BY <1>1, <1>2, <2>1, <2>2
<1>5. CASE n > 0
  <2>1. PagesFor(n) = (n - 1) \div PageTokens + 1
    BY <1>5 DEF PagesFor
  <2>2. PagesFor(n + 1) = n \div PageTokens + 1
    <3>1. n + 1 # 0 /\ (n + 1) - 1 = n
      BY <1>1
    <3> QED BY <3>1 DEF PagesFor
  <2>3. n - 1 \in Nat
    BY <1>1, <1>5
  <2>4. (n - 1) \div PageTokens \in Nat /\ (n - 1) \div PageTokens <= n - 1
    BY <1>1, <2>3, Quotient, Quotients
  <2> QED BY <1>1, <1>2, <1>3, <2>1, <2>2, <2>4
<1> QED BY <1>1, <1>4, <1>5

LEMMA SeqTypes ==
  ASSUME TypeOK, NEW s \in SeqIds
  PROVE  /\ seqs[s].live \in BOOLEAN /\ seqs[s].length \in 0 .. MaxLength
         /\ seqs[s].next_layer \in Layers /\ seqs[s].next_layer \in Nat
         /\ seqs[s].pages \in [Layers -> Seq(Pages)]
         /\ seqs[s].reserved \in [Layers -> Pages \cup {-1}]
         /\ PageTables[s] = seqs[s].pages /\ Reserved[s] = seqs[s].reserved
         /\ \A l \in Layers : /\ seqs[s].pages[l] \in Seq(Pages)
                              /\ Len(seqs[s].pages[l]) \in Nat
                              /\ \A i \in 1 .. Len(seqs[s].pages[l]) : seqs[s].pages[l][i] \in Pages
                              /\ seqs[s].reserved[l] \in Pages \cup {-1}
<1>1. seqs[s] \in [live : BOOLEAN, length : 0 .. MaxLength, next_layer : Layers,
                   pages : [Layers -> Seq(Pages)], reserved : [Layers -> Pages \cup {-1}]]
  BY DEF TypeOK
<1>2. /\ seqs[s].live \in BOOLEAN /\ seqs[s].length \in 0 .. MaxLength
      /\ seqs[s].next_layer \in Layers
      /\ seqs[s].pages \in [Layers -> Seq(Pages)]
      /\ seqs[s].reserved \in [Layers -> Pages \cup {-1}]
  BY <1>1
<1>3. PageTables[s] = seqs[s].pages /\ Reserved[s] = seqs[s].reserved
  BY DEF PageTables, Reserved
<1>4. \A q \in Seq(Pages) : Len(q) \in Nat /\ \A i \in 1 .. Len(q) : q[i] \in Pages
  OBVIOUS
<1>5. \A l \in Layers : seqs[s].pages[l] \in Seq(Pages) /\ seqs[s].reserved[l] \in Pages \cup {-1}
  BY <1>2
<1> QED BY <1>2, <1>3, <1>4, <1>5, ConstantsAre

\* No page table is longer than MaxLength.
LEMMA TableLengths ==
  ASSUME TypeOK, NEW s \in SeqIds, SeqSound(s), NEW l \in Layers
  PROVE  Len(seqs[s].pages[l]) \in 0 .. MaxLength
<1>1. PICK n \in Nat : n = Len(seqs[s].pages[l])
  BY SeqTypes
<1>2. PICK k, m : k = seqs[s].length /\ m = seqs[s].next_layer
  OBVIOUS
<1>3. /\ k \in 0 .. MaxLength /\ m \in Nat /\ l \in Nat
  BY <1>2, SeqTypes, ConstantsAre
<1>4. /\ l < m => n = k \div PageTokens + 1
      /\ l > m \/ m = 0 => n = PagesFor(k)
      /\ n \in {PagesFor(k), k \div PageTokens + 1}
      /\ m > 0 => k < MaxLength
  BY <1>1, <1>2 DEF SeqSound, TablesFit, Reserves, PageIndex
<1>5. PagesFor(k) \in 0 .. MaxLength /\ (k < MaxLength => k \div PageTokens + 1 \in 1 .. MaxLength)
  BY <1>3, PagesForFacts
<1>6. n \in 0 .. MaxLength
  BY <1>3, <1>4, <1>5
<1> QED BY <1>1, <1>6

\* A sequence names a page at most once, so a fork adds one to its count.
LEMMA EntriesAre ==
  ASSUME TypeOK, NEW s \in SeqIds, SeqSound(s), NamedOnce(PageTables, s), NEW p \in Pages
  PROVE  /\ Entries(s, p) # {} <=> Names(PageTables, s, p)
         /\ Cardinality(Entries(s, p)) = IF Names(PageTables, s, p) THEN 1 ELSE 0
<1>0. PageTables[s] = seqs[s].pages
  BY DEF PageTables
<1>1. ASSUME NEW l \in Layers, NEW i \in 1 .. Len(seqs[s].pages[l])
      PROVE  i \in 1 .. MaxLength
  <2>1. PICK n : n = Len(seqs[s].pages[l]) /\ n \in 0 .. MaxLength
    BY TableLengths
  <2> QED BY <2>1, ConstantsAre
<1>2. ASSUME NEW l \in Layers, NEW i \in 1 .. Len(seqs[s].pages[l]), seqs[s].pages[l][i] = p
      PROVE  <<l, i>> \in Entries(s, p)
  <2>1. i \in 1 .. MaxLength /\ i <= Len(seqs[s].pages[l])
    BY <1>1, SeqTypes
  <2> QED BY <1>2, <2>1 DEF Entries
<1>3. ASSUME NEW e \in Entries(s, p)
      PROVE  /\ e[1] \in Layers /\ e[2] \in 1 .. Len(seqs[s].pages[e[1]])
             /\ seqs[s].pages[e[1]][e[2]] = p /\ e = <<e[1], e[2]>>
  <2>1. e \in Layers \X (1 .. MaxLength) /\ e[2] <= Len(seqs[s].pages[e[1]])
        /\ seqs[s].pages[e[1]][e[2]] = p
    BY DEF Entries
  <2>2. e[1] \in Layers /\ e[2] \in 1 .. MaxLength /\ e = <<e[1], e[2]>>
    BY <2>1
  <2>3. Len(seqs[s].pages[e[1]]) \in Nat
    BY <2>2, SeqTypes
  <2> QED BY <2>1, <2>2, <2>3, ConstantsAre
<1>4. Entries(s, p) # {} <=> Names(PageTables, s, p)
  <2>1. ASSUME Names(PageTables, s, p) PROVE Entries(s, p) # {}
    <3>1. PICK l \in Layers : \E i \in 1 .. Len(seqs[s].pages[l]) : seqs[s].pages[l][i] = p
      BY <1>0, <2>1 DEF Names
    <3>2. PICK i \in 1 .. Len(seqs[s].pages[l]) : seqs[s].pages[l][i] = p
      BY <3>1
    <3>3. <<l, i>> \in Entries(s, p)
      BY <1>2, <3>2
    <3> QED BY <3>3
  <2>2. ASSUME NEW e \in Entries(s, p) PROVE Names(PageTables, s, p)
    <3>1. PICK l, i : l = e[1] /\ i = e[2]
      OBVIOUS
    <3>2. l \in Layers /\ i \in 1 .. Len(seqs[s].pages[l]) /\ seqs[s].pages[l][i] = p
      BY <1>3, <3>1
    <3> QED BY <1>0, <3>2 DEF Names
  <2> QED BY <2>1, <2>2
<1>5. ASSUME NEW e \in Entries(s, p), NEW d \in Entries(s, p) PROVE e = d
  BY <1>0, <1>3 DEF NamedOnce
<1>6. CASE Entries(s, p) = {}
  BY <1>4, <1>6, FS_EmptySet
<1>7. CASE Entries(s, p) # {}
  <2>1. PICK e : Entries(s, p) = {e}
    BY <1>5, <1>7
  <2> QED BY <1>4, <1>7, <2>1, FS_Singleton
<1> QED BY <1>4, <1>6, <1>7

\* What append reserves, or has reserved, covers every layer to come.
ReservesAs(s, rs, rf, nrs) ==
    rs = Reserve(s).reserved /\ rf = Reserve(s).free /\ nrs = [Reserved EXCEPT ![s] = rs]

LEMMA ReserveOk ==
  ASSUME KvInv, NEW s \in SeqIds, Appendable(s),
         NEW rs, NEW rf, NEW nrs, ReservesAs(s, rs, rf, nrs)
  PROVE  /\ rs \in [Layers -> Pages \cup {-1}] /\ nrs \in ReserveSet
         /\ Accounted(rf, refcount, PageTables, nrs)
         /\ nrs[s] = rs /\ \A u \in SeqIds : u # s => nrs[u] = Reserved[u]
         /\ \A l \in Lacking(s) : l >= seqs[s].next_layer => rs[l] \in Pages
         /\ \A l \in Layers : l < seqs[s].next_layer => rs[l] = -1
<1>1. TypeOK /\ SeqSound(s) /\ Accounted(free, refcount, PageTables, Reserved)
  BY DEF KvInv
<1>2. Reserved \in ReserveSet /\ Reserved[s] = seqs[s].reserved
  BY <1>1, SeqTypes DEF Accounted
<1>3. -1 \notin Pages /\ \A p \in Pages : p >= 0
  BY DEF Pages
<1>r. rs = Reserve(s).reserved /\ rf = Reserve(s).free /\ nrs = [Reserved EXCEPT ![s] = rs]
  BY DEF ReservesAs
<1>4. CASE seqs[s].next_layer # 0
  <2>1. rs = seqs[s].reserved /\ rf = free
    BY <1>r, <1>4 DEF Reserve
  <2>2. nrs = Reserved
    BY <1>r, <1>2, <2>1 DEF ReserveSet
  <2>3. rs \in [Layers -> Pages \cup {-1}]
    BY <1>1, <2>1, SeqTypes
  <2>4. seqs[s].next_layer > 0
    BY <1>1, <1>4, SeqTypes
  <2>5. \A l \in Lacking(s) : l >= seqs[s].next_layer => rs[l] \in Pages
    <3>1. ASSUME NEW l \in Lacking(s), l >= seqs[s].next_layer PROVE rs[l] \in Pages
      <4>1. l \in Layers
        BY DEF Lacking
      <4>2. rs[l] >= 0 /\ rs[l] \in Pages \cup {-1}
        BY <1>1, <2>1, <2>3, <2>4, <3>1, <4>1 DEF SeqSound, Reserves
      <4> QED BY <4>2
    <3> QED BY <3>1
  <2>6. \A l \in Layers : l < seqs[s].next_layer => rs[l] = -1
    BY <1>1, <2>1 DEF SeqSound, Reserves
  <2> QED BY <1>1, <1>2, <2>1, <2>2, <2>3, <2>5, <2>6
<1>5. CASE seqs[s].next_layer = 0
  <2>a. PICK X : X = Lacking(s)
    OBVIOUS
  <2>b. PICK L, N : L = Len(free) /\ N = Cardinality(X)
    OBVIOUS
  <2>1. X \subseteq Layers
    BY <2>a DEF Lacking
  <2>2. L \in Nat /\ \A i \in 1 .. L : free[i] \in Pages
    BY <1>1, <2>b, AccountedTypes
  <2>3. /\ N \in Nat /\ \A l \in X : Rank(X, l) \in 0 .. N - 1
        /\ \A l, m \in X : Rank(X, l) = Rank(X, m) => l = m
        /\ \A k \in 0 .. N - 1 : \E l \in X : Rank(X, l) = k
    BY <2>1, <2>b, RankFacts
  <2>4. N <= L
    BY <1>5, <2>a, <2>b DEF Appendable
  <2>c. PICK n : n = L - N
    OBVIOUS
  <2>5. n \in 0 .. L
    BY <2>c, <2>2, <2>3, <2>4
  <2>d. PICK place : place = [l \in X |-> L - Rank(X, l)]
    OBVIOUS
  <2>6. place \in [X -> n + 1 .. L]
    BY <2>c, <2>d, <2>2, <2>3, <2>4
  <2>7. \A l, m \in X : place[l] = place[m] => l = m
    <3> SUFFICES ASSUME NEW l \in X, NEW m \in X, place[l] = place[m] PROVE l = m
      OBVIOUS
    <3>1. Rank(X, l) = Rank(X, m)
      BY <2>d, <2>2, <2>3
    <3> QED BY <2>3, <3>1
  <2>8. \A i \in n + 1 .. L : \E l \in X : place[l] = i
    <3> TAKE i \in n + 1 .. L
    <3>1. L - i \in 0 .. N - 1
      BY <2>c, <2>2, <2>3, <2>4
    <3>2. PICK l \in X : Rank(X, l) = L - i
      BY <2>3, <3>1
    <3>3. L - (L - i) = i /\ place[l] = L - Rank(X, l)
      BY <2>c, <2>d, <2>2, <2>3
    <3> QED BY <3>2, <3>3
  <2>9. rf = SubSeq(free, 1, n)
    BY <1>r, <1>5, <2>a, <2>b, <2>c DEF Reserve
  <2>10. rs = [l \in Layers |-> IF l \in X THEN free[L - Rank(X, l)] ELSE seqs[s].reserved[l]]
    BY <1>r, <1>5, <2>a, <2>b DEF Reserve, Rank
  <2>11. \A l \in Layers : seqs[s].reserved[l] = -1
    BY <1>1, <1>5 DEF SeqSound, Reserves
  <2>12. \A l \in Layers : rs[l] = IF l \in X THEN free[place[l]] ELSE -1
    BY <2>10, <2>11, <2>d
  <2>13. \A l \in X : place[l] \in 1 .. L /\ rs[l] \in Pages
    <3> TAKE l \in X
    <3>1. place[l] \in 1 .. L
      BY <2>2, <2>5, <2>6
    <3> QED BY <2>1, <2>2, <2>12, <3>1
  <2>14. rs \in [Layers -> Pages \cup {-1}]
    <3>1. \A l \in Layers : rs[l] \in Pages \cup {-1}
      BY <2>12, <2>13
    <3>2. rs = [l \in Layers |-> rs[l]]
      BY <2>10
    <3> QED BY <3>1, <3>2
  <2>15. /\ nrs \in ReserveSet /\ nrs[s] = rs
         /\ \A u \in SeqIds : u # s => nrs[u] = Reserved[u]
    BY <1>r, <1>2, <2>14 DEF ReserveSet
  <2>16. \A m \in Layers : nrs[s][m] = IF m \in X THEN free[place[m]] ELSE -1
    BY <2>12, <2>15
  <2>17. \A m \in Layers : Reserved[s][m] = -1
    BY <1>2, <2>11
  <2>18. Takes(free, rf, X, n, place, s, Reserved, nrs)
    BY <2>b, <2>1, <2>5, <2>6, <2>7, <2>8, <2>9, <2>15, <2>16, <2>17 DEF Takes
  <2>19. Accounted(rf, refcount, PageTables, nrs)
    BY <1>1, <2>18, ReservedAccounted
  <2> QED BY <1>5, <2>a, <2>13, <2>14, <2>15, <2>19, ConstantsAre
<1> QED BY <1>4, <1>5

\* Placing the page of the token keeps every page in one place, and leaves the
\* token a page that only its sequence holds.
PlacesAs(s, l, P, new, nrs) ==
    /\ l = seqs[s].next_layer /\ P = Place(s) /\ new = RowSet(PageTables, s, l, P.pages)
    /\ nrs = [Reserved EXCEPT ![s] = [Reserve(s).reserved EXCEPT ![l] = -1]]

LEMMA PlaceOk ==
  ASSUME KvInv, NEW s \in SeqIds, Appendable(s),
         NEW l, NEW P, NEW new, NEW nrs, PlacesAs(s, l, P, new, nrs)
  PROVE  /\ Accounted(P.free, P.refcount, new, nrs)
         /\ P.pages \in Seq(Pages) /\ Len(P.pages) = PageIndex(s) /\ PageIndex(s) \in 1 .. Len(P.pages)
         /\ P.refcount[P.pages[PageIndex(s)]] = 1
         /\ \A p \in Pages : P.refcount[p] > 1 => refcount[p] > 1
         /\ \A i \in 1 .. Len(seqs[s].pages[l]) :
              i # PageIndex(s) => i \in 1 .. Len(P.pages) /\ P.pages[i] = seqs[s].pages[l][i]
<1>1. TypeOK /\ SeqSound(s) /\ Accounted(free, refcount, PageTables, Reserved)
  BY DEF KvInv
<1>a. l = seqs[s].next_layer
  BY DEF PlacesAs
<1>b. P = Place(s) /\ new = RowSet(PageTables, s, l, P.pages)
  BY DEF PlacesAs
<1>c. nrs = [Reserved EXCEPT ![s] = [Reserve(s).reserved EXCEPT ![l] = -1]]
  BY DEF PlacesAs
<1>2. PICK rs, rf, mid : ReservesAs(s, rs, rf, mid)
  BY DEF ReservesAs
<1>d. rs = Reserve(s).reserved /\ rf = Reserve(s).free
  BY <1>2 DEF ReservesAs
<1>3. /\ rs \in [Layers -> Pages \cup {-1}] /\ mid \in ReserveSet
      /\ Accounted(rf, refcount, PageTables, mid)
      /\ mid[s] = rs /\ \A u \in SeqIds : u # s => mid[u] = Reserved[u]
      /\ \A m \in Lacking(s) : m >= l => rs[m] \in Pages
  BY <1>2, <1>a, ReserveOk
<1>4. /\ l \in Layers /\ l \in Nat /\ PageTables \in TableSet /\ refcount \in [Pages -> Nat]
      /\ NamedOnce(PageTables, s)
  BY <1>1, <1>a, SeqTypes DEF Accounted
<1>5. PICK q \in Seq(Pages) : q = seqs[s].pages[l] /\ q = PageTables[s][l]
  BY <1>1, <1>4, SeqTypes
<1>6. PICK i : i = PageIndex(s)
  OBVIOUS
<1>7. i \in Nat \ {0} /\ Len(q) \in {i - 1, i}
  <2>1. PICK k : k = seqs[s].length /\ k \in 0 .. MaxLength
    BY <1>1, SeqTypes
  <2>2. i = k \div PageTokens + 1 /\ Len(q) \in {PagesFor(k), k \div PageTokens + 1}
    BY <1>1, <1>a, <1>4, <1>5, <1>6, <2>1 DEF PageIndex, SeqSound, TablesFit
  <2>3. k \div PageTokens \in Nat /\ PagesFor(k) \in {k \div PageTokens, k \div PageTokens + 1}
    BY <2>1, PagesForFacts
  <2> QED BY <2>2, <2>3
<1>8. PICK r : r = rs[l]
  OBVIOUS
<1>9. r \in Pages \cup {-1} /\ -1 \notin Pages /\ \A p \in Pages : p >= 0
  BY <1>3, <1>4, <1>8 DEF Pages
<1>10. Releases(mid, nrs, s, l)
  <2>1. nrs = [Reserved EXCEPT ![s] = [rs EXCEPT ![l] = -1]]
    BY <1>c, <1>d
  <2>2. PICK row : row = [rs EXCEPT ![l] = -1]
    OBVIOUS
  <2>3. /\ row \in [Layers -> Pages \cup {-1}] /\ row[l] = -1
        /\ \A m \in Layers : m # l => row[m] = rs[m]
    BY <1>3, <1>4, <2>2
  <2>4. nrs = [Reserved EXCEPT ![s] = row]
    BY <2>1, <2>2
  <2>5. Reserved \in [SeqIds -> [Layers -> Pages \cup {-1}]]
    BY <1>1 DEF Accounted, ReserveSet
  <2>6. nrs \in ReserveSet /\ nrs[s] = row /\ \A u \in SeqIds : u # s => nrs[u] = Reserved[u]
    BY <2>3, <2>4, <2>5 DEF ReserveSet
  <2> QED BY <1>3, <2>3, <2>6 DEF Releases
<1>11. mid[s][l] = r
  BY <1>3, <1>8
<1>12. ASSUME r \in Pages PROVE ~Names(PageTables, s, r) /\ refcount[r] = 0
  <2>1. Kept(mid, r)
    BY <1>4, <1>11 DEF Kept
  <2>2. Located(rf, refcount, PageTables, mid, r)
    BY <1>3, <1>12 DEF Accounted
  <2> QED BY <2>1, <2>2, CountSays DEF Located
<1>13. CASE Fresh(s, l)
  <2>0. ~Shared(s, l)
    BY <1>13 DEF Shared
  <2>1. P = [pages |-> Append(q, r), free |-> rf, refcount |-> [refcount EXCEPT ![r] = 1]]
    BY <1>a, <1>b, <1>d, <1>5, <1>8, <1>13, <2>0 DEF Place
  <2>2. l \in Lacking(s)
    BY <1>4, <1>13 DEF Lacking
  <2>3. r \in Pages
    BY <1>3, <1>4, <1>8, <2>2
  <2>4. Len(q) = i - 1
    BY <1>5, <1>6, <1>7, <1>13 DEF Fresh
  <2>5. PICK row : row = P.pages /\ row = Append(q, r)
    BY <2>1
  <2>6. /\ row \in Seq(Pages) /\ Len(row) = i /\ i \in 1 .. Len(row) /\ row[i] = r
        /\ \A j \in 1 .. Len(q) : row[j] = q[j]
    BY <1>7, <2>3, <2>4, <2>5
  <2>7. /\ row \in Seq(Pages) /\ Len(row) = Len(PageTables[s][l]) + 1 /\ row[Len(row)] = r
        /\ \A j \in 1 .. Len(PageTables[s][l]) : row[j] = PageTables[s][l][j]
    BY <1>5, <1>7, <2>4, <2>6
  <2>8. new = RowSet(PageTables, s, l, row)
    BY <1>b, <2>5
  <2>9. /\ new \in TableSet /\ NamedOnce(new, s) /\ \A u \in SeqIds : u # s => new[u] = PageTables[u]
        /\ \A p : Names(new, s, p) <=> p = r \/ Names(PageTables, s, p)
    BY <1>4, <1>12, <2>3, <2>7, <2>8, RowAppended, SMTT(30)
  <2>10. Renames(PageTables, new, s, r, {})
    BY <2>9 DEF Renames
  <2>11. Recounts(refcount, P.refcount, PageTables, s, r, {})
    BY <1>4, <2>1, <2>3 DEF Recounts
  <2>12. P.free = rf
    BY <2>1
  <2>13. Accounted(P.free, P.refcount, new, nrs)
    BY <1>3, <1>4, <1>9, <1>10, <1>11, <2>3, <2>10, <2>11, <2>12, PlacedAccounted
  <2>14. P.refcount[r] = 1 /\ \A p \in Pages : P.refcount[p] > 1 => refcount[p] > 1
    BY <1>4, <2>1, <2>3
  <2>15. \A j \in 1 .. Len(q) : j \in 1 .. Len(row)
    BY <1>7, <2>4, <2>6
  <2> QED BY <1>5, <1>6, <2>5, <2>6, <2>13, <2>14, <2>15
<1>14. CASE Shared(s, l)
  <2>1. ~Fresh(s, l) /\ refcount[q[i]] > 1
    BY <1>5, <1>6, <1>14 DEF Shared
  <2>2. P = [pages |-> [q EXCEPT ![i] = r], free |-> rf,
             refcount |-> [refcount EXCEPT ![q[i]] = @ - 1, ![r] = 1]]
    BY <1>a, <1>b, <1>d, <1>5, <1>6, <1>8, <1>14, <2>1 DEF Place
  <2>3. l \in Lacking(s)
    BY <1>4, <1>14 DEF Lacking
  <2>4. r \in Pages
    BY <1>3, <1>4, <1>8, <2>3
  <2>5. Len(q) = i /\ i \in 1 .. Len(q)
    BY <1>5, <1>6, <1>7, <2>1 DEF Fresh
  <2>6. PICK row : row = P.pages /\ row = [q EXCEPT ![i] = r]
    BY <2>2
  <2>7. /\ row \in Seq(Pages) /\ Len(row) = i /\ i \in 1 .. Len(row) /\ row[i] = r
        /\ \A j \in 1 .. Len(q) : j # i => row[j] = q[j]
    BY <2>4, <2>5, <2>6
  <2>8. /\ row \in Seq(Pages) /\ Len(row) = Len(PageTables[s][l]) /\ row[i] = r
        /\ i \in 1 .. Len(PageTables[s][l])
        /\ \A j \in 1 .. Len(PageTables[s][l]) : j # i => row[j] = PageTables[s][l][j]
    BY <1>5, <2>5, <2>7
  <2>9. new = RowSet(PageTables, s, l, row)
    BY <1>b, <2>6
  <2>10. PICK old : old = PageTables[s][l][i] /\ old = q[i]
    BY <1>5
  <2>11. /\ new \in TableSet /\ NamedOnce(new, s) /\ \A u \in SeqIds : u # s => new[u] = PageTables[u]
         /\ \A p : Names(new, s, p) <=> p = r \/ (Names(PageTables, s, p) /\ p # PageTables[s][l][i])
    BY <1>4, <1>12, <2>4, <2>8, <2>9, RowReplaced
  <2>12. Renames(PageTables, new, s, r, {old})
    BY <2>10, <2>11 DEF Renames
  <2>13. old \in Pages /\ refcount[old] > 1 /\ old # r /\ Names(PageTables, s, old)
    <3>1. Names(PageTables, s, old)
      BY <1>4, <2>8, <2>10 DEF Names
    <3> QED BY <1>12, <2>1, <2>4, <2>5, <2>10, <3>1
  <2>14. P.refcount = [refcount EXCEPT ![old] = @ - 1, ![r] = 1]
    BY <2>2, <2>10
  <2>15. /\ P.refcount \in [Pages -> Nat]
         /\ \A p \in Pages : P.refcount[p] = IF p = r THEN 1
                                             ELSE IF p = old THEN refcount[p] - 1 ELSE refcount[p]
    BY <1>4, <2>4, <2>13, <2>14
  <2>16. Recounts(refcount, P.refcount, PageTables, s, r, {old})
    BY <2>13, <2>15 DEF Recounts
  <2>17. P.free = rf
    BY <2>2
  <2>18. Accounted(P.free, P.refcount, new, nrs)
    BY <1>3, <1>4, <1>9, <1>10, <1>11, <2>4, <2>12, <2>16, <2>17, PlacedAccounted
  <2>19. P.refcount[r] = 1 /\ \A p \in Pages : P.refcount[p] > 1 => refcount[p] > 1
    <3>1. \A p \in Pages : refcount[p] \in Nat
      BY <1>4
    <3> QED BY <2>4, <2>13, <2>15, <3>1
  <2> QED BY <1>5, <1>6, <2>5, <2>6, <2>7, <2>18, <2>19
<1>15. CASE ~Fresh(s, l) /\ ~Shared(s, l)
  <2>1. P = [pages |-> q, refcount |-> refcount, free |-> IF r >= 0 THEN Append(rf, r) ELSE rf]
    BY <1>a, <1>b, <1>d, <1>5, <1>8, <1>15 DEF Place
  <2>2. P.pages = q /\ P.refcount = refcount
    BY <2>1
  <2>3. Len(q) = i /\ i \in 1 .. Len(q)
    BY <1>5, <1>6, <1>7, <1>15 DEF Fresh
  <2>4. new = PageTables
    <3>1. PageTables \in [SeqIds -> [Layers -> Seq(Pages)]]
      BY <1>4 DEF TableSet
    <3>2. [PageTables[s] EXCEPT ![l] = q] = PageTables[s]
      BY <1>4, <1>5, <3>1
    <3>3. new = [PageTables EXCEPT ![s] = [PageTables[s] EXCEPT ![l] = q]]
      BY <1>b, <2>2 DEF RowSet
    <3> QED BY <3>1, <3>2, <3>3
  <2>5. ASSUME r \in Pages PROVE Accounted(P.free, P.refcount, new, nrs)
    <3>2. PICK nf : nf = P.free
      OBVIOUS
    <3>1. Pushed(rf, r, nf)
      BY <1>9, <2>1, <2>5, <3>2 DEF Pushed
    <3>3. Accounted(nf, refcount, PageTables, nrs)
      BY <1>3, <1>4, <1>9, <1>10, <1>11, <2>5, <3>1, ReturnedAccounted
    <3> QED BY <2>2, <2>4, <3>2, <3>3
  <2>6. ASSUME r = -1 PROVE Accounted(P.free, P.refcount, new, nrs)
    <3>1. P.free = rf
      BY <2>1, <2>6
    <3>2. nrs = mid
      <4>1. nrs \in [SeqIds -> [Layers -> Pages \cup {-1}]] /\ mid \in [SeqIds -> [Layers -> Pages \cup {-1}]]
        BY <1>3, <1>10 DEF Releases, ReserveSet
      <4>2. \A u \in SeqIds, m \in Layers : nrs[u][m] = mid[u][m]
        BY <1>10, <1>11, <2>6 DEF Releases
      <4>3. \A u \in SeqIds : nrs[u] = mid[u]
        BY <4>1, <4>2
      <4> QED BY <4>1, <4>3
    <3> QED BY <1>3, <2>2, <2>4, <3>1, <3>2
  <2>7. Accounted(P.free, P.refcount, new, nrs)
    BY <1>9, <2>5, <2>6
  <2>8. q[i] \in Pages /\ Names(PageTables, s, q[i])
    BY <1>4, <1>5, <2>3 DEF Names
  <2>9. refcount[q[i]] = 1
    <3>1. refcount[q[i]] <= 1 /\ refcount[q[i]] \in Nat
      BY <1>4, <1>5, <1>6, <1>15, <2>8 DEF Shared
    <3>2. refcount[q[i]] = Cardinality(Naming(PageTables, q[i]))
      BY <1>1, <2>8 DEF Accounted, Located
    <3>3. refcount[q[i]] > 0
      BY <2>8, <3>2, CountSays
    <3> QED BY <3>1, <3>3
  <2> QED BY <1>5, <1>6, <2>2, <2>3, <2>7, <2>9
<1> QED BY <1>13, <1>14, <1>15

-----------------------------------------------------------------------------
(***************************************************************************)
(* The actions preserve the invariant, one lemma each.                     *)
(***************************************************************************)
SeqType == [live : BOOLEAN, length : 0 .. MaxLength, next_layer : Layers,
            pages : [Layers -> Seq(Pages)], reserved : [Layers -> Pages \cup {-1}]]

LEMMA EmptySeqIs ==
  /\ EmptySeq \in SeqType /\ EmptySeq.live = FALSE /\ EmptySeq.length = 0 /\ EmptySeq.next_layer = 0
  /\ \A l \in Layers : /\ EmptySeq.pages[l] = <<>> /\ Len(EmptySeq.pages[l]) = 0
                       /\ EmptySeq.reserved[l] = -1
<1>1. <<>> \in Seq(Pages) /\ Len(<<>>) = 0
  OBVIOUS
<1> QED BY <1>1, ConstantsAre DEF EmptySeq, SeqType

\* The page that a layer needs is one the sequence names.
LEMMA SharedNames ==
  ASSUME TypeOK, NEW s \in SeqIds, NEW l \in Layers, ~Fresh(s, l)
  PROVE  /\ PageIndex(s) \in 1 .. Len(seqs[s].pages[l])
         /\ seqs[s].pages[l][PageIndex(s)] \in Pages
         /\ Names(PageTables, s, seqs[s].pages[l][PageIndex(s)])
<1>1. seqs[s].length \in 0 .. MaxLength /\ Len(seqs[s].pages[l]) \in Nat
  BY SeqTypes
<1>2. PageIndex(s) \in Nat \ {0}
  <2>1. PICK n \in 0 .. MaxLength : n = seqs[s].length
    BY <1>1
  <2>2. n \div PageTokens \in Nat
    BY PagesForFacts
  <2> QED BY <2>1, <2>2 DEF PageIndex
<1>3. PageIndex(s) \in 1 .. Len(seqs[s].pages[l])
  BY <1>1, <1>2 DEF Fresh
<1> QED BY <1>3, SeqTypes DEF Names

\* Another sequence stays sound unless a page it is about to write to is shared
\* in the middle of a token.
LEMMA OthersSound ==
  ASSUME TypeOK, NEW s \in SeqIds, SeqSound(s), seqs'[s] = seqs[s],
         seqs[s].next_layer > 0 =>
           \A p \in Pages : Names(PageTables, s, p) /\ refcount'[p] > 1 => refcount[p] > 1
  PROVE  SeqSound(s)'
<1>1. TablesFit(s)' /\ (~seqs'[s].live => seqs'[s] = EmptySeq)
  BY DEF SeqSound, TablesFit, PageIndex
<1>2. ASSUME seqs[s].next_layer > 0, NEW l \in Layers, l \in Lacking(s)' PROVE l \in Lacking(s)
  <2>1. Fresh(s, l)' <=> Fresh(s, l)
    BY DEF Fresh, PageIndex
  <2>2. CASE Fresh(s, l)
    BY <2>2 DEF Lacking
  <2>3. CASE ~Fresh(s, l)
    <3>1. PICK p : p = seqs[s].pages[l][PageIndex(s)]
      OBVIOUS
    <3>2. p \in Pages /\ Names(PageTables, s, p)
      BY <2>3, <3>1, SharedNames
    <3>3. Shared(s, l)'
      BY <1>2, <2>1, <2>3 DEF Lacking
    <3>4. refcount'[p] > 1
      BY <3>1, <3>3 DEF Shared, PageIndex
    <3>5. Shared(s, l)
      BY <1>2, <2>3, <3>1, <3>2, <3>4 DEF Shared
    <3> QED BY <3>5 DEF Lacking
  <2> QED BY <2>2, <2>3
<1>3. Reserves(s)'
  BY <1>2 DEF SeqSound, Reserves
<1> QED BY <1>1, <1>3 DEF SeqSound

LEMMA CreateStep ==
  ASSUME KvInv, NEW s \in SeqIds, create_sequence(s) PROVE KvInv'
<1>1. TypeOK /\ SeqSound(s) /\ \A u \in SeqIds : SeqSound(u)
  BY DEF KvInv
<1>2. seqs' = [seqs EXCEPT ![s].live = TRUE] /\ UNCHANGED <<free, refcount, slab>>
  BY DEF create_sequence
<1>3. seqs \in [SeqIds -> SeqType]
  BY <1>1 DEF TypeOK, SeqType
<1>4. /\ seqs'[s] = [seqs[s] EXCEPT !.live = TRUE]
      /\ \A u \in SeqIds : u # s => seqs'[u] = seqs[u]
  BY <1>2, <1>3
<1>5. /\ seqs'[s].live /\ seqs'[s].length = seqs[s].length /\ seqs'[s].pages = seqs[s].pages
      /\ seqs'[s].next_layer = seqs[s].next_layer /\ seqs'[s].reserved = seqs[s].reserved
      /\ seqs'[s] \in SeqType
  BY <1>3, <1>4 DEF SeqType
<1>6. seqs' \in [SeqIds -> SeqType]
  BY <1>2, <1>3, <1>5
<1>7. TypeOK'
  BY <1>1, <1>2, <1>6 DEF TypeOK, SeqType
<1>8. PageTables' = PageTables /\ Reserved' = Reserved
  <2>1. \A u \in SeqIds : seqs'[u].pages = seqs[u].pages /\ seqs'[u].reserved = seqs[u].reserved
    BY <1>4, <1>5
  <2> QED BY <2>1 DEF PageTables, Reserved
<1>9. SeqSound(s)'
  <2>1. \A l \in Layers : l \in Lacking(s)' => l \in Lacking(s)
    BY <1>2, <1>5 DEF Lacking, Fresh, Shared, PageIndex
  <2>2. TablesFit(s)'
    BY <1>1, <1>5 DEF SeqSound, TablesFit, PageIndex
  <2>3. Reserves(s)'
    BY <1>1, <1>5, <2>1 DEF SeqSound, Reserves
  <2> QED BY <1>5, <2>2, <2>3 DEF SeqSound
<1>10. \A u \in SeqIds : SeqSound(u)'
  <2>1. ASSUME NEW u \in SeqIds, u # s PROVE SeqSound(u)'
    BY <1>1, <1>2, <1>4, <2>1, OthersSound
  <2> QED BY <1>9, <2>1
<1> QED BY <1>2, <1>7, <1>8, <1>10 DEF KvInv

LEMMA ForkStep ==
  ASSUME KvInv, NEW s \in SeqIds, NEW child \in SeqIds, fork_sequence(s, child) PROVE KvInv'
<1>1. TypeOK /\ (\A u \in SeqIds : SeqSound(u)) /\ Accounted(free, refcount, PageTables, Reserved)
  BY DEF KvInv
<1>2. /\ seqs[s].live /\ seqs[s].next_layer = 0 /\ ~seqs[child].live /\ s # child
      /\ refcount' = [p \in Pages |-> refcount[p] + Cardinality(Entries(s, p))]
      /\ seqs' = [seqs EXCEPT ![child] = [EmptySeq EXCEPT !.live = TRUE, !.length = seqs[s].length,
                                                          !.pages = seqs[s].pages]]
      /\ UNCHANGED <<free, slab>>
  BY DEF fork_sequence, FirstDead
<1>3. seqs \in [SeqIds -> SeqType]
  BY <1>1 DEF TypeOK, SeqType
<1>4. PICK c : c = [EmptySeq EXCEPT !.live = TRUE, !.length = seqs[s].length, !.pages = seqs[s].pages]
  OBVIOUS
<1>5. /\ c \in SeqType /\ c.live /\ c.length = seqs[s].length /\ c.pages = seqs[s].pages
      /\ c.next_layer = 0 /\ c.reserved = EmptySeq.reserved
  BY <1>3, <1>4, EmptySeqIs DEF SeqType
<1>6. /\ seqs' \in [SeqIds -> SeqType] /\ seqs'[child] = c
      /\ \A u \in SeqIds : u # child => seqs'[u] = seqs[u]
  BY <1>2, <1>3, <1>4, <1>5
<1>7. seqs[child] = EmptySeq
  BY <1>1, <1>2 DEF SeqSound
<1>8. /\ PageTables' \in TableSet /\ PageTables'[child] = PageTables[s]
      /\ \A u \in SeqIds : u # child => PageTables'[u] = PageTables[u]
  <2>1. \A u \in SeqIds : seqs'[u].pages \in [Layers -> Seq(Pages)]
    BY <1>6 DEF SeqType
  <2> QED BY <1>5, <1>6, <2>1 DEF PageTables, TableSet
<1>9. Reserved' = Reserved
  <2>1. \A u \in SeqIds : seqs'[u].reserved = seqs[u].reserved
    BY <1>5, <1>6, <1>7
  <2> QED BY <2>1 DEF Reserved
<1>10. /\ refcount \in [Pages -> Nat] /\ refcount' \in [Pages -> Nat]
       /\ \A p \in Pages : refcount'[p] = IF Names(PageTables, s, p) THEN refcount[p] + 1 ELSE refcount[p]
  <2>1. refcount \in [Pages -> Nat]
    BY <1>1 DEF Accounted
  <2>2. \A p \in Pages : Cardinality(Entries(s, p)) = IF Names(PageTables, s, p) THEN 1 ELSE 0
    BY <1>1, EntriesAre DEF Accounted
  <2>3. \A p \in Pages : refcount'[p] = IF Names(PageTables, s, p) THEN refcount[p] + 1 ELSE refcount[p]
    <3> TAKE p \in Pages
    <3>1. refcount'[p] = refcount[p] + Cardinality(Entries(s, p)) /\ refcount[p] \in Nat
      BY <1>2, <2>1
    <3> QED BY <2>2, <3>1
  <2>4. refcount' = [p \in Pages |-> refcount'[p]]
    BY <1>2
  <2> QED BY <2>1, <2>3, <2>4
<1>11. \A p : ~Names(PageTables, child, p)
  BY <1>1, <1>7, SeqTypes, EmptySeqIs DEF Names
<1>12. Accounted(free, refcount', PageTables', Reserved)
  BY <1>1, <1>2, <1>8, <1>10, <1>11, ForkAccounted
<1>13. TypeOK'
  BY <1>1, <1>2, <1>6, <1>10 DEF TypeOK, SeqType
<1>14. SeqSound(child)'
  <2>1. \A l \in Layers : Len(seqs[s].pages[l]) = PagesFor(seqs[s].length)
    BY <1>1, <1>2 DEF SeqSound, TablesFit
  <2>2. \A l \in Layers : l \in Nat
    BY ConstantsAre
  <2>a. /\ seqs'[child].next_layer = 0
        /\ \A l \in Layers : Len(seqs'[child].pages[l]) = PagesFor(seqs'[child].length)
    BY <1>5, <1>6, <2>1
  <2>3. TablesFit(child)'
    BY <2>2, <2>a DEF TablesFit
  <2>4. Reserves(child)'
    BY <1>5, <1>6, EmptySeqIs DEF Reserves
  <2> QED BY <1>5, <1>6, <2>3, <2>4 DEF SeqSound
<1>15. ASSUME NEW u \in SeqIds, u # child PROVE SeqSound(u)'
  <2>1. ASSUME seqs[u].next_layer > 0, NEW p \in Pages, Names(PageTables, u, p), refcount'[p] > 1
        PROVE  refcount[p] > 1
    <3>1. u # s
      BY <1>2, <2>1
    <3>2. CASE Names(PageTables, s, p)
      <4>1. refcount[p] = Cardinality(Naming(PageTables, p))
        BY <1>1 DEF Accounted, Located
      <4> QED BY <2>1, <3>1, <3>2, <4>1, CountSays
    <3>3. CASE ~Names(PageTables, s, p)
      BY <1>10, <2>1, <3>3
    <3> QED BY <3>2, <3>3
  <2> QED BY <1>1, <1>6, <1>15, <2>1, OthersSound
<1> QED BY <1>2, <1>9, <1>12, <1>13, <1>14, <1>15 DEF KvInv

\* What a sequence gives back: the pages that only it names, and its reserved
\* pages, each once.
LEMMA GivesBackFacts ==
  ASSUME KvInv, NEW s \in SeqIds, NEW c, c = GivesBack(s), NEW N, N = TableSlots + NLayers
  PROVE  /\ N \in Nat /\ c \in [1 .. N -> Pages \cup {-1}] /\ NoneTwice(c, N)
         /\ \A p \in Pages : (\E k \in 1 .. N : c[k] = p)
                               <=> \/ Names(PageTables, s, p) /\ refcount[p] = 1
                                   \/ \E l \in Layers : Reserved[s][l] = p
<1>1. TypeOK /\ SeqSound(s) /\ Accounted(free, refcount, PageTables, Reserved) /\ NamedOnce(PageTables, s)
  BY DEF KvInv, Accounted
<1>2. PageTables[s] = seqs[s].pages /\ Reserved[s] = seqs[s].reserved
  BY <1>1, SeqTypes
<1>3. PICK M, T : M = MaxLength /\ T = TableSlots
  OBVIOUS
<1>4. M \in Nat \ {0} /\ NLayers \in Nat \ {0} /\ T = M * NLayers /\ T \in Nat /\ N = T + NLayers
  <2>1. NLayers * M = M * NLayers /\ M * NLayers \in Nat
    BY <1>3, ConstantsAre
  <2> QED BY <1>3, <2>1, ConstantsAre DEF TableSlots
<1> DEFINE L(k) == (k - 1) \div M
           I(k) == ((k - 1) % M) + 1
           Place0(l, i) == M * l + i
<1>5. ASSUME NEW k \in 1 .. T
      PROVE  L(k) \in Layers /\ I(k) \in 1 .. M /\ k = Place0(L(k), I(k))
  <2>1. PICK n \in Nat : n = k - 1
    BY <1>4
  <2>2. n \div M \in Nat /\ n % M \in 0 .. M - 1 /\ n = M * (n \div M) + (n % M)
    BY <1>4, Quotient
  <2>3. PICK a, b : a = n \div M /\ b = n % M
    OBVIOUS
  <2>4. a \in Nat /\ b \in 0 .. M - 1 /\ n = M * a + b /\ L(k) = a /\ I(k) = b + 1
    BY <2>1, <2>2, <2>3
  <2>5. ASSUME a >= NLayers PROVE FALSE
    <3>1. M * a >= M * NLayers
      BY <1>4, <2>4, <2>5
    <3> QED BY <1>4, <2>1, <2>4, <3>1
  <2>6. a \in Layers
    BY <1>4, <2>4, <2>5 DEF Layers
  <2>7. k = M * a + (b + 1)
    BY <1>4, <2>1, <2>4
  <2> QED BY <1>4, <2>4, <2>6, <2>7
<1>6. ASSUME NEW l \in Layers, NEW i \in 1 .. M
      PROVE  Place0(l, i) \in 1 .. T /\ L(Place0(l, i)) = l /\ I(Place0(l, i)) = i
  <2>1. l \in Nat /\ l <= NLayers - 1 /\ i - 1 \in 0 .. M - 1 /\ M * l \in Nat
    <3>1. l \in Nat /\ l <= NLayers - 1 /\ i - 1 \in 0 .. M - 1
      BY <1>4 DEF Layers
    <3>2. M * l \in Nat
      BY <1>4, <3>1
    <3> QED BY <3>1, <3>2
  <2>2. PICK n, b : b = i - 1 /\ n = M * l + b
    OBVIOUS
  <2>a. b \in 0 .. M - 1
    BY <2>1, <2>2
  <2>b. Divides(n, M, l, b)
    BY <2>2 DEF Divides
  <2>3. n \in Nat /\ n \div M = l /\ n % M = b
    BY <1>4, <2>1, <2>a, <2>b, QuotientUnique
  <2>4. Place0(l, i) - 1 = n
    BY <2>1, <2>2
  <2>5. M * l <= M * (NLayers - 1)
    BY <1>4, <2>1
  <2>6. M * (NLayers - 1) = M * NLayers - M
    BY <1>4
  <2>7. Place0(l, i) \in 1 .. T
    BY <1>4, <2>1, <2>5, <2>6
  <2>8. b + 1 = i
    BY <2>1, <2>2
  <2> QED BY <2>3, <2>4, <2>7, <2>8
<1> HIDE DEF L, I, Place0
<1>7. /\ c = [k \in 1 .. N |-> c[k]]
      /\ \A k \in 1 .. T : c[k] = IF /\ I(k) <= Len(PageTables[s][L(k)])
                                     /\ refcount[PageTables[s][L(k)][I(k)]] = 1
                                    THEN PageTables[s][L(k)][I(k)] ELSE -1
      /\ \A k \in T + 1 .. N : c[k] = Reserved[s][k - T - 1]
  <2>1. c = [k \in 1 .. N |->
               IF k > T THEN Reserved[s][k - T - 1]
               ELSE IF I(k) <= Len(PageTables[s][L(k)]) /\ refcount[PageTables[s][L(k)][I(k)]] = 1
                      THEN PageTables[s][L(k)][I(k)] ELSE -1]
    BY <1>2, <1>3, <1>4 DEF GivesBack, L, I
  <2>2. \A k \in 1 .. T : k \in 1 .. N /\ ~(k > T)
    BY <1>4
  <2>3. \A k \in T + 1 .. N : k \in 1 .. N /\ k > T
    BY <1>4
  <2> QED BY <2>1, <2>2, <2>3
<1>8. \A k \in 1 .. N : k \in 1 .. T \/ (k \in T + 1 .. N /\ k - T - 1 \in Layers)
  BY <1>4 DEF Layers
<1>9. /\ \A l \in Layers : /\ Len(PageTables[s][l]) \in 0 .. M
                           /\ \A i \in 1 .. Len(PageTables[s][l]) : PageTables[s][l][i] \in Pages /\ i \in 1 .. M
      /\ \A l \in Layers : Reserved[s][l] \in Pages \cup {-1}
      /\ -1 \notin Pages /\ \A p \in Pages : p >= 0
  <2>1. ASSUME NEW l \in Layers
        PROVE  /\ Len(PageTables[s][l]) \in 0 .. M
               /\ \A i \in 1 .. Len(PageTables[s][l]) : PageTables[s][l][i] \in Pages /\ i \in 1 .. M
    <3>1. Len(PageTables[s][l]) \in 0 .. M
      BY <1>1, <1>2, <1>3, TableLengths
    <3>2. \A i \in 1 .. Len(PageTables[s][l]) : i \in 1 .. M
      BY <1>4, <3>1
    <3> QED BY <1>1, <3>1, <3>2, AccountedTypes
  <2>2. -1 \notin Pages /\ \A p \in Pages : p >= 0
    BY DEF Pages
  <2> QED BY <1>1, <2>1, <2>2, AccountedTypes
\* A place of c that holds a page holds one of a table, or a reserved one.
<1> DEFINE InTable(k, p) == /\ k \in 1 .. T /\ L(k) \in Layers /\ I(k) \in 1 .. Len(PageTables[s][L(k)])
                            /\ PageTables[s][L(k)][I(k)] = p /\ refcount[p] = 1
           Apart(k, p) == k \in T + 1 .. N /\ k - T - 1 \in Layers /\ Reserved[s][k - T - 1] = p
<1>10. \A k \in 1 .. N : \A p \in Pages : c[k] = p => InTable(k, p) \/ Apart(k, p)
  <2> SUFFICES ASSUME NEW k \in 1 .. N, c[k] \in Pages PROVE InTable(k, c[k]) \/ Apart(k, c[k])
    OBVIOUS
  <2>1. CASE k \in 1 .. T
    <3>1. L(k) \in Layers /\ I(k) \in 1 .. M
      BY <1>5, <2>1
    <3>2. I(k) <= Len(PageTables[s][L(k)]) /\ c[k] = PageTables[s][L(k)][I(k)] /\ refcount[c[k]] = 1
      BY <1>7, <1>9, <2>1
    <3>3. I(k) \in 1 .. Len(PageTables[s][L(k)])
      BY <1>4, <1>9, <3>1, <3>2
    <3> QED BY <2>1, <3>1, <3>2, <3>3
  <2>2. CASE k \in T + 1 .. N /\ k - T - 1 \in Layers
    BY <1>7, <2>2
  <2> QED BY <1>8, <2>1, <2>2
<1>11. c \in [1 .. N -> Pages \cup {-1}]
  <2>1. ASSUME NEW k \in 1 .. N PROVE c[k] \in Pages \cup {-1}
    <3>1. CASE k \in 1 .. T
      <4>1. L(k) \in Layers /\ I(k) \in 1 .. M
        BY <1>5, <3>1
      <4>2. I(k) <= Len(PageTables[s][L(k)]) => I(k) \in 1 .. Len(PageTables[s][L(k)])
        BY <1>4, <1>9, <4>1
      <4> QED BY <1>7, <1>9, <3>1, <4>1, <4>2
    <3>2. CASE k \in T + 1 .. N /\ k - T - 1 \in Layers
      BY <1>7, <1>9, <3>2
    <3> QED BY <1>8, <3>1, <3>2
  <2> QED BY <1>7, <2>1
<1>12. \A k, p : InTable(k, p) => Names(PageTables, s, p) /\ refcount[p] = 1
  BY DEF Names
<1>13. \A k, p : Apart(k, p) => Kept(Reserved, p)
  BY DEF Kept
<1>14. \A p \in Pages : Kept(Reserved, p) => refcount[p] = 0
  BY <1>1 DEF Accounted, Located
<1>15. \A k, j, p : InTable(k, p) /\ InTable(j, p) => k = j
  <2> SUFFICES ASSUME NEW k, NEW j, NEW p, InTable(k, p), InTable(j, p) PROVE k = j
    OBVIOUS
  <2>1. L(k) = L(j) /\ I(k) = I(j)
    BY <1>1 DEF NamedOnce
  <2> QED BY <1>5, <2>1
<1>16. \A k, j : \A p \in Pages : Apart(k, p) /\ Apart(j, p) => k = j
  <2> SUFFICES ASSUME NEW k, NEW j, NEW p \in Pages, Apart(k, p), Apart(j, p) PROVE k = j
    OBVIOUS
  <2>1. PICK x \in Layers, y \in Layers : x = k - T - 1 /\ y = j - T - 1
    OBVIOUS
  <2>2. Reserved[s][x] = Reserved[s][y] /\ Reserved[s][x] # -1
    BY <1>9, <2>1
  <2>3. x = y
    BY <1>1, <2>2 DEF Accounted, KeptOnce
  <2> QED BY <1>4, <2>1, <2>3
<1>17. NoneTwice(c, N)
  <2> SUFFICES ASSUME NEW k \in 1 .. N, NEW j \in 1 .. N, c[k] = c[j], c[k] >= 0 PROVE k = j
    BY DEF NoneTwice
  <2>1. PICK p \in Pages : p = c[k] /\ p = c[j]
    BY <1>11
  <2>2. (InTable(k, p) \/ Apart(k, p)) /\ (InTable(j, p) \/ Apart(j, p))
    BY <1>10, <2>1
  <2> HIDE DEF InTable, Apart
  <2> QED BY <1>12, <1>13, <1>14, <1>15, <1>16, <2>2
<1>18. ASSUME NEW p \in Pages, NEW l \in Layers, NEW i \in 1 .. Len(PageTables[s][l]),
              PageTables[s][l][i] = p, refcount[p] = 1
       PROVE  \E k \in 1 .. N : c[k] = p
  <2>1. i \in 1 .. M /\ i <= Len(PageTables[s][l])
    BY <1>4, <1>9
  <2>2. PICK k : k = Place0(l, i)
    OBVIOUS
  <2>3. k \in 1 .. T /\ L(k) = l /\ I(k) = i /\ k \in 1 .. N
    BY <1>4, <1>6, <2>1, <2>2
  <2>4. c[k] = p
    BY <1>7, <1>18, <2>1, <2>3
  <2> QED BY <2>3, <2>4
<1>19. ASSUME NEW p \in Pages, NEW l \in Layers, Reserved[s][l] = p
       PROVE  \E k \in 1 .. N : c[k] = p
  <2>1. PICK k : k = T + 1 + l
    OBVIOUS
  <2>2. k \in T + 1 .. N /\ k \in 1 .. N /\ k - T - 1 = l
    BY <1>4, <2>1 DEF Layers
  <2> QED BY <1>7, <1>19, <2>2
<1>20. ASSUME NEW p \in Pages
       PROVE (\E k \in 1 .. N : c[k] = p)
                               <=> \/ Names(PageTables, s, p) /\ refcount[p] = 1
                                   \/ \E l \in Layers : Reserved[s][l] = p
  <2>1. ASSUME NEW k \in 1 .. N, c[k] = p
        PROVE \/ Names(PageTables, s, p) /\ refcount[p] = 1
              \/ \E l \in Layers : Reserved[s][l] = p
    <3>1. InTable(k, p) \/ Apart(k, p)
      BY <1>10, <2>1
    <3>2. CASE InTable(k, p)
      BY <1>12, <3>2
    <3>3. CASE Apart(k, p)
      BY <3>3
    <3> QED BY <3>1, <3>2, <3>3
  <2> QED BY <1>18, <1>19, <2>1 DEF Names
<1> QED BY <1>4, <1>11, <1>17, <1>20

LEMMA FreeStep ==
  ASSUME KvInv, NEW s \in SeqIds, free_sequence(s) PROVE KvInv'
<1>1. TypeOK /\ (\A u \in SeqIds : SeqSound(u)) /\ Accounted(free, refcount, PageTables, Reserved)
  BY DEF KvInv
<1>2. /\ refcount' = [p \in Pages |-> refcount[p] - Cardinality(Entries(s, p))]
      /\ free' = free \o PagesAmong(GivesBack(s), TableSlots + NLayers)
      /\ seqs' = [seqs EXCEPT ![s] = EmptySeq] /\ slab' = slab
  BY DEF free_sequence
<1>3. seqs \in [SeqIds -> SeqType]
  BY <1>1 DEF TypeOK, SeqType
<1>4. /\ seqs' \in [SeqIds -> SeqType] /\ seqs'[s] = EmptySeq
      /\ \A u \in SeqIds : u # s => seqs'[u] = seqs[u]
  BY <1>2, <1>3, EmptySeqIs
<1>5. PICK c, N, q : c = GivesBack(s) /\ N = TableSlots + NLayers /\ q = PagesAmong(c, N)
  OBVIOUS
<1>6. /\ N \in Nat /\ c \in [1 .. N -> Pages \cup {-1}] /\ NoneTwice(c, N)
      /\ \A p \in Pages : (\E k \in 1 .. N : c[k] = p)
                             <=> \/ Names(PageTables, s, p) /\ refcount[p] = 1
                                 \/ \E l \in Layers : Reserved[s][l] = p
  BY <1>5, GivesBackFacts
<1>7. Pages \subseteq Nat
  BY DEF Pages
<1>8. Lists(q, c, N, Pages)
  BY <1>5, <1>6, <1>7, PagesAmongLists
<1>9. GivenBack(q, refcount, PageTables, Reserved, s)
  <2>1. /\ q \in Seq(Pages) /\ \A i, j \in 1 .. Len(q) : q[i] = q[j] => i = j
        /\ \A i \in 1 .. Len(q) : \E k \in 1 .. N : c[k] = q[i]
        /\ \A k \in 1 .. N : c[k] >= 0 => \E i \in 1 .. Len(q) : q[i] = c[k]
    BY <1>8 DEF Lists
  <2>2. \A p \in Pages : OnFree(q, p) <=> \E k \in 1 .. N : c[k] = p
    <3> TAKE p \in Pages
    <3>1. p >= 0
      BY <1>7
    <3>2. ASSUME OnFree(q, p) PROVE \E k \in 1 .. N : c[k] = p
      BY <2>1, <3>2 DEF OnFree
    <3>3. ASSUME NEW k \in 1 .. N, c[k] = p PROVE OnFree(q, p)
      BY <2>1, <3>1, <3>3 DEF OnFree
    <3> QED BY <3>2, <3>3
  <2> QED BY <1>6, <2>1, <2>2 DEF GivenBack
<1>10. /\ refcount \in [Pages -> Nat] /\ refcount' \in [Pages -> Nat]
       /\ \A p \in Pages : refcount'[p] = IF Names(PageTables, s, p) THEN refcount[p] - 1 ELSE refcount[p]
  <2>1. refcount \in [Pages -> Nat]
    BY <1>1 DEF Accounted
  <2>2. \A p \in Pages : Cardinality(Entries(s, p)) = IF Names(PageTables, s, p) THEN 1 ELSE 0
    BY <1>1, EntriesAre DEF Accounted
  <2>3. \A p \in Pages : refcount'[p] = IF Names(PageTables, s, p) THEN refcount[p] - 1 ELSE refcount[p]
    <3> TAKE p \in Pages
    <3>1. refcount'[p] = refcount[p] - Cardinality(Entries(s, p)) /\ refcount[p] \in Nat
      BY <1>2, <2>1
    <3> QED BY <2>2, <3>1
  <2>4. refcount' = [p \in Pages |-> refcount'[p]]
    BY <1>2
  <2>5. \A p \in Pages : Names(PageTables, s, p) => refcount[p] > 0
    BY <1>1, CountSays DEF Accounted, Located
  <2>6. \A p \in Pages : refcount'[p] \in Nat
    BY <2>1, <2>3, <2>5
  <2> QED BY <2>1, <2>3, <2>4, <2>6
<1>11. /\ PageTables' \in TableSet /\ PageTables'[s] = EmptySeq.pages
       /\ \A u \in SeqIds : u # s => PageTables'[u] = PageTables[u]
  <2>1. \A u \in SeqIds : seqs'[u].pages \in [Layers -> Seq(Pages)]
    BY <1>4 DEF SeqType
  <2> QED BY <1>4, <2>1 DEF PageTables, TableSet
<1>12. /\ Reserved' \in ReserveSet /\ Reserved'[s] = EmptySeq.reserved
       /\ \A u \in SeqIds : u # s => Reserved'[u] = Reserved[u]
  <2>1. \A u \in SeqIds : seqs'[u].reserved \in [Layers -> Pages \cup {-1}]
    BY <1>4 DEF SeqType
  <2> QED BY <1>4, <2>1 DEF Reserved, ReserveSet
<1>13. Without(refcount, refcount', PageTables, PageTables', Reserved, Reserved', s)
  <2>1. \A p : ~Names(PageTables', s, p)
    BY <1>11, EmptySeqIs DEF Names
  <2>2. NamedOnce(PageTables', s)
    BY <1>11, EmptySeqIs DEF NamedOnce
  <2> QED BY <1>10, <1>11, <1>12, <2>1, <2>2, EmptySeqIs DEF Without
<1>14. Joined(free, q, free')
  BY <1>2, <1>5 DEF Joined
<1>15. Accounted(free', refcount', PageTables', Reserved')
  BY <1>1, <1>9, <1>13, <1>14, FreeAccounted
<1>16. TypeOK'
  BY <1>1, <1>2, <1>4, <1>10, <1>15 DEF TypeOK, SeqType, Accounted
<1>17. SeqSound(s)'
  <2>1. \A l \in Layers : l \in Nat
    BY ConstantsAre
  <2>2. PagesFor(0) = 0
    BY DEF PagesFor
  <2>3. TablesFit(s)'
    BY <1>4, <2>1, <2>2, EmptySeqIs DEF TablesFit
  <2>4. Reserves(s)'
    BY <1>4, EmptySeqIs DEF Reserves
  <2> QED BY <1>4, <2>3, <2>4 DEF SeqSound
<1>18. ASSUME NEW u \in SeqIds, u # s PROVE SeqSound(u)'
  <2>1. \A p \in Pages : refcount'[p] > 1 => refcount[p] > 1
    BY <1>10
  <2> QED BY <1>1, <1>4, <1>18, <2>1, OthersSound
<1> QED BY <1>15, <1>16, <1>17, <1>18 DEF KvInv

\* A call that stores a value: the page is placed in layer l, and the layer, the
\* token or nothing is then complete.
StoresIn(s, l, P, rs) ==
    /\ l = seqs[s].next_layer /\ P = Place(s) /\ rs = Reserve(s).reserved
    /\ seqs' \in [SeqIds -> SeqType] /\ \A u \in SeqIds : u # s => seqs'[u] = seqs[u]
    /\ seqs'[s].live
    /\ seqs'[s].pages = [seqs[s].pages EXCEPT ![l] = P.pages]
    /\ seqs'[s].reserved = [rs EXCEPT ![l] = -1]

LEMMA StoreTypes ==
  ASSUME KvInv, NEW s \in SeqIds, NEW v \in Vals \cup {Junk}, PlaceAndStore(s, v)
  PROVE  slab' \in [Pages -> [0 .. PageTokens - 1 -> Vals \cup {Junk}]]
<1>1. TypeOK
  BY DEF KvInv
<1> DEFINE Row == [0 .. PageTokens - 1 -> Vals \cup {Junk}]
<1>2. slab \in [Pages -> Row]
  BY <1>1 DEF TypeOK
<1>3. Copied(s) \in [Pages -> Row]
  <2>1. PICK l : l = seqs[s].next_layer /\ l \in Layers
    BY <1>1, SeqTypes
  <2>2. CASE Shared(s, l)
    <3>1. PICK p, r : p = seqs[s].pages[l][PageIndex(s)] /\ r = Reserve(s).reserved[l]
      OBVIOUS
    <3>2. p \in Pages
      BY <1>1, <2>1, <2>2, <3>1, SharedNames DEF Shared
    <3>3. slab[p] \in Row
      BY <1>2, <3>2
    <3>4. Copied(s) = [slab EXCEPT ![r] = slab[p]]
      BY <2>1, <2>2, <3>1 DEF Copied
    <3> HIDE DEF Row
    <3> QED BY <1>2, <3>3, <3>4
  <2>3. CASE ~Shared(s, l)
    BY <1>2, <2>1, <2>3 DEF Copied
  <2> QED BY <2>2, <2>3
<1>4. PICK C, p, i : /\ C = Copied(s) /\ p = Place(s).pages[PageIndex(s)]
                     /\ i = seqs[s].length % PageTokens
  OBVIOUS
<1>5. slab' = [C EXCEPT ![p][i] = v]
  BY <1>4 DEF PlaceAndStore
<1>6. C \in [Pages -> Row]
  BY <1>3, <1>4
<1>7. slab' = [C EXCEPT ![p] = [C[p] EXCEPT ![i] = v]]
  BY <1>5
<1>8. CASE p \in Pages
  <2>1. C[p] \in Row
    BY <1>6, <1>8
  <2>2. [C[p] EXCEPT ![i] = v] \in Row
    BY <2>1
  <2> HIDE DEF Row
  <2> QED BY <1>6, <1>7, <2>2 DEF Row
<1>9. CASE p \notin Pages
  <2>1. slab' = C
    BY <1>6, <1>7, <1>9
  <2> QED BY <1>6, <2>1
<1> QED BY <1>8, <1>9

LEMMA StoreStep ==
  ASSUME KvInv, NEW s \in SeqIds, NEW v \in Vals \cup {Junk}, PlaceAndStore(s, v),
         NEW l, NEW P, NEW rs, StoresIn(s, l, P, rs),
         NEW n, n = seqs[s].length,
         \/ seqs'[s].next_layer = l + 1 /\ seqs'[s].length = n
         \/ l = NLayers - 1 /\ seqs'[s].next_layer = 0 /\ seqs'[s].length = n + 1
         \/ l > 0 /\ seqs'[s].next_layer = l /\ seqs'[s].length = n
  PROVE  KvInv'
<1>1. TypeOK /\ (\A u \in SeqIds : SeqSound(u)) /\ Accounted(free, refcount, PageTables, Reserved)
  BY DEF KvInv
<1>2. /\ l = seqs[s].next_layer /\ P = Place(s) /\ rs = Reserve(s).reserved
      /\ seqs' \in [SeqIds -> SeqType] /\ \A u \in SeqIds : u # s => seqs'[u] = seqs[u]
      /\ seqs'[s].live
      /\ seqs'[s].pages = [seqs[s].pages EXCEPT ![l] = P.pages]
      /\ seqs'[s].reserved = [rs EXCEPT ![l] = -1]
  BY DEF StoresIn
<1>3. Appendable(s) /\ free' = P.free /\ refcount' = P.refcount
  BY <1>2 DEF PlaceAndStore
<1>4. PICK rf, mid : ReservesAs(s, rs, rf, mid)
  BY <1>2 DEF ReservesAs
<1>5. /\ rs \in [Layers -> Pages \cup {-1}]
      /\ \A m \in Lacking(s) : m >= l => rs[m] \in Pages
      /\ \A m \in Layers : m < l => rs[m] = -1
  BY <1>2, <1>3, <1>4, ReserveOk
<1>6. PICK new, nrs : PlacesAs(s, l, P, new, nrs)
  BY <1>2 DEF PlacesAs
<1>7. /\ Accounted(P.free, P.refcount, new, nrs)
      /\ P.pages \in Seq(Pages) /\ Len(P.pages) = PageIndex(s) /\ PageIndex(s) \in 1 .. Len(P.pages)
      /\ P.refcount[P.pages[PageIndex(s)]] = 1
      /\ \A p \in Pages : P.refcount[p] > 1 => refcount[p] > 1
  BY <1>3, <1>6, PlaceOk
<1>8. /\ l \in Layers /\ l \in Nat /\ n \in 0 .. MaxLength /\ seqs[s].pages \in [Layers -> Seq(Pages)]
      /\ MaxLength \in Nat /\ \A m \in Layers : m \in Nat /\ m <= NLayers - 1
  BY <1>1, <1>2, SeqTypes, ConstantsAre DEF Layers
<1>9. /\ seqs'[s].pages[l] = P.pages /\ seqs'[s].reserved[l] = -1
      /\ \A m \in Layers : m # l => /\ seqs'[s].pages[m] = seqs[s].pages[m]
                                    /\ seqs'[s].reserved[m] = rs[m]
  BY <1>2, <1>5, <1>8
<1>10. PageTables' = new
  <2>1. new = RowSet(PageTables, s, l, P.pages) /\ PageTables \in [SeqIds -> [Layers -> Seq(Pages)]]
        /\ PageTables[s] = seqs[s].pages
    BY <1>1, <1>6, SeqTypes DEF PlacesAs, Accounted, TableSet
  <2>2. PICK row : row = [seqs[s].pages EXCEPT ![l] = P.pages]
    OBVIOUS
  <2>3. new = [PageTables EXCEPT ![s] = row]
    BY <2>1, <2>2 DEF RowSet
  <2>4. seqs'[s].pages = row
    BY <1>2, <2>2
  <2>5. \A u \in SeqIds : PageTables'[u] = new[u]
    BY <1>2, <2>1, <2>3, <2>4 DEF PageTables
  <2>6. PageTables' = [u \in SeqIds |-> PageTables'[u]] /\ new = [u \in SeqIds |-> new[u]]
    BY <2>1, <2>3 DEF PageTables
  <2> QED BY <2>5, <2>6
<1>11. Reserved' = nrs
  <2>1. nrs = [Reserved EXCEPT ![s] = [rs EXCEPT ![l] = -1]]
        /\ Reserved \in [SeqIds -> [Layers -> Pages \cup {-1}]]
    BY <1>1, <1>2, <1>6 DEF PlacesAs, Accounted, ReserveSet
  <2>2. PICK row : row = [rs EXCEPT ![l] = -1]
    OBVIOUS
  <2>3. nrs = [Reserved EXCEPT ![s] = row]
    BY <2>1, <2>2
  <2>4. seqs'[s].reserved = row
    BY <1>2, <2>2
  <2>5. \A u \in SeqIds : Reserved'[u] = nrs[u]
    BY <1>2, <2>1, <2>3, <2>4 DEF Reserved
  <2>6. Reserved' = [u \in SeqIds |-> Reserved'[u]] /\ nrs = [u \in SeqIds |-> nrs[u]]
    BY <2>1, <2>3 DEF Reserved
  <2> QED BY <2>5, <2>6
<1>12. Accounted(free', refcount', PageTables', Reserved')
  BY <1>3, <1>7, <1>10, <1>11
<1>13. TypeOK'
  BY <1>2, <1>12, StoreTypes DEF TypeOK, SeqType, Accounted
<1>14. /\ l > 0 => n < MaxLength
       /\ l = 0 => n < MaxLength
  <2>1. l > 0 => n < MaxLength
    BY <1>1, <1>2 DEF SeqSound, Reserves
  <2>2. l = 0 => n < MaxLength
    <3>1. l = 0 => n < (IF MaxContext > 0 THEN MaxContext ELSE MaxLength)
      BY <1>2, <1>3 DEF Appendable
    <3>2. MaxContext \in 0 .. MaxLength
      BY KvCacheAssumption
    <3> QED BY <1>8, <3>1, <3>2
  <2> QED BY <2>1, <2>2
<1>15. n < MaxLength
  BY <1>8, <1>14
<1>16. PICK i : i = PageIndex(s) /\ i = n \div PageTokens + 1
  BY DEF PageIndex
<1>17. /\ \A m \in Layers : m < l => Len(seqs[s].pages[m]) = i
       /\ \A m \in Layers : m > l => Len(seqs[s].pages[m]) = PagesFor(n)
       /\ \A m \in Layers : Len(seqs[s].pages[m]) \in {PagesFor(n), i}
  BY <1>1, <1>2, <1>16 DEF SeqSound, TablesFit
<1>18. /\ \A m \in Layers : m <= l => Len(seqs'[s].pages[m]) = i
       /\ \A m \in Layers : m > l => Len(seqs'[s].pages[m]) = PagesFor(n)
       /\ \A m \in Layers : Len(seqs'[s].pages[m]) \in {PagesFor(n), i}
  <2> SUFFICES ASSUME NEW m \in Layers
               PROVE  /\ m <= l => Len(seqs'[s].pages[m]) = i
                      /\ m > l => Len(seqs'[s].pages[m]) = PagesFor(n)
                      /\ Len(seqs'[s].pages[m]) \in {PagesFor(n), i}
    OBVIOUS
  <2>1. CASE m = l
    BY <1>7, <1>8, <1>9, <1>16, <2>1
  <2>2. CASE m # l
    BY <1>8, <1>9, <1>17, <2>2
  <2> QED BY <2>1, <2>2
\* A layer to come lacks a page only if it did.
<1>19. ASSUME seqs'[s].length = n, NEW m \in Layers, m >= l, m \in Lacking(s)'
       PROVE  m # l /\ seqs'[s].reserved[m] >= 0
  <2>1. PageIndex(s)' = i
    BY <1>16, <1>19 DEF PageIndex
  <2>2. m # l
    <3>1. ASSUME m = l PROVE FALSE
      <4>1. ~Fresh(s, m)'
        BY <1>7, <1>9, <1>16, <2>1, <3>1 DEF Fresh
      <4>2. ~Shared(s, m)'
        BY <1>3, <1>7, <1>9, <1>16, <2>1, <3>1 DEF Shared
      <4> QED BY <1>19, <4>1, <4>2 DEF Lacking
    <3> QED BY <3>1
  <2>3. Fresh(s, m)' <=> Fresh(s, m)
    BY <1>9, <1>16, <2>1, <2>2 DEF Fresh
  <2>4. Shared(s, m)' => Shared(s, m)
    <3>1. SUFFICES ASSUME Shared(s, m)' PROVE Shared(s, m)
      OBVIOUS
    <3>2. PICK p : p = seqs[s].pages[m][i]
      OBVIOUS
    <3>3. ~Fresh(s, m) /\ refcount'[p] > 1
      BY <1>9, <2>1, <2>2, <2>3, <3>1, <3>2 DEF Shared
    <3>4. p \in Pages
      BY <1>1, <1>16, <3>2, <3>3, SharedNames
    <3>5. refcount[p] > 1
      BY <1>3, <1>7, <3>3, <3>4
    <3> QED BY <1>16, <3>2, <3>3, <3>5 DEF Shared
  <2>5. m \in Lacking(s)
    BY <1>19, <2>3, <2>4 DEF Lacking
  <2>6. rs[m] \in Pages
    BY <1>5, <1>19, <2>5
  <2>7. rs[m] >= 0
    BY <2>6 DEF Pages
  <2> QED BY <1>9, <2>2, <2>7
<1>20. \A m \in Layers : m <= l => seqs'[s].reserved[m] = -1
  BY <1>5, <1>8, <1>9
<1>21. SeqSound(s)'
  <2>1. CASE seqs'[s].next_layer = l + 1 /\ seqs'[s].length = n
    <3>1. PageIndex(s)' = i
      BY <1>16, <2>1 DEF PageIndex
    <3>2. \A m \in Layers : /\ m < l + 1 => m <= l
                            /\ m > l + 1 => m > l
                            /\ m >= l + 1 => m >= l /\ m # l
      BY <1>8
    <3>3. l + 1 # 0 /\ l + 1 > 0
      BY <1>8
    <3>4. TablesFit(s)'
      BY <1>18, <2>1, <3>1, <3>2, <3>3 DEF TablesFit
    <3>5. Reserves(s)'
      BY <1>15, <1>19, <1>20, <2>1, <3>2, <3>3 DEF Reserves
    <3> QED BY <1>2, <3>4, <3>5 DEF SeqSound
  <2>2. CASE l = NLayers - 1 /\ seqs'[s].next_layer = 0 /\ seqs'[s].length = n + 1
    <3>1. \A m \in Layers : m <= l /\ ~(m < 0)
      <4>1. NLayers \in Nat
        BY ConstantsAre
      <4>2. ASSUME NEW m \in Layers PROVE m <= l /\ ~(m < 0)
        BY <2>2, <4>1, <4>2 DEF Layers
      <4> QED BY <4>2
    <3>2. PagesFor(n + 1) = i
      BY <1>8, <1>16, PagesForFacts
    <3>3. TablesFit(s)'
      BY <1>18, <2>2, <3>1, <3>2 DEF TablesFit
    <3>4. Reserves(s)'
      BY <1>20, <2>2, <3>1 DEF Reserves
    <3> QED BY <1>2, <3>3, <3>4 DEF SeqSound
  <2>3. CASE l > 0 /\ seqs'[s].next_layer = l /\ seqs'[s].length = n
    <3>1. PageIndex(s)' = i
      BY <1>16, <2>3 DEF PageIndex
    <3>2. \A m \in Layers : m < l => m <= l
      BY <1>8
    <3>3. l # 0
      BY <1>8, <2>3
    <3>4. TablesFit(s)'
      BY <1>18, <2>3, <3>1, <3>2, <3>3 DEF TablesFit
    <3>5. Reserves(s)'
      BY <1>15, <1>19, <1>20, <2>3, <3>2, <3>3 DEF Reserves
    <3> QED BY <1>2, <3>4, <3>5 DEF SeqSound
  <2> QED BY <2>1, <2>2, <2>3
<1>22. ASSUME NEW u \in SeqIds, u # s PROVE SeqSound(u)'
  <2>1. \A p \in Pages : refcount'[p] > 1 => refcount[p] > 1
    BY <1>3, <1>7
  <2> QED BY <1>1, <1>2, <1>22, <2>1, OthersSound
<1> QED BY <1>12, <1>13, <1>21, <1>22 DEF KvInv

Advances(s, l, P, rs, A) ==
    l = seqs[s].next_layer /\ P = Place(s) /\ rs = Reserve(s).reserved /\ A = Advanced(s)

IsAdvanced(s, l, P, rs, A) ==
    /\ A \in [SeqIds -> SeqType] /\ \A u \in SeqIds : u # s => A[u] = seqs[u]
    /\ A[s].live = seqs[s].live /\ A[s].length = seqs[s].length /\ A[s].next_layer = l
    /\ A[s].pages = [seqs[s].pages EXCEPT ![l] = P.pages]
    /\ A[s].reserved = [rs EXCEPT ![l] = -1]

LEMMA AdvancedIs ==
  ASSUME KvInv, NEW s \in SeqIds, Appendable(s),
         NEW l, NEW P, NEW rs, NEW A, Advances(s, l, P, rs, A)
  PROVE  IsAdvanced(s, l, P, rs, A)
<1>1. TypeOK /\ seqs \in [SeqIds -> SeqType]
  BY DEF KvInv, TypeOK, SeqType
<1>a. l = seqs[s].next_layer /\ A = Advanced(s)
  BY DEF Advances
<1>2. PICK rf, mid, new, nrs : ReservesAs(s, rs, rf, mid) /\ PlacesAs(s, l, P, new, nrs)
  BY DEF ReservesAs, PlacesAs, Advances
<1>3. rs \in [Layers -> Pages \cup {-1}]
  BY <1>2, ReserveOk
<1>4. P.pages \in Seq(Pages)
  BY <1>2, PlaceOk
<1>5. PICK c : c = seqs[s] /\ c \in SeqType
  BY <1>1
<1>6. l \in Layers
  BY <1>1, <1>a, SeqTypes
<1>7. PICK q, r : q = [c.pages EXCEPT ![l] = P.pages] /\ r = [rs EXCEPT ![l] = -1]
  OBVIOUS
<1>8. q \in [Layers -> Seq(Pages)] /\ r \in [Layers -> Pages \cup {-1}]
  BY <1>3, <1>4, <1>5, <1>7 DEF SeqType
<1>9. A = [seqs EXCEPT ![s].pages[l] = P.pages, ![s].reserved = r]
  BY <1>7 DEF Advanced, Advances
<1>10. PICK d : d = [c EXCEPT !.pages = q, !.reserved = r]
  OBVIOUS
<1>11. /\ d \in SeqType /\ d.live = c.live /\ d.length = c.length /\ d.next_layer = c.next_layer
       /\ d.pages = q /\ d.reserved = r
  BY <1>5, <1>8, <1>10 DEF SeqType
<1>12. A = [seqs EXCEPT ![s] = d]
  BY <1>1, <1>5, <1>7, <1>9, <1>10
<1>13. A \in [SeqIds -> SeqType] /\ A[s] = d /\ \A u \in SeqIds : u # s => A[u] = seqs[u]
  BY <1>1, <1>11, <1>12
<1> QED BY <1>a, <1>5, <1>7, <1>11, <1>13 DEF IsAdvanced

\* What a call of append leaves of its sequence: the store, and one layer, or one
\* token, more.
AppendsAs(s, l, P, rs) ==
    /\ StoresIn(s, l, P, rs)
    /\ \/ seqs'[s].next_layer = l + 1 /\ seqs'[s].length = seqs[s].length
       \/ l = NLayers - 1 /\ seqs'[s].next_layer = 0 /\ seqs'[s].length = seqs[s].length + 1

LEMMA AppendIs ==
  ASSUME KvInv, NEW s \in SeqIds, NEW v \in Vals, append(s, v)
  PROVE  \E l, P, rs : AppendsAs(s, l, P, rs)
<1>0. PICK l, P, rs, A : Advances(s, l, P, rs, A)
  BY DEF Advances
<1>1. l = seqs[s].next_layer /\ P = Place(s) /\ rs = Reserve(s).reserved /\ A = Advanced(s)
  BY <1>0 DEF Advances
<1>2. PlaceAndStore(s, v) /\ Appendable(s) /\ seqs[s].live
  BY DEF append, PlaceAndStore, Appendable
<1>a. IsAdvanced(s, l, P, rs, A)
  BY <1>0, <1>2, AdvancedIs
<1>3. /\ A \in [SeqIds -> SeqType] /\ \A u \in SeqIds : u # s => A[u] = seqs[u]
      /\ A[s].live = seqs[s].live /\ A[s].length = seqs[s].length /\ A[s].next_layer = l
      /\ A[s].pages = [seqs[s].pages EXCEPT ![l] = P.pages]
      /\ A[s].reserved = [rs EXCEPT ![l] = -1]
  BY <1>a DEF IsAdvanced
<1>4. PICK k, n : /\ k = IF l = NLayers - 1 THEN 0 ELSE l + 1
                  /\ n = IF l = NLayers - 1 THEN seqs[s].length + 1 ELSE seqs[s].length
  OBVIOUS
<1>5. seqs' = [A EXCEPT ![s].next_layer = k, ![s].length = n]
  BY <1>1, <1>3, <1>4 DEF append
<1>6. TypeOK /\ SeqSound(s)
  BY DEF KvInv
<1>7. l \in Layers /\ k \in Layers
  <2>1. l \in Layers
    BY <1>1, <1>6, SeqTypes
  <2> QED BY <1>4, <2>1, ConstantsAre DEF Layers
<1>8. n \in 0 .. MaxLength
  <2>1. seqs[s].length \in 0 .. MaxLength /\ MaxLength \in Nat /\ l \in Nat /\ l = seqs[s].next_layer
    BY <1>1, <1>6, SeqTypes, ConstantsAre
  <2>2. l > 0 => seqs[s].length < MaxLength
    BY <1>6, <2>1 DEF SeqSound, Reserves
  <2>3. l = 0 => seqs[s].length < (IF MaxContext > 0 THEN MaxContext ELSE MaxLength)
    BY <1>2, <2>1 DEF Appendable
  <2>4. MaxContext \in 0 .. MaxLength
    BY KvCacheAssumption
  <2>5. l = 0 => seqs[s].length < MaxLength
    BY <2>1, <2>3, <2>4
  <2> QED BY <1>4, <2>1, <2>2, <2>5
<1>9. PICK c : c = A[s] /\ c \in SeqType
  BY <1>3
<1>10. PICK d : d = [c EXCEPT !.next_layer = k, !.length = n]
  OBVIOUS
<1>11. /\ d \in SeqType /\ d.live = c.live /\ d.pages = c.pages /\ d.reserved = c.reserved
       /\ d.next_layer = k /\ d.length = n
  BY <1>7, <1>8, <1>9, <1>10 DEF SeqType
<1>12. seqs' = [A EXCEPT ![s] = d]
  BY <1>3, <1>5, <1>9, <1>10
<1>13. seqs' \in [SeqIds -> SeqType] /\ seqs'[s] = d /\ \A u \in SeqIds : u # s => seqs'[u] = seqs[u]
  BY <1>3, <1>11, <1>12
<1>14. StoresIn(s, l, P, rs)
  BY <1>1, <1>2, <1>3, <1>9, <1>11, <1>13 DEF StoresIn
<1>15. \/ seqs'[s].next_layer = l + 1 /\ seqs'[s].length = seqs[s].length
       \/ l = NLayers - 1 /\ seqs'[s].next_layer = 0 /\ seqs'[s].length = seqs[s].length + 1
  BY <1>4, <1>11, <1>13
<1> QED BY <1>14, <1>15 DEF AppendsAs

LEMMA AppendStep ==
  ASSUME KvInv, NEW s \in SeqIds, NEW v \in Vals, append(s, v) PROVE KvInv'
<1>1. PICK l, P, rs : AppendsAs(s, l, P, rs)
  BY AppendIs
<1>2. StoresIn(s, l, P, rs) /\ PlaceAndStore(s, v) /\ v \in Vals \cup {Junk}
  BY <1>1 DEF AppendsAs, append
<1>3. \/ seqs'[s].next_layer = l + 1 /\ seqs'[s].length = seqs[s].length
      \/ l = NLayers - 1 /\ seqs'[s].next_layer = 0 /\ seqs'[s].length = seqs[s].length + 1
  BY <1>1 DEF AppendsAs
<1> QED BY <1>2, <1>3, StoreStep

\* After a failing store the layer is to be done again.
LEMMA WriteFailsIs ==
  ASSUME 0 \notin FaultLayers, KvInv, NEW s \in SeqIds, WriteFails(s)
  PROVE  \E l, P, rs : /\ StoresIn(s, l, P, rs) /\ l > 0
                       /\ seqs'[s].next_layer = l /\ seqs'[s].length = seqs[s].length
<1>0. PICK l, P, rs, A : Advances(s, l, P, rs, A)
  BY DEF Advances
<1>1. l = seqs[s].next_layer /\ P = Place(s) /\ rs = Reserve(s).reserved
  BY <1>0 DEF Advances
<1>2. PlaceAndStore(s, Junk) /\ Appendable(s) /\ seqs[s].live
  BY DEF WriteFails, PlaceAndStore, Appendable
<1>3. seqs' = A
  BY <1>0 DEF WriteFails, Advances
<1>a. IsAdvanced(s, l, P, rs, A)
  BY <1>0, <1>2, AdvancedIs
<1>4. /\ A \in [SeqIds -> SeqType] /\ \A u \in SeqIds : u # s => A[u] = seqs[u]
      /\ A[s].live = seqs[s].live /\ A[s].length = seqs[s].length /\ A[s].next_layer = l
      /\ A[s].pages = [seqs[s].pages EXCEPT ![l] = P.pages]
      /\ A[s].reserved = [rs EXCEPT ![l] = -1]
  BY <1>a DEF IsAdvanced
<1>5. l > 0
  <2>1. l \in Nat
    BY <1>1, SeqTypes DEF KvInv
  <2> QED BY <1>1, <2>1 DEF WriteFails
<1>6. StoresIn(s, l, P, rs)
  BY <1>1, <1>2, <1>3, <1>4 DEF StoresIn
<1> QED BY <1>3, <1>4, <1>5, <1>6

LEMMA WriteFailsStep ==
  ASSUME 0 \notin FaultLayers, KvInv, NEW s \in SeqIds, WriteFails(s) PROVE KvInv'
<1>1. PICK l, P, rs : /\ StoresIn(s, l, P, rs) /\ l > 0
                      /\ seqs'[s].next_layer = l /\ seqs'[s].length = seqs[s].length
  BY WriteFailsIs
<1>2. PlaceAndStore(s, Junk) /\ Junk \in Vals \cup {Junk}
  BY DEF WriteFails
<1> QED BY <1>1, <1>2, StoreStep

\* Part-way through a token the pages are reserved already: nothing happens.
LEMMA CopyFailsStep ==
  ASSUME 0 \notin FaultLayers, KvInv, NEW s \in SeqIds, CopyFails(s) PROVE vars' = vars
<1>1. seqs[s].next_layer # 0
  BY DEF CopyFails
<1>2. Reserve(s).free = free /\ Reserve(s).reserved = seqs[s].reserved
  BY <1>1 DEF Reserve
<1>3. seqs \in [SeqIds -> SeqType]
  BY DEF KvInv, TypeOK, SeqType
<1>4. seqs' = [seqs EXCEPT ![s].reserved = seqs[s].reserved]
  BY <1>2 DEF CopyFails
<1>5. seqs[s] \in SeqType
  BY <1>3
<1>6. [seqs[s] EXCEPT !.reserved = seqs[s].reserved] = seqs[s]
  BY <1>5 DEF SeqType
<1>7. seqs' = seqs
  BY <1>3, <1>4, <1>6
<1> QED BY <1>2, <1>7 DEF CopyFails, vars

LEMMA KvStart == Init => KvInv
<1> SUFFICES ASSUME Init PROVE KvInv
  OBVIOUS
<1>1. /\ free = [i \in 1 .. TotalPages |-> TotalPages - i] /\ refcount = [p \in Pages |-> 0]
      /\ seqs = [s \in SeqIds |-> EmptySeq]
      /\ slab = [p \in Pages |-> [i \in 0 .. PageTokens - 1 |-> Junk]]
  BY DEF Init
<1>2. free \in Seq(Pages) /\ Len(free) = TotalPages
  <2>1. \A i \in 1 .. TotalPages : TotalPages - i \in Pages
    BY ConstantsAre DEF Pages
  <2>2. free \in [1 .. TotalPages -> Pages] /\ TotalPages \in Nat
    BY <1>1, <2>1, ConstantsAre
  <2> QED BY <2>2
<1>3. TypeOK
  BY <1>1, <1>2, EmptySeqIs DEF TypeOK, SeqType
<1>4. \A s \in SeqIds : SeqSound(s)
  <2> TAKE s \in SeqIds
  <2>1. \A l \in Layers : l \in Nat
    BY ConstantsAre
  <2>2. PagesFor(0) = 0
    BY DEF PagesFor
  <2>3. TablesFit(s)
    BY <1>1, <2>1, <2>2, EmptySeqIs DEF TablesFit
  <2>4. Reserves(s)
    BY <1>1, EmptySeqIs DEF Reserves
  <2> QED BY <1>1, <2>3, <2>4 DEF SeqSound
<1>5. /\ PageTables \in TableSet /\ Reserved \in ReserveSet
      /\ \A s \in SeqIds, l \in Layers : PageTables[s][l] = <<>> /\ Len(PageTables[s][l]) = 0 /\ Reserved[s][l] = -1
  BY <1>1, EmptySeqIs DEF PageTables, Reserved, TableSet, ReserveSet, SeqType
<1>6. FreeOnce(free) /\ \A p \in Pages : OnFree(free, p)
  <2>1. \A i, j \in 1 .. TotalPages : TotalPages - i = TotalPages - j => i = j
    BY ConstantsAre
  <2>2. ASSUME NEW p \in Pages PROVE OnFree(free, p)
    <3>1. TotalPages - p \in 1 .. TotalPages /\ TotalPages - (TotalPages - p) = p
      BY ConstantsAre DEF Pages
    <3> QED BY <1>1, <1>2, <3>1 DEF OnFree
  <2> QED BY <1>1, <1>2, <2>1, <2>2 DEF FreeOnce
<1>7. KeptOnce(Reserved) /\ \A s \in SeqIds : NamedOnce(PageTables, s)
  BY <1>5 DEF KeptOnce, NamedOnce
<1>8. ASSUME NEW p \in Pages PROVE Located(free, refcount, PageTables, Reserved, p)
  <2>1. Naming(PageTables, p) = {}
    BY <1>5 DEF Naming, Names
  <2>2. Cardinality(Naming(PageTables, p)) = 0 /\ refcount[p] = 0
    BY <1>1, <2>1, FS_EmptySet
  <2>3. ~Kept(Reserved, p)
    BY <1>5 DEF Kept, Pages
  <2> QED BY <1>6, <2>2, <2>3 DEF Located
<1>9. refcount \in [Pages -> Nat]
  BY <1>1
<1> QED BY <1>2, <1>3, <1>4, <1>5, <1>6, <1>7, <1>8, <1>9 DEF KvInv, Accounted

\* Every reachable state satisfies the invariant, if no copy of a first layer
\* fails.
THEOREM CacheSound ==
  ASSUME 0 \notin FaultLayers PROVE Spec => []KvInv
<1>1. KvInv /\ [Next]_vars => KvInv'
  <2> SUFFICES ASSUME KvInv, [Next]_vars PROVE KvInv'
    OBVIOUS
  <2>1. CASE UNCHANGED vars
    BY <2>1 DEF vars, KvInv, TypeOK, SeqSound, TablesFit, Reserves, Lacking, Fresh, Shared, PageIndex, PageTables, Reserved
  <2>2. CASE Next
    <3>1. PICK s \in SeqIds : \/ create_sequence(s)
                              \/ \E child \in SeqIds : fork_sequence(s, child)
                              \/ free_sequence(s)
                              \/ \E v \in Vals : append(s, v)
                              \/ CopyFails(s)
                              \/ WriteFails(s)
      BY <2>2 DEF Next
    <3>2. CASE CopyFails(s)
      <4>1. vars' = vars
        BY <3>2, CopyFailsStep
      <4> QED BY <4>1 DEF vars, KvInv, TypeOK, SeqSound, TablesFit, Reserves, Lacking, Fresh, Shared, PageIndex, PageTables, Reserved
    <3> QED BY <3>1, <3>2, CreateStep, ForkStep, FreeStep, AppendStep, WriteFailsStep
  <2> QED BY <2>1, <2>2
<1> QED BY <1>1, KvStart, PTL DEF Spec

-----------------------------------------------------------------------------
(***************************************************************************)
(* What the invariant says of the cache.                                   *)
(***************************************************************************)
\* Every page is once on the free list, once reserved for a token, or in as many
\* page tables as its count says: no page leaks and none is handed out twice.
THEOREM PagesStayAccounted ==
  ASSUME 0 \notin FaultLayers PROVE Spec => []PagesAccounted
<1>1. KvInv => PagesAccounted
  <2> SUFFICES ASSUME KvInv PROVE PagesAccounted
    OBVIOUS
  <2>1. TypeOK /\ (\A s \in SeqIds : SeqSound(s)) /\ Accounted(free, refcount, PageTables, Reserved)
    BY DEF KvInv
  <2>2. ASSUME NEW p \in Pages
        PROVE  /\ refcount[p] = Cardinality(HeldBy(p))
               /\ Cardinality(OnFreeList(p)) + Cardinality(ReservedFor(p))
                    = IF refcount[p] = 0 THEN 1 ELSE 0
    <3>1. Located(free, refcount, PageTables, Reserved, p)
      BY <2>1 DEF Accounted
    <3>2. HeldBy(p) = Naming(PageTables, p)
      <4>1. \A s \in SeqIds : Entries(s, p) # {} <=> Names(PageTables, s, p)
        BY <2>1, EntriesAre DEF Accounted
      <4> QED BY <4>1 DEF HeldBy, Naming
    <3>3. Cardinality(OnFreeList(p)) = IF OnFree(free, p) THEN 1 ELSE 0
      <4>1. CASE OnFree(free, p)
        <5>1. PICK i \in 1 .. Len(free) : free[i] = p
          BY <4>1 DEF OnFree
        <5>2. OnFreeList(p) = {i}
          BY <2>1, <5>1 DEF OnFreeList, Accounted, FreeOnce
        <5> QED BY <4>1, <5>2, FS_Singleton
      <4>2. CASE ~OnFree(free, p)
        <5>1. OnFreeList(p) = {}
          BY <4>2 DEF OnFree, OnFreeList
        <5> QED BY <4>2, <5>1, FS_EmptySet
      <4> QED BY <4>1, <4>2
    <3>4. Cardinality(ReservedFor(p)) = IF Kept(Reserved, p) THEN 1 ELSE 0
      <4>1. p # -1
        BY AccountedTypes, <2>1
      <4>2. \A x \in SeqIds \X Layers : seqs[x[1]].reserved[x[2]] = Reserved[x[1]][x[2]]
        BY <2>1, SeqTypes
      <4>3. CASE Kept(Reserved, p)
        <5>1. PICK s \in SeqIds, l \in Layers : Reserved[s][l] = p
          BY <4>3 DEF Kept
        <5>2. <<s, l>> \in ReservedFor(p)
          BY <4>2, <5>1 DEF ReservedFor, Reserved
        <5>3. ASSUME NEW x \in ReservedFor(p) PROVE x = <<s, l>>
          <6>1. x \in SeqIds \X Layers /\ Reserved[x[1]][x[2]] = p
            BY <4>2 DEF ReservedFor
          <6>2. PICK u \in SeqIds, m \in Layers : x = <<u, m>> /\ Reserved[u][m] = p
            BY <6>1
          <6>3. u = s /\ m = l
            BY <2>1, <4>1, <5>1, <6>2 DEF Accounted, KeptOnce
          <6> QED BY <6>2, <6>3
        <5>4. ReservedFor(p) = {<<s, l>>}
          BY <5>2, <5>3
        <5> QED BY <4>3, <5>4, FS_Singleton
      <4>4. CASE ~Kept(Reserved, p)
        <5>1. ReservedFor(p) = {}
          BY <4>2, <4>4 DEF Kept, ReservedFor
        <5> QED BY <4>4, <5>1, FS_EmptySet
      <4> QED BY <4>3, <4>4
    <3> QED BY <3>1, <3>2, <3>3, <3>4 DEF Located
  <2> QED BY <2>1, <2>2 DEF PagesAccounted
<1> QED BY <1>1, CacheSound, PTL

\* A token once begun finds its pages: append() does not run out of pages, nor
\* into its internal error, between the layers of a token.
THEOREM BegunTokensFinish ==
  ASSUME 0 \notin FaultLayers PROVE Spec => []TokensFinish
<1>1. KvInv => TokensFinish
  BY DEF KvInv, SeqSound, Reserves, TokensFinish, Lacking
<1> QED BY <1>1, CacheSound, PTL

-----------------------------------------------------------------------------
(***************************************************************************)
(* Sequences are private: the cache implements KvSequences.                *)
(***************************************************************************)
LEMMA QuotientMonotone ==
  ASSUME NEW p \in Nat \ {0}, NEW a \in Nat, NEW b \in Nat, a <= b
  PROVE  a \div p <= b \div p
<1> PICK q, r, x, y : q = a \div p /\ r = a % p /\ x = b \div p /\ y = b % p
  OBVIOUS
<1>1. /\ q \in Nat /\ r \in 0 .. p - 1 /\ a = p * q + r
      /\ x \in Nat /\ y \in 0 .. p - 1 /\ b = p * x + y
  BY Quotient
<1>2. ASSUME x < q PROVE FALSE
  <2>1. PICK d \in Nat \ {0} : q = x + d
    <3>1. q - x \in Nat \ {0} /\ q = x + (q - x)
      BY <1>1, <1>2
    <3> QED BY <3>1
  <2>2. p * (x + d) = p * x + p * d /\ p * d >= p
    BY <1>1, <2>1
  <2>3. p * q = p * x + p * d
    BY <2>1, <2>2
  <2>4. p * x \in Int /\ p * d \in Int
    BY <1>1, <2>1
  <2> QED BY <1>1, <2>2, <2>3, <2>4
<1> QED BY <1>1, <1>2

\* Where token t of a sequence is, in each of its layers.
At(t) == (t - 1) \div PageTokens + 1
Off(t) == (t - 1) % PageTokens

LEMMA TokenPlace ==
  ASSUME NEW n \in 0 .. MaxLength, NEW t \in 1 .. n
  PROVE  /\ At(t) \in 1 .. PagesFor(n) /\ Off(t) \in 0 .. PageTokens - 1
         /\ ~(At(t) = n \div PageTokens + 1 /\ Off(t) = n % PageTokens)
<1>1. PageTokens \in Nat \ {0} /\ n \in Nat /\ MaxLength \in Nat
  BY ConstantsAre
<1>2. PICK a \in Nat, b \in Nat : a = t - 1 /\ b = n - 1 /\ a <= b
  BY <1>1
<1>3. a \div PageTokens \in Nat /\ a % PageTokens \in 0 .. PageTokens - 1
      /\ a = PageTokens * (a \div PageTokens) + (a % PageTokens)
  BY <1>1, Quotient
<1>4. n = PageTokens * (n \div PageTokens) + (n % PageTokens)
  BY <1>1, Quotient
<1>5. a \div PageTokens <= b \div PageTokens /\ b \div PageTokens \in Nat
  BY <1>1, <1>2, Quotient, QuotientMonotone
<1>6. PICK q, r : q = a \div PageTokens /\ r = a % PageTokens /\ At(t) = q + 1 /\ Off(t) = r
  BY <1>2 DEF At, Off
<1>7. PagesFor(n) = b \div PageTokens + 1
  BY <1>1, <1>2 DEF PagesFor
<1>8. At(t) \in 1 .. PagesFor(n)
  BY <1>3, <1>5, <1>6, <1>7
<1>9. ASSUME At(t) = n \div PageTokens + 1, Off(t) = n % PageTokens PROVE FALSE
  <2>1. PICK x, y : x = n \div PageTokens /\ y = n % PageTokens
    OBVIOUS
  <2>2. x \in Nat /\ y \in Nat /\ n = PageTokens * x + y
    BY <1>1, <1>4, <2>1, Quotient
  <2>3. x = q /\ y = r
    BY <1>3, <1>6, <1>9, <2>1, <2>2
  <2>4. a = PageTokens * q + r
    BY <1>3, <1>6
  <2>5. a = n
    BY <2>2, <2>3, <2>4
  <2> QED BY <1>1, <1>2, <2>5
<1> QED BY <1>3, <1>6, <1>8, <1>9

\* A store writes to one page, which only its sequence names, and only once; in
\* that page it keeps every slot but its own, be it a copy.
StoresAt(s, v, l, P, w, j) ==
    /\ l = seqs[s].next_layer /\ P = Place(s)
    /\ w = P.pages[PageIndex(s)] /\ j = seqs[s].length % PageTokens

LEMMA StoreSlab ==
  ASSUME KvInv, NEW s \in SeqIds, NEW v \in Vals \cup {Junk}, PlaceAndStore(s, v),
         NEW l, NEW P, NEW w, NEW j, StoresAt(s, v, l, P, w, j)
  PROVE  /\ w \in Pages /\ slab'[w][j] = v
         /\ \A p \in Pages : p # w => slab'[p] = slab[p]
         /\ ~Fresh(s, l) => \A y \in 0 .. PageTokens - 1 :
              y # j => slab'[w][y] = slab[seqs[s].pages[l][PageIndex(s)]][y]
         /\ \A u \in SeqIds : u # s => ~Names(PageTables, u, w)
         /\ \A m \in Layers : m # l =>
              \A i \in 1 .. Len(seqs[s].pages[m]) : seqs[s].pages[m][i] # w
         /\ \A i \in 1 .. Len(seqs[s].pages[l]) : i # PageIndex(s) =>
              P.pages[i] = seqs[s].pages[l][i] /\ P.pages[i] # w
<1>1. TypeOK /\ SeqSound(s) /\ Accounted(free, refcount, PageTables, Reserved) /\ Appendable(s)
  BY DEF KvInv, PlaceAndStore
<1>2. /\ l = seqs[s].next_layer /\ P = Place(s)
      /\ w = P.pages[PageIndex(s)] /\ j = seqs[s].length % PageTokens
  BY DEF StoresAt
<1>3. l \in Layers /\ j \in 0 .. PageTokens - 1
  BY <1>1, <1>2, SeqTypes, PagesForFacts
<1>4. PICK i : i = PageIndex(s)
  OBVIOUS
<1>5. PICK new, nrs : PlacesAs(s, l, P, new, nrs)
  BY <1>2 DEF PlacesAs
<1>6. /\ Accounted(P.free, P.refcount, new, nrs)
      /\ P.pages \in Seq(Pages) /\ i \in 1 .. Len(P.pages) /\ P.refcount[w] = 1
      /\ \A k \in 1 .. Len(seqs[s].pages[l]) :
           k # i => k \in 1 .. Len(P.pages) /\ P.pages[k] = seqs[s].pages[l][k]
  BY <1>1, <1>2, <1>4, <1>5, PlaceOk
<1>7. w \in Pages
  BY <1>2, <1>4, <1>6
<1>8. new = RowSet(PageTables, s, l, P.pages) /\ PageTables \in TableSet /\ PageTables[s] = seqs[s].pages
  BY <1>1, <1>5, SeqTypes DEF PlacesAs, Accounted
<1>9. /\ new[s][l] = P.pages /\ \A u \in SeqIds : u # s => new[u] = PageTables[u]
      /\ \A m \in Layers : m # l => new[s][m] = PageTables[s][m]
  BY <1>3, <1>6, <1>8, RowSetFacts
<1>10. Names(new, s, w)
  BY <1>2, <1>3, <1>4, <1>6, <1>9 DEF Names
<1>11. \A u \in SeqIds : u # s => ~Names(PageTables, u, w)
  <2>1. P.refcount[w] = Cardinality(Naming(new, w))
    BY <1>6, <1>7 DEF Accounted, Located
  <2>2. \A u \in SeqIds : u # s => ~Names(new, u, w)
    BY <1>6, <1>10, <2>1, CountSays
  <2> QED BY <1>9, <2>2 DEF Names
<1>12. \A m \in Layers : \A k \in 1 .. Len(new[s][m]) : new[s][m][k] = w => m = l /\ k = i
  <2>1. NamedOnce(new, s)
    BY <1>6 DEF Accounted
  <2>2. i \in 1 .. Len(new[s][l]) /\ new[s][l][i] = w
    BY <1>2, <1>4, <1>6, <1>9
  <2> QED BY <1>3, <2>1, <2>2 DEF NamedOnce
<1>13. slab \in [Pages -> [0 .. PageTokens - 1 -> Vals \cup {Junk}]]
  BY <1>1 DEF TypeOK
<1>14. PICK C : C = Copied(s)
  OBVIOUS
<1>15. slab' = [C EXCEPT ![w][j] = v]
  BY <1>2, <1>14 DEF PlaceAndStore
<1>16. ASSUME NEW D \in [0 .. PageTokens - 1 -> Vals \cup {Junk}], C = [slab EXCEPT ![w] = D]
       PROVE  /\ slab'[w][j] = v /\ \A p \in Pages : p # w => slab'[p] = slab[p]
              /\ \A y \in 0 .. PageTokens - 1 : y # j => slab'[w][y] = D[y]
  <2>1. C[w] = D /\ \A p \in Pages : p # w => C[p] = slab[p]
    BY <1>7, <1>13, <1>16
  <2>2. slab' = [C EXCEPT ![w] = [C[w] EXCEPT ![j] = v]]
    BY <1>15
  <2>3. slab'[w] = [D EXCEPT ![j] = v] /\ \A p \in Pages : p # w => slab'[p] = C[p]
    BY <1>7, <1>13, <1>16, <2>1, <2>2
  <2> QED BY <1>3, <2>1, <2>3
<1>17. PICK old : old = seqs[s].pages[l][i]
  OBVIOUS
<1>20. ASSUME NEW m \in Layers, m # l, NEW k \in 1 .. Len(seqs[s].pages[m])
       PROVE  seqs[s].pages[m][k] # w
  <2>1. new[s][m] = seqs[s].pages[m]
    BY <1>8, <1>9, <1>20
  <2>2. k \in 1 .. Len(new[s][m])
    BY <2>1
  <2> QED BY <1>12, <1>20, <2>1, <2>2
<1>21. ASSUME NEW k \in 1 .. Len(seqs[s].pages[l]), k # PageIndex(s)
       PROVE  P.pages[k] = seqs[s].pages[l][k] /\ P.pages[k] # w
  <2>1. k # i /\ k \in 1 .. Len(P.pages) /\ P.pages[k] = seqs[s].pages[l][k]
    BY <1>4, <1>6, <1>21
  <2>2. k \in 1 .. Len(new[s][l]) /\ new[s][l][k] = P.pages[k]
    BY <1>9, <2>1
  <2> QED BY <1>3, <1>12, <2>1, <2>2
<1>18. CASE Shared(s, l)
  <2>1. ~Fresh(s, l)
    BY <1>18 DEF Shared
  <2>2. old \in Pages /\ i \in 1 .. Len(seqs[s].pages[l])
    BY <1>1, <1>3, <1>4, <1>17, <2>1, SharedNames
  <2>3. P.pages = [seqs[s].pages[l] EXCEPT ![i] = Reserve(s).reserved[l]]
    BY <1>2, <1>4, <1>18, <2>1 DEF Place
  <2>4. w = Reserve(s).reserved[l]
    <3>1. seqs[s].pages[l] \in Seq(Pages)
      BY <1>1, <1>3, SeqTypes
    <3> QED BY <1>2, <1>4, <2>2, <2>3, <3>1
  <2>5. C = [slab EXCEPT ![w] = slab[old]]
    BY <1>2, <1>4, <1>14, <1>17, <1>18, <2>4 DEF Copied
  <2>6. slab[old] \in [0 .. PageTokens - 1 -> Vals \cup {Junk}]
    BY <1>13, <2>2
  <2>7. /\ slab'[w][j] = v /\ \A p \in Pages : p # w => slab'[p] = slab[p]
        /\ \A y \in 0 .. PageTokens - 1 : y # j => slab'[w][y] = slab[old][y]
    BY <1>16, <2>5, <2>6
  <2> QED BY <1>4, <1>7, <1>11, <1>17, <1>20, <1>21, <2>7
<1>19. CASE ~Shared(s, l)
  <2>1. C = slab
    BY <1>2, <1>14, <1>19 DEF Copied
  <2>2. slab[w] \in [0 .. PageTokens - 1 -> Vals \cup {Junk}] /\ C = [slab EXCEPT ![w] = slab[w]]
    BY <1>7, <1>13, <2>1
  <2>3. /\ slab'[w][j] = v /\ \A p \in Pages : p # w => slab'[p] = slab[p]
        /\ \A y \in 0 .. PageTokens - 1 : y # j => slab'[w][y] = slab[w][y]
    BY <1>16, <2>2
  <2>4. ~Fresh(s, l) => w = old
    <3>1. ~Fresh(s, l) => P.pages = seqs[s].pages[l]
      BY <1>2, <1>19 DEF Place
    <3> QED BY <1>2, <1>4, <1>17, <3>1
  <2> QED BY <1>4, <1>7, <1>11, <1>17, <1>20, <1>21, <2>3, <2>4
<1> QED BY <1>18, <1>19

\* What layer m holds of token t, and of the token that is being appended.
Slot(s, t, m) == slab[seqs[s].pages[m][At(t)]][Off(t)]
Current(s, m) == slab[seqs[s].pages[m][PageIndex(s)]][seqs[s].length % PageTokens]
Settled(s) == \A m \in Layers : m < seqs[s].next_layer => Current(s, m) \in Vals

LEMMA SlotsThere ==
  ASSUME KvInv, NEW s \in SeqIds, NEW t \in 1 .. seqs[s].length, NEW m \in Layers
  PROVE  At(t) \in 1 .. Len(seqs[s].pages[m])
<1>1. TypeOK /\ SeqSound(s)
  BY DEF KvInv
<1>2. PICK n \in 0 .. MaxLength : n = seqs[s].length
  BY <1>1, SeqTypes
<1>3. Len(seqs[s].pages[m]) \in {PagesFor(n), n \div PageTokens + 1}
  BY <1>1, <1>2 DEF SeqSound, TablesFit, PageIndex
<1>4. n \div PageTokens \in Nat /\ PagesFor(n) \in {n \div PageTokens, n \div PageTokens + 1}
  BY PagesForFacts
<1>5. At(t) \in 1 .. PagesFor(n)
  BY <1>2, TokenPlace
<1> QED BY <1>3, <1>4, <1>5

\* A sequence that does not name the one page that changes reads the same.
LEMMA OthersRead ==
  ASSUME KvInv, NEW s \in SeqIds, seqs'[s] = seqs[s],
         NEW w, ~Names(PageTables, s, w), \A p \in Pages : p # w => slab'[p] = slab[p]
  PROVE  Gather(s)' = Gather(s) /\ (Settled(s) => Settled(s)')
<1>1. TypeOK /\ SeqSound(s) /\ PageTables[s] = seqs[s].pages
  BY SeqTypes DEF KvInv
<1>2. \A m \in Layers : \A i \in 1 .. Len(seqs[s].pages[m]) :
         slab'[seqs[s].pages[m][i]] = slab[seqs[s].pages[m][i]]
  BY <1>1, SeqTypes DEF Names
<1>3. \A t \in 1 .. seqs[s].length, m \in Layers : Slot(s, t, m)' = Slot(s, t, m)
  BY <1>2, SlotsThere DEF Slot, At, Off
<1>4. Gather(s) = [t \in 1 .. seqs[s].length |-> [m \in Layers |-> Slot(s, t, m)]]
  BY DEF Gather, Slot, At, Off
<1>5. Gather(s)' = [t \in 1 .. seqs[s].length |-> [m \in Layers |-> Slot(s, t, m)']]
  BY DEF Gather, Slot, At, Off
<1>6. Gather(s)' = Gather(s)
  BY <1>3, <1>4, <1>5
<1>7. ASSUME Settled(s) PROVE Settled(s)'
  <2>1. ASSUME NEW m \in Layers, m < seqs[s].next_layer PROVE Current(s, m)' \in Vals
    <3>1. Len(seqs[s].pages[m]) = PageIndex(s)
      BY <1>1, <2>1 DEF SeqSound, TablesFit
    <3>2. PageIndex(s) \in 1 .. Len(seqs[s].pages[m])
      <4>1. ~Fresh(s, m)
        <5>1. PageIndex(s) \in Nat
          BY <1>1, <3>1, SeqTypes
        <5> QED BY <3>1, <5>1 DEF Fresh
      <4> QED BY <1>1, <4>1, SharedNames
    <3>3. Current(s, m) \in Vals
      BY <1>7, <2>1 DEF Settled
    <3> QED BY <1>2, <3>2, <3>3 DEF Current, PageIndex
  <2> QED BY <2>1 DEF Settled
<1> QED BY <1>6, <1>7

\* A store changes nothing that its own sequence has read, and settles a layer.
LEMMA OwnReads ==
  ASSUME KvInv, NEW s \in SeqIds, NEW v \in Vals \cup {Junk}, PlaceAndStore(s, v),
         NEW l, NEW P, NEW rs, StoresIn(s, l, P, rs)
  PROVE  /\ \A t \in 1 .. seqs[s].length, m \in Layers :
              slab'[seqs'[s].pages[m][At(t)]][Off(t)] = Slot(s, t, m)
         /\ \A m \in Layers : m < l =>
              slab'[seqs'[s].pages[m][PageIndex(s)]][seqs[s].length % PageTokens] = Current(s, m)
         /\ slab'[seqs'[s].pages[l][PageIndex(s)]][seqs[s].length % PageTokens] = v
<1>1. TypeOK /\ SeqSound(s)
  BY DEF KvInv
<1>2. /\ l = seqs[s].next_layer /\ P = Place(s)
      /\ seqs'[s].pages = [seqs[s].pages EXCEPT ![l] = P.pages]
  BY DEF StoresIn
<1>3. l \in Layers /\ l \in Nat /\ seqs[s].pages \in [Layers -> Seq(Pages)]
  BY <1>1, <1>2, SeqTypes
<1>4. /\ seqs'[s].pages[l] = P.pages
      /\ \A m \in Layers : m # l => seqs'[s].pages[m] = seqs[s].pages[m]
  BY <1>2, <1>3
<1>5. PICK w, j, i : StoresAt(s, v, l, P, w, j) /\ i = PageIndex(s)
  BY <1>2 DEF StoresAt
<1>6. w = P.pages[i] /\ j = seqs[s].length % PageTokens
  BY <1>5 DEF StoresAt
<1>7. /\ w \in Pages /\ slab'[w][j] = v
      /\ \A p \in Pages : p # w => slab'[p] = slab[p]
      /\ ~Fresh(s, l) => \A y \in 0 .. PageTokens - 1 :
           y # j => slab'[w][y] = slab[seqs[s].pages[l][i]][y]
      /\ \A m \in Layers : m # l =>
           \A k \in 1 .. Len(seqs[s].pages[m]) : seqs[s].pages[m][k] # w
      /\ \A k \in 1 .. Len(seqs[s].pages[l]) : k # i =>
           P.pages[k] = seqs[s].pages[l][k] /\ P.pages[k] # w
  BY <1>5, StoreSlab
<1>8. \A m \in Layers : \A k \in 1 .. Len(seqs[s].pages[m]) : seqs[s].pages[m][k] \in Pages
  BY <1>1, SeqTypes
<1>9. ASSUME NEW t \in 1 .. seqs[s].length, NEW m \in Layers
      PROVE  slab'[seqs'[s].pages[m][At(t)]][Off(t)] = Slot(s, t, m)
  <2>1. PICK k, y : k = At(t) /\ y = Off(t)
    OBVIOUS
  <2>2. k \in 1 .. Len(seqs[s].pages[m])
    BY <2>1, SlotsThere
  <2>3. Slot(s, t, m) = slab[seqs[s].pages[m][k]][y]
    BY <2>1 DEF Slot
  <2>4. CASE m # l
    <3>1. seqs[s].pages[m][k] \in Pages /\ seqs[s].pages[m][k] # w
      BY <1>7, <1>8, <2>2, <2>4
    <3> QED BY <1>4, <1>7, <2>1, <2>3, <2>4, <3>1
  <2>5. CASE m = l /\ k # i
    <3>1. seqs[s].pages[l][k] \in Pages /\ P.pages[k] = seqs[s].pages[l][k] /\ P.pages[k] # w
      BY <1>7, <1>8, <2>2, <2>5
    <3> QED BY <1>4, <1>7, <2>1, <2>3, <2>5, <3>1
  <2>6. CASE m = l /\ k = i
    <3>1. seqs[s].length \in 0 .. MaxLength
      BY <1>1, SeqTypes
    <3>2. y \in 0 .. PageTokens - 1 /\ ~(k = i /\ y = j)
      BY <1>5, <1>6, <2>1, <3>1, TokenPlace DEF PageIndex
    <3>3. ~Fresh(s, l)
      BY <1>1, <1>3, <1>5, <2>2, <2>6, SeqTypes DEF Fresh
    <3>4. slab'[w][y] = slab[seqs[s].pages[l][i]][y]
      BY <1>7, <2>6, <3>2, <3>3
    <3> QED BY <1>4, <1>6, <2>1, <2>3, <2>6, <3>4
  <2> QED BY <2>4, <2>5, <2>6
<1>10. ASSUME NEW m \in Layers, m < l
       PROVE  slab'[seqs'[s].pages[m][i]][j] = Current(s, m)
  <2>1. m # l
    BY <1>3, <1>10
  <2>2. Len(seqs[s].pages[m]) = PageIndex(s)
    BY <1>1, <1>2, <1>10 DEF SeqSound, TablesFit
  <2>3. ~Fresh(s, m)
    <3>1. PageIndex(s) \in Nat
      BY <1>1, <2>2, SeqTypes
    <3> QED BY <2>2, <3>1 DEF Fresh
  <2>4. i \in 1 .. Len(seqs[s].pages[m])
    BY <1>1, <1>5, <2>3, SharedNames
  <2>5. seqs[s].pages[m][i] \in Pages /\ seqs[s].pages[m][i] # w
    BY <1>7, <1>8, <2>1, <2>4
  <2> QED BY <1>4, <1>5, <1>6, <1>7, <2>1, <2>5 DEF Current
<1> QED BY <1>4, <1>5, <1>6, <1>7, <1>9, <1>10

Token == [Layers -> Vals]

Written(s) == Gather(s) \in [1 .. seqs[s].length -> Token]
CacheInv == KvInv /\ \A s \in SeqIds : Settled(s) /\ Written(s)

LEMMA GatherIs ==
  ASSUME NEW s \in SeqIds
  PROVE  Gather(s) = [t \in 1 .. seqs[s].length |-> [m \in Layers |-> Slot(s, t, m)]]
BY DEF Gather, Slot, At, Off

\* The steps of KvSequences, in terms of Content.
LEMMA IsCreate ==
  ASSUME NEW s \in SeqIds, Content[s] = None, Content' = [Content EXCEPT ![s] = <<>>]
  PROVE  Private!KvNext
BY DEF Content, Private!KvNext, Private!Create, Private!Live

LEMMA IsFork ==
  ASSUME NEW s \in SeqIds, NEW child \in SeqIds, Content[s] # None, Content[child] = None,
         Content' = [Content EXCEPT ![child] = Content[s]]
  PROVE  Private!KvNext
BY DEF Content, Private!KvNext, Private!ForkOf, Private!Live

LEMMA IsDrop ==
  ASSUME NEW s \in SeqIds, Content[s] # None, Content' = [Content EXCEPT ![s] = None]
  PROVE  Private!KvNext
BY DEF Content, Private!KvNext, Private!Drop, Private!Live

LEMMA IsAppend ==
  ASSUME NEW s \in SeqIds, Content[s] # None, NEW tok \in Token,
         Content'[s] = Append(Content[s], tok),
         \A u \in SeqIds : u # s => Content'[u] = Content[u]
  PROVE  Private!KvNext
<1>1. Private!AppendAll
  BY DEF Content, Token, Private!AppendAll, Private!Grown, Private!Live
<1> QED BY <1>1 DEF Private!KvNext

LEMMA ContentIs ==
  ASSUME CacheInv, NEW s \in SeqIds
  PROVE  /\ seqs[s].live => Content[s] = Gather(s) /\ Content[s] # None
         /\ ~seqs[s].live => Content[s] = None
         /\ Gather(s) \in Seq(Token)
<1>1. Gather(s) \in [1 .. seqs[s].length -> Token] /\ seqs[s].length \in Nat
  <2>1. seqs[s].length \in 0 .. MaxLength
    BY SeqTypes DEF CacheInv, KvInv
  <2> QED BY <2>1 DEF CacheInv, Written
<1>2. Gather(s) \in Seq(Token)
  BY <1>1
<1>3. None \notin Seq(Token)
  BY NoneAssumption DEF Token
<1> QED BY <1>2, <1>3 DEF Content

\* Every sequence but s reads as before, and is as settled.
Untouched(s) ==
    \A u \in SeqIds : u # s => seqs'[u] = seqs[u] /\ Gather(u)' = Gather(u) /\ Settled(u)'

LEMMA UntouchedKept ==
  ASSUME CacheInv, NEW s \in SeqIds, Untouched(s), NEW u \in SeqIds, u # s
  PROVE  Settled(u)' /\ Written(u)' /\ Content'[u] = Content[u]
BY DEF Untouched, CacheInv, Written, Content

LEMMA SameSlab ==
  ASSUME CacheInv, slab' = slab, NEW s \in SeqIds, \A u \in SeqIds : u # s => seqs'[u] = seqs[u]
  PROVE  Untouched(s)
<1>1. ASSUME NEW u \in SeqIds, seqs'[u] = seqs[u] PROVE Gather(u)' = Gather(u) /\ Settled(u)'
  <2>1. Gather(u)' = Gather(u)
    BY <1>1 DEF Gather
  <2>2. Settled(u)
    BY DEF CacheInv
  <2>3. Settled(u)'
    BY <1>1, <2>2 DEF Settled, Current, PageIndex
  <2> QED BY <2>1, <2>3
<1> QED BY <1>1 DEF Untouched

LEMMA CreateRefines ==
  ASSUME CacheInv, NEW s \in SeqIds, create_sequence(s)
  PROVE  (\A u \in SeqIds : Settled(u)' /\ Written(u)') /\ Private!KvNext
<1>1. TypeOK /\ SeqSound(s) /\ ~seqs[s].live
  BY DEF CacheInv, KvInv, create_sequence, FirstDead
<1>2. seqs' = [seqs EXCEPT ![s].live = TRUE] /\ slab' = slab /\ seqs \in [SeqIds -> SeqType]
  BY <1>1 DEF create_sequence, TypeOK, SeqType
<1>3. \A u \in SeqIds : u # s => seqs'[u] = seqs[u]
  BY <1>2
<1>4. Untouched(s)
  BY <1>2, <1>3, SameSlab
<1>5. seqs[s] = EmptySeq
  BY <1>1 DEF SeqSound
<1>6. seqs'[s] = [EmptySeq EXCEPT !.live = TRUE]
  BY <1>2, <1>5
<1>7. seqs'[s].live /\ seqs'[s].length = 0 /\ seqs'[s].next_layer = 0
  BY <1>6, EmptySeqIs DEF SeqType
<1>8. Gather(s)' = <<>> /\ Written(s)'
  <2>1. Gather(s)' = [t \in 1 .. 0 |-> [m \in Layers |-> Slot(s, t, m)']]
    BY <1>7 DEF Gather, Slot, At, Off
  <2>2. [t \in 1 .. 0 |-> [m \in Layers |-> Slot(s, t, m)']] = <<>>
    OBVIOUS
  <2>3. Gather(s)' \in [1 .. 0 -> Token]
    BY <2>1
  <2> QED BY <1>7, <2>1, <2>2, <2>3 DEF Written
<1>9. Settled(s)'
  <2>1. \A m \in Layers : m \in Nat
    BY ConstantsAre
  <2> QED BY <1>7, <2>1 DEF Settled
<1>10. \A u \in SeqIds : Settled(u)' /\ Written(u)'
  BY <1>4, <1>8, <1>9, UntouchedKept
<1>11. Content[s] = None /\ Content'[s] = <<>>
  BY <1>1, <1>7, <1>8 DEF Content
<1>12. Content' = [Content EXCEPT ![s] = <<>>]
  <2>1. \A u \in SeqIds : u # s => Content'[u] = Content[u]
    BY <1>4, UntouchedKept
  <2>2. Content' = [u \in SeqIds |-> Content'[u]] /\ Content = [u \in SeqIds |-> Content[u]]
    BY DEF Content
  <2> QED BY <1>11, <2>1, <2>2
<1> QED BY <1>10, <1>11, <1>12, IsCreate

LEMMA ForkRefines ==
  ASSUME CacheInv, NEW s \in SeqIds, NEW child \in SeqIds, fork_sequence(s, child)
  PROVE  (\A u \in SeqIds : Settled(u)' /\ Written(u)') /\ Private!KvNext
<1>1. TypeOK /\ SeqSound(child) /\ ~seqs[child].live /\ seqs[s].live
  BY DEF CacheInv, KvInv, fork_sequence, FirstDead
<1>2. /\ seqs' = [seqs EXCEPT ![child] = [EmptySeq EXCEPT !.live = TRUE, !.length = seqs[s].length,
                                                          !.pages = seqs[s].pages]]
      /\ slab' = slab /\ seqs \in [SeqIds -> SeqType]
  BY <1>1 DEF fork_sequence, TypeOK, SeqType
<1>3. PICK c : c = [EmptySeq EXCEPT !.live = TRUE, !.length = seqs[s].length, !.pages = seqs[s].pages]
  OBVIOUS
<1>4. /\ seqs'[child] = c /\ c.live /\ c.length = seqs[s].length /\ c.pages = seqs[s].pages
      /\ c.next_layer = 0
      /\ \A u \in SeqIds : u # child => seqs'[u] = seqs[u]
  BY <1>2, <1>3, EmptySeqIs DEF SeqType
<1>5. Untouched(child)
  BY <1>2, <1>4, SameSlab
<1>6. Gather(child)' = Gather(s)
  BY <1>2, <1>4 DEF Gather
<1>7. Written(child)'
  BY <1>4, <1>6 DEF CacheInv, Written
<1>8. Settled(child)'
  <2>1. \A m \in Layers : m \in Nat
    BY ConstantsAre
  <2> QED BY <1>4, <2>1 DEF Settled
<1>9. \A u \in SeqIds : Settled(u)' /\ Written(u)'
  BY <1>5, <1>7, <1>8, UntouchedKept
<1>10. Content[child] = None /\ Content[s] # None /\ Content'[child] = Content[s]
  <2>1. Content[child] = None /\ Content[s] # None /\ Content[s] = Gather(s)
    BY <1>1, ContentIs
  <2> QED BY <1>4, <1>6, <2>1 DEF Content
<1>11. Content' = [Content EXCEPT ![child] = Content[s]]
  <2>1. \A u \in SeqIds : u # child => Content'[u] = Content[u]
    BY <1>5, UntouchedKept
  <2>2. Content' = [u \in SeqIds |-> Content'[u]] /\ Content = [u \in SeqIds |-> Content[u]]
    BY DEF Content
  <2> QED BY <1>10, <2>1, <2>2
<1> QED BY <1>9, <1>10, <1>11, IsFork

LEMMA FreeRefines ==
  ASSUME CacheInv, NEW s \in SeqIds, free_sequence(s)
  PROVE  (\A u \in SeqIds : Settled(u)' /\ Written(u)') /\ Private!KvNext
<1>1. TypeOK /\ seqs[s].live
  BY DEF CacheInv, KvInv, free_sequence
<1>2. seqs' = [seqs EXCEPT ![s] = EmptySeq] /\ slab' = slab /\ seqs \in [SeqIds -> SeqType]
  BY <1>1 DEF free_sequence, TypeOK, SeqType
<1>3. seqs'[s] = EmptySeq /\ \A u \in SeqIds : u # s => seqs'[u] = seqs[u]
  BY <1>2
<1>4. Untouched(s)
  BY <1>2, <1>3, SameSlab
<1>5. Written(s)'
  <2>1. Gather(s)' = [t \in 1 .. 0 |-> [m \in Layers |-> Slot(s, t, m)']]
    BY <1>3, EmptySeqIs DEF Gather, Slot, At, Off
  <2>2. Gather(s)' \in [1 .. 0 -> Token]
    BY <2>1
  <2> QED BY <1>3, <2>2, EmptySeqIs DEF Written
<1>6. Settled(s)'
  <2>1. \A m \in Layers : m \in Nat
    BY ConstantsAre
  <2> QED BY <1>3, <2>1, EmptySeqIs DEF Settled
<1>7. \A u \in SeqIds : Settled(u)' /\ Written(u)'
  BY <1>4, <1>5, <1>6, UntouchedKept
<1>8. Content[s] # None /\ Content'[s] = None
  <2>1. Content[s] # None
    BY <1>1, ContentIs
  <2> QED BY <1>3, <2>1, EmptySeqIs DEF Content
<1>9. Content' = [Content EXCEPT ![s] = None]
  <2>1. \A u \in SeqIds : u # s => Content'[u] = Content[u]
    BY <1>4, UntouchedKept
  <2>2. Content' = [u \in SeqIds |-> Content'[u]] /\ Content = [u \in SeqIds |-> Content[u]]
    BY DEF Content
  <2> QED BY <1>8, <2>1, <2>2
<1> QED BY <1>7, <1>8, <1>9, IsDrop

\* A store is invisible to the other sequences.
LEMMA StoreUnseen ==
  ASSUME CacheInv, NEW s \in SeqIds, NEW v \in Vals \cup {Junk}, PlaceAndStore(s, v),
         NEW l, NEW P, NEW rs, StoresIn(s, l, P, rs)
  PROVE  Untouched(s)
<1>1. KvInv
  BY DEF CacheInv
<1>2. PICK w, j : StoresAt(s, v, l, P, w, j)
  BY DEF StoresAt, StoresIn
<1>3. /\ \A p \in Pages : p # w => slab'[p] = slab[p]
      /\ \A u \in SeqIds : u # s => ~Names(PageTables, u, w)
  BY <1>1, <1>2, StoreSlab
<1>4. ASSUME NEW u \in SeqIds, u # s
      PROVE  seqs'[u] = seqs[u] /\ Gather(u)' = Gather(u) /\ Settled(u)'
  <2>1. seqs'[u] = seqs[u]
    BY <1>4 DEF StoresIn
  <2>2. ~Names(PageTables, u, w)
    BY <1>3, <1>4
  <2>3. Settled(u)
    BY DEF CacheInv
  <2> QED BY <1>1, <1>3, <2>1, <2>2, <2>3, OthersRead
<1> QED BY <1>4 DEF Untouched

\* A store that does not complete the token is invisible altogether.
LEMMA StoreKeeps ==
  ASSUME CacheInv, NEW s \in SeqIds, NEW v \in Vals \cup {Junk}, PlaceAndStore(s, v),
         NEW l, NEW P, NEW rs, StoresIn(s, l, P, rs), seqs'[s].length = seqs[s].length,
         \/ seqs'[s].next_layer = l
         \/ seqs'[s].next_layer = l + 1 /\ v \in Vals
  PROVE  (\A u \in SeqIds : Settled(u)' /\ Written(u)') /\ Content' = Content
<1>1. KvInv /\ TypeOK /\ Settled(s) /\ Written(s)
  BY DEF CacheInv, KvInv
<1>2. /\ \A t \in 1 .. seqs[s].length, m \in Layers :
           slab'[seqs'[s].pages[m][At(t)]][Off(t)] = Slot(s, t, m)
      /\ \A m \in Layers : m < l =>
           slab'[seqs'[s].pages[m][PageIndex(s)]][seqs[s].length % PageTokens] = Current(s, m)
      /\ slab'[seqs'[s].pages[l][PageIndex(s)]][seqs[s].length % PageTokens] = v
  BY <1>1, OwnReads
<1>3. /\ l = seqs[s].next_layer /\ l \in Nat /\ seqs'[s].live /\ seqs[s].live
      /\ \A m \in Layers : m \in Nat
  <2>1. l = seqs[s].next_layer /\ seqs'[s].live
    BY DEF StoresIn
  <2>2. seqs[s].live
    BY DEF PlaceAndStore, Appendable
  <2>3. seqs[s].next_layer \in Nat
    BY <1>1, SeqTypes
  <2> QED BY <2>1, <2>2, <2>3, ConstantsAre
<1>4. Gather(s)' = Gather(s)
  <2>1. Gather(s)' = [t \in 1 .. seqs[s].length |->
                        [m \in Layers |-> slab'[seqs'[s].pages[m][At(t)]][Off(t)]]]
    BY DEF Gather, At, Off
  <2> QED BY <1>2, <2>1, GatherIs
<1>5. Written(s)'
  BY <1>1, <1>4 DEF Written
<1>6. Settled(s)'
  <2>1. \A m \in Layers : m < l => Current(s, m) \in Vals
    BY <1>1, <1>3 DEF Settled
  <2>2. \A m \in Layers :
           Current(s, m)' = slab'[seqs'[s].pages[m][PageIndex(s)]][seqs[s].length % PageTokens]
    BY DEF Current, PageIndex
  <2>3. ASSUME NEW m \in Layers, m < seqs'[s].next_layer PROVE Current(s, m)' \in Vals
    <3>1. CASE m < l
      BY <1>2, <2>1, <2>2, <3>1
    <3>2. CASE m = l /\ v \in Vals
      BY <1>2, <2>2, <3>2
    <3> QED BY <1>3, <2>3, <3>1, <3>2
  <2> QED BY <2>3 DEF Settled
<1>7. Untouched(s)
  BY StoreUnseen
<1>8. \A u \in SeqIds : Settled(u)' /\ Written(u)'
  BY <1>5, <1>6, <1>7, UntouchedKept
<1>9. \A u \in SeqIds : Content'[u] = Content[u]
  <2>1. Content'[s] = Content[s]
    BY <1>3, <1>4 DEF Content
  <2> QED BY <1>7, <2>1, UntouchedKept
<1>10. Content' = [u \in SeqIds |-> Content'[u]] /\ Content = [u \in SeqIds |-> Content[u]]
  BY DEF Content
<1> QED BY <1>8, <1>9, <1>10

LEMMA SeqIsFunction ==
  ASSUME NEW T, NEW h \in Seq(T) PROVE h \in [1 .. Len(h) -> T]
OBVIOUS

ListOf(g, n, T) == n \in Nat /\ g \in [1 .. n -> T]
OneMore(g, n, x) == [t \in 1 .. n + 1 |-> IF t = n + 1 THEN x ELSE g[t]]

LEMMA OneLonger ==
  ASSUME NEW T, NEW n, NEW g, ListOf(g, n, T), NEW x \in T
  PROVE  /\ Append(g, x) = OneMore(g, n, x)
         /\ ListOf(Append(g, x), n + 1, T)
<1>1. g \in Seq(T) /\ Len(g) = n /\ n \in Nat
  BY DEF ListOf
<1>2. Append(g, x) \in Seq(T) /\ Len(Append(g, x)) = n + 1
  BY <1>1
<1>3. \A t \in 1 .. n + 1 : Append(g, x)[t] = IF t = n + 1 THEN x ELSE g[t]
  BY <1>1
<1>4. Append(g, x) = [t \in 1 .. n + 1 |-> Append(g, x)[t]]
  <2>1. PICK h : h = Append(g, x) /\ h \in Seq(T) /\ Len(h) = n + 1
    BY <1>2
  <2>2. h \in [1 .. n + 1 -> T]
    BY <2>1, SeqIsFunction
  <2>3. h = [t \in 1 .. n + 1 |-> h[t]]
    BY <2>2
  <2> QED BY <2>1, <2>3
<1>5. Append(g, x) = [t \in 1 .. n + 1 |-> IF t = n + 1 THEN x ELSE g[t]]
  BY <1>3, <1>4
<1>6. Append(g, x) \in [1 .. n + 1 -> T]
  BY <1>5 DEF ListOf
<1> QED BY <1>1, <1>5, <1>6 DEF OneMore, ListOf

\* The store of the last layer appends the token to what its sequence reads.
LEMMA StoreCompletes ==
  ASSUME CacheInv, NEW s \in SeqIds, NEW v \in Vals, PlaceAndStore(s, v),
         NEW l, NEW P, NEW rs, StoresIn(s, l, P, rs), l = NLayers - 1,
         seqs'[s].next_layer = 0, seqs'[s].length = seqs[s].length + 1
  PROVE  (\A u \in SeqIds : Settled(u)' /\ Written(u)') /\ Private!KvNext
<1>1. KvInv /\ TypeOK /\ Settled(s) /\ Written(s) /\ v \in Vals \cup {Junk}
  BY DEF CacheInv, KvInv
<1>2. /\ \A t \in 1 .. seqs[s].length, m \in Layers :
           slab'[seqs'[s].pages[m][At(t)]][Off(t)] = Slot(s, t, m)
      /\ \A m \in Layers : m < l =>
           slab'[seqs'[s].pages[m][PageIndex(s)]][seqs[s].length % PageTokens] = Current(s, m)
      /\ slab'[seqs'[s].pages[l][PageIndex(s)]][seqs[s].length % PageTokens] = v
  BY <1>1, OwnReads
<1>3. /\ l = seqs[s].next_layer /\ l \in Nat /\ seqs'[s].live /\ seqs[s].live
      /\ \A m \in Layers : m \in Nat /\ (m < l \/ m = l)
  <2>1. l = seqs[s].next_layer /\ seqs'[s].live
    BY DEF StoresIn
  <2>2. seqs[s].live
    BY DEF PlaceAndStore, Appendable
  <2>3. seqs[s].next_layer \in Nat
    BY <1>1, SeqTypes
  <2> QED BY <2>1, <2>2, <2>3, ConstantsAre DEF Layers
<1>4. PICK n \in Nat : n = seqs[s].length
  <2>1. seqs[s].length \in 0 .. MaxLength
    BY <1>1, SeqTypes
  <2> QED BY <2>1
<1>5. PICK tok : tok = [m \in Layers |-> IF m = l THEN v ELSE Current(s, m)]
  OBVIOUS
<1>6. tok \in Token
  <2>1. \A m \in Layers : m < l => Current(s, m) \in Vals
    BY <1>1, <1>3 DEF Settled
  <2> QED BY <1>3, <1>5, <2>1 DEF Token
<1>7. /\ At(n + 1) = PageIndex(s) /\ Off(n + 1) = seqs[s].length % PageTokens
  BY <1>4 DEF At, Off, PageIndex
<1>8. Gather(s)' = Append(Gather(s), tok)
  <2>1. Gather(s)' = [t \in 1 .. n + 1 |->
                        [m \in Layers |-> slab'[seqs'[s].pages[m][At(t)]][Off(t)]]]
    BY <1>4 DEF Gather, At, Off
  <2>2. PICK g, h : g = Gather(s) /\ h = Gather(s)'
    OBVIOUS
  <2>3. g = [t \in 1 .. n |-> [m \in Layers |-> Slot(s, t, m)]]
    BY <1>4, <2>2, GatherIs
  <2>4. \A t \in 1 .. n : h[t] = g[t]
    <3>1. ASSUME NEW t \in 1 .. n PROVE h[t] = g[t]
      <4>1. h[t] = [m \in Layers |-> slab'[seqs'[s].pages[m][At(t)]][Off(t)]]
        BY <2>1, <2>2, <3>1
      <4>2. g[t] = [m \in Layers |-> Slot(s, t, m)]
        BY <2>3
      <4> QED BY <1>2, <1>4, <4>1, <4>2
    <3> QED BY <3>1
  <2>5. h[n + 1] = tok
    <3>1. \A m \in Layers : slab'[seqs'[s].pages[m][At(n + 1)]][Off(n + 1)] = tok[m]
      BY <1>2, <1>3, <1>5, <1>7
    <3>2. h[n + 1] = [m \in Layers |-> slab'[seqs'[s].pages[m][At(n + 1)]][Off(n + 1)]]
      BY <2>1, <2>2
    <3>3. tok = [m \in Layers |-> tok[m]]
      BY <1>5
    <3> QED BY <3>1, <3>2, <3>3
  <2>6. g \in Seq(Token)
    BY <2>2, ContentIs
  <2>7. Len(g) = n /\ h = [t \in 1 .. n + 1 |-> h[t]]
    BY <2>1, <2>2, <2>3, <2>6
  <2>8. Append(g, tok) = OneMore(g, n, tok)
    <3>1. ListOf(g, n, Token)
      BY <2>6, <2>7 DEF ListOf
    <3> QED BY <1>6, <3>1, OneLonger
  <2>9. h = Append(g, tok)
    <3>1. \A t \in 1 .. n + 1 : h[t] = OneMore(g, n, tok)[t]
      BY <2>4, <2>5 DEF OneMore
    <3>2. OneMore(g, n, tok) = [t \in 1 .. n + 1 |-> OneMore(g, n, tok)[t]]
      BY DEF OneMore
    <3>3. h = OneMore(g, n, tok)
      BY <2>7, <3>1, <3>2
    <3> QED BY <2>8, <3>3
  <2> QED BY <2>2, <2>9
<1>9. Written(s)'
  <2>1. PICK g : g = Gather(s) /\ g \in [1 .. n -> Token]
    BY <1>1, <1>4 DEF Written
  <2>2. Append(g, tok) \in [1 .. n + 1 -> Token]
    <3>1. ListOf(g, n, Token)
      BY <2>1 DEF ListOf
    <3> QED BY <1>6, <3>1, OneLonger DEF ListOf
  <2> QED BY <1>4, <1>8, <2>1, <2>2 DEF Written
<1>10. Settled(s)'
  BY <1>3 DEF Settled
<1>11. Untouched(s)
  BY <1>1, StoreUnseen
<1>12. \A u \in SeqIds : Settled(u)' /\ Written(u)'
  BY <1>9, <1>10, <1>11, UntouchedKept
<1>13. Content[s] # None /\ Content[s] = Gather(s) /\ Content'[s] = Gather(s)'
  BY <1>3, ContentIs DEF Content
<1>14. \A u \in SeqIds : u # s => Content'[u] = Content[u]
  BY <1>11, UntouchedKept
<1> QED BY <1>6, <1>8, <1>12, <1>13, <1>14, IsAppend

LEMMA AppendRefines ==
  ASSUME CacheInv, NEW s \in SeqIds, NEW v \in Vals, append(s, v)
  PROVE  /\ \A u \in SeqIds : Settled(u)' /\ Written(u)'
         /\ Content' = Content \/ Private!KvNext
<1>1. KvInv
  BY DEF CacheInv
<1>2. PICK l, P, rs : AppendsAs(s, l, P, rs)
  BY <1>1, AppendIs
<1>3. StoresIn(s, l, P, rs) /\ PlaceAndStore(s, v) /\ v \in Vals \cup {Junk}
  BY <1>2 DEF AppendsAs, append
<1>4. CASE seqs'[s].next_layer = l + 1 /\ seqs'[s].length = seqs[s].length
  BY <1>3, <1>4, StoreKeeps
<1>5. CASE l = NLayers - 1 /\ seqs'[s].next_layer = 0 /\ seqs'[s].length = seqs[s].length + 1
  BY <1>3, <1>5, StoreCompletes
<1> QED BY <1>2, <1>4, <1>5 DEF AppendsAs

LEMMA WriteFailsRefines ==
  ASSUME 0 \notin FaultLayers, CacheInv, NEW s \in SeqIds, WriteFails(s)
  PROVE  (\A u \in SeqIds : Settled(u)' /\ Written(u)') /\ Content' = Content
<1>1. KvInv
  BY DEF CacheInv
<1>2. PICK l, P, rs : /\ StoresIn(s, l, P, rs)
                      /\ seqs'[s].next_layer = l /\ seqs'[s].length = seqs[s].length
  BY <1>1, WriteFailsIs
<1>3. PlaceAndStore(s, Junk) /\ Junk \in Vals \cup {Junk}
  BY DEF WriteFails
<1> QED BY <1>2, <1>3, StoreKeeps

LEMMA NothingRefines ==
  ASSUME CacheInv, vars' = vars
  PROVE  (\A u \in SeqIds : Settled(u)' /\ Written(u)') /\ Content' = Content
<1>1. seqs' = seqs /\ slab' = slab
  BY DEF vars
<1>2. \A u \in SeqIds : Settled(u) /\ Written(u)
  BY DEF CacheInv
<1>3. \A u \in SeqIds : Gather(u)' = Gather(u) /\ (Settled(u)' <=> Settled(u))
  BY <1>1 DEF Gather, Settled, Current, PageIndex
<1> QED BY <1>1, <1>2, <1>3 DEF Written, Content

\* Paging, sharing, copying and failing copies are invisible: a sequence reads back
\* the tokens appended to it and to the sequence it was forked from, complete
\* tokens only, and no call for another sequence changes them.
THEOREM CacheKeepsSequencesPrivate ==
  ASSUME 0 \notin FaultLayers PROVE Spec => PrivateSequences
<1>1. Init => CacheInv /\ Private!KvInit
  <2> SUFFICES ASSUME Init PROVE CacheInv /\ Private!KvInit
    OBVIOUS
  <2>1. KvInv /\ seqs = [s \in SeqIds |-> EmptySeq]
    BY KvStart DEF Init
  <2>2. \A s \in SeqIds : seqs[s] = EmptySeq
    BY <2>1
  <2>3. ASSUME NEW s \in SeqIds PROVE Settled(s) /\ Written(s)
    <3>1. Gather(s) \in [1 .. 0 -> Token]
      <4>1. Gather(s) = [t \in 1 .. 0 |-> [m \in Layers |-> Slot(s, t, m)]]
        BY <2>2, EmptySeqIs DEF Gather, Slot, At, Off
      <4> QED BY <4>1
    <3>2. \A m \in Layers : m \in Nat
      BY ConstantsAre
    <3> QED BY <2>2, <3>1, <3>2, EmptySeqIs DEF Written, Settled
  <2>4. Private!KvInit
    BY <2>2, EmptySeqIs DEF Private!KvInit, Content
  <2> QED BY <2>1, <2>3, <2>4 DEF CacheInv
<1>2. CacheInv /\ KvInv' /\ [Next]_vars => CacheInv' /\ [Private!KvNext]_Content
  <2> SUFFICES ASSUME CacheInv, KvInv', [Next]_vars
               PROVE  /\ \A u \in SeqIds : Settled(u)' /\ Written(u)'
                      /\ Private!KvNext \/ Content' = Content
    BY DEF CacheInv
  <2>1. CASE UNCHANGED vars
    BY <2>1, NothingRefines
  <2>2. CASE Next
    <3>1. PICK s \in SeqIds : \/ create_sequence(s)
                              \/ \E child \in SeqIds : fork_sequence(s, child)
                              \/ free_sequence(s)
                              \/ \E v \in Vals : append(s, v)
                              \/ CopyFails(s)
                              \/ WriteFails(s)
      BY <2>2 DEF Next
    <3>2. CASE CopyFails(s)
      <4>1. vars' = vars
        BY <3>2, CopyFailsStep DEF CacheInv
      <4> QED BY <4>1, NothingRefines
    <3> QED BY <3>1, <3>2, CreateRefines, ForkRefines, FreeRefines, AppendRefines, WriteFailsRefines
  <2> QED BY <2>1, <2>2
<1>3. Spec => []CacheInv
  BY <1>1, <1>2, CacheSound, PTL DEF Spec
<1> QED BY <1>1, <1>2, <1>3, CacheSound, PTL DEF Spec, PrivateSequences, Private!KvSpec

=============================================================================
