----------------------------- MODULE BpeProofs -----------------------------
(***************************************************************************)
(* The tokenizer of 19-llm-engine, for every merge list, vocabulary and    *)
(* text: the priority queue with its stale entries gives the tokens that a *)
(* search for the best pair after every merge gives, and decode() gives a  *)
(* text without control tokens back.                                       *)
(*                                                                         *)
(* The symbols that live cut the segment into pieces.  Every pair of       *)
(* neighbours that may be merged waits in the queue, and what waits there  *)
(* has the key of the pair it was recorded for; so an entry that comes up  *)
(* and is not stale names the best pair there is.                          *)
(***************************************************************************)
EXTENDS BpeMerge, CountingLemmas, SequenceTheorems

-----------------------------------------------------------------------------
(***************************************************************************)
(* Sequences of sequences, joined.  Rows hides that the parts are          *)
(* sequences where only their concatenation matters.                       *)
(***************************************************************************)
Rows(X) == Seq(X)
Joins(q, f, X) ==
    /\ f \in [0 .. Len(q) -> Rows(X)] /\ f[0] = <<>>
    /\ \A i \in 1 .. Len(q) : f[i] = f[i - 1] \o q[i]

LEMMA LenNat == ASSUME NEW X, NEW q \in Seq(X) PROVE Len(q) \in Nat
OBVIOUS

Agree(q, p, n) == n <= Len(q) /\ n <= Len(p) /\ \A i \in 1 .. n : q[i] = p[i]

LEMMA Associative ==
  ASSUME NEW S, NEW s \in Seq(S), NEW t \in Seq(S), NEW u \in Seq(S)
  PROVE  (s \o t) \o u = s \o (t \o u)
BY ConcatAssociative

LEMMA ConcatAppend ==
  ASSUME NEW S, NEW a \in Seq(S), NEW c \in Seq(S), NEW x \in S
  PROVE  a \o c \in Seq(S) /\ a \o Append(c, x) = Append(a \o c, x)
<1>1. Append(c, x) = c \o <<x>> /\ a \o c \in Seq(S) /\ <<x>> \in Seq(S)
  BY AppendIsConcat, ConcatProperties
<1>2. Append(a \o c, x) = (a \o c) \o <<x>>
  BY <1>1, AppendIsConcat
<1>3. (a \o c) \o <<x>> = a \o (c \o <<x>>)
  BY <1>1, Associative
<1> QED BY <1>1, <1>2, <1>3

LEMMA RowsConcat ==
  ASSUME NEW X, NEW s \in Rows(X), NEW t \in Rows(X)
  PROVE  s \o t \in Rows(X) /\ <<>> \in Rows(X) /\ <<>> \o s = s /\ s \o <<>> = s
BY ConcatProperties, ConcatEmptySeq DEF Rows

LEMMA RowsRegroup ==
  ASSUME NEW X, NEW s \in Rows(X), NEW t \in Rows(X), NEW u \in Rows(X)
  PROVE  (s \o t) \o u = s \o (t \o u)
BY Associative DEF Rows

LEMMA JoinsExist ==
  ASSUME NEW X, NEW q \in Seq(Rows(X))
  PROVE  \E f : Joins(q, f, X)
<1> PICK n \in Nat : n = Len(q)
  BY LenNat
<1> DEFINE S == Rows(X)
           step == [i \in 1 .. n |-> [s \in S |-> s \o q[i]]]
<1>1. step \in Steps(S, n)
  <2>1. ASSUME NEW i \in 1 .. n, NEW s \in S PROVE s \o q[i] \in S
    <3>1. q[i] \in Rows(X)
      BY ElementOfSeq
    <3> QED BY <3>1, RowsConcat
  <2> QED BY <2>1 DEF Steps
<1>2. <<>> \in S
  BY DEF Rows
<1>3. \A i \in 1 .. n : \A s \in S : step[i][s] = s \o q[i]
  OBVIOUS
<1> HIDE DEF step, S
<1>4. PICK f \in Runs(S, <<>>, n, step) : TRUE
  BY <1>1, <1>2, LoopExists
<1>5. f \in [0 .. n -> S] /\ f[0] = <<>> /\ \A i \in 1 .. n : f[i] = step[i][f[i - 1]]
  BY <1>4 DEF Runs
<1>6. ASSUME NEW i \in 1 .. n PROVE f[i] = f[i - 1] \o q[i]
  <2>1. i - 1 \in 0 .. n
    OBVIOUS
  <2>2. f[i - 1] \in S
    BY <1>5, <2>1
  <2> QED BY <1>3, <1>5, <2>2
<1>7. Joins(q, f, X)
  BY <1>5, <1>6 DEF Joins, S
<1> QED BY <1>7

LEMMA JoinsSame ==
  ASSUME NEW X, NEW q, NEW p, NEW f, NEW g, NEW n \in Nat, Len(q) \in Nat, Len(p) \in Nat,
         Agree(q, p, n), Joins(q, f, X), Joins(p, g, X)
  PROVE  f[n] = g[n]
<1> DEFINE Good == {i \in 0 .. n : f[i] = g[i]}
<1>1. 0 \in Good
  BY DEF Joins
<1>2. ASSUME NEW k \in 0 .. n - 1, k \in Good PROVE k + 1 \in Good
  <2>1. k + 1 \in 1 .. n /\ k + 1 \in 0 .. n /\ k + 1 \in 1 .. Len(q) /\ k + 1 \in 1 .. Len(p) /\ (k + 1) - 1 = k
    BY DEF Agree
  <2>2. f[k + 1] = f[k] \o q[k + 1] /\ g[k + 1] = g[k] \o p[k + 1]
    BY <2>1 DEF Joins
  <2>3. q[k + 1] = p[k + 1]
    BY <2>1 DEF Agree
  <2> QED BY <1>2, <2>1, <2>2, <2>3
<1> HIDE DEF Good
<1>3. 0 .. n \subseteq Good
  BY <1>1, <1>2, NoCounterexample
<1> QED BY <1>3 DEF Good

\* FlattenSeq is what the joining ends with.
LEMMA FlattenIs ==
  ASSUME NEW X, NEW q \in Seq(Rows(X)), NEW f, Joins(q, f, X)
  PROVE  FlattenSeq(q) = f[Len(q)]
<1> PICK n \in Nat : n = Len(q)
  BY LenNat
<1>1. CASE n = 0
  <2>1. q = <<>>
    BY <1>1, EmptySeq
  <2> QED BY <1>1, <2>1 DEF FlattenSeq, Joins
<1>2. CASE n # 0
  <2> DEFINE Body(h) == [i \in 1 .. n |-> IF i = 1 THEN q[i] ELSE h[i - 1] \o q[i]]
  <2>1. FlattenSeq(q) = (CHOOSE h : h = Body(h))[n]
    BY <1>2 DEF FlattenSeq
  <2>2. \E h : h = Body(h)
    <3> DEFINE h == [i \in 1 .. n |-> f[i]]
    <3>1. ASSUME NEW i \in 1 .. n PROVE h[i] = IF i = 1 THEN q[i] ELSE h[i - 1] \o q[i]
      <4>1. f[i] = f[i - 1] \o q[i]
        BY DEF Joins
      <4>2. CASE i = 1
        <5>1. f[0] = <<>> /\ q[i] \in Rows(X)
          BY ElementOfSeq DEF Joins
        <5>2. <<>> \o q[i] = q[i]
          BY <5>1, RowsConcat
        <5>3. i - 1 = 0
          BY <4>2
        <5>4. f[i] = q[i]
          BY <4>1, <5>1, <5>2, <5>3
        <5> QED BY <4>2, <5>4
      <4>3. CASE i # 1
        <5>1. i - 1 \in 1 .. n
          BY <4>3
        <5> QED BY <4>1, <4>3, <5>1
      <4> QED BY <4>2, <4>3
    <3>2. h = Body(h)
      BY <3>1
    <3> QED BY <3>2
  <2> PICK g : g = CHOOSE h : h = Body(h)
    OBVIOUS
  <2>3. g = Body(g)
    BY <2>2
  <2>4. \A i \in 1 .. n : g[i] = IF i = 1 THEN q[i] ELSE g[i - 1] \o q[i]
    BY <2>3
  <2> DEFINE Good == {i \in 0 .. n - 1 : g[i + 1] = f[i + 1]}
  <2>5. 0 \in Good
    <3>1. 1 \in 1 .. n /\ 0 \in 0 .. n - 1
      BY <1>2
    <3>2. f[1] = f[1 - 1] \o q[1] /\ f[0] = <<>> /\ q[1] \in Rows(X)
      BY <3>1, ElementOfSeq DEF Joins
    <3>3. <<>> \o q[1] = q[1]
      BY <3>2, RowsConcat
    <3>4. g[1] = q[1]
      BY <2>4, <3>1
    <3>5. 1 - 1 = 0 /\ 0 + 1 = 1
      OBVIOUS
    <3>6. f[1] = q[1]
      BY <3>2, <3>3, <3>5
    <3>7. g[0 + 1] = f[0 + 1]
      BY <3>4, <3>5, <3>6
    <3> QED BY <3>1, <3>7
  <2>6. ASSUME NEW k \in 0 .. (n - 1) - 1, k \in Good PROVE k + 1 \in Good
    <3>1. k + 2 \in 1 .. n /\ (k + 2) - 1 = k + 1 /\ k + 2 # 1 /\ (k + 1) + 1 = k + 2 /\ k + 1 \in 0 .. n - 1
      OBVIOUS
    <3>2. f[k + 2] = f[(k + 2) - 1] \o q[k + 2] /\ g[k + 2] = g[(k + 2) - 1] \o q[k + 2]
      BY <2>4, <3>1 DEF Joins
    <3> QED BY <2>6, <3>1, <3>2
  <2>7. g[n] = f[n]
    <3> HIDE DEF Good
    <3>1. n - 1 \in Nat
      BY <1>2
    <3>2. 0 .. n - 1 \subseteq Good
      BY <2>5, <2>6, <3>1, NoCounterexample
    <3>3. n - 1 \in Good /\ (n - 1) + 1 = n
      BY <3>1, <3>2
    <3> QED BY <3>3 DEF Good
  <2> QED BY <2>1, <2>7
<1> QED BY <1>1, <1>2

LEMMA FlattenType == ASSUME NEW X, NEW q \in Seq(Rows(X)) PROVE FlattenSeq(q) \in Rows(X)
<1>1. PICK f : Joins(q, f, X)
  BY JoinsExist
<1>2. Len(q) \in 0 .. Len(q)
  BY LenNat
<1>3. FlattenSeq(q) = f[Len(q)]
  BY <1>1, FlattenIs
<1> QED BY <1>1, <1>2, <1>3 DEF Joins

LEMMA FlattenEmpty == FlattenSeq(<<>>) = <<>>
BY DEF FlattenSeq

LEMMA FlattenAppend ==
  ASSUME NEW X, NEW q \in Seq(Rows(X)), NEW x \in Rows(X)
  PROVE  FlattenSeq(Append(q, x)) = FlattenSeq(q) \o x
<1> PICK n \in Nat : n = Len(q)
  BY LenNat
<1> PICK p : p = Append(q, x)
  OBVIOUS
<1>1. /\ p \in Seq(Rows(X)) /\ Len(p) = n + 1 /\ p[n + 1] = x
      /\ \A i \in 1 .. n : p[i] = q[i]
  BY AppendProperties
<1>2. PICK f : Joins(q, f, X)
  BY JoinsExist
<1>3. PICK g : Joins(p, g, X)
  BY <1>1, JoinsExist
<1>4. Agree(q, p, n)
  BY <1>1 DEF Agree
<1>5. f[n] = g[n]
  <2>1. Len(q) \in Nat /\ Len(p) \in Nat
    BY <1>1
  <2> QED BY <1>2, <1>3, <1>4, <2>1, JoinsSame
<1>6. g[n + 1] = g[n] \o x
  <2>1. n + 1 \in 1 .. Len(p) /\ (n + 1) - 1 = n
    BY <1>1
  <2>2. g[n + 1] = g[(n + 1) - 1] \o p[n + 1]
    BY <1>3, <2>1 DEF Joins
  <2> QED BY <1>1, <2>1, <2>2
<1>7. FlattenSeq(q) = f[n]
  BY <1>2, FlattenIs
<1>8. FlattenSeq(p) = g[Len(p)]
  BY <1>1, <1>3, FlattenIs
<1> QED BY <1>1, <1>5, <1>6, <1>7, <1>8

First(q, k) == SubSeq(q, 1, k)

LEMMA FirstEnds ==
  ASSUME NEW X, NEW q \in Seq(X)
  PROVE  First(q, 0) = <<>> /\ First(q, Len(q)) = q
BY SubSeqEmpty, SubSeqFull DEF First

LEMMA FirstIs ==
  ASSUME NEW X, NEW q \in Seq(X), NEW k \in 0 .. Len(q)
  PROVE  First(q, k) \in Seq(X) /\ Len(First(q, k)) = k /\ \A i \in 1 .. k : First(q, k)[i] = q[i]
<1>0. Len(q) \in Nat
  BY LenNat
<1>1. 1 \in Int /\ k \in Int /\ \A i \in 1 .. k : q[i] \in X
  BY <1>0, ElementOfSeq
<1>2. /\ SubSeq(q, 1, k) \in Seq(X)
      /\ Len(SubSeq(q, 1, k)) = IF 1 <= k THEN k - 1 + 1 ELSE 0
      /\ \A i \in 1 .. k - 1 + 1 : SubSeq(q, 1, k)[i] = q[1 + i - 1]
  BY <1>1, SubSeqProperties
<1>3. k - 1 + 1 = k /\ \A i \in 1 .. k : 1 + i - 1 = i
  BY <1>0
<1> QED BY <1>0, <1>2, <1>3 DEF First

LEMMA FirstNext ==
  ASSUME NEW X, NEW q \in Seq(X), NEW k \in 0 .. Len(q) - 1
  PROVE  First(q, k + 1) = Append(First(q, k), q[k + 1]) /\ First(q, k) \in Seq(X) /\ q[k + 1] \in X
<1>0. Len(q) \in Nat
  BY LenNat
<1>1. k + 1 \in 1 .. Len(q) /\ 1 \in 1 .. Len(q) /\ (k + 1) - 1 = k /\ k \in 0 .. Len(q)
  BY <1>0
<1>2. q[k + 1] \in X
  BY <1>1, ElementOfSeq
<1>3. First(q, k) \in Seq(X)
  BY <1>1, FirstIs
<1>4. SubSeq(q, 1, k + 1) = SubSeq(q, 1, (k + 1) - 1) \o <<q[k + 1]>>
  <2>1. k + 1 \in 1 .. Len(q)
    BY <1>1
  <2> QED BY <1>1, <2>1, SubSeqRecursiveSecond
<1>5. Append(First(q, k), q[k + 1]) = First(q, k) \o <<q[k + 1]>>
  BY <1>2, <1>3, AppendIsConcat
<1> QED BY <1>1, <1>2, <1>3, <1>4, <1>5 DEF First

LEMMA FlattenRegroup ==
  ASSUME NEW X, NEW q \in Seq(Rows(X)), NEW p \in Seq(Rows(X)), NEW x \in Rows(X)
  PROVE  (FlattenSeq(q) \o FlattenSeq(p)) \o x = FlattenSeq(q) \o (FlattenSeq(p) \o x)
<1>1. \A s, t, u \in Rows(X) : (s \o t) \o u = s \o (t \o u)
  BY RowsRegroup
<1>2. FlattenSeq(q) \in Rows(X) /\ FlattenSeq(p) \in Rows(X)
  BY FlattenType
<1> QED BY <1>1, <1>2

LEMMA FlattenSplits ==
  ASSUME NEW X, NEW a \in Seq(Rows(X)), NEW c \in Seq(Rows(X)), NEW x \in Rows(X),
         FlattenSeq(a \o c) = FlattenSeq(a) \o FlattenSeq(c)
  PROVE  FlattenSeq(a \o Append(c, x)) = FlattenSeq(a) \o FlattenSeq(Append(c, x))
<1>1. a \o c \in Seq(Rows(X)) /\ a \o Append(c, x) = Append(a \o c, x)
  BY ConcatAppend
<1>2. FlattenSeq(Append(a \o c, x)) = FlattenSeq(a \o c) \o x
  BY <1>1, FlattenAppend
<1>3. FlattenSeq(Append(c, x)) = FlattenSeq(c) \o x
  BY FlattenAppend
<1>4. (FlattenSeq(a) \o FlattenSeq(c)) \o x = FlattenSeq(a) \o (FlattenSeq(c) \o x)
  BY FlattenRegroup
<1> QED BY <1>1, <1>2, <1>3, <1>4

LEMMA FlattenConcat ==
  ASSUME NEW X, NEW a \in Seq(Rows(X)), NEW b \in Seq(Rows(X))
  PROVE  FlattenSeq(a \o b) = FlattenSeq(a) \o FlattenSeq(b)
<1> PICK n \in Nat : n = Len(b)
  BY LenNat
<1> DEFINE Splits(c) == FlattenSeq(a \o c) = FlattenSeq(a) \o FlattenSeq(c)
           Good == {k \in 0 .. n : Splits(First(b, k))}
<1>0. FlattenSeq(a) \in Rows(X) /\ a \in Seq(Rows(X)) /\ b \in Seq(Rows(X))
  BY FlattenType
<1>1. 0 \in Good
  <2>1. First(b, 0) = <<>>
    BY FirstEnds
  <2>2. a \o <<>> = a
    BY ConcatEmptySeq
  <2>3. FlattenSeq(a) \o <<>> = FlattenSeq(a)
    BY <1>0, RowsConcat
  <2>4. Splits(<<>>)
    BY <2>2, <2>3, FlattenEmpty
  <2>5. 0 \in 0 .. n
    OBVIOUS
  <2> QED BY <2>1, <2>4, <2>5
<1>2. ASSUME NEW k \in 0 .. n - 1, k \in Good PROVE k + 1 \in Good
  <2> PICK c : c = First(b, k)
    OBVIOUS
  <2> PICK x : x = b[k + 1]
    OBVIOUS
  <2>1. First(b, k + 1) = Append(c, x) /\ c \in Seq(Rows(X)) /\ x \in Rows(X)
    BY FirstNext
  <2>2. FlattenSeq(a \o c) = FlattenSeq(a) \o FlattenSeq(c)
    BY <1>2
  <2>8. Splits(Append(c, x))
    BY <2>1, <2>2, FlattenSplits
  <2>9. k + 1 \in 0 .. n
    OBVIOUS
  <2> QED BY <2>1, <2>8, <2>9
<1>3. n \in Good
  <2> HIDE DEF Good
  <2>1. 0 .. n \subseteq Good
    BY <1>1, <1>2, NoCounterexample
  <2> QED BY <2>1
<1>4. First(b, n) = b
  BY FirstEnds
<1> QED BY <1>3, <1>4

-----------------------------------------------------------------------------
(***************************************************************************)
(* What tokens are decoded to.                                             *)
(***************************************************************************)
TokenSet == [kind : {"control", "byte", "piece"}, text : Rows(Int)]
Texts0(tokens) == [i \in DOMAIN tokens |-> PieceText(tokens[i])]
Decoded(tokens) == FlattenSeq(Texts0(tokens))
Blanked(t) == [i \in DOMAIN t |-> IF t[i] = Space THEN Blank ELSE t[i]]
\* What stands for a blank is a token.
Known(p) == Space \in Range(p) => p \in DOMAIN Vocabulary

LEMMA RowFacts ==
  ASSUME NEW X, NEW t \in Rows(X)
  PROVE  Len(t) \in Nat /\ DOMAIN t = 1 .. Len(t) /\ \A i \in 1 .. Len(t) : t[i] \in X
BY LenProperties, ElementOfSeq DEF Rows

LEMMA RowEqual ==
  ASSUME NEW X, NEW s \in Rows(X), NEW t \in Rows(X), Len(s) = Len(t), \A i \in 1 .. Len(s) : s[i] = t[i]
  PROVE  s = t
BY SeqEqual DEF Rows

LEMMA RowConcat ==
  ASSUME NEW X, NEW s \in Rows(X), NEW t \in Rows(X)
  PROVE  /\ s \o t \in Rows(X) /\ Len(s \o t) = Len(s) + Len(t)
         /\ \A i \in 1 .. Len(s) + Len(t) : (s \o t)[i] = IF i <= Len(s) THEN s[i] ELSE t[i - Len(s)]
BY ConcatProperties DEF Rows

LEMMA RowJoined ==
  ASSUME NEW X, NEW s \in Rows(X), NEW t \in Rows(X), NEW w \in Rows(X), NEW n \in Nat, NEW m \in Nat,
         Len(s) = n, Len(t) = m, Len(w) = n + m,
         \A i \in 1 .. n + m : w[i] = IF i <= n THEN s[i] ELSE t[i - n]
  PROVE  w = s \o t
<1>1. /\ s \o t \in Rows(X) /\ Len(s \o t) = n + m
      /\ \A i \in 1 .. n + m : (s \o t)[i] = IF i <= n THEN s[i] ELSE t[i - n]
  BY RowConcat
<1>2. \A i \in 1 .. Len(w) : w[i] = (s \o t)[i]
  BY <1>1
<1> QED BY <1>1, <1>2, RowEqual

LEMMA RowMap ==
  ASSUME NEW X, NEW n \in Nat, NEW f \in [1 .. n -> X]
  PROVE  f \in Rows(X) /\ Len(f) = n
BY DEF Rows

LEMMA BlankedIs ==
  ASSUME NEW t \in Rows(Int)
  PROVE  /\ Blanked(t) \in Rows(Int) /\ Len(Blanked(t)) = Len(t)
         /\ \A i \in 1 .. Len(t) : Blanked(t)[i] = IF t[i] = Space THEN Blank ELSE t[i]
<1>1. Len(t) \in Nat /\ DOMAIN t = 1 .. Len(t) /\ \A i \in 1 .. Len(t) : t[i] \in Int
  BY RowFacts
<1>2. Blanked(t) \in [1 .. Len(t) -> Int]
  BY <1>1 DEF Blanked, Blank
<1> QED BY <1>1, <1>2, RowMap DEF Blanked

LEMMA BlankedConcat ==
  ASSUME NEW s \in Rows(Int), NEW t \in Rows(Int)
  PROVE  Blanked(s \o t) = Blanked(s) \o Blanked(t)
<1> PICK n \in Nat, m \in Nat : n = Len(s) /\ m = Len(t)
  BY RowFacts
<1> PICK u : u = s \o t
  OBVIOUS
<1>1. /\ u \in Rows(Int) /\ Len(u) = n + m
      /\ \A i \in 1 .. n + m : u[i] = IF i <= n THEN s[i] ELSE t[i - n]
  BY RowConcat
<1> PICK x, y, w : x = Blanked(s) /\ y = Blanked(t) /\ w = Blanked(u)
  OBVIOUS
<1>2. x \in Rows(Int) /\ Len(x) = n /\ \A i \in 1 .. n : x[i] = IF s[i] = Space THEN Blank ELSE s[i]
  BY BlankedIs
<1>3. y \in Rows(Int) /\ Len(y) = m /\ \A i \in 1 .. m : y[i] = IF t[i] = Space THEN Blank ELSE t[i]
  BY BlankedIs
<1>4. w \in Rows(Int) /\ Len(w) = n + m /\ \A i \in 1 .. n + m : w[i] = IF u[i] = Space THEN Blank ELSE u[i]
  BY <1>1, BlankedIs
<1>6. ASSUME NEW i \in 1 .. n + m PROVE w[i] = IF i <= n THEN x[i] ELSE y[i - n]
  <2>1. CASE i <= n
    <3>1. i \in 1 .. n
      BY <2>1
    <3> QED BY <1>1, <1>2, <1>4, <2>1, <3>1
  <2>2. CASE ~(i <= n)
    <3>1. i - n \in 1 .. m
      BY <2>2
    <3>2. y[i - n] = IF t[i - n] = Space THEN Blank ELSE t[i - n]
      BY <1>3, <3>1
    <3>3. u[i] = t[i - n] /\ w[i] = IF u[i] = Space THEN Blank ELSE u[i]
      BY <1>1, <1>4, <2>2
    <3> QED BY <2>2, <3>2, <3>3
  <2> QED BY <2>1, <2>2
<1>7. w = x \o y
  BY <1>2, <1>3, <1>4, <1>6, RowJoined, ZenonT(60)
<1> QED BY <1>7

LEMMA JoinSingles ==
  ASSUME NEW p \in Rows(Int), NEW q, q = [i \in DOMAIN p |-> <<p[i]>>]
  PROVE  q \in Seq(Rows(Int)) /\ FlattenSeq(q) = p
<1> PICK n \in Nat : n = Len(p)
  BY RowFacts
<1>1. DOMAIN p = 1 .. n /\ \A i \in 1 .. n : p[i] \in Int
  BY RowFacts
<1>2. q \in Seq(Rows(Int)) /\ Len(q) = n /\ \A i \in 1 .. n : q[i] = <<p[i]>>
  <2>1. ASSUME NEW i \in 1 .. n PROVE <<p[i]>> \in Rows(Int)
    BY <1>1 DEF Rows
  <2>2. q \in [1 .. n -> Rows(Int)]
    BY <1>1, <2>1
  <2>3. q \in Rows(Rows(Int)) /\ Len(q) = n
    BY <2>2, RowMap
  <2> QED BY <1>1, <2>3 DEF Rows
<1> DEFINE f == [k \in 0 .. n |-> First(p, k)]
<1>3. p \in Seq(Int)
  BY DEF Rows
<1>4. ASSUME NEW k \in 0 .. n PROVE f[k] \in Rows(Int)
  BY <1>3, FirstIs DEF Rows
<1>5. f[0] = <<>>
  <2>1. First(p, 0) = <<>> /\ 0 \in 0 .. n
    BY <1>3, FirstEnds
  <2> QED BY <2>1
<1>6. ASSUME NEW i \in 1 .. n PROVE f[i] = f[i - 1] \o q[i]
  <2> PICK k \in 0 .. n - 1 : k = i - 1
    OBVIOUS
  <2>1. First(p, k + 1) = Append(First(p, k), p[k + 1]) /\ First(p, k) \in Seq(Int) /\ p[k + 1] \in Int
    BY <1>3, FirstNext
  <2>2. Append(First(p, k), p[k + 1]) = First(p, k) \o <<p[k + 1]>>
    BY <2>1, AppendIsConcat
  <2>3. k + 1 = i /\ k \in 0 .. n /\ i \in 0 .. n
    OBVIOUS
  <2>4. f[i] = First(p, i) /\ f[k] = First(p, k)
    BY <2>3
  <2> HIDE DEF f
  <2> QED BY <1>2, <2>1, <2>2, <2>3, <2>4
<1>7. f \in [0 .. n -> Rows(Int)]
  BY <1>4
<1> HIDE DEF f
<1>8. Joins(q, f, Int)
  BY <1>2, <1>5, <1>6, <1>7 DEF Joins
<1>9. FlattenSeq(q) = f[n]
  BY <1>2, <1>8, FlattenIs
<1>10. f[n] = p
  <2>1. n \in 0 .. n /\ First(p, n) = p
    BY <1>3, FirstEnds
  <2> QED BY <2>1 DEF f
<1> QED BY <1>2, <1>9, <1>10

LEMMA PieceTextType ==
  ASSUME NEW tk \in TokenSet
  PROVE  PieceText(tk) \in Rows(Int)
<1>1. tk.kind \in {"control", "byte", "piece"} /\ tk.text \in Rows(Int)
  BY DEF TokenSet
<1>2. CASE tk.kind = "control"
  BY <1>2 DEF PieceText, Rows
<1>3. CASE tk.kind = "byte"
  BY <1>1, <1>3 DEF PieceText
<1>4. CASE tk.kind = "piece"
  <2>1. PieceText(tk) = Blanked(tk.text)
    BY <1>4 DEF PieceText, Blanked
  <2> QED BY <1>1, <2>1, BlankedIs
<1> QED BY <1>1, <1>2, <1>3, <1>4

LEMMA TextsIs ==
  ASSUME NEW a \in Rows(TokenSet)
  PROVE  /\ Texts0(a) \in Seq(Rows(Int)) /\ Len(Texts0(a)) = Len(a)
         /\ \A i \in 1 .. Len(a) : Texts0(a)[i] = PieceText(a[i])
<1>1. Len(a) \in Nat /\ DOMAIN a = 1 .. Len(a) /\ \A i \in 1 .. Len(a) : a[i] \in TokenSet
  BY RowFacts
<1>2. Texts0(a) \in [1 .. Len(a) -> Rows(Int)]
  BY <1>1, PieceTextType DEF Texts0
<1>3. Texts0(a) \in Rows(Rows(Int)) /\ Len(Texts0(a)) = Len(a)
  BY <1>1, <1>2, RowMap
<1> QED BY <1>1, <1>3 DEF Texts0, Rows

LEMMA DecodedConcat ==
  ASSUME NEW a \in Rows(TokenSet), NEW b \in Rows(TokenSet)
  PROVE  Decoded(a \o b) = Decoded(a) \o Decoded(b)
<1> PICK n \in Nat, m \in Nat : n = Len(a) /\ m = Len(b)
  BY RowFacts
<1> PICK u : u = a \o b
  OBVIOUS
<1>1. /\ u \in Rows(TokenSet) /\ Len(u) = n + m
      /\ \A i \in 1 .. n + m : u[i] = IF i <= n THEN a[i] ELSE b[i - n]
  BY RowConcat
<1> PICK x, y, w : x = Texts0(a) /\ y = Texts0(b) /\ w = Texts0(u)
  OBVIOUS
<1>2. x \in Rows(Rows(Int)) /\ Len(x) = n /\ \A i \in 1 .. n : x[i] = PieceText(a[i])
  BY TextsIs DEF Rows
<1>3. y \in Rows(Rows(Int)) /\ Len(y) = m /\ \A i \in 1 .. m : y[i] = PieceText(b[i])
  BY TextsIs DEF Rows
<1>4. w \in Rows(Rows(Int)) /\ Len(w) = n + m /\ \A i \in 1 .. n + m : w[i] = PieceText(u[i])
  BY <1>1, TextsIs DEF Rows
<1>6. ASSUME NEW i \in 1 .. n + m PROVE w[i] = IF i <= n THEN x[i] ELSE y[i - n]
  <2>1. CASE i <= n
    <3>1. i \in 1 .. n
      BY <2>1
    <3> QED BY <1>1, <1>2, <1>4, <2>1, <3>1
  <2>2. CASE ~(i <= n)
    <3>1. i - n \in 1 .. m
      BY <2>2
    <3>2. y[i - n] = PieceText(b[i - n])
      BY <1>3, <3>1
    <3>3. u[i] = b[i - n] /\ w[i] = PieceText(u[i])
      BY <1>1, <1>4, <2>2
    <3> QED BY <2>2, <3>2, <3>3
  <2> QED BY <2>1, <2>2
<1>5. /\ x \in Rows(Rows(Int)) /\ y \in Rows(Rows(Int)) /\ w \in Rows(Rows(Int))
      /\ Len(x) = n /\ Len(y) = m /\ Len(w) = n + m
  BY <1>2, <1>3, <1>4
<1>7. w = x \o y
  <2>1. \A i \in 1 .. n + m : w[i] = IF i <= n THEN x[i] ELSE y[i - n]
    BY <1>6
  <2>2. PICK R : R = Rows(Int)
    OBVIOUS
  <2>3. x \in Rows(R) /\ y \in Rows(R) /\ w \in Rows(R)
    BY <1>5, <2>2
  <2>4. n \in Nat /\ m \in Nat
    OBVIOUS
  <2> QED BY ONLY <1>5, <2>1, <2>3, <2>4, RowJoined
<1>8. FlattenSeq(x \o y) = FlattenSeq(x) \o FlattenSeq(y)
  <2>1. x \in Seq(Rows(Int)) /\ y \in Seq(Rows(Int))
    BY <1>2, <1>3 DEF Rows
  <2> QED BY <2>1, FlattenConcat
<1> QED BY <1>7, <1>8 DEF Decoded

LEMMA DecodedOne ==
  ASSUME NEW tk \in TokenSet
  PROVE  Decoded(<<tk>>) = PieceText(tk)
<1> PICK x \in Rows(Int) : x = PieceText(tk)
  BY PieceTextType
<1>1. Texts0(<<tk>>) = <<x>>
  BY DEF Texts0
<1>2. <<>> \in Seq(Rows(Int)) /\ <<x>> = Append(<<>>, x)
  OBVIOUS
<1>3. FlattenSeq(Append(<<>>, x)) = FlattenSeq(<<>>) \o x
  BY <1>2, FlattenAppend
<1>4. <<>> \o x = x
  BY RowsConcat
<1> QED BY <1>1, <1>2, <1>3, <1>4, FlattenEmpty DEF Decoded

LEMMA TokensType == ASSUME NEW p \in Rows(Int) PROVE Tokens(p) \in Rows(TokenSet)
<1>1. CASE p \in DOMAIN Vocabulary
  <2>1. Token("piece", p) \in TokenSet
    BY DEF Token, TokenSet
  <2>2. <<Token("piece", p)>> \in Seq(TokenSet)
    BY <2>1
  <2> QED BY <1>1, <2>2 DEF Tokens, Rows
<1>2. CASE p \notin DOMAIN Vocabulary
  <2>1. Len(p) \in Nat /\ DOMAIN p = 1 .. Len(p) /\ \A i \in 1 .. Len(p) : p[i] \in Int
    BY RowFacts
  <2>2. ASSUME NEW i \in 1 .. Len(p) PROVE Token("byte", <<p[i]>>) \in TokenSet
    BY <2>1 DEF Token, TokenSet, Rows
  <2>3. Tokens(p) \in [1 .. Len(p) -> TokenSet]
    BY <1>2, <2>1, <2>2 DEF Tokens
  <2> QED BY <2>1, <2>3, RowMap
<1> QED BY <1>1, <1>2

LEMMA DecodedTokens ==
  ASSUME NEW p \in Rows(Int), Known(p)
  PROVE  Decoded(Tokens(p)) = Blanked(p)
<1>1. CASE p \in DOMAIN Vocabulary
  <2> PICK tk : tk = Token("piece", p)
    OBVIOUS
  <2>1. tk \in TokenSet /\ tk.kind = "piece" /\ tk.text = p
    BY DEF Token, TokenSet
  <2>2. Tokens(p) = <<tk>>
    BY <1>1 DEF Tokens
  <2>3. Decoded(<<tk>>) = PieceText(tk)
    BY <2>1, DecodedOne
  <2>4. PieceText(tk) = Blanked(p)
    BY <2>1 DEF PieceText, Blanked
  <2> QED BY <2>2, <2>3, <2>4
<1>2. CASE p \notin DOMAIN Vocabulary
  <2>1. DOMAIN p = 1 .. Len(p) /\ Len(p) \in Nat
    BY RowFacts
  <2> PICK q : q = [i \in DOMAIN p |-> <<p[i]>>]
    OBVIOUS
  <2>2. FlattenSeq(q) = p
    BY JoinSingles
  <2> PICK tks : tks = [i \in DOMAIN p |-> Token("byte", <<p[i]>>)]
    OBVIOUS
  <2>3. Tokens(p) = tks
    BY <1>2 DEF Tokens
  <2>4. Texts0(tks) = q
    BY DEF Texts0, PieceText, Token
  <2>5. ASSUME NEW i \in DOMAIN p PROVE p[i] # Space
    BY <1>2 DEF Known, Range
  <2>6. Blanked(p) = p
    <3>1. /\ Blanked(p) \in Rows(Int) /\ Len(Blanked(p)) = Len(p)
          /\ \A i \in 1 .. Len(p) : Blanked(p)[i] = IF p[i] = Space THEN Blank ELSE p[i]
      BY BlankedIs
    <3>2. \A i \in 1 .. Len(p) : Blanked(p)[i] = p[i]
      BY <2>1, <2>5, <3>1
    <3> QED BY <3>1, <3>2, RowEqual
  <2> QED BY <2>2, <2>3, <2>4, <2>6 DEF Decoded
<1> QED BY <1>1, <1>2

LEMMA TokensOfType ==
  ASSUME NEW q \in Seq(Rows(Int)), NEW t, t = [i \in DOMAIN q |-> Tokens(q[i])]
  PROVE  /\ t \in Seq(Rows(TokenSet)) /\ Len(t) = Len(q) /\ \A i \in 1 .. Len(q) : t[i] = Tokens(q[i])
         /\ TokensOf(q) = FlattenSeq(t) /\ TokensOf(q) \in Rows(TokenSet)
<1>1. Len(q) \in Nat /\ DOMAIN q = 1 .. Len(q) /\ \A i \in 1 .. Len(q) : q[i] \in Rows(Int)
  BY LenProperties, ElementOfSeq
<1>2. t \in [1 .. Len(q) -> Rows(TokenSet)]
  BY <1>1, TokensType
<1>3. t \in Rows(Rows(TokenSet)) /\ Len(t) = Len(q)
  BY <1>1, <1>2, RowMap
<1>4. t \in Seq(Rows(TokenSet))
  BY <1>3 DEF Rows
<1>5. TokensOf(q) = FlattenSeq(t)
  BY DEF TokensOf
<1>6. FlattenSeq(t) \in Rows(TokenSet)
  BY <1>4, FlattenType
<1> QED BY <1>1, <1>3, <1>4, <1>5, <1>6

LEMMA TokensAppend ==
  ASSUME NEW c \in Seq(Rows(Int)), NEW x \in Rows(Int)
  PROVE  TokensOf(Append(c, x)) = TokensOf(c) \o Tokens(x)
<1> PICK p : p = Append(c, x)
  OBVIOUS
<1> PICK t, u : t = [i \in DOMAIN c |-> Tokens(c[i])] /\ u = [i \in DOMAIN p |-> Tokens(p[i])]
  OBVIOUS
<1> PICK n \in Nat : n = Len(c)
  BY LenNat
<1>1. p \in Seq(Rows(Int)) /\ Len(p) = n + 1 /\ p[n + 1] = x /\ \A i \in 1 .. n : p[i] = c[i]
  BY AppendProperties
<1>2. t \in Seq(Rows(TokenSet)) /\ Len(t) = n /\ (\A i \in 1 .. n : t[i] = Tokens(c[i])) /\ TokensOf(c) = FlattenSeq(t)
  BY TokensOfType
<1>3. /\ u \in Seq(Rows(TokenSet)) /\ Len(u) = n + 1 /\ (\A i \in 1 .. n + 1 : u[i] = Tokens(p[i]))
      /\ TokensOf(p) = FlattenSeq(u)
  <2>1. p \in Seq(Rows(Int)) /\ Len(p) = n + 1
    BY <1>1
  <2>2. /\ u \in Seq(Rows(TokenSet)) /\ Len(u) = Len(p) /\ (\A i \in 1 .. Len(p) : u[i] = Tokens(p[i]))
        /\ TokensOf(p) = FlattenSeq(u)
    BY <2>1, TokensOfType
  <2> QED BY <2>1, <2>2
<1> PICK y \in Rows(TokenSet) : y = Tokens(x)
  BY TokensType
<1> PICK w : w = Append(t, y)
  OBVIOUS
<1>4. w \in Seq(Rows(TokenSet)) /\ Len(w) = n + 1 /\ w[n + 1] = y /\ \A i \in 1 .. n : w[i] = t[i]
  BY <1>2, AppendProperties
<1>5. ASSUME NEW i \in 1 .. n + 1 PROVE u[i] = w[i]
  <2>1. CASE i = n + 1
    BY <1>1, <1>3, <1>4, <2>1
  <2>2. CASE i # n + 1
    <3>1. i \in 1 .. n
      BY <2>2
    <3> QED BY <1>1, <1>2, <1>3, <1>4, <3>1
  <2> QED BY <2>1, <2>2
<1>6. u = w
  BY <1>3, <1>4, <1>5, SeqEqual
<1>7. FlattenSeq(w) = FlattenSeq(t) \o y
  BY <1>2, FlattenAppend
<1> QED BY <1>2, <1>3, <1>6, <1>7

LEMMA DecodedNext ==
  ASSUME NEW c \in Seq(Rows(Int)), NEW x \in Rows(Int), Known(x), Decoded(TokensOf(c)) = Blanked(FlattenSeq(c))
  PROVE  Decoded(TokensOf(Append(c, x))) = Blanked(FlattenSeq(Append(c, x)))
<1>1. TokensOf(Append(c, x)) = TokensOf(c) \o Tokens(x)
  BY TokensAppend
<1>2. TokensOf(c) \in Rows(TokenSet) /\ Tokens(x) \in Rows(TokenSet)
  BY TokensOfType, TokensType
<1>3. Decoded(TokensOf(c) \o Tokens(x)) = Decoded(TokensOf(c)) \o Decoded(Tokens(x))
  BY <1>2, DecodedConcat
<1>4. Decoded(Tokens(x)) = Blanked(x)
  BY DecodedTokens
<1>5. FlattenSeq(Append(c, x)) = FlattenSeq(c) \o x /\ FlattenSeq(c) \in Rows(Int)
  BY FlattenAppend, FlattenType
<1>6. Blanked(FlattenSeq(c) \o x) = Blanked(FlattenSeq(c)) \o Blanked(x)
  BY <1>5, BlankedConcat
<1> QED BY <1>1, <1>3, <1>4, <1>5, <1>6

\* The tokens of pieces are decoded to the text that the pieces make up.
LEMMA DecodedPieces ==
  ASSUME NEW q \in Seq(Rows(Int)), \A i \in 1 .. Len(q) : Known(q[i])
  PROVE  Decoded(TokensOf(q)) = Blanked(FlattenSeq(q))
<1> PICK n \in Nat : n = Len(q)
  BY LenNat
<1> DEFINE Fine(c) == Decoded(TokensOf(c)) = Blanked(FlattenSeq(c))
           Good == {k \in 0 .. n : Fine(First(q, k))}
<1>1. 0 \in Good
  <2>1. First(q, 0) = <<>> /\ 0 \in 0 .. n
    BY FirstEnds
  <2>2. TokensOf(<<>>) = <<>>
    BY FlattenEmpty DEF TokensOf
  <2>3. Texts0(<<>>) = <<>> /\ Blanked(<<>>) = <<>>
    BY DEF Texts0, Blanked
  <2>4. Fine(<<>>)
    BY <2>2, <2>3, FlattenEmpty DEF Decoded
  <2> QED BY <2>1, <2>4
<1>2. ASSUME NEW k \in 0 .. n - 1, k \in Good PROVE k + 1 \in Good
  <2> PICK c : c = First(q, k)
    OBVIOUS
  <2> PICK x : x = q[k + 1]
    OBVIOUS
  <2>1. First(q, k + 1) = Append(c, x) /\ c \in Seq(Rows(Int)) /\ x \in Rows(Int)
    BY FirstNext
  <2>2. k + 1 \in 1 .. Len(q) /\ k + 1 \in 0 .. n
    OBVIOUS
  <2>3. Known(x) /\ Fine(c)
    BY <1>2, <2>2
  <2>4. Fine(Append(c, x))
    BY <2>1, <2>3, DecodedNext
  <2> QED BY <2>1, <2>2, <2>4
<1>3. n \in Good
  <2> HIDE DEF Good
  <2>1. 0 .. n \subseteq Good
    BY <1>1, <1>2, NoCounterexample
  <2> QED BY <2>1
<1>4. First(q, n) = q
  BY FirstEnds
<1> QED BY <1>3, <1>4

-----------------------------------------------------------------------------
(***************************************************************************)
(* The pieces that live cut the segment.                                   *)
(***************************************************************************)
Cuts(n, m) ==
    {e \in [1 .. m + 1 -> 1 .. n + 1] :
        e[1] = 1 /\ e[m + 1] = n + 1 /\ \A i, j \in 1 .. m + 1 : i < j => e[i] < e[j]}
\* What is from position a of t up to position b.
Span(t, a, b) == SubSeq(t, a, b - 1)
PiecesOf(t, m, e) == [k \in 1 .. m |-> Span(t, e[k], e[k + 1])]
SymbolSet(n) == [start : 1 .. n, len : 0 .. n, prev : Int, next : Int]
\* The linked list s has the pieces as its symbols that live.
Linked(n, m, e, s) ==
    /\ s \in [1 .. n -> SymbolSet(n)]
    /\ \A i \in 1 .. n : s[i].start = i
    /\ \A k \in 1 .. m : /\ s[e[k]].len = e[k + 1] - e[k]
                         /\ s[e[k]].prev = IF k = 1 THEN NoSymbol ELSE e[k - 1]
                         /\ s[e[k]].next = IF k = m THEN NoSymbol ELSE e[k + 1]
    /\ \A i \in 1 .. n : s[i].len # 0 => \E k \in 1 .. m : i = e[k]

LEMMA CutAt ==
  ASSUME NEW n \in Nat, NEW m \in Nat, NEW e \in Cuts(n, m), NEW k \in 1 .. m
  PROVE  e[k] \in 1 .. n /\ e[k + 1] \in 1 .. n + 1 /\ e[k] < e[k + 1]
<1>1. k \in 1 .. m + 1 /\ k + 1 \in 1 .. m + 1 /\ k < k + 1
  OBVIOUS
<1>2. e[k] \in 1 .. n + 1 /\ e[k + 1] \in 1 .. n + 1 /\ e[k] < e[k + 1]
  BY <1>1 DEF Cuts
<1> QED BY <1>2

LEMMA CutInjective ==
  ASSUME NEW n \in Nat, NEW m \in Nat, NEW e \in Cuts(n, m), NEW i \in 1 .. m + 1, NEW j \in 1 .. m + 1
  PROVE  (e[i] = e[j] <=> i = j) /\ (e[i] <= e[j] <=> i <= j)
<1>1. e[i] \in Int /\ e[j] \in Int /\ (i < j => e[i] < e[j]) /\ (j < i => e[j] < e[i])
  BY DEF Cuts
<1> QED BY <1>1

LEMMA SpanType ==
  ASSUME NEW X, NEW t \in Rows(X), NEW a \in 1 .. Len(t) + 1, NEW b \in 1 .. Len(t) + 1
  PROVE  Span(t, a, b) \in Rows(X)
<1>1. \A i \in 1 .. Len(t) : t[i] \in X
  BY RowFacts
<1>2. Len(t) \in Nat
  BY RowFacts
<1>3. a \in Int /\ b - 1 \in Int /\ \A i \in a .. b - 1 : t[i] \in X
  BY <1>1, <1>2
<1> QED BY <1>3, SubSeqProperties DEF Rows, Span

LEMMA PiecesType ==
  ASSUME NEW n \in Nat, NEW m \in Nat, NEW e \in Cuts(n, m), NEW t \in Rows(Int), Len(t) = n
  PROVE  /\ PiecesOf(t, m, e) \in Seq(Rows(Int)) /\ Len(PiecesOf(t, m, e)) = m
         /\ \A k \in 1 .. m : /\ PiecesOf(t, m, e)[k] = Span(t, e[k], e[k + 1])
                              /\ PiecesOf(t, m, e)[k] \in Rows(Int)
<1>1. ASSUME NEW k \in 1 .. m PROVE Span(t, e[k], e[k + 1]) \in Rows(Int)
  <2>1. e[k] \in 1 .. n + 1 /\ e[k + 1] \in 1 .. n + 1
    BY CutAt
  <2> QED BY <2>1, SpanType
<1>2. PiecesOf(t, m, e) \in [1 .. m -> Rows(Int)]
  BY <1>1 DEF PiecesOf
<1>3. PiecesOf(t, m, e) \in Rows(Rows(Int)) /\ Len(PiecesOf(t, m, e)) = m
  BY <1>2, RowMap
<1> QED BY <1>1, <1>3 DEF PiecesOf, Rows

\* Two neighbours cover what is between their ends.
LEMMA SpanConcat ==
  ASSUME NEW X, NEW t \in Rows(X), NEW a \in 1 .. Len(t) + 1, NEW b \in 1 .. Len(t) + 1, NEW c \in 1 .. Len(t) + 1,
         a <= b, b <= c
  PROVE  Span(t, a, b) \o Span(t, b, c) = Span(t, a, c)
<1>0. Len(t) \in Nat /\ t \in Seq(X)
  BY RowFacts DEF Rows
<1>1. b - 1 \in a - 1 .. Len(t) /\ c - 1 \in b - 1 .. Len(t) /\ (b - 1) + 1 = b
  BY <1>0
<1>2. SubSeq(t, a, b - 1) \o SubSeq(t, (b - 1) + 1, c - 1) = SubSeq(t, a, c - 1)
  BY <1>0, <1>1, ConcatAdjacentSubSeq
<1> QED BY <1>1, <1>2 DEF Span

\* The pieces joined are the text.
LEMMA PiecesJoin ==
  ASSUME NEW n \in Nat, NEW m \in Nat, NEW e \in Cuts(n, m), NEW t \in Rows(Int), Len(t) = n
  PROVE  FlattenSeq(PiecesOf(t, m, e)) = t
<1> PICK q : q = PiecesOf(t, m, e)
  OBVIOUS
<1>1. q \in Seq(Rows(Int)) /\ Len(q) = m /\ \A k \in 1 .. m : q[k] = Span(t, e[k], e[k + 1])
  BY PiecesType
<1> DEFINE f == [k \in 0 .. m |-> Span(t, 1, e[k + 1])]
<1>2. ASSUME NEW k \in 0 .. m PROVE f[k] \in Rows(Int) /\ e[k + 1] \in 1 .. n + 1
  <2>1. k + 1 \in 1 .. m + 1
    OBVIOUS
  <2>2. e[k + 1] \in 1 .. n + 1
    BY <2>1 DEF Cuts
  <2>3. 1 \in 1 .. n + 1
    OBVIOUS
  <2>4. Span(t, 1, e[k + 1]) \in Rows(Int)
    BY <2>2, <2>3, SpanType
  <2> QED BY <2>2, <2>4
<1>3. e[1] = 1 /\ e[m + 1] = n + 1
  BY DEF Cuts
<1>4. f[0] = <<>>
  <2>1. Span(t, 1, 1) = <<>>
    BY SubSeqEmpty DEF Span
  <2>2. 0 \in 0 .. m /\ 0 + 1 = 1
    OBVIOUS
  <2> QED BY <1>3, <2>1, <2>2
<1>5. ASSUME NEW i \in 1 .. m PROVE f[i] = f[i - 1] \o q[i]
  <2>1. i \in 0 .. m /\ i - 1 \in 0 .. m /\ (i - 1) + 1 = i
    OBVIOUS
  <2>2. f[i] = Span(t, 1, e[i + 1]) /\ f[i - 1] = Span(t, 1, e[i])
    BY <2>1
  <2>3. 1 \in 1 .. Len(t) + 1 /\ e[i] \in 1 .. Len(t) + 1 /\ e[i + 1] \in 1 .. Len(t) + 1 /\ 1 <= e[i] /\ e[i] <= e[i + 1]
    <3>1. e[i] \in 1 .. n /\ e[i + 1] \in 1 .. n + 1 /\ e[i] < e[i + 1]
      BY CutAt
    <3> QED BY <3>1
  <2>4. Span(t, 1, e[i]) \o Span(t, e[i], e[i + 1]) = Span(t, 1, e[i + 1])
    BY <2>3, SpanConcat
  <2> HIDE DEF f
  <2> QED BY <1>1, <2>2, <2>4
<1>6. f \in [0 .. m -> Rows(Int)]
  BY <1>2
<1>7. f[m] = t
  <2>1. m \in 0 .. m
    OBVIOUS
  <2>2. f[m] = Span(t, 1, n + 1)
    BY <1>3, <2>1
  <2>3. SubSeq(t, 1, Len(t)) = t /\ (n + 1) - 1 = Len(t)
    BY SubSeqFull DEF Rows
  <2> HIDE DEF f
  <2> QED BY <2>2, <2>3 DEF Span
<1> HIDE DEF f
<1>8. Joins(q, f, Int)
  BY <1>1, <1>4, <1>5, <1>6 DEF Joins
<1>9. FlattenSeq(q) = f[m]
  BY <1>1, <1>8, FlattenIs
<1> QED BY <1>7, <1>9

-----------------------------------------------------------------------------
(***************************************************************************)
(* The candidates of two neighbours, and the walk along the links.         *)
(***************************************************************************)
Fits(a, t, e, k) == CanMerge(a, Span(t, e[k], e[k + 1]), Span(t, e[k + 1], e[k + 2]))
Entry(a, t, e, k) ==
    [key |-> Key(a, Span(t, e[k], e[k + 1]), Span(t, e[k + 1], e[k + 2])),
     left |-> e[k], right |-> e[k + 1], len |-> e[k + 2] - e[k]]
EntryIf(a, t, e, k) == IF Fits(a, t, e, k) THEN {Entry(a, t, e, k)} ELSE {}

LEMMA PieceLen ==
  ASSUME NEW n \in Nat, NEW m \in Nat, NEW e \in Cuts(n, m), NEW s, Linked(n, m, e, s), NEW k \in 1 .. m
  PROVE  s[e[k]].start = e[k] /\ s[e[k]].len = e[k + 1] - e[k]
<1>1. e[k] \in 1 .. n
  BY CutAt
<1> QED BY <1>1 DEF Linked

LEMMA PieceSpan ==
  ASSUME NEW n \in Nat, NEW m \in Nat, NEW e \in Cuts(n, m), NEW s, Linked(n, m, e, s), NEW t, NEW k \in 1 .. m
  PROVE  Piece(t, s, e[k]) = Span(t, e[k], e[k + 1])
<1>1. e[k] \in 1 .. n /\ e[k + 1] \in 1 .. n + 1
  BY CutAt
<1>2. s[e[k]].start = e[k] /\ s[e[k]].len = e[k + 1] - e[k]
  BY PieceLen
<1>3. e[k] + (e[k + 1] - e[k]) - 1 = e[k + 1] - 1
  BY <1>1
<1> QED BY <1>2, <1>3 DEF Piece, Span

LEMMA CandidatesAt ==
  ASSUME NEW a, NEW t, NEW n \in Nat, NEW m \in Nat, NEW e \in Cuts(n, m), NEW s, Linked(n, m, e, s),
         NEW k \in 1 .. m - 1
  PROVE  Candidates(a, t, s, e[k], e[k + 1]) = EntryIf(a, t, e, k)
<1>1. k \in 1 .. m /\ k + 1 \in 1 .. m /\ (k + 1) + 1 = k + 2
  OBVIOUS
<1> PICK l, r : l = e[k] /\ r = e[k + 1]
  OBVIOUS
<1> PICK x, y : x = Span(t, e[k], e[k + 1]) /\ y = Span(t, e[k + 1], e[k + 2])
  OBVIOUS
<1>2. Piece(t, s, l) = x /\ s[l].len = e[k + 1] - e[k]
  <2>1. Piece(t, s, e[k]) = Span(t, e[k], e[k + 1])
    BY <1>1, PieceSpan
  <2>2. s[e[k]].len = e[k + 1] - e[k]
    BY <1>1, PieceLen
  <2> QED BY <2>1, <2>2
<1>3. Piece(t, s, r) = y /\ s[r].len = e[k + 2] - e[k + 1]
  <2>1. Piece(t, s, e[k + 1]) = Span(t, e[k + 1], e[(k + 1) + 1])
    BY <1>1, PieceSpan
  <2>2. s[e[k + 1]].len = e[(k + 1) + 1] - e[k + 1]
    BY <1>1, PieceLen
  <2> QED BY <1>1, <2>1, <2>2
<1>4. l \in 1 .. n /\ r \in 1 .. n /\ e[k + 2] \in 1 .. n + 1
  <2>1. e[k + 1] \in 1 .. n /\ e[(k + 1) + 1] \in 1 .. n + 1
    BY <1>1, CutAt
  <2>2. e[k] \in 1 .. n
    BY <1>1, CutAt
  <2> QED BY <1>1, <2>1, <2>2
<1>5. l # NoSymbol /\ r # NoSymbol
  BY <1>4 DEF NoSymbol
<1>6. s[l].len + s[r].len = e[k + 2] - e[k]
  BY <1>2, <1>3, <1>4
<1>7. Candidates(a, t, s, l, r) =
        IF ~CanMerge(a, x, y) THEN {} ELSE {[key |-> Key(a, x, y), left |-> l, right |-> r, len |-> e[k + 2] - e[k]]}
  BY <1>2, <1>3, <1>5, <1>6 DEF Candidates
<1>8. EntryIf(a, t, e, k) =
        IF ~CanMerge(a, x, y) THEN {} ELSE {[key |-> Key(a, x, y), left |-> l, right |-> r, len |-> e[k + 2] - e[k]]}
  BY DEF EntryIf, Fits, Entry
<1> QED BY <1>7, <1>8

From(q, k) == SubSeq(q, k, Len(q))

LEMMA FromNext ==
  ASSUME NEW X, NEW q \in Seq(X)
  PROVE  /\ \A k \in 1 .. Len(q) : From(q, k) = <<q[k]>> \o From(q, k + 1)
         /\ From(q, Len(q) + 1) = <<>> /\ From(q, 1) = q
<1>1. Len(q) \in Nat
  BY LenNat
<1>2. ASSUME NEW k \in 1 .. Len(q) PROVE From(q, k) = <<q[k]>> \o From(q, k + 1)
  <2>1. Len(q) \in k .. Len(q)
    BY <1>1
  <2> QED BY <2>1, SubSeqRecursiveFirst DEF From
<1>3. From(q, Len(q) + 1) = <<>>
  BY <1>1, SubSeqEmpty DEF From
<1>4. From(q, 1) = q
  BY SubSeqFull DEF From
<1> QED BY <1>2, <1>3, <1>4

LEMMA WalkIs ==
  ASSUME NEW n \in Nat, NEW m \in Nat, m # 0, NEW e \in Cuts(n, m), NEW t \in Rows(Int), Len(t) = n,
         NEW s, Linked(n, m, e, s)
  PROVE  PiecesFrom(t, s) = PiecesOf(t, m, e)
<1> PICK q : q = PiecesOf(t, m, e)
  OBVIOUS
<1>1. q \in Seq(Rows(Int)) /\ Len(q) = m /\ \A k \in 1 .. m : q[k] = Span(t, e[k], e[k + 1])
  BY PiecesType
<1>2. /\ \A k \in 1 .. m : From(q, k) = <<q[k]>> \o From(q, k + 1)
      /\ From(q, m + 1) = <<>> /\ From(q, 1) = q
  BY <1>1, FromNext, ZenonT(60)
<1> DEFINE D == {NoSymbol} \cup {j \in DOMAIN s : s[j].len # 0}
           Body(h) == [i \in D |-> IF i = NoSymbol THEN <<>> ELSE <<Piece(t, s, i)>> \o h[s[i].next]]
<1>3. DOMAIN s = 1 .. n /\ NoSymbol \notin 1 .. n
  BY DEF Linked, NoSymbol
<1>4. ASSUME NEW k \in 1 .. m
      PROVE  /\ e[k] \in D /\ e[k] # NoSymbol /\ Piece(t, s, e[k]) = q[k]
             /\ s[e[k]].next = IF k = m THEN NoSymbol ELSE e[k + 1]
  <2>1. e[k] \in 1 .. n /\ e[k + 1] \in 1 .. n + 1 /\ e[k] < e[k + 1]
    BY CutAt
  <2>2. Piece(t, s, e[k]) = q[k] /\ s[e[k]].len = e[k + 1] - e[k]
    <3>1. q[k] = Span(t, e[k], e[k + 1])
      BY <1>1
    <3>2. Piece(t, s, e[k]) = Span(t, e[k], e[k + 1])
      BY PieceSpan
    <3>3. s[e[k]].len = e[k + 1] - e[k]
      BY PieceLen
    <3> QED BY <3>1, <3>2, <3>3
  <2>3. s[e[k]].len # 0
    BY <2>1, <2>2
  <2>4. s[e[k]].next = IF k = m THEN NoSymbol ELSE e[k + 1]
    BY DEF Linked
  <2> QED BY <1>3, <2>1, <2>2, <2>3, <2>4
<1>5. ASSUME NEW i \in D, i # NoSymbol PROVE \E k \in 1 .. m : i = e[k]
  BY <1>3, <1>5 DEF Linked
<1>6. NoSymbol \in D
  OBVIOUS
<1>7. s # <<>> /\ 1 \in 1 .. m /\ e[1] = 1
  <2>1. e[1] \in 1 .. n
    BY CutAt
  <2> QED BY <1>3, <2>1 DEF Cuts
<1>8. PiecesFrom(t, s) = (CHOOSE h : h = Body(h))[1]
  BY <1>7 DEF PiecesFrom
<1> HIDE DEF D
<1>9. \E h : h = Body(h)
  <2> DEFINE at(i) == CHOOSE k \in 1 .. m : i = e[k]
             h == [i \in D |-> IF i = NoSymbol THEN <<>> ELSE From(q, at(i))]
  <2>1. ASSUME NEW k \in 1 .. m PROVE h[e[k]] = From(q, k)
    <3>1. \A j \in 1 .. m : e[k] = e[j] => j = k
      <4>1. ASSUME NEW j \in 1 .. m, e[k] = e[j] PROVE j = k
        <5>1. k \in 1 .. m + 1 /\ j \in 1 .. m + 1
          OBVIOUS
        <5> QED BY <4>1, <5>1, CutInjective
      <4> QED BY <4>1
    <3>2. at(e[k]) = k
      BY <3>1
    <3> QED BY <1>4, <3>2
  <2>2. h[NoSymbol] = <<>>
    BY <1>6
  <2>3. DOMAIN h = D /\ h = [i \in D |-> h[i]]
    OBVIOUS
  <2> HIDE DEF h
  <2>4. ASSUME NEW i \in D PROVE h[i] = IF i = NoSymbol THEN <<>> ELSE <<Piece(t, s, i)>> \o h[s[i].next]
    <3>1. CASE i = NoSymbol
      BY <2>2, <3>1
    <3>2. CASE i # NoSymbol
      <4>1. PICK k \in 1 .. m : i = e[k]
        BY <1>5, <3>2
      <4>2. h[i] = <<q[k]>> \o From(q, k + 1)
        BY <1>2, <2>1, <4>1
      <4>3. h[s[i].next] = From(q, k + 1)
        <5>1. CASE k = m
          BY <1>2, <1>4, <2>2, <4>1, <5>1
        <5>2. CASE k # m
          <6>1. k + 1 \in 1 .. m
            BY <5>2
          <6> QED BY <1>4, <2>1, <4>1, <5>2, <6>1
        <5> QED BY <5>1, <5>2
      <4>4. Piece(t, s, i) = q[k]
        BY <1>4, <4>1
      <4> QED BY <3>2, <4>2, <4>3, <4>4
    <3> QED BY <3>1, <3>2
  <2>5. h = Body(h)
    BY <2>3, <2>4
  <2> QED BY <2>5
<1> PICK g : g = CHOOSE h : h = Body(h)
  OBVIOUS
<1>10. g = Body(g)
  BY <1>9
<1>11. \A i \in D : g[i] = IF i = NoSymbol THEN <<>> ELSE <<Piece(t, s, i)>> \o g[s[i].next]
  BY <1>10
<1>12. g[NoSymbol] = <<>>
  BY <1>6, <1>11
<1>13. ASSUME NEW k \in 1 .. m PROVE g[e[k]] = <<q[k]>> \o g[IF k = m THEN NoSymbol ELSE e[k + 1]]
  BY <1>4, <1>11
<1> DEFINE Good == {j \in 0 .. m - 1 : g[e[m - j]] = From(q, m - j)}
<1>14. 0 \in Good
  <2>1. m \in 1 .. m /\ m - 0 = m /\ 0 \in 0 .. m - 1
    OBVIOUS
  <2>2. g[e[m]] = <<q[m]>> \o g[NoSymbol]
    BY <1>13, <2>1
  <2>3. From(q, m) = <<q[m]>> \o From(q, m + 1)
    BY <1>2, <2>1
  <2>4. g[e[m]] = From(q, m)
    BY <1>2, <1>12, <2>2, <2>3
  <2> QED BY <2>1, <2>4
<1>15. ASSUME NEW j \in 0 .. (m - 1) - 1, j \in Good PROVE j + 1 \in Good
  <2> PICK k \in 1 .. m - 1 : k = m - (j + 1)
    OBVIOUS
  <2>1. k \in 1 .. m /\ k # m /\ k + 1 = m - j /\ j + 1 \in 0 .. m - 1
    OBVIOUS
  <2>2. g[e[k + 1]] = From(q, k + 1)
    BY <1>15, <2>1
  <2>3. g[e[k]] = <<q[k]>> \o g[e[k + 1]]
    BY <1>13, <2>1
  <2>4. From(q, k) = <<q[k]>> \o From(q, k + 1)
    BY <1>2, <2>1
  <2>5. g[e[k]] = From(q, k)
    BY <2>2, <2>3, <2>4
  <2> QED BY <2>1, <2>5
<1>16. m - 1 \in Good
  <2> HIDE DEF Good
  <2>1. m - 1 \in Nat
    OBVIOUS
  <2>2. 0 .. m - 1 \subseteq Good
    BY <1>14, <1>15, <2>1, NoCounterexample
  <2> QED BY <2>1, <2>2
<1>17. g[e[1]] = From(q, 1)
  <2>1. m - (m - 1) = 1
    OBVIOUS
  <2> QED BY <1>16, <2>1
<1> QED BY <1>2, <1>7, <1>8, <1>17


-----------------------------------------------------------------------------
(***************************************************************************)
(* What the search for the best pair after every merge does.               *)
(***************************************************************************)
Joined(p, k) ==
    [i \in 1 .. Len(p) - 1 |-> IF i < k THEN p[i] ELSE IF i = k THEN p[i] \o p[i + 1] ELSE p[i + 1]]
Pairs(a, p) == {i \in 1 .. Len(p) - 1 : CanMerge(a, p[i], p[i + 1])}
KeyAt(a, p, i) == Key(a, p[i], p[i + 1])
IsBest(a, p, k) ==
    /\ k \in Pairs(a, p)
    /\ \A j \in Pairs(a, p) : KeyAt(a, p, k) < KeyAt(a, p, j) \/ (KeyAt(a, p, k) = KeyAt(a, p, j) /\ k <= j)
Rounds(a, q, r) ==
    /\ r \in [0 .. Len(q) -> Seq(Rows(Int))] /\ r[0] = q
    /\ \A n \in 1 .. Len(q) : r[n] = MergeBest(a, r[n - 1])

LEMMA KeyType ==
  ASSUME NEW a, NEW l \in Rows(Int), NEW r \in Rows(Int), CanMerge(a, l, r)
  PROVE  Key(a, l, r) \in Int
<1>1. CASE a = "merges"
  <2> PICK x : x = <<l, r>>
    OBVIOUS
  <2> DEFINE T == {i \in DOMAIN Merges : Merges[i] = x}
  <2>1. DOMAIN Merges \subseteq Nat
    BY BpeAssumption
  <2>2. T # {}
    BY <1>1 DEF CanMerge
  <2>3. T \subseteq Nat
    BY <2>1
  <2> HIDE DEF T
  <2>4. PICK i \in T : \A j \in T : i <= j
    BY <2>2, <2>3, LeastNumber
  <2>5. Key(a, l, r) = CHOOSE k \in DOMAIN Merges :
            Merges[k] = x /\ \A j \in DOMAIN Merges : Merges[j] = x => k <= j
    BY <1>1 DEF Key
  <2>6. \E k \in DOMAIN Merges : Merges[k] = x /\ \A j \in DOMAIN Merges : Merges[j] = x => k <= j
    BY <2>4 DEF T
  <2>7. Key(a, l, r) \in DOMAIN Merges
    BY <2>5, <2>6
  <2> QED BY <2>1, <2>7
<1>2. CASE a # "merges"
  <2>1. l \o r \in DOMAIN Vocabulary /\ Key(a, l, r) = -Vocabulary[l \o r]
    BY <1>2 DEF CanMerge, Key
  <2>2. Vocabulary[l \o r] \in Int
    BY <2>1, BpeAssumption
  <2> QED BY <2>1, <2>2
<1> QED BY <1>1, <1>2

LEMMA KeyAtType ==
  ASSUME NEW a, NEW p \in Seq(Rows(Int)), NEW i \in Pairs(a, p)
  PROVE  KeyAt(a, p, i) \in Int /\ i \in Int
<1>1. i \in 1 .. Len(p) /\ i + 1 \in 1 .. Len(p) /\ CanMerge(a, p[i], p[i + 1])
  BY LenNat DEF Pairs
<1>2. p[i] \in Rows(Int) /\ p[i + 1] \in Rows(Int)
  BY <1>1, ElementOfSeq
<1>3. Key(a, p[i], p[i + 1]) \in Int
  BY <1>1, <1>2, KeyType
<1> QED BY <1>1, <1>3 DEF KeyAt

LEMMA BestUnique ==
  ASSUME NEW a, NEW p \in Seq(Rows(Int)), NEW k, NEW i, IsBest(a, p, k), IsBest(a, p, i)
  PROVE  i = k
<1>1. k \in Pairs(a, p) /\ i \in Pairs(a, p)
  BY DEF IsBest
<1>2. KeyAt(a, p, i) \in Int /\ i \in Int /\ KeyAt(a, p, k) \in Int /\ k \in Int
  BY <1>1, KeyAtType
<1>3. KeyAt(a, p, k) < KeyAt(a, p, i) \/ (KeyAt(a, p, k) = KeyAt(a, p, i) /\ k <= i)
  BY <1>1 DEF IsBest
<1>4. KeyAt(a, p, i) < KeyAt(a, p, k) \/ (KeyAt(a, p, i) = KeyAt(a, p, k) /\ i <= k)
  BY <1>1 DEF IsBest
<1> QED BY <1>2, <1>3, <1>4

LEMMA MergeBestIs ==
  ASSUME NEW a, NEW p \in Seq(Rows(Int)), NEW k, IsBest(a, p, k)
  PROVE  MergeBest(a, p) = Joined(p, k)
<1> DEFINE best == CHOOSE i \in Pairs(a, p) :
              \A j \in Pairs(a, p) : KeyAt(a, p, i) < KeyAt(a, p, j) \/ (KeyAt(a, p, i) = KeyAt(a, p, j) /\ i <= j)
<1>1. k \in Pairs(a, p)
  BY DEF IsBest
<1>2. IsBest(a, p, best)
  BY DEF IsBest
<1>3. best = k
  BY <1>2, BestUnique
<1>4. MergeBest(a, p) = Joined(p, best)
  BY <1>1 DEF MergeBest, Pairs, KeyAt, Joined
<1> QED BY <1>3, <1>4

LEMMA MergeBestNone ==
  ASSUME NEW a, NEW p, Pairs(a, p) = {}
  PROVE  MergeBest(a, p) = p
BY DEF MergeBest, Pairs

LEMMA JoinedType ==
  ASSUME NEW p \in Seq(Rows(Int)), NEW k, Len(p) # 0
  PROVE  Joined(p, k) \in Seq(Rows(Int)) /\ Len(Joined(p, k)) = Len(p) - 1
<1>0. Len(p) \in Nat /\ Len(p) - 1 \in Nat
  BY LenNat
<1>1. ASSUME NEW i \in 1 .. Len(p) - 1
      PROVE  p[i] \in Rows(Int) /\ p[i + 1] \in Rows(Int) /\ p[i] \o p[i + 1] \in Rows(Int)
  <2>1. i \in 1 .. Len(p) /\ i + 1 \in 1 .. Len(p)
    BY <1>0
  <2>2. p[i] \in Rows(Int) /\ p[i + 1] \in Rows(Int)
    BY <2>1, ElementOfSeq
  <2> QED BY <2>2, RowsConcat
<1>2. Joined(p, k) \in [1 .. Len(p) - 1 -> Rows(Int)]
  BY <1>1 DEF Joined
<1>3. Joined(p, k) \in Rows(Rows(Int)) /\ Len(Joined(p, k)) = Len(p) - 1
  BY <1>0, <1>2, RowMap
<1> QED BY <1>3 DEF Rows

LEMMA MergeBestType ==
  ASSUME NEW a, NEW p \in Seq(Rows(Int))
  PROVE  MergeBest(a, p) \in Seq(Rows(Int))
<1>1. CASE Pairs(a, p) = {}
  BY <1>1, MergeBestNone
<1>2. CASE Pairs(a, p) # {}
  <2> DEFINE best == CHOOSE i \in Pairs(a, p) :
              \A j \in Pairs(a, p) : KeyAt(a, p, i) < KeyAt(a, p, j) \/ (KeyAt(a, p, i) = KeyAt(a, p, j) /\ i <= j)
  <2>1. MergeBest(a, p) = Joined(p, best)
    BY <1>2 DEF MergeBest, Pairs, KeyAt, Joined
  <2>2. Len(p) # 0
    BY <1>2 DEF Pairs
  <2> HIDE DEF best
  <2>3. Joined(p, best) \in Seq(Rows(Int))
    BY <2>2, JoinedType
  <2> QED BY <2>1, <2>3
<1> QED BY <1>1, <1>2

LEMMA RoundsExist ==
  ASSUME NEW a, NEW q \in Seq(Rows(Int))
  PROVE  \E r : Rounds(a, q, r)
<1> PICK n \in Nat : n = Len(q)
  BY LenNat
<1> DEFINE S == Seq(Rows(Int))
           step == [i \in 1 .. n |-> [s \in S |-> MergeBest(a, s)]]
<1>1. step \in Steps(S, n)
  BY MergeBestType DEF Steps
<1>2. \A i \in 1 .. n : \A s \in S : step[i][s] = MergeBest(a, s)
  OBVIOUS
<1>3. q \in S
  OBVIOUS
<1> HIDE DEF step, S
<1>4. PICK f \in Runs(S, q, n, step) : TRUE
  BY <1>1, <1>3, LoopExists
<1>5. f \in [0 .. n -> S] /\ f[0] = q /\ \A i \in 1 .. n : f[i] = step[i][f[i - 1]]
  BY <1>4 DEF Runs
<1>6. ASSUME NEW i \in 1 .. n PROVE f[i] = MergeBest(a, f[i - 1])
  <2>1. i - 1 \in 0 .. n
    OBVIOUS
  <2>2. f[i - 1] \in S
    BY <1>5, <2>1
  <2> QED BY <1>2, <1>5, <2>2
<1>7. Rounds(a, q, f)
  BY <1>5, <1>6 DEF Rounds, S
<1> QED BY <1>7

LEMMA RescanIs ==
  ASSUME NEW a, NEW q \in Seq(Rows(Int)), NEW r, Rounds(a, q, r)
  PROVE  Rescan(a, q) = r[Len(q)] /\ Rescan(a, q) \in Seq(Rows(Int))
<1> PICK n \in Nat : n = Len(q)
  BY LenNat
<1>1. r \in [0 .. n -> Seq(Rows(Int))] /\ r[0] = q /\ \A i \in 1 .. n : r[i] = MergeBest(a, r[i - 1])
  BY DEF Rounds
<1> DEFINE Body(h) == [i \in 0 .. n |-> IF i = 0 THEN q ELSE MergeBest(a, h[i - 1])]
<1>2. Rescan(a, q) = (CHOOSE h : h = Body(h))[n]
  BY DEF Rescan
<1>3. r = Body(r)
  <2>1. \A i \in 0 .. n : r[i] = IF i = 0 THEN q ELSE MergeBest(a, r[i - 1])
    BY <1>1
  <2> QED BY <1>1, <2>1
<1> PICK g : g = CHOOSE h : h = Body(h)
  OBVIOUS
<1>4. g = Body(g)
  BY <1>3
<1>5. \A i \in 0 .. n : g[i] = IF i = 0 THEN q ELSE MergeBest(a, g[i - 1])
  BY <1>4
<1> DEFINE Good == {i \in 0 .. n : g[i] = r[i]}
<1>6. 0 \in Good
  BY <1>1, <1>5
<1>7. ASSUME NEW k \in 0 .. n - 1, k \in Good PROVE k + 1 \in Good
  <2>1. k + 1 \in 1 .. n /\ k + 1 \in 0 .. n /\ (k + 1) - 1 = k /\ k + 1 # 0
    OBVIOUS
  <2>2. r[k + 1] = MergeBest(a, r[(k + 1) - 1]) /\ g[k + 1] = MergeBest(a, g[(k + 1) - 1])
    BY <1>1, <1>5, <2>1
  <2> QED BY <1>7, <2>1, <2>2
<1>8. g[n] = r[n]
  <2> HIDE DEF Good
  <2>1. 0 .. n \subseteq Good
    BY <1>6, <1>7, NoCounterexample
  <2> QED BY <2>1 DEF Good
<1> QED BY <1>1, <1>2, <1>8

LEMMA RescanStops ==
  ASSUME NEW a, NEW q \in Seq(Rows(Int)), NEW r, Rounds(a, q, r), NEW i \in 0 .. Len(q), NEW p, r[i] = p,
         Pairs(a, p) = {}
  PROVE  Rescan(a, q) = p
<1> PICK n \in Nat : n = Len(q)
  BY LenNat
<1>1. \A j \in 1 .. n : r[j] = MergeBest(a, r[j - 1])
  BY DEF Rounds
<1>2. MergeBest(a, p) = p
  BY MergeBestNone
<1> DEFINE Good == {k \in 0 .. n - i : r[i + k] = p}
<1>3. 0 \in Good
  OBVIOUS
<1>4. ASSUME NEW k \in 0 .. (n - i) - 1, k \in Good PROVE k + 1 \in Good
  <2>1. i + (k + 1) \in 1 .. n /\ (i + (k + 1)) - 1 = i + k /\ k + 1 \in 0 .. n - i
    OBVIOUS
  <2>2. r[i + (k + 1)] = MergeBest(a, r[(i + (k + 1)) - 1])
    BY <1>1, <2>1
  <2> QED BY <1>2, <1>4, <2>1, <2>2
<1>5. r[n] = p
  <2> HIDE DEF Good
  <2>1. n - i \in Nat
    OBVIOUS
  <2>2. 0 .. n - i \subseteq Good
    BY <1>3, <1>4, <2>1, NoCounterexample
  <2>3. n - i \in Good /\ i + (n - i) = n
    BY <2>1, <2>2
  <2> QED BY <2>3 DEF Good
<1> QED BY <1>5, RescanIs

-----------------------------------------------------------------------------
(***************************************************************************)
(* A merge takes one cut away.                                             *)
(***************************************************************************)
Drop(m, e, k) == [i \in 1 .. m |-> IF i <= k THEN e[i] ELSE e[i + 1]]
WithLen(x, v) == [x EXCEPT !.len = v]
WithNext(x, v) == [x EXCEPT !.next = v]
WithPrev(x, v) == [x EXCEPT !.prev = v]
SetLen(s, i, v) == [s EXCEPT ![i].len = v]
SetNext(s, i, v) == [s EXCEPT ![i].next = v]
Absorbed(s, l, r, len, after) == [s EXCEPT ![l].len = len, ![l].next = after, ![r].len = 0]
Behind(s, j, l) == [s EXCEPT ![j].prev = l]
Spliced(s, l, r, len, after) ==
    IF after = NoSymbol THEN Absorbed(s, l, r, len, after) ELSE Behind(Absorbed(s, l, r, len, after), after, l)
\* u is s, but for what an update of its symbols changes.
Symbols(n, u) == u \in [1 .. n -> SymbolSet(n)]
LenSet(n, s, l, v, u) ==
    \A i \in 1 .. n : /\ u[i].start = s[i].start /\ u[i].prev = s[i].prev /\ u[i].next = s[i].next
                      /\ u[i].len = IF i = l THEN v ELSE s[i].len
NextSet(n, s, l, v, u) ==
    \A i \in 1 .. n : /\ u[i].start = s[i].start /\ u[i].prev = s[i].prev /\ u[i].len = s[i].len
                      /\ u[i].next = IF i = l THEN v ELSE s[i].next
PrevSet(n, s, l, v, u) ==
    \A i \in 1 .. n : /\ u[i].start = s[i].start /\ u[i].next = s[i].next /\ u[i].len = s[i].len
                      /\ u[i].prev = IF i = l THEN v ELSE s[i].prev
AbsorbedSet(n, s, l, r, len, after, u) ==
    \A i \in 1 .. n : /\ u[i].start = s[i].start /\ u[i].prev = s[i].prev
                      /\ u[i].len = IF i = l THEN len ELSE IF i = r THEN 0 ELSE s[i].len
                      /\ u[i].next = IF i = l THEN after ELSE s[i].next
SplicedSet(n, s, l, r, len, after, u) ==
    \A i \in 1 .. n : /\ u[i].start = s[i].start
                      /\ u[i].len = IF i = l THEN len ELSE IF i = r THEN 0 ELSE s[i].len
                      /\ u[i].next = IF i = l THEN after ELSE s[i].next
                      /\ u[i].prev = IF i = after THEN l ELSE s[i].prev

LEMMA DropCuts ==
  ASSUME NEW n \in Nat, NEW m \in Nat, NEW e \in Cuts(n, m), NEW k \in 1 .. m - 1
  PROVE  Drop(m, e, k) \in Cuts(n, m - 1)
<1> PICK d : d = Drop(m, e, k)
  OBVIOUS
<1>1. \A i \in 1 .. m : d[i] = IF i <= k THEN e[i] ELSE e[i + 1]
  BY DEF Drop
<1>2. (m - 1) + 1 = m
  OBVIOUS
<1>3. e \in [1 .. m + 1 -> 1 .. n + 1] /\ e[1] = 1 /\ e[m + 1] = n + 1 /\ \A i, j \in 1 .. m + 1 : i < j => e[i] < e[j]
  BY DEF Cuts
<1>4. d \in [1 .. m -> 1 .. n + 1]
  BY <1>3 DEF Drop
<1>5. d[1] = 1 /\ d[m] = n + 1
  BY <1>1, <1>3
<1>6. ASSUME NEW i \in 1 .. m, NEW j \in 1 .. m, i < j PROVE d[i] < d[j]
  <2>1. i \in 1 .. m + 1 /\ j \in 1 .. m + 1 /\ i + 1 \in 1 .. m + 1 /\ j + 1 \in 1 .. m + 1
    OBVIOUS
  <2>2. e[i] < e[j] /\ e[i + 1] < e[j + 1] /\ e[i] < e[j + 1]
    BY <1>3, <1>6, <2>1
  <2> QED BY <1>1, <1>6, <2>2
<1> QED BY <1>2, <1>4, <1>5, <1>6 DEF Cuts

LEMMA SymbolWith ==
  ASSUME NEW n \in Nat, NEW x \in SymbolSet(n), NEW v \in Int
  PROVE  /\ WithNext(x, v) \in SymbolSet(n) /\ WithNext(x, v).start = x.start /\ WithNext(x, v).len = x.len
         /\ WithNext(x, v).prev = x.prev /\ WithNext(x, v).next = v
         /\ WithPrev(x, v) \in SymbolSet(n) /\ WithPrev(x, v).start = x.start /\ WithPrev(x, v).len = x.len
         /\ WithPrev(x, v).next = x.next /\ WithPrev(x, v).prev = v
BY DEF SymbolSet, WithNext, WithPrev

LEMMA SymbolWithLen ==
  ASSUME NEW n \in Nat, NEW x \in SymbolSet(n), NEW v \in 0 .. n
  PROVE  /\ WithLen(x, v) \in SymbolSet(n) /\ WithLen(x, v).start = x.start /\ WithLen(x, v).len = v
         /\ WithLen(x, v).prev = x.prev /\ WithLen(x, v).next = x.next
BY DEF SymbolSet, WithLen

LEMMA LenAt ==
  ASSUME NEW n \in Nat, NEW s, Symbols(n, s), NEW l \in 1 .. n, NEW v \in 0 .. n
  PROVE  Symbols(n, SetLen(s, l, v)) /\ LenSet(n, s, l, v, SetLen(s, l, v))
<1> DEFINE y == WithLen(s[l], v)
<1>1. s[l] \in SymbolSet(n)
  BY DEF Symbols
<1>2. y \in SymbolSet(n) /\ y.start = s[l].start /\ y.prev = s[l].prev /\ y.next = s[l].next /\ y.len = v
  BY <1>1, SymbolWithLen
<1>3. SetLen(s, l, v) = [s EXCEPT ![l] = y]
  BY DEF SetLen, WithLen
<1> HIDE DEF y
<1> QED BY <1>2, <1>3 DEF Symbols, LenSet

LEMMA NextAt ==
  ASSUME NEW n \in Nat, NEW s, Symbols(n, s), NEW l \in 1 .. n, NEW v \in Int
  PROVE  Symbols(n, SetNext(s, l, v)) /\ NextSet(n, s, l, v, SetNext(s, l, v))
<1> DEFINE y == WithNext(s[l], v)
<1>1. s[l] \in SymbolSet(n)
  BY DEF Symbols
<1>2. y \in SymbolSet(n) /\ y.start = s[l].start /\ y.prev = s[l].prev /\ y.next = v /\ y.len = s[l].len
  BY <1>1, SymbolWith
<1>3. SetNext(s, l, v) = [s EXCEPT ![l] = y]
  BY DEF SetNext, WithNext
<1> HIDE DEF y
<1> QED BY <1>2, <1>3 DEF Symbols, NextSet

LEMMA BehindAt ==
  ASSUME NEW n \in Nat, NEW s, Symbols(n, s), NEW l \in 1 .. n, NEW j \in 1 .. n
  PROVE  Symbols(n, Behind(s, j, l)) /\ PrevSet(n, s, j, l, Behind(s, j, l))
<1> DEFINE y == WithPrev(s[j], l)
<1>1. s[j] \in SymbolSet(n) /\ l \in Int
  BY DEF Symbols
<1>2. y \in SymbolSet(n) /\ y.start = s[j].start /\ y.prev = l /\ y.next = s[j].next /\ y.len = s[j].len
  BY <1>1, SymbolWith
<1>3. Behind(s, j, l) = [s EXCEPT ![j] = y]
  BY DEF Behind, WithPrev
<1> HIDE DEF y
<1> QED BY <1>2, <1>3 DEF Symbols, PrevSet

LEMMA AbsorbedAt ==
  ASSUME NEW n \in Nat, NEW s, Symbols(n, s), NEW l \in 1 .. n, NEW r \in 1 .. n, l # r,
         NEW len \in 0 .. n, NEW after \in Int
  PROVE  /\ Symbols(n, Absorbed(s, l, r, len, after))
         /\ AbsorbedSet(n, s, l, r, len, after, Absorbed(s, l, r, len, after))
<1> DEFINE v == SetLen(s, l, len)
           w == SetNext(v, l, after)
           u == SetLen(w, r, 0)
<1>1. Symbols(n, v) /\ LenSet(n, s, l, len, v)
  BY LenAt
<1> HIDE DEF v
<1>2. Symbols(n, w) /\ NextSet(n, v, l, after, w)
  BY <1>1, NextAt
<1> HIDE DEF w
<1>3. Symbols(n, u) /\ LenSet(n, w, r, 0, u)
  <2>1. 0 \in 0 .. n
    OBVIOUS
  <2> QED BY <1>2, <2>1, LenAt
<1>4. Absorbed(s, l, r, len, after) = u
  BY DEF Absorbed, SetLen, SetNext, v, w
<1> HIDE DEF u
<1>5. AbsorbedSet(n, s, l, r, len, after, u)
  BY <1>1, <1>2, <1>3 DEF LenSet, NextSet, AbsorbedSet
<1> QED BY <1>3, <1>4, <1>5

LEMMA SplicedAt ==
  ASSUME NEW n \in Nat, NEW s, Symbols(n, s), NEW l \in 1 .. n, NEW r \in 1 .. n, l # r,
         NEW len \in 0 .. n, NEW after \in {NoSymbol} \cup (1 .. n)
  PROVE  /\ Symbols(n, Spliced(s, l, r, len, after))
         /\ SplicedSet(n, s, l, r, len, after, Spliced(s, l, r, len, after))
<1> DEFINE v == Absorbed(s, l, r, len, after)
           u == Spliced(s, l, r, len, after)
<1>1. Symbols(n, v) /\ AbsorbedSet(n, s, l, r, len, after, v)
  <2>1. after \in Int
    BY DEF NoSymbol
  <2> QED BY <2>1, AbsorbedAt
<1> HIDE DEF v
<1>2. CASE after = NoSymbol
  <2>1. u = v /\ \A i \in 1 .. n : i # after
    BY <1>2 DEF Spliced, NoSymbol, v
  <2> HIDE DEF u
  <2>2. SplicedSet(n, s, l, r, len, after, u)
    BY <1>1, <2>1 DEF AbsorbedSet, SplicedSet
  <2> QED BY <1>1, <2>1, <2>2 DEF u
<1>3. CASE after # NoSymbol
  <2>1. u = Behind(v, after, l) /\ after \in 1 .. n
    BY <1>3 DEF Spliced, v
  <2>2. Symbols(n, Behind(v, after, l)) /\ PrevSet(n, v, after, l, Behind(v, after, l))
    BY <1>1, <2>1, BehindAt
  <2> HIDE DEF u
  <2>3. SplicedSet(n, s, l, r, len, after, u)
    BY <1>1, <2>1, <2>2 DEF AbsorbedSet, PrevSet, SplicedSet
  <2> QED BY <2>1, <2>2, <2>3 DEF u
<1> QED BY <1>2, <1>3

LEMMA MergeLinked ==
  ASSUME NEW n \in Nat, NEW m \in Nat, NEW e \in Cuts(n, m), NEW s, Linked(n, m, e, s), NEW k \in 1 .. m - 1,
         NEW after, after = s[e[k + 1]].next
  PROVE  /\ e[k] \in 1 .. n /\ e[k + 1] \in 1 .. n /\ e[k] # e[k + 1] /\ after \in {NoSymbol} \cup (1 .. n)
         /\ Linked(n, m - 1, Drop(m, e, k), Spliced(s, e[k], e[k + 1], e[k + 2] - e[k], after))
<1>1. k \in 1 .. m /\ k + 1 \in 1 .. m /\ k + 2 \in 1 .. m + 1 /\ (k + 1) + 1 = k + 2 /\ m - 1 \in Nat
  OBVIOUS
<1> PICK l, r, c : l = e[k] /\ r = e[k + 1] /\ c = e[k + 2]
  OBVIOUS
<1>2. l \in 1 .. n /\ r \in 1 .. n /\ c \in 1 .. n + 1 /\ l < r /\ r < c
  <2>1. e[k] \in 1 .. n /\ e[k + 1] \in 1 .. n + 1 /\ e[k] < e[k + 1]
    BY <1>1, CutAt
  <2>2. e[k + 1] \in 1 .. n /\ e[(k + 1) + 1] \in 1 .. n + 1 /\ e[k + 1] < e[(k + 1) + 1]
    BY <1>1, CutAt
  <2> QED BY <1>1, <2>1, <2>2
<1>3. /\ s \in [1 .. n -> SymbolSet(n)]
      /\ \A i \in 1 .. n : s[i].start = i
      /\ \A j \in 1 .. m : /\ s[e[j]].len = e[j + 1] - e[j]
                           /\ s[e[j]].prev = IF j = 1 THEN NoSymbol ELSE e[j - 1]
                           /\ s[e[j]].next = IF j = m THEN NoSymbol ELSE e[j + 1]
      /\ \A i \in 1 .. n : s[i].len # 0 => \E j \in 1 .. m : i = e[j]
  BY DEF Linked
<1>4. after = IF k + 1 = m THEN NoSymbol ELSE c
  <2>1. s[e[k + 1]].next = IF k + 1 = m THEN NoSymbol ELSE e[(k + 1) + 1]
    BY <1>1, <1>3
  <2> QED BY <1>1, <2>1
<1>5. after \in {NoSymbol} \cup (1 .. n)
  <2>1. CASE k + 1 = m
    BY <1>4, <2>1
  <2>2. CASE k + 1 # m
    <3>1. k + 2 \in 1 .. m
      BY <2>2
    <3>2. e[k + 2] \in 1 .. n
      BY <3>1, CutAt
    <3> QED BY <1>4, <2>2, <3>2
  <2> QED BY <2>1, <2>2
<1> DEFINE u == Spliced(s, l, r, c - l, after)
<1> HIDE DEF u
<1>6. /\ u \in [1 .. n -> SymbolSet(n)]
      /\ \A i \in 1 .. n : /\ u[i].start = s[i].start
                           /\ u[i].len = IF i = l THEN c - l ELSE IF i = r THEN 0 ELSE s[i].len
                           /\ u[i].next = IF i = l THEN after ELSE s[i].next
                           /\ u[i].prev = IF i = after THEN l ELSE s[i].prev
  <2>1. c - l \in 0 .. n /\ l # r
    BY <1>2
  <2>2. Symbols(n, s)
    BY <1>3 DEF Symbols
  <2>3. Symbols(n, u) /\ SplicedSet(n, s, l, r, c - l, after, u)
    BY <1>2, <1>5, <2>1, <2>2, SplicedAt DEF u
  <2> QED BY <2>3 DEF Symbols, SplicedSet
<1> PICK d : d = Drop(m, e, k)
  OBVIOUS
<1>7. \A i \in 1 .. m : d[i] = IF i <= k THEN e[i] ELSE e[i + 1]
  BY DEF Drop
<1>8. \A i, j \in 1 .. m + 1 : e[i] = e[j] => i = j
  BY CutInjective
<1>9. \A i \in 1 .. m : e[i] \in 1 .. n
  BY CutAt
<1>10. ASSUME NEW j \in 1 .. m - 1
       PROVE  /\ u[d[j]].len = d[j + 1] - d[j]
              /\ u[d[j]].prev = IF j = 1 THEN NoSymbol ELSE d[j - 1]
              /\ u[d[j]].next = IF j = m - 1 THEN NoSymbol ELSE d[j + 1]
  <2>1. CASE j < k
    <3>1. j \in 1 .. m /\ j + 1 <= k /\ j \in 1 .. m + 1 /\ k \in 1 .. m + 1 /\ k + 1 \in 1 .. m + 1 /\ j + 1 \in 1 .. m
      BY <2>1
    <3>2. d[j] = e[j] /\ d[j + 1] = e[j + 1]
      BY <1>7, <2>1, <3>1
    <3>3. e[j] # l /\ e[j] # r /\ e[j] \in 1 .. n
      BY <1>8, <1>9, <2>1, <3>1
    <3>4. e[j] # after
      <4>1. CASE after = NoSymbol
        BY <3>3, <4>1 DEF NoSymbol
      <4>2. CASE after # NoSymbol
        BY <1>1, <1>4, <1>8, <2>1, <3>1, <4>2
      <4> QED BY <4>1, <4>2
    <3>5. u[e[j]].len = s[e[j]].len /\ u[e[j]].prev = s[e[j]].prev /\ u[e[j]].next = s[e[j]].next
      BY <1>6, <3>3, <3>4
    <3>6. s[e[j]].len = e[j + 1] - e[j] /\ s[e[j]].prev = (IF j = 1 THEN NoSymbol ELSE e[j - 1]) /\ s[e[j]].next = e[j + 1]
      BY <1>3, <2>1, <3>1
    <3>7. j # 1 => d[j - 1] = e[j - 1]
      BY <1>7, <2>1
    <3> QED BY <2>1, <3>2, <3>5, <3>6, <3>7
  <2>2. CASE j = k
    <3>1. d[j] = l /\ d[j + 1] = c
      BY <1>1, <1>7, <2>2
    <3>2. l # after
      BY <1>2, <1>4 DEF NoSymbol
    <3>3. u[l].len = c - l /\ u[l].prev = s[l].prev /\ u[l].next = after
      BY <1>2, <1>6, <3>2
    <3>4. s[l].prev = IF k = 1 THEN NoSymbol ELSE e[k - 1]
      BY <1>1, <1>3
    <3>5. k # 1 => d[k - 1] = e[k - 1]
      BY <1>7
    <3> QED BY <1>4, <2>2, <3>1, <3>3, <3>4, <3>5
  <2>3. CASE j > k
    <3>1. j + 1 \in 1 .. m /\ k \in 1 .. m + 1 /\ k + 1 \in 1 .. m + 1 /\ j + 1 \in 1 .. m + 1 /\ (j + 1) + 1 = j + 2 /\ (j + 1) - 1 = j
      BY <2>3
    <3>2. d[j] = e[j + 1] /\ d[j + 1] = e[j + 2]
      BY <1>7, <2>3, <3>1
    <3>3. e[j + 1] # l /\ e[j + 1] # r /\ e[j + 1] \in 1 .. n
      BY <1>8, <1>9, <2>3, <3>1
    <3>4. u[e[j + 1]].len = s[e[j + 1]].len /\ u[e[j + 1]].next = s[e[j + 1]].next
      BY <1>6, <3>3
    <3>5. s[e[j + 1]].len = e[j + 2] - e[j + 1] /\ s[e[j + 1]].prev = e[j] /\ s[e[j + 1]].next = IF j + 1 = m THEN NoSymbol ELSE e[j + 2]
      <4>1. /\ s[e[j + 1]].len = e[(j + 1) + 1] - e[j + 1]
            /\ s[e[j + 1]].prev = IF j + 1 = 1 THEN NoSymbol ELSE e[(j + 1) - 1]
            /\ s[e[j + 1]].next = IF j + 1 = m THEN NoSymbol ELSE e[(j + 1) + 1]
        BY <1>3, <3>1
      <4> QED BY <2>3, <3>1, <4>1
    <3>6. u[e[j + 1]].prev = d[j - 1]
      <4>1. CASE j = k + 1
        <5>1. after = e[j + 1]
          BY <1>1, <1>4, <4>1
        <5>2. d[j - 1] = l
          BY <1>7, <4>1
        <5> QED BY <1>6, <3>3, <5>1, <5>2
      <4>2. CASE j # k + 1
        <5>1. j - 1 > k /\ j - 1 \in 1 .. m /\ (j - 1) + 1 = j
          BY <2>3, <4>2
        <5>2. d[j - 1] = e[j]
          BY <1>7, <5>1
        <5>3. e[j + 1] # after
          <6>1. CASE after = NoSymbol
            BY <3>3, <6>1 DEF NoSymbol
          <6>2. CASE after # NoSymbol
            BY <1>1, <1>4, <1>8, <3>1, <4>2, <6>2
          <6> QED BY <6>1, <6>2
        <5> QED BY <1>6, <3>3, <3>5, <5>2, <5>3
      <4> QED BY <4>1, <4>2
    <3> QED BY <2>3, <3>2, <3>4, <3>5, <3>6
  <2> QED BY <2>1, <2>2, <2>3
<1>11. ASSUME NEW i \in 1 .. n, u[i].len # 0 PROVE \E j \in 1 .. m - 1 : i = d[j]
  <2>1. CASE i = l
    <3>1. d[k] = l
      BY <1>1, <1>7
    <3> QED BY <2>1, <3>1
  <2>2. CASE i # l
    <3>1. i # r /\ s[i].len # 0
      BY <1>6, <1>11, <2>2
    <3>2. PICK j \in 1 .. m : i = e[j]
      BY <1>3, <3>1
    <3>3. j # k /\ j # k + 1
      BY <2>2, <3>1, <3>2
    <3>4. CASE j < k
      <4>1. j \in 1 .. m - 1 /\ d[j] = e[j]
        BY <1>7, <3>4
      <4> QED BY <3>2, <4>1
    <3>5. CASE j > k + 1
      <4>1. j - 1 \in 1 .. m - 1 /\ j - 1 \in 1 .. m /\ ~(j - 1 <= k) /\ (j - 1) + 1 = j
        BY <3>5
      <4>2. d[j - 1] = e[j]
        BY <1>7, <4>1
      <4> QED BY <3>2, <4>1, <4>2
    <3> QED BY <3>3, <3>4, <3>5
  <2> QED BY <2>1, <2>2
<1>12. \A i \in 1 .. n : u[i].start = i
  BY <1>3, <1>6
<1>13. Linked(n, m - 1, d, u)
  BY <1>6, <1>10, <1>11, <1>12 DEF Linked
<1> QED BY <1>2, <1>5, <1>13 DEF u

-----------------------------------------------------------------------------
(***************************************************************************)
(* The invariant of one segment: s links its m pieces, what waits has the  *)
(* key of the pair it was recorded for, every pair that may be merged      *)
(* waits, and the pieces are those that the search has after as many       *)
(* merges.                                                                 *)
(***************************************************************************)
Recorded(a, t, c) ==
    /\ c = [key |-> c.key, left |-> c.left, right |-> c.right, len |-> c.len]
    /\ c.left \in 1 .. Len(t) /\ c.right \in 1 .. Len(t) /\ c.len \in 1 .. Len(t)
    /\ CanMerge(a, Span(t, c.left, c.right), Span(t, c.right, c.left + c.len))
    /\ c.key = Key(a, Span(t, c.left, c.right), Span(t, c.right, c.left + c.len))
Waiting(a, t, cs, m, e) == \A k \in 1 .. m - 1 : Fits(a, t, e, k) => Entry(a, t, e, k) \in cs
Follows(a, t, m, e) == \A r : Rounds(a, Letters(t), r) => r[Len(t) - m] = PiecesOf(t, m, e)
KnownPieces(t, m, e) == \A k \in 1 .. m : Known(Span(t, e[k], e[k + 1]))
Segmented(a, t, s, cs, m, e) ==
    /\ m \in 1 .. Len(t) /\ e \in Cuts(Len(t), m) /\ Linked(Len(t), m, e, s)
    /\ \A c \in cs : Recorded(a, t, c)
    /\ Waiting(a, t, cs, m, e) /\ KnownPieces(t, m, e) /\ Follows(a, t, m, e)
StaleIn(s, c) ==
    \/ s[c.left].len = 0 \/ s[c.right].len = 0
    \/ s[c.left].next # c.right
    \/ s[c.left].len + s[c.right].len # c.len
FirstIn(cs, c) == \A d \in cs : c.key < d.key \/ (c.key = d.key /\ c.left <= d.left)

LEMMA ThreeCuts ==
  ASSUME NEW n \in Nat, NEW m \in Nat, NEW e \in Cuts(n, m), NEW k \in 1 .. m - 1
  PROVE  e[k] \in 1 .. n /\ e[k + 1] \in 1 .. n /\ e[k + 2] \in 1 .. n + 1 /\ e[k] < e[k + 1] /\ e[k + 1] < e[k + 2]
<1>1. k \in 1 .. m /\ k + 1 \in 1 .. m /\ (k + 1) + 1 = k + 2
  OBVIOUS
<1>2. e[k] \in 1 .. n /\ e[k + 1] \in 1 .. n + 1 /\ e[k] < e[k + 1]
  BY <1>1, CutAt
<1>3. e[k + 1] \in 1 .. n /\ e[(k + 1) + 1] \in 1 .. n + 1 /\ e[k + 1] < e[(k + 1) + 1]
  BY <1>1, CutAt
<1> QED BY <1>1, <1>2, <1>3

LEMMA EntryRecorded ==
  ASSUME NEW a, NEW t \in Rows(Int), NEW m \in Nat, NEW e \in Cuts(Len(t), m), NEW k \in 1 .. m - 1, Fits(a, t, e, k)
  PROVE  Recorded(a, t, Entry(a, t, e, k))
<1> PICK n \in Nat : n = Len(t)
  BY RowFacts
<1>1. e[k] \in 1 .. n /\ e[k + 1] \in 1 .. n /\ e[k + 2] \in 1 .. n + 1 /\ e[k] < e[k + 1] /\ e[k + 1] < e[k + 2]
  BY ThreeCuts
<1>2. e[k + 2] - e[k] \in 1 .. n /\ e[k] + (e[k + 2] - e[k]) = e[k + 2]
  BY <1>1
<1> DEFINE c == Entry(a, t, e, k)
<1>3. /\ c.key = Key(a, Span(t, e[k], e[k + 1]), Span(t, e[k + 1], e[k + 2]))
      /\ c.left = e[k] /\ c.right = e[k + 1] /\ c.len = e[k + 2] - e[k]
      /\ c = [key |-> c.key, left |-> c.left, right |-> c.right, len |-> c.len]
  BY DEF Entry
<1>4. CanMerge(a, Span(t, e[k], e[k + 1]), Span(t, e[k + 1], e[k + 2]))
  BY DEF Fits
<1>5. c.left + c.len = e[k + 2]
  BY <1>2, <1>3
<1> HIDE DEF c
<1>6. Recorded(a, t, c)
  BY <1>1, <1>2, <1>3, <1>4, <1>5 DEF Recorded
<1> QED BY <1>6 DEF c

LEMMA LettersIs ==
  ASSUME NEW t \in Rows(Int)
  PROVE  /\ Letters(t) \in Seq(Rows(Int)) /\ Len(Letters(t)) = Len(t)
         /\ \A k \in 1 .. Len(t) : Letters(t)[k] = <<t[k]>>
<1>1. Len(t) \in Nat /\ \A i \in 1 .. Len(t) : t[i] \in Int
  BY RowFacts
<1>2. \A i \in 1 .. Len(t) : <<t[i]>> \in Rows(Int)
  BY <1>1 DEF Rows
<1>3. Letters(t) \in [1 .. Len(t) -> Rows(Int)]
  BY <1>2 DEF Letters
<1>4. Letters(t) \in Rows(Rows(Int)) /\ Len(Letters(t)) = Len(t)
  BY <1>1, <1>3, RowMap
<1> QED BY <1>4 DEF Rows, Letters

LEMMA OneIs == ASSUME NEW X, NEW w \in Rows(X), Len(w) = 1 PROVE w = <<w[1]>>
BY DEF Rows

LEMMA SpanOne ==
  ASSUME NEW X, NEW t \in Rows(X), NEW k \in 1 .. Len(t)
  PROVE  Span(t, k, k + 1) = <<t[k]>>
<1>1. Len(t) \in Nat /\ \A i \in 1 .. Len(t) : t[i] \in X
  BY RowFacts
<1>2. (k + 1) - 1 = k /\ k \in Int /\ \A i \in k .. k : t[i] \in X
  BY <1>1
<1>3. /\ SubSeq(t, k, k) \in Seq(X) /\ Len(SubSeq(t, k, k)) = k - k + 1
      /\ \A i \in 1 .. k - k + 1 : SubSeq(t, k, k)[i] = t[k + i - 1]
  BY <1>2, SubSeqProperties
<1>4. k - k + 1 = 1 /\ k + 1 - 1 = k
  BY <1>1
<1>5. SubSeq(t, k, k) \in Rows(X) /\ Len(SubSeq(t, k, k)) = 1 /\ SubSeq(t, k, k)[1] = t[k]
  BY <1>3, <1>4 DEF Rows
<1>6. Span(t, k, k + 1) \in Rows(X) /\ Len(Span(t, k, k + 1)) = 1 /\ Span(t, k, k + 1)[1] = t[k]
  BY <1>2, <1>5 DEF Span
<1>7. Span(t, k, k + 1) = <<Span(t, k, k + 1)[1]>>
  BY <1>6, OneIs
<1> QED BY <1>6, <1>7

LEMMA KnownJoin ==
  ASSUME NEW a, NEW l \in Rows(Int), NEW r \in Rows(Int), CanMerge(a, l, r)
  PROVE  Known(l \o r)
<1>1. CASE a = "merges"
  <2>1. PICK i \in DOMAIN Merges : Merges[i] = <<l, r>>
    BY <1>1 DEF CanMerge
  <2>2. <<l, r>> \in Range(Merges)
    BY <2>1 DEF Range
  <2>3. \A p \in Range(Merges) : Space \in Range(p[1] \o p[2]) => p[1] \o p[2] \in DOMAIN Vocabulary
    BY BpeAssumption
  <2> QED BY <2>2, <2>3 DEF Known
<1>2. CASE a # "merges"
  BY <1>2 DEF CanMerge, Known
<1> QED BY <1>1, <1>2

Identity(n) == [i \in 1 .. n + 1 |-> i]

LEMMA StartLinked ==
  ASSUME NEW n \in Nat, n # 0
  PROVE  Identity(n) \in Cuts(n, n) /\ Linked(n, n, Identity(n), Characters(n))
<1> DEFINE e == Identity(n)
           s == Characters(n)
<1>1. e \in [1 .. n + 1 -> 1 .. n + 1] /\ \A i \in 1 .. n + 1 : e[i] = i
  BY DEF Identity
<1>2. /\ s \in [1 .. n -> SymbolSet(n)]
      /\ \A i \in 1 .. n : /\ s[i].start = i /\ s[i].len = 1
                           /\ s[i].prev = IF i = 1 THEN NoSymbol ELSE i - 1
                           /\ s[i].next = IF i = n THEN NoSymbol ELSE i + 1
  BY DEF Characters, SymbolSet, NoSymbol
<1> HIDE DEF e, s
<1>3. e \in Cuts(n, n)
  BY <1>1 DEF Cuts
<1>4. ASSUME NEW k \in 1 .. n
      PROVE  /\ s[e[k]].len = e[k + 1] - e[k]
             /\ s[e[k]].prev = IF k = 1 THEN NoSymbol ELSE e[k - 1]
             /\ s[e[k]].next = IF k = n THEN NoSymbol ELSE e[k + 1]
  <2>1. k \in 1 .. n + 1 /\ k + 1 \in 1 .. n + 1 /\ (k # 1 => k - 1 \in 1 .. n + 1)
    OBVIOUS
  <2>2. e[k] = k /\ e[k + 1] = k + 1 /\ (k # 1 => e[k - 1] = k - 1)
    BY <1>1, <2>1
  <2>3. s[k].len = 1 /\ s[k].prev = (IF k = 1 THEN NoSymbol ELSE k - 1) /\ s[k].next = (IF k = n THEN NoSymbol ELSE k + 1)
    BY <1>2
  <2> QED BY <2>2, <2>3
<1>5. \A i \in 1 .. n : \E k \in 1 .. n : i = e[k]
  BY <1>1
<1>6. Linked(n, n, e, s)
  BY <1>2, <1>4, <1>5 DEF Linked
<1> QED BY <1>3, <1>6 DEF e, s

StartCands(a, t, n) == UNION {Candidates(a, t, Characters(n), i, i + 1) : i \in 1 .. (n - 1)}

LEMMA StartCandsAre ==
  ASSUME NEW a, NEW t \in Rows(Int), NEW n \in Nat, n # 0, n = Len(t)
  PROVE  /\ \A c \in StartCands(a, t, n) : Recorded(a, t, c)
         /\ Waiting(a, t, StartCands(a, t, n), n, Identity(n))
<1> DEFINE e == Identity(n)
           s == Characters(n)
<1>1. \A i \in 1 .. n + 1 : e[i] = i
  BY DEF Identity
<1>2. e \in Cuts(n, n) /\ Linked(n, n, e, s)
  BY StartLinked
<1> HIDE DEF e
<1>3. ASSUME NEW i \in 1 .. n - 1 PROVE Candidates(a, t, s, i, i + 1) = EntryIf(a, t, e, i)
  <2>1. Candidates(a, t, s, e[i], e[i + 1]) = EntryIf(a, t, e, i)
    BY <1>2, CandidatesAt
  <2>2. e[i] = i /\ e[i + 1] = i + 1
    BY <1>1
  <2> QED BY <2>1, <2>2
<1>4. StartCands(a, t, n) = UNION {EntryIf(a, t, e, i) : i \in 1 .. n - 1}
  BY <1>3 DEF StartCands
<1>5. ASSUME NEW c \in StartCands(a, t, n) PROVE Recorded(a, t, c)
  <2>1. PICK i \in 1 .. n - 1 : c \in EntryIf(a, t, e, i)
    BY <1>4
  <2>2. Fits(a, t, e, i) /\ c = Entry(a, t, e, i)
    BY <2>1 DEF EntryIf
  <2>3. Recorded(a, t, Entry(a, t, e, i))
    BY <1>2, <2>2, EntryRecorded
  <2> QED BY <2>2, <2>3
<1>6. ASSUME NEW k \in 1 .. n - 1, Fits(a, t, e, k) PROVE Entry(a, t, e, k) \in StartCands(a, t, n)
  <2>1. Entry(a, t, e, k) \in EntryIf(a, t, e, k)
    BY <1>6 DEF EntryIf
  <2> QED BY <1>4, <2>1
<1>7. Waiting(a, t, StartCands(a, t, n), n, e)
  BY <1>6 DEF Waiting
<1> QED BY <1>5, <1>7 DEF e

LEMMA StartPieces ==
  ASSUME NEW t \in Rows(Int), NEW n \in Nat, n # 0, n = Len(t)
  PROVE  PiecesOf(t, n, Identity(n)) = Letters(t) /\ KnownPieces(t, n, Identity(n))
<1> DEFINE e == Identity(n)
<1>1. \A i \in 1 .. n + 1 : e[i] = i
  BY DEF Identity
<1> HIDE DEF e
<1>2. \A k \in 1 .. n : Span(t, e[k], e[k + 1]) = <<t[k]>>
  <2>1. ASSUME NEW k \in 1 .. n PROVE Span(t, e[k], e[k + 1]) = <<t[k]>>
    <3>1. e[k] = k /\ e[k + 1] = k + 1
      BY <1>1
    <3>2. Span(t, k, k + 1) = <<t[k]>>
      BY SpanOne
    <3> QED BY <3>1, <3>2
  <2> QED BY <2>1
<1>3. PiecesOf(t, n, e) = Letters(t)
  BY <1>2 DEF PiecesOf, Letters
<1>4. ASSUME NEW k \in 1 .. n PROVE Known(<<t[k]>>)
  <2>1. Space \in Range(<<t[k]>>) => t[k] = Space
    BY DEF Range
  <2> QED BY <2>1, BpeAssumption DEF Known
<1>5. KnownPieces(t, n, e)
  BY <1>2, <1>4 DEF KnownPieces
<1> QED BY <1>3, <1>5 DEF e

LEMMA SegmentStarts ==
  ASSUME NEW a, NEW t \in Rows(Int), NEW n \in Nat, n # 0, n = Len(t)
  PROVE  Segmented(a, t, Characters(n), StartCands(a, t, n), n, Identity(n))
<1>1. n \in 1 .. Len(t) /\ Identity(n) \in Cuts(Len(t), n) /\ Linked(Len(t), n, Identity(n), Characters(n))
  BY StartLinked
<1>2. /\ \A c \in StartCands(a, t, n) : Recorded(a, t, c)
      /\ Waiting(a, t, StartCands(a, t, n), n, Identity(n))
  BY StartCandsAre
<1>3. PiecesOf(t, n, Identity(n)) = Letters(t) /\ KnownPieces(t, n, Identity(n))
  BY StartPieces
<1>4. Follows(a, t, n, Identity(n))
  <2>1. Len(t) - n = 0
    OBVIOUS
  <2> QED BY <1>3, <2>1 DEF Follows, Rounds
<1> QED BY <1>1, <1>2, <1>3, <1>4 DEF Segmented

\* What waits for a pair of neighbours is not stale.
LEMMA EntryFresh ==
  ASSUME NEW a, NEW t, NEW n \in Nat, NEW m \in Nat, NEW e \in Cuts(n, m), NEW s, Linked(n, m, e, s), NEW k \in 1 .. m - 1
  PROVE  ~StaleIn(s, Entry(a, t, e, k))
<1>1. k \in 1 .. m /\ k + 1 \in 1 .. m /\ (k + 1) + 1 = k + 2 /\ k # m
  OBVIOUS
<1>2. e[k] \in 1 .. n /\ e[k + 1] \in 1 .. n /\ e[k + 2] \in 1 .. n + 1 /\ e[k] < e[k + 1] /\ e[k + 1] < e[k + 2]
  BY ThreeCuts
<1>3. s[e[k]].len = e[k + 1] - e[k] /\ s[e[k]].next = e[k + 1]
  BY <1>1 DEF Linked
<1>4. s[e[k + 1]].len = e[k + 2] - e[k + 1]
  <2>1. s[e[k + 1]].len = e[(k + 1) + 1] - e[k + 1]
    BY <1>1 DEF Linked
  <2> QED BY <1>1, <2>1
<1> DEFINE c == Entry(a, t, e, k)
<1>5. c.left = e[k] /\ c.right = e[k + 1] /\ c.len = e[k + 2] - e[k]
  BY DEF Entry
<1> HIDE DEF c
<1>6. ~StaleIn(s, c)
  BY <1>2, <1>3, <1>4, <1>5 DEF StaleIn
<1> QED BY <1>6 DEF c

LEMMA SegmentSkips ==
  ASSUME NEW a, NEW t \in Rows(Int), NEW s, NEW cs, NEW m, NEW e, Segmented(a, t, s, cs, m, e),
         NEW c \in cs, StaleIn(s, c)
  PROVE  Segmented(a, t, s, cs \ {c}, m, e)
<1>1. m \in Nat /\ Len(t) \in Nat /\ e \in Cuts(Len(t), m) /\ Linked(Len(t), m, e, s) /\ Waiting(a, t, cs, m, e)
  BY RowFacts DEF Segmented
<1>2. ASSUME NEW k \in 1 .. m - 1, Fits(a, t, e, k) PROVE Entry(a, t, e, k) \in cs \ {c}
  <2>1. Entry(a, t, e, k) \in cs
    BY <1>1, <1>2 DEF Waiting
  <2>2. ~StaleIn(s, Entry(a, t, e, k))
    BY <1>1, EntryFresh
  <2> QED BY <2>1, <2>2
<1>3. Waiting(a, t, cs \ {c}, m, e)
  BY <1>2 DEF Waiting
<1> QED BY <1>3 DEF Segmented

\* What comes up and is not stale waits for two neighbours.
LEMMA FreshEntry ==
  ASSUME NEW a, NEW t \in Rows(Int), NEW s, NEW cs, NEW m, NEW e, Segmented(a, t, s, cs, m, e),
         NEW c \in cs, ~StaleIn(s, c)
  PROVE  \E k \in 1 .. m - 1 : c = Entry(a, t, e, k) /\ Fits(a, t, e, k)
<1> PICK n \in Nat : n = Len(t)
  BY RowFacts
<1>1. m \in Nat /\ e \in Cuts(n, m) /\ Linked(n, m, e, s) /\ Recorded(a, t, c)
  BY DEF Segmented
<1>2. c.left \in 1 .. n /\ c.right \in 1 .. n /\ s[c.left].len # 0 /\ s[c.left].next = c.right /\ s[c.left].len + s[c.right].len = c.len
  BY <1>1 DEF StaleIn, Recorded
<1>3. PICK k \in 1 .. m : c.left = e[k]
  BY <1>1, <1>2 DEF Linked
<1>4. k # m /\ c.right = e[k + 1]
  <2>1. s[e[k]].next = IF k = m THEN NoSymbol ELSE e[k + 1]
    BY <1>1 DEF Linked
  <2>2. c.right # NoSymbol
    BY <1>2 DEF NoSymbol
  <2> QED BY <1>2, <1>3, <2>1, <2>2
<1>5. k \in 1 .. m - 1 /\ k + 1 \in 1 .. m /\ (k + 1) + 1 = k + 2
  BY <1>1, <1>4
<1>6. e[k] \in 1 .. n /\ e[k + 1] \in 1 .. n /\ e[k + 2] \in 1 .. n + 1
  BY <1>1, <1>5, ThreeCuts
<1>7. c.len = e[k + 2] - e[k] /\ c.left + c.len = e[k + 2]
  <2>1. s[e[k]].len = e[k + 1] - e[k]
    BY <1>1 DEF Linked
  <2>2. s[e[k + 1]].len = e[(k + 1) + 1] - e[k + 1]
    BY <1>1, <1>5 DEF Linked
  <2> QED BY <1>2, <1>3, <1>4, <1>5, <1>6, <2>1, <2>2
<1>8. /\ c = [key |-> c.key, left |-> c.left, right |-> c.right, len |-> c.len]
      /\ CanMerge(a, Span(t, c.left, c.right), Span(t, c.right, c.left + c.len))
      /\ c.key = Key(a, Span(t, c.left, c.right), Span(t, c.right, c.left + c.len))
  BY <1>1 DEF Recorded
<1>9. Fits(a, t, e, k)
  BY <1>3, <1>4, <1>7, <1>8 DEF Fits
<1>10. c = Entry(a, t, e, k)
  BY <1>3, <1>4, <1>7, <1>8 DEF Entry
<1> QED BY <1>5, <1>9, <1>10

Renewed(a, t, u, cs, c) == (cs \ {c}) \cup Candidates(a, t, u, u[c.left].prev, c.left)
                                      \cup Candidates(a, t, u, c.left, u[c.left].next)

LEMMA NoCandidates ==
  ASSUME NEW a, NEW t, NEW s, NEW l
  PROVE  Candidates(a, t, s, NoSymbol, l) = {} /\ Candidates(a, t, s, l, NoSymbol) = {}
BY DEF Candidates

\* What comes up and is not stale is the best pair of all.
LEMMA TopPair ==
  ASSUME NEW a, NEW t \in Rows(Int), NEW s, NEW cs, NEW m, NEW e, Segmented(a, t, s, cs, m, e),
         NEW c \in cs, FirstIn(cs, c), NEW k \in 1 .. m - 1, c = Entry(a, t, e, k), Fits(a, t, e, k)
  PROVE  IsBest(a, PiecesOf(t, m, e), k)
<1> PICK n \in Nat : n = Len(t)
  BY RowFacts
<1>1. m \in Nat /\ e \in Cuts(n, m) /\ Waiting(a, t, cs, m, e)
  BY DEF Segmented
<1> PICK p : p = PiecesOf(t, m, e)
  OBVIOUS
<1>2. Len(p) = m /\ \A j \in 1 .. m : p[j] = Span(t, e[j], e[j + 1])
  BY <1>1, PiecesType
<1>3. \A j \in 1 .. m - 1 : p[j] = Span(t, e[j], e[j + 1]) /\ p[j + 1] = Span(t, e[j + 1], e[j + 2])
  <2>1. ASSUME NEW j \in 1 .. m - 1
        PROVE  p[j] = Span(t, e[j], e[j + 1]) /\ p[j + 1] = Span(t, e[j + 1], e[j + 2])
    <3>1. j \in 1 .. m /\ j + 1 \in 1 .. m /\ (j + 1) + 1 = j + 2
      BY <1>1
    <3>2. p[j + 1] = Span(t, e[j + 1], e[(j + 1) + 1])
      BY <1>2, <3>1
    <3> QED BY <1>2, <3>1, <3>2
  <2> QED BY <2>1
<1>4. \A j \in 1 .. m - 1 : j \in Pairs(a, p) <=> Fits(a, t, e, j)
  BY <1>2, <1>3 DEF Pairs, Fits
<1>5. \A j \in 1 .. m - 1 : KeyAt(a, p, j) = Entry(a, t, e, j).key /\ Entry(a, t, e, j).left = e[j]
  BY <1>3 DEF KeyAt, Entry
<1>6. Pairs(a, p) \subseteq 1 .. m - 1
  BY <1>2 DEF Pairs
<1>7. ASSUME NEW j \in Pairs(a, p)
      PROVE  KeyAt(a, p, k) < KeyAt(a, p, j) \/ (KeyAt(a, p, k) = KeyAt(a, p, j) /\ k <= j)
  <2>1. j \in 1 .. m - 1 /\ Fits(a, t, e, j)
    BY <1>4, <1>6
  <2> PICK d : d = Entry(a, t, e, j)
    OBVIOUS
  <2>2. d \in cs
    BY <1>1, <2>1 DEF Waiting
  <2>3. c.key < d.key \/ (c.key = d.key /\ c.left <= d.left)
    BY <2>2 DEF FirstIn
  <2>4. c.key = KeyAt(a, p, k) /\ c.left = e[k] /\ d.key = KeyAt(a, p, j) /\ d.left = e[j]
    BY <1>5, <2>1
  <2>5. e[k] <= e[j] => k <= j
    <3>1. k \in 1 .. m + 1 /\ j \in 1 .. m + 1
      BY <1>1, <2>1
    <3> QED BY <1>1, <3>1, CutInjective
  <2> QED BY <2>3, <2>4, <2>5
<1>8. k \in Pairs(a, p)
  BY <1>4
<1> QED BY <1>7, <1>8 DEF IsBest

\* The pieces after a merge.
LEMMA DropPieces ==
  ASSUME NEW t \in Rows(Int), NEW m \in Nat, NEW e \in Cuts(Len(t), m), NEW k \in 1 .. m - 1
  PROVE  PiecesOf(t, m - 1, Drop(m, e, k)) = Joined(PiecesOf(t, m, e), k)
<1> PICK n \in Nat : n = Len(t)
  BY RowFacts
<1> PICK p, d : p = PiecesOf(t, m, e) /\ d = Drop(m, e, k)
  OBVIOUS
<1>1. Len(p) = m /\ \A j \in 1 .. m : p[j] = Span(t, e[j], e[j + 1])
  BY PiecesType
<1>2. \A i \in 1 .. m : d[i] = IF i <= k THEN e[i] ELSE e[i + 1]
  BY DEF Drop
<1>3. ASSUME NEW i \in 1 .. m - 1
      PROVE  Span(t, d[i], d[i + 1]) = IF i < k THEN p[i] ELSE IF i = k THEN p[i] \o p[i + 1] ELSE p[i + 1]
  <2>1. i \in 1 .. m /\ i + 1 \in 1 .. m /\ (i + 1) + 1 = i + 2
    OBVIOUS
  <2>2. p[i] = Span(t, e[i], e[i + 1]) /\ p[i + 1] = Span(t, e[i + 1], e[i + 2])
    <3>1. p[i + 1] = Span(t, e[i + 1], e[(i + 1) + 1])
      BY <1>1, <2>1
    <3> QED BY <1>1, <2>1, <3>1
  <2>3. d[i] = (IF i <= k THEN e[i] ELSE e[i + 1]) /\ d[i + 1] = (IF i + 1 <= k THEN e[i + 1] ELSE e[i + 2])
    <3>1. d[i + 1] = IF i + 1 <= k THEN e[i + 1] ELSE e[(i + 1) + 1]
      BY <1>2, <2>1
    <3> QED BY <1>2, <2>1, <3>1
  <2>4. CASE i < k
    BY <2>2, <2>3, <2>4
  <2>5. CASE i = k
    <3>1. e[i] \in 1 .. n + 1 /\ e[i + 1] \in 1 .. n + 1 /\ e[i + 2] \in 1 .. n + 1 /\ e[i] <= e[i + 1] /\ e[i + 1] <= e[i + 2]
      <4>1. e[i] \in 1 .. n /\ e[i + 1] \in 1 .. n /\ e[i + 2] \in 1 .. n + 1 /\ e[i] < e[i + 1] /\ e[i + 1] < e[i + 2]
        BY ThreeCuts
      <4> QED BY <4>1
    <3>2. Span(t, e[i], e[i + 1]) \o Span(t, e[i + 1], e[i + 2]) = Span(t, e[i], e[i + 2])
      BY <3>1, SpanConcat
    <3>3. d[i] = e[i] /\ d[i + 1] = e[i + 2]
      BY <2>3, <2>5
    <3> QED BY <2>2, <2>5, <3>2, <3>3
  <2>6. CASE i > k
    <3>1. d[i] = e[i + 1] /\ d[i + 1] = e[i + 2] /\ ~(i < k) /\ i # k
      BY <2>3, <2>6
    <3> QED BY <2>2, <3>1
  <2> QED BY <2>4, <2>5, <2>6
<1> QED BY <1>1, <1>3 DEF PiecesOf, Joined

LEMMA DropKnown ==
  ASSUME NEW a, NEW t \in Rows(Int), NEW m \in Nat, NEW e \in Cuts(Len(t), m), NEW k \in 1 .. m - 1,
         Fits(a, t, e, k), KnownPieces(t, m, e)
  PROVE  KnownPieces(t, m - 1, Drop(m, e, k))
<1> PICK n \in Nat : n = Len(t)
  BY RowFacts
<1> PICK d : d = Drop(m, e, k)
  OBVIOUS
<1>2. \A i \in 1 .. m : d[i] = IF i <= k THEN e[i] ELSE e[i + 1]
  BY DEF Drop
<1>3. ASSUME NEW i \in 1 .. m - 1 PROVE Known(Span(t, d[i], d[i + 1]))
  <2>1. i \in 1 .. m /\ i + 1 \in 1 .. m /\ (i + 1) + 1 = i + 2
    OBVIOUS
  <2>2. Known(Span(t, e[i], e[i + 1])) /\ Known(Span(t, e[i + 1], e[i + 2]))
    <3>1. Known(Span(t, e[i + 1], e[(i + 1) + 1]))
      BY <2>1 DEF KnownPieces
    <3> QED BY <2>1, <3>1 DEF KnownPieces
  <2>3. d[i] = (IF i <= k THEN e[i] ELSE e[i + 1]) /\ d[i + 1] = (IF i + 1 <= k THEN e[i + 1] ELSE e[i + 2])
    <3>1. d[i + 1] = IF i + 1 <= k THEN e[i + 1] ELSE e[(i + 1) + 1]
      BY <1>2, <2>1
    <3> QED BY <1>2, <2>1, <3>1
  <2>4. CASE i < k
    BY <2>2, <2>3, <2>4
  <2>5. CASE i = k
    <3>1. e[i] \in 1 .. n + 1 /\ e[i + 1] \in 1 .. n + 1 /\ e[i + 2] \in 1 .. n + 1 /\ e[i] <= e[i + 1] /\ e[i + 1] <= e[i + 2]
      <4>1. e[i] \in 1 .. n /\ e[i + 1] \in 1 .. n /\ e[i + 2] \in 1 .. n + 1 /\ e[i] < e[i + 1] /\ e[i + 1] < e[i + 2]
        BY ThreeCuts
      <4> QED BY <4>1
    <3>2. Span(t, e[i], e[i + 1]) \o Span(t, e[i + 1], e[i + 2]) = Span(t, e[i], e[i + 2])
      BY <3>1, SpanConcat
    <3>3. d[i] = e[i] /\ d[i + 1] = e[i + 2]
      BY <2>3, <2>5
    <3>4. Span(t, e[i], e[i + 1]) \in Rows(Int) /\ Span(t, e[i + 1], e[i + 2]) \in Rows(Int)
      BY <3>1, SpanType
    <3>5. CanMerge(a, Span(t, e[i], e[i + 1]), Span(t, e[i + 1], e[i + 2]))
      BY <2>5 DEF Fits
    <3>6. Known(Span(t, e[i], e[i + 1]) \o Span(t, e[i + 1], e[i + 2]))
      BY <3>4, <3>5, KnownJoin
    <3> QED BY <3>2, <3>3, <3>6
  <2>6. CASE i > k
    BY <2>2, <2>3, <2>6
  <2> QED BY <2>4, <2>5, <2>6
<1> QED BY <1>3 DEF KnownPieces

\* A merge is one round of the search.
LEMMA DropFollows ==
  ASSUME NEW a, NEW t \in Rows(Int), NEW m \in Nat, NEW e \in Cuts(Len(t), m), NEW k \in 1 .. m - 1, m <= Len(t),
         IsBest(a, PiecesOf(t, m, e), k), Follows(a, t, m, e)
  PROVE  Follows(a, t, m - 1, Drop(m, e, k))
<1> PICK n \in Nat : n = Len(t)
  BY RowFacts
<1> PICK p : p = PiecesOf(t, m, e)
  OBVIOUS
<1> SUFFICES ASSUME NEW r, Rounds(a, Letters(t), r) PROVE r[Len(t) - (m - 1)] = PiecesOf(t, m - 1, Drop(m, e, k))
  BY DEF Follows
<1>1. p \in Seq(Rows(Int))
  BY PiecesType
<1>2. MergeBest(a, p) = Joined(p, k)
  BY <1>1, MergeBestIs
<1>3. Joined(p, k) = PiecesOf(t, m - 1, Drop(m, e, k))
  BY DropPieces
<1>4. r[n - m] = p
  BY DEF Follows
<1>5. Len(Letters(t)) = n
  BY LettersIs
<1>6. n - (m - 1) \in 1 .. n /\ (n - (m - 1)) - 1 = n - m
  OBVIOUS
<1>7. r[n - (m - 1)] = MergeBest(a, r[(n - (m - 1)) - 1])
  BY <1>5, <1>6 DEF Rounds
<1> QED BY <1>2, <1>3, <1>4, <1>6, <1>7

\* The new pairs of the merged piece are considered, the others keep waiting.
LEMMA DropWaits ==
  ASSUME NEW a, NEW t \in Rows(Int), NEW n \in Nat, n = Len(t), NEW m \in Nat, NEW e \in Cuts(n, m), NEW k \in 1 .. m - 1,
         NEW cs, Waiting(a, t, cs, m, e), \A c \in cs : Recorded(a, t, c),
         NEW c, c.left = e[k], NEW d, d = Drop(m, e, k), NEW u, Linked(n, m - 1, d, u)
  PROVE  Waiting(a, t, Renewed(a, t, u, cs, c), m - 1, d) /\ \A x \in Renewed(a, t, u, cs, c) : Recorded(a, t, x)
<1>1. \A i \in 1 .. m : d[i] = IF i <= k THEN e[i] ELSE e[i + 1]
  BY DEF Drop
<1>2. d \in Cuts(n, m - 1) /\ m - 1 \in Nat /\ k \in 1 .. m - 1
  BY DropCuts
<1>3. d[k] = e[k] /\ e[k] \in 1 .. n
  <2>1. k \in 1 .. m
    OBVIOUS
  <2> QED BY <1>1, <2>1, CutAt
<1>4. /\ u[e[k]].prev = IF k = 1 THEN NoSymbol ELSE d[k - 1]
      /\ u[e[k]].next = IF k = m - 1 THEN NoSymbol ELSE d[k + 1]
  BY <1>2, <1>3 DEF Linked
<1> DEFINE before == IF k = 1 THEN {} ELSE EntryIf(a, t, d, k - 1)
           behind == IF k = m - 1 THEN {} ELSE EntryIf(a, t, d, k)
<1>5. Candidates(a, t, u, u[e[k]].prev, e[k]) = before
  <2>1. CASE k = 1
    BY <1>4, <2>1, NoCandidates
  <2>2. CASE k # 1
    <3>1. k - 1 \in 1 .. (m - 1) - 1 /\ (k - 1) + 1 = k
      BY <2>2
    <3>2. Candidates(a, t, u, d[k - 1], d[(k - 1) + 1]) = EntryIf(a, t, d, k - 1)
      BY <1>2, <3>1, CandidatesAt
    <3> QED BY <1>3, <1>4, <2>2, <3>1, <3>2
  <2> QED BY <2>1, <2>2
<1>6. Candidates(a, t, u, e[k], u[e[k]].next) = behind
  <2>1. CASE k = m - 1
    BY <1>4, <2>1, NoCandidates
  <2>2. CASE k # m - 1
    <3>1. k \in 1 .. (m - 1) - 1
      BY <2>2
    <3>2. Candidates(a, t, u, d[k], d[k + 1]) = EntryIf(a, t, d, k)
      BY <1>2, <3>1, CandidatesAt
    <3> QED BY <1>3, <1>4, <2>2, <3>2
  <2> QED BY <2>1, <2>2
<1>7. Renewed(a, t, u, cs, c) = (cs \ {c}) \cup before \cup behind
  BY <1>5, <1>6 DEF Renewed
<1>8. ASSUME NEW j \in 1 .. (m - 1) - 1, Fits(a, t, d, j) PROVE Entry(a, t, d, j) \in Renewed(a, t, u, cs, c)
  <2>0. j \in 1 .. m /\ j + 1 \in 1 .. m /\ j + 2 \in 1 .. m /\ (j + 1) + 1 = j + 2 /\ (j + 2) + 1 = j + 3
    OBVIOUS
  <2>1. CASE j = k \/ j = k - 1
    BY <1>7, <1>8, <2>1 DEF EntryIf
  <2>2. CASE j < k - 1
    <3>1. d[j] = e[j] /\ d[j + 1] = e[j + 1] /\ d[j + 2] = e[j + 2]
      BY <1>1, <2>0, <2>2
    <3>2. Entry(a, t, d, j) = Entry(a, t, e, j) /\ Fits(a, t, e, j)
      BY <1>8, <3>1 DEF Entry, Fits
    <3>3. Entry(a, t, e, j) \in cs
      BY <3>2 DEF Waiting
    <3>4. Entry(a, t, e, j).left = e[j]
      BY DEF Entry
    <3>5. e[j] # e[k]
      <4>1. j \in 1 .. m + 1 /\ k \in 1 .. m + 1 /\ j # k
        BY <2>2
      <4> QED BY <4>1, CutInjective
    <3> QED BY <1>7, <3>2, <3>3, <3>4, <3>5
  <2>3. CASE j > k
    <3>1. d[j] = e[j + 1] /\ d[j + 1] = e[j + 2] /\ d[j + 2] = e[j + 3]
      <4>1. d[j] = e[j + 1]
        BY <1>1, <2>0, <2>3
      <4>2. d[j + 1] = e[(j + 1) + 1]
        BY <1>1, <2>0, <2>3
      <4>3. d[j + 2] = e[(j + 2) + 1]
        BY <1>1, <2>0, <2>3
      <4> QED BY <2>0, <4>1, <4>2, <4>3
    <3> PICK i : i = j + 1
      OBVIOUS
    <3>0. i \in 1 .. m - 1 /\ i + 1 = j + 2 /\ i + 2 = j + 3
      OBVIOUS
    <3>2. Entry(a, t, d, j) = Entry(a, t, e, i) /\ Fits(a, t, e, i)
      BY <1>8, <3>0, <3>1 DEF Entry, Fits
    <3>3. Entry(a, t, e, i) \in cs
      BY <3>0, <3>2 DEF Waiting
    <3>4. Entry(a, t, e, i).left = e[i]
      BY DEF Entry
    <3>5. e[i] # e[k]
      <4>1. i \in 1 .. m + 1 /\ k \in 1 .. m + 1 /\ i # k
        BY <2>3, <3>0
      <4> QED BY <4>1, CutInjective
    <3> QED BY <1>7, <3>2, <3>3, <3>4, <3>5
  <2> QED BY <2>1, <2>2, <2>3
<1>9. Waiting(a, t, Renewed(a, t, u, cs, c), m - 1, d)
  BY <1>8 DEF Waiting
<1>10. ASSUME NEW x \in Renewed(a, t, u, cs, c) PROVE Recorded(a, t, x)
  <2>1. CASE x \in cs
    BY <2>1
  <2>2. CASE x \in before
    <3>1. k # 1 /\ Fits(a, t, d, k - 1) /\ x = Entry(a, t, d, k - 1)
      BY <2>2 DEF EntryIf
    <3>2. k - 1 \in 1 .. (m - 1) - 1
      BY <3>1
    <3>3. Recorded(a, t, Entry(a, t, d, k - 1))
      BY <1>2, <3>1, <3>2, EntryRecorded
    <3> QED BY <3>1, <3>3
  <2>3. CASE x \in behind
    <3>1. k # m - 1 /\ Fits(a, t, d, k) /\ x = Entry(a, t, d, k)
      BY <2>3 DEF EntryIf
    <3>2. k \in 1 .. (m - 1) - 1
      BY <3>1
    <3>3. Recorded(a, t, Entry(a, t, d, k))
      BY <1>2, <3>1, <3>2, EntryRecorded
    <3> QED BY <3>1, <3>3
  <2> QED BY <1>7, <2>1, <2>2, <2>3
<1> QED BY <1>9, <1>10

SpliceOf(s, c) == Spliced(s, c.left, c.right, c.len, s[c.right].next)

LEMMA SegmentMerges ==
  ASSUME NEW a, NEW t \in Rows(Int), NEW s, NEW cs, NEW m, NEW e, Segmented(a, t, s, cs, m, e),
         NEW c \in cs, FirstIn(cs, c), ~StaleIn(s, c)
  PROVE  \E d : Segmented(a, t, SpliceOf(s, c), Renewed(a, t, SpliceOf(s, c), cs, c), m - 1, d)
<1> PICK n \in Nat : n = Len(t)
  BY RowFacts
<1>1. /\ m \in 1 .. n /\ m \in Nat /\ e \in Cuts(n, m) /\ Linked(n, m, e, s) /\ (\A x \in cs : Recorded(a, t, x))
      /\ Waiting(a, t, cs, m, e) /\ KnownPieces(t, m, e) /\ Follows(a, t, m, e)
  BY DEF Segmented
<1>2. PICK k \in 1 .. m - 1 : c = Entry(a, t, e, k) /\ Fits(a, t, e, k)
  BY FreshEntry
<1>3. c.left = e[k] /\ c.right = e[k + 1] /\ c.len = e[k + 2] - e[k]
  BY <1>2 DEF Entry
<1>4. IsBest(a, PiecesOf(t, m, e), k)
  BY <1>2, TopPair
<1> DEFINE d == Drop(m, e, k)
           u == SpliceOf(s, c)
<1>5. d \in Cuts(n, m - 1)
  BY <1>1, DropCuts
<1>6. Linked(n, m - 1, d, u)
  <2>1. Linked(n, m - 1, Drop(m, e, k), Spliced(s, e[k], e[k + 1], e[k + 2] - e[k], s[e[k + 1]].next))
    BY <1>1, MergeLinked
  <2> QED BY <1>3, <2>1 DEF SpliceOf
<1>7. KnownPieces(t, m - 1, d)
  BY <1>1, <1>2, DropKnown
<1>8. Follows(a, t, m - 1, d)
  <2>1. m <= Len(t)
    BY <1>1
  <2> QED BY <1>1, <1>4, <2>1, DropFollows
<1>9. Waiting(a, t, Renewed(a, t, u, cs, c), m - 1, d) /\ \A x \in Renewed(a, t, u, cs, c) : Recorded(a, t, x)
  <2> HIDE DEF u
  <2> QED BY <1>1, <1>3, <1>6, DropWaits
<1>10. m - 1 \in 1 .. n
  BY <1>1
<1> HIDE DEF d, u
<1>11. Segmented(a, t, u, Renewed(a, t, u, cs, c), m - 1, d)
  BY <1>5, <1>6, <1>7, <1>8, <1>9, <1>10 DEF Segmented
<1> QED BY <1>11 DEF u

\* When nothing waits the search has ended too.
LEMMA SegmentEnds ==
  ASSUME NEW a, NEW t \in Rows(Int), NEW s, NEW m, NEW e, Segmented(a, t, s, {}, m, e)
  PROVE  /\ PiecesFrom(t, s) = Rescan(a, Letters(t)) /\ PiecesFrom(t, s) \in Seq(Rows(Int))
         /\ Decoded(TokensOf(PiecesFrom(t, s))) = Blanked(t)
<1> PICK n \in Nat : n = Len(t)
  BY RowFacts
<1>1. /\ m \in 1 .. n /\ m \in Nat /\ e \in Cuts(n, m) /\ Linked(n, m, e, s)
      /\ Waiting(a, t, {}, m, e) /\ KnownPieces(t, m, e) /\ Follows(a, t, m, e)
  BY DEF Segmented
<1> PICK p : p = PiecesOf(t, m, e)
  OBVIOUS
<1>2. p \in Seq(Rows(Int)) /\ Len(p) = m /\ \A j \in 1 .. m : p[j] = Span(t, e[j], e[j + 1])
  BY <1>1, PiecesType
<1>3. PiecesFrom(t, s) = p
  <2>1. m # 0
    BY <1>1
  <2> QED BY <1>1, <2>1, WalkIs
<1>4. Pairs(a, p) = {}
  <2>1. ASSUME NEW j \in 1 .. m - 1 PROVE ~CanMerge(a, p[j], p[j + 1])
    <3>1. j \in 1 .. m /\ j + 1 \in 1 .. m /\ (j + 1) + 1 = j + 2
      BY <1>1
    <3>2. p[j + 1] = Span(t, e[j + 1], e[(j + 1) + 1]) /\ p[j] = Span(t, e[j], e[j + 1])
      BY <1>2, <3>1
    <3> QED BY <1>1, <3>1, <3>2 DEF Waiting, Fits
  <2> QED BY <1>2, <2>1 DEF Pairs
<1>5. Rescan(a, Letters(t)) = p
  <2>1. Letters(t) \in Seq(Rows(Int)) /\ Len(Letters(t)) = n
    BY LettersIs
  <2>2. PICK r : Rounds(a, Letters(t), r)
    BY <2>1, RoundsExist
  <2>3. r[n - m] = p /\ n - m \in 0 .. n
    BY <1>1, <2>2 DEF Follows
  <2> QED BY <1>4, <2>1, <2>2, <2>3, RescanStops
<1>6. Decoded(TokensOf(p)) = Blanked(FlattenSeq(p))
  <2>1. \A j \in 1 .. Len(p) : Known(p[j])
    BY <1>1, <1>2 DEF KnownPieces
  <2> QED BY <1>2, <2>1, DecodedPieces
<1>7. FlattenSeq(p) = t
  BY <1>1, PiecesJoin
<1> QED BY <1>2, <1>3, <1>5, <1>6, <1>7

-----------------------------------------------------------------------------
(***************************************************************************)
(* A segment is encoded to tokens that are decoded to it, with a blank in  *)
(* front; decode() takes that blank away.                                  *)
(***************************************************************************)
Clear(t) == \A i \in 1 .. Len(t) : t[i] # Space
Spaced(t) == [i \in DOMAIN t |-> IF t[i] = Blank THEN Space ELSE t[i]]
BlankFirst(t) == <<Blank>> \o t

LEMMA SpacedIs ==
  ASSUME NEW t \in Rows(Int)
  PROVE  /\ Spaced(t) \in Rows(Int) /\ Len(Spaced(t)) = Len(t)
         /\ Clear(t) => Blanked(Spaced(t)) = t
<1> PICK n \in Nat : n = Len(t)
  BY RowFacts
<1>1. DOMAIN t = 1 .. n /\ \A i \in 1 .. n : t[i] \in Int
  BY RowFacts
<1> DEFINE s == Spaced(t)
<1>2. s \in [1 .. n -> Int] /\ \A i \in 1 .. n : s[i] = IF t[i] = Blank THEN Space ELSE t[i]
  BY <1>1 DEF Spaced, Space
<1> HIDE DEF s
<1>3. s \in Rows(Int) /\ Len(s) = n
  BY <1>2, RowMap
<1>4. ASSUME Clear(t) PROVE Blanked(s) = t
  <2>1. /\ Blanked(s) \in Rows(Int) /\ Len(Blanked(s)) = n
        /\ \A i \in 1 .. n : Blanked(s)[i] = IF s[i] = Space THEN Blank ELSE s[i]
    BY <1>3, BlankedIs
  <2>2. \A i \in 1 .. n : Blanked(s)[i] = t[i]
    BY <1>2, <1>4, <2>1 DEF Clear
  <2> HIDE DEF s
  <2> QED BY <2>1, <2>2, RowEqual
<1> QED BY <1>3, <1>4 DEF s

LEMMA OneRow == ASSUME NEW X, NEW x \in X PROVE <<x>> \in Rows(X) /\ Len(<<x>>) = 1
BY DEF Rows

LEMMA NormalisedIs ==
  ASSUME NEW t \in Rows(Int)
  PROVE  /\ Normalised(t) \in Rows(Int)
         /\ t # <<>> => Normalised(t) # <<>> /\ Len(Normalised(t)) \in Nat \ {0}
         /\ t # <<>> /\ Clear(t) => Blanked(Normalised(t)) = BlankFirst(t)
<1>1. CASE t = <<>>
  BY <1>1 DEF Normalised, Rows
<1>2. CASE t # <<>>
  <2> PICK s : s = Spaced(t)
    OBVIOUS
  <2>1. s \in Rows(Int) /\ Len(s) = Len(t) /\ Len(t) \in Nat
    BY SpacedIs, RowFacts
  <2> PICK b : b = <<Space>>
    OBVIOUS
  <2>2. b \in Rows(Int) /\ Len(b) = 1
    BY OneRow DEF Space
  <2>3. Normalised(t) = b \o s
    BY <1>2 DEF Normalised, Spaced
  <2>4. b \o s \in Rows(Int) /\ Len(b \o s) = 1 + Len(t)
    BY <2>1, <2>2, RowConcat
  <2>5. Normalised(t) # <<>> /\ Len(Normalised(t)) \in Nat \ {0}
    BY <2>1, <2>3, <2>4
  <2>6. ASSUME Clear(t) PROVE Blanked(Normalised(t)) = BlankFirst(t)
    <3>1. Blanked(b \o s) = Blanked(b) \o Blanked(s)
      BY <2>1, <2>2, BlankedConcat
    <3>2. Blanked(s) = t
      BY <2>6, SpacedIs
    <3>3. Blanked(b) = <<Blank>>
      BY DEF Blanked
    <3> QED BY <2>3, <3>1, <3>2, <3>3 DEF BlankFirst
  <2> QED BY <1>2, <2>3, <2>4, <2>5, <2>6
<1> QED BY <1>1, <1>2

LEMMA BlankFirstIs ==
  ASSUME NEW t \in Rows(Int)
  PROVE  BlankFirst(t) # <<>> /\ BlankFirst(t)[1] = Blank /\ Tail(BlankFirst(t)) = t
<1> PICK b : b = <<Blank>>
  OBVIOUS
<1>1. b \in Rows(Int) /\ Len(b) = 1 /\ b[1] = Blank
  BY OneRow DEF Blank
<1> PICK n \in Nat : n = Len(t)
  BY RowFacts
<1> DEFINE s == b \o t
<1>2. /\ s \in Rows(Int) /\ Len(s) = 1 + n
      /\ \A i \in 1 .. 1 + n : s[i] = IF i <= 1 THEN b[i] ELSE t[i - 1]
  BY <1>1, RowConcat
<1> HIDE DEF s
<1>3. s # <<>> /\ s[1] = Blank
  BY <1>1, <1>2
<1>4. Tail(s) \in Rows(Int) /\ Len(Tail(s)) = n /\ \A i \in 1 .. n : Tail(s)[i] = s[i + 1]
  BY <1>2, <1>3, HeadTailProperties DEF Rows
<1>5. \A i \in 1 .. n : Tail(s)[i] = t[i]
  <2>1. ASSUME NEW i \in 1 .. n PROVE Tail(s)[i] = t[i]
    <3>1. i + 1 \in 1 .. 1 + n /\ ~(i + 1 <= 1) /\ (i + 1) - 1 = i
      OBVIOUS
    <3>2. s[i + 1] = t[(i + 1) - 1]
      BY <1>2, <3>1
    <3> QED BY <1>4, <3>1, <3>2
  <2> QED BY <2>1
<1> PICK w : w = Tail(s)
  OBVIOUS
<1>6. w = t
  BY <1>4, <1>5, RowEqual
<1>7. BlankFirst(t) = s
  BY DEF BlankFirst, s
<1> QED BY <1>3, <1>6, <1>7

LEMMA DecodeIs ==
  ASSUME NEW tokens, NEW t \in Rows(Int), Decoded(tokens) = BlankFirst(t) \/ (Decoded(tokens) = <<>> /\ t = <<>>)
  PROVE  decode(tokens) = t
<1>1. decode(tokens) = IF Decoded(tokens) # <<>> /\ Decoded(tokens)[1] = Blank THEN Tail(Decoded(tokens)) ELSE Decoded(tokens)
  BY DEF decode, Decoded, Texts0
<1>2. BlankFirst(t) # <<>> /\ BlankFirst(t)[1] = Blank /\ Tail(BlankFirst(t)) = t
  BY BlankFirstIs
<1>3. CASE Decoded(tokens) = BlankFirst(t)
  BY <1>1, <1>2, <1>3
<1>4. CASE Decoded(tokens) = <<>> /\ t = <<>>
  BY <1>1, <1>4
<1> QED BY <1>3, <1>4

-----------------------------------------------------------------------------
(***************************************************************************)
(* The parts of a text: what the tokens of a segment and of the control    *)
(* token behind it are.                                                    *)
(***************************************************************************)
LEMMA SegmentTokensType ==
  ASSUME NEW a, NEW t \in Rows(Int)
  PROVE  SegmentTokens(a, t) \in Rows(TokenSet)
<1> PICK s : s = Normalised(t)
  OBVIOUS
<1>1. s \in Rows(Int)
  BY NormalisedIs
<1>2. Letters(s) \in Seq(Rows(Int))
  BY <1>1, LettersIs
<1>3. PICK r : Rounds(a, Letters(s), r)
  BY <1>2, RoundsExist
<1>4. Rescan(a, Letters(s)) \in Seq(Rows(Int))
  BY <1>2, <1>3, RescanIs
<1>5. TokensOf(Rescan(a, Letters(s))) \in Rows(TokenSet)
  BY <1>4, TokensOfType
<1> QED BY <1>5 DEF SegmentTokens

LEMMA NoTokens ==
  ASSUME NEW a
  PROVE  SegmentTokens(a, <<>>) = <<>> /\ TokensOf(PiecesFrom(<<>>, <<>>)) = <<>> /\ Normalised(<<>>) = <<>>
<1>1. TokensOf(<<>>) = <<>>
  BY FlattenEmpty DEF TokensOf
<1>2. Normalised(<<>>) = <<>> /\ Letters(<<>>) = <<>> /\ PiecesFrom(<<>>, <<>>) = <<>>
  BY DEF Normalised, Letters, PiecesFrom
<1> PICK q : q = <<>>
  OBVIOUS
<1>3. q \in Seq(Rows(Int))
  OBVIOUS
<1>4. PICK r : Rounds(a, q, r)
  BY <1>3, RoundsExist
<1>5. Rescan(a, q) = r[Len(q)]
  BY <1>3, <1>4, RescanIs
<1>6. r[0] = q /\ Len(q) = 0
  BY <1>4 DEF Rounds
<1>7. Rescan(a, <<>>) = <<>>
  BY <1>5, <1>6
<1> QED BY <1>1, <1>2, <1>7 DEF SegmentTokens

\* d is where the segment of position i starts, less one.
Before(t, i, d) ==
    /\ d \in {0} \cup ControlAt(t) /\ d < i
    /\ \A c \in ControlAt(t) : c < i => c <= d
Parts(a, t) == [i \in 1 .. (Len(t) + 1) |-> Part(a, t, i)]
ControlToken(x) == Token("control", <<x>>)

LEMMA ControlType ==
  ASSUME NEW t \in Rows(Int)
  PROVE  ControlAt(t) \subseteq 1 .. Len(t) /\ Len(t) \in Nat
BY RowFacts DEF ControlAt

LEMMA BeforeIs ==
  ASSUME NEW t \in Rows(Int), NEW i \in Nat, NEW d, Before(t, i, d)
  PROVE  Max({0} \cup {c \in ControlAt(t) : c < i}) = d
<1> DEFINE S == {0} \cup {c \in ControlAt(t) : c < i}
<1>1. S \subseteq Nat
  BY ControlType
<1>2. d \in S /\ \A x \in S : d >= x
  BY <1>1, ControlType DEF Before
<1> HIDE DEF S
<1>3. \A x \in S : (\A y \in S : x >= y) => x = d
  BY <1>1, <1>2
<1>4. Max(S) = d
  BY <1>2, <1>3 DEF Max
<1> QED BY <1>4 DEF S

LEMMA BeforeExists ==
  ASSUME NEW t \in Rows(Int), NEW i \in 1 .. Len(t) + 1
  PROVE  \E d : Before(t, i, d)
<1> DEFINE S == {0} \cup {c \in ControlAt(t) : c < i}
           T == {i - c : c \in S}
<1>1. S \subseteq Nat /\ (\A c \in S : c < i) /\ i \in Nat
  BY ControlType
<1>2. T \subseteq Nat /\ T # {}
  BY <1>1
<1> HIDE DEF T
<1>3. PICK x \in T : \A y \in T : x <= y
  BY <1>2, LeastNumber
<1>4. PICK d \in S : x = i - d
  BY DEF T
<1>5. \A c \in S : i - d <= i - c
  BY <1>3, <1>4 DEF T
<1>6. \A c \in S : c <= d
  BY <1>1, <1>5
<1>7. Before(t, i, d)
  BY <1>1, <1>4, <1>6 DEF Before
<1> QED BY <1>7

LEMMA PartIs ==
  ASSUME NEW a, NEW t \in Rows(Int), NEW i \in 1 .. Len(t) + 1, NEW d, Before(t, i, d)
  PROVE  Part(a, t, i) =
            IF i = Len(t) + 1 THEN SegmentTokens(a, Span(t, d + 1, i))
            ELSE IF i \in ControlAt(t) THEN SegmentTokens(a, Span(t, d + 1, i)) \o <<ControlToken(t[i])>> ELSE <<>>
<1>1. Max({0} \cup {c \in ControlAt(t) : c < i}) = d
  <2>1. i \in Nat
    BY ControlType
  <2> QED BY <2>1, BeforeIs
<1>2. SegmentTokens(a, SubSeq(t, d + 1, i - 1)) = SegmentTokens(a, Span(t, d + 1, i))
  BY DEF Span
<1> QED BY <1>1, <1>2 DEF Part, ControlToken

LEMMA PartsType ==
  ASSUME NEW a, NEW t \in Rows(Int)
  PROVE  /\ Parts(a, t) \in Seq(Rows(TokenSet)) /\ Len(Parts(a, t)) = Len(t) + 1
         /\ \A i \in 1 .. Len(t) + 1 : Parts(a, t)[i] = Part(a, t, i)
         /\ EncodeByRescan(a, t) = FlattenSeq(Parts(a, t))
<1> PICK n \in Nat : n = Len(t)
  BY RowFacts
<1>1. ASSUME NEW i \in 1 .. n + 1 PROVE Part(a, t, i) \in Rows(TokenSet)
  <2>1. PICK d : Before(t, i, d)
    BY BeforeExists
  <2>2. d + 1 \in 1 .. n + 1
    BY <2>1, ControlType DEF Before
  <2>3. Span(t, d + 1, i) \in Rows(Int)
    BY <2>2, SpanType
  <2>4. SegmentTokens(a, Span(t, d + 1, i)) \in Rows(TokenSet)
    BY <2>3, SegmentTokensType
  <2>5. CASE i = n + 1
    <3>1. Part(a, t, i) = SegmentTokens(a, Span(t, d + 1, i))
      BY <2>1, <2>5, PartIs
    <3> QED BY <2>4, <3>1
  <2>6. CASE i # n + 1 /\ i \in ControlAt(t)
    <3>1. Part(a, t, i) = SegmentTokens(a, Span(t, d + 1, i)) \o <<ControlToken(t[i])>>
      BY <2>1, <2>6, PartIs
    <3>2. t[i] \in Int
      BY <2>6, RowFacts
    <3>3. ControlToken(t[i]) \in TokenSet
      BY <3>2 DEF ControlToken, Token, TokenSet, Rows
    <3>4. <<ControlToken(t[i])>> \in Rows(TokenSet)
      BY <3>3, OneRow
    <3>5. SegmentTokens(a, Span(t, d + 1, i)) \o <<ControlToken(t[i])>> \in Rows(TokenSet)
      BY <2>4, <3>4, RowConcat
    <3> QED BY <3>1, <3>5
  <2>7. CASE i # n + 1 /\ i \notin ControlAt(t)
    <3>1. Part(a, t, i) = <<>>
      BY <2>1, <2>7, PartIs
    <3> QED BY <3>1 DEF Rows
  <2> QED BY <2>5, <2>6, <2>7
<1>2. Parts(a, t) \in [1 .. n + 1 -> Rows(TokenSet)]
  BY <1>1 DEF Parts
<1>3. Parts(a, t) \in Rows(Rows(TokenSet)) /\ Len(Parts(a, t)) = n + 1
  BY <1>2, RowMap
<1>4. EncodeByRescan(a, t) = FlattenSeq(Parts(a, t))
  BY DEF EncodeByRescan, Parts
<1> QED BY <1>3, <1>4 DEF Parts, Rows

-----------------------------------------------------------------------------
(***************************************************************************)
(* What is left of a text behind a control token.                          *)
(***************************************************************************)
Suffix(t, d) == Span(t, d + 1, Len(t) + 1)
After(u, g) == SubSeq(u, g + 1, Len(u))

LEMMA SpanIs ==
  ASSUME NEW X, NEW t \in Rows(X), NEW a \in 1 .. Len(t) + 1, NEW b \in a .. Len(t) + 1
  PROVE  /\ Span(t, a, b) \in Rows(X) /\ Len(Span(t, a, b)) = b - a
         /\ \A i \in 1 .. b - a : Span(t, a, b)[i] = t[(a + i) - 1]
<1>1. \A i \in 1 .. Len(t) : t[i] \in X
  BY RowFacts
<1>2. Len(t) \in Nat
  BY RowFacts
<1>3. a \in Int /\ b - 1 \in Int /\ \A i \in a .. b - 1 : t[i] \in X
  BY <1>1, <1>2
<1>4. /\ SubSeq(t, a, b - 1) \in Seq(X)
      /\ Len(SubSeq(t, a, b - 1)) = IF a <= b - 1 THEN (b - 1) - a + 1 ELSE 0
      /\ \A i \in 1 .. (b - 1) - a + 1 : SubSeq(t, a, b - 1)[i] = t[a + i - 1]
  BY <1>3, SubSeqProperties
<1>5. (b - 1) - a + 1 = b - a /\ (IF a <= b - 1 THEN (b - 1) - a + 1 ELSE 0) = b - a
  BY <1>2
<1> QED BY <1>4, <1>5 DEF Span, Rows

LEMMA SpanOfSpan ==
  ASSUME NEW X, NEW t \in Rows(X), NEW a \in 1 .. Len(t) + 1, NEW b \in a .. Len(t) + 1,
         NEW x \in 1 .. (b - a) + 1, NEW y \in x .. (b - a) + 1
  PROVE  Span(Span(t, a, b), x, y) = Span(t, (a + x) - 1, (a + y) - 1)
<1>0. Len(t) \in Nat
  BY RowFacts
<1> DEFINE u == Span(t, a, b)
           v == Span(u, x, y)
           w == Span(t, (a + x) - 1, (a + y) - 1)
<1>1. u \in Rows(X) /\ Len(u) = b - a /\ \A i \in 1 .. b - a : u[i] = t[(a + i) - 1]
  BY SpanIs
<1> HIDE DEF u
<1>2. x \in 1 .. Len(u) + 1 /\ y \in x .. Len(u) + 1
  BY <1>1
<1>3. v \in Rows(X) /\ Len(v) = y - x /\ \A i \in 1 .. y - x : v[i] = u[(x + i) - 1]
  <2>1. u \in Rows(X)
    BY <1>1
  <2> QED BY <1>2, <2>1, SpanIs, Zenon
<1>4. (a + x) - 1 \in 1 .. Len(t) + 1 /\ (a + y) - 1 \in (a + x) - 1 .. Len(t) + 1
  BY <1>0
<1>5. /\ w \in Rows(X) /\ Len(w) = ((a + y) - 1) - ((a + x) - 1)
      /\ \A i \in 1 .. ((a + y) - 1) - ((a + x) - 1) : w[i] = t[(((a + x) - 1) + i) - 1]
  BY <1>4, SpanIs
<1>6. ((a + y) - 1) - ((a + x) - 1) = y - x
  BY <1>0
<1> HIDE DEF v, w
<1>7. ASSUME NEW i \in 1 .. Len(v) PROVE v[i] = w[i]
  <2>1. i \in 1 .. y - x /\ (x + i) - 1 \in 1 .. b - a /\ (a + ((x + i) - 1)) - 1 = (((a + x) - 1) + i) - 1
    BY <1>0, <1>3
  <2> PICK j \in 1 .. b - a : j = (x + i) - 1
    BY <2>1
  <2>2. v[i] = u[j] /\ u[j] = t[(a + j) - 1]
    BY <1>1, <1>3, <2>1
  <2>3. w[i] = t[(((a + x) - 1) + i) - 1]
    BY <1>5, <1>6, <2>1
  <2>4. (a + j) - 1 = (((a + x) - 1) + i) - 1
    BY <1>0
  <2> QED BY <2>2, <2>3, <2>4
<1>8. v = w
  BY <1>3, <1>5, <1>6, <1>7, RowEqual
<1> QED BY <1>8 DEF u, v, w

LEMMA SpanTail ==
  ASSUME NEW X, NEW t \in Rows(X), NEW a \in 1 .. Len(t) + 1, NEW b \in a .. Len(t) + 1, NEW g \in 1 .. b - a
  PROVE  Span(Span(t, a, b), g + 1, (b - a) + 1) = Span(t, a + g, b)
<1> DEFINE x == g + 1
           y == (b - a) + 1
<1>0. Len(t) \in Nat
  BY RowFacts
<1>1. x \in 1 .. (b - a) + 1 /\ y \in x .. (b - a) + 1 /\ (a + x) - 1 = a + g /\ (a + y) - 1 = b
  BY <1>0
<1> HIDE DEF x, y
<1>2. Span(Span(t, a, b), x, y) = Span(t, (a + x) - 1, (a + y) - 1)
  BY <1>1, SpanOfSpan
<1> QED BY <1>1, <1>2 DEF x, y

LEMMA SuffixIs ==
  ASSUME NEW t \in Rows(Int), NEW d \in 0 .. Len(t)
  PROVE  /\ Suffix(t, d) \in Rows(Int) /\ Len(Suffix(t, d)) = Len(t) - d
         /\ \A i \in 1 .. Len(t) - d : Suffix(t, d)[i] = t[d + i]
<1>0. Len(t) \in Nat
  BY RowFacts
<1>1. d + 1 \in 1 .. Len(t) + 1 /\ Len(t) + 1 \in d + 1 .. Len(t) + 1
  BY <1>0
<1>2. /\ Span(t, d + 1, Len(t) + 1) \in Rows(Int) /\ Len(Span(t, d + 1, Len(t) + 1)) = (Len(t) + 1) - (d + 1)
      /\ \A i \in 1 .. (Len(t) + 1) - (d + 1) : Span(t, d + 1, Len(t) + 1)[i] = t[((d + 1) + i) - 1]
  BY <1>1, SpanIs
<1>3. (Len(t) + 1) - (d + 1) = Len(t) - d /\ \A i \in 1 .. Len(t) - d : ((d + 1) + i) - 1 = d + i
  BY <1>0
<1> QED BY <1>2, <1>3 DEF Suffix

LEMMA SuffixControl ==
  ASSUME NEW t \in Rows(Int), NEW d \in 0 .. Len(t)
  PROVE  ControlAt(Suffix(t, d)) = {i \in 1 .. Len(t) - d : d + i \in ControlAt(t)}
<1> PICK n \in Nat : n = Len(t)
  BY RowFacts
<1> DEFINE u == Suffix(t, d)
<1>1. u \in Rows(Int) /\ Len(u) = n - d /\ \A i \in 1 .. n - d : u[i] = t[d + i]
  BY SuffixIs
<1> HIDE DEF u
<1>2. DOMAIN u = 1 .. n - d /\ DOMAIN t = 1 .. n
  BY <1>1, RowFacts
<1>3. \A i \in 1 .. n - d : d + i \in 1 .. n
  OBVIOUS
<1>4. ControlAt(u) = {i \in 1 .. n - d : d + i \in ControlAt(t)}
  BY <1>1, <1>2, <1>3 DEF ControlAt
<1> QED BY <1>4 DEF u

LEMMA FirstControlIs ==
  ASSUME NEW t \in Rows(Int), ControlAt(t) # {}
  PROVE  FirstControl(t) \in ControlAt(t) /\ \A c \in ControlAt(t) : FirstControl(t) <= c
<1>1. ControlAt(t) \subseteq Nat
  BY ControlType
<1>2. \E m \in ControlAt(t) : \A c \in ControlAt(t) : m <= c
  BY <1>1, LeastNumber
<1> QED BY <1>2 DEF FirstControl

LEMMA JoinsIdle ==
  ASSUME NEW X, NEW q, NEW f, Joins(q, f, X), \A j \in 0 .. Len(q) : f[j] \o <<>> = f[j], Len(q) \in Nat,
         NEW d \in 0 .. Len(q), NEW k \in d .. Len(q), \A i \in d + 1 .. k : q[i] = <<>>
  PROVE  f[k] = f[d]
<1> DEFINE Good == {j \in 0 .. k - d : f[d + j] = f[d]}
<1>1. 0 \in Good
  OBVIOUS
<1>2. ASSUME NEW j \in 0 .. (k - d) - 1, j \in Good PROVE j + 1 \in Good
  <2> PICK i : i = d + j
    OBVIOUS
  <2>1. i + 1 \in 1 .. Len(q) /\ (i + 1) - 1 = i /\ i \in 0 .. Len(q) /\ i + 1 \in d + 1 .. k /\ d + (j + 1) = i + 1 /\ j + 1 \in 0 .. k - d
    OBVIOUS
  <2>2. f[i + 1] = f[(i + 1) - 1] \o q[i + 1] /\ q[i + 1] = <<>> /\ f[i] \o <<>> = f[i]
    BY <2>1 DEF Joins
  <2>3. f[i] = f[d]
    BY <1>2
  <2> QED BY <2>1, <2>2, <2>3
<1>3. f[k] = f[d]
  <2> HIDE DEF Good
  <2>1. k - d \in Nat /\ d + (k - d) = k
    OBVIOUS
  <2>2. 0 .. k - d \subseteq Good
    BY <1>1, <1>2, <2>1, NoCounterexample
  <2>3. k - d \in Good
    BY <2>1, <2>2
  <2> QED BY <2>1, <2>3 DEF Good
<1> QED BY <1>3

\* From where one segment starts up to where it ends.
LEMMA SegmentPart ==
  ASSUME NEW a, NEW t \in Rows(Int), NEW f, Joins(Parts(a, t), f, TokenSet), NEW d \in {0} \cup ControlAt(t),
         NEW k \in 1 .. Len(t) + 1, d < k, \A c \in ControlAt(t) : c <= d \/ k <= c
  PROVE  f[k] = f[d] \o Part(a, t, k) /\ Before(t, k, d) /\ f[d] \in Rows(TokenSet)
<1> PICK n \in Nat : n = Len(t)
  BY RowFacts
<1> PICK q : q = Parts(a, t)
  OBVIOUS
<1>1. q \in Seq(Rows(TokenSet)) /\ Len(q) = n + 1 /\ \A i \in 1 .. n + 1 : q[i] = Part(a, t, i)
  BY PartsType
<1>2. ControlAt(t) \subseteq 1 .. n
  BY ControlType
<1>3. Before(t, k, d)
  BY <1>2 DEF Before
<1>4. d \in 0 .. n + 1 /\ k - 1 \in d .. n + 1 /\ k - 1 \in 0 .. n + 1
  BY <1>2
<1>5. f \in [0 .. n + 1 -> Rows(TokenSet)] /\ \A i \in 1 .. n + 1 : f[i] = f[i - 1] \o q[i]
  BY <1>1 DEF Joins
<1>6. ASSUME NEW i \in d + 1 .. k - 1 PROVE q[i] = <<>>
  <2>1. i \in 1 .. n + 1 /\ i # n + 1 /\ i \notin ControlAt(t)
    BY <1>2, <1>4
  <2>2. PICK x : Before(t, i, x)
    BY <2>1, BeforeExists
  <2>3. Part(a, t, i) = <<>>
    BY <2>1, <2>2, PartIs
  <2> QED BY <1>1, <2>1, <2>3
<1>7. f[k - 1] = f[d]
  <2>1. \A j \in 0 .. Len(q) : f[j] \o <<>> = f[j]
    BY <1>1, <1>5, RowsConcat
  <2>2. Joins(q, f, TokenSet) /\ Len(q) \in Nat /\ d \in 0 .. Len(q) /\ k - 1 \in d .. Len(q)
    BY <1>1, <1>4
  <2> QED BY <1>6, <2>1, <2>2, JoinsIdle
<1>8. f[k] = f[k - 1] \o q[k] /\ q[k] = Part(a, t, k)
  BY <1>1, <1>5
<1> QED BY <1>3, <1>4, <1>5, <1>7, <1>8

LEMMA LastSegment ==
  ASSUME NEW a, NEW t \in Rows(Int), NEW f, Joins(Parts(a, t), f, TokenSet), NEW d \in {0} \cup ControlAt(t),
         ControlAt(Suffix(t, d)) = {}
  PROVE  /\ Segment(Suffix(t, d)) = Suffix(t, d) /\ f[d] \in Rows(TokenSet)
         /\ EncodeByRescan(a, t) = f[d] \o SegmentTokens(a, Suffix(t, d))
<1> PICK n \in Nat : n = Len(t)
  BY RowFacts
<1>1. ControlAt(t) \subseteq 1 .. n
  BY ControlType
<1>2. d \in 0 .. n
  BY <1>1
<1>3. \A c \in ControlAt(t) : c <= d \/ n + 1 <= c
  <2>1. ASSUME NEW c \in ControlAt(t), ~(c <= d) PROVE FALSE
    <3>1. c - d \in 1 .. n - d /\ d + (c - d) = c
      BY <1>1, <1>2, <2>1
    <3>2. c - d \in ControlAt(Suffix(t, d))
      BY <1>2, <3>1, SuffixControl
    <3> QED BY <3>2
  <2> QED BY <2>1
<1>4. n + 1 \in 1 .. n + 1 /\ d < n + 1
  BY <1>2
<1>5. f[n + 1] = f[d] \o Part(a, t, n + 1) /\ Before(t, n + 1, d) /\ f[d] \in Rows(TokenSet)
  BY <1>3, <1>4, SegmentPart
<1>6. Part(a, t, n + 1) = SegmentTokens(a, Span(t, d + 1, n + 1))
  BY <1>4, <1>5, PartIs
<1>7. EncodeByRescan(a, t) = FlattenSeq(Parts(a, t)) /\ Parts(a, t) \in Seq(Rows(TokenSet)) /\ Len(Parts(a, t)) = n + 1
  BY PartsType
<1>8. FlattenSeq(Parts(a, t)) = f[n + 1]
  BY <1>7, FlattenIs
<1>9. Segment(Suffix(t, d)) = Suffix(t, d)
  BY DEF Segment
<1> QED BY <1>5, <1>6, <1>7, <1>8, <1>9 DEF Suffix

NextIs(a, t, f, d, u, g) == f[d + g] = f[d] \o (SegmentTokens(a, Segment(u)) \o <<ControlToken(u[g])>>)

LEMMA NextSegment ==
  ASSUME NEW a, NEW t \in Rows(Int), NEW f, Joins(Parts(a, t), f, TokenSet), NEW d \in {0} \cup ControlAt(t),
         NEW u, u = Suffix(t, d), ControlAt(u) # {}, NEW g, g = FirstControl(u)
  PROVE  /\ d + g \in ControlAt(t) /\ f[d] \in Rows(TokenSet) /\ u[g] \in Int
         /\ After(u, g) = Suffix(t, d + g)
         /\ NextIs(a, t, f, d, u, g)
<1> PICK n \in Nat : n = Len(t)
  BY RowFacts
<1>1. ControlAt(t) \subseteq 1 .. n
  BY ControlType
<1>2. d \in 0 .. n
  BY <1>1
<1>3. u \in Rows(Int) /\ Len(u) = n - d /\ \A i \in 1 .. n - d : u[i] = t[d + i]
  BY <1>2, SuffixIs
<1>4. ControlAt(u) = {i \in 1 .. n - d : d + i \in ControlAt(t)}
  BY <1>2, SuffixControl
<1>5. g \in ControlAt(u) /\ \A c \in ControlAt(u) : g <= c
  BY <1>3, FirstControlIs
<1> DEFINE k == d + g
<1>6. g \in 1 .. n - d /\ k \in ControlAt(t) /\ k \in 1 .. n /\ d < k
  BY <1>1, <1>2, <1>4, <1>5
<1> HIDE DEF k
<1>7. \A c \in ControlAt(t) : c <= d \/ k <= c
  <2>1. ASSUME NEW c \in ControlAt(t), ~(c <= d) PROVE k <= c
    <3>1. c - d \in 1 .. n - d /\ d + (c - d) = c
      BY <1>1, <1>2, <2>1
    <3>2. c - d \in ControlAt(u)
      BY <1>4, <3>1
    <3>3. g <= c - d
      BY <1>5, <3>2
    <3> QED BY <1>1, <1>2, <1>6, <3>3 DEF k
  <2> QED BY <2>1
<1>8. k \in 1 .. n + 1
  BY <1>6
<1>9. f[k] = f[d] \o Part(a, t, k) /\ Before(t, k, d) /\ f[d] \in Rows(TokenSet)
  BY <1>6, <1>7, <1>8, SegmentPart
<1>10. Part(a, t, k) = SegmentTokens(a, Span(t, d + 1, k)) \o <<ControlToken(t[k])>>
  <2>1. k # Len(t) + 1 /\ k \in ControlAt(t) /\ k \in 1 .. Len(t) + 1
    BY <1>6, <1>8
  <2>2. Part(a, t, k) =
            IF k = Len(t) + 1 THEN SegmentTokens(a, Span(t, d + 1, k))
            ELSE IF k \in ControlAt(t) THEN SegmentTokens(a, Span(t, d + 1, k)) \o <<ControlToken(t[k])>> ELSE <<>>
    BY <1>9, <2>1, PartIs
  <2> QED BY <2>1, <2>2
<1>11. /\ Span(u, 1, g) = Span(t, d + 1, k)
       /\ Span(u, g + 1, (n - d) + 1) = Span(t, k + 1, n + 1)
  <2> DEFINE x == d + 1
             z == n + 1
  <2>1. x \in 1 .. n + 1 /\ z \in x .. n + 1 /\ z - x = n - d /\ g \in 1 .. z - x
    BY <1>2, <1>6
  <2>2. 1 \in 1 .. (z - x) + 1 /\ g \in 1 .. (z - x) + 1
    BY <2>1
  <2>3. (x + 1) - 1 = d + 1 /\ (x + g) - 1 = k /\ x + g = k + 1
    BY <1>2, <1>6 DEF k
  <2>4. u = Span(t, x, z)
    BY DEF Suffix
  <2> HIDE DEF x, z
  <2>5. Span(Span(t, x, z), 1, g) = Span(t, (x + 1) - 1, (x + g) - 1)
    BY <2>1, <2>2, SpanOfSpan
  <2>6. Span(Span(t, x, z), g + 1, (z - x) + 1) = Span(t, x + g, z)
    BY <2>1, SpanTail
  <2> QED BY <2>1, <2>3, <2>4, <2>5, <2>6 DEF z
<1>12. Segment(u) = Span(t, d + 1, k)
  BY <1>11 DEF Segment, Span
<1>13. After(u, g) = Suffix(t, k)
  <2>1. ((n - d) + 1) - 1 = Len(u)
    BY <1>2, <1>3
  <2>2. Span(u, g + 1, (n - d) + 1) = After(u, g)
    BY <2>1 DEF Span, After
  <2> QED BY <1>11, <2>2 DEF Suffix
<1>14. u[g] = t[k] /\ u[g] \in Int
  BY <1>3, <1>6, RowFacts DEF k
<1>15. f[k] = f[d] \o (SegmentTokens(a, Segment(u)) \o <<ControlToken(u[g])>>)
  <2>1. f[k] = (f[d] \o (SegmentTokens(a, Segment(u)) \o <<ControlToken(u[g])>>))
    BY <1>9, <1>10, <1>12, <1>14
  <2> QED BY <2>1
<1> QED BY <1>6, <1>9, <1>13, <1>14, <1>15 DEF k, NextIs

-----------------------------------------------------------------------------
(***************************************************************************)
(* The invariant of the encoder: what is out are the tokens of the         *)
(* segments before, and the segment at hand is in the state above.         *)
(***************************************************************************)
OutIs(x, y) == x = y \/ x = <<Bos>> \o y
Sent(a, t, d, tokens) == \A f : Joins(Parts(a, t), f, TokenSet) => OutIs(tokens, f[d])
Encoding ==
    /\ whole \in Rows(Int) /\ Clear(whole)
    /\ \E d \in {0} \cup ControlAt(whole) : rest = Suffix(whole, d) /\ Sent(algorithm, whole, d, out)
AtSegment ==
    /\ encoder = "busy" /\ Segment(rest) # <<>> /\ norm = Normalised(Segment(rest))
    /\ \E m, e : Segmented(algorithm, norm, sym, cands, m, e)
Idle == cands = {} /\ norm = <<>> /\ sym = <<>>
BpeInv ==
    /\ encoder = "busy" => Encoding
    /\ AtSegment \/ Idle
    /\ EncodeIsExact

LEMMA BosType == Bos \in TokenSet /\ <<Bos>> \in Rows(TokenSet) /\ PieceText(Bos) = <<>>
<1>1. Bos \in TokenSet /\ PieceText(Bos) = <<>>
  BY DEF Bos, Token, TokenSet, PieceText, Rows
<1> QED BY <1>1, OneRow

LEMMA OutExtends ==
  ASSUME NEW x, NEW y \in Rows(TokenSet), NEW z \in Rows(TokenSet), OutIs(x, y)
  PROVE  OutIs(x \o z, y \o z) /\ x \in Rows(TokenSet)
<1> PICK b : b = <<Bos>>
  OBVIOUS
<1>1. b \in Rows(TokenSet)
  BY BosType
<1>2. (b \o y) \o z = b \o (y \o z) /\ b \o y \in Rows(TokenSet)
  BY <1>1, RowsRegroup, RowsConcat
<1> QED BY <1>2 DEF OutIs

LEMMA OutAppends ==
  ASSUME NEW o, NEW p \in Rows(TokenSet), NEW x \in Rows(TokenSet), NEW y \in Rows(TokenSet), OutIs(o, p)
  PROVE  OutIs((o \o x) \o y, p \o (x \o y))
<1>1. OutIs(o \o x, p \o x) /\ p \o x \in Rows(TokenSet)
  BY OutExtends, RowsConcat
<1>2. OutIs((o \o x) \o y, (p \o x) \o y)
  BY <1>1, OutExtends
<1>3. (p \o x) \o y = p \o (x \o y)
  BY RowsRegroup
<1> QED BY <1>2, <1>3

LEMMA SegmentType ==
  ASSUME NEW t \in Rows(Int)
  PROVE  Segment(t) \in Rows(Int)
<1>1. CASE ControlAt(t) = {}
  BY <1>1 DEF Segment
<1>2. CASE ControlAt(t) # {}
  <2>1. FirstControl(t) \in ControlAt(t) /\ ControlAt(t) \subseteq 1 .. Len(t) /\ Len(t) \in Nat
    BY <1>2, FirstControlIs, ControlType
  <2>2. 1 \in 1 .. Len(t) + 1 /\ FirstControl(t) \in 1 .. Len(t) + 1
    BY <2>1
  <2>3. Span(t, 1, FirstControl(t)) \in Rows(Int)
    BY <2>2, SpanType
  <2>4. Segment(t) = Span(t, 1, FirstControl(t))
    BY <1>2 DEF Segment, Span
  <2> QED BY <2>3, <2>4
<1> QED BY <1>1, <1>2

LEMMA RestType ==
  ASSUME Encoding
  PROVE  rest \in Rows(Int) /\ Segment(rest) \in Rows(Int)
<1>1. PICK d \in {0} \cup ControlAt(whole) : rest = Suffix(whole, d)
  BY DEF Encoding
<1>2. whole \in Rows(Int)
  BY DEF Encoding
<1>3. d \in 0 .. Len(whole)
  BY <1>2, ControlType
<1>4. rest \in Rows(Int)
  BY <1>1, <1>2, <1>3, SuffixIs
<1> QED BY <1>4, SegmentType

\* The tokens that the queue has for a segment when it is empty.
LEMMA EndTokens ==
  ASSUME Encoding, cands = {}, AtSegment \/ Idle, Segment(rest) # <<>> => norm # <<>>
  PROVE  /\ TokensOf(PiecesFrom(norm, sym)) = SegmentTokens(algorithm, Segment(rest))
         /\ SegmentTokens(algorithm, Segment(rest)) \in Rows(TokenSet)
         /\ Segment(rest) # <<>> =>
                Decoded(SegmentTokens(algorithm, Segment(rest))) = Blanked(Normalised(Segment(rest)))
<1>1. Segment(rest) \in Rows(Int)
  BY RestType
<1>2. SegmentTokens(algorithm, Segment(rest)) \in Rows(TokenSet)
  BY <1>1, SegmentTokensType
<1>3. CASE Segment(rest) = <<>>
  <2>1. norm = <<>> /\ sym = <<>>
    BY <1>3 DEF AtSegment, Idle
  <2>2. TokensOf(PiecesFrom(norm, sym)) = SegmentTokens(algorithm, Segment(rest))
    BY <1>3, <2>1, NoTokens
  <2> QED BY <1>2, <1>3, <2>2
<1>4. CASE Segment(rest) # <<>>
  <2>1. AtSegment
    BY <1>4 DEF Idle
  <2>2. norm = Normalised(Segment(rest))
    BY <2>1 DEF AtSegment
  <2>3. PICK m, e : Segmented(algorithm, norm, sym, cands, m, e)
    BY <2>1 DEF AtSegment
  <2>4. norm \in Rows(Int)
    BY <1>1, <2>2, NormalisedIs
  <2>5. Segmented(algorithm, norm, sym, {}, m, e)
    BY <2>3
  <2>6. /\ PiecesFrom(norm, sym) = Rescan(algorithm, Letters(norm))
        /\ Decoded(TokensOf(PiecesFrom(norm, sym))) = Blanked(norm)
    BY <2>4, <2>5, SegmentEnds
  <2>7. TokensOf(PiecesFrom(norm, sym)) = SegmentTokens(algorithm, Segment(rest))
    BY <2>2, <2>6 DEF SegmentTokens
  <2> QED BY <1>2, <2>2, <2>6, <2>7
<1> QED BY <1>3, <1>4

\* A text without control tokens is given back.
LEMMA DecodesBack ==
  ASSUME NEW a, NEW t \in Rows(Int), Clear(t), ControlAt(t) = {}, NEW x \in Rows(TokenSet), x = SegmentTokens(a, t),
         t # <<>> => Decoded(x) = Blanked(Normalised(t)), NEW y, OutIs(y, x)
  PROVE  decode(y) = t
<1>1. Decoded(x) = BlankFirst(t) \/ (Decoded(x) = <<>> /\ t = <<>>)
  <2>1. CASE t = <<>>
    <3>1. x = <<>>
      BY <2>1, NoTokens
    <3>2. Texts0(<<>>) = <<>>
      BY DEF Texts0
    <3>3. Decoded(<<>>) = <<>>
      BY <3>2, FlattenEmpty DEF Decoded
    <3> QED BY <2>1, <3>1, <3>3
  <2>2. CASE t # <<>>
    BY <2>2, NormalisedIs
  <2> QED BY <2>1, <2>2
<1>2. Decoded(y) = Decoded(x)
  <2>1. CASE y = x
    BY <2>1
  <2>2. CASE y = <<Bos>> \o x
    <3>1. Decoded(<<Bos>> \o x) = Decoded(<<Bos>>) \o Decoded(x)
      BY BosType, DecodedConcat
    <3>2. Decoded(<<Bos>>) = <<>>
      BY BosType, DecodedOne
    <3>3. Decoded(x) \in Rows(Int)
      <4>1. Texts0(x) \in Seq(Rows(Int))
        BY TextsIs
      <4> QED BY <4>1, FlattenType DEF Decoded
    <3>4. <<>> \o Decoded(x) = Decoded(x)
      BY <3>3, RowsConcat
    <3> QED BY <2>2, <3>1, <3>2, <3>4
  <2> QED BY <2>1, <2>2 DEF OutIs
<1> QED BY <1>1, <1>2, DecodeIs

LEMMA SuffixWhole == ASSUME NEW t \in Rows(Int) PROVE Suffix(t, 0) = t
<1>1. (Len(t) + 1) - 1 = Len(t) /\ 0 + 1 = 1
  BY RowFacts
<1>2. SubSeq(t, 1, Len(t)) = t
  BY SubSeqFull DEF Rows
<1> QED BY <1>1, <1>2 DEF Suffix, Span

LEMMA StepBegin == ASSUME BpeInv, EncodeBegin PROVE BpeInv'
<1>1. PICK t \in Texts, a \in {"merges", "scores"}, add_bos \in BOOLEAN :
            /\ rest' = t /\ whole' = t /\ algorithm' = a
            /\ out' = IF add_bos THEN <<Bos>> ELSE <<>>
  BY DEF EncodeBegin
<1>2. encoder = "idle" /\ encoder' = "busy" /\ UNCHANGED <<norm, sym, cands>>
  BY DEF EncodeBegin
<1>3. t \in Rows(Int) /\ Clear(t)
  <2>1. t \in Seq(Int \ {Space})
    BY BpeAssumption
  <2>2. \A i \in 1 .. Len(t) : t[i] \in Int \ {Space}
    BY <2>1, ElementOfSeq
  <2>3. t \in Rows(Int)
    BY <2>1 DEF Rows
  <2> QED BY <2>2, <2>3 DEF Clear
<1>4. Suffix(t, 0) = t
  BY <1>3, SuffixWhole
<1>5. Sent(a, t, 0, out')
  <2> SUFFICES ASSUME NEW f, Joins(Parts(a, t), f, TokenSet) PROVE OutIs(out', f[0])
    BY DEF Sent
  <2>1. f[0] = <<>>
    BY DEF Joins
  <2>2. <<Bos>> \o <<>> = <<Bos>>
    BY BosType, RowsConcat
  <2> QED BY <1>1, <2>1, <2>2 DEF OutIs
<1>6. Encoding'
  BY <1>1, <1>3, <1>4, <1>5 DEF Encoding
<1>7. Idle'
  BY <1>2 DEF BpeInv, AtSegment, Idle
<1>8. EncodeIsExact'
  BY <1>2 DEF EncodeIsExact
<1> QED BY <1>6, <1>7, <1>8 DEF BpeInv

LEMMA StepStart == ASSUME BpeInv, StartSegment PROVE BpeInv'
<1>1. /\ encoder = "busy" /\ Segment(rest) # <<>> /\ norm' = Normalised(Segment(rest))
      /\ sym' = Characters(Len(norm'))
      /\ cands' = StartCands(algorithm, norm', Len(norm'))
      /\ UNCHANGED <<algorithm, encoder, rest, out, whole>>
  BY DEF StartSegment, StartCands
<1>2. Encoding
  BY <1>1 DEF BpeInv
<1>3. Segment(rest) \in Rows(Int)
  BY <1>2, RestType
<1> PICK t : t = norm'
  OBVIOUS
<1> PICK n : n = Len(t)
  OBVIOUS
<1>4. t \in Rows(Int) /\ n \in Nat /\ n # 0
  BY <1>1, <1>3, NormalisedIs
<1>5. Segmented(algorithm, t, Characters(n), StartCands(algorithm, t, n), n, Identity(n))
  BY <1>4, SegmentStarts
<1>6. Segmented(algorithm, norm', sym', cands', n, Identity(n))
  BY <1>1, <1>5
<1>7. AtSegment'
  BY <1>1, <1>6 DEF AtSegment
<1>8. Encoding'
  BY <1>1, <1>2 DEF Encoding
<1>9. EncodeIsExact'
  BY <1>1 DEF EncodeIsExact
<1> QED BY <1>7, <1>8, <1>9 DEF BpeInv

LEMMA Queued ==
  ASSUME BpeInv, cands # {}
  PROVE  /\ encoder = "busy" /\ Encoding /\ norm \in Rows(Int) /\ Segment(rest) # <<>>
         /\ norm = Normalised(Segment(rest)) /\ \E m, e : Segmented(algorithm, norm, sym, cands, m, e)
<1>1. AtSegment
  BY DEF BpeInv, Idle
<1>2. encoder = "busy" /\ Encoding
  BY <1>1 DEF BpeInv, AtSegment
<1>3. Segment(rest) \in Rows(Int)
  BY <1>2, RestType
<1>4. norm \in Rows(Int)
  BY <1>1, <1>3, NormalisedIs DEF AtSegment
<1> QED BY <1>1, <1>2, <1>4 DEF AtSegment

LEMMA StepSkip == ASSUME BpeInv, SkipStale PROVE BpeInv'
<1>1. PICK c \in cands : /\ Top(c) /\ Stale(c) /\ cands' = cands \ {c}
                         /\ UNCHANGED <<algorithm, encoder, rest, norm, sym, out, whole>>
  BY DEF SkipStale
<1>2. /\ encoder = "busy" /\ Encoding /\ norm \in Rows(Int) /\ Segment(rest) # <<>>
      /\ norm = Normalised(Segment(rest)) /\ \E m, e : Segmented(algorithm, norm, sym, cands, m, e)
  BY Queued
<1>3. PICK m, e : Segmented(algorithm, norm, sym, cands, m, e)
  BY <1>2
<1>4. StaleIn(sym, c)
  BY <1>1 DEF Stale, StaleIn
<1>5. Segmented(algorithm, norm, sym, cands \ {c}, m, e)
  BY <1>2, <1>3, <1>4, SegmentSkips
<1>6. AtSegment'
  BY <1>1, <1>2, <1>5 DEF AtSegment
<1>7. Encoding'
  BY <1>1, <1>2 DEF Encoding
<1>8. EncodeIsExact'
  BY <1>1, <1>2 DEF EncodeIsExact
<1> QED BY <1>6, <1>7, <1>8 DEF BpeInv

LEMMA StepMerge == ASSUME BpeInv, Merge PROVE BpeInv'
<1>1. PICK c \in cands : /\ Top(c) /\ ~Stale(c) /\ sym' = SpliceOf(sym, c)
                         /\ cands' = Renewed(algorithm, norm, sym', cands, c)
                         /\ UNCHANGED <<algorithm, encoder, rest, norm, out, whole>>
  BY ZenonT(60) DEF Merge, SpliceOf, Spliced, Absorbed, Behind, Renewed
<1>2. /\ encoder = "busy" /\ Encoding /\ norm \in Rows(Int) /\ Segment(rest) # <<>>
      /\ norm = Normalised(Segment(rest)) /\ \E m, e : Segmented(algorithm, norm, sym, cands, m, e)
  BY Queued
<1>3. PICK m, e : Segmented(algorithm, norm, sym, cands, m, e)
  BY <1>2
<1>4. ~StaleIn(sym, c) /\ FirstIn(cands, c)
  BY <1>1 DEF Stale, StaleIn, Top, FirstIn
<1>5. PICK d : Segmented(algorithm, norm, SpliceOf(sym, c), Renewed(algorithm, norm, SpliceOf(sym, c), cands, c), m - 1, d)
  BY <1>2, <1>3, <1>4, SegmentMerges
<1>6. Segmented(algorithm, norm, sym', cands', m - 1, d)
  BY <1>1, <1>5
<1>7. AtSegment'
  BY <1>1, <1>2, <1>6 DEF AtSegment
<1>8. Encoding'
  BY <1>1, <1>2 DEF Encoding
<1>9. EncodeIsExact'
  BY <1>1, <1>2 DEF EncodeIsExact
<1> QED BY <1>7, <1>8, <1>9 DEF BpeInv

LEMMA StepEnd == ASSUME BpeInv, EndSegment PROVE BpeInv'
<1> DEFINE x == SegmentTokens(algorithm, Segment(rest))
           g == FirstControl(rest)
<1>1. /\ encoder = "busy" /\ cands = {} /\ (Segment(rest) # <<>> => norm # <<>>)
      /\ norm' = <<>> /\ sym' = <<>> /\ UNCHANGED <<algorithm, cands, whole>>
  BY DEF EndSegment
<1>2. Encoding /\ (AtSegment \/ Idle)
  BY <1>1 DEF BpeInv
<1>3. /\ TokensOf(PiecesFrom(norm, sym)) = x /\ x \in Rows(TokenSet)
      /\ Segment(rest) # <<>> => Decoded(x) = Blanked(Normalised(Segment(rest)))
  BY <1>1, <1>2, EndTokens
<1>4. /\ out' = (out \o x) \o (IF ControlAt(rest) = {} THEN <<>> ELSE <<ControlToken(rest[g])>>)
      /\ rest' = IF ControlAt(rest) = {} THEN <<>> ELSE SubSeq(rest, g + 1, Len(rest))
      /\ encoder' = IF ControlAt(rest) = {} THEN "done" ELSE "busy"
  BY <1>3 DEF EndSegment, ControlToken
<1>5. PICK d \in {0} \cup ControlAt(whole) : rest = Suffix(whole, d) /\ Sent(algorithm, whole, d, out)
  BY <1>2 DEF Encoding
<1>6. whole \in Rows(Int) /\ Clear(whole)
  BY <1>2 DEF Encoding
<1>7. PICK f : Joins(Parts(algorithm, whole), f, TokenSet)
  BY <1>6, PartsType, JoinsExist
<1>8. Idle'
  BY <1>1 DEF Idle
<1> HIDE DEF x, g
<1>9. CASE ControlAt(rest) = {}
  <2>1. /\ Segment(rest) = rest /\ f[d] \in Rows(TokenSet)
        /\ EncodeByRescan(algorithm, whole) = f[d] \o x
    BY <1>5, <1>6, <1>7, <1>9, LastSegment DEF x
  <2>2. OutIs(out, f[d])
    BY <1>5, <1>7 DEF Sent
  <2>3. OutIs(out \o x, f[d] \o x) /\ out \in Rows(TokenSet)
    BY <1>3, <2>1, <2>2, OutExtends
  <2>4. out' = out \o x
    <3>1. out \o x \in Rows(TokenSet)
      BY <1>3, <2>3, RowsConcat
    <3>2. (out \o x) \o <<>> = out \o x
      BY <3>1, RowsConcat
    <3> QED BY <1>4, <1>9, <3>2
  <2>5. OutIs(out', EncodeByRescan(algorithm, whole))
    BY <2>1, <2>3, <2>4
  <2>6. ASSUME ControlAt(whole) = {} PROVE decode(out') = whole
    <3>1. d = 0 /\ f[0] = <<>>
      BY <1>7, <2>6 DEF Joins
    <3>2. rest = whole
      BY <1>5, <1>6, <3>1, SuffixWhole
    <3>3. f[d] \o x = x
      BY <1>3, <3>1, RowsConcat
    <3>4. OutIs(out', x)
      BY <2>1, <2>5, <3>3
    <3>5. x = SegmentTokens(algorithm, whole) /\ (whole # <<>> => Decoded(x) = Blanked(Normalised(whole)))
      BY <1>3, <2>1, <3>2 DEF x
    <3> QED BY <1>3, <1>6, <2>6, <3>4, <3>5, DecodesBack
  <2>7. encoder' = "done"
    BY <1>4, <1>9
  <2>8. EncodeIsExact'
    BY <1>1, <2>5, <2>6 DEF EncodeIsExact, OutIs
  <2> QED BY <1>8, <2>7, <2>8 DEF BpeInv
<1>10. CASE ControlAt(rest) # {}
  <2>1. /\ d + g \in ControlAt(whole) /\ rest[g] \in Int
        /\ After(rest, g) = Suffix(whole, d + g)
    BY <1>5, <1>6, <1>7, <1>10, NextSegment DEF g
  <2>2. ASSUME NEW h, Joins(Parts(algorithm, whole), h, TokenSet) PROVE OutIs(out', h[d + g])
    <3>1. NextIs(algorithm, whole, h, d, rest, g) /\ h[d] \in Rows(TokenSet)
      <4>1. g = FirstControl(rest) /\ rest = Suffix(whole, d)
        BY <1>5 DEF g
      <4>2. h[d] \in Rows(TokenSet)
        BY <1>6, <1>10, <2>2, <4>1, NextSegment
      <4>3. NextIs(algorithm, whole, h, d, rest, g)
        BY <1>6, <1>10, <2>2, <4>1, NextSegment
      <4> QED BY <4>2, <4>3
    <3>2. h[d + g] = h[d] \o (x \o <<ControlToken(rest[g])>>)
      BY <3>1 DEF g, x, NextIs
    <3>3. <<ControlToken(rest[g])>> \in Rows(TokenSet)
      <4>1. ControlToken(rest[g]) \in TokenSet
        BY <2>1 DEF ControlToken, Token, TokenSet, Rows
      <4> QED BY <4>1, OneRow
    <3>4. OutIs(out, h[d])
      BY <1>5, <2>2 DEF Sent
    <3>5. OutIs((out \o x) \o <<ControlToken(rest[g])>>, h[d] \o (x \o <<ControlToken(rest[g])>>))
      BY <1>3, <3>1, <3>3, <3>4, OutAppends
    <3> QED BY <1>4, <1>10, <3>2, <3>5
  <2>3. Sent(algorithm, whole, d + g, out')
    BY <2>2 DEF Sent
  <2>4. rest' = Suffix(whole, d + g) /\ encoder' = "busy"
    BY <1>4, <1>10, <2>1 DEF After
  <2>5. Encoding'
    BY <1>1, <1>6, <2>1, <2>3, <2>4 DEF Encoding
  <2>6. EncodeIsExact'
    BY <2>4 DEF EncodeIsExact
  <2> QED BY <1>8, <2>5, <2>6 DEF BpeInv
<1> QED BY <1>9, <1>10

LEMMA BpeInvariant == BpeSpec => []BpeInv
<1>1. BpeInit => BpeInv
  BY DEF BpeInit, BpeInv, Idle, EncodeIsExact
<1>2. BpeInv /\ [BpeNext]_bpeVars => BpeInv'
  <2> SUFFICES ASSUME BpeInv, [BpeNext]_bpeVars PROVE BpeInv'
    OBVIOUS
  <2>1. CASE UNCHANGED bpeVars
    BY <2>1 DEF bpeVars, BpeInv, Encoding, AtSegment, Idle, EncodeIsExact
  <2>2. CASE EncodeBegin
    BY <2>2, StepBegin
  <2>3. CASE StartSegment
    BY <2>3, StepStart
  <2>4. CASE SkipStale
    BY <2>4, StepSkip
  <2>5. CASE Merge
    BY <2>5, StepMerge
  <2>6. CASE EndSegment
    BY <2>6, StepEnd
  <2> QED BY <2>1, <2>2, <2>3, <2>4, <2>5, <2>6 DEF BpeNext
<1> QED BY <1>1, <1>2, PTL DEF BpeSpec

\* Tokenizer::encode with its queue gives the tokens that a search for the best
\* pair after every merge would give, whatever the merge list, the scores and
\* the control tokens are, and decode gives a text without control tokens back.
THEOREM EncodingIsExact == BpeSpec => []EncodeIsExact
<1>1. BpeInv => EncodeIsExact
  BY DEF BpeInv
<1> QED BY <1>1, BpeInvariant, PTL
=============================================================================
