-------------------------- MODULE LlmRuntimeCounts --------------------------
(***************************************************************************)
(* The reference counts of the runtime: every call changes the count of a  *)
(* page by what it changes its holders, so what is listed, taken or owed   *)
(* is allocated, what a step writes has one holder, and what a rollback    *)
(* puts back is still there. Therefore sequences are private: the runtime  *)
(* implements KvSequences (last part).                                     *)
(***************************************************************************)
EXTENDS LlmRuntimeProofs

-----------------------------------------------------------------------------
(***************************************************************************)
(* The counts of holders, and what a page with holders is worth.           *)
(***************************************************************************)
LEMMA TablesType ==
  ASSUME TypeOK
  PROVE  /\ PageTables \in Tables(SeqIds, Pages) /\ NoEntryTaken \in Marks(SeqIds)
         /\ \A s \in SeqIds : PageTables[s] = seqs[s].pages /\ NoEntryTaken[s] = 0
         /\ fresh \in Tables(Threads, Pages) /\ next \in Marks(Threads)
         /\ IsFiniteSet(SeqIds) /\ IsFiniteSet(Threads)
         /\ NoEntryTaken' = NoEntryTaken
  BY PagesOf, HandlesAssumption DEF Tables, Marks, PageTables, NoEntryTaken, TypeOK

LEMMA CountTypes ==
  ASSUME TypeOK, NEW p
  PROVE  /\ Listed(p) \in Nat /\ Untaken(p) \in Nat
         /\ IsFiniteSet(Restoring(p)) /\ Owed(p) \in Nat
         /\ Held(p) \in Nat
<1>1. Listed(p) \in Nat
  BY TablesType, PlacesFinite DEF Listed
<1>2. Untaken(p) \in Nat
  BY TablesType, PlacesFinite DEF Untaken
<1>3. Restoring(p) \in SUBSET Threads
  BY DEF Restoring
<1>4. IsFiniteSet(Restoring(p)) /\ Owed(p) \in Nat
  BY <1>3, HandlesAssumption, FS_Subset, FS_CardinalityType DEF Owed
<1> QED BY <1>1, <1>2, <1>4 DEF Held

LEMMA RefsAre ==
  ASSUME TypeOK, NEW p \in Pages
  PROVE  refs[p] \in Nat
  BY DEF TypeOK, AllocTypeOK

LEMMA ListedOnce ==
  ASSUME TypeOK, Counted, NEW s \in SeqIds, NEW i \in 1 .. Len(seqs[s].pages)
  PROVE  refs[seqs[s].pages[i]] >= 1 /\ seqs[s].pages[i] \in Pages
<1> DEFINE p == seqs[s].pages[i]
<1>1. p \in Pages
  BY PagesOf
<1>2. i \in NoEntryTaken[s] + 1 .. Len(PageTables[s]) /\ PageTables[s][i] = p
  BY TablesType
<1> HIDE DEF p
<1>3. Listed(p) >= 1
  BY <1>2, TablesType, PlacesAny DEF Listed
<1>4. refs[p] >= Held(p) /\ refs[p] \in Nat
  BY <1>1, RefsAre DEF Counted
<1>5. refs[p] >= 1
  BY <1>3, <1>4, CountTypes DEF Held
<1> QED BY <1>1, <1>5 DEF p

LEMMA UntakenOnce ==
  ASSUME TypeOK, Counted, NEW t \in Threads, NEW i \in next[t] + 1 .. Len(fresh[t])
  PROVE  refs[fresh[t][i]] >= 1 /\ fresh[t][i] \in Pages
<1> DEFINE p == fresh[t][i]
<1>1. p \in Pages
  BY MembersIn DEF TypeOK
<1> HIDE DEF p
<1>2. fresh[t][i] = p
  BY DEF p
<1>3. Untaken(p) >= 1
  BY <1>2, TablesType, PlacesAny DEF Untaken
<1>4. refs[p] >= Held(p) /\ refs[p] \in Nat
  BY <1>1, RefsAre DEF Counted
<1>5. refs[p] >= 1
  BY <1>3, <1>4, CountTypes DEF Held
<1> QED BY <1>1, <1>5 DEF p

LEMMA OwedOnce ==
  ASSUME TypeOK, Counted, NEW t \in Threads, NEW p \in Pages, t \in Restoring(p)
  PROVE  refs[p] >= 1 /\ Owed(p) >= 1
<1>1. Owed(p) # 0
  BY CountTypes, FS_EmptySet DEF Owed
<1>2. refs[p] >= Held(p) /\ refs[p] \in Nat
  BY RefsAre DEF Counted
<1> QED BY <1>1, <1>2, CountTypes DEF Held

LEMMA ListedTwice ==
  ASSUME TypeOK, Counted, NEW p \in Pages,
         NEW s \in SeqIds, NEW i \in 1 .. Len(seqs[s].pages), seqs[s].pages[i] = p,
         NEW r \in SeqIds, NEW j \in 1 .. Len(seqs[r].pages), seqs[r].pages[j] = p,
         s # r \/ i # j
  PROVE  refs[p] >= 2
<1>a. i \in NoEntryTaken[s] + 1 .. Len(PageTables[s]) /\ PageTables[s][i] = p
  BY TablesType
<1>b. j \in NoEntryTaken[r] + 1 .. Len(PageTables[r]) /\ PageTables[r][j] = p
  BY TablesType
<1>d. /\ IsFiniteSet(SeqIds) /\ PageTables \in Tables(SeqIds, Pages)
      /\ NoEntryTaken \in Marks(SeqIds)
  BY TablesType
<1>e. <<s, i>> \in Places(PageTables, NoEntryTaken, p)
  BY <1>a, <1>d, PlacesIn
<1>f. <<r, j>> \in Places(PageTables, NoEntryTaken, p)
  BY <1>b, <1>d, PlacesIn
<1>2. Listed(p) >= 2
  <2> DEFINE g == <<s, i>>
             h == <<r, j>>
  <2>1. g # h
    OBVIOUS
  <2>2. g \in Places(PageTables, NoEntryTaken, p) /\ h \in Places(PageTables, NoEntryTaken, p)
    BY <1>e, <1>f
  <2> HIDE DEF g, h
  <2> QED BY <1>d, <2>1, <2>2, PlacesPair DEF Listed
<1>3. refs[p] >= Held(p) /\ refs[p] \in Nat
  BY RefsAre DEF Counted
<1> QED BY <1>2, <1>3, CountTypes DEF Held

LEMMA ListedAndUntaken ==
  ASSUME TypeOK, Counted, NEW p \in Pages,
         NEW s \in SeqIds, NEW i \in 1 .. Len(seqs[s].pages), seqs[s].pages[i] = p,
         NEW t \in Threads, NEW j \in next[t] + 1 .. Len(fresh[t]), fresh[t][j] = p
  PROVE  refs[p] >= 2
<1>1. i \in NoEntryTaken[s] + 1 .. Len(PageTables[s]) /\ PageTables[s][i] = p
  BY TablesType
<1>2. Listed(p) >= 1
  BY <1>1, TablesType, PlacesAny DEF Listed
<1>3. Untaken(p) >= 1
  BY TablesType, PlacesAny DEF Untaken
<1>4. refs[p] >= Held(p) /\ refs[p] \in Nat
  BY RefsAre DEF Counted
<1> QED BY <1>2, <1>3, <1>4, CountTypes DEF Held

\* The allocator counts at least the tables: no page of a table is free.
LEMMA CountedIntact ==
  ASSUME TypeOK, Counted
  PROVE  Intact
<1> SUFFICES ASSUME NEW s \in SeqIds, NEW i \in 1 .. Len(seqs[s].pages)
             PROVE  refs[seqs[s].pages[i]] # 0
  BY DEF Intact
<1>1. refs[seqs[s].pages[i]] >= 1
  BY ListedOnce
<1> QED BY <1>1

LEMMA RetainFacts ==
  ASSUME TypeOK, NEW p \in Pages, Retain(p), refs[p] # 0
  PROVE  \A q \in Pages : ((q = p => refs'[q] = refs[q] + 1) /\ (q # p => refs'[q] = refs[q]))
  BY DEF TypeOK, AllocTypeOK, Retain

LEMMA ReleaseFacts ==
  ASSUME TypeOK, NEW p \in Pages, Release(p), refs[p] # 0
  PROVE  \A q \in Pages : ((q = p => refs'[q] = refs[q] - 1) /\ (q # p => refs'[q] = refs[q]))
  BY DEF TypeOK, AllocTypeOK, Release

-----------------------------------------------------------------------------
(***************************************************************************)
(* Every call changes the count of a page by what it changes its holders.  *)
(***************************************************************************)
LEMMA CountedBalance ==
  ASSUME TypeOK, TypeOK', Counted,
         \A p \in Pages : refs'[p] - refs[p] = Held(p)' - Held(p)
  PROVE  Counted'
<1> SUFFICES ASSUME NEW p \in Pages
             PROVE  (refs[p] >= Held(p) /\ (NothingLeaks => refs[p] = Held(p)))'
  BY DEF Counted, NothingLeaks
<1>1. refs[p] \in Nat /\ refs'[p] \in Nat
  BY DEF TypeOK, AllocTypeOK
<1>2. Held(p) \in Nat
  BY CountTypes
<1>3. (Held(p) \in Nat)'
  BY CountTypes, PTL
<1>4. refs[p] >= Held(p) /\ (NothingLeaks => refs[p] = Held(p))
  BY DEF Counted
<1>5. refs'[p] - refs[p] = Held(p)' - Held(p)
  OBVIOUS
<1> HIDE DEF Held
<1>6. NothingLeaks' <=> NothingLeaks
  BY DEF NothingLeaks
<1> QED BY <1>1, <1>2, <1>3, <1>4, <1>5, <1>6

LEMMA ListedSame ==
  ASSUME PageTables' = PageTables, NEW p
  PROVE  Listed(p)' = Listed(p)
  BY DEF Listed, NoEntryTaken

LEMMA UntakenSame ==
  ASSUME NEW t \in Threads, Setting(t), NEW p,
         \/ fresh'[t] = fresh[t] /\ next'[t] = next[t]
         \/ next[t] >= Len(fresh[t]) /\ next'[t] >= Len(fresh'[t])
  PROVE  Untaken(p)' = Untaken(p)
<1>1. DOMAIN fresh = Threads /\ DOMAIN fresh' = Threads
  BY DEF Setting, TypeOK
<1>2. ASSUME NEW u \in Threads, NEW i \in Nat
      PROVE  Named(fresh', next', p, u, i) <=> Named(fresh, next, p, u, i)
  <2>1. CASE u # t
    BY <2>1 DEF Setting, Quiet, Named
  <2>2. CASE u = t /\ fresh'[t] = fresh[t] /\ next'[t] = next[t]
    BY <2>2 DEF Named
  <2>3. CASE u = t /\ next[t] >= Len(fresh[t]) /\ next'[t] >= Len(fresh'[t])
    <3>0. /\ fresh \in [Threads -> Seq(Pages)] /\ fresh' \in [Threads -> Seq(Pages)]
          /\ next \in [Threads -> Nat] /\ next' \in [Threads -> Nat]
      BY DEF Setting, TypeOK
    <3>1. next[t] \in Nat /\ Len(fresh[t]) \in Nat /\ next'[t] \in Nat /\ Len(fresh'[t]) \in Nat
      BY <3>0
    <3> QED BY <2>3, <3>1 DEF Named
  <2> QED BY <2>1, <2>2, <2>3
<1>3. Places(fresh', next', p) = Places(fresh, next, p)
  BY <1>1, <1>2, PlacesSame
<1> QED BY <1>3 DEF Untaken

LEMMA OwedSame ==
  ASSUME NEW t \in Threads, Setting(t), NEW p, pc[t] # "restore", pc'[t] # "restore"
  PROVE  Owed(p)' = Owed(p)
<1>1. Restoring(p)' = Restoring(p)
  BY DEF Setting, Quiet, Restoring
<1> QED BY <1>1 DEF Owed

\* A call that takes, places and returns no page.
LEMMA NoPageMoves ==
  ASSUME NEW t \in Threads, Setting(t), Counted, refs' = refs, PageTables' = PageTables,
         pc[t] # "restore", pc'[t] # "restore",
         \/ fresh'[t] = fresh[t] /\ next'[t] = next[t]
         \/ next[t] >= Len(fresh[t]) /\ next'[t] >= Len(fresh'[t])
  PROVE  Counted'
<1>1. ASSUME NEW p \in Pages PROVE refs'[p] - refs[p] = Held(p)' - Held(p)
  <2>1. Listed(p)' = Listed(p) /\ Untaken(p)' = Untaken(p) /\ Owed(p)' = Owed(p)
    BY ListedSame, UntakenSame, OwedSame
  <2>2. refs[p] \in Nat /\ Held(p) \in Nat
    BY RefsAre, CountTypes DEF Setting
  <2> QED BY <2>1, <2>2 DEF Held
<1> QED BY <1>1, CountedBalance DEF Setting

LEMMA SameSeqsSameTables ==
  ASSUME seqs' = seqs
  PROVE  PageTables' = PageTables
  BY DEF PageTables

\* The table of s is now q, the others are as they were.
TableNow(s, q) ==
    /\ PageTables' \in Tables(SeqIds, Pages) /\ PageTables'[s] = q
    /\ \A r \in SeqIds : r # s => PageTables'[r] = PageTables[r]

LEMMA SetPagesTable ==
  ASSUME TypeOK, NEW s \in SeqIds, NEW q \in Seq(Pages), SetPages(s, q)
  PROVE  TableNow(s, q)
<1>1. PageTables \in [SeqIds -> Seq(Pages)]
  BY TablesType DEF Tables
<1>2. PageTables' = [PageTables EXCEPT ![s] = q]
  BY SetPagesFacts
<1> HIDE DEF PageTables
<1> QED BY <1>1, <1>2 DEF TableNow, Tables

LEMMA ListedTables ==
  ASSUME NEW q, NEW new, new = PageTables'
  PROVE  Listed(q)' = Cardinality(Places(new, NoEntryTaken, q))
<1>1. Listed(q)' = Cardinality(Places(PageTables', NoEntryTaken, q))
  BY DEF Listed, NoEntryTaken
<1> HIDE DEF PageTables
<1> QED BY <1>1, Zenon

\* One table grows, shrinks, or has its last page exchanged.
LEMMA ListedAppend ==
  ASSUME TypeOK, NEW s \in SeqIds, NEW p \in Pages, NEW q, TableNow(s, Append(seqs[s].pages, p))
  PROVE  /\ p = q => Listed(q)' = Listed(q) + 1
         /\ p # q => Listed(q)' = Listed(q)
<1> DEFINE tab == PageTables
           zero == NoEntryTaken
<1>1. /\ tab \in Tables(SeqIds, Pages) /\ zero \in Marks(SeqIds) /\ IsFiniteSet(SeqIds)
      /\ zero[s] <= Len(tab[s]) /\ tab[s] = seqs[s].pages /\ seqs[s].pages \in Seq(Pages)
  BY TablesType, PagesOf
<1>n. PICK new : new = PageTables'
  OBVIOUS
<1>2. new \in Tables(SeqIds, Pages) /\ \A r \in SeqIds : r # s => new[r] = tab[r]
  BY <1>n DEF TableNow
<1>e. new[s] = Append(seqs[s].pages, p)
  BY <1>n DEF TableNow
<1>3. /\ Listed(q) = Cardinality(Places(tab, zero, q))
      /\ Listed(q)' = Cardinality(Places(new, zero, q))
  BY <1>n, ListedTables DEF Listed
<1> HIDE DEF tab, zero
<1>4. /\ Len(new[s]) = Len(tab[s]) + 1 /\ new[s][Len(tab[s]) + 1] = p
      /\ \A i \in 1 .. Len(tab[s]) : new[s][i] = tab[s][i]
  BY <1>1, <1>e
<1>5. /\ p = q => Cardinality(Places(new, zero, q)) = Cardinality(Places(tab, zero, q)) + 1
      /\ p # q => Cardinality(Places(new, zero, q)) = Cardinality(Places(tab, zero, q))
  BY <1>1, <1>2, <1>4, PlacesAppend
<1> QED BY <1>3, <1>5

LEMMA ListedFront ==
  ASSUME TypeOK, NEW s \in SeqIds, Len(seqs[s].pages) > 0, NEW q, TableNow(s, Front(seqs[s].pages))
  PROVE  /\ Last(seqs[s].pages) = q => Listed(q)' = Listed(q) - 1
         /\ Last(seqs[s].pages) # q => Listed(q)' = Listed(q)
<1> DEFINE tab == PageTables
           zero == NoEntryTaken
<1>1. /\ tab \in Tables(SeqIds, Pages) /\ zero \in Marks(SeqIds) /\ IsFiniteSet(SeqIds)
      /\ zero[s] < Len(tab[s]) /\ tab[s] = seqs[s].pages /\ seqs[s].pages \in Seq(Pages)
  BY TablesType, PagesOf
<1>n. PICK new : new = PageTables'
  OBVIOUS
<1>2. /\ new \in Tables(SeqIds, Pages) /\ \A r \in SeqIds : r # s => new[r] = tab[r]
      /\ new[s] = Front(seqs[s].pages)
  BY <1>n DEF TableNow
<1>3. /\ Listed(q) = Cardinality(Places(tab, zero, q))
      /\ Listed(q)' = Cardinality(Places(new, zero, q))
  BY <1>n, ListedTables DEF Listed
<1> HIDE DEF tab, zero, Front
<1>4. /\ Len(new[s]) = Len(tab[s]) - 1 /\ Last(seqs[s].pages) = tab[s][Len(tab[s])]
      /\ \A i \in 1 .. Len(tab[s]) - 1 : new[s][i] = tab[s][i]
  BY <1>1, <1>2, LastFront, SMTT(30)
<1>5. /\ tab[s][Len(tab[s])] = q =>
           Cardinality(Places(new, zero, q)) = Cardinality(Places(tab, zero, q)) - 1
      /\ tab[s][Len(tab[s])] # q =>
           Cardinality(Places(new, zero, q)) = Cardinality(Places(tab, zero, q))
  BY <1>1, <1>2, <1>4, PlacesFront, SMTT(30)
<1> QED BY <1>3, <1>4, <1>5

LEMMA ListedTail ==
  ASSUME TypeOK, NEW s \in SeqIds, seqs[s].pages # <<>>, NEW q, TableNow(s, Tail(seqs[s].pages))
  PROVE  /\ Head(seqs[s].pages) = q => Listed(q)' = Listed(q) - 1
         /\ Head(seqs[s].pages) # q => Listed(q)' = Listed(q)
<1> DEFINE tab == PageTables
           zero == NoEntryTaken
<1>1. /\ tab \in Tables(SeqIds, Pages) /\ zero \in Marks(SeqIds) /\ IsFiniteSet(SeqIds)
      /\ zero[s] = 0 /\ tab[s] # <<>> /\ tab[s] = seqs[s].pages /\ seqs[s].pages \in Seq(Pages)
  BY TablesType, PagesOf
<1>n. PICK new : new = PageTables'
  OBVIOUS
<1>2. new \in Tables(SeqIds, Pages) /\ \A r \in SeqIds : r # s => new[r] = tab[r]
  BY <1>n DEF TableNow
<1>e. new[s] = Tail(seqs[s].pages)
  BY <1>n DEF TableNow
<1>3. /\ Listed(q) = Cardinality(Places(tab, zero, q))
      /\ Listed(q)' = Cardinality(Places(new, zero, q))
  BY <1>n, ListedTables DEF Listed
<1> HIDE DEF tab, zero
<1>4. /\ Len(new[s]) = Len(tab[s]) - 1
      /\ \A i \in 1 .. Len(tab[s]) - 1 : new[s][i] = tab[s][i + 1]
  BY <1>1, <1>e
<1>5. /\ Head(tab[s]) = q => Cardinality(Places(new, zero, q)) = Cardinality(Places(tab, zero, q)) - 1
      /\ Head(tab[s]) # q => Cardinality(Places(new, zero, q)) = Cardinality(Places(tab, zero, q))
  BY <1>1, <1>2, <1>4, PlacesTail
<1> QED BY <1>1, <1>3, <1>5

LEMMA ListedExchange ==
  ASSUME TypeOK, NEW s \in SeqIds, Len(seqs[s].pages) > 0, NEW p \in Pages, NEW q,
         TableNow(s, Append(Front(seqs[s].pages), p))
  PROVE  /\ p = q /\ Last(seqs[s].pages) = q => Listed(q)' = Listed(q)
         /\ p # q /\ Last(seqs[s].pages) # q => Listed(q)' = Listed(q)
         /\ p = q /\ Last(seqs[s].pages) # q => Listed(q)' = Listed(q) + 1
         /\ p # q /\ Last(seqs[s].pages) = q => Listed(q)' = Listed(q) - 1
<1> DEFINE tab == PageTables
           zero == NoEntryTaken
           mid == [tab EXCEPT ![s] = Front(seqs[s].pages)]
<1>1. /\ tab \in Tables(SeqIds, Pages) /\ zero \in Marks(SeqIds) /\ IsFiniteSet(SeqIds)
      /\ zero[s] < Len(tab[s]) /\ tab[s] = seqs[s].pages /\ seqs[s].pages \in Seq(Pages)
  BY TablesType, PagesOf
<1>z. zero[s] = 0
  BY TablesType
<1>n. PICK new : new = PageTables'
  OBVIOUS
<1>2. new \in Tables(SeqIds, Pages) /\ \A r \in SeqIds : r # s => new[r] = tab[r]
  BY <1>n DEF TableNow
<1>e. new[s] = Append(Front(seqs[s].pages), p)
  BY <1>n DEF TableNow
<1>3. /\ Listed(q) = Cardinality(Places(tab, zero, q))
      /\ Listed(q)' = Cardinality(Places(new, zero, q))
  BY <1>n, ListedTables DEF Listed
<1> HIDE DEF tab, zero, Front
<1>4. /\ Front(seqs[s].pages) \in Seq(Pages)
      /\ Len(Front(seqs[s].pages)) = Len(tab[s]) - 1
      /\ \A i \in 1 .. Len(tab[s]) - 1 : Front(seqs[s].pages)[i] = tab[s][i]
      /\ Last(seqs[s].pages) = tab[s][Len(tab[s])] /\ Len(tab[s]) \in Nat
  BY <1>1, LastFront, SMTT(20)
<1>m. mid[s] = Front(seqs[s].pages)
  BY <1>1 DEF Tables
<1>5. mid \in Tables(SeqIds, Pages) /\ \A r \in SeqIds : r # s => mid[r] = tab[r]
  BY <1>1, <1>4 DEF Tables
<1> HIDE DEF mid
<1>6. /\ Len(mid[s]) = Len(tab[s]) - 1
      /\ \A i \in 1 .. Len(tab[s]) - 1 : mid[s][i] = tab[s][i]
  BY <1>4, <1>m
<1>7. /\ tab[s][Len(tab[s])] = q =>
           Cardinality(Places(mid, zero, q)) = Cardinality(Places(tab, zero, q)) - 1
      /\ tab[s][Len(tab[s])] # q =>
           Cardinality(Places(mid, zero, q)) = Cardinality(Places(tab, zero, q))
  BY <1>1, <1>5, <1>6, PlacesFront
<1>8. /\ Len(new[s]) = Len(mid[s]) + 1 /\ new[s][Len(mid[s]) + 1] = p
      /\ \A i \in 1 .. Len(mid[s]) : new[s][i] = mid[s][i]
      /\ zero[s] <= Len(mid[s])
      /\ \A r \in SeqIds : r # s => new[r] = mid[r]
  BY <1>1, <1>2, <1>4, <1>5, <1>m, <1>e, <1>z
<1>9. /\ p = q => Cardinality(Places(new, zero, q)) = Cardinality(Places(mid, zero, q)) + 1
      /\ p # q => Cardinality(Places(new, zero, q)) = Cardinality(Places(mid, zero, q))
  BY <1>1, <1>2, <1>5, <1>8, PlacesAppend
<1>10. Cardinality(Places(tab, zero, q)) \in Nat
  BY <1>1, PlacesFinite
<1> QED BY <1>3, <1>4, <1>7, <1>9, <1>10

\* A page step() took is placed, or given back.
LEMMA UntakenBump ==
  ASSUME TypeOK, NEW t \in Threads, next[t] < Len(fresh[t]), NEW q,
         fresh' = fresh, next' = [next EXCEPT ![t] = @ + 1]
  PROVE  /\ fresh[t][next[t] + 1] = q => Untaken(q)' = Untaken(q) - 1
         /\ fresh[t][next[t] + 1] # q => Untaken(q)' = Untaken(q)
<1>1. /\ IsFiniteSet(Threads) /\ fresh \in Tables(Threads, Pages) /\ next \in Marks(Threads)
  BY TablesType
<1>n. PICK n : n = next'
  OBVIOUS
<1>2. /\ n \in Marks(Threads) /\ n[t] = next[t] + 1
      /\ \A u \in Threads : u # t => n[u] = next[u]
  <2>1. next \in [Threads -> Nat]
    BY DEF TypeOK
  <2> QED BY <1>n, <2>1, BumpIn DEF Marks
<1>3. /\ fresh[t][next[t] + 1] = q =>
           Cardinality(Places(fresh, n, q)) = Cardinality(Places(fresh, next, q)) - 1
      /\ fresh[t][next[t] + 1] # q =>
           Cardinality(Places(fresh, n, q)) = Cardinality(Places(fresh, next, q))
  BY <1>1, <1>2, PlacesBump
<1>4. Untaken(q)' = Cardinality(Places(fresh, n, q))
  BY <1>n, Zenon DEF Untaken
<1> QED BY <1>3, <1>4 DEF Untaken

LEMMA UntakenTake ==
  ASSUME TypeOK, NEW t \in Threads, fresh[t] = <<>>, next[t] = 0, NEW q, NEW new \in Seq(Pages),
         \A i, j \in 1 .. Len(new) : new[i] = new[j] => i = j,
         next' = next, fresh' = [fresh EXCEPT ![t] = new]
  PROVE  /\ (\E i \in 1 .. Len(new) : new[i] = q) => Untaken(q)' = Untaken(q) + 1
         /\ ~(\E i \in 1 .. Len(new) : new[i] = q) => Untaken(q)' = Untaken(q)
<1>1. /\ IsFiniteSet(Threads) /\ fresh \in Tables(Threads, Pages) /\ next \in Marks(Threads)
  BY TablesType
<1>n. PICK f : f = fresh'
  OBVIOUS
<1>2. /\ f \in Tables(Threads, Pages) /\ f[t] = new
      /\ \A u \in Threads : u # t => f[u] = fresh[u]
  <2>1. fresh \in [Threads -> Seq(Pages)]
    BY DEF TypeOK
  <2> QED BY <1>n, <2>1 DEF Tables
<1>3. /\ (\E i \in 1 .. Len(new) : new[i] = q) =>
           Cardinality(Places(f, next, q)) = Cardinality(Places(fresh, next, q)) + 1
      /\ ~(\E i \in 1 .. Len(new) : new[i] = q) =>
           Cardinality(Places(f, next, q)) = Cardinality(Places(fresh, next, q))
  BY <1>1, <1>2, PlacesTake, SMTT(30)
<1>4. Untaken(q)' = Cardinality(Places(f, next, q))
  BY <1>n, Zenon DEF Untaken
<1> QED BY <1>3, <1>4 DEF Untaken

\* A rollback has put a page back and owes the release of the other.
LEMMA OwedMore ==
  ASSUME NEW t \in Threads, Setting(t), pc[t] # "restore", pc'[t] = "restore", NEW q
  PROVE  /\ Head(replaced'[t])[3] = q => Owed(q)' = Owed(q) + 1
         /\ Head(replaced'[t])[3] # q => Owed(q)' = Owed(q)
<1>1. Restoring(q)' = IF Head(replaced'[t])[3] = q THEN Restoring(q) \cup {t} ELSE Restoring(q)
  BY DEF Setting, Quiet, Restoring
<1>2. t \notin Restoring(q)
  BY DEF Restoring
<1>3. IsFiniteSet(Restoring(q)) /\ Owed(q) \in Nat
  BY CountTypes DEF Setting
<1>4. CASE Head(replaced'[t])[3] = q
  <2>1. Cardinality(Restoring(q) \cup {t}) = Cardinality(Restoring(q)) + 1
    BY <1>2, <1>3, AddOne
  <2> QED BY <1>1, <1>4, <2>1 DEF Owed
<1>5. CASE Head(replaced'[t])[3] # q
  BY <1>1, <1>3, <1>5 DEF Owed
<1> QED BY <1>4, <1>5

LEMMA OwedLess ==
  ASSUME NEW t \in Threads, Setting(t), pc[t] = "restore", pc'[t] # "restore", NEW q
  PROVE  /\ Head(replaced[t])[3] = q => Owed(q)' = Owed(q) - 1
         /\ Head(replaced[t])[3] # q => Owed(q)' = Owed(q)
<1>1. Restoring(q)' = Restoring(q) \ {t}
  BY DEF Setting, Quiet, Restoring
<1>2. t \in Restoring(q) <=> Head(replaced[t])[3] = q
  BY DEF Restoring
<1>3. IsFiniteSet(Restoring(q)) /\ Owed(q) \in Nat
  BY CountTypes DEF Setting
<1>4. CASE Head(replaced[t])[3] = q
  <2>1. Cardinality(Restoring(q) \ {t}) = Cardinality(Restoring(q)) - 1
    BY <1>2, <1>3, <1>4, FS_RemoveElement
  <2> QED BY <1>1, <1>4, <2>1 DEF Owed
<1>5. CASE Head(replaced[t])[3] # q
  <2>1. Restoring(q)' = Restoring(q)
    BY <1>1, <1>2, <1>5
  <2> QED BY <1>3, <1>5, <2>1 DEF Owed
<1> QED BY <1>4, <1>5

-----------------------------------------------------------------------------
(***************************************************************************)
(* Counted is kept, one lemma per kind of action: first the calls, which   *)
(* move no page, then what a thread does with its sequences.               *)
(***************************************************************************)
LEMMA CallCounted ==
  ASSUME NEW t \in Threads, Setting(t), Counted, Call(t)
  PROVE  Counted'
<1>t. TypeOK
  BY DEF Setting
<1>1. ASSUME NEW s \in SeqIds, NewSequence(t, s) PROVE Counted'
  <2>1. PageTables' = PageTables
    BY <1>t, <1>1, SetStateFacts DEF NewSequence
  <2> QED BY <1>1, <2>1, NoPageMoves DEF NewSequence, allocVars, stepVars
<1>2. ASSUME NEW s \in SeqIds, DestroyBegin(t, s) PROVE Counted'
  <2>1. PageTables' = PageTables
    BY <1>t, <1>2, SetStateFacts DEF DestroyBegin
  <2>2. pc'[t] = "destroy" /\ pc[t] = "idle"
    BY <1>t, <1>2 DEF DestroyBegin, Go, TypeOK
  <2> QED BY <1>2, <2>1, <2>2, NoPageMoves DEF DestroyBegin, allocVars, stepVars
<1>3. ASSUME NEW s \in SeqIds, NEW c \in SeqIds, ForkBegin(t, s, c) PROVE Counted'
  <2>1. PageTables' = PageTables
    BY <1>t, <1>3, SetStateFacts DEF ForkBegin
  <2>2. pc'[t] = "fork" /\ pc[t] = "idle"
    BY <1>t, <1>3 DEF ForkBegin, Go, TypeOK
  <2> QED BY <1>3, <2>1, <2>2, NoPageMoves DEF ForkBegin, allocVars, stepVars
<1>4. ASSUME NEW s \in SeqIds, NEW n \in 0 .. Context, TruncateBegin(t, s, n) PROVE Counted'
  <2>1. PageTables' = PageTables
    BY <1>4, SameSeqsSameTables DEF TruncateBegin
  <2>2. pc'[t] = "truncate" /\ pc[t] = "idle"
    BY <1>t, <1>4 DEF TruncateBegin, Go, TypeOK
  <2> QED BY <1>4, <2>1, <2>2, NoPageMoves DEF TruncateBegin, allocVars, stepVars
<1>5. ASSUME NEW b \in Batches, NEW tk \in [1 .. Len(b) -> Tokens], StepEnter(t, b, tk) PROVE Counted'
  <2>1. PageTables' = PageTables
    BY <1>5, SameSeqsSameTables DEF StepEnter
  <2>2. pc'[t] = "needs" /\ pc[t] = "idle"
    BY <1>t, <1>5 DEF StepEnter, Go, TypeOK
  <2> QED BY <1>5, <2>1, <2>2, NoPageMoves DEF StepEnter, allocVars
<1>6. ASSUME StepRefused(t) PROVE Counted'
  <2>1. PageTables' = PageTables
    BY <1>6, SameSeqsSameTables DEF StepRefused, vars
  <2>2. pc'[t] = "idle" /\ pc[t] = "idle"
    BY <1>6 DEF StepRefused, vars
  <2> QED BY <1>6, <2>1, <2>2, NoPageMoves DEF StepRefused, vars
<1> QED BY <1>1, <1>2, <1>3, <1>4, <1>5, <1>6 DEF Call, SequenceCall, StepCall

\* One page of one table, and its count, change together.
LEMMA OneTableMoves ==
  ASSUME NEW t \in Threads, Setting(t), Counted, pc[t] # "restore", pc'[t] # "restore",
         fresh' = fresh, next' = next,
         \A p \in Pages : Listed(p)' - Listed(p) = refs'[p] - refs[p]
  PROVE  Counted'
<1>1. ASSUME NEW p \in Pages PROVE refs'[p] - refs[p] = Held(p)' - Held(p)
  <2>1. Untaken(p)' = Untaken(p) /\ Owed(p)' = Owed(p)
    BY UntakenSame, OwedSame
  <2>2. Listed(p) \in Nat /\ Untaken(p) \in Nat /\ Owed(p) \in Nat
    BY CountTypes DEF Setting
  <2>3. (Listed(p) \in Nat)'
    BY CountTypes, PTL DEF Setting
  <2>4. Listed(p)' - Listed(p) = refs'[p] - refs[p]
    OBVIOUS
  <2> QED BY <2>1, <2>2, <2>3, <2>4 DEF Held
<1> QED BY <1>1, CountedBalance DEF Setting


LEMMA ForkRetainCounted ==
  ASSUME NEW t \in Threads, Setting(t), Counted, ForkRetain(t)
  PROVE  Counted'
<1>t. TypeOK
  BY DEF Setting
<1>a. pc[t] = "fork" /\ ForkShape(t)
  BY ShapeThread DEF Setting, ThreadShape, ForkRetain
<1>b. PICK s \in SeqIds, c \in SeqIds : s = tgt[t] /\ c = child[t]
  BY <1>a DEF ForkShape
<1>1. at[t] \in 1 .. Len(seqs[s].pages)
  <2>1. at[t] \in Nat /\ Len(seqs[s].pages) \in Nat
    BY <1>t, PagesOf DEF TypeOK
  <2> QED BY <1>a, <1>b, <2>1 DEF ForkShape, ForkRetain
<1>p. PICK p \in Pages : p = seqs[s].pages[at[t]]
  BY <1>t, <1>1, PagesOf
<1>2. refs[p] >= 1 /\ refs[p] \in Nat
  BY <1>t, <1>1, <1>p, ListedOnce, RefsAre
<1>3. Retain(p) /\ SetPages(c, Append(seqs[c].pages, p)) /\ Append(seqs[c].pages, p) \in Seq(Pages)
  BY <1>t, <1>b, <1>p, PagesOf DEF ForkRetain, SetPages
<1>4. TableNow(c, Append(seqs[c].pages, p))
  BY <1>t, <1>3, SetPagesTable
<1>5. ASSUME NEW q \in Pages PROVE Listed(q)' - Listed(q) = refs'[q] - refs[q]
  <2>1. /\ p = q => Listed(q)' = Listed(q) + 1
        /\ p # q => Listed(q)' = Listed(q)
    BY <1>t, <1>4, ListedAppend
  <2>2. /\ q = p => refs'[q] = refs[q] + 1
        /\ q # p => refs'[q] = refs[q]
    BY <1>t, <1>2, <1>3, RetainFacts
  <2>3. Listed(q) \in Nat /\ refs[q] \in Nat
    BY <1>t, CountTypes, RefsAre
  <2> QED BY <2>1, <2>2, <2>3
<1>6. pc'[t] = "fork" /\ fresh' = fresh /\ next' = next
  BY <1>a DEF ForkRetain, stepVars
<1> QED BY <1>a, <1>5, <1>6, OneTableMoves

LEMMA DestroyReleaseCounted ==
  ASSUME NEW t \in Threads, Setting(t), Counted, DestroyRelease(t)
  PROVE  Counted'
<1>t. TypeOK
  BY DEF Setting
<1>a. pc[t] = "destroy" /\ tgt[t] \in SeqIds
  BY ShapeThread DEF Setting, ThreadShape, DestroyShape, DestroyRelease
<1>b. PICK s \in SeqIds : s = tgt[t]
  BY <1>a
<1>1. /\ seqs[s].pages # <<>> /\ seqs[s].pages \in Seq(Pages)
      /\ Head(seqs[s].pages) = seqs[s].pages[1] /\ 1 \in 1 .. Len(seqs[s].pages)
  BY <1>t, <1>b, PagesOf DEF DestroyRelease
<1>p. PICK p \in Pages : p = Head(seqs[s].pages)
  BY <1>t, <1>1, PagesOf
<1>2. refs[p] >= 1 /\ refs[p] \in Nat
  BY <1>t, <1>1, <1>p, ListedOnce, RefsAre
<1>3. Release(p) /\ SetPages(s, Tail(seqs[s].pages)) /\ Tail(seqs[s].pages) \in Seq(Pages)
  BY <1>1, <1>b, <1>p DEF DestroyRelease
<1>4. TableNow(s, Tail(seqs[s].pages))
  BY <1>t, <1>3, SetPagesTable
<1>5. ASSUME NEW q \in Pages PROVE Listed(q)' - Listed(q) = refs'[q] - refs[q]
  <2>1. /\ p = q => Listed(q)' = Listed(q) - 1
        /\ p # q => Listed(q)' = Listed(q)
    BY <1>t, <1>1, <1>p, <1>4, ListedTail
  <2>2. /\ q = p => refs'[q] = refs[q] - 1
        /\ q # p => refs'[q] = refs[q]
    BY <1>t, <1>2, <1>3, ReleaseFacts
  <2>3. Listed(q) \in Nat /\ refs[q] \in Nat
    BY <1>t, CountTypes, RefsAre
  <2> QED BY <2>1, <2>2, <2>3
<1>6. pc'[t] = "destroy" /\ fresh' = fresh /\ next' = next
  BY <1>a DEF DestroyRelease, stepVars
<1> QED BY <1>a, <1>5, <1>6, OneTableMoves

\* The last page of a table is given back.
LEMMA FrontReleased ==
  ASSUME NEW t \in Threads, Setting(t), Counted, pc[t] # "restore", pc'[t] # "restore",
         fresh' = fresh, next' = next,
         NEW s \in SeqIds, Len(seqs[s].pages) > 0, SetPages(s, Front(seqs[s].pages)),
         Release(Last(seqs[s].pages))
  PROVE  Counted'
<1>t. TypeOK
  BY DEF Setting
<1>1. /\ seqs[s].pages \in Seq(Pages) /\ Front(seqs[s].pages) \in Seq(Pages)
      /\ Last(seqs[s].pages) = seqs[s].pages[Len(seqs[s].pages)]
      /\ Len(seqs[s].pages) \in 1 .. Len(seqs[s].pages)
  BY <1>t, PagesOf, LastFront
<1>p. PICK p \in Pages : p = Last(seqs[s].pages)
  BY <1>t, <1>1, PagesOf
<1>2. refs[p] >= 1 /\ refs[p] \in Nat
  BY <1>t, <1>1, <1>p, ListedOnce, RefsAre
<1>4. TableNow(s, Front(seqs[s].pages))
  BY <1>t, <1>1, SetPagesTable
<1>5. ASSUME NEW q \in Pages PROVE Listed(q)' - Listed(q) = refs'[q] - refs[q]
  <2>1. /\ p = q => Listed(q)' = Listed(q) - 1
        /\ p # q => Listed(q)' = Listed(q)
    BY <1>t, <1>p, <1>4, ListedFront
  <2>2. /\ q = p => refs'[q] = refs[q] - 1
        /\ q # p => refs'[q] = refs[q]
    BY <1>t, <1>2, <1>p, ReleaseFacts
  <2>3. Listed(q) \in Nat /\ refs[q] \in Nat
    BY <1>t, CountTypes, RefsAre
  <2> QED BY <2>1, <2>2, <2>3
<1> QED BY <1>5, OneTableMoves

LEMMA SequenceRunCounted ==
  ASSUME NEW t \in Threads, Setting(t), Counted, SequenceRun(t)
  PROVE  Counted'
<1>t. TypeOK
  BY DEF Setting
<1>1. CASE ForkRetain(t) \/ DestroyRelease(t)
  BY <1>1, ForkRetainCounted, DestroyReleaseCounted
<1>2. CASE TruncateRelease(t)
  <2>1. pc[t] = "truncate" /\ tgt[t] \in SeqIds
    BY <1>2, ShapeThread DEF Setting, ThreadShape, TruncateShape, TruncateRelease
  <2>2. PICK s \in SeqIds : s = tgt[t]
    BY <2>1
  <2>3. Len(seqs[s].pages) > 0
    <3>1. Keep(goal[t]) \in Nat /\ Len(seqs[s].pages) \in Nat
      <4>1. goal[t] \in Nat
        BY <1>t, RuntimeAssumption DEF TypeOK
      <4> QED BY <1>t, <4>1, PagesOf, KeepNat
    <3> QED BY <1>2, <2>2, <3>1 DEF TruncateRelease
  <2>4. /\ pc'[t] = "truncate" /\ fresh' = fresh /\ next' = next
        /\ SetPages(s, Front(seqs[s].pages)) /\ Release(Last(seqs[s].pages))
    BY <1>2, <2>1, <2>2 DEF TruncateRelease, stepVars
  <2> QED BY <2>1, <2>3, <2>4, FrontReleased
<1>3. CASE ForkEnd(t)
  BY <1>t, <1>3, ForkEndShape, NoPageMoves DEF ForkEnd, Go, TypeOK, allocVars, stepVars
<1>4. CASE DestroyEnd(t)
  BY <1>t, <1>4, DestroyEndShape, NoPageMoves DEF DestroyEnd, Go, TypeOK, allocVars, stepVars
<1>5. CASE TruncateEnd(t)
  BY <1>t, <1>5, TruncateEndShape, NoPageMoves DEF TruncateEnd, Go, TypeOK, allocVars, stepVars
<1> QED BY <1>1, <1>2, <1>3, <1>4, <1>5 DEF SequenceRun


-----------------------------------------------------------------------------
(***************************************************************************)
(* Counted inside step().                                                  *)
(***************************************************************************)
LEMMA LeaveFacts ==
  ASSUME TypeOK, NEW t \in Threads, Leave(t)
  PROVE  /\ pc'[t] = "idle" /\ fresh'[t] = <<>> /\ next'[t] = 0 /\ next'[t] >= Len(fresh'[t])
         /\ ~stepping'
  BY DEF Leave, Go, TypeOK

LEMMA BalanceOf ==
  ASSUME NEW t \in Threads, Setting(t), NEW p \in Pages
  PROVE  /\ Listed(p) \in Nat /\ Untaken(p) \in Nat /\ Owed(p) \in Nat /\ refs[p] \in Nat
         /\ Listed(p)' \in Nat /\ Untaken(p)' \in Nat /\ Owed(p)' \in Nat /\ refs'[p] \in Nat
         /\ Held(p) = Listed(p) + Untaken(p) + Owed(p)
         /\ Held(p)' = Listed(p)' + Untaken(p)' + Owed(p)'
<1>1. Listed(p) \in Nat /\ Untaken(p) \in Nat /\ Owed(p) \in Nat
  BY CountTypes DEF Setting
<1>2. (Listed(p) \in Nat /\ Untaken(p) \in Nat /\ Owed(p) \in Nat)'
  BY CountTypes, PTL DEF Setting
<1>3. refs[p] \in Nat /\ refs'[p] \in Nat
  BY DEF Setting, TypeOK, AllocTypeOK
<1> QED BY <1>1, <1>2, <1>3 DEF Held

LEMMA StepAllocCounted ==
  ASSUME NEW t \in Threads, Setting(t), Counted, StepAlloc(t)
  PROVE  Counted'
<1>t. TypeOK /\ TypeOK' /\ AllocInv
  BY DEF Setting
<1>0. /\ pc[t] = "alloc" /\ ThreadShape(t) /\ fresh[t] = <<>> /\ next[t] = 0
      /\ PageTables' = PageTables
  <2>1. pc[t] = "alloc" /\ InStep(t) /\ PageTables' = PageTables
    BY SameSeqsSameTables DEF StepAlloc, InStep, StepPcs
  <2> QED BY <2>1, InStepShape DEF Setting, StepPlan
<1>1. Wanted(t) \in Nat
  BY <1>t, <1>0, WantedCount, MembersIn
<1>2. CASE Leave(t) /\ Len(free) < Wanted(t)
  <2>1. refs' = refs
    BY <1>t, <1>1, <1>2 DEF StepAlloc, AllocateMany, AllocInv, AllocTypeOK
  <2> QED BY <1>t, <1>0, <1>2, <2>1, LeaveFacts, NoPageMoves
<1>3. CASE /\ Len(free) >= Wanted(t)
           /\ fresh' = [fresh EXCEPT ![t] = TopPages(Wanted(t))]
           /\ Go(t, "apply")
           /\ UNCHANGED <<stepping, at, batch, toks, needs, next, appended, replaced>>
  <2>n. PICK n \in Nat : n = Wanted(t)
    BY <1>1
  <2>f. PICK top : top = TopPages(n)
    OBVIOUS
  <2>1. /\ top \in Seq(Pages) /\ Len(top) = n
        /\ \A i, j \in 1 .. Len(top) : top[i] = top[j] => i = j
        /\ \A i \in 1 .. Len(top) : refs[top[i]] = 0
    <3>1. n <= Len(free)
      BY <1>t, <1>3, <2>n DEF AllocInv, AllocTypeOK
    <3> QED BY <1>t, <3>1, <2>f, TopPagesFacts
  <2>2. \A p \in Pages : refs'[p] = IF \E i \in 1 .. Len(top) : top[i] = p THEN 1 ELSE refs[p]
    <3>1. ~(Len(free) < n)
      BY <1>t, <1>3, <2>n DEF AllocInv, AllocTypeOK
    <3>2. AllocateMany(n)
      BY <2>n DEF StepAlloc
    <3>3. refs' = [p \in Pages |-> IF \E i \in 1 .. n : TopPages(n)[i] = p THEN 1 ELSE refs[p]]
      BY <3>1, <3>2 DEF AllocateMany
    <3> QED BY <3>3, <2>f, <2>1
  <2>3. fresh' = [fresh EXCEPT ![t] = top] /\ next' = next /\ pc'[t] = "apply"
    BY <1>t, <1>3, <2>n, <2>f DEF Go, TypeOK
  <2>4. ASSUME NEW p \in Pages PROVE refs'[p] - refs[p] = Held(p)' - Held(p)
    <3>1. Listed(p)' = Listed(p) /\ Owed(p)' = Owed(p)
      BY <1>0, <2>3, ListedSame, OwedSame
    <3>2. /\ (\E i \in 1 .. Len(top) : top[i] = p) => Untaken(p)' = Untaken(p) + 1
          /\ ~(\E i \in 1 .. Len(top) : top[i] = p) => Untaken(p)' = Untaken(p)
      BY <1>t, <1>0, <2>1, <2>3, UntakenTake
    <3>3. /\ (\E i \in 1 .. Len(top) : top[i] = p) => refs'[p] = 1 /\ refs[p] = 0
          /\ ~(\E i \in 1 .. Len(top) : top[i] = p) => refs'[p] = refs[p]
      BY <2>1, <2>2
    <3> QED BY <3>1, <3>2, <3>3, BalanceOf, SMTT(20)
  <2> QED BY <1>t, <2>4, CountedBalance
<1> QED BY <1>2, <1>3 DEF StepAlloc

LEMMA ApplyNewCounted ==
  ASSUME NEW t \in Threads, Setting(t), Counted, ApplyNew(t)
  PROVE  Counted'
<1>t. TypeOK /\ TypeOK'
  BY DEF Setting
<1>0. /\ pc[t] = "apply" /\ ThreadShape(t) /\ needs[t][at[t]] = "new" /\ InStep(t)
      /\ at[t] \in 1 .. Len(batch[t])
  BY InStepShape DEF Setting, ApplyNew, InStep, StepPcs, StepArgs
<1>b. PICK s \in SeqIds : s = batch[t][at[t]]
  BY <1>t, <1>0, MembersIn
<1>c. PICK page \in Pages : page = fresh[t][next[t] + 1]
  BY <1>t, <1>0, FreshPage
<1>1. SetPages(s, Append(seqs[s].pages, page)) /\ Append(seqs[s].pages, page) \in Seq(Pages)
  BY <1>t, <1>b, <1>c, PagesOf DEF ApplyNew
<1>2. TableNow(s, Append(seqs[s].pages, page))
  BY <1>t, <1>1, SetPagesTable
<1>3. next[t] < Len(fresh[t]) /\ fresh' = fresh /\ next' = [next EXCEPT ![t] = @ + 1]
  BY <1>t, <1>0, FreshPage, MembersIn DEF ApplyNew, Bump
<1>4. pc[t] # "restore" /\ pc'[t] # "restore"
  BY <1>t, <1>0, NextMemberFacts DEF ApplyNew
<1>5. ASSUME NEW p \in Pages PROVE refs'[p] - refs[p] = Held(p)' - Held(p)
  <2>1. Owed(p)' = Owed(p)
    BY <1>4, OwedSame
  <2>2. /\ page = p => Listed(p)' = Listed(p) + 1
        /\ page # p => Listed(p)' = Listed(p)
    BY <1>t, <1>2, ListedAppend
  <2>3. /\ page = p => Untaken(p)' = Untaken(p) - 1
        /\ page # p => Untaken(p)' = Untaken(p)
    BY <1>t, <1>c, <1>3, UntakenBump
  <2>4. refs'[p] = refs[p]
    BY DEF ApplyNew, allocVars
  <2> QED BY <2>1, <2>2, <2>3, <2>4, BalanceOf
<1> QED BY <1>t, <1>5, CountedBalance

LEMMA ApplyCowCounted ==
  ASSUME NEW t \in Threads, Setting(t), Counted, ApplyCow(t)
  PROVE  Counted'
<1>t. TypeOK /\ TypeOK'
  BY DEF Setting
<1>0. /\ pc[t] = "apply" /\ ThreadShape(t) /\ needs[t][at[t]] = "cow" /\ InStep(t)
      /\ at[t] \in 1 .. Len(batch[t])
  BY InStepShape DEF Setting, ApplyCow, InStep, StepPcs, StepArgs
<1>b. PICK s \in SeqIds : s = batch[t][at[t]]
  BY <1>t, <1>0, MembersIn
<1>c. PICK page \in Pages : page = fresh[t][next[t] + 1]
  BY <1>t, <1>0, FreshPage
<1>d. Len(seqs[s].pages) > 0
  BY <1>t, <1>0, <1>b, CowMember
<1>e. PICK old \in Pages : old = Last(seqs[s].pages)
  BY <1>t, <1>d, PagesOf, LastFront
<1>1. SetPages(s, Append(Front(seqs[s].pages), page)) /\ Append(Front(seqs[s].pages), page) \in Seq(Pages)
  <2>1. Front(seqs[s].pages) \in Seq(Pages)
    BY <1>t, <1>d, PagesOf, LastFront
  <2>2. SetPages(s, Append(Front(seqs[s].pages), page))
    BY <1>b, <1>c DEF ApplyCow
  <2> HIDE DEF Front
  <2> QED BY <2>1, <2>2
<1>2. TableNow(s, Append(Front(seqs[s].pages), page))
  BY <1>t, <1>1, SetPagesTable
<1>3. next[t] < Len(fresh[t]) /\ fresh' = fresh /\ next' = [next EXCEPT ![t] = @ + 1]
  BY <1>t, <1>0, FreshPage, MembersIn DEF ApplyCow, Bump
<1>4. pc[t] # "restore" /\ pc'[t] # "restore"
  BY <1>t, <1>0, NextMemberFacts DEF ApplyCow
<1>r. Release(old) /\ refs[old] >= 1 /\ refs[old] \in Nat
  <2>1. Len(seqs[s].pages) \in 1 .. Len(seqs[s].pages) /\ old = seqs[s].pages[Len(seqs[s].pages)]
    BY <1>t, <1>d, <1>e, PagesOf, LastFront
  <2>2. refs[old] >= 1
    BY <1>t, <2>1, ListedOnce
  <2> QED BY <1>t, <1>b, <1>e, <2>2, RefsAre DEF ApplyCow
<1>5. ASSUME NEW p \in Pages PROVE refs'[p] - refs[p] = Held(p)' - Held(p)
  <2>1. Owed(p)' = Owed(p)
    BY <1>4, OwedSame
  <2>2. /\ page = p /\ old = p => Listed(p)' = Listed(p)
        /\ page # p /\ old # p => Listed(p)' = Listed(p)
        /\ page = p /\ old # p => Listed(p)' = Listed(p) + 1
        /\ page # p /\ old = p => Listed(p)' = Listed(p) - 1
    BY <1>t, <1>d, <1>e, <1>2, ListedExchange
  <2>3. /\ page = p => Untaken(p)' = Untaken(p) - 1
        /\ page # p => Untaken(p)' = Untaken(p)
    BY <1>t, <1>c, <1>3, UntakenBump
  <2>4. /\ p = old => refs'[p] = refs[p] - 1
        /\ p # old => refs'[p] = refs[p]
    BY <1>t, <1>r, ReleaseFacts
  <2> QED BY <2>1, <2>2, <2>3, <2>4, BalanceOf
<1> QED BY <1>t, <1>5, CountedBalance


\* The failed copy counts on twice: the page it gives back, and one that leaks
\* unless there is none.
LEMMA UntakenSkip ==
  ASSUME TypeOK, NEW t \in Threads, next[t] < Len(fresh[t]), NEW q,
         fresh' = fresh, next' = [next EXCEPT ![t] = @ + 2]
  PROVE  /\ fresh[t][next[t] + 1] = q => Untaken(q)' <= Untaken(q) - 1
         /\ fresh[t][next[t] + 1] # q => Untaken(q)' <= Untaken(q)
         /\ next[t] + 1 = Len(fresh[t]) =>
              /\ fresh[t][next[t] + 1] = q => Untaken(q)' = Untaken(q) - 1
              /\ fresh[t][next[t] + 1] # q => Untaken(q)' = Untaken(q)
<1>1. /\ IsFiniteSet(Threads) /\ fresh \in Tables(Threads, Pages) /\ next \in Marks(Threads)
  BY TablesType
<1>n. PICK n : n = next'
  OBVIOUS
<1>t. next \in [Threads -> Nat] /\ fresh \in [Threads -> Seq(Pages)] /\ Len(fresh[t]) \in Nat
  BY DEF TypeOK
<1>2. /\ n \in Marks(Threads) /\ n[t] = next[t] + 2
      /\ \A u \in Threads : u # t => n[u] = next[u]
  BY <1>n, <1>t, BumpIn DEF Marks
<1>m. PICK m : m = [next EXCEPT ![t] = @ + 1]
  OBVIOUS
<1>3. /\ m \in Marks(Threads) /\ m[t] = next[t] + 1
      /\ \A u \in Threads : u # t => m[u] = next[u]
  BY <1>m, <1>t, BumpIn DEF Marks
<1>4. /\ fresh[t][next[t] + 1] = q =>
           Cardinality(Places(fresh, m, q)) = Cardinality(Places(fresh, next, q)) - 1
      /\ fresh[t][next[t] + 1] # q =>
           Cardinality(Places(fresh, m, q)) = Cardinality(Places(fresh, next, q))
  BY <1>1, <1>3, PlacesBump
<1>5. Untaken(q)' = Cardinality(Places(fresh, n, q)) /\ Untaken(q) = Cardinality(Places(fresh, next, q))
  BY <1>n, Zenon DEF Untaken
<1>6. CASE next[t] + 1 = Len(fresh[t])
  <2>1. ASSUME NEW u \in Threads, NEW i \in Nat
        PROVE  Named(fresh, n, q, u, i) <=> Named(fresh, m, q, u, i)
    <3>1. CASE u = t
      BY <1>t, <1>2, <1>3, <1>6, <3>1 DEF Named
    <3>2. CASE u # t
      BY <1>2, <1>3, <3>2 DEF Named
    <3> QED BY <3>1, <3>2
  <2>2. DOMAIN fresh = Threads
    BY <1>t
  <2>3. Places(fresh, n, q) = Places(fresh, m, q)
    BY <2>1, <2>2, PlacesSame
  <2>4. Cardinality(Places(fresh, m, q)) \in Nat /\ Cardinality(Places(fresh, next, q)) \in Nat
    BY <1>1, <1>3, PlacesFinite
  <2> QED BY <1>4, <1>5, <2>3, <2>4
<1>7. CASE next[t] + 1 # Len(fresh[t])
  <2>1. m[t] < Len(fresh[t]) /\ n[t] = m[t] + 1
    BY <1>t, <1>2, <1>3, <1>7
  <2>2. \A u \in Threads : u # t => n[u] = m[u]
    BY <1>2, <1>3
  <2>3. /\ fresh[t][m[t] + 1] = q =>
             Cardinality(Places(fresh, n, q)) = Cardinality(Places(fresh, m, q)) - 1
        /\ fresh[t][m[t] + 1] # q =>
             Cardinality(Places(fresh, n, q)) = Cardinality(Places(fresh, m, q))
    <3>1. n \in Marks(Threads) /\ m \in Marks(Threads)
      BY <1>2, <1>3
    <3> QED BY ONLY <1>1, <3>1, <2>1, <2>2, PlacesBump, t \in Threads
  <2>4. Cardinality(Places(fresh, m, q)) \in Nat /\ Cardinality(Places(fresh, next, q)) \in Nat
    BY <1>1, <1>3, PlacesFinite
  <2> QED BY <1>4, <1>5, <1>7, <2>3, <2>4
<1> QED BY <1>6, <1>7

LEMMA CopyFailsCounted ==
  ASSUME NEW t \in Threads, Setting(t), Counted, CopyFails(t)
  PROVE  Counted'
<1>t. TypeOK /\ TypeOK'
  BY DEF Setting
<1>0. /\ pc[t] = "apply" /\ ThreadShape(t) /\ needs[t][at[t]] = "cow" /\ InStep(t) /\ CopyMayFail
      /\ Len(fresh[t]) <= Len(batch[t]) /\ Len(batch[t]) \in 1 .. MaxBatch
  BY InStepShape DEF Setting, CopyFails, InStep, StepPcs, StepArgs, StepPlan
<1>c. PICK page \in Pages : page = fresh[t][next[t] + 1]
  BY <1>t, <1>0, FreshPage
<1>1. /\ next[t] < Len(fresh[t]) /\ next[t] + 1 \in next[t] + 1 .. Len(fresh[t])
      /\ next[t] \in Nat /\ Len(fresh[t]) \in Nat
  BY <1>t, <1>0, FreshPage, MembersIn
<1>2. Release(page) /\ refs[page] >= 1 /\ refs[page] \in Nat
  BY <1>t, <1>1, <1>c, UntakenOnce, RefsAre DEF CopyFails
<1>3. /\ pc'[t] = "unwind" /\ seqs' = seqs /\ fresh' = fresh
      /\ next' = [next EXCEPT ![t] = @ + 2]
  BY <1>t DEF CopyFails, Go, TypeOK
<1>4. ASSUME NEW p \in Pages
      PROVE  refs'[p] >= Held(p)' /\ (NothingLeaks => refs'[p] = Held(p)')
  <2>1. Listed(p)' = Listed(p) /\ Owed(p)' = Owed(p)
    BY <1>0, <1>3, SameSeqsSameTables, ListedSame, OwedSame
  <2>2. /\ page = p => Untaken(p)' <= Untaken(p) - 1
        /\ page # p => Untaken(p)' <= Untaken(p)
        /\ next[t] + 1 = Len(fresh[t]) =>
             /\ page = p => Untaken(p)' = Untaken(p) - 1
             /\ page # p => Untaken(p)' = Untaken(p)
    BY <1>t, <1>1, <1>3, <1>c, UntakenSkip
  <2>3. NothingLeaks => next[t] + 1 = Len(fresh[t])
    BY <1>0, <1>1 DEF NothingLeaks
  <2>4. /\ p = page => refs'[p] = refs[p] - 1
        /\ p # page => refs'[p] = refs[p]
    BY <1>t, <1>2, ReleaseFacts
  <2>5. refs[p] >= Held(p) /\ (NothingLeaks => refs[p] = Held(p))
    BY DEF Counted
  <2>6. /\ Listed(p) \in Nat /\ Untaken(p) \in Nat /\ Owed(p) \in Nat /\ refs[p] \in Nat
        /\ Untaken(p)' \in Nat /\ refs'[p] \in Nat
        /\ Held(p) = Listed(p) + Untaken(p) + Owed(p)
        /\ Held(p)' = Listed(p) + Untaken(p)' + Owed(p)
    BY <2>1, BalanceOf
  <2> HIDE DEF NothingLeaks, Listed, Untaken, Owed, Held
  <2>7. CASE page = p
    BY <2>2, <2>3, <2>4, <2>5, <2>6, <2>7
  <2>8. CASE page # p
    BY <2>2, <2>3, <2>4, <2>5, <2>6, <2>8
  <2> QED BY <2>7, <2>8
<1> QED BY <1>4 DEF Counted, NothingLeaks

LEMMA UnwindFreshCounted ==
  ASSUME NEW t \in Threads, Setting(t), Counted, UnwindFresh(t)
  PROVE  Counted'
<1>t. TypeOK /\ TypeOK'
  BY DEF Setting
<1>1. /\ next[t] < Len(fresh[t]) /\ next[t] + 1 \in next[t] + 1 .. Len(fresh[t])
      /\ pc[t] = "unwind" /\ pc'[t] = "unwind" /\ seqs' = seqs /\ fresh' = fresh
      /\ next' = [next EXCEPT ![t] = @ + 1]
  BY <1>t, MembersIn DEF UnwindFresh, Bump
<1>c. PICK page \in Pages : page = fresh[t][next[t] + 1]
  BY <1>t, <1>1, UntakenOnce
<1>2. Release(page) /\ refs[page] >= 1 /\ refs[page] \in Nat
  BY <1>t, <1>1, <1>c, UntakenOnce, RefsAre DEF UnwindFresh
<1>4. ASSUME NEW p \in Pages PROVE refs'[p] - refs[p] = Held(p)' - Held(p)
  <2>1. Listed(p)' = Listed(p) /\ Owed(p)' = Owed(p)
    BY <1>1, SameSeqsSameTables, ListedSame, OwedSame
  <2>2. /\ page = p => Untaken(p)' = Untaken(p) - 1
        /\ page # p => Untaken(p)' = Untaken(p)
    BY <1>t, <1>1, <1>c, UntakenBump
  <2>4. /\ p = page => refs'[p] = refs[p] - 1
        /\ p # page => refs'[p] = refs[p]
    BY <1>t, <1>2, ReleaseFacts
  <2> QED BY <2>1, <2>2, <2>4, BalanceOf
<1> QED BY <1>t, <1>4, CountedBalance

LEMMA RollbackAppendedCounted ==
  ASSUME NEW t \in Threads, Setting(t), Counted, RollbackAppended(t)
  PROVE  Counted'
<1>t. TypeOK
  BY DEF Setting
<1>0. /\ pc[t] = "unwind" /\ pc'[t] = "unwind" /\ InStep(t) /\ appended[t] # <<>>
      /\ fresh' = fresh /\ next' = next
  BY DEF RollbackAppended, InStep, StepPcs
<1>1. PICK s \in SeqIds : /\ s = Head(appended[t])[1] /\ Len(seqs[s].pages) > 0
                          /\ Last(seqs[s].pages) = Head(appended[t])[2]
  BY <1>t, <1>0, InStepShape, AppendedFacts DEF Setting
<1>2. SetPages(s, Front(seqs[s].pages)) /\ Release(Last(seqs[s].pages))
  BY <1>1 DEF RollbackAppended
<1> QED BY <1>0, <1>1, <1>2, FrontReleased

\* The old page is listed again; the new one is owed a release.  If retain()
\* refuses, the sequence lists a page that is free.
\* The rollback meets a page that was given back meanwhile, and throws again.
Broken(t) == RollbackRetain(t) /\ refs[Head(replaced[t])[2]] = 0 /\ ~Intact' /\ ~stepping'

LEMMA RollbackRetainCounted ==
  ASSUME NEW t \in Threads, Setting(t), Counted, RollbackRetain(t)
  PROVE  Counted' \/ Broken(t)
<1>t. TypeOK /\ TypeOK'
  BY DEF Setting
<1>0. /\ pc[t] = "unwind" /\ InStep(t) /\ replaced[t] # <<>> /\ ThreadShape(t)
      /\ next[t] >= Len(fresh[t])
  BY InStepShape DEF Setting, RollbackRetain, InStep, StepPcs
<1>1. PICK s \in SeqIds, old \in Pages, page \in Pages :
        /\ s = Head(replaced[t])[1] /\ old = Head(replaced[t])[2] /\ page = Head(replaced[t])[3]
        /\ Len(seqs[s].pages) > 0 /\ Last(seqs[s].pages) = page /\ s \in Members(t)
  BY <1>t, <1>0, ReplacedFacts
<1>2. SetPages(s, Append(Front(seqs[s].pages), old)) /\ Append(Front(seqs[s].pages), old) \in Seq(Pages)
  <2>1. Front(seqs[s].pages) \in Seq(Pages)
    BY <1>t, <1>1, PagesOf, LastFront
  <2>2. SetPages(s, Append(Front(seqs[s].pages), old))
    BY <1>1 DEF RollbackRetain
  <2> HIDE DEF Front
  <2> QED BY <2>1, <2>2
<1>3. Retain(old)
  BY <1>1 DEF RollbackRetain
<1>4. CASE refs[old] # 0 /\ Go(t, "restore") /\ UNCHANGED <<stepping, at, stepVars>>
  <2>1. pc'[t] = "restore" /\ fresh' = fresh /\ next' = next /\ replaced' = replaced
    BY <1>t, <1>4 DEF Go, TypeOK, stepVars
  <2>2. TableNow(s, Append(Front(seqs[s].pages), old))
    BY <1>t, <1>2, SetPagesTable
  <2>3. ASSUME NEW p \in Pages PROVE refs'[p] - refs[p] = Held(p)' - Held(p)
    <3>1. Untaken(p)' = Untaken(p)
      BY <2>1, UntakenSame
    <3>2. /\ old = p /\ page = p => Listed(p)' = Listed(p)
          /\ old # p /\ page # p => Listed(p)' = Listed(p)
          /\ old = p /\ page # p => Listed(p)' = Listed(p) + 1
          /\ old # p /\ page = p => Listed(p)' = Listed(p) - 1
      BY <1>t, <1>1, <2>2, ListedExchange
    <3>3. /\ page = p => Owed(p)' = Owed(p) + 1
          /\ page # p => Owed(p)' = Owed(p)
      <4>1. Head(replaced'[t])[3] = page
        BY <1>1, <2>1
      <4> QED BY <1>0, <2>1, <4>1, OwedMore
    <3>4. /\ p = old => refs'[p] = refs[p] + 1
          /\ p # old => refs'[p] = refs[p]
      BY <1>t, <1>3, <1>4, RetainFacts
    <3> QED BY <3>1, <3>2, <3>3, <3>4, BalanceOf
  <2> QED BY <1>t, <2>3, CountedBalance
<1>5. CASE refs[old] = 0 /\ Leave(t)
  <2>1. seqs[s].state = "live"
    BY <1>0, <1>1 DEF ThreadShape, StepArgs, Members
  <2>2. seqs'[s].state = "live" /\ seqs'[s].pages = Append(Front(seqs[s].pages), old)
    BY <1>t, <1>2, <2>1, SetPagesFacts
  <2>3. /\ Len(seqs'[s].pages) \in 1 .. Len(seqs'[s].pages)
        /\ seqs'[s].pages[Len(seqs'[s].pages)] = old
    <3>1. Front(seqs[s].pages) \in Seq(Pages)
      BY <1>t, <1>1, PagesOf, LastFront
    <3> HIDE DEF Front
    <3> QED BY <2>2, <3>1
  <2>4. refs'[old] = 0
    BY <1>3, <1>5 DEF Retain
  <2>5. ~Intact'
    BY <2>2, <2>3, <2>4 DEF Intact, Ready
  <2> QED BY <1>t, <1>1, <1>5, <2>5, LeaveFacts DEF Broken
<1> QED BY <1>1, <1>4, <1>5 DEF RollbackRetain

LEMMA RollbackReleaseCounted ==
  ASSUME NEW t \in Threads, Setting(t), Counted, RollbackRelease(t)
  PROVE  Counted'
<1>t. TypeOK /\ TypeOK'
  BY DEF Setting
<1>0. /\ pc[t] = "restore" /\ pc'[t] = "unwind" /\ InStep(t) /\ seqs' = seqs
      /\ fresh' = fresh /\ next' = next
  BY <1>t DEF RollbackRelease, Go, TypeOK, InStep, StepPcs
<1>1. replaced[t] # <<>>
  BY <1>0, InStepShape DEF Setting, StepTables, StepPhase
<1>c. PICK page \in Pages : page = Head(replaced[t])[3]
  BY <1>t, <1>0, <1>1, InStepShape, ReplacedFacts DEF Setting
<1>2. Release(page) /\ refs[page] >= 1 /\ refs[page] \in Nat
  BY <1>t, <1>0, <1>c, OwedOnce, RefsAre DEF RollbackRelease, Restoring
<1>4. ASSUME NEW p \in Pages PROVE refs'[p] - refs[p] = Held(p)' - Held(p)
  <2>1. Listed(p)' = Listed(p) /\ Untaken(p)' = Untaken(p)
    BY <1>0, SameSeqsSameTables, ListedSame, UntakenSame
  <2>2. /\ page = p => Owed(p)' = Owed(p) - 1
        /\ page # p => Owed(p)' = Owed(p)
    BY <1>0, <1>c, OwedLess
  <2>4. /\ p = page => refs'[p] = refs[p] - 1
        /\ p # page => refs'[p] = refs[p]
    BY <1>t, <1>2, ReleaseFacts
  <2> QED BY <2>1, <2>2, <2>4, BalanceOf
<1> QED BY <1>t, <1>4, CountedBalance


LEMMA StepRunCounted ==
  ASSUME NEW t \in Threads, Setting(t), Counted, StepRun(t)
  PROVE  Counted' \/ Broken(t)
<1>t. TypeOK
  BY DEF Setting
<1>1. CASE StepNeeds(t)
  <2>1. pc[t] # "restore" /\ pc'[t] # "restore"
    BY <1>t, <1>1 DEF StepNeeds, Go, TypeOK
  <2>2. refs' = refs /\ seqs' = seqs /\ fresh' = fresh /\ next' = next
    BY <1>1 DEF StepNeeds, allocVars
  <2> QED BY <2>1, <2>2, SameSeqsSameTables, NoPageMoves
<1>2. CASE ApplyNone(t)
  <2>1. pc[t] # "restore" /\ pc'[t] # "restore"
    BY <1>t, <1>2, ShapeThread, NextMemberFacts DEF ApplyNone, Setting
  <2>2. refs' = refs /\ seqs' = seqs /\ fresh' = fresh /\ next' = next
    BY <1>2 DEF ApplyNone, allocVars, stepVars
  <2> QED BY <2>1, <2>2, SameSeqsSameTables, NoPageMoves
<1>3. CASE StepKernel(t) \/ KernelFails(t)
  <2>1. pc[t] # "restore" /\ pc'[t] # "restore"
    BY <1>t, <1>3 DEF StepKernel, KernelFails, Go, TypeOK
  <2>2. refs' = refs /\ seqs' = seqs /\ fresh' = fresh /\ next' = next
    BY <1>3 DEF StepKernel, KernelFails, allocVars, stepVars
  <2> QED BY <2>1, <2>2, SameSeqsSameTables, NoPageMoves
<1>4. CASE StepCommit(t)
  <2>1. pc[t] = "commit" /\ InStep(t) /\ refs' = refs /\ Leave(t)
    BY <1>4 DEF StepCommit, allocVars, InStep, StepPcs
  <2>2. next[t] = Len(fresh[t])
    BY <2>1, InStepShape DEF Setting, StepPlan
  <2>3. next[t] >= Len(fresh[t])
    BY <1>t, <2>2, MembersIn
  <2> QED BY <1>t, <1>4, <2>1, <2>3, LeaveFacts, StepCommitShape, NoPageMoves
<1>5. CASE StepThrow(t)
  <2>1. pc[t] = "unwind" /\ refs' = refs /\ Leave(t) /\ seqs' = seqs /\ next[t] >= Len(fresh[t])
    BY <1>5 DEF StepThrow, allocVars
  <2> QED BY <1>t, <2>1, LeaveFacts, SameSeqsSameTables, NoPageMoves
<1> QED BY <1>1, <1>2, <1>3, <1>4, <1>5, StepAllocCounted, ApplyNewCounted, ApplyCowCounted,
           CopyFailsCounted, UnwindFreshCounted, RollbackAppendedCounted, RollbackRetainCounted,
           RollbackReleaseCounted DEF StepRun

\* Every call keeps the counts, or has broken a table in a rollback: then
\* nobody is inside step() and the model stops.
LEMMA EveryStepCounted ==
  ASSUME NEW t \in Threads, Setting(t), Counted, Call(t) \/ Run(t)
  PROVE  Counted' \/ Broken(t)
  BY CallCounted, SequenceRunCounted, StepRunCounted DEF Run


-----------------------------------------------------------------------------
(***************************************************************************)
(* What a rollback puts back is still there, if failures come alone.       *)
(***************************************************************************)
LEMMA MemberOne ==
  ASSUME TypeOK, Shape, NEW t \in Threads, InStep(t), MaxBatch = 1
  PROVE  /\ Len(batch[t]) = 1 /\ at[t] = 1 /\ batch[t][1] \in SeqIds
         /\ \A s \in Members(t) : s = batch[t][1]
         /\ Len(needs[t]) = IF pc[t] = "needs" THEN 0 ELSE 1
         /\ Len(fresh[t]) <= 1
<1>1. StepArgs(t) /\ StepPlan(t)
  BY InStepShape
<1>2. Len(batch[t]) \in Nat /\ Len(fresh[t]) \in Nat /\ at[t] \in Nat /\ 1 \in 1 .. 1
  BY MembersIn
<1>3. Len(batch[t]) = 1 /\ at[t] = 1
  BY <1>1, <1>2 DEF StepArgs
<1>4. batch[t][1] \in SeqIds
  BY <1>2, <1>3, MembersIn
<1> QED BY <1>1, <1>2, <1>3, <1>4 DEF StepPlan, Members

\* Until its one member is served, a step has replaced nothing; and it never
\* both appends a page to that member and replaces one.
LEMMA NothingReplaced ==
  ASSUME TypeOK, Shape, NEW t \in Threads, InStep(t), MaxBatch = 1,
         pc[t] = "apply" \/ appended[t] # <<>>
  PROVE  replaced[t] = <<>>
<1>1. StepTables(t) /\ ThreadShape(t)
  BY InStepShape
<1>2. SUFFICES ASSUME replaced[t] # <<>> PROVE FALSE
  OBVIOUS
<1>3. /\ 1 \in 1 .. Len(replaced[t]) /\ replaced[t][1][1] = batch[t][1]
      /\ Len(batch[t]) = 1 /\ at[t] = 1
  <2>1. 1 \in 1 .. Len(replaced[t])
    BY <1>1, <1>2, ReplacedFacts, MembersIn
  <2>2. replaced[t][1][1] \in Members(t)
    BY <1>1, <2>1 DEF StepTables, StepReplaced
  <2> QED BY <2>1, <2>2, MemberOne
<1>4. CASE pc[t] = "apply"
  <2>1. 1 \in at[t] .. Len(batch[t])
    BY <1>3
  <2>2. batch[t][1] \notin Firsts(replaced[t])
    BY <1>1, <1>4, <2>1 DEF StepTables, StepPhase
  <2> QED BY <1>3, <2>2 DEF Firsts
<1>5. CASE appended[t] # <<>>
  <2>1. 1 \in 1 .. Len(appended[t])
    BY <1>1, <1>5, AppendedFacts, MembersIn
  <2>2. /\ appended[t][1][1] \in Members(t)
        /\ seqs[appended[t][1][1]].position % PageTokens = 0
    BY <1>1, <2>1 DEF StepTables, StepAppended
  <2>3. seqs[replaced[t][1][1]].position % PageTokens # 0
    BY <1>1, <1>3 DEF StepTables, StepReplaced
  <2> QED BY <1>3, <2>2, <2>3, MemberOne
<1> QED BY <1>4, <1>5

\* A failed copy: whoever rolls back has nothing to put back.
LEMMA CopyRecoverable ==
  ASSUME NEW t \in Threads, Setting(t), FailuresAlone, Recoverable, ~KernelMayFail,
         Call(t) \/ Run(t)
  PROVE  Recoverable' /\ ~RollbackRetain(t)
<1>t. TypeOK /\ Shape
  BY DEF Setting
<1>1. pc[t] \in {"unwind", "restore"} => replaced[t] = <<>>
  BY DEF Recoverable, RecoverableThread
<1>2. ~RollbackRetain(t)
  BY <1>1 DEF RollbackRetain
<1>3. pc[t] # "restore"
  <2>1. pc[t] = "restore" => replaced[t] # <<>>
    BY <1>t, InStepShape DEF InStep, StepPcs, StepTables, StepPhase
  <2> QED BY <1>1, <2>1
<1>4. pc'[t] \in {"unwind", "restore"} => replaced'[t] = <<>>
  <2> USE DEF Go
  <2>0. pc \in [Threads -> StepPcs \cup {"idle", "fork", "destroy", "truncate"}]
    BY <1>t DEF TypeOK
  <2>1. CASE SequenceCall(t)
    BY <2>0, <2>1 DEF SequenceCall, NewSequence, DestroyBegin, ForkBegin, TruncateBegin
  <2>2. CASE StepCall(t)
    BY <2>0, <2>2 DEF StepCall, StepRefused, StepEnter, vars
  <2>3. CASE SequenceRun(t)
    BY <2>0, <2>3 DEF SequenceRun, ForkRetain, ForkEnd, DestroyRelease, DestroyEnd,
                      TruncateRelease, TruncateEnd
  <2>4. CASE StepNeeds(t) \/ StepAlloc(t) \/ StepKernel(t) \/ StepCommit(t)
    BY <2>0, <2>4 DEF StepNeeds, StepAlloc, StepKernel, StepCommit, Leave
  <2>5. CASE ApplyNone(t) \/ ApplyNew(t) \/ ApplyCow(t)
    BY <1>t, <2>5, ShapeThread, NextMemberFacts DEF ApplyNone, ApplyNew, ApplyCow
  <2>6. CASE CopyFails(t)
    <3>1. MaxBatch = 1 /\ pc[t] = "apply" /\ InStep(t) /\ replaced' = replaced
      BY <2>6 DEF CopyFails, FailuresAlone, InStep, StepPcs
    <3> QED BY <1>t, <3>1, NothingReplaced
  <2>7. CASE UnwindFresh(t) \/ RollbackAppended(t)
    BY <1>1, <2>7 DEF UnwindFresh, RollbackAppended
  <2>8. CASE StepThrow(t)
    BY <2>0, <2>8 DEF StepThrow, Leave
  <2>9. ~KernelFails(t) /\ ~RollbackRelease(t)
    BY <1>3 DEF KernelFails, RollbackRelease
  <2> QED BY <1>2, <2>1, <2>2, <2>3, <2>4, <2>5, <2>6, <2>7, <2>8, <2>9 DEF Call, Run, StepRun
<1>5. ASSUME NEW u \in Threads PROVE RecoverableThread(u)'
  <2>1. CASE u = t
    BY <1>4, <2>1 DEF RecoverableThread
  <2>2. CASE u # t
    BY <2>2 DEF Setting, Quiet, Recoverable, RecoverableThread
  <2> QED BY <2>1, <2>2
<1> QED BY <1>2, <1>5 DEF Recoverable


\* A failed kernel, one thread and one member: the page a copy-on-write has
\* replaced had a second holder, and that is still there.
LEMMA KernelRecoverable ==
  ASSUME NEW t \in Threads, Setting(t), FailuresAlone, Counted, Recoverable, KernelMayFail,
         Call(t) \/ Run(t)
  PROVE  Recoverable' /\ (RollbackRetain(t) => refs[Head(replaced[t])[2]] # 0)
<1>t. TypeOK /\ Shape /\ TypeOK' /\ AllocInv
  BY DEF Setting
<1>m. MaxBatch = 1 /\ \A u \in Threads : u = t
  BY DEF FailuresAlone
<1>h. /\ pc[t] \in {"alloc", "apply"} /\ needs[t][1] = "cow" =>
           refs[Last(seqs[batch[t][1]].pages)] >= 2
      /\ \A i \in 1 .. Len(replaced[t]) : refs[replaced[t][i][2]] >= 1
      /\ pc[t] = "unwind" => next[t] >= Len(fresh[t])
  BY DEF Recoverable, RecoverableThread
<1>0. /\ pc \in [Threads -> StepPcs \cup {"idle", "fork", "destroy", "truncate"}]
      /\ replaced \in [Threads -> Seq(SeqIds \X Pages \X Pages)]
  BY <1>t DEF TypeOK
<1>r. RollbackRetain(t) => refs[Head(replaced[t])[2]] # 0
  <2> SUFFICES ASSUME RollbackRetain(t) PROVE refs[Head(replaced[t])[2]] # 0
    OBVIOUS
  <2>1. pc[t] = "unwind" /\ InStep(t) /\ replaced[t] # <<>>
    BY DEF RollbackRetain, InStep, StepPcs
  <2>2. 1 \in 1 .. Len(replaced[t]) /\ Head(replaced[t]) = replaced[t][1]
    BY <1>t, <2>1, ShapeThread, ReplacedFacts, MembersIn
  <2>3. refs[replaced[t][1][2]] >= 1
    BY <1>h, <2>2
  <2> QED BY <2>2, <2>3
<1>s. SUFFICES Recoverable'
  BY <1>r
<1> DEFINE NoneReplaced == pc'[t] \notin {"alloc", "apply", "unwind"} /\ replaced'[t] = <<>>
           Goal == /\ pc'[t] \in {"alloc", "apply"} /\ needs'[t][1] = "cow" =>
                        refs'[Last(seqs'[batch'[t][1]].pages)] >= 2
                   /\ \A i \in 1 .. Len(replaced'[t]) : refs'[replaced'[t][i][2]] >= 1
                   /\ pc'[t] = "unwind" => next'[t] >= Len(fresh'[t])
<1>n. NoneReplaced => Goal
  OBVIOUS
<1>g. Goal => Recoverable'
  BY <1>m DEF Recoverable, RecoverableThread
<1>1. CASE SequenceCall(t) \/ SequenceRun(t)
  <2>1. /\ ~InStep(t) /\ pc'[t] \in {"idle", "fork", "destroy", "truncate"}
        /\ replaced'[t] = replaced[t]
    <3> USE DEF Go, InStep, StepPcs
    <3>1. CASE SequenceCall(t)
      BY <1>0, <3>1 DEF SequenceCall, NewSequence, DestroyBegin, ForkBegin, TruncateBegin, stepVars
    <3>2. CASE SequenceRun(t)
      BY <1>0, <3>2 DEF SequenceRun, ForkRetain, ForkEnd, DestroyRelease, DestroyEnd,
                        TruncateRelease, TruncateEnd, stepVars
    <3> QED BY <1>1, <3>1, <3>2
  <2>2. replaced[t] = <<>>
    BY <1>t, <2>1, ShapeThread DEF ThreadShape, OutsideStep
  <2> QED BY <1>n, <1>g, <2>1, <2>2
<1>2. CASE StepCall(t)
  <2>1. pc[t] = "idle" /\ ~InStep(t)
    BY <1>2 DEF StepCall, StepRefused, StepEnter, InStep, StepPcs
  <2>2. replaced[t] = <<>>
    BY <1>t, <2>1, ShapeThread DEF ThreadShape, OutsideStep
  <2>3. pc'[t] \in {"idle", "needs"} /\ replaced'[t] = replaced[t]
    BY <1>0, <1>2, <2>1 DEF StepCall, StepRefused, StepEnter, vars, Go
  <2> QED BY <1>n, <1>g, <2>2, <2>3
<1>3. CASE Leave(t)
  <2>1. pc'[t] = "idle" /\ replaced'[t] = <<>>
    BY <1>t, <1>0, <1>3, LeaveFacts DEF Leave
  <2> QED BY <1>n, <1>g, <2>1
<1>4. CASE StepNeeds(t)
  <2>1. pc[t] = "needs" /\ InStep(t)
    BY <1>4 DEF StepNeeds, InStep, StepPcs
  <2>2. /\ Len(batch[t]) = 1 /\ at[t] = 1 /\ batch[t][1] \in SeqIds /\ Len(needs[t]) = 0
        /\ replaced[t] = <<>>
    BY <1>t, <1>m, <2>1, MemberOne, InStepShape DEF StepPlan
  <2>3. /\ pc'[t] = "alloc" /\ seqs' = seqs /\ refs' = refs /\ batch' = batch
        /\ replaced' = replaced /\ needs' = [needs EXCEPT ![t] = Append(@, Need(batch[t][1]))]
    BY <1>0, <1>4, <2>2 DEF StepNeeds, Go, allocVars
  <2>4. needs'[t][1] = Need(batch[t][1])
    <3>1. needs \in [Threads -> Seq({"new", "cow", "none"})]
      BY <1>t DEF TypeOK
    <3>2. Need(batch[t][1]) \in {"new", "cow", "none"}
      BY DEF Need
    <3> HIDE DEF Need
    <3>3. needs'[t][Len(needs[t]) + 1] = Need(batch[t][1])
      BY <2>3, <3>1, <3>2, AppendIn
    <3> QED BY <2>2, <3>3
  <2>5. Need(batch[t][1]) = "cow" => refs[Last(seqs[batch[t][1]].pages)] > 1
    BY DEF Need
  <2>6. Need(batch[t][1]) = "cow" => refs[Last(seqs[batch[t][1]].pages)] \in Nat
    <3> SUFFICES ASSUME Need(batch[t][1]) = "cow"
                 PROVE refs[Last(seqs[batch[t][1]].pages)] \in Nat
      OBVIOUS
    <3>1. seqs[batch[t][1]].position % PageTokens # 0
      BY DEF Need
    <3>2. Len(seqs[batch[t][1]].pages) > 0
      BY <1>t, <2>1, <2>2, <3>1, MemberFacts, ShapeThread
    <3>3. Last(seqs[batch[t][1]].pages) \in Pages
      BY <1>t, <2>2, <3>2, PagesOf, LastFront
    <3> QED BY <1>t, <3>3, RefsAre
  <2> QED BY <1>g, <2>2, <2>3, <2>4, <2>5, <2>6
<1>5. CASE /\ StepAlloc(t) /\ ~Leave(t)
  <2>1. /\ pc[t] = "alloc" /\ InStep(t) /\ pc'[t] = "apply" /\ seqs' = seqs
        /\ batch' = batch /\ needs' = needs /\ replaced' = replaced
    BY <1>0, <1>5 DEF StepAlloc, InStep, StepPcs, Go
  <2>2. replaced[t] = <<>>
    BY <1>t, <2>1, InStepShape DEF StepPlan
  <2>3. needs[t][1] = "cow" => refs[Last(seqs[batch[t][1]].pages)] >= 2
    BY <1>h, <2>1
  <2>4. ASSUME NEW p \in Pages, refs[p] >= 2 PROVE refs'[p] = refs[p]
    <3>1. Wanted(t) \in Nat
      BY <1>t, <2>1, WantedCount, ShapeThread, MembersIn
    <3>n. PICK n \in Nat : n = Wanted(t)
      BY <3>1
    <3>2. AllocateMany(n) /\ n <= Len(free)
      BY <1>5, <3>n, <1>t DEF StepAlloc, AllocInv, AllocTypeOK
    <3>3. \A i \in 1 .. n : refs[TopPages(n)[i]] = 0
      BY <1>t, <3>2, TopPagesFacts
    <3>4. refs' = [q \in Pages |-> IF \E i \in 1 .. n : TopPages(n)[i] = q THEN 1 ELSE refs[q]]
      BY <1>t, <3>2 DEF AllocateMany, AllocInv, AllocTypeOK
    <3>5. ~ \E i \in 1 .. n : TopPages(n)[i] = p
      BY <2>4, <3>3
    <3> QED BY <3>4, <3>5
  <2>5. needs[t][1] = "cow" => Last(seqs[batch[t][1]].pages) \in Pages
    <3>1. /\ 1 \in 1 .. Len(needs[t]) /\ 1 \in 1 .. Len(batch[t]) /\ batch[t][1] \in SeqIds
      BY <1>t, <1>m, <2>1, MemberOne
    <3>2. needs[t][1] = "cow" => seqs[batch[t][1]].position % PageTokens # 0
      BY <1>t, <2>1, <3>1, InStepShape DEF StepPlan
    <3>3. needs[t][1] = "cow" => Len(seqs[batch[t][1]].pages) > 0
      BY <1>t, <2>1, <3>1, <3>2, MemberFacts, ShapeThread
    <3> QED BY <1>t, <3>1, <3>3, PagesOf, LastFront
  <2> QED BY <1>g, <2>1, <2>2, <2>3, <2>4, <2>5

<1>6. CASE ApplyNone(t) \/ ApplyNew(t) \/ ApplyCow(t)
  <2>1. pc[t] = "apply" /\ InStep(t) /\ ThreadShape(t) /\ NextMember(t)
    BY <1>t, <1>6, ShapeThread DEF ApplyNone, ApplyNew, ApplyCow, InStep, StepPcs
  <2>2. replaced[t] = <<>> /\ Len(batch[t]) = 1 /\ at[t] = 1 /\ batch[t][1] \in SeqIds
    BY <1>t, <1>m, <2>1, MemberOne, NothingReplaced
  <2>3. pc'[t] = "kernel"
    <3>1. \/ at[t] < Len(batch[t]) /\ pc'[t] = "apply"
          \/ at[t] = Len(batch[t]) /\ pc'[t] = "kernel"
      BY <1>t, <2>1, NextMemberFacts
    <3> QED BY <2>2, <3>1
  <2>4. CASE ApplyNone(t) \/ ApplyNew(t)
    BY <1>n, <1>g, <2>2, <2>3, <2>4 DEF ApplyNone, ApplyNew, stepVars
  <2>5. CASE ApplyCow(t)
    <3>1. PICK s \in SeqIds : s = batch[t][1]
      BY <2>2
    <3>2. needs[t][1] = "cow" /\ needs[t][at[t]] = "cow"
      BY <2>2, <2>5 DEF ApplyCow
    <3>3. Last(seqs[s].pages) \in Pages /\ fresh[t][next[t] + 1] \in Pages
      BY <1>t, <2>1, <2>2, <3>1, <3>2, CowMember, FreshPage
    <3>4. PICK old \in Pages, page \in Pages :
            old = Last(seqs[s].pages) /\ page = fresh[t][next[t] + 1]
      BY <3>3
    <3>5. replaced' = [replaced EXCEPT ![t] = Append(@, <<s, old, page>>)] /\ Release(old)
      BY <2>2, <2>5, <3>1, <3>4 DEF ApplyCow
    <3>6. /\ Len(replaced'[t]) = 1 /\ replaced'[t][1] = <<s, old, page>>
      <4>1. <<s, old, page>> \in SeqIds \X Pages \X Pages
        OBVIOUS
      <4>2. /\ Len(replaced'[t]) = Len(replaced[t]) + 1
            /\ replaced'[t][Len(replaced[t]) + 1] = <<s, old, page>>
        BY <1>0, <3>5, <4>1, AppendIn
      <4>3. Len(replaced[t]) = 0
        BY <2>2
      <4> QED BY <4>2, <4>3
    <3>7. refs[old] >= 2 /\ refs[old] \in Nat
      BY <1>t, <1>h, <2>1, <3>1, <3>2, <3>4, RefsAre
    <3>8. refs'[old] = refs[old] - 1
      BY <1>t, <3>5, <3>7, ReleaseFacts
    <3>9. \A i \in 1 .. Len(replaced'[t]) : refs'[replaced'[t][i][2]] >= 1
      <4> SUFFICES ASSUME NEW i \in 1 .. Len(replaced'[t]) PROVE refs'[replaced'[t][i][2]] >= 1
        OBVIOUS
      <4>1. i = 1 /\ replaced'[t][i][2] = old
        BY <3>6
      <4> QED BY <3>7, <3>8, <4>1
    <3> QED BY <1>g, <2>3, <3>9
  <2> QED BY <1>6, <2>4, <2>5
<1>7. CASE CopyFails(t)
  <2>1. pc[t] = "apply" /\ InStep(t) /\ pc'[t] = "unwind"
        /\ replaced' = replaced /\ fresh' = fresh /\ next' = [next EXCEPT ![t] = @ + 2]
    BY <1>0, <1>7 DEF CopyFails, InStep, StepPcs, Go
  <2>2. replaced[t] = <<>> /\ Len(fresh[t]) <= 1 /\ Len(fresh[t]) \in Nat /\ next[t] \in Nat
    BY <1>t, <1>m, <2>1, MemberOne, NothingReplaced, MembersIn
  <2>3. next'[t] = next[t] + 2
    BY <1>t, <2>1 DEF TypeOK
  <2> QED BY <1>g, <2>1, <2>2, <2>3
<1>8. CASE StepKernel(t) \/ KernelFails(t)
  <2>1. /\ pc[t] = "kernel" /\ InStep(t) /\ pc'[t] \in {"commit", "unwind"} /\ refs' = refs
        /\ replaced' = replaced /\ fresh' = fresh /\ next' = next
    BY <1>0, <1>8 DEF StepKernel, KernelFails, InStep, StepPcs, Go, allocVars, stepVars
  <2>2. next[t] = Len(fresh[t])
    BY <1>t, <2>1, InStepShape DEF StepPlan
  <2>3. next'[t] >= Len(fresh'[t])
    BY <1>t, <2>1, <2>2, MembersIn
  <2> QED BY <1>g, <1>h, <2>1, <2>3
<1>9. CASE UnwindFresh(t)
  BY <1>t, <1>h, <1>9, MembersIn DEF UnwindFresh
<1>10. CASE RollbackAppended(t)
  <2>1. /\ pc[t] = "unwind" /\ InStep(t) /\ pc'[t] = "unwind" /\ appended[t] # <<>>
        /\ replaced' = replaced /\ fresh' = fresh /\ next' = next
    BY <1>10 DEF RollbackAppended, InStep, StepPcs
  <2>2. replaced[t] = <<>>
    BY <1>t, <1>m, <2>1, NothingReplaced
  <2> QED BY <1>g, <1>h, <2>1, <2>2
<1>11. CASE RollbackRetain(t) /\ ~Leave(t)
  <2>1. /\ pc[t] = "unwind" /\ InStep(t) /\ pc'[t] = "restore"
        /\ replaced' = replaced /\ replaced[t] # <<>>
    BY <1>0, <1>11 DEF RollbackRetain, InStep, StepPcs, Go, stepVars
  <2>2. PICK old \in Pages : old = Head(replaced[t])[2]
    BY <1>t, <2>1, ShapeThread, ReplacedFacts
  <2>3. Retain(old) /\ refs[old] # 0
    BY <1>r, <1>11, <2>2 DEF RollbackRetain
  <2>4. ASSUME NEW i \in 1 .. Len(replaced[t]) PROVE refs'[replaced[t][i][2]] >= 1
    <3>1. PICK p \in Pages : p = replaced[t][i][2]
      BY <1>0
    <3>2. refs[p] >= 1 /\ refs[p] \in Nat
      BY <1>t, <1>h, <3>1, RefsAre
    <3>3. /\ p = old => refs'[p] = refs[p] + 1
          /\ p # old => refs'[p] = refs[p]
      BY <1>t, <2>3, RetainFacts
    <3> QED BY <3>1, <3>2, <3>3
  <2> QED BY <1>g, <2>1, <2>4
<1>12. CASE RollbackRelease(t)
  <2>1. /\ pc[t] = "restore" /\ InStep(t) /\ pc'[t] = "unwind"
        /\ fresh' = fresh /\ next' = next
        /\ replaced' = [replaced EXCEPT ![t] = Tail(@)]
    BY <1>0, <1>12 DEF RollbackRelease, InStep, StepPcs, Go
  <2>2. replaced[t] # <<>> /\ next[t] >= Len(fresh[t])
    BY <1>t, <2>1, InStepShape DEF StepTables, StepPhase
  <2>3. ASSUME Len(replaced[t]) >= 2 PROVE FALSE
    <3>1. 1 \in 1 .. Len(replaced[t]) /\ 2 \in 1 .. Len(replaced[t])
      BY <1>t, <2>3, MembersIn
    <3>2. StepReplaced(t)
      BY <1>t, <2>1, InStepShape DEF StepTables
    <3>3. replaced[t][1][1] \in Members(t) /\ replaced[t][2][1] \in Members(t)
      BY <3>1, <3>2 DEF StepReplaced
    <3>4. replaced[t][1][1] = replaced[t][2][1]
      BY <1>t, <1>m, <2>1, <3>3, MemberOne
    <3> QED BY <3>1, <3>2, <3>4 DEF StepReplaced
  <2>4. \A i \in 1 .. Len(replaced'[t]) : FALSE
    <3>1. Len(replaced'[t]) = Len(replaced[t]) - 1
      BY <1>0, <2>1, <2>2, TailIn
    <3> QED BY <1>t, <2>3, <3>1, MembersIn
  <2> QED BY <1>g, <2>1, <2>2, <2>4
<1>13. CASE StepCommit(t) \/ StepThrow(t)
  BY <1>3, <1>13 DEF StepCommit, StepThrow
<1> HIDE DEF Goal, NoneReplaced
<1> QED BY <1>1, <1>2, <1>3, <1>4, <1>5, <1>6, <1>7, <1>8, <1>9, <1>10, <1>11, <1>12, <1>13
        DEF Call, Run, StepRun


-----------------------------------------------------------------------------
(***************************************************************************)
(* The pages a step is going to write have one holder.                     *)
(***************************************************************************)
LEMMA CallMovesNothing ==
  ASSUME TypeOK, NEW t \in Threads, Call(t)
  PROVE  refs' = refs /\ PageTables' = PageTables
<1>1. ASSUME NEW s \in SeqIds, NewSequence(t, s) PROVE refs' = refs /\ PageTables' = PageTables
  BY <1>1, SetStateFacts DEF NewSequence, allocVars
<1>2. ASSUME NEW s \in SeqIds, DestroyBegin(t, s) PROVE refs' = refs /\ PageTables' = PageTables
  BY <1>2, SetStateFacts DEF DestroyBegin, allocVars
<1>3. ASSUME NEW s \in SeqIds, NEW c \in SeqIds, ForkBegin(t, s, c)
      PROVE refs' = refs /\ PageTables' = PageTables
  BY <1>3, SetStateFacts DEF ForkBegin, allocVars
<1>4. ASSUME NEW s \in SeqIds, NEW n \in 0 .. Context, TruncateBegin(t, s, n)
      PROVE refs' = refs /\ PageTables' = PageTables
  BY <1>4, SameSeqsSameTables DEF TruncateBegin, allocVars
<1>5. CASE StepCall(t)
  BY <1>5, SameSeqsSameTables DEF StepCall, StepEnter, StepRefused, vars, allocVars
<1> QED BY <1>1, <1>2, <1>3, <1>4, <1>5 DEF Call, SequenceCall

\* A settled member has pages.
LEMMA SettledPage ==
  ASSUME TypeOK, Shape, NEW w \in Threads, pc[w] \in {"needs", "alloc", "apply", "kernel"},
         NEW b \in 1 .. Len(needs[w]), SettledMember(w, b)
  PROVE  /\ b \in 1 .. Len(batch[w]) /\ batch[w][b] \in SeqIds /\ batch[w][b] \in Members(w)
         /\ Len(seqs[batch[w][b]].pages) \in 1 .. Len(seqs[batch[w][b]].pages)
         /\ Last(seqs[batch[w][b]].pages) = seqs[batch[w][b]].pages[Len(seqs[batch[w][b]].pages)]
         /\ Last(seqs[batch[w][b]].pages) \in Pages
<1>1. InStep(w) /\ ThreadShape(w) /\ StepArgs(w) /\ StepPlan(w) /\ StepTables(w)
  BY InStepShape DEF InStep, StepPcs
<1>2. /\ Len(needs[w]) \in Nat /\ Len(batch[w]) \in Nat /\ at[w] \in Nat
      /\ at[w] \in 1 .. Len(batch[w])
  BY <1>1, MembersIn DEF StepArgs
<1>3. Len(needs[w]) <= Len(batch[w])
  BY <1>1, <1>2 DEF StepPlan
<1>4. b \in 1 .. Len(batch[w])
  BY <1>2, <1>3
<1>5. seqs[batch[w][b]].position % PageTokens # 0 \/ batch[w][b] \in Firsts(appended[w])
  <2>1. needs[w][b] = "new" <=> seqs[batch[w][b]].position % PageTokens = 0
    BY <1>1 DEF StepPlan
  <2>2. CASE needs[w][b] = "none"
    BY <2>1, <2>2
  <2>3. CASE pc[w] = "kernel" \/ (pc[w] = "apply" /\ b < at[w])
    BY <1>1, <1>4, <2>1, <2>3 DEF StepTables, StepPhase
  <2> QED BY <2>2, <2>3 DEF SettledMember
<1>6. batch[w][b] \in SeqIds /\ batch[w][b] \in Members(w) /\ Len(seqs[batch[w][b]].pages) > 0
  BY <1>1, <1>4, <1>5, MemberFacts
<1>7. PICK q \in Seq(Pages) : q = seqs[batch[w][b]].pages
  BY <1>6, PagesOf
<1>8. Len(q) > 0
  BY <1>6, <1>7
<1>9. Len(q) \in 1 .. Len(q) /\ Last(q) = q[Len(q)] /\ Last(q) \in Pages
  BY <1>8, LastFront
<1> QED BY <1>4, <1>6, <1>7, <1>9

\* Two threads, a page that one of them uses through a table of its own: the
\* count is not one, so it is none of the settled pages of the other.
LEMMA OthersPage ==
  ASSUME TypeOK, Shape, Counted, NEW t \in Threads, NEW w \in Threads, w # t, SettledThread(w),
         pc[w] \in {"needs", "alloc", "apply", "kernel"},
         NEW s \in SeqIds, Writes(t, s) \/ Reads(t, s),
         NEW i \in 1 .. Len(seqs[s].pages), NEW p \in Pages, p = seqs[s].pages[i]
  PROVE  /\ \A b \in 1 .. Len(needs[w]) : SettledMember(w, b) => Last(seqs[batch[w][b]].pages) # p
         /\ \A j \in next[w] + 1 .. Len(fresh[w]) : fresh[w][j] # p
<1>1. ASSUME NEW b \in 1 .. Len(needs[w]), SettledMember(w, b), Last(seqs[batch[w][b]].pages) = p
      PROVE  FALSE
  <2>1. PICK r \in SeqIds : r = batch[w][b] /\ r \in Members(w)
    BY <1>1, SettledPage
  <2>2. PICK j \in 1 .. Len(seqs[r].pages) : seqs[r].pages[j] = p
    BY <1>1, <2>1, SettledPage
  <2>3. r # s
    <3>1. Writes(w, r)
      BY <2>1 DEF Writes, InStep, StepPcs
    <3> QED BY <3>1 DEF Shape, Alone
  <2>4. refs[p] >= 2
    BY <2>2, <2>3, ListedTwice
  <2>5. refs[p] = 1
    BY <1>1 DEF SettledThread
  <2> QED BY <2>4, <2>5
<1>2. ASSUME NEW j \in next[w] + 1 .. Len(fresh[w]), fresh[w][j] = p PROVE FALSE
  <2>1. refs[p] >= 2
    BY <1>2, ListedAndUntaken
  <2>2. refs[p] = 1
    BY <1>2 DEF SettledThread
  <2> QED BY <2>1, <2>2
<1> QED BY <1>1, <1>2

\* What a step of t leaves alone for a stepping thread w.
LEMMA KeepsSettled ==
  ASSUME TypeOK, Shape, NEW w \in Threads, Quiet(w), SettledThread(w),
         pc[w] \in {"needs", "alloc", "apply", "kernel"},
         \A s \in Members(w) : seqs'[s].pages = seqs[s].pages,
         \A b \in 1 .. Len(needs[w]) : SettledMember(w, b) =>
             refs'[Last(seqs[batch[w][b]].pages)] = refs[Last(seqs[batch[w][b]].pages)],
         \A j \in next[w] + 1 .. Len(fresh[w]) : refs'[fresh[w][j]] = refs[fresh[w][j]]
  PROVE  SettledThread(w)'
<1>1. ASSUME NEW b \in 1 .. Len(needs[w]), SettledMember(w, b)
      PROVE  refs'[Last(seqs'[batch[w][b]].pages)] = 1
  <2>1. batch[w][b] \in Members(w)
    BY <1>1, SettledPage
  <2>2. Last(seqs'[batch[w][b]].pages) = Last(seqs[batch[w][b]].pages)
    BY <2>1
  <2>3. refs[Last(seqs[batch[w][b]].pages)] = 1
    BY <1>1 DEF SettledThread
  <2> QED BY <1>1, <2>2, <2>3
<1>2. ASSUME NEW j \in next[w] + 1 .. Len(fresh[w]) PROVE refs'[fresh[w][j]] = 1
  BY DEF SettledThread
<1>3. \A b \in 1 .. Len(needs[w]) : SettledMember(w, b)' => SettledMember(w, b)
  BY DEF SettledMember, Quiet
<1> QED BY <1>1, <1>2, <1>3 DEF SettledThread, Quiet

LEMMA OthersSettled ==
  ASSUME NEW t \in Threads, Setting(t), Counted, Call(t) \/ Run(t),
         NEW w \in Threads, w # t, SettledThread(w)
  PROVE  SettledThread(w)'
<1>t. TypeOK /\ Shape /\ Quiet(w)
  BY DEF Setting
<1> SUFFICES ASSUME pc[w] \in {"needs", "alloc", "apply", "kernel"} PROVE SettledThread(w)'
  BY <1>t DEF SettledThread, Quiet
<1>1. InStep(w) /\ ~InStep(t)
  BY <1>t DEF Shape, OneStep, OneStepAtATime, InStep, StepPcs
<1>i. \A s \in Members(w) : s \in SeqIds
  BY <1>t, MembersIn
<1>2. ASSUME refs' = refs, PageTables' = PageTables PROVE SettledThread(w)'
  <2>1. \A s \in SeqIds : seqs'[s].pages = seqs[s].pages
    BY <1>2 DEF PageTables
  <2> QED BY <1>t, <1>2, <1>i, <2>1, KeepsSettled
<1>3. ASSUME NEW s \in SeqIds, Writes(t, s) \/ Reads(t, s), NEW i \in 1 .. Len(seqs[s].pages),
             NEW p \in Pages, p = seqs[s].pages[i], \A q \in Pages : q # p => refs'[q] = refs[q],
             NEW c \in SeqIds, Writes(t, c), \A r \in SeqIds : r # c => seqs'[r] = seqs[r]
      PROVE  SettledThread(w)'
  <2>1. /\ \A b \in 1 .. Len(needs[w]) : SettledMember(w, b) => Last(seqs[batch[w][b]].pages) # p
        /\ \A j \in next[w] + 1 .. Len(fresh[w]) : fresh[w][j] # p
    BY <1>t, <1>3, OthersPage
  <2>2. \A b \in 1 .. Len(needs[w]) : SettledMember(w, b) => Last(seqs[batch[w][b]].pages) \in Pages
    BY <1>t, SettledPage
  <2>3. \A j \in next[w] + 1 .. Len(fresh[w]) : fresh[w][j] \in Pages
    <3>1. next[w] \in Nat /\ fresh[w] \in Seq(Pages)
      BY <1>t DEF TypeOK
    <3>2. \A j \in next[w] + 1 .. Len(fresh[w]) : j \in 1 .. Len(fresh[w])
      BY <3>1
    <3> QED BY <3>1, <3>2
  <2>4. c \notin Members(w)
    BY <1>t, <1>1, <1>3 DEF Writes, Shape, Alone
  <2> QED BY <1>t, <1>3, <1>i, <2>1, <2>2, <2>3, <2>4, KeepsSettled
<1>4. CASE Call(t)
  BY <1>t, <1>2, <1>4, CallMovesNothing
<1>5. CASE ForkEnd(t) \/ DestroyEnd(t) \/ TruncateEnd(t)
  BY <1>2, <1>5, ForkEndShape, DestroyEndShape, TruncateEndShape
     DEF ForkEnd, DestroyEnd, TruncateEnd, allocVars
<1>6. CASE ForkRetain(t)
  <2>1. pc[t] = "fork" /\ ForkShape(t)
    BY <1>t, <1>6, ShapeThread DEF ThreadShape, ForkRetain
  <2>2. PICK s \in SeqIds, c \in SeqIds : s = tgt[t] /\ c = child[t]
    BY <2>1 DEF ForkShape
  <2>3. at[t] \in 1 .. Len(seqs[s].pages)
    <3>1. at[t] \in Nat /\ Len(seqs[s].pages) \in Nat
      BY <1>t, PagesOf DEF TypeOK
    <3> QED BY <1>6, <2>1, <2>2, <3>1 DEF ForkShape, ForkRetain
  <2>4. PICK p \in Pages : p = seqs[s].pages[at[t]]
    BY <1>t, <2>3, PagesOf
  <2>5. Retain(p) /\ SetPages(c, Append(seqs[c].pages, p)) /\ Append(seqs[c].pages, p) \in Seq(Pages)
    BY <1>t, <1>6, <2>2, <2>4, PagesOf DEF ForkRetain, SetPages
  <2>6. \A q \in Pages : q # p => refs'[q] = refs[q]
    BY <1>t, <2>5 DEF Retain, TypeOK, AllocTypeOK
  <2>7. \A r \in SeqIds : r # c => seqs'[r] = seqs[r]
    BY <1>t, <2>5, SetPagesFacts
  <2>8. Reads(t, s) /\ Writes(t, c)
    BY <2>1, <2>2 DEF Reads, Writes
  <2> QED BY <1>3, <2>3, <2>4, <2>6, <2>7, <2>8
<1>7. ASSUME NEW s \in SeqIds, Writes(t, s), Len(seqs[s].pages) > 0, NEW i \in 1 .. Len(seqs[s].pages),
             Release(seqs[s].pages[i]), NEW q \in Seq(Pages), SetPages(s, q)
      PROVE  SettledThread(w)'
  <2>1. PICK p \in Pages : p = seqs[s].pages[i]
    BY <1>t, PagesOf
  <2>2. \A r \in Pages : r # p => refs'[r] = refs[r]
    BY <1>t, <1>7, <2>1 DEF Release, TypeOK, AllocTypeOK
  <2>3. \A r \in SeqIds : r # s => seqs'[r] = seqs[r]
    BY <1>t, <1>7, SetPagesFacts
  <2> QED BY <1>3, <1>7, <2>1, <2>2, <2>3
<1>8. CASE DestroyRelease(t)
  <2>1. PICK s \in SeqIds : s = tgt[t]
    BY <1>t, <1>8, ShapeThread DEF ThreadShape, DestroyShape, DestroyRelease
  <2>2. /\ seqs[s].pages # <<>> /\ seqs[s].pages \in Seq(Pages)
        /\ Head(seqs[s].pages) = seqs[s].pages[1] /\ 1 \in 1 .. Len(seqs[s].pages)
        /\ Tail(seqs[s].pages) \in Seq(Pages) /\ Len(seqs[s].pages) > 0
    BY <1>t, <1>8, <2>1, PagesOf DEF DestroyRelease
  <2>3. Writes(t, s) /\ Release(seqs[s].pages[1]) /\ SetPages(s, Tail(seqs[s].pages))
    BY <1>8, <2>1, <2>2 DEF DestroyRelease, Writes
  <2> QED BY <1>7, <2>2, <2>3
<1>9. CASE TruncateRelease(t)
  <2>1. PICK s \in SeqIds : s = tgt[t]
    BY <1>t, <1>9, ShapeThread DEF ThreadShape, TruncateShape, TruncateRelease
  <2>2. Len(seqs[s].pages) > 0
    <3>1. goal[t] \in Nat
      BY <1>t, RuntimeAssumption DEF TypeOK
    <3>2. Keep(goal[t]) \in Nat /\ Len(seqs[s].pages) \in Nat
      BY <1>t, <3>1, PagesOf, KeepNat
    <3> QED BY <1>9, <2>1, <3>2 DEF TruncateRelease
  <2>3. /\ Front(seqs[s].pages) \in Seq(Pages) /\ Last(seqs[s].pages) = seqs[s].pages[Len(seqs[s].pages)]
        /\ Len(seqs[s].pages) \in 1 .. Len(seqs[s].pages)
    <3>1. PICK q \in Seq(Pages) : q = seqs[s].pages
      BY <1>t, PagesOf
    <3>2. Len(q) > 0
      BY <2>2, <3>1
    <3>3. Front(q) \in Seq(Pages) /\ Last(q) = q[Len(q)] /\ Len(q) \in 1 .. Len(q)
      <4>1. Len(q) \in 1 .. Len(q)
        BY <3>2
      <4> QED BY <3>2, <4>1, LastFront
    <3> QED BY <3>1, <3>3
  <2>4. /\ Writes(t, s) /\ Release(seqs[s].pages[Len(seqs[s].pages)])
        /\ SetPages(s, Front(seqs[s].pages))
    BY <1>9, <2>1, <2>3 DEF TruncateRelease, Writes
  <2> QED BY <1>7, <2>2, <2>3, <2>4
<1>10. ~StepRun(t)
  BY <1>1 DEF StepRun, StepNeeds, StepAlloc, ApplyNone, ApplyNew, ApplyCow, CopyFails, StepKernel,
              KernelFails, StepCommit, UnwindFresh, RollbackAppended, RollbackRetain,
              RollbackRelease, StepThrow, InStep, StepPcs
<1> QED BY <1>4, <1>5, <1>6, <1>8, <1>9, <1>10 DEF Run, SequenceRun


\* What the step of t does to its own pages.
LEMMA StepNeedsSettled ==
  ASSUME NEW t \in Threads, Setting(t), Counted, SettledThread(t), StepNeeds(t)
  PROVE  SettledThread(t)'
<1>t. TypeOK /\ Shape
  BY DEF Setting
<1>1. pc[t] = "needs" /\ InStep(t)
  BY DEF StepNeeds, InStep, StepPcs
<1>2. /\ ThreadShape(t) /\ StepArgs(t) /\ Len(needs[t]) = at[t] - 1
      /\ fresh[t] = <<>> /\ next[t] = 0 /\ at[t] \in 1 .. Len(batch[t]) /\ at[t] \in Nat
  BY <1>t, <1>1, InStepShape, MembersIn DEF StepPlan, StepArgs
<1>3. /\ pc'[t] \in {"needs", "alloc"} /\ seqs' = seqs /\ refs' = refs /\ batch' = batch
      /\ fresh' = fresh /\ next' = next
      /\ needs' = [needs EXCEPT ![t] = Append(@, Need(batch[t][at[t]]))]
  BY <1>t, <1>1 DEF StepNeeds, Go, allocVars, TypeOK
<1>4. PICK s \in SeqIds : s = batch[t][at[t]]
  BY <1>t, <1>2, MembersIn
<1>5. /\ needs'[t][at[t]] = Need(s) /\ Len(needs'[t]) = at[t]
      /\ \A b \in 1 .. at[t] - 1 : needs'[t][b] = needs[t][b]
  <2>1. needs \in [Threads -> Seq({"new", "cow", "none"})]
    BY <1>t DEF TypeOK
  <2>2. PICK x \in {"new", "cow", "none"} : x = Need(s)
    BY DEF Need
  <2>3. needs' = [needs EXCEPT ![t] = Append(@, x)]
    BY <1>3, <1>4, <2>2
  <2>4. /\ Len(needs'[t]) = Len(needs[t]) + 1 /\ needs'[t][Len(needs[t]) + 1] = x
        /\ \A b \in 1 .. Len(needs[t]) : needs'[t][b] = needs[t][b]
    BY <2>1, <2>3, AppendIn
  <2> QED BY <1>2, <2>2, <2>4
<1>6. Need(s) = "none" => refs[Last(seqs[s].pages)] = 1
  <2> SUFFICES ASSUME Need(s) = "none" PROVE refs[Last(seqs[s].pages)] = 1
    OBVIOUS
  <2>1. seqs[s].position % PageTokens # 0 /\ ~(refs[Last(seqs[s].pages)] > 1)
    BY DEF Need
  <2>2. PICK q \in Seq(Pages) : q = seqs[s].pages
    BY <1>t, PagesOf
  <2>3. Len(q) > 0
    BY <1>t, <1>1, <1>2, <1>4, <2>1, <2>2, MemberFacts
  <2>4. Last(q) = q[Len(q)] /\ Len(q) \in 1 .. Len(q)
    <3>1. Len(q) \in 1 .. Len(q)
      BY <2>3
    <3> QED BY <2>3, <3>1, LastFront
  <2>5. refs[seqs[s].pages[Len(q)]] >= 1 /\ seqs[s].pages[Len(q)] \in Pages
    BY <1>t, <2>2, <2>4, ListedOnce
  <2>6. PICK p \in Pages : p = Last(seqs[s].pages)
    BY <2>2, <2>4, <2>5
  <2>7. refs[p] >= 1 /\ ~(refs[p] > 1) /\ refs[p] \in Nat
    BY <1>t, <2>1, <2>2, <2>4, <2>5, <2>6, RefsAre
  <2> QED BY <2>6, <2>7
<1>7. ASSUME NEW b \in 1 .. Len(needs'[t]), SettledMember(t, b)'
      PROVE  refs'[Last(seqs'[batch'[t][b]].pages)] = 1
  <2>1. needs'[t][b] = "none"
    BY <1>3, <1>7 DEF SettledMember
  <2>2. CASE b = at[t]
    BY <1>3, <1>4, <1>5, <1>6, <2>1, <2>2
  <2>3. CASE b # at[t]
    <3>1. b \in 1 .. at[t] - 1 /\ b \in 1 .. Len(needs[t])
      BY <1>2, <1>5, <2>3
    <3>2. SettledMember(t, b)
      BY <1>5, <2>1, <3>1 DEF SettledMember
    <3>3. refs[Last(seqs[batch[t][b]].pages)] = 1
      BY <1>1, <3>1, <3>2 DEF SettledThread
    <3> QED BY <1>3, <3>3
  <2> QED BY <2>2, <2>3
<1>8. \A i \in next'[t] + 1 .. Len(fresh'[t]) : FALSE
  BY <1>2, <1>3
<1> QED BY <1>7, <1>8 DEF SettledThread

LEMMA StepAllocSettled ==
  ASSUME NEW t \in Threads, Setting(t), SettledThread(t), StepAlloc(t)
  PROVE  SettledThread(t)'
<1>t. TypeOK /\ Shape /\ AllocInv
  BY DEF Setting
<1>1. pc[t] = "alloc" /\ InStep(t) /\ ThreadShape(t)
  BY <1>t, ShapeThread DEF StepAlloc, InStep, StepPcs
<1>2. at[t] = 1 /\ next[t] = 0 /\ Len(needs[t]) \in Nat
  BY <1>t, <1>1, InStepShape, MembersIn DEF StepPlan
<1>3. CASE Leave(t)
  <2>1. pc'[t] = "idle"
    BY <1>t, <1>3 DEF Leave, Go, TypeOK
  <2> QED BY <2>1 DEF SettledThread
<1>4. CASE ~Leave(t)
  <2>0. PICK n \in Nat : n = Wanted(t)
    BY <1>t, <1>1, WantedCount, MembersIn
  <2>1. /\ n <= Len(free) /\ AllocateMany(n) /\ pc'[t] = "apply" /\ seqs' = seqs
        /\ fresh' = [fresh EXCEPT ![t] = TopPages(n)]
        /\ at' = at /\ next' = next /\ needs' = needs /\ batch' = batch
    BY <1>t, <1>4, <2>0 DEF StepAlloc, Go, TypeOK, AllocInv, AllocTypeOK
  <2>2. \A p \in Pages : refs'[p] = IF \E i \in 1 .. n : TopPages(n)[i] = p THEN 1 ELSE refs[p]
    BY <1>t, <2>1 DEF AllocateMany, AllocInv, AllocTypeOK
  <2>3. TopPages(n) \in Seq(Pages) /\ Len(TopPages(n)) = n
    BY <1>t, <2>1, TopPagesFacts
  <2>f. PICK top \in Seq(Pages) : top = TopPages(n)
    BY <2>3
  <2>4. fresh'[t] = top /\ Len(top) = n
    BY <1>t, <2>1, <2>3, <2>f DEF TypeOK
  <2>5. ASSUME NEW b \in 1 .. Len(needs'[t]), SettledMember(t, b)'
        PROVE  refs'[Last(seqs'[batch'[t][b]].pages)] = 1
    <3>1. needs[t][b] = "none" /\ b \in 1 .. Len(needs[t])
      BY <1>2, <2>1, <2>5 DEF SettledMember
    <3>2. SettledMember(t, b)
      BY <3>1 DEF SettledMember
    <3>3. refs[Last(seqs[batch[t][b]].pages)] = 1
      BY <1>1, <3>1, <3>2 DEF SettledThread
    <3>4. PICK p \in Pages : p = Last(seqs[batch[t][b]].pages)
      BY <1>t, <1>1, <3>1, <3>2, SettledPage
    <3> QED BY <2>1, <2>2, <3>3, <3>4
  <2>6. ASSUME NEW i \in next'[t] + 1 .. Len(fresh'[t]) PROVE refs'[fresh'[t][i]] = 1
    <3>1. i \in 1 .. n
      BY <1>2, <2>1, <2>4, <2>6
    <3>2. top[i] \in Pages
      BY <2>4, <3>1
    <3>3. refs'[top[i]] = 1
      BY <2>2, <2>f, <3>1, <3>2
    <3> QED BY <2>4, <3>3
  <2> QED BY <2>5, <2>6 DEF SettledThread
<1> QED BY <1>3, <1>4

\* One member of the batch has its page.
LEMMA ServedSettled ==
  ASSUME NEW t \in Threads, Setting(t), SettledThread(t), pc[t] = "apply", NextMember(t),
         needs' = needs, batch' = batch, fresh' = fresh, next'[t] >= next[t],
         refs'[Last(seqs'[batch[t][at[t]]].pages)] = 1,
         \A b \in 1 .. Len(needs[t]) : SettledMember(t, b) /\ b # at[t] =>
             refs'[Last(seqs'[batch[t][b]].pages)] = 1,
         \A i \in next'[t] + 1 .. Len(fresh[t]) : refs'[fresh[t][i]] = 1
  PROVE  SettledThread(t)'
<1>t. TypeOK /\ Shape
  BY DEF Setting
<1>1. InStep(t) /\ ThreadShape(t)
  BY <1>t, ShapeThread DEF InStep, StepPcs
<1>2. \/ at[t] < Len(batch[t]) /\ at'[t] = at[t] + 1 /\ pc'[t] = "apply"
      \/ at[t] = Len(batch[t]) /\ at'[t] = 1 /\ pc'[t] = "kernel"
  BY <1>t, <1>1, NextMemberFacts
<1>3. at[t] \in Nat /\ Len(needs[t]) = Len(batch[t]) /\ Len(batch[t]) \in Nat
  BY <1>t, <1>1, InStepShape, MembersIn DEF StepPlan
<1>4. ASSUME NEW b \in 1 .. Len(needs[t]), SettledMember(t, b)', b # at[t]
      PROVE  SettledMember(t, b)
  <2>1. CASE at'[t] = at[t] + 1 /\ pc'[t] = "apply"
    <3>1. needs[t][b] = "none" \/ b < at[t] + 1
      BY <1>4, <2>1 DEF SettledMember
    <3>2. needs[t][b] = "none" \/ b < at[t]
      BY <1>3, <1>4, <3>1
    <3> QED BY <3>2 DEF SettledMember
  <2>2. CASE at[t] = Len(batch[t])
    <3>1. b < at[t]
      BY <1>3, <1>4, <2>2
    <3> QED BY <3>1 DEF SettledMember
  <2> QED BY <1>2, <2>1, <2>2
<1>5. ASSUME NEW b \in 1 .. Len(needs[t]), SettledMember(t, b)'
      PROVE  refs'[Last(seqs'[batch[t][b]].pages)] = 1
  BY <1>4, <1>5
<1> QED BY <1>5 DEF SettledThread

LEMMA ApplyNoneSettled ==
  ASSUME NEW t \in Threads, Setting(t), SettledThread(t), ApplyNone(t)
  PROVE  SettledThread(t)'
<1>t. TypeOK /\ Shape
  BY DEF Setting
<1>1. /\ pc[t] = "apply" /\ needs[t][at[t]] = "none" /\ NextMember(t) /\ seqs' = seqs /\ refs' = refs
      /\ needs' = needs /\ batch' = batch /\ fresh' = fresh /\ next' = next
  BY DEF ApplyNone, allocVars, stepVars
<1>2. at[t] \in 1 .. Len(needs[t]) /\ SettledMember(t, at[t])
  BY <1>t, <1>1, FreshLeft, ShapeThread DEF SettledMember
<1>3. \A b \in 1 .. Len(needs[t]) : SettledMember(t, b) => refs[Last(seqs[batch[t][b]].pages)] = 1
  BY <1>1 DEF SettledThread
<1>4. \A i \in next[t] + 1 .. Len(fresh[t]) : refs[fresh[t][i]] = 1
  BY <1>1 DEF SettledThread
<1>5. next'[t] >= next[t]
  BY <1>t, <1>1, MembersIn
<1> QED BY <1>1, <1>2, <1>3, <1>4, <1>5, ServedSettled

LEMMA ApplyNewSettled ==
  ASSUME NEW t \in Threads, Setting(t), SettledThread(t), ApplyNew(t)
  PROVE  SettledThread(t)'
<1>t. TypeOK /\ Shape
  BY DEF Setting
<1>1. /\ pc[t] = "apply" /\ needs[t][at[t]] = "new" /\ NextMember(t) /\ refs' = refs
      /\ needs' = needs /\ batch' = batch /\ fresh' = fresh /\ next' = Bump(next, t)
      /\ InStep(t) /\ ThreadShape(t)
  BY <1>t, ShapeThread DEF ApplyNew, allocVars, InStep, StepPcs
<1>2. at[t] \in 1 .. Len(batch[t]) /\ next[t] \in Nat /\ Len(fresh[t]) \in Nat /\ next'[t] = next[t] + 1
  BY <1>t, <1>1, FreshLeft, MembersIn DEF TypeOK, Bump
<1>3. PICK s \in SeqIds : s = batch[t][at[t]]
  BY <1>t, <1>2, MembersIn
<1>4. PICK page \in Pages : page = fresh[t][next[t] + 1]
  BY <1>t, <1>1, FreshPage
<1>5. SetPages(s, Append(seqs[s].pages, page)) /\ Append(seqs[s].pages, page) \in Seq(Pages)
  BY <1>t, <1>3, <1>4, PagesOf DEF ApplyNew
<1>6. /\ seqs'[s].pages = Append(seqs[s].pages, page)
      /\ \A r \in SeqIds : r # s => seqs'[r] = seqs[r]
  BY <1>t, <1>5, SetPagesFacts
<1>7. Last(seqs'[s].pages) = page
  BY <1>t, <1>6, PagesOf DEF Last
<1>8. \A i \in next[t] + 1 .. Len(fresh[t]) : refs[fresh[t][i]] = 1
  BY <1>1 DEF SettledThread
<1>9. refs[page] = 1
  <2>1. next[t] + 1 \in next[t] + 1 .. Len(fresh[t])
    BY <1>t, <1>1, <1>2, FreshPage
  <2> QED BY <1>4, <1>8, <2>1
<1>10. ASSUME NEW b \in 1 .. Len(needs[t]), SettledMember(t, b), b # at[t]
       PROVE  refs'[Last(seqs'[batch[t][b]].pages)] = 1
  <2>1. b \in 1 .. Len(batch[t]) /\ batch[t][b] \in SeqIds
    BY <1>t, <1>1, <1>10, SettledPage
  <2>2. batch[t][b] # s
    BY <1>t, <1>1, <1>2, <1>3, <1>10, <2>1, InStepShape DEF StepArgs
  <2>3. refs[Last(seqs[batch[t][b]].pages)] = 1
    BY <1>1, <1>10 DEF SettledThread
  <2> QED BY <1>1, <1>6, <2>1, <2>2, <2>3
<1>11. next'[t] >= next[t] /\ \A i \in next'[t] + 1 .. Len(fresh[t]) : refs'[fresh[t][i]] = 1
  BY <1>1, <1>2, <1>8
<1>12. refs'[Last(seqs'[batch[t][at[t]]].pages)] = 1
  BY <1>1, <1>3, <1>7, <1>9
<1> QED BY <1>1, <1>10, <1>11, <1>12, ServedSettled

LEMMA ApplyCowSettled ==
  ASSUME NEW t \in Threads, Setting(t), Counted, SettledThread(t), ApplyCow(t)
  PROVE  SettledThread(t)'
<1>t. TypeOK /\ Shape
  BY DEF Setting
<1>1. /\ pc[t] = "apply" /\ needs[t][at[t]] = "cow" /\ NextMember(t)
      /\ needs' = needs /\ batch' = batch /\ fresh' = fresh /\ next' = Bump(next, t)
      /\ InStep(t) /\ ThreadShape(t)
  BY <1>t, ShapeThread DEF ApplyCow, InStep, StepPcs
<1>2. at[t] \in 1 .. Len(batch[t]) /\ next[t] \in Nat /\ Len(fresh[t]) \in Nat /\ next'[t] = next[t] + 1
  BY <1>t, <1>1, FreshLeft, MembersIn DEF TypeOK, Bump
<1>3. PICK s \in SeqIds : s = batch[t][at[t]]
  BY <1>t, <1>2, MembersIn
<1>4. PICK page \in Pages : page = fresh[t][next[t] + 1]
  BY <1>t, <1>1, FreshPage
<1>d. PICK old \in Pages, k \in 1 .. Len(seqs[s].pages) :
        old = Last(seqs[s].pages) /\ seqs[s].pages[k] = old
  <2>1. PICK q \in Seq(Pages) : q = seqs[s].pages
    BY <1>t, PagesOf
  <2>2. Len(q) > 0
    BY <1>t, <1>1, <1>3, <2>1, CowMember
  <2>3. Len(q) \in 1 .. Len(q)
    BY <2>2
  <2>4. Last(q) \in Pages /\ Last(q) = q[Len(q)]
    BY <2>2, LastFront
  <2> QED BY <2>1, <2>3, <2>4
<1>5. /\ SetPages(s, Append(Front(seqs[s].pages), page)) /\ Front(seqs[s].pages) \in Seq(Pages)
      /\ Release(old)
  <2>1. SetPages(s, Append(Front(seqs[s].pages), page)) /\ Release(old)
    BY <1>3, <1>4, <1>d DEF ApplyCow
  <2>2. Front(seqs[s].pages) \in Seq(Pages)
    BY <1>t, <1>1, <1>3, CowMember, PagesOf, LastFront
  <2> QED BY <2>1, <2>2
<1>f. PICK front \in Seq(Pages) : front = Front(seqs[s].pages)
  BY <1>5
<1>6. /\ seqs'[s].pages = Append(front, page)
      /\ \A r \in SeqIds : r # s => seqs'[r] = seqs[r]
  <2>0. Append(front, page) \in Seq(Pages)
    OBVIOUS
  <2>1. PICK q \in Seq(Pages) : q = Append(front, page)
    BY <2>0
  <2>2. SetPages(s, q)
    BY <1>5, <1>f, <2>1
  <2> QED BY <1>t, <2>1, <2>2, SetPagesFacts
<1>7. Last(seqs'[s].pages) = page
  BY <1>6 DEF Last
<1>8. \A i \in next[t] + 1 .. Len(fresh[t]) : refs[fresh[t][i]] = 1
  BY <1>1 DEF SettledThread
<1>9. \A p \in Pages : p # old => refs'[p] = refs[p]
  BY <1>t, <1>5 DEF Release, TypeOK, AllocTypeOK
<1>u. ASSUME NEW i \in next[t] + 1 .. Len(fresh[t])
      PROVE  fresh[t][i] \in Pages /\ fresh[t][i] # old
  <2>1. fresh[t][i] \in Pages
    BY <1>t, UntakenOnce
  <2>2. fresh[t][i] = old => refs[old] >= 2
    BY <1>t, <1>d, ListedAndUntaken
  <2>3. refs[fresh[t][i]] = 1
    BY <1>8
  <2> QED BY <2>1, <2>2, <2>3
<1>v. next[t] + 1 \in next[t] + 1 .. Len(fresh[t])
  BY <1>t, <1>1, <1>2, FreshPage
<1>w. refs'[page] = 1
  <2>1. page # old /\ refs[page] = 1
    BY <1>4, <1>8, <1>u, <1>v
  <2> QED BY <1>9, <2>1
<1>10. ASSUME NEW b \in 1 .. Len(needs[t]), SettledMember(t, b), b # at[t]
       PROVE  refs'[Last(seqs'[batch[t][b]].pages)] = 1
  <2>1. /\ b \in 1 .. Len(batch[t]) /\ batch[t][b] \in SeqIds
        /\ Len(seqs[batch[t][b]].pages) \in 1 .. Len(seqs[batch[t][b]].pages)
        /\ Last(seqs[batch[t][b]].pages) = seqs[batch[t][b]].pages[Len(seqs[batch[t][b]].pages)]
        /\ Last(seqs[batch[t][b]].pages) \in Pages
    BY <1>t, <1>1, <1>10, SettledPage
  <2>r. PICK r \in SeqIds : r = batch[t][b]
    BY <2>1
  <2>2. PICK j \in 1 .. Len(seqs[r].pages) : r = batch[t][b] /\ seqs[r].pages[j] = Last(seqs[r].pages)
    BY <2>1, <2>r
  <2>3. r # s
    BY <1>t, <1>1, <1>2, <1>3, <1>10, <2>1, <2>2, InStepShape DEF StepArgs
  <2>4. PICK p \in Pages : p = Last(seqs[r].pages)
    BY <2>1, <2>2
  <2>5. refs[p] = 1
    BY <1>1, <1>10, <2>2, <2>4 DEF SettledThread
  <2>6. p # old
    <3>1. p = old => refs[old] >= 2
      BY <1>t, <1>d, <2>2, <2>3, <2>4, ListedTwice, SMTT(30)
    <3> QED BY <2>5, <3>1
  <2> QED BY <1>6, <1>9, <2>2, <2>3, <2>4, <2>5, <2>6
<1>11. next'[t] >= next[t] /\ \A i \in next'[t] + 1 .. Len(fresh[t]) : refs'[fresh[t][i]] = 1
  <2>1. \A i \in next'[t] + 1 .. Len(fresh[t]) : i \in next[t] + 1 .. Len(fresh[t])
    BY <1>2
  <2> QED BY <1>2, <1>8, <1>9, <1>u, <2>1
<1>12. refs'[Last(seqs'[batch[t][at[t]]].pages)] = 1
  BY <1>3, <1>7, <1>w
<1> QED BY <1>1, <1>10, <1>11, <1>12, ServedSettled

LEMMA OwnSettled ==
  ASSUME NEW t \in Threads, Setting(t), Counted, SettledThread(t), Call(t) \/ Run(t)
  PROVE  SettledThread(t)'
<1>t. TypeOK /\ Shape
  BY DEF Setting
<1>0. pc \in [Threads -> StepPcs \cup {"idle", "fork", "destroy", "truncate"}]
  BY <1>t DEF TypeOK
<1>v. ASSUME pc'[t] \notin {"needs", "alloc", "apply", "kernel"} PROVE SettledThread(t)'
  BY <1>v DEF SettledThread
<1>1. CASE SequenceCall(t)
  BY <1>0, <1>1, <1>v DEF SequenceCall, NewSequence, DestroyBegin, ForkBegin, TruncateBegin, Go
<1>2. CASE StepCall(t)
  <2>1. pc[t] = "idle" /\ ~InStep(t)
    BY <1>2 DEF StepCall, StepRefused, StepEnter, InStep, StepPcs
  <2>2. needs[t] = <<>> /\ fresh[t] = <<>> /\ next[t] = 0
    BY <1>t, <2>1, ShapeThread DEF ThreadShape, OutsideStep
  <2>3. needs'[t] = <<>> /\ fresh'[t] = <<>> /\ next'[t] = 0
    BY <1>2, <2>2 DEF StepCall, StepRefused, StepEnter, vars
  <2> QED BY <2>3 DEF SettledThread
<1>3. CASE SequenceRun(t)
  BY <1>0, <1>3, <1>v DEF SequenceRun, ForkRetain, ForkEnd, DestroyRelease, DestroyEnd,
                          TruncateRelease, TruncateEnd, Go
<1>4. CASE StepKernel(t) \/ KernelFails(t) \/ CopyFails(t) \/ UnwindFresh(t) \/ RollbackAppended(t)
           \/ RollbackRelease(t)
  BY <1>0, <1>4, <1>v DEF StepKernel, KernelFails, CopyFails, UnwindFresh, RollbackAppended,
                          RollbackRelease, Go
<1>5. CASE StepCommit(t) \/ StepThrow(t) \/ RollbackRetain(t)
  BY <1>0, <1>5, <1>v DEF StepCommit, StepThrow, RollbackRetain, Leave, Go
<1> QED BY <1>1, <1>2, <1>3, <1>4, <1>5, StepNeedsSettled, StepAllocSettled, ApplyNoneSettled,
           ApplyNewSettled, ApplyCowSettled DEF Call, Run, StepRun

LEMMA EveryStepSettled ==
  ASSUME NEW t \in Threads, Setting(t), Counted, Settled, Call(t) \/ Run(t)
  PROVE  Settled'
<1> SUFFICES ASSUME NEW w \in Threads PROVE SettledThread(w)'
  BY DEF Settled
<1>1. SettledThread(w)
  BY DEF Settled
<1> QED BY <1>1, OwnSettled, OthersSettled

-----------------------------------------------------------------------------
(***************************************************************************)
(* The invariant.                                                          *)
(***************************************************************************)
\* No call is in progress, no sequence exists and no page is held.
LEMMA InitRuntime ==
  ASSUME Init
  PROVE  RuntimeInv
<1>n. 1 \in Nat /\ 0 \in Nat /\ 0 \in 0 .. Context /\ <<>> \in Seq(SeqIds) /\ <<>> \in Seq(Tokens)
      /\ <<>> \in Seq({"new", "cow", "none"}) /\ <<>> \in Seq(Pages)
      /\ <<>> \in Seq(SeqIds \X Pages) /\ <<>> \in Seq(SeqIds \X Pages \X Pages)
  BY RuntimeAssumption
<1>1. AllocInv
  BY AllocInitInv DEF Init
<1>2. TypeOK
  BY <1>1, <1>n DEF Init, TypeOK, DeadSeq, AllocInv
<1>3. \A t \in Threads : /\ ~InStep(t)
                         /\ \A s \in SeqIds : ~Writes(t, s) /\ ~Reads(t, s)
  BY DEF Init, InStep, StepPcs, Writes, Reads
<1>4. Shape
  <2>1. Alone /\ OneStep
    BY <1>3 DEF Alone, OneStep, OneStepAtATime, InStep, Init
  <2>2. \A s \in SeqIds : SeqShape(s)
    BY DEF Init, SeqShape, DeadSeq
  <2>3. \A t \in Threads : ThreadShape(t)
    BY <1>3 DEF Init, ThreadShape, OutsideStep
  <2> QED BY <2>1, <2>2, <2>3 DEF Shape
<1>5. LiveExact
  <2>1. {s \in SeqIds : seqs[s].state \in {"live", "dying"}} = {}
    BY DEF Init, DeadSeq
  <2> QED BY <2>1, FS_EmptySet DEF LiveExact, Init
<1>6. Counted
  <2> SUFFICES ASSUME NEW p \in Pages PROVE refs[p] = 0 /\ Held(p) = 0
    BY DEF Counted
  <2>1. \A s \in SeqIds : Len(PageTables[s]) = 0
    BY DEF Init, DeadSeq, PageTables
  <2>2. Places(PageTables, NoEntryTaken, p) = {}
    BY <2>1 DEF Places, PageTables, NoEntryTaken
  <2>3. \A t \in Threads : Len(fresh[t]) = 0 /\ next[t] = 0
    BY DEF Init
  <2>4. Places(fresh, next, p) = {}
    <3>1. DOMAIN fresh = Threads
      BY DEF Init
    <3> QED BY <2>3, <3>1 DEF Places
  <2>5. Restoring(p) = {}
    BY DEF Restoring, Init
  <2>6. Held(p) = 0
    BY <2>2, <2>4, <2>5, FS_EmptySet DEF Held, Listed, Untaken, Owed
  <2> QED BY <2>6 DEF Init, AllocInit
<1>7. Settled
  BY DEF Init, Settled, SettledThread
<1>8. Intact
  BY <1>2, <1>6, CountedIntact
<1>9. Recoverable
  BY DEF Init, Recoverable, RecoverableThread
<1> QED BY <1>1, <1>2, <1>4, <1>5, <1>6, <1>7, <1>8, <1>9 DEF RuntimeInv

LEMMA EveryStepRuntime ==
  ASSUME RuntimeInv, ~ForkDuringStep, NEW t \in Threads, Call(t) \/ Run(t)
  PROVE  RuntimeInv'
<1>1. Intact /\ Counted /\ Settled
  BY DEF Call, Run, RuntimeInv
<1>2. Setting(t)
  BY SettingHolds DEF RuntimeInv
<1>3. TypeOK' /\ AllocInv'
  BY <1>2 DEF Setting
<1>4. Shape' /\ LiveExact'
  BY EveryStepShape DEF RuntimeInv
<1>5. Settled'
  BY <1>1, <1>2, EveryStepSettled
<1>6. Counted' \/ Broken(t)
  BY <1>1, <1>2, EveryStepCounted
<1>7. Counted' => Intact'
  <2>1. TypeOK' /\ Counted' => Intact'
    BY CountedIntact, PTL
  <2> QED BY <1>3, <2>1
<1>8. FailuresAlone => Recoverable' /\ ~Broken(t)
  <2> SUFFICES ASSUME FailuresAlone PROVE Recoverable' /\ ~Broken(t)
    OBVIOUS
  <2>1. Recoverable
    BY DEF RuntimeInv
  <2>2. CASE KernelMayFail
    BY <1>1, <1>2, <2>1, <2>2, KernelRecoverable DEF Broken
  <2>3. CASE ~KernelMayFail
    BY <1>2, <2>1, <2>3, CopyRecoverable DEF Broken
  <2> QED BY <2>2, <2>3
<1>9. (Intact' \/ stepping') => (Counted' /\ Settled')
  BY <1>5, <1>6 DEF Broken
<1>10. FailuresAlone => (Intact' /\ Recoverable')
  BY <1>6, <1>7, <1>8
<1>11. FailuresAlone' <=> FailuresAlone
  BY DEF FailuresAlone
<1> QED BY <1>3, <1>4, <1>9, <1>10, <1>11 DEF RuntimeInv

LEMMA StutterRuntime ==
  ASSUME RuntimeInv, UNCHANGED vars
  PROVE  RuntimeInv'
<1>1. TypeOK' /\ AllocInv'
  BY DEF RuntimeInv, TypeOK, AllocInv, AllocTypeOK, FreeDistinct, FreeIffUnheld, vars
<1>2. Shape' /\ LiveExact'
  BY StutterShape DEF RuntimeInv
<1>3. (Intact' <=> Intact) /\ stepping' = stepping
  BY DEF Intact, Ready, vars
<1>4. Counted => Counted'
  <2>1. ASSUME NEW p \in Pages PROVE Held(p)' = Held(p)
    BY DEF Held, Listed, Untaken, Owed, Restoring, PageTables, NoEntryTaken, vars
  <2>2. refs' = refs
    BY DEF vars
  <2> QED BY <2>1, <2>2 DEF Counted, NothingLeaks
<1>5. Settled => Settled'
  BY DEF Settled, SettledThread, SettledMember, vars
<1>6. Recoverable => Recoverable'
  BY DEF Recoverable, RecoverableThread, vars
<1>7. FailuresAlone' <=> FailuresAlone
  BY DEF FailuresAlone
<1> QED BY <1>1, <1>2, <1>3, <1>4, <1>5, <1>6, <1>7 DEF RuntimeInv

\* Whatever fails and however the threads interleave, as long as nobody forks a
\* sequence that is being stepped.
THEOREM RuntimeCorrect ==
  ASSUME ~ForkDuringStep
  PROVE  Spec => []RuntimeInv
<1>1. Init => RuntimeInv
  BY InitRuntime
<1>2. RuntimeInv /\ [Next]_vars => RuntimeInv'
  BY EveryStepRuntime, StutterRuntime DEF Next
<1> QED BY <1>1, <1>2, PTL DEF Spec

-----------------------------------------------------------------------------
(***************************************************************************)
(* What the invariant says to a caller.                                    *)
(***************************************************************************)
LEMMA FrontPage ==
  ASSUME TypeOK, NEW s \in SeqIds, Len(seqs[s].pages) > 0
  PROVE  \E k \in 1 .. Len(seqs[s].pages) : Last(seqs[s].pages) = seqs[s].pages[k]
<1>1. PICK q \in Seq(Pages) : q = seqs[s].pages
  BY PagesOf
<1>2. Len(q) > 0
  BY <1>1
<1>3. Len(q) \in 1 .. Len(q)
  BY <1>2
<1>4. Last(q) = q[Len(q)]
  BY <1>2, LastFront
<1> QED BY <1>1, <1>3, <1>4

LEMMA ListedLast ==
  ASSUME TypeOK, Counted, NEW s \in SeqIds, Len(seqs[s].pages) > 0
  PROVE  refs[Last(seqs[s].pages)] # 0
<1>1. PICK k \in 1 .. Len(seqs[s].pages) : Last(seqs[s].pages) = seqs[s].pages[k]
  BY FrontPage
<1>2. refs[seqs[s].pages[k]] >= 1
  BY ListedOnce
<1> QED BY <1>1, <1>2

LEMMA PassedHeld ==
  ASSUME TypeOK, Shape, Counted, NEW t \in Threads, NEW p \in Passed(t)
  PROVE  refs[p] # 0
<1>0. ThreadShape(t)
  BY ShapeThread
<1>1. CASE pc[t] = "fork"
  <2>1. PICK s \in SeqIds : s = tgt[t]
    BY <1>0, <1>1 DEF ThreadShape, ForkShape
  <2>2. at[t] \in 1 .. Len(seqs[s].pages) + 1 /\ Len(seqs[s].pages) \in Nat
    BY <1>0, <1>1, <2>1, PagesOf DEF ThreadShape, ForkShape
  <2>3. at[t] <= Len(seqs[s].pages) /\ p = seqs[s].pages[at[t]]
    BY <1>1, <2>1 DEF Passed
  <2>4. at[t] \in 1 .. Len(seqs[s].pages)
    BY <2>2, <2>3
  <2>5. refs[seqs[s].pages[at[t]]] >= 1
    BY <2>4, ListedOnce
  <2> QED BY <2>3, <2>5
<1>2. CASE pc[t] = "destroy"
  <2>1. PICK s \in SeqIds : s = tgt[t]
    BY <1>0, <1>2 DEF ThreadShape, DestroyShape
  <2>2. PICK i \in 1 .. Len(seqs[s].pages) : p = seqs[s].pages[i]
    BY <1>2, <2>1 DEF Passed
  <2>3. refs[seqs[s].pages[i]] >= 1
    BY ListedOnce
  <2> QED BY <2>2, <2>3
<1>3. CASE pc[t] = "truncate"
  <2>1. PICK s \in SeqIds : s = tgt[t]
    BY <1>0, <1>3 DEF ThreadShape, TruncateShape
  <2>2. Len(seqs[s].pages) > Keep(goal[t]) /\ p = Last(seqs[s].pages)
    BY <1>3, <2>1 DEF Passed
  <2>3. Len(seqs[s].pages) > 0
    <3>1. goal[t] \in Nat
      BY RuntimeAssumption DEF TypeOK
    <3>2. Keep(goal[t]) \in Nat /\ Len(seqs[s].pages) \in Nat
      BY <3>1, PagesOf, KeepNat
    <3> QED BY <2>2, <3>2
  <2> QED BY <2>2, <2>3, ListedLast
<1>4. CASE pc[t] = "apply"
  <2>1. needs[t][at[t]] = "cow"
    BY <1>4 DEF Passed
  <2>2. PICK s \in SeqIds : s = batch[t][at[t]] /\ Len(seqs[s].pages) > 0
    BY <1>0, <1>4, <2>1, CowMember
  <2>3. p = Last(seqs[s].pages) \/ p = fresh[t][next[t] + 1]
    BY <1>4, <2>1, <2>2 DEF Passed
  <2>4. CASE p = Last(seqs[s].pages)
    BY <2>2, <2>4, ListedLast
  <2>5. CASE p = fresh[t][next[t] + 1]
    <3>1. next[t] \in Nat /\ Len(fresh[t]) \in Nat
      BY MembersIn
    <3>2. next[t] + 1 \in next[t] + 1 .. Len(fresh[t])
      BY <1>0, <1>4, <2>1, <3>1, FreshPage
    <3>3. refs[fresh[t][next[t] + 1]] >= 1
      BY <3>2, UntakenOnce
    <3> QED BY <2>5, <3>3
  <2> QED BY <2>3, <2>4, <2>5
<1>5. CASE pc[t] = "unwind"
  <2>1. \/ \E i \in next[t] + 1 .. Len(fresh[t]) : p = fresh[t][i]
        \/ \E i \in 1 .. Len(appended[t]) : p = appended[t][i][2]
    BY <1>5 DEF Passed
  <2>2. ASSUME NEW i \in next[t] + 1 .. Len(fresh[t]), p = fresh[t][i] PROVE refs[p] # 0
    <3>1. refs[fresh[t][i]] >= 1
      BY UntakenOnce
    <3> QED BY <2>2, <3>1
  <2>3. ASSUME NEW i \in 1 .. Len(appended[t]), p = appended[t][i][2] PROVE refs[p] # 0
    <3>1. InStep(t) /\ StepTables(t)
      BY <1>5, InStepShape DEF InStep, StepPcs
    <3>2. PICK s : s = appended[t][i][1]
      OBVIOUS
    <3>3. s \in Members(t) /\ Last(seqs[s].pages) = p /\ s \in Firsts(appended[t])
      BY <2>3, <3>1, <3>2 DEF StepTables, StepAppended, Firsts
    <3>4. s \in SeqIds /\ Len(seqs[s].pages) > 0
      BY <1>0, <3>1, <3>3, MemberFacts DEF Members
    <3> QED BY <3>3, <3>4, ListedLast
  <2> QED BY <2>1, <2>2, <2>3
<1>6. CASE pc[t] = "restore"
  <2>1. InStep(t) /\ replaced[t] # <<>>
    BY <1>6, InStepShape DEF InStep, StepPcs, StepTables, StepPhase
  <2>2. p = Head(replaced[t])[3] /\ p \in Pages
    BY <1>0, <1>6, <2>1, ReplacedFacts DEF Passed
  <2>3. t \in Restoring(p)
    BY <1>6, <2>2 DEF Restoring
  <2>4. refs[p] >= 1
    BY <2>2, <2>3, OwedOnce
  <2> QED BY <2>4
<1>7. pc[t] \in {"fork", "destroy", "truncate", "apply", "unwind", "restore"}
  BY DEF Passed
<1> QED BY <1>1, <1>2, <1>3, <1>4, <1>5, <1>6, <1>7

\* k_kv_store of a member writes the page its table ends with.
LEMMA StoreTarget ==
  ASSUME TypeOK, Shape, NEW t \in Threads, pc[t] = "kernel", NEW b \in 1 .. Len(batch[t])
  PROVE  /\ Target(batch[t][b]) = Last(seqs[batch[t][b]].pages)
         /\ Len(seqs[batch[t][b]].pages) = seqs[batch[t][b]].position \div PageTokens + 1
<1>1. InStep(t) /\ ThreadShape(t) /\ StepTables(t) /\ StepPlan(t)
  BY InStepShape DEF InStep, StepPcs
<1>2. PICK s \in SeqIds : s = batch[t][b]
  BY MembersIn
<1>3. seqs[s].position \in Nat /\ Len(seqs[s].pages) \in Nat
  BY PagesOf, RuntimeAssumption
<1>4. Len(seqs[s].pages) = Keep(seqs[s].position) + One(s \in Firsts(appended[t]))
  BY <1>1, <1>2 DEF StepTables, StepSizes
<1>5. s \in Firsts(appended[t]) <=> seqs[s].position % PageTokens = 0
  <2>1. Len(needs[t]) = Len(batch[t])
    BY <1>1 DEF StepPlan
  <2>2. seqs[s].position % PageTokens = 0 => needs[t][b] = "new"
    BY <1>1, <1>2, <2>1 DEF StepPlan
  <2>3. needs[t][b] = "new" => s \in Firsts(appended[t])
    BY <1>1, <1>2 DEF StepTables, StepPhase
  <2>4. s \in Firsts(appended[t]) => seqs[s].position % PageTokens = 0
    BY <1>1 DEF StepTables, StepAppended, Firsts
  <2> QED BY <2>2, <2>3, <2>4
<1>6. Len(seqs[s].pages) = seqs[s].position \div PageTokens + 1
  <2>1. /\ seqs[s].position % PageTokens = 0 => Keep(seqs[s].position) = seqs[s].position \div PageTokens
        /\ seqs[s].position % PageTokens # 0 => Keep(seqs[s].position) = seqs[s].position \div PageTokens + 1
        /\ seqs[s].position \div PageTokens \in Nat
    BY <1>3, KeepNat
  <2> QED BY <1>4, <1>5, <2>1 DEF One
<1> QED BY <1>2, <1>6 DEF Target, Last

LEMMA StoresHeldOnce ==
  ASSUME TypeOK, Shape, Settled
  PROVE  StoresArePrivate
<1> SUFFICES ASSUME NEW t \in Threads, pc[t] = "kernel", NEW b \in 1 .. Len(batch[t])
             PROVE  refs[Target(batch[t][b])] = 1
  BY DEF StoresArePrivate
<1>1. Len(needs[t]) = Len(batch[t])
  BY InStepShape DEF InStep, StepPcs, StepPlan
<1>2. SettledMember(t, b)
  BY DEF SettledMember
<1>3. refs[Last(seqs[batch[t][b]].pages)] = 1
  BY <1>1, <1>2 DEF Settled, SettledThread
<1> QED BY <1>3, StoreTarget

\* The holders of a page are of three kinds, and no holder is of two.
LEMMA HoldersCounted ==
  ASSUME TypeOK, NEW p \in Pages
  PROVE  Cardinality(Holders(p)) = Held(p)
<1> DEFINE A == UNION {{<<s, i>> : i \in {j \in 1 .. Len(seqs[s].pages) : seqs[s].pages[j] = p}} :
                         s \in SeqIds}
           B == UNION {{<<t, i>> : i \in {j \in next[t] + 1 .. Len(fresh[t]) : fresh[t][j] = p}} :
                         t \in Threads}
           C == {<<t, 0>> : t \in Restoring(p)}
<1>1. Holders(p) = A \cup B \cup C
  BY DEF Holders, Restoring
<1>2. A = Places(PageTables, NoEntryTaken, p)
  <2>1. ASSUME NEW s \in SeqIds, NEW i
        PROVE  (i \in 1 .. Len(seqs[s].pages) /\ seqs[s].pages[i] = p)
                 <=> (i \in Nat /\ Named(PageTables, NoEntryTaken, p, s, i))
    <3>1. Len(seqs[s].pages) \in Nat /\ PageTables[s] = seqs[s].pages /\ NoEntryTaken[s] = 0
      BY PagesOf, TablesType
    <3> QED BY <3>1 DEF Named
  <2>2. DOMAIN PageTables = SeqIds
    BY DEF PageTables
  <2>3. \A h : h \in A <=> h \in Places(PageTables, NoEntryTaken, p)
    BY <2>1, <2>2, PlacesIff
  <2> QED BY <2>3
<1>3. B = Places(fresh, next, p)
  <2>1. ASSUME NEW t \in Threads, NEW i
        PROVE  (i \in next[t] + 1 .. Len(fresh[t]) /\ fresh[t][i] = p)
                 <=> (i \in Nat /\ Named(fresh, next, p, t, i))
    BY MembersIn DEF Named
  <2>2. DOMAIN fresh = Threads
    BY DEF TypeOK
  <2>3. \A h : h \in B <=> h \in Places(fresh, next, p)
    BY <2>1, <2>2, PlacesIff
  <2> QED BY <2>3
<1>4. IsFiniteSet(C) /\ Cardinality(C) = Owed(p)
  <2>1. IsFiniteSet(Restoring(p))
    BY CountTypes
  <2>2. [t \in Restoring(p) |-> <<t, 0>>] \in Bijection(Restoring(p), C)
    BY DEF Injection, Surjection, Bijection, IsInjective
  <2>3. ExistsBijection(Restoring(p), C)
    BY <2>2 DEF ExistsBijection
  <2> QED BY <2>1, <2>3, FS_Bijection DEF Owed
<1>5. IsFiniteSet(A) /\ Cardinality(A) = Listed(p)
  <2> HIDE DEF A
  <2>1. IsFiniteSet(Places(PageTables, NoEntryTaken, p))
    BY TablesType, PlacesFinite
  <2> QED BY <1>2, <2>1 DEF Listed
<1>6. IsFiniteSet(B) /\ Cardinality(B) = Untaken(p)
  <2> HIDE DEF B
  <2>1. IsFiniteSet(Places(fresh, next, p))
    BY TablesType, PlacesFinite
  <2> QED BY <1>3, <2>1 DEF Untaken
<1>7. A \cap B = {} /\ (A \cup B) \cap C = {}
  <2>1. A \cap B = {}
    BY HandlesAssumption
  <2>2. A \cap C = {}
    BY HandlesAssumption DEF Restoring
  <2>3. B \cap C = {}
    <3>1. \A t \in Threads : 0 \notin next[t] + 1 .. Len(fresh[t])
      BY MembersIn
    <3> QED BY <3>1
  <2> QED BY <2>1, <2>2, <2>3
<1>8. IsFiniteSet(A \cup B) /\ Cardinality(A \cup B) = Listed(p) + Untaken(p)
  <2>1. Cardinality(A \cup B) = Cardinality(A) + Cardinality(B) - Cardinality(A \cap B)
    BY <1>5, <1>6, FS_Union
  <2>2. IsFiniteSet(A \cup B)
    BY <1>5, <1>6, FS_Union
  <2>3. Cardinality(A \cap B) = 0
    BY <1>7, FS_EmptySet
  <2> HIDE DEF A, B, C
  <2> QED BY <1>5, <1>6, <2>1, <2>2, <2>3, CountTypes
<1> HIDE DEF A, B, C
<1>9. Cardinality((A \cup B) \cup C) = Cardinality(A \cup B) + Cardinality(C) - Cardinality((A \cup B) \cap C)
  BY <1>4, <1>8, FS_Union
<1>10. Cardinality((A \cup B) \cap C) = 0
  BY <1>7, FS_EmptySet
<1> QED BY <1>1, <1>4, <1>8, <1>9, <1>10, CountTypes DEF Held

LEMMA CountsExact ==
  ASSUME TypeOK, Counted, FailuresAlone
  PROVE  RefcountsExact
<1>1. NothingLeaks
  BY DEF NothingLeaks, FailuresAlone
<1> SUFFICES ASSUME NEW p \in Pages PROVE refs[p] = Cardinality(Holders(p))
  BY DEF RefcountsExact
<1> QED BY <1>1, HoldersCounted DEF Counted

\* Types of all state, in every interleaving and after every failure.
THEOREM RuntimeTypes ==
  ASSUME ~ForkDuringStep
  PROVE  Spec => []TypeOK
<1>1. RuntimeInv => TypeOK
  BY DEF RuntimeInv
<1> QED BY <1>1, RuntimeCorrect, PTL

\* retain() and release() are only called for allocated pages: a destructor
\* never meets an exception, whatever has failed before, as long as the failed
\* rollback of a larger batch has not broken a table.
THEOREM RuntimeCallsAccepted ==
  ASSUME ~ForkDuringStep
  PROVE  Spec => []CallsAccepted
<1>1. RuntimeInv => CallsAccepted
  BY PassedHeld DEF RuntimeInv, CallsAccepted
<1> QED BY <1>1, RuntimeCorrect, PTL

\* k_kv_store writes only pages that no other sequence holds: copy-on-write is
\* decided early enough and stays right until the kernel has run.
THEOREM RuntimeStoresPrivate ==
  ASSUME ~ForkDuringStep
  PROVE  Spec => []StoresArePrivate
<1>1. RuntimeInv => StoresArePrivate
  <2> SUFFICES ASSUME RuntimeInv PROVE StoresArePrivate
    OBVIOUS
  <2>1. CASE stepping
    BY <2>1, StoresHeldOnce DEF RuntimeInv
  <2>2. CASE ~stepping
    <3>1. \A t \in Threads : pc[t] # "kernel"
      BY <2>2 DEF RuntimeInv, Shape, OneStep, InStep, StepPcs
    <3> QED BY <3>1 DEF StoresArePrivate
  <2> QED BY <2>1, <2>2
<1> QED BY <1>1, RuntimeCorrect, PTL

\* If failures come alone, no table ever lists a page on the free stack.
THEOREM RuntimePagesHeld ==
  ASSUME ~ForkDuringStep, FailuresAlone
  PROVE  Spec => []HeldPagesAllocated
<1>1. RuntimeInv => HeldPagesAllocated
  BY DEF RuntimeInv, HeldPagesAllocated
<1> QED BY <1>1, RuntimeCorrect, PTL

\* If failures come alone, the count of a page is the number of its holders at
\* every moment of every call: no page leaks, none is freed while it is used.
THEOREM RuntimeRefcountsExact ==
  ASSUME ~ForkDuringStep, FailuresAlone
  PROVE  Spec => []RefcountsExact
<1>1. RuntimeInv => RefcountsExact
  BY CountsExact DEF RuntimeInv
<1> QED BY <1>1, RuntimeCorrect, PTL

\* If failures come alone, a sequence nobody works on has exactly the pages of
\* its position and every page the exact count, also after a rollback.
THEOREM RuntimeRollbackExact ==
  ASSUME ~ForkDuringStep, FailuresAlone
  PROVE  Spec => []RollbackExact
<1>1. RuntimeInv => RollbackExact
  <2> SUFFICES ASSUME RuntimeInv PROVE RollbackExact
    OBVIOUS
  <2>1. RefcountsExact
    BY CountsExact DEF RuntimeInv
  <2>2. ASSUME NEW s \in SeqIds, Ready(s), Exclusive(s)
        PROVE  Len(seqs[s].pages) = Keep(seqs[s].position)
    <3>1. \A t \in Threads : ~Writes(t, s)
      BY <2>2, FreeOfOthers DEF RuntimeInv
    <3>2. SeqShape(s)
      BY DEF RuntimeInv, Shape
    <3> QED BY <2>2, <3>1, <3>2 DEF SeqShape, Ready
  <2> QED BY <2>1, <2>2 DEF RollbackExact
<1> QED BY <1>1, RuntimeCorrect, PTL

-----------------------------------------------------------------------------
(***************************************************************************)
(* The runtime as a client of the allocator.                               *)
(***************************************************************************)
\* The free stack never outgrows the pool.
LEMMA FreeFits ==
  ASSUME AllocInv
  PROVE  Len(free) \in 0 .. TotalPages
<1>1. free \in Seq(Pages) /\ Len(free) \in Nat /\ TotalPages \in Nat
  BY TotalPagesAssumption DEF AllocInv, AllocTypeOK
<1>2. free \in Injection(1 .. Len(free), Pages)
  BY <1>1 DEF AllocInv, FreeDistinct, Injection, IsInjective
<1>3. /\ IsFiniteSet(Pages) /\ Cardinality(Pages) = TotalPages
      /\ Cardinality(1 .. Len(free)) = Len(free)
  <2>1. PICK n \in Nat : n = Len(free)
    BY <1>1
  <2>2. Cardinality(1 .. n) = n
    BY FS_Interval
  <2>3. IsFiniteSet(0 .. TotalPages - 1) /\ Cardinality(0 .. TotalPages - 1) = TotalPages
    <3>1. PICK m \in Nat : m = TotalPages - 1
      BY TotalPagesAssumption
    <3>2. IsFiniteSet(0 .. m) /\ Cardinality(0 .. m) = m + 1
      <4>1. Cardinality(0 .. m) = IF 0 > m THEN 0 ELSE m - 0 + 1
        BY FS_Interval
      <4> QED BY <4>1, FS_Interval
    <3> QED BY <3>1, <3>2, TotalPagesAssumption
  <2> QED BY <2>1, <2>2, <2>3 DEF Pages
<1>4. Cardinality(1 .. Len(free)) <= Cardinality(Pages)
  BY <1>2, <1>3, FS_Injection
<1> QED BY <1>1, <1>3, <1>4

LEMMA EveryStepAllocates ==
  ASSUME TypeOK, AllocInv, Shape, NEW t \in Threads, Call(t) \/ Run(t)
  PROVE  AllocNext \/ UNCHANGED allocVars
<1>0. ThreadShape(t)
  BY ShapeThread
<1>p. ASSUME NEW p \in Pages, Retain(p) \/ Release(p) PROVE AllocNext
  BY <1>p DEF AllocNext
<1>1. CASE SequenceCall(t)
  BY <1>1 DEF SequenceCall, NewSequence, DestroyBegin, ForkBegin, TruncateBegin
<1>2. CASE StepCall(t)
  BY <1>2 DEF StepCall, StepRefused, StepEnter, vars, allocVars
<1>3. CASE ForkRetain(t)
  <2>1. pc[t] = "fork" /\ at[t] <= Len(seqs[tgt[t]].pages) /\ Retain(seqs[tgt[t]].pages[at[t]])
    BY <1>3 DEF ForkRetain
  <2>2. PICK s \in SeqIds : s = tgt[t] /\ at[t] \in 1 .. Len(seqs[s].pages) + 1
    BY <1>0, <2>1 DEF ThreadShape, ForkShape
  <2>3. at[t] \in 1 .. Len(seqs[s].pages)
    BY <2>1, <2>2, PagesOf
  <2>4. seqs[s].pages[at[t]] \in Pages
    BY <2>3, PagesOf
  <2> QED BY <1>p, <2>1, <2>2, <2>4
<1>4. CASE DestroyRelease(t)
  <2>1. pc[t] = "destroy" /\ seqs[tgt[t]].pages # <<>> /\ Release(Head(seqs[tgt[t]].pages))
    BY <1>4 DEF DestroyRelease
  <2>2. PICK s \in SeqIds : s = tgt[t]
    BY <1>0, <2>1 DEF ThreadShape, DestroyShape
  <2>3. Head(seqs[s].pages) \in Pages
    BY <2>1, <2>2, PagesOf
  <2> QED BY <1>p, <2>1, <2>2, <2>3
<1>5. CASE TruncateRelease(t)
  <2>1. /\ pc[t] = "truncate" /\ Release(Last(seqs[tgt[t]].pages))
        /\ Len(seqs[tgt[t]].pages) > Keep(goal[t])
    BY <1>5 DEF TruncateRelease
  <2>2. PICK s \in SeqIds : s = tgt[t]
    BY <1>0, <2>1 DEF ThreadShape, TruncateShape
  <2>3. Len(seqs[s].pages) > 0
    <3>1. goal[t] \in Nat
      BY RuntimeAssumption DEF TypeOK
    <3>2. Keep(goal[t]) \in Nat /\ Len(seqs[s].pages) \in Nat
      BY <3>1, PagesOf, KeepNat
    <3> QED BY <2>1, <2>2, <3>2
  <2>4. Last(seqs[s].pages) \in Pages
    BY <2>3, PagesOf, LastFront
  <2> QED BY <1>p, <2>1, <2>2, <2>4
<1>6. CASE ForkEnd(t) \/ DestroyEnd(t) \/ TruncateEnd(t)
  BY <1>6 DEF ForkEnd, DestroyEnd, TruncateEnd
<1>7. CASE StepAlloc(t)
  <2>1. PICK n \in Nat : n = Wanted(t)
    BY <1>0, <1>7, WantedCount, MembersIn DEF StepAlloc
  <2>2. AllocateMany(n)
    BY <1>7, <2>1 DEF StepAlloc
  <2>3. CASE n \in 0 .. TotalPages + 1
    BY <2>2, <2>3 DEF AllocNext
  <2>4. CASE n \notin 0 .. TotalPages + 1
    <3>1. ~(Len(free) >= n)
      BY <2>4, FreeFits, TotalPagesAssumption
    <3> QED BY <2>2, <3>1 DEF AllocateMany, allocVars
  <2> QED BY <2>3, <2>4
<1>8. CASE ApplyCow(t)
  <2>1. pc[t] = "apply" /\ needs[t][at[t]] = "cow" /\ Release(Last(seqs[batch[t][at[t]]].pages))
    BY <1>8 DEF ApplyCow
  <2> QED BY <1>0, <1>p, <2>1, CowMember
<1>9. CASE CopyFails(t)
  <2>1. pc[t] = "apply" /\ needs[t][at[t]] = "cow" /\ Release(fresh[t][next[t] + 1])
    BY <1>9 DEF CopyFails
  <2> QED BY <1>0, <1>p, <2>1, FreshPage
<1>10. CASE UnwindFresh(t)
  <2>1. next[t] < Len(fresh[t]) /\ Release(fresh[t][next[t] + 1])
    BY <1>10 DEF UnwindFresh
  <2>2. next[t] + 1 \in 1 .. Len(fresh[t]) /\ fresh[t] \in Seq(Pages)
    BY <2>1, MembersIn DEF TypeOK
  <2> QED BY <1>p, <2>1, <2>2
<1>11. CASE RollbackAppended(t)
  <2>1. InStep(t) /\ appended[t] # <<>> /\ Release(Head(appended[t])[2])
    BY <1>11 DEF RollbackAppended, InStep, StepPcs
  <2> QED BY <1>0, <1>p, <2>1, AppendedFacts
<1>12. CASE RollbackRetain(t)
  <2>1. InStep(t) /\ replaced[t] # <<>> /\ Retain(Head(replaced[t])[2])
    BY <1>12 DEF RollbackRetain, InStep, StepPcs
  <2> QED BY <1>0, <1>p, <2>1, ReplacedFacts
<1>13. CASE RollbackRelease(t)
  <2>1. InStep(t) /\ pc[t] = "restore" /\ Release(Head(replaced[t])[3])
    BY <1>13 DEF RollbackRelease, InStep, StepPcs
  <2>2. replaced[t] # <<>>
    BY <2>1, InStepShape DEF StepTables, StepPhase
  <2> QED BY <1>0, <1>p, <2>1, <2>2, ReplacedFacts
<1>14. CASE StepNeeds(t) \/ ApplyNone(t) \/ ApplyNew(t) \/ StepKernel(t) \/ KernelFails(t)
            \/ StepCommit(t) \/ StepThrow(t)
  BY <1>14 DEF StepNeeds, ApplyNone, ApplyNew, StepKernel, KernelFails, StepCommit, StepThrow
<1> QED BY <1>1, <1>2, <1>3, <1>4, <1>5, <1>6, <1>7, <1>8, <1>9, <1>10, <1>11, <1>12, <1>13, <1>14
        DEF Call, Run, SequenceRun, StepRun

\* Everything the threads do to the pool is a sequence of the allocator's own
\* operations with arguments its methods accept: the runtime implements the
\* specification of the allocator.
THEOREM RuntimeUsesAllocator ==
  ASSUME ~ForkDuringStep
  PROVE  Spec => AllocSpec
<1>1. Init => AllocInit
  BY DEF Init
<1>2. RuntimeInv /\ [Next]_vars => [AllocNext]_allocVars
  <2>1. ASSUME RuntimeInv, Next PROVE AllocNext \/ UNCHANGED allocVars
    BY <2>1, EveryStepAllocates DEF Next, RuntimeInv
  <2>2. ASSUME UNCHANGED vars PROVE UNCHANGED allocVars
    BY <2>2 DEF vars, allocVars
  <2> QED BY <2>1, <2>2
<1> QED BY <1>1, <1>2, RuntimeCorrect, PTL DEF Spec, AllocSpec

-----------------------------------------------------------------------------
(***************************************************************************)
(* Sequences are private: the runtime implements KvSequences.              *)
(***************************************************************************)
\* Where the i-th token of a sequence is, and what is there.
PageOf(i) == (i - 1) \div PageTokens + 1
SlotOf(i) == (i - 1) % PageTokens
TokenAt(s, i) == kv[seqs[s].pages[PageOf(i)]][SlotOf(i)]

Truncates(t, s) == pc[t] = "truncate" /\ tgt[t] = s

LEMMA TokenPlace ==
  ASSUME NEW n \in Nat, NEW i \in 1 .. n
  PROVE  /\ PageOf(i) \in 1 .. Keep(n) /\ SlotOf(i) \in Slots
         /\ PageOf(i) = n \div PageTokens + 1 => SlotOf(i) < n % PageTokens
<1>1. PageTokens \in Nat \ {0}
  BY RuntimeAssumption
<1>2. PICK a \in Nat : a = i - 1 /\ a + 1 <= n /\ a <= n
  OBVIOUS
<1>3. PICK q, r, x, y : q = a \div PageTokens /\ r = a % PageTokens /\ x = n \div PageTokens /\ y = n % PageTokens
  OBVIOUS
<1>4. /\ q \in Nat /\ r \in 0 .. PageTokens - 1 /\ a = PageTokens * q + r
      /\ x \in Nat /\ y \in 0 .. PageTokens - 1 /\ n = PageTokens * x + y
  BY <1>1, <1>3, DivMod
<1>5. q <= x
  BY <1>1, <1>2, <1>3, DivMonotone
<1>6. q + 1 = x + 1 => r < y
  BY <1>1, <1>2, <1>4
<1>7. y = 0 => q < x
  <2> SUFFICES ASSUME y = 0, q = x PROVE FALSE
    BY <1>4, <1>5
  <2> QED BY <1>4, <1>6
<1>8. (y = 0 => Keep(n) = x) /\ (y # 0 => Keep(n) = x + 1)
  BY <1>3, KeepNat
<1>9. PageOf(i) = q + 1 /\ SlotOf(i) = r
  BY <1>2, <1>3 DEF PageOf, SlotOf
<1> QED BY <1>1, <1>3, <1>4, <1>5, <1>6, <1>7, <1>8, <1>9 DEF Slots

LEMMA NextPlace ==
  ASSUME NEW n \in Nat
  PROVE  PageOf(n + 1) = n \div PageTokens + 1 /\ SlotOf(n + 1) = n % PageTokens
<1>1. (n + 1) - 1 = n
  OBVIOUS
<1> QED BY <1>1 DEF PageOf, SlotOf

\* What a sequence shows: up to the goal of the thread that truncates it.
VisibleFacts ==
    \A s \in SeqIds : Ready(s) =>
        /\ VisiblePosition(s) \in 0 .. Context
        /\ Keep(VisiblePosition(s)) <= Len(seqs[s].pages)
        /\ \A u \in Threads : Truncates(u, s) => VisiblePosition(s) = goal[u]
        /\ (\A u \in Threads : ~Truncates(u, s)) => VisiblePosition(s) = seqs[s].position

LEMMA VisibleIs ==
  TypeOK /\ Shape => VisibleFacts
<1> SUFFICES ASSUME TypeOK, Shape, NEW s \in SeqIds, Ready(s)
             PROVE  /\ VisiblePosition(s) \in 0 .. Context
                    /\ Keep(VisiblePosition(s)) <= Len(seqs[s].pages)
                    /\ \A u \in Threads : Truncates(u, s) => VisiblePosition(s) = goal[u]
                    /\ (\A u \in Threads : ~Truncates(u, s)) => VisiblePosition(s) = seqs[s].position
  BY DEF VisibleFacts
<1>0. seqs[s].position \in 0 .. Context /\ Len(seqs[s].pages) \in Nat /\ Keep(seqs[s].position) \in Nat
  <2>1. seqs[s].position \in 0 .. Context /\ seqs[s].position \in Nat /\ Len(seqs[s].pages) \in Nat
    BY PagesOf, RuntimeAssumption
  <2> QED BY <2>1, KeepNat
<1>1. CASE \E t \in Threads : Truncates(t, s)
  <2>1. PICK t \in Threads : t = CHOOSE u \in Threads : pc[u] = "truncate" /\ tgt[u] = s
    BY <1>1 DEF Truncates
  <2>2. Truncates(t, s) /\ VisiblePosition(s) = goal[t]
    BY <1>1, <2>1 DEF Truncates, VisiblePosition
  <2>3. \A u \in Threads : Truncates(u, s) => u = t
    BY <2>2 DEF Truncates, Shape, Alone, Writes
  <2>4. TruncateShape(t)
    BY <2>2, ShapeThread DEF ThreadShape, Truncates
  <2>5. goal[t] \in 0 .. Context /\ Keep(goal[t]) <= Len(seqs[s].pages)
    <3>1. goal[t] \in 0 .. Context /\ goal[t] \in Nat
      BY RuntimeAssumption DEF TypeOK
    <3>2. Keep(goal[t]) \in Nat
      BY <3>1, KeepNat
    <3> QED BY <1>0, <2>2, <2>4, <3>1, <3>2 DEF TruncateShape, Truncates
  <2> QED BY <2>2, <2>3, <2>5
<1>2. CASE \A t \in Threads : ~Truncates(t, s)
  <2>1. VisiblePosition(s) = seqs[s].position
    BY <1>2 DEF VisiblePosition, Truncates
  <2>2. Keep(seqs[s].position) <= Len(seqs[s].pages)
    <3>1. CASE \A t \in Threads : ~Writes(t, s)
      BY <1>0, <3>1 DEF Shape, SeqShape, Ready
    <3>2. CASE \E t \in Threads : Writes(t, s)
      <4>1. PICK t \in Threads : Writes(t, s)
        BY <3>2
      <4>2. ThreadShape(t)
        BY ShapeThread
      <4>3. InStep(t) /\ s \in Members(t)
        BY <1>2, <4>1, <4>2 DEF Writes, Truncates, ThreadShape, DestroyShape, ForkShape, Ready
      <4>4. PICK b \in 1 .. Len(batch[t]) : s = batch[t][b]
        BY <4>3 DEF Members
      <4>5. Len(seqs[s].pages) = Keep(seqs[s].position) + One(s \in Firsts(appended[t]))
        BY <4>2, <4>3, <4>4 DEF ThreadShape, StepTables, StepSizes
      <4>6. One(s \in Firsts(appended[t])) \in Nat
        BY DEF One
      <4> QED BY <1>0, <4>5, <4>6
    <3> QED BY <3>1, <3>2
  <2> QED BY <1>0, <1>2, <2>1, <2>2
<1> QED BY <1>1, <1>2

LEMMA ContentIs ==
  ASSUME TypeOK, VisibleFacts, NEW s \in SeqIds
  PROVE  /\ ~Ready(s) => Content[s] = None
         /\ Ready(s) => /\ Content[s] \in Seq(Tokens \cup {Junk})
                        /\ Len(Content[s]) = VisiblePosition(s)
                        /\ \A i \in 1 .. VisiblePosition(s) : Content[s][i] = TokenAt(s, i)
                        /\ Content[s] = [i \in 1 .. VisiblePosition(s) |-> TokenAt(s, i)]
                        /\ Content[s] # None
<1>1. ~Ready(s) => Content[s] = None
  BY DEF Content
<1> SUFFICES ASSUME Ready(s)
             PROVE  /\ Content[s] \in Seq(Tokens \cup {Junk})
                    /\ Len(Content[s]) = VisiblePosition(s)
                    /\ \A i \in 1 .. VisiblePosition(s) : Content[s][i] = TokenAt(s, i)
                    /\ Content[s] = [i \in 1 .. VisiblePosition(s) |-> TokenAt(s, i)]
                    /\ Content[s] # None
  BY <1>1
<1>2. PICK n \in Nat : n = VisiblePosition(s) /\ Keep(n) <= Len(seqs[s].pages)
  BY RuntimeAssumption DEF VisibleFacts
<1>3. Content[s] = [i \in 1 .. n |-> TokenAt(s, i)]
  BY <1>2 DEF Content, Gathered, TokenAt, PageOf, SlotOf
<1>4. \A i \in 1 .. n : TokenAt(s, i) \in Tokens \cup {Junk}
  <2> SUFFICES ASSUME NEW i \in 1 .. n PROVE TokenAt(s, i) \in Tokens \cup {Junk}
    OBVIOUS
  <2>1. PageOf(i) \in 1 .. Keep(n) /\ SlotOf(i) \in Slots /\ Keep(n) \in Nat
    BY TokenPlace, KeepNat
  <2>2. PageOf(i) \in 1 .. Len(seqs[s].pages)
    BY <1>2, <2>1, PagesOf
  <2>3. seqs[s].pages[PageOf(i)] \in Pages
    BY <2>2, PagesOf
  <2> QED BY <2>1, <2>3 DEF TokenAt, TypeOK
<1>5. Content[s] \in [1 .. n -> Tokens \cup {Junk}]
  BY <1>3, <1>4
<1>6. Content[s] \in Seq(Tokens \cup {Junk}) /\ Len(Content[s]) = n
  BY <1>5
<1> QED BY <1>2, <1>3, <1>6, HandlesAssumption

LEMMA ContentTogether ==
  ASSUME NEW X, \A s \in SeqIds : Content'[s] = X[s], X = [s \in SeqIds |-> X[s]]
  PROVE  Content' = X
<1>1. Content' = [s \in SeqIds |-> Content'[s]]
  BY DEF Content
<1> QED BY <1>1

\* A sequence whose visible tokens stay where they were, or were copied, reads the same.
LEMMA ContentKept ==
  ASSUME NEW s \in SeqIds, Ready(s)' <=> Ready(s),
         Ready(s) => /\ VisiblePosition(s)' = VisiblePosition(s)
                     /\ \A i \in 1 .. VisiblePosition(s) : TokenAt(s, i)' = TokenAt(s, i)
  PROVE  Content'[s] = Content[s]
<1>1. CASE ~Ready(s)
  BY <1>1 DEF Content
<1>2. CASE Ready(s)
  <2>1. Content[s] = [i \in 1 .. VisiblePosition(s) |-> TokenAt(s, i)]
    BY <1>2 DEF Content, Gathered, TokenAt, PageOf, SlotOf
  <2>2. Content'[s] = [i \in 1 .. VisiblePosition(s)' |-> TokenAt(s, i)']
    BY <1>2 DEF Content, Gathered, TokenAt, PageOf, SlotOf
  <2> QED BY <1>2, <2>1, <2>2
<1> QED BY <1>1, <1>2

\* What the steps below may assume.
KeptPrefix(t) ==
    \A i \in 1 .. Len(replaced[t]) : \A j \in Slots :
        j < seqs[replaced[t][i][1]].position % PageTokens =>
            kv[replaced[t][i][2]][j] = kv[replaced[t][i][3]][j]
KeptApart(t) ==
    pc[t] \in {"apply", "kernel"} =>
        \A i \in 1 .. Len(replaced[t]) :
            /\ \A k \in next[t] + 1 .. Len(fresh[t]) : fresh[t][k] # replaced[t][i][2]
            /\ \A b \in 1 .. Len(needs[t]) :
                 SettledMember(t, b) => Last(seqs[batch[t][b]].pages) # replaced[t][i][2]
KeptStored(t) ==
    pc[t] = "commit" =>
        \A b \in 1 .. Len(batch[t]) :
            kv[Target(batch[t][b])][seqs[batch[t][b]].position % PageTokens] \in Tokens
KeptThread(t) == KeptPrefix(t) /\ KeptApart(t) /\ KeptStored(t)
Kept == \A t \in Threads : KeptThread(t)

Ground(t) ==
    /\ Setting(t) /\ Shape' /\ Counted /\ Settled /\ Kept
    /\ VisibleFacts /\ VisibleFacts'

LEMMA VisibleSame ==
  ASSUME NEW t \in Threads, Setting(t), VisibleFacts, VisibleFacts',
         NEW s \in SeqIds, Ready(s), Ready(s)', seqs'[s].position = seqs[s].position,
         ~Truncates(t, s), ~Truncates(t, s)'
  PROVE  VisiblePosition(s)' = VisiblePosition(s)
<1>1. \A u \in Threads : /\ Truncates(u, s)' <=> Truncates(u, s)
                         /\ Truncates(u, s) => goal'[u] = goal[u]
  BY DEF Setting, Quiet, Truncates
<1>2. CASE \E u \in Threads : Truncates(u, s)
  <2>1. PICK u \in Threads : Truncates(u, s)
    BY <1>2
  <2> QED BY <1>1, <2>1 DEF VisibleFacts
<1>3. CASE \A u \in Threads : ~Truncates(u, s)
  BY <1>1, <1>3 DEF VisibleFacts
<1> QED BY <1>2, <1>3

\* The device pool is as it was, and so are the pages of s that it reads.
LEMMA SameReads ==
  ASSUME NEW t \in Threads, Setting(t), VisibleFacts, VisibleFacts', kv' = kv,
         NEW s \in SeqIds, seqs'[s].state = seqs[s].state,
         Ready(s) => seqs'[s].position = seqs[s].position, ~Truncates(t, s), ~Truncates(t, s)',
         Ready(s) => \A i \in 1 .. Keep(VisiblePosition(s)) : seqs'[s].pages[i] = seqs[s].pages[i]
  PROVE  Content'[s] = Content[s]
<1>1. Ready(s)' <=> Ready(s)
  BY DEF Ready
<1>2. ASSUME Ready(s)
      PROVE  /\ VisiblePosition(s)' = VisiblePosition(s)
             /\ \A i \in 1 .. VisiblePosition(s) : TokenAt(s, i)' = TokenAt(s, i)
  <2>1. VisiblePosition(s)' = VisiblePosition(s)
    BY <1>1, <1>2, VisibleSame
  <2>2. PICK n \in Nat : n = VisiblePosition(s)
    BY <1>2, RuntimeAssumption DEF VisibleFacts
  <2>3. ASSUME NEW i \in 1 .. n PROVE TokenAt(s, i)' = TokenAt(s, i)
    <3>1. PageOf(i) \in 1 .. Keep(n)
      BY TokenPlace
    <3>2. PICK k : k = PageOf(i) /\ seqs'[s].pages[k] = seqs[s].pages[k]
      BY <1>2, <2>2, <3>1
    <3> QED BY <3>2 DEF TokenAt, PageOf, SlotOf
  <2> QED BY <2>1, <2>2, <2>3
<1> QED BY <1>1, <1>2, ContentKept

LEMMA SameSeqs ==
  ASSUME NEW t \in Threads, Setting(t), VisibleFacts, VisibleFacts', kv' = kv, seqs' = seqs,
         pc[t] # "truncate", pc'[t] # "truncate"
  PROVE  Content' = Content
<1>1. \A s \in SeqIds : Content'[s] = Content[s]
  BY SameReads DEF Truncates
<1>2. Content = [s \in SeqIds |-> Content[s]]
  BY DEF Content
<1> QED BY <1>1, <1>2, ContentTogether

-----------------------------------------------------------------------------
(***************************************************************************)
(* What the step in progress has kept for its rollback and its commit is   *)
(* its own: no other thread disturbs it.                                   *)
(***************************************************************************)
LEMMA OthersLeaveMembers ==
  ASSUME NEW t \in Threads, Setting(t), Call(t) \/ Run(t),
         NEW w \in Threads, InStep(w), ~InStep(t)
  PROVE  kv' = kv /\ \A s \in Members(w) : seqs'[s] = seqs[s]
<1>t. TypeOK /\ Shape /\ TypeOK'
  BY DEF Setting
<1>m. ASSUME NEW s \in Members(w)
      PROVE  s \in SeqIds /\ seqs[s].state = "live" /\ ~Writes(t, s) /\ ~(Ready(s) /\ Exclusive(s))
  <2>1. PICK b \in 1 .. Len(batch[w]) : s = batch[w][b]
    BY DEF Members
  <2>2. s \in SeqIds /\ seqs[s].state = "live"
    BY <1>t, <2>1, ShapeThread, MemberFacts
  <2>3. Writes(w, s)
    BY DEF Writes
  <2>4. ~Writes(t, s)
    BY <1>t, <2>2, <2>3 DEF Shape, Alone
  <2> QED BY <1>t, <2>2, <2>3, <2>4, FreeOfOthers
<1>s. ASSUME NEW c \in SeqIds, \A r \in SeqIds : r # c => seqs'[r] = seqs[r], c \notin Members(w)
      PROVE  \A s \in Members(w) : seqs'[s] = seqs[s]
  BY <1>m, <1>s
<1>f. DOMAIN seqs = SeqIds
  BY <1>t DEF TypeOK
<1>1. CASE SequenceCall(t)
  <2>1. ASSUME NEW s \in SeqIds, NewSequence(t, s) PROVE kv' = kv /\ \A r \in Members(w) : seqs'[r] = seqs[r]
    <3>1. s \notin Members(w)
      BY <1>m, <2>1 DEF NewSequence
    <3> QED BY <1>s, <1>f, <2>1, <3>1 DEF NewSequence
  <2>2. ASSUME NEW s \in SeqIds, DestroyBegin(t, s) PROVE kv' = kv /\ \A r \in Members(w) : seqs'[r] = seqs[r]
    <3>1. s \notin Members(w)
      BY <1>m, <2>2 DEF DestroyBegin
    <3> QED BY <1>s, <1>f, <2>2, <3>1 DEF DestroyBegin
  <2>3. ASSUME NEW s \in SeqIds, NEW c \in SeqIds, ForkBegin(t, s, c)
        PROVE kv' = kv /\ \A r \in Members(w) : seqs'[r] = seqs[r]
    <3>1. c \notin Members(w)
      BY <1>m, <2>3 DEF ForkBegin
    <3> QED BY <1>s, <1>f, <2>3, <3>1 DEF ForkBegin
  <2>4. ASSUME NEW s \in SeqIds, NEW n \in 0 .. Context, TruncateBegin(t, s, n)
        PROVE kv' = kv /\ \A r \in Members(w) : seqs'[r] = seqs[r]
    BY <2>4 DEF TruncateBegin
  <2> QED BY <1>1, <2>1, <2>2, <2>3, <2>4 DEF SequenceCall
<1>2. CASE StepCall(t)
  BY <1>2 DEF StepCall, StepRefused, StepEnter, vars
<1>3. CASE StepRun(t)
  <2>1. pc[t] \in StepPcs
    BY <1>3 DEF StepRun, StepPcs, StepNeeds, StepAlloc, ApplyNone, ApplyNew, ApplyCow, CopyFails,
                StepKernel, KernelFails, StepCommit, UnwindFresh, RollbackAppended, RollbackRetain,
                RollbackRelease, StepThrow
  <2> QED BY <2>1 DEF InStep
<1>4. CASE ForkRetain(t) \/ ForkEnd(t)
  <2>1. PICK c \in SeqIds : c = child[t] /\ Writes(t, c)
    BY <1>t, <1>4, ShapeThread DEF ThreadShape, ForkShape, ForkRetain, ForkEnd, Writes
  <2>2. c \notin Members(w)
    BY <1>m, <2>1
  <2> QED BY <1>s, <1>f, <1>4, <2>1, <2>2 DEF ForkRetain, ForkEnd
<1>5. CASE DestroyRelease(t) \/ DestroyEnd(t) \/ TruncateRelease(t) \/ TruncateEnd(t)
  <2>1. PICK c \in SeqIds : c = tgt[t] /\ Writes(t, c)
    BY <1>t, <1>5, ShapeThread
       DEF ThreadShape, DestroyShape, TruncateShape, DestroyRelease, DestroyEnd, TruncateRelease,
           TruncateEnd, Writes
  <2>2. c \notin Members(w)
    BY <1>m, <2>1
  <2> QED BY <1>s, <1>f, <1>5, <2>1, <2>2 DEF DestroyRelease, DestroyEnd, TruncateRelease, TruncateEnd, SetPages
<1> QED BY <1>1, <1>2, <1>3, <1>4, <1>5 DEF Call, Run, SequenceRun

LEMMA OutsideKept ==
  ASSUME NEW w, replaced[w] = <<>>, pc[w] # "commit"
  PROVE  KeptThread(w)
BY DEF KeptThread, KeptPrefix, KeptApart, KeptStored

LEMMA OutsideNow ==
  ASSUME NEW w, replaced'[w] = <<>>, pc'[w] # "commit"
  PROVE  KeptThread(w)'
BY DEF KeptThread, KeptPrefix, KeptApart, KeptStored

LEMMA OthersKept ==
  ASSUME NEW t \in Threads, Ground(t), Call(t) \/ Run(t), NEW w \in Threads, w # t
  PROVE  KeptThread(w)'
<1>t. TypeOK /\ Shape /\ Quiet(w) /\ KeptThread(w) /\ Setting(t)
  BY DEF Ground, Setting, Kept
<1>1. CASE ~InStep(w)
  <2>1. replaced[w] = <<>> /\ pc[w] # "commit"
    BY <1>t, <1>1, ShapeThread DEF ThreadShape, OutsideStep, InStep, StepPcs
  <2> QED BY <1>t, <2>1, OutsideNow DEF Quiet
<1>2. CASE InStep(w)
  <2>1. ~InStep(t)
    BY <1>t, <1>2 DEF Shape, OneStep, OneStepAtATime, InStep
  <2>2. kv' = kv /\ \A s \in Members(w) : seqs'[s] = seqs[s]
    BY <1>t, <1>2, <2>1, OthersLeaveMembers
  <2>3. StepReplaced(w) /\ StepPlan(w) /\ StepArgs(w)
    BY <1>t, <1>2, InStepShape DEF StepTables
  <2>4. \A b \in 1 .. Len(batch[w]) : seqs'[batch[w][b]] = seqs[batch[w][b]]
    BY <2>2 DEF Members
  <2>5. KeptPrefix(w)'
    <3>1. \A i \in 1 .. Len(replaced[w]) : seqs'[replaced[w][i][1]] = seqs[replaced[w][i][1]]
      BY <2>2, <2>3 DEF StepReplaced
    <3> QED BY <1>t, <2>2, <3>1 DEF KeptThread, KeptPrefix, Quiet
  <2>6. KeptApart(w)'
    <3> SUFFICES ASSUME pc[w] \in {"apply", "kernel"} PROVE KeptApart(w)'
      BY <1>t DEF KeptApart, Quiet
    <3>1. \A b \in 1 .. Len(needs[w]) : seqs'[batch[w][b]] = seqs[batch[w][b]]
      BY <2>3, <2>4 DEF StepPlan
    <3> QED BY <1>t, <3>1 DEF KeptThread, KeptApart, Quiet, SettledMember
  <2>7. KeptStored(w)'
    BY <1>t, <2>2, <2>4, ZenonT(60) DEF KeptThread, KeptStored, Quiet, Target
  <2> QED BY <2>5, <2>6, <2>7 DEF KeptThread
<1> QED BY <1>1, <1>2

-----------------------------------------------------------------------------
(***************************************************************************)
(* The operations on one sequence.                                         *)
(***************************************************************************)
LEMMA IsCreate ==
  ASSUME NEW s \in SeqIds, Content[s] = None, Content' = [Content EXCEPT ![s] = <<>>]
  PROVE  Private!KvNext
BY DEF Content, Private!KvNext, Private!Create, Private!Live

LEMMA IsFork ==
  ASSUME NEW s \in SeqIds, NEW c \in SeqIds, Content[s] # None, Content[c] = None,
         Content' = [Content EXCEPT ![c] = Content[s]]
  PROVE  Private!KvNext
BY DEF Content, Private!KvNext, Private!ForkOf, Private!Live

LEMMA IsDrop ==
  ASSUME NEW s \in SeqIds, Content[s] # None, Content' = [Content EXCEPT ![s] = None]
  PROVE  Private!KvNext
BY DEF Content, Private!KvNext, Private!Drop, Private!Live

LEMMA IsTruncate ==
  ASSUME NEW s \in SeqIds, Content[s] # None, NEW n \in 0 .. Len(Content[s]),
         Content' = [Content EXCEPT ![s] = SubSeq(Content[s], 1, n)]
  PROVE  Private!KvNext
<1>1. s \in Private!Live
  BY DEF Content, Private!Live
<1>2. Private!Truncated(s, n)
  BY <1>1 DEF Content, Private!Truncated
<1> QED BY <1>1, <1>2 DEF Content, Private!KvNext

LEMMA OneContent ==
  ASSUME NEW s \in SeqIds, NEW X, Content'[s] = X, \A r \in SeqIds : r # s => Content'[r] = Content[r]
  PROVE  Content' = [Content EXCEPT ![s] = X]
<1>1. Content' = [r \in SeqIds |-> Content'[r]] /\ Content = [r \in SeqIds |-> Content[r]]
  BY DEF Content
<1> QED BY <1>1

\* A call of t that leaves every sequence but s alone.
LEMMA OthersRead ==
  ASSUME NEW t \in Threads, Setting(t), VisibleFacts, VisibleFacts', kv' = kv,
         NEW s \in SeqIds, \A r \in SeqIds : r # s => seqs'[r] = seqs[r],
         \A r \in SeqIds : r # s => ~Truncates(t, r) /\ ~Truncates(t, r)'
  PROVE  \A r \in SeqIds : r # s => Content'[r] = Content[r]
<1> SUFFICES ASSUME NEW r \in SeqIds, r # s PROVE Content'[r] = Content[r]
  OBVIOUS
<1>1. seqs'[r] = seqs[r] /\ ~Truncates(t, r) /\ ~Truncates(t, r)'
  OBVIOUS
<1> QED BY <1>1, SameReads

LEMMA NotReadyContent ==
  ASSUME NEW s \in SeqIds, ~Ready(s), ~Ready(s)'
  PROVE  Content'[s] = Content[s]
BY DEF Content

LEMMA NewSequenceRefines ==
  ASSUME NEW t \in Threads, Ground(t), NEW s \in SeqIds, NewSequence(t, s)
  PROVE  Private!KvNext
<1>t. Setting(t) /\ TypeOK /\ Shape /\ VisibleFacts /\ VisibleFacts' /\ TypeOK' /\ Shape'
  BY DEF Ground, Setting
<1>1. /\ seqs[s] = DeadSeq /\ ~Ready(s)
      /\ seqs' = [seqs EXCEPT ![s].state = "live"] /\ kv' = kv /\ pc' = pc /\ tgt' = tgt /\ pc[t] = "idle"
  BY <1>t DEF NewSequence, Shape, SeqShape, Ready
<1>2. /\ Ready(s)' /\ seqs'[s].position = 0 /\ \A r \in SeqIds : r # s => seqs'[r] = seqs[r]
  BY <1>t, <1>1 DEF Ready, DeadSeq, TypeOK
<1>3. \A r \in SeqIds : r # s => Content'[r] = Content[r]
  BY <1>t, <1>1, <1>2, OthersRead DEF Truncates
<1>4. \A u \in Threads : ~Truncates(u, s)'
  BY <1>t, <1>1, ShapeThread DEF ThreadShape, TruncateShape, Truncates, Ready
<1>5. VisiblePosition(s)' = 0
  BY <1>2, <1>4, <1>t DEF VisibleFacts
<1>6. Content'[s] = <<>>
  <2>1. Content'[s] = [i \in 1 .. 0 |-> TokenAt(s, i)']
    BY <1>2, <1>5 DEF Content, Gathered, TokenAt, PageOf, SlotOf
  <2>2. [i \in 1 .. 0 |-> TokenAt(s, i)'] = <<>>
    OBVIOUS
  <2> QED BY <2>1, <2>2
<1>7. Content[s] = None
  BY <1>1 DEF Content
<1> QED BY <1>3, <1>6, <1>7, OneContent, IsCreate

LEMMA ForkEndRefines ==
  ASSUME NEW t \in Threads, Ground(t), ForkEnd(t)
  PROVE  Private!KvNext
<1>t. Setting(t) /\ TypeOK /\ Shape /\ VisibleFacts /\ VisibleFacts' /\ TypeOK' /\ Shape'
  BY DEF Ground, Setting
<1>1. ForkShape(t) /\ pc[t] = "fork" /\ kv' = kv /\ pc' = [pc EXCEPT ![t] = "idle"] /\ pc'[t] = "idle"
  BY <1>t, ShapeThread DEF ThreadShape, ForkEnd, Go, TypeOK
<1>2. PICK s \in SeqIds, c \in SeqIds : s = tgt[t] /\ c = child[t]
  BY <1>1 DEF ForkShape
<1>3. /\ Ready(s) /\ ~Ready(c) /\ Writes(t, c) /\ Reads(t, s)
      /\ seqs'[c] = seqs[s] /\ \A r \in SeqIds : r # c => seqs'[r] = seqs[r]
  BY <1>t, <1>1, <1>2 DEF ForkShape, Ready, Writes, Reads, ForkEnd, TypeOK
<1>4. \A r \in SeqIds : r # c => Content'[r] = Content[r]
  BY <1>t, <1>1, <1>3, OthersRead DEF Truncates
<1>5. \A u \in Threads : ~Truncates(u, s) /\ ~Truncates(u, c) /\ ~Truncates(u, c)'
  <2>1. ASSUME NEW u \in Threads, Truncates(u, s) \/ Truncates(u, c) PROVE FALSE
    <3>1. Writes(u, s) \/ Writes(u, c)
      BY <2>1 DEF Truncates, Writes
    <3>2. u = t
      BY <1>t, <1>3, <3>1 DEF Shape, Alone
    <3> QED BY <1>1, <2>1, <3>2 DEF Truncates
  <2>2. ASSUME NEW u \in Threads, Truncates(u, c)' PROVE Truncates(u, c)
    BY <1>1, <1>t, <2>2 DEF Truncates, Setting, Quiet
  <2> QED BY <2>1, <2>2
<1>6. VisiblePosition(s) = seqs[s].position /\ VisiblePosition(c)' = seqs[s].position /\ Ready(c)'
  BY <1>t, <1>3, <1>5 DEF VisibleFacts, Ready
<1>7. Content'[c] = Content[s]
  <2>1. Content'[c] = [i \in 1 .. seqs[s].position |-> TokenAt(c, i)']
    BY <1>6 DEF Content, Gathered, TokenAt, PageOf, SlotOf
  <2>2. Content[s] = [i \in 1 .. seqs[s].position |-> TokenAt(s, i)]
    BY <1>3, <1>6 DEF Content, Gathered, TokenAt, PageOf, SlotOf
  <2>3. \A i \in 1 .. seqs[s].position : TokenAt(c, i)' = TokenAt(s, i)
    BY <1>1, <1>3 DEF TokenAt, PageOf, SlotOf
  <2> QED BY <2>1, <2>2, <2>3
<1>8. Content[s] # None /\ Content[c] = None
  BY <1>t, <1>3, ContentIs
<1> QED BY <1>4, <1>7, <1>8, OneContent, IsFork

LEMMA DestroyBeginRefines ==
  ASSUME NEW t \in Threads, Ground(t), NEW s \in SeqIds, DestroyBegin(t, s)
  PROVE  Private!KvNext
<1>t. Setting(t) /\ TypeOK /\ Shape /\ VisibleFacts /\ VisibleFacts'
  BY DEF Ground, Setting
<1>1. /\ Ready(s) /\ kv' = kv /\ pc[t] = "idle" /\ pc'[t] = "destroy"
      /\ ~Ready(s)' /\ \A r \in SeqIds : r # s => seqs'[r] = seqs[r]
  BY <1>t DEF DestroyBegin, Ready, TypeOK, Go
<1>2. \A r \in SeqIds : r # s => Content'[r] = Content[r]
  BY <1>t, <1>1, OthersRead DEF Truncates
<1>3. Content[s] # None /\ Content'[s] = None
  <2>1. Content[s] # None
    BY <1>t, <1>1, ContentIs
  <2> QED BY <1>1, <2>1 DEF Content
<1> QED BY <1>2, <1>3, OneContent, IsDrop

LEMMA TruncateBeginRefines ==
  ASSUME NEW t \in Threads, Ground(t), NEW s \in SeqIds, NEW n \in 0 .. Context, TruncateBegin(t, s, n)
  PROVE  Private!KvNext
<1>t. Setting(t) /\ TypeOK /\ Shape /\ VisibleFacts /\ VisibleFacts'
  BY DEF Ground, Setting
<1>1. /\ Ready(s) /\ kv' = kv /\ seqs' = seqs /\ pc[t] = "idle" /\ n \in 0 .. seqs[s].position
      /\ Truncates(t, s)' /\ goal'[t] = n /\ Ready(s)'
      /\ \A r \in SeqIds : r # s => ~Truncates(t, r)'
  BY <1>t DEF TruncateBegin, Ready, TypeOK, Go, Truncates
<1>2. \A r \in SeqIds : r # s => Content'[r] = Content[r]
  BY <1>t, <1>1, OthersRead DEF Truncates
<1>3. \A u \in Threads : ~Truncates(u, s)
  BY <1>t, FreeOfOthers DEF TruncateBegin, Truncates, Writes
<1>4. VisiblePosition(s) = seqs[s].position /\ VisiblePosition(s)' = n
  BY <1>t, <1>1, <1>3 DEF VisibleFacts
<1>5. PICK m \in Nat : m = seqs[s].position /\ n \in 0 .. m
  BY <1>t, <1>1, PagesOf, RuntimeAssumption
<1>6. /\ Content[s] = [i \in 1 .. m |-> TokenAt(s, i)] /\ Len(Content[s]) = m /\ Content[s] # None
      /\ Content[s] \in Seq(Tokens \cup {Junk})
  BY <1>t, <1>1, <1>4, <1>5, ContentIs
<1>7. Content'[s] = [i \in 1 .. n |-> TokenAt(s, i)]
  <2>1. Content'[s] = [i \in 1 .. n |-> TokenAt(s, i)']
    BY <1>1, <1>4 DEF Content, Gathered, TokenAt, PageOf, SlotOf
  <2>2. \A i \in 1 .. n : TokenAt(s, i)' = TokenAt(s, i)
    BY <1>1 DEF TokenAt, PageOf, SlotOf
  <2> QED BY <2>1, <2>2
<1>8. SubSeq(Content[s], 1, n) = [i \in 1 .. n |-> Content[s][i]]
  BY <1>5, <1>6
<1>9. Content'[s] = SubSeq(Content[s], 1, n)
  <2>1. \A i \in 1 .. n : Content[s][i] = TokenAt(s, i)
    BY <1>5, <1>6
  <2> HIDE DEF TokenAt, Content
  <2> QED BY <1>7, <1>8, <2>1
<1> QED BY <1>2, <1>5, <1>6, <1>9, OneContent, IsTruncate

LEMMA ContentSame ==
  ASSUME \A s \in SeqIds : Content'[s] = Content[s]
  PROVE  Content' = Content
<1>1. Content = [s \in SeqIds |-> Content[s]]
  BY DEF Content
<1> QED BY <1>1, ContentTogether

\* A call that works on a sequence no caller may read yet, or any more.
LEMMA HiddenStutters ==
  ASSUME NEW t \in Threads, Setting(t), VisibleFacts, VisibleFacts', kv' = kv,
         NEW s \in SeqIds, ~Ready(s), ~Ready(s)', \A r \in SeqIds : r # s => seqs'[r] = seqs[r],
         pc[t] # "truncate", pc'[t] # "truncate"
  PROVE  Content' = Content
<1>1. \A r \in SeqIds : r # s => Content'[r] = Content[r]
  BY OthersRead DEF Truncates
<1> QED BY <1>1, NotReadyContent, ContentSame

LEMMA TruncateRefines ==
  ASSUME NEW t \in Threads, Ground(t), TruncateRelease(t) \/ TruncateEnd(t)
  PROVE  Content' = Content
<1>t. Setting(t) /\ TypeOK /\ Shape /\ VisibleFacts /\ VisibleFacts' /\ TypeOK' /\ Shape'
  BY DEF Ground, Setting
<1>1. pc[t] = "truncate" /\ TruncateShape(t) /\ kv' = kv
  BY <1>t, ShapeThread DEF ThreadShape, TruncateRelease, TruncateEnd
<1>2. PICK s \in SeqIds : s = tgt[t] /\ Ready(s) /\ Truncates(t, s)
  BY <1>1 DEF TruncateShape, Ready, Truncates
<1>3. PICK n \in Nat : n = goal[t] /\ VisiblePosition(s) = n /\ Keep(n) \in Nat
  <2>1. goal[t] \in Nat
    BY <1>t, RuntimeAssumption DEF TypeOK
  <2> QED BY <1>t, <1>2, <2>1, KeepNat DEF VisibleFacts
<1>4. /\ Ready(s)' /\ VisiblePosition(s)' = n
      /\ \A i \in 1 .. Keep(n) : seqs'[s].pages[i] = seqs[s].pages[i]
      /\ \A r \in SeqIds : r # s => seqs'[r] = seqs[r]
      /\ \A r \in SeqIds : r # s => ~Truncates(t, r) /\ ~Truncates(t, r)'
  <2>1. CASE TruncateRelease(t)
    <3>1. Len(seqs[s].pages) \in Nat /\ Len(seqs[s].pages) > Keep(n) /\ Len(seqs[s].pages) > 0
      BY <1>t, <1>2, <1>3, <2>1, PagesOf DEF TruncateRelease
    <3>2. /\ Front(seqs[s].pages) \in Seq(Pages)
          /\ \A i \in 1 .. Len(seqs[s].pages) - 1 : Front(seqs[s].pages)[i] = seqs[s].pages[i]
      BY <1>t, <3>1, PagesOf, LastFront
    <3>3. SetPages(s, Front(seqs[s].pages))
      BY <1>2, <2>1 DEF TruncateRelease
    <3>4. /\ seqs'[s].pages = Front(seqs[s].pages) /\ seqs'[s].state = seqs[s].state
          /\ \A r \in SeqIds : r # s => seqs'[r] = seqs[r]
      BY <1>t, <3>2, <3>3, SetPagesFacts
    <3>5. \A i \in 1 .. Keep(n) : i \in 1 .. Len(seqs[s].pages) - 1
      BY <1>3, <3>1
    <3>6. Ready(s)' /\ Truncates(t, s)' /\ goal'[t] = n
      BY <1>2, <1>3, <2>1, <3>4 DEF Ready, Truncates, TruncateRelease
    <3>7. VisiblePosition(s)' = n
      BY <1>t, <3>6 DEF VisibleFacts
    <3>8. \A r \in SeqIds : r # s => ~Truncates(t, r) /\ ~Truncates(t, r)'
      BY <1>2, <2>1 DEF Truncates, TruncateRelease
    <3> QED BY <3>2, <3>4, <3>5, <3>6, <3>7, <3>8
  <2>2. CASE TruncateEnd(t)
    <3>1. /\ seqs'[s].pages = seqs[s].pages /\ seqs'[s].state = seqs[s].state /\ seqs'[s].position = n
          /\ \A r \in SeqIds : r # s => seqs'[r] = seqs[r]
      BY <1>t, <1>2, <1>3, <2>2 DEF TruncateEnd, TypeOK
    <3>2. pc'[t] = "idle" /\ Ready(s)'
      BY <1>t, <1>2, <2>2, <3>1 DEF TruncateEnd, Go, Ready, TypeOK
    <3>3. \A u \in Threads : Truncates(u, s) => u = t
      BY <1>t, <1>2 DEF Truncates, Shape, Alone, Writes
    <3>4. \A u \in Threads : ~Truncates(u, s)'
      BY <1>t, <3>2, <3>3 DEF Truncates, Setting, Quiet
    <3>5. VisiblePosition(s)' = n
      BY <1>t, <3>1, <3>2, <3>4 DEF VisibleFacts
    <3>6. \A r \in SeqIds : r # s => ~Truncates(t, r) /\ ~Truncates(t, r)'
      BY <1>2, <3>2 DEF Truncates
    <3> QED BY <3>1, <3>2, <3>5, <3>6
  <2> QED BY <2>1, <2>2
<1>5. \A r \in SeqIds : r # s => Content'[r] = Content[r]
  BY <1>t, <1>1, <1>4, OthersRead
<1>6. \A i \in 1 .. n : TokenAt(s, i)' = TokenAt(s, i)
  <2> SUFFICES ASSUME NEW i \in 1 .. n PROVE TokenAt(s, i)' = TokenAt(s, i)
    OBVIOUS
  <2>1. PageOf(i) \in 1 .. Keep(n)
    BY TokenPlace
  <2>2. PICK k : k = PageOf(i) /\ seqs'[s].pages[k] = seqs[s].pages[k]
    BY <1>4, <2>1
  <2> QED BY <1>1, <2>2 DEF TokenAt, PageOf, SlotOf
<1>7. Content'[s] = Content[s]
  BY <1>2, <1>3, <1>4, <1>6, ContentKept
<1> QED BY <1>5, <1>7, ContentSame

\* A call on one sequence has nothing to roll back.
LEMMA SequenceKept ==
  ASSUME NEW t \in Threads, Ground(t), SequenceCall(t) \/ SequenceRun(t) \/ StepCall(t)
  PROVE  KeptThread(t)'
<1>t. TypeOK /\ Shape /\ TypeOK'
  BY DEF Ground, Setting
<1>1. ~InStep(t) /\ replaced' = replaced
  <2>1. CASE SequenceCall(t)
    BY <2>1 DEF SequenceCall, NewSequence, DestroyBegin, ForkBegin, TruncateBegin, stepVars, InStep, StepPcs
  <2>2. CASE StepCall(t)
    BY <2>2 DEF StepCall, StepRefused, StepEnter, vars, InStep, StepPcs
  <2>3. CASE SequenceRun(t)
    BY <2>3 DEF SequenceRun, ForkRetain, ForkEnd, DestroyRelease, DestroyEnd, TruncateRelease,
                TruncateEnd, stepVars, InStep, StepPcs
  <2> QED BY <2>1, <2>2, <2>3
<1>2. replaced[t] = <<>>
  BY <1>t, <1>1, ShapeThread DEF ThreadShape, OutsideStep
<1>3. pc'[t] # "commit"
  <2>1. CASE SequenceCall(t)
    BY <1>t, <1>1, <2>1 DEF SequenceCall, NewSequence, DestroyBegin, ForkBegin, TruncateBegin, Go, TypeOK, InStep, StepPcs
  <2>2. CASE StepCall(t)
    BY <1>t, <1>1, <2>2 DEF StepCall, StepRefused, StepEnter, vars, Go, TypeOK, InStep, StepPcs
  <2>3. CASE SequenceRun(t)
    BY <1>t, <1>1, <2>3 DEF SequenceRun, ForkRetain, ForkEnd, DestroyRelease, DestroyEnd, TruncateRelease,
                TruncateEnd, Go, TypeOK, InStep, StepPcs
  <2> QED BY <2>1, <2>2, <2>3
<1> QED BY <1>1, <1>2, <1>3, OutsideNow

LEMMA SequenceRefines ==
  ASSUME NEW t \in Threads, Ground(t), SequenceCall(t) \/ SequenceRun(t) \/ StepCall(t)
  PROVE  Content' = Content \/ Private!KvNext
<1>t. Setting(t) /\ TypeOK /\ Shape /\ VisibleFacts /\ VisibleFacts' /\ TypeOK'
  BY DEF Ground, Setting
<1>1. ASSUME NEW s \in SeqIds, NEW c \in SeqIds, ForkBegin(t, s, c) PROVE Content' = Content
  <2>1. /\ ~Ready(c) /\ ~Ready(c)' /\ kv' = kv /\ pc[t] = "idle" /\ pc'[t] = "fork"
        /\ \A r \in SeqIds : r # c => seqs'[r] = seqs[r]
    BY <1>1, <1>t DEF ForkBegin, Ready, TypeOK, Go
  <2> QED BY <1>t, <2>1, HiddenStutters
<1>2. CASE SequenceCall(t)
  BY <1>1, <1>2, NewSequenceRefines, DestroyBeginRefines, TruncateBeginRefines DEF SequenceCall
<1>3. CASE StepCall(t)
  <2>1. seqs' = seqs /\ kv' = kv /\ pc[t] = "idle" /\ pc'[t] # "truncate"
    BY <1>3, <1>t DEF StepCall, StepRefused, StepEnter, vars, Go, TypeOK
  <2> QED BY <1>t, <2>1, SameSeqs
<1>4. CASE ForkRetain(t)
  <2>1. PICK c \in SeqIds : c = child[t] /\ seqs[c].state = "building"
    BY <1>t, <1>4, ShapeThread DEF ThreadShape, ForkShape, ForkRetain
  <2>2. /\ ~Ready(c) /\ ~Ready(c)' /\ kv' = kv /\ pc[t] = "fork" /\ pc'[t] = "fork"
        /\ \A r \in SeqIds : r # c => seqs'[r] = seqs[r]
    BY <1>4, <1>t, <2>1 DEF ForkRetain, Ready, TypeOK
  <2> QED BY <1>t, <2>2, HiddenStutters
<1>5. CASE DestroyRelease(t) \/ DestroyEnd(t)
  <2>1. PICK c \in SeqIds : c = tgt[t] /\ seqs[c].state = "dying"
    BY <1>t, <1>5, ShapeThread DEF ThreadShape, DestroyShape, DestroyRelease, DestroyEnd
  <2>2. /\ ~Ready(c) /\ ~Ready(c)' /\ kv' = kv /\ pc[t] = "destroy" /\ pc'[t] # "truncate"
        /\ \A r \in SeqIds : r # c => seqs'[r] = seqs[r]
    <3>1. CASE DestroyRelease(t)
      BY <1>t, <2>1, <3>1 DEF DestroyRelease, SetPages, Ready, TypeOK
    <3>2. CASE DestroyEnd(t)
      BY <1>t, <2>1, <3>2 DEF DestroyEnd, Ready, TypeOK, Go, DeadSeq
    <3> QED BY <1>5, <3>1, <3>2
  <2> QED BY <1>t, <2>2, HiddenStutters
<1> QED BY <1>2, <1>3, <1>4, <1>5, ForkEndRefines, TruncateRefines DEF SequenceRun

-----------------------------------------------------------------------------
(***************************************************************************)
(* The step: no page it writes is read by anybody else, and what it takes  *)
(* out of a table holds what the table showed.                             *)
(***************************************************************************)
LEMMA MemberVisible ==
  ASSUME TypeOK, Shape, VisibleFacts, NEW t \in Threads, InStep(t), NEW s \in Members(t)
  PROVE  /\ s \in SeqIds /\ Ready(s) /\ VisiblePosition(s) = seqs[s].position
         /\ seqs[s].position \in Nat /\ seqs[s].position \in 0 .. Context - 1
<1>1. PICK b \in 1 .. Len(batch[t]) : s = batch[t][b]
  BY DEF Members
<1>2. s \in SeqIds /\ Ready(s) /\ seqs[s].position \in 0 .. Context - 1
  BY <1>1, ShapeThread, MemberFacts DEF Ready
<1>3. ASSUME NEW u \in Threads, Truncates(u, s) PROVE FALSE
  <2>1. Writes(u, s) /\ Writes(t, s)
    BY <1>3 DEF Writes, Truncates
  <2>2. u = t
    BY <1>2, <2>1 DEF Shape, Alone
  <2> QED BY <1>3, <2>2 DEF Truncates, InStep, StepPcs
<1> QED BY <1>2, <1>3, RuntimeAssumption DEF VisibleFacts

LEMMA PrefixKept ==
  ASSUME NEW t \in Threads, KeptPrefix(t), TypeOK, Shape, InStep(t),
         replaced'[t] = replaced[t], kv' = kv,
         \A s \in Members(t) : seqs'[s].position = seqs[s].position
  PROVE  KeptPrefix(t)'
<1>1. \A i \in 1 .. Len(replaced[t]) : replaced[t][i][1] \in Members(t)
  BY InStepShape DEF StepTables, StepReplaced
<1> QED BY <1>1 DEF KeptPrefix

\* Outside the loop that applies the pages, and before the commit.
LEMMA UnwindingKept ==
  ASSUME NEW t \in Threads, KeptPrefix(t)', pc'[t] \in {"unwind", "restore"}
  PROVE  KeptThread(t)'
BY DEF KeptThread, KeptApart, KeptStored

LEMMA NothingMovesKept ==
  ASSUME NEW t \in Threads, Ground(t),
         \/ StepNeeds(t) \/ StepAlloc(t) \/ CopyFails(t)
         \/ UnwindFresh(t) \/ RollbackRelease(t) \/ StepThrow(t)
  PROVE  KeptThread(t)' /\ Content' = Content
<1>t. Setting(t) /\ TypeOK /\ Shape /\ VisibleFacts /\ VisibleFacts' /\ TypeOK' /\ KeptThread(t)
  BY DEF Ground, Setting, Kept
<1>0. kv' = kv /\ seqs' = seqs /\ InStep(t) /\ pc[t] # "truncate"
  BY DEF StepNeeds, StepAlloc, CopyFails, UnwindFresh, RollbackRelease, StepThrow, InStep, StepPcs
<1>1. CASE StepNeeds(t)
  <2>1. replaced'[t] = <<>> /\ pc'[t] \in {"needs", "alloc"}
    BY <1>t, <1>0, <1>1, InStepShape DEF StepNeeds, StepPlan, Go, TypeOK
  <2> QED BY <1>t, <1>0, <2>1, OutsideNow, SameSeqs
<1>2. CASE StepAlloc(t)
  <2>1. replaced'[t] = <<>> /\ pc'[t] \in {"apply", "idle"}
    BY <1>t, <1>0, <1>2, InStepShape DEF StepAlloc, StepPlan, Leave, Go, TypeOK
  <2> QED BY <1>t, <1>0, <2>1, OutsideNow, SameSeqs
<1>3. CASE CopyFails(t) \/ UnwindFresh(t)
  <2>1. replaced' = replaced /\ pc'[t] = "unwind"
    BY <1>t, <1>3 DEF CopyFails, UnwindFresh, Go, TypeOK
  <2> QED BY <1>t, <1>0, <2>1, PrefixKept, UnwindingKept, SameSeqs DEF KeptThread
<1>4. CASE RollbackRelease(t)
  <2>1. pc[t] = "restore" /\ pc'[t] = "unwind" /\ replaced' = [replaced EXCEPT ![t] = Tail(@)]
    BY <1>t, <1>4 DEF RollbackRelease, Go, TypeOK
  <2>2. replaced[t] # <<>>
    BY <1>t, <1>0, <2>1, InStepShape DEF StepTables, StepPhase
  <2>3. /\ Len(replaced'[t]) = Len(replaced[t]) - 1 /\ Len(replaced[t]) \in Nat
        /\ \A i \in 1 .. Len(replaced[t]) - 1 : replaced'[t][i] = replaced[t][i + 1]
    <3>1. replaced \in [Threads -> Seq(SeqIds \X Pages \X Pages)]
      BY <1>t DEF TypeOK
    <3> QED BY <1>t, <2>1, <2>2, <3>1, TailIn, MembersIn
  <2>4. \A i \in 1 .. Len(replaced[t]) - 1 : i + 1 \in 1 .. Len(replaced[t])
    BY <2>3
  <2>5. KeptPrefix(t)'
    <3> SUFFICES ASSUME NEW i \in 1 .. Len(replaced[t]) - 1, NEW j \in Slots,
                        j < seqs[replaced'[t][i][1]].position % PageTokens
                 PROVE  kv[replaced'[t][i][2]][j] = kv[replaced'[t][i][3]][j]
      BY <1>0, <2>3 DEF KeptPrefix
    <3>1. PICK k \in 1 .. Len(replaced[t]) : replaced'[t][i] = replaced[t][k]
      BY <2>3, <2>4
    <3> QED BY <1>t, <3>1 DEF KeptThread, KeptPrefix
  <2> QED BY <1>t, <1>0, <2>1, <2>5, UnwindingKept, SameSeqs
<1>5. CASE StepThrow(t)
  <2>1. replaced'[t] = <<>> /\ pc'[t] = "idle"
    BY <1>t, <1>5 DEF StepThrow, Leave, Go, TypeOK
  <2> QED BY <1>t, <1>0, <2>1, OutsideNow, SameSeqs
<1> QED BY <1>1, <1>2, <1>3, <1>4, <1>5

\* The settled members after one more of them has been served.
LEMMA OneMoreSettled ==
  ASSUME TypeOK, Shape, NEW t \in Threads, pc[t] = "apply", NextMember(t), needs' = needs,
         NEW b \in 1 .. Len(needs[t]), SettledMember(t, b)'
  PROVE  SettledMember(t, b) \/ b = at[t]
<1>1. /\ \/ at[t] < Len(batch[t]) /\ at'[t] = at[t] + 1 /\ pc'[t] = "apply"
         \/ at[t] = Len(batch[t]) /\ at'[t] = 1 /\ pc'[t] = "kernel"
  BY ShapeThread, NextMemberFacts
<1>2. at[t] \in Nat /\ Len(batch[t]) \in Nat /\ Len(needs[t]) = Len(batch[t]) /\ InStep(t)
  BY InStepShape, MembersIn DEF InStep, StepPcs, StepPlan
<1> QED BY <1>1, <1>2 DEF SettledMember

LEMMA AppliedNow ==
  ASSUME TypeOK, Shape, NEW t \in Threads, pc[t] = "apply", NextMember(t)
  PROVE  /\ pc'[t] \in {"apply", "kernel"} /\ InStep(t) /\ at[t] \in 1 .. Len(batch[t])
         /\ at[t] \in 1 .. Len(needs[t]) /\ Len(needs[t]) = Len(batch[t])
         /\ next[t] \in Nat /\ Len(fresh[t]) \in Nat
<1>1. InStep(t) /\ StepArgs(t) /\ StepPlan(t) /\ ThreadShape(t)
  BY InStepShape DEF InStep, StepPcs
<1> QED BY <1>1, NextMemberFacts, MembersIn DEF StepArgs, StepPlan

LEMMA ApplyNoneKept ==
  ASSUME NEW t \in Threads, Ground(t), ApplyNone(t)
  PROVE  KeptThread(t)' /\ Content' = Content
<1>t. Setting(t) /\ TypeOK /\ Shape /\ VisibleFacts /\ VisibleFacts' /\ TypeOK' /\ KeptThread(t)
  BY DEF Ground, Setting, Kept
<1>0. /\ kv' = kv /\ seqs' = seqs /\ pc[t] = "apply" /\ NextMember(t) /\ needs[t][at[t]] = "none"
      /\ UNCHANGED <<batch, toks, needs, fresh, next, appended, replaced>>
  BY DEF ApplyNone, stepVars
<1>1. pc'[t] \in {"apply", "kernel"} /\ InStep(t)
  BY <1>t, <1>0, AppliedNow
<1>2. KeptPrefix(t)'
  BY <1>t, <1>0, <1>1, PrefixKept DEF KeptThread
<1>3. \A b \in 1 .. Len(needs[t]) : SettledMember(t, b)' => SettledMember(t, b)
  BY <1>t, <1>0, OneMoreSettled DEF SettledMember
<1>4. KeptApart(t)'
  BY <1>t, <1>0, <1>1, <1>3 DEF KeptThread, KeptApart
<1>5. KeptStored(t)'
  BY <1>1 DEF KeptStored
<1> QED BY <1>t, <1>0, <1>1, <1>2, <1>4, <1>5, SameSeqs DEF KeptThread

\* One table changes, and not where it is read.
LEMMA TableRefines ==
  ASSUME NEW t \in Threads, Setting(t), VisibleFacts, VisibleFacts', kv' = kv,
         NEW s \in SeqIds, NEW q \in Seq(Pages), SetPages(s, q),
         pc[t] # "truncate", pc'[t] # "truncate",
         Ready(s) => \A i \in 1 .. Keep(VisiblePosition(s)) : q[i] = seqs[s].pages[i]
  PROVE  Content' = Content
<1>t. TypeOK
  BY DEF Setting
<1>1. /\ seqs'[s].pages = q /\ seqs'[s].state = seqs[s].state /\ seqs'[s].position = seqs[s].position
      /\ \A r \in SeqIds : r # s => seqs'[r] = seqs[r]
  BY <1>t, SetPagesFacts
<1>2. \A r \in SeqIds : r # s => Content'[r] = Content[r]
  BY <1>1, OthersRead DEF Truncates
<1>3. Content'[s] = Content[s]
  BY <1>1, SameReads DEF Truncates
<1> QED BY <1>2, <1>3, ContentSame

\* A page that a step has taken and not placed is in no table.
LEMMA UnlistedFresh ==
  ASSUME TypeOK, Counted, NEW t \in Threads, SettledThread(t), pc[t] = "apply",
         NEW j \in next[t] + 1 .. Len(fresh[t]), NEW s \in SeqIds, NEW i \in 1 .. Len(seqs[s].pages)
  PROVE  seqs[s].pages[i] # fresh[t][j]
<1>1. refs[fresh[t][j]] = 1
  BY DEF SettledThread
<1>2. PICK p \in Pages : p = seqs[s].pages[i]
  BY PagesOf
<1>3. fresh[t][j] = p => refs[p] >= 2
  BY <1>2, ListedAndUntaken
<1> QED BY <1>1, <1>2, <1>3

\* The entries a step has exchanged, when it places the next of its pages in the
\* table of the member it serves: neither that page nor what was settled is one
\* of the pages exchanged earlier.
Placing(t) ==
    /\ pc[t] = "apply" /\ NextMember(t) /\ needs[t][at[t]] # "none"
    /\ needs' = needs /\ batch' = batch /\ fresh' = fresh /\ next'[t] = next[t] + 1
    /\ batch[t][at[t]] \in SeqIds
    /\ Last(seqs'[batch[t][at[t]]].pages) = fresh[t][next[t] + 1]
    /\ \A r \in SeqIds : r # batch[t][at[t]] => seqs'[r] = seqs[r]

LEMMA PlacedApart ==
  ASSUME NEW t \in Threads, Ground(t), Placing(t),
         NEW p, \A k \in next[t] + 1 .. Len(fresh[t]) : fresh[t][k] # p,
         \A b \in 1 .. Len(needs[t]) : SettledMember(t, b) /\ b # at[t] =>
             Last(seqs[batch[t][b]].pages) # p
  PROVE  /\ \A k \in next'[t] + 1 .. Len(fresh'[t]) : fresh'[t][k] # p
         /\ \A b \in 1 .. Len(needs'[t]) :
              SettledMember(t, b)' => Last(seqs'[batch'[t][b]].pages) # p
<1>t. /\ TypeOK /\ Shape
      /\ pc[t] = "apply" /\ NextMember(t) /\ needs[t][at[t]] # "none"
      /\ needs' = needs /\ batch' = batch /\ fresh' = fresh /\ next'[t] = next[t] + 1
  BY DEF Ground, Setting, Placing
<1>s. PICK s \in SeqIds : /\ s = batch[t][at[t]] /\ Last(seqs'[s].pages) = fresh[t][next[t] + 1]
                          /\ \A r \in SeqIds : r # s => seqs'[r] = seqs[r]
  BY DEF Placing
<1>1. /\ InStep(t) /\ at[t] \in 1 .. Len(batch[t]) /\ Len(needs[t]) = Len(batch[t])
      /\ next[t] \in Nat /\ Len(fresh[t]) \in Nat
  BY <1>t, AppliedNow
<1>2. next[t] + 1 \in next[t] + 1 .. Len(fresh[t])
  BY <1>t, <1>1, ShapeThread, FreshPage
<1>3. \A k \in next'[t] + 1 .. Len(fresh'[t]) : k \in next[t] + 1 .. Len(fresh[t])
  BY <1>t, <1>1
<1>4. ASSUME NEW b \in 1 .. Len(needs[t]), SettledMember(t, b)'
      PROVE  Last(seqs'[batch[t][b]].pages) # p
  <2>1. CASE b = at[t]
    BY <1>s, <1>2, <2>1
  <2>2. CASE b # at[t]
    <3>1. SettledMember(t, b)
      BY <1>t, <1>4, <2>2, OneMoreSettled
    <3>2. batch[t][b] \in SeqIds /\ batch[t][b] # s
      BY <1>t, <1>s, <1>1, <2>2, InStepShape, MembersIn DEF StepArgs
    <3> QED BY <1>s, <2>2, <3>1, <3>2
  <2> QED BY <2>1, <2>2
<1> QED BY <1>t, <1>3, <1>4

LEMMA ApplyNewKept ==
  ASSUME NEW t \in Threads, Ground(t), ApplyNew(t)
  PROVE  KeptThread(t)' /\ Content' = Content
<1>t. Setting(t) /\ TypeOK /\ Shape /\ VisibleFacts /\ VisibleFacts' /\ TypeOK' /\ KeptThread(t)
  BY DEF Ground, Setting, Kept
<1>0. /\ kv' = kv /\ pc[t] = "apply" /\ NextMember(t) /\ needs[t][at[t]] = "new" /\ next'[t] = next[t] + 1
      /\ UNCHANGED <<batch, toks, needs, fresh, replaced>>
  BY <1>t DEF ApplyNew, Bump, TypeOK
<1>1. /\ pc'[t] \in {"apply", "kernel"} /\ InStep(t) /\ at[t] \in 1 .. Len(batch[t])
  BY <1>t, <1>0, AppliedNow
<1>2. PICK s \in SeqIds : s = batch[t][at[t]]
  BY <1>t, <1>1, MembersIn
<1>3. PICK page \in Pages : page = fresh[t][next[t] + 1]
  BY <1>t, <1>0, ShapeThread, FreshPage
<1>4. PICK q \in Seq(Pages) : q = seqs[s].pages
  BY <1>t, PagesOf
<1>p. PICK new : new = Append(q, page)
  OBVIOUS
<1>5. /\ new \in Seq(Pages) /\ Len(new) = Len(q) + 1 /\ Len(q) \in Nat
      /\ Last(new) = page /\ new[Len(q) + 1] = page
      /\ \A i \in 1 .. Len(q) : new[i] = q[i]
  <2>1. /\ Append(q, page) \in Seq(Pages) /\ Len(Append(q, page)) = Len(q) + 1 /\ Len(q) \in Nat
        /\ Append(q, page)[Len(q) + 1] = page /\ \A i \in 1 .. Len(q) : Append(q, page)[i] = q[i]
    OBVIOUS
  <2> QED BY <1>p, <2>1 DEF Last
<1>6. SetPages(s, new)
  BY <1>2, <1>3, <1>4, <1>p DEF ApplyNew
<1>7. /\ seqs'[s].pages = new /\ \A r \in SeqIds : r # s => seqs'[r] = seqs[r]
      /\ seqs'[s].position = seqs[s].position
  BY <1>t, <1>5, <1>6, SetPagesFacts
<1>8. KeptPrefix(t)'
  <2>1. \A r \in Members(t) : seqs'[r].position = seqs[r].position
    BY <1>t, <1>7, MembersIn
  <2> QED BY <1>t, <1>0, <1>1, <2>1, PrefixKept DEF KeptThread
<1>9. KeptApart(t)'
  <2> SUFFICES ASSUME NEW i \in 1 .. Len(replaced[t]), NEW p, p = replaced[t][i][2]
               PROVE  /\ \A k \in next'[t] + 1 .. Len(fresh'[t]) : fresh'[t][k] # p
                      /\ \A b \in 1 .. Len(needs'[t]) :
                           SettledMember(t, b)' => Last(seqs'[batch'[t][b]].pages) # p
    BY <1>0 DEF KeptApart
  <2>1. /\ \A k \in next[t] + 1 .. Len(fresh[t]) : fresh[t][k] # p
        /\ \A b \in 1 .. Len(needs[t]) : SettledMember(t, b) => Last(seqs[batch[t][b]].pages) # p
    BY <1>t, <1>0 DEF KeptThread, KeptApart
  <2>2. \A b \in 1 .. Len(needs[t]) : SettledMember(t, b) /\ b # at[t] => Last(seqs[batch[t][b]].pages) # p
    BY <2>1
  <2>3. Placing(t)
    BY <1>0, <1>2, <1>3, <1>5, <1>7 DEF Placing
  <2> QED BY <2>1, <2>2, <2>3, PlacedApart
<1>10. KeptStored(t)'
  BY <1>1 DEF KeptStored
<1>11. Content' = Content
  <2>1. ASSUME Ready(s), NEW i \in 1 .. Keep(VisiblePosition(s)) PROVE new[i] = seqs[s].pages[i]
    <3>1. VisiblePosition(s) \in Nat /\ Keep(VisiblePosition(s)) <= Len(q)
      BY <1>t, <1>4, <2>1, RuntimeAssumption DEF VisibleFacts
    <3>2. Keep(VisiblePosition(s)) \in Nat
      BY <3>1, KeepNat
    <3>3. i \in 1 .. Len(q)
      BY <1>5, <2>1, <3>1, <3>2
    <3> QED BY <1>4, <1>5, <3>3
  <2> QED BY <1>t, <1>0, <1>1, <1>5, <1>6, <2>1, TableRefines
<1> QED BY <1>8, <1>9, <1>10, <1>11 DEF KeptThread

LEMMA RollbackAppendedKept ==
  ASSUME NEW t \in Threads, Ground(t), RollbackAppended(t)
  PROVE  KeptThread(t)' /\ Content' = Content
<1>t. Setting(t) /\ TypeOK /\ Shape /\ VisibleFacts /\ VisibleFacts' /\ TypeOK' /\ KeptThread(t)
  BY DEF Ground, Setting, Kept
<1>0. /\ kv' = kv /\ pc[t] = "unwind" /\ pc'[t] = "unwind" /\ InStep(t) /\ replaced' = replaced
      /\ appended[t] # <<>>
  BY <1>t DEF RollbackAppended, InStep, StepPcs
<1>1. PICK s \in SeqIds : s = Head(appended[t])[1] /\ s \in Members(t) /\ Len(seqs[s].pages) > 0
  BY <1>t, <1>0, ShapeThread, AppendedFacts
<1>2. PICK q \in Seq(Pages) : q = Front(seqs[s].pages)
  BY <1>t, <1>1, PagesOf, LastFront
<1>3. /\ SetPages(s, q) /\ Len(seqs[s].pages) \in Nat /\ Len(q) = Len(seqs[s].pages) - 1
      /\ \A i \in 1 .. Len(seqs[s].pages) - 1 : q[i] = seqs[s].pages[i]
  BY <1>t, <1>1, <1>2, PagesOf, LastFront DEF RollbackAppended
<1>4. /\ seqs'[s].pages = q /\ \A r \in SeqIds : r # s => seqs'[r] = seqs[r]
      /\ seqs'[s].position = seqs[s].position /\ seqs'[s].state = seqs[s].state
  BY <1>t, <1>3, SetPagesFacts
<1>5. KeptPrefix(t)'
  <2>1. \A r \in Members(t) : seqs'[r].position = seqs[r].position
    BY <1>t, <1>4, MembersIn
  <2> QED BY <1>t, <1>0, <2>1, PrefixKept DEF KeptThread
<1>6. Ready(s) /\ Ready(s)' /\ ~Truncates(t, s) /\ ~Truncates(t, s)'
  BY <1>t, <1>0, <1>1, <1>4, MemberVisible DEF Ready, Truncates
<1>7. VisiblePosition(s)' = VisiblePosition(s) /\ VisiblePosition(s) \in Nat
  BY <1>t, <1>4, <1>6, VisibleSame, RuntimeAssumption DEF VisibleFacts
<1>8. Keep(VisiblePosition(s)) <= Len(q) /\ Keep(VisiblePosition(s)) \in Nat
  <2>1. Keep(VisiblePosition(s)') <= Len(seqs'[s].pages)
    BY <1>t, <1>6 DEF VisibleFacts, Keep
  <2> QED BY <1>4, <1>7, <2>1, KeepNat
<1>9. \A i \in 1 .. Keep(VisiblePosition(s)) : q[i] = seqs[s].pages[i]
  BY <1>3, <1>8
<1>10. Content' = Content
  BY <1>t, <1>0, <1>3, <1>9, TableRefines
<1> QED BY <1>0, <1>5, <1>10, UnwindingKept

\* The member serves its old page again: it shows what the copy showed.
LEMMA RollbackRetainKept ==
  ASSUME NEW t \in Threads, Ground(t), RollbackRetain(t)
  PROVE  KeptThread(t)' /\ Content' = Content
<1>t. Setting(t) /\ TypeOK /\ Shape /\ VisibleFacts /\ VisibleFacts' /\ TypeOK' /\ KeptThread(t)
  BY DEF Ground, Setting, Kept
<1>0. /\ kv' = kv /\ pc[t] = "unwind" /\ InStep(t) /\ replaced[t] # <<>> /\ appended[t] = <<>>
      /\ \/ pc'[t] = "restore" /\ replaced' = replaced
         \/ pc'[t] = "idle" /\ replaced'[t] = <<>>
  BY <1>t, ZenonT(60) DEF RollbackRetain, InStep, StepPcs, Go, Leave, stepVars, TypeOK
<1>1. PICK s \in SeqIds, old \in Pages, page \in Pages :
        /\ s = replaced[t][1][1] /\ old = replaced[t][1][2] /\ page = replaced[t][1][3]
        /\ Head(replaced[t]) = replaced[t][1] /\ s \in Members(t) /\ Len(seqs[s].pages) > 0
        /\ Last(seqs[s].pages) = page /\ 1 \in 1 .. Len(replaced[t])
  <2>1. Len(replaced[t]) \in Nat /\ Len(replaced[t]) >= 1
    BY <1>t, <1>0, ShapeThread, ReplacedFacts, MembersIn
  <2> QED BY <1>t, <1>0, <2>1, ShapeThread, ReplacedFacts
<1>2. PICK front \in Seq(Pages) :
        /\ front = Front(seqs[s].pages) /\ Len(front) = Len(seqs[s].pages) - 1
        /\ \A i \in 1 .. Len(seqs[s].pages) - 1 : front[i] = seqs[s].pages[i]
  BY <1>t, <1>1, PagesOf, LastFront
<1>p. PICK q : q = Append(front, old)
  OBVIOUS
<1>3. /\ q \in Seq(Pages) /\ Len(q) = Len(front) + 1
      /\ Last(q) = old /\ q[Len(front) + 1] = old
      /\ \A i \in 1 .. Len(front) : q[i] = front[i]
  <2>1. /\ Append(front, old) \in Seq(Pages) /\ Len(Append(front, old)) = Len(front) + 1
        /\ Append(front, old)[Len(front) + 1] = old
        /\ \A i \in 1 .. Len(front) : Append(front, old)[i] = front[i]
    OBVIOUS
  <2> QED BY <1>p, <2>1 DEF Last
<1>4. PICK m \in Nat : m = Len(seqs[s].pages) /\ m > 0 /\ Len(front) = m - 1
  BY <1>t, <1>1, <1>2, PagesOf
<1>5. SetPages(s, q) /\ q[m] = old /\ \A i \in 1 .. m - 1 : q[i] = seqs[s].pages[i]
  <2>1. SetPages(s, q)
    BY <1>1, <1>2, <1>p DEF RollbackRetain
  <2>2. (m - 1) + 1 = m
    OBVIOUS
  <2> QED BY <1>2, <1>3, <1>4, <2>1, <2>2
<1>6. /\ seqs'[s].pages = q /\ \A r \in SeqIds : r # s => seqs'[r] = seqs[r]
      /\ seqs'[s].position = seqs[s].position /\ seqs'[s].state = seqs[s].state
  BY <1>t, <1>3, <1>5, SetPagesFacts
<1>7. KeptThread(t)'
  <2>1. CASE pc'[t] = "restore" /\ replaced' = replaced
    <3>1. \A r \in Members(t) : seqs'[r].position = seqs[r].position
      BY <1>t, <1>6, MembersIn
    <3>2. KeptPrefix(t)'
      BY <1>t, <1>0, <2>1, <3>1, PrefixKept DEF KeptThread
    <3> QED BY <2>1, <3>2, UnwindingKept
  <2>2. CASE pc'[t] = "idle" /\ replaced'[t] = <<>>
    BY <2>2, OutsideNow
  <2> QED BY <1>0, <2>1, <2>2
<1>8. \A r \in SeqIds : r # s => Content'[r] = Content[r]
  BY <1>t, <1>0, <1>6, OthersRead DEF Truncates
<1>9. /\ Ready(s) /\ VisiblePosition(s) = seqs[s].position /\ seqs[s].position \in Nat
      /\ Ready(s)'
  BY <1>t, <1>0, <1>1, <1>6, MemberVisible DEF Ready
<1>10. VisiblePosition(s)' = VisiblePosition(s)
  BY <1>t, <1>0, <1>6, <1>9, VisibleSame DEF Truncates
<1>11. PICK n \in Nat : n = seqs[s].position /\ n % PageTokens # 0 /\ m = n \div PageTokens + 1
                        /\ Keep(n) = m
  <2>1. seqs[s].position % PageTokens # 0
    BY <1>t, <1>0, <1>1, InStepShape DEF StepTables, StepReplaced
  <2>2. PICK b \in 1 .. Len(batch[t]) : s = batch[t][b]
    BY <1>1 DEF Members
  <2>3. Len(seqs[s].pages) = Keep(seqs[s].position) + One(s \in Firsts(appended[t]))
    BY <1>t, <1>0, <2>2, InStepShape DEF StepTables, StepSizes
  <2>4. One(s \in Firsts(appended[t])) = 0
    BY <1>0, FirstsEmpty DEF One
  <2>5. PICK n \in Nat : n = seqs[s].position
    BY <1>9
  <2>6. Keep(n) \in Nat /\ Keep(n) = n \div PageTokens + 1
    BY <2>1, <2>5, KeepNat
  <2>7. m = Keep(n)
    BY <1>4, <2>3, <2>4, <2>5, <2>6
  <2> QED BY <2>1, <2>5, <2>6, <2>7
<1>12. \A i \in 1 .. n : TokenAt(s, i)' = TokenAt(s, i)
  <2> SUFFICES ASSUME NEW i \in 1 .. n PROVE TokenAt(s, i)' = TokenAt(s, i)
    OBVIOUS
  <2>1. PICK k \in 1 .. m, j \in Slots : k = PageOf(i) /\ j = SlotOf(i) /\ (k = m => j < n % PageTokens)
    BY <1>11, TokenPlace
  <2>2. TokenAt(s, i)' = kv[q[k]][j] /\ TokenAt(s, i) = kv[seqs[s].pages[k]][j]
    BY <1>0, <1>6, <2>1 DEF TokenAt, PageOf, SlotOf
  <2>3. CASE k # m
    BY <1>4, <1>5, <2>2, <2>3
  <2>4. CASE k = m
    <3>1. kv[old][j] = kv[page][j]
      BY <1>t, <1>1, <1>11, <2>1, <2>4 DEF KeptThread, KeptPrefix
    <3>2. seqs[s].pages[m] = page
      BY <1>1, <1>4 DEF Last
    <3> QED BY <1>5, <2>2, <2>4, <3>1, <3>2
  <2> QED BY <2>3, <2>4
<1>13. Content'[s] = Content[s]
  BY <1>9, <1>10, <1>11, <1>12, ContentKept
<1> QED BY <1>7, <1>8, <1>13, ContentSame

\* The copy shows what the page it replaces showed, and nobody read the page it
\* was made in.
LEMMA ApplyCowKept ==
  ASSUME NEW t \in Threads, Ground(t), ApplyCow(t)
  PROVE  KeptThread(t)' /\ Content' = Content
<1>t. /\ Setting(t) /\ TypeOK /\ Shape /\ Counted /\ SettledThread(t)
      /\ VisibleFacts /\ VisibleFacts' /\ TypeOK' /\ KeptThread(t)
  BY DEF Ground, Setting, Kept, Settled
<1>0. /\ pc[t] = "apply" /\ NextMember(t) /\ needs[t][at[t]] = "cow" /\ next'[t] = next[t] + 1
      /\ UNCHANGED <<batch, toks, needs, fresh, appended>>
  BY <1>t DEF ApplyCow, Bump, TypeOK
<1>1. /\ pc'[t] \in {"apply", "kernel"} /\ InStep(t) /\ at[t] \in 1 .. Len(batch[t])
      /\ StepTables(t) /\ StepArgs(t) /\ ThreadShape(t)
  BY <1>t, <1>0, AppliedNow, InStepShape
<1>2. PICK s \in SeqIds : s = batch[t][at[t]]
  BY <1>t, <1>1, MembersIn
<1>3. PICK page \in Pages : page = fresh[t][next[t] + 1]
  BY <1>t, <1>0, <1>1, FreshPage
<1>4. PICK pages \in Seq(Pages), m \in Nat : pages = seqs[s].pages /\ m = Len(pages) /\ m > 0
  BY <1>t, <1>0, <1>1, <1>2, CowMember, PagesOf
<1>5. PICK old \in Pages : old = Last(pages) /\ pages[m] = old
  BY <1>4, LastFront
<1>6. PICK front \in Seq(Pages) :
        front = Front(pages) /\ Len(front) = m - 1 /\ \A i \in 1 .. m - 1 : front[i] = pages[i]
  BY <1>4, LastFront
<1>p. PICK new : new = Append(front, page)
  OBVIOUS
<1>7. /\ new \in Seq(Pages) /\ Len(new) = m /\ Last(new) = page /\ new[m] = page
      /\ \A i \in 1 .. m - 1 : new[i] = pages[i]
  <2>1. /\ Append(front, page) \in Seq(Pages) /\ Len(Append(front, page)) = Len(front) + 1
        /\ Append(front, page)[Len(front) + 1] = page
        /\ \A i \in 1 .. Len(front) : Append(front, page)[i] = front[i]
    OBVIOUS
  <2>2. Len(front) + 1 = m
    BY <1>4, <1>6
  <2> QED BY <1>6, <1>p, <2>1, <2>2 DEF Last
<1>8. /\ SetPages(s, new) /\ kv' = [kv EXCEPT ![page] = kv[old]]
      /\ replaced' = [replaced EXCEPT ![t] = Append(@, <<s, old, page>>)]
  BY <1>2, <1>3, <1>4, <1>5, <1>6, <1>p DEF ApplyCow
<1>9. /\ seqs'[s].pages = new /\ \A r \in SeqIds : r # s => seqs'[r] = seqs[r]
      /\ \A r \in SeqIds : seqs'[r].position = seqs[r].position /\ seqs'[r].state = seqs[r].state
  BY <1>t, <1>7, <1>8, SetPagesFacts
<1>u. ASSUME NEW r \in SeqIds, NEW i \in 1 .. Len(seqs[r].pages), NEW k \in next[t] + 1 .. Len(fresh[t])
      PROVE  seqs[r].pages[i] # fresh[t][k]
  BY <1>t, <1>0, UnlistedFresh
<1>k. next[t] + 1 \in next[t] + 1 .. Len(fresh[t])
  BY <1>t, <1>0, <1>1, FreshPage, MembersIn
<1>10. ASSUME NEW r \in SeqIds, NEW i \in 1 .. Len(seqs[r].pages)
       PROVE  seqs[r].pages[i] \in Pages /\ seqs[r].pages[i] # page /\ kv'[seqs[r].pages[i]] = kv[seqs[r].pages[i]]
  <2>1. seqs[r].pages[i] \in Pages
    BY <1>t, PagesOf
  <2>2. seqs[r].pages[i] # page
    BY <1>3, <1>k, <1>u
  <2> QED BY <1>t, <1>8, <2>1, <2>2 DEF TypeOK
<1>11. /\ kv'[page] = kv[old] /\ kv'[old] = kv[old] /\ old # page
       /\ \A p \in Pages : p # page => kv'[p] = kv[p]
  <2>1. kv'[page] = kv[old] /\ \A p \in Pages : p # page => kv'[p] = kv[p]
    BY <1>t, <1>8 DEF TypeOK
  <2>2. m \in 1 .. Len(seqs[s].pages)
    BY <1>4
  <2> QED BY <1>4, <1>5, <1>10, <2>1, <2>2
<1>e. /\ Len(replaced'[t]) = Len(replaced[t]) + 1 /\ Len(replaced[t]) \in Nat
      /\ \A i \in 1 .. Len(replaced[t]) : replaced'[t][i] = replaced[t][i]
      /\ replaced'[t][Len(replaced[t]) + 1] = <<s, old, page>>
  <2>1. PICK q \in Seq(SeqIds \X Pages \X Pages) : q = replaced[t]
    BY <1>t DEF TypeOK
  <2>2. replaced'[t] = Append(q, <<s, old, page>>)
    BY <1>t, <1>8, <2>1 DEF TypeOK
  <2> QED BY <2>1, <2>2
<1>12. ASSUME NEW i \in 1 .. Len(replaced[t])
       PROVE  /\ replaced[t][i][1] \in SeqIds
              /\ replaced[t][i][2] \in Pages /\ kv'[replaced[t][i][2]] = kv[replaced[t][i][2]]
              /\ kv'[replaced[t][i][3]] = kv[replaced[t][i][3]]
  <2>1. PICK r \in SeqIds, x \in Pages, y \in Pages : replaced[t][i] = <<r, x, y>>
    <3>1. replaced[t] \in Seq(SeqIds \X Pages \X Pages)
      BY <1>t DEF TypeOK
    <3>2. PICK e \in SeqIds \X Pages \X Pages : e = replaced[t][i]
      BY <3>1
    <3> QED BY <3>2
  <2>2. r \in Members(t) /\ Last(seqs[r].pages) = y /\ seqs[r].position % PageTokens # 0
    BY <1>0, <1>1, <2>1 DEF StepTables, StepReplaced
  <2>3. Len(seqs[r].pages) > 0
    BY <1>t, <1>1, <2>2, MemberFacts DEF Members
  <2>4. PICK k \in 1 .. Len(seqs[r].pages) : seqs[r].pages[k] = y
    BY <1>t, <2>2, <2>3, FrontPage
  <2>5. kv'[y] = kv[y]
    BY <1>10, <2>4
  <2>6. x # page
    BY <1>t, <1>0, <1>3, <1>k, <2>1 DEF KeptThread, KeptApart
  <2> QED BY <1>11, <2>1, <2>5, <2>6
<1>13. KeptPrefix(t)'
  <2> SUFFICES ASSUME NEW i \in 1 .. Len(replaced[t]) + 1, NEW j \in Slots,
                      j < seqs'[replaced'[t][i][1]].position % PageTokens
               PROVE  kv'[replaced'[t][i][2]][j] = kv'[replaced'[t][i][3]][j]
    BY <1>e DEF KeptPrefix
  <2>1. CASE i = Len(replaced[t]) + 1
    BY <1>11, <1>e, <2>1
  <2>2. CASE i # Len(replaced[t]) + 1
    <3>1. i \in 1 .. Len(replaced[t])
      BY <1>e, <2>2
    <3>2. replaced'[t][i] = replaced[t][i] /\ j < seqs[replaced[t][i][1]].position % PageTokens
      BY <1>9, <1>12, <1>e, <3>1
    <3>3. kv[replaced[t][i][2]][j] = kv[replaced[t][i][3]][j]
      BY <1>t, <3>1, <3>2 DEF KeptThread, KeptPrefix
    <3> QED BY <1>12, <3>1, <3>2, <3>3
  <2> QED BY <2>1, <2>2
<1>14. Placing(t)
  BY <1>0, <1>2, <1>3, <1>7, <1>9 DEF Placing
<1>15. KeptApart(t)'
  <2> SUFFICES ASSUME NEW i \in 1 .. Len(replaced[t]) + 1, NEW p, p = replaced'[t][i][2]
               PROVE  /\ \A k \in next'[t] + 1 .. Len(fresh'[t]) : fresh'[t][k] # p
                      /\ \A b \in 1 .. Len(needs'[t]) :
                           SettledMember(t, b)' => Last(seqs'[batch'[t][b]].pages) # p
    BY <1>e DEF KeptApart
  <2>1. CASE i = Len(replaced[t]) + 1
    <3>1. p = old
      BY <1>e, <2>1
    <3>2. \A k \in next[t] + 1 .. Len(fresh[t]) : fresh[t][k] # old
      <4>1. m \in 1 .. Len(seqs[s].pages)
        BY <1>4
      <4> QED BY <1>4, <1>5, <1>u, <4>1
    <3>3. ASSUME NEW b \in 1 .. Len(needs[t]), SettledMember(t, b), b # at[t]
          PROVE  Last(seqs[batch[t][b]].pages) # old
      <4>1. PICK r \in SeqIds : r = batch[t][b] /\ b \in 1 .. Len(batch[t])
        BY <1>t, <1>0, <3>3, SettledPage
      <4>2. PICK j \in 1 .. Len(seqs[r].pages) : seqs[r].pages[j] = Last(seqs[r].pages)
        BY <1>t, <1>0, <3>3, <4>1, SettledPage
      <4>3. r # s
        BY <1>1, <1>2, <3>3, <4>1 DEF StepArgs
      <4>4. refs[Last(seqs[r].pages)] = 1
        BY <1>t, <1>0, <3>3, <4>1 DEF SettledThread
      <4>5. PICK k \in 1 .. Len(seqs[s].pages) : seqs[s].pages[k] = old
        BY <1>4, <1>5, SMTT(30)
      <4>6. seqs[r].pages[j] = old => refs[old] >= 2
        BY <1>t, <4>3, <4>5, ListedTwice
      <4> QED BY <4>1, <4>2, <4>4, <4>6
    <3> QED BY <1>14, <3>1, <3>2, <3>3, PlacedApart
  <2>2. CASE i # Len(replaced[t]) + 1
    <3>1. i \in 1 .. Len(replaced[t])
      BY <1>e, <2>2
    <3>2. p = replaced[t][i][2]
      BY <1>e, <3>1
    <3>3. /\ \A k \in next[t] + 1 .. Len(fresh[t]) : fresh[t][k] # p
          /\ \A b \in 1 .. Len(needs[t]) : SettledMember(t, b) => Last(seqs[batch[t][b]].pages) # p
      BY <1>t, <1>0, <3>1, <3>2 DEF KeptThread, KeptApart
    <3> QED BY <1>14, <3>3, PlacedApart
  <2> QED BY <2>1, <2>2
<1>16. KeptStored(t)'
  BY <1>1 DEF KeptStored
<1>17. ASSUME NEW r \in SeqIds PROVE Content'[r] = Content[r]
  <2>1. Ready(r)' <=> Ready(r)
    BY <1>9 DEF Ready
  <2>2. ASSUME Ready(r)
        PROVE  /\ VisiblePosition(r)' = VisiblePosition(r)
               /\ \A i \in 1 .. VisiblePosition(r) : TokenAt(r, i)' = TokenAt(r, i)
    <3>1. VisiblePosition(r)' = VisiblePosition(r)
      BY <1>t, <1>0, <1>1, <1>9, <2>1, <2>2, VisibleSame DEF Truncates
    <3>2. PICK n \in Nat : n = VisiblePosition(r) /\ Keep(n) <= Len(seqs[r].pages) /\ Keep(n) \in Nat
      <4>1. VisiblePosition(r) \in Nat /\ Keep(VisiblePosition(r)) <= Len(seqs[r].pages)
        BY <1>t, <2>2, RuntimeAssumption DEF VisibleFacts
      <4> QED BY <4>1, KeepNat
    <3>3. ASSUME NEW i \in 1 .. n PROVE TokenAt(r, i)' = TokenAt(r, i)
      <4>1. PICK k \in 1 .. Len(seqs[r].pages), j \in Slots : k = PageOf(i) /\ j = SlotOf(i)
        <5>1. PageOf(i) \in 1 .. Keep(n) /\ SlotOf(i) \in Slots /\ Len(seqs[r].pages) \in Nat
          BY <1>t, TokenPlace, PagesOf
        <5> QED BY <3>2, <5>1
      <4>2. TokenAt(r, i)' = kv'[seqs'[r].pages[k]][j] /\ TokenAt(r, i) = kv[seqs[r].pages[k]][j]
        BY <4>1 DEF TokenAt, PageOf, SlotOf
      <4>3. CASE r # s
        BY <1>9, <1>10, <4>2, <4>3
      <4>4. CASE r = s /\ k # m
        <5>1. k \in 1 .. m - 1
          BY <1>4, <4>4
        <5> QED BY <1>4, <1>7, <1>9, <1>10, <4>2, <4>4, <5>1
      <4>5. CASE r = s /\ k = m
        BY <1>4, <1>5, <1>7, <1>9, <1>11, <4>2, <4>5
      <4> QED BY <4>3, <4>4, <4>5
    <3> QED BY <3>1, <3>2, <3>3
  <2> QED BY <2>1, <2>2, ContentKept
<1> QED BY <1>13, <1>15, <1>16, <1>17, ContentSame DEF KeptThread

-----------------------------------------------------------------------------
(***************************************************************************)
(* The stores of the kernel, and the commit that shows them.               *)
(***************************************************************************)
LEMMA StoredElsewhere ==
  ASSUME NEW t \in Threads, NEW W, NEW p \in Pages, NEW j \in Slots,
         \A b \in W : ~(Target(batch[t][b]) = p /\ seqs[batch[t][b]].position % PageTokens = j)
  PROVE  Stored(t, W)[p][j] = kv[p][j]
<1>1. {b \in W : Target(batch[t][b]) = p /\ seqs[batch[t][b]].position % PageTokens = j} = {}
  OBVIOUS
<1> QED BY <1>1 DEF Stored

LEMMA StoredAt ==
  ASSUME TypeOK, NEW t \in Threads, StepArgs(t), NEW W \in SUBSET (1 .. Len(batch[t])), NEW c \in W,
         NEW p \in Pages, NEW j \in Slots,
         Target(batch[t][c]) = p, seqs[batch[t][c]].position % PageTokens = j
  PROVE  Stored(t, W)[p][j] \in Tokens
<1> DEFINE hit == {b \in W : Target(batch[t][b]) = p /\ seqs[batch[t][b]].position % PageTokens = j}
<1>1. c \in hit
  OBVIOUS
<1>2. PICK b : b = CHOOSE x \in hit : TRUE
  OBVIOUS
<1>3. b \in hit
  BY <1>1, <1>2
<1>4. b \in 1 .. Len(batch[t])
  BY <1>3
<1>5. toks[t][b] \in Tokens
  BY <1>4 DEF TypeOK, StepArgs
<1>6. hit # {}
  BY <1>1
<1>7. Stored(t, W)[p][j] = IF hit = {} THEN kv[p][j] ELSE toks[t][CHOOSE x \in hit : TRUE]
  BY DEF Stored
<1> QED BY <1>2, <1>5, <1>6, <1>7

\* The page a member's store writes, and its place in the table of that member.
LEMMA TargetPage ==
  ASSUME TypeOK, Shape, Settled, NEW t \in Threads, pc[t] = "kernel", NEW b \in 1 .. Len(batch[t]),
         NEW s \in SeqIds, s = batch[t][b]
  PROVE  /\ seqs[s].position \in Nat /\ Target(s) \in Pages /\ refs[Target(s)] = 1
         /\ seqs[s].position \div PageTokens + 1 \in 1 .. Len(seqs[s].pages)
         /\ seqs[s].pages[seqs[s].position \div PageTokens + 1] = Target(s)
         /\ seqs[s].position % PageTokens \in Slots
<1>2. PICK n \in Nat : n = seqs[s].position
  BY PagesOf, RuntimeAssumption
<1>3. Len(seqs[s].pages) = n \div PageTokens + 1
  BY <1>2, StoreTarget
<1>4. n \div PageTokens \in Nat /\ n % PageTokens \in Slots
  BY KeepNat
<1>5. n \div PageTokens + 1 \in 1 .. Len(seqs[s].pages)
  BY <1>3, <1>4
<1>6. PICK p \in Pages : p = seqs[s].pages[n \div PageTokens + 1]
  BY <1>5, PagesOf
<1>7. p = Target(s)
  BY <1>2, <1>6 DEF Target
<1>8. refs[p] = 1
  BY <1>7, StoresHeldOnce DEF StoresArePrivate
<1> QED BY <1>2, <1>4, <1>5, <1>6, <1>7, <1>8

\* Who lists that page is that member, and at that place.
LEMMA TargetListedOnce ==
  ASSUME TypeOK, Shape, Settled, Counted, NEW t \in Threads, pc[t] = "kernel",
         NEW b \in 1 .. Len(batch[t]),
         NEW r \in SeqIds, NEW k \in 1 .. Len(seqs[r].pages), seqs[r].pages[k] = Target(batch[t][b])
  PROVE  r = batch[t][b] /\ k = seqs[r].position \div PageTokens + 1
<1>0. PICK s \in SeqIds : s = batch[t][b]
  BY MembersIn
<1>1. PICK p \in Pages, n \in Nat :
           /\ n = seqs[s].position /\ p = Target(s) /\ refs[p] = 1
           /\ n \div PageTokens + 1 \in 1 .. Len(seqs[s].pages)
           /\ seqs[s].pages[n \div PageTokens + 1] = p
  BY <1>0, TargetPage
<1>2. PICK m \in 1 .. Len(seqs[s].pages) : m = n \div PageTokens + 1 /\ seqs[s].pages[m] = p
  BY <1>1
<1>3. ASSUME s # r \/ m # k PROVE FALSE
  <2>1. refs[p] >= 2
    BY <1>0, <1>1, <1>2, <1>3, ListedTwice
  <2> QED BY <1>1, <2>1
<1> QED BY <1>0, <1>1, <1>2, <1>3

\* No store falls on a token that any sequence shows.
LEMMA StoreUnread ==
  ASSUME TypeOK, Shape, Settled, Counted, VisibleFacts, NEW t \in Threads, pc[t] = "kernel",
         NEW b \in 1 .. Len(batch[t]),
         NEW r \in SeqIds, Ready(r), NEW i \in 1 .. VisiblePosition(r),
         seqs[r].pages[PageOf(i)] = Target(batch[t][b])
  PROVE  SlotOf(i) # seqs[batch[t][b]].position % PageTokens
<1>1. VisiblePosition(r) \in Nat /\ Keep(VisiblePosition(r)) <= Len(seqs[r].pages)
  BY RuntimeAssumption DEF VisibleFacts
<1>2. PICK n \in Nat : n = VisiblePosition(r)
  BY <1>1
<1>3. /\ PageOf(i) \in 1 .. Keep(n) /\ SlotOf(i) \in Slots
      /\ PageOf(i) = n \div PageTokens + 1 => SlotOf(i) < n % PageTokens
  BY <1>2, TokenPlace
<1>4. PageOf(i) \in 1 .. Len(seqs[r].pages)
  <2>1. Keep(n) \in Nat /\ Len(seqs[r].pages) \in Nat /\ Keep(n) <= Len(seqs[r].pages)
    BY <1>1, <1>2, PagesOf, KeepNat
  <2> QED BY <1>3, <2>1
<1>5. r = batch[t][b] /\ PageOf(i) = seqs[r].position \div PageTokens + 1
  BY <1>4, TargetListedOnce
<1>6. VisiblePosition(r) = seqs[r].position
  BY <1>5, MembersIn, MemberVisible DEF InStep, StepPcs
<1>7. SlotOf(i) < n % PageTokens /\ n = seqs[batch[t][b]].position
  BY <1>2, <1>3, <1>5, <1>6
<1>8. SlotOf(i) \in Nat /\ n % PageTokens \in Nat
  BY <1>3, KeepNat, RuntimeAssumption DEF Slots
<1> QED BY <1>7, <1>8

Storing(t, W) ==
    /\ pc[t] = "kernel" /\ W \in SUBSET (1 .. Len(batch[t])) /\ kv' = Stored(t, W)
    /\ seqs' = seqs /\ UNCHANGED stepVars

LEMMA StoringContent ==
  ASSUME NEW t \in Threads, Ground(t), NEW W, Storing(t, W), pc'[t] # "truncate"
  PROVE  Content' = Content
<1>t. /\ Setting(t) /\ TypeOK /\ Shape /\ Counted /\ Settled /\ VisibleFacts /\ VisibleFacts'
  BY DEF Ground, Setting
<1>0. pc[t] = "kernel" /\ W \subseteq 1 .. Len(batch[t]) /\ kv' = Stored(t, W) /\ seqs' = seqs
  BY DEF Storing
<1> SUFFICES ASSUME NEW r \in SeqIds PROVE Content'[r] = Content[r]
  BY ContentSame
<1>1. Ready(r)' <=> Ready(r)
  BY <1>0 DEF Ready
<1>2. ASSUME Ready(r)
      PROVE  /\ VisiblePosition(r)' = VisiblePosition(r)
             /\ \A i \in 1 .. VisiblePosition(r) : TokenAt(r, i)' = TokenAt(r, i)
  <2>1. VisiblePosition(r)' = VisiblePosition(r)
    BY <1>t, <1>0, <1>1, <1>2, VisibleSame DEF Truncates
  <2>2. PICK n \in Nat : n = VisiblePosition(r) /\ Keep(n) <= Len(seqs[r].pages)
    BY <1>t, <1>2, RuntimeAssumption DEF VisibleFacts
  <2>3. ASSUME NEW i \in 1 .. n PROVE TokenAt(r, i)' = TokenAt(r, i)
    <3>1. PageOf(i) \in 1 .. Keep(n) /\ SlotOf(i) \in Slots /\ Keep(n) \in Nat
      BY TokenPlace, KeepNat
    <3>2. PageOf(i) \in 1 .. Len(seqs[r].pages)
      BY <1>t, <2>2, <3>1, PagesOf
    <3>3. PICK p \in Pages, j \in Slots : p = seqs[r].pages[PageOf(i)] /\ j = SlotOf(i)
      BY <1>t, <3>1, <3>2, PagesOf
    <3>4. TokenAt(r, i)' = Stored(t, W)[p][j] /\ TokenAt(r, i) = kv[p][j]
      BY <1>0, <3>3 DEF TokenAt, PageOf, SlotOf
    <3>5. \A b \in W : ~(Target(batch[t][b]) = p /\ seqs[batch[t][b]].position % PageTokens = j)
      BY <1>t, <1>0, <1>2, <2>2, <3>3, StoreUnread
    <3> QED BY <3>4, <3>5, StoredElsewhere
  <2> QED BY <2>1, <2>2, <2>3
<1> QED BY <1>1, <1>2, ContentKept

LEMMA StoringPrefix ==
  ASSUME NEW t \in Threads, Ground(t), NEW W, Storing(t, W)
  PROVE  KeptPrefix(t)'
<1>t. /\ Setting(t) /\ TypeOK /\ Shape /\ Counted /\ Settled /\ KeptThread(t)
  BY DEF Ground, Setting, Kept
<1>0. /\ pc[t] = "kernel" /\ W \subseteq 1 .. Len(batch[t]) /\ kv' = Stored(t, W) /\ seqs' = seqs
      /\ replaced' = replaced
  BY DEF Storing, stepVars
<1>1. InStep(t) /\ StepTables(t) /\ StepPlan(t)
  BY <1>t, <1>0, InStepShape DEF InStep, StepPcs
<1> SUFFICES ASSUME NEW i \in 1 .. Len(replaced[t]), NEW j \in Slots,
                    j < seqs[replaced[t][i][1]].position % PageTokens
             PROVE  kv'[replaced[t][i][2]][j] = kv'[replaced[t][i][3]][j]
  BY <1>0 DEF KeptPrefix
<1>2. PICK r \in SeqIds, x \in Pages, y \in Pages : replaced[t][i] = <<r, x, y>>
  <2>1. replaced[t] \in Seq(SeqIds \X Pages \X Pages)
    BY <1>t DEF TypeOK
  <2>2. PICK e \in SeqIds \X Pages \X Pages : e = replaced[t][i]
    BY <2>1
  <2> QED BY <2>2
<1>3. kv[x][j] = kv[y][j]
  BY <1>t, <1>2 DEF KeptThread, KeptPrefix
<1>4. \A b \in W : Target(batch[t][b]) # x
  <2> SUFFICES ASSUME NEW b \in W PROVE Target(batch[t][b]) # x
    OBVIOUS
  <2>1. b \in 1 .. Len(batch[t]) /\ b \in 1 .. Len(needs[t]) /\ SettledMember(t, b)
    BY <1>0, <1>1 DEF StepPlan, SettledMember
  <2>2. Last(seqs[batch[t][b]].pages) # x
    BY <1>t, <1>0, <1>2, <2>1 DEF KeptThread, KeptApart
  <2> QED BY <1>t, <1>0, <2>1, <2>2, StoreTarget
<1>5. kv'[x][j] = kv[x][j]
  BY <1>0, <1>4, StoredElsewhere
<1>6. r \in Members(t) /\ Last(seqs[r].pages) = y /\ seqs[r].position % PageTokens # 0
  BY <1>0, <1>1, <1>2 DEF StepTables, StepReplaced
<1>7. PICK k \in 1 .. Len(seqs[r].pages) : seqs[r].pages[k] = y
  <2>1. Len(seqs[r].pages) > 0
    BY <1>t, <1>1, <1>6, ShapeThread, MemberFacts DEF Members
  <2> QED BY <1>t, <1>6, <2>1, FrontPage
<1>8. ASSUME NEW b \in W, Target(batch[t][b]) = y PROVE seqs[batch[t][b]].position % PageTokens # j
  <2>1. r = batch[t][b]
    BY <1>t, <1>0, <1>7, <1>8, TargetListedOnce
  <2>2. PICK n \in Nat : n = seqs[r].position
    BY <1>t, PagesOf, RuntimeAssumption
  <2>3. n % PageTokens \in Nat /\ j \in Nat /\ j < n % PageTokens
    <3>1. n % PageTokens \in Slots /\ PageTokens \in Nat
      BY KeepNat, RuntimeAssumption
    <3> QED BY <1>2, <2>2, <3>1 DEF Slots
  <2> QED BY <2>1, <2>2, <2>3
<1>9. kv'[y][j] = kv[y][j]
  BY <1>0, <1>8, StoredElsewhere
<1> QED BY <1>2, <1>3, <1>5, <1>9

LEMMA KernelFailsKept ==
  ASSUME NEW t \in Threads, Ground(t), KernelFails(t)
  PROVE  KeptThread(t)' /\ Content' = Content
<1>1. pc'[t] = "unwind"
  BY DEF KernelFails, Go, Ground, Setting, TypeOK
<1>2. PICK W : Storing(t, W)
  BY DEF KernelFails, Storing
<1> QED BY <1>1, <1>2, StoringPrefix, StoringContent, UnwindingKept

LEMMA StepKernelKept ==
  ASSUME NEW t \in Threads, Ground(t), StepKernel(t)
  PROVE  KeptThread(t)' /\ Content' = Content
<1>t. /\ Setting(t) /\ TypeOK /\ Shape /\ Settled
  BY DEF Ground, Setting
<1>1. pc[t] = "kernel" /\ pc'[t] = "commit" /\ seqs' = seqs /\ batch' = batch
  BY <1>t DEF StepKernel, Go, TypeOK, stepVars
<1>2. PICK W : W = 1 .. Len(batch[t]) /\ Storing(t, W)
  BY DEF StepKernel, Storing
<1>3. ASSUME NEW b \in 1 .. Len(batch[t])
      PROVE  kv'[Target(batch[t][b])][seqs[batch[t][b]].position % PageTokens] \in Tokens
  <2>0. PICK s \in SeqIds : s = batch[t][b]
    BY <1>t, MembersIn
  <2>1. PICK p \in Pages, j \in Slots : p = Target(s) /\ j = seqs[s].position % PageTokens
    BY <1>t, <1>1, <2>0, TargetPage
  <2>3. StepArgs(t)
    BY <1>t, <1>1, InStepShape DEF InStep, StepPcs
  <2>4. Stored(t, W)[p][j] \in Tokens
    BY <1>t, <1>2, <2>0, <2>1, <2>3, StoredAt
  <2> QED BY <1>2, <2>0, <2>1, <2>4 DEF Storing
<1>4. KeptStored(t)'
  <2>1. \A s : Target(s)' = Target(s)
    BY <1>1 DEF Target
  <2> QED BY <1>1, <1>3, <2>1 DEF KeptStored
<1>5. KeptApart(t)'
  BY <1>1 DEF KeptApart
<1> QED BY <1>1, <1>2, <1>4, <1>5, StoringPrefix, StoringContent DEF KeptThread

LEMMA StepCommitRefines ==
  ASSUME NEW t \in Threads, Ground(t), StepCommit(t)
  PROVE  KeptThread(t)' /\ Private!KvNext
<1>t. /\ Setting(t) /\ TypeOK /\ Shape /\ VisibleFacts /\ VisibleFacts' /\ KeptThread(t)
  BY DEF Ground, Setting, Kept
<1>0. /\ pc[t] = "commit" /\ pc'[t] = "idle" /\ replaced'[t] = <<>> /\ kv' = kv /\ InStep(t)
  BY <1>t DEF StepCommit, Leave, Go, TypeOK, InStep, StepPcs
<1>1. KeptThread(t)'
  BY <1>0, OutsideNow
<1>2. ASSUME NEW s \in SeqIds, s \notin Members(t) PROVE Content'[s] = Content[s]
  <2>1. seqs'[s] = seqs[s]
    BY <1>2 DEF StepCommit, Members
  <2> QED BY <1>t, <1>0, <2>1, SameReads DEF Truncates
<1>3. ASSUME NEW s \in SeqIds, s \in Members(t)
      PROVE  s \in Private!Live /\ \E tok \in Tokens : Content'[s] = Append(Content[s], tok)
  <2>1. PICK b \in 1 .. Len(batch[t]) : batch[t][b] = s
    BY <1>3 DEF Members
  <2>2. PICK n \in Nat : n = seqs[s].position /\ Ready(s) /\ VisiblePosition(s) = n
    BY <1>t, <1>0, <1>3, MemberVisible
  <2>3. seqs'[s].pages = seqs[s].pages /\ seqs'[s].position = n + 1 /\ seqs'[s].state = seqs[s].state
    BY <1>t, <2>1, <2>2 DEF StepCommit, TypeOK
  <2>4. Ready(s)' /\ VisiblePosition(s)' = n + 1
    <3>1. Ready(s)'
      BY <2>2, <2>3 DEF Ready
    <3>2. ASSUME NEW u \in Threads, Truncates(u, s)' PROVE FALSE
      <4>1. u # t /\ Truncates(u, s)
        BY <1>0, <1>t, <3>2 DEF Truncates, Setting, Quiet
      <4>2. Writes(u, s) /\ Writes(t, s)
        BY <1>0, <1>3, <4>1 DEF Truncates, Writes
      <4> QED BY <1>t, <4>1, <4>2 DEF Shape, Alone
    <3> QED BY <1>t, <2>3, <3>1, <3>2 DEF VisibleFacts
  <2>5. Content'[s] = [i \in 1 .. n + 1 |-> TokenAt(s, i)']
    BY <2>4 DEF Content, Gathered, TokenAt, PageOf, SlotOf
  <2>6. /\ Content[s] \in Seq(Tokens \cup {Junk}) /\ Len(Content[s]) = n /\ Content[s] # None
        /\ \A i \in 1 .. n : Content[s][i] = TokenAt(s, i)
    BY <1>t, <2>2, ContentIs
  <2>7. \A i : TokenAt(s, i)' = TokenAt(s, i)
    BY <1>0, <2>3 DEF TokenAt, PageOf, SlotOf
  <2>8. PICK tok \in Tokens : tok = TokenAt(s, n + 1)
    <3>1. PageOf(n + 1) = n \div PageTokens + 1 /\ SlotOf(n + 1) = n % PageTokens
      BY NextPlace
    <3>2. kv[Target(s)][n % PageTokens] \in Tokens
      BY <1>t, <1>0, <2>1, <2>2 DEF KeptThread, KeptStored
    <3> QED BY <2>2, <3>1, <3>2 DEF TokenAt, Target
  <2>p. PICK f, q : f = Content'[s] /\ q = Content[s]
    OBVIOUS
  <2>9. /\ f = [i \in 1 .. n + 1 |-> f[i]] /\ \A i \in 1 .. n : f[i] = q[i]
        /\ f[n + 1] = tok
    <3> HIDE DEF TokenAt, Content
    <3>1. \A i \in 1 .. n + 1 : f[i] = TokenAt(s, i)
      BY <2>p, <2>5, <2>7
    <3>2. f = [i \in 1 .. n + 1 |-> f[i]]
      BY <2>p, <2>5
    <3>3. n + 1 \in 1 .. n + 1 /\ \A i \in 1 .. n : i \in 1 .. n + 1
      OBVIOUS
    <3> QED BY <2>p, <2>6, <2>8, <3>1, <3>2, <3>3
  <2>10. q \in Seq(Tokens \cup {Junk}) /\ n = Len(q)
    BY <2>p, <2>6
  <2>11. s \in Private!Live
    BY <2>6 DEF Private!Live, Content
  <2>12. f = Append(q, tok)
    <3>1. PICK h : h = Append(q, tok)
      OBVIOUS
    <3>2. \A i \in 1 .. n : h[i] = q[i]
      BY <2>10, <3>1
    <3>3. h[n + 1] = tok
      BY <2>10, <3>1
    <3>4. h \in Seq(Tokens \cup {Junk}) /\ Len(h) = n + 1
      BY <2>10, <3>1
    <3>5. h = [i \in 1 .. n + 1 |-> h[i]]
      BY <3>4
    <3>6. \A i \in 1 .. n + 1 : i \in 1 .. n \/ i = n + 1
      OBVIOUS
    <3>7. \A i \in 1 .. n + 1 : f[i] = h[i]
      BY <2>9, <3>2, <3>3, <3>6
    <3>8. [i \in 1 .. n + 1 |-> f[i]] = [i \in 1 .. n + 1 |-> h[i]]
      BY <3>7
    <3> QED BY <2>9, <3>1, <3>5, <3>8
  <2> QED BY <2>p, <2>11, <2>12
<1>4. Private!AppendAll
  <2>1. DOMAIN Content' = SeqIds
    BY DEF Content
  <2>2. \A s \in SeqIds : Content'[s] = Content[s] \/ Private!Grown(s)
    BY <1>2, <1>3 DEF Private!Grown, Content
  <2> QED BY <2>1, <2>2 DEF Private!AppendAll, Content
<1> QED BY <1>1, <1>4 DEF Private!KvNext

-----------------------------------------------------------------------------
(***************************************************************************)
(* The refinement.                                                         *)
(***************************************************************************)
PrivateInv == RuntimeInv /\ Kept

LEMMA StepRunPrivate ==
  ASSUME NEW t \in Threads, Ground(t), StepRun(t)
  PROVE  KeptThread(t)' /\ (Content' = Content \/ Private!KvNext)
<1>1. CASE \/ StepNeeds(t) \/ StepAlloc(t) \/ CopyFails(t)
           \/ UnwindFresh(t) \/ RollbackRelease(t) \/ StepThrow(t)
  BY <1>1, NothingMovesKept
<1>2. CASE ApplyNone(t)
  BY <1>2, ApplyNoneKept
<1>3. CASE ApplyNew(t)
  BY <1>3, ApplyNewKept
<1>4. CASE ApplyCow(t)
  BY <1>4, ApplyCowKept
<1>5. CASE StepKernel(t)
  BY <1>5, StepKernelKept
<1>6. CASE KernelFails(t)
  BY <1>6, KernelFailsKept
<1>7. CASE StepCommit(t)
  BY <1>7, StepCommitRefines
<1>8. CASE RollbackAppended(t)
  BY <1>8, RollbackAppendedKept
<1>9. CASE RollbackRetain(t)
  BY <1>9, RollbackRetainKept
<1> QED BY <1>1, <1>2, <1>3, <1>4, <1>5, <1>6, <1>7, <1>8, <1>9 DEF StepRun

LEMMA EveryStepPrivate ==
  ASSUME PrivateInv, RuntimeInv', NEW t \in Threads, Call(t) \/ Run(t)
  PROVE  Kept' /\ (Content' = Content \/ Private!KvNext)
<1>1. Intact /\ Counted /\ Settled /\ Kept
  BY DEF Call, Run, RuntimeInv, PrivateInv
<1>2. Setting(t)
  BY SettingHolds DEF RuntimeInv, PrivateInv
<1>3. VisibleFacts
  BY VisibleIs DEF RuntimeInv, PrivateInv
<1>4. VisibleFacts' /\ Shape'
  <2>1. TypeOK' /\ Shape' => VisibleFacts'
    BY VisibleIs, PTL
  <2> QED BY <2>1 DEF RuntimeInv
<1>5. Ground(t)
  BY <1>1, <1>2, <1>3, <1>4 DEF Ground
<1>6. \A w \in Threads : w # t => KeptThread(w)'
  BY <1>5, OthersKept
<1>7. KeptThread(t)' /\ (Content' = Content \/ Private!KvNext)
  <2>1. CASE SequenceCall(t) \/ SequenceRun(t) \/ StepCall(t)
    BY <1>5, <2>1, SequenceKept, SequenceRefines
  <2>2. CASE StepRun(t)
    BY <1>5, <2>2, StepRunPrivate
  <2> QED BY <2>1, <2>2 DEF Call, Run
<1> QED BY <1>6, <1>7 DEF Kept

LEMMA NothingPrivate ==
  ASSUME Kept, UNCHANGED vars
  PROVE  Kept' /\ Content' = Content
<1>1. \A s : Target(s)' = Target(s)
  BY DEF Target, vars
<1>2. \A t \in Threads : KeptThread(t)' <=> KeptThread(t)
  BY <1>1 DEF KeptThread, KeptPrefix, KeptApart, KeptStored, SettledMember, vars
<1>3. Content' = Content
  BY DEF Content, Gathered, VisiblePosition, Ready, vars
<1> QED BY <1>2, <1>3 DEF Kept

LEMMA PrivateStart ==
  ASSUME Init PROVE Kept /\ Private!KvInit
<1>1. \A t \in Threads : replaced[t] = <<>> /\ pc[t] # "commit"
  BY DEF Init
<1>2. Kept
  BY <1>1, OutsideKept DEF Kept
<1>3. \A s \in SeqIds : ~Ready(s)
  BY DEF Init, Ready, DeadSeq
<1> QED BY <1>2, <1>3 DEF Private!KvInit, Content

\* Paging, sharing, copy-on-write, failed copies, failed kernels and rollbacks
\* are invisible: a sequence reads back the tokens stepped into it and into the
\* sequence it was forked from, and no call for another sequence changes them.
THEOREM RuntimeKeepsSequencesPrivate ==
  ASSUME ~ForkDuringStep
  PROVE  Spec => PrivateTokens
<1>1. Init => Kept /\ Private!KvInit
  BY PrivateStart
<1>2. PrivateInv /\ RuntimeInv' /\ [Next]_vars => Kept' /\ [Private!KvNext]_Content
  <2> SUFFICES ASSUME PrivateInv, RuntimeInv', [Next]_vars
               PROVE  Kept' /\ (Private!KvNext \/ Content' = Content)
    OBVIOUS
  <2>1. CASE UNCHANGED vars
    BY <2>1, NothingPrivate DEF PrivateInv
  <2>2. CASE Next
    BY <2>2, EveryStepPrivate DEF Next
  <2> QED BY <2>1, <2>2
<1>3. PrivateInv <=> RuntimeInv /\ Kept
  BY DEF PrivateInv
<1> QED BY <1>1, <1>2, <1>3, RuntimeCorrect, PTL DEF Spec, PrivateTokens, Private!KvSpec

=============================================================================
