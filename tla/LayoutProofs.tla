---------------------------- MODULE LayoutProofs ----------------------------
(***************************************************************************)
(* Where things lie, for every size: the entries of the hash table of      *)
(* 03-hash-kv while a launch runs and when they are looked up, the tensors *)
(* of a file that the parser of 01-gguf-inference has accepted, and the    *)
(* inverted lists of 09-vector-ann with what searches find in them.        *)
(***************************************************************************)
EXTENDS GpuHashTable, GgufLayout, IvfIndex, CountingLemmas

-----------------------------------------------------------------------------
(***************************************************************************)
(* For every capacity, hash function, key set and number of threads, and   *)
(* whether or not plain loads are stale: while k_insert_linear runs, a key *)
(* lives in at most one slot and every slot between its home and that slot *)
(* is taken.                                                               *)
(*                                                                         *)
(* The argument: slots never change key once taken (OldKeysAgree), so a    *)
(* thread that walks past a slot, on a stale value or not, has seen the    *)
(* key the slot will keep (WalkedPast).  When it claims an empty slot s    *)
(* for key k, no other slot can hold k: one nearer to the home of k was    *)
(* walked past, and one further away would have the empty s on its path.   *)
(***************************************************************************)

\* Distances from a home slot are in 0 .. Cap-1 and tell slots apart.
LEMMA DistInjective ==
  ASSUME NEW k \in Queries, NEW s \in Slots, NEW u \in Slots
  PROVE  /\ Dist(k, s) \in 0 .. Cap - 1
         /\ Dist(k, s) = Dist(k, u) => s = u
<1>1. Home[k] \in 0 .. Cap - 1 /\ Cap \in Nat
  BY HashAssumption DEF Slots
<1> QED BY <1>1 DEF Dist, Slots

\* One step of a walk: the slot is in the table, and what lies before it is
\* what lay before the last slot, and that slot.
LEMMA NextSlotDist ==
  ASSUME NEW k \in Queries, NEW s \in Slots
  PROVE  /\ NextSlot(s) \in Slots
         /\ \A u \in Before(k, NextSlot(s)) : u \in Before(k, s) \/ u = s
<1>1. Home[k] \in 0 .. Cap - 1 /\ Cap \in Nat \ {0}
  BY HashAssumption DEF Slots
<1>2. NextSlot(s) \in Slots
  BY <1>1 DEF NextSlot, Slots
<1>3. ASSUME NEW u \in Slots, Dist(k, u) < Dist(k, NextSlot(s)), u # s
      PROVE  Dist(k, u) < Dist(k, s)
  BY <1>1, <1>3 DEF Dist, NextSlot, Slots
<1> QED BY <1>2, <1>3 DEF Before

\* No slot comes before the home slot.
LEMMA HomeFirst ==
  ASSUME NEW k \in Queries
  PROVE  Before(k, Home[k]) = {}
<1>1. Home[k] \in 0 .. Cap - 1 /\ Cap \in Nat
  BY HashAssumption DEF Slots
<1>2. ASSUME NEW u \in Slots
      PROVE  ~(Dist(k, u) < Dist(k, Home[k]))
  BY <1>1 DEF Dist, Slots
<1> QED BY <1>2 DEF Before

\* An entry of the table is empty or has a key of Keys.
LEMMA KeyOfSlot ==
  ASSUME NEW c \in SlotValues, c # EMPTY_SLOT
  PROVE  slot_key(c) \in Keys /\ slot_key(c) \in Queries /\ slot_key(c) # EmptyKey
  BY HashAssumption DEF SlotValues, EMPTY_SLOT, slot_key

\* The empty table of the constructor.
LEMMA LinearInitInv == Init => LinearInv
<1> SUFFICES ASSUME Init PROVE LinearInv
  OBVIOUS
<1>1. TypeOK
  <2>1. 0 \in Slots /\ EMPTY_SLOT \in SlotValues /\ 0 \in 0 .. MaxLaunches
    BY HashAssumption DEF Slots, SlotValues
  <2> QED BY <2>1 DEF Init, TypeOK
<1>2. UniqueKeys /\ ProbePathsFull
  BY DEF Init, UniqueKeys, ProbePathsFull
<1>3. WalkedPast /\ CasExpects
  BY DEF Init, WalkedPast, CasExpects
<1>4. OldKeysAgree
  BY DEF Init, OldKeysAgree
<1> QED BY <1>1, <1>2, <1>3, <1>4 DEF LinearInv

\* A launch starts every thread at the home slot of its key.
LEMMA LaunchInv ==
  ASSUME LinearInv, NEW T \in SUBSET Threads, NEW job \in [T -> Keys \X Vals],
         Launch(T, job)
  PROVE  LinearInv'
<1> USE DEF LinearInv
<1>1. \A t \in T : /\ job[t] \in Keys \X Vals
                   /\ slot_key(job[t]) \in Queries
                   /\ slot_val(job[t]) \in Vals
                   /\ Home[slot_key(job[t])] \in Slots
  BY HashAssumption DEF slot_key, slot_val
<1>2. TypeOK'
  <2>1. latest' \in [Keys -> SUBSET Vals]
    BY <1>1 DEF Launch, TypeOK
  <2>2. 0 \in Slots
    BY HashAssumption DEF Slots
  <2>3. /\ pc' \in [Threads -> {"idle", "read", "cas", "done"}]
        /\ launches' \in 0 .. MaxLaunches
    BY HashAssumption DEF Launch, TypeOK
  <2>4. entry' \in [Threads -> SlotValues] /\ slot' \in [Threads -> Slots]
    BY <1>1, <2>2 DEF Launch, SlotValues
  <2>5. seen' \in [Slots -> SUBSET SlotValues]
    BY DEF Launch, TypeOK
  <2> QED BY <2>1, <2>3, <2>4, <2>5 DEF Launch, TypeOK
<1>3. UniqueKeys' /\ ProbePathsFull'
  BY DEF Launch, UniqueKeys, ProbePathsFull
<1>4. WalkedPast'
  <2> SUFFICES ASSUME NEW t \in Threads, pc'[t] \in {"read", "cas"}
               PROVE  Before(slot_key(entry'[t]), slot'[t]) = {}
    BY DEF WalkedPast
  <2>1. t \in T /\ entry'[t] = job[t] /\ slot'[t] = Home[slot_key(job[t])]
    BY DEF Launch
  <2> QED BY <1>1, <2>1, HomeFirst
<1>5. OldKeysAgree'
  BY DEF Launch, OldKeysAgree
<1>6. CasExpects'
  BY <1>1 DEF Launch, CasExpects
<1> QED BY <1>2, <1>3, <1>4, <1>5, <1>6

\* A load, fresh or stale, that sends the thread on names a key that the slot
\* keeps and that is not the thread's.
LEMMA ReadInv ==
  ASSUME LinearInv, NEW t \in Threads, LinearRead(t)
  PROVE  LinearInv'
<1> USE DEF LinearInv
<1>1. PICK c \in Load(slot[t]) :
         \/ /\ slot_key(c) = slot_key(entry[t]) \/ c = EMPTY_SLOT
            /\ cur' = [cur EXCEPT ![t] = c]
            /\ pc' = [pc EXCEPT ![t] = "cas"]
            /\ UNCHANGED slot
         \/ /\ slot_key(c) # slot_key(entry[t]) /\ c # EMPTY_SLOT
            /\ slot' = [slot EXCEPT ![t] = NextSlot(@)]
            /\ UNCHANGED <<cur, pc>>
  BY DEF LinearRead
<1>2. /\ pc[t] = "read"
      /\ UNCHANGED <<probe, table, seen, entry, dist, launches, latest>>
      /\ slot[t] \in Slots
      /\ entry[t] \in Keys \X Vals
      /\ slot_key(entry[t]) \in Queries
  BY HashAssumption DEF LinearRead, hostVars, TypeOK, CasExpects, slot_key
<1>3. /\ c \in SlotValues
      /\ c # EMPTY_SLOT => /\ table[slot[t]] # EMPTY_SLOT
                           /\ slot_key(table[slot[t]]) = slot_key(c)
  BY <1>2 DEF Load, TypeOK, OldKeysAgree
<1>4. UniqueKeys' /\ ProbePathsFull' /\ OldKeysAgree'
  BY <1>2 DEF UniqueKeys, ProbePathsFull, OldKeysAgree
<1>5. CASE /\ slot_key(c) = slot_key(entry[t]) \/ c = EMPTY_SLOT
           /\ cur' = [cur EXCEPT ![t] = c]
           /\ pc' = [pc EXCEPT ![t] = "cas"]
           /\ UNCHANGED slot
  <2>1. TypeOK'
    BY <1>2, <1>3, <1>5 DEF TypeOK
  <2>2. WalkedPast'
    BY <1>2, <1>5 DEF WalkedPast, TypeOK
  <2>3. CasExpects'
    BY <1>2, <1>3, <1>5 DEF CasExpects, TypeOK
  <2> QED BY <1>4, <2>1, <2>2, <2>3
<1>6. CASE /\ slot_key(c) # slot_key(entry[t]) /\ c # EMPTY_SLOT
           /\ slot' = [slot EXCEPT ![t] = NextSlot(@)]
           /\ UNCHANGED <<cur, pc>>
  <2>1. /\ NextSlot(slot[t]) \in Slots
        /\ \A u \in Before(slot_key(entry[t]), NextSlot(slot[t])) :
              u \in Before(slot_key(entry[t]), slot[t]) \/ u = slot[t]
    BY <1>2, NextSlotDist
  <2>2. TypeOK'
    BY <1>2, <1>6, <2>1 DEF TypeOK
  <2>3. WalkedPast'
    BY <1>2, <1>3, <1>6, <2>1 DEF WalkedPast, TypeOK
  <2>4. CasExpects'
    BY <1>2, <1>6 DEF CasExpects, TypeOK
  <2> QED BY <1>4, <2>2, <2>3, <2>4
<1> QED BY <1>1, <1>5, <1>6

\* A CAS that claims an empty slot or updates the thread's own key, or that
\* fails.
LEMMA CasInv ==
  ASSUME LinearInv, NEW t \in Threads, LinearCas(t)
  PROVE  LinearInv'
<1> USE DEF LinearInv
<1> DEFINE s == slot[t]
           k == slot_key(entry[t])
<1>1. /\ pc[t] = "cas"
      /\ UNCHANGED <<probe, entry, cur, dist, launches, latest>>
      /\ s \in Slots
      /\ entry[t] \in Keys \X Vals
      /\ entry[t] \in SlotValues /\ entry[t] # EMPTY_SLOT
      /\ k \in Queries /\ k # EmptyKey
  BY HashAssumption
     DEF LinearCas, hostVars, TypeOK, CasExpects, slot_key, SlotValues, EMPTY_SLOT
<1>2. CASE /\ table[s] = cur[t]
           /\ Swap(s, entry[t])
           /\ pc' = [pc EXCEPT ![t] = "done"]
           /\ UNCHANGED slot
  <2>1. /\ table' = [table EXCEPT ![s] = entry[t]]
        /\ seen' = [seen EXCEPT ![s] = @ \cup {entry[t]}]
        /\ table \in [Slots -> SlotValues]
        /\ seen \in [Slots -> SUBSET SlotValues]
    BY <1>2 DEF Swap, TypeOK
  <2>2. table[s] = EMPTY_SLOT \/ slot_key(table[s]) = k
    BY <1>1, <1>2 DEF CasExpects
  <2>3. TypeOK'
    BY <1>1, <1>2, <2>1 DEF TypeOK
  \* Taken slots stay taken, with their keys.
  <2>4. \A u \in Slots : table[u] # EMPTY_SLOT =>
           table'[u] # EMPTY_SLOT /\ slot_key(table'[u]) = slot_key(table[u])
    BY <1>1, <2>1, <2>2
  \* No slot but s holds k.
  <2>5. \A u \in Slots : table[u] # EMPTY_SLOT /\ slot_key(table[u]) = k => u = s
    <3> SUFFICES ASSUME NEW u \in Slots, table[u] # EMPTY_SLOT, slot_key(table[u]) = k,
                        u # s
                 PROVE  FALSE
      OBVIOUS
    <3>1. CASE table[s] # EMPTY_SLOT
      BY <1>1, <2>2, <3>1 DEF UniqueKeys
    <3>2. CASE table[s] = EMPTY_SLOT
      <4>1. Dist(k, u) \in Int /\ Dist(k, s) \in Int /\ Dist(k, u) # Dist(k, s)
        BY <1>1, DistInjective
      <4>2. CASE Dist(k, u) < Dist(k, s)
        BY <1>1, <4>2 DEF WalkedPast, Before
      <4>3. CASE Dist(k, s) < Dist(k, u)
        BY <1>1, <3>2, <4>3 DEF ProbePathsFull, Before
      <4> QED BY <4>1, <4>2, <4>3
    <3> QED BY <3>1, <3>2
  <2>6. UniqueKeys'
    <3> SUFFICES ASSUME NEW u \in Slots, NEW w \in Slots, table'[u] # EMPTY_SLOT,
                        slot_key(table'[u]) = slot_key(table'[w])
                 PROVE  u = w
      BY DEF UniqueKeys
    <3>0. table'[w] # EMPTY_SLOT
      BY <2>3, KeyOfSlot DEF TypeOK, EMPTY_SLOT, slot_key
    <3>1. CASE u = s
      BY <1>1, <2>1, <2>5, <3>0, <3>1
    <3>2. CASE w = s
      BY <1>1, <2>1, <2>5, <3>0, <3>2
    <3>3. CASE u # s /\ w # s
      BY <1>1, <2>1, <3>3 DEF UniqueKeys
    <3> QED BY <3>1, <3>2, <3>3
  <2>7. ProbePathsFull'
    <3> SUFFICES ASSUME NEW u \in Slots, table'[u] # EMPTY_SLOT,
                        NEW w \in Before(slot_key(table'[u]), u)
                 PROVE  table'[w] # EMPTY_SLOT
      BY DEF ProbePathsFull
    <3>0. w \in Slots
      BY DEF Before
    <3>1. CASE u = s
      <4>1. w \in Before(k, s)
        BY <1>1, <2>1, <3>1
      <4> QED BY <1>1, <2>4, <3>0, <4>1 DEF WalkedPast
    <3>2. CASE u # s
      <4>1. table'[u] = table[u]
        BY <1>1, <2>1, <3>2
      <4> QED BY <2>4, <3>0, <4>1 DEF ProbePathsFull
    <3> QED BY <3>1, <3>2
  <2>8. WalkedPast'
    <3> SUFFICES ASSUME NEW v \in Threads, pc'[v] \in {"read", "cas"},
                        NEW u \in Before(slot_key(entry[v]), slot[v])
                 PROVE  table'[u] # EMPTY_SLOT /\ slot_key(table'[u]) # slot_key(entry[v])
      BY <1>1, <1>2 DEF WalkedPast
    <3>1. pc[v] \in {"read", "cas"} /\ u \in Slots
      BY <1>2 DEF TypeOK, Before
    <3> QED BY <2>4, <3>1 DEF WalkedPast
  <2>9. OldKeysAgree'
    <3> SUFFICES ASSUME NEW u \in Slots, NEW c \in seen'[u] \cup {table'[u]}, c # EMPTY_SLOT
                 PROVE  table'[u] # EMPTY_SLOT /\ slot_key(table'[u]) = slot_key(c)
      BY DEF OldKeysAgree
    <3>1. CASE u = s
      BY <1>1, <2>1, <2>4, <3>1 DEF OldKeysAgree
    <3>2. CASE u # s
      BY <1>1, <2>1, <3>2 DEF OldKeysAgree
    <3> QED BY <3>1, <3>2
  <2>10. CasExpects'
    BY <1>1, <1>2, <2>4 DEF CasExpects, TypeOK
  <2> QED BY <2>3, <2>6, <2>7, <2>8, <2>9, <2>10
<1>3. CASE /\ table[s] # cur[t]
           /\ pc' = [pc EXCEPT ![t] = "read"]
           /\ slot' = IF slot_key(cur[t]) = k \/ slot_key(table[s]) = k
                        THEN slot ELSE [slot EXCEPT ![t] = NextSlot(@)]
           /\ UNCHANGED <<table, seen>>
  <2>1. UniqueKeys' /\ ProbePathsFull' /\ OldKeysAgree'
    BY <1>3 DEF UniqueKeys, ProbePathsFull, OldKeysAgree
  <2>2. CASE slot' = slot
    BY <1>1, <1>3, <2>1, <2>2 DEF TypeOK, WalkedPast, CasExpects
  <2>3. CASE /\ slot_key(cur[t]) # k /\ slot_key(table[s]) # k
             /\ slot' = [slot EXCEPT ![t] = NextSlot(@)]
    <3>1. table[s] # EMPTY_SLOT
      BY <1>1, <1>3, <2>3 DEF CasExpects
    <3>2. /\ NextSlot(s) \in Slots
          /\ \A u \in Before(k, NextSlot(s)) : u \in Before(k, s) \/ u = s
      BY <1>1, NextSlotDist
    <3>3. TypeOK'
      BY <1>1, <1>3, <2>3, <3>2 DEF TypeOK
    <3>4. WalkedPast'
      BY <1>1, <1>3, <2>3, <3>1, <3>2 DEF WalkedPast, TypeOK
    <3>5. CasExpects'
      BY <1>1, <1>3, <2>3 DEF CasExpects, TypeOK
    <3> QED BY <2>1, <3>3, <3>4, <3>5
  <2> QED BY <1>3, <2>2, <2>3
<1> QED BY <1>2, <1>3 DEF LinearCas

\* The end of a launch and a clear leave no thread walking.
LEMMA HostInv ==
  ASSUME LinearInv, KernelEnd \/ clear
  PROVE  LinearInv'
<1> USE DEF LinearInv
<1>0. 0 \in Slots /\ EMPTY_SLOT \in SlotValues
  BY HashAssumption DEF Slots, SlotValues
<1>1. CASE KernelEnd
  <2>1. TypeOK'
    BY <1>0, <1>1 DEF KernelEnd, hostVars, TypeOK
  <2>2. UniqueKeys' /\ ProbePathsFull'
    BY <1>1 DEF KernelEnd, UniqueKeys, ProbePathsFull
  <2>3. WalkedPast' /\ OldKeysAgree' /\ CasExpects'
    BY <1>1 DEF KernelEnd, WalkedPast, OldKeysAgree, CasExpects
  <2> QED BY <2>1, <2>2, <2>3
<1>2. CASE clear
  <2>1. TypeOK'
    BY <1>0, <1>2 DEF clear, threadVars, TypeOK
  <2>2. UniqueKeys' /\ ProbePathsFull' /\ OldKeysAgree'
    BY <1>2 DEF clear, UniqueKeys, ProbePathsFull, OldKeysAgree
  <2>3. \A t \in Threads : pc'[t] = "idle"
    BY <1>2 DEF clear, threadVars, Idle
  <2>4. WalkedPast' /\ CasExpects'
    BY <2>3 DEF WalkedPast, CasExpects
  <2> QED BY <2>1, <2>2, <2>4
<1> QED BY <1>1, <1>2

\* A table keeps its probe strategy.
LEMMA ProbeStays ==
  ASSUME [Next]_vars
  PROVE  probe' = probe
BY DEF Next, vars, Launch, KernelStep, LinearRead, LinearCas, RobinRead, RobinCas,
       KernelEnd, clear

\* Every step of a linear table preserves its invariant.
LEMMA LinearStepInv ==
  ASSUME probe = "Linear", LinearInv, [Next]_vars
  PROVE  LinearInv'
<1>1. ASSUME NEW T \in SUBSET Threads \ {{}}, NEW job \in [T -> Keys \X Vals],
             Launch(T, job)
      PROVE  LinearInv'
  BY <1>1, LaunchInv
<1>2. ASSUME NEW t \in Threads, KernelStep(t)
      PROVE  LinearInv'
  BY <1>2, ReadInv, CasInv DEF KernelStep
<1>3. CASE KernelEnd \/ clear
  BY <1>3, HostInv
<1>4. CASE UNCHANGED vars
  BY <1>4 DEF vars, LinearInv, TypeOK, UniqueKeys, ProbePathsFull, WalkedPast,
              OldKeysAgree, CasExpects, Before, Dist
<1> QED BY <1>1, <1>2, <1>3, <1>4 DEF Next

\* For every table, hash function and launch: the slots of a linear table are
\* sound in every state of every sequence of inserts and clears, in the middle
\* of a k_insert_linear kernel too.
THEOREM LinearCorrect == Spec => []LinearTablesSound
<1>1. Init => LinearTablesSound
  BY LinearInitInv DEF LinearTablesSound
<1>2. LinearTablesSound /\ [Next]_vars => LinearTablesSound'
  BY LinearStepInv, ProbeStays DEF LinearTablesSound
<1> QED BY <1>1, <1>2, PTL DEF Spec

\* A CAS changes no key of a taken slot, hit or miss.
LEMMA CasKeepsKeys ==
  ASSUME LinearInv, NEW t \in Threads, LinearCas(t), NEW s \in Slots, table[s] # EMPTY_SLOT
  PROVE  table'[s] # EMPTY_SLOT /\ slot_key(table'[s]) = slot_key(table[s])
<1>1. CASE UNCHANGED table
  BY <1>1
<1>2. CASE table[slot[t]] = cur[t] /\ Swap(slot[t], entry[t])
  <2>1. /\ table' = [table EXCEPT ![slot[t]] = entry[t]]
        /\ table \in [Slots -> SlotValues]
    BY <1>2 DEF Swap, LinearInv, TypeOK
  <2>2. entry[t] # EMPTY_SLOT
    BY HashAssumption DEF LinearInv, LinearCas, CasExpects, EMPTY_SLOT
  <2>3. s = slot[t] => slot_key(table[s]) = slot_key(entry[t])
    BY <1>2 DEF LinearInv, LinearCas, CasExpects
  <2> QED BY <2>1, <2>2, <2>3
<1> QED BY <1>1, <1>2 DEF LinearCas

\* For every launch of k_insert_linear: a taken slot keeps its key until clear().
THEOREM LinearKeysStay == Spec => KeysStay
<1> DEFINE Stay == \A s \in Slots : table[s] # EMPTY_SLOT =>
                     table'[s] # EMPTY_SLOT /\ slot_key(table'[s]) = slot_key(table[s])
           Step == probe = "Linear" /\ ~clear => Stay
<1>1. LinearTablesSound /\ [Next]_vars => [Step]_vars
  <2> SUFFICES ASSUME LinearInv, probe = "Linear", Next
               PROVE  clear \/ Stay
    BY DEF LinearTablesSound
  <2>1. ASSUME NEW t \in Threads, LinearCas(t)
        PROVE  Stay
    BY <2>1, CasKeepsKeys
  <2>2. ASSUME UNCHANGED table
        PROVE  Stay
    BY <2>2
  <2> QED BY <2>1, <2>2 DEF Next, KernelStep, Launch, LinearRead, KernelEnd
<1> QED BY <1>1, LinearCorrect, PTL DEF Spec, KeysStay

-----------------------------------------------------------------------------
(***************************************************************************)
(* What callers are promised, by tables of either kind and for any number  *)
(* of keys and threads: no entry is lost or doubled, and a lookup returns  *)
(* what was inserted.                                                      *)
(*                                                                         *)
(* A key that was given is with a thread that has still to place it, or in *)
(* a slot with a value of the last call that named it (KeysKept).  In a    *)
(* Robin Hood table it is in one place only (OnePlace), which also keeps a *)
(* thread from meeting its own key, and an eviction exchanges the places   *)
(* of two keys.  The order by distance is not needed: a slot once taken    *)
(* stays taken, so an evicted entry has a full path behind it, and so has  *)
(* the entry that takes its slot.                                          *)
(***************************************************************************)
KeyKept(k) ==
    /\ ~Present(k) => Carriers(k) = {} /\ Residences(k) = {}
    /\ \A t \in Carriers(k) : slot_val(entry[t]) \in latest[k]
    /\ Present(k) /\ Carriers(k) = {} => \E s \in Residences(k) : slot_val(table[s]) \in latest[k]
KeysKept == \A k \in Keys : KeyKept(k)

OnePlace(k) ==
    /\ \A t, u \in Carriers(k) : t = u
    /\ \A s, u \in Residences(k) : s = u
    /\ Carriers(k) = {} \/ Residences(k) = {}

PathsWalked ==
    \A t \in Threads : pc[t] \in {"read", "cas"} =>
        /\ entry[t] \in Keys \X Vals
        /\ \A u \in Before(slot_key(entry[t]), slot[t]) : table[u] # EMPTY_SLOT
TakenStays == \A s \in Slots : \A c \in seen[s] : c # EMPTY_SLOT => table[s] # EMPTY_SLOT

RobinInv ==
    TypeOK /\ ProbePathsFull /\ PathsWalked /\ TakenStays /\ \A k \in Keys : OnePlace(k)

TableInv ==
    /\ probe \in {"Linear", "RobinHood"} /\ KeysKept
    /\ probe = "Linear" => LinearInv
    /\ probe = "RobinHood" => RobinInv

\* An entry that is being placed.
LEMMA EntryFacts ==
  ASSUME NEW x \in Keys \X Vals
  PROVE  /\ slot_key(x) \in Keys /\ slot_key(x) \in Queries /\ slot_key(x) # EmptyKey
         /\ slot_val(x) \in Vals /\ x \in SlotValues /\ x # EMPTY_SLOT
  BY HashAssumption DEF slot_key, slot_val, SlotValues, EMPTY_SLOT

LEMMA EmptyFacts ==
  slot_key(EMPTY_SLOT) = EmptyKey /\ EmptyKey \notin Keys /\ EMPTY_SLOT \in SlotValues
  BY HashAssumption DEF slot_key, EMPTY_SLOT, SlotValues

\* A step that neither stores nor finishes leaves every key where it is.
LEMMA SamePlaces ==
  ASSUME UNCHANGED <<table, entry, latest>>,
         \A t \in Threads : pc'[t] \in {"read", "cas"} <=> pc[t] \in {"read", "cas"}
  PROVE  /\ \A k : Carriers(k)' = Carriers(k) /\ Residences(k)' = Residences(k)
         /\ KeysKept => KeysKept'
         /\ \A k : OnePlace(k) => OnePlace(k)'
<1>1. ASSUME NEW k PROVE Carriers(k)' = Carriers(k) /\ Residences(k)' = Residences(k)
  BY DEF Carriers, Residences
<1>2. KeysKept => KeysKept'
  BY <1>1 DEF KeysKept, KeyKept, Present
<1>3. \A k : OnePlace(k) => OnePlace(k)'
  BY <1>1 DEF OnePlace
<1> QED BY <1>1, <1>2, <1>3

\* Between calls nobody carries anything.
LEMMA NoCarriers ==
  ASSUME Idle, NEW k PROVE Carriers(k) = {}
  BY DEF Idle, Carriers

LEMMA KeptInit == Init => KeysKept /\ \A k \in Keys : OnePlace(k)
<1> SUFFICES ASSUME Init, NEW k \in Keys PROVE KeyKept(k) /\ OnePlace(k)
  BY DEF KeysKept
<1>1. Carriers(k) = {}
  BY DEF Init, Carriers
<1>2. Residences(k) = {}
  BY EmptyFacts DEF Init, Residences
<1>3. ~Present(k)
  BY DEF Init, Present
<1> QED BY <1>1, <1>2, <1>3 DEF KeyKept, OnePlace

\* insert() is called: the keys it names are carried by its threads.
LEMMA LaunchKept ==
  ASSUME TypeOK, KeysKept, NEW T \in SUBSET Threads, NEW job \in [T -> Keys \X Vals],
         Launch(T, job)
  PROVE  KeysKept'
<1> SUFFICES ASSUME NEW k \in Keys PROVE KeyKept(k)'
  BY DEF KeysKept
<1> DEFINE given == {slot_val(job[t]) : t \in {u \in T : slot_key(job[u]) = k}}
<1>1. Residences(k)' = Residences(k) /\ table' = table
  BY DEF Launch, Residences
<1>2. Carriers(k)' = {t \in T : slot_key(job[t]) = k} /\ \A t \in T : entry'[t] = job[t]
  BY DEF Launch, Carriers
<1>3. latest'[k] = IF given = {} THEN latest[k] ELSE given
  BY DEF Launch
<1>4. given = {} <=> Carriers(k)' = {}
  BY <1>2
<1>5. Carriers(k) = {} /\ KeyKept(k)
  BY NoCarriers DEF Launch, KeysKept
<1>6. \A t \in Carriers(k)' : slot_val(entry'[t]) \in given
  BY <1>2
<1>7. Present(k)' <=> latest'[k] # {}
  BY DEF Present
<1>8. Present(k) <=> latest[k] # {}
  BY DEF Present
<1> QED BY <1>1, <1>3, <1>4, <1>5, <1>6, <1>7, <1>8 DEF KeyKept

\* A store of the entry a thread carries, which then is placed.
LEMMA PlacedKept ==
  ASSUME TypeOK, KeysKept, NEW t \in Threads, pc[t] = "cas", entry[t] \in Keys \X Vals,
         slot_key(table[slot[t]]) \in {slot_key(entry[t]), EmptyKey},
         table' = [table EXCEPT ![slot[t]] = entry[t]],
         pc' = [pc EXCEPT ![t] = "done"], UNCHANGED <<entry, latest>>
  PROVE  /\ KeysKept'
         /\ \A k \in Keys : Carriers(k)' = Carriers(k) \ {t}
         /\ \A k \in Keys : k # slot_key(entry[t]) => t \notin Carriers(k) /\ Residences(k)' = Residences(k)
         /\ Residences(slot_key(entry[t]))' = Residences(slot_key(entry[t])) \cup {slot[t]}
<1> DEFINE s == slot[t]
           j == slot_key(entry[t])
<1>1. s \in Slots /\ table'[s] = entry[t] /\ (\A u \in Slots : u # s => table'[u] = table[u]) /\ j \in Keys
  BY EntryFacts DEF TypeOK
<1>2. \A k \in Keys : Carriers(k)' = Carriers(k) \ {t}
  BY DEF Carriers, TypeOK
<1>3. \A k \in Keys : k # j => t \notin Carriers(k)
  BY DEF Carriers
<1>4. \A k \in Keys : k # j => Residences(k)' = Residences(k)
  BY <1>1, EmptyFacts DEF Residences
<1>5. Residences(j)' = Residences(j) \cup {s}
  BY <1>1 DEF Residences
<1>6. ASSUME NEW k \in Keys PROVE KeyKept(k)'
  <2>1. KeyKept(k) /\ (Present(k)' <=> Present(k)) /\ latest' = latest
    BY DEF KeysKept, Present
  <2>2. CASE k # j
    <3>1. Carriers(k)' = Carriers(k) /\ Residences(k)' = Residences(k)
      BY <1>2, <1>3, <1>4, <2>2
    <3>2. \A u \in Residences(k) : table'[u] = table[u]
      BY <1>1, <2>2, EmptyFacts DEF Residences
    <3> QED BY <2>1, <3>1, <3>2 DEF KeyKept
  <2>3. CASE k = j
    <3>1. t \in Carriers(k)
      BY <2>3 DEF Carriers
    <3>2. Present(k) /\ slot_val(entry[t]) \in latest[k]
      BY <2>1, <3>1 DEF KeyKept
    <3>3. s \in Residences(k)' /\ slot_val(table'[s]) \in latest'[k]
      BY <1>1, <1>5, <2>1, <2>3, <3>2
    <3> QED BY <1>2, <2>1, <3>2, <3>3 DEF KeyKept
  <2> QED BY <2>2, <2>3
<1> QED BY <1>2, <1>3, <1>4, <1>5, <1>6 DEF KeysKept

\* One load or one CAS of k_insert_linear.
LEMMA LinearKept ==
  ASSUME LinearInv, KeysKept, NEW t \in Threads, LinearRead(t) \/ LinearCas(t)
  PROVE  KeysKept'
<1>0. TypeOK /\ CasExpects
  BY DEF LinearInv
<1>1. CASE LinearRead(t)
  <2>1. UNCHANGED <<table, entry, latest>>
    BY <1>1 DEF LinearRead, hostVars
  <2>2. pc[t] = "read" /\ (pc' = pc \/ pc' = [pc EXCEPT ![t] = "cas"])
    BY <1>1 DEF LinearRead
  <2>3. \A u \in Threads : pc'[u] \in {"read", "cas"} <=> pc[u] \in {"read", "cas"}
    BY <1>0, <2>2 DEF TypeOK
  <2> QED BY <2>1, <2>3, SamePlaces
<1>2. CASE LinearCas(t) /\ table[slot[t]] # cur[t]
  <2>1. UNCHANGED <<table, entry, latest>> /\ pc[t] = "cas" /\ pc' = [pc EXCEPT ![t] = "read"]
    BY <1>2 DEF LinearCas, hostVars
  <2>3. \A u \in Threads : pc'[u] \in {"read", "cas"} <=> pc[u] \in {"read", "cas"}
    BY <1>0, <2>1 DEF TypeOK
  <2> QED BY <2>1, <2>3, SamePlaces
<1>3. CASE LinearCas(t) /\ table[slot[t]] = cur[t]
  <2>1. /\ pc[t] = "cas" /\ UNCHANGED <<entry, latest>> /\ pc' = [pc EXCEPT ![t] = "done"]
        /\ table' = [table EXCEPT ![slot[t]] = entry[t]]
    BY <1>3 DEF LinearCas, hostVars, Swap
  <2>2. /\ entry[t] \in Keys \X Vals
        /\ slot_key(table[slot[t]]) \in {slot_key(entry[t]), EmptyKey}
    BY <1>0, <1>3, <2>1, EmptyFacts DEF CasExpects
  <2> QED BY <1>0, <2>1, <2>2, PlacedKept
<1> QED BY <1>1, <1>2, <1>3

\* The end of a launch, and clear().
LEMMA HostKept ==
  ASSUME TypeOK, KeysKept, KernelEnd \/ clear
  PROVE  KeysKept' /\ ((\A k \in Keys : OnePlace(k)) => \A k \in Keys : OnePlace(k)')
<1>1. CASE KernelEnd
  <2>1. \A k : Carriers(k)' = Carriers(k) /\ Residences(k)' = Residences(k)
    BY <1>1 DEF KernelEnd, Carriers, Residences
  <2>2. \A k : Carriers(k) = {}
    BY <1>1 DEF KernelEnd, Carriers
  <2>3. UNCHANGED <<table, latest>>
    BY <1>1 DEF KernelEnd, hostVars
  <2> QED BY <2>1, <2>2, <2>3 DEF KeysKept, KeyKept, OnePlace, Present
<1>2. CASE clear
  <2> SUFFICES ASSUME NEW k \in Keys PROVE KeyKept(k)' /\ OnePlace(k)'
    BY DEF KeysKept
  <2>1. Carriers(k)' = {}
    BY <1>2 DEF clear, Idle, Carriers, threadVars
  <2>2. Residences(k)' = {}
    BY <1>2, EmptyFacts DEF clear, Residences
  <2>3. ~Present(k)'
    BY <1>2 DEF clear, Present
  <2> QED BY <2>1, <2>2, <2>3 DEF KeyKept, OnePlace
<1> QED BY <1>1, <1>2

\* A Robin Hood table: insert() with keys that are not in the table and
\* differ from each other.
LEMMA RobinLaunch ==
  ASSUME RobinInv, KeysKept, NEW T \in SUBSET Threads, NEW job \in [T -> Keys \X Vals],
         Launch(T, job), probe = "RobinHood", FreshKeysOnly
  PROVE  RobinInv'
<1>0. TypeOK /\ ProbePathsFull
  BY DEF RobinInv
<1>1. \A t \in T : /\ job[t] \in Keys \X Vals
                   /\ slot_key(job[t]) \in Queries
                   /\ slot_val(job[t]) \in Vals
                   /\ job[t] \in SlotValues
                   /\ Home[slot_key(job[t])] \in Slots
  BY EntryFacts, HashAssumption
<1>2. TypeOK'
  <2>1. latest' \in [Keys -> SUBSET Vals]
    BY <1>0, <1>1 DEF Launch, TypeOK
  <2>2. 0 \in Slots
    BY HashAssumption DEF Slots
  <2>3. /\ pc' \in [Threads -> {"idle", "read", "cas", "done"}]
        /\ launches' \in 0 .. MaxLaunches
    BY <1>0, HashAssumption DEF Launch, TypeOK
  <2>4. entry' \in [Threads -> SlotValues] /\ slot' \in [Threads -> Slots]
    BY <1>1, <2>2, EmptyFacts DEF Launch
  <2>5. seen' \in [Slots -> SUBSET SlotValues]
    BY <1>0 DEF Launch, TypeOK
  <2> QED BY <1>0, <2>1, <2>3, <2>4, <2>5 DEF Launch, TypeOK
<1>3. ProbePathsFull' /\ TakenStays'
  BY <1>0 DEF Launch, ProbePathsFull, TakenStays
<1>4. PathsWalked'
  <2> SUFFICES ASSUME NEW t \in Threads, pc'[t] \in {"read", "cas"}
               PROVE  entry'[t] \in Keys \X Vals /\ Before(slot_key(entry'[t]), slot'[t]) = {}
    BY DEF PathsWalked
  <2>1. t \in T /\ entry'[t] = job[t] /\ slot'[t] = Home[slot_key(job[t])]
    BY DEF Launch
  <2> QED BY <1>1, <2>1, HomeFirst
<1>5. ASSUME NEW k \in Keys PROVE OnePlace(k)'
  <2>1. Residences(k)' = Residences(k)
    BY DEF Launch, Residences
  <2>2. Carriers(k)' = {t \in T : slot_key(job[t]) = k}
    BY DEF Launch, Carriers
  <2>3. Carriers(k)' # {} => ~Present(k)
    BY <2>2 DEF Launch
  <2>4. \A t, u \in Carriers(k)' : t = u
    BY <2>2 DEF Launch
  <2>5. OnePlace(k) /\ KeyKept(k)
    BY DEF RobinInv, KeysKept
  <2> QED BY <2>1, <2>3, <2>4, <2>5 DEF OnePlace, KeyKept
<1> QED BY <1>2, <1>3, <1>4, <1>5 DEF RobinInv

\* One load of k_insert_robinhood: what it skips is taken, and stays taken.
LEMMA RobinReads ==
  ASSUME RobinInv, KeysKept, NEW t \in Threads, RobinRead(t)
  PROVE  RobinInv' /\ KeysKept'
<1>0. TypeOK /\ ProbePathsFull /\ PathsWalked /\ TakenStays /\ \A k \in Keys : OnePlace(k)
  BY DEF RobinInv
<1>1. PICK c \in Load(slot[t]) :
         \/ /\ Takes(t, c)
            /\ cur' = [cur EXCEPT ![t] = c]
            /\ pc' = [pc EXCEPT ![t] = "cas"]
            /\ UNCHANGED <<slot, dist>>
         \/ /\ ~Takes(t, c)
            /\ slot' = [slot EXCEPT ![t] = NextSlot(@)]
            /\ dist' = [dist EXCEPT ![t] = @ + 1]
            /\ UNCHANGED <<cur, pc>>
  BY DEF RobinRead
<1>2. /\ pc[t] = "read"
      /\ UNCHANGED <<probe, table, seen, entry, launches, latest>>
      /\ slot[t] \in Slots
      /\ entry[t] \in Keys \X Vals
      /\ slot_key(entry[t]) \in Queries
  BY <1>0, EntryFacts DEF RobinRead, hostVars, TypeOK, PathsWalked
<1>3. c \in SlotValues /\ (c # EMPTY_SLOT => table[slot[t]] # EMPTY_SLOT)
  BY <1>0, <1>2 DEF Load, TypeOK, TakenStays
<1>4. \A u \in Threads : pc'[u] \in {"read", "cas"} <=> pc[u] \in {"read", "cas"}
  BY <1>0, <1>1, <1>2 DEF TypeOK
<1>5. KeysKept' /\ \A k \in Keys : OnePlace(k)'
  BY <1>0, <1>2, <1>4, SamePlaces
<1>6. ProbePathsFull' /\ TakenStays'
  BY <1>0, <1>2 DEF ProbePathsFull, TakenStays
<1>7. CASE Takes(t, c) /\ cur' = [cur EXCEPT ![t] = c] /\ pc' = [pc EXCEPT ![t] = "cas"]
           /\ UNCHANGED <<slot, dist>>
  <2>1. TypeOK'
    BY <1>0, <1>2, <1>3, <1>7 DEF TypeOK
  <2>2. PathsWalked'
    BY <1>0, <1>2, <1>4, <1>7 DEF PathsWalked
  <2> QED BY <1>5, <1>6, <2>1, <2>2 DEF RobinInv
<1>8. CASE ~Takes(t, c) /\ slot' = [slot EXCEPT ![t] = NextSlot(@)]
           /\ dist' = [dist EXCEPT ![t] = @ + 1] /\ UNCHANGED <<cur, pc>>
  <2>1. /\ NextSlot(slot[t]) \in Slots
        /\ \A u \in Before(slot_key(entry[t]), NextSlot(slot[t])) :
              u \in Before(slot_key(entry[t]), slot[t]) \/ u = slot[t]
    BY <1>2, NextSlotDist
  <2>2. TypeOK'
    BY <1>0, <1>2, <1>8, <2>1 DEF TypeOK
  <2>3. c # EMPTY_SLOT
    BY <1>8 DEF Takes
  <2>4. PathsWalked'
    <3> SUFFICES ASSUME NEW v \in Threads, pc[v] \in {"read", "cas"},
                        NEW u \in Before(slot_key(entry[v]), slot'[v])
                 PROVE  table[u] # EMPTY_SLOT
      BY <1>0, <1>2, <1>4 DEF PathsWalked
    <3>1. CASE v = t
      BY <1>0, <1>2, <1>3, <1>8, <2>1, <2>3, <3>1 DEF PathsWalked, TypeOK
    <3>2. CASE v # t
      BY <1>0, <1>8, <3>2 DEF PathsWalked, TypeOK
    <3> QED BY <3>1, <3>2
  <2> QED BY <1>5, <1>6, <2>2, <2>4 DEF RobinInv
<1> QED BY <1>1, <1>7, <1>8

\* An entry stored over another one, or into an empty slot: paths stay full.
LEMMA StoreKeepsPaths ==
  ASSUME TypeOK, ProbePathsFull, PathsWalked, TakenStays, NEW t \in Threads,
         pc[t] = "cas", Swap(slot[t], entry[t]), pc'[t] \in {"read", "done"},
         \A v \in Threads : v # t => pc'[v] = pc[v] /\ entry'[v] = entry[v],
         UNCHANGED slot,
         pc'[t] = "read" => entry'[t] = table[slot[t]] /\ table[slot[t]] \in Keys \X Vals
  PROVE  ProbePathsFull' /\ PathsWalked' /\ TakenStays'
<1> DEFINE s == slot[t]
<1>1. /\ s \in Slots /\ entry[t] \in Keys \X Vals /\ entry[t] # EMPTY_SLOT
      /\ table' = [table EXCEPT ![s] = entry[t]] /\ seen' = [seen EXCEPT ![s] = @ \cup {entry[t]}]
  BY EntryFacts DEF TypeOK, PathsWalked, Swap
<1>2. table'[s] = entry[t] /\ (\A u \in Slots : u # s => table'[u] = table[u])
  BY <1>1 DEF TypeOK
<1>3. \A u \in Slots : table[u] # EMPTY_SLOT => table'[u] # EMPTY_SLOT
  BY <1>1, <1>2
<1>4. ProbePathsFull'
  <2> SUFFICES ASSUME NEW u \in Slots, table'[u] # EMPTY_SLOT, NEW w \in Before(slot_key(table'[u]), u)
               PROVE  table'[w] # EMPTY_SLOT
    BY DEF ProbePathsFull
  <2>1. w \in Slots
    BY DEF Before
  <2>2. CASE u = s
    BY <1>2, <1>3, <2>1, <2>2 DEF PathsWalked
  <2>3. CASE u # s
    BY <1>2, <1>3, <2>1, <2>3 DEF ProbePathsFull
  <2> QED BY <2>2, <2>3
<1>5. PathsWalked'
  <2> SUFFICES ASSUME NEW v \in Threads, pc'[v] \in {"read", "cas"}
               PROVE  /\ entry'[v] \in Keys \X Vals
                      /\ \A u \in Before(slot_key(entry'[v]), slot[v]) : table'[u] # EMPTY_SLOT
    BY DEF PathsWalked
  <2>1. CASE v = t
    <3>1. entry'[t] = table[s] /\ table[s] \in Keys \X Vals /\ table[s] # EMPTY_SLOT
      BY <2>1, EntryFacts
    <3>2. \A u \in Before(slot_key(table[s]), s) : u \in Slots /\ table[u] # EMPTY_SLOT
      BY <1>1, <3>1 DEF ProbePathsFull, Before
    <3> QED BY <1>3, <2>1, <3>1, <3>2
  <2>2. CASE v # t
    <3>1. pc[v] \in {"read", "cas"} /\ entry'[v] = entry[v]
      BY <2>2
    <3>2. \A u \in Before(slot_key(entry[v]), slot[v]) : u \in Slots /\ table[u] # EMPTY_SLOT
      BY <3>1 DEF PathsWalked, Before
    <3>3. entry[v] \in Keys \X Vals
      BY <3>1 DEF PathsWalked
    <3> QED BY <1>3, <3>1, <3>2, <3>3
  <2> QED BY <2>1, <2>2
<1>6. TakenStays'
  <2> SUFFICES ASSUME NEW u \in Slots, NEW c \in seen'[u], c # EMPTY_SLOT PROVE table'[u] # EMPTY_SLOT
    BY DEF TakenStays
  <2>1. CASE u = s
    BY <1>1, <1>2, <2>1
  <2>2. CASE u # s
    BY <1>1, <1>2, <2>2 DEF TakenStays, TypeOK
  <2> QED BY <2>1, <2>2
<1> QED BY <1>4, <1>5, <1>6

\* The resident of a slot is exchanged for the entry a thread carries.
LEMMA EvictedKept ==
  ASSUME TypeOK, KeysKept, \A k \in Keys : OnePlace(k), NEW t \in Threads,
         pc[t] = "cas", entry[t] \in Keys \X Vals, table[slot[t]] \in Keys \X Vals,
         slot_key(table[slot[t]]) # slot_key(entry[t]),
         table' = [table EXCEPT ![slot[t]] = entry[t]],
         entry' = [entry EXCEPT ![t] = table[slot[t]]],
         pc' = [pc EXCEPT ![t] = "read"], UNCHANGED latest
  PROVE  KeysKept' /\ \A k \in Keys : OnePlace(k)'
<1>a. PICK s \in Slots, j \in Keys, i \in Keys :
            s = slot[t] /\ j = slot_key(entry[t]) /\ i = slot_key(table[s])
  BY EntryFacts DEF TypeOK
<1>1. /\ s = slot[t] /\ table'[s] = entry[t] /\ (\A u \in Slots : u # s => table'[u] = table[u])
      /\ entry'[t] = table[s] /\ (\A v \in Threads : v # t => entry'[v] = entry[v])
      /\ j = slot_key(entry[t]) /\ i = slot_key(table[s]) /\ i # j /\ latest' = latest
  BY <1>a DEF TypeOK
<1>2. \A v \in Threads : pc'[v] \in {"read", "cas"} <=> pc[v] \in {"read", "cas"}
  BY DEF TypeOK
<1>3. t \in Carriers(j) /\ s \in Residences(i)
  BY <1>1 DEF Carriers, Residences
<1>4. \A v \in Carriers(j) : v = t
  BY <1>1, <1>3 DEF OnePlace
<1>5. Residences(j) = {} /\ Carriers(i) = {} /\ \A u \in Residences(i) : u = s
  BY <1>1, <1>3 DEF OnePlace
<1>6. KeyKept(i) /\ KeyKept(j)
  BY <1>1 DEF KeysKept
<1>7. Present(i) /\ Present(j) /\ slot_val(table[s]) \in latest[i] /\ slot_val(entry[t]) \in latest[j]
  BY <1>3, <1>5, <1>6 DEF KeyKept
<1>8. Carriers(j)' = {} /\ \A u \in Residences(j)' : u = s
  <2>1. \A v \in Threads : v \in Carriers(j)' => FALSE
    BY <1>1, <1>2, <1>4 DEF Carriers
  <2>2. Carriers(j)' \subseteq Threads
    BY DEF Carriers
  <2>3. \A u \in Residences(j)' : u = s
    BY <1>1, <1>5 DEF Residences
  <2> QED BY <2>1, <2>2, <2>3
<1>9. s \in Residences(j)' /\ t \in Carriers(i)'
  BY <1>1, <1>2 DEF Residences, Carriers
<1>10. Residences(i)' = {} /\ \A v \in Carriers(i)' : v = t
  <2>1. \A u \in Slots : u \in Residences(i)' => FALSE
    BY <1>1, <1>5 DEF Residences
  <2>2. Residences(i)' \subseteq Slots
    BY DEF Residences
  <2>3. \A v \in Carriers(i)' : v = t
    BY <1>1, <1>2, <1>5 DEF Carriers
  <2> QED BY <2>1, <2>2, <2>3
<1>11. \A k : Present(k)' <=> Present(k)
  BY DEF Present
<1>12. KeyKept(j)' /\ OnePlace(j)'
  BY <1>1, <1>7, <1>8, <1>9, <1>11 DEF KeyKept, OnePlace
<1>13. KeyKept(i)' /\ OnePlace(i)'
  BY <1>1, <1>7, <1>9, <1>10, <1>11 DEF KeyKept, OnePlace
<1>14. ASSUME NEW k \in Keys, k # i, k # j PROVE KeyKept(k)' /\ OnePlace(k)'
  <2>1. Carriers(k)' = Carriers(k)
    BY <1>1, <1>2, <1>14 DEF Carriers
  <2>2. Residences(k)' = Residences(k)
    BY <1>1, <1>14 DEF Residences
  <2>3. \A v \in Carriers(k) : entry'[v] = entry[v]
    BY <1>1, <1>14 DEF Carriers
  <2>4. \A u \in Residences(k) : table'[u] = table[u]
    BY <1>1, <1>14 DEF Residences
  <2>5. KeyKept(k) /\ OnePlace(k) /\ latest' = latest
    BY DEF KeysKept
  <2> QED BY <1>11, <2>1, <2>2, <2>3, <2>4, <2>5 DEF KeyKept, OnePlace
<1> QED BY <1>12, <1>13, <1>14 DEF KeysKept

\* One CAS of k_insert_robinhood.
LEMMA RobinSwaps ==
  ASSUME RobinInv, KeysKept, NEW t \in Threads, RobinCas(t)
  PROVE  RobinInv' /\ KeysKept'
<1>0. TypeOK /\ ProbePathsFull /\ PathsWalked /\ TakenStays /\ \A k \in Keys : OnePlace(k)
  BY DEF RobinInv
<1>1. /\ pc[t] = "cas" /\ UNCHANGED <<probe, slot, cur, launches, latest>>
      /\ slot[t] \in Slots /\ entry[t] \in Keys \X Vals /\ entry[t] \in SlotValues
      /\ slot_key(entry[t]) \in Keys /\ slot_key(entry[t]) # EmptyKey
      /\ table[slot[t]] \in SlotValues
  BY <1>0, EntryFacts DEF RobinCas, hostVars, TypeOK, PathsWalked
<1>2. CASE table[slot[t]] # cur[t]
  <2>1. UNCHANGED <<table, seen, entry, dist>> /\ pc' = [pc EXCEPT ![t] = "read"]
    BY <1>2 DEF RobinCas
  <2>2. \A u \in Threads : pc'[u] \in {"read", "cas"} <=> pc[u] \in {"read", "cas"}
    BY <1>0, <1>1, <2>1 DEF TypeOK
  <2>3. KeysKept' /\ \A k \in Keys : OnePlace(k)'
    BY <1>0, <1>1, <2>1, <2>2, SamePlaces
  <2>4. TypeOK'
    BY <1>0, <1>1, <2>1 DEF TypeOK
  <2>5. ProbePathsFull' /\ PathsWalked' /\ TakenStays'
    BY <1>0, <1>1, <2>1, <2>2 DEF ProbePathsFull, PathsWalked, TakenStays
  <2> QED BY <2>3, <2>4, <2>5 DEF RobinInv
<1>3. CASE table[slot[t]] = cur[t]
  <2>1. Swap(slot[t], entry[t])
    BY <1>3 DEF RobinCas
  <2>2. /\ table' = [table EXCEPT ![slot[t]] = entry[t]]
        /\ seen' = [seen EXCEPT ![slot[t]] = @ \cup {entry[t]}]
    BY <2>1 DEF Swap
  <2>3. slot_key(table[slot[t]]) # slot_key(entry[t])
    <3>1. slot_key(table[slot[t]]) = slot_key(entry[t]) =>
            t \in Carriers(slot_key(entry[t])) /\ slot[t] \in Residences(slot_key(entry[t]))
      BY <1>1 DEF Carriers, Residences
    <3> QED BY <1>0, <1>1, <3>1 DEF OnePlace
  <2>4. CASE table[slot[t]] = EMPTY_SLOT
    <3>1. pc' = [pc EXCEPT ![t] = "done"] /\ UNCHANGED <<entry, dist>>
      BY <1>3, <2>4 DEF RobinCas
    <3>2. KeysKept' /\ \A k \in Keys : Carriers(k)' = Carriers(k) \ {t}
      BY <1>0, <1>1, <2>2, <2>4, <3>1, EmptyFacts, PlacedKept
    <3>3. /\ \A k \in Keys : k # slot_key(entry[t]) => t \notin Carriers(k) /\ Residences(k)' = Residences(k)
          /\ Residences(slot_key(entry[t]))' = Residences(slot_key(entry[t])) \cup {slot[t]}
      BY <1>0, <1>1, <2>2, <2>4, <3>1, EmptyFacts, PlacedKept
    <3>4. t \in Carriers(slot_key(entry[t]))
      BY <1>1 DEF Carriers
    <3>5. \A k \in Keys : OnePlace(k)'
      <4> SUFFICES ASSUME NEW k \in Keys PROVE OnePlace(k)'
        OBVIOUS
      <4>1. OnePlace(k)
        BY <1>0
      <4>2. CASE k # slot_key(entry[t])
        BY <3>2, <3>3, <4>1, <4>2 DEF OnePlace
      <4>3. CASE k = slot_key(entry[t])
        <5>1. Residences(k) = {} /\ \A v \in Carriers(k) : v = t
          BY <3>4, <4>1, <4>3 DEF OnePlace
        <5>2. Carriers(k)' = {}
          BY <3>2, <5>1
        <5>3. Residences(k)' = {slot[t]}
          BY <3>1, <3>3, <4>3, <5>1
        <5> QED BY <5>2, <5>3 DEF OnePlace
      <4> QED BY <4>2, <4>3
    <3>6. TypeOK'
      BY <1>0, <1>1, <2>2, <3>1 DEF TypeOK
    <3>7. ProbePathsFull' /\ PathsWalked' /\ TakenStays'
      <4>1. pc'[t] = "done" /\ \A v \in Threads : v # t => pc'[v] = pc[v] /\ entry'[v] = entry[v]
        BY <1>0, <3>1 DEF TypeOK
      <4> QED BY <1>0, <1>1, <2>1, <4>1, StoreKeepsPaths
    <3> QED BY <3>2, <3>5, <3>6, <3>7 DEF RobinInv
  <2>5. CASE table[slot[t]] # EMPTY_SLOT
    <3>1. /\ pc' = [pc EXCEPT ![t] = "read"] /\ entry' = [entry EXCEPT ![t] = table[slot[t]]]
          /\ dist' = [dist EXCEPT ![t] = Dist(slot_key(table[slot[t]]), slot[t])]
      BY <1>3, <2>3, <2>5 DEF RobinCas
    <3>2. table[slot[t]] \in Keys \X Vals
      BY <1>1, <2>5 DEF SlotValues
    <3>3. KeysKept' /\ \A k \in Keys : OnePlace(k)'
      BY <1>0, <1>1, <2>2, <2>3, <3>1, <3>2, EvictedKept
    <3>4. TypeOK'
      <4>1. Dist(slot_key(table[slot[t]]), slot[t]) \in Nat
        BY <1>1, <3>2, EntryFacts, DistInjective, HashAssumption
      <4> QED BY <1>0, <1>1, <2>2, <3>1, <4>1 DEF TypeOK
    <3>5. ProbePathsFull' /\ PathsWalked' /\ TakenStays'
      <4>1. /\ pc'[t] = "read" /\ entry'[t] = table[slot[t]]
            /\ \A v \in Threads : v # t => pc'[v] = pc[v] /\ entry'[v] = entry[v]
        BY <1>0, <3>1 DEF TypeOK
      <4> QED BY <1>0, <1>1, <2>1, <3>2, <4>1, StoreKeepsPaths
    <3> QED BY <3>3, <3>4, <3>5 DEF RobinInv
  <2> QED BY <2>4, <2>5
<1> QED BY <1>2, <1>3

\* The end of a launch, and clear().
LEMMA RobinHost ==
  ASSUME RobinInv, KeysKept, KernelEnd \/ clear
  PROVE  RobinInv'
<1>0. TypeOK /\ ProbePathsFull /\ PathsWalked /\ TakenStays /\ \A k \in Keys : OnePlace(k)
  BY DEF RobinInv
<1>1. \A k \in Keys : OnePlace(k)'
  BY <1>0, HostKept
<1>2. 0 \in Slots /\ EMPTY_SLOT \in SlotValues
  BY HashAssumption, EmptyFacts DEF Slots
<1>3. CASE KernelEnd
  <2>1. TypeOK'
    BY <1>0, <1>2, <1>3 DEF KernelEnd, hostVars, TypeOK
  <2>2. ProbePathsFull' /\ PathsWalked' /\ TakenStays'
    BY <1>0, <1>3 DEF KernelEnd, ProbePathsFull, PathsWalked, TakenStays
  <2> QED BY <1>1, <2>1, <2>2 DEF RobinInv
<1>4. CASE clear
  <2>1. TypeOK'
    BY <1>0, <1>2, <1>4 DEF clear, threadVars, TypeOK
  <2>2. ProbePathsFull' /\ TakenStays'
    BY <1>4 DEF clear, ProbePathsFull, TakenStays
  <2>3. PathsWalked'
    BY <1>4 DEF clear, threadVars, Idle, PathsWalked
  <2> QED BY <1>1, <2>1, <2>2, <2>3 DEF RobinInv
<1> QED BY <1>3, <1>4

LEMMA RobinInit == Init => RobinInv
<1> SUFFICES ASSUME Init PROVE RobinInv
  OBVIOUS
<1>1. TypeOK /\ ProbePathsFull
  BY LinearInitInv DEF LinearInv
<1>2. PathsWalked /\ TakenStays
  BY DEF Init, PathsWalked, TakenStays
<1> QED BY <1>1, <1>2, KeptInit DEF RobinInv

LEMMA TableStart == Init => TableInv
<1> SUFFICES ASSUME Init PROVE TableInv
  OBVIOUS
<1>1. probe \in {"Linear", "RobinHood"}
  BY HashAssumption DEF Init
<1> QED BY <1>1, KeptInit, LinearInitInv, RobinInit DEF TableInv

LEMMA TableStep ==
  ASSUME "RobinHood" \in Probes => FreshKeysOnly, TableInv, [Next]_vars
  PROVE  TableInv'
<1>0. KeysKept /\ probe' = probe /\ TypeOK
  BY ProbeStays DEF TableInv, LinearInv, RobinInv
<1>1. ASSUME NEW T \in SUBSET Threads \ {{}}, NEW job \in [T -> Keys \X Vals], Launch(T, job)
      PROVE  TableInv'
  <2>1. KeysKept'
    BY <1>0, <1>1, LaunchKept
  <2>2. CASE probe = "Linear"
    BY <1>0, <1>1, <2>1, <2>2, LaunchInv DEF TableInv
  <2>3. CASE probe = "RobinHood"
    <3>1. FreshKeysOnly
      BY <1>0, <2>3 DEF TypeOK
    <3>2. RobinInv
      BY <2>3 DEF TableInv
    <3>3. RobinInv'
      BY <1>0, <1>1, <2>3, <3>1, <3>2, RobinLaunch
    <3> QED BY <1>0, <2>1, <2>3, <3>3 DEF TableInv
  <2> QED BY <2>2, <2>3 DEF TableInv
<1>2. ASSUME NEW t \in Threads, KernelStep(t) PROVE TableInv'
  <2>1. CASE probe = "Linear" /\ (LinearRead(t) \/ LinearCas(t))
    BY <1>0, <2>1, LinearKept, ReadInv, CasInv DEF TableInv
  <2>2. CASE probe = "RobinHood" /\ (RobinRead(t) \/ RobinCas(t))
    BY <1>0, <2>2, RobinReads, RobinSwaps DEF TableInv
  <2> QED BY <1>2, <2>1, <2>2 DEF KernelStep
<1>3. CASE KernelEnd \/ clear
  <2>1. KeysKept'
    BY <1>0, <1>3, HostKept
  <2>2. probe = "Linear" => LinearInv'
    BY <1>3, HostInv DEF TableInv
  <2>3. probe = "RobinHood" => RobinInv'
    BY <1>0, <1>3, RobinHost DEF TableInv
  <2> QED BY <1>0, <2>1, <2>2, <2>3 DEF TableInv
<1>4. CASE UNCHANGED vars
  <2>1. UNCHANGED <<probe, table, seen, pc, entry, slot, cur, dist, launches, latest>>
    BY <1>4 DEF vars
  <2>2. KeysKept' /\ \A k : OnePlace(k) => OnePlace(k)'
    BY <1>0, <2>1, SamePlaces
  <2>3. LinearInv => LinearInv'
    BY <2>1 DEF LinearInv, TypeOK, UniqueKeys, ProbePathsFull, WalkedPast, OldKeysAgree, CasExpects
  <2>4. RobinInv => RobinInv'
    BY <2>1, <2>2 DEF RobinInv, TypeOK, ProbePathsFull, PathsWalked, TakenStays
  <2> QED BY <1>0, <2>1, <2>2, <2>3, <2>4 DEF TableInv
<1> QED BY <1>1, <1>2, <1>3, <1>4 DEF Next

LEMMA TableCorrect ==
  ASSUME "RobinHood" \in Probes => FreshKeysOnly
  PROVE  Spec => []TableInv
<1>1. TableInv /\ [Next]_vars => TableInv'
  BY TableStep
<1> QED BY <1>1, TableStart, PTL DEF Spec

-----------------------------------------------------------------------------
\* Between calls every key that was given is in one slot, and no other key is.
Stored ==
    /\ TypeOK /\ ProbePathsFull
    /\ \A k \in Keys : ~Present(k) => Residences(k) = {}
    /\ \A k \in Keys : Present(k) =>
         \E s \in Slots : Residences(k) = {s} /\ slot_val(table[s]) \in latest[k]

LEMMA StoredWhenIdle ==
  ASSUME TableInv, Idle
  PROVE  Stored
<1>0. TypeOK /\ ProbePathsFull
  BY DEF TableInv, LinearInv, RobinInv
<1>1. ASSUME NEW k \in Keys, NEW s \in Residences(k), NEW u \in Residences(k) PROVE s = u
  <2>1. CASE probe = "Linear"
    <3>1. /\ s \in Slots /\ u \in Slots /\ slot_key(table[s]) = k /\ slot_key(table[u]) = k
          /\ table[s] # EMPTY_SLOT
      BY EmptyFacts DEF Residences
    <3> QED BY <2>1, <3>1 DEF TableInv, LinearInv, UniqueKeys
  <2>2. CASE probe = "RobinHood"
    BY <2>2 DEF TableInv, RobinInv, OnePlace
  <2> QED BY <2>1, <2>2 DEF TableInv
<1>2. ASSUME NEW k \in Keys
      PROVE  /\ ~Present(k) => Residences(k) = {}
             /\ Present(k) => \E s \in Slots : Residences(k) = {s} /\ slot_val(table[s]) \in latest[k]
  <2>1. Carriers(k) = {} /\ KeyKept(k)
    BY NoCarriers DEF TableInv, KeysKept
  <2>2. ASSUME Present(k)
        PROVE  \E s \in Slots : Residences(k) = {s} /\ slot_val(table[s]) \in latest[k]
    <3>1. PICK s \in Residences(k) : slot_val(table[s]) \in latest[k]
      BY <2>1, <2>2 DEF KeyKept
    <3>2. s \in Slots /\ Residences(k) = {s}
      BY <1>1 DEF Residences
    <3> QED BY <3>1, <3>2
  <2> QED BY <2>1, <2>2 DEF KeyKept
<1> QED BY <1>0, <1>2 DEF Stored

\* Occupied slots and keys given are as many.
LEMMA AsManySlots ==
  ASSUME Stored
  PROVE  /\ IsFiniteSet({k \in Keys : Present(k)}) /\ SizeHint \in Nat
         /\ SizeHint = Cardinality({k \in Keys : Present(k)})
         /\ SizeHint = Cap => \A s \in Slots : table[s] # EMPTY_SLOT
         /\ (\A s \in Slots : table[s] # EMPTY_SLOT) => SizeHint = Cap
<1> DEFINE A == {s \in Slots : table[s] # EMPTY_SLOT}
           B == {k \in Keys : Present(k)}
           f == [s \in A |-> slot_key(table[s])]
<1>0. Cap \in Nat \ {0}
  BY HashAssumption
<1>1. IsFiniteSet(Slots) /\ Cardinality(Slots) = Cap
  <2>1. 0 \in Int /\ Cap - 1 \in Int /\ ~(0 > Cap - 1)
    BY <1>0
  <2>2. IsFiniteSet(0 .. Cap - 1) /\ Cardinality(0 .. Cap - 1) = Cap - 1 - 0 + 1
    BY <2>1, FS_Interval
  <2> QED BY <1>0, <2>2 DEF Slots
<1>2. IsFiniteSet(A) /\ Cardinality(A) \in Nat /\ (Cardinality(Slots) = Cardinality(A) => Slots = A)
  <2>1. A \in SUBSET Slots
    OBVIOUS
  <2> HIDE DEF A
  <2> QED BY <1>1, <2>1, FS_Subset, FS_CardinalityType
<1>3. ASSUME NEW s \in A PROVE f[s] \in B
  <2>1. table[s] \in SlotValues /\ f[s] \in Keys
    BY KeyOfSlot DEF Stored, TypeOK
  <2>2. s \in Residences(f[s])
    BY DEF Residences
  <2> QED BY <2>1, <2>2 DEF Stored
<1>4. ASSUME NEW s \in A, NEW u \in A, f[s] = f[u] PROVE s = u
  <2>1. s \in Residences(f[s]) /\ u \in Residences(f[s]) /\ f[s] \in Keys /\ Present(f[s])
    BY <1>3, <1>4 DEF Residences
  <2> QED BY <2>1 DEF Stored
<1>5. ASSUME NEW k \in B PROVE \E s \in A : f[s] = k
  <2>1. PICK s \in Slots : Residences(k) = {s}
    BY DEF Stored
  <2>2. slot_key(table[s]) = k
    BY <2>1 DEF Residences
  <2> QED BY <2>2, EmptyFacts
<1>6. f \in [A -> B]
  BY <1>3
<1>7. ExistsBijection(A, B)
  <2> HIDE DEF A, B, f
  <2>1. IsInjective(f)
    BY <1>4, <1>6 DEF IsInjective
  <2>2. f \in Bijection(A, B)
    BY <1>5, <1>6, <2>1 DEF Bijection, Injection, Surjection
  <2> QED BY <2>2 DEF ExistsBijection
<1>8. IsFiniteSet(B) /\ Cardinality(B) = Cardinality(A)
  <2> HIDE DEF A, B
  <2> QED BY <1>2, <1>7, FS_Bijection
<1>9. SizeHint = Cardinality(A)
  BY DEF SizeHint
<1>10. (\A s \in Slots : table[s] # EMPTY_SLOT) => A = Slots
  OBVIOUS
<1>11. A = Slots => \A s \in Slots : table[s] # EMPTY_SLOT
  OBVIOUS
<1> HIDE DEF A, B
<1>12. /\ IsFiniteSet(B) /\ SizeHint \in Nat /\ SizeHint = Cardinality(B)
       /\ (SizeHint = Cap => A = Slots) /\ (A = Slots => SizeHint = Cap)
  BY <1>1, <1>2, <1>8, <1>9
<1> QED BY <1>10, <1>11, <1>12 DEF B

\* While an entry of a Robin Hood table is carried it is neither lost nor
\* doubled, whatever the loads of other threads return; and between calls
\* size_hint() counts the keys given so far, for both kinds of table.
THEOREM NoEntryLost ==
  ASSUME "RobinHood" \in Probes => FreshKeysOnly
  PROVE  Spec => []EntriesConserved
<1>1. TableInv => EntriesConserved
  <2> SUFFICES ASSUME TableInv PROVE EntriesConserved
    OBVIOUS
  <2>1. ASSUME probe = "RobinHood", NEW k \in Keys, Present(k)
        PROVE  Cardinality(Carriers(k)) + Cardinality(Residences(k)) = 1
    <3>1. OnePlace(k) /\ KeyKept(k)
      BY <2>1 DEF TableInv, RobinInv, KeysKept
    <3>2. CASE Carriers(k) = {}
      <4>1. PICK s : Residences(k) = {s}
        BY <2>1, <3>1, <3>2 DEF KeyKept, OnePlace
      <4>2. Cardinality(Carriers(k)) = 0 /\ Cardinality(Residences(k)) = 1
        BY <3>2, <4>1, FS_EmptySet, FS_Singleton
      <4> QED BY <4>2
    <3>3. CASE Carriers(k) # {}
      <4>1. PICK t : Carriers(k) = {t}
        BY <3>1, <3>3 DEF OnePlace
      <4>2. Residences(k) = {}
        BY <3>1, <3>3 DEF OnePlace
      <4>3. Cardinality(Carriers(k)) = 1 /\ Cardinality(Residences(k)) = 0
        BY <4>1, <4>2, FS_EmptySet, FS_Singleton
      <4> QED BY <4>3
    <3> QED BY <3>2, <3>3
  <2>2. Idle => SizeHint = Cardinality({k \in Keys : Present(k)})
    BY StoredWhenIdle, AsManySlots
  <2> QED BY <2>1, <2>2 DEF EntriesConserved
<1> QED BY <1>1, TableCorrect, PTL

-----------------------------------------------------------------------------
(***************************************************************************)
(* Lookups, by one thread or by a warp in rounds of Lanes slots.           *)
(***************************************************************************)
LEMMA MinIs ==
  ASSUME NEW S, S \subseteq Int, NEW m \in S, \A x \in S : m <= x
  PROVE  Min(S) = m
<1>1. Min(S) \in S /\ \A y \in S : Min(S) <= y
  BY DEF Min
<1>2. Min(S) \in Int /\ m \in Int /\ Min(S) <= m /\ m <= Min(S)
  BY <1>1
<1> QED BY <1>2

LEMMA MinIn ==
  ASSUME NEW S, S \subseteq Nat, S # {}
  PROVE  Min(S) \in S /\ \A y \in S : Min(S) <= y
<1>1. \E x \in S : \A y \in S : x <= y
  BY LeastNumber
<1> QED BY <1>1 DEF Min

\* The remainder of a walk that has gone around the table at most once.
LEMMA AroundOnce ==
  ASSUME NEW C \in Nat \ {0}, NEW r \in 0 .. C - 1
  PROVE  r % C = r /\ (C + r) % C = r
<1>1. PICK zero \in Int, one \in Int : zero = 0 /\ one = 1
  OBVIOUS
<1>2. C * zero = 0 /\ C * one = C /\ r \in Int /\ C + r \in Int
  BY <1>1
<1>3. r = C * zero + r /\ C + r = C * one + r
  BY <1>2
<1>4. r % C = r
  BY <1>2, <1>3, DivUnique
<1>5. (C + r) % C = r
  BY <1>2, <1>3, DivUnique
<1> QED BY <1>4, <1>5

\* The walk of a key meets every slot once, at its distance from the home.
LEMMA WalkIs ==
  ASSUME NEW q \in Queries, NEW d \in Slots
  PROVE  \E u \in Slots : Dist(q, u) = d /\ Walk(q, d) = table[u]
<1>1. PICK h \in Slots : h = Home[q]
  BY HashAssumption
<1>2. Cap \in Nat \ {0} /\ h \in Nat /\ h < Cap /\ d \in Nat /\ d < Cap
  BY HashAssumption DEF Slots
<1>3. CASE h + d < Cap
  <2>1. h + d \in 0 .. Cap - 1
    BY <1>2, <1>3
  <2>2. (h + d) % Cap = h + d
    BY <1>2, <2>1, AroundOnce
  <2>3. h + d \in Slots /\ Dist(q, h + d) = d
    BY <1>1, <1>2, <2>1 DEF Slots, Dist
  <2> QED BY <1>1, <2>2, <2>3 DEF Walk
<1>4. CASE ~(h + d < Cap)
  <2>1. PICK r \in 0 .. Cap - 1 : r = h + d - Cap /\ h + d = Cap + r /\ r < h
    BY <1>2, <1>4
  <2>2. (h + d) % Cap = r
    BY <1>2, <2>1, AroundOnce
  <2>3. r \in Slots /\ Dist(q, r) = d
    BY <1>1, <1>2, <2>1 DEF Slots, Dist
  <2> QED BY <1>1, <2>2, <2>3 DEF Walk
<1> QED BY <1>3, <1>4

LEMMA WalkMeets ==
  ASSUME NEW q \in Queries, NEW s \in Slots
  PROVE  Dist(q, s) \in Slots /\ Walk(q, Dist(q, s)) = table[s]
<1>1. Dist(q, s) \in Slots
  BY DistInjective DEF Slots
<1>2. PICK u \in Slots : Dist(q, u) = Dist(q, s) /\ Walk(q, Dist(q, s)) = table[u]
  BY <1>1, WalkIs
<1> QED BY <1>1, <1>2, DistInjective

\* The rounds of a warp cut the walk into pieces of Lanes slots.
Rounds == 0 .. Cap \div Lanes - 1
RoundSlots(r) == {r * Lanes + l : l \in 0 .. Lanes - 1}

LEMMA RoundsFit ==
  /\ Cap \div Lanes \in Nat /\ Cap = Lanes * (Cap \div Lanes) /\ Lanes \in Nat \ {0} /\ Cap \in Nat \ {0}
<1>1. Cap \in Nat \ {0} /\ Lanes \in Nat \ {0} /\ Cap % Lanes = 0
  BY HashAssumption
<1>2. Cap \div Lanes \in Nat /\ Cap = Lanes * (Cap \div Lanes) + (Cap % Lanes)
  BY <1>1, DivMod
<1>3. PICK c \in Nat : c = Cap \div Lanes
  BY <1>2
<1>4. Lanes * c \in Nat /\ Cap = Lanes * c + 0
  BY <1>1, <1>2, <1>3
<1> QED BY <1>1, <1>3, <1>4

LEMMA RoundInTable ==
  ASSUME NEW r \in Rounds
  PROVE  RoundSlots(r) \subseteq Slots /\ r \in Nat
<1> SUFFICES ASSUME NEW l \in 0 .. Lanes - 1 PROVE r * Lanes + l \in Slots
  BY RoundsFit DEF RoundSlots, Rounds
<1>1. PICK c \in Nat : c = Cap \div Lanes
  BY RoundsFit
<1>2. r \in Nat /\ r + 1 \in Nat /\ r + 1 <= c
  BY <1>1 DEF Rounds
<1>3. (r + 1) * Lanes <= c * Lanes /\ (r + 1) * Lanes = r * Lanes + Lanes /\ r * Lanes \in Nat /\ c * Lanes = Cap
  BY <1>1, <1>2, RoundsFit, OrderedProducts, OneMoreFactor
<1> QED BY <1>3, RoundsFit DEF Slots

LEMMA RoundOf ==
  ASSUME NEW d \in Slots
  PROVE  \E r \in Rounds : /\ d \in RoundSlots(r)
                           /\ \A p \in Rounds : p < r => \A x \in RoundSlots(p) : x < d
<1>1. PICK c \in Nat : c = Cap \div Lanes
  BY RoundsFit
<1>2. PICK m \in Nat : m = Lanes /\ m # 0
  BY RoundsFit
<1>3. d \in Nat /\ d < c * m /\ c * m \in Nat
  <2>1. d \in Nat /\ d < Cap
    BY RoundsFit DEF Slots
  <2>2. Cap = c * m /\ c * m \in Nat
    BY <1>1, <1>2, RoundsFit
  <2> QED BY <2>1, <2>2
<1>4. PICK r \in Nat, l \in 0 .. m - 1 : d = m * r + l
  BY <1>2, <1>3, DivMod
<1>5. r * m \in Nat /\ m * r = r * m
  BY <1>2
<1>6. r < c
  <2> SUFFICES ASSUME c <= r PROVE FALSE
    OBVIOUS
  <2>1. c * m <= r * m
    BY OrderedProducts
  <2> QED BY <1>3, <1>4, <1>5, <2>1
<1>7. r \in Rounds /\ d \in RoundSlots(r)
  BY <1>1, <1>2, <1>4, <1>5, <1>6 DEF Rounds, RoundSlots
<1>8. ASSUME NEW p \in Rounds, p < r, NEW k \in 0 .. m - 1 PROVE p * m + k < d
  <2>1. p \in Nat /\ p + 1 \in Nat /\ p + 1 <= r
    BY <1>8, RoundInTable
  <2>2. (p + 1) * m <= r * m /\ (p + 1) * m = p * m + m /\ p * m \in Nat
    BY <2>1, OrderedProducts, OneMoreFactor
  <2> QED BY <1>2, <1>4, <1>5, <2>2
<1> QED BY <1>2, <1>7, <1>8 DEF RoundSlots

\* What the walk of a key that is in slot s meets.
LEMMA FoundOnWalk ==
  ASSUME TypeOK, ProbePathsFull, NEW q \in Keys, NEW s \in Slots, Residences(q) = {s}
  PROVE  /\ q \in Queries /\ q # EmptyKey /\ Dist(q, s) \in Slots /\ Walk(q, Dist(q, s)) = table[s]
         /\ slot_key(table[s]) = q /\ table[s] # EMPTY_SLOT
         /\ \A d \in Slots : slot_key(Walk(q, d)) = q => d = Dist(q, s)
         /\ \A d \in Slots : d < Dist(q, s) => Walk(q, d) # EMPTY_SLOT
<1>1. q \in Queries /\ q # EmptyKey
  BY HashAssumption
<1>2. slot_key(table[s]) = q /\ table[s] # EMPTY_SLOT
  BY <1>1, EmptyFacts DEF Residences
<1>3. ASSUME NEW d \in Slots, slot_key(Walk(q, d)) = q PROVE d = Dist(q, s)
  <2>1. PICK u \in Slots : Dist(q, u) = d /\ Walk(q, d) = table[u]
    BY <1>1, WalkIs
  <2>2. u \in Residences(q)
    BY <1>3, <2>1 DEF Residences
  <2> QED BY <2>1, <2>2
<1>4. ASSUME NEW d \in Slots, d < Dist(q, s) PROVE Walk(q, d) # EMPTY_SLOT
  <2>1. PICK u \in Slots : Dist(q, u) = d /\ Walk(q, d) = table[u]
    BY <1>1, WalkIs
  <2>2. u \in Before(q, s)
    BY <1>4, <2>1 DEF Before
  <2> QED BY <1>2, <2>1, <2>2 DEF ProbePathsFull
<1> QED BY <1>1, <1>2, <1>3, <1>4, WalkMeets

LEMMA FoundByThread ==
  ASSUME TypeOK, ProbePathsFull, NEW q \in Keys, NEW s \in Slots, Residences(q) = {s}
  PROVE  FindThread(q) = slot_val(table[s])
<1> DEFINE stops == {d \in Slots : slot_key(Walk(q, d)) = q \/ Walk(q, d) = EMPTY_SLOT}
<1>1. /\ Dist(q, s) \in Slots /\ Walk(q, Dist(q, s)) = table[s] /\ slot_key(table[s]) = q
      /\ \A d \in Slots : slot_key(Walk(q, d)) = q => d = Dist(q, s)
      /\ \A d \in Slots : d < Dist(q, s) => Walk(q, d) # EMPTY_SLOT
  BY FoundOnWalk
<1>2. Dist(q, s) \in stops /\ stops \subseteq Int
  BY <1>1 DEF Slots
<1>3. \A d \in stops : Dist(q, s) <= d
  BY <1>1, <1>2
<1>4. Min(stops) = Dist(q, s)
  <2> HIDE DEF stops
  <2> QED BY <1>2, <1>3, MinIs
<1>5. stops # {} /\ slot_key(Walk(q, Min(stops))) = q /\ Walk(q, Min(stops)) = table[s]
  BY <1>1, <1>2, <1>4
<1>6. FindThread(q) = IF stops = {} THEN Diverges
                      ELSE IF slot_key(Walk(q, Min(stops))) = q THEN slot_val(Walk(q, Min(stops))) ELSE NotFound
  BY DEF FindThread
<1> HIDE DEF stops
<1> QED BY <1>5, <1>6

LEMMA FoundByWarp ==
  ASSUME TypeOK, ProbePathsFull, NEW q \in Keys, NEW s \in Slots, Residences(q) = {s}
  PROVE  FindWarp(q) = slot_val(table[s])
<1> DEFINE hits(r) == {d \in RoundSlots(r) : slot_key(Walk(q, d)) = q}
           empties(r) == {d \in RoundSlots(r) : Walk(q, d) = EMPTY_SLOT}
           stops == {r \in Rounds : hits(r) # {} \/ empties(r) # {}}
<1>1. /\ Dist(q, s) \in Slots /\ Walk(q, Dist(q, s)) = table[s] /\ slot_key(table[s]) = q
      /\ \A d \in Slots : slot_key(Walk(q, d)) = q => d = Dist(q, s)
      /\ \A d \in Slots : d < Dist(q, s) => Walk(q, d) # EMPTY_SLOT
  BY FoundOnWalk
<1>2. PICK r \in Rounds : /\ Dist(q, s) \in RoundSlots(r)
                          /\ \A p \in Rounds : p < r => \A x \in RoundSlots(p) : x < Dist(q, s)
  BY <1>1, RoundOf
<1>3. hits(r) = {Dist(q, s)}
  BY <1>1, <1>2, RoundInTable
<1>4. r \in stops /\ stops \subseteq Int
  BY <1>3, RoundInTable
<1>5. ASSUME NEW p \in stops PROVE r <= p
  <2> SUFFICES ASSUME p < r PROVE FALSE
    BY <1>4
  <2>1. p \in Rounds /\ RoundSlots(p) \subseteq Slots /\ \A x \in RoundSlots(p) : x < Dist(q, s)
    BY <1>2, RoundInTable
  <2>2. Dist(q, s) \in Int /\ \A x \in RoundSlots(p) : x # Dist(q, s)
    BY <1>1, <2>1 DEF Slots
  <2>3. hits(p) = {} /\ empties(p) = {}
    BY <1>1, <2>1, <2>2
  <2> QED BY <2>3
<1>6. Min(stops) = r
  <2> HIDE DEF stops
  <2> QED BY <1>4, <1>5, MinIs
<1>7. Min({Dist(q, s)}) = Dist(q, s)
  BY <1>1, MinIs DEF Slots
<1>8. FindWarp(q) = IF stops = {} THEN Diverges
                    ELSE IF hits(Min(stops)) # {} THEN slot_val(Walk(q, Min(hits(Min(stops))))) ELSE NotFound
  BY DEF FindWarp, RoundSlots, Rounds
<1>9. stops # {}
  BY <1>4
<1> HIDE DEF stops, hits
<1> QED BY <1>1, <1>3, <1>6, <1>7, <1>8, <1>9

LEMMA AbsentForBoth ==
  ASSUME NEW q \in Queries, q # EmptyKey, Residences(q) = {}, NEW s \in Slots, table[s] = EMPTY_SLOT
  PROVE  FindThread(q) = NotFound /\ FindWarp(q) = NotFound
<1>1. Dist(q, s) \in Slots /\ Walk(q, Dist(q, s)) = EMPTY_SLOT
  BY WalkMeets
<1>2. ASSUME NEW d \in Slots PROVE slot_key(Walk(q, d)) # q
  <2>1. PICK u \in Slots : Walk(q, d) = table[u]
    BY WalkIs
  <2> QED BY <2>1 DEF Residences
<1>3. FindThread(q) = NotFound
  <2> DEFINE stops == {d \in Slots : slot_key(Walk(q, d)) = q \/ Walk(q, d) = EMPTY_SLOT}
  <2>1. stops \subseteq Nat /\ stops # {}
    BY <1>1 DEF Slots
  <2>2. Min(stops) \in stops
    <3> HIDE DEF stops
    <3> QED BY <2>1, MinIn
  <2>3. slot_key(Walk(q, Min(stops))) # q
    BY <1>2, <2>2
  <2>4. FindThread(q) = IF stops = {} THEN Diverges
                        ELSE IF slot_key(Walk(q, Min(stops))) = q THEN slot_val(Walk(q, Min(stops))) ELSE NotFound
    BY DEF FindThread
  <2> HIDE DEF stops
  <2> QED BY <2>1, <2>3, <2>4
<1>4. FindWarp(q) = NotFound
  <2> DEFINE hits(r) == {d \in RoundSlots(r) : slot_key(Walk(q, d)) = q}
             empties(r) == {d \in RoundSlots(r) : Walk(q, d) = EMPTY_SLOT}
             stops == {r \in Rounds : hits(r) # {} \/ empties(r) # {}}
  <2>1. PICK r \in Rounds : Dist(q, s) \in RoundSlots(r)
    BY <1>1, RoundOf
  <2>2. r \in stops /\ stops \subseteq Nat
    BY <1>1, <2>1, RoundInTable
  <2>3. Min(stops) \in Rounds
    <3> DEFINE X == stops
    <3>1. Min(X) \in X
      <4> HIDE DEF stops
      <4> QED BY <2>2, MinIn
    <3> QED BY <3>1
  <2>4. hits(Min(stops)) = {}
    BY <1>2, <2>3, RoundInTable
  <2>5. FindWarp(q) = IF stops = {} THEN Diverges
                      ELSE IF hits(Min(stops)) # {} THEN slot_val(Walk(q, Min(hits(Min(stops))))) ELSE NotFound
    BY DEF FindWarp, RoundSlots, Rounds
  <2>6. stops # {}
    BY <2>2
  <2> HIDE DEF stops, hits
  <2> QED BY <2>4, <2>5, <2>6
<1> QED BY <1>3, <1>4

\* For tables of either kind, any capacity, hash function, number of threads and
\* sequence of launches: between calls both lookup kernels return a value of the
\* last insert() that named the key, and kNotFound for a key never given one.
\* The keys must leave a slot free, for in a full table the lookup of an absent
\* key does not end; and the sentinel is no key to look up.
THEOREM LookupsReturnWhatWasInserted ==
  ASSUME "RobinHood" \in Probes => FreshKeysOnly,
         IsFiniteSet(Keys), Cardinality(Keys) < Cap, EmptyKey \notin Queries
  PROVE  Spec => []LookupsMatchInserts
<1>1. TableInv => LookupsMatchInserts
  <2> SUFFICES ASSUME TableInv, Idle, NEW q \in Queries
               PROVE  /\ FindThread(q) = FindWarp(q)
                      /\ Present(q) => FindThread(q) \in latest[q]
                      /\ ~Present(q) => FindThread(q) = NotFound
    BY DEF LookupsMatchInserts
  <2>1. Stored
    BY StoredWhenIdle
  <2>2. CASE Present(q)
    <3>1. q \in Keys
      BY <2>2 DEF Present
    <3>2. PICK s \in Slots : Residences(q) = {s} /\ slot_val(table[s]) \in latest[q]
      BY <2>1, <2>2, <3>1 DEF Stored
    <3> QED BY <2>1, <2>2, <3>1, <3>2, FoundByThread, FoundByWarp DEF Stored
  <2>3. CASE ~Present(q)
    <3>1. Residences(q) = {}
      <4>1. CASE q \in Keys
        BY <2>1, <2>3, <4>1 DEF Stored
      <4>2. CASE q \notin Keys
        <5>1. \A s \in Slots : slot_key(table[s]) \in Keys \cup {EmptyKey}
          BY <2>1, KeyOfSlot, EmptyFacts DEF Stored, TypeOK
        <5> QED BY <4>2, <5>1 DEF Residences
      <4> QED BY <4>1, <4>2
    <3>2. PICK s \in Slots : table[s] = EMPTY_SLOT
      <4>1. Cardinality({k \in Keys : Present(k)}) <= Cardinality(Keys) /\ Cardinality(Keys) \in Nat
        <5>1. {k \in Keys : Present(k)} \in SUBSET Keys
          OBVIOUS
        <5> QED BY <5>1, FS_Subset, FS_CardinalityType
      <4>2. SizeHint < Cap /\ SizeHint \in Nat
        BY <2>1, <4>1, AsManySlots, HashAssumption
      <4>3. ~ \A s \in Slots : table[s] # EMPTY_SLOT
        BY <2>1, <4>2, AsManySlots, HashAssumption
      <4> QED BY <4>3
    <3>3. q # EmptyKey
      OBVIOUS
    <3> QED BY <2>3, <3>1, <3>2, <3>3, AbsentForBoth
  <2> QED BY <2>2, <2>3
<1> QED BY <1>1, TableCorrect, PTL

-----------------------------------------------------------------------------
(***************************************************************************)
(* The GGUF parser.  Entries are read one by one, each with checks whose   *)
(* numbers may wrap; what TensorSound keeps of them is that the bytes of a *)
(* tensor are those its dimensions ask for and far below a wrap.  When the *)
(* layout is checked, the tensor that begins next behind tensor i begins   *)
(* behind its end; every later one begins behind that (LaterIsBehind).     *)
(***************************************************************************)
\* The bytes that the dimensions of a tensor really ask for.
Bytes(t) == ((t.dims[1] * t.dims[2]) \div t.type.elems) * t.type.bytes
TensorSound(t) ==
    /\ Bytes(t) \in 1 .. kMaxElements /\ num_bytes(t) = Bytes(t)
    /\ t.offset \in 0 .. Word - 1 /\ t.offset % align = 0
Entries == [name : {"a", "b"}, dims : Seq(Nat), elements : Nat, type : type_traits, offset : Nat]

GgufTypeOK ==
    /\ parsing \in {"start", "meta", "tensors", "layout", "open", "rejected"}
    /\ fileSize \in FileSizes \cup {0} /\ cursor \in 0 .. fileSize
    /\ align \in {1, 2, 4} /\ tensors \in Seq(Entries)
    /\ parsing \in {"start", "meta", "rejected"} => tensors = <<>>

GgufInv == GgufTypeOK /\ OpenFilesAreSound /\ \A i \in 1 .. Len(tensors) : TensorSound(tensors[i])

LEMMA GgufConstants ==
  /\ Word \in Nat \ {0} /\ MaxString \in Nat \ {0} /\ kMaxElements \in Nat \ {0}
  /\ kMaxElements < Word
  /\ \A s \in FileSizes \cup {0} : s \in Nat /\ (s \in FileSizes => s + 1 < Word) /\ s < Word
  /\ Dims \subseteq 0 .. Word - 1 /\ Offsets \subseteq 0 .. Word - 1 /\ Lengths \subseteq 0 .. Word - 1
<1>1. Word \in Nat \ {0} /\ MaxString \in Nat \ {0} /\ kMaxElements \in Nat \ {0} /\ 4 * kMaxElements <= Word
  BY GgufAssumption
<1>2. \A s \in FileSizes : s \in Nat /\ s + MaxString < Word
  BY GgufAssumption
<1>3. Dims \subseteq 0 .. Word - 1 /\ Offsets \subseteq 0 .. Word - 1 /\ Lengths \subseteq 0 .. Word - 1
  BY GgufAssumption
<1>4. \A s \in FileSizes \cup {0} : s \in Nat /\ (s \in FileSizes => s + 1 < Word) /\ s < Word
  BY <1>1, <1>2
<1> QED BY <1>1, <1>3, <1>4

\* A number that fits is left alone by the wrap.
LEMMA WrapFits == ASSUME NEW n \in Nat, n < Word PROVE Wrap(n) = n
BY GgufConstants DEF Wrap

LEMMA WrapRange == ASSUME NEW n \in Int PROVE Wrap(n) \in 0 .. Word - 1
BY GgufConstants DEF Wrap

\* checked_mul: what is not refused is the product, below the limit.
LEMMA FitsMeans ==
  ASSUME NEW a \in Nat, NEW b \in Nat, MulFits(a, b)
  PROVE  a * b \in Nat /\ a * b <= kMaxElements
<1>1. a * b \in Nat
  OBVIOUS
<1>2. CASE a = 0
  BY <1>2, GgufConstants
<1>3. CASE a # 0
  <2>0. PICK q, r : q = kMaxElements \div a /\ r = kMaxElements % a
    OBVIOUS
  <2>1. q = kMaxElements \div a /\ q \in Nat /\ r \in Nat /\ kMaxElements = a * q + r
    <3>1. a \in Nat \ {0} /\ kMaxElements \in Nat
      BY <1>3, GgufConstants
    <3>2. q \in Nat /\ r \in 0 .. a - 1 /\ kMaxElements = a * q + r
      BY <2>0, <3>1, DivMod
    <3> QED BY <2>0, <3>1, <3>2
  <2>2. b <= q
    BY <1>3, <2>1 DEF MulFits
  <2>3. PICK d \in Nat : q = b + d
    <3>1. q - b \in Nat /\ q = b + (q - b)
      BY <2>1, <2>2
    <3> QED BY <3>1
  <2>4. a * (b + d) = a * b + a * d /\ a * d \in Nat
    OBVIOUS
  <2> QED BY <1>1, <2>1, <2>3, <2>4
<1> QED BY <1>1, <1>2, <1>3

\* Rounding up to the alignment.
LEMMA AlignedUp ==
  ASSUME NEW a \in {1, 2, 4}, NEW n \in Nat, NEW m \in Nat, m % a = 0
  PROVE  LET d == ((n + a - 1) \div a) * a IN d \in Nat /\ d >= n /\ (d + m) % a = 0
BY SMT

LEMMA GgufInitInv == GgufInit => GgufInv
<1> SUFFICES ASSUME GgufInit PROVE GgufInv
  OBVIOUS
<1>1. tensors = <<>> /\ cursor = 0 /\ fileSize = 0 /\ parsing = "start" /\ align = 1
  BY DEF GgufInit
<1>2. GgufTypeOK /\ Len(tensors) = 0
  BY <1>1 DEF GgufTypeOK
<1> QED BY <1>1, <1>2 DEF GgufInv, OpenFilesAreSound

\* An exception leaves an empty object.
LEMMA RejectInv == ASSUME Reject PROVE GgufInv'
<1>1. tensors' = <<>> /\ cursor' = 0 /\ fileSize' = 0 /\ parsing' = "rejected" /\ align' = 1
  BY DEF Reject
<1>2. GgufTypeOK' /\ Len(tensors') = 0
  BY <1>1 DEF GgufTypeOK
<1> QED BY <1>1, <1>2 DEF GgufInv, OpenFilesAreSound

LEMMA ReadHeaderInv == ASSUME GgufInv, ReadHeader PROVE GgufInv'
<1>1. /\ tensors' = <<>> /\ align' = align /\ fileSize' \in FileSizes
      /\ parsing' \in {"meta", "rejected"} /\ cursor' = IF fileSize' >= 1 THEN 1 ELSE 0
  BY DEF GgufInv, GgufTypeOK, ReadHeader
<1>2. cursor' \in 0 .. fileSize' /\ cursor' <= fileSize'
  BY <1>1, GgufConstants
<1>3. GgufTypeOK' /\ Len(tensors') = 0
  BY <1>1, <1>2 DEF GgufTypeOK, GgufInv
<1> QED BY <1>1, <1>2, <1>3 DEF GgufInv, OpenFilesAreSound

LEMMA ReadStringInv ==
  ASSUME GgufInv, NEW len \in Lengths, ReadString(len) PROVE GgufInv'
<1>1. CASE StringFits(len)
  <2>1. /\ cursor' = Wrap(cursor + 1 + len) /\ UNCHANGED <<parsing, fileSize, align, tensors>>
        /\ parsing = "meta" /\ tensors = <<>>
    BY <1>1 DEF ReadString, GgufInv, GgufTypeOK
  <2>2. cursor + 1 + len \in Int /\ cursor + 1 + len = cursor + (1 + len) /\ cursor \in Nat
    BY GgufConstants DEF GgufInv, GgufTypeOK
  <2>3. cursor' \in 0 .. Word - 1 /\ cursor' <= fileSize
    BY <1>1, <2>1, <2>2, WrapRange DEF StringFits, Need
  <2>4. fileSize \in Nat
    BY GgufConstants DEF GgufInv, GgufTypeOK
  <2>5. GgufTypeOK' /\ Len(tensors') = 0
    BY <2>1, <2>3, <2>4, GgufConstants DEF GgufInv, GgufTypeOK
  <2> QED BY <2>1, <2>3, <2>5 DEF GgufInv, OpenFilesAreSound
<1>2. CASE ~StringFits(len)
  BY <1>2, RejectInv DEF ReadString
<1> QED BY <1>1, <1>2

LEMMA ReadAlignmentInv ==
  ASSUME GgufInv, NEW a, ReadAlignment(a) PROVE GgufInv'
<1>1. CASE a \in {1, 2, 4}
  <2>1. /\ align' = a /\ parsing' = "tensors" /\ UNCHANGED <<fileSize, cursor, tensors>>
        /\ tensors = <<>>
    BY <1>1 DEF ReadAlignment, GgufInv, GgufTypeOK
  <2>2. GgufTypeOK' /\ Len(tensors') = 0
    BY <1>1, <2>1 DEF GgufInv, GgufTypeOK
  <2>3. cursor' <= fileSize'
    BY <2>1 DEF GgufInv, OpenFilesAreSound
  <2> QED BY <2>1, <2>2, <2>3 DEF GgufInv, OpenFilesAreSound
<1>2. CASE a \notin {1, 2, 4}
  BY <1>2, RejectInv DEF ReadAlignment
<1> QED BY <1>1, <1>2

\* The bytes of an entry that passes the checks.
LEMMA EntryBytes ==
  ASSUME NEW d1 \in Dims, NEW d2 \in Dims, NEW type \in type_traits,
         d1 # 0, d2 # 0, MulFits(1, d1), MulFits(d1, d2), type.bytes # 0,
         Wrap(d1 * d2) % type.elems = 0, MulFits(Wrap(d1 * d2) \div type.elems, type.bytes)
  PROVE  /\ d1 * d2 \in Nat /\ Wrap(d1 * d2) = d1 * d2
         /\ ((d1 * d2) \div type.elems) * type.bytes \in 1 .. kMaxElements
         /\ Wrap(((d1 * d2) \div type.elems) * type.bytes) = ((d1 * d2) \div type.elems) * type.bytes
<1>0. /\ d1 \in Nat \ {0} /\ d2 \in Nat \ {0} /\ kMaxElements \in Nat /\ kMaxElements < Word
      /\ Word \in Nat
  BY GgufConstants
<1>1. d1 * d2 \in Nat /\ d1 * d2 <= kMaxElements
  BY <1>0, FitsMeans
<1>2. PICK n : n = d1 * d2
  OBVIOUS
<1>3. n \in Nat /\ n # 0
  <2>1. \A x, y \in Nat \ {0} : x * y # 0
    OBVIOUS
  <2> QED BY <1>0, <1>1, <1>2, <2>1
<1>4. Wrap(n) = n
  BY <1>0, <1>1, <1>2, <1>3, WrapFits
<1>5. PICK e, b : e = type.elems /\ b = type.bytes /\ e \in {1, 2} /\ b \in {2, 3}
  BY DEF type_traits
<1>6. n % e = 0 /\ MulFits(n \div e, b)
  BY <1>2, <1>4, <1>5
<1>7. n \div e \in Nat /\ n \div e # 0
  BY <1>3, <1>5, <1>6
<1>8. (n \div e) * b \in Nat /\ (n \div e) * b <= kMaxElements
  BY <1>5, <1>6, <1>7, FitsMeans
<1>9. (n \div e) * b # 0
  BY <1>5, <1>7
<1>10. Wrap((n \div e) * b) = (n \div e) * b
  BY <1>0, <1>8, WrapFits
<1> QED BY <1>0, <1>2, <1>3, <1>4, <1>5, <1>8, <1>9, <1>10

LEMMA ReadTensorInv ==
  ASSUME GgufInv, NEW name \in {"a", "b"}, NEW d1 \in Dims, NEW d2 \in Dims,
         NEW type \in type_traits, NEW offset \in Offsets,
         ReadTensor(name, d1, d2, type, offset)
  PROVE  GgufInv'
<1> DEFINE elements == Wrap(d1 * d2)
           ok == /\ Need(1)
                 /\ \A i \in DOMAIN tensors : tensors[i].name # name
                 /\ d1 # 0 /\ d2 # 0
                 /\ MulFits(1, d1) /\ MulFits(d1, d2)
                 /\ type.bytes # 0
                 /\ elements % type.elems = 0
                 /\ MulFits(elements \div type.elems, type.bytes)
                 /\ offset % align = 0
           t == [name |-> name, dims |-> <<d1, d2>>, elements |-> elements, type |-> type,
                 offset |-> offset]
<1>0. GgufTypeOK /\ parsing = "tensors"
  BY DEF GgufInv, ReadTensor
<1>1. CASE ok
  <2>1. tensors' = Append(tensors, t) /\ cursor' = cursor + 1 /\ UNCHANGED <<parsing, fileSize, align>>
    BY <1>1 DEF ReadTensor
  <2>2. /\ d1 * d2 \in Nat /\ Wrap(d1 * d2) = d1 * d2
        /\ ((d1 * d2) \div type.elems) * type.bytes \in 1 .. kMaxElements
        /\ Wrap(((d1 * d2) \div type.elems) * type.bytes) = ((d1 * d2) \div type.elems) * type.bytes
    BY <1>1, EntryBytes
  <2>3. d1 \in Nat /\ d2 \in Nat /\ offset \in 0 .. Word - 1 /\ Word \in Nat
    BY GgufConstants
  <2>4. t \in Entries
    BY <2>2, <2>3 DEF Entries
  <2>5. tensors' \in Seq(Entries) /\ Len(tensors') = Len(tensors) + 1
        /\ \A i \in 1 .. Len(tensors') : tensors'[i] = IF i <= Len(tensors) THEN tensors[i] ELSE t
    BY <1>0, <2>1, <2>4 DEF GgufTypeOK
  <2>6. t.dims[1] = d1 /\ t.dims[2] = d2 /\ t.type = type /\ t.elements = d1 * d2 /\ t.offset = offset
    BY <2>2
  <2> HIDE DEF t
  <2>7. Bytes(t) = ((d1 * d2) \div type.elems) * type.bytes
    BY <2>6 DEF Bytes
  <2>8. num_bytes(t) = Wrap(((d1 * d2) \div type.elems) * type.bytes)
    BY <2>6 DEF num_bytes
  <2>9. TensorSound(t)'
    <3>1. Bytes(t) \in 1 .. kMaxElements /\ num_bytes(t) = Bytes(t)
      BY <2>2, <2>7, <2>8
    <3>2. t.offset \in 0 .. Word - 1 /\ t.offset % align' = 0
      BY <1>1, <2>1, <2>3, <2>6
    <3> QED BY <3>1, <3>2 DEF TensorSound, t
  <2>10. ASSUME NEW i \in 1 .. Len(tensors') PROVE TensorSound(tensors[i])'
    <3>1. CASE i <= Len(tensors)
      <4>1. TensorSound(tensors[i]) /\ tensors'[i] = tensors[i]
        BY <1>0, <2>5, <3>1 DEF GgufInv, GgufTypeOK
      <4> QED BY <2>1, <4>1 DEF TensorSound, Bytes, num_bytes, Wrap
    <3>2. CASE ~(i <= Len(tensors))
      <4>1. tensors'[i] = t
        BY <2>5, <3>2
      <4> QED BY <2>9, <4>1 DEF TensorSound, Bytes, num_bytes, Wrap, t
    <3> QED BY <3>1, <3>2
  <2>11. cursor' \in 0 .. fileSize'
    <3>1. fileSize \in Nat /\ cursor \in Nat /\ cursor <= fileSize /\ fileSize < Word /\ Word \in Nat
      BY <1>0, GgufConstants DEF GgufTypeOK
    <3>2. cursor + 1 < Word
      <4>1. CASE fileSize = 0
        BY <3>1, <4>1, GgufConstants, GgufAssumption
      <4>2. CASE fileSize # 0
        BY <1>0, <3>1, <4>2, GgufConstants DEF GgufTypeOK
      <4> QED BY <4>1, <4>2
    <3>3. Wrap(cursor + 1) = cursor + 1 /\ Wrap(cursor + 1) <= fileSize
      BY <1>1, <3>1, <3>2, WrapFits DEF Need
    <3> QED BY <2>1, <3>1, <3>3
  <2>12. GgufTypeOK'
    BY <1>0, <2>1, <2>5, <2>11 DEF GgufTypeOK
  <2>13. fileSize \in Nat
    BY <1>0, GgufConstants DEF GgufTypeOK
  <2> QED BY <1>0, <2>1, <2>10, <2>11, <2>12, <2>13 DEF GgufInv, OpenFilesAreSound
<1>2. CASE ~ok
  <2> HIDE DEF ok
  <2>1. Reject
    BY <1>2 DEF ReadTensor, ok
  <2> QED BY <2>1, RejectInv
<1> QED BY <1>1, <1>2

\* The next tensor behind tensor i, and why every later one is behind its end.
Behind(i, j) == /\ i # j /\ tensors[i].offset <= tensors[j].offset
                /\ ~\E k \in DOMAIN tensors \ {i, j} :
                       tensors[k].offset > tensors[i].offset /\ tensors[k].offset < tensors[j].offset
Accepted ==
    /\ data_offset <= fileSize
    /\ \A i \in DOMAIN tensors : Inside(tensors[i], fileSize - data_offset)
    /\ \A i, j \in DOMAIN tensors :
           Behind(i, j) => Wrap(tensors[i].offset + num_bytes(tensors[i])) <= tensors[j].offset

LEMMA DataBehindCursor ==
  ASSUME GgufTypeOK
  PROVE  data_offset \in Nat /\ data_offset >= cursor
         /\ \A m \in Nat : m % align = 0 => (data_offset + m) % align = 0
<1>1. cursor \in Nat /\ align \in {1, 2, 4}
  BY GgufConstants DEF GgufTypeOK
<1>2. 0 % align = 0
  BY <1>1
<1>3. data_offset \in Nat /\ data_offset >= cursor
  BY <1>1, <1>2, AlignedUp DEF data_offset
<1>4. ASSUME NEW m \in Nat, m % align = 0 PROVE (data_offset + m) % align = 0
  BY <1>1, <1>4, AlignedUp DEF data_offset
<1> QED BY <1>3, <1>4

LEMMA InsideMeans ==
  ASSUME GgufInv, Accepted, NEW i \in DOMAIN tensors
  PROVE  /\ tensors[i].offset \in Nat /\ Bytes(tensors[i]) \in Nat /\ Bytes(tensors[i]) > 0
         /\ num_bytes(tensors[i]) = Bytes(tensors[i]) /\ tensors[i].offset % align = 0
         /\ data_offset + tensors[i].offset + Bytes(tensors[i]) <= fileSize
         /\ Wrap(tensors[i].offset + num_bytes(tensors[i])) = tensors[i].offset + Bytes(tensors[i])
<1>0. GgufTypeOK /\ fileSize \in Nat /\ fileSize < Word /\ data_offset \in Nat /\ kMaxElements \in Nat /\ Word \in Nat
  BY GgufConstants, DataBehindCursor DEF GgufInv, GgufTypeOK
<1>1. TensorSound(tensors[i])
  BY <1>0 DEF GgufInv, GgufTypeOK
<1>2. PICK o, b : o = tensors[i].offset /\ b = Bytes(tensors[i])
  OBVIOUS
<1>3. o \in Nat /\ b \in Nat /\ b > 0 /\ num_bytes(tensors[i]) = b /\ o % align = 0
  BY <1>0, <1>1, <1>2 DEF TensorSound
<1>4. PICK blob : blob = fileSize - data_offset
  OBVIOUS
<1>5. blob \in Nat /\ blob < Word
  BY <1>0, <1>4 DEF Accepted
<1>6. o <= blob /\ b <= Wrap(blob - o)
  BY <1>2, <1>3, <1>4 DEF Accepted, Inside
<1>7. PICK g : g = blob - o
  OBVIOUS
<1>g. g \in Nat /\ g < Word /\ blob = o + g
  BY <1>0, <1>3, <1>5, <1>6, <1>7
<1>w. b <= g
  BY <1>6, <1>7, <1>g, WrapFits
<1>8. o + b <= blob /\ o + b \in Nat /\ o + b < Word
  BY <1>0, <1>3, <1>5, <1>g, <1>w
<1>9. Wrap(o + b) = o + b
  BY <1>8, WrapFits
<1> QED BY <1>0, <1>2, <1>3, <1>4, <1>8, <1>9

LEMMA LaterIsBehind ==
  ASSUME GgufInv, Accepted, NEW i \in DOMAIN tensors, NEW j \in DOMAIN tensors, i # j,
         tensors[i].offset <= tensors[j].offset
  PROVE  tensors[i].offset + Bytes(tensors[i]) <= tensors[j].offset
<1> DEFINE T == {tensors[k].offset : k \in {l \in DOMAIN tensors \ {i} : tensors[l].offset >= tensors[i].offset}}
<1>0. \A k \in DOMAIN tensors : tensors[k].offset \in Nat
  BY InsideMeans
<1>1. T \subseteq Nat /\ T # {} /\ tensors[j].offset \in T
  BY <1>0
<1>2. PICK m \in T : \A n \in T : m <= n
  BY <1>1, LeastNumber
<1>3. PICK k \in DOMAIN tensors \ {i} : tensors[k].offset = m /\ tensors[k].offset >= tensors[i].offset
  OBVIOUS
<1>4. Behind(i, k)
  <2>1. ASSUME NEW l \in DOMAIN tensors \ {i, k}, tensors[l].offset > tensors[i].offset,
               tensors[l].offset < tensors[k].offset
        PROVE  FALSE
    <3>1. tensors[l].offset \in T
      BY <1>0, <2>1
    <3>2. m <= tensors[l].offset /\ m \in Nat /\ tensors[l].offset \in Nat
      BY <1>0, <1>1, <1>2, <3>1
    <3> QED BY <1>3, <2>1, <3>2
  <2> QED BY <1>0, <1>3, <2>1 DEF Behind
<1>5. tensors[i].offset + Bytes(tensors[i]) <= tensors[k].offset
  BY <1>4, InsideMeans DEF Accepted
<1>6. m <= tensors[j].offset /\ m \in Nat
  BY <1>1, <1>2
<1> QED BY <1>0, <1>3, <1>5, <1>6, InsideMeans

LEMMA CheckLayoutInv == ASSUME GgufInv, CheckLayout PROVE GgufInv'
<1>1. CASE Accepted
  <2>1. parsing' = "open" /\ UNCHANGED <<fileSize, cursor, align, tensors>>
    BY <1>1 DEF CheckLayout, Accepted, Behind
  <2>2. GgufTypeOK'
    BY <2>1 DEF GgufInv, GgufTypeOK
  <2>3. GgufTypeOK /\ data_offset \in Nat /\ data_offset >= cursor /\ cursor \in Nat /\ fileSize \in Nat
        /\ \A m \in Nat : m % align = 0 => (data_offset + m) % align = 0
    BY DataBehindCursor, GgufConstants DEF GgufInv, GgufTypeOK
  <2>4. ASSUME NEW i \in DOMAIN tensors
        PROVE  /\ (data_offset + tensors[i].offset) % align = 0 /\ data_offset + tensors[i].offset >= cursor
               /\ data_offset + tensors[i].offset + Bytes(tensors[i]) <= fileSize
               /\ \A j \in DOMAIN tensors \ {i} :
                    \/ data_offset + tensors[i].offset + Bytes(tensors[i]) <= data_offset + tensors[j].offset
                    \/ data_offset + tensors[j].offset + Bytes(tensors[j]) <= data_offset + tensors[i].offset
    <3>1. /\ tensors[i].offset \in Nat /\ Bytes(tensors[i]) \in Nat /\ tensors[i].offset % align = 0
          /\ data_offset + tensors[i].offset + Bytes(tensors[i]) <= fileSize
      BY <1>1, InsideMeans
    <3>2. ASSUME NEW j \in DOMAIN tensors \ {i}
          PROVE  \/ data_offset + tensors[i].offset + Bytes(tensors[i]) <= data_offset + tensors[j].offset
                 \/ data_offset + tensors[j].offset + Bytes(tensors[j]) <= data_offset + tensors[i].offset
      <4>1. tensors[j].offset \in Nat /\ Bytes(tensors[j]) \in Nat
        BY <1>1, InsideMeans
      <4>2. \/ tensors[i].offset + Bytes(tensors[i]) <= tensors[j].offset
            \/ tensors[j].offset + Bytes(tensors[j]) <= tensors[i].offset
        <5>1. tensors[i].offset <= tensors[j].offset \/ tensors[j].offset <= tensors[i].offset
          BY <3>1, <4>1
        <5> QED BY <1>1, <5>1, LaterIsBehind
      <4> QED BY <2>3, <3>1, <4>1, <4>2
    <3> QED BY <2>3, <3>1, <3>2
  <2>5. OpenFilesAreSound
    BY DEF GgufInv
  <2>6. data_offset' = data_offset
    BY <2>1 DEF data_offset
  <2>7. OpenFilesAreSound'
    <3>1. cursor' <= fileSize'
      BY <2>1, <2>5 DEF OpenFilesAreSound
    <3> QED BY <2>1, <2>4, <2>6, <3>1 DEF OpenFilesAreSound, Bytes
  <2>8. \A i \in 1 .. Len(tensors) : TensorSound(tensors[i])'
    BY <2>1 DEF GgufInv, TensorSound, Bytes, num_bytes, Wrap
  <2> QED BY <2>1, <2>2, <2>7, <2>8 DEF GgufInv
<1>2. CASE ~Accepted
  <2>1. Reject
    BY <1>2 DEF CheckLayout, Accepted, Behind
  <2> QED BY <2>1, RejectInv
<1> QED BY <1>1, <1>2

LEMMA GgufStepInv == ASSUME GgufInv, [GgufNext]_ggufVars PROVE GgufInv'
<1>1. CASE TensorsRead
  <2>1. parsing = "tensors" /\ parsing' = "layout" /\ UNCHANGED <<fileSize, cursor, align, tensors>>
    BY <1>1 DEF TensorsRead
  <2>2. GgufTypeOK' /\ OpenFilesAreSound'
    BY <2>1 DEF GgufInv, GgufTypeOK, OpenFilesAreSound
  <2>3. \A i \in 1 .. Len(tensors) : TensorSound(tensors[i])'
    BY <2>1 DEF GgufInv, TensorSound, Bytes, num_bytes, Wrap
  <2> QED BY <2>1, <2>2, <2>3 DEF GgufInv
<1>2. CASE UNCHANGED ggufVars
  <2>1. GgufTypeOK' /\ OpenFilesAreSound'
    BY <1>2 DEF GgufInv, GgufTypeOK, OpenFilesAreSound, ggufVars, data_offset
  <2>2. \A i \in 1 .. Len(tensors) : TensorSound(tensors[i])'
    BY <1>2 DEF GgufInv, TensorSound, Bytes, num_bytes, Wrap, ggufVars
  <2> QED BY <1>2, <2>1, <2>2 DEF GgufInv, ggufVars
<1> QED BY <1>1, <1>2, ReadHeaderInv, ReadStringInv, ReadAlignmentInv, ReadTensorInv, CheckLayoutInv
        DEF GgufNext

\* Whatever the numbers in the file and however they wrap: the cursor stays in the file,
\* and an accepted file has every tensor inside, aligned, and apart from the others.
THEOREM OpenFilesSound == GgufSpec => []OpenFilesAreSound
<1>1. GgufInv => OpenFilesAreSound
  BY DEF GgufInv
<1> QED BY <1>1, GgufInitInv, GgufStepInv, PTL DEF GgufSpec


-----------------------------------------------------------------------------
(***************************************************************************)
(* The inverted lists of 09-vector-ann.                                    *)
(***************************************************************************)

(***************************************************************************)
(* The nearest of some cells.                                              *)
(***************************************************************************)
Centred == NList \in Nat \ {0} /\ centroids \in [Cells -> Nat]

LEMMA DistanceType == ASSUME NEW a \in Nat, NEW b \in Nat PROVE Distance(a, b) \in Nat
BY DEF Distance

LEMMA NearestIn ==
  ASSUME Centred, NEW v \in Nat, NEW S \in SUBSET Cells, S # {}
  PROVE  Nearest(v, S) \in S
<1> DEFINE D(c) == Distance(v, centroids[c])
           all == {D(c) : c \in S}
<1>0. Cells \subseteq Nat /\ \A c \in S : D(c) \in Nat /\ c \in Nat
  <2>1. Cells \subseteq Nat
    BY DEF Centred, Cells
  <2>2. ASSUME NEW c \in S PROVE D(c) \in Nat /\ c \in Nat
    <3>1. centroids[c] \in Nat /\ c \in Nat
      BY <2>1 DEF Centred
    <3> QED BY <3>1, DistanceType
  <2> HIDE DEF D
  <2> QED BY <2>1, <2>2
<1>1. all \subseteq Nat /\ all # {}
  BY <1>0
<1>2. PICK m \in all : \A n \in all : m <= n
  <2> HIDE DEF all
  <2> QED BY <1>1, LeastNumber
<1> DEFINE best == {c \in S : D(c) = m}
<1>3. best \subseteq Nat /\ best # {}
  BY <1>0, <1>2
<1>4. PICK c \in best : \A d \in best : c <= d
  <2> HIDE DEF best
  <2> QED BY <1>3, LeastNumber
<1>5. ASSUME NEW d \in S PROVE D(c) < D(d) \/ (D(c) = D(d) /\ c <= d)
  <2>1. D(c) = m /\ m <= D(d) /\ D(d) \in Nat /\ m \in Nat
    BY <1>0, <1>2, <1>4
  <2>2. D(d) = m => c <= d
    BY <1>4
  <2> HIDE DEF D
  <2> QED BY <2>1, <2>2
<1>6. c \in S
  BY <1>4
<1> QED BY <1>5, <1>6 DEF Nearest

(***************************************************************************)
(* The counting sort of add().                                             *)
(***************************************************************************)
InCell(vs, c) == {i \in DOMAIN vs : k_assign(vs[i]) = c}
BelowCell(vs, c) == {i \in DOMAIN vs : k_assign(vs[i]) < c}

LEMMA Assigned ==
  ASSUME Centred, NEW n \in Nat, NEW vs \in [0 .. n - 1 -> Nat]
  PROVE  /\ \A i \in DOMAIN vs : k_assign(vs[i]) \in Cells
         /\ IsFiniteSet(DOMAIN vs) /\ Cardinality(DOMAIN vs) = n
         /\ \A S \in SUBSET DOMAIN vs : IsFiniteSet(S) /\ Cardinality(S) \in Nat /\ Cardinality(S) <= n
         /\ DOMAIN vs \subseteq Int
<1>1. Cells \in SUBSET Cells /\ Cells # {}
  <2>1. NList \in Nat /\ NList # 0
    BY ONLY Centred DEF Centred
  <2>2. 0 \in 0 .. NList - 1
    BY ONLY <2>1
  <2>3. 0 \in Cells
    BY ONLY <2>2 DEF Cells
  <2> QED BY ONLY <2>3
<1>2. \A i \in DOMAIN vs : k_assign(vs[i]) \in Cells
  BY <1>1, NearestIn DEF k_assign
<1>3. IsFiniteSet(DOMAIN vs) /\ Cardinality(DOMAIN vs) = n
  <2>1. PICK z \in Int, y \in Int : z = 0 /\ y = n - 1
    OBVIOUS
  <2>2. IsFiniteSet(z .. y) /\ Cardinality(z .. y) = IF z > y THEN 0 ELSE y - z + 1
    BY FS_Interval
  <2> QED BY <2>1, <2>2
<1>4. \A S \in SUBSET DOMAIN vs : IsFiniteSet(S) /\ Cardinality(S) \in Nat /\ Cardinality(S) <= n
  BY <1>3, FS_Subset, FS_CardinalityType
<1> QED BY <1>2, <1>3, <1>4

LEMMA CellBehind ==
  ASSUME Centred, NEW n \in Nat, NEW vs \in [0 .. n - 1 -> Nat], NEW c \in Cells
  PROVE  Cardinality(BelowCell(vs, c + 1)) = Cardinality(BelowCell(vs, c)) + Counted(vs)[c]
<1>1. \A i \in DOMAIN vs : k_assign(vs[i]) \in Int
  BY Assigned DEF Cells, Centred
<1>2. c \in Int
  BY DEF Cells, Centred
<1>3. BelowCell(vs, c + 1) = BelowCell(vs, c) \cup InCell(vs, c) /\ BelowCell(vs, c) \cap InCell(vs, c) = {}
  BY <1>1, <1>2 DEF BelowCell, InCell
<1>4. IsFiniteSet(BelowCell(vs, c)) /\ IsFiniteSet(InCell(vs, c))
      /\ Cardinality(BelowCell(vs, c)) \in Nat /\ Cardinality(InCell(vs, c)) \in Nat
  <2>1. BelowCell(vs, c) \in SUBSET DOMAIN vs /\ InCell(vs, c) \in SUBSET DOMAIN vs
    BY DEF BelowCell, InCell
  <2> QED BY <2>1, Assigned
<1>5. Cardinality(BelowCell(vs, c + 1)) = Cardinality(BelowCell(vs, c)) + Cardinality(InCell(vs, c)) - Cardinality({})
  BY <1>3, <1>4, FS_Union
<1>6. Counted(vs)[c] = Cardinality(InCell(vs, c))
  BY DEF Counted, InCell
<1> QED BY <1>4, <1>5, <1>6, FS_EmptySet

\* The recursion of Starts has one solution, the number of vectors of the
\* cells before.
LEMMA StartsCount ==
  ASSUME Centred, NEW n \in Nat, NEW vs \in [0 .. n - 1 -> Nat]
  PROVE  Starts(Counted(vs)) = [c \in Cells |-> Cardinality(BelowCell(vs, c))]
<1> DEFINE count == Counted(vs)
           Body(f) == [c \in Cells |-> IF c = 0 THEN 0 ELSE f[c - 1] + count[c - 1]]
           before == [c \in Cells |-> Cardinality(BelowCell(vs, c))]
<1>0. NList - 1 \in Nat /\ Cells = 0 .. NList - 1
  BY DEF Centred, Cells
<1>1. Cardinality(BelowCell(vs, 0)) = 0
  <2>1. BelowCell(vs, 0) = {}
    <3>1. ASSUME NEW i \in DOMAIN vs PROVE ~(k_assign(vs[i]) < 0)
      <4>1. k_assign(vs[i]) \in Cells
        BY Assigned
      <4> QED BY <1>0, <4>1
    <3> QED BY <3>1 DEF BelowCell
  <2> QED BY <2>1, FS_EmptySet
<1>2. ASSUME NEW c \in Cells, c # 0
      PROVE  c - 1 \in Cells /\ before[c] = before[c - 1] + count[c - 1]
  <2>1. c - 1 \in Cells /\ (c - 1) + 1 = c
    BY <1>0, <1>2
  <2>2. Cardinality(BelowCell(vs, (c - 1) + 1)) = Cardinality(BelowCell(vs, c - 1)) + Counted(vs)[c - 1]
    BY <2>1, CellBehind
  <2> QED BY <2>1, <2>2
<1>3. before = Body(before)
  <2> HIDE DEF count
  <2>1. \A c \in Cells : before[c] = IF c = 0 THEN 0 ELSE before[c - 1] + count[c - 1]
    BY <1>1, <1>2
  <2> QED BY <2>1
<1>4. ASSUME NEW f, f = Body(f) PROVE f = before
  <2> DEFINE Good == {m \in 0 .. NList - 1 : f[m] = before[m]}
  <2> HIDE DEF before, count
  <2>1. 0 \in Good
    <3>1. f[0] = 0
      BY <1>0, <1>4
    <3>2. before[0] = 0
      BY <1>0, <1>3
    <3> QED BY <1>0, <3>1, <3>2
  <2>2. ASSUME NEW m \in 0 .. (NList - 1) - 1, m \in Good PROVE m + 1 \in Good
    <3>1. m + 1 \in Cells /\ m + 1 # 0 /\ (m + 1) - 1 = m /\ m + 1 \in 0 .. NList - 1
      BY <1>0, <2>2
    <3>2. f[m + 1] = f[m] + count[m]
      BY <1>4, <3>1
    <3>3. before[m + 1] = before[m] + count[m]
      BY <1>3, <3>1
    <3> QED BY <2>2, <3>1, <3>2, <3>3
  <2>3. 0 .. NList - 1 \subseteq Good
    <3> HIDE DEF Good
    <3> QED BY <1>0, <2>1, <2>2, NoCounterexample
  <2>4. \A c \in Cells : f[c] = before[c]
    BY <1>0, <2>3
  <2>5. f = [c \in Cells |-> f[c]] /\ before = [c \in Cells |-> before[c]]
    BY <1>3, <1>4
  <2> QED BY <2>4, <2>5
<1>5. Starts(count) = CHOOSE f : f = Body(f)
  BY DEF Starts
<1> HIDE DEF before, count
<1>6. PICK g : g = Starts(count) /\ g = Body(g)
  BY <1>3, <1>5
<1>7. g = before
  BY <1>4, <1>6
<1> QED BY <1>6, <1>7 DEF before, count

\* add() files every vector in one place of one list.
At(start, ids, c, j) == ids[start[c] + j - 1]
Filed(n, start, count, ids) ==
    /\ \A c \in Cells : \A j \in 1 .. count[c] : At(start, ids, c, j) \in 0 .. n - 1
    /\ \A c, d \in Cells : \A i \in 1 .. count[c], j \in 1 .. count[d] :
          At(start, ids, c, i) = At(start, ids, d, j) => c = d /\ i = j
    /\ \A id \in 0 .. n - 1 : \E c \in Cells : \E j \in 1 .. count[c] : At(start, ids, c, j) = id

LEMMA CountingSort ==
  ASSUME Centred, NEW n \in Nat, NEW vs \in [0 .. n - 1 -> Nat]
  PROVE  /\ Counted(vs) \in [Cells -> Nat] /\ Starts(Counted(vs)) \in [Cells -> Nat]
         /\ Filed(n, Starts(Counted(vs)), Counted(vs), Placed(vs))
<1> DEFINE count == Counted(vs)
           start == Starts(Counted(vs))
           cell(i) == k_assign(vs[i])
           rank(i) == RankIn(InCell(vs, cell(i)), i)
           place(i) == Place(vs, i)
           below(c) == Cardinality(BelowCell(vs, c))
<1>0. DOMAIN vs = 0 .. n - 1 /\ Cells \subseteq Nat /\ \A i \in 0 .. n - 1 : cell(i) \in Cells /\ i \in InCell(vs, cell(i))
  <2>1. DOMAIN vs = 0 .. n - 1 /\ Cells \subseteq Nat
    BY DEF Cells, Centred
  <2>2. \A i \in DOMAIN vs : cell(i) \in Cells
    BY Assigned
  <2> QED BY <2>1, <2>2 DEF InCell
<1>p. \A i : place(i) = start[cell(i)] + rank(i)
  <2> SUFFICES ASSUME NEW i PROVE place(i) = start[cell(i)] + rank(i)
    OBVIOUS
  <2>1. {j \in DOMAIN vs : j < i /\ k_assign(vs[j]) = k_assign(vs[i])} = {j \in InCell(vs, cell(i)) : j < i}
    BY DEF InCell
  <2> QED BY <2>1 DEF Place, RankIn
<1>1. \A c : below(c) \in Nat /\ below(c) <= n
  <2>1. \A c : BelowCell(vs, c) \in SUBSET DOMAIN vs
    BY DEF BelowCell
  <2> QED BY <2>1, Assigned
<1>2. ASSUME NEW c \in Cells
      PROVE  /\ count[c] = Cardinality(InCell(vs, c)) /\ count[c] \in Nat
             /\ start[c] = below(c) /\ start[c] \in Nat
             /\ start[c] + count[c] = below(c + 1)
  <2>1. InCell(vs, c) \in SUBSET DOMAIN vs
    BY DEF InCell
  <2>2. Cardinality(InCell(vs, c)) \in Nat
    BY <2>1, Assigned
  <2>3. count[c] = Cardinality(InCell(vs, c))
    BY DEF Counted, InCell
  <2>4. start[c] = below(c)
    BY StartsCount
  <2>5. below(c + 1) = below(c) + count[c]
    BY CellBehind
  <2> QED BY <1>1, <2>2, <2>3, <2>4, <2>5
<1>3. count \in [Cells -> Nat] /\ start \in [Cells -> Nat]
  <2>1. count = [c \in Cells |-> count[c]]
    BY DEF Counted
  <2>2. start = [c \in Cells |-> start[c]]
    BY StartsCount
  <2> HIDE DEF count, start
  <2> QED BY <1>2, <2>1, <2>2
<1>4. ASSUME NEW c \in Cells
      PROVE  /\ \A i \in InCell(vs, c) : RankIn(InCell(vs, c), i) \in 0 .. count[c] - 1
             /\ \A i, j \in InCell(vs, c) : RankIn(InCell(vs, c), i) = RankIn(InCell(vs, c), j) => i = j
             /\ \A r \in 0 .. count[c] - 1 : \E i \in InCell(vs, c) : RankIn(InCell(vs, c), i) = r
  <2>1. PICK R : R = InCell(vs, c)
    OBVIOUS
  <2>2. R \subseteq Int /\ IsFiniteSet(R)
    <3>1. R \in SUBSET DOMAIN vs
      BY <2>1 DEF InCell
    <3> QED BY <3>1, Assigned
  <2>3. /\ \A l \in R : RankIn(R, l) \in 0 .. Cardinality(R) - 1
        /\ \A l, m \in R : RankIn(R, l) = RankIn(R, m) => l = m
        /\ {RankIn(R, l) : l \in R} = 0 .. Cardinality(R) - 1
    BY <2>2, Ranks
  <2>4. Cardinality(R) = count[c]
    BY <1>2, <2>1
  <2> HIDE DEF count
  <2> QED BY <2>1, <2>3, <2>4
<1>5. ASSUME NEW c \in Cells, NEW d \in Cells, c < d PROVE start[c] + count[c] <= start[d]
  <2>1. BelowCell(vs, c + 1) \in SUBSET BelowCell(vs, d)
    <3>1. \A i \in DOMAIN vs : k_assign(vs[i]) \in Nat
      BY <1>0
    <3>2. c \in Nat /\ d \in Nat
      BY <1>0
    <3> QED BY <1>5, <3>1, <3>2 DEF BelowCell
  <2>2. IsFiniteSet(BelowCell(vs, d))
    <3>1. BelowCell(vs, d) \in SUBSET DOMAIN vs
      BY DEF BelowCell
    <3> QED BY <3>1, Assigned
  <2>3. below(c + 1) <= below(d)
    BY <2>1, <2>2, FS_Subset
  <2> QED BY <1>2, <2>3
<1>6. ASSUME NEW i \in 0 .. n - 1
      PROVE  /\ rank(i) \in 0 .. count[cell(i)] - 1 /\ place(i) \in 0 .. n - 1
             /\ start[cell(i)] <= place(i) /\ place(i) < start[cell(i)] + count[cell(i)]
  <2>1. PICK c \in Cells : c = cell(i) /\ i \in InCell(vs, c)
    BY <1>0
  <2>2. rank(i) \in 0 .. count[c] - 1
    BY <1>4, <2>1
  <2>3. start[c] \in Nat /\ count[c] \in Nat /\ start[c] + count[c] <= n
    BY <1>1, <1>2
  <2>4. place(i) = start[c] + rank(i)
    BY <1>p, <2>1
  <2> HIDE DEF start, count, cell, rank, place
  <2> QED BY <2>1, <2>2, <2>3, <2>4, SMTT(30)
<1>7. ASSUME NEW i \in 0 .. n - 1, NEW j \in 0 .. n - 1, place(i) = place(j) PROVE i = j
  <2>1. cell(i) \in Cells /\ cell(j) \in Cells /\ cell(i) \in Nat /\ cell(j) \in Nat
    BY <1>0
  <2>2. /\ start[cell(i)] \in Nat /\ count[cell(i)] \in Nat /\ start[cell(j)] \in Nat /\ count[cell(j)] \in Nat
        /\ cell(i) < cell(j) => start[cell(i)] + count[cell(i)] <= start[cell(j)]
        /\ cell(j) < cell(i) => start[cell(j)] + count[cell(j)] <= start[cell(i)]
    BY <1>2, <1>5, <2>1
  <2>3. /\ place(i) \in Nat /\ place(j) \in Nat
        /\ start[cell(i)] <= place(i) /\ place(i) < start[cell(i)] + count[cell(i)]
        /\ start[cell(j)] <= place(j) /\ place(j) < start[cell(j)] + count[cell(j)]
    BY <1>6
  <2>4. cell(i) = cell(j)
    <3> HIDE DEF start, count, cell, place
    <3> QED BY <1>7, <2>1, <2>2, <2>3, SMTT(30)
  <2>5. rank(i) = rank(j)
    <3>1. rank(i) \in Nat /\ rank(j) \in Nat
      <4>1. rank(i) \in 0 .. count[cell(i)] - 1 /\ rank(j) \in 0 .. count[cell(j)] - 1
        BY <1>6
      <4> HIDE DEF rank, count, cell
      <4> QED BY <4>1
    <3> HIDE DEF start, count, cell, rank, place
    <3> QED BY <1>7, <1>p, <2>2, <2>4, <3>1
  <2>6. PICK c \in Cells : c = cell(i) /\ c = cell(j) /\ i \in InCell(vs, c) /\ j \in InCell(vs, c)
    BY <1>0, <2>4
  <2>7. RankIn(InCell(vs, c), i) = RankIn(InCell(vs, c), j)
    BY <2>5, <2>6
  <2> QED BY <1>4, <2>6, <2>7
<1>8. Placed(vs) = [p \in 0 .. n - 1 |-> CHOOSE i \in 0 .. n - 1 : place(i) = p]
  BY <1>0 DEF Placed
<1>9. \A i \in 0 .. n - 1 : Placed(vs)[place(i)] = i
  <2> SUFFICES ASSUME NEW i \in 0 .. n - 1 PROVE Placed(vs)[place(i)] = i
    OBVIOUS
  <2>1. Placed(vs)[place(i)] = CHOOSE j \in 0 .. n - 1 : place(j) = place(i)
    <3>1. place(i) \in 0 .. n - 1
      BY <1>6
    <3> HIDE DEF place
    <3> QED BY <1>8, <3>1
  <2> HIDE DEF place
  <2> QED BY <1>7, <2>1
<1>10. ASSUME NEW c \in Cells, NEW j \in 1 .. count[c]
       PROVE  \E i \in 0 .. n - 1 : At(start, Placed(vs), c, j) = i /\ cell(i) = c /\ rank(i) = j - 1
  <2>1. count[c] \in Nat /\ start[c] \in Nat
    BY <1>2
  <2>2. j - 1 \in 0 .. count[c] - 1
    <3> HIDE DEF count
    <3> QED BY <2>1
  <2>3. PICK i \in InCell(vs, c) : RankIn(InCell(vs, c), i) = j - 1
    BY <1>4, <2>2
  <2>4. i \in 0 .. n - 1 /\ cell(i) = c
    BY <1>0, <2>3 DEF InCell
  <2>5. rank(i) = j - 1
    BY <2>3, <2>4
  <2>6. place(i) = start[c] + j - 1
    <3>1. place(i) = start[c] + (j - 1)
      BY <1>p, <2>4, <2>5
    <3> HIDE DEF start, place
    <3> QED BY <2>1, <3>1
  <2>7. At(start, Placed(vs), c, j) = Placed(vs)[place(i)]
    <3> HIDE DEF start, place
    <3> QED BY <2>6 DEF At
  <2> QED BY <1>9, <2>4, <2>5, <2>7
<1>11. ASSUME NEW c \in Cells, NEW d \in Cells, NEW i \in 1 .. count[c], NEW j \in 1 .. count[d],
              At(start, Placed(vs), c, i) = At(start, Placed(vs), d, j)
       PROVE  c = d /\ i = j
  <2>1. PICK x \in 0 .. n - 1 : At(start, Placed(vs), c, i) = x /\ cell(x) = c /\ rank(x) = i - 1
    BY <1>10
  <2>2. PICK y \in 0 .. n - 1 : At(start, Placed(vs), d, j) = y /\ cell(y) = d /\ rank(y) = j - 1
    BY <1>10
  <2>3. x = y /\ i - 1 = j - 1
    BY <1>11, <2>1, <2>2
  <2>4. i \in Int /\ j \in Int
    OBVIOUS
  <2> QED BY <2>1, <2>2, <2>3, <2>4
<1>12. ASSUME NEW id \in 0 .. n - 1
       PROVE  \E c \in Cells : \E j \in 1 .. count[c] : At(start, Placed(vs), c, j) = id
  <2>1. PICK c \in Cells : c = cell(id)
    BY <1>0
  <2>2. PICK r \in 0 .. count[c] - 1 : r = rank(id) /\ place(id) = start[c] + r
    BY <1>6, <1>p, <2>1
  <2>3. start[c] \in Nat /\ count[c] \in Nat
    BY <1>2
  <2>4. r + 1 \in 1 .. count[c] /\ start[c] + (r + 1) - 1 = place(id)
    <3> HIDE DEF start, count, place
    <3> QED BY <2>2, <2>3
  <2>5. At(start, Placed(vs), c, r + 1) = id
    <3> HIDE DEF start, count, place
    <3> QED BY <1>9, <2>4 DEF At
  <2> QED BY <2>4, <2>5
<1> HIDE DEF start, count, cell, rank
<1>13. Filed(n, start, count, Placed(vs))
  <2>1. \A c \in Cells : \A j \in 1 .. count[c] : At(start, Placed(vs), c, j) \in 0 .. n - 1
    BY <1>10
  <2> QED BY <1>11, <1>12, <2>1 DEF Filed
<1> QED BY <1>3, <1>13 DEF start, count

(***************************************************************************)
(* Searching.  best holds the nearest of the vectors M met so far.         *)
(***************************************************************************)
Results == [d : Nat, id : Int]

Honest(best, M, q, r) ==
    IF best[r].id = -1 THEN best[r].d = kFar
    ELSE best[r].id \in M /\ best[r].d = Distance(q, db[best[r].id])

BestOf(best, M, q, k) ==
    /\ best \in [1 .. k -> Results]
    /\ \A r \in 1 .. k : Honest(best, M, q, r)
    /\ \A r, s \in 1 .. k : r # s /\ best[r].id # -1 => best[r].id # best[s].id
    /\ \A r, s \in 1 .. k : r <= s => best[r].d <= best[s].d
    /\ \A m \in M : \/ \E r \in 1 .. k : best[r].id = m
                    \/ \A r \in 1 .. k : best[r].d <= Distance(q, db[m])

\* The vectors of the index; ids count from 0.
Indexed(n) == n \in Nat /\ db \in [0 .. n - 1 -> Nat]

LEMMA DistancesOf ==
  ASSUME NEW n, Indexed(n), NEW q \in Nat, NEW m \in 0 .. n - 1
  PROVE  Distance(q, db[m]) \in Nat
<1>1. db[m] \in Nat
  BY DEF Indexed
<1> QED BY <1>1, DistanceType

LEMMA BestOfNone ==
  ASSUME NEW k \in Nat, NEW q PROVE BestOf(Far(k), {}, q, k)
<1>1. Far(k) \in [1 .. k -> Results] /\ \A r \in 1 .. k : Far(k)[r].id = -1 /\ Far(k)[r].d = kFar
  BY DEF Far, Entry, Results, kFar
<1>2. \A r, s \in 1 .. k : Far(k)[r].d <= Far(k)[s].d
  BY <1>1 DEF kFar
<1> QED BY <1>1, <1>2 DEF BestOf, Honest

LEMMA InsertKeepsBest ==
  ASSUME NEW n, Indexed(n), NEW q \in Nat, NEW k \in Nat, NEW M \in SUBSET (0 .. n - 1),
         NEW best, BestOf(best, M, q, k), NEW id \in (0 .. n - 1) \ M
  PROVE  BestOf(topk_insert(best, Entry(Distance(q, db[id]), id)), M \cup {id}, q, k)
<1> DEFINE e == Entry(Distance(q, db[id]), id)
           new == topk_insert(best, e)
           farther == {i \in 1 .. k : best[i].d > e.d}
<1>0. /\ e \in Results /\ e.id = id /\ e.d = Distance(q, db[id]) /\ id # -1 /\ id \in Int
      /\ best \in [1 .. k -> Results] /\ DOMAIN best = 1 .. k
      /\ \A r \in 1 .. k : best[r] \in Results /\ best[r].d \in Nat /\ best[r].id \in Int
  <2>1. Distance(q, db[id]) \in Nat
    BY DistancesOf
  <2>2. id \in Int /\ id # -1
    BY DEF Indexed
  <2> QED BY <2>1, <2>2 DEF Entry, Results, BestOf
<1>1. new = [i \in 1 .. k |-> IF i \notin farther THEN best[i] ELSE IF i - 1 \in farther THEN best[i - 1] ELSE e]
  <2> HIDE DEF e
  <2> QED BY <1>0 DEF topk_insert
<1> HIDE DEF e, new
\* farther is a final part of the list.
<1>2. \A r \in farther : \A s \in 1 .. k : r <= s => s \in farther
  <2> SUFFICES ASSUME NEW r \in farther, NEW s \in 1 .. k, r <= s PROVE s \in farther
    OBVIOUS
  <2>1. best[r].d <= best[s].d /\ best[r].d > e.d /\ best[r].d \in Nat /\ best[s].d \in Nat /\ e.d \in Nat
    BY <1>0 DEF BestOf, Results
  <2>2. best[s].d > e.d
    BY <2>1
  <2> QED BY <2>2
\* What place r holds now.
<1>3. ASSUME NEW r \in 1 .. k
      PROVE  \/ r \notin farther /\ new[r] = best[r]
             \/ r \in farther /\ r - 1 \in farther /\ r - 1 \in 1 .. k /\ new[r] = best[r - 1]
             \/ r \in farther /\ r - 1 \notin farther /\ new[r] = e
  BY <1>1
<1>4. new \in [1 .. k -> Results]
  <2>1. \A r \in 1 .. k : new[r] \in Results
    BY <1>0, <1>3
  <2> QED BY <1>1, <2>1
<1>5. ASSUME NEW r \in 1 .. k PROVE Honest(new, M \cup {id}, q, r)
  <2>1. ASSUME NEW s \in 1 .. k, new[r] = best[s] PROVE Honest(new, M \cup {id}, q, r)
    BY <2>1 DEF Honest, BestOf
  <2>2. ASSUME new[r] = e PROVE Honest(new, M \cup {id}, q, r)
    BY <1>0, <2>2 DEF Honest
  <2> QED BY <1>3, <2>1, <2>2
<1>6. \A s \in 1 .. k : best[s].id # id
  BY <1>0 DEF BestOf, Honest
<1>7. ASSUME NEW r \in 1 .. k, NEW s \in 1 .. k, r # s, new[r].id # -1 PROVE new[r].id # new[s].id
  <2>1. ASSUME NEW x \in 1 .. k, NEW y \in 1 .. k, x # y, best[x].id # -1 PROVE best[x].id # best[y].id
    BY <2>1 DEF BestOf
  <2>2. ASSUME r \in farther, r - 1 \notin farther, s \in farther, s - 1 \notin farther PROVE FALSE
    <3>1. r \in Int /\ s \in Int
      OBVIOUS
    <3>2. CASE r < s
      <4>1. s - 1 \in 1 .. k /\ r <= s - 1
        BY <3>1, <3>2
      <4> QED BY <1>2, <2>2, <4>1
    <3>3. CASE s < r
      <4>1. r - 1 \in 1 .. k /\ s <= r - 1
        BY <3>1, <3>3
      <4> QED BY <1>2, <2>2, <4>1
    <3> QED BY <1>7, <3>1, <3>2, <3>3
  <2>3. ASSUME r \in farther, s \in farther PROVE r - 1 # s - 1
    BY <1>7
  <2>r. CASE new[r] = e
    BY <1>0, <1>3, <1>6, <2>r, <2>2
  <2>s. CASE new[s] = e
    BY <1>0, <1>3, <1>6, <2>s, <2>2
  <2>4. CASE new[r] # e /\ new[s] # e
    <3>1. PICK x \in 1 .. k : new[r] = best[x] /\ ((x = r /\ r \notin farther) \/ (x = r - 1 /\ r \in farther /\ x \in farther))
      BY <1>3, <2>4
    <3>2. PICK y \in 1 .. k : new[s] = best[y] /\ ((y = s /\ s \notin farther) \/ (y = s - 1 /\ s \in farther /\ y \in farther))
      BY <1>3, <2>4
    <3>3. x # y
      BY <1>7, <2>3, <3>1, <3>2
    <3> QED BY <1>7, <2>1, <3>1, <3>2, <3>3
  <2> QED BY <2>r, <2>s, <2>4
\* Places do not get farther.
<1>8. ASSUME NEW r \in 1 .. k PROVE new[r].d <= best[r].d /\ new[r].d \in Nat
  <2>0. e.d \in Nat
    BY <1>0 DEF Results
  <2>1. CASE r \notin farther /\ new[r] = best[r]
    BY <1>0, <2>1
  <2>2. CASE r \in farther /\ r - 1 \in 1 .. k /\ new[r] = best[r - 1]
    <3>1. best[r - 1].d <= best[r].d
      BY <2>2 DEF BestOf
    <3> QED BY <1>0, <2>2, <3>1
  <2>3. CASE r \in farther /\ new[r] = e
    BY <1>0, <2>0, <2>3
  <2> QED BY <1>3, <2>1, <2>2, <2>3
<1>9. ASSUME NEW r \in 1 .. k, NEW s \in 1 .. k, r <= s PROVE new[r].d <= new[s].d
  <2>0. e.d \in Nat /\ r \in Int /\ s \in Int
    BY <1>0 DEF Results
  <2>1. CASE s \notin farther
    <3>1. r \notin farther
      BY <1>2, <1>9, <2>1
    <3>2. new[r] = best[r] /\ new[s] = best[s]
      BY <1>3, <2>1, <3>1
    <3> QED BY <1>9, <3>2 DEF BestOf
  <2>2. CASE s \in farther /\ new[s] = e /\ s - 1 \notin farther
    <3>1. CASE r = s
      BY <2>0, <2>2, <3>1
    <3>2. CASE r # s
      <4>1. r <= s - 1 /\ s - 1 \in 1 .. k
        BY <1>9, <2>0, <3>2
      <4>2. r \notin farther
        BY <1>2, <2>2, <4>1
      <4>3. best[r].d <= e.d /\ new[r] = best[r]
        BY <1>0, <1>3, <2>0, <4>2
      <4> QED BY <2>2, <4>3
    <3> QED BY <3>1, <3>2
  <2>3. CASE s \in farther /\ s - 1 \in farther /\ new[s] = best[s - 1] /\ s - 1 \in 1 .. k
    <3>1. CASE r = s
      BY <1>0, <2>3, <3>1
    <3>2. CASE r # s
      <4>1. r <= s - 1
        BY <1>9, <2>0, <3>2
      <4>2. best[r].d <= best[s - 1].d
        BY <2>3, <4>1 DEF BestOf
      <4>3. new[r].d <= best[r].d /\ new[r].d \in Nat /\ best[r].d \in Nat /\ best[s - 1].d \in Nat
        BY <1>0, <1>8, <2>3
      <4> QED BY <2>3, <4>2, <4>3
    <3> QED BY <3>1, <3>2
  <2> QED BY <1>3, <2>1, <2>2, <2>3
<1>10. ASSUME NEW m \in M PROVE (\E r \in 1 .. k : new[r].id = m) \/ \A r \in 1 .. k : new[r].d <= Distance(q, db[m])
  <2>0. Distance(q, db[m]) \in Nat
    BY DistancesOf
  <2>1. CASE \A r \in 1 .. k : best[r].d <= Distance(q, db[m])
    <3>1. \A r \in 1 .. k : new[r].d <= best[r].d /\ new[r].d \in Nat /\ best[r].d \in Nat
      BY <1>0, <1>8
    <3> QED BY <2>0, <2>1, <3>1
  <2>2. ASSUME NEW r \in 1 .. k, best[r].id = m
        PROVE  (\E s \in 1 .. k : new[s].id = m) \/ \A s \in 1 .. k : new[s].d <= Distance(q, db[m])
    <3>1. CASE r \notin farther
      BY <1>3, <2>2, <3>1
    <3>2. CASE r \in farther /\ r + 1 \in 1 .. k
      <4>1. r + 1 \in farther /\ (r + 1) - 1 = r
        <5>1. r <= r + 1 /\ (r + 1) - 1 = r
          OBVIOUS
        <5> QED BY <1>2, <3>2, <5>1
      <4>2. new[r + 1] = best[r]
        BY <1>3, <3>2, <4>1
      <4> QED BY <2>2, <3>2, <4>2
    <3>3. CASE r + 1 \notin 1 .. k
      <4>1. r = k
        BY <3>3
      <4>2. best[k].d = Distance(q, db[m])
        <5>1. m # -1
          OBVIOUS
        <5> QED BY <2>2, <4>1, <5>1 DEF BestOf, Honest
      <4>3. \A s \in 1 .. k : s <= k
        OBVIOUS
      <4>4. \A s \in 1 .. k : best[s].d <= best[k].d
        BY <4>1, <4>3 DEF BestOf
      <4>5. \A s \in 1 .. k : new[s].d <= best[s].d /\ new[s].d \in Nat /\ best[s].d \in Nat
        BY <1>0, <1>8
      <4> QED BY <2>0, <4>2, <4>4, <4>5
    <3> QED BY <3>1, <3>2, <3>3
  <2> QED BY <2>1, <2>2 DEF BestOf
<1>11. (\E r \in 1 .. k : new[r].id = id) \/ \A r \in 1 .. k : new[r].d <= Distance(q, db[id])
  <2>1. CASE farther = {}
    <3> SUFFICES ASSUME NEW r \in 1 .. k PROVE new[r].d <= Distance(q, db[id])
      OBVIOUS
    <3>1. new[r] = best[r] /\ ~(best[r].d > e.d)
      BY <1>3, <2>1
    <3>2. best[r].d \in Nat /\ e.d \in Nat /\ e.d = Distance(q, db[id])
      BY <1>0 DEF Results
    <3> QED BY <3>1, <3>2
  <2>2. CASE farther # {}
    <3>1. farther \subseteq Nat
      OBVIOUS
    <3>2. PICK r \in farther : \A s \in farther : r <= s
      <4> HIDE DEF farther
      <4> QED BY <2>2, <3>1, LeastNumber
    <3>3. r - 1 \notin farther
      <4>1. r \in Int /\ ~(r <= r - 1)
        BY <3>1
      <4> QED BY <3>2, <4>1
    <3>4. new[r] = e /\ r \in 1 .. k
      BY <1>3, <3>3
    <3> QED BY <1>0, <3>4
  <2> QED BY <2>1, <2>2
<1> HIDE DEF farther
<1>12. BestOf(new, M \cup {id}, q, k)
  BY <1>4, <1>5, <1>7, <1>9, <1>10, <1>11 DEF BestOf
<1> QED BY <1>12 DEF new, e

\* The loop over a list.
MetBy(ids, from, m) == {ids[from + j - 1] : j \in 1 .. m}

LEMMA ScanKeepsBest ==
  ASSUME NEW n, Indexed(n), NEW q \in Nat, NEW k \in Nat, NEW M \in SUBSET (0 .. n - 1),
         NEW best, BestOf(best, M, q, k), NEW len \in Nat, NEW from \in Int, NEW ids,
         \A j \in 1 .. len : ids[from + j - 1] \in (0 .. n - 1) \ M,
         \A i, j \in 1 .. len : ids[from + i - 1] = ids[from + j - 1] => i = j
  PROVE  BestOf(Scan(ids, from, len, q, best), M \cup MetBy(ids, from, len), q, k)
<1> DEFINE at(j) == Entry(Distance(q, db[ids[from + j - 1]]), ids[from + j - 1])
           Body(f) == [j \in 0 .. len |-> IF j = 0 THEN best ELSE topk_insert(f[j - 1], at(j))]
           Lists == [1 .. k -> Results]
           step == [j \in 1 .. len |-> [b \in Lists |-> topk_insert(b, at(j))]]
<1>1. \A j \in 1 .. len : at(j) \in Results
  <2> SUFFICES ASSUME NEW j \in 1 .. len PROVE at(j) \in Results
    OBVIOUS
  <2>1. ids[from + j - 1] \in 0 .. n - 1
    OBVIOUS
  <2>2. Distance(q, db[ids[from + j - 1]]) \in Nat /\ ids[from + j - 1] \in Int
    BY <2>1, DistancesOf
  <2> QED BY <2>2 DEF Entry, Results
<1>2. step \in [1 .. len -> [Lists -> Lists]]
  <2> SUFFICES ASSUME NEW j \in 1 .. len, NEW b \in Lists PROVE topk_insert(b, at(j)) \in Lists
    OBVIOUS
  <2>1. at(j) \in Results /\ DOMAIN b = 1 .. k /\ \A i \in 1 .. k : b[i] \in Results
    BY <1>1
  <2>2. topk_insert(b, at(j)) = [i \in 1 .. k |->
            IF i \notin {x \in 1 .. k : b[x].d > at(j).d} THEN b[i]
            ELSE IF i - 1 \in {x \in 1 .. k : b[x].d > at(j).d} THEN b[i - 1] ELSE at(j)]
    <3> HIDE DEF at
    <3> QED BY <2>1 DEF topk_insert
  <2> HIDE DEF at
  <2>3. \A i \in 1 .. k : topk_insert(b, at(j))[i] \in Results
    BY <2>1, <2>2
  <2> QED BY <2>2, <2>3
<1>3. \E f : f = Body(f)
  <2>1. best \in Lists
    BY DEF BestOf
  <2>2. PICK f \in [0 .. len -> Lists] : f[0] = best /\ \A m \in 1 .. len : f[m] = step[m][f[m - 1]]
    <3> HIDE DEF step, Lists
    <3>1. step \in Steps(Lists, len)
      BY <1>2 DEF Steps
    <3>2. Runs(Lists, best, len, step) # {}
      BY <2>1, <3>1, LoopExists
    <3> QED BY <3>2 DEF Runs
  <2>3. \A m \in 1 .. len : f[m] = topk_insert(f[m - 1], at(m))
    <3> SUFFICES ASSUME NEW m \in 1 .. len PROVE f[m] = topk_insert(f[m - 1], at(m))
      OBVIOUS
    <3>1. m - 1 \in 0 .. len
      OBVIOUS
    <3>2. f[m - 1] \in Lists
      <4> HIDE DEF Lists
      <4> QED BY <3>1
    <3> HIDE DEF at, Lists
    <3> QED BY <2>2, <3>2
  <2>4. f = [j \in 0 .. len |-> IF j = 0 THEN best ELSE topk_insert(f[j - 1], at(j))]
    <3> HIDE DEF at, Lists
    <3>1. \A j \in 0 .. len : f[j] = IF j = 0 THEN best ELSE topk_insert(f[j - 1], at(j))
      BY <2>2, <2>3
    <3> QED BY <3>1
  <2> QED BY <2>4
<1>4. Scan(ids, from, len, q, best) = (CHOOSE f : f = Body(f))[len]
  BY DEF Scan
<1>5. PICK f : f = Body(f) /\ Scan(ids, from, len, q, best) = f[len]
  <2> HIDE DEF Body
  <2> QED BY <1>3, <1>4
<1> DEFINE Good == {m \in 0 .. len : BestOf(f[m], M \cup MetBy(ids, from, m), q, k)}
<1>6. 0 \in Good
  <2>1. f[0] = best
    BY <1>5
  <2>2. M \cup MetBy(ids, from, 0) = M
    BY DEF MetBy
  <2>3. BestOf(f[0], M \cup MetBy(ids, from, 0), q, k)
    BY <2>1, <2>2
  <2>4. 0 \in 0 .. len
    OBVIOUS
  <2> QED BY <2>3, <2>4
<1>7. ASSUME NEW m \in 0 .. len - 1, m \in Good PROVE m + 1 \in Good
  <2>1. m + 1 \in 1 .. len /\ m + 1 # 0 /\ (m + 1) - 1 = m /\ m + 1 \in 0 .. len
    OBVIOUS
  <2>2. f[m + 1] = topk_insert(f[m], at(m + 1))
    <3> HIDE DEF at
    <3> QED BY <1>5, <2>1
  <2>3. PICK id \in (0 .. n - 1) \ M : id = ids[from + (m + 1) - 1]
    BY <2>1
  <2>4. PICK N : N = M \cup MetBy(ids, from, m)
    OBVIOUS
  <2>5. N \in SUBSET (0 .. n - 1) /\ id \notin N
    <3>1. ASSUME NEW j \in 1 .. m PROVE ids[from + j - 1] \in 0 .. n - 1 /\ ids[from + j - 1] # id
      <4>1. j \in 1 .. len /\ j # m + 1
        OBVIOUS
      <4> QED BY <2>1, <2>3, <4>1
    <3> QED BY <2>3, <2>4, <3>1 DEF MetBy
  <2>6. BestOf(f[m], N, q, k)
    BY <1>7, <2>4
  <2>7. BestOf(f[m + 1], N \cup {id}, q, k)
    <3>1. BestOf(topk_insert(f[m], Entry(Distance(q, db[id]), id)), N \cup {id}, q, k)
      BY <2>5, <2>6, InsertKeepsBest
    <3> QED BY <2>2, <2>3, <3>1
  <2>8. N \cup {id} = M \cup MetBy(ids, from, m + 1)
    <3>1. 1 .. m + 1 = (1 .. m) \cup {m + 1}
      OBVIOUS
    <3>2. MetBy(ids, from, m + 1) = MetBy(ids, from, m) \cup {id}
      BY <2>3, <3>1 DEF MetBy
    <3> QED BY <2>4, <3>2
  <2> QED BY <2>1, <2>7, <2>8
<1> HIDE DEF Good
<1>8. len \in Good
  <2>1. 0 .. len \subseteq Good
    BY <1>6, <1>7, NoCounterexample
  <2> QED BY <2>1
<1> QED BY <1>5, <1>8 DEF Good

\* k_select_probes takes cells without repetition.
DifferentCells(cell, nprobe) ==
    /\ cell \in [1 .. nprobe -> Cells]
    /\ \A p, r \in 1 .. nprobe : cell[p] = cell[r] => p = r
    /\ nprobe = NList => \A c \in Cells : \E p \in 1 .. nprobe : cell[p] = c

LEMMA ProbesDiffer ==
  ASSUME Centred, NEW q \in Nat, NEW nprobe \in 1 .. NList
  PROVE  DifferentCells(k_select_probes(q, nprobe), nprobe)
<1> PICK cell : cell = k_select_probes(q, nprobe)
  OBVIOUS
<1> DEFINE Body(f) == [p \in 0 .. nprobe |-> IF p = 0 THEN Cells ELSE f[p - 1] \ {Nearest(q, f[p - 1])}]
           Some == SUBSET Cells
           step == [p \in 1 .. nprobe |-> [S \in Some |-> S \ {Nearest(q, S)}]]
<1>0. nprobe \in Nat /\ NList \in Nat
  BY DEF Centred
<1>1. \E f : f = Body(f)
  <2>1. Cells \in Some /\ step \in [1 .. nprobe -> [Some -> Some]]
    OBVIOUS
  <2>2. PICK f \in [0 .. nprobe -> Some] : f[0] = Cells /\ \A m \in 1 .. nprobe : f[m] = step[m][f[m - 1]]
    <3> HIDE DEF step, Some
    <3>1. step \in Steps(Some, nprobe)
      BY <2>1 DEF Steps
    <3>2. Runs(Some, Cells, nprobe, step) # {}
      BY <1>0, <2>1, <3>1, LoopExists
    <3> QED BY <3>2 DEF Runs
  <2>3. \A m \in 1 .. nprobe : f[m] = f[m - 1] \ {Nearest(q, f[m - 1])}
    <3> SUFFICES ASSUME NEW m \in 1 .. nprobe PROVE f[m] = f[m - 1] \ {Nearest(q, f[m - 1])}
      OBVIOUS
    <3>1. m - 1 \in 0 .. nprobe
      BY <1>0
    <3>2. f[m - 1] \in Some
      <4> HIDE DEF Some
      <4> QED BY <3>1
    <3> HIDE DEF Some
    <3> QED BY <2>2, <3>2
  <2>4. f = [p \in 0 .. nprobe |-> IF p = 0 THEN Cells ELSE f[p - 1] \ {Nearest(q, f[p - 1])}]
    <3> HIDE DEF Some
    <3>1. \A p \in 0 .. nprobe : f[p] = IF p = 0 THEN Cells ELSE f[p - 1] \ {Nearest(q, f[p - 1])}
      BY <2>2, <2>3
    <3> QED BY <3>1
  <2> QED BY <2>4
<1>2. cell = [p \in 1 .. nprobe |-> Nearest(q, (CHOOSE f : f = Body(f))[p - 1])]
  BY DEF k_select_probes
<1>3. PICK left : left = Body(left) /\ cell = [p \in 1 .. nprobe |-> Nearest(q, left[p - 1])]
  <2> HIDE DEF Body
  <2> QED BY <1>1, <1>2
<1>c. \A p \in 1 .. nprobe : cell[p] = Nearest(q, left[p - 1])
  BY <1>3
<1> DEFINE Used(p) == {cell[r] : r \in 1 .. p}
           Good == {p \in 0 .. nprobe : /\ left[p] = Cells \ Used(p) /\ Used(p) \subseteq Cells
                                        /\ IsFiniteSet(left[p]) /\ Cardinality(left[p]) = NList - p
                                        /\ \A r, s \in 1 .. p : cell[r] = cell[s] => r = s}
<1>4. 0 \in Good
  <2>1. left[0] = Cells /\ Used(0) = {} /\ 0 \in 0 .. nprobe
    BY <1>0, <1>3
  <2>2. IsFiniteSet(Cells) /\ Cardinality(Cells) = NList
    <3>1. PICK z \in Int, y \in Int : z = 0 /\ y = NList - 1
      BY <1>0
    <3>2. IsFiniteSet(z .. y) /\ Cardinality(z .. y) = IF z > y THEN 0 ELSE y - z + 1
      BY FS_Interval
    <3> QED BY <1>0, <3>1, <3>2 DEF Cells
  <2> QED BY <1>0, <2>1, <2>2
<1>5. ASSUME NEW p \in 0 .. nprobe - 1, p \in Good PROVE p + 1 \in Good
  <2>1. p \in Nat /\ p < NList /\ p + 1 \in 1 .. nprobe /\ (p + 1) - 1 = p /\ p + 1 \in 0 .. nprobe /\ p + 1 # 0
    BY <1>0
  <2>2. /\ left[p] = Cells \ Used(p) /\ Used(p) \subseteq Cells
        /\ IsFiniteSet(left[p]) /\ Cardinality(left[p]) = NList - p
        /\ \A r, s \in 1 .. p : cell[r] = cell[s] => r = s
    BY <1>5
  <2>3. cell[p + 1] = Nearest(q, left[p]) /\ left[p + 1] = left[p] \ {Nearest(q, left[p])}
    BY <1>3, <1>c, <2>1
  <2>4. cell[p + 1] \in left[p]
    <3>1. left[p] # {}
      BY <1>0, <2>1, <2>2, FS_EmptySet
    <3>2. left[p] \in SUBSET Cells
      BY <2>2
    <3> QED BY <2>3, <3>1, <3>2, NearestIn
  <2>5. Used(p + 1) = Used(p) \cup {cell[p + 1]}
    <3>1. 1 .. p + 1 = (1 .. p) \cup {p + 1}
      BY <2>1
    <3> QED BY <3>1
  <2>6. left[p + 1] = Cells \ Used(p + 1) /\ Used(p + 1) \subseteq Cells
    <3> HIDE DEF Used
    <3> QED BY <2>2, <2>3, <2>4, <2>5
  <2>7. IsFiniteSet(left[p + 1]) /\ Cardinality(left[p + 1]) = NList - (p + 1)
    <3>1. IsFiniteSet(left[p + 1]) /\ Cardinality(left[p + 1]) = Cardinality(left[p]) - 1
      <4>1. PICK L, x : L = left[p] /\ x = cell[p + 1] /\ IsFiniteSet(L) /\ x \in L /\ left[p + 1] = L \ {x}
        <5> HIDE DEF Used
        <5> QED BY <2>2, <2>3, <2>4
      <4>2. IsFiniteSet(L \ {x}) /\ Cardinality(L \ {x}) = Cardinality(L) - 1
        BY <4>1, FS_RemoveElement
      <4> QED BY <4>1, <4>2
    <3> QED BY <1>0, <2>1, <2>2, <3>1
  <2>8. ASSUME NEW r \in 1 .. p + 1, NEW s \in 1 .. p + 1, cell[r] = cell[s] PROVE r = s
    <3>1. \A x \in 1 .. p : cell[x] # cell[p + 1]
      BY <2>2, <2>4
    <3>2. (r \in 1 .. p \/ r = p + 1) /\ (s \in 1 .. p \/ s = p + 1)
      BY <2>1
    <3> QED BY <2>2, <2>8, <3>1, <3>2
  <2> HIDE DEF Used
  <2> QED BY <2>1, <2>6, <2>7, <2>8
<1>6. nprobe \in Good
  <2> HIDE DEF Good
  <2>1. 0 .. nprobe \subseteq Good
    BY <1>0, <1>4, <1>5, NoCounterexample
  <2> QED BY <1>0, <2>1
<1>7. cell \in [1 .. nprobe -> Cells]
  <2>1. \A p \in 1 .. nprobe : cell[p] \in Cells
    BY <1>6
  <2> QED BY <1>3, <2>1
<1>8. ASSUME nprobe = NList, NEW c \in Cells PROVE \E p \in 1 .. nprobe : cell[p] = c
  <2>1. Cardinality(left[nprobe]) = 0
    BY <1>0, <1>6, <1>8
  <2>2. left[nprobe] = {}
    BY <1>6, <2>1, FS_EmptySet
  <2> QED BY <1>6, <2>2
<1>9. \A p, r \in 1 .. nprobe : cell[p] = cell[r] => p = r
  BY <1>6
<1>10. DifferentCells(cell, nprobe)
  BY <1>7, <1>8, <1>9 DEF DifferentCells
<1> QED BY <1>10

\* The vectors of the first lists that are probed.
ListIds(c) == MetBy(list_ids, list_start[c], list_count[c])

LEMMA IvfFindsBest ==
  ASSUME Centred, NEW n, Indexed(n), NEW q \in Nat, NEW k \in Nat, NEW nprobe \in 1 .. NList,
         list_start \in [Cells -> Nat], list_count \in [Cells -> Nat],
         Filed(n, list_start, list_count, list_ids)
  PROVE  \E M \in SUBSET (0 .. n - 1) :
            /\ BestOf(k_search_ivf(q, k, nprobe), M, q, k)
            /\ nprobe = NList => M = 0 .. n - 1
<1> PICK cell : cell = k_select_probes(q, nprobe)
  OBVIOUS
<1>0. /\ cell \in [1 .. nprobe -> Cells] /\ nprobe \in Nat /\ n \in Nat
      /\ \A p, r \in 1 .. nprobe : cell[p] = cell[r] => p = r
      /\ nprobe = NList => \A c \in Cells : \E p \in 1 .. nprobe : cell[p] = c
  <2>1. /\ cell \in [1 .. nprobe -> Cells]
        /\ \A p, r \in 1 .. nprobe : cell[p] = cell[r] => p = r
        /\ nprobe = NList => \A c \in Cells : \E p \in 1 .. nprobe : cell[p] = c
    <3>1. DifferentCells(cell, nprobe)
      BY ProbesDiffer
    <3> QED BY <3>1 DEF DifferentCells
  <2>2. nprobe \in Nat /\ n \in Nat
    BY DEF Centred, Indexed
  <2> QED BY <2>1, <2>2
<1> DEFINE scan(p, b) == Scan(list_ids, list_start[cell[p]], list_count[cell[p]], q, b)
           Loop(m, f) == f = [p \in 0 .. m |-> IF p = 0 THEN Far(k) ELSE scan(p, f[p - 1])]
           Met(p) == UNION {ListIds(cell[r]) : r \in 1 .. p}
<1>1. \A c \in Cells : ListIds(c) = {At(list_start, list_ids, c, j) : j \in 1 .. list_count[c]}
  BY DEF ListIds, MetBy, At
<1>2. \A c \in Cells : ListIds(c) \subseteq 0 .. n - 1
  BY <1>1 DEF Filed
<1>3. \A c, d \in Cells : c # d => ListIds(c) \cap ListIds(d) = {}
  BY <1>1 DEF Filed
<1>4. \E f : Loop(nprobe, f)
  <2> DEFINE Good == {m \in 0 .. nprobe : \E f : Loop(m, f)}
  <2> HIDE DEF scan
  <2>1. 0 \in Good
    <3> DEFINE f == [p \in 0 .. 0 |-> Far(k)]
    <3>1. Loop(0, f) /\ 0 \in 0 .. nprobe
      BY <1>0
    <3> HIDE DEF f, Loop
    <3> QED BY <3>1
  <2>2. ASSUME NEW m \in 0 .. nprobe - 1, m \in Good PROVE m + 1 \in Good
    <3>1. PICK f : Loop(m, f)
      BY <2>2
    <3>2. m \in Nat /\ m + 1 \in 0 .. nprobe /\ (m + 1) - 1 = m
      BY <1>0
    <3> DEFINE g == [p \in 0 .. m + 1 |-> IF p = m + 1 THEN scan(m + 1, f[m]) ELSE f[p]]
    <3>3. ASSUME NEW p \in 0 .. m + 1 PROVE g[p] = IF p = 0 THEN Far(k) ELSE scan(p, g[p - 1])
      <4>1. CASE p = 0
        BY <3>1, <3>2, <4>1
      <4>2. CASE p = m + 1
        BY <3>2, <4>2
      <4>3. CASE p # 0 /\ p # m + 1
        <5>1. p \in 0 .. m /\ p - 1 \in 0 .. m + 1 /\ p - 1 # m + 1
          BY <3>2, <4>3
        <5>2. g[p] = f[p] /\ g[p - 1] = f[p - 1]
          BY <4>3, <5>1
        <5> QED BY <3>1, <4>3, <5>1, <5>2
      <4> QED BY <4>1, <4>2, <4>3
    <3>4. Loop(m + 1, g)
      BY <3>3
    <3> HIDE DEF Loop, g
    <3> QED BY <3>2, <3>4
  <2> HIDE DEF Good
  <2>3. 0 .. nprobe \subseteq Good
    BY <1>0, <2>1, <2>2, NoCounterexample
  <2>4. nprobe \in Good
    BY <1>0, <2>3
  <2> USE DEF Good
  <2> HIDE DEF Loop
  <2> QED BY <2>4
<1>5. k_search_ivf(q, k, nprobe) = (CHOOSE f : Loop(nprobe, f))[nprobe]
  BY DEF k_search_ivf
<1>6. PICK f : Loop(nprobe, f) /\ k_search_ivf(q, k, nprobe) = f[nprobe]
  <2> HIDE DEF Loop
  <2> QED BY <1>4, <1>5
<1> DEFINE Good == {m \in 0 .. nprobe : Met(m) \subseteq 0 .. n - 1 /\ BestOf(f[m], Met(m), q, k)}
<1>7. 0 \in Good
  <2>1. f[0] = Far(k)
    BY <1>0, <1>6
  <2>2. Met(0) = {}
    OBVIOUS
  <2>3. BestOf(f[0], {}, q, k)
    BY <1>0, <2>1, BestOfNone
  <2> HIDE DEF Met
  <2>4. Met(0) \subseteq 0 .. n - 1 /\ BestOf(f[0], Met(0), q, k)
    BY <2>2, <2>3
  <2> QED BY <1>0, <2>4
<1>8. ASSUME NEW m \in 0 .. nprobe - 1, m \in Good PROVE m + 1 \in Good
  <2>1. Met(m) \in SUBSET (0 .. n - 1) /\ BestOf(f[m], Met(m), q, k)
    BY <1>8
  <2>2. m \in Nat /\ m + 1 \in 1 .. nprobe /\ m + 1 \in 0 .. nprobe /\ (m + 1) - 1 = m /\ m + 1 # 0
    BY <1>0
  <2>3. PICK c \in Cells : c = cell[m + 1]
    BY <1>0, <2>2
  <2>4. Met(m) \cap ListIds(c) = {}
    <3>1. \A r \in 1 .. m : cell[r] \in Cells /\ cell[r] # c
      <4> SUFFICES ASSUME NEW r \in 1 .. m PROVE cell[r] \in Cells /\ cell[r] # c
        OBVIOUS
      <4>1. r \in 1 .. nprobe /\ r # m + 1
        BY <1>0, <2>2
      <4> QED BY <1>0, <2>2, <2>3, <4>1
    <3> QED BY <1>3, <3>1
  <2>5. list_start[c] \in Int /\ list_count[c] \in Nat
    OBVIOUS
  <2>6. /\ \A j \in 1 .. list_count[c] : list_ids[list_start[c] + j - 1] \in (0 .. n - 1) \ Met(m)
        /\ \A i, j \in 1 .. list_count[c] : list_ids[list_start[c] + i - 1] = list_ids[list_start[c] + j - 1] => i = j
    <3> HIDE DEF Met
    <3>1. \A j \in 1 .. list_count[c] : list_ids[list_start[c] + j - 1] \in ListIds(c)
      BY DEF ListIds, MetBy
    <3>2. \A i, j \in 1 .. list_count[c] : list_ids[list_start[c] + i - 1] = list_ids[list_start[c] + j - 1] => i = j
      BY DEF Filed, At
    <3> QED BY <1>2, <2>4, <3>1, <3>2
  <2>7. f[m + 1] = scan(m + 1, f[m])
    <3> HIDE DEF scan
    <3> QED BY <1>6, <2>2
  <2>8. BestOf(f[m + 1], Met(m) \cup ListIds(c), q, k)
    <3> HIDE DEF Met, Loop
    <3>1. BestOf(Scan(list_ids, list_start[c], list_count[c], q, f[m]), Met(m) \cup MetBy(list_ids, list_start[c], list_count[c]), q, k)
      BY <2>1, <2>5, <2>6, ScanKeepsBest
    <3> QED BY <2>3, <2>7, <3>1 DEF ListIds
  <2>9. Met(m) \cup ListIds(c) = Met(m + 1)
    <3>1. 1 .. m + 1 = (1 .. m) \cup {m + 1}
      BY <2>2
    <3> QED BY <2>3, <3>1
  <2> HIDE DEF Met
  <2>10. Met(m + 1) \subseteq 0 .. n - 1
    BY <1>2, <2>1, <2>9
  <2> QED BY <2>2, <2>8, <2>9, <2>10
<1> HIDE DEF Good
<1>9. nprobe \in Good
  <2>1. 0 .. nprobe \subseteq Good
    BY <1>0, <1>7, <1>8, NoCounterexample
  <2> QED BY <1>0, <2>1
<1>10. Met(nprobe) \in SUBSET (0 .. n - 1) /\ BestOf(k_search_ivf(q, k, nprobe), Met(nprobe), q, k)
  BY <1>6, <1>9 DEF Good
<1>11. ASSUME nprobe = NList PROVE Met(nprobe) = 0 .. n - 1
  <2>1. ASSUME NEW id \in 0 .. n - 1 PROVE id \in Met(nprobe)
    <3>1. PICK c \in Cells : id \in ListIds(c)
      BY <1>1 DEF Filed
    <3>2. PICK p \in 1 .. nprobe : cell[p] = c
      BY <1>0, <1>11
    <3> QED BY <3>1, <3>2
  <2> HIDE DEF Met
  <2> QED BY <1>10, <2>1
<1> HIDE DEF Met
<1> QED BY <1>10, <1>11

LEMMA BruteFindsBest ==
  ASSUME NEW n, Indexed(n), NEW q \in Nat, NEW k \in Nat
  PROVE  BestOf(k_search_brute(q, k), 0 .. n - 1, q, k)
<1> PICK ids, from, len : ids = [i \in DOMAIN db |-> i] /\ from = 0 /\ len = Cardinality(DOMAIN db)
  OBVIOUS
<1>1. DOMAIN db = 0 .. n - 1 /\ n \in Nat /\ len = n
  <2>1. PICK z \in Int, y \in Int : z = 0 /\ y = n - 1 /\ n \in Nat
    BY DEF Indexed
  <2>2. IsFiniteSet(z .. y) /\ Cardinality(z .. y) = IF z > y THEN 0 ELSE y - z + 1
    BY FS_Interval
  <2> QED BY <2>1, <2>2 DEF Indexed
<1>2. \A j \in 1 .. len : from + j - 1 \in 0 .. n - 1 /\ from + j - 1 = j - 1 /\ ids[from + j - 1] = j - 1
  BY <1>1
<1>3. \A i, j \in 1 .. len : ids[from + i - 1] = ids[from + j - 1] => i = j
  <2>1. \A i, j \in 1 .. len : i - 1 = j - 1 => i = j
    OBVIOUS
  <2> QED BY <1>2, <2>1
<1>4. MetBy(ids, from, len) = 0 .. n - 1
  <2>1. \A i \in 0 .. n - 1 : i + 1 \in 1 .. len /\ (i + 1) - 1 = i
    BY <1>1
  <2>2. \A i \in 0 .. n - 1 : ids[from + (i + 1) - 1] = i
    BY <1>2, <2>1
  <2>3. \A j \in 1 .. len : j - 1 \in 0 .. n - 1
    BY <1>1
  <2> QED BY <1>2, <2>1, <2>2, <2>3 DEF MetBy
<1>5. PICK none \in SUBSET (0 .. n - 1) : none = {}
  OBVIOUS
<1>6. BestOf(Scan(ids, from, len, q, Far(k)), none \cup MetBy(ids, from, len), q, k)
  <2>1. BestOf(Far(k), none, q, k)
    BY <1>5, BestOfNone
  <2>2. \A j \in 1 .. len : ids[from + j - 1] \in (0 .. n - 1) \ none
    BY <1>2, <1>5
  <2>3. len \in Nat /\ from \in Int
    BY <1>1
  <2> QED BY <1>3, <2>1, <2>2, <2>3, ScanKeepsBest
<1>7. none \cup MetBy(ids, from, len) = 0 .. n - 1
  BY <1>4, <1>5
<1> QED BY <1>6, <1>7 DEF k_search_brute

\* No more than r - 1 vectors fit in front of place r.
LEMMA FewBefore ==
  ASSUME NEW best, NEW k \in Nat, NEW r \in 1 .. k, NEW S,
         \A m \in S : \E s \in 1 .. r - 1 : best[s].id = m
  PROVE  IsFiniteSet(S) /\ Cardinality(S) \in Nat /\ Cardinality(S) < r
<1> DEFINE seat == [m \in S |-> CHOOSE s \in 1 .. r - 1 : best[s].id = m]
<1>1. \A m \in S : seat[m] \in 1 .. r - 1 /\ best[seat[m]].id = m
  OBVIOUS
<1>2. seat \in Injection(S, 1 .. r - 1)
  <2>1. seat \in [S -> 1 .. r - 1] /\ IsInjective(seat)
    <3>1. \A m, l \in S : seat[m] = seat[l] => m = l
      BY <1>1
    <3> HIDE DEF seat
    <3>2. seat \in [S -> 1 .. r - 1]
      BY <1>1 DEF seat
    <3> QED BY <3>1, <3>2 DEF IsInjective
  <2> QED BY <2>1 DEF Injection
<1>3. IsFiniteSet(1 .. r - 1) /\ Cardinality(1 .. r - 1) = r - 1
  <2>1. PICK z \in Int, y \in Int : z = 1 /\ y = r - 1
    OBVIOUS
  <2>2. IsFiniteSet(z .. y) /\ Cardinality(z .. y) = IF z > y THEN 0 ELSE y - z + 1
    BY FS_Interval
  <2> QED BY <2>1, <2>2
<1> HIDE DEF seat
<1>4. IsFiniteSet(S) /\ Cardinality(S) <= Cardinality(1 .. r - 1)
  BY <1>2, <1>3, FS_Injection
<1>5. Cardinality(S) \in Nat
  BY <1>4, FS_CardinalityType
<1> QED BY <1>3, <1>4, <1>5

\* Two lists of the nearest among the same vectors show the same distances.
LEMMA BestUnique ==
  ASSUME NEW n, Indexed(n), NEW q \in Nat, NEW k \in Nat, NEW M \in SUBSET (0 .. n - 1),
         \A m \in M : Distance(q, db[m]) < kFar,
         NEW a, BestOf(a, M, q, k), NEW b, BestOf(b, M, q, k), NEW r \in 1 .. k
  PROVE  a[r].d <= b[r].d
<1> SUFFICES ASSUME ~(a[r].d <= b[r].d) PROVE FALSE
  OBVIOUS
<1>0. /\ \A s \in 1 .. k : a[s].d \in Nat /\ b[s].d \in Nat
      /\ \A m \in M : Distance(q, db[m]) \in Nat
      /\ kFar \in Nat
  BY DistancesOf DEF BestOf, Results, kFar
<1>1. b[r].d < a[r].d
  BY <1>0
<1>2. ASSUME NEW s \in 1 .. k PROVE a[s].d <= kFar
  <2>1. Honest(a, M, q, s)
    BY DEF BestOf
  <2>2. CASE a[s].id = -1
    BY <1>0, <2>1, <2>2 DEF Honest
  <2>3. CASE a[s].id # -1
    <3>1. PICK m \in M : a[s].d = Distance(q, db[m])
      BY <2>1, <2>3 DEF Honest
    <3> QED BY <1>0, <3>1
  <2> QED BY <2>2, <2>3
<1> DEFINE S == {b[s].id : s \in 1 .. r}
<1>3. ASSUME NEW s \in 1 .. r PROVE s \in 1 .. k /\ b[s].id \in M /\ b[s].id # -1 /\ \E t \in 1 .. r - 1 : a[t].id = b[s].id
  <2>1. s \in 1 .. k /\ s <= r /\ r \in Int
    OBVIOUS
  <2>2. b[s].d <= b[r].d
    BY <2>1 DEF BestOf
  <2>3. b[s].d < a[r].d /\ b[s].d < kFar
    BY <1>0, <1>1, <1>2, <2>1, <2>2
  <2>4. b[s].id # -1 /\ b[s].id \in M /\ b[s].d = Distance(q, db[b[s].id])
    <3>1. Honest(b, M, q, s)
      BY <2>1 DEF BestOf
    <3> QED BY <1>0, <2>1, <2>3, <3>1 DEF Honest
  <2>5. PICK t \in 1 .. k : a[t].id = b[s].id
    <3>1. ~(\A t \in 1 .. k : a[t].d <= Distance(q, db[b[s].id]))
      <4>1. ~(a[r].d <= b[s].d)
        BY <1>0, <2>1, <2>3
      <4> QED BY <2>4, <4>1
    <3> QED BY <2>4, <3>1 DEF BestOf
  <2>6. a[t].d = b[s].d
    <3>1. Honest(a, M, q, t)
      BY DEF BestOf
    <3> QED BY <2>4, <2>5, <3>1 DEF Honest
  <2>7. t < r
    <3> SUFFICES ASSUME r <= t PROVE FALSE
      BY <2>1
    <3>1. a[r].d <= a[t].d
      BY DEF BestOf
    <3> QED BY <1>0, <2>1, <2>3, <2>6, <3>1
  <2>8. t \in 1 .. r - 1
    BY <2>1, <2>7
  <2> QED BY <2>1, <2>4, <2>5, <2>8
<1>4. IsFiniteSet(S) /\ Cardinality(S) \in Nat /\ Cardinality(S) < r
  <2>1. \A m \in S : \E t \in 1 .. r - 1 : a[t].id = m
    BY <1>3
  <2> HIDE DEF S
  <2> QED BY <2>1, FewBefore
<1> DEFINE who == [s \in 1 .. r |-> b[s].id]
<1>5. who \in Injection(1 .. r, S)
  <2>1. \A s, t \in 1 .. r : who[s] = who[t] => s = t
    BY <1>3 DEF BestOf
  <2>2. who \in [1 .. r -> S]
    OBVIOUS
  <2> HIDE DEF who, S
  <2> QED BY <2>1, <2>2 DEF Injection, IsInjective
<1>6. Cardinality(1 .. r) = r
  <2>1. PICK z \in Int, y \in Int : z = 1 /\ y = r
    OBVIOUS
  <2>2. IsFiniteSet(z .. y) /\ Cardinality(z .. y) = IF z > y THEN 0 ELSE y - z + 1
    BY FS_Interval
  <2> QED BY <2>1, <2>2
<1> HIDE DEF S, who
<1>7. Cardinality(1 .. r) <= Cardinality(S)
  BY <1>4, <1>5, FS_Injection
<1> QED BY <1>4, <1>6, <1>7

\* What SearchesSound says of one answer; all cells have been probed, or not.
Sound(top, q, k, all) ==
    LET real == {r \in DOMAIN top : top[r].id # -1}
        as_near(d) == {i \in DOMAIN db : Distance(q, db[i]) <= d}
    IN /\ DOMAIN top = 1..k
       /\ \A r \in real : top[r].id \in DOMAIN db /\ top[r].d = Distance(q, db[top[r].id])
       /\ \A r, s \in real : r # s => top[r].id # top[s].id
       /\ \A r \in 1..(k - 1) : top[r].d <= top[r + 1].d
       /\ all =>
            /\ \A r \in DOMAIN top : top[r].d = k_search_brute(q, k)[r].d
            /\ \A r \in real : Cardinality(as_near(top[r].d - 1)) < r
            /\ Cardinality(real) < k => Cardinality(real) = Cardinality(DOMAIN db)

LEMMA AnswerSound ==
  ASSUME NEW n, Indexed(n), NEW q \in Nat, NEW k \in Nat, NEW M \in SUBSET (0 .. n - 1),
         \A m \in 0 .. n - 1 : Distance(q, db[m]) < kFar,
         NEW top, BestOf(top, M, q, k), NEW all \in BOOLEAN, all => M = 0 .. n - 1
  PROVE  Sound(top, q, k, all)
<1> DEFINE real == {r \in DOMAIN top : top[r].id # -1}
           as_near(d) == {i \in DOMAIN db : Distance(q, db[i]) <= d}
<1>0. /\ DOMAIN top = 1 .. k /\ DOMAIN db = 0 .. n - 1 /\ n \in Nat
      /\ \A r \in 1 .. k : top[r].d \in Nat
      /\ \A m \in 0 .. n - 1 : Distance(q, db[m]) \in Nat
      /\ real = {r \in 1 .. k : top[r].id # -1}
  BY DistancesOf DEF BestOf, Results, Indexed
<1>1. \A r \in real : top[r].id \in M /\ top[r].d = Distance(q, db[top[r].id])
  BY <1>0 DEF BestOf, Honest
<1>2. \A r, s \in real : r # s => top[r].id # top[s].id
  BY <1>0 DEF BestOf
<1>3. \A r \in 1 .. (k - 1) : top[r].d <= top[r + 1].d
  <2>1. \A r \in 1 .. (k - 1) : r \in 1 .. k /\ r + 1 \in 1 .. k /\ r <= r + 1
    OBVIOUS
  <2> QED BY <2>1 DEF BestOf
<1>4. ASSUME all, NEW r \in 1 .. k PROVE top[r].d = k_search_brute(q, k)[r].d
  <2>1. PICK b : b = k_search_brute(q, k)
    OBVIOUS
  <2>2. BestOf(b, M, q, k) /\ \A m \in M : Distance(q, db[m]) < kFar
    BY <1>4, <2>1, BruteFindsBest
  <2>3. top[r].d <= b[r].d
    BY <2>2, BestUnique
  <2>4. b[r].d <= top[r].d
    BY <2>2, BestUnique
  <2>5. b[r].d \in Nat
    BY <2>2 DEF BestOf, Results
  <2> QED BY <1>0, <2>1, <2>3, <2>4, <2>5
<1>5. ASSUME all, NEW r \in real PROVE Cardinality(as_near(top[r].d - 1)) < r
  <2>1. r \in 1 .. k /\ top[r].d \in Nat
    BY <1>0
  <2>2. ASSUME NEW m \in as_near(top[r].d - 1) PROVE \E s \in 1 .. r - 1 : top[s].id = m
    <3>1. m \in M /\ Distance(q, db[m]) \in Nat /\ Distance(q, db[m]) < top[r].d
      BY <1>0, <1>5, <2>1
    <3>2. PICK s \in 1 .. k : top[s].id = m
      <4>1. ~(top[r].d <= Distance(q, db[m]))
        BY <2>1, <3>1
      <4> QED BY <2>1, <3>1, <4>1 DEF BestOf
    <3>3. top[s].d = Distance(q, db[m])
      <4>1. m # -1 /\ Honest(top, M, q, s)
        BY <3>1 DEF BestOf
      <4> QED BY <3>2, <4>1 DEF Honest
    <3>4. s < r
      <4> SUFFICES ASSUME r <= s PROVE FALSE
        BY <2>1
      <4>1. top[r].d <= top[s].d
        BY <2>1 DEF BestOf
      <4> QED BY <2>1, <3>1, <3>3, <4>1
    <3>5. s \in 1 .. r - 1
      BY <2>1, <3>4
    <3> QED BY <3>2, <3>5
  <2> HIDE DEF as_near
  <2> QED BY <2>1, <2>2, FewBefore
<1>6. ASSUME all, Cardinality(real) < k PROVE Cardinality(real) = Cardinality(DOMAIN db)
  <2>0. IsFiniteSet(1 .. k) /\ Cardinality(1 .. k) = k
    <3>1. PICK z \in Int, y \in Int : z = 1 /\ y = k
      OBVIOUS
    <3>2. IsFiniteSet(z .. y) /\ Cardinality(z .. y) = IF z > y THEN 0 ELSE y - z + 1
      BY FS_Interval
    <3> QED BY <3>1, <3>2
  <2>1. PICK r \in 1 .. k : top[r].id = -1
    <3>1. real # 1 .. k
      <4> HIDE DEF real
      <4>1. Cardinality(real) # k
        <5>1. IsFiniteSet(real)
          <6>1. real \in SUBSET (1 .. k)
            BY <1>0
          <6> QED BY <2>0, <6>1, FS_Subset
        <5>2. Cardinality(real) \in Nat
          BY <5>1, FS_CardinalityType
        <5> QED BY <1>6, <5>2
      <4> QED BY <2>0, <4>1
    <3> QED BY <1>0, <3>1
  <2>2. top[r].d = kFar
    <3>1. Honest(top, M, q, r)
      BY DEF BestOf
    <3> QED BY <2>1, <3>1 DEF Honest
  <2>3. ASSUME NEW m \in 0 .. n - 1 PROVE \E s \in real : top[s].id = m
    <3>1. m \in M /\ Distance(q, db[m]) \in Nat /\ Distance(q, db[m]) < kFar /\ kFar \in Nat /\ m # -1
      BY <1>0, <1>6 DEF kFar
    <3>2. ~(top[r].d <= Distance(q, db[m]))
      BY <2>2, <3>1
    <3>3. PICK s \in 1 .. k : top[s].id = m
      BY <3>1, <3>2 DEF BestOf
    <3> QED BY <1>0, <3>1, <3>3
  <2> DEFINE who == [s \in real |-> top[s].id]
  <2>4. who \in [real -> DOMAIN db]
    BY <1>0, <1>1
  <2>5. who \in Surjection(real, DOMAIN db)
    <3>1. \A m \in DOMAIN db : \E s \in real : who[s] = m
      BY <1>0, <2>3
    <3> HIDE DEF who, real
    <3> QED BY <2>4, <3>1 DEF Surjection
  <2>6. who \in Injection(real, DOMAIN db)
    <3>1. \A s, t \in real : who[s] = who[t] => s = t
      BY <1>2
    <3> HIDE DEF who, real
    <3> QED BY <2>4, <3>1 DEF Injection, IsInjective
  <2>7. IsFiniteSet(real)
    <3>1. real \in SUBSET (1 .. k)
      BY <1>0
    <3> HIDE DEF real
    <3> QED BY <2>0, <3>1, FS_Subset
  <2> HIDE DEF who, real
  <2> QED BY <2>5, <2>6, <2>7, FS_Surjection
<1> QED BY <1>0, <1>1, <1>2, <1>3, <1>4, <1>5, <1>6 DEF Sound

(***************************************************************************)
(* The invariant: the lists hold every vector once, and the last answer is *)
(* the nearest of the vectors it has met.  Training moves the centroids    *)
(* and leaves the lists alone, which Filed does not mind.                  *)
(***************************************************************************)
ListsHold ==
    /\ Centred /\ list_start \in [Cells -> Nat] /\ list_count \in [Cells -> Nat]
    /\ \E n \in Nat : /\ db \in [0 .. n - 1 -> Coords]
                       /\ Filed(n, list_start, list_count, list_ids)
AnswerHolds ==
    query.k # 0 =>
        /\ query.q \in Coords /\ query.k \in Nat
        /\ \E M \in SUBSET DOMAIN db :
              /\ BestOf(query.top, M, query.q, query.k)
              /\ query.nprobe = NList => M = DOMAIN db
IvfInv == ListsHold /\ AnswerHolds

LEMMA NatFunctions ==
  ASSUME NEW S, NEW f \in [S -> Coords] PROVE f \in [S -> Nat]
<1>1. \A x \in S : f[x] \in Nat
  BY IvfAssumption
<1> QED BY <1>1

\* Whatever the vectors, cells and queries, and however often the index is trained
\* or filled again: a search returns vectors of the index, each once, nearest
\* first, and one that probes every cell returns the k nearest, as the exhaustive
\* scan does.  Distances are less than kFar, which stands for none.
THEOREM SearchesFindNearest ==
  ASSUME Coords \subseteq 0 .. kFar - 1
  PROVE  IvfSpec => []SearchesSound
<1>0. NList \in Nat \ {0} /\ Coords \subseteq Nat /\ kMaxK \in Nat /\ MaxVectors \in Nat
  BY IvfAssumption
<1>1. IvfInit => IvfInv
  <2> SUFFICES ASSUME IvfInit PROVE IvfInv
    OBVIOUS
  <2>1. Centred /\ list_start \in [Cells -> Nat] /\ list_count \in [Cells -> Nat]
    BY <1>0 DEF IvfInit, Centred
  <2>2. db \in [0 .. 0 - 1 -> Coords]
    BY DEF IvfInit
  <2>3. Filed(0, list_start, list_count, list_ids)
    <3>1. \A c \in Cells : list_count[c] = 0
      BY DEF IvfInit
    <3>2. \A c \in Cells : 1 .. list_count[c] = {}
      BY <3>1
    <3>3. 0 .. 0 - 1 = {}
      OBVIOUS
    <3> QED BY <3>2, <3>3 DEF Filed
  <2>4. AnswerHolds
    BY DEF IvfInit, NoQuery, AnswerHolds
  <2> QED BY <2>1, <2>2, <2>3, <2>4 DEF IvfInv, ListsHold
<1>2. IvfInv /\ [IvfNext]_ivfVars => IvfInv'
  <2> SUFFICES ASSUME IvfInv, [IvfNext]_ivfVars PROVE IvfInv'
    OBVIOUS
  <2>0. PICK n \in Nat : db \in [0 .. n - 1 -> Coords] /\ Filed(n, list_start, list_count, list_ids)
    BY DEF IvfInv, ListsHold
  <2>n. query' = NoQuery => AnswerHolds'
    BY DEF NoQuery, AnswerHolds
  <2>1. CASE IvfTrain
    <3>1. centroids' \in [Cells -> Nat]
      BY <1>0, <2>1 DEF IvfTrain
    <3>2. ListsHold'
      BY <2>1, <3>1 DEF IvfTrain, IvfInv, ListsHold, Centred
    <3> QED BY <2>1, <2>n, <3>2 DEF IvfTrain, IvfInv
  <2>2. CASE IvfAdd
    <3>1. PICK m \in 1 .. MaxVectors : \E vs \in [0 .. (m - 1) -> Coords] :
            /\ db' = vs /\ list_ids' = Placed(vs)
            /\ list_count' = Counted(vs) /\ list_start' = Starts(Counted(vs))
      BY <2>2 DEF IvfAdd
    <3>2. PICK vs \in [0 .. m - 1 -> Coords] :
            /\ db' = vs /\ list_ids' = Placed(vs)
            /\ list_count' = Counted(vs) /\ list_start' = Starts(Counted(vs))
      BY <3>1
    <3>3. m \in Nat /\ vs \in [0 .. m - 1 -> Nat]
      BY <1>0, NatFunctions
    <3>4. /\ Counted(vs) \in [Cells -> Nat] /\ Starts(Counted(vs)) \in [Cells -> Nat]
          /\ Filed(m, Starts(Counted(vs)), Counted(vs), Placed(vs))
      BY <3>3, CountingSort DEF IvfInv, ListsHold
    <3>5. Centred'
      BY <2>2 DEF IvfAdd, IvfInv, ListsHold, Centred
    <3>6. ListsHold'
      BY <3>2, <3>3, <3>4, <3>5 DEF ListsHold
    <3> QED BY <2>2, <2>n, <3>6 DEF IvfAdd, IvfInv
  <2>3. CASE IvfSearch
    <3>1. PICK q \in Coords, k \in 1 .. kMaxK, nprobe \in 1 .. NList :
            query' = [q |-> q, k |-> k, nprobe |-> nprobe, top |-> k_search_ivf(q, k, nprobe)]
      BY <2>3 DEF IvfSearch
    <3>2. UNCHANGED <<trained, centroids, db, list_start, list_count, list_ids>>
      BY <2>3 DEF IvfSearch
    <3>3. Indexed(n) /\ q \in Nat /\ k \in Nat /\ DOMAIN db = 0 .. n - 1
      BY <1>0, <2>0, NatFunctions DEF Indexed
    <3>4. PICK M \in SUBSET (0 .. n - 1) :
            /\ BestOf(k_search_ivf(q, k, nprobe), M, q, k)
            /\ nprobe = NList => M = 0 .. n - 1
      BY <2>0, <3>3, IvfFindsBest DEF IvfInv, ListsHold
    <3>5. PICK top : top = k_search_ivf(q, k, nprobe) /\ BestOf(top, M, q, k)
      BY <3>4
    <3>6. BestOf(top, M, q, k)'
      BY <3>2, <3>5 DEF BestOf, Honest
    <3>7. query'.q = q /\ query'.k = k /\ query'.nprobe = nprobe /\ query'.top = top
      BY <3>1, <3>5
    <3>8. M \in SUBSET DOMAIN db' /\ (nprobe = NList => M = DOMAIN db')
      BY <3>2, <3>3, <3>4
    <3>9. AnswerHolds'
      BY <3>3, <3>6, <3>7, <3>8 DEF AnswerHolds
    <3>10. ListsHold'
      BY <3>2 DEF IvfInv, ListsHold, Centred
    <3> QED BY <3>9, <3>10 DEF IvfInv
  <2>4. CASE UNCHANGED ivfVars
    <3>1. ListsHold'
      BY <2>4 DEF ivfVars, IvfInv, ListsHold, Centred
    <3>2. AnswerHolds'
      <4>1. \A top, M, q, k : BestOf(top, M, q, k)' <=> BestOf(top, M, q, k)
        BY <2>4 DEF ivfVars, BestOf, Honest
      <4> QED BY <2>4, <4>1 DEF ivfVars, IvfInv, AnswerHolds
    <3> QED BY <3>1, <3>2 DEF IvfInv
  <2> QED BY <2>1, <2>2, <2>3, <2>4 DEF IvfNext
<1>3. IvfInv => SearchesSound
  <2> SUFFICES ASSUME IvfInv, query.k > 0 PROVE SearchesSound
    BY DEF SearchesSound
  <2>1. PICK n \in Nat : db \in [0 .. n - 1 -> Coords]
    BY DEF IvfInv, ListsHold
  <2>2. PICK q, k, top : q = query.q /\ k = query.k /\ top = query.top
    OBVIOUS
  <2>3. PICK all \in BOOLEAN : all = (query.nprobe = NList)
    OBVIOUS
  <2>4. k # 0 => /\ q \in Coords /\ k \in Nat
                 /\ \E M \in SUBSET DOMAIN db : BestOf(top, M, q, k) /\ (all => M = DOMAIN db)
    BY <2>2, <2>3 DEF IvfInv, AnswerHolds
  <2>5. k # 0
    BY <2>2
  <2>6. q \in Nat /\ k \in Nat /\ Indexed(n) /\ DOMAIN db = 0 .. n - 1
    BY <1>0, <2>1, <2>4, <2>5, NatFunctions DEF Indexed
  <2>7. PICK M \in SUBSET (0 .. n - 1) : BestOf(top, M, q, k) /\ (all => M = 0 .. n - 1)
    BY <2>4, <2>5, <2>6
  <2>8. \A m \in 0 .. n - 1 : Distance(q, db[m]) < kFar
    <3> SUFFICES ASSUME NEW m \in 0 .. n - 1 PROVE Distance(q, db[m]) < kFar
      OBVIOUS
    <3>1. db[m] \in 0 .. kFar - 1 /\ q \in 0 .. kFar - 1
      BY <2>1, <2>4, <2>5
    <3>2. \A a, b \in 0 .. kFar - 1 : Distance(a, b) < kFar
      BY DEF Distance, kFar
    <3> QED BY <3>1, <3>2
  <2>9. Sound(top, q, k, all)
    BY <2>6, <2>7, <2>8, AnswerSound
  <2> QED BY <2>2, <2>3, <2>9 DEF SearchesSound, Sound
<1> QED BY <1>1, <1>2, <1>3, PTL DEF IvfSpec
=============================================================================
