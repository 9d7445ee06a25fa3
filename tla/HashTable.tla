----------------------------- MODULE HashTable -----------------------------
(***************************************************************************)
(* The state and the host side of GpuHashTable (03-hash-kv): an open       *)
(* addressing table of 64-bit slots, each a key and a value that change    *)
(* together.  insert() launches one kernel over a batch and waits for it;  *)
(* find(), clear() and size_hint() run when no insert kernel does.  The    *)
(* two insert kernels are in HashLinear and HashRobinHood, and GpuHashTable *)
(* puts the parts together.  The counters behind InsertStats and           *)
(* Displacement are left out.                                              *)
(*                                                                         *)
(* The kernels read a slot with a plain load while other threads change it *)
(* with atomicCAS.  That is a data race: with StaleReads a load returns    *)
(* any value the slot has held since the launch, not only the last.        *)
(***************************************************************************)
EXTENDS Integers, FiniteSets, FiniteSetsExt

CONSTANTS
    Cap,            \* impl_->cap, a power of two
    Lanes,          \* lanes of a warp, 32 in the code; cap is a multiple
    Keys,           \* keys callers insert
    EmptyKey,       \* kEmptyKey
    Queries,        \* keys callers look up
    Vals,           \* values; 0 is the one an empty slot carries
    NotFound,       \* kNotFound
    Diverges,       \* the outcome of a lookup that never returns
    Home,           \* hash32(key) & mask
    Threads,        \* threads of an insert launch
    Probes,         \* probe strategies a table is made with
    StaleReads,     \* plain loads may return an old value
    FreshKeysOnly,  \* callers name no key twice to a Robin Hood table
    MaxLaunches     \* bound on the calls of insert()

Slots == 0 .. Cap - 1

\* The code does not refuse an insert of the sentinel key; callers avoid it.
ASSUME HashAssumption ==
    /\ Cap \in Nat \ {0} /\ Lanes \in Nat \ {0} /\ Cap % Lanes = 0
    /\ Keys \subseteq Queries /\ EmptyKey \notin Keys
    /\ Home \in [Queries -> Slots]
    /\ Probes \subseteq {"Linear", "RobinHood"}
    /\ 0 \in Vals /\ MaxLaunches \in Nat

EMPTY_SLOT == <<EmptyKey, 0>>
SlotValues == (Keys \X Vals) \cup {EMPTY_SLOT}
slot_key(c) == c[1]
slot_val(c) == c[2]

VARIABLES
    probe,      \* impl_->probe
    table,      \* the slots
    seen,       \* seen[s]: what a load of slot s may return
    pc,         \* of each thread: "idle", "read", "cas" or "done"
    entry,      \* what the thread is placing
    slot,       \* where it is
    cur,        \* what it read there
    dist,       \* how far it counts to be from the home of its entry
    launches,   \* calls of insert() so far
    latest      \* latest[k]: values the last call that named k gave it

hostVars == <<launches, latest>>
threadVars == <<pc, entry, slot, cur, dist>>
vars == <<probe, table, seen, pc, entry, slot, cur, dist, launches, latest>>

Init ==
    /\ probe \in Probes
    /\ table = [s \in Slots |-> EMPTY_SLOT]
    /\ seen = [s \in Slots |-> {EMPTY_SLOT}]
    /\ pc = [t \in Threads |-> "idle"]
    /\ entry = [t \in Threads |-> EMPTY_SLOT]
    /\ slot = [t \in Threads |-> 0]
    /\ cur = [t \in Threads |-> EMPTY_SLOT]
    /\ dist = [t \in Threads |-> 0]
    /\ launches = 0
    /\ latest = [k \in Keys |-> {}]

Present(k) == k \in Keys /\ latest[k] # {}

Idle == \A t \in Threads : pc[t] = "idle"

\* insert(keys, values): thread t of T takes pair job[t].
Launch(T, job) ==
    /\ Idle
    /\ probe = "RobinHood" /\ FreshKeysOnly =>
         \A t, u \in T : /\ ~Present(slot_key(job[t]))
                         /\ slot_key(job[t]) = slot_key(job[u]) => t = u
    /\ launches < MaxLaunches
    /\ launches' = launches + 1
    /\ latest' = [k \in Keys |->
                     LET given == {slot_val(job[t]) : t \in {u \in T : slot_key(job[u]) = k}}
                     IN  IF given = {} THEN latest[k] ELSE given]
    /\ seen' = [s \in Slots |-> {table[s]}]
    /\ pc' = [t \in Threads |-> IF t \in T THEN "read" ELSE "done"]
    /\ entry' = [t \in Threads |-> IF t \in T THEN job[t] ELSE EMPTY_SLOT]
    /\ slot' = [t \in Threads |-> IF t \in T THEN Home[slot_key(job[t])] ELSE 0]
    /\ UNCHANGED <<probe, table, cur, dist>>

\* CU_CHECK_KERNEL() in insert(): every thread has returned.
KernelEnd ==
    /\ \A t \in Threads : pc[t] = "done"
    /\ pc' = [t \in Threads |-> "idle"]
    /\ entry' = [t \in Threads |-> EMPTY_SLOT]
    /\ slot' = [t \in Threads |-> 0]
    /\ cur' = [t \in Threads |-> EMPTY_SLOT]
    /\ dist' = [t \in Threads |-> 0]
    /\ seen' = [s \in Slots |-> {table[s]}]
    /\ UNCHANGED <<probe, table, hostVars>>

clear ==
    /\ Idle
    /\ table' = [s \in Slots |-> EMPTY_SLOT]
    /\ seen' = [s \in Slots |-> {EMPTY_SLOT}]
    /\ latest' = [k \in Keys |-> {}]
    /\ UNCHANGED <<probe, threadVars, launches>>

\* A plain load of slot s, and an atomicCAS of slot s that succeeds.
Load(s) == IF StaleReads THEN seen[s] ELSE {table[s]}
Swap(s, new) ==
    /\ table' = [table EXCEPT ![s] = new]
    /\ seen' = [seen EXCEPT ![s] = @ \cup {new}]

\* (slot + 1) & mask, and the distance (slot - home) & mask of slot s from the
\* home of key k.
NextSlot(s) == IF s + 1 = Cap THEN 0 ELSE s + 1
Dist(k, s) == IF s >= Home[k] THEN s - Home[k] ELSE s - Home[k] + Cap

(***************************************************************************)
(* Lookups.  A lookup walks the slots from the home of its key.            *)
(***************************************************************************)
Walk(q, d) == table[(Home[q] + d) % Cap]

\* k_find_thread: the first slot that matches or is empty decides.
FindThread(q) ==
    LET stops == {d \in Slots : slot_key(Walk(q, d)) = q \/ Walk(q, d) = EMPTY_SLOT}
        first == Walk(q, Min(stops))
    IN  IF stops = {} THEN Diverges
        ELSE IF slot_key(first) = q THEN slot_val(first) ELSE NotFound

\* Mutant: the cooperative lookup gives up after one round.
FindWarpCapped(q) ==
    LET hits == {d \in 0 .. Lanes - 1 : slot_key(Walk(q, d)) = q}
    IN  IF hits # {} THEN slot_val(Walk(q, Min(hits))) ELSE NotFound

\* k_find_warp: a round of Lanes slots at once; in the first round with a match
\* or an empty slot the lowest match decides, wherever the empty slot is.
FindWarp(q) ==
    LET round(r) == {r * Lanes + l : l \in 0 .. Lanes - 1}
        hits(r) == {d \in round(r) : slot_key(Walk(q, d)) = q}
        empties(r) == {d \in round(r) : Walk(q, d) = EMPTY_SLOT}
        stops == {r \in 0 .. Cap \div Lanes - 1 : hits(r) # {} \/ empties(r) # {}}
        last == hits(Min(stops))
    IN  IF stops = {} THEN Diverges
        ELSE IF last # {} THEN slot_val(Walk(q, Min(last))) ELSE NotFound

\* size_hint(): k_count_occupied.
SizeHint == Cardinality({s \in Slots : table[s] # EMPTY_SLOT})

-----------------------------------------------------------------------------
TypeOK ==
    /\ probe \in Probes
    /\ table \in [Slots -> SlotValues]
    /\ seen \in [Slots -> SUBSET SlotValues]
    /\ pc \in [Threads -> {"idle", "read", "cas", "done"}]
    /\ entry \in [Threads -> SlotValues]
    /\ slot \in [Threads -> Slots]
    /\ cur \in [Threads -> SlotValues]
    /\ dist \in [Threads -> Nat]
    /\ launches \in 0 .. MaxLaunches
    /\ latest \in [Keys -> SUBSET Vals]
=============================================================================
