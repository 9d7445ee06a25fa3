--------------------------- MODULE GpuHashTable ---------------------------
(***************************************************************************)
(* The hash table of 03-hash-kv as its users see it: a table is made with  *)
(* one probe strategy, and insert() launches the kernel of that strategy.  *)
(***************************************************************************)
EXTENDS HashLinear, HashRobinHood

\* One load or one CAS of thread t of the running insert kernel.
KernelStep(t) ==
    \/ probe = "Linear" /\ (LinearRead(t) \/ LinearCas(t))
    \/ probe = "RobinHood" /\ (RobinRead(t) \/ RobinCas(t))

Next ==
    \/ \E T \in SUBSET Threads \ {{}} : \E job \in [T -> Keys \X Vals] : Launch(T, job)
    \/ \E t \in Threads : KernelStep(t)
    \/ KernelEnd
    \/ clear

Spec == Init /\ [][Next]_vars

\* The device schedules every thread of a kernel, and a load that is repeated
\* is not stale for ever.
FreshLoad(t) ==
    pc[t] = "read" /\ KernelStep(t) /\ (pc'[t] = "cas" => cur'[t] = table[slot[t]])
Fairness ==
    /\ \A t \in Threads : WF_vars(KernelStep(t)) /\ SF_vars(FreshLoad(t))
    /\ WF_vars(KernelEnd)

FairSpec == Spec /\ Fairness

-----------------------------------------------------------------------------
\* Throughout a launch of a linear table, with stale loads too, a key lives in
\* one slot and no lookup would stop short of it.
LinearTablesSound == probe = "Linear" => LinearInv

\* In a linear table a slot once taken keeps its key until the table is cleared.
KeysStay ==
    [][probe = "Linear" /\ ~clear =>
         \A s \in Slots : table[s] # EMPTY_SLOT =>
             table'[s] # EMPTY_SLOT /\ slot_key(table'[s]) = slot_key(table[s])]_vars

\* While an entry is carried from slot to slot of a Robin Hood table it is not
\* lost and not doubled: every key is in one slot or with one thread.  Between
\* calls of either kind of table, size_hint() counts the keys given so far.
EntriesConserved ==
    /\ probe = "RobinHood" => \A k \in Keys : Present(k) =>
         Cardinality(Carriers(k)) + Cardinality(Residences(k)) = 1
    /\ Idle => SizeHint = Cardinality({k \in Keys : Present(k)})

\* Between calls a lookup, by either kernel, returns a value that the last
\* insert() naming the key gave it, and kNotFound for a key never given one.
LookupsMatchInserts ==
    Idle => \A q \in Queries :
        /\ FindThread(q) = FindWarp(q)
        /\ Present(q) => FindThread(q) \in latest[q]
        /\ ~Present(q) => FindThread(q) = NotFound
=============================================================================
