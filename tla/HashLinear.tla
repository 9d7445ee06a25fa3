----------------------------- MODULE HashLinear -----------------------------
(***************************************************************************)
(* k_insert_linear of 03-hash-kv: each thread walks from the home slot of  *)
(* its key, updates the slot that holds the key or claims the first empty  *)
(* one, each time with one atomicCAS against what it read.                 *)
(***************************************************************************)
EXTENDS HashTable

\* The load at the top of the loop.  Its result either asks for a CAS or
\* sends the thread to the next slot.
LinearRead(t) ==
    /\ pc[t] = "read"
    /\ \E c \in Load(slot[t]) :
         \/ /\ slot_key(c) = slot_key(entry[t]) \/ c = EMPTY_SLOT
            /\ cur' = [cur EXCEPT ![t] = c]
            /\ pc' = [pc EXCEPT ![t] = "cas"]
            /\ UNCHANGED slot
         \/ /\ slot_key(c) # slot_key(entry[t]) /\ c # EMPTY_SLOT
            /\ slot' = [slot EXCEPT ![t] = NextSlot(@)]
            /\ UNCHANGED <<cur, pc>>
    /\ UNCHANGED <<probe, table, seen, entry, dist, hostVars>>

\* Mutant: a lost claim goes on even when the winner wrote our key.
LinearCasMovesOn(t) ==
    /\ pc[t] = "cas"
    /\ \/ /\ table[slot[t]] = cur[t]
          /\ Swap(slot[t], entry[t])
          /\ pc' = [pc EXCEPT ![t] = "done"]
          /\ UNCHANGED slot
       \/ /\ table[slot[t]] # cur[t]
          /\ pc' = [pc EXCEPT ![t] = "read"]
          /\ slot' = IF slot_key(cur[t]) = slot_key(entry[t])
                       THEN slot ELSE [slot EXCEPT ![t] = NextSlot(@)]
          /\ UNCHANGED <<table, seen>>
    /\ UNCHANGED <<probe, entry, cur, dist, hostVars>>

\* Mutant: a plain store where the code compares and swaps.
LinearStore(t) ==
    /\ pc[t] = "cas"
    /\ Swap(slot[t], entry[t])
    /\ pc' = [pc EXCEPT ![t] = "done"]
    /\ UNCHANGED <<probe, slot, entry, cur, dist, hostVars>>

\* The CAS: both branches expect what was read.  A lost claim goes on to the
\* next slot unless the winner wrote our key; a lost update reads again.
LinearCas(t) ==
    /\ pc[t] = "cas"
    /\ \/ /\ table[slot[t]] = cur[t]
          /\ Swap(slot[t], entry[t])
          /\ pc' = [pc EXCEPT ![t] = "done"]
          /\ UNCHANGED slot
       \/ /\ table[slot[t]] # cur[t]
          /\ pc' = [pc EXCEPT ![t] = "read"]
          /\ slot' = IF \/ slot_key(cur[t]) = slot_key(entry[t])
                        \/ slot_key(table[slot[t]]) = slot_key(entry[t])
                       THEN slot
                       ELSE [slot EXCEPT ![t] = NextSlot(@)]
          /\ UNCHANGED <<table, seen>>
    /\ UNCHANGED <<probe, entry, cur, dist, hostVars>>

-----------------------------------------------------------------------------
\* Slots the walk of key k visits before it comes to slot s.
Before(k, s) == {u \in Slots : Dist(k, u) < Dist(k, s)}

\* A key lives in one slot.
UniqueKeys ==
    \A s, u \in Slots :
        table[s] # EMPTY_SLOT /\ slot_key(table[s]) = slot_key(table[u]) => s = u

\* No empty slot, hence no end of a lookup, lies between the home of a stored
\* key and the slot it is in, in the middle of a launch too.
ProbePathsFull ==
    \A s \in Slots : table[s] # EMPTY_SLOT =>
        \A u \in Before(slot_key(table[s]), s) : table[u] # EMPTY_SLOT

\* What a thread has walked past is taken, by other keys.
WalkedPast ==
    \A t \in Threads : pc[t] \in {"read", "cas"} =>
        \A u \in Before(slot_key(entry[t]), slot[t]) :
            table[u] # EMPTY_SLOT /\ slot_key(table[u]) # slot_key(entry[t])

\* An old value of a slot names the key the slot has now, or none.
OldKeysAgree ==
    \A s \in Slots : \A c \in seen[s] \cup {table[s]} :
        c # EMPTY_SLOT => table[s] # EMPTY_SLOT /\ slot_key(table[s]) = slot_key(c)

\* What a thread is about to swap out is nothing or its own key.
CasExpects ==
    \A t \in Threads :
        /\ pc[t] \in {"read", "cas"} => entry[t] \in Keys \X Vals
        /\ pc[t] = "cas" /\ cur[t] # EMPTY_SLOT =>
              /\ slot_key(cur[t]) = slot_key(entry[t])
              /\ table[slot[t]] # EMPTY_SLOT
              /\ slot_key(table[slot[t]]) = slot_key(entry[t])

\* The inductive invariant of a linear table: the second and third conjuncts
\* are what lookups rely on, the others keep them true.
LinearInv ==
    TypeOK /\ UniqueKeys /\ ProbePathsFull /\ WalkedPast /\ OldKeysAgree /\ CasExpects
=============================================================================
