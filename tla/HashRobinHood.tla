--------------------------- MODULE HashRobinHood ---------------------------
(***************************************************************************)
(* k_insert_robinhood of 03-hash-kv: a thread that meets an entry closer   *)
(* to its home than its own takes the slot and carries that entry on.      *)
(* While it is carried an entry is in no slot of the table.                *)
(***************************************************************************)
EXTENDS HashTable

\* The load, and what the thread decides to do about the result.
Takes(t, c) ==
    \/ c = EMPTY_SLOT
    \/ slot_key(c) = slot_key(entry[t])
    \/ c # EMPTY_SLOT /\ Dist(slot_key(c), slot[t]) < dist[t]

RobinRead(t) ==
    /\ pc[t] = "read"
    /\ \E c \in Load(slot[t]) :
         \/ /\ Takes(t, c)
            /\ cur' = [cur EXCEPT ![t] = c]
            /\ pc' = [pc EXCEPT ![t] = "cas"]
            /\ UNCHANGED <<slot, dist>>
         \/ /\ ~Takes(t, c)
            /\ slot' = [slot EXCEPT ![t] = NextSlot(@)]
            /\ dist' = [dist EXCEPT ![t] = @ + 1]
            /\ UNCHANGED <<cur, pc>>
    /\ UNCHANGED <<probe, table, seen, entry, hostVars>>

\* Mutant: the evicted entry is dropped.
RobinCasDrops(t) ==
    /\ pc[t] = "cas"
    /\ \/ /\ table[slot[t]] = cur[t]
          /\ Swap(slot[t], entry[t])
          /\ pc' = [pc EXCEPT ![t] = "done"]
       \/ /\ table[slot[t]] # cur[t]
          /\ pc' = [pc EXCEPT ![t] = "read"]
          /\ UNCHANGED <<table, seen>>
    /\ UNCHANGED <<probe, slot, entry, dist, cur, hostVars>>

\* A CAS that wins places the entry; a resident that is evicted becomes the
\* entry.  One that loses reads the same slot again.
RobinCas(t) ==
    /\ pc[t] = "cas"
    /\ \/ /\ table[slot[t]] = cur[t]
          /\ Swap(slot[t], entry[t])
          /\ \/ /\ cur[t] = EMPTY_SLOT \/ slot_key(cur[t]) = slot_key(entry[t])
                /\ pc' = [pc EXCEPT ![t] = "done"]
                /\ UNCHANGED <<entry, dist>>
             \/ /\ cur[t] # EMPTY_SLOT /\ slot_key(cur[t]) # slot_key(entry[t])
                /\ pc' = [pc EXCEPT ![t] = "read"]
                /\ entry' = [entry EXCEPT ![t] = cur[t]]
                /\ dist' = [dist EXCEPT ![t] = Dist(slot_key(cur[t]), slot[t])]
       \/ /\ table[slot[t]] # cur[t]
          /\ pc' = [pc EXCEPT ![t] = "read"]
          /\ UNCHANGED <<table, seen, entry, dist>>
    /\ UNCHANGED <<probe, slot, cur, hostVars>>

-----------------------------------------------------------------------------
\* Where key k is: with the threads that carry it and in the slots that hold it.
Carriers(k) == {t \in Threads : pc[t] \in {"read", "cas"} /\ slot_key(entry[t]) = k}
Residences(k) == {s \in Slots : slot_key(table[s]) = k}
=============================================================================
