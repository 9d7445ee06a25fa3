--------------------------- MODULE PageAllocator ---------------------------
(***************************************************************************)
(* The KV page bookkeeping of the LLM runtime: class PageAllocator of      *)
(* 19-llm-engine.  It hands out page ids and counts the holders of each    *)
(* page.  Every public operation holds the mutex mu_ for its whole body,   *)
(* so each is one atomic action.                                           *)
(*                                                                         *)
(* An operation that throws or returns nullopt changes nothing: it is a    *)
(* stuttering disjunct here, and a caller reads the outcome off the same   *)
(* condition the allocator tests.                                          *)
(***************************************************************************)
EXTENDS Integers, Sequences

CONSTANT TotalPages     \* total_, the argument of the constructor

\* The constructor throws InvalidArgument for total_pages <= 0.
ASSUME TotalPagesAssumption == TotalPages \in Nat \ {0}

Pages == 0 .. TotalPages - 1

VARIABLES
    free,       \* free_: the stack of free page ids, its back is the last element
    refs        \* refs_: the number of holders of each page

allocVars == <<free, refs>>

\* Low ids are handed out first: the back of the stack is page 0.
AllocInit ==
    /\ free = [i \in 1 .. TotalPages |-> TotalPages - i]
    /\ refs = [p \in Pages |-> 0]

\* The n pages allocate_many(n) takes, in the order it takes them.
TopPages(n) == [i \in 1 .. n |-> free[Len(free) + 1 - i]]

\* n = 0 returns an empty vector; a short stack returns nullopt and takes nothing.
AllocateMany(n) ==
    \/ /\ Len(free) >= n
       /\ free' = SubSeq(free, 1, Len(free) - n)
       /\ refs' = [p \in Pages |->
                      IF \E i \in 1 .. n : TopPages(n)[i] = p THEN 1 ELSE refs[p]]
    \/ /\ Len(free) < n
       /\ UNCHANGED <<free, refs>>

Retain(p) ==
    \/ /\ refs[p] # 0
       /\ refs' = [refs EXCEPT ![p] = @ + 1]
       /\ UNCHANGED free
    \/ /\ refs[p] = 0
       /\ UNCHANGED <<free, refs>>

\* Mutant: every release pushes the page.
ReleaseAlwaysFrees(p) ==
    /\ refs[p] # 0
    /\ refs' = [refs EXCEPT ![p] = @ - 1]
    /\ free' = Append(free, p)

Release(p) ==
    \/ /\ refs[p] # 0
       /\ refs' = [refs EXCEPT ![p] = @ - 1]
       /\ free' = IF refs[p] = 1 THEN Append(free, p) ELSE free
    \/ /\ refs[p] = 0
       /\ UNCHANGED <<free, refs>>

\* allocate() is allocate_many(1); ids out of range make check() throw.
AllocNext ==
    \/ \E n \in 0 .. TotalPages + 1 : AllocateMany(n)
    \/ \E p \in Pages : Retain(p) \/ Release(p)

AllocSpec == AllocInit /\ [][AllocNext]_allocVars

-----------------------------------------------------------------------------
AllocTypeOK ==
    /\ free \in Seq(Pages)
    /\ refs \in [Pages -> Nat]

\* No page is twice on the free stack: two callers are never handed one page.
FreeDistinct ==
    \A i, j \in 1 .. Len(free) : free[i] = free[j] => i = j

\* A page is on the free stack exactly when nobody holds it: none is lost and
\* none is handed out while it is held.
FreeIffUnheld ==
    \A p \in Pages : refs[p] = 0 <=> \E i \in 1 .. Len(free) : free[i] = p

AllocInv == AllocTypeOK /\ FreeDistinct /\ FreeIffUnheld
=============================================================================
