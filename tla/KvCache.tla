------------------------------ MODULE KvCache ------------------------------
(***************************************************************************)
(* PagedKvCache of 01-gguf-inference: sequences of tokens in pages, one    *)
(* page table per layer, pages shared by forks and copied before a write.  *)
(* A token is appended layer by layer; the pages of all its layers are     *)
(* reserved with its first layer.  One mutex serializes the calls, so each *)
(* is one action; calls for different sequences interleave between layers. *)
(*                                                                         *)
(* The K and the V half of a slot are written and copied alike and stand   *)
(* as one value.  A call that throws before it changes anything is not an  *)
(* action: its condition is missing from the guards.                       *)
(***************************************************************************)
EXTENDS Integers, Sequences, FiniteSets

CONSTANTS
    NLayers,        \* cfg.n_layers
    PageTokens,     \* cfg.page_tokens
    TotalPages,     \* cfg.total_pages
    MaxContext,     \* cfg.max_context, 0 for none
    Vals,           \* what a slot can hold
    Junk,           \* what an unwritten slot holds
    None,           \* the content of a dead sequence
    MaxSeqs,        \* bound on seqs.size()
    MaxLength,      \* bound on the tokens of a sequence when MaxContext is 0
    FaultLayers     \* layers whose append may meet a failing cudaMemcpy

\* The constructor refuses a count of 0.  MaxLength bounds every sequence.
ASSUME KvCacheAssumption ==
    /\ {NLayers, PageTokens, TotalPages, MaxSeqs, MaxLength} \subseteq Nat \ {0}
    /\ MaxContext \in 0 .. MaxLength
    /\ FaultLayers \subseteq 0 .. NLayers - 1

Layers == 0 .. NLayers - 1
Pages == 0 .. TotalPages - 1
SeqIds == 0 .. MaxSeqs - 1

\* The content of a dead sequence is not that of a live one.
ASSUME NoneAssumption == None \notin Seq([Layers -> Vals])

VARIABLES
    free,       \* free_list, its back is the last element
    refcount,   \* sequences that hold each page
    seqs,       \* the Seq objects
    slab        \* slab[p][i]: slot i of page p

vars == <<free, refcount, seqs, slab>>

EmptySeq == [live |-> FALSE, length |-> 0, next_layer |-> 0,
             pages |-> [l \in Layers |-> <<>>], reserved |-> [l \in Layers |-> -1]]

Init ==
    /\ free = [i \in 1 .. TotalPages |-> TotalPages - i]
    /\ refcount = [p \in Pages |-> 0]
    /\ seqs = [s \in SeqIds |-> EmptySeq]
    /\ slab = [p \in Pages |-> [i \in 0 .. PageTokens - 1 |-> Junk]]

\* A new sequence takes the first dead slot.
FirstDead(s) == ~seqs[s].live /\ \A u \in SeqIds : u < s => seqs[u].live

create_sequence(s) ==
    /\ FirstDead(s)
    /\ seqs' = [seqs EXCEPT ![s].live = TRUE]
    /\ UNCHANGED <<free, refcount, slab>>

\* Entries of the page tables of s that name page p.
Entries(s, p) ==
    {e \in Layers \X (1 .. MaxLength) :
        e[2] <= Len(seqs[s].pages[e[1]]) /\ seqs[s].pages[e[1]][e[2]] = p}

\* Mutant: a sequence is forked in the middle of a token too.
ForkMidToken(s, child) ==
    /\ seqs[s].live
    /\ FirstDead(child)
    /\ refcount' = [p \in Pages |-> refcount[p] + Cardinality(Entries(s, p))]
    /\ seqs' = [seqs EXCEPT ![child] =
                   [EmptySeq EXCEPT !.live = TRUE, !.length = seqs[s].length,
                                    !.pages = seqs[s].pages]]
    /\ UNCHANGED <<free, slab>>

\* Between tokens only: KvOrderError otherwise.
fork_sequence(s, child) ==
    /\ seqs[s].live
    /\ seqs[s].next_layer = 0
    /\ FirstDead(child)
    /\ refcount' = [p \in Pages |-> refcount[p] + Cardinality(Entries(s, p))]
    /\ seqs' = [seqs EXCEPT ![child] =
                   [EmptySeq EXCEPT !.live = TRUE, !.length = seqs[s].length,
                                    !.pages = seqs[s].pages]]
    /\ UNCHANGED <<free, slab>>

\* What a sequence gives back when it is freed, in the order of free_sequence:
\* table entry after table entry, layer by layer, a page that nobody else holds,
\* then the reserved pages; -1 where there is nothing to give back.
TableSlots == NLayers * MaxLength
GivesBack(s) ==
    [k \in 1 .. TableSlots + NLayers |->
        IF k > TableSlots THEN seqs[s].reserved[k - TableSlots - 1]
        ELSE LET q == seqs[s].pages[(k - 1) \div MaxLength]
                 i == ((k - 1) % MaxLength) + 1
             IN  IF i <= Len(q) /\ refcount[q[i]] = 1 THEN q[i] ELSE -1]

\* The pages among the first n entries of c, in their order.
PagesAmong(c, n) ==
    LET upTo[k \in 0 .. n] ==
            IF k = 0 THEN <<>>
            ELSE IF c[k] >= 0 THEN Append(upTo[k - 1], c[k]) ELSE upTo[k - 1]
    IN  upTo[n]

\* Mutant: reserved pages are forgotten.
FreeForgetsReserved(s) ==
    /\ seqs[s].live
    /\ refcount' = [p \in Pages |-> refcount[p] - Cardinality(Entries(s, p))]
    /\ free' = free \o PagesAmong(GivesBack(s), TableSlots)
    /\ seqs' = [seqs EXCEPT ![s] = EmptySeq]
    /\ UNCHANGED slab

\* A page whose last holder goes is pushed on the free list; a reserved page
\* is pushed whatever its count.
free_sequence(s) ==
    /\ seqs[s].live
    /\ refcount' = [p \in Pages |-> refcount[p] - Cardinality(Entries(s, p))]
    /\ free' = free \o PagesAmong(GivesBack(s), TableSlots + NLayers)
    /\ seqs' = [seqs EXCEPT ![s] = EmptySeq]
    /\ UNCHANGED slab

(***************************************************************************)
(* append.  The layer is next_layer: any other is KvOrderError.            *)
(***************************************************************************)
PageIndex(s) == seqs[s].length \div PageTokens + 1
Fresh(s, l) == Len(seqs[s].pages[l]) < PageIndex(s)
Shared(s, l) == ~Fresh(s, l) /\ refcount[seqs[s].pages[l][PageIndex(s)]] > 1
Lacking(s) == {l \in Layers : Fresh(s, l) \/ Shared(s, l)}

\* With the first layer, one page for every layer that lacks one is popped.
Reserve(s) ==
    IF seqs[s].next_layer = 0
      THEN [reserved |-> [l \in Layers |->
                             IF l \in Lacking(s)
                               THEN free[Len(free) - Cardinality({m \in Lacking(s) : m < l})]
                               ELSE seqs[s].reserved[l]],
            free |-> SubSeq(free, 1, Len(free) - Cardinality(Lacking(s)))]
      ELSE [reserved |-> seqs[s].reserved, free |-> free]

\* The checks of append() and, last, the page it needs in this layer.
Appendable(s) ==
    LET l == seqs[s].next_layer IN
    /\ seqs[s].live
    /\ l = 0 => /\ seqs[s].length < (IF MaxContext > 0 THEN MaxContext ELSE MaxLength)
                /\ Cardinality(Lacking(s)) <= Len(free)
    /\ l \in Lacking(s) => Reserve(s).reserved[l] >= 0

\* Mutant: the shared page is not copied.
NotCopied(s) == slab

\* The copy of the tokens already in a shared page.
Copied(s) ==
    LET l == seqs[s].next_layer IN
    IF Shared(s, l)
      THEN [slab EXCEPT ![Reserve(s).reserved[l]] = slab[seqs[s].pages[l][PageIndex(s)]]]
      ELSE slab

\* The reserved page becomes the page of the token, as a new page or as the
\* copy of a shared one; a reserved page that is not needed any more, since
\* the other holder has copied away, goes back.
Place(s) ==
    LET l == seqs[s].next_layer
        i == PageIndex(s)
        q == seqs[s].pages[l]
        R == Reserve(s)
        r == R.reserved[l]
    IN  CASE Fresh(s, l) ->
               [pages |-> Append(q, r), free |-> R.free,
                refcount |-> [refcount EXCEPT ![r] = 1]]
          [] Shared(s, l) ->
               [pages |-> [q EXCEPT ![i] = r], free |-> R.free,
                refcount |-> [refcount EXCEPT ![q[i]] = @ - 1, ![r] = 1]]
          [] OTHER ->
               [pages |-> q, refcount |-> refcount,
                free |-> IF r >= 0 THEN Append(R.free, r) ELSE R.free]

\* append() up to the store of k and v, and the store.
PlaceAndStore(s, v) ==
    LET P == Place(s) IN
    /\ Appendable(s)
    /\ free' = P.free
    /\ refcount' = P.refcount
    /\ slab' = [Copied(s) EXCEPT ![P.pages[PageIndex(s)]][seqs[s].length % PageTokens] = v]
Advanced(s) ==
    [seqs EXCEPT ![s].pages[seqs[s].next_layer] = Place(s).pages,
                 ![s].reserved = [Reserve(s).reserved EXCEPT ![seqs[s].next_layer] = -1]]

\* The whole call.
append(s, v) ==
    LET last == seqs[s].next_layer = NLayers - 1 IN
    /\ PlaceAndStore(s, v)
    /\ seqs' = [Advanced(s) EXCEPT ![s].next_layer = IF last THEN 0 ELSE @ + 1,
                                   ![s].length = IF last THEN @ + 1 ELSE @]

\* The copy of a shared page fails: what was reserved stays reserved.
CopyFails(s) ==
    /\ seqs[s].next_layer \in FaultLayers
    /\ Appendable(s)
    /\ Shared(s, seqs[s].next_layer)
    /\ free' = Reserve(s).free
    /\ seqs' = [seqs EXCEPT ![s].reserved = Reserve(s).reserved]
    /\ UNCHANGED <<refcount, slab>>

\* The copy of k or of v fails: the page is in place, the layer is not done,
\* and what the slot holds is unspecified.
WriteFails(s) ==
    /\ seqs[s].next_layer \in FaultLayers
    /\ PlaceAndStore(s, Junk)
    /\ seqs' = Advanced(s)

Next ==
    \E s \in SeqIds :
        \/ create_sequence(s)
        \/ \E child \in SeqIds : fork_sequence(s, child)
        \/ free_sequence(s)
        \/ \E v \in Vals : append(s, v)
        \/ CopyFails(s)
        \/ WriteFails(s)

Spec == Init /\ [][Next]_vars

-----------------------------------------------------------------------------
TypeOK ==
    /\ free \in Seq(Pages)
    /\ refcount \in [Pages -> Nat]
    /\ seqs \in [SeqIds -> [live : BOOLEAN, length : 0 .. MaxLength,
                            next_layer : Layers, pages : [Layers -> Seq(Pages)],
                            reserved : [Layers -> Pages \cup {-1}]]]
    /\ slab \in [Pages -> [0 .. PageTokens - 1 -> Vals \cup {Junk}]]

\* Where page p is: on the free list, reserved for a token, in a page table.
OnFreeList(p) == {i \in 1 .. Len(free) : free[i] = p}
ReservedFor(p) == {x \in SeqIds \X Layers : seqs[x[1]].reserved[x[2]] = p}
HeldBy(p) == {s \in SeqIds : Entries(s, p) # {}}

\* The state is of its type, and every page is in one place: once on the free list, once reserved, or in as
\* many page tables as its count says.  No page leaks and none is handed out
\* twice, through forks, copies and failed copies.
PagesAccounted ==
    /\ TypeOK
    /\ \A p \in Pages :
         /\ refcount[p] = Cardinality(HeldBy(p))
         /\ Cardinality(OnFreeList(p)) + Cardinality(ReservedFor(p))
              = IF refcount[p] = 0 THEN 1 ELSE 0

\* Once the first layer of a token is in, every later layer finds the page it
\* needs, whatever the other sequences did in between: append() never runs out
\* of pages, nor into its internal error, part-way through a token.
TokensFinish ==
    \A s \in SeqIds : seqs[s].live /\ seqs[s].next_layer > 0 =>
        \A l \in Lacking(s) : l >= seqs[s].next_layer => seqs[s].reserved[l] >= 0

\* gather_keys and gather_values of sequence s, all layers of a token together.
Gather(s) ==
    [t \in 1 .. seqs[s].length |->
        [l \in Layers |->
            slab[seqs[s].pages[l][(t - 1) \div PageTokens + 1]][(t - 1) % PageTokens]]]

Content == [s \in SeqIds |-> IF seqs[s].live THEN Gather(s) ELSE None]

\* Paging and sharing are invisible: a sequence reads back the tokens appended
\* to it and to the sequence it was forked from, complete tokens only, and no
\* call for another sequence changes them.
Private == INSTANCE KvSequences WITH
    SeqIds <- SeqIds, Tokens <- [Layers -> Vals], Absent <- None,
    content <- Content
PrivateSequences == Private!KvSpec

\* With no sequence left every page is back in the pool.
AllPagesReturn == (\A s \in SeqIds : ~seqs[s].live) => Len(free) = TotalPages
=============================================================================
