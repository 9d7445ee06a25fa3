# A TLA+ model of cuda-learnings

`cuda-learnings` is a collection of CUDA programs. Its core is `src/cuda-portfolio`:
twenty numbered projects, most of them one library with a C++ header, one `.cu`
file, a CPU reference, tests and a benchmark; project 19 (an LLM engine) is the
largest. This project models what in it can be wrong without a test noticing: state
that several threads share, work that must be undone when a call fails, memory that a
failing call leaves behind, values that cross a barrier or a fence, and index
arithmetic at the end of a grid. Paths below are relative to `src/cuda-portfolio`.

## Inventory

| Part | State it keeps | Operations | What is hard | What makes it correct |
|---|---|---|---|---|
| 19 `PageAllocator` | stack of free pages, count per page, one mutex | `allocate_many`, `retain`, `release` | all-or-nothing allocation; last release | no page twice on the stack; on it exactly when its count is 0 |
| 19 `Runtime::step`, `Sequence` | page tables, positions, device pool, `stepping` flag | create, fork, truncate, destroy from any thread; `step` over a batch | the allocator is locked, the rest is not; copy-on-write; rollback after a device error | counts equal holders at every moment; a store hits a page nobody else lists; a failed step changes nothing |
| 19 generation loops, `Engine` | active requests of one call; the engine's own sequence | `generate_batch`, `generate`, `perplexity`, `step`, `reset` | requests finish at different rounds; full context; exceptions | finish reasons are true; tokens are fed once and in order; the default pool never runs out; calls return |
| 19 tokenizer | immutable vocabulary; a queue of merges per call | `encode`, `decode` | queued merges go stale | the result of searching the best pair after every merge |
| 01 `PagedKvCache` | sequences with a page table per layer, reserved pages, free list | `create`, `fork`, `free_sequence`, `append`, `gather` | a token is appended in one call per layer; a copy may fail in between | a page is in one place; a token once begun finds its pages; paging is invisible |
| 01 GGUF parser | cursor, tensor directory | `parse`, `tensor_data` | fields of the file are arbitrary, sums wrap | tensors of an accepted file lie inside it, apart |
| 02 `DynamicBatcher` | queue, stop flag, counters, worker thread | `submit`, worker loop, `drain`, destructor | deadline against arrival; drain against submit | each accepted request is handled once, in order; drain loses none |
| 02 `Preprocessor` | pinned staging slots, a queue per stream | `process`, `process_serial` | uploads are pending when slots are reused | streams change when, not what |
| 03 `GpuHashTable` | slots of key and value in device memory | `insert` (linear or Robin Hood kernel), `find`, `clear`, `size_hint` | one thread per key, plain loads against `atomicCAS` | one slot per key; no hole before a key; no entry lost; lookups see the last insert |
| 04 `SpatialIndex` | points in Morton order, cell ranges | `dbscan`, `knn` | lock-free union-find with plain loads and stores; when a ring search may stop | trees are the clusters; labels in the caller's order; the true neighbours |
| 08 `GraphEngine` | CSR graph and its transpose | `sssp`, `pagerank` | distances relaxed in place by all lanes | distances exact within n rounds |
| 09 `IvfFlatIndex` | centroids, inverted lists, vectors | `train`, `add`, `search` | retraining an index that is filled | every vector in one list; a full probe equals the exhaustive scan |
| 10 `DpiEngine` | Aho-Corasick tables | `scan_bitmask`, `scan_detailed` | threads share one bounded match buffer | exact total; valid, distinct matches when truncated |
| 12 `Sha256Engine` | - | `hash_batch`, `mine` | threads race for the found flag | nonce and digest of one thread |
| 07, 14, 16, 17, 18 and the norms of 01 | shared memory of a block | sums, scans, staged tiles, double buffers | warps run apart between barriers | a load sees the data of its own round |
| 15 | registers of a warp; a flag between two blocks | shuffles, votes, `k_producer_consumer` | weakly ordered memory | sums of exactly the right lanes; no torn payload with the fence |
| 05, 06, 11, 13, 20, preprocessing of 02 | image and signal buffers, sparse formats, packed weights | one thread or warp per output | the last block; borders; padding; conversions | the terms of the sequential loop, each once |
| `common`, `error-paths` and every host function | device memory; the pending launch error | `CU_CHECK`, `check_kernel`, constructors, destructors, calls | any call may fail | no pointer misused, no memory lost by classes, errors reported by their own call |

Interactions: `Generation` drives `Runtime::step`, which owns the `PageAllocator`
that every `Sequence` shares by a `shared_ptr`; `Engine` puts a tokenizer, a
runtime and one sequence behind a facade. The other projects share only `common`,
which is why they can be checked side by side in one run.

`PROJECT.json` lists every component with its sources and status, and the hazards
with the properties aimed at them.

## Modules

    PageAllocator  <- LlmRuntime  <- MCLlmRuntime      KvSequences: abstract, implemented
    KvCache        <- MCKvCache                        by LlmRuntime and by KvCache
    HashTable <- HashLinear, HashRobinHood <- GpuHashTable <- MCGpuHashTable
    DeviceCalls <- HostCalls <- ComputeCalls
    MCHost:    DynamicBatcher, Generation, MCGpuHashTable, ComputeCalls, ImageStreams,
               IvfIndex, BpeMerge, GgufLayout
    KernelGrids <- PixelKernels, QuantKernels, SparseKernels, SpatialKernels, ArrayKernels
    SharedMemory <- BlockKernels
    MCKernels: Dbscan, GraphSssp, the five above, BlockKernels, FenceHandshake, NonceMiner, DpiScan
    MCImageStreams: ImageStreams
    CountingLemmas <- LlmRuntimeProofs (allocator, runtime) <- LlmRuntimeCounts
    CountingLemmas <- KvCacheProofs, LayoutProofs (hash table, parser, inverted lists), KernelProofs (clustering, shortest paths,
                      scanner, shared memory, images), ProtocolProofs (fence, miner, streams, batcher,
                      generation loops, device errors), BpeProofs (tokenizer)

Operators whose comment begins with "Mutant" are altered versions of the operator
after them. No specification uses them; putting one in the place of its original
must break a property, which shows that the property depends on that code.

### The language model and the caches

**PageAllocator** (19 `page_allocator.cpp`). `free` is the vector used as a stack,
`refs` the counts. Each call holds the mutex throughout and is one action;
a refused call changes nothing.

**LlmRuntime** (19 `runtime.cu`). `seqs[s]` is a `Sequence` (position, page table),
`kv` the pool in device memory, `stepping` the atomic flag of `step()`. `pc` and the
other variables of a thread are the locals of the call it is in. An action contains
at most one allocator call, since between two of them other threads run.
`step()` is: `StepEnter` (flag and argument checks), `StepNeeds` (who needs a new
page, who a private copy), `StepAlloc` (all pages at once or `out_of_pages`),
`ApplyNone`/`ApplyNew`/`ApplyCow`/`CopyFails` for each member, `StepKernel` or
`KernelFails`, `StepCommit`; after a failure `UnwindFresh` (pages not placed yet),
`RollbackAppended`, `RollbackRetain`, `RollbackRelease`, `StepThrow`. Layers, K and V
are addressed alike and share one abstract slot; its content is the token that was
stored. `Intact` stops a behaviour once the code has thrown out of a handler.
The run-time switches `CopyMayFail`, `KernelMayFail` and `ForkDuringStep` decide
which environment a run considers.

**KvSequences** is what a paged cache promises: a sequence is a list of tokens, a
fork copies it, an append extends the members of the batch and no one else, a
truncation cuts it. `LlmRuntime` implements it under the mapping that gathers a
sequence's pages up to its position, `KvCache` likewise for every layer.

**KvCache** (01 `kv_cache.cu`). One mutex, so one action per call; a token takes
`NLayers` calls, between which calls for other sequences happen. `CopyFails` and
`WriteFails` are the exits through `CU_CHECK` with what has been changed by then.

**Generation** (19 `generator.cpp`, `engine.cpp`). `act` holds the `Active` records
(tokens fed, position, tokens produced, finish). The runtime is used through what
`LlmRuntime` establishes: a step advances all members or none, and takes a page at a
page boundary. Sampling returns the end token or another.

**BpeMerge** (19 `tokenizer.cpp`). `sym` is the linked list of symbols, `cands` the
priority queue, whose entries carry the length they were made for. `StartSegment` fills
both, `SkipStale` and `Merge` are the two outcomes of a pop, in any order of equal
entries, `EndSegment` spells the pieces (byte fallback included) and steps over a
control token. Both merge rules (ranked pairs and scored pieces) are tried. Characters
are numbers.

**GgufLayout** (01 `gguf.cpp`). The cursor with its bounds check, strings, the alignment
key, tensor entries with the overflow checks of their element counts, and the final
layout check, in arithmetic modulo `Word`; each field read is arbitrary.

### Device memory and streams

**DeviceCalls** (`common/include/cu/check.hpp`) gives device operations a meaning:
`mem` maps a pointer to null, allocated, written or dangling; `unread` is the launch
error nobody has asked for; every operation may fail. A function is a set of paths of
operations. `CallBegin` picks one, `Operate` takes its next operation, `LaunchFails`
leaves an error pending, `FunctionThrows` is the exit through `CU_CHECK` or an argument
check, with the clean-up that the function really has, `FunctionReturns` the end.
A `require` is a throw that does not read the pending error.

**HostCalls** and **ComputeCalls** write every host function of the portfolio down in
this vocabulary, constructors, destructors and methods of one class sharing fields:
projects 02, 05, 06, 07, 11, 14, 15 and `error-paths` in the first, 01, 03, 04, 08, 09,
10, 12, 13, 16, 17, 18, 19 in the second. Loops run zero, one or two times.

**ImageStreams** (02 `preprocess.cu`). `stage` is the pinned slot of a stream, `queue`
its pending upload, kernel and download, which the device takes at its own speed
(`StreamStep`). A buffer's content is the image it came from. Growing a buffer frees it,
and `cudaFree` waits for the device.

**IvfIndex** (09 `ann_index.cu`). `train`, `add`, `search` over lasting state; the
iteration of k-means may end with any centroids. The lists are kept in one array with
starts and counts, as in the code.

### Requests and tables

**DynamicBatcher** (02 `batcher.cpp`). What happens under the mutex is one action. The
deadline is a nondeterministic choice. `handled` is history: the order of handling.

**HashTable, HashLinear, HashRobinHood, GpuHashTable** (03 `hash_kv.cu`). A slot is
one 64-bit word, so key and value change together. `BeginInsert` is the launch of one
thread per entry; a thread loads a slot (`seen` keeps the values a plain
load may return) and then attempts an `atomicCAS`. Robin Hood threads carry evicted
entries in `entry`. `find` is an operator evaluated on every state in which
no kernel runs, with the warp-wide probe as in the code, and may yield `Diverges`.

### Kernels

**Dbscan** (04 `spatial_index.cu`). Thread i is point i of the Morton order. A history
variable gives every load all the values an entry has had in the launch, as
the plain loads of `find_root` may return; halving stores are plain, links are
`atomicCAS`. Geometry is the symmetric relation `near`.

**GraphSssp** (08 `graph_engine.cu`). One action per edge of a round, in any order,
with loads as stale as the launch; `RoundEnd` is the host's test of `changed`.

**SharedMemory** and **BlockKernels**. A kernel is, for every runner (a warp, or a lane
of a one-warp block), a sequence of stores, loads, barriers, asynchronous copies and
waits; stores are tagged with the round their data belongs to. `SharedMemory` runs them
at any relative speed. `Ordered` says of a kernel's text alone that its barriers order every load. `BlockKernels` lists the 26 kernels of the repository that use
shared memory, among them the double buffer of `k_wmma_pipelined` and the grid-wide
barrier of `grid_reduce`.

**KernelGrids** and the five modules over it describe launches whose threads work
apart. A launch is the set of terms (worker, output, input, tag) it computes, next to the
terms of the sequential loop. `PixelKernels`: 02, 05, 11. `QuantKernels`: packed four-bit
and eight-bit weights of 01, 19, 20 and `cuda-projects/01-quant-llm`. `SparseKernels`: the formats
of 13, the transpose and PageRank kernels of 08. `SpatialKernels`: Morton order, cell
ranges and the ring search of 04. `ArrayKernels`: shuffles of 15, frames and overlap-add of 06.

**FenceHandshake** (15 `k_producer_consumer`). Stores wait in a buffer per address and
drain in any order between addresses; the consumer may load payload words ahead of the
flag. `__threadfence` waits for the stores, or forgets what was loaded ahead.

**NonceMiner** (12 `mine`). The grid-stride loop over nonces that wrap around; the claim by `atomicCAS`;
nonce and the halves of the digest are separate stores.

**DpiScan** (10 `dpi_engine.cu`). `build` makes the tables of the automaton breadth first: `Row` computes the fail link,
the transitions and the output mask of a node from rows of shorter nodes. A thread walks a packet, and each match takes a
ticket from the counter before it is stored if there is room. `ScanEnd` is the host's truncation and sort (`Sorted`).

## Runs

| Run | Question | Bounds |
|---|---|---|
| `runtime_threads` | does the allocator's lock suffice when one thread steps and another creates, forks, truncates and destroys? | 2 threads, 2 sequences, 3 pages of 2 tokens, batches of 2 |
| `runtime_rollback` | does a failed step leave no trace, and does every step return? | sequences of up to 3 tokens on 2 pages, stepped one at a time; copies and kernels fail |
| `runtime_trio` | are allocator calls of the handlers ever refused? | batches of 3, 4 pages |
| `kv_cache` | do interleaved, forked, partly failing appends keep every page in one place and every sequence private? | 2 sequences, 2 layers, 4 pages of 2 tokens |
| `host` | do the components that callers meet keep their promises, one per behaviour? | see below |
| `kernels` | do the kernels compute what the sequential code does, whatever the order of their threads? | see below |
| `runtime_copy_failure`, `runtime_rollback_siblings`, `runtime_fork_during_step`, `hash_robinhood_update`, `kv_append_failure`, `image_staging_reuse` | documented statements that the code does not keep, see Findings | the smallest that show it |

`host` and `kernels` put modules that share nothing side by side: a selector variable,
fixed in the initial state, says which of them runs. A property of a part that does not run is
evaluated in its initial state only.

`host`:

* the batcher: 5 submits in batches of 2, drained at any moment (`BatcherInv`,
  `DrainedMeansHandled`, `AcceptedAreHandled`);
* the generation loops: context 3, pages of 2, prompts up to 4, limits -1, 0, 1, 3,
  every step may throw (`FeedsInOrder`, `FinishTruthful`, `DefaultPoolSuffices`);
* the hash table: 4 slots, 2 threads, 3 keys of which two collide in the last slot,
  3 launches of either kernel (`LinearTablesSound`, `KeysStay`, `EntriesConserved`,
  `LookupsMatchInserts`);
* every host function of `ComputeCalls` and `HostCalls`, objects used in any sequence of
  methods, every device call failing (`MemorySafe`, `NothingLost`, `ErrorsAttributed`);
* two streams, batches of up to three images of two sizes, several calls
  (`FreshSlotsMatchSerial`);
* two cells, vectors with coordinates 0 and 1, up to three of them, trained, filled and searched in any order
  (`SearchesSound`);
* all texts of up to three of four characters and longer ones of fewer, with
  overlapping merge rules (`EncodeIsExact`);
* files of 0, 1 and 12 bytes with fields that are small, large or next to the word size 64
  (`OpenFilesAreSound`);
* `HostReturns`: `drain()`, the generation loops and `insert()` end.

`kernels`:

* 4 points with every relation of up to 3 neighbour pairs, `min_pts` 1 and 3
  (`TreesAreClusters`, `DbscanCorrect`);
* 3 graphs of 4 nodes (`SsspExact`);
* 26 kernels with three runners and three rounds (`LoadsSeeTheirRound`, and `BarriersOrderLoads`, which reads
  off the text of a kernel what its theorem assumes of it);
* three rounds of the handshake with two payload words, with and without the
  fence (`FencedIsNeverTorn`);
* two miners, four nonces that wrap, every set of winners (`MinedTruthful`);
* two pattern lists with patterns inside each other, four batches, match buffers
  too small, empty and large enough (`ScansMatchSearch`);
* the launches of `KernelGrids` with warps of 4, blocks of 8 and tiles of 4 x 2
  (`KernelsMatchLoops`);
* `KernelsReturn`: every kernel comes to its end.

Why these bounds reach the cases that matter: a page shared by two holders, with one
page to spare for its copy and none for a second, needs 3 pages; exhaustion occurs in
every runtime run. Pages of two tokens distinguish a partly filled page (copied) from
a full one (not copied). The trio is the smallest batch in which a failed copy leaves an
unplaced page behind. Two colliding keys at the last slot make probes wrap around, and
Robin Hood eviction needs a third key. Three neighbour pairs on four points
give chains, stars, triangles and two separate clusters, and with `min_pts` 3 border
points. Prompts one longer than the context reach the refusals. A double buffer
is reused in round three. Grids are tried with sizes below, at and above a multiple of
the block, matrices with empty, long and repeated rows, point sets with a nearest
neighbour in the second ring and with points outside the grid, signals shorter than a frame
and with a tail. Two retrainings of a filled index happen within the IVF bounds. What
depends on more (more threads, larger tables) is covered by the theorems where there are any.

Deadlock is checked in `runtime_threads` and `kv_cache`. It is off in the other passing runs because a
program that makes no further call, has drained its batcher, closed its file or finished its kernel
stops; `StepReturns`, `HostReturns` and `KernelsReturn` say that it does not stop inside a call.

Symmetry is used only in runs without liveness properties, over values no operator
tells apart.

### What the runs leave to the environment

* `host` has `ReallocFails = FALSE` and `GivenUp = {"IvfFlatIndex"}`: 06 and 09 free a
  buffer and allocate it again into the same pointer, and an allocation that fails
  just there leaves a dangling pointer behind; an `IvfFlatIndex` is not used after `train` or
  `add` has thrown. See Observations.
* `FreshKeysOnly`: launches update no key already in a Robin Hood table (finding 4).
* `FaultLayers`: in `kv_cache` the copies of later layers fail (finding 5).
* `NothingLost` allows functions with plain local pointers (free functions of 05, 07,
  12, 14 and 15, and methods such as `dbscan`, `knn`, `pagerank` and `track`) to lose them when they throw, and nobody else.
* `ErrorsAttributed` allows an error to stay unread that a launch without a check has
  left: the copies of 19 `runtime.cu:443` and launches followed by a check that throws without
  reading it (`cufft_check`, `cublas_check`, argument checks).

### Fairness

* `LlmRuntime`: a thread inside a call keeps running (weak fairness of `Run(t)`), as
  the operating system schedules it and nothing in `step()` waits. Starting calls is
  not fair.
* `DynamicBatcher`: the worker and the joining owner run; `wait_for` always ends by its
  deadline, so a waiting worker that has something pending eventually takes it.
  Clients need not submit.
* `Generation`: the loop runs on.
* Kernels: threads of a launched grid make progress (weak fairness per thread, runner, block
  or miner; 15 launches two blocks, which are resident together), and a load repeated
  for ever does not return a stale value for ever (strong fairness of the load that
  returns the latest value in `GpuHashTable` and `Dbscan`, weak fairness of
  `Drain` in `FenceHandshake`): stores become visible eventually.

## Proofs

TLAPS proves what follows for every value of the constants, under the assumptions named in the
modules (each is an `ASSUME` that TLC evaluates on its runs) and in the theorems themselves. A
hypothesis of a theorem restricts the environment; where dropping it breaks the property, a
run listed under Findings shows how. `PROJECT.json` names the theorem of every property.

**The allocator** (`LlmRuntimeProofs`): `AllocatorCorrect`. `AllocInv` is inductive as it stands:
distinctness makes a pop remove a page for good, "free iff unheld" makes the push of a last release
add a page that is not there. Assumes only that there is a page.

**The runtime** (`LlmRuntimeProofs`, `LlmRuntimeCounts`; lemmas on counting in `CountingLemmas`), for any number of
threads, sequences and pages, any page size, context and batch limit. The
invariant `RuntimeInv` has layers, none of which is inductive without those before it:

* `OneStep`: the flag `stepping` is up exactly while a thread is inside `step()`. It needs nothing
  else and gives `StepExcludesStep` without hypotheses.
* `Shape`: what a call in progress has done so far (positions, `needs`, `fresh`, `next`, `appended`,
  `replaced`, one record per phase of the handler), and that no two calls work on the pages of one sequence.
* `Counted`: the count of a page is at least, and normally exactly, the number of its holders, where a holder is an entry of
  a page table, a page allocated but not placed yet, or a page that a rollback has retained
  already but not put back. The runs' `RefcountsExact` counts the same at rest; the
  locals of calls have to be counted too to make it inductive.
* `Settled`: a page a step is about to write has one holder. `RuntimeStoresPrivate` follows:
  no store reaches a page that another sequence lists.
* `Recoverable`: a page that a rollback puts back is still held by somebody.

`RuntimeTypes`, `RuntimeCallsAccepted` (the handlers never make a call that the allocator refuses), `RuntimeStoresPrivate` and
`RuntimeUsesAllocator` (every behaviour of the runtime is one of the allocator, step by step) hold whatever
fails, provided nobody forks a sequence that is being stepped (`~ForkDuringStep`; finding 3).
`RuntimePagesHeld`, `RuntimeRefcountsExact` and `RuntimeRollbackExact` assume in
addition `FailuresAlone`: where copies may fail, batches have one member, and where kernels may fail there is
one member and one thread. Without device errors it assumes nothing. The code does not
keep these properties otherwise: findings 1 and 2 lose a page, or retain a free one, with larger batches. `CallsAccepted` speaks of
states whose tables list allocated pages only (`Intact`); once the rollback of finding 2 has thrown, the model stops.

`RuntimeKeepsSequencesPrivate` proves that the runtime implements `KvSequences`, for the same environment as `RuntimeStoresPrivate`: what
a sequence reads through its page table (`Content`) is changed by its own creation, fork, truncation, destruction and commit only, and by those
as a private list would be; every other step of a call or a handler is a stutter. On top of `RuntimeInv` it needs `Kept`:

* `KeptPrefix`: of every page a copy-on-write has replaced, the tokens below the slot to be written are the same in
  the copy as in the original. So `ApplyCow` is a stutter, and so is the rollback that puts the old page back,
  even after the kernel has written some members' slots.
* `KeptApart`: such a copy is no page the step has still to place or to write for another member, so it stays a copy.
* `KeptStored`: between kernel and commit the slot of each member holds a token. So the commit, which only moves positions, appends
  one token to each member and to nobody else.

`VisibleFacts` is the length the outside sees: from its first step on a truncation shows its goal, though pages are released one
by one. The stores of a kernel, finished or not, fall on the slot at `position` of a page with one holder (`Settled`), which no sequence shows
yet (`StoreUnread`). The mapping takes `None`, which is no list of tokens, for a sequence that does not exist (`HandlesAssumption`).

**The paged cache** (`KvCacheProofs`), for any number of layers, pages and sequences, any page
size and length limit, and failing copies in any layer but the first (`0 \notin FaultLayers`; finding 5 shows the first
layer losing pages). `KvInv` says how long each layer's table is part-way through a
token (`TablesFit`), that every layer still to come has the page it will need in reserve (`Reserves`), and where every page is
(`Accounted`: once on the free list, once in reserve, or in as many tables as its count says).
The three need each other: that a reserve page exists follows from a page being `Shared`, which other sequences may end
at any moment but not begin, because forks are refused within a token; and a fork is refused because `next_layer` is not 0.
`PagesStayAccounted` and `BegunTokensFinish` follow. `CacheKeepsSequencesPrivate` proves that the cache implements
`KvSequences`, step by step: with `Settled` (the layers done of the token under way hold values) and `Written`
(complete tokens hold values), creates, forks and frees map to their namesakes, the append of the last
layer to an append of one token, and every other call to a stutter. The heart is `StoreSlab`: a store writes one page, which
only its sequence names, and keeps in it all slots but its own, be it a copy. Copying a list out of a page table is a recursive
function (`PagesAmong`).

**Induction over data.** What a recursive function computes, or what holds of every finite set, is proved by the least
counterexample (`LeastNumber`, `NoCounterexample` in `CountingLemmas`, from the theorem that `<` on the naturals is well-founded), which needs no
induction theorem with an operator parameter. `PagesAmong` of the cache, `Reach` of the shortest paths, the sums of `Generation`, the loops of `IvfIndex`
and the rounds of `BpeMerge` (`LoopExists`) and the tables of `DpiScan` are handled so. The functions have to be written as functions: nothing can be proved about a RECURSIVE operator.

**The hash table** (`LayoutProofs`): `LinearCorrect`, `LinearKeysStay`, for any capacity,
hash function and set of threads. The inductive part says what a thread knows:
every slot between the home of its key and its current slot is taken by another key,
for taken slots keep their key. That is why a load, however stale, may
be trusted to skip a slot, and why a `CAS` on an empty slot is the first claim.

`NoEntryLost` and `LookupsReturnWhatWasInserted` hold for tables of both kinds. Their invariant is `TableInv`: the linear part above, or for
Robin Hood tables `RobinInv`, in which each key given is in one place (`OnePlace`), a slot or the hands of one thread, and
the thread that carries an entry away from a slot leaves another in it. A taken slot stays taken, so every slot that an entry has
passed is still taken when a lookup comes along; that the table is ordered by distance is not needed. A lookup walks rounds of as many
slots as a warp has lanes and meets every slot once, so it finds the key before the first empty slot or there is no such key.
Hypotheses: the launches on a Robin Hood table bring fresh keys only (without it finding 4 applies); the sentinel is not looked up;
and, for lookups, the keys leave a slot free, since the lookup of an absent key in a full table does not end.

**The parser** (`LayoutProofs`): `OpenFilesSound`, for every file size, word size, limit on dimensions and
content of the fields, provided the word is four times as large as the file and as the element limit (2^64 in the code). `GgufInv` adds to the property that
each directory entry has passed its own checks: the product of its dimensions was not wrapped, and its
bytes are those of the blocks it fills (`TensorSound`). Only the last check, which looks for the nearest tensor behind each one
(`LaterIsBehind`), turns that into disjointness; its own sums cannot wrap because every tensor has been found inside the file before.

**The inverted lists** (`LayoutProofs`): `SearchesFindNearest`, for any number of cells and vectors, any k and nprobe, and any sequence
of calls. Of the lists the invariant says only that each vector stands in one place of one list (`Filed`), not in which: that is why
training again after the vectors were added does no harm. The counting sort gives that, since a cell starts where as many vectors of
earlier cells end (`StartsCount`) and within a cell the places are ranks (`CountingSort`). Of the last answer it
says that the result holds the k nearest of the vectors met, sorted, with nothing behind a gap (`BestOf`), which each insertion keeps for one vector more
(`InsertKeepsBest`, `ScanKeepsBest`). Probing consumes a cell, so `nprobe` cells are different and all of them are every cell
(`ProbesDiffer`); then the search has met what the exhaustive scan meets, and two lists of the nearest of the same vectors show the same
distances (`BestUnique`), even where ties leave the ids open. Assumes that distances are less than `kFar`, where the result starts:
a vector farther than that is not returned by either scan.

**Clustering** (`KernelProofs`): `ForestCorrect`, `UnionFindComputesClusters`, for any finite set of points and any symmetric
relation. `ForestInv` holds the strengthening: links go to smaller points
(no cycles), every parent an entry has had in the launch lies in the same cluster and is connected
with the present one by links of lower points (so stale loads and late halving stores do no harm), each pending unite
still connects what it set out to, and no finished unite has been lost. `LabelsAreClusters` adds the labels, for any `min_pts` and any
permutation: `AttachInv` says that a thread that still climbs is in the cluster of the core point it started from, and that a root that
a label names stays a root while others halve paths. Two roots are in different trees (`RootsApart`, which builds the tree of
a root point by point), so a cluster has one root (`OneRoot`) and the ranks of the roots number the clusters densely (`Ranks` in `CountingLemmas`).

**Shortest paths** (`KernelProofs`): `SsspCorrect`, for any number of nodes, any set of weighted edges and any order of the relaxations
of a round. `SsspInv` consists of `Bounded` (every value that a lane may load, be it stale, is no better than the best path, and no worse
than the best path of as many edges as rounds have ended), `RelaxedSoFar` (a relaxed edge is one edge ahead of that) and
`AtRest` (while `changed` is down, relaxed edges offer nothing new). If a round changes nothing, the
distances are a fixed point of relaxation, which only the best ones are (`RestIsBest`); if the rounds run out, the
last one cannot have changed anything (`LastRoundStands`).

**The scanner** (`KernelProofs`): `ScansFindAll`, for any alphabet, patterns, packets and `max_matches` and any interleaving of the threads.
Everything is said of the longest node of the trie that a text ends with (`IsLongest`). One lemma, `Extend`,
finds that node for a text with one byte more, and serves three times: for the fail links, for the transitions, and for the state of a thread.
That `build` computes these nodes is proved by the least counterexample over the length of a node (`RowIsRight`, `BuildIsRight`).
`DpiInv` then says that a thread is in the state of what it has read (`Walking`); that a bitmask holds the patterns
met (`BitmaskRight`); and that the counter is the number of matches that are `Found`, those met and not still waiting to be
reported, while the slots filled hold different ones of them (`DetailedRight`). A read finds nothing, a report finds exactly one match more. The sort puts
every match at its rank (`SortedIs`, by `RanksBy` in `CountingLemmas`).

**The tokenizer** (`BpeProofs`): `EncodingIsExact`, for any merge list, scores, control characters and texts. The symbols of length other
than 0 are linked and cut the segment into pieces (`Linked`). `Segmented` says that an entry of the queue has the key of the pair it was made for
(`Recorded`, of positions and length in the text, so that it stays true when symbols grow), that every pair of neighbours that may be merged
waits (`Waiting`), and that the pieces are those of the search after as many rounds (`Follows`). An entry that comes up and is not stale
spans two neighbours exactly (`FreshEntry`: this is where the comparison of lengths is needed) and has the best key of all pairs (`TopPair`), so the merge is a round of
the search (`DropFollows`); it makes two new pairs, which are considered (`DropWaits`). When the queue is empty the search has stopped. What is out before a
segment is what the search gives for the segments before it (`Sent`). For `decode`, pieces with the mark of a blank are tokens (`KnownPieces`).
Assumes that texts do not hold that mark, and that a merge which contains it makes a token.

**Shared memory** (`KernelProofs`): `OrderedLoadsSeeTheirRound`, for any number of runners and any kernel that is `Ordered`, whatever the speed
of the runners and whenever the copies land. `Ordered` says that every load has a write it is meant for: what that one writes has landed in front of
a barrier that the reader is behind, everything written earlier to the same part had landed before it was issued, and what is
written later is behind a barrier that the load is in front of. It is a condition on the text of a kernel, and `BarriersOrderLoads` checks it on each of
the 26. `BlockInv` counts what each runner has executed (`AtPlaces`). A runner has reached as many
barriers as it has passed, and one more while it waits in one, and nobody has passed a barrier that somebody has not reached (`BarriersHold`), so `Precedes`,
which compares numbers of barriers, is the order in which things happen. Copies on their way were issued and not awaited
(`Issued`), and a part holds the last write executed on it or one that has not been followed by its wait (`PartsHold`).

**Kernels on images** (`KernelProofs`): `PixelKernelsMatchLoops`, for any sizes of images, blocks and tiles. A grid of enough blocks has a thread for every
pixel and the guard keeps the rest out (`Guarded2All`), so the terms are those of the loop; each output is of one
thread because rows do not overlap (`AtTells`), and indices stay inside because taps are clamped or the border is left out
(`LaunchMatches` puts the three together). The levels of the pyramid are shifts of the frame's sides as long as halving has not met its minimum of 1,
which is what the test of the smallest side is for (`LevelsMatch`).

**Protocols** (`ProtocolProofs`):

* `FencedHandshakeCorrect`, for any payload width and number of rounds. At most one store to the
  flag and one to the acknowledgement are on their way, so the blocks alternate (`FenceTurns`);
  with the fence, the payload of a round is visible before its flag is even issued, and what was loaded ahead is
  forgotten (`FencePayload`). Assumes that payload words, flag and acknowledgement have different addresses (`LanesAssumption`).
* `MinerCorrect`, for any number of threads and any range of nonces that wraps. The flag leaves 0 once, so one thread writes the result
  (`MinerWriters`); and a thread that ends without one has looked at every nonce of its residue class (`MinerSearch`).
* `StreamsCorrect`, for any number of streams: if a call uses no staging slot twice, what stream s has
  queued and done determines its slot, device buffers and output (`StreamState`), and `process()` returns what `process_serial()` does.
  Without that hypothesis the property is false (finding 6).
* `TokensFedInOrder`, `FinishReasonsTrue`, `PoolSuffices`, for any number and length of requests, context, page size and batch limit, any choice
  of tokens and any moment of cancellation. `GenInv` relates each request's counters to the point the loop has
  reached: `Progress` says that the position is the one of the token `Due` next, or one behind or ahead of it
  while a step is consumed or a token has still to be sampled, `Truthful` that a finish reason given stays true, `CallShape` what is absent from
  the call under way. That the default pool suffices is an inequality between sums over the members of a batch (`SumBound`): each uses at most
  `MaxPages`, and one that needs a page now uses fewer.
* `ErrorsFindTheirCause`, for any list of functions, whatever paths of device operations they consist of. `ErrorsInv` says of the
  call under way that its own error is pending only if nothing has asked for errors since one of its launches (`CallAt`), so a call that ends with it is one that
  leaves a launch unchecked; an error of an earlier call is either from such a function or read by the first check. Assumes that names are unique.
* `BatcherCorrect`, `DrainLosesNothing`. The accepted requests are at all times the
  concatenation served, in flight, pending; the worker exits only with the stop
  flag set and nothing pending, and after the flag nothing is accepted. Assumes a batch limit of at least 1.

Only model-checked:

* what is said of a fixed list: that the functions of `HostCalls` and `ComputeCalls` are `MemorySafe` and have `NothingLost`, that the kernels
  of `BlockKernels` are `Ordered`, and that the launches of the `KernelGrids` family other than those on images match their loops. A proof
  would repeat the enumeration that TLC does, one entry of the list after the other;
* `SpatialKernels`, which uses the module Bitwise: the prover does not take it;
* all liveness properties, since the prover handles neither fairness nor ENABLED.

## Findings

1. `19 runtime.cu:751`: a failed copy-on-write copy advances `next` twice; the
   page intended for the next member is never released (`runtime_copy_failure`).
2. `19 runtime.cu:724`: siblings of a fork in one batch both copy their shared page,
   whose count drops to 0; the rollback then retains a free page, which throws
   (`runtime_rollback_siblings`).
3. `19 runtime.cu:629`: a fork of a sequence that another thread is stepping, which the
   header does not exclude, shares the page being written (`runtime_fork_during_step`).
4. `03 hash_kv.cu:118`: a Robin Hood thread carrying an old entry overwrites the newer
   value of the same key (`hash_robinhood_update`). The passing run therefore
   considers launches that update no key already in a Robin Hood table.
5. `01 kv_cache.cu:268`: retrying an append whose first layer failed loses the pages
   reserved the first time (`kv_append_failure`). The passing run lets later layers fail.
6. `02 preprocess.cu:187`: a batch larger than the number of streams writes a pinned staging slot
   while the upload from it may still be pending (`image_staging_reuse`). The passing run shows that results are right
   as long as no slot is used twice in a call.

### Observations

Seen while modelling, contradicting no statement of the documentation, and therefore without a run:

* 06 `audio_dsp.cu:215-225`: `make_plans` destroys the old plans first; after a failed re-plan
  the destructor destroys them again.
* 09 `ann_index.cu:367-370, 383-387, 415-420`: a failure in the middle of `train` or `add`
  leaves a dangling pointer, or vectors and lists that do not belong together.
* 17 `tc_gemm.cu:706-733`, 18 `set_qkv` (`322-334`): a failure between two copies mixes old and new inputs.
* 19 `runtime.cu:443-444`: the copies of the quantised weights are not checked; an error surfaces
  in a later check.
* 03 `hash_kv.cu:158`: the lookup of an absent key in a full table does not end. No document
  says what a full table does.
* 08: the comment above `k_relax_warp` equates the iteration count with the hop depth.
  Relaxing in place can finish in fewer rounds; the model shows that it never takes more than the code allows.

## Not modelled

* Floating-point values: results of the transforms, solvers, prices, ranks, attention and image arithmetic, and
  quantisation errors. TLA+ has no floats. What these kernels read, write and wait for is modelled.
* The sampler (19): picks by floating-point probabilities; `Generation` lets it return any token.
* The model configuration (19): stateless comparisons of metadata fields.
* The compression function of SHA-256: any function of the nonce will do for `mine`.
* Sticky device errors, after which the process can only end; `error-paths` tests them in child processes.
* Reference implementations, benchmarks, tools, scripts and the introductory programs
  of `cuda-learning`: they check, measure or print. `cuda-projects` holds forerunners of 01, 03, 04 and 07, of which
  only the eight-bit product is modelled.
* Statistics returned beside results (`InsertStats`, `Displacement`, core and noise
  counts) and `sssp`'s early return for a source out of range.

## Plan

Every module of the plan is written, and every safety property of a protocol, a data structure or an algorithm has its theorem. What
could be added: the theorem `PixelKernelsMatchLoops` for the other modules over `KernelGrids`, and a condition on the paths of a function, like `Ordered` for
kernels, from which `MemorySafe` follows for objects used in any order.
