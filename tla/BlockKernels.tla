---------------------------- MODULE BlockKernels ----------------------------
(***************************************************************************)
(* The kernels whose threads exchange data through shared memory, reduced  *)
(* to their stores, loads and barriers (SharedMemory), for every runner r. *)
(* Sums over registers inside a warp (warp_sum) are in ArrayKernels.       *)
(***************************************************************************)
EXTENDS SharedMemory, SequencesExt

CONSTANT Rounds   \* tiles of a matrix, iterations of a loop
ASSUME RoundsAssumption == Rounds \in Nat \ {0}

ForRounds(n, body(_)) == FlattenSeq([t \in 1..n |-> body(t)])
Kernel(name, body(_)) == [name |-> name, code |-> [r \in Runners |-> body(r)]]

(* 07-montecarlo: one sum over the block per result, over one shared array. *)
\* Mutant: without the leading barrier.
block_add_unguarded(r, round) ==
    Store("warp_tot", round) \o Sync
    \o (IF r = 0 THEN LoadAll("warp_tot", round) ELSE Empty)
block_add(r, round) ==
    Sync \o Store("warp_tot", round) \o Sync
    \o (IF r = 0 THEN LoadAll("warp_tot", round) ELSE Empty)
k_european(r) == ForRounds(5, LAMBDA i : block_add(r, i))
k_path_dependent(r) == block_add(r, 1) \o block_add(r, 2)
k_portfolio(r) == ForRounds(5, LAMBDA i : block_add(r, i))

(* The reductions of 03, 05, 08, 13 and 14 have the same shape. *)
BlockSum(r, slot) ==
    Sync \o Store(slot, 1) \o Sync \o (IF r = 0 THEN LoadAll(slot, 1) ELSE Empty)
k_sum_bytes(r) == BlockSum(r, "w")
k_sum(r) == BlockSum(r, "w")
k_dot(r) == BlockSum(r, "w")
k_l1_diff(r) == BlockSum(r, "w")
k_dangling_mass(r) == BlockSum(r, "w")
k_count_occupied(r) == Store("w", 1) \o Sync \o (IF r = 0 THEN LoadAll("w", 1) ELSE Empty)

k_bank(r) == Store("s", 0) \o Sync \o ForRounds(Rounds, LAMBDA t : LoadAll("s", 0))

(* 16-layout-advanced *)
shared_column_kernel(r) ==
    ForRounds(Rounds, LAMBDA t : Store("tile", t) \o Sync \o LoadAll("tile", t) \o Sync)
block_reduce_sum(r, round) ==
    Sync \o Store("warp_sums", round) \o Sync
    \o (IF r = 0 THEN LoadAll("warp_sums", round) ELSE Empty)
\* With the runners as blocks of the grid, partials and grid.sync() are a slot
\* and a barrier too.
coop_kernel(r) == block_reduce_sum(r, 1) \o block_reduce_sum(r, 2)
grid_reduce(r) == Store("partials", 1) \o Sync \o (IF r = 0 THEN LoadAll("partials", 1) ELSE Empty)
Tiled(a, b) ==
    ForRounds(Rounds, LAMBDA t : Store(a, t) \o Store(b, t) \o Sync
                                 \o LoadAll(a, t) \o LoadAll(b, t) \o Sync)
sgemm_tiled(r) == Tiled("As", "Bs")
sgemm_tiled_half_in(r) == Tiled("As", "Bs")
copy_sync_kernel(r) ==
    ForRounds(Rounds, LAMBDA t : Store("s", t) \o Sync \o LoadAll("s", t) \o Sync)
copy_async_kernel(r) ==
    ForRounds(Rounds, LAMBDA t : CopyAsync("s", t) \o Await \o Sync \o LoadAll("s", t) \o Sync)

(* 17-tc-gemm.  A wmma instruction is executed by all lanes together, so the *)
(* lanes of the one-warp blocks meet before and after they load fragments.   *)
k_fp32_tiled(r) == Tiled("As", "Bs")
Fragments(a, b, t) == Sync \o LoadAll(a, t) \o LoadAll(b, t) \o Sync
k_wmma_staged(r) ==
    ForRounds(Rounds, LAMBDA t : Store("As", t) \o Store("Bs", t) \o Sync \o Fragments("As", "Bs", t))
k_wmma_staged_word(r) ==
    ForRounds(Rounds, LAMBDA t : Store("Aw", t) \o Store("Bw", t) \o Sync \o Fragments("Aw", "Bw", t))
\* Mutant: the next band is staged in the buffer that is being multiplied.
OneBuffer(t) == "ABw[0]"
\* Warp 0 multiplies band t while warp 1 stages band t + 1 in the other buffer.
Buffer(t) == IF t % 2 = 0 THEN "ABw[0]" ELSE "ABw[1]"
stage_words(t) == Store(Buffer(t), t)
k_wmma_pipelined(r) ==
    (IF r = 1 THEN stage_words(1) ELSE Empty) \o Sync
    \o ForRounds(Rounds, LAMBDA t :
        (IF r = 0 THEN Load(Buffer(t), t, {1})
         ELSE IF r = 1 /\ t + 1 <= Rounds THEN stage_words(t + 1) ELSE Empty) \o Sync)

(* 18-flash-attention: a lane keeps its own row of Qs and Os. *)
k_fused_global(r) ==
    Store("Qs", 0) \o Store("Os", 0) \o Sync
    \o ForRounds(Rounds, LAMBDA j : Load("Qs", 0, {r}) \o Load("Os", j - 1, {r}) \o Store("Os", j))
    \o Sync \o Load("Os", Rounds, {r})
k_fused_tiled(r) ==
    Store("Qs", 0) \o Store("Os", 0) \o Sync
    \o ForRounds(Rounds, LAMBDA j :
        Store("Ks", j) \o Store("Vs", j) \o Sync
        \o Load("Qs", 0, {r}) \o LoadAll("Ks", j) \o Load("Os", j - 1, {r}) \o LoadAll("Vs", j)
        \o Store("Os", j) \o Sync)
    \o Load("Os", Rounds, {r})

(* 01-gguf-inference: the sum goes back to everybody through part 0 of ssum. *)
SumToAll(r) ==
    Store("ssum", 1) \o Sync
    \o (IF r = 0 THEN LoadAll("ssum", 1) \o Store("ssum", 2) ELSE Empty)
    \o Sync \o Load("ssum", 2, {0})
k_rmsnorm(r) == SumToAll(r)
k_rmsnorm_rope(r) ==
    Store("buf", 1) \o SumToAll(r) \o Load("buf", 1, {r}) \o Store("buf", 2) \o Sync
    \o LoadAll("buf", 2)

(* 19-llm-engine: lanes sum the values of their own positions, then columns. *)
k_attn_paged(r) == Store("Os", 1) \o Sync \o LoadAll("Os", 1)

AllBlockKernels == {
    Kernel("k_european", k_european), Kernel("k_path_dependent", k_path_dependent),
    Kernel("k_portfolio", k_portfolio), Kernel("k_sum_bytes", k_sum_bytes),
    Kernel("k_sum", k_sum), Kernel("k_dot", k_dot), Kernel("k_bank", k_bank),
    Kernel("k_l1_diff", k_l1_diff), Kernel("k_dangling_mass", k_dangling_mass),
    Kernel("k_count_occupied", k_count_occupied),
    Kernel("shared_column_kernel", shared_column_kernel), Kernel("coop_kernel", coop_kernel),
    Kernel("grid_reduce", grid_reduce), Kernel("sgemm_tiled", sgemm_tiled),
    Kernel("sgemm_tiled_half_in", sgemm_tiled_half_in),
    Kernel("copy_sync_kernel", copy_sync_kernel), Kernel("copy_async_kernel", copy_async_kernel),
    Kernel("k_fp32_tiled", k_fp32_tiled), Kernel("k_wmma_staged", k_wmma_staged),
    Kernel("k_wmma_staged_word", k_wmma_staged_word), Kernel("k_wmma_pipelined", k_wmma_pipelined),
    Kernel("k_fused_global", k_fused_global), Kernel("k_fused_tiled", k_fused_tiled),
    Kernel("k_rmsnorm", k_rmsnorm), Kernel("k_rmsnorm_rope", k_rmsnorm_rope),
    Kernel("k_attn_paged", k_attn_paged)}
=============================================================================
