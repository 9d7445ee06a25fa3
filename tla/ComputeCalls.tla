---------------------------- MODULE ComputeCalls ----------------------------
(***************************************************************************)
(* The host functions of the indexes, the matrix and attention projects    *)
(* and the language model, as sequences of device operations, written as   *)
(* in HostCalls.  A flag such as have_inputs or n_over > 0 is a pointer    *)
(* that is set or null.                                                    *)
(***************************************************************************)
EXTENDS HostCalls

\* DeviceBuffer, DevBuf: a local whose destructor frees it.
Owned(bufs, P) == Malloc(bufs) ** P ** Free(bufs)
Set(bufs) == {bufs[i] : i \in DOMAIN bufs}
\* Upload ins, one kernel from them and reads into outs, fetch these.
Compute(ins, reads, outs) ==
    Put(ins) ** Timed(Kernel(Set(ins) \cup reads, Set(outs))) ** Get(outs)

(* 01-gguf-inference *)
device_limits == Api ** Api
check_launch == device_limits ** Require
gemv_q4 ==
    Require ** check_launch ** check_launch ** device_limits ** Require
    ** Owned(<<"d_qs", "d_sc", "d_x", "d_xq", "d_y">>,
             Put(<<"d_qs", "d_sc", "d_x">>) ** Kernel({"d_x"}, {"d_xq"})
             ** Timed(Kernel({"d_qs", "d_sc", "d_xq"}, {"d_y"})) ** Get(<<"d_y">>))
gemv_f32 ==
    Require ** check_launch ** Owned(<<"d_w", "d_x", "d_y">>, Compute(<<"d_w", "d_x">>, {}, <<"d_y">>))
rmsnorm ==
    Require ** check_launch
    ** Owned(<<"d_x", "d_w", "d_o">>, Put(<<"d_x", "d_w">>) ** Kernel({"d_x", "d_w"}, {"d_o"}) ** Get(<<"d_o">>))
rmsnorm_then_rope_unfused ==
    Require ** check_launch ** check_launch
    ** Owned(<<"d_x", "d_w", "d_o">>,
             Put(<<"d_x", "d_w">>) ** Timed(LaunchKernel({"d_x", "d_w"}, {"d_o"}) ** Kernel({"d_o"}, {"d_o"}))
             ** Get(<<"d_o">>))
\* A vector that does not fit into shared memory takes the unfused way.
rmsnorm_rope ==
    Require ** check_launch ** Api
    ** (rmsnorm_then_rope_unfused
        \cup Owned(<<"d_x", "d_w", "d_o">>, Compute(<<"d_x", "d_w">>, {}, <<"d_o">>)))

(* 03-hash-kv *)
clear_table == Kernel({}, {"table"})
GpuHashTable_ctor == Require ** Malloc(<<"table", "d_scratch">>) ** clear_table
GpuHashTable_delete == Free(<<"table", "d_scratch">>)
insert ==
    Maybe(Require ** Malloc(<<"d_k", "d_v">>) ** Put(<<"d_k", "d_v", "d_scratch">>)
          ** Kernel({"table", "d_k", "d_v", "d_scratch"}, {"table", "d_scratch"})
          ** Get(<<"d_scratch">>) ** Free(<<"d_k", "d_v">>))
find ==
    Maybe(Malloc(<<"d_k", "d_o">>) ** Put(<<"d_k">>) ** Kernel({"table", "d_k"}, {"d_o"})
          ** Get(<<"d_o">>) ** Free(<<"d_k", "d_o">>))
\* Mutant: the counters are not cleared.
displacement_uncleared == Kernel({"table", "d_scratch"}, {"d_scratch"}) ** Get(<<"d_scratch">>)
displacement == Put(<<"d_scratch">>) ** Kernel({"table", "d_scratch"}, {"d_scratch"}) ** Get(<<"d_scratch">>)
size_hint == Put(<<"d_scratch">>) ** Kernel({"table", "d_scratch"}, {"d_scratch"}) ** Get(<<"d_scratch">>)

(* 04-spatial.  An index of no points has no arrays; its queries return early. *)
SpatialIndex ==
    Maybe(Malloc(<<"d_raw", "d_sorted", "d_code", "d_idx", "d_start", "d_end">>) ** Put(<<"d_raw">>)
          ** Timed(Kernel({"d_raw"}, {"d_code", "d_idx"}))
          ** Timed(LaunchKernel({"d_code", "d_idx"}, {"d_code", "d_idx"}) ** Api)
          ** Timed(LaunchKernel({"d_raw", "d_idx"}, {"d_sorted"}) ** Put(<<"d_start", "d_end">>)
                   ** Kernel({"d_code", "d_start", "d_end"}, {"d_start", "d_end"}))
          ** Free(<<"d_raw">>))
SpatialIndex_delete == Free(<<"d_sorted", "d_code", "d_idx", "d_start", "d_end">>)
sorted_points == Maybe(AlreadySet(<<"d_sorted">>) ** Get(<<"d_sorted">>))
permutation == Maybe(AlreadySet(<<"d_idx">>) ** Get(<<"d_idx">>))
Query(reads) ==
    Require ** Maybe(AlreadySet(<<"d_sorted">>) ** Malloc(<<"d_q", "d_o">>)
                     ** Compute(<<"d_q">>, reads, <<"d_o">>) ** Free(<<"d_q", "d_o">>))
knn == Query({"d_sorted", "d_start", "d_end"})
knn_bruteforce == Query({"d_sorted"})
dbscan ==
    LET cells == {"d_sorted", "d_start", "d_end"} IN
    Require ** Maybe(AlreadySet(<<"d_sorted">>) ** Malloc(<<"d_cnt", "d_parent", "d_label", "d_core">>)
        ** Timed(Kernel(cells, {"d_cnt"}))
        ** Timed(LaunchKernel({"d_cnt"}, {"d_core"}) ** LaunchKernel({}, {"d_parent"})
                 ** Kernel(cells \cup {"d_core", "d_parent"}, {"d_parent"}))
        ** Timed(Kernel(cells \cup {"d_core", "d_parent"}, {"d_label"}))
        ** Get(<<"d_label", "d_core", "d_idx">>) ** Free(<<"d_cnt", "d_parent", "d_label", "d_core">>))

(* 08-graph *)
GraphEngine ==
    upload(<<"d_out_off", "d_out_idx">>) ** upload(<<"d_in_off", "d_in_idx">>) ** upload(<<"d_out_deg">>)
    ** Maybe(upload(<<"d_w">>)) ** Malloc(<<"d_a", "d_b", "d_scalar", "d_flag">>)
GraphEngine_delete ==
    Free(<<"d_out_off", "d_out_idx", "d_in_off", "d_in_idx", "d_out_deg", "d_w", "d_a", "d_b",
           "d_scalar", "d_flag">>)
pagerank_round(rank, nxt) ==
    LET outEdges == {"d_out_off", "d_out_idx", rank} IN
    Put(<<"d_scalar">>) ** Kernel({rank, "d_out_deg", "d_scalar"}, {"d_scalar"}) ** Get(<<"d_scalar">>)
    ** (LaunchKernel({"d_in_off", "d_in_idx", "d_out_deg", rank}, {nxt})
        \cup (LaunchKernel({}, {nxt}) ** LaunchKernel(outEdges \cup {nxt}, {nxt}) ** LaunchKernel({nxt}, {nxt})))
    ** CheckKernel
    ** Put(<<"d_scalar">>) ** Kernel({rank, nxt, "d_scalar"}, {"d_scalar"}) ** Get(<<"d_scalar">>)
pagerank ==
    Maybe(Kernel({}, {"d_a"})
          ** (Get(<<"d_a">>)
              \cup pagerank_round("d_a", "d_b")
                   ** (Get(<<"d_b">>) \cup pagerank_round("d_b", "d_a") ** Get(<<"d_a">>))))
sssp ==
    Maybe(Kernel({}, {"d_a"}) ** Put(<<"d_a">>)
          ** Repeat(Put(<<"d_flag">>) ** Kernel({"d_out_off", "d_out_idx", "d_a", "d_flag"}, {"d_a", "d_flag"})
                    ** Get(<<"d_flag">>))
          ** Get(<<"d_a">>))

(* 09-vector-ann.  trained and n > 0 are flags. *)
IvfFlatIndex_ctor == Require
IvfFlatIndex_delete ==
    Null(<<"trained", "n">>) ** Free(<<"d_db", "d_centroids", "d_list_start", "d_list_count", "d_list_ids">>)
Again(b) == Free(<<b>>) ** Malloc(<<b>>) ** Put(<<b>>)
train == Require ** Again("d_centroids") ** Raise("trained")
add ==
    NeedsSet(<<"trained">>) ** Require ** Again("d_db") ** Raise("n")
    ** Malloc(<<"d_assign">>) ** Kernel({"d_db", "d_centroids"}, {"d_assign"}) ** Get(<<"d_assign">>)
    ** Free(<<"d_assign">>) ** Again("d_list_start") ** Again("d_list_count") ** Again("d_list_ids")
search ==
    NeedsSet(<<"n">>) ** Require ** Malloc(<<"d_q", "d_probe", "d_cdist", "d_ids", "d_dist">>)
    ** Put(<<"d_q">>)
    ** Timed(LaunchKernel({"d_q", "d_centroids"}, {"d_cdist"}) ** LaunchKernel({"d_cdist"}, {"d_cdist", "d_probe"})
             ** Kernel({"d_db", "d_list_start", "d_list_count", "d_list_ids", "d_q", "d_probe"},
                       {"d_ids", "d_dist"}))
    ** Get(<<"d_ids", "d_dist">>) ** Free(<<"d_q", "d_probe", "d_cdist", "d_ids", "d_dist">>)
search_bruteforce ==
    NeedsSet(<<"n">>) ** Require ** Malloc(<<"d_q", "d_ids", "d_dist">>)
    ** Compute(<<"d_q">>, {"d_db"}, <<"d_ids", "d_dist">>) ** Free(<<"d_q", "d_ids", "d_dist">>)

(* 10-dpi-matching *)
DpiEngine == Require ** upload(<<"d_go", "d_out">>)
DpiEngine_delete == Free(<<"d_go", "d_out">>)
scan_bitmask ==
    Maybe(Malloc(<<"d_data", "d_off", "d_res">>) ** Put(<<"d_data", "d_off", "d_res">>)
          ** Timed(Kernel({"d_data", "d_off", "d_go", "d_out", "d_res"}, {"d_res"}))
          ** Get(<<"d_res">>) ** Free(<<"d_data", "d_off", "d_res">>))
scan_bitmask_zerocopy ==
    Maybe(Malloc(<<"h_data">>) ** Api ** Malloc(<<"h_off">>) ** Api ** HostWrite(<<"h_data", "h_off">>)
          ** upload(<<"d_res">>)
          ** Timed(Kernel({"h_data", "h_off", "d_go", "d_out", "d_res"}, {"d_res"}))
          ** Get(<<"d_res">>) ** Free(<<"h_data", "h_off", "d_res">>))
scan_detailed ==
    Maybe(Malloc(<<"d_data", "d_off", "d_match", "d_count">>) ** Put(<<"d_data", "d_off", "d_count">>)
          ** Timed(Kernel({"d_data", "d_off", "d_go", "d_out", "d_count"}, {"d_match", "d_count"}))
          ** Get(<<"d_count">>) ** Maybe(Get(<<"d_match">>))
          ** Free(<<"d_data", "d_off", "d_match", "d_count">>))

(* 12-crypto-hash *)
hash_batch ==
    Maybe(Require ** Malloc(<<"d_in", "d_out">>) ** Compute(<<"d_in">>, {}, <<"d_out">>)
          ** Free(<<"d_in", "d_out">>))
mine ==
    LET result == {"d_flag", "d_nonce", "d_digest"} IN
    Require ** Malloc(<<"d_prefix", "d_nonce", "d_flag", "d_digest">>)
    ** ((Put(<<"d_prefix", "d_flag", "d_nonce", "d_digest">>)
         ** Timed(Kernel(result \cup {"d_prefix"}, result)))
        \cup (Put(<<"d_flag", "d_nonce", "d_digest">>) ** Timed(Kernel(result, result))))
    ** Get(<<"d_flag">>) ** Maybe(Get(<<"d_nonce", "d_digest">>))
    ** Free(<<"d_prefix", "d_nonce", "d_flag", "d_digest">>)
benchmark_hashrate ==
    upload(<<"d_sink">>) ** Kernel({"d_sink"}, {"d_sink"}) ** Timed(Kernel({"d_sink"}, {"d_sink"}))
    ** Free(<<"d_sink">>)

(* 13-spmv, for a matrix with entries. *)
Csr == {"d_row_ptr", "d_col", "d_val"}
Ell == {"d_ell_col", "d_ell_val"}
Hyb == {"d_hyb_col", "d_hyb_val"}
Over == {"d_over_rows", "d_over_ptr", "d_over_col", "d_over_val"}
SparseMatrix ==
    Require ** upload(<<"d_row_ptr", "d_col">>) ** upload(<<"d_val">>)
    ** upload(<<"d_ell_col", "d_ell_val">>) ** upload(<<"d_hyb_col", "d_hyb_val">>)
    ** ((upload(<<"d_over_rows", "d_over_ptr">>) ** upload(<<"d_over_col", "d_over_val">>)
         ** Raise("n_over"))
        \cup (Malloc(<<"d_over_rows">>) ** upload(<<"d_over_ptr">>) ** Malloc(<<"d_over_col", "d_over_val">>)))
SparseMatrix_delete ==
    Null(<<"n_over">>) ** Free(<<"d_row_ptr", "d_col", "d_val", "d_ell_col", "d_ell_val", "d_hyb_col",
        "d_hyb_val", "d_over_rows", "d_over_ptr", "d_over_col", "d_over_val">>)
spmv_kernels(x, y) ==
    LaunchKernel(Csr \cup {x}, {y}) \cup LaunchKernel(Ell \cup {x}, {y})
    \cup (LaunchKernel(Hyb \cup {x}, {y}) ** Maybe(AlreadySet(<<"n_over">>) ** LaunchKernel(Over \cup {x, y}, {y})))
multiply ==
    Require ** Malloc(<<"d_x", "d_y">>) ** Put(<<"d_x", "d_y">>)
    ** Timed(spmv_kernels("d_x", "d_y") ** CheckKernel) ** Get(<<"d_y">>) ** Free(<<"d_x", "d_y">>)
dot(a, b) == Put(<<"d_scalar">>) ** Kernel({a, b, "d_scalar"}, {"d_scalar"}) ** Get(<<"d_scalar">>)
cg_step ==
    Put(<<"d_ap">>) ** spmv_kernels("d_p", "d_ap") ** CheckKernel ** dot("d_p", "d_ap")
    ** LaunchKernel({"d_x", "d_p"}, {"d_x"}) ** Kernel({"d_r", "d_ap"}, {"d_r"})
    ** dot("d_r", "d_r") ** Kernel({"d_p", "d_r"}, {"d_p"})
solve_cg ==
    Require ** Malloc(<<"d_x", "d_r", "d_p", "d_ap", "d_scalar">>) ** Put(<<"d_x", "d_r", "d_p">>)
    ** Timed(dot("d_r", "d_r") ** Maybe(cg_step)) ** Get(<<"d_x">>)
    ** Free(<<"d_x", "d_r", "d_p", "d_ap", "d_scalar">>)

(* 16-layout-advanced *)
BenchmarkKernel(reads, fills) == Benchmark(LaunchKernel(reads, fills)) ** CheckKernel
compare_aos_soa ==
    Maybe(Owned(<<"d_aos", "d_x", "d_y", "d_z", "d_out_aos", "d_out_soa">>,
        Put(<<"d_aos", "d_x", "d_y", "d_z">>) ** BenchmarkKernel({"d_aos"}, {"d_out_aos"})
        ** BenchmarkKernel({"d_x", "d_y", "d_z"}, {"d_out_soa"}) ** Get(<<"d_out_aos", "d_out_soa">>)))
compare_shared_padding ==
    Maybe(Owned(<<"d_a", "d_b">>,
        BenchmarkKernel({}, {"d_a"}) ** BenchmarkKernel({}, {"d_b"}) ** Get(<<"d_a", "d_b">>)))
exercise_cooperative_groups ==
    LET outs == <<"d_partials", "d_tile", "d_block", "d_total", "d_grid_size">> IN
    Maybe(Api ** Maybe(Owned(<<"d_in">>, Put(<<"d_in">>) ** Api
        ** Owned(outs, Put(outs) ** Api ** Kernel({"d_in"} \cup Set(outs), Set(outs))
                       ** Get(<<"d_tile", "d_block", "d_total", "d_grid_size">>)))))
exercise_dynamic_parallelism ==
    Maybe(Api ** Maybe(Owned(<<"d_out", "d_launches">>, Put(<<"d_out", "d_launches">>)
        ** Kernel({"d_out", "d_launches"}, {"d_out", "d_launches"}) ** Get(<<"d_out", "d_launches">>))))
compare_wmma_vs_fp32 ==
    Maybe(Api ** Maybe(Owned(<<"dA16", "dBt16", "dA", "dBt", "dC_wmma", "dC_fp32", "dC_half">>,
        Put(<<"dA16", "dBt16", "dA", "dBt">>) ** BenchmarkKernel({"dA16", "dBt16"}, {"dC_wmma"})
        ** BenchmarkKernel({"dA", "dBt"}, {"dC_fp32"}) ** BenchmarkKernel({"dA16", "dBt16"}, {"dC_half"})
        ** Get(<<"dC_wmma", "dC_fp32">>))))
compare_async_copy ==
    Maybe(Api ** Owned(<<"d_in", "d_sync", "d_async">>, Put(<<"d_in", "d_sync", "d_async">>)
        ** BenchmarkKernel({"d_in"}, {"d_sync"}) ** BenchmarkKernel({"d_in"}, {"d_async"})
        ** Get(<<"d_sync", "d_async">>)))

(* 17-tc-gemm.  One launch stands for the bands of a product. *)
Operands == <<"a32", "b32", "bt32", "a16", "b16", "bt16", "a8", "b8", "bt8">>
Products == <<"c32", "c_i32", "c16">>
Gemm == Require ** Malloc(Operands \o Products) ** Require
Gemm_delete == Null(<<"have_inputs">>) ** Free(Operands \o Products)
set_inputs == Require ** Put(Operands) ** Raise("have_inputs")
launch_bands(a, b, c) == Repeat(Kernel({a, b}, {c}))
run_band(int8) ==
    NeedsSet(<<"have_inputs">>)
    ** (IF int8 THEN launch_bands("a8", "bt8", "c_i32") ELSE launch_bands("a16", "bt16", "c32"))
cublas(a, b, c) == LaunchKernel({a, b}, {c}) ** Require ** Api
run_float ==
    NeedsSet(<<"have_inputs">>)
    ** (launch_bands("a32", "bt32", "c32") \cup launch_bands("a16", "bt16", "c32")
        \cup cublas("a32", "b32", "c32") \cup cublas("a16", "b16", "c32"))
run_half == NeedsSet(<<"have_inputs">>) ** cublas("a16", "b16", "c16")
run_int8 ==
    NeedsSet(<<"have_inputs">>) ** (launch_bands("a8", "bt8", "c_i32") \cup cublas("a8", "b8", "c_i32"))
fetch_int8 == Kernel({"c_i32"}, {"c32"}) ** Get(<<"c32">>)
Gemm_multiply == (run_float ** Get(<<"c32">>)) \cup (run_half ** Get(<<"c16">>)) \cup (run_int8 ** fetch_int8)
multiply_band == (run_band(FALSE) ** Get(<<"c32">>)) \cup (run_band(TRUE) ** fetch_int8)
sweep_band == Loop(Api ** (Benchmark(run_band(FALSE)) \cup Benchmark(run_band(TRUE))))
check_u4_fragment ==
    Owned(<<"da", "db", "dc">>, Put(<<"da", "db">>) ** Kernel({"da", "db"}, {"dc"}) ** Get(<<"dc">>))

(* 18-flash-attention *)
Attention == Require ** Malloc(<<"q", "k", "v", "o">>) ** Require
Attention_delete == Null(<<"have_inputs">>) ** Free(<<"q", "k", "v", "o", "scores">>)
set_qkv == Require ** Put(<<"q", "k", "v">>) ** Raise("have_inputs")
run_naive ==
    (AlreadySet(<<"scores">>) \cup Renew("scores"))
    ** Repeat(cublas("q", "k", "scores") ** Kernel({"scores"}, {"scores"}) ** cublas("v", "scores", "o"))
run_fused == Require ** Repeat(Kernel({"q", "k", "v"}, {"o"}))
Attention_run == NeedsSet(<<"have_inputs">>) ** (run_naive \cup run_fused)
forward == Attention_run ** Get(<<"o">>)
blocks_per_sm == Require ** Api

(* 19-llm-engine: loading.  A failed copy of four-bit weights is not noticed. *)
UncheckedPut(bufs) == LaunchKernel({}, {bufs[1]}) ** LaunchKernel({}, {bufs[2]})
load_weights == Malloc(<<"nib", "scale">>) ** UncheckedPut(<<"nib", "scale">>)
query_device_info == Api ** Api
Runtime ==
    Require ** query_device_info ** Require
    ** upload(<<"attn_norm">>) ** load_weights ** Malloc(<<"K", "V">>)
    ** upload(<<"out_norm", "out_w">>) ** upload(<<"cos_t", "sin_t">>)
    ** Malloc(<<"workspace", "pinned">>) ** Api ** Require
Runtime_delete ==
    Free(<<"attn_norm", "nib", "scale", "K", "V", "out_norm", "out_w", "cos_t", "sin_t",
           "workspace", "pinned">>)

-----------------------------------------------------------------------------
ComputeFunctions == {
    CleanFunction("gemv_q4", gemv_q4), CleanFunction("gemv_f32", gemv_f32),
    CleanFunction("rmsnorm", rmsnorm),
    CleanFunction("rmsnorm_then_rope_unfused", rmsnorm_then_rope_unfused),
    CleanFunction("rmsnorm_rope", rmsnorm_rope), CleanFunction("compare_aos_soa", compare_aos_soa),
    CleanFunction("compare_shared_padding", compare_shared_padding),
    CleanFunction("exercise_cooperative_groups", exercise_cooperative_groups),
    CleanFunction("exercise_dynamic_parallelism", exercise_dynamic_parallelism),
    CleanFunction("compare_wmma_vs_fp32", compare_wmma_vs_fp32),
    CleanFunction("compare_async_copy", compare_async_copy),
    CleanFunction("check_u4_fragment", check_u4_fragment), FreeFunction("hash_batch", hash_batch),
    FreeFunction("mine", mine), FreeFunction("benchmark_hashrate", benchmark_hashrate),
    Constructor("GpuHashTable", GpuHashTable_ctor), Destructor("GpuHashTable", GpuHashTable_delete),
    Method("GpuHashTable", "clear", clear_table), Method("GpuHashTable", "insert", insert),
    Method("GpuHashTable", "find", find), Method("GpuHashTable", "displacement", displacement),
    Method("GpuHashTable", "size_hint", size_hint), Constructor("SpatialIndex", SpatialIndex),
    Destructor("SpatialIndex", SpatialIndex_delete),
    Method("SpatialIndex", "sorted_points", sorted_points),
    Method("SpatialIndex", "permutation", permutation), Method("SpatialIndex", "knn", knn),
    Method("SpatialIndex", "knn_bruteforce", knn_bruteforce), Method("SpatialIndex", "dbscan", dbscan),
    Constructor("GraphEngine", GraphEngine), Destructor("GraphEngine", GraphEngine_delete),
    Method("GraphEngine", "pagerank", pagerank), Method("GraphEngine", "sssp", sssp),
    Constructor("IvfFlatIndex", IvfFlatIndex_ctor), Destructor("IvfFlatIndex", IvfFlatIndex_delete),
    Method("IvfFlatIndex", "train", train), Method("IvfFlatIndex", "add", add),
    Method("IvfFlatIndex", "search", search),
    Method("IvfFlatIndex", "search_bruteforce", search_bruteforce), Constructor("DpiEngine", DpiEngine),
    Destructor("DpiEngine", DpiEngine_delete), Method("DpiEngine", "scan_bitmask", scan_bitmask),
    Method("DpiEngine", "scan_bitmask_zerocopy", scan_bitmask_zerocopy),
    Method("DpiEngine", "scan_detailed", scan_detailed), Constructor("SparseMatrix", SparseMatrix),
    Destructor("SparseMatrix", SparseMatrix_delete), Method("SparseMatrix", "multiply", multiply),
    Method("SparseMatrix", "solve_cg", solve_cg), Constructor("Gemm", Gemm),
    Destructor("Gemm", Gemm_delete), Method("Gemm", "set_inputs", set_inputs),
    Method("Gemm", "Gemm_multiply", Gemm_multiply), Method("Gemm", "multiply_band", multiply_band),
    Method("Gemm", "sweep_band", sweep_band), Constructor("Attention", Attention),
    Destructor("Attention", Attention_delete), Method("Attention", "set_qkv", set_qkv),
    Method("Attention", "forward", forward), Method("Attention", "blocks_per_sm", blocks_per_sm),
    Constructor("Runtime", Runtime), Destructor("Runtime", Runtime_delete)}
AllFunctions == HostFunctions \cup ComputeFunctions
=============================================================================
