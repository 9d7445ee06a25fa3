----------------------------- MODULE HostCalls -----------------------------
(***************************************************************************)
(* The host functions of the projects, as sequences of device operations   *)
(* (DeviceCalls).  Buffers have the names of their pointers; a pointer     *)
(* that several functions of one class share is a field of the class.      *)
(* Sizes and values are left out; argument checks that throw are Require,  *)
(* in the place where the code makes them.                                 *)
(***************************************************************************)
EXTENDS DeviceCalls

(* error-paths: the functions its tests provoke failures with. *)
launch_and_verify == Malloc(<<"d">>) ** Kernel({}, {"d"}) ** Get(<<"d">>) ** Free(<<"d">>)
launch_with_oversized_block == Malloc(<<"d">>) ** LaunchKernel({}, {"d"}) ** LastError ** Free(<<"d">>)
write_to_illegal_address == Kernel({}, {})

(* 02-image-embed.  d_src holds the buffer of one stream, ImageStreams the rest. *)
Renew(b) == Free(<<b>>) ** Null(<<b>>) ** Malloc(<<b>>)
ensure_src == AlreadySet(<<"d_src">>) \cup Renew("d_src")
ensure_host_src == AlreadySet(<<"h_src_pinned">>) \cup Renew("h_src_pinned")
Preprocessor == Require ** Api ** Malloc(<<"d_dst", "h_pinned">>)
Preprocessor_process ==
    Maybe(Require ** ensure_host_src ** Timed(
        Repeat(ensure_src ** HostWrite(<<"h_src_pinned">>) ** Put(<<"d_src">>)
             ** LaunchKernel({"d_src"}, {"d_dst"}) ** Get(<<"d_dst">>) ** HostWrite(<<"h_pinned">>)) ** Api)
        ** LastError ** HostRead(<<"h_pinned">>))
Preprocessor_process_serial ==
    Maybe(Require ** Timed(Repeat(ensure_src ** Put(<<"d_src">>) ** LaunchKernel({"d_src"}, {"d_dst"})
                                ** Get(<<"d_dst">>))) ** LastError)
Preprocessor_delete == Free(<<"d_src", "d_dst", "h_pinned", "h_src_pinned">>)

(* 05-video *)
VideoPipeline ==
    Require ** Malloc(<<"d_nv12", "d_rgb", "d_gray", "d_out", "d_prev", "d_mhi">>)
    ** Put(<<"d_prev", "d_mhi">>) ** Malloc(<<"d_pitched">>) ** Api
VideoPipeline_delete ==
    Free(<<"d_nv12", "d_rgb", "d_gray", "d_out", "d_prev", "d_mhi", "d_pitched">>)
reset_motion == Put(<<"d_prev", "d_mhi">>)
nv12_to_rgb == Require ** Put(<<"d_nv12">>) ** Timed(Kernel({"d_nv12"}, {"d_rgb"})) ** Get(<<"d_rgb">>)
nv12_to_gray == Require ** Put(<<"d_nv12">>) ** Timed(Kernel({"d_nv12"}, {"d_gray"})) ** Get(<<"d_gray">>)
bilateral ==
    Require ** ((Put(<<"d_pitched">>) ** LaunchKernel({"d_pitched"}, {"d_out"}))
                \cup (Put(<<"d_gray">>) ** LaunchKernel({"d_gray"}, {"d_out"})))
    ** CheckKernel ** Api ** Get(<<"d_out">>)
motion_history ==
    Require ** Put(<<"d_gray">>) ** Maybe(Put(<<"d_prev">>))
    ** Timed(Kernel({"d_gray", "d_prev", "d_mhi"}, {"d_prev", "d_mhi"})) ** Get(<<"d_mhi">>)
measure_transfers ==
    Malloc(<<"pinned", "mapped">>) ** Api ** Malloc(<<"dbuf", "dsum">>) ** Put(<<"dbuf">>)
    ** Timed(Put(<<"dbuf">>)) ** Timed(Put(<<"dbuf">>))
    ** Touch(<<"dsum">>) ** LaunchKernel({"dbuf"}, {}) ** Api
    ** Timed(LaunchKernel({"dbuf"}, {})) ** Timed(Put(<<"dbuf">>) ** LaunchKernel({"dbuf"}, {}))
    ** LastError ** Free(<<"pinned", "mapped", "dbuf", "dsum">>)

(* 06-audio.  The cuFFT plans are handles that are made and destroyed like memory. *)
ensure_out ==
    AlreadySet(<<"d_out", "d_wsum">>)
    \cup (Free(<<"d_out", "d_wsum">>) ** Null(<<"d_out", "d_wsum">>) ** Malloc(<<"d_out", "d_wsum">>))
make_plans ==
    AlreadySet(<<"plan_fwd", "plan_inv">>)
    \cup (Free(<<"plan_fwd", "plan_inv">>) ** Malloc(<<"plan_fwd", "plan_inv">>))
StftProcessor ==
    Require ** Malloc(<<"d_pcm", "d_frames", "d_spec", "d_spec2">>) ** ensure_out
    ** Malloc(<<"d_resampled", "d_win", "d_lastphase", "d_sumphase">>) ** Put(<<"d_win">>)
StftProcessor_delete ==
    Free(<<"plan_fwd", "plan_inv", "d_pcm", "d_frames", "d_spec", "d_spec2", "d_out", "d_wsum",
           "d_resampled", "d_win", "d_lastphase", "d_sumphase">>)
Fft(plan, from, to) == Touch(<<plan>>) ** LaunchKernel({from}, {to}) ** Require
spectrogram ==
    Require ** make_plans ** Put(<<"d_pcm">>)
    ** Timed(LaunchKernel({"d_pcm", "d_win"}, {"d_frames"}) ** Fft("plan_fwd", "d_frames", "d_spec")
             ** Kernel({"d_spec"}, {"d_spec2"}))
    ** Get(<<"d_spec2">>)
pitch_shift ==
    Require ** make_plans ** Put(<<"d_pcm">>) ** Api
    ** LaunchKernel({"d_pcm", "d_win"}, {"d_frames"}) ** Fft("plan_fwd", "d_frames", "d_spec")
    ** Put(<<"d_lastphase", "d_sumphase">>)
    ** LaunchKernel({"d_spec"}, {"d_spec2", "d_lastphase", "d_sumphase"})
    ** Fft("plan_inv", "d_spec2", "d_frames") ** LaunchKernel({"d_frames"}, {"d_frames"})
    ** ensure_out ** Put(<<"d_out", "d_wsum">>)
    ** LaunchKernel({"d_frames", "d_win", "d_out", "d_wsum"}, {"d_out", "d_wsum"})
    ** LaunchKernel({"d_out", "d_wsum"}, {"d_out"}) ** Kernel({"d_out"}, {"d_resampled"}) ** Api
    ** Get(<<"d_resampled">>)

(* 07-montecarlo *)
Engine_price == Require ** Malloc(<<"d_out">>) ** Put(<<"d_out">>) ** Kernel({"d_out"}, {"d_out"})
                ** Get(<<"d_out">>) ** Free(<<"d_out">>)
price_portfolio ==
    Maybe(Malloc(<<"d_book", "d_out">>) ** Put(<<"d_book", "d_out">>)
          ** Kernel({"d_book", "d_out"}, {"d_out"}) ** Get(<<"d_out">>) ** Free(<<"d_book", "d_out">>))

(* 11-optical-flow *)
FlowTracker == Require ** Malloc(<<"d_a", "d_b", "d_gx", "d_gy", "d_resp">>)
FlowTracker_delete == Free(<<"d_a", "d_b", "d_gx", "d_gy", "d_resp">>)
detect_harris ==
    Require ** Put(<<"d_a">>)
    ** Timed(LaunchKernel({"d_a"}, {"d_gx", "d_gy"}) ** Kernel({"d_gx", "d_gy"}, {"d_resp"}))
    ** Get(<<"d_resp">>)
\* Mutant: the last level is not freed.
build_pyramid_leaking ==
    Require ** Malloc(<<"d_src">>) ** Put(<<"d_src">>)
    ** Loop(Malloc(<<"d_dst">>) ** Kernel({"d_src"}, {"d_dst"}) ** Get(<<"d_dst">>)
            ** Free(<<"d_src">>) ** Move("d_dst", "d_src"))

build_pyramid ==
    Require ** Malloc(<<"d_src">>) ** Put(<<"d_src">>)
    ** Loop(Malloc(<<"d_dst">>) ** Kernel({"d_src"}, {"d_dst"}) ** Get(<<"d_dst">>)
            ** Free(<<"d_src">>) ** Move("d_dst", "d_src"))
    ** Free(<<"d_src">>)
klt_levels ==
    Put(<<"d_src">>) ** Malloc(<<"da", "db">>) ** Put(<<"da", "db">>)
    ** Kernel({"da", "db", "d_src", "d_est", "d_ok"}, {"d_est", "d_ok"})
    ** Free(<<"da", "db">>)
\* The pyramids of both frames are built by calls of build_pyramid.
track ==
    Require ** Maybe(Malloc(<<"d_src", "d_est", "d_ok">>) ** Put(<<"d_est", "d_ok">>)
        ** Timed(Maybe(klt_levels ** Kernel({"d_est"}, {"d_est"})) ** klt_levels)
        ** Get(<<"d_est", "d_ok">>) ** Free(<<"d_src", "d_est", "d_ok">>))

(* 14-primitives *)
query_managed_caps == Api
compare_graph_vs_stream ==
    Require ** Malloc(<<"d_a", "d_b">>) ** Api
    ** Put(<<"d_a">>) ** LaunchKernel({"d_a"}, {"d_a"}) ** Api
    ** Put(<<"d_a">>) ** Timed(LaunchKernel({"d_a"}, {"d_a"})) ** Api ** Get(<<"d_a">>)
    ** Timed(Api) ** Put(<<"d_b">>) ** LaunchKernel({"d_b"}, {"d_b"}) ** Api
    ** Put(<<"d_b">>) ** Timed(LaunchKernel({"d_b"}, {"d_b"})) ** Api ** Get(<<"d_b">>)
    ** Api ** Free(<<"d_a", "d_b">>)
checksum_of(p) == Put(<<"d_sum">>) ** Kernel({p, "d_sum"}, {"d_sum"}) ** Get(<<"d_sum">>)
explicit_copy ==
    Malloc(<<"d">>) ** Put(<<"d">>) ** Kernel({"d"}, {"d"})
    ** Put(<<"d">>) ** LaunchKernel({"d"}, {"d"}) ** Get(<<"d">>) ** Api
    ** Put(<<"d">>) ** Kernel({"d"}, {"d"}) ** checksum_of("d") ** Free(<<"d">>)
managed(advise, prefetch) ==
    Malloc(<<"m">>) ** HostWrite(<<"m">>) ** advise ** Kernel({"m"}, {"m"}) ** HostRead(<<"m">>)
    ** HostWrite(<<"m">>) ** prefetch ** LaunchKernel({"m"}, {"m"}) ** Api ** HostRead(<<"m">>)
    ** HostWrite(<<"m">>) ** Api ** Kernel({"m"}, {"m"}) ** checksum_of("m") ** Free(<<"m">>)
compare_memory_modes ==
    Require ** query_managed_caps ** Api ** Malloc(<<"d_sum">>) ** explicit_copy
    ** Maybe(managed(Nothing, Nothing) ** Maybe(managed(Api, Nothing) ** managed(Nothing, Api)))
    ** Free(<<"d_sum">>)
measure_bank_conflicts ==
    Require ** Malloc(<<"d_out">>) ** Touch(<<"d_out">>) ** Kernel({}, {})
    ** Timed(Kernel({}, {})) ** Free(<<"d_out">>)
analyze_occupancy ==
    Api ** Malloc(<<"d">>) ** Put(<<"d">>)
    ** Api ** Kernel({"d"}, {"d"}) ** Timed(Kernel({"d"}, {"d"})) ** Free(<<"d">>)
sample_activemask ==
    Malloc(<<"d_mask", "d_branch">>) ** Put(<<"d_mask", "d_branch">>)
    ** Kernel({}, {"d_mask", "d_branch"}) ** Get(<<"d_mask", "d_branch">>)
    ** Free(<<"d_mask", "d_branch">>)

(* 15-warp-primitives *)
upload(bufs) == LET one(b) == Malloc(<<b>>) ** Put(<<b>>)
                IN IF Len(bufs) = 1 THEN one(bufs[1]) ELSE one(bufs[1]) ** one(bufs[2])
\* Upload inputs, run one kernel from them into fresh buffers, fetch these, free all.
RoundTrip(ins, outs) ==
    Require ** upload(ins) ** Malloc(outs)
    ** Kernel({ins[i] : i \in DOMAIN ins}, {outs[i] : i \in DOMAIN outs})
    ** Get(outs) ** Free(ins \o outs)
warp_broadcast == RoundTrip(<<"d_in">>, <<"d_out">>)
KP_WARP_OP == RoundTrip(<<"d_in">>, <<"d_out">>)
warp_vote == RoundTrip(<<"d_p">>, <<"d_ballot", "d_active", "d_all", "d_any", "d_popc">>)
block_sync_variants == RoundTrip(<<"d_p">>, <<"d_c", "d_a", "d_o">>)
producer_consumer ==
    LET bufs == <<"d_payload", "d_flag", "d_ack", "d_torn">>
        names == {bufs[i] : i \in DOMAIN bufs}
    IN Require ** Malloc(bufs) ** Put(bufs) ** Kernel(names, names) ** Get(<<"d_torn">>) ** Free(bufs)
exercise_atomics ==
    Require ** upload(<<"d_v">>) ** Malloc(<<"d_out", "d_uout", "d_cas">>)
    ** Put(<<"d_out", "d_uout", "d_cas">>)
    ** Kernel({"d_v", "d_out", "d_uout", "d_cas"}, {"d_out", "d_uout", "d_cas"})
    ** Get(<<"d_out", "d_uout", "d_cas">>) ** Free(<<"d_v", "d_out", "d_uout", "d_cas">>)
exercise_bit_intrinsics ==
    RoundTrip(<<"d_v">>, <<"d_popc", "d_clz", "d_ffs", "d_brev", "d_bperm", "d_fun">>)
dp4a_dot == RoundTrip(<<"d_a", "d_b">>, <<"d_o">>)
dp2a_dot == RoundTrip(<<"d_a", "d_b">>, <<"d_o">>)
fma_vs_separate == Malloc(<<"d_out">>) ** Kernel({}, {"d_out"}) ** Get(<<"d_out">>) ** Free(<<"d_out">>)

-----------------------------------------------------------------------------
\* Its buffers have destructors, or it frees them before it throws.
CleanFunction(name, paths) == HostFunction(name, "none", "free", TRUE, paths)
FreeFunction(name, paths) == HostFunction(name, "none", "free", FALSE, paths)
Constructor(class, paths) == HostFunction(class, class, "ctor", TRUE, paths)
Destructor(class, paths) == HostFunction("~" \o class, class, "dtor", FALSE, paths)
Method(class, name, paths) == HostFunction(name, class, "method", FALSE, paths)

HostFunctions == {
    CleanFunction("launch_and_verify", launch_and_verify),
    CleanFunction("launch_with_oversized_block", launch_with_oversized_block),
    CleanFunction("write_to_illegal_address", write_to_illegal_address),
    Constructor("Preprocessor", Preprocessor), Destructor("Preprocessor", Preprocessor_delete),
    Method("Preprocessor", "process", Preprocessor_process),
    Method("Preprocessor", "process_serial", Preprocessor_process_serial),
    Constructor("VideoPipeline", VideoPipeline), Destructor("VideoPipeline", VideoPipeline_delete),
    Method("VideoPipeline", "reset_motion", reset_motion),
    Method("VideoPipeline", "nv12_to_rgb", nv12_to_rgb),
    Method("VideoPipeline", "nv12_to_gray", nv12_to_gray),
    Method("VideoPipeline", "bilateral", bilateral),
    Method("VideoPipeline", "motion_history", motion_history),
    FreeFunction("measure_transfers", measure_transfers),
    Constructor("StftProcessor", StftProcessor), Destructor("StftProcessor", StftProcessor_delete),
    Method("StftProcessor", "spectrogram", spectrogram),
    Method("StftProcessor", "pitch_shift", pitch_shift),
    Constructor("FlowTracker", FlowTracker), Destructor("FlowTracker", FlowTracker_delete),
    Method("FlowTracker", "detect_harris", detect_harris),
    Method("FlowTracker", "build_pyramid", build_pyramid), Method("FlowTracker", "track", track),
    FreeFunction("compare_graph_vs_stream", compare_graph_vs_stream),
    FreeFunction("compare_memory_modes", compare_memory_modes),
    FreeFunction("measure_bank_conflicts", measure_bank_conflicts),
    FreeFunction("analyze_occupancy", analyze_occupancy),
    FreeFunction("sample_activemask", sample_activemask),
    CleanFunction("price", Engine_price),
    FreeFunction("price_portfolio", price_portfolio),
    FreeFunction("warp_broadcast", warp_broadcast), FreeFunction("KP_WARP_OP", KP_WARP_OP),
    FreeFunction("warp_vote", warp_vote), FreeFunction("block_sync_variants", block_sync_variants),
    FreeFunction("producer_consumer", producer_consumer),
    FreeFunction("exercise_atomics", exercise_atomics),
    FreeFunction("exercise_bit_intrinsics", exercise_bit_intrinsics),
    FreeFunction("dp4a_dot", dp4a_dot), FreeFunction("dp2a_dot", dp2a_dot),
    FreeFunction("fma_vs_separate", fma_vs_separate)}
=============================================================================
