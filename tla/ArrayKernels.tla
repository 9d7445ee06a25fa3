---------------------------- MODULE ArrayKernels ----------------------------
(* The shuffles inside a warp of 15-warp-primitives, on which the sums of    *)
(* 08-graph, 09-vector-ann, 13-spmv and 14-primitives rest, and the frames   *)
(* of 06-audio.                                                              *)
EXTENDS KernelGrids

CONSTANTS
    WarpCounts,   \* how many warps of input a shuffle gets
    Signals       \* tuples (samples, frame size, hop, hop of the output)
ASSUME WarpAssumption == \E k \in 0..Warp : Warp = 2 ^ k

(* Registers.  A lane holds a sum of lanes: how often each one is in it.     *)
LaneIds == Upto(Warp)
OwnValue == [lane \in LaneIds |-> [j \in LaneIds |-> IF j = lane THEN 1 ELSE 0]]
Plus(a, b) == [j \in LaneIds |-> a[j] + b[j]]
\* A lane whose partner is outside of the warp gets its own value back.
shfl_down(v, d) == [lane \in LaneIds |-> IF lane + d < Warp THEN v[lane + d] ELSE v[lane]]
shfl_up(v, d) == [lane \in LaneIds |-> IF lane - d >= 0 THEN v[lane - d] ELSE v[lane]]
\* lane ^ m for a power of two m.
shfl_xor(v, m) == [lane \in LaneIds |-> v[IF (lane \div m) % 2 = 0 THEN lane + m ELSE lane - m]]
shfl(v, from) == [lane \in LaneIds |-> v[from]]

\* The distances 1, 2, 4 ... below the width of the warp, by their rank.
Steps == CHOOSE k \in 0..Warp : 2 ^ k = Warp
Rising(step(_, _)) ==
    LET after[k \in 0..Steps] == IF k = 0 THEN OwnValue ELSE step(after[k - 1], 2 ^ (k - 1))
    IN after[Steps]
Falling(step(_, _)) ==
    LET after[k \in 0..Steps] == IF k = 0 THEN OwnValue ELSE step(after[k - 1], 2 ^ (Steps - k))
    IN after[Steps]
AddDown(v, d) == [lane \in LaneIds |-> Plus(v[lane], shfl_down(v, d)[lane])]
AddXor(v, m) == [lane \in LaneIds |-> Plus(v[lane], shfl_xor(v, m)[lane])]
AddUp(v, d) ==
    [lane \in LaneIds |-> IF lane >= d THEN Plus(v[lane], shfl_up(v, d)[lane]) ELSE v[lane]]

\* out[i] = v, of the lanes given; the tag is how often an input is in the sum.
Stored(warps, v, lanes) ==
    {t \in {Term(<<w, lane>>, w * Warp + lane, w * Warp + j, v[lane][j]) :
                w \in Upto(warps), lane \in lanes, j \in LaneIds} : t[4] > 0}
k_broadcast(warps, from) == Stored(warps, shfl(OwnValue, from), LaneIds)
k_scan_up(warps) == Stored(warps, Rising(AddUp), LaneIds)
\* Lane 0 alone ends up with the total.
k_reduce_down(warps) == Stored(warps, Falling(AddDown), {0})
k_reduce_xor(warps) == Stored(warps, Falling(AddXor), LaneIds)
SumOf(warps, lanes, from(_)) ==
    UNION {{<<w * Warp + lane, w * Warp + j, 1>> : j \in from(lane)} : w \in Upto(warps), lane \in lanes}

(* 06-audio.  One thread per sample of a frame; the frames overlap.          *)
frames_for(samples, size, hop) == IF samples < size THEN 1 ELSE (samples - size) \div hop + 1
FrameThreads(channels, nf, size) == Guarded(channels * nf * size, Block)
Sample(i, size) == i % size
Frame(i, size, nf) == (i \div size) % nf
Channel(i, size, nf) == i \div (size * nf)
k_frame_and_window(channels, samples, size, hop, nf) ==
    {Term(i, i, Channel(i, size, nf) * samples + Frame(i, size, nf) * hop + Sample(i, size), 0) :
        i \in {k \in FrameThreads(channels, nf, size) :
                Frame(k, size, nf) * hop + Sample(k, size) < samples}}
k_overlap_add(channels, size, hop, nf, out_len) ==
    {Term(i, Channel(i, size, nf) * out_len + Frame(i, size, nf) * hop + Sample(i, size), i, 0) :
        i \in {k \in FrameThreads(channels, nf, size) :
                Frame(k, size, nf) * hop + Sample(k, size) < out_len}}
stretched_len(nf, size, hop) == (nf - 1) * hop + size
k_magnitude(n) == OneThreadEach(n, Block)
k_scale(n) == OneThreadEach(n, Block)
k_normalize(n) == OneThreadEach(n, Block)
\* A thread has a bin of a channel and walks through its frames in order.
k_phase_vocoder(channels, nf, bins) ==
    {Term(<<bc[1], bc[2]>>, (bc[2] * nf + f) * bins + bc[1], (bc[2] * nf + f) * bins + bc[1], 0) :
        bc \in Guarded2(bins, channels, Block, 1), f \in Upto(nf)}
\* A sample between two inputs, p / q inputs apart, the ones past the end being 0.
k_resample(channels, in_len, out_len, p, q) ==
    UNION {LET c == i \div out_len  i0 == ((i % out_len) * p) \div q IN
            {Term(i, i, c * in_len + x, x - i0) : x \in {y \in {i0, i0 + 1} : y < in_len}} :
           i \in Guarded(channels * out_len, Block)}

\* The definitions of the transforms, by output.
FrameLoop(channels, samples, size, hop, nf) ==
    {t \in {<<(c * nf + f) * size + s, IF f * hop + s < samples THEN c * samples + f * hop + s ELSE -1, 0>> :
            c \in Upto(channels), f \in Upto(nf), s \in Upto(size)} : t[2] # -1}
OverlapLoop(channels, size, hop, nf) ==
    LET len == stretched_len(nf, size, hop)
    IN {<<c * len + f * hop + s, (c * nf + f) * size + s, 0>> :
            c \in Upto(channels), f \in Upto(nf), s \in Upto(size)}
ResampleLoop(channels, in_len, out_len, p, q) ==
    UNION {{<<c * out_len + t, c * in_len + x, x - (t * p) \div q>> :
                x \in {y \in Upto(in_len) : y * q <= t * p + q /\ (y + 1) * q > t * p}} :
           c \in Upto(channels), t \in Upto(out_len)}

WarpLaunches ==
    UNION {LET n == k * Warp IN
        {LaunchOf("k_broadcast", k_broadcast(k, src), SumOf(k, LaneIds, LAMBDA l : {src}), n, n) : src \in LaneIds}
        \cup {LaunchOf("k_scan_up", k_scan_up(k), SumOf(k, LaneIds, LAMBDA l : 0..l), n, n),
              LaunchOf("k_reduce_down", k_reduce_down(k), SumOf(k, {0}, LAMBDA l : LaneIds), n, n),
              LaunchOf("k_reduce_xor", k_reduce_xor(k), SumOf(k, LaneIds, LAMBDA l : LaneIds), n, n)} :
        k \in WarpCounts}
AudioLaunches ==
    UNION {LET samples == s[1]  size == s[2]  hop == s[3]  hop_s == s[4]
               nf == frames_for(samples, size, hop)  len == stretched_len(nf, size, hop_s)
               n == 2 * nf * size  bins == size \div 2 + 1 IN
        {LaunchOf("k_frame_and_window", k_frame_and_window(2, samples, size, hop, nf),
                  FrameLoop(2, samples, size, hop, nf), n, 2 * samples),
         LaunchOf("k_overlap_add", k_overlap_add(2, size, hop_s, nf, len), OverlapLoop(2, size, hop_s, nf), 2 * len, n),
         LaunchOf("k_phase_vocoder", k_phase_vocoder(2, nf, bins), Elementwise(2 * nf * bins), 2 * nf * bins, 2 * nf * bins),
         LaunchOf("k_resample", k_resample(2, len, samples, hop_s, hop),
                  ResampleLoop(2, len, samples, hop_s, hop), 2 * samples, 2 * len),
         LaunchOf("k_magnitude", k_magnitude(2 * nf * bins), Elementwise(2 * nf * bins), 2 * nf * bins, 2 * nf * bins),
         LaunchOf("k_scale", k_scale(n), Elementwise(n), n, n),
         LaunchOf("k_normalize", k_normalize(2 * len), Elementwise(2 * len), 2 * len, 2 * len)} : s \in Signals}
=============================================================================
