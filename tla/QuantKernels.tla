---------------------------- MODULE QuantKernels ----------------------------
(***************************************************************************)
(* Four-bit weights and the products with them: 01-gguf-inference,         *)
(* 19-llm-engine, 20-torch-extension and cuda-projects/01-quant-llm.  A    *)
(* weight is a nibble, named by its byte in its group and the half of the  *)
(* byte; a term (o, i, e) of a product multiplies input i by the weight    *)
(* that was stored as element e.  Scales belong to groups and follow them. *)
(***************************************************************************)
EXTENDS KernelGrids

CONSTANTS
    GroupSize,    \* QK, QGROUP: 32 weights share a scale
    MaxGridDim,   \* kMaxGridDim of ops.cpp: 65535
    MatrixSizes,  \* triples (batch, rows, groups of a row)
    HeadSizes     \* pairs (heads, even length of a head)
ASSUME GroupAssumption ==
    GroupSize \in Nat \ {0} /\ GroupSize % 8 = 0 /\ MaxGridDim \in Nat \ {0}

(* Layouts of a group.  quantize_q4 puts neighbours into one byte, a GGUF    *)
(* block puts the second half of the group into the upper halves.            *)
Interleaved(e) == <<e \div 2, e % 2>>
SplitHalves(e) == <<e % (GroupSize \div 2), e \div (GroupSize \div 2)>>
Held(layout(_), byte, half) == CHOOSE e \in Upto(GroupSize) : layout(e) = <<byte, half>>
InGroup(g, e) == g * GroupSize + e
Groups(n) == Upto(n \div GroupSize)

(* Writing and reading the layouts, as copies of elements. *)
quantize_q4(e) == Interleaved(e)
dequantize_q4(n) ==
    {Term(g, InGroup(g, e), InGroup(g, Held(quantize_q4, e \div 2, e % 2)), 0) :
        g \in Groups(n), e \in Upto(GroupSize)}
FromBlock(i) == IF i < GroupSize \div 2 THEN Held(SplitHalves, i, 0)
                ELSE Held(SplitHalves, i - GroupSize \div 2, 1)
q4_from_gguf_q4_0(n) ==
    {Term(g, InGroup(g, Held(Interleaved, i \div 2, i % 2)), InGroup(g, FromBlock(i)), 0) :
        g \in Groups(n), i \in Upto(GroupSize)}
load_q4(n) ==
    {Term(g, InGroup(g, Held(Interleaved, by, half)), InGroup(g, FromBlock(2 * by + half)), 0) :
        g \in Groups(n), by \in Upto(GroupSize \div 2), half \in 0..1}
dequantize_q4_0(n) ==
    {Term(g, InGroup(g, j + half * (GroupSize \div 2)), InGroup(g, Held(SplitHalves, j, half)), 0) :
        g \in Groups(n), j \in Upto(GroupSize \div 2), half \in 0..1}
\* The bytes of a block are copied as they are.
repack_q4_0(n) ==
    {Term(g, InGroup(g, Held(SplitHalves, by, half)), InGroup(g, Held(SplitHalves, by, half)), 0) :
        g \in Groups(n), by \in Upto(GroupSize \div 2), half \in 0..1}
\* A Q6_K block of 256 keeps 4 low bits of element j in ql and 2 high bits in qh.
dequantize_q6_k ==
    UNION {LET half == j \div 128  k == j % 128 IN
        {Term(j, 2 * (64 * half + (k % 64)) + (k \div 64), 0, "ql"),
         Term(j, 4 * (32 * half + (k % 32)) + (k \div 32), 0, "qh")} : j \in Upto(256)}
\* Every piece of the block is used, by one element.
Q6Pieces == Upto(256) \X {0} \X {"ql", "qh"}
\* [:, 0::2] | [:, 1::2] << 4
quantize_py(n) ==
    {Term(g, InGroup(g, Held(Interleaved, c, half)), InGroup(g, 2 * c + half), 0) :
        g \in Groups(n), c \in Upto(GroupSize \div 2), half \in 0..1}

(* Products.  A warp has a row, its lanes share the groups of the row.       *)
WarpsOfBlock == Block \div Warp
WarpRows(m) == {r \in Upto(CeilDiv(m, WarpsOfBlock) * WarpsOfBlock) : r < m}
LaneLoop(n) == Strided(n, 1, Warp)
\* nib(q[j], k) against byte k % 4 of xv[2j] or xv[2j + 1]: k counts bits of a
\* little-endian word.
Dp4aGroup ==
    {<<8 * j + k, Held(Interleaved, 4 * j + (k \div 2), k % 2)>> :
        j \in Upto(GroupSize \div 8), k \in 0..7}
ByteGroup == {<<e, Held(Interleaved, e \div 2, e % 2)>> : e \in Upto(GroupSize)}
RowProduct(b, m, ng, group) ==
    {Term(<<b, r, l[1]>>, b * m + r, InGroup(b * ng + l[2], x[1]), InGroup(l[2], x[2])) :
        r \in WarpRows(m), l \in LaneLoop(ng), x \in group}
k_gemv_q4(m, ng) == RowProduct(0, m, ng, Dp4aGroup)
k_gemv_q4_portable(m, ng) == RowProduct(0, m, ng, ByteGroup)
gemv_q8(m, ng) == RowProduct(0, m, ng, {<<4 * c + k, 4 * c + k>> : c \in Upto(GroupSize \div 4), k \in 0..3})
\* Four floats at a time, whatever the groups.
k_gemv_f32(m, n) ==
    {Term(<<0, r, l[1]>>, r, 4 * l[2] + c, 4 * l[2] + c) :
        r \in WarpRows(m), l \in LaneLoop(n \div 4), c \in 0..3}
\* blockIdx.y is the batch.
k_gemv_int8(nb, m, ng) == UNION {RowProduct(b, m, ng, Dp4aGroup) : b \in Upto(nb)}
k_gemv_float(nb, m, ng) == UNION {RowProduct(b, m, ng, ByteGroup) : b \in Upto(nb)}
\* gemv of ops.cpp: batches larger than a grid dimension go in chunks, from b0 on.
gemv_chunks(batch, m, ng) ==
    UNION {{Term(<<b0, t[1]>>, b0 * m + t[2], b0 * ng * GroupSize + t[3], t[4]) :
                t \in k_gemv_int8(IF batch - b0 < MaxGridDim THEN batch - b0 ELSE MaxGridDim, m, ng)} :
            b0 \in {b \in Upto(batch) : b % MaxGridDim = 0}}
gemv_q4_cpu(nb, m, ng) ==
    {<<b * m + r, InGroup(b * ng + g, x[1]), InGroup(g, x[2])>> :
        b \in Upto(nb), r \in Upto(m), g \in Upto(ng), x \in ByteGroup}

(* The kernels around the products. *)
k_quant_act(n) == OneThreadEach(n, Block)
k_quant_act_groups(nb, ng) ==
    {Term(<<b, g>>, InGroup(b * ng + g, j), InGroup(b * ng + g, j), 0) :
        b \in Upto(nb), g \in Guarded(ng, Block), j \in Upto(GroupSize)}
k_dequant(m, ng) ==
    {Term(<<r, g>>, InGroup(r * ng + g, x[1]), InGroup(r * ng + g, x[2]), 0) :
        r \in Upto(m), g \in Guarded(ng, Block), x \in ByteGroup}
k_silu_mul(n) == OneThreadEach(n, Block)
k_add(n) == OneThreadEach(n, Block)
k_rmsnorm_out(n) == {Term(l[1], l[2], l[2], 0) : l \in Strided(n, 1, Block)}

(* Rotary embedding: both members of a pair are computed from both. *)
Rotate(w, a, b) == {Term(w, x, y, 0) : x \in {a, b}, y \in {a, b}}
k_rope(heads, dim) ==
    LET half == dim \div 2
        pair(t) == Rotate(t, (t \div half) * dim + (t % half), (t \div half) * dim + (t % half) + half)
    IN UNION {pair(t) : t \in Guarded(heads * half, Block)}
rmsnorm_rope_cpu(heads, dim) ==
    UNION {{<<x, y, 0>> : x \in {h * dim + i, h * dim + i + (dim \div 2)},
                          y \in {h * dim + i, h * dim + i + (dim \div 2)}} :
            h \in Upto(heads), i \in Upto(dim \div 2)}
\* The engine rotates neighbours, a thread a head: no more heads than lanes.
k_rope_paired(heads, dim) ==
    UNION {Rotate(h, h * dim + 2 * i, h * dim + 2 * i + 1) :
            h \in {l \in Upto(Warp) : l < heads}, i \in Upto(dim \div 2)}
rope_reference(heads, dim) ==
    UNION {{<<x, y, 0>> : x \in {h * dim + 2 * i, h * dim + 2 * i + 1},
                          y \in {h * dim + 2 * i, h * dim + 2 * i + 1}} :
            h \in Upto(heads), i \in Upto(dim \div 2)}

QuantLaunches ==
    UNION {LET nb == s[1]  m == s[2]  ng == s[3]  n == s[3] * GroupSize
               copy(name, terms) == LaunchOf(name, terms, Elementwise(n), n, n)
               product(name, terms) == LaunchOf(name, terms, gemv_q4_cpu(1, m, ng), m, n)
               batched(name, terms) == LaunchOf(name, terms, gemv_q4_cpu(nb, m, ng), nb * m, nb * n)
           IN {copy("dequantize_q4", dequantize_q4(n)), copy("q4_from_gguf_q4_0", q4_from_gguf_q4_0(n)),
               copy("load_q4", load_q4(n)), copy("dequantize_q4_0", dequantize_q4_0(n)),
               copy("repack_q4_0", repack_q4_0(n)), copy("quantize_py", quantize_py(n)),
               product("k_gemv_q4", k_gemv_q4(m, ng)), product("k_gemv_q4_portable", k_gemv_q4_portable(m, ng)),
               product("gemv_q8", gemv_q8(m, ng)), product("k_gemv_f32", k_gemv_f32(m, n)),
               batched("k_gemv_int8", k_gemv_int8(nb, m, ng)), batched("k_gemv_float", k_gemv_float(nb, m, ng)),
               batched("gemv", gemv_chunks(nb, m, ng)),
               LaunchOf("k_quant_act_groups", k_quant_act_groups(nb, ng), Elementwise(nb * n), nb * n, nb * n),
               LaunchOf("k_dequant", k_dequant(m, ng), Elementwise(m * n), m * n, m * n),
               copy("k_quant_act", k_quant_act(n)), copy("k_silu_mul", k_silu_mul(n)),
               copy("k_add", k_add(n)), copy("k_rmsnorm", k_rmsnorm_out(n))} : s \in MatrixSizes}
    \cup UNION {
        {LaunchOf("k_rope", k_rope(d[1], d[2]), rmsnorm_rope_cpu(d[1], d[2]), d[1] * d[2], d[1] * d[2]),
         LaunchOf("k_rope_paired", k_rope_paired(d[1], d[2]), rope_reference(d[1], d[2]), d[1] * d[2], d[1] * d[2])} :
        d \in HeadSizes}
    \cup {LaunchOf("dequantize_q6_k", dequantize_q6_k, Q6Pieces, 256, 1)}
=============================================================================
