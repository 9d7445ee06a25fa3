---------------------------- MODULE SparseKernels ----------------------------
(***************************************************************************)
(* Sparse products: the formats and kernels of 13-spmv and the PageRank    *)
(* kernels of 08-graph.  A matrix is a sequence of entries (row, column)   *)
(* in the order the caller gave; a term (r, c, e) of a product adds entry  *)
(* e times x[c] to y[r].  An array is a function from its positions to the *)
(* entries it holds.                                                       *)
(***************************************************************************)
EXTENDS KernelGrids

CONSTANTS
    Matrices,    \* pairs (number of rows and columns, sequence of entries)
    Percentile   \* the row length the hybrid format is cut at: 90 per cent

Entries(m) == DOMAIN m
\* row_ptr, by counting.
RowPtr(m, r) == Cardinality({e \in Entries(m) : m[e][1] < r})
RowLen(m, r) == RowPtr(m, r + 1) - RowPtr(m, r)
\* Entries go to the next free place of their row, in the order given.
Cursor(m, e) == RowPtr(m, m[e][1]) + Cardinality({d \in Entries(m) : d < e /\ m[d][1] = m[e][1]})
Csr(m) == [p \in Upto(Len(m)) |-> CHOOSE e \in Entries(m) : Cursor(m, e) = p]
MaxRow(n, m) == CHOOSE k \in {RowLen(m, r) : r \in Upto(n)} : \A r \in Upto(n) : RowLen(m, r) <= k

\* The ELLPACK array of the first `width` entries of each row, by columns; 0 is padding.
EllArray(n, m, width) ==
    [k \in Upto(width * n) |->
        IF k \div n < RowLen(m, k % n) THEN Csr(m)[RowPtr(m, k % n) + (k \div n)] ELSE 0]

\* The length of row number floor(0.9 n) when the rows are sorted by length.
P90(n, m) ==
    CHOOSE k \in {RowLen(m, r) : r \in Upto(n)} :
        LET place == (n * Percentile) \div 100 IN
        /\ Cardinality({r \in Upto(n) : RowLen(m, r) < k}) <= place
        /\ Cardinality({r \in Upto(n) : RowLen(m, r) <= k}) > place
HybridWidth(n, m) == IF P90(n, m) > 1 THEN P90(n, m) ELSE 1
\* Rows that are longer, in order, and the rest of each behind the rest of the one before.
OverRows(n, m) == {r \in Upto(n) : RowLen(m, r) > HybridWidth(n, m)}
OverRow(n, m, idx) ==
    CHOOSE r \in OverRows(n, m) : Cardinality({q \in OverRows(n, m) : q < r}) = idx
Rest(n, m, r) ==
    {Csr(m)[p] : p \in (RowPtr(m, r) + HybridWidth(n, m))..(RowPtr(m, r + 1) - 1)}

(* Kernels.  A warp has a row, or a thread has it. *)
WarpsPerBlock == Block \div Warp
Warps(n) == {w \in Upto(CeilDiv(n, WarpsPerBlock) * WarpsPerBlock) : w < n}
Sum(w, r, m, e) == Term(w, r, m[e][2], e)
k_csr_scalar(n, m) ==
    UNION {{Sum(r, r, m, Csr(m)[p]) : p \in RowPtr(m, r)..(RowPtr(m, r + 1) - 1)} : r \in Guarded(n, Block)}
k_csr_vector(n, m) ==
    UNION {{Sum(<<r, l[1]>>, r, m, Csr(m)[RowPtr(m, r) + l[2]]) : l \in Strided(RowLen(m, r), 1, Warp)} :
            r \in Warps(n)}
k_ellpack(n, m, width) ==
    LET stored(r) == {EllArray(n, m, width)[j * n + r] : j \in Upto(width)} \ {0}
    IN UNION {{Sum(r, r, m, e) : e \in stored(r)} : r \in Guarded(n, Block)}
k_hybrid_overflow(n, m) ==
    UNION {{Sum(<<"over", idx>>, OverRow(n, m, idx), m, e) : e \in Rest(n, m, OverRow(n, m, idx))} :
            idx \in Warps(Cardinality(OverRows(n, m)))}
hybrid(n, m) == k_ellpack(n, m, HybridWidth(n, m)) \cup k_hybrid_overflow(n, m)
multiply_cpu(m) == {<<m[e][1], m[e][2], e>> : e \in Entries(m)}
k_axpy(n) == OneThreadEach(n, Block)
k_xpay(n) == OneThreadEach(n, Block)

(* 08-graph.  The edges are entries (node, neighbour); the pull kernels walk *)
(* the transpose, the push kernel adds to the neighbours.                     *)
Transposed(m) == [e \in Entries(m) |-> <<m[e][2], m[e][1]>>]
\* Entries of the transpose are placed in the order of the rows they come from.
TransposeCursor(m, e) ==
    LET v == m[e][2] IN
    RowPtr(Transposed(m), v) + Cardinality({d \in Entries(m) : m[d][2] = v /\ Cursor(m, d) < Cursor(m, e)})
TransposeArray(m) == [p \in Upto(Len(m)) |-> CHOOSE e \in Entries(m) : TransposeCursor(m, e) = p]
InEdges(m, v) ==
    {TransposeArray(m)[p] : p \in RowPtr(Transposed(m), v)..(RowPtr(Transposed(m), v + 1) - 1)}
k_pagerank_pull_thread(n, m) ==
    UNION {{Term(v, v, m[e][1], e) : e \in InEdges(m, v)} : v \in Guarded(n, Block)}
k_pagerank_pull_warp(n, m) ==
    LET t == Transposed(m) IN
    UNION {{Term(<<v, l[1]>>, v, m[e][1], e) :
                e \in {TransposeArray(m)[RowPtr(t, v) + l[2]]}} :
            <<v, l>> \in {<<x, k>> \in Warps(n) \X Strided(MaxRow(n, t), 1, Warp) : k[2] < RowLen(t, x)}}
k_pagerank_push_warp(n, m) ==
    UNION {{Term(<<u, l[1]>>, m[Csr(m)[RowPtr(m, u) + l[2]]][2], u, Csr(m)[RowPtr(m, u) + l[2]]) :
                l \in Strided(RowLen(m, u), 1, Warp)} : u \in Warps(n)}
pagerank_cpu(m) == {<<m[e][2], m[e][1], e>> : e \in Entries(m)}
k_fill(n) == OneThreadEach(n, Block)
k_finish_push(n) == OneThreadEach(n, Block)

SparseLaunches ==
    UNION {LET n == s[1]  m == s[2]
               product(name, terms) == LaunchOf(name, terms, multiply_cpu(m), n, n)
               each(name, terms) == LaunchOf(name, terms, Elementwise(n), n, n)
               rank(name, terms) == LaunchOf(name, terms, pagerank_cpu(m), n, n)
           IN {product("k_csr_scalar", k_csr_scalar(n, m)), product("k_csr_vector", k_csr_vector(n, m)),
               product("k_ellpack", k_ellpack(n, m, MaxRow(n, m))), product("hybrid", hybrid(n, m)),
               each("k_axpy", k_axpy(n)), each("k_xpay", k_xpay(n)), each("k_fill", k_fill(n)),
               each("k_finish_push", k_finish_push(n)),
               rank("pull_thread", k_pagerank_pull_thread(n, m)), rank("pull_warp", k_pagerank_pull_warp(n, m)),
               rank("push_warp", k_pagerank_push_warp(n, m))} : s \in Matrices}
=============================================================================
