--------------------------- MODULE SpatialKernels ---------------------------
(***************************************************************************)
(* 04-spatial: points sorted by the Morton code of their cell, neighbours  *)
(* within eps from the 27 cells around a point, and k nearest neighbours   *)
(* from rings of cells, against loops over all points.  Coordinates are    *)
(* integers, CellSize of them to a cell; some lie outside the grid.        *)
(***************************************************************************)
EXTENDS KernelGrids, Bitwise, FiniteSetsExt

CONSTANTS
    PointSets,   \* sequences of points
    GridSide,    \* cells per axis: kGrid in the code
    CellSize,    \* kCell
    KnnSizes   \* values of k
ASSUME SpatialAssumption == {GridSide, CellSize} \cup KnnSizes \subseteq Nat \ {0}

spread3(v) ==
    LET a == v & 1023
        b == (a | (a * 2^16)) & 50331903
        c == (b | (b * 2^8)) & 50393103
        d == (c | (c * 2^4)) & 51130563
    IN (d | (d * 2^2)) & 153391689
morton_encode(x, y, z) == spread3(x) | (spread3(y) * 2) | (spread3(z) * 4)
cell_of(v) == Clamp(v \div CellSize, 0, GridSide - 1)
CellAt(a) == [axis \in 1..3 |-> cell_of(a[axis])]
Code(cell) == morton_encode(cell[1], cell[2], cell[3])
Cells3 == [1..3 -> Upto(GridSide)]
\* A table of them, made once.
Codes == {<<cell, Code(cell)>> : cell \in Cells3}
CodeIn(codes, cell) == (CHOOSE e \in codes : e[1] = cell)[2]

\* The orders sort_by_key may leave the points in, as sequences from 0.
Orders(points, codes) ==
    LET n == Len(points)
        key(i) == CodeIn(codes, CellAt(points[i + 1]))
    IN {o \in [Upto(n) -> Upto(n)] :
            /\ \A i, j \in Upto(n) : i # j => o[i] # o[j]
            /\ \A i \in Upto(n - 1) : key(o[i]) <= key(o[i + 1])}
k_reorder(points, o) == [i \in DOMAIN o |-> points[o[i] + 1]]

\* k_cell_ranges: the threads at the ends of a run of equal codes write; cells
\* without points keep the zeros of the memset.
Ranges(p, codes) ==
    LET n == Cardinality(DOMAIN p)
        keys == [i \in DOMAIN p |-> CodeIn(codes, CellAt(p[i]))]
        heads(c) == {i \in Guarded(n, Block) : keys[i] = c /\ (i = 0 \/ keys[i - 1] # c)}
        tails(c) == {i \in Guarded(n, Block) : keys[i] = c /\ (i = n - 1 \/ keys[i + 1] # c)}
    IN [cell \in Cells3 |-> IF heads(CodeIn(codes, cell)) = {} THEN {}
                             ELSE Min(heads(CodeIn(codes, cell)))..Max(tails(CodeIn(codes, cell)))]

Square(x) == x * x
Distance2(a, b) == Square(a[1] - b[1]) + Square(a[2] - b[2]) + Square(a[3] - b[3])
Offsets3(r) == [1..3 -> -r..r]
\* The cells at offset d from the cell of a, if the grid has them.
CellsAround(a, offsets) ==
    LET moved(d) == [axis \in 1..3 |-> CellAt(a)[axis] + d[axis]]
    IN {moved(d) : d \in {x \in offsets : moved(x) \in Cells3}}

\* The stencil of k_count_neighbours, k_union_cores and k_attach_border.
k_count_neighbours(p, ranges, eps2) ==
    LET n == Cardinality(DOMAIN p)
        close(i, cell) == {j \in ranges[cell] : Distance2(p[i], p[j]) <= eps2}
    IN UNION {UNION {{Term(<<i, cell>>, i, j, 0) : j \in close(i, cell)} :
                cell \in CellsAround(p[i], Offsets3(1))} : i \in Guarded(n, Block)}
AllNear(p, eps2) ==
    {<<t[1], t[2], 0>> : t \in {x \in (DOMAIN p) \X (DOMAIN p) : Distance2(p[x[1]], p[x[2]]) <= eps2}}

kFarthest == 10000
knn_insert(best, d2) ==
    LET k == Len(best)
        m == Cardinality({i \in 1..k : best[i] <= d2}) + 1
    IN IF d2 >= best[k] THEN best
       ELSE [i \in 1..k |-> IF i < m THEN best[i] ELSE IF i = m THEN d2 ELSE best[i - 1]]
VisitPoints(p, qi, best, js) ==
    FoldSet(LAMBDA j, b : IF j = qi THEN b ELSE knn_insert(b, Distance2(p[qi], p[j])), best, js)
\* Ring r without what the rings before have visited; the first one is solid.
CellShell(r) == IF r = 1 THEN Offsets3(1) ELSE Offsets3(r) \ Offsets3(r - 1)
\* Mutant: the loop stops one ring early.
EnoughEarly(best, r) == best[Len(best)] < Square((r + 1) * CellSize)
\* Whatever is farther out than ring r is at least r cells away.
Enough(best, r) == best[Len(best)] < Square(r * CellSize)
k_knn_grid(p, ranges, qi, k) ==
    LET search[r \in 0..GridSide] ==
            IF r = 0 THEN [best |-> [i \in 1..k |-> kFarthest], done |-> FALSE]
            ELSE LET prev == search[r - 1]
                     js == UNION {ranges[cell] : cell \in CellsAround(p[qi], CellShell(r))}
                     best == VisitPoints(p, qi, prev.best, js)
                     outside == \A axis \in 1..3 : CellAt(p[qi])[axis] - r < 0 /\ CellAt(p[qi])[axis] + r >= GridSide
                 IN IF prev.done THEN prev ELSE [best |-> best, done |-> Enough(best, r) \/ outside]
    IN search[GridSide].best
k_knn_brute(p, qi, k) == VisitPoints(p, qi, [i \in 1..k |-> kFarthest], DOMAIN p)
\* The answers of all queries as terms: rank i of query q is distance d.
Answers(p, nq, best(_)) == UNION {{Term(q, q, best(q)[i], i) : i \in DOMAIN best(q)} : q \in nq}

\* The kernels, and the interleaving of the bits of a cell's place on each axis.
kGrid == 128
SpatialLaunches ==
    UNION {UNION {
        LET p == k_reorder(points, o)
            ranges == Ranges(p, codes)
            n == Len(points)
            brute(k) == LET best(q) == k_knn_brute(p, q, k) IN {<<t[2], t[3], t[4]>> : t \in Answers(p, Upto(n), best)}
            grid(k) == LET best(q) == k_knn_grid(p, ranges, q, k) IN Answers(p, Guarded(n, Block), best)
        IN {LaunchOf("k_morton", OneThreadEach(n, Block), Elementwise(n), n, n),
            LaunchOf("k_reorder", {Term(i, i, o[i], 0) : i \in Guarded(n, Block)},
                     {<<i, o[i], 0>> : i \in Upto(n)}, n, n),
            LaunchOf("k_count_neighbours", k_count_neighbours(p, ranges, Square(CellSize)),
                     AllNear(p, Square(CellSize)), n, n)}
           \cup {LaunchOf("k_knn_grid", grid(k), brute(k), n, kFarthest + 1) : k \in KnnSizes} :
        o \in Orders(points, codes)} : points \in PointSets, codes \in {Codes}}
    \cup {LaunchOf("morton_encode",
                   {Term(0, v, morton_encode(IF a = 0 THEN v ELSE 0, IF a = 1 THEN v ELSE 0, IF a = 2 THEN v ELSE 0), a) :
                        v \in Upto(kGrid), a \in 0..2},
                   {<<v, SumSet({((v \div 2^b) % 2) * 2^(3 * b + a) : b \in 0..9}), a>> : v \in Upto(kGrid), a \in 0..2},
                   kGrid, 2^30)}
=============================================================================
