------------------------------ MODULE MCKernels ------------------------------
(* Bounds of the run of the kernels: the union-find of 04-spatial and the    *)
(* relaxation of 08-graph, blocks that exchange values in shared memory, the *)
(* handshake of two blocks, the miner, the scanner, and the launches of all  *)
(* kernels whose threads work apart.  A behaviour is one of either.          *)
EXTENDS Dbscan, GraphSssp, PixelKernels, QuantKernels, SparseKernels, SpatialKernels,
        ArrayKernels, BlockKernels, FenceHandshake, NonceMiner, DpiScan

Pairs == {p \in Points \X Points : p[1] < p[2]}
\* Neighbour relations with at most three pairs of neighbours.
SparseNears ==
    {{<<i, i>> : i \in Points} \cup E \cup {<<p[2], p[1]>> : p \in E} :
        E \in {F \in SUBSET Pairs : Cardinality(F) <= 3}}

\* A short cut, a cycle with an edge of weight 0, and a chain against the order
\* of the nodes with a node that cannot be reached.
BackwardChain == {<<3, 2, 1>>, <<2, 1, 1>>, <<1, 3, 1>>, <<3, 1, 3>>}
SomeGraphs == {
    {<<0, 1, 1>>, <<1, 2, 1>>, <<2, 3, 1>>, <<0, 2, 3>>, <<0, 3, 4>>},
    {<<0, 1, 2>>, <<1, 2, 0>>, <<2, 0, 1>>, <<2, 1, 0>>, <<0, 3, 5>>, <<2, 3, 1>>},
    BackwardChain}

\* Sizes below, at and above a multiple of the block.
SomeImages == {<<1, 1>>, <<3, 2>>, <<5, 3>>, <<4, 4>>, <<6, 5>>}
SomeProducts == {<<1, 1, 1>>, <<2, 3, 3>>, <<3, 2, 2>>, <<5, 5, 1>>}
SomeHeads == {<<1, 2>>, <<2, 4>>, <<2, 2>>}
\* Empty rows, one long row, entries out of order and entries given twice.
SomeMatrices == {
    <<1, <<>> >>,
    <<2, << <<0, 0>>, <<1, 0>>, <<1, 1>>, <<1, 0>> >> >>,
    <<3, << <<2, 0>>, <<0, 1>>, <<2, 2>>, <<2, 1>>, <<0, 1>>, <<2, 0>> >> >>,
    <<5, << <<4, 0>>, <<0, 4>>, <<4, 4>>, <<1, 3>>, <<4, 1>>, <<3, 4>>, <<4, 2>> >> >>}
\* Points outside of the grid, and a neighbour two rings away that is nearer than
\* one in the first ring.
SomePoints == {
    <<>>, << <<3, 3, 3>>, <<4, 3, 3>>, <<3, 5, 3>>, <<-1, 3, 3>> >>,
    << <<1, 1, 1>>, <<3, 3, 3>>, <<4, 1, 1>>, <<9, 1, 1>> >>}
\* Shorter than a frame, with a tail that no frame covers, faster and slower.
SomeSignals == {<<3, 4, 2, 2>>, <<9, 4, 2, 2>>, <<8, 4, 1, 2>>, <<10, 4, 4, 2>>}
AllLaunches ==
    PixelLaunches \cup QuantLaunches \cup SparseLaunches \cup SpatialLaunches
    \cup WarpLaunches \cup AudioLaunches

\* Patterns that are suffixes of each other, and one that is there twice.
SomePatterns == {<< <<1>>, <<1, 2>>, <<2, 1, 2>> >>, << <<1, 2, 1>>, <<2, 1>>, <<1>>, <<2, 1>> >>}
SomePackets == {<<>>, << <<>>, <<1>> >>, << <<1, 2, 1, 2>>, <<2, 1>> >>, << <<2, 1, 2, 1>>, <<1, 1, 2>> >>}

CONSTANTS l1, l2
TwoLanes == {l1, l2}

VARIABLE kernel
kernelVars == <<kernel, vars, ssspVars, gridVars, blockVars, fenceVars, minerVars, dpiVars>>
KernelsInit ==
    /\ kernel \in {"dbscan", "sssp", "grid", "block", "fence", "miner", "dpi"}
    /\ Init /\ (kernel # "dbscan" => near = {<<i, i>> : i \in Points})
    /\ SsspInit /\ (kernel # "sssp" => edges = BackwardChain /\ source = 0)
    /\ GridInit /\ BlockInit /\ FenceInit /\ MinerInit /\ DpiInit
KernelsNext ==
    /\ UNCHANGED kernel
    /\ \/ /\ kernel = "dbscan" /\ Next
          /\ UNCHANGED <<ssspVars, gridVars, blockVars, fenceVars, minerVars, dpiVars>>
       \/ /\ kernel = "sssp" /\ SsspNext
          /\ UNCHANGED <<vars, gridVars, blockVars, fenceVars, minerVars, dpiVars>>
       \/ /\ kernel = "grid" /\ GridNext(AllLaunches)
          /\ UNCHANGED <<vars, ssspVars, blockVars, fenceVars, minerVars, dpiVars>>
       \/ /\ kernel = "block" /\ BlockNext
          /\ UNCHANGED <<vars, ssspVars, gridVars, fenceVars, minerVars, dpiVars>>
       \/ /\ kernel = "fence" /\ FenceNext
          /\ UNCHANGED <<vars, ssspVars, gridVars, blockVars, minerVars, dpiVars>>
       \/ /\ kernel = "miner" /\ MinerNext
          /\ UNCHANGED <<vars, ssspVars, gridVars, blockVars, fenceVars, dpiVars>>
       \/ /\ kernel = "dpi" /\ DpiNext
          /\ UNCHANGED <<vars, ssspVars, gridVars, blockVars, fenceVars, minerVars>>
\* A kernel that does not run has no fair action enabled.
KernelsSpec ==
    /\ KernelsInit /\ [][KernelsNext]_kernelVars
    /\ Fairness /\ SsspFairness /\ BlockFairness /\ FenceFairness /\ MinerFairness /\ DpiFairness

\* Every kernel comes to its end: threads that lose a CAS do not keep each other
\* busy, rounds stop changing distances, no barrier waits for a warp that never
\* reaches it, no spin loop for a flag that never changes, and no thread for the
\* winner of a race.
InKernel ==
    \/ phase \in {"union", "attach"} \/ stage = "relax"
    \/ \E r \in Runners : code[r] # <<>>
    \/ prod.pc # "idle" /\ ~HandshakeOver
    \/ Mining \/ Scanning
KernelsReturn == InKernel ~> ~InKernel
=============================================================================
