---------------------------- MODULE KernelGrids ----------------------------
(***************************************************************************)
(* What a kernel launch computes, as a set of terms: worker w (a thread, a *)
(* warp or a block of the grid) uses input i for output o.  A kernel is    *)
(* right when its terms are those of the sequential loop it replaces, each *)
(* taken by exactly one worker: no output is missed at the end of a grid   *)
(* that does not divide the data, none is computed twice, no index leaves  *)
(* its array.  Values and weights are left out.                            *)
(***************************************************************************)
EXTENDS Integers, Sequences, FiniteSets

CONSTANTS
    Warp,    \* threads of a warp: 32
    Block,   \* threads of a block of a one-dimensional grid: 256 or 128
    TileX,   \* columns and rows of a block of a two-dimensional grid: 32 and 8
    TileY
ASSUME GridAssumption ==
    /\ {Warp, Block, TileX, TileY} \subseteq Nat \ {0}
    /\ Block % Warp = 0

\* The tag tells apart uses of one input: its place in a stencil or a sum.
Term(w, o, i, tag) == <<w, o, i, tag>>
CeilDiv(a, b) == (a + b - 1) \div b
Upto(n) == 0..(n - 1)
Clamp(v, lo, hi) == IF v < lo THEN lo ELSE IF v > hi THEN hi ELSE v

\* The threads of a grid of enough blocks of size T for n elements, by their
\* global index, and the ones the guard i < n lets through.
Threads(n, T) == Upto(CeilDiv(n, T) * T)
Guarded(n, T) == {i \in Threads(n, T) : i < n}
\* for (i = thread; i < n; i += stride) over a grid of g blocks.
Strided(n, g, T) ==
    {p \in Upto(g * T) \X Upto(n) : p[2] >= p[1] /\ (p[2] - p[1]) % (g * T) = 0}
\* The threads (x, y) of a two-dimensional grid that pass x < w and y < h.
Guarded2(w, h, tx, ty) ==
    {p \in Upto(CeilDiv(w, tx) * tx) \X Upto(CeilDiv(h, ty) * ty) : p[1] < w /\ p[2] < h}
Pixels(w, h) == Upto(w) \X Upto(h)

\* A launch: its terms, the terms of the sequential loop, and the sizes of the
\* arrays it writes and reads.
LaunchOf(name, terms, loop, outs, ins) ==
    <<name, terms, loop, outs, ins>>
Elementwise(n) == {<<i, i, 0>> : i \in Upto(n)}
OneThreadEach(n, T) == {Term(i, i, i, 0) : i \in Guarded(n, T)}

-----------------------------------------------------------------------------
VARIABLE launched     \* the launch that was made last
gridVars == <<launched>>
NoLaunch == LaunchOf("none", {}, {}, 0, 0)
GridInit == launched = NoLaunch
GridNext(Launches) == launched = NoLaunch /\ launched' \in Launches

\* Every kernel does the work of the loop it replaces, every piece of it once,
\* inside its arrays, for sizes below, at and above a multiple of the block.
KernelsMatchLoops ==
    LET terms == launched[2]  loop == launched[3]
    IN /\ {<<t[2], t[3], t[4]>> : t \in terms} = loop
       /\ Cardinality(terms) = Cardinality(loop)
       /\ \A t \in loop : t[1] \in Upto(launched[4]) /\ t[2] \in Upto(launched[5])
=============================================================================
