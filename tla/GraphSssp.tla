------------------------------ MODULE GraphSssp ------------------------------
(***************************************************************************)
(* GraphEngine::sssp of 08-graph: rounds of one kernel that relaxes every  *)
(* edge in place with atomicMin, until a round reports no change or as     *)
(* many rounds have run as there are nodes.                                *)
(*                                                                         *)
(* A lane loads dist[u] without atomics while others lower it: it gets any *)
(* value held since the launch.  Later loads have more outcomes than       *)
(* earlier ones, so the load and the atomicMin of an edge are one step.    *)
(* Weights are natural numbers; the code takes them to be non-negative.    *)
(***************************************************************************)
EXTENDS Integers, FiniteSets, FiniteSetsExt

CONSTANTS
    NumNodes,       \* impl_->n
    Unreachable,    \* kUnreachable, above the length of every path
    Graphs          \* sets of edges <<u, v, w>>; unit weights if there are none

Nodes == 0 .. NumNodes - 1

ASSUME SsspAssumption ==
    /\ NumNodes \in Nat \ {0} /\ Unreachable \in Nat \ {0}
    /\ Graphs \subseteq SUBSET (Nodes \X Nodes \X Nat)

VARIABLES
    edges,      \* d_out_off, d_out_idx, d_w
    source,     \* argument of the call
    stage,      \* "idle", "relax" while a kernel runs, "done"
    dist,       \* d_a
    held,       \* held[u]: what a load of dist[u] may return
    todo,       \* edges the kernel has still to relax
    changed,    \* d_flag
    it          \* rounds completed that changed something

ssspVars == <<edges, source, stage, dist, held, todo, changed, it>>

SsspInit ==
    /\ edges \in Graphs
    /\ source \in Nodes
    /\ stage = "idle"
    /\ dist = [v \in Nodes |-> Unreachable]
    /\ held = [v \in Nodes |-> {Unreachable}]
    /\ todo = {} /\ changed = FALSE
    /\ it = 0

\* The call up to the launch of the first round.
SsspBegin(s) ==
    /\ stage \in {"idle", "done"}
    /\ source' = s
    /\ stage' = "relax"
    /\ dist' = [v \in Nodes |-> IF v = s THEN 0 ELSE Unreachable]
    /\ held' = [v \in Nodes |-> {dist'[v]}]
    /\ todo' = edges /\ changed' = FALSE
    /\ it' = 0
    /\ UNCHANGED edges

\* Mutant: dist[v] is stored, not lowered with atomicMin, after the comparison.
RelaxStore(e) ==
    /\ stage = "relax" /\ e \in todo
    /\ todo' = todo \ {e}
    /\ \E du \in held[e[1]], dv \in held[e[2]] :
          IF du < Unreachable /\ dv > du + e[3]
          THEN /\ dist' = [dist EXCEPT ![e[2]] = du + e[3]]
               /\ held' = [held EXCEPT ![e[2]] = @ \cup {du + e[3]}]
               /\ changed' = TRUE
          ELSE UNCHANGED <<dist, held, changed>>
    /\ UNCHANGED <<edges, source, stage, it>>

\* k_relax_warp for one edge.
Relax(e) ==
    /\ stage = "relax" /\ e \in todo
    /\ todo' = todo \ {e}
    /\ \E du \in held[e[1]] :
          IF du < Unreachable /\ dist[e[2]] > du + e[3]
          THEN /\ dist' = [dist EXCEPT ![e[2]] = du + e[3]]
               /\ held' = [held EXCEPT ![e[2]] = @ \cup {du + e[3]}]
               /\ changed' = TRUE
          ELSE UNCHANGED <<dist, held, changed>>
    /\ UNCHANGED <<edges, source, stage, it>>

\* The host reads the flag: out of the loop, or the next round, or out because
\* the rounds are used up.
RoundEnd ==
    /\ stage = "relax" /\ todo = {}
    /\ \/ /\ ~changed
          /\ stage' = "done"
          /\ UNCHANGED <<held, todo, changed, it>>
       \/ /\ changed
          /\ it' = it + 1
          /\ IF it' < NumNodes
             THEN /\ held' = [v \in Nodes |-> {dist[v]}]
                  /\ todo' = edges /\ changed' = FALSE
                  /\ UNCHANGED stage
             ELSE stage' = "done" /\ UNCHANGED <<held, todo, changed>>
    /\ UNCHANGED <<edges, source, dist>>

SsspNext ==
    \/ \E s \in Nodes : SsspBegin(s)
    \/ \E e \in todo : Relax(e)
    \/ RoundEnd

SsspSpec == SsspInit /\ [][SsspNext]_ssspVars
SsspFairness == WF_ssspVars(RoundEnd \/ \E e \in todo : Relax(e))

-----------------------------------------------------------------------------
\* Reference: the least length over paths from s to v of at most k edges.
Reach(s) ==
    LET upTo[k \in 0 .. NumNodes - 1] ==
            IF k = 0 THEN [v \in Nodes |-> IF v = s THEN 0 ELSE Unreachable]
            ELSE [v \in Nodes |->
                    Min({upTo[k-1][v]} \cup
                        {upTo[k-1][e[1]] + e[3] : e \in {f \in edges :
                            f[2] = v /\ upTo[k-1][f[1]] < Unreachable}})]
    IN  upTo

\* After k rounds every node whose best path has at most k edges is settled, and
\* no distance is ever less than the best one.  The loop is left because nothing
\* changed, never because the rounds ran out, and then the distances are exact.
SsspExact ==
    /\ stage # "idle" => \A v \in Nodes :
         /\ dist[v] <= Reach(source)[Min({it, NumNodes - 1})][v]
         /\ dist[v] >= Reach(source)[NumNodes - 1][v]
    /\ stage = "done" => ~changed /\ \A v \in Nodes : dist[v] = Reach(source)[NumNodes - 1][v]
=============================================================================
