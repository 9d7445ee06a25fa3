------------------------------- MODULE Dbscan -------------------------------
(***************************************************************************)
(* SpatialIndex::dbscan of 04-spatial: clusters as the trees of a          *)
(* lock-free union-find that the threads of one kernel build together, and *)
(* the labels the next kernel and the host read from it.                   *)
(*                                                                         *)
(* Thread i of a kernel is point i of the Morton order.  find_root loads   *)
(* and stores parent[] without atomics while other threads do the same and *)
(* change roots with atomicCAS: a load returns any value the entry has     *)
(* held since the kernel began.  A load only ever has more outcomes as     *)
(* time passes, so the two loads of one round of find_root are one step.   *)
(*                                                                         *)
(* Geometry is left to the relation near: who lies within eps of whom, a   *)
(* point of itself too.  A thread visits its neighbours in an order that   *)
(* the cells decide, here any order.                                       *)
(***************************************************************************)
EXTENDS Integers, FiniteSets

CONSTANTS
    NumPoints,  \* impl_->n
    Nears,      \* neighbour relations of the point sets considered
    MinPts      \* values of min_pts that callers pass

Points == 0 .. NumPoints - 1
kNoise == -1

ASSUME DbscanAssumption ==
    /\ NumPoints \in Nat /\ MinPts \subseteq Int
    /\ Nears \subseteq SUBSET (Points \X Points)
    /\ \A r \in Nears : \A i, j \in Points : <<i, i>> \in r /\ (<<i, j>> \in r => <<j, i>> \in r)

VARIABLES
    near,       \* the points of the index
    phase,      \* "idle", or the kernel that runs: "union", "attach"; "done"
    isCore,     \* points marked by k_mark_core
    parent,     \* d_parent
    seen,       \* seen[x]: what a load of parent[x] may return
    pc,         \* of each thread: "visit", "root", "halve", "cas", "done"
    left,       \* neighbours the thread has still to visit
    want,       \* the neighbour it is uniting its point with
    node,       \* a and b of unite(), the cursors of its two find_root calls
    side,       \* which of the two calls runs
    up,         \* parent[parent[i]] as loaded
    label,      \* d_label
    labels      \* res.labels with the permutation they went through

vars == <<near, phase, isCore, parent, seen, pc, left, want, node, side, up, label, labels>>

NoResult == [perm |-> [i \in Points |-> i], of |-> [i \in Points |-> kNoise], clusters |-> 0]

Init ==
    /\ near \in Nears
    /\ phase = "idle"
    /\ isCore = {}
    /\ parent = [x \in Points |-> x]
    /\ seen = [x \in Points |-> {x}]
    /\ pc = [i \in Points |-> "done"]
    /\ left = [i \in Points |-> {}]
    /\ want = [i \in Points |-> i]
    /\ node = [i \in Points |-> [s \in 1 .. 2 |-> i]]
    /\ side = [i \in Points |-> 1]
    /\ up = [i \in Points |-> i]
    /\ label = [i \in Points |-> kNoise]
    /\ labels = NoResult

\* A kernel has returned: its threads have no local variables any more.
ThreadsGone ==
    /\ want' = [i \in Points |-> i]
    /\ node' = [i \in Points |-> [s \in 1 .. 2 |-> i]]
    /\ side' = [i \in Points |-> 1]
    /\ up' = [i \in Points |-> i]

Neighbours(i) == {j \in Points : <<i, j>> \in near}
CoreNear(i, j) == i \in isCore /\ j \in isCore /\ <<i, j>> \in near

\* k_count_neighbours and k_mark_core.
Core(m) == {i \in Points : Cardinality(Neighbours(i)) >= m}

\* A call of dbscan() up to the launch of k_union_cores: each thread of the
\* kernels before it writes its own entry only.
Begin(m) ==
    /\ phase \in {"idle", "done"}
    /\ phase' = "union"
    /\ isCore' = Core(m)
    /\ parent' = [x \in Points |-> x]
    /\ seen' = [x \in Points |-> {x}]
    /\ pc' = [i \in Points |-> "visit"]
    /\ left' = [i \in Points |-> {j \in Core(m) : i \in Core(m) /\ j > i /\ <<i, j>> \in near}]
    /\ labels' = NoResult
    /\ UNCHANGED <<near, want, node, side, up, label>>

\* k_union_cores: unite(parent, i, j) is called for the next neighbour.
Visit(i) ==
    /\ phase = "union" /\ pc[i] = "visit"
    /\ \E j \in left[i] :
          /\ left' = [left EXCEPT ![i] = @ \ {j}]
          /\ want' = [want EXCEPT ![i] = j]
          /\ node' = [node EXCEPT ![i] = [s \in 1 .. 2 |-> IF s = 1 THEN i ELSE j]]
    /\ side' = [side EXCEPT ![i] = 1]
    /\ pc' = [pc EXCEPT ![i] = "root"]
    /\ UNCHANGED <<near, phase, isCore, parent, seen, up, label, labels>>

\* find_root: the loads of one round, when the cursor is not at a root.
Climb(i) ==
    LET c == node[i][side[i]] IN
    /\ pc[i] = "root"
    /\ \E p \in seen[c] \ {c} : \E g \in seen[p] : up' = [up EXCEPT ![i] = g]
    /\ pc' = [pc EXCEPT ![i] = "halve"]
    /\ UNCHANGED <<near, phase, isCore, parent, seen, left, want, node, side, label, labels>>

\* find_root: path halving, and the cursor moves to what parent[i] now holds:
\* what the thread stored or another thread after it, at any rate not itself.
Halve(i) ==
    LET c == node[i][side[i]] IN
    /\ pc[i] = "halve"
    /\ parent' = [parent EXCEPT ![c] = up[i]]
    /\ seen' = [seen EXCEPT ![c] = @ \cup {up[i]}]
    /\ \E x \in seen'[c] \ {c} : node' = [node EXCEPT ![i][side[i]] = x]
    /\ pc' = [pc EXCEPT ![i] = "root"]
    /\ UNCHANGED <<near, phase, isCore, left, want, side, up, label, labels>>

\* find_root returns in unite: of a, of b, and of b when it is equal to a.
UniteRoot(i) ==
    /\ phase = "union" /\ pc[i] = "root"
    /\ node[i][side[i]] \in seen[node[i][side[i]]]
    /\ \/ side[i] = 1 /\ side' = [side EXCEPT ![i] = 2] /\ UNCHANGED pc
       \/ side[i] = 2 /\ pc' = [pc EXCEPT ![i] = IF node[i][1] = node[i][2] THEN "visit" ELSE "cas"]
                      /\ UNCHANGED side
    /\ UNCHANGED <<near, phase, isCore, parent, seen, left, want, node, up, label, labels>>

\* Mutant: the higher root is written without looking whether it still is one.
LinkBlindly(i) ==
    LET lo == IF node[i][1] < node[i][2] THEN node[i][1] ELSE node[i][2]
        hi == IF node[i][1] < node[i][2] THEN node[i][2] ELSE node[i][1]
    IN
    /\ pc[i] = "cas"
    /\ parent' = [parent EXCEPT ![hi] = lo]
    /\ seen' = [seen EXCEPT ![hi] = @ \cup {lo}]
    /\ pc' = [pc EXCEPT ![i] = "visit"]
    /\ UNCHANGED <<near, phase, isCore, left, want, node, side, up, label, labels>>

\* Mutant: a CAS that fails is repeated with the same roots.
LinkAgain(i) ==
    LET lo == IF node[i][1] < node[i][2] THEN node[i][1] ELSE node[i][2]
        hi == IF node[i][1] < node[i][2] THEN node[i][2] ELSE node[i][1]
    IN
    /\ pc[i] = "cas"
    /\ \/ /\ parent[hi] = hi
          /\ parent' = [parent EXCEPT ![hi] = lo]
          /\ seen' = [seen EXCEPT ![hi] = @ \cup {lo}]
          /\ pc' = [pc EXCEPT ![i] = "visit"]
       \/ parent[hi] # hi /\ UNCHANGED <<parent, seen, pc>>
    /\ UNCHANGED <<near, phase, isCore, left, want, node, side, up, label, labels>>

\* unite: the higher root is attached to the lower, or both are searched again.
Link(i) ==
    LET lo == IF node[i][1] < node[i][2] THEN node[i][1] ELSE node[i][2]
        hi == IF node[i][1] < node[i][2] THEN node[i][2] ELSE node[i][1]
    IN
    /\ pc[i] = "cas"
    /\ \/ /\ parent[hi] = hi
          /\ parent' = [parent EXCEPT ![hi] = lo]
          /\ seen' = [seen EXCEPT ![hi] = @ \cup {lo}]
          /\ pc' = [pc EXCEPT ![i] = "visit"]
          /\ UNCHANGED <<node, side>>
       \/ /\ parent[hi] # hi
          /\ node' = [node EXCEPT ![i] = [s \in 1 .. 2 |-> IF s = 1 THEN lo ELSE hi]]
          /\ side' = [side EXCEPT ![i] = 1]
          /\ pc' = [pc EXCEPT ![i] = "root"]
          /\ UNCHANGED <<parent, seen>>
    /\ UNCHANGED <<near, phase, isCore, left, want, up, label, labels>>

\* Every thread of k_union_cores has returned; k_attach_border is launched.
Attach ==
    /\ phase = "union"
    /\ \A i \in Points : pc[i] = "visit" /\ left[i] = {}
    /\ phase' = "attach"
    /\ seen' = [x \in Points |-> {parent[x]}]
    /\ ThreadsGone
    /\ UNCHANGED <<near, isCore, parent, pc, left, label, labels>>

\* k_attach_border: a core point looks for its own root, another one for that
\* of the first core point it finds near, if there is one.
Border(i) ==
    LET from == IF i \in isCore THEN {i} ELSE {j \in isCore : <<i, j>> \in near} IN
    /\ phase = "attach" /\ pc[i] = "visit"
    /\ \/ /\ \E j \in from : /\ want' = [want EXCEPT ![i] = j]
                             /\ node' = [node EXCEPT ![i] = [s \in 1 .. 2 |-> j]]
          /\ side' = [side EXCEPT ![i] = 1]
          /\ pc' = [pc EXCEPT ![i] = "root"]
          /\ UNCHANGED label
       \/ /\ from = {}
          /\ label' = [label EXCEPT ![i] = kNoise]
          /\ pc' = [pc EXCEPT ![i] = "done"]
          /\ UNCHANGED <<want, node, side>>
    /\ UNCHANGED <<near, phase, isCore, parent, seen, left, up, labels>>

\* find_root returns in k_attach_border.
LabelRoot(i) ==
    /\ phase = "attach" /\ pc[i] = "root"
    /\ node[i][1] \in seen[node[i][1]]
    /\ label' = [label EXCEPT ![i] = node[i][1]]
    /\ pc' = [pc EXCEPT ![i] = "done"]
    /\ UNCHANGED <<near, phase, isCore, parent, seen, left, want, node, side, up, labels>>

\* Mutant: the labels are returned in Morton order.
InMortonOrder(perm) == label

\* sorted_labels scattered through the permutation of the build.
Scatter(perm) == [o \in Points |-> label[CHOOSE i \in Points : perm[i] = o]]

\* The host: roots become dense cluster ids.  The permutation is that of the
\* build, which nothing before this looks at.
Collect ==
    /\ phase = "attach"
    /\ \A i \in Points : pc[i] = "done"
    /\ LET roots == {label[i] : i \in Points} \ {kNoise}
           dense(l) == IF l = kNoise THEN kNoise ELSE Cardinality({r \in roots : r < l})
       IN  \E perm \in [Points -> Points] :
              /\ \A i, j \in Points : perm[i] = perm[j] => i = j
              /\ labels' = [perm |-> perm,
                            of |-> [o \in Points |-> dense(Scatter(perm)[o])],
                            clusters |-> Cardinality(roots)]
    /\ phase' = "done"
    /\ ThreadsGone
    /\ label' = [i \in Points |-> kNoise]
    /\ UNCHANGED <<near, isCore, parent, seen, pc, left>>

ThreadStep(i) ==
    Visit(i) \/ Climb(i) \/ Halve(i) \/ UniteRoot(i) \/ Link(i) \/ Border(i) \/ LabelRoot(i)
Next ==
    \/ \E m \in MinPts : Begin(m)
    \/ \E i \in Points : ThreadStep(i)
    \/ Attach \/ Collect

Spec == Init /\ [][Next]_vars

\* The device runs every thread of a kernel, and a load that is repeated does
\* not return an old value for ever.
FreshClimb(i) ==
    LET c == node[i][side[i]] IN Climb(i) /\ up'[i] = parent[parent[c]]
Fairness ==
    /\ \A i \in Points : WF_vars(ThreadStep(i)) /\ SF_vars(FreshClimb(i))
    /\ WF_vars(Attach) /\ WF_vars(Collect)

-----------------------------------------------------------------------------
TypeOK ==
    /\ near \in Nears
    /\ phase \in {"idle", "union", "attach", "done"}
    /\ isCore \in SUBSET Points
    /\ parent \in [Points -> Points]
    /\ seen \in [Points -> SUBSET Points]
    /\ pc \in [Points -> {"visit", "root", "halve", "cas", "done"}]
    /\ left \in [Points -> SUBSET Points]
    /\ want \in [Points -> Points]
    /\ node \in [Points -> [1 .. 2 -> Points]]
    /\ side \in [Points -> 1 .. 2]
    /\ up \in [Points -> Points]

\* A set of points that no cluster crosses, and one that no tree crosses.
WholeClusters(S) == \A i, j \in Points : CoreNear(i, j) => (i \in S <=> j \in S)
WholeTrees(S) == \A x \in Points : x \in S <=> parent[x] \in S

\* A pair of neighbours whose unite has returned stays in one tree, whatever
\* halving stores and failed CAS come after.
United(i, j) ==
    /\ CoreNear(i, j) /\ i < j
    /\ phase = "union" => j \notin left[i] /\ (pc[i] # "visit" => want[i] # j)
NoUnionLost ==
    \A i, j \in Points : United(i, j) =>
        \A S \in SUBSET Points : WholeTrees(S) => (i \in S <=> j \in S)

\* Sets that no link of a point below x crosses; y and z are connected by such
\* links just when no such set separates them.
ClosedBelow(par, S, x) == \A z \in Points : z < x => (z \in S <=> par[z] \in S)
SameBelow(par, x, y, z) ==
    \A S \in SUBSET Points : ClosedBelow(par, S, x) => (y \in S <=> z \in S)

\* Links lead to lower points, and a point that is a root has always been one.
LinksDescend ==
    \A x \in Points :
        /\ parent[x] \in seen[x]
        /\ \A y \in seen[x] : y <= x
        /\ parent[x] = x => seen[x] = {x}

\* Every parent that x has had is connected with its present one by links of
\* points below x: storing it again cuts nothing off.
OldLinksHarmless ==
    \A x \in Points : \A y \in seen[x] : y # x => SameBelow(parent, x, y, parent[x])

\* So is the grandparent that a thread is about to store.
StoreHarmless(i) ==
    pc[i] = "halve" =>
        LET c == node[i][side[i]] IN
        parent[c] # c /\ up[i] < c /\ SameBelow(parent, c, up[i], parent[c])
StoresHarmless == \A i \in Points : StoreHarmless(i)

\* A unite at work: joining the points its cursors are at joins its pair, and
\* they are in the cluster of the pair.
OnTrack(i) ==
    /\ phase # "union" => pc[i] # "cas"
    /\ phase = "union" =>
          /\ \A j \in left[i] : CoreNear(i, j)
          /\ pc[i] = "cas" => node[i][1] # node[i][2]
          /\ pc[i] # "visit" =>
                /\ CoreNear(i, want[i])
                /\ \A S \in SUBSET Points :
                      /\ WholeClusters(S) => (node[i][1] \in S <=> node[i][2] \in S)
                      /\ WholeTrees(S) /\ (node[i][1] \in S <=> node[i][2] \in S)
                            => (i \in S <=> want[i] \in S)
UnitesOnTrack == \A i \in Points : OnTrack(i)

\* A load never leads from one cluster into another.
LoadsInCluster ==
    \A S \in SUBSET Points : WholeClusters(S) =>
        \A x \in Points : \A y \in seen[x] : x \in S <=> y \in S

\* The plain loads and stores of find_root do no harm to the unites: at every
\* point of the kernels trees lie within clusters, and a union that has been
\* made stays made.
ForestInv ==
    /\ TypeOK /\ LinksDescend /\ OldLinksHarmless /\ StoresHarmless
    /\ UnitesOnTrack /\ LoadsInCluster /\ NoUnionLost

\* When k_union_cores has ended the trees are exactly the clusters.
TreesAreClusters ==
    phase \in {"attach", "done"} =>
        \A S \in SUBSET Points : WholeTrees(S) <=> WholeClusters(S)

\* What dbscan() returns, indexed like the caller's points: core points share a
\* label just when they are in one cluster, a border point has the label of a
\* core point near it, the others are noise, and labels are dense.
DbscanCorrect ==
    phase = "done" =>
        LET orig(i) == labels.perm[i]
            of(i) == labels.of[orig(i)]
        IN
        /\ \A i, j \in isCore :
              of(i) = of(j) <=> \A S \in SUBSET Points : WholeClusters(S) => (i \in S <=> j \in S)
        /\ \A i \in Points \ isCore :
              LET cores == {j \in isCore : <<i, j>> \in near}
              IN  IF cores = {} THEN of(i) = kNoise ELSE \E j \in cores : of(i) = of(j)
        /\ {of(i) : i \in Points} \ {kNoise} = 0 .. labels.clusters - 1
=============================================================================
