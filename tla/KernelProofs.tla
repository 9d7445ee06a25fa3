---------------------------- MODULE KernelProofs ----------------------------
(***************************************************************************)
(* Kernels.  Two in which every thread works on the same graph at once and *)
(* loads what others may have overwritten: the union-find of 04-spatial    *)
(* and the relaxation of 08-graph.  One in which every thread walks the    *)
(* same automaton: the scanner of 10-dpi-matching.  The ones whose threads *)
(* exchange data through the shared memory of their block.  And the ones   *)
(* on images, whose threads work apart.                                    *)
(***************************************************************************)
EXTENDS Dbscan, GraphSssp, DpiScan, SharedMemory, PixelKernels, CountingLemmas

-----------------------------------------------------------------------------
(***************************************************************************)
(* The lock-free union-find of k_union_cores is correct for every number   *)
(* of points, whatever the threads' interleaving and however old the       *)
(* values that plain loads return.                                         *)
(*                                                                         *)
(* Trees and clusters are compared through the sets they do not cross,     *)
(* which takes no induction over paths.  The heart of the argument is      *)
(* ForestGrows: a store of path halving, or a successful CAS, leaves every *)
(* pair of points connected that was connected before it, because a value  *)
(* that parent[x] has once held is connected with the present one by links *)
(* of points below x alone (OldLinksHarmless).                             *)
(***************************************************************************)

\* par2 connects at least what par does, below every point.
ForestGrows(par, par2) ==
    \A S \in SUBSET Points : \A x \in Int : ClosedBelow(par2, S, x) => ClosedBelow(par, S, x)

\* Points are integers.
LEMMA PointsInt == Points \subseteq Int
BY DbscanAssumption DEF Points

\* A set that no tree crosses is closed below any point.
LEMMA WholeTreesClosed ==
    ASSUME NEW S \in SUBSET Points, NEW x, WholeTrees(S)
    PROVE  ClosedBelow(parent, S, x)
BY DEF WholeTrees, ClosedBelow

\* A set that is closed below a point is closed below a lower one.
LEMMA ClosedBelowLower ==
    ASSUME NEW par, NEW S \in SUBSET Points, NEW x \in Points, NEW y \in Points, y <= x,
           ClosedBelow(par, S, x)
    PROVE  ClosedBelow(par, S, y)
BY PointsInt DEF ClosedBelow

\* A successful atomicCAS on a root only adds connections.
LEMMA LinkGrows ==
    ASSUME NEW par \in [Points -> Points], NEW hi \in Points, NEW lo \in Points, par[hi] = hi
    PROVE  ForestGrows(par, [par EXCEPT ![hi] = lo])
BY DEF ForestGrows, ClosedBelow

\* A halving store to c keeps all connections if the new parent is connected
\* with the old one below c.
LEMMA HalveGrows ==
    ASSUME NEW par \in [Points -> Points], NEW c \in Points, NEW u \in Points,
           SameBelow(par, c, u, par[c])
    PROVE  ForestGrows(par, [par EXCEPT ![c] = u])
<1> DEFINE par2 == [par EXCEPT ![c] = u]
<1> SUFFICES ASSUME NEW S \in SUBSET Points, NEW x \in Int, ClosedBelow(par2, S, x),
                    NEW z \in Points, z < x
             PROVE  z \in S <=> par[z] \in S
  BY DEF ForestGrows, ClosedBelow
<1>1. CASE z # c
  BY <1>1 DEF ClosedBelow
<1>2. CASE z = c
  <2>1. ClosedBelow(par, S, c)
    BY <1>2, PointsInt DEF ClosedBelow
  <2>2. u \in S <=> par[c] \in S
    BY <2>1 DEF SameBelow
  <2>3. c \in S <=> u \in S
    BY <1>2 DEF ClosedBelow
  <2> QED BY <1>2, <2>2, <2>3
<1> QED BY <1>1, <1>2

\* Connections that hold below x survive a growing forest, also if what is
\* compared with is an other point connected with it.
LEMMA SameBelowGrows ==
    ASSUME NEW par, NEW par2, ForestGrows(par, par2), NEW x \in Points,
           NEW y, NEW z, SameBelow(par, x, y, z)
    PROVE  SameBelow(par2, x, y, z)
BY PointsInt DEF SameBelow, ForestGrows

\* Two points connected below x with a third are connected with each other.
LEMMA SameBelowMeet ==
    ASSUME NEW par, NEW x, NEW y, NEW z, NEW w,
           SameBelow(par, x, y, w), SameBelow(par, x, z, w)
    PROVE  SameBelow(par, x, y, z)
BY DEF SameBelow

\* No tree crosses a set after a step that makes the forest grow: then none did
\* before it.
LEMMA WholeTreesGrow ==
    ASSUME TypeOK, TypeOK', ForestGrows(parent, parent'),
           NEW S \in SUBSET Points, WholeTrees(S)'
    PROVE  WholeTrees(S)
<1>1. ClosedBelow(parent', S, NumPoints)
  BY DEF WholeTrees, ClosedBelow
<1>2. ClosedBelow(parent, S, NumPoints)
  BY <1>1, DbscanAssumption DEF ForestGrows
<1> QED BY <1>2, DbscanAssumption DEF ClosedBelow, WholeTrees, Points

\* Clusters do not change while the kernels run.
LEMMA ClustersStay ==
    ASSUME UNCHANGED <<near, isCore>>, NEW S
    PROVE  /\ WholeClusters(S)' <=> WholeClusters(S)
           /\ \A i, j : CoreNear(i, j)' <=> CoreNear(i, j)
BY DEF WholeClusters, CoreNear

\* What a climbing thread has loaded is harmless to store.
LEMMA ClimbHarmless ==
    ASSUME TypeOK, LinksDescend, OldLinksHarmless,
           NEW c \in Points, NEW p \in seen[c] \ {c}, NEW g \in seen[p]
    PROVE  /\ g \in Points /\ parent[c] # c /\ g < c
           /\ SameBelow(parent, c, g, parent[c])
<1>1. p \in Points /\ g \in Points /\ p < c /\ g <= p /\ g < c /\ parent[c] # c
  BY PointsInt DEF TypeOK, LinksDescend
<1> SUFFICES ASSUME NEW S \in SUBSET Points, ClosedBelow(parent, S, c)
             PROVE  g \in S <=> parent[c] \in S
  BY <1>1, Zenon DEF SameBelow
<1>3. p \in S <=> parent[c] \in S
  BY DEF OldLinksHarmless, SameBelow
<1>4. CASE g = p
  BY <1>3, <1>4
<1>5. CASE g # p
  <2>0. p <= c
    BY <1>1, PointsInt
  <2>1. ClosedBelow(parent, S, p)
    BY <1>1, <2>0, ClosedBelowLower
  <2>2. g \in S <=> parent[p] \in S
    BY <1>1, <1>5, <2>1 DEF OldLinksHarmless, SameBelow
  <2>3. p \in S <=> parent[p] \in S
    BY <1>1 DEF ClosedBelow
  <2> QED BY <1>3, <2>2, <2>3
<1> QED BY <1>4, <1>5

\* A store of u to parent[c], by path halving or by a CAS on a root, keeps what
\* the invariant says of the links, and of what other threads are to store.
LEMMA StoreKeepsLinks ==
    ASSUME ForestInv, TypeOK', UNCHANGED <<near, isCore>>,
           NEW c \in Points, NEW u \in Points, u < c,
           parent' = [parent EXCEPT ![c] = u],
           seen' = [seen EXCEPT ![c] = @ \cup {u}],
           parent[c] = c \/ SameBelow(parent, c, u, parent[c]),
           \A S \in SUBSET Points : WholeClusters(S) => (c \in S <=> u \in S)
    PROVE  /\ ForestGrows(parent, parent')
           /\ LinksDescend' /\ OldLinksHarmless' /\ LoadsInCluster'
           /\ \A x \in Points : \A v \in Points :
                 parent[x] # x /\ v < x /\ SameBelow(parent, x, v, parent[x])
                 => parent'[x] # x /\ SameBelow(parent', x, v, parent'[x])
<1>t. /\ parent \in [Points -> Points] /\ seen \in [Points -> SUBSET Points]
      /\ LinksDescend /\ OldLinksHarmless /\ LoadsInCluster
  BY DEF ForestInv, TypeOK
<1>1. ForestGrows(parent, parent')
  <2>1. CASE parent[c] = c
    BY <1>t, <2>1, LinkGrows
  <2>2. CASE SameBelow(parent, c, u, parent[c])
    BY <1>t, <2>2, HalveGrows
  <2> QED BY <2>1, <2>2
<1>2. LinksDescend'
  BY <1>t, PointsInt DEF LinksDescend
<1>3. OldLinksHarmless'
  <2> SUFFICES ASSUME NEW x \in Points, NEW y \in seen'[x], y # x
               PROVE  SameBelow(parent', x, y, parent'[x])
    BY DEF OldLinksHarmless
  <2>1. CASE x # c
    <3>1. y \in seen[x] /\ parent'[x] = parent[x]
      BY <1>t, <2>1
    <3>2. SameBelow(parent, x, y, parent[x])
      BY <1>t, <3>1 DEF OldLinksHarmless
    <3> QED BY <1>1, <3>1, <3>2, SameBelowGrows
  <2>2. CASE x = c /\ y = u
    BY <1>t, <2>2 DEF SameBelow
  <2>3. CASE x = c /\ y # u
    <3>1. y \in seen[c] /\ parent'[c] = u
      BY <1>t, <2>3
    <3>2. parent[c] # c
      BY <1>t, <2>3, <3>1 DEF LinksDescend
    <3>3. SameBelow(parent, c, y, parent[c])
      BY <1>t, <2>3, <3>1 DEF OldLinksHarmless
    <3>4. SameBelow(parent, c, y, u)
      BY <3>2, <3>3, SameBelowMeet
    <3> QED BY <1>1, <2>3, <3>1, <3>4, SameBelowGrows
  <2> QED BY <2>1, <2>2, <2>3
<1>4. LoadsInCluster'
  <2> SUFFICES ASSUME NEW S \in SUBSET Points, WholeClusters(S)',
                      NEW x \in Points, NEW y \in seen'[x]
               PROVE  x \in S <=> y \in S
    BY DEF LoadsInCluster
  <2>1. WholeClusters(S)
    BY ClustersStay
  <2>2. CASE y \in seen[x]
    BY <1>t, <2>1, <2>2 DEF LoadsInCluster
  <2>3. CASE y \notin seen[x]
    <3>1. x = c /\ y = u
      BY <1>t, <2>3
    <3> QED BY <2>1, <3>1
  <2> QED BY <2>2, <2>3
<1>5. ASSUME NEW x \in Points, NEW v \in Points, parent[x] # x, v < x,
             SameBelow(parent, x, v, parent[x])
      PROVE  parent'[x] # x /\ SameBelow(parent', x, v, parent'[x])
  <2>1. CASE x # c
    <3>1. parent'[x] = parent[x]
      BY <1>t, <2>1
    <3> QED BY <1>1, <1>5, <3>1, SameBelowGrows
  <2>2. CASE x = c
    <3>1. parent'[c] = u /\ u # c
      BY <1>t, PointsInt
    <3>2. SameBelow(parent, c, v, u)
      BY <1>5, <2>2, SameBelowMeet
    <3> QED BY <1>1, <2>2, <3>1, <3>2, SameBelowGrows
  <2> QED BY <2>1, <2>2
<1> QED BY <1>1, <1>2, <1>3, <1>4, <1>5

\* A step that leaves the forest alone keeps what is said of it.
LEMMA QuietKeepsLinks ==
    ASSUME ForestInv, UNCHANGED <<near, isCore, parent, seen>>
    PROVE  LinksDescend' /\ OldLinksHarmless' /\ LoadsInCluster'
<1>1. LinksDescend' /\ OldLinksHarmless'
  BY DEF ForestInv, LinksDescend, OldLinksHarmless
<1>2. LoadsInCluster'
  BY ClustersStay DEF ForestInv, LoadsInCluster
<1> QED BY <1>1, <1>2

\* Threads that do not move stay on track when the forest grows or stays.
LEMMA OthersOnTrack ==
    ASSUME ForestInv, UNCHANGED <<near, isCore, phase>>,
           \A S \in SUBSET Points : WholeTrees(S)' => WholeTrees(S),
           NEW k \in Points, left'[k] = left[k], pc'[k] = pc[k], want'[k] = want[k],
           node'[k] = node[k]
    PROVE  OnTrack(k)'
<1>1. OnTrack(k)
  BY DEF ForestInv, UnitesOnTrack
<1>2. \A S : WholeClusters(S)' <=> WholeClusters(S)
  BY ClustersStay
<1>3. \A i, j : CoreNear(i, j)' <=> CoreNear(i, j)
  BY ClustersStay
<1> QED BY <1>1, <1>2, <1>3 DEF OnTrack

\* A union is lost by no step that makes the forest grow or leaves it, if every
\* pair that becomes united is in one tree.
LEMMA UnionsKept ==
    ASSUME ForestInv,
           \A S \in SUBSET Points : WholeTrees(S)' => WholeTrees(S),
           \A i, j \in Points : United(i, j)' =>
              \/ United(i, j)
              \/ \A S \in SUBSET Points : WholeTrees(S)' => (i \in S <=> j \in S)
    PROVE  NoUnionLost'
<1>1. NoUnionLost
  BY DEF ForestInv
<1> QED BY <1>1 DEF NoUnionLost

\* A thread that finds no more to do for its pair.
LEMMA UnitedStays ==
    ASSUME UNCHANGED <<near, isCore, phase, left, want>>, NEW i \in Points,
           \A k \in Points : k # i => pc'[k] = pc[k],
           pc[i] # "visit", NEW k \in Points, NEW j \in Points, United(k, j)'
    PROVE  United(k, j) \/ (phase = "union" /\ pc'[i] = "visit" /\ k = i /\ j = want[i])
<1>1. CoreNear(k, j)' <=> CoreNear(k, j)
  BY ClustersStay
<1> QED BY <1>1 DEF United

\* The state before the first call satisfies the invariant.
LEMMA ForestInit == Init => ForestInv
<1> SUFFICES ASSUME Init PROVE ForestInv
  OBVIOUS
<1> USE DEF Init
<1>1. TypeOK
  BY DEF TypeOK
<1>2. LinksDescend /\ OldLinksHarmless /\ LoadsInCluster
  BY PointsInt DEF LinksDescend, OldLinksHarmless, LoadsInCluster
<1>3. StoresHarmless /\ UnitesOnTrack
  BY DEF StoresHarmless, StoreHarmless, UnitesOnTrack, OnTrack
<1>4. NoUnionLost
  BY DEF NoUnionLost, United, CoreNear
<1> QED BY <1>1, <1>2, <1>3, <1>4 DEF ForestInv

\* Every step preserves the types.
LEMMA ForestType == TypeOK /\ [Next]_vars => TypeOK'
<1> SUFFICES ASSUME TypeOK, [Next]_vars PROVE TypeOK'
  OBVIOUS
<1> USE DEF TypeOK
<1>1. ASSUME NEW m \in MinPts, Begin(m) PROVE TypeOK'
  BY <1>1 DEF Begin, Core
<1>2. ASSUME NEW i \in Points, Visit(i) PROVE TypeOK'
  BY <1>2 DEF Visit
<1>3. ASSUME NEW i \in Points, Climb(i) PROVE TypeOK'
  <2> DEFINE c == node[i][side[i]]
  <2>1. c \in Points
    OBVIOUS
  <2> HIDE DEF c
  <2>2. PICK p \in seen[c] \ {c} : \E g \in seen[p] : up' = [up EXCEPT ![i] = g]
    BY <1>3 DEF Climb, c
  <2>3. p \in Points
    BY <2>1
  <2>4. up' \in [Points -> Points]
    BY <2>2, <2>3
  <2>5. pc' \in [Points -> {"visit", "root", "halve", "cas", "done"}]
    BY <1>3 DEF Climb
  <2> QED BY <1>3, <2>4, <2>5 DEF Climb
<1>4. ASSUME NEW i \in Points, Halve(i) PROVE TypeOK'
  <2> DEFINE c == node[i][side[i]]
  <2>1. c \in Points
    OBVIOUS
  <2> HIDE DEF c
  <2>2. PICK x \in seen'[c] \ {c} : node' = [node EXCEPT ![i][side[i]] = x]
    BY <1>4 DEF Halve, c
  <2>3. seen' \in [Points -> SUBSET Points] /\ parent' \in [Points -> Points]
    BY <1>4, <2>1 DEF Halve, c
  <2>4. node' \in [Points -> [1 .. 2 -> Points]]
    BY <2>1, <2>2, <2>3
  <2> QED BY <1>4, <2>3, <2>4 DEF Halve
<1>5. ASSUME NEW i \in Points, UniteRoot(i) PROVE TypeOK'
  <2>1. side' \in [Points -> 1 .. 2]
    <3>1. side' = [side EXCEPT ![i] = 2] \/ side' = side
      BY <1>5 DEF UniteRoot
    <3>2. side \in [Points -> 1 .. 2]
      OBVIOUS
    <3> HIDE DEF TypeOK
    <3> QED BY <3>1, <3>2
  <2>2. pc' \in [Points -> {"visit", "root", "halve", "cas", "done"}]
    BY <1>5 DEF UniteRoot
  <2> QED BY <1>5, <2>1, <2>2 DEF UniteRoot
<1>6. ASSUME NEW i \in Points, Link(i) PROVE TypeOK'
  <2> DEFINE lo == IF node[i][1] < node[i][2] THEN node[i][1] ELSE node[i][2]
             hi == IF node[i][1] < node[i][2] THEN node[i][2] ELSE node[i][1]
  <2>1. lo \in Points /\ hi \in Points
    OBVIOUS
  <2> HIDE DEF lo, hi
  <2>2. CASE parent[hi] = hi
    <3>1. /\ parent' = [parent EXCEPT ![hi] = lo]
          /\ seen' = [seen EXCEPT ![hi] = @ \cup {lo}]
          /\ pc' = [pc EXCEPT ![i] = "visit"]
          /\ UNCHANGED <<node, side>>
      BY <1>6, <2>2 DEF Link, lo, hi
    <3>2. UNCHANGED <<near, phase, isCore, left, want, up>>
      BY <1>6 DEF Link
    <3> QED BY <2>1, <3>1, <3>2
  <2>3. CASE parent[hi] # hi
    <3>1. node' = [node EXCEPT ![i] = [s \in 1 .. 2 |-> IF s = 1 THEN lo ELSE hi]]
      BY <1>6, <2>3 DEF Link, lo, hi
    <3>2. node' \in [Points -> [1 .. 2 -> Points]]
      BY <2>1, <3>1
    <3>3. /\ side' = [side EXCEPT ![i] = 1]
          /\ pc' = [pc EXCEPT ![i] = "root"]
          /\ UNCHANGED <<parent, seen>>
      BY <1>6, <2>3 DEF Link, lo, hi
    <3>4. UNCHANGED <<near, phase, isCore, left, want, up>>
      BY <1>6 DEF Link
    <3> QED BY <3>2, <3>3, <3>4
  <2> QED BY <2>2, <2>3
<1>7. ASSUME NEW i \in Points, Border(i) PROVE TypeOK'
  <2>1. /\ want' \in [Points -> Points] /\ node' \in [Points -> [1 .. 2 -> Points]]
        /\ side' \in [Points -> 1 .. 2]
    <3> DEFINE from == IF i \in isCore THEN {i} ELSE {j \in isCore : <<i, j>> \in near}
    <3>1. from \subseteq Points
      OBVIOUS
    <3> HIDE DEF from
    <3>2. CASE from = {}
      BY <1>7, <3>2 DEF Border, from
    <3>3. CASE from # {}
      <4>1. PICK j \in from : /\ want' = [want EXCEPT ![i] = j]
                              /\ node' = [node EXCEPT ![i] = [s \in 1 .. 2 |-> j]]
        BY <1>7, <3>3 DEF Border, from
      <4>2. side' = [side EXCEPT ![i] = 1]
        BY <1>7, <3>3 DEF Border, from
      <4> QED BY <3>1, <4>1, <4>2
    <3> QED BY <3>2, <3>3
  <2>2. pc' \in [Points -> {"visit", "root", "halve", "cas", "done"}]
    BY <1>7 DEF Border
  <2> QED BY <1>7, <2>1, <2>2 DEF Border
<1>8. ASSUME NEW i \in Points, LabelRoot(i) PROVE TypeOK'
  BY <1>8 DEF LabelRoot
<1>9. CASE Attach
  BY <1>9 DEF Attach, ThreadsGone
<1>10. CASE Collect
  BY <1>10 DEF Collect, ThreadsGone
<1>11. CASE UNCHANGED vars
  BY <1>11 DEF vars
<1> QED
  BY <1>1, <1>2, <1>3, <1>4, <1>5, <1>6, <1>7, <1>8, <1>9, <1>10, <1>11 DEF Next, ThreadStep

\* Every step of a thread, of the launches and of the host preserves the rest.
LEMMA ForestStep == ForestInv /\ [Next]_vars => ForestInv'
<1> SUFFICES ASSUME ForestInv, [Next]_vars PROVE ForestInv'
  OBVIOUS
<1>t. TypeOK /\ TypeOK'
  BY ForestType DEF ForestInv
<1>i. LinksDescend /\ OldLinksHarmless /\ StoresHarmless /\ UnitesOnTrack /\ LoadsInCluster
  BY DEF ForestInv
<1>w. ASSUME parent' = parent PROVE \A S : WholeTrees(S)' => WholeTrees(S)
  BY <1>w DEF WholeTrees
<1>s. ASSUME NEW k \in Points, parent' = parent, pc'[k] # "halve" \/
             (pc'[k] = pc[k] /\ node'[k] = node[k] /\ side'[k] = side[k] /\ up'[k] = up[k])
      PROVE  StoreHarmless(k)'
  BY <1>i, <1>s DEF StoresHarmless, StoreHarmless
<1>1. ASSUME NEW m \in MinPts, Begin(m) PROVE ForestInv'
  <2>1. LinksDescend' /\ OldLinksHarmless' /\ LoadsInCluster'
    BY <1>1, PointsInt DEF Begin, LinksDescend, OldLinksHarmless, LoadsInCluster
  <2>2. StoresHarmless'
    BY <1>1 DEF Begin, StoresHarmless, StoreHarmless
  <2>3. UnitesOnTrack'
    BY <1>1 DEF Begin, UnitesOnTrack, OnTrack, CoreNear
  <2>4. NoUnionLost'
    BY <1>1 DEF Begin, NoUnionLost, United, CoreNear
  <2> QED BY <1>t, <2>1, <2>2, <2>3, <2>4 DEF ForestInv
<1>2. ASSUME NEW i \in Points, Visit(i) PROVE ForestInv'
  <2>0. /\ phase = "union" /\ pc[i] = "visit" /\ pc'[i] = "root"
        /\ UNCHANGED <<near, isCore, phase, parent, seen>>
    BY <1>2, <1>t DEF Visit, TypeOK
  <2>1. PICK j \in left[i] :
          /\ left' = [left EXCEPT ![i] = @ \ {j}]
          /\ want' = [want EXCEPT ![i] = j]
          /\ node' = [node EXCEPT ![i] = [s \in 1 .. 2 |-> IF s = 1 THEN i ELSE j]]
    BY <1>2 DEF Visit
  <2>2. /\ left'[i] = left[i] \ {j} /\ want'[i] = j
        /\ node'[i][1] = i /\ node'[i][2] = j
    BY <1>t, <2>1 DEF TypeOK
  <2>3. \A k \in Points : k # i => /\ left'[k] = left[k] /\ want'[k] = want[k]
                                  /\ node'[k] = node[k] /\ pc'[k] = pc[k]
                                  /\ side'[k] = side[k] /\ up'[k] = up[k]
    BY <1>2, <1>t, <2>1 DEF Visit, TypeOK
  <2>4. StoresHarmless'
    BY <1>s, <2>0, <2>3 DEF StoresHarmless
  <2>5. UnitesOnTrack'
    <3> SUFFICES ASSUME NEW k \in Points PROVE OnTrack(k)'
      BY DEF UnitesOnTrack
    <3>1. CASE k # i
      BY <1>w, <2>0, <2>3, <3>1, OthersOnTrack
    <3>2. CASE k = i
      <4>1. \A l \in left[i] : CoreNear(i, l)'
        BY <1>i, <2>0, ClustersStay DEF UnitesOnTrack, OnTrack
      <4>2. \A S : WholeClusters(S)' => (i \in S <=> j \in S)
        BY <4>1, <1>t DEF WholeClusters, TypeOK
      <4> QED BY <2>0, <2>2, <3>2, <4>1, <4>2 DEF OnTrack
    <3> QED BY <3>1, <3>2
  <2>6. NoUnionLost'
    <3>1. ASSUME NEW k \in Points, NEW l \in Points, United(k, l)' PROVE United(k, l)
      <4>1. CoreNear(k, l)
        BY <2>0, <3>1, ClustersStay DEF United
      <4>2. CASE k # i
        BY <2>0, <2>3, <3>1, <4>1, <4>2 DEF United
      <4>3. CASE k = i
        BY <2>0, <2>2, <3>1, <4>1, <4>3 DEF United
      <4> QED BY <4>2, <4>3
    <3> QED BY <1>w, <2>0, <3>1, UnionsKept
  <2> QED BY <1>t, <2>0, <2>4, <2>5, <2>6, QuietKeepsLinks DEF ForestInv
<1>3. ASSUME NEW i \in Points, Climb(i) PROVE ForestInv'
  <2> DEFINE c == node[i][side[i]]
  <2>0. /\ pc[i] = "root" /\ pc'[i] = "halve"
        /\ UNCHANGED <<near, isCore, phase, parent, seen, left, want, node, side>>
        /\ \A k \in Points : k # i => pc'[k] = pc[k] /\ up'[k] = up[k]
    BY <1>3, <1>t DEF Climb, TypeOK
  <2>c. c \in Points
    BY <1>t DEF TypeOK
  <2>1. PICK p \in seen[c] \ {c} : \E g \in seen[p] : up' = [up EXCEPT ![i] = g]
    BY <1>3 DEF Climb
  <2>2. parent[c] # c /\ up'[i] < c /\ SameBelow(parent, c, up'[i], parent[c])
    <3> HIDE DEF c
    <3>1. PICK g \in seen[p] : up' = [up EXCEPT ![i] = g]
      BY <2>1
    <3>2. parent[c] # c /\ g < c /\ SameBelow(parent, c, g, parent[c])
      BY <1>t, <1>i, <2>c, ClimbHarmless
    <3>3. up'[i] = g
      BY <1>t, <3>1 DEF TypeOK
    <3> QED BY <3>2, <3>3
  <2>3. StoresHarmless'
    <3>1. StoreHarmless(i)'
      BY <2>0, <2>2 DEF StoreHarmless
    <3> QED BY <1>s, <2>0, <3>1 DEF StoresHarmless
  <2>4. UnitesOnTrack'
    <3> SUFFICES ASSUME NEW k \in Points PROVE OnTrack(k)'
      BY DEF UnitesOnTrack
    <3>1. CASE k # i
      BY <1>w, <2>0, <3>1, OthersOnTrack
    <3>2. CASE k = i
      <4>1. OnTrack(i)
        BY <1>i DEF UnitesOnTrack
      <4>2. \A S : (WholeClusters(S)' <=> WholeClusters(S)) /\ (WholeTrees(S)' => WholeTrees(S))
        BY <1>w, <2>0, ClustersStay
      <4>3. \A l, q : CoreNear(l, q)' <=> CoreNear(l, q)
        BY <2>0, ClustersStay
      <4> QED BY <2>0, <3>2, <4>1, <4>2, <4>3 DEF OnTrack
    <3> QED BY <3>1, <3>2
  <2>5. NoUnionLost'
    <3>1. \A k, l \in Points : United(k, l)' => United(k, l)
      BY <2>0, UnitedStays
    <3> QED BY <1>w, <2>0, <3>1, UnionsKept
  <2> QED BY <1>t, <2>0, <2>3, <2>4, <2>5, QuietKeepsLinks DEF ForestInv
<1>4. ASSUME NEW i \in Points, Halve(i) PROVE ForestInv'
  <2> DEFINE c == node[i][side[i]]
             u == up[i]
  <2>c. c \in Points /\ u \in Points /\ side[i] \in 1 .. 2
    BY <1>t DEF TypeOK
  <2>0. /\ pc[i] = "halve" /\ pc'[i] = "root"
        /\ UNCHANGED <<near, isCore, phase, left, want, side, up>>
        /\ \A k \in Points : k # i => pc'[k] = pc[k]
        /\ parent' = [parent EXCEPT ![c] = u]
        /\ seen' = [seen EXCEPT ![c] = @ \cup {u}]
    BY <1>4, <1>t DEF Halve, TypeOK
  <2>1. PICK x \in seen'[c] \ {c} : node' = [node EXCEPT ![i][side[i]] = x]
    BY <1>4 DEF Halve
  <2>2. parent[c] # c /\ u < c /\ SameBelow(parent, c, u, parent[c])
    BY <1>i, <2>0 DEF StoresHarmless, StoreHarmless
  <2>n. /\ \A k \in Points : k # i => node'[k] = node[k]
        /\ node'[i] = [node[i] EXCEPT ![side[i]] = x]
    BY <1>t, <2>1 DEF TypeOK
  <2> HIDE DEF c, u
  <2>3. \A S \in SUBSET Points : WholeClusters(S) => (c \in S <=> u \in S)
    <3> SUFFICES ASSUME NEW S \in SUBSET Points, WholeClusters(S) PROVE c \in S <=> u \in S
      OBVIOUS
    <3>1. \A y \in Points : y \in S <=> parent[y] \in S
      BY <1>i DEF LoadsInCluster, LinksDescend
    <3>2. u \in S <=> parent[c] \in S
      BY <2>2, <3>1 DEF SameBelow, ClosedBelow
    <3> QED BY <2>c, <3>1, <3>2
  <2>4. /\ ForestGrows(parent, parent')
        /\ LinksDescend' /\ OldLinksHarmless' /\ LoadsInCluster'
        /\ \A y \in Points : \A v \in Points :
              parent[y] # y /\ v < y /\ SameBelow(parent, y, v, parent[y])
              => parent'[y] # y /\ SameBelow(parent', y, v, parent'[y])
    BY <1>t, <2>0, <2>c, <2>2, <2>3, StoreKeepsLinks
  <2>5. \A S \in SUBSET Points : WholeTrees(S)' => WholeTrees(S)
    BY <1>t, <2>4, WholeTreesGrow
  <2>6. StoresHarmless'
    <3> SUFFICES ASSUME NEW k \in Points, pc'[k] = "halve" PROVE StoreHarmless(k)'
      BY DEF StoresHarmless, StoreHarmless
    <3>1. k # i /\ pc[k] = "halve" /\ node'[k] = node[k] /\ side'[k] = side[k] /\ up'[k] = up[k]
      BY <2>0, <2>n
    <3> DEFINE d == node[k][side[k]]
    <3>2. parent[d] # d /\ up[k] < d /\ SameBelow(parent, d, up[k], parent[d])
      BY <1>i, <3>1 DEF StoresHarmless, StoreHarmless
    <3>3. d \in Points /\ up[k] \in Points
      BY <1>t DEF TypeOK
    <3> HIDE DEF d
    <3>4. parent'[d] # d /\ SameBelow(parent', d, up[k], parent'[d])
      BY <2>4, <3>2, <3>3
    <3> QED BY <3>1, <3>2, <3>4 DEF StoreHarmless, d
  <2>7. ASSUME NEW S \in SUBSET Points, WholeTrees(S)'
        PROVE  c \in S <=> x \in S
    <3>1. parent'[c] \in S <=> x \in S
      <4>1. ClosedBelow(parent', S, c)
        BY <2>7 DEF WholeTrees, ClosedBelow
      <4> QED BY <2>1, <2>4, <2>c, <4>1 DEF OldLinksHarmless, SameBelow
    <3> QED BY <2>7, <2>c, <3>1 DEF WholeTrees
  <2>8. ASSUME NEW S \in SUBSET Points, WholeClusters(S)
        PROVE  c \in S <=> x \in S
    <3>1. WholeClusters(S)'
      BY <2>0, <2>8, ClustersStay
    <3> QED BY <2>1, <2>4, <2>c, <3>1 DEF LoadsInCluster
  <2>9. UnitesOnTrack'
    <3> SUFFICES ASSUME NEW k \in Points PROVE OnTrack(k)'
      BY DEF UnitesOnTrack
    <3>1. CASE k # i
      BY <2>0, <2>5, <2>n, <3>1, OthersOnTrack
    <3>2. CASE k = i
      <4>1. OnTrack(i)
        BY <1>i DEF UnitesOnTrack
      <4>2. \A S : WholeClusters(S)' <=> WholeClusters(S)
        BY <2>0, ClustersStay
      <4>3. \A l, q : CoreNear(l, q)' <=> CoreNear(l, q)
        BY <2>0, ClustersStay
      <4>4. ASSUME NEW S \in SUBSET Points, WholeClusters(S) \/ WholeTrees(S)'
            PROVE  \A s \in 1 .. 2 : node'[i][s] \in S <=> node[i][s] \in S
        BY <1>t, <2>7, <2>8, <2>n, <4>4 DEF TypeOK, c
      <4>5. ASSUME phase = "union", NEW S \in SUBSET Points, WholeClusters(S)'
            PROVE  node'[i][1] \in S <=> node'[i][2] \in S
        BY <2>0, <4>1, <4>2, <4>4, <4>5 DEF OnTrack
      <4>6. ASSUME phase = "union", NEW S \in SUBSET Points, WholeTrees(S)',
                   node'[i][1] \in S <=> node'[i][2] \in S
            PROVE  i \in S <=> want[i] \in S
        BY <2>0, <2>5, <4>1, <4>4, <4>6 DEF OnTrack
      <4> QED BY <2>0, <3>2, <4>1, <4>3, <4>5, <4>6 DEF OnTrack
    <3> QED BY <3>1, <3>2
  <2>10. NoUnionLost'
    <3>1. \A k, l \in Points : United(k, l)' => United(k, l)
      BY <2>0, UnitedStays
    <3> QED BY <2>5, <3>1, UnionsKept
  <2> QED BY <1>t, <2>4, <2>6, <2>9, <2>10 DEF ForestInv
<1>5. ASSUME NEW i \in Points, UniteRoot(i) PROVE ForestInv'
  <2>0. /\ phase = "union" /\ pc[i] = "root"
        /\ UNCHANGED <<near, isCore, phase, parent, seen, left, want, node, up>>
        /\ \A k \in Points : k # i => pc'[k] = pc[k] /\ side'[k] = side[k]
    BY <1>5, <1>t DEF UniteRoot, TypeOK
  <2>1. \/ pc'[i] = "root"
        \/ pc'[i] = "visit" /\ node[i][1] = node[i][2]
        \/ pc'[i] = "cas" /\ node[i][1] # node[i][2]
    BY <1>5, <1>t DEF UniteRoot, TypeOK
  <2>2. StoresHarmless'
    <3>1. pc'[i] # "halve"
      BY <2>1
    <3> QED BY <1>s, <2>0, <3>1 DEF StoresHarmless
  <2>t. OnTrack(i)
    BY <1>i DEF UnitesOnTrack
  <2>3. UnitesOnTrack'
    <3> SUFFICES ASSUME NEW k \in Points PROVE OnTrack(k)'
      BY DEF UnitesOnTrack
    <3>1. CASE k # i
      BY <1>w, <2>0, <3>1, OthersOnTrack
    <3>2. CASE k = i
      <4>1. \A S : (WholeClusters(S)' <=> WholeClusters(S)) /\ (WholeTrees(S)' => WholeTrees(S))
        BY <1>w, <2>0, ClustersStay
      <4>2. \A l, q : CoreNear(l, q)' <=> CoreNear(l, q)
        BY <2>0, ClustersStay
      <4> QED BY <2>0, <2>1, <2>t, <3>2, <4>1, <4>2 DEF OnTrack
    <3> QED BY <3>1, <3>2
  <2>4. NoUnionLost'
    <3>1. ASSUME NEW k \in Points, NEW l \in Points, United(k, l)', ~United(k, l),
                 NEW S \in SUBSET Points, WholeTrees(S)'
          PROVE  k \in S <=> l \in S
      <4>1. pc'[i] = "visit" /\ k = i /\ l = want[i]
        BY <2>0, <3>1, UnitedStays
      <4>2. WholeTrees(S) /\ node[i][1] = node[i][2]
        BY <1>w, <2>0, <2>1, <3>1, <4>1
      <4> QED BY <2>0, <2>t, <4>1, <4>2 DEF OnTrack
    <3> QED BY <1>w, <2>0, <3>1, UnionsKept
  <2> QED BY <1>t, <2>0, <2>2, <2>3, <2>4, QuietKeepsLinks DEF ForestInv
<1>6. ASSUME NEW i \in Points, Link(i) PROVE ForestInv'
  <2> DEFINE lo == IF node[i][1] < node[i][2] THEN node[i][1] ELSE node[i][2]
             hi == IF node[i][1] < node[i][2] THEN node[i][2] ELSE node[i][1]
  <2>t. OnTrack(i)
    BY <1>i DEF UnitesOnTrack
  <2>p. pc[i] = "cas" /\ phase = "union"
    BY <1>6, <2>t DEF Link, OnTrack
  <2>c. /\ lo \in Points /\ hi \in Points /\ lo < hi
        /\ \/ lo = node[i][1] /\ hi = node[i][2]
           \/ lo = node[i][2] /\ hi = node[i][1]
    <3>1. node[i][1] \in Points /\ node[i][2] \in Points /\ node[i][1] # node[i][2]
      BY <1>t, <2>p, <2>t DEF TypeOK, OnTrack
    <3> QED BY <3>1, PointsInt
  <2>u. UNCHANGED <<near, phase, isCore, left, want, up>>
    BY <1>6 DEF Link
  <2>s. parent[hi] = hi =>
          /\ parent' = [parent EXCEPT ![hi] = lo]
          /\ seen' = [seen EXCEPT ![hi] = @ \cup {lo}]
          /\ pc' = [pc EXCEPT ![i] = "visit"]
          /\ UNCHANGED <<node, side>>
    BY <1>6 DEF Link
  <2>f. parent[hi] # hi =>
          /\ node' = [node EXCEPT ![i] = [s \in 1 .. 2 |-> IF s = 1 THEN lo ELSE hi]]
          /\ side' = [side EXCEPT ![i] = 1]
          /\ pc' = [pc EXCEPT ![i] = "root"]
          /\ UNCHANGED <<parent, seen>>
    BY <1>6 DEF Link
  <2> HIDE DEF lo, hi
  <2>1. CASE parent[hi] = hi
    <3>0. pc'[i] = "visit" /\ \A k \in Points : k # i => pc'[k] = pc[k]
      BY <1>t, <2>1, <2>s DEF TypeOK
    <3>1. \A S \in SUBSET Points : WholeClusters(S) => (hi \in S <=> lo \in S)
      BY <2>c, <2>p, <2>t DEF OnTrack
    <3>2. /\ ForestGrows(parent, parent')
          /\ LinksDescend' /\ OldLinksHarmless' /\ LoadsInCluster'
          /\ \A y \in Points : \A v \in Points :
                parent[y] # y /\ v < y /\ SameBelow(parent, y, v, parent[y])
                => parent'[y] # y /\ SameBelow(parent', y, v, parent'[y])
      BY <1>t, <2>1, <2>c, <2>s, <2>u, <3>1, StoreKeepsLinks
    <3>3. \A S \in SUBSET Points : WholeTrees(S)' => WholeTrees(S)
      BY <1>t, <3>2, WholeTreesGrow
    <3>4. StoresHarmless'
      <4> SUFFICES ASSUME NEW k \in Points, pc'[k] = "halve" PROVE StoreHarmless(k)'
        BY DEF StoresHarmless, StoreHarmless
      <4>1. pc[k] = "halve" /\ node' = node /\ side' = side /\ up' = up
        BY <2>1, <2>s, <2>u, <3>0
      <4> DEFINE d == node[k][side[k]]
      <4>2. parent[d] # d /\ up[k] < d /\ SameBelow(parent, d, up[k], parent[d])
        BY <1>i, <4>1 DEF StoresHarmless, StoreHarmless
      <4>3. d \in Points /\ up[k] \in Points
        BY <1>t DEF TypeOK
      <4> HIDE DEF d
      <4>4. parent'[d] # d /\ SameBelow(parent', d, up[k], parent'[d])
        BY <3>2, <4>2, <4>3
      <4> QED BY <4>1, <4>2, <4>4 DEF StoreHarmless, d
    <3>5. UnitesOnTrack'
      <4> SUFFICES ASSUME NEW k \in Points PROVE OnTrack(k)'
        BY DEF UnitesOnTrack
      <4>1. CASE k # i
        BY <2>1, <2>s, <2>u, <3>0, <3>3, <4>1, OthersOnTrack
      <4>2. CASE k = i
        <5>1. \A l, q : CoreNear(l, q)' <=> CoreNear(l, q)
          BY <2>u, ClustersStay
        <5> QED BY <2>p, <2>t, <2>u, <3>0, <4>2, <5>1 DEF OnTrack
      <4> QED BY <4>1, <4>2
    <3>6. NoUnionLost'
      <4>1. ASSUME NEW k \in Points, NEW l \in Points, United(k, l)', ~United(k, l),
                   NEW S \in SUBSET Points, WholeTrees(S)'
            PROVE  k \in S <=> l \in S
        <5>1. k = i /\ l = want[i]
          BY <2>p, <2>u, <3>0, <4>1, UnitedStays
        <5>2. hi \in S <=> lo \in S
          BY <1>t, <2>1, <2>c, <2>s, <4>1 DEF WholeTrees, TypeOK
        <5>3. WholeTrees(S)
          BY <3>3, <4>1
        <5> QED BY <2>c, <2>p, <2>t, <5>1, <5>2, <5>3 DEF OnTrack
      <4> QED BY <3>3, <4>1, UnionsKept
    <3> QED BY <1>t, <3>2, <3>4, <3>5, <3>6 DEF ForestInv
  <2>2. CASE parent[hi] # hi
    <3>0. /\ pc'[i] = "root" /\ node'[i][1] = lo /\ node'[i][2] = hi
          /\ \A k \in Points : k # i => /\ pc'[k] = pc[k] /\ node'[k] = node[k]
                                       /\ side'[k] = side[k]
      BY <1>t, <2>2, <2>f DEF TypeOK
    <3>q. UNCHANGED <<parent, seen>>
      BY <2>2, <2>f
    <3>1. StoresHarmless'
      BY <1>s, <2>u, <3>0, <3>q DEF StoresHarmless
    <3>2. UnitesOnTrack'
      <4> SUFFICES ASSUME NEW k \in Points PROVE OnTrack(k)'
        BY DEF UnitesOnTrack
      <4>1. CASE k # i
        BY <1>w, <2>u, <3>0, <3>q, <4>1, OthersOnTrack
      <4>2. CASE k = i
        <5>1. \A S : (WholeClusters(S)' <=> WholeClusters(S)) /\ (WholeTrees(S)' => WholeTrees(S))
          BY <1>w, <2>u, <3>q, ClustersStay
        <5>2. \A l, q : CoreNear(l, q)' <=> CoreNear(l, q)
          BY <2>u, ClustersStay
        <5> QED BY <2>c, <2>p, <2>t, <2>u, <3>0, <4>2, <5>1, <5>2 DEF OnTrack
      <4> QED BY <4>1, <4>2
    <3>3. NoUnionLost'
      <4>1. \A k, l \in Points : United(k, l)' => United(k, l)
        BY <2>p, <2>u, <3>0, UnitedStays
      <4> QED BY <1>w, <3>q, <4>1, UnionsKept
    <3> QED BY <1>t, <2>u, <3>q, <3>1, <3>2, <3>3, QuietKeepsLinks DEF ForestInv
  <2> QED BY <2>1, <2>2
<1>7. ASSUME NEW i \in Points, Border(i) \/ LabelRoot(i) PROVE ForestInv'
  <2>0. /\ phase = "attach" /\ UNCHANGED <<near, isCore, phase, parent, seen, left>>
        /\ pc'[i] \in {"root", "done"}
        /\ \A k \in Points : k # i => /\ pc'[k] = pc[k] /\ node'[k] = node[k]
                                     /\ side'[k] = side[k] /\ up'[k] = up[k]
    <3>1. CASE LabelRoot(i)
      BY <1>t, <3>1 DEF LabelRoot, TypeOK
    <3>2. CASE Border(i)
      <4>1. /\ phase = "attach" /\ UNCHANGED <<near, isCore, phase, parent, seen, left, up>>
            /\ pc'[i] \in {"root", "done"} /\ \A k \in Points : k # i => pc'[k] = pc[k]
        BY <1>t, <3>2 DEF Border, TypeOK
      <4>2. \A k \in Points : k # i => node'[k] = node[k]
        <5>1. node' = node \/ \E j : node' = [node EXCEPT ![i] = [s \in 1 .. 2 |-> j]]
          BY <3>2, Zenon DEF Border
        <5>2. node \in [Points -> [1 .. 2 -> Points]]
          BY <1>t DEF TypeOK
        <5> QED BY <5>1, <5>2
      <4>3. \A k \in Points : k # i => side'[k] = side[k]
        BY <1>t, <3>2 DEF Border, TypeOK
      <4> QED BY <4>1, <4>2, <4>3
    <3> QED BY <1>7, <3>1, <3>2
  <2>1. StoresHarmless'
    BY <1>s, <2>0 DEF StoresHarmless
  <2>2. UnitesOnTrack'
    BY <1>i, <2>0 DEF UnitesOnTrack, OnTrack
  <2>3. NoUnionLost'
    <3>1. \A k, l \in Points : United(k, l)' => United(k, l)
      BY <2>0, ClustersStay DEF United
    <3> QED BY <1>w, <2>0, <3>1, UnionsKept
  <2> QED BY <1>t, <2>0, <2>1, <2>2, <2>3, QuietKeepsLinks DEF ForestInv
<1>8. CASE Attach
  <2>0. /\ phase = "union" /\ phase' = "attach" /\ UNCHANGED <<near, isCore, parent, pc>>
        /\ seen' = [x \in Points |-> {parent[x]}]
        /\ \A k \in Points : pc[k] = "visit" /\ left[k] = {}
    BY <1>8 DEF Attach
  <2>1. LinksDescend' /\ OldLinksHarmless'
    BY <1>i, <1>t, <2>0 DEF LinksDescend, OldLinksHarmless, SameBelow, TypeOK
  <2>2. LoadsInCluster'
    <3> SUFFICES ASSUME NEW S \in SUBSET Points, WholeClusters(S)',
                        NEW x \in Points, NEW y \in seen'[x]
                 PROVE  x \in S <=> y \in S
      BY DEF LoadsInCluster
    <3>1. y = parent[x] /\ y \in seen[x]
      BY <1>i, <2>0 DEF LinksDescend
    <3>2. WholeClusters(S)
      BY <2>0, ClustersStay
    <3> QED BY <1>i, <3>1, <3>2 DEF LoadsInCluster
  <2>3. StoresHarmless' /\ UnitesOnTrack'
    BY <2>0 DEF StoresHarmless, StoreHarmless, UnitesOnTrack, OnTrack
  <2>4. NoUnionLost'
    <3>1. \A k, l \in Points : United(k, l)' => United(k, l)
      BY <2>0, ClustersStay DEF United
    <3> QED BY <1>w, <2>0, <3>1, UnionsKept
  <2> QED BY <1>t, <2>1, <2>2, <2>3, <2>4 DEF ForestInv
<1>9. CASE Collect
  <2>0. /\ phase = "attach" /\ phase' = "done" /\ UNCHANGED <<near, isCore, parent, seen, pc>>
        /\ \A k \in Points : pc[k] = "done"
    BY <1>9 DEF Collect
  <2>1. StoresHarmless' /\ UnitesOnTrack'
    BY <2>0 DEF StoresHarmless, StoreHarmless, UnitesOnTrack, OnTrack
  <2>2. NoUnionLost'
    <3>1. \A k, l \in Points : United(k, l)' => United(k, l)
      BY <2>0, ClustersStay DEF United
    <3> QED BY <1>w, <2>0, <3>1, UnionsKept
  <2> QED BY <1>t, <2>0, <2>1, <2>2, QuietKeepsLinks DEF ForestInv
<1>10. CASE UNCHANGED vars
  <2>0. UNCHANGED <<near, phase, isCore, parent, seen, pc, left, want, node, side, up>>
    BY <1>10 DEF vars
  <2>1. StoresHarmless'
    BY <1>s, <2>0 DEF StoresHarmless
  <2>2. UnitesOnTrack'
    BY <1>w, <2>0, OthersOnTrack DEF UnitesOnTrack
  <2>3. NoUnionLost'
    <3>1. \A k, l \in Points : United(k, l)' => United(k, l)
      BY <2>0, ClustersStay DEF United
    <3> QED BY <1>w, <2>0, <3>1, UnionsKept
  <2> QED BY <1>t, <2>0, <2>1, <2>2, <2>3, QuietKeepsLinks DEF ForestInv
<1> QED BY <1>1, <1>2, <1>3, <1>4, <1>5, <1>6, <1>7, <1>8, <1>9, <1>10 DEF Next, ThreadStep

\* The union-find keeps its invariant in every behaviour of dbscan().
THEOREM ForestCorrect == Spec => []ForestInv
BY ForestInit, ForestStep, PTL DEF Spec

\* A state of the invariant in which k_union_cores has ended.
LEMMA ForestIsClusters == ForestInv => TreesAreClusters
<1> SUFFICES ASSUME ForestInv, phase \in {"attach", "done"}, NEW S \in SUBSET Points
             PROVE  WholeTrees(S) <=> WholeClusters(S)
  BY DEF TreesAreClusters
<1>1. ASSUME WholeClusters(S) PROVE WholeTrees(S)
  BY <1>1 DEF ForestInv, LoadsInCluster, LinksDescend, WholeTrees, TypeOK
<1>2. ASSUME WholeTrees(S) PROVE WholeClusters(S)
  <2> SUFFICES ASSUME NEW i \in Points, NEW j \in Points, CoreNear(i, j)
               PROVE  i \in S <=> j \in S
    BY DEF WholeClusters
  <2>1. CoreNear(j, i)
    BY DbscanAssumption DEF CoreNear, ForestInv, TypeOK
  <2>2. CASE i < j
    BY <1>2, <2>2 DEF ForestInv, NoUnionLost, United
  <2>3. CASE j < i
    BY <1>2, <2>1, <2>3 DEF ForestInv, NoUnionLost, United
  <2>4. CASE i = j
    BY <2>4
  <2> QED BY <2>2, <2>3, <2>4, PointsInt
<1> QED BY <1>1, <1>2

\* When k_union_cores has ended, the trees are the clusters of DBSCAN.
THEOREM UnionFindComputesClusters == Spec => []TreesAreClusters
BY ForestIsClusters, ForestCorrect, PTL

-----------------------------------------------------------------------------
(***************************************************************************)
(* The labels.  k_attach_border climbs to the root of a core point while   *)
(* other threads still halve paths, which moves no root; the root that a   *)
(* label names is the only one of its cluster (RootsApart), and the host   *)
(* numbers the roots by rank.                                              *)
(***************************************************************************)
Together(x, y) == \A S \in SUBSET Points : WholeClusters(S) => (x \in S <=> y \in S)
IsRoot(x) == x \in Points /\ parent[x] = x

\* The core points that may give point i its label.
Givers(i) == IF i \in isCore THEN {i} ELSE {j \in isCore : <<i, j>> \in near}

LabelFits(i, l) ==
    \/ Givers(i) = {} /\ l = kNoise
    \/ IsRoot(l) /\ \E j \in Givers(i) : Together(l, j)

Attaching(i) ==
    /\ pc[i] \in {"root", "halve"} => /\ side[i] = 1 /\ want[i] \in Givers(i)
                                      /\ Together(node[i][1], want[i])
    /\ pc[i] = "done" => LabelFits(i, label[i])

AttachInv ==
    /\ label \in [Points -> Points \cup {kNoise}]
    /\ phase = "attach" => /\ \A x \in Points : x \in seen[x] => parent[x] = x
                           /\ \A i \in Points : Attaching(i)

\* Two roots are in two trees.  The tree of r is built point by point, for the
\* parent of a point comes before it.
LEMMA RootsApart ==
  ASSUME TypeOK, LinksDescend, NEW r, NEW u, IsRoot(r), IsRoot(u), r # u
  PROVE  \E S \in SUBSET Points : WholeTrees(S) /\ r \in S /\ u \notin S
<1> DEFINE Tree(S, x) == x \in S <=> (x = r \/ (parent[x] # x /\ parent[x] \in S))
           Good == {n \in 0 .. NumPoints : \E S \in SUBSET (0 .. n - 1) : \A x \in 0 .. n - 1 : Tree(S, x)}
<1>0. NumPoints \in Nat
  BY DbscanAssumption
<1>1. 0 \in Good
  <2>1. {} \in SUBSET (0 .. 0 - 1) /\ \A x \in 0 .. 0 - 1 : Tree({}, x)
    OBVIOUS
  <2>2. \E S \in SUBSET (0 .. 0 - 1) : \A x \in 0 .. 0 - 1 : Tree(S, x)
    BY <2>1
  <2>3. 0 \in 0 .. NumPoints
    BY <1>0
  <2> QED BY <2>2, <2>3
<1>2. ASSUME NEW k \in 0 .. NumPoints - 1, k \in Good PROVE k + 1 \in Good
  <2>1. PICK S \in SUBSET (0 .. k - 1) : \A x \in 0 .. k - 1 : Tree(S, x)
    BY <1>2
  <2>2. PICK Q : Q = IF k = r \/ (parent[k] # k /\ parent[k] \in S) THEN S \cup {k} ELSE S
    OBVIOUS
  <2>3. k \in Points /\ k \in Nat /\ k + 1 \in 0 .. NumPoints /\ Q \in SUBSET (0 .. (k + 1) - 1)
    BY <1>0, <2>2 DEF Points
  <2>4. ASSUME NEW x \in 0 .. k PROVE Tree(Q, x)
    <3>1. x \in Points /\ parent[x] \in Points /\ parent[x] <= x /\ x \in Int /\ parent[x] \in Int
      BY <1>0, <2>3, PointsInt DEF Points, TypeOK, LinksDescend
    <3>2. CASE x = k
      <4>1. k \notin S
        BY <2>3
      <4>2. parent[x] # x => (parent[x] \in Q <=> parent[x] \in S)
        BY <2>2, <3>2
      <4>3. x \in Q <=> (k = r \/ (parent[k] # k /\ parent[k] \in S))
        BY <2>2, <3>2, <4>1
      <4> QED BY <3>2, <4>2, <4>3
    <3>3. CASE x # k
      <4>1. x \in 0 .. k - 1 /\ parent[x] # k
        BY <2>3, <3>1, <3>3
      <4>2. (x \in Q <=> x \in S) /\ (parent[x] \in Q <=> parent[x] \in S)
        BY <2>2, <3>3, <4>1
      <4>3. Tree(S, x)
        BY <2>1, <4>1
      <4> QED BY <4>2, <4>3
    <3> QED BY <3>2, <3>3
  <2>5. 0 .. (k + 1) - 1 = 0 .. k
    BY <2>3
  <2> QED BY <2>3, <2>4, <2>5
<1>3. NumPoints \in Good
  <2> HIDE DEF Good
  <2>1. 0 .. NumPoints \subseteq Good
    BY <1>0, <1>1, <1>2, NoCounterexample
  <2> QED BY <1>0, <2>1
<1>4. PICK S \in SUBSET Points : \A x \in Points : Tree(S, x)
  BY <1>3 DEF Points
<1>5. r \in S /\ u \notin S
  BY <1>4 DEF IsRoot
<1>6. ASSUME NEW x \in Points PROVE x \in S <=> parent[x] \in S
  <2>1. CASE x = r
    BY <1>5, <2>1 DEF IsRoot
  <2>2. CASE x # r /\ parent[x] = x
    BY <2>2
  <2>3. CASE x # r /\ parent[x] # x
    BY <1>4, <2>3
  <2> QED BY <2>1, <2>2, <2>3
<1> QED BY <1>4, <1>5, <1>6 DEF WholeTrees

LEMMA OneRoot ==
  ASSUME ForestInv, phase = "attach", NEW r, NEW u, IsRoot(r), IsRoot(u), Together(r, u)
  PROVE  r = u
<1> SUFFICES ASSUME r # u PROVE FALSE
  OBVIOUS
<1>1. PICK S \in SUBSET Points : WholeTrees(S) /\ r \in S /\ u \notin S
  BY RootsApart DEF ForestInv
<1>2. WholeClusters(S)
  BY <1>1, ForestIsClusters DEF TreesAreClusters
<1> QED BY <1>1, <1>2 DEF Together

\* What the host makes of the labels that k_attach_border has left.
LEMMA CollectCorrect ==
  ASSUME ForestInv, AttachInv, Collect
  PROVE  DbscanCorrect'
<1> DEFINE roots == {label[i] : i \in Points} \ {kNoise}
           dense(l) == IF l = kNoise THEN kNoise ELSE RankIn(roots, l)
<1>0. /\ phase = "attach" /\ UNCHANGED <<near, isCore>> /\ isCore \subseteq Points
      /\ \A i \in Points : LabelFits(i, label[i])
  BY DEF Collect, AttachInv, Attaching, ForestInv, TypeOK
<1>1. PICK perm \in [Points -> Points] :
        /\ \A i, j \in Points : perm[i] = perm[j] => i = j
        /\ labels' = [perm |-> perm, of |-> [o \in Points |-> dense(Scatter(perm)[o])],
                      clusters |-> Cardinality(roots)]
  BY DEF Collect, RankIn
<1>2. ASSUME NEW i \in Points PROVE labels'.of[labels'.perm[i]] = dense(label[i])
  <2>1. (CHOOSE k \in Points : perm[k] = perm[i]) = i
    BY <1>1
  <2>2. Scatter(perm)[perm[i]] = label[i]
    BY <2>1 DEF Scatter
  <2> HIDE DEF dense
  <2> QED BY <1>1, <2>2
<1>3. /\ roots \subseteq Points /\ roots \subseteq Int /\ IsFiniteSet(roots)
      /\ \A r \in roots : IsRoot(r) /\ r # kNoise
  <2>1. \A i \in Points : label[i] # kNoise => IsRoot(label[i])
    BY <1>0 DEF LabelFits
  <2>2. roots \subseteq Points
    BY <2>1 DEF IsRoot
  <2>3. IsFiniteSet(Points)
    <3>1. NumPoints - 1 \in Int /\ 0 \in Int
      BY DbscanAssumption
    <3> QED BY <3>1, FS_Interval DEF Points
  <2>4. roots \in SUBSET Points
    BY <2>2
  <2>5. IsFiniteSet(roots)
    <3> HIDE DEF roots
    <3> QED BY <2>3, <2>4, FS_Subset
  <2> QED BY <2>1, <2>2, <2>5, PointsInt
<1>4. /\ \A l \in roots : RankIn(roots, l) \in 0 .. Cardinality(roots) - 1
      /\ \A l, m \in roots : RankIn(roots, l) = RankIn(roots, m) => l = m
      /\ {RankIn(roots, l) : l \in roots} = 0 .. Cardinality(roots) - 1
  <2> HIDE DEF roots
  <2> QED BY <1>3, Ranks
<1>5. ASSUME NEW i \in Points, Givers(i) # {}
      PROVE  label[i] \in roots /\ \E j \in Givers(i) : Together(label[i], j)
  <2>1. IsRoot(label[i]) /\ \E j \in Givers(i) : Together(label[i], j)
    BY <1>0, <1>5 DEF LabelFits
  <2>2. label[i] # kNoise
    BY <2>1, DbscanAssumption DEF IsRoot, kNoise, Points
  <2> QED BY <2>1, <2>2
<1>6. ASSUME NEW i \in isCore, NEW j \in isCore
      PROVE  dense(label[i]) = dense(label[j]) <=> Together(i, j)
  <2>1. i \in Points /\ j \in Points /\ Givers(i) = {i} /\ Givers(j) = {j}
    BY <1>0 DEF Givers
  <2>2. /\ label[i] \in roots /\ label[j] \in roots /\ label[i] # kNoise /\ label[j] # kNoise
        /\ Together(label[i], i) /\ Together(label[j], j)
        /\ IsRoot(label[i]) /\ IsRoot(label[j])
    BY <1>3, <1>5, <2>1
  <2>3. dense(label[i]) = RankIn(roots, label[i]) /\ dense(label[j]) = RankIn(roots, label[j])
    BY <2>2
  <2>4. dense(label[i]) = dense(label[j]) <=> label[i] = label[j]
    <3> HIDE DEF roots, dense
    <3> QED BY <1>4, <2>2, <2>3
  <2>5. label[i] = label[j] => Together(i, j)
    BY <2>2 DEF Together
  <2>6. Together(i, j) => Together(label[i], label[j])
    BY <2>2 DEF Together
  <2>7. Together(label[i], label[j]) => label[i] = label[j]
    BY <1>0, <2>2, OneRoot
  <2> QED BY <2>4, <2>5, <2>6, <2>7
<1>7. ASSUME NEW i \in Points \ isCore, {j \in isCore : <<i, j>> \in near} = {}
      PROVE  dense(label[i]) = kNoise
  <2>1. Givers(i) = {}
    BY <1>7 DEF Givers
  <2>2. label[i] = kNoise
    BY <1>0, <2>1 DEF LabelFits
  <2> QED BY <2>2
<1>8. ASSUME NEW i \in Points \ isCore, {j \in isCore : <<i, j>> \in near} # {}
      PROVE  \E j \in {k \in isCore : <<i, k>> \in near} : dense(label[i]) = dense(label[j])
  <2>1. Givers(i) = {k \in isCore : <<i, k>> \in near}
    BY DEF Givers
  <2>2. PICK j \in Givers(i) : label[i] \in roots /\ Together(label[i], j)
    BY <1>5, <1>8, <2>1
  <2>3. j \in Points /\ j \in isCore /\ Givers(j) = {j}
    BY <1>0, <2>1 DEF Givers
  <2>4. label[j] \in roots /\ Together(label[j], j)
    BY <1>5, <2>3
  <2>5. Together(label[i], label[j])
    BY <2>2, <2>4 DEF Together
  <2>6. label[i] = label[j]
    BY <1>0, <1>3, <2>2, <2>4, <2>5, OneRoot
  <2> QED BY <2>1, <2>3, <2>6
<1>9. {dense(label[i]) : i \in Points} \ {kNoise} = 0 .. Cardinality(roots) - 1
  <2>1. \A l \in roots : l # kNoise /\ dense(l) = RankIn(roots, l) /\ RankIn(roots, l) # kNoise
    <3>1. \A l \in roots : l # kNoise /\ dense(l) = RankIn(roots, l)
      OBVIOUS
    <3>2. \A l \in roots : RankIn(roots, l) # kNoise
      <4> HIDE DEF roots
      <4> QED BY <1>4 DEF kNoise
    <3> QED BY <3>1, <3>2
  <2>2. {dense(label[i]) : i \in Points} \ {kNoise} = {RankIn(roots, l) : l \in roots}
    <3>1. ASSUME NEW x \in {dense(label[i]) : i \in Points} \ {kNoise}
          PROVE  x \in {RankIn(roots, l) : l \in roots}
      <4>1. PICK i \in Points : x = dense(label[i]) /\ x # kNoise
        BY <3>1
      <4>2. label[i] # kNoise
        BY <4>1
      <4>3. label[i] \in roots
        BY <4>2
      <4> QED BY <2>1, <4>1, <4>3
    <3>2. ASSUME NEW l \in roots
          PROVE  RankIn(roots, l) \in {dense(label[i]) : i \in Points} \ {kNoise}
      <4>1. PICK i \in Points : l = label[i]
        BY <3>2
      <4>2. dense(label[i]) = RankIn(roots, l) /\ RankIn(roots, l) # kNoise
        BY <2>1, <4>1
      <4> QED BY <4>2
    <3> QED BY <3>1, <3>2
  <2> QED BY <1>4, <2>2
<1>10. labels'.clusters = Cardinality(roots)
  BY <1>1
<1>11. \A S : WholeClusters(S)' <=> WholeClusters(S)
  BY <1>0, ClustersStay
<1> HIDE DEF roots, dense
<1>12. \A i, j \in isCore :
         labels'.of[labels'.perm[i]] = labels'.of[labels'.perm[j]]
           <=> \A S \in SUBSET Points : WholeClusters(S)' => (i \in S <=> j \in S)
  BY <1>0, <1>2, <1>6, <1>11 DEF Together
<1>13. \A i \in Points \ isCore :
         IF {j \in isCore : <<i, j>> \in near} = {} THEN labels'.of[labels'.perm[i]] = kNoise
         ELSE \E j \in {k \in isCore : <<i, k>> \in near} :
                labels'.of[labels'.perm[i]] = labels'.of[labels'.perm[j]]
  <2> SUFFICES ASSUME NEW i \in Points \ isCore
               PROVE  IF {j \in isCore : <<i, j>> \in near} = {}
                      THEN labels'.of[labels'.perm[i]] = kNoise
                      ELSE \E j \in {k \in isCore : <<i, k>> \in near} :
                             labels'.of[labels'.perm[i]] = labels'.of[labels'.perm[j]]
    OBVIOUS
  <2>1. CASE {j \in isCore : <<i, j>> \in near} = {}
    <3>1. dense(label[i]) = kNoise
      BY <1>7, <2>1
    <3> QED BY <1>2, <2>1, <3>1
  <2>2. CASE {j \in isCore : <<i, j>> \in near} # {}
    <3>1. PICK j \in {k \in isCore : <<i, k>> \in near} : dense(label[i]) = dense(label[j])
      BY <1>8, <2>2
    <3>2. j \in Points
      BY <1>0
    <3>3. labels'.of[labels'.perm[i]] = labels'.of[labels'.perm[j]]
      BY <1>2, <3>1, <3>2
    <3> QED BY <2>2, <3>3
  <2> QED BY <2>1, <2>2
<1>14. {labels'.of[labels'.perm[i]] : i \in Points} \ {kNoise} = 0 .. labels'.clusters - 1
  <2>1. {labels'.of[labels'.perm[i]] : i \in Points} = {dense(label[i]) : i \in Points}
    BY <1>2
  <2> QED BY <1>9, <1>10, <2>1
<1> QED BY <1>0, <1>12, <1>13, <1>14 DEF DbscanCorrect

\* No step of a thread disturbs what the labels rely on.
LEMMA AttachKept ==
  ASSUME ForestInv, ForestInv', AttachInv, [Next]_vars
  PROVE  AttachInv'
<1>t. TypeOK /\ TypeOK' /\ LinksDescend /\ StoresHarmless /\ LoadsInCluster' /\ UnitesOnTrack
  BY DEF ForestInv
<1>l. label \in [Points -> Points \cup {kNoise}]
  BY DEF AttachInv
<1>k. label' \in [Points -> Points \cup {kNoise}]
  <2>1. ASSUME NEW i \in Points, ThreadStep(i) PROVE label' \in [Points -> Points \cup {kNoise}]
    <3>1. CASE UNCHANGED label
      BY <1>l, <3>1
    <3>2. CASE Border(i) \/ LabelRoot(i)
      BY <1>l, <1>t, <3>2, SMTT(30) DEF Border, LabelRoot, TypeOK
    <3> QED BY <2>1, <3>1, <3>2 DEF ThreadStep, Visit, Climb, Halve, UniteRoot, Link
  <2> QED BY <1>l, <2>1 DEF Next, Begin, Attach, Collect, vars
<1> SUFFICES ASSUME phase' = "attach"
             PROVE  /\ \A x \in Points : x \in seen'[x] => parent'[x] = x
                    /\ \A k \in Points : Attaching(k)'
  BY <1>k DEF AttachInv
<1>s. ASSUME UNCHANGED <<near, isCore>>
      PROVE  /\ \A x, y : Together(x, y)' <=> Together(x, y)
             /\ \A k : Givers(k)' = Givers(k)
  <2>1. \A S : WholeClusters(S)' <=> WholeClusters(S)
    BY <1>s, ClustersStay
  <2> QED BY <1>s, <2>1 DEF Together, Givers
<1>1. CASE Attach
  <2>1. seen' = [x \in Points |-> {parent[x]}] /\ parent' = parent
    BY <1>1 DEF Attach
  <2>2. \A k \in Points : pc'[k] = "visit"
    BY <1>1 DEF Attach
  <2> QED BY <2>1, <2>2 DEF Attaching
<1>2. ASSUME phase = "attach", NEW i \in Points, Climb(i)
      PROVE  /\ \A x \in Points : x \in seen'[x] => parent'[x] = x
             /\ \A k \in Points : Attaching(k)'
  <2>1. /\ UNCHANGED <<near, isCore, parent, seen, want, node, side, label>>
        /\ pc[i] = "root" /\ pc' = [pc EXCEPT ![i] = "halve"]
    BY <1>2 DEF Climb
  <2>2. \A k \in Points : Attaching(k)'
    BY <1>2, <1>s, <1>t, <2>1 DEF AttachInv, Attaching, LabelFits, IsRoot, TypeOK
  <2> QED BY <1>2, <2>1, <2>2 DEF AttachInv
<1>3. ASSUME phase = "attach", NEW i \in Points, Halve(i)
      PROVE  /\ \A x \in Points : x \in seen'[x] => parent'[x] = x
             /\ \A k \in Points : Attaching(k)'
  <2>1. PICK c \in Points : c = node[i][1] /\ side[i] = 1 /\ want[i] \in Givers(i) /\ Together(c, want[i])
    <3>1. pc[i] = "halve" /\ node[i][1] \in Points
      BY <1>3, <1>t DEF Halve, TypeOK
    <3> QED BY <1>3, <3>1 DEF AttachInv, Attaching
  <2>2. /\ UNCHANGED <<near, isCore, want, side, label>> /\ up[i] \in Points
        /\ parent' = [parent EXCEPT ![c] = up[i]] /\ seen' = [seen EXCEPT ![c] = @ \cup {up[i]}]
        /\ pc[i] = "halve" /\ pc' = [pc EXCEPT ![i] = "root"]
    BY <1>3, <1>t, <2>1 DEF Halve, TypeOK
  <2>3. PICK x \in seen'[c] : node' = [node EXCEPT ![i][1] = x]
    BY <1>3, <2>1 DEF Halve
  <2>4. parent[c] # c /\ up[i] < c
    BY <1>t, <2>1, <2>2 DEF StoresHarmless, StoreHarmless
  <2>5. \A y : IsRoot(y) => IsRoot(y)'
    BY <1>t, <2>2, <2>4 DEF IsRoot, TypeOK
  <2>6. ASSUME NEW y \in Points, y \in seen'[y] PROVE parent'[y] = y
    <3>1. CASE y = c
      <4>1. c \in seen[c]
        BY <1>t, <2>2, <2>4, <2>6, <3>1, PointsInt DEF TypeOK
      <4> QED BY <1>3, <2>4, <4>1 DEF AttachInv
    <3>2. CASE y # c
      BY <1>3, <1>t, <2>2, <2>6, <3>2 DEF AttachInv, TypeOK
    <3> QED BY <3>1, <3>2
  <2>7. Together(x, want[i])
    <3>1. Together(c, x)'
      BY <1>t, <2>3 DEF LoadsInCluster, Together
    <3>2. Together(c, x)
      BY <1>s, <2>2, <3>1
    <3> QED BY <2>1, <3>2 DEF Together
  <2>8. Attaching(i)'
    <3>1. node'[i][1] = x /\ pc'[i] = "root" /\ want'[i] = want[i] /\ side'[i] = 1
      BY <1>t, <2>1, <2>2, <2>3 DEF TypeOK
    <3> QED BY <1>s, <2>1, <2>2, <2>7, <3>1 DEF Attaching
  <2>9. ASSUME NEW k \in Points, k # i PROVE Attaching(k)'
    <3>1. pc'[k] = pc[k] /\ node'[k] = node[k] /\ Attaching(k)
      BY <1>3, <1>t, <2>2, <2>3, <2>9 DEF AttachInv, TypeOK
    <3> QED BY <1>s, <2>2, <2>5, <3>1 DEF Attaching, LabelFits
  <2> QED BY <2>6, <2>8, <2>9
<1>4. ASSUME NEW i \in Points, Border(i)
      PROVE  /\ \A x \in Points : x \in seen'[x] => parent'[x] = x
             /\ \A k \in Points : Attaching(k)'
  <2>1. /\ phase = "attach" /\ UNCHANGED <<near, isCore, parent, seen>>
        /\ \A k \in Points : k # i => /\ pc'[k] = pc[k] /\ node'[k] = node[k] /\ side'[k] = side[k]
                                      /\ want'[k] = want[k] /\ label'[k] = label[k]
    <3>1. CASE UNCHANGED <<want, node, side>>
      BY <1>4, <1>l, <1>t, <3>1 DEF Border, TypeOK
    <3>2. CASE /\ UNCHANGED label /\ side' = [side EXCEPT ![i] = 1] /\ pc' = [pc EXCEPT ![i] = "root"]
               /\ \E j : /\ want' = [want EXCEPT ![i] = j]
                        /\ node' = [node EXCEPT ![i] = [s \in 1 .. 2 |-> j]]
      <4>1. PICK j : /\ want' = [want EXCEPT ![i] = j]
                     /\ node' = [node EXCEPT ![i] = [s \in 1 .. 2 |-> j]]
        BY <3>2
      <4>2. phase = "attach" /\ UNCHANGED <<near, isCore, parent, seen>>
        BY <1>4 DEF Border
      <4> QED BY <1>t, <3>2, <4>1, <4>2 DEF TypeOK
    <3> QED BY <1>4, <3>1, <3>2 DEF Border
  <2>2. Attaching(i)'
    <3>1. CASE \E j \in Givers(i) : /\ want' = [want EXCEPT ![i] = j]
                                    /\ node' = [node EXCEPT ![i] = [s \in 1 .. 2 |-> j]]
                                    /\ side' = [side EXCEPT ![i] = 1]
                                    /\ pc' = [pc EXCEPT ![i] = "root"]
      <4>1. PICK j \in Givers(i) : want'[i] = j /\ node'[i][1] = j /\ side'[i] = 1 /\ pc'[i] = "root"
        BY <1>t, <3>1 DEF TypeOK
      <4>2. Together(j, j) /\ Givers(i)' = Givers(i)
        BY <1>s, <2>1 DEF Together
      <4>3. Together(j, j)'
        BY <1>s, <2>1, <4>2
      <4> QED BY <4>1, <4>2, <4>3 DEF Attaching
    <3>2. CASE Givers(i) = {} /\ label' = [label EXCEPT ![i] = kNoise] /\ pc' = [pc EXCEPT ![i] = "done"]
      <4>1. pc'[i] = "done" /\ Givers(i)' = {} /\ label'[i] = kNoise
        BY <1>l, <1>s, <1>t, <2>1, <3>2 DEF TypeOK
      <4> QED BY <4>1 DEF Attaching, LabelFits
    <3> QED BY <1>4, <3>1, <3>2 DEF Border, Givers
  <2>3. ASSUME NEW k \in Points, k # i PROVE Attaching(k)'
    BY <1>s, <2>1, <2>3 DEF AttachInv, Attaching, LabelFits, IsRoot
  <2> QED BY <2>1, <2>2, <2>3 DEF AttachInv
<1>5. ASSUME NEW i \in Points, LabelRoot(i)
      PROVE  /\ \A x \in Points : x \in seen'[x] => parent'[x] = x
             /\ \A k \in Points : Attaching(k)'
  <2>1. /\ phase = "attach" /\ UNCHANGED <<near, isCore, parent, seen, want, node, side>>
        /\ pc[i] = "root" /\ pc'[i] = "done" /\ label'[i] = node[i][1]
        /\ node[i][1] \in Points /\ node[i][1] \in seen[node[i][1]]
        /\ \A k \in Points : k # i => pc'[k] = pc[k] /\ label'[k] = label[k]
    BY <1>5, <1>l, <1>t DEF LabelRoot, TypeOK
  <2>2. Attaching(i)'
    <3>1. IsRoot(node[i][1]) /\ want[i] \in Givers(i) /\ Together(node[i][1], want[i])
      BY <2>1 DEF AttachInv, Attaching, IsRoot
    <3> QED BY <1>s, <2>1, <3>1 DEF Attaching, LabelFits, IsRoot
  <2>3. ASSUME NEW k \in Points, k # i PROVE Attaching(k)'
    BY <1>s, <2>1, <2>3 DEF AttachInv, Attaching, LabelFits, IsRoot
  <2> QED BY <2>1, <2>2, <2>3 DEF AttachInv
<1>6. CASE UNCHANGED vars
  BY <1>6, <1>s DEF vars, AttachInv, Attaching, LabelFits, IsRoot
<1>7. \A i \in Points : ~Visit(i) /\ ~UniteRoot(i) /\ ~Link(i)
  BY <1>t DEF Visit, UniteRoot, Link, UnitesOnTrack, OnTrack
<1>8. ~Collect /\ \A m \in MinPts : ~Begin(m)
  BY DEF Collect, Begin
<1>9. \A i \in Points : Climb(i) \/ Halve(i) => phase = "attach"
  BY DEF Climb, Halve
<1> QED BY <1>1, <1>2, <1>3, <1>4, <1>5, <1>6, <1>7, <1>8, <1>9 DEF Next, ThreadStep

\* For any finite set of points, any symmetric relation of nearness, any value of
\* min_pts, any permutation of the build and any interleaving of both kernels:
\* dbscan() returns the clusters, the border points with one of them, and noise.
THEOREM LabelsAreClusters == Spec => []DbscanCorrect
<1>1. Init => AttachInv /\ DbscanCorrect
  BY DEF Init, AttachInv, DbscanCorrect
<1>2. ForestInv /\ ForestInv' /\ AttachInv /\ DbscanCorrect /\ [Next]_vars => AttachInv' /\ DbscanCorrect'
  <2> SUFFICES ASSUME ForestInv, ForestInv', AttachInv, DbscanCorrect, [Next]_vars
               PROVE  AttachInv' /\ DbscanCorrect'
    OBVIOUS
  <2>1. AttachInv'
    BY AttachKept
  <2>2. CASE Collect
    BY <2>1, <2>2, CollectCorrect
  <2>3. CASE UNCHANGED <<near, isCore, labels>> /\ (phase' = "done" => phase = "done")
    <3>1. \A S : WholeClusters(S)' <=> WholeClusters(S)
      BY <2>3, ClustersStay
    <3> QED BY <2>1, <2>3, <3>1 DEF DbscanCorrect
  <2>4. CASE phase' # "done"
    BY <2>1, <2>4 DEF DbscanCorrect
  <2>5. ASSUME NEW i \in Points, ThreadStep(i) PROVE UNCHANGED <<near, isCore, labels, phase>>
    BY <2>5 DEF ThreadStep, Visit, Climb, Halve, UniteRoot, Link, Border, LabelRoot
  <2>6. CASE UNCHANGED vars
    BY <2>3, <2>6 DEF vars
  <2>7. CASE Attach \/ \E m \in MinPts : Begin(m)
    BY <2>4, <2>7 DEF Attach, Begin
  <2> QED BY <2>2, <2>3, <2>5, <2>6, <2>7 DEF Next
<1> QED BY <1>1, <1>2, ForestCorrect, PTL DEF Spec

-----------------------------------------------------------------------------
(***************************************************************************)
(* Shortest paths.  Reach(s)[k] is what a schedule of k rounds without     *)
(* races would compute.  A value that a lane loads in round k is no worse  *)
(* than that, however old, and never below the best (Bounded), so a round  *)
(* makes up for one more edge (RelaxedSoFar).  That NumNodes - 1 rounds are *)
(* enough is LastRoundStands: an edge that still improved would come after *)
(* as many nodes as there are, all at least as near as its own end.        *)
(***************************************************************************)
SsspTypeOK ==
    /\ edges \in SUBSET (Nodes \X Nodes \X Nat) /\ source \in Nodes
    /\ stage \in {"idle", "relax", "done"}
    /\ dist \in [Nodes -> 0 .. Unreachable] /\ held \in [Nodes -> SUBSET (0 .. Unreachable)]
    /\ todo \in SUBSET edges /\ changed \in BOOLEAN /\ it \in 0 .. NumNodes - 1

Best(v) == Reach(source)[NumNodes - 1][v]
InRound(v) == Reach(source)[it][v]

\* No value a lane can load, and no present one, is below the best distance; those of
\* round it are as good as paths of it edges.
Bounded ==
    \A v \in Nodes :
        /\ dist[v] >= Best(v) /\ dist[v] <= InRound(v)
        /\ \A h \in held[v] : h >= Best(v) /\ h <= InRound(v)

\* An edge that has been relaxed is as good as one more edge on such a path.
RelaxedSoFar ==
    \A e \in edges \ todo : InRound(e[1]) < Unreachable => dist[e[2]] <= InRound(e[1]) + e[3]

\* As long as a round has changed nothing, the relaxed edges are at rest.
AtRest ==
    ~changed =>
        /\ \A v \in Nodes : held[v] = {dist[v]}
        /\ \A e \in edges \ todo : dist[e[1]] < Unreachable => dist[e[2]] <= dist[e[1]] + e[3]

SsspInv ==
    /\ SsspTypeOK
    /\ stage = "relax" => Bounded /\ RelaxedSoFar /\ AtRest /\ (it = NumNodes - 1 => ~changed)
    /\ stage = "done" => ~changed /\ \A v \in Nodes : dist[v] = Best(v)

\* A set of numbers has a least one.
LEMMA MinOf ==
  ASSUME NEW S, S \subseteq Nat, S # {}
  PROVE  Min(S) \in S /\ \A y \in S : Min(S) <= y
<1>1. PICK m \in S : \A y \in S : m <= y
  BY LeastNumber
<1>2. \E x \in S : \A y \in S : x <= y
  BY <1>1
<1>3. Min(S) = CHOOSE x \in S : \A y \in S : x <= y
  BY DEF Min
<1> HIDE DEF Min
<1> QED BY <1>2, <1>3

\* A function that is iterated on a set has its sequence of values.
Iteration(f, D, G, b, n) ==
    f \in [0 .. n -> D] /\ f[0] = b /\ \A k \in 0 .. n - 1 : f[k + 1] = G[f[k]]

LEMMA Iterates ==
  ASSUME NEW D, NEW G, G \in [D -> D], NEW b, b \in D, NEW n, n \in Nat
  PROVE  \E f : Iteration(f, D, G, b, n)
<1> DEFINE Good == {m \in Nat : \E f \in [0 .. m -> D] :
                                    f[0] = b /\ \A k \in 0 .. m - 1 : f[k + 1] = G[f[k]]}
<1>1. 0 \in Good
  <2> DEFINE f == [k \in 0 .. 0 |-> b]
  <2>1. f \in [0 .. 0 -> D] /\ f[0] = b /\ 0 .. 0 - 1 = {}
    OBVIOUS
  <2> QED BY <2>1
<1>2. ASSUME NEW m \in 0 .. n - 1, m \in Good PROVE m + 1 \in Good
  <2>1. PICK f \in [0 .. m -> D] : f[0] = b /\ \A k \in 0 .. m - 1 : f[k + 1] = G[f[k]]
    BY <1>2
  <2> DEFINE g == [k \in 0 .. m + 1 |-> IF k = m + 1 THEN G[f[m]] ELSE f[k]]
  <2>2. g \in [0 .. m + 1 -> D] /\ g[0] = b
    BY <2>1
  <2>3. ASSUME NEW k \in 0 .. m PROVE g[k + 1] = G[g[k]]
    <3>1. CASE k = m
      BY <2>1, <3>1
    <3>2. CASE k # m
      <4>1. k \in 0 .. m - 1 /\ k + 1 \in 0 .. m
        BY <3>2
      <4> QED BY <2>1, <4>1
    <3> QED BY <3>1, <3>2
  <2>4. m + 1 \in Nat /\ (m + 1) - 1 = m
    OBVIOUS
  <2> HIDE DEF g
  <2> QED BY <2>2, <2>3, <2>4
<1> HIDE DEF Good
<1>3. 0 .. n \subseteq Good
  BY <1>1, <1>2, NoCounterexample
<1>4. n \in Good
  BY <1>3
<1> QED BY <1>4 DEF Good, Iteration

\* One more edge: the right-hand side of Reach.
Candidates(d, v) ==
    {d[v]} \cup {d[e[1]] + e[3] : e \in {f \in edges : f[2] = v /\ d[f[1]] < Unreachable}}
Further(d) == [v \in Nodes |-> Min(Candidates(d, v))]
Distances == [Nodes -> 0 .. Unreachable]
EdgesOK == edges \in SUBSET (Nodes \X Nodes \X Nat)
From(s) == [v \in Nodes |-> IF v = s THEN 0 ELSE Unreachable]

LEMMA EdgeTypes ==
  ASSUME EdgesOK, NEW e \in edges
  PROVE  e[1] \in Nodes /\ e[2] \in Nodes /\ e[3] \in Nat
BY DEF EdgesOK

LEMMA FurtherIs ==
  ASSUME EdgesOK, NEW d \in Distances
  PROVE  /\ Further(d) \in Distances
         /\ \A v \in Nodes :
              /\ Further(d)[v] <= d[v]
              /\ \/ Further(d)[v] = d[v]
                 \/ \E e \in edges : e[2] = v /\ d[e[1]] < Unreachable /\ Further(d)[v] = d[e[1]] + e[3]
         /\ \A e \in edges : d[e[1]] < Unreachable => Further(d)[e[2]] <= d[e[1]] + e[3]
<1>0. Unreachable \in Nat
  BY SsspAssumption
<1>1. \A v \in Nodes : d[v] \in 0 .. Unreachable
  BY DEF Distances
<1>2. \A e \in edges : e[1] \in Nodes /\ e[2] \in Nodes /\ e[3] \in Nat /\ d[e[1]] + e[3] \in Nat
  BY <1>0, <1>1, EdgeTypes
<1>3. ASSUME NEW v \in Nodes
      PROVE  /\ Further(d)[v] \in Candidates(d, v)
             /\ \A c \in Candidates(d, v) : Further(d)[v] <= c
             /\ d[v] \in Candidates(d, v) /\ Candidates(d, v) \subseteq Nat
  <2>1. d[v] \in Candidates(d, v) /\ Candidates(d, v) \subseteq Nat
    BY <1>0, <1>1, <1>2 DEF Candidates
  <2>2. /\ Min(Candidates(d, v)) \in Candidates(d, v)
        /\ \A c \in Candidates(d, v) : Min(Candidates(d, v)) <= c
    BY <2>1, MinOf
  <2>3. Further(d)[v] = Min(Candidates(d, v))
    BY DEF Further
  <2> QED BY <2>1, <2>2, <2>3
<1>4. ASSUME NEW v \in Nodes PROVE Further(d)[v] <= d[v] /\ Further(d)[v] \in 0 .. Unreachable
  BY <1>0, <1>1, <1>3
<1>5. Further(d) \in Distances
  <2>1. \A v \in Nodes : Min(Candidates(d, v)) \in 0 .. Unreachable
    BY <1>4 DEF Further
  <2> QED BY <2>1 DEF Further, Distances
<1>6. ASSUME NEW v \in Nodes, Further(d)[v] # d[v]
      PROVE  \E e \in edges : e[2] = v /\ d[e[1]] < Unreachable /\ Further(d)[v] = d[e[1]] + e[3]
  BY <1>3, <1>6 DEF Candidates
<1>7. ASSUME NEW e \in edges, d[e[1]] < Unreachable PROVE Further(d)[e[2]] <= d[e[1]] + e[3]
  <2>1. d[e[1]] + e[3] \in Candidates(d, e[2])
    BY <1>7 DEF Candidates
  <2> QED BY <1>2, <1>3, <2>1
<1> QED BY <1>4, <1>5, <1>6, <1>7

\* Reach satisfies its recursion.
LEMMA ReachIs ==
  ASSUME EdgesOK, NEW s \in Nodes
  PROVE  /\ Reach(s) \in [0 .. NumNodes - 1 -> Distances]
         /\ Reach(s)[0] = From(s)
         /\ \A k \in 0 .. NumNodes - 2 : Reach(s)[k + 1] = Further(Reach(s)[k])
<1> DEFINE n == NumNodes - 1
           Body(f) == [k \in 0 .. n |-> IF k = 0 THEN From(s) ELSE Further(f[k - 1])]
           G == [d \in Distances |-> Further(d)]
<1>0. n \in Nat
  BY SsspAssumption
<1>1. Reach(s) = CHOOSE f : f = Body(f)
  BY DEF Reach, From, Further, Candidates
<1>2. From(s) \in Distances /\ G \in [Distances -> Distances]
  BY FurtherIs, SsspAssumption DEF From, Distances
<1>3. PICK f : Iteration(f, Distances, G, From(s), n)
  <2> HIDE DEF G, n
  <2> QED BY <1>0, <1>2, Iterates, Zenon
<1>p. f \in [0 .. n -> Distances] /\ f[0] = From(s) /\ \A k \in 0 .. n - 1 : f[k + 1] = G[f[k]]
  BY <1>3 DEF Iteration
<1>4. f = Body(f)
  <2>1. ASSUME NEW k \in 0 .. n PROVE f[k] = Body(f)[k]
    <3>1. CASE k = 0
      BY <1>p, <3>1
    <3>2. CASE k # 0
      <4>1. k - 1 \in 0 .. n - 1 /\ k - 1 \in 0 .. n /\ (k - 1) + 1 = k
        BY <1>0, <3>2
      <4>2. f[k] = G[f[k - 1]] /\ f[k - 1] \in Distances
        BY <1>p, <4>1
      <4> QED BY <3>2, <4>2
    <3> QED BY <3>1, <3>2
  <2>2. f = [k \in 0 .. n |-> f[k]] /\ Body(f) = [k \in 0 .. n |-> Body(f)[k]]
    BY <1>p
  <2> HIDE DEF Body
  <2> QED BY <2>1, <2>2
<1>5. Reach(s) = Body(Reach(s))
  <2> HIDE DEF Body
  <2> QED BY <1>1, <1>4
<1>6. Reach(s)[0] = From(s)
  BY <1>0, <1>5
<1>7. ASSUME NEW k \in 0 .. n - 1 PROVE Reach(s)[k + 1] = Further(Reach(s)[k])
  <2>1. k + 1 \in 0 .. n /\ k + 1 # 0 /\ (k + 1) - 1 = k
    BY <1>0
  <2>2. Body(Reach(s))[k + 1] = Further(Reach(s)[k])
    BY <2>1
  <2> HIDE DEF Body
  <2> QED BY <1>5, <2>2
<1>8. Reach(s) \in [0 .. n -> Distances]
  <2> DEFINE Good == {k \in Nat : Reach(s)[k] \in Distances}
  <2>1. 0 \in Good
    BY <1>2, <1>6
  <2>2. \A k \in 0 .. n - 1 : k \in Good => k + 1 \in Good
    BY <1>0, <1>7, FurtherIs
  <2> HIDE DEF Good
  <2>3. 0 .. n \subseteq Good
    BY <1>0, <2>1, <2>2, NoCounterexample
  <2>4. \A k \in 0 .. n : Reach(s)[k] \in Distances
    BY <2>3 DEF Good
  <2>5. Reach(s) = [k \in 0 .. n |-> Reach(s)[k]]
    <3>1. Body(Reach(s)) = [k \in 0 .. n |-> Body(Reach(s))[k]]
      OBVIOUS
    <3> HIDE DEF Body
    <3> QED BY <1>5, <3>1
  <2> QED BY <2>4, <2>5
<1>9. NumNodes - 2 = n - 1
  BY SsspAssumption
<1> QED BY <1>6, <1>7, <1>8, <1>9

\* Rounds: each is at least as good as the one before, and as one more edge after it.
LEMMA ReachFacts ==
  ASSUME EdgesOK, NEW s \in Nodes, NEW R, R = Reach(s)
  PROVE  /\ \A k \in 0 .. NumNodes - 1 : \A v \in Nodes : R[k][v] \in 0 .. Unreachable
         /\ \A v \in Nodes : R[0][v] = IF v = s THEN 0 ELSE Unreachable
         /\ \A k \in 0 .. NumNodes - 2 :
              /\ \A v \in Nodes :
                   /\ R[k + 1][v] <= R[k][v]
                   /\ \/ R[k + 1][v] = R[k][v]
                      \/ \E e \in edges : e[2] = v /\ R[k][e[1]] < Unreachable
                                          /\ R[k + 1][v] = R[k][e[1]] + e[3]
              /\ \A e \in edges : R[k][e[1]] < Unreachable => R[k + 1][e[2]] <= R[k][e[1]] + e[3]
<1>1. /\ R \in [0 .. NumNodes - 1 -> Distances] /\ R[0] = From(s)
      /\ \A k \in 0 .. NumNodes - 2 : R[k + 1] = Further(R[k])
  BY ReachIs
<1>2. \A k \in 0 .. NumNodes - 2 : k \in 0 .. NumNodes - 1
  BY SsspAssumption
<1>3. ASSUME NEW k \in 0 .. NumNodes - 2
      PROVE  /\ \A v \in Nodes :
                   /\ R[k + 1][v] <= R[k][v]
                   /\ \/ R[k + 1][v] = R[k][v]
                      \/ \E e \in edges : e[2] = v /\ R[k][e[1]] < Unreachable
                                          /\ R[k + 1][v] = R[k][e[1]] + e[3]
              /\ \A e \in edges : R[k][e[1]] < Unreachable => R[k + 1][e[2]] <= R[k][e[1]] + e[3]
  <2>1. PICK d \in Distances : d = R[k] /\ R[k + 1] = Further(d)
    BY <1>1, <1>2
  <2> QED BY <2>1, FurtherIs
<1>4. \A k \in 0 .. NumNodes - 1 : \A v \in Nodes : R[k][v] \in 0 .. Unreachable
  BY <1>1 DEF Distances
<1>5. \A v \in Nodes : R[0][v] = IF v = s THEN 0 ELSE Unreachable
  BY <1>1 DEF From
<1> QED BY <1>3, <1>4, <1>5

\* The last round is never beaten: an edge that improved on round k would come
\* after k + 1 nodes that are all as near as its own path, so after all of them.
LEMMA LastRoundStands ==
  ASSUME EdgesOK, NEW s \in Nodes, NEW R, R = Reach(s), NEW e \in edges,
         R[NumNodes - 1][e[1]] < Unreachable
  PROVE  R[NumNodes - 1][e[2]] <= R[NumNodes - 1][e[1]] + e[3]
<1> DEFINE n == NumNodes - 1
           Improves(k, f) == R[k][f[1]] < Unreachable /\ R[k][f[2]] > R[k][f[1]] + f[3]
           Near(k, f, A) == /\ A \subseteq Nodes /\ IsFiniteSet(A) /\ Cardinality(A) = k + 1
                            /\ \A a \in A : R[k][a] <= R[k][f[1]] + f[3]
           Good == {k \in Nat : \A f \in edges : Improves(k, f) => \E A : Near(k, f, A)}
<1>0. n \in Nat /\ NumNodes - 2 = n - 1 /\ Unreachable \in Nat
  BY SsspAssumption
<1>e. \A f \in edges : f[1] \in Nodes /\ f[2] \in Nodes /\ f[3] \in Nat
  BY EdgeTypes
<1>r. /\ \A k \in 0 .. n : \A v \in Nodes : R[k][v] \in 0 .. Unreachable
      /\ \A k \in 0 .. n - 1 :
              /\ \A v \in Nodes :
                   /\ R[k + 1][v] <= R[k][v]
                   /\ \/ R[k + 1][v] = R[k][v]
                      \/ \E f \in edges : f[2] = v /\ R[k][f[1]] < Unreachable
                                          /\ R[k + 1][v] = R[k][f[1]] + f[3]
              /\ \A f \in edges : R[k][f[1]] < Unreachable => R[k + 1][f[2]] <= R[k][f[1]] + f[3]
  BY <1>0, ReachFacts
<1>1. ASSUME NEW f \in edges PROVE \E A : Near(0, f, A)
  <2> DEFINE A == {f[1]}
  <2>1. IsFiniteSet(A) /\ Cardinality(A) = 1
    BY FS_Singleton
  <2>2. R[0][f[1]] <= R[0][f[1]] + f[3]
    BY <1>0, <1>e, <1>r
  <2>3. Near(0, f, A)
    BY <1>e, <2>1, <2>2
  <2> HIDE DEF A, Near
  <2> QED BY <2>3
<1>2. 0 \in Good
  <2> HIDE DEF Near, Improves
  <2> QED BY <1>1
<1>3. ASSUME NEW k \in 0 .. n - 1, k \in Good PROVE k + 1 \in Good
  <2> SUFFICES ASSUME NEW f \in edges, Improves(k + 1, f) PROVE \E A : Near(k + 1, f, A)
    BY <1>0
  <2> DEFINE u == f[1]
  <2>1. k \in 0 .. n /\ k + 1 \in 0 .. n /\ k \in Nat
    BY <1>0
  <2>2. /\ u \in Nodes /\ R[k][u] \in 0 .. Unreachable /\ R[k + 1][u] \in 0 .. Unreachable
        /\ R[k + 1][u] <= R[k][u] /\ f[3] \in Nat /\ R[k + 1][u] < Unreachable
    BY <1>e, <1>r, <2>1
  <2>3. R[k + 1][u] # R[k][u]
    <3>1. R[k + 1][u] < Unreachable /\ R[k + 1][f[2]] > R[k + 1][u] + f[3]
      OBVIOUS
    <3>2. R[k][u] < Unreachable => R[k + 1][f[2]] <= R[k][u] + f[3]
      BY <1>r
    <3>3. R[k + 1][f[2]] \in Nat
      BY <1>0, <1>e, <1>r, <2>1
    <3> QED BY <1>0, <2>2, <3>1, <3>2, <3>3
  <2>4. PICK g \in edges : g[2] = u /\ R[k][g[1]] < Unreachable /\ R[k + 1][u] = R[k][g[1]] + g[3]
    BY <1>r, <2>2, <2>3
  <2>5. Improves(k, g)
    BY <2>2, <2>3, <2>4
  <2>6. PICK B : Near(k, g, B)
    <3> HIDE DEF Near, Improves
    <3> QED BY <1>3, <2>5
  <2> DEFINE A == B \cup {u}
  <2>7. \A a \in B : a \in Nodes /\ R[k][a] <= R[k + 1][u]
    BY <2>4, <2>6
  <2>8. u \notin B
    BY <2>2, <2>3, <2>7
  <2>9. IsFiniteSet(A) /\ Cardinality(A) = (k + 1) + 1
    BY <2>6, <2>8, FS_AddElement
  <2>10. A \subseteq Nodes
    BY <2>2, <2>7
  <2>11. ASSUME NEW a \in A PROVE R[k + 1][a] <= R[k + 1][u] + f[3]
    <3>1. CASE a = u
      BY <1>0, <2>2, <3>1
    <3>2. CASE a \in B
      <4>1. R[k + 1][a] <= R[k][a] /\ R[k][a] <= R[k + 1][u] /\ a \in Nodes
        BY <1>r, <2>7, <3>2
      <4>2. R[k][a] \in Nat /\ R[k + 1][a] \in Nat /\ R[k + 1][u] \in Nat
        BY <1>0, <1>r, <2>1, <2>2, <4>1
      <4> QED BY <2>2, <4>1, <4>2
    <3> QED BY <3>1, <3>2
  <2>12. Near(k + 1, f, A)
    BY <2>9, <2>10, <2>11
  <2> HIDE DEF A, Near
  <2> QED BY <2>12
<1>4. n \in Good
  <2> HIDE DEF Good
  <2>1. 0 .. n \subseteq Good
    BY <1>0, <1>2, <1>3, NoCounterexample
  <2> QED BY <1>0, <2>1
<1>5. ~Improves(n, e)
  <2> SUFFICES ASSUME Improves(n, e) PROVE FALSE
    OBVIOUS
  <2>1. PICK A : Near(n, e, A)
    <3> HIDE DEF Near, Improves
    <3> QED BY <1>4
  <2>2. IsFiniteSet(Nodes) /\ Cardinality(Nodes) = n + 1
    BY <1>0, FS_Interval, SsspAssumption DEF Nodes
  <2>3. A = Nodes
    BY <1>0, <2>1, <2>2, FS_Subset
  <2>4. R[n][e[2]] <= R[n][e[1]] + e[3]
    BY <1>e, <2>1, <2>3
  <2>5. R[n][e[2]] \in Nat /\ R[n][e[1]] \in Nat /\ e[3] \in Nat
    BY <1>0, <1>e, <1>r
  <2> QED BY <2>4, <2>5
<1>6. R[n][e[2]] \in Nat /\ R[n][e[1]] \in Nat /\ e[3] \in Nat
  BY <1>0, <1>e, <1>r
<1> QED BY <1>5, <1>6

\* Reach names one function as long as the graph is the same one.
LEMMA ReachSame == ASSUME NEW s, edges' = edges PROVE Reach(s)' = Reach(s)
BY DEF Reach

\* More rounds are never worse.
LEMMA RoundsDescend ==
  ASSUME EdgesOK, NEW s \in Nodes, NEW R, R = Reach(s), NEW n \in 0 .. NumNodes - 1
  PROVE  \A k \in 0 .. n : \A v \in Nodes : R[n][v] <= R[n - k][v]
<1> DEFINE Down == {k \in Nat : k <= n => \A v \in Nodes : R[n][v] <= R[n - k][v]}
<1>0. n \in Nat /\ Unreachable \in Nat /\ NumNodes \in Nat
  BY SsspAssumption
<1>r. /\ \A k \in 0 .. NumNodes - 1 : \A v \in Nodes : R[k][v] \in 0 .. Unreachable
      /\ \A k \in 0 .. NumNodes - 2 : \A v \in Nodes : R[k + 1][v] <= R[k][v]
  BY ReachFacts
<1>1. 0 \in Down
  BY <1>0, <1>r
<1>2. ASSUME NEW k \in 0 .. n - 1, k \in Down PROVE k + 1 \in Down
  <2>1. /\ n - (k + 1) \in 0 .. NumNodes - 2 /\ (n - (k + 1)) + 1 = n - k
        /\ n - k \in 0 .. NumNodes - 1 /\ n - (k + 1) \in 0 .. NumNodes - 1
    BY <1>0
  <2>2. ASSUME NEW v \in Nodes PROVE R[n][v] <= R[n - (k + 1)][v]
    <3>1. R[n][v] <= R[n - k][v] /\ R[n - k][v] <= R[n - (k + 1)][v]
      BY <1>r, <1>2, <2>1
    <3>2. R[n][v] \in Nat /\ R[n - k][v] \in Nat /\ R[n - (k + 1)][v] \in Nat
      BY <1>0, <1>r, <2>1
    <3> QED BY <3>1, <3>2
  <2> QED BY <2>2
<1> HIDE DEF Down
<1>3. 0 .. n \subseteq Down
  BY <1>0, <1>1, <1>2, NoCounterexample
<1> QED BY <1>3 DEF Down

\* A rest of the relaxation is as good as every round.
LEMMA RestIsBest ==
  ASSUME EdgesOK, source \in Nodes, dist \in [Nodes -> 0 .. Unreachable],
         it \in 0 .. NumNodes - 1,
         \A v \in Nodes : dist[v] <= InRound(v),
         \A e \in edges : dist[e[1]] < Unreachable => dist[e[2]] <= dist[e[1]] + e[3]
  PROVE  \A v \in Nodes : dist[v] <= Best(v)
<1> PICK R : R = Reach(source)
  OBVIOUS
<1> DEFINE n == NumNodes - 1
           Good == {k \in Nat : \A v \in Nodes : dist[v] <= R[k][v]}
<1>0. n \in Nat /\ NumNodes - 2 = n - 1 /\ Unreachable \in Nat
  BY SsspAssumption
<1>e. \A f \in edges : f[1] \in Nodes /\ f[2] \in Nodes /\ f[3] \in Nat
  BY EdgeTypes
<1>r. /\ \A k \in 0 .. n : \A v \in Nodes : R[k][v] \in 0 .. Unreachable
      /\ \A v \in Nodes : R[0][v] = IF v = source THEN 0 ELSE Unreachable
      /\ \A k \in 0 .. n - 1 : \A v \in Nodes :
                   /\ R[k + 1][v] <= R[k][v]
                   /\ \/ R[k + 1][v] = R[k][v]
                      \/ \E f \in edges : f[2] = v /\ R[k][f[1]] < Unreachable
                                          /\ R[k + 1][v] = R[k][f[1]] + f[3]
  <2>1. source \in Nodes
    OBVIOUS
  <2>2. \A k \in 0 .. NumNodes - 1 : \A v \in Nodes : R[k][v] \in 0 .. Unreachable
    BY <2>1, ReachFacts
  <2>3. \A v \in Nodes : R[0][v] = IF v = source THEN 0 ELSE Unreachable
    BY <2>1, ReachFacts
  <2>4. \A k \in 0 .. NumNodes - 2 : \A v \in Nodes :
                   /\ R[k + 1][v] <= R[k][v]
                   /\ \/ R[k + 1][v] = R[k][v]
                      \/ \E f \in edges : f[2] = v /\ R[k][f[1]] < Unreachable
                                          /\ R[k + 1][v] = R[k][f[1]] + f[3]
    BY <2>1, ReachFacts
  <2> QED BY <1>0, <2>2, <2>3, <2>4
<1>d. \A v \in Nodes : dist[v] \in 0 .. Unreachable
  OBVIOUS
<1>1. 0 \in Good
  <2>3. \A v \in Nodes : R[it][v] <= R[it - it][v]
    BY <1>0, RoundsDescend
  <2>4. \A v \in Nodes : dist[v] <= R[it][v] /\ R[it][v] <= R[0][v]
    BY <1>0, <2>3 DEF InRound
  <2>5. \A v \in Nodes : dist[v] <= R[0][v]
    BY <1>0, <1>d, <1>r, <2>4
  <2> QED BY <2>5
<1>2. ASSUME NEW k \in 0 .. n - 1, k \in Good PROVE k + 1 \in Good
  <2>0. k \in Nat /\ k \in 0 .. n /\ k + 1 \in 0 .. n
    BY <1>0
  <2>1. ASSUME NEW v \in Nodes PROVE dist[v] <= R[k + 1][v]
    <3>1. CASE R[k + 1][v] = R[k][v]
      BY <1>2, <3>1
    <3>2. CASE \E f \in edges : f[2] = v /\ R[k][f[1]] < Unreachable
                                /\ R[k + 1][v] = R[k][f[1]] + f[3]
      <4>1. PICK f \in edges : f[2] = v /\ R[k][f[1]] < Unreachable
                                /\ R[k + 1][v] = R[k][f[1]] + f[3]
        BY <3>2
      <4>2. dist[f[1]] <= R[k][f[1]] /\ f[1] \in Nodes
        BY <1>2, <1>e
      <4>3. R[k][f[1]] \in Nat /\ dist[f[1]] \in Nat /\ f[3] \in Nat /\ dist[v] \in Nat
        BY <1>0, <1>d, <1>e, <1>r, <2>0, <4>2
      <4>4. dist[v] <= dist[f[1]] + f[3]
        BY <1>0, <4>1, <4>2, <4>3
      <4> QED BY <4>1, <4>2, <4>3, <4>4
    <3> QED BY <1>r, <3>1, <3>2
  <2> QED BY <2>0, <2>1
<1>3. n \in Good
  <2> HIDE DEF Good
  <2> QED BY <1>0, <1>1, <1>2, NoCounterexample
<1> QED BY <1>3 DEF Best

LEMMA SsspInitInv == SsspInit => SsspInv
<1> SUFFICES ASSUME SsspInit PROVE SsspInv
  OBVIOUS
<1>1. Unreachable \in 0 .. Unreachable /\ 0 \in 0 .. NumNodes - 1
  BY SsspAssumption
<1>2. edges \in SUBSET (Nodes \X Nodes \X Nat)
  BY SsspAssumption DEF SsspInit
<1> QED BY <1>1, <1>2 DEF SsspInit, SsspInv, SsspTypeOK

LEMMA SsspBeginInv ==
  ASSUME SsspInv, NEW s \in Nodes, SsspBegin(s) PROVE SsspInv'
<1>0. EdgesOK /\ edges' = edges /\ 0 \in 0 .. NumNodes - 1 /\ Unreachable \in Nat
  BY SsspAssumption DEF SsspInv, SsspTypeOK, EdgesOK, SsspBegin
<1>1. /\ source' = s /\ stage' = "relax" /\ it' = 0 /\ todo' = edges /\ changed' = FALSE
      /\ dist' = [v \in Nodes |-> IF v = s THEN 0 ELSE Unreachable]
      /\ held' = [v \in Nodes |-> {dist'[v]}]
  BY DEF SsspBegin
<1>2. \A v \in Nodes : dist'[v] = (IF v = s THEN 0 ELSE Unreachable) /\ held'[v] = {dist'[v]}
  BY <1>1
<1>3. SsspTypeOK'
  <2>1. \A v \in Nodes : dist'[v] \in 0 .. Unreachable
    BY <1>0, <1>2
  <2>2. dist' \in [Nodes -> 0 .. Unreachable] /\ held' \in [Nodes -> SUBSET (0 .. Unreachable)]
    BY <1>1, <2>1
  <2> QED BY <1>0, <1>1, <2>2 DEF SsspTypeOK, EdgesOK
<1>4. PICK R : R = Reach(s)
  OBVIOUS
<1>5. Reach(source)' = R
  BY <1>0, <1>1, <1>4, ReachSame
<1>6. \A v \in Nodes : R[0][v] = dist'[v]
  BY <1>0, <1>2, <1>4, ReachFacts
<1>7. \A v \in Nodes : R[NumNodes - 1][v] <= R[0][v]
  <2>1. NumNodes - 1 \in 0 .. NumNodes - 1 /\ (NumNodes - 1) - (NumNodes - 1) = 0
    BY SsspAssumption
  <2> QED BY <1>0, <1>4, <2>1, RoundsDescend
<1>8. \A v \in Nodes : dist'[v] \in Nat /\ R[NumNodes - 1][v] \in Nat
  <2>1. NumNodes - 1 \in 0 .. NumNodes - 1
    BY SsspAssumption
  <2> QED BY <1>0, <1>2, <1>4, <2>1, ReachFacts
<1>9. Bounded'
  BY <1>1, <1>2, <1>5, <1>6, <1>7, <1>8 DEF Bounded, Best, InRound
<1>10. RelaxedSoFar' /\ AtRest'
  BY <1>0, <1>1, <1>2 DEF RelaxedSoFar, AtRest
<1> QED BY <1>1, <1>3, <1>9, <1>10 DEF SsspInv

\* One edge of a round: what it writes is the length of a path of one edge more.
LEMMA RelaxInv ==
  ASSUME SsspInv, NEW e \in todo, Relax(e) PROVE SsspInv'
<1>0. /\ SsspTypeOK /\ EdgesOK /\ edges' = edges /\ source' = source /\ stage = "relax"
      /\ stage' = stage /\ it' = it /\ todo' = todo \ {e} /\ e \in edges
      /\ Bounded /\ RelaxedSoFar /\ AtRest /\ (it = NumNodes - 1 => ~changed)
  BY DEF SsspInv, SsspTypeOK, EdgesOK, Relax
<1>1. PICK R : R = Reach(source)
  OBVIOUS
<1>2. Reach(source)' = R
  BY <1>0, <1>1, ReachSame
<1>3. PICK n, u, v, w : n = NumNodes - 1 /\ u = e[1] /\ v = e[2] /\ w = e[3]
  OBVIOUS
<1>4. /\ u \in Nodes /\ v \in Nodes /\ w \in Nat /\ n \in Nat /\ Unreachable \in Nat
      /\ it \in 0 .. n /\ n \in 0 .. n
  BY <1>0, <1>3, EdgeTypes, SsspAssumption DEF SsspTypeOK
<1>5. \A k \in 0 .. n : \A x \in Nodes : R[k][x] \in Nat
  BY <1>0, <1>1, <1>3, ReachFacts DEF SsspTypeOK
<1>6. \A x \in Nodes : dist[x] \in 0 .. Unreachable /\ dist[x] \in Nat
                       /\ \A h \in held[x] : h \in 0 .. Unreachable /\ h \in Nat
  BY <1>4, <1>0 DEF SsspTypeOK
<1>7. \A x \in Nodes : /\ dist[x] >= R[n][x] /\ dist[x] <= R[it][x]
                       /\ \A h \in held[x] : h >= R[n][x] /\ h <= R[it][x]
  BY <1>0, <1>1, <1>3 DEF Bounded, Best, InRound
<1>8. PICK du \in held[u] :
         IF du < Unreachable /\ dist[v] > du + w
         THEN /\ dist' = [dist EXCEPT ![v] = du + w]
              /\ held' = [held EXCEPT ![v] = @ \cup {du + w}]
              /\ changed' = TRUE
         ELSE UNCHANGED <<dist, held, changed>>
  BY <1>3 DEF Relax
<1>9. du \in Nat /\ du + w \in Nat /\ du >= R[n][u] /\ du <= R[it][u]
  BY <1>4, <1>6, <1>7
<1>10. R[n][u] < Unreachable => R[n][v] <= R[n][u] + w
  BY <1>0, <1>1, <1>3, LastRoundStands DEF SsspTypeOK
<1>11. du < Unreachable => R[n][v] <= du + w
  BY <1>4, <1>5, <1>9, <1>10
<1>12. CASE du < Unreachable /\ dist[v] > du + w
  <2>1. /\ dist' = [dist EXCEPT ![v] = du + w] /\ changed' = TRUE
        /\ held' = [held EXCEPT ![v] = @ \cup {du + w}]
    BY <1>8, <1>12
  <2>2. \A x \in Nodes : /\ dist'[x] = IF x = v THEN du + w ELSE dist[x]
                         /\ held'[x] = IF x = v THEN held[x] \cup {du + w} ELSE held[x]
    BY <1>0, <2>1 DEF SsspTypeOK
  <2>3. du + w \in 0 .. Unreachable /\ du + w < dist[v]
    BY <1>4, <1>6, <1>9, <1>12
  <2>4. SsspTypeOK'
    BY <1>0, <1>4, <2>1, <2>3 DEF SsspTypeOK
  <2>5. R[n][v] <= du + w /\ du + w <= R[it][v]
    BY <1>4, <1>5, <1>6, <1>7, <1>9, <1>11, <1>12
  <2>6. Bounded'
    <3>1. \A x \in Nodes : /\ dist'[x] >= R[n][x] /\ dist'[x] <= R[it][x]
                           /\ \A h \in held'[x] : h >= R[n][x] /\ h <= R[it][x]
      BY <1>7, <2>2, <2>5
    <3> QED BY <1>0, <1>2, <1>3, <3>1 DEF Bounded, Best, InRound
  <2>7. ASSUME NEW f \in edges \ todo', R[it][f[1]] < Unreachable PROVE dist'[f[2]] <= R[it][f[1]] + f[3]
    <3>0. f[1] \in Nodes /\ f[2] \in Nodes /\ f[3] \in Nat
      BY <1>0, EdgeTypes
    <3>1. CASE f = e
      <4>1. dist'[f[2]] = du + w /\ f[1] = u /\ f[3] = w
        BY <1>3, <1>4, <2>2, <3>1
      <4>2. R[it][u] \in Nat /\ du <= R[it][u] /\ w \in Nat /\ du \in Nat
        BY <1>4, <1>5, <1>9
      <4> QED BY <4>1, <4>2
    <3>2. CASE f # e
      <4>1. f \in edges \ todo
        BY <1>0, <3>2
      <4>2. dist[f[2]] <= R[it][f[1]] + f[3]
        BY <1>0, <1>1, <2>7, <4>1 DEF RelaxedSoFar, InRound
      <4>3. PICK y \in Nodes : y = f[2]
        BY <3>0
      <4>4. dist'[y] = (IF y = v THEN du + w ELSE dist[y]) /\ dist[y] \in Nat /\ dist[v] \in Nat
        BY <1>4, <1>6, <2>2
      <4>5. dist'[y] <= dist[y] /\ dist'[y] \in Nat
        BY <1>9, <2>3, <4>4
      <4>6. R[it][f[1]] \in Nat /\ f[3] \in Nat
        BY <1>4, <1>5, <3>0
      <4> QED BY <4>2, <4>3, <4>4, <4>5, <4>6
    <3> QED BY <3>1, <3>2
  <2>8. RelaxedSoFar'
    BY <1>0, <1>2, <2>7 DEF RelaxedSoFar, InRound
  <2>9. AtRest'
    BY <2>1 DEF AtRest
  <2>10. it # n
    BY <1>4, <1>5, <1>6, <1>7, <1>11, <1>12
  <2> QED BY <1>0, <1>3, <2>4, <2>6, <2>8, <2>9, <2>10 DEF SsspInv
<1>13. CASE ~(du < Unreachable /\ dist[v] > du + w)
  <2>1. dist' = dist /\ held' = held /\ changed' = changed
    BY <1>8, <1>13
  <2>2. SsspTypeOK'
    BY <1>0, <2>1 DEF SsspTypeOK
  <2>3. Bounded'
    BY <1>0, <1>1, <1>2, <2>1 DEF Bounded, Best, InRound
  <2>4. ASSUME NEW f \in edges \ todo', R[it][f[1]] < Unreachable PROVE dist[f[2]] <= R[it][f[1]] + f[3]
    <3>1. CASE f = e
      <4>1. du < Unreachable
        BY <1>3, <1>4, <1>5, <1>9, <2>4, <3>1
      <4>2. dist[v] <= du + w
        BY <1>4, <1>6, <1>9, <1>13, <4>1
      <4> QED BY <1>3, <1>4, <1>5, <1>6, <1>9, <3>1, <4>2
    <3>2. CASE f # e
      <4>1. f \in edges \ todo
        BY <1>0, <3>2
      <4> QED BY <1>0, <1>1, <2>4, <4>1 DEF RelaxedSoFar, InRound
    <3> QED BY <3>1, <3>2
  <2>5. RelaxedSoFar'
    BY <1>0, <1>2, <2>1, <2>4 DEF RelaxedSoFar, InRound
  <2>6. ASSUME ~changed, NEW f \in edges \ todo', dist[f[1]] < Unreachable
        PROVE  dist[f[2]] <= dist[f[1]] + f[3]
    <3>1. CASE f = e
      <4>1. du = dist[u]
        BY <1>0, <1>4, <2>6 DEF AtRest
      <4> QED BY <1>3, <1>4, <1>6, <1>9, <1>13, <2>6, <3>1, <4>1
    <3>2. CASE f # e
      <4>1. f \in edges \ todo
        BY <1>0, <3>2
      <4> QED BY <1>0, <2>6, <4>1 DEF AtRest
    <3> QED BY <3>1, <3>2
  <2>7. AtRest'
    BY <1>0, <2>1, <2>6 DEF AtRest
  <2> QED BY <1>0, <2>1, <2>2, <2>3, <2>5, <2>7 DEF SsspInv
<1> QED BY <1>12, <1>13

\* A round that changed something is followed by another, one that changed nothing
\* is the last.
LEMMA RoundEndInv ==
  ASSUME SsspInv, RoundEnd PROVE SsspInv'
<1>0. /\ SsspTypeOK /\ EdgesOK /\ edges' = edges /\ source' = source /\ dist' = dist
      /\ stage = "relax" /\ todo = {}
      /\ Bounded /\ RelaxedSoFar /\ AtRest /\ (it = NumNodes - 1 => ~changed)
  BY DEF SsspInv, SsspTypeOK, EdgesOK, RoundEnd
<1>1. PICK R : R = Reach(source)
  OBVIOUS
<1>2. Reach(source)' = R
  BY <1>0, <1>1, ReachSame
<1>3. PICK n : n = NumNodes - 1 /\ n \in Nat /\ it \in 0 .. n /\ NumNodes \in Nat /\ Unreachable \in Nat
  BY <1>0, SsspAssumption DEF SsspTypeOK
<1>4. \A k \in 0 .. n : \A x \in Nodes : R[k][x] \in Nat
  BY <1>0, <1>1, <1>3, ReachFacts DEF SsspTypeOK
<1>5. \A x \in Nodes : dist[x] \in 0 .. Unreachable /\ dist[x] \in Nat
  BY <1>0, <1>3 DEF SsspTypeOK
<1>6. \A x \in Nodes : dist[x] >= R[n][x] /\ dist[x] <= R[it][x]
  BY <1>0, <1>1, <1>3 DEF Bounded, Best, InRound
<1>7. CASE ~changed
  <2>1. stage' = "done" /\ UNCHANGED <<held, todo, changed, it>>
    BY <1>7 DEF RoundEnd
  <2>2. \A v \in Nodes : dist[v] <= Best(v)
    <3>1. \A v \in Nodes : dist[v] <= InRound(v)
      BY <1>0 DEF Bounded
    <3>2. \A e \in edges : dist[e[1]] < Unreachable => dist[e[2]] <= dist[e[1]] + e[3]
      BY <1>0, <1>7 DEF AtRest
    <3> QED BY <1>0, <3>1, <3>2, RestIsBest DEF SsspTypeOK
  <2>3. \A v \in Nodes : dist[v] = R[n][v]
    BY <1>1, <1>3, <1>4, <1>5, <1>6, <2>2 DEF Best
  <2>4. SsspTypeOK'
    BY <1>0, <2>1 DEF SsspTypeOK
  <2> QED BY <1>0, <1>2, <1>3, <1>7, <2>1, <2>3, <2>4 DEF SsspInv, Best
<1>8. CASE changed
  <2>1. it' = it + 1 /\ it < n /\ it' \in 0 .. n /\ it \in 0 .. NumNodes - 2 /\ it' < NumNodes
    BY <1>0, <1>3, <1>8 DEF RoundEnd
  <2>2. /\ held' = [v \in Nodes |-> {dist[v]}] /\ todo' = edges /\ changed' = FALSE
        /\ stage' = "relax"
    BY <1>0, <1>8, <2>1 DEF RoundEnd
  <2>3. SsspTypeOK'
    <3>1. held' \in [Nodes -> SUBSET (0 .. Unreachable)]
      BY <1>5, <2>2
    <3> QED BY <1>0, <1>3, <2>1, <2>2, <3>1 DEF SsspTypeOK
  <2>4. ASSUME NEW v \in Nodes PROVE dist[v] <= R[it + 1][v]
    <3>1. CASE R[it + 1][v] = R[it][v]
      BY <1>6, <3>1
    <3>2. CASE R[it + 1][v] # R[it][v]
      <4>1. PICK e \in edges : e[2] = v /\ R[it][e[1]] < Unreachable /\ R[it + 1][v] = R[it][e[1]] + e[3]
        BY <1>0, <1>1, <2>1, <3>2, ReachFacts DEF SsspTypeOK
      <4>2. dist[v] <= R[it][e[1]] + e[3]
        BY <1>0, <1>1, <4>1 DEF RelaxedSoFar, InRound
      <4> QED BY <4>1, <4>2
    <3> QED BY <3>1, <3>2
  <2>5. \A v \in Nodes : held'[v] = {dist[v]}
    BY <2>2
  <2>6. Bounded'
    BY <1>0, <1>2, <1>3, <1>6, <2>1, <2>4, <2>5 DEF Bounded, Best, InRound
  <2>7. RelaxedSoFar' /\ AtRest'
    BY <1>0, <2>2, <2>5 DEF RelaxedSoFar, AtRest
  <2> QED BY <2>2, <2>3, <2>6, <2>7 DEF SsspInv
<1> QED BY <1>0, <1>7, <1>8 DEF SsspTypeOK

LEMMA SsspStepInv ==
  ASSUME SsspInv, [SsspNext]_ssspVars PROVE SsspInv'
<1>1. CASE UNCHANGED ssspVars
  <2>1. Reach(source)' = Reach(source)
    BY <1>1, ReachSame DEF ssspVars
  <2>2. SsspTypeOK'
    BY <1>1 DEF SsspInv, SsspTypeOK, ssspVars
  <2>3. stage = "relax" => Bounded' /\ RelaxedSoFar' /\ AtRest'
    BY <1>1, <2>1 DEF SsspInv, ssspVars, Bounded, RelaxedSoFar, AtRest, Best, InRound
  <2>4. stage = "done" => \A v \in Nodes : Best(v)' = Best(v)
    BY <2>1 DEF Best
  <2> QED BY <1>1, <2>2, <2>3, <2>4 DEF SsspInv, ssspVars
<1> QED BY <1>1, SsspBeginInv, RelaxInv, RoundEndInv DEF SsspNext

\* For every graph with non-negative weights, however old the distances that lanes
\* load: after k rounds a node whose best path has at most k edges is settled, no
\* distance is ever too small, and the call ends with the exact distances because a
\* round changed nothing, never because the rounds ran out.
THEOREM SsspCorrect == SsspSpec => []SsspExact
<1>1. SsspInv => SsspExact
  <2> SUFFICES ASSUME SsspInv PROVE SsspExact
    OBVIOUS
  <2>1. PICK R, n : R = Reach(source) /\ n = NumNodes - 1
    OBVIOUS
  <2>2. /\ EdgesOK /\ source \in Nodes /\ n \in Nat /\ it \in 0 .. n /\ Unreachable \in Nat
        /\ \A v \in Nodes : dist[v] \in Nat
    BY <2>1, SsspAssumption DEF SsspInv, SsspTypeOK, EdgesOK
  <2>3. Min({it, n}) = it
    <3>1. {it, n} \subseteq Nat /\ {it, n} # {}
      BY <2>2
    <3>2. Min({it, n}) \in {it, n} /\ Min({it, n}) <= it
      BY <3>1, MinOf
    <3> QED BY <2>2, <3>2
  <2>4. \A v \in Nodes : R[it][v] \in Nat /\ R[n][v] \in Nat /\ R[n][v] <= R[n - (n - it)][v]
    <3>1. n \in 0 .. NumNodes - 1 /\ it \in 0 .. NumNodes - 1 /\ n - it \in 0 .. n
      BY <2>1, <2>2
    <3> QED BY <2>1, <2>2, <3>1, ReachFacts, RoundsDescend
  <2>5. \A v \in Nodes : R[n][v] <= R[it][v]
    <3>1. n - (n - it) = it
      BY <2>2
    <3> QED BY <2>4, <3>1
  <2>6. stage = "relax" => \A v \in Nodes : dist[v] <= R[it][v] /\ dist[v] >= R[n][v]
    BY <2>1 DEF SsspInv, Bounded, Best, InRound
  <2>7. stage = "done" => ~changed /\ \A v \in Nodes : dist[v] = R[n][v]
    BY <2>1 DEF SsspInv, Best
  <2>8. stage \in {"idle", "relax", "done"}
    BY DEF SsspInv, SsspTypeOK
  <2> QED BY <2>1, <2>2, <2>3, <2>4, <2>5, <2>6, <2>7, <2>8 DEF SsspExact
<1> QED BY <1>1, SsspInitInv, SsspStepInv, PTL DEF SsspSpec

-----------------------------------------------------------------------------
(***************************************************************************)
(* The automaton of 10-dpi-matching.  Everything is said of the longest    *)
(* node of the trie that a text ends with: the fail link of a node is that *)
(* of the node without its first byte, a transition that of the node with  *)
(* one byte more, and the state after a text that of the text (Extend).    *)
(***************************************************************************)
Strings == Seq(Alphabet)
\* Text t ends with x.
Ends(x, t) == Len(x) <= Len(t) /\ \A j \in 1 .. Len(x) : x[j] = t[Len(t) - Len(x) + j]
IsLongest(N, x, t) == x \in N /\ Ends(x, t) /\ \A y \in N : Ends(y, t) => Len(y) <= Len(x)
\* With a node, a trie has the nodes of its prefixes.
IsTrie(N) ==
    /\ N \subseteq Strings /\ <<>> \in N
    /\ \A s \in Strings, c \in Alphabet : Append(s, c) \in N => s \in N

LEMMA StringEqual ==
  ASSUME NEW x \in Strings, NEW y \in Strings, Len(x) = Len(y), \A j \in 1 .. Len(x) : x[j] = y[j]
  PROVE  x = y
BY DEF Strings

LEMMA LenString == ASSUME NEW x \in Strings PROVE Len(x) \in Nat
BY DEF Strings

LEMMA EmptyString == <<>> \in Strings /\ Len(<<>>) = 0 /\ \A x \in Strings : Len(x) = 0 => x = <<>>
BY DEF Strings

LEMMA AppendString ==
  ASSUME NEW s \in Strings, NEW c \in Alphabet
  PROVE  /\ Append(s, c) \in Strings /\ Len(Append(s, c)) = Len(s) + 1
         /\ \A j \in 1 .. Len(s) : Append(s, c)[j] = s[j]
         /\ Append(s, c)[Len(s) + 1] = c
BY DEF Strings

LEMMA TailString ==
  ASSUME NEW s \in Strings, s # <<>>
  PROVE  /\ Tail(s) \in Strings /\ Len(Tail(s)) = Len(s) - 1
         /\ \A j \in 1 .. Len(s) - 1 : Tail(s)[j] = s[j + 1]
BY DEF Strings

LEMMA FrontString ==
  ASSUME NEW s \in Strings, s # <<>>
  PROVE  /\ Front(s) \in Strings /\ Len(Front(s)) = Len(s) - 1 /\ Len(s) \in Nat \ {0}
         /\ Last(s) \in Alphabet /\ s = Append(Front(s), Last(s))
<1>1. Len(s) \in Nat \ {0}
  BY EmptyString, LenString
<1>2. /\ Front(s) \in Strings /\ Len(Front(s)) = Len(s) - 1
      /\ \A i \in 1 .. Len(s) - 1 : Front(s)[i] = s[i]
  BY <1>1, FrontFacts DEF Strings, Front
<1>3. Last(s) \in Alphabet
  BY <1>1 DEF Strings, Last
<1>4. s = Append(Front(s), Last(s))
  <2> DEFINE a == Append(Front(s), Last(s))
  <2>1. a \in Strings /\ Len(a) = Len(s)
    BY <1>1, <1>2, <1>3, AppendString
  <2>2. ASSUME NEW j \in 1 .. Len(s) PROVE s[j] = a[j]
    <3>1. CASE j = Len(s)
      <4>1. a[Len(s)] = Last(s)
        BY <1>1, <1>2, <1>3, AppendString
      <4> QED BY <3>1, <4>1 DEF Last
    <3>2. CASE j # Len(s)
      <4>1. j \in 1 .. Len(s) - 1
        BY <1>1, <3>2
      <4>2. a[j] = Front(s)[j]
        BY <1>2, <1>3, <4>1, AppendString
      <4> QED BY <1>2, <4>1, <4>2
    <3> QED BY <3>1, <3>2
  <2> HIDE DEF a
  <2>3. s = a
    BY <2>1, <2>2, StringEqual
  <2> QED BY <2>3 DEF a
<1> QED BY <1>1, <1>2, <1>3, <1>4

LEMMA EndsItself == ASSUME NEW t \in Strings PROVE Ends(t, t) /\ Ends(<<>>, t)
<1>1. Len(t) \in Nat /\ Len(<<>>) = 0
  BY LenString, EmptyString
<1> QED BY <1>1 DEF Ends

LEMMA EndsEqual ==
  ASSUME NEW x \in Strings, NEW t \in Strings, Ends(x, t), Len(t) <= Len(x)
  PROVE  x = t
<1>1. Len(x) \in Nat /\ Len(t) \in Nat /\ Len(x) = Len(t)
  BY LenString DEF Ends
<1>2. \A j \in 1 .. Len(x) : x[j] = t[j]
  BY <1>1 DEF Ends
<1> QED BY <1>1, <1>2, StringEqual

\* Of two ends of a text, the longer one ends with the shorter one.
LEMMA EndsChain ==
  ASSUME NEW x \in Strings, NEW y \in Strings, NEW t \in Strings,
         Ends(x, t), Ends(y, t), Len(y) <= Len(x)
  PROVE  Ends(y, x)
<1>1. Len(x) \in Nat /\ Len(y) \in Nat /\ Len(t) \in Nat /\ Len(x) <= Len(t)
  BY LenString DEF Ends
<1>2. ASSUME NEW j \in 1 .. Len(y) PROVE y[j] = x[Len(x) - Len(y) + j]
  <2>1. y[j] = t[Len(t) - Len(y) + j]
    BY DEF Ends
  <2>2. PICK k \in 1 .. Len(x) : k = Len(x) - Len(y) + j
    BY <1>1
  <2>3. x[k] = t[Len(t) - Len(x) + k]
    BY DEF Ends
  <2>4. Len(t) - Len(x) + k = Len(t) - Len(y) + j
    BY <1>1, <2>2
  <2> QED BY <2>1, <2>2, <2>3, <2>4
<1> QED BY <1>2 DEF Ends

LEMMA EndsEnds ==
  ASSUME NEW x \in Strings, NEW y \in Strings, NEW t \in Strings, Ends(y, x), Ends(x, t)
  PROVE  Ends(y, t)
<1>1. Len(x) \in Nat /\ Len(y) \in Nat /\ Len(t) \in Nat /\ Len(y) <= Len(x) /\ Len(x) <= Len(t)
  BY LenString DEF Ends
<1>2. ASSUME NEW j \in 1 .. Len(y) PROVE y[j] = t[Len(t) - Len(y) + j]
  <2>1. PICK k \in 1 .. Len(x) : k = Len(x) - Len(y) + j
    BY <1>1, SMTT(30)
  <2>2. y[j] = x[k] /\ x[k] = t[Len(t) - Len(x) + k]
    BY <2>1 DEF Ends
  <2>3. Len(t) - Len(x) + k = Len(t) - Len(y) + j
    BY <1>1, <2>1
  <2> QED BY <2>2, <2>3
<1>3. Len(y) <= Len(t)
  BY <1>1
<1> QED BY <1>2, <1>3 DEF Ends

LEMMA EndsAppend ==
  ASSUME NEW x \in Strings, NEW t \in Strings, NEW c \in Alphabet, NEW d \in Alphabet
  PROVE  Ends(Append(x, c), Append(t, d)) <=> c = d /\ Ends(x, t)
<1>1. Len(x) \in Nat /\ Len(t) \in Nat
  BY LenString
<1> DEFINE xc == Append(x, c)  td == Append(t, d)
<1>2. Len(xc) = Len(x) + 1 /\ Len(td) = Len(t) + 1 /\ xc[Len(x) + 1] = c /\ td[Len(t) + 1] = d
  BY AppendString
<1>3. \A j \in 1 .. Len(x) : xc[j] = x[j]
  BY AppendString
<1>4. \A j \in 1 .. Len(t) : td[j] = t[j]
  BY AppendString
<1> HIDE DEF xc, td
<1>5. ASSUME Ends(xc, td) PROVE c = d /\ Ends(x, t)
  <2>1. Len(x) <= Len(t)
    BY <1>1, <1>2, <1>5 DEF Ends
  <2>2. c = d
    <3>1. PICK k \in 1 .. Len(xc) : k = Len(x) + 1
      BY <1>1, <1>2
    <3>2. xc[k] = td[Len(td) - Len(xc) + k]
      BY <1>5 DEF Ends
    <3>3. Len(td) - Len(xc) + k = Len(t) + 1
      BY <1>1, <1>2, <3>1
    <3> QED BY <1>2, <3>1, <3>2, <3>3
  <2>3. ASSUME NEW j \in 1 .. Len(x) PROVE x[j] = t[Len(t) - Len(x) + j]
    <3>1. j \in 1 .. Len(xc) /\ Len(td) - Len(xc) + j = Len(t) - Len(x) + j /\ Len(t) - Len(x) + j \in 1 .. Len(t)
      BY <1>1, <1>2, <2>1
    <3>2. xc[j] = td[Len(t) - Len(x) + j]
      BY <1>5, <3>1 DEF Ends
    <3> QED BY <1>3, <1>4, <3>1, <3>2
  <2> QED BY <2>1, <2>2, <2>3 DEF Ends
<1>6. ASSUME c = d, Ends(x, t) PROVE Ends(xc, td)
  <2>1. Len(x) <= Len(t) /\ Len(xc) <= Len(td)
    BY <1>1, <1>2, <1>6 DEF Ends
  <2>2. ASSUME NEW j \in 1 .. Len(xc) PROVE xc[j] = td[Len(td) - Len(xc) + j]
    <3>1. Len(td) - Len(xc) + j = Len(t) - Len(x) + j
      BY <1>1, <1>2
    <3>2. CASE j = Len(x) + 1
      <4>1. Len(t) - Len(x) + j = Len(t) + 1
        BY <1>1, <3>2
      <4> QED BY <1>2, <1>6, <3>1, <3>2, <4>1
    <3>3. CASE j # Len(x) + 1
      <4>1. j \in 1 .. Len(x) /\ Len(t) - Len(x) + j \in 1 .. Len(t)
        BY <1>1, <1>2, <2>1, <3>3
      <4>2. x[j] = t[Len(t) - Len(x) + j]
        BY <1>6, <4>1 DEF Ends
      <4> QED BY <1>3, <1>4, <3>1, <4>1, <4>2
    <3> QED BY <3>2, <3>3
  <2> QED BY <2>1, <2>2 DEF Ends
<1> QED BY <1>5, <1>6 DEF xc, td

\* A text ends with its tail, and with nothing longer but itself.
LEMMA EndsTail ==
  ASSUME NEW t \in Strings, t # <<>>, NEW x \in Strings
  PROVE  Ends(x, t) <=> x = t \/ Ends(x, Tail(t))
<1>1. Len(t) \in Nat \ {0} /\ Len(x) \in Nat
  BY LenString, EmptyString
<1>2. /\ Tail(t) \in Strings /\ Len(Tail(t)) = Len(t) - 1
      /\ \A j \in 1 .. Len(t) - 1 : Tail(t)[j] = t[j + 1]
  BY TailString
<1>3. Ends(Tail(t), t)
  <2>1. \A j \in 1 .. Len(Tail(t)) : Tail(t)[j] = t[Len(t) - Len(Tail(t)) + j]
    <3> SUFFICES ASSUME NEW j \in 1 .. Len(Tail(t)) PROVE Tail(t)[j] = t[Len(t) - Len(Tail(t)) + j]
      OBVIOUS
    <3>1. Len(t) - Len(Tail(t)) + j = j + 1 /\ j \in 1 .. Len(t) - 1
      BY <1>1, <1>2
    <3> QED BY <1>2, <3>1
  <2> QED BY <1>1, <1>2, <2>1 DEF Ends
<1>4. ASSUME x = t \/ Ends(x, Tail(t)) PROVE Ends(x, t)
  BY <1>2, <1>3, <1>4, EndsItself, EndsEnds
<1>5. ASSUME Ends(x, t), x # t PROVE Ends(x, Tail(t))
  <2>1. Len(x) < Len(t)
    BY <1>1, <1>5, EndsEqual
  <2>2. Len(x) <= Len(Tail(t))
    BY <1>1, <1>2, <2>1
  <2> QED BY <1>2, <1>3, <1>5, <2>2, EndsChain
<1> QED BY <1>4, <1>5

LEMMA LongestUnique ==
  ASSUME NEW N, IsTrie(N), NEW t \in Strings, NEW x, NEW y, IsLongest(N, x, t), IsLongest(N, y, t)
  PROVE  x = y
<1>1. x \in Strings /\ y \in Strings /\ Len(x) \in Nat /\ Len(y) \in Nat /\ Len(x) = Len(y)
  BY LenString DEF IsLongest, IsTrie
<1>2. Ends(y, x)
  BY <1>1, EndsChain DEF IsLongest
<1> QED BY <1>1, <1>2, EndsEqual

\* The state after a text is enough to find the state after one byte more.
LEMMA Extend ==
  ASSUME NEW N, IsTrie(N), NEW t \in Strings, NEW c \in Alphabet, NEW x, NEW z,
         IsLongest(N, x, t), IsLongest(N, z, Append(x, c))
  PROVE  IsLongest(N, z, Append(t, c))
<1>1. x \in Strings /\ z \in Strings /\ Append(x, c) \in Strings /\ Append(t, c) \in Strings
  BY AppendString DEF IsLongest, IsTrie
<1>2. Ends(Append(x, c), Append(t, c))
  BY <1>1, EndsAppend DEF IsLongest
<1>3. Ends(z, Append(t, c))
  BY <1>1, <1>2, EndsEnds DEF IsLongest
<1>4. ASSUME NEW y \in N, Ends(y, Append(t, c)) PROVE Len(y) <= Len(z)
  <2>0. y \in Strings /\ Len(z) \in Nat
    BY <1>1, LenString DEF IsTrie
  <2>1. CASE y = <<>>
    BY <2>0, <2>1, EmptyString
  <2>2. CASE y # <<>>
    <3>1. PICK f \in Strings, l \in Alphabet : y = Append(f, l)
      BY <2>0, <2>2, FrontString
    <3>2. f \in N
      BY <3>1 DEF IsTrie
    <3>3. l = c /\ Ends(f, t)
      BY <1>4, <3>1, EndsAppend
    <3>4. Len(f) <= Len(x)
      BY <3>2, <3>3 DEF IsLongest
    <3>5. Ends(f, x)
      BY <1>1, <3>3, <3>4, EndsChain DEF IsLongest
    <3>6. Ends(y, Append(x, c))
      BY <1>1, <3>1, <3>3, <3>5, EndsAppend
    <3> QED BY <3>6 DEF IsLongest
  <2> QED BY <2>1, <2>2
<1> QED BY <1>3, <1>4 DEF IsLongest

LEMMA TrieIsTrie ==
  ASSUME NEW pats \in Seq(Strings)
  PROVE  /\ IsTrie(TrieNodes(pats))
         /\ \A i \in DOMAIN pats : pats[i] \in Strings /\ pats[i] \in TrieNodes(pats)
<1> DEFINE N == TrieNodes(pats)
<1>0. \A p \in Range(pats) : p \in Strings
  BY DEF Range
<1>1. ASSUME NEW p \in Strings, NEW l \in 0 .. Len(p)
      PROVE  /\ SubSeq(p, 1, l) \in Strings /\ Len(SubSeq(p, 1, l)) = l
             /\ \A j \in 1 .. l : SubSeq(p, 1, l)[j] = p[j]
  <2>1. l \in Nat /\ l <= Len(p)
    BY LenString
  <2>2. SubSeq(p, 1, l) \in Strings
    BY <2>1 DEF Strings
  <2> QED BY <2>1, <2>2 DEF Strings
<1>2. \A s : s \in N <=> s = <<>> \/ \E p \in Range(pats) : \E l \in 0 .. Len(p) : s = SubSeq(p, 1, l)
  BY DEF TrieNodes, Prefixes
<1>3. N \subseteq Strings /\ <<>> \in N
  <2>1. ASSUME NEW s \in N PROVE s \in Strings
    <3>1. CASE s = <<>>
      BY <3>1, EmptyString
    <3>2. CASE s # <<>>
      <4>1. PICK p \in Range(pats) : \E l \in 0 .. Len(p) : s = SubSeq(p, 1, l)
        BY <1>2, <3>2
      <4>2. PICK l \in 0 .. Len(p) : s = SubSeq(p, 1, l)
        BY <4>1
      <4> QED BY <1>0, <1>1, <4>2
    <3> QED BY <3>1, <3>2
  <2>2. <<>> \in N
    BY <1>2
  <2> QED BY <2>1, <2>2
<1>4. ASSUME NEW s \in Strings, NEW c \in Alphabet, Append(s, c) \in N PROVE s \in N
  <2>1. Append(s, c) # <<>> /\ Len(s) \in Nat
    BY AppendString, LenString, EmptyString
  <2>p. PICK p \in Range(pats) : \E l \in 0 .. Len(p) : Append(s, c) = SubSeq(p, 1, l)
    BY <1>2, <1>4, <2>1
  <2>2. PICK l \in 0 .. Len(p) : Append(s, c) = SubSeq(p, 1, l)
    BY <2>p
  <2>3. p \in Strings /\ Len(p) \in Nat /\ l = Len(s) + 1
    BY <1>0, <1>1, <2>2, AppendString, LenString
  <2>4. l - 1 \in 0 .. Len(p) /\ l - 1 = Len(s)
    BY <2>1, <2>3
  <2>5. PICK m \in 0 .. Len(p) : m = l - 1
    BY <2>4
  <2>6. /\ SubSeq(p, 1, m) \in Strings /\ Len(SubSeq(p, 1, m)) = m
        /\ \A j \in 1 .. m : SubSeq(p, 1, m)[j] = p[j]
    BY <1>1, <2>3
  <2>7. ASSUME NEW j \in 1 .. Len(s) PROVE s[j] = SubSeq(p, 1, m)[j]
    <3>1. j \in 1 .. m /\ j \in 1 .. l
      BY <2>3, <2>4, <2>5
    <3>2. Append(s, c)[j] = s[j] /\ SubSeq(p, 1, l)[j] = p[j]
      BY <1>1, <2>3, <3>1, AppendString
    <3> QED BY <2>2, <2>6, <3>1, <3>2
  <2>8. s = SubSeq(p, 1, m)
    BY <2>4, <2>5, <2>6, <2>7, StringEqual
  <2> QED BY <1>2, <2>8
<1>5. ASSUME NEW i \in DOMAIN pats PROVE pats[i] \in Strings /\ pats[i] \in N
  <2>1. pats[i] \in Strings /\ pats[i] \in Range(pats)
    BY DEF Range
  <2>2. Len(pats[i]) \in 0 .. Len(pats[i])
    BY <2>1, LenString
  <2>3. SubSeq(pats[i], 1, Len(pats[i])) = pats[i]
    <3>0. PICK p \in Strings : p = pats[i]
      BY <2>1
    <3>1. PICK l \in 0 .. Len(p) : p = pats[i] /\ l = Len(p)
      BY <2>2, <3>0
    <3>2. /\ SubSeq(p, 1, l) \in Strings /\ Len(SubSeq(p, 1, l)) = l
          /\ \A j \in 1 .. l : SubSeq(p, 1, l)[j] = p[j]
      BY <1>1
    <3>3. p = SubSeq(p, 1, l)
      BY <3>1, <3>2, StringEqual
    <3> QED BY <3>1, <3>3
  <2> QED BY <1>2, <2>1, <2>2, <2>3
<1> QED BY <1>3, <1>4, <1>5 DEF IsTrie

Longest(N, t) == CHOOSE x : IsLongest(N, x, t)

LEMMA LongestIs ==
  ASSUME NEW N, IsTrie(N), NEW t \in Strings
  PROVE  IsLongest(N, Longest(N, t), t)
<1> DEFINE T == {k \in Nat : \E y \in N : Ends(y, t) /\ k = Len(t) - Len(y)}
<1>1. \A y \in N : y \in Strings /\ Len(y) \in Nat
  BY LenString DEF IsTrie
<1>2. Len(t) \in T
  <2>1. <<>> \in N /\ Ends(<<>>, t) /\ Len(t) \in Nat /\ Len(<<>>) = 0
    BY EndsItself, LenString, EmptyString DEF IsTrie
  <2>2. Len(t) = Len(t) - Len(<<>>)
    BY <2>1
  <2> QED BY <2>1, <2>2
<1>3. PICK m \in T : \A k \in T : m <= k
  <2>1. T \subseteq Nat /\ T # {}
    BY <1>2
  <2> HIDE DEF T
  <2> QED BY <2>1, LeastNumber
<1>4. PICK x \in N : Ends(x, t) /\ m = Len(t) - Len(x)
  OBVIOUS
<1>5. ASSUME NEW y \in N, Ends(y, t) PROVE Len(y) <= Len(x)
  <2>1. Len(t) \in Nat /\ Len(y) \in Nat /\ Len(x) \in Nat /\ Len(y) <= Len(t)
    BY <1>1, <1>5, LenString DEF Ends
  <2>2. Len(t) - Len(y) \in T
    BY <1>5, <2>1
  <2>3. m <= Len(t) - Len(y)
    BY <1>3, <2>2
  <2> HIDE DEF T
  <2> QED BY <1>4, <2>1, <2>3
<1>6. IsLongest(N, x, t)
  BY <1>4, <1>5 DEF IsLongest
<1> QED BY <1>6 DEF Longest

LEMMA LongestOnly ==
  ASSUME NEW N, IsTrie(N), NEW t \in Strings, NEW x, IsLongest(N, x, t)
  PROVE  x = Longest(N, t)
BY LongestIs, LongestUnique

LEMMA TailOfAppend ==
  ASSUME NEW h \in Strings, h # <<>>, NEW c \in Alphabet
  PROVE  Tail(Append(h, c)) = Append(Tail(h), c)
<1>n. Len(h) \in Nat \ {0}
  BY LenString, EmptyString
<1>0. PICK s \in Strings : s = Append(h, c) /\ Len(s) = Len(h) + 1
  BY AppendString
<1>e. s # <<>>
  BY <1>n, <1>0, EmptyString
<1>1. Tail(h) \in Strings /\ Len(Tail(h)) = Len(h) - 1 /\ \A j \in 1 .. Len(h) - 1 : Tail(h)[j] = h[j + 1]
  BY TailString
<1>2. /\ Append(Tail(h), c) \in Strings /\ Len(Append(Tail(h), c)) = Len(h)
      /\ \A j \in 1 .. Len(h) - 1 : Append(Tail(h), c)[j] = h[j + 1]
      /\ Append(Tail(h), c)[Len(h)] = c
  <2>1. Len(Tail(h)) + 1 = Len(h)
    BY <1>n, <1>1
  <2> QED BY <1>1, <2>1, AppendString
<1>3. Tail(s) \in Strings /\ Len(Tail(s)) = Len(h) /\ \A j \in 1 .. Len(h) : Tail(s)[j] = s[j + 1]
  <2>1. Len(s) - 1 = Len(h)
    BY <1>n, <1>0
  <2> QED BY <1>e, <2>1, TailString
<1>4. s[Len(h) + 1] = c /\ \A j \in 1 .. Len(h) : s[j] = h[j]
  BY <1>0, AppendString
<1>5. ASSUME NEW j \in 1 .. Len(Tail(s)) PROVE Tail(s)[j] = Append(Tail(h), c)[j]
  <2>1. CASE j = Len(h)
    BY <1>n, <1>2, <1>3, <1>4, <2>1
  <2>2. CASE j # Len(h)
    <3>1. j \in 1 .. Len(h) - 1 /\ j + 1 \in 1 .. Len(h) /\ j \in 1 .. Len(h)
      BY <1>n, <1>3, <2>2
    <3> QED BY <1>2, <1>3, <1>4, <3>1
  <2> QED BY <2>1, <2>2
<1> QED BY <1>0, <1>2, <1>3, <1>5, StringEqual

\* What the row of a node should be.
RightRow(pats, s) ==
    [fail |-> IF s = <<>> THEN <<>> ELSE Longest(TrieNodes(pats), Tail(s)),
     go |-> [c \in Alphabet |-> Longest(TrieNodes(pats), Append(s, c))],
     out |-> {i \in DOMAIN pats : Ends(pats[i], s)}]

\* It is what build() computes from right rows of shorter nodes.
LEMMA RowIsRight ==
  ASSUME NEW pats \in Seq(Strings), NEW s \in TrieNodes(pats), NEW rows,
         \A x \in TrieNodes(pats) : Len(x) < Len(s) => rows[x] = RightRow(pats, x)
  PROVE  Row(pats, rows, s) = RightRow(pats, s)
<1> DEFINE N == TrieNodes(pats)
           fail == IF Len(s) <= 1 THEN <<>> ELSE rows[rows[Front(s)].fail].go[Last(s)]
           f == Longest(N, Tail(s))
<1>0. IsTrie(N) /\ s \in Strings /\ s \in N /\ Len(s) \in Nat /\ <<>> \in N /\ \A x \in N : x \in Strings /\ Len(x) \in Nat
  BY TrieIsTrie, LenString DEF IsTrie
<1> HIDE DEF N
<1>1. ASSUME NEW x \in N, Len(x) < Len(s)
      PROVE  /\ x # <<>> => rows[x].fail = Longest(N, Tail(x))
             /\ \A c \in Alphabet : rows[x].go[c] = Longest(N, Append(x, c))
             /\ rows[x].out = {i \in DOMAIN pats : Ends(pats[i], x)}
  <2>1. rows[x] = RightRow(pats, x)
    BY <1>1 DEF N
  <2> QED BY <2>1 DEF RightRow, N
<1>2. s # <<>> => IsLongest(N, f, Tail(s)) /\ f \in N /\ Len(f) < Len(s) /\ Tail(s) \in Strings
  <2> SUFFICES ASSUME s # <<>> PROVE IsLongest(N, f, Tail(s)) /\ f \in N /\ Len(f) < Len(s) /\ Tail(s) \in Strings
    OBVIOUS
  <2>1. Tail(s) \in Strings /\ Len(Tail(s)) = Len(s) - 1
    BY <1>0, TailString
  <2>2. IsLongest(N, f, Tail(s))
    BY <1>0, <2>1, LongestIs
  <2>3. f \in N /\ Len(f) <= Len(Tail(s)) /\ Len(f) \in Nat
    BY <1>0, <2>2 DEF IsLongest, Ends
  <2> QED BY <1>0, <2>1, <2>2, <2>3
<1> HIDE DEF f
<1>3. s # <<>> => fail = f
  <2> SUFFICES ASSUME s # <<>> PROVE fail = f
    OBVIOUS
  <2>1. CASE Len(s) <= 1
    <3>1. Len(Tail(s)) = 0
      <4>1. Len(s) # 0
        BY <1>0, EmptyString
      <4> HIDE DEF fail
      <4>0. Len(s) \in Nat
        BY <1>0
      <4>2. Len(s) = 1
        <5>1. \A n \in Nat : n <= 1 /\ n # 0 => n = 1
          OBVIOUS
        <5> QED BY <2>1, <4>0, <4>1, <5>1
      <4>3. Len(Tail(s)) = Len(s) - 1
        BY <1>0, TailString
      <4> QED BY <4>2, <4>3
    <3>2. Tail(s) = <<>>
      BY <1>2, <3>1, EmptyString
    <3>3. IsLongest(N, <<>>, <<>>)
      <4>1. \A y \in N : Ends(y, <<>>) => Len(y) <= Len(<<>>)
        BY DEF Ends
      <4> QED BY <1>0, <4>1, EndsItself, EmptyString DEF IsLongest
    <3>4. f = <<>>
      BY <1>0, <1>2, <3>2, <3>3, LongestUnique, EmptyString
    <3> QED BY <2>1, <3>4
  <2>2. CASE ~(Len(s) <= 1)
    <3>1. PICK h \in Strings, c \in Alphabet : h = Front(s) /\ c = Last(s) /\ s = Append(h, c) /\ Len(h) = Len(s) - 1
      BY <1>0, FrontString
    <3>2. h \in N /\ Len(h) < Len(s) /\ h # <<>> /\ Len(h) \in Nat
      <4>1. Len(h) # 0
        BY <1>0, <2>2, <3>1
      <4>2. h \in N
        BY <1>0, <3>1 DEF IsTrie
      <4>3. h # <<>>
        BY <4>1, EmptyString
      <4>4. Len(h) < Len(s) /\ Len(h) \in Nat
        BY <1>0, <3>1, <4>2
      <4> QED BY <4>2, <4>3, <4>4
    <3>3. PICK x \in Strings : x = Longest(N, Tail(h)) /\ IsLongest(N, x, Tail(h)) /\ x \in N /\ Len(x) < Len(s)
      <4>1. Tail(h) \in Strings /\ Len(Tail(h)) = Len(h) - 1
        BY <3>2, TailString
      <4>2. IsLongest(N, Longest(N, Tail(h)), Tail(h))
        BY <1>0, <4>1, LongestIs
      <4>3. Len(Longest(N, Tail(h))) <= Len(Tail(h)) /\ Longest(N, Tail(h)) \in N
        BY <4>2 DEF IsLongest, Ends
      <4>4. Len(Longest(N, Tail(h))) < Len(s)
        BY <1>0, <3>1, <3>2, <4>1, <4>3
      <4> QED BY <1>0, <4>2, <4>3, <4>4
    <3>4. rows[h].fail = x /\ rows[x].go[c] = Longest(N, Append(x, c))
      BY <1>1, <3>2, <3>3
    <3>5. Tail(s) = Append(Tail(h), c)
      BY <3>1, <3>2, TailOfAppend
    <3>6. IsLongest(N, Longest(N, Append(x, c)), Append(x, c))
      BY <1>0, <3>3, LongestIs, AppendString
    <3>7. IsLongest(N, Longest(N, Append(x, c)), Tail(s))
      <4>1. Tail(h) \in Strings
        BY <3>2, TailString
      <4> QED BY <1>0, <3>3, <3>5, <3>6, <4>1, Extend
    <3>8. f = Longest(N, Append(x, c))
      BY <1>0, <1>2, <3>7, LongestUnique
    <3> QED BY <2>2, <3>1, <3>4, <3>8
  <2> QED BY <2>1, <2>2
<1>4. s = <<>> => fail = <<>>
  BY EmptyString
<1> HIDE DEF fail
<1>5. ASSUME NEW c \in Alphabet
      PROVE  (IF Append(s, c) \in N THEN Append(s, c) ELSE IF s = <<>> THEN <<>> ELSE rows[fail].go[c])
               = Longest(N, Append(s, c))
  <2> DEFINE a == Append(s, c)
  <2>0. a \in Strings /\ a # <<>>
    <3>1. a \in Strings /\ Len(a) = Len(s) + 1
      BY <1>0, AppendString
    <3>2. Len(a) # 0
      BY <1>0, <3>1
    <3> QED BY <3>1, <3>2, EmptyString
  <2>1. CASE a \in N
    <3>1. \A y \in N : Ends(y, a) => Len(y) <= Len(a)
      BY DEF Ends
    <3>2. IsLongest(N, a, a)
      BY <2>0, <2>1, <3>1, EndsItself DEF IsLongest
    <3> QED BY <1>0, <2>0, <2>1, <3>2, LongestOnly
  <2>2. CASE a \notin N
    <3>1. ASSUME NEW z \in N, IsLongest(N, z, Tail(a)) PROVE z = Longest(N, a)
      <4>1. \A y \in N : Ends(y, a) <=> Ends(y, Tail(a))
        BY <1>0, <2>0, <2>2, EndsTail
      <4>2. IsLongest(N, z, a)
        BY <3>1, <4>1 DEF IsLongest
      <4> QED BY <1>0, <2>0, <4>2, LongestOnly
    <3>2. CASE s = <<>>
      <4>1. Tail(a) = <<>>
        BY <1>0, <2>0, <3>2, AppendString, TailString, EmptyString
      <4>2. \A y \in N : Ends(y, <<>>) => Len(y) <= Len(<<>>)
        BY DEF Ends
      <4>3. IsLongest(N, <<>>, <<>>)
        BY <1>0, <4>2, EndsItself, EmptyString DEF IsLongest
      <4> QED BY <1>0, <2>2, <3>1, <3>2, <4>1, <4>3
    <3>3. CASE s # <<>>
      <4>1. fail = f /\ IsLongest(N, f, Tail(s)) /\ f \in N /\ Len(f) < Len(s) /\ Tail(s) \in Strings /\ f \in Strings
        BY <1>0, <1>2, <1>3, <3>3
      <4>2. rows[f].go[c] = Longest(N, Append(f, c))
        BY <1>1, <4>1
      <4>3. IsLongest(N, Longest(N, Append(f, c)), Append(f, c))
        BY <1>0, <4>1, LongestIs, AppendString
      <4>4. IsLongest(N, Longest(N, Append(f, c)), Append(Tail(s), c))
        BY <1>0, <4>1, <4>3, Extend
      <4>5. Tail(a) = Append(Tail(s), c)
        BY <1>0, <3>3, TailOfAppend
      <4>6. Longest(N, Append(f, c)) \in N
        BY <4>4 DEF IsLongest
      <4> QED BY <2>2, <3>1, <3>3, <4>1, <4>2, <4>4, <4>5, <4>6
    <3> QED BY <3>2, <3>3
  <2> QED BY <2>1, <2>2
<1>6. Own(pats, s) \cup (IF s = <<>> THEN {} ELSE rows[fail].out) = {i \in DOMAIN pats : Ends(pats[i], s)}
  <2>1. \A i \in DOMAIN pats : pats[i] \in Strings /\ pats[i] \in N
    BY TrieIsTrie DEF N
  <2>2. CASE s = <<>>
    <3>1. ASSUME NEW i \in DOMAIN pats PROVE Ends(pats[i], s) <=> pats[i] = s
      <4>1. Ends(pats[i], s) => Len(pats[i]) <= 0
        BY <2>2, EmptyString DEF Ends
      <4>2. Ends(pats[i], s) => pats[i] = <<>>
        BY <2>1, <4>1, EmptyString, LenString
      <4> QED BY <2>2, <4>2, EndsItself, EmptyString
    <3> QED BY <2>2, <3>1 DEF Own
  <2>3. CASE s # <<>>
    <3>1. fail = f /\ IsLongest(N, f, Tail(s)) /\ f \in N /\ Len(f) < Len(s) /\ Tail(s) \in Strings /\ f \in Strings
      BY <1>0, <1>2, <1>3, <2>3
    <3>2. rows[f].out = {i \in DOMAIN pats : Ends(pats[i], f)}
      BY <1>1, <3>1
    <3>3. ASSUME NEW i \in DOMAIN pats PROVE Ends(pats[i], s) <=> pats[i] = s \/ Ends(pats[i], f)
      <4>1. Ends(pats[i], s) <=> pats[i] = s \/ Ends(pats[i], Tail(s))
        BY <1>0, <2>1, <2>3, EndsTail
      <4>2. Ends(pats[i], Tail(s)) => Ends(pats[i], f)
        BY <2>1, <3>1, EndsChain DEF IsLongest
      <4>3. Ends(pats[i], f) => Ends(pats[i], Tail(s))
        BY <2>1, <3>1, EndsEnds DEF IsLongest
      <4> QED BY <4>1, <4>2, <4>3
    <3> QED BY <2>3, <3>1, <3>2, <3>3 DEF Own
  <2> QED BY <2>2, <2>3
<1>7. fail = IF s = <<>> THEN <<>> ELSE f
  BY <1>3, <1>4
<1> QED BY <1>5, <1>6, <1>7 DEF Row, RightRow, fail, f, N

LEMMA BuildIsRight ==
  ASSUME NEW pats \in Seq(Strings)
  PROVE  build(pats) = [s \in TrieNodes(pats) |-> RightRow(pats, s)]
<1> DEFINE N == TrieNodes(pats)
           Level(n, above) == [s \in UpTo(pats, n) |-> IF Len(s) < n THEN above[s] ELSE Row(pats, above, s)]
           Body(g) == [n \in Nat |-> Level(n, IF n = 0 THEN <<>> ELSE g[n - 1])]
           right(n) == [s \in UpTo(pats, n) |-> RightRow(pats, s)]
           ideal == [n \in Nat |-> right(n)]
<1>0. \A s \in N : s \in Strings /\ Len(s) \in Nat
  BY TrieIsTrie, LenString DEF IsTrie
<1>1. ASSUME NEW n \in Nat, NEW above, n # 0 => above = right(n - 1)
      PROVE  Level(n, above) = right(n)
  <2>1. ASSUME NEW s \in UpTo(pats, n)
        PROVE  (IF Len(s) < n THEN above[s] ELSE Row(pats, above, s)) = RightRow(pats, s)
    <3>0. s \in N /\ Len(s) \in Nat /\ Len(s) <= n
      BY <1>0 DEF UpTo
    <3>1. ASSUME NEW x \in N, Len(x) < n PROVE above[x] = RightRow(pats, x)
      <4>1. Len(x) \in Nat /\ n # 0 /\ Len(x) <= n - 1
        BY <1>0, <3>1
      <4>2. x \in UpTo(pats, n - 1)
        BY <4>1 DEF UpTo
      <4> QED BY <1>1, <4>1, <4>2
    <3>2. CASE Len(s) < n
      BY <3>0, <3>1, <3>2
    <3>3. CASE ~(Len(s) < n)
      <4>1. Len(s) = n
        BY <3>0, <3>3
      <4>2. Row(pats, above, s) = RightRow(pats, s)
        BY <3>0, <3>1, <4>1, RowIsRight
      <4> QED BY <3>3, <4>2
    <3> QED BY <3>2, <3>3
  <2> QED BY <2>1
<1> HIDE DEF right, Level
<1>2. ideal = Body(ideal)
  <2>1. ASSUME NEW n \in Nat PROVE right(n) = Level(n, IF n = 0 THEN <<>> ELSE ideal[n - 1])
    <3>1. n # 0 => ideal[n - 1] = right(n - 1)
      OBVIOUS
    <3> HIDE DEF ideal
    <3> QED BY <1>1, <3>1
  <2>2. \A n \in Nat : ideal[n] = right(n)
    OBVIOUS
  <2> QED BY <2>1, <2>2
<1>3. ASSUME NEW g, g = Body(g), NEW n \in Nat PROVE g[n] = right(n)
  <2> DEFINE Good == {m \in 0 .. n : g[m] = right(m)}
  <2>0. ASSUME NEW m \in Nat PROVE g[m] = Level(m, IF m = 0 THEN <<>> ELSE g[m - 1])
    BY <1>3
  <2>1. 0 \in Good
    <3>1. g[0] = Level(0, <<>>)
      BY <2>0
    <3>2. g[0] = right(0)
      BY <1>1, <3>1
    <3> QED BY <3>2
  <2>2. ASSUME NEW m \in 0 .. n - 1, m \in Good PROVE m + 1 \in Good
    <3>1. m + 1 \in Nat /\ m + 1 # 0 /\ (m + 1) - 1 = m /\ m + 1 \in 0 .. n
      OBVIOUS
    <3>2. g[m + 1] = Level(m + 1, g[m])
      BY <2>0, <3>1
    <3>3. g[m + 1] = right(m + 1)
      BY <1>1, <2>2, <3>1, <3>2
    <3> QED BY <3>1, <3>3
  <2>3. 0 .. n \subseteq Good
    <3> HIDE DEF Good
    <3> QED BY <2>1, <2>2, NoCounterexample
  <2> QED BY <2>3
<1> DEFINE rows == CHOOSE g : g = Body(g)
<1>4. build(pats) = [s \in N |-> rows[Len(s)][s]]
  BY DEF build, Level
<1>5. rows = Body(rows)
  <2> HIDE DEF Body, ideal
  <2> QED BY <1>2
<1> HIDE DEF rows
<1>6. ASSUME NEW s \in N PROVE rows[Len(s)][s] = RightRow(pats, s)
  <2>1. Len(s) \in Nat /\ s \in UpTo(pats, Len(s))
    BY <1>0 DEF UpTo
  <2>2. rows[Len(s)] = right(Len(s))
    <3> HIDE DEF Body
    <3> QED BY <1>3, <1>5, <2>1
  <2> QED BY <2>1, <2>2 DEF right
<1> QED BY <1>4, <1>6

-----------------------------------------------------------------------------
(***************************************************************************)
(* The scans.  Word(b, i) is what a thread has read of packet b.           *)
(***************************************************************************)
Word(b, i) == SubSeq(b, 1, i)

LEMMA WordIs ==
  ASSUME NEW b \in Strings, NEW i \in 0 .. Len(b)
  PROVE  /\ Word(b, i) \in Strings /\ Len(Word(b, i)) = i
         /\ \A j \in 1 .. i : Word(b, i)[j] = b[j]
<1>1. i \in Nat /\ i <= Len(b)
  BY LenString
<1>2. SubSeq(b, 1, i) \in Strings
  BY <1>1 DEF Strings
<1> QED BY <1>1, <1>2 DEF Strings, Word

LEMMA WordNext ==
  ASSUME NEW b \in Strings, NEW i \in 0 .. Len(b) - 1
  PROVE  /\ b[i + 1] \in Alphabet /\ i + 1 \in 0 .. Len(b)
         /\ Word(b, i) \in Strings /\ Word(b, i + 1) = Append(Word(b, i), b[i + 1])
<1>0. Len(b) \in Nat
  BY LenString
<1>1. b[i + 1] \in Alphabet /\ i + 1 \in 0 .. Len(b) /\ i \in 0 .. Len(b) /\ i \in Nat
  BY <1>0 DEF Strings
<1>2. PICK n \in 0 .. Len(b) : n = i + 1
  BY <1>1
<1>3. /\ Word(b, i) \in Strings /\ Len(Word(b, i)) = i
      /\ \A j \in 1 .. i : Word(b, i)[j] = b[j]
  BY <1>1, WordIs
<1>4. /\ Word(b, n) \in Strings /\ Len(Word(b, n)) = n
      /\ \A j \in 1 .. n : Word(b, n)[j] = b[j]
  BY WordIs
<1> DEFINE a == Append(Word(b, i), b[i + 1])
<1>5. a \in Strings /\ Len(a) = n /\ a[n] = b[n] /\ \A j \in 1 .. i : a[j] = b[j]
  BY <1>1, <1>2, <1>3, AppendString
<1> HIDE DEF a
<1>6. ASSUME NEW j \in 1 .. Len(Word(b, n)) PROVE Word(b, n)[j] = a[j]
  <2>1. j \in 1 .. n /\ (j = n \/ j \in 1 .. i)
    BY <1>1, <1>2, <1>4
  <2> QED BY <1>4, <1>5, <2>1
<1>7. Word(b, n) = a
  BY <1>4, <1>5, <1>6, StringEqual
<1> QED BY <1>1, <1>2, <1>3, <1>7 DEF a

\* A pattern occurs with its end at e.
LEMMA OccursAt ==
  ASSUME NEW b \in Strings, NEW x \in Strings, x # <<>>, NEW e \in Int
  PROVE  (e \in Len(x) .. Len(b) /\ SubSeq(b, e - Len(x) + 1, e) = x)
           <=> (e \in 1 .. Len(b) /\ Ends(x, Word(b, e)))
<1>0. Len(b) \in Nat /\ Len(x) \in Nat \ {0}
  BY LenString, EmptyString
<1> SUFFICES ASSUME e \in 1 .. Len(b)
             PROVE  (Len(x) <= e /\ SubSeq(b, e - Len(x) + 1, e) = x) <=> Ends(x, Word(b, e))
  BY <1>0
<1>1. Len(Word(b, e)) = e /\ \A j \in 1 .. e : Word(b, e)[j] = b[j]
  BY <1>0, WordIs
<1> SUFFICES ASSUME Len(x) <= e PROVE SubSeq(b, e - Len(x) + 1, e) = x <=> Ends(x, Word(b, e))
  BY <1>1 DEF Ends
<1> PICK m \in Int : m = e - Len(x) + 1
  BY <1>0
<1>2. m \in 1 .. e /\ m \in Nat /\ m - 1 = e - Len(x) /\ e - m + 1 = Len(x)
  BY <1>0
<1>3. /\ SubSeq(b, m, e) \in Strings /\ Len(SubSeq(b, m, e)) = Len(x)
      /\ \A j \in 1 .. Len(x) : SubSeq(b, m, e)[j] = b[m + j - 1]
  <2>1. SubSeq(b, m, e) \in Strings
    <3>1. \A k \in m .. e : k \in 1 .. Len(b)
      BY <1>0, <1>2
    <3> QED BY <1>0, <1>2, <3>1 DEF Strings
  <2>2. Len(SubSeq(b, m, e)) = e - m + 1
    BY <1>0, <1>2 DEF Strings
  <2>3. \A j \in 1 .. e - m + 1 : SubSeq(b, m, e)[j] = b[m + j - 1]
    BY <1>0, <1>2 DEF Strings
  <2> QED BY <1>2, <2>1, <2>2, <2>3
<1>4. \A j \in 1 .. Len(x) : Word(b, e)[e - Len(x) + j] = b[m + j - 1]
  <2> SUFFICES ASSUME NEW j \in 1 .. Len(x) PROVE Word(b, e)[e - Len(x) + j] = b[m + j - 1]
    OBVIOUS
  <2>1. e - Len(x) + j \in 1 .. e /\ m + j - 1 = e - Len(x) + j
    BY <1>0, <1>2
  <2> QED BY <1>1, <2>1
<1>5. Ends(x, Word(b, e)) <=> \A j \in 1 .. Len(x) : x[j] = b[m + j - 1]
  BY <1>1, <1>4 DEF Ends
<1>6. (\A j \in 1 .. Len(x) : x[j] = b[m + j - 1]) => SubSeq(b, m, e) = x
  BY <1>3, StringEqual
<1> QED BY <1>3, <1>5, <1>6

\* The state after a text knows which patterns the text ends with.
LEMMA StateKnows ==
  ASSUME NEW pats \in Seq(Strings), NEW t \in Strings, NEW x, IsLongest(TrieNodes(pats), x, t)
  PROVE  build(pats)[x].out = {i \in DOMAIN pats : Ends(pats[i], t)}
<1> DEFINE N == TrieNodes(pats)
<1>0. /\ IsTrie(N) /\ x \in N /\ x \in Strings
      /\ \A i \in DOMAIN pats : pats[i] \in Strings /\ pats[i] \in N
  BY TrieIsTrie DEF IsLongest, IsTrie
<1>1. build(pats)[x].out = {i \in DOMAIN pats : Ends(pats[i], x)}
  BY <1>0, BuildIsRight DEF RightRow
<1>2. ASSUME NEW i \in DOMAIN pats PROVE Ends(pats[i], x) <=> Ends(pats[i], t)
  <2>1. Ends(x, t)
    BY DEF IsLongest
  <2>2. Ends(pats[i], x) => Ends(pats[i], t)
    BY <1>0, <2>1, EndsEnds
  <2>3. Ends(pats[i], t) => Ends(pats[i], x)
    BY <1>0, <2>1, EndsChain DEF IsLongest
  <2> QED BY <2>2, <2>3
<1> QED BY <1>1, <1>2

LEMMA StateMoves ==
  ASSUME NEW pats \in Seq(Strings), NEW t \in Strings, NEW x, IsLongest(TrieNodes(pats), x, t),
         NEW c \in Alphabet
  PROVE  IsLongest(TrieNodes(pats), build(pats)[x].go[c], Append(t, c))
<1> DEFINE N == TrieNodes(pats)
<1>0. IsTrie(N) /\ x \in N /\ x \in Strings
  BY TrieIsTrie DEF IsLongest, IsTrie
<1>1. build(pats)[x] = RightRow(pats, x)
  BY <1>0, BuildIsRight
<1>2. build(pats)[x].go[c] = Longest(N, Append(x, c))
  BY <1>1 DEF RightRow
<1>3. IsLongest(N, Longest(N, Append(x, c)), Append(x, c))
  BY <1>0, LongestIs, AppendString
<1> QED BY <1>0, <1>2, <1>3, Extend

LEMMA EmptyLongest == ASSUME NEW pats \in Seq(Strings) PROVE IsLongest(TrieNodes(pats), <<>>, <<>>)
<1>1. <<>> \in TrieNodes(pats)
  BY TrieIsTrie DEF IsTrie
<1>2. \A y \in TrieNodes(pats) : Ends(y, <<>>) => Len(y) <= Len(<<>>)
  BY DEF Ends
<1> QED BY <1>1, <1>2, EndsItself, EmptyString DEF IsLongest

\* Sorting puts different matches in order and keeps each.
MatchRecords == [packet : Nat, pattern : Nat, end_offset : Nat]

LEMMA SortedIs ==
  ASSUME NEW n \in Nat, \A s \in 0 .. n - 1 : matches[s] \in MatchRecords,
         \A s, t \in 0 .. n - 1 : matches[s] = matches[t] => s = t
  PROVE  /\ Sorted(n) \in Seq(MatchRecords) /\ Len(Sorted(n)) = n
         /\ Range(Sorted(n)) = {matches[s] : s \in 0 .. n - 1}
         /\ Cardinality(Range(Sorted(n))) = n
         /\ \A i, j \in 1 .. n : i < j => Before(Sorted(n)[i], Sorted(n)[j])
<1> DEFINE S == 0 .. n - 1
           rank(s) == Cardinality({t \in S : Before(matches[t], matches[s]) \/ (matches[t] = matches[s] /\ t < s)})
           place(i) == CHOOSE s \in S : rank(s) = i - 1
<1>s. IsFiniteSet(S) /\ Cardinality(S) = n
  <2>1. PICK z \in Int, y \in Int : z = 0 /\ y = n - 1
    OBVIOUS
  <2>2. IsFiniteSet(z .. y) /\ Cardinality(z .. y) = IF z > y THEN 0 ELSE y - z + 1
    BY FS_Interval
  <2> QED BY <2>1, <2>2
<1>0. PICK R : R = {h \in S \X S : Before(matches[h[1]], matches[h[2]])}
  OBVIOUS
<1>1. \A t, s \in S : <<t, s>> \in R <=> Before(matches[t], matches[s])
  BY <1>0
<1>2. StrictOrder(S, R)
  <2>1. \A a, b, c \in MatchRecords : Before(a, b) /\ Before(b, c) => Before(a, c)
    BY DEF Before, MatchRecords
  <2>2. \A a, b \in MatchRecords : a = b \/ Before(a, b) \/ Before(b, a)
    <3> SUFFICES ASSUME NEW a \in MatchRecords, NEW b \in MatchRecords, ~Before(a, b), ~Before(b, a)
                 PROVE  a = b
      OBVIOUS
    <3>1. a.packet = b.packet /\ a.end_offset = b.end_offset /\ a.pattern = b.pattern
      BY DEF Before, MatchRecords
    <3> QED BY <3>1 DEF MatchRecords
  <2>3. \A a \in MatchRecords : ~Before(a, a)
    BY DEF Before, MatchRecords
  <2>4. \A s \in S : matches[s] \in MatchRecords
    OBVIOUS
  <2>5. \A s, t \in S : matches[s] = matches[t] => s = t
    OBVIOUS
  <2> HIDE DEF S
  <2>6. \A l, m, r \in S : <<l, m>> \in R /\ <<m, r>> \in R => <<l, r>> \in R
    BY <1>1, <2>1, <2>4
  <2>7. \A l, m \in S : l = m \/ <<l, m>> \in R \/ <<m, l>> \in R
    BY <1>1, <2>2, <2>4, <2>5
  <2>8. \A l \in S : <<l, l>> \notin R
    BY <1>1, <2>3, <2>4
  <2> QED BY <2>6, <2>7, <2>8 DEF StrictOrder
<1>3. \A s \in S : rank(s) = RankBy(S, R, s)
  <2> SUFFICES ASSUME NEW s \in S PROVE rank(s) = RankBy(S, R, s)
    OBVIOUS
  <2>1. ASSUME NEW t \in S
        PROVE  (Before(matches[t], matches[s]) \/ (matches[t] = matches[s] /\ t < s)) <=> <<t, s>> \in R
    <3>1. matches[t] = matches[s] => ~(t < s)
      OBVIOUS
    <3> QED BY <1>1, <3>1
  <2>2. {t \in S : Before(matches[t], matches[s]) \/ (matches[t] = matches[s] /\ t < s)} = {t \in S : <<t, s>> \in R}
    <3> HIDE DEF S
    <3> QED BY <2>1
  <2> QED BY <2>2 DEF RankBy
<1> HIDE DEF S, rank
<1>4. /\ \A l \in S : RankBy(S, R, l) \in 0 .. n - 1
      /\ \A l, m \in S : <<l, m>> \in R => RankBy(S, R, l) < RankBy(S, R, m)
      /\ \A l, m \in S : RankBy(S, R, l) = RankBy(S, R, m) => l = m
      /\ {RankBy(S, R, l) : l \in S} = 0 .. n - 1
  BY <1>s, <1>2, RanksBy
<1>5. ASSUME NEW i \in 1 .. n PROVE place(i) \in S /\ rank(place(i)) = i - 1
  <2>1. i - 1 \in 0 .. n - 1
    OBVIOUS
  <2>2. \E s \in S : RankBy(S, R, s) = i - 1
    BY <1>4, <2>1
  <2>3. \E s \in S : rank(s) = i - 1
    BY <1>3, <2>2
  <2> QED BY <2>3
<1> HIDE DEF place
<1>6. Sorted(n) = [i \in 1 .. n |-> matches[place(i)]]
  BY DEF Sorted, S, rank, place
<1>7. Sorted(n) \in [1 .. n -> MatchRecords]
  <2>1. ASSUME NEW i \in 1 .. n PROVE matches[place(i)] \in MatchRecords
    BY <1>5 DEF S
  <2> QED BY <1>6, <2>1
<1>8. Sorted(n) \in Seq(MatchRecords) /\ Len(Sorted(n)) = n /\ DOMAIN Sorted(n) = 1 .. n
  BY <1>7
<1>9. Range(Sorted(n)) = {matches[s] : s \in S}
  <2>1. ASSUME NEW i \in 1 .. n PROVE \E s \in S : Sorted(n)[i] = matches[s]
    BY <1>5, <1>6
  <2>2. ASSUME NEW s \in S PROVE \E i \in 1 .. n : Sorted(n)[i] = matches[s]
    <3>1. PICK r \in 0 .. n - 1 : r = rank(s)
      BY <1>3, <1>4
    <3>2. r + 1 \in 1 .. n /\ (r + 1) - 1 = r
      OBVIOUS
    <3>3. place(r + 1) \in S /\ rank(place(r + 1)) = rank(s)
      BY <1>5, <3>1, <3>2
    <3>4. place(r + 1) = s
      BY <1>3, <1>4, <3>3
    <3> QED BY <1>6, <3>2, <3>4
  <2>3. Range(Sorted(n)) = {Sorted(n)[i] : i \in 1 .. n}
    BY <1>8, Zenon DEF Range
  <2> QED BY <2>1, <2>2, <2>3
<1>10. ASSUME NEW i \in 1 .. n, NEW j \in 1 .. n, i < j PROVE Before(Sorted(n)[i], Sorted(n)[j])
  <2>1. /\ place(i) \in S /\ rank(place(i)) = i - 1
        /\ place(j) \in S /\ rank(place(j)) = j - 1
    BY <1>5
  <2>2. RankBy(S, R, place(i)) < RankBy(S, R, place(j))
    BY <1>3, <1>10, <2>1
  <2>3. RankBy(S, R, place(i)) \in Int /\ RankBy(S, R, place(j)) \in Int
    BY <1>4, <2>1
  <2>4. ~(<<place(j), place(i)>> \in R) /\ place(i) # place(j)
    BY <1>4, <2>1, <2>2, <2>3
  <2>5. <<place(i), place(j)>> \in R
    BY <1>2, <2>1, <2>4 DEF StrictOrder
  <2> QED BY <1>1, <1>6, <2>1, <2>5
<1>11. Cardinality(Range(Sorted(n))) = n
  <2> DEFINE T == {matches[s] : s \in S}
             f == [s \in S |-> matches[s]]
  <2>1. f \in Surjection(S, T)
    BY DEF Surjection
  <2>2. IsInjective(f)
    BY DEF IsInjective, S
  <2>3. f \in Injection(S, T)
    BY <2>1, <2>2 DEF Injection, Surjection
  <2> HIDE DEF f, T
  <2>4. Cardinality(T) = Cardinality(S)
    BY <1>s, <2>1, <2>3, FS_Surjection
  <2> QED BY <1>s, <1>9, <2>4 DEF T
<1> QED BY <1>8, <1>9, <1>10, <1>11 DEF S

\* What the exhaustive search finds.
LEMMA TrueMatches ==
  ASSUME NEW pats \in Seq(Strings \ {<<>>}), NEW batch \in Seq(Strings), NEW m
  PROVE  m \in scan_cpu(pats, batch)
           <=> \E p \in DOMAIN batch, i \in DOMAIN pats : \E e \in 1 .. Len(batch[p]) :
                 m = MatchAt(p, i, e) /\ Ends(pats[i], Word(batch[p], e))
<1>1. m \in scan_cpu(pats, batch)
        <=> \E p \in DOMAIN batch, i \in DOMAIN pats : \E e \in Len(pats[i]) .. Len(batch[p]) :
              m = MatchAt(p, i, e) /\ SubSeq(batch[p], e - Len(pats[i]) + 1, e) = pats[i]
  <2>1. m \in scan_cpu(pats, batch)
          <=> \E p \in DOMAIN batch : \E i \in DOMAIN pats : m \in Occurrences(pats, batch, p, i)
    BY DEF scan_cpu
  <2>2. \A p, i : m \in Occurrences(pats, batch, p, i)
          <=> \E e \in Len(pats[i]) .. Len(batch[p]) :
                m = MatchAt(p, i, e) /\ SubSeq(batch[p], e - Len(pats[i]) + 1, e) = pats[i]
    BY DEF Occurrences
  <2> QED BY <2>1, <2>2
<1>2. ASSUME NEW p \in DOMAIN batch, NEW i \in DOMAIN pats
      PROVE  (\E e \in Len(pats[i]) .. Len(batch[p]) :
                 m = MatchAt(p, i, e) /\ SubSeq(batch[p], e - Len(pats[i]) + 1, e) = pats[i])
             <=> \E e \in 1 .. Len(batch[p]) : m = MatchAt(p, i, e) /\ Ends(pats[i], Word(batch[p], e))
  <2>1. batch[p] \in Strings /\ pats[i] \in Strings /\ pats[i] # <<>>
    OBVIOUS
  <2>2. \A e \in Int :
          (e \in Len(pats[i]) .. Len(batch[p]) /\ SubSeq(batch[p], e - Len(pats[i]) + 1, e) = pats[i])
            <=> (e \in 1 .. Len(batch[p]) /\ Ends(pats[i], Word(batch[p], e)))
    BY <2>1, OccursAt
  <2>3. ASSUME NEW e \in Len(pats[i]) .. Len(batch[p]) PROVE e \in Int
    OBVIOUS
  <2>4. ASSUME NEW e \in 1 .. Len(batch[p]) PROVE e \in Int
    OBVIOUS
  <2> QED BY <2>2, <2>3, <2>4
<1> QED BY <1>1, <1>2

-----------------------------------------------------------------------------
(***************************************************************************)
(* The invariant of a scan: a thread is in the state of what it has read,  *)
(* and the matches counted are those found so far, where a match that a    *)
(* thread has met and not yet reported is not found.  The slots that are   *)
(* filled hold different ones of them.                                     *)
(***************************************************************************)
Walkers == [i : Nat, state : Strings, bits : SUBSET Nat]
Scans ==
    [kind : {"bitmask", "detailed"}, pats : Seq(Strings \ {<<>>}), au : {build(pats) : pats \in PatternLists},
     batch : Seq(Strings), max : Int]
ScanTypeOK == scan \in Scans /\ scan.au = build(scan.pats) /\ walker \in [DOMAIN scan.batch -> Walkers]

\* The patterns that end where packet p has been read up to e.
Ending(p, e) == {i \in DOMAIN scan.pats : Ends(scan.pats[i], Word(scan.batch[p], e))}
Walking ==
    \A p \in DOMAIN scan.batch :
        /\ walker[p].i <= Len(scan.batch[p])
        /\ IsLongest(TrieNodes(scan.pats), walker[p].state, Word(scan.batch[p], walker[p].i))
        /\ walker[p].bits # {} => walker[p].i > 0 /\ walker[p].bits \subseteq Ending(p, walker[p].i)

Met(p) == {i \in DOMAIN scan.pats : \E e \in 1 .. walker[p].i : i \in Ending(p, e)}
BitmaskRight ==
    /\ DOMAIN matches = {} /\ result \in [DOMAIN scan.batch -> SUBSET Nat]
    /\ \A p \in DOMAIN scan.batch : walker[p].bits = {} /\ result[p] = Met(p)

Found ==
    {m \in scan_cpu(scan.pats, scan.batch) :
        /\ m.end_offset <= walker[m.packet].i
        /\ ~(m.end_offset = walker[m.packet].i /\ m.pattern \in walker[m.packet].bits)}
Kept == IF match_count < scan.max THEN match_count ELSE scan.max
DetailedRight ==
    /\ scan.max > 0 /\ matches \in [0 .. scan.max - 1 -> MatchRecords]
    /\ IsFiniteSet(Found) /\ match_count = Cardinality(Found)
    /\ \A s \in 0 .. Kept - 1 : matches[s] \in Found
    /\ \A s, t \in 0 .. Kept - 1 : matches[s] = matches[t] => s = t

DpiInv ==
    /\ scan.kind \in {"none", "bitmask", "detailed", "done"}
    /\ scan.kind = "none" => match_count = 0 /\ answer = <<>>
    /\ scan.kind \in {"bitmask", "detailed"} => ScanTypeOK /\ Walking
    /\ scan.kind = "bitmask" => BitmaskRight
    /\ scan.kind = "detailed" => DetailedRight
    /\ ScansMatchSearch

LEMMA ScanData ==
  ASSUME ScanTypeOK
  PROVE  /\ scan.pats \in Seq(Strings) /\ scan.pats \in Seq(Strings \ {<<>>})
         /\ scan.batch \in Seq(Strings) /\ scan.max \in Int
         /\ \A p \in DOMAIN scan.batch :
              /\ scan.batch[p] \in Strings /\ Len(scan.batch[p]) \in Nat /\ p \in Nat
              /\ walker[p] \in Walkers /\ walker[p].i \in Nat /\ walker[p].bits \in SUBSET Nat
         /\ \A i \in DOMAIN scan.pats : scan.pats[i] \in Strings /\ i \in Nat
<1>1. scan.pats \in Seq(Strings \ {<<>>}) /\ scan.batch \in Seq(Strings) /\ scan.max \in Int
  BY DEF ScanTypeOK, Scans
<1>2. scan.pats \in Seq(Strings)
  <2> PICK q : q = scan.pats
    OBVIOUS
  <2>1. q \in Seq(Strings \ {<<>>})
    BY <1>1
  <2>2. q \in Seq(Strings)
    BY <2>1
  <2> QED BY <2>2
<1>3. ASSUME NEW p \in DOMAIN scan.batch
      PROVE  /\ scan.batch[p] \in Strings /\ Len(scan.batch[p]) \in Nat /\ p \in Nat
             /\ walker[p] \in Walkers /\ walker[p].i \in Nat /\ walker[p].bits \in SUBSET Nat
  <2>1. scan.batch[p] \in Strings /\ p \in Nat
    BY <1>1
  <2>2. walker[p] \in Walkers
    BY DEF ScanTypeOK
  <2> QED BY <2>1, <2>2, LenString DEF Walkers
<1>4. ASSUME NEW i \in DOMAIN scan.pats PROVE scan.pats[i] \in Strings /\ i \in Nat
  BY <1>2
<1> QED BY <1>1, <1>2, <1>3, <1>4

\* What a match that the search finds consists of.
LEMMA FoundMeans ==
  ASSUME ScanTypeOK, NEW m
  PROVE  m \in scan_cpu(scan.pats, scan.batch)
           <=> \E p \in DOMAIN scan.batch, i \in DOMAIN scan.pats : \E e \in 1 .. Len(scan.batch[p]) :
                 m = MatchAt(p, i, e) /\ i \in Ending(p, e)
<1>1. m \in scan_cpu(scan.pats, scan.batch)
        <=> \E p \in DOMAIN scan.batch, i \in DOMAIN scan.pats : \E e \in 1 .. Len(scan.batch[p]) :
              m = MatchAt(p, i, e) /\ Ends(scan.pats[i], Word(scan.batch[p], e))
  BY ScanData, TrueMatches
<1> QED BY <1>1 DEF Ending

LEMMA MatchFields ==
  ASSUME NEW p, NEW i, NEW e
  PROVE  /\ MatchAt(p, i, e).packet = p /\ MatchAt(p, i, e).pattern = i /\ MatchAt(p, i, e).end_offset = e
         /\ p \in Nat /\ i \in Nat /\ e \in Nat => MatchAt(p, i, e) \in MatchRecords
BY DEF MatchAt, MatchRecords

LEMMA WalkerFields ==
  ASSUME NEW n, NEW s, NEW b, NEW w, w = [i |-> n, state |-> s, bits |-> b]
  PROVE  /\ w.i = n /\ w.state = s /\ w.bits = b
         /\ n \in Nat /\ s \in Strings /\ b \in SUBSET Nat => w \in Walkers
BY DEF Walkers

\* A thread reads one byte.
LEMMA MoveIsRight ==
  ASSUME ScanTypeOK, Walking, NEW p \in DOMAIN scan.batch, walker[p].i < Len(scan.batch[p])
  PROVE  /\ Moved(p) \in Walkers /\ Moved(p).i = walker[p].i + 1 /\ Moved(p).i <= Len(scan.batch[p])
         /\ IsLongest(TrieNodes(scan.pats), Moved(p).state, Word(scan.batch[p], walker[p].i + 1))
         /\ Moved(p).bits = Ending(p, walker[p].i + 1)
<1> PICK pats \in Seq(Strings), b \in Strings, i \in Nat :
        pats = scan.pats /\ b = scan.batch[p] /\ i = walker[p].i
  BY ScanData
<1> PICK x : x = walker[p].state
  OBVIOUS
<1>0. Len(b) \in Nat /\ i \in 0 .. Len(b) - 1
  BY LenString
<1>1. /\ b[i + 1] \in Alphabet /\ i + 1 \in 0 .. Len(b)
      /\ Word(b, i) \in Strings /\ Word(b, i + 1) = Append(Word(b, i), b[i + 1])
  BY <1>0, WordNext
<1>2. IsLongest(TrieNodes(pats), x, Word(b, i))
  BY DEF Walking
<1> PICK s : s = build(pats)[x].go[b[i + 1]]
  OBVIOUS
<1>3. IsLongest(TrieNodes(pats), s, Word(b, i + 1))
  BY <1>1, <1>2, StateMoves
<1>4. build(pats)[s].out = {j \in DOMAIN pats : Ends(pats[j], Word(b, i + 1))}
  <2>1. Word(b, i + 1) \in Strings
    <3> PICK t \in Strings, c \in Alphabet : t = Word(b, i) /\ c = b[i + 1]
      BY <1>1
    <3>1. Append(t, c) \in Strings
      BY AppendString
    <3> QED BY <1>1, <3>1
  <2> QED BY <1>3, <2>1, StateKnows
<1>5. Moved(p) = [i |-> i + 1, state |-> s, bits |-> build(pats)[s].out]
  BY DEF Moved, ScanTypeOK
<1>6. build(pats)[s].out = Ending(p, i + 1) /\ Ending(p, i + 1) \in SUBSET Nat
  <2>1. Ending(p, i + 1) = {j \in DOMAIN pats : Ends(pats[j], Word(b, i + 1))}
    BY DEF Ending
  <2>2. DOMAIN pats \subseteq Nat
    OBVIOUS
  <2> QED BY <1>4, <2>1, <2>2
<1>7. s \in Strings
  BY <1>3, TrieIsTrie DEF IsLongest, IsTrie
<1>8. Moved(p) \in Walkers
  <2>1. i + 1 \in Nat
    OBVIOUS
  <2> PICK w, n, B : w = Moved(p) /\ n = i + 1 /\ B = Ending(p, i + 1)
    OBVIOUS
  <2>2. w = [i |-> n, state |-> s, bits |-> B]
    BY <1>5, <1>6
  <2>3. n \in Nat /\ s \in Strings /\ B \in SUBSET Nat
    BY <1>6, <1>7, <2>1
  <2>4. w \in Walkers
    BY <2>2, <2>3, WalkerFields, SMTT(30)
  <2> QED BY <2>4
<1>9. Moved(p).i = i + 1 /\ Moved(p).state = s /\ Moved(p).bits = Ending(p, i + 1)
  <2> PICK w, n, B : w = Moved(p) /\ n = i + 1 /\ B = Ending(p, i + 1)
    OBVIOUS
  <2>1. w = [i |-> n, state |-> s, bits |-> B]
    BY <1>5, <1>6
  <2>2. w.i = n /\ w.state = s /\ w.bits = B
    BY <2>1, WalkerFields, SMTT(30)
  <2> QED BY <2>2
<1>10. i + 1 <= Len(b)
  BY <1>0
<1> QED BY <1>3, <1>8, <1>9, <1>10

\* What one thread does leaves the others where they are.
LEMMA WalkingKept ==
  ASSUME ScanTypeOK, Walking, NEW p \in DOMAIN scan.batch, NEW w \in Walkers,
         scan' = scan, walker' = [walker EXCEPT ![p] = w],
         w.i <= Len(scan.batch[p]),
         IsLongest(TrieNodes(scan.pats), w.state, Word(scan.batch[p], w.i)),
         w.bits # {} => w.i > 0 /\ w.bits \subseteq Ending(p, w.i)
  PROVE  ScanTypeOK' /\ Walking'
<1>1. walker' \in [DOMAIN scan.batch -> Walkers] /\ walker'[p] = w
      /\ \A r \in DOMAIN scan.batch : r # p => walker'[r] = walker[r]
  BY DEF ScanTypeOK
<1>2. ScanTypeOK'
  BY <1>1 DEF ScanTypeOK
<1>3. Walking'
  BY <1>1 DEF Walking, Ending
<1> QED BY <1>2, <1>3

LEMMA EndingNat == ASSUME ScanTypeOK, NEW p, NEW e PROVE Ending(p, e) \subseteq Nat
BY ScanData DEF Ending

\* What has been found when thread p of a detailed scan reads on: the same.
LEMMA ReadFindsNothing ==
  ASSUME ScanTypeOK, Walking, NEW p \in DOMAIN scan.batch, walker[p].bits = {},
         scan' = scan, NEW w \in Walkers, walker' = [walker EXCEPT ![p] = w],
         w.i = walker[p].i + 1, w.bits = Ending(p, w.i)
  PROVE  Found' = Found
<1>1. walker'[p] = w /\ \A r \in DOMAIN scan.batch : r # p => walker'[r] = walker[r]
  BY DEF ScanTypeOK
<1>2. ASSUME NEW m \in scan_cpu(scan.pats, scan.batch)
      PROVE  (/\ m.end_offset <= walker[m.packet].i
              /\ ~(m.end_offset = walker[m.packet].i /\ m.pattern \in walker[m.packet].bits))
             <=> (/\ m.end_offset <= walker'[m.packet].i
                  /\ ~(m.end_offset = walker'[m.packet].i /\ m.pattern \in walker'[m.packet].bits))
  <2>1. PICK r \in DOMAIN scan.batch, i \in DOMAIN scan.pats : \E e \in 1 .. Len(scan.batch[r]) :
               m = MatchAt(r, i, e) /\ i \in Ending(r, e)
    BY FoundMeans
  <2>2. PICK e \in 1 .. Len(scan.batch[r]) : m = MatchAt(r, i, e) /\ i \in Ending(r, e)
    BY <2>1
  <2>3. m.packet = r /\ m.pattern = i /\ m.end_offset = e
    BY <2>2, MatchFields
  <2>4. CASE r # p
    BY <1>1, <2>3, <2>4
  <2>5. CASE r = p
    <3>1. e \in Nat /\ walker[p].i \in Nat
      BY ScanData
    <3>2. (e <= walker[p].i /\ ~(e = walker[p].i /\ i \in walker[p].bits)) <=> e <= walker[p].i
      OBVIOUS
    <3>3. (e <= w.i /\ ~(e = w.i /\ i \in w.bits)) <=> (e <= w.i /\ e # w.i)
      BY <2>2, <2>5
    <3>4. (e <= w.i /\ e # w.i) <=> e <= walker[p].i
      <4> PICK a \in Nat, c \in Nat : a = walker[p].i /\ c = w.i /\ c = a + 1
        BY <3>1
      <4> QED BY <3>1
    <3> QED BY <1>1, <2>3, <2>5, <3>2, <3>3, <3>4
  <2> QED BY <2>4, <2>5
<1> QED BY <1>2 DEF Found

\* Reporting a pattern that has been met finds one match more.
LEMMA ReportFindsOne ==
  ASSUME ScanTypeOK, Walking, NEW p \in DOMAIN scan.batch, NEW b \in walker[p].bits,
         scan' = scan, NEW w \in Walkers, walker' = [walker EXCEPT ![p] = w],
         w.i = walker[p].i, w.bits = walker[p].bits \ {b}
  PROVE  LET new == MatchAt(p, b, walker[p].i)
         IN  Found' = Found \cup {new} /\ new \notin Found /\ new \in MatchRecords
<1> DEFINE new == MatchAt(p, b, walker[p].i)
<1>1. walker'[p] = w /\ \A r \in DOMAIN scan.batch : r # p => walker'[r] = walker[r]
  BY DEF ScanTypeOK
<1>2. /\ new.packet = p /\ new.pattern = b /\ new.end_offset = walker[p].i
      /\ new \in MatchRecords
  BY ScanData, MatchFields
<1>3. new \in scan_cpu(scan.pats, scan.batch)
  <2>1. walker[p].i \in Nat /\ Len(scan.batch[p]) \in Nat
    BY ScanData
  <2>2. walker[p].i > 0 /\ walker[p].i <= Len(scan.batch[p]) /\ b \in Ending(p, walker[p].i)
    BY DEF Walking
  <2>3. b \in DOMAIN scan.pats
    BY <2>2 DEF Ending
  <2>4. walker[p].i \in 1 .. Len(scan.batch[p])
    BY <2>1, <2>2
  <2> QED BY <2>2, <2>3, <2>4, FoundMeans
<1>4. new \notin Found
  BY <1>2 DEF Found
<1> HIDE DEF new
<1>5. ASSUME NEW m \in scan_cpu(scan.pats, scan.batch)
      PROVE  (/\ m.end_offset <= walker'[m.packet].i
              /\ ~(m.end_offset = walker'[m.packet].i /\ m.pattern \in walker'[m.packet].bits))
             <=> \/ m = new
                 \/ /\ m.end_offset <= walker[m.packet].i
                    /\ ~(m.end_offset = walker[m.packet].i /\ m.pattern \in walker[m.packet].bits)
  <2>1. PICK r \in DOMAIN scan.batch, i \in DOMAIN scan.pats : \E e \in 1 .. Len(scan.batch[r]) :
               m = MatchAt(r, i, e) /\ i \in Ending(r, e)
    BY FoundMeans
  <2>2. PICK e \in 1 .. Len(scan.batch[r]) : m = MatchAt(r, i, e) /\ i \in Ending(r, e)
    BY <2>1
  <2>3. m.packet = r /\ m.pattern = i /\ m.end_offset = e
    BY <2>2, MatchFields
  <2>4. m = new <=> r = p /\ i = b /\ e = walker[p].i
    BY <1>2, <2>2, <2>3 DEF new
  <2>5. CASE r # p
    BY <1>1, <2>3, <2>4, <2>5
  <2>6. CASE r = p
    <3>1. e \in Nat /\ walker[p].i \in Nat
      BY ScanData
    <3>2. CASE e = walker[p].i
      <4>1. e <= walker[p].i
        BY <3>1, <3>2
      <4> QED BY <1>1, <2>3, <2>4, <2>6, <3>2, <4>1
    <3>3. CASE e # walker[p].i
      BY <1>1, <2>3, <2>4, <2>6, <3>3
    <3> QED BY <3>2, <3>3
  <2> QED BY <2>5, <2>6
<1>6. Found' = Found \cup {new}
  <2>1. Found' = {m \in scan_cpu(scan.pats, scan.batch) :
                    /\ m.end_offset <= walker'[m.packet].i
                    /\ ~(m.end_offset = walker'[m.packet].i /\ m.pattern \in walker'[m.packet].bits)}
    BY DEF Found
  <2> QED BY <1>3, <1>5, <2>1 DEF Found
<1> QED BY <1>2, <1>4, <1>6 DEF new

LEMMA ScanBeginInv == ASSUME DpiInv, ScanBegin PROVE DpiInv'
<1>1. PICK kind \in {"bitmask", "detailed"}, pats \in PatternLists, batch \in Batches, max \in MatchLimits :
        LET empty == batch = <<>> \/ (kind = "detailed" /\ max <= 0) IN
        /\ scan' = [kind |-> IF empty THEN "done" ELSE kind, pats |-> pats, au |-> build(pats),
                    batch |-> batch, max |-> max]
        /\ walker' = [p \in IF empty THEN {} ELSE DOMAIN batch |-> [i |-> 0, state |-> <<>>, bits |-> {}]]
        /\ result' = [p \in DOMAIN batch |-> {}]
        /\ matches' = [s \in IF kind = "detailed" THEN 0..(max - 1) ELSE {} |-> NoMatch]
  BY DEF ScanBegin
<1>2. match_count' = 0 /\ answer' = <<>>
  BY DEF ScanBegin, DpiInv
<1>3. pats \in Seq(Strings \ {<<>>}) /\ pats \in Seq(Strings) /\ batch \in Seq(Strings) /\ max \in Int
  <2>1. pats \in Seq(Strings \ {<<>>}) /\ batch \in Seq(Strings) /\ max \in Int
    BY DpiAssumption DEF Strings
  <2>2. pats \in Seq(Strings)
    BY <2>1
  <2> QED BY <2>1, <2>2
<1> DEFINE empty == batch = <<>> \/ (kind = "detailed" /\ max <= 0)
<1>4. CASE empty
  <2>1. /\ scan'.kind = "done" /\ scan'.pats = pats /\ scan'.batch = batch /\ scan'.max = max
        /\ DOMAIN walker' = {}
        /\ DOMAIN matches' = IF kind = "detailed" THEN 0..(max - 1) ELSE {}
    BY <1>1, <1>4
  <2>2. ASSUME DOMAIN matches' # {}
        PROVE  batch = <<>> /\ max > 0
    <3>1. kind = "detailed" /\ 0 .. (max - 1) # {}
      BY <2>1, <2>2
    <3>2. max > 0
      BY <1>3, <3>1
    <3> QED BY <1>3, <1>4, <3>1, <3>2
  <2>3. batch = <<>> => scan_cpu(pats, batch) = {}
    BY DEF scan_cpu
  <2>4. Range(<<>>) = {} /\ Len(<<>>) = 0 /\ Cardinality({}) = 0
    BY FS_EmptySet DEF Range
  <2>5. ScansMatchSearch'
    <3>1. CASE DOMAIN matches' = {}
      BY <2>1, <3>1 DEF ScansMatchSearch
    <3>2. CASE DOMAIN matches' # {}
      <4>1. batch = <<>> /\ max > 0 /\ scan_cpu(pats, batch) = {}
        BY <2>2, <2>3, <3>2
      <4>2. \A i \in 1..(Len(answer') - 1) : Before(answer'[i], answer'[i + 1])
        BY <1>2, <2>4
      <4>3. match_count' < scan'.max
        BY <1>2, <1>3, <2>1, <4>1
      <4> QED BY <1>2, <2>1, <2>4, <4>1, <4>2, <4>3 DEF ScansMatchSearch
    <3> QED BY <3>1, <3>2
  <2> QED BY <2>1, <2>5 DEF DpiInv
<1>5. CASE ~empty
  <2>1. /\ scan' = [kind |-> kind, pats |-> pats, au |-> build(pats), batch |-> batch, max |-> max]
        /\ walker' = [p \in DOMAIN batch |-> [i |-> 0, state |-> <<>>, bits |-> {}]]
        /\ result' = [p \in DOMAIN batch |-> {}]
        /\ matches' = [s \in IF kind = "detailed" THEN 0..(max - 1) ELSE {} |-> NoMatch]
    BY <1>1, <1>5
  <2>2. scan'.kind = kind /\ scan'.pats = pats /\ scan'.batch = batch /\ scan'.max = max /\ scan'.au = build(pats)
    BY <2>1
  <2>3. [i |-> 0, state |-> <<>>, bits |-> {}] \in Walkers
    BY EmptyString DEF Walkers
  <2>4. ScanTypeOK'
    <3>1. scan' \in Scans
      BY <1>3, <2>1 DEF Scans
    <3>2. walker' \in [DOMAIN batch -> Walkers]
      BY <2>1, <2>3
    <3> QED BY <2>2, <3>1, <3>2 DEF ScanTypeOK
  <2>5. ASSUME NEW p \in DOMAIN batch
        PROVE  /\ batch[p] \in Strings /\ Len(batch[p]) \in Nat
               /\ walker'[p].i = 0 /\ walker'[p].state = <<>> /\ walker'[p].bits = {}
               /\ IsLongest(TrieNodes(pats), <<>>, Word(batch[p], 0))
    <3>1. batch[p] \in Strings /\ Len(batch[p]) \in Nat
      BY <1>3, LenString
    <3>2. Word(batch[p], 0) \in Strings /\ Len(Word(batch[p], 0)) = 0
      <4>1. 0 \in 0 .. Len(batch[p])
        BY <3>1
      <4> QED BY <3>1, <4>1, WordIs
    <3>3. Word(batch[p], 0) = <<>>
      BY <3>2, EmptyString
    <3> QED BY <1>3, <2>1, <3>1, <3>3, EmptyLongest
  <2>6. Walking'
    BY <2>2, <2>5 DEF Walking
  <2>7. scan'.kind # "done"
    BY <2>2
  <2>8. ScansMatchSearch'
    BY <2>7 DEF ScansMatchSearch
  <2>9. CASE kind = "bitmask"
    <3>1. DOMAIN matches' = {} /\ result' \in [DOMAIN batch -> SUBSET Nat]
      BY <2>1, <2>9
    <3>2. \A p \in DOMAIN batch : walker'[p].bits = {} /\ result'[p] = {} /\ 1 .. walker'[p].i = {}
      BY <2>1, <2>5
    <3>3. \A p \in DOMAIN batch : Met(p)' = {}
      BY <3>2 DEF Met
    <3>4. BitmaskRight'
      BY <2>2, <3>1, <3>2, <3>3 DEF BitmaskRight
    <3> QED BY <2>2, <2>4, <2>6, <2>8, <2>9, <3>4 DEF DpiInv
  <2>10. CASE kind = "detailed"
    <3>1. max > 0
      BY <1>3, <1>5, <2>10
    <3>2. matches' \in [0 .. max - 1 -> MatchRecords]
      BY <2>1, <2>10 DEF NoMatch, MatchAt, MatchRecords
    <3>3. Found' = {}
      <4> SUFFICES ASSUME NEW m \in Found' PROVE FALSE
        OBVIOUS
      <4>1. m \in scan_cpu(pats, batch) /\ m.end_offset <= walker'[m.packet].i
        BY <2>2 DEF Found
      <4>2. PICK p \in DOMAIN batch, i \in DOMAIN pats : \E e \in 1 .. Len(batch[p]) :
              m = MatchAt(p, i, e) /\ Ends(pats[i], Word(batch[p], e))
        BY <1>3, <4>1, TrueMatches
      <4>3. PICK e \in 1 .. Len(batch[p]) : m = MatchAt(p, i, e)
        BY <4>2
      <4>4. e <= walker'[p].i
        BY <4>1, <4>3, MatchFields
      <4> QED BY <2>5, <4>4
    <3>4. Kept' = 0
      BY <1>2, <2>2, <3>1, <1>3 DEF Kept
    <3>5. DetailedRight'
      BY <1>2, <2>2, <3>1, <3>2, <3>3, <3>4, FS_EmptySet DEF DetailedRight
    <3> QED BY <2>2, <2>4, <2>6, <2>8, <2>10, <3>5 DEF DpiInv
  <2> QED BY <2>9, <2>10
<1> QED BY <1>4, <1>5

LEMMA BitmaskStepInv ==
  ASSUME DpiInv, NEW p \in DOMAIN walker, k_scan_bitmask(p) PROVE DpiInv'
<1>1. /\ scan.kind = "bitmask" /\ Read(p) /\ scan' = scan
      /\ walker' = [walker EXCEPT ![p] = [Moved(p) EXCEPT !.bits = {}]]
      /\ result' = [result EXCEPT ![p] = @ \cup Moved(p).bits]
      /\ matches' = matches /\ match_count' = match_count /\ answer' = answer
  BY DEF k_scan_bitmask
<1>2. ScanTypeOK /\ Walking /\ BitmaskRight
  BY <1>1 DEF DpiInv
<1>3. p \in DOMAIN scan.batch /\ walker[p].i < Len(scan.batch[p])
  BY <1>1, <1>2 DEF ScanTypeOK, Read
<1>4. /\ Moved(p) \in Walkers /\ Moved(p).i = walker[p].i + 1 /\ Moved(p).i <= Len(scan.batch[p])
      /\ IsLongest(TrieNodes(scan.pats), Moved(p).state, Word(scan.batch[p], walker[p].i + 1))
      /\ Moved(p).bits = Ending(p, walker[p].i + 1)
  BY <1>2, <1>3, MoveIsRight
<1> PICK m, w : m = Moved(p) /\ w = [m EXCEPT !.bits = {}]
  OBVIOUS
<1>5. w \in Walkers /\ w.i = m.i /\ w.state = m.state /\ w.bits = {}
  BY <1>4 DEF Walkers
<1>6. ScanTypeOK' /\ Walking'
  BY <1>1, <1>2, <1>3, <1>4, <1>5, WalkingKept
<1>7. walker'[p] = w /\ \A r \in DOMAIN scan.batch : r # p => walker'[r] = walker[r]
  BY <1>1, <1>2 DEF ScanTypeOK
<1>8. \A r, e : Ending(r, e)' = Ending(r, e)
  BY <1>1 DEF Ending
<1>9. Met(p)' = Met(p) \cup Ending(p, walker[p].i + 1)
  <2> PICK n \in Nat : n = walker[p].i
    BY <1>2, <1>3, ScanData
  <2>1. walker'[p].i = n + 1
    BY <1>4, <1>5, <1>7
  <2>2. Met(p)' = {i \in DOMAIN scan.pats : \E e \in 1 .. n + 1 : i \in Ending(p, e)}
    BY <1>1, <1>8, <2>1 DEF Met
  <2>3. \A e : e \in 1 .. n + 1 <=> e \in 1 .. n \/ e = n + 1
    OBVIOUS
  <2>4. Ending(p, n + 1) \subseteq DOMAIN scan.pats
    BY DEF Ending
  <2> QED BY <2>2, <2>3, <2>4 DEF Met
<1>10. BitmaskRight'
  <2>1. DOMAIN result = DOMAIN scan.batch /\ result[p] = Met(p)
    BY <1>2, <1>3 DEF BitmaskRight
  <2>2. result'[p] = Met(p)' /\ \A r \in DOMAIN scan.batch : r # p => result'[r] = result[r]
    BY <1>1, <1>3, <1>4, <1>9, <2>1
  <2>3. \A r \in DOMAIN scan.batch : r # p => Met(r)' = Met(r)
    BY <1>1, <1>7, <1>8 DEF Met
  <2>4. \A r \in DOMAIN scan.batch : walker'[r].bits = {} /\ result'[r] = Met(r)'
    BY <1>2, <1>5, <1>7, <2>2, <2>3 DEF BitmaskRight
  <2>5. DOMAIN result' = DOMAIN scan.batch /\ \A r \in DOMAIN scan.batch : Met(r)' \in SUBSET Nat
    <3>1. DOMAIN scan.pats \subseteq Nat /\ DOMAIN scan'.pats = DOMAIN scan.pats
      BY <1>1, <1>2, ScanData
    <3>2. \A r : Met(r)' \subseteq DOMAIN scan'.pats
      BY DEF Met
    <3>3. DOMAIN result' = DOMAIN scan.batch
      BY <1>1, <2>1
    <3> QED BY <3>1, <3>2, <3>3
  <2>6. result' \in [DOMAIN scan.batch -> SUBSET Nat]
    <3>1. \A r \in DOMAIN scan.batch : result'[r] \in SUBSET Nat
      BY <2>4, <2>5
    <3>2. result' = [r \in DOMAIN scan.batch |-> result'[r]]
      BY <1>1, <2>1
    <3> QED BY <3>1, <3>2
  <2> QED BY <1>1, <1>2, <2>4, <2>6 DEF BitmaskRight
<1>11. ScansMatchSearch'
  BY <1>1 DEF ScansMatchSearch
<1> QED BY <1>1, <1>6, <1>10, <1>11 DEF DpiInv


LEMMA ReadByteInv ==
  ASSUME DpiInv, NEW p \in DOMAIN walker, ReadByte(p) PROVE DpiInv'
<1>1. /\ scan.kind = "detailed" /\ Read(p) /\ scan' = scan
      /\ walker' = [walker EXCEPT ![p] = Moved(p)]
      /\ matches' = matches /\ match_count' = match_count /\ answer' = answer
  BY DEF ReadByte
<1>2. ScanTypeOK /\ Walking /\ DetailedRight
  BY <1>1 DEF DpiInv
<1>3. p \in DOMAIN scan.batch /\ walker[p].i < Len(scan.batch[p]) /\ walker[p].bits = {}
  BY <1>1, <1>2 DEF ScanTypeOK, Read
<1> PICK w : w = Moved(p)
  OBVIOUS
<1>4. /\ w \in Walkers /\ w.i = walker[p].i + 1 /\ w.i <= Len(scan.batch[p])
      /\ IsLongest(TrieNodes(scan.pats), w.state, Word(scan.batch[p], w.i))
      /\ w.bits = Ending(p, w.i)
  BY <1>2, <1>3, MoveIsRight
<1>5. w.i > 0
  <2> PICK n \in Nat : n = walker[p].i
    BY <1>2, <1>3, ScanData
  <2> QED BY <1>4
<1>6. ScanTypeOK' /\ Walking'
  BY <1>1, <1>2, <1>3, <1>4, <1>5, WalkingKept
<1>7. Found' = Found
  BY <1>1, <1>2, <1>3, <1>4, ReadFindsNothing
<1>8. DetailedRight'
  BY <1>1, <1>2, <1>7 DEF DetailedRight, Kept
<1>9. ScansMatchSearch'
  BY <1>1 DEF ScansMatchSearch
<1> QED BY <1>1, <1>6, <1>8, <1>9 DEF DpiInv

LEMMA AppendMatchInv ==
  ASSUME DpiInv, NEW p \in DOMAIN walker, AppendMatch(p) PROVE DpiInv'
<1> DEFINE pat == CHOOSE b \in walker[p].bits : \A x \in walker[p].bits : b <= x
<1>1. /\ scan.kind = "detailed" /\ walker[p].bits # {} /\ scan' = scan
      /\ walker' = [walker EXCEPT ![p].bits = @ \ {pat}]
      /\ matches' = IF match_count < scan.max
                    THEN [matches EXCEPT ![match_count] = MatchAt(p, pat, walker[p].i)] ELSE matches
      /\ match_count' = match_count + 1 /\ answer' = answer
  BY DEF AppendMatch
<1>2. ScanTypeOK /\ Walking /\ DetailedRight
  BY <1>1 DEF DpiInv
<1>3. p \in DOMAIN scan.batch
  BY <1>2 DEF ScanTypeOK
<1>4. pat \in walker[p].bits
  <2> PICK B \in SUBSET Nat : B = walker[p].bits
    BY <1>2, <1>3, ScanData
  <2>1. \E b \in B : \A x \in B : b <= x
    BY <1>1, LeastNumber
  <2> QED BY <2>1
<1> PICK b \in walker[p].bits : b = pat
  BY <1>4
<1> HIDE DEF pat
<1> PICK w : w = [walker[p] EXCEPT !.bits = @ \ {b}]
  OBVIOUS
<1> PICK new : new = MatchAt(p, b, walker[p].i)
  OBVIOUS
<1>5. w \in Walkers /\ w.i = walker[p].i /\ w.state = walker[p].state /\ w.bits = walker[p].bits \ {b}
  <2>1. walker[p] \in Walkers
    BY <1>2, <1>3, ScanData
  <2> QED BY <2>1 DEF Walkers
<1>6. walker' = [walker EXCEPT ![p] = w]
  BY <1>1
<1>7. /\ walker[p].i <= Len(scan.batch[p]) /\ walker[p].i > 0 /\ walker[p].bits \subseteq Ending(p, walker[p].i)
      /\ IsLongest(TrieNodes(scan.pats), walker[p].state, Word(scan.batch[p], walker[p].i))
  BY <1>1, <1>2, <1>3 DEF Walking
<1>8. ScanTypeOK' /\ Walking'
  <2>1. w.bits \subseteq Ending(p, w.i)
    BY <1>5, <1>7
  <2> QED BY <1>1, <1>2, <1>3, <1>5, <1>6, <1>7, <2>1, WalkingKept
<1>9. Found' = Found \cup {new} /\ new \notin Found /\ new \in MatchRecords
  BY <1>1, <1>2, <1>3, <1>5, <1>6, ReportFindsOne
<1>10. DetailedRight'
  <2>1. /\ IsFiniteSet(Found) /\ match_count = Cardinality(Found) /\ match_count \in Nat
        /\ scan.max \in Int /\ scan.max > 0 /\ matches \in [0 .. scan.max - 1 -> MatchRecords]
    <3>1. scan.max \in Int
      BY <1>2, ScanData
    <3> QED BY <1>2, <3>1, FS_CardinalityType DEF DetailedRight
  <2>2. IsFiniteSet(Found') /\ match_count' = Cardinality(Found')
    BY <1>1, <1>9, <2>1, FS_AddElement
  <2>3. CASE match_count < scan.max
    <3> PICK c \in Nat, M \in Int : c = match_count /\ M = scan.max /\ c < M /\ M > 0
      BY <2>1, <2>3
    <3>1. c \in 0 .. M - 1 /\ Kept = c /\ Kept' = c + 1
      <4>1. Kept = c
        BY <2>3 DEF Kept
      <4>2. Kept' = c + 1
        BY <1>1 DEF Kept
      <4> QED BY <4>1, <4>2
    <3>2. matches' \in [0 .. M - 1 -> MatchRecords] /\ matches'[c] = new
          /\ \A s \in 0 .. c - 1 : matches'[s] = matches[s]
      <4>1. matches' = [matches EXCEPT ![c] = new]
        BY <1>1, <2>3
      <4> QED BY <1>9, <2>1, <3>1, <4>1
    <3>3. /\ \A s \in 0 .. c - 1 : matches[s] \in Found
          /\ \A s, t \in 0 .. c - 1 : matches[s] = matches[t] => s = t
      BY <1>2, <3>1 DEF DetailedRight
    <3>4. \A s : s \in 0 .. (c + 1) - 1 <=> s \in 0 .. c - 1 \/ s = c
      OBVIOUS
    <3>5. \A s \in 0 .. (c + 1) - 1 : matches'[s] \in Found'
      BY <1>9, <3>2, <3>3, <3>4
    <3>6. \A s, t \in 0 .. (c + 1) - 1 : matches'[s] = matches'[t] => s = t
      BY <1>9, <3>2, <3>3, <3>4
    <3> QED BY <1>1, <2>1, <2>2, <3>1, <3>2, <3>5, <3>6 DEF DetailedRight
  <2>4. CASE ~(match_count < scan.max)
    <3>1. matches' = matches
      BY <1>1, <2>4
    <3>2. Kept' = Kept
      BY <1>1, <2>1, <2>4 DEF Kept
    <3> QED BY <1>1, <1>2, <1>9, <2>1, <2>2, <3>1, <3>2 DEF DetailedRight
  <2> QED BY <2>3, <2>4
<1>11. ScansMatchSearch'
  BY <1>1 DEF ScansMatchSearch
<1> QED BY <1>1, <1>8, <1>10, <1>11 DEF DpiInv

LEMMA ScanEndInv == ASSUME DpiInv, ScanEnd PROVE DpiInv'
<1>1. /\ scan.kind \in {"bitmask", "detailed"}
      /\ \A p \in DOMAIN walker : walker[p].i = Len(scan.batch[p]) /\ walker[p].bits = {}
      /\ answer' = Sorted(Kept)
      /\ scan' = [scan EXCEPT !.kind = "done"]
      /\ walker' = walker /\ result' = result /\ matches' = matches /\ match_count' = match_count
  BY DEF ScanEnd, Kept
<1>2. ScanTypeOK /\ Walking /\ (scan.kind = "bitmask" => BitmaskRight) /\ (scan.kind = "detailed" => DetailedRight)
  BY <1>1 DEF DpiInv
<1>3. scan'.kind = "done" /\ scan'.pats = scan.pats /\ scan'.batch = scan.batch /\ scan'.max = scan.max
  <2>1. scan \in Scans
    BY <1>2 DEF ScanTypeOK
  <2> QED BY <1>1, <2>1 DEF Scans
<1> DEFINE true == scan_cpu(scan.pats, scan.batch)
<1>4. DOMAIN walker = DOMAIN scan.batch
  BY <1>2 DEF ScanTypeOK
<1>5. ASSUME DetailedRight PROVE ScansMatchSearch'
  <2>1. Found = true
    <3> SUFFICES ASSUME NEW m \in true PROVE m \in Found
      BY DEF Found
    <3>1. PICK p \in DOMAIN scan.batch, i \in DOMAIN scan.pats : \E e \in 1 .. Len(scan.batch[p]) :
            m = MatchAt(p, i, e) /\ i \in Ending(p, e)
      BY <1>2, FoundMeans
    <3>2. PICK e \in 1 .. Len(scan.batch[p]) : m = MatchAt(p, i, e)
      BY <3>1
    <3>3. m.packet = p /\ m.end_offset = e
      BY <3>2, MatchFields
    <3>4. walker[p].i = Len(scan.batch[p]) /\ walker[p].bits = {} /\ Len(scan.batch[p]) \in Nat
      BY <1>1, <1>2, <1>4, ScanData
    <3>5. e <= Len(scan.batch[p])
      BY <3>4
    <3> QED BY <3>3, <3>4, <3>5 DEF Found
  <2>2. /\ match_count = Cardinality(true) /\ match_count \in Nat
        /\ scan.max \in Int /\ scan.max > 0 /\ matches \in [0 .. scan.max - 1 -> MatchRecords]
    <3>1. scan.max \in Int
      BY <1>2, ScanData
    <3> QED BY <1>5, <2>1, <3>1, FS_CardinalityType DEF DetailedRight
  <2> PICK n : n = Kept
    OBVIOUS
  <2>3. n \in Nat /\ n <= scan.max
    BY <2>2 DEF Kept
  <2>4. /\ \A s \in 0 .. n - 1 : matches[s] \in MatchRecords /\ matches[s] \in true
        /\ \A s, t \in 0 .. n - 1 : matches[s] = matches[t] => s = t
    <3>1. 0 .. n - 1 \subseteq 0 .. scan.max - 1
      BY <2>2, <2>3
    <3> QED BY <1>5, <2>1, <2>2, <3>1 DEF DetailedRight
  <2>5. /\ Len(answer') = n
        /\ Range(answer') = {matches[s] : s \in 0 .. n - 1}
        /\ Cardinality(Range(answer')) = n
        /\ \A i, j \in 1 .. n : i < j => Before(answer'[i], answer'[j])
    BY <1>1, <2>3, <2>4, SortedIs
  <2>6. Range(answer') \subseteq true
    BY <2>4, <2>5
  <2>7. \A i \in 1 .. (Len(answer') - 1) : Before(answer'[i], answer'[i + 1])
    <3> SUFFICES ASSUME NEW i \in 1 .. (Len(answer') - 1) PROVE Before(answer'[i], answer'[i + 1])
      OBVIOUS
    <3>1. i \in 1 .. n /\ i + 1 \in 1 .. n /\ i < i + 1
      BY <2>3, <2>5
    <3> QED BY <2>5, <3>1
  <2>8. DOMAIN matches' # {}
    <3>1. 0 \in 0 .. scan.max - 1
      BY <2>2
    <3> QED BY <1>1, <2>2, <3>1
  <2>9. Len(answer') = (IF match_count' < scan'.max THEN match_count' ELSE scan'.max)
    BY <1>1, <1>3, <2>5 DEF Kept
  <2> QED BY <1>1, <1>3, <2>2, <2>5, <2>6, <2>7, <2>8, <2>9 DEF ScansMatchSearch
<1>6. ASSUME BitmaskRight PROVE ScansMatchSearch'
  <2>1. ASSUME NEW p \in DOMAIN scan.batch
        PROVE  result[p] = {m.pattern : m \in {x \in true : x.packet = p}}
    <3>1. result[p] = Met(p) /\ walker[p].i = Len(scan.batch[p])
      BY <1>1, <1>4, <1>6 DEF BitmaskRight
    <3>2. ASSUME NEW m \in true, m.packet = p PROVE m.pattern \in Met(p)
      <4>1. PICK r \in DOMAIN scan.batch, i \in DOMAIN scan.pats : \E e \in 1 .. Len(scan.batch[r]) :
              m = MatchAt(r, i, e) /\ i \in Ending(r, e)
        BY <1>2, FoundMeans
      <4>2. PICK e \in 1 .. Len(scan.batch[r]) : m = MatchAt(r, i, e) /\ i \in Ending(r, e)
        BY <4>1
      <4>3. r = p /\ m.pattern = i
        BY <3>2, <4>2, MatchFields
      <4> QED BY <3>1, <4>2, <4>3 DEF Met
    <3>3. ASSUME NEW i \in Met(p) PROVE \E m \in true : m.packet = p /\ m.pattern = i
      <4>1. PICK e \in 1 .. Len(scan.batch[p]) : i \in Ending(p, e)
        BY <3>1 DEF Met
      <4>2. i \in DOMAIN scan.pats
        BY DEF Met
      <4>3. MatchAt(p, i, e) \in true
        BY <1>2, <4>1, <4>2, FoundMeans
      <4> QED BY <4>3, MatchFields
    <3> QED BY <3>1, <3>2, <3>3
  <2>2. DOMAIN matches' = {}
    BY <1>1, <1>6 DEF BitmaskRight
  <2> QED BY <1>1, <1>3, <1>4, <2>1, <2>2 DEF ScansMatchSearch
<1>7. ScansMatchSearch'
  BY <1>1, <1>2, <1>5, <1>6
<1> QED BY <1>3, <1>7 DEF DpiInv

\* Any number of threads, in any order of their steps: a finished scan has found what
\* a search of every pattern at every place finds (the kernels k_scan_bitmask and
\* k_scan_detailed with their tables, against the loop of scan_cpu).
THEOREM ScansFindAll == DpiSpec => []ScansMatchSearch
<1>1. DpiInit => DpiInv
  BY DEF DpiInit, DpiInv, NoScan, ScansMatchSearch
<1>2. DpiInv /\ [DpiNext]_dpiVars => DpiInv'
  <2> SUFFICES ASSUME DpiInv, [DpiNext]_dpiVars PROVE DpiInv'
    OBVIOUS
  <2>1. CASE ScanBegin
    BY <2>1, ScanBeginInv
  <2>2. ASSUME NEW p \in DOMAIN walker, PacketStep(p) PROVE DpiInv'
    BY <2>2, BitmaskStepInv, ReadByteInv, AppendMatchInv DEF PacketStep
  <2>3. CASE ScanEnd
    BY <2>3, ScanEndInv
  <2>4. CASE UNCHANGED dpiVars
    BY <2>4 DEF dpiVars, DpiInv, ScanTypeOK, Walking, Ending, BitmaskRight, Met, DetailedRight, Found, Kept,
                ScansMatchSearch
  <2> QED BY <2>1, <2>2, <2>3, <2>4 DEF DpiNext
<1>3. DpiInv => ScansMatchSearch
  BY DEF DpiInv
<1> QED BY <1>1, <1>2, <1>3, PTL DEF DpiSpec

-----------------------------------------------------------------------------
(***************************************************************************)
(* Shared memory, for any number of runners and any kernels.  If the text  *)
(* of a kernel orders each of its loads by barriers behind the write it is *)
(* meant for and before the next one (Ordered), no schedule of its runners *)
(* and no landing of its copies makes a load see another round.            *)
(***************************************************************************)
\* The runners of kernel k have executed n[r] operations each.
AtPlaces(k, n) ==
    /\ block = k.name
    /\ n \in [Runners -> Nat] /\ \A r \in Runners : n[r] <= Len(k.code[r])
    /\ code = [r \in Runners |-> SubSeq(k.code[r], n[r] + 1, Len(k.code[r]))]

\* Nobody has passed a barrier that somebody has not reached.
BarriersHold(k, n) ==
    /\ arrived \in [Runners -> Nat] /\ waits \in [Runners -> BOOLEAN]
    /\ \A r \in Runners :
         /\ arrived[r] = Barriers(k.code[r], n[r] + 1) + (IF waits[r] THEN 1 ELSE 0)
         /\ waits[r] => k.code[r][n[r] + 1].op = "sync"
         /\ \A s \in Runners : Barriers(k.code[r], n[r] + 1) <= arrived[s]

\* What has not landed was issued, and not awaited since.
Issued(k, n) ==
    /\ DOMAIN flying = Runners
    /\ \A r \in Runners : \A x \in flying[r] : \E j \in 1 .. n[r] :
         /\ k.code[r][j].op = "copy" /\ x = <<k.code[r][j].slot, k.code[r][j].tag>>
         /\ \A a \in (j + 1) .. n[r] : k.code[r][a].op # "await"

\* Of the writes of r to a slot, the one at j is the last so far and has landed
\* where it could not meet an earlier one.
LatestAt(k, n, r, j) ==
    LET c == k.code[r] IN
    /\ j \in Writes(c, c[j].slot)
    /\ \A w \in Writes(c, c[j].slot) : w < j => \E a \in Landing(c, w) : a < j
    /\ \A w \in Writes(c, c[j].slot) : w > j => w > n[r]
    /\ c[j].op = "copy" => <<c[j].slot, c[j].tag>> \notin flying[r]
SlotsOf(k) == UNION {{k.code[r][i].slot : i \in DOMAIN k.code[r]} : r \in Runners}
PartsHold(k, n) ==
    /\ shared \in [SlotsOf(k) -> [Runners -> Int]]
    /\ \A r \in Runners : \A j \in 1 .. n[r] :
         LatestAt(k, n, r, j) => shared[k.code[r][j].slot][r] = k.code[r][j].tag

After(n, r) == [n EXCEPT ![r] = n[r] + 1]

BlockInvAt(k, n) == AtPlaces(k, n) /\ BarriersHold(k, n) /\ Issued(k, n) /\ PartsHold(k, n)
BlockInv ==
    \/ BlockInit
    \/ \E k \in BlockKernels : \E n \in [Runners -> Nat] : BlockInvAt(k, n)

-----------------------------------------------------------------------------
LEMMA Programs ==
  ASSUME NEW k \in BlockKernels, NEW r \in Runners
  PROVE  /\ k.code[r] \in Seq(OperationsIn(k)) /\ Len(k.code[r]) \in Nat
         /\ DOMAIN k.code[r] = 1 .. Len(k.code[r])
         /\ \A i \in 1 .. Len(k.code[r]) :
              /\ k.code[r][i].tag \in Int /\ k.code[r][i].parts \subseteq Runners
              /\ k.code[r][i].slot \in SlotsOf(k)
<1>1. k.code[r] \in Seq(OperationsIn(k))
  BY KernelsAssumption
<1>2. Len(k.code[r]) \in Nat /\ DOMAIN k.code[r] = 1 .. Len(k.code[r])
  BY <1>1
<1>3. ASSUME NEW i \in 1 .. Len(k.code[r])
      PROVE  k.code[r][i] \in OperationsIn(k) /\ k.code[r][i].slot \in SlotsOf(k)
  <2>1. i \in DOMAIN k.code[r]
    BY <1>2
  <2> QED BY <2>1 DEF OperationsIn, SlotsOf
<1> QED BY <1>1, <1>2, <1>3, KernelsAssumption

LEMMA BarriersGrow ==
  ASSUME NEW c, NEW i \in Nat, NEW j \in Nat, i <= j
  PROVE  Barriers(c, i) \in Nat /\ Barriers(c, j) \in Nat /\ Barriers(c, i) <= Barriers(c, j)
<1> DEFINE M(m) == {x \in 1 .. (m - 1) : c[x].op = "sync"}
<1>1. M(i) \subseteq 1 .. (i - 1) /\ M(j) \subseteq 1 .. (j - 1) /\ M(i) \subseteq M(j)
  OBVIOUS
<1>2. IsFiniteSet(1 .. (i - 1)) /\ IsFiniteSet(1 .. (j - 1))
  BY FS_Interval
<1> HIDE DEF M
<1>3. IsFiniteSet(M(i)) /\ IsFiniteSet(M(j)) /\ Cardinality(M(i)) <= Cardinality(M(j))
  BY <1>1, <1>2, FS_Subset
<1>4. Cardinality(M(i)) \in Nat /\ Cardinality(M(j)) \in Nat
  BY <1>3, FS_CardinalityType
<1> QED BY <1>3, <1>4 DEF M, Barriers

LEMMA BarriersNext ==
  ASSUME NEW c, NEW i \in Nat \ {0}
  PROVE  Barriers(c, i + 1) = IF c[i].op = "sync" THEN Barriers(c, i) + 1 ELSE Barriers(c, i)
<1> DEFINE M(m) == {x \in 1 .. (m - 1) : c[x].op = "sync"}
<1>1. IsFiniteSet(1 .. (i - 1)) /\ M(i) \subseteq 1 .. (i - 1)
  BY FS_Interval
<1>2. IsFiniteSet(M(i))
  BY <1>1, FS_Subset
<1>3. M(i + 1) = IF c[i].op = "sync" THEN M(i) \cup {i} ELSE M(i)
  OBVIOUS
<1>4. i \notin M(i)
  OBVIOUS
<1> HIDE DEF M
<1>5. Cardinality(M(i + 1)) = IF c[i].op = "sync" THEN Cardinality(M(i)) + 1 ELSE Cardinality(M(i))
  BY <1>2, <1>3, <1>4, FS_AddElement
<1> QED BY <1>5 DEF M, Barriers

\* A runner that is about to execute an operation, and the places afterwards.
LEMMA RunnerAdvances ==
  ASSUME NEW k \in BlockKernels, NEW n \in [Runners -> Nat], AtPlaces(k, n),
         NEW r \in Runners, code[r] # <<>>
  PROVE  /\ n[r] + 1 \in 1 .. Len(k.code[r]) /\ Next1(r) = k.code[r][n[r] + 1]
         /\ After(n, r) \in [Runners -> Nat]
         /\ Step(r) /\ block' = block => AtPlaces(k, After(n, r))'
<1> DEFINE c == k.code[r]
           m == After(n, r)
<1>1. c \in Seq(OperationsIn(k)) /\ Len(c) \in Nat
  BY Programs
<1>2. n[r] \in Nat /\ n[r] <= Len(c) /\ code[r] = SubSeq(c, n[r] + 1, Len(c))
  BY DEF AtPlaces
<1>3. n[r] \in 0 .. Len(c)
  BY <1>1, <1>2
<1>4. /\ n[r] + 1 \in 1 .. Len(c) /\ Head(code[r]) = c[n[r] + 1]
      /\ Tail(code[r]) = SubSeq(c, n[r] + 2, Len(c))
  <2> HIDE DEF c
  <2> QED BY <1>1, <1>2, <1>3, WorkLeft
<1>5. m \in [Runners -> Nat] /\ m[r] = n[r] + 1 /\ \A q \in Runners : q # r => m[q] = n[q]
  BY <1>2 DEF After
<1>6. ASSUME Step(r), block' = block PROVE AtPlaces(k, m)'
  <2> DEFINE remains(q) == SubSeq(k.code[q], m[q] + 1, Len(k.code[q]))
  <2>1. code' = [q \in Runners |-> IF q = r THEN Tail(code[r]) ELSE code[q]]
    BY <1>6 DEF Step, AtPlaces
  <2>2. m[r] + 1 = n[r] + 2
    BY <1>2, <1>5
  <2>3. ASSUME NEW q \in Runners
        PROVE  (IF q = r THEN Tail(code[r]) ELSE code[q]) = remains(q)
    <3>1. CASE q = r
      BY <1>4, <2>2, <3>1
    <3>2. CASE q # r
      BY <1>5, <3>2 DEF AtPlaces
    <3> QED BY <3>1, <3>2
  <2>4. code' = [q \in Runners |-> remains(q)]
    BY <2>1, <2>3
  <2>5. ASSUME NEW q \in Runners PROVE m[q] <= Len(k.code[q])
    <3>1. n[q] <= Len(k.code[q])
      BY DEF AtPlaces
    <3>2. CASE q = r
      BY <1>4, <1>5, <3>2
    <3>3. CASE q # r
      BY <1>5, <3>1, <3>3
    <3> QED BY <3>2, <3>3
  <2> QED BY <1>5, <1>6, <2>4, <2>5 DEF AtPlaces
<1> QED BY <1>4, <1>5, <1>6 DEF Next1

LEMMA AfterIs ==
  ASSUME NEW n \in [Runners -> Nat], NEW r \in Runners
  PROVE  /\ After(n, r) \in [Runners -> Nat] /\ After(n, r)[r] = n[r] + 1
         /\ \A q \in Runners : q # r => After(n, r)[q] = n[q]
         /\ \A q \in Runners : n[q] \in Nat /\ After(n, r)[q] \in Nat /\ n[q] <= After(n, r)[q]
  BY DEF After

LEMMA AdvanceBarriers ==
  ASSUME NEW k \in BlockKernels, NEW n \in [Runners -> Nat], BlockInvAt(k, n),
         NEW r \in Runners, code[r] # <<>>, Next1(r).op # "sync", UNCHANGED <<arrived, waits>>
  PROVE  BarriersHold(k, After(n, r))'
<1> DEFINE m == After(n, r)
<1>1. Next1(r) = k.code[r][n[r] + 1]
  BY RunnerAdvances DEF BlockInvAt
<1>2. ~waits[r]
  BY <1>1 DEF BlockInvAt, BarriersHold
<1>3. Barriers(k.code[r], m[r] + 1) = Barriers(k.code[r], n[r] + 1)
  <2>1. n[r] + 1 \in Nat \ {0} /\ m[r] = n[r] + 1
    BY AfterIs
  <2> QED BY <1>1, <2>1, BarriersNext
<1>4. \A q \in Runners : Barriers(k.code[q], m[q] + 1) = Barriers(k.code[q], n[q] + 1)
  BY <1>3, AfterIs
<1>5. \A q \in Runners : waits[q] => m[q] = n[q]
  BY <1>2, AfterIs
<1> HIDE DEF m
<1>6. BarriersHold(k, m)'
  BY <1>4, <1>5 DEF BlockInvAt, BarriersHold
<1> QED BY <1>6 DEF m

LEMMA ArriveBarriers ==
  ASSUME NEW k \in BlockKernels, NEW n \in [Runners -> Nat], BlockInvAt(k, n),
         NEW r \in Runners, ArriveStep(r)
  PROVE  BarriersHold(k, n)'
<1>1. Next1(r) = k.code[r][n[r] + 1]
  BY RunnerAdvances DEF BlockInvAt, ArriveStep, Does
<1>2. k.code[r][n[r] + 1].op = "sync" /\ ~waits[r]
  BY <1>1 DEF ArriveStep, Does
<1>3. /\ arrived' \in [Runners -> Nat] /\ waits' \in [Runners -> BOOLEAN]
      /\ arrived'[r] = arrived[r] + 1 /\ waits'[r]
      /\ \A q \in Runners : q # r => arrived'[q] = arrived[q] /\ waits'[q] = waits[q]
  BY DEF BlockInvAt, BarriersHold, ArriveStep
<1>4. \A q \in Runners : Barriers(k.code[q], n[q] + 1) \in Nat /\ arrived[q] \in Nat /\ arrived[q] <= arrived'[q]
  <2> SUFFICES ASSUME NEW q \in Runners
               PROVE  Barriers(k.code[q], n[q] + 1) \in Nat /\ arrived[q] \in Nat /\ arrived[q] <= arrived'[q]
    OBVIOUS
  <2>1. Barriers(k.code[q], n[q] + 1) \in Nat
    BY BarriersGrow, n[q] + 1 \in Nat, n[q] + 1 <= n[q] + 1
  <2>2. arrived[q] \in Nat
    BY DEF BlockInvAt, BarriersHold
  <2> QED BY <1>3, <2>1, <2>2
<1>5. ASSUME NEW q \in Runners
      PROVE  /\ arrived'[q] = Barriers(k.code[q], n[q] + 1) + (IF waits'[q] THEN 1 ELSE 0)
             /\ waits'[q] => k.code[q][n[q] + 1].op = "sync"
             /\ \A s \in Runners : Barriers(k.code[q], n[q] + 1) <= arrived'[s]
  <2>1. \A s \in Runners : Barriers(k.code[q], n[q] + 1) <= arrived[s]
    BY DEF BlockInvAt, BarriersHold
  <2>2. \A s \in Runners : Barriers(k.code[q], n[q] + 1) <= arrived'[s]
    BY <1>3, <1>4, <2>1
  <2>3. CASE q = r
    BY <1>2, <1>3, <1>4, <2>2, <2>3 DEF BlockInvAt, BarriersHold
  <2>4. CASE q # r
    BY <1>3, <2>2, <2>4 DEF BlockInvAt, BarriersHold
  <2> QED BY <2>3, <2>4
<1> QED BY <1>3, <1>5 DEF BarriersHold

LEMMA PassBarriers ==
  ASSUME NEW k \in BlockKernels, NEW n \in [Runners -> Nat], BlockInvAt(k, n),
         NEW r \in Runners, PassStep(r)
  PROVE  BarriersHold(k, After(n, r))'
<1> DEFINE m == After(n, r)
<1>1. k.code[r][n[r] + 1].op = "sync"
  BY RunnerAdvances DEF BlockInvAt, PassStep, Does
<1>2. /\ arrived' = arrived /\ waits' \in [Runners -> BOOLEAN] /\ ~waits'[r] /\ waits[r]
      /\ \A q \in Runners : q # r => waits'[q] = waits[q]
      /\ \A s \in Runners : arrived[s] >= arrived[r]
  BY DEF BlockInvAt, BarriersHold, PassStep
<1>3. Barriers(k.code[r], m[r] + 1) = Barriers(k.code[r], n[r] + 1) + 1
  <2>1. n[r] + 1 \in Nat \ {0} /\ m[r] = n[r] + 1
    BY AfterIs
  <2> QED BY <1>1, <2>1, BarriersNext
<1>4. arrived[r] = Barriers(k.code[r], m[r] + 1)
  BY <1>2, <1>3 DEF BlockInvAt, BarriersHold
<1>5. arrived \in [Runners -> Nat]
  BY DEF BlockInvAt, BarriersHold
<1>6. \A q \in Runners : q # r => m[q] = n[q]
  BY AfterIs
<1> HIDE DEF m
<1>7. ASSUME NEW q \in Runners
      PROVE  /\ arrived[q] = Barriers(k.code[q], m[q] + 1) + (IF waits'[q] THEN 1 ELSE 0)
             /\ waits'[q] => k.code[q][m[q] + 1].op = "sync"
             /\ \A s \in Runners : Barriers(k.code[q], m[q] + 1) <= arrived[s]
  <2>1. CASE q = r
    BY <1>2, <1>4, <1>5, <2>1
  <2>2. CASE q # r
    BY <1>2, <1>6, <2>2 DEF BlockInvAt, BarriersHold
  <2> QED BY <2>1, <2>2
<1>8. BarriersHold(k, m)'
  BY <1>2, <1>5, <1>7 DEF BarriersHold
<1> QED BY <1>8 DEF m

\* Nothing was awaited, and no more is in flight.
LEMMA AdvanceIssued ==
  ASSUME NEW k \in BlockKernels, NEW n \in [Runners -> Nat], BlockInvAt(k, n),
         NEW r \in Runners, code[r] # <<>>,
         flying' = flying, Next1(r).op # "await" \/ flying[r] = {}
  PROVE  Issued(k, After(n, r))'
<1> DEFINE m == After(n, r)
<1>1. Next1(r) = k.code[r][n[r] + 1]
  BY RunnerAdvances DEF BlockInvAt
<1>2. /\ \A q \in Runners : n[q] \in Nat /\ m[q] \in Nat
      /\ m[r] = n[r] + 1 /\ \A q \in Runners : q # r => m[q] = n[q]
  BY AfterIs
<1> HIDE DEF m
<1>3. ASSUME NEW q \in Runners, NEW x \in flying[q]
      PROVE  \E j \in 1 .. m[q] :
               /\ k.code[q][j].op = "copy" /\ x = <<k.code[q][j].slot, k.code[q][j].tag>>
               /\ \A a \in (j + 1) .. m[q] : k.code[q][a].op # "await"
  <2>1. PICK j \in 1 .. n[q] :
               /\ k.code[q][j].op = "copy" /\ x = <<k.code[q][j].slot, k.code[q][j].tag>>
               /\ \A a \in (j + 1) .. n[q] : k.code[q][a].op # "await"
    BY DEF BlockInvAt, Issued
  <2>2. j \in 1 .. m[q]
    BY <1>2
  <2>3. \A a \in (j + 1) .. m[q] : k.code[q][a].op # "await"
    BY <1>1, <1>2, <1>3, <2>1
  <2> QED BY <2>1, <2>2, <2>3
<1>4. Issued(k, m)'
  BY <1>3 DEF BlockInvAt, Issued
<1> QED BY <1>4 DEF m

LEMMA CopyIssued ==
  ASSUME NEW k \in BlockKernels, NEW n \in [Runners -> Nat], BlockInvAt(k, n),
         NEW r \in Runners, CopyStep(r)
  PROVE  Issued(k, After(n, r))'
<1> DEFINE m == After(n, r)
<1>1. code[r] # <<>> /\ Next1(r) = k.code[r][n[r] + 1] /\ Next1(r).op = "copy"
  BY RunnerAdvances DEF BlockInvAt, CopyStep, Does
<1>2. /\ \A q \in Runners : n[q] \in Nat /\ m[q] \in Nat
      /\ m[r] = n[r] + 1 /\ \A q \in Runners : q # r => m[q] = n[q]
  BY AfterIs
<1>3. /\ DOMAIN flying' = Runners
      /\ flying'[r] = flying[r] \cup {<<Next1(r).slot, Next1(r).tag>>}
      /\ \A q \in Runners : q # r => flying'[q] = flying[q]
  BY DEF BlockInvAt, Issued, CopyStep
<1> HIDE DEF m
<1>4. ASSUME NEW q \in Runners, NEW x \in flying'[q]
      PROVE  \E j \in 1 .. m[q] :
               /\ k.code[q][j].op = "copy" /\ x = <<k.code[q][j].slot, k.code[q][j].tag>>
               /\ \A a \in (j + 1) .. m[q] : k.code[q][a].op # "await"
  <2>1. CASE x \in flying[q]
    <3>1. PICK j \in 1 .. n[q] :
                 /\ k.code[q][j].op = "copy" /\ x = <<k.code[q][j].slot, k.code[q][j].tag>>
                 /\ \A a \in (j + 1) .. n[q] : k.code[q][a].op # "await"
      BY <2>1 DEF BlockInvAt, Issued
    <3>2. j \in 1 .. m[q]
      BY <1>2
    <3>3. \A a \in (j + 1) .. m[q] : k.code[q][a].op # "await"
      BY <1>1, <1>2, <3>1
    <3> QED BY <3>1, <3>2, <3>3
  <2>2. CASE x \notin flying[q]
    <3>1. q = r /\ x = <<k.code[q][m[q]].slot, k.code[q][m[q]].tag>>
      BY <1>1, <1>2, <1>3, <1>4, <2>2
    <3>2. m[q] \in 1 .. m[q] /\ k.code[q][m[q]].op = "copy" /\ (m[q] + 1) .. m[q] = {}
      BY <1>1, <1>2, <3>1
    <3> QED BY <3>1, <3>2
  <2> QED BY <2>1, <2>2
<1>5. Issued(k, m)'
  BY <1>3, <1>4 DEF Issued
<1> QED BY <1>5 DEF m

LEMMA LandIssued ==
  ASSUME NEW k \in BlockKernels, NEW n \in [Runners -> Nat], BlockInvAt(k, n),
         NEW r \in Runners, LandStep(r)
  PROVE  Issued(k, n)'
<1>1. DOMAIN flying' = Runners /\ \A q \in Runners : flying'[q] \subseteq flying[q]
  BY DEF BlockInvAt, Issued, LandStep
<1> QED BY <1>1 DEF BlockInvAt, Issued

-----------------------------------------------------------------------------
(* What the parts hold. *)
\* The last write so far was that before, too, unless it is the operation just done.
LEMMA LatestBefore ==
  ASSUME NEW k \in BlockKernels, NEW n \in [Runners -> Nat], NEW r \in Runners,
         NEW q \in Runners, NEW j \in 1 .. n[q],
         LatestAt(k, After(n, r), q, j)', \A p \in Runners : flying[p] \subseteq flying'[p]
  PROVE  LatestAt(k, n, q, j)
<1> DEFINE m == After(n, r)
<1>1. n[q] \in Nat /\ m[q] \in Nat /\ n[q] <= m[q]
  BY AfterIs
<1>2. LatestAt(k, m, q, j)'
  OBVIOUS
<1> HIDE DEF m
<1>3. ASSUME NEW w \in Writes(k.code[q], k.code[q][j].slot), w > j PROVE w > n[q]
  <2>1. w > m[q] /\ w \in 1 .. Len(k.code[q]) /\ Len(k.code[q]) \in Nat
    BY <1>2, <1>3, Programs DEF LatestAt, Writes
  <2> QED BY <1>1, <2>1
<1> QED BY <1>2, <1>3 DEF LatestAt

\* An operation that writes nothing.
LEMMA AdvanceParts ==
  ASSUME NEW k \in BlockKernels, NEW n \in [Runners -> Nat], BlockInvAt(k, n),
         NEW r \in Runners, code[r] # <<>>, Next1(r).op \notin {"store", "copy"},
         shared' = shared, flying' = flying
  PROVE  PartsHold(k, After(n, r))'
<1> DEFINE m == After(n, r)
<1>1. Next1(r) = k.code[r][n[r] + 1]
  BY RunnerAdvances DEF BlockInvAt
<1>2. n[r] \in Nat /\ m[r] = n[r] + 1 /\ \A q \in Runners : q # r => m[q] = n[q]
  BY AfterIs
<1>3. ASSUME NEW q \in Runners, NEW j \in 1 .. m[q], LatestAt(k, m, q, j)'
      PROVE  shared'[k.code[q][j].slot][q] = k.code[q][j].tag
  <2>1. k.code[q][j].op \in {"store", "copy"}
    BY <1>3 DEF LatestAt, Writes
  <2>2. j \in 1 .. n[q]
    <3> HIDE DEF m
    <3> QED BY <1>1, <1>2, <2>1
  <2>3. LatestAt(k, n, q, j)
    BY <1>3, <2>2, LatestBefore
  <2> QED BY <2>2, <2>3 DEF BlockInvAt, PartsHold
<1> HIDE DEF m
<1>4. PartsHold(k, m)'
  BY <1>3 DEF BlockInvAt, PartsHold
<1> QED BY <1>4 DEF m

\* The operation that is executed is the last write to its slot.
LEMMA NewestWrite ==
  ASSUME NEW k \in BlockKernels, NEW n \in [Runners -> Nat], BlockInvAt(k, n),
         NEW r \in Runners, code[r] # <<>>, Next1(r).op \in {"store", "copy"},
         NEW j \in 1 .. n[r], LatestAt(k, After(n, r), r, j)'
  PROVE  k.code[r][j].slot # Next1(r).slot
<1> DEFINE m == After(n, r)
<1>1. n[r] + 1 \in 1 .. Len(k.code[r]) /\ Next1(r) = k.code[r][n[r] + 1]
  BY RunnerAdvances DEF BlockInvAt
<1>2. n[r] \in Nat /\ m[r] = n[r] + 1
  BY AfterIs
<1>3. n[r] + 1 \in DOMAIN k.code[r]
  BY <1>1, Programs
<1> HIDE DEF m
<1>4. SUFFICES ASSUME k.code[r][j].slot = Next1(r).slot PROVE FALSE
  OBVIOUS
<1>5. n[r] + 1 \in Writes(k.code[r], k.code[r][j].slot) /\ n[r] + 1 > j
  BY <1>1, <1>2, <1>3, <1>4 DEF Writes
<1>6. LatestAt(k, m, r, j)'
  BY DEF m
<1>7. n[r] + 1 > m[r]
  BY <1>5, <1>6 DEF LatestAt
<1> QED BY <1>2, <1>7

LEMMA StoreParts ==
  ASSUME NEW k \in BlockKernels, NEW n \in [Runners -> Nat], BlockInvAt(k, n),
         NEW r \in Runners, StoreStep(r)
  PROVE  PartsHold(k, After(n, r))'
<1> DEFINE m == After(n, r)
           op == k.code[r][n[r] + 1]
<1>1. /\ code[r] # <<>> /\ Next1(r) = op /\ op.op = "store" /\ n[r] + 1 \in 1 .. Len(k.code[r])
  BY RunnerAdvances DEF BlockInvAt, StoreStep, Does
<1>2. n[r] \in Nat /\ m[r] = n[r] + 1 /\ \A q \in Runners : q # r => m[q] = n[q]
  BY AfterIs
<1>3. op.slot \in SlotsOf(k) /\ op.tag \in Int
  BY <1>1, Programs
<1>4. shared \in [SlotsOf(k) -> [Runners -> Int]]
  BY DEF BlockInvAt, PartsHold
<1>5. shared' = [shared EXCEPT ![op.slot][r] = op.tag] /\ flying' = flying
  BY <1>1 DEF StoreStep
<1> HIDE DEF op
<1>6. /\ shared' \in [SlotsOf(k) -> [Runners -> Int]]
      /\ shared'[op.slot][r] = op.tag
      /\ \A s \in SlotsOf(k) : \A q \in Runners :
           s # op.slot \/ q # r => shared'[s][q] = shared[s][q]
  BY <1>3, <1>4, <1>5
<1>7. ASSUME NEW q \in Runners, NEW j \in 1 .. m[q], LatestAt(k, m, q, j)'
      PROVE  shared'[k.code[q][j].slot][q] = k.code[q][j].tag
  <2>1. CASE q = r /\ j = n[r] + 1
    BY <1>6, <2>1 DEF op
  <2>2. CASE ~(q = r /\ j = n[r] + 1)
    <3>1. j \in 1 .. n[q]
      <4> HIDE DEF m
      <4> QED BY <1>2, <2>2
    <3>2. LatestAt(k, n, q, j)
      BY <1>5, <1>7, <3>1, LatestBefore
    <3>3. shared[k.code[q][j].slot][q] = k.code[q][j].tag
      BY <3>1, <3>2 DEF BlockInvAt, PartsHold
    <3>4. k.code[q][j].slot \in SlotsOf(k)
      BY <3>2 DEF LatestAt, Writes, SlotsOf
    <3>5. q = r => k.code[q][j].slot # op.slot
      BY <1>1, <1>7, <3>1, NewestWrite
    <3> QED BY <1>6, <3>3, <3>4, <3>5
  <2> QED BY <2>1, <2>2
<1> HIDE DEF m
<1>8. PartsHold(k, m)'
  BY <1>6, <1>7 DEF PartsHold
<1> QED BY <1>8 DEF m

LEMMA CopyParts ==
  ASSUME NEW k \in BlockKernels, NEW n \in [Runners -> Nat], BlockInvAt(k, n),
         NEW r \in Runners, CopyStep(r)
  PROVE  PartsHold(k, After(n, r))'
<1> DEFINE m == After(n, r)
           op == k.code[r][n[r] + 1]
<1>1. /\ code[r] # <<>> /\ Next1(r) = op /\ op.op = "copy"
  BY RunnerAdvances DEF BlockInvAt, CopyStep, Does
<1>2. n[r] \in Nat /\ m[r] = n[r] + 1 /\ \A q \in Runners : q # r => m[q] = n[q]
  BY AfterIs
<1>3. shared' = shared /\ <<op.slot, op.tag>> \in flying'[r] /\ \A p \in Runners : flying[p] \subseteq flying'[p]
  BY <1>1 DEF BlockInvAt, Issued, CopyStep
<1>4. ASSUME NEW q \in Runners, NEW j \in 1 .. m[q], LatestAt(k, m, q, j)'
      PROVE  shared'[k.code[q][j].slot][q] = k.code[q][j].tag
  <2>1. ~(q = r /\ j = n[r] + 1)
    BY <1>1, <1>3, <1>4 DEF LatestAt
  <2>2. j \in 1 .. n[q]
    <3> HIDE DEF m
    <3> QED BY <1>2, <2>1
  <2>3. LatestAt(k, n, q, j)
    BY <1>3, <1>4, <2>2, LatestBefore
  <2> QED BY <1>3, <2>2, <2>3 DEF BlockInvAt, PartsHold
<1> HIDE DEF m
<1>5. PartsHold(k, m)'
  BY <1>3, <1>4 DEF BlockInvAt, PartsHold
<1> QED BY <1>5 DEF m

\* A copy that lands does not meet a later write, nor one that it should precede.
LEMMA LandParts ==
  ASSUME NEW k \in BlockKernels, NEW n \in [Runners -> Nat], BlockInvAt(k, n),
         NEW r \in Runners, LandStep(r)
  PROVE  PartsHold(k, n)'
<1>1. PICK x \in flying[r] : /\ shared' = [shared EXCEPT ![x[1]][r] = x[2]]
                             /\ flying' = [flying EXCEPT ![r] = @ \ {x}]
  BY DEF LandStep
<1>2. PICK i \in 1 .. n[r] :
        /\ k.code[r][i].op = "copy" /\ x = <<k.code[r][i].slot, k.code[r][i].tag>>
        /\ \A a \in (i + 1) .. n[r] : k.code[r][a].op # "await"
  BY DEF BlockInvAt, Issued
<1> DEFINE op == k.code[r][i]
<1>3. n[r] \in Nat /\ n[r] <= Len(k.code[r]) /\ Len(k.code[r]) \in Nat /\ DOMAIN k.code[r] = 1 .. Len(k.code[r])
  BY Programs DEF BlockInvAt, AtPlaces
<1>4. i \in DOMAIN k.code[r] /\ op.slot \in SlotsOf(k) /\ op.tag \in Int
  <2>1. i \in 1 .. Len(k.code[r])
    BY <1>3
  <2> QED BY <2>1, Programs
<1>5. x[1] = op.slot /\ x[2] = op.tag
  BY <1>2
<1>6. shared \in [SlotsOf(k) -> [Runners -> Int]] /\ DOMAIN flying = Runners
  BY DEF BlockInvAt, PartsHold, Issued
<1>7. /\ shared' \in [SlotsOf(k) -> [Runners -> Int]]
      /\ shared'[op.slot][r] = op.tag
      /\ \A s \in SlotsOf(k) : \A q \in Runners :
           s # op.slot \/ q # r => shared'[s][q] = shared[s][q]
  <2> HIDE DEF op
  <2> QED BY <1>1, <1>4, <1>5, <1>6
<1>8. /\ flying'[r] = flying[r] \ {<<op.slot, op.tag>>}
      /\ \A q \in Runners : q # r => flying'[q] = flying[q]
  BY <1>1, <1>2, <1>6
<1>9. ASSUME NEW q \in Runners, NEW j \in 1 .. n[q], LatestAt(k, n, q, j)'
      PROVE  shared'[k.code[q][j].slot][q] = k.code[q][j].tag
  <2> DEFINE c == k.code[q]
  <2>1. j \in Writes(c, c[j].slot) /\ c[j].slot \in SlotsOf(k)
    BY <1>9 DEF LatestAt, Writes, SlotsOf
  <2>2. CASE q = r /\ c[j].slot = op.slot
    <3>1. i \in Writes(c, c[j].slot)
      BY <1>2, <1>4, <2>2 DEF Writes
    <3>2. j \in Nat /\ i \in Nat /\ n[r] \in Nat /\ i <= n[r] /\ j <= n[r]
      BY <1>3, <2>2
    <3>3. ~(i > j)
      BY <1>9, <2>2, <3>1, <3>2 DEF LatestAt
    <3>4. ~(i < j)
      <4> SUFFICES ASSUME i < j PROVE FALSE
        OBVIOUS
      <4>1. PICK a \in Landing(c, i) : a < j
        BY <1>9, <3>1 DEF LatestAt
      <4>2. a \in 1 .. Len(c) /\ a > i /\ c[a].op = "await"
        BY <1>2, <1>3, <2>2, <4>1 DEF Landing
      <4>3. a \in (i + 1) .. n[r]
        BY <3>2, <4>1, <4>2
      <4> QED BY <1>2, <2>2, <4>2, <4>3
    <3>5. i = j
      BY <3>2, <3>3, <3>4
    <3> QED BY <1>7, <2>2, <3>5
  <2>3. CASE ~(q = r /\ c[j].slot = op.slot)
    <3>1. c[j].op = "copy" => <<c[j].slot, c[j].tag>> \notin flying[q]
      BY <1>8, <1>9, <2>3 DEF LatestAt
    <3>2. LatestAt(k, n, q, j)
      BY <1>9, <3>1 DEF LatestAt
    <3>3. shared[c[j].slot][q] = c[j].tag
      BY <3>2 DEF BlockInvAt, PartsHold
    <3> HIDE DEF op
    <3> QED BY <1>7, <2>1, <2>3, <3>3
  <2> QED BY <2>2, <2>3
<1> QED BY <1>7, <1>9 DEF PartsHold

LEMMA BeginInv ==
  ASSUME BlockInit, NEW k \in BlockKernels, BlockBegin(k)
  PROVE  BlockInv'
<1> DEFINE n == [r \in Runners |-> 0]
<1>1. n \in [Runners -> Nat] /\ \A r \in Runners : n[r] = 0
  OBVIOUS
<1>2. /\ k.code \in [Runners -> Seq(OperationsIn(k))]
      /\ \A r \in Runners : /\ Len(k.code[r]) \in Nat
                            /\ SubSeq(k.code[r], 0 + 1, Len(k.code[r])) = k.code[r]
  BY KernelsAssumption, WholeSequence
<1>3. AtPlaces(k, n)'
  <2>1. code' = [r \in Runners |-> k.code[r]] /\ block' = k.name
    BY <1>2 DEF BlockBegin
  <2> QED BY <1>1, <1>2, <2>1 DEF AtPlaces
<1>4. \A r \in Runners : Barriers(k.code[r], 0 + 1) = 0
  <2>1. ASSUME NEW r \in Runners PROVE {j \in 1 .. ((0 + 1) - 1) : k.code[r][j].op = "sync"} = {}
    OBVIOUS
  <2> QED BY <2>1, FS_EmptySet DEF Barriers
<1>5. BarriersHold(k, n)'
  <2>1. /\ arrived' = [r \in Runners |-> 0] /\ waits' = [r \in Runners |-> FALSE]
    BY DEF BlockInit, BlockBegin
  <2>2. \A r \in Runners : Barriers(k.code[r], n[r] + 1) = 0
    BY <1>1, <1>4
  <2> HIDE DEF n
  <2> QED BY <2>1, <2>2 DEF BarriersHold
<1>6. Issued(k, n)'
  BY <1>1 DEF BlockInit, BlockBegin, Issued
<1>7. PartsHold(k, n)'
  <2>1. shared' \in [SlotsOf(k) -> [Runners -> Int]]
    BY DEF BlockBegin, SlotsOf, Garbage
  <2>2. \A r \in Runners : 1 .. n[r] = {}
    BY <1>1
  <2> HIDE DEF n
  <2> QED BY <2>1, <2>2 DEF PartsHold
<1>8. BlockInvAt(k, n)'
  BY <1>3, <1>5, <1>6, <1>7 DEF BlockInvAt
<1> HIDE DEF n
<1> QED BY <1>1, <1>8 DEF BlockInv

LEMMA RunnerStepInv ==
  ASSUME NEW k \in BlockKernels, NEW n \in [Runners -> Nat], BlockInvAt(k, n),
         NEW r \in Runners, RunnerStep(r)
  PROVE  \E m \in [Runners -> Nat] : BlockInvAt(k, m)'
<1>1. After(n, r) \in [Runners -> Nat]
  BY AfterIs
<1>2. ASSUME code[r] # <<>>, Step(r), block' = block PROVE AtPlaces(k, After(n, r))'
  BY <1>2, RunnerAdvances DEF BlockInvAt
<1>3. CASE StoreStep(r)
  <2>1. code[r] # <<>> /\ Next1(r).op = "store" /\ Step(r) /\ UNCHANGED <<block, arrived, waits, flying>>
    BY <1>3 DEF StoreStep, Does
  <2> QED BY <1>1, <1>2, <1>3, <2>1, AdvanceBarriers, AdvanceIssued, StoreParts DEF BlockInvAt
<1>4. CASE LoadStep(r)
  <2>1. /\ code[r] # <<>> /\ Next1(r).op = "load" /\ Step(r)
        /\ UNCHANGED <<block, shared, arrived, waits, flying>>
    BY <1>4 DEF LoadStep, Does
  <2> QED BY <1>1, <1>2, <2>1, AdvanceBarriers, AdvanceIssued, AdvanceParts DEF BlockInvAt
<1>5. CASE CopyStep(r)
  <2>1. code[r] # <<>> /\ Next1(r).op = "copy" /\ Step(r) /\ UNCHANGED <<block, shared, arrived, waits>>
    BY <1>5 DEF CopyStep, Does
  <2> QED BY <1>1, <1>2, <1>5, <2>1, AdvanceBarriers, CopyIssued, CopyParts DEF BlockInvAt
<1>6. CASE LandStep(r)
  <2>1. UNCHANGED <<block, code, arrived, waits>>
    BY <1>6 DEF LandStep
  <2>2. AtPlaces(k, n)' /\ BarriersHold(k, n)'
    BY <2>1 DEF BlockInvAt, AtPlaces, BarriersHold
  <2> QED BY <1>6, <2>2, LandIssued, LandParts DEF BlockInvAt
<1>7. CASE AwaitStep(r)
  <2>1. /\ code[r] # <<>> /\ Next1(r).op = "await" /\ flying[r] = {} /\ Step(r)
        /\ UNCHANGED <<block, shared, arrived, waits, flying>>
    BY <1>7 DEF AwaitStep, Does
  <2> QED BY <1>1, <1>2, <2>1, AdvanceBarriers, AdvanceIssued, AdvanceParts DEF BlockInvAt
<1>8. CASE ArriveStep(r)
  <2>1. UNCHANGED <<block, code, shared, flying>>
    BY <1>8 DEF ArriveStep
  <2>2. AtPlaces(k, n)' /\ Issued(k, n)' /\ PartsHold(k, n)'
    BY <2>1 DEF BlockInvAt, AtPlaces, Issued, PartsHold, LatestAt
  <2> QED BY <1>8, <2>2, ArriveBarriers DEF BlockInvAt
<1>9. CASE PassStep(r)
  <2>1. code[r] # <<>> /\ Next1(r).op = "sync" /\ Step(r) /\ UNCHANGED <<block, shared, arrived, flying>>
    BY <1>9 DEF PassStep, Does
  <2> QED BY <1>1, <1>2, <1>9, <2>1, PassBarriers, AdvanceIssued, AdvanceParts DEF BlockInvAt
<1> QED BY <1>3, <1>4, <1>5, <1>6, <1>7, <1>8, <1>9 DEF RunnerStep

\* A runner has executed what comes before an operation that another has reached,
LEMMA Passed ==
  ASSUME NEW k \in BlockKernels, NEW n \in [Runners -> Nat], BlockInvAt(k, n),
         NEW r \in Runners, NEW p \in Runners, NEW a \in 1 .. Len(k.code[p]),
         k.code[p][a].op # "sync", Precedes(k, p, a, r, n[r] + 1)
  PROVE  a <= n[p]
<1>1. n[p] \in Nat /\ n[r] \in Nat /\ a \in Nat
  OBVIOUS
<1>2. SUFFICES ASSUME a > n[p] PROVE FALSE
  BY <1>1
<1>3. p # r /\ Barriers(k.code[p], a) < Barriers(k.code[r], n[r] + 1)
  BY <1>1, <1>2 DEF Precedes
<1>4. /\ Barriers(k.code[r], n[r] + 1) <= arrived[p]
      /\ arrived[p] = Barriers(k.code[p], n[p] + 1) + (IF waits[p] THEN 1 ELSE 0)
      /\ waits[p] => k.code[p][n[p] + 1].op = "sync"
  BY DEF BlockInvAt, BarriersHold
<1>5. /\ Barriers(k.code[p], a) \in Nat /\ Barriers(k.code[p], n[p] + 1) \in Nat
      /\ Barriers(k.code[p], n[p] + 1) <= Barriers(k.code[p], a)
  BY <1>1, <1>2, BarriersGrow, n[p] + 1 \in Nat, n[p] + 1 <= a
<1>6. Barriers(k.code[r], n[r] + 1) \in Nat
  BY BarriersGrow, n[r] + 1 \in Nat, n[r] + 1 <= n[r] + 1
<1>7. waits[p]
  BY <1>3, <1>4, <1>5, <1>6
<1>8. a # n[p] + 1 /\ n[p] + 1 \in Nat \ {0} /\ n[p] + 2 \in Nat /\ n[p] + 2 <= a /\ (n[p] + 1) + 1 = n[p] + 2
  BY <1>1, <1>2, <1>4, <1>7
<1>9. Barriers(k.code[p], n[p] + 2) = Barriers(k.code[p], n[p] + 1) + 1
  BY <1>4, <1>7, <1>8, BarriersNext
<1>10. Barriers(k.code[p], n[p] + 2) <= Barriers(k.code[p], a)
  BY <1>1, <1>8, BarriersGrow
<1> QED BY <1>3, <1>4, <1>5, <1>6, <1>7, <1>9, <1>10

\* and has not executed what comes after one that another is about to execute.
LEMMA NotYet ==
  ASSUME NEW k \in BlockKernels, NEW n \in [Runners -> Nat], BlockInvAt(k, n),
         NEW r \in Runners, NEW p \in Runners, NEW w \in 1 .. Len(k.code[p]),
         k.code[r][n[r] + 1].op # "sync", Precedes(k, r, n[r] + 1, p, w)
  PROVE  w > n[p]
<1>1. n[p] \in Nat /\ n[r] \in Nat /\ w \in Nat
  OBVIOUS
<1>2. SUFFICES ASSUME w <= n[p] PROVE FALSE
  BY <1>1
<1>3. p # r /\ Barriers(k.code[r], n[r] + 1) < Barriers(k.code[p], w)
  BY <1>1, <1>2 DEF Precedes
<1>4. Barriers(k.code[p], n[p] + 1) <= arrived[r] /\ arrived[r] = Barriers(k.code[r], n[r] + 1)
  <2>1. /\ Barriers(k.code[p], n[p] + 1) <= arrived[r]
        /\ arrived[r] = Barriers(k.code[r], n[r] + 1) + (IF waits[r] THEN 1 ELSE 0) /\ ~waits[r]
    BY DEF BlockInvAt, BarriersHold
  <2>2. Barriers(k.code[r], n[r] + 1) \in Nat
    BY BarriersGrow, n[r] + 1 \in Nat, n[r] + 1 <= n[r] + 1
  <2> QED BY <2>1, <2>2
<1>5. /\ Barriers(k.code[p], w) \in Nat /\ Barriers(k.code[p], n[p] + 1) \in Nat
      /\ Barriers(k.code[p], w) <= Barriers(k.code[p], n[p] + 1)
  BY <1>1, <1>2, BarriersGrow, n[p] + 1 \in Nat, w <= n[p] + 1
<1>6. Barriers(k.code[r], n[r] + 1) \in Nat
  BY BarriersGrow, n[r] + 1 \in Nat, n[r] + 1 <= n[r] + 1
<1> QED BY <1>3, <1>4, <1>5, <1>6

\* The write that a load is meant for is the latest one when the load comes.
LEMMA SuppliedLatest ==
  ASSUME NEW k \in BlockKernels, NEW n \in [Runners -> Nat], BlockInvAt(k, n),
         NEW r \in Runners, NEW p \in Runners, k.code[r][n[r] + 1].op = "load",
         NEW slot, NEW j \in Writes(k.code[p], slot), Supplies(k, p, j, r, n[r] + 1)
  PROVE  j \in 1 .. n[p] /\ LatestAt(k, n, p, j)
<1> DEFINE c == k.code[p]
           i == n[r] + 1
<1>1. Len(c) \in Nat /\ DOMAIN c = 1 .. Len(c) /\ n[p] \in Nat
  BY Programs
<1>2. PICK a \in Landing(c, j) : Precedes(k, p, a, r, i)
  BY DEF Supplies
<1>3. /\ j \in 1 .. Len(c) /\ a \in 1 .. Len(c) /\ j <= a /\ c[a].op # "sync"
      /\ c[j].op \in {"store", "copy"} /\ c[j].slot = slot
      /\ c[j].op = "copy" => a > j /\ c[a].op = "await"
  BY <1>1, <1>2 DEF Landing, Writes
<1>4. a <= n[p]
  BY <1>2, <1>3, Passed
<1>5. j \in 1 .. n[p]
  BY <1>1, <1>3, <1>4
<1>6. ASSUME NEW w \in Writes(c, slot), w # j
      PROVE  w \in 1 .. Len(c) /\ ((\E b \in Landing(c, w) : b < j) \/ w > n[p])
  <2>1. w \in 1 .. Len(c)
    BY <1>1 DEF Writes
  <2>2. (\E b \in Landing(c, w) : b < j) \/ Precedes(k, r, i, p, w)
    BY <1>3, <1>6 DEF Supplies
  <2> QED BY <2>1, <2>2, NotYet
<1>7. ASSUME NEW w \in Writes(c, slot), NEW b \in Landing(c, w)
      PROVE  b \in 1 .. Len(c) /\ w \in 1 .. Len(c) /\ b >= w
  BY <1>1 DEF Landing, Writes
<1>8. ASSUME NEW w \in Writes(c, slot), w < j PROVE \E b \in Landing(c, w) : b < j
  <2>1. w \in 1 .. Len(c) /\ j \in 1 .. n[p]
    BY <1>5, <1>6, <1>8
  <2>2. ~(w > n[p]) /\ w # j
    BY <1>1, <1>8, <2>1
  <2> QED BY <1>6, <2>2
<1>9. ASSUME NEW w \in Writes(c, slot), w > j PROVE w > n[p]
  <2>1. \A b \in Landing(c, w) : ~(b < j)
    BY <1>3, <1>7, <1>9
  <2> QED BY <1>3, <1>6, <1>9, <2>1
<1>10. ASSUME c[j].op = "copy" PROVE <<c[j].slot, c[j].tag>> \notin flying[p]
  <2> SUFFICES ASSUME <<c[j].slot, c[j].tag>> \in flying[p] PROVE FALSE
    OBVIOUS
  <2>1. PICK w \in 1 .. n[p] :
          /\ c[w].op = "copy" /\ <<c[j].slot, c[j].tag>> = <<c[w].slot, c[w].tag>>
          /\ \A x \in (w + 1) .. n[p] : c[x].op # "await"
    BY DEF BlockInvAt, Issued
  <2>2. w \in 1 .. Len(c) /\ w \in Writes(c, slot)
    <3>1. n[p] <= Len(c)
      BY DEF BlockInvAt, AtPlaces
    <3>2. w \in 1 .. Len(c)
      BY <1>1, <3>1
    <3>3. w \in DOMAIN c
      BY <1>1, <3>2
    <3> QED BY <1>3, <2>1, <3>2, <3>3 DEF Writes
  <2>3. ~(w > j)
    BY <1>1, <1>9, <2>2
  <2>4. a \in (w + 1) .. n[p]
    BY <1>1, <1>3, <1>4, <1>10, <2>2, <2>3
  <2> QED BY <1>3, <1>10, <2>1, <2>4
<1>11. j \in Writes(c, c[j].slot) /\ c[j].slot = slot
  BY <1>3
<1> QED BY <1>5, <1>8, <1>9, <1>10, <1>11 DEF LatestAt

LEMMA LoadsRight ==
  ASSUME NEW k \in BlockKernels, NEW n \in [Runners -> Nat], BlockInvAt(k, n), Ordered(k)
  PROVE  LoadsSeeTheirRound
<1> SUFFICES ASSUME NEW r \in Runners, Does(r, "load"), NEW p \in Next1(r).parts
             PROVE  shared[Next1(r).slot][p] = Next1(r).tag
  BY DEF LoadsSeeTheirRound
<1>1. /\ n[r] + 1 \in 1 .. Len(k.code[r]) /\ Next1(r) = k.code[r][n[r] + 1]
      /\ Next1(r).op = "load"
  BY RunnerAdvances DEF BlockInvAt, Does
<1>2. n[r] + 1 \in DOMAIN k.code[r] /\ p \in Runners
  BY <1>1, Programs
<1>3. PICK j \in Writes(k.code[p], Next1(r).slot) :
        k.code[p][j].tag = Next1(r).tag /\ Supplies(k, p, j, r, n[r] + 1)
  BY <1>1, <1>2 DEF Ordered
<1>4. j \in 1 .. n[p] /\ LatestAt(k, n, p, j) /\ k.code[p][j].slot = Next1(r).slot
  BY <1>1, <1>2, <1>3, SuppliedLatest DEF Writes
<1> QED BY <1>2, <1>3, <1>4 DEF BlockInvAt, PartsHold

\* Whatever the number of runners, the rounds, the speed of each runner and the
\* moment a copy lands: if the barriers of a kernel order its loads, each load
\* finds the data of its round, neither missing nor overwritten.
THEOREM OrderedLoadsSeeTheirRound ==
  ASSUME \A k \in BlockKernels : Ordered(k)
  PROVE  BlockSpec => []LoadsSeeTheirRound
<1>1. BlockInit => BlockInv
  BY DEF BlockInv
<1>2. BlockInv /\ [BlockNext]_blockVars => BlockInv'
  <2> SUFFICES ASSUME BlockInv, [BlockNext]_blockVars PROVE BlockInv'
    OBVIOUS
  <2>1. CASE UNCHANGED blockVars
    <3>1. UNCHANGED <<block, code, shared, arrived, waits, flying>>
      BY <2>1 DEF blockVars
    <3>2. CASE BlockInit
      BY <3>1, <3>2 DEF BlockInv, BlockInit
    <3>3. ASSUME NEW k \in BlockKernels, NEW n \in [Runners -> Nat], BlockInvAt(k, n)
          PROVE  BlockInvAt(k, n)'
      <4>1. AtPlaces(k, n)' /\ BarriersHold(k, n)' /\ Issued(k, n)'
        BY <3>1, <3>3 DEF BlockInvAt, AtPlaces, BarriersHold, Issued
      <4>2. PartsHold(k, n)'
        BY <3>1, <3>3 DEF BlockInvAt, PartsHold, LatestAt
      <4> QED BY <4>1, <4>2 DEF BlockInvAt
    <3> QED BY <3>2, <3>3 DEF BlockInv
  <2>2. CASE BlockInit /\ BlockNext
    <3>1. ASSUME NEW r \in Runners PROVE ~RunnerStep(r)
      BY <2>2 DEF BlockInit, RunnerStep, StoreStep, LoadStep, CopyStep, LandStep, AwaitStep,
                  ArriveStep, PassStep, Does
    <3> QED BY <2>2, <3>1, BeginInv DEF BlockNext
  <2>3. ASSUME NEW k \in BlockKernels, NEW n \in [Runners -> Nat], BlockInvAt(k, n), BlockNext
        PROVE  BlockInv'
    <3>1. \A q \in BlockKernels : ~BlockBegin(q)
      BY <2>3, KernelsAssumption DEF BlockInvAt, AtPlaces, BlockBegin
    <3>2. PICK r \in Runners : RunnerStep(r)
      BY <2>3, <3>1 DEF BlockNext
    <3>3. \E m \in [Runners -> Nat] : BlockInvAt(k, m)'
      BY <2>3, <3>2, RunnerStepInv
    <3> QED BY <3>3 DEF BlockInv
  <2> QED BY <2>1, <2>2, <2>3 DEF BlockInv
<1>3. BlockInv => LoadsSeeTheirRound
  <2>1. BlockInit => LoadsSeeTheirRound
    BY DEF BlockInit, LoadsSeeTheirRound, Does
  <2> QED BY <2>1, LoadsRight DEF BlockInv
<1> QED BY <1>1, <1>2, <1>3, PTL DEF BlockSpec

-----------------------------------------------------------------------------
(***************************************************************************)
(* The launches of 02-image-embed, 05-video and 11-optical-flow, for every *)
(* size of the images, the blocks and the tiles.  The guard of a kernel    *)
(* lets through as many threads as there are elements (GuardedAll,         *)
(* Guarded2All), so the loop is done; that no output is written twice      *)
(* follows from rows that do not overlap (AtTells).                        *)
(***************************************************************************)
Work(terms) == {<<t[2], t[3], t[4]>> : t \in terms}
\* What KernelsMatchLoops says of launch l.
MatchesLoop(l) ==
    /\ Work(l[2]) = l[3]
    /\ Cardinality(l[2]) = Cardinality(l[3])
    /\ \A t \in l[3] : t[1] \in Upto(l[4]) /\ t[2] \in Upto(l[5])

LEMMA QuadsFinite ==
  ASSUME NEW A, NEW B, NEW C, NEW D,
         IsFiniteSet(A), IsFiniteSet(B), IsFiniteSet(C), IsFiniteSet(D)
  PROVE  IsFiniteSet(A \X B \X C \X D)
<1> DEFINE P == (A \X B) \X (C \X D)
           Q == A \X B \X C \X D
           f == [x \in P |-> <<x[1][1], x[1][2], x[2][1], x[2][2]>>]
<1>1. IsFiniteSet(P)
  <2>1. IsFiniteSet(A \X B) /\ IsFiniteSet(C \X D)
    BY FS_Product
  <2> QED BY <2>1, FS_Product
<1>2. f \in [P -> Q]
  OBVIOUS
<1>3. ASSUME NEW q \in Q PROVE \E x \in P : f[x] = q
  <2>1. PICK a \in A, b \in B, c \in C, d \in D : q = <<a, b, c, d>>
    OBVIOUS
  <2>2. <<<<a, b>>, <<c, d>>>> \in P
    OBVIOUS
  <2>3. f[<<<<a, b>>, <<c, d>>>>] = <<a, b, c, d>>
    BY <2>2
  <2> QED BY <2>1, <2>2, <2>3
<1> HIDE DEF f, P, Q
<1>4. f \in Surjection(P, Q)
  BY <1>2, <1>3 DEF Surjection
<1>5. IsFiniteSet(Q)
  BY <1>1, <1>4, FS_Surjection
<1> QED BY <1>5 DEF Q

LEMMA UptoFinite ==
  ASSUME NEW n \in Nat
  PROVE  IsFiniteSet(Upto(n)) /\ Upto(n) = 0 .. n - 1
<1>1. IsFiniteSet(0 .. n - 1)
  BY FS_Interval
<1> QED BY <1>1 DEF Upto

\* A launch matches its loop if its terms stay inside the arrays and the output
\* of a term tells which worker it is from.
LEMMA LaunchMatches ==
  ASSUME NEW name, NEW terms, NEW outs \in Nat, NEW ins \in Nat, NEW workers, NEW tags,
         IsFiniteSet(workers), IsFiniteSet(tags),
         terms \subseteq workers \X Upto(outs) \X Upto(ins) \X tags,
         \A t, u \in terms : t[2] = u[2] => t[1] = u[1]
  PROVE  MatchesLoop(LaunchOf(name, terms, Work(terms), outs, ins))
<1> DEFINE W == Work(terms)
           f == [t \in terms |-> <<t[2], t[3], t[4]>>]
<1>1. ASSUME NEW t \in terms
      PROVE  /\ t = <<t[1], t[2], t[3], t[4]>>
             /\ t[2] \in Upto(outs) /\ t[3] \in Upto(ins)
  OBVIOUS
<1>2. IsFiniteSet(terms)
  <2>1. IsFiniteSet(workers \X Upto(outs) \X Upto(ins) \X tags)
    BY UptoFinite, QuadsFinite
  <2>2. terms \in SUBSET (workers \X Upto(outs) \X Upto(ins) \X tags)
    OBVIOUS
  <2> QED BY <2>1, <2>2, FS_Subset
<1>3. f \in [terms -> W] /\ \A t \in terms : f[t] = <<t[2], t[3], t[4]>>
  BY DEF Work
<1>4. ASSUME NEW x \in W PROVE \E t \in terms : x = <<t[2], t[3], t[4]>> /\ f[t] = x
  BY DEF Work
<1> HIDE DEF f
<1>5. ASSUME NEW t \in terms, NEW u \in terms, f[t] = f[u] PROVE t = u
  <2>1. <<t[2], t[3], t[4]>> = <<u[2], u[3], u[4]>>
    BY <1>3, <1>5
  <2>2. t[2] = u[2] /\ t[3] = u[3] /\ t[4] = u[4]
    BY <2>1
  <2>3. t[1] = u[1]
    BY <2>2
  <2> QED BY <1>1, <2>2, <2>3
<1>6. Cardinality(W) = Cardinality(terms)
  <2> HIDE DEF W
  <2>1. IsInjective(f)
    BY <1>3, <1>5 DEF IsInjective
  <2>2. f \in Bijection(terms, W)
    BY <1>3, <1>4, <2>1 DEF Bijection, Injection, Surjection
  <2>3. ExistsBijection(terms, W)
    BY <2>2 DEF ExistsBijection
  <2> QED BY <1>2, <2>3, FS_Bijection
<1>7. \A x \in W : x[1] \in Upto(outs) /\ x[2] \in Upto(ins)
  <2> SUFFICES ASSUME NEW x \in W PROVE x[1] \in Upto(outs) /\ x[2] \in Upto(ins)
    OBVIOUS
  <2>1. PICK t \in terms : x = <<t[2], t[3], t[4]>>
    BY <1>4
  <2> QED BY <1>1, <2>1
<1> DEFINE l == LaunchOf(name, terms, W, outs, ins)
<1>8. l[2] = terms /\ l[3] = W /\ l[4] = outs /\ l[5] = ins
  BY DEF LaunchOf
<1> HIDE DEF l
<1>9. MatchesLoop(l)
  BY <1>6, <1>7, <1>8 DEF MatchesLoop
<1> QED BY <1>9 DEF l

-----------------------------------------------------------------------------
\* A grid of enough blocks has a thread for every element, and the guard keeps the rest out.
LEMMA EnoughThreads ==
  ASSUME NEW n \in Nat, NEW T \in Nat \ {0}
  PROVE  CeilDiv(n, T) * T \in Nat /\ CeilDiv(n, T) * T >= n
<1>1. n + T - 1 \in Nat
  OBVIOUS
<1>2. PICK q, r : q = (n + T - 1) \div T /\ r = (n + T - 1) % T
  OBVIOUS
<1>3. q \in Nat /\ r \in 0 .. T - 1 /\ n + T - 1 = T * q + r
  BY <1>1, <1>2, DivMod
<1>4. q * T = T * q /\ q * T \in Nat
  BY <1>3
<1>5. q * T >= n
  BY <1>3, <1>4
<1> QED BY <1>2, <1>4, <1>5 DEF CeilDiv

LEMMA GuardedAll ==
  ASSUME NEW n \in Nat, NEW T \in Nat \ {0}
  PROVE  Guarded(n, T) = Upto(n)
<1>1. PICK m : m = CeilDiv(n, T) * T
  OBVIOUS
<1>2. m \in Nat /\ m >= n
  BY <1>1, EnoughThreads
<1> QED BY <1>1, <1>2 DEF Guarded, Threads, Upto

LEMMA Guarded2All ==
  ASSUME NEW w \in Nat, NEW h \in Nat, NEW tx \in Nat \ {0}, NEW ty \in Nat \ {0}
  PROVE  Guarded2(w, h, tx, ty) = Pixels(w, h)
<1>1. PICK m, k : m = CeilDiv(w, tx) * tx /\ k = CeilDiv(h, ty) * ty
  OBVIOUS
<1>2. m \in Nat /\ m >= w /\ k \in Nat /\ k >= h
  BY <1>1, EnoughThreads
<1> QED BY <1>1, <1>2 DEF Guarded2, Pixels, Upto

LEMMA Grid2All ==
  ASSUME NEW w \in Nat, NEW h \in Nat
  PROVE  Grid2(w, h) = Pixels(w, h)
BY Guarded2All, GridAssumption DEF Grid2

LEMMA PixelsFinite ==
  ASSUME NEW w \in Nat, NEW h \in Nat
  PROVE  /\ IsFiniteSet(Pixels(w, h))
         /\ \A p \in Pixels(w, h) : p = <<p[1], p[2]>> /\ p[1] \in 0 .. w - 1 /\ p[2] \in 0 .. h - 1
<1>1. IsFiniteSet(Upto(w) \X Upto(h))
  BY UptoFinite, FS_Product
<1> QED BY <1>1 DEF Pixels, Upto

LEMMA AtInside ==
  ASSUME NEW w \in Nat, NEW h \in Nat, NEW x \in 0 .. w - 1, NEW y \in 0 .. h - 1
  PROVE  At(w, x, y) \in 0 .. w * h - 1
<1>1. y + 1 \in Nat /\ y + 1 <= h
  OBVIOUS
<1>2. (y + 1) * w <= h * w /\ (y + 1) * w = y * w + w /\ h * w = w * h /\ y * w \in Nat
  BY <1>1, OrderedProducts
<1>3. PICK a, b : a = y * w /\ b = w * h
  OBVIOUS
<1>4. a \in Nat /\ b \in Nat /\ a + w <= b
  BY <1>2, <1>3
<1> QED BY <1>3, <1>4 DEF At

\* Rows do not overlap.
LEMMA AtTells ==
  ASSUME NEW w \in Nat, NEW x \in 0 .. w - 1, NEW u \in 0 .. w - 1, NEW y \in Nat, NEW v \in Nat,
         At(w, x, y) = At(w, u, v)
  PROVE  x = u /\ y = v
<1>1. w \in Nat \ {0}
  OBVIOUS
<1>2. PICK n : n = At(w, x, y)
  OBVIOUS
<1>3. n = w * y + x /\ n \in Int
  BY <1>2 DEF At
<1>4. n = w * v + u
  BY <1>2 DEF At
<1>5. n \div w = y /\ n % w = x
  <2>1. y \in Int
    OBVIOUS
  <2> QED BY ONLY <1>1, <1>3, <2>1, x \in 0 .. w - 1, DivUnique
<1>6. n \div w = v /\ n % w = u
  <2>1. v \in Int /\ n \in Int
    BY <1>3
  <2> QED BY ONLY <1>1, <1>4, <2>1, u \in 0 .. w - 1, DivUnique
<1> QED BY <1>5, <1>6

LEMMA ClampInside ==
  ASSUME NEW v \in Int, NEW m \in Nat \ {0}
  PROVE  Clamp(v, 0, m - 1) \in 0 .. m - 1
BY DEF Clamp

LEMMA PixelTells ==
  ASSUME NEW w \in Nat, NEW h \in Nat, NEW p \in Pixels(w, h), NEW q \in Pixels(w, h),
         At(w, p[1], p[2]) = At(w, q[1], q[2])
  PROVE  p = q
<1>1. /\ p = <<p[1], p[2]>> /\ p[1] \in 0 .. w - 1 /\ p[2] \in Nat
      /\ q = <<q[1], q[2]>> /\ q[1] \in 0 .. w - 1 /\ q[2] \in Nat
  BY PixelsFinite
<1>2. p[1] = q[1] /\ p[2] = q[2]
  BY <1>1, AtTells
<1> QED BY <1>1, <1>2

-----------------------------------------------------------------------------
\* One thread for each element.
LEMMA ElementwiseMatches ==
  ASSUME NEW name, NEW n \in Nat
  PROVE  MatchesLoop(LaunchOf(name, OneThreadEach(n, Block), Elementwise(n), n, n))
<1> DEFINE terms == OneThreadEach(n, Block)
<1>1. Block \in Nat \ {0}
  BY GridAssumption
<1>2. Guarded(n, Block) = Upto(n)
  BY <1>1, GuardedAll
<1>3. terms = {<<i, i, i, 0>> : i \in Upto(n)}
  BY <1>2 DEF OneThreadEach, Term
<1> HIDE DEF terms
<1>4. terms \subseteq Upto(n) \X Upto(n) \X Upto(n) \X {0} /\ \A t, u \in terms : t[2] = u[2] => t[1] = u[1]
  BY <1>3
<1>5. Work(terms) = Elementwise(n)
  <2>1. ASSUME NEW x \in Work(terms) PROVE x \in Elementwise(n)
    <3>1. PICK t \in terms : x = <<t[2], t[3], t[4]>>
      BY DEF Work
    <3> QED BY <1>3, <3>1 DEF Elementwise
  <2>2. ASSUME NEW x \in Elementwise(n) PROVE x \in Work(terms)
    <3>1. PICK i \in Upto(n) : x = <<i, i, 0>>
      BY DEF Elementwise
    <3>2. <<i, i, i, 0>> \in terms
      BY <1>3
    <3> QED BY <3>1, <3>2 DEF Work
  <2> QED BY <2>1, <2>2
<1>6. IsFiniteSet({0}) /\ IsFiniteSet(Upto(n))
  BY UptoFinite, FS_Singleton
<1>7. MatchesLoop(LaunchOf(name, terms, Work(terms), n, n))
  BY <1>4, <1>6, LaunchMatches
<1> QED BY <1>5, <1>7 DEF terms

LEMMA WindowFinite ==
  ASSUME NEW r \in Nat
  PROVE  IsFiniteSet(Window(r)) /\ \A d \in Window(r) : d[1] \in -r .. r /\ d[2] \in -r .. r
<1>1. IsFiniteSet(-r .. r)
  BY FS_Interval
<1>2. IsFiniteSet((-r .. r) \X (-r .. r))
  BY <1>1, FS_Product
<1> QED BY <1>2 DEF Window

\* The taps of a stencil are clamped to the image.
LEMMA StencilMatches ==
  ASSUME NEW name, NEW w \in Nat \ {0}, NEW h \in Nat \ {0}, NEW sw \in Nat \ {0}, NEW sh \in Nat \ {0},
         NEW r \in Nat, NEW scale \in Nat, NEW outs \in Nat, NEW ins \in Nat, w * h <= outs, sw * sh <= ins
  PROVE  MatchesLoop(LaunchOf(name, StencilTerms(Grid2(w, h), r, w, sw, sh, scale),
                              Work(StencilTerms(Pixels(w, h), r, w, sw, sh, scale)), outs, ins))
<1> DEFINE terms == StencilTerms(Pixels(w, h), r, w, sw, sh, scale)
           tap(p, d) == At(sw, Clamp(scale * p[1] + d[1], 0, sw - 1), Clamp(scale * p[2] + d[2], 0, sh - 1))
<1>1. Grid2(w, h) = Pixels(w, h)
  BY Grid2All
<1>2. ASSUME NEW t \in terms
      PROVE  \E p \in Pixels(w, h), d \in Window(r) : t = <<p, At(w, p[1], p[2]), tap(p, d), d>>
  BY DEF StencilTerms, Term
<1>3. ASSUME NEW p \in Pixels(w, h), NEW d \in Window(r)
      PROVE  At(w, p[1], p[2]) \in Upto(outs) /\ tap(p, d) \in Upto(ins)
  <2>1. p[1] \in 0 .. w - 1 /\ p[2] \in 0 .. h - 1 /\ d[1] \in Int /\ d[2] \in Int
    BY PixelsFinite, WindowFinite
  <2>2. PICK i, j : i = scale * p[1] + d[1] /\ j = scale * p[2] + d[2]
    OBVIOUS
  <2>3. i \in Int /\ j \in Int
    BY <2>1, <2>2
  <2>4. PICK x, y : x = Clamp(i, 0, sw - 1) /\ y = Clamp(j, 0, sh - 1)
    OBVIOUS
  <2>5. x \in 0 .. sw - 1 /\ y \in 0 .. sh - 1
    BY <2>3, <2>4, ClampInside
  <2>6. At(w, p[1], p[2]) \in 0 .. w * h - 1 /\ At(sw, x, y) \in 0 .. sw * sh - 1
    BY <2>1, <2>5, AtInside
  <2>7. PICK a, b : a = w * h /\ b = sw * sh
    OBVIOUS
  <2>8. a \in Nat /\ b \in Nat /\ a <= outs /\ b <= ins
    BY <2>7
  <2>9. At(w, p[1], p[2]) \in Upto(outs) /\ At(sw, x, y) \in Upto(ins)
    BY <2>6, <2>7, <2>8 DEF Upto
  <2> QED BY <2>2, <2>4, <2>9
<1> HIDE DEF terms, tap
<1>4. terms \subseteq Pixels(w, h) \X Upto(outs) \X Upto(ins) \X Window(r)
  BY <1>2, <1>3
<1>5. ASSUME NEW t \in terms, NEW u \in terms, t[2] = u[2] PROVE t[1] = u[1]
  <2>1. PICK p \in Pixels(w, h), q \in Pixels(w, h) :
          t[1] = p /\ u[1] = q /\ t[2] = At(w, p[1], p[2]) /\ u[2] = At(w, q[1], q[2])
    BY <1>2
  <2> QED BY <1>5, <2>1, PixelTells
<1>6. MatchesLoop(LaunchOf(name, terms, Work(terms), outs, ins))
  BY <1>4, <1>5, PixelsFinite, WindowFinite, LaunchMatches
<1> QED BY <1>1, <1>6 DEF terms

\* A window that stays inside, and a zero on the border.
LEMMA BorderedMatches ==
  ASSUME NEW name, NEW w \in Nat \ {0}, NEW h \in Nat \ {0}, NEW border \in Nat, NEW window,
         window \subseteq Window(border)
  PROVE  MatchesLoop(LaunchOf(name, BorderedTerms(Grid2(w, h), w, h, border, window),
                              BorderedLoop(w, h, border, window), w * h, w * h))
<1> DEFINE terms == BorderedTerms(Pixels(w, h), w, h, border, window)
           loop == BorderedLoop(w, h, border, window)
           Inside(p) == p[1] \in border .. (w - border - 1) /\ p[2] \in border .. (h - border - 1)
           tap(p, d) == At(w, p[1] + d[1], p[2] + d[2])
           zero(p) == <<p, At(w, p[1], p[2]), At(w, p[1], p[2]), ZeroStore>>
           term(p, d) == <<p, At(w, p[1], p[2]), tap(p, d), d>>
           tags == window \cup {ZeroStore}
<1>1. Grid2(w, h) = Pixels(w, h)
  BY Grid2All
<1>2. terms = UNION {IF Inside(p) THEN {term(p, d) : d \in window} ELSE {zero(p)} : p \in Pixels(w, h)}
  <2>1. ASSUME NEW p \in Pixels(w, h)
        PROVE  (p[1] < border \/ p[2] < border \/ p[1] >= w - border \/ p[2] >= h - border) <=> ~Inside(p)
    BY PixelsFinite
  <2> QED BY <2>1 DEF BorderedTerms, Term
<1>3. ASSUME NEW t
      PROVE  t \in terms <=> \E p \in Pixels(w, h) : IF Inside(p) THEN \E d \in window : t = term(p, d) ELSE t = zero(p)
  BY <1>2
<1>4. ASSUME NEW p \in Pixels(w, h)
      PROVE  /\ At(w, p[1], p[2]) \in Upto(w * h)
             /\ Inside(p) => \A d \in window : tap(p, d) \in Upto(w * h)
  <2>1. p[1] \in 0 .. w - 1 /\ p[2] \in 0 .. h - 1
    BY PixelsFinite
  <2>2. At(w, p[1], p[2]) \in 0 .. w * h - 1
    BY ONLY <2>1, w \in Nat, h \in Nat, AtInside
  <2>3. ASSUME Inside(p), NEW d \in window PROVE tap(p, d) \in 0 .. w * h - 1
    <3>1. d[1] \in -border .. border /\ d[2] \in -border .. border
      BY WindowFinite
    <3>2. PICK x, y : x = p[1] + d[1] /\ y = p[2] + d[2]
      OBVIOUS
    <3>3. x \in 0 .. w - 1 /\ y \in 0 .. h - 1
      BY <2>1, <2>3, <3>1, <3>2
    <3> QED BY <3>2, <3>3, AtInside
  <2>4. w * h \in Nat
    OBVIOUS
  <2>5. Upto(w * h) = 0 .. w * h - 1
    BY <2>4, UptoFinite
  <2> QED BY <2>2, <2>3, <2>5
<1>5. loop = {<<At(w, p[1], p[2]), At(w, p[1], p[2]), ZeroStore>> : p \in {x \in Pixels(w, h) : ~Inside(x)}}
             \cup {<<At(w, p[1], p[2]), tap(p, d), d>> : p \in {x \in Pixels(w, h) : Inside(x)}, d \in window}
  <2>1. Pixels(w, h) \ {x \in Pixels(w, h) : Inside(x)} = {x \in Pixels(w, h) : ~Inside(x)}
    OBVIOUS
  <2> QED BY <2>1 DEF BorderedLoop
<1> HIDE DEF terms, loop, Inside, tap
<1>6. terms \subseteq Pixels(w, h) \X Upto(w * h) \X Upto(w * h) \X tags
  BY <1>3, <1>4
<1>7. ASSUME NEW t \in terms, NEW u \in terms, t[2] = u[2] PROVE t[1] = u[1]
  <2>1. PICK p \in Pixels(w, h), q \in Pixels(w, h) :
          t[1] = p /\ u[1] = q /\ t[2] = At(w, p[1], p[2]) /\ u[2] = At(w, q[1], q[2])
    BY <1>3
  <2> QED BY <1>7, <2>1, PixelTells
<1>8. Work(terms) = loop
  <2>1. ASSUME NEW x \in Work(terms) PROVE x \in loop
    <3>1. PICK t \in terms : x = <<t[2], t[3], t[4]>>
      BY DEF Work
    <3>2. PICK p \in Pixels(w, h) : IF Inside(p) THEN \E d \in window : t = term(p, d) ELSE t = zero(p)
      BY <1>3
    <3>3. CASE Inside(p)
      BY <1>5, <3>1, <3>2, <3>3
    <3>4. CASE ~Inside(p)
      BY <1>5, <3>1, <3>2, <3>4
    <3> QED BY <3>3, <3>4
  <2>2. ASSUME NEW x \in loop PROVE x \in Work(terms)
    <3>1. CASE \E p \in {y \in Pixels(w, h) : ~Inside(y)} : x = <<At(w, p[1], p[2]), At(w, p[1], p[2]), ZeroStore>>
      <4>1. PICK p \in Pixels(w, h) : ~Inside(p) /\ x = <<At(w, p[1], p[2]), At(w, p[1], p[2]), ZeroStore>>
        BY <3>1
      <4>2. zero(p) \in terms
        BY <1>3, <4>1
      <4> QED BY <4>1, <4>2 DEF Work
    <3>2. CASE \E p \in {y \in Pixels(w, h) : Inside(y)}, d \in window : x = <<At(w, p[1], p[2]), tap(p, d), d>>
      <4>1. PICK p \in Pixels(w, h), d \in window : Inside(p) /\ x = <<At(w, p[1], p[2]), tap(p, d), d>>
        BY <3>2
      <4>2. term(p, d) \in terms
        BY <1>3, <4>1
      <4> QED BY <4>1, <4>2 DEF Work
    <3> QED BY <1>5, <3>1, <3>2
  <2> QED BY <2>1, <2>2
<1>9. IsFiniteSet(tags)
  <2>1. IsFiniteSet(window)
    BY WindowFinite, FS_Subset
  <2> QED BY <2>1, FS_AddElement
<1>10. w * h \in Nat
  OBVIOUS
<1> HIDE DEF tags
<1>11. MatchesLoop(LaunchOf(name, terms, Work(terms), w * h, w * h))
  BY <1>6, <1>7, <1>9, <1>10, PixelsFinite, LaunchMatches
<1> QED BY <1>1, <1>8, <1>11 DEF terms, loop

\* Two bytes of chroma for every four pixels, behind the plane of luma.
LEMMA Nv12Matches ==
  ASSUME NEW name, NEW w \in Nat \ {0}, NEW h \in Nat \ {0}
  PROVE  MatchesLoop(LaunchOf(name, k_nv12_to_rgb(2 * w, 2 * h), nv12_to_rgb_cpu(2 * w, 2 * h),
                              12 * (w * h), 6 * (w * h)))
<1> DEFINE X == 2 * w
           Y == 2 * h
           terms == Nv12Terms(X, Y, Pixels(X, Y))
           uv(p) == X * Y + (p[2] \div 2) * X + (p[1] \div 2) * 2
           bytes(p) == {At(X, p[1], p[2]), uv(p), uv(p) + 1}
<1>1. PICK n : n = w * h
  OBVIOUS
<1>2. n \in Nat /\ X \in Nat \ {0} /\ Y \in Nat \ {0} /\ X * Y = 4 * n
  BY <1>1
<1>3. Grid2(X, Y) = Pixels(X, Y)
  BY <1>2, Grid2All
<1>4. ASSUME NEW t \in terms
      PROVE  \E p \in Pixels(X, Y), c \in 0 .. 2 : \E i \in bytes(p) : t = <<p, 3 * At(X, p[1], p[2]) + c, i, 0>>
  BY DEF Nv12Terms, Term
<1>5. ASSUME NEW p \in Pixels(X, Y)
      PROVE  /\ At(X, p[1], p[2]) \in 0 .. 4 * n - 1
             /\ bytes(p) \subseteq 0 .. 6 * n - 1
  <2>1. p[1] \in 0 .. X - 1 /\ p[2] \in 0 .. Y - 1
    BY <1>2, PixelsFinite
  <2>2. At(X, p[1], p[2]) \in 0 .. X * Y - 1
    BY <1>2, <2>1, AtInside
  <2>3. PICK a, b : a = p[1] \div 2 /\ b = p[2] \div 2
    OBVIOUS
  <2>4. a \in 0 .. w - 1 /\ b \in 0 .. h - 1
    BY <2>1, <2>3
  <2>5. At(w, a, b) \in 0 .. n - 1 /\ At(w, a, b) = b * w + a
    BY <1>1, <2>4, AtInside DEF At
  <2>6. uv(p) = 4 * n + b * X + a * 2
    BY <1>2, <2>3
  <2>7. b * X = 2 * (b * w) /\ b * w \in Nat
    BY <2>4
  <2>8. PICK m : m = b * w
    OBVIOUS
  <2>9. m \in Nat /\ m + a \in 0 .. n - 1 /\ uv(p) = 4 * n + 2 * m + a * 2
    BY <2>5, <2>6, <2>7, <2>8
  <2> HIDE DEF uv
  <2>10. uv(p) \in 4 * n .. 6 * n - 2
    BY <1>2, <2>4, <2>9
  <2> QED BY <1>2, <2>2, <2>10
<1> HIDE DEF terms, bytes, X, Y
<1>6. terms \subseteq Pixels(X, Y) \X Upto(12 * n) \X Upto(6 * n) \X {0}
  <2> SUFFICES ASSUME NEW t \in terms PROVE t \in Pixels(X, Y) \X Upto(12 * n) \X Upto(6 * n) \X {0}
    OBVIOUS
  <2>1. PICK p \in Pixels(X, Y), c \in 0 .. 2 : \E i \in bytes(p) : t = <<p, 3 * At(X, p[1], p[2]) + c, i, 0>>
    BY <1>4
  <2>2. PICK i \in bytes(p) : t = <<p, 3 * At(X, p[1], p[2]) + c, i, 0>>
    BY <2>1
  <2>3. 3 * At(X, p[1], p[2]) + c \in Upto(12 * n) /\ i \in Upto(6 * n)
    BY <1>2, <1>5 DEF Upto
  <2> QED BY <2>2, <2>3
<1>7. ASSUME NEW t \in terms, NEW u \in terms, t[2] = u[2] PROVE t[1] = u[1]
  <2>1. PICK p \in Pixels(X, Y), c \in 0 .. 2 : t[1] = p /\ t[2] = 3 * At(X, p[1], p[2]) + c
    BY <1>4
  <2>2. PICK q \in Pixels(X, Y), e \in 0 .. 2 : u[1] = q /\ u[2] = 3 * At(X, q[1], q[2]) + e
    BY <1>4
  <2>3. At(X, p[1], p[2]) \in Int /\ At(X, q[1], q[2]) \in Int
    BY <1>2, <1>5
  <2>4. At(X, p[1], p[2]) = At(X, q[1], q[2])
    <3>1. PICK a, b : a = At(X, p[1], p[2]) /\ b = At(X, q[1], q[2])
      OBVIOUS
    <3>2. a \in Int /\ b \in Int /\ 3 * a + c = 3 * b + e
      BY <1>7, <2>1, <2>2, <2>3, <3>1
    <3>3. a = b
      BY ONLY <3>2, c \in 0 .. 2, e \in 0 .. 2
    <3> QED BY <3>1, <3>3
  <2> QED BY <1>2, <2>1, <2>2, <2>4, PixelTells
<1>8. MatchesLoop(LaunchOf(name, terms, Work(terms), 12 * n, 6 * n))
  <2>1. IsFiniteSet({0})
    BY FS_Singleton
  <2>2. IsFiniteSet(Pixels(X, Y))
    BY <1>2, PixelsFinite
  <2>3. 12 * n \in Nat /\ 6 * n \in Nat
    BY <1>2
  <2> QED BY <1>6, <1>7, <2>1, <2>2, <2>3, LaunchMatches
<1>9. k_nv12_to_rgb(X, Y) = terms /\ nv12_to_rgb_cpu(X, Y) = Work(terms)
  BY <1>3 DEF k_nv12_to_rgb, nv12_to_rgb_cpu, Work, terms
<1> QED BY <1>1, <1>8, <1>9 DEF X, Y

LEMMA TapInside ==
  ASSUME NEW x \in Nat, NEW src \in Nat \ {0}, NEW dst \in Nat \ {0}, NEW d \in 0 .. 1
  PROVE  Tap(x, src, dst, d) \in 0 .. src - 1
<1>1. PICK s : s = 2 * x + 1
  OBVIOUS
<1>2. s \in Nat /\ s * src \in Int /\ 2 * dst \in Nat \ {0}
  BY <1>1
<1>3. PICK v, m : v = s * src - dst /\ m = 2 * dst
  OBVIOUS
<1>4. v \in Int /\ m \in Nat \ {0}
  BY <1>2, <1>3
<1>5. v \div m \in Int
  BY <1>4
<1>6. PICK y : y = Clamp(v \div m, 0, src - 1)
  OBVIOUS
<1>7. y \in 0 .. src - 1
  BY <1>5, <1>6, ClampInside
<1>8. Clamp(y + 1, 0, src - 1) \in 0 .. src - 1
  BY <1>7, ClampInside
<1>9. Tap(x, src, dst, d) = IF d = 0 THEN y ELSE Clamp(y + 1, 0, src - 1)
  BY <1>1, <1>3, <1>6 DEF Tap
<1> QED BY <1>7, <1>8, <1>9

\* Three planes of the output, three bytes for each pixel of the input.
LEMMA ResizeMatches ==
  ASSUME NEW name, NEW sw \in Nat \ {0}, NEW sh \in Nat \ {0}, NEW dw \in Nat \ {0}, NEW dh \in Nat \ {0}
  PROVE  MatchesLoop(LaunchOf(name, k_resize_normalize_chw(sw, sh, dw, dh), preprocess_cpu(sw, sh, dw, dh),
                              3 * dw * dh, 3 * (sw * sh)))
<1> DEFINE terms == ResizeTerms(sw, sh, dw, dh, Pixels(dw, dh))
           from(p, d) == At(sw, Tap(p[1], sw, dw, d[1]), Tap(p[2], sh, dh, d[2]))
           to(p) == At(dw, p[1], p[2])
           corners == (0 .. 1) \X (0 .. 1)
<1>1. PICK n, m : n = dw * dh /\ m = sw * sh
  OBVIOUS
<1>2. n \in Nat /\ m \in Nat /\ 3 * dw * dh = 3 * n
  BY <1>1
<1>3. ASSUME NEW t \in terms
      PROVE  \E p \in Pixels(dw, dh), c \in 0 .. 2, d \in corners :
               t = <<p, c * n + to(p), 3 * from(p, d) + c, d>>
  <2>1. PICK p \in Pixels(dw, dh), c \in 0 .. 2, d \in corners :
          t = <<<<p[1], p[2]>>, c * n + to(p), 3 * from(p, d) + c, d>>
    BY <1>1 DEF ResizeTerms, Term
  <2>2. p = <<p[1], p[2]>>
    BY PixelsFinite
  <2> QED BY <2>1, <2>2
<1>4. ASSUME NEW p \in Pixels(dw, dh) PROVE to(p) \in 0 .. n - 1
  BY <1>1, PixelsFinite, AtInside
<1>5. ASSUME NEW p \in Pixels(dw, dh), NEW d \in corners PROVE from(p, d) \in 0 .. m - 1
  <2>1. p[1] \in Nat /\ p[2] \in Nat /\ d[1] \in 0 .. 1 /\ d[2] \in 0 .. 1
    BY PixelsFinite
  <2>2. Tap(p[1], sw, dw, d[1]) \in 0 .. sw - 1 /\ Tap(p[2], sh, dh, d[2]) \in 0 .. sh - 1
    BY <2>1, TapInside
  <2> QED BY <1>1, <2>2, AtInside
<1>6. ASSUME NEW p \in Pixels(dw, dh), NEW c \in 0 .. 2 PROVE c * n + to(p) \in 0 .. 3 * n - 1
  <2>1. c = 0 \/ c = 1 \/ c = 2
    OBVIOUS
  <2> HIDE DEF to
  <2> QED BY <1>2, <1>4, <2>1
<1>7. ASSUME NEW p \in Pixels(dw, dh), NEW q \in Pixels(dw, dh), NEW c \in 0 .. 2, NEW e \in 0 .. 2,
             c * n + to(p) = e * n + to(q)
      PROVE  p = q
  <2>1. to(p) = to(q)
    <3>1. c \in {0, 1, 2} /\ e \in {0, 1, 2}
      OBVIOUS
    <3> HIDE DEF to
    <3> QED BY <1>2, <1>4, <1>7, <3>1
  <2> QED BY <2>1, PixelTells
<1>8. IsFiniteSet(corners)
  <2>1. IsFiniteSet(0 .. 1)
    <3>1. 0 \in Int /\ 1 \in Int
      OBVIOUS
    <3> QED BY ONLY <3>1, FS_Interval
  <2> QED BY <2>1, FS_Product
<1> HIDE DEF terms, from, to, corners
<1>9. terms \subseteq Pixels(dw, dh) \X Upto(3 * n) \X Upto(3 * m) \X corners
  <2> SUFFICES ASSUME NEW t \in terms PROVE t \in Pixels(dw, dh) \X Upto(3 * n) \X Upto(3 * m) \X corners
    OBVIOUS
  <2>1. PICK p \in Pixels(dw, dh), c \in 0 .. 2, d \in corners : t = <<p, c * n + to(p), 3 * from(p, d) + c, d>>
    BY <1>3
  <2>2. c * n + to(p) \in Upto(3 * n)
    BY <1>6 DEF Upto
  <2>3. 3 * from(p, d) + c \in Upto(3 * m)
    BY <1>2, <1>5 DEF Upto
  <2> QED BY <2>1, <2>2, <2>3
<1>10. ASSUME NEW t \in terms, NEW u \in terms, t[2] = u[2] PROVE t[1] = u[1]
  <2>1. PICK p \in Pixels(dw, dh), c \in 0 .. 2 : t[1] = p /\ t[2] = c * n + to(p)
    BY <1>3
  <2>2. PICK q \in Pixels(dw, dh), e \in 0 .. 2 : u[1] = q /\ u[2] = e * n + to(q)
    BY <1>3
  <2> QED BY <1>7, <1>10, <2>1, <2>2
<1>11. MatchesLoop(LaunchOf(name, terms, Work(terms), 3 * n, 3 * m))
  <2>1. IsFiniteSet(Pixels(dw, dh)) /\ 3 * n \in Nat /\ 3 * m \in Nat
    BY <1>2, PixelsFinite
  <2> QED BY <1>8, <1>9, <1>10, <2>1, LaunchMatches
<1>12. k_resize_normalize_chw(sw, sh, dw, dh) = terms /\ preprocess_cpu(sw, sh, dw, dh) = Work(terms)
  BY Grid2All DEF k_resize_normalize_chw, preprocess_cpu, Work, terms
<1> QED BY <1>1, <1>2, <1>11, <1>12
\* What a side of the frame is halved to, and what it is shifted to.
LEMMA Halvings ==
  ASSUME NEW v \in Nat \ {0}
  PROVE  /\ Half(4 * v) = 2 * v /\ Half(2 * v) = v /\ (Half(v) >= 2 => Half(v) = v \div 2)
         /\ (4 * v) \div (2 ^ 0) = 4 * v /\ (4 * v) \div (2 ^ 1) = 2 * v
         /\ (4 * v) \div (2 ^ 2) = v /\ (4 * v) \div (2 ^ 3) = v \div 2
         /\ v \div 2 \in 0 .. v
<1>1. 2 ^ 0 = 1 /\ 2 ^ 1 = 2 /\ 2 ^ 2 = 4 /\ 2 ^ 3 = 8
  OBVIOUS
<1>2. (4 * v) \div 1 = 4 * v /\ (4 * v) \div 2 = 2 * v /\ (4 * v) \div 4 = v /\ (4 * v) \div 8 = v \div 2
  OBVIOUS
<1>3. Half(4 * v) = 2 * v /\ Half(2 * v) = v /\ (Half(v) >= 2 => Half(v) = v \div 2)
  BY DEF Half
<1>4. v \div 2 \in 0 .. v
  OBVIOUS
<1> QED BY <1>1, <1>2, <1>3, <1>4

\* While a level is built, halving has not met the 1 it stops at, so shifting the
\* sizes of the frame gives the same numbers.
LEMMA LevelsMatch ==
  ASSUME NEW name, NEW w \in Nat \ {0}, NEW h \in Nat \ {0}
  PROVE  MatchesLoop(LaunchOf(name, k_klt_level(4 * w, 4 * h, 4, 2), LevelSizes(4 * w, 4 * h, 4, 2),
                              4, 17 * (w * h)))
<1> DEFINE X == 4 * w
           Y == 4 * h
           Body(e) == [l \in Upto(4) |-> IF l = 0 THEN <<X, Y>> ELSE <<Half(e[l - 1][1]), Half(e[l - 1][2])>>]
           iter == CHOOSE e : e = Body(e)
           built == {l \in Upto(4) : \A k \in 1 .. l : iter[k][1] >= 2 /\ iter[k][2] >= 2}
           loop == LevelSizes(X, Y, 4, 2)
           terms == k_klt_level(X, Y, 4, 2)
           shifted(l) == (X \div (2 ^ l)) * (Y \div (2 ^ l))
<1>1. loop = {<<l, At(iter[l][1], 0, iter[l][2]), 0>> : l \in built}
  BY DEF LevelSizes
<1>2. \E e : e = Body(e)
  <2> DEFINE g(l) == IF l = 0 THEN <<X, Y>> ELSE IF l = 1 THEN <<Half(X), Half(Y)>>
                     ELSE IF l = 2 THEN <<Half(Half(X)), Half(Half(Y))>>
                     ELSE <<Half(Half(Half(X))), Half(Half(Half(Y)))>>
             e == [l \in Upto(4) |-> g(l)]
  <2>1. ASSUME NEW l \in Upto(4)
        PROVE  g(l) = IF l = 0 THEN <<X, Y>> ELSE <<Half(e[l - 1][1]), Half(e[l - 1][2])>>
    <3> HIDE DEF X, Y
    <3>1. l = 0 \/ l = 1 \/ l = 2 \/ l = 3
      BY DEF Upto
    <3>2. e[0] = g(0) /\ e[1] = g(1) /\ e[2] = g(2)
      BY DEF Upto
    <3> HIDE DEF e
    <3> QED BY <3>1, <3>2
  <2>2. e = Body(e)
    <3> HIDE DEF g
    <3> QED BY <2>1
  <2> HIDE DEF e, Body
  <2> QED BY <2>2
<1>3. iter = Body(iter)
  <2> HIDE DEF Body
  <2> QED BY <1>2
<1> HIDE DEF iter
<1>4. /\ iter[0] = <<X, Y>> /\ iter[1] = <<Half(iter[0][1]), Half(iter[0][2])>>
      /\ iter[2] = <<Half(iter[1][1]), Half(iter[1][2])>>
      /\ iter[3] = <<Half(iter[2][1]), Half(iter[2][2])>>
  <2> HIDE DEF X, Y
  <2>1. ASSUME NEW l \in Upto(4)
        PROVE  iter[l] = IF l = 0 THEN <<X, Y>> ELSE <<Half(iter[l - 1][1]), Half(iter[l - 1][2])>>
    BY <1>3
  <2>2. ASSUME NEW l \in Upto(4), NEW k \in Upto(4), l = k + 1
        PROVE  iter[l] = <<Half(iter[k][1]), Half(iter[k][2])>>
    <3>1. l # 0 /\ l - 1 = k
      BY <2>2 DEF Upto
    <3> QED BY <2>1, <3>1
  <2>3. /\ 0 \in Upto(4) /\ 1 \in Upto(4) /\ 2 \in Upto(4) /\ 3 \in Upto(4)
        /\ 1 = 0 + 1 /\ 2 = 1 + 1 /\ 3 = 2 + 1
    BY DEF Upto
  <2>4. iter[0] = <<X, Y>>
    BY <2>1, <2>3
  <2>5. iter[1] = <<Half(iter[0][1]), Half(iter[0][2])>>
    BY <2>2, <2>3
  <2>6. iter[2] = <<Half(iter[1][1]), Half(iter[1][2])>>
    BY <2>2, <2>3
  <2>7. iter[3] = <<Half(iter[2][1]), Half(iter[2][2])>>
    BY <2>2, <2>3
  <2> QED BY <2>4, <2>5, <2>6, <2>7
<1>5. ASSUME NEW i \in {1, 2}, NEW v \in Nat \ {0}, iter[0][i] = 4 * v, NEW l \in Upto(4), l = 3 => iter[3][i] >= 2
      PROVE  iter[l][i] = (4 * v) \div (2 ^ l) /\ iter[l][i] \in 0 .. 4 * v
  <2>0. iter[1][i] = Half(iter[0][i]) /\ iter[2][i] = Half(iter[1][i]) /\ iter[3][i] = Half(iter[2][i])
    BY <1>4
  <2>1. iter[1][i] = 2 * v /\ iter[2][i] = v /\ iter[3][i] = Half(v)
    BY <1>5, <2>0, Halvings
  <2>2. l = 0 \/ l = 1 \/ l = 2 \/ l = 3
    BY DEF Upto
  <2>3. 4 * v \in 0 .. 4 * v /\ 2 * v \in 0 .. 4 * v /\ v \in 0 .. 4 * v /\ v \div 2 \in 0 .. 4 * v
    OBVIOUS
  <2>4. CASE l = 0
    BY <1>5, <2>3, <2>4, Halvings
  <2>5. CASE l = 1
    BY <2>1, <2>3, <2>5, Halvings
  <2>6. CASE l = 2
    BY <2>1, <2>3, <2>6, Halvings
  <2>7. CASE l = 3
    <3>1. Half(v) = v \div 2
      BY <1>5, <2>1, <2>7, Halvings
    <3> QED BY <2>1, <2>3, <2>7, <3>1, Halvings
  <2> QED BY <2>2, <2>4, <2>5, <2>6, <2>7
<1>6. ASSUME NEW l \in built
      PROVE  /\ l \in Upto(4) /\ At(iter[l][1], 0, iter[l][2]) = shifted(l)
             /\ shifted(l) \in Upto(17 * (w * h))
  <2>1. l \in Upto(4) /\ (l = 3 => iter[3][1] >= 2 /\ iter[3][2] >= 2)
    <3>1. l = 3 => 3 \in 1 .. l
      OBVIOUS
    <3>2. l \in Upto(4) /\ \A k \in 1 .. l : iter[k][1] >= 2 /\ iter[k][2] >= 2
      OBVIOUS
    <3> QED BY <3>1, <3>2
  <2>2. iter[l][1] = X \div (2 ^ l) /\ iter[l][1] \in 0 .. 4 * w
    <3>1. iter[0][1] = 4 * w
      BY <1>4
    <3> QED BY <1>5, <2>1, <3>1
  <2>3. iter[l][2] = Y \div (2 ^ l) /\ iter[l][2] \in 0 .. 4 * h
    <3>1. iter[0][2] = 4 * h
      BY <1>4
    <3> QED BY <1>5, <2>1, <3>1
  <2>4. PICK a, b : a = iter[l][1] /\ b = iter[l][2]
    OBVIOUS
  <2>5. a \in Nat /\ b \in Nat /\ a <= 4 * w /\ b <= 4 * h /\ 4 * w \in Nat /\ 4 * h \in Nat
    BY <2>2, <2>3, <2>4
  <2>6. At(a, 0, b) = a * b /\ a * b \in Nat
    BY <2>5 DEF At
  <2>7. shifted(l) = a * b
    BY <2>2, <2>3, <2>4
  <2>8. a * b <= (4 * w) * b /\ b * (4 * w) <= (4 * h) * (4 * w)
    BY <2>5, OrderedProducts
  <2>9. (4 * w) * b = b * (4 * w) /\ (4 * h) * (4 * w) = 16 * (w * h) /\ w * h \in Nat \ {0}
    BY <2>5
  <2>10. a * b \in Upto(17 * (w * h))
    <3>1. PICK n, m, k : n = w * h /\ m = a * b /\ k = b * (4 * w)
      OBVIOUS
    <3>2. m \in Nat /\ n \in Nat \ {0} /\ k \in Nat
      BY <2>5, <2>6, <2>9, <3>1
    <3>3. m <= k /\ k <= 16 * n
      BY <2>8, <2>9, <3>1
    <3>4. m \in 0 .. 17 * n - 1
      BY ONLY <3>2, <3>3
    <3> QED BY <3>1, <3>4 DEF Upto
  <2> QED BY <2>1, <2>4, <2>6, <2>7, <2>10
<1>7. terms = {<<l, l, shifted(l), 0>> : l \in built}
  <2>1. terms = {<<t[1], t[1], shifted(t[1]), 0>> : t \in loop}
    BY DEF k_klt_level, Term
  <2> HIDE DEF shifted, loop, built
  <2>2. ASSUME NEW x \in terms PROVE \E l \in built : x = <<l, l, shifted(l), 0>>
    <3>1. PICK t \in loop : x = <<t[1], t[1], shifted(t[1]), 0>>
      BY <2>1
    <3>2. PICK l \in built : t = <<l, At(iter[l][1], 0, iter[l][2]), 0>>
      BY <1>1
    <3> QED BY <3>1, <3>2
  <2>3. ASSUME NEW l \in built PROVE <<l, l, shifted(l), 0>> \in terms
    <3>1. PICK t : t = <<l, At(iter[l][1], 0, iter[l][2]), 0>>
      OBVIOUS
    <3>2. t \in loop /\ t[1] = l
      BY <1>1, <3>1
    <3> QED BY <2>1, <3>2
  <2> QED BY <2>2, <2>3
<1> HIDE DEF terms, loop, built, shifted, X, Y
<1>8. Work(terms) = loop
  <2>1. loop = {<<l, shifted(l), 0>> : l \in built}
    BY <1>1, <1>6
  <2>2. ASSUME NEW x \in Work(terms) PROVE x \in loop
    <3>1. PICK t \in terms : x = <<t[2], t[3], t[4]>>
      BY DEF Work
    <3>2. PICK l \in built : t = <<l, l, shifted(l), 0>>
      BY <1>7
    <3> QED BY <2>1, <3>1, <3>2
  <2>3. ASSUME NEW x \in loop PROVE x \in Work(terms)
    <3>1. PICK l \in built : x = <<l, shifted(l), 0>>
      BY <2>1
    <3>2. <<l, l, shifted(l), 0>> \in terms
      BY <1>7
    <3> QED BY <3>1, <3>2 DEF Work
  <2> QED BY <2>2, <2>3
<1>9. PICK m : m = 17 * (w * h)
  OBVIOUS
<1>10. m \in Nat
  BY <1>9
<1>11. terms \subseteq Upto(4) \X Upto(4) \X Upto(m) \X {0} /\ \A t, u \in terms : t[2] = u[2] => t[1] = u[1]
  BY <1>6, <1>7, <1>9
<1>12. IsFiniteSet(Upto(4)) /\ IsFiniteSet({0})
  BY UptoFinite, FS_Singleton
<1>13. MatchesLoop(LaunchOf(name, terms, Work(terms), 4, m))
  BY <1>10, <1>11, <1>12, LaunchMatches
<1> QED BY <1>8, <1>9, <1>13 DEF terms, loop, X, Y

-----------------------------------------------------------------------------
LEMMA PixelLaunchesMatch ==
  ASSUME NEW l \in PixelLaunches
  PROVE  MatchesLoop(l)
<1>1. PICK s \in ImageSizes :
        LET w == s[1]  h == s[2]  n == s[1] * s[2] IN
        \/ l = LaunchOf("k_nv12_to_rgb", k_nv12_to_rgb(2 * w, 2 * h), nv12_to_rgb_cpu(2 * w, 2 * h), 12 * n, 6 * n)
        \/ l = LaunchOf("k_extract_y", k_extract_y(n), Elementwise(n), n, n)
        \/ l = LaunchOf("k_motion_history", k_motion_history(n), Elementwise(n), n, n)
        \/ l = LaunchOf("k_bilateral_clamped", k_bilateral_clamped(w, h, 1), bilateral_cpu(w, h, 1), n, n)
        \/ l = LaunchOf("k_bilateral_texture", k_bilateral_texture(w, h, 2), bilateral_cpu(w, h, 2), n, n)
        \/ l = LaunchOf("k_sobel", k_sobel(w, h), harris_response_cpu(w, h)[1], n, n)
        \/ l = LaunchOf("k_harris_response", k_harris_response(w, h), harris_response_cpu(w, h)[2], n, n)
        \/ l = LaunchOf("k_downsample", k_downsample(w, h), downsample_cpu(w, h), n, n)
        \/ l = LaunchOf("k_scale_points", k_scale_points(n), Elementwise(n), n, n)
        \/ l = LaunchOf("k_klt_level", k_klt_level(4 * w, 4 * h, 4, 2), LevelSizes(4 * w, 4 * h, 4, 2), 4, 17 * n)
        \/ \E d \in ImageSizes : l = LaunchOf("k_resize_normalize_chw", k_resize_normalize_chw(w, h, d[1], d[2]),
                                              preprocess_cpu(w, h, d[1], d[2]), 3 * d[1] * d[2], 3 * n)
  BY DEF PixelLaunches
<1> DEFINE w == s[1]
           h == s[2]
<1>2. \A d \in ImageSizes : d[1] \in Nat \ {0} /\ d[2] \in Nat \ {0}
  BY SizesAssumption
<1>3. PICK n : n = w * h
  OBVIOUS
<1>4. n \in Nat /\ w \in Nat \ {0} /\ h \in Nat \ {0} /\ n = w * h
  BY <1>2, <1>3
<1> HIDE DEF w, h
<1>5. CASE \E name : l = LaunchOf(name, k_nv12_to_rgb(2 * w, 2 * h), nv12_to_rgb_cpu(2 * w, 2 * h), 12 * n, 6 * n)
  BY <1>4, <1>5, Nv12Matches
<1>6. CASE \E name : l = LaunchOf(name, OneThreadEach(n, Block), Elementwise(n), n, n)
  BY <1>4, <1>6, ElementwiseMatches
<1>7. CASE \E name : \E r \in {1, 2} :
             l = LaunchOf(name, StencilTerms(Grid2(w, h), r, w, w, h, 1), bilateral_cpu(w, h, r), n, n)
  <2>0. PICK name : \E r \in {1, 2} :
          l = LaunchOf(name, StencilTerms(Grid2(w, h), r, w, w, h, 1), bilateral_cpu(w, h, r), n, n)
    BY <1>7
  <2>1. PICK r \in {1, 2} :
          l = LaunchOf(name, StencilTerms(Grid2(w, h), r, w, w, h, 1), bilateral_cpu(w, h, r), n, n)
    BY <2>0
  <2>2. bilateral_cpu(w, h, r) = Work(StencilTerms(Pixels(w, h), r, w, w, h, 1))
    BY DEF bilateral_cpu, Work
  <2>3. r \in Nat /\ 1 \in Nat /\ w * h <= n
    BY <1>4
  <2>4. MatchesLoop(LaunchOf(name, StencilTerms(Grid2(w, h), r, w, w, h, 1),
                             Work(StencilTerms(Pixels(w, h), r, w, w, h, 1)), n, n))
    BY <1>4, <2>3, StencilMatches
  <2> QED BY <2>1, <2>2, <2>4
<1>8. CASE \E name : l = LaunchOf(name, k_downsample(w, h), downsample_cpu(w, h), n, n)
  <2>1. PICK name : l = LaunchOf(name, k_downsample(w, h), downsample_cpu(w, h), n, n)
    BY <1>8
  <2>2. PICK a, b : a = Half(w) /\ b = Half(h)
    OBVIOUS
  <2>3. a \in Nat \ {0} /\ a <= w /\ b \in Nat \ {0} /\ b <= h
    BY <1>4, <2>2 DEF Half
  <2>4. a * b <= n
    <3>1. a * b <= w * b /\ b * w <= h * w
      BY <1>4, <2>3, OrderedProducts
    <3>2. w * b = b * w /\ h * w = w * h
      BY <1>4, <2>3
    <3>3. PICK i, j : i = a * b /\ j = b * w
      OBVIOUS
    <3>4. i \in Int /\ j \in Int
      BY <1>4, <2>3, <3>3
    <3> QED BY <1>4, <3>1, <3>2, <3>3, <3>4
  <2>5. MatchesLoop(LaunchOf(name, StencilTerms(Grid2(a, b), 2, a, w, h, 2),
                             Work(StencilTerms(Pixels(a, b), 2, a, w, h, 2)), n, n))
    <3>1. w * h <= n /\ 2 \in Nat
      BY <1>4
    <3> QED BY <1>4, <2>3, <2>4, <3>1, StencilMatches
  <2>6. /\ k_downsample(w, h) = StencilTerms(Grid2(a, b), 2, a, w, h, 2)
        /\ downsample_cpu(w, h) = Work(StencilTerms(Pixels(a, b), 2, a, w, h, 2))
    BY <2>2 DEF k_downsample, downsample_cpu, Work
  <2> QED BY <2>1, <2>5, <2>6
<1>9. CASE \E name : \E b \in {1, 2} : \E window \in SUBSET Window(b) :
             l = LaunchOf(name, BorderedTerms(Grid2(w, h), w, h, b, window), BorderedLoop(w, h, b, window), n, n)
  <2>0. PICK name : \E b \in {1, 2} : \E window \in SUBSET Window(b) :
             l = LaunchOf(name, BorderedTerms(Grid2(w, h), w, h, b, window), BorderedLoop(w, h, b, window), n, n)
    BY <1>9
  <2>1. PICK b \in {1, 2} : \E window \in SUBSET Window(b) :
             l = LaunchOf(name, BorderedTerms(Grid2(w, h), w, h, b, window), BorderedLoop(w, h, b, window), n, n)
    BY <2>0
  <2>3. PICK window \in SUBSET Window(b) :
             l = LaunchOf(name, BorderedTerms(Grid2(w, h), w, h, b, window), BorderedLoop(w, h, b, window), n, n)
    BY <2>1
  <2>2. b \in Nat
    OBVIOUS
  <2> QED BY <1>4, <2>2, <2>3, BorderedMatches
<1>10. CASE \E name : l = LaunchOf(name, k_klt_level(4 * w, 4 * h, 4, 2), LevelSizes(4 * w, 4 * h, 4, 2), 4, 17 * n)
  BY <1>4, <1>10, LevelsMatch
<1>11. CASE \E name : \E d \in ImageSizes :
             l = LaunchOf(name, k_resize_normalize_chw(w, h, d[1], d[2]),
                          preprocess_cpu(w, h, d[1], d[2]), 3 * d[1] * d[2], 3 * n)
  <2>1. PICK name : \E d \in ImageSizes :
             l = LaunchOf(name, k_resize_normalize_chw(w, h, d[1], d[2]),
                          preprocess_cpu(w, h, d[1], d[2]), 3 * d[1] * d[2], 3 * n)
    BY <1>11
  <2>2. PICK d \in ImageSizes :
             l = LaunchOf(name, k_resize_normalize_chw(w, h, d[1], d[2]),
                          preprocess_cpu(w, h, d[1], d[2]), 3 * d[1] * d[2], 3 * n)
    BY <2>1
  <2>3. PICK a, b : a = d[1] /\ b = d[2]
    OBVIOUS
  <2>4. a \in Nat \ {0} /\ b \in Nat \ {0}
    BY <1>2, <2>3
  <2>5. MatchesLoop(LaunchOf(name, k_resize_normalize_chw(w, h, a, b), preprocess_cpu(w, h, a, b),
                             3 * a * b, 3 * (w * h)))
    BY <1>4, <2>4, ResizeMatches
  <2> QED BY <1>4, <2>2, <2>3, <2>5
<1>12. Window(1) \subseteq Window(2) /\ Ring \subseteq Window(1)
  BY DEF Window, Ring
<1>13. /\ k_sobel(w, h) = BorderedTerms(Grid2(w, h), w, h, 1, Ring)
       /\ harris_response_cpu(w, h)[1] = BorderedLoop(w, h, 1, Ring)
       /\ k_harris_response(w, h) = BorderedTerms(Grid2(w, h), w, h, 2, Window(1))
       /\ harris_response_cpu(w, h)[2] = BorderedLoop(w, h, 2, Window(1))
  BY DEF k_sobel, k_harris_response, harris_response_cpu
<1>14. /\ k_extract_y(n) = OneThreadEach(n, Block) /\ k_motion_history(n) = OneThreadEach(n, Block)
       /\ k_scale_points(n) = OneThreadEach(n, Block)
  BY DEF k_extract_y, k_motion_history, k_scale_points
<1>15. \A r : /\ k_bilateral_clamped(w, h, r) = StencilTerms(Grid2(w, h), r, w, w, h, 1)
              /\ k_bilateral_texture(w, h, r) = StencilTerms(Grid2(w, h), r, w, w, h, 1)
  BY DEF k_bilateral_clamped, k_bilateral_texture
<1> QED BY <1>1, <1>3, <1>5, <1>6, <1>7, <1>8, <1>9, <1>10, <1>11, <1>12, <1>13, <1>14, <1>15, Zenon DEF w, h

\* Whatever the sizes of the images, the blocks and the tiles: the kernels of
\* 02-image-embed, 05-video and 11-optical-flow do the work of the sequential loops,
\* every piece of it once, and no index leaves its array.
THEOREM PixelKernelsMatchLoops == PixelSpec => []KernelsMatchLoops
<1> DEFINE Inv == launched \in {NoLaunch} \cup PixelLaunches
<1>1. GridInit => Inv
  BY DEF GridInit
<1>2. Inv /\ [GridNext(PixelLaunches)]_gridVars => Inv'
  BY DEF GridNext, gridVars
<1>3. Inv => KernelsMatchLoops
  <2> SUFFICES ASSUME Inv PROVE MatchesLoop(launched)
    BY DEF MatchesLoop, KernelsMatchLoops, Work
  <2>1. CASE launched = NoLaunch
    BY <2>1 DEF NoLaunch, LaunchOf, MatchesLoop, Work
  <2>2. CASE launched \in PixelLaunches
    BY <2>2, PixelLaunchesMatch
  <2> QED BY <2>1, <2>2
<1> QED BY <1>1, <1>2, <1>3, PTL DEF PixelSpec
=============================================================================
