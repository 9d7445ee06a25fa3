------------------------------ MODULE IvfIndex ------------------------------
(***************************************************************************)
(* IvfFlatIndex of 09-vector-ann: vectors are kept in one list per cell,   *)
(* a search scans the lists of the nprobe nearest centroids.  A vector is  *)
(* a number and the metric the distance of numbers; the centroids that     *)
(* training ends with are arbitrary.                                       *)
(***************************************************************************)
EXTENDS Integers, FiniteSets

CONSTANTS
    NList,      \* cells
    Coords,     \* the values of vectors
    MaxVectors, \* vectors of one add()
    kMaxK       \* largest k
ASSUME IvfAssumption == {NList, MaxVectors, kMaxK} \subseteq Nat \ {0} /\ Coords \subseteq Nat

Cells == 0..(NList - 1)
kFar == 1000
Distance(a, b) == IF a < b THEN b - a ELSE a - b

VARIABLES
    trained, centroids,                \* is_trained(); by cell
    db,                                \* the vectors, by id from 0
    list_start, list_count, list_ids,  \* the inverted lists
    query                              \* the last search: [q, k, nprobe, top], or NoQuery
ivfVars == <<trained, centroids, db, list_start, list_count, list_ids, query>>

NoQuery == [q |-> 0, k |-> 0, nprobe |-> 0, top |-> <<>>]
IvfInit ==
    /\ trained = FALSE /\ centroids = [c \in Cells |-> 0]
    /\ db = <<>> /\ list_ids = <<>> /\ query = NoQuery
    /\ list_start = [c \in Cells |-> 0] /\ list_count = [c \in Cells |-> 0]

\* train() replaces the centroids and touches nothing else.
IvfTrain ==
    /\ trained' = TRUE
    /\ \E cs \in [Cells -> Coords] : centroids' = cs
    /\ query' = NoQuery
    /\ UNCHANGED <<db, list_start, list_count, list_ids>>

\* The first of the nearest centroids.
Nearest(v, cells) ==
    CHOOSE c \in cells : \A d \in cells :
        \/ Distance(v, centroids[c]) < Distance(v, centroids[d])
        \/ Distance(v, centroids[c]) = Distance(v, centroids[d]) /\ c <= d
k_assign(v) == Nearest(v, Cells)

(* add(): a counting sort by cell. *)
Counted(vs) == [c \in Cells |-> Cardinality({i \in DOMAIN vs : k_assign(vs[i]) = c})]
Starts(count) ==
    LET start[c \in Cells] == IF c = 0 THEN 0 ELSE start[c - 1] + count[c - 1]
    IN start
\* cursor[assign[i]]++: as many places in as there are earlier vectors of the cell.
Place(vs, i) ==
    Starts(Counted(vs))[k_assign(vs[i])]
    + Cardinality({j \in DOMAIN vs : j < i /\ k_assign(vs[j]) = k_assign(vs[i])})
Placed(vs) == [p \in DOMAIN vs |-> CHOOSE i \in DOMAIN vs : Place(vs, i) = p]
IvfAdd ==
    /\ trained
    /\ \E n \in 1..MaxVectors : \E vs \in [0..(n - 1) -> Coords] :
        /\ db' = vs /\ list_ids' = Placed(vs)
        /\ list_count' = Counted(vs) /\ list_start' = Starts(Counted(vs))
    /\ query' = NoQuery
    /\ UNCHANGED <<trained, centroids>>

(* Searching.  The k best so far, sorted; a new one goes behind its equals, *)
(* those behind it move up and the last is dropped.                         *)
Entry(d, id) == [d |-> d, id |-> id]
Far(k) == [i \in 1..k |-> Entry(kFar, -1)]
\* Mutant: a nearer one takes the last place and is not moved up.
topk_insert_last(best, e) ==
    [i \in DOMAIN best |-> IF i + 1 \in DOMAIN best \/ best[i].d < e.d THEN best[i] ELSE e]
topk_insert(best, e) ==
    LET farther == {i \in DOMAIN best : best[i].d > e.d}
    IN [i \in DOMAIN best |->
            IF i \notin farther THEN best[i] ELSE IF i - 1 \in farther THEN best[i - 1] ELSE e]
\* The n ids from a place on are compared one after the other.
Scan(ids, from, n, q, best) ==
    LET top[j \in 0..n] ==
            IF j = 0 THEN best
            ELSE topk_insert(top[j - 1], Entry(Distance(q, db[ids[from + j - 1]]), ids[from + j - 1]))
    IN top[n]

\* Repeatedly the nearest centroid; one that has been taken is consumed.
k_select_probes(q, nprobe) ==
    LET left[p \in 0..nprobe] ==
            IF p = 0 THEN Cells ELSE left[p - 1] \ {Nearest(q, left[p - 1])}
    IN [p \in 1..nprobe |-> Nearest(q, left[p - 1])]
k_search_ivf(q, k, nprobe) ==
    LET cell == k_select_probes(q, nprobe)
        top[p \in 0..nprobe] ==
            IF p = 0 THEN Far(k)
            ELSE Scan(list_ids, list_start[cell[p]], list_count[cell[p]], q, top[p - 1])
    IN top[nprobe]
k_search_brute(q, k) == Scan([i \in DOMAIN db |-> i], 0, Cardinality(DOMAIN db), q, Far(k))

IvfSearch ==
    /\ db # <<>>
    /\ \E q \in Coords, k \in 1..kMaxK, nprobe \in 1..NList :
        query' = [q |-> q, k |-> k, nprobe |-> nprobe, top |-> k_search_ivf(q, k, nprobe)]
    /\ UNCHANGED <<trained, centroids, db, list_start, list_count, list_ids>>

IvfNext == IvfTrain \/ IvfAdd \/ IvfSearch
IvfSpec == IvfInit /\ [][IvfNext]_ivfVars

-----------------------------------------------------------------------------
\* A search returns vectors that are in the index, each once, with their
\* distances, nearest first, padded with -1; one that probes every cell returns
\* what the exhaustive scan does, which are the k nearest - also when the index
\* was trained again after the vectors had been added to the old cells.
SearchesSound ==
    query.k > 0 =>
    LET top == query.top
        real == {r \in DOMAIN top : top[r].id # -1}
        as_near(d) == {i \in DOMAIN db : Distance(query.q, db[i]) <= d}
    IN /\ DOMAIN top = 1..query.k
       /\ \A r \in real : top[r].id \in DOMAIN db /\ top[r].d = Distance(query.q, db[top[r].id])
       /\ \A r, s \in real : r # s => top[r].id # top[s].id
       /\ \A r \in 1..(query.k - 1) : top[r].d <= top[r + 1].d
       /\ query.nprobe = NList =>
            /\ \A r \in DOMAIN top : top[r].d = k_search_brute(query.q, query.k)[r].d
            /\ \A r \in real : Cardinality(as_near(top[r].d - 1)) < r
            /\ Cardinality(real) < query.k => Cardinality(real) = Cardinality(DOMAIN db)
=============================================================================
