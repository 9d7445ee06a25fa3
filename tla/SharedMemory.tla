---------------------------- MODULE SharedMemory ----------------------------
(***************************************************************************)
(* The shared memory of a thread block.  The parts of a block that run     *)
(* apart (its warps, or the lanes of a block of one warp) execute the same *)
(* kernel at their own speed and meet only at __syncthreads.  A slot is a  *)
(* shared array; each runner stores its own part of it, and what it stores *)
(* is tagged with the round the data belongs to.  A load names the round   *)
(* whose data it is meant to see.  BlockKernels writes the kernels down.   *)
(***************************************************************************)
EXTENDS Integers, Sequences, FiniteSets

CONSTANTS
    Runners,       \* the warps or lanes of a block: 0 .. count - 1
    BlockKernels   \* records: a name, and for every runner its operations
ASSUME RunnersAssumption == IsFiniteSet(Runners) /\ 0 \in Runners
\* A kernel gives every runner a sequence of operations.
OperationsIn(k) == UNION {{k.code[r][i] : i \in DOMAIN k.code[r]} : r \in Runners}
ASSUME KernelsAssumption == \A k \in BlockKernels :
    /\ k.name # "none" /\ k.code \in [Runners -> Seq(OperationsIn(k))]
    /\ \A o \in OperationsIn(k) : o.tag \in Int /\ o.parts \subseteq Runners

(* Operations, as sequences that are joined with \o. *)
OpRec(op, slot, tag, parts) == <<[op |-> op, slot |-> slot, tag |-> tag, parts |-> parts]>>
Store(slot, tag) == OpRec("store", slot, tag, {})
Load(slot, tag, parts) == OpRec("load", slot, tag, parts)
LoadAll(slot, tag) == Load(slot, tag, Runners)
Sync == OpRec("sync", "none", 0, {})               \* __syncthreads, block.sync()
CopyAsync(slot, tag) == OpRec("copy", slot, tag, {})   \* cg::memcpy_async
Await == OpRec("await", "none", 0, {})             \* the wait of cg::wait
Empty == <<>>
Garbage == -1   \* the tag of what was there before the kernel

-----------------------------------------------------------------------------
VARIABLES
    block,     \* the kernel the block runs, or "none"
    code,      \* what each runner has still to execute
    shared,    \* by slot and runner: the tag of what that part holds
    arrived,   \* barriers each runner has reached
    waits,     \* is the runner inside a barrier?
    flying     \* by runner: the copies that have been issued and not landed
blockVars == <<block, code, shared, arrived, waits, flying>>

Next1(r) == Head(code[r])
Does(r, op) == code[r] # <<>> /\ Next1(r).op = op
Step(r) == code' = [code EXCEPT ![r] = Tail(@)]

BlockInit ==
    /\ block = "none"
    /\ code = [r \in Runners |-> <<>>] /\ shared = <<>>
    /\ arrived = [r \in Runners |-> 0] /\ waits = [r \in Runners |-> FALSE]
    /\ flying = [r \in Runners |-> {}]

BlockBegin(k) ==
    /\ block = "none"
    /\ block' = k.name /\ code' = k.code
    /\ shared' = [s \in UNION {{k.code[r][i].slot : i \in DOMAIN k.code[r]} : r \in Runners} |->
                    [r \in Runners |-> Garbage]]
    /\ UNCHANGED <<arrived, waits, flying>>

StoreStep(r) ==
    /\ Does(r, "store")
    /\ shared' = [shared EXCEPT ![Next1(r).slot][r] = Next1(r).tag]
    /\ Step(r) /\ UNCHANGED <<block, arrived, waits, flying>>

LoadStep(r) == Does(r, "load") /\ Step(r) /\ UNCHANGED <<block, shared, arrived, waits, flying>>

CopyStep(r) ==
    /\ Does(r, "copy")
    /\ flying' = [flying EXCEPT ![r] = @ \cup {<<Next1(r).slot, Next1(r).tag>>}]
    /\ Step(r) /\ UNCHANGED <<block, shared, arrived, waits>>
\* The copy engine writes when it likes.
LandStep(r) ==
    \E c \in flying[r] :
        /\ shared' = [shared EXCEPT ![c[1]][r] = c[2]]
        /\ flying' = [flying EXCEPT ![r] = @ \ {c}]
        /\ UNCHANGED <<block, code, arrived, waits>>
AwaitStep(r) ==
    /\ Does(r, "await") /\ flying[r] = {}
    /\ Step(r) /\ UNCHANGED <<block, shared, arrived, waits, flying>>

\* A barrier opens when every runner has reached it.
ArriveStep(r) ==
    /\ Does(r, "sync") /\ ~waits[r]
    /\ waits' = [waits EXCEPT ![r] = TRUE] /\ arrived' = [arrived EXCEPT ![r] = @ + 1]
    /\ UNCHANGED <<block, code, shared, flying>>
PassStep(r) ==
    /\ Does(r, "sync") /\ waits[r] /\ \A s \in Runners : arrived[s] >= arrived[r]
    /\ waits' = [waits EXCEPT ![r] = FALSE]
    /\ Step(r) /\ UNCHANGED <<block, shared, arrived, flying>>

RunnerStep(r) ==
    \/ StoreStep(r) \/ LoadStep(r) \/ CopyStep(r) \/ LandStep(r)
    \/ AwaitStep(r) \/ ArriveStep(r) \/ PassStep(r)
BlockNext == (\E k \in BlockKernels : BlockBegin(k)) \/ (\E r \in Runners : RunnerStep(r))
BlockSpec == BlockInit /\ [][BlockNext]_blockVars
\* The hardware schedules every warp of a resident block.
BlockFairness == \A r \in Runners : WF_blockVars(RunnerStep(r))

-----------------------------------------------------------------------------
\* Whenever a runner is about to load from shared memory, every part it reads
\* holds the data of the round the load is meant for: it is neither missing (a
\* slower runner has not stored it, a copy has not landed) nor overwritten (a
\* faster runner is already in the next round).
LoadsSeeTheirRound ==
    \A r \in Runners : Does(r, "load") =>
        \A p \in Next1(r).parts : shared[Next1(r).slot][p] = Next1(r).tag

(* What the text of a kernel says about the order of its operations, however *)
(* its runners are scheduled.                                                *)
\* The barriers in front of operation i of program c.
Barriers(c, i) == Cardinality({j \in 1 .. (i - 1) : c[j].op = "sync"})
\* Operation j of runner p is executed before operation i of runner r.
Precedes(k, p, j, r, i) ==
    IF p = r THEN j < i ELSE Barriers(k.code[p], j) < Barriers(k.code[r], i)
Writes(c, slot) == {j \in DOMAIN c : c[j].op \in {"store", "copy"} /\ c[j].slot = slot}
\* Once one of these operations is executed, what was written at j has landed.
Landing(c, j) ==
    {a \in DOMAIN c : IF c[j].op = "store" THEN a = j ELSE a > j /\ c[a].op = "await"}
\* Load i of runner r finds in the part of runner p what that one writes at j:
\* it has landed, earlier writes had landed before, and later ones come after the load.
Supplies(k, p, j, r, i) ==
    LET c == k.code[p] IN
    /\ \E a \in Landing(c, j) : Precedes(k, p, a, r, i)
    /\ \A w \in Writes(c, c[j].slot) \ {j} :
         (\E a \in Landing(c, w) : a < j) \/ Precedes(k, r, i, p, w)
Ordered(k) ==
    \A r \in Runners : \A i \in DOMAIN k.code[r] :
        LET load == k.code[r][i] IN
        load.op = "load" => \A p \in load.parts : \E j \in Writes(k.code[p], load.slot) :
            k.code[p][j].tag = load.tag /\ Supplies(k, p, j, r, i)
\* In every kernel that is launched the barriers order each load behind the
\* write it is meant for and before the next write to the same part.
BarriersOrderLoads ==
    \A k \in BlockKernels : block = k.name /\ code = k.code => Ordered(k)
=============================================================================
