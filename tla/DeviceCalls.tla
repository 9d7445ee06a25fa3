---------------------------- MODULE DeviceCalls ----------------------------
(***************************************************************************)
(* Device memory and error reporting as the host code uses them: the       *)
(* calling convention of common/include/cu/check.hpp.  Every CUDA call of  *)
(* a function may fail; CU_CHECK turns a failure into an exception, and    *)
(* whatever the function had allocated is then released by a destructor,   *)
(* by the catch block of a constructor, or by nobody.                      *)
(*                                                                         *)
(* A function is the set of sequences of device operations its control     *)
(* flow allows (HostCalls lists them); this module gives the operations    *)
(* their meaning.  One object of one class is used at a time.              *)
(***************************************************************************)
EXTENDS Integers, Sequences, FiniteSets, TLC

CONSTANTS
    Functions,     \* the functions of the program, as HostFunction records
    ReallocFails,  \* may an allocation fail whose pointer holds a freed address?
    GivenUp        \* classes whose objects are destroyed when a method throws
ASSUME DeviceAssumption == ReallocFails \in BOOLEAN /\ IsFiniteSet(GivenUp)
\* A name stands for one function, and what it does is a sequence of operations.
OperationsOf(p) == {p[i] : i \in DOMAIN p}
ASSUME FunctionsAssumption ==
    /\ \A f, g \in Functions : f.name = g.name => f = g
    /\ \A f \in Functions :
         /\ f.name \notin {"idle", "none"}
         /\ \A p \in f.paths : p \in Seq(OperationsOf(p))

(***************************************************************************)
(* Operations.  Control flow is built from them: P ** Q is P, then Q;      *)
(* P \cup Q is a branch; Maybe and Loop are an if and a loop.              *)
(***************************************************************************)
P ** Q == {p \o q : p \in P, q \in Q}
Nothing == {<<>>}
Maybe(P) == Nothing \cup P
Repeat(P) == P \cup (P ** P)     \* once or more
Loop(P) == Nothing \cup Repeat(P)

OpOf(kind, uses, fills) == [kind |-> kind, uses |-> uses, fills |-> fills]
Each(kind, bufs) == {[i \in DOMAIN bufs |-> OpOf(kind, {bufs[i]}, {})]}
Malloc(bufs) == Each("malloc", bufs)
Put(bufs) == Each("put", bufs)        \* a copy to the buffer, or cudaMemset
Get(bufs) == Each("get", bufs)        \* a copy to the host
HostWrite(bufs) == Each("write", bufs)   \* the host stores into pinned or managed
HostRead(bufs) == Each("read", bufs)     \* memory, or loads from it
Free(bufs) == Each("free", bufs)      \* cudaFree: accepts a null pointer
Null(bufs) == Each("null", bufs)      \* p = nullptr
Raise(flag) == Each("flag", <<flag>>) \* a flag becomes true
Move(from, to) == {<<OpOf("move", {from}, {to})>>}   \* to = from; from goes out of scope
Touch(bufs) == Each("touch", bufs)    \* accumulates into what may be garbage
AlreadySet(bufs) == Each("holding", bufs)   \* the branch where the pointers are set
NeedsSet(bufs) == Each("needs", bufs)       \* throws unless the pointers are set
LaunchKernel(reads, fills) == {<<OpOf("launch", reads, fills)>>}
Api == {<<OpOf("api", {}, {})>>}             \* any other CU_CHECKed call
Require == {<<OpOf("require", {}, {})>>}     \* a check that throws std::exception
LastError == {<<OpOf("lasterror", {}, {})>>} \* CU_CHECK(cudaGetLastError())
CheckKernel == LastError ** Api              \* cu::check_kernel
Kernel(reads, fills) == LaunchKernel(reads, fills) ** CheckKernel
Timed(P) == Api ** P ** Api                  \* cu::EventTimer around P
Benchmark(P) == P ** Api ** Api ** P ** Api  \* cu::benchmark: warm up, then time

\* kind: "free" function, "ctor", "dtor" or "method" of class; cleans: what the
\* function has allocated is released when it throws (RAII, or a catch block).
HostFunction(name, class, kind, cleans, paths) ==
    [name |-> name, class |-> class, kind |-> kind, cleans |-> cleans, paths |-> paths]

BuffersOf(f) == UNION {UNION {p[i].uses \cup p[i].fills : i \in DOMAIN p} : p \in f.paths}
\* The pointers a class keeps: the ones its destructor releases.
Fields ==
    [c \in {f.class : f \in Functions} |->
        UNION {BuffersOf(f) : f \in {g \in Functions : g.class = c /\ g.kind = "dtor"}}]
Fn == [n \in {f.name : f \in Functions} |-> CHOOSE f \in Functions : f.name = n]

-----------------------------------------------------------------------------
VARIABLES
    object,    \* the class of the object that lives, or "none"
    running,   \* the name of the function in progress, or "idle"
    todo,      \* its remaining operations
    mem,       \* device pointers that are not null: "raw", "data" or "dangling"
    lost,      \* memory the last call left that nobody points to, and how it left
    unread     \* the function whose error cudaGetLastError would return, or "none"
deviceVars == <<object, running, todo, mem, lost, unread>>

Pointer(b) == IF b \in DOMAIN mem THEN mem[b] ELSE "null"
Allocated(b) == Pointer(b) \in {"raw", "data"}
Without(bufs) == [b \in DOMAIN mem \ bufs |-> mem[b]]

DeviceInit ==
    /\ object = "none" /\ running = "idle" /\ todo = <<>>
    /\ mem = <<>> /\ lost = {} /\ unread = "none"

CallBegin(f) ==
    /\ running = "idle"
    /\ object = IF f.kind \in {"ctor", "free"} THEN "none" ELSE f.class
    /\ running' = f.name /\ todo' \in f.paths /\ lost' = {}
    /\ UNCHANGED <<object, mem, unread>>

\* What a successful operation does to the pointers.
Effect(op) ==
    LET fill == [b \in op.fills |-> "data"]
        set(value) == [b \in op.uses |-> value]
    IN CASE op.kind = "malloc" -> set("raw") @@ mem
         [] op.kind \in {"put", "write", "flag"} -> set("data") @@ mem
         [] op.kind = "launch" -> fill @@ mem
         [] op.kind = "free" -> [b \in op.uses \cap DOMAIN mem |-> "dangling"] @@ mem
         [] op.kind = "null" -> Without(op.uses)
         [] op.kind = "move" -> [b \in op.fills |-> mem[CHOOSE a \in op.uses : TRUE]] @@ Without(op.uses)
         [] OTHER -> mem

Operate ==
    /\ todo # <<>>
    /\ Head(todo).kind = "lasterror" => unread = "none"
    /\ Head(todo).kind \in {"holding", "needs"} => \A b \in Head(todo).uses : Pointer(b) # "null"
    /\ todo' = Tail(todo)
    /\ mem' = Effect(Head(todo))
    /\ UNCHANGED <<object, running, lost, unread>>

\* A launch that fails returns nothing: the error waits for whoever asks next.
LaunchFails ==
    /\ todo # <<>> /\ Head(todo).kind = "launch"
    /\ todo' = Tail(todo)
    /\ unread' = running
    /\ UNCHANGED <<object, running, mem, lost>>

\* Leaving a function: its locals go, and memory only they pointed to is lost
\* unless the function f cleans up.  The class pointers of a constructor that
\* throws are its locals too.
Leave(f, how) ==
    LET destroyed == how = "throw" /\ f.kind = "method" /\ f.class \in GivenUp
        ends == f.kind = "dtor" \/ destroyed \/ (f.kind = "ctor" /\ how = "throw")
        locals == IF f.kind = "free" THEN DOMAIN mem ELSE DOMAIN mem \ Fields[f.class]
        dead == IF ends THEN DOMAIN mem ELSE locals
    IN /\ mem' = Without(dead)
       /\ lost' =
            IF how = "throw" /\ f.cleans THEN {}
            ELSE {<<running, b, how>> : b \in {x \in IF destroyed THEN locals ELSE dead : Allocated(x)}}
       /\ object' = IF ends THEN "none" ELSE IF f.kind = "ctor" THEN f.class ELSE object
       /\ running' = "idle" /\ todo' = <<>>

\* Mutant: the error stays to be read by the next check.
ConsumeNothing == unread' = running

\* cu::check reads the error it throws for, so that nobody else reports it.
ConsumeError == unread' = "none"

FunctionThrows ==
    /\ todo # <<>>
    /\ \/ /\ Head(todo).kind \in {"malloc", "put", "get", "api"}
          /\ ConsumeError
          /\ \/ ReallocFails \/ Head(todo).kind # "malloc"
             \/ \A b \in Head(todo).uses : Pointer(b) # "dangling"
       \/ /\ \/ Head(todo).kind = "require"
             \/ Head(todo).kind = "needs" /\ \E b \in Head(todo).uses : Pointer(b) = "null"
          /\ UNCHANGED unread
       \/ Head(todo).kind = "lasterror" /\ unread # "none" /\ ConsumeError
    /\ \E f \in Functions : f.name = running /\ Leave(f, "throw")

FunctionReturns ==
    /\ running # "idle" /\ todo = <<>>
    /\ \E f \in Functions : f.name = running /\ Leave(f, "return")
    /\ UNCHANGED unread

DeviceNext == (\E f \in Functions : CallBegin(f)) \/ Operate \/ LaunchFails \/ FunctionThrows \/ FunctionReturns
DeviceSpec == DeviceInit /\ [][DeviceNext]_deviceVars

-----------------------------------------------------------------------------
\* No function uses a device pointer that is null or freed, overwrites one that
\* still owns memory, frees memory twice, or copies out or computes from memory
\* nobody has written, whatever calls have failed before; a kernel that did not
\* run because its launch failed unseen excuses only the last of these.
MemorySafe ==
    todo # <<>> =>
    LET op == Head(todo) IN
    /\ op.kind = "malloc" => \A b \in op.uses : ~Allocated(b)
    /\ op.kind = "move" => \A b \in op.fills : ~Allocated(b)
    /\ op.kind = "free" => \A b \in op.uses : Pointer(b) # "dangling"
    /\ op.kind \in {"put", "touch", "write", "get", "read", "launch"} =>
            \A b \in op.uses \cup op.fills : Allocated(b)
    /\ op.kind \in {"get", "read", "launch"} /\ unread = "none" =>
            \A b \in op.uses : Pointer(b) = "data"

\* Device memory is lost only by a function that holds it in plain local
\* pointers and is left by an exception: never on a normal return, never by a
\* constructor, a destructor or a function whose buffers have destructors.
NothingLost == \A l \in lost : l[3] = "throw" /\ ~Fn[l[1]].cleans /\ Fn[l[1]].kind \in {"free", "method"}

\* An error that nobody has read when a call ends was left by a launch that the
\* call may leave unchecked: nothing that was thrown for stays behind to be
\* reported by the next check_kernel as a failure of its own kernel.
Unchecked(f) == \E p \in f.paths : \E i \in DOMAIN p :
    /\ p[i].kind = "launch"
    /\ \A j \in DOMAIN p : j > i /\ p[j].kind = "lasterror" =>
            \E k \in i..j : p[k].kind \in {"require", "needs"}
ErrorsAttributed == running = "idle" => unread = "none" \/ Unchecked(Fn[unread])
=============================================================================
