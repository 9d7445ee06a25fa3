----------------------------- MODULE LlmRuntime -----------------------------
(***************************************************************************)
(* Runtime::step and class Sequence of 19-llm-engine: several host threads *)
(* create, fork, truncate and destroy sequences whose pages come from one  *)
(* PageAllocator, while one of them drives step() over a batch.            *)
(*                                                                         *)
(* Every action makes at most one call of the allocator, the only thing    *)
(* the code synchronizes; whatever else a thread does between two calls is *)
(* joined to one of them.  A Sequence object belongs to one thread at a    *)
(* time except that the header allows forks "from any thread":             *)
(* ForkDuringStep says whether a caller uses that while a step that        *)
(* includes the sequence is running.                                       *)
(*                                                                         *)
(* A page holds PageTokens slots.  The K and V buffers of all layers are   *)
(* addressed and copied alike, so one abstract slot stands for them all.   *)
(***************************************************************************)
EXTENDS PageAllocator, FiniteSets

CONSTANTS
    Threads,            \* host threads
    SeqIds,             \* handles of Sequence objects
    Tokens,             \* token ids below the vocabulary size
    Junk,               \* what an unwritten slot holds
    None,               \* no sequence
    PageTokens,         \* RuntimeOptions::page_tokens
    Context,            \* RuntimeOptions::context
    MaxBatch,           \* RuntimeOptions::max_batch
    CopyMayFail,        \* cudaMemcpy of a page may return an error
    KernelMayFail,      \* the launches or the synchronization may report an error
    ForkDuringStep      \* callers fork a sequence that is being stepped

\* The constructor refuses any other page_tokens, context and max_batch.
ASSUME RuntimeAssumption ==
    /\ PageTokens \in Nat \ {0} /\ Context \in Nat \ {0} /\ PageTokens <= Context
    /\ MaxBatch \in 1 .. 64
    /\ {CopyMayFail, KernelMayFail, ForkDuringStep} \subseteq BOOLEAN

\* Handles name different things; a host has finitely many threads and objects.
ASSUME HandlesAssumption ==
    /\ IsFiniteSet(Threads) /\ IsFiniteSet(SeqIds)
    /\ Threads \cap SeqIds = {} /\ None \notin SeqIds
    /\ None \notin Seq(Tokens \cup {Junk})

VARIABLES
    seqs,       \* seqs[s]: the Sequence object s: state, position_, pages_
    liveCount,  \* KvPoolState::live
    kv,         \* kv[p][i]: slot i of page p in the device pool
    stepping,   \* Impl::stepping
    pc,         \* where each thread is
    tgt,        \* the sequence a fork, truncate or destructor works on
    child,      \* the Sequence object fork() is building
    at,         \* loop index of the thread: b in step(), the page in fork()
    goal,       \* new_position of truncate()
    batch,      \* seqs, the argument of step()
    toks,       \* tokens, the argument of step()
    needs,      \* needs_new and needs_cow: "new", "cow" or "none" for each b
    fresh,      \* the pages allocate_many returned
    next,       \* the index into fresh
    appended,   \* appended: <<sequence, page>>
    replaced    \* replaced: <<sequence, old page, new page>>

stepVars == <<batch, toks, needs, fresh, next, appended, replaced>>
vars == <<free, refs, seqs, liveCount, kv, stepping, pc, tgt, child, at, goal,
          batch, toks, needs, fresh, next, appended, replaced>>

-----------------------------------------------------------------------------
Slots == 0 .. PageTokens - 1
DeadSeq == [state |-> "none", position |-> 0, pages |-> <<>>]
Ready(s) == seqs[s].state = "live"
Last(q) == q[Len(q)]
Front(q) == SubSeq(q, 1, Len(q) - 1)
Go(t, where) == pc' = [pc EXCEPT ![t] = where]
SetPages(s, q) == seqs' = [seqs EXCEPT ![s].pages = q]
Bump(f, t) == [f EXCEPT ![t] = @ + 1]

StepPcs == {"needs", "alloc", "apply", "kernel", "commit", "unwind", "restore"}

\* No usable sequence lists a page the allocator counts as free.  Only a
\* rollback whose retain() throws (RollbackRetain) breaks this, and the model
\* stops there: the calls that would be refused from then on (in destructors
\* among others) are not modelled.
Intact ==
    \A s \in SeqIds : Ready(s) =>
        \A i \in 1 .. Len(seqs[s].pages) : refs[seqs[s].pages[i]] # 0

\* Threads that use sequence s now, changing it or only reading it.
Changing(s) == {t \in Threads :
                  \/ pc[t] \in StepPcs /\ \E b \in 1 .. Len(batch[t]) : batch[t][b] = s
                  \/ pc[t] \in {"destroy", "truncate"} /\ tgt[t] = s}
Forking(s) == {t \in Threads : pc[t] = "fork" /\ tgt[t] = s}
Destroying(s) == {t \in Changing(s) : pc[t] \notin StepPcs}
Exclusive(s) == Changing(s) = {} /\ Forking(s) = {}

-----------------------------------------------------------------------------
Init ==
    /\ AllocInit
    /\ seqs = [s \in SeqIds |-> DeadSeq]
    /\ liveCount = 0
    /\ kv = [p \in Pages |-> [i \in Slots |-> Junk]]
    /\ stepping = FALSE
    /\ pc = [t \in Threads |-> "idle"]
    /\ tgt = [t \in Threads |-> None]
    /\ child = [t \in Threads |-> None]
    /\ at = [t \in Threads |-> 1]
    /\ goal = [t \in Threads |-> 0]
    /\ batch = [t \in Threads |-> <<>>]
    /\ toks = [t \in Threads |-> <<>>]
    /\ needs = [t \in Threads |-> <<>>]
    /\ fresh = [t \in Threads |-> <<>>]
    /\ next = [t \in Threads |-> 0]
    /\ appended = [t \in Threads |-> <<>>]
    /\ replaced = [t \in Threads |-> <<>>]

(***************************************************************************)
(* Sequences.                                                              *)
(***************************************************************************)
NewSequence(t, s) ==
    /\ pc[t] = "idle"
    /\ seqs[s].state = "none"
    /\ seqs' = [seqs EXCEPT ![s].state = "live"]
    /\ liveCount' = liveCount + 1
    /\ UNCHANGED <<allocVars, kv, stepping, pc, tgt, child, at, goal, stepVars>>

\* fork(): a new object, then one retain per page, then the copies.
ForkBegin(t, s, c) ==
    /\ pc[t] = "idle"
    /\ Ready(s) /\ Destroying(s) = {}
    /\ ForkDuringStep \/ Changing(s) = {}
    /\ seqs[c].state = "none"
    /\ seqs' = [seqs EXCEPT ![c].state = "building"]
    /\ tgt' = [tgt EXCEPT ![t] = s]
    /\ child' = [child EXCEPT ![t] = c]
    /\ at' = [at EXCEPT ![t] = 1]
    /\ Go(t, "fork")
    /\ UNCHANGED <<allocVars, liveCount, kv, stepping, goal, stepVars>>

\* While it is built the child lists the pages retained so far.
ForkRetain(t) ==
    LET q == seqs[tgt[t]].pages IN
    /\ pc[t] = "fork"
    /\ at[t] <= Len(q)
    /\ Retain(q[at[t]])
    /\ seqs' = [seqs EXCEPT ![child[t]].pages = Append(@, q[at[t]])]
    /\ at' = Bump(at, t)
    /\ UNCHANGED <<liveCount, kv, stepping, pc, tgt, child, goal, stepVars>>

ForkEnd(t) ==
    /\ pc[t] = "fork"
    /\ at[t] > Len(seqs[tgt[t]].pages)
    /\ seqs' = [seqs EXCEPT ![child[t]] = seqs[tgt[t]]]
    /\ liveCount' = liveCount + 1
    /\ tgt' = [tgt EXCEPT ![t] = None]
    /\ child' = [child EXCEPT ![t] = None]
    /\ Go(t, "idle")
    /\ UNCHANGED <<allocVars, kv, stepping, at, goal, stepVars>>

\* ~Sequence(): one release per page, front to back.
DestroyBegin(t, s) ==
    /\ pc[t] = "idle"
    /\ Ready(s) /\ Exclusive(s)
    /\ seqs' = [seqs EXCEPT ![s].state = "dying"]
    /\ tgt' = [tgt EXCEPT ![t] = s]
    /\ Go(t, "destroy")
    /\ UNCHANGED <<allocVars, liveCount, kv, stepping, child, at, goal, stepVars>>

DestroyRelease(t) ==
    LET q == seqs[tgt[t]].pages IN
    /\ pc[t] = "destroy"
    /\ q # <<>>
    /\ Release(Head(q))
    /\ SetPages(tgt[t], Tail(q))
    /\ UNCHANGED <<liveCount, kv, stepping, pc, tgt, child, at, goal, stepVars>>

DestroyEnd(t) ==
    /\ pc[t] = "destroy"
    /\ seqs[tgt[t]].pages = <<>>
    /\ seqs' = [seqs EXCEPT ![tgt[t]] = DeadSeq]
    /\ liveCount' = liveCount - 1
    /\ tgt' = [tgt EXCEPT ![t] = None]
    /\ Go(t, "idle")
    /\ UNCHANGED <<allocVars, kv, stepping, child, at, goal, stepVars>>

\* truncate(): pages past the new position go back, last first.
Keep(n) == (n + PageTokens - 1) \div PageTokens

TruncateBegin(t, s, n) ==
    /\ pc[t] = "idle"
    /\ Ready(s) /\ Exclusive(s)
    /\ n \in 0 .. seqs[s].position
    /\ tgt' = [tgt EXCEPT ![t] = s]
    /\ goal' = [goal EXCEPT ![t] = n]
    /\ Go(t, "truncate")
    /\ UNCHANGED <<allocVars, seqs, liveCount, kv, stepping, child, at, stepVars>>

\* Mutant: the entry goes, the reference stays.
TruncateForgetsRelease(t) ==
    /\ pc[t] = "truncate"
    /\ Len(seqs[tgt[t]].pages) > Keep(goal[t])
    /\ SetPages(tgt[t], Front(seqs[tgt[t]].pages))
    /\ UNCHANGED <<allocVars, liveCount, kv, stepping, pc, tgt, child, at, goal, stepVars>>

TruncateRelease(t) ==
    LET q == seqs[tgt[t]].pages IN
    /\ pc[t] = "truncate"
    /\ Len(q) > Keep(goal[t])
    /\ Release(Last(q))
    /\ SetPages(tgt[t], Front(q))
    /\ UNCHANGED <<liveCount, kv, stepping, pc, tgt, child, at, goal, stepVars>>

TruncateEnd(t) ==
    /\ pc[t] = "truncate"
    /\ Len(seqs[tgt[t]].pages) <= Keep(goal[t])
    /\ seqs' = [seqs EXCEPT ![tgt[t]].position = goal[t]]
    /\ tgt' = [tgt EXCEPT ![t] = None]
    /\ goal' = [goal EXCEPT ![t] = 0]
    /\ Go(t, "idle")
    /\ UNCHANGED <<allocVars, liveCount, kv, stepping, child, at, stepVars>>

(***************************************************************************)
(* Runtime::step.                                                          *)
(***************************************************************************)
Batches == UNION {[1 .. n -> SeqIds] : n \in 0 .. MaxBatch + 1}

\* Mutant: a sequence at its context length is let in.
ValidAtContext(b) ==
    /\ Len(b) \in 1 .. MaxBatch
    /\ \A i, j \in 1 .. Len(b) : b[i] = b[j] => i = j
    /\ \A i \in 1 .. Len(b) : seqs[b[i]].position <= Context

\* The checks made before anything changes.
Valid(b) ==
    /\ Len(b) \in 1 .. MaxBatch
    /\ \A i, j \in 1 .. Len(b) : b[i] = b[j] => i = j
    /\ \A i \in 1 .. Len(b) : seqs[b[i]].position < Context

\* The flag was clear and the arguments pass.
StepEnter(t, b, tk) ==
    /\ pc[t] = "idle"
    /\ ~stepping
    /\ \A i \in 1 .. Len(b) : /\ Ready(b[i]) /\ Destroying(b[i]) = {}
                              /\ ForkDuringStep \/ Forking(b[i]) = {}
    /\ Valid(b)
    /\ stepping' = TRUE
    /\ batch' = [batch EXCEPT ![t] = b]
    /\ toks' = [toks EXCEPT ![t] = tk]
    /\ at' = [at EXCEPT ![t] = 1]
    /\ Go(t, "needs")
    /\ UNCHANGED <<allocVars, seqs, liveCount, kv, tgt, child, goal,
                   needs, fresh, next, appended, replaced>>

\* Mutant: the guard object exists before the flag is tested, so a refused
\* caller clears the flag of the one inside.
RefusedClearsFlag(t) ==
    /\ pc[t] = "idle"
    /\ stepping' = FALSE
    /\ UNCHANGED <<allocVars, seqs, liveCount, kv, pc, tgt, child, at, goal, stepVars>>

\* A second caller throws before it owns the flag and must not clear it; a
\* caller whose arguments fail owns the flag and clears it on the way out.
StepRefused(t) ==
    /\ pc[t] = "idle"
    /\ stepping \/ ~ \A b \in Batches : Valid(b)
    /\ UNCHANGED vars

\* One round of the loop that counts pages; refcount() locks the allocator.
Need(s) ==
    CASE seqs[s].position % PageTokens = 0 -> "new"
      [] seqs[s].position % PageTokens # 0 /\ refs[Last(seqs[s].pages)] > 1 -> "cow"
      [] OTHER -> "none"

StepNeeds(t) ==
    /\ pc[t] = "needs"
    /\ needs' = [needs EXCEPT ![t] = Append(@, Need(batch[t][at[t]]))]
    /\ IF at[t] < Len(batch[t])
         THEN at' = Bump(at, t) /\ UNCHANGED pc
         ELSE at' = [at EXCEPT ![t] = 1] /\ Go(t, "alloc")
    /\ UNCHANGED <<allocVars, seqs, liveCount, kv, stepping, tgt, child, goal,
                   batch, toks, fresh, next, appended, replaced>>

Wanted(t) == Cardinality({b \in 1 .. Len(needs[t]) : needs[t][b] # "none"})

\* What every return of step() does: the flag is cleared and the locals go.
Leave(t) ==
    /\ stepping' = FALSE
    /\ Go(t, "idle")
    /\ at' = [at EXCEPT ![t] = 1]
    /\ batch' = [batch EXCEPT ![t] = <<>>]
    /\ toks' = [toks EXCEPT ![t] = <<>>]
    /\ needs' = [needs EXCEPT ![t] = <<>>]
    /\ fresh' = [fresh EXCEPT ![t] = <<>>]
    /\ next' = [next EXCEPT ![t] = 0]
    /\ appended' = [appended EXCEPT ![t] = <<>>]
    /\ replaced' = [replaced EXCEPT ![t] = <<>>]

\* allocate_many(wanted): all the pages, or the step throws OutOfMemory.
StepAlloc(t) ==
    /\ pc[t] = "alloc"
    /\ AllocateMany(Wanted(t))
    /\ \/ /\ Len(free) >= Wanted(t)
          /\ fresh' = [fresh EXCEPT ![t] = TopPages(Wanted(t))]
          /\ Go(t, "apply")
          /\ UNCHANGED <<stepping, at, batch, toks, needs, next, appended, replaced>>
       \/ Len(free) < Wanted(t) /\ Leave(t)
    /\ UNCHANGED <<seqs, liveCount, kv, tgt, child, goal>>

\* The loop that applies the pages, one member of the batch per action.
NextMember(t) ==
    IF at[t] < Len(batch[t])
      THEN at' = Bump(at, t) /\ UNCHANGED pc
      ELSE at' = [at EXCEPT ![t] = 1] /\ Go(t, "kernel")

\* Mutant: the loop does not go on to the next member.
ApplyNoneStays(t) ==
    /\ pc[t] = "apply"
    /\ needs[t][at[t]] = "none"
    /\ UNCHANGED vars

ApplyNone(t) ==
    /\ pc[t] = "apply"
    /\ needs[t][at[t]] = "none"
    /\ NextMember(t)
    /\ UNCHANGED <<allocVars, seqs, liveCount, kv, stepping, tgt, child, goal, stepVars>>

ApplyNew(t) ==
    LET s == batch[t][at[t]]
        page == fresh[t][next[t] + 1]
    IN
    /\ pc[t] = "apply"
    /\ needs[t][at[t]] = "new"
    /\ SetPages(s, Append(seqs[s].pages, page))
    /\ next' = Bump(next, t)
    /\ appended' = [appended EXCEPT ![t] = Append(@, <<s, page>>)]
    /\ NextMember(t)
    /\ UNCHANGED <<allocVars, liveCount, kv, stepping, tgt, child, goal,
                   batch, toks, needs, fresh, replaced>>

\* Mutant: the page is replaced and never copied.
CowWithoutCopy(t) ==
    LET s == batch[t][at[t]]
        page == fresh[t][next[t] + 1]
        old == Last(seqs[s].pages)
    IN
    /\ pc[t] = "apply"
    /\ needs[t][at[t]] = "cow"
    /\ SetPages(s, Append(Front(seqs[s].pages), page))
    /\ Release(old)
    /\ next' = Bump(next, t)
    /\ replaced' = [replaced EXCEPT ![t] = Append(@, <<s, old, page>>)]
    /\ NextMember(t)
    /\ UNCHANGED <<kv, liveCount, stepping, tgt, child, goal,
                   batch, toks, needs, fresh, appended>>

ApplyCow(t) ==
    LET s == batch[t][at[t]]
        page == fresh[t][next[t] + 1]
        old == Last(seqs[s].pages)
    IN
    /\ pc[t] = "apply"
    /\ needs[t][at[t]] = "cow"
    /\ kv' = [kv EXCEPT ![page] = kv[old]]
    /\ SetPages(s, Append(Front(seqs[s].pages), page))
    /\ Release(old)
    /\ next' = Bump(next, t)
    /\ replaced' = [replaced EXCEPT ![t] = Append(@, <<s, old, page>>)]
    /\ NextMember(t)
    /\ UNCHANGED <<liveCount, stepping, tgt, child, goal,
                   batch, toks, needs, fresh, appended>>

\* Mutant: next is not advanced past the page that was released.
CopyFailsKeepsNext(t) ==
    /\ pc[t] = "apply"
    /\ CopyMayFail
    /\ needs[t][at[t]] = "cow"
    /\ Release(fresh[t][next[t] + 1])
    /\ Go(t, "unwind")
    /\ UNCHANGED <<seqs, liveCount, kv, stepping, tgt, child, at, goal, stepVars>>

\* The copy fails: next has been advanced by the subscript, the page is
\* released, and "++next" advances it again.
CopyFails(t) ==
    LET page == fresh[t][next[t] + 1] IN
    /\ pc[t] = "apply"
    /\ CopyMayFail
    /\ needs[t][at[t]] = "cow"
    /\ Release(page)
    /\ next' = [next EXCEPT ![t] = @ + 2]
    /\ Go(t, "unwind")
    /\ UNCHANGED <<seqs, liveCount, kv, stepping, tgt, child, at, goal,
                   batch, toks, needs, fresh, appended, replaced>>

\* k_kv_store of every member in W: token b goes to the slot of its position,
\* in the page the uploaded table names.
Target(s) == seqs[s].pages[seqs[s].position \div PageTokens + 1]
Stored(t, W) ==
    [p \in Pages |-> [i \in Slots |->
        LET hit == {b \in W : /\ Target(batch[t][b]) = p
                              /\ seqs[batch[t][b]].position % PageTokens = i}
        IN  IF hit = {} THEN kv[p][i] ELSE toks[t][CHOOSE b \in hit : TRUE]]]

StepKernel(t) ==
    /\ pc[t] = "kernel"
    /\ kv' = Stored(t, 1 .. Len(batch[t]))
    /\ Go(t, "commit")
    /\ UNCHANGED <<allocVars, seqs, liveCount, stepping, tgt, child, at, goal, stepVars>>

\* Mutant: the error is not looked at and the step commits.
KernelFailureIgnored(t) ==
    /\ pc[t] = "kernel"
    /\ KernelMayFail
    /\ \E W \in SUBSET (1 .. Len(batch[t])) : kv' = Stored(t, W)
    /\ Go(t, "commit")
    /\ UNCHANGED <<allocVars, seqs, liveCount, stepping, tgt, child, at, goal, stepVars>>

\* A capture, launch, cuBLAS or synchronization error: any of the stores may
\* have happened.
KernelFails(t) ==
    /\ pc[t] = "kernel"
    /\ KernelMayFail
    /\ \E W \in SUBSET (1 .. Len(batch[t])) : kv' = Stored(t, W)
    /\ Go(t, "unwind")
    /\ UNCHANGED <<allocVars, seqs, liveCount, stepping, tgt, child, at, goal, stepVars>>

StepCommit(t) ==
    /\ pc[t] = "commit"
    /\ seqs' = [s \in SeqIds |->
                  IF \E b \in 1 .. Len(batch[t]) : batch[t][b] = s
                    THEN [seqs[s] EXCEPT !.position = @ + 1]
                    ELSE seqs[s]]
    /\ Leave(t)
    /\ UNCHANGED <<allocVars, liveCount, kv, tgt, child, goal>>

\* catch (...): first the pages of fresh from next on ...
UnwindFresh(t) ==
    /\ pc[t] = "unwind"
    /\ next[t] < Len(fresh[t])
    /\ Release(fresh[t][next[t] + 1])
    /\ next' = Bump(next, t)
    /\ UNCHANGED <<seqs, liveCount, kv, stepping, pc, tgt, child, at, goal,
                   batch, toks, needs, fresh, appended, replaced>>

\* Mutant: the appended pages are not undone.
RollbackKeepsEntry(t) ==
    /\ pc[t] = "unwind"
    /\ next[t] >= Len(fresh[t])
    /\ appended[t] # <<>>
    /\ appended' = [appended EXCEPT ![t] = Tail(@)]
    /\ UNCHANGED <<allocVars, seqs, liveCount, kv, stepping, pc, tgt, child, at, goal,
                   batch, toks, needs, fresh, next, replaced>>

\* ... then rollback(): the appended pages ...
RollbackAppended(t) ==
    /\ pc[t] = "unwind"
    /\ next[t] >= Len(fresh[t])
    /\ appended[t] # <<>>
    /\ SetPages(Head(appended[t])[1], Front(seqs[Head(appended[t])[1]].pages))
    /\ Release(Head(appended[t])[2])
    /\ appended' = [appended EXCEPT ![t] = Tail(@)]
    /\ UNCHANGED <<liveCount, kv, stepping, pc, tgt, child, at, goal,
                   batch, toks, needs, fresh, next, replaced>>

\* ... and the replaced ones.  A retain() that throws leaves the handler.
RollbackRetain(t) ==
    LET r == Head(replaced[t]) IN
    /\ pc[t] = "unwind"
    /\ next[t] >= Len(fresh[t])
    /\ appended[t] = <<>> /\ replaced[t] # <<>>
    /\ SetPages(r[1], Append(Front(seqs[r[1]].pages), r[2]))
    /\ Retain(r[2])
    /\ \/ /\ refs[r[2]] # 0
          /\ Go(t, "restore")
          /\ UNCHANGED <<stepping, at, stepVars>>
       \/ refs[r[2]] = 0 /\ Leave(t)
    /\ UNCHANGED <<liveCount, kv, tgt, child, goal>>

RollbackRelease(t) ==
    /\ pc[t] = "restore"
    /\ Release(Head(replaced[t])[3])
    /\ replaced' = [replaced EXCEPT ![t] = Tail(@)]
    /\ Go(t, "unwind")
    /\ UNCHANGED <<seqs, liveCount, kv, stepping, tgt, child, at, goal,
                   batch, toks, needs, fresh, next, appended>>

\* Everything is undone: the error goes to the caller.
StepThrow(t) ==
    /\ pc[t] = "unwind"
    /\ next[t] >= Len(fresh[t])
    /\ appended[t] = <<>> /\ replaced[t] = <<>>
    /\ Leave(t)
    /\ UNCHANGED <<allocVars, seqs, liveCount, kv, tgt, child, goal>>

-----------------------------------------------------------------------------
SequenceCall(t) ==
    \/ \E s \in SeqIds : NewSequence(t, s) \/ DestroyBegin(t, s)
    \/ \E s, c \in SeqIds : ForkBegin(t, s, c)
    \/ \E s \in SeqIds, n \in 0 .. Context : TruncateBegin(t, s, n)

StepCall(t) ==
    \/ StepRefused(t)
    \/ \E b \in Batches : \E tk \in [1 .. Len(b) -> Tokens] : StepEnter(t, b, tk)

\* The thread goes on with the call it has made.
SequenceRun(t) ==
    \/ ForkRetain(t) \/ ForkEnd(t)
    \/ DestroyRelease(t) \/ DestroyEnd(t)
    \/ TruncateRelease(t) \/ TruncateEnd(t)

StepRun(t) ==
    \/ StepNeeds(t) \/ StepAlloc(t)
    \/ ApplyNone(t) \/ ApplyNew(t) \/ ApplyCow(t) \/ CopyFails(t)
    \/ StepKernel(t) \/ KernelFails(t) \/ StepCommit(t)
    \/ UnwindFresh(t) \/ RollbackAppended(t) \/ RollbackRetain(t)
    \/ RollbackRelease(t) \/ StepThrow(t)

Call(t) == Intact /\ (SequenceCall(t) \/ StepCall(t))
Run(t) == Intact /\ (SequenceRun(t) \/ StepRun(t))
Next == \E t \in Threads : Call(t) \/ Run(t)

\* A call, once made, runs to its end: the host scheduler is fair to threads.
\* Nothing obliges a thread to make a call.
Fairness == \A t \in Threads : WF_vars(Run(t))

Spec == Init /\ [][Next]_vars
FairSpec == Spec /\ Fairness

-----------------------------------------------------------------------------
(***************************************************************************)
(* Properties.                                                             *)
(***************************************************************************)
TypeOK ==
    /\ AllocTypeOK
    /\ seqs \in [SeqIds -> [state : {"none", "building", "live", "dying"},
                            position : 0 .. Context, pages : Seq(Pages)]]
    /\ liveCount \in Nat
    /\ kv \in [Pages -> [Slots -> Tokens \cup {Junk}]]
    /\ stepping \in BOOLEAN
    /\ pc \in [Threads -> StepPcs \cup {"idle", "fork", "destroy", "truncate"}]
    /\ tgt \in [Threads -> SeqIds \cup {None}]
    /\ child \in [Threads -> SeqIds \cup {None}]
    /\ at \in [Threads -> Nat]
    /\ goal \in [Threads -> 0 .. Context]
    /\ batch \in [Threads -> Seq(SeqIds)]
    /\ toks \in [Threads -> Seq(Tokens)]
    /\ needs \in [Threads -> Seq({"new", "cow", "none"})]
    /\ fresh \in [Threads -> Seq(Pages)]
    /\ next \in [Threads -> Nat]
    /\ appended \in [Threads -> Seq(SeqIds \X Pages)]
    /\ replaced \in [Threads -> Seq(SeqIds \X Pages \X Pages)]

\* The holders of page p: entries of page tables, pages step() has taken and
\* not placed, and the page a rollback has still to release.
Holders(p) ==
    (UNION {{<<s, i>> : i \in {j \in 1 .. Len(seqs[s].pages) : seqs[s].pages[j] = p}} :
              s \in SeqIds})
    \cup (UNION {{<<t, i>> : i \in {j \in next[t] + 1 .. Len(fresh[t]) : fresh[t][j] = p}} :
              t \in Threads})
    \cup {<<t, 0>> : t \in {u \in Threads : pc[u] = "restore" /\ Head(replaced[u])[3] = p}}

\* The reference count of a page is the number of its holders, in every state
\* of every call: no page leaks, none is freed under a sequence that lists it.
RefcountsExact == \A p \in Pages : refs[p] = Cardinality(Holders(p))

\* Whatever fails, a call that changes the pages of a sequence leaves it
\* listing pages it holds: none is on the free list, ready to be handed to
\* another sequence.
HeldPagesAllocated == Intact

\* The page the next action of t passes to retain() or release(), if any.
Passed(t) ==
    CASE pc[t] = "fork" /\ at[t] <= Len(seqs[tgt[t]].pages) ->
             {seqs[tgt[t]].pages[at[t]]}
      [] pc[t] = "destroy" -> {seqs[tgt[t]].pages[i] : i \in 1 .. Len(seqs[tgt[t]].pages)}
      [] pc[t] = "truncate" /\ Len(seqs[tgt[t]].pages) > Keep(goal[t]) ->
             {Last(seqs[tgt[t]].pages)}
      [] pc[t] = "apply" /\ needs[t][at[t]] = "cow" ->
             {Last(seqs[batch[t][at[t]]].pages), fresh[t][next[t] + 1]}
      [] pc[t] = "unwind" -> {fresh[t][i] : i \in next[t] + 1 .. Len(fresh[t])}
                             \cup {appended[t][i][2] : i \in 1 .. Len(appended[t])}
      [] pc[t] = "restore" -> {Head(replaced[t])[3]}
      [] OTHER -> {}

\* The allocator never refuses a release() of a destructor (which would end
\* the process), of a truncate or of a handler, nor a retain() of a fork: not
\* even after pages leaked in a failed copy.
CallsAccepted ==
    Intact => \A t \in Threads : \A p \in Passed(t) : refs[p] # 0

\* One thread at a time is inside step(): a caller that is refused does not
\* open the door to a third.
OneStepAtATime ==
    \A t, u \in Threads : pc[t] \in StepPcs /\ pc[u] \in StepPcs => t = u

\* After a step that succeeded, was refused or was rolled back, as between any
\* two calls, every page is counted once per table that names it, and a sequence
\* has exactly the pages its position needs.
RollbackExact ==
    /\ RefcountsExact
    /\ \A s \in SeqIds : Ready(s) /\ Exclusive(s) =>
         Len(seqs[s].pages) = Keep(seqs[s].position)

\* k_kv_store never writes a page that another sequence holds as well.
StoresArePrivate ==
    \A t \in Threads : pc[t] = "kernel" =>
        \A b \in 1 .. Len(batch[t]) : refs[Target(batch[t][b])] = 1

\* The tokens attention reads for s through its page table; a truncate that
\* has begun has its effect on the caller at once.
VisiblePosition(s) ==
    IF \E t \in Threads : pc[t] = "truncate" /\ tgt[t] = s
      THEN goal[CHOOSE t \in Threads : pc[t] = "truncate" /\ tgt[t] = s]
      ELSE seqs[s].position
Gathered(s) ==
    [i \in 1 .. VisiblePosition(s) |->
        kv[seqs[s].pages[(i - 1) \div PageTokens + 1]][(i - 1) % PageTokens]]

Content == [s \in SeqIds |-> IF Ready(s) THEN Gathered(s) ELSE None]

\* Paging is invisible: through its page table every sequence reads exactly
\* the tokens a private list would hold, whatever the other sequences do.
Private == INSTANCE KvSequences WITH Absent <- None, content <- Content
PrivateTokens == Private!KvSpec

\* Every call of step() returns, so the flag that refuses others is cleared.
StepReturns == stepping ~> ~stepping
=============================================================================
