-------------------------- MODULE LlmRuntimeProofs --------------------------
(***************************************************************************)
(* The runtime of 19-llm-engine for every number of threads, sequences,    *)
(* pages and batch members, and every page size and context.               *)
(*                                                                         *)
(* The argument has four layers.  Shape says what a call in progress has   *)
(* done so far and that no two calls work on one sequence; it is purely    *)
(* about control.  Counted says that the allocator counts at least the     *)
(* holders of a page, and exactly them unless a failed copy of a larger    *)
(* batch has leaked one.  Settled says that a page a step is about to      *)
(* write has one holder.  Recoverable says that a page a rollback puts     *)
(* back is still held.  Where device errors may happen it takes the batch  *)
(* of one, and for a failing kernel the single thread, of FailuresAlone.   *)
(***************************************************************************)
EXTENDS LlmRuntime, CountingLemmas

-----------------------------------------------------------------------------
(***************************************************************************)
(* The allocator by itself: for every number of pages the free stack never *)
(* lists a page twice, and a page is on it exactly when nobody holds it.   *)
(*                                                                         *)
(* AllocInv is inductive as it stands.  FreeDistinct is what makes a pop   *)
(* of n pages remove each of them for good; FreeIffUnheld is what makes a  *)
(* push by release() of the last holder push a page that is not there yet. *)
(***************************************************************************)
\* Some element of the free stack is page p.
OnStack(p) == \E i \in 1 .. Len(free) : free[i] = p

\* The constructor's stack of all pages, with no page held.
LEMMA AllocInitInv == AllocInit => AllocInv
<1> SUFFICES ASSUME AllocInit PROVE AllocInv
  OBVIOUS
<1>1. /\ free \in Seq(Pages)
      /\ Len(free) = TotalPages
      /\ \A i \in 1 .. TotalPages : free[i] = TotalPages - i
  BY TotalPagesAssumption DEF AllocInit, Pages
<1>2. FreeDistinct
  BY <1>1, TotalPagesAssumption DEF FreeDistinct
<1>3. ASSUME NEW p \in Pages
      PROVE  OnStack(p)
  <2>1. /\ TotalPages - p \in 1 .. TotalPages
        /\ free[TotalPages - p] = p
    BY <1>1, TotalPagesAssumption DEF Pages
  <2> QED BY <1>1, <2>1 DEF OnStack
<1> QED BY <1>1, <1>2, <1>3 DEF AllocInit, AllocInv, AllocTypeOK, FreeIffUnheld, OnStack

\* allocate_many(n) takes the n pages on top of the stack, or nothing.
LEMMA AllocateManyInv ==
  ASSUME AllocInv, NEW n \in Nat, AllocateMany(n)
  PROVE  AllocInv'
<1> DEFINE top == Len(free) - n
<1>0. /\ free \in Seq(Pages) /\ Len(free) \in Nat
      /\ refs \in [Pages -> Nat]
      /\ \A i \in 1 .. Len(free) : free[i] \in Pages
  BY DEF AllocInv, AllocTypeOK
<1>1. CASE Len(free) < n /\ UNCHANGED <<free, refs>>
  BY <1>1 DEF AllocInv, AllocTypeOK, FreeDistinct, FreeIffUnheld
<1>2. CASE /\ Len(free) >= n
           /\ free' = SubSeq(free, 1, Len(free) - n)
           /\ refs' = [p \in Pages |->
                  IF \E i \in 1 .. n : TopPages(n)[i] = p THEN 1 ELSE refs[p]]
  <2>0. top \in Int /\ Len(free) \in Int /\ top <= Len(free)
    BY <1>0, <1>2
  <2>1. /\ top \in 0 .. Len(free)
        /\ free' \in Seq(Pages)
        /\ Len(free') = top
        /\ \A i \in 1 .. top : free'[i] = free[i]
    BY <1>0, <1>2
  <2>2. \A p \in Pages :
          (\E i \in 1 .. n : TopPages(n)[i] = p)
            <=> \E j \in top + 1 .. Len(free) : free[j] = p
    <3> SUFFICES ASSUME NEW p \in Pages
                 PROVE (\E i \in 1 .. n : free[Len(free) + 1 - i] = p)
                         <=> \E j \in top + 1 .. Len(free) : free[j] = p
      BY DEF TopPages
    <3>1. ASSUME NEW i \in 1 .. n, free[Len(free) + 1 - i] = p
          PROVE  \E j \in top + 1 .. Len(free) : free[j] = p
      <4>1. Len(free) + 1 - i \in top + 1 .. Len(free)
        BY <1>0, <1>2
      <4> QED BY <3>1, <4>1
    <3>2. ASSUME NEW j \in top + 1 .. Len(free), free[j] = p
          PROVE  \E i \in 1 .. n : free[Len(free) + 1 - i] = p
      <4>1. /\ Len(free) + 1 - j \in 1 .. n
            /\ Len(free) + 1 - (Len(free) + 1 - j) = j
        BY <1>0, <1>2
      <4> QED BY <3>2, <4>1
    <3> QED BY <3>1, <3>2
  <2>3. AllocTypeOK'
    BY <1>0, <1>2, <2>1 DEF AllocTypeOK
  <2>4. FreeDistinct'
    <3> SUFFICES ASSUME NEW i \in 1 .. top, NEW j \in 1 .. top, free'[i] = free'[j]
                 PROVE  i = j
      BY <2>1 DEF FreeDistinct
    <3>1. i \in 1 .. Len(free) /\ j \in 1 .. Len(free)
      BY <2>0
    <3>2. free[i] = free[j]
      BY <2>1
    <3> QED BY <3>1, <3>2 DEF FreeDistinct, AllocInv
  <2>5. FreeIffUnheld'
    <3> SUFFICES ASSUME NEW p \in Pages
                 PROVE refs'[p] = 0 <=> \E i \in 1 .. top : free[i] = p
      BY <2>1 DEF FreeIffUnheld
    <3>1. CASE \E j \in top + 1 .. Len(free) : free[j] = p
      <4>1. refs'[p] = 1
        BY <1>2, <2>2, <3>1
      <4>2. ASSUME NEW i \in 1 .. top, free[i] = p
            PROVE  FALSE
        <5>1. PICK j \in top + 1 .. Len(free) : free[j] = p
          BY <3>1
        <5>2. i \in 1 .. Len(free) /\ j \in 1 .. Len(free) /\ i # j
          BY <1>0, <2>1, SMTT(30)
        <5> QED BY <4>2, <5>1, <5>2 DEF FreeDistinct, AllocInv
      <4> QED BY <4>1, <4>2
    <3>2. CASE ~ \E j \in top + 1 .. Len(free) : free[j] = p
      <4>1. refs'[p] = refs[p]
        BY <1>2, <2>2, <3>2
      <4>2. OnStack(p) <=> \E i \in 1 .. top : free[i] = p
        BY <1>0, <2>1, <3>2 DEF OnStack
      <4> QED BY <4>1, <4>2 DEF OnStack, FreeIffUnheld, AllocInv
    <3> QED BY <3>1, <3>2
  <2> QED BY <2>3, <2>4, <2>5 DEF AllocInv
<1> QED BY <1>1, <1>2 DEF AllocateMany

\* retain() only counts up a page that is held already.
LEMMA RetainInv ==
  ASSUME AllocInv, NEW p \in Pages, Retain(p)
  PROVE  AllocInv'
  BY DEF AllocInv, AllocTypeOK, FreeDistinct, FreeIffUnheld, Retain

\* release() of the last holder pushes a page that was not on the stack.
LEMMA ReleaseInv ==
  ASSUME AllocInv, NEW p \in Pages, Release(p)
  PROVE  AllocInv'
<1>0. /\ free \in Seq(Pages) /\ Len(free) \in Nat
      /\ refs \in [Pages -> Nat]
  BY DEF AllocInv, AllocTypeOK
<1>1. CASE refs[p] = 0 /\ UNCHANGED <<free, refs>>
  BY <1>1 DEF AllocInv, AllocTypeOK, FreeDistinct, FreeIffUnheld
<1>2. CASE refs[p] = 1 /\ refs' = [refs EXCEPT ![p] = @ - 1] /\ free' = Append(free, p)
  <2>1. /\ free' \in Seq(Pages)
        /\ Len(free') = Len(free) + 1
        /\ free'[Len(free) + 1] = p
        /\ \A i \in 1 .. Len(free) : free'[i] = free[i]
    BY <1>0, <1>2
  <2>2. ~OnStack(p)
    BY <1>2 DEF OnStack, AllocInv, FreeIffUnheld
  <2>3. AllocTypeOK'
    BY <1>0, <1>2, <2>1 DEF AllocTypeOK
  <2>4. FreeDistinct'
    <3> SUFFICES ASSUME NEW i \in 1 .. Len(free'), NEW j \in 1 .. Len(free'),
                        free'[i] = free'[j]
                 PROVE  i = j
      BY DEF FreeDistinct
    <3>1. CASE i \in 1 .. Len(free) /\ j \in 1 .. Len(free)
      BY <2>1, <3>1 DEF FreeDistinct, AllocInv
    <3>2. CASE i = Len(free) + 1 /\ j = Len(free) + 1
      BY <3>2
    <3>3. CASE i = Len(free) + 1 /\ j \in 1 .. Len(free)
      BY <2>1, <2>2, <3>3 DEF OnStack
    <3>4. CASE i \in 1 .. Len(free) /\ j = Len(free) + 1
      BY <2>1, <2>2, <3>4 DEF OnStack
    <3> QED BY <1>0, <2>1, <3>1, <3>2, <3>3, <3>4
  <2>5. FreeIffUnheld'
    <3> SUFFICES ASSUME NEW q \in Pages
                 PROVE  refs'[q] = 0 <=> \E i \in 1 .. Len(free) + 1 : free'[i] = q
      BY <2>1 DEF FreeIffUnheld
    <3>1. CASE q = p
      BY <1>0, <1>2, <2>1, <3>1
    <3>2. CASE q # p
      <4>1. refs'[q] = refs[q]
        BY <1>0, <1>2, <3>2
      <4>2. (\E i \in 1 .. Len(free) + 1 : free'[i] = q) <=> OnStack(q)
        BY <1>0, <2>1, <3>2 DEF OnStack
      <4> QED BY <4>1, <4>2 DEF OnStack, FreeIffUnheld, AllocInv
    <3> QED BY <3>1, <3>2
  <2> QED BY <2>3, <2>4, <2>5 DEF AllocInv
<1>3. CASE refs[p] \notin {0, 1} /\ refs' = [refs EXCEPT ![p] = @ - 1] /\ free' = free
  BY <1>0, <1>3 DEF AllocInv, AllocTypeOK, FreeDistinct, FreeIffUnheld
<1> QED BY <1>0, <1>1, <1>2, <1>3 DEF Release

\* Every reachable state of the allocator satisfies AllocInv, for any number of
\* pages and any calls from any threads.
THEOREM AllocatorCorrect == AllocSpec => []AllocInv
<1>1. AllocInv /\ [AllocNext]_allocVars => AllocInv'
  <2> SUFFICES ASSUME AllocInv, [AllocNext]_allocVars
               PROVE  AllocInv'
    OBVIOUS
  <2>1. ASSUME NEW n \in 0 .. TotalPages + 1, AllocateMany(n)
        PROVE  AllocInv'
    BY <2>1, AllocateManyInv, TotalPagesAssumption
  <2>2. ASSUME NEW p \in Pages, Retain(p)
        PROVE  AllocInv'
    BY <2>2, RetainInv
  <2>3. ASSUME NEW p \in Pages, Release(p)
        PROVE  AllocInv'
    BY <2>3, ReleaseInv
  <2>4. CASE UNCHANGED allocVars
    BY <2>4 DEF allocVars, AllocInv, AllocTypeOK, FreeDistinct, FreeIffUnheld
  <2> QED BY <2>1, <2>2, <2>3, <2>4 DEF AllocNext
<1> QED BY AllocInitInv, <1>1, PTL DEF AllocSpec

-----------------------------------------------------------------------------
Members(t) == {batch[t][b] : b \in 1 .. Len(batch[t])}
Firsts(q) == {q[i][1] : i \in 1 .. Len(q)}
InStep(t) == pc[t] \in StepPcs

\* Thread t may change the pages of s; it relies on those of s.
Writes(t, s) ==
    \/ InStep(t) /\ s \in Members(t)
    \/ pc[t] \in {"destroy", "truncate"} /\ tgt[t] = s
    \/ pc[t] = "fork" /\ child[t] = s
Reads(t, s) == pc[t] = "fork" /\ tgt[t] = s

Alone ==
    \A t, u \in Threads, s \in SeqIds : Writes(t, s) /\ (Writes(u, s) \/ Reads(u, s)) => t = u

\* The flag is up exactly while a thread is inside step(), and one is.
OneStep ==
    /\ stepping <=> \E t \in Threads : InStep(t)
    /\ OneStepAtATime

SeqShape(s) ==
    /\ seqs[s].state = "none" => seqs[s] = DeadSeq
    /\ seqs[s].state = "live" /\ (\A t \in Threads : ~Writes(t, s)) =>
         Len(seqs[s].pages) = Keep(seqs[s].position)

OutsideStep(t) ==
    /\ batch[t] = <<>> /\ toks[t] = <<>> /\ needs[t] = <<>>
    /\ fresh[t] = <<>> /\ next[t] = 0
    /\ appended[t] = <<>> /\ replaced[t] = <<>>

ForkShape(t) ==
    /\ tgt[t] \in SeqIds /\ child[t] \in SeqIds
    /\ seqs[tgt[t]].state = "live" /\ seqs[child[t]].state = "building"
    /\ at[t] \in 1 .. Len(seqs[tgt[t]].pages) + 1
    /\ Len(seqs[child[t]].pages) = at[t] - 1
    /\ \A i \in 1 .. at[t] - 1 : seqs[child[t]].pages[i] = seqs[tgt[t]].pages[i]

DestroyShape(t) == tgt[t] \in SeqIds /\ seqs[tgt[t]].state = "dying"

TruncateShape(t) ==
    /\ tgt[t] \in SeqIds /\ seqs[tgt[t]].state = "live"
    /\ goal[t] <= seqs[tgt[t]].position
    /\ Len(seqs[tgt[t]].pages) \in Keep(goal[t]) .. Keep(seqs[tgt[t]].position)

\* The batch passed the checks of step().
StepArgs(t) ==
    /\ Len(batch[t]) \in 1 .. MaxBatch /\ Len(toks[t]) = Len(batch[t])
    /\ at[t] \in 1 .. Len(batch[t])
    /\ \A i, j \in 1 .. Len(batch[t]) : batch[t][i] = batch[t][j] => i = j
    /\ \A b \in 1 .. Len(batch[t]) :
         seqs[batch[t][b]].state = "live" /\ seqs[batch[t][b]].position < Context

\* What has been counted and taken so far.
StepPlan(t) ==
    /\ Len(needs[t]) = IF pc[t] = "needs" THEN at[t] - 1 ELSE Len(batch[t])
    /\ \A b \in 1 .. Len(needs[t]) :
         needs[t][b] = "new" <=> seqs[batch[t][b]].position % PageTokens = 0
    /\ pc[t] = "alloc" => at[t] = 1
    /\ pc[t] \in {"needs", "alloc"} =>
         fresh[t] = <<>> /\ next[t] = 0 /\ appended[t] = <<>> /\ replaced[t] = <<>>
    /\ pc[t] = "apply" =>
         /\ Len(fresh[t]) = CountNot(needs[t], Len(batch[t]), "none")
         /\ next[t] = CountNot(needs[t], at[t] - 1, "none")
    /\ pc[t] \in {"kernel", "commit"} => next[t] = Len(fresh[t])
    /\ Len(fresh[t]) <= Len(batch[t])

\* The page tables: a member has the pages of its position, and one more if the
\* step has appended it; both lists name members and the page each ends with.
StepSizes(t) ==
    \A b \in 1 .. Len(batch[t]) :
        Len(seqs[batch[t][b]].pages) =
            Keep(seqs[batch[t][b]].position) + One(batch[t][b] \in Firsts(appended[t]))
StepAppended(t) ==
    /\ \A i \in 1 .. Len(appended[t]) :
         /\ appended[t][i][1] \in Members(t)
         /\ seqs[appended[t][i][1]].position % PageTokens = 0
         /\ Last(seqs[appended[t][i][1]].pages) = appended[t][i][2]
    /\ \A i, j \in 1 .. Len(appended[t]) : appended[t][i][1] = appended[t][j][1] => i = j
StepReplaced(t) ==
    /\ \A i \in 1 .. Len(replaced[t]) :
         /\ replaced[t][i][1] \in Members(t)
         /\ seqs[replaced[t][i][1]].position % PageTokens # 0
         /\ \/ i = 1 /\ pc[t] = "restore"
            \/ Last(seqs[replaced[t][i][1]].pages) = replaced[t][i][3]
    /\ \A i, j \in 1 .. Len(replaced[t]) : replaced[t][i][1] = replaced[t][j][1] => i = j
StepPhase(t) ==
    /\ pc[t] = "apply" => \A b \in at[t] .. Len(batch[t]) :
         batch[t][b] \notin Firsts(appended[t]) \cup Firsts(replaced[t])
    /\ \A b \in 1 .. Len(batch[t]) :
         pc[t] \in {"kernel", "commit"} \/ (pc[t] = "apply" /\ b < at[t]) =>
             (needs[t][b] = "new" => batch[t][b] \in Firsts(appended[t]))
    /\ pc[t] = "restore" =>
         replaced[t] # <<>> /\ appended[t] = <<>> /\ next[t] >= Len(fresh[t])
StepTables(t) == StepSizes(t) /\ StepAppended(t) /\ StepReplaced(t) /\ StepPhase(t)

ThreadShape(t) ==
    /\ IF InStep(t) THEN StepArgs(t) /\ StepPlan(t) /\ StepTables(t) ELSE OutsideStep(t)
    /\ pc[t] = "fork" => ForkShape(t)
    /\ pc[t] = "destroy" => DestroyShape(t)
    /\ pc[t] = "truncate" => TruncateShape(t)

Shape ==
    /\ Alone /\ OneStep
    /\ \A s \in SeqIds : SeqShape(s)
    /\ \A t \in Threads : ThreadShape(t)

-----------------------------------------------------------------------------
(***************************************************************************)
(* The holders of a page, counted by kind.                                 *)
(***************************************************************************)
PageTables == [s \in SeqIds |-> seqs[s].pages]
NoEntryTaken == [s \in SeqIds |-> 0]
Restoring(p) == {t \in Threads : pc[t] = "restore" /\ Head(replaced[t])[3] = p}

Listed(p) == Cardinality(Places(PageTables, NoEntryTaken, p))
Untaken(p) == Cardinality(Places(fresh, next, p))
Owed(p) == Cardinality(Restoring(p))
Held(p) == Listed(p) + Untaken(p) + Owed(p)

\* No failed copy can leave a second page behind.
NothingLeaks == CopyMayFail => MaxBatch = 1

Counted == \A p \in Pages : refs[p] >= Held(p) /\ (NothingLeaks => refs[p] = Held(p))

\* The pages t is going to write are its own.
SettledMember(t, b) ==
    \/ needs[t][b] = "none" \/ pc[t] = "kernel" \/ (pc[t] = "apply" /\ b < at[t])
SettledThread(t) ==
    pc[t] \in {"needs", "alloc", "apply", "kernel"} =>
        /\ \A b \in 1 .. Len(needs[t]) :
             SettledMember(t, b) => refs[Last(seqs[batch[t][b]].pages)] = 1
        /\ \A i \in next[t] + 1 .. Len(fresh[t]) : refs[fresh[t][i]] = 1
Settled == \A t \in Threads : SettledThread(t)

\* A failed copy meets a batch of one, and so does a failed kernel, which meets
\* one thread as well: nobody else can give back the page that a copy-on-write
\* has replaced.
FailuresAlone ==
    /\ CopyMayFail => MaxBatch = 1
    /\ KernelMayFail => MaxBatch = 1 /\ \A t, u \in Threads : t = u

\* A failed copy has nothing to put back; what a failed kernel puts back was
\* shared when the step looked, and still is.
RecoverableThread(t) ==
    /\ ~KernelMayFail /\ pc[t] \in {"unwind", "restore"} => replaced[t] = <<>>
    /\ KernelMayFail =>
         /\ pc[t] \in {"alloc", "apply"} /\ needs[t][1] = "cow" =>
              refs[Last(seqs[batch[t][1]].pages)] >= 2
         /\ \A i \in 1 .. Len(replaced[t]) : refs[replaced[t][i][2]] >= 1
         /\ pc[t] = "unwind" => next[t] >= Len(fresh[t])
Recoverable == \A t \in Threads : RecoverableThread(t)

\* KvPoolState::live counts the Sequence objects, also one that is dying.
LiveExact ==
    liveCount = Cardinality({s \in SeqIds : seqs[s].state \in {"live", "dying"}})

RuntimeInv ==
    /\ TypeOK /\ AllocInv /\ Shape /\ LiveExact
    /\ Intact \/ stepping => Counted /\ Settled
    /\ FailuresAlone => Intact /\ Recoverable

-----------------------------------------------------------------------------
(***************************************************************************)
(* Exclusion from step(), which assumes nothing about the callers.         *)
(***************************************************************************)
PcTypeOK ==
    /\ pc \in [Threads -> StepPcs \cup {"idle", "fork", "destroy", "truncate"}]
    /\ stepping \in BOOLEAN

\* Where a call of thread t takes its pc, and what that does to the flag.
Moves(t) ==
    \/ pc' = pc /\ stepping' = stepping
    \/ \E w \in {"idle", "fork", "destroy", "truncate"} :
         ~InStep(t) /\ Go(t, w) /\ stepping' = stepping
    \/ ~InStep(t) /\ ~stepping /\ Go(t, "needs") /\ stepping' = TRUE
    \/ \E w \in StepPcs : InStep(t) /\ Go(t, w) /\ stepping' = stepping
    \/ InStep(t) /\ Go(t, "idle") /\ stepping' = FALSE

LEMMA EveryCallMoves ==
  ASSUME NEW t \in Threads, Call(t) \/ Run(t)
  PROVE  Moves(t)
<1> USE DEF Moves, InStep, StepPcs, Go
<1>1. CASE SequenceCall(t)
  BY <1>1 DEF SequenceCall, NewSequence, DestroyBegin, ForkBegin, TruncateBegin
<1>2. CASE StepCall(t)
  BY <1>2 DEF StepCall, StepRefused, StepEnter, vars
<1>3. CASE SequenceRun(t)
  BY <1>3 DEF SequenceRun, ForkRetain, ForkEnd, DestroyRelease, DestroyEnd, TruncateRelease, TruncateEnd
<1>4. CASE StepRun(t)
  <2>1. CASE StepNeeds(t) \/ StepAlloc(t)
    BY <2>1 DEF StepNeeds, StepAlloc, Leave
  <2>2. CASE ApplyNone(t) \/ ApplyNew(t) \/ ApplyCow(t) \/ CopyFails(t)
    BY <2>2 DEF ApplyNone, ApplyNew, ApplyCow, CopyFails, NextMember
  <2>3. CASE StepKernel(t) \/ KernelFails(t) \/ StepCommit(t)
    BY <2>3 DEF StepKernel, KernelFails, StepCommit, Leave
  <2>4. CASE UnwindFresh(t) \/ RollbackAppended(t) \/ RollbackRetain(t)
    BY <2>4 DEF UnwindFresh, RollbackAppended, RollbackRetain, Leave, stepVars
  <2>5. CASE RollbackRelease(t) \/ StepThrow(t)
    BY <2>5 DEF RollbackRelease, StepThrow, Leave
  <2> QED BY <1>4, <2>1, <2>2, <2>3, <2>4, <2>5 DEF StepRun
<1> QED BY <1>1, <1>2, <1>3, <1>4 DEF Call, Run

LEMMA MovesKeepOneStep ==
  ASSUME PcTypeOK, OneStep, NEW t \in Threads, Moves(t)
  PROVE  PcTypeOK' /\ OneStep'
<1> USE DEF PcTypeOK, OneStep, OneStepAtATime, InStep, Go
<1>1. CASE pc' = pc /\ stepping' = stepping
  BY <1>1
<1>2. ASSUME NEW w \in {"idle", "fork", "destroy", "truncate"},
             ~InStep(t), Go(t, w), stepping' = stepping
      PROVE  PcTypeOK' /\ OneStep'
  BY <1>2 DEF StepPcs
<1>3. CASE ~InStep(t) /\ ~stepping /\ Go(t, "needs") /\ stepping' = TRUE
  BY <1>3 DEF StepPcs
<1>4. ASSUME NEW w \in StepPcs, InStep(t), Go(t, w), stepping' = stepping
      PROVE  PcTypeOK' /\ OneStep'
  BY <1>4
<1>5. CASE InStep(t) /\ Go(t, "idle") /\ stepping' = FALSE
  BY <1>5 DEF StepPcs
<1> QED BY <1>1, <1>2, <1>3, <1>4, <1>5 DEF Moves

\* Whatever the callers do, one thread at a time is inside step(): the refusal
\* of a second caller, the failures and the rollback all leave the flag right.
THEOREM StepExcludesStep == Spec => []OneStepAtATime
<1>1. Init => PcTypeOK /\ OneStep
  BY DEF Init, PcTypeOK, OneStep, OneStepAtATime, InStep, StepPcs
<1>2. PcTypeOK /\ OneStep /\ [Next]_vars => (PcTypeOK /\ OneStep)'
  <2> SUFFICES ASSUME PcTypeOK, OneStep, [Next]_vars
               PROVE  PcTypeOK' /\ OneStep'
    OBVIOUS
  <2>1. CASE Next
    BY <2>1, EveryCallMoves, MovesKeepOneStep DEF Next
  <2>2. CASE UNCHANGED vars
    BY <2>2 DEF vars, PcTypeOK, OneStep, OneStepAtATime, InStep
  <2> QED BY <2>1, <2>2
<1>3. PcTypeOK /\ OneStep => OneStepAtATime
  BY DEF OneStep
<1> QED BY <1>1, <1>2, <1>3, PTL DEF Spec

-----------------------------------------------------------------------------
(***************************************************************************)
(* A step of thread t leaves the calls of the others as they are.          *)
(***************************************************************************)
Quiet(u) ==
    /\ pc'[u] = pc[u] /\ tgt'[u] = tgt[u] /\ child'[u] = child[u]
    /\ at'[u] = at[u] /\ goal'[u] = goal[u]
    /\ batch'[u] = batch[u] /\ toks'[u] = toks[u] /\ needs'[u] = needs[u]
    /\ fresh'[u] = fresh[u] /\ next'[u] = next[u]
    /\ appended'[u] = appended[u] /\ replaced'[u] = replaced[u]

LEMMA OthersQuiet ==
  ASSUME TypeOK, NEW t \in Threads, Call(t) \/ Run(t), NEW u \in Threads, u # t
  PROVE  Quiet(u)
<1> USE DEF Quiet, TypeOK, Go, Bump
<1>1. CASE SequenceCall(t)
  BY <1>1, SMTT(30) DEF SequenceCall, NewSequence, DestroyBegin, ForkBegin, TruncateBegin, stepVars
<1>2. CASE StepCall(t)
  BY <1>2, SMTT(30) DEF StepCall, StepRefused, StepEnter, vars
<1>3. CASE SequenceRun(t)
  BY <1>3 DEF SequenceRun, ForkRetain, ForkEnd, DestroyRelease, DestroyEnd,
              TruncateRelease, TruncateEnd, stepVars
<1>4. CASE StepRun(t)
  <2>1. CASE StepNeeds(t) \/ StepAlloc(t)
    BY <2>1, SMTT(30) DEF StepNeeds, StepAlloc, Leave
  <2>2. CASE ApplyNone(t) \/ ApplyNew(t) \/ ApplyCow(t) \/ CopyFails(t)
    BY <2>2 DEF ApplyNone, ApplyNew, ApplyCow, CopyFails, NextMember, stepVars
  <2>3. CASE StepKernel(t) \/ KernelFails(t) \/ StepCommit(t)
    BY <2>3 DEF StepKernel, KernelFails, StepCommit, Leave, stepVars
  <2>4. CASE UnwindFresh(t) \/ RollbackAppended(t) \/ RollbackRetain(t)
    BY <2>4 DEF UnwindFresh, RollbackAppended, RollbackRetain, Leave, stepVars
  <2>5. CASE RollbackRelease(t) \/ StepThrow(t)
    BY <2>5 DEF RollbackRelease, StepThrow, Leave
  <2> QED BY <1>4, <2>1, <2>2, <2>3, <2>4, <2>5 DEF StepRun
<1> QED BY <1>1, <1>2, <1>3, <1>4 DEF Call, Run

LEMMA QuietUses ==
  ASSUME NEW u \in Threads, Quiet(u), NEW s \in SeqIds
  PROVE  (Writes(u, s)' <=> Writes(u, s)) /\ (Reads(u, s)' <=> Reads(u, s))
  BY DEF Quiet, Writes, Reads, Members, InStep

\* The pages an idle thread, or a call in progress, relies on.
LEMMA QuietKeepsShape ==
  ASSUME TypeOK, NEW u \in Threads, Quiet(u), ThreadShape(u),
         \A s \in SeqIds : Writes(u, s) \/ Reads(u, s) => seqs'[s] = seqs[s]
  PROVE  ThreadShape(u)'
<1>1. CASE InStep(u)
  <2>1. \A b \in 1 .. Len(batch[u]) : batch[u][b] \in SeqIds
    BY DEF TypeOK
  <2>2. \A b \in 1 .. Len(batch[u]) : seqs'[batch[u][b]] = seqs[batch[u][b]]
    BY <1>1, <2>1 DEF Writes, Members
  <2>3. StepArgs(u) => StepArgs(u)'
    BY <2>2 DEF StepArgs, Quiet
  <2>4. StepArgs(u) /\ StepPlan(u) => StepPlan(u)'
    BY <2>2 DEF StepArgs, StepPlan, Quiet
  <2>5. StepArgs(u) /\ StepTables(u) => StepTables(u)'
    <3> SUFFICES ASSUME StepArgs(u), StepTables(u) PROVE StepTables(u)'
      OBVIOUS
    <3>1. \A s \in Members(u) : seqs'[s] = seqs[s]
      BY <2>2 DEF Members
    <3>2. StepSizes(u)'
      BY <2>2 DEF StepTables, StepSizes, Quiet, Firsts
    <3>3. Members(u)' = Members(u)
      BY DEF Members, Quiet
    <3>4. StepAppended(u)'
      BY <3>1, <3>3 DEF StepTables, StepAppended, Quiet
    <3>5. StepReplaced(u)'
      BY <3>1, <3>3 DEF StepTables, StepReplaced, Quiet
    <3>6. StepPhase(u)'
      <4>1. Firsts(appended[u])' = Firsts(appended[u]) /\ Firsts(replaced[u])' = Firsts(replaced[u])
        BY DEF Firsts, Quiet
      <4>2. StepPhase(u)
        BY DEF StepTables
      <4> QED BY <4>1, <4>2 DEF StepPhase, Quiet
    <3> QED BY <3>2, <3>4, <3>5, <3>6 DEF StepTables
  <2> QED BY <1>1, <2>3, <2>4, <2>5 DEF ThreadShape, Quiet, InStep, StepPcs
<1>2. CASE ~InStep(u)
  <2>1. OutsideStep(u)'
    BY <1>2 DEF ThreadShape, OutsideStep, Quiet
  <2>2. pc[u] = "fork" => ForkShape(u)'
    <3> SUFFICES ASSUME pc[u] = "fork", ForkShape(u) PROVE ForkShape(u)'
      BY DEF ThreadShape, Quiet
    <3>1. tgt[u] \in SeqIds /\ child[u] \in SeqIds
      BY DEF ForkShape
    <3>2. seqs'[tgt[u]] = seqs[tgt[u]] /\ seqs'[child[u]] = seqs[child[u]]
      BY <3>1 DEF Writes, Reads
    <3> QED BY <3>2 DEF ForkShape, Quiet
  <2>3. pc[u] = "destroy" => DestroyShape(u)'
    BY DEF ThreadShape, DestroyShape, Quiet, Writes
  <2>4. pc[u] = "truncate" => TruncateShape(u)'
    BY DEF ThreadShape, TruncateShape, Quiet, Writes
  <2> QED BY <1>2, <2>1, <2>2, <2>3, <2>4 DEF ThreadShape, Quiet, InStep
<1> QED BY <1>1, <1>2

\* A sequence that somebody uses exists.
LEMMA UsedExists ==
  ASSUME NEW u \in Threads, ThreadShape(u), NEW s \in SeqIds, Writes(u, s) \/ Reads(u, s)
  PROVE  seqs[s].state # "none"
  BY DEF ThreadShape, Writes, Reads, InStep, StepPcs, StepArgs, Members,
         ForkShape, DestroyShape, TruncateShape

\* What is left to show when t makes a step.
LEMMA ShapeStep ==
  ASSUME TypeOK, Shape, OneStep', NEW t \in Threads,
         \A u \in Threads : u # t => Quiet(u),
         ThreadShape(t)',
         \A s \in SeqIds : \/ seqs'[s] = seqs[s] \/ Writes(t, s) \/ seqs[s].state = "none"
                           \/ \A u \in Threads : u # t => ~Writes(u, s) /\ ~Reads(u, s),
         \A s \in SeqIds : Writes(t, s)' => Writes(t, s) \/
             \A u \in Threads : u # t => ~Writes(u, s) /\ ~Reads(u, s),
         \A s \in SeqIds : Reads(t, s)' => Reads(t, s) \/ \A u \in Threads : u # t => ~Writes(u, s),
         \A s \in SeqIds : \/ seqs'[s] = seqs[s] /\ (Writes(t, s) => Writes(t, s)')
                           \/ SeqShape(s)'
  PROVE  Shape'
<1>1. Alone'
  <2> SUFFICES ASSUME NEW v \in Threads, NEW w \in Threads, NEW s \in SeqIds,
                      Writes(v, s)', Writes(w, s)' \/ Reads(w, s)', v # w
               PROVE  FALSE
    BY DEF Alone
  <2>1. CASE v # t /\ w # t
    BY <2>1, QuietUses DEF Shape, Alone
  <2>2. CASE v = t
    BY <2>2, QuietUses DEF Shape, Alone
  <2>3. CASE w = t
    BY <2>3, QuietUses DEF Shape, Alone
  <2> QED BY <2>1, <2>2, <2>3
<1>2. ASSUME NEW s \in SeqIds PROVE SeqShape(s)'
  <2>1. CASE seqs'[s] = seqs[s] /\ (Writes(t, s) => Writes(t, s)')
    <3>1. (\A u \in Threads : ~Writes(u, s)') => \A u \in Threads : ~Writes(u, s)
      BY <2>1, QuietUses
    <3> QED BY <2>1, <3>1 DEF Shape, SeqShape
  <2> QED BY <2>1
<1>3. ASSUME NEW u \in Threads PROVE ThreadShape(u)'
  <2>1. CASE u = t
    BY <2>1
  <2>2. CASE u # t
    <3>1. \A s \in SeqIds : Writes(u, s) \/ Reads(u, s) => seqs'[s] = seqs[s]
      BY <2>2, UsedExists DEF Shape, Alone
    <3> QED BY <2>2, <3>1, QuietKeepsShape DEF Shape
  <2> QED BY <2>1, <2>2
<1> QED BY <1>1, <1>2, <1>3 DEF Shape

\* A step of t within step(), or to another pc that works on the same sequences.
LEMMA ShapeMove ==
  ASSUME TypeOK, Shape, OneStep', NEW t \in Threads,
         \A u \in Threads : u # t => Quiet(u),
         InStep(t), InStep(t)', batch'[t] = batch[t],
         StepArgs(t)', StepPlan(t)', StepTables(t)',
         \A s \in SeqIds : seqs'[s] = seqs[s] \/ s \in Members(t)
  PROVE  Shape'
<1>1. \A s \in SeqIds : (Writes(t, s)' <=> Writes(t, s)) /\ ~Reads(t, s)'
  BY DEF Writes, Reads, Members, InStep, StepPcs
<1>2. ThreadShape(t)'
  BY DEF ThreadShape, InStep, StepPcs
<1>3. \A s \in SeqIds : seqs'[s] = seqs[s] \/ Writes(t, s)
  BY DEF Writes
<1>4. ASSUME NEW s \in SeqIds, s \in Members(t) PROVE SeqShape(s)'
  <2>1. Writes(t, s)' /\ seqs'[s].state = "live"
    BY <1>1, <1>4 DEF Writes, Members, StepArgs
  <2> QED BY <2>1 DEF SeqShape
<1> QED BY <1>1, <1>2, <1>3, <1>4, ShapeStep

-----------------------------------------------------------------------------
(***************************************************************************)
(* Types.  The pages a call names are pages of the pool.                   *)
(***************************************************************************)
LEMMA PagesOf ==
  ASSUME TypeOK, NEW s \in SeqIds
  PROVE  /\ seqs[s].pages \in Seq(Pages) /\ Len(seqs[s].pages) \in Nat
         /\ seqs[s].position \in 0 .. Context
         /\ \A i \in 1 .. Len(seqs[s].pages) : seqs[s].pages[i] \in Pages
  BY DEF TypeOK

LEMMA LastFront ==
  ASSUME NEW P, NEW q \in Seq(P), Len(q) > 0
  PROVE  /\ Last(q) \in P /\ Last(q) = q[Len(q)]
         /\ Front(q) \in Seq(P) /\ Len(Front(q)) = Len(q) - 1
         /\ \A i \in 1 .. Len(q) - 1 : Front(q)[i] = q[i]
  BY FrontFacts DEF Last, Front

LEMMA KeepNat ==
  ASSUME NEW n \in Nat
  PROVE  /\ Keep(n) \in Nat /\ Keep(n + 1) = n \div PageTokens + 1
         /\ n % PageTokens = 0 => Keep(n) = n \div PageTokens
         /\ n % PageTokens # 0 => Keep(n) = n \div PageTokens + 1
         /\ n \div PageTokens \in Nat /\ n % PageTokens \in Slots
  BY CeilNext, DivMod, RuntimeAssumption DEF Keep, Slots

\* What a member of the batch looks like inside step().
LEMMA MemberFacts ==
  ASSUME TypeOK, NEW t \in Threads, ThreadShape(t), InStep(t), NEW b \in 1 .. Len(batch[t])
  PROVE  /\ batch[t][b] \in SeqIds /\ batch[t][b] \in Members(t)
         /\ seqs[batch[t][b]].state = "live"
         /\ seqs[batch[t][b]].position \in 0 .. Context - 1
         /\ seqs[batch[t][b]].position % PageTokens # 0 => Len(seqs[batch[t][b]].pages) > 0
         /\ batch[t][b] \in Firsts(appended[t]) => Len(seqs[batch[t][b]].pages) > 0
<1>1. batch[t][b] \in SeqIds /\ batch[t][b] \in Members(t)
  BY DEF TypeOK, Members
<1>2. seqs[batch[t][b]].state = "live" /\ seqs[batch[t][b]].position < Context
  BY DEF ThreadShape, StepArgs
<1>3. seqs[batch[t][b]].position \in 0 .. Context - 1
  BY <1>1, <1>2, PagesOf, RuntimeAssumption
<1>4. Len(seqs[batch[t][b]].pages) =
         Keep(seqs[batch[t][b]].position) + One(batch[t][b] \in Firsts(appended[t]))
  BY DEF ThreadShape, StepTables, StepSizes
<1>5. Len(seqs[batch[t][b]].pages) \in Nat /\ Keep(seqs[batch[t][b]].position) \in Nat
  BY <1>1, <1>3, KeepNat, PagesOf
<1>6. seqs[batch[t][b]].position % PageTokens # 0 => Keep(seqs[batch[t][b]].position) > 0
  <2>1. PICK n \in Nat : n = seqs[batch[t][b]].position
    BY <1>3
  <2>2. n % PageTokens # 0 => Keep(n) = n \div PageTokens + 1
    BY KeepNat
  <2>3. n \div PageTokens \in Nat
    BY KeepNat
  <2> QED BY <2>1, <2>2, <2>3
<1>7. batch[t][b] \in Firsts(appended[t]) => Len(seqs[batch[t][b]].pages) > 0
  BY <1>4, <1>5 DEF One
<1>8. seqs[batch[t][b]].position % PageTokens # 0 => Len(seqs[batch[t][b]].pages) > 0
  BY <1>4, <1>5, <1>6 DEF One
<1> QED BY <1>1, <1>2, <1>3, <1>7, <1>8

\* A member that needs a page finds one in fresh, and the next member's index
\* into fresh follows.
LEMMA FreshLeft ==
  ASSUME TypeOK, NEW t \in Threads, ThreadShape(t), pc[t] = "apply"
  PROVE  /\ at[t] \in 1 .. Len(batch[t]) /\ at[t] \in 1 .. Len(needs[t])
         /\ next[t] + One(needs[t][at[t]] # "none") = CountNot(needs[t], at[t], "none")
         /\ CountNot(needs[t], at[t], "none") <= Len(fresh[t])
         /\ next[t] + One(needs[t][at[t]] # "none") <= Len(fresh[t])
<1>1. /\ at[t] \in 1 .. Len(batch[t]) /\ Len(needs[t]) = Len(batch[t])
      /\ Len(fresh[t]) = CountNot(needs[t], Len(batch[t]), "none")
      /\ next[t] = CountNot(needs[t], at[t] - 1, "none")
  BY DEF ThreadShape, InStep, StepPcs, StepArgs, StepPlan
<1>2. /\ at[t] - 1 \in Nat /\ at[t] \in Nat /\ at[t] - 1 + 1 = at[t]
      /\ Len(batch[t]) \in Nat /\ at[t] <= Len(batch[t])
  BY <1>1 DEF TypeOK
<1>3. CountNot(needs[t], at[t], "none") = next[t] + One(needs[t][at[t]] # "none")
  <2> DEFINE m == at[t] - 1
  <2>1. m \in Nat /\ at[t] = m + 1 /\ next[t] = CountNot(needs[t], m, "none")
    BY <1>1, <1>2
  <2> HIDE DEF m
  <2>2. CountNot(needs[t], m + 1, "none") =
            CountNot(needs[t], m, "none") + (IF needs[t][m + 1] # "none" THEN 1 ELSE 0)
    BY <2>1, CountNotStep
  <2> QED BY <2>1, <2>2 DEF One
<1>4. CountNot(needs[t], at[t], "none") <= CountNot(needs[t], Len(batch[t]), "none")
  BY <1>2, CountNotMonotone
<1> QED BY <1>1, <1>3, <1>4

LEMMA FreshPage ==
  ASSUME TypeOK, NEW t \in Threads, ThreadShape(t), pc[t] = "apply", needs[t][at[t]] # "none"
  PROVE  /\ next[t] + 1 \in 1 .. Len(fresh[t])
         /\ fresh[t][next[t] + 1] \in Pages
<1>1. next[t] \in Nat /\ fresh[t] \in Seq(Pages)
  BY DEF TypeOK
<1>2. next[t] + 1 <= Len(fresh[t])
  BY FreshLeft DEF One
<1> QED BY <1>1, <1>2

LEMMA CowMember ==
  ASSUME TypeOK, NEW t \in Threads, ThreadShape(t), pc[t] = "apply", needs[t][at[t]] = "cow"
  PROVE  /\ batch[t][at[t]] \in SeqIds
         /\ Len(seqs[batch[t][at[t]]].pages) > 0
         /\ Last(seqs[batch[t][at[t]]].pages) \in Pages
         /\ seqs[batch[t][at[t]]].position % PageTokens # 0
<1>1. at[t] \in 1 .. Len(batch[t]) /\ at[t] \in 1 .. Len(needs[t])
  BY FreshLeft
<1>2. seqs[batch[t][at[t]]].position % PageTokens # 0
  BY <1>1 DEF ThreadShape, InStep, StepPcs, StepPlan
<1>3. InStep(t)
  BY DEF InStep, StepPcs
<1>4. batch[t][at[t]] \in SeqIds /\ Len(seqs[batch[t][at[t]]].pages) > 0
  BY <1>1, <1>2, <1>3, MemberFacts
<1>5. Last(seqs[batch[t][at[t]]].pages) \in Pages
  BY <1>4, PagesOf, LastFront
<1> QED BY <1>2, <1>4, <1>5

\* The page that rollback takes from a member and gives back.
LEMMA AppendedFacts ==
  ASSUME TypeOK, NEW t \in Threads, ThreadShape(t), InStep(t), appended[t] # <<>>
  PROVE  /\ Len(appended[t]) >= 1 /\ Head(appended[t]) = appended[t][1]
         /\ Head(appended[t])[1] \in SeqIds /\ Head(appended[t])[2] \in Pages
         /\ Head(appended[t])[1] \in Members(t) /\ Head(appended[t])[1] \in Firsts(appended[t])
         /\ Len(seqs[Head(appended[t])[1]].pages) > 0
         /\ Last(seqs[Head(appended[t])[1]].pages) = Head(appended[t])[2]
<1>1. Len(appended[t]) >= 1 /\ Head(appended[t]) = appended[t][1] /\ appended[t][1] \in SeqIds \X Pages
  BY DEF TypeOK
<1>2. 1 \in 1 .. Len(appended[t])
  BY <1>1 DEF TypeOK
<1>3. /\ appended[t][1][1] \in Members(t)
      /\ Last(seqs[appended[t][1][1]].pages) = appended[t][1][2]
  BY <1>2 DEF ThreadShape, StepTables, StepAppended
<1>4. appended[t][1][1] \in Firsts(appended[t])
  BY <1>2 DEF Firsts
<1>5. Len(seqs[appended[t][1][1]].pages) > 0
  BY <1>3, <1>4, MemberFacts DEF Members
<1> QED BY <1>1, <1>3, <1>4, <1>5

LEMMA ReplacedFacts ==
  ASSUME TypeOK, NEW t \in Threads, ThreadShape(t), InStep(t), replaced[t] # <<>>
  PROVE  /\ Len(replaced[t]) >= 1 /\ Head(replaced[t]) = replaced[t][1]
         /\ Head(replaced[t])[1] \in SeqIds
         /\ Head(replaced[t])[2] \in Pages /\ Head(replaced[t])[3] \in Pages
         /\ Head(replaced[t])[1] \in Members(t)
         /\ Len(seqs[Head(replaced[t])[1]].pages) > 0
         /\ pc[t] # "restore" => Last(seqs[Head(replaced[t])[1]].pages) = Head(replaced[t])[3]
<1>1. /\ Len(replaced[t]) >= 1 /\ Head(replaced[t]) = replaced[t][1]
      /\ replaced[t][1] \in SeqIds \X Pages \X Pages
  BY DEF TypeOK
<1>2. 1 \in 1 .. Len(replaced[t])
  BY <1>1 DEF TypeOK
<1>3. /\ replaced[t][1][1] \in Members(t)
      /\ seqs[replaced[t][1][1]].position % PageTokens # 0
      /\ pc[t] # "restore" => Last(seqs[replaced[t][1][1]].pages) = replaced[t][1][3]
  BY <1>2 DEF ThreadShape, StepTables, StepReplaced
<1>5. Len(seqs[replaced[t][1][1]].pages) > 0
  BY <1>3, MemberFacts DEF Members
<1>6. replaced[t][1][1] \in SeqIds /\ replaced[t][1][2] \in Pages /\ replaced[t][1][3] \in Pages
  BY <1>1
<1> QED BY <1>1, <1>3, <1>5, <1>6

LEMMA UnchangedAllocInv ==
  ASSUME AllocInv, UNCHANGED allocVars
  PROVE  AllocInv'
  BY DEF AllocInv, AllocTypeOK, FreeDistinct, FreeIffUnheld, allocVars

LEMMA WantedCount ==
  ASSUME TypeOK, NEW t \in Threads, ThreadShape(t), pc[t] = "alloc"
  PROVE  /\ Wanted(t) = CountNot(needs[t], Len(batch[t]), "none")
         /\ Wanted(t) \in 0 .. Len(batch[t])
<1>1. Len(needs[t]) = Len(batch[t]) /\ Len(batch[t]) \in Nat
  BY DEF ThreadShape, InStep, StepPcs, StepPlan, TypeOK
<1>2. Wanted(t) = CountNot(needs[t], Len(batch[t]), "none")
  BY <1>1 DEF Wanted, CountNot
<1> QED BY <1>1, <1>2, CountNotType

LEMMA TopPagesFacts ==
  ASSUME AllocInv, NEW n \in Nat, n <= Len(free)
  PROVE  /\ TopPages(n) \in Seq(Pages) /\ Len(TopPages(n)) = n
         /\ \A i, j \in 1 .. n : TopPages(n)[i] = TopPages(n)[j] => i = j
         /\ \A i \in 1 .. n : refs[TopPages(n)[i]] = 0
<1>1. free \in Seq(Pages) /\ Len(free) \in Nat
  BY DEF AllocInv, AllocTypeOK
<1>2. \A i \in 1 .. n : Len(free) + 1 - i \in 1 .. Len(free)
  BY <1>1
<1>3. \A i \in 1 .. n : TopPages(n)[i] = free[Len(free) + 1 - i] /\ TopPages(n)[i] \in Pages
  BY <1>1, <1>2 DEF TopPages
<1>4. TopPages(n) \in Seq(Pages) /\ Len(TopPages(n)) = n
  BY <1>3 DEF TopPages
<1>5. ASSUME NEW i \in 1 .. n, NEW j \in 1 .. n, TopPages(n)[i] = TopPages(n)[j]
      PROVE  i = j
  <2>1. Len(free) + 1 - i = Len(free) + 1 - j
    BY <1>2, <1>3, <1>5 DEF AllocInv, FreeDistinct
  <2> QED BY <1>1, <2>1
<1>6. ASSUME NEW i \in 1 .. n PROVE refs[TopPages(n)[i]] = 0
  BY <1>2, <1>3 DEF AllocInv, FreeIffUnheld
<1> QED BY <1>4, <1>5, <1>6

LEMMA ShapeThread ==
  ASSUME Shape, NEW t \in Threads
  PROVE  ThreadShape(t)
  BY DEF Shape

SeqRecords == [state : {"none", "building", "live", "dying"},
               position : 0 .. Context, pages : Seq(Pages)]

\* A new value for one field of one sequence.
LEMMA SetPagesFacts ==
  ASSUME TypeOK, NEW s \in SeqIds, NEW q \in Seq(Pages), SetPages(s, q)
  PROVE  /\ seqs' \in [SeqIds -> SeqRecords]
         /\ seqs'[s].pages = q
         /\ seqs'[s].state = seqs[s].state /\ seqs'[s].position = seqs[s].position
         /\ \A r \in SeqIds : r # s => seqs'[r] = seqs[r]
         /\ PageTables' = [PageTables EXCEPT ![s] = q]
<1> DEFINE new == [seqs[s] EXCEPT !.pages = q]
<1>1. seqs \in [SeqIds -> SeqRecords]
  BY DEF TypeOK, SeqRecords
<1>2. /\ new \in SeqRecords /\ new.pages = q
      /\ new.state = seqs[s].state /\ new.position = seqs[s].position
  BY <1>1 DEF SeqRecords
<1>3. seqs' = [seqs EXCEPT ![s] = new]
  BY DEF SetPages
<1> HIDE DEF new, SeqRecords
<1>4. seqs' \in [SeqIds -> SeqRecords] /\ seqs'[s] = new /\ \A r \in SeqIds : r # s => seqs'[r] = seqs[r]
  BY <1>1, <1>2, <1>3
<1> QED BY <1>2, <1>4 DEF PageTables

LEMMA SetStateFacts ==
  ASSUME TypeOK, NEW s \in SeqIds, NEW w \in {"none", "building", "live", "dying"},
         seqs' = [seqs EXCEPT ![s].state = w]
  PROVE  /\ seqs' \in [SeqIds -> SeqRecords]
         /\ seqs'[s].state = w
         /\ seqs'[s].pages = seqs[s].pages /\ seqs'[s].position = seqs[s].position
         /\ \A r \in SeqIds : r # s => seqs'[r] = seqs[r]
         /\ PageTables' = PageTables
<1> DEFINE new == [seqs[s] EXCEPT !.state = w]
<1>1. seqs \in [SeqIds -> SeqRecords]
  BY DEF TypeOK, SeqRecords
<1>2. /\ new \in SeqRecords /\ new.state = w
      /\ new.pages = seqs[s].pages /\ new.position = seqs[s].position
  BY <1>1 DEF SeqRecords
<1>3. seqs' = [seqs EXCEPT ![s] = new]
  OBVIOUS
<1> HIDE DEF new, SeqRecords
<1>4. seqs' \in [SeqIds -> SeqRecords] /\ seqs'[s] = new /\ \A r \in SeqIds : r # s => seqs'[r] = seqs[r]
  BY <1>1, <1>2, <1>3
<1> QED BY <1>2, <1>4 DEF PageTables

LEMMA LiveCountStep ==
  ASSUME TypeOK, LiveExact, NEW s \in SeqIds,
         seqs' \in [SeqIds -> SeqRecords], \A r \in SeqIds : r # s => seqs'[r] = seqs[r]
  PROVE  /\ seqs[s].state \notin {"live", "dying"} /\ seqs'[s].state = "live"
              /\ liveCount' = liveCount + 1 => LiveExact'
         /\ seqs[s].state \in {"live", "dying"} /\ seqs'[s].state = "none"
              /\ liveCount' = liveCount - 1 => LiveExact' /\ liveCount >= 1
         /\ (seqs[s].state \in {"live", "dying"} <=> seqs'[s].state \in {"live", "dying"})
              /\ liveCount' = liveCount => LiveExact'
<1> DEFINE A == {r \in SeqIds : seqs[r].state \in {"live", "dying"}}
           B == {r \in SeqIds : seqs'[r].state \in {"live", "dying"}}
<1>1. IsFiniteSet(A) /\ Cardinality(A) = liveCount /\ liveCount \in Nat
  BY HandlesAssumption, FS_Subset DEF LiveExact, TypeOK
<1>2. LiveExact' <=> liveCount' = Cardinality(B)
  BY DEF LiveExact
<1>3. ASSUME seqs[s].state \notin {"live", "dying"}, seqs'[s].state = "live", liveCount' = liveCount + 1
      PROVE  LiveExact'
  <2>1. B = A \cup {s} /\ s \notin A
    BY <1>3
  <2> HIDE DEF A, B
  <2> QED BY <1>1, <1>2, <1>3, <2>1, AddOne
<1>4. ASSUME seqs[s].state \in {"live", "dying"}, seqs'[s].state = "none", liveCount' = liveCount - 1
      PROVE  LiveExact' /\ liveCount >= 1
  <2>1. B = A \ {s} /\ s \in A
    BY <1>4
  <2>2. A # {}
    BY <2>1
  <2> HIDE DEF A, B
  <2>3. Cardinality(A) # 0
    BY <1>1, <2>2, FS_EmptySet
  <2>4. Cardinality(A \ {s}) = Cardinality(A) - 1
    BY <1>1, <2>1, FS_RemoveElement
  <2> QED BY <1>1, <1>2, <1>4, <2>1, <2>3, <2>4
<1>5. ASSUME seqs[s].state \in {"live", "dying"} <=> seqs'[s].state \in {"live", "dying"}, liveCount' = liveCount
      PROVE  LiveExact'
  <2>1. B = A
    BY <1>5
  <2> QED BY <1>1, <1>2, <1>5, <2>1
<1> QED BY <1>3, <1>4, <1>5

LEMMA CallTypes ==
  ASSUME TypeOK, AllocInv, NEW t \in Threads, Call(t)
  PROVE  TypeOK' /\ AllocInv'
<1>1. UNCHANGED allocVars
  BY DEF Call, SequenceCall, StepCall, NewSequence, DestroyBegin, ForkBegin, TruncateBegin,
         StepRefused, StepEnter, vars, allocVars
<1>2. AllocInv'
  BY <1>1, UnchangedAllocInv
<1>3. AllocTypeOK'
  BY <1>2 DEF AllocInv
<1> HIDE DEF AllocTypeOK
<1>4. ASSUME NEW s \in SeqIds, NewSequence(t, s) PROVE TypeOK'
  <2>1. seqs' \in [SeqIds -> SeqRecords]
    BY <1>4, SetStateFacts DEF NewSequence
  <2>2. liveCount' \in Nat
    BY <1>4 DEF NewSequence, TypeOK
  <2> HIDE DEF SeqRecords
  <2> QED BY <1>3, <1>4, <2>1, <2>2 DEF TypeOK, NewSequence, stepVars, SeqRecords
<1>5. ASSUME NEW s \in SeqIds, DestroyBegin(t, s) PROVE TypeOK'
  <2>1. seqs' \in [SeqIds -> SeqRecords]
    BY <1>5, SetStateFacts DEF DestroyBegin
  <2> QED BY <1>3, <1>5, <2>1 DEF TypeOK, DestroyBegin, stepVars, Go, StepPcs, SeqRecords
<1>6. ASSUME NEW s \in SeqIds, NEW c \in SeqIds, ForkBegin(t, s, c) PROVE TypeOK'
  <2>1. seqs' \in [SeqIds -> SeqRecords]
    BY <1>6, SetStateFacts DEF ForkBegin
  <2> QED BY <1>3, <1>6, <2>1 DEF TypeOK, ForkBegin, stepVars, Go, StepPcs, SeqRecords
<1>7. ASSUME NEW s \in SeqIds, NEW n \in 0 .. Context, TruncateBegin(t, s, n) PROVE TypeOK'
  BY <1>3, <1>7 DEF TypeOK, TruncateBegin, stepVars, Go, StepPcs
<1>8. ASSUME StepRefused(t) PROVE TypeOK'
  BY <1>3, <1>8 DEF TypeOK, StepRefused, vars
<1>9. ASSUME NEW b \in Batches, NEW tk \in [1 .. Len(b) -> Tokens], StepEnter(t, b, tk) PROVE TypeOK'
  <2>1. b \in Seq(SeqIds) /\ tk \in Seq(Tokens)
    BY RuntimeAssumption DEF Batches
  <2> QED BY <1>3, <1>9, <2>1 DEF TypeOK, StepEnter, Go, StepPcs
<1> QED BY <1>2, <1>4, <1>5, <1>6, <1>7, <1>8, <1>9 DEF Call, SequenceCall, StepCall

LEMMA SequenceRunTypes ==
  ASSUME TypeOK, AllocInv, Shape, LiveExact, NEW t \in Threads, SequenceRun(t)
  PROVE  TypeOK' /\ AllocInv'
<1>0. ThreadShape(t) /\ TypeOK
  BY ShapeThread
<1>1. ASSUME ForkRetain(t) PROVE TypeOK' /\ AllocInv'
  <2>1. /\ tgt[t] \in SeqIds /\ child[t] \in SeqIds
        /\ at[t] \in 1 .. Len(seqs[tgt[t]].pages)
    BY <1>0, <1>1 DEF ThreadShape, ForkShape, ForkRetain, TypeOK
  <2>2. seqs[tgt[t]].pages[at[t]] \in Pages
    BY <2>1, PagesOf
  <2>3. AllocInv'
    BY <1>1, <2>2, RetainInv DEF ForkRetain
  <2>4. AllocTypeOK'
    BY <2>3 DEF AllocInv
  <2>5. SetPages(child[t], Append(seqs[child[t]].pages, seqs[tgt[t]].pages[at[t]]))
    BY <1>1 DEF ForkRetain, SetPages
  <2>6. Append(seqs[child[t]].pages, seqs[tgt[t]].pages[at[t]]) \in Seq(Pages)
    BY <2>1, <2>2, PagesOf
  <2>7. seqs' \in [SeqIds -> SeqRecords]
    BY <2>1, <2>5, <2>6, SetPagesFacts
  <2>8. at' \in [Threads -> Nat]
    BY <1>1, SMTT(30) DEF ForkRetain, Bump, TypeOK
  <2> HIDE DEF AllocTypeOK
  <2> QED BY <1>1, <2>3, <2>4, <2>7, <2>8 DEF TypeOK, ForkRetain, stepVars, SeqRecords
<1>2. ASSUME ForkEnd(t) PROVE TypeOK' /\ AllocInv'
  <2>1. /\ tgt[t] \in SeqIds /\ child[t] \in SeqIds
    BY <1>0, <1>2 DEF ThreadShape, ForkShape, ForkEnd
  <2>2. AllocInv' /\ AllocTypeOK'
    BY <1>2, UnchangedAllocInv DEF ForkEnd, AllocInv
  <2>3. seqs' \in [SeqIds -> SeqRecords]
    BY <1>2, <2>1 DEF TypeOK, ForkEnd, SeqRecords
  <2>4. liveCount' \in Nat
    BY <1>2 DEF TypeOK, ForkEnd
  <2> HIDE DEF AllocTypeOK
  <2> QED BY <1>2, <2>1, <2>2, <2>3, <2>4 DEF TypeOK, ForkEnd, Go, stepVars, StepPcs, SeqRecords
<1>3. ASSUME DestroyRelease(t) PROVE TypeOK' /\ AllocInv'
  <2>1. tgt[t] \in SeqIds /\ seqs[tgt[t]].pages # <<>>
    BY <1>0, <1>3 DEF ThreadShape, DestroyShape, DestroyRelease
  <2>2. Head(seqs[tgt[t]].pages) \in Pages /\ Tail(seqs[tgt[t]].pages) \in Seq(Pages)
    BY <2>1, PagesOf
  <2>3. AllocInv' /\ AllocTypeOK'
    BY <1>3, <2>2, ReleaseInv DEF DestroyRelease, AllocInv
  <2> HIDE DEF AllocTypeOK
  <2> QED BY <1>3, <2>1, <2>2, <2>3 DEF TypeOK, DestroyRelease, SetPages, stepVars
<1>4. ASSUME DestroyEnd(t) PROVE TypeOK' /\ AllocInv'
  <2>1. AllocInv' /\ AllocTypeOK'
    BY <1>4, UnchangedAllocInv DEF DestroyEnd, AllocInv
  <2>2. tgt[t] \in SeqIds
    BY <1>0, <1>4 DEF ThreadShape, DestroyShape, DestroyEnd
  <2>3. DeadSeq \in SeqRecords /\ DeadSeq.state = "none"
    BY RuntimeAssumption DEF DeadSeq, SeqRecords
  <2>4. /\ seqs' \in [SeqIds -> SeqRecords] /\ seqs'[tgt[t]] = DeadSeq
        /\ \A r \in SeqIds : r # tgt[t] => seqs'[r] = seqs[r]
    BY <1>4, <2>2, <2>3 DEF DestroyEnd, TypeOK, SeqRecords
  <2>5. seqs[tgt[t]].state = "dying"
    BY <1>0, <1>4 DEF ThreadShape, DestroyShape, DestroyEnd
  <2>7. liveCount' = liveCount - 1 /\ liveCount \in Nat
    BY <1>4 DEF DestroyEnd, TypeOK
  <2>8. liveCount >= 1
    BY <2>2, <2>3, <2>4, <2>5, <2>7, LiveCountStep
  <2>6. liveCount' \in Nat
    BY <2>7, <2>8
  <2> HIDE DEF AllocTypeOK, DeadSeq
  <2> QED BY <1>4, <2>1, <2>2, <2>4, <2>6 DEF TypeOK, DestroyEnd, Go, stepVars, StepPcs, SeqRecords
<1>5. ASSUME TruncateRelease(t) PROVE TypeOK' /\ AllocInv'
  <2>1. tgt[t] \in SeqIds /\ goal[t] \in Nat
    BY <1>0, <1>5 DEF ThreadShape, TruncateShape, TruncateRelease, TypeOK
  <2>2. Len(seqs[tgt[t]].pages) > 0
    <3>1. Keep(goal[t]) \in Nat
      BY <2>1, KeepNat
    <3> QED BY <1>5, <2>1, <3>1, PagesOf DEF TruncateRelease
  <2>3. Last(seqs[tgt[t]].pages) \in Pages /\ Front(seqs[tgt[t]].pages) \in Seq(Pages)
    BY <2>1, <2>2, PagesOf, LastFront
  <2>4. AllocInv' /\ AllocTypeOK'
    BY <1>5, <2>3, ReleaseInv DEF TruncateRelease, AllocInv
  <2> HIDE DEF AllocTypeOK
  <2> QED BY <1>5, <2>1, <2>3, <2>4 DEF TypeOK, TruncateRelease, SetPages, stepVars
<1>6. ASSUME TruncateEnd(t) PROVE TypeOK' /\ AllocInv'
  <2>1. AllocInv' /\ AllocTypeOK'
    BY <1>6, UnchangedAllocInv DEF TruncateEnd, AllocInv
  <2>2. tgt[t] \in SeqIds /\ goal[t] \in 0 .. Context
    BY <1>0, <1>6 DEF ThreadShape, TruncateShape, TruncateEnd, TypeOK
  <2>3. 0 \in 0 .. Context
    BY RuntimeAssumption
  <2> HIDE DEF AllocTypeOK
  <2> QED BY <1>6, <2>1, <2>2, <2>3 DEF TypeOK, TruncateEnd, Go, stepVars, StepPcs
<1> QED BY <1>1, <1>2, <1>3, <1>4, <1>5, <1>6 DEF SequenceRun

\* The locals of step().
LocalsOK ==
    /\ stepping \in BOOLEAN
    /\ pc \in [Threads -> StepPcs \cup {"idle", "fork", "destroy", "truncate"}]
    /\ at \in [Threads -> Nat]
    /\ batch \in [Threads -> Seq(SeqIds)]
    /\ toks \in [Threads -> Seq(Tokens)]
    /\ needs \in [Threads -> Seq({"new", "cow", "none"})]
    /\ fresh \in [Threads -> Seq(Pages)]
    /\ next \in [Threads -> Nat]
    /\ appended \in [Threads -> Seq(SeqIds \X Pages)]
    /\ replaced \in [Threads -> Seq(SeqIds \X Pages \X Pages)]

LEMMA PutIn ==
  ASSUME NEW S, NEW T, NEW f \in [S -> T], NEW t \in S, NEW v \in T,
         NEW g, g = [f EXCEPT ![t] = v]
  PROVE  g \in [S -> T] /\ g[t] = v /\ \A u \in S : u # t => g[u] = f[u]
  OBVIOUS

\* Three shapes of update of a local.
LEMMA BumpIn ==
  ASSUME NEW S, NEW f \in [S -> Nat], NEW t \in S, NEW k \in Nat,
         NEW g, g = [f EXCEPT ![t] = @ + k]
  PROVE  g \in [S -> Nat] /\ g[t] = f[t] + k /\ \A u \in S : u # t => g[u] = f[u]
  OBVIOUS

LEMMA AppendIn ==
  ASSUME NEW S, NEW T, NEW f \in [S -> Seq(T)], NEW t \in S, NEW v \in T,
         NEW g, g = [f EXCEPT ![t] = Append(@, v)]
  PROVE  /\ g \in [S -> Seq(T)] /\ g[t] = Append(f[t], v) /\ \A u \in S : u # t => g[u] = f[u]
         /\ Len(g[t]) = Len(f[t]) + 1 /\ g[t][Len(f[t]) + 1] = v
         /\ \A i \in 1 .. Len(f[t]) : g[t][i] = f[t][i]
  OBVIOUS

LEMMA TailIn ==
  ASSUME NEW S, NEW T, NEW f \in [S -> Seq(T)], NEW t \in S, f[t] # <<>>,
         NEW g, g = [f EXCEPT ![t] = Tail(@)]
  PROVE  /\ g \in [S -> Seq(T)] /\ g[t] = Tail(f[t]) /\ \A u \in S : u # t => g[u] = f[u]
         /\ Len(f[t]) >= 1 /\ Len(g[t]) = Len(f[t]) - 1
         /\ \A i \in 1 .. Len(f[t]) - 1 : g[t][i] = f[t][i + 1]
  OBVIOUS

LEMMA LeaveTypes ==
  ASSUME TypeOK, NEW t \in Threads, Leave(t)
  PROVE  LocalsOK'
<1>1. LocalsOK
  BY DEF TypeOK, LocalsOK
<1>2. stepping' \in BOOLEAN /\ pc' \in [Threads -> StepPcs \cup {"idle", "fork", "destroy", "truncate"}]
  BY <1>1 DEF LocalsOK, Leave, Go
<1>3. at' \in [Threads -> Nat] /\ next' \in [Threads -> Nat]
  BY <1>1 DEF LocalsOK, Leave
<1>4. /\ batch' \in [Threads -> Seq(SeqIds)] /\ toks' \in [Threads -> Seq(Tokens)]
      /\ needs' \in [Threads -> Seq({"new", "cow", "none"})]
      /\ fresh' \in [Threads -> Seq(Pages)]
      /\ appended' \in [Threads -> Seq(SeqIds \X Pages)]
      /\ replaced' \in [Threads -> Seq(SeqIds \X Pages \X Pages)]
  <2>1. \A T : <<>> \in Seq(T)
    OBVIOUS
  <2> QED BY <1>1, <2>1, PutIn DEF LocalsOK, Leave
<1> QED BY <1>2, <1>3, <1>4 DEF LocalsOK

LEMMA NextMemberTypes ==
  ASSUME TypeOK, NEW t \in Threads, NextMember(t)
  PROVE  /\ at' \in [Threads -> Nat]
         /\ pc' \in [Threads -> StepPcs \cup {"idle", "fork", "destroy", "truncate"}]
<1>1. /\ at \in [Threads -> Nat]
      /\ pc \in [Threads -> StepPcs \cup {"idle", "fork", "destroy", "truncate"}]
  BY DEF TypeOK
<1>2. at' \in [Threads -> Nat]
  BY <1>1, BumpIn, PutIn DEF NextMember, Bump
<1> QED BY <1>1, <1>2 DEF NextMember, Go, StepPcs

LEMMA StepTypes ==
  ASSUME TypeOK, LocalsOK', AllocInv',
         seqs' \in [SeqIds -> SeqRecords], kv' \in [Pages -> [Slots -> Tokens \cup {Junk}]],
         UNCHANGED <<liveCount, tgt, child, goal>>
  PROVE  TypeOK' /\ AllocInv'
<1>1. AllocTypeOK'
  BY DEF AllocInv
<1> HIDE DEF AllocTypeOK
<1> QED BY <1>1 DEF TypeOK, LocalsOK, SeqRecords

LEMMA SeqsKv ==
  ASSUME TypeOK
  PROVE  /\ LocalsOK /\ seqs \in [SeqIds -> SeqRecords]
         /\ kv \in [Pages -> [Slots -> Tokens \cup {Junk}]]
  BY DEF TypeOK, LocalsOK, SeqRecords

LEMMA StoredTypes ==
  ASSUME TypeOK, NEW t \in Threads, StepArgs(t), NEW W \in SUBSET (1 .. Len(batch[t]))
  PROVE  Stored(t, W) \in [Pages -> [Slots -> Tokens \cup {Junk}]]
<1>1. \A b \in W : toks[t][b] \in Tokens
  BY DEF TypeOK, StepArgs
<1>2. kv \in [Pages -> [Slots -> Tokens \cup {Junk}]]
  BY SeqsKv
<1>3. ASSUME NEW p \in Pages, NEW i \in Slots
      PROVE  LET hit == {b \in W : /\ Target(batch[t][b]) = p
                                   /\ seqs[batch[t][b]].position % PageTokens = i}
             IN  (IF hit = {} THEN kv[p][i] ELSE toks[t][CHOOSE b \in hit : TRUE]) \in Tokens \cup {Junk}
  BY <1>1, <1>2
<1> QED BY <1>3 DEF Stored

LEMMA StepStartTypes ==
  ASSUME TypeOK, AllocInv, NEW t \in Threads, ThreadShape(t), StepNeeds(t) \/ StepAlloc(t)
  PROVE  TypeOK' /\ AllocInv'
<1>0. SeqRecords = SeqRecords' /\ Pages = Pages' /\ Slots = Slots'
  BY DEF SeqRecords, Pages, Slots
<1>1. CASE StepNeeds(t)
  <2>1. AllocInv'
    BY <1>1, UnchangedAllocInv DEF StepNeeds
  <2>2. Need(batch[t][at[t]]) \in {"new", "cow", "none"}
    BY DEF Need
  <2> HIDE DEF Need
  <2>3. LocalsOK'
    <3>1. LocalsOK
      BY SeqsKv
    <3>2. needs' \in [Threads -> Seq({"new", "cow", "none"})]
      BY <1>1, <2>2, <3>1, AppendIn DEF StepNeeds, LocalsOK
    <3>3. at' \in [Threads -> Nat]
      <4>1. at \in [Threads -> Nat] /\ (at' = Bump(at, t) \/ at' = [at EXCEPT ![t] = 1])
        BY <1>1, <3>1 DEF StepNeeds, LocalsOK
      <4> QED BY <4>1 DEF Bump
    <3>4. pc' \in [Threads -> StepPcs \cup {"idle", "fork", "destroy", "truncate"}]
      BY <1>1, <3>1 DEF StepNeeds, LocalsOK, Go, StepPcs
    <3> QED BY <1>1, <3>1, <3>2, <3>3, <3>4 DEF LocalsOK, StepNeeds
  <2> QED BY <1>1, <2>1, <2>3, SeqsKv, StepTypes DEF StepNeeds
<1>2. CASE StepAlloc(t)
  <2>1. Wanted(t) \in Nat
    BY <1>2, WantedCount DEF StepAlloc
  <2>2. AllocInv'
    BY <1>2, <2>1, AllocateManyInv DEF StepAlloc
  <2>3. LocalsOK'
    <3>1. CASE Leave(t)
      BY <3>1, LeaveTypes
    <3>2. CASE /\ Len(free) >= Wanted(t)
               /\ fresh' = [fresh EXCEPT ![t] = TopPages(Wanted(t))]
               /\ Go(t, "apply")
               /\ UNCHANGED <<stepping, at, batch, toks, needs, next, appended, replaced>>
      <4>1. TopPages(Wanted(t)) \in Seq(Pages)
        BY <2>1, <3>2, TopPagesFacts DEF AllocInv, AllocTypeOK
      <4> HIDE DEF TopPages, Wanted
      <4> QED BY <3>2, <4>1, SeqsKv DEF LocalsOK, Go, StepPcs
    <3> QED BY <1>2, <3>1, <3>2 DEF StepAlloc
  <2> QED BY <1>2, <2>2, <2>3, SeqsKv, StepTypes DEF StepAlloc
<1> QED BY <1>1, <1>2

LEMMA StepApplyTypes ==
  ASSUME TypeOK, AllocInv, NEW t \in Threads, ThreadShape(t),
         ApplyNone(t) \/ ApplyNew(t) \/ ApplyCow(t) \/ CopyFails(t)
  PROVE  TypeOK' /\ AllocInv'
<1> DEFINE s == batch[t][at[t]]
           page == fresh[t][next[t] + 1]
           old == Last(seqs[s].pages)
<1>0. pc[t] = "apply" /\ InStep(t)
  BY DEF ApplyNone, ApplyNew, ApplyCow, CopyFails, InStep, StepPcs
<1>s. s \in SeqIds /\ seqs[s].pages \in Seq(Pages)
  BY <1>0, FreshLeft, MemberFacts, PagesOf
<1>1. CASE ApplyNone(t)
  <2>1. AllocInv'
    BY <1>1, UnchangedAllocInv DEF ApplyNone
  <2>2. LocalsOK'
    BY <1>1, NextMemberTypes, SeqsKv DEF ApplyNone, LocalsOK, stepVars
  <2> QED BY <1>1, <2>1, <2>2, SeqsKv, StepTypes DEF ApplyNone
<1>2. CASE ApplyNew(t)
  <2>1. page \in Pages
    BY <1>0, <1>2, FreshPage DEF ApplyNew
  <2>2. AllocInv'
    BY <1>2, UnchangedAllocInv DEF ApplyNew
  <2>3. Append(seqs[s].pages, page) \in Seq(Pages) /\ SetPages(s, Append(seqs[s].pages, page))
    BY <1>2, <1>s, <2>1 DEF ApplyNew
  <2>4. seqs' \in [SeqIds -> SeqRecords]
    BY <1>s, <2>3, SetPagesFacts
  <2>5. LocalsOK'
    <3>1. appended' = [appended EXCEPT ![t] = Append(@, <<s, page>>)]
      BY <1>2 DEF ApplyNew
    <3> HIDE DEF s, page
    <3>4. LocalsOK
      BY SeqsKv
    <3>2. appended' \in [Threads -> Seq(SeqIds \X Pages)]
      BY <1>s, <2>1, <3>1, <3>4, AppendIn, SMTT(30) DEF LocalsOK
    <3>3. next' \in [Threads -> Nat]
      BY <1>2, <3>4, BumpIn DEF ApplyNew, Bump, LocalsOK
    <3> QED BY <1>2, <3>2, <3>3, NextMemberTypes, SeqsKv DEF ApplyNew, LocalsOK
  <2> QED BY <1>2, <2>2, <2>4, <2>5, SeqsKv, StepTypes DEF ApplyNew
<1>3. CASE ApplyCow(t)
  <2>1. page \in Pages /\ old \in Pages /\ Len(seqs[s].pages) > 0
    BY <1>0, <1>3, FreshPage, CowMember DEF ApplyCow
  <2>2. AllocInv'
    BY <1>3, <2>1, ReleaseInv DEF ApplyCow
  <2>3. Append(Front(seqs[s].pages), page) \in Seq(Pages) /\ SetPages(s, Append(Front(seqs[s].pages), page))
    BY <1>3, <1>s, <2>1, LastFront DEF ApplyCow
  <2>4. seqs' \in [SeqIds -> SeqRecords]
    BY <1>s, <2>3, SetPagesFacts
  <2>5. kv' \in [Pages -> [Slots -> Tokens \cup {Junk}]]
    BY <1>3, <2>1, SeqsKv DEF ApplyCow
  <2>6. LocalsOK'
    <3>1. replaced' = [replaced EXCEPT ![t] = Append(@, <<s, old, page>>)]
      BY <1>3 DEF ApplyCow
    <3> HIDE DEF s, page, old
    <3>4. LocalsOK
      BY SeqsKv
    <3>2. replaced' \in [Threads -> Seq(SeqIds \X Pages \X Pages)]
      BY <1>s, <2>1, <3>1, <3>4, AppendIn, SMTT(30) DEF LocalsOK
    <3>3. next' \in [Threads -> Nat]
      BY <1>3, <3>4, BumpIn DEF ApplyCow, Bump, LocalsOK
    <3> QED BY <1>3, <3>2, <3>3, NextMemberTypes, SeqsKv DEF ApplyCow, LocalsOK
  <2> QED BY <1>3, <2>2, <2>4, <2>5, <2>6, StepTypes DEF ApplyCow
<1>4. CASE CopyFails(t)
  <2>1. page \in Pages
    BY <1>0, <1>4, FreshPage DEF CopyFails
  <2>2. AllocInv'
    BY <1>4, <2>1, ReleaseInv DEF CopyFails
  <2>3. LocalsOK'
    <3>1. LocalsOK
      BY SeqsKv
    <3>2. next' \in [Threads -> Nat]
      BY <1>4, <3>1, BumpIn DEF CopyFails, LocalsOK
    <3> QED BY <1>4, <3>1, <3>2 DEF CopyFails, LocalsOK, Go, StepPcs
  <2> QED BY <1>4, <2>2, <2>3, SeqsKv, StepTypes DEF CopyFails
<1> QED BY <1>1, <1>2, <1>3, <1>4

LEMMA StepKernelTypes ==
  ASSUME TypeOK, AllocInv, NEW t \in Threads, ThreadShape(t),
         StepKernel(t) \/ KernelFails(t) \/ StepCommit(t)
  PROVE  TypeOK' /\ AllocInv'
<1>0. StepArgs(t)
  BY DEF StepKernel, KernelFails, StepCommit, ThreadShape, InStep, StepPcs
<1>a. AllocInv'
  BY UnchangedAllocInv DEF StepKernel, KernelFails, StepCommit
<1>1. CASE StepKernel(t)
  <2>1. kv' \in [Pages -> [Slots -> Tokens \cup {Junk}]]
    BY <1>0, <1>1, StoredTypes DEF StepKernel
  <2>2. LocalsOK'
    BY <1>1, SeqsKv DEF StepKernel, LocalsOK, Go, StepPcs, stepVars
  <2> QED BY <1>1, <1>a, <2>1, <2>2, SeqsKv, StepTypes DEF StepKernel
<1>2. CASE KernelFails(t)
  <2>1. kv' \in [Pages -> [Slots -> Tokens \cup {Junk}]]
    BY <1>0, <1>2, StoredTypes DEF KernelFails
  <2>2. LocalsOK'
    BY <1>2, SeqsKv DEF KernelFails, LocalsOK, Go, StepPcs, stepVars
  <2> QED BY <1>2, <1>a, <2>1, <2>2, SeqsKv, StepTypes DEF KernelFails
<1>3. CASE StepCommit(t)
  <2>1. LocalsOK'
    BY <1>3, LeaveTypes DEF StepCommit
  <2>2. ASSUME NEW s \in SeqIds, NEW b \in 1 .. Len(batch[t]), batch[t][b] = s
        PROVE  [seqs[s] EXCEPT !.position = @ + 1] \in SeqRecords
    <3>1. seqs[s] \in SeqRecords /\ seqs[s].position < Context
      BY <1>0, <2>2, SeqsKv DEF StepArgs
    <3>2. seqs[s].position + 1 \in 0 .. Context
      BY <3>1, RuntimeAssumption DEF SeqRecords
    <3> QED BY <3>1, <3>2 DEF SeqRecords
  <2>3. seqs' \in [SeqIds -> SeqRecords]
    BY <1>3, <2>2, SeqsKv DEF StepCommit
  <2> QED BY <1>3, <1>a, <2>1, <2>3, SeqsKv, StepTypes DEF StepCommit
<1> QED BY <1>1, <1>2, <1>3

LEMMA StepUnwindTypes ==
  ASSUME TypeOK, AllocInv, NEW t \in Threads, ThreadShape(t),
         \/ UnwindFresh(t) \/ RollbackAppended(t) \/ RollbackRetain(t)
         \/ RollbackRelease(t) \/ StepThrow(t)
  PROVE  TypeOK' /\ AllocInv'
<1>0. InStep(t)
  BY DEF UnwindFresh, RollbackAppended, RollbackRetain, RollbackRelease, StepThrow, InStep, StepPcs
<1>1. CASE UnwindFresh(t)
  <2>1. next[t] + 1 \in 1 .. Len(fresh[t]) /\ fresh[t] \in Seq(Pages)
    BY <1>1 DEF UnwindFresh, TypeOK
  <2>2. fresh[t][next[t] + 1] \in Pages
    BY <2>1
  <2>3. AllocInv'
    BY <1>1, <2>2, ReleaseInv DEF UnwindFresh
  <2>4. LocalsOK'
    <3>1. LocalsOK
      BY SeqsKv
    <3>2. next' \in [Threads -> Nat]
      BY <1>1, <3>1, BumpIn DEF UnwindFresh, LocalsOK, Bump
    <3> QED BY <1>1, <3>1, <3>2 DEF UnwindFresh, LocalsOK
  <2> QED BY <1>1, <2>3, <2>4, SeqsKv, StepTypes DEF UnwindFresh
<1>2. CASE RollbackAppended(t)
  <2> DEFINE s == Head(appended[t])[1]
  <2>1. /\ s \in SeqIds /\ Head(appended[t])[2] \in Pages /\ Len(seqs[s].pages) > 0
        /\ seqs[s].pages \in Seq(Pages)
    BY <1>0, <1>2, AppendedFacts, PagesOf DEF RollbackAppended
  <2>2. AllocInv'
    BY <1>2, <2>1, ReleaseInv DEF RollbackAppended
  <2>3. Front(seqs[s].pages) \in Seq(Pages) /\ SetPages(s, Front(seqs[s].pages))
    BY <1>2, <2>1, LastFront DEF RollbackAppended
  <2>4. seqs' \in [SeqIds -> SeqRecords]
    BY <2>1, <2>3, SetPagesFacts
  <2>5. appended' \in [Threads -> Seq(SeqIds \X Pages)]
    BY <1>2, SeqsKv, TailIn DEF RollbackAppended, LocalsOK
  <2>6. LocalsOK'
    BY <1>2, <2>5, SeqsKv DEF RollbackAppended, LocalsOK
  <2> QED BY <1>2, <2>2, <2>4, <2>6, SeqsKv, StepTypes DEF RollbackAppended
<1>3. CASE RollbackRetain(t)
  <2> DEFINE r == Head(replaced[t])
             s == r[1]
  <2>1. /\ s \in SeqIds /\ r[2] \in Pages /\ Len(seqs[s].pages) > 0
        /\ seqs[s].pages \in Seq(Pages)
    BY <1>0, <1>3, ReplacedFacts, PagesOf DEF RollbackRetain
  <2>2. AllocInv'
    BY <1>3, <2>1, RetainInv DEF RollbackRetain
  <2>3. Append(Front(seqs[s].pages), r[2]) \in Seq(Pages) /\ SetPages(s, Append(Front(seqs[s].pages), r[2]))
    BY <1>3, <2>1, LastFront, SMTT(20) DEF RollbackRetain
  <2>4. seqs' \in [SeqIds -> SeqRecords]
    BY <2>1, <2>3, SetPagesFacts
  <2>5. CASE Leave(t)
    BY <1>3, <2>2, <2>4, <2>5, LeaveTypes, SeqsKv, StepTypes DEF RollbackRetain
  <2>6. CASE Go(t, "restore") /\ UNCHANGED <<stepping, at, stepVars>>
    <3>1. LocalsOK'
      BY <2>6, SeqsKv DEF LocalsOK, Go, StepPcs, stepVars
    <3> QED BY <1>3, <2>2, <2>4, <3>1, SeqsKv, StepTypes DEF RollbackRetain
  <2> QED BY <1>3, <2>5, <2>6 DEF RollbackRetain
<1>4. CASE RollbackRelease(t)
  <2>1. replaced[t] # <<>>
    BY <1>4 DEF RollbackRelease, ThreadShape, InStep, StepPcs, StepTables, StepPhase
  <2>2. Head(replaced[t])[3] \in Pages
    BY <1>0, <2>1, ReplacedFacts
  <2>3. AllocInv'
    BY <1>4, <2>2, ReleaseInv DEF RollbackRelease
  <2>4. replaced' \in [Threads -> Seq(SeqIds \X Pages \X Pages)]
    BY <1>4, <2>1, SeqsKv, TailIn DEF RollbackRelease, LocalsOK
  <2>5. LocalsOK'
    BY <1>4, <2>4, SeqsKv DEF RollbackRelease, LocalsOK, Go, StepPcs
  <2> QED BY <1>4, <2>3, <2>5, SeqsKv, StepTypes DEF RollbackRelease
<1>5. CASE StepThrow(t)
  <2>1. AllocInv' /\ LocalsOK'
    BY <1>5, UnchangedAllocInv, LeaveTypes DEF StepThrow
  <2> QED BY <1>5, <2>1, SeqsKv, StepTypes DEF StepThrow
<1> QED BY <1>1, <1>2, <1>3, <1>4, <1>5

LEMMA EveryStepTypes ==
  ASSUME TypeOK, AllocInv, Shape, LiveExact, NEW t \in Threads, Call(t) \/ Run(t)
  PROVE  TypeOK' /\ AllocInv'
<1>1. ThreadShape(t)
  BY ShapeThread
<1> QED BY <1>1, CallTypes, SequenceRunTypes, StepStartTypes, StepApplyTypes, StepKernelTypes,
           StepUnwindTypes DEF Run, StepRun

-----------------------------------------------------------------------------
(***************************************************************************)
(* Every call keeps Shape, unless callers fork a sequence that is being    *)
(* stepped.                                                                *)
(***************************************************************************)
\* What every step of thread t may use.
Setting(t) ==
    /\ TypeOK /\ AllocInv /\ Shape /\ LiveExact
    /\ TypeOK' /\ AllocInv' /\ OneStep'
    /\ \A u \in Threads : u # t => Quiet(u)

LEMMA SettingHolds ==
  ASSUME TypeOK, AllocInv, Shape, LiveExact, NEW t \in Threads, Call(t) \/ Run(t)
  PROVE  Setting(t)
<1>1. TypeOK' /\ AllocInv'
  BY EveryStepTypes
<1>2. OneStep'
  BY EveryCallMoves, MovesKeepOneStep DEF Shape, TypeOK, PcTypeOK
<1> QED BY <1>1, <1>2, OthersQuiet DEF Setting

LEMMA LiveSame ==
  ASSUME LiveExact, \A s \in SeqIds : seqs'[s].state = seqs[s].state, liveCount' = liveCount
  PROVE  LiveExact'
<1>1. {s \in SeqIds : seqs'[s].state \in {"live", "dying"}} = {s \in SeqIds : seqs[s].state \in {"live", "dying"}}
  OBVIOUS
<1> QED BY <1>1 DEF LiveExact

\* Nobody uses a sequence that does not exist; nobody else uses one that is
\* live and exclusive.
LEMMA FreeOfOthers ==
  ASSUME Shape, NEW u \in Threads, NEW s \in SeqIds
  PROVE  /\ seqs[s].state = "none" => ~Writes(u, s) /\ ~Reads(u, s)
         /\ Ready(s) /\ Exclusive(s) => ~Writes(u, s) /\ ~Reads(u, s)
<1>1. ThreadShape(u)
  BY ShapeThread
<1>2. seqs[s].state = "none" => ~Writes(u, s) /\ ~Reads(u, s)
  BY <1>1, UsedExists
<1>3. ASSUME Ready(s), Exclusive(s), Writes(u, s) \/ Reads(u, s) PROVE FALSE
  <2>1. u \notin Changing(s) /\ u \notin Forking(s)
    BY <1>3 DEF Exclusive
  <2>2. pc[u] = "fork" /\ child[u] = s
    BY <1>3, <2>1 DEF Writes, Reads, Changing, Forking, InStep, Members
  <2> QED BY <1>1, <1>3, <2>2 DEF ThreadShape, ForkShape, Ready
<1> QED BY <1>2, <1>3

LEMMA OutsideStays ==
  ASSUME NEW t \in Threads, ThreadShape(t), ~InStep(t), UNCHANGED stepVars
  PROVE  OutsideStep(t)'
  BY DEF ThreadShape, OutsideStep, stepVars

LEMMA NewSequenceShape ==
  ASSUME NEW t \in Threads, Setting(t), NEW s \in SeqIds, NewSequence(t, s)
  PROVE  Shape' /\ LiveExact'
<1> USE DEF Setting
<1>1. /\ seqs' \in [SeqIds -> SeqRecords]
      /\ seqs'[s].state = "live" /\ seqs'[s].pages = seqs[s].pages /\ seqs'[s].position = seqs[s].position
      /\ \A r \in SeqIds : r # s => seqs'[r] = seqs[r]
  BY SetStateFacts DEF NewSequence
<1>2. seqs[s] = DeadSeq /\ seqs[s].state = "none"
  BY DEF Shape, SeqShape, NewSequence
<1>3. \A r \in SeqIds : ~Writes(t, r) /\ ~Reads(t, r) /\ ~Writes(t, r)' /\ ~Reads(t, r)'
  BY DEF NewSequence, Writes, Reads, InStep, StepPcs
<1>4. SeqShape(s)'
  <2>1. Keep(0) = 0
    BY KeepNat, RuntimeAssumption DEF Keep
  <2> QED BY <1>1, <1>2, <2>1 DEF SeqShape, DeadSeq
<1>5. ThreadShape(t)'
  <2>1. OutsideStep(t)'
    BY ShapeThread, OutsideStays DEF NewSequence, InStep, StepPcs
  <2> QED BY <2>1 DEF NewSequence, ThreadShape, InStep, StepPcs
<1>6. LiveExact'
  BY <1>1, <1>2, LiveCountStep DEF NewSequence
<1>7. \A r \in SeqIds : seqs'[r] = seqs[r] \/ seqs[r].state = "none"
  BY <1>1, <1>2
<1> QED BY <1>1, <1>3, <1>4, <1>5, <1>6, <1>7, ShapeStep

LEMMA ForkBeginShape ==
  ASSUME NEW t \in Threads, Setting(t), ~ForkDuringStep, NEW s \in SeqIds, NEW c \in SeqIds,
         ForkBegin(t, s, c)
  PROVE  Shape' /\ LiveExact'
<1> USE DEF Setting
<1>1. /\ seqs' \in [SeqIds -> SeqRecords]
      /\ seqs'[c].state = "building" /\ seqs'[c].pages = seqs[c].pages
      /\ \A r \in SeqIds : r # c => seqs'[r] = seqs[r]
  BY SetStateFacts DEF ForkBegin
<1>2. seqs[c] = DeadSeq /\ seqs[c].state = "none" /\ seqs[s].state = "live" /\ s # c
  BY DEF Shape, SeqShape, ForkBegin, Ready
<1>3. /\ pc[t] = "idle" /\ pc'[t] = "fork" /\ tgt'[t] = s /\ child'[t] = c /\ at'[t] = 1
  BY DEF ForkBegin, Go, TypeOK
<1>4. \A r \in SeqIds : ~Writes(t, r) /\ ~Reads(t, r) /\ (Writes(t, r)' <=> r = c) /\ (Reads(t, r)' <=> r = s)
  BY <1>3 DEF Writes, Reads, InStep, StepPcs
<1>5. \A u \in Threads : ~Writes(u, c) /\ ~Reads(u, c)
  BY <1>2, FreeOfOthers
<1>6. ASSUME NEW u \in Threads, u # t, Writes(u, s) PROVE FALSE
  <2>1. u \notin Changing(s)
    BY DEF ForkBegin
  <2>2. pc[u] = "fork" /\ child[u] = s
    BY <1>6, <2>1 DEF Writes, Changing, InStep, Members
  <2> QED BY <1>2, <2>2, ShapeThread DEF ThreadShape, ForkShape
<1>7. ThreadShape(t)'
  <2>1. OutsideStep(t)'
    BY ShapeThread, OutsideStays DEF ForkBegin, InStep, StepPcs
  <2>2. seqs'[s] = seqs[s] /\ seqs'[c].pages = <<>>
    BY <1>1, <1>2 DEF DeadSeq
  <2>3. Len(seqs[s].pages) \in Nat
    BY PagesOf
  <2>4. ForkShape(t)'
    BY <1>1, <1>2, <1>3, <2>2, <2>3 DEF ForkShape
  <2> QED BY <1>3, <2>1, <2>4 DEF ThreadShape, InStep, StepPcs
<1>8. LiveExact'
  BY <1>1, <1>2, LiveCountStep DEF ForkBegin
<1>9. SeqShape(c)'
  BY <1>1 DEF SeqShape
<1> QED BY <1>1, <1>2, <1>4, <1>5, <1>6, <1>7, <1>8, <1>9, ShapeStep

LEMMA ForkRetainShape ==
  ASSUME NEW t \in Threads, Setting(t), ForkRetain(t)
  PROVE  Shape' /\ LiveExact'
<1> USE DEF Setting
<1>a. pc[t] = "fork" /\ ForkShape(t)
  BY ShapeThread DEF ThreadShape, ForkRetain
<1>b. PICK s \in SeqIds, c \in SeqIds : s = tgt[t] /\ c = child[t]
  BY <1>a DEF ForkShape
<1>c. at[t] \in Nat /\ Len(seqs[s].pages) \in Nat /\ Len(seqs[c].pages) \in Nat
  BY PagesOf DEF TypeOK
<1> DEFINE p == seqs[s].pages[at[t]]
<1>1. /\ seqs[s].state = "live" /\ seqs[c].state = "building" /\ s # c
      /\ at[t] \in 1 .. Len(seqs[s].pages) /\ Len(seqs[c].pages) = at[t] - 1
      /\ \A i \in 1 .. at[t] - 1 : seqs[c].pages[i] = seqs[s].pages[i]
  BY <1>a, <1>b, <1>c DEF ForkShape, ForkRetain
<1>2. SetPages(c, Append(seqs[c].pages, p)) /\ Append(seqs[c].pages, p) \in Seq(Pages)
  BY <1>1, <1>b, PagesOf DEF ForkRetain, SetPages
<1>3. /\ seqs' \in [SeqIds -> SeqRecords] /\ seqs'[c].pages = Append(seqs[c].pages, p)
      /\ seqs'[c].state = seqs[c].state
      /\ \A r \in SeqIds : r # c => seqs'[r] = seqs[r]
  BY <1>1, <1>2, SetPagesFacts
<1>4. pc[t] = "fork" /\ pc'[t] = "fork" /\ tgt'[t] = s /\ child'[t] = c /\ at'[t] = at[t] + 1
  BY <1>b DEF ForkRetain, Bump, TypeOK
<1>5. \A r \in SeqIds : /\ Writes(t, r)' <=> Writes(t, r)
                        /\ Reads(t, r)' <=> Reads(t, r)
                        /\ r = c => Writes(t, r)
  BY <1>4, <1>b DEF Writes, Reads, InStep, StepPcs
<1>6. ThreadShape(t)'
  <2>1. OutsideStep(t)'
    BY ShapeThread, OutsideStays DEF ForkRetain, InStep, StepPcs
  <2>2. /\ Len(seqs'[c].pages) = at[t] /\ seqs'[c].pages[at[t]] = p
        /\ \A i \in 1 .. at[t] - 1 : seqs'[c].pages[i] = seqs[c].pages[i]
    BY <1>1, <1>3, PagesOf
  <2>3. seqs'[s] = seqs[s] /\ Len(seqs[s].pages) \in Nat
    BY <1>1, <1>3, PagesOf
  <2>4. \A i \in 1 .. at[t] : seqs'[c].pages[i] = seqs[s].pages[i]
    <3> SUFFICES ASSUME NEW i \in 1 .. at[t] PROVE seqs'[c].pages[i] = seqs[s].pages[i]
      OBVIOUS
    <3>1. i = at[t] \/ i \in 1 .. at[t] - 1
      BY <1>c
    <3> QED BY <1>1, <2>2, <3>1
  <2>5. at'[t] \in 1 .. Len(seqs[s].pages) + 1 /\ at'[t] - 1 = at[t]
    BY <1>1, <1>4, <1>c
  <2>6. ForkShape(t)'
    BY <1>1, <1>3, <1>4, <2>2, <2>3, <2>4, <2>5 DEF ForkShape
  <2> QED BY <1>4, <2>1, <2>6 DEF ThreadShape, InStep, StepPcs
<1>7. LiveExact'
  BY <1>3, LiveSame DEF ForkRetain
<1>8. SeqShape(c)'
  BY <1>1, <1>3 DEF SeqShape
<1> HIDE DEF p
<1> QED BY <1>3, <1>5, <1>6, <1>7, <1>8, ShapeStep

LEMMA ForkEndShape ==
  ASSUME NEW t \in Threads, Setting(t), ForkEnd(t)
  PROVE  Shape' /\ LiveExact' /\ PageTables' = PageTables
<1> USE DEF Setting
<1>a. pc[t] = "fork" /\ ForkShape(t)
  BY ShapeThread DEF ThreadShape, ForkEnd
<1>b. PICK s \in SeqIds, c \in SeqIds : s = tgt[t] /\ c = child[t]
  BY <1>a DEF ForkShape
<1>c. at[t] \in Nat /\ Len(seqs[s].pages) \in Nat /\ Len(seqs[c].pages) \in Nat
  BY PagesOf DEF TypeOK
<1>1. /\ seqs[s].state = "live" /\ seqs[c].state = "building" /\ s # c
      /\ at[t] = Len(seqs[s].pages) + 1 /\ Len(seqs[c].pages) = at[t] - 1
      /\ \A i \in 1 .. at[t] - 1 : seqs[c].pages[i] = seqs[s].pages[i]
  BY <1>a, <1>b, <1>c DEF ForkShape, ForkEnd
<1>2. seqs[c].pages = seqs[s].pages
  BY <1>1, PagesOf
<1>3. seqs' \in [SeqIds -> SeqRecords] /\ seqs'[c] = seqs[s] /\ \A r \in SeqIds : r # c => seqs'[r] = seqs[r]
  BY <1>1, <1>b DEF ForkEnd, TypeOK, SeqRecords
<1>4. pc[t] = "fork" /\ pc'[t] = "idle"
  BY DEF ForkEnd, Go, TypeOK
<1>5. \A r \in SeqIds : /\ ~Writes(t, r)' /\ ~Reads(t, r)'
                        /\ Writes(t, r) <=> r = c
                        /\ Reads(t, r) <=> r = s
  BY <1>4, <1>b DEF Writes, Reads, InStep, StepPcs
<1>6. Len(seqs[s].pages) = Keep(seqs[s].position)
  <2>1. \A u \in Threads : ~Writes(u, s)
    BY <1>1, <1>5 DEF Shape, Alone
  <2> QED BY <1>1, <2>1 DEF Shape, SeqShape
<1>7. SeqShape(c)'
  BY <1>1, <1>3, <1>6 DEF SeqShape
<1>8. ThreadShape(t)'
  <2>1. OutsideStep(t)'
    BY ShapeThread, OutsideStays DEF ForkEnd, InStep, StepPcs
  <2> QED BY <1>4, <2>1 DEF ThreadShape, InStep, StepPcs
<1>9. LiveExact'
  BY <1>1, <1>3, LiveCountStep DEF ForkEnd
<1>10. PageTables' = PageTables
  BY <1>2, <1>3 DEF PageTables
<1> QED BY <1>3, <1>5, <1>7, <1>8, <1>9, <1>10, ShapeStep

LEMMA DestroyBeginShape ==
  ASSUME NEW t \in Threads, Setting(t), NEW s \in SeqIds, DestroyBegin(t, s)
  PROVE  Shape' /\ LiveExact' /\ PageTables' = PageTables
<1> USE DEF Setting
<1>1. /\ seqs' \in [SeqIds -> SeqRecords] /\ seqs'[s].state = "dying"
      /\ \A r \in SeqIds : r # s => seqs'[r] = seqs[r]
      /\ PageTables' = PageTables
  BY SetStateFacts DEF DestroyBegin
<1>2. pc[t] = "idle" /\ pc'[t] = "destroy" /\ tgt'[t] = s
  BY DEF DestroyBegin, Go, TypeOK
<1>3. \A r \in SeqIds : ~Writes(t, r) /\ ~Reads(t, r) /\ (Writes(t, r)' <=> r = s) /\ ~Reads(t, r)'
  BY <1>2 DEF Writes, Reads, InStep, StepPcs
<1>4. \A u \in Threads : ~Writes(u, s) /\ ~Reads(u, s)
  BY FreeOfOthers DEF DestroyBegin
<1>5. ThreadShape(t)'
  <2>1. OutsideStep(t)'
    BY ShapeThread, OutsideStays DEF DestroyBegin, InStep, StepPcs
  <2>2. DestroyShape(t)'
    BY <1>1, <1>2 DEF DestroyShape
  <2> QED BY <1>2, <2>1, <2>2 DEF ThreadShape, InStep, StepPcs
<1>6. SeqShape(s)'
  BY <1>1 DEF SeqShape
<1>7. LiveExact'
  BY <1>1, LiveCountStep DEF DestroyBegin, Ready
<1> QED BY <1>1, <1>3, <1>4, <1>5, <1>6, <1>7, ShapeStep

LEMMA DestroyReleaseShape ==
  ASSUME NEW t \in Threads, Setting(t), DestroyRelease(t)
  PROVE  Shape' /\ LiveExact'
<1> USE DEF Setting
<1>1. PICK s \in SeqIds : s = tgt[t] /\ seqs[s].state = "dying" /\ pc[t] = "destroy"
  BY ShapeThread DEF ThreadShape, DestroyShape, DestroyRelease
<1>2. SetPages(s, Tail(seqs[s].pages)) /\ Tail(seqs[s].pages) \in Seq(Pages)
  BY <1>1, PagesOf DEF DestroyRelease
<1>3. /\ seqs' \in [SeqIds -> SeqRecords] /\ seqs'[s].state = "dying"
      /\ \A r \in SeqIds : seqs'[r].state = seqs[r].state
      /\ \A r \in SeqIds : r # s => seqs'[r] = seqs[r]
  BY <1>1, <1>2, SetPagesFacts
<1>4. pc'[t] = "destroy" /\ tgt'[t] = s
  BY <1>1 DEF DestroyRelease
<1>5. \A r \in SeqIds : (Writes(t, r)' <=> r = s) /\ (Writes(t, r) <=> r = s) /\ ~Reads(t, r)'
  BY <1>1, <1>4 DEF Writes, Reads, InStep, StepPcs
<1>6. ThreadShape(t)'
  <2>1. OutsideStep(t)'
    BY <1>1, ShapeThread, OutsideStays DEF DestroyRelease, InStep, StepPcs
  <2>2. DestroyShape(t)'
    BY <1>3, <1>4 DEF DestroyShape
  <2> QED BY <1>4, <2>1, <2>2 DEF ThreadShape, InStep, StepPcs
<1>7. SeqShape(s)'
  BY <1>3 DEF SeqShape
<1>8. LiveExact'
  BY <1>3, LiveSame DEF DestroyRelease
<1> QED BY <1>3, <1>5, <1>6, <1>7, <1>8, ShapeStep

LEMMA DestroyEndShape ==
  ASSUME NEW t \in Threads, Setting(t), DestroyEnd(t)
  PROVE  Shape' /\ LiveExact' /\ PageTables' = PageTables
<1> USE DEF Setting
<1>1. PICK s \in SeqIds : s = tgt[t] /\ seqs[s].state = "dying" /\ pc[t] = "destroy" /\ seqs[s].pages = <<>>
  BY ShapeThread DEF ThreadShape, DestroyShape, DestroyEnd
<1>2. DeadSeq \in SeqRecords /\ DeadSeq.state = "none" /\ DeadSeq.pages = <<>>
  BY RuntimeAssumption DEF DeadSeq, SeqRecords
<1>3. /\ seqs' \in [SeqIds -> SeqRecords] /\ seqs'[s] = DeadSeq
      /\ \A r \in SeqIds : r # s => seqs'[r] = seqs[r]
  BY <1>1, <1>2 DEF DestroyEnd, TypeOK, SeqRecords
<1>4. pc'[t] = "idle"
  BY DEF DestroyEnd, Go, TypeOK
<1>5. \A r \in SeqIds : ~Writes(t, r)' /\ (Writes(t, r) <=> r = s) /\ ~Reads(t, r)'
  BY <1>1, <1>4 DEF Writes, Reads, InStep, StepPcs
<1>6. ThreadShape(t)'
  <2>1. OutsideStep(t)'
    BY <1>1, ShapeThread, OutsideStays DEF DestroyEnd, InStep, StepPcs
  <2> QED BY <1>4, <2>1 DEF ThreadShape, InStep, StepPcs
<1>7. SeqShape(s)'
  BY <1>2, <1>3 DEF SeqShape
<1>8. LiveExact'
  BY <1>1, <1>2, <1>3, LiveCountStep DEF DestroyEnd
<1>9. PageTables' = PageTables
  BY <1>1, <1>2, <1>3 DEF PageTables
<1> QED BY <1>3, <1>5, <1>6, <1>7, <1>8, <1>9, ShapeStep

LEMMA TruncateBeginShape ==
  ASSUME NEW t \in Threads, Setting(t), NEW s \in SeqIds, NEW n \in 0 .. Context, TruncateBegin(t, s, n)
  PROVE  Shape' /\ LiveExact'
<1> USE DEF Setting
<1>1. pc[t] = "idle" /\ pc'[t] = "truncate" /\ tgt'[t] = s /\ goal'[t] = n /\ seqs' = seqs
  BY DEF TruncateBegin, Go, TypeOK
<1>2. \A r \in SeqIds : ~Writes(t, r) /\ ~Reads(t, r) /\ (Writes(t, r)' <=> r = s) /\ ~Reads(t, r)'
  BY <1>1 DEF Writes, Reads, InStep, StepPcs
<1>3. \A u \in Threads : ~Writes(u, s) /\ ~Reads(u, s)
  BY FreeOfOthers DEF TruncateBegin
<1>4. seqs[s].state = "live" /\ Len(seqs[s].pages) = Keep(seqs[s].position)
  BY <1>3 DEF Shape, SeqShape, TruncateBegin, Ready
<1>5. n \in Nat /\ seqs[s].position \in Nat /\ n <= seqs[s].position
  BY PagesOf DEF TruncateBegin
<1>6. Keep(n) \in Nat /\ Keep(seqs[s].position) \in Nat /\ Keep(n) <= Keep(seqs[s].position)
  <2> DEFINE a == n + PageTokens - 1  b == seqs[s].position + PageTokens - 1
  <2>1. a \in Nat /\ b \in Nat /\ a <= b
    BY <1>5, RuntimeAssumption
  <2> HIDE DEF a, b
  <2>2. a \div PageTokens <= b \div PageTokens
    BY <2>1, DivMonotone, RuntimeAssumption
  <2>3. Keep(n) <= Keep(seqs[s].position)
    BY <2>2 DEF Keep, a, b
  <2> QED BY <1>5, <2>3, KeepNat
<1>7. ThreadShape(t)'
  <2>1. OutsideStep(t)'
    BY ShapeThread, OutsideStays DEF TruncateBegin, InStep, StepPcs
  <2>2. TruncateShape(t)'
    BY <1>1, <1>4, <1>5, <1>6 DEF TruncateShape, Keep
  <2> QED BY <1>1, <2>1, <2>2 DEF ThreadShape, InStep, StepPcs
<1>8. LiveExact'
  BY <1>1, LiveSame DEF TruncateBegin
<1> QED BY <1>1, <1>2, <1>3, <1>7, <1>8, ShapeStep

LEMMA TruncateReleaseShape ==
  ASSUME NEW t \in Threads, Setting(t), TruncateRelease(t)
  PROVE  Shape' /\ LiveExact'
<1> USE DEF Setting
<1>1. PICK s \in SeqIds : /\ s = tgt[t] /\ seqs[s].state = "live" /\ pc[t] = "truncate"
                          /\ goal[t] <= seqs[s].position
                          /\ Len(seqs[s].pages) \in Keep(goal[t]) .. Keep(seqs[s].position)
                          /\ Len(seqs[s].pages) > Keep(goal[t])
  BY ShapeThread DEF ThreadShape, TruncateShape, TruncateRelease
<1>2. Keep(goal[t]) \in Nat /\ Keep(seqs[s].position) \in Nat
  <2>1. goal[t] \in Nat
    BY DEF TypeOK
  <2>2. seqs[s].position \in Nat
    BY PagesOf
  <2> QED BY <2>1, <2>2, KeepNat
<1>3. Len(seqs[s].pages) > 0 /\ Len(seqs[s].pages) \in Nat
  BY <1>1, <1>2, PagesOf
<1>4. /\ SetPages(s, Front(seqs[s].pages)) /\ Front(seqs[s].pages) \in Seq(Pages)
      /\ Len(Front(seqs[s].pages)) = Len(seqs[s].pages) - 1
  BY <1>1, <1>3, PagesOf, LastFront DEF TruncateRelease
<1>5. /\ seqs' \in [SeqIds -> SeqRecords] /\ seqs'[s].state = "live"
      /\ seqs'[s].position = seqs[s].position /\ seqs'[s].pages = Front(seqs[s].pages)
      /\ \A r \in SeqIds : seqs'[r].state = seqs[r].state
      /\ \A r \in SeqIds : r # s => seqs'[r] = seqs[r]
  BY <1>1, <1>4, SetPagesFacts
<1>6. pc'[t] = "truncate" /\ tgt'[t] = s /\ goal'[t] = goal[t]
  BY <1>1 DEF TruncateRelease
<1>7. \A r \in SeqIds : (Writes(t, r)' <=> r = s) /\ (Writes(t, r) <=> r = s) /\ ~Reads(t, r)'
  BY <1>1, <1>6 DEF Writes, Reads, InStep, StepPcs
<1>8. ThreadShape(t)'
  <2>1. OutsideStep(t)'
    BY <1>1, ShapeThread, OutsideStays DEF TruncateRelease, InStep, StepPcs
  <2>2. Len(seqs'[s].pages) \in Keep(goal[t]) .. Keep(seqs[s].position)
    BY <1>1, <1>2, <1>3, <1>4, <1>5
  <2>3. TruncateShape(t)'
    BY <1>1, <1>5, <1>6, <2>2 DEF TruncateShape, Keep
  <2> QED BY <1>6, <2>1, <2>3 DEF ThreadShape, InStep, StepPcs
<1>9. SeqShape(s)'
  <2>1. Writes(t, s)'
    BY <1>7
  <2> QED BY <1>5, <2>1 DEF SeqShape
<1>10. LiveExact'
  BY <1>5, LiveSame DEF TruncateRelease
<1> QED BY <1>5, <1>7, <1>8, <1>9, <1>10, ShapeStep

LEMMA TruncateEndShape ==
  ASSUME NEW t \in Threads, Setting(t), TruncateEnd(t)
  PROVE  Shape' /\ LiveExact' /\ PageTables' = PageTables
<1> USE DEF Setting
<1>1. PICK s \in SeqIds : /\ s = tgt[t] /\ seqs[s].state = "live" /\ pc[t] = "truncate"
                          /\ Len(seqs[s].pages) \in Keep(goal[t]) .. Keep(seqs[s].position)
                          /\ Len(seqs[s].pages) <= Keep(goal[t])
  BY ShapeThread DEF ThreadShape, TruncateShape, TruncateEnd
<1>2. goal[t] \in 0 .. Context
  BY DEF TypeOK
<1>3. Keep(goal[t]) \in Nat /\ Len(seqs[s].pages) = Keep(goal[t])
  <2>1. Keep(goal[t]) \in Nat
    BY <1>2, KeepNat
  <2> QED BY <1>1, <2>1, PagesOf
<1>4. /\ seqs' \in [SeqIds -> SeqRecords] /\ seqs'[s].position = goal[t]
      /\ seqs'[s].pages = seqs[s].pages
      /\ \A r \in SeqIds : seqs'[r].state = seqs[r].state
      /\ \A r \in SeqIds : r # s => seqs'[r] = seqs[r]
  <2> DEFINE new == [seqs[s] EXCEPT !.position = goal[t]]
  <2>1. seqs \in [SeqIds -> SeqRecords] /\ seqs' = [seqs EXCEPT ![s] = new]
    BY <1>1, SeqsKv DEF TruncateEnd
  <2>2. /\ new \in SeqRecords /\ new.position = goal[t] /\ new.pages = seqs[s].pages
        /\ new.state = seqs[s].state
    BY <1>2, <2>1 DEF SeqRecords
  <2> HIDE DEF new
  <2> QED BY <2>1, <2>2
<1>5. pc'[t] = "idle"
  BY DEF TruncateEnd, Go, TypeOK
<1>6. \A r \in SeqIds : ~Writes(t, r)' /\ (Writes(t, r) <=> r = s) /\ ~Reads(t, r)'
  BY <1>1, <1>5 DEF Writes, Reads, InStep, StepPcs
<1>7. ThreadShape(t)'
  <2>1. OutsideStep(t)'
    BY <1>1, ShapeThread, OutsideStays DEF TruncateEnd, InStep, StepPcs
  <2> QED BY <1>5, <2>1 DEF ThreadShape, InStep, StepPcs
<1>8. SeqShape(s)'
  BY <1>1, <1>3, <1>4 DEF SeqShape, Keep
<1>9. LiveExact'
  BY <1>4, LiveSame DEF TruncateEnd
<1>10. PageTables' = PageTables
  BY <1>4 DEF PageTables
<1> QED BY <1>4, <1>6, <1>7, <1>8, <1>9, <1>10, ShapeStep

LEMMA FirstsEmpty == Firsts(<<>>) = {}
  BY DEF Firsts

LEMMA StepEnterShape ==
  ASSUME NEW t \in Threads, Setting(t), ~ForkDuringStep, NEW b \in Batches,
         NEW tk \in [1 .. Len(b) -> Tokens], StepEnter(t, b, tk)
  PROVE  Shape' /\ LiveExact'
<1> USE DEF Setting
<1>1. /\ pc[t] = "idle" /\ ~stepping /\ seqs' = seqs
      /\ \A i \in 1 .. Len(b) : Ready(b[i]) /\ Destroying(b[i]) = {} /\ Forking(b[i]) = {}
      /\ Valid(b)
  BY DEF StepEnter
<1>2. b \in Seq(SeqIds) /\ tk \in Seq(Tokens) /\ Len(tk) = Len(b)
  BY RuntimeAssumption DEF Batches
<1>3. OutsideStep(t)
  BY <1>1, ShapeThread DEF ThreadShape, InStep, StepPcs
<1>4. /\ pc'[t] = "needs" /\ batch'[t] = b /\ toks'[t] = tk /\ at'[t] = 1
      /\ needs'[t] = <<>> /\ fresh'[t] = <<>> /\ next'[t] = 0
      /\ appended'[t] = <<>> /\ replaced'[t] = <<>>
  BY <1>3 DEF StepEnter, Go, TypeOK, OutsideStep
<1>5. \A u \in Threads : ~InStep(u)
  BY <1>1 DEF Shape, OneStep
<1>6. ASSUME NEW i \in 1 .. Len(b), NEW u \in Threads
      PROVE  ~Writes(u, b[i]) /\ ~Reads(u, b[i])
  <2>1. u \notin Destroying(b[i]) /\ u \notin Forking(b[i]) /\ seqs[b[i]].state = "live"
    BY <1>1 DEF Ready
  <2>2. ~Reads(u, b[i])
    BY <2>1 DEF Reads, Forking
  <2>3. ~(pc[u] \in {"destroy", "truncate"} /\ tgt[u] = b[i])
    BY <2>1 DEF Destroying, Changing, StepPcs
  <2>4. ~(pc[u] = "fork" /\ child[u] = b[i])
    BY <2>1, ShapeThread DEF ThreadShape, ForkShape
  <2> QED BY <1>5, <2>2, <2>3, <2>4 DEF Writes
<1>7. ASSUME NEW i \in 1 .. Len(b) PROVE Len(seqs[b[i]].pages) = Keep(seqs[b[i]].position)
  <2>1. b[i] \in SeqIds /\ seqs[b[i]].state = "live"
    BY <1>1, <1>2 DEF Ready
  <2> QED BY <1>6, <2>1 DEF Shape, SeqShape
<1>8. \A s \in SeqIds : /\ ~Writes(t, s) /\ ~Reads(t, s) /\ ~Reads(t, s)'
                        /\ Writes(t, s)' => \E i \in 1 .. Len(b) : b[i] = s
  BY <1>1, <1>4 DEF Writes, Reads, InStep, StepPcs, Members
<1>9. ThreadShape(t)'
  <2>1. StepArgs(t)'
    <3>1. Len(b) \in 1 .. MaxBatch /\ 1 \in 1 .. Len(b)
      BY <1>1, <1>2 DEF Valid
    <3> QED BY <1>1, <1>2, <1>4, <3>1 DEF StepArgs, Valid, Ready
  <2>2. StepPlan(t)'
    BY <1>2, <1>4 DEF StepPlan
  <2>3. StepTables(t)'
    <3>1. StepSizes(t)'
      <4>1. ASSUME NEW i \in 1 .. Len(b)
            PROVE Len(seqs[b[i]].pages) = Keep(seqs[b[i]].position) + One(b[i] \in Firsts(<<>>))
        <5>1. Len(seqs[b[i]].pages) \in Nat
          BY <1>2, PagesOf
        <5> QED BY <1>7, <5>1, FirstsEmpty DEF One
      <4> QED BY <1>1, <1>4, <4>1 DEF StepSizes, Firsts, Keep
    <3>2. StepAppended(t)' /\ StepReplaced(t)' /\ StepPhase(t)'
      BY <1>4 DEF StepAppended, StepReplaced, StepPhase
    <3> QED BY <3>1, <3>2 DEF StepTables
  <2> QED BY <1>4, <2>1, <2>2, <2>3 DEF ThreadShape, InStep, StepPcs
<1>10. LiveExact'
  BY <1>1, LiveSame DEF StepEnter
<1> QED BY <1>1, <1>6, <1>8, <1>9, <1>10, ShapeStep

\* A return of step(): the members have the pages of their positions.
LEMMA LeaveShape ==
  ASSUME NEW t \in Threads, Setting(t), InStep(t), Leave(t),
         \A s \in SeqIds : seqs'[s].state = seqs[s].state, liveCount' = liveCount,
         \A s \in SeqIds : s \notin Members(t) => seqs'[s] = seqs[s],
         \A s \in SeqIds : s \in Members(t) => Len(seqs'[s].pages) = Keep(seqs'[s].position)
  PROVE  Shape' /\ LiveExact'
<1> USE DEF Setting
<1>1. /\ pc'[t] = "idle" /\ batch'[t] = <<>> /\ toks'[t] = <<>> /\ needs'[t] = <<>>
      /\ fresh'[t] = <<>> /\ next'[t] = 0 /\ appended'[t] = <<>> /\ replaced'[t] = <<>>
  BY DEF Leave, Go, TypeOK
<1>2. \A s \in SeqIds : ~Writes(t, s)' /\ ~Reads(t, s)' /\ (Writes(t, s) <=> s \in Members(t))
  BY <1>1 DEF Writes, Reads, InStep, StepPcs
<1>3. ThreadShape(t)'
  BY <1>1 DEF ThreadShape, OutsideStep, InStep, StepPcs
<1>4. ASSUME NEW s \in SeqIds, s \in Members(t) PROVE SeqShape(s)'
  <2>1. seqs[s].state = "live"
    BY <1>4, ShapeThread DEF ThreadShape, StepArgs, Members
  <2>2. Len(seqs'[s].pages) = Keep(seqs'[s].position) /\ seqs'[s].state = "live"
    BY <1>4, <2>1
  <2> QED BY <2>2 DEF SeqShape, Keep
<1>5. LiveExact'
  BY LiveSame
<1> QED BY <1>2, <1>3, <1>4, <1>5, ShapeStep

LEMMA StepNeedsShape ==
  ASSUME NEW t \in Threads, Setting(t), StepNeeds(t)
  PROVE  Shape' /\ LiveExact'
<1> USE DEF Setting
<1> DEFINE n == Need(batch[t][at[t]])
<1>0. /\ pc[t] = "needs" /\ InStep(t) /\ ThreadShape(t) /\ seqs' = seqs
      /\ StepArgs(t) /\ StepPlan(t) /\ StepTables(t)
  BY ShapeThread DEF StepNeeds, InStep, StepPcs, ThreadShape
<1>1. /\ Len(needs[t]) = at[t] - 1 /\ at[t] \in 1 .. Len(batch[t]) /\ Len(batch[t]) \in Nat
      /\ fresh[t] = <<>> /\ next[t] = 0 /\ appended[t] = <<>> /\ replaced[t] = <<>>
  BY <1>0 DEF StepArgs, StepPlan, TypeOK
<1>2. /\ batch'[t] = batch[t] /\ toks'[t] = toks[t] /\ fresh'[t] = <<>> /\ next'[t] = 0
      /\ appended'[t] = <<>> /\ replaced'[t] = <<>>
      /\ \/ at[t] < Len(batch[t]) /\ at'[t] = at[t] + 1 /\ pc'[t] = "needs"
         \/ at[t] = Len(batch[t]) /\ at'[t] = 1 /\ pc'[t] = "alloc"
  <2>1. /\ at \in [Threads -> Nat]
        /\ pc \in [Threads -> StepPcs \cup {"idle", "fork", "destroy", "truncate"}]
    BY DEF TypeOK
  <2>2. CASE at[t] < Len(batch[t])
    BY <1>0, <1>1, <2>1, <2>2 DEF StepNeeds, Bump
  <2>3. CASE ~(at[t] < Len(batch[t]))
    BY <1>0, <1>1, <2>1, <2>3 DEF StepNeeds, Go
  <2> QED BY <2>2, <2>3
<1>3. needs' = [needs EXCEPT ![t] = Append(@, n)] /\ n \in {"new", "cow", "none"}
      /\ (n = "new" <=> seqs[batch[t][at[t]]].position % PageTokens = 0)
  BY DEF StepNeeds, Need
<1> HIDE DEF n
<1>4. /\ Len(needs'[t]) = at[t] /\ needs'[t][at[t]] = n
      /\ \A i \in 1 .. at[t] - 1 : needs'[t][i] = needs[t][i]
  <2>1. needs \in [Threads -> Seq({"new", "cow", "none"})]
    BY DEF TypeOK
  <2>2. /\ Len(needs'[t]) = Len(needs[t]) + 1 /\ needs'[t][Len(needs[t]) + 1] = n
        /\ \A i \in 1 .. Len(needs[t]) : needs'[t][i] = needs[t][i]
    BY <1>3, <2>1, AppendIn
  <2> QED BY <1>1, <2>2
<1>5. StepArgs(t)'
  BY <1>0, <1>1, <1>2 DEF StepArgs
<1>6. StepPlan(t)'
  <2>1. \A i \in 1 .. at[t] : needs'[t][i] = "new" <=> seqs[batch[t][i]].position % PageTokens = 0
    <3> SUFFICES ASSUME NEW i \in 1 .. at[t]
                 PROVE needs'[t][i] = "new" <=> seqs[batch[t][i]].position % PageTokens = 0
      OBVIOUS
    <3>1. i = at[t] \/ i \in 1 .. at[t] - 1
      BY <1>1
    <3> QED BY <1>0, <1>1, <1>3, <1>4, <3>1 DEF StepPlan
  <2> QED BY <1>0, <1>1, <1>2, <1>4, <2>1 DEF StepPlan
<1>7. StepTables(t)'
  <2>1. StepSizes(t)'
    BY <1>0, <1>1, <1>2 DEF StepTables, StepSizes, Firsts, Keep
  <2>2. StepAppended(t)' /\ StepReplaced(t)' /\ StepPhase(t)'
    BY <1>2 DEF StepAppended, StepReplaced, StepPhase
  <2> QED BY <2>1, <2>2 DEF StepTables
<1>8. InStep(t)'
  BY <1>2 DEF InStep, StepPcs
<1>9. LiveExact'
  BY <1>0, LiveSame DEF StepNeeds
<1> QED BY <1>0, <1>2, <1>5, <1>6, <1>7, <1>8, <1>9, ShapeMove

LEMMA StepAllocShape ==
  ASSUME NEW t \in Threads, Setting(t), StepAlloc(t)
  PROVE  Shape' /\ LiveExact'
<1> USE DEF Setting
<1>0. /\ pc[t] = "alloc" /\ InStep(t) /\ ThreadShape(t) /\ seqs' = seqs
      /\ StepArgs(t) /\ StepPlan(t) /\ StepTables(t)
  BY ShapeThread DEF StepAlloc, InStep, StepPcs, ThreadShape
<1>1. /\ Len(needs[t]) = Len(batch[t]) /\ at[t] = 1 /\ Len(batch[t]) \in Nat
      /\ fresh[t] = <<>> /\ next[t] = 0 /\ appended[t] = <<>> /\ replaced[t] = <<>>
  BY <1>0 DEF StepArgs, StepPlan, TypeOK
<1>2. LiveExact'
  BY <1>0, LiveSame DEF StepAlloc
<1>3. CASE Leave(t)
  <2>1. \A s \in SeqIds : s \in Members(t) => Len(seqs[s].pages) = Keep(seqs[s].position)
    <3>1. ASSUME NEW b \in 1 .. Len(batch[t])
          PROVE Len(seqs[batch[t][b]].pages) = Keep(seqs[batch[t][b]].position)
      <4>1. Len(seqs[batch[t][b]].pages) = Keep(seqs[batch[t][b]].position) + 0
        BY <1>0, <1>1, FirstsEmpty DEF StepTables, StepSizes, One
      <4>2. Keep(seqs[batch[t][b]].position) \in Nat
        <5>1. seqs[batch[t][b]].position \in Nat
          <6>1. batch[t][b] \in SeqIds
            BY <1>0, MemberFacts
          <6> QED BY <6>1, PagesOf
        <5> QED BY <5>1, KeepNat
      <4> QED BY <4>1, <4>2
    <3> QED BY <3>1 DEF Members
  <2> QED BY <1>0, <1>3, <2>1, LeaveShape DEF StepAlloc
<1>4. CASE /\ Len(free) >= Wanted(t)
           /\ fresh' = [fresh EXCEPT ![t] = TopPages(Wanted(t))]
           /\ Go(t, "apply")
           /\ UNCHANGED <<stepping, at, batch, toks, needs, next, appended, replaced>>
  <2>1. /\ Wanted(t) = CountNot(needs[t], Len(batch[t]), "none")
        /\ Wanted(t) \in Nat /\ Wanted(t) <= Len(batch[t])
    BY <1>0, WantedCount
  <2>2. Len(TopPages(Wanted(t))) = Wanted(t)
    BY <1>4, <2>1, TopPagesFacts DEF AllocInv, AllocTypeOK
  <2>3. fresh'[t] = TopPages(Wanted(t)) /\ pc'[t] = "apply"
    BY <1>4 DEF TypeOK, Go
  <2>4. Len(fresh'[t]) = CountNot(needs[t], Len(batch[t]), "none")
    BY <2>1, <2>2, <2>3
  <2>5. CountNot(needs[t], 0, "none") = 0
    <3>1. CountNot(needs[t], 0, "none") \in 0 .. 0
      BY CountNotType, 0 \in Nat
    <3> QED BY <3>1
  <2> HIDE DEF Wanted, TopPages
  <2>6. StepArgs(t)'
    BY <1>0, <1>4 DEF StepArgs
  <2>7. StepPlan(t)'
    <3>1. Len(needs'[t]) = Len(batch'[t]) /\ next'[t] = CountNot(needs'[t], at'[t] - 1, "none")
      BY <1>1, <1>4, <2>5
    <3>2. Len(fresh'[t]) = CountNot(needs'[t], Len(batch'[t]), "none") /\ Len(fresh'[t]) <= Len(batch'[t])
      BY <1>1, <1>4, <2>1, <2>4
    <3> QED BY <1>0, <1>1, <1>4, <2>3, <3>1, <3>2 DEF StepPlan, CountNot
  <2>8. StepTables(t)'
    <3>1. StepSizes(t)'
      BY <1>0, <1>1, <1>4 DEF StepTables, StepSizes, Firsts, Keep
    <3>2. StepAppended(t)' /\ StepReplaced(t)'
      BY <1>1, <1>4 DEF StepAppended, StepReplaced
    <3>3. StepPhase(t)'
      <4>1. Firsts(appended[t]) = {} /\ Firsts(replaced[t]) = {}
        BY <1>1, FirstsEmpty
      <4>2. Firsts(appended[t])' = {} /\ Firsts(replaced[t])' = {}
        BY <1>4, <4>1 DEF Firsts
      <4>3. at'[t] = 1 /\ pc'[t] = "apply"
        BY <1>1, <1>4, <2>3
      <4> QED BY <1>1, <1>4, <4>2, <4>3 DEF StepPhase
    <3> QED BY <3>1, <3>2, <3>3 DEF StepTables
  <2>9. InStep(t)'
    BY <2>3 DEF InStep, StepPcs
  <2> QED BY <1>0, <1>2, <1>4, <2>6, <2>7, <2>8, <2>9, ShapeMove
<1> QED BY <1>3, <1>4 DEF StepAlloc

LEMMA MembersIn ==
  ASSUME TypeOK, NEW t \in Threads
  PROVE  /\ \A s \in Members(t) : s \in SeqIds
         /\ \A b \in 1 .. Len(batch[t]) : batch[t][b] \in Members(t) /\ batch[t][b] \in SeqIds
         /\ Len(batch[t]) \in Nat /\ Len(needs[t]) \in Nat /\ Len(fresh[t]) \in Nat
         /\ Len(appended[t]) \in Nat /\ Len(replaced[t]) \in Nat /\ next[t] \in Nat /\ at[t] \in Nat
  BY SMTT(30) DEF TypeOK, Members

LEMMA InStepShape ==
  ASSUME Shape, NEW t \in Threads, InStep(t)
  PROVE  ThreadShape(t) /\ StepArgs(t) /\ StepPlan(t) /\ StepTables(t)
  BY ShapeThread DEF ThreadShape

LEMMA NextMemberFacts ==
  ASSUME TypeOK, NEW t \in Threads, ThreadShape(t), pc[t] = "apply", NextMember(t)
  PROVE  /\ \/ at[t] < Len(batch[t]) /\ at'[t] = at[t] + 1 /\ pc'[t] = "apply"
            \/ at[t] = Len(batch[t]) /\ at'[t] = 1 /\ pc'[t] = "kernel"
         /\ InStep(t)'
<1>1. /\ at \in [Threads -> Nat] /\ at[t] \in 1 .. Len(batch[t])
      /\ pc \in [Threads -> StepPcs \cup {"idle", "fork", "destroy", "truncate"}]
  BY FreshLeft DEF TypeOK
<1>2. CASE at[t] < Len(batch[t])
  BY <1>1, <1>2 DEF NextMember, Bump, InStep, StepPcs
<1>3. CASE ~(at[t] < Len(batch[t]))
  BY <1>1, <1>3, MembersIn DEF NextMember, Go, InStep, StepPcs
<1> QED BY <1>2, <1>3

\* One member of the batch has been served.
LEMMA ApplyPlan ==
  ASSUME NEW t \in Threads, Setting(t), pc[t] = "apply", NextMember(t),
         next'[t] = next[t] + One(needs[t][at[t]] # "none"),
         UNCHANGED <<batch, toks, needs, fresh>>,
         \A s \in Members(t) : seqs'[s].state = seqs[s].state /\ seqs'[s].position = seqs[s].position
  PROVE  StepArgs(t)' /\ StepPlan(t)'
<1> USE DEF Setting
<1>1. InStep(t) /\ ThreadShape(t) /\ StepArgs(t) /\ StepPlan(t)
  BY InStepShape DEF InStep, StepPcs
<1>2. \/ at[t] < Len(batch[t]) /\ at'[t] = at[t] + 1 /\ pc'[t] = "apply"
      \/ at[t] = Len(batch[t]) /\ at'[t] = 1 /\ pc'[t] = "kernel"
  BY <1>1, NextMemberFacts
<1>3. /\ at[t] \in 1 .. Len(batch[t])
      /\ next'[t] = CountNot(needs[t], at[t], "none")
      /\ Len(needs[t]) = Len(batch[t]) /\ Len(fresh[t]) = CountNot(needs[t], Len(batch[t]), "none")
      /\ Len(fresh[t]) <= Len(batch[t]) /\ Len(batch[t]) \in Nat
  BY <1>1, FreshLeft, MembersIn DEF StepPlan
<1>4. \A b \in 1 .. Len(batch[t]) : /\ seqs'[batch[t][b]].state = seqs[batch[t][b]].state
                                    /\ seqs'[batch[t][b]].position = seqs[batch[t][b]].position
  BY MembersIn
<1>5. StepArgs(t)'
  BY <1>1, <1>2, <1>3, <1>4 DEF StepArgs
<1>6. StepPlan(t)'
  <2>1. \A b \in 1 .. Len(needs[t]) :
          needs[t][b] = "new" <=> seqs'[batch[t][b]].position % PageTokens = 0
    BY <1>1, <1>3, <1>4 DEF StepPlan
  <2>2. CASE at[t] < Len(batch[t]) /\ at'[t] = at[t] + 1 /\ pc'[t] = "apply"
    <3>1. at'[t] - 1 = at[t]
      BY <1>3, <2>2
    <3> QED BY <1>3, <2>1, <2>2, <3>1 DEF StepPlan, CountNot
  <2>3. CASE at[t] = Len(batch[t]) /\ at'[t] = 1 /\ pc'[t] = "kernel"
    <3>1. next'[t] = Len(fresh[t])
      BY <1>3, <2>3
    <3> QED BY <1>3, <2>1, <2>3, <3>1 DEF StepPlan
  <2> QED BY <1>2, <2>2, <2>3
<1> QED BY <1>5, <1>6

LEMMA ApplyNoneShape ==
  ASSUME NEW t \in Threads, Setting(t), ApplyNone(t)
  PROVE  Shape' /\ LiveExact'
<1> USE DEF Setting
<1>0. /\ pc[t] = "apply" /\ InStep(t) /\ ThreadShape(t) /\ seqs' = seqs
      /\ StepArgs(t) /\ StepPlan(t) /\ StepTables(t)
  BY InStepShape DEF ApplyNone, InStep, StepPcs
<1>1. UNCHANGED <<batch, toks, needs, fresh, next, appended, replaced>>
  BY DEF ApplyNone, stepVars
<1>2. next'[t] = next[t] + One(needs[t][at[t]] # "none")
  BY <1>1, MembersIn DEF ApplyNone, One
<1>3. StepArgs(t)' /\ StepPlan(t)'
  BY <1>0, <1>1, <1>2, ApplyPlan DEF ApplyNone
<1>4. /\ \/ at[t] < Len(batch[t]) /\ at'[t] = at[t] + 1 /\ pc'[t] = "apply"
         \/ at[t] = Len(batch[t]) /\ at'[t] = 1 /\ pc'[t] = "kernel"
      /\ InStep(t)'
  BY <1>0, NextMemberFacts DEF ApplyNone
<1>5. Firsts(appended[t])' = Firsts(appended[t]) /\ Firsts(replaced[t])' = Firsts(replaced[t])
  BY <1>1 DEF Firsts
<1>6. Members(t)' = Members(t)
  BY <1>1 DEF Members
<1>7. StepSizes(t)'
  BY <1>0, <1>1, <1>5 DEF StepTables, StepSizes, Keep
<1>8. StepAppended(t)'
  BY <1>0, <1>1, <1>6 DEF StepTables, StepAppended
<1>9. StepReplaced(t)'
  BY <1>0, <1>1, <1>4, <1>6 DEF StepTables, StepReplaced
<1>10. StepPhase(t)'
  <2>1. needs[t][at[t]] = "none" /\ at[t] \in Nat
    BY MembersIn DEF ApplyNone
  <2>2. StepPhase(t)
    BY <1>0 DEF StepTables
  <2> QED BY <1>0, <1>1, <1>4, <1>5, <2>1, <2>2, MembersIn, SMTT(30) DEF StepPhase
<1>11. LiveExact'
  BY <1>0, LiveSame DEF ApplyNone
<1> QED BY <1>0, <1>1, <1>3, <1>4, <1>7, <1>8, <1>9, <1>10, <1>11, ShapeMove DEF StepTables

\* One more pair at the end of appended or replaced.
LEMMA FirstsAppend ==
  ASSUME NEW q, NEW e, NEW new, Len(q) \in Nat,
         Len(new) = Len(q) + 1, new[Len(q) + 1] = e, \A i \in 1 .. Len(q) : new[i] = q[i]
  PROVE  Firsts(new) = Firsts(q) \cup {e[1]}
<1>1. ASSUME NEW x \in Firsts(new) PROVE x \in Firsts(q) \cup {e[1]}
  <2>1. PICK i \in 1 .. Len(new) : new[i][1] = x
    BY DEF Firsts
  <2>2. i \in 1 .. Len(q) \/ i = Len(q) + 1
    OBVIOUS
  <2> QED BY <2>1, <2>2 DEF Firsts
<1>2. ASSUME NEW x \in Firsts(q) PROVE x \in Firsts(new)
  <2>1. PICK i \in 1 .. Len(q) : q[i][1] = x
    BY DEF Firsts
  <2>2. i \in 1 .. Len(new) /\ new[i][1] = x
    BY <2>1
  <2> QED BY <2>2 DEF Firsts
<1>3. e[1] \in Firsts(new)
  <2>1. Len(q) + 1 \in 1 .. Len(new)
    OBVIOUS
  <2> QED BY <2>1 DEF Firsts
<1> QED BY <1>1, <1>2, <1>3

LEMMA ApplyNewShape ==
  ASSUME NEW t \in Threads, Setting(t), ApplyNew(t)
  PROVE  Shape' /\ LiveExact'
<1> USE DEF Setting
<1>0. /\ pc[t] = "apply" /\ InStep(t) /\ ThreadShape(t)
      /\ StepArgs(t) /\ StepPlan(t) /\ StepTables(t) /\ needs[t][at[t]] = "new"
  BY InStepShape DEF ApplyNew, InStep, StepPcs
<1>a. PICK k \in 1 .. Len(batch[t]) : k = at[t]
  BY <1>0 DEF StepArgs
<1>b. PICK s \in SeqIds : s = batch[t][k] /\ s \in Members(t)
  BY MembersIn
<1>c. PICK page \in Pages : page = fresh[t][next[t] + 1]
  BY <1>0, FreshPage
<1>1. /\ UNCHANGED <<batch, toks, needs, fresh, replaced>>
      /\ appended' = [appended EXCEPT ![t] = Append(@, <<s, page>>)]
  BY <1>a, <1>b, <1>c DEF ApplyNew
<1>2. next'[t] = next[t] + One(needs[t][at[t]] # "none")
  BY <1>0 DEF ApplyNew, Bump, TypeOK, One
<1>3. /\ SetPages(s, Append(seqs[s].pages, page)) /\ Append(seqs[s].pages, page) \in Seq(Pages)
      /\ Len(Append(seqs[s].pages, page)) = Len(seqs[s].pages) + 1
      /\ Last(Append(seqs[s].pages, page)) = page /\ Len(seqs[s].pages) \in Nat
  BY <1>a, <1>b, <1>c, PagesOf DEF ApplyNew, Last
<1>4. /\ seqs'[s].pages = Append(seqs[s].pages, page)
      /\ \A r \in SeqIds : /\ seqs'[r].state = seqs[r].state /\ seqs'[r].position = seqs[r].position
                           /\ r # s => seqs'[r] = seqs[r]
  BY <1>3, SetPagesFacts
<1>5. StepArgs(t)' /\ StepPlan(t)'
  BY <1>0, <1>1, <1>2, <1>4, ApplyPlan, MembersIn DEF ApplyNew
<1>6. /\ \/ at[t] < Len(batch[t]) /\ at'[t] = at[t] + 1 /\ pc'[t] = "apply"
         \/ at[t] = Len(batch[t]) /\ at'[t] = 1 /\ pc'[t] = "kernel"
      /\ InStep(t)'
  BY <1>0, NextMemberFacts DEF ApplyNew
<1>7. /\ Len(appended'[t]) = Len(appended[t]) + 1 /\ appended'[t][Len(appended[t]) + 1] = <<s, page>>
      /\ \A i \in 1 .. Len(appended[t]) : appended'[t][i] = appended[t][i]
      /\ appended[t] \in Seq(SeqIds \X Pages) /\ appended'[t] \in Seq(SeqIds \X Pages)
  <2>1. appended \in [Threads -> Seq(SeqIds \X Pages)] /\ <<s, page>> \in SeqIds \X Pages
    BY DEF TypeOK
  <2> QED BY <1>1, <2>1, AppendIn
<1>8. Firsts(appended'[t]) = Firsts(appended[t]) \cup {s}
  <2> DEFINE e == <<s, page>>
  <2>1. e \in SeqIds \X Pages /\ e[1] = s /\ appended'[t][Len(appended[t]) + 1] = e
    BY <1>7
  <2> DEFINE q == appended[t]  new == appended'[t]
  <2>2. /\ Len(q) \in Nat /\ Len(new) = Len(q) + 1 /\ new[Len(q) + 1] = e
        /\ \A i \in 1 .. Len(q) : new[i] = q[i]
    BY <1>7, <2>1, MembersIn
  <2> HIDE DEF e, q, new
  <2>3. Firsts(new) = Firsts(q) \cup {e[1]}
    BY <2>2, FirstsAppend
  <2> QED BY <2>1, <2>3 DEF q, new
<1>9. s \notin Firsts(appended[t]) \cup Firsts(replaced[t])
  <2>1. at[t] \in at[t] .. Len(batch[t])
    BY <1>a, MembersIn
  <2> QED BY <1>0, <1>a, <1>b, <2>1 DEF StepTables, StepPhase
<1>10. \A b \in 1 .. Len(batch[t]) : b # k => batch[t][b] # s
  BY <1>0, <1>a, <1>b DEF StepArgs
<1>11. Members(t)' = Members(t)
  BY <1>1 DEF Members
<1>12. StepSizes(t)'
  <2>1. ASSUME NEW b \in 1 .. Len(batch[t])
        PROVE Len(seqs'[batch[t][b]].pages) =
                Keep(seqs'[batch[t][b]].position) + One(batch[t][b] \in Firsts(appended'[t]))
    <3>1. Len(seqs[batch[t][b]].pages) =
                Keep(seqs[batch[t][b]].position) + One(batch[t][b] \in Firsts(appended[t]))
      BY <1>0 DEF StepTables, StepSizes
    <3>2. Keep(seqs[s].position) \in Nat
      BY PagesOf, KeepNat
    <3>3. CASE b = k
      <4>1. Len(seqs'[s].pages) = Len(seqs[s].pages) + 1 /\ seqs'[s].position = seqs[s].position
        BY <1>3, <1>4
      <4>2. One(s \in Firsts(appended[t])) = 0 /\ One(s \in Firsts(appended'[t])) = 1
        BY <1>8, <1>9 DEF One
      <4>3. batch[t][b] = s
        BY <1>b, <3>3
      <4> QED BY <1>3, <3>1, <3>2, <4>1, <4>2, <4>3
    <3>4. CASE b # k
      BY <1>4, <1>8, <1>10, <3>1, <3>4, MembersIn DEF One
    <3> QED BY <3>3, <3>4
  <2> QED BY <1>1, <2>1 DEF StepSizes, Firsts, Keep
<1>13. StepAppended(t)'
  <2>0. seqs[s].position % PageTokens = 0
    BY <1>0, <1>a, <1>b, FreshLeft DEF StepPlan
  <2>1. ASSUME NEW i \in 1 .. Len(appended[t]) + 1
        PROVE  /\ appended'[t][i][1] \in Members(t)
               /\ seqs'[appended'[t][i][1]].position % PageTokens = 0
               /\ Last(seqs'[appended'[t][i][1]].pages) = appended'[t][i][2]
               /\ (i = Len(appended[t]) + 1 /\ appended'[t][i][1] = s)
                    \/ (i \in 1 .. Len(appended[t]) /\ appended'[t][i][1] = appended[t][i][1]
                          /\ appended[t][i][1] # s)
    <3>1. CASE i = Len(appended[t]) + 1
      <4>1. appended'[t][i] = <<s, page>>
        BY <1>7, <3>1
      <4>2. appended'[t][i][1] = s /\ appended'[t][i][2] = page
        BY <4>1
      <4>3. Last(seqs'[s].pages) = page /\ seqs'[s].position = seqs[s].position
        BY <1>3, <1>4
      <4> QED BY <1>b, <2>0, <3>1, <4>2, <4>3
    <3>2. CASE i \in 1 .. Len(appended[t])
      <4>1. /\ appended[t][i][1] \in Members(t)
            /\ seqs[appended[t][i][1]].position % PageTokens = 0
            /\ Last(seqs[appended[t][i][1]].pages) = appended[t][i][2]
        BY <1>0, <3>2 DEF StepTables, StepAppended
      <4>2. appended[t][i][1] # s
        BY <1>9, <3>2 DEF Firsts
      <4> QED BY <1>4, <1>7, <3>2, <4>1, <4>2, MembersIn
    <3> QED BY <1>7, <3>1, <3>2, MembersIn
  <2>2. ASSUME NEW i \in 1 .. Len(appended[t]) + 1, NEW j \in 1 .. Len(appended[t]) + 1,
               appended'[t][i][1] = appended'[t][j][1]
        PROVE  i = j
    BY <1>0, <2>1, <2>2 DEF StepTables, StepAppended
  <2> QED BY <1>7, <1>11, <2>1, <2>2 DEF StepAppended
<1>14. StepReplaced(t)'
  <2>1. \A i \in 1 .. Len(replaced[t]) : replaced[t][i][1] # s
    BY <1>9 DEF Firsts
  <2> QED BY <1>0, <1>1, <1>4, <1>6, <1>11, <2>1, MembersIn DEF StepTables, StepReplaced
<1>15. StepPhase(t)'
  <2>1. StepPhase(t)
    BY <1>0 DEF StepTables
  <2>2. Firsts(replaced[t])' = Firsts(replaced[t]) /\ Firsts(appended[t])' = Firsts(appended[t]) \cup {s}
    BY <1>1, <1>8 DEF Firsts
  <2>3. pc'[t] = "apply" => \A b \in at'[t] .. Len(batch[t]) :
          batch[t][b] \notin Firsts(appended[t])' \cup Firsts(replaced[t])'
    <3> SUFFICES ASSUME pc'[t] = "apply", NEW b \in at[t] + 1 .. Len(batch[t])
                 PROVE  batch[t][b] \notin Firsts(appended[t])' \cup Firsts(replaced[t])'
      BY <1>6
    <3>1. b \in at[t] .. Len(batch[t]) /\ b \in 1 .. Len(batch[t]) /\ b # k
      BY <1>a, MembersIn
    <3> QED BY <1>0, <1>10, <2>1, <2>2, <3>1 DEF StepPhase
  <2>4. ASSUME NEW b \in 1 .. Len(batch[t]), pc'[t] = "kernel" \/ b < at'[t], needs[t][b] = "new"
        PROVE  batch[t][b] \in Firsts(appended[t])'
    <3>1. CASE b = k
      BY <1>b, <2>2, <3>1
    <3>2. CASE b # k
      <4>1. b < at[t]
        BY <1>6, <1>a, <2>4, <3>2, MembersIn
      <4> QED BY <1>0, <2>1, <2>2, <2>4, <4>1 DEF StepPhase
    <3> QED BY <3>1, <3>2
  <2> QED BY <1>1, <1>6, <2>3, <2>4 DEF StepPhase
<1>16. LiveExact'
  BY <1>4, LiveSame DEF ApplyNew
<1>17. \A r \in SeqIds : seqs'[r] = seqs[r] \/ r \in Members(t)
  BY <1>4, <1>b
<1> QED BY <1>0, <1>1, <1>5, <1>6, <1>12, <1>13, <1>14, <1>15, <1>16, <1>17, ShapeMove DEF StepTables

LEMMA ApplyCowShape ==
  ASSUME NEW t \in Threads, Setting(t), ApplyCow(t)
  PROVE  Shape' /\ LiveExact'
<1> USE DEF Setting
<1>0. /\ pc[t] = "apply" /\ InStep(t) /\ ThreadShape(t)
      /\ StepArgs(t) /\ StepPlan(t) /\ StepTables(t) /\ needs[t][at[t]] = "cow"
  BY InStepShape DEF ApplyCow, InStep, StepPcs
<1>a. PICK k \in 1 .. Len(batch[t]) : k = at[t]
  BY <1>0 DEF StepArgs
<1>b. PICK s \in SeqIds : s = batch[t][k] /\ s \in Members(t)
  BY MembersIn
<1>c. PICK page \in Pages : page = fresh[t][next[t] + 1]
  BY <1>0, FreshPage
<1>d. Len(seqs[s].pages) > 0 /\ Len(seqs[s].pages) \in Nat
  BY <1>0, <1>a, <1>b, CowMember, PagesOf
<1>e. PICK old \in Pages : old = Last(seqs[s].pages)
  BY <1>d, PagesOf, LastFront
<1>1. /\ UNCHANGED <<batch, toks, needs, fresh, appended>>
      /\ replaced' = [replaced EXCEPT ![t] = Append(@, <<s, old, page>>)]
  BY <1>a, <1>b, <1>c, <1>e DEF ApplyCow
<1>2. next'[t] = next[t] + One(needs[t][at[t]] # "none")
  BY <1>0 DEF ApplyCow, Bump, TypeOK, One
<1>3. /\ SetPages(s, Append(Front(seqs[s].pages), page))
      /\ Append(Front(seqs[s].pages), page) \in Seq(Pages)
      /\ Len(Append(Front(seqs[s].pages), page)) = Len(seqs[s].pages)
      /\ Last(Append(Front(seqs[s].pages), page)) = page
  <2>1. /\ Front(seqs[s].pages) \in Seq(Pages)
        /\ Len(Front(seqs[s].pages)) = Len(seqs[s].pages) - 1
    BY <1>d, PagesOf, LastFront
  <2>2. SetPages(s, Append(Front(seqs[s].pages), page))
    BY <1>a, <1>b, <1>c DEF ApplyCow
  <2> HIDE DEF Front
  <2> QED BY <1>d, <2>1, <2>2 DEF Last
<1>4. /\ seqs'[s].pages = Append(Front(seqs[s].pages), page)
      /\ \A r \in SeqIds : /\ seqs'[r].state = seqs[r].state /\ seqs'[r].position = seqs[r].position
                           /\ r # s => seqs'[r] = seqs[r]
  BY <1>3, SetPagesFacts
<1>5. StepArgs(t)' /\ StepPlan(t)'
  BY <1>0, <1>1, <1>2, <1>4, ApplyPlan, MembersIn DEF ApplyCow
<1>6. /\ \/ at[t] < Len(batch[t]) /\ at'[t] = at[t] + 1 /\ pc'[t] = "apply"
         \/ at[t] = Len(batch[t]) /\ at'[t] = 1 /\ pc'[t] = "kernel"
      /\ InStep(t)'
  BY <1>0, NextMemberFacts DEF ApplyCow
<1>7. /\ Len(replaced'[t]) = Len(replaced[t]) + 1 /\ replaced'[t][Len(replaced[t]) + 1] = <<s, old, page>>
      /\ \A i \in 1 .. Len(replaced[t]) : replaced'[t][i] = replaced[t][i]
      /\ replaced[t] \in Seq(SeqIds \X Pages \X Pages) /\ replaced'[t] \in Seq(SeqIds \X Pages \X Pages)
  <2>1. replaced \in [Threads -> Seq(SeqIds \X Pages \X Pages)] /\ <<s, old, page>> \in SeqIds \X Pages \X Pages
    BY DEF TypeOK
  <2> QED BY <1>1, <2>1, AppendIn
<1>8. Firsts(replaced'[t]) = Firsts(replaced[t]) \cup {s}
  <2> DEFINE e == <<s, old, page>>
  <2>1. e \in SeqIds \X Pages \X Pages /\ e[1] = s /\ replaced'[t][Len(replaced[t]) + 1] = e
    BY <1>7
  <2> DEFINE q == replaced[t]  new == replaced'[t]
  <2>2. /\ Len(q) \in Nat /\ Len(new) = Len(q) + 1 /\ new[Len(q) + 1] = e
        /\ \A i \in 1 .. Len(q) : new[i] = q[i]
    BY <1>7, <2>1, MembersIn
  <2> HIDE DEF e, q, new
  <2>3. Firsts(new) = Firsts(q) \cup {e[1]}
    BY <2>2, FirstsAppend
  <2> QED BY <2>1, <2>3 DEF q, new
<1>9. s \notin Firsts(replaced[t]) \cup Firsts(appended[t])
  <2>1. at[t] \in at[t] .. Len(batch[t])
    BY <1>a, MembersIn
  <2> QED BY <1>0, <1>a, <1>b, <2>1 DEF StepTables, StepPhase
<1>10. \A b \in 1 .. Len(batch[t]) : b # k => batch[t][b] # s
  BY <1>0, <1>a, <1>b DEF StepArgs
<1>11. Members(t)' = Members(t)
  BY <1>1 DEF Members
<1>12. StepSizes(t)'
  <2>1. ASSUME NEW b \in 1 .. Len(batch[t])
        PROVE Len(seqs'[batch[t][b]].pages) =
                Keep(seqs'[batch[t][b]].position) + One(batch[t][b] \in Firsts(appended[t]))
    <3>1. Len(seqs[batch[t][b]].pages) =
                Keep(seqs[batch[t][b]].position) + One(batch[t][b] \in Firsts(appended[t]))
      BY <1>0 DEF StepTables, StepSizes
    <3>2. Len(seqs'[s].pages) = Len(seqs[s].pages) /\ seqs'[s].position = seqs[s].position
      BY <1>3, <1>4
    <3>3. CASE b = k
      BY <1>b, <3>1, <3>2, <3>3
    <3>4. CASE b # k
      BY <1>4, <1>10, <3>1, <3>4, MembersIn
    <3> QED BY <3>3, <3>4
  <2> QED BY <1>1, <2>1 DEF StepSizes, Firsts, Keep
<1>13. StepReplaced(t)'
  <2>0. seqs[s].position % PageTokens # 0
    BY <1>0, <1>a, <1>b, CowMember
  <2>1. ASSUME NEW i \in 1 .. Len(replaced[t]) + 1
        PROVE  /\ replaced'[t][i][1] \in Members(t)
               /\ seqs'[replaced'[t][i][1]].position % PageTokens # 0
               /\ Last(seqs'[replaced'[t][i][1]].pages) = replaced'[t][i][3]
               /\ (i = Len(replaced[t]) + 1 /\ replaced'[t][i][1] = s)
                    \/ (i \in 1 .. Len(replaced[t]) /\ replaced'[t][i][1] = replaced[t][i][1]
                          /\ replaced[t][i][1] # s)
    <3>1. CASE i = Len(replaced[t]) + 1
      <4>1. replaced'[t][i] = <<s, old, page>>
        BY <1>7, <3>1
      <4>2. replaced'[t][i][1] = s /\ replaced'[t][i][3] = page
        BY <4>1
      <4>3. Last(seqs'[s].pages) = page /\ seqs'[s].position = seqs[s].position
        BY <1>3, <1>4
      <4> QED BY <1>b, <2>0, <3>1, <4>2, <4>3
    <3>2. CASE i \in 1 .. Len(replaced[t])
      <4>1. /\ replaced[t][i][1] \in Members(t)
            /\ seqs[replaced[t][i][1]].position % PageTokens # 0
            /\ Last(seqs[replaced[t][i][1]].pages) = replaced[t][i][3]
        BY <1>0, <3>2 DEF StepTables, StepReplaced
      <4>2. replaced[t][i][1] # s
        BY <1>9, <3>2 DEF Firsts
      <4> QED BY <1>4, <1>7, <3>2, <4>1, <4>2, MembersIn
    <3> QED BY <1>7, <3>1, <3>2, MembersIn
  <2>2. ASSUME NEW i \in 1 .. Len(replaced[t]) + 1, NEW j \in 1 .. Len(replaced[t]) + 1,
               replaced'[t][i][1] = replaced'[t][j][1]
        PROVE  i = j
    BY <1>0, <2>1, <2>2 DEF StepTables, StepReplaced
  <2> QED BY <1>7, <1>11, <2>1, <2>2 DEF StepReplaced
<1>14. StepAppended(t)'
  <2>1. \A i \in 1 .. Len(appended[t]) : appended[t][i][1] # s
    BY <1>9 DEF Firsts
  <2> QED BY <1>0, <1>1, <1>4, <1>6, <1>11, <2>1, MembersIn DEF StepTables, StepAppended
<1>15. StepPhase(t)'
  <2>1. StepPhase(t)
    BY <1>0 DEF StepTables
  <2>2. Firsts(appended[t])' = Firsts(appended[t]) /\ Firsts(replaced[t])' = Firsts(replaced[t]) \cup {s}
    BY <1>1, <1>8 DEF Firsts
  <2>3. pc'[t] = "apply" => \A b \in at'[t] .. Len(batch[t]) :
          batch[t][b] \notin Firsts(replaced[t])' \cup Firsts(appended[t])'
    <3> SUFFICES ASSUME pc'[t] = "apply", NEW b \in at[t] + 1 .. Len(batch[t])
                 PROVE  batch[t][b] \notin Firsts(replaced[t])' \cup Firsts(appended[t])'
      BY <1>6
    <3>1. b \in at[t] .. Len(batch[t]) /\ b \in 1 .. Len(batch[t]) /\ b # k
      BY <1>a, MembersIn
    <3> QED BY <1>0, <1>10, <2>1, <2>2, <3>1 DEF StepPhase
  <2>4. ASSUME NEW b \in 1 .. Len(batch[t]), pc'[t] = "kernel" \/ b < at'[t], needs[t][b] = "new"
        PROVE  batch[t][b] \in Firsts(appended[t])'
    <3>1. b # k
      BY <1>0, <1>a, <2>4
    <3>2. b < at[t]
      BY <1>6, <1>a, <2>4, <3>1, MembersIn
    <3> QED BY <1>0, <2>1, <2>2, <2>4, <3>2 DEF StepPhase
  <2> QED BY <1>1, <1>6, <2>3, <2>4 DEF StepPhase
<1>16. LiveExact'
  BY <1>4, LiveSame DEF ApplyCow
<1>17. \A r \in SeqIds : seqs'[r] = seqs[r] \/ r \in Members(t)
  BY <1>4, <1>b
<1> QED BY <1>0, <1>1, <1>5, <1>6, <1>12, <1>13, <1>14, <1>15, <1>16, <1>17, ShapeMove DEF StepTables

\* The copy, the kernels or nothing at all happened: no table changes.
LEMMA ToUnwindShape ==
  ASSUME NEW t \in Threads, Setting(t), pc[t] \in {"apply", "kernel", "unwind"},
         pc'[t] = "unwind", seqs' = seqs, liveCount' = liveCount, at'[t] = at[t],
         UNCHANGED <<batch, toks, needs, fresh, appended, replaced>>
  PROVE  Shape' /\ LiveExact'
<1> USE DEF Setting
<1>0. InStep(t) /\ StepArgs(t) /\ StepPlan(t) /\ StepTables(t) /\ InStep(t)'
  BY InStepShape DEF InStep, StepPcs
<1>1. StepArgs(t)'
  BY <1>0 DEF StepArgs
<1>2. StepPlan(t)'
  BY <1>0 DEF StepPlan
<1>3. StepSizes(t)'
  BY <1>0 DEF StepTables, StepSizes, Firsts, Keep
<1>4. Members(t)' = Members(t)
  BY DEF Members
<1>5. StepAppended(t)' /\ StepReplaced(t)'
  BY <1>0, <1>4 DEF StepTables, StepAppended, StepReplaced
<1>6. StepPhase(t)'
  BY DEF StepPhase
<1>7. LiveExact'
  BY LiveSame
<1> QED BY <1>0, <1>1, <1>2, <1>3, <1>5, <1>6, <1>7, ShapeMove DEF StepTables

LEMMA StepKernelShape ==
  ASSUME NEW t \in Threads, Setting(t), StepKernel(t)
  PROVE  Shape' /\ LiveExact'
<1> USE DEF Setting
<1>0. /\ pc[t] = "kernel" /\ pc'[t] = "commit" /\ seqs' = seqs
      /\ UNCHANGED <<at, batch, toks, needs, fresh, next, appended, replaced>>
  BY DEF StepKernel, stepVars, Go, TypeOK
<1>1. InStep(t) /\ StepArgs(t) /\ StepPlan(t) /\ StepTables(t) /\ InStep(t)'
  BY <1>0, InStepShape DEF InStep, StepPcs
<1>2. StepArgs(t)'
  BY <1>0, <1>1 DEF StepArgs
<1>3. StepPlan(t)'
  BY <1>0, <1>1 DEF StepPlan
<1>4. Firsts(appended[t])' = Firsts(appended[t]) /\ Firsts(replaced[t])' = Firsts(replaced[t])
      /\ Members(t)' = Members(t)
  BY <1>0 DEF Firsts, Members
<1>5. StepSizes(t)'
  BY <1>0, <1>1, <1>4 DEF StepTables, StepSizes, Keep
<1>6. StepAppended(t)' /\ StepReplaced(t)'
  BY <1>0, <1>1, <1>4 DEF StepTables, StepAppended, StepReplaced
<1>7. StepPhase(t)'
  BY <1>0, <1>1, <1>4 DEF StepTables, StepPhase
<1>8. LiveExact'
  BY <1>0, LiveSame DEF StepKernel
<1> QED BY <1>0, <1>1, <1>2, <1>3, <1>5, <1>6, <1>7, <1>8, ShapeMove DEF StepTables

LEMMA CopyFailsShape ==
  ASSUME NEW t \in Threads, Setting(t), CopyFails(t)
  PROVE  Shape' /\ LiveExact'
<1>1. pc[t] = "apply" /\ pc'[t] = "unwind"
  BY DEF Setting, CopyFails, Go, TypeOK
<1> QED BY <1>1, ToUnwindShape DEF CopyFails

LEMMA KernelFailsShape ==
  ASSUME NEW t \in Threads, Setting(t), KernelFails(t)
  PROVE  Shape' /\ LiveExact'
<1>1. pc[t] = "kernel" /\ pc'[t] = "unwind"
  BY DEF Setting, KernelFails, Go, TypeOK
<1> QED BY <1>1, ToUnwindShape DEF KernelFails, stepVars

LEMMA UnwindFreshShape ==
  ASSUME NEW t \in Threads, Setting(t), UnwindFresh(t)
  PROVE  Shape' /\ LiveExact'
<1>1. pc[t] = "unwind" /\ pc'[t] = "unwind"
  BY DEF UnwindFresh
<1> QED BY <1>1, ToUnwindShape DEF UnwindFresh

\* The new token has its place: the page of the old position, or the one the
\* step has appended.
LEMMA StepCommitShape ==
  ASSUME NEW t \in Threads, Setting(t), StepCommit(t)
  PROVE  Shape' /\ LiveExact' /\ PageTables' = PageTables
<1> USE DEF Setting
<1>0. pc[t] = "commit" /\ InStep(t) /\ StepArgs(t) /\ StepPlan(t) /\ StepTables(t)
  BY InStepShape DEF StepCommit, InStep, StepPcs
<1>1. \A s \in SeqIds : seqs'[s] = IF s \in Members(t) THEN [seqs[s] EXCEPT !.position = @ + 1] ELSE seqs[s]
  BY DEF StepCommit, Members
<1>2. \A s \in SeqIds : seqs'[s].state = seqs[s].state /\ seqs'[s].pages = seqs[s].pages
  BY <1>1, SeqsKv DEF SeqRecords
<1>3. \A s \in SeqIds : s \in Members(t) => seqs'[s].position = seqs[s].position + 1
  BY <1>1, SeqsKv DEF SeqRecords
<1>4. ASSUME NEW b \in 1 .. Len(batch[t])
      PROVE Len(seqs'[batch[t][b]].pages) = Keep(seqs'[batch[t][b]].position)
  <2>1. PICK s \in SeqIds : s = batch[t][b] /\ s \in Members(t)
    BY MembersIn
  <2>2. Len(seqs[s].pages) = Keep(seqs[s].position) + One(s \in Firsts(appended[t]))
    BY <1>0, <2>1 DEF StepTables, StepSizes
  <2>3. seqs[s].position \in Nat
    BY PagesOf
  <2>4. CASE seqs[s].position % PageTokens = 0
    <3>1. Len(needs[t]) = Len(batch[t]) /\ needs[t][b] = "new"
      BY <1>0, <2>1, <2>4 DEF StepPlan
    <3>2. s \in Firsts(appended[t])
      BY <1>0, <2>1, <3>1 DEF StepTables, StepPhase
    <3>3. Keep(seqs[s].position + 1) = Keep(seqs[s].position) + 1
      BY <2>3, <2>4, KeepNat
    <3> QED BY <1>2, <1>3, <2>1, <2>2, <3>2, <3>3 DEF One
  <2>5. CASE seqs[s].position % PageTokens # 0
    <3>1. s \notin Firsts(appended[t])
      BY <1>0, <2>5 DEF StepTables, StepAppended, Firsts
    <3>2. Keep(seqs[s].position + 1) = Keep(seqs[s].position) /\ Keep(seqs[s].position) \in Nat
      BY <2>3, <2>5, KeepNat
    <3> QED BY <1>2, <1>3, <2>1, <2>2, <3>1, <3>2 DEF One
  <2> QED BY <2>4, <2>5
<1>5. \A s \in SeqIds : s \in Members(t) => Len(seqs'[s].pages) = Keep(seqs'[s].position)
  BY <1>4 DEF Members
<1>6. PageTables' = PageTables
  BY <1>2 DEF PageTables
<1> QED BY <1>0, <1>1, <1>2, <1>5, <1>6, LeaveShape DEF StepCommit

\* A return after everything that was appended is gone again.
LEMMA UndoneShape ==
  ASSUME NEW t \in Threads, Setting(t), InStep(t), appended[t] = <<>>, Leave(t),
         \A s \in SeqIds : /\ seqs'[s].state = seqs[s].state /\ seqs'[s].position = seqs[s].position
                           /\ Len(seqs'[s].pages) = Len(seqs[s].pages)
                           /\ s \notin Members(t) => seqs'[s] = seqs[s],
         liveCount' = liveCount
  PROVE  Shape' /\ LiveExact'
<1> USE DEF Setting
<1>0. StepTables(t)
  BY InStepShape
<1>1. ASSUME NEW b \in 1 .. Len(batch[t])
      PROVE Len(seqs'[batch[t][b]].pages) = Keep(seqs'[batch[t][b]].position)
  <2>1. PICK s \in SeqIds : s = batch[t][b]
    BY MembersIn
  <2>2. Len(seqs[s].pages) = Keep(seqs[s].position) + 0
    BY <1>0, <2>1, FirstsEmpty DEF StepTables, StepSizes, One
  <2>3. Keep(seqs[s].position) \in Nat
    BY PagesOf, KeepNat
  <2> QED BY <2>1, <2>2, <2>3
<1>2. \A s \in SeqIds : s \in Members(t) => Len(seqs'[s].pages) = Keep(seqs'[s].position)
  BY <1>1 DEF Members
<1> QED BY <1>2, LeaveShape

LEMMA StepThrowShape ==
  ASSUME NEW t \in Threads, Setting(t), StepThrow(t)
  PROVE  Shape' /\ LiveExact'
<1>1. InStep(t)
  BY DEF StepThrow, InStep, StepPcs
<1> QED BY <1>1, UndoneShape DEF StepThrow

LEMMA RollbackAppendedShape ==
  ASSUME NEW t \in Threads, Setting(t), RollbackAppended(t)
  PROVE  Shape' /\ LiveExact'
<1> USE DEF Setting
<1>0. /\ pc[t] = "unwind" /\ InStep(t) /\ ThreadShape(t) /\ appended[t] # <<>>
      /\ StepArgs(t) /\ StepPlan(t) /\ StepTables(t)
  BY InStepShape DEF RollbackAppended, InStep, StepPcs
<1>a. PICK s \in SeqIds : s = Head(appended[t])[1]
  BY <1>0, AppendedFacts
<1>b. /\ s = appended[t][1][1] /\ s \in Members(t) /\ s \in Firsts(appended[t])
      /\ Len(seqs[s].pages) > 0 /\ Len(seqs[s].pages) \in Nat
  BY <1>0, <1>a, AppendedFacts, PagesOf
<1>1. /\ UNCHANGED <<batch, toks, needs, fresh, next, at, replaced>>
      /\ pc' = pc
      /\ appended' = [appended EXCEPT ![t] = Tail(@)]
  BY DEF RollbackAppended
<1>2. /\ SetPages(s, Front(seqs[s].pages)) /\ Front(seqs[s].pages) \in Seq(Pages)
      /\ Len(Front(seqs[s].pages)) = Len(seqs[s].pages) - 1
  BY <1>a, <1>b, PagesOf, LastFront DEF RollbackAppended
<1>3. /\ seqs'[s].pages = Front(seqs[s].pages)
      /\ \A r \in SeqIds : /\ seqs'[r].state = seqs[r].state /\ seqs'[r].position = seqs[r].position
                           /\ r # s => seqs'[r] = seqs[r]
  BY <1>2, SetPagesFacts
<1>4. /\ Len(appended'[t]) = Len(appended[t]) - 1 /\ Len(appended[t]) >= 1
      /\ \A i \in 1 .. Len(appended[t]) - 1 : appended'[t][i] = appended[t][i + 1]
      /\ Len(appended[t]) \in Nat
  <2>1. appended \in [Threads -> Seq(SeqIds \X Pages)]
    BY DEF TypeOK
  <2> QED BY <1>0, <1>1, <2>1, MembersIn, TailIn
<1>5. \A i \in 1 .. Len(appended[t]) - 1 :
        i + 1 \in 1 .. Len(appended[t]) /\ appended[t][i + 1][1] # s
  <2> SUFFICES ASSUME NEW i \in 1 .. Len(appended[t]) - 1
               PROVE  i + 1 \in 1 .. Len(appended[t]) /\ appended[t][i + 1][1] # s
    OBVIOUS
  <2>1. i + 1 \in 1 .. Len(appended[t]) /\ 1 \in 1 .. Len(appended[t]) /\ i + 1 # 1
    BY <1>4
  <2> QED BY <1>0, <1>b, <2>1 DEF StepTables, StepAppended
<1>6. Firsts(appended'[t]) = Firsts(appended[t]) \ {s}
  <2>1. ASSUME NEW x \in Firsts(appended'[t]) PROVE x \in Firsts(appended[t]) /\ x # s
    <3>1. PICK i \in 1 .. Len(appended[t]) - 1 : appended'[t][i][1] = x
      BY <1>4 DEF Firsts
    <3> QED BY <1>4, <1>5, <3>1 DEF Firsts
  <2>2. ASSUME NEW x \in Firsts(appended[t]), x # s PROVE x \in Firsts(appended'[t])
    <3>1. PICK i \in 1 .. Len(appended[t]) : appended[t][i][1] = x
      BY DEF Firsts
    <3>2. i # 1
      BY <1>b, <2>2, <3>1
    <3>3. i - 1 \in 1 .. Len(appended[t]) - 1 /\ (i - 1) + 1 = i
      BY <1>4, <3>2
    <3>4. appended'[t][i - 1] = appended[t][i]
      BY <1>4, <3>3
    <3> QED BY <1>4, <3>1, <3>3, <3>4 DEF Firsts
  <2> QED BY <2>1, <2>2
<1>7. StepArgs(t)'
  BY <1>0, <1>1, <1>3, MembersIn DEF StepArgs
<1>8. StepPlan(t)'
  BY <1>0, <1>1, <1>3, MembersIn, SMTT(30) DEF StepPlan
<1>9. Members(t)' = Members(t)
  BY <1>1 DEF Members
<1>10. StepSizes(t)'
  <2>1. ASSUME NEW b \in 1 .. Len(batch[t])
        PROVE Len(seqs'[batch[t][b]].pages) =
                Keep(seqs'[batch[t][b]].position) + One(batch[t][b] \in Firsts(appended'[t]))
    <3>1. PICK r \in SeqIds : r = batch[t][b]
      BY MembersIn
    <3>2. Len(seqs[r].pages) = Keep(seqs[r].position) + One(r \in Firsts(appended[t]))
      BY <1>0, <3>1 DEF StepTables, StepSizes
    <3>3. Keep(seqs[r].position) \in Nat
      BY PagesOf, KeepNat
    <3>4. CASE r = s
      <4>1. Len(seqs'[r].pages) = Len(seqs[r].pages) - 1 /\ seqs'[r].position = seqs[r].position
        BY <1>2, <1>3, <3>4
      <4>2. One(r \in Firsts(appended[t])) = 1 /\ One(r \in Firsts(appended'[t])) = 0
        BY <1>6, <1>b, <3>4 DEF One
      <4> QED BY <3>1, <3>2, <3>3, <4>1, <4>2
    <3>5. CASE r # s
      BY <1>3, <1>6, <3>1, <3>2, <3>5 DEF One
    <3> QED BY <3>4, <3>5
  <2> QED BY <1>1, <2>1 DEF StepSizes, Firsts, Keep
<1>11. StepAppended(t)'
  <2>1. ASSUME NEW i \in 1 .. Len(appended[t]) - 1
        PROVE  /\ appended'[t][i][1] \in Members(t)
               /\ seqs'[appended'[t][i][1]].position % PageTokens = 0
               /\ Last(seqs'[appended'[t][i][1]].pages) = appended'[t][i][2]
    <3>1. /\ appended[t][i + 1][1] \in Members(t)
          /\ seqs[appended[t][i + 1][1]].position % PageTokens = 0
          /\ Last(seqs[appended[t][i + 1][1]].pages) = appended[t][i + 1][2]
      BY <1>0, <1>5 DEF StepTables, StepAppended
    <3>2. seqs'[appended[t][i + 1][1]] = seqs[appended[t][i + 1][1]]
      BY <1>3, <1>5, <3>1, MembersIn
    <3> QED BY <1>4, <3>1, <3>2
  <2>2. ASSUME NEW i \in 1 .. Len(appended[t]) - 1, NEW j \in 1 .. Len(appended[t]) - 1,
               appended'[t][i][1] = appended'[t][j][1]
        PROVE  i = j
    <3>1. i + 1 = j + 1
      BY <1>0, <1>4, <1>5, <2>2 DEF StepTables, StepAppended
    <3> QED BY <3>1
  <2> QED BY <1>4, <1>9, <2>1, <2>2 DEF StepAppended
<1>12. StepReplaced(t)'
  <2>1. \A i \in 1 .. Len(replaced[t]) : replaced[t][i][1] # s
    <3>1. seqs[s].position % PageTokens = 0
      BY <1>0, <1>b, <1>4 DEF StepTables, StepAppended
    <3> QED BY <1>0, <3>1 DEF StepTables, StepReplaced
  <2> QED BY <1>0, <1>1, <1>3, <1>9, <2>1, MembersIn, SMTT(30) DEF StepTables, StepReplaced
<1>13. StepPhase(t)' /\ InStep(t)'
  BY <1>0, <1>1 DEF StepPhase, InStep, StepPcs
<1>14. LiveExact'
  BY <1>3, LiveSame DEF RollbackAppended
<1>15. \A r \in SeqIds : seqs'[r] = seqs[r] \/ r \in Members(t)
  BY <1>3, <1>b
<1> QED BY <1>0, <1>1, <1>7, <1>8, <1>10, <1>11, <1>12, <1>13, <1>14, <1>15, ShapeMove DEF StepTables

LEMMA RollbackRetainShape ==
  ASSUME NEW t \in Threads, Setting(t), RollbackRetain(t)
  PROVE  Shape' /\ LiveExact'
<1> USE DEF Setting
<1>0. /\ pc[t] = "unwind" /\ InStep(t) /\ ThreadShape(t) /\ replaced[t] # <<>> /\ appended[t] = <<>>
      /\ StepArgs(t) /\ StepPlan(t) /\ StepTables(t) /\ next[t] >= Len(fresh[t])
  BY InStepShape DEF RollbackRetain, InStep, StepPcs
<1>a. PICK s \in SeqIds, p \in Pages : s = Head(replaced[t])[1] /\ p = Head(replaced[t])[2]
  BY <1>0, ReplacedFacts
<1>b. /\ s = replaced[t][1][1] /\ s \in Members(t)
      /\ Len(seqs[s].pages) > 0 /\ Len(seqs[s].pages) \in Nat
      /\ Len(replaced[t]) >= 1
  BY <1>0, <1>a, ReplacedFacts, PagesOf
<1>1. /\ SetPages(s, Append(Front(seqs[s].pages), p))
      /\ Append(Front(seqs[s].pages), p) \in Seq(Pages)
      /\ Len(Append(Front(seqs[s].pages), p)) = Len(seqs[s].pages)
  <2>1. /\ Front(seqs[s].pages) \in Seq(Pages)
        /\ Len(Front(seqs[s].pages)) = Len(seqs[s].pages) - 1
    BY <1>b, PagesOf, LastFront
  <2>2. SetPages(s, Append(Front(seqs[s].pages), p))
    BY <1>a DEF RollbackRetain
  <2> HIDE DEF Front
  <2> QED BY <1>b, <2>1, <2>2
<1>2. /\ Len(seqs'[s].pages) = Len(seqs[s].pages)
      /\ \A r \in SeqIds : /\ seqs'[r].state = seqs[r].state /\ seqs'[r].position = seqs[r].position
                           /\ r # s => seqs'[r] = seqs[r]
  BY <1>1, SetPagesFacts
<1>3. CASE Leave(t)
  <2>1. \A r \in SeqIds : Len(seqs'[r].pages) = Len(seqs[r].pages) /\ (r \notin Members(t) => seqs'[r] = seqs[r])
    BY <1>2, <1>b
  <2> QED BY <1>0, <1>2, <1>3, <2>1, UndoneShape DEF RollbackRetain
<1>4. CASE Go(t, "restore") /\ UNCHANGED <<stepping, at, stepVars>>
  <2>1. pc'[t] = "restore" /\ UNCHANGED <<at, batch, toks, needs, fresh, next, appended, replaced>>
    BY <1>4 DEF Go, stepVars, TypeOK
  <2>2. StepArgs(t)'
    BY <1>0, <1>2, <2>1, MembersIn DEF StepArgs
  <2>3. StepPlan(t)'
    <3>1. \A b \in 1 .. Len(needs[t]) : batch[t][b] \in SeqIds /\ b \in 1 .. Len(batch[t])
      BY <1>0, MembersIn DEF StepPlan
    <3>2. \A b \in 1 .. Len(needs[t]) : seqs'[batch[t][b]].position = seqs[batch[t][b]].position
      BY <1>2, <3>1
    <3>3. StepPlan(t)
      BY <1>0
    <3> QED BY <1>0, <2>1, <3>2, <3>3 DEF StepPlan
  <2>4. Members(t)' = Members(t) /\ Firsts(appended[t])' = Firsts(appended[t])
    BY <2>1 DEF Members, Firsts
  <2>5. StepSizes(t)'
    <3>1. ASSUME NEW b \in 1 .. Len(batch[t])
          PROVE Len(seqs'[batch[t][b]].pages) = Len(seqs[batch[t][b]].pages)
      <4>1. batch[t][b] \in SeqIds
        BY MembersIn
      <4>2. CASE batch[t][b] = s
        BY <1>2, <4>2
      <4>3. CASE batch[t][b] # s
        BY <1>2, <4>1, <4>3
      <4> QED BY <4>2, <4>3
    <3>2. \A b \in 1 .. Len(batch[t]) : seqs'[batch[t][b]].position = seqs[batch[t][b]].position
      BY <1>2, MembersIn
    <3> QED BY <1>0, <2>1, <2>4, <3>1, <3>2 DEF StepTables, StepSizes, Keep
  <2>6. StepAppended(t)'
    BY <1>0, <2>1 DEF StepAppended
  <2>7. StepReplaced(t)'
    <3>1. ASSUME NEW i \in 1 .. Len(replaced[t])
          PROVE  /\ replaced[t][i][1] \in Members(t)
                 /\ seqs'[replaced[t][i][1]].position % PageTokens # 0
                 /\ i = 1 \/ Last(seqs'[replaced[t][i][1]].pages) = replaced[t][i][3]
      <4>1. /\ replaced[t][i][1] \in Members(t) /\ replaced[t][i][1] \in SeqIds
            /\ seqs[replaced[t][i][1]].position % PageTokens # 0
            /\ Last(seqs[replaced[t][i][1]].pages) = replaced[t][i][3]
        BY <1>0, MembersIn DEF StepTables, StepReplaced
      <4>2. i = 1 \/ replaced[t][i][1] # s
        <5>1. 1 \in 1 .. Len(replaced[t])
          BY <1>b, MembersIn
        <5> QED BY <1>0, <1>b, <5>1 DEF StepTables, StepReplaced
      <4> QED BY <1>2, <4>1, <4>2
    <3> QED BY <1>0, <2>1, <2>4, <3>1 DEF StepTables, StepReplaced
  <2>8. StepPhase(t)' /\ InStep(t)'
    BY <1>0, <2>1 DEF StepPhase, InStep, StepPcs
  <2>9. LiveExact'
    BY <1>2, LiveSame DEF RollbackRetain
  <2>10. \A r \in SeqIds : seqs'[r] = seqs[r] \/ r \in Members(t)
    BY <1>2, <1>b
  <2> QED BY <1>0, <2>1, <2>2, <2>3, <2>5, <2>6, <2>7, <2>8, <2>9, <2>10, ShapeMove DEF StepTables
<1> QED BY <1>3, <1>4 DEF RollbackRetain

LEMMA RollbackReleaseShape ==
  ASSUME NEW t \in Threads, Setting(t), RollbackRelease(t)
  PROVE  Shape' /\ LiveExact'
<1> USE DEF Setting
<1>0. /\ pc[t] = "restore" /\ InStep(t) /\ replaced[t] # <<>> /\ appended[t] = <<>> /\ seqs' = seqs
      /\ StepArgs(t) /\ StepPlan(t) /\ StepTables(t)
  <2>1. pc[t] = "restore" /\ InStep(t) /\ seqs' = seqs
    BY DEF RollbackRelease, InStep, StepPcs
  <2>2. StepArgs(t) /\ StepPlan(t) /\ StepTables(t)
    BY <2>1, InStepShape
  <2> QED BY <2>1, <2>2 DEF StepTables, StepPhase
<1>1. /\ UNCHANGED <<at, batch, toks, needs, fresh, next, appended>>
      /\ pc'[t] = "unwind" /\ replaced' = [replaced EXCEPT ![t] = Tail(@)]
  BY DEF RollbackRelease, Go, TypeOK
<1>2. /\ Len(replaced'[t]) = Len(replaced[t]) - 1 /\ Len(replaced[t]) >= 1
      /\ \A i \in 1 .. Len(replaced[t]) - 1 : replaced'[t][i] = replaced[t][i + 1]
      /\ Len(replaced[t]) \in Nat
  <2>1. replaced \in [Threads -> Seq(SeqIds \X Pages \X Pages)]
    BY DEF TypeOK
  <2> QED BY <1>0, <1>1, <2>1, MembersIn, TailIn
<1>3. \A i \in 1 .. Len(replaced[t]) - 1 : i + 1 \in 1 .. Len(replaced[t]) /\ i + 1 # 1
  BY <1>2
<1>4. StepArgs(t)'
  BY <1>0, <1>1 DEF StepArgs
<1>5. StepPlan(t)'
  BY <1>0, <1>1 DEF StepPlan
<1>6. Members(t)' = Members(t)
  BY <1>1 DEF Members
<1>7. StepSizes(t)'
  BY <1>0, <1>1 DEF StepTables, StepSizes, Firsts, Keep
<1>8. StepAppended(t)'
  BY <1>0, <1>1 DEF StepAppended
<1>9. StepReplaced(t)'
  <2>1. ASSUME NEW i \in 1 .. Len(replaced[t]) - 1
        PROVE  /\ replaced'[t][i][1] \in Members(t)
               /\ seqs[replaced'[t][i][1]].position % PageTokens # 0
               /\ Last(seqs[replaced'[t][i][1]].pages) = replaced'[t][i][3]
    <3>1. PICK j \in 1 .. Len(replaced[t]) : j = i + 1 /\ j # 1 /\ replaced'[t][i] = replaced[t][j]
      BY <1>2, <1>3
    <3>2. /\ replaced[t][j][1] \in Members(t)
          /\ seqs[replaced[t][j][1]].position % PageTokens # 0
          /\ Last(seqs[replaced[t][j][1]].pages) = replaced[t][j][3]
      BY <1>0, <3>1 DEF StepTables, StepReplaced
    <3> QED BY <3>1, <3>2
  <2>2. ASSUME NEW i \in 1 .. Len(replaced[t]) - 1, NEW j \in 1 .. Len(replaced[t]) - 1,
               replaced'[t][i][1] = replaced'[t][j][1]
        PROVE  i = j
    <3>1. PICK k \in 1 .. Len(replaced[t]) : k = i + 1 /\ replaced'[t][i] = replaced[t][k]
      BY <1>2, <1>3
    <3>2. PICK m \in 1 .. Len(replaced[t]) : m = j + 1 /\ replaced'[t][j] = replaced[t][m]
      BY <1>2, <1>3
    <3>3. \A x, y \in 1 .. Len(replaced[t]) : replaced[t][x][1] = replaced[t][y][1] => x = y
      BY <1>0 DEF StepTables, StepReplaced
    <3>4. k = m
      BY <2>2, <3>1, <3>2, <3>3
    <3> QED BY <3>1, <3>2, <3>4
  <2> QED BY <1>0, <1>2, <1>6, <2>1, <2>2 DEF StepReplaced
<1>10. StepPhase(t)' /\ InStep(t)'
  BY <1>1 DEF StepPhase, InStep, StepPcs
<1>11. LiveExact'
  BY <1>0, LiveSame DEF RollbackRelease
<1> QED BY <1>0, <1>1, <1>4, <1>5, <1>7, <1>8, <1>9, <1>10, <1>11, ShapeMove DEF StepTables

\* A refused step changes nothing.
LEMMA StutterShape ==
  ASSUME TypeOK, Shape, LiveExact, UNCHANGED vars
  PROVE  Shape' /\ LiveExact'
<1>1. \A u \in Threads : Quiet(u)
  BY DEF vars, Quiet
<1>2. \A u \in Threads, s \in SeqIds : (Writes(u, s)' <=> Writes(u, s)) /\ (Reads(u, s)' <=> Reads(u, s))
  BY <1>1, QuietUses
<1>3. Alone' /\ OneStep'
  BY <1>2 DEF Shape, Alone, OneStep, OneStepAtATime, InStep, vars
<1>4. \A s \in SeqIds : SeqShape(s)'
  BY <1>2 DEF Shape, SeqShape, vars, Keep
<1>5. LiveExact'
  BY DEF LiveExact, vars
<1>6. \A u \in Threads : ThreadShape(u)'
  BY <1>1, QuietKeepsShape DEF Shape, vars
<1> QED BY <1>3, <1>4, <1>5, <1>6 DEF Shape

LEMMA EveryStepShape ==
  ASSUME TypeOK, AllocInv, Shape, LiveExact, ~ForkDuringStep, NEW t \in Threads, Call(t) \/ Run(t)
  PROVE  Shape' /\ LiveExact'
<1>1. Setting(t)
  BY SettingHolds
<1>2. CASE SequenceCall(t)
  BY <1>1, <1>2, NewSequenceShape, DestroyBeginShape, ForkBeginShape, TruncateBeginShape DEF SequenceCall
<1>3. CASE StepCall(t)
  BY <1>1, <1>3, StepEnterShape, StutterShape DEF StepCall, StepRefused
<1>4. CASE SequenceRun(t)
  BY <1>1, <1>4, ForkRetainShape, ForkEndShape, DestroyReleaseShape, DestroyEndShape,
     TruncateReleaseShape, TruncateEndShape DEF SequenceRun
<1>5. CASE StepRun(t)
  BY <1>1, <1>5, StepNeedsShape, StepAllocShape, ApplyNoneShape, ApplyNewShape, ApplyCowShape,
     CopyFailsShape, StepKernelShape, KernelFailsShape, StepCommitShape, UnwindFreshShape,
     RollbackAppendedShape, RollbackRetainShape, RollbackReleaseShape, StepThrowShape DEF StepRun
<1> QED BY <1>2, <1>3, <1>4, <1>5 DEF Call, Run

=============================================================================
