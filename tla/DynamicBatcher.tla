--------------------------- MODULE DynamicBatcher ---------------------------
(***************************************************************************)
(* The request batcher of 02-image-embed.  Clients submit requests from    *)
(* any thread; a worker thread takes up to max_batch of them when as many  *)
(* wait or when its deadline passes, and runs the handler outside the      *)
(* lock; the owner drains the batcher and destroys it.                     *)
(*                                                                         *)
(* What a thread does under the mutex m is one action.  The deadline of    *)
(* the worker's wait can pass at any time, so that it may take whatever is *)
(* pending; a wait that ends with nothing pending is repeated and leaves   *)
(* no trace.  A request is the number of the submit() that brought it.     *)
(***************************************************************************)
EXTENDS Integers, Sequences

CONSTANTS
    BatchLimit,     \* max_batch, at least 1 after the constructor's clamp
    MaxSubmits      \* bound on the calls of submit()

ASSUME BatcherAssumption == BatchLimit \in Nat \ {0} /\ MaxSubmits \in Nat

VARIABLES
    pending,    \* requests waiting
    stopping,   \* set by drain()
    worker,     \* "waiting" in wait_for, "handling" a batch, "counting" it, "exited"
    inFlight,   \* the worker's batch
    owner,      \* "running", "joining" in drain(), "drained"
    fired,      \* batches
    items,      \* items
    largest,    \* largest
    submits,    \* calls of submit() so far
    accepted,   \* requests that submit() queued, in order
    handled     \* requests whose handler call has returned, in order

batcherVars == <<pending, stopping, worker, inFlight, owner, fired, items, largest,
                 submits, accepted, handled>>

BatcherInit ==
    /\ pending = <<>> /\ inFlight = <<>>
    /\ stopping = FALSE
    /\ worker = "waiting" /\ owner = "running"
    /\ fired = 0 /\ items = 0 /\ largest = 0
    /\ submits = 0
    /\ accepted = <<>> /\ handled = <<>>

\* Mutant: requests are queued after drain() has begun.
SubmitAlways ==
    /\ submits < MaxSubmits
    /\ submits' = submits + 1
    /\ pending' = Append(pending, submits')
    /\ accepted' = Append(accepted, submits')
    /\ UNCHANGED <<stopping, worker, inFlight, owner, fired, items, largest, handled>>

\* A request that comes after drain() has begun is dropped.
submit ==
    /\ submits < MaxSubmits
    /\ submits' = submits + 1
    /\ \/ /\ ~stopping
          /\ pending' = Append(pending, submits')
          /\ accepted' = Append(accepted, submits')
       \/ stopping /\ UNCHANGED <<pending, accepted>>
    /\ UNCHANGED <<stopping, worker, inFlight, owner, fired, items, largest, handled>>

Smaller(a, b) == IF a < b THEN a ELSE b
Larger(a, b) == IF a < b THEN b ELSE a

\* Mutant: everything that waits is taken.
TakeAll ==
    /\ worker = "waiting"
    /\ pending # <<>>
    /\ inFlight' = pending
    /\ pending' = <<>>
    /\ worker' = "handling"
    /\ UNCHANGED <<stopping, owner, fired, items, largest, submits, accepted, handled>>

\* Mutant: the wait has no deadline.
TakeFullOnly ==
    LET take == Smaller(Len(pending), BatchLimit) IN
    /\ worker = "waiting"
    /\ Len(pending) >= BatchLimit \/ (stopping /\ pending # <<>>)
    /\ inFlight' = SubSeq(pending, 1, take)
    /\ pending' = SubSeq(pending, take + 1, Len(pending))
    /\ worker' = "handling"
    /\ UNCHANGED <<stopping, owner, fired, items, largest, submits, accepted, handled>>

Take ==
    LET take == Smaller(Len(pending), BatchLimit) IN
    /\ worker = "waiting"
    /\ pending # <<>>
    /\ inFlight' = SubSeq(pending, 1, take)
    /\ pending' = SubSeq(pending, take + 1, Len(pending))
    /\ worker' = "handling"
    /\ UNCHANGED <<stopping, owner, fired, items, largest, submits, accepted, handled>>

\* The handler returns.
Handle ==
    /\ worker = "handling"
    /\ handled' = handled \o inFlight
    /\ worker' = "counting"
    /\ UNCHANGED <<pending, stopping, inFlight, owner, fired, items, largest, submits, accepted>>

\* The counters, and back to the wait.
Count ==
    /\ worker = "counting"
    /\ fired' = fired + 1
    /\ items' = items + Len(inFlight)
    /\ largest' = Larger(largest, Len(inFlight))
    /\ inFlight' = <<>>
    /\ worker' = "waiting"
    /\ UNCHANGED <<pending, stopping, owner, submits, accepted, handled>>

Exit ==
    /\ worker = "waiting"
    /\ pending = <<>>
    /\ stopping
    /\ worker' = "exited"
    /\ UNCHANGED <<pending, stopping, inFlight, owner, fired, items, largest,
                   submits, accepted, handled>>

\* Mutant: the worker is not told to stop.
DrainForgetsStop ==
    /\ owner = "running"
    /\ owner' = "joining"
    /\ UNCHANGED <<pending, stopping, worker, inFlight, fired, items, largest,
                   submits, accepted, handled>>

\* drain(): up to the join.
DrainBegin ==
    /\ owner = "running"
    /\ stopping' = TRUE
    /\ owner' = "joining"
    /\ UNCHANGED <<pending, worker, inFlight, fired, items, largest, submits, accepted, handled>>

\* drain(): the worker has returned.  What is left, in batches of max_batch, is
\* handled here; StopsInOrder says that nothing is.
DrainEnd ==
    /\ owner = "joining"
    /\ worker = "exited"
    /\ handled' = handled \o pending
    /\ items' = items + Len(pending)
    /\ fired' = fired + (Len(pending) + BatchLimit - 1) \div BatchLimit
    /\ largest' = Larger(largest, Smaller(Len(pending), BatchLimit))
    /\ pending' = <<>>
    /\ owner' = "drained"
    /\ UNCHANGED <<stopping, worker, inFlight, submits, accepted>>

WorkerStep == Take \/ Handle \/ Count \/ Exit
BatcherNext == submit \/ WorkerStep \/ DrainBegin \/ DrainEnd

\* The worker's wait ends at its deadline at the latest, and the handler
\* returns.  Nobody has to submit or to drain, but a drain that has begun goes on.
BatcherFairness == WF_batcherVars(WorkerStep) /\ WF_batcherVars(DrainEnd)
BatcherSpec == BatcherInit /\ [][BatcherNext]_batcherVars

-----------------------------------------------------------------------------
BatcherTypeOK ==
    /\ {pending, inFlight, accepted, handled} \subseteq Seq(1 .. MaxSubmits)
    /\ stopping \in BOOLEAN
    /\ worker \in {"waiting", "handling", "counting", "exited"}
    /\ owner \in {"running", "joining", "drained"}
    /\ {fired, items, largest} \subseteq Nat
    /\ submits \in 0 .. MaxSubmits

\* Requests are handled once each and in the order they were accepted: at any
\* time the handled, the batch in hand and the pending make up the accepted.
ServedInOrder ==
    accepted = (IF worker = "counting" THEN handled ELSE handled \o inFlight) \o pending

\* No batch is empty or exceeds max_batch.
BatchesBounded ==
    /\ Len(inFlight) <= BatchLimit /\ largest <= BatchLimit
    /\ worker \in {"handling", "counting"} <=> inFlight # <<>>

\* The worker leaves only when it is told to and no request is left; drain()
\* returns after it, with nothing to flush.
StopsInOrder ==
    /\ worker = "exited" => stopping /\ pending = <<>>
    /\ stopping <=> owner # "running"
    /\ owner = "drained" => worker = "exited"

\* run() and drain() serve requests once, in order and in batches of the right
\* size, and the worker leaves none behind.
BatcherInv == BatcherTypeOK /\ ServedInOrder /\ BatchesBounded /\ StopsInOrder

\* When drain() returns everything that was ever accepted has been handled, and
\* nothing is accepted any more.
DrainedMeansHandled == owner = "drained" => accepted = handled

\* A request is not stranded: an accepted one is handled, whether or not more
\* requests come.
AcceptedAreHandled ==
    \A n \in 1 .. MaxSubmits : Len(accepted) >= n ~> Len(handled) >= n
=============================================================================
