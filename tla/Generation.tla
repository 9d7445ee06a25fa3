----------------------------- MODULE Generation -----------------------------
(***************************************************************************)
(* The generation loops of 19-llm-engine over one runtime: generate_batch, *)
(* generate with a callback, perplexity, and the Engine facade, whose own  *)
(* sequence shares the page pool with the calls.                           *)
(*                                                                         *)
(* The runtime is what LlmRuntime shows it to be: step() gives each member *)
(* of the batch one more position and the page it needs, or throws and     *)
(* changes nothing.  Prompts and generated tokens are counted; what is     *)
(* sampled is the end token or another one, at the model's choice.         *)
(***************************************************************************)
EXTENDS Integers, Sequences, FiniteSets, FiniteSetsExt

CONSTANTS
    GenContext,     \* RuntimeOptions::context
    GenPageTokens,  \* RuntimeOptions::page_tokens
    GenMaxBatch,    \* RuntimeOptions::max_batch
    MaxNews,        \* values of max_new_tokens that callers pass
    MaxPrompt,      \* bound on the tokens of a prompt
    MayThrow        \* step() and sample() may report an error

ASSUME GenerationAssumption ==
    /\ GenContext \in Nat \ {0} /\ GenPageTokens \in 1 .. GenContext
    /\ GenMaxBatch \in 1 .. 64 /\ MaxNews \subseteq Int /\ MaxPrompt \in Nat

VARIABLES
    call,       \* "none", "batch", "stream" or "perplexity"
    at,         \* where the call is
    reqs,       \* requests: tokens of the prompt and max_new_tokens
    act,        \* for each request: fed, position, generated tokens, finish
    members,    \* the requests in the step at hand
    cancelled,  \* the CancellationToken of the call
    own         \* position of the sequence the Engine object keeps

genVars == <<call, at, reqs, act, members, cancelled, own>>

NewActive == [fed |-> 0, pos |-> 0, n |-> 0, finish |-> "none"]

\* Mutant: a context that is no multiple of the page size loses its last page.
MaxPagesRoundedDown == GenContext \div GenPageTokens

\* The pool of the default options: full contexts for a whole batch.
MaxPages == (GenContext + GenPageTokens - 1) \div GenPageTokens
PoolPages == GenMaxBatch * MaxPages
PagesFor(pos) == (pos + GenPageTokens - 1) \div GenPageTokens

GenInit ==
    /\ call = "none" /\ at = "idle"
    /\ reqs = <<>> /\ act = <<>> /\ members = {}
    /\ cancelled = FALSE
    /\ own = 0

\* Requests that still have their sequence.  A batch gives the sequence of a
\* request back when it ends, the other calls when they return.
Holding == {i \in DOMAIN act : call # "batch" \/ act[i].finish = "none"}
Running == {i \in DOMAIN act : act[i].finish = "none"}
UsedPages == PagesFor(own) + MapThenSumSet(LAMBDA i : PagesFor(act[i].pos), Holding)
NewPages == {i \in members : act[i].pos % GenPageTokens = 0}

Begin(kind, where, r) ==
    /\ at = "idle"
    /\ call' = kind
    /\ at' = where
    /\ reqs' = r
    /\ act' = [i \in DOMAIN r |-> NewActive]
    /\ cancelled' = FALSE
    /\ UNCHANGED <<members, own>>

(***************************************************************************)
(* generate_batch.                                                         *)
(***************************************************************************)
\* Requests that fail a check make the call throw before anything is stepped.
BatchBegin(r) ==
    /\ Len(r) <= GenMaxBatch
    /\ \A i \in DOMAIN r : r[i].prompt \in 1 .. GenContext /\ r[i].max >= 0
    /\ Begin("batch", "round", r)

\* Mutant: a full sequence is stepped once more.
BatchRoundUnchecked ==
    /\ at = "round"
    /\ Running # {} /\ ~cancelled
    /\ members' = Running
    /\ at' = "step"
    /\ UNCHANGED <<call, reqs, act, cancelled, own>>

\* The top of the loop: nothing left, cancelled, or a step for every request
\* whose context is not full.
BatchRound ==
    /\ at = "round"
    /\ \/ /\ Running = {}
          /\ at' = "done"
          /\ UNCHANGED <<act, members>>
       \/ /\ Running # {} /\ cancelled
          /\ act' = [i \in DOMAIN act |->
                        IF i \in Running THEN [act[i] EXCEPT !.finish = "cancelled"] ELSE act[i]]
          /\ at' = "done"
          /\ UNCHANGED members
       \/ /\ Running # {} /\ ~cancelled
          /\ LET full == {i \in Running : act[i].pos >= GenContext} IN
             /\ act' = [i \in DOMAIN act |->
                           IF i \in full THEN [act[i] EXCEPT !.finish = "context_full"] ELSE act[i]]
             /\ members' = Running \ full
             /\ at' = IF Running = full THEN "round" ELSE "step"
    /\ UNCHANGED <<call, reqs, cancelled, own>>

\* Mutant: a token is sampled after every prompt token.
AfterEachPromptToken(i, eos) ==
    [act[i] EXCEPT !.fed = IF @ < reqs[i].prompt THEN @ + 1 ELSE @,
                   !.n = @ + 1,
                   !.finish = IF act[i].n + 1 >= reqs[i].max THEN "length" ELSE "none"]

\* One member after the step: a prompt token is behind it, or a token is
\* sampled; eos says whether that is the end token.
After(i, eos) ==
    LET a == act[i]
        fed == IF a.fed < reqs[i].prompt THEN a.fed + 1 ELSE a.fed
        n == IF fed < reqs[i].prompt \/ a.n >= reqs[i].max \/ eos THEN a.n ELSE a.n + 1
    IN  [fed |-> fed, pos |-> a.pos, n |-> n,
         finish |-> CASE fed < reqs[i].prompt -> "none"
                      [] fed = reqs[i].prompt /\ a.n < reqs[i].max /\ eos -> "eos"
                      [] OTHER -> IF n >= reqs[i].max THEN "length" ELSE "none"]

\* The loop over the members.
BatchConsume(ended) ==
    /\ call = "batch" /\ at = "consume"
    /\ act' = [i \in DOMAIN act |-> IF i \in members THEN After(i, i \in ended) ELSE act[i]]
    /\ members' = {}
    /\ at' = "round"
    /\ UNCHANGED <<call, reqs, cancelled, own>>

(***************************************************************************)
(* generate with a callback, for one request.  A negative max_new_tokens   *)
(* is not refused here.                                                    *)
(***************************************************************************)
Finish(r) == act' = [act EXCEPT ![1].finish = r] /\ at' = "done" /\ UNCHANGED members

StreamBegin(r) ==
    /\ r.prompt \in 1 .. GenContext
    /\ Begin("stream", "prefill", <<r>>)

StreamPrefill ==
    /\ at = "prefill"
    /\ \/ /\ cancelled
          /\ Finish("cancelled")
       \/ /\ ~cancelled
          /\ members' = {1}
          /\ at' = "step"
          /\ UNCHANGED act
    /\ UNCHANGED <<call, reqs, cancelled, own>>

StreamConsume ==
    /\ call = "stream" /\ at = "consume"
    /\ act' = [act EXCEPT ![1].fed = IF @ < reqs[1].prompt THEN @ + 1 ELSE @]
    /\ at' = IF act'[1].fed < reqs[1].prompt THEN "prefill" ELSE "sample"
    /\ members' = {}
    /\ UNCHANGED <<call, reqs, cancelled, own>>

\* One round of the decoding loop up to its step: the end token, a token the
\* callback stops at, or one that goes on.
StreamSample ==
    LET a == act[1]
        sampled(r) == act' = [act EXCEPT ![1].n = @ + 1, ![1].finish = r]
    IN
    /\ at = "sample"
    /\ \/ a.n >= reqs[1].max /\ Finish("length")
       \/ a.n < reqs[1].max /\ cancelled /\ Finish("cancelled")
       \/ a.n < reqs[1].max /\ ~cancelled /\ Finish("eos")
       \/ /\ a.n < reqs[1].max /\ ~cancelled
          /\ sampled("stopped") /\ at' = "done" /\ UNCHANGED members
       \/ /\ a.n < reqs[1].max /\ ~cancelled
          /\ a.n + 1 >= reqs[1].max
          /\ sampled("length") /\ at' = "done" /\ UNCHANGED members
       \/ /\ a.n + 1 < reqs[1].max /\ ~cancelled
          /\ a.pos >= GenContext
          /\ sampled("context_full") /\ at' = "done" /\ UNCHANGED members
       \/ /\ a.n + 1 < reqs[1].max /\ ~cancelled
          /\ a.pos < GenContext
          /\ sampled("none") /\ at' = "step" /\ members' = {1}
    /\ UNCHANGED <<call, reqs, cancelled, own>>

(***************************************************************************)
(* perplexity: all tokens of the text but the last are stepped.            *)
(***************************************************************************)
PerplexityBegin(n) ==
    /\ n >= 2
    /\ Begin("perplexity", "score", <<[prompt |-> Min({n, GenContext}), max |-> 0]>>)

PerplexityStep ==
    /\ at = "score"
    /\ \/ /\ act[1].fed + 1 < reqs[1].prompt
          /\ members' = {1}
          /\ at' = "step"
          /\ UNCHANGED act
       \/ act[1].fed + 1 >= reqs[1].prompt /\ Finish("length")
    /\ UNCHANGED <<call, reqs, cancelled, own>>

PerplexityConsume ==
    /\ call = "perplexity" /\ at = "consume"
    /\ act' = [act EXCEPT ![1].fed = @ + 1]
    /\ members' = {}
    /\ at' = "score"
    /\ UNCHANGED <<call, reqs, cancelled, own>>

(***************************************************************************)
(* Common to all: step(), the return of a call, the token, the facade.     *)
(***************************************************************************)
Enough == Cardinality(NewPages) <= PoolPages - UsedPages

Step ==
    /\ at = "step"
    /\ Enough
    /\ act' = [i \in DOMAIN act |->
                  IF i \in members THEN [act[i] EXCEPT !.pos = @ + 1] ELSE act[i]]
    /\ at' = "consume"
    /\ UNCHANGED <<call, reqs, members, cancelled, own>>

\* What a call gives back or leaves behind when it returns or throws.
Reset ==
    /\ call' = "none" /\ at' = "idle"
    /\ reqs' = <<>> /\ act' = <<>> /\ members' = {}
    /\ cancelled' = FALSE
    /\ UNCHANGED own

\* OutOfMemory, a device error, or logits that cannot be sampled leave the call.
Throws ==
    /\ \/ at = "step" /\ ~Enough
       \/ MayThrow /\ at \in {"step", "consume", "sample"}
    /\ Reset
Return == at = "done" /\ Reset

\* Another thread cancels the call.
cancel ==
    /\ call \in {"batch", "stream"} /\ ~cancelled
    /\ cancelled' = TRUE
    /\ UNCHANGED <<call, at, reqs, act, members, own>>

\* Engine::step and Engine::reset.
EngineStep ==
    /\ at = "idle"
    /\ own < GenContext
    /\ own % GenPageTokens = 0 => UsedPages < PoolPages
    /\ own' = own + 1
    /\ UNCHANGED <<call, at, reqs, act, members, cancelled>>
EngineReset ==
    /\ at = "idle" /\ own > 0
    /\ own' = 0
    /\ UNCHANGED <<call, at, reqs, act, members, cancelled>>

Requests == [prompt : 1 .. MaxPrompt, max : MaxNews]
GenRun ==
    \/ BatchRound \/ (\E ended \in SUBSET members : BatchConsume(ended))
    \/ StreamPrefill \/ StreamConsume \/ StreamSample
    \/ PerplexityStep \/ PerplexityConsume
    \/ Step \/ Throws \/ Return
GenNext ==
    \/ \E n \in 1 .. GenMaxBatch : \E r \in [1 .. n -> Requests] : BatchBegin(r)
    \/ \E r \in Requests : StreamBegin(r)
    \/ \E n \in 1 .. MaxPrompt : PerplexityBegin(n)
    \/ GenRun
    \/ cancel \/ EngineStep \/ EngineReset

\* A call runs in the thread that made it, which the host schedules.
GenFairness == WF_genVars(GenRun)
GenSpec == GenInit /\ [][GenNext]_genVars

-----------------------------------------------------------------------------
\* The token each member feeds to step() is the one at its position in the
\* prompt followed by what was generated: none is skipped, none fed twice, and
\* none is fed to a full sequence.
FeedsInOrder ==
    at = "step" => \A i \in members :
        /\ act[i].pos < GenContext
        /\ act[i].pos = IF act[i].fed < reqs[i].prompt THEN act[i].fed
                        ELSE reqs[i].prompt + act[i].n - 1

\* The finish reason is the true one, in both loops: "length" after exactly
\* max_new_tokens, "context_full" when tokens were still wanted and the last one
\* has no room, "cancelled" only when somebody cancelled.
FinishTruthful ==
    call \in {"batch", "stream"} => \A i \in DOMAIN act :
        LET a == act[i]  r == reqs[i] IN
        /\ a.n <= Max({r.max, 0}) /\ a.n <= GenContext - r.prompt + 1
        /\ a.finish = "length" => a.n = Max({r.max, 0}) /\ a.fed = r.prompt
        /\ a.finish = "eos" => a.n < r.max /\ a.n <= GenContext - r.prompt
        /\ a.finish = "context_full" => a.n < r.max /\ a.n = GenContext - r.prompt + 1
        /\ a.finish = "cancelled" => cancelled

\* With the default pool, and no tokens in the Engine's own sequence, no call
\* runs out of pages: only a full context stops it.
DefaultPoolSuffices == at = "step" /\ own = 0 => Enough
=============================================================================
