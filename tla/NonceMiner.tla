----------------------------- MODULE NonceMiner -----------------------------
(***************************************************************************)
(* mine() of 12-crypto-hash: the threads of a grid hash the nonces of a    *)
(* range; the first one that finds enough leading zeros claims the result  *)
(* with atomicCAS, writes nonce and digest, and the others stop at the     *)
(* next nonce at which they happen to see the flag.  SHA-256 is any        *)
(* function: the set of winning nonces is chosen by the caller's prefix.   *)
(***************************************************************************)
EXTENDS Integers

CONSTANTS
    MinerThreads,   \* threads of the grid
    NonceSpace,     \* 2^64: nonces wrap around
    MaxTries        \* largest max_tries that is tried
ASSUME MinerAssumption == {MinerThreads, NonceSpace, MaxTries} \subseteq Nat \ {0}

Miners == 0..(MinerThreads - 1)
NoNonce == -1
NoDigest == <<NoNonce, NoNonce>>

VARIABLES
    job,            \* [start, total, wins] of the call, or NoJob
    found_flag, found_nonce,
    found_digest,   \* two halves, each the nonce whose hash it is from
    miner,          \* by thread: [pc, n]
    mined           \* what mine() returned: [found, nonce, digest], or NotMined
minerVars == <<job, found_flag, found_nonce, found_digest, miner, mined>>

NoJob == [start |-> 0, total |-> 0, wins |-> {}]
NotMined == [found |-> FALSE, nonce |-> NoNonce, digest |-> NoDigest, done |-> FALSE]

MinerInit ==
    /\ job = NoJob /\ mined = NotMined
    /\ found_flag = 0 /\ found_nonce = NoNonce /\ found_digest = NoDigest
    /\ miner = [t \in Miners |-> [pc |-> "idle", n |-> 0]]

MineBegin ==
    /\ \A t \in Miners : miner[t].pc = "idle" /\ ~mined.done
    /\ \E start \in 0..(NonceSpace - 1), total \in 0..MaxTries, wins \in SUBSET (0..(NonceSpace - 1)) :
            job' = [start |-> start, total |-> total, wins |-> wins]
    /\ miner' = [t \in Miners |-> [pc |-> "loop", n |-> t]]
    /\ UNCHANGED <<found_flag, found_nonce, found_digest, mined>>

InPc(t, pc) == miner[t].pc = pc
GoTo(t, pc) == miner' = [miner EXCEPT ![t].pc = pc]
NonceOf(n) == (job.start + n) % NonceSpace
Wins(t) == NonceOf(miner[t].n) \in job.wins

\* The flag is read without volatile or atomics: the load may be old.
StopEarly(t) ==
    /\ InPc(t, "loop") /\ miner[t].n < job.total /\ found_flag = 1
    /\ GoTo(t, "gone")
    /\ UNCHANGED <<job, found_flag, found_nonce, found_digest, mined>>
RangeEnds(t) ==
    /\ InPc(t, "loop") /\ miner[t].n >= job.total
    /\ GoTo(t, "gone")
    /\ UNCHANGED <<job, found_flag, found_nonce, found_digest, mined>>
HashOne(t) ==
    /\ InPc(t, "loop") /\ miner[t].n < job.total
    /\ miner' = IF Wins(t) THEN [miner EXCEPT ![t].pc = "claim"]
                           ELSE [miner EXCEPT ![t].n = @ + MinerThreads]
    /\ UNCHANGED <<job, found_flag, found_nonce, found_digest, mined>>

\* Mutant: every finder writes.
ClaimBlindly(t) ==
    /\ InPc(t, "claim") /\ GoTo(t, "nonce") /\ found_flag' = 1
    /\ UNCHANGED <<job, found_nonce, found_digest, mined>>
Claim(t) ==
    /\ InPc(t, "claim")
    /\ GoTo(t, IF found_flag = 0 THEN "nonce" ELSE "gone")
    /\ found_flag' = 1
    /\ UNCHANGED <<job, found_nonce, found_digest, mined>>
WriteNonce(t) ==
    /\ InPc(t, "nonce")
    /\ found_nonce' = NonceOf(miner[t].n) /\ GoTo(t, "digest1")
    /\ UNCHANGED <<job, found_flag, found_digest, mined>>
WriteDigest(t) ==
    /\ \/ InPc(t, "digest1") /\ GoTo(t, "digest2") /\ found_digest' = [found_digest EXCEPT ![1] = NonceOf(miner[t].n)]
       \/ InPc(t, "digest2") /\ GoTo(t, "gone") /\ found_digest' = [found_digest EXCEPT ![2] = NonceOf(miner[t].n)]
    /\ UNCHANGED <<job, found_flag, found_nonce, mined>>

MinerStep(t) ==
    StopEarly(t) \/ RangeEnds(t) \/ HashOne(t) \/ Claim(t) \/ WriteNonce(t) \/ WriteDigest(t)

MineEnd ==
    /\ \A t \in Miners : InPc(t, "gone")
    /\ mined' = [found |-> found_flag # 0, done |-> TRUE,
                 nonce |-> IF found_flag # 0 THEN found_nonce ELSE NoNonce,
                 digest |-> IF found_flag # 0 THEN found_digest ELSE NoDigest]
    /\ miner' = [t \in Miners |-> [pc |-> "idle", n |-> 0]]
    /\ UNCHANGED <<job, found_flag, found_nonce, found_digest>>

MinerNext == MineBegin \/ (\E t \in Miners : MinerStep(t)) \/ MineEnd
MinerSpec == MinerInit /\ [][MinerNext]_minerVars
MinerFairness == (\A t \in Miners : WF_minerVars(MinerStep(t))) /\ WF_minerVars(MineEnd)

-----------------------------------------------------------------------------
\* mine() reports a find exactly when the range holds a winning nonce, and then
\* the nonce wins, was in the range, and the digest is that nonce's, whole, in
\* whatever order several finders claim and write.
MinedTruthful ==
    mined.done =>
    LET range == {NonceOf(n) : n \in 0..(job.total - 1)} IN
    /\ mined.found <=> range \cap job.wins # {}
    /\ mined.found => /\ mined.nonce \in range \cap job.wins
                      /\ mined.digest = <<mined.nonce, mined.nonce>>

Mining == ~mined.done /\ \E t \in Miners : ~InPc(t, "idle")
=============================================================================
