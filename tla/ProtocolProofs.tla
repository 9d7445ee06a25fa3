--------------------------- MODULE ProtocolProofs ---------------------------
(***************************************************************************)
(* Protocols between actors that run apart, each correct for every         *)
(* value of its constants: the fenced handshake of two blocks (15), the    *)
(* miner's race (12), the streams of the preprocessor and the dynamic      *)
(* batcher (both 02); the generation loops (19), which another thread may  *)
(* cancel; and the device calls (common), which leave errors to whoever    *)
(* asks next.  They share nothing; a section is about one of them.         *)
(***************************************************************************)
EXTENDS FenceHandshake, NonceMiner, ImageStreams, DynamicBatcher, Generation, DeviceCalls,
        SequenceTheorems, CountingLemmas

-----------------------------------------------------------------------------
(***************************************************************************)
(* The handshake.  Flag and acknowledgement are each at most one store on  *)
(* its way, so the two blocks alternate (FenceTurns); the fence of the     *)
(* producer adds that the payload of a round is visible before its flag is *)
(* even issued (FencePayload).                                             *)
(***************************************************************************)
FenceTypeOK ==
    /\ fenced \in BOOLEAN /\ torn \in Nat
    /\ visible \in [Addresses -> Nat] /\ buffer \in [Addresses -> Seq(Nat)]
    /\ ahead \in [Lanes -> Nat \cup {NotLoaded}]
    /\ prod \in [pc : {"idle", "write", "publish", "wait"}, it : Nat]
    /\ cons \in [pc : {"idle", "spin", "read"}, it : Nat, left : SUBSET Lanes, bad : BOOLEAN]

\* The last value stored to address a is n: it is visible, or on its way behind n - 1.
Shown(a, n) == buffer[a] = <<>> /\ visible[a] = n
Pending(a, n) == buffer[a] = <<n>> /\ visible[a] = n - 1

FenceTurns ==
    /\ prod.pc = "idle" <=> cons.pc = "idle"
    /\ prod.pc = "idle" => prod.it = 0
    /\ prod.pc # "wait" =>
         /\ cons.it = prod.it /\ cons.pc # "read"
         /\ Shown("flag", prod.it) /\ Shown("ack", prod.it)
    /\ prod.pc = "wait" =>
         \/ /\ cons.it = prod.it /\ cons.pc = "spin"
            /\ Pending("flag", prod.it + 1) /\ Shown("ack", prod.it)
         \/ /\ cons.it = prod.it
            /\ Shown("flag", prod.it + 1) /\ Shown("ack", prod.it)
         \/ /\ cons.it = prod.it + 1 /\ cons.pc = "spin"
            /\ Shown("flag", prod.it + 1)
            /\ Shown("ack", prod.it + 1) \/ Pending("ack", prod.it + 1)

FencePayload ==
    /\ \A l \in Lanes :
         /\ prod.pc \in {"idle", "write"} => Shown(l, prod.it)
         /\ prod.pc = "publish" => Shown(l, prod.it + 1) \/ Pending(l, prod.it + 1)
         /\ prod.pc = "wait" => Shown(l, prod.it + 1)
         /\ cons.pc = "read" => ahead[l] = NotLoaded
    /\ torn = 0 /\ ~cons.bad

\* The payload is written before the choice of a fence is known.
FenceInv ==
    /\ FenceTypeOK /\ FenceTurns
    /\ fenced \/ prod.pc = "idle" => FencePayload

LEMMA FenceInitInv == FenceInit => FenceInv
<1> SUFFICES ASSUME FenceInit PROVE FenceInv
  OBVIOUS
<1> USE DEF FenceInit, Addresses, NotLoaded
<1>1. FenceTypeOK
  <2>1. <<>> \in Seq(Nat)
    OBVIOUS
  <2> QED BY <2>1 DEF FenceTypeOK
<1>2. FenceTurns
  BY DEF FenceTurns, Shown
<1>3. FencePayload
  BY DEF FencePayload, Shown
<1> QED BY <1>1, <1>2, <1>3 DEF FenceInv

LEMMA FenceStepInv == FenceInv /\ [FenceNext]_fenceVars => FenceInv'
<1> SUFFICES ASSUME FenceInv, [FenceNext]_fenceVars
             PROVE  FenceInv'
  OBVIOUS
<1>t. /\ FenceTypeOK /\ FenceTurns
      /\ fenced \/ prod.pc = "idle" => FencePayload
  BY DEF FenceInv
<1>a. /\ "flag" \in Addresses /\ "ack" \in Addresses /\ Lanes \subseteq Addresses
      /\ "flag" \notin Lanes /\ "ack" \notin Lanes
  BY LanesAssumption DEF Addresses
<1> USE DEF NotLoaded
<1>1. CASE HandshakeBegin
  <2>1. FenceTypeOK'
    BY <1>1, <1>t DEF HandshakeBegin, FenceTypeOK
  <2>2. FenceTurns'
    BY <1>1, <1>t DEF HandshakeBegin, FenceTypeOK, FenceTurns, Shown, Pending
  <2>3. FencePayload'
    BY <1>1, <1>t DEF HandshakeBegin, FenceTypeOK, FencePayload, Shown, Pending
  <2> QED BY <2>1, <2>2, <2>3 DEF FenceInv
<1>2. CASE WritePayload
  <2>1. FenceTypeOK'
    <3>1. \A a \in Addresses : Append(buffer[a], prod.it + 1) \in Seq(Nat)
      BY <1>t DEF FenceTypeOK
    <3> QED BY <1>2, <1>t, <3>1 DEF WritePayload, FenceTypeOK
  <2>2. FenceTurns'
    BY <1>2, <1>t, <1>a DEF WritePayload, FenceTypeOK, FenceTurns, Shown, Pending
  <2>3. ASSUME fenced PROVE FencePayload'
    <3>1. prod'.pc = "publish" /\ prod'.it = prod.it /\ prod.it \in Nat /\ cons.pc # "read"
      BY <1>2, <1>t DEF WritePayload, FenceTypeOK, FenceTurns
    <3>2. FencePayload
      BY <1>2, <1>t, <2>3
    <3>3. ASSUME NEW l \in Lanes PROVE Pending(l, prod.it + 1)'
      <4>1. buffer'[l] = Append(<<>>, prod.it + 1) /\ visible'[l] = prod.it
        BY <1>2, <1>a, <3>2 DEF WritePayload, FencePayload, Shown
      <4>2. Append(<<>>, prod.it + 1) = <<prod.it + 1>>
        OBVIOUS
      <4> QED BY <3>1, <4>1, <4>2 DEF Pending
    <3> QED BY <1>2, <3>1, <3>2, <3>3 DEF WritePayload, FencePayload
  <2> QED BY <1>2, <2>1, <2>2, <2>3 DEF FenceInv, WritePayload
<1>3. CASE RaiseFlag
  <2>1. FenceTypeOK'
    <3>1. Append(buffer["flag"], prod.it + 1) \in Seq(Nat)
      BY <1>t, <1>a DEF FenceTypeOK
    <3> QED BY <1>3, <1>t, <1>a, <3>1 DEF RaiseFlag, Issue, FenceTypeOK
  <2>2. FenceTurns'
    <3>1. Append(<<>>, prod.it + 1) = <<prod.it + 1>>
      OBVIOUS
    <3>2. /\ prod'.pc = "wait" /\ prod'.it = prod.it /\ prod.it \in Nat
          /\ cons' = cons /\ cons.it = prod.it /\ cons.pc = "spin"
          /\ visible' = visible /\ Shown("flag", prod.it) /\ Shown("ack", prod.it)
      BY <1>3, <1>t DEF RaiseFlag, FenceTypeOK, FenceTurns
    <3>3. buffer'["flag"] = <<prod.it + 1>> /\ buffer'["ack"] = buffer["ack"]
      BY <1>3, <1>t, <1>a, <3>1, <3>2 DEF RaiseFlag, Issue, FenceTypeOK, Shown
    <3> QED BY <3>2, <3>3 DEF FenceTurns, Shown, Pending
  <2>3. ASSUME fenced PROVE FencePayload'
    BY <1>3, <1>t, <1>a, <2>3
    DEF RaiseFlag, PayloadVisible, Issue, FenceTypeOK, FenceTurns, FencePayload, Shown, Pending
  <2> QED BY <1>3, <2>1, <2>2, <2>3 DEF FenceInv, RaiseFlag
<1>4. CASE SeeAck
  <2>1. FenceTypeOK'
    BY <1>4, <1>t DEF SeeAck, FenceTypeOK
  <2>2. FenceTurns'
    BY <1>4, <1>t, <1>a DEF SeeAck, FenceTypeOK, FenceTurns, Shown, Pending
  <2>3. ASSUME fenced PROVE FencePayload'
    BY <1>4, <1>t, <1>a, <2>3 DEF SeeAck, FenceTypeOK, FenceTurns, FencePayload, Shown, Pending
  <2> QED BY <1>4, <2>1, <2>2, <2>3 DEF FenceInv, SeeAck
<1>5. ASSUME NEW l \in Lanes, LoadAhead(l)
      PROVE  FenceInv'
  <2>1. FenceTypeOK'
    BY <1>5, <1>t, <1>a DEF LoadAhead, FenceTypeOK
  <2>2. FenceTurns'
    BY <1>5, <1>t DEF LoadAhead, FenceTurns, Shown, Pending
  <2>3. ASSUME fenced PROVE FencePayload'
    BY <1>5, <1>t, <2>3 DEF LoadAhead, FenceTypeOK, FencePayload, Shown, Pending
  <2> QED BY <1>5, <1>t, <2>1, <2>2, <2>3 DEF FenceInv, LoadAhead, FenceTurns
<1>6. CASE SeeFlag
  <2>1. FenceTypeOK'
    BY <1>6, <1>t DEF SeeFlag, FenceTypeOK
  <2>2. FenceTurns'
    BY <1>6, <1>t DEF SeeFlag, FenceTypeOK, FenceTurns, Shown, Pending
  <2>3. ASSUME fenced PROVE FencePayload'
    BY <1>6, <1>t, <2>3 DEF SeeFlag, FenceTypeOK, FencePayload, Shown, Pending
  <2> QED BY <1>6, <1>t, <2>1, <2>2, <2>3 DEF FenceInv, SeeFlag, FenceTurns
<1>7. ASSUME NEW l \in Lanes, ReadWord(l)
      PROVE  FenceInv'
  <2>1. FenceTypeOK'
    BY <1>7, <1>t DEF ReadWord, FenceTypeOK
  <2>2. FenceTurns'
    BY <1>7, <1>t DEF ReadWord, FenceTypeOK, FenceTurns, Shown, Pending
  <2>3. ASSUME fenced PROVE FencePayload'
    <3>1. prod.pc = "wait" /\ cons.it = prod.it
      BY <1>7, <1>t DEF ReadWord, FenceTypeOK, FenceTurns
    <3>2. ahead[l] = NotLoaded /\ visible[l] = cons.it + 1
      BY <1>7, <1>t, <2>3, <3>1 DEF ReadWord, FencePayload, Shown
    <3>3. ~cons'.bad
      BY <1>7, <1>t, <2>3, <3>2 DEF ReadWord, FencePayload, FenceTypeOK
    <3> QED BY <1>7, <1>t, <2>3, <3>3 DEF ReadWord, FenceTypeOK, FencePayload, Shown, Pending
  <2> QED BY <1>7, <1>t, <2>1, <2>2, <2>3 DEF FenceInv, ReadWord, FenceTurns
<1>8. CASE Acknowledge
  <2>1. FenceTypeOK'
    <3>1. Append(buffer["ack"], cons.it + 1) \in Seq(Nat)
      BY <1>t, <1>a DEF FenceTypeOK
    <3>2. buffer' \in [Addresses -> Seq(Nat)]
      BY <1>8, <1>t, <3>1 DEF Acknowledge, Issue, FenceTypeOK
    <3>3. torn' \in Nat
      BY <1>8, <1>t DEF Acknowledge, FenceTypeOK
    <3>4. cons' \in [pc : {"idle", "spin", "read"}, it : Nat, left : SUBSET Lanes, bad : BOOLEAN]
      <4>1. cons.it + 1 \in Nat
        BY <1>t DEF FenceTypeOK
      <4> DEFINE k == cons.it + 1
      <4>2. k \in Nat /\ cons' = [cons EXCEPT !.pc = "spin", !.it = k]
        BY <1>8, <4>1 DEF Acknowledge
      <4> HIDE DEF k
      <4> QED BY <1>t, <4>2 DEF FenceTypeOK
    <3>5. fenced' = fenced /\ visible' = visible /\ ahead' = ahead /\ prod' = prod
      BY <1>8 DEF Acknowledge
    <3> QED BY <1>t, <3>2, <3>3, <3>4, <3>5 DEF FenceTypeOK
  <2>2. FenceTurns'
    <3>1. Append(<<>>, cons.it + 1) = <<cons.it + 1>>
      OBVIOUS
    <3>2. /\ cons'.pc = "spin" /\ cons'.it = cons.it + 1
          /\ cons.it \in Nat /\ prod.it \in Nat
          /\ prod' = prod /\ prod.pc = "wait" /\ cons.it = prod.it
          /\ visible' = visible /\ Shown("flag", prod.it + 1) /\ Shown("ack", prod.it)
      BY <1>8, <1>t DEF Acknowledge, FenceTypeOK, FenceTurns
    <3>3. buffer'["ack"] = <<cons.it + 1>> /\ buffer'["flag"] = buffer["flag"]
      BY <1>8, <1>t, <1>a, <3>1, <3>2 DEF Acknowledge, Issue, FenceTypeOK, Shown
    <3>4. Shown("flag", prod.it + 1)'
      BY <3>2, <3>3 DEF Shown
    <3>5. Pending("ack", prod.it + 1)'
      <4>1. visible'["ack"] = (prod.it + 1) - 1
        BY <3>2 DEF Shown
      <4> QED BY <3>2, <3>3, <4>1 DEF Pending
    <3> QED BY <3>2, <3>4, <3>5 DEF FenceTurns
  <2>3. ASSUME fenced PROVE FencePayload'
    BY <1>8, <1>t, <1>a, <2>3 DEF Acknowledge, Issue, FenceTypeOK, FencePayload, Shown, Pending
  <2> QED BY <1>8, <1>t, <2>1, <2>2, <2>3 DEF FenceInv, Acknowledge, FenceTurns
<1>9. ASSUME NEW a \in Addresses, Drain(a)
      PROVE  FenceInv'
  <2>1. /\ buffer[a] \in Seq(Nat) /\ buffer[a] # <<>>
        /\ Head(buffer[a]) \in Nat /\ Tail(buffer[a]) \in Seq(Nat)
    BY <1>9, <1>t DEF Drain, FenceTypeOK
  <2>2. FenceTypeOK'
    BY <1>9, <1>t, <2>1 DEF Drain, FenceTypeOK
  <2>3. ASSUME NEW n \in Nat, Pending(a, n) PROVE Shown(a, n)'
    BY <1>9, <1>t, <2>3 DEF Drain, FenceTypeOK, Pending, Shown
  <2>4. ASSUME NEW b \in Addresses, NEW n \in Nat, Shown(b, n) PROVE Shown(b, n)'
    BY <1>9, <1>t, <2>4 DEF Drain, FenceTypeOK, Shown
  <2>5. ASSUME NEW b \in Addresses, NEW n \in Nat, Pending(b, n), b # a PROVE Pending(b, n)'
    BY <1>9, <1>t, <2>5 DEF Drain, FenceTypeOK, Pending
  <2>6. /\ prod' = prod /\ cons' = cons /\ ahead' = ahead /\ torn' = torn /\ fenced' = fenced
        /\ prod.it \in Nat /\ prod.it + 1 \in Nat
    BY <1>9, <1>t DEF Drain, FenceTypeOK
  <2>7. FenceTurns'
    BY <1>t, <1>a, <2>3, <2>4, <2>5, <2>6 DEF FenceTurns
  <2>8. FencePayload => FencePayload'
    BY <1>t, <1>a, <2>3, <2>4, <2>5, <2>6 DEF FencePayload
  <2> QED BY <1>t, <2>2, <2>6, <2>7, <2>8 DEF FenceInv
<1>10. CASE UNCHANGED fenceVars
  BY <1>10, <1>t DEF fenceVars, FenceInv, FenceTypeOK, FenceTurns, FencePayload, Shown, Pending
<1> QED BY <1>1, <1>2, <1>3, <1>4, <1>5, <1>6, <1>7, <1>8, <1>9, <1>10
       DEF FenceNext, ProducerStep, ConsumerStep

\* With the fences the consumer reads the payload of its own round, for any
\* number of lanes and rounds and any order in which stores become visible.
THEOREM FencedHandshakeCorrect == FenceSpec => []FencedIsNeverTorn
<1>1. FenceInv => FencedIsNeverTorn
  BY DEF FenceInv, FencePayload, FencedIsNeverTorn
<1> QED BY <1>1, FenceInitInv, FenceStepInv, PTL DEF FenceSpec

-----------------------------------------------------------------------------
(***************************************************************************)
(* The miner.  A thread has searched its residue class up to the nonce it  *)
(* is at (MinerSearch); one finder at a time is between the claim and the  *)
(* end of its writes, and when there is none the result is whole           *)
(* (MinerWriters).                                                         *)
(***************************************************************************)
WriterPcs == {"nonce", "digest1", "digest2"}
MinerPcs == {"idle", "loop", "claim", "gone"} \cup WriterPcs

MinerTypeOK ==
    /\ job \in [start : Nat, total : Nat, wins : SUBSET Nat]
    /\ found_flag \in {0, 1} /\ found_nonce \in Int /\ found_digest \in [1 .. 2 -> Int]
    /\ miner \in [Miners -> [pc : MinerPcs, n : Nat]]
    /\ mined \in [found : BOOLEAN, nonce : Int, digest : [1 .. 2 -> Int], done : BOOLEAN]

\* Nonce number k is one the caller looks for.
Winner(k) == NonceOf(k) \in job.wins
Writing(t) == miner[t].pc \in WriterPcs

MinerSearch(t) ==
    miner[t].pc # "idle" =>
        /\ miner[t].n % MinerThreads = t
        /\ \A k \in Nat : k < miner[t].n /\ k < job.total /\ k % MinerThreads = t => ~Winner(k)
        /\ miner[t].pc = "claim" \/ Writing(t) => miner[t].n < job.total /\ Winner(miner[t].n)
        /\ miner[t].pc = "gone" => found_flag = 1 \/ miner[t].n >= job.total

ResultWhole ==
    /\ \E k \in Nat : k < job.total /\ Winner(k) /\ found_nonce = NonceOf(k)
    /\ found_digest[1] = found_nonce /\ found_digest[2] = found_nonce

MinerWriters ==
    /\ \A t, u \in Miners : Writing(t) /\ Writing(u) => t = u
    /\ \A t \in Miners : Writing(t) => found_flag = 1
    /\ \A t \in Miners : miner[t].pc \in {"digest1", "digest2"} => found_nonce = NonceOf(miner[t].n)
    /\ \A t \in Miners : miner[t].pc = "digest2" => found_digest[1] = NonceOf(miner[t].n)
    /\ found_flag = 1 => ResultWhole \/ \E t \in Miners : Writing(t)

\* One call: all threads start together, and it returns once.
MinerCall ==
    /\ \A t, u \in Miners : miner[t].pc = "idle" => miner[u].pc = "idle"
    /\ (\A t \in Miners : miner[t].pc = "idle") /\ ~mined.done => found_flag = 0
    /\ mined.done => \A t \in Miners : miner[t].pc = "idle"

MinerInv ==
    /\ MinerTypeOK /\ (\A t \in Miners : MinerSearch(t)) /\ MinerWriters /\ MinerCall
    /\ MinedTruthful

LEMMA MinersAre ==
  /\ MinerThreads \in Nat \ {0} /\ 0 \in Miners /\ NonceSpace \in Nat \ {0}
  /\ \A t \in Miners : t \in Nat /\ t < MinerThreads
  BY MinerAssumption DEF Miners

\* A residue class has one number among MinerThreads consecutive ones.
LEMMA NextInClass ==
  ASSUME NEW P \in Nat \ {0}, NEW n \in Nat, NEW k \in Nat, k % P = n % P, k < n + P
  PROVE  k < n \/ k = n
<1>1. PICK a \in Nat, r \in 0 .. P - 1 : n = P * a + r /\ n % P = r
  BY DivMod
<1>2. PICK b \in Nat : k = P * b + r
  BY <1>1, DivMod
<1>3. CASE b <= a
  <2>1. PICK d \in Nat : a = b + d
    BY <1>3
  <2>2. P * a = P * b + P * d /\ P * d \in Nat
    BY <2>1
  <2> QED BY <1>1, <1>2, <2>2
<1>4. CASE b > a
  <2>1. PICK d \in Nat : b = a + 1 + d
    BY <1>4
  <2>2. P * b = P * a + P + P * d /\ P * d \in Nat /\ P * a \in Nat
    BY <2>1
  <2> QED BY <1>1, <1>2, <2>2
<1> QED BY <1>3, <1>4

LEMMA ClassSteps ==
  ASSUME NEW P \in Nat \ {0}, NEW n \in Nat
  PROVE  (n + P) % P = n % P
<1>1. PICK a \in Nat, r \in 0 .. P - 1 : n = P * a + r /\ n % P = r
  BY DivMod
<1>2. n + P = P * (a + 1) + r
  BY <1>1
<1>3. n + P \in Int /\ a + 1 \in Int
  OBVIOUS
<1> QED BY <1>1, <1>2, <1>3, DivUnique

LEMMA SmallResidue ==
  ASSUME NEW P \in Nat \ {0}, NEW k \in Nat, k < P
  PROVE  k % P = k
<1>1. k = P * 0 + k /\ k \in 0 .. P - 1
  OBVIOUS
<1> QED BY <1>1, DivUnique

LEMMA NonceInt ==
  ASSUME MinerTypeOK, NEW k \in Nat
  PROVE  NonceOf(k) \in Nat
<1>1. job.start + k \in Nat
  BY DEF MinerTypeOK
<1> QED BY <1>1, MinersAre, DivMod DEF NonceOf

LEMMA MinerInitInv == MinerInit => MinerInv
<1> SUFFICES ASSUME MinerInit PROVE MinerInv
  OBVIOUS
<1>1. MinerTypeOK
  BY DEF MinerInit, MinerTypeOK, NoJob, NotMined, NoNonce, NoDigest, MinerPcs, WriterPcs
<1> QED BY <1>1 DEF MinerInit, MinerInv, MinerSearch, MinerWriters, MinerCall, MinedTruthful, NotMined,
           Writing, WriterPcs

LEMMA MineBeginInv ==
  ASSUME MinerInv, MineBegin
  PROVE  MinerInv'
<1>1. /\ ~mined.done /\ (\A t \in Miners : miner[t].pc = "idle") /\ found_flag = 0 /\ mined' = mined
      /\ found_flag' = found_flag /\ found_nonce' = found_nonce /\ found_digest' = found_digest
      /\ miner' = [t \in Miners |-> [pc |-> "loop", n |-> t]]
  BY MinersAre DEF MineBegin, MinerInv, MinerCall
<1>2. MinerTypeOK'
  <2>1. \E start \in 0..(NonceSpace - 1), total \in 0..MaxTries, wins \in SUBSET (0..(NonceSpace - 1)) :
            job' = [start |-> start, total |-> total, wins |-> wins]
    BY DEF MineBegin
  <2>2. job' \in [start : Nat, total : Nat, wins : SUBSET Nat]
    BY <2>1, MinerAssumption
  <2> QED BY <1>1, <2>2, MinersAre DEF MinerInv, MinerTypeOK, MinerPcs
<1>3. ASSUME NEW t \in Miners PROVE MinerSearch(t)'
  <2>1. miner'[t].pc = "loop" /\ miner'[t].n = t
    BY <1>1
  <2>2. t % MinerThreads = t /\ \A k \in Nat : k < t => k % MinerThreads = k
    BY MinersAre, SmallResidue
  <2>3. \A k \in Nat : k < t => k % MinerThreads # t
    BY <2>2, MinersAre
  <2> QED BY <2>1, <2>2, <2>3 DEF MinerSearch, Writing, WriterPcs
<1>4. MinerWriters'
  BY <1>1 DEF MinerWriters, Writing, WriterPcs
<1>5. MinerCall' /\ MinedTruthful'
  BY <1>1, MinersAre DEF MinerCall, MinedTruthful
<1> QED BY <1>2, <1>3, <1>4, <1>5 DEF MinerInv

\* A step of t leaves the others; the call goes on.
LEMMA MinerOthers ==
  ASSUME MinerInv, MinerTypeOK', NEW t \in Miners, miner[t].pc # "idle", miner'[t].pc # "idle",
         \A u \in Miners : u # t => miner'[u] = miner[u],
         job' = job, mined' = mined, found_flag = 1 => found_flag' = 1, MinerSearch(t)'
  PROVE  /\ \A u \in Miners : MinerSearch(u)'
         /\ MinerCall' /\ MinedTruthful' /\ ~mined.done
<1>1. ASSUME NEW u \in Miners, u # t PROVE MinerSearch(u)'
  <2>1. MinerSearch(u)
    BY DEF MinerInv
  <2>2. miner'[u] = miner[u]
    BY <1>1
  <2>3. \A k \in Nat : Winner(k)' <=> Winner(k)
    BY DEF Winner, NonceOf
  <2>4. miner[u].n \in Nat
    BY DEF MinerInv, MinerTypeOK
  <2> QED BY <2>1, <2>2, <2>3, <2>4 DEF MinerSearch, Writing
<1>2. ~mined.done
  BY DEF MinerInv, MinerCall
<1>3. \A u \in Miners : miner'[u].pc # "idle"
  BY DEF MinerInv, MinerCall
<1>4. MinerCall' /\ MinedTruthful'
  BY <1>2, <1>3, MinersAre DEF MinerCall, MinedTruthful
<1> QED BY <1>1, <1>2, <1>4

\* The threads that only search.
LEMMA SearchInv ==
  ASSUME MinerInv, NEW t \in Miners, StopEarly(t) \/ RangeEnds(t) \/ HashOne(t)
  PROVE  MinerInv'
<1>0. /\ MinerTypeOK /\ MinerSearch(t) /\ MinerWriters
      /\ miner[t].pc = "loop" /\ job' = job /\ mined' = mined
      /\ found_flag' = found_flag /\ found_nonce' = found_nonce /\ found_digest' = found_digest
  BY DEF MinerInv, StopEarly, RangeEnds, HashOne, InPc
<1>1. PICK n \in Nat : n = miner[t].n
  BY <1>0 DEF MinerTypeOK
<1>k. \A k : Winner(k)' <=> Winner(k)
  BY <1>0 DEF Winner, NonceOf
<1>s. /\ n % MinerThreads = t
      /\ \A k \in Nat : k < n /\ k < job.total /\ k % MinerThreads = t => ~Winner(k)
  BY <1>0, <1>1 DEF MinerSearch
<1>2. /\ miner' \in [Miners -> [pc : MinerPcs, n : Nat]]
      /\ \A u \in Miners : u # t => miner'[u] = miner[u]
      /\ miner'[t].pc \in {"gone", "claim", "loop"}
      /\ MinerSearch(t)'
  <2>0. miner \in [Miners -> [pc : MinerPcs, n : Nat]] /\ MinerThreads \in Nat
    BY <1>0, MinersAre DEF MinerTypeOK
  <2>1. CASE StopEarly(t) \/ RangeEnds(t)
    <3>1. miner' = [miner EXCEPT ![t].pc = "gone"] /\ (found_flag = 1 \/ n >= job.total)
      BY <1>1, <2>1 DEF StopEarly, RangeEnds, GoTo
    <3>2. miner'[t].pc = "gone" /\ miner'[t].n = n
      BY <1>1, <2>0, <3>1
    <3>3. MinerSearch(t)'
      BY <1>0, <1>k, <1>s, <3>1, <3>2 DEF MinerSearch, Writing, WriterPcs
    <3> QED BY <2>0, <3>1, <3>2, <3>3 DEF MinerPcs
  <2>2. CASE HashOne(t) /\ Winner(n)
    <3>0. Wins(t) /\ n < job.total
      BY <1>1, <2>2 DEF Wins, Winner, HashOne
    <3>1. miner' = [miner EXCEPT ![t].pc = "claim"]
      BY <2>2, <3>0 DEF HashOne
    <3>2. miner'[t].pc = "claim" /\ miner'[t].n = n
      BY <1>1, <2>0, <3>1
    <3>3. MinerSearch(t)'
      BY <1>0, <1>k, <1>s, <2>2, <3>0, <3>2 DEF MinerSearch, Writing, WriterPcs
    <3> QED BY <2>0, <3>1, <3>2, <3>3 DEF MinerPcs
  <2>3. CASE HashOne(t) /\ ~Winner(n)
    <3>0. ~Wins(t)
      BY <1>1, <2>3 DEF Wins, Winner
    <3>1. miner' = [miner EXCEPT ![t].n = @ + MinerThreads]
      BY <2>3, <3>0 DEF HashOne
    <3>2. miner'[t].pc = "loop" /\ miner'[t].n = n + MinerThreads
      BY <1>0, <1>1, <2>0, <3>1
    <3>3. (n + MinerThreads) % MinerThreads = t
      BY <1>s, MinersAre, ClassSteps
    <3>4. ASSUME NEW k \in Nat, k < n + MinerThreads, k < job.total, k % MinerThreads = t
          PROVE  ~Winner(k)
      <4>1. k < n \/ k = n
        BY <1>s, <3>4, MinersAre, NextInClass
      <4> QED BY <1>s, <2>3, <3>4, <4>1
    <3>5. MinerSearch(t)'
      BY <1>0, <1>k, <3>2, <3>3, <3>4 DEF MinerSearch, Writing, WriterPcs
    <3> QED BY <2>0, <3>1, <3>2, <3>5 DEF MinerPcs
  <2> QED BY <2>1, <2>2, <2>3
<1>3. MinerTypeOK'
  BY <1>0, <1>2 DEF MinerTypeOK
<1>4. /\ \A u \in Miners : MinerSearch(u)'
      /\ MinerCall' /\ MinedTruthful'
  BY <1>0, <1>2, <1>3, MinerOthers
<1>5. MinerWriters'
  <2>1. \A u \in Miners : Writing(u)' <=> Writing(u)
    BY <1>0, <1>2 DEF Writing, WriterPcs
  <2>2. \A u \in Miners : Writing(u) => miner'[u] = miner[u] /\ u # t
    BY <1>0, <1>2 DEF Writing, WriterPcs
  <2>3. \A u \in Miners : miner'[u].pc \in {"digest1", "digest2"} => Writing(u)
    BY <2>1 DEF Writing, WriterPcs
  <2>4. ResultWhole' <=> ResultWhole
    BY <1>0, <1>k DEF ResultWhole, NonceOf
  <2>5. \A k : NonceOf(k)' = NonceOf(k)
    BY <1>0 DEF NonceOf
  <2> QED BY <1>0, <2>1, <2>2, <2>3, <2>4, <2>5 DEF MinerWriters
<1> QED BY <1>3, <1>4, <1>5 DEF MinerInv

\* The race for the flag: the loser leaves, the winner is the only writer.
LEMMA ClaimInv ==
  ASSUME MinerInv, NEW t \in Miners, Claim(t)
  PROVE  MinerInv'
<1>0. /\ MinerTypeOK /\ MinerSearch(t) /\ MinerWriters
      /\ miner[t].pc = "claim" /\ job' = job /\ mined' = mined
      /\ found_flag' = 1 /\ found_nonce' = found_nonce /\ found_digest' = found_digest
      /\ miner' = [miner EXCEPT ![t].pc = IF found_flag = 0 THEN "nonce" ELSE "gone"]
  BY DEF MinerInv, Claim, InPc, GoTo
<1>1. /\ miner' \in [Miners -> [pc : MinerPcs, n : Nat]]
      /\ \A u \in Miners : u # t => miner'[u] = miner[u]
      /\ miner'[t].pc = (IF found_flag = 0 THEN "nonce" ELSE "gone") /\ miner'[t].n = miner[t].n
  BY <1>0 DEF MinerTypeOK, MinerPcs, WriterPcs
<1>2. MinerTypeOK'
  BY <1>0, <1>1 DEF MinerTypeOK
<1>k. \A k : (Winner(k)' <=> Winner(k)) /\ NonceOf(k)' = NonceOf(k)
  BY <1>0 DEF Winner, NonceOf
<1>3. MinerSearch(t)'
  BY <1>0, <1>1, <1>k DEF MinerSearch
<1>4. /\ \A u \in Miners : MinerSearch(u)'
      /\ MinerCall' /\ MinedTruthful'
  BY <1>0, <1>1, <1>2, <1>3, MinerOthers
<1>5. CASE found_flag = 0
  <2>1. \A u \in Miners : ~Writing(u)
    BY <1>0, <1>5 DEF MinerWriters
  <2>2. \A u \in Miners : Writing(u)' => u = t
    BY <1>1, <2>1 DEF Writing
  <2>3. Writing(t)' /\ miner'[t].pc = "nonce"
    BY <1>1, <1>5 DEF Writing, WriterPcs
  <2>4. \A u \in Miners : miner'[u].pc \in {"digest1", "digest2"} => u = t
    BY <2>2 DEF Writing, WriterPcs
  <2>5. MinerWriters'
    BY <1>0, <2>2, <2>3, <2>4 DEF MinerWriters
  <2> QED BY <1>2, <1>4, <2>5 DEF MinerInv
<1>6. CASE found_flag = 1
  <2>1. \A u \in Miners : Writing(u)' <=> Writing(u)
    BY <1>0, <1>1, <1>6 DEF Writing, WriterPcs
  <2>2. \A u \in Miners : Writing(u) => miner'[u] = miner[u]
    BY <1>0, <1>1 DEF Writing, WriterPcs
  <2>3. \A u \in Miners : miner'[u].pc \in {"digest1", "digest2"} => Writing(u)
    BY <2>1 DEF Writing, WriterPcs
  <2>4. ResultWhole' <=> ResultWhole
    BY <1>0, <1>k DEF ResultWhole
  <2>5. MinerWriters'
    BY <1>0, <1>6, <1>k, <2>1, <2>2, <2>3, <2>4 DEF MinerWriters
  <2> QED BY <1>2, <1>4, <2>5 DEF MinerInv
<1> QED BY <1>0, <1>5, <1>6 DEF MinerTypeOK

\* The winner writes the nonce, then the digest, and leaves a whole result.
LEMMA WriteInv ==
  ASSUME MinerInv, NEW t \in Miners, WriteNonce(t) \/ WriteDigest(t)
  PROVE  MinerInv'
<1>0. /\ MinerTypeOK /\ MinerSearch(t) /\ MinerWriters
      /\ miner[t].pc \in WriterPcs /\ job' = job /\ mined' = mined /\ found_flag' = found_flag
  BY DEF MinerInv, WriteNonce, WriteDigest, InPc, WriterPcs
<1>1. PICK n \in Nat, x \in Nat : n = miner[t].n /\ x = NonceOf(n)
  BY <1>0, NonceInt DEF MinerTypeOK
<1>w. Writing(t) /\ miner[t].pc # "idle"
  BY <1>0 DEF Writing, WriterPcs
<1>2. /\ found_flag = 1 /\ n < job.total /\ Winner(n)
      /\ \A u \in Miners : Writing(u) => u = t
      /\ miner[t].pc \in {"digest1", "digest2"} => found_nonce = x
      /\ miner[t].pc = "digest2" => found_digest[1] = x
  <2>1. n < job.total /\ Winner(n)
    BY <1>0, <1>1, <1>w DEF MinerSearch
  <2>2. found_flag = 1 /\ \A u \in Miners : Writing(u) => u = t
    BY <1>0, <1>w DEF MinerWriters
  <2>3. /\ miner[t].pc \in {"digest1", "digest2"} => found_nonce = NonceOf(miner[t].n)
        /\ miner[t].pc = "digest2" => found_digest[1] = NonceOf(miner[t].n)
    BY <1>0 DEF MinerWriters
  <2> QED BY <1>1, <2>1, <2>2, <2>3
<1>3. \/ /\ miner[t].pc = "nonce" /\ miner' = [miner EXCEPT ![t].pc = "digest1"]
         /\ found_nonce' = x /\ found_digest' = found_digest
      \/ /\ miner[t].pc = "digest1" /\ miner' = [miner EXCEPT ![t].pc = "digest2"]
         /\ found_nonce' = found_nonce /\ found_digest' = [found_digest EXCEPT ![1] = x]
      \/ /\ miner[t].pc = "digest2" /\ miner' = [miner EXCEPT ![t].pc = "gone"]
         /\ found_nonce' = found_nonce /\ found_digest' = [found_digest EXCEPT ![2] = x]
  BY <1>1 DEF WriteNonce, WriteDigest, InPc, GoTo
<1>4. /\ miner' \in [Miners -> [pc : MinerPcs, n : Nat]]
      /\ \A u \in Miners : u # t => miner'[u] = miner[u]
      /\ miner'[t].n = n
      /\ found_nonce' \in Int /\ found_digest' \in [1 .. 2 -> Int]
      /\ \/ miner'[t].pc = "digest1" /\ found_nonce' = x
         \/ miner'[t].pc = "digest2" /\ found_nonce' = x /\ found_digest'[1] = x
         \/ miner'[t].pc = "gone" /\ found_nonce' = x /\ found_digest'[1] = x /\ found_digest'[2] = x
  BY <1>0, <1>1, <1>2, <1>3 DEF MinerTypeOK, MinerPcs, WriterPcs
<1>5. MinerTypeOK'
  BY <1>0, <1>4 DEF MinerTypeOK
<1>k. \A k : (Winner(k)' <=> Winner(k)) /\ NonceOf(k)' = NonceOf(k)
  BY <1>0 DEF Winner, NonceOf
<1>6. MinerSearch(t)'
  BY <1>0, <1>1, <1>2, <1>4, <1>k DEF MinerSearch, WriterPcs
<1>7. /\ \A u \in Miners : MinerSearch(u)'
      /\ MinerCall' /\ MinedTruthful'
  BY <1>0, <1>4, <1>5, <1>6, MinerOthers DEF WriterPcs
<1>8. \A u \in Miners : Writing(u)' => u = t
  BY <1>2, <1>4 DEF Writing
<1>9. \A u \in Miners : miner'[u].pc \in {"digest1", "digest2"} => u = t
  BY <1>8 DEF Writing, WriterPcs
<1>10. ResultWhole' \/ Writing(t)'
  <2>1. CASE miner'[t].pc = "gone"
    <3>1. found_nonce' = NonceOf(n)' /\ Winner(n)' /\ n < job'.total
      BY <1>0, <1>1, <1>2, <1>4, <1>k, <2>1
    <3> QED BY <1>1, <1>4, <2>1, <3>1 DEF ResultWhole
  <2>2. CASE miner'[t].pc \in {"digest1", "digest2"}
    BY <2>2 DEF Writing, WriterPcs
  <2> QED BY <1>4, <2>1, <2>2
<1>11. MinerWriters'
  <2>1. \A u \in Miners : miner'[u].pc \in {"digest1", "digest2"} => found_nonce' = NonceOf(miner[u].n)'
    BY <1>0, <1>1, <1>4, <1>9 DEF NonceOf
  <2>2. \A u \in Miners : miner'[u].pc = "digest2" => found_digest'[1] = NonceOf(miner[u].n)'
    BY <1>0, <1>1, <1>4, <1>9 DEF NonceOf
  <2> QED BY <1>0, <1>2, <1>8, <1>10, <2>1, <2>2 DEF MinerWriters
<1> QED BY <1>5, <1>7, <1>11 DEF MinerInv

\* Everybody is gone: either the result is whole, or every class is searched.
LEMMA MineEndInv ==
  ASSUME MinerInv, MineEnd
  PROVE  MinerInv'
<1>0. /\ MinerTypeOK /\ MinerWriters /\ (\A t \in Miners : miner[t].pc = "gone" /\ MinerSearch(t))
      /\ job' = job /\ found_flag' = found_flag /\ found_nonce' = found_nonce
      /\ found_digest' = found_digest
      /\ miner' = [t \in Miners |-> [pc |-> "idle", n |-> 0]]
      /\ mined' = [found |-> found_flag # 0, done |-> TRUE,
                   nonce |-> IF found_flag # 0 THEN found_nonce ELSE NoNonce,
                   digest |-> IF found_flag # 0 THEN found_digest ELSE NoDigest]
  BY DEF MinerInv, MineEnd, InPc
<1>1. \A t \in Miners : ~Writing(t)
  BY <1>0 DEF Writing, WriterPcs
<1>2. MinerTypeOK'
  <2>1. NoDigest \in [1 .. 2 -> Int] /\ NoNonce \in Int
    BY DEF NoDigest, NoNonce
  <2>2. miner' \in [Miners -> [pc : MinerPcs, n : Nat]]
    BY <1>0 DEF MinerPcs
  <2>3. mined' \in [found : BOOLEAN, nonce : Int, digest : [1 .. 2 -> Int], done : BOOLEAN]
    BY <1>0, <2>1 DEF MinerTypeOK
  <2> QED BY <1>0, <2>2, <2>3 DEF MinerTypeOK
<1>k. \A k : (Winner(k)' <=> Winner(k)) /\ NonceOf(k)' = NonceOf(k)
  BY <1>0 DEF Winner, NonceOf
<1>3. (\A t \in Miners : MinerSearch(t)') /\ MinerCall'
  BY <1>0 DEF MinerSearch, MinerCall
<1>4. MinerWriters'
  <2>1. ResultWhole' <=> ResultWhole
    BY <1>0, <1>k DEF ResultWhole
  <2> QED BY <1>0, <1>1, <2>1 DEF MinerWriters, Writing, WriterPcs
<1>5. MinedTruthful'
  <2> DEFINE range == {NonceOf(n) : n \in 0 .. job.total - 1}
  <2>r. {NonceOf(n)' : n \in 0 .. job'.total - 1} = range
    BY <1>0, <1>k
  <2>t. job.total \in Nat
    BY <1>0 DEF MinerTypeOK
  <2>1. CASE found_flag = 1
    <3>1. ResultWhole
      BY <1>0, <1>1, <2>1 DEF MinerWriters
    <3>2. found_nonce \in range \cap job.wins
      <4>1. PICK k \in Nat : k < job.total /\ Winner(k) /\ found_nonce = NonceOf(k)
        BY <3>1 DEF ResultWhole
      <4>2. k \in 0 .. job.total - 1
        BY <2>t, <4>1
      <4> QED BY <4>1, <4>2 DEF Winner
    <3>3. found_digest = <<found_nonce, found_nonce>>
      BY <1>0, <3>1 DEF ResultWhole, MinerTypeOK
    <3>4. mined' = [found |-> TRUE, done |-> TRUE, nonce |-> found_nonce, digest |-> found_digest]
      <4>1. mined' = [found |-> found_flag # 0, done |-> TRUE,
                      nonce |-> IF found_flag # 0 THEN found_nonce ELSE NoNonce,
                      digest |-> IF found_flag # 0 THEN found_digest ELSE NoDigest]
        BY <1>0
      <4>2. (found_flag # 0) = TRUE
        BY <2>1
      <4> QED BY <4>1, <4>2
    <3>5. mined'.found = TRUE /\ mined'.nonce = found_nonce /\ mined'.digest = found_digest
      BY <3>4
    <3> HIDE DEF range
    <3> QED BY <1>0, <2>r, <3>2, <3>3, <3>5 DEF MinedTruthful
  <2>2. CASE found_flag = 0
    <3>1. ASSUME NEW k \in 0 .. job.total - 1 PROVE NonceOf(k) \notin job.wins
      <4>1. k \in Nat /\ k < job.total
        BY <2>t
      <4>2. PICK t \in Miners : t = k % MinerThreads
        BY <4>1, MinersAre, DivMod DEF Miners
      <4>3. miner[t].n >= job.total /\ miner[t].n \in Nat
        BY <1>0, <2>2 DEF MinerSearch, MinerTypeOK
      <4>4. MinerSearch(t) /\ miner[t].pc = "gone"
        BY <1>0, <4>2
      <4>5. k < miner[t].n
        BY <2>t, <4>1, <4>3
      <4>6. ~Winner(k)
        BY <2>2, <4>1, <4>2, <4>4, <4>5 DEF MinerSearch
      <4> QED BY <4>6 DEF Winner
    <3>2. range \cap job.wins = {}
      BY <3>1
    <3>3. mined'.found = FALSE
      BY <1>0, <2>2
    <3> HIDE DEF range
    <3> QED BY <1>0, <2>r, <3>2, <3>3 DEF MinedTruthful
  <2> QED BY <1>0, <2>1, <2>2 DEF MinerTypeOK
<1> QED BY <1>2, <1>3, <1>4, <1>5 DEF MinerInv

\* Whatever the grid, the range and the order in which finders claim and write,
\* mine() reports a nonce exactly if there is one, with the digest of that nonce.
THEOREM MinerCorrect == MinerSpec => []MinedTruthful
<1>1. MinerInv /\ [MinerNext]_minerVars => MinerInv'
  <2> SUFFICES ASSUME MinerInv, [MinerNext]_minerVars PROVE MinerInv'
    OBVIOUS
  <2>1. CASE MinerNext
    BY <2>1, MineBeginInv, MineEndInv, SearchInv, ClaimInv, WriteInv DEF MinerNext, MinerStep
  <2>2. CASE UNCHANGED minerVars
    BY <2>2 DEF minerVars, MinerInv, MinerTypeOK, MinerSearch, MinerWriters, MinerCall, MinedTruthful,
                ResultWhole, Writing, Winner, NonceOf
  <2> QED BY <2>1, <2>2
<1>2. MinerInv => MinedTruthful
  BY DEF MinerInv
<1> QED BY <1>1, <1>2, MinerInitInv, PTL DEF MinerSpec

-----------------------------------------------------------------------------
(***************************************************************************)
(* The streams of the preprocessor, while no slot is used twice in a call. *)
(* A stream that has been given its image works on it in three steps and   *)
(* is otherwise idle (StreamState), and the host returns only when all     *)
(* streams are.                                                            *)
(***************************************************************************)
ImageWork(i) == <<[op |-> "upload", image |-> i], [op |-> "kernel", image |-> i],
                  [op |-> "download", image |-> i]>>
AfterUpload(i) == <<[op |-> "kernel", image |-> i], [op |-> "download", image |-> i]>>
AfterKernel(i) == <<[op |-> "download", image |-> i]>>

\* What the buffers hold does not matter to the type, only where there are any.
On(f, S) == f = [x \in S |-> f[x]]

StreamTypeOK ==
    /\ \E n \in Nat : DOMAIN batch = 0 .. n - 1 /\ nextImage \in {Resting} \cup 0 .. n
    /\ On(stage, Streams) /\ On(d_src, Streams) /\ On(queue, Streams)
    /\ On(d_dst, DOMAIN batch) /\ On(h_pinned, DOMAIN batch)

\* Stream s has the image s to work on.
StreamState(s) ==
    IF s < nextImage
      THEN /\ stage[s] = s
           /\ \/ queue[s] = ImageWork(s)
              \/ queue[s] = AfterUpload(s) /\ d_src[s] = s
              \/ queue[s] = AfterKernel(s) /\ d_dst[s] = s
              \/ queue[s] = <<>> /\ h_pinned[s] = s
      ELSE queue[s] = <<>>

FreshSlots == DOMAIN batch \subseteq Streams

StreamInv ==
    /\ StreamTypeOK
    /\ nextImage = Resting => StreamsIdle
    /\ FreshSlots => IF nextImage = Resting
                       THEN StreamsMatchSerial
                       ELSE returned = <<>> /\ \A s \in Streams : StreamState(s)

LEMMA OnExcept ==
  ASSUME NEW S, NEW f, On(f, S), NEW a, NEW b, NEW g, g = [f EXCEPT ![a] = b]
  PROVE  /\ On(g, S)
         /\ a \in S => g[a] = b
         /\ \A x \in S : x # a => g[x] = f[x]
<1>1. DOMAIN f = S
  BY DEF On
<1>2. g = [x \in S |-> IF x = a THEN b ELSE f[x]]
  BY <1>1
<1> QED BY <1>2 DEF On

\* The images of a call that fits have streams of their own.
LEMMA OwnSlot ==
  ASSUME FreshSlots, NEW i \in DOMAIN batch, i \in Nat
  PROVE  i \in Streams /\ SlotOf(i) = i
<1>1. i \in Streams /\ NumStreams \in Nat \ {0}
  BY StreamsAssumption DEF FreshSlots
<1>2. i < NumStreams
  BY <1>1 DEF Streams
<1> QED BY <1>1, <1>2, SmallResidue DEF SlotOf

LEMMA StreamsInitInv == StreamsInit => StreamInv
<1> SUFFICES ASSUME StreamsInit PROVE StreamInv
  OBVIOUS
<1>1. DOMAIN batch = 0 .. 0 - 1
  BY DEF StreamsInit
<1>2. StreamTypeOK
  BY <1>1 DEF StreamsInit, StreamTypeOK, On
<1> QED BY <1>2 DEF StreamsInit, StreamInv, StreamsIdle, StreamsMatchSerial

LEMMA ProcessBeginInv ==
  ASSUME StreamInv, ProcessBegin
  PROVE  StreamInv'
<1>1. PICK n \in 1 .. MaxBatch : batch' \in [0 .. n - 1 -> ImageBytes]
  BY DEF ProcessBegin
<1>2. /\ nextImage = Resting /\ nextImage' = 0 /\ returned' = <<>>
      /\ stage' = stage /\ d_src' = d_src /\ queue' = queue
      /\ On(d_dst', DOMAIN batch') /\ On(h_pinned', DOMAIN batch')
  BY DEF ProcessBegin, On
<1>3. n \in Nat
  BY <1>1, StreamsAssumption
<1>4. StreamTypeOK'
  BY <1>1, <1>2, <1>3 DEF StreamInv, StreamTypeOK, Resting
<1>5. \A s \in Streams : StreamState(s)'
  BY <1>2 DEF StreamInv, StreamsIdle, StreamState, Streams
<1> QED BY <1>2, <1>4, <1>5 DEF StreamInv, Resting

LEMMA SubmitInv ==
  ASSUME StreamInv, Submit
  PROVE  StreamInv'
<1>1. /\ nextImage \in DOMAIN batch /\ nextImage' = nextImage + 1
      /\ batch' = batch /\ d_src' = d_src /\ d_dst' = d_dst /\ h_pinned' = h_pinned
      /\ returned' = returned
      /\ stage' = [stage EXCEPT ![SlotOf(nextImage)] = nextImage]
      /\ queue' = [queue EXCEPT ![SlotOf(nextImage)] = @ \o ImageWork(nextImage)]
  BY DEF Submit, ImageWork
<1>2. PICK n \in Nat : DOMAIN batch = 0 .. n - 1 /\ nextImage \in {Resting} \cup 0 .. n
  BY DEF StreamInv, StreamTypeOK
<1>3. nextImage \in 0 .. n - 1 /\ nextImage # Resting /\ nextImage' \in 0 .. n /\ nextImage' # Resting
  BY <1>1, <1>2 DEF Resting
<1>4. StreamTypeOK'
  <2>1. On(stage', Streams) /\ On(queue', Streams)
    BY <1>1, OnExcept DEF StreamInv, StreamTypeOK
  <2> QED BY <1>1, <1>2, <1>3, <2>1 DEF StreamInv, StreamTypeOK
<1>5. ASSUME FreshSlots PROVE returned' = <<>> /\ \A s \in Streams : StreamState(s)'
  <2>1. PICK i \in Streams : i = nextImage /\ SlotOf(nextImage) = i /\ i \in Nat
    BY <1>1, <1>3, <1>5, OwnSlot
  <2>2. returned = <<>> /\ \A s \in Streams : StreamState(s)
    BY <1>3, <1>5 DEF StreamInv
  <2>3. /\ stage'[i] = i /\ queue'[i] = queue[i] \o ImageWork(i)
        /\ \A s \in Streams : s # i => stage'[s] = stage[s] /\ queue'[s] = queue[s]
    <3>1. On(stage, Streams) /\ On(queue, Streams)
      BY DEF StreamInv, StreamTypeOK
    <3>2. stage'[i] = i /\ \A s \in Streams : s # i => stage'[s] = stage[s]
      <4>1. stage' = [stage EXCEPT ![i] = i]
        BY <1>1, <2>1
      <4> QED BY <2>1, <3>1, <4>1, OnExcept
    <3>3. PICK work : work = queue[i] \o ImageWork(i)
      OBVIOUS
    <3>4. queue' = [queue EXCEPT ![i] = work]
      BY <1>1, <2>1, <3>3
    <3>5. queue'[i] = work /\ \A s \in Streams : s # i => queue'[s] = queue[s]
      BY <2>1, <3>1, <3>4, OnExcept
    <3> QED BY <3>2, <3>3, <3>5
  <2>4. queue[i] = <<>>
    BY <2>1, <2>2 DEF StreamState
  <2>5. queue'[i] = ImageWork(i)
    BY <2>3, <2>4 DEF ImageWork
  <2>6. ASSUME NEW s \in Streams PROVE StreamState(s)'
    <3>1. CASE s = i
      BY <1>1, <2>1, <2>3, <2>5, <3>1 DEF StreamState
    <3>2. CASE s # i
      <4>1. s < nextImage' <=> s < nextImage
        BY <1>1, <2>1, <3>2 DEF Streams
      <4> QED BY <1>1, <2>2, <2>3, <3>2, <4>1 DEF StreamState
    <3> QED BY <3>1, <3>2
  <2> QED BY <1>1, <2>2, <2>6
<1> QED BY <1>1, <1>3, <1>4, <1>5 DEF StreamInv, FreshSlots

LEMMA ProcessEndInv ==
  ASSUME StreamInv, ProcessEnd
  PROVE  StreamInv'
<1>1. /\ nextImage # Resting /\ nextImage \notin DOMAIN batch /\ StreamsIdle
      /\ returned' = h_pinned /\ nextImage' = Resting
      /\ batch' = batch /\ stage' = stage /\ d_src' = d_src /\ queue' = queue /\ d_dst' = d_dst
      /\ h_pinned' = h_pinned
  BY DEF ProcessEnd
<1>2. PICK n \in Nat : DOMAIN batch = 0 .. n - 1 /\ nextImage = n
  BY <1>1 DEF StreamInv, StreamTypeOK
<1>3. StreamTypeOK'
  BY <1>1 DEF StreamInv, StreamTypeOK
<1>4. ASSUME FreshSlots PROVE returned' = [i \in DOMAIN batch |-> i]
  <2>1. ASSUME NEW i \in DOMAIN batch PROVE h_pinned[i] = i
    <3>1. i \in Streams /\ i < nextImage
      BY <1>2, <1>4 DEF FreshSlots
    <3>2. StreamState(i) /\ queue[i] = <<>>
      BY <1>1, <1>4, <3>1 DEF StreamInv, StreamsIdle
    <3> QED BY <3>1, <3>2 DEF StreamState, ImageWork, AfterUpload, AfterKernel
  <2> QED BY <1>1, <2>1 DEF StreamInv, StreamTypeOK, On
<1>5. StreamsIdle' /\ (FreshSlots' => StreamsMatchSerial')
  BY <1>1, <1>4 DEF StreamsIdle, FreshSlots, StreamsMatchSerial, process_serial
<1> QED BY <1>1, <1>3, <1>5 DEF StreamInv

LEMMA StreamStepInv ==
  ASSUME StreamInv, NEW s \in Streams, StreamStep(s)
  PROVE  StreamInv'
<1>1. /\ queue[s] # <<>> /\ queue' = [queue EXCEPT ![s] = Tail(@)]
      /\ batch' = batch /\ nextImage' = nextImage /\ stage' = stage /\ returned' = returned
      /\ d_src' = IF Head(queue[s]).op = "upload" THEN [d_src EXCEPT ![s] = stage[s]] ELSE d_src
      /\ d_dst' = IF Head(queue[s]).op = "kernel"
                    THEN [d_dst EXCEPT ![Head(queue[s]).image] = d_src[s]] ELSE d_dst
      /\ h_pinned' = IF Head(queue[s]).op = "download"
                    THEN [h_pinned EXCEPT ![Head(queue[s]).image] = d_dst[Head(queue[s]).image]]
                    ELSE h_pinned
  BY DEF StreamStep
<1>o. /\ On(d_src, Streams) /\ On(queue, Streams)
      /\ On(d_dst, DOMAIN batch) /\ On(h_pinned, DOMAIN batch)
  BY DEF StreamInv, StreamTypeOK
<1>d. DOMAIN queue = Streams /\ DOMAIN d_src = Streams
  BY <1>o DEF On
<1>2. nextImage # Resting
  BY <1>1 DEF StreamInv, StreamsIdle
<1>3. StreamTypeOK'
  <2>1. On(queue', Streams) /\ On(d_src', Streams)
    BY <1>1, <1>o, OnExcept
  <2>2. On(d_dst', DOMAIN batch) /\ On(h_pinned', DOMAIN batch)
    BY <1>1, <1>o, OnExcept
  <2> QED BY <1>1, <2>1, <2>2 DEF StreamInv, StreamTypeOK
<1>4. ASSUME FreshSlots PROVE returned' = <<>> /\ \A r \in Streams : StreamState(r)'
  <2>1. returned = <<>> /\ \A r \in Streams : StreamState(r)
    BY <1>2, <1>4 DEF StreamInv
  <2>2. s < nextImage /\ stage[s] = s
    BY <1>1, <2>1 DEF StreamState
  <2>3. s \in DOMAIN batch
    <3>1. PICK n \in Nat : DOMAIN batch = 0 .. n - 1 /\ nextImage \in 0 .. n
      BY <1>2 DEF StreamInv, StreamTypeOK
    <3> QED BY <2>2, <3>1 DEF Streams
  <2>4. queue'[s] = Tail(queue[s]) /\ \A r \in Streams : r # s => queue'[r] = queue[r]
    <3>1. PICK rest : rest = Tail(queue[s])
      OBVIOUS
    <3>2. queue' = [queue EXCEPT ![s] = rest]
      BY <1>1, <3>1
    <3>3. queue'[s] = rest /\ \A r \in Streams : r # s => queue'[r] = queue[r]
      BY <1>d, <3>2
    <3> QED BY <3>1, <3>3
  <2>5. CASE queue[s] = ImageWork(s)
    <3>1. Head(queue[s]).op = "upload" /\ Tail(queue[s]) = AfterUpload(s)
      BY <2>5 DEF ImageWork, AfterUpload
    <3>2. d_src' = [d_src EXCEPT ![s] = s] /\ d_dst' = d_dst /\ h_pinned' = h_pinned
      BY <1>1, <2>2, <3>1
    <3>3. d_src'[s] = s /\ \A r \in Streams : r # s => d_src'[r] = d_src[r]
      BY <1>d, <3>2
    <3> QED BY <1>1, <2>1, <2>2, <2>4, <3>1, <3>2, <3>3 DEF StreamState
  <2>6. CASE queue[s] = AfterUpload(s) /\ d_src[s] = s
    <3>1. /\ Head(queue[s]).op = "kernel" /\ Head(queue[s]).image = s
          /\ Tail(queue[s]) = AfterKernel(s)
      BY <2>6 DEF AfterUpload, AfterKernel
    <3>2. d_src' = d_src /\ d_dst' = [d_dst EXCEPT ![s] = s] /\ h_pinned' = h_pinned
      BY <1>1, <2>6, <3>1
    <3>3. d_dst'[s] = s /\ \A r \in DOMAIN batch : r # s => d_dst'[r] = d_dst[r]
      BY <1>o, <2>3, <3>2, OnExcept
    <3>4. \A r \in Streams : r < nextImage => r \in DOMAIN batch
      <4>1. PICK n \in Nat : DOMAIN batch = 0 .. n - 1 /\ nextImage \in 0 .. n
        BY <1>2 DEF StreamInv, StreamTypeOK
      <4> QED BY <4>1 DEF Streams
    <3> QED BY <1>1, <2>1, <2>2, <2>4, <3>1, <3>2, <3>3, <3>4 DEF StreamState
  <2>7. CASE queue[s] = AfterKernel(s) /\ d_dst[s] = s
    <3>1. /\ Head(queue[s]).op = "download" /\ Head(queue[s]).image = s
          /\ Tail(queue[s]) = <<>>
      BY <2>7 DEF AfterKernel
    <3>2. d_src' = d_src /\ d_dst' = d_dst /\ h_pinned' = [h_pinned EXCEPT ![s] = s]
      BY <1>1, <2>7, <3>1
    <3>3. h_pinned'[s] = s /\ \A r \in DOMAIN batch : r # s => h_pinned'[r] = h_pinned[r]
      BY <1>o, <2>3, <3>2, OnExcept
    <3>4. \A r \in Streams : r < nextImage => r \in DOMAIN batch
      <4>1. PICK n \in Nat : DOMAIN batch = 0 .. n - 1 /\ nextImage \in 0 .. n
        BY <1>2 DEF StreamInv, StreamTypeOK
      <4> QED BY <4>1 DEF Streams
    <3> QED BY <1>1, <2>1, <2>2, <2>4, <3>1, <3>2, <3>3, <3>4 DEF StreamState
  <2>8. \/ queue[s] = ImageWork(s)
        \/ queue[s] = AfterUpload(s) /\ d_src[s] = s
        \/ queue[s] = AfterKernel(s) /\ d_dst[s] = s
    BY <1>1, <2>1, <2>2 DEF StreamState
  <2> QED BY <1>1, <2>1, <2>5, <2>6, <2>7, <2>8
<1> QED BY <1>1, <1>2, <1>3, <1>4 DEF StreamInv, FreshSlots

\* However many streams there are, and however fast each is: as long as a call
\* uses no slot twice, what process() returns is what process_serial() does.
THEOREM StreamsCorrect == StreamsSpec => []FreshSlotsMatchSerial
<1>1. StreamInv /\ [StreamsNext]_streamVars => StreamInv'
  <2> SUFFICES ASSUME StreamInv, [StreamsNext]_streamVars PROVE StreamInv'
    OBVIOUS
  <2>1. CASE StreamsNext
    BY <2>1, ProcessBeginInv, SubmitInv, ProcessEndInv, StreamStepInv DEF StreamsNext
  <2>2. CASE UNCHANGED streamVars
    BY <2>2 DEF streamVars, StreamInv, StreamTypeOK, StreamsIdle, FreshSlots, StreamsMatchSerial,
                process_serial, StreamState
  <2> QED BY <2>1, <2>2
<1>2. StreamInv => FreshSlotsMatchSerial
  BY DEF StreamInv, FreshSlotsMatchSerial, FreshSlots, StreamsMatchSerial
<1> QED BY <1>1, <1>2, StreamsInitInv, PTL DEF StreamsSpec

-----------------------------------------------------------------------------
(***************************************************************************)
(* The batcher.  BatcherInv is inductive, for every batch limit and any    *)
(* number of requests.  ServedInOrder is the part that needs an argument:  *)
(* taking a batch splits the queue in two (ConcatAdjacentSubSeq), handling *)
(* it moves a parenthesis (ConcatAssociative), and drain() flushes an      *)
(* empty queue, because the worker leaves none behind (StopsInOrder).      *)
(***************************************************************************)
\* The batch that Take removes and the queue that it leaves make up the queue.
LEMMA TakeSplits ==
    ASSUME NEW S, NEW q \in Seq(S), q # <<>>, NEW n \in Nat \ {0}
    PROVE  LET take == Smaller(Len(q), n) IN
           /\ SubSeq(q, 1, take) \in Seq(S)
           /\ SubSeq(q, take + 1, Len(q)) \in Seq(S)
           /\ Len(SubSeq(q, 1, take)) \in 1 .. n
           /\ SubSeq(q, 1, take) \o SubSeq(q, take + 1, Len(q)) = q
<1> DEFINE take == Smaller(Len(q), n)
<1>1. Len(q) \in Nat \ {0} /\ \A i \in 1 .. Len(q) : q[i] \in S
  BY EmptySeq, LenProperties, ElementOfSeq
<1>2. take \in 1 .. Len(q) /\ take <= n
  BY <1>1 DEF Smaller
<1> HIDE DEF take
<1>3. /\ SubSeq(q, 1, take) \in Seq(S)
      /\ Len(SubSeq(q, 1, take)) = take
  BY <1>1, <1>2, SubSeqProperties
<1>4. SubSeq(q, take + 1, Len(q)) \in Seq(S)
  BY <1>1, <1>2, SubSeqProperties
<1>5. SubSeq(q, 1, take) \o SubSeq(q, take + 1, Len(q)) = SubSeq(q, 1, Len(q))
  BY <1>1, <1>2, ConcatAdjacentSubSeq
<1>6. SubSeq(q, 1, Len(q)) = q
  BY SubSeqFull
<1>7. Len(SubSeq(q, 1, take)) \in 1 .. n
  BY <1>1, <1>2, <1>3
<1>8. SubSeq(q, 1, take) \o SubSeq(q, take + 1, Len(q)) = q
  BY <1>5, <1>6
<1> QED BY <1>3, <1>4, <1>7, <1>8, Zenon DEF take

\* The initial state of the class satisfies the invariant.
LEMMA BatcherInitInv == BatcherInit => BatcherInv
<1> SUFFICES ASSUME BatcherInit PROVE BatcherInv
  OBVIOUS
<1> USE BatcherAssumption DEF BatcherInit
<1>1. BatcherTypeOK
  <2>1. <<>> \in Seq(1 .. MaxSubmits)
    BY EmptySeq
  <2>2. {pending, inFlight, accepted, handled} \subseteq Seq(1 .. MaxSubmits)
    BY <2>1
  <2>3. {fired, items, largest} \subseteq Nat /\ submits \in 0 .. MaxSubmits
    OBVIOUS
  <2> QED BY <2>2, <2>3 DEF BatcherTypeOK
<1>2. ServedInOrder
  <2>1. <<>> \in Seq({}) 
    BY EmptySeq
  <2>2. <<>> \o <<>> = <<>>
    BY <2>1, ConcatEmptySeq, Zenon
  <2> QED BY <2>2 DEF ServedInOrder
<1>3. BatchesBounded /\ StopsInOrder
  BY DEF BatchesBounded, StopsInOrder
<1> QED BY <1>1, <1>2, <1>3 DEF BatcherInv

\* Every step of a client, of the worker and of the owner preserves it.
LEMMA BatcherStepInv == BatcherInv /\ [BatcherNext]_batcherVars => BatcherInv'
<1> SUFFICES ASSUME BatcherInv, [BatcherNext]_batcherVars
             PROVE  BatcherInv'
  OBVIOUS
<1> USE BatcherAssumption
<1> DEFINE S == 1 .. MaxSubmits
<1>t. BatcherTypeOK /\ ServedInOrder /\ BatchesBounded /\ StopsInOrder
  BY DEF BatcherInv
<1>q. /\ pending \in Seq(S) /\ inFlight \in Seq(S)
      /\ accepted \in Seq(S) /\ handled \in Seq(S)
  BY <1>t DEF BatcherTypeOK
<1>a. ASSUME NEW s \in Seq(S), NEW t \in Seq(S), NEW u \in Seq(S)
      PROVE  (s \o t) \o u = s \o (t \o u)
  <2> HIDE DEF S
  <2> QED BY ConcatAssociative
<1>b. \A s \in Seq(S) : \A e \in S : Append(s, e) \in Seq(S) /\ <<e>> \in Seq(S)
  <2>1. \A s \in Seq(S) : \A e \in S : Append(s, e) \in Seq(S)
    BY AppendProperties, Zenon
  <2>2. \A e \in S : <<e>> \in Seq(S)
    BY SMT
  <2> QED BY <2>1, <2>2
<1>c. handled \o inFlight \in Seq(S)
  BY <1>q, ConcatProperties
<1> HIDE DEF S
<1>1. CASE submit
  <2>1. submits' \in S /\ submits' \in 0 .. MaxSubmits
    BY <1>t, <1>1 DEF submit, BatcherTypeOK, S
  <2>2. BatcherTypeOK'
    <3>1. pending' \in Seq(S) /\ accepted' \in Seq(S)
      BY <1>1, <1>q, <1>b, <2>1 DEF submit
    <3> QED BY <1>1, <1>t, <1>q, <2>1, <3>1 DEF submit, BatcherTypeOK, S
  <2>3. ServedInOrder'
    <3>1. CASE stopping
      BY <1>1, <1>t, <3>1 DEF submit, ServedInOrder
    <3>2. CASE ~stopping
      <4> DEFINE new == <<submits'>>
      <4> DEFINE front == IF worker = "counting" THEN handled ELSE handled \o inFlight
      <4>1. front \in Seq(S) /\ new \in Seq(S)
        BY <1>q, <1>b, <1>c, <2>1
      <4>2. /\ pending' = pending \o new
            /\ accepted' = accepted \o new
        BY <1>1, <1>q, <2>1, <3>2, AppendIsConcat DEF submit
      <4>3. accepted = front \o pending /\ front' = front
        BY <1>1, <1>t DEF submit, ServedInOrder
      <4> HIDE DEF front, new
      <4>4. (front \o pending) \o new = front \o (pending \o new)
        BY <1>q, <1>a, <4>1, SMTT(30)
      <4>5. accepted' = front \o pending'
        BY <4>2, <4>3, <4>4
      <4>6. accepted' = front' \o pending'
        BY <4>3, <4>5
      <4> QED BY <4>6 DEF ServedInOrder, front
    <3> QED BY <3>1, <3>2
  <2>4. BatchesBounded' /\ StopsInOrder'
    BY <1>1, <1>t DEF submit, BatchesBounded, StopsInOrder, BatcherTypeOK
  <2> QED BY <2>2, <2>3, <2>4 DEF BatcherInv
<1>2. CASE Take
  <2> DEFINE take == Smaller(Len(pending), BatchLimit)
  <2>1. /\ inFlight' = SubSeq(pending, 1, take)
        /\ pending' = SubSeq(pending, take + 1, Len(pending))
        /\ pending # <<>>
    BY <1>2 DEF Take
  <2> HIDE DEF take
  <2>2. /\ inFlight' \in Seq(S) /\ pending' \in Seq(S)
        /\ Len(inFlight') \in 1 .. BatchLimit
        /\ inFlight' \o pending' = pending
    BY <1>q, <2>1, TakeSplits DEF take
  <2>3. inFlight = <<>> /\ worker = "waiting" /\ worker' = "handling"
    BY <1>2, <1>t DEF Take, BatchesBounded
  <2>4. BatcherTypeOK'
    BY <1>2, <1>t, <1>q, <2>2, <2>3 DEF Take, BatcherTypeOK, S
  <2>5. ServedInOrder'
    <3>1. handled \o inFlight = handled
      BY <1>q, <2>3, ConcatEmptySeq
    <3>2. accepted = handled \o (inFlight' \o pending')
      BY <1>t, <2>2, <2>3, <3>1 DEF ServedInOrder
    <3>3. (handled \o inFlight') \o pending' = handled \o (inFlight' \o pending')
      BY <1>q, <1>a, <2>2
    <3>4. accepted' = (handled' \o inFlight') \o pending'
      BY <1>2, <3>2, <3>3 DEF Take
    <3> QED BY <2>3, <3>4 DEF ServedInOrder
  <2>6. BatchesBounded'
    <3>1. inFlight' # <<>>
      BY <2>2, EmptySeq
    <3> QED BY <1>2, <1>t, <2>2, <2>3, <3>1 DEF Take, BatchesBounded
  <2>7. StopsInOrder'
    BY <1>2, <1>t, <2>3 DEF Take, StopsInOrder
  <2> QED BY <2>4, <2>5, <2>6, <2>7 DEF BatcherInv
<1>3. CASE Handle
  <2>1. BatcherTypeOK'
    BY <1>3, <1>t, <1>q, <1>c DEF Handle, BatcherTypeOK, S
  <2>2. ServedInOrder'
    BY <1>3, <1>t DEF Handle, ServedInOrder
  <2>3. BatchesBounded' /\ StopsInOrder'
    BY <1>3, <1>t DEF Handle, BatchesBounded, StopsInOrder
  <2> QED BY <2>1, <2>2, <2>3 DEF BatcherInv
<1>4. CASE Count
  <2>1. Len(inFlight) \in Nat /\ Len(<<>>) = 0 /\ <<>> \in Seq(S)
    BY <1>q, LenProperties, EmptySeq
  <2>2. BatcherTypeOK'
    BY <1>4, <1>t, <1>q, <2>1 DEF Count, BatcherTypeOK, Larger, S
  <2>3. ServedInOrder'
    <3>1. handled \o <<>> = handled
      BY <1>q, ConcatEmptySeq
    <3> QED BY <1>4, <1>t, <3>1 DEF Count, ServedInOrder
  <2>4. BatchesBounded' /\ StopsInOrder'
    BY <1>4, <1>t, <2>1 DEF Count, BatchesBounded, StopsInOrder, Larger, BatcherTypeOK
  <2> QED BY <2>2, <2>3, <2>4 DEF BatcherInv
<1>5. CASE Exit
  BY <1>5, <1>t DEF Exit, BatcherInv, BatcherTypeOK, ServedInOrder, BatchesBounded, StopsInOrder
<1>6. CASE DrainBegin
  BY <1>6, <1>t DEF DrainBegin, BatcherInv, BatcherTypeOK, ServedInOrder, BatchesBounded,
                    StopsInOrder
<1>7. CASE DrainEnd
  <2>1. pending = <<>> /\ Len(pending) = 0
    BY <1>7, <1>t, EmptySeq DEF DrainEnd, StopsInOrder
  <2>2. handled \o pending = handled
    BY <1>q, <2>1, ConcatEmptySeq
  <2>3. (0 + BatchLimit - 1) \div BatchLimit \in Nat
    OBVIOUS
  <2>4. /\ handled' = handled /\ pending' = pending /\ items' = items
        /\ fired' \in Nat /\ largest' = largest
    BY <1>7, <1>t, <2>1, <2>2, <2>3 DEF DrainEnd, Larger, Smaller, BatcherTypeOK
  <2> QED BY <1>7, <1>t, <2>4
         DEF DrainEnd, BatcherInv, BatcherTypeOK, ServedInOrder, BatchesBounded, StopsInOrder
<1>8. CASE UNCHANGED batcherVars
  BY <1>8, <1>t DEF batcherVars, BatcherInv, BatcherTypeOK, ServedInOrder, BatchesBounded,
                    StopsInOrder
<1> QED BY <1>1, <1>2, <1>3, <1>4, <1>5, <1>6, <1>7, <1>8 DEF BatcherNext, WorkerStep

\* The batcher serves every accepted request at most once and in order, in
\* batches of at most max_batch, and its worker leaves no request behind.
THEOREM BatcherCorrect == BatcherSpec => []BatcherInv
BY BatcherInitInv, BatcherStepInv, PTL DEF BatcherSpec

\* What the comment on drain() promises: when it returns, everything accepted
\* has been handled.
THEOREM DrainLosesNothing == BatcherSpec => []DrainedMeansHandled
<1>1. BatcherInv => DrainedMeansHandled
  <2> SUFFICES ASSUME BatcherInv, owner = "drained" PROVE accepted = handled
    BY DEF DrainedMeansHandled
  <2>1. /\ worker = "exited" /\ pending = <<>> /\ inFlight = <<>>
        /\ handled \in Seq(1 .. MaxSubmits)
    BY DEF BatcherInv, BatcherTypeOK, StopsInOrder, BatchesBounded
  <2>2. handled \o <<>> = handled
    BY <2>1, ConcatEmptySeq
  <2> QED BY <2>1, <2>2 DEF BatcherInv, ServedInOrder
<1> QED BY <1>1, BatcherCorrect, PTL

-----------------------------------------------------------------------------
(***************************************************************************)
(* The generation loops.  The shape of a call (CallShape) says where each  *)
(* kind of call may be and who is in its step; Progress ties the position  *)
(* of a running request to the tokens it has fed and generated, one ahead  *)
(* of them exactly between a step and its bookkeeping; Truthful is what a  *)
(* finish reason claims, one request at a time.                            *)
(***************************************************************************)
Reasons == {"none", "cancelled", "context_full", "length", "eos", "stopped"}
ActiveType == [fed : Nat, pos : Nat, n : Nat, finish : Reasons]

GenTypeOK ==
    /\ call \in {"none", "batch", "stream", "perplexity"}
    /\ DOMAIN reqs \subseteq 1 .. GenMaxBatch
    /\ \A i \in DOMAIN reqs : reqs[i].prompt \in 1 .. GenContext /\ reqs[i].max \in Int
    /\ act \in [DOMAIN reqs -> ActiveType]
    /\ members \subseteq DOMAIN act
    /\ cancelled \in BOOLEAN /\ own \in 0 .. GenContext

\* The position of the token that request i feeds next.
InPrompt(i) == act[i].fed < reqs[i].prompt
Due(i) == IF InPrompt(i) THEN act[i].fed ELSE reqs[i].prompt + act[i].n - 1

\* Between two steps the sequence of a running request ends where its next token
\* goes; between a step and its bookkeeping it is one ahead, and so it is when the
\* next token has to be sampled first.
Aligned(i) ==
    act[i].pos = IF at = "sample" \/ (at = "consume" /\ i \in members) THEN Due(i) + 1 ELSE Due(i)
Wanted(i) == act[i].n < reqs[i].max
Progress(i) ==
    /\ act[i].fed <= reqs[i].prompt /\ act[i].pos <= GenContext
    /\ InPrompt(i) => act[i].n = 0
    /\ act[i].finish = "none" =>
         /\ Aligned(i)
         /\ ~InPrompt(i) => IF at = "sample" THEN act[i].n = 0 \/ Wanted(i)
                                             ELSE act[i].n > 0 /\ Wanted(i)

\* FinishTruthful of one request.
Truthful(a, r, c) ==
    /\ a.n = 0 \/ a.n <= r.max
    /\ a.n <= GenContext - r.prompt + 1
    /\ a.finish = "length" => (a.n = r.max \/ (a.n = 0 /\ r.max <= 0)) /\ a.fed = r.prompt
    /\ a.finish = "eos" => a.n < r.max /\ a.n <= GenContext - r.prompt
    /\ a.finish = "context_full" => a.n < r.max /\ a.n = GenContext - r.prompt + 1
    /\ a.finish = "cancelled" => c

Single == call \in {"stream", "perplexity"}
CallShape ==
    /\ call = "none" <=> at = "idle"
    /\ call = "none" => reqs = <<>> /\ act = <<>> /\ members = {}
    /\ call = "batch" =>
         /\ at \in {"round", "step", "consume", "done"}
         /\ \A i \in DOMAIN act : reqs[i].max >= 0
         /\ members \subseteq Running
         /\ at \in {"round", "done"} => members = {}
    /\ Single =>
         /\ DOMAIN act = {1}
         /\ members = IF at \in {"step", "consume"} THEN {1} ELSE {}
         /\ at # "done" => act[1].finish = "none"
    /\ call = "stream" =>
         /\ at \in {"prefill", "step", "consume", "sample", "done"}
         /\ at = "prefill" => InPrompt(1)
         /\ at = "sample" => ~InPrompt(1)
    /\ call = "perplexity" =>
         /\ at \in {"score", "step", "consume", "done"}
         /\ InPrompt(1)
         /\ at \in {"step", "consume"} => act[1].fed + 1 < reqs[1].prompt
    /\ at = "step" => \A i \in members : act[i].pos < GenContext

GenInv ==
    /\ GenTypeOK /\ CallShape
    /\ \A i \in DOMAIN act : Progress(i)
    /\ call \in {"batch", "stream"} => \A i \in DOMAIN act : Truthful(act[i], reqs[i], cancelled)

LEMMA LargerOfZero ==
  ASSUME NEW m \in Int PROVE Max({m, 0}) = IF m > 0 THEN m ELSE 0
<1> DEFINE x == IF m > 0 THEN m ELSE 0
<1>1. x \in {m, 0} /\ \A y \in {m, 0} : x >= y
  OBVIOUS
<1>2. \A z \in {m, 0} : (\A y \in {m, 0} : z >= y) => z = x
  OBVIOUS
<1> HIDE DEF x
<1>3. (CHOOSE z \in {m, 0} : \A y \in {m, 0} : z >= y) = x
  BY <1>1, <1>2
<1> QED BY <1>3 DEF Max, x

LEMMA SmallerOfBoth ==
  ASSUME NEW m \in Int, NEW k \in Int PROVE Min({m, k}) = IF m < k THEN m ELSE k
<1> DEFINE x == IF m < k THEN m ELSE k
<1>1. x \in {m, k} /\ \A y \in {m, k} : x <= y
  OBVIOUS
<1>2. \A z \in {m, k} : (\A y \in {m, k} : z <= y) => z = x
  OBVIOUS
<1> HIDE DEF x
<1>3. (CHOOSE z \in {m, k} : \A y \in {m, k} : z <= y) = x
  BY <1>1, <1>2
<1> QED BY <1>3 DEF Min, x

LEMMA GenConstants ==
  GenContext \in Nat \ {0} /\ GenMaxBatch \in Nat \ {0} /\ GenPageTokens \in Nat \ {0}
BY GenerationAssumption

LEMMA OneRequest == ASSUME NEW r PROVE DOMAIN <<r>> = {1} /\ <<r>>[1] = r
<1>1. DOMAIN <<r>> = 1 .. 1
  OBVIOUS
<1>2. 1 .. 1 = {1}
  OBVIOUS
<1> QED BY <1>1, <1>2

LEMMA GenInitInv == GenInit => GenInv
<1> SUFFICES ASSUME GenInit PROVE GenInv
  OBVIOUS
<1>1. DOMAIN act = {} /\ DOMAIN reqs = {} /\ act \in [{} -> ActiveType]
  BY DEF GenInit
<1>2. GenTypeOK
  <2>1. act \in [DOMAIN reqs -> ActiveType]
    BY <1>1
  <2>2. members \subseteq DOMAIN act /\ cancelled \in BOOLEAN /\ call \in {"none", "batch", "stream", "perplexity"}
    BY DEF GenInit
  <2>3. own \in 0 .. GenContext
    BY GenConstants DEF GenInit
  <2> QED BY <1>1, <2>1, <2>2, <2>3 DEF GenTypeOK
<1>3. CallShape
  BY DEF GenInit, CallShape, Single
<1> QED BY <1>1, <1>2, <1>3 DEF GenInv

\* A call begins with nothing fed and nothing generated.
LEMMA BeginInv ==
  ASSUME GenInv, NEW kind, NEW where, NEW r, Begin(kind, where, r),
         DOMAIN r \subseteq 1 .. GenMaxBatch,
         \A i \in DOMAIN r : r[i].prompt \in 1 .. GenContext /\ r[i].max \in Int,
         \/ kind = "batch" /\ where = "round" /\ \A i \in DOMAIN r : r[i].max >= 0
         \/ kind = "stream" /\ where = "prefill" /\ DOMAIN r = {1}
         \/ kind = "perplexity" /\ where = "score" /\ DOMAIN r = {1}
  PROVE  GenInv'
<1>1. /\ at = "idle" /\ call' = kind /\ at' = where /\ reqs' = r /\ cancelled' = FALSE
      /\ act' = [i \in DOMAIN r |-> NewActive] /\ members' = members /\ own' = own
  BY DEF Begin
<1>2. members = {} /\ own \in 0 .. GenContext
  BY <1>1 DEF GenInv, CallShape, GenTypeOK
<1>3. NewActive \in ActiveType
  BY DEF NewActive, ActiveType, Reasons
<1>4. GenTypeOK'
  BY <1>1, <1>2, <1>3 DEF GenTypeOK
<1>5. \A i \in DOMAIN r : r[i].prompt \in Nat /\ r[i].prompt > 0 /\ r[i].prompt <= GenContext
  BY GenConstants
<1>6. ASSUME NEW i \in DOMAIN r
      PROVE  act'[i] = NewActive /\ InPrompt(i)' /\ Progress(i)' /\ Truthful(act[i], reqs[i], cancelled)'
  BY <1>1, <1>2, <1>5, <1>6, GenConstants
     DEF NewActive, InPrompt, Progress, Due, Aligned, Truthful
<1>7. CallShape'
  BY <1>1, <1>2, <1>6 DEF CallShape, Single, NewActive
<1> QED BY <1>1, <1>4, <1>6, <1>7 DEF GenInv

LEMMA BeginsInv ==
  ASSUME GenInv,
         \/ \E n \in 1 .. GenMaxBatch : \E r \in [1 .. n -> Requests] : BatchBegin(r)
         \/ \E r \in Requests : StreamBegin(r)
         \/ \E n \in 1 .. MaxPrompt : PerplexityBegin(n)
  PROVE  GenInv'
<1>1. ASSUME NEW n \in 1 .. GenMaxBatch, NEW r \in [1 .. n -> Requests], BatchBegin(r) PROVE GenInv'
  <2>1. Begin("batch", "round", r) /\ DOMAIN r = 1 .. n
    BY <1>1 DEF BatchBegin
  <2>2. \A i \in DOMAIN r : r[i].prompt \in 1 .. GenContext /\ r[i].max \in Int /\ r[i].max >= 0
    BY <1>1, GenerationAssumption DEF BatchBegin, Requests
  <2>3. DOMAIN r \subseteq 1 .. GenMaxBatch
    BY <1>1, <2>1, GenConstants
  <2> QED BY <2>1, <2>2, <2>3, BeginInv
<1>2. ASSUME NEW r \in Requests, StreamBegin(r) PROVE GenInv'
  <2>1. PICK q : q = <<r>> /\ DOMAIN q = {1} /\ q[1] = r
    BY OneRequest
  <2>2. Begin("stream", "prefill", q)
    BY <1>2, <2>1 DEF StreamBegin
  <2>3. r.prompt \in 1 .. GenContext /\ r.max \in Int
    BY <1>2, GenerationAssumption DEF StreamBegin, Requests
  <2>4. {1} \subseteq 1 .. GenMaxBatch
    BY GenConstants
  <2> QED BY <2>1, <2>2, <2>3, <2>4, BeginInv
<1>3. ASSUME NEW n \in 1 .. MaxPrompt, PerplexityBegin(n) PROVE GenInv'
  <2>1. PICK x : x = Min({n, GenContext})
    OBVIOUS
  <2>2. n \in Int /\ n >= 2
    BY <1>3, GenerationAssumption DEF PerplexityBegin
  <2>3. x \in 1 .. GenContext
    BY <2>1, <2>2, GenConstants, SmallerOfBoth
  <2>4. PICK q : q = <<[prompt |-> x, max |-> 0]>> /\ DOMAIN q = {1} /\ q[1] = [prompt |-> x, max |-> 0]
    BY OneRequest
  <2>5. Begin("perplexity", "score", q)
    BY <1>3, <2>1, <2>4 DEF PerplexityBegin
  <2>6. {1} \subseteq 1 .. GenMaxBatch
    BY GenConstants
  <2> QED BY <2>3, <2>4, <2>5, <2>6, BeginInv
<1> QED BY <1>1, <1>2, <1>3

\* What the invariant says of one request.
LEMMA RequestTypes ==
  ASSUME GenInv, NEW i \in DOMAIN act
  PROVE  /\ act[i] \in ActiveType /\ i \in DOMAIN reqs
         /\ act[i].fed \in Nat /\ act[i].pos \in Nat /\ act[i].n \in Nat /\ act[i].finish \in Reasons
         /\ reqs[i].prompt \in Nat /\ reqs[i].prompt > 0 /\ reqs[i].prompt <= GenContext
         /\ reqs[i].max \in Int
<1>1. DOMAIN act = DOMAIN reqs /\ act[i] \in ActiveType
  BY DEF GenInv, GenTypeOK
<1>2. reqs[i].prompt \in 1 .. GenContext /\ reqs[i].max \in Int
  BY <1>1 DEF GenInv, GenTypeOK
<1> QED BY <1>1, <1>2, GenConstants DEF ActiveType

LEMMA BatchRoundInv ==
  ASSUME GenInv, BatchRound PROVE GenInv'
<1>1. GenTypeOK /\ CallShape /\ at = "round"
  BY DEF GenInv, BatchRound
<1>2. call = "batch"
  BY <1>1 DEF CallShape, GenTypeOK, Single
<1>3. PICK r, S : /\ S \subseteq Running /\ r \in {"cancelled", "context_full"}
                  /\ act' = [i \in DOMAIN act |-> IF i \in S THEN [act[i] EXCEPT !.finish = r] ELSE act[i]]
                  /\ r = "cancelled" => cancelled
                  /\ r = "context_full" => S = {i \in Running : act[i].pos >= GenContext}
                  /\ \/ at' = "done" /\ members' = {}
                     \/ at' = "round" /\ members' = {}
                     \/ at' = "step" /\ r = "context_full" /\ members' = Running \ S
  <2>1. members = {} /\ act = [i \in DOMAIN act |-> act[i]]
    BY <1>1, <1>2 DEF CallShape, GenTypeOK
  <2>2. CASE Running = {} /\ at' = "done" /\ UNCHANGED <<act, members>>
    BY <2>1, <2>2
  <2>3. CASE /\ Running # {} /\ cancelled /\ at' = "done" /\ UNCHANGED members
             /\ act' = [i \in DOMAIN act |->
                        IF i \in Running THEN [act[i] EXCEPT !.finish = "cancelled"] ELSE act[i]]
    BY <2>1, <2>3
  <2>4. CASE LET full == {i \in Running : act[i].pos >= GenContext} IN
             /\ act' = [i \in DOMAIN act |->
                           IF i \in full THEN [act[i] EXCEPT !.finish = "context_full"] ELSE act[i]]
             /\ members' = Running \ full
             /\ at' = IF Running = full THEN "round" ELSE "step"
    <3>1. PICK full : full = {i \in Running : act[i].pos >= GenContext}
      OBVIOUS
    <3>2. /\ act' = [i \in DOMAIN act |->
                        IF i \in full THEN [act[i] EXCEPT !.finish = "context_full"] ELSE act[i]]
          /\ members' = Running \ full
          /\ at' = IF Running = full THEN "round" ELSE "step"
      BY <2>4, <3>1
    <3>3. full \subseteq Running
      BY <3>1
    <3>4. \/ at' = "round" /\ members' = {}
          \/ at' = "step" /\ members' = Running \ full
      BY <3>2
    <3>5. PICK r : r = "context_full"
      OBVIOUS
    <3>6. /\ full \subseteq Running /\ r \in {"cancelled", "context_full"}
          /\ act' = [i \in DOMAIN act |-> IF i \in full THEN [act[i] EXCEPT !.finish = r] ELSE act[i]]
          /\ r # "cancelled"
      BY <3>2, <3>3, <3>5
    <3> QED BY <3>1, <3>4, <3>5, <3>6
  <2> QED BY <2>2, <2>3, <2>4 DEF BatchRound
<1>4. call' = call /\ reqs' = reqs /\ cancelled' = cancelled /\ own' = own
  BY DEF BatchRound
<1>5. DOMAIN act' = DOMAIN act /\ \A i \in DOMAIN act :
         act'[i] = IF i \in S THEN [act[i] EXCEPT !.finish = r] ELSE act[i]
  BY <1>3
<1>6. ASSUME NEW i \in DOMAIN act
      PROVE  /\ act'[i] \in ActiveType /\ act'[i].fed = act[i].fed /\ act'[i].pos = act[i].pos
             /\ act'[i].n = act[i].n /\ act'[i].finish = IF i \in S THEN r ELSE act[i].finish
  BY <1>3, <1>5, RequestTypes DEF ActiveType, Reasons
<1>7. GenTypeOK'
  <2>1. act' \in [DOMAIN reqs -> ActiveType]
    BY <1>1, <1>3, <1>6 DEF GenTypeOK
  <2>2. members' \subseteq DOMAIN act
    BY <1>3 DEF Running
  <2> QED BY <1>1, <1>4, <1>5, <2>1, <2>2 DEF GenTypeOK
<1>8. ASSUME NEW i \in DOMAIN act PROVE Progress(i)'
  <2>1. Progress(i)
    BY DEF GenInv
  <2>2. act'[i].finish = "none" => act[i].finish = "none" /\ i \notin S
    BY <1>3, <1>6
  <2>3. Due(i)' = Due(i) /\ InPrompt(i)' = InPrompt(i)
    BY <1>4, <1>6 DEF Due, InPrompt
  <2> QED BY <1>1, <1>3, <1>4, <1>6, <2>1, <2>2, <2>3 DEF Progress, Aligned, Wanted
<1>9. ASSUME NEW i \in DOMAIN act PROVE Truthful(act[i], reqs[i], cancelled)'
  <2>1. Progress(i) /\ Truthful(act[i], reqs[i], cancelled)
    BY <1>2 DEF GenInv
  <2>2. CASE i \in S /\ r = "context_full"
    <3>1. act[i].finish = "none" /\ act[i].pos >= GenContext
      BY <1>3, <2>2 DEF Running
    <3>2. act[i].pos = Due(i) /\ act[i].pos = GenContext
      BY <1>1, <2>1, <3>1, RequestTypes, GenConstants DEF Progress, Aligned
    <3>3. ~InPrompt(i)
      BY <3>2, RequestTypes, GenConstants DEF Due, InPrompt
    <3>4. act[i].n < reqs[i].max /\ act[i].n = GenContext - reqs[i].prompt + 1
      BY <1>1, <2>1, <3>1, <3>2, <3>3, RequestTypes, GenConstants DEF Progress, Wanted, Due
    <3> QED BY <1>4, <1>6, <2>1, <2>2, <3>4 DEF Truthful
  <2>3. CASE ~(i \in S /\ r = "context_full")
    BY <1>3, <1>4, <1>6, <2>1, <2>3 DEF Truthful
  <2> QED BY <2>2, <2>3
<1>10. CallShape'
  <2>1. \A i \in DOMAIN act : reqs[i].max >= 0
    BY <1>1, <1>2 DEF CallShape
  <2>2. members' \subseteq Running'
    BY <1>3, <1>5, <1>6 DEF Running
  <2>3. at' = "step" => \A i \in members' : act'[i].pos < GenContext
    <3>1. ASSUME at' = "step", NEW i \in members' PROVE act'[i].pos < GenContext
      <4>1. i \in Running /\ i \in DOMAIN act /\ ~(act[i].pos >= GenContext)
        BY <1>3, <3>1 DEF Running
      <4> QED BY <1>6, <4>1, RequestTypes, GenConstants
    <3> QED BY <3>1
  <2> QED BY <1>2, <1>3, <1>4, <1>5, <2>1, <2>2, <2>3 DEF CallShape, Single
<1> QED BY <1>4, <1>5, <1>7, <1>8, <1>9, <1>10 DEF GenInv

\* What a step leaves of the members' bookkeeping to do.
LEMMA MemberFacts ==
  ASSUME GenInv, NEW i \in members
  PROVE  /\ i \in DOMAIN act /\ act[i].finish = "none" /\ Progress(i)
         /\ Single => i = 1
<1>1. GenTypeOK /\ CallShape
  BY DEF GenInv
<1>2. i \in DOMAIN act
  BY <1>1 DEF GenTypeOK
<1>3. call \in {"batch", "stream", "perplexity"}
  BY <1>1 DEF CallShape, GenTypeOK
<1>4. CASE call = "batch"
  BY <1>1, <1>2, <1>4 DEF CallShape, Running, GenInv, Single
<1>5. CASE Single
  <2>1. i = 1 /\ at \in {"step", "consume"}
    BY <1>1, <1>5 DEF CallShape
  <2>2. act[i].finish = "none"
    BY <1>1, <1>5, <2>1 DEF CallShape
  <2> QED BY <1>2, <2>1, <2>2 DEF GenInv
<1> QED BY <1>3, <1>4, <1>5 DEF Single

LEMMA StepInv ==
  ASSUME GenInv, Step PROVE GenInv'
<1>1. GenTypeOK /\ CallShape /\ at = "step"
  BY DEF GenInv, Step
<1>2. /\ act' = [i \in DOMAIN act |->
                   IF i \in members THEN [act[i] EXCEPT !.pos = @ + 1] ELSE act[i]]
      /\ at' = "consume" /\ call' = call /\ reqs' = reqs /\ members' = members
      /\ cancelled' = cancelled /\ own' = own
  BY DEF Step
<1>3. DOMAIN act' = DOMAIN act
  BY <1>2
<1>4. ASSUME NEW i \in DOMAIN act
      PROVE  /\ act'[i] \in ActiveType /\ act'[i].fed = act[i].fed /\ act'[i].n = act[i].n
             /\ act'[i].finish = act[i].finish
             /\ act'[i].pos = IF i \in members THEN act[i].pos + 1 ELSE act[i].pos
  BY <1>2, RequestTypes DEF ActiveType
<1>5. GenTypeOK'
  <2>1. act' \in [DOMAIN reqs -> ActiveType]
    BY <1>1, <1>2, <1>4 DEF GenTypeOK
  <2> QED BY <1>1, <1>2, <1>3, <2>1 DEF GenTypeOK
<1>6. ASSUME NEW i \in DOMAIN act PROVE Progress(i)' /\ InPrompt(i)' = InPrompt(i)
  <2>1. Progress(i) /\ Due(i)' = Due(i) /\ InPrompt(i)' = InPrompt(i)
    BY <1>2, <1>4 DEF Due, InPrompt, GenInv
  <2>2. i \in members => act[i].pos < GenContext /\ act[i].finish = "none"
    BY <1>1, MemberFacts DEF CallShape
  <2>3. act'[i].pos <= GenContext
    BY <1>4, <2>1, <2>2, RequestTypes, GenConstants DEF Progress
  <2>4. Due(i) \in Int
    BY RequestTypes DEF Due
  <2> QED BY <1>1, <1>2, <1>4, <2>1, <2>2, <2>3, <2>4 DEF Progress, Aligned, Wanted
<1>7. call \in {"batch", "stream"} =>
        \A i \in DOMAIN act : Truthful(act[i], reqs[i], cancelled)'
  BY <1>2, <1>4 DEF GenInv, Truthful
<1>8. Running' = Running
  BY <1>3, <1>4 DEF Running
<1>9. CallShape'
  BY <1>1, <1>2, <1>3, <1>4, <1>6, <1>8 DEF CallShape, Single
<1> QED BY <1>2, <1>3, <1>5, <1>6, <1>7, <1>9 DEF GenInv

LEMMA BatchConsumeInv ==
  ASSUME GenInv, NEW ended \in SUBSET members, BatchConsume(ended) PROVE GenInv'
<1>1. GenTypeOK /\ CallShape /\ at = "consume" /\ call = "batch"
  BY DEF GenInv, BatchConsume
<1>2. /\ act' = [i \in DOMAIN act |-> IF i \in members THEN After(i, i \in ended) ELSE act[i]]
      /\ at' = "round" /\ call' = call /\ reqs' = reqs /\ members' = {}
      /\ cancelled' = cancelled /\ own' = own
  BY DEF BatchConsume
<1>3. DOMAIN act' = DOMAIN act
  BY <1>2
<1>4. ASSUME NEW i \in members, NEW eos \in BOOLEAN, NEW b, b = After(i, eos)
      PROVE  LET a == act[i]  r == reqs[i] IN
             /\ b \in ActiveType /\ b.pos = a.pos
             /\ b.fed = (IF a.fed < r.prompt THEN a.fed + 1 ELSE a.fed)
             /\ b.fed < r.prompt => b.n = a.n /\ b.finish = "none"
             /\ b.fed = r.prompt =>
                  \/ eos /\ a.n < r.max /\ b.n = a.n /\ b.finish = "eos"
                  \/ a.n < r.max /\ b.n = a.n + 1 /\ b.finish = IF b.n >= r.max THEN "length" ELSE "none"
                  \/ a.n >= r.max /\ b.n = a.n /\ b.finish = "length"
  <2>1. i \in DOMAIN act /\ Progress(i)
    BY <1>4, MemberFacts
  <2>2. PICK a, r : a = act[i] /\ r = reqs[i]
    OBVIOUS
  <2>3. /\ a.fed \in Nat /\ a.pos \in Nat /\ a.n \in Nat /\ r.prompt \in Nat /\ r.max \in Int
        /\ a.fed <= r.prompt
    BY <2>1, <2>2, RequestTypes DEF Progress
  <2>4. PICK f : f = IF a.fed < r.prompt THEN a.fed + 1 ELSE a.fed
    OBVIOUS
  <2>5. f \in Nat /\ f <= r.prompt
    BY <2>3, <2>4
  <2>6. PICK k : k = IF f < r.prompt \/ a.n >= r.max \/ eos THEN a.n ELSE a.n + 1
    OBVIOUS
  <2>7. k \in Nat
    BY <2>3, <2>6
  <2>8. PICK e : e = CASE f < r.prompt -> "none"
                       [] f = r.prompt /\ a.n < r.max /\ eos -> "eos"
                       [] OTHER -> IF k >= r.max THEN "length" ELSE "none"
    OBVIOUS
  <2>9. b = [fed |-> f, pos |-> a.pos, n |-> k, finish |-> e]
    BY <1>4, <2>2, <2>4, <2>6, <2>8 DEF After
  <2>10. /\ f < r.prompt => e = "none" /\ k = a.n
         /\ f = r.prompt => \/ eos /\ a.n < r.max /\ k = a.n /\ e = "eos"
                            \/ a.n < r.max /\ k = a.n + 1 /\ e = IF k >= r.max THEN "length" ELSE "none"
                            \/ a.n >= r.max /\ k = a.n /\ e = "length"
    BY <2>3, <2>5, <2>6, <2>8
  <2>11. e \in Reasons
    <3>1. f < r.prompt \/ f = r.prompt
      BY <2>3, <2>5
    <3> QED BY <2>10, <3>1 DEF Reasons
  <2> QED BY <2>2, <2>3, <2>4, <2>5, <2>7, <2>9, <2>10, <2>11 DEF ActiveType
<1>5. ASSUME NEW i \in members, NEW b, b = act'[i]
      PROVE  /\ b \in ActiveType /\ Progress(i)'
             /\ Truthful(act[i], reqs[i], cancelled)'
  <2>1. PICK eos \in BOOLEAN : b = After(i, eos)
    <3>1. i \in DOMAIN act
      BY <1>1 DEF GenTypeOK
    <3>2. b = After(i, i \in ended)
      BY <1>2, <1>5, <3>1
    <3>3. CASE i \in ended
      <4>1. b = After(i, TRUE)
        BY <3>2, <3>3 DEF After
      <4> QED BY <4>1
    <3>4. CASE i \notin ended
      <4>1. b = After(i, FALSE)
        BY <3>2, <3>4 DEF After
      <4> QED BY <4>1
    <3> QED BY <3>3, <3>4
  <2>2. PICK a, r : a = act[i] /\ r = reqs[i]
    OBVIOUS
  <2>3. /\ b \in ActiveType /\ b.pos = a.pos
        /\ b.fed = (IF a.fed < r.prompt THEN a.fed + 1 ELSE a.fed)
        /\ b.fed < r.prompt => b.n = a.n /\ b.finish = "none"
        /\ b.fed = r.prompt =>
             \/ eos /\ a.n < r.max /\ b.n = a.n /\ b.finish = "eos"
             \/ a.n < r.max /\ b.n = a.n + 1 /\ b.finish = IF b.n >= r.max THEN "length" ELSE "none"
             \/ a.n >= r.max /\ b.n = a.n /\ b.finish = "length"
    BY <1>4, <2>1, <2>2
  <2>4. i \in DOMAIN act /\ a.finish = "none" /\ Progress(i)
    BY <2>2, MemberFacts
  <2>5. /\ a.fed \in Nat /\ a.pos \in Nat /\ a.n \in Nat /\ r.prompt \in Nat /\ r.max \in Int
        /\ r.max >= 0 /\ a.fed <= r.prompt /\ a.pos <= GenContext /\ r.prompt <= GenContext
    BY <1>1, <2>2, <2>4, RequestTypes DEF Progress, CallShape
  <2>6. /\ a.fed < r.prompt => a.n = 0 /\ a.pos = a.fed + 1
        /\ ~(a.fed < r.prompt) => a.n > 0 /\ a.n < r.max /\ a.pos = r.prompt + a.n
    <3>1. a.pos = Due(i) + 1
      BY <1>1, <2>2, <2>4, <1>5 DEF Progress, Aligned
    <3>2. Due(i) = IF a.fed < r.prompt THEN a.fed ELSE r.prompt + a.n - 1
      BY <2>2 DEF Due, InPrompt
    <3>3. InPrompt(i) <=> a.fed < r.prompt
      BY <2>2 DEF InPrompt
    <3> QED BY <1>1, <2>2, <2>4, <2>5, <3>1, <3>2, <3>3 DEF Progress, Wanted
  <2>7. b.fed \in Nat /\ b.pos \in Nat /\ b.n \in Nat
    BY <2>3 DEF ActiveType
  <2>8. b.fed <= r.prompt /\ b.pos <= GenContext /\ (b.fed < r.prompt => b.n = 0)
    BY <2>3, <2>5, <2>6
  <2>9. b.finish = "none" => /\ b.fed < r.prompt => b.pos = b.fed
                             /\ ~(b.fed < r.prompt) => b.pos = r.prompt + b.n - 1 /\ b.n > 0 /\ b.n < r.max
    BY <2>3, <2>5, <2>6, <2>8
  <2>10. Progress(i)'
    BY <1>2, <1>5, <2>2, <2>8, <2>9 DEF Progress, Aligned, Due, InPrompt, Wanted
  <2>11. b.n = 0 \/ b.n <= r.max
    BY <2>3, <2>5, <2>6, <2>8
  <2>12. b.n <= GenContext - r.prompt + 1
    BY <2>3, <2>5, <2>6, <2>8, GenConstants
  <2>13. b.finish \in {"none", "length", "eos"}
    BY <2>3, <2>8, <2>7, <2>5
  <2>14. b.finish = "length" => b.n = r.max /\ b.fed = r.prompt
    BY <2>3, <2>5, <2>6, <2>7, <2>8
  <2>15. b.finish = "eos" => b.n < r.max /\ b.n <= GenContext - r.prompt
    BY <2>3, <2>5, <2>6, <2>7, <2>8, GenConstants
  <2>16. Truthful(b, r, cancelled)
    <3>1. b.finish # "context_full" /\ b.finish # "cancelled"
      BY <2>13
    <3> QED BY <2>11, <2>12, <2>14, <2>15, <3>1 DEF Truthful
  <2> QED BY <1>2, <1>5, <2>2, <2>3, <2>10, <2>16 DEF Truthful
<1>6. ASSUME NEW i \in DOMAIN act, i \notin members
      PROVE  act'[i] = act[i] /\ Progress(i)' /\ Truthful(act[i], reqs[i], cancelled)'
  <2>1. act'[i] = act[i] /\ Progress(i) /\ Truthful(act[i], reqs[i], cancelled)
    BY <1>1, <1>2, <1>6 DEF GenInv
  <2> QED BY <1>1, <1>2, <1>6, <2>1 DEF Progress, Truthful, Aligned, Due, InPrompt, Wanted
<1>7. GenTypeOK'
  <2>1. \A i \in DOMAIN act : act'[i] \in ActiveType
    BY <1>5, <1>6, RequestTypes
  <2>2. act' \in [DOMAIN reqs -> ActiveType]
    BY <1>1, <1>2, <2>1 DEF GenTypeOK
  <2> QED BY <1>1, <1>2, <1>3, <2>2 DEF GenTypeOK
<1>8. CallShape'
  BY <1>1, <1>2, <1>3 DEF CallShape, Single
<1> QED BY <1>1, <1>2, <1>3, <1>5, <1>6, <1>7, <1>8 DEF GenInv

\* The one request of the calls that have only one.
LEMMA SingleFacts ==
  ASSUME GenInv, Single
  PROVE  /\ 1 \in DOMAIN act /\ DOMAIN act = {1} /\ at # "idle" /\ call # "none" /\ call # "batch"
         /\ Progress(1) /\ (call = "stream" => Truthful(act[1], reqs[1], cancelled))
<1>1. GenTypeOK /\ CallShape
  BY DEF GenInv
<1>2. DOMAIN act = {1} /\ call # "none" /\ call # "batch" /\ at # "idle"
  BY <1>1 DEF CallShape, Single
<1> QED BY <1>2 DEF GenInv

LEMMA SingleStep ==
  ASSUME GenInv, Single, UNCHANGED <<call, reqs, cancelled, own>>,
         NEW b \in ActiveType, act' = [act EXCEPT ![1] = b], members' \subseteq {1}, at' # "idle",
         Progress(1)', CallShape', call = "stream" => Truthful(b, reqs[1], cancelled)
  PROVE  GenInv'
<1>1. GenTypeOK /\ DOMAIN act = {1} /\ call # "batch"
  BY SingleFacts DEF GenInv
<1>2. act' = [i \in {1} |-> b] /\ DOMAIN act' = {1} /\ act'[1] = b
  BY <1>1 DEF GenTypeOK
<1>3. GenTypeOK'
  BY <1>1, <1>2 DEF GenTypeOK
<1> QED BY <1>1, <1>2, <1>3 DEF GenInv, Single

LEMMA PerplexityIs ==
  ASSUME GenInv, call = "perplexity" PROVE Single /\ at \in {"score", "step", "consume", "done"}
BY DEF GenInv, CallShape, Single

LEMMA PerplexityStepInv ==
  ASSUME GenInv, PerplexityStep PROVE GenInv'
<1>1. GenTypeOK /\ CallShape /\ at = "score"
  BY DEF GenInv, PerplexityStep
<1>2. call = "perplexity" /\ Single
  BY <1>1 DEF CallShape, GenTypeOK, Single
<1>3. 1 \in DOMAIN act /\ DOMAIN act = {1} /\ Progress(1)
  BY <1>2, SingleFacts
<1>4. PICK a, r : a = act[1] /\ r = reqs[1]
  OBVIOUS
<1>5. /\ a \in ActiveType /\ a.fed \in Nat /\ a.pos \in Nat /\ a.n \in Nat
      /\ r.prompt \in Nat /\ r.prompt <= GenContext
  BY <1>3, <1>4, RequestTypes
<1>6. a.finish = "none" /\ a.fed < r.prompt /\ a.pos = a.fed /\ a.n = 0
  BY <1>1, <1>2, <1>3, <1>4 DEF CallShape, Progress, Aligned, Due, InPrompt
<1>7. CASE a.fed + 1 < r.prompt /\ members' = {1} /\ at' = "step" /\ act' = act
  <2>1. act' = [act EXCEPT ![1] = a]
    BY <1>1, <1>4, <1>7 DEF GenTypeOK
  <2>2. Progress(1)'
    BY <1>3, <1>4, <1>6, <1>7 DEF PerplexityStep, Progress, Aligned, Due, InPrompt, Wanted
  <2>3. a.pos < GenContext
    BY <1>5, <1>6, GenConstants
  <2>4. CallShape'
    BY <1>2, <1>3, <1>4, <1>6, <1>7, <2>3 DEF PerplexityStep, CallShape, Single, InPrompt
  <2> QED BY <1>2, <1>5, <1>7, <2>1, <2>2, <2>4, SingleStep DEF PerplexityStep
<1>8. CASE Finish("length")
  <2>1. PICK b : b = [a EXCEPT !.finish = "length"]
    OBVIOUS
  <2>2. /\ b \in ActiveType /\ b.fed = a.fed /\ b.pos = a.pos /\ b.n = a.n /\ b.finish = "length"
        /\ act' = [act EXCEPT ![1] = b] /\ at' = "done" /\ members' = members
    BY <1>4, <1>5, <1>8, <2>1 DEF Finish, ActiveType, Reasons
  <2>3. act'[1] = b /\ DOMAIN act' = {1}
    BY <1>3, <2>2
  <2>4. Progress(1)'
    BY <1>3, <1>4, <1>6, <2>2, <2>3 DEF PerplexityStep, Progress, InPrompt
  <2>5. members = {}
    BY <1>1, <1>2 DEF CallShape
  <2>6. CallShape'
    BY <1>2, <1>4, <1>6, <2>2, <2>3, <2>5 DEF PerplexityStep, CallShape, Single, InPrompt
  <2> QED BY <1>2, <2>2, <2>4, <2>5, <2>6, SingleStep DEF PerplexityStep
<1> QED BY <1>4, <1>7, <1>8 DEF PerplexityStep

LEMMA PerplexityConsumeInv ==
  ASSUME GenInv, PerplexityConsume PROVE GenInv'
<1>1. GenTypeOK /\ CallShape /\ at = "consume" /\ call = "perplexity" /\ Single
  BY DEF GenInv, PerplexityConsume, Single
<1>2. 1 \in DOMAIN act /\ DOMAIN act = {1} /\ Progress(1)
  BY <1>1, SingleFacts
<1>3. PICK a, r : a = act[1] /\ r = reqs[1]
  OBVIOUS
<1>4. /\ a \in ActiveType /\ a.fed \in Nat /\ a.pos \in Nat /\ a.n \in Nat
      /\ r.prompt \in Nat /\ r.prompt <= GenContext
  BY <1>2, <1>3, RequestTypes
<1>5. a.finish = "none" /\ a.fed + 1 < r.prompt /\ a.fed < r.prompt /\ members = {1} /\ a.n = 0
  BY <1>1, <1>2, <1>3, <1>4 DEF CallShape, Progress, InPrompt
<1>6. a.pos = a.fed + 1
  BY <1>1, <1>2, <1>3, <1>5 DEF Progress, Aligned, Due, InPrompt
<1>7. PICK b : b = [a EXCEPT !.fed = @ + 1]
  OBVIOUS
<1>8. /\ b \in ActiveType /\ b.fed = a.fed + 1 /\ b.pos = a.pos /\ b.n = a.n /\ b.finish = a.finish
      /\ act' = [act EXCEPT ![1] = b] /\ at' = "score" /\ members' = {}
  BY <1>3, <1>4, <1>7 DEF PerplexityConsume, ActiveType
<1>9. act'[1] = b /\ DOMAIN act' = {1}
  BY <1>2, <1>8
<1>10. Progress(1)'
  BY <1>2, <1>3, <1>4, <1>5, <1>6, <1>8, <1>9
     DEF PerplexityConsume, Progress, Aligned, Due, InPrompt, Wanted
<1>11. CallShape'
  BY <1>1, <1>3, <1>5, <1>8, <1>9 DEF PerplexityConsume, CallShape, Single, InPrompt
<1> QED BY <1>1, <1>8, <1>10, <1>11, SingleStep DEF PerplexityConsume

LEMMA StreamPrefillInv ==
  ASSUME GenInv, StreamPrefill PROVE GenInv'
<1>1. GenTypeOK /\ CallShape /\ at = "prefill"
  BY DEF GenInv, StreamPrefill
<1>2. call = "stream" /\ Single
  BY <1>1 DEF CallShape, GenTypeOK, Single
<1>3. /\ 1 \in DOMAIN act /\ DOMAIN act = {1} /\ Progress(1)
      /\ Truthful(act[1], reqs[1], cancelled)
  BY <1>2, SingleFacts
<1>4. PICK a, r : a = act[1] /\ r = reqs[1]
  OBVIOUS
<1>5. /\ a \in ActiveType /\ a.fed \in Nat /\ a.pos \in Nat /\ a.n \in Nat
      /\ r.prompt \in Nat /\ r.prompt <= GenContext
  BY <1>3, <1>4, RequestTypes
<1>6. a.finish = "none" /\ a.fed < r.prompt /\ a.pos = a.fed /\ a.n = 0 /\ members = {}
  BY <1>1, <1>2, <1>3, <1>4 DEF CallShape, Progress, Aligned, Due, InPrompt
<1>7. CASE members' = {1} /\ at' = "step" /\ act' = act
  <2>1. act' = [act EXCEPT ![1] = a]
    BY <1>1, <1>4, <1>7 DEF GenTypeOK
  <2>2. Progress(1)'
    BY <1>3, <1>4, <1>6, <1>7 DEF StreamPrefill, Progress, Aligned, Due, InPrompt, Wanted
  <2>3. a.pos < GenContext
    BY <1>5, <1>6, GenConstants
  <2>4. CallShape'
    BY <1>2, <1>3, <1>4, <1>6, <1>7, <2>3 DEF StreamPrefill, CallShape, Single, InPrompt
  <2> QED BY <1>2, <1>3, <1>4, <1>5, <1>7, <2>1, <2>2, <2>4, SingleStep DEF StreamPrefill
<1>8. CASE cancelled /\ Finish("cancelled")
  <2>1. PICK b : b = [a EXCEPT !.finish = "cancelled"]
    OBVIOUS
  <2>2. /\ b \in ActiveType /\ b.fed = a.fed /\ b.pos = a.pos /\ b.n = a.n /\ b.finish = "cancelled"
        /\ act' = [act EXCEPT ![1] = b] /\ at' = "done" /\ members' = members
    BY <1>4, <1>5, <1>8, <2>1 DEF Finish, ActiveType, Reasons
  <2>3. act'[1] = b /\ DOMAIN act' = {1}
    BY <1>3, <2>2
  <2>4. Progress(1)'
    BY <1>3, <1>4, <1>6, <2>2, <2>3 DEF StreamPrefill, Progress, InPrompt
  <2>5. CallShape'
    BY <1>2, <1>6, <2>2, <2>3 DEF StreamPrefill, CallShape, Single
  <2>6. Truthful(b, r, cancelled)
    BY <1>3, <1>4, <1>8, <2>2 DEF Truthful
  <2> QED BY <1>2, <1>4, <1>6, <2>2, <2>4, <2>5, <2>6, SingleStep DEF StreamPrefill
<1> QED BY <1>7, <1>8 DEF StreamPrefill

LEMMA StreamConsumeInv ==
  ASSUME GenInv, StreamConsume PROVE GenInv'
<1>1. GenTypeOK /\ CallShape /\ at = "consume" /\ call = "stream" /\ Single
  BY DEF GenInv, StreamConsume, Single
<1>2. /\ 1 \in DOMAIN act /\ DOMAIN act = {1} /\ Progress(1)
      /\ Truthful(act[1], reqs[1], cancelled)
  BY <1>1, SingleFacts
<1>3. PICK a, r : a = act[1] /\ r = reqs[1]
  OBVIOUS
<1>4. /\ a \in ActiveType /\ a.fed \in Nat /\ a.pos \in Nat /\ a.n \in Nat
      /\ r.prompt \in Nat /\ r.prompt <= GenContext /\ r.max \in Int
  BY <1>2, <1>3, RequestTypes
<1>5. a.finish = "none" /\ members = {1} /\ a.fed <= r.prompt /\ a.pos <= GenContext
  BY <1>1, <1>2, <1>3 DEF CallShape, Progress
<1>6. /\ a.fed < r.prompt => a.n = 0 /\ a.pos = a.fed + 1
      /\ ~(a.fed < r.prompt) => a.n > 0 /\ a.n < r.max /\ a.pos = r.prompt + a.n
  BY <1>1, <1>2, <1>3, <1>4, <1>5 DEF Progress, Aligned, Due, InPrompt, Wanted
<1>7. PICK b : b = [a EXCEPT !.fed = IF a.fed < r.prompt THEN a.fed + 1 ELSE a.fed]
  OBVIOUS
<1>8. /\ b \in ActiveType /\ b.fed = (IF a.fed < r.prompt THEN a.fed + 1 ELSE a.fed)
      /\ b.pos = a.pos /\ b.n = a.n /\ b.finish = "none"
  BY <1>4, <1>5, <1>7 DEF ActiveType
<1>9. act' = [act EXCEPT ![1] = b] /\ members' = {}
  BY <1>3, <1>7 DEF StreamConsume
<1>10. act'[1] = b /\ DOMAIN act' = {1}
  BY <1>2, <1>9
<1>11. at' = IF b.fed < r.prompt THEN "prefill" ELSE "sample"
  BY <1>3, <1>10 DEF StreamConsume
<1>12. /\ b.fed <= r.prompt /\ (b.fed < r.prompt => b.n = 0 /\ b.pos = b.fed)
       /\ ~(b.fed < r.prompt) => b.pos = r.prompt + b.n /\ (b.n = 0 \/ b.n < r.max)
  BY <1>4, <1>5, <1>6, <1>8
<1>13. Progress(1)'
  BY <1>3, <1>4, <1>5, <1>8, <1>9, <1>10, <1>11, <1>12
     DEF StreamConsume, Progress, Aligned, Due, InPrompt, Wanted
<1>14. CallShape'
  BY <1>1, <1>3, <1>8, <1>9, <1>10, <1>11, <1>12 DEF StreamConsume, CallShape, Single, InPrompt
<1>15. Truthful(b, r, cancelled)
  BY <1>2, <1>3, <1>8 DEF Truthful
<1> QED BY <1>1, <1>3, <1>8, <1>9, <1>11, <1>13, <1>14, <1>15, SingleStep DEF StreamConsume

LEMMA StreamSampleInv ==
  ASSUME GenInv, StreamSample PROVE GenInv'
<1>1. GenTypeOK /\ CallShape /\ at = "sample"
  BY DEF GenInv, StreamSample
<1>2. call = "stream" /\ Single
  BY <1>1 DEF CallShape, GenTypeOK, Single
<1>3. /\ 1 \in DOMAIN act /\ DOMAIN act = {1} /\ Progress(1)
      /\ Truthful(act[1], reqs[1], cancelled)
  BY <1>2, SingleFacts
<1>4. PICK a, r : a = act[1] /\ r = reqs[1]
  OBVIOUS
<1>5. /\ a \in ActiveType /\ a.fed \in Nat /\ a.pos \in Nat /\ a.n \in Nat
      /\ r.prompt \in Nat /\ r.prompt <= GenContext /\ r.max \in Int
  BY <1>3, <1>4, RequestTypes
<1>6. a.finish = "none" /\ a.fed = r.prompt /\ members = {} /\ a.pos <= GenContext
  BY <1>1, <1>2, <1>3, <1>4, <1>5 DEF CallShape, Progress, InPrompt
<1>7. a.pos = r.prompt + a.n /\ (a.n = 0 \/ a.n < r.max)
  BY <1>1, <1>3, <1>4, <1>5, <1>6 DEF Progress, Aligned, Due, InPrompt, Wanted
<1>8. ASSUME NEW k \in {a.n, a.n + 1}, NEW f \in Reasons,
             act' = [act EXCEPT ![1].n = k, ![1].finish = f],
             \/ f = "none" /\ at' = "step" /\ members' = {1}
                /\ k = a.n + 1 /\ k < r.max /\ a.pos < GenContext
             \/ f # "none" /\ at' = "done" /\ members' = members,
             Truthful([a EXCEPT !.n = k, !.finish = f], r, cancelled)
      PROVE  GenInv'
  <2>1. PICK b : b = [a EXCEPT !.n = k, !.finish = f]
    OBVIOUS
  <2>2. b \in ActiveType /\ b.fed = a.fed /\ b.pos = a.pos /\ b.n = k /\ b.finish = f
    <3>1. k \in Nat
      BY <1>5, <1>8
    <3> QED BY <1>5, <1>8, <2>1, <3>1 DEF ActiveType
  <2>3. act' = [act EXCEPT ![1] = b]
    BY <1>3, <1>4, <1>8, <2>1
  <2>4. act'[1] = b /\ DOMAIN act' = {1}
    BY <1>3, <2>3
  <2>5. Progress(1)'
    BY <1>4, <1>5, <1>6, <1>7, <1>8, <2>2, <2>4
       DEF StreamSample, Progress, Aligned, Due, InPrompt, Wanted
  <2>6. CallShape'
    BY <1>2, <1>4, <1>6, <1>8, <2>2, <2>4 DEF StreamSample, CallShape, Single, InPrompt
  <2>7. members' \subseteq {1} /\ at' # "idle"
    BY <1>6, <1>8
  <2>8. Truthful(b, r, cancelled) /\ UNCHANGED <<call, reqs, cancelled, own>>
    BY <1>8, <2>1 DEF StreamSample
  <2> QED BY <1>2, <1>4, <2>2, <2>3, <2>5, <2>6, <2>7, <2>8, SingleStep
<1>9. ASSUME NEW k \in {a.n, a.n + 1}, NEW f \in Reasons,
             k = 0 \/ k <= r.max, k <= GenContext - r.prompt + 1,
             f = "length" => k = r.max \/ (k = 0 /\ r.max <= 0),
             f = "eos" => k < r.max /\ k <= GenContext - r.prompt,
             f = "context_full" => k < r.max /\ k = GenContext - r.prompt + 1,
             f = "cancelled" => cancelled
      PROVE  Truthful([a EXCEPT !.n = k, !.finish = f], r, cancelled)
  <2>1. PICK b : b = [a EXCEPT !.n = k, !.finish = f]
    OBVIOUS
  <2>2. b.fed = r.prompt /\ b.n = k /\ b.finish = f
    BY <1>5, <1>6, <2>1 DEF ActiveType
  <2> QED BY <1>9, <2>1, <2>2 DEF Truthful
<1>10. ASSUME NEW f, Finish(f)
       PROVE  act' = [act EXCEPT ![1].n = a.n, ![1].finish = f] /\ at' = "done" /\ members' = members
  <2>1. act' = [act EXCEPT ![1] = [a EXCEPT !.finish = f]]
    BY <1>4, <1>10 DEF Finish
  <2>2. [a EXCEPT !.finish = f] = [a EXCEPT !.n = a.n, !.finish = f]
    BY <1>5 DEF ActiveType
  <2> QED BY <1>3, <1>4, <1>10, <2>1, <2>2 DEF Finish
<1>11. ASSUME NEW f, act' = [act EXCEPT ![1].n = @ + 1, ![1].finish = f]
       PROVE  act' = [act EXCEPT ![1].n = a.n + 1, ![1].finish = f]
  BY <1>4, <1>11
<1>12. {"length", "cancelled", "eos", "stopped", "context_full", "none"} \subseteq Reasons
  BY DEF Reasons
<1>13. a.n <= GenContext - r.prompt
  BY <1>5, <1>6, <1>7, GenConstants
<1>14. ASSUME NEW f \in Reasons,
              f = "length" => a.n = 0 /\ r.max <= 0,
              f = "eos" => a.n < r.max,
              f # "context_full", f = "cancelled" => cancelled
       PROVE  Truthful([a EXCEPT !.n = a.n, !.finish = f], r, cancelled)
  <2>1. PICK k : k = a.n
    OBVIOUS
  <2>2. (k = 0 \/ k <= r.max) /\ k <= GenContext - r.prompt + 1 /\ k \in Nat
    BY <1>5, <1>7, <1>13, <2>1, GenConstants
  <2>3. f = "length" => k = 0 /\ r.max <= 0
    BY <1>14, <2>1
  <2>4. f = "eos" => k < r.max /\ k <= GenContext - r.prompt
    BY <1>13, <1>14, <2>1
  <2>5. Truthful([a EXCEPT !.n = k, !.finish = f], r, cancelled)
    BY <1>9, <1>14, <2>1, <2>2, <2>3, <2>4
  <2> QED BY <2>1, <2>5
<1>15. CASE a.n >= r.max /\ Finish("length")
  <2>1. a.n = 0 /\ r.max <= 0
    BY <1>5, <1>7, <1>15
  <2>2. Truthful([a EXCEPT !.n = a.n, !.finish = "length"], r, cancelled)
    BY <1>12, <1>14, <2>1
  <2> QED BY <1>8, <1>10, <1>12, <1>15, <2>2
<1>16. CASE a.n < r.max /\ cancelled /\ Finish("cancelled")
  <2>1. Truthful([a EXCEPT !.n = a.n, !.finish = "cancelled"], r, cancelled)
    BY <1>12, <1>16, <1>14
  <2> QED BY <1>8, <1>10, <1>12, <1>16, <2>1
<1>17. CASE a.n < r.max /\ Finish("eos")
  <2>1. Truthful([a EXCEPT !.n = a.n, !.finish = "eos"], r, cancelled)
    BY <1>12, <1>17, <1>14
  <2> QED BY <1>8, <1>10, <1>12, <1>17, <2>1
<1>18. ASSUME a.n < r.max, NEW f \in {"stopped", "length", "context_full", "none"},
              act' = [act EXCEPT ![1].n = @ + 1, ![1].finish = f],
              f = "length" => a.n + 1 >= r.max,
              f \in {"context_full", "none"} => a.n + 1 < r.max,
              f = "context_full" => a.pos >= GenContext,
              IF f = "none" THEN at' = "step" /\ members' = {1} /\ a.pos < GenContext
                            ELSE at' = "done" /\ members' = members
       PROVE  GenInv'
  <2>1. PICK k : k = a.n + 1
    OBVIOUS
  <2>2. k \in Nat /\ k <= r.max /\ k <= GenContext - r.prompt + 1
    BY <1>5, <1>13, <1>18, <2>1, GenConstants
  <2>3. f = "length" => k = r.max
    BY <1>5, <1>18, <2>1
  <2>4. f = "context_full" => k < r.max /\ k = GenContext - r.prompt + 1
    BY <1>5, <1>6, <1>7, <1>18, <2>1, GenConstants
  <2>5. f # "eos" /\ f # "cancelled" /\ f \in Reasons
    BY <1>12, <1>18
  <2>6. Truthful([a EXCEPT !.n = k, !.finish = f], r, cancelled)
    BY <1>9, <2>1, <2>2, <2>3, <2>4, <2>5
  <2>7. act' = [act EXCEPT ![1].n = k, ![1].finish = f]
    BY <1>11, <1>18, <2>1
  <2> QED BY <1>8, <1>18, <2>1, <2>5, <2>6, <2>7
<1>19. ASSUME NEW f \in {"stopped", "length", "context_full", "none"},
              act' = [act EXCEPT ![1].n = @ + 1, ![1].finish = f],
              \/ f = "stopped" /\ a.n < r.max
              \/ f = "length" /\ a.n < r.max /\ a.n + 1 >= r.max
              \/ f = "context_full" /\ a.n + 1 < r.max /\ a.pos >= GenContext
              \/ f = "none" /\ a.n + 1 < r.max /\ a.pos < GenContext,
              IF f = "none" THEN at' = "step" /\ members' = {1}
                            ELSE at' = "done" /\ members' = members
       PROVE  GenInv'
  <2>1. a.n < r.max
    BY <1>5, <1>19
  <2> QED BY <1>18, <1>19, <2>1
<1>20. \/ a.n >= r.max /\ Finish("length")
       \/ a.n < r.max /\ cancelled /\ Finish("cancelled")
       \/ a.n < r.max /\ Finish("eos")
       \/ \E f \in {"stopped", "length", "context_full", "none"} :
             /\ act' = [act EXCEPT ![1].n = @ + 1, ![1].finish = f]
             /\ \/ f = "stopped" /\ a.n < r.max
                \/ f = "length" /\ a.n < r.max /\ a.n + 1 >= r.max
                \/ f = "context_full" /\ a.n + 1 < r.max /\ a.pos >= GenContext
                \/ f = "none" /\ a.n + 1 < r.max /\ a.pos < GenContext
             /\ IF f = "none" THEN at' = "step" /\ members' = {1}
                              ELSE at' = "done" /\ members' = members
  BY <1>4, Zenon DEF StreamSample
<1> QED BY <1>15, <1>16, <1>17, <1>19, <1>20

\* A call that returns or throws leaves nothing behind.
LEMMA ResetInv ==
  ASSUME GenInv, Reset PROVE GenInv'
<1>1. /\ call' = "none" /\ at' = "idle" /\ reqs' = <<>> /\ act' = <<>> /\ members' = {}
      /\ cancelled' = FALSE /\ own' = own /\ own \in 0 .. GenContext
  BY DEF Reset, GenInv, GenTypeOK
<1>2. DOMAIN act' = {} /\ DOMAIN reqs' = {} /\ act' \in [DOMAIN reqs' -> ActiveType]
  BY <1>1
<1>3. GenTypeOK'
  BY <1>1, <1>2 DEF GenTypeOK
<1>4. CallShape'
  BY <1>1 DEF CallShape, Single
<1> QED BY <1>1, <1>2, <1>3, <1>4 DEF GenInv

LEMMA CancelInv ==
  ASSUME GenInv, cancel PROVE GenInv'
<1>1. UNCHANGED <<call, at, reqs, act, members, own>> /\ cancelled' = TRUE
  BY DEF cancel
<1>2. GenTypeOK' /\ CallShape'
  BY <1>1 DEF GenInv, GenTypeOK, CallShape, Single, Running, InPrompt
<1>3. \A i \in DOMAIN act : Progress(i)'
  BY <1>1 DEF GenInv, Progress, Aligned, Due, InPrompt, Wanted
<1>4. ASSUME NEW i \in DOMAIN act, call \in {"batch", "stream"}
      PROVE  Truthful(act[i], reqs[i], cancelled)'
  <2>1. Truthful(act[i], reqs[i], cancelled)
    BY <1>4 DEF GenInv
  <2> QED BY <1>1, <2>1 DEF Truthful
<1> QED BY <1>1, <1>2, <1>3, <1>4 DEF GenInv

LEMMA OwnInv ==
  ASSUME GenInv, UNCHANGED <<call, at, reqs, act, members, cancelled>>, own' \in 0 .. GenContext
  PROVE  GenInv'
BY DEF GenInv, GenTypeOK, CallShape, Single, Running, InPrompt, Progress, Aligned, Due, Wanted, Truthful

LEMMA GenStepInv ==
  ASSUME GenInv, [GenNext]_genVars PROVE GenInv'
<1>1. own \in 0 .. GenContext
  BY DEF GenInv, GenTypeOK
<1>2. CASE UNCHANGED genVars
  BY <1>1, <1>2, OwnInv DEF genVars
<1>3. CASE EngineStep
  <2>1. own + 1 \in 0 .. GenContext
    BY <1>1, <1>3, GenConstants DEF EngineStep
  <2> QED BY <1>3, <2>1, OwnInv DEF EngineStep
<1>4. CASE EngineReset
  <2>1. 0 \in 0 .. GenContext
    BY GenConstants
  <2> QED BY <1>4, <2>1, OwnInv DEF EngineReset
<1>5. CASE GenRun
  BY <1>5, BatchRoundInv, BatchConsumeInv, StreamPrefillInv, StreamConsumeInv, StreamSampleInv,
     PerplexityStepInv, PerplexityConsumeInv, StepInv, ResetInv DEF GenRun, Throws, Return
<1> QED BY <1>2, <1>3, <1>4, <1>5, BeginsInv, CancelInv DEF GenNext

\* Each request feeds the tokens of its prompt and then what was generated, in
\* order, each once, and never into a full context.
THEOREM TokensFedInOrder == GenSpec => []FeedsInOrder
<1>1. GenInv => FeedsInOrder
  <2> SUFFICES ASSUME GenInv, at = "step", NEW i \in members
               PROVE  /\ act[i].pos < GenContext
                      /\ act[i].pos = IF act[i].fed < reqs[i].prompt THEN act[i].fed
                                      ELSE reqs[i].prompt + act[i].n - 1
    BY DEF FeedsInOrder
  <2>1. Progress(i) /\ act[i].finish = "none"
    BY MemberFacts
  <2>2. act[i].pos < GenContext
    BY DEF GenInv, CallShape
  <2> QED BY <2>1, <2>2 DEF Progress, Aligned, Due, InPrompt
<1> QED BY <1>1, GenInitInv, GenStepInv, PTL DEF GenSpec

\* The finish reason is the true one, with and without a callback, whatever the
\* prompts, limits and the moment of a cancellation.
THEOREM FinishReasonsTrue == GenSpec => []FinishTruthful
<1>1. GenInv => FinishTruthful
  <2> SUFFICES ASSUME GenInv, call \in {"batch", "stream"}, NEW i \in DOMAIN act
               PROVE  LET a == act[i]  r == reqs[i] IN
                      /\ a.n <= Max({r.max, 0}) /\ a.n <= GenContext - r.prompt + 1
                      /\ a.finish = "length" => a.n = Max({r.max, 0}) /\ a.fed = r.prompt
                      /\ a.finish = "eos" => a.n < r.max /\ a.n <= GenContext - r.prompt
                      /\ a.finish = "context_full" => a.n < r.max /\ a.n = GenContext - r.prompt + 1
                      /\ a.finish = "cancelled" => cancelled
    BY DEF FinishTruthful
  <2>1. Truthful(act[i], reqs[i], cancelled)
    BY DEF GenInv
  <2>2. PICK a, r : a = act[i] /\ r = reqs[i] /\ a.n \in Nat /\ r.max \in Int
    BY RequestTypes
  <2>3. PICK m : m = Max({r.max, 0}) /\ m = IF r.max > 0 THEN r.max ELSE 0
    BY <2>2, LargerOfZero
  <2>4. /\ a.n <= m
        /\ a.finish = "length" => a.n = m
    <3>1. a.n = 0 \/ a.n <= r.max
      BY <2>1, <2>2 DEF Truthful
    <3>2. a.finish = "length" => a.n = r.max \/ (a.n = 0 /\ r.max <= 0)
      BY <2>1, <2>2 DEF Truthful
    <3>3. m \in Nat /\ m >= r.max
      BY <2>2, <2>3
    <3>4. a.n \in Nat
      BY <2>2
    <3>5. a.n <= m
      BY <2>2, <3>1, <3>3, <3>4
    <3>6. a.n = r.max \/ (a.n = 0 /\ r.max <= 0) => a.n = m
      BY <2>2, <2>3, <3>4
    <3> QED BY <3>2, <3>5, <3>6
  <2> QED BY <2>1, <2>2, <2>3, <2>4 DEF Truthful
<1> QED BY <1>1, GenInitInv, GenStepInv, PTL DEF GenSpec

-----------------------------------------------------------------------------
(***************************************************************************)
(* The pool of the default options: each sequence needs at most MaxPages,  *)
(* the one that a step adds included, and there is one for each request.   *)
(***************************************************************************)
LEMMA PoolConstants ==
  /\ MaxPages \in Nat /\ PagesFor(0) = 0
  /\ \A p \in 0 .. GenContext : PagesFor(p) \in Nat /\ PagesFor(p) <= MaxPages
  /\ \A p \in 0 .. GenContext - 1 : p % GenPageTokens = 0 => PagesFor(p) + 1 <= MaxPages
<1>0. GenPageTokens \in Nat \ {0} /\ GenContext \in Nat
  BY GenConstants
<1>1. ASSUME NEW p \in Nat PROVE PagesFor(p) = (p + GenPageTokens - 1) \div GenPageTokens /\ PagesFor(p) \in Nat
  BY <1>0, CeilNext DEF PagesFor
<1>2. MaxPages \in Nat /\ MaxPages = (GenContext + GenPageTokens - 1) \div GenPageTokens
  BY <1>0, CeilNext DEF MaxPages
<1>3. ASSUME NEW p \in 0 .. GenContext PROVE PagesFor(p) \in Nat /\ PagesFor(p) <= MaxPages
  <2>1. p + GenPageTokens - 1 \in Nat /\ GenContext + GenPageTokens - 1 \in Nat
        /\ p + GenPageTokens - 1 <= GenContext + GenPageTokens - 1 /\ p \in Nat
    BY <1>0
  <2> QED BY <1>0, <1>1, <1>2, <2>1, DivMonotone
<1>4. ASSUME NEW p \in 0 .. GenContext - 1, p % GenPageTokens = 0 PROVE PagesFor(p) + 1 <= MaxPages
  <2>1. p \in Nat /\ p + 1 \in 0 .. GenContext
    BY <1>0
  <2>2. PagesFor(p + 1) = PagesFor(p) + 1
    BY <1>0, <1>4, <2>1, CeilNext DEF PagesFor
  <2> QED BY <1>3, <2>1, <2>2
<1>5. PagesFor(0) = 0
  <2>1. 0 \div GenPageTokens = 0 /\ 0 % GenPageTokens = 0
    <3>1. 0 = GenPageTokens * 0 + 0 /\ 0 \in 0 .. GenPageTokens - 1
      BY <1>0
    <3> QED BY <1>0, <3>1, DivUnique
  <2> QED BY <1>0, <2>1, CeilNext DEF PagesFor
<1> QED BY <1>2, <1>3, <1>4, <1>5

\* The sum in UsedPages.
LEMMA UsedIs ==
  ASSUME IsFiniteSet(Holding), own = 0,
         \A i \in Holding : PagesFor(act[i].pos) \in Nat
  PROVE  \E h, f : /\ h = [i \in Holding |-> PagesFor(act[i].pos)]
                   /\ f = Summing(h, Holding, f) /\ UsedPages = PagesFor(0) + f[Holding]
<1> DEFINE h == [i \in Holding |-> PagesFor(act[i].pos)]
           S == Holding
           Body(f) == [s \in SUBSET S |-> IF s = {} THEN 0
                         ELSE PagesFor(act[CHOOSE x \in s : TRUE].pos) + f[s \ {CHOOSE x \in s : TRUE}]]
           iter == CHOOSE f : f = Body(f)
<1>1. UsedPages = PagesFor(own) + iter[S]
  BY DEF UsedPages, MapThenSumSet, MapThenFoldSet
<1>2. ASSUME NEW f PROVE Body(f) = Summing(h, S, f)
  <2>1. ASSUME NEW s \in SUBSET S, s # {} PROVE PagesFor(act[Pick(s)].pos) = h[Pick(s)]
    <3>1. Pick(s) \in S
      BY <2>1, PickIn
    <3> QED BY <3>1
  <2>2. Body(f) = [s \in SUBSET S |-> IF s = {} THEN 0
                         ELSE PagesFor(act[Pick(s)].pos) + f[s \ {Pick(s)}]]
    BY DEF Pick
  <2> HIDE DEF h, Body
  <2> QED BY <2>1, <2>2 DEF Summing
<1> HIDE DEF h
<1>3. \E f : f = Body(f)
  <2>1. PICK f : f = Summing(h, S, f)
    BY SumExists
  <2>2. f = Body(f)
    BY <1>2, <2>1
  <2> HIDE DEF Body
  <2> QED BY <2>2
<1>4. iter = Body(iter)
  <2> HIDE DEF Body
  <2> QED BY <1>3
<1> HIDE DEF iter
<1>5. iter = Summing(h, S, iter)
  BY <1>2, <1>4
<1> QED BY <1>1, <1>5 DEF h

\* Whatever the calls do, the pool of the default options holds a full batch: a step
\* finds the pages it needs as long as the facade keeps no sequence of its own.
THEOREM PoolSuffices == GenSpec => []DefaultPoolSuffices
<1>1. GenInv => DefaultPoolSuffices
  <2> SUFFICES ASSUME GenInv, at = "step", own = 0 PROVE Enough
    BY DEF DefaultPoolSuffices
  <2>1. /\ DOMAIN act \subseteq 1 .. GenMaxBatch /\ members \subseteq DOMAIN act
        /\ \A i \in members : act[i].pos < GenContext
        /\ \A i \in DOMAIN act : act[i].pos \in Nat /\ act[i].pos <= GenContext
    BY RequestTypes DEF GenInv, GenTypeOK, CallShape, Progress
  <2>2. Holding \subseteq DOMAIN act /\ members \subseteq Holding
    BY <2>1, MemberFacts DEF Holding
  <2>3. GenMaxBatch \in Nat /\ GenContext \in Nat /\ MaxPages \in Nat
    BY GenConstants, PoolConstants
  <2>4. /\ IsFiniteSet(1 .. GenMaxBatch) /\ Cardinality(1 .. GenMaxBatch) = GenMaxBatch
    BY <2>3, FS_Interval
  <2>5. IsFiniteSet(Holding) /\ Cardinality(Holding) <= GenMaxBatch /\ Cardinality(Holding) \in Nat
    BY <2>1, <2>2, <2>4, FS_Subset, FS_CardinalityType
  <2>6. \A i \in Holding : /\ PagesFor(act[i].pos) \in Nat /\ PagesFor(act[i].pos) <= MaxPages
                           /\ i \in NewPages => PagesFor(act[i].pos) + 1 <= MaxPages
    <3> SUFFICES ASSUME NEW i \in Holding
                 PROVE  /\ PagesFor(act[i].pos) \in Nat /\ PagesFor(act[i].pos) <= MaxPages
                        /\ i \in NewPages => PagesFor(act[i].pos) + 1 <= MaxPages
      OBVIOUS
    <3>1. PICK p : p = act[i].pos /\ p \in 0 .. GenContext
      BY <2>1, <2>2, <2>3
    <3>2. i \in NewPages => p \in 0 .. GenContext - 1 /\ p % GenPageTokens = 0
      BY <2>1, <2>3, <3>1 DEF NewPages
    <3> QED BY <3>1, <3>2, PoolConstants
  <2>7. PICK h, f : /\ h = [i \in Holding |-> PagesFor(act[i].pos)]
                    /\ f = Summing(h, Holding, f) /\ UsedPages = PagesFor(0) + f[Holding]
    BY <2>5, <2>6, UsedIs
  <2>8. f[Holding] \in Nat
        /\ f[Holding] + Cardinality(Holding \cap NewPages) <= Cardinality(Holding) * MaxPages
    <3>1. \A i \in Holding : h[i] \in Nat /\ h[i] <= MaxPages /\ (i \in NewPages => h[i] + 1 <= MaxPages)
      BY <2>6, <2>7
    <3> QED BY <2>3, <2>5, <2>7, <3>1, SumBound
  <2>9. Holding \cap NewPages = NewPages
    BY <2>2 DEF NewPages
  <2>10. Cardinality(Holding \cap NewPages) = Cardinality(NewPages)
    BY <2>9, Zenon
  <2>11. IsFiniteSet(NewPages) /\ Cardinality(NewPages) \in Nat
    <3>1. NewPages \in SUBSET Holding
      BY <2>2 DEF NewPages
    <3> QED BY <2>5, <3>1, FS_Subset, FS_CardinalityType
  <2>12. PICK c, m, b : c = Cardinality(Holding) /\ m = MaxPages /\ b = GenMaxBatch
    OBVIOUS
  <2>13. c * m <= b * m /\ c * m \in Nat /\ b * m \in Nat
    <3>1. c \in Nat /\ b \in Nat /\ m \in Nat /\ c <= b
      BY <2>3, <2>5, <2>12
    <3> QED BY <3>1, OrderedProducts
  <2>14. UsedPages = f[Holding]
    BY <2>7, <2>8, PoolConstants
  <2> QED BY <2>8, <2>10, <2>11, <2>12, <2>13, <2>14 DEF Enough, PoolPages
<1> QED BY <1>1, GenInitInv, GenStepInv, PTL DEF GenSpec

-----------------------------------------------------------------------------
(***************************************************************************)
(* The errors of device calls, for any list of functions.  An error that   *)
(* waits to be read either was left by a call that has ended, whose        *)
(* function may leave a launch unchecked, or belongs to the call under     *)
(* way: then nothing has asked for errors since its last launch.           *)
(***************************************************************************)
\* The call of f along path p has done n operations.
CallAt(f, p, n) ==
    /\ running = f.name /\ todo = SubSeq(p, n + 1, Len(p))
    /\ unread = running =>
         \/ Unchecked(f)
         \/ \E i \in 1 .. n : /\ p[i].kind = "launch"
                              /\ \A j \in (i + 1) .. n : p[j].kind # "lasterror"

ErrorsInv ==
    /\ running = "idle" => todo = <<>>
    /\ running # "idle" => \E f \in Functions : \E p \in f.paths : \E n \in 0 .. Len(p) : CallAt(f, p, n)
    /\ \/ unread = "none"
       \/ running # "idle" /\ unread = running
       \/ \E f \in Functions : unread = f.name /\ Unchecked(f)

LEMMA CallBeginErrors ==
  ASSUME ErrorsInv, NEW f \in Functions, CallBegin(f)
  PROVE  ErrorsInv'
<1>1. f.name # "idle" /\ running' = f.name /\ running = "idle" /\ unread' = unread
  BY FunctionsAssumption DEF CallBegin
<1>2. PICK p \in f.paths : todo' = p
  BY DEF CallBegin
<1>3. p \in Seq(OperationsOf(p))
  BY FunctionsAssumption
<1>4. Len(p) \in Nat /\ SubSeq(p, 1, Len(p)) = p
  BY <1>3, WholeSequence
<1>5. unread = f.name => Unchecked(f)
  BY <1>1, FunctionsAssumption DEF ErrorsInv
<1>6. CallAt(f, p, 0)' /\ 0 \in 0 .. Len(p)
  BY <1>1, <1>2, <1>4, <1>5 DEF CallAt
<1>7. unread = "none" \/ \E g \in Functions : unread = g.name /\ Unchecked(g)
  BY <1>1 DEF ErrorsInv
<1> QED BY <1>1, <1>6, <1>7 DEF ErrorsInv

\* The operation of a call that comes next.
LEMMA NextOperation ==
  ASSUME NEW f \in Functions, NEW p \in f.paths, NEW n \in 0 .. Len(p), CallAt(f, p, n), todo # <<>>
  PROVE  /\ n \in Nat /\ Len(p) \in Nat /\ DOMAIN p = 1 .. Len(p)
         /\ n + 1 \in 0 .. Len(p) /\ n + 1 \in DOMAIN p
         /\ Head(todo) = p[n + 1] /\ Tail(todo) = SubSeq(p, n + 2, Len(p))
<1>1. p \in Seq(OperationsOf(p))
  BY FunctionsAssumption
<1>2. /\ Len(p) \in Nat /\ DOMAIN p = 1 .. Len(p)
      /\ n + 1 \in 1 .. Len(p) /\ Head(todo) = p[n + 1] /\ Tail(todo) = SubSeq(p, n + 2, Len(p))
  BY <1>1, WorkLeft DEF CallAt
<1> QED BY <1>2

\* A call goes on: it has met no error of its own, or it has just left one.
LEMMA OperationErrors ==
  ASSUME ErrorsInv, Operate \/ LaunchFails
  PROVE  ErrorsInv'
<1>1. todo # <<>> /\ running # "idle" /\ running' = running /\ todo' = Tail(todo)
  BY DEF ErrorsInv, Operate, LaunchFails
<1>2. PICK f \in Functions : \E p \in f.paths : \E n \in 0 .. Len(p) : CallAt(f, p, n)
  BY <1>1 DEF ErrorsInv
<1>0. PICK p \in f.paths : \E n \in 0 .. Len(p) : CallAt(f, p, n)
  BY <1>2
<1>3. PICK n \in 0 .. Len(p) : CallAt(f, p, n)
  BY <1>0
<1>4. /\ n \in Nat /\ n + 1 \in 0 .. Len(p) /\ Head(todo) = p[n + 1]
      /\ todo' = SubSeq(p, (n + 1) + 1, Len(p))
  <2>1. /\ n \in Nat /\ n + 1 \in 0 .. Len(p) /\ Head(todo) = p[n + 1]
        /\ Tail(todo) = SubSeq(p, n + 2, Len(p))
    BY <1>1, <1>3, NextOperation
  <2>2. n + 2 = (n + 1) + 1
    BY <2>1
  <2> QED BY <1>1, <2>1, <2>2
<1>5. CallAt(f, p, n + 1)'
  <2> SUFFICES ASSUME unread' = running, ~Unchecked(f)
               PROVE  \E i \in 1 .. n + 1 : /\ p[i].kind = "launch"
                                            /\ \A j \in (i + 1) .. n + 1 : p[j].kind # "lasterror"
    <3>1. running' = f.name
      BY <1>1, <1>3 DEF CallAt
    <3>2. Unchecked(f)' <=> Unchecked(f)
      BY DEF Unchecked
    <3> QED BY <1>1, <1>4, <3>1, <3>2, Zenon DEF CallAt
  <2>1. CASE Operate
    <3>1. unread = running /\ (Head(todo).kind = "lasterror" => unread = "none")
      BY <2>1 DEF Operate
    <3>2. running # "none"
      BY <1>3, FunctionsAssumption DEF CallAt
    <3>3. PICK i \in 1 .. n : /\ p[i].kind = "launch"
                              /\ \A j \in (i + 1) .. n : p[j].kind # "lasterror"
      BY <1>3, <3>1 DEF CallAt
    <3>4. p[n + 1].kind # "lasterror"
      BY <1>4, <3>1, <3>2
    <3>5. i \in 1 .. n + 1 /\ \A j \in (i + 1) .. n + 1 : p[j].kind # "lasterror"
      BY <1>4, <3>3, <3>4
    <3> QED BY <3>3, <3>5
  <2>2. CASE LaunchFails
    <3>1. p[n + 1].kind = "launch"
      BY <1>4, <2>2 DEF LaunchFails
    <3> QED BY <1>4, <3>1
  <2> QED BY <2>1, <2>2
<1>6. \/ unread' = "none" \/ unread' = running
      \/ \E g \in Functions : unread' = g.name /\ Unchecked(g)
  BY DEF ErrorsInv, Operate, LaunchFails
<1> QED BY <1>1, <1>4, <1>5, <1>6 DEF ErrorsInv, Unchecked

\* A call ends with an error of its own unread only if its function may leave a
\* launch unchecked: it has done its last operation, or a check throws that does
\* not ask for errors.
LEMMA OwnErrorStays ==
  ASSUME NEW f \in Functions, NEW p \in f.paths, NEW n \in 0 .. Len(p), CallAt(f, p, n),
         unread = running,
         todo = <<>> \/ Head(todo).kind \in {"require", "needs"}
  PROVE  Unchecked(f)
<1>1. p \in Seq(OperationsOf(p))
  BY FunctionsAssumption
<1>2. /\ \/ n = Len(p)
         \/ n + 1 \in 1 .. Len(p) /\ p[n + 1].kind \in {"require", "needs"}
      /\ Len(p) \in Nat
  BY <1>1, WorkLeft DEF CallAt
<1>3. DOMAIN p = 1 .. Len(p)
  BY <1>1
<1>4. SUFFICES ASSUME NEW i \in 1 .. n, p[i].kind = "launch",
                      \A j \in (i + 1) .. n : p[j].kind # "lasterror"
               PROVE  Unchecked(f)
  BY DEF CallAt
<1>5. i \in DOMAIN p
  <2>1. i \in 1 .. Len(p)
    BY <1>2
  <2> QED BY <1>3, <2>1
<1>6. ASSUME NEW j \in DOMAIN p, j > i, p[j].kind = "lasterror"
      PROVE  \E k \in i .. j : p[k].kind \in {"require", "needs"}
  <2>0. j \in 1 .. Len(p)
    BY <1>3
  <2>1. j > n /\ n + 1 \in i .. j /\ n # Len(p)
    BY <1>2, <1>4, <1>6, <2>0
  <2> QED BY <1>2, <2>1
<1> QED BY <1>4, <1>5, <1>6 DEF Unchecked

LEMMA CallEndErrors ==
  ASSUME ErrorsInv, FunctionThrows \/ FunctionReturns
  PROVE  ErrorsInv'
<1>1. running # "idle" /\ running' = "idle" /\ todo' = <<>>
  BY DEF ErrorsInv, FunctionThrows, FunctionReturns, Leave
<1>2. CASE unread' = "none"
  BY <1>1, <1>2 DEF ErrorsInv
<1>3. CASE unread' # "none"
  <2>1. unread' = unread /\ (todo = <<>> \/ Head(todo).kind \in {"require", "needs"})
    BY <1>3 DEF FunctionThrows, FunctionReturns, ConsumeError
  <2>2. CASE unread = running
    <3>1. PICK f \in Functions : \E p \in f.paths : \E n \in 0 .. Len(p) : CallAt(f, p, n)
      BY <1>1 DEF ErrorsInv
    <3>2. Unchecked(f) /\ unread = f.name
      BY <2>1, <2>2, <3>1, OwnErrorStays DEF CallAt
    <3> QED BY <1>1, <2>1, <3>2 DEF ErrorsInv, Unchecked
  <2>3. CASE unread # running
    BY <1>1, <1>3, <2>1, <2>3 DEF ErrorsInv, Unchecked
  <2> QED BY <2>2, <2>3
<1> QED BY <1>2, <1>3

\* Whatever calls the functions of the program consist of, and whichever of them
\* fail: an error that nobody has read when a call ends was left by a function
\* that may leave a launch unchecked.  CU_CHECK and check_kernel suffice for that,
\* because a check reads the error that it throws for.
THEOREM ErrorsFindTheirCause == DeviceSpec => []ErrorsAttributed
<1>1. DeviceInit => ErrorsInv
  <2> SUFFICES ASSUME DeviceInit PROVE ErrorsInv
    OBVIOUS
  <2>1. running = "idle" /\ todo = <<>> /\ unread = "none"
    BY DEF DeviceInit
  <2> QED BY <2>1 DEF ErrorsInv
<1>2. ErrorsInv /\ [DeviceNext]_deviceVars => ErrorsInv'
  <2>1. ErrorsInv /\ DeviceNext => ErrorsInv'
    BY CallBeginErrors, OperationErrors, CallEndErrors DEF DeviceNext
  <2>2. ErrorsInv /\ UNCHANGED deviceVars => ErrorsInv'
    BY DEF ErrorsInv, deviceVars, CallAt, Unchecked
  <2> QED BY <2>1, <2>2
<1>3. ErrorsInv => ErrorsAttributed
  <2> SUFFICES ASSUME ErrorsInv, running = "idle", unread # "none" PROVE Unchecked(Fn[unread])
    BY DEF ErrorsAttributed
  <2>1. PICK f \in Functions : unread = f.name /\ Unchecked(f)
    BY DEF ErrorsInv
  <2>2. Fn[unread] = f
    BY <2>1, FunctionsAssumption DEF Fn
  <2> QED BY <2>1, <2>2
<1> QED BY <1>1, <1>2, <1>3, PTL DEF DeviceSpec
=============================================================================
