--------------------------- MODULE FenceHandshake ---------------------------
(***************************************************************************)
(* k_producer_consumer of 15-warp-primitives: block 0 writes a payload and *)
(* raises a flag, block 1 spins on the flag, checks the payload and        *)
(* acknowledges, for a number of rounds.  Device memory is weakly ordered: *)
(* stores wait in a buffer and become visible in any order (in order at    *)
(* one address), and a block may load ahead of the loads that come before. *)
(* __threadfence waits for the stores and forgets what was loaded ahead.   *)
(***************************************************************************)
EXTENDS Integers, Sequences

CONSTANTS Lanes,       \* the words of the payload, one per lane
          Iterations   \* rounds of the handshake
ASSUME IterationsAssumption == Iterations \in Nat
ASSUME LanesAssumption == "flag" \notin Lanes /\ "ack" \notin Lanes

VARIABLES
    fenced,    \* use_fence, chosen by the caller
    visible,   \* what device memory holds, by address
    buffer,    \* stores on their way to it, by address
    ahead,     \* payload words that the consumer has loaded ahead
    prod,      \* block 0: [pc, it]
    cons,      \* block 1: [pc, it, left to read, bad]
    torn       \* rounds in which the consumer met a wrong word
fenceVars == <<fenced, visible, buffer, ahead, prod, cons, torn>>

Addresses == Lanes \cup {"flag", "ack"}
NotLoaded == -1

FenceInit ==
    /\ fenced = FALSE /\ torn = 0
    /\ visible = [a \in Addresses |-> 0] /\ buffer = [a \in Addresses |-> <<>>]
    /\ ahead = [l \in Lanes |-> NotLoaded]
    /\ prod = [pc |-> "idle", it |-> 0]
    /\ cons = [pc |-> "idle", it |-> 0, left |-> {}, bad |-> FALSE]

HandshakeBegin ==
    /\ prod.pc = "idle"
    /\ fenced' \in BOOLEAN
    /\ prod' = [prod EXCEPT !.pc = "write"] /\ cons' = [cons EXCEPT !.pc = "spin"]
    /\ UNCHANGED <<visible, buffer, ahead, torn>>

Issue(b, a, v) == [b EXCEPT ![a] = Append(@, v)]

(* Block 0 *)
WritePayload ==
    /\ prod.pc = "write" /\ prod.it < Iterations
    /\ buffer' = [a \in Addresses |->
                    IF a \in Lanes THEN Append(buffer[a], prod.it + 1) ELSE buffer[a]]
    /\ prod' = [prod EXCEPT !.pc = "publish"]
    /\ UNCHANGED <<fenced, visible, ahead, cons, torn>>
PayloadVisible == \A l \in Lanes : buffer[l] = <<>>
\* Mutant: the producer forgets its fence.
RaiseFlagUnfenced ==
    /\ prod.pc = "publish"
    /\ buffer' = Issue(buffer, "flag", prod.it + 1)
    /\ prod' = [prod EXCEPT !.pc = "wait"]
    /\ UNCHANGED <<fenced, visible, ahead, cons, torn>>
RaiseFlag ==
    /\ prod.pc = "publish"
    /\ fenced => PayloadVisible
    /\ buffer' = Issue(buffer, "flag", prod.it + 1)
    /\ prod' = [prod EXCEPT !.pc = "wait"]
    /\ UNCHANGED <<fenced, visible, ahead, cons, torn>>
SeeAck ==
    /\ prod.pc = "wait" /\ visible["ack"] = prod.it + 1
    /\ prod' = [pc |-> "write", it |-> prod.it + 1]
    /\ UNCHANGED <<fenced, visible, buffer, ahead, cons, torn>>

(* Block 1 *)
LoadAhead(l) ==
    /\ cons.pc = "spin" /\ cons.it < Iterations /\ ahead[l] = NotLoaded
    /\ ahead' = [ahead EXCEPT ![l] = visible[l]]
    /\ UNCHANGED <<fenced, visible, buffer, prod, cons, torn>>
SeeFlag ==
    /\ cons.pc = "spin" /\ cons.it < Iterations /\ visible["flag"] = cons.it + 1
    /\ ahead' = IF fenced THEN [l \in Lanes |-> NotLoaded] ELSE ahead
    /\ cons' = [cons EXCEPT !.pc = "read", !.left = Lanes, !.bad = FALSE]
    /\ UNCHANGED <<fenced, visible, buffer, prod, torn>>
ReadWord(l) ==
    /\ cons.pc = "read" /\ l \in cons.left
    /\ LET word == IF ahead[l] = NotLoaded THEN visible[l] ELSE ahead[l]
       IN cons' = [cons EXCEPT !.left = @ \ {l}, !.bad = @ \/ word # cons.it + 1]
    /\ ahead' = [ahead EXCEPT ![l] = NotLoaded]
    /\ UNCHANGED <<fenced, visible, buffer, prod, torn>>
Acknowledge ==
    /\ cons.pc = "read" /\ cons.left = {}
    /\ torn' = IF cons.bad THEN torn + 1 ELSE torn
    /\ buffer' = Issue(buffer, "ack", cons.it + 1)
    /\ cons' = [cons EXCEPT !.pc = "spin", !.it = @ + 1]
    /\ UNCHANGED <<fenced, visible, ahead, prod>>

Drain(a) ==
    /\ buffer[a] # <<>>
    /\ visible' = [visible EXCEPT ![a] = Head(buffer[a])]
    /\ buffer' = [buffer EXCEPT ![a] = Tail(@)]
    /\ UNCHANGED <<fenced, ahead, prod, cons, torn>>

ProducerStep == WritePayload \/ RaiseFlag \/ SeeAck
ConsumerStep == SeeFlag \/ (\E l \in Lanes : ReadWord(l)) \/ Acknowledge
FenceNext ==
    \/ HandshakeBegin \/ ProducerStep \/ ConsumerStep
    \/ \E l \in Lanes : LoadAhead(l)
    \/ \E a \in Addresses : Drain(a)
FenceSpec == FenceInit /\ [][FenceNext]_fenceVars
\* Both blocks are resident, and stores become visible in the end.
FenceFairness ==
    /\ WF_fenceVars(ProducerStep) /\ WF_fenceVars(ConsumerStep)
    /\ \A a \in Addresses : WF_fenceVars(Drain(a))

-----------------------------------------------------------------------------
\* With the fences the consumer never checks a payload of another round, in any
\* order in which the stores of both blocks become visible.
FencedIsNeverTorn == fenced => torn = 0 /\ ~cons.bad

HandshakeOver == prod.it = Iterations /\ cons.it = Iterations
=============================================================================
