---------------------------- MODULE KvSequences ----------------------------
(***************************************************************************)
(* What a paged, copy-on-write KV cache promises: every sequence behaves   *)
(* as if it owned a private list of tokens.  A step appends one token to   *)
(* each member of a batch or changes nothing; a fork starts as a copy; no  *)
(* operation on one sequence is visible in another.  There are no pages    *)
(* here: that is what the detailed specifications add.                     *)
(***************************************************************************)
EXTENDS Integers, Sequences

CONSTANTS
    SeqIds,     \* handles of sequences
    Tokens,     \* what a position of a sequence can hold
    Absent      \* the content of a handle that names no live sequence

VARIABLE content    \* content[s]: the tokens sequence s holds, or Absent

Live == {s \in SeqIds : content[s] # Absent}

KvInit == content = [s \in SeqIds |-> Absent]

Create(s) ==
    /\ s \notin Live
    /\ content' = [content EXCEPT ![s] = <<>>]

ForkOf(s, child) ==
    /\ s \in Live
    /\ child \notin Live
    /\ content' = [content EXCEPT ![child] = content[s]]

Truncated(s, n) ==
    /\ s \in Live
    /\ content' = [content EXCEPT ![s] = SubSeq(@, 1, n)]

Drop(s) ==
    /\ s \in Live
    /\ content' = [content EXCEPT ![s] = Absent]

\* One token for each member of some batch, all in one step.
Grown(s) == s \in Live /\ \E tok \in Tokens : content'[s] = Append(content[s], tok)
AppendAll ==
    /\ DOMAIN content' = SeqIds
    /\ \A s \in SeqIds : content'[s] = content[s] \/ Grown(s)

KvNext ==
    \/ AppendAll
    \/ \E s \in SeqIds : Create(s) \/ Drop(s)
    \/ \E s, child \in SeqIds : ForkOf(s, child)
    \/ \E s \in Live : \E n \in 0 .. Len(content[s]) : Truncated(s, n)

KvSpec == KvInit /\ [][KvNext]_content
=============================================================================
