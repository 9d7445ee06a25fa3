---------------------------- MODULE MCLlmRuntime ----------------------------
(* Bounds of the runs of LlmRuntime. *)
EXTENDS LlmRuntime, TLC
CONSTANTS t1, t2, s1, s2, s3, a, b
OneThread == {t1}
TwoThreads == {t1, t2}
TwoSeqs == {s1, s2}
ThreeSeqs == {s1, s2, s3}
OneToken == {a}
TwoTokens == {a, b}

\* Threads, handles and token ids are interchangeable: no action and no
\* property of a run tells two of them apart.
Interchangeable ==
    Permutations(Threads) \cup Permutations(SeqIds) \cup Permutations(Tokens)
=============================================================================
