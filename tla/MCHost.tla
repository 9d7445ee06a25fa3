------------------------------- MODULE MCHost -------------------------------
(* Bounds of the run of the components that callers meet: the request loops, *)
(* the hash table, the device calls of every library, the streams of the     *)
(* preprocessor, the inverted lists, the tokenizer and the model file.  They *)
(* share nothing; a behaviour is one of either.                              *)
EXTENDS DynamicBatcher, Generation, MCGpuHashTable, ComputeCalls, ImageStreams,
        IvfIndex, BpeMerge, GgufLayout

NewTokens == {-1, 0, 1, 3}

\* Characters 1 and 2, the blank 8 and the control token 9; 0 is the mark that
\* stands for a blank.  Rules of all ranks overlap, and one is for pieces that
\* no merge produces.
SomeTexts == UNION {[1..n -> {1, 2, 8, 9}] : n \in 0..3} \cup [1..4 -> {1, 2, 9}]
             \cup [1..5 -> {1, 2}] \cup [1..6 -> {1}]
SomeMerges == << << <<1>>, <<2>> >>, << <<1>>, <<1>> >>, << <<1, 1>>, <<1, 1>> >>,
                 << <<2>>, <<1, 2>> >>, << <<0>>, <<1, 1>> >>, << <<1>>, <<1, 1>> >> >>
SomeVocabulary ==
    <<0>> :> 0 @@ <<1>> :> 0 @@ <<1, 1>> :> 1 @@ <<1, 1, 1>> :> 2 @@ <<1, 2>> :> 1
    @@ <<2, 1>> :> 1 @@ <<0, 1, 1>> :> 1 @@ <<1, 1, 1, 1>> :> 0

VARIABLE part
hostPartVars == <<part, batcherVars, genVars, vars, deviceVars, streamVars, ivfVars, bpeVars, ggufVars>>

HostInit ==
    /\ part \in {"batcher", "generation", "hash", "device", "streams", "ivf", "bpe", "gguf"}
    /\ BatcherInit /\ GenInit /\ DeviceInit /\ StreamsInit /\ IvfInit /\ BpeInit /\ GgufInit
    /\ Init /\ (part # "hash" => probe = "Linear")

HostNext ==
    /\ UNCHANGED part
    /\ \/ /\ part = "batcher" /\ BatcherNext
          /\ UNCHANGED <<genVars, vars, deviceVars, streamVars, ivfVars, bpeVars, ggufVars>>
       \/ /\ part = "generation" /\ GenNext
          /\ UNCHANGED <<batcherVars, vars, deviceVars, streamVars, ivfVars, bpeVars, ggufVars>>
       \/ /\ part = "hash" /\ Next
          /\ UNCHANGED <<batcherVars, genVars, deviceVars, streamVars, ivfVars, bpeVars, ggufVars>>
       \/ /\ part = "device" /\ DeviceNext
          /\ UNCHANGED <<batcherVars, genVars, vars, streamVars, ivfVars, bpeVars, ggufVars>>
       \/ /\ part = "streams" /\ StreamsNext
          /\ UNCHANGED <<batcherVars, genVars, vars, deviceVars, ivfVars, bpeVars, ggufVars>>
       \/ /\ part = "ivf" /\ IvfNext
          /\ UNCHANGED <<batcherVars, genVars, vars, deviceVars, streamVars, bpeVars, ggufVars>>
       \/ /\ part = "bpe" /\ BpeNext
          /\ UNCHANGED <<batcherVars, genVars, vars, deviceVars, streamVars, ivfVars, ggufVars>>
       \/ /\ part = "gguf" /\ GgufNext
          /\ UNCHANGED <<batcherVars, genVars, vars, deviceVars, streamVars, ivfVars, bpeVars>>
\* A part that does not run has no fair action enabled.
HostSpec ==
    /\ HostInit /\ [][HostNext]_hostPartVars
    /\ BatcherFairness /\ GenFairness /\ Fairness

\* Every call returns: drain() joins a worker that sees the flag whatever it was
\* doing, the generation loops end or throw, and the threads of insert() do not
\* chase each other or an evicted entry for ever.
InCall == owner = "joining" \/ at # "idle" \/ ~Idle
HostReturns == InCall ~> ~InCall
=============================================================================
