--------------------------- MODULE MCImageStreams ---------------------------
(* Bounds of the run of the staging slots of the preprocessor. *)
EXTENDS ImageStreams
StagingInit == StreamsInit
StagingNext == StreamsNext
StagingSpec == StagingInit /\ [][StagingNext]_streamVars
=============================================================================
