---------------------------- MODULE ImageStreams ----------------------------
(***************************************************************************)
(* Preprocessor::process of 02-image-embed: images go round-robin to       *)
(* streams.  The host stages an image in the pinned slot of its stream and *)
(* queues upload, kernel and download; the device takes the queue of each  *)
(* stream in order, at its own speed.  An image is its index in the batch; *)
(* what a buffer holds is the image it came from.                          *)
(***************************************************************************)
EXTENDS Integers, Sequences

CONSTANTS
    NumStreams,   \* num_streams, 4 by default
    MaxBatch,     \* max_batch
    ImageBytes    \* sizes of images
ASSUME StreamsAssumption == {NumStreams, MaxBatch} \subseteq Nat \ {0} /\ ImageBytes \subseteq Nat \ {0}

Streams == 0..(NumStreams - 1)
NoImage == -1
Resting == -1

VARIABLES
    batch,       \* the sizes of the images of the call
    nextImage,   \* the image the host submits next; behind the last one it waits; or Resting
    d_src_cap,   \* by stream: bytes of the upload buffer
    stage,       \* by stream: the image in the pinned slot
    d_src,       \* by stream: the image in the upload buffer
    queue,       \* by stream: [op, image] to be done by the device
    d_dst,       \* by image: the image its result was computed from
    h_pinned,    \* by image: likewise, as downloaded
    returned     \* what process() returned last
streamVars == <<batch, nextImage, d_src_cap, stage, d_src, queue, d_dst, h_pinned, returned>>

\* Mutant: every image is staged in the first slot.
SlotFirst(i) == 0
SlotOf(i) == i % NumStreams
StreamsIdle == \A s \in Streams : queue[s] = <<>>

StreamsInit ==
    /\ batch = <<>> /\ nextImage = Resting /\ returned = <<>>
    /\ d_src_cap = [s \in Streams |-> 0]
    /\ stage = [s \in Streams |-> NoImage] /\ d_src = [s \in Streams |-> NoImage]
    /\ queue = [s \in Streams |-> <<>>]
    /\ d_dst = <<>> /\ h_pinned = <<>>

\* process() of an empty batch returns at once and is left out.
ProcessBegin ==
    /\ nextImage = Resting
    /\ \E n \in 1..MaxBatch : \E sizes \in [0..(n - 1) -> ImageBytes] : batch' = sizes
    /\ nextImage' = 0 /\ returned' = <<>>
    /\ d_dst' = [i \in DOMAIN batch' |-> NoImage] /\ h_pinned' = [i \in DOMAIN batch' |-> NoImage]
    /\ UNCHANGED <<d_src_cap, stage, d_src, queue>>

\* ensure_src frees a buffer that is too small, and cudaFree of a buffer waits
\* for the device; then the image is staged and the work queued.
Grows(i) == d_src_cap[SlotOf(i)] < batch[i]
Submit ==
    /\ nextImage \in DOMAIN batch
    /\ LET s == SlotOf(nextImage) IN
        /\ Grows(nextImage) /\ d_src_cap[s] > 0 => StreamsIdle
        /\ d_src_cap' = [d_src_cap EXCEPT ![s] = IF Grows(nextImage) THEN batch[nextImage] ELSE @]
        /\ stage' = [stage EXCEPT ![s] = nextImage]
        /\ queue' = [queue EXCEPT ![s] = @ \o <<[op |-> "upload", image |-> nextImage],
                            [op |-> "kernel", image |-> nextImage], [op |-> "download", image |-> nextImage]>>]
    /\ nextImage' = nextImage + 1
    /\ UNCHANGED <<batch, d_src, d_dst, h_pinned, returned>>

\* cudaStreamSynchronize on every stream, then the copy to the result.
ProcessEnd ==
    /\ nextImage # Resting /\ nextImage \notin DOMAIN batch /\ StreamsIdle
    /\ returned' = h_pinned /\ nextImage' = Resting
    /\ UNCHANGED <<batch, d_src_cap, stage, d_src, queue, d_dst, h_pinned>>

StreamStep(s) ==
    /\ queue[s] # <<>>
    /\ LET op == Head(queue[s]).op  i == Head(queue[s]).image IN
        /\ d_src' = IF op = "upload" THEN [d_src EXCEPT ![s] = stage[s]] ELSE d_src
        /\ d_dst' = IF op = "kernel" THEN [d_dst EXCEPT ![i] = d_src[s]] ELSE d_dst
        /\ h_pinned' = IF op = "download" THEN [h_pinned EXCEPT ![i] = d_dst[i]] ELSE h_pinned
    /\ queue' = [queue EXCEPT ![s] = Tail(@)]
    /\ UNCHANGED <<batch, nextImage, d_src_cap, stage, returned>>

StreamsNext == ProcessBegin \/ Submit \/ ProcessEnd \/ \E s \in Streams : StreamStep(s)
StreamsSpec == StreamsInit /\ [][StreamsNext]_streamVars

-----------------------------------------------------------------------------
process_serial == [i \in DOMAIN batch |-> i]

\* process() and process_serial() return the same: streams change when work
\* happens, never what it computes.
StreamsMatchSerial == returned # <<>> => returned = process_serial

\* So they do while no staging slot is used twice in one call, whatever the
\* call before has left in the buffers.
FreshSlotsMatchSerial == DOMAIN batch \subseteq Streams => StreamsMatchSerial
=============================================================================
