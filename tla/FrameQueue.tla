----------------------------- MODULE FrameQueue -----------------------------
(***************************************************************************)
(* What a frame ring promises its two users: a bounded FIFO of whole       *)
(* frames.  One party pushes, one party pops; every call takes effect at   *)
(* one instant and returns what a sequential queue would have returned at  *)
(* that instant.  The shared-memory ring (driver/inc/ring_buffer.h and     *)
(* daemon/src/mapped_ring.rs) is shown to implement this specification;    *)
(* the daemon's session model uses it in place of the bytes.               *)
(***************************************************************************)
EXTENDS Naturals, Sequences

CONSTANTS
    Capacity,     \* RING_BUFFER_SIZE, in bytes
    Overhead,     \* bytes a frame costs besides its payload
    Frames,       \* the payloads a producer may push (sequences of bytes)
    MaxPop        \* max_len the consumer passes to pop_frame

VARIABLES
    queue,        \* frames pushed and not yet popped, oldest first
    used,         \* bytes those frames occupy
    pushResult,   \* what the last push returned
    popResult     \* what the last pop returned

vars == <<queue, used, pushResult, popResult>>

Cost(f) == Overhead + Len(f)

Init ==
    /\ queue = <<>>
    /\ used = 0
    /\ pushResult = "none"
    /\ popResult = "none"

\* A push that finds room appends the frame.
Push(f) ==
    /\ used + Cost(f) <= Capacity
    /\ queue' = Append(queue, f)
    /\ used' = used + Cost(f)
    /\ pushResult' = "ok"
    /\ UNCHANGED popResult

\* A push is refused only when the frame does not fit at that instant.
PushFull(f) ==
    /\ used + Cost(f) > Capacity
    /\ pushResult' = "full"
    /\ UNCHANGED <<queue, used, popResult>>

\* A pop takes the oldest frame, when the caller's buffer can hold it.
Pop ==
    /\ queue # <<>>
    /\ Len(Head(queue)) <= MaxPop
    /\ queue' = Tail(queue)
    /\ used' = used - Cost(Head(queue))
    /\ popResult' = "frame"
    /\ UNCHANGED pushResult

\* A pop reports an empty queue only when it is empty.
PopEmpty ==
    /\ queue = <<>>
    /\ popResult' = "empty"
    /\ UNCHANGED <<queue, used, pushResult>>

\* A frame too long for the caller stays where it is.
PopRefused ==
    /\ queue # <<>>
    /\ Len(Head(queue)) > MaxPop
    /\ popResult' = "refused"
    /\ UNCHANGED <<queue, used, pushResult>>

Next ==
    \/ \E f \in Frames : Push(f) \/ PushFull(f)
    \/ Pop
    \/ PopEmpty
    \/ PopRefused

Spec == Init /\ [][Next]_vars
=============================================================================
