------------------------------ MODULE SpscRing ------------------------------
(***************************************************************************)
(* The single-producer single-consumer frame ring that the driver and the  *)
(* daemon share: SPSC_RingBuffer (driver/inc/ring_buffer.h), and MappedRing*)
(* (daemon/src/mapped_ring.rs), which mirrors it over the same memory.     *)
(*                                                                         *)
(* A push loads the two counters, decides whether the frame fits, copies   *)
(* the big-endian length prefix and the payload byte by byte, and only then*)
(* publishes the new head; a pop loads the counters, peeks the prefix,     *)
(* decides, copies the payload out and publishes the new tail.  Every load,*)
(* byte copy and store is a step of its own, so the other side may run     *)
(* between any two of them.  (A party's load of its own counter and its    *)
(* local tests belong to the step of the load of the other's counter.)     *)
(* The release stores and acquire loads of the counters order the byte     *)
(* copies, so an interleaving of these steps is what the code can do.      *)
(***************************************************************************)
EXTENDS Naturals, Sequences

CONSTANTS
    N,          \* RING_BUFFER_SIZE
    Base,       \* number of values of a byte (256)
    Payloads,   \* the frames the producer may push
    MaxPop,     \* max_len the consumer passes to pop_frame
    MaxPush     \* bound: number of frames pushed in a behaviour

Byte == 0 .. (Base - 1)

Prefix == 4     \* sizeof(uint32_t), FRAME_PREFIX_LEN

ASSUME RingAssumption ==
    /\ N \in Nat \ {0}
    /\ Base \in Nat /\ Base > 1
    /\ N <= Base * Base * Base * Base   \* the capacity is far below 2^32
    /\ Payloads \subseteq Seq(Byte)
    /\ MaxPop \in Nat
    /\ MaxPush \in Nat

VARIABLES
    head,       \* bytes ever published; written by the producer only
    tail,       \* bytes ever consumed; written by the consumer only
    data,       \* the N cells
    pPc,        \* producer: "idle" or "copy"
    pFrame,     \* producer: the frame being pushed
    pPos,       \* producer: bytes of prefix and payload copied so far
    pushResult, \* what the last push_frame returned
    cPc,        \* consumer: "idle", "peek" or "read"
    cHead,      \* consumer: the head it loaded
    cLen,       \* consumer: frame_len, once decoded
    cBuf,       \* consumer: bytes copied out so far
    popResult,  \* what the last pop_frame returned
    sent,       \* history: frames published
    starts,     \* history: the stream offset each of them begins at
    got         \* history: frames popped

producerVars == <<pPc, pFrame, pPos, pushResult>>
consumerVars == <<cPc, cHead, cLen, cBuf, popResult>>
vars == <<head, tail, data, producerVars, consumerVars, sent, starts, got>>

-----------------------------------------------------------------------------
(* The length prefix.                                                      *)

FitsInU32(len) == len < Base * Base * Base * Base

Be4Unmasked(len) ==
    << ((len \div Base) \div Base) \div Base, (len \div Base) \div Base, len \div Base, len >>

\* to_be_bytes
Be4(len) ==
    << (((len \div Base) \div Base) \div Base) % Base,
       ((len \div Base) \div Base) % Base,
       (len \div Base) % Base,
       len % Base >>

PeekU32(b) == ((b[1] * Base + b[2]) * Base + b[3]) * Base + b[4]

\* The bytes push_frame puts into the ring for a frame.
Wire(f) == Be4(Len(f)) \o f

-----------------------------------------------------------------------------
(* copy_into and copy_from split a copy of len bytes at absolute_offset    *)
(* where it passes the end of the buffer.  Cell is the index of the i-th   *)
(* byte (from 0) of such a copy.                                           *)

FirstPart(abs, len) ==
    LET room == N - (abs % N) IN IF len < room THEN len ELSE room

CellNoWrapReset(abs, len, i) ==
    LET first == FirstPart(abs, len)
    IN  IF i < first THEN (abs % N) + i ELSE (i - first + 1) % N

Cell(abs, len, i) ==
    LET first == FirstPart(abs, len)
    IN  IF i < first THEN (abs % N) + i ELSE i - first

\* Where byte i (from 0) of a whole frame (prefix, then payload of length
\* len) at absolute offset abs goes: two copies, one for each part.
FrameCell(abs, len, i) ==
    IF i < Prefix
    THEN Cell(abs, Prefix, i)
    ELSE Cell(abs + Prefix, len, i - Prefix)

-----------------------------------------------------------------------------
(* push_frame                                                              *)

HasRoomLax(len) == Prefix + len <= N - (head - tail) + 1

HasRoom(len) == Prefix + len <= N - (head - tail)

\* The loads of tail and head and the two early returns.
PushBegin(f) ==
    /\ pPc = "idle"
    /\ Len(sent) < MaxPush
    /\ FitsInU32(Len(f)) /\ HasRoom(Len(f))
    /\ pPc' = "copy"
    /\ pFrame' = f
    /\ pPos' = 0
    /\ UNCHANGED <<head, tail, data, pushResult, consumerVars, sent, starts, got>>

PushRefused(f) ==
    /\ pPc = "idle"
    /\ ~(FitsInU32(Len(f)) /\ HasRoom(Len(f)))
    /\ pushResult' = "full"
    /\ UNCHANGED <<head, tail, data, pPc, pFrame, pPos, consumerVars, sent, starts, got>>

\* copy_into: one byte.
PushCopy ==
    /\ pPc = "copy"
    /\ pPos < Prefix + Len(pFrame)
    /\ data' = [data EXCEPT ![FrameCell(head, Len(pFrame), pPos)] = Wire(pFrame)[pPos + 1]]
    /\ pPos' = pPos + 1
    /\ UNCHANGED <<head, tail, pPc, pFrame, pushResult, consumerVars, sent, starts, got>>

\* head.store(release): the frame is in the ring and push_frame returns.
PublishHeadEarly ==
    /\ pPc = "copy"
    /\ pPos + 1 >= Prefix + Len(pFrame)
    /\ head' = head + Prefix + Len(pFrame)
    /\ pPc' = "idle"
    /\ pushResult' = "ok"
    /\ sent' = Append(sent, pFrame)
    /\ starts' = Append(starts, head)
    /\ UNCHANGED <<tail, data, pFrame, pPos, consumerVars, got>>

PublishHead ==
    /\ pPc = "copy"
    /\ pPos = Prefix + Len(pFrame)
    /\ head' = head + Prefix + Len(pFrame)
    /\ pPc' = "idle"
    /\ pushResult' = "ok"
    /\ sent' = Append(sent, pFrame)
    /\ starts' = Append(starts, head)
    /\ UNCHANGED <<tail, data, pFrame, pPos, consumerVars, got>>

-----------------------------------------------------------------------------
(* pop_frame                                                               *)

HasPrefixStrict == head - tail > Prefix

HasPrefix == head - tail >= Prefix

\* The loads of head and tail and the first early return.
PopBegin ==
    /\ cPc = "idle"
    /\ HasPrefix
    /\ cPc' = "peek"
    /\ cHead' = head
    /\ cBuf' = <<>>
    /\ UNCHANGED <<head, tail, data, producerVars, cLen, popResult, sent, starts, got>>

PopEmpty ==
    /\ cPc = "idle"
    /\ ~HasPrefix
    /\ popResult' = "empty"
    /\ UNCHANGED <<head, tail, data, producerVars, cPc, cHead, cLen, cBuf, sent, starts, got>>

\* peek_u32: one byte of the prefix.
PopPeek ==
    /\ cPc = "peek"
    /\ Len(cBuf) < Prefix
    /\ cBuf' = Append(cBuf, data[Cell(tail, Prefix, Len(cBuf))])
    /\ UNCHANGED <<head, tail, data, producerVars, cPc, cHead, cLen, popResult, sent, starts, got>>

\* The test on the decoded length.  The C++ side tests availability first
\* and returns false for both; the Rust side tests max_len first and tells
\* the two apart (None, FrameTooLarge).  Either way the tail stays.
Poppable(len) == Prefix + len <= cHead - tail /\ len <= MaxPop

PopAccept ==
    /\ cPc = "peek"
    /\ Len(cBuf) = Prefix
    /\ Poppable(PeekU32(cBuf))
    /\ cPc' = "read"
    /\ cLen' = PeekU32(cBuf)
    /\ cBuf' = <<>>
    /\ UNCHANGED <<head, tail, data, producerVars, cHead, popResult, sent, starts, got>>

PopDiscards ==
    /\ cPc = "peek"
    /\ Len(cBuf) = Prefix
    /\ ~Poppable(PeekU32(cBuf))
    /\ tail' = tail + Prefix + PeekU32(cBuf)
    /\ cPc' = "idle"
    /\ popResult' = "refused"
    /\ got' = Append(got, sent[Len(got) + 1])
    /\ UNCHANGED <<head, data, producerVars, cHead, cLen, cBuf, sent, starts>>

PopRefused ==
    /\ cPc = "peek"
    /\ Len(cBuf) = Prefix
    /\ ~Poppable(PeekU32(cBuf))
    /\ cPc' = "idle"
    /\ popResult' = "refused"
    /\ UNCHANGED <<head, tail, data, producerVars, cHead, cLen, cBuf, sent, starts, got>>

\* copy_from: one byte of the payload.
PopCopy ==
    /\ cPc = "read"
    /\ Len(cBuf) < cLen
    /\ cBuf' = Append(cBuf, data[Cell(tail + Prefix, cLen, Len(cBuf))])
    /\ UNCHANGED <<head, tail, data, producerVars, cPc, cHead, cLen, popResult, sent, starts, got>>

\* tail.store(release): the space is given back and pop_frame returns.
PublishTail ==
    /\ cPc = "read"
    /\ Len(cBuf) = cLen
    /\ tail' = tail + Prefix + cLen
    /\ cPc' = "idle"
    /\ popResult' = "frame"
    /\ got' = Append(got, cBuf)
    /\ UNCHANGED <<head, data, producerVars, cHead, cLen, cBuf, sent, starts>>

-----------------------------------------------------------------------------
Init ==
    /\ head = 0 /\ tail = 0
    /\ data = [i \in 0 .. (N - 1) |-> 0]
    /\ pPc = "idle" /\ pFrame = <<>> /\ pPos = 0 /\ pushResult = "none"
    /\ cPc = "idle" /\ cHead = 0 /\ cLen = 0 /\ cBuf = <<>> /\ popResult = "none"
    /\ sent = <<>> /\ starts = <<>> /\ got = <<>>

Producer == PushCopy \/ PublishHead \/ \E f \in Payloads : PushBegin(f) \/ PushRefused(f)

Consumer ==
    \/ PopBegin \/ PopEmpty \/ PopPeek \/ PopAccept \/ PopRefused
    \/ PopCopy \/ PublishTail

Next == Producer \/ Consumer

Spec == Init /\ [][Next]_vars

\* A call that has begun runs to its end (no loop in either waits), and the
\* consumer keeps calling pop_frame: the daemon's TX worker polls for as
\* long as the session lasts (daemon/src/session.rs:49-73).
Fairness == WF_vars(PushCopy \/ PublishHead) /\ WF_vars(Consumer)

LiveSpec == Spec /\ Fairness
-----------------------------------------------------------------------------
(* Properties                                                              *)

TypeOK ==
    /\ head \in Nat /\ tail \in Nat
    /\ data \in [0 .. (N - 1) -> Byte]
    /\ pPc \in {"idle", "copy"}
    /\ pFrame \in Seq(Byte)
    /\ pPos \in Nat
    /\ pushResult \in {"none", "ok", "full"}
    /\ cPc \in {"idle", "peek", "read"}
    /\ cHead \in Nat /\ cLen \in Nat
    /\ cBuf \in Seq(Byte)
    /\ popResult \in {"none", "empty", "refused", "frame"}
    /\ sent \in Seq(Seq(Byte))
    /\ starts \in Seq(Nat)
    /\ got \in Seq(Seq(Byte))

\* The frames published and not yet popped.
Pending == (Len(got) + 1) .. Len(sent)

\* A frame that was published and not yet given back is intact in the cells
\* its offset selects: whatever the producer is copying, and however old
\* the tail is that it saw, it never writes over bytes the consumer may
\* still read (ring_buffer.h:43-52).
NoOverwrite ==
    \A i \in Pending : \A j \in 0 .. (Prefix + Len(sent[i]) - 1) :
        data[(starts[i] + j) % N] = Wire(sent[i])[j + 1]

\* What pop_frame hands out is what push_frame was given: whole frames, in
\* order, none lost, doubled, merged or torn (ring_buffer.h:31-83).
FifoIntegrity ==
    /\ Len(got) <= Len(sent)
    /\ \A i \in 1 .. Len(got) : got[i] = sent[i]

\* Every call returns what a sequential bounded queue would have returned at
\* some instant between its begin and its end, and takes effect there.
Queue == INSTANCE FrameQueue WITH
    Capacity <- N, Overhead <- Prefix, Frames <- Payloads,
    queue <- SubSeq(sent, Len(got) + 1, Len(sent)),
    used <- head - tail

\* The ring implements the abstract frame queue.
RefinesQueue == Queue!Spec

\* A frame is consumed in the end when it and every frame before it fit the
\* consumer's buffer: no wakeup is missed and an empty payload is no
\* exception (ring_buffer.h:64).
EveryFrameConsumed ==
    \A i \in 1 .. MaxPush :
        (Len(sent) >= i /\ \A j \in 1 .. i : j <= Len(sent) => Len(sent[j]) <= MaxPop)
            ~> (Len(got) >= i)
=============================================================================
