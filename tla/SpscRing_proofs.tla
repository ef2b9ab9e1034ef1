-------------------------- MODULE SpscRing_proofs --------------------------
(***************************************************************************)
(* Proofs about the shared-memory ring, for every buffer size, every byte  *)
(* range, every set of payloads and every number of pushes.                *)
(***************************************************************************)
EXTENDS SpscRing, SharedLemmas, SequenceTheorems

-----------------------------------------------------------------------------
(* The inductive invariant                                                 *)

End(i) == starts[i] + Prefix + Len(sent[i])

\* The published frames lie end to end in the byte stream; the consumer's
\* counter stands where the first frame it has not popped begins.
Layout ==
    /\ Len(starts) = Len(sent)
    /\ Len(got) <= Len(sent)
    /\ tail <= head /\ head - tail <= N
    /\ \A i \in 1 .. Len(sent) : FitsInU32(Len(sent[i])) /\ End(i) <= head
    /\ \A i, j \in 1 .. Len(sent) : i < j => End(i) <= starts[j]
    /\ \A i \in 1 .. Len(sent) : i < Len(sent) => starts[i + 1] = End(i)
    /\ Len(sent) > 0 => End(Len(sent)) = head
    /\ Len(got) < Len(sent) => tail = starts[Len(got) + 1]
    /\ Len(got) = Len(sent) => tail = head

\* A push in progress has its room reserved (the tail it loaded can only
\* have grown), and what it has copied is in place.
PushInProgress ==
    pPc = "copy" =>
        /\ pFrame \in Payloads
        /\ FitsInU32(Len(pFrame))
        /\ pPos <= Prefix + Len(pFrame)
        /\ head + Prefix + Len(pFrame) - tail <= N
        /\ \A j \in 0 .. (pPos - 1) : data[(head + j) % N] = Wire(pFrame)[j + 1]

\* A pop in progress works on the first frame not yet popped, which the head
\* it loaded covers; what it has copied so far is that frame's.
PopInProgress ==
    /\ cPc # "idle" =>
        /\ Len(got) < Len(sent)
        /\ End(Len(got) + 1) <= cHead
        /\ cHead <= head
    /\ cPc = "peek" =>
        /\ Len(cBuf) <= Prefix
        /\ \A j \in 1 .. Len(cBuf) : cBuf[j] = Wire(sent[Len(got) + 1])[j]
    /\ cPc = "read" =>
        /\ cLen = Len(sent[Len(got) + 1])
        /\ cLen <= MaxPop
        /\ Len(cBuf) <= cLen
        /\ \A j \in 1 .. Len(cBuf) : cBuf[j] = sent[Len(got) + 1][j]

IInv == TypeOK /\ Layout /\ NoOverwrite /\ PushInProgress /\ PopInProgress /\ FifoIntegrity

-----------------------------------------------------------------------------
(* The wrapping copies and the length prefix                               *)

\* The two parts of copy_into and copy_from together address the cells of
\* the offsets abs, abs + 1, ... modulo the buffer's size.
LEMMA CellIsModulo ==
    ASSUME NEW abs \in Nat, NEW len \in Nat, NEW i \in Nat, i < len, len <= N
    PROVE  Cell(abs, len, i) = (abs + i) % N
  <1>1. N \in Nat \ {0}
    BY RingAssumption
  <1>2. abs % N \in 0 .. (N - 1)
    BY <1>1, DivMod
  <1>3. CASE (abs % N) + i < N
    <2>1. i < FirstPart(abs, len)
      BY <1>1, <1>2, <1>3 DEF FirstPart
    <2>2. (abs + i) % N = (abs % N) + i
      BY <1>1, <1>3, ModAddWithin
    <2> QED BY <2>1, <2>2 DEF Cell
  <1>4. CASE (abs % N) + i >= N
    <2>1. ~(len < N - (abs % N)) /\ ~(i < N - (abs % N))
      BY <1>1, <1>2, <1>4
    <2>3. FirstPart(abs, len) = N - (abs % N)
      BY <2>1 DEF FirstPart
    <2>0. i < N
      BY <1>1
    <2>2. (abs + i) % N = (abs % N) + i - N
      BY <1>1, <1>4, <2>0, ModAddPast
    <2>4. Cell(abs, len, i) = i - (N - (abs % N))
      BY <2>1, <2>3 DEF Cell
    <2> QED BY <1>1, <1>2, <2>2, <2>4
  <1> QED BY <1>1, <1>2, <1>3, <1>4

\* The same for a whole frame, whose two parts are copied one after the other.
LEMMA FrameCellIsModulo ==
    ASSUME NEW abs \in Nat, NEW len \in Nat, NEW i \in Nat,
           i < Prefix + len, Prefix + len <= N
    PROVE  FrameCell(abs, len, i) = (abs + i) % N
  <1>1. CASE i < Prefix
    BY <1>1, RingAssumption, CellIsModulo DEF FrameCell, Prefix
  <1>2. CASE ~(i < Prefix)
    <2>1. i - Prefix \in Nat /\ i - Prefix < len /\ len <= N /\ abs + Prefix \in Nat
      BY <1>2, RingAssumption DEF Prefix
    <2>2. Cell(abs + Prefix, len, i - Prefix) = (abs + Prefix + (i - Prefix)) % N
      BY <2>1, CellIsModulo
    <2>3. abs + Prefix + (i - Prefix) = abs + i
      BY <1>2 DEF Prefix
    <2> QED BY <1>2, <2>2, <2>3 DEF FrameCell
  <1> QED BY <1>1, <1>2

\* The prefix is four bytes.
LEMMA Be4Type ==
    ASSUME NEW n \in Nat
    PROVE  Be4(n) \in Seq(Byte) /\ Len(Be4(n)) = 4
  <1>1. Base \in Nat \ {0}
    BY RingAssumption
  <1>2. (n \div Base) \in Nat /\ n % Base \in Byte
    BY <1>1, DivMod DEF Byte
  <1>3. ((n \div Base) \div Base) \in Nat /\ (n \div Base) % Base \in Byte
    BY <1>1, <1>2, DivMod DEF Byte
  <1>4. (((n \div Base) \div Base) \div Base) \in Nat /\ ((n \div Base) \div Base) % Base \in Byte
    BY <1>1, <1>3, DivMod DEF Byte
  <1>5. (((n \div Base) \div Base) \div Base) % Base \in Byte
    BY <1>1, <1>4, DivMod DEF Byte
  <1> QED BY <1>2, <1>3, <1>4, <1>5 DEF Be4

\* The bytes of a frame on the wire.
LEMMA WireType ==
    ASSUME NEW f \in Seq(Byte)
    PROVE  /\ Wire(f) \in Seq(Byte)
           /\ Len(Wire(f)) = Prefix + Len(f)
           /\ \A j \in 1 .. Prefix : Wire(f)[j] = Be4(Len(f))[j]
           /\ \A j \in 1 .. Len(f) : Wire(f)[Prefix + j] = f[j]
  <1>1. Len(f) \in Nat
    OBVIOUS
  <1>2. Be4(Len(f)) \in Seq(Byte) /\ Len(Be4(Len(f))) = 4
    BY <1>1, Be4Type
  <1> DEFINE b == Be4(Len(f))
  <1>3. b \in Seq(Byte) /\ Len(b) = 4
    BY <1>2
  <1> HIDE DEF b
  <1>4. /\ b \o f \in Seq(Byte)
        /\ Len(b \o f) = Len(b) + Len(f)
        /\ \A j \in 1 .. Len(b) + Len(f) :
                (b \o f)[j] = IF j <= Len(b) THEN b[j] ELSE f[j - Len(b)]
    BY <1>3, ConcatProperties, Zenon
  <1>5. \A j \in 1 .. 4 : (b \o f)[j] = b[j]
    BY <1>1, <1>3, <1>4
  <1>6. \A j \in 1 .. Len(f) : (b \o f)[4 + j] = f[j]
    BY <1>1, <1>3, <1>4
  <1> QED BY <1>3, <1>4, <1>5, <1>6 DEF Wire, Prefix, b

\* peek_u32 reads back the length push_frame wrote.
LEMMA PrefixRoundTrip ==
    ASSUME NEW f \in Seq(Byte), FitsInU32(Len(f)), NEW b \in Seq(Byte), Len(b) = Prefix,
           \A j \in 1 .. Prefix : b[j] = Wire(f)[j]
    PROVE  PeekU32(b) = Len(f)
  <1> DEFINE n == Len(f)
  <1>1. n \in Nat /\ n < Base * Base * Base * Base
    BY DEF FitsInU32
  <1>2. \A j \in 1 .. 4 : b[j] = Be4(n)[j]
    BY WireType DEF Prefix
  <1>3. Base \in Nat \ {0}
    BY RingAssumption
  <1>4. /\ b[1] = (((n \div Base) \div Base) \div Base) % Base
        /\ b[2] = ((n \div Base) \div Base) % Base
        /\ b[3] = (n \div Base) % Base
        /\ b[4] = n % Base
    BY <1>2 DEF Be4
  <1> HIDE DEF n
  <1>5. PeekU32(b) = n
    BY <1>1, <1>3, <1>4, FourDigits DEF PeekU32
  <1> QED BY <1>5 DEF n

-----------------------------------------------------------------------------
(* The invariant is inductive                                              *)

\* The histories have typed elements.
LEMMA HistoryTypes ==
    ASSUME IInv, NEW i \in 1 .. Len(sent)
    PROVE  sent[i] \in Seq(Byte) /\ Len(sent[i]) \in Nat /\ starts[i] \in Nat
  <1>1. sent \in Seq(Seq(Byte)) /\ starts \in Seq(Nat) /\ Len(starts) = Len(sent)
    BY DEF IInv, TypeOK, Layout
  <1>2. sent[i] \in Seq(Byte) /\ starts[i] \in Nat
    BY <1>1, ElementOfSeq
  <1> QED BY <1>2, LenProperties

\* A pending frame lies between the two counters.
LEMMA PendingInRange ==
    ASSUME IInv, NEW i \in Pending
    PROVE  /\ i \in 1 .. Len(sent) /\ sent[i] \in Seq(Byte) /\ Len(sent[i]) \in Nat
           /\ starts[i] \in Nat
           /\ tail <= starts[i]
           /\ starts[i] + Prefix + Len(sent[i]) <= head
  <1>1. i \in 1 .. Len(sent) /\ Len(got) + 1 \in 1 .. Len(sent) /\ Len(got) < Len(sent)
    BY DEF IInv, TypeOK, Pending
  <1>2. sent[i] \in Seq(Byte) /\ Len(sent[i]) \in Nat /\ starts[i] \in Nat
    BY <1>1, HistoryTypes
  <1>3. tail = starts[Len(got) + 1]
    BY <1>1 DEF IInv, Layout
  <1>4. starts[i] + Prefix + Len(sent[i]) <= head
    BY <1>1 DEF IInv, Layout, End
  <1>5. CASE i = Len(got) + 1
    BY <1>1, <1>2, <1>3, <1>4, <1>5 DEF IInv, TypeOK
  <1>6. CASE Len(got) + 1 < i
    <2>1. starts[Len(got) + 1] + Prefix + Len(sent[Len(got) + 1]) <= starts[i]
      BY <1>1, <1>6 DEF IInv, Layout, End
    <2>2. Len(sent[Len(got) + 1]) \in Nat /\ starts[Len(got) + 1] \in Nat
      BY <1>1, HistoryTypes
    <2>3. tail <= starts[i]
      BY <1>2, <1>3, <2>1, <2>2 DEF Prefix
    <2> QED BY <1>1, <1>2, <1>4, <2>3
  <1> QED BY <1>1, <1>5, <1>6 DEF Pending, IInv, TypeOK

\* An empty ring satisfies the invariant.
LEMMA InitIInv == Init => IInv
  <1> SUFFICES ASSUME Init PROVE IInv
    OBVIOUS
  <1>1. TypeOK
    BY RingAssumption DEF Init, TypeOK, Byte
  <1>2. Layout /\ NoOverwrite /\ PushInProgress /\ PopInProgress /\ FifoIntegrity
    BY RingAssumption DEF Init, Layout, NoOverwrite, Pending, PushInProgress, PopInProgress, FifoIntegrity
  <1> QED BY <1>1, <1>2 DEF IInv

\* A push that passed its two tests has its room reserved.
LEMMA PushBeginIInv == ASSUME IInv, NEW f \in Payloads, PushBegin(f) PROVE IInv'
  <1>1. f \in Seq(Byte) /\ Len(f) \in Nat
    BY RingAssumption
  <1>2. TypeOK'
    BY <1>1 DEF IInv, TypeOK, PushBegin, consumerVars
  <1>3. (Layout /\ NoOverwrite /\ PopInProgress /\ FifoIntegrity)'
    BY DEF IInv, PushBegin, consumerVars, Layout, End, NoOverwrite, Pending, PopInProgress, FifoIntegrity
  <1>4. PushInProgress'
    BY <1>1, RingAssumption DEF IInv, TypeOK, PushBegin, PushInProgress, HasRoom, Prefix
  <1> QED BY <1>2, <1>3, <1>4 DEF IInv

\* A refused push leaves the ring alone.
LEMMA PushRefusedIInv == ASSUME IInv, NEW f \in Payloads, PushRefused(f) PROVE IInv'
  BY DEF IInv, TypeOK, PushRefused, consumerVars, Layout, End, NoOverwrite, Pending,
         PushInProgress, PopInProgress, FifoIntegrity

\* The byte goes to a cell that no pending frame and no byte copied before
\* uses: all of them are less than N behind it in the stream.
LEMMA PushCopyIInv == ASSUME IInv, PushCopy PROVE IInv'
  <1> DEFINE c == (head + pPos) % N
             v == Wire(pFrame)[pPos + 1]
  <1>1. /\ head \in Nat /\ tail \in Nat /\ pPos \in Nat /\ N \in Nat \ {0}
        /\ pFrame \in Seq(Byte) /\ Len(pFrame) \in Nat /\ FitsInU32(Len(pFrame))
        /\ pPos < Prefix + Len(pFrame) /\ tail <= head
        /\ head + Prefix + Len(pFrame) - tail <= N
    BY RingAssumption DEF IInv, TypeOK, Layout, PushCopy, PushInProgress
  <1>2. head + pPos \in Nat /\ c \in 0 .. (N - 1)
    <2>1. head + pPos \in Nat
      BY <1>1
    <2> QED BY <1>1, <2>1, DivMod
  <1>3. FrameCell(head, Len(pFrame), pPos) = c
    <2>1. Prefix + Len(pFrame) <= N
      BY <1>1 DEF Prefix
    <2> QED BY <1>1, <2>1, FrameCellIsModulo
  <1>4. v \in Byte
    BY <1>1, WireType DEF Prefix
  <1>5. data' = [data EXCEPT ![c] = v]
    BY <1>3 DEF PushCopy
  <1>6. \A o \in Nat : tail <= o /\ o < head + pPos => data'[o % N] = data[o % N]
    <2> SUFFICES ASSUME NEW o \in Nat, tail <= o, o < head + pPos
                 PROVE  data'[o % N] = data[o % N]
      OBVIOUS
    <2>1. o % N # c
      <3> DEFINE b == head + pPos
      <3>1. b \in Nat /\ o < b /\ b - o < N /\ N \in Nat \ {0}
        BY <1>1 DEF Prefix
      <3> HIDE DEF b
      <3>2. o % N # b % N
        BY <3>1, ModDistinct
      <3> QED BY <3>2 DEF b
    <2>2. o % N \in 0 .. (N - 1)
      BY <1>1, DivMod
    <2> QED BY <1>2, <1>5, <2>1, <2>2 DEF IInv, TypeOK
  <1>7. data'[c] = v
    BY <1>2, <1>5 DEF IInv, TypeOK
  <1>8. UNCHANGED <<head, tail, pPc, pFrame, sent, starts, got>> /\ pPos' = pPos + 1
    BY DEF PushCopy
  <1>9. TypeOK'
    <2>1. data' \in [0 .. (N - 1) -> Byte]
      BY <1>4, <1>5 DEF IInv, TypeOK
    <2>2. pPos' \in Nat
      BY <1>1, <1>8
    <2> QED BY <2>1, <2>2 DEF IInv, TypeOK, PushCopy, consumerVars
  <1>10. (Layout /\ PopInProgress /\ FifoIntegrity)'
    BY DEF IInv, PushCopy, consumerVars, Layout, End, PopInProgress, FifoIntegrity
  <1>11. NoOverwrite'
    <2> SUFFICES ASSUME NEW i \in Pending, NEW j \in 0 .. (Prefix + Len(sent[i]) - 1)
                 PROVE  data'[(starts[i] + j) % N] = Wire(sent[i])[j + 1]
      BY <1>8 DEF NoOverwrite, Pending
    <2>1. /\ starts[i] \in Nat /\ Len(sent[i]) \in Nat /\ tail <= starts[i]
          /\ starts[i] + Prefix + Len(sent[i]) <= head
      BY PendingInRange
    <2>2. starts[i] + j \in Nat /\ tail <= starts[i] + j /\ starts[i] + j < head + pPos
      <3> DEFINE a == starts[i]
                 m == Len(sent[i])
      <3>1. a \in Nat /\ m \in Nat /\ tail <= a /\ a + Prefix + m <= head /\ j \in Nat /\ j < Prefix + m
        BY <2>1 DEF Prefix
      <3> HIDE DEF a, m
      <3>2. a + j \in Nat /\ tail <= a + j /\ a + j < head + pPos
        BY <1>1, <3>1 DEF Prefix
      <3> QED BY <3>2 DEF a
    <2>3. data[(starts[i] + j) % N] = Wire(sent[i])[j + 1]
      BY DEF IInv, NoOverwrite
    <2> QED BY <1>6, <2>2, <2>3
  <1>12. PushInProgress'
    <2>1. \A j \in 0 .. pPos : data'[(head + j) % N] = Wire(pFrame)[j + 1]
      <3> SUFFICES ASSUME NEW j \in 0 .. pPos
                   PROVE  data'[(head + j) % N] = Wire(pFrame)[j + 1]
        OBVIOUS
      <3>1. CASE j = pPos
        BY <1>7, <3>1
      <3>2. CASE j < pPos
        <4>1. head + j \in Nat /\ tail <= head + j /\ head + j < head + pPos
          BY <1>1, <3>2
        <4>2. data[(head + j) % N] = Wire(pFrame)[j + 1]
          BY <1>1, <3>2 DEF IInv, PushCopy, PushInProgress
        <4> QED BY <1>6, <4>1, <4>2
      <3> QED BY <1>1, <3>1, <3>2
    <2>2. (pPos + 1) - 1 = pPos /\ pPos + 1 <= Prefix + Len(pFrame)
      BY <1>1 DEF Prefix
    <2>3. pFrame \in Payloads
      BY DEF IInv, PushCopy, PushInProgress
    <2> QED BY <1>1, <1>8, <2>1, <2>2, <2>3 DEF PushInProgress
  <1> QED BY <1>9, <1>10, <1>11, <1>12 DEF IInv

\* What was reserved becomes the last pending frame.
LEMMA PublishHeadIInv == ASSUME IInv, PublishHead PROVE IInv'
  <1>0. PICK n, m : n = Len(sent) /\ m = Len(pFrame)
    OBVIOUS
  <1>1. /\ head \in Nat /\ tail \in Nat /\ N \in Nat \ {0} /\ n \in Nat /\ m \in Nat
        /\ Len(got) \in Nat /\ Len(got) <= n /\ Len(starts) = n
        /\ pFrame \in Seq(Byte) /\ FitsInU32(m)
        /\ pPos = Prefix + m /\ tail <= head
        /\ head + Prefix + m - tail <= N
    BY <1>0, RingAssumption DEF IInv, TypeOK, Layout, PublishHead, PushInProgress
  <1>2. /\ head' = head + Prefix + m /\ pPc' = "idle"
        /\ UNCHANGED <<tail, data, pFrame, pPos, cPc, cHead, cLen, cBuf, popResult, got>>
    BY <1>0 DEF PublishHead, consumerVars
  <1>3. /\ sent' \in Seq(Seq(Byte)) /\ Len(sent') = n + 1
        /\ sent'[n + 1] = pFrame
        /\ \A i \in 1 .. n : sent'[i] = sent[i]
    <2>1. sent \in Seq(Seq(Byte)) /\ sent' = Append(sent, pFrame)
      BY DEF IInv, TypeOK, PublishHead
    <2> QED BY <1>0, <1>1, <2>1
  <1>4. /\ starts' \in Seq(Nat) /\ Len(starts') = n + 1
        /\ starts'[n + 1] = head
        /\ \A i \in 1 .. n : starts'[i] = starts[i]
    <2>1. starts \in Seq(Nat) /\ starts' = Append(starts, head)
      BY DEF IInv, TypeOK, PublishHead
    <2> QED BY <1>0, <1>1, <2>1
  <1>5. \A i \in 1 .. n : starts[i] \in Nat /\ Len(sent[i]) \in Nat /\ sent[i] \in Seq(Byte)
    BY <1>0, HistoryTypes
  <1>6. /\ \A i \in 1 .. n : End(i)' = End(i)
        /\ End(n + 1)' = head + Prefix + m
    <2>1. ASSUME NEW i \in 1 .. n PROVE End(i)' = End(i)
      BY <1>3, <1>4 DEF End
    <2>2. End(n + 1)' = head + Prefix + m
      BY <1>0, <1>3, <1>4 DEF End
    <2> QED BY <2>1, <2>2
  <1>7. \A i \in 1 .. n : End(i) \in Nat /\ End(i) <= head /\ FitsInU32(Len(sent[i]))
    BY <1>0, <1>5 DEF IInv, Layout, End, Prefix
  <1>8. TypeOK'
    <2>1. head' \in Nat
      BY <1>1, <1>2 DEF Prefix
    <2> QED BY <1>2, <1>3, <1>4, <2>1 DEF IInv, TypeOK, PublishHead, consumerVars
  <1>9. Layout'
    <2>1. Len(starts') = Len(sent') /\ Len(got') <= Len(sent')
      BY <1>1, <1>2, <1>3, <1>4
    <2>2. tail' <= head' /\ head' - tail' <= N
      BY <1>1, <1>2 DEF Prefix
    <2>3. \A i \in 1 .. Len(sent') : FitsInU32(Len(sent'[i])) /\ End(i)' <= head'
      <3> SUFFICES ASSUME NEW i \in 1 .. (n + 1)
                   PROVE  FitsInU32(Len(sent'[i])) /\ End(i)' <= head'
        BY <1>3
      <3>1. CASE i = n + 1
        BY <1>0, <1>1, <1>2, <1>3, <1>6, <3>1 DEF Prefix
      <3>2. CASE i \in 1 .. n
        <4> DEFINE e == End(i)
        <4>1. End(i)' = e
          BY <1>6, <3>2
        <4>2. e \in Nat /\ e <= head /\ FitsInU32(Len(sent[i]))
          BY <1>7, <3>2
        <4> HIDE DEF e
        <4>3. e <= head'
          BY <1>1, <1>2, <4>2 DEF Prefix
        <4>4. sent'[i] = sent[i]
          BY <1>3, <3>2
        <4>5. End(i)' <= head'
          BY <4>1, <4>3
        <4> QED BY <4>2, <4>4, <4>5
      <3> QED BY <1>1, <3>1, <3>2
    <2>4. \A i, j \in 1 .. Len(sent') : i < j => End(i)' <= starts'[j]
      <3> SUFFICES ASSUME NEW i \in 1 .. (n + 1), NEW j \in 1 .. (n + 1), i < j
                   PROVE  End(i)' <= starts'[j]
        BY <1>3
      <3>1. i \in 1 .. n
        BY <1>1
      <3>2. CASE j = n + 1
        BY <1>4, <1>6, <1>7, <3>1, <3>2
      <3>3. CASE j \in 1 .. n
        BY <1>0, <1>4, <1>6, <3>1, <3>3 DEF IInv, Layout
      <3> QED BY <1>1, <3>2, <3>3
    <2>5. \A i \in 1 .. Len(sent') : i < Len(sent') => starts'[i + 1] = End(i)'
      <3> SUFFICES ASSUME NEW i \in 1 .. (n + 1), i < n + 1
                   PROVE  starts'[i + 1] = End(i)'
        BY <1>3
      <3>1. CASE i = n
        <4>1. End(n) = head
          BY <1>0, <1>1, <3>1 DEF IInv, Layout
        <4> QED BY <1>1, <1>4, <1>6, <3>1, <4>1
      <3>2. CASE i < n
        <4>1. i \in 1 .. n /\ i + 1 \in 1 .. n
          BY <1>1, <3>2
        <4> QED BY <1>0, <1>4, <1>6, <3>2, <4>1 DEF IInv, Layout
      <3> QED BY <1>1, <3>1, <3>2
    <2>6. Len(sent') > 0 => End(Len(sent))' = head'
      BY <1>2, <1>3, <1>6 DEF End
    <2>7. Len(got') < Len(sent') => tail' = starts'[Len(got') + 1]
      <3>1. CASE Len(got) = n
        BY <1>0, <1>2, <1>4, <3>1 DEF IInv, Layout
      <3>2. CASE Len(got) < n
        <4>1. Len(got) + 1 \in 1 .. n
          BY <1>1, <3>2
        <4> QED BY <1>0, <1>2, <1>4, <3>2, <4>1 DEF IInv, Layout
      <3> QED BY <1>1, <3>1, <3>2
    <2>8. Len(got') = Len(sent') => tail' = head'
      BY <1>1, <1>2, <1>3
    <2> QED BY <2>1, <2>2, <2>3, <2>4, <2>5, <2>6, <2>7, <2>8 DEF Layout
  <1>10. NoOverwrite'
    <2> SUFFICES ASSUME NEW i \in Pending', NEW j \in 0 .. (Prefix + Len(sent'[i]) - 1)
                 PROVE  data[(starts'[i] + j) % N] = Wire(sent'[i])[j + 1]
      BY <1>2 DEF NoOverwrite
    <2>1. i \in (Len(got) + 1) .. (n + 1)
      BY <1>2, <1>3 DEF Pending
    <2>2. CASE i = n + 1
      <3>1. starts'[i] = head /\ sent'[i] = pFrame
        BY <1>3, <1>4, <2>2
      <3>2. j \in 0 .. (pPos - 1)
        <4>1. Len(sent'[i]) = m
          BY <1>0, <3>1
        <4>2. j \in 0 .. (Prefix + m - 1)
          BY <4>1
        <4> QED BY <1>1, <4>2 DEF Prefix
      <3> QED BY <3>1, <3>2 DEF IInv, PushInProgress, PublishHead
    <2>3. CASE i # n + 1
      <3>1. i \in Pending /\ i \in 1 .. n
        <4>1. Len(got) \in Nat
          BY <1>1
        <4>2. i \in (Len(got) + 1) .. n /\ i \in 1 .. n
          BY <1>1, <2>1, <2>3, <4>1
        <4> QED BY <1>0, <4>2 DEF Pending
      <3>2. starts'[i] = starts[i] /\ sent'[i] = sent[i]
        BY <1>3, <1>4, <3>1
      <3> QED BY <3>1, <3>2 DEF IInv, NoOverwrite
    <2> QED BY <2>2, <2>3
  <1>11. PushInProgress'
    BY <1>2 DEF PushInProgress
  <1>12. PopInProgress'
    <2>1. CASE cPc = "idle"
      BY <1>2, <2>1 DEF PopInProgress
    <2>2. CASE cPc # "idle"
      <3>1. Len(got) + 1 \in 1 .. n
        BY <1>0, <1>1, <2>2 DEF IInv, PopInProgress
      <3>2. sent'[Len(got) + 1] = sent[Len(got) + 1] /\ End(Len(got) + 1)' = End(Len(got) + 1)
        <4>1. End(Len(got) + 1)' = End(Len(got) + 1)
          BY <1>2, <1>3, <1>4, <3>1 DEF End
        <4> QED BY <1>3, <3>1, <4>1
      <3>3. Len(got) < Len(sent')
        BY <1>1, <1>3
      <3>4. End(Len(got) + 1) <= cHead /\ cHead <= head /\ cHead \in Nat
        BY <2>2 DEF IInv, PopInProgress, TypeOK
      <3>5. cHead <= head'
        BY <1>1, <1>2, <3>4 DEF Prefix
      <3> QED BY <1>2, <2>2, <3>2, <3>3, <3>4, <3>5 DEF IInv, PopInProgress, End
    <2> QED BY <2>1, <2>2
  <1>13. FifoIntegrity'
    <2>1. Len(got') <= Len(sent')
      BY <1>1, <1>2, <1>3
    <2>2. ASSUME NEW i \in 1 .. Len(got) PROVE got[i] = sent'[i]
      <3>1. i \in 1 .. n
        BY <1>1
      <3>2. got[i] = sent[i]
        BY DEF IInv, FifoIntegrity
      <3> QED BY <1>3, <3>1, <3>2
    <2> QED BY <1>2, <2>1, <2>2 DEF FifoIntegrity
  <1> QED BY <1>8, <1>9, <1>10, <1>11, <1>12, <1>13 DEF IInv

\* A pop that saw at least a prefix has a whole frame before it.
LEMMA PopBeginIInv == ASSUME IInv, PopBegin PROVE IInv'
  <1>1. Len(got) \in Nat /\ Len(sent) \in Nat /\ Len(got) < Len(sent)
    BY DEF IInv, TypeOK, Layout, PopBegin, HasPrefix, Prefix
  <1>2. Len(got) + 1 \in 1 .. Len(sent)
    BY <1>1
  <1>3. End(Len(got) + 1) <= head
    BY <1>2 DEF IInv, Layout
  <1>4. TypeOK'
    BY DEF IInv, TypeOK, PopBegin, producerVars
  <1>5. (Layout /\ NoOverwrite /\ PushInProgress /\ FifoIntegrity)'
    BY DEF IInv, PopBegin, producerVars, Layout, End, NoOverwrite, Pending, PushInProgress, FifoIntegrity
  <1>6. PopInProgress'
    <2>1. /\ cPc' = "peek" /\ cHead' = head /\ cBuf' = <<>> /\ Len(cBuf') = 0
          /\ UNCHANGED <<head, sent, starts, got>>
      BY DEF PopBegin
    <2> QED BY <1>1, <1>3, <2>1 DEF PopInProgress, End, Prefix, IInv, TypeOK
  <1> QED BY <1>4, <1>5, <1>6 DEF IInv

\* A pop of an empty ring leaves it alone.
LEMMA PopEmptyIInv == ASSUME IInv, PopEmpty PROVE IInv'
  BY DEF IInv, TypeOK, PopEmpty, producerVars, Layout, End, NoOverwrite, Pending,
         PushInProgress, PopInProgress, FifoIntegrity

\* While a pop is in progress, the cells of its frame hold that frame.
LEMMA PoppedFrame ==
    ASSUME IInv, cPc # "idle"
    PROVE  LET f == sent[Len(got) + 1] IN
           /\ Len(got) + 1 \in 1 .. Len(sent)
           /\ f \in Seq(Byte) /\ Len(f) \in Nat /\ FitsInU32(Len(f))
           /\ tail \in Nat /\ tail = starts[Len(got) + 1]
           /\ Prefix + Len(f) <= N
           /\ tail + Prefix + Len(f) <= cHead /\ cHead <= head
           /\ \A j \in 0 .. (Prefix + Len(f) - 1) : data[(tail + j) % N] = Wire(f)[j + 1]
  <1> DEFINE i == Len(got) + 1
             f == sent[i]
  <1>1. Len(got) \in Nat /\ Len(sent) \in Nat /\ Len(got) < Len(sent)
    BY DEF IInv, TypeOK, PopInProgress
  <1>2. i \in 1 .. Len(sent) /\ i \in Pending
    BY <1>1 DEF Pending
  <1>3. f \in Seq(Byte) /\ Len(f) \in Nat
    BY <1>2, HistoryTypes
  <1>4. FitsInU32(Len(f))
    BY <1>2 DEF IInv, Layout
  <1>5. tail \in Nat /\ head \in Nat /\ N \in Nat /\ tail = starts[i] /\ head - tail <= N
    BY <1>1, RingAssumption DEF IInv, TypeOK, Layout
  <1>6. starts[i] + Prefix + Len(f) <= cHead /\ cHead <= head /\ cHead \in Nat
    BY DEF IInv, TypeOK, PopInProgress, End
  <1>7. Prefix + Len(f) <= N
    <2> DEFINE m == Len(f)
    <2>1. m \in Nat /\ tail + Prefix + m <= cHead
      BY <1>3, <1>5, <1>6
    <2> HIDE DEF m
    <2>2. Prefix + m <= N
      BY <1>5, <1>6, <2>1 DEF Prefix
    <2> QED BY <2>2 DEF m
  <1>8. \A j \in 0 .. (Prefix + Len(f) - 1) : data[(tail + j) % N] = Wire(f)[j + 1]
    BY <1>2, <1>5 DEF IInv, NoOverwrite
  <1> QED BY <1>2, <1>3, <1>4, <1>5, <1>6, <1>7, <1>8

\* peek_u32 reads the next byte of the frame's own prefix.
LEMMA PopPeekIInv == ASSUME IInv, PopPeek PROVE IInv'
  <1> DEFINE f == sent[Len(got) + 1]
             k == Len(cBuf)
             v == data[Cell(tail, Prefix, Len(cBuf))]
  <1>1. cPc = "peek" /\ cBuf \in Seq(Byte) /\ k \in Nat /\ k < Prefix /\ N \in Nat
    BY RingAssumption DEF IInv, TypeOK, PopPeek
  <1>2. /\ f \in Seq(Byte) /\ Len(f) \in Nat /\ tail \in Nat /\ Prefix + Len(f) <= N
        /\ \A j \in 0 .. (Prefix + Len(f) - 1) : data[(tail + j) % N] = Wire(f)[j + 1]
    BY <1>1, PoppedFrame
  <1>3. Prefix <= N /\ Prefix \in Nat /\ k \in 0 .. (Prefix + Len(f) - 1)
    BY <1>1, <1>2 DEF Prefix
  <1>4. v = Wire(f)[k + 1]
    <2>1. Cell(tail, Prefix, k) = (tail + k) % N
      BY <1>1, <1>2, <1>3, CellIsModulo
    <2> QED BY <1>2, <1>3, <2>1
  <1>5. v \in Byte
    <2>0. Wire(f) \in Seq(Byte) /\ Len(Wire(f)) = Prefix + Len(f)
      BY <1>2, WireType
    <2>1. k + 1 \in 1 .. Len(Wire(f)) /\ Wire(f) \in Seq(Byte)
      <3> DEFINE m == Len(f)
      <3>1. m \in Nat /\ k \in Nat /\ k < Prefix
        BY <1>1, <1>2
      <3> HIDE DEF m, k
      <3>2. k + 1 \in 1 .. (Prefix + m)
        BY <3>1 DEF Prefix
      <3> QED BY <2>0, <3>2 DEF m
    <2> QED BY <1>4, <2>1, ElementOfSeq
  <1>6. /\ cBuf' \in Seq(Byte) /\ Len(cBuf') = k + 1 /\ cBuf'[k + 1] = v
        /\ \A j \in 1 .. k : cBuf'[j] = cBuf[j]
    <2> HIDE DEF v
    <2>1. cBuf' = Append(cBuf, v)
      BY DEF PopPeek, v
    <2> QED BY <1>1, <1>5, <2>1
  <1>7. UNCHANGED <<head, tail, data, pPc, pFrame, pPos, pushResult, cPc, cHead, cLen, popResult,
                    sent, starts, got>>
    BY DEF PopPeek, producerVars
  <1>8. TypeOK'
    BY <1>6, <1>7 DEF IInv, TypeOK
  <1>9. (Layout /\ NoOverwrite /\ PushInProgress /\ FifoIntegrity)'
    BY <1>7 DEF IInv, Layout, End, NoOverwrite, Pending, PushInProgress, FifoIntegrity
  <1>10. PopInProgress'
    <2>1. \A j \in 1 .. Len(cBuf') : cBuf'[j] = Wire(f)[j]
      <3> SUFFICES ASSUME NEW j \in 1 .. (k + 1) PROVE cBuf'[j] = Wire(f)[j]
        BY <1>6
      <3>1. CASE j = k + 1
        BY <1>4, <1>6, <3>1
      <3>2. CASE j \in 1 .. k
        BY <1>1, <1>6, <3>2 DEF IInv, PopInProgress
      <3> QED BY <1>1, <3>1, <3>2
    <2>2. Len(cBuf') <= Prefix
      BY <1>1, <1>6 DEF Prefix
    <2> QED BY <1>1, <1>7, <2>1, <2>2 DEF IInv, PopInProgress, End
  <1> QED BY <1>8, <1>9, <1>10 DEF IInv

\* The length it decodes is the frame's own, so the test decides on it.
LEMMA DecodedLength ==
    ASSUME IInv, cPc = "peek", Len(cBuf) = Prefix
    PROVE  PeekU32(cBuf) = Len(sent[Len(got) + 1])
  <1> DEFINE f == sent[Len(got) + 1]
  <1>1. f \in Seq(Byte) /\ FitsInU32(Len(f))
    BY PoppedFrame
  <1>2. cBuf \in Seq(Byte)
    BY DEF IInv, TypeOK
  <1>3. \A j \in 1 .. Prefix : cBuf[j] = Wire(f)[j]
    BY DEF IInv, PopInProgress
  <1> HIDE DEF f
  <1>4. PeekU32(cBuf) = Len(f)
    BY <1>1, <1>2, <1>3, PrefixRoundTrip
  <1> QED BY <1>4 DEF f

\* An accepted pop goes on to read exactly the frame's payload.
LEMMA PopAcceptIInv == ASSUME IInv, PopAccept PROVE IInv'
  <1>1. /\ cPc = "peek" /\ cPc' = "read" /\ cLen' = PeekU32(cBuf) /\ cBuf' = <<>>
        /\ Len(cBuf) = Prefix /\ PeekU32(cBuf) <= MaxPop
    BY DEF PopAccept, Poppable
  <1>2. UNCHANGED <<head, tail, data, pPc, pFrame, pPos, pushResult, cHead, popResult,
                    sent, starts, got>>
    BY DEF PopAccept, producerVars
  <1>3. PeekU32(cBuf) = Len(sent[Len(got) + 1])
    BY <1>1, DecodedLength
  <1>4. Len(sent[Len(got) + 1]) \in Nat
    BY <1>1, PoppedFrame
  <1>5. TypeOK'
    BY <1>1, <1>2, <1>3, <1>4 DEF IInv, TypeOK
  <1>6. (Layout /\ NoOverwrite /\ PushInProgress /\ FifoIntegrity)'
    BY <1>2 DEF IInv, Layout, End, NoOverwrite, Pending, PushInProgress, FifoIntegrity
  <1>7. PopInProgress'
    <2>1. Len(cBuf') = 0
      BY <1>1
    <2>2. cLen' = Len(sent'[Len(got') + 1]) /\ cLen' <= MaxPop /\ Len(cBuf') <= cLen'
      BY <1>1, <1>2, <1>3, <1>4, <2>1
    <2>3. Len(got') < Len(sent') /\ (End(Len(got) + 1) <= cHead)' /\ cHead' <= head'
      BY <1>1, <1>2 DEF IInv, PopInProgress, End
    <2>4. \A j \in 1 .. Len(cBuf') : cBuf'[j] = sent'[Len(got') + 1][j]
      BY <2>1
    <2> QED BY <1>1, <2>2, <2>3, <2>4 DEF PopInProgress
  <1> QED BY <1>5, <1>6, <1>7 DEF IInv

\* A refused pop leaves the ring alone.
LEMMA PopRefusedIInv == ASSUME IInv, PopRefused PROVE IInv'
  BY DEF IInv, TypeOK, PopRefused, producerVars, Layout, End, NoOverwrite, Pending,
         PushInProgress, PopInProgress, FifoIntegrity

\* copy_from reads the next byte of the frame's own payload.
LEMMA PopCopyIInv == ASSUME IInv, PopCopy PROVE IInv'
  <1> DEFINE f == sent[Len(got) + 1]
             k == Len(cBuf)
             v == data[Cell(tail + Prefix, cLen, Len(cBuf))]
  <1>1. /\ cPc = "read" /\ cBuf \in Seq(Byte) /\ k \in Nat /\ k < cLen
        /\ cLen = Len(f) /\ cLen \in Nat /\ N \in Nat
    BY RingAssumption DEF IInv, TypeOK, PopCopy, PopInProgress
  <1>2. /\ f \in Seq(Byte) /\ tail \in Nat /\ Prefix + cLen <= N
        /\ \A j \in 0 .. (Prefix + cLen - 1) : data[(tail + j) % N] = Wire(f)[j + 1]
    BY <1>1, PoppedFrame
  <1>3. v = f[k + 1]
    <2> HIDE DEF k, f
    <2>1. tail + Prefix \in Nat /\ cLen <= N
      BY <1>1, <1>2 DEF Prefix
    <2>2. Cell(tail + Prefix, cLen, k) = (tail + Prefix + k) % N
      BY <1>1, <2>1, CellIsModulo
    <2>3. Prefix + k \in 0 .. (Prefix + cLen - 1) /\ tail + Prefix + k = tail + (Prefix + k)
      BY <1>1, <1>2 DEF Prefix
    <2>4. data[(tail + (Prefix + k)) % N] = Wire(f)[Prefix + k + 1]
      BY <1>2, <2>3
    <2>5. k + 1 \in 1 .. Len(f) /\ Prefix + k + 1 = Prefix + (k + 1)
      BY <1>1 DEF Prefix
    <2>6. Wire(f)[Prefix + (k + 1)] = f[k + 1]
      BY <1>2, <2>5, WireType
    <2> QED BY <2>2, <2>3, <2>4, <2>5, <2>6 DEF k
  <1>4. v \in Byte
    <2> HIDE DEF v, k, f
    <2>1. k + 1 \in 1 .. Len(f)
      BY <1>1
    <2> QED BY <1>2, <1>3, <2>1, ElementOfSeq
  <1>5. /\ cBuf' \in Seq(Byte) /\ Len(cBuf') = k + 1 /\ cBuf'[k + 1] = v
        /\ \A j \in 1 .. k : cBuf'[j] = cBuf[j]
    <2> HIDE DEF v
    <2>1. cBuf' = Append(cBuf, v)
      BY DEF PopCopy, v
    <2> QED BY <1>1, <1>4, <2>1
  <1>6. UNCHANGED <<head, tail, data, pPc, pFrame, pPos, pushResult, cPc, cHead, cLen, popResult,
                    sent, starts, got>>
    BY DEF PopCopy, producerVars
  <1>7. TypeOK'
    BY <1>5, <1>6 DEF IInv, TypeOK
  <1>8. (Layout /\ NoOverwrite /\ PushInProgress /\ FifoIntegrity)'
    BY <1>6 DEF IInv, Layout, End, NoOverwrite, Pending, PushInProgress, FifoIntegrity
  <1>9. PopInProgress'
    <2>1. \A j \in 1 .. Len(cBuf') : cBuf'[j] = f[j]
      <3> SUFFICES ASSUME NEW j \in 1 .. (k + 1) PROVE cBuf'[j] = f[j]
        BY <1>5
      <3>1. CASE j = k + 1
        BY <1>3, <1>5, <3>1
      <3>2. CASE j \in 1 .. k
        BY <1>1, <1>5, <3>2 DEF IInv, PopInProgress
      <3> QED BY <1>1, <3>1, <3>2
    <2>2. Len(cBuf') <= cLen
      <3> HIDE DEF k
      <3>1. k + 1 <= cLen
        BY <1>1
      <3> QED BY <1>5, <3>1
    <2> QED BY <1>1, <1>6, <2>1, <2>2 DEF IInv, PopInProgress, End
  <1> QED BY <1>7, <1>8, <1>9 DEF IInv

\* What was copied is the whole frame, and the tail moves to the next one.
LEMMA PublishTailIInv == ASSUME IInv, PublishTail PROVE IInv'
  <1>0. PICK g, n, e : g = Len(got) /\ n = Len(sent) /\ e = Len(sent[g + 1])
    OBVIOUS
  <1>1. /\ cPc = "read" /\ cBuf \in Seq(Byte) /\ Len(cBuf) = cLen /\ cLen = e
        /\ \A j \in 1 .. Len(cBuf) : cBuf[j] = sent[g + 1][j]
    BY <1>0 DEF IInv, TypeOK, PublishTail, PopInProgress
  <1>2. /\ g \in Nat /\ n \in Nat /\ g + 1 \in 1 .. n /\ e \in Nat /\ head \in Nat /\ tail \in Nat
        /\ sent[g + 1] \in Seq(Byte) /\ tail = starts[g + 1] /\ N \in Nat
        /\ tail <= head /\ head - tail <= N
        /\ tail + Prefix + e <= cHead /\ cHead <= head /\ cHead \in Nat
    <2>1. /\ Len(got) \in Nat /\ Len(sent) \in Nat /\ head \in Nat /\ tail \in Nat /\ cHead \in Nat
          /\ tail <= head /\ head - tail <= N /\ N \in Nat
      BY RingAssumption DEF IInv, TypeOK, Layout
    <2>2. /\ g + 1 \in 1 .. n /\ e \in Nat /\ sent[g + 1] \in Seq(Byte) /\ tail = starts[g + 1]
          /\ tail + Prefix + e <= cHead /\ cHead <= head
      <3>1. cPc # "idle"
        BY <1>1
      <3> QED BY <1>0, <3>1, PoppedFrame
    <2> QED BY <1>0, <2>1, <2>2
  <1>3. cBuf = sent[g + 1]
    BY <1>0, <1>1, <1>2, SeqEqual
  <1>4. /\ got' \in Seq(Seq(Byte)) /\ Len(got') = g + 1 /\ got'[g + 1] = sent[g + 1]
        /\ \A i \in 1 .. g : got'[i] = got[i]
    <2>1. got \in Seq(Seq(Byte)) /\ got' = Append(got, cBuf)
      BY DEF IInv, TypeOK, PublishTail
    <2> QED BY <1>0, <1>2, <1>3, <2>1
  <1>5. /\ tail' = tail + Prefix + e /\ cPc' = "idle" /\ popResult' = "frame"
        /\ UNCHANGED <<head, data, pPc, pFrame, pPos, pushResult, cHead, cLen, cBuf, sent, starts>>
    BY <1>1 DEF PublishTail, producerVars
  <1>6. tail' \in Nat /\ tail <= tail' /\ tail' <= head /\ head - tail' <= N
    <2>1. /\ head \in Nat /\ tail \in Nat /\ cHead \in Nat /\ e \in Nat /\ N \in Nat
          /\ tail + Prefix + e <= cHead /\ cHead <= head /\ head - tail <= N
      BY <1>2
    <2>2. tail' = tail + Prefix + e
      BY <1>5
    <2> QED BY <2>1, <2>2 DEF Prefix
  <1>7. tail' = End(g + 1)
    BY <1>0, <1>2, <1>5 DEF End
  <1>8. TypeOK'
    BY <1>4, <1>5, <1>6 DEF IInv, TypeOK
  <1>9. Layout'
    <2>1. /\ Len(starts') = Len(sent') /\ tail' <= head' /\ head' - tail' <= N
          /\ \A i \in 1 .. Len(sent') : FitsInU32(Len(sent'[i])) /\ End(i)' <= head'
          /\ \A i, j \in 1 .. Len(sent') : i < j => End(i)' <= starts'[j]
          /\ \A i \in 1 .. Len(sent') : i < Len(sent') => starts'[i + 1] = End(i)'
          /\ Len(sent') > 0 => End(Len(sent))' = head'
      BY <1>5, <1>6 DEF IInv, Layout, End
    <2>2. Len(got') <= Len(sent')
      BY <1>0, <1>2, <1>4, <1>5
    <2>3. Len(got') < Len(sent') => tail' = starts'[Len(got') + 1]
      <3> SUFFICES ASSUME g + 1 < n PROVE tail' = starts[(g + 1) + 1]
        BY <1>0, <1>4, <1>5
      <3>1. starts[(g + 1) + 1] = End(g + 1)
        BY <1>0, <1>2 DEF IInv, Layout
      <3> QED BY <1>7, <3>1
    <2>4. Len(got') = Len(sent') => tail' = head'
      <3> SUFFICES ASSUME g + 1 = n PROVE tail' = head
        BY <1>0, <1>4, <1>5
      <3>1. End(n) = head
        BY <1>0, <1>2 DEF IInv, Layout
      <3> QED BY <1>7, <3>1
    <2> QED BY <2>1, <2>2, <2>3, <2>4 DEF Layout
  <1>10. NoOverwrite'
    <2>1. Pending' \subseteq Pending
      BY <1>0, <1>2, <1>4, <1>5 DEF Pending
    <2> QED BY <1>5, <2>1 DEF IInv, NoOverwrite
  <1>11. PushInProgress'
    <2> SUFFICES ASSUME pPc = "copy" PROVE PushInProgress'
      BY <1>5 DEF PushInProgress
    <2>1. head + Prefix + Len(pFrame) - tail <= N /\ Len(pFrame) \in Nat
      BY DEF IInv, TypeOK, PushInProgress
    <2>2. head + Prefix + Len(pFrame) - tail' <= N
      <3>0. PICK m, t : m = Len(pFrame) /\ t = tail'
        OBVIOUS
      <3>1. m \in Nat /\ head + Prefix + m - tail <= N
        BY <2>1, <3>0
      <3>2. head \in Nat /\ tail \in Nat /\ t \in Nat /\ tail <= t /\ N \in Nat
        BY <1>2, <1>6, <3>0
      <3>3. head + Prefix + m - t <= N
        BY <3>1, <3>2 DEF Prefix
      <3> QED BY <3>0, <3>3
    <2> QED BY <1>5, <2>2 DEF IInv, PushInProgress
  <1>12. PopInProgress'
    BY <1>5 DEF PopInProgress
  <1>13. FifoIntegrity'
    <2>1. Len(got') <= Len(sent')
      BY <1>0, <1>2, <1>4, <1>5
    <2>2. ASSUME NEW i \in 1 .. (g + 1) PROVE got'[i] = sent[i]
      <3>1. CASE i = g + 1
        BY <1>4, <3>1
      <3>2. CASE i \in 1 .. g
        BY <1>0, <1>4, <3>2 DEF IInv, FifoIntegrity
      <3> QED BY <1>2, <3>1, <3>2
    <2> QED BY <1>4, <1>5, <2>1, <2>2 DEF FifoIntegrity
  <1> QED BY <1>8, <1>9, <1>10, <1>11, <1>12, <1>13 DEF IInv

\* Every step keeps the invariant.
LEMMA NextIInv == IInv /\ [Next]_vars => IInv'
  <1> SUFFICES ASSUME IInv, [Next]_vars PROVE IInv'
    OBVIOUS
  <1>1. ASSUME NEW f \in Payloads, PushBegin(f) PROVE IInv'
    BY <1>1, PushBeginIInv
  <1>2. ASSUME NEW f \in Payloads, PushRefused(f) PROVE IInv'
    BY <1>2, PushRefusedIInv
  <1>3. CASE PushCopy
    BY <1>3, PushCopyIInv
  <1>4. CASE PublishHead
    BY <1>4, PublishHeadIInv
  <1>5. CASE PopBegin
    BY <1>5, PopBeginIInv
  <1>6. CASE PopEmpty
    BY <1>6, PopEmptyIInv
  <1>7. CASE PopPeek
    BY <1>7, PopPeekIInv
  <1>8. CASE PopAccept
    BY <1>8, PopAcceptIInv
  <1>9. CASE PopRefused
    BY <1>9, PopRefusedIInv
  <1>10. CASE PopCopy
    BY <1>10, PopCopyIInv
  <1>11. CASE PublishTail
    BY <1>11, PublishTailIInv
  <1>12. CASE UNCHANGED vars
    BY <1>12 DEF vars, producerVars, consumerVars, IInv, TypeOK, Layout, End, NoOverwrite, Pending,
                 PushInProgress, PopInProgress, FifoIntegrity
  <1> QED BY <1>1, <1>2, <1>3, <1>4, <1>5, <1>6, <1>7, <1>8, <1>9, <1>10, <1>11, <1>12
          DEF Next, Producer, Consumer

-----------------------------------------------------------------------------
(* The theorems                                                            *)

\* The strengthened invariant holds throughout.
THEOREM Inductive == Spec => []IInv
  BY InitIInv, NextIInv, PTL DEF Spec

\* Every variable keeps its type: no byte of a frame or of its prefix leaves
\* the range of a byte and no index leaves the buffer (ring_buffer.h:133-179).
THEOREM TypeCorrect == Spec => []TypeOK
  <1>1. IInv => TypeOK
    BY DEF IInv
  <1> QED BY <1>1, Inductive, PTL

\* No push writes over a frame that has not been given back, whatever the
\* buffer's size, the frames and the interleaving (ring_buffer.h:43-52).
THEOREM NeverOverwritten == Spec => []NoOverwrite
  <1>1. IInv => NoOverwrite
    BY DEF IInv
  <1> QED BY <1>1, Inductive, PTL

\* Frames come out whole, once and in order (ring_buffer.h:31-83).
THEOREM FramesIntact == Spec => []FifoIntegrity
  <1>1. IInv => FifoIntegrity
    BY DEF IInv
  <1> QED BY <1>1, Inductive, PTL

-----------------------------------------------------------------------------
(* The ring implements the abstract queue                                  *)

\* The steps inside a call are invisible to the queue.
LEMMA InnerSteps ==
    ASSUME UNCHANGED <<head, tail, pushResult, popResult, sent, got>>
    PROVE  UNCHANGED Queue!vars
  BY DEF Queue!vars

\* A refused push found too little room at that instant.
LEMMA PushRefusedIsFull ==
    ASSUME IInv, NEW f \in Payloads, PushRefused(f)
    PROVE  Queue!PushFull(f)
  <1>0. PICK m, b : m = Len(f) /\ b = Base * Base * Base * Base
    OBVIOUS
  <1>1. m \in Nat /\ N \in Nat /\ head \in Nat /\ tail \in Nat /\ tail <= head /\ head - tail <= N
    BY <1>0, RingAssumption DEF IInv, TypeOK, Layout
  <1>2. b \in Nat /\ N <= b
    BY <1>0, RingAssumption
  <1>3. ~(m < b /\ Prefix + m <= N - (head - tail))
    BY <1>0 DEF PushRefused, FitsInU32, HasRoom
  <1>4. (head - tail) + (Prefix + m) > N
    BY <1>1, <1>2, <1>3 DEF Prefix
  <1> QED BY <1>0, <1>4 DEF PushRefused, Queue!PushFull, Queue!Cost, consumerVars

\* Publishing the head is where a push takes effect.
LEMMA PublishHeadIsPush ==
    ASSUME IInv, PublishHead
    PROVE  pFrame \in Payloads /\ Queue!Push(pFrame)
  <1>0. PICK s, g, n, m : s = sent /\ g = Len(got) /\ n = Len(sent) /\ m = Len(pFrame)
    OBVIOUS
  <1>1. /\ s \in Seq(Seq(Byte)) /\ g \in Nat /\ n \in Nat /\ g <= n /\ n = Len(s) /\ m \in Nat
        /\ pFrame \in Seq(Byte) /\ N \in Nat /\ head \in Nat /\ tail \in Nat /\ tail <= head
    BY <1>0, RingAssumption DEF IInv, TypeOK, Layout
  <1>2. pFrame \in Payloads /\ head + Prefix + m - tail <= N
    BY <1>0 DEF IInv, PushInProgress, PublishHead
  <1>3. (head - tail) + (Prefix + m) <= N
    BY <1>1, <1>2 DEF Prefix
  <1>4. head' - tail' = (head - tail) + (Prefix + m)
    <2>1. head' = head + Prefix + m /\ tail' = tail
      BY <1>0 DEF PublishHead
    <2> QED BY <1>1, <2>1 DEF Prefix
  <1>5. SubSeq(sent', Len(got') + 1, Len(sent')) = Append(SubSeq(sent, Len(got) + 1, Len(sent)), pFrame)
    <2>1. sent' = Append(s, pFrame) /\ Len(sent') = n + 1 /\ Len(got') = g
      BY <1>0, <1>1 DEF PublishHead
    <2>2. PICK a, b : /\ a = SubSeq(Append(s, pFrame), g + 1, n + 1)
                      /\ b = Append(SubSeq(s, g + 1, n), pFrame)
      OBVIOUS
    <2>3. /\ a \in Seq(Seq(Byte)) /\ Len(a) = n + 1 - g
          /\ \A i \in 1 .. (n + 1 - g) : a[i] = Append(s, pFrame)[g + i]
      <3>1. PICK t : t = Append(s, pFrame)
        OBVIOUS
      <3>2. t \in Seq(Seq(Byte)) /\ Len(t) = n + 1
        BY <1>1, <3>1
      <3>3. /\ SubSeq(t, g + 1, n + 1) \in Seq(Seq(Byte))
            /\ Len(SubSeq(t, g + 1, n + 1)) = n + 1 - g
            /\ \A i \in 1 .. (n + 1 - g) : SubSeq(t, g + 1, n + 1)[i] = t[g + i]
        BY <1>1, <3>2
      <3> QED BY <2>2, <3>1, <3>3
    <2>4. /\ b \in Seq(Seq(Byte)) /\ Len(b) = n + 1 - g
          /\ \A i \in 1 .. (n - g) : b[i] = s[g + i]
          /\ b[n + 1 - g] = pFrame
      BY <1>1, <2>2
    <2>5. ASSUME NEW i \in 1 .. (n + 1 - g) PROVE a[i] = b[i]
      <3>1. CASE i = n + 1 - g
        <4>1. g + i = n + 1
          BY <1>1, <3>1
        <4>2. Append(s, pFrame)[n + 1] = pFrame
          BY <1>1
        <4> QED BY <2>3, <2>4, <3>1, <4>1, <4>2
      <3>2. CASE i \in 1 .. (n - g)
        <4>1. g + i \in 1 .. n
          BY <1>1, <3>2
        <4>2. Append(s, pFrame)[g + i] = s[g + i]
          BY <1>1, <4>1
        <4> QED BY <2>3, <2>4, <3>2, <4>1, <4>2
      <3>3. i = n + 1 - g \/ i \in 1 .. (n - g)
        <4>1. n \in Nat /\ g \in Nat /\ g <= n
          BY <1>1
        <4> QED BY <4>1
      <3> QED BY <3>1, <3>2, <3>3
    <2>6. a = b
      BY <2>3, <2>4, <2>5, SeqEqual
    <2> QED BY <1>0, <2>1, <2>2, <2>6
  <1>6. pushResult' = "ok" /\ popResult' = popResult
    BY DEF PublishHead, consumerVars
  <1> QED BY <1>0, <1>2, <1>3, <1>4, <1>5, <1>6 DEF Queue!Push, Queue!Cost

\* A pop that finds no prefix finds no frame: a frame never takes less.
LEMMA PopEmptyIsEmpty == ASSUME IInv, PopEmpty PROVE Queue!PopEmpty
  <1>0. PICK g, n : g = Len(got) /\ n = Len(sent)
    OBVIOUS
  <1>1. /\ g \in Nat /\ n \in Nat /\ g <= n /\ head \in Nat /\ tail \in Nat
        /\ tail <= head /\ head - tail < Prefix
    BY <1>0 DEF IInv, TypeOK, Layout, PopEmpty, HasPrefix, Prefix
  <1>2. g = n
    <2> SUFFICES ASSUME g < n PROVE FALSE
      BY <1>1
    <2>1. g + 1 \in 1 .. n
      BY <1>1
    <2>2. PICK a, m : a = starts[g + 1] /\ m = Len(sent[g + 1])
      OBVIOUS
    <2>3. a \in Nat /\ m \in Nat /\ tail = a /\ a + Prefix + m <= head
      BY <1>0, <2>1, <2>2, HistoryTypes DEF IInv, Layout, End
    <2> QED BY <1>1, <2>3 DEF Prefix
  <1>3. SubSeq(sent, Len(got) + 1, Len(sent)) = <<>>
    <2>1. sent \in Seq(Seq(Byte)) /\ Len(sent) + 1 > Len(sent)
      BY DEF IInv, TypeOK
    <2> QED BY <1>0, <1>1, <1>2, <2>1, SubSeqEmpty
  <1> QED BY <1>3 DEF PopEmpty, Queue!PopEmpty, producerVars

\* The frame a pop in progress works on is the queue's first.
LEMMA PoppedIsFirst ==
    ASSUME IInv, cPc # "idle"
    PROVE  LET q == SubSeq(sent, Len(got) + 1, Len(sent)) IN
           /\ q # <<>> /\ q \in Seq(Seq(Byte))
           /\ Head(q) = sent[Len(got) + 1]
           /\ Tail(q) = SubSeq(sent, Len(got) + 2, Len(sent))
  <1>0. PICK s, g, n : s = sent /\ g = Len(got) /\ n = Len(sent)
    OBVIOUS
  <1>1. s \in Seq(Seq(Byte)) /\ g \in Nat /\ n \in Nat /\ g < n /\ n = Len(s)
    BY <1>0 DEF IInv, TypeOK, PopInProgress
  <1>2. g + 1 \in 1 .. n /\ n \in 1 .. Len(s) /\ g + 1 <= n /\ (g + 1) + 1 = g + 2
    BY <1>1
  <1>3. SubSeq(s, g + 1, n) # <<>> /\ SubSeq(s, g + 1, n) \in Seq(Seq(Byte))
    <2>1. SubSeq(s, g + 1, n) \in Seq(Seq(Byte)) /\ Len(SubSeq(s, g + 1, n)) = n - g
      BY <1>1
    <2>2. Len(SubSeq(s, g + 1, n)) # 0
      BY <1>1, <2>1
    <2> QED BY <2>1, <2>2, EmptySeq
  <1>4. /\ Head(SubSeq(s, g + 1, n)) = s[g + 1]
        /\ Tail(SubSeq(s, g + 1, n)) = SubSeq(s, g + 2, n)
    BY <1>1, <1>2, HeadTailOfSubSeq
  <1> QED BY <1>0, <1>3, <1>4

\* A refused pop met a frame longer than the buffer: never one that is only
\* partly there.
LEMMA PopRefusedIsTooLong == ASSUME IInv, PopRefused PROVE Queue!PopRefused
  <1>0. PICK m, q : m = Len(sent[Len(got) + 1]) /\ q = SubSeq(sent, Len(got) + 1, Len(sent))
    OBVIOUS
  <1>1. cPc = "peek" /\ Len(cBuf) = Prefix /\ ~Poppable(PeekU32(cBuf))
    BY DEF PopRefused
  <1>2. PeekU32(cBuf) = m
    BY <1>0, <1>1, DecodedLength
  <1>3. m \in Nat /\ tail \in Nat /\ tail + Prefix + m <= cHead /\ cHead \in Nat
    <2>1. cPc # "idle" /\ cHead \in Nat
      BY <1>1 DEF IInv, TypeOK
    <2> QED BY <1>0, <2>1, PoppedFrame
  <1>4. Prefix + m <= cHead - tail
    BY <1>3 DEF Prefix
  <1>5. m > MaxPop
    BY <1>1, <1>2, <1>3, <1>4, RingAssumption DEF Poppable
  <1>6. q # <<>> /\ Len(Head(q)) = m
    BY <1>0, <1>1, PoppedIsFirst
  <1> QED BY <1>0, <1>5, <1>6 DEF PopRefused, Queue!PopRefused, producerVars

\* Publishing the tail is where a pop takes effect.
LEMMA PublishTailIsPop == ASSUME IInv, PublishTail PROVE Queue!Pop
  <1>0. PICK m, q : m = Len(sent[Len(got) + 1]) /\ q = SubSeq(sent, Len(got) + 1, Len(sent))
    OBVIOUS
  <1>1. cPc = "read" /\ cLen = m /\ m <= MaxPop
    BY <1>0 DEF IInv, PopInProgress, PublishTail
  <1>2. /\ q # <<>> /\ Len(Head(q)) = m
        /\ Tail(q) = SubSeq(sent, Len(got) + 2, Len(sent))
    BY <1>0, <1>1, PoppedIsFirst
  <1>3. SubSeq(sent', Len(got') + 1, Len(sent')) = Tail(q)
    <2>1. sent' = sent /\ got' = Append(got, cBuf) /\ got \in Seq(Seq(Byte))
      BY DEF IInv, TypeOK, PublishTail
    <2>2. Len(got') + 1 = Len(got) + 2
      BY <2>1
    <2> QED BY <1>2, <2>1, <2>2
  <1>4. head' - tail' = (head - tail) - (Prefix + m)
    <2>1. head' = head /\ tail' = tail + Prefix + m
      BY <1>1 DEF PublishTail
    <2>2. head \in Nat /\ tail \in Nat /\ m \in Nat
      BY <1>1 DEF IInv, TypeOK
    <2> QED BY <2>1, <2>2 DEF Prefix
  <1> QED BY <1>0, <1>1, <1>2, <1>3, <1>4 DEF PublishTail, Queue!Pop, Queue!Cost, producerVars

\* Every step of the ring is a step of the queue or leaves it as it is.
LEMMA QueueStep == IInv /\ [Next]_vars => [Queue!Next]_(Queue!vars)
  <1> SUFFICES ASSUME IInv, [Next]_vars PROVE Queue!Next \/ UNCHANGED Queue!vars
    OBVIOUS
  <1>1. ASSUME NEW f \in Payloads, PushBegin(f) PROVE UNCHANGED Queue!vars
    BY <1>1, InnerSteps DEF PushBegin, consumerVars
  <1>2. ASSUME NEW f \in Payloads, PushRefused(f) PROVE Queue!Next
    BY <1>2, PushRefusedIsFull DEF Queue!Next
  <1>3. CASE PushCopy
    BY <1>3, InnerSteps DEF PushCopy, consumerVars
  <1>4. CASE PublishHead
    BY <1>4, PublishHeadIsPush DEF Queue!Next
  <1>5. CASE PopBegin
    BY <1>5, InnerSteps DEF PopBegin, producerVars
  <1>6. CASE PopEmpty
    BY <1>6, PopEmptyIsEmpty DEF Queue!Next
  <1>7. CASE PopPeek
    BY <1>7, InnerSteps DEF PopPeek, producerVars
  <1>8. CASE PopAccept
    BY <1>8, InnerSteps DEF PopAccept, producerVars
  <1>9. CASE PopRefused
    BY <1>9, PopRefusedIsTooLong DEF Queue!Next
  <1>10. CASE PopCopy
    BY <1>10, InnerSteps DEF PopCopy, producerVars
  <1>11. CASE PublishTail
    BY <1>11, PublishTailIsPop DEF Queue!Next
  <1>12. CASE UNCHANGED vars
    BY <1>12, InnerSteps DEF vars, producerVars, consumerVars
  <1> QED BY <1>1, <1>2, <1>3, <1>4, <1>5, <1>6, <1>7, <1>8, <1>9, <1>10, <1>11, <1>12
          DEF Next, Producer, Consumer

\* Whatever the two sides interleave, every call takes effect at one instant
\* and returns what the sequential queue returns there (ring_buffer.h:31-83).
THEOREM ImplementsQueue == Spec => RefinesQueue
  <1>1. Init => Queue!Init
    BY DEF Init, Queue!Init
  <1>2. IInv /\ [Next]_vars => [Queue!Next]_(Queue!vars)
    BY QueueStep
  <1> QED BY <1>1, <1>2, Inductive, PTL DEF RefinesQueue, Spec, Queue!Spec
=============================================================================
