------------------------- MODULE DaemonSession_proofs -------------------------
(***************************************************************************)
(* A session of the daemon keeps its types, its rings within their size,   *)
(* releases the device, leaves no transfer in its endpoint queues, and     *)
(* answers no request twice or before an earlier one of its endpoint,      *)
(* whatever its client sends, however its sends fail, and whatever the     *)
(* sizes of the rings, the channel and the connection.                     *)
(***************************************************************************)
EXTENDS DaemonSession, SharedLemmas
LOCAL INSTANCE FiniteSetsExt

-----------------------------------------------------------------------------
(* The attachment                                                          *)

\* The session's flag says what the driver holds.
FlagTells ==
    /\ byControlPlane \in BOOLEAN /\ driverAttached \in BOOLEAN
    /\ byControlPlane = driverAttached

\* attach_session keeps the flag with the driver; a refused one attaches nothing.
LEMMA AttachFacts ==
    ASSUME FlagTells, NEW ok \in AttachAnswers, AttachSession(ok)
    PROVE  FlagTells' /\ (~ok => driverAttached' = driverAttached)
<1>1. ok \in BOOLEAN /\ CallsDriver \in BOOLEAN
  BY BackendAssumption DEF AttachAnswers, CallsDriver
<1>2. CASE CallsDriver /\ ok
  BY <1>1, <1>2 DEF FlagTells, AttachSession
<1>3. CASE ~(CallsDriver /\ ok)
  BY <1>1, <1>3 DEF FlagTells, AttachSession
<1> QED
  BY <1>2, <1>3

\* detach_session keeps the flag with the driver; from any state but Closed, the
\* device stays attached only when the driver has just refused to let it go.
LEMMA DetachFacts ==
    ASSUME FlagTells, NEW s, NEW ok \in DetachAnswers, DetachSession(s, ok)
    PROVE  FlagTells' /\ (s # "Closed" /\ driverAttached' => detachFailed')
<1>1. ok \in BOOLEAN
  BY DEF DetachAnswers
<1>2. CASE s = "Closed"
  BY <1>2 DEF FlagTells, DetachSession, attachmentVars, driverVars
<1>3. CASE s # "Closed" /\ byControlPlane /\ ok
  BY <1>1, <1>3 DEF FlagTells, DetachSession
<1>4. CASE s # "Closed" /\ byControlPlane /\ ~ok
  BY <1>1, <1>4 DEF FlagTells, DetachSession
<1>5. CASE s # "Closed" /\ ~byControlPlane
  BY <1>1, <1>5 DEF FlagTells, DetachSession
<1> QED
  BY <1>1, <1>2, <1>3, <1>4, <1>5

-----------------------------------------------------------------------------
(* Endpoint 0                                                              *)

\* The reports of the keyboard are bytes.
LEMMA ReportsTyped == HidReports \in Seq(U8)
<1> DEFINE n == 2 * Len(HidKeycodes)
<1>1. n \in Nat
  BY KeycodeAssumption
<1>2. ASSUME NEW i \in 1 .. n, i % 2 = 1
      PROVE  HidKeycodes[(i + 1) \div 2] \in U8
  <2>1. (i + 1) \div 2 \in 1 .. Len(HidKeycodes)
    BY <1>2, KeycodeAssumption
  <2> QED
    BY <2>1, KeycodeAssumption
<1>3. 0 \in U8
  BY DEF U8
<1>4. HidReports \in [1 .. n -> U8]
  BY <1>2, <1>3 DEF HidReports
<1> HIDE DEF n
<1> QED
  BY <1>1, <1>4

\* A control request is answered with one of three statuses, and brings no
\* reports or those of the keyboard.
LEMMA ControlResultFacts ==
    ASSUME NEW setup
    PROVE  /\ ControlResult(setup, TRUE).status \in {"Ok", "Stall", "Failed"}
           /\ ControlResult(setup, TRUE).reports \in Seq(U8)
<1> DEFINE Plain(r) == r.status \in {"Ok", "Stall", "Failed"} /\ r.reports \in Seq(U8)
<1>1. <<>> \in Seq(U8)
  OBVIOUS
<1>2. \A len : /\ Plain(Result("Ok", len, HidReports)) /\ Plain(Result("Ok", len, <<>>))
               /\ Plain(Result("Stall", len, <<>>))
  <2> HIDE DEF HidReports
  <2> QED
    BY <1>1, ReportsTyped DEF Result
<1> HIDE DEF Plain
<1>3. CASE setup.request = GetDescriptor
  <2>1. Plain(GetDescriptorResult(setup, TRUE))
    BY <1>2 DEF GetDescriptorResult
  <2>2. \A known : ControlResult(setup, known) = GetDescriptorResult(setup, known)
    BY <1>3 DEF ControlResult, GetDescriptor, SetAddress, SetConfiguration
  <2> QED
    BY <2>1, <2>2, Zenon DEF Plain
<1>4. CASE setup.request = SetAddress
  <2>1. ControlResult(setup, TRUE) = Result(IF AddressValid(setup) THEN "Ok" ELSE "Stall", 0, <<>>)
    BY <1>4 DEF ControlResult, GetDescriptor, SetAddress, SetConfiguration
  <2>2. Plain(ControlResult(setup, TRUE))
    BY <1>2, <2>1, Zenon
  <2> QED
    BY <2>2 DEF Plain
<1>5. CASE setup.request = SetConfiguration
  <2>1. \A known \in BOOLEAN : \/ ControlResult(setup, known) = Result("Stall", 0, <<>>)
                               \/ ControlResult(setup, known) = Result("Ok", 0, <<>>)
                               \/ ControlResult(setup, known) = Result("Ok", 0, HidReports)
    BY <1>5 DEF ControlResult, GetDescriptor, SetAddress, SetConfiguration
  <2>2. Plain(ControlResult(setup, TRUE))
    BY <1>2, <2>1, Zenon
  <2> QED
    BY <2>2 DEF Plain
<1>6. CASE setup.request \notin {GetDescriptor, SetAddress, SetConfiguration}
  <2>1. \A known : ControlResult(setup, known) = Result("Stall", 0, <<>>)
    BY <1>6 DEF ControlResult
  <2>2. Plain(ControlResult(setup, TRUE))
    BY <1>2, <2>1, Zenon
  <2> QED
    BY <2>2 DEF Plain
<1> QED
  BY <1>3, <1>4, <1>5, <1>6

-----------------------------------------------------------------------------
(* The endpoint queues, when they are empty or almost                      *)

Queues(sequence, queues, order, keys, len) ==
    [next_sequence |-> sequence, queues |-> queues, active_order |-> order,
     active_keys |-> keys, len |-> len]

\* Queues that hold nothing, and queues that hold one transfer.
Drained(q) == \E n : q = Queues(n, <<>>, <<>>, {}, 0)

HoldsFrame(q, f) ==
    \E n, k, t : t.frame = f /\ q = Queues(n, [j \in {k} |-> <<t>>], <<k>>, {k}, 1)

HoldsOne(q) == \E f : HoldsFrame(q, f)

\* A map without its only key is empty.
LEMMA NoneLeft ==
    ASSUME NEW q, NEW k, DOMAIN q.queues = {k}
    PROVE  WithoutQueue(q, k) = <<>>
<1>1. (DOMAIN q.queues) \ {k} = {}
  OBVIOUS
<1> QED
  BY <1>1 DEF WithoutQueue

\* enqueue on empty queues: the transfer is the only one.
LEMMA EnqueueOnDrained ==
    ASSUME NEW q, Drained(q), NEW f
    PROVE  HoldsFrame(Enqueue(q, f), f)
<1> PICK n : q = Queues(n, <<>>, <<>>, {}, 0)
  BY DEF Drained
<1> DEFINE t == [sequence |-> q.next_sequence, key |-> f.key, frame |-> f]
           k == f.key
           m == (q.next_sequence + 1) % SequenceModulus
<1>1. QueueOf(q, k) = <<>> /\ k \notin q.active_keys /\ q.len + 1 = 1
  BY DEF QueueOf, Queues
<1>2. WithQueue(q, k, <<t>>) = [j \in {k} |-> <<t>>]
  BY DEF WithQueue, Queues
<1>3. Append(QueueOf(q, k), t) = <<t>> /\ Append(q.active_order, k) = <<k>>
  <2>1. q.active_order = <<>>
    BY DEF Queues
  <2> HIDE DEF t, k
  <2> QED
    BY <1>1, <2>1, OneElement
<1>4. q.active_keys \union {k} = {k}
  BY DEF Queues
<1>5. Enqueue(q, f) =
        [q EXCEPT !.next_sequence = m, !.queues = WithQueue(q, k, <<t>>), !.len = 1,
                  !.active_keys = {k}, !.active_order = <<k>>]
  BY <1>1, <1>3, <1>4 DEF Enqueue
<1>6. t.frame = f
  OBVIOUS
<1> HIDE DEF t, k, m
<1>7. Enqueue(q, f) = Queues(m, [j \in {k} |-> <<t>>], <<k>>, {k}, 1)
  BY <1>2, <1>5 DEF Queues
<1> QED
  BY <1>6, <1>7 DEF HoldsFrame

\* pop_next on empty queues: None.
LEMMA PopOnDrained ==
    ASSUME NEW q, Drained(q)
    PROVE  ~CanPop(q) /\ Drained(PopNext(q))
<1> PICK n : q = Queues(n, <<>>, <<>>, {}, 0)
  BY DEF Drained
<1>1. ~CanPop(q)
  BY DEF CanPop, Servable, Queues
<1>2. \E skipped : PopNext(q) = [q EXCEPT !.active_order = <<>>, !.active_keys = q.active_keys \ skipped]
  BY <1>1 DEF PopNext
<1>3. PICK skipped :
        PopNext(q) = [q EXCEPT !.active_order = <<>>, !.active_keys = q.active_keys \ skipped]
  BY <1>2
<1>4. PopNext(q) = Queues(n, <<>>, <<>>, {}, 0)
  BY <1>3 DEF Queues
<1> QED
  BY <1>1, <1>4 DEF Drained

\* pop_next takes the only transfer, and its key with it.
LEMMA PopOnOne ==
    ASSUME NEW q, NEW f, HoldsFrame(q, f)
    PROVE  CanPop(q) /\ PopTransfer(q).frame = f /\ Drained(PopNext(q))
<1> PICK n, k, t : t.frame = f /\ q = Queues(n, [j \in {k} |-> <<t>>], <<k>>, {k}, 1)
  BY DEF HoldsFrame
<1>1. /\ q.active_order = <<k>> /\ Len(q.active_order) = 1 /\ q.active_order[1] = k
      /\ q.queues = [j \in {k} |-> <<t>>] /\ q.queues[k] = <<t>> /\ q.active_keys = {k}
  BY DEF Queues
<1>2. Servable(q) = {1}
  <2>1. QueueOf(q, q.active_order[1]) # <<>>
    BY <1>1 DEF QueueOf
  <2> QED
    BY <1>1, <2>1, 1 .. 1 = {1} DEF Servable
<1>3. Min({1}) = 1
  BY DEF Min
<1>4. CanPop(q) /\ ServedIndex(q) = 1
  BY <1>2, <1>3 DEF CanPop, ServedIndex
<1>5. /\ Tail(q.queues[k]) = <<>>
      /\ SubSeq(q.active_order, ServedIndex(q) + 1, Len(q.active_order)) = <<>>
  <2>1. ServedIndex(q) + 1 = 2
    BY <1>4
  <2> QED
    BY <1>1, <2>1, OneElement
<1>6. WithoutQueue(q, k) = <<>>
  <2>1. DOMAIN q.queues = {k}
    BY <1>1
  <2> QED
    BY <2>1, NoneLeft
<1> DEFINE skipped == {q.active_order[i] : i \in 1 .. (ServedIndex(q) - 1)}
<1>7. PopNext(q) =
        [q EXCEPT !.len = q.len - 1, !.queues = WithoutQueue(q, k),
                  !.active_keys = q.active_keys \ (skipped \union {k}),
                  !.active_order = SubSeq(q.active_order, ServedIndex(q) + 1, Len(q.active_order))]
  BY <1>1, <1>4, <1>5 DEF PopNext
<1> HIDE DEF skipped
<1>8. PopNext(q) = [q EXCEPT !.len = q.len - 1, !.queues = <<>>,
                             !.active_keys = q.active_keys \ (skipped \union {k}),
                             !.active_order = <<>>]
  BY <1>5, <1>6, <1>7
<1>9. q.active_keys \ (skipped \union {k}) = {} /\ q.len - 1 = 0
  BY DEF Queues
<1>10. PopNext(q) = Queues(n, <<>>, <<>>, {}, 0)
  BY <1>8, <1>9 DEF Queues
<1>11. PopTransfer(q).frame = f
  <2>1. Head(<<t>>) = t
    OBVIOUS
  <2>2. PopTransfer(q) = Head(<<t>>)
    BY <1>1, <1>4 DEF PopTransfer
  <2> QED
    BY <2>1, <2>2
<1> QED
  BY <1>4, <1>10, <1>11 DEF Drained

\* cancel and reset_endpoint find nothing in empty queues; clear leaves none.
LEMMA CancelOnDrained ==
    ASSUME NEW q, Drained(q)
    PROVE  /\ \A id : Cancel(q, id) = q
           /\ \A k : ResetEndpoint(q, k) = q /\ ResetTransfers(q, k) = <<>>
           /\ Drained(Clear(q))
<1>1. DOMAIN q.queues = {}
  BY DEF Drained, Queues
<1>2. \A id : Cancel(q, id) = q
  BY <1>1 DEF Cancel, CanCancel, KeysWithId
<1>3. \A k : ResetEndpoint(q, k) = q /\ ResetTransfers(q, k) = <<>>
  BY <1>1 DEF ResetEndpoint, ResetTransfers, QueueOf
<1>4. Clear(q) = Queues(0, <<>>, <<>>, {}, 0)
  BY DEF Clear, EmptyQueues, Queues
<1> QED
  BY <1>2, <1>3, <1>4 DEF Drained

-----------------------------------------------------------------------------
(* The bytes in a ring                                                     *)

\* The sums of the sizes of the first n frames, for each n up to m.
SumsTo(ring, m, g) == g = [n \in 0 .. m |-> IF n = 0 THEN 0 ELSE g[n - 1] + ring[n].size]

\* There is only one way to add up.
LEMMA SumsDetermined ==
    ASSUME NEW ring, NEW m \in Nat, NEW g, SumsTo(ring, m, g), NEW k \in Nat, NEW h, SumsTo(ring, k, h)
    PROVE  \A n \in Nat : n <= m /\ n <= k => g[n] = h[n]
<1> DEFINE T == {n \in Nat : n <= m /\ n <= k => g[n] = h[n]}
<1>1. 0 \in T
  BY DEF SumsTo
<1>2. ASSUME NEW n \in Nat, n \in T
      PROVE  n + 1 \in T
  <2> SUFFICES ASSUME n + 1 <= m, n + 1 <= k PROVE g[n + 1] = h[n + 1]
    OBVIOUS
  <2>1. g[n] = h[n]
    BY <1>2
  <2>2. n + 1 \in 0 .. m /\ n + 1 \in 0 .. k /\ n + 1 # 0 /\ (n + 1) - 1 = n
    OBVIOUS
  <2>3. g[n + 1] = g[n] + ring[n + 1].size
    BY <2>2 DEF SumsTo
  <2>4. h[n + 1] = h[n] + ring[n + 1].size
    BY <2>2 DEF SumsTo
  <2> QED
    BY <2>1, <2>3, <2>4
<1> HIDE DEF T
<1>3. Nat \subseteq T
  BY <1>1, <1>2, SetInduction
<1> QED
  BY <1>3 DEF T

\* And there is one.
LEMMA SumsExist ==
    ASSUME NEW ring \in Seq(Request)
    PROVE  \A m \in Nat : m <= Len(ring) => \E g \in [0 .. m -> Nat] : SumsTo(ring, m, g)
<1> DEFINE T == {m \in Nat : m <= Len(ring) => \E g \in [0 .. m -> Nat] : SumsTo(ring, m, g)}
<1>1. 0 \in T
  <2> DEFINE z == [n \in 0 .. 0 |-> 0]
  <2>1. z \in [0 .. 0 -> Nat]
    OBVIOUS
  <2>2. SumsTo(ring, 0, z)
    BY DEF SumsTo
  <2> QED
    BY <2>1, <2>2
<1>2. ASSUME NEW m \in Nat, m \in T
      PROVE  m + 1 \in T
  <2> SUFFICES ASSUME m + 1 <= Len(ring)
               PROVE  \E g \in [0 .. m + 1 -> Nat] : SumsTo(ring, m + 1, g)
    OBVIOUS
  <2>1. PICK g \in [0 .. m -> Nat] : SumsTo(ring, m, g)
    BY <1>2
  <2>2. m + 1 \in 1 .. Len(ring) /\ ring[m + 1].size \in Nat
    <3>1. m + 1 \in 1 .. Len(ring)
      OBVIOUS
    <3>2. ring[m + 1] \in Request
      BY <3>1, ElementOfSeq
    <3> QED
      BY <3>1, <3>2 DEF Request
  <2> DEFINE h == [n \in 0 .. m + 1 |-> IF n = m + 1 THEN g[m] + ring[m + 1].size ELSE g[n]]
  <2>3. h \in [0 .. m + 1 -> Nat]
    BY <2>2
  <2>4. ASSUME NEW n \in 0 .. m + 1
        PROVE  h[n] = IF n = 0 THEN 0 ELSE h[n - 1] + ring[n].size
    <3>1. CASE n = m + 1
      BY <3>1
    <3>2. CASE n # m + 1 /\ n # 0
      <4>1. n \in 0 .. m /\ n - 1 \in 0 .. m /\ n - 1 # m + 1 /\ n - 1 \in 0 .. m + 1
        BY <3>2
      <4>2. g[n] = g[n - 1] + ring[n].size
        BY <2>1, <3>2, <4>1 DEF SumsTo
      <4> QED
        BY <3>2, <4>1, <4>2
    <3>3. CASE n # m + 1 /\ n = 0
      BY <2>1, <3>3 DEF SumsTo
    <3> QED
      BY <3>1, <3>2, <3>3
  <2>5. SumsTo(ring, m + 1, h)
    BY <2>3, <2>4 DEF SumsTo
  <2> HIDE DEF h
  <2> QED
    BY <2>3, <2>5
<1> HIDE DEF T
<1>3. Nat \subseteq T
  BY <1>1, <1>2, SetInduction
<1> QED
  BY <1>3 DEF T

\* What a ring uses is its last sum.
LEMMA UsedIs ==
    ASSUME NEW ring \in Seq(Request)
    PROVE  \E g \in [0 .. Len(ring) -> Nat] : SumsTo(ring, Len(ring), g) /\ Used(ring) = g[Len(ring)]
<1> DEFINE m == Len(ring)
           sum == CHOOSE h : h = [n \in 0 .. m |-> IF n = 0 THEN 0 ELSE h[n - 1] + ring[n].size]
<1>1. m \in Nat
  OBVIOUS
<1>2. PICK g \in [0 .. m -> Nat] : SumsTo(ring, m, g)
  BY <1>1, SumsExist
<1>3. Used(ring) = sum[m]
  BY DEF Used
<1>4. SumsTo(ring, m, sum)
  BY <1>2 DEF SumsTo
<1> HIDE DEF sum, m
<1>5. sum[m] = g[m]
  BY <1>1, <1>2, <1>4, SumsDetermined
<1> QED
  BY <1>2, <1>3, <1>5 DEF m

\* push adds the size of a frame to what is used, pop takes it back.
LEMMA UsedFacts ==
    ASSUME NEW ring \in Seq(Request)
    PROVE  /\ Used(ring) \in Nat
           /\ ring = <<>> => Used(ring) = 0
           /\ \A f \in Request : Used(Append(ring, f)) = Used(ring) + f.size
           /\ ring # <<>> => Used(ring) = Head(ring).size + Used(Tail(ring))
<1> DEFINE m == Len(ring)
<1>0. m \in Nat
  OBVIOUS
<1>1. PICK g \in [0 .. m -> Nat] : SumsTo(ring, m, g) /\ Used(ring) = g[m]
  BY UsedIs
<1>2. Used(ring) \in Nat
  BY <1>0, <1>1
<1>3. ring = <<>> => Used(ring) = 0
  BY <1>1 DEF SumsTo
<1>4. ASSUME NEW f \in Request
      PROVE  Used(Append(ring, f)) = Used(ring) + f.size
  <2> DEFINE r == Append(ring, f)
  <2>1. r \in Seq(Request) /\ Len(r) = m + 1 /\ r[m + 1] = f /\ \A n \in 1 .. m : r[n] = ring[n]
    OBVIOUS
  <2>2. PICK h \in [0 .. Len(r) -> Nat] : SumsTo(r, Len(r), h) /\ Used(r) = h[Len(r)]
    BY <2>1, UsedIs
  <2> HIDE DEF r, m
  <2>3. SumsTo(ring, m, [n \in 0 .. m |-> h[n]])
    <3> DEFINE low == [n \in 0 .. m |-> h[n]]
    <3>1. ASSUME NEW n \in 0 .. m
          PROVE  low[n] = IF n = 0 THEN 0 ELSE low[n - 1] + ring[n].size
      <4>1. n \in 0 .. Len(r) /\ h[n] = IF n = 0 THEN 0 ELSE h[n - 1] + r[n].size
        <5>1. n \in 0 .. Len(r)
          BY <1>0, <2>1
        <5> QED
          BY <2>2, <5>1 DEF SumsTo
      <4>2. n # 0 => n - 1 \in 0 .. m /\ n \in 1 .. m
        BY <1>0
      <4> QED
        BY <2>1, <4>1, <4>2
    <3> QED
      BY <3>1 DEF SumsTo
  <2>4. h[m] = g[m]
    <3> DEFINE low == [n \in 0 .. m |-> h[n]]
    <3>1. m \in Nat /\ SumsTo(ring, m, g)
      BY <1>0, <1>1 DEF m
    <3>2. SumsTo(ring, m, low)
      BY <2>3
    <3>3. m <= m /\ low[m] = h[m]
      BY <1>0
    <3> HIDE DEF low
    <3>4. low[m] = g[m]
      BY <3>1, <3>2, <3>3, SumsDetermined
    <3> QED
      BY <3>3, <3>4
  <2>5. h[m + 1] = h[m] + r[m + 1].size
    <3>1. m + 1 \in 0 .. Len(r) /\ m + 1 # 0 /\ (m + 1) - 1 = m
      BY <1>0, <2>1
    <3> QED
      BY <2>2, <3>1 DEF SumsTo
  <2> QED
    BY <1>1, <2>1, <2>2, <2>4, <2>5 DEF r
<1>5. ASSUME ring # <<>>
      PROVE  Used(ring) = Head(ring).size + Used(Tail(ring))
  <2> DEFINE t == Tail(ring)
  <2>1. /\ t \in Seq(Request) /\ Len(t) = m - 1 /\ m - 1 \in Nat /\ Head(ring) = ring[1]
        /\ ring[1] \in Request /\ \A n \in 1 .. m - 1 : t[n] = ring[n + 1]
    BY <1>5, HeadTailProperties, ElementOfSeq
  <2>2. PICK h \in [0 .. Len(t) -> Nat] : SumsTo(t, Len(t), h) /\ Used(t) = h[Len(t)]
    BY <2>1, UsedIs
  <2>3. ring[1].size \in Nat
    BY <2>1 DEF Request
  <2> HIDE DEF t, m
  <2> DEFINE shifted == [n \in 0 .. m |-> IF n = 0 THEN 0 ELSE ring[1].size + h[n - 1]]
  <2>4. SumsTo(ring, m, shifted)
    <3>1. ASSUME NEW n \in 0 .. m
          PROVE  shifted[n] = IF n = 0 THEN 0 ELSE shifted[n - 1] + ring[n].size
      <4>1. CASE n = 0
        BY <4>1
      <4>2. CASE n = 1
        <5>1. h[0] = 0
          BY <2>1, <2>2 DEF SumsTo
        <5>2. shifted[1] = ring[1].size + h[0] /\ shifted[0] = 0
          BY <1>0, <4>2
        <5> QED
          BY <2>3, <4>2, <5>1, <5>2
      <4>3. CASE n > 1
        <5>1. /\ n - 1 \in 1 .. m - 1 /\ n - 1 \in 0 .. Len(t) /\ n - 1 # 0 /\ n - 1 \in 0 .. m
              /\ (n - 1) + 1 = n /\ n # 0 /\ (n - 1) - 1 \in 0 .. Len(t)
          BY <1>0, <2>1, <4>3
        <5>2. h[n - 1] = h[(n - 1) - 1] + t[n - 1].size
          BY <2>2, <5>1 DEF SumsTo
        <5>3. t[n - 1] = ring[n]
          BY <2>1, <5>1
        <5>4. shifted[n] = ring[1].size + h[n - 1] /\ shifted[n - 1] = ring[1].size + h[(n - 1) - 1]
          BY <5>1
        <5>5. ring[n].size \in Nat
          <6>1. n \in 1 .. Len(ring)
            BY <1>0, <5>1 DEF m
          <6>2. ring[n] \in Request
            BY <6>1, ElementOfSeq
          <6> QED
            BY <6>2 DEF Request
        <5>6. h[(n - 1) - 1] \in Nat
          BY <5>1
        <5> HIDE DEF shifted
        <5>7. shifted[n] = shifted[n - 1] + ring[n].size
          <6> DEFINE a == ring[1].size
                     b == h[(n - 1) - 1]
                     d == ring[n].size
          <6>1. h[n - 1] = b + d
            BY <5>2, <5>3
          <6>2. shifted[n] = a + h[n - 1] /\ shifted[n - 1] = a + b
            BY <5>4
          <6>3. a \in Nat /\ b \in Nat /\ d \in Nat
            BY <2>3, <5>5, <5>6
          <6> HIDE DEF a, b, d
          <6>4. a + (b + d) = (a + b) + d
            BY <6>3
          <6>5. shifted[n] = shifted[n - 1] + d
            BY <6>1, <6>2, <6>4
          <6> QED
            BY <6>5 DEF d
        <5> QED
          BY <5>1, <5>7
      <4> QED
        BY <1>0, <4>1, <4>2, <4>3
    <3> QED
      BY <3>1 DEF SumsTo
  <2>5. shifted[m] = g[m]
    <3> HIDE DEF shifted
    <3> QED
      BY <1>0, <1>1, <2>4, SumsDetermined
  <2>6. shifted[m] = ring[1].size + h[m - 1]
    BY <1>0, <2>1
  <2> QED
    BY <1>1, <2>1, <2>2, <2>5, <2>6 DEF t
<1> QED
  BY <1>2, <1>3, <1>4, <1>5

-----------------------------------------------------------------------------
(* Types                                                                   *)

OutFrames == [frame : Response, onError : {"break", "goOn"}]

\* Between its steps the worker holds a frame only to send it, and the session
\* only while it sends or flushes; what it flushes goes out before anything else.
TypeInv ==
    /\ TypeOK
    /\ wPc # "send" => wFrame = <<>>
    /\ outbox # <<>> => sPc \in {"flush", "send"}
    /\ sPc = "flush" => Drained(epq) \/ (outbox = <<>> /\ \E f \in Request : HoldsFrame(epq, f))

\* What a frame holds.
LEMMA FrameTyped ==
    ASSUME NEW f \in ClientFrames
    PROVE  /\ f.id \in Nat /\ f.key \in Nat /\ f.size \in Nat
           /\ f.type \in {"AttachRequest", "DetachRequest", "CancelRequest", "ResetRequest",
                          "Request", "Other", "TooLong"}
           /\ f.type = "Request" /\ f.key = ControlKey => f.setup \in Seq(SetupPackets)
<1>1. f \in FrameTypes
  BY SessionAssumption
<1> HIDE DEF ControlKey
<1> DEFINE Setups == Seq(SetupPackets)
           Others == Nat \ {ControlKey}
<1>2. FrameTypes =
        [type : {"AttachRequest", "DetachRequest", "CancelRequest", "ResetRequest", "Other", "TooLong"},
         id : Nat, key : Nat, size : Nat]
        \union [type : {"Request"}, id : Nat, key : Others, size : Nat]
        \union [type : {"Request"}, id : Nat, key : {ControlKey}, size : Nat, setup : Setups]
  BY DEF FrameTypes
<1>3. ControlKey \in Nat /\ Others \subseteq Nat /\ ControlKey \notin Others
  BY DEF ControlKey
<1> HIDE DEF Setups, Others
<1>4. /\ f.id \in Nat /\ f.key \in Nat /\ f.size \in Nat
      /\ f.type \in {"AttachRequest", "DetachRequest", "CancelRequest", "ResetRequest",
                     "Request", "Other", "TooLong"}
      /\ f.type = "Request" /\ f.key = ControlKey => f.setup \in Setups
  BY <1>1, <1>2, <1>3
<1> QED
  BY <1>4 DEF Setups

\* An answer made from a frame is one of the answers.
LEMMA AnswerTyped ==
    ASSUME NEW kind \in {"AttachResponse", "DetachResponse", "CancelResponse", "ResetResponse", "Response"},
           NEW status \in {"Ok", "Failed", "Stall", "Cancelled", "Reset", "Injected"},
           NEW f, f.id \in Nat, f.tag \in Nat
    PROVE  /\ Answer(kind, f, status) \in Response
           /\ Answer(kind, f, status).kind = kind /\ Answer(kind, f, status).of = f.tag
           /\ Answer(kind, f, status).via = "daemon"
BY DEF Answer, Response

\* So are the echo of a transfer, and a report; a received frame is a transfer.
LEMMA EchoTyped ==
    /\ \A f \in Request : /\ Echo(f) \in Response /\ Echo(f).kind = "Response"
                          /\ Echo(f).of = f.tag /\ Echo(f).via = "driver"
    /\ HidEvent \in Response /\ HidEvent.kind = "Event" /\ HidEvent.via = "daemon"
    /\ \A x \in Response, e \in {"break", "goOn"} : Out(x, e) \in OutFrames /\ Out(x, e).frame = x
BY DEF Echo, Request, Response, HidEvent, Out, OutFrames

\* What is queued for a frame carries its number.
LEMMA TaggedTyped ==
    ASSUME TypeOK, NEW f \in ClientFrames
    PROVE  Tagged(f) \in Request /\ Tagged(f).id = f.id /\ Tagged(f).tag = Len(received) + 1
<1>1. received \in Seq(ClientFrames)
  BY DEF TypeOK
<1>2. Len(received) + 1 \in Nat
  BY <1>1
<1> QED
  BY <1>2, FrameTyped DEF Tagged, Request

\* What a handler has to send: answers of its own, of which the first alone can
\* answer a request, the one it was called for.
Replies(frames, f, n) ==
    /\ frames \in Seq(OutFrames)
    /\ \A i \in 1 .. Len(frames) :
        /\ frames[i].frame.via = "daemon"
        /\ frames[i].frame.kind = "Response" => i = 1 /\ frames[i].frame.of = n
    /\ f.type = "Request" => 1 \in 1 .. Len(frames) /\ frames[1].frame.kind = "Response"

\* One answer.
LEMMA OneReply ==
    ASSUME NEW x \in Response, NEW onError \in {"break", "goOn"}, NEW f, NEW n,
           x.via = "daemon", x.kind = "Response" => x.of = n, f.type = "Request" => x.kind = "Response"
    PROVE  Replies(<<Out(x, onError)>>, f, n)
<1> DEFINE o == Out(x, onError)
<1>1. o \in OutFrames /\ o.frame = x
  BY EchoTyped
<1> HIDE DEF o
<1>2. <<o>> \in Seq(OutFrames) /\ Len(<<o>>) = 1 /\ <<o>>[1] = o /\ \A i \in 1 .. 1 : i = 1
  BY <1>1, OneElement
<1>3. ASSUME NEW i \in 1 .. 1
      PROVE  /\ <<o>>[i].frame.via = "daemon"
             /\ <<o>>[i].frame.kind = "Response" => i = 1 /\ <<o>>[i].frame.of = n
  <2>1. i = 1 /\ <<o>>[i] = o
    BY <1>2
  <2> QED
    BY <1>1, <2>1
<1>4. 1 \in 1 .. Len(<<o>>) /\ (f.type = "Request" => <<o>>[1].frame.kind = "Response")
  <2>1. <<o>>[1].frame.kind = x.kind /\ 1 \in 1 .. 1
    BY <1>1, <1>2
  <2>2. Len(<<o>>) = 1
    BY <1>2
  <2> QED
    BY <2>1, <2>2
<1>5. \A i \in 1 .. Len(<<o>>) :
        /\ <<o>>[i].frame.via = "daemon"
        /\ <<o>>[i].frame.kind = "Response" => i = 1 /\ <<o>>[i].frame.of = n
  BY <1>2, <1>3
<1>6. Replies(<<o>>, f, n)
  BY <1>2, <1>4, <1>5 DEF Replies
<1> QED
  BY <1>6 DEF o

\* One answer, and the reports that follow it.
LEMMA ReplyAndReports ==
    ASSUME NEW x \in Response, NEW f, NEW n, NEW m \in Nat,
           x.via = "daemon", x.kind = "Response", x.of = n
    PROVE  Replies(<<Out(x, "break")>> \o [i \in 1 .. m |-> Out(HidEvent, "goOn")], f, n)
<1> DEFINE o == Out(x, "break")
           e == Out(HidEvent, "goOn")
           events == [i \in 1 .. m |-> e]
           all == <<o>> \o events
<1>1. /\ o \in OutFrames /\ o.frame = x /\ e \in OutFrames
      /\ e.frame.kind = "Event" /\ e.frame.via = "daemon"
  BY EchoTyped
<1> HIDE DEF o, e
<1>2. events \in Seq(OutFrames) /\ Len(events) = m /\ \A i \in 1 .. m : events[i] = e
  BY <1>1
<1>3. <<o>> \in Seq(OutFrames) /\ Len(<<o>>) = 1 /\ <<o>>[1] = o
  BY <1>1
<1> HIDE DEF events
<1>4. /\ all \in Seq(OutFrames) /\ Len(all) = m + 1
      /\ \A i \in 1 .. m + 1 : all[i] = IF i <= 1 THEN <<o>>[i] ELSE events[i - 1]
  <2>1. /\ all \in Seq(OutFrames) /\ Len(all) = Len(<<o>>) + Len(events)
        /\ \A i \in 1 .. Len(<<o>>) + Len(events) :
                all[i] = IF i <= Len(<<o>>) THEN <<o>>[i] ELSE events[i - Len(<<o>>)]
    BY <1>2, <1>3, ConcatProperties
  <2> QED
    BY <1>2, <1>3, <2>1
<1> HIDE DEF all
<1>5. all[1] = o /\ 1 \in 1 .. Len(all)
  BY <1>3, <1>4
<1>6. ASSUME NEW i \in 1 .. Len(all), i # 1
      PROVE  all[i] = e
  <2>1. i - 1 \in 1 .. m /\ i \in 1 .. m + 1 /\ ~(i <= 1)
    BY <1>4, <1>6
  <2> QED
    BY <1>2, <1>4, <2>1
<1>7. ASSUME NEW i \in 1 .. Len(all)
      PROVE  /\ all[i].frame.via = "daemon"
             /\ all[i].frame.kind = "Response" => i = 1 /\ all[i].frame.of = n
  BY <1>1, <1>5, <1>6
<1>8. Replies(all, f, n)
  BY <1>1, <1>4, <1>5, <1>7 DEF Replies
<1> QED
  BY <1>8 DEF all, events, e, o

-----------------------------------------------------------------------------
(* The session                                                             *)

\* The flush alone holds a transfer, one at a time.
QueuesInv ==
    /\ sPc # "flush" => Drained(epq)
    /\ sPc = "flush" => Drained(epq) \/ HoldsOne(epq)

ReleaseInv ==
    /\ FlagTells
    /\ sPc \in {"join", "done"} /\ driverAttached => detachFailed

SessionInv == QueuesInv /\ ReleaseInv /\ after \in {"select", "cleanup"}

\* A step that goes on to a part of the loop or of the cleanup, with the queues
\* and the attachment as they were.
LEMMA MovesOn ==
    ASSUME SessionInv, sPc # "flush", UNCHANGED epq, FlagTells', after' \in {"select", "cleanup"},
           sPc' \in {"select", "send", "cleanup"}
    PROVE  SessionInv'
BY DEF SessionInv, QueuesInv, ReleaseInv

\* What a handler replies decides where it goes.
LEMMA ReplyMoves ==
    ASSUME NEW frames, NEW label \in {"select", "cleanup"}, Reply(frames, label)
    PROVE  sPc' \in {"select", "send", "cleanup"} /\ after' \in {"select", "cleanup"}
BY DEF Reply

\* A frame from the client.
LEMMA FrameStep ==
    ASSUME SessionInv, NEW f \in ClientFrames, HandleFrame(f)
    PROVE  SessionInv'
<1>1. sPc = "select" /\ Drained(epq) /\ FlagTells /\ after \in {"select", "cleanup"}
  BY DEF HandleFrame, HandleAttach, HandleDetach, HandleCancel, HandleReset, RefuseRequest,
         HandleControl, InjectOutcome, QueueRequest, IgnoreFrame, ReadError, Receive,
         SessionInv, QueuesInv, ReleaseInv
<1>2. CASE HandleAttach(f)
  <2>1. PICK ok \in AttachAnswers : AttachSession(ok)
    BY <1>2 DEF HandleAttach
  <2>2. FlagTells'
    BY <1>1, <2>1, AttachFacts
  <2>3. UNCHANGED epq /\ \E frames : Reply(frames, "select")
    BY <1>2 DEF HandleAttach
  <2> QED
    BY <1>1, <2>2, <2>3, ReplyMoves, MovesOn
<1>3. CASE HandleDetach(f)
  <2>1. PICK ok \in DetachAnswers : DetachSession(state, ok)
    BY <1>3 DEF HandleDetach
  <2>2. FlagTells'
    BY <1>1, <2>1, DetachFacts
  <2>3. UNCHANGED epq /\ \E frames : Reply(frames, "cleanup")
    BY <1>3 DEF HandleDetach
  <2> QED
    BY <1>1, <2>2, <2>3, ReplyMoves, MovesOn
<1>4. CASE HandleCancel(f) \/ HandleReset(f)
  <2>1. UNCHANGED epq
    <3>1. Cancel(epq, f.id) = epq /\ ResetEndpoint(epq, f.key) = epq
      BY <1>1, CancelOnDrained
    <3>2. CASE HandleCancel(f)
      BY <3>1, <3>2 DEF HandleCancel, CancelQueued
    <3>3. CASE HandleReset(f)
      BY <3>1, <3>3 DEF HandleReset
    <3> QED
      BY <1>4, <3>2, <3>3
  <2>2. UNCHANGED <<byControlPlane, driverVars>> /\ \E frames : Reply(frames, "select")
    BY <1>4 DEF HandleCancel, HandleReset
  <2>3. FlagTells'
    BY <1>1, <2>2 DEF FlagTells, driverVars
  <2> QED
    BY <1>1, <2>1, <2>2, <2>3, ReplyMoves, MovesOn
<1>5. CASE RefuseRequest(f) \/ HandleControl(f) \/ InjectOutcome(f)
  <2>1. UNCHANGED <<byControlPlane, epq, driverVars>> /\ \E frames : Reply(frames, "select")
    BY <1>5 DEF RefuseRequest, HandleControl, InjectOutcome
  <2>2. FlagTells'
    BY <1>1, <2>1 DEF FlagTells, driverVars
  <2> QED
    BY <1>1, <2>1, <2>2, ReplyMoves, MovesOn
<1>6. CASE QueueRequest(f)
  <2>1. /\ epq' = Enqueue(epq, Tagged(f)) /\ sPc' = "flush" /\ after' = "select"
        /\ UNCHANGED <<byControlPlane, driverVars>>
    BY <1>6 DEF QueueRequest
  <2>2. HoldsOne(epq')
    BY <1>1, <2>1, EnqueueOnDrained DEF HoldsOne
  <2> QED
    BY <1>1, <2>1, <2>2 DEF SessionInv, QueuesInv, ReleaseInv, FlagTells, driverVars
<1>7. CASE IgnoreFrame(f) \/ ReadError(f)
  <2>1. /\ UNCHANGED <<byControlPlane, epq, after, driverVars>>
        /\ sPc' \in {"select", "cleanup"}
    BY <1>1, <1>7 DEF IgnoreFrame, ReadError, sessionVars
  <2>2. FlagTells'
    BY <1>1, <2>1 DEF FlagTells, driverVars
  <2> QED
    BY <1>1, <2>1, <2>2, MovesOn
<1> QED
  BY <1>2, <1>3, <1>4, <1>5, <1>6, <1>7 DEF HandleFrame

\* The other steps of the session task.
LEMMA TaskStep ==
    ASSUME SessionInv, SessionStep
    PROVE  SessionInv'
<1>0. QueuesInv /\ FlagTells /\ after \in {"select", "cleanup"}
  BY DEF SessionInv, ReleaseInv
<1>1. CASE ReadEof \/ TakeFromChannel \/ SendFrame \/ SendError
  <2>1. /\ UNCHANGED <<byControlPlane, epq, driverVars>> /\ sPc # "flush"
        /\ after' \in {"select", "cleanup"} /\ sPc' \in {"select", "send", "cleanup"}
    BY <1>0, <1>1 DEF ReadEof, TakeFromChannel, SendFrame, SendError
  <2>2. FlagTells'
    BY <1>0, <2>1 DEF FlagTells, driverVars
  <2> QED
    BY <2>1, <2>2, MovesOn
<1>2. CASE FlushTransfer
  <2>1. /\ sPc = "flush" /\ CanPop(epq) /\ epq' = PopNext(epq)
        /\ UNCHANGED <<byControlPlane, sPc, after, driverVars>>
    BY <1>2 DEF FlushTransfer
  <2>2. Drained(epq')
    BY <1>0, <2>1, PopOnDrained, PopOnOne DEF QueuesInv, HoldsOne
  <2> QED
    BY <1>0, <2>1, <2>2 DEF SessionInv, QueuesInv, ReleaseInv, FlagTells, driverVars
<1>3. CASE FlushDone
  <2>1. /\ sPc = "flush" /\ ~CanPop(epq) /\ epq' = PopNext(epq)
        /\ sPc' \in {"select", "cleanup", "send"}
        /\ UNCHANGED <<byControlPlane, after, driverVars>>
    BY <1>0, <1>3 DEF FlushDone
  <2>2. Drained(epq')
    BY <1>0, <2>1, PopOnDrained, PopOnOne DEF QueuesInv, HoldsOne
  <2> QED
    BY <1>0, <2>1, <2>2 DEF SessionInv, QueuesInv, ReleaseInv, FlagTells, driverVars
<1>4. CASE Cleanup
  <2>1. PICK ok \in DetachAnswers : DetachSession("Detaching", ok)
    BY <1>4 DEF Cleanup
  <2>2. FlagTells' /\ (driverAttached' => detachFailed')
    BY <1>0, <2>1, DetachFacts
  <2>3. Drained(epq')
    BY <1>0, <1>4, CancelOnDrained DEF Cleanup, QueuesInv
  <2> QED
    BY <1>0, <1>4, <2>2, <2>3 DEF Cleanup, SessionInv, QueuesInv, ReleaseInv
<1>5. CASE Join
  BY <1>5 DEF Join, SessionInv, QueuesInv, ReleaseInv, FlagTells, driverVars
<1> QED
  BY <1>1, <1>2, <1>3, <1>4, <1>5 DEF SessionStep

\* The invariant is inductive.
LEMMA NextSession == SessionInv /\ [Next]_vars => SessionInv'
<1> SUFFICES ASSUME SessionInv, [Next]_vars PROVE SessionInv'
  OBVIOUS
<1>1. CASE \E f \in ClientFrames : HandleFrame(f)
  BY <1>1, FrameStep
<1>2. CASE SessionStep
  BY <1>2, TaskStep
<1>3. CASE Worker \/ Client \/ UNCHANGED vars
  <2>1. UNCHANGED <<sessionVars, driverVars>>
    BY <1>3 DEF Worker, WorkerCheck, WorkerPoll, WorkerSend, Client, ClientRead, ClientClose, vars
  <2> QED
    BY <2>1 DEF sessionVars, driverVars, SessionInv, QueuesInv, ReleaseInv, FlagTells
<1> QED
  BY <1>1, <1>2, <1>3 DEF Next

\* The invariant from which both theorems follow.
LEMMA AlwaysSession == Spec => []SessionInv
<1>1. Init => SessionInv
  <2> SUFFICES ASSUME Init PROVE SessionInv
    OBVIOUS
  <2>1. epq = Queues(0, <<>>, <<>>, {}, 0)
    BY DEF Init, EmptyQueues, Queues
  <2> QED
    BY <2>1 DEF Init, AttachmentInit, SessionInv, QueuesInv, ReleaseInv, FlagTells, Drained
<1> QED
  BY <1>1, NextSession, PTL DEF Spec

\* A session whose cleanup has run leaves a device attached only when the driver
\* refused that detach, whatever its client sent and wherever its loop ended
\* (session.rs:244-246, :349-355).
THEOREM DaemonReleases == Spec => []AttachmentReleased
<1>1. SessionInv => AttachmentReleased
  BY DEF SessionInv, ReleaseInv, FlagTells, AttachmentReleased, Released
<1> QED
  BY <1>1, AlwaysSession, PTL

\* Outside of the flush no transfer is queued, so that the cleanup throws none
\* away, and a cancel or a reset finds none (session.rs:201, :247).
THEOREM QueuesAlwaysDrained == Spec => []QueuesDrained
<1>1. SessionInv => QueuesDrained
  BY DEF SessionInv, QueuesInv, Drained, Queues, QueuesDrained
<1> QED
  BY <1>1, AlwaysSession, PTL

-----------------------------------------------------------------------------
(* What a frame from the client does                                       *)

\* What every handler leaves alone.
Listening(f) ==
    /\ sPc = "select" /\ Drained(epq) /\ outbox = <<>>
    /\ received' = Append(received, f)
    /\ UNCHANGED <<rx, tx, workerVars, chan, net, clientVars, backend, dropped>>

\* It queues the frame, or has answers to send, or neither.
QueuesFrame(f) ==
    /\ f.type = "Request" /\ epq' = Enqueue(epq, Tagged(f))
    /\ sPc' = "flush" /\ outbox' = <<>> /\ UNCHANGED <<state, byControlPlane, driverVars>>

Answers(f) ==
    /\ Replies(outbox', f, Len(received) + 1)
    /\ sPc' \in {"select", "send", "cleanup"} /\ (sPc' = "send" <=> outbox' # <<>>)

\* With no transfer in the queues, a reset is answered alone.
LEMMA ResetAlone ==
    ASSUME NEW f, Drained(epq), Tagged(f).id \in Nat, Tagged(f).tag \in Nat
    PROVE  \E status \in {"Ok", "Failed"} :
                ResetResponses(f) = <<Answer("ResetResponse", Tagged(f), status)>>
<1> DEFINE t == Tagged(f)
<1>1. CASE state # "Attached"
  BY <1>1 DEF ResetResponses
<1>2. CASE state = "Attached"
  <2> DEFINE x == Answer("ResetResponse", t, "Ok")
             reset == [i \in 1 .. Len(ResetTransfers(epq, f.key)) |->
                        Answer("Response", ResetTransfers(epq, f.key)[i].frame, "Reset")]
  <2>1. ResetTransfers(epq, f.key) = <<>>
    BY CancelOnDrained
  <2>2. reset = <<>>
    BY <2>1
  <2>3. x \in Response
    BY AnswerTyped
  <2>4. ResetResponses(f) = <<x>> \o reset
    BY <1>2 DEF ResetResponses
  <2> HIDE DEF x, reset
  <2>5. <<x>> \o reset = <<x>>
    <3>1. <<x>> \in Seq(Response)
      BY <2>3
    <3> QED
      BY <2>2, <3>1, ConcatEmptySeq
  <2> QED
    BY <2>4, <2>5 DEF x
<1> QED
  BY <1>1, <1>2

\* A control request's answer comes with reports only.
LEMMA ControlReply ==
    ASSUME NEW f, HandleControl(f)
    PROVE  \A i \in 1 .. Len(outbox') :
            outbox'[i].frame \in {Answer("Response", Tagged(f), ControlResponse(f).status), HidEvent}
<1> DEFINE r == ControlResponse(f)
           x == Out(Answer("Response", Tagged(f), r.status), "break")
           e == Out(HidEvent, "goOn")
           S == {x, e}
<1>1. outbox' = <<x>> \o [i \in DOMAIN r.reports |-> e]
  BY DEF HandleControl, Reply
<1>2. x.frame = Answer("Response", Tagged(f), r.status) /\ e.frame = HidEvent
  BY DEF Out
<1>3. r.reports \in Seq(U8)
  <2>1. CASE f.setup = <<>>
    BY <2>1 DEF ControlResponse, Result
  <2>2. CASE f.setup # <<>>
    <3>1. r = ControlResult(f.setup[1], TRUE)
      BY <2>2 DEF ControlResponse
    <3> HIDE DEF r
    <3> QED
      BY <3>1, ControlResultFacts, Zenon
  <2> QED
    BY <2>1, <2>2
<1>4. DOMAIN r.reports = 1 .. Len(r.reports) /\ Len(r.reports) \in Nat
  BY <1>3
<1> HIDE DEF r, x, e
<1>5. <<x>> \in Seq(S) /\ [i \in DOMAIN r.reports |-> e] \in Seq(S)
  BY <1>4
<1> HIDE DEF S
<1>6. outbox' \in Seq(S)
  BY <1>1, <1>5, ConcatProperties
<1>7. \A i \in 1 .. Len(outbox') : outbox'[i] \in S
  BY <1>6, ElementOfSeq
<1> QED
  BY <1>2, <1>7 DEF S, r

\* Of the handlers one queues a transfer; the others have answers to send.
LEMMA FrameEffect ==
    ASSUME SessionInv, TypeInv, NEW f \in ClientFrames, HandleFrame(f)
    PROVE  Listening(f) /\ (QueuesFrame(f) \/ Answers(f))
<1> DEFINE t == Tagged(f)
           n == Len(received) + 1
<1>1. sPc = "select" /\ Drained(epq) /\ outbox = <<>>
  BY DEF HandleFrame, HandleAttach, HandleDetach, HandleCancel, HandleReset, RefuseRequest,
         HandleControl, InjectOutcome, QueueRequest, IgnoreFrame, ReadError, Receive,
         SessionInv, QueuesInv, TypeInv
<1>2. /\ t \in Request /\ t.tag = n /\ n \in Nat /\ t.id \in Nat /\ t.tag \in Nat
  <2>1. t \in Request /\ t.tag = n
    BY TaggedTyped DEF TypeInv
  <2> HIDE DEF t
  <2> QED
    BY <2>1 DEF Request
<1>3. /\ received' = Append(received, f)
      /\ UNCHANGED <<rx, tx, workerVars, chan, net, clientVars, dropped>>
  BY DEF HandleFrame, HandleAttach, HandleDetach, HandleCancel, HandleReset, RefuseRequest,
         HandleControl, InjectOutcome, QueueRequest, IgnoreFrame, ReadError, Receive
<1>4. UNCHANGED backend
  BY DEF HandleFrame, HandleAttach, HandleDetach, HandleCancel, HandleReset, RefuseRequest,
         HandleControl, InjectOutcome, QueueRequest, IgnoreFrame, ReadError, AttachSession,
         DetachSession, attachmentVars, driverVars
<1>5. Listening(f)
  BY <1>1, <1>3, <1>4 DEF Listening
<1> HIDE DEF t, n
<1>6. ASSUME NEW frames, NEW label \in {"select", "cleanup"}, Reply(frames, label), Replies(frames, f, n)
      PROVE  Answers(f)
  BY <1>6 DEF Reply, Answers, n
<1>7. ASSUME NEW kind \in {"AttachResponse", "DetachResponse", "CancelResponse", "ResetResponse", "Response"},
             NEW status \in {"Ok", "Failed", "Stall", "Cancelled", "Reset", "Injected"},
             NEW onError \in {"break", "goOn"}, f.type = "Request" => kind = "Response"
      PROVE  Replies(<<Out(Answer(kind, t, status), onError)>>, f, n)
  <2> DEFINE x == Answer(kind, t, status)
  <2>1. x \in Response /\ x.kind = kind /\ x.of = n /\ x.via = "daemon"
    BY <1>2, AnswerTyped
  <2> HIDE DEF x
  <2>2. Replies(<<Out(x, onError)>>, f, n)
    BY <1>7, <2>1, OneReply
  <2> QED
    BY <2>2 DEF x
<1>8. CASE HandleAttach(f)
  <2>1. PICK ok \in AttachAnswers :
            Reply(<<Out(Answer("AttachResponse", t, IF ok THEN "Ok" ELSE "Failed"), "break")>>, "select")
    BY <1>8 DEF HandleAttach, t
  <2>2. f.type # "Request"
    BY <1>8 DEF HandleAttach
  <2> QED
    BY <1>5, <1>6, <1>7, <2>1, <2>2
<1>9. CASE HandleDetach(f)
  <2>1. PICK ok \in DetachAnswers :
            Reply(<<Out(Answer("DetachResponse", t, IF ok THEN "Ok" ELSE "Failed"), "goOn")>>, "cleanup")
    BY <1>9 DEF HandleDetach, t
  <2>2. f.type # "Request"
    BY <1>9 DEF HandleDetach
  <2> QED
    BY <1>5, <1>6, <1>7, <2>1, <2>2
<1>10. CASE HandleCancel(f)
  <2>1. Reply(<<Out(Answer("CancelResponse", t, CancelStatus(f.id)), "break")>>, "select")
    BY <1>10 DEF HandleCancel, t
  <2>2. f.type # "Request" /\ CancelStatus(f.id) \in {"Cancelled", "Failed"}
    BY <1>10 DEF HandleCancel, CancelStatus
  <2> QED
    BY <1>5, <1>6, <1>7, <2>1, <2>2
<1>11. CASE HandleReset(f)
  <2>1. f.type # "Request"
    BY <1>11 DEF HandleReset
  <2>2. PICK status \in {"Ok", "Failed"} : ResetResponses(f) = <<Answer("ResetResponse", t, status)>>
    BY <1>1, <1>2, ResetAlone DEF t
  <2> DEFINE x == Answer("ResetResponse", t, status)
  <2>3. [i \in 1 .. Len(ResetResponses(f)) |-> Out(ResetResponses(f)[i], "goOn")] = <<Out(x, "goOn")>>
    <3>1. ResetResponses(f) = <<x>>
      BY <2>2
    <3> HIDE DEF x
    <3> QED
      BY <3>1
  <2>4. Reply(<<Out(x, "goOn")>>, "select")
    BY <1>11, <2>3 DEF HandleReset
  <2> QED
    BY <1>5, <1>6, <1>7, <2>1, <2>4
<1>12. CASE RefuseRequest(f) \/ InjectOutcome(f)
  <2>1. \E status \in {"Failed", "Injected"} :
            Reply(<<Out(Answer("Response", t, status), "break")>>, "select")
    BY <1>12 DEF RefuseRequest, InjectOutcome, t
  <2> QED
    BY <1>5, <1>6, <1>7, <2>1
<1>13. CASE HandleControl(f)
  <2> DEFINE r == ControlResponse(f)
  <2>1. r.status \in {"Ok", "Stall", "Failed"} /\ r.reports \in Seq(U8)
    <3>1. CASE f.setup = <<>>
      BY <3>1 DEF ControlResponse, Result
    <3>2. CASE f.setup # <<>>
      <4>1. r = ControlResult(f.setup[1], TRUE)
        BY <3>2 DEF ControlResponse
      <4> HIDE DEF r
      <4> QED
        BY <4>1, ControlResultFacts, Zenon
    <3> QED
      BY <3>1, <3>2
  <2> DEFINE x == Answer("Response", t, r.status)
             m == Len(r.reports)
  <2>2. Reply(<<Out(x, "break")>> \o [i \in 1 .. m |-> Out(HidEvent, "goOn")], "select")
    <3>1. DOMAIN r.reports = 1 .. m
      BY <2>1
    <3>2. Reply(<<Out(x, "break")>> \o [i \in DOMAIN r.reports |-> Out(HidEvent, "goOn")], "select")
      BY <1>13 DEF HandleControl, t
    <3> HIDE DEF x, m, r
    <3> QED
      BY <3>1, <3>2
  <2>3. m \in Nat
    BY <2>1
  <2>4. x \in Response /\ x.kind = "Response" /\ x.of = n /\ x.via = "daemon"
    <3> HIDE DEF r
    <3> QED
      BY <1>2, <2>1, AnswerTyped
  <2> HIDE DEF x, m, r
  <2>5. Replies(<<Out(x, "break")>> \o [i \in 1 .. m |-> Out(HidEvent, "goOn")], f, n)
    BY <2>3, <2>4, ReplyAndReports
  <2> QED
    BY <1>5, <1>6, <2>2, <2>5
<1>14. CASE QueueRequest(f)
  BY <1>5, <1>14 DEF QueueRequest, QueuesFrame
<1>15. CASE IgnoreFrame(f) \/ ReadError(f)
  <2>1. f.type # "Request" /\ outbox' = <<>> /\ sPc' \in {"select", "cleanup"}
    BY <1>1, <1>15 DEF IgnoreFrame, ReadError, sessionVars
  <2>2. Replies(<<>>, f, n)
    <3>1. <<>> \in Seq(OutFrames) /\ Len(<<>>) = 0
      OBVIOUS
    <3> QED
      BY <2>1, <3>1 DEF Replies
  <2> QED
    BY <1>5, <2>1, <2>2 DEF Answers, n
<1> QED
  BY <1>8, <1>9, <1>10, <1>11, <1>12, <1>13, <1>14, <1>15 DEF HandleFrame

-----------------------------------------------------------------------------
(* Types, step by step                                                     *)

AttachTyped ==
    /\ state \in {"Connected", "Attached", "Detaching", "Closed"}
    /\ backend \in Backends
    /\ byControlPlane \in BOOLEAN /\ driverAttached \in BOOLEAN /\ detachFailed \in BOOLEAN

TaskTyped ==
    /\ sPc \in {"select", "flush", "send", "cleanup", "join", "done"}
    /\ sPc = "send" => outbox # <<>>
    /\ outbox \in Seq(OutFrames)
    /\ after \in {"select", "cleanup"}
    /\ outbox # <<>> => sPc \in {"flush", "send"}

FlushTyped ==
    sPc = "flush" => Drained(epq) \/ (outbox = <<>> /\ \E f \in Request : HoldsFrame(epq, f))

RingTyped(ring) == ring \in Seq(Request) /\ Used(ring) <= RingSize

WorkerTyped ==
    /\ wPc \in {"check", "poll", "send", "done"} /\ cancelled \in BOOLEAN
    /\ wFrame \in Seq(Response) /\ (wPc = "send") = (Len(wFrame) = 1)
    /\ wPc # "send" => wFrame = <<>>

LineTyped ==
    /\ chan \in Seq(Response) /\ Len(chan) <= ChanCap
    /\ net \in Seq(Response) /\ Len(net) <= NetCap
    /\ delivered \in Seq(Response) /\ peer \in {"open", "closed"}

HistoryTyped == received \in Seq(ClientFrames) /\ dropped \subseteq Nat

\* The parts make up the type invariant, before a step and after it.
Parts ==
    /\ AttachTyped /\ TaskTyped /\ FlushTyped /\ RingTyped(rx) /\ RingTyped(tx)
    /\ WorkerTyped /\ LineTyped /\ HistoryTyped

LEMMA TypeParts == (TypeInv => Parts) /\ (Parts' => TypeInv')
<1>1. TypeInv => Parts
  BY DEF TypeInv, TypeOK, Parts, AttachTyped, TaskTyped, FlushTyped, RingTyped, WorkerTyped,
         LineTyped, HistoryTyped, OutFrames
<1>2. Parts' => TypeInv'
  BY DEF TypeInv, TypeOK, Parts, AttachTyped, TaskTyped, FlushTyped, RingTyped, WorkerTyped,
         LineTyped, HistoryTyped, OutFrames
<1> QED
  BY <1>1, <1>2

\* Attaching and detaching.
LEMMA AttachKeepsTypes ==
    ASSUME AttachTyped
    PROVE  /\ \A ok \in AttachAnswers : AttachSession(ok) /\ UNCHANGED detachFailed => AttachTyped'
           /\ \A ok \in DetachAnswers : \A s : DetachSession(s, ok) => AttachTyped'
<1>1. ASSUME NEW ok \in AttachAnswers, AttachSession(ok), UNCHANGED detachFailed
      PROVE  AttachTyped'
  <2>1. ok \in BOOLEAN /\ CallsDriver \in BOOLEAN
    BY BackendAssumption DEF AttachAnswers, CallsDriver
  <2> QED
    BY <1>1, <2>1 DEF AttachTyped, AttachSession
<1>2. ASSUME NEW s, NEW ok \in DetachAnswers, DetachSession(s, ok)
      PROVE  AttachTyped'
  <2>1. ok \in BOOLEAN
    BY DEF DetachAnswers
  <2>2. CASE s = "Closed"
    BY <1>2, <2>2 DEF AttachTyped, DetachSession, attachmentVars, driverVars
  <2>3. CASE s # "Closed"
    BY <1>2, <2>1, <2>3 DEF AttachTyped, DetachSession
  <2> QED
    BY <2>2, <2>3
<1> QED
  BY <1>1, <1>2

\* A frame from the client keeps the types.
LEMMA FrameKeepsTypes ==
    ASSUME SessionInv, TypeInv, NEW f \in ClientFrames, HandleFrame(f)
    PROVE  TypeInv'
<1>1. /\ AttachTyped /\ TaskTyped /\ FlushTyped /\ RingTyped(rx) /\ RingTyped(tx)
      /\ WorkerTyped /\ LineTyped /\ HistoryTyped
  BY TypeParts DEF Parts
<1>2. Listening(f) /\ (QueuesFrame(f) \/ Answers(f))
  BY FrameEffect
<1>3. AttachTyped'
  <2>1. CASE HandleAttach(f)
    BY <1>1, <2>1, AttachKeepsTypes DEF HandleAttach
  <2>2. CASE HandleDetach(f)
    BY <1>1, <2>2, AttachKeepsTypes DEF HandleDetach
  <2>3. CASE ~HandleAttach(f) /\ ~HandleDetach(f)
    <3>1. UNCHANGED <<state, byControlPlane, driverVars>>
      BY <2>3 DEF HandleFrame, HandleCancel, HandleReset, RefuseRequest, HandleControl,
                  InjectOutcome, QueueRequest, IgnoreFrame, ReadError, sessionVars
    <3> QED
      BY <1>1, <3>1 DEF AttachTyped, driverVars
  <2> QED
    BY <2>1, <2>2, <2>3
<1>4. SessionInv'
  BY FrameStep
<1>5. TaskTyped' /\ FlushTyped'
  <2>1. after' \in {"select", "cleanup"}
    BY <1>4 DEF SessionInv
  <2>2. CASE QueuesFrame(f)
    <3>1. Tagged(f) \in Request
      BY TaggedTyped DEF TypeInv
    <3>2. HoldsFrame(epq', Tagged(f))
      BY <1>2, <2>2, EnqueueOnDrained DEF Listening, QueuesFrame
    <3>3. TaskTyped'
      BY <2>1, <2>2 DEF QueuesFrame, TaskTyped
    <3> QED
      BY <2>2, <3>1, <3>2, <3>3 DEF QueuesFrame, FlushTyped
  <2>3. CASE Answers(f)
    BY <2>1, <2>3 DEF Answers, Replies, TaskTyped, FlushTyped
  <2> QED
    BY <1>2, <2>2, <2>3
<1>6. /\ RingTyped(rx)' /\ RingTyped(tx)' /\ WorkerTyped' /\ LineTyped'
  BY <1>1, <1>2 DEF Listening, RingTyped, WorkerTyped, LineTyped, workerVars, clientVars
<1>7. HistoryTyped'
  <2>1. received' = Append(received, f) /\ dropped' = dropped
    BY <1>2 DEF Listening
  <2>2. Append(received, f) \in Seq(ClientFrames)
    BY <1>1 DEF HistoryTyped
  <2> QED
    BY <1>1, <2>1, <2>2 DEF HistoryTyped
<1> QED
  BY <1>3, <1>5, <1>6, <1>7, TypeParts DEF Parts

-----------------------------------------------------------------------------
(* What the flush does with the transfer it takes                          *)

Refusal(f) == Out(Answer("Response", f, "Failed"), "goOn")

\* The push was refused, or failed although the frame is in the mapped ring.
Refused(f) ==
    /\ outbox' = <<Refusal(f)>> /\ UNCHANGED <<tx, dropped>>
    /\ rx' = rx \/ (backend = "mapped" /\ Fits(rx, f) /\ rx' = Append(rx, f))

\* The frame is in the ring, and the pump may have moved the first one on.
Pushed(f) ==
    /\ Fits(rx, f) /\ outbox' = <<>>
    /\ \/ rx' = Append(rx, f) /\ UNCHANGED <<tx, dropped>>
       \/ /\ backend = "mock" /\ rx' = Tail(Append(rx, f))
          /\ \/ /\ Fits(tx, Head(Append(rx, f))) /\ tx' = Append(tx, Head(Append(rx, f)))
                /\ UNCHANGED dropped
             \/ UNCHANGED tx /\ dropped' = dropped \union {Head(Append(rx, f)).tag}

\* The flush takes the one transfer there is, which is refused or pushed.
LEMMA FlushEffect ==
    ASSUME TypeInv, FlushTransfer
    PROVE  /\ sPc = "flush" /\ outbox = <<>> /\ Drained(epq')
           /\ UNCHANGED <<state, byControlPlane, sPc, after, workerVars, chan, net, driverVars,
                          clientVars, received>>
           /\ \E f \in Request : HoldsFrame(epq, f) /\ (Refused(f) \/ Pushed(f))
<1>1. /\ sPc = "flush" /\ CanPop(epq) /\ epq' = PopNext(epq)
      /\ UNCHANGED <<state, byControlPlane, sPc, after, workerVars, chan, net, driverVars,
                     clientVars, received>>
  BY DEF FlushTransfer
<1>2. outbox = <<>> /\ \E f \in Request : HoldsFrame(epq, f)
  BY <1>1, PopOnDrained DEF TypeInv
<1>3. PICK f \in Request : HoldsFrame(epq, f)
  BY <1>2
<1>4. PopTransfer(epq).frame = f /\ Drained(epq')
  BY <1>1, <1>3, PopOnOne
<1> DEFINE pushed == backend # "unmapped" /\ Fits(rx, f)
           filled == IF pushed THEN Append(rx, f) ELSE rx
<1>5. PICK out \in PushOutcomes(f) :
        LET filled1 == IF out.pushed THEN Append(rx, f) ELSE rx
            pumped == IF out.ok /\ backend = "mock"
                      THEN PumpOnce(filled1, tx)
                      ELSE [rx |-> filled1, tx |-> tx, lost |-> {}]
        IN  /\ rx' = pumped.rx
            /\ tx' = pumped.tx
            /\ dropped' = dropped \union pumped.lost
            /\ outbox' = IF out.ok THEN outbox ELSE Append(outbox, Refusal(f))
  BY <1>4 DEF FlushTransfer, Refusal
<1>6. /\ out.pushed = pushed
      /\ out.ok \in (IF backend = "unmapped" \/ ~Fits(rx, f) THEN {FALSE}
                     ELSE IF backend = "mapped" THEN BOOLEAN ELSE {TRUE})
  <2> DEFINE oks == IF backend = "unmapped" \/ ~Fits(rx, f) THEN {FALSE}
                    ELSE IF backend = "mapped" THEN BOOLEAN ELSE {TRUE}
  <2>1. PushOutcomes(f) = {[pushed |-> pushed, ok |-> ok] : ok \in oks}
    BY DEF PushOutcomes
  <2> HIDE DEF oks, pushed
  <2>2. PICK ok \in oks : out = [pushed |-> pushed, ok |-> ok]
    BY <2>1
  <2>3. out.pushed = pushed /\ out.ok = ok
    BY <2>2
  <2> QED
    BY <2>2, <2>3 DEF oks
<1>7. Append(outbox, Refusal(f)) = <<Refusal(f)>>
  BY <1>2, OneElement
<1>8. CASE out.ok = FALSE
  <2>1. rx' = filled /\ tx' = tx /\ dropped' = dropped /\ outbox' = <<Refusal(f)>>
    BY <1>5, <1>6, <1>7, <1>8
  <2>2. pushed => backend = "mapped" /\ Fits(rx, f)
    BY <1>6, <1>8
  <2>3. Refused(f)
    BY <2>1, <2>2 DEF Refused
  <2> QED
    BY <1>1, <1>2, <1>3, <1>4, <2>3
<1>9. CASE out.ok = TRUE
  <2>1. pushed /\ Fits(rx, f) /\ filled = Append(rx, f)
    BY <1>6, <1>9
  <2>2. outbox' = <<>>
    BY <1>2, <1>5, <1>9
  <2>3. CASE backend # "mock"
    <3>1. rx' = Append(rx, f) /\ tx' = tx /\ dropped' = dropped
      BY <1>5, <1>6, <2>1, <2>3
    <3>2. Pushed(f)
      BY <2>1, <2>2, <3>1 DEF Pushed
    <3> QED
      BY <1>1, <1>2, <1>3, <1>4, <3>2
  <2>4. CASE backend = "mock"
    <3> DEFINE r == Append(rx, f)
               p == PumpOnce(r, tx)
    <3>1. rx' = p.rx /\ tx' = p.tx /\ dropped' = dropped \union p.lost
      BY <1>5, <1>6, <1>9, <2>1, <2>4
    <3>2. \/ p.rx = r /\ p.tx = tx /\ p.lost = {}
          \/ /\ p.rx = Tail(r)
             /\ \/ Fits(tx, Head(r)) /\ p.tx = Append(tx, Head(r)) /\ p.lost = {}
                \/ p.tx = tx /\ p.lost = {Head(r).tag}
      <4> HIDE DEF r
      <4> QED
        BY DEF PumpOnce
    <3> HIDE DEF r, p
    <3>3. \/ rx' = r /\ tx' = tx /\ dropped' = dropped
          \/ /\ rx' = Tail(r)
             /\ \/ Fits(tx, Head(r)) /\ tx' = Append(tx, Head(r)) /\ dropped' = dropped
                \/ tx' = tx /\ dropped' = dropped \union {Head(r).tag}
      BY <3>1, <3>2
    <3>4. Pushed(f)
      BY <2>1, <2>2, <2>4, <3>3 DEF Pushed, r
    <3> QED
      BY <1>1, <1>2, <1>3, <1>4, <3>4
  <2> QED
    BY <2>3, <2>4
<1> QED
  BY <1>6, <1>8, <1>9

\* A frame pushed into a ring that has room, and one popped from it.
LEMMA RingKeepsTypes ==
    ASSUME NEW ring, RingTyped(ring)
    PROVE  /\ \A f \in Request : Fits(ring, f) => RingTyped(Append(ring, f))
           /\ ring # <<>> => Head(ring) \in Request /\ RingTyped(Tail(ring))
<1>1. ring \in Seq(Request) /\ Used(ring) \in Nat /\ Used(ring) <= RingSize /\ RingSize \in Nat
  BY UsedFacts, SessionAssumption DEF RingTyped
<1>2. ASSUME NEW f \in Request, Fits(ring, f)
      PROVE  RingTyped(Append(ring, f))
  <2>1. Append(ring, f) \in Seq(Request)
    BY <1>1
  <2> QED
    BY <1>1, <1>2, <2>1, UsedFacts DEF RingTyped, Fits
<1>3. ASSUME ring # <<>>
      PROVE  Head(ring) \in Request /\ RingTyped(Tail(ring))
  <2>1. Head(ring) \in Request /\ Tail(ring) \in Seq(Request)
    BY <1>1, <1>3, HeadTailProperties
  <2>2. Head(ring).size \in Nat
    BY <2>1 DEF Request
  <2>3. Used(Tail(ring)) \in Nat /\ Used(ring) = Head(ring).size + Used(Tail(ring))
    BY <1>1, <1>3, <2>1, UsedFacts
  <2> QED
    BY <1>1, <2>1, <2>2, <2>3 DEF RingTyped
<1> QED
  BY <1>2, <1>3

\* A step of the session task keeps the types.
LEMMA TaskKeepsTypes ==
    ASSUME SessionInv, TypeInv, SessionStep
    PROVE  TypeInv'
<1>1. /\ AttachTyped /\ TaskTyped /\ FlushTyped /\ RingTyped(rx) /\ RingTyped(tx)
      /\ WorkerTyped /\ LineTyped /\ HistoryTyped
  BY TypeParts DEF Parts
<1>2. ASSUME UNCHANGED <<state, byControlPlane, driverVars>>
      PROVE  AttachTyped'
  BY <1>1, <1>2 DEF AttachTyped, driverVars
<1>3. ASSUME UNCHANGED <<rx, tx>>
      PROVE  RingTyped(rx)' /\ RingTyped(tx)'
  BY <1>1, <1>3 DEF RingTyped
<1>4. ASSUME UNCHANGED workerVars
      PROVE  WorkerTyped'
  BY <1>1, <1>4 DEF WorkerTyped, workerVars
<1>5. ASSUME UNCHANGED <<chan, net, clientVars>>
      PROVE  LineTyped'
  BY <1>1, <1>5 DEF LineTyped, clientVars
<1>6. ASSUME UNCHANGED <<received, dropped>>
      PROVE  HistoryTyped'
  BY <1>1, <1>6 DEF HistoryTyped
<1>7. outbox \in Seq(OutFrames) /\ Len(outbox) \in Nat
  BY <1>1 DEF TaskTyped
<1>8. CASE ReadEof
  <2>1. TaskTyped' /\ FlushTyped'
    BY <1>1, <1>8 DEF ReadEof, TaskTyped, FlushTyped
  <2>2. /\ UNCHANGED <<state, byControlPlane, driverVars>> /\ UNCHANGED <<rx, tx>>
        /\ UNCHANGED workerVars /\ UNCHANGED <<chan, net, clientVars>>
        /\ UNCHANGED <<received, dropped>>
    BY <1>8 DEF ReadEof
  <2> QED
    BY <1>2, <1>3, <1>4, <1>5, <1>6, <2>1, <2>2, TypeParts DEF Parts
<1>9. CASE FlushTransfer
  <2>1. /\ sPc = "flush" /\ outbox = <<>> /\ Drained(epq')
        /\ UNCHANGED <<state, byControlPlane, sPc, after, workerVars, chan, net, driverVars,
                       clientVars, received>>
        /\ \E f \in Request : HoldsFrame(epq, f) /\ (Refused(f) \/ Pushed(f))
    BY <1>9, FlushEffect
  <2>2. PICK f \in Request : Refused(f) \/ Pushed(f)
    BY <2>1
  <2>3. RingTyped(rx)' /\ RingTyped(tx)' /\ HistoryTyped'
    <3> DEFINE r == Append(rx, f)
    <3>1. Fits(rx, f) => RingTyped(r) /\ r # <<>>
      <4>1. Fits(rx, f) => RingTyped(r)
        BY <1>1, RingKeepsTypes
      <4>2. r # <<>>
        <5>1. rx \in Seq(Request)
          BY <1>1 DEF RingTyped
        <5>2. Len(r) = Len(rx) + 1 /\ Len(rx) \in Nat
          BY <5>1
        <5>3. r = <<>> => Len(r) = 0
          OBVIOUS
        <5> HIDE DEF r
        <5> QED
          BY <5>2, <5>3
      <4> HIDE DEF r
      <4> QED
        BY <4>1, <4>2
    <3> HIDE DEF r
    <3>2. Fits(rx, f) => Head(r) \in Request /\ RingTyped(Tail(r))
      BY <3>1, RingKeepsTypes
    <3>3. CASE Refused(f)
      <4>1. (rx' = rx \/ (Fits(rx, f) /\ rx' = r)) /\ tx' = tx /\ dropped' = dropped
        BY <3>3 DEF Refused, r
      <4>2. RingTyped(rx)' /\ RingTyped(tx)'
        BY <1>1, <3>1, <4>1 DEF RingTyped
      <4>3. received' = received
        BY <2>1
      <4> QED
        BY <1>1, <4>1, <4>2, <4>3 DEF HistoryTyped
    <3>4. CASE Pushed(f)
      <4>1. /\ Fits(rx, f)
            /\ \/ rx' = r /\ tx' = tx /\ dropped' = dropped
               \/ rx' = Tail(r) /\ Fits(tx, Head(r)) /\ tx' = Append(tx, Head(r)) /\ dropped' = dropped
               \/ rx' = Tail(r) /\ tx' = tx /\ dropped' = dropped \union {Head(r).tag}
        BY <3>4 DEF Pushed, r
      <4>2. RingTyped(rx)'
        BY <3>1, <3>2, <4>1 DEF RingTyped
      <4>3. RingTyped(tx)'
        <5>1. Fits(tx, Head(r)) => RingTyped(Append(tx, Head(r)))
          BY <1>1, <3>2, <4>1, RingKeepsTypes
        <5> QED
          BY <1>1, <4>1, <5>1 DEF RingTyped
      <4>4. HistoryTyped'
        <5>1. Head(r).tag \in Nat
          BY <3>2, <4>1 DEF Request
        <5> QED
          BY <1>1, <2>1, <4>1, <5>1 DEF HistoryTyped
      <4> QED
        BY <4>2, <4>3, <4>4
    <3> QED
      BY <2>2, <3>3, <3>4
  <2>4. TaskTyped'
    <3>1. Refusal(f) \in OutFrames
      <4>1. f.id \in Nat /\ f.tag \in Nat
        BY DEF Request
      <4>2. Answer("Response", f, "Failed") \in Response
        BY <4>1, AnswerTyped
      <4> QED
        BY <4>2, EchoTyped DEF Refusal
    <3>2. outbox' = <<Refusal(f)>> \/ outbox' = <<>>
      BY <2>2 DEF Refused, Pushed
    <3>3. outbox' \in Seq(OutFrames)
      <4> DEFINE x == Refusal(f)
      <4>1. x \in OutFrames /\ (outbox' = <<x>> \/ outbox' = <<>>)
        BY <3>1, <3>2
      <4> HIDE DEF x
      <4>2. <<x>> \in Seq(OutFrames)
        BY <4>1, OneElement
      <4>3. <<>> \in Seq(OutFrames)
        OBVIOUS
      <4> QED
        BY <4>1, <4>2, <4>3
    <3> QED
      BY <1>1, <2>1, <3>3 DEF TaskTyped
  <2>5. FlushTyped'
    BY <2>1 DEF FlushTyped
  <2>6. /\ UNCHANGED <<state, byControlPlane, driverVars>>
        /\ UNCHANGED workerVars /\ UNCHANGED <<chan, net, clientVars>>
    BY <2>1
  <2> QED
    BY <1>2, <1>4, <1>5, <2>3, <2>4, <2>5, <2>6, TypeParts DEF Parts
<1>10. CASE FlushDone
  <2>1. TaskTyped' /\ FlushTyped'
    BY <1>1, <1>10 DEF FlushDone, TaskTyped, FlushTyped
  <2>2. /\ UNCHANGED <<state, byControlPlane, driverVars>> /\ UNCHANGED <<rx, tx>>
        /\ UNCHANGED workerVars /\ UNCHANGED <<chan, net, clientVars>>
        /\ UNCHANGED <<received, dropped>>
    BY <1>10 DEF FlushDone
  <2> QED
    BY <1>2, <1>3, <1>4, <1>5, <1>6, <2>1, <2>2, TypeParts DEF Parts
<1>11. CASE TakeFromChannel
  <2>1. chan \in Seq(Response) /\ chan # <<>> /\ Len(chan) \in Nat /\ Len(chan) <= ChanCap
    BY <1>1, <1>11 DEF TakeFromChannel, LineTyped
  <2>2. /\ Head(chan) \in Response /\ Tail(chan) \in Seq(Response)
        /\ Len(Tail(chan)) = Len(chan) - 1
    BY <2>1, HeadTailProperties
  <2>3. LineTyped'
    <3>1. chan' = Tail(chan) /\ UNCHANGED <<net, clientVars>>
      BY <1>11 DEF TakeFromChannel
    <3>2. ChanCap \in Nat
      BY SessionAssumption
    <3>3. Len(Tail(chan)) <= ChanCap
      BY <2>1, <2>2, <3>2
    <3> QED
      BY <1>1, <2>2, <3>1, <3>3 DEF LineTyped, clientVars
  <2>4. TaskTyped' /\ FlushTyped'
    <3> DEFINE o == Out(Head(chan), "break")
    <3>1. o \in OutFrames
      BY <2>2, EchoTyped
    <3>2. outbox' = <<o>> /\ sPc' = "send" /\ after' = "select"
      BY <1>11 DEF TakeFromChannel
    <3> HIDE DEF o
    <3>3. <<o>> \in Seq(OutFrames) /\ <<o>> # <<>>
      BY <3>1
    <3> QED
      BY <3>2, <3>3 DEF TaskTyped, FlushTyped
  <2>5. /\ UNCHANGED <<state, byControlPlane, driverVars>> /\ UNCHANGED <<rx, tx>>
        /\ UNCHANGED workerVars /\ UNCHANGED <<received, dropped>>
    BY <1>11 DEF TakeFromChannel
  <2> QED
    BY <1>2, <1>3, <1>4, <1>6, <2>3, <2>4, <2>5, TypeParts DEF Parts
<1>12. CASE SendFrame
  <2>1. sPc = "send" /\ outbox # <<>>
    BY <1>1, <1>12 DEF SendFrame, TaskTyped
  <2>2. /\ Head(outbox) \in OutFrames /\ Tail(outbox) \in Seq(OutFrames)
        /\ Len(Tail(outbox)) = Len(outbox) - 1 /\ Head(outbox).frame \in Response
    <3>1. /\ Head(outbox) \in OutFrames /\ Tail(outbox) \in Seq(OutFrames)
          /\ Len(Tail(outbox)) = Len(outbox) - 1
      BY <1>7, <2>1, HeadTailProperties
    <3> QED
      BY <3>1 DEF OutFrames
  <2> DEFINE h == Head(outbox).frame
  <2>3. TaskTyped' /\ FlushTyped'
    <3>1. /\ outbox' = Tail(outbox) /\ after' = after
          /\ sPc' = IF Len(outbox) = 1 THEN after ELSE "send"
      BY <1>12 DEF SendFrame
    <3>2. Tail(outbox) = <<>> <=> Len(outbox) = 1
      BY <1>7, <2>2, EmptySeq
    <3> QED
      BY <1>1, <2>2, <3>1, <3>2 DEF TaskTyped, FlushTyped
  <2>4. LineTyped'
    <3>1. /\ net' = (IF peer = "open" THEN Append(net, h) ELSE net)
          /\ peer = "open" => Len(net) < NetCap
          /\ UNCHANGED <<chan, clientVars>>
      BY <1>12 DEF SendFrame
    <3>2. net \in Seq(Response) /\ Len(net) \in Nat /\ Len(net) <= NetCap /\ NetCap \in Nat
      BY <1>1, SessionAssumption DEF LineTyped
    <3> HIDE DEF h
    <3>3. h \in Response
      BY <2>2 DEF h
    <3>4. Append(net, h) \in Seq(Response) /\ Len(Append(net, h)) = Len(net) + 1
      BY <3>2, <3>3
    <3>5. net' \in Seq(Response) /\ Len(net') <= NetCap
      BY <3>1, <3>2, <3>4
    <3> QED
      BY <1>1, <3>1, <3>5 DEF LineTyped, clientVars
  <2>5. HistoryTyped'
    <3>1. Tags(<<h>>) \subseteq Nat
      <4> HIDE DEF h
      <4>1. h \in Response
        BY <2>2 DEF h
      <4>2. h.of \in Nat /\ Len(<<h>>) = 1 /\ <<h>>[1] = h /\ \A i \in 1 .. 1 : i = 1
        BY <4>1, OneElement DEF Response
      <4> QED
        BY <4>2 DEF Tags
    <3>2. dropped' = dropped \/ dropped' = dropped \union Tags(<<h>>)
      BY <1>12 DEF SendFrame
    <3>3. received' = received
      BY <1>12 DEF SendFrame
    <3> QED
      BY <1>1, <3>1, <3>2, <3>3 DEF HistoryTyped
  <2>6. /\ UNCHANGED <<state, byControlPlane, driverVars>> /\ UNCHANGED <<rx, tx>>
        /\ UNCHANGED workerVars
    BY <1>12 DEF SendFrame
  <2> QED
    BY <1>2, <1>3, <1>4, <2>3, <2>4, <2>5, <2>6, TypeParts DEF Parts
<1>13. CASE SendError
  <2>1. TaskTyped' /\ FlushTyped'
    BY <1>1, <1>13 DEF SendError, TaskTyped, FlushTyped
  <2>2. HistoryTyped'
    <3> DEFINE b == OutboxFrames(outbox)
    <3>1. Len(b) = Len(outbox) /\ \A i \in 1 .. Len(b) : b[i].of \in Nat
      <4>1. Len(b) = Len(outbox) /\ \A i \in 1 .. Len(outbox) : b[i] = outbox[i].frame
        BY <1>7 DEF OutboxFrames
      <4>2. ASSUME NEW i \in 1 .. Len(outbox)
            PROVE  outbox[i].frame.of \in Nat
        <5>1. outbox[i] \in OutFrames
          BY <1>7, ElementOfSeq
        <5> QED
          BY <5>1 DEF OutFrames, Response
      <4> HIDE DEF b
      <4> QED
        BY <4>1, <4>2
    <3>2. Tags(b) \subseteq Nat
      <4> HIDE DEF b
      <4> QED
        BY <3>1 DEF Tags
    <3>3. dropped' = dropped \union Tags(b) /\ received' = received
      BY <1>13 DEF SendError
    <3> QED
      BY <1>1, <3>2, <3>3 DEF HistoryTyped
  <2>3. /\ UNCHANGED <<state, byControlPlane, driverVars>> /\ UNCHANGED <<rx, tx>>
        /\ UNCHANGED workerVars /\ UNCHANGED <<chan, net, clientVars>>
    BY <1>13 DEF SendError
  <2> QED
    BY <1>2, <1>3, <1>4, <1>5, <2>1, <2>2, <2>3, TypeParts DEF Parts
<1>14. CASE Cleanup
  <2>1. AttachTyped'
    BY <1>1, <1>14, AttachKeepsTypes DEF Cleanup
  <2>2. TaskTyped' /\ FlushTyped'
    BY <1>1, <1>14 DEF Cleanup, TaskTyped, FlushTyped
  <2>3. WorkerTyped'
    BY <1>1, <1>14 DEF Cleanup, WorkerTyped
  <2>4. UNCHANGED <<rx, tx>> /\ UNCHANGED <<chan, net, clientVars>> /\ UNCHANGED <<received, dropped>>
    BY <1>14 DEF Cleanup
  <2> QED
    BY <1>3, <1>5, <1>6, <2>1, <2>2, <2>3, <2>4, TypeParts DEF Parts
<1>15. CASE Join
  <2>1. AttachTyped'
    BY <1>1, <1>15 DEF Join, AttachTyped, driverVars
  <2>2. TaskTyped' /\ FlushTyped'
    BY <1>1, <1>15 DEF Join, TaskTyped, FlushTyped
  <2>3. /\ UNCHANGED <<rx, tx>> /\ UNCHANGED workerVars
        /\ UNCHANGED <<chan, net, clientVars>> /\ UNCHANGED <<received, dropped>>
    BY <1>15 DEF Join
  <2> QED
    BY <1>3, <1>4, <1>5, <1>6, <2>1, <2>2, <2>3, TypeParts DEF Parts
<1> QED
  BY <1>8, <1>9, <1>10, <1>11, <1>12, <1>13, <1>14, <1>15 DEF SessionStep

\* A step of the worker or of the client keeps the types.
LEMMA OthersKeepTypes ==
    ASSUME TypeInv, Worker \/ Client \/ UNCHANGED vars
    PROVE  TypeInv'
<1>1. /\ AttachTyped /\ TaskTyped /\ FlushTyped /\ RingTyped(rx) /\ RingTyped(tx)
      /\ WorkerTyped /\ LineTyped /\ HistoryTyped
  BY TypeParts DEF Parts
<1>2. UNCHANGED sessionVars /\ UNCHANGED driverVars /\ UNCHANGED rx /\ UNCHANGED received
  BY DEF Worker, WorkerCheck, WorkerPoll, WorkerSend, Client, ClientRead, ClientClose, vars
<1>3. AttachTyped' /\ TaskTyped' /\ FlushTyped' /\ RingTyped(rx)'
  BY <1>1, <1>2 DEF sessionVars, driverVars, AttachTyped, TaskTyped, FlushTyped, RingTyped
<1>4. CASE WorkerCheck
  <2>1. WorkerTyped'
    BY <1>1, <1>4 DEF WorkerCheck, WorkerTyped
  <2> QED
    BY <1>1, <1>3, <1>4, <2>1, TypeParts DEF Parts, WorkerCheck, RingTyped, LineTyped, HistoryTyped,
       clientVars
<1>5. CASE WorkerPoll
  <2>1. UNCHANGED <<chan, net, clientVars, received, dropped, cancelled>> /\ wPc = "poll"
    BY <1>5 DEF WorkerPoll
  <2>2. RingTyped(tx)' /\ WorkerTyped'
    <3>1. CASE TxFrameReady
      <4> DEFINE e == Echo(Head(tx))
      <4>1. tx # <<>> /\ wFrame' = <<e>> /\ tx' = Tail(tx) /\ wPc' = "send"
        BY <1>5, <3>1 DEF WorkerPoll, TxFrameReady
      <4>2. Head(tx) \in Request /\ RingTyped(Tail(tx))
        BY <1>1, <4>1, RingKeepsTypes
      <4>3. e \in Response
        BY <4>2, EchoTyped
      <4> HIDE DEF e
      <4>4. <<e>> \in Seq(Response) /\ Len(<<e>>) = 1
        BY <4>3, OneElement
      <4>5. RingTyped(tx)'
        BY <4>1, <4>2 DEF RingTyped
      <4> QED
        BY <1>1, <2>1, <4>1, <4>4, <4>5 DEF WorkerTyped
    <3>2. CASE ~TxFrameReady
      BY <1>1, <1>5, <3>2 DEF WorkerPoll, RingTyped, WorkerTyped
    <3> QED
      BY <3>1, <3>2
  <2> QED
    BY <1>1, <1>3, <2>1, <2>2, TypeParts DEF Parts, LineTyped, HistoryTyped, clientVars
<1>6. CASE WorkerSend
  <2>1. /\ UNCHANGED <<tx, net, clientVars, received, dropped, cancelled>> /\ wPc = "send"
        /\ chan' = chan \o wFrame /\ wFrame' = <<>> /\ wPc' = "check" /\ Len(chan) < ChanCap
    BY <1>6 DEF WorkerSend
  <2>2. WorkerTyped'
    BY <1>1, <2>1 DEF WorkerTyped
  <2>3. LineTyped'
    <3>1. /\ chan \in Seq(Response) /\ wFrame \in Seq(Response) /\ Len(wFrame) = 1
          /\ ChanCap \in Nat /\ Len(chan) \in Nat
      BY <1>1, <2>1, SessionAssumption DEF WorkerTyped, LineTyped
    <3>2. chan \o wFrame \in Seq(Response) /\ Len(chan \o wFrame) = Len(chan) + 1
      <4>1. chan \o wFrame \in Seq(Response) /\ Len(chan \o wFrame) = Len(chan) + Len(wFrame)
        BY <3>1, ConcatProperties
      <4> QED
        BY <3>1, <4>1
    <3>3. chan' \in Seq(Response) /\ Len(chan') <= ChanCap
      BY <2>1, <3>1, <3>2
    <3> QED
      BY <1>1, <2>1, <3>3 DEF LineTyped, clientVars
  <2> QED
    BY <1>1, <1>3, <2>1, <2>2, <2>3, TypeParts DEF Parts, RingTyped, HistoryTyped
<1>7. CASE ClientRead
  <2>1. /\ UNCHANGED <<tx, workerVars, chan, peer, received, dropped>> /\ net # <<>>
        /\ net' = Tail(net) /\ delivered' = Append(delivered, Head(net))
    BY <1>7 DEF ClientRead
  <2>2. LineTyped'
    <3>1. net \in Seq(Response) /\ Len(net) \in Nat /\ NetCap \in Nat /\ delivered \in Seq(Response)
      BY <1>1, SessionAssumption DEF LineTyped
    <3>2. Head(net) \in Response /\ Tail(net) \in Seq(Response) /\ Len(Tail(net)) = Len(net) - 1
      BY <2>1, <3>1, HeadTailProperties
    <3>3. net' \in Seq(Response) /\ Len(net') <= NetCap
      BY <1>1, <2>1, <3>1, <3>2 DEF LineTyped
    <3>4. delivered' \in Seq(Response)
      BY <2>1, <3>1, <3>2
    <3> QED
      BY <1>1, <2>1, <3>3, <3>4 DEF LineTyped
  <2> QED
    BY <1>1, <1>3, <2>1, <2>2, TypeParts DEF Parts, RingTyped, WorkerTyped, HistoryTyped, workerVars
<1>8. CASE ClientClose
  <2>1. /\ UNCHANGED <<tx, workerVars, chan, delivered, received>>
        /\ net' = <<>> /\ peer' = "closed" /\ dropped' = dropped \union Tags(net)
    BY <1>8 DEF ClientClose
  <2>2. LineTyped'
    BY <1>1, <2>1, SessionAssumption DEF LineTyped
  <2>3. Tags(net) \subseteq Nat
    <3>1. net \in Seq(Response)
      BY <1>1 DEF LineTyped
    <3>2. ASSUME NEW i \in 1 .. Len(net)
          PROVE  net[i].of \in Nat
      <4>1. net[i] \in Response
        BY <3>1, ElementOfSeq
      <4> QED
        BY <4>1 DEF Response
    <3> QED
      BY <3>2 DEF Tags
  <2>4. HistoryTyped'
    BY <1>1, <2>1, <2>3 DEF HistoryTyped
  <2> QED
    BY <1>1, <1>3, <2>1, <2>2, <2>4, TypeParts DEF Parts, RingTyped, WorkerTyped, workerVars
<1>9. CASE UNCHANGED vars
  BY <1>1, <1>3, <1>9, TypeParts DEF Parts, vars, RingTyped, WorkerTyped, LineTyped, HistoryTyped,
     workerVars, clientVars
<1> QED
  BY <1>4, <1>5, <1>6, <1>7, <1>8, <1>9 DEF Worker, Client

\* Every variable keeps its type, and the rings, the channel and the connection
\* their capacity.
LEMMA AlwaysTyped == Spec => [](SessionInv /\ TypeInv)
<1>1. Init => TypeInv
  <2> SUFFICES ASSUME Init PROVE Parts
    <3>1. Parts => TypeInv
      BY DEF TypeInv, TypeOK, Parts, AttachTyped, TaskTyped, FlushTyped, RingTyped, WorkerTyped,
             LineTyped, HistoryTyped, OutFrames
    <3> QED
      BY <3>1
  <2>1. <<>> \in Seq(Request) /\ Used(<<>>) = 0 /\ RingSize \in Nat
    <3>1. <<>> \in Seq(Request)
      OBVIOUS
    <3> QED
      BY <3>1, UsedFacts, SessionAssumption
  <2>2. RingTyped(rx) /\ RingTyped(tx)
    BY <2>1 DEF Init, RingTyped
  <2>3. AttachTyped
    BY DEF Init, AttachmentInit, AttachTyped
  <2>4. TaskTyped /\ FlushTyped /\ WorkerTyped
    <3>1. TaskTyped /\ FlushTyped
      BY DEF Init, TaskTyped, FlushTyped
    <3>2. WorkerTyped
      <4>1. wPc = "check" /\ wFrame = <<>> /\ cancelled = FALSE
        BY DEF Init
      <4>2. wFrame \in Seq(Response)
        BY <4>1
      <4>3. (wPc = "send") = (Len(wFrame) = 1)
        BY <4>1
      <4> QED
        BY <4>1, <4>2, <4>3 DEF WorkerTyped
    <3> QED
      BY <3>1, <3>2
  <2>5. LineTyped /\ HistoryTyped
    BY SessionAssumption DEF Init, LineTyped, HistoryTyped
  <2> QED
    BY <2>2, <2>3, <2>4, <2>5 DEF Parts
<1>2. SessionInv /\ TypeInv /\ [Next]_vars => TypeInv'
  BY FrameKeepsTypes, TaskKeepsTypes, OthersKeepTypes DEF Next
<1> QED
  BY <1>1, <1>2, AlwaysSession, PTL DEF Spec

\* The state keeps its types: the rings never hold more than their capacity, nor
\* the channel and the connection, however large the frames of the client are
\* (session.rs:39; mapped_ring.rs:54-63;
\* driver_backend.rs:66).
THEOREM SessionTypeCorrect == Spec => []TypeOK
<1>1. TypeInv => TypeOK
  BY DEF TypeInv
<1> QED
  BY <1>1, AlwaysTyped, PTL

-----------------------------------------------------------------------------
(* Rows of answers                                                         *)

\* The answers in the places of the daemon, from the client back to the endpoint
\* queues: Places, and the transfers that wait in the queues as the eighth.
Rows == [1 .. 8 -> Seq(Response)]

SpotsOf(P) == UNION {{<<p, i>> : i \in 1 .. Len(P[p])} : p \in 1 .. 8}

Driven(P, s) == P[s[1]][s[2]].via = "driver"

IsAnswer(P, s) == P[s[1]][s[2]].kind = "Response"

Of(P, s) == P[s[1]][s[2]].of

\* The frames whose answers are held somewhere.
Held(P) == {Of(P, s) : s \in {r \in SpotsOf(P) : IsAnswer(P, r)}}

\* The echoes are in the order of their requests.
Ordered(P) ==
    \A s, r \in SpotsOf(P) : Ahead(s, r) /\ Driven(P, s) /\ Driven(P, r) => Of(P, s) < Of(P, r)

\* No frame has two answers, but for those that are in the places L (the mapped
\* RX ring, where a frame may be although it was answered).
Unique(P, L) ==
    \A s, r \in SpotsOf(P) :
        IsAnswer(P, s) /\ IsAnswer(P, r) /\ Of(P, s) = Of(P, r) => s = r \/ s[1] \in L \/ r[1] \in L

\* An echo is an answer, and the answers are those of the first n frames.
Numbered(P, n) ==
    \A s \in SpotsOf(P) : /\ Driven(P, s) => IsAnswer(P, s)
                          /\ IsAnswer(P, s) => Of(P, s) \in 1 .. n

\* What was asked for is held, or its answer is gone.
Accounted(P, gone, asked) == \A k \in asked : k \in gone <=> k \notin Held(P)

RowInv(P, L, n, gone, asked) ==
    /\ P \in Rows /\ Ordered(P) /\ Unique(P, L) /\ Numbered(P, n) /\ gone \subseteq 1 .. n
    /\ L = {} => Accounted(P, gone, asked)

\* Each answer of R is one of P, at o; no two are the same one but in the places
\* L, and the echoes of R are in the order of those of P.
Traces(o, R, P, L) ==
    \A s \in SpotsOf(R) :
        /\ o[s] \in SpotsOf(P) /\ Of(R, s) = Of(P, o[s]) /\ (IsAnswer(R, s) <=> IsAnswer(P, o[s]))
        /\ Driven(R, s) => Driven(P, o[s])
        /\ o[s][1] \in L => s[1] \in L
        /\ \A r \in SpotsOf(R) :
            /\ Ahead(s, r) /\ Driven(R, s) /\ Driven(R, r) => Ahead(o[s], o[r])
            /\ o[s] = o[r] => s = r \/ s[1] \in L \/ r[1] \in L

\* Answers that come from others keep their order, and are no more than those.
LEMMA TracedRow ==
    ASSUME NEW P \in Rows, NEW R \in Rows, NEW L, NEW n, NEW o, Traces(o, R, P, L),
           Ordered(P), Unique(P, L), Numbered(P, n)
    PROVE  Ordered(R) /\ Unique(R, L) /\ Numbered(R, n) /\ Held(R) \subseteq Held(P)
<1>1. Ordered(R)
  <2>1. SUFFICES ASSUME NEW s \in SpotsOf(R), NEW r \in SpotsOf(R), Ahead(s, r), Driven(R, s), Driven(R, r)
                 PROVE  Of(R, s) < Of(R, r)
    BY DEF Ordered
  <2>2. /\ o[s] \in SpotsOf(P) /\ o[r] \in SpotsOf(P) /\ Ahead(o[s], o[r])
        /\ Driven(P, o[s]) /\ Driven(P, o[r]) /\ Of(R, s) = Of(P, o[s]) /\ Of(R, r) = Of(P, o[r])
    BY <2>1 DEF Traces
  <2> QED
    BY <2>2 DEF Ordered
<1>2. Unique(R, L)
  <2>1. SUFFICES ASSUME NEW s \in SpotsOf(R), NEW r \in SpotsOf(R), IsAnswer(R, s), IsAnswer(R, r),
                        Of(R, s) = Of(R, r)
                 PROVE  s = r \/ s[1] \in L \/ r[1] \in L
    BY DEF Unique
  <2>2. /\ o[s] \in SpotsOf(P) /\ o[r] \in SpotsOf(P)
        /\ IsAnswer(P, o[s]) /\ IsAnswer(P, o[r]) /\ Of(P, o[s]) = Of(P, o[r])
    BY <2>1 DEF Traces
  <2>3. o[s] = o[r] \/ o[s][1] \in L \/ o[r][1] \in L
    BY <2>2 DEF Unique
  <2> QED
    BY <2>3 DEF Traces
<1>3. Numbered(R, n)
  BY DEF Numbered, Traces
<1>4. Held(R) \subseteq Held(P)
  BY DEF Held, Traces
<1> QED
  BY <1>1, <1>2, <1>3, <1>4

\* The spots of a row.
LEMMA SpotFacts ==
    ASSUME NEW P \in Rows
    PROVE  /\ \A p \in 1 .. 8 : P[p] \in Seq(Response) /\ Len(P[p]) \in Nat
           /\ \A p \in 1 .. 8, i \in Nat : <<p, i>> \in SpotsOf(P) <=> i \in 1 .. Len(P[p])
           /\ \A s \in SpotsOf(P) : s = <<s[1], s[2]>> /\ s[1] \in 1 .. 8 /\ s[2] \in 1 .. Len(P[s[1]])
                                   /\ s[2] \in Nat
<1>1. \A p \in 1 .. 8 : P[p] \in Seq(Response) /\ Len(P[p]) \in Nat
  BY DEF Rows
<1>2. ASSUME NEW s \in SpotsOf(P)
      PROVE  \E p \in 1 .. 8 : \E i \in 1 .. Len(P[p]) : s = <<p, i>>
  BY DEF SpotsOf
<1>3. ASSUME NEW p \in 1 .. 8, NEW i \in 1 .. Len(P[p])
      PROVE  <<p, i>> \in SpotsOf(P)
  BY DEF SpotsOf
<1>4. ASSUME NEW p, NEW i, NEW q, NEW j, <<p, i>> = <<q, j>>
      PROVE  p = q /\ i = j
  BY <1>4
<1>5. ASSUME NEW p, NEW i, <<p, i>> \in SpotsOf(P)
      PROVE  i \in 1 .. Len(P[p])
  <2>1. PICK q \in 1 .. 8 : \E j \in 1 .. Len(P[q]) : <<p, i>> = <<q, j>>
    BY <1>2, <1>5
  <2>2. PICK j \in 1 .. Len(P[q]) : <<p, i>> = <<q, j>>
    BY <2>1
  <2>3. p = q /\ i = j
    BY <1>4, <2>2
  <2> QED
    BY <2>3
<1>6. ASSUME NEW s \in SpotsOf(P)
      PROVE  s = <<s[1], s[2]>> /\ s[1] \in 1 .. 8 /\ s[2] \in 1 .. Len(P[s[1]]) /\ s[2] \in Nat
  <2>1. PICK p \in 1 .. 8 : \E i \in 1 .. Len(P[p]) : s = <<p, i>>
    BY <1>2
  <2>2. PICK i \in 1 .. Len(P[p]) : s = <<p, i>>
    BY <2>1
  <2>3. s[1] = p /\ s[2] = i
    BY <2>2
  <2> QED
    BY <2>2, <2>3
<1>7. \A p \in 1 .. 8, i \in Nat : <<p, i>> \in SpotsOf(P) <=> i \in 1 .. Len(P[p])
  BY <1>3, <1>5, Zenon
<1> QED
  BY <1>1, <1>6, <1>7, Zenon

LEMMA SpotIn ==
    ASSUME NEW P, NEW s, s = <<s[1], s[2]>>, s[1] \in 1 .. 8, s[2] \in 1 .. Len(P[s[1]])
    PROVE  s \in SpotsOf(P)
<1>1. \A p \in 1 .. 8 : \A i \in 1 .. Len(P[p]) : <<p, i>> \in SpotsOf(P)
  BY DEF SpotsOf
<1>2. <<s[1], s[2]>> \in SpotsOf(P)
  BY <1>1, Zenon
<1> QED
  BY <1>2, Zenon

\* A place gives up its first m - 1 answers, and they are gone.
LEMMA CutRow ==
    ASSUME NEW P \in Rows, NEW R \in Rows, NEW L, NEW n, NEW gone, NEW asked, NEW cut,
           RowInv(P, L, n, gone, asked),
           NEW c \in 1 .. 8, NEW m \in 1 .. Len(P[c]) + 1,
           \A p \in (1 .. 8) \ {c} : R[p] = P[p],
           R[c] = SubSeq(P[c], m, Len(P[c])),
           cut = {Of(P, <<c, i>>) : i \in {j \in 1 .. (m - 1) : IsAnswer(P, <<c, j>>)}}
    PROVE  RowInv(R, L, n, gone \union cut, asked)
<1> DEFINE o == [s \in SpotsOf(R) |-> IF s[1] = c THEN <<c, s[2] + (m - 1)>> ELSE s]
<1>1. /\ Len(R[c]) = Len(P[c]) - m + 1 /\ Len(P[c]) \in Nat
      /\ \A i \in 1 .. Len(R[c]) : R[c][i] = P[c][i + (m - 1)]
  <2> DEFINE w == P[c]
  <2>1. w \in Seq(Response) /\ Len(w) \in Nat
    BY SpotFacts
  <2> HIDE DEF w
  <2>2. /\ Len(SubSeq(w, m, Len(w))) = Len(w) - m + 1
        /\ \A i \in 1 .. Len(w) - m + 1 : SubSeq(w, m, Len(w))[i] = w[m + i - 1]
    <3>1. \A i \in m .. Len(w) : w[i] \in Response
      BY <2>1, ElementOfSeq DEF w
    <3>2. Len(w) \in Int /\ m \in Int /\ (IF m <= Len(w) THEN Len(w) - m + 1 ELSE 0) = Len(w) - m + 1
      BY <2>1 DEF w
    <3> QED
      BY <3>1, <3>2, SubSeqProperties
  <2>3. \A i \in Nat : m + i - 1 = i + (m - 1)
    BY <2>1
  <2> QED
    BY <2>1, <2>2, <2>3 DEF w
<1>2. ASSUME NEW s \in SpotsOf(R)
      PROVE  /\ o[s] \in SpotsOf(P) /\ o[s][1] = s[1] /\ P[o[s][1]][o[s][2]] = R[s[1]][s[2]]
             /\ o[s][2] = IF s[1] = c THEN s[2] + (m - 1) ELSE s[2]
  <2>1. s = <<s[1], s[2]>> /\ s[1] \in 1 .. 8 /\ s[2] \in 1 .. Len(R[s[1]])
    BY SpotFacts
  <2>2. CASE s[1] = c
    <3>1. o[s] = <<c, s[2] + (m - 1)>>
      BY <2>2
    <3>2. o[s][1] = c /\ o[s][2] = s[2] + (m - 1)
      BY <3>1
    <3>3. s[2] + (m - 1) \in 1 .. Len(P[c])
      BY <1>1, <2>1, <2>2
    <3>4. o[s] \in SpotsOf(P)
      <4>1. o[s] = <<o[s][1], o[s][2]>> /\ o[s][1] \in 1 .. 8 /\ o[s][2] \in 1 .. Len(P[o[s][1]])
        BY <3>1, <3>2, <3>3
      <4> QED
        BY <4>1, SpotIn, Zenon
    <3> HIDE DEF o
    <3> QED
      BY <1>1, <2>1, <2>2, <3>2, <3>4
  <2>3. CASE s[1] # c
    <3>1. o[s] = s
      BY <2>3
    <3> HIDE DEF o
    <3>2. s[2] \in 1 .. Len(P[s[1]])
      BY <2>1, <2>3
    <3>3. s \in SpotsOf(P)
      BY <2>1, <3>2, SpotIn, Zenon
    <3> QED
      BY <2>1, <2>3, <3>1, <3>3
  <2> QED
    BY <2>2, <2>3
<1>3. ASSUME NEW s \in SpotsOf(R), NEW r \in SpotsOf(R)
      PROVE  /\ Ahead(s, r) => Ahead(o[s], o[r])
             /\ o[s] = o[r] => s = r
  <2>1. /\ s = <<s[1], s[2]>> /\ s[1] \in 1 .. 8 /\ s[2] \in Nat
        /\ r = <<r[1], r[2]>> /\ r[1] \in 1 .. 8 /\ r[2] \in Nat
    BY SpotFacts
  <2>2. /\ o[s][1] = s[1] /\ o[s][2] = (IF s[1] = c THEN s[2] + (m - 1) ELSE s[2])
        /\ o[r][1] = r[1] /\ o[r][2] = (IF r[1] = c THEN r[2] + (m - 1) ELSE r[2])
    BY <1>2
  <2> HIDE DEF o
  <2>3. Ahead(s, r) => Ahead(o[s], o[r])
    BY <1>1, <2>1, <2>2 DEF Ahead
  <2>4. o[s] = o[r] => s[1] = r[1] /\ s[2] = r[2]
    BY <1>1, <2>1, <2>2
  <2> QED
    BY <2>1, <2>3, <2>4
<1> HIDE DEF o
<1>4. Traces(o, R, P, L)
  BY <1>2, <1>3 DEF Traces, Of, IsAnswer, Driven
<1>5. /\ Ordered(R) /\ Unique(R, L) /\ Numbered(R, n) /\ Held(R) \subseteq Held(P)
  BY <1>4, TracedRow DEF RowInv
<1>10. \A j \in 1 .. (m - 1) : j \in Nat /\ j \in 1 .. Len(P[c])
  BY <1>1
<1>6. cut \subseteq 1 .. n /\ cut \subseteq Held(P)
  <2> SUFFICES ASSUME NEW j \in 1 .. (m - 1), IsAnswer(P, <<c, j>>)
               PROVE  Of(P, <<c, j>>) \in 1 .. n /\ Of(P, <<c, j>>) \in Held(P)
    OBVIOUS
  <2>1. <<c, j>> \in SpotsOf(P)
    BY <1>10, SpotFacts
  <2> QED
    BY <2>1 DEF RowInv, Numbered, Held
<1>7. Held(P) \subseteq Held(R) \union cut
  <2> SUFFICES ASSUME NEW s \in SpotsOf(P), IsAnswer(P, s)
               PROVE  Of(P, s) \in Held(R) \union cut
    BY DEF Held
  <2>1. s = <<s[1], s[2]>> /\ s[1] \in 1 .. 8 /\ s[2] \in 1 .. Len(P[s[1]])
    BY SpotFacts
  <2>2. CASE s[1] = c /\ s[2] < m
    <3>1. s[2] \in 1 .. (m - 1) /\ s = <<c, s[2]>>
      BY <1>1, <2>1, <2>2
    <3> QED
      BY <3>1
  <2>3. CASE s[1] = c /\ s[2] >= m
    <3>1. s[2] - (m - 1) \in 1 .. Len(R[c]) /\ s[2] - (m - 1) \in Nat
      BY <1>1, <2>1, <2>3
    <3>2. <<c, s[2] - (m - 1)>> \in SpotsOf(R)
      BY <3>1, SpotFacts
    <3>3. R[c][s[2] - (m - 1)] = P[c][s[2]]
      <4>1. (s[2] - (m - 1)) + (m - 1) = s[2]
        BY <1>1, <2>1, <2>3
      <4> QED
        BY <1>1, <3>1, <4>1
    <3>4. /\ IsAnswer(R, <<c, s[2] - (m - 1)>>) /\ Of(R, <<c, s[2] - (m - 1)>>) = Of(P, s)
      BY <2>3, <3>3 DEF IsAnswer, Of
    <3> QED
      BY <3>2, <3>4 DEF Held
  <2>4. CASE s[1] # c
    <3>1. R[s[1]] = P[s[1]]
      BY <2>1, <2>4
    <3>2. s \in SpotsOf(R)
      BY <2>1, <3>1, SpotIn, Zenon
    <3>3. IsAnswer(R, s) /\ Of(R, s) = Of(P, s)
      BY <3>1 DEF IsAnswer, Of
    <3> QED
      BY <3>2, <3>3 DEF Held
  <2>5. s[2] < m \/ s[2] >= m
    BY <1>1, <2>1
  <2> QED
    BY <2>2, <2>3, <2>4, <2>5
<1>8. L = {} => cut \intersect Held(R) = {}
  <2> SUFFICES ASSUME L = {}, NEW j \in 1 .. (m - 1), IsAnswer(P, <<c, j>>),
                      NEW r \in SpotsOf(R), IsAnswer(R, r), Of(P, <<c, j>>) = Of(R, r)
               PROVE  FALSE
    BY DEF Held
  <2>1. /\ o[r] \in SpotsOf(P) /\ o[r][1] = r[1] /\ IsAnswer(P, o[r]) /\ Of(P, o[r]) = Of(P, <<c, j>>)
        /\ o[r][2] = IF r[1] = c THEN r[2] + (m - 1) ELSE r[2]
    BY <1>2 DEF IsAnswer, Of
  <2>2. <<c, j>> \in SpotsOf(P) /\ r[2] \in Nat /\ r[2] >= 1
    <3>1. <<c, j>> \in SpotsOf(P)
      BY <1>10, SpotFacts
    <3>2. r[1] \in 1 .. 8 /\ r[2] \in 1 .. Len(R[r[1]])
      BY SpotFacts
    <3> QED
      BY <3>1, <3>2
  <2>3. o[r] = <<c, j>>
    BY <2>1, <2>2 DEF RowInv, Unique
  <2>4. o[r][1] = c /\ o[r][2] = j
    BY <2>3
  <2> QED
    BY <1>1, <2>1, <2>2, <2>4
<1>9. L = {} => Accounted(R, gone \union cut, asked)
  BY <1>5, <1>6, <1>7, <1>8 DEF RowInv, Accounted
<1> QED
  BY <1>5, <1>6, <1>9 DEF RowInv

\* The first answer of the place b goes to the end of the one before it.
LEMMA MoveRow ==
    ASSUME NEW P \in Rows, NEW R \in Rows, NEW L, NEW n, NEW gone, NEW asked,
           RowInv(P, L, n, gone, asked),
           NEW a \in 1 .. 7, NEW b, b = a + 1, P[b] # <<>>, b \notin L,
           \A p \in (1 .. 8) \ {a, b} : R[p] = P[p],
           R[a] = Append(P[a], Head(P[b])), R[b] = Tail(P[b])
    PROVE  RowInv(R, L, n, gone, asked)
<1> DEFINE last == Len(P[a]) + 1
           o == [s \in SpotsOf(R) |->
                    IF s[1] = b THEN <<b, s[2] + 1>>
                    ELSE IF s[1] = a /\ s[2] = last THEN <<b, 1>> ELSE s]
<1>1. b \in 1 .. 8 /\ a \in 1 .. 8 /\ a # b
  OBVIOUS
<1>2. /\ Len(P[a]) \in Nat /\ Len(P[b]) \in Nat /\ 1 \in 1 .. Len(P[b])
      /\ Len(R[a]) = last /\ R[a][last] = P[b][1]
      /\ \A i \in 1 .. Len(P[a]) : R[a][i] = P[a][i]
      /\ Len(R[b]) = Len(P[b]) - 1
      /\ \A i \in 1 .. Len(R[b]) : R[b][i] = P[b][i + 1]
  <2> DEFINE u == P[a]
             w == P[b]
  <2>1. u \in Seq(Response) /\ w \in Seq(Response) /\ w # <<>>
    BY <1>1, SpotFacts
  <2> HIDE DEF u, w
  <2>2. /\ Len(u) \in Nat /\ Len(w) \in Nat /\ 1 \in 1 .. Len(w) /\ Head(w) = w[1] /\ Head(w) \in Response
        /\ Len(Tail(w)) = Len(w) - 1 /\ \A i \in 1 .. Len(Tail(w)) : Tail(w)[i] = w[i + 1]
    BY <2>1, HeadTailProperties
  <2>3. /\ Len(Append(u, w[1])) = Len(u) + 1 /\ Append(u, w[1])[Len(u) + 1] = w[1]
        /\ \A i \in 1 .. Len(u) : Append(u, w[1])[i] = u[i]
    BY <2>1, <2>2
  <2> QED
    BY <2>2, <2>3 DEF u, w
<1>3. ASSUME NEW s \in SpotsOf(R)
      PROVE  /\ o[s] \in SpotsOf(P) /\ P[o[s][1]][o[s][2]] = R[s[1]][s[2]]
             /\ \/ s[1] = b /\ o[s][1] = b /\ o[s][2] = s[2] + 1
                \/ s[1] = a /\ s[2] = last /\ o[s][1] = b /\ o[s][2] = 1
                \/ s[1] = a /\ s[2] < last /\ o[s][1] = s[1] /\ o[s][2] = s[2]
                \/ s[1] # a /\ s[1] # b /\ o[s][1] = s[1] /\ o[s][2] = s[2]
  <2>1. s = <<s[1], s[2]>> /\ s[1] \in 1 .. 8 /\ s[2] \in 1 .. Len(R[s[1]])
    BY SpotFacts
  <2>2. CASE s[1] = b
    <3>1. o[s] = <<b, s[2] + 1>>
      BY <2>2
    <3>2. o[s][1] = b /\ o[s][2] = s[2] + 1
      BY <3>1
    <3>3. s[2] + 1 \in 1 .. Len(P[b])
      <4>1. s[2] \in 1 .. Len(R[b])
        BY <2>1, <2>2
      <4> HIDE DEF o, last
      <4> QED
        BY <1>2, <4>1
    <3>4. o[s] \in SpotsOf(P)
      <4>1. <<b, s[2] + 1>> \in SpotsOf(P)
        <5> HIDE DEF o
        <5>1. s[2] + 1 \in Nat
          BY <3>3
        <5> QED
          BY <1>1, <3>3, <5>1, SpotFacts
      <4> QED
        BY <3>1, <4>1
    <3> HIDE DEF o
    <3> QED
      BY <1>2, <2>1, <2>2, <3>2, <3>4
  <2>3. CASE s[1] = a /\ s[2] = last
    <3>1. o[s] = <<b, 1>>
      BY <1>1, <2>3
    <3>2. o[s][1] = b /\ o[s][2] = 1
      BY <3>1
    <3>3. o[s] \in SpotsOf(P)
      <4>1. <<b, 1>> \in SpotsOf(P)
        <5> HIDE DEF o
        <5> QED
          BY <1>1, <1>2, SpotFacts
      <4> QED
        BY <3>1, <4>1
    <3> HIDE DEF o
    <3> QED
      BY <1>1, <1>2, <2>1, <2>3, <3>2, <3>3
  <2>4. CASE s[1] # b /\ ~(s[1] = a /\ s[2] = last)
    <3>1. o[s] = s
      BY <2>4
    <3> HIDE DEF o
    <3>2. CASE s[1] = a
      <4>1. s[2] < last /\ s[2] \in 1 .. Len(P[a])
        BY <1>2, <2>1, <2>4, <3>2
      <4>2. s \in SpotsOf(P)
        BY <2>1, <3>2, <4>1, SpotIn, Zenon
      <4> HIDE DEF last
      <4> QED
        BY <1>1, <1>2, <2>1, <3>1, <3>2, <4>1, <4>2
    <3>3. CASE s[1] # a
      <4>1. R[s[1]] = P[s[1]]
        BY <2>1, <2>4, <3>3
      <4>2. s[2] \in Nat
        BY <2>1, <4>1, SpotFacts
      <4>3. s \in SpotsOf(P)
        BY <2>1, <4>1, <4>2, SpotFacts
      <4> QED
        BY <2>1, <2>4, <3>1, <3>3, <4>1, <4>3
    <3> QED
      BY <3>2, <3>3
  <2> QED
    BY <2>2, <2>3, <2>4
<1>4. last \in Nat /\ last >= 1
  BY <1>2
<1> HIDE DEF o, last
<1>5. ASSUME NEW s \in SpotsOf(R), NEW r \in SpotsOf(R)
      PROVE  /\ Ahead(s, r) => Ahead(o[s], o[r])
             /\ o[s] = o[r] => s = r
  <2>1. /\ s = <<s[1], s[2]>> /\ s[1] \in 1 .. 8 /\ s[2] \in Nat /\ s[2] >= 1
        /\ r = <<r[1], r[2]>> /\ r[1] \in 1 .. 8 /\ r[2] \in Nat /\ r[2] >= 1
        /\ s[2] <= Len(R[s[1]]) /\ r[2] <= Len(R[r[1]])
    BY SpotFacts
  <2>2. Ahead(s, r) => Ahead(o[s], o[r])
    <3>1. s[1] = a => s[2] <= last
      BY <1>2, <2>1
    <3>2. \/ s[1] = b /\ o[s][1] = b /\ o[s][2] = s[2] + 1
          \/ s[1] = a /\ s[2] = last /\ o[s][1] = b /\ o[s][2] = 1
          \/ s[1] = a /\ s[2] < last /\ o[s][1] = s[1] /\ o[s][2] = s[2]
          \/ s[1] # a /\ s[1] # b /\ o[s][1] = s[1] /\ o[s][2] = s[2]
      BY <1>3
    <3>3. \/ r[1] = b /\ o[r][1] = b /\ o[r][2] = r[2] + 1
          \/ r[1] = a /\ r[2] = last /\ o[r][1] = b /\ o[r][2] = 1
          \/ r[1] = a /\ r[2] < last /\ o[r][1] = r[1] /\ o[r][2] = r[2]
          \/ r[1] # a /\ r[1] # b /\ o[r][1] = r[1] /\ o[r][2] = r[2]
      BY <1>3
    <3> QED
      BY <1>4, <2>1, <3>1, <3>2, <3>3 DEF Ahead
  <2>3. o[s] = o[r] => s[1] = r[1] /\ s[2] = r[2]
    <3>1. \/ s[1] = b /\ o[s][1] = b /\ o[s][2] = s[2] + 1
          \/ s[1] = a /\ s[2] = last /\ o[s][1] = b /\ o[s][2] = 1
          \/ s[1] = a /\ s[2] < last /\ o[s][1] = s[1] /\ o[s][2] = s[2]
          \/ s[1] # a /\ s[1] # b /\ o[s][1] = s[1] /\ o[s][2] = s[2]
      BY <1>3
    <3>2. \/ r[1] = b /\ o[r][1] = b /\ o[r][2] = r[2] + 1
          \/ r[1] = a /\ r[2] = last /\ o[r][1] = b /\ o[r][2] = 1
          \/ r[1] = a /\ r[2] < last /\ o[r][1] = r[1] /\ o[r][2] = r[2]
          \/ r[1] # a /\ r[1] # b /\ o[r][1] = r[1] /\ o[r][2] = r[2]
      BY <1>3
    <3>3. o[s] = o[r] => o[s][1] = o[r][1] /\ o[s][2] = o[r][2]
      OBVIOUS
    <3> QED
      BY <1>1, <1>4, <2>1, <3>1, <3>2, <3>3
  <2> QED
    BY <2>1, <2>2, <2>3
<1>6. Traces(o, R, P, L)
  <2>1. ASSUME NEW s \in SpotsOf(R)
        PROVE  o[s][1] \in L => s[1] \in L
    BY <1>3
  <2> QED
    BY <1>3, <1>5, <2>1 DEF Traces, Of, IsAnswer, Driven
<1>7. /\ Ordered(R) /\ Unique(R, L) /\ Numbered(R, n) /\ Held(R) \subseteq Held(P)
  BY <1>6, TracedRow DEF RowInv
<1>8. Held(P) \subseteq Held(R)
  <2> SUFFICES ASSUME NEW s \in SpotsOf(P), IsAnswer(P, s)
               PROVE  Of(P, s) \in Held(R)
    BY DEF Held
  <2> SUFFICES \E r \in SpotsOf(R) : R[r[1]][r[2]] = P[s[1]][s[2]]
    BY DEF Held, IsAnswer, Of
  <2>1. s = <<s[1], s[2]>> /\ s[1] \in 1 .. 8 /\ s[2] \in 1 .. Len(P[s[1]]) /\ s[2] \in Nat
    BY SpotFacts
  <2> SUFFICES \E p \in 1 .. 8, i \in Nat : i \in 1 .. Len(R[p]) /\ R[p][i] = P[s[1]][s[2]]
    <3>1. PICK p \in 1 .. 8, i \in Nat : i \in 1 .. Len(R[p]) /\ R[p][i] = P[s[1]][s[2]]
      OBVIOUS
    <3>2. <<p, i>> \in SpotsOf(R)
      BY <3>1, SpotFacts
    <3>3. <<p, i>>[1] = p /\ <<p, i>>[2] = i
      OBVIOUS
    <3> QED
      BY <3>1, <3>2, <3>3
  <2>2. CASE s[1] = b /\ s[2] = 1
    <3>1. last \in 1 .. Len(R[a]) /\ R[a][last] = P[s[1]][s[2]]
      BY <1>2, <1>4, <2>2
    <3> QED
      BY <1>1, <1>4, <3>1
  <2>3. CASE s[1] = b /\ s[2] # 1
    <3>1. s[2] - 1 \in 1 .. Len(R[b]) /\ (s[2] - 1) + 1 = s[2] /\ s[2] - 1 \in Nat
      BY <1>2, <2>1, <2>3
    <3>2. R[b][s[2] - 1] = P[s[1]][s[2]]
      BY <1>2, <2>3, <3>1
    <3> QED
      BY <1>1, <3>1, <3>2
  <2>4. CASE s[1] = a
    <3>1. s[2] \in 1 .. Len(R[a]) /\ R[a][s[2]] = P[s[1]][s[2]]
      BY <1>2, <2>1, <2>4 DEF last
    <3> QED
      BY <1>1, <2>1, <3>1
  <2>5. CASE s[1] \notin {a, b}
    BY <2>1, <2>5
  <2> QED
    BY <2>2, <2>3, <2>4, <2>5
<1>9. L = {} => Accounted(R, gone, asked)
  BY <1>7, <1>8 DEF RowInv, Accounted
<1> QED
  BY <1>7, <1>9 DEF RowInv

\* A frame comes in: its answer, if any, is put into a place that is empty, before
\* anything that is no answer; an echo goes to the last place only.
LEMMA FillRow ==
    ASSUME NEW P \in Rows, NEW R \in Rows, NEW L, NEW n \in Nat, NEW gone, NEW asked, NEW more,
           RowInv(P, L, n, gone, asked),
           NEW c \in 1 .. 8, P[c] = <<>>,
           \A p \in (1 .. 8) \ {c} : R[p] = P[p],
           \A i \in 1 .. Len(R[c]) :
                /\ R[c][i].via = "driver" => c = 8 /\ R[c][i].kind = "Response"
                /\ R[c][i].kind = "Response" => i = 1 /\ R[c][i].of = n + 1,
           more \subseteq asked \union {n + 1},
           n + 1 \in more => 1 \in 1 .. Len(R[c]) /\ R[c][1].kind = "Response"
    PROVE  RowInv(R, L, n + 1, gone, more)
<1>1. ASSUME NEW s \in SpotsOf(R)
      PROVE  \/ s[1] = c /\ s[2] \in 1 .. Len(R[c])
             \/ s[1] # c /\ s \in SpotsOf(P) /\ R[s[1]][s[2]] = P[s[1]][s[2]]
  <2>1. s = <<s[1], s[2]>> /\ s[1] \in 1 .. 8 /\ s[2] \in 1 .. Len(R[s[1]]) /\ s[2] \in Nat
    BY SpotFacts
  <2>2. CASE s[1] # c
    <3>1. R[s[1]] = P[s[1]]
      BY <2>1, <2>2
    <3>2. s \in SpotsOf(P)
      BY <2>1, <3>1, SpotIn, Zenon
    <3> QED
      BY <2>2, <3>1, <3>2
  <2> QED
    BY <2>1, <2>2
<1>2. ASSUME NEW s \in SpotsOf(P)
      PROVE  s \in SpotsOf(R) /\ R[s[1]][s[2]] = P[s[1]][s[2]] /\ s[1] # c
  <2>1. s = <<s[1], s[2]>> /\ s[1] \in 1 .. 8 /\ s[2] \in 1 .. Len(P[s[1]]) /\ s[2] \in Nat
    BY SpotFacts
  <2>2. s[1] # c
    <3>1. s[1] = c => s[2] \in 1 .. 0
      BY <2>1
    <3> QED
      BY <2>1, <3>1
  <2>3. R[s[1]] = P[s[1]]
    BY <2>1, <2>2
  <2>4. s \in SpotsOf(R)
    BY <2>1, <2>3, SpotIn, Zenon
  <2> QED
    BY <2>2, <2>3, <2>4
<1>3. ASSUME NEW s \in SpotsOf(R)
      PROVE  /\ s[1] = c /\ Driven(R, s) => c = 8 /\ IsAnswer(R, s)
             /\ s[1] = c /\ IsAnswer(R, s) => s[2] = 1 /\ Of(R, s) = n + 1
             /\ s[1] # c => /\ s \in SpotsOf(P) /\ Of(R, s) = Of(P, s)
                            /\ (Driven(R, s) <=> Driven(P, s)) /\ (IsAnswer(R, s) <=> IsAnswer(P, s))
             /\ s = <<s[1], s[2]>> /\ s[1] \in 1 .. 8 /\ s[2] \in Nat /\ s[2] >= 1
  <2>1. s = <<s[1], s[2]>> /\ s[1] \in 1 .. 8 /\ s[2] \in 1 .. Len(R[s[1]])
    BY SpotFacts
  <2>2. s = <<s[1], s[2]>> /\ s[1] \in 1 .. 8 /\ s[2] \in Nat /\ s[2] >= 1
    BY <2>1
  <2>3. CASE s[1] = c
    <3>1. s[2] \in 1 .. Len(R[c])
      BY <2>1, <2>3
    <3>2. /\ R[c][s[2]].via = "driver" => c = 8 /\ R[c][s[2]].kind = "Response"
          /\ R[c][s[2]].kind = "Response" => s[2] = 1 /\ R[c][s[2]].of = n + 1
      BY <3>1
    <3> QED
      BY <2>2, <2>3, <3>2 DEF Driven, IsAnswer, Of
  <2>4. CASE s[1] # c
    BY <1>1, <2>2, <2>4 DEF Driven, IsAnswer, Of
  <2> QED
    BY <2>3, <2>4
<1>4. \A s \in SpotsOf(P) : /\ Driven(P, s) => IsAnswer(P, s)
                            /\ IsAnswer(P, s) => Of(P, s) \in 1 .. n
  BY DEF RowInv, Numbered
<1>11. ASSUME NEW s \in SpotsOf(R), s[1] # c
       PROVE  /\ IsAnswer(R, s) => Of(R, s) \in 1 .. n
              /\ Driven(R, s) => IsAnswer(R, s)
  <2>1. /\ s \in SpotsOf(P) /\ Of(R, s) = Of(P, s)
        /\ (Driven(R, s) <=> Driven(P, s)) /\ (IsAnswer(R, s) <=> IsAnswer(P, s))
    BY <1>3, <1>11
  <2>2. /\ Driven(P, s) => IsAnswer(P, s)
        /\ IsAnswer(P, s) => Of(P, s) \in 1 .. n
    BY <1>4, <2>1
  <2> QED
    BY <2>1, <2>2
<1>5. Ordered(R)
  <2> SUFFICES ASSUME NEW s \in SpotsOf(R), NEW r \in SpotsOf(R), Ahead(s, r), Driven(R, s), Driven(R, r)
               PROVE  Of(R, s) < Of(R, r)
    BY DEF Ordered
  <2>1. CASE s[1] # c /\ r[1] # c
    BY <1>3, <2>1 DEF RowInv, Ordered
  <2>2. CASE s[1] # c /\ r[1] = c
    <3>1. Of(R, r) = n + 1 /\ Of(R, s) \in 1 .. n
      BY <1>3, <1>11, <2>2
    <3> QED
      BY <3>1
  <2>3. CASE s[1] = c
    <3>1. c = 8 /\ s[2] = 1
      BY <1>3, <2>3
    <3>2. r[1] = c /\ r[2] > 1
      BY <1>3, <2>3, <3>1 DEF Ahead
    <3>3. r[2] = 1
      BY <1>3, <3>2
    <3> QED
      BY <3>2, <3>3
  <2> QED
    BY <2>1, <2>2, <2>3
<1>6. Unique(R, L)
  <2> SUFFICES ASSUME NEW s \in SpotsOf(R), NEW r \in SpotsOf(R), IsAnswer(R, s), IsAnswer(R, r),
                      Of(R, s) = Of(R, r)
               PROVE  s = r \/ s[1] \in L \/ r[1] \in L
    BY DEF Unique
  <2>1. CASE s[1] # c /\ r[1] # c
    BY <1>3, <2>1 DEF RowInv, Unique
  <2>2. CASE s[1] = c /\ r[1] = c
    <3>1. s[2] = 1 /\ r[2] = 1 /\ s = <<s[1], s[2]>> /\ r = <<r[1], r[2]>>
      BY <1>3, <2>2
    <3> QED
      BY <2>2, <3>1
  <2>3. CASE s[1] # c /\ r[1] = c
    <3>1. Of(R, r) = n + 1 /\ Of(R, s) \in 1 .. n
      BY <1>3, <1>11, <2>3
    <3> QED
      BY <3>1
  <2>4. CASE s[1] = c /\ r[1] # c
    <3>1. Of(R, s) = n + 1 /\ Of(R, r) \in 1 .. n
      BY <1>3, <1>11, <2>4
    <3> QED
      BY <3>1
  <2> QED
    BY <2>1, <2>2, <2>3, <2>4
<1>7. Numbered(R, n + 1)
  <2> SUFFICES ASSUME NEW s \in SpotsOf(R)
               PROVE  /\ Driven(R, s) => IsAnswer(R, s)
                      /\ IsAnswer(R, s) => Of(R, s) \in 1 .. n + 1
    BY DEF Numbered
  <2>1. CASE s[1] = c
    BY <1>3, <2>1
  <2>2. CASE s[1] # c
    <3>1. IsAnswer(R, s) => Of(R, s) \in 1 .. n
      BY <1>11, <2>2
    <3>2. Driven(R, s) => IsAnswer(R, s)
      BY <1>11, <2>2
    <3> QED
      BY <3>1, <3>2
  <2> QED
    BY <2>1, <2>2
<1>8. ASSUME NEW k \in more
      PROVE  /\ k # n + 1 => k \in asked /\ (k \in Held(R) <=> k \in Held(P))
             /\ k = n + 1 => k \in Held(R) /\ k \notin gone
  <2>1. CASE k # n + 1
    <3>1. k \in Held(R) => k \in Held(P)
      BY <1>3, <2>1 DEF Held
    <3>2. k \in Held(P) => k \in Held(R)
      <4> SUFFICES ASSUME NEW s \in SpotsOf(P), IsAnswer(P, s), Of(P, s) = k
                   PROVE  k \in Held(R)
        BY DEF Held
      <4>1. s \in SpotsOf(R) /\ IsAnswer(R, s) /\ Of(R, s) = k
        BY <1>2 DEF IsAnswer, Of
      <4> QED
        BY <4>1 DEF Held
    <3> QED
      BY <2>1, <3>1, <3>2
  <2>2. CASE k = n + 1
    <3>1. 1 \in 1 .. Len(R[c]) /\ R[c][1].kind = "Response" /\ R[c][1].of = n + 1
      BY <2>2
    <3>2. <<c, 1>> \in SpotsOf(R) /\ <<c, 1>>[1] = c /\ <<c, 1>>[2] = 1
      BY <3>1, SpotFacts
    <3>3. IsAnswer(R, <<c, 1>>) /\ Of(R, <<c, 1>>) = k
      BY <2>2, <3>1, <3>2 DEF IsAnswer, Of
    <3>4. n + 1 \notin gone
      BY DEF RowInv
    <3> QED
      BY <2>2, <3>2, <3>3, <3>4 DEF Held
  <2> QED
    BY <2>1, <2>2
<1>9. L = {} => Accounted(R, gone, more)
  BY <1>8 DEF RowInv, Accounted
<1>10. gone \subseteq 1 .. n + 1
  BY DEF RowInv
<1> QED
  BY <1>5, <1>6, <1>7, <1>9, <1>10 DEF RowInv

\* The flush fails: the transfer is answered by a refusal, and if the ring is
\* mapped it may be in the ring as well.
LEMMA FailRow ==
    ASSUME NEW P \in Rows, NEW R \in Rows, NEW L, NEW n, NEW gone, NEW asked,
           RowInv(P, L, n, gone, asked), 8 \notin L, 3 \notin L,
           NEW e, P[8] = <<e>>, R[8] = <<>>, e.kind = "Response",
           P[3] = <<>>, NEW x, R[3] = <<x>>, x.kind = "Response", x.of = e.of, x.via # "driver",
           \/ R[7] = P[7]
           \/ 7 \in L /\ R[7] = Append(P[7], e),
           \A p \in {1, 2, 4, 5, 6} : R[p] = P[p]
    PROVE  RowInv(R, L, n, gone, asked)
<1> DEFINE o == [s \in SpotsOf(R) |->
                    IF s[1] = 3 \/ (s[1] = 7 /\ s[2] > Len(P[7])) THEN <<8, 1>> ELSE s]
<1>1. /\ Len(P[7]) \in Nat /\ Len(R[3]) = 1 /\ R[3][1] = x /\ P[8][1] = e /\ Len(P[8]) = 1
      /\ Len(R[8]) = 0
      /\ \/ Len(R[7]) = Len(P[7]) /\ R[7] = P[7]
         \/ /\ Len(R[7]) = Len(P[7]) + 1 /\ R[7][Len(P[7]) + 1] = e /\ 7 \in L
            /\ \A i \in 1 .. Len(P[7]) : R[7][i] = P[7][i]
  <2> DEFINE u == P[7]
  <2>1. u \in Seq(Response) /\ Len(u) \in Nat
    BY SpotFacts
  <2>2. e \in Response
    <3>1. P[8] \in Seq(Response)
      BY 8 \in 1 .. 8, SpotFacts
    <3>2. Len(<<e>>) = 1 /\ <<e>>[1] = e
      OBVIOUS
    <3> QED
      BY <3>1, <3>2
  <2> HIDE DEF u
  <2>3. Len(Append(u, e)) = Len(u) + 1 /\ Append(u, e)[Len(u) + 1] = e
        /\ \A i \in 1 .. Len(u) : Append(u, e)[i] = u[i]
    BY <2>1, <2>2
  <2>4. /\ Len(R[3]) = 1 /\ R[3][1] = x /\ P[8][1] = e /\ Len(P[8]) = 1 /\ Len(R[8]) = 0
    <3>1. \A a : Len(<<a>>) = 1 /\ <<a>>[1] = a
      OBVIOUS
    <3>2. Len(<<>>) = 0
      OBVIOUS
    <3> QED
      BY <3>1, <3>2, Zenon
  <2>5. \/ Len(R[7]) = Len(u) /\ R[7] = u
        \/ /\ Len(R[7]) = Len(u) + 1 /\ R[7][Len(u) + 1] = e /\ 7 \in L
           /\ \A i \in 1 .. Len(u) : R[7][i] = u[i]
    <3>1. CASE R[7] = u
      BY <3>1, Zenon
    <3>2. CASE 7 \in L /\ R[7] = Append(u, e)
      BY <2>3, <3>2, Zenon
    <3> QED
      BY <3>1, <3>2, Zenon DEF u
  <2> QED
    BY <2>1, <2>4, <2>5, Zenon DEF u
<1>2. <<8, 1>> \in SpotsOf(P)
  <2>1. 8 \in 1 .. 8 /\ 1 \in 1 .. Len(P[8]) /\ 1 \in Nat
    BY <1>1
  <2> HIDE DEF o
  <2> QED
    BY <2>1, SpotFacts
<1>3. ASSUME NEW s \in SpotsOf(R)
      PROVE  /\ o[s] \in SpotsOf(P)
             /\ \/ /\ s[1] = 3 /\ s[2] = 1 /\ o[s] = <<8, 1>> /\ R[s[1]][s[2]] = x
                \/ /\ s[1] = 7 /\ s[2] = Len(P[7]) + 1 /\ 7 \in L /\ o[s] = <<8, 1>>
                   /\ R[s[1]][s[2]] = e
                \/ /\ s[1] \in {1, 2, 4, 5, 6, 7} /\ o[s] = s /\ R[s[1]][s[2]] = P[s[1]][s[2]]
                   /\ s[1] = 7 => s[2] <= Len(P[7])
  <2>1. s = <<s[1], s[2]>> /\ s[1] \in 1 .. 8 /\ s[2] \in 1 .. Len(R[s[1]])
    BY SpotFacts
  <2>2. CASE s[1] = 3
    <3>1. s[2] = 1 /\ o[s] = <<8, 1>>
      <4>1. s[2] \in 1 .. 1
        BY <1>1, <2>1, <2>2
      <4>2. o[s] = <<8, 1>>
        BY <2>2
      <4> QED
        BY <4>1, <4>2
    <3> QED
      BY <1>1, <1>2, <2>2, <3>1
  <2>3. CASE s[1] = 7 /\ s[2] > Len(P[7])
    <3>1. s[2] = Len(P[7]) + 1 /\ 7 \in L /\ R[7][Len(P[7]) + 1] = e
      BY <1>1, <2>1, <2>3
    <3>2. o[s] = <<8, 1>>
      BY <2>3
    <3> QED
      BY <1>2, <2>3, <3>1, <3>2
  <2>4. CASE s[1] = 7 /\ s[2] <= Len(P[7])
    <3>1. s[2] \in 1 .. Len(P[7]) /\ s[2] \in Nat
      BY <1>1, <2>1, <2>4
    <3>2. s \in SpotsOf(P)
      BY <2>1, <2>4, <3>1, SpotFacts
    <3>3. o[s] = s
      BY <1>1, <2>4, <3>1
    <3> QED
      BY <1>1, <2>4, <3>1, <3>2, <3>3
  <2>5. CASE s[1] \in {1, 2, 4, 5, 6}
    <3>1. o[s] = s
      BY <2>5
    <3> HIDE DEF o
    <3>2. R[s[1]] = P[s[1]] /\ s[2] \in 1 .. Len(P[s[1]])
      BY <2>1, <2>5
    <3>3. s[2] \in Nat
      BY <3>2
    <3>4. <<s[1], s[2]>> \in SpotsOf(P)
      BY <2>1, <3>2, <3>3, SpotFacts
    <3>5. s \in SpotsOf(P)
      BY <2>1, <3>4
    <3> QED
      BY <2>5, <3>1, <3>2, <3>5
  <2>6. s[1] # 8
    <3>1. s[1] = 8 => s[2] \in 1 .. 0
      BY <1>1, <2>1
    <3> QED
      BY <3>1
  <2>7. s[2] > Len(P[7]) \/ s[2] <= Len(P[7])
    BY <1>1, <2>1
  <2> QED
    BY <2>1, <2>2, <2>3, <2>4, <2>5, <2>6, <2>7
<1>4. <<8, 1>>[1] = 8 /\ <<8, 1>>[2] = 1
  OBVIOUS
<1> HIDE DEF o
<1>5. ASSUME NEW s \in SpotsOf(R)
      PROVE  /\ Of(R, s) = Of(P, o[s]) /\ (IsAnswer(R, s) <=> IsAnswer(P, o[s]))
             /\ Driven(R, s) => Driven(P, o[s]) /\ s[1] # 3
             /\ o[s][1] \in L => s[1] \in L
  <2>1. P[8][1] = e
    BY <1>1
  <2>2. CASE s[1] = 3 /\ s[2] = 1 /\ o[s] = <<8, 1>> /\ R[s[1]][s[2]] = x
    BY <1>4, <2>1, <2>2 DEF Of, IsAnswer, Driven
  <2>3. CASE s[1] = 7 /\ 7 \in L /\ o[s] = <<8, 1>> /\ R[s[1]][s[2]] = e
    BY <1>4, <2>1, <2>3 DEF Of, IsAnswer, Driven
  <2>4. CASE s[1] \in {1, 2, 4, 5, 6, 7} /\ o[s] = s /\ R[s[1]][s[2]] = P[s[1]][s[2]]
    BY <2>4 DEF Of, IsAnswer, Driven
  <2> QED
    BY <1>3, <2>2, <2>3, <2>4
<1>6. ASSUME NEW s \in SpotsOf(R), NEW r \in SpotsOf(R)
      PROVE  /\ Ahead(s, r) /\ Driven(R, s) /\ Driven(R, r) => Ahead(o[s], o[r])
             /\ o[s] = o[r] => s = r \/ s[1] \in L \/ r[1] \in L
  <2>1. /\ s = <<s[1], s[2]>> /\ s[1] \in 1 .. 8 /\ s[2] \in Nat
        /\ r = <<r[1], r[2]>> /\ r[1] \in 1 .. 8 /\ r[2] \in Nat
    BY SpotFacts
  <2>2. ASSUME Ahead(s, r), s[1] # 3, r[1] # 3
        PROVE  Ahead(o[s], o[r])
    <3>1. \/ s[1] = 7 /\ s[2] = Len(P[7]) + 1 /\ o[s] = <<8, 1>>
          \/ s[1] \in {1, 2, 4, 5, 6, 7} /\ o[s] = s /\ (s[1] = 7 => s[2] <= Len(P[7]))
      BY <1>3, <2>2
    <3>2. \/ r[1] = 7 /\ r[2] = Len(P[7]) + 1 /\ o[r] = <<8, 1>>
          \/ r[1] \in {1, 2, 4, 5, 6, 7} /\ o[r] = r /\ (r[1] = 7 => r[2] <= Len(P[7]))
      BY <1>3, <2>2
    <3> QED
      BY <1>1, <1>4, <2>1, <2>2, <3>1, <3>2 DEF Ahead
  <2>3. o[s] = o[r] => s = r \/ s[1] \in L \/ r[1] \in L
    <3>1. CASE s[1] = 3 /\ r[1] = 3
      BY <1>3, <2>1, <3>1
    <3>2. CASE s[1] # 3 \/ r[1] # 3
      BY <1>3, <1>4, <2>1, <3>2
    <3> QED
      BY <3>1, <3>2
  <2> QED
    BY <1>5, <2>2, <2>3
<1>7. Traces(o, R, P, L)
  BY <1>3, <1>5, <1>6 DEF Traces
<1>8. /\ Ordered(R) /\ Unique(R, L) /\ Numbered(R, n) /\ Held(R) \subseteq Held(P)
  BY <1>7, TracedRow DEF RowInv
<1>9. Held(P) \subseteq Held(R)
  <2> SUFFICES ASSUME NEW s \in SpotsOf(P), IsAnswer(P, s)
               PROVE  Of(P, s) \in Held(R)
    BY DEF Held
  <2> SUFFICES \E p \in 1 .. 8, i \in Nat :
                    i \in 1 .. Len(R[p]) /\ R[p][i].kind = "Response" /\ R[p][i].of = Of(P, s)
    <3>1. PICK p \in 1 .. 8, i \in Nat :
                    i \in 1 .. Len(R[p]) /\ R[p][i].kind = "Response" /\ R[p][i].of = Of(P, s)
      OBVIOUS
    <3>2. <<p, i>> \in SpotsOf(R)
      BY <3>1, SpotFacts
    <3>3. <<p, i>>[1] = p /\ <<p, i>>[2] = i
      OBVIOUS
    <3> QED
      BY <3>1, <3>2, <3>3 DEF Held, IsAnswer, Of
  <2>1. s = <<s[1], s[2]>> /\ s[1] \in 1 .. 8 /\ s[2] \in 1 .. Len(P[s[1]]) /\ s[2] \in Nat
    BY SpotFacts
  <2>2. CASE s[1] = 8
    <3>1. Of(P, s) = e.of
      BY <1>1, <2>1, <2>2 DEF Of
    <3>2. 1 \in 1 .. Len(R[3]) /\ R[3][1].kind = "Response" /\ R[3][1].of = e.of
      BY <1>1
    <3> QED
      BY <3>1, <3>2
  <2>3. s[1] # 3
    <3>1. s[1] = 3 => s[2] \in 1 .. 0
      BY <2>1
    <3> QED
      BY <3>1
  <2>4. CASE s[1] \in {1, 2, 4, 5, 6}
    BY <2>1, <2>4 DEF Of, IsAnswer
  <2>5. CASE s[1] = 7
    <3>1. s[2] \in 1 .. Len(R[7]) /\ R[7][s[2]] = P[7][s[2]]
      BY <1>1, <2>1, <2>5
    <3> QED
      BY <2>1, <2>5, <3>1 DEF Of, IsAnswer
  <2> QED
    BY <2>1, <2>2, <2>3, <2>4, <2>5
<1>10. L = {} => Accounted(R, gone, asked)
  BY <1>8, <1>9 DEF RowInv, Accounted
<1> QED
  BY <1>8, <1>10 DEF RowInv

-----------------------------------------------------------------------------
(* The places of the daemon                                                *)

\* The echoes of a ring follow its frames.
LEMMA EchoesFacts ==
    ASSUME NEW ring \in Seq(Request)
    PROVE  /\ Echoes(ring) \in Seq(Response) /\ Len(Echoes(ring)) = Len(ring)
           /\ \A i \in 1 .. Len(ring) : Echoes(ring)[i] = Echo(ring[i])
           /\ \A f \in Request : Echoes(Append(ring, f)) = Append(Echoes(ring), Echo(f))
           /\ ring # <<>> => /\ Echoes(Tail(ring)) = Tail(Echoes(ring)) /\ Echoes(ring) # <<>>
                             /\ Head(Echoes(ring)) = Echo(Head(ring))
           /\ ring = <<>> => Echoes(ring) = <<>>
<1> DEFINE g == [f \in Request |-> Echo(f)]
<1>1. g \in [Request -> Response] /\ \A f \in Request : g[f] = Echo(f)
  BY EchoTyped
<1>2. ASSUME NEW s \in Seq(Request)
      PROVE  Echoes(s) = Mapped(s, g)
  <2>1. \A i \in 1 .. Len(s) : s[i] \in Request
    BY ElementOfSeq
  <2> QED
    BY <1>1, <2>1 DEF Echoes, Mapped
<1> HIDE DEF g
<1>3. ring # <<>> => Head(ring) \in Request /\ Tail(ring) \in Seq(Request)
  BY HeadTailProperties
<1>4. \A f \in Request : Append(ring, f) \in Seq(Request)
  OBVIOUS
<1>5. \A i \in 1 .. Len(ring) : ring[i] \in Request
  BY ElementOfSeq
<1>6. Follows(Request, Response, ring, g)
  BY <1>1, MappedFacts
<1> QED
  BY <1>1, <1>2, <1>3, <1>4, <1>5, <1>6 DEF Follows

\* The frames of an outbox follow it.
LEMMA OutboxFacts ==
    ASSUME NEW s \in Seq(OutFrames)
    PROVE  /\ OutboxFrames(s) \in Seq(Response) /\ Len(OutboxFrames(s)) = Len(s)
           /\ \A i \in 1 .. Len(s) : OutboxFrames(s)[i] = s[i].frame
           /\ s # <<>> => /\ OutboxFrames(Tail(s)) = Tail(OutboxFrames(s)) /\ OutboxFrames(s) # <<>>
                          /\ Head(OutboxFrames(s)) = Head(s).frame
           /\ s = <<>> => OutboxFrames(s) = <<>>
<1> DEFINE g == [x \in OutFrames |-> x.frame]
<1>1. g \in [OutFrames -> Response] /\ \A x \in OutFrames : g[x] = x.frame
  BY DEF OutFrames
<1>2. ASSUME NEW q \in Seq(OutFrames)
      PROVE  OutboxFrames(q) = Mapped(q, g)
  <2>1. \A i \in 1 .. Len(q) : q[i] \in OutFrames
    BY ElementOfSeq
  <2> QED
    BY <1>1, <2>1 DEF OutboxFrames, Mapped
<1> HIDE DEF g
<1>3. s # <<>> => Head(s) \in OutFrames /\ Tail(s) \in Seq(OutFrames)
  BY HeadTailProperties
<1>4. \A i \in 1 .. Len(s) : s[i] \in OutFrames
  BY ElementOfSeq
<1>5. Follows(OutFrames, Response, s, g)
  BY <1>1, MappedFacts
<1> QED
  BY <1>1, <1>2, <1>3, <1>4, <1>5 DEF Follows

\* Giving up all of a place ...
LEMMA CutAll ==
    ASSUME NEW P \in Rows, NEW R \in Rows, NEW L, NEW n, NEW gone, NEW asked,
           RowInv(P, L, n, gone, asked),
           NEW c \in 1 .. 8, R[c] = <<>>, \A p \in (1 .. 8) \ {c} : R[p] = P[p]
    PROVE  RowInv(R, L, n, gone \union Tags(P[c]), asked)
<1> DEFINE m == Len(P[c]) + 1
           cut == {Of(P, <<c, i>>) : i \in {j \in 1 .. (m - 1) : IsAnswer(P, <<c, j>>)}}
<1>1. P[c] \in Seq(Response) /\ Len(P[c]) \in Nat
  BY SpotFacts
<1>2. m \in 1 .. Len(P[c]) + 1 /\ m - 1 = Len(P[c])
  BY <1>1
<1>3. R[c] = SubSeq(P[c], m, Len(P[c]))
  <2>1. SubSeq(P[c], m, Len(P[c])) = <<>>
    <3> DEFINE k == Len(P[c])
               s == P[c]
    <3>1. k \in Nat /\ m = k + 1
      BY <1>1
    <3> HIDE DEF k, m, s
    <3>2. SubSeq(s, m, k) = <<>>
      BY <3>1
    <3> QED
      BY <3>2 DEF s, k
  <2> QED
    BY <2>1
<1>4. cut = Tags(P[c])
  BY <1>2 DEF Tags, Of, IsAnswer
<1> HIDE DEF m, cut
<1>5. RowInv(R, L, n, gone \union cut, asked)
  BY <1>2, <1>3, CutRow DEF cut
<1> QED
  BY <1>4, <1>5

\* ... and the first of it.
LEMMA CutHead ==
    ASSUME NEW P \in Rows, NEW R \in Rows, NEW L, NEW n, NEW gone, NEW asked,
           RowInv(P, L, n, gone, asked),
           NEW c \in 1 .. 8, P[c] # <<>>, R[c] = Tail(P[c]), \A p \in (1 .. 8) \ {c} : R[p] = P[p]
    PROVE  RowInv(R, L, n, gone \union Tags(<<Head(P[c])>>), asked)
<1> DEFINE s == P[c]
           m == 2
           cut == {Of(P, <<c, i>>) : i \in {j \in 1 .. (m - 1) : IsAnswer(P, <<c, j>>)}}
<1>1. s \in Seq(Response) /\ s # <<>>
  BY SpotFacts
<1>2. Len(s) \in Nat /\ Len(s) # 0 /\ Head(s) = s[1] /\ Tail(s) = SubSeq(s, 2, Len(s))
  <2> HIDE DEF s
  <2> QED
    BY <1>1, EmptySeq
<1>3. m \in 1 .. Len(s) + 1 /\ R[c] = SubSeq(P[c], m, Len(P[c]))
  BY <1>2
<1>4. cut = Tags(<<Head(s)>>)
  <2>1. Len(<<Head(s)>>) = 1 /\ <<Head(s)>>[1] = s[1] /\ m - 1 = 1 /\ \A i \in 1 .. 1 : i = 1
    BY <1>2
  <2> QED
    BY <2>1 DEF Tags, Of, IsAnswer
<1> HIDE DEF cut, m
<1>5. RowInv(R, L, n, gone \union cut, asked)
  BY <1>3, CutRow DEF cut
<1> QED
  BY <1>4, <1>5

\* The row of the places, with the frames that wait in the endpoint queues.
RowOf(read, sent, out, line, held, t, r, w) ==
    <<read, sent, OutboxFrames(out), line, held, Echoes(t), Echoes(r), Echoes(w)>>

HasPlaces(P, read, sent, out, line, held, t, r, w) ==
    /\ P \in Rows /\ P[1] = read /\ P[2] = sent /\ P[3] = OutboxFrames(out) /\ P[4] = line
    /\ P[5] = held /\ P[6] = Echoes(t) /\ P[7] = Echoes(r) /\ P[8] = Echoes(w)

\* The places of a row, each where it belongs.
LEMMA RowPlaces ==
    ASSUME NEW a \in Seq(Response), NEW b \in Seq(Response), NEW o \in Seq(OutFrames),
           NEW c \in Seq(Response), NEW d \in Seq(Response), NEW t \in Seq(Request),
           NEW r \in Seq(Request), NEW w \in Seq(Request)
    PROVE  HasPlaces(RowOf(a, b, o, c, d, t, r, w), a, b, o, c, d, t, r, w)
<1> DEFINE P == RowOf(a, b, o, c, d, t, r, w)
<1> DEFINE x == OutboxFrames(o)
           y == Echoes(t)
           z == Echoes(r)
           v == Echoes(w)
<1>1. {x, y, z, v} \subseteq Seq(Response) /\ P = <<a, b, x, c, d, y, z, v>>
  BY EchoesFacts, OutboxFacts DEF RowOf
<1> HIDE DEF x, y, z, v, P
<1>2. /\ P[1] = a /\ P[2] = b /\ P[3] = x /\ P[4] = c /\ P[5] = d
      /\ P[6] = y /\ P[7] = z /\ P[8] = v
  BY <1>1
<1>3. P \in Rows
  <2> DEFINE S == Seq(Response)
  <2>1. {a, b, c, d, x, y, z, v} \subseteq S
    BY <1>1
  <2> HIDE DEF S
  <2>2. P = [i \in 1 .. 8 |-> P[i]] /\ \A i \in 1 .. 8 : P[i] \in S
    BY <1>1, <1>2, <2>1
  <2>3. P \in [1 .. 8 -> S]
    BY <2>2
  <2> QED
    BY <2>3 DEF Rows, S
<1> QED
  BY <1>2, <1>3 DEF HasPlaces, x, y, z, v, P

\* What waits in the queues: nothing, or the frame the flush is about to take.
Waiting(w) ==
    \/ w = <<>> /\ Drained(epq)
    \/ \E f \in Request : w = <<f>> /\ HoldsFrame(epq, f)

Row(w) == RowOf(delivered, net, outbox, chan, wFrame, tx, rx, w)

InDoubt == IF backend = "mapped" THEN {7} ELSE {}

RowsInv ==
    \E w \in Seq(Request) :
        Waiting(w) /\ RowInv(Row(w), InDoubt, Len(received), dropped, DataRequests)

\* Empty queues hold no frame; queues that hold one hold one.
LEMMA WaitingFacts ==
    ASSUME NEW w, Waiting(w)
    PROVE  /\ Drained(epq) => w = <<>>
           /\ \A f : HoldsFrame(epq, f) => w = <<f>>
           /\ w \in Seq(Request)
<1>1. ASSUME NEW f, HoldsFrame(epq, f)
      PROVE  ~Drained(epq) /\ PopTransfer(epq).frame = f
  BY <1>1, PopOnOne, PopOnDrained
<1>2. Drained(epq) => w = <<>>
  BY <1>1 DEF Waiting
<1>3. ASSUME NEW f, HoldsFrame(epq, f)
      PROVE  w = <<f>>
  BY <1>1, <1>3 DEF Waiting
<1>4. w \in Seq(Request)
  <2>1. \A f \in Request : <<f>> \in Seq(Request)
    BY OneElement
  <2>2. <<>> \in Seq(Request)
    OBVIOUS
  <2> QED
    BY <2>1, <2>2 DEF Waiting
<1> QED
  BY <1>2, <1>3, <1>4

\* A row that holds the places is one, before a step and after it.
LEMMA RowTyped ==
    ASSUME NEW w \in Seq(Request), NEW P
    PROVE  /\ TypeOK /\ P = Row(w) =>
                /\ P \in Rows /\ P[1] = delivered /\ P[2] = net /\ P[3] = OutboxFrames(outbox)
                /\ P[4] = chan /\ P[5] = wFrame
                /\ P[6] = Echoes(tx) /\ P[7] = Echoes(rx) /\ P[8] = Echoes(w)
           /\ TypeOK' /\ P = Row(w)' =>
                /\ P \in Rows /\ P[1] = delivered' /\ P[2] = net' /\ P[3] = OutboxFrames(outbox')
                /\ P[4] = chan' /\ P[5] = wFrame'
                /\ P[6] = Echoes(tx') /\ P[7] = Echoes(rx') /\ P[8] = Echoes(w)
<1>1. ASSUME TypeOK, P = Row(w)
      PROVE  /\ P \in Rows /\ P[1] = delivered /\ P[2] = net /\ P[3] = OutboxFrames(outbox)
             /\ P[4] = chan /\ P[5] = wFrame
             /\ P[6] = Echoes(tx) /\ P[7] = Echoes(rx) /\ P[8] = Echoes(w)
  <2>1. /\ delivered \in Seq(Response) /\ net \in Seq(Response) /\ outbox \in Seq(OutFrames)
        /\ chan \in Seq(Response) /\ wFrame \in Seq(Response)
        /\ tx \in Seq(Request) /\ rx \in Seq(Request)
    BY <1>1 DEF TypeOK, OutFrames
  <2>2. P = RowOf(delivered, net, outbox, chan, wFrame, tx, rx, w)
    BY <1>1 DEF Row
  <2>3. HasPlaces(RowOf(delivered, net, outbox, chan, wFrame, tx, rx, w),
                  delivered, net, outbox, chan, wFrame, tx, rx, w)
    BY <2>1, RowPlaces
  <2> QED
    BY <2>2, <2>3 DEF HasPlaces
<1>2. ASSUME TypeOK', P = Row(w)'
      PROVE  /\ P \in Rows /\ P[1] = delivered' /\ P[2] = net' /\ P[3] = OutboxFrames(outbox')
             /\ P[4] = chan' /\ P[5] = wFrame'
             /\ P[6] = Echoes(tx') /\ P[7] = Echoes(rx') /\ P[8] = Echoes(w)
  <2>1. /\ delivered' \in Seq(Response) /\ net' \in Seq(Response) /\ outbox' \in Seq(OutFrames)
        /\ chan' \in Seq(Response) /\ wFrame' \in Seq(Response)
        /\ tx' \in Seq(Request) /\ rx' \in Seq(Request)
    BY <1>2 DEF TypeOK, OutFrames
  <2>2. P = RowOf(delivered', net', outbox', chan', wFrame', tx', rx', w)
    BY <1>2 DEF Row
  <2>3. HasPlaces(RowOf(delivered', net', outbox', chan', wFrame', tx', rx', w),
                  delivered', net', outbox', chan', wFrame', tx', rx', w)
    BY <2>1, RowPlaces
  <2> QED
    BY <2>2, <2>3 DEF HasPlaces
<1> QED
  BY <1>1, <1>2

\* After a step that receives no frame, the row has to be one of the frames
\* received before it.
LEMMA SameRequests ==
    ASSUME UNCHANGED <<received, backend>>, NEW w \in Seq(Request), Waiting(w)',
           RowInv(Row(w)', InDoubt, Len(received), dropped', DataRequests)
    PROVE  RowsInv'
<1>1. Len(received)' = Len(received) /\ InDoubt' = InDoubt /\ DataRequests' = DataRequests
  BY DEF InDoubt, DataRequests
<1> QED
  BY <1>1 DEF RowsInv

\* A frame from the client brings one more request at most.
LEMMA FrameKeepsRows ==
    ASSUME SessionInv, TypeInv, RowsInv, NEW f \in ClientFrames, HandleFrame(f)
    PROVE  RowsInv'
<1>1. /\ Listening(f) /\ (QueuesFrame(f) \/ Answers(f)) /\ TypeInv' /\ SessionInv'
  BY FrameEffect, FrameKeepsTypes, FrameStep
<1>2. TypeOK /\ TypeOK' /\ TypeInv
  BY <1>1 DEF TypeInv
<1> DEFINE n == Len(received)
           L == InDoubt
<1>3. PICK w \in Seq(Request) : Waiting(w) /\ RowInv(Row(w), L, n, dropped, DataRequests)
  BY DEF RowsInv
<1>4. w = <<>>
  BY <1>1, <1>3, WaitingFacts DEF Listening
<1> DEFINE P == Row(w)
<1>5. /\ P \in Rows /\ P[1] = delivered /\ P[2] = net /\ P[3] = <<>>
      /\ P[4] = chan /\ P[5] = wFrame
      /\ P[6] = Echoes(tx) /\ P[7] = Echoes(rx) /\ P[8] = <<>>
  <2>1. OutboxFrames(outbox) = <<>> /\ Echoes(w) = <<>>
    <3>1. <<>> \in Seq(OutFrames) /\ <<>> \in Seq(Request) /\ outbox = <<>>
      BY <1>1 DEF Listening
    <3> QED
      BY <1>4, <3>1, OutboxFacts, EchoesFacts
  <2> QED
    BY <1>2, <2>1, RowTyped
<1>6. /\ received' = Append(received, f) /\ received \in Seq(ClientFrames) /\ n \in Nat
      /\ UNCHANGED <<rx, tx, wFrame, chan, net, delivered, backend, dropped>>
  BY <1>1, <1>2 DEF Listening, workerVars, clientVars, TypeOK
<1>7. /\ Len(received') = n + 1 /\ DataRequests' \subseteq DataRequests \union {n + 1}
      /\ n + 1 \in DataRequests' => f.type = "Request"
  <2>1. /\ Len(received') = n + 1 /\ received'[n + 1] = f
        /\ \A i \in 1 .. n : received'[i] = received[i]
    BY <1>6
  <2> HIDE DEF n
  <2>2. DataRequests' = {i \in 1 .. n + 1 : received'[i].type = "Request"}
    BY <2>1 DEF DataRequests
  <2>3. DataRequests = {i \in 1 .. n : received[i].type = "Request"}
    BY DEF DataRequests, n
  <2> QED
    BY <1>6, <2>1, <2>2, <2>3
<1>8. InDoubt' = L
  BY <1>6 DEF InDoubt
<1> HIDE DEF P, L, n
<1>9. ASSUME NEW v \in Seq(Request), Waiting(v)', NEW c \in 1 .. 8, P[c] = <<>>,
             \A p \in (1 .. 8) \ {c} : Row(v)'[p] = P[p],
             \A i \in 1 .. Len(Row(v)'[c]) :
                /\ Row(v)'[c][i].via = "driver" => c = 8 /\ Row(v)'[c][i].kind = "Response"
                /\ Row(v)'[c][i].kind = "Response" => i = 1 /\ Row(v)'[c][i].of = n + 1,
             f.type = "Request" => 1 \in 1 .. Len(Row(v)'[c]) /\ Row(v)'[c][1].kind = "Response"
      PROVE  RowsInv'
  <2> DEFINE R == Row(v)'
             more == DataRequests'
             asked == DataRequests
  <2>1. R \in Rows
    BY <1>2, RowTyped
  <2>2. n + 1 \in more => 1 \in 1 .. Len(R[c]) /\ R[c][1].kind = "Response"
    BY <1>7, <1>9
  <2>3. more \subseteq asked \union {n + 1}
    BY <1>7
  <2>4. RowInv(P, L, n, dropped, asked) /\ n \in Nat
    BY <1>3, <1>6 DEF P, L, n
  <2> HIDE DEF R, more, asked
  <2>5. \A p \in (1 .. 8) \ {c} : R[p] = P[p]
    BY <1>9 DEF R
  <2>6. \A i \in 1 .. Len(R[c]) :
            /\ R[c][i].via = "driver" => c = 8 /\ R[c][i].kind = "Response"
            /\ R[c][i].kind = "Response" => i = 1 /\ R[c][i].of = n + 1
    BY <1>9 DEF R
  <2>7. RowInv(R, L, n + 1, dropped, more)
    BY <1>5, <1>9, <2>1, <2>2, <2>3, <2>4, <2>5, <2>6, FillRow
  <2>8. RowInv(Row(v)', InDoubt', Len(received)', dropped', DataRequests')
    BY <1>6, <1>7, <1>8, <2>7 DEF R, more
  <2> QED
    BY <1>9, <2>8 DEF RowsInv
<1>10. CASE Answers(f)
  <2>1. Replies(outbox', f, n + 1)
    BY <1>10 DEF Answers, n
  <2>2. Waiting(w)'
    <3>1. sPc' # "flush"
      BY <1>10 DEF Answers
    <3>2. Drained(epq)'
      BY <1>1, <3>1 DEF SessionInv, QueuesInv
    <3> QED
      BY <1>4, <3>2 DEF Waiting
  <2> DEFINE R == Row(w)'
             o == outbox'
  <2>3. /\ R[1] = delivered /\ R[2] = net /\ R[3] = OutboxFrames(o) /\ R[4] = chan /\ R[5] = wFrame
        /\ R[6] = Echoes(tx) /\ R[7] = Echoes(rx) /\ R[8] = <<>>
    <3>1. R[1] = delivered' /\ R[2] = net' /\ R[3] = OutboxFrames(outbox') /\ R[4] = chan'
          /\ R[5] = wFrame' /\ R[6] = Echoes(tx') /\ R[7] = Echoes(rx') /\ R[8] = Echoes(w)
      BY <1>2, RowTyped
    <3>2. Echoes(w) = <<>>
      BY <1>4, EchoesFacts
    <3> QED
      BY <1>6, <3>1, <3>2
  <2>4. \A p \in (1 .. 8) \ {3} : R[p] = P[p]
    <3> HIDE DEF R
    <3> QED
      BY <1>5, <2>3
  <2>5. /\ Len(R[3]) = Len(o) /\ \A i \in 1 .. Len(R[3]) : R[3][i] = o[i].frame
    <3>1. o \in Seq(OutFrames)
      BY <2>1 DEF Replies
    <3> HIDE DEF R, o
    <3> QED
      BY <2>3, <3>1, OutboxFacts
  <2>6. \A i \in 1 .. Len(R[3]) :
            /\ R[3][i].via = "driver" => 3 = 8 /\ R[3][i].kind = "Response"
            /\ R[3][i].kind = "Response" => i = 1 /\ R[3][i].of = n + 1
    <3> HIDE DEF R
    <3> QED
      BY <2>1, <2>5 DEF Replies
  <2>7. f.type = "Request" => 1 \in 1 .. Len(R[3]) /\ R[3][1].kind = "Response"
    <3> HIDE DEF R
    <3> QED
      BY <2>1, <2>5 DEF Replies
  <2>8. 3 \in 1 .. 8 /\ P[3] = <<>>
    BY <1>5
  <2> QED
    BY <1>9, <2>2, <2>4, <2>6, <2>7, <2>8
<1>11. CASE QueuesFrame(f)
  <2>1. PICK t \in Request : t = Tagged(f) /\ t.tag = n + 1
    BY <1>2, TaggedTyped DEF n
  <2>2. /\ HoldsFrame(epq', t) /\ outbox' = <<>>
    BY <1>1, <1>11, <2>1, EnqueueOnDrained DEF Listening, QueuesFrame
  <2>3. PICK v \in Seq(Request) : v = <<t>> /\ Len(v) = 1 /\ v[1] = t
    BY <2>1, OneElement
  <2> DEFINE R == Row(v)'
  <2>4. Waiting(v)'
    BY <2>1, <2>2, <2>3 DEF Waiting
  <2>5. /\ R[1] = delivered /\ R[2] = net /\ R[3] = <<>> /\ R[4] = chan /\ R[5] = wFrame
        /\ R[6] = Echoes(tx) /\ R[7] = Echoes(rx) /\ R[8] = Echoes(v)
    <3>1. R[1] = delivered' /\ R[2] = net' /\ R[3] = OutboxFrames(outbox') /\ R[4] = chan'
          /\ R[5] = wFrame' /\ R[6] = Echoes(tx') /\ R[7] = Echoes(rx') /\ R[8] = Echoes(v)
      BY <1>2, <2>3, RowTyped
    <3>2. OutboxFrames(outbox') = <<>>
      <4>1. <<>> \in Seq(OutFrames)
        OBVIOUS
      <4> QED
        BY <2>2, <4>1, OutboxFacts
    <3> QED
      BY <1>6, <3>1, <3>2
  <2> HIDE DEF R
  <2>6. \A p \in (1 .. 8) \ {8} : R[p] = P[p]
    BY <1>5, <2>5
  <2>7. Len(R[8]) = 1 /\ R[8][1] = Echo(t)
    <3>1. 1 \in 1 .. Len(v)
      BY <2>3
    <3> QED
      BY <2>3, <2>5, <3>1, EchoesFacts
  <2>8. /\ Echo(t).kind = "Response" /\ Echo(t).of = n + 1
    BY <2>1, EchoTyped
  <2>9. \A i \in 1 .. Len(R[8]) :
            /\ R[8][i].via = "driver" => 8 = 8 /\ R[8][i].kind = "Response"
            /\ R[8][i].kind = "Response" => i = 1 /\ R[8][i].of = n + 1
    <3>1. \A i \in 1 .. Len(R[8]) : i = 1
      BY <2>7
    <3> QED
      BY <2>7, <2>8, <3>1
  <2>10. 1 \in 1 .. Len(R[8]) /\ R[8][1].kind = "Response" /\ 8 \in 1 .. 8 /\ P[8] = <<>>
    BY <1>5, <2>7, <2>8
  <2> QED
    BY <1>9, <2>3, <2>4, <2>6, <2>9, <2>10 DEF R
<1> QED
  BY <1>1, <1>10, <1>11

\* Rows with the same places are the same.
LEMMA SameRow ==
    ASSUME NEW P \in Rows, NEW R \in Rows, \A p \in 1 .. 8 : R[p] = P[p]
    PROVE  R = P
<1> DEFINE S == Seq(Response)
<1>1. P \in [1 .. 8 -> S] /\ R \in [1 .. 8 -> S]
  BY DEF Rows
<1> HIDE DEF S
<1> QED
  BY <1>1

\* The session task moves a frame on, or gives it up.
LEMMA TaskKeepsRows ==
    ASSUME SessionInv, TypeInv, RowsInv, SessionStep
    PROVE  RowsInv'
<1>1. SessionInv' /\ TypeInv' /\ TypeOK /\ TypeOK'
  BY TaskStep, TaskKeepsTypes DEF TypeInv
<1>2. UNCHANGED <<received, backend>>
  BY DEF SessionStep, ReadEof, FlushTransfer, FlushDone, TakeFromChannel, SendFrame, SendError,
         Cleanup, Join, DetachSession, attachmentVars, driverVars
<1>3. Drained(epq')
  <2>1. CASE FlushTransfer
    BY <2>1, FlushEffect
  <2>2. CASE ~FlushTransfer
    <3>1. sPc' # "flush"
      BY <2>2 DEF SessionInv, SessionStep, ReadEof, FlushDone, TakeFromChannel, SendFrame, SendError,
                  Cleanup, Join
    <3> QED
      BY <1>1, <3>1 DEF SessionInv, QueuesInv
  <2> QED
    BY <2>1, <2>2
<1> DEFINE n == Len(received)
           L == InDoubt
           asked == DataRequests
           none == <<>>
<1>4. PICK w \in Seq(Request) : Waiting(w) /\ RowInv(Row(w), L, n, dropped, asked)
  BY DEF RowsInv
<1> DEFINE P == Row(w)
           R == Row(none)'
<1>5. none \in Seq(Request) /\ none \in Seq(OutFrames) /\ none \in Seq(Response) /\ none = <<>>
  OBVIOUS
<1>6. /\ P \in Rows /\ P[1] = delivered /\ P[2] = net /\ P[3] = OutboxFrames(outbox)
      /\ P[4] = chan /\ P[5] = wFrame
      /\ P[6] = Echoes(tx) /\ P[7] = Echoes(rx) /\ P[8] = Echoes(w)
  BY <1>1, RowTyped
<1>7. /\ R \in Rows /\ R[1] = delivered' /\ R[2] = net' /\ R[3] = OutboxFrames(outbox')
      /\ R[4] = chan' /\ R[5] = wFrame'
      /\ R[6] = Echoes(tx') /\ R[7] = Echoes(rx') /\ R[8] = <<>>
  <2> HIDE DEF none
  <2>1. /\ R \in Rows /\ R[1] = delivered' /\ R[2] = net' /\ R[3] = OutboxFrames(outbox')
        /\ R[4] = chan' /\ R[5] = wFrame'
        /\ R[6] = Echoes(tx') /\ R[7] = Echoes(rx') /\ R[8] = Echoes(none)
    BY <1>1, <1>5, RowTyped
  <2>2. Echoes(none) = <<>>
    BY <1>5, EchoesFacts
  <2> QED
    BY <2>1, <2>2
<1>8. ASSUME RowInv(R, L, n, dropped', asked)
      PROVE  RowsInv'
  <2>1. Waiting(none)'
    BY <1>3 DEF Waiting
  <2> HIDE DEF none
  <2> QED
    BY <1>2, <1>5, <1>8, <2>1, SameRequests
<1>9. RowInv(P, L, n, dropped, asked)
  BY <1>4
<1>10. /\ outbox \in Seq(OutFrames) /\ net \in Seq(Response) /\ chan \in Seq(Response)
       /\ rx \in Seq(Request) /\ tx \in Seq(Request)
  BY <1>1 DEF TypeOK, OutFrames
<1> HIDE DEF P, R, L, n, asked
<1>11. CASE ReadEof \/ FlushDone \/ Cleanup \/ Join \/ TakeFromChannel \/ SendFrame \/ SendError
  <2>1. P[8] = <<>>
    <3>1. Drained(epq)
      <4>1. CASE sPc # "flush"
        BY <4>1 DEF SessionInv, QueuesInv
      <4>2. CASE FlushDone
        BY <4>2, PopOnOne DEF FlushDone, SessionInv, QueuesInv, HoldsOne
      <4> QED
        BY <1>11, <4>1, <4>2 DEF ReadEof, Cleanup, Join, TakeFromChannel, SendFrame, SendError
    <3>2. w = none
      BY <1>4, <3>1, WaitingFacts
    <3> HIDE DEF none
    <3> QED
      BY <1>5, <1>6, <3>2, EchoesFacts
  <2>2. CASE ReadEof \/ FlushDone \/ Cleanup \/ Join
    <3>1. UNCHANGED <<delivered, net, outbox, chan, wFrame, tx, rx, dropped>>
      BY <2>2 DEF ReadEof, FlushDone, Cleanup, Join, clientVars, workerVars
    <3>2. \A p \in 1 .. 8 : R[p] = P[p]
      BY <1>6, <1>7, <2>1, <3>1
    <3>3. R = P
      BY <1>6, <1>7, <3>2, SameRow
    <3> QED
      BY <1>8, <1>9, <3>1, <3>3
  <2>3. CASE TakeFromChannel
    <3> DEFINE o == Out(Head(chan), "break")
    <3>1. /\ chan # <<>> /\ chan' = Tail(chan) /\ outbox' = <<o>>
          /\ UNCHANGED <<delivered, net, wFrame, tx, rx, dropped>> /\ outbox = <<>>
      BY <2>3 DEF TakeFromChannel, clientVars, workerVars, TypeInv
    <3>2. OutboxFrames(outbox) = <<>>
      BY <1>10, <3>1, OutboxFacts
    <3>3. OutboxFrames(outbox') = Append(<<>>, Head(chan))
      <4>1. Head(chan) \in Response
        BY <1>10, <3>1, HeadTailProperties
      <4>2. o \in OutFrames /\ o.frame = Head(chan)
        BY <4>1, EchoTyped
      <4> HIDE DEF o
      <4>3. <<o>> \in Seq(OutFrames) /\ Len(<<o>>) = 1 /\ <<o>>[1] = o
        BY <4>2, OneElement
      <4> DEFINE b == OutboxFrames(<<o>>)
      <4>4. b \in Seq(Response) /\ Len(b) = 1 /\ b[1] = Head(chan)
        <5>1. 1 \in 1 .. Len(<<o>>)
          BY <4>3
        <5> QED
          BY <4>2, <4>3, <5>1, OutboxFacts
      <4> HIDE DEF b
      <4>5. b = <<Head(chan)>>
        BY <4>4
      <4> QED
        BY <3>1, <4>1, <4>5, OneElement DEF b
    <3> HIDE DEF o
    <3>4. /\ P[4] # <<>> /\ R[3] = Append(P[3], Head(P[4])) /\ R[4] = Tail(P[4])
      BY <1>6, <1>7, <3>1, <3>2, <3>3
    <3>5. \A p \in (1 .. 8) \ {3, 4} : R[p] = P[p]
      BY <1>6, <1>7, <2>1, <3>1
    <3>6. 4 \notin L /\ 3 \in 1 .. 7 /\ 4 = 3 + 1
      BY DEF L, InDoubt
    <3>7. RowInv(R, L, n, dropped, asked)
      BY <1>6, <1>7, <1>9, <3>4, <3>5, <3>6, MoveRow
    <3> QED
      BY <1>8, <3>1, <3>7
  <2>4. CASE SendFrame
    <3> DEFINE h == Head(outbox).frame
    <3>1. outbox # <<>>
      BY <2>4 DEF SendFrame, TypeInv, TypeOK
    <3>2. /\ net' = (IF peer = "open" THEN Append(net, h) ELSE net)
          /\ dropped' = (IF peer = "open" THEN dropped ELSE dropped \union Tags(<<h>>))
          /\ outbox' = Tail(outbox) /\ UNCHANGED <<delivered, chan, wFrame, tx, rx>>
      BY <2>4 DEF SendFrame, clientVars, workerVars
    <3> HIDE DEF h
    <3>3. /\ P[3] # <<>> /\ Head(P[3]) = h /\ R[3] = Tail(P[3])
      BY <1>6, <1>7, <1>10, <3>1, <3>2, OutboxFacts DEF h
    <3>4. CASE peer = "open"
      <4>1. /\ P[3] # <<>> /\ R[2] = Append(P[2], Head(P[3])) /\ R[3] = Tail(P[3])
        BY <1>6, <1>7, <3>2, <3>3, <3>4
      <4>2. \A p \in (1 .. 8) \ {2, 3} : R[p] = P[p]
        BY <1>6, <1>7, <2>1, <3>2
      <4>3. 3 \notin L /\ 2 \in 1 .. 7 /\ 3 = 2 + 1
        BY DEF L, InDoubt
      <4>4. RowInv(R, L, n, dropped, asked)
        BY <1>6, <1>7, <1>9, <4>1, <4>2, <4>3, MoveRow
      <4> QED
        BY <1>8, <3>2, <3>4, <4>4
    <3>5. CASE peer # "open"
      <4>1. \A p \in (1 .. 8) \ {3} : R[p] = P[p]
        BY <1>6, <1>7, <2>1, <3>2, <3>5
      <4>2. 3 \in 1 .. 8
        OBVIOUS
      <4>3. RowInv(R, L, n, dropped \union Tags(<<Head(P[3])>>), asked)
        BY <1>6, <1>7, <1>9, <3>3, <4>1, <4>2, CutHead
      <4> QED
        BY <1>8, <3>2, <3>3, <3>5, <4>3
    <3> QED
      BY <3>4, <3>5
  <2>5. CASE SendError
    <3>1. /\ dropped' = dropped \union Tags(OutboxFrames(outbox)) /\ outbox' = <<>>
          /\ UNCHANGED <<delivered, net, chan, wFrame, tx, rx>>
      BY <2>5 DEF SendError, clientVars, workerVars
    <3>2. R[3] = <<>>
      BY <1>5, <1>7, <3>1, OutboxFacts
    <3>3. \A p \in (1 .. 8) \ {3} : R[p] = P[p]
      BY <1>6, <1>7, <2>1, <3>1
    <3>4. 3 \in 1 .. 8
      OBVIOUS
    <3>5. RowInv(R, L, n, dropped \union Tags(P[3]), asked)
      BY <1>6, <1>7, <1>9, <3>2, <3>3, <3>4, CutAll
    <3> QED
      BY <1>6, <1>8, <3>1, <3>5
  <2> QED
    BY <1>11, <2>2, <2>3, <2>4, <2>5
<1>12. CASE FlushTransfer
  <2>1. /\ outbox = <<>>
        /\ UNCHANGED <<delivered, net, chan, wFrame>>
        /\ \E f \in Request : HoldsFrame(epq, f) /\ (Refused(f) \/ Pushed(f))
    BY <1>12, FlushEffect DEF clientVars, workerVars
  <2>2. PICK f \in Request : HoldsFrame(epq, f) /\ (Refused(f) \/ Pushed(f))
    BY <2>1
  <2> DEFINE e == Echo(f)
             one == <<f>>
  <2>3. /\ e \in Response /\ e.kind = "Response" /\ e.of = f.tag
    BY EchoTyped
  <2>4. P[8] = <<e>> /\ P[3] = <<>>
    <3>1. w = one
      BY <1>4, <2>2, WaitingFacts
    <3>2. one \in Seq(Request) /\ Len(one) = 1 /\ one[1] = f /\ 1 \in 1 .. 1
      BY OneElement
    <3>3. OutboxFrames(outbox) = <<>>
      BY <1>10, <2>1, OutboxFacts
    <3> HIDE DEF one, e
    <3>4. Echoes(one) \in Seq(Response) /\ Len(Echoes(one)) = 1 /\ Echoes(one)[1] = e
      BY <3>2, EchoesFacts DEF e
    <3>5. Echoes(one) = <<e>>
      BY <3>4
    <3> QED
      BY <1>6, <3>1, <3>3, <3>5
  <2>5. \A p \in {1, 2, 4, 5} : R[p] = P[p]
    BY <1>6, <1>7, <2>1
  <2> HIDE DEF one
  <2>6. CASE Refused(f)
    <3> DEFINE x == Answer("Response", f, "Failed")
    <3>1. x \in Response /\ x.kind = "Response" /\ x.of = f.tag /\ x.via # "driver"
      <4>1. f.id \in Nat /\ f.tag \in Nat
        BY DEF Request
      <4> QED
        BY <4>1, AnswerTyped
    <3>2. R[3] = <<x>>
      <4> DEFINE o == Refusal(f)
      <4>1. o \in OutFrames /\ o.frame = x
        BY <3>1, EchoTyped DEF Refusal
      <4>2. outbox' = <<o>>
        BY <2>6 DEF Refused
      <4> HIDE DEF o, x
      <4>3. <<o>> \in Seq(OutFrames) /\ Len(<<o>>) = 1 /\ <<o>>[1] = o /\ 1 \in 1 .. 1
        BY <4>1, OneElement
      <4>4. R[3] \in Seq(Response) /\ Len(R[3]) = 1 /\ R[3][1] = x
        BY <1>7, <4>1, <4>2, <4>3, OutboxFacts
      <4> QED
        BY <4>4
    <3>3. tx' = tx /\ dropped' = dropped
      BY <2>6 DEF Refused
    <3>4. R[7] = P[7] \/ (7 \in L /\ R[7] = Append(P[7], e))
      <4>1. rx' = rx \/ (7 \in L /\ rx' = Append(rx, f))
        BY <2>6 DEF Refused, L, InDoubt
      <4>2. Echoes(Append(rx, f)) = Append(Echoes(rx), e)
        BY <1>10, EchoesFacts
      <4> QED
        BY <1>6, <1>7, <4>1, <4>2
    <3>5. \A p \in {1, 2, 4, 5, 6} : R[p] = P[p]
      BY <1>6, <1>7, <2>5, <3>3
    <3>6. 8 \notin L /\ 3 \notin L /\ R[8] = <<>>
      BY <1>7 DEF L, InDoubt
    <3> HIDE DEF e, x
    <3>7. RowInv(R, L, n, dropped, asked)
      BY <1>6, <1>7, <1>9, <2>3, <2>4, <3>1, <3>2, <3>4, <3>5, <3>6, FailRow
    <3> QED
      BY <1>8, <3>3, <3>7
  <2>7. CASE Pushed(f)
    <3> DEFINE r == Append(rx, f)
               M == RowOf(delivered, net, outbox, chan, wFrame, tx, r, none)
    <3>1. /\ outbox' = <<>>
          /\ \/ rx' = r /\ tx' = tx /\ dropped' = dropped
             \/ /\ L = {} /\ rx' = Tail(r)
                /\ \/ tx' = Append(tx, Head(r)) /\ dropped' = dropped
                   \/ tx' = tx /\ dropped' = dropped \union {Head(r).tag}
      BY <2>7 DEF Pushed, L, InDoubt
    <3>2. /\ r \in Seq(Request) /\ r # <<>> /\ Echoes(r) = Append(Echoes(rx), e)
      <4>1. r \in Seq(Request) /\ Len(r) = Len(rx) + 1 /\ Len(rx) \in Nat
        BY <1>10
      <4>2. r = <<>> => Len(r) = 0
        OBVIOUS
      <4>3. Echoes(r) = Append(Echoes(rx), e)
        BY <1>10, EchoesFacts
      <4> HIDE DEF r
      <4> QED
        BY <4>1, <4>2, <4>3
    <3>3. R[3] = <<>>
      BY <1>5, <1>7, <3>1, OutboxFacts
    <3> HIDE DEF r
    <3>4. /\ M \in Rows /\ M[1] = delivered /\ M[2] = net /\ M[3] = OutboxFrames(outbox)
          /\ M[4] = chan /\ M[5] = wFrame
          /\ M[6] = Echoes(tx) /\ M[7] = Echoes(r) /\ M[8] = <<>>
      <4> HIDE DEF none
      <4>1. delivered \in Seq(Response) /\ wFrame \in Seq(Response)
        BY <1>1 DEF TypeOK
      <4>2. HasPlaces(M, delivered, net, outbox, chan, wFrame, tx, r, none)
        BY <1>5, <1>10, <3>2, <4>1, RowPlaces
      <4>3. Echoes(none) = <<>>
        BY <1>5, EchoesFacts
      <4> HIDE DEF M
      <4> QED
        BY <4>2, <4>3 DEF HasPlaces
    <3> HIDE DEF M
    <3>5. RowInv(M, L, n, dropped, asked)
      <4>1. /\ P[8] # <<>> /\ M[7] = Append(P[7], Head(P[8])) /\ M[8] = Tail(P[8])
        <5>1. Head(<<e>>) = e /\ Tail(<<e>>) = <<>> /\ <<e>> # <<>>
          BY OneElement
        <5> HIDE DEF e
        <5> QED
          BY <1>6, <2>4, <3>2, <3>4, <5>1
      <4>2. \A p \in (1 .. 8) \ {7, 8} : M[p] = P[p]
        BY <1>6, <3>4
      <4>3. 8 \notin L /\ 7 \in 1 .. 7 /\ 8 = 7 + 1
        BY DEF L, InDoubt
      <4> QED
        BY <1>6, <1>9, <3>4, <4>1, <4>2, <4>3, MoveRow
    <3>6. M[3] = <<>>
      BY <1>6, <2>4, <3>4
    <3>7. CASE rx' = r /\ tx' = tx /\ dropped' = dropped
      <4>1. \A p \in 1 .. 8 : R[p] = M[p]
        BY <1>7, <2>1, <3>3, <3>4, <3>6, <3>7
      <4>2. R = M
        BY <1>7, <3>4, <4>1, SameRow
      <4> QED
        BY <1>8, <3>5, <3>7, <4>2
    <3>8. ASSUME L = {}, rx' = Tail(r)
          PROVE  /\ M[7] # <<>> /\ Head(M[7]) = Echo(Head(r)) /\ R[7] = Tail(M[7])
                 /\ Head(r) \in Request
      BY <1>7, <3>2, <3>4, <3>8, EchoesFacts, HeadTailProperties
    <3>9. CASE L = {} /\ rx' = Tail(r) /\ tx' = Append(tx, Head(r)) /\ dropped' = dropped
      <4>1. /\ M[7] # <<>> /\ R[6] = Append(M[6], Head(M[7])) /\ R[7] = Tail(M[7])
        <5>1. Head(r) \in Request
          BY <3>8, <3>9
        <5>2. Echoes(Append(tx, Head(r))) = Append(Echoes(tx), Echo(Head(r)))
          BY <1>10, <5>1, EchoesFacts
        <5> QED
          BY <1>7, <3>4, <3>8, <3>9, <5>2
      <4>2. \A p \in (1 .. 8) \ {6, 7} : R[p] = M[p]
        BY <1>7, <2>1, <3>3, <3>4, <3>6
      <4>3. 7 \notin L /\ 6 \in 1 .. 7 /\ 7 = 6 + 1
        BY <3>9
      <4>4. RowInv(R, L, n, dropped, asked)
        BY <1>7, <3>4, <3>5, <4>1, <4>2, <4>3, MoveRow
      <4> QED
        BY <1>8, <3>9, <4>4
    <3>10. CASE L = {} /\ rx' = Tail(r) /\ tx' = tx /\ dropped' = dropped \union {Head(r).tag}
      <4>1. M[7] # <<>> /\ R[7] = Tail(M[7]) /\ 7 \in 1 .. 8
        BY <3>8, <3>10
      <4>2. \A p \in (1 .. 8) \ {7} : R[p] = M[p]
        BY <1>7, <2>1, <3>3, <3>4, <3>6, <3>10
      <4>3. RowInv(R, L, n, dropped \union Tags(<<Head(M[7])>>), asked)
        BY <1>7, <3>4, <3>5, <4>1, <4>2, CutHead
      <4>4. Tags(<<Head(M[7])>>) = {Head(r).tag}
        <5> DEFINE y == Head(M[7])
        <5>1. y.kind = "Response" /\ y.of = Head(r).tag
          BY <3>8, <3>10, EchoTyped
        <5>2. Len(<<y>>) = 1 /\ <<y>>[1] = y /\ \A i \in 1 .. 1 : i = 1
          BY OneElement
        <5> HIDE DEF y
        <5>3. Tags(<<y>>) = {Head(r).tag}
          <6>1. {j \in 1 .. Len(<<y>>) : <<y>>[j].kind = "Response"} = {1}
            BY <5>1, <5>2
          <6> QED
            BY <5>1, <5>2, <6>1 DEF Tags
        <5> QED
          BY <5>3 DEF y
      <4> QED
        BY <1>8, <3>10, <4>3, <4>4
    <3> QED
      BY <3>1, <3>7, <3>9, <3>10
  <2> QED
    BY <2>2, <2>6, <2>7
<1> QED
  BY <1>11, <1>12 DEF SessionStep

\* So do the worker and the client.
LEMMA OthersKeepRows ==
    ASSUME TypeInv, RowsInv, Worker \/ Client \/ UNCHANGED vars
    PROVE  RowsInv'
<1>1. TypeInv' /\ TypeOK /\ TypeOK'
  BY OthersKeepTypes DEF TypeInv
<1>2. UNCHANGED <<received, backend, epq, outbox, rx>>
  BY DEF Worker, WorkerCheck, WorkerPoll, WorkerSend, Client, ClientRead, ClientClose, vars,
         sessionVars, driverVars
<1> DEFINE n == Len(received)
           L == InDoubt
           asked == DataRequests
<1>3. PICK w \in Seq(Request) : Waiting(w) /\ RowInv(Row(w), L, n, dropped, asked)
  BY DEF RowsInv
<1> DEFINE P == Row(w)
           R == Row(w)'
<1>4. /\ P \in Rows /\ P[1] = delivered /\ P[2] = net /\ P[3] = OutboxFrames(outbox)
      /\ P[4] = chan /\ P[5] = wFrame
      /\ P[6] = Echoes(tx) /\ P[7] = Echoes(rx) /\ P[8] = Echoes(w)
  BY <1>1, RowTyped
<1>5. /\ R \in Rows /\ R[1] = delivered' /\ R[2] = net' /\ R[3] = OutboxFrames(outbox)
      /\ R[4] = chan' /\ R[5] = wFrame'
      /\ R[6] = Echoes(tx') /\ R[7] = Echoes(rx) /\ R[8] = Echoes(w)
  <2>1. /\ R \in Rows /\ R[1] = delivered' /\ R[2] = net' /\ R[3] = OutboxFrames(outbox')
        /\ R[4] = chan' /\ R[5] = wFrame'
        /\ R[6] = Echoes(tx') /\ R[7] = Echoes(rx') /\ R[8] = Echoes(w)
    BY <1>1, RowTyped
  <2> QED
    BY <1>2, <2>1
<1>6. ASSUME RowInv(R, L, n, dropped', asked)
      PROVE  RowsInv'
  <2>1. Waiting(w)'
    BY <1>2, <1>3 DEF Waiting
  <2> QED
    BY <1>2, <1>6, <2>1, SameRequests
<1>7. RowInv(P, L, n, dropped, asked)
  BY <1>3
<1>8. net \in Seq(Response) /\ tx \in Seq(Request)
  BY <1>1 DEF TypeOK
<1> HIDE DEF P, R, L, n, asked
<1>9. ASSUME UNCHANGED <<tx, wFrame, chan, net, delivered, dropped>>
      PROVE  RowsInv'
  <2>1. \A p \in 1 .. 8 : R[p] = P[p]
    BY <1>4, <1>5, <1>9
  <2>2. R = P
    BY <1>4, <1>5, <2>1, SameRow
  <2> QED
    BY <1>6, <1>7, <1>9, <2>2
<1>10. CASE WorkerCheck \/ UNCHANGED vars
  BY <1>9, <1>10 DEF WorkerCheck, vars, clientVars, workerVars
<1>11. CASE WorkerPoll
  <2>1. UNCHANGED <<chan, net, delivered, dropped>> /\ wPc = "poll"
    BY <1>11 DEF WorkerPoll, clientVars
  <2>2. CASE TxFrameReady
    <3> DEFINE e == Echo(Head(tx))
    <3>1. tx # <<>> /\ wFrame' = <<e>> /\ tx' = Tail(tx) /\ wFrame = <<>>
      BY <1>11, <2>1, <2>2 DEF WorkerPoll, TxFrameReady, TypeInv
    <3>2. P[6] # <<>> /\ Head(P[6]) = e /\ R[6] = Tail(P[6])
      BY <1>4, <1>5, <1>8, <3>1, EchoesFacts
    <3>3. R[5] = Append(P[5], Head(P[6]))
      <4> HIDE DEF e
      <4> QED
        BY <1>4, <1>5, <3>1, <3>2, OneElement
    <3>4. \A p \in (1 .. 8) \ {5, 6} : R[p] = P[p]
      BY <1>4, <1>5, <2>1
    <3>5. 6 \notin L /\ 5 \in 1 .. 7 /\ 6 = 5 + 1
      BY DEF L, InDoubt
    <3>6. RowInv(R, L, n, dropped, asked)
      BY <1>4, <1>5, <1>7, <3>2, <3>3, <3>4, <3>5, MoveRow
    <3> QED
      BY <1>6, <2>1, <3>6
  <2>3. CASE ~TxFrameReady
    BY <1>9, <1>11, <2>1, <2>3 DEF WorkerPoll
  <2> QED
    BY <2>2, <2>3
<1>12. CASE WorkerSend
  <2>1. /\ UNCHANGED <<tx, net, delivered, dropped>> /\ wPc = "send"
        /\ chan' = chan \o wFrame /\ wFrame' = <<>>
    BY <1>12 DEF WorkerSend, clientVars
  <2>2. wFrame \in Seq(Response) /\ Len(wFrame) = 1 /\ chan \in Seq(Response)
    BY <1>1, <2>1 DEF TypeOK
  <2> DEFINE h == Head(wFrame)
  <2>3. wFrame # <<>> /\ h \in Response /\ wFrame = <<h>> /\ Tail(wFrame) = <<>>
    BY <2>2, OneLong
  <2>4. Tail(wFrame) = <<>> /\ chan \o wFrame = Append(chan, h)
    <3> HIDE DEF h
    <3>1. chan \o <<h>> = Append(chan, h)
      BY <2>2, <2>3
    <3> QED
      BY <2>3, <3>1
  <2>5. P[5] # <<>> /\ R[5] = Tail(P[5]) /\ R[4] = Append(P[4], Head(P[5]))
    BY <1>4, <1>5, <2>1, <2>3, <2>4
  <2>6. \A p \in (1 .. 8) \ {4, 5} : R[p] = P[p]
    BY <1>4, <1>5, <2>1
  <2>7. 5 \notin L /\ 4 \in 1 .. 7 /\ 5 = 4 + 1
    BY DEF L, InDoubt
  <2>8. RowInv(R, L, n, dropped, asked)
    BY <1>4, <1>5, <1>7, <2>5, <2>6, <2>7, MoveRow
  <2> QED
    BY <1>6, <2>1, <2>8
<1>13. CASE ClientRead
  <2>1. /\ UNCHANGED <<tx, wFrame, chan, dropped>> /\ net # <<>>
        /\ net' = Tail(net) /\ delivered' = Append(delivered, Head(net))
    BY <1>13 DEF ClientRead, workerVars
  <2>2. P[2] # <<>> /\ R[2] = Tail(P[2]) /\ R[1] = Append(P[1], Head(P[2]))
    BY <1>4, <1>5, <2>1
  <2>3. \A p \in (1 .. 8) \ {1, 2} : R[p] = P[p]
    BY <1>4, <1>5, <2>1
  <2>4. 2 \notin L /\ 1 \in 1 .. 7 /\ 2 = 1 + 1
    BY DEF L, InDoubt
  <2>5. RowInv(R, L, n, dropped, asked)
    BY <1>4, <1>5, <1>7, <2>2, <2>3, <2>4, MoveRow
  <2> QED
    BY <1>6, <2>1, <2>5
<1>14. CASE ClientClose
  <2>1. /\ UNCHANGED <<tx, wFrame, chan, delivered>>
        /\ net' = <<>> /\ dropped' = dropped \union Tags(net)
    BY <1>14 DEF ClientClose, workerVars
  <2>2. \A p \in (1 .. 8) \ {2} : R[p] = P[p]
    BY <1>4, <1>5, <2>1
  <2>3. R[2] = <<>> /\ 2 \in 1 .. 8
    BY <1>5, <2>1
  <2>4. RowInv(R, L, n, dropped \union Tags(P[2]), asked)
    BY <1>4, <1>5, <1>7, <2>2, <2>3, CutAll
  <2> QED
    BY <1>4, <1>6, <2>1, <2>4
<1> QED
  BY <1>10, <1>11, <1>12, <1>13, <1>14 DEF Worker, Client

\* The places of the daemon are always a row.
LEMMA AlwaysRows == Spec => [](TypeInv /\ RowsInv)
<1>1. Init => RowsInv
  <2> SUFFICES ASSUME Init PROVE RowsInv
    OBVIOUS
  <2> DEFINE none == <<>>
             P == Row(none)
  <2>1. none \in Seq(Request) /\ none \in Seq(OutFrames) /\ none \in Seq(Response)
    OBVIOUS
  <2>2. Waiting(none)
    <3>1. epq = Queues(0, <<>>, <<>>, {}, 0)
      BY DEF Init, EmptyQueues, Queues
    <3> QED
      BY <3>1 DEF Waiting, Drained
  <2>3. P = RowOf(none, none, none, none, none, none, none, none)
    BY DEF Init, Row
  <2>4. P \in Rows /\ \A p \in 1 .. 8 : Len(P[p]) = 0
    <3> DEFINE a == OutboxFrames(none)
               b == Echoes(none)
    <3>1. Len(a) = 0 /\ Len(b) = 0 /\ Len(none) = 0
      BY <2>1, OutboxFacts, EchoesFacts
    <3> HIDE DEF none, P
    <3>2. HasPlaces(P, none, none, none, none, none, none, none, none)
      BY <2>1, <2>3, RowPlaces
    <3> HIDE DEF a, b
    <3>3. /\ P \in Rows /\ P[1] = none /\ P[2] = none /\ P[3] = a /\ P[4] = none /\ P[5] = none
          /\ P[6] = b /\ P[7] = b /\ P[8] = b
      BY <3>2 DEF HasPlaces, a, b
    <3> QED
      BY <3>1, <3>3
  <2>5. received = <<>> /\ dropped = {}
    BY DEF Init
  <2>6. Len(received) = 0 /\ DataRequests = {}
    <3>1. Len(received) = 0
      BY <2>5
    <3> QED
      BY <3>1 DEF DataRequests
  <2> HIDE DEF P
  <2>7. SpotsOf(P) = {}
    <3>1. \A p \in 1 .. 8 : 1 .. Len(P[p]) = {}
      BY <2>4
    <3> QED
      BY <3>1 DEF SpotsOf
  <2>8. RowInv(P, InDoubt, 0, {}, {})
    BY <2>4, <2>7 DEF RowInv, Ordered, Unique, Numbered, Accounted
  <2> HIDE DEF none
  <2> QED
    BY <2>1, <2>2, <2>5, <2>6, <2>8 DEF RowsInv, P
<1>2. SessionInv /\ TypeInv /\ RowsInv /\ [Next]_vars => RowsInv'
  BY FrameKeepsRows, TaskKeepsRows, OthersKeepRows DEF Next
<1> QED
  BY <1>1, <1>2, AlwaysTyped, PTL DEF Spec

\* The spots of the model are those of the row but for the queues.
LEMMA SpotsInRow ==
    ASSUME TypeInv, NEW w \in Seq(Request), NEW P, P = Row(w)
    PROVE  /\ \A s \in Spots : s \in SpotsOf(P) /\ s[1] \in 1 .. 7 /\ At(s) = P[s[1]][s[2]]
           /\ \A s \in SpotsOf(P) : s[1] # 8 => s \in Spots
<1>1. /\ P \in Rows /\ P[1] = delivered /\ P[2] = net /\ P[3] = OutboxFrames(outbox)
      /\ P[4] = chan /\ P[5] = wFrame
      /\ P[6] = Echoes(tx) /\ P[7] = Echoes(rx) /\ P[8] = Echoes(w)
  BY RowTyped DEF TypeInv
<1>2. \A p \in 1 .. 7 : Places[p] = P[p]
  <2>1. /\ Places[1] = delivered /\ Places[2] = net /\ Places[3] = OutboxFrames(outbox)
        /\ Places[4] = chan /\ Places[5] = wFrame
        /\ Places[6] = Echoes(tx) /\ Places[7] = Echoes(rx)
    BY DEF Places
  <2> QED
    BY <1>1, <2>1
<1>3. \A x : x \in Spots <=> \E p \in 1 .. 7 : \E i \in 1 .. Len(P[p]) : x = <<p, i>>
  <2> DEFINE F(p) == {<<p, i>> : i \in 1 .. Len(Places[p])}
  <2>1. Spots = UNION {F(p) : p \in 1 .. 7}
    BY DEF Spots, RxPlace
  <2>2. ASSUME NEW p \in 1 .. 7, NEW x
        PROVE  x \in F(p) <=> \E i \in 1 .. Len(P[p]) : x = <<p, i>>
    BY <1>2
  <2> HIDE DEF F
  <2> QED
    BY <2>1, <2>2
<1>4. ASSUME NEW s \in Spots
      PROVE  s \in SpotsOf(P) /\ s[1] \in 1 .. 7 /\ At(s) = P[s[1]][s[2]]
  <2>1. PICK p \in 1 .. 7 : \E i \in 1 .. Len(P[p]) : s = <<p, i>>
    BY <1>3
  <2>2. PICK i \in 1 .. Len(P[p]) : s = <<p, i>>
    BY <2>1
  <2>3. s[1] = p /\ s[2] = i /\ p \in 1 .. 8 /\ i \in Nat
    BY <2>2
  <2>4. s \in SpotsOf(P)
    BY <1>1, <2>2, <2>3, SpotFacts
  <2> QED
    BY <1>2, <2>3, <2>4 DEF At
<1>5. ASSUME NEW s \in SpotsOf(P), s[1] # 8
      PROVE  s \in Spots
  <2>1. s = <<s[1], s[2]>> /\ s[1] \in 1 .. 8 /\ s[2] \in 1 .. Len(P[s[1]])
    BY <1>1, SpotFacts
  <2>2. s[1] \in 1 .. 7
    BY <1>5, <2>1
  <2> QED
    BY <1>3, <2>1, <2>2
<1> QED
  BY <1>4, <1>5

\* The transfers in the queues for a request, as the row has them.
LEMMA QueuedInRow ==
    ASSUME TypeInv, NEW w \in Seq(Request), Waiting(w), NEW P, P = Row(w), NEW n
    PROVE  /\ OneOf(QueuedFor(n))
           /\ QueuedFor(n) # {} => <<8, 1>> \in SpotsOf(P) /\ IsAnswer(P, <<8, 1>>) /\ Of(P, <<8, 1>>) = n
           /\ \A s \in SpotsOf(P) : s[1] = 8 /\ Of(P, s) = n => QueuedFor(n) # {}
<1>1. P \in Rows /\ P[8] = Echoes(w)
  BY RowTyped DEF TypeInv
<1>2. CASE w = <<>> /\ Drained(epq)
  <2>1. QueuedFor(n) = {}
    <3>1. DOMAIN epq.queues = {}
      BY <1>2 DEF Drained, Queues
    <3> QED
      BY <3>1 DEF QueuedFor
  <2>2. \A s \in SpotsOf(P) : s[1] # 8
    <3>1. Len(P[8]) = 0
      BY <1>1, <1>2, EchoesFacts
    <3>2. ASSUME NEW s \in SpotsOf(P), s[1] = 8
          PROVE  FALSE
      <4>1. s[2] \in 1 .. Len(P[8])
        BY <1>1, <3>2, SpotFacts
      <4> QED
        BY <3>1, <4>1
    <3> QED
      BY <3>2
  <2> QED
    BY <2>1, <2>2 DEF OneOf
<1>3. CASE \E f \in Request : w = <<f>> /\ HoldsFrame(epq, f)
  <2>1. PICK f \in Request : w = <<f>> /\ HoldsFrame(epq, f)
    BY <1>3
  <2>2. PICK m, k, t : t.frame = f /\ epq = Queues(m, [j \in {k} |-> <<t>>], <<k>>, {k}, 1)
    BY <2>1 DEF HoldsFrame
  <2>3. DOMAIN epq.queues = {k} /\ epq.queues[k] = <<t>>
    BY <2>2 DEF Queues
  <2>4. Len(<<t>>) = 1 /\ <<t>>[1] = t /\ \A i \in 1 .. 1 : i = 1
    BY OneElement
  <2>5. QueuedFor(n) = {<<k, i>> : i \in {j \in 1 .. 1 : f.tag = n}}
    <3> DEFINE In(j) == {<<j, i>> : i \in {h \in 1 .. Len(epq.queues[j]) : epq.queues[j][h].frame.tag = n}}
    <3>1. QueuedFor(n) = In(k)
      <4>1. QueuedFor(n) = UNION {In(j) : j \in {k}}
        BY <2>3 DEF QueuedFor
      <4> HIDE DEF In
      <4> QED
        BY <4>1
    <3>2. {j \in 1 .. Len(epq.queues[k]) : epq.queues[k][j].frame.tag = n} = {j \in 1 .. 1 : f.tag = n}
      BY <2>2, <2>3, <2>4
    <3> QED
      BY <3>1, <3>2
  <2>6. OneOf(QueuedFor(n)) /\ (QueuedFor(n) # {} <=> f.tag = n)
    <3>1. CASE f.tag = n
      <4>1. {j \in 1 .. 1 : f.tag = n} = {1}
        BY <3>1
      <4>2. QueuedFor(n) = {<<k, 1>>}
        BY <2>5, <4>1
      <4> QED
        BY <3>1, <4>2 DEF OneOf
    <3>2. CASE f.tag # n
      BY <2>5, <3>2 DEF OneOf
    <3> QED
      BY <3>1, <3>2
  <2>7. Len(P[8]) = 1 /\ P[8][1] = Echo(f)
    <3>1. Len(w) = 1 /\ w[1] = f /\ 1 \in 1 .. 1
      BY <2>1, OneElement
    <3> QED
      BY <1>1, <3>1, EchoesFacts
  <2>8. <<8, 1>> \in SpotsOf(P)
    <3>1. 8 \in 1 .. 8 /\ 1 \in 1 .. Len(P[8]) /\ 1 \in Nat
      BY <2>7
    <3> QED
      BY <1>1, <3>1, SpotFacts
  <2>9. <<8, 1>>[1] = 8 /\ <<8, 1>>[2] = 1 /\ Echo(f).kind = "Response" /\ Echo(f).of = f.tag
    BY EchoTyped
  <2>10. ASSUME NEW s \in SpotsOf(P), s[1] = 8
         PROVE  s[2] = 1
    <3>1. s[2] \in 1 .. Len(P[8])
      BY <1>1, <2>10, SpotFacts
    <3> QED
      BY <2>7, <3>1
  <2> QED
    BY <2>6, <2>7, <2>8, <2>9, <2>10 DEF IsAnswer, Of
<1> QED
  BY <1>2, <1>3 DEF Waiting

\* The answers that come back through the driver are in the order of their
\* requests, in every place between the pump and the client (session.rs:49-73,
\* :152-206, :453-484).
THEOREM EchoesInOrder == Spec => []EchoOrder
<1>1. TypeInv /\ RowsInv => EchoOrder
  <2> SUFFICES ASSUME TypeInv, RowsInv, NEW s \in Spots, NEW r \in Spots,
                      Ahead(s, r), At(s).via = "driver", At(r).via = "driver"
               PROVE  At(s).of < At(r).of
    BY DEF EchoOrder
  <2>1. PICK w \in Seq(Request) :
            Waiting(w) /\ RowInv(Row(w), InDoubt, Len(received), dropped, DataRequests)
    BY DEF RowsInv
  <2> DEFINE P == Row(w)
  <2>2. /\ s \in SpotsOf(P) /\ At(s) = P[s[1]][s[2]]
        /\ r \in SpotsOf(P) /\ At(r) = P[r[1]][r[2]]
    BY SpotsInRow
  <2>3. Ordered(P)
    BY <2>1 DEF RowInv
  <2> HIDE DEF P
  <2> QED
    BY <2>2, <2>3 DEF Ordered, Driven, Of
<1> QED
  BY <1>1, AlwaysRows, PTL

\* What AccountedOnce says of one request.
AccountedAt(n, answers, outside, queued) ==
    /\ OneOf(outside) /\ OneOf(queued) /\ (outside = {} \/ queued = {})
    /\ backend # "mapped" =>
            /\ OneOf(answers) /\ (answers = {} \/ queued = {})
            /\ (answers \union queued = {}) = (n \in dropped)

\* A request that was received is in one place, or its one answer is, or that was
\* given up: none is answered twice and none gets lost unnoticed, whatever fails
\* (session.rs:152-206, :453-484, :49-73).
THEOREM RequestsAccounted == Spec => []AccountedOnce
<1>1. TypeInv /\ RowsInv => AccountedOnce
  <2> SUFFICES ASSUME TypeInv, RowsInv PROVE AccountedOnce
    OBVIOUS
  <2>1. PICK w \in Seq(Request) :
            Waiting(w) /\ RowInv(Row(w), InDoubt, Len(received), dropped, DataRequests)
    BY DEF RowsInv
  <2> DEFINE P == Row(w)
             L == InDoubt
  <2>2. RowInv(P, L, Len(received), dropped, DataRequests)
    BY <2>1
  <2>3. /\ \A s \in Spots : s \in SpotsOf(P) /\ s[1] \in 1 .. 7 /\ At(s) = P[s[1]][s[2]]
        /\ \A s \in SpotsOf(P) : s[1] # 8 => s \in Spots
    BY SpotsInRow
  <2>4. \A n : /\ OneOf(QueuedFor(n))
               /\ QueuedFor(n) # {} =>
                    <<8, 1>> \in SpotsOf(P) /\ IsAnswer(P, <<8, 1>>) /\ Of(P, <<8, 1>>) = n
               /\ \A s \in SpotsOf(P) : s[1] = 8 /\ Of(P, s) = n => QueuedFor(n) # {}
    BY <2>1, QueuedInRow
  <2>5. L \subseteq {7} /\ (backend # "mapped" => L = {})
    BY DEF InDoubt
  <2> HIDE DEF P, L
  <2>6. ASSUME NEW n \in DataRequests,
               NEW answers, answers = AnswersTo(n), NEW outside, outside = {s \in answers : s[1] < TxPlace},
               NEW queued, queued = QueuedFor(n)
        PROVE  AccountedAt(n, answers, outside, queued)
    <3>1. ASSUME NEW s \in answers
          PROVE  s \in SpotsOf(P) /\ IsAnswer(P, s) /\ Of(P, s) = n /\ s[1] \in 1 .. 7
      BY <2>3, <2>6 DEF AnswersTo, IsAnswer, Of
    <3>2. ASSUME NEW s \in answers, NEW r \in answers
          PROVE  s = r \/ s[1] \in L \/ r[1] \in L
      BY <2>2, <3>1 DEF RowInv, Unique
    <3>3. ASSUME NEW s \in answers, queued # {}
          PROVE  s[1] \in L
      <4>1. <<8, 1>> \in SpotsOf(P) /\ IsAnswer(P, <<8, 1>>) /\ Of(P, <<8, 1>>) = n
        BY <2>4, <2>6, <3>3
      <4>2. s = <<8, 1>> \/ s[1] \in L \/ <<8, 1>>[1] \in L
        BY <2>2, <3>1, <4>1 DEF RowInv, Unique
      <4>3. <<8, 1>>[1] = 8
        OBVIOUS
      <4> QED
        BY <2>5, <3>1, <4>2, <4>3
    <3>4. \A s \in outside : s \in answers /\ s[1] \notin L
      BY <2>5, <2>6, <3>1 DEF TxPlace
    <3>5. OneOf(outside) /\ OneOf(queued) /\ (outside = {} \/ queued = {})
      BY <2>4, <2>6, <3>2, <3>3, <3>4 DEF OneOf
    <3>6. ASSUME backend # "mapped"
          PROVE  /\ OneOf(answers) /\ (answers = {} \/ queued = {})
                 /\ (answers \union queued = {}) <=> (n \in dropped)
      <4>1. L = {}
        BY <2>5, <3>6
      <4>2. OneOf(answers) /\ (answers = {} \/ queued = {})
        <5>1. \A s, r \in answers : s = r
          BY <3>2, <4>1, Zenon
        <5>2. answers = {} \/ queued = {}
          BY <3>3, <4>1, Zenon
        <5> QED
          BY <5>1, <5>2, Zenon DEF OneOf
      <4>3. n \in dropped <=> n \notin Held(P)
        BY <2>2, <4>1 DEF RowInv, Accounted
      <4>4. n \in Held(P) => answers # {} \/ queued # {}
        <5> SUFFICES ASSUME NEW s \in SpotsOf(P), IsAnswer(P, s), Of(P, s) = n
                     PROVE  answers # {} \/ queued # {}
          BY DEF Held
        <5>1. CASE s[1] = 8
          BY <2>4, <2>6, <5>1
        <5>2. CASE s[1] # 8
          <6>1. s \in Spots /\ At(s) = P[s[1]][s[2]]
            BY <2>3, <5>2
          <6>2. s \in answers
            BY <2>6, <6>1 DEF AnswersTo, IsAnswer, Of
          <6> QED
            BY <6>2
        <5> QED
          BY <5>1, <5>2
      <4>5. answers # {} => n \in Held(P)
        BY <3>1 DEF Held
      <4>6. queued # {} => n \in Held(P)
        BY <2>4, <2>6 DEF Held
      <4> QED
        BY <4>2, <4>3, <4>4, <4>5, <4>6
    <3> QED
      BY <3>5, <3>6 DEF AccountedAt
  <2>7. ASSUME NEW n \in DataRequests
        PROVE  AccountedAt(n, AnswersTo(n), {s \in AnswersTo(n) : s[1] < TxPlace}, QueuedFor(n))
    BY <2>6, Zenon
  <2> QED
    BY <2>7, Zenon DEF AccountedOnce, AccountedAt
<1> QED
  BY <1>1, AlwaysRows, PTL

-----------------------------------------------------------------------------
(* What the answers say                                                    *)

\* Every answer is one of A, and every transfer on its way one of Q.
Carries(A, Q) ==
    /\ delivered \in Seq(A) /\ net \in Seq(A) /\ chan \in Seq(A) /\ wFrame \in Seq(A)
    /\ \A i \in 1 .. Len(outbox) : outbox[i].frame \in A
    /\ rx \in Seq(Q) /\ tx \in Seq(Q)
    /\ \A f : HoldsFrame(epq, f) => f \in Q

Closed(A, Q) == \A f \in Q : Echo(f) \in A /\ Answer("Response", f, "Failed") \in A

LEMMA DrainedHoldsNone == \A q, f : Drained(q) => ~HoldsFrame(q, f)
BY PopOnOne, PopOnDrained

\* An outbox of one frame.
LEMMA OneInOutbox ==
    ASSUME NEW A, NEW x \in A, NEW onError
    PROVE  LET s == <<Out(x, onError)>> IN \A i \in 1 .. Len(s) : s[i].frame \in A
<1> DEFINE o == Out(x, onError)
<1>1. o.frame = x
  BY DEF Out
<1> HIDE DEF o
<1>2. Len(<<o>>) = 1 /\ <<o>>[1] = o /\ \A i \in 1 .. 1 : i = 1
  BY OneElement
<1> QED
  BY <1>1, <1>2 DEF o

\* What the flush does with a transfer.
LEMMA FlushCarries ==
    ASSUME TypeInv, NEW A, NEW Q, Closed(A, Q), Carries(A, Q), FlushTransfer
    PROVE  Carries(A, Q)'
<1>1. /\ Drained(epq')
      /\ UNCHANGED <<workerVars, chan, net, clientVars>>
      /\ \E f \in Request : HoldsFrame(epq, f) /\ (Refused(f) \/ Pushed(f))
  BY FlushEffect
<1>2. PICK f \in Request : HoldsFrame(epq, f) /\ (Refused(f) \/ Pushed(f))
  BY <1>1
<1>3. f \in Q /\ rx \in Seq(Q) /\ tx \in Seq(Q)
  BY <1>2 DEF Carries
<1> DEFINE r == Append(rx, f)
<1>4. r \in Seq(Q) /\ Head(r) \in Q /\ Tail(r) \in Seq(Q) /\ Append(tx, Head(r)) \in Seq(Q)
  <2>1. r \in Seq(Q) /\ r # <<>>
    BY <1>3, AppendProperties
  <2> HIDE DEF r
  <2>2. Head(r) \in Q /\ Tail(r) \in Seq(Q)
    BY <2>1, HeadTailProperties
  <2> QED
    BY <1>3, <2>1, <2>2, AppendProperties
<1> HIDE DEF r
<1>5. rx' \in Seq(Q) /\ tx' \in Seq(Q)
  BY <1>2, <1>3, <1>4 DEF Refused, Pushed, r
<1>6. \A i \in 1 .. Len(outbox') : outbox'[i].frame \in A
  <2>1. CASE Refused(f)
    <3>1. Answer("Response", f, "Failed") \in A
      BY <1>3 DEF Closed
    <3> QED
      BY <2>1, <3>1, OneInOutbox DEF Refused, Refusal
  <2>2. CASE Pushed(f)
    <3>1. outbox' = <<>> /\ Len(<<>>) = 0
      BY <2>2 DEF Pushed
    <3> QED
      BY <3>1
  <2> QED
    BY <1>2, <2>1, <2>2
<1>7. \A g : ~HoldsFrame(epq', g)
  BY <1>1, DrainedHoldsNone
<1> QED
  BY <1>1, <1>5, <1>6, <1>7 DEF Carries, workerVars, clientVars

\* The answers and the transfers only move on, or get lost, but for the transfers
\* that are refused or echoed.
LEMMA StepCarries ==
    ASSUME TypeInv, SessionInv, NEW A, NEW Q, Closed(A, Q), Carries(A, Q),
           SessionStep \/ Worker \/ Client
    PROVE  Carries(A, Q)'
<1>1. CASE ReadEof \/ Join \/ WorkerCheck
  <2>1. UNCHANGED <<delivered, net, chan, wFrame, outbox, rx, tx, epq>>
    BY <1>1 DEF ReadEof, Join, WorkerCheck, sessionVars, workerVars, clientVars
  <2> QED
    BY <2>1 DEF Carries
<1>2. CASE FlushTransfer
  BY <1>2, FlushCarries
<1>3. CASE FlushDone \/ Cleanup
  <2>1. SessionInv'
    BY <1>3, TaskStep DEF SessionStep
  <2>2. UNCHANGED <<delivered, net, chan, wFrame, outbox, rx, tx>> /\ sPc' # "flush"
    BY <1>3 DEF FlushDone, Cleanup, workerVars, clientVars, SessionInv
  <2>3. Drained(epq')
    BY <2>1, <2>2 DEF SessionInv, QueuesInv
  <2>4. \A g : ~HoldsFrame(epq', g)
    BY <2>3, DrainedHoldsNone
  <2> QED
    BY <2>2, <2>4 DEF Carries
<1>4. CASE TakeFromChannel
  <2>1. /\ chan # <<>> /\ chan' = Tail(chan) /\ outbox' = <<Out(Head(chan), "break")>>
        /\ UNCHANGED <<delivered, net, wFrame, rx, tx, epq>>
    BY <1>4 DEF TakeFromChannel, workerVars, clientVars
  <2>2. Head(chan) \in A /\ chan' \in Seq(A)
    BY <2>1, HeadTailProperties DEF Carries
  <2>3. \A i \in 1 .. Len(outbox') : outbox'[i].frame \in A
    BY <2>1, <2>2, OneInOutbox
  <2> QED
    BY <2>1, <2>2, <2>3 DEF Carries
<1>5. CASE SendFrame \/ SendError
  <2>1. /\ sPc = "send" /\ UNCHANGED <<delivered, chan, wFrame, rx, tx, epq>>
        /\ net' \in {net, Append(net, Head(outbox).frame)}
        /\ outbox' \in {Tail(outbox), <<>>}
    BY <1>5 DEF SendFrame, SendError, workerVars, clientVars
  <2>2. outbox # <<>> /\ outbox \in Seq(OutFrames)
    BY <2>1 DEF TypeInv, TypeOK, OutFrames
  <2>3. /\ Len(outbox) \in Nat /\ 1 \in 1 .. Len(outbox) /\ Head(outbox) = outbox[1]
        /\ Len(Tail(outbox)) = Len(outbox) - 1
        /\ \A i \in 1 .. Len(Tail(outbox)) : Tail(outbox)[i] = outbox[i + 1]
    BY <2>2, HeadTailProperties
  <2>4. net' \in Seq(A)
    <3>1. Head(outbox).frame \in A
      BY <2>3 DEF Carries
    <3>2. net \in Seq(A)
      BY DEF Carries
    <3> QED
      BY <2>1, <3>1, <3>2, AppendProperties
  <2>5. \A i \in 1 .. Len(outbox') : outbox'[i].frame \in A
    <3>1. CASE outbox' = <<>>
      <4>1. Len(<<>>) = 0
        OBVIOUS
      <4> QED
        BY <3>1, <4>1
    <3>2. CASE outbox' = Tail(outbox)
      <4>1. \A i \in 1 .. Len(Tail(outbox)) : i + 1 \in 1 .. Len(outbox)
        BY <2>3
      <4> QED
        BY <2>3, <3>2, <4>1 DEF Carries
    <3> QED
      BY <2>1, <3>1, <3>2
  <2> QED
    BY <2>1, <2>4, <2>5 DEF Carries
<1>6. CASE WorkerPoll
  <2>1. UNCHANGED <<delivered, net, chan, outbox, rx, epq>>
    BY <1>6 DEF WorkerPoll, sessionVars, clientVars
  <2>2. CASE TxFrameReady
    <3>1. tx # <<>> /\ wFrame' = <<Echo(Head(tx))>> /\ tx' = Tail(tx)
      BY <1>6, <2>2 DEF WorkerPoll, TxFrameReady
    <3>2. Head(tx) \in Q /\ tx' \in Seq(Q)
      BY <3>1, HeadTailProperties DEF Carries
    <3>3. Echo(Head(tx)) \in A
      BY <3>2 DEF Closed
    <3>4. wFrame' \in Seq(A)
      BY <3>1, <3>3, OneElement
    <3> QED
      BY <2>1, <3>2, <3>4 DEF Carries
  <2>3. CASE ~TxFrameReady
    BY <1>6, <2>1, <2>3 DEF WorkerPoll, Carries
  <2> QED
    BY <2>2, <2>3
<1>7. CASE WorkerSend
  <2>1. /\ chan' = chan \o wFrame /\ wFrame' = <<>>
        /\ UNCHANGED <<delivered, net, outbox, rx, tx, epq>>
    BY <1>7 DEF WorkerSend, sessionVars, clientVars
  <2>2. chan' \in Seq(A)
    BY <2>1, ConcatProperties DEF Carries
  <2>3. <<>> \in Seq(A)
    OBVIOUS
  <2> QED
    BY <2>1, <2>2, <2>3 DEF Carries
<1>8. CASE ClientRead
  <2>1. /\ net # <<>> /\ net' = Tail(net) /\ delivered' = Append(delivered, Head(net))
        /\ UNCHANGED <<chan, wFrame, outbox, rx, tx, epq>>
    BY <1>8 DEF ClientRead, sessionVars, workerVars
  <2>2. Head(net) \in A /\ net' \in Seq(A)
    BY <2>1, HeadTailProperties DEF Carries
  <2>3. delivered' \in Seq(A)
    BY <2>1, <2>2, AppendProperties DEF Carries
  <2> QED
    BY <2>1, <2>2, <2>3 DEF Carries
<1>9. CASE ClientClose
  <2>1. net' = <<>> /\ UNCHANGED <<delivered, chan, wFrame, outbox, rx, tx, epq>>
    BY <1>9 DEF ClientClose, sessionVars, workerVars
  <2>2. <<>> \in Seq(A)
    OBVIOUS
  <2> QED
    BY <2>1, <2>2 DEF Carries
<1> QED
  BY <1>1, <1>2, <1>3, <1>4, <1>5, <1>6, <1>7, <1>8, <1>9 DEF SessionStep, Worker, Client

\* The frame a handler replies with: what it answers and how.
ReplyFrame(f, x) ==
    \/ x = HidEvent
    \/ \E kind, status :
        /\ x = Answer(kind, Tagged(f), status)
        /\ kind \in {"AttachResponse", "DetachResponse", "CancelResponse", "ResetResponse", "Response"}
        /\ kind = "AttachResponse" =>
            status = "Failed" \/ (status = "Ok" /\ state' = "Attached")
        /\ kind = "CancelResponse" => f.type = "CancelRequest"
        /\ kind = "Response" =>
            /\ f.type = "Request"
            /\ \/ state # "Attached" /\ status = "Failed"
               \/ state = "Attached" /\ f.key = ControlKey /\ status = ControlResponse(f).status
               \/ f.key # ControlKey /\ f.id \in OutcomeIds /\ status = "Injected"

LEMMA FrameReplies ==
    ASSUME SessionInv, TypeInv, NEW f \in ClientFrames, HandleFrame(f)
    PROVE  \A i \in 1 .. Len(outbox') : ReplyFrame(f, outbox'[i].frame)
<1> DEFINE t == Tagged(f)
           Good == {x \in Response : ReplyFrame(f, x)}
<1>1. Drained(epq) /\ outbox = <<>>
  BY FrameEffect DEF Listening
<1>2. t.id \in Nat /\ t.tag \in Nat
  BY TaggedTyped DEF TypeInv, Request
<1>3. ASSUME NEW kind \in {"AttachResponse", "DetachResponse", "CancelResponse", "ResetResponse", "Response"},
             NEW status \in {"Ok", "Failed", "Stall", "Cancelled", "Reset", "Injected"},
             ReplyFrame(f, Answer(kind, t, status)),
             NEW onError, outbox' = <<Out(Answer(kind, t, status), onError)>>
      PROVE  \A i \in 1 .. Len(outbox') : ReplyFrame(f, outbox'[i].frame)
  <2> DEFINE x == Answer(kind, t, status)
  <2>1. x \in Response
    BY <1>2, AnswerTyped
  <2>2. x \in Good
    BY <1>3, <2>1
  <2> HIDE DEF x, Good
  <2>3. \A i \in 1 .. Len(outbox') : outbox'[i].frame \in Good
    BY <1>3, <2>2, OneInOutbox DEF x
  <2> QED
    BY <2>3 DEF Good
<1> HIDE DEF Good
<1>4. CASE HandleAttach(f)
  <2>1. PICK ok \in AttachAnswers :
            /\ AttachSession(ok)
            /\ Reply(<<Out(Answer("AttachResponse", t, IF ok THEN "Ok" ELSE "Failed"), "break")>>, "select")
    BY <1>4 DEF HandleAttach, t
  <2> DEFINE status == IF ok THEN "Ok" ELSE "Failed"
  <2>2. status = "Failed" \/ (status = "Ok" /\ state' = "Attached")
    BY <2>1 DEF AttachSession
  <2>3. outbox' = <<Out(Answer("AttachResponse", t, status), "break")>> /\ status \in {"Ok", "Failed"}
    BY <2>1 DEF Reply
  <2> HIDE DEF status
  <2>4. ReplyFrame(f, Answer("AttachResponse", t, status))
    BY <2>2 DEF ReplyFrame, t
  <2> QED
    BY <1>3, <2>3, <2>4
<1>5. CASE HandleDetach(f)
  <2>1. PICK status \in {"Ok", "Failed"} : outbox' = <<Out(Answer("DetachResponse", t, status), "goOn")>>
    BY <1>5 DEF HandleDetach, t, Reply
  <2>2. ReplyFrame(f, Answer("DetachResponse", t, status))
    BY DEF ReplyFrame, t
  <2> QED
    BY <1>3, <2>1, <2>2
<1>6. CASE HandleCancel(f)
  <2>1. PICK status \in {"Cancelled", "Failed"} :
            /\ f.type = "CancelRequest"
            /\ outbox' = <<Out(Answer("CancelResponse", t, status), "break")>>
    BY <1>6 DEF HandleCancel, t, Reply, CancelStatus
  <2>2. ReplyFrame(f, Answer("CancelResponse", t, status))
    BY <2>1 DEF ReplyFrame, t
  <2> QED
    BY <1>3, <2>1, <2>2
<1>7. CASE HandleReset(f)
  <2> DEFINE x(s) == Answer("ResetResponse", t, s)
  <2>1. \E status \in {"Ok", "Failed"} : outbox' = <<Out(x(status), "goOn")>>
    <3>1. PICK status \in {"Ok", "Failed"} : ResetResponses(f) = <<x(status)>>
      BY <1>1, <1>2, ResetAlone DEF t
    <3>2. outbox' = [i \in 1 .. Len(ResetResponses(f)) |-> Out(ResetResponses(f)[i], "goOn")]
      BY <1>7 DEF HandleReset, Reply
    <3> HIDE DEF x
    <3>3. [i \in 1 .. Len(ResetResponses(f)) |-> Out(ResetResponses(f)[i], "goOn")]
            = <<Out(x(status), "goOn")>>
      BY <3>1
    <3> QED
      BY <3>2, <3>3
  <2>2. \A status : ReplyFrame(f, x(status))
    BY DEF ReplyFrame, t
  <2> QED
    BY <1>3, <2>1, <2>2
<1>8. CASE RefuseRequest(f)
  <2>1. outbox' = <<Out(Answer("Response", t, "Failed"), "break")>> /\ state # "Attached" /\ f.type = "Request"
    BY <1>8 DEF RefuseRequest, t, Reply
  <2>2. ReplyFrame(f, Answer("Response", t, "Failed"))
    BY <2>1 DEF ReplyFrame, t
  <2> QED
    BY <1>3, <2>1, <2>2
<1>9. CASE InjectOutcome(f)
  <2>1. /\ outbox' = <<Out(Answer("Response", t, "Injected"), "break")>>
        /\ f.type = "Request" /\ f.key # ControlKey /\ f.id \in OutcomeIds
    BY <1>9 DEF InjectOutcome, t, Reply
  <2>2. ReplyFrame(f, Answer("Response", t, "Injected"))
    BY <2>1 DEF ReplyFrame, t
  <2> QED
    BY <1>3, <2>1, <2>2
<1>10. CASE HandleControl(f)
  <2> DEFINE x == Answer("Response", t, ControlResponse(f).status)
  <2>1. ReplyFrame(f, x) /\ ReplyFrame(f, HidEvent)
    <3>1. f.type = "Request" /\ f.key = ControlKey /\ state = "Attached"
      BY <1>10 DEF HandleControl
    <3> QED
      BY <3>1 DEF ReplyFrame, t
  <2>2. \A i \in 1 .. Len(outbox') : outbox'[i].frame \in {x, HidEvent}
    BY <1>10, ControlReply DEF t
  <2> HIDE DEF x
  <2> QED
    BY <2>1, <2>2
<1>11. CASE QueueRequest(f) \/ IgnoreFrame(f) \/ ReadError(f)
  <2>1. outbox' = <<>> /\ Len(<<>>) = 0
    BY <1>1, <1>11 DEF QueueRequest, IgnoreFrame, ReadError, sessionVars
  <2> QED
    BY <2>1
<1> QED
  BY <1>4, <1>5, <1>6, <1>7, <1>8, <1>9, <1>10, <1>11 DEF HandleFrame

\* The loop is still to take another event.
Working == sPc = "select" \/ (sPc \in {"flush", "send"} /\ after = "select")

\* Once attached, a session is attached as long as it takes events.
Accepted == state = "Attached" \/ ~Working

\* A frame ends the loop only if it asks for that or cannot be read.
LEMMA FrameWorks ==
    ASSUME NEW f, HandleFrame(f)
    PROVE  /\ Working /\ (Accepted => Accepted')
           /\ f.type \notin {"DetachRequest", "TooLong"} => Working'
<1>1. sPc = "select"
  BY DEF HandleFrame, HandleAttach, HandleDetach, HandleCancel, HandleReset, RefuseRequest,
         HandleControl, InjectOutcome, QueueRequest, IgnoreFrame, ReadError, Receive
<1>2. \A frames : /\ Reply(frames, "select") => Working'
                  /\ Reply(frames, "cleanup") => ~Working'
  BY DEF Reply, Working
<1>3. CASE HandleAttach(f)
  <2>1. PICK ok \in AttachAnswers : AttachSession(ok) /\ \E frames : Reply(frames, "select")
    BY <1>3 DEF HandleAttach
  <2>2. state = "Attached" => state' = "Attached"
    BY <2>1 DEF AttachSession
  <2> QED
    BY <1>1, <1>2, <2>1, <2>2 DEF Working, Accepted
<1>4. CASE HandleDetach(f)
  <2>1. f.type = "DetachRequest" /\ \E frames : Reply(frames, "cleanup")
    BY <1>4 DEF HandleDetach
  <2> QED
    BY <1>1, <1>2, <2>1 DEF Working, Accepted
<1>5. CASE HandleCancel(f) \/ HandleReset(f) \/ RefuseRequest(f) \/ HandleControl(f) \/ InjectOutcome(f)
  <2>1. UNCHANGED state /\ \E frames : Reply(frames, "select")
    BY <1>5 DEF HandleCancel, HandleReset, RefuseRequest, HandleControl, InjectOutcome
  <2> QED
    BY <1>1, <1>2, <2>1 DEF Working, Accepted
<1>6. CASE QueueRequest(f) \/ IgnoreFrame(f) \/ ReadError(f)
  <2>1. /\ UNCHANGED state /\ sPc' \in {"select", "flush", "cleanup"}
        /\ sPc' = "flush" => after' = "select"
        /\ sPc' = "cleanup" => f.type = "TooLong"
    BY <1>1, <1>6 DEF QueueRequest, IgnoreFrame, ReadError, sessionVars
  <2> QED
    BY <1>1, <2>1 DEF Working, Accepted
<1> QED
  BY <1>3, <1>4, <1>5, <1>6 DEF HandleFrame

\* Other steps end it when the client is gone.
LEMMA StepWorks ==
    ASSUME TypeInv, SessionStep \/ Worker \/ Client \/ UNCHANGED vars
    PROVE  /\ Accepted => Accepted'
           /\ Working /\ peer = "open" => Working'
<1>1. CASE Worker \/ Client \/ UNCHANGED vars
  <2>1. UNCHANGED <<state, sPc, after>>
    BY <1>1 DEF Worker, Client, WorkerCheck, WorkerPoll, WorkerSend, ClientRead, ClientClose,
                sessionVars, vars
  <2> QED
    BY <2>1 DEF Working, Accepted
<1>2. CASE Cleanup \/ Join
  <2>1. sPc \in {"cleanup", "join"} /\ sPc' \in {"join", "done"}
    BY <1>2 DEF Cleanup, Join
  <2> QED
    BY <2>1 DEF Working, Accepted
<1>3. CASE ReadEof
  <2>1. peer = "closed" /\ sPc' = "cleanup"
    BY <1>3 DEF ReadEof
  <2> QED
    BY <2>1 DEF Working, Accepted
<1>4. CASE FlushTransfer \/ FlushDone
  <2>1. sPc = "flush" /\ UNCHANGED <<state, after>> /\ sPc' \in {"flush", after, "send"}
    BY <1>4 DEF FlushTransfer, FlushDone
  <2>2. after \in {"select", "cleanup"}
    BY DEF TypeInv, TypeOK
  <2> QED
    BY <2>1, <2>2 DEF Working, Accepted
<1>5. CASE TakeFromChannel
  <2>1. sPc = "select" /\ sPc' = "send" /\ after' = "select" /\ UNCHANGED state
    BY <1>5 DEF TakeFromChannel
  <2> QED
    BY <2>1 DEF Working, Accepted
<1>6. CASE SendFrame \/ SendError
  <2>1. /\ sPc = "send" /\ UNCHANGED <<state, after>> /\ sPc' \in {after, "send", "cleanup"}
        /\ sPc' = "cleanup" => peer = "closed" \/ after = "cleanup"
    BY <1>6 DEF SendFrame, SendError
  <2>2. after \in {"select", "cleanup"}
    BY DEF TypeInv, TypeOK
  <2> QED
    BY <2>1, <2>2 DEF Working, Accepted
<1> QED
  BY <1>1, <1>2, <1>3, <1>4, <1>5, <1>6 DEF SessionStep

\* What an answer says: an attach is answered Ok only by a session that is attached,
\* only a cancel is answered with a cancel's answer, a request of the endpoint 0 with what the control endpoint makes of it, and
\* another succeeds only through the driver, unless its outcome is injected.
Says(a) ==
    /\ a.kind = "AttachResponse" => a.status = "Failed" \/ (a.status = "Ok" /\ Accepted)
    /\ a.kind = "CancelResponse" =>
        a.of \in 1 .. Len(received) /\ received[a.of].type = "CancelRequest"
    /\ a.kind = "Response" =>
        /\ a.of \in 1 .. Len(received)
        /\ received[a.of].type = "Request" /\ received[a.of].id = a.id
        /\ received[a.of].key = ControlKey => a.status = ControlResponse(received[a.of]).status
        /\ received[a.of].key # ControlKey =>
            a.status = "Failed" \/ a.via = "driver" \/ a.id \in OutcomeIds

\* What a transfer was made of.
Asked(f) ==
    /\ f.tag \in 1 .. Len(received)
    /\ received[f.tag].type = "Request" /\ received[f.tag].id = f.id
    /\ received[f.tag].key # ControlKey

Said == {a \in Response : Says(a)}
AskedFor == {f \in Request : Asked(f)}

LEMMA SaidClosed == Closed(Said, AskedFor)
<1> SUFFICES ASSUME NEW f \in Request, Asked(f)
             PROVE  Echo(f) \in Said /\ Answer("Response", f, "Failed") \in Said
  BY DEF Closed, AskedFor
<1> DEFINE x == Echo(f)
           y == Answer("Response", f, "Failed")
<1>1. x \in Response /\ x.kind = "Response" /\ x.of = f.tag /\ x.via = "driver" /\ x.id = f.id
  BY EchoTyped DEF Echo
<1>2. /\ y \in Response /\ y.kind = "Response" /\ y.of = f.tag /\ y.status = "Failed"
      /\ y.id = f.id
  <2>1. f.id \in Nat /\ f.tag \in Nat
    BY DEF Request
  <2> QED
    BY <2>1, AnswerTyped DEF Answer
<1> HIDE DEF x, y
<1>3. Says(x) /\ Says(y)
  BY <1>1, <1>2 DEF Says, Asked
<1> QED
  BY <1>1, <1>2, <1>3 DEF Said, x, y

LEMMA SeqGrows == \A S, T : S \subseteq T => Seq(S) \subseteq Seq(T)
OBVIOUS

\* More frames received, and the attachment kept: what was said is still true.
LEMMA SaidStays ==
    ASSUME Accepted => Accepted',
           received' = received \/ \E f : received' = Append(received, f),
           received \in Seq(ClientFrames)
    PROVE  /\ \A a \in Said : a \in Said'
           /\ \A f \in AskedFor : f \in AskedFor'
<1>1. \A n \in 1 .. Len(received) : n \in 1 .. Len(received') /\ received'[n] = received[n]
  <2>1. CASE received' = received
    BY <2>1
  <2>2. ASSUME NEW f, received' = Append(received, f)
        PROVE  \A n \in 1 .. Len(received) : n \in 1 .. Len(received') /\ received'[n] = received[n]
    BY <2>2
  <2> QED
    BY <2>1, <2>2
<1>2. \A f : Asked(f) => Asked(f)'
  BY <1>1 DEF Asked
<1>3. \A a : Says(a) => Says(a)'
  <2> SUFFICES ASSUME NEW a, Says(a)
               PROVE  Says(a)'
    OBVIOUS
  <2>1. (a.kind = "AttachResponse" => a.status = "Failed" \/ (a.status = "Ok" /\ Accepted))'
    BY DEF Says
  <2>2. ASSUME a.kind = "Response"
        PROVE  received'[a.of] = received[a.of] /\ a.of \in 1 .. Len(received')
    BY <1>1, <2>2 DEF Says
  <2>3. a.kind = "CancelResponse" =>
            a.of \in 1 .. Len(received') /\ received'[a.of].type = "CancelRequest"
    BY <1>1 DEF Says
  <2>4. \A f : ControlResponse(f)' = ControlResponse(f)
    BY DEF ControlResponse
  <2> QED
    BY <2>1, <2>2, <2>3, <2>4 DEF Says
<1> QED
  BY <1>2, <1>3 DEF Said, AskedFor

\* What a step of either side does to the frames received: those that the
\* daemon has read are the only ones.
LEMMA SessionKeepsReceived ==
    /\ SessionStep \/ Worker \/ Client \/ UNCHANGED vars => UNCHANGED received
    /\ \A f : HandleFrame(f) => received' = Append(received, f)
<1>1. SessionStep => UNCHANGED received
  BY DEF SessionStep, ReadEof, FlushTransfer, FlushDone, TakeFromChannel, SendFrame, SendError,
         Cleanup, Join
<1>2. Worker => UNCHANGED received
  BY DEF Worker, WorkerCheck, WorkerPoll, WorkerSend
<1>3. Client \/ UNCHANGED vars => UNCHANGED received
  BY DEF Client, ClientRead, ClientClose, vars
<1>4. \A f : HandleFrame(f) => received' = Append(received, f)
  BY DEF HandleFrame, HandleAttach, HandleDetach, HandleCancel, HandleReset, RefuseRequest,
         HandleControl, InjectOutcome, QueueRequest, IgnoreFrame, ReadError, Receive
<1> QED
  BY <1>1, <1>2, <1>3, <1>4

\* The answers on their way say what they should, and stay so.
Speaks == Carries(Said, AskedFor)

LEMMA StepKeepsSaid ==
    ASSUME TypeInv, SessionInv, Speaks, SessionStep \/ Worker \/ Client \/ UNCHANGED vars
    PROVE  Speaks'
<1> PICK A : A = Said
  OBVIOUS
<1> PICK Q : Q = AskedFor
  OBVIOUS
<1>1. Closed(A, Q) /\ Carries(A, Q)
  BY SaidClosed DEF Speaks
<1>2. Carries(A, Q)'
  <2>1. CASE SessionStep \/ Worker \/ Client
    BY <1>1, <2>1, StepCarries
  <2>2. CASE UNCHANGED vars
    BY <1>1, <2>2 DEF Carries, vars, sessionVars, workerVars, clientVars
  <2> QED
    BY <2>1, <2>2
<1>3. A \subseteq Said' /\ Q \subseteq AskedFor'
  <2>1. received' = received /\ received \in Seq(ClientFrames)
    BY SessionKeepsReceived DEF TypeInv, TypeOK
  <2>2. Accepted => Accepted'
    BY StepWorks
  <2> QED
    BY <2>1, <2>2, SaidStays
<1>4. Seq(A) \subseteq Seq(Said') /\ Seq(Q) \subseteq Seq(AskedFor')
  BY <1>3, SeqGrows
<1> QED
  BY <1>2, <1>3, <1>4 DEF Speaks, Carries

\* A frame is answered with what it should be, if requests of the endpoint 0 come
\* when the session is attached.
LEMMA FrameKeepsSaid ==
    ASSUME TypeInv, SessionInv, Speaks, NEW f \in ClientFrames, HandleFrame(f),
           f.type = "Request" /\ f.key = ControlKey => state = "Attached"
    PROVE  Speaks'
<1> PICK t, n : t = Tagged(f) /\ n = Len(received) + 1
  OBVIOUS
<1>1. /\ received' = Append(received, f) /\ UNCHANGED <<rx, tx, workerVars, chan, net, clientVars>>
      /\ received \in Seq(ClientFrames) /\ outbox = <<>>
  BY FrameEffect DEF Listening, TypeInv, TypeOK
<1>2. t \in Request /\ t.id = f.id /\ t.tag = n
  BY TaggedTyped DEF TypeInv
<1>3. n \in 1 .. Len(received') /\ received'[n] = f /\ n \in Nat
  BY <1>1
<1>4. Accepted => Accepted'
  BY FrameWorks
<1>5. Said \subseteq Said' /\ AskedFor \subseteq AskedFor'
  BY <1>1, <1>4, SaidStays
<1>6. \A x \in Response : ReplyFrame(f, x) => x \in Said'
  <2> SUFFICES ASSUME NEW x \in Response, ReplyFrame(f, x)
               PROVE  Says(x)'
    BY DEF Said
  <2>1. CASE x = HidEvent
    <3>1. x.kind = "Event"
      BY <2>1 DEF HidEvent
    <3> QED
      BY <3>1 DEF Says
  <2>2. ASSUME NEW kind, NEW status, x = Answer(kind, t, status),
               kind = "AttachResponse" => status = "Failed" \/ (status = "Ok" /\ state' = "Attached"),
               kind = "CancelResponse" => f.type = "CancelRequest",
               kind = "Response" =>
                /\ f.type = "Request"
                /\ \/ state # "Attached" /\ status = "Failed"
                   \/ state = "Attached" /\ f.key = ControlKey /\ status = ControlResponse(f).status
                   \/ f.key # ControlKey /\ f.id \in OutcomeIds /\ status = "Injected"
        PROVE  Says(x)'
    <3>1. x.kind = kind /\ x.status = status /\ x.of = n /\ x.id = f.id
      BY <1>2, <2>2 DEF Answer
    <3>2. x.kind = "AttachResponse" => x.status = "Failed" \/ (x.status = "Ok" /\ Accepted')
      BY <2>2, <3>1 DEF Accepted
    <3>3. x.kind = "CancelResponse" => received'[x.of].type = "CancelRequest"
      BY <1>3, <2>2, <3>1
    <3>4. ASSUME x.kind = "Response"
          PROVE  /\ received'[x.of].type = "Request" /\ received'[x.of].id = x.id
                 /\ received'[x.of].key = ControlKey =>
                        x.status = ControlResponse(received'[x.of]).status
                 /\ received'[x.of].key # ControlKey =>
                        x.status = "Failed" \/ x.via = "driver" \/ x.id \in OutcomeIds
      <4>1. received'[x.of] = f
        BY <1>3, <3>1
      <4>2. f.type = "Request" /\ (f.key = ControlKey => x.status = ControlResponse(f).status)
        BY <2>2, <3>1, <3>4
      <4>3. f.key # ControlKey => x.status = "Failed" \/ x.id \in OutcomeIds
        BY <2>2, <3>1, <3>4
      <4> QED
        BY <3>1, <4>1, <4>2, <4>3
    <3> QED
      BY <1>3, <3>1, <3>2, <3>3, <3>4 DEF Says, ControlResponse
  <2> QED
    BY <2>1, <2>2 DEF ReplyFrame
<1>7. \A i \in 1 .. Len(outbox') : outbox'[i].frame \in Said'
  <2>1. \A i \in 1 .. Len(outbox') : ReplyFrame(f, outbox'[i].frame)
    BY FrameReplies
  <2>2. \A i \in 1 .. Len(outbox') : outbox'[i].frame \in Response
    <3>1. outbox' \in Seq(OutFrames)
      <4>1. CASE QueuesFrame(f)
        <5>1. outbox' = <<>> /\ <<>> \in Seq(OutFrames)
          BY <4>1 DEF QueuesFrame
        <5> QED
          BY <5>1
      <4>2. CASE Answers(f)
        BY <4>2 DEF Answers, Replies
      <4> QED
        BY <4>1, <4>2, FrameEffect
    <3>2. \A i \in 1 .. Len(outbox') : outbox'[i] \in OutFrames
      BY <3>1, ElementOfSeq
    <3> QED
      BY <3>2 DEF OutFrames
  <2> QED
    BY <1>6, <2>1, <2>2
<1>8. \A g : HoldsFrame(epq', g) => g \in AskedFor'
  <2>1. CASE QueueRequest(f)
    <3>1. epq' = Enqueue(epq, t) /\ f.type = "Request" /\ f.key # ControlKey
      BY <2>1 DEF QueueRequest
    <3>2. HoldsFrame(epq', t)
      BY <3>1, FrameEffect, EnqueueOnDrained DEF Listening
    <3>3. \A g : HoldsFrame(epq', g) => g = t
      BY <3>2, PopOnOne
    <3>4. Asked(t)'
      BY <1>2, <1>3, <3>1 DEF Asked
    <3> QED
      BY <1>2, <3>3, <3>4 DEF AskedFor
  <2>2. CASE ~QueueRequest(f)
    <3>1. sPc' # "flush"
      BY <2>2 DEF HandleFrame, HandleAttach, HandleDetach, HandleCancel, HandleReset, RefuseRequest,
                  HandleControl, InjectOutcome, IgnoreFrame, ReadError, Receive, Reply, sessionVars
    <3>2. SessionInv'
      BY FrameStep
    <3>3. Drained(epq')
      BY <3>1, <3>2 DEF SessionInv, QueuesInv
    <3> QED
      BY <3>3, DrainedHoldsNone
  <2> QED
    BY <2>1, <2>2
<1>9. /\ Seq(Said) \subseteq Seq(Said') /\ Seq(AskedFor) \subseteq Seq(AskedFor')
  BY <1>5, SeqGrows
<1>10. /\ delivered' \in Seq(Said) /\ net' \in Seq(Said) /\ chan' \in Seq(Said) /\ wFrame' \in Seq(Said)
       /\ rx' \in Seq(AskedFor) /\ tx' \in Seq(AskedFor)
  BY <1>1 DEF Speaks, Carries, workerVars, clientVars
<1> QED
  BY <1>7, <1>8, <1>9, <1>10 DEF Speaks, Carries

LEMMA InitSpeaks == Init => Speaks
<1> SUFFICES ASSUME Init PROVE Speaks
  OBVIOUS
<1>1. /\ delivered = <<>> /\ net = <<>> /\ chan = <<>> /\ wFrame = <<>> /\ outbox = <<>>
      /\ rx = <<>> /\ tx = <<>> /\ epq = EmptyQueues
  BY DEF Init
<1>2. Drained(epq)
  BY <1>1 DEF Drained, EmptyQueues, Queues
<1>3. \A S : <<>> \in Seq(S)
  OBVIOUS
<1>4. Len(<<>>) = 0
  OBVIOUS
<1> QED
  BY <1>1, <1>2, <1>3, <1>4, DrainedHoldsNone DEF Speaks, Carries

\* The worker hands over answers to requests, and nothing else.
Relayed == {a \in Response : a.kind = "Response"}

Relays == wFrame \in Seq(Relayed) /\ chan \in Seq(Relayed)

LEMMA KeepsRelays ==
    ASSUME TypeInv, Relays,
           SessionStep \/ Worker \/ Client \/ UNCHANGED vars \/ \E f : HandleFrame(f)
    PROVE  Relays'
<1>1. CASE TakeFromChannel
  <2>1. chan # <<>> /\ chan' = Tail(chan) /\ wFrame' = wFrame
    BY <1>1 DEF TakeFromChannel, workerVars
  <2> HIDE DEF Relayed
  <2> QED
    BY <2>1, HeadTailProperties DEF Relays
<1>2. CASE WorkerPoll
  <2>1. CASE TxFrameReady
    <3>1. tx # <<>> /\ wFrame' = <<Echo(Head(tx))>> /\ chan' = chan
      BY <1>2, <2>1 DEF WorkerPoll, TxFrameReady
    <3>2. tx \in Seq(Request)
      BY DEF TypeInv, TypeOK
    <3>3. Head(tx) \in Request
      BY <3>1, <3>2, HeadTailProperties
    <3>4. Echo(Head(tx)) \in Relayed
      BY <3>3, EchoTyped DEF Relayed, Echo
    <3> HIDE DEF Relayed
    <3> QED
      BY <3>1, <3>4, OneElement DEF Relays
  <2>2. CASE ~TxFrameReady
    BY <1>2, <2>2 DEF WorkerPoll, Relays
  <2> QED
    BY <2>1, <2>2
<1>3. CASE WorkerSend
  <2>1. chan' = chan \o wFrame /\ wFrame' = <<>>
    BY <1>3 DEF WorkerSend
  <2> HIDE DEF Relayed
  <2>2. chan' \in Seq(Relayed)
    BY <2>1, ConcatProperties DEF Relays
  <2>3. <<>> \in Seq(Relayed)
    OBVIOUS
  <2> QED
    BY <2>1, <2>2, <2>3 DEF Relays
<1>4. CASE UNCHANGED <<wFrame, chan>>
  BY <1>4 DEF Relays
<1>5. ReadEof \/ FlushTransfer \/ FlushDone \/ SendFrame \/ SendError \/ Cleanup \/ Join
        \/ WorkerCheck \/ Client \/ UNCHANGED vars => UNCHANGED <<wFrame, chan>>
  BY DEF ReadEof, FlushTransfer, FlushDone, SendFrame, SendError, Cleanup, Join, WorkerCheck,
         Client, ClientRead, ClientClose, vars, workerVars
<1>6. \A f : HandleFrame(f) => UNCHANGED <<wFrame, chan>>
  BY DEF HandleFrame, HandleAttach, HandleDetach, HandleCancel, HandleReset, RefuseRequest,
         HandleControl, InjectOutcome, QueueRequest, IgnoreFrame, ReadError, Receive, workerVars
<1> QED
  BY <1>1, <1>2, <1>3, <1>4, <1>5, <1>6 DEF SessionStep, Worker
=============================================================================
