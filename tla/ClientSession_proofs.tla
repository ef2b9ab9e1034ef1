------------------------ MODULE ClientSession_proofs ------------------------
(***************************************************************************)
(* The client and the daemon it is connected to.  The two together are a   *)
(* session of the daemon like any other.  The client uses no request id    *)
(* twice, its enumeration is accepted, what it injects is in order, it     *)
(* detaches when all is answered, whatever its limit and however many URBs *)
(* its device makes, and the port it plans is one that is not in use.      *)
(***************************************************************************)
EXTENDS ClientSession, DaemonSession_proofs

-----------------------------------------------------------------------------
(* The frames of the client                                                *)

\* There are five requests in the enumeration, and the URBs come after them.
LEMMA Counts ==
    /\ Len(Enumeration) = 5 /\ AttachId = 1 /\ FirstDataId = 7
    /\ \A k \in Nat : ControlId(k) = k + 1
<1>1. Len(Enumeration) = 5
  BY DEF Enumeration
<1> QED
  BY <1>1 DEF AttachId, FirstDataId, ControlId

LEMMA OwnFacts ==
    /\ Lifecycle("AttachRequest", AttachId) \in OwnFrames
    /\ \A k \in 1 .. Len(Enumeration) : ControlRequest(ControlId(k), Enumeration[k]) \in OwnFrames
    /\ \A id \in UrbIds, size \in UrbSizes : DataRequest(id, size) \in OwnFrames
    /\ limit \in Limits /\ limit # <<>> => Lifecycle("DetachRequest", DetachId) \in OwnFrames
<1> DEFINE attach == {Lifecycle("AttachRequest", AttachId)}
           control == {ControlRequest(ControlId(k), Enumeration[k]) : k \in 1 .. Len(Enumeration)}
           data == {DataRequest(id, size) : id \in UrbIds, size \in UrbSizes}
           detach == {Lifecycle("DetachRequest", FirstDataId + l[1]) : l \in Limits \ {<<>>}}
<1>1. OwnFrames = attach \union control \union data \union detach
  BY DEF OwnFrames
<1>2. Lifecycle("AttachRequest", AttachId) \in attach
  OBVIOUS
<1>3. \A k \in 1 .. Len(Enumeration) : ControlRequest(ControlId(k), Enumeration[k]) \in control
  OBVIOUS
<1>4. \A id \in UrbIds, size \in UrbSizes : DataRequest(id, size) \in data
  OBVIOUS
<1>5. limit \in Limits /\ limit # <<>> => Lifecycle("DetachRequest", DetachId) \in detach
  BY DEF DetachId
<1> HIDE DEF attach, control, data, detach
<1> QED
  BY <1>1, <1>2, <1>3, <1>4, <1>5

Labels == {"connect", "send", "handshake", "control", "select", "inject", "leave", "closed"}

\* What the client has sent or is about to send are frames of its own.
OwnInv ==
    /\ cPc \in Labels /\ cThen \in {"handshake", "control", "select"}
    /\ cPc = "send" => cOut \in Seq(OwnFrames) /\ Len(cOut) = 1
    /\ up \in Seq(OwnFrames) /\ received \in Seq(OwnFrames)
    /\ urbs \in 0 .. MaxUrbs /\ txq \in Seq(UrbIds)
    /\ limit \in Limits /\ urbSize \in UrbSizes
    /\ step \in 0 .. Len(Enumeration)
    /\ cPc \in {"connect", "handshake"} \/ (cPc = "send" /\ cThen = "handshake") => step = 0

\* framed.send of one frame.
LEMMA SendsOwn ==
    ASSUME NEW f \in OwnFrames, NEW then, Sending(f, then)
    PROVE  cPc' = "send" /\ cOut' \in Seq(OwnFrames) /\ Len(cOut') = 1 /\ cThen' = then
BY OneElement DEF Sending

\* A data response may be the last, and then the detach follows.
LEMMA CountKeepsOwn ==
    ASSUME OwnInv, CountDataResponse,
           UNCHANGED <<up, received, urbs, txq, limit, urbSize, step>>
    PROVE  OwnInv'
<1>1. CASE Sending(Lifecycle("DetachRequest", DetachId), "select") /\ limit = <<dataResponses + 1>>
  <2>1. Lifecycle("DetachRequest", DetachId) \in OwnFrames
    BY <1>1, OwnFacts DEF OwnInv
  <2>2. cPc' = "send" /\ cOut' \in Seq(OwnFrames) /\ Len(cOut') = 1 /\ cThen' = "select"
    BY <1>1, <2>1, SendsOwn
  <2> QED
    BY <2>2 DEF OwnInv, Labels
<1>2. CASE Stay("select")
  BY <1>2 DEF Stay, OwnInv, Labels
<1> QED
  BY <1>1, <1>2 DEF CountDataResponse

\* A control request of the enumeration.
LEMMA RequestKeepsOwn ==
    ASSUME OwnInv, NEW k \in 1 .. Len(Enumeration), RequestStep(k),
           UNCHANGED <<up, received, urbs, txq, limit, urbSize>>
    PROVE  OwnInv'
<1>1. ControlRequest(ControlId(k), Enumeration[k]) \in OwnFrames
  BY OwnFacts
<1>2. cPc' = "send" /\ cOut' \in Seq(OwnFrames) /\ Len(cOut') = 1 /\ cThen' = "control" /\ step' = k
  BY <1>1, SendsOwn DEF RequestStep
<1> QED
  BY <1>2, Counts DEF OwnInv, Labels

LEMMA NoFrames == \A S : <<>> \in Seq(S)
OBVIOUS

\* The client connects, sends, and reads what comes back before the loop.
LEMMA StartKeepsOwn ==
    ASSUME OwnInv,
           Connect \/ ClientSend \/ ClientSendError \/ ClientEof \/ AwaitAttach \/ AwaitControl
    PROVE  OwnInv'
<1>1. UNCHANGED <<received, urbs, txq, limit, urbSize>>
  BY SessionKeepsReceived
     DEF Connect, ClientSend, ClientSendError, ClientEof, AwaitAttach, AwaitControl, Receives,
         Client, configVars, deviceVars
<1>2. CASE Connect
  <2>1. cPc' = "send" /\ cOut' \in Seq(OwnFrames) /\ Len(cOut') = 1 /\ cThen' = "handshake"
    BY <1>2, OwnFacts, SendsOwn DEF Connect
  <2>2. step' = step /\ up' = up /\ cPc = "connect"
    BY <1>2 DEF Connect
  <2> QED
    BY <1>1, <2>1, <2>2 DEF OwnInv, Labels
<1>3. CASE ClientSend
  <2>1. /\ cPc = "send" /\ cPc' = cThen /\ cThen' = cThen /\ step' = step
        /\ up' = up \/ up' = up \o cOut
    BY <1>3 DEF ClientSend
  <2>2. up' \in Seq(OwnFrames)
    BY <2>1, ConcatProperties DEF OwnInv
  <2> QED
    BY <1>1, <2>1, <2>2 DEF OwnInv, Labels
<1>4. CASE ClientSendError \/ ClientEof
  <2>1. cPc' = "leave" /\ cThen' = cThen /\ step' = step /\ up' = up
    BY <1>4 DEF ClientSendError, ClientEof, Stay
  <2> QED
    BY <1>1, <2>1 DEF OwnInv, Labels
<1>5. CASE AwaitAttach
  <2>1. up' = up /\ cPc = "handshake"
    BY <1>5 DEF AwaitAttach, Receives
  <2>2. CASE (Stay("handshake") \/ Stay("leave")) /\ UNCHANGED step
    BY <1>1, <2>1, <2>2 DEF Stay, OwnInv, Labels
  <2>3. CASE RequestStep(1)
    <3>1. 1 \in 1 .. Len(Enumeration)
      BY Counts
    <3> QED
      BY <1>1, <2>1, <2>3, <3>1, RequestKeepsOwn
  <2> QED
    BY <1>5, <2>2, <2>3 DEF AwaitAttach
<1>6. CASE AwaitControl
  <2>1. up' = up /\ cPc = "control"
    BY <1>6 DEF AwaitControl, Receives
  <2>2. CASE (Stay("control") \/ Stay("leave") \/ Stay("select")) /\ UNCHANGED step
    BY <1>1, <2>1, <2>2 DEF Stay, OwnInv, Labels
  <2>3. CASE step < Len(Enumeration) /\ RequestStep(step + 1)
    <3>1. step + 1 \in 1 .. Len(Enumeration)
      BY <2>3, Counts DEF OwnInv
    <3> QED
      BY <1>1, <2>1, <2>3, <3>1, RequestKeepsOwn
  <2> QED
    BY <1>6, <2>2, <2>3 DEF AwaitControl
<1> QED
  BY <1>2, <1>3, <1>4, <1>5, <1>6

\* The loop, the local device and the end.
LEMMA LoopKeepsOwn ==
    ASSUME OwnInv,
           \/ FailedTransfer \/ GoodTransfer \/ Inject \/ DetachAnswered \/ OtherFrame
           \/ TakeUrb \/ VhciProcessed \/ Leave \/ DeviceUrb \/ LinkBreaks
    PROVE  OwnInv'
<1>1. UNCHANGED <<received, limit, urbSize>>
  <2>1. CASE FailedTransfer \/ GoodTransfer \/ DetachAnswered \/ OtherFrame
    BY <2>1, SessionKeepsReceived
       DEF FailedTransfer, GoodTransfer, DetachAnswered, OtherFrame, Receives, Client, configVars
  <2>2. CASE Inject \/ TakeUrb \/ VhciProcessed \/ DeviceUrb
    BY <2>2, SessionKeepsReceived DEF Inject, TakeUrb, VhciProcessed, DeviceUrb, configVars
  <2>3. CASE Leave \/ LinkBreaks
    BY <2>3, SessionKeepsReceived DEF Leave, LinkBreaks, Client, configVars
  <2> QED
    BY <2>1, <2>2, <2>3
<1>2. CASE FailedTransfer \/ Inject
  <2>1. CountDataResponse /\ UNCHANGED <<up, urbs, txq, step>>
    BY <1>2 DEF FailedTransfer, Inject, Receives, deviceVars
  <2> QED
    BY <1>1, <2>1, CountKeepsOwn
<1>3. CASE GoodTransfer
  <2>1. UNCHANGED <<up, urbs, txq, step, cThen>> /\ cPc' \in {"inject", "select"} /\ cPc = "select"
    BY <1>3 DEF GoodTransfer, Receives, deviceVars, Stay
  <2> QED
    BY <1>1, <2>1 DEF OwnInv, Labels
<1>4. CASE DetachAnswered
  <2>1. UNCHANGED <<up, urbs, txq, step, cThen>> /\ cPc' \in {"leave", "select"} /\ cPc = "select"
    BY <1>4 DEF DetachAnswered, Receives, deviceVars, Stay
  <2> QED
    BY <1>1, <2>1 DEF OwnInv, Labels
<1>5. CASE OtherFrame
  <2>1. UNCHANGED <<up, urbs, txq, step>> /\ (CountDataResponse \/ Stay("select"))
    BY <1>5 DEF OtherFrame, Receives, deviceVars
  <2> QED
    BY <1>1, <2>1, CountKeepsOwn DEF Stay, OwnInv, Labels
<1>6. CASE TakeUrb
  <2>1. /\ txq # <<>> /\ txq' = Tail(txq) /\ Sending(DataRequest(Head(txq), urbSize), "select")
        /\ UNCHANGED <<up, urbs, step>>
    BY <1>6 DEF TakeUrb
  <2>2. Head(txq) \in UrbIds /\ Tail(txq) \in Seq(UrbIds)
    BY <2>1, HeadTailProperties DEF OwnInv
  <2>3. cPc' = "send" /\ cOut' \in Seq(OwnFrames) /\ Len(cOut') = 1 /\ cThen' = "select"
    <3>1. DataRequest(Head(txq), urbSize) \in OwnFrames
      BY <2>2, OwnFacts DEF OwnInv
    <3> QED
      BY <2>1, <3>1, SendsOwn
  <2> QED
    BY <1>1, <2>1, <2>2, <2>3 DEF OwnInv, Labels
<1>7. CASE VhciProcessed
  BY <1>1, <1>7 DEF VhciProcessed, OwnInv, clientPlace, deviceVars
<1>8. CASE Leave
  <2>1. /\ cPc' = "closed" /\ up' \in {up, <<>>} /\ UNCHANGED <<urbs, txq, step, cThen>>
    BY <1>8 DEF Leave, Stay, deviceVars
  <2>2. up' \in Seq(OwnFrames)
    BY <2>1, NoFrames DEF OwnInv
  <2> QED
    BY <1>1, <2>1, <2>2 DEF OwnInv, Labels
<1>9. CASE DeviceUrb
  <2>1. /\ urbs < MaxUrbs /\ txq' = Append(txq, FirstDataId + urbs) /\ urbs' = urbs + 1
        /\ UNCHANGED <<up, clientPlace>>
    BY <1>9 DEF DeviceUrb
  <2>2. urbs \in Nat /\ urbs \in 0 .. MaxUrbs - 1 /\ MaxUrbs \in Nat
    BY <2>1, ClientAssumption DEF OwnInv
  <2>3. FirstDataId + urbs \in UrbIds
    BY <2>2 DEF UrbIds
  <2>4. txq' \in Seq(UrbIds)
    BY <2>1, <2>3, AppendProperties DEF OwnInv
  <2> QED
    BY <1>1, <2>1, <2>2, <2>4 DEF OwnInv, clientPlace
<1>10. CASE LinkBreaks
  <2>1. up' \in {up, <<>>} /\ UNCHANGED <<clientPlace, urbs, txq>>
    BY <1>10 DEF LinkBreaks, deviceVars
  <2>2. up' \in Seq(OwnFrames)
    BY <2>1, NoFrames DEF OwnInv
  <2> QED
    BY <1>1, <2>1, <2>2 DEF OwnInv, clientPlace
<1> QED
  BY <1>2, <1>3, <1>4, <1>5, <1>6, <1>7, <1>8, <1>9, <1>10

\* The daemon's tasks.
LEMMA DaemonKeepsOwn ==
    ASSUME OwnInv, DaemonReads \/ DaemonStep \/ DaemonWorker
    PROVE  OwnInv'
<1>1. CASE DaemonReads
  <2>1. /\ up # <<>> /\ up' = Tail(up) /\ received' = Append(received, Head(up))
        /\ UNCHANGED <<clientPlace, urbs, txq, limit, urbSize>>
    BY <1>1, SessionKeepsReceived DEF DaemonReads, deviceVars, configVars
  <2>2. Head(up) \in OwnFrames /\ up' \in Seq(OwnFrames)
    BY <2>1, HeadTailProperties DEF OwnInv
  <2>3. received' \in Seq(OwnFrames)
    BY <2>1, <2>2, AppendProperties DEF OwnInv
  <2> QED
    BY <2>1, <2>2, <2>3 DEF OwnInv, clientPlace
<1>2. CASE DaemonStep \/ DaemonWorker
  <2>1. UNCHANGED received /\ UNCHANGED clientOwn
    BY <1>2, SessionKeepsReceived DEF DaemonStep, DaemonWorker
  <2> QED
    BY <2>1 DEF OwnInv, clientOwn, clientPlace, deviceVars, configVars
<1> QED
  BY <1>1, <1>2

LEMMA NextOwn == OwnInv /\ [SystemNext]_systemVars => OwnInv'
<1> SUFFICES ASSUME OwnInv, [SystemNext]_systemVars
             PROVE  OwnInv'
  OBVIOUS
<1>1. CASE ClientTask \/ DeviceUrb \/ LinkBreaks
  BY <1>1, StartKeepsOwn, LoopKeepsOwn DEF ClientTask
<1>2. CASE DaemonReads \/ DaemonStep \/ DaemonWorker
  BY <1>2, DaemonKeepsOwn
<1>3. CASE UNCHANGED systemVars
  <2>1. UNCHANGED received
    BY <1>3, SessionKeepsReceived DEF systemVars
  <2> QED
    BY <1>3, <2>1 DEF systemVars, OwnInv, clientOwn, clientPlace, deviceVars, configVars
<1> QED
  BY <1>1, <1>2, <1>3 DEF SystemNext

LEMMA InitOwn == SystemInit => OwnInv
<1> SUFFICES ASSUME SystemInit
             PROVE  OwnInv
  OBVIOUS
<1>1. /\ cPc = "connect" /\ cThen = "handshake" /\ step = 0 /\ limit \in Limits /\ urbSize \in UrbSizes
      /\ txq = <<>> /\ urbs = 0 /\ up = <<>> /\ received = <<>>
  BY DEF SystemInit, ClientInit, Init
<1>2. <<>> \in Seq(OwnFrames) /\ <<>> \in Seq(UrbIds)
  OBVIOUS
<1>3. MaxUrbs \in Nat /\ 0 \in 0 .. Len(Enumeration)
  BY ClientAssumption, Counts
<1> QED
  BY <1>1, <1>2, <1>3 DEF OwnInv, Labels

-----------------------------------------------------------------------------
(* The daemon's session is used as it is meant to be                       *)

\* Every step of the two together is one of the daemon's session with a client
\* that is free to send what it may.
LEMMA StepIsSession ==
    ASSUME OwnInv, [SystemNext]_systemVars
    PROVE  [Next]_vars
<1>1. CASE ClientTask \/ DeviceUrb \/ LinkBreaks
  <2>1. ClientRead \/ ClientClose \/ UNCHANGED vars
    BY <1>1 DEF ClientTask, Connect, ClientSend, ClientSendError, ClientEof, AwaitAttach,
                AwaitControl, FailedTransfer, GoodTransfer, Inject, DetachAnswered, OtherFrame,
                TakeUrb, VhciProcessed, Leave, DeviceUrb, LinkBreaks, Receives
  <2> QED
    BY <2>1 DEF Next, Client
<1>2. CASE DaemonReads
  <2>1. up # <<>> /\ HandleFrame(Head(up))
    BY <1>2 DEF DaemonReads
  <2>2. Head(up) \in OwnFrames
    BY <2>1, HeadTailProperties DEF OwnInv
  <2>3. Head(up) \in ClientFrames
    BY <2>2, OwnFramesAssumption
  <2> QED
    BY <2>1, <2>3 DEF Next
<1>3. CASE DaemonStep \/ DaemonWorker
  BY <1>3 DEF DaemonStep, DaemonWorker, Next
<1>4. CASE UNCHANGED systemVars
  BY <1>4 DEF systemVars
<1> QED
  BY <1>1, <1>2, <1>3, <1>4 DEF SystemNext

\* The client's own behaviour is one of those the daemon's session allows its
\* client, so that what is proved of the session holds of the two together:
\* of the frames, the rings and the attachment (client session.rs:38-118,
\* daemon session.rs:49-206).
THEOREM ClientIsAClient == SystemSpec => Spec
<1>1. SystemInit => Init /\ OwnInv
  BY InitOwn DEF SystemInit
<1> QED
  BY <1>1, NextOwn, StepIsSession, PTL DEF SystemSpec, Spec

-----------------------------------------------------------------------------
(* Request ids                                                             *)

FramesOf(F) == {F[i] : i \in 1 .. Len(F)}

Ids(F) == {F[i].id : i \in 1 .. Len(F)}

\* A URB of the device.
IsData(f) == f.type = "Request" /\ f.key # ControlKey

\* Frame f was made before frame g, or the id, and is not taken for it.
Precedes(f, g) == f.id # g.id /\ (IsData(f) /\ IsData(g) => f.id < g.id)

PrecedesId(f, id) == f.id # id /\ (IsData(f) => f.id < id)

\* No two of the frames F and the URBs T have the same id, and the URBs stand in
\* the order in which the device made them.
Apart(F, T) ==
    /\ \A i, j \in 1 .. Len(F) : i < j => Precedes(F[i], F[j])
    /\ \A i, j \in 1 .. Len(T) : i < j => T[i] < T[j]
    /\ \A i \in 1 .. Len(F) : \A j \in 1 .. Len(T) : PrecedesId(F[i], T[j])

LEMMA UrbFacts == \A id \in UrbIds : id \in Nat /\ id >= 7
<1>1. MaxUrbs \in Nat /\ FirstDataId = 7
  BY ClientAssumption, Counts
<1> QED
  BY <1>1 DEF UrbIds

LEMMA ApartIsFresh ==
    ASSUME NEW F \in Seq(OwnFrames), NEW T \in Seq(UrbIds), Apart(F, T)
    PROVE  LET ids == [i \in 1 .. Len(F) |-> F[i].id] \o T
           IN  \A i, j \in 1 .. Len(ids) : i < j => ids[i] # ids[j]
<1> DEFINE n == Len(F)
           of == [i \in 1 .. n |-> F[i].id]
           S == {F[i].id : i \in 1 .. n} \union UrbIds
           ids == of \o T
<1>1. n \in Nat /\ Len(T) \in Nat
  BY LenProperties
<1>2. of \in Seq(S) /\ Len(of) = n
  <2>1. of \in [1 .. n -> S]
    OBVIOUS
  <2> HIDE DEF of, S, n
  <2> QED
    BY <1>1, <2>1
<1>3. T \in Seq(S)
  <2>1. T \in [1 .. Len(T) -> UrbIds]
    BY LenProperties
  <2>2. T \in [1 .. Len(T) -> S]
    BY <2>1
  <2> HIDE DEF S
  <2> QED
    BY <1>1, <2>2
<1>4. \A i \in 1 .. n : of[i] = F[i].id
  OBVIOUS
<1> HIDE DEF of, S, n
<1>5. /\ Len(ids) = n + Len(T)
      /\ \A i \in 1 .. n + Len(T) : ids[i] = IF i <= n THEN of[i] ELSE T[i - n]
  BY <1>2, <1>3, ConcatProperties
<1> HIDE DEF ids
<1>6. ASSUME NEW i \in 1 .. Len(ids), NEW j \in 1 .. Len(ids), i < j
      PROVE  ids[i] # ids[j]
  <2>1. CASE j <= n
    <3>1. i \in 1 .. n /\ j \in 1 .. n /\ i \in 1 .. n + Len(T) /\ j \in 1 .. n + Len(T) /\ i <= n
      BY <1>1, <1>5, <1>6, <2>1
    <3>2. ids[i] = of[i] /\ ids[j] = of[j]
      BY <1>5, <2>1, <3>1
    <3>3. F[i].id # F[j].id
      BY <1>6, <3>1 DEF Apart, Precedes, n
    <3>4. of[i] = F[i].id /\ of[j] = F[j].id
      BY <1>4, <3>1, Zenon
    <3> QED
      BY <3>2, <3>3, <3>4, Zenon
  <2>2. CASE i <= n /\ j > n
    <3>1. i \in 1 .. n /\ j - n \in 1 .. Len(T)
      BY <1>1, <1>5, <2>2
    <3>2. ids[i] = F[i].id /\ ids[j] = T[j - n]
      <4>1. i \in 1 .. n + Len(T) /\ j \in 1 .. n + Len(T) /\ i <= n /\ ~(j <= n)
        BY <1>1, <1>5, <2>2
      <4>2. ids[i] = of[i] /\ ids[j] = T[j - n]
        BY <1>5, <4>1, Zenon
      <4>3. of[i] = F[i].id
        BY <1>4, <3>1, Zenon
      <4> QED
        BY <4>2, <4>3, Zenon
    <3> QED
      BY <3>1, <3>2 DEF Apart, PrecedesId, n
  <2>3. CASE i > n
    <3>1. i - n \in 1 .. Len(T) /\ j - n \in 1 .. Len(T) /\ i - n < j - n
      BY <1>1, <1>5, <1>6, <2>3
    <3>2. ids[i] = T[i - n] /\ ids[j] = T[j - n]
      BY <1>1, <1>5, <1>6, <2>3
    <3>3. T[i - n] \in UrbIds /\ T[j - n] \in UrbIds
      BY <3>1, ElementOfSeq
    <3>4. T[i - n] \in Nat /\ T[j - n] \in Nat /\ T[i - n] < T[j - n]
      BY <3>1, <3>3, UrbFacts DEF Apart
    <3> QED
      BY <3>2, <3>4
  <2> QED
    BY <1>1, <1>5, <1>6, <2>1, <2>2, <2>3
<1> QED
  BY <1>6 DEF ids, of, n

\* One more frame.
LEMMA OneMoreApart ==
    ASSUME NEW F \in Seq(OwnFrames), NEW x \in OwnFrames
    PROVE  /\ Ids(Append(F, x)) = Ids(F) \union {x.id}
           /\ FramesOf(Append(F, x)) = FramesOf(F) \union {x}
           /\ \A T \in Seq(UrbIds) : Apart(F, T) /\ x.id \notin Ids(F) =>
                /\ ~IsData(x) /\ (\A j \in 1 .. Len(T) : x.id # T[j]) => Apart(Append(F, x), T)
                /\ T # <<>> /\ x.id = Head(T) => Apart(Append(F, x), Tail(T))
<1> DEFINE G == Append(F, x)
           n == Len(F)
<1>1. /\ n \in Nat /\ Len(G) = n + 1 /\ G[n + 1] = x /\ \A i \in 1 .. n : G[i] = F[i]
  BY AppendProperties, LenProperties
<1> HIDE DEF G
<1>2. Ids(G) = Ids(F) \union {x.id} /\ FramesOf(G) = FramesOf(F) \union {x}
  <2>1. 1 .. n + 1 = (1 .. n) \union {n + 1}
    BY <1>1
  <2>2. Ids(G) = Ids(F) \union {x.id}
    BY <1>1, <2>1 DEF Ids
  <2>3. FramesOf(G) = FramesOf(F) \union {x}
    BY <1>1, <2>1 DEF FramesOf
  <2> QED
    BY <2>2, <2>3
<1>3. \A i \in 1 .. Len(G) : i = n + 1 \/ i \in 1 .. n
  BY <1>1
<1>4. ASSUME NEW T \in Seq(UrbIds), Apart(F, T), x.id \notin Ids(F),
             \A i \in 1 .. n : IsData(F[i]) /\ IsData(x) => F[i].id < x.id
      PROVE  \A i, j \in 1 .. Len(G) : i < j => Precedes(G[i], G[j])
  <2> SUFFICES ASSUME NEW i \in 1 .. Len(G), NEW j \in 1 .. Len(G), i < j
               PROVE  Precedes(G[i], G[j])
    OBVIOUS
  <2>1. i \in 1 .. n /\ G[i] = F[i]
    BY <1>1, <1>3
  <2>2. CASE j = n + 1
    <3>1. F[i].id \in Ids(F)
      BY <2>1 DEF Ids
    <3> QED
      BY <1>1, <1>4, <2>1, <2>2, <3>1 DEF Precedes
  <2>3. CASE j \in 1 .. n
    BY <1>1, <1>4, <2>1, <2>3 DEF Apart
  <2> QED
    BY <1>3, <2>2, <2>3
<1>5. ASSUME NEW T \in Seq(UrbIds), Apart(F, T), x.id \notin Ids(F), ~IsData(x),
             \A j \in 1 .. Len(T) : x.id # T[j]
      PROVE  Apart(G, T)
  <2>1. \A j \in 1 .. Len(T) : PrecedesId(x, T[j])
    BY <1>5 DEF PrecedesId
  <2>2. \A i \in 1 .. Len(G) : \A j \in 1 .. Len(T) : PrecedesId(G[i], T[j])
    BY <1>1, <1>3, <1>5, <2>1 DEF Apart
  <2>3. \A i, j \in 1 .. Len(G) : i < j => Precedes(G[i], G[j])
    BY <1>4, <1>5
  <2> QED
    BY <1>5, <2>2, <2>3 DEF Apart
<1>6. ASSUME NEW T \in Seq(UrbIds), Apart(F, T), x.id \notin Ids(F), T # <<>>, x.id = Head(T)
      PROVE  Apart(G, Tail(T))
  <2> DEFINE R == Tail(T)
  <2>1. /\ Len(T) \in Nat /\ Head(T) = T[1] /\ Len(R) = Len(T) - 1 /\ Len(T) > 0
        /\ \A j \in 1 .. Len(R) : R[j] = T[j + 1]
    BY <1>6, HeadTailProperties
  <2> HIDE DEF R
  <2>2. \A j \in 1 .. Len(R) : j + 1 \in 1 .. Len(T) /\ 1 \in 1 .. Len(T) /\ 1 < j + 1
    BY <2>1
  <2>3. \A i, j \in 1 .. Len(R) : i < j => R[i] < R[j]
    BY <1>6, <2>1, <2>2 DEF Apart
  <2>4. \A j \in 1 .. Len(R) : PrecedesId(x, R[j])
    <3> SUFFICES ASSUME NEW j \in 1 .. Len(R)
                 PROVE  PrecedesId(x, R[j])
      OBVIOUS
    <3>1. x.id = T[1] /\ R[j] = T[j + 1] /\ T[1] < T[j + 1]
      BY <1>6, <2>1, <2>2 DEF Apart
    <3>2. T[1] \in Nat /\ T[j + 1] \in Nat
      BY <2>2, ElementOfSeq, UrbFacts
    <3> QED
      BY <3>1, <3>2 DEF PrecedesId
  <2>5. \A i \in 1 .. n : \A j \in 1 .. Len(R) : PrecedesId(F[i], R[j])
    BY <1>6, <2>1, <2>2 DEF Apart
  <2>6. \A i \in 1 .. Len(G) : \A j \in 1 .. Len(R) : PrecedesId(G[i], R[j])
    BY <1>1, <1>3, <2>4, <2>5
  <2>7. \A i \in 1 .. n : IsData(F[i]) /\ IsData(x) => F[i].id < x.id
    <3>1. 1 \in 1 .. Len(T)
      BY <2>1
    <3> QED
      BY <1>6, <2>1, <3>1 DEF Apart, PrecedesId
  <2>8. \A i, j \in 1 .. Len(G) : i < j => Precedes(G[i], G[j])
    BY <1>4, <1>6, <2>7
  <2>9. Apart(G, R)
    BY <2>3, <2>6, <2>8 DEF Apart
  <2> QED
    BY <2>9 DEF R
<1> QED
  BY <1>2, <1>5, <1>6 DEF G

\* Some frames less.
LEMMA SomeLessApart ==
    ASSUME NEW A \in Seq(OwnFrames), NEW B \in Seq(OwnFrames), NEW C \in Seq(OwnFrames)
    PROVE  /\ Ids(A \o C) \subseteq Ids(A \o B \o C)
           /\ FramesOf(A \o C) \subseteq FramesOf(A \o B \o C)
           /\ \A T : Apart(A \o B \o C, T) => Apart(A \o C, T)
<1> DEFINE F == A \o B \o C
           G == A \o C
           a == Len(A)
           b == Len(B)
           c == Len(C)
           m == [i \in 1 .. a + c |-> IF i <= a THEN i ELSE i + b]
<1>1. a \in Nat /\ b \in Nat /\ c \in Nat
  BY LenProperties
<1>2. /\ Len(G) = a + c
      /\ \A i \in 1 .. a + c : G[i] = IF i <= a THEN A[i] ELSE C[i - a]
  BY ConcatProperties
<1>3. /\ Len(F) = a + b + c
      /\ \A i \in 1 .. a + b + c : F[i] = IF i <= a + b THEN (A \o B)[i] ELSE C[i - (a + b)]
      /\ \A i \in 1 .. a + b : (A \o B)[i] = IF i <= a THEN A[i] ELSE B[i - a]
  <2>1. A \o B \in Seq(OwnFrames) /\ Len(A \o B) = a + b
    BY ConcatProperties
  <2> QED
    BY <2>1, ConcatProperties
<1> HIDE DEF F, G, a, b, c
<1>4. \A i \in 1 .. Len(G) : m[i] \in 1 .. Len(F) /\ G[i] = F[m[i]]
  <2> SUFFICES ASSUME NEW i \in 1 .. a + c
               PROVE  m[i] \in 1 .. a + b + c /\ G[i] = F[m[i]]
    BY <1>2, <1>3
  <2>1. CASE i <= a
    <3>1. m[i] = i /\ i \in 1 .. a + b + c /\ i <= a + b /\ i \in 1 .. a + b
      BY <1>1, <2>1
    <3> QED
      BY <1>2, <1>3, <2>1, <3>1
  <2>2. CASE i > a
    <3>1. m[i] = i + b /\ i + b \in 1 .. a + b + c /\ ~(i + b <= a + b) /\ (i + b) - (a + b) = i - a
      BY <1>1, <2>2
    <3>2. G[i] = C[i - a]
      BY <1>1, <1>2, <2>2
    <3> QED
      BY <1>3, <3>1, <3>2
  <2> QED
    BY <1>1, <2>1, <2>2
<1>5. \A i, j \in 1 .. Len(G) : i < j => m[i] < m[j]
  BY <1>1, <1>2
<1> HIDE DEF m
<1>6. Ids(G) \subseteq Ids(F) /\ FramesOf(G) \subseteq FramesOf(F)
  <2>1. Ids(G) \subseteq Ids(F)
    BY <1>4 DEF Ids
  <2>2. FramesOf(G) \subseteq FramesOf(F)
    BY <1>4 DEF FramesOf
  <2> QED
    BY <2>1, <2>2
<1>7. ASSUME NEW T, Apart(F, T)
      PROVE  Apart(G, T)
  <2>1. \A i, j \in 1 .. Len(T) : i < j => T[i] < T[j]
    BY <1>7 DEF Apart
  <2>2. \A i \in 1 .. Len(G) : \A j \in 1 .. Len(T) : PrecedesId(G[i], T[j])
    <3>1. \A i \in 1 .. Len(F) : \A j \in 1 .. Len(T) : PrecedesId(F[i], T[j])
      BY <1>7 DEF Apart
    <3> SUFFICES ASSUME NEW i \in 1 .. Len(G), NEW j \in 1 .. Len(T)
                 PROVE  PrecedesId(G[i], T[j])
      OBVIOUS
    <3>2. m[i] \in 1 .. Len(F) /\ G[i] = F[m[i]]
      BY <1>4
    <3> QED
      BY <3>1, <3>2
  <2>3. ASSUME NEW i \in 1 .. Len(G), NEW j \in 1 .. Len(G), i < j
        PROVE  Precedes(G[i], G[j])
    <3>1. m[i] \in 1 .. Len(F) /\ m[j] \in 1 .. Len(F) /\ m[i] < m[j]
      BY <1>4, <1>5, <2>3
    <3>2. Precedes(F[m[i]], F[m[j]])
      BY <1>7, <3>1 DEF Apart
    <3>3. G[i] = F[m[i]] /\ G[j] = F[m[j]]
      BY <1>4
    <3> QED
      BY <3>2, <3>3
  <2> QED
    BY <2>1, <2>2, <2>3 DEF Apart
<1> QED
  BY <1>6, <1>7 DEF F, G

\* One more URB in the channel of the device's task.
LEMMA OneMoreUrbApart ==
    ASSUME NEW F, NEW T \in Seq(UrbIds), Apart(F, T), NEW id \in UrbIds, id \notin Ids(F),
           \A f \in FramesOf(F) : IsData(f) => f.id < id, \A j \in 1 .. Len(T) : T[j] < id
    PROVE  Apart(F, Append(T, id))
<1> DEFINE U == Append(T, id)
           n == Len(T)
<1>1. /\ n \in Nat /\ Len(U) = n + 1 /\ U[n + 1] = id /\ \A j \in 1 .. n : U[j] = T[j]
  BY AppendProperties, LenProperties
<1>2. \A j \in 1 .. Len(U) : j = n + 1 \/ j \in 1 .. n
  BY <1>1
<1> HIDE DEF U
<1>3. \A i \in 1 .. Len(F) : \A j \in 1 .. Len(U) : PrecedesId(F[i], U[j])
  <2> SUFFICES ASSUME NEW i \in 1 .. Len(F), NEW j \in 1 .. Len(U)
               PROVE  PrecedesId(F[i], U[j])
    OBVIOUS
  <2>1. F[i].id \in Ids(F) /\ F[i] \in FramesOf(F)
    BY DEF Ids, FramesOf
  <2>2. PrecedesId(F[i], id)
    BY <2>1 DEF PrecedesId
  <2> QED
    BY <1>1, <1>2, <2>2 DEF Apart
<1>4. \A i, j \in 1 .. Len(U) : i < j => U[i] < U[j]
  <2> SUFFICES ASSUME NEW i \in 1 .. Len(U), NEW j \in 1 .. Len(U), i < j
               PROVE  U[i] < U[j]
    OBVIOUS
  <2>1. i \in 1 .. n /\ U[i] = T[i]
    BY <1>1, <1>2
  <2> QED
    BY <1>1, <1>2, <2>1 DEF Apart
<1>5. \A i, j \in 1 .. Len(F) : i < j => Precedes(F[i], F[j])
  BY DEF Apart
<1> QED
  BY <1>3, <1>4, <1>5 DEF Apart, U

\* What the client is about to send.
Sends == IF cPc = "send" THEN cOut ELSE <<>>

\* Where an id comes from: the attach and the enumeration, the device, or the
\* detach.
Known(id) ==
    \/ cPc # "connect" /\ id \in 1 .. ControlId(step)
    \/ id \in DataIds
    \/ detachSent /\ id = DetachId

\* Only the device makes data requests, and a detach is sent once.
Due(f) == (IsData(f) => f.id \in DataIds) /\ (f.type = "DetachRequest" => detachSent)

\* The three counters never meet: the enumeration is over before the first URB,
\* and with a limit the device makes no URB whose id reaches the detach's.
IdsInv ==
    /\ Apart(SentFrames, txq)
    /\ \A id \in Ids(SentFrames) : Known(id)
    /\ \A f \in FramesOf(SentFrames) : Due(f)
    /\ \A j \in 1 .. Len(txq) : txq[j] \in DataIds
    /\ limit # <<>> => urbs <= limit[1]
    /\ detachSent => limit # <<>>

LEMMA FramesSent ==
    ASSUME OwnInv
    PROVE  /\ Sends \in Seq(OwnFrames) /\ received \o up \in Seq(OwnFrames)
           /\ SentFrames = received \o up \o Sends /\ SentFrames \in Seq(OwnFrames)
           /\ Sends = <<>> => SentFrames = received \o up
<1>1. Sends \in Seq(OwnFrames)
  BY NoFrames DEF OwnInv, Sends
<1>2. received \in Seq(OwnFrames) /\ up \in Seq(OwnFrames)
  BY DEF OwnInv
<1>3. received \o up \in Seq(OwnFrames)
  BY <1>2, ConcatProperties
<1>4. SentFrames = received \o up \o Sends
  BY DEF SentFrames, Sends
<1>5. received \o up \o Sends \in Seq(OwnFrames)
  BY <1>1, <1>3, ConcatProperties
<1>6. (received \o up) \o <<>> = received \o up
  BY <1>3, ConcatEmptySeq
<1> QED
  BY <1>1, <1>3, <1>4, <1>5, <1>6

\* A step after which there are no ids that were not there before.
LEMMA NoNewIds ==
    ASSUME OwnInv, IdsInv,
           SentFrames' \in {SentFrames, received \o up, received \o Sends},
           UNCHANGED <<txq, urbs, limit, detachSent, step>>, cPc # "connect" => cPc' # "connect"
    PROVE  IdsInv'
<1> DEFINE F == SentFrames
           G == SentFrames'
<1>1. /\ received \in Seq(OwnFrames) /\ up \in Seq(OwnFrames) /\ received \o up \in Seq(OwnFrames)
      /\ Sends \in Seq(OwnFrames) /\ <<>> \in Seq(OwnFrames)
      /\ F = received \o up \o Sends
  BY FramesSent, NoFrames DEF OwnInv
<1>2. (received \o up) \o <<>> = received \o up /\ (received \o up \o Sends) \o <<>> = received \o up \o Sends
  BY <1>1, ConcatEmptySeq, ConcatProperties
<1>3. Ids(G) \subseteq Ids(F) /\ FramesOf(G) \subseteq FramesOf(F) /\ Apart(G, txq)
  <2>1. CASE G = F
    BY <2>1 DEF IdsInv
  <2>2. CASE G = received \o up
    <3>1. /\ Ids((received \o up) \o <<>>) \subseteq Ids((received \o up) \o Sends \o <<>>)
          /\ FramesOf((received \o up) \o <<>>) \subseteq FramesOf((received \o up) \o Sends \o <<>>)
          /\ \A T : Apart((received \o up) \o Sends \o <<>>, T) => Apart((received \o up) \o <<>>, T)
      BY <1>1, SomeLessApart
    <3> QED
      BY <1>1, <1>2, <2>2, <3>1 DEF IdsInv
  <2>3. CASE G = received \o Sends
    <3>1. /\ Ids(received \o Sends) \subseteq Ids(received \o up \o Sends)
          /\ FramesOf(received \o Sends) \subseteq FramesOf(received \o up \o Sends)
          /\ \A T : Apart(received \o up \o Sends, T) => Apart(received \o Sends, T)
      BY <1>1, SomeLessApart
    <3> QED
      BY <1>1, <2>3, <3>1 DEF IdsInv
  <2> QED
    BY <2>1, <2>2, <2>3
<1> HIDE DEF F, G
<1>4. Apart(SentFrames', txq')
  BY <1>3 DEF G
<1>5. \A id : Known(id) => Known(id)'
  BY DEF Known, DataIds, DetachId, ControlId
<1>6. \A id \in Ids(SentFrames)' : Known(id)'
  <2>1. Ids(SentFrames)' = Ids(G)
    BY DEF Ids, G
  <2> QED
    BY <1>3, <1>5, <2>1 DEF IdsInv, F
<1>7. Apart(SentFrames, txq)'
  BY <1>4 DEF Apart
<1>8. (\A j \in 1 .. Len(txq) : txq[j] \in DataIds)'
  BY DEF IdsInv, DataIds
<1>9. (limit # <<>> => urbs <= limit[1])' /\ (detachSent => limit # <<>>)'
  BY DEF IdsInv
<1>10. (\A f \in FramesOf(SentFrames) : Due(f))'
  <2>1. FramesOf(SentFrames)' = FramesOf(G)
    BY DEF FramesOf, G
  <2>2. \A f : Due(f) => Due(f)'
    BY DEF Due, IsData, DataIds
  <2> QED
    BY <1>3, <2>1, <2>2 DEF IdsInv, F
<1> QED
  BY <1>6, <1>7, <1>8, <1>9, <1>10 DEF IdsInv

\* The next id of each counter is one that nothing has.
LEMMA NextIdsAreNew ==
    ASSUME OwnInv, IdsInv
    PROVE  LET used == Ids(SentFrames) \union {txq[j] : j \in 1 .. Len(txq)}
           IN  /\ cPc = "connect" => AttachId \notin used
               /\ \A k \in step + 1 .. Len(Enumeration) : ControlId(k) \notin used
               /\ ~detachSent /\ limit # <<>> => DetachId \notin used
               /\ (limit # <<>> => urbs < limit[1]) => FirstDataId + urbs \notin used
<1> DEFINE used == Ids(SentFrames) \union {txq[j] : j \in 1 .. Len(txq)}
<1>1. \A id \in used : Known(id)
  BY DEF IdsInv, Known
<1> HIDE DEF used
<1>2. /\ step \in Nat /\ urbs \in Nat /\ Len(Enumeration) = 5 /\ step <= 5
      /\ AttachId = 1 /\ FirstDataId = 7
  <2>1. Len(Enumeration) = 5 /\ AttachId = 1 /\ FirstDataId = 7
    BY Counts
  <2>2. step \in 0 .. Len(Enumeration) /\ urbs \in 0 .. MaxUrbs
    BY DEF OwnInv
  <2> QED
    BY <2>1, <2>2
<1>3. ASSUME limit # <<>>
      PROVE  limit[1] \in Nat /\ DetachId = 7 + limit[1] /\ urbs <= limit[1]
  BY <1>2, <1>3, ClientAssumption DEF OwnInv, IdsInv, DetachId
<1>4. \A id : Known(id) =>
        \/ cPc # "connect" /\ id \in 1 .. step + 1
        \/ id \in Nat /\ 7 <= id /\ id < 7 + urbs
        \/ detachSent /\ limit # <<>> /\ id = 7 + limit[1]
  <2> SUFFICES ASSUME NEW id, Known(id)
               PROVE  \/ cPc # "connect" /\ id \in 1 .. step + 1
                      \/ id \in Nat /\ 7 <= id /\ id < 7 + urbs
                      \/ detachSent /\ limit # <<>> /\ id = 7 + limit[1]
    OBVIOUS
  <2>1. ControlId(step) = step + 1
    BY <1>2, Counts
  <2>2. CASE cPc # "connect" /\ id \in 1 .. ControlId(step)
    BY <2>1, <2>2
  <2>3. CASE id \in DataIds
    <3>1. PICK n \in 0 .. urbs - 1 : id = FirstDataId + n
      BY <2>3 DEF DataIds
    <3> QED
      BY <1>2, <3>1
  <2>4. CASE detachSent /\ id = DetachId
    <3>1. limit # <<>>
      BY <2>4 DEF IdsInv
    <3> QED
      BY <1>3, <2>4, <3>1
  <2> QED
    BY <2>2, <2>3, <2>4 DEF Known
<1>5. \A id \in used : \/ cPc # "connect" /\ id \in 1 .. step + 1
                       \/ id \in Nat /\ 7 <= id /\ id < 7 + urbs
                       \/ detachSent /\ limit # <<>> /\ id = 7 + limit[1]
  BY <1>1, <1>4
<1>6. cPc = "connect" => AttachId \notin used
  BY <1>2, <1>3, <1>5
<1>7. ASSUME NEW k \in step + 1 .. Len(Enumeration)
      PROVE  ControlId(k) \notin used
  <2>1. k \in Nat /\ step + 1 < k + 1 /\ k + 1 < 7
    BY <1>2
  <2>2. ControlId(k) = k + 1
    BY <2>1, Counts
  <2>3. limit # <<>> => limit[1] \in Nat
    BY <1>3
  <2> QED
    BY <1>2, <1>5, <2>1, <2>2, <2>3
<1>8. ASSUME ~detachSent, limit # <<>>
      PROVE  DetachId \notin used
  <2>1. \A id \in used : id \in Nat /\ id < 7 + urbs
    BY <1>2, <1>5, <1>8
  <2> QED
    BY <1>2, <1>3, <1>8, <2>1
<1>9. ASSUME limit # <<>> => urbs < limit[1]
      PROVE  FirstDataId + urbs \notin used
  <2>1. \A id \in used : id \in Nat /\ id # 7 + urbs
    BY <1>2, <1>3, <1>5, <1>9
  <2> QED
    BY <1>2, <2>1
<1> QED
  BY <1>6, <1>7, <1>8, <1>9 DEF used

\* A step that makes one frame of an id that was not used.
LEMMA OneNewId ==
    ASSUME OwnInv, IdsInv, NEW x \in OwnFrames, x.id \notin Ids(SentFrames),
           Sending(x, cThen'), cPc # "send", UNCHANGED <<received, up, urbs, limit>>,
           \/ txq' = txq /\ ~IsData(x) /\ \A j \in 1 .. Len(txq) : x.id # txq[j]
           \/ txq # <<>> /\ x.id = Head(txq) /\ txq' = Tail(txq) /\ x.id \in DataIds,
           x.type = "DetachRequest" => detachSent',
           \/ x.id \in 1 .. ControlId(step')
           \/ x.id \in DataIds
           \/ detachSent' /\ x.id = DetachId,
           step \in Nat, step' \in Nat, step <= step',
           detachSent => detachSent', detachSent' => limit # <<>>
    PROVE  IdsInv'
<1> DEFINE F == SentFrames
           G == Append(F, x)
<1>1. received \o up \in Seq(OwnFrames) /\ F = received \o up /\ F \in Seq(OwnFrames)
  BY FramesSent DEF Sends
<1>2. SentFrames' = G
  <2>1. SentFrames' = (received \o up) \o <<x>>
    BY DEF SentFrames, Sending
  <2> QED
    BY <1>1, <2>1, AppendIsConcat
<1>3. txq \in Seq(UrbIds)
  BY DEF OwnInv
<1>4. Apart(F, txq)
  BY DEF IdsInv
<1>5. Ids(G) = Ids(F) \union {x.id} /\ FramesOf(G) = FramesOf(F) \union {x} /\ Apart(G, txq')
  <2>1. /\ Ids(G) = Ids(F) \union {x.id} /\ FramesOf(G) = FramesOf(F) \union {x}
        /\ ~IsData(x) /\ (\A j \in 1 .. Len(txq) : x.id # txq[j]) => Apart(G, txq)
        /\ txq # <<>> /\ x.id = Head(txq) => Apart(G, Tail(txq))
    BY <1>1, <1>3, <1>4, OneMoreApart
  <2> HIDE DEF F, G
  <2>2. CASE txq' = txq /\ ~IsData(x) /\ \A j \in 1 .. Len(txq) : x.id # txq[j]
    BY <2>1, <2>2
  <2>3. CASE txq # <<>> /\ x.id = Head(txq) /\ txq' = Tail(txq)
    BY <2>1, <2>3
  <2> QED
    BY <2>1, <2>2, <2>3
<1> HIDE DEF F, G
<1>6. Apart(SentFrames, txq)'
  BY <1>2, <1>5 DEF Apart
<1>7. \A id \in Ids(SentFrames)' : Known(id)'
  <2>1. Ids(SentFrames)' = Ids(F) \union {x.id}
    BY <1>2, <1>5 DEF Ids
  <2>2. cPc' # "connect"
    BY DEF Sending
  <2>3. \A id : Known(id) => Known(id)'
    <3>1. \A id : id \in 1 .. ControlId(step) => id \in 1 .. ControlId(step')
      BY Counts
    <3> QED
      BY <2>2, <3>1 DEF Known, DataIds, DetachId, ControlId
  <2>4. \A id : \/ id \in 1 .. ControlId(step')
                \/ id \in DataIds
                \/ detachSent' /\ id = DetachId
                => Known(id)'
    BY <2>2 DEF Known, DataIds, DetachId, ControlId
  <2> QED
    BY <2>1, <2>3, <2>4 DEF IdsInv, F
<1>8. (\A j \in 1 .. Len(txq) : txq[j] \in DataIds)'
  <2>1. \A j \in 1 .. Len(txq) : txq[j] \in DataIds
    BY DEF IdsInv
  <2>2. DataIds' = DataIds
    BY DEF DataIds
  <2>3. \A j \in 1 .. Len(txq') : txq'[j] \in DataIds
    <3>1. CASE txq' = txq
      BY <2>1, <3>1
    <3>2. CASE txq # <<>> /\ txq' = Tail(txq)
      <4>1. /\ Len(txq) \in Nat /\ Len(txq') = Len(txq) - 1
            /\ \A j \in 1 .. Len(txq') : txq'[j] = txq[j + 1]
        BY <1>3, <3>2, HeadTailProperties
      <4>2. \A j \in 1 .. Len(txq') : j + 1 \in 1 .. Len(txq)
        BY <4>1
      <4> QED
        BY <2>1, <4>1, <4>2
    <3> QED
      BY <3>1, <3>2
  <2> QED
    BY <2>2, <2>3
<1>9. (limit # <<>> => urbs <= limit[1])' /\ (detachSent => limit # <<>>)'
  BY DEF IdsInv
<1>10. (\A f \in FramesOf(SentFrames) : Due(f))'
  <2>1. FramesOf(SentFrames)' = FramesOf(F) \union {x}
    BY <1>2, <1>5 DEF FramesOf
  <2>2. \A f : Due(f) => Due(f)'
    BY DEF Due, IsData, DataIds
  <2>3. Due(x)'
    BY DEF Due, IsData, DataIds
  <2> QED
    BY <2>1, <2>2, <2>3 DEF IdsInv, F
<1> QED
  BY <1>6, <1>7, <1>8, <1>9, <1>10 DEF IdsInv

\* A data response may be the last, and then the detach follows.
LEMMA CountKeepsIds ==
    ASSUME OwnInv, IdsInv, CountDataResponse, cPc \in {"select", "inject"},
           UNCHANGED <<received, up, urbs, txq, limit, step>>
    PROVE  IdsInv'
<1>1. CASE /\ ~detachSent /\ limit = <<dataResponses + 1>>
           /\ Sending(Lifecycle("DetachRequest", DetachId), "select") /\ detachSent' = TRUE
  <2> DEFINE x == Lifecycle("DetachRequest", DetachId)
  <2>1. limit # <<>>
    BY <1>1
  <2>2. x \in OwnFrames /\ x.id = DetachId /\ ~IsData(x)
    BY <2>1, OwnFacts DEF OwnInv, Lifecycle, IsData
  <2>3. x.id \notin Ids(SentFrames) /\ \A j \in 1 .. Len(txq) : x.id # txq[j]
    BY <1>1, <2>1, <2>2, NextIdsAreNew
  <2>4. Sending(x, cThen')
    BY <1>1 DEF Sending
  <2> HIDE DEF x
  <2>5. step \in Nat /\ step' = step
    BY DEF OwnInv
  <2> QED
    BY <1>1, <2>1, <2>2, <2>3, <2>4, <2>5, OneNewId
<1>2. CASE Stay("select") /\ detachSent' = detachSent
  <2>1. SentFrames' = SentFrames /\ cPc' # "connect"
    BY <1>2 DEF Stay, SentFrames
  <2> QED
    BY <1>2, <2>1, NoNewIds
<1> QED
  BY <1>1, <1>2 DEF CountDataResponse

\* A control request of the enumeration.
LEMMA RequestKeepsIds ==
    ASSUME OwnInv, IdsInv, NEW k \in step + 1 .. Len(Enumeration), RequestStep(k),
           cPc \in {"handshake", "control"},
           UNCHANGED <<received, up, urbs, txq, limit, detachSent>>
    PROVE  IdsInv'
<1> DEFINE x == ControlRequest(ControlId(k), Enumeration[k])
<1>1. step \in Nat /\ k \in Nat /\ k \in 1 .. Len(Enumeration) /\ step <= k
  BY DEF OwnInv
<1>2. x \in OwnFrames /\ x.id = ControlId(k) /\ ~IsData(x) /\ x.type = "Request"
  BY <1>1, OwnFacts DEF ControlRequest, IsData
<1>3. x.id \notin Ids(SentFrames) /\ \A j \in 1 .. Len(txq) : x.id # txq[j]
  BY <1>2, NextIdsAreNew
<1>4. Sending(x, cThen') /\ step' = k
  BY DEF RequestStep, Sending
<1>5. x.id \in 1 .. ControlId(step')
  BY <1>1, <1>2, <1>4, Counts
<1>6. detachSent => limit # <<>>
  BY DEF IdsInv
<1> HIDE DEF x
<1> QED
  BY <1>1, <1>2, <1>3, <1>4, <1>5, <1>6, OneNewId

LEMMA StartKeepsIds ==
    ASSUME OwnInv, IdsInv,
           Connect \/ ClientSend \/ ClientSendError \/ ClientEof \/ AwaitAttach \/ AwaitControl
    PROVE  IdsInv'
<1>1. UNCHANGED <<received, urbs, txq, limit, detachSent>>
  BY SessionKeepsReceived
     DEF Connect, ClientSend, ClientSendError, ClientEof, AwaitAttach, AwaitControl, Receives,
         Client, configVars, deviceVars, countVars
<1>2. CASE Connect
  <2> DEFINE x == Lifecycle("AttachRequest", AttachId)
  <2>1. cPc = "connect" /\ Sending(x, cThen') /\ step' = step /\ up' = up
    BY <1>2 DEF Connect, Sending
  <2>2. x \in OwnFrames /\ x.id = AttachId /\ ~IsData(x) /\ x.type = "AttachRequest"
    BY OwnFacts DEF Lifecycle, IsData
  <2>3. x.id \notin Ids(SentFrames) /\ \A j \in 1 .. Len(txq) : x.id # txq[j]
    BY <2>1, <2>2, NextIdsAreNew
  <2>4. step \in Nat /\ x.id \in 1 .. ControlId(step')
    <3>1. step \in Nat /\ step' = step
      BY <2>1 DEF OwnInv
    <3>2. ControlId(step) = step + 1 /\ ControlId(step') = ControlId(step) /\ x.id = 1
      BY <2>2, <3>1, Counts
    <3> QED
      BY <3>1, <3>2
  <2>5. detachSent => limit # <<>>
    BY DEF IdsInv
  <2> HIDE DEF x
  <2> QED
    BY <1>1, <2>1, <2>2, <2>3, <2>4, <2>5, OneNewId
<1>3. CASE ClientSend
  <2>1. /\ cPc = "send" /\ cPc' = cThen /\ cOut' = <<>> /\ step' = step
        /\ up' = up \/ up' = up \o cOut
    BY <1>3 DEF ClientSend
  <2>2. cPc' \notin {"send", "connect"} /\ Sends = cOut
    BY <2>1 DEF OwnInv, Sends
  <2>3. SentFrames' = (received \o up') \o <<>>
    BY <1>1, <2>2 DEF SentFrames
  <2>4. /\ received \in Seq(OwnFrames) /\ up' \in Seq(OwnFrames) /\ cOut \in Seq(OwnFrames)
        /\ up \in Seq(OwnFrames)
    BY <1>3, <2>1, StartKeepsOwn DEF OwnInv
  <2>5. received \o up' \in Seq(OwnFrames)
    BY <2>4, ConcatProperties
  <2>6. SentFrames' = received \o up'
    BY <2>3, <2>5, ConcatEmptySeq
  <2>7. received \o (up \o cOut) = received \o up \o Sends
    BY <2>2, <2>4, ConcatAssociative
  <2>8. SentFrames' \in {SentFrames, received \o up}
    BY <2>1, <2>6, <2>7, FramesSent
  <2> QED
    BY <1>1, <2>1, <2>2, <2>8, NoNewIds
<1>4. CASE ClientSendError \/ ClientEof
  <2>1. cPc' = "leave" /\ step' = step /\ up' = up
    BY <1>4 DEF ClientSendError, ClientEof, Stay
  <2>2. SentFrames' = (received \o up) \o <<>>
    BY <1>1, <2>1 DEF SentFrames
  <2>3. received \o up \in Seq(OwnFrames)
    BY FramesSent
  <2>4. SentFrames' = received \o up
    BY <2>2, <2>3, ConcatEmptySeq
  <2> QED
    BY <1>1, <2>1, <2>4, NoNewIds
<1>5. CASE AwaitAttach \/ AwaitControl
  <2>1. up' = up /\ cPc \in {"handshake", "control"} /\ (cPc = "handshake" => step = 0)
    BY <1>5 DEF AwaitAttach, AwaitControl, Receives, OwnInv
  <2>2. CASE (Stay("handshake") \/ Stay("control") \/ Stay("leave") \/ Stay("select")) /\ UNCHANGED step
    <3>1. SentFrames' = SentFrames /\ cPc' # "connect"
      BY <1>1, <2>1, <2>2 DEF Stay, SentFrames
    <3> QED
      BY <1>1, <2>2, <3>1, NoNewIds
  <2>3. CASE RequestStep(1) /\ step = 0
    <3>1. 1 \in step + 1 .. Len(Enumeration)
      BY <2>3, Counts
    <3> QED
      BY <1>1, <2>1, <2>3, <3>1, RequestKeepsIds
  <2>4. CASE step < Len(Enumeration) /\ RequestStep(step + 1)
    <3>1. step + 1 \in step + 1 .. Len(Enumeration)
      BY <2>4, Counts DEF OwnInv
    <3> QED
      BY <1>1, <2>1, <2>4, <3>1, RequestKeepsIds
  <2>5. CASE AwaitAttach
    <3>1. cPc = "handshake"
      BY <2>5 DEF AwaitAttach, Receives
    <3> QED
      BY <2>1, <2>2, <2>3, <2>5, <3>1 DEF AwaitAttach
  <2>6. CASE AwaitControl
    BY <2>2, <2>4, <2>6 DEF AwaitControl
  <2> QED
    BY <1>5, <2>5, <2>6
<1> QED
  BY <1>2, <1>3, <1>4, <1>5

LEMMA LoopKeepsIds ==
    ASSUME OwnInv, IdsInv,
           \/ FailedTransfer \/ GoodTransfer \/ Inject \/ DetachAnswered \/ OtherFrame
           \/ TakeUrb \/ VhciProcessed \/ Leave
    PROVE  IdsInv'
<1>1. UNCHANGED <<received, limit, urbs, step>>
  <2>1. CASE FailedTransfer \/ GoodTransfer \/ DetachAnswered \/ OtherFrame
    BY <2>1, SessionKeepsReceived
       DEF FailedTransfer, GoodTransfer, DetachAnswered, OtherFrame, Receives, Client, configVars,
           deviceVars
  <2>2. CASE Inject \/ TakeUrb \/ VhciProcessed
    BY <2>2, SessionKeepsReceived
       DEF Inject, TakeUrb, VhciProcessed, configVars, deviceVars, clientPlace
  <2>3. CASE Leave
    BY <2>3, SessionKeepsReceived DEF Leave, Client, configVars, deviceVars
  <2> QED
    BY <2>1, <2>2, <2>3
<1>2. CASE FailedTransfer \/ Inject
  <2>1. CountDataResponse /\ UNCHANGED <<up, txq>> /\ cPc \in {"select", "inject"}
    BY <1>2 DEF FailedTransfer, Inject, Receives, deviceVars
  <2> QED
    BY <1>1, <2>1, CountKeepsIds
<1>3. CASE GoodTransfer \/ DetachAnswered
  <2>1. /\ UNCHANGED <<up, txq, detachSent>> /\ cPc = "select"
        /\ cPc' \in {"inject", "select", "leave"}
    BY <1>3 DEF GoodTransfer, DetachAnswered, Receives, deviceVars, countVars, Stay
  <2>2. SentFrames' = SentFrames
    BY <1>1, <2>1 DEF SentFrames
  <2> QED
    BY <1>1, <2>1, <2>2, NoNewIds
<1>4. CASE OtherFrame
  <2>1. UNCHANGED <<up, txq>> /\ cPc = "select"
    BY <1>4 DEF OtherFrame, Receives, deviceVars
  <2>2. CASE CountDataResponse
    BY <1>1, <2>1, <2>2, CountKeepsIds
  <2>3. CASE Stay("select") /\ UNCHANGED detachSent
    <3>1. SentFrames' = SentFrames
      BY <1>1, <2>1, <2>3 DEF SentFrames, Stay
    <3> QED
      BY <1>1, <2>1, <2>3, <3>1, NoNewIds DEF Stay
  <2> QED
    BY <1>4, <2>2, <2>3 DEF OtherFrame
<1>5. CASE TakeUrb
  <2> DEFINE x == DataRequest(Head(txq), urbSize)
  <2>1. /\ cPc = "select" /\ txq # <<>> /\ txq' = Tail(txq) /\ Sending(x, cThen')
        /\ UNCHANGED <<up, detachSent>>
    BY <1>5 DEF TakeUrb, Sending
  <2>2. /\ Head(txq) = txq[1] /\ 1 \in 1 .. Len(txq) /\ Head(txq) \in UrbIds
    BY <2>1, HeadTailProperties DEF OwnInv
  <2>3. x \in OwnFrames /\ x.id = Head(txq) /\ x.type = "Request"
    BY <2>2, OwnFacts DEF DataRequest, OwnInv
  <2>4. x.id \in DataIds
    BY <2>2, <2>3 DEF IdsInv
  <2>5. \A i \in 1 .. Len(SentFrames) : SentFrames[i].id # txq[1]
    BY <2>2 DEF IdsInv, Apart, PrecedesId
  <2>6. x.id \notin Ids(SentFrames)
    BY <2>2, <2>3, <2>5 DEF Ids
  <2>7. step \in Nat /\ (detachSent => limit # <<>>)
    BY DEF OwnInv, IdsInv
  <2> HIDE DEF x
  <2> QED
    BY <1>1, <2>1, <2>3, <2>4, <2>6, <2>7, OneNewId
<1>6. CASE VhciProcessed
  <2>1. UNCHANGED <<up, txq, detachSent, clientPlace>>
    BY <1>6 DEF VhciProcessed, deviceVars, countVars
  <2>2. SentFrames' = SentFrames
    BY <1>1, <2>1 DEF SentFrames, clientPlace
  <2> QED
    BY <1>1, <2>1, <2>2, NoNewIds DEF clientPlace
<1>7. CASE Leave
  <2>1. cPc = "leave" /\ cPc' = "closed" /\ up' \in {up, <<>>} /\ UNCHANGED <<txq, detachSent>>
    BY <1>7 DEF Leave, Stay, deviceVars, countVars
  <2>2. SentFrames' = (received \o up') \o <<>> /\ Sends = <<>>
    BY <1>1, <2>1 DEF SentFrames, Sends
  <2>3. received \o up' \in Seq(OwnFrames)
    BY <2>1, ConcatProperties, NoFrames DEF OwnInv
  <2>4. SentFrames' = received \o up'
    BY <2>2, <2>3, ConcatEmptySeq
  <2> QED
    BY <1>1, <2>1, <2>2, <2>4, NoNewIds
<1> QED
  BY <1>2, <1>3, <1>4, <1>5, <1>6, <1>7

\* The device makes a URB.
LEMMA DeviceKeepsIds ==
    ASSUME OwnInv, IdsInv, DeviceUrb
    PROVE  IdsInv'
<1> DEFINE id == FirstDataId + urbs
<1>1. /\ txq' = Append(txq, id) /\ urbs' = urbs + 1 /\ urbs \in Nat /\ txq \in Seq(UrbIds)
      /\ limit # <<>> => urbs < limit[1]
      /\ UNCHANGED <<received, up, cPc, cOut, limit, detachSent, step>>
  BY DEF DeviceUrb, OwnInv, clientPlace, configVars, countVars, vars, sessionVars
<1>2. id \in UrbIds
  <2>1. urbs \in 0 .. MaxUrbs - 1
    BY <1>1, ClientAssumption DEF DeviceUrb, OwnInv
  <2> QED
    BY <2>1 DEF UrbIds
<1>3. id \notin Ids(SentFrames) /\ \A j \in 1 .. Len(txq) : txq[j] # id
  BY <1>1, NextIdsAreNew
<1>4. Apart(SentFrames, txq)
  BY DEF IdsInv
<1> HIDE DEF id
<1>5. Apart(SentFrames, txq')
  <2>1. \A n \in DataIds : n < id
    <3>1. FirstDataId = 7
      BY Counts
    <3> QED
      BY <1>1, <3>1 DEF DataIds, id
  <2>2. \A f \in FramesOf(SentFrames) : IsData(f) => f.id < id
    BY <2>1 DEF IdsInv, Due
  <2>3. \A j \in 1 .. Len(txq) : txq[j] < id
    BY <2>1 DEF IdsInv
  <2> QED
    BY <1>1, <1>2, <1>3, <1>4, <2>2, <2>3, OneMoreUrbApart
<1>6. SentFrames' = SentFrames
  BY <1>1 DEF SentFrames
<1>7. Apart(SentFrames, txq)'
  BY <1>5, <1>6 DEF Apart
<1>8. DataIds \subseteq DataIds' /\ id \in DataIds'
  <2>1. 0 .. urbs - 1 \subseteq 0 .. urbs' - 1 /\ urbs \in 0 .. urbs' - 1
    BY <1>1
  <2> QED
    BY <2>1 DEF DataIds, id
<1>9. \A i \in Ids(SentFrames)' : Known(i)'
  <2>1. Ids(SentFrames)' = Ids(SentFrames)
    BY <1>6 DEF Ids
  <2>2. \A i : Known(i) => Known(i)'
    BY <1>1, <1>8 DEF Known, DetachId, ControlId
  <2> QED
    BY <2>1, <2>2 DEF IdsInv
<1>10. (\A j \in 1 .. Len(txq) : txq[j] \in DataIds)'
  <2>1. \A j \in 1 .. Len(txq') : j \in 1 .. Len(txq) \/ txq'[j] = id
    BY <1>1, <1>2, AppendProperties
  <2>2. \A j \in 1 .. Len(txq) : txq'[j] = txq[j] /\ txq[j] \in DataIds
    BY <1>1, <1>2, AppendProperties DEF IdsInv
  <2> QED
    BY <1>8, <2>1, <2>2
<1>11. (limit # <<>> => urbs <= limit[1])' /\ (detachSent => limit # <<>>)'
  <2>1. limit # <<>> => limit[1] \in Nat
    BY ClientAssumption DEF OwnInv
  <2> QED
    BY <1>1, <2>1 DEF IdsInv
<1>12. (\A f \in FramesOf(SentFrames) : Due(f))'
  <2>1. FramesOf(SentFrames)' = FramesOf(SentFrames)
    BY <1>6 DEF FramesOf
  <2>2. \A f : Due(f) => Due(f)'
    BY <1>1, <1>8 DEF Due, IsData
  <2> QED
    BY <2>1, <2>2 DEF IdsInv
<1> QED
  BY <1>7, <1>9, <1>10, <1>11, <1>12 DEF IdsInv

\* The daemon reads, or the connection breaks.
LEMMA LinkKeepsIds ==
    ASSUME OwnInv, IdsInv, LinkBreaks \/ DaemonReads \/ DaemonStep \/ DaemonWorker
    PROVE  IdsInv'
<1>1. CASE LinkBreaks
  <2>1. /\ up' \in {up, <<>>} /\ UNCHANGED <<received, clientPlace, urbs, txq, limit, detachSent>>
    BY <1>1, SessionKeepsReceived DEF LinkBreaks, Client, deviceVars, configVars, countVars
  <2>2. received \o <<>> = received
    BY ConcatEmptySeq DEF OwnInv
  <2>3. SentFrames' = received \o up' \o Sends
    BY <2>1 DEF SentFrames, Sends, clientPlace
  <2>4. SentFrames' \in {SentFrames, received \o Sends}
    BY <2>1, <2>2, <2>3, FramesSent
  <2> QED
    BY <2>1, <2>4, NoNewIds DEF clientPlace
<1>2. CASE DaemonReads
  <2>1. /\ up # <<>> /\ up' = Tail(up) /\ received' = Append(received, Head(up))
        /\ UNCHANGED <<clientPlace, urbs, txq, limit, detachSent>>
    BY <1>2, SessionKeepsReceived DEF DaemonReads, deviceVars, configVars, countVars
  <2>2. received' \o up' = received \o up
    BY <2>1, HeadMoves DEF OwnInv
  <2>3. SentFrames' = SentFrames
    BY <2>1, <2>2 DEF SentFrames, clientPlace
  <2> QED
    BY <2>1, <2>3, NoNewIds DEF clientPlace
<1>3. CASE DaemonStep \/ DaemonWorker
  <2>1. UNCHANGED received /\ UNCHANGED clientOwn
    BY <1>3, SessionKeepsReceived DEF DaemonStep, DaemonWorker
  <2>2. UNCHANGED <<up, clientPlace, urbs, txq, limit, detachSent>>
    BY <2>1 DEF clientOwn, deviceVars, configVars, countVars
  <2>3. SentFrames' = SentFrames
    BY <2>1, <2>2 DEF SentFrames, clientPlace
  <2> QED
    BY <2>2, <2>3, NoNewIds DEF clientPlace
<1> QED
  BY <1>1, <1>2, <1>3

LEMMA NextIds == OwnInv /\ IdsInv /\ [SystemNext]_systemVars => IdsInv'
<1> SUFFICES ASSUME OwnInv, IdsInv, [SystemNext]_systemVars
             PROVE  IdsInv'
  OBVIOUS
<1>1. CASE ClientTask
  BY <1>1, StartKeepsIds, LoopKeepsIds DEF ClientTask
<1>2. CASE DeviceUrb
  BY <1>2, DeviceKeepsIds
<1>3. CASE LinkBreaks \/ DaemonReads \/ DaemonStep \/ DaemonWorker
  BY <1>3, LinkKeepsIds
<1>4. CASE UNCHANGED systemVars
  <2>1. UNCHANGED received
    BY <1>4, SessionKeepsReceived DEF systemVars
  <2>2. UNCHANGED <<up, clientPlace, urbs, txq, limit, detachSent>>
    BY <1>4 DEF systemVars, clientOwn, deviceVars, configVars, countVars
  <2>3. SentFrames' = SentFrames
    BY <2>1, <2>2 DEF SentFrames, clientPlace
  <2> QED
    BY <2>2, <2>3, NoNewIds DEF clientPlace
<1> QED
  BY <1>1, <1>2, <1>3, <1>4 DEF SystemNext

LEMMA InitIds == SystemInit => IdsInv
<1> SUFFICES ASSUME SystemInit
             PROVE  IdsInv
  OBVIOUS
<1>1. /\ cPc = "connect" /\ limit \in Limits /\ detachSent = FALSE
      /\ txq = <<>> /\ urbs = 0 /\ up = <<>> /\ received = <<>>
  BY DEF SystemInit, ClientInit, Init
<1>2. <<>> \o <<>> = <<>> /\ <<>> \o <<>> \o <<>> = <<>>
  OBVIOUS
<1>3. SentFrames = <<>>
  BY <1>1, <1>2 DEF SentFrames
<1>4. Len(<<>>) = 0
  OBVIOUS
<1>5. Apart(SentFrames, txq) /\ Ids(SentFrames) = {} /\ FramesOf(SentFrames) = {}
  BY <1>1, <1>3, <1>4 DEF Apart, Ids, FramesOf
<1>6. limit # <<>> => 0 <= limit[1]
  BY <1>1, ClientAssumption
<1> QED
  BY <1>1, <1>4, <1>5, <1>6 DEF IdsInv

\* The loop, the device's task and the detach count request ids on their own
\* from one number, and no id is used twice, for every limit (client
\* session.rs:48, :67, :79, :103).
THEOREM IdsAreFresh == SystemSpec => []FreshIds
<1>1. OwnInv /\ IdsInv => FreshIds
  <2> SUFFICES ASSUME OwnInv, IdsInv
               PROVE  FreshIds
    OBVIOUS
  <2>1. SentFrames \in Seq(OwnFrames) /\ txq \in Seq(UrbIds) /\ Apart(SentFrames, txq)
    BY FramesSent DEF OwnInv, IdsInv
  <2> QED
    BY <2>1, ApartIsFresh DEF FreshIds
<1> QED
  BY <1>1, InitOwn, NextOwn, InitIds, NextIds, PTL DEF SystemSpec

-----------------------------------------------------------------------------
(* The enumeration                                                         *)

\* The daemon's control endpoint accepts every request of the enumeration, and
\* answers the third with the whole report descriptor.
LEMMA EnumerationAccepted ==
    ASSUME NEW k \in 1 .. Len(Enumeration)
    PROVE  LET result == ControlResult(Enumeration[k], TRUE)
           IN  result.status = "Ok" /\ (k = 3 => result.len = DescriptorLen[Report])
<1>1. /\ Enumeration[1] = Setup(6, 256, 0, 18) /\ Enumeration[2] = Setup(6, 512, 0, 255)
      /\ Enumeration[3] = Setup(6, 8704, 0, 63) /\ Enumeration[4] = Setup(5, 1, 0, 0)
      /\ Enumeration[5] = Setup(9, 1, 0, 0)
  <2>1. DescriptorLen[Report] = 63
    BY DEF DescriptorLen, Device, Configuration, Report
  <2> QED
    BY <2>1 DEF Enumeration, GetDescriptor, SetAddress, SetConfiguration, Device, Configuration, Report
<1>2. k \in {1, 2, 3, 4, 5}
  BY DEF Enumeration
<1>3. DescriptorLen[1] = 18 /\ DescriptorLen[2] = 34 /\ DescriptorLen[34] = 63
  BY DEF DescriptorLen, Device, Configuration, Report
<1>4. CASE k \in {1, 2, 3}
  <2> DEFINE setup == Enumeration[k]
             d == DescriptorType(setup)
  <2>1. /\ setup.request = 6 /\ DescriptorIndex(setup) = 0 /\ setup.index = 0
        /\ k = 1 => d = 1 /\ setup.length = 18
        /\ k = 2 => d = 2 /\ setup.length = 255
        /\ k = 3 => d = 34 /\ setup.length = 63
    BY <1>1, <1>4 DEF Setup, DescriptorType, DescriptorIndex
  <2>2. d \in {1, 2, 34}
    BY <1>4, <2>1
  <2>3. HasDescriptor(setup)
    BY <2>1, <2>2 DEF HasDescriptor, Device, Configuration, Report
  <2>4. d \in DescriptorTypes
    BY <2>2 DEF DescriptorTypes, Device, Configuration, Report
  <2> DEFINE result == Result("Ok", Truncated(DescriptorLen[d], setup.length), <<>>)
  <2>5. \A known : known => ControlResult(setup, known) = result
    <3>1. \A known : ControlResult(setup, known) = GetDescriptorResult(setup, known)
      BY <2>1 DEF ControlResult, GetDescriptor, SetAddress, SetConfiguration
    <3>2. \A known : known => GetDescriptorResult(setup, known) = result
      BY <2>3, <2>4 DEF GetDescriptorResult
    <3> QED
      BY <3>1, <3>2
  <2>6. ControlResult(setup, TRUE) = result
    BY <2>5, Zenon
  <2>7. result.status = "Ok" /\ (k = 3 => result.len = DescriptorLen[Report])
    BY <1>3, <2>1 DEF Truncated, Result, Report
  <2> HIDE DEF result, setup
  <2>8. ControlResult(setup, TRUE).status = "Ok"
    BY <2>6, <2>7, Zenon
  <2>9. k = 3 => ControlResult(setup, TRUE).len = DescriptorLen[Report]
    BY <2>6, <2>7, Zenon
  <2> QED
    BY <2>8, <2>9, Zenon DEF setup
<1>5. CASE k = 4
  <2> DEFINE setup == Enumeration[k]
             result == Result("Ok", 0, <<>>)
  <2>1. setup.request = 5 /\ AddressValid(setup)
    BY <1>1, <1>5 DEF Setup, AddressValid
  <2> HIDE DEF setup
  <2>2. \A known : ControlResult(setup, known) = result
    BY <2>1 DEF ControlResult, GetDescriptor, SetAddress, SetConfiguration
  <2>3. result.status = "Ok"
    BY DEF Result
  <2>4. ControlResult(setup, TRUE).status = "Ok"
    BY <2>2, <2>3, Zenon
  <2>5. k # 3
    BY <1>5
  <2> QED
    BY <2>4, <2>5, Zenon DEF setup
<1>6. CASE k = 5
  <2> DEFINE setup == Enumeration[k]
             result == Result("Ok", 0, HidReports)
  <2>1. setup.request = 9 /\ setup.value = 1 /\ setup.length = 0
    BY <1>1, <1>6 DEF Setup
  <2> HIDE DEF setup
  <2>2. \A known : known => ConfigurationValid(setup, known)
    BY <2>1 DEF ConfigurationValid, ConfigurationValues
  <2>3. \A known : known => ControlResult(setup, known) = result
    <3>1. \A known : ControlResult(setup, known) =
                        IF ~ConfigurationValid(setup, known) THEN Result("Stall", 0, <<>>)
                        ELSE Result("Ok", 0, IF setup.value = 0 THEN <<>> ELSE HidReports)
      BY <2>1 DEF ControlResult, GetDescriptor, SetAddress, SetConfiguration
    <3>2. (IF setup.value = 0 THEN <<>> ELSE HidReports) = HidReports
      BY <2>1
    <3>3. \A known : ControlResult(setup, known) =
                        IF ~ConfigurationValid(setup, known) THEN Result("Stall", 0, <<>>) ELSE result
      BY <3>1, <3>2
    <3> HIDE DEF result
    <3> QED
      BY <2>2, <3>3
  <2>4. result.status = "Ok"
    BY DEF Result
  <2>5. ControlResult(setup, TRUE).status = "Ok"
    BY <2>3, <2>4, Zenon
  <2>6. k # 3
    BY <1>6
  <2> QED
    BY <2>5, <2>6, Zenon DEF setup
<1> QED
  BY <1>2, <1>4, <1>5, <1>6

\* The kinds of frames the client sends.
LEMMA OwnKinds ==
    ASSUME NEW f \in OwnFrames
    PROVE  /\ f.type \in {"AttachRequest", "Request", "DetachRequest"}
           /\ IsData(f) => f.id \in UrbIds
           /\ f.type = "Request" /\ ~IsData(f) =>
                \E k \in 1 .. Len(Enumeration) : f = ControlRequest(ControlId(k), Enumeration[k])
<1>1. \/ f = Lifecycle("AttachRequest", AttachId)
      \/ \E k \in 1 .. Len(Enumeration) : f = ControlRequest(ControlId(k), Enumeration[k])
      \/ \E id \in UrbIds, size \in UrbSizes : f = DataRequest(id, size)
      \/ \E l \in Limits \ {<<>>} : f = Lifecycle("DetachRequest", FirstDataId + l[1])
  BY DEF OwnFrames
<1>2. \A type, id : Lifecycle(type, id).type = type
  BY DEF Lifecycle
<1>3. \A id, setup : ControlRequest(id, setup).type = "Request" /\ ~IsData(ControlRequest(id, setup))
  BY DEF ControlRequest, IsData
<1>4. \A id, size : /\ DataRequest(id, size).type = "Request" /\ IsData(DataRequest(id, size))
                    /\ DataRequest(id, size).id = id
  BY DEF DataRequest, IsData, ControlKey
<1>5. CASE f = Lifecycle("AttachRequest", AttachId)
  BY <1>2, <1>5 DEF IsData
<1>6. CASE \E k \in 1 .. Len(Enumeration) : f = ControlRequest(ControlId(k), Enumeration[k])
  BY <1>3, <1>6
<1>7. CASE \E id \in UrbIds, size \in UrbSizes : f = DataRequest(id, size)
  BY <1>4, <1>7
<1>8. CASE \E l \in Limits \ {<<>>} : f = Lifecycle("DetachRequest", FirstDataId + l[1])
  BY <1>2, <1>8 DEF IsData
<1> QED
  BY <1>1, <1>5, <1>6, <1>7, <1>8

\* Before the loop: no transfer has been answered, and no detach is on its way.
Early == cPc \in {"connect", "handshake", "control"} \/ (cPc = "send" /\ cThen # "select")

Enumerating == cPc = "control" \/ (cPc = "send" /\ cThen = "control")

\* Where the two ends stand: the connection is there until it breaks or the client
\* is through, and the control requests come one after the other before the loop.
Placed ==
    /\ peer = "closed" => linkLost \/ cPc = "closed"
    /\ Early => ~detachSent
    /\ Enumerating => step # 0

LEMMA DaemonKeepsPeer ==
    /\ SessionStep \/ Worker \/ ClientRead \/ UNCHANGED vars => peer' = peer
    /\ \A f : HandleFrame(f) => peer' = peer
<1>1. SessionStep => peer' = peer
  BY DEF SessionStep, ReadEof, FlushTransfer, FlushDone, TakeFromChannel, SendFrame, SendError,
         Cleanup, Join, clientVars
<1>2. Worker \/ ClientRead \/ UNCHANGED vars => peer' = peer
  BY DEF Worker, WorkerCheck, WorkerPoll, WorkerSend, ClientRead, vars, clientVars
<1>3. \A f : HandleFrame(f) => peer' = peer
  BY DEF HandleFrame, HandleAttach, HandleDetach, HandleCancel, HandleReset, RefuseRequest,
         HandleControl, InjectOutcome, QueueRequest, IgnoreFrame, ReadError, Receive, clientVars
<1> QED
  BY <1>1, <1>2, <1>3

LEMMA KeepsPlace ==
    ASSUME OwnInv, Placed, [SystemNext]_systemVars
    PROVE  Placed' /\ (detachSent => detachSent') /\ (linkLost => linkLost')
<1>1. CASE Connect \/ ClientSend \/ ClientSendError \/ ClientEof
  <2>1. UNCHANGED <<peer, linkLost, detachSent>> /\ cPc # "closed"
    BY <1>1 DEF Connect, ClientSend, ClientSendError, ClientEof, vars, clientVars, countVars
  <2>2. (Early' => Early) /\ (Enumerating' => Enumerating) /\ step' = step
    BY <1>1, Counts DEF Connect, ClientSend, ClientSendError, ClientEof, Sending, Stay, Early, Enumerating, OwnInv
  <2> QED
    BY <2>1, <2>2 DEF Placed
<1>2. CASE AwaitAttach \/ AwaitControl
  <2>1. UNCHANGED <<peer, linkLost, detachSent>> /\ cPc # "closed" /\ Early
    BY <1>2, DaemonKeepsPeer DEF AwaitAttach, AwaitControl, Receives, countVars, Early
  <2>2. \A k : RequestStep(k) => step' = k
    BY DEF RequestStep
  <2>3. Enumerating' => step' # 0
    <3>1. CASE AwaitAttach
      BY <3>1, <2>2 DEF AwaitAttach, Stay, Enumerating
    <3>2. CASE AwaitControl
      <4>1. cPc = "control" /\ step # 0 /\ step \in Nat
        <5>1. step \in 0 .. Len(Enumeration)
          BY DEF OwnInv
        <5> QED
          BY <3>2, <5>1 DEF AwaitControl, Receives, Placed, Enumerating
      <4> QED
        BY <3>2, <2>2, <4>1 DEF AwaitControl, Stay
    <3> QED
      BY <1>2, <3>1, <3>2
  <2> QED
    BY <2>1, <2>3 DEF Placed
<1>3. CASE FailedTransfer \/ GoodTransfer \/ DetachAnswered \/ OtherFrame \/ Inject \/ TakeUrb \/ VhciProcessed
  <2>1. UNCHANGED <<peer, linkLost>> /\ cPc # "closed"
    BY <1>3, DaemonKeepsPeer
       DEF FailedTransfer, GoodTransfer, DetachAnswered, OtherFrame, Inject, TakeUrb, VhciProcessed,
           Receives, vars, clientVars
  <2>2. ~Early' /\ ~Enumerating'
    BY <1>3 DEF FailedTransfer, GoodTransfer, DetachAnswered, OtherFrame, Inject, TakeUrb,
                VhciProcessed, Receives, CountDataResponse, Sending, Stay, clientPlace, Early, Enumerating
  <2>3. detachSent => detachSent'
    BY <1>3 DEF FailedTransfer, GoodTransfer, DetachAnswered, OtherFrame, Inject, TakeUrb,
                VhciProcessed, CountDataResponse, countVars
  <2> QED
    BY <2>1, <2>2, <2>3 DEF Placed
<1>4. CASE Leave
  BY <1>4 DEF Leave, Stay, Placed, Early, Enumerating, countVars
<1>5. CASE DeviceUrb
  BY <1>5 DEF DeviceUrb, Placed, Early, Enumerating, clientPlace, countVars, vars, clientVars
<1>6. CASE LinkBreaks
  BY <1>6 DEF LinkBreaks, Placed, Early, Enumerating, clientPlace, countVars
<1>7. CASE DaemonReads \/ DaemonStep \/ DaemonWorker \/ UNCHANGED systemVars
  <2>1. UNCHANGED <<peer, clientPlace, countVars, linkLost>>
    BY <1>7, DaemonKeepsPeer DEF DaemonReads, DaemonStep, DaemonWorker, clientOwn, systemVars
  <2> QED
    BY <2>1 DEF Placed, Early, Enumerating, clientPlace, countVars
<1> QED
  BY <1>1, <1>2, <1>3, <1>4, <1>5, <1>6, <1>7 DEF SystemNext, ClientTask

\* What the client knows of the daemon: a control request finds the session
\* attached, which goes on until the client detaches or is gone, and an error has
\* its reason.
EnumInv ==
    /\ Placed /\ Speaks
    /\ step # 0 => Accepted
    /\ Working \/ peer = "closed" \/ detachSent
    /\ failed => linkLost \/ AttachRefused

\* What the client has read it has read.
LEMMA DeliveredStays ==
    ASSUME TypeInv, delivered' = delivered \/ \E a : delivered' = Append(delivered, a)
    PROVE  \A m \in 1 .. Len(delivered) : m \in 1 .. Len(delivered') /\ delivered'[m] = delivered[m]
<1>1. delivered \in Seq(Response)
  BY DEF TypeInv, TypeOK
<1> HIDE DEF Response
<1>2. CASE delivered' = delivered
  BY <1>2
<1>3. ASSUME NEW a, delivered' = Append(delivered, a)
      PROVE  \A m \in 1 .. Len(delivered) : m \in 1 .. Len(delivered') /\ delivered'[m] = delivered[m]
  BY <1>1, <1>3
<1> QED
  BY <1>2, <1>3

LEMMA RefusedStays ==
    ASSUME TypeInv, delivered' = delivered \/ \E a : delivered' = Append(delivered, a)
    PROVE  AttachRefused => AttachRefused'
BY DeliveredStays DEF AttachRefused

LEMMA StepKeepsDelivered ==
    /\ SessionStep \/ Worker \/ Client \/ UNCHANGED vars =>
        delivered' = delivered \/ \E a : delivered' = Append(delivered, a)
    /\ \A f : HandleFrame(f) => delivered' = delivered
<1>1. SessionStep => delivered' = delivered
  BY DEF SessionStep, ReadEof, FlushTransfer, FlushDone, TakeFromChannel, SendFrame, SendError,
         Cleanup, Join, clientVars
<1>2. Worker \/ ClientClose \/ UNCHANGED vars => delivered' = delivered
  BY DEF Worker, WorkerCheck, WorkerPoll, WorkerSend, ClientClose, vars, clientVars
<1>3. ClientRead => \E a : delivered' = Append(delivered, a)
  BY DEF ClientRead
<1>4. \A f : HandleFrame(f) => delivered' = delivered
  BY DEF HandleFrame, HandleAttach, HandleDetach, HandleCancel, HandleReset, RefuseRequest,
         HandleControl, InjectOutcome, QueueRequest, IgnoreFrame, ReadError, Receive, clientVars
<1> QED
  BY <1>1, <1>2, <1>3, <1>4 DEF Client

\* While the client enumerates, the daemon's end is gone only when the connection is.
LEMMA EarlyLoss ==
    ASSUME EnumInv, Early, DaemonGone
    PROVE  linkLost
BY DEF EnumInv, Placed, Early, DaemonGone, Working

\* The answer that the client waits for is the one to its request, and good.
LEMMA AnswerExpected ==
    ASSUME OwnInv, EnumInv, cPc = "control", net # <<>>,
           Head(net).kind = "Response", Head(net).id = ControlId(step)
    PROVE  Head(net).status = "Ok" /\ AsExpected(Head(net))
<1> PICK a : a = Head(net)
  OBVIOUS
<1> PICK f : f = received[a.of]
  OBVIOUS
<1>1. Says(a) /\ a.kind = "Response" /\ a.id = ControlId(step)
  <2>1. net \in Seq(Said)
    BY DEF EnumInv, Speaks, Carries
  <2> HIDE DEF Said
  <2>2. Head(net) \in Said
    BY <2>1, HeadTailProperties
  <2> QED
    BY <2>2 DEF Said
<1>2. f \in OwnFrames /\ f.type = "Request" /\ f.id = ControlId(step)
  <2>1. a.of \in 1 .. Len(received) /\ f.type = "Request" /\ f.id = a.id
    BY <1>1 DEF Says
  <2>2. received \in Seq(OwnFrames)
    BY DEF OwnInv
  <2> QED
    BY <1>1, <2>1, <2>2, ElementOfSeq
<1>3. step \in 1 .. 5 /\ ControlId(step) = step + 1 /\ Len(Enumeration) = 5
  <2>1. step \in 0 .. Len(Enumeration) /\ step # 0 /\ Len(Enumeration) = 5
    BY Counts DEF OwnInv, EnumInv, Placed, Enumerating
  <2>2. step \in 1 .. 5 /\ step \in Nat
    BY <2>1
  <2> QED
    BY <2>1, <2>2, Counts
<1>4. ~IsData(f)
  <2>1. ASSUME IsData(f)
        PROVE  FALSE
    <3>1. f.id \in Nat /\ f.id >= 7
      BY <1>2, <2>1, OwnKinds, UrbFacts
    <3> QED
      BY <1>2, <1>3, <3>1
  <2> QED
    BY <2>1
<1>5. f = ControlRequest(ControlId(step), Enumeration[step])
  <2>1. PICK k \in 1 .. Len(Enumeration) : f = ControlRequest(ControlId(k), Enumeration[k])
    BY <1>2, <1>4, OwnKinds
  <2>2. f.id = ControlId(k)
    BY <2>1 DEF ControlRequest
  <2>3. k \in Nat /\ ControlId(k) = k + 1
    BY <2>1, Counts
  <2>4. k = step
    BY <1>2, <1>3, <2>2, <2>3
  <2> QED
    BY <2>1, <2>4
<1>6. f.key = ControlKey /\ f.setup = <<Enumeration[step]>>
  BY <1>5 DEF ControlRequest
<1>7. ControlResponse(f) = ControlResult(Enumeration[step], TRUE)
  <2>1. f.setup # <<>> /\ f.setup[1] = Enumeration[step]
    BY <1>6, OneElement
  <2> QED
    BY <2>1, Zenon DEF ControlResponse
<1>8. /\ ControlResult(Enumeration[step], TRUE).status = "Ok"
      /\ step = 3 => ControlResult(Enumeration[step], TRUE).len = DescriptorLen[Report]
  BY <1>3, EnumerationAccepted, Zenon
<1>9. ControlResponse(f).status = "Ok" /\ (step = 3 => ControlResponse(f).len = DescriptorLen[Report])
  BY <1>7, <1>8, Zenon
<1>10. a.status = "Ok"
  BY <1>1, <1>6, <1>9 DEF Says
<1>11. AsExpected(a)
  BY <1>9 DEF AsExpected, ControlData
<1> QED
  BY <1>10, <1>11

\* The client returns an error for one of two reasons.
LEMMA FailsForReason ==
    ASSUME OwnInv, EnumInv, TypeInv, ClientTask \/ DeviceUrb \/ LinkBreaks, linkLost => linkLost'
    PROVE  failed' => linkLost' \/ AttachRefused'
<1>1. AttachRefused => AttachRefused'
  <2>1. Client \/ UNCHANGED vars
    BY DEF ClientTask, Connect, ClientSend, ClientSendError, ClientEof, AwaitAttach,
           AwaitControl, FailedTransfer, GoodTransfer, Inject, DetachAnswered, OtherFrame,
           TakeUrb, VhciProcessed, Leave, DeviceUrb, LinkBreaks, Receives, Client
  <2> QED
    BY <2>1, StepKeepsDelivered, RefusedStays
<1>2. failed => linkLost \/ AttachRefused
  BY DEF EnumInv
<1>3. CASE ClientSendError \/ ClientEof
  <2>1. DaemonGone /\ (failed' => Early)
    BY <1>3 DEF ClientSendError, ClientEof, Early
  <2> QED
    BY <2>1, EarlyLoss
<1>4. CASE AwaitAttach
  <2>1. net # <<>> /\ delivered' = Append(delivered, Head(net))
    BY <1>4 DEF AwaitAttach, Receives, ClientRead
  <2>2. CASE failed' = failed
    BY <1>1, <1>2, <2>2
  <2>3. CASE Head(net).kind = "AttachResponse" /\ Head(net).status # "Ok"
    <3>1. net \in Seq(Said)
      BY DEF EnumInv, Speaks, Carries
    <3> HIDE DEF Said
    <3>2. Head(net) \in Said
      BY <2>1, <3>1, HeadTailProperties
    <3>3. Head(net).status = "Failed"
      BY <2>3, <3>2 DEF Said, Says
    <3>4. delivered \in Seq(Response)
      BY DEF TypeInv, TypeOK
    <3> HIDE DEF Response
    <3>5. Len(delivered') \in 1 .. Len(delivered') /\ delivered'[Len(delivered')] = Head(net)
      BY <2>1, <3>4
    <3> QED
      BY <2>3, <3>3, <3>5 DEF AttachRefused
  <2> QED
    BY <1>4, <2>2, <2>3 DEF AwaitAttach
<1>5. CASE AwaitControl
  <2>1. cPc = "control" /\ net # <<>>
    BY <1>5 DEF AwaitControl, Receives, ClientRead
  <2>2. Head(net).kind = "Response" /\ Head(net).id = ControlId(step)
            => Head(net).status = "Ok" /\ AsExpected(Head(net))
    BY <2>1, AnswerExpected
  <2>3. failed' = failed
    BY <1>5, <2>2 DEF AwaitControl
  <2> QED
    BY <1>1, <1>2, <2>3
<1>6. CASE Connect \/ ClientSend \/ FailedTransfer \/ GoodTransfer \/ Inject \/ DetachAnswered
              \/ OtherFrame \/ TakeUrb \/ VhciProcessed \/ Leave \/ DeviceUrb \/ LinkBreaks
  <2>1. failed' = failed
    BY <1>6 DEF Connect, ClientSend, FailedTransfer, GoodTransfer, Inject, DetachAnswered,
                OtherFrame, TakeUrb, VhciProcessed, Leave, DeviceUrb, LinkBreaks, clientPlace
  <2> QED
    BY <1>1, <1>2, <2>1
<1> QED
  BY <1>3, <1>4, <1>5, <1>6 DEF ClientTask

\* The attach is the first answer the client acts on.
LEMMA AttachedBefore ==
    ASSUME OwnInv, EnumInv, ClientTask \/ DeviceUrb \/ LinkBreaks, Accepted => Accepted'
    PROVE  step' # 0 => Accepted'
<1>1. CASE AwaitAttach
  <2>1. net # <<>>
    BY <1>1 DEF AwaitAttach, Receives, ClientRead
  <2>2. CASE step' = step
    BY <2>2 DEF EnumInv
  <2>3. CASE Head(net).kind = "AttachResponse" /\ Head(net).status = "Ok"
    <3>1. net \in Seq(Said)
      BY DEF EnumInv, Speaks, Carries
    <3> HIDE DEF Said
    <3>2. Head(net) \in Said
      BY <2>1, <3>1, HeadTailProperties
    <3> QED
      BY <2>3, <3>2 DEF Said, Says
  <2> QED
    BY <1>1, <2>2, <2>3 DEF AwaitAttach
<1>2. CASE AwaitControl
  <2>1. step # 0
    BY <1>2 DEF AwaitControl, Receives, EnumInv, Placed, Enumerating
  <2> QED
    BY <2>1 DEF EnumInv
<1>3. CASE ~AwaitAttach /\ ~AwaitControl
  <2>1. step' = step
    BY <1>3 DEF ClientTask, Connect, ClientSend, ClientSendError, ClientEof, FailedTransfer,
                GoodTransfer, Inject, DetachAnswered, OtherFrame, TakeUrb, VhciProcessed, Leave,
                DeviceUrb, LinkBreaks, clientPlace
  <2> QED
    BY <2>1 DEF EnumInv
<1> QED
  BY <1>1, <1>2, <1>3

\* A control request that the daemon reads finds the session attached, and a
\* detach was sent by the client.
LEMMA UpFrames ==
    ASSUME OwnInv, IdsInv, up # <<>>
    PROVE  /\ Head(up) \in ClientFrames /\ Head(up).type # "TooLong"
           /\ Head(up).type = "DetachRequest" => detachSent
           /\ Head(up).type = "Request" /\ Head(up).key = ControlKey => step # 0
<1> PICK f : f = Head(up)
  OBVIOUS
<1>1. f \in OwnFrames /\ up \in Seq(OwnFrames) /\ received \in Seq(OwnFrames)
  BY HeadTailProperties DEF OwnInv
<1>2. f \in ClientFrames /\ f.type # "TooLong"
  BY <1>1, OwnFramesAssumption, OwnKinds
<1>3. f \in FramesOf(SentFrames) /\ f.id \in Ids(SentFrames)
  <2> DEFINE F == received \o up
  <2>1. F \in Seq(OwnFrames) /\ SentFrames = F \o Sends /\ Sends \in Seq(OwnFrames)
    BY FramesSent
  <2>2. Len(received) + 1 \in 1 .. Len(F) /\ F[Len(received) + 1] = f
    BY <1>1
  <2> HIDE DEF F
  <2>3. \A i \in 1 .. Len(F) : i \in 1 .. Len(SentFrames) /\ SentFrames[i] = F[i]
    BY <2>1
  <2> QED
    BY <2>2, <2>3 DEF FramesOf, Ids
<1>4. f.type = "DetachRequest" => detachSent
  BY <1>3 DEF IdsInv, Due
<1>5. ASSUME f.type = "Request", f.key = ControlKey
      PROVE  step # 0
  <2>1. PICK k \in 1 .. Len(Enumeration) : f = ControlRequest(ControlId(k), Enumeration[k])
    BY <1>1, <1>5, OwnKinds DEF IsData
  <2>2. f.id = ControlId(k) /\ k \in 1 .. 5 /\ k \in Nat /\ ControlId(k) = k + 1
    BY <2>1, Counts DEF ControlRequest
  <2>3. Known(f.id)
    BY <1>3 DEF IdsInv
  <2>4. f.id \notin DataIds
    <3>1. urbs \in Nat /\ FirstDataId = 7
      BY Counts, ClientAssumption DEF OwnInv
    <3> QED
      BY <2>2, <3>1 DEF DataIds
  <2>5. ~(detachSent /\ f.id = DetachId)
    <3>1. detachSent => limit[1] \in Nat
      BY ClientAssumption DEF OwnInv, IdsInv
    <3>2. FirstDataId = 7
      BY Counts
    <3> QED
      BY <2>2, <3>1, <3>2 DEF DetachId
  <2>6. f.id \in 1 .. ControlId(step)
    BY <2>3, <2>4, <2>5 DEF Known
  <2>7. ControlId(0) = 1
    BY Counts
  <2> QED
    BY <2>2, <2>6, <2>7
<1> QED
  BY <1>2, <1>4, <1>5

LEMMA NextEnum ==
    ASSUME OwnInv, IdsInv, TypeInv, SessionInv, EnumInv, [SystemNext]_systemVars
    PROVE  EnumInv'
<1>1. Placed' /\ (detachSent => detachSent') /\ (linkLost => linkLost')
  BY KeepsPlace DEF EnumInv
<1>2. CASE ClientTask \/ DeviceUrb \/ LinkBreaks
  <2>1. Client \/ UNCHANGED vars
    BY <1>2
       DEF ClientTask, Connect, ClientSend, ClientSendError, ClientEof, AwaitAttach,
           AwaitControl, FailedTransfer, GoodTransfer, Inject, DetachAnswered, OtherFrame,
           TakeUrb, VhciProcessed, Leave, DeviceUrb, LinkBreaks, Receives, Client
  <2>2. Speaks' /\ (Accepted => Accepted') /\ (Working /\ peer = "open" => Working')
    BY <2>1, StepKeepsSaid, StepWorks DEF EnumInv
  <2>3. peer \in {"open", "closed"} /\ (peer = "closed" => peer' = "closed")
    BY <2>1 DEF Client, ClientRead, ClientClose, TypeInv, TypeOK, vars, clientVars
  <2>4. failed' => linkLost' \/ AttachRefused'
    BY <1>1, <1>2, FailsForReason
  <2>5. step' # 0 => Accepted'
    BY <1>2, <2>2, AttachedBefore
  <2>6. Working' \/ peer' = "closed" \/ detachSent'
    BY <1>1, <2>2, <2>3 DEF EnumInv
  <2> QED
    BY <1>1, <2>2, <2>4, <2>5, <2>6 DEF EnumInv
<1>3. CASE DaemonReads
  <2> PICK f : f = Head(up)
    OBVIOUS
  <2>1. /\ up # <<>> /\ HandleFrame(f)
        /\ UNCHANGED <<clientPlace, configVars, deviceVars, vhciChan, countVars, linkLost, injected>>
    BY <1>3 DEF DaemonReads
  <2>2. /\ f \in ClientFrames /\ f.type # "TooLong"
        /\ f.type = "DetachRequest" => detachSent
        /\ f.type = "Request" /\ f.key = ControlKey => step # 0
    BY <2>1, UpFrames
  <2>3. Working /\ (Accepted => Accepted') /\ (f.type # "DetachRequest" => Working')
    BY <2>1, <2>2, FrameWorks
  <2>4. f.type = "Request" /\ f.key = ControlKey => state = "Attached"
    BY <2>2, <2>3 DEF EnumInv, Accepted
  <2>5. Speaks'
    BY <2>1, <2>2, <2>4, FrameKeepsSaid DEF EnumInv
  <2>6. delivered' = delivered
    BY <2>1, StepKeepsDelivered
  <2>7. AttachRefused' <=> AttachRefused
    BY <2>6 DEF AttachRefused
  <2>8. UNCHANGED <<step, failed, linkLost, detachSent>>
    BY <2>1 DEF clientPlace, countVars
  <2> QED
    BY <1>1, <2>2, <2>3, <2>5, <2>7, <2>8 DEF EnumInv
<1>4. CASE DaemonStep \/ DaemonWorker \/ UNCHANGED systemVars
  <2>1. (SessionStep \/ Worker \/ UNCHANGED vars) /\ UNCHANGED clientOwn
    BY <1>4 DEF DaemonStep, DaemonWorker, systemVars
  <2>2. Speaks' /\ (Accepted => Accepted') /\ (Working /\ peer = "open" => Working')
    BY <2>1, StepKeepsSaid, StepWorks DEF EnumInv
  <2>3. peer' = peer /\ peer \in {"open", "closed"}
    BY <2>1, DaemonKeepsPeer DEF TypeInv, TypeOK
  <2>4. AttachRefused => AttachRefused'
    BY <2>1, StepKeepsDelivered, RefusedStays
  <2>5. UNCHANGED <<step, failed, linkLost, detachSent>>
    BY <2>1 DEF clientOwn, clientPlace, countVars
  <2> QED
    BY <1>1, <2>2, <2>3, <2>4, <2>5 DEF EnumInv
<1> QED
  BY <1>2, <1>3, <1>4 DEF SystemNext

LEMMA InitEnum == SystemInit => EnumInv
<1> SUFFICES ASSUME SystemInit
             PROVE  EnumInv
  OBVIOUS
<1>1. /\ cPc = "connect" /\ cThen = "handshake" /\ step = 0 /\ failed = FALSE
      /\ detachSent = FALSE /\ peer = "open" /\ sPc = "select" /\ linkLost = FALSE
  BY DEF SystemInit, ClientInit, Init
<1>2. Speaks
  BY InitSpeaks DEF SystemInit
<1> QED
  BY <1>1, <1>2 DEF EnumInv, Placed, Early, Enumerating, Working

LEMMA AlwaysEnum == SystemSpec => [](OwnInv /\ IdsInv /\ TypeInv /\ SessionInv /\ EnumInv)
<1>1. SystemSpec => [](OwnInv /\ IdsInv)
  BY InitOwn, NextOwn, InitIds, NextIds, PTL DEF SystemSpec
<1>2. SystemSpec => [](TypeInv /\ SessionInv)
  BY ClientIsAClient, AlwaysTyped, PTL
<1>3. OwnInv /\ IdsInv /\ TypeInv /\ SessionInv /\ EnumInv /\ [SystemNext]_systemVars => EnumInv'
  BY NextEnum
<1> QED
  BY <1>1, <1>2, <1>3, InitEnum, PTL DEF SystemSpec

\* The client fails only when the driver refused the attach or the connection
\* broke: no request of its enumeration meets a refusal or a descriptor of another
\* length, for every limit, fault, backend and interleaving (client
\* session.rs:240-296, daemon session.rs:493-596).
THEOREM EnumerationIsAccepted == SystemSpec => []EnumerationAgrees
<1>1. EnumInv => EnumerationAgrees
  BY DEF EnumInv, EnumerationAgrees
<1> QED
  BY <1>1, AlwaysEnum, PTL

-----------------------------------------------------------------------------
(* What is injected                                                        *)

\* An answer the client has read and the one it reads next answer two requests,
\* and those of the driver come in the order of the requests.
LEMMA AnswersApart ==
    ASSUME AccountedOnce, EchoOrder, Speaks, net # <<>>, NEW m \in 1 .. Len(delivered),
           delivered[m].kind = "Response", Head(net).kind = "Response"
    PROVE  /\ delivered[m].of # Head(net).of
           /\ delivered[m].via = "driver" /\ Head(net).via = "driver" =>
                delivered[m].of < Head(net).of
<1> PICK a, x : a = delivered[m] /\ x = Head(net)
  OBVIOUS
<1> DEFINE s == <<1, m>>
           r == <<2, 1>>
<1>1. net \in Seq(Said) /\ delivered \in Seq(Said)
  BY DEF Speaks, Carries
<1>2. 1 \in 1 .. Len(net) /\ x = net[1]
  <2> HIDE DEF Said
  <2> QED
    BY <1>1, HeadTailProperties
<1>3. Places[1] = delivered /\ Places[2] = net
  BY DEF Places
<1>4. s \in Spots /\ At(s) = a /\ s[1] = 1
  BY <1>3 DEF Spots, At, RxPlace
<1>5. r \in Spots /\ At(r) = x /\ r[1] = 2
  BY <1>2, <1>3 DEF Spots, At, RxPlace
<1>6. s # r /\ Ahead(s, r)
  BY <1>4, <1>5 DEF Ahead
<1>7. Says(x)
  <2> HIDE DEF Said
  <2>1. x \in Said
    BY <1>1, <1>2, ElementOfSeq
  <2> QED
    BY <2>1 DEF Said
<1> HIDE DEF s, r
<1>8. a.of # x.of
  <2> SUFFICES ASSUME a.of = x.of
               PROVE  FALSE
    OBVIOUS
  <2> PICK n : n = x.of
    OBVIOUS
  <2>1. n \in DataRequests
    BY <1>7 DEF Says, DataRequests
  <2>2. s \in AnswersTo(n) /\ r \in AnswersTo(n) /\ s[1] < TxPlace /\ r[1] < TxPlace
    BY <1>4, <1>5 DEF AnswersTo, TxPlace
  <2>3. OneOf({q \in AnswersTo(n) : q[1] < TxPlace})
    BY <2>1 DEF AccountedOnce
  <2> QED
    BY <1>6, <2>2, <2>3 DEF OneOf
<1>9. a.via = "driver" /\ x.via = "driver" => a.of < x.of
  BY <1>4, <1>5, <1>6 DEF EchoOrder
<1> QED
  BY <1>8, <1>9

\* The frames received, one and another.
LEMMA ReceivedApart ==
    ASSUME OwnInv, IdsInv
    PROVE  /\ \A n \in 1 .. Len(received) :
                received[n] \in OwnFrames /\ Known(received[n].id) /\ Due(received[n])
           /\ \A n, k \in 1 .. Len(received) : n < k => Precedes(received[n], received[k])
           /\ \A n, k \in 1 .. Len(received) : n # k => received[n].id # received[k].id
<1>1. \A n \in 1 .. Len(received) : n \in 1 .. Len(SentFrames) /\ SentFrames[n] = received[n]
  <2>1. received \in Seq(OwnFrames) /\ up \in Seq(OwnFrames) /\ Sends \in Seq(OwnFrames)
    BY FramesSent DEF OwnInv
  <2>2. up \o Sends \in Seq(OwnFrames) /\ SentFrames = received \o (up \o Sends)
    <3>1. up \o Sends \in Seq(OwnFrames)
      BY <2>1, ConcatProperties
    <3>2. received \o (up \o Sends) = received \o up \o Sends
      BY <2>1, ConcatAssociative
    <3> QED
      BY <3>1, <3>2, FramesSent
  <2> QED
    BY <2>1, <2>2
<1>2. \A n \in 1 .. Len(received) : received[n] \in OwnFrames
  BY ElementOfSeq DEF OwnInv
<1>3. \A n \in 1 .. Len(received) :
            received[n].id \in Ids(SentFrames) /\ received[n] \in FramesOf(SentFrames)
  BY <1>1 DEF Ids, FramesOf
<1>4. \A n \in 1 .. Len(received) : Known(received[n].id) /\ Due(received[n])
  BY <1>3 DEF IdsInv
<1>5. \A n, k \in 1 .. Len(received) : n < k => Precedes(received[n], received[k])
  <2> SUFFICES ASSUME NEW n \in 1 .. Len(received), NEW k \in 1 .. Len(received), n < k
               PROVE  Precedes(received[n], received[k])
    OBVIOUS
  <2>1. Precedes(SentFrames[n], SentFrames[k])
    BY <1>1 DEF IdsInv, Apart
  <2> QED
    BY <1>1, <2>1
<1>6. \A n, k \in 1 .. Len(received) : n # k => received[n].id # received[k].id
  <2> SUFFICES ASSUME NEW n \in 1 .. Len(received), NEW k \in 1 .. Len(received), n # k
               PROVE  received[n].id # received[k].id
    OBVIOUS
  <2>1. n < k \/ k < n
    BY LenProperties DEF OwnInv
  <2> QED
    BY <1>5, <2>1 DEF Precedes
<1> QED
  BY <1>2, <1>4, <1>5, <1>6

\* The answer that the client reads next belongs to a request that no answer it
\* has read belongs to, and follows those in the order of the device's URBs.
MadeBefore(id, later) == id # later /\ ({id, later} \intersect OutcomeIds = {} => id < later)

LEMMA NextAnswer ==
    ASSUME OwnInv, IdsInv, AccountedOnce, EchoOrder, Speaks, net # <<>>,
           NEW m \in 1 .. Len(delivered), delivered[m].kind = "Response",
           Head(net).kind = "Response"
    PROVE  /\ delivered[m].id # Head(net).id
           /\ /\ delivered[m].status # "Failed" /\ delivered[m].id \in DataIds
              /\ Head(net).status # "Failed" /\ Head(net).id \in DataIds
              => MadeBefore(delivered[m].id, Head(net).id)
<1> PICK a, x : a = delivered[m] /\ x = Head(net)
  OBVIOUS
<1>1. Says(a) /\ Says(x)
  <2>1. net \in Seq(Said) /\ delivered \in Seq(Said)
    BY DEF Speaks, Carries
  <2> HIDE DEF Said
  <2>2. a \in Said /\ x \in Said
    BY <2>1, ElementOfSeq, HeadTailProperties
  <2> QED
    BY <2>2 DEF Said
<1>2. /\ a.of # x.of
      /\ a.via = "driver" /\ x.via = "driver" => a.of < x.of
  BY AnswersApart
<1> PICK f, g : f = received[a.of] /\ g = received[x.of]
  OBVIOUS
<1>3. /\ a.of \in 1 .. Len(received) /\ x.of \in 1 .. Len(received)
      /\ f.type = "Request" /\ f.id = a.id /\ g.type = "Request" /\ g.id = x.id
      /\ f.key # ControlKey => a.status = "Failed" \/ a.via = "driver" \/ a.id \in OutcomeIds
      /\ g.key # ControlKey => x.status = "Failed" \/ x.via = "driver" \/ x.id \in OutcomeIds
  BY <1>1 DEF Says
<1>4. a.id # x.id
  BY <1>2, <1>3, ReceivedApart
<1>5. ASSUME a.status # "Failed", a.id \in DataIds, x.status # "Failed", x.id \in DataIds,
             a.id \notin OutcomeIds, x.id \notin OutcomeIds
      PROVE  a.id < x.id
  <2>1. \A h \in OwnFrames : h.type = "Request" /\ h.id \in DataIds => IsData(h)
    <3> SUFFICES ASSUME NEW h \in OwnFrames, h.type = "Request", h.id \in DataIds, ~IsData(h)
                 PROVE  FALSE
      OBVIOUS
    <3>1. PICK k \in 1 .. Len(Enumeration) : h = ControlRequest(ControlId(k), Enumeration[k])
      BY OwnKinds
    <3>2. h.id = k + 1 /\ k \in 1 .. 5
      BY <3>1, Counts DEF ControlRequest
    <3>3. urbs \in Nat /\ FirstDataId = 7
      BY Counts, ClientAssumption DEF OwnInv
    <3> QED
      BY <3>2, <3>3 DEF DataIds
  <2>2. IsData(f) /\ IsData(g)
    BY <1>3, <1>5, <2>1, ReceivedApart
  <2>3. a.of < x.of
    BY <1>2, <1>3, <1>5, <2>2 DEF IsData
  <2>4. Precedes(f, g)
    BY <1>3, <2>3, ReceivedApart
  <2> QED
    BY <1>3, <2>2, <2>4 DEF Precedes
<1> QED
  BY <1>4, <1>5 DEF MadeBefore

\* In the loop every control request of the enumeration has had its answer, so that
\* the answers the loop reads are to URBs.
Answered(k) == \E m \in 1 .. Len(delivered) :
                    delivered[m].kind = "Response" /\ delivered[m].id = ControlId(k)

ControlInv == \A k \in 1 .. step : Answered(k) \/ (k = step /\ ~InLoop)

\* What was injected, and what is about to be.
Taken == injected \o (IF cPc = "inject" THEN <<cOut[1].id>> ELSE <<>>)

\* Whose id an answer of the loop was.
TakenFrom(id) ==
    /\ id \in DataIds
    /\ \E m \in 1 .. Len(delivered) :
        delivered[m].kind = "Response" /\ delivered[m].id = id /\ delivered[m].status # "Failed"

InTurn(T) == \A i, j \in 1 .. Len(T) : i < j => MadeBefore(T[i], T[j])

TakenInv ==
    /\ injected \in Seq(Nat) /\ (cPc = "inject" => cOut[1].id \in Nat)
    /\ InTurn(Taken)
    /\ \A j \in 1 .. Len(Taken) : TakenFrom(Taken[j])

LEMMA LoopReadsUrbs ==
    ASSUME OwnInv, IdsInv, ControlInv, AccountedOnce, EchoOrder, Speaks, net # <<>>,
           Head(net).kind = "Response", cPc = "select"
    PROVE  Head(net).id \in DataIds
<1> PICK x : x = Head(net)
  OBVIOUS
<1>1. Says(x)
  <2>1. net \in Seq(Said)
    BY DEF Speaks, Carries
  <2> HIDE DEF Said
  <2>2. x \in Said
    BY <2>1, HeadTailProperties
  <2> QED
    BY <2>2 DEF Said
<1> PICK g : g = received[x.of]
  OBVIOUS
<1>2. x.of \in 1 .. Len(received) /\ g.type = "Request" /\ g.id = x.id
  BY <1>1 DEF Says
<1>3. g \in OwnFrames /\ Known(g.id) /\ Due(g)
  BY <1>2, ReceivedApart
<1>4. CASE IsData(g)
  BY <1>2, <1>3, <1>4 DEF Due
<1>5. CASE ~IsData(g) /\ g.id \notin DataIds
  <2>1. PICK k \in 1 .. Len(Enumeration) : g = ControlRequest(ControlId(k), Enumeration[k])
    BY <1>2, <1>3, <1>5, OwnKinds
  <2>2. g.id = ControlId(k) /\ k \in 1 .. 5 /\ k \in Nat /\ ControlId(k) = k + 1
    BY <2>1, Counts DEF ControlRequest
  <2>3. ~(detachSent /\ g.id = DetachId)
    <3>1. detachSent => limit[1] \in Nat
      BY ClientAssumption DEF OwnInv, IdsInv
    <3>2. FirstDataId = 7
      BY Counts
    <3> QED
      BY <2>2, <3>1, <3>2 DEF DetachId
  <2>4. g.id \in 1 .. ControlId(step)
    BY <1>3, <1>5, <2>3 DEF Known
  <2>5. step \in Nat /\ ControlId(step) = step + 1
    <3>1. step \in Nat
      <4>1. step \in 0 .. Len(Enumeration)
        BY DEF OwnInv
      <4>2. Len(Enumeration) = 5
        BY Counts
      <4> QED
        BY ONLY <4>1, <4>2
    <3> QED
      BY <3>1, Counts
  <2>6. k \in 1 .. step
    BY <2>2, <2>4, <2>5
  <2>7. Answered(k)
    BY <2>6 DEF ControlInv, InLoop
  <2>8. PICK m \in 1 .. Len(delivered) :
            delivered[m].kind = "Response" /\ delivered[m].id = ControlId(k)
    BY <2>7 DEF Answered
  <2>9. delivered[m].id # x.id
    BY <2>8, NextAnswer
  <2> QED
    BY <1>2, <2>2, <2>8, <2>9
<1> QED
  BY <1>2, <1>4, <1>5

\* One more.
LEMMA OneMoreInTurn ==
    ASSUME NEW T \in Seq(Nat), NEW id \in Nat, InTurn(T),
           \A i \in 1 .. Len(T) : MadeBefore(T[i], id)
    PROVE  InTurn(Append(T, id))
<1> DEFINE U == Append(T, id)
           n == Len(T)
<1>1. /\ n \in Nat /\ Len(U) = n + 1 /\ U[n + 1] = id /\ \A j \in 1 .. n : U[j] = T[j]
  BY AppendProperties, LenProperties
<1>2. \A j \in 1 .. Len(U) : j = n + 1 \/ j \in 1 .. n
  BY <1>1
<1> HIDE DEF U
<1> SUFFICES ASSUME NEW i \in 1 .. Len(U), NEW j \in 1 .. Len(U), i < j
             PROVE  MadeBefore(U[i], U[j])
  BY DEF InTurn, U
<1>3. i \in 1 .. n /\ U[i] = T[i]
  BY <1>1, <1>2
<1> QED
  BY <1>1, <1>2, <1>3 DEF InTurn

\* A step of the two leaves the answers read where they are.
LEMMA StepDelivers ==
    ASSUME TypeInv, [SystemNext]_systemVars
    PROVE  \A m \in 1 .. Len(delivered) : m \in 1 .. Len(delivered') /\ delivered'[m] = delivered[m]
<1>1. CASE ClientTask \/ DeviceUrb \/ LinkBreaks \/ UNCHANGED systemVars
  <2>1. Client \/ UNCHANGED vars
    BY <1>1
       DEF ClientTask, Connect, ClientSend, ClientSendError, ClientEof, AwaitAttach,
           AwaitControl, FailedTransfer, GoodTransfer, Inject, DetachAnswered, OtherFrame,
           TakeUrb, VhciProcessed, Leave, DeviceUrb, LinkBreaks, Receives, Client, systemVars
  <2> QED
    BY <2>1, StepKeepsDelivered, DeliveredStays
<1>2. CASE DaemonReads \/ DaemonStep \/ DaemonWorker
  <2>1. SessionStep \/ Worker \/ \E f : HandleFrame(f)
    BY <1>2 DEF DaemonReads, DaemonStep, DaemonWorker
  <2> QED
    BY <2>1, StepKeepsDelivered, DeliveredStays
<1> QED
  BY <1>1, <1>2 DEF SystemNext

LEMMA KeepsControl ==
    ASSUME OwnInv, TypeInv, ControlInv, [SystemNext]_systemVars
    PROVE  ControlInv'
<1>1. \A k : Answered(k) => Answered(k)'
  BY StepDelivers DEF Answered, ControlId
<1>2. step \in Nat
  BY Counts DEF OwnInv
<1>3. CASE step' = step /\ (InLoop' => InLoop)
  BY <1>1, <1>3 DEF ControlInv
<1>4. CASE AwaitAttach
  <2>1. step = 0 /\ cPc = "handshake"
    BY <1>4 DEF AwaitAttach, Receives, OwnInv
  <2>2. CASE UNCHANGED step
    BY <2>1, <2>2 DEF ControlInv
  <2>3. CASE RequestStep(1)
    <3>1. step' = 1 /\ ~InLoop'
      BY <2>3 DEF RequestStep, Sending, InLoop
    <3> QED
      BY <3>1 DEF ControlInv
  <2> QED
    BY <1>4, <2>2, <2>3 DEF AwaitAttach
<1>5. CASE AwaitControl
  <2>1. cPc = "control" /\ ~InLoop /\ net # <<>> /\ delivered' = Append(delivered, Head(net))
    BY <1>5 DEF AwaitControl, Receives, ClientRead, InLoop
  <2>2. CASE (Stay("control") \/ Stay("leave")) /\ UNCHANGED step
    <3>1. ~InLoop'
      BY <2>2 DEF Stay, InLoop
    <3> QED
      BY <1>3, <2>2, <3>1
  <2>3. CASE /\ Head(net).kind = "Response" /\ Head(net).id = ControlId(step)
             /\ RequestStep(step + 1) \/ (Stay("select") /\ UNCHANGED step)
    <3> PICK last : last = step
      OBVIOUS
    <3>1. Answered(last)'
      <4>1. delivered \in Seq(Response)
        BY DEF TypeInv, TypeOK
      <4> HIDE DEF Response
      <4>2. Len(delivered') \in 1 .. Len(delivered') /\ delivered'[Len(delivered')] = Head(net)
        BY <2>1, <4>1
      <4> QED
        BY <2>3, <4>2 DEF Answered, ControlId
    <3>2. \A k \in 1 .. step : Answered(k)'
      BY <1>1, <2>1, <3>1 DEF ControlInv
    <3>3. step' = step \/ (step' = step + 1 /\ ~InLoop')
      BY <2>3 DEF RequestStep, Sending, InLoop
    <3>4. \A k \in 1 .. step' : k \in 1 .. step \/ (k = step' /\ ~InLoop')
      BY <1>2, <3>3
    <3> QED
      BY <3>2, <3>4 DEF ControlInv
  <2> QED
    BY <1>5, <2>2, <2>3 DEF AwaitControl
<1>6. CASE ~AwaitAttach /\ ~AwaitControl
  <2>1. step' = step /\ (InLoop' => InLoop)
    <3>1. CASE Connect \/ ClientSend \/ ClientSendError \/ ClientEof \/ Leave
      BY <3>1 DEF Connect, ClientSend, ClientSendError, ClientEof, Leave, Sending, Stay, InLoop, OwnInv
    <3>2. CASE FailedTransfer \/ GoodTransfer \/ Inject \/ DetachAnswered \/ OtherFrame
               \/ TakeUrb \/ VhciProcessed
      BY <3>2 DEF FailedTransfer, GoodTransfer, Inject, DetachAnswered, OtherFrame, TakeUrb,
                  VhciProcessed, Receives, clientPlace, InLoop
    <3>3. CASE DeviceUrb \/ LinkBreaks \/ DaemonReads \/ DaemonStep \/ DaemonWorker \/ UNCHANGED systemVars
      BY <3>3 DEF DeviceUrb, LinkBreaks, DaemonReads, DaemonStep, DaemonWorker, systemVars, clientOwn,
                  clientPlace, InLoop
    <3> QED
      BY <1>6, <3>1, <3>2, <3>3 DEF SystemNext, ClientTask
  <2> QED
    BY <1>3, <2>1
<1> QED
  BY <1>4, <1>5, <1>6

\* A step that injects nothing and takes nothing to be injected.
LEMMA SameTaken ==
    ASSUME OwnInv, TypeInv, TakenInv, [SystemNext]_systemVars, Taken' = Taken,
           injected' \in Seq(Nat), cPc' = "inject" => cOut'[1].id \in Nat
    PROVE  TakenInv'
<1>1. DataIds \subseteq DataIds'
  <2>1. urbs \in Nat
    BY ClientAssumption DEF OwnInv
  <2>2. urbs' = urbs \/ urbs' = urbs + 1
    BY DEF SystemNext, ClientTask, Connect, ClientSend, ClientSendError, ClientEof, AwaitAttach,
           AwaitControl, FailedTransfer, GoodTransfer, Inject, DetachAnswered, OtherFrame,
           TakeUrb, VhciProcessed, Leave, DeviceUrb, LinkBreaks, DaemonReads, DaemonStep,
           DaemonWorker, Receives, deviceVars, clientOwn, systemVars
  <2>3. 0 .. urbs - 1 \subseteq 0 .. urbs' - 1
    BY <2>1, <2>2
  <2> QED
    BY <2>3 DEF DataIds
<1>2. \A id : TakenFrom(id) => TakenFrom(id)'
  BY <1>1, StepDelivers DEF TakenFrom
<1>3. InTurn(Taken)'
  BY DEF TakenInv, InTurn, MadeBefore
<1>4. (\A j \in 1 .. Len(Taken) : TakenFrom(Taken[j]))'
  <2> PICK T : T = Taken
    OBVIOUS
  <2>1. \A j \in 1 .. Len(T) : TakenFrom(T[j])'
    BY <1>2 DEF TakenInv
  <2> QED
    BY <2>1
<1> QED
  BY <1>3, <1>4 DEF TakenInv

\* An answer is taken: it is the last of them.
LEMMA OneMoreTaken ==
    ASSUME OwnInv, IdsInv, TypeInv, Speaks, ControlInv, TakenInv, AccountedOnce, EchoOrder,
           GoodTransfer, vhci = <<>>
    PROVE  TakenInv'
<1> PICK x, T, D : x = Head(net) /\ T = injected /\ D = DataIds
  OBVIOUS
<1>1. /\ cPc = "select" /\ net # <<>> /\ delivered' = Append(delivered, x)
      /\ x.kind = "Response" /\ MaySucceed(x) /\ cPc' = "inject" /\ cOut' = <<x>>
      /\ UNCHANGED <<injected, urbs>>
  BY DEF GoodTransfer, Receives, ClientRead, deviceVars
<1>2. x.id \in Nat /\ x.id \in DataIds /\ x.status # "Failed"
  <2>1. x.id \in DataIds
    BY <1>1, LoopReadsUrbs
  <2>2. urbs \in Nat /\ FirstDataId = 7
    BY Counts, ClientAssumption DEF OwnInv
  <2> QED
    BY <1>1, <2>1, <2>2 DEF DataIds, MaySucceed
<1>3. T \in Seq(Nat) /\ InTurn(T) /\ \A j \in 1 .. Len(T) : TakenFrom(T[j])
  <2>1. Taken = T /\ T \in Seq(Nat)
    <3>1. T \in Seq(Nat) /\ Taken = T \o <<>>
      BY <1>1 DEF TakenInv, Taken
    <3> QED
      BY <3>1, ConcatEmptySeq
  <2> QED
    BY <2>1 DEF TakenInv
<1>4. Taken' = Append(T, x.id)
  <2>1. Taken' = T \o <<x.id>>
    BY <1>1, OneElement DEF Taken
  <2> QED
    BY <1>2, <1>3, <2>1, AppendIsConcat
<1>5. \A j \in 1 .. Len(T) : MadeBefore(T[j], x.id)
  <2> SUFFICES ASSUME NEW j \in 1 .. Len(T)
               PROVE  MadeBefore(T[j], x.id)
    OBVIOUS
  <2>1. PICK m \in 1 .. Len(delivered) : /\ delivered[m].kind = "Response" /\ delivered[m].id = T[j]
                                         /\ delivered[m].status # "Failed" /\ T[j] \in DataIds
    BY <1>3 DEF TakenFrom
  <2> QED
    BY <1>1, <1>2, <2>1, NextAnswer
<1>6. InTurn(Append(T, x.id))
  BY <1>2, <1>3, <1>5, OneMoreInTurn
<1>7. /\ \A m \in 1 .. Len(delivered) : m \in 1 .. Len(delivered') /\ delivered'[m] = delivered[m]
      /\ Len(delivered') \in 1 .. Len(delivered') /\ delivered'[Len(delivered')] = x
  <2>1. delivered \in Seq(Response)
    BY DEF TypeInv, TypeOK
  <2> HIDE DEF Response
  <2> QED
    BY <1>1, <2>1
<1>8. DataIds' = DataIds
  BY <1>1 DEF DataIds
<1>9. TakenFrom(x.id)' /\ \A j \in 1 .. Len(T) : TakenFrom(T[j])'
  <2>1. \A id : TakenFrom(id) => TakenFrom(id)'
    BY <1>7, <1>8 DEF TakenFrom
  <2>2. TakenFrom(x.id)'
    BY <1>1, <1>2, <1>7, <1>8 DEF TakenFrom
  <2> QED
    BY <1>3, <2>1, <2>2
<1>10. \A j \in 1 .. Len(Append(T, x.id)) : TakenFrom(Append(T, x.id)[j])'
  <2>1. \A j \in 1 .. Len(Append(T, x.id)) :
            Append(T, x.id)[j] = x.id \/ (j \in 1 .. Len(T) /\ Append(T, x.id)[j] = T[j])
    BY <1>2, <1>3, AppendProperties
  <2> QED
    BY <1>9, <2>1
<1>11. InTurn(Taken)'
  BY <1>4, <1>6 DEF InTurn, MadeBefore
<1>12. (\A j \in 1 .. Len(Taken) : TakenFrom(Taken[j]))'
  BY <1>4, <1>10
<1>13. injected' \in Seq(Nat) /\ (cPc' = "inject" => cOut'[1].id \in Nat)
  BY <1>1, <1>2, <1>3, OneElement
<1> QED
  BY <1>11, <1>12, <1>13 DEF TakenInv

LEMMA KeepsTaken ==
    ASSUME OwnInv, IdsInv, TypeInv, Speaks, ControlInv, TakenInv, AccountedOnce, EchoOrder,
           [SystemNext]_systemVars
    PROVE  TakenInv'
<1>1. injected \in Seq(Nat) /\ injected \o <<>> = injected
  BY ConcatEmptySeq DEF TakenInv
<1>2. CASE UNCHANGED <<injected, cPc, cOut>>
  <2>1. Taken' = Taken
    BY <1>2 DEF Taken
  <2> QED
    BY <1>1, <1>2, <2>1, SameTaken DEF TakenInv
<1>3. CASE injected' = injected /\ cPc # "inject" /\ cPc' # "inject"
  <2>1. Taken' = Taken
    BY <1>3 DEF Taken
  <2> QED
    BY <1>1, <1>3, <2>1, SameTaken
<1>4. CASE GoodTransfer
  <2>1. CASE vhci = <<>>
    BY <1>4, <2>1, OneMoreTaken
  <2>2. CASE vhci # <<>>
    <3>1. injected' = injected /\ cPc = "select" /\ cPc' = "select"
      BY <1>4, <2>2 DEF GoodTransfer, Receives, Stay
    <3> QED
      BY <1>3, <3>1
  <2> QED
    BY <2>1, <2>2
<1>5. CASE Inject
  <2> PICK id : id = cOut[1].id
    OBVIOUS
  <2>1. cPc = "inject" /\ injected' = Append(injected, id) /\ cPc' \in {"select", "send"} /\ id \in Nat
    BY <1>5 DEF Inject, CountDataResponse, Sending, Stay, TakenInv
  <2>2. Taken = injected \o <<id>>
    BY <2>1 DEF Taken
  <2>3. Taken = Append(injected, id) /\ injected' \in Seq(Nat)
    BY <1>1, <2>1, <2>2, AppendIsConcat, AppendProperties
  <2>4. Taken' = injected' \o <<>>
    BY <2>1 DEF Taken
  <2>5. Taken' = Taken
    BY <2>1, <2>3, <2>4, ConcatEmptySeq
  <2> QED
    BY <2>1, <2>3, <2>5, SameTaken
<1>6. CASE Connect \/ ClientSend \/ ClientSendError \/ ClientEof \/ AwaitAttach \/ AwaitControl
  <2>1. injected' = injected /\ cPc # "inject" /\ cPc' # "inject"
    BY <1>6 DEF Connect, ClientSend, ClientSendError, ClientEof, AwaitAttach, AwaitControl, Receives,
                RequestStep, Sending, Stay, OwnInv
  <2> QED
    BY <1>3, <2>1
<1>7. CASE FailedTransfer \/ DetachAnswered \/ OtherFrame \/ TakeUrb \/ VhciProcessed \/ Leave
  <2>1. injected' = injected /\ cPc # "inject" /\ cPc' # "inject"
    BY <1>7 DEF FailedTransfer, DetachAnswered, OtherFrame, TakeUrb, VhciProcessed, Leave, Receives,
                CountDataResponse, Sending, Stay, clientPlace
  <2> QED
    BY <1>3, <2>1
<1>8. CASE DeviceUrb \/ LinkBreaks \/ DaemonReads \/ DaemonStep \/ DaemonWorker \/ UNCHANGED systemVars
  <2>1. UNCHANGED <<injected, cPc, cOut>>
    BY <1>8 DEF DeviceUrb, LinkBreaks, DaemonReads, DaemonStep, DaemonWorker, systemVars, clientOwn,
                clientPlace
  <2> QED
    BY <1>2, <2>1
<1> QED
  BY <1>4, <1>5, <1>6, <1>7, <1>8 DEF SystemNext, ClientTask

LEMMA InitTaken == SystemInit => ControlInv /\ TakenInv
<1> SUFFICES ASSUME SystemInit
             PROVE  ControlInv /\ TakenInv
  OBVIOUS
<1>1. cPc = "connect" /\ step = 0 /\ injected = <<>>
  BY DEF SystemInit, ClientInit
<1>2. <<>> \o <<>> = <<>> /\ Len(<<>>) = 0 /\ <<>> \in Seq(Nat)
  OBVIOUS
<1>3. Taken = <<>>
  BY <1>1, <1>2 DEF Taken
<1> QED
  BY <1>1, <1>2, <1>3 DEF ControlInv, TakenInv, InTurn

\* What reaches the VHCI are answers to the device's own URBs, each once, and those
\* of the driver in the order in which the device made them, for every limit, fault
\* and interleaving of the client's tasks, the worker and the loops (client
\* session.rs:444, vhci.rs:99-106).
THEOREM InjectionsInOrder == SystemSpec => []InjectedInOrder
<1>1. SystemSpec => [](AccountedOnce /\ EchoOrder)
  BY ClientIsAClient, RequestsAccounted, EchoesInOrder, PTL
<1>2. /\ OwnInv /\ IdsInv /\ TypeInv /\ SessionInv /\ EnumInv /\ AccountedOnce /\ EchoOrder
      /\ ControlInv /\ TakenInv /\ [SystemNext]_systemVars
      => ControlInv' /\ TakenInv'
  BY KeepsControl, KeepsTaken DEF EnumInv
<1>3. OwnInv /\ TakenInv => InjectedInOrder
  <2> SUFFICES ASSUME OwnInv, TakenInv
               PROVE  InjectedInOrder
    OBVIOUS
  <2>1. \A j \in 1 .. Len(injected) : j \in 1 .. Len(Taken) /\ Taken[j] = injected[j]
    BY OneElement DEF Taken, TakenInv
  <2>2. \A j \in 1 .. Len(injected) : injected[j] \in DataIds
    BY <2>1 DEF TakenInv, TakenFrom
  <2>3. ASSUME NEW j \in 1 .. Len(injected), NEW i \in 1 .. j - 1
        PROVE  /\ injected[i] # injected[j]
               /\ {injected[i], injected[j]} \intersect OutcomeIds = {} => injected[i] < injected[j]
    <3>1. i \in 1 .. Len(injected) /\ i < j
      BY LenProperties DEF TakenInv
    <3>2. MadeBefore(Taken[i], Taken[j])
      BY <2>1, <3>1 DEF TakenInv, InTurn
    <3> QED
      BY <2>1, <3>1, <3>2 DEF MadeBefore
  <2> QED
    BY <2>2, <2>3 DEF InjectedInOrder
<1> QED
  BY <1>1, <1>2, <1>3, AlwaysEnum, InitTaken, PTL DEF SystemSpec

-----------------------------------------------------------------------------
(* When the client detaches                                                *)

\* The URBs whose answer the client has read.
AnsweredUrbs ==
    {id \in DataIds :
        \E m \in 1 .. Len(delivered) : delivered[m].kind = "Response" /\ delivered[m].id = id}

\* Every request that was made has been answered, and the device makes no more.
Settled ==
    /\ urbs = limit[1] /\ AnsweredUrbs = DataIds
    /\ \A k \in 1 .. step : Answered(k)

\* The client counts no more answers than it has read, of URBs, and none twice.
CountInv ==
    /\ dataResponses \in Nat
    /\ dataResponses + (IF cPc = "inject" THEN 1 ELSE 0) <= Cardinality(AnsweredUrbs)
    /\ pending \subseteq DataIds \ AnsweredUrbs
    /\ Early => urbs = 0
    /\ detachSent => Settled

LEMMA UrbCount ==
    ASSUME OwnInv
    PROVE  /\ urbs \in Nat /\ IsFiniteSet(DataIds) /\ Cardinality(DataIds) = urbs
           /\ \A A : A \subseteq DataIds => IsFiniteSet(A) /\ Cardinality(A) \in Nat /\ Cardinality(A) <= urbs
           /\ \A A : A \subseteq DataIds /\ Cardinality(A) = urbs => A = DataIds
<1>1. urbs \in Nat /\ FirstDataId = 7
  BY ClientAssumption, Counts DEF OwnInv
<1>2. DataIds = 7 .. urbs + 6
  <2>1. \A id \in 7 .. urbs + 6 : id = 7 + (id - 7) /\ id - 7 \in 0 .. urbs - 1
    BY <1>1
  <2>2. \A n \in 0 .. urbs - 1 : 7 + n \in 7 .. urbs + 6
    BY <1>1
  <2> QED
    BY <1>1, <2>1, <2>2 DEF DataIds
<1>3. IsFiniteSet(7 .. urbs + 6) /\ Cardinality(7 .. urbs + 6) = urbs
  <2>1. /\ IsFiniteSet(7 .. urbs + 6)
        /\ Cardinality(7 .. urbs + 6) = IF 7 > urbs + 6 THEN 0 ELSE urbs + 6 - 7 + 1
    BY <1>1, FS_Interval
  <2> QED
    BY <1>1, <2>1
<1>4. ASSUME NEW A, A \subseteq DataIds
      PROVE  /\ IsFiniteSet(A) /\ Cardinality(A) \in Nat /\ Cardinality(A) <= urbs
             /\ Cardinality(A) = urbs => A = DataIds
  BY <1>2, <1>3, <1>4, FS_Subset, FS_CardinalityType
<1> QED
  BY <1>1, <1>2, <1>3, <1>4

LEMMA LimitIsOne ==
    ASSUME OwnInv, limit # <<>>
    PROVE  limit[1] \in Nat /\ limit = <<limit[1]>>
<1> PICK n : n = Len(limit)
  OBVIOUS
<1>1. limit \in Seq(Nat) /\ n <= 1
  BY ClientAssumption DEF OwnInv
<1>2. Len(limit) = 1 /\ limit[1] \in Nat
  <2>1. n # 0 /\ n \in Nat
    BY <1>1, EmptySeq
  <2>2. n = 1
    BY <1>1, <2>1
  <2> QED
    BY <1>1, <2>2, ElementOfSeq
<1>3. \A i \in 1 .. 1 : limit[i] = <<limit[1]>>[i]
  BY OneElement
<1> QED
  BY <1>1, <1>2, <1>3, SeqEqual

\* What is counted grows by one, and the last answer is followed by the detach.
LEMMA CountsOne ==
    ASSUME OwnInv, NEW A, A \subseteq DataIds, dataResponses \in Nat,
           dataResponses + 1 <= Cardinality(A), limit # <<>> => urbs <= limit[1],
           CountDataResponse
    PROVE  /\ dataResponses' \in Nat /\ dataResponses' <= Cardinality(A)
           /\ cPc' # "inject" /\ ~Early'
           /\ detachSent' /\ ~detachSent => urbs = limit[1] /\ A = DataIds
           /\ detachSent => detachSent'
<1>1. urbs \in Nat /\ Cardinality(A) \in Nat /\ Cardinality(A) <= urbs
      /\ (Cardinality(A) = urbs => A = DataIds)
  BY UrbCount
<1>2. dataResponses' = dataResponses + 1
  BY DEF CountDataResponse
<1>3. cPc' # "inject" /\ ~Early'
  BY DEF CountDataResponse, Sending, Stay, Early
<1>4. detachSent => detachSent'
  BY DEF CountDataResponse
<1>5. ASSUME detachSent', ~detachSent
      PROVE  urbs = limit[1] /\ A = DataIds
  <2>1. limit = <<dataResponses + 1>>
    BY <1>5 DEF CountDataResponse
  <2>2. limit # <<>> /\ limit[1] = dataResponses + 1
    BY <2>1, OneElement
  <2> QED
    BY <1>1, <2>2
<1> QED
  BY <1>1, <1>2, <1>3, <1>4, <1>5

\* An answer the client reads: what is answered then.
LEMMA ReadsAnswer ==
    ASSUME TypeInv, NEW x, delivered' = Append(delivered, x), UNCHANGED urbs
    PROVE  /\ DataIds' = DataIds
           /\ AnsweredUrbs' = AnsweredUrbs
                \union (IF x.kind = "Response" /\ x.id \in DataIds THEN {x.id} ELSE {})
           /\ \A k : Answered(k) => Answered(k)'
<1>1. DataIds' = DataIds
  BY DEF DataIds
<1> PICK n : n = Len(delivered)
  OBVIOUS
<1>2. /\ \A m \in 1 .. n : m \in 1 .. Len(delivered') /\ delivered'[m] = delivered[m]
      /\ n + 1 \in 1 .. Len(delivered') /\ delivered'[n + 1] = x
      /\ \A m \in 1 .. Len(delivered') : m \in 1 .. n \/ m = n + 1
  <2>1. delivered \in Seq(Response)
    BY DEF TypeInv, TypeOK
  <2> HIDE DEF Response
  <2> QED
    BY <2>1
<1>3. \A id : (\E m \in 1 .. Len(delivered') : delivered'[m].kind = "Response" /\ delivered'[m].id = id)
        <=> \/ \E m \in 1 .. n : delivered[m].kind = "Response" /\ delivered[m].id = id
            \/ x.kind = "Response" /\ x.id = id
  BY <1>2
<1>4. \A id : id \in AnsweredUrbs' <=> id \in DataIds
                /\ \/ \E m \in 1 .. n : delivered[m].kind = "Response" /\ delivered[m].id = id
                   \/ x.kind = "Response" /\ x.id = id
  BY <1>1, <1>3 DEF AnsweredUrbs
<1>5. \A id : id \in AnsweredUrbs <=> id \in DataIds
                /\ \E m \in 1 .. n : delivered[m].kind = "Response" /\ delivered[m].id = id
  BY DEF AnsweredUrbs
<1>6. \A k : Answered(k) => Answered(k)'
  BY <1>2 DEF Answered, ControlId
<1> QED
  BY <1>1, <1>4, <1>5, <1>6

\* The answer to a URB is the first to it, and is there to be counted.
LEMMA ReadsTransfer ==
    ASSUME OwnInv, IdsInv, TypeInv, Speaks, ControlInv, AccountedOnce, EchoOrder, CountInv,
           cPc = "select", net # <<>>, Head(net).kind = "Response",
           delivered' = Append(delivered, Head(net)), UNCHANGED urbs
    PROVE  /\ Head(net).id \in DataIds /\ DataIds' = DataIds
           /\ AnsweredUrbs' = AnsweredUrbs \union {Head(net).id}
           /\ AnsweredUrbs' \subseteq DataIds
           /\ dataResponses + 1 <= Cardinality(AnsweredUrbs')
           /\ ~detachSent
           /\ \A k \in 1 .. step : Answered(k)'
<1> PICK x : x = Head(net)
  OBVIOUS
<1>1. x.id \in DataIds
  BY LoopReadsUrbs
<1>2. x.id \notin AnsweredUrbs
  <2> SUFFICES ASSUME x.id \in AnsweredUrbs
               PROVE  FALSE
    OBVIOUS
  <2>1. PICK m \in 1 .. Len(delivered) : delivered[m].kind = "Response" /\ delivered[m].id = x.id
    BY DEF AnsweredUrbs
  <2> QED
    BY <2>1, NextAnswer
<1>3. /\ DataIds' = DataIds
      /\ AnsweredUrbs' = AnsweredUrbs \union {x.id}
      /\ \A k : Answered(k) => Answered(k)'
  BY <1>1, ReadsAnswer
<1>4. AnsweredUrbs \subseteq DataIds /\ AnsweredUrbs \union {x.id} \subseteq DataIds
  BY <1>1 DEF AnsweredUrbs
<1>5. Cardinality(AnsweredUrbs \union {x.id}) = Cardinality(AnsweredUrbs) + 1
  BY <1>2, <1>4, UrbCount, FS_AddElement
<1>6. dataResponses + 1 <= Cardinality(AnsweredUrbs \union {x.id})
  <2>1. dataResponses \in Nat /\ dataResponses <= Cardinality(AnsweredUrbs)
    BY DEF CountInv
  <2>2. Cardinality(AnsweredUrbs) \in Nat
    BY <1>4, UrbCount
  <2> QED
    BY <1>5, <2>1, <2>2
<1>7. ~detachSent
  BY <1>1, <1>2 DEF CountInv, Settled
<1>8. \A k \in 1 .. step : Answered(k)
  BY DEF ControlInv, InLoop
<1> QED
  BY <1>1, <1>3, <1>4, <1>6, <1>7, <1>8

\* A step that reads no answer and makes no URB.
LEMMA CountStays ==
    ASSUME OwnInv, CountInv, UNCHANGED <<delivered, urbs, step, limit>>,
           UNCHANGED <<dataResponses, detachSent, pending>>,
           cPc' = "inject" => cPc = "inject", Early' => Early
    PROVE  CountInv'
<1>1. DataIds' = DataIds /\ AnsweredUrbs' = AnsweredUrbs /\ \A k : Answered(k)' <=> Answered(k)
  BY DEF DataIds, AnsweredUrbs, Answered, ControlId
<1>2. Settled' <=> Settled
  BY <1>1 DEF Settled
<1>3. Cardinality(AnsweredUrbs)' = Cardinality(AnsweredUrbs)
  BY <1>1
<1>4. Cardinality(AnsweredUrbs) \in Nat
  BY UrbCount DEF AnsweredUrbs
<1>5. /\ dataResponses' \in Nat
      /\ dataResponses' + (IF cPc' = "inject" THEN 1 ELSE 0) <= Cardinality(AnsweredUrbs)'
  BY <1>3, <1>4 DEF CountInv
<1> QED
  BY <1>1, <1>2, <1>5 DEF CountInv

\* Before the loop there is nothing to count.
LEMMA EarlyCounts ==
    ASSUME OwnInv, TypeInv, Placed, CountInv, AwaitAttach \/ AwaitControl
    PROVE  CountInv'
<1>1. /\ Early /\ delivered' = Append(delivered, Head(net))
      /\ UNCHANGED <<urbs, dataResponses, detachSent, pending>> /\ cPc' # "inject"
  BY DEF AwaitAttach, AwaitControl, Receives, ClientRead, deviceVars, countVars, Early, RequestStep,
         Sending, Stay
<1>2. urbs = 0 /\ ~detachSent
  BY <1>1 DEF CountInv, Placed
<1>3. DataIds = {} /\ DataIds' = {}
  BY <1>1, <1>2 DEF DataIds
<1>4. AnsweredUrbs = {} /\ AnsweredUrbs' = {}
  BY <1>3 DEF AnsweredUrbs
<1>5. dataResponses \in Nat /\ dataResponses <= Cardinality(AnsweredUrbs) /\ pending = {}
  BY <1>1, <1>3 DEF CountInv, Early
<1>6. Cardinality(AnsweredUrbs)' = Cardinality(AnsweredUrbs)
  BY <1>4
<1> QED
  BY <1>1, <1>2, <1>3, <1>4, <1>5, <1>6 DEF CountInv

\* The loop takes the answer to a URB.
LEMMA TransferCounts ==
    ASSUME OwnInv, IdsInv, TypeInv, Speaks, ControlInv, AccountedOnce, EchoOrder, CountInv,
           FailedTransfer \/ GoodTransfer
    PROVE  CountInv'
<1> PICK x, A, D : x = Head(net) /\ A = AnsweredUrbs' /\ D = DataIds
  OBVIOUS
<1>1. /\ cPc = "select" /\ net # <<>> /\ x.kind = "Response" /\ delivered' = Append(delivered, x)
      /\ UNCHANGED <<urbs, step, limit>> /\ pending' = pending \ {x.id}
  BY DEF FailedTransfer, GoodTransfer, Receives, ClientRead, deviceVars, configVars
<1>2. /\ x.id \in D /\ DataIds' = D /\ A = AnsweredUrbs \union {x.id} /\ A \subseteq D
      /\ dataResponses + 1 <= Cardinality(A) /\ ~detachSent
      /\ \A k \in 1 .. step : Answered(k)'
  BY <1>1, ReadsTransfer
<1>3. pending' \subseteq D \ A /\ dataResponses \in Nat
  BY <1>1, <1>2 DEF CountInv
<1>4. Cardinality(A) \in Nat
  BY <1>2, UrbCount
<1>5. CASE CountDataResponse
  <2>1. /\ dataResponses' \in Nat /\ dataResponses' <= Cardinality(A)
        /\ cPc' # "inject" /\ ~Early'
        /\ detachSent' => urbs = limit[1] /\ A = D
    BY <1>2, <1>3, <1>5, CountsOne DEF IdsInv
  <2>2. detachSent' => Settled'
    BY <1>1, <1>2, <2>1 DEF Settled
  <2> QED
    BY <1>2, <1>3, <2>1, <2>2 DEF CountInv
<1>6. CASE UNCHANGED <<dataResponses, detachSent>> /\ cPc' \in {"inject", "select"}
  <2>1. ~Early'
    BY <1>6 DEF Early
  <2>2. dataResponses' \in Nat
        /\ dataResponses' + (IF cPc' = "inject" THEN 1 ELSE 0) <= Cardinality(A)
    BY <1>2, <1>3, <1>4, <1>6
  <2> QED
    BY <1>2, <1>3, <1>6, <2>1, <2>2 DEF CountInv
<1> QED
  BY <1>5, <1>6 DEF FailedTransfer, GoodTransfer, Stay

\* What was injected is counted.
LEMMA InjectCounts ==
    ASSUME OwnInv, IdsInv, ControlInv, CountInv, Inject
    PROVE  CountInv'
<1> PICK A, D : A = AnsweredUrbs /\ D = DataIds
  OBVIOUS
<1>1. /\ cPc = "inject" /\ CountDataResponse
      /\ UNCHANGED <<delivered, urbs, step, limit, pending>>
  BY DEF Inject, vars, clientVars, deviceVars, configVars
<1>2. DataIds' = D /\ AnsweredUrbs' = A /\ A \subseteq D /\ \A k : Answered(k)' <=> Answered(k)
  BY <1>1 DEF DataIds, AnsweredUrbs, Answered, ControlId
<1>3. dataResponses \in Nat /\ dataResponses + 1 <= Cardinality(A) /\ pending' \subseteq D \ A
  BY <1>1 DEF CountInv
<1>4. /\ dataResponses' \in Nat /\ dataResponses' <= Cardinality(A)
      /\ cPc' # "inject" /\ ~Early'
      /\ detachSent' /\ ~detachSent => urbs = limit[1] /\ A = D
  BY <1>1, <1>2, <1>3, CountsOne DEF IdsInv
<1>5. \A k \in 1 .. step : Answered(k)
  BY <1>1 DEF ControlInv, InLoop
<1>6. detachSent' => Settled'
  <2>1. CASE detachSent
    BY <1>1, <1>2, <2>1 DEF CountInv, Settled
  <2>2. CASE ~detachSent
    BY <1>1, <1>2, <1>4, <1>5, <2>2 DEF Settled
  <2> QED
    BY <2>1, <2>2
<1> QED
  BY <1>2, <1>3, <1>4, <1>6 DEF CountInv

\* Other frames are not counted: there is no answer to a cancel among them.
LEMMA OtherCounts ==
    ASSUME OwnInv, TypeInv, Speaks, CountInv, DetachAnswered \/ OtherFrame
    PROVE  CountInv'
<1> PICK x : x = Head(net)
  OBVIOUS
<1>1. /\ cPc = "select" /\ net # <<>> /\ x.kind # "Response" /\ delivered' = Append(delivered, x)
      /\ UNCHANGED <<urbs, step, limit, pending>>
  BY DEF DetachAnswered, OtherFrame, Receives, ClientRead, deviceVars, configVars, countVars
<1>2. x.kind # "CancelResponse"
  <2>1. net \in Seq(Said)
    BY DEF Speaks, Carries
  <2> HIDE DEF Said
  <2>2. x \in Said
    BY <1>1, <2>1, HeadTailProperties
  <2>3. x.kind = "CancelResponse" =>
            x.of \in 1 .. Len(received) /\ received[x.of].type = "CancelRequest"
    BY <2>2 DEF Said, Says
  <2>4. \A n \in 1 .. Len(received) : received[n] \in OwnFrames
    BY ElementOfSeq DEF OwnInv
  <2> QED
    BY <2>3, <2>4, OwnKinds
<1>3. UNCHANGED <<dataResponses, detachSent>> /\ cPc' \in {"leave", "select"}
  BY <1>2 DEF DetachAnswered, OtherFrame, Stay, countVars
<1>4. /\ DataIds' = DataIds /\ AnsweredUrbs' = AnsweredUrbs
      /\ \A k : Answered(k) => Answered(k)'
  BY <1>1, ReadsAnswer
<1>5. detachSent' => Settled'
  BY <1>1, <1>3, <1>4 DEF CountInv, Settled
<1>6. ~Early'
  BY <1>3 DEF Early
<1>7. Cardinality(AnsweredUrbs)' = Cardinality(AnsweredUrbs) /\ Cardinality(AnsweredUrbs) \in Nat
  BY <1>4, UrbCount DEF AnsweredUrbs
<1>8. /\ dataResponses' \in Nat
      /\ dataResponses' + (IF cPc' = "inject" THEN 1 ELSE 0) <= Cardinality(AnsweredUrbs)'
  BY <1>1, <1>3, <1>7 DEF CountInv
<1> QED
  BY <1>1, <1>4, <1>5, <1>6, <1>8 DEF CountInv

\* An answer read is the answer to a frame that was received.
LEMMA DeliveredSays ==
    ASSUME Speaks, NEW m \in 1 .. Len(delivered), delivered[m].kind = "Response"
    PROVE  /\ delivered[m].of \in 1 .. Len(received)
           /\ received[delivered[m].of].id = delivered[m].id
<1>1. delivered \in Seq(Said)
  BY DEF Speaks, Carries
<1> HIDE DEF Said
<1>2. delivered[m] \in Said
  BY <1>1, ElementOfSeq
<1> QED
  BY <1>2 DEF Said, Says

\* The frames received are the first of those sent, then come those on their way.
LEMMA ReceivedSent ==
    ASSUME OwnInv
    PROVE  \A n \in 1 .. Len(received) : n \in 1 .. Len(SentFrames) /\ SentFrames[n] = received[n]
<1> DEFINE F == received \o up
<1>1. /\ received \in Seq(OwnFrames) /\ up \in Seq(OwnFrames) /\ F \in Seq(OwnFrames)
      /\ Sends \in Seq(OwnFrames) /\ SentFrames = F \o Sends
  BY FramesSent DEF OwnInv
<1>2. \A n \in 1 .. Len(received) : n \in 1 .. Len(F) /\ F[n] = received[n]
  BY <1>1
<1> HIDE DEF F
<1>3. \A n \in 1 .. Len(F) : n \in 1 .. Len(SentFrames) /\ SentFrames[n] = F[n]
  BY <1>1
<1> QED
  BY <1>2, <1>3

LEMMA UpSent ==
    ASSUME OwnInv, NEW i \in 1 .. Len(up)
    PROVE  /\ Len(received) + i \in 1 .. Len(SentFrames)
           /\ SentFrames[Len(received) + i] = up[i]
           /\ Len(received) \in Nat /\ Len(received) + i > Len(received)
<1> DEFINE F == received \o up
<1>1. /\ received \in Seq(OwnFrames) /\ up \in Seq(OwnFrames) /\ F \in Seq(OwnFrames)
      /\ Sends \in Seq(OwnFrames) /\ SentFrames = F \o Sends
  BY FramesSent DEF OwnInv
<1>2. Len(received) + i \in 1 .. Len(F) /\ F[Len(received) + i] = up[i]
  BY <1>1
<1>3. Len(received) \in Nat /\ Len(received) + i > Len(received)
  BY <1>1
<1> HIDE DEF F
<1>4. \A n \in 1 .. Len(F) : n \in 1 .. Len(SentFrames) /\ SentFrames[n] = F[n]
  BY <1>1
<1> QED
  BY <1>2, <1>3, <1>4

\* The loop takes a URB, which nobody can have answered.
LEMMA TakenUrb ==
    ASSUME OwnInv, IdsInv, Speaks, txq # <<>>
    PROVE  Head(txq) \in DataIds \ AnsweredUrbs
<1> PICK id : id = Head(txq)
  OBVIOUS
<1>1. 1 \in 1 .. Len(txq) /\ txq[1] = id
  <2>1. txq \in Seq(UrbIds)
    BY DEF OwnInv
  <2> QED
    BY <2>1
<1>2. id \in DataIds
  BY <1>1 DEF IdsInv
<1>3. ASSUME id \in AnsweredUrbs
      PROVE  FALSE
  <2>1. PICK m \in 1 .. Len(delivered) : delivered[m].kind = "Response" /\ delivered[m].id = id
    BY <1>3 DEF AnsweredUrbs
  <2>2. PICK n \in 1 .. Len(received) : received[n].id = id
    BY <2>1, DeliveredSays
  <2>3. n \in 1 .. Len(SentFrames) /\ SentFrames[n] = received[n]
    BY ReceivedSent
  <2>4. PrecedesId(SentFrames[n], id)
    BY <1>1, <2>3 DEF IdsInv, Apart
  <2> QED
    BY <2>2, <2>3, <2>4 DEF PrecedesId
<1> QED
  BY <1>2, <1>3

\* The device makes a URB: the detach has not been sent.
LEMMA UrbCounts ==
    ASSUME OwnInv, CountInv, IdsInv, DeviceUrb
    PROVE  CountInv'
<1>1. /\ InLoop /\ (limit # <<>> => urbs < limit[1]) /\ urbs' = urbs + 1
      /\ UNCHANGED <<delivered, cPc, cThen, dataResponses, detachSent, pending>>
  BY DEF DeviceUrb, vars, clientVars, clientPlace, countVars
<1>2. urbs \in Nat
  BY UrbCount
<1>3. ~detachSent
  BY <1>1, <1>2 DEF IdsInv, CountInv, Settled
<1>4. DataIds \subseteq DataIds'
  BY <1>1, <1>2 DEF DataIds
<1>5. AnsweredUrbs \subseteq AnsweredUrbs' /\ AnsweredUrbs' \intersect DataIds = AnsweredUrbs
  BY <1>1, <1>4 DEF AnsweredUrbs
<1>6. pending' \subseteq DataIds' \ AnsweredUrbs'
  BY <1>1, <1>4, <1>5 DEF CountInv
<1>7. ~Early'
  BY <1>1 DEF InLoop, Early
<1>8. Cardinality(AnsweredUrbs) <= Cardinality(AnsweredUrbs')
      /\ Cardinality(AnsweredUrbs) \in Nat /\ Cardinality(AnsweredUrbs') \in Nat
  <2>2. urbs' \in Nat /\ FirstDataId \in Nat
    BY <1>1, <1>2, Counts
  <2>3. IsFiniteSet(DataIds')
    <3>1. DataIds' = DataIds \union {FirstDataId + urbs}
      <4>1. 0 .. urbs' - 1 = (0 .. urbs - 1) \union {urbs}
        BY <1>1, <1>2
      <4> QED
        BY <4>1 DEF DataIds
    <3> QED
      BY <3>1, UrbCount, FS_AddElement
  <2>4. IsFiniteSet(AnsweredUrbs')
    BY <2>3, FS_Subset DEF AnsweredUrbs
  <2> QED
    BY <1>5, <2>4, FS_Subset, FS_CardinalityType
<1>9. /\ dataResponses' \in Nat
      /\ dataResponses' + (IF cPc' = "inject" THEN 1 ELSE 0) <= Cardinality(AnsweredUrbs')
  BY <1>1, <1>8 DEF CountInv
<1> QED
  BY <1>1, <1>3, <1>6, <1>7, <1>9 DEF CountInv

LEMMA NextCount ==
    ASSUME OwnInv, IdsInv, TypeInv, EnumInv, ControlInv, AccountedOnce, EchoOrder,
           CountInv, [SystemNext]_systemVars
    PROVE  CountInv'
<1>1. Speaks /\ Placed
  BY DEF EnumInv
<1>2. CASE AwaitAttach \/ AwaitControl
  BY <1>1, <1>2, EarlyCounts
<1>3. CASE FailedTransfer \/ GoodTransfer
  BY <1>1, <1>3, TransferCounts
<1>4. CASE Inject
  BY <1>4, InjectCounts
<1>5. CASE DetachAnswered \/ OtherFrame
  BY <1>1, <1>5, OtherCounts
<1>6. CASE DeviceUrb
  BY <1>6, UrbCounts
<1>7. CASE TakeUrb
  <2> PICK id : id = Head(txq)
    OBVIOUS
  <2>1. /\ txq # <<>> /\ UNCHANGED <<delivered, urbs, step, limit, dataResponses, detachSent>>
        /\ pending' \in {pending, pending \union {id}} /\ cPc' = "send" /\ cThen' = "select"
    BY <1>7 DEF TakeUrb, Sending, vars, clientVars, configVars
  <2>2. id \in DataIds \ AnsweredUrbs
    BY <1>1, <2>1, TakenUrb
  <2>3. DataIds' = DataIds /\ AnsweredUrbs' = AnsweredUrbs /\ \A k : Answered(k)' <=> Answered(k)
    BY <2>1 DEF DataIds, AnsweredUrbs, Answered, ControlId
  <2>4. ~Early'
    BY <2>1 DEF Early
  <2>5. detachSent' => Settled'
    BY <2>1, <2>3 DEF CountInv, Settled
  <2>6. Cardinality(AnsweredUrbs)' = Cardinality(AnsweredUrbs) /\ Cardinality(AnsweredUrbs) \in Nat
    BY <2>3, UrbCount DEF AnsweredUrbs
  <2>7. /\ dataResponses' \in Nat
        /\ dataResponses' + (IF cPc' = "inject" THEN 1 ELSE 0) <= Cardinality(AnsweredUrbs)'
    BY <2>1, <2>6 DEF CountInv
  <2>8. pending' \subseteq DataIds' \ AnsweredUrbs'
    BY <2>1, <2>2, <2>3 DEF CountInv
  <2> QED
    BY <2>4, <2>5, <2>7, <2>8 DEF CountInv
<1>8. CASE Connect \/ ClientSend \/ ClientSendError \/ ClientEof \/ Leave
  <2>1. /\ UNCHANGED <<delivered, urbs, step, limit, dataResponses, detachSent, pending>>
        /\ cPc' # "inject" /\ (Early' => Early)
    BY <1>8 DEF Connect, ClientSend, ClientSendError, ClientEof, Leave, Sending, Stay, Early, OwnInv,
                vars, clientVars, configVars, deviceVars, countVars, ClientClose
  <2> QED
    BY <2>1, CountStays
<1>9. CASE VhciProcessed \/ LinkBreaks
  <2>1. UNCHANGED <<delivered, urbs, step, limit, dataResponses, detachSent, pending, cPc, cThen>>
    BY <1>9 DEF VhciProcessed, LinkBreaks, vars, clientVars, configVars, deviceVars, countVars,
                clientPlace, ClientClose
  <2> QED
    BY <2>1, CountStays DEF Early
<1>10. CASE DaemonReads \/ DaemonStep \/ DaemonWorker \/ UNCHANGED systemVars
  <2>1. UNCHANGED <<urbs, step, limit, dataResponses, detachSent, pending, cPc, cThen>>
    BY <1>10 DEF DaemonReads, DaemonStep, DaemonWorker, systemVars, clientOwn, configVars, deviceVars,
                 countVars, clientPlace
  <2>2. delivered' = delivered
    BY <1>10 DEF DaemonReads, DaemonStep, DaemonWorker, systemVars, vars, clientVars,
       HandleFrame, HandleAttach, HandleDetach, HandleCancel, HandleReset, RefuseRequest,
       HandleControl, InjectOutcome, QueueRequest, IgnoreFrame, ReadError, Receive,
       SessionStep, ReadEof, FlushTransfer, FlushDone, TakeFromChannel, SendFrame, SendError,
       Cleanup, Join, Worker, WorkerCheck, WorkerPoll, WorkerSend
  <2> QED
    BY <2>1, <2>2, CountStays DEF Early
<1> QED
  BY <1>2, <1>3, <1>4, <1>5, <1>6, <1>7, <1>8, <1>9, <1>10 DEF SystemNext, ClientTask

LEMMA InitCount == SystemInit => CountInv
<1> SUFFICES ASSUME SystemInit
             PROVE  CountInv
  OBVIOUS
<1>1. cPc = "connect" /\ urbs = 0 /\ dataResponses = 0 /\ detachSent = FALSE /\ pending = {}
  BY DEF SystemInit, ClientInit
<1>2. Cardinality(AnsweredUrbs) \in Nat
  BY InitOwn, UrbCount DEF AnsweredUrbs
<1> QED
  BY <1>1, <1>2 DEF CountInv

\* Every request sent has an answer that the client has read.
LEMMA AllAnswered ==
    ASSUME OwnInv, IdsInv, Settled, detachSent,
           NEW g \in FramesOf(SentFrames), g.type = "Request"
    PROVE  \E m \in 1 .. Len(delivered) :
                delivered[m].kind = "Response" /\ delivered[m].id = g.id
<1>1. g \in OwnFrames /\ Known(g.id) /\ Due(g)
  <2>1. PICK i \in 1 .. Len(SentFrames) : g = SentFrames[i]
    BY DEF FramesOf
  <2>2. g \in OwnFrames
    BY <2>1, FramesSent, ElementOfSeq
  <2> QED
    BY <2>1, <2>2 DEF IdsInv, Ids
<1>2. CASE IsData(g)
  BY <1>1, <1>2 DEF Due, Settled, AnsweredUrbs
<1>3. CASE ~IsData(g)
  <2>1. PICK k \in 1 .. Len(Enumeration) : g = ControlRequest(ControlId(k), Enumeration[k])
    BY <1>1, <1>3, OwnKinds
  <2>2. g.id = ControlId(k) /\ k \in 1 .. 5 /\ k \in Nat /\ ControlId(k) = k + 1
    BY <2>1, Counts DEF ControlRequest
  <2>3. g.id \notin DataIds /\ g.id # DetachId
    <3>1. limit[1] \in Nat /\ FirstDataId = 7 /\ urbs \in Nat
      BY Counts, LimitIsOne, UrbCount DEF IdsInv
    <3> QED
      BY <2>2, <3>1 DEF DetachId, DataIds
  <2>4. g.id \in 1 .. ControlId(step)
    BY <1>1, <2>3 DEF Known
  <2>5. step \in Nat /\ ControlId(step) = step + 1
    <3>1. step \in Nat
      <4>1. step \in 0 .. Len(Enumeration)
        BY DEF OwnInv
      <4>2. Len(Enumeration) = 5
        BY Counts
      <4> QED
        BY ONLY <4>1, <4>2
    <3> QED
      BY <3>1, Counts
  <2>6. k \in 1 .. step
    BY <2>2, <2>4, <2>5
  <2> QED
    BY <2>2, <2>6 DEF Settled, Answered
<1> QED
  BY <1>2, <1>3

\* A request the daemon has received, when all is answered: its answer was read.
LEMMA AnswerRead ==
    ASSUME OwnInv, IdsInv, Speaks, Settled, detachSent, NEW n \in DataRequests
    PROVE  \E m \in 1 .. Len(delivered) : <<1, m>> \in AnswersTo(n)
<1>1. n \in 1 .. Len(received) /\ received[n].type = "Request"
  BY DEF DataRequests
<1>2. received[n] \in FramesOf(SentFrames)
  BY <1>1, ReceivedSent DEF FramesOf
<1>3. PICK m \in 1 .. Len(delivered) :
            delivered[m].kind = "Response" /\ delivered[m].id = received[n].id
  BY <1>1, <1>2, AllAnswered
<1>4. delivered[m].of \in 1 .. Len(received) /\ received[delivered[m].of].id = received[n].id
  BY <1>3, DeliveredSays
<1>5. delivered[m].of = n
  BY <1>1, <1>4, ReceivedApart
<1>6. Places[1] = delivered
  BY DEF Places
<1>7. <<1, m>> \in Spots /\ At(<<1, m>>) = delivered[m]
  BY <1>6 DEF Spots, At, RxPlace
<1> QED
  BY <1>3, <1>5, <1>7 DEF AnswersTo

\* So nothing is on its way any more.
LEMMA NothingInFlight ==
    ASSUME OwnInv, IdsInv, SessionInv, Speaks, Relays, AccountedOnce, CountInv, detachSent
    PROVE  ~InFlight
<1>1. Settled
  BY DEF CountInv
<1>2. txq = <<>>
  <2>1. ASSUME txq # <<>>
        PROVE  FALSE
    <3>1. Head(txq) \in DataIds \ AnsweredUrbs
      BY <2>1, TakenUrb
    <3> QED
      BY <1>1, <3>1 DEF Settled
  <2> QED
    BY <2>1
<1>3. pending = {}
  BY <1>1 DEF CountInv, Settled
<1>4. ASSUME NEW n \in DataRequests
      PROVE  /\ \A s \in AnswersTo(n) : s[1] \in 2 .. 5 => FALSE
             /\ QueuedFor(n) = {}
             /\ backend # "mapped" => \A s \in AnswersTo(n) : s[1] \in 2 .. 7 => FALSE
  <2>1. PICK m \in 1 .. Len(delivered) : <<1, m>> \in AnswersTo(n)
    BY <1>1, AnswerRead
  <2>2. <<1, m>> \in {s \in AnswersTo(n) : s[1] < TxPlace} /\ <<1, m>>[1] = 1
    BY <2>1 DEF TxPlace
  <2>3. OneOf({s \in AnswersTo(n) : s[1] < TxPlace}) /\ QueuedFor(n) = {}
    BY <2>2 DEF AccountedOnce
  <2>4. backend # "mapped" => OneOf(AnswersTo(n))
    BY DEF AccountedOnce
  <2>5. ASSUME NEW s \in AnswersTo(n), s[1] \in 2 .. 5
        PROVE  FALSE
    <3>1. s \in {r \in AnswersTo(n) : r[1] < TxPlace}
      BY <2>5 DEF TxPlace
    <3>2. s = <<1, m>>
      BY <2>2, <2>3, <3>1 DEF OneOf
    <3> QED
      BY <2>2, <2>5, <3>2
  <2>6. ASSUME backend # "mapped", NEW s \in AnswersTo(n), s[1] \in 2 .. 7
        PROVE  FALSE
    <3>1. s = <<1, m>>
      BY <2>1, <2>4, <2>6 DEF OneOf
    <3> QED
      BY <2>2, <2>6, <3>1
  <2> QED
    BY <2>3, <2>5, <2>6
<1>5. ASSUME NEW p \in {4, 5}, Places[p] # <<>>, Places[p] \in Seq(Said), Places[p] \in Seq(Relayed)
      PROVE  FALSE
  <2> PICK a : a = Places[p][1]
    OBVIOUS
  <2> HIDE DEF Said, Relayed
  <2>1. a \in Said /\ a \in Relayed /\ 1 \in 1 .. Len(Places[p])
    BY <1>5, HeadTailProperties, ElementOfSeq
  <2>2. a.kind = "Response" /\ a.of \in DataRequests
    BY <2>1 DEF Relayed, Said, Says, DataRequests
  <2>3. <<p, 1>> \in Spots /\ At(<<p, 1>>) = a /\ <<p, 1>>[1] = p
    BY <2>1 DEF Spots, At, RxPlace
  <2>4. <<p, 1>> \in AnswersTo(a.of) /\ <<p, 1>>[1] \in 2 .. 5
    BY <2>2, <2>3 DEF AnswersTo
  <2> QED
    BY <1>4, <2>2, <2>4
<1>6. chan = <<>> /\ wFrame = <<>>
  <2>1. Places[4] = chan /\ Places[5] = wFrame
    BY DEF Places
  <2> QED
    BY <1>5, <2>1 DEF Speaks, Carries, Relays
<1>7. ASSUME backend # "mapped", NEW ring \in Seq(AskedFor), NEW p \in {6, 7}, Places[p] = Echoes(ring),
             ring # <<>>
      PROVE  FALSE
  <2> PICK f : f = ring[1]
    OBVIOUS
  <2> HIDE DEF AskedFor
  <2>1. f \in AskedFor /\ 1 \in 1 .. Len(ring)
    BY <1>7, HeadTailProperties, ElementOfSeq
  <2>2. f.tag \in DataRequests
    BY <2>1 DEF AskedFor, Asked, DataRequests
  <2>3. 1 \in 1 .. Len(Places[p]) /\ Places[p][1] = Echo(f)
    BY <1>7, <2>1 DEF Echoes
  <2>4. <<p, 1>> \in Spots /\ At(<<p, 1>>) = Echo(f)
    BY <2>3 DEF Spots, At, RxPlace
  <2>5. Echo(f).kind = "Response" /\ Echo(f).of = f.tag
    BY DEF Echo
  <2>6. <<p, 1>> \in AnswersTo(f.tag) /\ <<p, 1>>[1] \in 2 .. 7
    BY <2>4, <2>5 DEF AnswersTo
  <2> QED
    BY <1>4, <1>7, <2>2, <2>6
<1>8. backend # "mapped" => rx = <<>> /\ tx = <<>>
  <2>1. Places[6] = Echoes(tx) /\ Places[7] = Echoes(rx)
    BY DEF Places
  <2>2. rx \in Seq(AskedFor) /\ tx \in Seq(AskedFor)
    BY DEF Speaks, Carries
  <2> HIDE DEF AskedFor
  <2> QED
    BY <1>7, <2>1, <2>2
<1>9. epq.len = 0
  <2>1. CASE Drained(epq)
    BY <2>1 DEF Drained, Queues
  <2>2. ASSUME NEW f, HoldsFrame(epq, f)
        PROVE  FALSE
    <3>1. f.tag \in DataRequests
      BY <2>2 DEF Speaks, Carries, AskedFor, Asked, DataRequests
    <3>2. PICK k, t : t.frame = f /\ epq.queues = [j \in {k} |-> <<t>>]
      BY <2>2 DEF HoldsFrame, Queues
    <3>3. DOMAIN epq.queues = {k} /\ Len(epq.queues[k]) = 1 /\ epq.queues[k][1].frame.tag = f.tag
      BY <3>2, OneElement
    <3>4. 1 \in {j \in 1 .. Len(epq.queues[k]) : epq.queues[k][j].frame.tag = f.tag}
      BY <3>3
    <3>5. <<k, 1>> \in QueuedFor(f.tag)
      BY <3>3, <3>4 DEF QueuedFor
    <3> QED
      BY <1>4, <3>1, <3>5
  <2>3. Drained(epq) \/ \E f : HoldsFrame(epq, f)
    BY DEF SessionInv, QueuesInv, HoldsOne
  <2> QED
    BY <2>1, <2>2, <2>3
<1>10. ASSUME NEW i \in 1 .. Len(up), up[i].type = "Request"
       PROVE  FALSE
  <2> PICK j : j = Len(received) + i
    OBVIOUS
  <2>1. /\ j \in 1 .. Len(SentFrames) /\ SentFrames[j] = up[i] /\ j > Len(received)
        /\ Len(received) \in Nat
    BY UpSent
  <2>2. up[i] \in FramesOf(SentFrames)
    BY <2>1 DEF FramesOf
  <2>3. PICK m \in 1 .. Len(delivered) : delivered[m].kind = "Response" /\ delivered[m].id = up[i].id
    BY <1>1, <1>10, <2>2, AllAnswered
  <2>4. PICK n \in 1 .. Len(received) : received[n].id = up[i].id
    BY <2>3, DeliveredSays
  <2>5. n \in 1 .. Len(SentFrames) /\ SentFrames[n] = received[n] /\ n < j
    BY <2>1, <2>4, ReceivedSent
  <2>6. Precedes(SentFrames[n], SentFrames[j])
    BY <2>1, <2>5 DEF IdsInv, Apart
  <2> QED
    BY <2>1, <2>4, <2>5, <2>6 DEF Precedes
<1> QED
  BY <1>2, <1>3, <1>6, <1>8, <1>9, <1>10 DEF InFlight

\* A detach is on its way only when the client has sent one.
LEMMA DetachWasSent ==
    ASSUME OwnInv, IdsInv, DetachOnItsWay
    PROVE  detachSent
<1>1. ASSUME NEW f \in FramesOf(SentFrames), f.type = "DetachRequest"
      PROVE  detachSent
  BY <1>1 DEF IdsInv, Due
<1>2. \A i \in 1 .. Len(received) : received[i] \in FramesOf(SentFrames)
  BY ReceivedSent DEF FramesOf
<1>3. \A i \in 1 .. Len(up) : up[i] \in FramesOf(SentFrames)
  BY UpSent DEF FramesOf
<1>4. \A i \in 1 .. Len(cOut) : cPc = "send" => cOut[i] \in FramesOf(SentFrames)
  <2> SUFFICES ASSUME NEW i \in 1 .. Len(cOut), cPc = "send"
               PROVE  cOut[i] \in FramesOf(SentFrames)
    OBVIOUS
  <2> DEFINE F == received \o up
  <2>1. Sends = cOut /\ SentFrames = F \o cOut /\ F \in Seq(OwnFrames) /\ cOut \in Seq(OwnFrames)
    BY FramesSent DEF Sends
  <2> HIDE DEF F
  <2>2. Len(F) + i \in 1 .. Len(SentFrames) /\ SentFrames[Len(F) + i] = cOut[i]
    BY <2>1
  <2> QED
    BY <2>2 DEF FramesOf
<1> QED
  BY <1>1, <1>2, <1>3, <1>4 DEF DetachOnItsWay

\* The invariant of the client and the daemon together.
LEMMA AlwaysCounted ==
    SystemSpec => [](/\ OwnInv /\ IdsInv /\ SessionInv /\ EnumInv /\ AccountedOnce
                     /\ CountInv /\ TakenInv /\ Relays)
<1>1. SystemSpec => [](AccountedOnce /\ EchoOrder)
  BY ClientIsAClient, RequestsAccounted, EchoesInOrder, PTL
<1>2. SystemInit => ControlInv /\ TakenInv /\ CountInv /\ Relays
  BY InitTaken, InitCount, NoFrames DEF SystemInit, Init, Relays
<1>3. /\ OwnInv /\ IdsInv /\ TypeInv /\ SessionInv /\ EnumInv /\ AccountedOnce /\ EchoOrder
      /\ ControlInv /\ TakenInv /\ CountInv /\ Relays /\ [SystemNext]_systemVars
      => ControlInv' /\ TakenInv' /\ CountInv' /\ Relays'
  <2> SUFFICES ASSUME OwnInv, IdsInv, TypeInv, SessionInv, EnumInv, AccountedOnce, EchoOrder,
                      ControlInv, TakenInv, CountInv, Relays, [SystemNext]_systemVars
               PROVE  ControlInv' /\ TakenInv' /\ CountInv' /\ Relays'
    OBVIOUS
  <2>1. SessionStep \/ Worker \/ Client \/ UNCHANGED vars \/ \E f : HandleFrame(f)
    BY StepIsSession DEF Next
  <2>2. Speaks
    BY DEF EnumInv
  <2> QED
    BY <2>1, <2>2, KeepsControl, KeepsTaken, NextCount, KeepsRelays
<1> QED
  BY <1>1, <1>2, <1>3, AlwaysEnum, PTL DEF SystemSpec

\* The client detaches only when every URB of its device was answered and nothing
\* is under way, in either program, although it compares two numbers: for every
\* limit, driver, fault and interleaving (session.rs:113-123).
THEOREM DetachesAfterAnswers == SystemSpec => []DetachAfterAnswers
<1>1. OwnInv /\ IdsInv /\ SessionInv /\ EnumInv /\ AccountedOnce /\ CountInv /\ Relays
      => DetachAfterAnswers
  <2> SUFFICES ASSUME OwnInv, IdsInv, SessionInv, EnumInv, AccountedOnce, CountInv, Relays,
                      DetachOnItsWay
               PROVE  ~InFlight /\ <<urbs>> = limit
    BY DEF DetachAfterAnswers
  <2>1. detachSent /\ Speaks
    BY DetachWasSent DEF EnumInv
  <2>2. ~InFlight
    BY <2>1, NothingInFlight
  <2>3. urbs = limit[1] /\ limit # <<>> /\ limit \in Limits
    BY <2>1 DEF CountInv, Settled, IdsInv, OwnInv
  <2>4. limit = <<limit[1]>>
    BY <2>3, LimitIsOne
  <2> QED
    BY <2>2, <2>3, <2>4
<1> QED
  BY <1>1, AlwaysCounted, PTL

-----------------------------------------------------------------------------
(* The types of the client's variables                                     *)

\* What the client holds to send or to inject, and the room in its channels and
\* in the connection.
RoomInv ==
    /\ Len(cOut) = (IF cPc \in {"send", "inject"} THEN 1 ELSE 0)
    /\ failed \in BOOLEAN /\ detachSent \in BOOLEAN /\ linkLost \in BOOLEAN
    /\ Len(plan) <= 1
    /\ Len(txq) <= TxCap
    /\ vhciChan \in Seq(Nat) /\ Len(vhciChan) <= VhciCap
    /\ Len(up) <= UpCap

LEMMA Moves ==
    /\ \A f, then : Sending(f, then) => Len(cOut') = 1 /\ cPc' = "send"
    /\ \A pc : Stay(pc) => Len(cOut') = 0 /\ cPc' = pc
    /\ CountDataResponse =>
        /\ Len(cOut') = (IF cPc' \in {"send", "inject"} THEN 1 ELSE 0)
        /\ detachSent \in BOOLEAN => detachSent' \in BOOLEAN
<1>1. \A f, then : Sending(f, then) => Len(cOut') = 1 /\ cPc' = "send"
  BY OneElement DEF Sending
<1>2. \A pc : Stay(pc) => Len(cOut') = 0 /\ cPc' = pc
  BY DEF Stay
<1>3. CountDataResponse =>
        /\ Len(cOut') = (IF cPc' \in {"send", "inject"} THEN 1 ELSE 0)
        /\ detachSent \in BOOLEAN => detachSent' \in BOOLEAN
  <2> SUFFICES ASSUME CountDataResponse
               PROVE  /\ Len(cOut') = (IF cPc' \in {"send", "inject"} THEN 1 ELSE 0)
                      /\ detachSent \in BOOLEAN => detachSent' \in BOOLEAN
    OBVIOUS
  <2>1. CASE Sending(Lifecycle("DetachRequest", DetachId), "select") /\ detachSent'
    BY <1>1, <2>1
  <2>2. CASE Stay("select") /\ UNCHANGED detachSent
    BY <1>2, <2>2
  <2> QED
    BY <2>1, <2>2 DEF CountDataResponse
<1> QED
  BY <1>1, <1>2, <1>3

\* A plan has at most one request.
LEMMA OnePlan == \A probe : Len(AttachPlan(probe)) <= 1
<1> SUFFICES ASSUME NEW probe
             PROVE  Len(AttachPlan(probe)) <= 1
  OBVIOUS
<1> DEFINE port == probe.ports[FirstFreePort(probe)]
           request == [port |-> port.port, speed |-> DefaultAttachSpeed(port)]
<1>1. AttachPlan(probe) = <<>> \/ AttachPlan(probe) = <<request>>
  BY DEF AttachPlan
<1> HIDE DEF request
<1>2. CASE AttachPlan(probe) = <<>>
  <2>1. Len(<<>>) = 0
    OBVIOUS
  <2> QED
    BY <1>2, <2>1
<1>3. CASE AttachPlan(probe) = <<request>>
  <2>1. Len(<<request>>) = 1
    BY OneElement
  <2> QED
    BY <1>3, <2>1
<1> QED
  BY <1>1, <1>2, <1>3

LEMMA Capacities == TxCap \in Nat /\ VhciCap \in Nat /\ UpCap \in Nat /\ MaxUrbs \in Nat
BY ClientAssumption

LEMMA KeepsRoom ==
    ASSUME OwnInv, TakenInv, RoomInv, [SystemNext]_systemVars
    PROVE  RoomInv'
<1>1. CASE Connect
  <2>1. plan' = <<>> \/ plan' = AttachPlan(vhci[1])
    BY <1>1 DEF Connect
  <2>2. Len(plan') <= 1
    BY <2>1, OnePlan
  <2>3. Len(cOut') = 1 /\ cPc' = "send"
    BY <1>1, Moves DEF Connect
  <2> QED
    BY <1>1, <2>2, <2>3 DEF Connect, RoomInv, deviceVars, countVars
<1>2. CASE ClientSend
  <2>1. /\ cPc = "send" /\ cPc' = cThen /\ cOut' = <<>> /\ (DaemonGone \/ Len(up) < UpCap)
        /\ UNCHANGED <<failed, detachSent, linkLost, plan, txq, vhciChan>>
        /\ up' = IF DaemonGone THEN up ELSE up \o cOut
    BY <1>2 DEF ClientSend, configVars, deviceVars, countVars
  <2>2. up \in Seq(OwnFrames) /\ cOut \in Seq(OwnFrames) /\ Len(cOut) = 1
        /\ cThen \in {"handshake", "control", "select"}
    BY <2>1 DEF OwnInv
  <2>3. Len(up \o cOut) = Len(up) + 1 /\ Len(up) \in Nat
    <3>1. Len(up \o cOut) = Len(up) + Len(cOut)
      BY <2>2, ConcatProperties
    <3>2. Len(up) \in Nat
      BY <2>2, LenProperties
    <3> QED
      BY <2>2, <3>1, <3>2
  <2>4. Len(up') <= UpCap
    BY <2>1, <2>3, Capacities DEF RoomInv
  <2>5. Len(cOut') = 0
    BY <2>1
  <2>6. cPc' \notin {"send", "inject"}
    BY <2>1, <2>2
  <2> QED
    BY <2>1, <2>4, <2>5, <2>6 DEF RoomInv
<1>3. CASE ClientSendError \/ ClientEof
  <2>1. /\ cPc' = "leave" /\ cOut' = <<>>
        /\ UNCHANGED <<detachSent, linkLost, plan, txq, vhciChan, up>>
    BY <1>3 DEF ClientSendError, ClientEof, Stay, configVars, deviceVars, countVars
  <2>2. failed' \in BOOLEAN
    BY <1>3 DEF ClientSendError, ClientEof
  <2>3. Len(<<>>) = 0
    OBVIOUS
  <2> QED
    BY <2>1, <2>2, <2>3 DEF RoomInv
<1>4. CASE AwaitAttach \/ AwaitControl
  <2>1. UNCHANGED <<detachSent, linkLost, plan, txq, vhciChan, up>>
    BY <1>4 DEF AwaitAttach, AwaitControl, Receives, configVars, deviceVars, countVars
  <2>2. failed' = failed \/ failed' = TRUE
    BY <1>4 DEF AwaitAttach, AwaitControl
  <2>3. (\E k : RequestStep(k)) \/ \E pc \in {"handshake", "control", "leave", "select"} : Stay(pc)
    BY <1>4 DEF AwaitAttach, AwaitControl
  <2>4. Len(cOut') = (IF cPc' \in {"send", "inject"} THEN 1 ELSE 0)
    BY <2>3, Moves DEF RequestStep
  <2> QED
    BY <2>1, <2>2, <2>4 DEF RoomInv
<1>5. CASE FailedTransfer \/ GoodTransfer \/ DetachAnswered \/ OtherFrame
  <2>1. UNCHANGED <<failed, linkLost, plan, txq, vhciChan, up>>
    BY <1>5 DEF FailedTransfer, GoodTransfer, DetachAnswered, OtherFrame, Receives, configVars, deviceVars
  <2>2. \/ CountDataResponse
        \/ detachSent' = detachSent
           /\ \/ cOut' = <<>> /\ cPc' \in {"select", "leave"}
              \/ cOut' = <<Head(net)>> /\ cPc' = "inject"
    <3>1. CASE FailedTransfer
      BY <3>1 DEF FailedTransfer
    <3>2. CASE GoodTransfer
      BY <3>2 DEF GoodTransfer, countVars, Stay
    <3>3. CASE DetachAnswered
      BY <3>3 DEF DetachAnswered, countVars, Stay
    <3>4. CASE OtherFrame
      BY <3>4 DEF OtherFrame, Stay
    <3> QED
      BY <1>5, <3>1, <3>2, <3>3, <3>4
  <2>3. cOut' = <<Head(net)>> => Len(cOut') = 1
    BY OneElement
  <2>4. cOut' = <<>> => Len(cOut') = 0
    OBVIOUS
  <2>5. Len(cOut') = (IF cPc' \in {"send", "inject"} THEN 1 ELSE 0) /\ detachSent' \in BOOLEAN
    BY <2>2, <2>3, <2>4, Moves DEF RoomInv
  <2> QED
    BY <2>1, <2>5 DEF RoomInv
<1>6. CASE Inject
  <2>1. /\ UNCHANGED <<failed, linkLost, plan, txq, up>> /\ CountDataResponse
        /\ cPc = "inject" /\ Len(vhciChan) < VhciCap /\ vhciChan' = Append(vhciChan, cOut[1].id)
    BY <1>6 DEF Inject, configVars, deviceVars
  <2>2. vhciChan \in Seq(Nat) /\ cOut[1].id \in Nat
    BY <2>1 DEF RoomInv, TakenInv
  <2>3. vhciChan' \in Seq(Nat) /\ Len(vhciChan') = Len(vhciChan) + 1 /\ Len(vhciChan) \in Nat
    BY <2>1, <2>2, AppendProperties
  <2>4. Len(vhciChan') <= VhciCap
    BY <2>1, <2>3, Capacities
  <2> QED
    BY <2>1, <2>3, <2>4, Moves DEF RoomInv
<1>7. CASE TakeUrb
  <2>1. /\ UNCHANGED <<failed, detachSent, linkLost, plan, vhciChan, up>> /\ txq # <<>> /\ txq' = Tail(txq)
        /\ Len(cOut') = 1 /\ cPc' = "send"
    BY <1>7, Moves DEF TakeUrb, configVars
  <2>2. Len(txq') <= Len(txq) /\ Len(txq) \in Nat
    BY <2>1 DEF OwnInv
  <2> QED
    BY <2>1, <2>2, Capacities DEF RoomInv
<1>8. CASE VhciProcessed
  <2>1. /\ UNCHANGED <<cPc, cOut, failed, detachSent, linkLost, plan, txq, up>>
        /\ vhciChan # <<>> /\ vhciChan' = Tail(vhciChan)
    BY <1>8 DEF VhciProcessed, clientPlace, configVars, deviceVars, countVars
  <2>2. vhciChan' \in Seq(Nat) /\ Len(vhciChan') <= Len(vhciChan) /\ Len(vhciChan) \in Nat
    BY <2>1 DEF RoomInv
  <2> QED
    BY <2>1, <2>2, Capacities DEF RoomInv
<1>9. CASE DeviceUrb
  <2>1. /\ UNCHANGED <<cPc, cOut, failed, detachSent, linkLost, plan, vhciChan, up>>
        /\ Len(txq) < TxCap /\ txq' = Append(txq, FirstDataId + urbs)
    BY <1>9 DEF DeviceUrb, clientPlace, configVars, countVars
  <2>2. Len(txq') = Len(txq) + 1 /\ Len(txq) \in Nat
    BY <2>1 DEF OwnInv
  <2>3. Len(txq') <= TxCap
    BY <2>1, <2>2, Capacities
  <2> QED
    BY <2>1, <2>3 DEF RoomInv
<1>10. CASE Leave
  <2>1. /\ UNCHANGED <<failed, detachSent, linkLost, plan, txq, vhciChan>>
        /\ up' \in {up, <<>>} /\ cPc' = "closed" /\ Len(cOut') = 0
    BY <1>10, Moves DEF Leave, configVars, deviceVars, countVars
  <2>2. Len(<<>>) = 0
    OBVIOUS
  <2> QED
    BY <2>1, <2>2, Capacities DEF RoomInv
<1>11. CASE LinkBreaks
  <2>1. /\ UNCHANGED <<cPc, cOut, failed, detachSent, plan, txq, vhciChan>>
        /\ up' \in {up, <<>>} /\ linkLost' = TRUE
    BY <1>11 DEF LinkBreaks, clientPlace, configVars, deviceVars, countVars
  <2>2. Len(<<>>) = 0
    OBVIOUS
  <2> QED
    BY <2>1, <2>2, Capacities DEF RoomInv
<1>12. CASE DaemonReads
  <2>1. /\ UNCHANGED <<cPc, cOut, failed, detachSent, linkLost, plan, txq, vhciChan>>
        /\ up # <<>> /\ up' = Tail(up)
    BY <1>12 DEF DaemonReads, clientPlace, configVars, deviceVars, countVars
  <2>2. Len(up') <= Len(up) /\ Len(up) \in Nat
    BY <2>1 DEF OwnInv
  <2> QED
    BY <2>1, <2>2, Capacities DEF RoomInv
<1>13. CASE DaemonStep \/ DaemonWorker \/ UNCHANGED systemVars
  <2>1. UNCHANGED <<cPc, cOut, failed, detachSent, linkLost, plan, txq, vhciChan, up>>
    BY <1>13 DEF DaemonStep, DaemonWorker, systemVars, clientOwn, clientPlace, configVars, deviceVars,
                 countVars
  <2> QED
    BY <2>1 DEF RoomInv
<1> QED
  BY <1>1, <1>2, <1>3, <1>4, <1>5, <1>6, <1>7, <1>8, <1>9, <1>10, <1>11, <1>12, <1>13
     DEF SystemNext, ClientTask

LEMMA InitRoom == SystemInit => RoomInv
<1> SUFFICES ASSUME SystemInit
             PROVE  RoomInv
  OBVIOUS
<1>1. /\ cPc = "connect" /\ cOut = <<>> /\ failed = FALSE /\ detachSent = FALSE /\ linkLost = FALSE
      /\ plan = <<>> /\ txq = <<>> /\ vhciChan = <<>> /\ up = <<>>
  BY DEF SystemInit, ClientInit
<1>2. Len(<<>>) = 0 /\ <<>> \in Seq(Nat)
  OBVIOUS
<1>3. FALSE \in BOOLEAN /\ 0 <= TxCap /\ 0 <= VhciCap /\ 0 <= UpCap
  BY Capacities
<1>4. Len(cOut) = (IF cPc \in {"send", "inject"} THEN 1 ELSE 0) /\ Len(plan) <= 1
  BY <1>1, <1>2
<1>5. Len(txq) <= TxCap /\ Len(up) <= UpCap /\ Len(vhciChan) <= VhciCap /\ vhciChan \in Seq(Nat)
  BY <1>1, <1>2, <1>3
<1>6. failed \in BOOLEAN /\ detachSent \in BOOLEAN /\ linkLost \in BOOLEAN
  BY <1>1
<1> QED
  BY <1>4, <1>5, <1>6, Zenon DEF RoomInv

\* What the two invariants say of the types.
LEMMA ClientTyped ==
    ASSUME OwnInv, IdsInv, CountInv, TakenInv, RoomInv
    PROVE  ClientTypeOK
<1>1. urbs \in 0 .. MaxUrbs /\ urbs \in Nat /\ MaxUrbs \in Nat /\ urbs <= MaxUrbs
  BY Capacities DEF OwnInv
<1>2. dataResponses \in 0 .. MaxUrbs
  <2>1. AnsweredUrbs \subseteq DataIds
    BY DEF AnsweredUrbs
  <2>2. Cardinality(AnsweredUrbs) \in Nat /\ Cardinality(AnsweredUrbs) <= urbs
    BY <2>1, UrbCount
  <2>3. dataResponses \in Nat /\ dataResponses <= Cardinality(AnsweredUrbs)
    BY <2>2 DEF CountInv
  <2> QED
    BY <1>1, <2>2, <2>3
<1>3. pending \subseteq FirstDataId .. FirstDataId + MaxUrbs
  <2>1. \A n \in 0 .. urbs - 1 : FirstDataId + n \in FirstDataId .. FirstDataId + MaxUrbs
    BY <1>1, Counts
  <2>2. DataIds \subseteq FirstDataId .. FirstDataId + MaxUrbs
    BY <2>1 DEF DataIds
  <2> QED
    BY <2>2 DEF CountInv
<1>4. txq \in Seq(Nat)
  <2>1. txq \in Seq(UrbIds) /\ UrbIds \subseteq Nat
    BY UrbFacts DEF OwnInv
  <2> QED
    BY <2>1, SeqGrows
<1>5. {failed, detachSent, linkLost} \subseteq BOOLEAN
  BY Zenon DEF RoomInv
<1>6. /\ cPc \in {"connect", "send", "handshake", "control", "select", "inject", "leave", "closed"}
      /\ cThen \in {"handshake", "control", "select"} /\ step \in 0 .. Len(Enumeration)
      /\ limit \in Limits /\ urbSize \in UrbSizes
  BY DEF OwnInv, Labels
<1>7. injected \in Seq(Nat)
  BY DEF TakenInv
<1>8. /\ Len(cOut) = (IF cPc \in {"send", "inject"} THEN 1 ELSE 0) /\ Len(plan) <= 1
      /\ Len(txq) <= TxCap /\ vhciChan \in Seq(Nat) /\ Len(vhciChan) <= VhciCap /\ Len(up) <= UpCap
  BY DEF RoomInv
<1> QED
  BY <1>1, <1>2, <1>3, <1>4, <1>5, <1>6, <1>7, <1>8, Zenon DEF ClientTypeOK

\* The client's variables have their types, its channels and the connection are
\* never filled beyond their capacity, and it counts no more answers than its
\* device made URBs (session.rs:60-125).
THEOREM ClientTypeCorrect == SystemSpec => []ClientTypeOK
<1>1. OwnInv /\ TakenInv /\ RoomInv /\ [SystemNext]_systemVars => RoomInv'
  BY KeepsRoom
<1>2. OwnInv /\ IdsInv /\ CountInv /\ TakenInv /\ RoomInv => ClientTypeOK
  BY ClientTyped
<1> QED
  BY <1>1, <1>2, AlwaysCounted, InitRoom, PTL DEF SystemSpec

-----------------------------------------------------------------------------
(* The port planned for the kernel                                         *)

\* A port is free whose line says so in its fifth, sixth and seventh words.
Unused(line) == Len(line) >= 7 /\ <<line[5], line[6], line[7]>> = <<0, 0, "0-0">>

\* What the lines of a table parse to.
Parsed(lines) == {Port(lines[j]) : j \in {k \in 1 .. Len(lines) : Parses(lines[k])}}

LEMMA TableParsed ==
    ASSUME NEW lines, Len(lines) \in Nat
    PROVE  ParseStatus(lines) \in Seq(Parsed(lines))
<1> DEFINE L == Len(lines)
           s == [i \in 1 .. L |-> IF Parses(lines[i]) THEN <<Port(lines[i])>> ELSE <<>>]
           P == Parsed(lines)
           flat == CHOOSE g : g = [i \in 1 .. L |-> IF i = 1 THEN s[i] ELSE g[i - 1] \o s[i]]
<1>1. ASSUME NEW i \in 1 .. L
      PROVE  s[i] \in Seq(P) /\ Len(s[i]) <= 1
  <2>1. CASE Parses(lines[i])
    <3>1. Port(lines[i]) \in P
      BY <2>1 DEF Parsed
    <3>2. s[i] = <<Port(lines[i])>>
      BY <2>1
    <3> HIDE DEF s, P
    <3>3. \A x \in P : <<x>> \in Seq(P) /\ Len(<<x>>) = 1
      OBVIOUS
    <3> QED
      BY <3>1, <3>2, <3>3
  <2>2. CASE ~Parses(lines[i])
    <3>1. s[i] = <<>>
      BY <2>2
    <3> HIDE DEF s, P
    <3>2. <<>> \in Seq(P) /\ Len(<<>>) = 0
      OBVIOUS
    <3> QED
      BY <3>1, <3>2
  <2> QED
    BY <2>1, <2>2
<1>2. s \in Seq(Seq(P)) /\ Len(s) = L
  <2>1. s = [i \in 1 .. L |-> s[i]]
    OBVIOUS
  <2> HIDE DEF s, P
  <2> QED
    BY <1>1, <2>1
<1>3. ParseStatus(lines) = IF L = 0 THEN s ELSE flat[L]
  <2>1. ParseStatus(lines) = Ext!FlattenSeq(s)
    BY DEF ParseStatus
  <2> HIDE DEF s
  <2>2. Ext!FlattenSeq(s) = IF L = 0 THEN s ELSE flat[L]
    BY <1>2 DEF Ext!FlattenSeq
  <2> QED
    BY <2>1, <2>2
<1> HIDE DEF s, P
<1>4. FlattensTo(s, L, flat)
  <2>1. \E g : FlattensTo(s, L, g)
    BY FlattensExist
  <2> QED
    BY <2>1 DEF FlattensTo
<1> HIDE DEF flat
<1>5. FlatIs(s, ParseStatus(lines))
  BY <1>2, <1>3, <1>4 DEF FlatIs
<1>6. Bounded(ParseStatus(lines), P, 1, Len(s))
  BY <1>1, <1>2, <1>5, FlatBounded
<1> QED
  BY <1>6 DEF Bounded, P

\* first_free_port: a port of the table that is free.
LEMMA FreeOrNone ==
    ASSUME NEW probe, NEW S, probe.ports \in Seq(S), FirstFreePort(probe) # 0
    PROVE  /\ probe.ports[FirstFreePort(probe)] \in S
           /\ IsFree(probe.ports[FirstFreePort(probe)])
<1> DEFINE I == {i \in 1 .. Len(probe.ports) : IsFree(probe.ports[i])}
<1>1. I # {} /\ FirstFreePort(probe) = Ext!Min(I)
  BY DEF FirstFreePort, Ext!SelectInSeq
<1>2. Ext!Min(I) \in I
  <2>1. I \in SUBSET Nat
    OBVIOUS
  <2> HIDE DEF I
  <2> QED
    BY <1>1, <2>1, MinExists DEF Ext!Min
<1>3. FirstFreePort(probe) \in 1 .. Len(probe.ports)
  BY <1>1, <1>2
<1> QED
  BY <1>1, <1>2, <1>3, ElementOfSeq

\* The plan names such a port, whatever else is in the table.
PlansUnused(request, system) ==
    \E j \in 1 .. Len(system.lines) :
        LET line == system.lines[j] IN
        /\ request = [port |-> line[2], speed |-> IF line[1] = "ss" THEN Super ELSE High]
        /\ Unused(line)

LEMMA PlanFacts ==
    ASSUME NEW system \in Systems, IsReady(Probe(system)),
           NEW i \in 1 .. Len(AttachPlan(Probe(system)))
    PROVE  PlansUnused(AttachPlan(Probe(system))[i], system)
<1> DEFINE probe == Probe(system)
           place == FirstFreePort(probe)
           free == probe.ports[place]
           request == [port |-> free.port, speed |-> DefaultAttachSpeed(free)]
           lines == system.lines
<1>1. probe.ports = ParseStatus(lines)
  BY DEF IsReady, Probe
<1>2. Len(lines) \in Nat
  BY SystemsAssumption
<1>3. probe.ports \in Seq(Parsed(lines))
  BY <1>1, <1>2, TableParsed
<1>4. place # 0 /\ AttachPlan(probe) = <<request>>
  <2>1. AttachPlan(probe) = IF place = 0 THEN <<>> ELSE <<request>>
    BY DEF AttachPlan
  <2> HIDE DEF request, place
  <2>2. AttachPlan(probe) # <<>>
    <3>1. Len(<<>>) = 0
      OBVIOUS
    <3> QED
      BY <3>1
  <2> QED
    BY <2>1, <2>2
<1>5. free \in Parsed(lines) /\ IsFree(free)
  BY <1>3, <1>4, FreeOrNone
<1>6. AttachPlan(probe)[i] = request
  <2> HIDE DEF request, probe
  <2>1. \A x : Len(<<x>>) = 1 /\ <<x>>[1] = x
    OBVIOUS
  <2>2. i = 1
    BY <1>4, <2>1 DEF probe
  <2> QED
    BY <1>4, <2>1, <2>2
<1> HIDE DEF place, probe, free
<1>7. PICK j \in 1 .. Len(lines) : Parses(lines[j]) /\ free = Port(lines[j])
  BY <1>5 DEF Parsed
<1> DEFINE line == lines[j]
<1>8. line[2] \in 0 .. PortNumbers - 1
  BY <1>7, SystemsAssumption
<1>9. line[2] % PortNumbers = line[2]
  <2>1. PortNumbers \in Nat \ {0}
    BY DEF PortNumbers
  <2>2. ASSUME NEW n \in 0 .. PortNumbers - 1
        PROVE  n % PortNumbers = n
    <3>1. PortNumbers * 0 + n = n
      BY <2>1
    <3>2. (PortNumbers * 0 + n) % PortNumbers = n
      BY <2>1, DivUnique
    <3> QED
      BY <3>1, <3>2
  <2> QED
    BY <1>8, <2>2
<1> HIDE DEF lines
<1>10. /\ free.port = line[2] /\ free.hub = line[1] /\ free.deviceId = line[5]
       /\ free.socketFd = line[6] /\ free.busId = (IF Len(line) >= 7 THEN line[7] ELSE "")
  <2> DEFINE number == line[2] % PortNumbers
             bus == IF Len(line) >= 7 THEN line[7] ELSE ""
  <2>1. free = [hub |-> line[1], port |-> number, deviceId |-> line[5], socketFd |-> line[6],
                busId |-> bus]
    BY <1>7 DEF Port
  <2> HIDE DEF number, bus, line
  <2>2. /\ free.port = number /\ free.hub = line[1] /\ free.deviceId = line[5]
        /\ free.socketFd = line[6] /\ free.busId = bus
    BY <2>1
  <2> QED
    BY <1>9, <2>2 DEF number, bus, line
<1>11. free.deviceId = 0 /\ free.socketFd = 0 /\ free.busId = "0-0"
  BY <1>5 DEF IsFree
<1>12. Unused(line)
  <2>1. Len(line) >= 7 /\ line[7] = "0-0"
    BY <1>10, <1>11
  <2> QED
    BY <1>10, <1>11, <2>1 DEF Unused
<1>13. request = [port |-> line[2], speed |-> IF line[1] = "ss" THEN Super ELSE High]
  BY <1>10 DEF DefaultAttachSpeed
<1> QED
  BY <1>6, <1>7, <1>12, <1>13 DEF PlansUnused, probe, lines

\* The backend is one of those that were probed, and so is what was planned for.
PlanInv ==
    /\ vhci # <<>> => \E system \in Systems : vhci = <<Probe(system)>> /\ IsReady(Probe(system))
    /\ plan # <<>> =>
        \E system \in Systems : IsReady(Probe(system)) /\ plan = AttachPlan(Probe(system))

LEMMA ConnectPlans ==
    ASSUME PlanInv, Connect
    PROVE  PlanInv'
<1>1. vhci' = vhci /\ plan' = IF vhci = <<>> THEN <<>> ELSE AttachPlan(vhci[1])
  BY DEF Connect
<1>2. CASE vhci = <<>>
  BY <1>1, <1>2 DEF PlanInv
<1>3. CASE vhci # <<>>
  <2>1. PICK system \in Systems : vhci = <<Probe(system)>> /\ IsReady(Probe(system))
    BY <1>3 DEF PlanInv
  <2>2. vhci[1] = Probe(system)
    BY <2>1, OneElement
  <2>3. plan' = AttachPlan(Probe(system))
    BY <1>1, <1>3, <2>2
  <2> QED
    BY <1>1, <2>1, <2>3 DEF PlanInv
<1> QED
  BY <1>2, <1>3

LEMMA KeepsPlan ==
    ASSUME PlanInv, [SystemNext]_systemVars
    PROVE  PlanInv'
<1>1. CASE ClientTask
  <2>1. CASE Connect
    BY <2>1, ConnectPlans
  <2>2. CASE ~Connect
    <3>1. UNCHANGED <<vhci, plan>>
      <4>1. CASE ClientSend \/ ClientSendError \/ ClientEof
        BY <4>1 DEF ClientSend, ClientSendError, ClientEof, configVars
      <4>2. CASE AwaitAttach \/ AwaitControl
        BY <4>2 DEF AwaitAttach, AwaitControl, Receives, configVars
      <4>3. CASE FailedTransfer \/ GoodTransfer \/ DetachAnswered \/ OtherFrame
        BY <4>3 DEF FailedTransfer, GoodTransfer, DetachAnswered, OtherFrame, Receives, configVars
      <4>4. CASE Inject \/ TakeUrb \/ VhciProcessed \/ Leave
        BY <4>4 DEF Inject, TakeUrb, VhciProcessed, Leave, configVars
      <4> QED
        BY <1>1, <2>2, <4>1, <4>2, <4>3, <4>4 DEF ClientTask
    <3> QED
      BY <3>1 DEF PlanInv
  <2> QED
    BY <2>1, <2>2
<1>2. CASE ~ClientTask
  <2>1. UNCHANGED <<vhci, plan>>
    <3>1. CASE DeviceUrb \/ LinkBreaks \/ DaemonReads
      BY <3>1 DEF DeviceUrb, LinkBreaks, DaemonReads, configVars
    <3>2. CASE DaemonStep \/ DaemonWorker \/ UNCHANGED systemVars
      BY <3>2 DEF DaemonStep, DaemonWorker, systemVars, clientOwn, configVars
    <3> QED
      BY <1>2, <3>1, <3>2 DEF SystemNext
  <2> QED
    BY <2>1 DEF PlanInv
<1> QED
  BY <1>1, <1>2

LEMMA InitPlan == SystemInit => PlanInv
<1> SUFFICES ASSUME ClientInit PROVE PlanInv
  BY DEF SystemInit
<1>1. plan = <<>>
  BY DEF ClientInit
<1>2. ASSUME vhci # <<>>
      PROVE  \E system \in Systems : vhci = <<Probe(system)>> /\ IsReady(Probe(system))
  <2>1. PICK system \in Systems : vhci = <<Probe(system)>>
    BY <1>2 DEF ClientInit
  <2>2. IsReady(vhci[1]) /\ vhci[1] = Probe(system)
    BY <1>2, <2>1, OneElement DEF ClientInit
  <2> QED
    BY <2>1, <2>2
<1> QED
  BY <1>1, <1>2 DEF PlanInv

\* The port that is planned is one that the probed table shows unused, and the
\* speed is its hub's, for any table with ports of 16 bits (vhci.rs:114-143).
THEOREM PlansUnusedPort == SystemSpec => []PlannedPort
<1>1. PlanInv => PlannedPort
  <2> SUFFICES ASSUME PlanInv, NEW i \in 1 .. Len(plan)
               PROVE  \E system \in Systems : PlansUnused(plan[i], system)
    BY DEF PlannedPort, PlansUnused, Unused
  <2>1. plan # <<>>
    <3>1. Len(<<>>) = 0
      OBVIOUS
    <3> QED
      BY <3>1
  <2>2. PICK system \in Systems : IsReady(Probe(system)) /\ plan = AttachPlan(Probe(system))
    BY <2>1 DEF PlanInv
  <2> QED
    BY <2>2, PlanFacts
<1>2. PlanInv /\ [SystemNext]_systemVars => PlanInv'
  BY KeepsPlan
<1> QED
  BY <1>1, <1>2, InitPlan, PTL DEF SystemSpec
=============================================================================
