---------------------------- MODULE ClientSession ----------------------------
(***************************************************************************)
(* The client (client/src/session.rs) and the daemon it is connected to.   *)
(*                                                                         *)
(* DaemonSession leaves its client open: any frame at any time.  Here the  *)
(* client is the program's own: it attaches, enumerates the mock keyboard, *)
(* relays the URBs of a local device, and detaches when it has counted as  *)
(* many answers as its limit allows.  Its task runs beside the task of the *)
(* local device and is joined to the daemon by the two directions of the   *)
(* connection: up and net.                                                 *)
(***************************************************************************)
EXTENDS DaemonSession, VhciPorts

CONSTANTS
    Limits,         \* mock_frame_limit: <<>> for none
    BulkPayloads,   \* does WHY_USB_MOCK_BULK_BYTES ask for checked payloads?
    UrbSizes,       \* sizes of the frames made of URBs (mock_bulk_payload_len)
    Systems,        \* what the Linux backend may find when it probes
    TxCap,          \* capacity of the device task's channel (100)
    VhciCap,        \* capacity of the mock VHCI's channel (100)
    UpCap,          \* what the connection buffers towards the daemon
    MaxUrbs         \* bound: URBs of the local device in a behaviour

ASSUME ClientAssumption ==
    /\ {TxCap, VhciCap, UpCap, MaxUrbs} \subseteq Nat
    /\ BulkPayloads \in BOOLEAN /\ UrbSizes \subseteq Nat
    /\ \A l \in Limits : l \in Seq(Nat) /\ Len(l) <= 1

\* The kernel numbers its ports in 16 bits.
ASSUME SystemsAssumption ==
    \A system \in Systems :
        /\ Len(system.lines) \in Nat
        /\ \A j \in 1 .. Len(system.lines) :
            Parses(system.lines[j]) => system.lines[j][2] \in 0 .. PortNumbers - 1

VARIABLES
    cPc,            \* where the client's task is
    cOut, cThen,    \* the frame it sends, and where it goes then
    step,           \* the control request it waits for in the enumeration
    failed,         \* run_client_session returns an error
    limit,          \* mock_frame_limit
    urbSize,        \* the size of every frame made of a URB
    vhci,           \* the Linux backend's probe, or <<>> for the mock backend
    plan,           \* history: the attach request prepared
    txq,            \* the channel from the device's task
    urbs,           \* sent_frames
    vhciChan,       \* the mock VHCI's channel
    pending,        \* the request ids in pending_bulk_payloads
    dataResponses, detachSent,
    up,             \* sent, not yet read by the daemon
    linkLost,       \* the connection broke under both
    injected        \* history: ids of the requests whose answers were injected

clientPlace == <<cPc, cOut, cThen, step, failed>>
configVars == <<limit, urbSize, vhci, plan>>
deviceVars == <<txq, urbs>>
countVars == <<pending, dataResponses, detachSent>>
clientOwn == <<clientPlace, configVars, deviceVars, vhciChan, countVars, up, linkLost, injected>>
systemVars == <<vars, clientOwn>>

-----------------------------------------------------------------------------
(* Frames                                                                  *)

Lifecycle(type, id) == [type |-> type, id |-> id, key |-> ControlKey, size |-> 1]

ControlRequest(id, setup) ==
    [type |-> "Request", id |-> id, key |-> ControlKey, size |-> 1, setup |-> <<setup>>]

\* mock_request and mock_bulk_request: a bulk transfer to endpoint 1.
DataRequest(id, size) == [type |-> "Request", id |-> id, key |-> 1, size |-> size]

\* run_mock_enumeration asks for the report descriptor at the length that the
\* descriptors of the attach give it.
EnumerationWrongInterface ==
    << Setup(GetDescriptor, 256 * Device, 0, 18),
       Setup(GetDescriptor, 256 * Configuration, 0, 255),
       Setup(GetDescriptor, 256 * Report, 1, DescriptorLen[Report]),
       Setup(SetAddress, 1, 0, 0),
       Setup(SetConfiguration, 1, 0, 0) >>

Enumeration ==
    << Setup(GetDescriptor, 256 * Device, 0, 18),
       Setup(GetDescriptor, 256 * Configuration, 0, 255),
       Setup(GetDescriptor, 256 * Report, 0, DescriptorLen[Report]),
       Setup(SetAddress, 1, 0, 0),
       Setup(SetConfiguration, 1, 0, 0) >>

AttachId == 1
ControlId(k) == AttachId + k
FirstDataId == ControlId(Len(Enumeration)) + 1

DetachIdOnLastUrb == FirstDataId + limit[1] - 1

\* detach_request_id, computed before the first URB; without a limit no detach
\* is ever sent.
DetachId == FirstDataId + limit[1]

\* The URBs of the local device, and all the frames this client sends.
UrbIds == {FirstDataId + n : n \in 0 .. MaxUrbs - 1}

OwnFrames ==
    {Lifecycle("AttachRequest", AttachId)}
      \union {ControlRequest(ControlId(k), Enumeration[k]) : k \in 1 .. Len(Enumeration)}
      \union {DataRequest(id, size) : id \in UrbIds, size \in UrbSizes}
      \union {Lifecycle("DetachRequest", FirstDataId + l[1]) : l \in Limits \ {<<>>}}

\* The daemon's session is made for clients that may send these.
ASSUME OwnFramesAssumption == OwnFrames \subseteq ClientFrames

\* The daemon's end of the connection is gone.
DaemonGone == peer = "closed" \/ sPc = "done"

-----------------------------------------------------------------------------
(* Connecting and sending                                                  *)

Sending(frame, then) == cOut' = <<frame>> /\ cThen' = then /\ cPc' = "send"

Stay(pc) == cPc' = pc /\ cOut' = <<>> /\ UNCHANGED cThen

\* connect_with_retry succeeds in the end; the attach plan is made from the
\* ports that were probed when the client started.
Connect ==
    /\ cPc = "connect"
    /\ plan' = IF vhci = <<>> THEN <<>> ELSE AttachPlan(vhci[1])
    /\ Sending(Lifecycle("AttachRequest", AttachId), "handshake")
    /\ UNCHANGED <<vars, step, failed, limit, urbSize, vhci, deviceVars, vhciChan, countVars, up,
                   linkLost, injected>>

\* framed.send: waits while the connection takes nothing; when the daemon is
\* gone it may still succeed, to no effect.
ClientSend ==
    /\ cPc = "send"
    /\ DaemonGone \/ Len(up) < UpCap
    /\ up' = IF DaemonGone THEN up ELSE up \o cOut
    /\ cPc' = cThen /\ cOut' = <<>> /\ UNCHANGED cThen
    /\ UNCHANGED <<vars, step, failed, configVars, deviceVars, vhciChan, countVars, linkLost,
                   injected>>

\* Before the session is attached a failed send is the client's error; later
\* it ends the loop.
ClientSendError ==
    /\ cPc = "send"
    /\ DaemonGone
    /\ cPc' = "leave" /\ cOut' = <<>> /\ UNCHANGED cThen
    /\ failed' = (cThen # "select")
    /\ UNCHANGED <<vars, step, configVars, deviceVars, vhciChan, countVars, up, linkLost, injected>>

-----------------------------------------------------------------------------
(* Reading                                                                 *)

\* The client takes the next frame from the connection.
Receives(pc) ==
    /\ cPc = pc
    /\ ClientRead
    /\ UNCHANGED <<configVars, deviceVars, up, linkLost>>

ClientEofRetried ==
    /\ cPc \in {"handshake", "control"}
    /\ DaemonGone /\ net = <<>>
    /\ Stay("leave")
    /\ failed' = TRUE
    /\ UNCHANGED <<vars, step, configVars, deviceVars, vhciChan, countVars, up, linkLost, injected>>

\* The connection ended, or a read failed: an error during the handshake and
\* the enumeration, the end of the loop later.
ClientEof ==
    /\ cPc \in {"handshake", "control", "select"}
    /\ DaemonGone /\ net = <<>>
    /\ Stay("leave")
    /\ failed' = (cPc # "select")
    /\ UNCHANGED <<vars, step, configVars, deviceVars, vhciChan, countVars, up, linkLost, injected>>

RequestStep(k) ==
    Sending(ControlRequest(ControlId(k), Enumeration[k]), "control") /\ step' = k

\* wait_for_lifecycle_response
AwaitAttach ==
    /\ Receives("handshake")
    /\ LET a == Head(net) IN
        IF a.kind # "AttachResponse" THEN Stay("handshake") /\ UNCHANGED <<step, failed>>
        ELSE IF a.status # "Ok" THEN Stay("leave") /\ failed' = TRUE /\ UNCHANGED step
        ELSE RequestStep(1) /\ UNCHANGED failed
    /\ UNCHANGED <<vhciChan, countVars, injected>>

\* The length of the data that the answer to a control request carries.
ControlData(a) == ControlResponse(received[a.of]).len

\* The report descriptor must be the one that came with the attach.
AsExpected(a) == step = 3 => ControlData(a) = DescriptorLen[Report]

\* send_control_request: what comes after the request was sent, and the next
\* step of the enumeration.
AwaitControl ==
    /\ Receives("control")
    /\ LET a == Head(net) IN
        IF a.kind # "Response" \/ a.id # ControlId(step)
        THEN Stay("control") /\ UNCHANGED <<step, failed>>
        ELSE IF a.status # "Ok" \/ ~AsExpected(a)
        THEN Stay("leave") /\ failed' = TRUE /\ UNCHANGED step
        ELSE IF step < Len(Enumeration) THEN RequestStep(step + 1) /\ UNCHANGED failed
        ELSE Stay("select") /\ UNCHANGED <<step, failed>>
    /\ UNCHANGED <<vhciChan, countVars, injected>>

-----------------------------------------------------------------------------
(* The select loop: handle_network_frame and what the loop makes of it     *)

\* NetworkFrameAction::DataResponse
CountBeforeIncrement ==
    /\ dataResponses' = dataResponses + 1
    /\ IF ~detachSent /\ limit = <<dataResponses>>
       THEN Sending(Lifecycle("DetachRequest", DetachId), "select") /\ detachSent' = TRUE
       ELSE Stay("select") /\ UNCHANGED detachSent

CountDataResponse ==
    /\ dataResponses' = dataResponses + 1
    /\ IF ~detachSent /\ limit = <<dataResponses + 1>>
       THEN Sending(Lifecycle("DetachRequest", DetachId), "select") /\ detachSent' = TRUE
       ELSE Stay("select") /\ UNCHANGED detachSent

\* An injected outcome is a failed transfer or a short one.
MaySucceed(a) == a.status \in {"Ok", "Injected"}
MayFail(a) == a.status # "Ok"

\* A failed transfer counts; nothing is injected.
FailedTransfer ==
    /\ Receives("select")
    /\ Head(net).kind = "Response" /\ MayFail(Head(net))
    /\ pending' = pending \ {Head(net).id}
    /\ CountDataResponse
    /\ UNCHANGED <<step, failed, vhciChan, injected>>

\* A transfer that succeeded goes to the VHCI, whether or not its payload is
\* the one that was sent.  The Linux backend takes none yet, and then the
\* answer does not count.
GoodTransfer ==
    /\ Receives("select")
    /\ Head(net).kind = "Response" /\ MaySucceed(Head(net))
    /\ pending' = pending \ {Head(net).id}
    /\ IF vhci = <<>> THEN cPc' = "inject" /\ cOut' = <<Head(net)>> /\ UNCHANGED cThen
       ELSE Stay("select")
    /\ UNCHANGED <<step, failed, vhciChan, dataResponses, detachSent, injected>>

\* inject_urb waits while the mock VHCI's channel is full.
Inject ==
    /\ cPc = "inject"
    /\ Len(vhciChan) < VhciCap
    /\ vhciChan' = Append(vhciChan, cOut[1].id)
    /\ injected' = Append(injected, cOut[1].id)
    /\ CountDataResponse
    /\ UNCHANGED <<vars, step, failed, configVars, deviceVars, pending, up, linkLost>>

\* A refused detach is logged: the client waits for the daemon to close.
DetachAnswered ==
    /\ Receives("select")
    /\ Head(net).kind = "DetachResponse"
    /\ Stay(IF Head(net).status = "Ok" THEN "leave" ELSE "select")
    /\ UNCHANGED <<step, failed, vhciChan, countVars, injected>>

OtherFrameCounts ==
    /\ Receives("select")
    /\ Head(net).kind \notin {"Response", "DetachResponse"}
    /\ CountDataResponse
    /\ UNCHANGED <<step, failed, vhciChan, pending, injected>>

\* Input reports and answers that nothing waits for.  A cancel's answer would
\* count as a transfer's, but this client sends no cancel.
OtherFrame ==
    /\ Receives("select")
    /\ Head(net).kind \notin {"Response", "DetachResponse"}
    /\ IF Head(net).kind = "CancelResponse" THEN CountDataResponse
       ELSE Stay("select") /\ UNCHANGED <<dataResponses, detachSent>>
    /\ UNCHANGED <<step, failed, vhciChan, pending, injected>>

-----------------------------------------------------------------------------
(* The select loop: the two channels                                       *)

\* A URB of the local device goes to the daemon.
TakeUrb ==
    /\ cPc = "select"
    /\ txq # <<>>
    /\ txq' = Tail(txq)
    /\ pending' = IF BulkPayloads THEN pending \union {Head(txq)} ELSE pending
    /\ Sending(DataRequest(Head(txq), urbSize), "select")
    /\ UNCHANGED <<vars, step, failed, configVars, urbs, vhciChan, dataResponses, detachSent, up,
                   linkLost, injected>>

\* The mock VHCI's end of its channel: the loop logs what it injected.
VhciProcessed ==
    /\ cPc = "select"
    /\ vhciChan # <<>>
    /\ vhciChan' = Tail(vhciChan)
    /\ UNCHANGED <<vars, clientPlace, configVars, deviceVars, countVars, up, linkLost, injected>>

InLoop == cPc \in {"select", "inject"} \/ (cPc = "send" /\ cThen = "select")

DeviceUrbUnbounded ==
    /\ InLoop
    /\ urbs < MaxUrbs
    /\ limit # <<>> => urbs < limit[1]
    /\ txq' = Append(txq, FirstDataId + urbs)
    /\ urbs' = urbs + 1
    /\ UNCHANGED <<vars, clientPlace, configVars, vhciChan, countVars, up, linkLost, injected>>

\* mock_local_usb_task: makes a frame after each interval, and waits while its
\* channel is full.  It lives as long as the loop.
DeviceUrb ==
    /\ InLoop
    /\ urbs < MaxUrbs
    /\ limit # <<>> => urbs < limit[1]
    /\ Len(txq) < TxCap
    /\ txq' = Append(txq, FirstDataId + urbs)
    /\ urbs' = urbs + 1
    /\ UNCHANGED <<vars, clientPlace, configVars, vhciChan, countVars, up, linkLost, injected>>

-----------------------------------------------------------------------------
(* The end                                                                 *)

\* The client returns and its end of the connection closes: frames it sent
\* are still read by the daemon, unless answers it left unread reset the
\* connection.
Leave ==
    /\ cPc = "leave"
    /\ Stay("closed")
    /\ IF peer = "open" THEN ClientClose ELSE UNCHANGED vars
    /\ up' \in (IF net = <<>> THEN {up} ELSE {up, <<>>})
    /\ UNCHANGED <<step, failed, configVars, deviceVars, vhciChan, countVars, linkLost, injected>>

\* The connection breaks: what is on its way may be lost.
LinkBreaks ==
    /\ peer = "open" /\ cPc # "connect" /\ sPc # "done"
    /\ ClientClose
    /\ up' \in {up, <<>>}
    /\ linkLost' = TRUE
    /\ UNCHANGED <<clientPlace, configVars, deviceVars, vhciChan, countVars, injected>>

-----------------------------------------------------------------------------
ClientInit ==
    /\ cPc = "connect" /\ cOut = <<>> /\ cThen = "handshake" /\ step = 0 /\ failed = FALSE
    /\ limit \in Limits /\ urbSize \in UrbSizes
    /\ vhci \in {<<>>} \union {<<Probe(system)>> : system \in Systems}
    /\ vhci # <<>> => IsReady(vhci[1])
    /\ plan = <<>>
    /\ txq = <<>> /\ urbs = 0 /\ vhciChan = <<>>
    /\ pending = {} /\ dataResponses = 0 /\ detachSent = FALSE
    /\ up = <<>> /\ linkLost = FALSE /\ injected = <<>>

ClientTask ==
    \/ Connect \/ ClientSend \/ ClientSendError \/ ClientEof
    \/ AwaitAttach \/ AwaitControl
    \/ FailedTransfer \/ GoodTransfer \/ Inject \/ DetachAnswered \/ OtherFrame
    \/ TakeUrb \/ VhciProcessed \/ Leave

\* The daemon reads the frames in the order in which the client sent them,
\* and the end of the connection after the last.
DaemonReads ==
    /\ up # <<>>
    /\ HandleFrame(Head(up))
    /\ up' = Tail(up)
    /\ UNCHANGED <<clientPlace, configVars, deviceVars, vhciChan, countVars, linkLost, injected>>

DaemonStep ==
    /\ SessionStep
    /\ sPc = "select" /\ sPc' = "cleanup" => up = <<>>
    /\ UNCHANGED clientOwn

DaemonWorker == Worker /\ UNCHANGED clientOwn

SystemInit == Init /\ ClientInit

SystemNext ==
    \/ ClientTask \/ DeviceUrb \/ LinkBreaks
    \/ DaemonReads \/ DaemonStep \/ DaemonWorker

SystemSpec == SystemInit /\ [][SystemNext]_systemVars

\* Every task takes its next step when it can; the link need not break.
SystemFairness ==
    /\ WF_systemVars(ClientTask) /\ WF_systemVars(DeviceUrb)
    /\ WF_systemVars(DaemonReads \/ DaemonStep) /\ WF_systemVars(DaemonWorker)

SystemLive == SystemSpec /\ SystemFairness
-----------------------------------------------------------------------------
(* Properties                                                              *)

ClientTypeOK ==
    /\ cPc \in {"connect", "send", "handshake", "control", "select", "inject", "leave", "closed"}
    /\ cThen \in {"handshake", "control", "select"}
    /\ Len(cOut) = (IF cPc \in {"send", "inject"} THEN 1 ELSE 0)
    /\ step \in 0 .. Len(Enumeration)
    /\ {failed, detachSent, linkLost} \subseteq BOOLEAN
    /\ limit \in Limits /\ urbSize \in UrbSizes
    /\ Len(plan) <= 1
    /\ txq \in Seq(Nat) /\ Len(txq) <= TxCap
    /\ urbs \in 0 .. MaxUrbs
    /\ vhciChan \in Seq(Nat) /\ Len(vhciChan) <= VhciCap
    /\ pending \subseteq FirstDataId .. FirstDataId + MaxUrbs
    /\ dataResponses \in 0 .. MaxUrbs
    /\ Len(up) <= UpCap
    /\ injected \in Seq(Nat)

DataIds == {FirstDataId + n : n \in 0 .. urbs - 1}

\* Requests between the device's task and the client's handling of the answer.
\* In a mapped ring a frame may stay although its push was reported as failed,
\* and answered.
InFlight ==
    \/ txq # <<>> \/ pending # {} \/ epq.len > 0 \/ wFrame # <<>> \/ chan # <<>>
    \/ backend # "mapped" /\ (rx # <<>> \/ tx # <<>>)
    \/ \E i \in 1 .. Len(up) : up[i].type = "Request"

DetachOnItsWay ==
    \/ \E i \in 1 .. Len(cOut) : cPc = "send" /\ cOut[i].type = "DetachRequest"
    \/ \E i \in 1 .. Len(up) : up[i].type = "DetachRequest"
    \/ \E i \in 1 .. Len(received) : received[i].type = "DetachRequest"

\* The client detaches when every URB of its device is answered and none is
\* anywhere in the client, the daemon or the rings, although all it compares
\* are two numbers: no input report or answer to a control request is
\* counted, and none of the transfers twice (session.rs:113-123).
DetachAfterAnswers == DetachOnItsWay => ~InFlight /\ <<urbs>> = limit

SentFrames == received \o up \o (IF cPc = "send" THEN cOut ELSE <<>>)

\* No request id is used twice on a connection, though the loop, the device's
\* task and the detach each count on their own from the same number
\* (session.rs:48, :67, :79, :103): an answer belongs to one request.
FreshIds ==
    LET ids == [i \in 1 .. Len(SentFrames) |-> SentFrames[i].id] \o txq
    IN  \A i, j \in 1 .. Len(ids) : i < j => ids[i] # ids[j]

\* What reaches the VHCI are answers to the device's own URBs, each at most
\* once, and those that went through the driver in the order in which the
\* device made them, across both tasks of the client, the rings and the worker
\* (session.rs:444, vhci.rs:99-106).  An outcome that the daemon injects is
\* answered at once and overtakes the transfers in the rings.
InjectedInOrder ==
    \A j \in 1 .. Len(injected) :
        /\ injected[j] \in DataIds
        /\ \A i \in 1 .. j - 1 :
            /\ injected[i] # injected[j]
            /\ {injected[i], injected[j]} \intersect OutcomeIds = {} => injected[i] < injected[j]

AttachRefused ==
    \E i \in 1 .. Len(delivered) :
        delivered[i].kind = "AttachResponse" /\ delivered[i].status = "Failed"

\* The enumeration the client performs is one the daemon's control endpoint
\* accepts, with the descriptor lengths of the attach: the client returns an
\* error only when the driver refused the attach or the connection broke
\* (client session.rs:240-296, daemon session.rs:493-596).
EnumerationAgrees == failed => linkLost \/ AttachRefused

\* The port planned for the kernel is one that the probed table shows unused,
\* and the speed is its hub's (vhci.rs:114-143, :243-282).
PlannedPort ==
    \A i \in 1 .. Len(plan) :
        \E system \in Systems :
            \E j \in 1 .. Len(system.lines) :
                LET line == system.lines[j] IN
                /\ plan[i] = [port |-> line[2], speed |-> IF line[1] = "ss" THEN Super ELSE High]
                /\ Len(line) >= 7 /\ <<line[5], line[6], line[7]>> = <<0, 0, "0-0">>

(* Where the two can come to a stop before the end.                        *)

\* The select loop waits in inject_urb for room in a channel that nothing but
\* that same loop empties (session.rs:444, :164).
InjectBlocked == cPc = "inject" /\ Len(vhciChan) >= VhciCap

\* Either end waits for room in a direction of the connection that the other
\* would have to read.
BothSending ==
    /\ peer = "open"
    /\ cPc = "send" /\ Len(up) >= UpCap
    /\ sPc = "send" /\ Len(net) >= NetCap

\* The client reads on, for answers its count still lacks.
StillWaits == peer = "open" /\ cPc = "select" /\ ~detachSent

\* The pump gave up a transfer on a full TX ring, and the client still waits
\* for its answer (vhci.cpp:116).
AnswerLost == StillWaits /\ dropped # {}

\* A frame beyond the pump's buffer is at the front of the RX ring, and the
\* client waits for what stands there (vhci.cpp:112).
RingBlocked == StillWaits /\ rx # <<>> /\ Head(rx).size > PopMax

\* The session waits for its worker, and that for room in the channel which
\* only the session empties (daemon session.rs:249, :62).
WorkerHangs == sPc = "join" /\ wPc = "send" /\ Len(chan) >= ChanCap

Standstill == InjectBlocked \/ BothSending \/ AnswerLost \/ RingBlocked \/ WorkerHangs

\* With a limit of at least one and the mock VHCI, client and daemon both end
\* by themselves, when the driver fails and when transfers fail as well, unless
\* the transfers go to a mapped ring that no driver reads yet, or the two stay
\* in one of the five standstills above for ever: there is no sixth.  The
\* scripts wait for both ends ("daemon did not stop after client disconnected",
\* scripts/local_mock_faults.sh), with loads too small for any of the five.
RunEnds ==
    (limit # <<>> /\ limit # <<0>> /\ vhci = <<>> /\ backend # "mapped") =>
        <>(cPc = "closed" /\ sPc = "done") \/ <>[]Standstill

\* When the connection breaks, in whatever both were doing, the client ends
\* unless it waits for itself in inject_urb, and the daemon's session ends
\* unless it waits for a worker that waits for it; neither needs the other.
LossEndsBoth ==
    linkLost ~> /\ cPc = "closed" \/ InjectBlocked
                /\ sPc = "done" \/ WorkerHangs
=============================================================================
