--------------------------- MODULE DaemonSession ---------------------------
(***************************************************************************)
(* One client session of the daemon (daemon/src/session.rs): the task that *)
(* runs the select loop, the blocking worker that polls the driver's TX    *)
(* ring, the channel between them, the two rings with the mock driver's    *)
(* pump, and the connection to the client.                                 *)
(*                                                                         *)
(* The rings are the bounded frame queues that SpscRing implements.  The   *)
(* RX ring is used by the session task alone (it also runs the pump), the  *)
(* TX ring by the session task and the worker, so the push and the pump of *)
(* one transfer are one step.  A frame the session receives gets a tag, the*)
(* number of frames received so far: history, to tell requests apart.      *)
(***************************************************************************)
EXTENDS TransferQueues, ControlEndpoint, Attachment
LOCAL INSTANCE SequencesExt

CONSTANTS
    OutcomeIds,     \* request ids WHY_USB_MOCK_TRANSFER_OUTCOMES names
    ClientFrames,   \* the frames a client may send
    RingSize,       \* capacity of each ring
    PopMax,         \* the pump's and the worker's buffer (64 KiB)
    ChanCap,        \* capacity of the worker's channel (100)
    NetCap,         \* what the connection buffers towards the client
    MaxFrames       \* bound: number of frames received in a behaviour

ControlKey == 0     \* a control transfer to endpoint 0

\* What the session sees of a frame: of a control transfer's payload the setup
\* packet, <<>> when it is too short to hold one.
FrameTypes ==
    [type : {"AttachRequest", "DetachRequest", "CancelRequest", "ResetRequest", "Other", "TooLong"},
     id : Nat, key : Nat, size : Nat]
        \union [type : {"Request"}, id : Nat, key : Nat \ {ControlKey}, size : Nat]
        \union [type : {"Request"}, id : Nat, key : {ControlKey}, size : Nat, setup : Seq(SetupPackets)]

ASSUME SessionAssumption ==
    /\ ClientFrames \subseteq FrameTypes
    /\ {RingSize, PopMax, ChanCap, NetCap, MaxFrames} \subseteq Nat

VARIABLES
    epq,              \* endpoint_queues
    sPc,              \* where the session task is
    outbox,           \* frames it has yet to send in this turn, each with
                      \* what the code does when the send fails
    after,            \* where it goes when they are sent
    rx, tx,           \* the rings
    wPc, wFrame,      \* the worker, and the frame it hands over
    chan,             \* the channel worker -> session
    cancelled,        \* tx_cancelled
    peer,             \* "open" until the client closes the connection
    net,              \* sent, not yet read by the client
    received,         \* history: the frames received, in order
    delivered,        \* history: the frames the client has read
    dropped           \* history: tags of requests whose answer was given up

sessionVars == <<state, byControlPlane, epq, sPc, outbox, after>>
workerVars == <<wPc, wFrame, cancelled>>
clientVars == <<peer, delivered>>
vars == <<sessionVars, rx, tx, workerVars, chan, net, driverVars, clientVars,
          received, dropped>>

-----------------------------------------------------------------------------
(* Frames                                                                  *)

Answer(kind, f, status) ==
    [kind |-> kind, id |-> f.id, of |-> f.tag, status |-> status, via |-> "daemon"]

\* outbound_network_frame: a request that comes back from the driver becomes
\* its response.
Echo(f) == [kind |-> "Response", id |-> f.id, of |-> f.tag, status |-> "Ok", via |-> "driver"]

HidEvent == [kind |-> "Event", id |-> 0, of |-> 0, status |-> "Ok", via |-> "daemon"]

Out(frame, onError) == [frame |-> frame, onError |-> onError]

Tags(s) == {s[i].of : i \in {j \in 1 .. Len(s) : s[j].kind = "Response"}}

OutboxFrames(s) == [i \in 1 .. Len(s) |-> s[i].frame]

-----------------------------------------------------------------------------
(* The rings and the mock driver's pump                                    *)

Used(ring) ==
    LET sum[n \in 0 .. Len(ring)] == IF n = 0 THEN 0 ELSE sum[n - 1] + ring[n].size
    IN  sum[Len(ring)]

FitsLax(ring, f) == Used(ring) <= RingSize

Fits(ring, f) == Used(ring) + f.size <= RingSize

\* mock_driver_pump_once on rings <<r, t>>: pop RX into a 64 KiB buffer, push
\* TX.  What was popped is gone when the push fails.
PumpKeepsFrame(r, t) ==
    IF r = <<>> \/ Head(r).size > PopMax \/ ~Fits(t, Head(r)) THEN [rx |-> r, tx |-> t, lost |-> {}]
    ELSE [rx |-> r, tx |-> Append(t, Head(r)), lost |-> {}]

PumpOnce(r, t) ==
    IF r = <<>> \/ Head(r).size > PopMax THEN [rx |-> r, tx |-> t, lost |-> {}]
    ELSE IF Fits(t, Head(r)) THEN [rx |-> Tail(r), tx |-> Append(t, Head(r)), lost |-> {}]
    ELSE [rx |-> Tail(r), tx |-> t, lost |-> {Head(r).tag}]

-----------------------------------------------------------------------------
(* The select loop: a frame from the client                                *)

\* Receiving f: what every handler shares.
Receive(f) ==
    /\ sPc = "select"
    /\ Len(received) < MaxFrames
    /\ received' = Append(received, f)
    /\ UNCHANGED <<rx, tx, workerVars, chan, net, clientVars>>

Tagged(f) == [id |-> f.id, key |-> f.key, size |-> f.size, tag |-> Len(received) + 1]

\* The handler's responses go out before the loop goes on at pc.
Reply(frames, pc) ==
    /\ outbox' = frames
    /\ sPc' = IF frames = <<>> THEN pc ELSE "send"
    /\ after' = pc

\* AttachRequest.
HandleAttach(f) ==
    /\ f.type = "AttachRequest"
    /\ Receive(f)
    /\ \E ok \in AttachAnswers :
        /\ AttachSession(ok)
        /\ Reply(<<Out(Answer("AttachResponse", Tagged(f), IF ok THEN "Ok" ELSE "Failed"), "break")>>,
                 "select")
    /\ UNCHANGED <<epq, detachFailed, dropped>>

\* DetachRequest: whatever the driver answers, the session ends.
HandleDetach(f) ==
    /\ f.type = "DetachRequest"
    /\ Receive(f)
    /\ \E ok \in DetachAnswers :
        /\ DetachSession(state, ok)
        /\ Reply(<<Out(Answer("DetachResponse", Tagged(f), IF ok THEN "Ok" ELSE "Failed"), "goOn")>>,
                 "cleanup")
    /\ UNCHANGED <<epq, dropped>>

\* handle_cancel_request: before an attach the queue is not even searched.
CancelStatus(id) ==
    IF state = "Attached" /\ CanCancel(epq, id) THEN "Cancelled" ELSE "Failed"

CancelQueued(id) == epq' = IF state = "Attached" THEN Cancel(epq, id) ELSE epq

\* CancelRequest.
HandleCancel(f) ==
    /\ f.type = "CancelRequest"
    /\ Receive(f)
    /\ CancelQueued(f.id)
    /\ Reply(<<Out(Answer("CancelResponse", Tagged(f), CancelStatus(f.id)), "break")>>, "select")
    /\ UNCHANGED <<state, byControlPlane, driverVars, dropped>>

\* handle_reset_request: the transfers it takes out of the queue are answered
\* with Reset, after the response to the reset itself.
ResetResponses(f) ==
    IF state # "Attached" THEN <<Answer("ResetResponse", Tagged(f), "Failed")>>
    ELSE <<Answer("ResetResponse", Tagged(f), "Ok")>>
            \o [i \in 1 .. Len(ResetTransfers(epq, f.key)) |->
                    Answer("Response", ResetTransfers(epq, f.key)[i].frame, "Reset")]

\* ResetRequest.
HandleReset(f) ==
    /\ f.type = "ResetRequest"
    /\ Receive(f)
    /\ epq' = IF state = "Attached" THEN ResetEndpoint(epq, f.key) ELSE epq
    /\ Reply([i \in 1 .. Len(ResetResponses(f)) |-> Out(ResetResponses(f)[i], "goOn")], "select")
    /\ UNCHANGED <<state, byControlPlane, driverVars, dropped>>

\* Request, before an attach.
RefuseRequest(f) ==
    /\ f.type = "Request"
    /\ state # "Attached"
    /\ Receive(f)
    /\ Reply(<<Out(Answer("Response", Tagged(f), "Failed"), "break")>>, "select")
    /\ UNCHANGED <<state, byControlPlane, epq, driverVars, dropped>>

\* handle_control_request on the payload of f: fails when that is too short to
\* hold a setup packet.  An attached session has its descriptors, made by the
\* attach.  The address and configuration it assigns are only logged.
ControlResponse(f) ==
    IF f.setup = <<>> THEN Result("Failed", 0, <<>>) ELSE ControlResult(f.setup[1], TRUE)

\* Request to endpoint 0: answered by the daemon itself, before the input
\* reports that follow a SET_CONFIGURATION.
HandleControl(f) ==
    /\ f.type = "Request"
    /\ state = "Attached"
    /\ f.key = ControlKey
    /\ Receive(f)
    /\ Reply(<<Out(Answer("Response", Tagged(f), ControlResponse(f).status), "break")>>
                \o [i \in DOMAIN ControlResponse(f).reports |-> Out(HidEvent, "goOn")],
             "select")
    /\ UNCHANGED <<state, byControlPlane, epq, driverVars, dropped>>

\* Request with an injected outcome: mock_transfer_outcome_response.
InjectOutcome(f) ==
    /\ f.type = "Request"
    /\ state = "Attached"
    /\ f.key # ControlKey
    /\ f.id \in OutcomeIds
    /\ Receive(f)
    /\ Reply(<<Out(Answer("Response", Tagged(f), "Injected"), "break")>>, "select")
    /\ UNCHANGED <<state, byControlPlane, epq, driverVars, dropped>>

\* Any other request is queued; flush_endpoint_transfers follows.
QueueRequestNoFlush(f) ==
    /\ f.type = "Request"
    /\ state = "Attached"
    /\ f.key # ControlKey
    /\ f.id \notin OutcomeIds
    /\ Receive(f)
    /\ epq' = Enqueue(epq, Tagged(f))
    /\ outbox' = <<>>
    /\ sPc' = IF epq.len = 0 THEN "select" ELSE "flush"
    /\ after' = "select"
    /\ UNCHANGED <<state, byControlPlane, driverVars, dropped>>

QueueRequest(f) ==
    /\ f.type = "Request"
    /\ state = "Attached"
    /\ f.key # ControlKey
    /\ f.id \notin OutcomeIds
    /\ Receive(f)
    /\ epq' = Enqueue(epq, Tagged(f))
    /\ outbox' = <<>>
    /\ sPc' = "flush"
    /\ after' = "select"
    /\ UNCHANGED <<state, byControlPlane, driverVars, dropped>>

\* Responses, events and bytes that do not decode are logged and ignored.
IgnoreFrame(f) ==
    /\ f.type = "Other"
    /\ Receive(f)
    /\ UNCHANGED <<sessionVars, driverVars, dropped>>

\* A length prefix beyond the codec's limit is a read error.
ReadError(f) ==
    /\ f.type = "TooLong"
    /\ Receive(f)
    /\ sPc' = "cleanup"
    /\ UNCHANGED <<state, byControlPlane, epq, outbox, after, driverVars, dropped>>

\* The client closed the connection.
ReadEof ==
    /\ sPc = "select"
    /\ peer = "closed"
    /\ sPc' = "cleanup"
    /\ UNCHANGED <<state, byControlPlane, epq, outbox, after, rx, tx, workerVars, chan, net,
                   driverVars, clientVars, received, dropped>>

-----------------------------------------------------------------------------
(* flush_endpoint_transfers: one turn of its loop                          *)

\* push_rx_bytes: with the mapped rings the frame may be in the ring and the
\* call still fail, in signal_rx_frame.
PushIgnoresError(f) == {[pushed |-> backend # "unmapped" /\ Fits(rx, f), ok |-> TRUE]}

PushOutcomes(f) ==
    {[pushed |-> backend # "unmapped" /\ Fits(rx, f), ok |-> ok] :
        ok \in (IF backend = "unmapped" \/ ~Fits(rx, f) THEN {FALSE}
                ELSE IF backend = "mapped" THEN BOOLEAN ELSE {TRUE})}

FlushTransfer ==
    /\ sPc = "flush"
    /\ CanPop(epq)
    /\ epq' = PopNext(epq)
    /\ LET f == PopTransfer(epq).frame IN
       \E out \in PushOutcomes(f) :
        LET filled == IF out.pushed THEN Append(rx, f) ELSE rx
            pumped == IF out.ok /\ backend = "mock"
                      THEN PumpOnce(filled, tx)
                      ELSE [rx |-> filled, tx |-> tx, lost |-> {}]
        IN  /\ rx' = pumped.rx
            /\ tx' = pumped.tx
            /\ dropped' = dropped \union pumped.lost
            /\ outbox' = IF out.ok THEN outbox
                         ELSE Append(outbox, Out(Answer("Response", f, "Failed"), "goOn"))
    /\ UNCHANGED <<state, byControlPlane, sPc, after, workerVars, chan, net, driverVars,
                   clientVars, received>>

FlushDone ==
    /\ sPc = "flush"
    /\ ~CanPop(epq)
    /\ epq' = PopNext(epq)
    /\ sPc' = IF outbox = <<>> THEN after ELSE "send"
    /\ UNCHANGED <<state, byControlPlane, outbox, after, rx, tx, workerVars, chan, net,
                   driverVars, clientVars, received, dropped>>

-----------------------------------------------------------------------------
(* The select loop: a frame from the worker; and sending                   *)

TakeLatest ==
    /\ sPc = "select"
    /\ chan # <<>>
    /\ chan' = Front(chan)
    /\ outbox' = <<Out(Last(chan), "break")>>
    /\ sPc' = "send"
    /\ after' = "select"
    /\ UNCHANGED <<state, byControlPlane, epq, rx, tx, workerVars, net, driverVars, clientVars,
                   received, dropped>>

TakeFromChannel ==
    /\ sPc = "select"
    /\ chan # <<>>
    /\ chan' = Tail(chan)
    /\ outbox' = <<Out(Head(chan), "break")>>
    /\ sPc' = "send"
    /\ after' = "select"
    /\ UNCHANGED <<state, byControlPlane, epq, rx, tx, workerVars, net, driverVars, clientVars,
                   received, dropped>>

\* framed.send: waits while the connection takes nothing; once the client is
\* gone it may still succeed, to no effect.
SendFrame ==
    /\ sPc = "send"
    /\ peer = "open" => Len(net) < NetCap
    /\ net' = IF peer = "open" THEN Append(net, Head(outbox).frame) ELSE net
    /\ dropped' = IF peer = "open" THEN dropped
                  ELSE dropped \union Tags(<<Head(outbox).frame>>)
    /\ outbox' = Tail(outbox)
    /\ sPc' = IF Len(outbox) = 1 THEN after ELSE "send"
    /\ UNCHANGED <<state, byControlPlane, epq, after, rx, tx, workerVars, chan, driverVars,
                   clientVars, received>>

\* A failed send gives up the rest of this turn.  It ends the session where
\* the code breaks out of the loop itself; inside a loop over responses the
\* break only leaves that loop.
SendError ==
    /\ sPc = "send"
    /\ peer = "closed"
    /\ dropped' = dropped \union Tags(OutboxFrames(outbox))
    /\ outbox' = <<>>
    /\ sPc' = IF Head(outbox).onError = "break" THEN "cleanup" ELSE after
    /\ UNCHANGED <<state, byControlPlane, epq, after, rx, tx, workerVars, chan, net, driverVars,
                   clientVars, received>>

-----------------------------------------------------------------------------
(* The end of the session                                                  *)

CleanupWithoutDetach ==
    /\ sPc = "cleanup"
    /\ epq' = Clear(epq)
    /\ cancelled' = TRUE
    /\ sPc' = "join"
    /\ UNCHANGED <<state, byControlPlane, outbox, after, rx, tx, wPc, wFrame, chan, net,
                   driverVars, clientVars, received, dropped>>

CleanupForgetsWorker ==
    /\ sPc = "cleanup"
    /\ \E ok \in DetachAnswers : DetachSession("Detaching", ok)
    /\ epq' = Clear(epq)
    /\ sPc' = "join"
    /\ UNCHANGED <<outbox, after, rx, tx, workerVars, chan, net, clientVars, received, dropped>>

Cleanup ==
    /\ sPc = "cleanup"
    /\ \E ok \in DetachAnswers : DetachSession("Detaching", ok)
    /\ epq' = Clear(epq)
    /\ cancelled' = TRUE
    /\ sPc' = "join"
    /\ UNCHANGED <<outbox, after, rx, tx, wPc, wFrame, chan, net, clientVars, received, dropped>>

\* tx_polling_task.await; the channel's receiver is still alive meanwhile.
Join ==
    /\ sPc = "join"
    /\ wPc = "done"
    /\ sPc' = "done"
    /\ state' = "Closed"
    /\ UNCHANGED <<byControlPlane, epq, outbox, after, rx, tx, workerVars, chan, net, driverVars,
                   clientVars, received, dropped>>

-----------------------------------------------------------------------------
(* The TX worker                                                           *)

WorkerCheck ==
    /\ wPc = "check"
    /\ wPc' = IF cancelled THEN "done" ELSE "poll"
    /\ UNCHANGED <<sessionVars, rx, tx, wFrame, cancelled, chan, net, driverVars, clientVars,
                   received, dropped>>

\* poll_tx_frame: a frame beyond the 64 KiB buffer stays in the ring.
TxFrameReady == tx # <<>> /\ Head(tx).size <= PopMax

WorkerPollQuits ==
    /\ wPc = "poll"
    /\ IF TxFrameReady
       THEN wFrame' = <<Echo(Head(tx))>> /\ tx' = Tail(tx) /\ wPc' = "send"
       ELSE wPc' = "done" /\ UNCHANGED <<wFrame, tx>>
    /\ UNCHANGED <<sessionVars, rx, cancelled, chan, net, driverVars, clientVars, received, dropped>>

\* An empty ring is polled again after 10 ms.
WorkerPoll ==
    /\ wPc = "poll"
    /\ IF TxFrameReady
       THEN wFrame' = <<Echo(Head(tx))>> /\ tx' = Tail(tx) /\ wPc' = "send"
       ELSE wPc' = "check" /\ UNCHANGED <<wFrame, tx>>
    /\ UNCHANGED <<sessionVars, rx, cancelled, chan, net, driverVars, clientVars, received, dropped>>

\* blocking_send: waits while the channel is full.
WorkerSend ==
    /\ wPc = "send"
    /\ Len(chan) < ChanCap
    /\ chan' = chan \o wFrame
    /\ wFrame' = <<>>
    /\ wPc' = "check"
    /\ UNCHANGED <<sessionVars, rx, tx, cancelled, net, driverVars, clientVars, received, dropped>>

-----------------------------------------------------------------------------
(* The client's end of the connection (external)                           *)

ClientRead ==
    /\ peer = "open"
    /\ net # <<>>
    /\ net' = Tail(net)
    /\ delivered' = Append(delivered, Head(net))
    /\ UNCHANGED <<sessionVars, rx, tx, workerVars, chan, peer, driverVars, received, dropped>>

\* What the client has not read is lost with the connection.
ClientClose ==
    /\ peer = "open"
    /\ peer' = "closed"
    /\ net' = <<>>
    /\ dropped' = dropped \union Tags(net)
    /\ UNCHANGED <<sessionVars, rx, tx, workerVars, chan, delivered, driverVars, received>>

-----------------------------------------------------------------------------
Init ==
    /\ AttachmentInit /\ epq = EmptyQueues
    /\ sPc = "select" /\ outbox = <<>> /\ after = "select"
    /\ rx = <<>> /\ tx = <<>> /\ chan = <<>> /\ net = <<>>
    /\ wPc = "check" /\ wFrame = <<>> /\ cancelled = FALSE
    /\ peer = "open" /\ delivered = <<>>
    /\ received = <<>> /\ dropped = {}

HandleFrame(f) ==
    \/ HandleAttach(f) \/ HandleDetach(f) \/ HandleCancel(f) \/ HandleReset(f)
    \/ RefuseRequest(f) \/ HandleControl(f) \/ InjectOutcome(f) \/ QueueRequest(f)
    \/ IgnoreFrame(f) \/ ReadError(f)

\* The steps of the session task that need no new frame from the client.
SessionStep ==
    \/ ReadEof \/ FlushTransfer \/ FlushDone \/ TakeFromChannel
    \/ SendFrame \/ SendError \/ Cleanup \/ Join

Worker == WorkerCheck \/ WorkerPoll \/ WorkerSend

Client == ClientRead \/ ClientClose

Next == (\E f \in ClientFrames : HandleFrame(f)) \/ SessionStep \/ Worker \/ Client

Spec == Init /\ [][Next]_vars

\* tokio runs a ready task and the worker has a thread of its own; the
\* client reads what it is sent while it keeps the connection.  Nothing
\* obliges it to send another frame, or to close.
Fairness == WF_vars(SessionStep) /\ WF_vars(Worker) /\ WF_vars(ClientRead)

LiveSpec == Spec /\ Fairness
-----------------------------------------------------------------------------
(* Properties                                                              *)

Response == [kind : {"AttachResponse", "DetachResponse", "CancelResponse", "ResetResponse",
                     "Response", "Event"},
             id : Nat, of : Nat,
             status : {"Ok", "Failed", "Stall", "Cancelled", "Reset", "Injected"},
             via : {"daemon", "driver"}]

Request == [id : Nat, key : Nat, size : Nat, tag : Nat]

TypeOK ==
    /\ state \in {"Connected", "Attached", "Detaching", "Closed"}
    /\ backend \in Backends
    /\ {byControlPlane, driverAttached, detachFailed, cancelled} \subseteq BOOLEAN
    /\ sPc \in {"select", "flush", "send", "cleanup", "join", "done"}
    /\ (sPc = "send") => outbox # <<>>
    /\ outbox \in Seq([frame : Response, onError : {"break", "goOn"}])
    /\ after \in {"select", "cleanup"}
    /\ rx \in Seq(Request) /\ tx \in Seq(Request)
    /\ Used(rx) <= RingSize /\ Used(tx) <= RingSize
    /\ wPc \in {"check", "poll", "send", "done"}
    /\ wFrame \in Seq(Response) /\ (wPc = "send") = (Len(wFrame) = 1)
    /\ chan \in Seq(Response) /\ Len(chan) <= ChanCap
    /\ net \in Seq(Response) /\ Len(net) <= NetCap
    /\ delivered \in Seq(Response)
    /\ peer \in {"open", "closed"}
    /\ received \in Seq(ClientFrames)
    /\ dropped \subseteq Nat

DataRequests == {n \in 1 .. Len(received) : received[n].type = "Request"}

\* The places a request passes in the daemon, from the last to the first, with
\* the answers they hold; what is in a ring will be echoed.
Echoes(ring) == [i \in 1 .. Len(ring) |-> Echo(ring[i])]

Places == <<delivered, net, OutboxFrames(outbox), chan, wFrame, Echoes(tx), Echoes(rx)>>

TxPlace == 6
RxPlace == 7

Spots == UNION {{<<p, i>> : i \in 1 .. Len(Places[p])} : p \in 1 .. RxPlace}

At(s) == Places[s[1]][s[2]]

Ahead(s, r) == s[1] < r[1] \/ (s[1] = r[1] /\ s[2] < r[2])

\* Where the answer to the n-th frame is, and where the transfer it is made of
\* is queued.
AnswersTo(n) == {s \in Spots : At(s).kind = "Response" /\ At(s).of = n}

QueuedFor(n) ==
    UNION {{<<k, i>> : i \in {j \in 1 .. Len(epq.queues[k]) : epq.queues[k][j].frame.tag = n}} :
                k \in DOMAIN epq.queues}

OneOf(S) == \A s, r \in S : s = r

\* A request is in exactly one place on its way from the connection through
\* the queue, the rings, the worker and the channel back to the connection,
\* or its one answer is; it is nowhere only when its answer was given up
\* (the pump found the TX ring full, or the client was gone).  So no request
\* is answered twice and none gets lost unnoticed (session.rs:152-206,
\* :453-484, :49-73, vhci.cpp:106-117).  In a mapped RX ring a frame may stay
\* although its push was reported as failed, and answered.
AccountedOnce ==
    \A n \in DataRequests :
        LET answers == AnswersTo(n)
            outside == {s \in answers : s[1] < TxPlace}
            queued == QueuedFor(n)
        IN  /\ OneOf(outside) /\ OneOf(queued) /\ (outside = {} \/ queued = {})
            /\ backend # "mapped" =>
                    /\ OneOf(answers) /\ (answers = {} \/ queued = {})
                    /\ (answers \union queued = {}) = (n \in dropped)

\* The answers that come back through the driver are in the order of their
\* requests, across the rings, the worker, the channel and the connection.
EchoOrder ==
    \A s, r \in Spots :
        Ahead(s, r) /\ At(s).via = "driver" /\ At(r).via = "driver" => At(s).of < At(r).of

\* The queues are empty whenever the session waits for its next event or
\* cleans up, so the cleanup never throws a queued transfer away
\* (session.rs:201, :247; the local scripts look for "endpoint transfer
\* queues clean at session cleanup" in the log).
QueuesDrained == sPc # "flush" => epq.len = 0

\* The session's flag says what the driver holds, through refused attaches
\* and detaches, and a session that ended leaves a device attached only when
\* the driver refused the detach of the cleanup itself (session.rs:244-246,
\* :349-355).
AttachmentReleased == Released(sPc \in {"join", "done"})

Over == sPc \in {"cleanup", "join", "done"}

Delivered(n) == \E s \in AnswersTo(n) : s[1] = 1

\* "the mock driver pump moves the RX frame to TX_Ring, the daemon then makes
\* a mock response with the same request id and sends it back to the client"
\* (test.md:158): a request the pump's buffer can hold is answered in the
\* end, while the session and the connection last.
EveryRequestAnswered ==
    \A n \in 1 .. MaxFrames :
        (n \in DataRequests /\ received[n].size <= PopMax) ~> (Delivered(n) \/ Over \/ peer = "closed")

\* A session that begins to shut down ends: "when the client disconnects, the
\* daemon and the driver clean up, with no zombie state" (test.md:212).
SessionCloses == (sPc = "cleanup") ~> (sPc = "done")

Pending(id) ==
    \/ \E i \in 1 .. Len(tx) : tx[i].id = id
    \/ \E i \in 1 .. Len(rx) : rx[i].id = id

\* "the daemon can cancel a pending transfer by request id" (test.md:154): a
\* cancel is refused only when no transfer with that id is pending in the
\* daemon or the driver.
CancelFindsPending ==
    [][\A f \in ClientFrames :
        HandleCancel(f) /\ state = "Attached" /\ Pending(f.id)
            => Head(outbox').frame.status = "Cancelled"]_vars
=============================================================================
