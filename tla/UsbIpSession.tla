---------------------------- MODULE UsbIpSession ----------------------------
(***************************************************************************)
(* One USB/IP session of the daemon (daemon/src/usbip_session.rs): a single*)
(* task that attaches, then reads a packet, handles it and writes its      *)
(* answer, and detaches when the connection ends.                          *)
(*                                                                         *)
(* A packet is what read_usbip_packet returns: header and payload.  The    *)
(* payload of an OUT submit is read and then not looked at; for that alone *)
(* does the code use transfer_buffer_length.                               *)
(***************************************************************************)
EXTENDS ControlEndpoint, Attachment, FiniteSets

CONSTANTS
    Packets,        \* the packets a client may send
    NetCap,         \* what the connection buffers towards the client
    MaxPackets      \* bound: number of packets received in a behaviour

\* UsbIpCmdSubmit (its setup packet is only read at endpoint 0), with the room
\* the host has for the answer, and the other commands; "Bad" is a header that
\* does not decode.
PacketTypes ==
    [command : {"Submit"}, endpoint : Nat, transfer_buffer_length : Nat, setup : SetupPackets]
        \union [command : {"Unlink", "Ret", "Bad"}]

ASSUME UsbIpAssumption == Packets \subseteq PacketTypes /\ {NetCap, MaxPackets} \subseteq Nat

HidEndpoint == 129   \* 0x81, the keyboard's interrupt IN endpoint
ReportLen == 8       \* HidKeyboardInputReport::LEN

VARIABLES
    sPc,             \* where the task is
    address,         \* assigned_address
    configuration,   \* active_configuration
    reports,         \* pending_interrupt_reports
    reply,           \* the answer being written, or <<>>
    peer,            \* "open" until the client closes the connection
    net,             \* written, not yet read by the client
    received,        \* history: the packets received, in order
    delivered,       \* history: the answers the client has read
    produced         \* history: the input reports made so far

vars == <<attachmentVars, sPc, address, configuration, reports, reply, peer, net,
          received, delivered, produced>>

-----------------------------------------------------------------------------
(* Answers.  The number of the packet in the connection stands for the     *)
(* sequence number that the client gave it and the answer repeats.         *)

Seqnum == Len(received) + 1

\* UsbIpRetSubmit::ok_for and its failed forms, UsbIpRetUnlink::new; report is
\* the input report carried, if any.
Ret(command, status, len, report) ==
    [command |-> command, seqnum |-> Seqnum, status |-> status, len |-> len, report |-> report]

-----------------------------------------------------------------------------
(* The session                                                             *)

\* A refused attach ends the session before it begins.
Attach ==
    /\ sPc = "attach"
    /\ \E ok \in AttachAnswers :
        /\ AttachSession(ok)
        /\ sPc' = IF ok THEN "read" ELSE "refused"
    /\ UNCHANGED <<detachFailed, address, configuration, reports, reply, peer, net,
                   received, delivered, produced>>

ReadPacket(p) ==
    /\ sPc = "read"
    /\ Len(received) < MaxPackets
    /\ received' = Append(received, p)
    /\ UNCHANGED <<attachmentVars, peer, net, delivered>>

Answer(ret) == reply' = <<ret>> /\ sPc' = "write"

\* handle_control_submit: the reports that a SET_CONFIGURATION makes wait for
\* interrupt submits; an answer with an error carries no data.
ControlSubmit(p) ==
    /\ p.command = "Submit" /\ p.endpoint = 0
    /\ ReadPacket(p)
    /\ LET result == ControlResult(p.setup, TRUE) IN
        /\ reports' = reports \o result.reports
        /\ produced' = produced \o result.reports
        /\ Answer(Ret("RetSubmit", result.status, IF result.status = "Ok" THEN result.len ELSE 0,
                      <<>>))
    /\ address' = AddressAfter(p.setup, address)
    /\ configuration' = ConfigurationAfter(p.setup, TRUE, configuration)

InterruptSubmitNewest(p) ==
    /\ p.command = "Submit" /\ p.endpoint = HidEndpoint
    /\ ReadPacket(p)
    /\ IF reports = <<>>
       THEN Answer(Ret("RetSubmit", "Ok", 0, <<>>)) /\ UNCHANGED reports
       ELSE /\ Answer(Ret("RetSubmit", "Ok", ReportLen, <<reports[Len(reports)]>>))
            /\ reports' = SubSeq(reports, 1, Len(reports) - 1)
    /\ UNCHANGED <<address, configuration, produced>>

\* A submit to the HID endpoint is answered at once, with the oldest report
\* or with nothing.
InterruptSubmit(p) ==
    /\ p.command = "Submit" /\ p.endpoint = HidEndpoint
    /\ ReadPacket(p)
    /\ IF reports = <<>>
       THEN Answer(Ret("RetSubmit", "Ok", 0, <<>>)) /\ UNCHANGED reports
       ELSE /\ Answer(Ret("RetSubmit", "Ok", ReportLen, <<Head(reports)>>))
            /\ reports' = Tail(reports)
    /\ UNCHANGED <<address, configuration, produced>>

\* Any other endpoint stalls.
OtherSubmit(p) ==
    /\ p.command = "Submit" /\ p.endpoint \notin {0, HidEndpoint}
    /\ ReadPacket(p)
    /\ Answer(Ret("RetSubmit", "Stall", 0, <<>>))
    /\ UNCHANGED <<address, configuration, reports, produced>>

UnlinkUnanswered(p) ==
    /\ p.command = "Unlink"
    /\ ReadPacket(p)
    /\ UNCHANGED <<sPc, reply, address, configuration, reports, produced>>

\* No submit is ever pending: an unlink is always too late.
Unlink(p) ==
    /\ p.command = "Unlink"
    /\ ReadPacket(p)
    /\ Answer(Ret("RetUnlink", "Ok", 0, <<>>))
    /\ UNCHANGED <<address, configuration, reports, produced>>

\* RET_SUBMIT and RET_UNLINK are logged and ignored.
IgnorePacket(p) ==
    /\ p.command = "Ret"
    /\ ReadPacket(p)
    /\ UNCHANGED <<sPc, reply, address, configuration, reports, produced>>

\* A header with an unknown command or direction is a read error.
BadHeader(p) ==
    /\ p.command = "Bad"
    /\ ReadPacket(p)
    /\ sPc' = "cleanup"
    /\ UNCHANGED <<reply, address, configuration, reports, produced>>

ReadEndIgnored ==
    /\ sPc = "read"
    /\ peer = "closed"
    /\ UNCHANGED vars

\* The connection ended, between packets or inside one.
ReadEnd ==
    /\ sPc = "read"
    /\ peer = "closed"
    /\ sPc' = "cleanup"
    /\ UNCHANGED <<attachmentVars, address, configuration, reports, reply, peer, net,
                   received, delivered, produced>>

\* write_all waits while the connection takes nothing; once the client is gone
\* it may still succeed, to no effect.
Write ==
    /\ sPc = "write"
    /\ peer = "open" => Len(net) < NetCap
    /\ net' = IF peer = "open" THEN net \o reply ELSE net
    /\ reply' = <<>>
    /\ sPc' = "read"
    /\ UNCHANGED <<attachmentVars, address, configuration, reports, peer, received, delivered,
                   produced>>

WriteError ==
    /\ sPc = "write"
    /\ peer = "closed"
    /\ reply' = <<>>
    /\ sPc' = "cleanup"
    /\ UNCHANGED <<attachmentVars, address, configuration, reports, peer, net, received,
                   delivered, produced>>

Cleanup ==
    /\ sPc = "cleanup"
    /\ \E ok \in DetachAnswers : DetachSession("Detaching", ok)
    /\ sPc' = "close"
    /\ UNCHANGED <<address, configuration, reports, reply, peer, net, received, delivered,
                   produced>>

\* The session is closed whether or not the driver let the device go.
Close ==
    /\ sPc = "close"
    /\ state' = "Closed"
    /\ sPc' = "done"
    /\ UNCHANGED <<byControlPlane, driverVars, address, configuration, reports, reply, peer, net,
                   received, delivered, produced>>

-----------------------------------------------------------------------------
(* The client's end of the connection (external)                           *)

ClientRead ==
    /\ peer = "open"
    /\ net # <<>>
    /\ net' = Tail(net)
    /\ delivered' = Append(delivered, Head(net))
    /\ UNCHANGED <<attachmentVars, sPc, address, configuration, reports, reply, peer, received,
                   produced>>

ClientClose ==
    /\ peer = "open"
    /\ peer' = "closed"
    /\ net' = <<>>
    /\ UNCHANGED <<attachmentVars, sPc, address, configuration, reports, reply, received,
                   delivered, produced>>

-----------------------------------------------------------------------------
Init ==
    /\ AttachmentInit
    /\ sPc = "attach" /\ address = 0 /\ configuration = 0
    /\ reports = <<>> /\ reply = <<>>
    /\ peer = "open" /\ net = <<>>
    /\ received = <<>> /\ delivered = <<>> /\ produced = <<>>

HandlePacket(p) ==
    \/ ControlSubmit(p) \/ InterruptSubmit(p) \/ OtherSubmit(p)
    \/ Unlink(p) \/ IgnorePacket(p) \/ BadHeader(p)

\* The steps of the task that need no new packet.
SessionStep == Attach \/ ReadEnd \/ Write \/ WriteError \/ Cleanup \/ Close

Next ==
    \/ \E p \in Packets : HandlePacket(p)
    \/ SessionStep \/ ClientRead \/ ClientClose

Spec == Init /\ [][Next]_vars

\* tokio runs the task when it is ready, and the client reads what it is sent.
LiveSpec == Spec /\ WF_vars(SessionStep) /\ WF_vars(ClientRead)

-----------------------------------------------------------------------------
(* Properties                                                              *)

Answers == [command : {"RetSubmit", "RetUnlink"}, seqnum : 1 .. MaxPackets,
            status : {"Ok", "Stall", "Failed"}, len : Nat, report : Seq(U8)]

\* Types, with the address in the range a USB device may have and the
\* configuration one the descriptors name.
TypeOK ==
    /\ state \in {"Connected", "Attached", "Detaching", "Closed"}
    /\ backend \in Backends
    /\ {byControlPlane, driverAttached, detachFailed} \subseteq BOOLEAN
    /\ sPc \in {"attach", "refused", "read", "write", "cleanup", "close", "done"}
    /\ address \in 0 .. 127
    /\ configuration \in {0} \union ConfigurationValues
    /\ reports \in Seq(U8) /\ produced \in Seq(U8)
    /\ reply \in Seq(Answers) /\ Len(reply) = (IF sPc = "write" THEN 1 ELSE 0)
    /\ peer \in {"open", "closed"}
    /\ net \in Seq(Answers) /\ Len(net) <= NetCap
    /\ received \in Seq(Packets)
    /\ delivered \in Seq(Answers)

\* The device attached for the session is released when it ends, unless the
\* driver refuses; a refused attach leaves nothing behind (usbip_session.rs:
\* 24-32, :109-112).
AttachmentReleased == Released(sPc \in {"refused", "done"})

Outgoing == delivered \o net \o reply

Answerable == {n \in 1 .. Len(received) : received[n].command \in {"Submit", "Unlink"}}

\* How much the answer to a packet may carry: what its setup packet asks for,
\* one input report, or nothing.
MayCarry(p) ==
    CASE p.command # "Submit" -> 0
      [] p.command = "Submit" /\ p.endpoint = 0 -> p.setup.length
      [] p.command = "Submit" /\ p.endpoint = HidEndpoint -> ReportLen
      [] p.command = "Submit" /\ p.endpoint \notin {0, HidEndpoint} -> 0

\* No more than that, by the packet with the answer's number, and nothing with
\* an error.  The code does not look at transfer_buffer_length, which says how
\* much room the host has: the answer fits it when the host has room for all
\* that it asks for, and one that has less may be sent more than it can take.
WithinRequest(a) ==
    LET p == received[a.seqnum]
    IN  /\ a.len <= MayCarry(p)
        /\ a.status # "Ok" => a.len = 0
        /\ p.command = "Submit" /\ MayCarry(p) <= p.transfer_buffer_length =>
                a.len <= p.transfer_buffer_length

\* Every submit and unlink the session has read is answered once, in the
\* order of arrival, for as long as the client stays; and each answer holds no
\* more than the setup packet's wLength or one report, so that it fits the
\* buffer of a host with room for that - not of any host, as the repository's
\* own test has 18 bytes for a buffer of none (usbip_session.rs:45-107,
\* :168-175, :229-234, :250-275, session.rs:538).
AnsweredInOrder ==
    /\ peer = "open" =>
        /\ \A i, j \in 1 .. Len(Outgoing) : i < j => Outgoing[i].seqnum < Outgoing[j].seqnum
        /\ {Outgoing[i].seqnum : i \in 1 .. Len(Outgoing)} = Answerable
    /\ \A i \in 1 .. Len(Outgoing) : WithinRequest(Outgoing[i])

\* How many of the first n of these answers carry a report.
Fetched(answers, n) == Cardinality({i \in 1 .. n : answers[i].report # <<>>})

\* No input report is lost, repeated or overtaken between the SET_CONFIGURATION
\* that makes it and the interrupt submit that fetches it, so that the host
\* sees every key released before the next is pressed: the n-th answer with a
\* report carries the n-th report made, and those not fetched are pending in
\* their order (usbip_session.rs:168-176, :220-224).
ReportsInOrder ==
    peer = "open" =>
        /\ \A i \in 1 .. Len(Outgoing) :
            Outgoing[i].report # <<>> =>
                /\ Fetched(Outgoing, i) <= Len(produced)
                /\ Outgoing[i].report = <<produced[Fetched(Outgoing, i)]>>
        /\ reports = SubSeq(produced, Fetched(Outgoing, Len(Outgoing)) + 1, Len(produced))

\* A session whose client is gone ends and releases the device: no answer
\* still to be written holds it up.
SessionCloses == (peer = "closed") ~> (sPc \in {"refused", "done"})
=============================================================================
