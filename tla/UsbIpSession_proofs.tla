------------------------- MODULE UsbIpSession_proofs -------------------------
(***************************************************************************)
(* A USB/IP session answers each packet once, in order and within what it  *)
(* asked for, hands out every input report once and in order, and releases *)
(* the device, whatever packets arrive and wherever it ends.               *)
(***************************************************************************)
EXTENDS UsbIpSession, SharedLemmas

-----------------------------------------------------------------------------
(* The attachment                                                          *)

\* The session's flag says what the driver holds.
FlagTells ==
    /\ byControlPlane \in BOOLEAN /\ driverAttached \in BOOLEAN
    /\ byControlPlane = driverAttached

\* attach_session keeps the flag with the driver; a refused one attaches nothing.
LEMMA AttachFacts ==
    ASSUME FlagTells, NEW ok \in AttachAnswers, AttachSession(ok)
    PROVE  FlagTells' /\ (~ok => driverAttached' = driverAttached)
<1>1. ok \in BOOLEAN /\ CallsDriver \in BOOLEAN
  BY BackendAssumption DEF AttachAnswers, CallsDriver
<1>2. CASE CallsDriver /\ ok
  BY <1>1, <1>2 DEF FlagTells, AttachSession
<1>3. CASE ~(CallsDriver /\ ok)
  BY <1>1, <1>3 DEF FlagTells, AttachSession
<1> QED
  BY <1>2, <1>3

\* detach_session keeps the flag with the driver; from any state but Closed, the
\* device stays attached only when the driver has just refused to let it go.
LEMMA DetachFacts ==
    ASSUME FlagTells, NEW s, NEW ok \in DetachAnswers, DetachSession(s, ok)
    PROVE  FlagTells' /\ (s # "Closed" /\ driverAttached' => detachFailed')
<1>1. ok \in BOOLEAN
  BY DEF DetachAnswers
<1>2. CASE s = "Closed"
  BY <1>2 DEF FlagTells, DetachSession, attachmentVars, driverVars
<1>3. CASE s # "Closed" /\ byControlPlane /\ ok
  BY <1>1, <1>3 DEF FlagTells, DetachSession
<1>4. CASE s # "Closed" /\ byControlPlane /\ ~ok
  BY <1>1, <1>4 DEF FlagTells, DetachSession
<1>5. CASE s # "Closed" /\ ~byControlPlane
  BY <1>1, <1>5 DEF FlagTells, DetachSession
<1> QED
  BY <1>1, <1>2, <1>3, <1>4, <1>5

-----------------------------------------------------------------------------
(* Endpoint 0                                                              *)

\* The reports a keyboard makes are bytes, and so are those of any request.
LEMMA ControlResultTyped ==
    ASSUME NEW setup \in SetupPackets
    PROVE  /\ ControlResult(setup, TRUE).status \in {"Ok", "Stall", "Failed"}
           /\ ControlResult(setup, TRUE).len \in Nat
           /\ ControlResult(setup, TRUE).len <= setup.length
           /\ ControlResult(setup, TRUE).reports \in Seq(U8)
<1>1. HidReports \in Seq(U8)
  <2> DEFINE n == 2 * Len(HidKeycodes)
  <2>1. n \in Nat
    BY KeycodeAssumption
  <2>2. ASSUME NEW i \in 1 .. n, i % 2 = 1
        PROVE  HidKeycodes[(i + 1) \div 2] \in U8
    <3>1. (i + 1) \div 2 \in 1 .. Len(HidKeycodes)
      BY <2>2, KeycodeAssumption
    <3> QED
      BY <3>1, KeycodeAssumption
  <2>3. 0 \in U8
    BY DEF U8
  <2>4. HidReports \in [1 .. n -> U8]
    BY <2>2, <2>3 DEF HidReports
  <2> HIDE DEF n
  <2> QED
    BY <2>1, <2>4
<1>2. <<>> \in Seq(U8)
  OBVIOUS
<1> HIDE DEF HidReports
<1>3. setup.length \in Nat
  <2>1. setup.length \in U16
    BY DEF SetupPackets
  <2>2. U16 \subseteq Nat
    BY DEF U16
  <2> QED
    BY <2>1, <2>2
<1> DEFINE Typed(r) == \E status \in {"Ok", "Stall", "Failed"}, len \in Nat, made \in Seq(U8) :
                            len <= setup.length /\ r = Result(status, len, made)
<1>4. Typed(Result("Ok", 0, HidReports))
  BY <1>1, <1>3
<1>5. Typed(Result("Ok", 0, <<>>)) /\ Typed(Result("Stall", 0, <<>>))
  <2>1. 0 <= setup.length
    BY <1>3
  <2> HIDE DEF Result
  <2> QED
    BY <1>2, <2>1
<1>6. DescriptorType(setup) \in {Device, Configuration, Report} =>
        Typed(Result("Ok", Truncated(DescriptorLen[DescriptorType(setup)], setup.length), <<>>))
  <2>1. DescriptorLen \in [{Device, Configuration, Report} -> Nat]
    BY DEF DescriptorLen, Device, Configuration, Report
  <2>2. ASSUME NEW a \in Nat
        PROVE  Truncated(a, setup.length) \in Nat /\ Truncated(a, setup.length) <= setup.length
    BY <1>3 DEF Truncated
  <2> HIDE DEF Truncated
  <2> QED
    BY <1>2, <2>1, <2>2
<1> HIDE DEF Typed
<1>7. Typed(GetDescriptorResult(setup, TRUE))
  BY <1>5, <1>6 DEF GetDescriptorResult, HasDescriptor
<1>8. Typed(ControlResult(setup, TRUE))
  <2>1. CASE setup.request = GetDescriptor
    <3>1. ControlResult(setup, TRUE) = GetDescriptorResult(setup, TRUE)
      <4>1. \A known : ControlResult(setup, known) = GetDescriptorResult(setup, known)
        BY <2>1 DEF ControlResult, GetDescriptor, SetAddress, SetConfiguration
      <4> QED
        BY <4>1, Zenon
    <3> QED
      BY <1>7, <3>1, Zenon
  <2>2. CASE setup.request = SetAddress
    <3>1. ControlResult(setup, TRUE) = Result(IF AddressValid(setup) THEN "Ok" ELSE "Stall", 0, <<>>)
      BY <2>2 DEF ControlResult, GetDescriptor, SetAddress, SetConfiguration
    <3> QED
      BY <1>5, <3>1, Zenon
  <2>3. CASE setup.request = SetConfiguration
    <3>1. \/ ControlResult(setup, TRUE) = Result("Stall", 0, <<>>)
          \/ ControlResult(setup, TRUE) = Result("Ok", 0, <<>>)
          \/ ControlResult(setup, TRUE) = Result("Ok", 0, HidReports)
      <4>1. \A known \in BOOLEAN :
                \/ ControlResult(setup, known) = Result("Stall", 0, <<>>)
                \/ ControlResult(setup, known) = Result("Ok", 0, <<>>)
                \/ ControlResult(setup, known) = Result("Ok", 0, HidReports)
        BY <2>3 DEF ControlResult, GetDescriptor, SetAddress, SetConfiguration
      <4> QED
        BY <4>1, Zenon
    <3> QED
      BY <1>4, <1>5, <3>1, Zenon
  <2>4. CASE setup.request \notin {GetDescriptor, SetAddress, SetConfiguration}
    BY <1>5, <2>4 DEF ControlResult
  <2> QED
    BY <2>1, <2>2, <2>3, <2>4
<1>9. ASSUME NEW r, Typed(r)
      PROVE  /\ r.status \in {"Ok", "Stall", "Failed"} /\ r.reports \in Seq(U8)
             /\ r.len \in Nat /\ r.len <= setup.length
  BY <1>9 DEF Typed, Result
<1> QED
  BY <1>8, <1>9, Zenon

\* A setup packet the device accepts leaves it an address and a configuration
\* a device may have.
LEMMA DeviceStateTyped ==
    ASSUME NEW setup \in SetupPackets
    PROVE  /\ \A a \in 0 .. 127 : AddressAfter(setup, a) \in 0 .. 127
           /\ \A c \in {0} \union ConfigurationValues :
                ConfigurationAfter(setup, TRUE, c) \in {0} \union ConfigurationValues
<1>1. setup.value \in Nat
  <2>1. setup.value \in U16
    BY DEF SetupPackets
  <2>2. U16 \subseteq Nat
    BY DEF U16
  <2> QED
    BY <2>1, <2>2
<1>2. \A a \in 0 .. 127 : AddressAfter(setup, a) \in 0 .. 127
  BY <1>1 DEF AddressAfter, AddressValid
<1>3. \A known \in BOOLEAN : \A c \in {0} \union ConfigurationValues :
        ConfigurationAfter(setup, known, c) \in {0} \union ConfigurationValues
  BY DEF ConfigurationAfter, ConfigurationValid
<1> QED
  BY <1>2, <1>3, Zenon

-----------------------------------------------------------------------------
(* Types                                                                   *)

\* What a packet holds.
LEMMA PacketTyped ==
    ASSUME NEW p \in Packets
    PROVE  /\ p.command \in {"Submit", "Unlink", "Ret", "Bad"}
           /\ p.command = "Submit" => p.setup \in SetupPackets /\ p.transfer_buffer_length \in Nat
<1>1. p \in PacketTypes
  BY UsbIpAssumption
<1> QED
  BY <1>1 DEF PacketTypes

\* An answer made from a request is one of the answers.
LEMMA RetTyped ==
    ASSUME received \in Seq(Packets), Len(received) < MaxPackets,
           NEW command \in {"RetSubmit", "RetUnlink"}, NEW status \in {"Ok", "Stall", "Failed"},
           NEW len \in Nat, NEW report \in Seq(U8)
    PROVE  Ret(command, status, len, report) \in Answers
<1>1. Len(received) + 1 \in 1 .. MaxPackets
  BY UsbIpAssumption
<1> QED
  BY <1>1 DEF Ret, Seqnum, Answers

\* It waits alone to be written.
LEMMA AnswerTyped ==
    ASSUME NEW ret \in Answers, Answer(ret)
    PROVE  reply' \in Seq(Answers) /\ Len(reply') = 1 /\ sPc' = "write"
BY DEF Answer

\* The types of everything a packet changes.
LEMMA PacketKeepsTypes ==
    ASSUME TypeOK, NEW p \in Packets, HandlePacket(p)
    PROVE  TypeOK'
<1>1. /\ sPc = "read" /\ received \in Seq(Packets) /\ Len(received) < MaxPackets
      /\ received' \in Seq(Packets) /\ reports \in Seq(U8) /\ produced \in Seq(U8)
      /\ UNCHANGED <<attachmentVars, peer, net, delivered>>
  <2>1. ReadPacket(p)
    BY DEF HandlePacket, ControlSubmit, InterruptSubmit, OtherSubmit, Unlink, IgnorePacket, BadHeader
  <2> QED
    BY <2>1 DEF TypeOK, ReadPacket
<1>2. <<>> \in Seq(U8) /\ 0 \in Nat /\ ReportLen \in Nat
  BY DEF ReportLen
<1>3. CASE ControlSubmit(p)
  <2> DEFINE status == ControlResult(p.setup, TRUE).status
             len == ControlResult(p.setup, TRUE).len
             made == ControlResult(p.setup, TRUE).reports
  <2>1. p.setup \in SetupPackets
    BY <1>3, PacketTyped DEF ControlSubmit
  <2>2. status \in {"Ok", "Stall", "Failed"} /\ len \in Nat /\ made \in Seq(U8)
    BY <2>1, ControlResultTyped
  <2>3. /\ reports' = reports \o made /\ produced' = produced \o made
        /\ Answer(Ret("RetSubmit", status, IF status = "Ok" THEN len ELSE 0, <<>>))
        /\ address' = AddressAfter(p.setup, address)
        /\ configuration' = ConfigurationAfter(p.setup, TRUE, configuration)
    BY <1>3 DEF ControlSubmit
  <2> HIDE DEF status, len, made
  <2>4. reply' \in Seq(Answers) /\ Len(reply') = 1 /\ sPc' = "write"
    <3>1. (IF status = "Ok" THEN len ELSE 0) \in Nat
      BY <1>2, <2>2
    <3>2. Ret("RetSubmit", status, IF status = "Ok" THEN len ELSE 0, <<>>) \in Answers
      BY <1>1, <1>2, <2>2, <3>1, RetTyped
    <3> QED
      BY <2>3, <3>2, AnswerTyped
  <2>5. address' \in 0 .. 127 /\ configuration' \in {0} \union ConfigurationValues
    BY <2>1, <2>3, DeviceStateTyped DEF TypeOK
  <2>6. reports' \in Seq(U8) /\ produced' \in Seq(U8)
    BY <1>1, <2>2, <2>3
  <2> QED
    BY <1>1, <2>4, <2>5, <2>6 DEF TypeOK, attachmentVars, driverVars
<1>4. CASE InterruptSubmit(p)
  <2>1. UNCHANGED <<address, configuration, produced>>
    BY <1>4 DEF InterruptSubmit
  <2>2. CASE reports = <<>>
    <3>1. Answer(Ret("RetSubmit", "Ok", 0, <<>>)) /\ UNCHANGED reports
      BY <1>4, <2>2 DEF InterruptSubmit
    <3>2. reply' \in Seq(Answers) /\ Len(reply') = 1 /\ sPc' = "write"
      BY <1>1, <1>2, <3>1, RetTyped, AnswerTyped
    <3> QED
      BY <1>1, <2>1, <3>1, <3>2 DEF TypeOK, attachmentVars, driverVars
  <2>3. CASE reports # <<>>
    <3>1. Answer(Ret("RetSubmit", "Ok", ReportLen, <<Head(reports)>>)) /\ reports' = Tail(reports)
      BY <1>4, <2>3 DEF InterruptSubmit
    <3>2. <<Head(reports)>> \in Seq(U8) /\ Tail(reports) \in Seq(U8)
      BY <1>1, <2>3
    <3>3. reply' \in Seq(Answers) /\ Len(reply') = 1 /\ sPc' = "write"
      BY <1>1, <1>2, <3>1, <3>2, RetTyped, AnswerTyped
    <3> QED
      BY <1>1, <2>1, <3>1, <3>2, <3>3 DEF TypeOK, attachmentVars, driverVars
  <2> QED
    BY <2>2, <2>3
<1>5. CASE OtherSubmit(p) \/ Unlink(p)
  <2>1. UNCHANGED <<address, configuration, reports, produced>>
    BY <1>5 DEF OtherSubmit, Unlink
  <2>2. Answer(Ret("RetSubmit", "Stall", 0, <<>>)) \/ Answer(Ret("RetUnlink", "Ok", 0, <<>>))
    BY <1>5 DEF OtherSubmit, Unlink
  <2>3. reply' \in Seq(Answers) /\ Len(reply') = 1 /\ sPc' = "write"
    BY <1>1, <1>2, <2>2, RetTyped, AnswerTyped
  <2> QED
    BY <1>1, <2>1, <2>3 DEF TypeOK, attachmentVars, driverVars
<1>6. CASE IgnorePacket(p) \/ BadHeader(p)
  <2>1. UNCHANGED <<reply, address, configuration, reports, produced>> /\ sPc' \in {"read", "cleanup"}
    BY <1>1, <1>6 DEF IgnorePacket, BadHeader
  <2> QED
    BY <1>1, <2>1 DEF TypeOK, attachmentVars, driverVars
<1> QED
  BY <1>3, <1>4, <1>5, <1>6 DEF HandlePacket

\* The types of everything else a step changes.
LEMMA NextTyped ==
    ASSUME TypeOK, [Next]_vars
    PROVE  TypeOK'
<1>1. CASE \E p \in Packets : HandlePacket(p)
  BY <1>1, PacketKeepsTypes
<1>2. CASE Attach
  <2>1. PICK ok \in AttachAnswers : AttachSession(ok)
    BY <1>2 DEF Attach
  <2>2. /\ state' \in {"Connected", "Attached", "Detaching", "Closed"} /\ backend' \in Backends
        /\ {byControlPlane', driverAttached', detachFailed'} \subseteq BOOLEAN
    BY <1>2, <2>1 DEF Attach, AttachSession, TypeOK
  <2>3. sPc' \in {"read", "refused"} /\ sPc = "attach"
    BY <1>2 DEF Attach
  <2> QED
    BY <1>2, <2>2, <2>3 DEF Attach, TypeOK
<1>3. CASE Cleanup
  <2>1. PICK ok \in DetachAnswers : DetachSession("Detaching", ok)
    BY <1>3 DEF Cleanup
  <2>2. /\ state' \in {"Connected", "Attached", "Detaching", "Closed"} /\ backend' \in Backends
        /\ {byControlPlane', driverAttached', detachFailed'} \subseteq BOOLEAN
    BY <2>1 DEF DetachSession, TypeOK, attachmentVars, driverVars
  <2> QED
    BY <1>3, <2>2 DEF Cleanup, TypeOK
<1>4. CASE ReadEnd
  BY <1>4 DEF ReadEnd, TypeOK, attachmentVars, driverVars
<1>5. CASE Write
  <2>1. Len(reply) = 1 /\ reply \in Seq(Answers) /\ net \in Seq(Answers)
    BY <1>5 DEF Write, TypeOK
  <2>2. net' \in Seq(Answers) /\ Len(net') <= NetCap
    <3>1. CASE peer = "open"
      <4>1. net' = net \o reply /\ Len(net) < NetCap
        BY <1>5, <3>1 DEF Write
      <4>2. NetCap \in Nat
        BY UsbIpAssumption
      <4> HIDE DEF Answers
      <4>3. Len(net) \in Nat
        BY <2>1, LenProperties
      <4>4. Len(net \o reply) = Len(net) + Len(reply) /\ net \o reply \in Seq(Answers)
        BY <2>1, ConcatProperties
      <4> QED
        BY <2>1, <4>1, <4>2, <4>3, <4>4
    <3>2. CASE peer # "open"
      BY <1>5, <3>2 DEF Write, TypeOK
    <3> QED
      BY <3>1, <3>2
  <2>3. reply' = <<>> /\ sPc' = "read" /\ Len(reply') = 0 /\ reply' \in Seq(Answers)
    BY <1>5 DEF Write
  <2> QED
    BY <1>5, <2>2, <2>3 DEF Write, TypeOK, attachmentVars, driverVars
<1>6. CASE WriteError
  <2>1. reply' = <<>> /\ sPc' = "cleanup" /\ Len(reply') = 0 /\ reply' \in Seq(Answers)
    BY <1>6 DEF WriteError
  <2> QED
    BY <1>6, <2>1 DEF WriteError, TypeOK, attachmentVars, driverVars
<1>7. CASE Close
  BY <1>7 DEF Close, TypeOK, driverVars
<1>8. CASE ClientRead
  <2>1. net \in Seq(Answers) /\ net # <<>> /\ delivered \in Seq(Answers)
    BY <1>8 DEF ClientRead, TypeOK
  <2>2. net' \in Seq(Answers) /\ Len(net') <= NetCap /\ delivered' \in Seq(Answers)
    <3>1. Tail(net) \in Seq(Answers) /\ Len(Tail(net)) = Len(net) - 1 /\ Head(net) \in Answers
      BY <2>1, HeadTailProperties
    <3>2. Len(net) <= NetCap /\ Len(net) \in Nat /\ NetCap \in Nat
      BY <2>1, UsbIpAssumption DEF TypeOK
    <3> QED
      BY <1>8, <2>1, <3>1, <3>2 DEF ClientRead
  <2> QED
    BY <1>8, <2>2 DEF ClientRead, TypeOK, attachmentVars, driverVars
<1>9. CASE ClientClose
  <2>1. <<>> \in Seq(Answers) /\ Len(<<>>) <= NetCap
    BY UsbIpAssumption
  <2> QED
    BY <1>9, <2>1 DEF ClientClose, TypeOK, attachmentVars, driverVars
<1>10. CASE UNCHANGED vars
  BY <1>10 DEF vars, TypeOK, attachmentVars, driverVars
<1> QED
  BY <1>1, <1>2, <1>3, <1>4, <1>5, <1>6, <1>7, <1>8, <1>9, <1>10 DEF Next, SessionStep

\* Whatever packets arrive, the device's address and configuration are some a
\* device may have, and the connection and the answer stay within bounds
\* (usbip_session.rs:35-37, session.rs:520-560).
THEOREM UsbIpTypeCorrect == Spec => []TypeOK
<1>1. Init => TypeOK
  <2> SUFFICES ASSUME Init PROVE TypeOK
    OBVIOUS
  <2>1. /\ state = "Connected" /\ backend \in Backends
        /\ {byControlPlane, driverAttached, detachFailed} \subseteq BOOLEAN
    BY DEF Init, AttachmentInit
  <2>2. /\ reports \in Seq(U8) /\ produced \in Seq(U8) /\ reply \in Seq(Answers)
        /\ net \in Seq(Answers) /\ received \in Seq(Packets) /\ delivered \in Seq(Answers)
    BY DEF Init
  <2>3. sPc = "attach" /\ Len(reply) = 0 /\ Len(net) <= NetCap /\ peer = "open"
    BY UsbIpAssumption DEF Init
  <2>4. address \in 0 .. 127 /\ configuration \in {0} \union ConfigurationValues
    BY DEF Init
  <2> QED
    BY <2>1, <2>2, <2>3, <2>4 DEF TypeOK
<1>2. TypeOK /\ [Next]_vars => TypeOK'
  BY NextTyped
<1> QED
  BY <1>1, <1>2, PTL DEF Spec

-----------------------------------------------------------------------------
(* The answers                                                             *)

\* What is in three sequences in a row.
LEMMA ThreeInARow ==
    ASSUME NEW S, NEW s \in Seq(S), NEW t \in Seq(S), NEW u \in Seq(S)
    PROVE  /\ s \o t \o u \in Seq(S) /\ Len(s \o t \o u) \in Nat
           /\ Elements(s \o t \o u) = Elements(s) \union Elements(t) \union Elements(u)
<1> DEFINE st == s \o t
<1>1. st \in Seq(S) /\ Elements(st) = Elements(s) \union Elements(t)
  BY ElementsConcat
<1> HIDE DEF st
<1>2. st \o u \in Seq(S) /\ Elements(st \o u) = Elements(st) \union Elements(u)
  BY <1>1, ElementsConcat
<1> QED
  BY <1>1, <1>2 DEF st

\* The answers on their way are answers.
LEMMA OutgoingTyped ==
    ASSUME TypeOK
    PROVE  /\ Outgoing \in Seq(Answers) /\ Len(Outgoing) \in Nat
           /\ Elements(Outgoing) = Elements(delivered) \union Elements(net) \union Elements(reply)
BY ThreeInARow DEF TypeOK, Outgoing

\* What a step does to the answers on their way, which reach the client in the
\* order in which they were made while it stays.
Same == UNCHANGED <<Outgoing, received, reports, produced, peer>>

Lost ==
    /\ peer' = "closed" /\ Elements(Outgoing') \subseteq Elements(Outgoing)
    /\ UNCHANGED <<received, reports, produced>>

Answered(p, ret) ==
    /\ received' = Append(received, p)
    /\ Outgoing' = Append(Outgoing, ret)
    /\ ret.seqnum = Len(received) + 1
    /\ UNCHANGED peer

\* A packet that is not for the device to answer.
PassedOver(p) ==
    /\ p.command \notin {"Submit", "Unlink"}
    /\ received' = Append(received, p)
    /\ UNCHANGED <<Outgoing, reports, produced, peer>>

\* An answer waits alone, behind all the others.
LEMMA AnswerGoesLast ==
    ASSUME TypeOK, sPc = "read", NEW ret, Answer(ret), UNCHANGED <<delivered, net>>
    PROVE  Outgoing' = Append(Outgoing, ret)
<1>1. reply = <<>> /\ reply' = <<ret>>
  BY DEF TypeOK, Answer
<1>2. delivered \in Seq(Answers) /\ net \in Seq(Answers)
  BY DEF TypeOK
<1>3. Outgoing = delivered \o net
  <2>1. delivered \o net \in Seq(Answers)
    BY <1>2
  <2> QED
    BY <1>1, <2>1, ConcatEmptySeq DEF Outgoing
<1>4. delivered \o net \in Seq(Answers)
  BY <1>2
<1>5. \A s \in Seq(Answers) : s \o <<ret>> = Append(s, ret)
  OBVIOUS
<1> QED
  BY <1>1, <1>3, <1>4, <1>5 DEF Outgoing

\* Every step that is not about a packet keeps the answers, or loses some with
\* the client.
LEMMA AnswersKept ==
    ASSUME TypeOK, SessionStep \/ ClientRead \/ ClientClose \/ UNCHANGED vars
    PROVE  Same \/ Lost
<1>1. delivered \in Seq(Answers) /\ net \in Seq(Answers) /\ reply \in Seq(Answers)
  BY DEF TypeOK
<1>2. CASE Attach \/ ReadEnd \/ Cleanup \/ Close \/ UNCHANGED vars
  BY <1>2 DEF Attach, ReadEnd, Cleanup, Close, vars, Same, Outgoing
<1>3. CASE Write /\ peer = "open"
  <2>1. net' = net \o reply /\ reply' = <<>>
    BY <1>3 DEF Write
  <2>2. (delivered \o (net \o reply)) \o <<>> = (delivered \o net) \o reply
    <3>1. net \o reply \in Seq(Answers) /\ delivered \o (net \o reply) \in Seq(Answers)
      BY <1>1
    <3> QED
      BY <1>1, <3>1, ConcatAssociative, ConcatEmptySeq
  <2> QED
    BY <1>3, <2>1, <2>2 DEF Write, Same, Outgoing
<1>4. CASE (Write \/ WriteError) /\ peer # "open"
  <2>1. /\ reply' = <<>> /\ UNCHANGED <<delivered, net, received, reports, produced>>
        /\ peer' = "closed"
    BY <1>4 DEF Write, WriteError, TypeOK
  <2>2. Elements(<<>>) = {}
    BY DEF Elements
  <2>3. <<>> \in Seq(Answers) /\ Outgoing' = delivered \o net \o <<>>
    BY <2>1 DEF Outgoing
  <2>4. \A t \in Seq(Answers) : Elements(delivered \o net \o t) =
            Elements(delivered) \union Elements(net) \union Elements(t)
    BY <1>1, ThreeInARow
  <2>5. Elements(Outgoing') = Elements(delivered) \union Elements(net) \union {}
    BY <2>2, <2>3, <2>4, Zenon
  <2> QED
    BY <2>1, <2>5, OutgoingTyped DEF Lost
<1>5. CASE ClientRead
  <2>1. /\ net # <<>> /\ delivered' = Append(delivered, Head(net)) /\ net' = Tail(net)
        /\ UNCHANGED <<reply, received, reports, produced, peer>>
    BY <1>5 DEF ClientRead
  <2>2. Append(delivered, Head(net)) \o Tail(net) = delivered \o net
    BY <1>1, <2>1, HeadMoves
  <2> QED
    BY <2>1, <2>2 DEF Same, Outgoing
<1>6. CASE ClientClose
  <2>1. net' = <<>> /\ peer' = "closed" /\ UNCHANGED <<delivered, reply, received, reports, produced>>
    BY <1>6 DEF ClientClose
  <2>2. Elements(<<>>) = {}
    BY DEF Elements
  <2>3. <<>> \in Seq(Answers) /\ Outgoing' = delivered \o <<>> \o reply
    BY <2>1 DEF Outgoing
  <2>4. \A t \in Seq(Answers) : Elements(delivered \o t \o reply) =
            Elements(delivered) \union Elements(t) \union Elements(reply)
    BY <1>1, ThreeInARow
  <2>5. Elements(Outgoing') = Elements(delivered) \union {} \union Elements(reply)
    BY <2>2, <2>3, <2>4, Zenon
  <2> QED
    BY <2>1, <2>5, OutgoingTyped DEF Lost
<1>7. CASE WriteError
  BY <1>4, <1>7 DEF WriteError
<1> QED
  BY <1>2, <1>3, <1>4, <1>5, <1>6, <1>7 DEF SessionStep

\* What an answer to p may hold.
Allowed(p, ret) ==
    /\ ret.len \in Nat /\ ret.len <= MayCarry(p)
    /\ ret.status # "Ok" => ret.len = 0

LEMMA Carries ==
    ASSUME NEW p
    PROVE  /\ p.command # "Submit" => MayCarry(p) = 0
           /\ p.command = "Submit" =>
                /\ p.endpoint = 0 => MayCarry(p) = p.setup.length
                /\ p.endpoint = HidEndpoint => MayCarry(p) = 8
                /\ p.endpoint \notin {0, HidEndpoint} => MayCarry(p) = 0
BY DEF MayCarry, HidEndpoint, ReportLen

\* A packet may add reports behind those that wait, or fetch the first of them.
AddsReports(ret) ==
    ret.report = <<>> /\ \E made \in Seq(U8) : reports' = reports \o made /\ produced' = produced \o made

FetchesReport(ret) ==
    /\ reports # <<>> /\ ret.report = <<Head(reports)>> /\ reports' = Tail(reports)
    /\ UNCHANGED produced

\* What a packet does.
LEMMA PacketEffect ==
    ASSUME TypeOK, NEW p \in Packets, HandlePacket(p)
    PROVE  \/ PassedOver(p)
           \/ /\ p.command \in {"Submit", "Unlink"}
              /\ \E ret : Answered(p, ret) /\ Allowed(p, ret) /\ (AddsReports(ret) \/ FetchesReport(ret))
<1>1. ReadPacket(p)
  BY DEF HandlePacket, ControlSubmit, InterruptSubmit, OtherSubmit, Unlink, IgnorePacket, BadHeader
<1>2. /\ sPc = "read" /\ received' = Append(received, p) /\ UNCHANGED <<delivered, net, peer>>
      /\ reports \in Seq(U8) /\ produced \in Seq(U8)
  BY <1>1 DEF ReadPacket, TypeOK
<1>3. ASSUME NEW command, NEW status, NEW len, NEW report, Answer(Ret(command, status, len, report))
      PROVE  Answered(p, Ret(command, status, len, report))
  <2>1. Outgoing' = Append(Outgoing, Ret(command, status, len, report))
    BY <1>2, <1>3, AnswerGoesLast
  <2>2. Ret(command, status, len, report).seqnum = Len(received) + 1
    BY DEF Ret, Seqnum
  <2> QED
    BY <1>2, <2>1, <2>2 DEF Answered
<1>4. ASSUME NEW command, NEW status, NEW len, NEW report
      PROVE  /\ Ret(command, status, len, report).status = status
             /\ Ret(command, status, len, report).len = len
             /\ Ret(command, status, len, report).report = report
  BY DEF Ret
<1> HIDE DEF Ret
<1>5. \A ret : ret.report = <<>> /\ UNCHANGED <<reports, produced>> => AddsReports(ret)
  <2>1. <<>> \in Seq(U8) /\ reports \o <<>> = reports /\ produced \o <<>> = produced
    BY <1>2, ConcatEmptySeq
  <2> QED
    BY <2>1 DEF AddsReports
<1>6. CASE ControlSubmit(p)
  <2> DEFINE status == ControlResult(p.setup, TRUE).status
             len == ControlResult(p.setup, TRUE).len
             made == ControlResult(p.setup, TRUE).reports
             ret == Ret("RetSubmit", status, IF status = "Ok" THEN len ELSE 0, <<>>)
  <2>1. p.setup \in SetupPackets /\ p.command = "Submit"
    BY <1>6, PacketTyped DEF ControlSubmit
  <2>2. len \in Nat /\ len <= p.setup.length /\ made \in Seq(U8)
    BY <2>1, ControlResultTyped
  <2>3. reports' = reports \o made /\ produced' = produced \o made /\ Answer(ret)
    BY <1>6 DEF ControlSubmit
  <2> HIDE DEF status, len, made
  <2>4. Answered(p, ret)
    BY <1>3, <2>3
  <2>5. ret.report = <<>> /\ ret.status = status /\ ret.len = IF status = "Ok" THEN len ELSE 0
    BY <1>4
  <2> HIDE DEF ret
  <2>6. p.setup.length \in Nat
    <3>1. p.setup.length \in U16
      BY <2>1 DEF SetupPackets
    <3>2. U16 \subseteq Nat
      BY DEF U16
    <3> QED
      BY <3>1, <3>2
  <2>7. Allowed(p, ret)
    <3> MayCarry(p) = p.setup.length
      BY <2>1, <1>6, Carries DEF ControlSubmit
    <3>1. CASE status = "Ok"
      BY <2>2, <2>5, <3>1 DEF Allowed
    <3>2. CASE status # "Ok"
      BY <2>5, <2>6, <3>2 DEF Allowed
    <3> QED
      BY <3>1, <3>2
  <2>8. AddsReports(ret)
    BY <2>2, <2>3, <2>5 DEF AddsReports
  <2> QED
    BY <2>1, <2>4, <2>7, <2>8
<1>7. CASE InterruptSubmit(p)
  <2>1. p.command = "Submit" /\ MayCarry(p) = 8 /\ UNCHANGED produced
    BY <1>7, Carries DEF InterruptSubmit
  <2>2. CASE reports = <<>>
    <3> DEFINE ret == Ret("RetSubmit", "Ok", 0, <<>>)
    <3>1. Answer(ret) /\ UNCHANGED reports
      BY <1>7, <2>2 DEF InterruptSubmit
    <3>2. Answered(p, ret) /\ ret.report = <<>> /\ ret.status = "Ok" /\ ret.len = 0
      BY <1>3, <1>4, <3>1
    <3> HIDE DEF ret
    <3> QED
      BY <1>5, <2>1, <3>1, <3>2 DEF Allowed
  <2>3. CASE reports # <<>>
    <3> DEFINE ret == Ret("RetSubmit", "Ok", ReportLen, <<Head(reports)>>)
    <3>1. Answer(ret) /\ reports' = Tail(reports)
      BY <1>7, <2>3 DEF InterruptSubmit
    <3>2. Answered(p, ret) /\ ret.report = <<Head(reports)>> /\ ret.status = "Ok" /\ ret.len = 8
      BY <1>3, <1>4, <3>1 DEF ReportLen
    <3> HIDE DEF ret
    <3> QED
      BY <2>1, <2>3, <3>1, <3>2 DEF Allowed, FetchesReport
  <2> QED
    BY <2>2, <2>3
<1>8. CASE OtherSubmit(p)
  <2> DEFINE ret == Ret("RetSubmit", "Stall", 0, <<>>)
  <2>1. p.command = "Submit" /\ MayCarry(p) = 0 /\ UNCHANGED <<reports, produced>> /\ Answer(ret)
    BY <1>8, Carries DEF OtherSubmit
  <2>2. Answered(p, ret) /\ ret.report = <<>> /\ ret.len = 0
    BY <1>3, <1>4, <2>1
  <2> HIDE DEF ret
  <2> QED
    BY <1>5, <2>1, <2>2 DEF Allowed
<1>9. CASE Unlink(p)
  <2> DEFINE ret == Ret("RetUnlink", "Ok", 0, <<>>)
  <2>1. p.command = "Unlink" /\ MayCarry(p) = 0 /\ UNCHANGED <<reports, produced>> /\ Answer(ret)
    BY <1>9, Carries DEF Unlink
  <2>2. Answered(p, ret) /\ ret.report = <<>> /\ ret.status = "Ok" /\ ret.len = 0
    BY <1>3, <1>4, <2>1
  <2> HIDE DEF ret
  <2> QED
    BY <1>5, <2>1, <2>2 DEF Allowed
<1>10. CASE IgnorePacket(p) \/ BadHeader(p)
  BY <1>2, <1>10 DEF IgnorePacket, BadHeader, PassedOver, Outgoing
<1> QED
  BY <1>6, <1>7, <1>8, <1>9, <1>10 DEF HandlePacket

\* The answers are those of the packets received, in their order, each within
\* what its packet allows.
AnswersInv ==
    /\ \A a \in Elements(Outgoing) : a.seqnum \in Answerable /\ WithinRequest(a)
    /\ peer = "open" =>
        /\ \A i, j \in 1 .. Len(Outgoing) : i < j => Outgoing[i].seqnum < Outgoing[j].seqnum
        /\ \A n \in Answerable : \E a \in Elements(Outgoing) : a.seqnum = n

\* Another packet changes nothing about those before it.
LEMMA AnotherPacket ==
    ASSUME TypeOK, NEW p \in Packets, received' = Append(received, p)
    PROVE  /\ Answerable \subseteq Answerable'
           /\ Answerable' \subseteq Answerable \union {Len(received) + 1}
           /\ Len(received) + 1 \in Answerable' <=> p.command \in {"Submit", "Unlink"}
           /\ \A a : a.seqnum \in Answerable /\ WithinRequest(a) => WithinRequest(a)'
           /\ received'[Len(received) + 1] = p
<1>1. received \in Seq(Packets) /\ Len(received) \in Nat
  BY DEF TypeOK
<1>2. /\ Len(received') = Len(received) + 1 /\ received'[Len(received) + 1] = p
      /\ \A n \in 1 .. Len(received) : received'[n] = received[n]
  BY <1>1
<1>3. \A a : a.seqnum \in Answerable /\ WithinRequest(a) => WithinRequest(a)'
  BY <1>1, <1>2 DEF Answerable, WithinRequest
<1> QED
  BY <1>1, <1>2, <1>3 DEF Answerable

\* The invariant is inductive.
LEMMA NextAnswers ==
    ASSUME TypeOK, AnswersInv, [Next]_vars
    PROVE  AnswersInv'
<1>1. Outgoing \in Seq(Answers) /\ Len(Outgoing) \in Nat /\ Len(received) \in Nat
  BY OutgoingTyped DEF TypeOK
<1>2. CASE Same
  BY <1>2 DEF Same, AnswersInv, Answerable, WithinRequest
<1>3. CASE Lost
  BY <1>3 DEF Lost, AnswersInv, Answerable, WithinRequest
<1>4. ASSUME NEW p \in Packets, PassedOver(p)
      PROVE  AnswersInv'
  <2>1. received' = Append(received, p) /\ UNCHANGED <<Outgoing, peer>> /\ Answerable' = Answerable
    BY <1>4, AnotherPacket DEF PassedOver
  <2> QED
    BY <2>1, AnotherPacket DEF AnswersInv
<1>5. ASSUME NEW p \in Packets, NEW ret, Answered(p, ret), Allowed(p, ret),
             p.command \in {"Submit", "Unlink"}
      PROVE  AnswersInv'
  <2>1. /\ received' = Append(received, p) /\ Outgoing' = Append(Outgoing, ret) /\ UNCHANGED peer
        /\ ret.seqnum = Len(received) + 1
    BY <1>5 DEF Answered
  <2>2. /\ Len(Outgoing') = Len(Outgoing) + 1 /\ Outgoing'[Len(Outgoing) + 1] = ret
        /\ \A i \in 1 .. Len(Outgoing) : Outgoing'[i] = Outgoing[i]
    BY <1>1, <2>1
  <2>3. Elements(Outgoing') = Elements(Outgoing) \union {ret}
    BY <1>1, <2>2 DEF Elements
  <2>4. ret.seqnum \in Answerable' /\ WithinRequest(ret)'
    <3>1. Len(received) + 1 \in Answerable' /\ received'[Len(received) + 1] = p
      BY <1>5, <2>1, AnotherPacket
    <3>2. MayCarry(p) \in Nat
      <4>1. p.command = "Submit" => p.setup.length \in U16
        <5>1. \A setup \in SetupPackets : setup.length \in U16
          BY DEF SetupPackets
        <5> QED
          BY <5>1, PacketTyped
      <4>2. U16 \subseteq Nat
        BY DEF U16
      <4>3. CASE p.command = "Submit" /\ p.endpoint = 0
        <5>1. MayCarry(p) = p.setup.length
          BY <4>3, Carries
        <5> QED
          BY <4>1, <4>2, <4>3, <5>1
      <4>4. CASE ~(p.command = "Submit" /\ p.endpoint = 0)
        <5>1. MayCarry(p) = 0 \/ MayCarry(p) = 8
          BY <4>4, Carries
        <5> QED
          BY <5>1
      <4> QED
        BY <4>3, <4>4
    <3>3. p.command = "Submit" => p.transfer_buffer_length \in Nat
      BY PacketTyped
    <3> QED
      BY <1>5, <2>1, <3>1, <3>2, <3>3 DEF WithinRequest, Allowed
  <2>5. \A a \in Elements(Outgoing') : a.seqnum \in Answerable' /\ WithinRequest(a)'
    BY <2>1, <2>3, <2>4, AnotherPacket DEF AnswersInv
  <2>6. ASSUME peer = "open", NEW i \in 1 .. Len(Outgoing'), NEW j \in 1 .. Len(Outgoing'), i < j
        PROVE  Outgoing'[i].seqnum < Outgoing'[j].seqnum
    <3>1. i \in 1 .. Len(Outgoing) /\ Outgoing'[i] = Outgoing[i]
      BY <1>1, <2>2, <2>6
    <3>2. CASE j \in 1 .. Len(Outgoing)
      BY <2>2, <2>6, <3>1, <3>2 DEF AnswersInv
    <3>3. CASE j = Len(Outgoing) + 1
      <4>1. Outgoing[i].seqnum \in 1 .. Len(received)
        BY <3>1 DEF AnswersInv, Elements, Answerable
      <4> QED
        BY <1>1, <2>1, <2>2, <3>1, <3>3, <4>1
    <3> QED
      BY <1>1, <2>2, <3>2, <3>3
  <2>7. ASSUME peer = "open", NEW n \in Answerable'
        PROVE  \E a \in Elements(Outgoing') : a.seqnum = n
    <3>1. CASE n \in Answerable
      BY <2>3, <2>7, <3>1 DEF AnswersInv
    <3>2. CASE n = Len(received) + 1
      BY <2>1, <2>3, <3>2
    <3> QED
      BY <2>1, <3>1, <3>2, AnotherPacket
  <2> QED
    BY <2>1, <2>5, <2>6, <2>7 DEF AnswersInv
<1>6. CASE \E p \in Packets : HandlePacket(p)
  BY <1>4, <1>5, <1>6, PacketEffect
<1> QED
  BY <1>2, <1>3, <1>6, AnswersKept DEF Next

\* Every submit and unlink is answered once, in the order of arrival, while the
\* client stays, and no answer holds anything besides an error, or more than its
\* setup packet's wLength or one report: it fits transfer_buffer_length where a
\* host made that no shorter (usbip_session.rs:45-107, :168-175, :229-234,
\* session.rs:538).
THEOREM UsbIpAnswersInOrder == Spec => []AnsweredInOrder
<1>1. Init => AnswersInv
  <2> SUFFICES ASSUME Init PROVE AnswersInv
    OBVIOUS
  <2>1. Outgoing = <<>> /\ received = <<>>
    BY DEF Init, Outgoing
  <2> QED
    BY <2>1 DEF AnswersInv, Elements, Answerable
<1>2. TypeOK /\ AnswersInv /\ [Next]_vars => AnswersInv'
  BY NextAnswers
<1>3. TypeOK /\ AnswersInv => AnsweredInOrder
  <2> SUFFICES ASSUME TypeOK, AnswersInv PROVE AnsweredInOrder
    OBVIOUS
  <2>1. \A i \in 1 .. Len(Outgoing) : Outgoing[i] \in Elements(Outgoing)
    BY DEF Elements
  <2>2. {Outgoing[i].seqnum : i \in 1 .. Len(Outgoing)} = {a.seqnum : a \in Elements(Outgoing)}
    BY DEF Elements
  <2>3. peer = "open" => {Outgoing[i].seqnum : i \in 1 .. Len(Outgoing)} = Answerable
    BY <2>2 DEF AnswersInv
  <2> QED
    BY <2>1, <2>3 DEF AnswersInv, AnsweredInOrder
<1> QED
  BY <1>1, <1>2, <1>3, UsbIpTypeCorrect, PTL DEF Spec

-----------------------------------------------------------------------------
(* The input reports                                                       *)

\* The reports made are those fetched, and then those that wait.
ReportsInv ==
    peer = "open" =>
        /\ Fetched(Outgoing, Len(Outgoing)) <= Len(produced)
        /\ reports = SubSeq(produced, Fetched(Outgoing, Len(Outgoing)) + 1, Len(produced))
        /\ \A i \in 1 .. Len(Outgoing) : Outgoing[i].report # <<>> =>
            /\ Fetched(Outgoing, i) <= Len(produced)
            /\ Outgoing[i].report = <<produced[Fetched(Outgoing, i)]>>

\* How one more answer counts: t is s with ret behind it.
Counted(s, t, ret) ==
    /\ \A i \in 1 .. Len(s) : t[i] = s[i] /\ Fetched(t, i) = Fetched(s, i)
    /\ Len(t) = Len(s) + 1 /\ t[Len(s) + 1] = ret
    /\ Fetched(t, Len(s) + 1) = Fetched(s, Len(s)) + IF ret.report # <<>> THEN 1 ELSE 0
    /\ Fetched(s, Len(s)) \in Nat
    /\ \A i \in 1 .. Len(s) : s[i].report # <<>> => Fetched(s, i) \in Nat \ {0}

\* An answer appended counts one more report if it carries one.
LEMMA FetchedGrows ==
    ASSUME NEW s \in Seq(Answers), NEW t, NEW ret, t = Append(s, ret)
    PROVE  Counted(s, t, ret)
<1> DEFINE n == Len(s)
           T == {i \in Nat : s[i].report # <<>>}
           U == {i \in Nat : t[i].report # <<>>}
<1>1. n \in Nat
  OBVIOUS
<1>2. Len(t) = n + 1 /\ t[n + 1] = ret /\ \A i \in 1 .. n : t[i] = s[i]
  OBVIOUS
<1>3. \A i \in Nat : /\ {j \in 1 .. i : s[j].report # <<>>} = T \intersect (1 .. i)
                     /\ {j \in 1 .. i : t[j].report # <<>>} = U \intersect (1 .. i)
  <2> TAKE i \in Nat
  <2>1. 1 .. i \subseteq Nat
    OBVIOUS
  <2> QED
    BY <2>1, Zenon
<1>4. \A i \in Nat : /\ Fetched(s, i) = Cardinality(T \intersect (1 .. i))
                     /\ Fetched(t, i) = Cardinality(U \intersect (1 .. i))
  BY <1>3 DEF Fetched
<1>5. \A i \in 0 .. n : T \intersect (1 .. i) = U \intersect (1 .. i)
  BY <1>1, <1>2
<1>6. n + 1 \in U <=> ret.report # <<>>
  BY <1>1, <1>2
<1>7. \A i \in 1 .. n : s[i].report # <<>> => i \in T
  BY <1>1
<1> HIDE DEF n, T, U
<1>8. \A i \in 0 .. n : Fetched(t, i) = Fetched(s, i)
  <2>1. 0 .. n \subseteq Nat
    BY <1>1
  <2> QED
    BY <1>4, <1>5, <2>1, Zenon
<1>9. Fetched(s, n) \in Nat /\ Fetched(t, n + 1) = Fetched(s, n) + IF n + 1 \in U THEN 1 ELSE 0
  <2>1. /\ Cardinality(U \intersect (1 .. n)) \in Nat
        /\ Cardinality(U \intersect (1 .. n + 1)) =
            Cardinality(U \intersect (1 .. n)) + IF n + 1 \in U THEN 1 ELSE 0
    BY <1>1, CountOneMore
  <2>2. Fetched(s, n) = Cardinality(U \intersect (1 .. n))
    BY <1>1, <1>4, <1>5
  <2>3. Fetched(t, n + 1) = Cardinality(U \intersect (1 .. n + 1))
    <3>1. n + 1 \in Nat
      BY <1>1
    <3> QED
      BY <1>4, <3>1, Zenon
  <2> QED
    BY <2>1, <2>2, <2>3
<1>10. \A i \in 1 .. n : s[i].report # <<>> => Fetched(s, i) \in Nat \ {0}
  <2> SUFFICES ASSUME NEW i \in 1 .. n, s[i].report # <<>>
               PROVE  Fetched(s, i) \in Nat \ {0}
    OBVIOUS
  <2>1. i \in Nat /\ i \in T /\ i \in 1 .. i
    BY <1>1, <1>7
  <2>2. Cardinality(T \intersect (1 .. i)) >= 1 /\ Cardinality(T \intersect (1 .. i)) \in Nat
    BY <2>1, CountedOnce, CountOneMore
  <2> QED
    <3>1. Fetched(s, i) = Cardinality(T \intersect (1 .. i))
      BY <1>4, <2>1, Zenon
    <3>2. Cardinality(T \intersect (1 .. i)) \in Nat \ {0}
      BY <2>2
    <3> QED
      BY <3>1, <3>2, Zenon
<1> QED
  BY <1>1, <1>2, <1>6, <1>8, <1>9, <1>10 DEF n, Counted

\* An answer without a report leaves those that wait in place.
LEMMA ReportsAdded ==
    ASSUME TypeOK, ReportsInv, NEW ret, Outgoing' = Append(Outgoing, ret), UNCHANGED peer,
           AddsReports(ret)
    PROVE  ReportsInv'
<1> SUFFICES ASSUME peer = "open" PROVE ReportsInv'
  BY DEF ReportsInv
<1> DEFINE n == Len(Outgoing)
           c == Fetched(Outgoing, n)
           now == Outgoing'
<1>1. PICK made \in Seq(U8) : reports' = reports \o made /\ produced' = produced \o made
  BY DEF AddsReports
<1>2. ret.report = <<>>
  BY DEF AddsReports
<1>3. /\ n \in Nat /\ c \in Nat /\ Len(now) = n + 1 /\ Fetched(now, n + 1) = c
      /\ now[n + 1] = ret
      /\ \A i \in 1 .. n : now[i] = Outgoing[i] /\ Fetched(now, i) = Fetched(Outgoing, i)
      /\ \A i \in 1 .. n : Outgoing[i].report # <<>> => Fetched(Outgoing, i) \in Nat \ {0}
  <2>1. Outgoing \in Seq(Answers) /\ n \in Nat /\ now = Append(Outgoing, ret)
    BY OutgoingTyped
  <2>2. Counted(Outgoing, now, ret)
    BY <2>1, FetchedGrows
  <2> HIDE DEF now
  <2> QED
    BY <1>2, <2>1, <2>2 DEF Counted
<1>4. /\ produced \in Seq(U8) /\ Len(produced) \in Nat /\ c <= Len(produced)
      /\ reports = SubSeq(produced, c + 1, Len(produced))
      /\ \A i \in 1 .. n : Outgoing[i].report # <<>> =>
            Fetched(Outgoing, i) <= Len(produced) /\ Outgoing[i].report = <<produced[Fetched(Outgoing, i)]>>
  <2>1. produced \in Seq(U8) /\ Len(produced) \in Nat
    BY DEF TypeOK
  <2> QED
    BY <2>1, Zenon DEF ReportsInv
<1>5. /\ Len(produced') = Len(produced) + Len(made) /\ Len(made) \in Nat
      /\ \A i \in 1 .. Len(produced) : produced'[i] = produced[i]
  BY <1>1, <1>4, ConcatProperties
<1> HIDE DEF n, c, now
<1>6. reports' = SubSeq(produced', c + 1, Len(produced'))
  <2>1. c + 1 \in 1 .. Len(produced) + 1
    BY <1>3, <1>4
  <2> QED
    BY <1>1, <1>4, <2>1, EndGrows
<1>7. ASSUME NEW i \in 1 .. n + 1, now[i].report # <<>>
      PROVE  Fetched(now, i) <= Len(produced') /\ now[i].report = <<produced'[Fetched(now, i)]>>
  <2>1. i \in 1 .. n
    BY <1>2, <1>3, <1>7
  <2>2. /\ Fetched(now, i) = Fetched(Outgoing, i) /\ Outgoing[i].report = <<produced[Fetched(Outgoing, i)]>>
        /\ Fetched(Outgoing, i) \in 1 .. Len(produced) /\ now[i].report = Outgoing[i].report
    BY <1>3, <1>4, <1>7, <2>1
  <2>3. produced'[Fetched(Outgoing, i)] = produced[Fetched(Outgoing, i)] /\ Fetched(Outgoing, i) <= Len(produced')
    BY <1>4, <1>5, <2>2
  <2> QED
    BY <2>2, <2>3
<1>8. c <= Len(produced')
  BY <1>3, <1>4, <1>5
<1>9. /\ Fetched(now, Len(now)) <= Len(produced')
      /\ reports' = SubSeq(produced', Fetched(now, Len(now)) + 1, Len(produced'))
  BY <1>3, <1>6, <1>8
<1> QED
  BY <1>3, <1>7, <1>9 DEF ReportsInv, now

\* An answer with a report carries the first of those that wait.
LEMMA ReportFetched ==
    ASSUME TypeOK, ReportsInv, NEW ret, Outgoing' = Append(Outgoing, ret), UNCHANGED peer,
           FetchesReport(ret)
    PROVE  ReportsInv'
<1> SUFFICES ASSUME peer = "open" PROVE ReportsInv'
  BY DEF ReportsInv
<1> DEFINE n == Len(Outgoing)
           c == Fetched(Outgoing, n)
           now == Outgoing'
<1>1. /\ reports # <<>> /\ ret.report = <<Head(reports)>> /\ reports' = Tail(reports)
      /\ UNCHANGED produced /\ ret.report # <<>>
  BY DEF FetchesReport
<1>2. /\ n \in Nat /\ c \in Nat /\ Len(now) = n + 1 /\ Fetched(now, n + 1) = c + 1
      /\ now[n + 1] = ret
      /\ \A i \in 1 .. n : now[i] = Outgoing[i] /\ Fetched(now, i) = Fetched(Outgoing, i)
  <2>1. Outgoing \in Seq(Answers) /\ n \in Nat /\ now = Append(Outgoing, ret)
    BY OutgoingTyped
  <2>2. Counted(Outgoing, now, ret)
    BY <2>1, FetchedGrows
  <2> HIDE DEF now
  <2> QED
    BY <1>1, <2>1, <2>2 DEF Counted
<1>3. /\ produced \in Seq(U8) /\ Len(produced) \in Nat /\ c <= Len(produced)
      /\ reports = SubSeq(produced, c + 1, Len(produced))
      /\ \A i \in 1 .. n : Outgoing[i].report # <<>> =>
            Fetched(Outgoing, i) <= Len(produced) /\ Outgoing[i].report = <<produced[Fetched(Outgoing, i)]>>
  <2>1. produced \in Seq(U8) /\ Len(produced) \in Nat
    BY DEF TypeOK
  <2> QED
    BY <2>1, Zenon DEF ReportsInv
<1> HIDE DEF n, c, now
<1>4. /\ c + 1 \in 1 .. Len(produced) /\ ret.report = <<produced[c + 1]>>
      /\ reports' = SubSeq(produced, c + 2, Len(produced))
  <2>1. c + 1 \in 1 .. Len(produced) + 1 /\ c + 1 + 1 = c + 2
    BY <1>2, <1>3
  <2> QED
    BY <1>1, <1>3, <2>1, EndShrinks
<1>5. ASSUME NEW i \in 1 .. n + 1, now[i].report # <<>>
      PROVE  Fetched(now, i) <= Len(produced') /\ now[i].report = <<produced'[Fetched(now, i)]>>
  <2>1. CASE i \in 1 .. n
    BY <1>1, <1>2, <1>3, <1>5, <2>1
  <2>2. CASE i = n + 1
    BY <1>1, <1>2, <1>4, <2>2
  <2> QED
    BY <1>2, <2>1, <2>2
<1>6. /\ Fetched(now, Len(now)) <= Len(produced')
      /\ reports' = SubSeq(produced', Fetched(now, Len(now)) + 1, Len(produced'))
  <2>1. Fetched(now, Len(now)) = c + 1 /\ c + 1 + 1 = c + 2
    BY <1>2
  <2>2. Fetched(now, Len(now)) <= Len(produced') /\ Fetched(now, Len(now)) + 1 = c + 2
    BY <1>1, <1>3, <1>4, <2>1
  <2> QED
    BY <1>1, <1>4, <2>2
<1> QED
  BY <1>2, <1>5, <1>6 DEF ReportsInv, now

\* Every step keeps the reports in order.
LEMMA NextReports ==
    ASSUME TypeOK, ReportsInv, [Next]_vars
    PROVE  ReportsInv'
<1>1. CASE Same
  BY <1>1 DEF Same, ReportsInv, Fetched
<1>2. CASE Lost
  BY <1>2 DEF Lost, ReportsInv
<1>3. CASE \E p \in Packets : HandlePacket(p)
  <2>1. PICK p \in Packets : HandlePacket(p)
    BY <1>3
  <2>2. CASE PassedOver(p)
    BY <2>2 DEF PassedOver, ReportsInv, Fetched
  <2>3. ASSUME NEW ret, Answered(p, ret), AddsReports(ret) \/ FetchesReport(ret)
        PROVE  ReportsInv'
    BY <2>3, ReportsAdded, ReportFetched DEF Answered
  <2> QED
    BY <2>1, <2>2, <2>3, PacketEffect
<1> QED
  BY <1>1, <1>2, <1>3, AnswersKept DEF Next

\* No input report is lost, repeated or overtaken between the request that makes
\* it and the one that fetches it (usbip_session.rs:168-176, :220-224).
THEOREM UsbIpReportsInOrder == Spec => []ReportsInOrder
<1>1. Init => ReportsInv
  <2> SUFFICES ASSUME Init PROVE ReportsInv
    OBVIOUS
  <2>1. Outgoing = <<>> /\ reports = <<>> /\ produced = <<>>
    BY DEF Init, Outgoing
  <2>2. Fetched(<<>>, 0) = 0
    <3>1. {i \in 1 .. 0 : <<>>[i].report # <<>>} = {}
      OBVIOUS
    <3> QED
      BY <3>1, FS_EmptySet DEF Fetched
  <2>3. SubSeq(<<>>, 1, 0) = <<>>
    BY SubSeqEmpty
  <2> QED
    BY <2>1, <2>2, <2>3 DEF ReportsInv
<1>2. TypeOK /\ ReportsInv /\ [Next]_vars => ReportsInv'
  BY NextReports
<1>3. ReportsInv => ReportsInOrder
  BY DEF ReportsInv, ReportsInOrder
<1> QED
  BY <1>1, <1>2, <1>3, UsbIpTypeCorrect, PTL DEF Spec

-----------------------------------------------------------------------------
(* The attachment                                                          *)

\* The inductive invariant: nothing is attached before the attach, or by one
\* that the driver refused; and after the cleanup only what it would not detach.
ReleaseInv ==
    /\ FlagTells
    /\ sPc \in {"attach", "refused"} => ~driverAttached
    /\ sPc \in {"close", "done"} /\ driverAttached => detachFailed

\* A step that leaves the attachment alone keeps the invariant, unless it is
\* the first or one of the last.
LEMMA AttachmentKept ==
    ASSUME ReleaseInv, UNCHANGED <<byControlPlane, driverAttached, detachFailed>>,
           sPc' \in {"read", "write", "cleanup"} \/ sPc' = sPc \/ (sPc = "close" /\ sPc' = "done")
    PROVE  ReleaseInv'
BY DEF ReleaseInv, FlagTells

\* The packets: handle_submit and unlink touch neither the driver nor the flag.
LEMMA PacketStep ==
    ASSUME ReleaseInv, NEW p \in Packets, HandlePacket(p)
    PROVE  ReleaseInv'
<1>1. UNCHANGED attachmentVars
  BY DEF HandlePacket, ControlSubmit, InterruptSubmit, OtherSubmit, Unlink, IgnorePacket, BadHeader,
         ReadPacket
<1>2. sPc' \in {"write", "cleanup"} \/ sPc' = sPc
  BY DEF HandlePacket, ControlSubmit, InterruptSubmit, OtherSubmit, Unlink, IgnorePacket, BadHeader,
         Answer
<1> QED
  BY <1>1, <1>2, AttachmentKept DEF attachmentVars, driverVars

\* The invariant is inductive.
LEMMA NextReleases == ReleaseInv /\ [Next]_vars => ReleaseInv'
<1> SUFFICES ASSUME ReleaseInv, [Next]_vars PROVE ReleaseInv'
  OBVIOUS
<1>1. CASE \E p \in Packets : HandlePacket(p)
  BY <1>1, PacketStep
<1>2. CASE Attach
  <2>1. PICK ok \in AttachAnswers : AttachSession(ok) /\ sPc' = IF ok THEN "read" ELSE "refused"
    BY <1>2 DEF Attach
  <2>2. FlagTells' /\ (~ok => driverAttached' = driverAttached)
    BY <2>1, AttachFacts DEF ReleaseInv
  <2> QED
    BY <1>2, <2>1, <2>2 DEF ReleaseInv, Attach
<1>3. CASE ReadEnd \/ Write \/ WriteError \/ Close
  BY <1>3, AttachmentKept DEF ReadEnd, Write, WriteError, Close, attachmentVars, driverVars
<1>4. CASE Cleanup
  <2>1. PICK ok \in DetachAnswers : DetachSession("Detaching", ok)
    BY <1>4 DEF Cleanup
  <2>2. FlagTells' /\ (driverAttached' => detachFailed')
    BY <2>1, DetachFacts DEF ReleaseInv
  <2> QED
    BY <1>4, <2>2 DEF ReleaseInv, Cleanup
<1>5. CASE ClientRead \/ ClientClose \/ UNCHANGED vars
  BY <1>5, AttachmentKept DEF ClientRead, ClientClose, vars, attachmentVars, driverVars
<1> QED
  BY <1>1, <1>2, <1>3, <1>4, <1>5 DEF Next, SessionStep

\* A refused attach leaves no device attached, and a session that is done leaves
\* one only when the driver refused the detach of the cleanup, for any packets
\* in any number (usbip_session.rs:24-32, :109-112).
THEOREM UsbIpReleases == Spec => []AttachmentReleased
<1>1. Init => ReleaseInv
  BY DEF Init, AttachmentInit, ReleaseInv, FlagTells
<1>2. ReleaseInv => AttachmentReleased
  BY DEF ReleaseInv, FlagTells, AttachmentReleased, Released
<1> QED
  BY <1>1, <1>2, NextReleases, PTL DEF Spec
=============================================================================
