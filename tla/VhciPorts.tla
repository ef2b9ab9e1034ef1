------------------------------ MODULE VhciPorts ------------------------------
(***************************************************************************)
(* The client's view of the Linux virtual host controller                  *)
(* (client/src/vhci.rs): what it probes when it starts, and the attach     *)
(* request it prepares once it is connected.                               *)
(*                                                                         *)
(* A line of the status file is the sequence of its words.  Where the code *)
(* parses a number the word is that number, or Garbled.                    *)
(***************************************************************************)
EXTENDS Integers, Sequences
Ext == INSTANCE SequencesExt

\* LinuxUsbSpeed
High == 3
Super == 5

Garbled == -1

\* A port number is converted to 16 bits.
PortNumbers == 65536

\* parse_vhci_status_line gives up on a line without its six first words and
\* on a word that is no number where one must be; a missing bus id is "".
Parses(line) == Len(line) >= 6 /\ \A i \in {2, 4, 5, 6} : line[i] # Garbled

\* The third word, the port's status, is kept and never looked at.
Port(line) ==
    [hub |-> line[1], port |-> line[2] % PortNumbers, deviceId |-> line[5], socketFd |-> line[6],
     busId |-> IF Len(line) >= 7 THEN line[7] ELSE ""]

\* parse_vhci_status, for the lines after the heading.
ParseStatus(lines) ==
    Ext!FlattenSeq([i \in 1 .. Len(lines) |->
                      IF Parses(lines[i]) THEN <<Port(lines[i])>> ELSE <<>>])

\* probe_paths: a status file that is missing has no table, and no attach
\* file beside it.
Probe(system) ==
    [moduleLoaded |-> system.module,
     statusPath |-> system.status,
     attachPath |-> system.status /\ system.attach,
     ports |-> IF system.status THEN ParseStatus(system.lines) ELSE <<>>]

IsReady(probe) == probe.moduleLoaded /\ probe.statusPath /\ probe.attachPath

IsFreeByDevice(port) == port.deviceId = 0

IsFree(port) == port.deviceId = 0 /\ port.socketFd = 0 /\ port.busId = "0-0"

\* The place of first_free_port in the table, or 0.
FirstFreePort(probe) == Ext!SelectInSeq(probe.ports, IsFree)

DefaultAttachSpeed(port) == IF port.hub = "ss" THEN Super ELSE High

\* prepare_linux_attach_dry_run: the request that is logged, if there is a free
\* port.
AttachPlan(probe) ==
    LET first == FirstFreePort(probe)
        port == probe.ports[first]
    IN  IF first = 0 THEN <<>>
        ELSE <<[port |-> port.port, speed |-> DefaultAttachSpeed(port)]>>
=============================================================================
