--------------------------- MODULE MCUsbIpSession ---------------------------
(* Instances of UsbIpSession for TLC.                                      *)
EXTENDS UsbIpSession

Submit(endpoint, room, setup) ==
    [command |-> "Submit", endpoint |-> endpoint, transfer_buffer_length |-> room, setup |-> setup]
NoSetup == Setup(0, 0, 0, 0)
Other(command) == [command |-> command]

MCKeycodes == <<4, 5>>

\* Descriptors present and absent, asked for in part, in full and for an
\* interface beyond a byte; addresses and configurations around their limits.
MCSetups ==
    { Setup(GetDescriptor, 256 * Configuration, 0, 9), Setup(GetDescriptor, 256 * Report, 256, 64),
      Setup(GetDescriptor, 256 * 3, 0, 255), Setup(SetAddress, 127, 0, 0),
      Setup(SetAddress, 128, 0, 0), Setup(SetConfiguration, 0, 0, 0),
      Setup(SetConfiguration, 1, 0, 0), Setup(SetConfiguration, 257, 0, 0) }

\* Hosts with room for what they ask for, and two without any: of those the
\* first is the one in the code's own test.
MCPackets ==
    { Submit(0, setup.length, setup) : setup \in MCSetups } \union
    { Submit(0, 0, Setup(GetDescriptor, 256 * Device, 0, 18)),
      Submit(HidEndpoint, ReportLen, NoSetup), Submit(HidEndpoint, 0, NoSetup),
      Submit(2, 64, NoSetup), Other("Unlink"), Other("Ret"), Other("Bad") }
=============================================================================
