-------------------------- MODULE ControlEndpoint --------------------------
(***************************************************************************)
(* Endpoint 0 of the mock keyboard: handle_control_request                 *)
(* (daemon/src/session.rs), which the daemon's own protocol and USB/IP     *)
(* share, on the setup packets and descriptors of protocol/src/lib.rs.     *)
(*                                                                         *)
(* A setup packet keeps its 16-bit numbers; the bytes of a descriptor are  *)
(* abstracted to its name and length.                                      *)
(***************************************************************************)
EXTENDS Integers, Sequences

CONSTANT HidKeycodes    \* mock_hid_keycodes: the keys pressed once configured

\* u8 and u16.
U8 == 0 .. 255
U16 == 0 .. 65535

ASSUME KeycodeAssumption == HidKeycodes \in Seq(U8)

\* USB_REQ_* and USB_DESC_*
SetAddress == 5
GetDescriptor == 6
SetConfiguration == 9

Device == 1
Configuration == 2
Report == 34
DescriptorTypes == {Device, Configuration, 3, 4, 5, Report}

Setup(request, value, index, length) ==
    [request |-> request, value |-> value, index |-> index, length |-> length]

\* UsbControlSetup, with the widths of its fields.
SetupPackets ==
    [request : U8, value : U16, index : U16, length : U16]

\* descriptor_type and descriptor_index: the two bytes of the value.
DescriptorType(setup) == setup.value \div 256
DescriptorIndex(setup) == setup.value % 256

\* UsbDescriptorSet::mock_hid_keyboard: one configuration, of value 1, with one
\* interface, of number 0.  The lengths are those of the encoded descriptors:
\* the configuration's holds its interface, HID and endpoint descriptors.
ConfigurationValues == {1}
DescriptorLen == [d \in {Device, Configuration, Report} |->
                    CASE d = Device -> 18 [] d = Configuration -> 34 [] d = Report -> 63]

\* The descriptors there are.  For a report descriptor the packet's index
\* names the interface, of which the code takes the low byte.
HasDescriptor(setup) ==
    \/ DescriptorType(setup) = Device
    \/ DescriptorType(setup) = Configuration /\ DescriptorIndex(setup) = 0
    \/ DescriptorType(setup) = Report /\ DescriptorIndex(setup) = 0 /\ setup.index % 256 = 0

\* mock_hid_keyboard_events: a press (the keycode) and a release (0) each.
HidReports ==
    [i \in 1 .. 2 * Len(HidKeycodes) |-> IF i % 2 = 1 THEN HidKeycodes[(i + 1) \div 2] ELSE 0]

Result(status, len, reports) == [status |-> status, len |-> len, reports |-> reports]

\* truncate to the length the host asked for.
Truncated(len, length) == IF len <= length THEN len ELSE length

GetDescriptorResult(setup, known) ==
    CASE DescriptorType(setup) \notin DescriptorTypes -> Result("Stall", 0, <<>>)
      [] DescriptorType(setup) \in DescriptorTypes /\ ~known -> Result("Failed", 0, <<>>)
      [] DescriptorType(setup) \in DescriptorTypes /\ known ->
            IF ~HasDescriptor(setup) THEN Result("Stall", 0, <<>>)
            ELSE Result("Ok", Truncated(DescriptorLen[DescriptorType(setup)], setup.length), <<>>)

AddressOffByOne(setup) == setup.value <= 128 /\ setup.length = 0

AddressValid(setup) == setup.value <= 127 /\ setup.length = 0

ConfigurationValid(setup, known) ==
    /\ setup.value <= 255 /\ setup.length = 0
    /\ setup.value = 0 \/ (known /\ setup.value \in ConfigurationValues)

\* handle_control_request; known says whether a descriptor set was made by an
\* attach.
ControlResult(setup, known) ==
    CASE setup.request = GetDescriptor -> GetDescriptorResult(setup, known)
      [] setup.request = SetAddress ->
            Result(IF AddressValid(setup) THEN "Ok" ELSE "Stall", 0, <<>>)
      [] setup.request = SetConfiguration ->
            IF ~ConfigurationValid(setup, known) THEN Result("Stall", 0, <<>>)
            ELSE Result("Ok", 0, IF setup.value = 0 THEN <<>> ELSE HidReports)
      [] OTHER -> Result("Stall", 0, <<>>)

\* assigned_address and active_configuration after the request.
AddressAfter(setup, address) ==
    IF setup.request = SetAddress /\ AddressValid(setup) THEN setup.value ELSE address

ConfigurationAfter(setup, known, configuration) ==
    IF setup.request = SetConfiguration /\ ConfigurationValid(setup, known)
    THEN setup.value ELSE configuration
=============================================================================
