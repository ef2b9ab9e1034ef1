---------------------------- MODULE DescriptorSet ----------------------------
(***************************************************************************)
(* The descriptors of the device, which the daemon sends with its answer   *)
(* to an attach and the client decodes (protocol/src/lib.rs):              *)
(* UsbDescriptorSet::encode as operators, and UsbDescriptorSet::decode     *)
(* step by step, over bytes.                                               *)
(*                                                                         *)
(* Lengths and counts are written in four places, one inside the other:    *)
(* the header of the set, the total length of a configuration, the         *)
(* endpoint count of an interface, the length of each descriptor.  The     *)
(* decoder meets encodings of known sets, whole, cut short, lengthened,    *)
(* and with one byte altered, and then the encoding of the set it          *)
(* accepted.  Fields that nothing interprets stay together.                *)
(***************************************************************************)
EXTENDS Integers, Sequences
LOCAL INSTANCE SequencesExt

CONSTANTS
    Sets,           \* descriptor sets of the daemon's devices
    Foreign,        \* encodings that encode would not write, in another order
    Altered         \* the bytes that an altered byte may become

Magic == <<87, 68, 69, 83>>     \* "WDES"
Version == 1
DeviceType == 1
ConfigurationType == 2
InterfaceType == 4
EndpointType == 5
ReportType == 34

-----------------------------------------------------------------------------
(* Encoding.  A set has the 15 bytes of its device descriptor and a        *)
(* sequence of configurations; a configuration its four bytes, further     *)
(* descriptors and interfaces; an interface its six bytes, further         *)
(* descriptors, endpoints of five bytes, and a report descriptor or <<>>.  *)

Le16(n) == <<n % 256, n \div 256>>

Descriptor(type, body) == <<Len(body) + 2, type>> \o body

EndpointBytes(endpoints) ==
    FlattenSeq([i \in DOMAIN endpoints |-> Descriptor(EndpointType, endpoints[i])])

InterfaceBytes(interface) ==
    Descriptor(InterfaceType, SubSeq(interface.fields, 1, 2) \o <<Len(interface.endpoints)>>
                                  \o SubSeq(interface.fields, 3, 6))
        \o FlattenSeq(interface.extras) \o EndpointBytes(interface.endpoints)

DeviceBytes(set) ==
    Descriptor(DeviceType, Append(set.device, Len(set.configurations)))

ConfigurationBytes(config) ==
    LET interfaces == config.interfaces
        body == FlattenSeq(config.extras)
                  \o FlattenSeq([i \in DOMAIN interfaces |-> InterfaceBytes(interfaces[i])])
    IN  Descriptor(ConfigurationType,
                   Le16(9 + Len(body)) \o <<Len(interfaces)>> \o config.fields) \o body

SidecarDefaultSetting(c, interface) ==
    [r \in DOMAIN interface.report |->
       <<c - 1, interface.fields[1], 0, ReportType, 0, 0>>
         \o Le16(Len(interface.report[r])) \o interface.report[r] ]

Sidecar(c, interface) ==
    [r \in DOMAIN interface.report |->
       <<c - 1, interface.fields[1], interface.fields[2], ReportType, 0, 0>>
         \o Le16(Len(interface.report[r])) \o interface.report[r] ]

\* report_descriptor_sidecars: the reports do not stand in the configuration.
Sidecars(set) ==
    LET OfConfiguration(c) ==
            LET interfaces == set.configurations[c].interfaces
            IN  FlattenSeq([i \in DOMAIN interfaces |-> Sidecar(c, interfaces[i])])
    IN  FlattenSeq([c \in DOMAIN set.configurations |-> OfConfiguration(c)])

\* What encode refuses: counts beyond a byte, lengths beyond two.  It also
\* checks that two bytes can count the sidecars; after these checks they can.
Encodable(set) ==
    /\ Len(set.configurations) < 256
    /\ \A c \in DOMAIN set.configurations :
        LET config == set.configurations[c] IN
        /\ Len(config.interfaces) < 256
        /\ Len(ConfigurationBytes(config)) < 65536
        /\ \A i \in DOMAIN config.interfaces :
            /\ Len(config.interfaces[i].endpoints) < 256
            /\ \A r \in DOMAIN config.interfaces[i].report :
                Len(config.interfaces[i].report[r]) < 65536

Encode(set) ==
    Magic \o <<Version, Len(set.configurations)>> \o Le16(Len(Sidecars(set)))
        \o DeviceBytes(set)
        \o FlattenSeq([c \in DOMAIN set.configurations |->
                         ConfigurationBytes(set.configurations[c])])
        \o FlattenSeq(Sidecars(set))

ReportDescriptorByPosition(set, c, number) ==
    LET interfaces == set.configurations[c].interfaces
    IN  IF number + 1 > Len(interfaces) THEN <<>> ELSE interfaces[number + 1].report

\* report_descriptor_bytes: the report of the first interface with the number.
ReportDescriptor(set, c, number) ==
    LET interfaces == set.configurations[c].interfaces
        found == SelectInSeq(interfaces, LAMBDA i : i.fields[1] = number)
    IN  IF found = 0 THEN <<>> ELSE interfaces[found].report

-----------------------------------------------------------------------------
(* Decoding                                                                *)

VARIABLES
    input,          \* what arrived: its kind, its bytes and the set it comes from
    bytes,          \* what is being decoded
    pc,             \* the part of it decode has come to
    offset,         \* bytes taken so far
    set,            \* the set so far
    config,         \* the configuration being decoded, or <<>>
    current,        \* the open interface, or <<>>
    bodyEnd,        \* where the configuration ends
    left,           \* configurations, then sidecars, still to come
    accepted,       \* decode returned a set
    first           \* history: the set first accepted, while its encoding is decoded

parser == <<config, current, bodyEnd, left>>
vars == <<input, bytes, pc, offset, set, parser, accepted, first>>

Field(k) == bytes[offset + k]
U16At(i) == bytes[i] + 256 * bytes[i + 1]

Reject == pc' = "done" /\ UNCHANGED <<input, bytes, offset, set, parser, accepted, first>>

HeaderFits ==
    /\ Len(bytes) >= 8 + 18
    /\ SubSeq(bytes, 1, 4) = Magic /\ bytes[5] = Version
    /\ bytes[9] = 18 /\ bytes[10] = DeviceType
    /\ bytes[26] = bytes[6]

DecodeHeader ==
    /\ pc = "header" /\ HeaderFits
    /\ set' = [device |-> SubSeq(bytes, 11, 25), configurations |-> <<>>]
    /\ offset' = 26 /\ left' = bytes[6] /\ pc' = "configurations"
    /\ UNCHANGED <<input, bytes, config, current, bodyEnd, accepted, first>>

RejectHeader == pc = "header" /\ ~HeaderFits /\ Reject

ConfigurationFitsUnbounded ==
    /\ offset + 9 <= Len(bytes)
    /\ Field(1) = 9 /\ Field(2) = ConfigurationType
    /\ U16At(offset + 3) >= 9

ConfigurationFits ==
    /\ offset + 9 <= Len(bytes)
    /\ Field(1) = 9 /\ Field(2) = ConfigurationType
    /\ U16At(offset + 3) >= 9
    /\ offset + U16At(offset + 3) <= Len(bytes)

OpenConfiguration ==
    /\ pc = "configurations" /\ left > 0 /\ ConfigurationFits
    /\ config' = << [fields |-> SubSeq(bytes, offset + 6, offset + 9), extras |-> <<>>,
                     interfaces |-> <<>>, expected |-> Field(5)] >>
    /\ bodyEnd' = offset + U16At(offset + 3)
    /\ offset' = offset + 9 /\ left' = left - 1 /\ pc' = "body"
    /\ UNCHANGED <<input, bytes, set, current, accepted, first>>

RejectConfiguration == pc = "configurations" /\ left > 0 /\ ~ConfigurationFits /\ Reject

\* OpenInterface::finish
Finished == \A i \in DOMAIN current : Len(current[i].endpoints) = current[i].expected

Closed ==
    config[1].interfaces
        \o [i \in DOMAIN current |->
              [fields |-> current[i].fields, extras |-> current[i].extras,
               endpoints |-> current[i].endpoints, report |-> <<>>]]

LengthUnchecked == offset + 2 <= bodyEnd /\ offset + Field(1) <= bodyEnd

\* descriptor_header: the length is that of a descriptor within the body.
LengthFits == offset + 2 <= bodyEnd /\ Field(1) >= 2 /\ offset + Field(1) <= bodyEnd

\* The descriptor that starts at offset has a place here.
DescriptorFits ==
    /\ LengthFits
    /\ Field(2) = InterfaceType => Field(1) = 9 /\ Finished
    /\ Field(2) = EndpointType => Field(1) = 7 /\ current # <<>>

TakesDescriptor(type) ==
    /\ pc = "body" /\ offset < bodyEnd
    /\ DescriptorFits /\ Field(2) \in type
    /\ offset' = offset + Field(1)
    /\ UNCHANGED <<input, bytes, pc, set, bodyEnd, left, accepted, first>>

TakeInterface ==
    /\ TakesDescriptor({InterfaceType})
    /\ config' = <<[config[1] EXCEPT !.interfaces = Closed]>>
    /\ current' = << [fields |-> <<Field(3), Field(4)>> \o SubSeq(bytes, offset + 6, offset + 9),
                      extras |-> <<>>, endpoints |-> <<>>, expected |-> Field(5)] >>

TakeEndpoint ==
    /\ TakesDescriptor({EndpointType})
    /\ current' = <<[current[1] EXCEPT !.endpoints =
                        Append(@, SubSeq(bytes, offset + 3, offset + 7))]>>
    /\ UNCHANGED config

ExtraAfterEndpointDropped ==
    /\ TakesDescriptor((0 .. 255) \ {InterfaceType, EndpointType})
    /\ LET extra == SubSeq(bytes, offset + 1, offset + Field(1)) IN
        IF current = <<>>
        THEN config' = <<[config[1] EXCEPT !.extras = Append(@, extra)]>> /\ UNCHANGED current
        ELSE /\ current' = IF current[1].endpoints # <<>> THEN current
                           ELSE <<[current[1] EXCEPT !.extras = Append(@, extra)]>>
             /\ UNCHANGED config

\* Any other descriptor belongs to the open interface, or else to the
\* configuration; its length has been checked.
TakeExtra ==
    /\ TakesDescriptor((0 .. 255) \ {InterfaceType, EndpointType})
    /\ LET extra == SubSeq(bytes, offset + 1, offset + Field(1)) IN
        IF current = <<>>
        THEN config' = <<[config[1] EXCEPT !.extras = Append(@, extra)]>> /\ UNCHANGED current
        ELSE current' = <<[current[1] EXCEPT !.extras = Append(@, extra)]>> /\ UNCHANGED config

RejectDescriptor == pc = "body" /\ offset < bodyEnd /\ ~DescriptorFits /\ Reject

ConfigurationComplete == Finished /\ Len(Closed) = config[1].expected

CloseConfiguration ==
    /\ pc = "body" /\ offset = bodyEnd /\ ConfigurationComplete
    /\ set' = [set EXCEPT !.configurations =
                  Append(@, [fields |-> config[1].fields, extras |-> config[1].extras,
                             interfaces |-> Closed])]
    /\ config' = <<>> /\ current' = <<>> /\ pc' = "configurations"
    /\ UNCHANGED <<input, bytes, offset, bodyEnd, left, accepted, first>>

RejectBody == pc = "body" /\ offset = bodyEnd /\ ~ConfigurationComplete /\ Reject

ConfigurationsEnd ==
    /\ pc = "configurations" /\ left = 0
    /\ left' = U16At(7) /\ pc' = "sidecars"
    /\ UNCHANGED <<input, bytes, offset, set, config, current, bodyEnd, accepted, first>>

\* The interface a sidecar names: the first with its number and its
\* alternate setting.
TargetByNumber ==
    SelectInSeq(set.configurations[Field(1) + 1].interfaces,
                LAMBDA i : i.fields[1] = Field(2))

Target ==
    SelectInSeq(set.configurations[Field(1) + 1].interfaces,
                LAMBDA i : SubSeq(i.fields, 1, 2) = <<Field(2), Field(3)>>)

SidecarFits ==
    /\ offset + 8 <= Len(bytes)
    /\ offset + 8 + U16At(offset + 7) <= Len(bytes)
    /\ Field(4) = ReportType /\ Field(5) = 0
    /\ Field(1) < Len(set.configurations)
    /\ Target # 0

TakeSidecar ==
    /\ pc = "sidecars" /\ left > 0 /\ SidecarFits
    /\ LET end == offset + 8 + U16At(offset + 7) IN
        /\ set' = [set EXCEPT !.configurations[Field(1) + 1].interfaces[Target].report =
                      <<SubSeq(bytes, offset + 9, end)>>]
        /\ offset' = end
    /\ left' = left - 1
    /\ UNCHANGED <<input, bytes, pc, config, current, bodyEnd, accepted, first>>

RejectSidecar == pc = "sidecars" /\ left > 0 /\ ~SidecarFits /\ Reject

AcceptAtOnce ==
    /\ pc = "sidecars" /\ left = 0
    /\ pc' = "done" /\ accepted' = TRUE
    /\ UNCHANGED <<input, bytes, offset, set, parser, first>>

\* Nothing may follow the last sidecar.
Accept ==
    /\ pc = "sidecars" /\ left = 0
    /\ pc' = "done" /\ accepted' = (offset = Len(bytes))
    /\ UNCHANGED <<input, bytes, offset, set, parser, first>>

\* The set that was accepted is encoded and decoded once more.  No caller does
\* both; this composes the two, as their unit tests do.
Again ==
    /\ pc = "done" /\ accepted /\ first = <<>>
    /\ first' = <<set>>
    /\ bytes' = IF Encodable(set) THEN Encode(set) ELSE <<>>
    /\ pc' = "header" /\ offset' = 0 /\ accepted' = FALSE
    /\ UNCHANGED <<input, set, parser>>

-----------------------------------------------------------------------------
Arrives(kind, origin, b) == [kind |-> kind, set |-> origin, bytes |-> b]

Alterations(s) ==
    {Arrives("altered", s, [Encode(s) EXCEPT ![i] = b]) : i \in 1 .. Len(Encode(s)), b \in Altered}

ArrivalsOf(s) ==
    {Arrives("whole", s, Encode(s))}
      \union {Arrives("cut", s, SubSeq(Encode(s), 1, n)) : n \in 0 .. Len(Encode(s)) - 1}
      \union {Arrives("longer", s, Append(Encode(s), b)) : b \in Altered}
      \union Alterations(s)

Known == UNION {ArrivalsOf(s) : s \in Sets}
Unknown == {Arrives("foreign", <<>>, b) : b \in Foreign}

Inputs == Known \union Unknown

Byte == 0 .. 255

\* Rows of n bytes.
Row(n) == {b \in Seq(Byte) : Len(b) = n}

\* Interfaces, configurations and sets as decode makes them; encode is given no other.
Interfaces ==
    [fields : Row(6), extras : Seq(Seq(Byte)), endpoints : Seq(Row(5)),
     report : {r \in Seq(Seq(Byte)) : Len(r) <= 1}]

Configurations == [fields : Row(4), extras : Seq(Seq(Byte)), interfaces : Seq(Interfaces)]

DescriptorSets ==
    [device : {b \in Seq(Byte) : Len(b) <= 15}, configurations : Seq(Configurations)]

\* Descriptors that are neither an interface's nor an endpoint's: the first byte
\* is the length.
ExtraDescriptors ==
    {x \in Seq(Byte) : /\ Len(x) >= 2 /\ x[1] = Len(x)
                       /\ x[2] \notin {InterfaceType, EndpointType}}

\* Number and alternate setting: what a sidecar names an interface by.
Setting(interface) == SubSeq(interface.fields, 1, 2)

\* The sets that can be sent: no other comes back as it was.  encode refuses
\* what it cannot count; that extra descriptors are descriptors, and that a
\* report is with the interface its sidecar names, is up to who makes the set.
WellFormed(s) ==
    /\ s \in DescriptorSets /\ Len(s.device) = 15 /\ Encodable(s)
    /\ \A c \in DOMAIN s.configurations :
        LET interfaces == s.configurations[c].interfaces IN
        /\ s.configurations[c].extras \in Seq(ExtraDescriptors)
        /\ \A i \in DOMAIN interfaces :
            /\ interfaces[i].extras \in Seq(ExtraDescriptors)
            /\ interfaces[i].report # <<>> =>
                \A j \in 1 .. i - 1 : Setting(interfaces[j]) # Setting(interfaces[i])

\* The daemon makes one set, the keyboard's, for the numbers it is given
\* (session.rs:445-451); its extra descriptor is a descriptor, and its settings differ.
ASSUME SetsAssumption == \A s \in Sets : WellFormed(s)

\* What arrives is a sequence of bytes.
ASSUME InputAssumption == \A i \in Inputs : i.bytes \in Seq(0 .. 255)

Init ==
    /\ input \in Inputs /\ bytes = input.bytes
    /\ pc = "header" /\ offset = 0
    /\ set = [device |-> <<>>, configurations |-> <<>>]
    /\ config = <<>> /\ current = <<>> /\ bodyEnd = 0 /\ left = 0
    /\ accepted = FALSE /\ first = <<>>

Decode ==
    \/ DecodeHeader \/ RejectHeader
    \/ OpenConfiguration \/ RejectConfiguration
    \/ TakeInterface \/ TakeEndpoint \/ TakeExtra \/ RejectDescriptor
    \/ CloseConfiguration \/ RejectBody \/ ConfigurationsEnd
    \/ TakeSidecar \/ RejectSidecar \/ Accept

Next == Decode \/ Again

Spec == Init /\ [][Next]_vars
-----------------------------------------------------------------------------
(* Properties                                                              *)

Parts == {"header", "configurations", "body", "sidecars", "done"}

\* The most that two bytes count.
U16Max == 65535

\* What decode has taken, and the configuration it is in, end within the
\* payload, whatever lengths the payload states; all of it is taken when it is
\* accepted (lib.rs:1012, :1150-1166, :1790-1822).
WithinPayload ==
    /\ offset \in 0 .. Len(bytes)
    /\ pc = "body" => offset <= bodyEnd /\ bodyEnd <= Len(bytes)
    /\ accepted => offset = Len(bytes)

TypeOK ==
    /\ left \in 0 .. U16Max
    /\ bytes \in Seq(0 .. 255)
    /\ pc \in Parts
    /\ Len(config) <= 1 /\ Len(current) <= Len(config)
    /\ accepted \in BOOLEAN /\ Len(first) <= 1
    /\ WithinPayload

Decoded == pc = "done" /\ first = <<>>

\* decode gives back the set that was encoded, every report with the interface
\* it belongs to, alternate settings and empty sets included, and the client
\* that looks a report up finds the one that was sent, if its interface has
\* its number to itself (lib.rs:862-938, :940-1022, client session.rs:257-281).
RoundTrip ==
    Decoded /\ input.kind = "whole" =>
        /\ accepted /\ set = input.set
        /\ \A c \in DOMAIN set.configurations :
            LET sent == input.set.configurations[c].interfaces IN
            \A i \in DOMAIN sent :
                (\A j \in DOMAIN sent \ {i} : sent[j].fields[1] # sent[i].fields[1])
                    => ReportDescriptor(set, c, sent[i].fields[1]) = sent[i].report

\* No byte is missing from a set that is accepted and none is left over: a
\* payload that is cut anywhere, or goes on, is refused, and any other has the
\* length of the encoding of its set, unless two sidecars were for one
\* interface (lib.rs:941-943, :1012-1016, :1164-1221, :1790-1805).
WholeOrNothing ==
    Decoded /\ accepted =>
        /\ input.kind \notin {"cut", "longer"}
        /\ U16At(7) = Len(Sidecars(set)) => Len(bytes) = Len(Encode(set))

\* What decode accepts, altered or in an unusual order, encode accepts as
\* well, and it decodes to the same set again: the two agree on every count
\* and length, on sets no test builds too (lib.rs:862-885, :940-1022).
Stable ==
    pc = "done" /\ first # <<>> => accepted /\ <<set>> = first

\* decode returns, whatever arrives: each step takes bytes or goes on to another
\* part; a descriptor of length zero must not keep the decoder where it is
\* (lib.rs:1164-1204, :1807-1822).
DecodeAdvances ==
    [][pc' = pc => offset' > offset]_vars
=============================================================================
