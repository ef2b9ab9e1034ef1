--------------------------- MODULE MCDescriptorSet ---------------------------
(* Instances of DescriptorSet for TLC.                                     *)
EXTENDS DescriptorSet

DeviceFields == <<0, 2, 0, 0, 0, 8, 52, 18, 120, 86, 0, 1, 1, 2, 3>>

Interface(number, alternate, extras, endpoints, report) ==
    [fields |-> <<number, alternate, 3, 1, 1, 0>>, extras |-> extras, endpoints |-> endpoints,
     report |-> report]

InEndpoint == <<129, 3, 8, 0, 10>>
OutEndpoint == <<1, 2, 0, 2, 0>>

\* The shape of the mock keyboard, with shorter extra and report descriptors.
Keyboard ==
    [device |-> DeviceFields,
     configurations |->
        << [fields |-> <<1, 0, 160, 50>>, extras |-> <<>>,
            interfaces |-> << Interface(0, 0, << <<3, 33, 17>> >>, <<InEndpoint>>, << <<5, 1>> >>) >>] >>]

\* Two configurations; two settings of an interface, each with a report, one
\* of them empty; an extra descriptor of the configuration.
Composite ==
    [device |-> DeviceFields,
     configurations |->
        << [fields |-> <<1, 0, 128, 50>>, extras |-> <<>>, interfaces |-> <<>>],
           [fields |-> <<2, 4, 128, 50>>, extras |-> << <<2, 11>> >>,
            interfaces |->
              << Interface(0, 0, <<>>, <<InEndpoint, OutEndpoint>>, << <<7>> >>),
                 Interface(0, 1, <<>>, <<>>, << <<9, 9>> >>),
                 Interface(1, 0, << <<7, 36, 0, 0, 0, 0, 0>> >>, <<>>, << <<>> >>) >>] >>]

NoConfiguration == [device |-> DeviceFields, configurations |-> <<>>]

MCSets == {Keyboard, Composite, NoConfiguration}

\* The header of a set with one configuration of a total length, and of
\* so many sidecars.
OneConfiguration(sidecars, total) ==
    Magic \o <<1, 1, sidecars, 0>> \o <<18, 1>> \o DeviceFields \o <<1>>
        \o <<9, 2, total, 0, 1, 1, 0, 160, 50>>

\* A class descriptor after the endpoint, where audio devices have them; an
\* interface with an alternate setting only.
MCForeign ==
    { OneConfiguration(0, 28)
        \o <<9, 4, 0, 0, 1, 3, 1, 1, 0>> \o <<7, 5, 129, 3, 8, 0, 10>> \o <<3, 37, 1>>,
      OneConfiguration(1, 18)
        \o <<9, 4, 0, 1, 0, 3, 1, 1, 0>> \o <<0, 0, 1, 34, 0, 0, 1, 0>> \o <<7>> }

MCAltered == {0, 1, 2, 3, 4, 5, 7, 9, 11, 18, 34, 255}
=============================================================================
