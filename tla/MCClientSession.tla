--------------------------- MODULE MCClientSession ---------------------------
(* Instances of ClientSession for TLC.                                     *)
EXTENDS ClientSession

MCKeycodes == <<4>>
MCClientFrames == OwnFrames
MCLimits == {<<>>, <<0>>, <<1>>, <<4>>}

\* A table with a line that does not parse, a port in use, ports that are
\* not quite free, and a free one; another with none free.
MCLines ==
    << <<"hs", 0, "004", 3, 65538, 42, "1-2">>, <<"hs", Garbled, "000", 0, 0, 0, "0-0">>,
       <<"hs", 1, "000", 0, 0, 7, "0-0">>, <<"hs", 2, "000", 0, 0, 0>>,
       <<"ss", 8, "000", 0, 0, 0, "0-0">>, <<"hs", 3, "000", 0, 0, 0, "0-0">> >>

MCSystems ==
    { [module |-> TRUE, status |-> TRUE, attach |-> TRUE, lines |-> MCLines],
      [module |-> TRUE, status |-> TRUE, attach |-> TRUE, lines |-> SubSeq(MCLines, 1, 4)],
      [module |-> FALSE, status |-> FALSE, attach |-> FALSE, lines |-> <<>>] }
=============================================================================
