--------------------------- MODULE MCDaemonSession ---------------------------
(* Instances of DaemonSession for TLC.  Sizes are in units of the pump's   *)
(* buffer: a frame of size 1 passes it, a frame of size 2 does not.        *)
EXTENDS DaemonSession

Plain(type) == [type |-> type, id |-> 1, key |-> 1, size |-> 1]
Data(id, key, size) == [type |-> "Request", id |-> id, key |-> key, size |-> size]

Control(setup) ==
    [type |-> "Request", id |-> 4, key |-> ControlKey, size |-> 1, setup |-> setup]

MCKeycodes == <<4>>

\* Every kind of frame, two endpoints, an id with an injected outcome.
MCAllFrames ==
    { Plain("AttachRequest"), Plain("DetachRequest"), Plain("CancelRequest"),
      Plain("ResetRequest"), Plain("Other"), Plain("TooLong"),
      Data(1, 1, 1), Data(2, 2, 1), Data(3, 1, 1),
      Control(<<>>), Control(<<Setup(SetConfiguration, 1, 0, 0)>>) }

\* A client that attaches and streams requests, detaching at any point.
MCStreamFrames == { Plain("AttachRequest"), Plain("DetachRequest"), Data(1, 1, 1), Data(2, 2, 1) }

\* The same with a frame beyond the pump's buffer, and with cancels.
MCOversizeFrames == { Plain("AttachRequest"), Data(1, 1, 1), Data(2, 1, 2) }

MCCancelFrames == { Plain("AttachRequest"), Plain("CancelRequest"), Data(1, 1, 1) }
=============================================================================
