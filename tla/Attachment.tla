----------------------------- MODULE Attachment -----------------------------
(***************************************************************************)
(* The attachment of a device to the driver for the length of a session:   *)
(* attach_session and detach_session of daemon/src/session.rs, which the   *)
(* daemon's own protocol and the USB/IP session share.                     *)
(***************************************************************************)

CONSTANTS
    Backends,       \* "mock", or a Windows driver "mapped" or "unmapped"
    AttachDevice    \* is WHY_USB_ATTACH_DEVICE configured?

ASSUME BackendAssumption ==
    /\ Backends \subseteq {"mock", "mapped", "unmapped"} /\ Backends # {}
    /\ AttachDevice \in BOOLEAN

VARIABLES
    state,            \* SessionState
    byControlPlane,   \* attached_by_control_plane
    backend,          \* the driver backend, chosen when the daemon starts
    driverAttached,   \* the driver holds an attached device
    detachFailed      \* the last detach call failed

driverVars == <<backend, driverAttached, detachFailed>>

attachmentVars == <<state, byControlPlane, driverVars>>

AttachmentInit ==
    /\ state = "Connected" /\ byControlPlane = FALSE
    /\ backend \in Backends /\ driverAttached = FALSE /\ detachFailed = FALSE

\* attach_session: a second attach answers without calling the driver, and so
\* does one without a configured device.
CallsDriver == state # "Attached" /\ AttachDevice

\* attach_device: the mock never refuses, the IOCTL may fail.
AttachAnswers == IF CallsDriver /\ backend # "mock" THEN BOOLEAN ELSE {TRUE}

AttachSession(ok) ==
    /\ byControlPlane' = (byControlPlane \/ (CallsDriver /\ ok))
    /\ driverAttached' = (driverAttached \/ (CallsDriver /\ ok))
    /\ state' = IF ok THEN "Attached" ELSE state
    /\ UNCHANGED backend

\* detach_device: likewise.
DetachAnswers == IF byControlPlane /\ backend # "mock" THEN BOOLEAN ELSE {TRUE}

DetachForgets(s, ok) ==
    IF s = "Closed"
    THEN UNCHANGED attachmentVars
    ELSE /\ detachFailed' = (byControlPlane /\ ~ok)
         /\ driverAttached' = (driverAttached /\ ~(byControlPlane /\ ok))
         /\ byControlPlane' = FALSE
         /\ state' = IF byControlPlane /\ ~ok THEN "Detaching" ELSE "Closed"
         /\ UNCHANGED backend

\* detach_session from state s, with the driver's answer ok.  The flag stays
\* set when the driver refuses, so that the cleanup tries again.
DetachSession(s, ok) ==
    IF s = "Closed"
    THEN UNCHANGED attachmentVars
    ELSE /\ detachFailed' = (byControlPlane /\ ~ok)
         /\ driverAttached' = (driverAttached /\ ~(byControlPlane /\ ok))
         /\ byControlPlane' = (byControlPlane /\ ~ok)
         /\ state' = IF byControlPlane /\ ~ok THEN "Detaching" ELSE "Closed"
         /\ UNCHANGED backend

\* The session's flag says what the driver holds, through refused attaches
\* and detaches, and a session whose cleanup has run leaves a device attached
\* only when the driver refused that last detach (session.rs:244-246,
\* :349-355, usbip_session.rs:109-112).
Released(cleanedUp) ==
    /\ byControlPlane = driverAttached
    /\ cleanedUp /\ driverAttached => detachFailed
=============================================================================
