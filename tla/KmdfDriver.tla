----------------------------- MODULE KmdfDriver -----------------------------
(***************************************************************************)
(* The life of the kernel driver (driver/src/device.cpp, driver.cpp and    *)
(* the memory part of vhci.cpp) under the daemons that open it             *)
(* (daemon/src/windows_driver_backend.rs, main.rs).                        *)
(*                                                                         *)
(* The device's queue dispatches one IOCTL at a time, in the context of    *)
(* the process that issued it: the section view and the handles that       *)
(* GET_SHARED_MEMORY makes belong to that process, and Windows takes them  *)
(* back when it ends.  A process that is stopped from outside (the daemon  *)
(* has no handler for that) runs none of its Drop code.                    *)
(***************************************************************************)
EXTENDS Integers, FiniteSets

CONSTANTS
    Procs,       \* the daemon processes
    Mappers,     \* those with WHY_USB_MAP_SHARED_MEMORY set
    Killable     \* those that may be stopped from outside

ASSUME DriverAssumption ==
    Mappers \subseteq Procs /\ Killable \subseteq Procs

HandleKinds == {"section", "txEvent", "rxEvent"}

VARIABLES
    kernel,   \* the driver's globals and device context, with the objects
              \* that Windows keeps for the processes:
              \*   mem      what g_SharedMemory points to
              \*   owns     g_OwnsSharedMemory
              \*   pool     number of pool allocations not freed
              \*   view     SectionView: {} or {the process it is mapped in}
              \*   handles  the context's handles that are not null
              \*   by       whose handles they are: {} or {the process}
              \*   ready    SharedMemoryReady
              \*   views    processes in which a driver's view is mapped
              \*   open     handles open in each process, made by the driver
    session,  \* g_SessionState
    device,   \* "absent", "loaded" (no device yet) or "started"
    pc,       \* where each daemon is
    mapped,   \* the daemons that have mapped the section
    fault,    \* an IOCTL has read through a pointer to nothing
    past      \* history: "killed", a daemon was stopped from outside; "view
              \* killed", one of the Mappers was; "overlap", one of the Mappers
              \* and another daemon had the device open at a time

vars == <<kernel, session, device, pc, mapped, fault, past>>

-----------------------------------------------------------------------------
(* vhci.cpp: the driver's memory                                           *)

ReleaseUnowned(k) ==
    [k EXCEPT !.pool = IF k.mem # "none" THEN @ - 1 ELSE @, !.mem = "none", !.owns = FALSE]

ReleaseLeaks(k) == [k EXCEPT !.mem = "none", !.owns = FALSE]

\* release_owned_shared_memory
Release(k) ==
    [k EXCEPT !.pool = IF k.mem # "none" /\ k.owns THEN @ - 1 ELSE @,
              !.mem = "none", !.owns = FALSE]

\* init_vhci_driver; the allocation may fail.
InitVhci(k, ok) ==
    IF ok THEN [Release(k) EXCEPT !.mem = "pool", !.owns = TRUE, !.pool = @ + 1] ELSE Release(k)

\* use_external_shared_memory_context
UseExternal(k, mem) == [Release(k) EXCEPT !.mem = mem]

\* get_driver_status and get_shared_memory_info read what g_SharedMemory points
\* to, when it is not null: p must have the view it points into.
Faults(k, p) == k.mem = "view" /\ ~(k.view = {p} /\ p \in k.views)

-----------------------------------------------------------------------------
(* device.cpp: shared resources                                            *)

\* CloseSharedResources in the context of the processes P ({} for the system's
\* own): the view is unmapped and the handles are closed only where they are
\* theirs, and forgotten in any case.
CloseShared(k, P) ==
    [UseExternal(k, "none") EXCEPT
        !.views = @ \ (P \intersect k.view),
        !.open = [q \in Procs |-> IF q \in P \intersect k.by THEN @[q] \ k.handles ELSE @[q]],
        !.view = {}, !.handles = {}, !.by = {}, !.ready = FALSE]

Steps == {"section", "map", "txEvent", "rxEvent", "none"}

\* CreateSharedResources up to the step that fails ("none" when none does).
Made(failing) ==
    CASE failing \in {"section", "map"} -> {"section"} \ {failing}
      [] failing = "txEvent" -> {"section"}
      [] failing = "rxEvent" -> {"section", "txEvent"}
      [] failing = "none" -> HandleKinds

CreateShared(k, p, failing) ==
    LET viewed == IF failing \in {"section", "map"} THEN k
                  ELSE [UseExternal(k, "view") EXCEPT !.view = {p}, !.views = @ \union {p}]
    IN  [viewed EXCEPT !.handles = Made(failing), !.by = {p},
                       !.open[p] = @ \union Made(failing)]

EnsureSharedKeepsPart(k, p, failing) ==
    IF k.ready THEN k ELSE [CreateShared(k, p, failing) EXCEPT !.ready = (failing = "none")]

\* EnsureSharedResources: all of them, or none.
EnsureShared(k, p, failing) ==
    IF k.ready THEN k
    ELSE LET created == CreateShared(k, p, failing) IN
         IF failing = "none" THEN [created EXCEPT !.ready = TRUE] ELSE CloseShared(created, {p})

-----------------------------------------------------------------------------
(* Loading and unloading (driver.cpp, and the device's cleanup)            *)

\* The processes that hold a handle to the device.
Opened == {p \in Procs : pc[p] \notin {"off", "exiting"}}

\* DriverEntry; without memory the driver does not load.
Load ==
    /\ device = "absent"
    /\ \E ok \in BOOLEAN :
        /\ kernel' = InitVhci(kernel, ok)
        /\ device' = IF ok THEN "loaded" ELSE "absent"
    /\ session' = "CLOSED"
    /\ UNCHANGED <<pc, mapped, fault, past>>

\* EvtDriverDeviceAdd
StartDevice ==
    /\ device = "loaded"
    /\ device' = "started"
    /\ UNCHANGED <<kernel, session, pc, mapped, fault, past>>

\* EvtDeviceContextCleanup: Windows removes no device that is open.
RemoveDevice ==
    /\ device = "started"
    /\ Opened = {}
    /\ device' = "loaded"
    /\ kernel' = CloseShared(kernel, {})
    /\ UNCHANGED <<session, pc, mapped, fault, past>>

\* EvtDriverUnload
Unload ==
    /\ device = "loaded"
    /\ device' = "absent"
    /\ kernel' = Release(kernel)
    /\ UNCHANGED <<session, pc, mapped, fault, past>>

-----------------------------------------------------------------------------
(* A daemon and its IOCTLs                                                 *)

Goto(p, label) == pc' = [pc EXCEPT ![p] = label]

\* CreateFileW
OpenDevice(p) ==
    /\ device = "started" /\ ~fault
    /\ pc[p] = "off"
    /\ Goto(p, "opened")
    /\ past' = IF Opened # {} /\ Mappers \intersect (Opened \union {p}) # {}
               THEN past \union {"overlap"} ELSE past
    /\ UNCHANGED <<kernel, session, device, mapped, fault>>

\* The IOCTL reads through g_SharedMemory, which is no memory of p's.
Fault(p) ==
    /\ pc[p] \in {"opened", "session"} /\ ~fault
    /\ Faults(kernel, p)
    /\ fault' = TRUE
    /\ UNCHANGED <<kernel, session, device, pc, mapped, past>>

\* SESSION_OPEN: EnsureDriverMemoryContext allocates when there is no memory.
\* A refusal drops the device's handle.
SessionOpen(p) ==
    /\ pc[p] = "opened" /\ ~fault
    /\ ~Faults(kernel, p)
    /\ \E ok \in (IF kernel.mem = "none" THEN BOOLEAN ELSE {TRUE}) :
        /\ kernel' = IF kernel.mem = "none" THEN InitVhci(kernel, ok) ELSE kernel
        /\ session' = IF ok THEN "OPEN" ELSE session
        /\ Goto(p, IF ok THEN "session" ELSE "off")
    /\ UNCHANGED <<device, mapped, fault, past>>

\* GET_STATUS: refused while there is no memory, which drops the backend.
GetStatus(p) ==
    /\ pc[p] = "session" /\ ~fault
    /\ ~Faults(kernel, p)
    /\ Goto(p, IF kernel.mem = "none" THEN "closing" ELSE IF p \in Mappers THEN "mapping" ELSE "running")
    /\ UNCHANGED <<kernel, session, device, mapped, fault, past>>

\* GET_SHARED_MEMORY.  Nothing undoes a SESSION_OPEN when it fails.
GetSharedMemory(p) ==
    /\ pc[p] = "mapping" /\ ~fault
    /\ \E failing \in Steps :
        /\ kernel' = EnsureShared(kernel, p, failing)
        /\ Goto(p, IF kernel'.ready THEN "mapView" ELSE "closing")
    /\ UNCHANGED <<session, device, mapped, fault, past>>

\* MapViewOfFile on the handle that the driver returned, which only names the
\* section in the process it was made in; the check of the header follows.
MapView(p) ==
    /\ pc[p] = "mapView" /\ ~fault
    /\ \E ok \in (IF "section" \in kernel.open[p] THEN BOOLEAN ELSE {FALSE}) :
        /\ mapped' = IF ok THEN mapped \union {p} ELSE mapped
        /\ Goto(p, IF ok THEN "running" ELSE "closing")
    /\ UNCHANGED <<kernel, session, device, fault, past>>

\* ATTACH_DEVICE and DETACH_DEVICE: no condition on the state.
AttachIoctl(p) ==
    /\ pc[p] = "running" /\ ~fault
    /\ session' = "ATTACHED"
    /\ UNCHANGED <<kernel, device, pc, mapped, fault, past>>

DetachIoctl(p) ==
    /\ pc[p] = "running" /\ ~fault
    /\ session' = "OPEN"
    /\ UNCHANGED <<kernel, device, pc, mapped, fault, past>>

\* The session is over, or the address cannot be bound.
Leave(p) ==
    /\ pc[p] = "running" /\ ~fault
    /\ Goto(p, "closing")
    /\ UNCHANGED <<kernel, session, device, mapped, fault, past>>

CloseKeepsShared(p) ==
    /\ pc[p] = "closing" /\ ~fault
    /\ session' = "CLOSED"
    /\ Goto(p, "dropping")
    /\ UNCHANGED <<kernel, device, mapped, fault, past>>

\* SESSION_CLOSE, from the backend's Drop.
SessionClose(p) ==
    /\ pc[p] = "closing" /\ ~fault
    /\ session' = "CLOSED"
    /\ kernel' = CloseShared(kernel, {p})
    /\ Goto(p, "dropping")
    /\ UNCHANGED <<device, mapped, fault, past>>

DropKeepsView(p) ==
    /\ pc[p] = "dropping" /\ ~fault
    /\ Goto(p, "exiting")
    /\ kernel' = IF p \in mapped THEN [kernel EXCEPT !.open[p] = {}] ELSE kernel
    /\ UNCHANGED <<session, device, mapped, fault, past>>

\* The drop of the backend's fields: the device's handle is closed, the view
\* unmapped, and the section's and the events' handles closed, if they still
\* are open.
DropFields(p) ==
    /\ pc[p] = "dropping" /\ ~fault
    /\ Goto(p, "exiting")
    /\ mapped' = mapped \ {p}
    /\ kernel' = IF p \in mapped THEN [kernel EXCEPT !.open[p] = {}] ELSE kernel
    /\ UNCHANGED <<session, device, fault, past>>

\* The process ends: Windows closes its handles and unmaps its views.
EndProcess(k, p) == [k EXCEPT !.views = @ \ {p}, !.open[p] = {}]

Exit(p) ==
    /\ pc[p] = "exiting" /\ ~fault
    /\ Goto(p, "off")
    /\ kernel' = EndProcess(kernel, p)
    /\ UNCHANGED <<session, device, mapped, fault, past>>

Kill(p) ==
    /\ p \in Killable /\ ~fault
    /\ pc[p] \notin {"off", "exiting"}
    /\ Goto(p, "off")
    /\ mapped' = mapped \ {p}
    /\ kernel' = EndProcess(kernel, p)
    /\ past' = past \union (IF p \in Mappers THEN {"killed", "view killed"} ELSE {"killed"})
    /\ UNCHANGED <<session, device, fault>>

-----------------------------------------------------------------------------
Init ==
    /\ kernel = [mem |-> "none", owns |-> FALSE, pool |-> 0, view |-> {}, handles |-> {}, by |-> {},
                 ready |-> FALSE, views |-> {}, open |-> [p \in Procs |-> {}]]
    /\ session = "CLOSED"
    /\ device = "absent"
    /\ pc = [p \in Procs |-> "off"]
    /\ mapped = {}
    /\ fault = FALSE
    /\ past = {}

Daemon(p) ==
    \/ OpenDevice(p) \/ Fault(p) \/ SessionOpen(p) \/ GetStatus(p) \/ GetSharedMemory(p)
    \/ MapView(p) \/ AttachIoctl(p) \/ DetachIoctl(p) \/ Leave(p) \/ SessionClose(p)
    \/ DropFields(p) \/ Exit(p) \/ Kill(p)

Next == Load \/ StartDevice \/ RemoveDevice \/ Unload \/ (\E p \in Procs : Daemon(p))

Spec == Init /\ [][Next]_vars

-----------------------------------------------------------------------------
(* Properties                                                              *)

Kernel == [mem : {"none", "pool", "view"}, owns : BOOLEAN, pool : Nat,
           view : SUBSET Procs, handles : SUBSET HandleKinds, by : SUBSET Procs,
           ready : BOOLEAN, views : SUBSET Procs, open : [Procs -> SUBSET HandleKinds]]

TypeOK ==
    /\ kernel \in Kernel
    /\ session \in {"CLOSED", "OPEN", "ATTACHED"}
    /\ device \in {"absent", "loaded", "started"}
    /\ pc \in [Procs -> {"off", "opened", "session", "mapping", "mapView", "running", "closing",
                         "dropping", "exiting"}]
    /\ mapped \subseteq Procs
    /\ fault \in BOOLEAN
    /\ past \subseteq {"killed", "view killed", "overlap"}

Balanced(k) ==
    /\ k.pool = (IF k.mem = "pool" THEN 1 ELSE 0)
    /\ k.owns = (k.mem = "pool")

\* The driver's own allocation is freed once, by whichever of SESSION_CLOSE, a
\* switch to the shared section, the device's cleanup and the unload comes
\* first: there is one exactly while g_SharedMemory points to it, and none
\* after the unload (vhci.cpp:11-49).
PoolBalanced == Balanced(kernel) /\ (device = "absent" => kernel.mem = "none")

Whole(k) ==
    IF k.ready
    THEN /\ k.handles = HandleKinds /\ k.mem = "view"
         /\ \E p \in Procs : k.view = {p} /\ k.by = {p}
    ELSE k.handles = {} /\ k.view = {} /\ k.by = {} /\ k.mem # "view"

\* Between IOCTLs the device context holds all of the section, its view and
\* the events, and the driver uses that view, or it holds nothing, whichever
\* step of GET_SHARED_MEMORY failed (device.cpp:105-205).
AllOrNothing == Whole(kernel)

\* No daemon has opened the device beside another one when either of the two maps
\* the section, and no daemon that maps was killed.  Daemons that do not map may
\* have been open beside each other, and killed.
Orderly == past \intersect {"view killed", "overlap"} = {}

\* As long as daemons are orderly, what one has mapped is the section that the
\* driver uses, until it has closed its session.  With another daemon beside it
\* that would fail: the other's SESSION_CLOSE takes the section away
\* (device.cpp:173-205, :309-313, windows_driver_backend.rs:171-216).
MappedIsShared ==
    Orderly => \A p \in mapped :
        pc[p] # "dropping" => kernel.ready /\ kernel.view = {p} /\ p \in kernel.views

\* After orderly daemons, a driver that none has open holds nothing of a process,
\* and is closed unless one was stopped from outside (device.cpp:309-313).
TornDown ==
    Orderly /\ Opened = {} =>
        /\ kernel.view = {} /\ kernel.views = {}
        /\ \A p \in Procs : kernel.open[p] = {}
        /\ past = {} => session = "CLOSED"

\* As long as daemons are orderly, no IOCTL reads through a pointer into a
\* process that is gone, or into another one (vhci.cpp:61-90).
OrderlyNoFault == Orderly => ~fault

\* The same, also when a daemon that maps was killed: the driver can be opened again, as it
\* has "cleanup/session-close resource teardown" (PLAN.md:31).
NoFault == "overlap" \notin past => ~fault
=============================================================================
