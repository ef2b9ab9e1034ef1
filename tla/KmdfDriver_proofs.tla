-------------------------- MODULE KmdfDriver_proofs --------------------------
(***************************************************************************)
(* The driver frees its memory once and holds its shared resources as a    *)
(* whole, for any number of daemons that overlap, map and are killed as    *)
(* they like.                                                              *)
(***************************************************************************)
EXTENDS KmdfDriver, TLAPS

\* What the driver's code keeps between IOCTLs.
Sound(k) == k \in Kernel /\ Balanced(k) /\ Whole(k)

\* A device that is not started is not open, and its context is empty: that
\* the unload frees no section's view rests on it.
ClosedUnlessStarted ==
    device # "started" => ~kernel.ready /\ \A p \in Procs : pc[p] \in {"off", "exiting"}

IInv == TypeOK /\ PoolBalanced /\ AllOrNothing /\ ClosedUnlessStarted

-----------------------------------------------------------------------------
(* The operators on the driver's memory                                    *)

\* Releasing the memory leaves none, and none allocated, and touches nothing
\* else (release_owned_shared_memory).
LEMMA ReleaseFacts ==
    ASSUME NEW k \in Kernel, Balanced(k)
    PROVE  /\ Release(k) \in Kernel
           /\ Release(k).mem = "none" /\ Release(k).owns = FALSE /\ Release(k).pool = 0
           /\ Release(k).view = k.view /\ Release(k).handles = k.handles
           /\ Release(k).by = k.by /\ Release(k).ready = k.ready
           /\ Release(k).views = k.views /\ Release(k).open = k.open
<1>1. (IF k.mem # "none" /\ k.owns THEN k.pool - 1 ELSE k.pool) = 0
  BY DEF Kernel, Balanced
<1>2. Release(k) = [k EXCEPT !.pool = 0, !.mem = "none", !.owns = FALSE]
  BY <1>1 DEF Release
<1>3. [k EXCEPT !.pool = 0, !.mem = "none", !.owns = FALSE] \in Kernel
  BY DEF Kernel
<1> QED
  BY <1>2, <1>3 DEF Kernel

\* CloseSharedResources leaves an empty context, in whichever process it runs.
LEMMA CloseSharedFacts ==
    ASSUME NEW k \in Kernel, Balanced(k), NEW P \in SUBSET Procs
    PROVE  Sound(CloseShared(k, P)) /\ CloseShared(k, P).mem = "none"
<1> DEFINE r == Release(k)
<1>1. r \in Kernel /\ r.mem = "none" /\ r.owns = FALSE /\ r.pool = 0
  BY ReleaseFacts
<1> DEFINE u == UseExternal(k, "none")
<1>2. u \in Kernel /\ u.mem = "none" /\ u.owns = FALSE /\ u.pool = 0
  BY <1>1 DEF UseExternal, Kernel
<1> HIDE DEF r, u
<1> DEFINE open == [q \in Procs |-> IF q \in P \intersect k.by THEN u.open[q] \ k.handles ELSE u.open[q]]
<1>3. open \in [Procs -> SUBSET HandleKinds]
  BY <1>2 DEF Kernel
<1> HIDE DEF open
<1>4. CloseShared(k, P) = [u EXCEPT !.views = u.views \ (P \intersect k.view), !.open = open,
                                   !.view = {}, !.handles = {}, !.by = {}, !.ready = FALSE]
  BY DEF CloseShared, u, open
<1> DEFINE c == CloseShared(k, P)
<1>5. /\ c \in Kernel
      /\ c.mem = "none" /\ c.owns = FALSE /\ c.pool = 0
      /\ c.view = {} /\ c.handles = {} /\ c.by = {} /\ c.ready = FALSE
  <2> DEFINE views == u.views \ (P \intersect k.view)
  <2>1. views \in SUBSET Procs
    BY <1>2 DEF Kernel
  <2> HIDE DEF views
  <2> DEFINE e == [u EXCEPT !.views = views, !.open = open,
                           !.view = {}, !.handles = {}, !.by = {}, !.ready = FALSE]
  <2>2. e \in Kernel
    BY <1>2, <1>3, <2>1 DEF Kernel
  <2>3. /\ e.mem = u.mem /\ e.owns = u.owns /\ e.pool = u.pool
        /\ e.view = {} /\ e.handles = {} /\ e.by = {} /\ e.ready = FALSE
    BY <1>2 DEF Kernel
  <2>4. c = e
    BY <1>4 DEF views
  <2> HIDE DEF c, e
  <2> QED
    BY <1>2, <2>2, <2>3, <2>4
<1> QED
  BY <1>5 DEF Sound, Balanced, Whole

\* init_vhci_driver, called while there is no memory of any kind but its own.
LEMMA InitVhciFacts ==
    ASSUME NEW k \in Kernel, Sound(k), k.mem # "view", NEW ok \in BOOLEAN
    PROVE  /\ Sound(InitVhci(k, ok)) /\ InitVhci(k, ok).mem # "view"
           /\ ~ok => InitVhci(k, ok).mem = "none"
<1> DEFINE r == Release(k)
<1>1. /\ r \in Kernel /\ r.mem = "none" /\ r.owns = FALSE /\ r.pool = 0
      /\ r.view = k.view /\ r.handles = k.handles /\ r.by = k.by /\ r.ready = k.ready
  BY ReleaseFacts DEF Sound
<1> HIDE DEF r
<1>2. CASE ok
  <2> DEFINE i == InitVhci(k, ok)
  <2>1. i = [r EXCEPT !.mem = "pool", !.owns = TRUE, !.pool = 1]
    BY <1>1, <1>2 DEF InitVhci, r
  <2> HIDE DEF i
  <2>2. i \in Kernel
    BY <1>1, <2>1 DEF Kernel
  <2>3. /\ i.mem = "pool" /\ i.owns = TRUE /\ i.pool = 1
        /\ i.view = k.view /\ i.handles = k.handles /\ i.by = k.by /\ i.ready = k.ready
    BY <1>1, <2>1 DEF Kernel
  <2> QED
    BY <1>2, <2>2, <2>3 DEF Sound, Balanced, Whole, i
<1>3. CASE ~ok
  <2>1. InitVhci(k, ok) = r
    BY <1>3 DEF InitVhci, r
  <2> QED
    BY <1>1, <2>1 DEF Sound, Balanced, Whole
<1> QED
  BY <1>2, <1>3

\* New handles, whosever they are, keep the context's type.
LEMMA HandlesTyped ==
    ASSUME NEW k \in Kernel, NEW handles \in SUBSET HandleKinds, NEW by \in SUBSET Procs,
           NEW open \in [Procs -> SUBSET HandleKinds]
    PROVE  [k EXCEPT !.handles = handles, !.by = by, !.open = open] \in Kernel
  BY DEF Kernel

\* Whatever step of CreateSharedResources fails, the memory stays balanced;
\* when none does, everything is there.
LEMMA CreateSharedFacts ==
    ASSUME NEW k \in Kernel, Sound(k), ~k.ready, NEW p \in Procs, NEW failing \in Steps
    PROVE  /\ CreateShared(k, p, failing) \in Kernel
           /\ Balanced(CreateShared(k, p, failing))
           /\ failing = "none" =>
                /\ CreateShared(k, p, failing).handles = HandleKinds
                /\ CreateShared(k, p, failing).mem = "view"
                /\ CreateShared(k, p, failing).view = {p}
                /\ CreateShared(k, p, failing).by = {p}
<1> DEFINE e == [UseExternal(k, "view") EXCEPT !.view = {p}, !.views = @ \union {p}]
           v == IF failing \in {"section", "map"} THEN k ELSE e
           open == [v.open EXCEPT ![p] = @ \union Made(failing)]
<1>1. Made(failing) \in SUBSET HandleKinds /\ (failing = "none" => Made(failing) = HandleKinds)
  BY DEF Made, Steps, HandleKinds
<1>2. e \in Kernel /\ Balanced(e) /\ e.mem = "view" /\ e.view = {p}
  <2>1. Release(k) \in Kernel /\ Release(k).owns = FALSE /\ Release(k).pool = 0
    BY ReleaseFacts DEF Sound
  <2>2. /\ UseExternal(k, "view") \in Kernel /\ UseExternal(k, "view").mem = "view"
        /\ UseExternal(k, "view").owns = FALSE /\ UseExternal(k, "view").pool = 0
    BY <2>1 DEF UseExternal, Kernel
  <2> QED
    BY <2>2 DEF Kernel, Balanced
<1> HIDE DEF e
<1>3. v \in Kernel /\ Balanced(v) /\ (failing = "none" => v.mem = "view" /\ v.view = {p})
  <2>1. CASE failing \in {"section", "map"}
    BY <2>1 DEF Sound
  <2>2. CASE failing \notin {"section", "map"}
    BY <1>2, <2>2
  <2> QED
    BY <2>1, <2>2
<1>4. CreateShared(k, p, failing) =
        [v EXCEPT !.handles = Made(failing), !.by = {p}, !.open = open]
  BY <1>3 DEF CreateShared, e
<1> HIDE DEF v
<1>5. open \in [Procs -> SUBSET HandleKinds]
  BY <1>1, <1>3 DEF Kernel
<1> HIDE DEF open
<1> DEFINE c == CreateShared(k, p, failing)
<1> HIDE DEF c
<1>6. c \in Kernel
  <2>1. v \in Kernel /\ Made(failing) \in SUBSET HandleKinds /\ {p} \in SUBSET Procs
    BY <1>1, <1>3
  <2>2. [v EXCEPT !.handles = Made(failing), !.by = {p}, !.open = open] \in Kernel
    BY <1>5, <2>1, HandlesTyped
  <2> QED
    BY <1>4, <2>2 DEF c
<1>7. /\ c.mem = v.mem /\ c.owns = v.owns /\ c.pool = v.pool
      /\ c.view = v.view /\ c.by = {p} /\ c.handles = Made(failing)
  BY <1>3, <1>4 DEF Kernel, c
<1> QED
  BY <1>1, <1>3, <1>6, <1>7 DEF Balanced, c

\* EnsureSharedResources keeps the context whole.
LEMMA EnsureSharedFacts ==
    ASSUME NEW k \in Kernel, Sound(k), NEW p \in Procs, NEW failing \in Steps
    PROVE  Sound(EnsureShared(k, p, failing))
<1>1. CASE k.ready
  BY <1>1 DEF EnsureShared
<1>2. CASE ~k.ready
  <2> DEFINE c == CreateShared(k, p, failing)
  <2>1. /\ c \in Kernel /\ Balanced(c)
        /\ failing = "none" => /\ c.handles = HandleKinds /\ c.mem = "view"
                               /\ c.view = {p} /\ c.by = {p}
    BY <1>2, CreateSharedFacts
  <2>2. EnsureShared(k, p, failing) =
            IF failing = "none" THEN [c EXCEPT !.ready = TRUE] ELSE CloseShared(c, {p})
    BY <1>2 DEF EnsureShared
  <2> HIDE DEF c
  <2>3. CASE failing = "none"
    <3> DEFINE d == [c EXCEPT !.ready = TRUE]
    <3>1. /\ d \in Kernel /\ d.ready = TRUE /\ d.mem = c.mem /\ d.owns = c.owns /\ d.pool = c.pool
          /\ d.handles = c.handles /\ d.view = c.view /\ d.by = c.by
      BY <2>1 DEF Kernel
    <3> HIDE DEF d
    <3> QED
      BY <2>1, <2>2, <2>3, <3>1 DEF Sound, Balanced, Whole, d
  <2>4. CASE failing # "none"
    <3>1. Sound(CloseShared(c, {p}))
      BY <2>1, CloseSharedFacts
    <3> QED
      BY <2>2, <2>4, <3>1
  <2> QED
    BY <2>3, <2>4
<1> QED
  BY <1>1, <1>2

\* A change of the process's objects alone leaves the driver as it was.
LEMMA ObjectsOnly ==
    ASSUME NEW k \in Kernel, Sound(k), NEW p \in Procs, NEW views \in SUBSET Procs
    PROVE  Sound([k EXCEPT !.views = views, !.open[p] = {}]) /\ Sound([k EXCEPT !.open[p] = {}])
<1>1. [k.open EXCEPT ![p] = {}] \in [Procs -> SUBSET HandleKinds]
  BY DEF Kernel
<1> DEFINE a == [k EXCEPT !.views = views, !.open[p] = {}]
           b == [k EXCEPT !.open[p] = {}]
<1>2. /\ a \in Kernel /\ a.mem = k.mem /\ a.owns = k.owns /\ a.pool = k.pool /\ a.ready = k.ready
      /\ a.handles = k.handles /\ a.view = k.view /\ a.by = k.by
  BY <1>1 DEF Kernel
<1>3. /\ b \in Kernel /\ b.mem = k.mem /\ b.owns = k.owns /\ b.pool = k.pool /\ b.ready = k.ready
      /\ b.handles = k.handles /\ b.view = k.view /\ b.by = k.by
  BY <1>1 DEF Kernel
<1> HIDE DEF a, b
<1>4. Sound(a) /\ Sound(b)
  BY <1>2, <1>3 DEF Sound, Balanced, Whole
<1> QED
  BY <1>4 DEF a, b
-----------------------------------------------------------------------------
(* The specification                                                       *)

\* The driver starts with nothing.
LEMMA InitSound == Init => IInv
<1> SUFFICES ASSUME Init PROVE IInv
  OBVIOUS
<1>1. [p \in Procs |-> {}] \in [Procs -> SUBSET HandleKinds]
  OBVIOUS
<1>2. kernel \in Kernel
  BY <1>1 DEF Init, Kernel
<1>3. TypeOK
  BY <1>2 DEF Init, TypeOK
<1>4. PoolBalanced /\ AllOrNothing /\ ClosedUnlessStarted
  BY DEF Init, PoolBalanced, Balanced, AllOrNothing, Whole, ClosedUnlessStarted
<1> QED
  BY <1>3, <1>4 DEF IInv

\* Loading, device start, removal and unload.
LEMMA LifecycleStep ==
    ASSUME IInv, Load \/ StartDevice \/ RemoveDevice \/ Unload
    PROVE  IInv'
<1> USE DEF IInv
<1>0. kernel \in Kernel /\ Sound(kernel)
  BY DEF TypeOK, PoolBalanced, AllOrNothing, Sound
<1>1. CASE Load
  <2>1. PICK ok \in BOOLEAN : /\ kernel' = InitVhci(kernel, ok)
                              /\ device' = IF ok THEN "loaded" ELSE "absent"
    BY <1>1 DEF Load
  <2>2. kernel.mem # "view" /\ ~kernel.ready
    BY <1>1 DEF Load, PoolBalanced, ClosedUnlessStarted
  <2>3. Sound(kernel') /\ (~ok => kernel'.mem = "none") /\ kernel'.mem # "view"
    BY <1>0, <2>1, <2>2, InitVhciFacts
  <2>4. PoolBalanced' /\ AllOrNothing' /\ kernel' \in Kernel
    BY <2>1, <2>3 DEF Sound, PoolBalanced, AllOrNothing
  <2>5. TypeOK'
    BY <1>1, <2>1, <2>4 DEF Load, TypeOK
  <2>6. ClosedUnlessStarted'
    BY <1>1, <2>3 DEF Load, ClosedUnlessStarted, Sound, Whole
  <2> QED
    BY <2>4, <2>5, <2>6
<1>2. CASE StartDevice
  BY <1>2 DEF StartDevice, TypeOK, PoolBalanced, AllOrNothing, ClosedUnlessStarted
<1>3. CASE RemoveDevice
  <2>1. Sound(kernel') /\ kernel'.mem = "none"
    BY <1>0, <1>3, CloseSharedFacts DEF RemoveDevice, Sound
  <2>2. PoolBalanced' /\ AllOrNothing' /\ kernel' \in Kernel
    BY <1>3, <2>1 DEF RemoveDevice, Sound, PoolBalanced, AllOrNothing
  <2>3. TypeOK'
    BY <1>3, <2>2 DEF RemoveDevice, TypeOK
  <2>4. ClosedUnlessStarted'
    BY <1>3, <2>1 DEF RemoveDevice, ClosedUnlessStarted, Opened, Sound, Whole
  <2> QED
    BY <2>2, <2>3, <2>4
<1>4. CASE Unload
  <2>1. ~kernel.ready
    BY <1>4 DEF Unload, ClosedUnlessStarted
  <2>2. Balanced(kernel)
    BY <1>0 DEF Sound
  <2>3. /\ kernel' \in Kernel /\ kernel'.mem = "none" /\ kernel'.owns = FALSE /\ kernel'.pool = 0
        /\ kernel'.view = kernel.view /\ kernel'.handles = kernel.handles
        /\ kernel'.by = kernel.by /\ kernel'.ready = kernel.ready
    BY <1>0, <1>4, <2>2, ReleaseFacts DEF Unload
  <2>4. PoolBalanced' /\ AllOrNothing'
    BY <1>0, <2>1, <2>3 DEF PoolBalanced, Balanced, AllOrNothing, Sound, Whole
  <2>5. TypeOK'
    BY <1>4, <2>3 DEF Unload, TypeOK
  <2>6. ClosedUnlessStarted'
    BY <1>4, <2>1, <2>3 DEF Unload, ClosedUnlessStarted
  <2> QED
    BY <2>4, <2>5, <2>6
<1> QED
  BY <1>1, <1>2, <1>3, <1>4

\* Where a daemon can be.
Labels == {"off", "opened", "session", "mapping", "mapView", "running", "closing", "dropping",
           "exiting"}
Pasts == {"killed", "view killed", "overlap"}

\* A step of a daemon that leaves the driver sound, while the device is
\* started, keeps the invariant.
LEMMA StartedStep ==
    ASSUME IInv, device = "started", UNCHANGED device, Sound(kernel'),
           session' \in {"CLOSED", "OPEN", "ATTACHED"}, pc' \in [Procs -> Labels],
           mapped' \subseteq Procs, fault' \in BOOLEAN, past' \subseteq Pasts
    PROVE  IInv'
<1>1. TypeOK'
  BY DEF IInv, TypeOK, Sound, Labels, Pasts
<1>2. PoolBalanced' /\ AllOrNothing' /\ ClosedUnlessStarted'
  BY DEF Sound, PoolBalanced, AllOrNothing, ClosedUnlessStarted
<1> QED
  BY <1>1, <1>2 DEF IInv

\* Every action of a daemon.
LEMMA DaemonStep ==
    ASSUME IInv, NEW p \in Procs, Daemon(p)
    PROVE  IInv'
<1>0. /\ kernel \in Kernel /\ Sound(kernel) /\ pc \in [Procs -> Labels]
      /\ session \in {"CLOSED", "OPEN", "ATTACHED"} /\ mapped \subseteq Procs /\ fault \in BOOLEAN
      /\ past \subseteq Pasts
  BY DEF IInv, TypeOK, PoolBalanced, AllOrNothing, Sound, Labels, Pasts
<1>1. \A label \in Labels : Goto(p, label) => pc' \in [Procs -> Labels]
  BY <1>0 DEF Goto
<1>2. ASSUME pc[p] \notin {"off", "exiting"} PROVE device = "started"
  BY <1>2 DEF IInv, ClosedUnlessStarted
<1>3. CASE OpenDevice(p)
  BY <1>0, <1>1, <1>3, StartedStep DEF OpenDevice, Labels, Pasts
<1>4. CASE Fault(p)
  BY <1>0, <1>2, <1>4, StartedStep DEF Fault
<1>5. CASE SessionOpen(p)
  <2>1. PICK ok \in BOOLEAN :
            /\ kernel' = IF kernel.mem = "none" THEN InitVhci(kernel, ok) ELSE kernel
            /\ session' = IF ok THEN "OPEN" ELSE session
            /\ Goto(p, IF ok THEN "session" ELSE "off")
    BY <1>5 DEF SessionOpen
  <2>2. Sound(kernel')
    <3>1. CASE kernel.mem = "none"
      BY <1>0, <2>1, <3>1, InitVhciFacts
    <3> QED
      BY <1>0, <2>1, <3>1
  <2>3. pc' \in [Procs -> Labels]
    BY <1>1, <2>1 DEF Labels
  <2>4. device = "started" /\ UNCHANGED <<device, mapped, fault, past>>
    BY <1>2, <1>5 DEF SessionOpen
  <2> QED
    BY <1>0, <2>1, <2>2, <2>3, <2>4, StartedStep
<1>6. CASE GetStatus(p)
  <2>1. pc' \in [Procs -> Labels]
    BY <1>1, <1>6 DEF GetStatus, Labels
  <2>2. device = "started" /\ UNCHANGED <<kernel, session, device, mapped, fault, past>>
    BY <1>2, <1>6 DEF GetStatus
  <2> QED
    BY <1>0, <2>1, <2>2, StartedStep
<1>7. CASE GetSharedMemory(p)
  <2>1. PICK failing \in Steps :
            /\ kernel' = EnsureShared(kernel, p, failing)
            /\ Goto(p, IF kernel'.ready THEN "mapView" ELSE "closing")
    BY <1>7 DEF GetSharedMemory
  <2>2. Sound(kernel')
    BY <1>0, <2>1, EnsureSharedFacts
  <2>3. pc' \in [Procs -> Labels]
    BY <1>1, <2>1 DEF Labels
  <2>4. device = "started" /\ UNCHANGED <<session, device, mapped, fault, past>>
    BY <1>2, <1>7 DEF GetSharedMemory
  <2> QED
    BY <1>0, <2>2, <2>3, <2>4, StartedStep
<1>8. CASE MapView(p)
  <2>1. PICK ok \in BOOLEAN : /\ mapped' = IF ok THEN mapped \union {p} ELSE mapped
                              /\ Goto(p, IF ok THEN "running" ELSE "closing")
    BY <1>8 DEF MapView
  <2>2. pc' \in [Procs -> Labels] /\ mapped' \subseteq Procs
    BY <1>0, <1>1, <2>1 DEF Labels
  <2>3. device = "started" /\ UNCHANGED <<kernel, session, device, fault, past>>
    BY <1>2, <1>8 DEF MapView
  <2> QED
    BY <1>0, <2>2, <2>3, StartedStep
<1>9. CASE AttachIoctl(p) \/ DetachIoctl(p)
  BY <1>0, <1>2, <1>9, StartedStep DEF AttachIoctl, DetachIoctl
<1>10. CASE Leave(p)
  BY <1>0, <1>1, <1>2, <1>10, StartedStep DEF Leave, Labels
<1>11. CASE SessionClose(p)
  <2>1. Sound(kernel')
    BY <1>0, <1>11, CloseSharedFacts DEF SessionClose, Sound
  <2>2. pc' \in [Procs -> Labels] /\ device = "started" /\ UNCHANGED <<device, mapped, fault, past>>
    BY <1>1, <1>2, <1>11 DEF SessionClose, Labels
  <2> QED
    BY <1>0, <1>11, <2>1, <2>2, StartedStep DEF SessionClose
<1>12. CASE DropFields(p)
  <2>1. Sound(kernel')
    BY <1>0, <1>12, ObjectsOnly DEF DropFields
  <2>2. /\ pc' \in [Procs -> Labels] /\ device = "started" /\ UNCHANGED <<session, device, fault, past>>
        /\ mapped' \subseteq Procs
    BY <1>0, <1>1, <1>2, <1>12 DEF DropFields, Labels
  <2> QED
    BY <1>0, <2>1, <2>2, StartedStep
<1>13. Sound(EndProcess(kernel, p)) /\ EndProcess(kernel, p).ready = kernel.ready
                                    /\ EndProcess(kernel, p).mem = kernel.mem
  <2> DEFINE views == kernel.views \ {p}
  <2>1. views \in SUBSET Procs
    BY <1>0 DEF Kernel
  <2>2. EndProcess(kernel, p) = [kernel EXCEPT !.views = views, !.open[p] = {}]
    BY DEF EndProcess
  <2>3. Sound(EndProcess(kernel, p))
    <3> HIDE DEF views
    <3>1. Sound([kernel EXCEPT !.views = views, !.open[p] = {}])
      BY <1>0, <2>1, ObjectsOnly
    <3> QED
      BY <2>2, <3>1, Zenon
  <2> QED
    BY <1>0, <2>2, <2>3 DEF Kernel
<1>14. CASE Exit(p)
  <2>1. kernel' = EndProcess(kernel, p) /\ UNCHANGED <<session, device, mapped, fault, past>>
    BY <1>14 DEF Exit
  <2>2. pc' \in [Procs -> Labels] /\ \A q \in Procs : pc'[q] \in {pc[q], "off"}
    BY <1>0, <1>1, <1>14 DEF Exit, Goto, Labels
  <2>3. TypeOK'
    BY <1>0, <1>13, <2>1, <2>2 DEF IInv, TypeOK, Sound, Labels
  <2>4. PoolBalanced' /\ AllOrNothing'
    BY <1>13, <2>1 DEF IInv, PoolBalanced, AllOrNothing, Sound
  <2>5. ClosedUnlessStarted'
    BY <1>13, <2>1, <2>2 DEF IInv, ClosedUnlessStarted
  <2> QED
    BY <2>3, <2>4, <2>5 DEF IInv
<1>15. CASE Kill(p)
  <2>1. Sound(kernel')
    BY <1>13, <1>15 DEF Kill
  <2>2. /\ pc' \in [Procs -> Labels] /\ device = "started" /\ UNCHANGED <<session, device, fault>>
        /\ mapped' \subseteq Procs /\ past' \subseteq Pasts
    BY <1>0, <1>1, <1>2, <1>15 DEF Kill, Labels, Pasts
  <2> QED
    BY <1>0, <2>1, <2>2, StartedStep
<1> QED
  BY <1>3, <1>4, <1>5, <1>6, <1>7, <1>8, <1>9, <1>10, <1>11, <1>12, <1>14, <1>15 DEF Daemon

\* The invariant is inductive.
LEMMA NextSound == IInv /\ [Next]_vars => IInv'
<1> SUFFICES ASSUME IInv, [Next]_vars PROVE IInv'
  OBVIOUS
<1>1. CASE Load \/ StartDevice \/ RemoveDevice \/ Unload
  BY <1>1, LifecycleStep
<1>2. CASE \E p \in Procs : Daemon(p)
  BY <1>2, DaemonStep
<1>3. CASE UNCHANGED vars
  BY <1>3 DEF IInv, vars, TypeOK, PoolBalanced, AllOrNothing, ClosedUnlessStarted
<1> QED
  BY <1>1, <1>2, <1>3 DEF Next

\* Together, and with what makes them inductive.
LEMMA AlwaysSound == Spec => []IInv
  BY InitSound, NextSound, PTL DEF Spec

-----------------------------------------------------------------------------
(* The theorems                                                            *)

\* Whatever daemons open, map, overlap and are killed, the driver's state stays
\* well formed; its count of allocations never goes below zero.
THEOREM DriverTypeCorrect == Spec => []TypeOK
<1>1. IInv => TypeOK
  BY DEF IInv
<1> QED
  BY <1>1, AlwaysSound, PTL

\* release_owned_shared_memory frees each allocation of init_vhci_driver once
\* (vhci.cpp:11-49): none is leaked or freed twice, and none is left after the
\* unload.
THEOREM PoolAlwaysBalanced == Spec => []PoolBalanced
<1>1. IInv => PoolBalanced
  BY DEF IInv
<1> QED
  BY <1>1, AlwaysSound, PTL

\* The device context holds the section, its view and both events, or nothing,
\* whichever step of CreateSharedResources failed (device.cpp:105-205).
THEOREM SharedAllOrNothing == Spec => []AllOrNothing
<1>1. IInv => AllOrNothing
  BY DEF IInv
<1> QED
  BY <1>1, AlwaysSound, PTL

-----------------------------------------------------------------------------
(***************************************************************************)
(* No daemon has the device open beside one that maps, and none that maps  *)
(* is stopped from outside: then what such a daemon maps is what the       *)
(* driver uses, nothing of it stays behind, and no IOCTL reads through a   *)
(* pointer to nothing.  Any number of daemons may come one after another,  *)
(* and those that do not map may overlap and be killed.                    *)
(***************************************************************************)

\* Where a daemon is while the section of the driver is its.
Holding == {"mapView", "running", "closing"}

AloneInDevice == \A p \in Mappers \intersect Opened : Opened = {p}

OnlyMappersMap == \A p \in Procs : pc[p] \in {"mapping", "mapView"} => p \in Mappers

HolderOpen == \A p \in kernel.view : p \in Mappers /\ pc[p] \in Holding

\* What Windows keeps for the processes is what the context says.
ObjectsOfHolder ==
    /\ kernel.views = kernel.view
    /\ \A p \in Procs \ kernel.by : kernel.open[p] = {}

MappedHolds ==
    /\ \A p \in Procs : pc[p] = "mapView" => kernel.view = {p}
    /\ \A p \in mapped : /\ pc[p] \in {"running", "closing", "dropping"}
                         /\ pc[p] # "dropping" => kernel.view = {p}

OneAtATime ==
    AloneInDevice /\ OnlyMappersMap /\ HolderOpen /\ ObjectsOfHolder /\ MappedHolds /\ ~fault

\* Where a daemon is that has opened a session and not closed it.
InSession == {"session", "mapping", "mapView", "running", "closing"}

SessionHeld == session = "CLOSED" \/ \E p \in Procs : pc[p] \in InSession

-----------------------------------------------------------------------------
(* The operators on the context, and what they do to the processes' objects *)

\* init_vhci_driver touches no section and no handle.
LEMMA InitVhciObjects ==
    ASSUME NEW k \in Kernel, Balanced(k), NEW ok \in BOOLEAN
    PROVE  /\ InitVhci(k, ok).view = k.view /\ InitVhci(k, ok).views = k.views
           /\ InitVhci(k, ok).by = k.by /\ InitVhci(k, ok).open = k.open
<1> DEFINE r == Release(k)
<1>1. /\ r \in Kernel /\ r.view = k.view /\ r.views = k.views /\ r.by = k.by /\ r.open = k.open
  BY ReleaseFacts
<1>2. InitVhci(k, ok) =
        IF ok THEN [r EXCEPT !.mem = "pool", !.owns = TRUE, !.pool = r.pool + 1] ELSE r
  BY DEF InitVhci
<1> HIDE DEF r
<1> QED
  BY <1>1, <1>2 DEF Kernel

\* use_external_shared_memory_context changes none of them either.
LEMMA UseExternalObjects ==
    ASSUME NEW k \in Kernel, Balanced(k), NEW mem \in {"none", "view"}
    PROVE  LET u == UseExternal(k, mem) IN
           /\ u \in Kernel /\ u.view = k.view /\ u.views = k.views /\ u.by = k.by
           /\ u.open = k.open /\ u.handles = k.handles /\ u.ready = k.ready
<1> DEFINE r == Release(k)
<1>1. /\ r \in Kernel /\ r.view = k.view /\ r.views = k.views /\ r.by = k.by /\ r.open = k.open
      /\ r.handles = k.handles /\ r.ready = k.ready
  BY ReleaseFacts
<1>2. UseExternal(k, mem) = [r EXCEPT !.mem = mem]
  BY DEF UseExternal
<1> HIDE DEF r
<1> QED
  BY <1>1, <1>2 DEF Kernel

\* CloseSharedResources unmaps and closes only what is the caller's.
LEMMA CloseSharedObjects ==
    ASSUME NEW k \in Kernel, Balanced(k), NEW P \in SUBSET Procs
    PROVE  LET c == CloseShared(k, P) IN
           /\ c.view = {} /\ c.by = {} /\ c.ready = FALSE
           /\ c.views = k.views \ (P \intersect k.view)
           /\ \A q \in Procs : c.open[q] = IF q \in P \intersect k.by THEN k.open[q] \ k.handles
                                          ELSE k.open[q]
<1> DEFINE u == UseExternal(k, "none")
<1>1. u \in Kernel /\ u.views = k.views /\ u.open = k.open
  BY UseExternalObjects
<1> DEFINE open == [q \in Procs |-> IF q \in P \intersect k.by THEN u.open[q] \ k.handles ELSE u.open[q]]
<1>2. CloseShared(k, P) = [u EXCEPT !.views = u.views \ (P \intersect k.view), !.open = open,
                                   !.view = {}, !.handles = {}, !.by = {}, !.ready = FALSE]
  BY DEF CloseShared
<1>3. \A q \in Procs : open[q] = IF q \in P \intersect k.by THEN k.open[q] \ k.handles ELSE k.open[q]
  BY <1>1
<1> HIDE DEF u, open
<1> DEFINE c == CloseShared(k, P)
<1>4. /\ c.view = {} /\ c.by = {} /\ c.ready = FALSE /\ c.open = open
      /\ c.views = u.views \ (P \intersect k.view)
  BY <1>1, <1>2 DEF Kernel
<1> QED
  BY <1>1, <1>3, <1>4

\* CreateSharedResources makes objects of the caller alone.
LEMMA CreateSharedObjects ==
    ASSUME NEW k \in Kernel, Sound(k), k.views = k.view, ~k.ready, NEW p \in Procs,
           NEW failing \in Steps
    PROVE  LET c == CreateShared(k, p, failing) IN
           /\ c.view \in {{}, {p}} /\ c.views = c.view /\ c.by = {p}
           /\ failing = "none" => c.view = {p}
           /\ c.handles = Made(failing)
           /\ c.open = [k.open EXCEPT ![p] = @ \union Made(failing)]
<1> DEFINE u == UseExternal(k, "view")
           e == [u EXCEPT !.view = {p}, !.views = u.views \union {p}]
           v == IF failing \in {"section", "map"} THEN k ELSE e
<1>1. k.view = {} /\ k.views = {}
  BY DEF Sound, Whole
<1>2. u \in Kernel /\ u.views = {} /\ u.open = k.open
  BY <1>1, UseExternalObjects DEF Sound
<1> HIDE DEF u
<1>3. e \in Kernel /\ e.view = {p} /\ e.views = {p} /\ e.open = k.open
  BY <1>2 DEF Kernel
<1>4. CreateShared(k, p, failing) =
        [v EXCEPT !.handles = Made(failing), !.by = {p},
                  !.open = [v.open EXCEPT ![p] = @ \union Made(failing)]]
  <2>1. (IF failing \in {"section", "map"} THEN k
         ELSE [UseExternal(k, "view") EXCEPT !.view = {p}, !.views = @ \union {p}]) = v
    BY <1>2 DEF u, Kernel
  <2> HIDE DEF v
  <2>2. v \in Kernel
    BY <1>3 DEF v
  <2> QED
    BY <2>1, <2>2 DEF CreateShared, Kernel
<1> HIDE DEF e
<1>5. /\ v \in Kernel /\ v.view \in {{}, {p}} /\ v.views = v.view /\ v.open = k.open
      /\ failing = "none" => v.view = {p}
  BY <1>1, <1>3
<1> HIDE DEF v
<1> DEFINE c == CreateShared(k, p, failing)
<1>6. /\ c.view = v.view /\ c.views = v.views /\ c.by = {p} /\ c.handles = Made(failing)
      /\ c.open = [v.open EXCEPT ![p] = @ \union Made(failing)]
  BY <1>4, <1>5 DEF Kernel
<1> QED
  BY <1>5, <1>6

\* EnsureSharedResources of a process, in a context that is empty: all is its,
\* or nothing is anybody's.
LEMMA EnsureSharedObjects ==
    ASSUME NEW k \in Kernel, Sound(k), k.views = k.view, ~k.ready,
           \A q \in Procs : k.open[q] = {}, NEW p \in Procs, NEW failing \in Steps
    PROVE  LET s == EnsureShared(k, p, failing) IN
           /\ s.view \in {{}, {p}} /\ s.views = s.view
           /\ s.ready => s.view = {p} /\ s.by = {p}
           /\ \A q \in Procs \ s.by : s.open[q] = {}
<1> DEFINE c == CreateShared(k, p, failing)
<1>1. c \in Kernel /\ Balanced(c)
  BY CreateSharedFacts
<1>2. /\ c.view \in {{}, {p}} /\ c.views = c.view /\ c.by = {p}
      /\ failing = "none" => c.view = {p}
      /\ c.handles = Made(failing)
      /\ c.open = [k.open EXCEPT ![p] = @ \union Made(failing)]
  BY CreateSharedObjects
<1>3. /\ c.open[p] = Made(failing)
      /\ \A q \in Procs \ {p} : c.open[q] = {}
  BY <1>2 DEF Kernel
<1>4. EnsureShared(k, p, failing) =
        IF failing = "none" THEN [c EXCEPT !.ready = TRUE] ELSE CloseShared(c, {p})
  BY DEF EnsureShared
<1> HIDE DEF c
<1>5. CASE failing = "none"
  <2> DEFINE s == [c EXCEPT !.ready = TRUE]
  <2>1. s.view = c.view /\ s.views = c.views /\ s.by = c.by /\ s.open = c.open
    BY <1>1 DEF Kernel
  <2> HIDE DEF s
  <2> QED
    BY <1>2, <1>3, <1>4, <1>5, <2>1 DEF s
<1>6. CASE failing # "none"
  <2> DEFINE s == CloseShared(c, {p})
  <2>0. {p} \in SUBSET Procs
    OBVIOUS
  <2>1. /\ s.view = {} /\ s.by = {} /\ s.ready = FALSE
        /\ s.views = c.views \ ({p} \intersect c.view)
        /\ \A q \in Procs : s.open[q] = IF q \in {p} \intersect c.by THEN c.open[q] \ c.handles
                                       ELSE c.open[q]
    BY <1>1, <2>0, CloseSharedObjects
  <2> HIDE DEF s
  <2>2. s.views = {} /\ \A q \in Procs : s.open[q] = {}
    BY <1>2, <1>3, <2>1
  <2> QED
    BY <1>4, <1>6, <2>1, <2>2 DEF s
<1> QED
  BY <1>5, <1>6
\* The objects of a process are taken back: its handles, or its views as well.
TakenBack(k, p, views) == [k EXCEPT !.views = views, !.open[p] = {}]

\* What Windows takes back from a process is not what the context says of it.
LEMMA ProcessObjects ==
    ASSUME NEW k \in Kernel, NEW p \in Procs, NEW views
    PROVE  LET e == TakenBack(k, p, views) IN
           /\ e.view = k.view /\ e.by = k.by /\ e.views = views
           /\ \A q \in Procs : e.open[q] \in {k.open[q], {}}
<1> DEFINE open == [k.open EXCEPT ![p] = {}]
<1>1. \A q \in Procs : open[q] \in {k.open[q], {}}
  BY DEF Kernel
<1>2. TakenBack(k, p, views) = [k EXCEPT !.views = views, !.open = open]
  BY DEF TakenBack
<1> HIDE DEF open
<1> QED
  BY <1>1, <1>2 DEF Kernel

-----------------------------------------------------------------------------
(* Every action, while no daemon is beside one that maps                   *)

\* The types of the state.
LEMMA Types ==
    ASSUME IInv
    PROVE  /\ kernel \in Kernel /\ Sound(kernel) /\ pc \in [Procs -> Labels]
           /\ Mappers \subseteq Procs /\ mapped \subseteq Procs /\ kernel.view \subseteq Procs
BY DriverAssumption DEF IInv, TypeOK, PoolBalanced, AllOrNothing, Sound, Labels, Kernel

\* Only the daemon that steps moves.
LEMMA GotoMoves ==
    ASSUME IInv, NEW p \in Procs, NEW label, Goto(p, label)
    PROVE  pc'[p] = label /\ \A q \in Procs \ {p} : pc'[q] = pc[q]
BY Types DEF Goto

\* A daemon in whose process the section is mapped is alone.
LEMMA HolderAlone ==
    ASSUME IInv, OneAtATime, NEW p \in kernel.view
    PROVE  Opened = {p} /\ p \in Mappers /\ pc[p] \in Holding
BY Types DEF OneAtATime, AloneInDevice, HolderOpen, Holding, Opened

\* A daemon that closes the device, or moves while it has it open, leaves those
\* that map alone.
LEMMA StillAlone ==
    ASSUME AloneInDevice, Opened' \subseteq Opened
    PROVE  AloneInDevice'
BY DEF AloneInDevice

\* A step of a daemon that holds nothing and touches no objects of the driver.
LEMMA IdleStep ==
    ASSUME IInv, OneAtATime, NEW p \in Procs, NEW label \in Labels \ {"mapView"},
           Goto(p, label), label = "mapping" => p \in Mappers,
           AloneInDevice', p \notin kernel.view, p \notin mapped, mapped' = mapped,
           kernel'.view = kernel.view, kernel'.views = kernel.views, kernel'.by = kernel.by,
           kernel'.open = kernel.open, ~fault'
    PROVE  OneAtATime'
<1>1. pc'[p] = label /\ \A q \in Procs \ {p} : pc'[q] = pc[q]
  BY GotoMoves
<1>2. OnlyMappersMap'
  BY <1>1 DEF OneAtATime, OnlyMappersMap
<1>3. HolderOpen'
  BY <1>1, Types DEF OneAtATime, HolderOpen
<1>4. ObjectsOfHolder'
  BY DEF OneAtATime, ObjectsOfHolder
<1>5. MappedHolds'
  BY <1>1, Types DEF OneAtATime, MappedHolds
<1> QED
  BY <1>2, <1>3, <1>4, <1>5 DEF OneAtATime

\* CreateFileW: a daemon that maps finds the device closed, and any finds it
\* without one that maps, or else they overlap.
LEMMA OpenStep ==
    ASSUME IInv, OneAtATime, NEW p \in Procs, OpenDevice(p), Orderly'
    PROVE  OneAtATime'
<1>1. Opened = {} \/ Mappers \intersect (Opened \union {p}) = {}
  BY DEF OpenDevice, Orderly
<1>2. Goto(p, "opened") /\ pc[p] = "off" /\ UNCHANGED <<kernel, mapped, fault>>
  BY DEF OpenDevice
<1>3. Opened' = Opened \union {p}
  BY <1>2, GotoMoves DEF Opened
<1>4. AloneInDevice'
  BY <1>1, <1>3 DEF AloneInDevice
<1>5. p \notin kernel.view /\ p \notin mapped
  BY <1>2 DEF OneAtATime, HolderOpen, Holding, MappedHolds
<1> QED
  BY <1>2, <1>4, <1>5, IdleStep DEF Labels, OneAtATime

\* No IOCTL of a daemon that has not mapped meets a view.
LEMMA NoFaultStep ==
    ASSUME IInv, OneAtATime, NEW p \in Procs, Fault(p)
    PROVE  FALSE
<1>1. kernel.mem = "view" /\ pc[p] \in {"opened", "session"}
  BY DEF Fault, Faults
<1>2. PICK q \in Procs : kernel.view = {q}
  BY <1>1, Types DEF Sound, Whole
<1>3. Opened = {q} /\ pc[q] \in Holding
  BY <1>2, HolderAlone
<1>4. p \in Opened
  BY <1>1 DEF Opened
<1> QED
  BY <1>1, <1>3, <1>4 DEF Holding

\* SESSION_OPEN allocates at most the driver's own memory.
LEMMA OpenSessionStep ==
    ASSUME IInv, OneAtATime, NEW p \in Procs, SessionOpen(p)
    PROVE  OneAtATime'
<1>1. PICK ok \in BOOLEAN :
        /\ kernel' = IF kernel.mem = "none" THEN InitVhci(kernel, ok) ELSE kernel
        /\ Goto(p, IF ok THEN "session" ELSE "off")
  BY DEF SessionOpen
<1>2. /\ kernel'.view = kernel.view /\ kernel'.views = kernel.views
      /\ kernel'.by = kernel.by /\ kernel'.open = kernel.open
  BY <1>1, InitVhciObjects, Types DEF Sound
<1>3. pc[p] = "opened" /\ UNCHANGED <<mapped, fault>>
  BY DEF SessionOpen
<1>4. p \notin kernel.view /\ p \notin mapped
  BY <1>3 DEF OneAtATime, HolderOpen, Holding, MappedHolds
<1>5. AloneInDevice'
  BY <1>1, <1>3, GotoMoves, StillAlone DEF OneAtATime, Opened
<1>6. PICK label \in {"session", "off"} : Goto(p, label)
  BY <1>1
<1> QED
  BY <1>2, <1>3, <1>4, <1>5, <1>6, IdleStep DEF Labels, OneAtATime

\* GET_STATUS: only a daemon that maps goes on to GET_SHARED_MEMORY.
LEMMA StatusStep ==
    ASSUME IInv, OneAtATime, NEW p \in Procs, GetStatus(p)
    PROVE  OneAtATime'
<1>1. pc[p] = "session" /\ UNCHANGED <<kernel, mapped, fault>>
  BY DEF GetStatus
<1>2. PICK label \in {"closing", "mapping", "running"} :
        Goto(p, label) /\ (label = "mapping" => p \in Mappers)
  BY DEF GetStatus
<1>3. p \notin kernel.view /\ p \notin mapped
  BY <1>1 DEF OneAtATime, HolderOpen, Holding, MappedHolds
<1>4. AloneInDevice'
  BY <1>1, <1>2, GotoMoves, StillAlone DEF OneAtATime, Opened
<1> QED
  BY <1>1, <1>2, <1>3, <1>4, IdleStep DEF Labels, OneAtATime

\* GET_SHARED_MEMORY: the daemon is alone, so that it finds an empty context,
\* and makes the section, the view and the handles its own, or leaves none.
LEMMA SharedMemoryStep ==
    ASSUME IInv, OneAtATime, NEW p \in Procs, GetSharedMemory(p)
    PROVE  OneAtATime'
<1>1. pc[p] = "mapping" /\ UNCHANGED <<mapped, fault>>
  BY DEF GetSharedMemory
<1>2. PICK failing \in Steps :
        /\ kernel' = EnsureShared(kernel, p, failing)
        /\ Goto(p, IF kernel'.ready THEN "mapView" ELSE "closing")
  BY DEF GetSharedMemory
<1>3. p \in Mappers /\ Opened = {p}
  BY <1>1 DEF OneAtATime, OnlyMappersMap, AloneInDevice, Opened
<1>4. kernel.view = {}
  <2> SUFFICES ASSUME NEW q \in kernel.view PROVE FALSE
    OBVIOUS
  <2> QED
    BY <1>1, <1>3, HolderAlone DEF Holding
<1>5. ~kernel.ready /\ kernel.by = {}
  BY <1>4, Types DEF Sound, Whole
<1>6. mapped = {}
  <2> SUFFICES ASSUME NEW q \in mapped PROVE FALSE
    OBVIOUS
  <2>1. q \in Opened
    BY Types DEF OneAtATime, MappedHolds, Opened
  <2> QED
    BY <1>1, <1>3, <2>1 DEF OneAtATime, MappedHolds
<1>7. /\ kernel'.view \in {{}, {p}} /\ kernel'.views = kernel'.view
      /\ kernel'.ready => kernel'.view = {p} /\ kernel'.by = {p}
      /\ \A q \in Procs \ kernel'.by : kernel'.open[q] = {}
  <2>1. kernel.views = kernel.view /\ \A q \in Procs : kernel.open[q] = {}
    BY <1>5 DEF OneAtATime, ObjectsOfHolder
  <2> QED
    BY <1>2, <1>5, <2>1, EnsureSharedObjects, Types
<1>8. Sound(kernel')
  BY <1>2, EnsureSharedFacts, Types
<1>9. /\ pc'[p] = IF kernel'.ready THEN "mapView" ELSE "closing"
      /\ \A q \in Procs \ {p} : pc'[q] = pc[q]
  BY <1>2, GotoMoves
<1>10. AloneInDevice'
  BY <1>1, <1>9, StillAlone DEF OneAtATime, Opened
<1>11. OnlyMappersMap'
  BY <1>3, <1>9 DEF OneAtATime, OnlyMappersMap
<1>12. HolderOpen'
  BY <1>3, <1>7, <1>9 DEF HolderOpen, Holding
<1>13. ObjectsOfHolder'
  BY <1>7 DEF ObjectsOfHolder
<1>14. MappedHolds'
  <2>1. \A q \in Procs \ {p} : pc[q] # "mapView"
    BY <1>3 DEF Opened
  <2> QED
    BY <1>1, <1>6, <1>7, <1>9, <2>1 DEF MappedHolds
<1> QED
  BY <1>1, <1>10, <1>11, <1>12, <1>13, <1>14 DEF OneAtATime

\* MapViewOfFile follows in the process whose section it is.
LEMMA MapStep ==
    ASSUME IInv, OneAtATime, NEW p \in Procs, MapView(p)
    PROVE  OneAtATime'
<1>1. pc[p] = "mapView" /\ UNCHANGED <<kernel, fault>>
  BY DEF MapView
<1>2. PICK label \in {"running", "closing"} :
        Goto(p, label) /\ mapped' \subseteq mapped \union {p} /\ mapped \subseteq mapped'
  BY DEF MapView
<1>3. kernel.view = {p}
  BY <1>1 DEF OneAtATime, MappedHolds
<1>4. pc'[p] = label /\ \A q \in Procs \ {p} : pc'[q] = pc[q]
  BY <1>2, GotoMoves
<1>5. AloneInDevice'
  BY <1>1, <1>4, StillAlone DEF OneAtATime, Opened
<1>6. OnlyMappersMap' /\ HolderOpen' /\ ObjectsOfHolder'
  BY <1>1, <1>3, <1>4 DEF OneAtATime, OnlyMappersMap, HolderOpen, Holding, ObjectsOfHolder
<1>7. MappedHolds'
  <2>1. \A q \in Procs : pc'[q] = "mapView" => kernel'.view = {q}
    BY <1>1, <1>4 DEF OneAtATime, MappedHolds
  <2>2. ASSUME NEW q \in mapped'
        PROVE  /\ pc'[q] \in {"running", "closing", "dropping"}
               /\ pc'[q] # "dropping" => kernel'.view = {q}
    <3>1. CASE q = p
      BY <1>1, <1>3, <1>4, <3>1
    <3>2. CASE q # p
      BY <1>1, <1>2, <1>4, <3>2, Types DEF OneAtATime, MappedHolds
    <3> QED
      BY <3>1, <3>2
  <2> QED
    BY <2>1, <2>2 DEF MappedHolds
<1> QED
  BY <1>1, <1>5, <1>6, <1>7 DEF OneAtATime

\* ATTACH_DEVICE, DETACH_DEVICE and the end of a session: the holder remains it.
LEMMA RunningStep ==
    ASSUME IInv, OneAtATime, NEW p \in Procs, AttachIoctl(p) \/ DetachIoctl(p) \/ Leave(p)
    PROVE  OneAtATime'
<1>1. pc[p] = "running" /\ UNCHANGED <<kernel, mapped, fault>>
  BY DEF AttachIoctl, DetachIoctl, Leave
<1>2. pc'[p] \in {"running", "closing"} /\ \A q \in Procs \ {p} : pc'[q] = pc[q]
  BY <1>1, GotoMoves DEF AttachIoctl, DetachIoctl, Leave
<1>3. AloneInDevice'
  BY <1>1, <1>2, StillAlone DEF OneAtATime, Opened
<1>4. OnlyMappersMap'
  BY <1>2 DEF OneAtATime, OnlyMappersMap
<1>5. HolderOpen'
  BY <1>1, <1>2, Types DEF OneAtATime, HolderOpen, Holding
<1>6. ObjectsOfHolder'
  BY <1>1 DEF OneAtATime, ObjectsOfHolder
<1>7. MappedHolds'
  BY <1>1, <1>2, Types DEF OneAtATime, MappedHolds
<1> QED
  BY <1>1, <1>3, <1>4, <1>5, <1>6, <1>7 DEF OneAtATime

\* SESSION_CLOSE: the view is the closing daemon's own, and with it go its
\* handles; or there is none.
LEMMA CloseStep ==
    ASSUME IInv, OneAtATime, NEW p \in Procs, SessionClose(p)
    PROVE  OneAtATime'
<1>1. /\ pc[p] = "closing" /\ Goto(p, "dropping") /\ kernel' = CloseShared(kernel, {p})
      /\ UNCHANGED <<mapped, fault>>
  BY DEF SessionClose
<1>2. pc'[p] = "dropping" /\ \A q \in Procs \ {p} : pc'[q] = pc[q]
  BY <1>1, GotoMoves
<1>3. kernel.view \subseteq {p}
  <2> SUFFICES ASSUME NEW q \in kernel.view PROVE q = p
    OBVIOUS
  <2>1. Opened = {q} /\ p \in Opened
    BY <1>1, HolderAlone DEF Opened
  <2> QED
    BY <2>1
<1>4. /\ kernel'.view = {} /\ kernel'.by = {}
      /\ kernel'.views = kernel.views \ ({p} \intersect kernel.view)
      /\ \A q \in Procs : kernel'.open[q] = IF q \in {p} \intersect kernel.by
                                           THEN kernel.open[q] \ kernel.handles ELSE kernel.open[q]
  <2>1. {p} \in SUBSET Procs
    OBVIOUS
  <2>2. kernel \in Kernel /\ Balanced(kernel)
    BY Types DEF Sound
  <2>3. LET c == CloseShared(kernel, {p}) IN
        /\ c.view = {} /\ c.by = {}
        /\ c.views = kernel.views \ ({p} \intersect kernel.view)
        /\ \A q \in Procs : c.open[q] = IF q \in {p} \intersect kernel.by
                                       THEN kernel.open[q] \ kernel.handles ELSE kernel.open[q]
    BY <2>1, <2>2, CloseSharedObjects
  <2> QED
    BY <1>1, <2>3
<1>5. kernel.by = kernel.view /\ (kernel.by # {} => kernel.handles = HandleKinds)
  BY Types DEF Sound, Whole
<1>6. ObjectsOfHolder'
  <2>1. kernel'.views = {}
    BY <1>3, <1>4 DEF OneAtATime, ObjectsOfHolder
  <2>2. \A q \in Procs : kernel.open[q] \subseteq HandleKinds
    BY Types DEF Kernel
  <2>3. ASSUME NEW q \in Procs PROVE kernel'.open[q] = {}
    <3>1. CASE q \in kernel.by
      BY <1>3, <1>4, <1>5, <2>2, <3>1
    <3>2. CASE q \notin kernel.by
      BY <1>4, <3>2 DEF OneAtATime, ObjectsOfHolder
    <3> QED
      BY <3>1, <3>2
  <2> QED
    BY <1>4, <2>1, <2>3 DEF ObjectsOfHolder
<1>7. AloneInDevice'
  BY <1>1, <1>2, StillAlone DEF OneAtATime, Opened
<1>8. OnlyMappersMap' /\ HolderOpen'
  BY <1>2, <1>4 DEF OneAtATime, OnlyMappersMap, HolderOpen
<1>9. MappedHolds'
  BY <1>1, <1>2, <1>3, Types DEF OneAtATime, MappedHolds
<1> QED
  BY <1>1, <1>6, <1>7, <1>8, <1>9 DEF OneAtATime

\* The end of a process, in the order of its Drop code or all at once: it holds
\* nothing that the driver uses.
LEMMA EndStep ==
    ASSUME IInv, OneAtATime, NEW p \in Procs, DropFields(p) \/ Exit(p) \/ Kill(p), Orderly'
    PROVE  OneAtATime'
<1>1. /\ pc'[p] \in {"exiting", "off"} /\ \A q \in Procs \ {p} : pc'[q] = pc[q]
      /\ UNCHANGED fault
  BY GotoMoves DEF DropFields, Exit, Kill
<1>2. p \notin kernel.view
  <2>1. CASE DropFields(p) \/ Exit(p)
    BY <2>1 DEF DropFields, Exit, OneAtATime, HolderOpen, Holding
  <2>2. CASE Kill(p)
    BY <2>2 DEF Kill, Orderly, OneAtATime, HolderOpen
  <2> QED
    BY <2>1, <2>2
<1>3. mapped' \subseteq mapped \ {p}
  BY DEF DropFields, Exit, Kill, OneAtATime, MappedHolds
<1>4. /\ kernel'.view = kernel.view /\ kernel'.by = kernel.by
      /\ kernel'.views \in {kernel.views, kernel.views \ {p}}
      /\ \A q \in Procs : kernel'.open[q] \in {kernel.open[q], {}}
  <2>1. kernel \in Kernel
    BY Types
  <2>2. CASE kernel' = kernel
    BY <2>2
  <2>3. CASE kernel' = [kernel EXCEPT !.open[p] = {}]
    <3>1. kernel' = TakenBack(kernel, p, kernel.views)
      BY <2>1, <2>3 DEF TakenBack, Kernel
    <3> QED
      BY <2>1, <3>1, ProcessObjects
  <2>4. CASE kernel' = EndProcess(kernel, p)
    <3> DEFINE views == kernel.views \ {p}
    <3>1. kernel' = TakenBack(kernel, p, views)
      BY <2>4 DEF TakenBack, EndProcess
    <3> HIDE DEF views
    <3>2. /\ kernel'.view = kernel.view /\ kernel'.by = kernel.by /\ kernel'.views = views
          /\ \A q \in Procs : kernel'.open[q] \in {kernel.open[q], {}}
      BY <2>1, <3>1, ProcessObjects
    <3> QED
      BY <3>2 DEF views
  <2> QED
    BY <2>2, <2>3, <2>4 DEF DropFields, Exit, Kill
<1>5. Opened' \subseteq Opened
  BY <1>1 DEF Opened
<1>6. AloneInDevice'
  BY <1>5, StillAlone DEF OneAtATime
<1>7. OnlyMappersMap'
  BY <1>1 DEF OneAtATime, OnlyMappersMap
<1>8. HolderOpen'
  BY <1>1, <1>2, <1>4, Types DEF OneAtATime, HolderOpen
<1>9. ObjectsOfHolder'
  BY <1>2, <1>4 DEF OneAtATime, ObjectsOfHolder
<1>10. MappedHolds'
  BY <1>1, <1>2, <1>3, <1>4, Types DEF OneAtATime, MappedHolds
<1> QED
  BY <1>1, <1>6, <1>7, <1>8, <1>9, <1>10 DEF OneAtATime

\* Loading, device start, removal and unload: the context is empty, or the
\* driver's own memory is all that changes.
LEMMA LifecycleOrderly ==
    ASSUME IInv, OneAtATime, Load \/ StartDevice \/ RemoveDevice \/ Unload
    PROVE  OneAtATime'
<1>1. UNCHANGED <<pc, mapped, fault>>
  BY DEF Load, StartDevice, RemoveDevice, Unload
<1>2. Balanced(kernel) /\ kernel \in Kernel
  BY Types DEF Sound
<1>3. /\ kernel'.view = kernel.view /\ kernel'.views = kernel.views /\ kernel'.by = kernel.by
      /\ \A q \in Procs : kernel'.open[q] = kernel.open[q]
  <2>1. CASE Load
    <3>1. PICK ok \in BOOLEAN : kernel' = InitVhci(kernel, ok)
      BY <2>1 DEF Load
    <3> QED
      BY <1>2, <3>1, InitVhciObjects
  <2>2. CASE StartDevice
    BY <2>2 DEF StartDevice
  <2>3. CASE RemoveDevice
    <3>1. kernel' = CloseShared(kernel, {}) /\ Opened = {}
      BY <2>3 DEF RemoveDevice
    <3>2. kernel.view = {}
      BY <3>1, HolderAlone
    <3>3. kernel.by = {}
      BY <3>2, Types DEF Sound, Whole
    <3>4. LET c == CloseShared(kernel, {}) IN
          /\ c.view = {} /\ c.by = {} /\ c.views = kernel.views \ ({} \intersect kernel.view)
          /\ \A q \in Procs : c.open[q] = IF q \in {} \intersect kernel.by
                                         THEN kernel.open[q] \ kernel.handles ELSE kernel.open[q]
      <4>1. {} \in SUBSET Procs
        OBVIOUS
      <4> QED
        BY <1>2, <4>1, CloseSharedObjects
    <3> QED
      BY <3>1, <3>2, <3>3, <3>4
  <2>4. CASE Unload
    BY <1>2, <2>4, ReleaseFacts DEF Unload
  <2> QED
    BY <2>1, <2>2, <2>3, <2>4
<1> QED
  BY <1>1, <1>3 DEF OneAtATime, AloneInDevice, Opened, OnlyMappersMap, HolderOpen,
                    ObjectsOfHolder, MappedHolds

\* A daemon that has a session open keeps the driver's session open; unless one
\* is killed, the last that had one has closed it.
LEMMA SessionStep ==
    ASSUME IInv, SessionHeld, Next, past' = {}
    PROVE  SessionHeld'
<1>1. CASE Load \/ StartDevice \/ RemoveDevice \/ Unload
  BY <1>1 DEF Load, StartDevice, RemoveDevice, Unload, SessionHeld
<1>2. CASE \E p \in Procs : Daemon(p)
  <2> PICK p \in Procs : Daemon(p)
    BY <1>2
  <2>1. CASE OpenDevice(p) \/ DropFields(p) \/ Exit(p)
    <3>1. session' = session /\ pc[p] \notin InSession /\ \A q \in Procs \ {p} : pc'[q] = pc[q]
      BY <2>1, GotoMoves DEF OpenDevice, DropFields, Exit, InSession
    <3> QED
      BY <3>1 DEF SessionHeld
  <2>2. CASE SessionOpen(p)
    <3>1. PICK ok \in BOOLEAN : /\ session' = IF ok THEN "OPEN" ELSE session
                                /\ Goto(p, IF ok THEN "session" ELSE "off")
      BY <2>2 DEF SessionOpen
    <3>2. pc[p] \notin InSession /\ (ok => pc'[p] \in InSession)
          /\ \A q \in Procs \ {p} : pc'[q] = pc[q]
      BY <2>2, <3>1, GotoMoves DEF SessionOpen, InSession
    <3> QED
      BY <3>1, <3>2 DEF SessionHeld
  <2>3. CASE GetStatus(p) \/ GetSharedMemory(p) \/ MapView(p) \/ AttachIoctl(p)
             \/ DetachIoctl(p) \/ Leave(p)
    <3>1. pc'[p] \in InSession
      BY <2>3, GotoMoves DEF GetStatus, GetSharedMemory, MapView, AttachIoctl, DetachIoctl, Leave,
                             InSession
    <3> QED
      BY <3>1 DEF SessionHeld
  <2>4. CASE SessionClose(p)
    BY <2>4 DEF SessionClose, SessionHeld
  <2>5. CASE Fault(p)
    BY <2>5 DEF Fault, SessionHeld
  <2>6. CASE Kill(p)
    BY <2>6 DEF Kill
  <2> QED
    BY <2>1, <2>2, <2>3, <2>4, <2>5, <2>6 DEF Daemon
<1> QED
  BY <1>1, <1>2 DEF Next

-----------------------------------------------------------------------------
\* The inductive invariant.
OrderlyInv ==
    /\ IInv
    /\ Orderly => OneAtATime
    /\ past = {} => SessionHeld

\* The history only grows.
LEMMA PastGrows == [Next]_vars => past \subseteq past'
BY DEF Next, vars, Load, StartDevice, RemoveDevice, Unload, Daemon, OpenDevice, Fault, SessionOpen,
       GetStatus, GetSharedMemory, MapView, AttachIoctl, DetachIoctl, Leave, SessionClose,
       DropFields, Exit, Kill

\* The driver starts without daemons.
LEMMA InitOrderly == Init => OrderlyInv
<1> SUFFICES ASSUME Init PROVE OrderlyInv
  OBVIOUS
<1>1. Opened = {}
  BY DEF Init, Opened
<1>2. OneAtATime /\ SessionHeld
  BY <1>1 DEF Init, OneAtATime, AloneInDevice, OnlyMappersMap, HolderOpen, ObjectsOfHolder,
              MappedHolds, SessionHeld
<1> QED
  BY <1>2, InitSound DEF OrderlyInv

\* The invariant is inductive.
LEMMA NextOrderly == OrderlyInv /\ [Next]_vars => OrderlyInv'
<1> SUFFICES ASSUME OrderlyInv, [Next]_vars PROVE OrderlyInv'
  OBVIOUS
<1>1. IInv /\ IInv'
  BY NextSound DEF OrderlyInv
<1>2. ASSUME Orderly' PROVE OneAtATime'
  <2>1. Orderly /\ OneAtATime
    BY <1>2, PastGrows DEF OrderlyInv, Orderly
  <2>2. CASE Load \/ StartDevice \/ RemoveDevice \/ Unload
    BY <1>1, <2>1, <2>2, LifecycleOrderly
  <2>3. CASE \E p \in Procs : Daemon(p)
    BY <1>1, <1>2, <2>1, <2>3, OpenStep, NoFaultStep, OpenSessionStep, StatusStep, SharedMemoryStep,
       MapStep, RunningStep, CloseStep, EndStep DEF Daemon
  <2>4. CASE UNCHANGED vars
    BY <2>1, <2>4 DEF vars, OneAtATime, AloneInDevice, Opened, OnlyMappersMap, HolderOpen,
                      ObjectsOfHolder, MappedHolds
  <2> QED
    BY <2>2, <2>3, <2>4 DEF Next
<1>3. ASSUME past' = {} PROVE SessionHeld'
  <2>1. past = {} /\ SessionHeld
    BY <1>3, PastGrows DEF OrderlyInv
  <2>2. CASE Next
    BY <1>1, <1>3, <2>1, <2>2, SessionStep
  <2>3. CASE UNCHANGED vars
    BY <2>1, <2>3 DEF vars, SessionHeld
  <2> QED
    BY <2>2, <2>3
<1> QED
  BY <1>1, <1>2, <1>3 DEF OrderlyInv

\* The invariant with which the theorems follow.
LEMMA AlwaysOrderly == Spec => []OrderlyInv
  BY InitOrderly, NextOrderly, PTL DEF Spec

\* For any number of daemons, of which none has opened the device beside one that
\* maps and none that maps was killed: a daemon that has mapped the section has
\* the one that the driver uses, until it has closed its session
\* (device.cpp:173-205, windows_driver_backend.rs:171-216).
THEOREM MappedSectionIsTheDrivers == Spec => []MappedIsShared
<1>1. OrderlyInv => MappedIsShared
  <2> SUFFICES ASSUME IInv, OneAtATime, NEW p \in mapped, pc[p] # "dropping"
               PROVE  kernel.ready /\ kernel.view = {p} /\ p \in kernel.views
    BY DEF OrderlyInv, MappedIsShared
  <2>1. kernel.view = {p} /\ kernel.views = kernel.view
    BY DEF OneAtATime, MappedHolds, ObjectsOfHolder
  <2> QED
    BY <2>1, Types DEF Sound, Whole
<1> QED
  BY <1>1, AlwaysOrderly, PTL

\* Under the same condition, a driver that no daemon has open holds nothing of a
\* process, whether the daemons left or failed at any step, and is closed if none
\* was killed (device.cpp:309-313).
THEOREM ClosedDriverTornDown == Spec => []TornDown
<1>1. OrderlyInv => TornDown
  <2> SUFFICES ASSUME OrderlyInv, Orderly, Opened = {}
               PROVE  /\ kernel.view = {} /\ kernel.views = {}
                      /\ \A p \in Procs : kernel.open[p] = {}
                      /\ past = {} => session = "CLOSED"
    BY DEF TornDown
  <2>1. kernel.view = {}
    BY HolderAlone DEF OrderlyInv
  <2>2. kernel.by = {}
    BY <2>1, Types DEF OrderlyInv, Sound, Whole
  <2>3. kernel.views = {} /\ \A p \in Procs : kernel.open[p] = {}
    BY <2>1, <2>2 DEF OrderlyInv, OneAtATime, ObjectsOfHolder
  <2>4. past = {} => session = "CLOSED"
    BY DEF OrderlyInv, SessionHeld, InSession, Opened
  <2> QED
    BY <2>1, <2>3, <2>4
<1> QED
  BY <1>1, AlwaysOrderly, PTL

\* Under the same condition, no IOCTL reads through a pointer into a process that
\* is gone, or into another one (vhci.cpp:61-90).
THEOREM NoIoctlFaults == Spec => []OrderlyNoFault
<1>1. OrderlyInv => OrderlyNoFault
  BY DEF OrderlyInv, OneAtATime, OrderlyNoFault
<1> QED
  BY <1>1, AlwaysOrderly, PTL
=============================================================================
