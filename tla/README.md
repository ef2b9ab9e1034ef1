# Formal model of why-usb

why-usb carries USB transfers between a Linux client and a Windows host: a client speaks a framed
protocol over TCP to a daemon, and the daemon exchanges frames with a (virtual host controller)
driver through two rings in shared memory. These TLA+ modules model the parts of it that are hard
to test, TLC checks them on small instances, and TLAPS proves the central results for every size.
Source paths below are relative to `src/`.

## 1. Inventory

| Component | State | Operations | Hard behaviour | What makes it correct |
|---|---|---|---|---|
| Shared frame ring: `driver/inc/ring_buffer.h`, mirrored by `daemon/src/mapped_ring.rs` | head, tail (u64 counters), 1 MiB of cells | push_frame, pop_frame (raw push, pop, pop_some for tests; available_data for status) | two parties interleave byte copies; wrap-around; full and empty limits | no pending byte overwritten; whole frames in order; calls linearise |
| Endpoint queues: `daemon/src/endpoint_queue.rs` | a FIFO per endpoint, round-robin order, active set, length, sequence number | enqueue, pop_next, cancel, reset_endpoint, clear | four redundant structures kept in step by hand | bookkeeping agrees; nothing lost or doubled; FIFO per endpoint; fair |
| Daemon session: `daemon/src/session.rs` | session state, attach flag, queues, worker flag, channel of 100 | one handler per frame type, flush, TX worker, cleanup | async loop and blocking worker; peer may vanish; driver calls may fail; bounded channel | each request answered once, in order; attachment released; session ends |
| Control endpoint: `session.rs` handle_control_request | descriptors, address, configuration | GET_DESCRIPTOR, SET_ADDRESS, SET_CONFIGURATION | order of enumeration requests | answers follow the enumeration state |
| Mock driver: `driver/src/vhci.cpp` | the two rings | pump_once, ring entry points, set-up and release | pops before it knows that the push succeeds | moves frames without loss |
| Driver backends: `daemon/src/driver_backend.rs`, `windows_driver_backend.rs` | device handle, mapping, events | attach, detach, push, poll, wait, open, map, drop | each call may fail half-way | failures leave a known state |
| Kernel driver: `driver/src/device.cpp`, `driver.cpp` | session state, section, view, events | one IOCTL each: open, close, map, attach, detach, status | any order and repetition of IOCTLs; partial failure of set-up | resources freed once; state checks |
| Client session: `client/src/session.rs` | phase, counters, pending bulk payloads, VHCI channel | connect with retry, attach, enumeration, URB loop, detach | one loop both fills and empties a bounded channel; detach decided by a count | ends after the limit; payloads verified |
| Client VHCI adapter: `client/src/vhci.rs` | probed port table | parse, choose a free port | malformed tables | picks a free port |
| USB/IP session: `daemon/src/usbip_session.rs` | attach flag, queue of HID reports, device state | submit, unlink | partial reads; repeated configuration | one answer per packet |
| Wire protocol: `protocol/src/lib.rs` | none | encode and decode of frames, descriptors, USB/IP packets | lengths and limits | round trips; rejects what it must |
| Configuration, entry points, logging | none after start | parse environment | - | - |

Interaction. The daemon accepts one client (`daemon/src/main.rs:35`) and runs one session. The
session task reads frames from the connection; data requests go to the endpoint queues and at once
on to the driver's RX ring (`flush_endpoint_transfers`). With the mock driver the same task calls the
pump, which moves a frame from the RX to the TX ring. A blocking worker polls the TX ring, turns each
request into its response and hands it to the session task through a bounded channel; the task sends
it to the client. Driver and daemon share nothing but the rings, worker and task nothing but the
channel, the flag `tx_cancelled` and the TX ring.

## 2. Modules

| Module | Models | Checked by |
|---|---|---|
| `FrameQueue` | abstract: a bounded FIFO of frames whose calls are atomic | `RefinesQueue` |
| `SpscRing` | push_frame and pop_frame, one step per counter load, byte copy and counter store | `ring`, proofs |
| `SharedLemmas` | lemmas on induction over sets of numbers, division and remainder, sequences, and counting | tlapm |
| `SpscRing_proofs` | the proofs about `SpscRing` | tlapm |
| `TransferQueues` | `EndpointTransferQueues` as a record and one operator per method | through the two below |
| `EndpointQueues` | any sequence of calls on them, with histories | `endpoint_queues`, proofs |
| `EndpointQueues_proofs` | the proofs about `EndpointQueues` and the operators of `TransferQueues` | tlapm |
| `ControlEndpoint` | `handle_control_request` as operators on setup packets | through the two sessions |
| `Attachment` | `attach_session` and `detach_session`, shared by the two sessions | through the two sessions |
| `DaemonSession` | the session task, the worker, channel, rings, pump, connection | `session_*`, `client`, three violation runs, proofs |
| `UsbIpSession` | the USB/IP session | `usbip`, proofs |
| `KmdfDriver` | the kernel driver's life and IOCTLs under several daemons | `driver`, `driver_restart`, proofs |
| `KmdfDriver_proofs` | the proofs about `KmdfDriver`: what always holds, and what holds while no daemon is beside one that maps | tlapm |
| `DaemonSession_proofs`, `UsbIpSession_proofs` | the proofs about the two sessions | tlapm |
| `ClientSession` | the client's task, its device's task and channels, composed with `DaemonSession` over both directions of the connection | `client`, proofs |
| `ClientSession_proofs` | the proofs about the client and the daemon together | tlapm |
| `VhciPorts` | the client's probe of `vhci_hcd`, the port table and the attach plan, as operators | through `client` |
| `DescriptorSet` | the encoding of descriptor sets as operators, the decoder step by step over bytes | `descriptors`, proofs |
| `DescriptorSet_proofs` | the proofs about the decoder in `DescriptorSet` and what it makes of an encoding | tlapm |
| `MC*` | the sets of frames and payloads for TLC | |

### SpscRing
`head`, `tail` and `data` are the members of `SPSC_RingBuffer`; `pPc`, `pFrame`, `pPos` and `cPc`,
`cHead`, `cLen`, `cBuf` are the locals of a push and a pop in progress; `sent`, `starts`, `got` are
histories. `PushBegin`/`PushRefused` are the loads and early returns of push_frame, `PushCopy` one
byte of copy_into, `PublishHead` the release store. `PopBegin`/`PopEmpty` are the loads and the first
early return of pop_frame, `PopPeek` one byte of peek_u32, `PopAccept`/`PopRefused` the test on the
decoded length, `PopCopy` one byte of copy_from, `PublishTail` the release store. The release/acquire
pairs on the counters make any outcome of the C++ and Rust memory models an interleaving of these
steps: cells are written before the head that covers them is published and read before the tail that
frees them is. The bytes of the prefix are really computed (`Be4`, `PeekU32`) and the two-part copy
is modelled with its split (`FirstPart`, `Cell`), for bytes of any base. The u64 counters are
unbounded: wrapping them takes 2^64 bytes of traffic, and 2^20 divides 2^64, so that offsets would
survive it. The Rust pop tests max_len before availability and reports an error for it; both
orders leave the ring as it is, which is all the model tells apart.

### TransferQueues, EndpointQueues
Keys are numbers in the order of the derived `Ord`, in which `cancel` walks the map. A frame carries
its arrival number, which no operator looks at, so that the properties can tell transfers apart even
when a client uses an id twice. `next_sequence` wraps at `SequenceModulus` (2^64 in the code, 3 in the
runs); nothing depends on it.

### DaemonSession
`sPc` is where the session task is: waiting in select!, in the flush, sending, cleaning up, joining
the worker. A handler is one step up to its first await; what it has to send waits in `outbox`, each
frame with what the code does when that send fails - break out of the session loop, or only out of
a loop over responses. `SendFrame` waits while the connection's buffer (`NetCap`) is full. The rings are
queues of frames, as `SpscRing` justifies; sizes are multiples of the pump's 64 KiB buffer. With
`backend = "mapped"` the kernel driver's end of the rings is not modelled and the frames stay there; attach,
detach and push may fail as the IOCTL or SetEvent may. The client is external: it sends any frame of
`ClientFrames` at any time, reads, and closes when it likes.

### ControlEndpoint, Attachment
Operators and state that `session.rs` shares with `usbip_session.rs`. A setup packet keeps its request,
value, index and length as numbers, with the casts to a byte that the code makes; a descriptor is its type and length.
`Attachment` holds the session state, the flag `attached_by_control_plane` and what the driver
really holds, so that the two can be compared; the driver may refuse any attach and detach.

### UsbIpSession
A single task: `sPc` is attaching, reading, writing an answer, or at the end. Each kind of packet is an action
that reads it and prepares the answer; `Write` waits for room in the connection. A packet is what
`read_usbip_packet` returns, with `transfer_buffer_length`, the room the host has for the answer. The code uses that field only to read the
payload of an OUT submit; an answer is as long as `wLength` or the report make it. So a host with less room than it asks for is answered with
more than it can take, as in the code's own test (`usbip_session.rs:250-275`: 18 bytes for a buffer of 0), and no document says otherwise. `AnsweredInOrder`
states both: the bound by `wLength` or one report for any host, and that the answer fits where the buffer is no shorter than that.
`read_usbip_packet` already refuses a header that does not decode and reads exactly
the payload a submit announces, so the `dropped malformed ...` branches of the loop
(`usbip_session.rs:60-63`, `:70-73`, `:92-95`) and the failure of `encode` cannot be reached, and have no action.

### KmdfDriver
`kernel` gathers the globals of `vhci.cpp`, the device context of `device.cpp` and the objects Windows keeps for
the processes (views and handles). An IOCTL is one step, as the queue is sequential
(`device.cpp:249`), and runs in the process that issued it: section view and handles are made, used and
closed there. `pc` follows each daemon through `WindowsDriverBackend::open`, `map_shared_memory`, the session
and the drop of the backend. Every step of `CreateSharedResources` and every allocation may fail. `Fault` is an IOCTL
that reads through a pointer which is no memory of the calling process; what Windows does then is
not modelled further, and everything but the driver's own life stops. A process ends by itself or, if in `Killable`,
at any point, without its Drop code. The history `past` records whether a daemon opened the device beside another one when either of
the two maps, and whether a mapping daemon was killed. The daemon takes no lock, but two at a time are outside what the design supports: the SESSION_CLOSE of
either takes the section from the other (`device.cpp:309-313`). The properties about views (`MappedIsShared`, `TornDown`, `OrderlyNoFault`) are about behaviours
without either (`Orderly`), in which daemons that do not map may still overlap each other and be killed. Memory and resources are kept whole in all.

### ClientSession, VhciPorts
`ClientSession` extends `DaemonSession` and takes its actions as they are: the frames the open client of that module might send
are replaced by the connection `up`, which `DaemonReads` hands to the handlers in order, and its reading of `net` by the
client's own. `cPc` is where `run_client_session` is: connecting, in a send (`cOut`, and `cThen` where it continues),
waiting for the answer to the attach or to a control request, in select!, in `inject_urb`, leaving. The device's task
(`DeviceUrb`) fills `txq` beside it; the mock VHCI's channel is filled by `Inject` and emptied by the same loop
(`VhciProcessed`). The enumeration sends the five setup packets of the code and is answered by `ControlEndpoint`. The three
counters the end depends on - request ids, data responses, the limit - are kept as the code keeps them. `urbSize` is the size of the frames made of URBs
(`mock_bulk_payload_len`), one for a run of the client. An outcome the
daemon injects (a failure, a stall, a short transfer) may be a failed or a good answer, so both handlers are enabled for it. A
connection that ends takes what was on its way with it or not, and a send to a daemon that is gone may still succeed.
With the Linux backend `vhci` is the probe made at start; injection is refused as in the code, and such answers are not counted.

`VhciPorts` has one operator per function of `client/src/vhci.rs`; a status line is the sequence of its words.

### DescriptorSet
The daemon encodes its device's descriptors into the answer to an attach, the client decodes them. `pc` is the part that
`UsbDescriptorSet::decode` has come to, `offset` the bytes taken, `config` and `current` the configuration and the interface that
are open. Each part has an action for the case that it fits and one for the error returns. Offsets are absolute where
`decode_from` counts inside the configuration (`bodyEnd` is its end). Bytes that nothing interprets stay together. `Again` encodes and
decodes an accepted set once more, which no caller does: it is there for `Stable`. The constant `Sets` holds sets that can be sent
(`WellFormed`): within the counts encode checks, with extra descriptors that are descriptors and, where an interface has a report, no
other before it with the same number and alternate setting. Any other comes back changed. The daemon sends one set, the keyboard's (session.rs:445-451),
which has one interface; TLC evaluates the assumption for those of the run, and decode makes sets that keep it. Two things the runs showed and the code accepts: a
class descriptor after an endpoint comes to stand before it when it is encoded again, and of two sidecars for one interface the
last one counts.

## 3. Runs

| Run | Question | Bounds |
|---|---|---|
| `ring` | do concurrent pushes and pops keep every frame intact, linearise, and is every frame consumed? | 9 cells, 4 pushes; lengths 0..6 against 9 cells give every wrap position, an exact fit and one that never fits; two byte values spread a length over the whole prefix |
| `endpoint_queues` | does the bookkeeping survive any sequence of calls? | 3 keys, repeated ids, 5 transfers |
| `session_safety` | is each request in one place, in order, with the queues drained and the attachment released, whatever client and driver do? | each of the three backends, 4 frames of every kind, rings of 2, a channel of 2 and a connection of 1, so that all of them fill up |
| `session_live` | are requests answered and sessions closed? | 3 requests after the attach, channel of 3: see below |
| `usbip` | is every packet answered once, in order, with no more than wLength or one report, every report fetched once, the device valid, and released when the session ends, as it does? | 4 of 15 packets: descriptors present, absent and asked for in part, addresses 127 and 128, configurations 0, 1 and one beyond a byte, hosts with room for what they ask for and two with none, two keys (4 reports), a connection of 1 |
| `client` | does the client detach only when all is answered, do its counters agree, do client and daemon end, or where else can they stop, by themselves and when the connection breaks? | no limit and limits of 0, 1 and 4 transfers (4 URBs at most), one of them injected; two sizes of URBs, one beyond the pump's buffer; each of the three driver backends, and a driver that refuses; both VHCI backends; connection of 1 each way, channels of 2 for the device and the worker, 1 for the VHCI, rings of 3, so that everything fills up |
| `descriptors` | does the decoder stay in the payload and return, whatever arrives; is what it accepts what was sent? | three sets (no configuration; the keyboard's shape; two configurations with alternate settings and an empty report), each whole, cut at every byte, too long, and with each byte replaced by 12 values that cover every type, length and count in use; two encodings in another order |
| `driver` | are memory and resources kept whole under any overlap and kill; is nothing left of an orderly daemon, and is the driver usable again? | 4 daemons, two of them mapping, one of each kind killable |

Expected violations, each a disagreement between a document and the code (PROJECT.json, findings):

| Run | What TLC shows |
|---|---|
| `oversize_wedge` | a frame beyond 64 KiB stays at the front of the RX ring; requests behind it are never answered (`vhci.cpp:112`) |
| `shutdown_hang` | with the channel full, the worker waits in blocking_send and the session for the worker (`session.rs:57`, `:249`) |
| `cancel_pending` | a cancel never finds a transfer: the queue it searches was drained by the request's own handler (`session.rs:201`, `:391`) |
| `driver_restart` | a mapping daemon is killed; `SharedMemoryReady` stays set, and the next SESSION_OPEN reads through a view that is gone (`device.cpp:60`, `vhci.cpp:87`) |

`session_live` holds under conditions of which the first two runs break one each: frames the pump can carry, and a channel with
room for all that is in flight (100 in the code). The third is a ring with room: the pump gives up the
frame it popped when the TX ring is full (`vhci.cpp:116`), which `dropped` records and `AccountedOnce` accounts for.

`client` has small channels, rings and connection, all of which fill up, as the code's channels of 100 do under load. The code does not end then in every
case, and `RunEnds` says exactly in which: client and daemon end by themselves, or stay for ever in one of five standstills, each with a definition of its own.
- `InjectBlocked`: the client waits in `inject_urb` for room that only its own loop can make (`client/src/session.rs:444`).
- `BothSending`: client and daemon each wait in a send for the other to read (`daemon/src/session.rs:236`).
- `AnswerLost`: the pump gave up a transfer on a full TX ring (`vhci.cpp:116`) and the client still counts on its answer.
- `RingBlocked`: a frame beyond 64 KiB is at the front of the RX ring (`vhci.cpp:112`), and the client waits for what stands there.
- `WorkerHangs`: the session waits for the worker and the worker for room in the channel (`session.rs:249`), as in `shutdown_hang`.

Each of the five is reached within the bounds: with any one of them left out of `Standstill`, TLC finds `RunEnds` violated. When the connection breaks, the client ends
unless it is `InjectBlocked`, the daemon's session unless its worker hangs (`LossEndsBoth`); without either exception TLC finds that violated too. `RunEnds` is about the mock
VHCI and a limit of at least one, because the code does not detach otherwise: a count of one or more never
equals a limit of 0 (`client/src/session.rs:115`), without a limit nothing is compared, and the Linux backend's answers are never counted.
It leaves out the mapped rings, which no driver reads yet. `DetachAfterAnswers` covers them, except that it does not ask them
to be empty: a frame stays in a mapped ring when SetEvent fails after the push, and is answered `Failed` all the same.

Deadlock checking is off in the session and USB/IP runs, where a session that has ended, or that waits for a
client with nothing more to send, really stops, and in the driver runs, where a fault stops the daemons.

Fairness. In `SpscRing` a push in progress goes on and the consumer keeps polling (the worker's loop,
`session.rs:49-73`, has no other exit than the end of the session). In `DaemonSession` the session
task and the worker take their next step when they can (tokio runs a ready task, the worker has its own
thread) and the client reads what it is sent while it is connected; `UsbIpSession` assumes the same of its
task and client, and `ClientSession` of the client's two tasks (the client is no
longer assumed to read). It is never assumed that the connection breaks. It is never assumed that the
client sends, detaches or closes.

Every property has a mutant in PROJECT.json: a small change of the modelled code (a missing guard, an
early publication, a forgotten removal) under which TLC finds it violated.

## 4. Proofs

`SpscRing_proofs` proves for every buffer size `N`, byte base, set of payloads, `MaxPop` and number of pushes:
`TypeCorrect` (TypeOK), `NeverOverwritten` (NoOverwrite), `FramesIntact` (FifoIntegrity) and
`ImplementsQueue` (Spec => RefinesQueue). The only assumption is `RingAssumption`: the constants have their
types, and the capacity is at most Base^4 (1 MiB against 2^32), without which a frame could be refused
for its length although there is room.

The argument. None of the three invariants is inductive. The strengthening `IInv` adds
- `Layout`: the published frames lie end to end in the byte stream, and the tail stands where the first
  frame not popped begins;
- `PushInProgress`: what the push in progress needs is still within N of the tail (the tail it loaded
  can only have grown), and the bytes copied so far are in place;
- `PopInProgress`: the head the pop loaded covers the whole first frame, and what it has read so far is
  a prefix of that frame's bytes.

`InitIInv` and one lemma per action show that it is inductive. The two delicate steps are `PushCopyIInv`
(the cell written differs from every cell in use, since two offsets less than N apart differ modulo N,
`ModDistinct`) and `PublishTailIInv` (what was copied is the frame, `SeqEqual`). They rest on `CellIsModulo`
(the two-part copies address offsets modulo N), `PrefixRoundTrip` (four big-endian digits determine a
number below Base^4, `FourDigits`) and the lemmas of `SharedLemmas`. For the refinement, each action that
returns from a call is the corresponding action of `FrameQueue` and the others leave it unchanged
(`QueueStep`); that a refused pop met a frame too long, never one partly there, comes from `PopInProgress`.

`KmdfDriver_proofs` proves for any number of daemons, any of them mapping, killable or overlapping:
`DriverTypeCorrect` (TypeOK), `PoolAlwaysBalanced` (PoolBalanced) and `SharedAllOrNothing` (AllOrNothing), from no
assumption on the constants. The two invariants need each other (the switch to the section frees the driver's own memory
only because the ownership flag is right) and one more fact, `ClosedUnlessStarted`: a device that is not started is open
in no daemon and its context is empty. Without it the unload, which does not look at the context, could leave a
context that still claims a view. There is a lemma per operator (`ReleaseFacts`, `CloseSharedFacts`, `InitVhciFacts`,
`CreateSharedFacts`, `EnsureSharedFacts`), `LifecycleStep` and `DaemonStep` take one action after the other, and
`StartedStep` collects what all the daemons' actions share.

The same module proves `MappedSectionIsTheDrivers` (MappedIsShared), `ClosedDriverTornDown` (TornDown) and
`NoIoctlFaults` (OrderlyNoFault) for any number of daemons one after another, as long as none has the device open beside one that maps and none
that maps is killed; those that do not map may overlap and be killed. Its invariant `OrderlyInv` adds, as long as `Orderly` holds, that
a daemon that maps and has the device open is alone (`AloneInDevice`); that the process of the view is such a daemon, after
GET_SHARED_MEMORY and before SESSION_CLOSE (`HolderOpen`); and that the objects Windows keeps for the processes are those the
context names (`ObjectsOfHolder`). SESSION_CLOSE then runs in the process of the view, and GET_SHARED_MEMORY meets an empty
context, which is what `CloseStep` and `SharedMemoryStep` need. Without the condition on kills the run `driver_restart` shows a fault.

`EndpointQueues_proofs` proves for any keys, any request ids and any number of calls: `OrderMirrorsQueues` (OrderMatchesWork),
`TransfersConserved` (Conservation), `EndpointsInOrder` (FifoPerEndpoint) and `NoneBypassedTwice` (BoundedBypass), from
`KeysAssumption` and `SequenceAssumption` (keys are numbers, the sequence number wraps at some modulus). The invariant `QueuesInv` has two parts. `Balanced`: the
four structures agree (`Sound`), each transfer not taken out stands in one place of one queue (`Book`), each queue is increasing, and
`len` is the number of places. `Fair`: a key with work was passed over by another at most once, and then that
other key stands behind it in the order (`Before`); so it is served before that key comes round again, which
BoundedBypass alone does not say and is why it is not inductive. A pop, a cancel and a reset each take some
transfers out of the queues (`PopTakes`, `CancelTakes`, `ResetTakes`), and one set of lemmas says what that does to the
places, the book and the order (`PlacesShrink`, `BookShrinks`, `KeyLeaves`); an enqueue is the other direction (`EnqueueAdds`, `BookGrows`,
`KeyJoins`). The retain loop of `remove_active_key` needs induction over the order (`RetainKeeps`): the prover cannot use the
library's induction theorems, but it can take the least number for which a claim fails (`LeastNatural`), and `SetInduction` of `SharedLemmas`
states induction for a set of numbers instead of a predicate. What a recursive function does to every sequence is proved from that.

`UsbIpSession_proofs` and `DaemonSession_proofs` prove AttachmentReleased of either session (`UsbIpReleases`, `DaemonReleases`) for
any packets and frames, in any number, and any sizes of rings, channel and connection. The invariant is that the flag
`attached_by_control_plane` says what the driver holds (`FlagTells`) and, once the cleanup has run, that a device still attached
was refused.

For the USB/IP session there are also `UsbIpTypeCorrect` (TypeOK), `UsbIpAnswersInOrder` (AnsweredInOrder) and `UsbIpReportsInOrder`
(ReportsInOrder). Every step is one of four as far as answers are concerned (`PacketEffect`, `AnswersKept`): it changes
none (`Same`), loses some with the connection (`Lost`), makes one for the packet it read (`Answered`), or passes a packet over (`PassedOver`). `Outgoing` is
everything answered, delivered or not; `AnswersInv` says that its sequence numbers increase and are those of the packets that
ask for an answer, each within `wLength` or one report (`Carries`), and `ReportsInv` that the reports it carries are the first of those made and the queue holds the rest. The assumption
`UsbIpAssumption` gives packets the types that `read_usbip_packet` gives them.

For the daemon's session, `QueuesAlwaysDrained` (QueuesDrained) rests on a `QueuesInv` of its own: the queues hold nothing, in every field, or
during the flush just the transfer enqueued last. It follows that a cancel or a reset never finds a transfer in the
session's queues (the run `cancel_pending`). `SessionTypeCorrect` (TypeOK) includes that the rings stay within their capacity, whose sizes are
sums over the frames in them. `EchoesInOrder` (EchoOrder) and `RequestsAccounted` (AccountedOnce) have one invariant: a transfer goes through eight places in a row, from the
endpoint queues over the two rings, the worker, the channel, the session's outbox and the connection to the client. `RowsInv` lays them end to end and says that what came
through the driver is ordered (`Ordered`), no request stands twice (`Unique`), every one was received (`Numbered`), and what is nowhere was given up
(`Accounted`). A step then moves something from one place to the next, drops it, or adds the request just received, whatever the places are. The assumption `SessionAssumption` says that frames
have the fields of `Frame`, and capacities are numbers.

`DescriptorSet_proofs` proves for any payload, of any length: `DescriptorTypeCorrect` (TypeOK: what decode takes, and the configuration
it is in, end within the payload, and it accepts only at its end) and `Advances` (DecodeAdvances, so that decode returns). The
assumption `InputAssumption` says that what arrives is a sequence of bytes. The invariant has two parts. `WhileDecoding` adds to
`WithinPayload` the types the arithmetic needs and that nothing is accepted before the end; each action has a lemma, and
the delicate ones are `ConfigurationAdvances` (the total length covers the descriptor that states it and ends in the
payload), `DescriptorAdvances` (the length is at least two) and `SidecarAdvances`. `Typed` says that what decode holds is a
descriptor set (`DescriptorSets`). It is needed because an accepted set is encoded and decoded again: `EncodeTyped` says that
encode turns every such set into bytes, or refuses it. The steps of that are that each length and count fits in the one or two
bytes it has (`DescriptorTyped`, `ConfigurationHeader`). The refusal of too many sidecars (lib.rs:866) is left out of `Encodable`, and
`SidecarsTyped` shows why: it never comes to it, since the other checks leave at most 255 configurations of 255 interfaces. `FlattenFacts` says what encode
makes of many parts, from the induction `FlatBounded` of `SharedLemmas`.

The same module proves `RoundTripCorrect` (RoundTrip), `WholeOrNothingCorrect` (WholeOrNothing) and `StableCorrect` (Stable) for any sets that
can be sent (`SetsAssumption`), cut or lengthened or altered anywhere, and any foreign bytes. The invariant `IInv` has two
parts beside the types, because there are two kinds of payload:
- `Tracking`: when the bytes come from encoding a set `s`, `Tracks(s)` says where in `s` the decoder is. What is closed is the beginning of
  `s` without its reports, what is open is the part of one configuration and one interface taken so far, and the bytes from `offset` on
  `Continue` with the encoding of the rest (`Later`, `Upcoming`), as far as there are bytes. Among the sidecars the set is `With(s, T)`,
  `s` with the reports of those already taken. There is one lemma per action (`HeaderTracks` to `AcceptTracks`), and a refusal can only
  come from missing or additional bytes. That a sidecar finds the interface it was made from (`TargetFound`) is where the condition on the
  settings is needed.
- `Measured`: when the bytes come from anywhere, there is no set to compare with, but what has been taken is as long as the encoding of
  what was built from it. It holds for each part that is open, so the lengths and counts the payload states, which decode checks, are those encode
  computes again. An accepted set is therefore a `GoodSet`, which is what `Tracking` needs when it is encoded and decoded once more; and its
  encoding has the length of the payload unless a sidecar was replaced by a later one (`SidecarsMeasured` counts those).

Since encode recurs over a nested set, the lemmas about flattening (`FlattenAppend`, `FlattenAround`, `BesideReplaced`) and about `After`, what
is left of a row, come first, each from `SetInduction`. Then come lemmas on what stands where in an encoding (`HeadRead`,
`InterfaceRead`, `SidecarRead`) and on what decode reads of it (`HeaderKnown` to `SidecarKnown`).

`ClientSession_proofs` proves of the client and the daemon together, for any limit, number of URBs, rings and channels and a connection that may
break at any time: `ClientIsAClient`, `IdsAreFresh` (FreshIds), `EnumerationIsAccepted` (EnumerationAgrees) and `InjectionsInOrder`
(InjectedInOrder). The first says that the two together are a behaviour of `DaemonSession` with its open client: what the client sends is
one of `ClientFrames` (`OwnInv`), so that every theorem about that session holds here too. The ids are proved from `IdsInv`: those sent and those
waiting in the device's channel stand in the order of the counters they come from (`Apart`), and each belongs to the enumeration, the device
or the detach (`Known`). For the enumeration, `DaemonSession_proofs` adds what the answers say: as long as a session accepts, an answer
to a request is `Ok` and belongs to a frame that was received (`Says`, `Speaks`, `Accepted`, `Working`); `EnumInv` carries
that over the connection, and `AnswerExpected` computes each of the five answers from `ControlEndpoint`. The injections use
`EchoOrder` and `AccountedOnce`: the answers still on their way are different from those taken (`AnswersApart`), and those of the
enumeration have all been read before the loop begins (`ControlInv`), so that what the loop takes for an answer to a URB is one.
Two more follow from these: `DetachesAfterAnswers` (DetachAfterAnswers) and `ClientTypeCorrect` (ClientTypeOK). For the first, `CountInv` says that the
client never counts more answers than there are URBs whose answer it has read, that a URB it still waits for has no such answer, and
that once the detach is sent everything is `Settled`: each request sent has an answer that was read. A count that reaches the limit thus
means that all URBs are answered (`AllAnswered`), and since the ids are fresh and each request is accounted for once, nothing can
be anywhere on the way (`NothingInFlight`). The types need that the worker hands over nothing but responses (`Relays`) and that a channel
is never sent to when it is full (`RoomInv`). `ClientAssumption` says that a limit is a number or absent.
`PlansUnusedPort` (PlannedPort) holds for any table that was probed (`TableParsed`, `FreeOrNone`). `SystemsAssumption` is needed for
it: the port numbers of the kernel fit in 16 bits, since the client converts them without a check (vhci.rs:251).

Only model-checked: liveness (RunEnds, LossEndsBoth, and the liveness of the ring and the sessions), which is outside what the
prover handles. Every invariant and action property that a passing run checks is proved.

## 5. Not modelled, and plan

Next, in this order:
1. The bytes of frames and USB/IP packets. Each has one length field, from which the reader and the decoder take the
   payload in the same way, so that there is less to go wrong than in descriptor sets; the packet as a unit is in `UsbIpSession`.
2. `available_data` as a third reader of the ring's counters (`ring_buffer.h:22`): it loads the head before the tail, so
   its difference may be off; only the status answer shows it and nothing decides on it.

Left out for good: configuration parsing, entry points, logging, build files and scripts, which keep
no state (their results are the constants and initial choices of the models); the layouts and header checks of the IOCTL
interface, which keep no state and compare with constants; the raw push, pop and pop_some of the ring, which only its unit tests call; the
contents of bulk payloads, whose comparison in the client decides only what is logged.
