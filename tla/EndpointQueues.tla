--------------------------- MODULE EndpointQueues ---------------------------
(***************************************************************************)
(* The endpoint transfer queues of a session under any sequence of calls.  *)
(* The session calls them from one task, so a call is one step.            *)
(***************************************************************************)
EXTENDS TransferQueues

CONSTANTS
    Keys,         \* endpoint keys, numbered in their order
    Ids,          \* request ids; a client may use one twice
    MaxEnqueued   \* bound: number of transfers enqueued in a behaviour

ASSUME KeysAssumption == Keys \subseteq Nat /\ MaxEnqueued \in Nat

VARIABLES
    q,          \* the EndpointTransferQueues
    arrived,    \* history: how many transfers were enqueued
    left,       \* history: arrival numbers of those that left, and how
    bypassed    \* history: bypassed[k][j], how often key j was served while
                \* key k had work, since k got its first work or was served

vars == <<q, arrived, left, bypassed>>

\* Transfers carry their arrival number in the frame; the code never looks
\* at it.
Frame(id, k) == [id |-> id, key |-> k, arrival |-> arrived + 1]

\* The arrival numbers now queued, by key and position.
Queued == UNION {{<<k, i>> : i \in 1 .. Len(q.queues[k])} : k \in DOMAIN q.queues}

ArrivalAt(p) == q.queues[p[1]][p[2]].frame.arrival

HasWork(k) == QueueOf(q, k) # <<>>

Reset0(k) == [bypassed EXCEPT ![k] = [j \in Keys |-> 0]]

Leave(arrivals, how) == left \union {<<a, how>> : a \in arrivals}

DoEnqueue(id, k) ==
    /\ arrived < MaxEnqueued
    /\ q' = Enqueue(q, Frame(id, k))
    /\ arrived' = arrived + 1
    /\ bypassed' = IF HasWork(k) THEN bypassed ELSE Reset0(k)
    /\ UNCHANGED left

DoPopNext ==
    /\ CanPop(q)
    /\ LET t == PopTransfer(q) IN
        /\ left' = Leave({t.frame.arrival}, "popped")
        /\ bypassed' = [k \in Keys |->
                IF k = t.key THEN [j \in Keys |-> 0]
                ELSE [bypassed[k] EXCEPT ![t.key] = IF HasWork(k) THEN @ + 1 ELSE @]]
    /\ q' = PopNext(q)
    /\ UNCHANGED arrived

\* pop_next returns None.
DoPopNone ==
    /\ ~CanPop(q)
    /\ q' = PopNext(q)
    /\ UNCHANGED <<arrived, left, bypassed>>

DoCancel(id) ==
    /\ q' = Cancel(q, id)
    /\ left' = IF CanCancel(q, id)
               THEN Leave({CancelTransfer(q, id).frame.arrival}, "cancelled")
               ELSE left
    /\ UNCHANGED <<arrived, bypassed>>

DoReset(k) ==
    /\ q' = ResetEndpoint(q, k)
    /\ left' = Leave({ResetTransfers(q, k)[i].frame.arrival : i \in 1 .. Len(ResetTransfers(q, k))},
                     "reset")
    /\ UNCHANGED <<arrived, bypassed>>

DoClear ==
    /\ q' = Clear(q)
    /\ left' = Leave({ArrivalAt(p) : p \in Queued}, "cleared")
    /\ UNCHANGED <<arrived, bypassed>>

Init ==
    /\ q = EmptyQueues
    /\ arrived = 0
    /\ left = {}
    /\ bypassed = [k \in Keys |-> [j \in Keys |-> 0]]

Next ==
    \/ \E id \in Ids, k \in Keys : DoEnqueue(id, k)
    \/ DoPopNext
    \/ DoPopNone
    \/ \E id \in Ids : DoCancel(id)
    \/ \E k \in Keys : DoReset(k)
    \/ DoClear

Spec == Init /\ [][Next]_vars
-----------------------------------------------------------------------------
(* Properties                                                              *)

\* The pieces of the bookkeeping agree after any sequence of calls: a key is
\* in the round-robin order exactly once when it has work and not at all
\* otherwise, the set mirrors the order, and no empty queue is kept
\* (endpoint_queue.rs:55, :74-78, :107, :122-124).
OrderMatchesWork ==
    /\ \A i, j \in 1 .. Len(q.active_order) :
            q.active_order[i] = q.active_order[j] => i = j
    /\ {q.active_order[i] : i \in 1 .. Len(q.active_order)} = q.active_keys
    /\ q.active_keys = DOMAIN q.queues
    /\ \A k \in DOMAIN q.queues : q.queues[k] # <<>>

\* Every transfer that was enqueued is queued once, or left once, never both
\* and never neither: none is lost or handed out twice, whatever mix of
\* pops, cancels (of ids used twice too), resets and clears; and len counts
\* exactly the queued ones (endpoint_queue.rs:53, :73, :106, :122, :130).
Conservation ==
    /\ q.len = Cardinality(Queued)
    /\ \A p, r \in Queued : ArrivalAt(p) = ArrivalAt(r) => p = r
    /\ \A e, f \in left : e[1] = f[1] => e = f
    /\ {ArrivalAt(p) : p \in Queued} \union {e[1] : e \in left} = 1 .. arrived
    /\ {ArrivalAt(p) : p \in Queued} \intersect {e[1] : e \in left} = {}

\* Transfers of one endpoint leave by pop_next in the order they came, also
\* when a cancel took one from the middle (endpoint_queue.rs:49, :69, :101).
FifoPerEndpoint ==
    \A k \in DOMAIN q.queues : \A i, j \in 1 .. Len(q.queues[k]) :
        i < j => q.queues[k][i].frame.arrival < q.queues[k][j].frame.arrival

\* Round robin: while an endpoint has work, no other endpoint is served twice
\* before it is served (endpoint_queue.rs:56, :78).
BoundedBypass == \A k, j \in Keys : HasWork(k) /\ j # k => bypassed[k][j] <= 1
=============================================================================
