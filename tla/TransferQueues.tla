--------------------------- MODULE TransferQueues ---------------------------
(***************************************************************************)
(* EndpointTransferQueues (daemon/src/endpoint_queue.rs) as a value and    *)
(* the functions on it: one FIFO per endpoint key, a round-robin order of  *)
(* the keys that have work, the set of those keys, and a length.           *)
(*                                                                         *)
(* A frame is a record with at least the fields id (request_id) and key.   *)
(* A key stands for (direction, transfer_type, endpoint); keys are numbers *)
(* in the order the derived Ord gives them, the order in which the BTreeMap*)
(* is iterated.                                                            *)
(***************************************************************************)
EXTENDS Naturals, Sequences, FiniteSets
LOCAL INSTANCE SequencesExt
LOCAL INSTANCE FiniteSetsExt

CONSTANT SequenceModulus     \* next_sequence is a u64: 2^64 in the code

ASSUME SequenceAssumption == SequenceModulus \in Nat \ {0}

EmptyQueues ==
    [next_sequence |-> 0, queues |-> <<>>, active_order |-> <<>>,
     active_keys |-> {}, len |-> 0]

\* BTreeMap::get, and an entry's removal.
QueueOf(q, k) == IF k \in DOMAIN q.queues THEN q.queues[k] ELSE <<>>

WithQueue(q, k, s) ==
    [j \in (DOMAIN q.queues) \union {k} |-> IF j = k THEN s ELSE q.queues[j]]

WithoutQueue(q, k) == [j \in (DOMAIN q.queues) \ {k} |-> q.queues[j]]

\* enqueue, of a frame whose type is Request (any other is an error that
\* changes nothing; the session only enqueues requests).
Enqueue(q, f) ==
    LET t == [sequence |-> q.next_sequence, key |-> f.key, frame |-> f]
        activate == QueueOf(q, f.key) = <<>> /\ f.key \notin q.active_keys
    IN  [q EXCEPT
            !.next_sequence = (q.next_sequence + 1) % SequenceModulus,
            !.queues = WithQueue(q, f.key, Append(QueueOf(q, f.key), t)),
            !.len = q.len + 1,
            !.active_keys = IF activate THEN q.active_keys \union {f.key} ELSE q.active_keys,
            !.active_order = IF activate THEN Append(q.active_order, f.key) ELSE q.active_order]

-----------------------------------------------------------------------------
(* pop_next takes keys off the front of active_order until one has a       *)
(* transfer; keys without one are dropped from active_keys on the way.     *)

Servable(q) == {i \in 1 .. Len(q.active_order) : QueueOf(q, q.active_order[i]) # <<>>}

\* The index in active_order of the key pop_next serves; one past the end
\* when it returns None.
ServedIndex(q) == IF Servable(q) = {} THEN Len(q.active_order) + 1 ELSE Min(Servable(q))

CanPop(q) == Servable(q) # {}

PopTransfer(q) == Head(q.queues[q.active_order[ServedIndex(q)]])

PopKeepsFront(q) ==
    LET k == q.active_order[ServedIndex(q)]
        rest == Tail(q.queues[k])
        order == SubSeq(q.active_order, ServedIndex(q) + 1, Len(q.active_order))
    IN  IF ~CanPop(q) THEN q
        ELSE [q EXCEPT
            !.len = q.len - 1,
            !.queues = IF rest = <<>> THEN WithoutQueue(q, k) ELSE WithQueue(q, k, rest),
            !.active_keys = IF rest = <<>> THEN q.active_keys \ {k} ELSE q.active_keys,
            !.active_order = IF rest = <<>> THEN order ELSE <<k>> \o order]

\* pop_next
PopNext(q) ==
    LET n == ServedIndex(q)
        skipped == {q.active_order[i] : i \in 1 .. (n - 1)}
        order == SubSeq(q.active_order, n + 1, Len(q.active_order))
    IN  IF ~CanPop(q)
        THEN [q EXCEPT !.active_order = <<>>, !.active_keys = q.active_keys \ skipped]
        ELSE LET k == q.active_order[n]
                 rest == Tail(q.queues[k])
             IN  IF rest = <<>>
                 THEN [q EXCEPT
                        !.len = q.len - 1,
                        !.queues = WithoutQueue(q, k),
                        !.active_keys = q.active_keys \ (skipped \union {k}),
                        !.active_order = order]
                 ELSE [q EXCEPT
                        !.len = q.len - 1,
                        !.queues = WithQueue(q, k, rest),
                        !.active_keys = q.active_keys \ skipped,
                        !.active_order = Append(order, k)]

-----------------------------------------------------------------------------
(* cancel, reset_endpoint, clear                                           *)

HasId(s, id) == \E i \in 1 .. Len(s) : s[i].frame.id = id

KeysWithId(q, id) == {k \in DOMAIN q.queues : HasId(q.queues[k], id)}

CanCancel(q, id) == KeysWithId(q, id) # {}

CancelIndex(s, id) == Min({i \in 1 .. Len(s) : s[i].frame.id = id})

\* The transfer cancel returns: the first with that id in the queue of the
\* least key that holds one.
CancelTransfer(q, id) ==
    LET s == q.queues[Min(KeysWithId(q, id))] IN s[CancelIndex(s, id)]

\* active_order.retain(|candidate| *candidate != key)
Retain(order, k) ==
    LET kept[n \in 0 .. Len(order)] ==
            IF n = 0 THEN <<>>
            ELSE IF order[n] = k THEN kept[n - 1] ELSE Append(kept[n - 1], order[n])
    IN  kept[Len(order)]

RemoveActiveKeyKeepsOrder(q, k) ==
    [q EXCEPT !.queues = WithoutQueue(q, k), !.active_keys = q.active_keys \ {k}]

\* remove_active_key
RemoveActiveKey(q, k) ==
    [q EXCEPT
        !.queues = WithoutQueue(q, k),
        !.active_keys = q.active_keys \ {k},
        !.active_order = Retain(q.active_order, k)]

CancelSwapRemove(q, id) ==
    LET k == Min(KeysWithId(q, id))
        s == Front(ReplaceAt(q.queues[k], CancelIndex(q.queues[k], id), Last(q.queues[k])))
        less == [q EXCEPT !.len = q.len - 1]
    IN  IF ~CanCancel(q, id) THEN q
        ELSE IF s = <<>> THEN RemoveActiveKey(less, k)
        ELSE [less EXCEPT !.queues = WithQueue(q, k, s)]

\* cancel
Cancel(q, id) ==
    LET k == Min(KeysWithId(q, id))
        s == RemoveAt(q.queues[k], CancelIndex(q.queues[k], id))
        less == [q EXCEPT !.len = q.len - 1]
    IN  IF ~CanCancel(q, id) THEN q
        ELSE IF s = <<>> THEN RemoveActiveKey(less, k)
        ELSE [less EXCEPT !.queues = WithQueue(q, k, s)]

\* The transfers reset_endpoint returns, and what it leaves.
ResetTransfers(q, k) == QueueOf(q, k)

ResetEndpoint(q, k) ==
    IF k \notin DOMAIN q.queues THEN q
    ELSE RemoveActiveKey([q EXCEPT !.len = q.len - Len(QueueOf(q, k))], k)

ClearKeepsLen(q) == [EmptyQueues EXCEPT !.len = q.len]

Clear(q) == EmptyQueues
=============================================================================
