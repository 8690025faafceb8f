------------------------------ MODULE WorkQueue ------------------------------
(***************************************************************************)
(* The work queue both Kubernetes monitors read their keys from            *)
(* (k8s.io/client-go/util/workqueue, vendored).  A queue is a record:      *)
(*   queue         the keys to hand out, oldest first                      *)
(*   dirty         the keys that need processing                           *)
(*   processing    the keys a worker has been given and not returned       *)
(*   shuttingDown  whether ShutDown was called                             *)
(* The operations are functions from queues to queues: each runs under the *)
(* queue's lock, so a monitor applies one of them in one atomic step.      *)
(***************************************************************************)
EXTENDS Sequences, Functions

QueueType(Keys) ==
    [queue : Seq(Keys), dirty : SUBSET Keys, processing : SUBSET Keys,
     shuttingDown : BOOLEAN]

EmptyQueue ==
    [queue |-> <<>>, dirty |-> {}, processing |-> {}, shuttingDown |-> FALSE]

(* Faulty variants of the operations below, which the properties of the    *)
(* monitors are checked to reject: Add queues a key that is in hand, Done  *)
(* forgets a key added meanwhile, leaves it out of the queue, or puts      *)
(* every key back.                                                         *)
QAddInHand(q, k) ==
    IF q.shuttingDown \/ k \in q.dirty THEN q
    ELSE [q EXCEPT !.dirty = @ \cup {k}, !.queue = Append(@, k)]

QDoneForgets(q, k) ==
    [q EXCEPT !.processing = @ \ {k}, !.dirty = @ \ {k}]

QDoneStrands(q, k) == [q EXCEPT !.processing = @ \ {k}]

QDoneRequeues(q, k) ==
    [q EXCEPT !.processing = @ \ {k}, !.dirty = @ \cup {k},
              !.queue = Append(@, k)]

(* Add: a key already dirty is not added twice, and one that is being      *)
(* processed waits in dirty until Done puts it back.                       *)
QAdd(q, k) ==
    IF q.shuttingDown \/ k \in q.dirty THEN q
    ELSE [q EXCEPT !.dirty = @ \cup {k},
                   !.queue = IF k \in q.processing THEN @ ELSE Append(@, k)]

QHasItem(q) == q.queue # <<>>

(* Get of the oldest key; a worker blocks until QHasItem(q).               *)
QGet(q) ==
    LET k == Head(q.queue) IN
    [q EXCEPT !.queue = Tail(@), !.processing = @ \cup {k}, !.dirty = @ \ {k}]

(* Done: a key added again meanwhile goes back to the queue.               *)
QDone(q, k) ==
    [q EXCEPT !.processing = @ \ {k},
              !.queue = IF k \in q.dirty THEN Append(@, k) ELSE @]

QShutDown(q) == [q EXCEPT !.shuttingDown = TRUE]

(* The comment on the field "queue" in the source: every element of queue  *)
(* is dirty and not being processed.  The queue must hold each such key,   *)
(* once: a key missing from it is never handed out, a key twice in it can  *)
(* be handed to two workers.                                               *)
QWellFormed(q) ==
    /\ Range(q.queue) = q.dirty \ q.processing
    /\ IsInjective(q.queue)

=============================================================================
