--------------------------- MODULE WorkQueueProofs ---------------------------
(***************************************************************************)
(* Lemmas about the operations of WorkQueue: what each keeps of the        *)
(* queue's type and of QWellFormed, for any set of keys.                   *)
(***************************************************************************)
EXTENDS WorkQueue, SequenceTheorems, TLAPS

(* Appending a new element to a sequence without repetitions.              *)
LEMMA AppendDistinct ==
    ASSUME NEW S, NEW s \in Seq(S), NEW e \in S, IsInjective(s), e \notin Range(s)
    PROVE  /\ IsInjective(Append(s, e))
           /\ Range(Append(s, e)) = Range(s) \cup {e}
<1> DEFINE t == Append(s, e)
<1>1. /\ Len(s) \in Nat /\ DOMAIN s = 1 .. Len(s)
      /\ DOMAIN t = 1 .. Len(s) + 1
      /\ t[Len(s) + 1] = e
      /\ \A i \in 1 .. Len(s) : t[i] = s[i]
    OBVIOUS
<1>2. IsInjective(t)
    BY <1>1 DEF IsInjective, Range
<1>3. Range(t) = Range(s) \cup {e}
    BY <1>1 DEF Range
<1> QED BY <1>2, <1>3

(* Removing the head of a sequence without repetitions.                    *)
LEMMA TailDistinct ==
    ASSUME NEW S, NEW s \in Seq(S), s # <<>>, IsInjective(s)
    PROVE  /\ Head(s) \in Range(s)
           /\ IsInjective(Tail(s))
           /\ Range(Tail(s)) = Range(s) \ {Head(s)}
<1> DEFINE t == Tail(s)
<1>1. /\ Len(s) \in Nat \ {0} /\ DOMAIN s = 1 .. Len(s)
      /\ DOMAIN t = 1 .. Len(s) - 1
      /\ Head(s) = s[1]
      /\ \A i \in 1 .. Len(s) - 1 : t[i] = s[i + 1]
    BY HeadTailProperties, LenProperties, EmptySeq
<1>2. Head(s) \in Range(s)
    BY <1>1 DEF Range
<1>3. IsInjective(t)
    BY <1>1 DEF IsInjective
<1>4. ASSUME NEW x \in Range(t) PROVE x \in Range(s) \ {Head(s)}
    <2>1. PICK i \in 1 .. Len(s) - 1 : x = t[i]
        BY <1>1 DEF Range
    <2>2. x = s[i + 1] /\ i + 1 \in 1 .. Len(s) /\ i + 1 # 1
        BY <1>1, <2>1
    <2> QED BY <1>1, <2>2 DEF Range, IsInjective
<1>5. ASSUME NEW x \in Range(s) \ {Head(s)} PROVE x \in Range(t)
    <2>1. PICK i \in 1 .. Len(s) : x = s[i]
        BY <1>1 DEF Range
    <2>2. i - 1 \in 1 .. Len(s) - 1 /\ t[i - 1] = x
        BY <1>1, <2>1
    <2> QED BY <1>1, <2>2 DEF Range
<1> QED BY <1>2, <1>3, <1>4, <1>5

(* The new queue is empty and well formed.                                 *)
LEMMA EmptyQueueOK ==
    ASSUME NEW Keys
    PROVE  EmptyQueue \in QueueType(Keys) /\ QWellFormed(EmptyQueue)
BY DEF EmptyQueue, QueueType, QWellFormed, Range, IsInjective

(* Add keeps the type and the fields it does not write.                    *)
LEMMA QAddFields ==
    ASSUME NEW Keys, NEW q \in QueueType(Keys), NEW k \in Keys
    PROVE  /\ QAdd(q, k) \in QueueType(Keys)
           /\ QAdd(q, k).processing = q.processing
           /\ QAdd(q, k).shuttingDown = q.shuttingDown
<1>1. CASE q.shuttingDown \/ k \in q.dirty
    BY <1>1 DEF QAdd
<1>2. CASE ~q.shuttingDown /\ k \notin q.dirty
    <2> DEFINE s == IF k \in q.processing THEN q.queue ELSE Append(q.queue, k)
    <2>1. s \in Seq(Keys)
        BY DEF QueueType
    <2>2. QAdd(q, k) = [q EXCEPT !.dirty = q.dirty \cup {k}, !.queue = s]
        BY <1>2 DEF QAdd
    <2> HIDE DEF s
    <2> QED BY <1>2, <2>1, <2>2 DEF QueueType
<1> QED BY <1>1, <1>2

(* Add makes k dirty, unless the queue is shutting down.                   *)
LEMMA QAddOpen ==
    ASSUME NEW Keys, NEW q \in QueueType(Keys), NEW k \in Keys, ~q.shuttingDown
    PROVE  QAdd(q, k).dirty = q.dirty \cup {k}
BY DEF QAdd, QueueType

(* Add to a queue that is shutting down does nothing.                      *)
LEMMA QAddClosed ==
    ASSUME NEW q, NEW k, q.shuttingDown
    PROVE  QAdd(q, k) = q
BY DEF QAdd

(* Add keeps the queue well formed.                                        *)
LEMMA QAddWellFormed ==
    ASSUME NEW Keys, NEW q \in QueueType(Keys), NEW k \in Keys, QWellFormed(q)
    PROVE  QWellFormed(QAdd(q, k))
<1>1. CASE q.shuttingDown \/ k \in q.dirty
    BY <1>1 DEF QAdd
<1>2. CASE ~q.shuttingDown /\ k \notin q.dirty /\ k \in q.processing
    <2>1. /\ QAdd(q, k).queue = q.queue
          /\ QAdd(q, k).dirty = q.dirty \cup {k}
          /\ QAdd(q, k).processing = q.processing
        BY <1>2 DEF QAdd, QueueType
    <2>2. q.dirty \ q.processing = (q.dirty \cup {k}) \ q.processing
        BY <1>2
    <2> QED BY <2>1, <2>2 DEF QWellFormed
<1>3. CASE ~q.shuttingDown /\ k \notin q.dirty /\ k \notin q.processing
    <2>1. /\ QAdd(q, k).queue = Append(q.queue, k)
          /\ QAdd(q, k).dirty = q.dirty \cup {k}
          /\ QAdd(q, k).processing = q.processing
        BY <1>3 DEF QAdd, QueueType
    <2>2. q.queue \in Seq(Keys) /\ Range(q.queue) = q.dirty \ q.processing
        BY DEF QueueType, QWellFormed
    <2>3. k \notin Range(q.queue)
        BY <2>2, <1>3
    <2> QED BY <2>1, <2>2, <2>3, <1>3, AppendDistinct DEF QWellFormed
<1> QED BY <1>1, <1>2, <1>3

(* Get of a queue that has an item hands out a dirty key that is in no     *)
(* worker's hands and moves it from dirty to processing.                   *)
LEMMA QGetFields ==
    ASSUME NEW Keys, NEW q \in QueueType(Keys), QWellFormed(q), QHasItem(q)
    PROVE  /\ Head(q.queue) \in Keys
           /\ Head(q.queue) \in q.dirty /\ Head(q.queue) \notin q.processing
           /\ QGet(q) \in QueueType(Keys)
           /\ QGet(q).dirty = q.dirty \ {Head(q.queue)}
           /\ QGet(q).processing = q.processing \cup {Head(q.queue)}
           /\ QGet(q).shuttingDown = q.shuttingDown
           /\ QGet(q).queue = Tail(q.queue)
<1>1. q.queue \in Seq(Keys) /\ q.queue # <<>>
    BY DEF QueueType, QHasItem
<1>2. Head(q.queue) \in Keys /\ Tail(q.queue) \in Seq(Keys)
    BY <1>1, HeadTailProperties
<1>3. Head(q.queue) \in q.dirty \ q.processing
    BY <1>1, TailDistinct DEF QWellFormed
<1> QED BY <1>2, <1>3 DEF QGet, QueueType

(* Get keeps the queue well formed.                                        *)
LEMMA QGetWellFormed ==
    ASSUME NEW Keys, NEW q \in QueueType(Keys), QWellFormed(q), QHasItem(q)
    PROVE  QWellFormed(QGet(q))
<1>1. q.queue \in Seq(Keys) /\ q.queue # <<>>
    BY DEF QueueType, QHasItem
<1>2. /\ IsInjective(Tail(q.queue))
      /\ Range(Tail(q.queue)) = (q.dirty \ q.processing) \ {Head(q.queue)}
    BY <1>1, TailDistinct DEF QWellFormed
<1> QED BY <1>2, QGetFields DEF QWellFormed

(* Done takes the key out of processing and keeps what is dirty.           *)
LEMMA QDoneFields ==
    ASSUME NEW Keys, NEW q \in QueueType(Keys), NEW k \in Keys
    PROVE  /\ QDone(q, k) \in QueueType(Keys)
           /\ QDone(q, k).dirty = q.dirty
           /\ QDone(q, k).processing = q.processing \ {k}
           /\ QDone(q, k).shuttingDown = q.shuttingDown
<1> DEFINE s == IF k \in q.dirty THEN Append(q.queue, k) ELSE q.queue
<1>1. s \in Seq(Keys)
    BY DEF QueueType
<1>2. QDone(q, k) = [q EXCEPT !.processing = q.processing \ {k}, !.queue = s]
    BY DEF QDone
<1> HIDE DEF s
<1> QED BY <1>1, <1>2 DEF QueueType

(* Done of a key in hand keeps the queue well formed.                      *)
LEMMA QDoneWellFormed ==
    ASSUME NEW Keys, NEW q \in QueueType(Keys), NEW k \in Keys,
           QWellFormed(q), k \in q.processing
    PROVE  QWellFormed(QDone(q, k))
<1>1. q.queue \in Seq(Keys) /\ Range(q.queue) = q.dirty \ q.processing
    BY DEF QueueType, QWellFormed
<1>2. CASE k \in q.dirty
    <2>1. QDone(q, k).queue = Append(q.queue, k)
        BY <1>2 DEF QDone, QueueType
    <2>2. Range(QDone(q, k).queue) = (q.dirty \ q.processing) \cup {k}
        BY <1>1, <2>1, AppendDistinct DEF QWellFormed
    <2>3. IsInjective(QDone(q, k).queue)
        BY <1>1, <2>1, AppendDistinct DEF QWellFormed
    <2> QED BY <1>2, <2>2, <2>3, QDoneFields DEF QWellFormed
<1>3. CASE k \notin q.dirty
    <2>1. QDone(q, k).queue = q.queue
        BY <1>3 DEF QDone, QueueType
    <2> QED BY <1>1, <1>3, <2>1, QDoneFields DEF QWellFormed
<1> QED BY <1>2, <1>3

(* ShutDown only sets its flag.                                            *)
LEMMA QShutDownFields ==
    ASSUME NEW Keys, NEW q \in QueueType(Keys)
    PROVE  /\ QShutDown(q) \in QueueType(Keys)
           /\ QShutDown(q).dirty = q.dirty
           /\ QShutDown(q).processing = q.processing
           /\ QShutDown(q).queue = q.queue
           /\ QShutDown(q).shuttingDown
BY DEF QShutDown, QueueType
=============================================================================
