------------------------- MODULE ConfigMonitorProofs -------------------------
(***************************************************************************)
(* Theorems about ConfigMonitor, for every set of config maps, instances   *)
(* and workers, any capacity of the channel and any number of changes.     *)
(***************************************************************************)
EXTENDS ConfigMonitor, WorkQueueProofs

USE ConfigMonitorAssumption, ValuesAssumption

-----------------------------------------------------------------------------
(* Type correctness.                                                       *)

(* Hashes of the data of config maps are hashes.                           *)
LEMMA HashFacts ==
    \A data \in Contents, order \in Orders :
        Hash(data, order) \in Hashes /\ Hash(data, order).data = data
BY DEF Hash, Hashes

(* The initial states are well typed.                                      *)
LEMMA TypeInit == Init => MonitorTypeOK
<1> SUFFICES ASSUME Init PROVE MonitorTypeOK
    OBVIOUS
<1>1. configMaps \in [Keys -> ConfigMaps \cup {Absent}]
    BY DEF Init
<1>2. workQueue \in QueueType(Keys)
    BY EmptyQueueOK DEF Init
<1>3. notify \in Seq(Names) /\ Len(notify) <= Capacity
    BY DEF Init
<1>4. refreshers \in [Refreshers -> [calling : Instances \cup {NoInstance},
                                     rest : SUBSET Instances]]
    BY DEF Init, IdleRefresher
<1> QED
    BY <1>1, <1>2, <1>3, <1>4, HeldAssumption DEF Init, MonitorTypeOK, Labels, UsesHash

(* A change of a config map keeps the types.                               *)
LEMMA CacheChangeType ==
    ASSUME MonitorTypeOK, NEW k \in Keys, NEW cm \in ConfigMaps \cup {Absent},
           CacheChange(k, cm)
    PROVE  MonitorTypeOK'
<1>1. clientVars' = clientVars
    BY DEF CacheChange
<1>2. waiting' \subseteq Keys
    BY DEF CacheChange, enqueueConfigMap, MonitorTypeOK
<1>3. changes' \in 0 .. MaxChanges
    BY DEF CacheChange, MonitorTypeOK
<1>4. configMaps' \in [Keys -> ConfigMaps \cup {Absent}]
    BY DEF CacheChange, MonitorTypeOK
<1> QED
    BY <1>1, <1>2, <1>3, <1>4
    DEF CacheChange, MonitorTypeOK, localVars, notifierVars, clientVars

(* The informer's events are changes to config maps of the right type.     *)
Event(k) == Created(k) \/ Updated(k) \/ Deleted(k)

LEMMA EventIsChange ==
    ASSUME MonitorTypeOK, NEW k \in Keys, Event(k)
    PROVE  \E cm \in ConfigMaps \cup {Absent} : CacheChange(k, cm)
BY DEF Event, Created, Updated, Deleted

(* Every step keeps the types, if the queue is well formed.                *)
QueueOK == QWellFormed(workQueue)

LEMMA TypeNext == MonitorTypeOK /\ QueueOK /\ [Next]_vars => MonitorTypeOK'
<1> SUFFICES ASSUME MonitorTypeOK, QueueOK, [Next]_vars PROVE MonitorTypeOK'
    OBVIOUS
<1> USE DEF MonitorTypeOK, Labels, UsesHash, At, Goto,
            clusterVars, localVars, clientVars, notifierVars
<1>1. ASSUME NEW k \in Keys, Event(k) PROVE MonitorTypeOK'
    BY <1>1, EventIsChange, CacheChangeType
<1>2. ASSUME NEW k \in Keys, AddReady(k) PROVE MonitorTypeOK'
    BY <1>2, QAddFields DEF AddReady
<1>3. ASSUME ShutDown PROVE MonitorTypeOK'
    BY <1>3, QShutDownFields DEF ShutDown
<1>4. ASSUME NEW w \in Workers, Get(w) PROVE MonitorTypeOK'
    <2>1. Head(workQueue.queue) \in Keys /\ workQueue' \in QueueType(Keys)
        BY <1>4, QGetFields DEF Get, QueueOK
    <2> QED BY <1>4, <2>1 DEF Get
<1>5. ASSUME NEW w \in Workers, Exit(w) PROVE MonitorTypeOK'
    BY <1>5 DEF Exit
<1>6. ASSUME NEW w \in Workers, SyncHandler(w) PROVE MonitorTypeOK'
    <2>1. item[w] \in Keys /\ Verdict(item[w]) \in {"done", "forget", "load"}
        BY <1>6 DEF SyncHandler, Verdict
    <2>2. CASE Verdict(item[w]) = "load"
        <3>1. configMaps[item[w]].data \in Contents
            BY <2>1, <2>2 DEF Verdict, ConfigMaps
        <3>2. PICK order \in Orders :
                newSha' = [newSha EXCEPT ![w] = Hash(configMaps[item[w]].data, order)]
            BY <1>6, <2>2 DEF SyncHandler
        <3> DEFINE hash == Hash(configMaps[item[w]].data, order)
        <3>3. hash \in Hashes
            BY <3>1, HashFacts
        <3> HIDE DEF hash
        <3>4. newSha' = [newSha EXCEPT ![w] = hash] /\ pc' = [pc EXCEPT ![w] = "load"]
            BY <1>6, <2>2, <3>2 DEF SyncHandler, hash
        <3> QED BY <1>6, <2>1, <3>3, <3>4 DEF SyncHandler
    <2>3. CASE Verdict(item[w]) # "load"
        BY <1>6, <2>1, <2>3 DEF SyncHandler
    <2> QED BY <2>2, <2>3
<1>7. ASSUME NEW w \in Workers, Forget(w) PROVE MonitorTypeOK'
    BY <1>7 DEF Forget, Record
<1>8. ASSUME NEW w \in Workers, LoadHash(w) PROVE MonitorTypeOK'
    BY <1>8 DEF LoadHash
<1>9. ASSUME NEW w \in Workers, StoreHash(w) PROVE MonitorTypeOK'
    BY <1>9 DEF StoreHash, Record
<1>10. ASSUME NEW w \in Workers, Notify(w) PROVE MonitorTypeOK'
    <2>1. item[w] \in Keys /\ NameOf[item[w]] \in Names
        BY <1>10 DEF Notify
    <2>2. notify' \in Seq(Names) /\ Len(notify') = Len(notify) + 1
        BY <1>10, <2>1 DEF Notify
    <2> QED BY <1>10, <2>2 DEF Notify
<1>11. ASSUME NEW w \in Workers, Done(w) PROVE MonitorTypeOK'
    <2>1. item[w] \in Keys
        BY <1>11 DEF Done
    <2>2. workQueue' \in QueueType(Keys)
        BY <1>11, <2>1, QDoneFields DEF Done
    <2> QED BY <1>11, <2>2 DEF Done
<1>12. ASSUME Take PROVE MonitorTypeOK'
    <2>1. /\ notify' \in Seq(Names) /\ Len(notify') = Len(notify) - 1
          /\ Head(notify) \in Names
        BY <1>12, HeadTailProperties DEF Take
    <2> QED BY <1>12, <2>1 DEF Take
<1>13. ASSUME NEW r \in Refreshers, Spawn(r) PROVE MonitorTypeOK'
    BY <1>13 DEF Spawn
<1>14. ASSUME NEW r \in Refreshers, Call(r) PROVE MonitorTypeOK'
    BY <1>14 DEF Call
<1>15. ASSUME NEW r \in Refreshers, Answer(r) PROVE MonitorTypeOK'
    BY <1>15 DEF Answer
<1>16. ASSUME NEW i \in Instances, Fetch(i) PROVE MonitorTypeOK'
    <2>1. \A c \in Concerns : Content(c[2]) \in Contents \cup {Absent}
        BY DEF Concerns, Content, ConfigMaps
    <2>2. held' \in [Concerns -> Contents \cup {Absent}] /\ apart' \subseteq Concerns
        BY <1>16, <2>1 DEF Fetch
    <2> QED BY <1>16, <2>2 DEF Fetch
<1>17. ASSUME NEW i \in Instances, Register(i) PROVE MonitorTypeOK'
    BY <1>17 DEF Register
<1>18. ASSUME NEW i \in Instances, Leave(i) PROVE MonitorTypeOK'
    BY <1>18 DEF Leave
<1>19. CASE UNCHANGED vars
    BY <1>19 DEF vars
<1> QED
    BY <1>1, <1>2, <1>3, <1>4, <1>5, <1>6, <1>7, <1>8, <1>9, <1>10, <1>11,
       <1>12, <1>13, <1>14, <1>15, <1>16, <1>17, <1>18, <1>19
    DEF Next, WorkerStep, Refresh, Event

-----------------------------------------------------------------------------
(* The queue and the workers.  The keys in processing are those the        *)
(* workers hold, each held once: with this, QueueOK is inductive.          *)
Holding ==
    /\ \A k \in Keys :
        k \in workQueue.processing <=> \E w \in Workers : item[w] = k
    /\ \A v, w \in Workers : item[v] = item[w] /\ item[v] # NoKey => v = w

WorkInv == MonitorTypeOK /\ QueueOK /\ Holding

(* Steps inside syncHandler, and steps of the notifier, the refreshers and *)
(* the clients.                                                            *)
Handling(w) ==
    SyncHandler(w) \/ Forget(w) \/ LoadHash(w) \/ StoreHash(w) \/ Notify(w)

Telling == Take \/ \E r \in Refreshers : Spawn(r) \/ Call(r) \/ Answer(r)

Moving == \E i \in Instances : Fetch(i) \/ Register(i) \/ Leave(i)

(* The steps of the monitor, as the proofs below split them.               *)
LEMMA NextCases ==
    ASSUME [Next]_vars
    PROVE  \/ \E k \in Keys : Event(k)
           \/ \E k \in Keys : AddReady(k)
           \/ ShutDown
           \/ \E w \in Workers : Get(w)
           \/ \E w \in Workers : Exit(w)
           \/ \E w \in Workers : Handling(w)
           \/ \E w \in Workers : Done(w)
           \/ Telling
           \/ Moving
           \/ UNCHANGED vars
BY DEF Next, Event, WorkerStep, Handling, Telling, Moving, Refresh

(* A step inside syncHandler leaves the config maps, the queue and the     *)
(* items alone, and the worker with its key.                               *)
LEMMA HandlingFrame ==
    ASSUME MonitorTypeOK, NEW w \in Workers, Handling(w)
    PROVE  /\ UNCHANGED <<clusterVars, workQueue, item, taken, refreshers>>
           /\ UNCHANGED <<registered, told, held>>
           /\ item[w] \in Keys
           /\ pc[w] \in {"sync", "forget", "load", "storeFirst", "store", "notify"}
           /\ pc'[w] \notin {"get", "stopped", "sync"}
           /\ \A v \in Workers \ {w} : pc'[v] = pc[v] /\ newSha'[v] = newSha[v]
           /\ ~Notify(w) => UNCHANGED notify
<1> USE DEF MonitorTypeOK, At, Goto, clusterVars, localVars, clientVars, notifierVars
<1>1. CASE SyncHandler(w)
    <2>1. Verdict(item[w]) \in {"done", "forget", "load"}
        BY DEF Verdict
    <2>2. \A v \in Workers \ {w} : newSha'[v] = newSha[v]
        BY <1>1 DEF SyncHandler
    <2> QED BY <1>1, <2>1, <2>2 DEF SyncHandler
<1>2. CASE Forget(w) \/ LoadHash(w) \/ StoreHash(w)
    BY <1>2 DEF Forget, LoadHash, StoreHash
<1>3. CASE Notify(w)
    BY <1>3 DEF Notify
<1> QED BY <1>1, <1>2, <1>3 DEF Handling

(* A change of a config map leaves the queue and the workers alone.        *)
LEMMA EventFrame ==
    ASSUME MonitorTypeOK, NEW k \in Keys, Event(k)
    PROVE  /\ UNCHANGED <<workQueue, pc, localVars, configMapCache, notifierVars>>
           /\ UNCHANGED clientVars
           /\ enqueueConfigMap(k)
BY EventIsChange DEF CacheChange

(* So do telling and moving.                                               *)
LEMMA OutsideFrame ==
    ASSUME Telling \/ Moving
    PROVE  /\ UNCHANGED <<clusterVars, workQueue, pc, localVars, configMapCache>>
           /\ UNCHANGED notify \/ Take
BY DEF Telling, Moving, Spawn, Call, Answer, Take, Fetch, Register, Leave, notifierVars

(* No worker holds a key at the start.                                     *)
LEMMA WorkInit == Init => WorkInv
<1> SUFFICES ASSUME Init PROVE WorkInv
    OBVIOUS
<1>1. QueueOK
    BY EmptyQueueOK DEF Init, QueueOK
<1>2. Holding
    BY DEF Init, Holding, EmptyQueue
<1> QED BY <1>1, <1>2, TypeInit DEF WorkInv

(* Every step keeps the invariant of the queue and the workers.            *)
LEMMA WorkNext == WorkInv /\ [Next]_vars => WorkInv'
<1> SUFFICES ASSUME WorkInv, [Next]_vars PROVE WorkInv'
    OBVIOUS
<1>0. MonitorTypeOK /\ QueueOK /\ Holding /\ MonitorTypeOK'
    BY TypeNext DEF WorkInv
<1> SUFFICES QueueOK' /\ Holding'
    BY <1>0 DEF WorkInv
<1>1. CASE UNCHANGED <<workQueue, item>>
    BY <1>0, <1>1 DEF QueueOK, Holding
<1>2. ASSUME NEW k \in Keys, AddReady(k) PROVE QueueOK' /\ Holding'
    <2>1. workQueue \in QueueType(Keys) /\ QWellFormed(workQueue)
        BY <1>0 DEF MonitorTypeOK, QueueOK
    <2>2. workQueue' = QAdd(workQueue, k) /\ UNCHANGED item
        BY <1>2 DEF AddReady, localVars
    <2> QED
        BY <1>0, <1>2, <2>1, <2>2, QAddWellFormed, QAddFields DEF QueueOK, Holding
<1>3. ASSUME ShutDown PROVE QueueOK' /\ Holding'
    <2>1. workQueue \in QueueType(Keys) /\ workQueue' = QShutDown(workQueue) /\ UNCHANGED item
        BY <1>0, <1>3 DEF ShutDown, MonitorTypeOK, localVars
    <2>2. /\ workQueue'.queue = workQueue.queue /\ workQueue'.dirty = workQueue.dirty
          /\ workQueue'.processing = workQueue.processing
        BY <2>1, QShutDownFields
    <2> QED BY <1>0, <2>1, <2>2 DEF QueueOK, QWellFormed, Holding
<1>4. ASSUME NEW w \in Workers, Get(w) PROVE QueueOK' /\ Holding'
    <2> DEFINE k == Head(workQueue.queue)
    <2>1. /\ workQueue \in QueueType(Keys) /\ QWellFormed(workQueue)
          /\ QHasItem(workQueue) /\ workQueue' = QGet(workQueue)
          /\ item \in [Workers -> Keys \cup {NoKey}]
          /\ item' = [item EXCEPT ![w] = k] /\ item[w] = NoKey
        BY <1>0, <1>4 DEF Get, MonitorTypeOK, QueueOK, At
    <2>2. /\ k \in Keys /\ k \notin workQueue.processing
          /\ workQueue'.processing = workQueue.processing \cup {k}
        BY <2>1, QGetFields
    <2>3. \A v \in Workers : item[v] # k
        BY <1>0, <2>2 DEF Holding
    <2> HIDE DEF k
    <2>4. QueueOK'
        BY <2>1, QGetWellFormed DEF QueueOK
    <2>5. Holding'
        BY <1>0, <2>1, <2>2, <2>3 DEF Holding
    <2> QED BY <2>4, <2>5
<1>5. ASSUME NEW w \in Workers, Done(w) PROVE QueueOK' /\ Holding'
    <2> DEFINE k == item[w]
    <2>1. /\ workQueue \in QueueType(Keys) /\ QWellFormed(workQueue)
          /\ workQueue' = QDone(workQueue, k)
          /\ item \in [Workers -> Keys \cup {NoKey}]
          /\ item' = [item EXCEPT ![w] = NoKey] /\ k \in Keys
        BY <1>0, <1>5 DEF Done, MonitorTypeOK, QueueOK, At
    <2>2. /\ k \in workQueue.processing
          /\ workQueue'.processing = workQueue.processing \ {k}
        BY <1>0, <2>1, QDoneFields DEF Holding
    <2>3. QueueOK'
        BY <2>1, <2>2, QDoneWellFormed DEF QueueOK
    <2>4. Holding'
        BY <1>0, <2>1, <2>2 DEF Holding
    <2> QED BY <2>3, <2>4
<1>6. ASSUME NEW k \in Keys, Event(k) PROVE UNCHANGED <<workQueue, item>>
    BY <1>0, <1>6, EventFrame DEF localVars
<1>7. ASSUME NEW w \in Workers, Exit(w) PROVE UNCHANGED <<workQueue, item>>
    BY <1>7 DEF Exit, localVars
<1>8. ASSUME NEW w \in Workers, Handling(w) PROVE UNCHANGED <<workQueue, item>>
    BY <1>0, <1>8, HandlingFrame
<1>9. Telling \/ Moving => UNCHANGED <<workQueue, item>>
    BY OutsideFrame DEF localVars
<1>10. UNCHANGED vars => UNCHANGED <<workQueue, item>>
    BY DEF vars, localVars
<1> QED
    BY <1>1, <1>2, <1>3, <1>4, <1>5, <1>6, <1>7, <1>8, <1>9, <1>10, NextCases

(* Types, the queue and the keys in hand are right in every state.         *)
THEOREM WorkInvariant == Spec => []WorkInv
<1>1. Init => WorkInv
    BY WorkInit
<1>2. WorkInv /\ [Next]_vars => WorkInv'
    BY WorkNext
<1> QED BY <1>1, <1>2, PTL DEF Spec

(* Every variable keeps its type, and the channel is never over full.      *)
THEOREM MonitorTypeCorrect == Spec => []MonitorTypeOK
<1>1. WorkInv => MonitorTypeOK
    BY DEF WorkInv
<1> QED BY <1>1, WorkInvariant, PTL

-----------------------------------------------------------------------------
(* The monitor implements KeyedWork.                                       *)

(* The monitor starts in an initial state of KeyedWork.                    *)
LEMMA AbstractInit == Init => Abstract!Init
BY DEF Init, Abstract!Init, Announced, EmptyQueue

(* What the steps on the queue do to the keys that are announced, in terms *)
(* of which both refinements are shown.                                    *)
LEMMA AddReadyEffect ==
    ASSUME WorkInv, NEW k \in Keys, AddReady(k)
    PROVE  /\ k \in waiting /\ waiting' = waiting \ {k}
           /\ UNCHANGED <<item, pc, notify>>
           /\ workQueue'.shuttingDown = workQueue.shuttingDown
           /\ workQueue.shuttingDown => workQueue'.dirty = workQueue.dirty
           /\ ~workQueue.shuttingDown => workQueue'.dirty = workQueue.dirty \cup {k}
<1>1. /\ k \in waiting /\ waiting' = waiting \ {k}
      /\ workQueue' = QAdd(workQueue, k) /\ UNCHANGED <<item, pc, notify>>
      /\ workQueue \in QueueType(Keys)
    BY DEF AddReady, localVars, notifierVars, WorkInv, MonitorTypeOK
<1> QED BY <1>1, QAddFields, QAddOpen, QAddClosed

(* Get moves a key nobody holds from dirty into the worker's hands.        *)
LEMMA GetEffect ==
    ASSUME WorkInv, NEW w \in Workers, Get(w)
    PROVE  \E k \in Keys :
                /\ item[w] = NoKey /\ item' = [item EXCEPT ![w] = k]
                /\ pc' = [pc EXCEPT ![w] = "sync"]
                /\ \A v \in Workers : item[v] # k
                /\ k \in workQueue.dirty /\ workQueue'.dirty = workQueue.dirty \ {k}
                /\ workQueue'.shuttingDown = workQueue.shuttingDown
                /\ UNCHANGED <<waiting, notify>>
<1> DEFINE k == Head(workQueue.queue)
<1>1. /\ workQueue \in QueueType(Keys) /\ QWellFormed(workQueue)
      /\ QHasItem(workQueue) /\ workQueue' = QGet(workQueue)
      /\ item' = [item EXCEPT ![w] = k] /\ item[w] = NoKey
      /\ pc' = [pc EXCEPT ![w] = "sync"]
      /\ UNCHANGED <<waiting, notify>>
    BY DEF Get, WorkInv, MonitorTypeOK, QueueOK, At, Goto, clusterVars, notifierVars
<1>2. /\ k \in Keys /\ k \in workQueue.dirty /\ k \notin workQueue.processing
      /\ workQueue'.dirty = workQueue.dirty \ {k}
      /\ workQueue'.shuttingDown = workQueue.shuttingDown
    BY <1>1, QGetFields
<1>3. \A v \in Workers : item[v] # k
    BY <1>2 DEF WorkInv, Holding
<1> HIDE DEF k
<1> QED BY <1>1, <1>2, <1>3

(* Done takes the key out of the worker's hands.                           *)
LEMMA DoneEffect ==
    ASSUME WorkInv, NEW w \in Workers, Done(w)
    PROVE  /\ item[w] \in Keys /\ item' = [item EXCEPT ![w] = NoKey]
           /\ pc[w] = "done" /\ pc' = [pc EXCEPT ![w] = "get"]
           /\ workQueue'.dirty = workQueue.dirty
           /\ workQueue'.shuttingDown = workQueue.shuttingDown
           /\ UNCHANGED <<waiting, notify>>
<1>1. /\ workQueue' = QDone(workQueue, item[w]) /\ item[w] \in Keys
      /\ item' = [item EXCEPT ![w] = NoKey]
      /\ pc[w] = "done" /\ pc' = [pc EXCEPT ![w] = "get"]
      /\ workQueue \in QueueType(Keys) /\ UNCHANGED <<waiting, notify>>
    BY DEF Done, WorkInv, MonitorTypeOK, At, Goto, clusterVars, notifierVars
<1> QED BY <1>1, QDoneFields

(* ShutDown leaves the keys alone.                                         *)
LEMMA ShutDownEffect ==
    ASSUME WorkInv, ShutDown
    PROVE  /\ workQueue'.dirty = workQueue.dirty
           /\ workQueue'.shuttingDown = TRUE
           /\ UNCHANGED <<waiting, item, pc, notify>>
<1>1. workQueue \in QueueType(Keys) /\ workQueue' = QShutDown(workQueue)
    BY DEF ShutDown, WorkInv, MonitorTypeOK
<1> QED BY <1>1 DEF ShutDown, QShutDown, QueueType, clusterVars, localVars, notifierVars

(* Each step is one of KeyedWork, or leaves its variables as they are.     *)
LEMMA AbstractNext ==
    WorkInv /\ [Next]_vars => [Abstract!Next]_(Abstract!vars)
<1> SUFFICES ASSUME WorkInv, [Next]_vars
             PROVE  Abstract!Next \/ UNCHANGED Abstract!vars
    BY Zenon
<1> DEFINE Idle == UNCHANGED <<Announced, item, workQueue.shuttingDown>>
<1>0. MonitorTypeOK
    BY DEF WorkInv
<1>1. ASSUME UNCHANGED <<waiting, workQueue, item>> PROVE Idle
    BY <1>1 DEF Announced
<1>2. ASSUME NEW k \in Keys, Event(k) PROVE Abstract!Announce(k) \/ Idle
    <2>1. UNCHANGED <<workQueue, item>> /\ enqueueConfigMap(k)
        BY <1>0, <1>2, EventFrame DEF localVars
    <2> QED BY <1>1, <2>1 DEF enqueueConfigMap, Abstract!Announce, Announced
<1>3. ASSUME NEW k \in Keys, AddReady(k) PROVE Abstract!Drop(k) \/ Idle
    <2>1. CASE workQueue.shuttingDown
        <3>1. waiting' = waiting \ {k} /\ UNCHANGED <<item, workQueue.dirty, workQueue.shuttingDown>>
            BY <1>3, <2>1, AddReadyEffect
        <3>2. Announced' \in {Announced, Announced \ {k}}
            BY <3>1 DEF Announced
        <3>3. CASE Announced' = Announced
            BY <3>1, <3>3
        <3>4. CASE Announced' = Announced \ {k}
            BY <2>1, <3>1, <3>4 DEF Abstract!Drop
        <3> QED BY <3>2, <3>3, <3>4
    <2>2. CASE ~workQueue.shuttingDown
        <3>1. Announced' = Announced
            BY <1>3, <2>2, AddReadyEffect DEF Announced
        <3> QED BY <1>3, <3>1, AddReadyEffect
    <2> QED BY <2>1, <2>2
<1>4. ASSUME ShutDown PROVE Abstract!Close
    BY <1>4, ShutDownEffect DEF Abstract!Close, Announced
<1>5. ASSUME NEW w \in Workers, Get(w) PROVE \E k \in Keys : Abstract!Start(w, k)
    <2>1. PICK k \in Keys :
                /\ item[w] = NoKey /\ item' = [item EXCEPT ![w] = k]
                /\ \A v \in Workers : item[v] # k
                /\ k \in workQueue.dirty /\ workQueue'.dirty = workQueue.dirty \ {k}
                /\ workQueue'.shuttingDown = workQueue.shuttingDown
                /\ UNCHANGED waiting
        BY <1>5, GetEffect
    <2>2. k \in Announced /\ Announced' \in {Announced, Announced \ {k}}
        BY <2>1 DEF Announced
    <2>3. Abstract!Start(w, k)
        BY <2>1, <2>2 DEF Abstract!Start
    <2> QED BY <2>3
<1>6. ASSUME NEW w \in Workers, Exit(w) PROVE Idle
    BY <1>1, <1>6 DEF Exit, clusterVars, localVars
<1>7. ASSUME NEW w \in Workers, Handling(w) PROVE Idle
    BY <1>0, <1>1, <1>7, HandlingFrame DEF clusterVars
<1>8. ASSUME NEW w \in Workers, Done(w) PROVE Abstract!Finish(w)
    BY <1>8, DoneEffect DEF Abstract!Finish, Announced
<1>9. Telling \/ Moving => Idle
    BY <1>1, OutsideFrame DEF clusterVars, localVars
<1>10. UNCHANGED vars => Idle
    BY <1>1 DEF vars, clusterVars, localVars
<1> QED
    <2>1. Idle => UNCHANGED Abstract!vars
        BY DEF Abstract!vars
    <2> HIDE DEF Idle
    <2> QED
        BY <1>2, <1>3, <1>4, <1>5, <1>6, <1>7, <1>8, <1>9, <1>10, <2>1, NextCases
        DEF Abstract!Next

(* No two workers on one key, no announced key forgotten.                  *)
THEOREM MonitorImplementsKeyedWork == Spec => MonitorKeyedWork
<1>1. Init => Abstract!Init
    BY AbstractInit
<1>2. WorkInv /\ [Next]_vars => [Abstract!Next]_(Abstract!vars)
    BY AbstractNext
<1> QED BY <1>1, <1>2, WorkInvariant, PTL DEF Spec, MonitorKeyedWork, Abstract!Spec

-----------------------------------------------------------------------------
(* The monitor implements ConfigFeed.                                      *)

(* The count of a key is a number from 0 to 3.                             *)
LEMMA DueType ==
    /\ Due \in [Keys -> 0 .. 3]
    /\ \A k \in Keys : Due[k] = One(k \in waiting) + One(k \in workQueue.dirty) + One(InHand(k))
    /\ Due' \in [Keys -> 0 .. 3]
    /\ \A k \in Keys : Due'[k] = One(k \in waiting') + One(k \in workQueue'.dirty) + One(InHand(k)')
BY DEF Due, One

(* What a step does to the count of one key is what it does to Due.        *)
LEMMA DueChange ==
    ASSUME NEW k \in Keys, \A j \in Keys \ {k} : Due'[j] = Due[j]
    PROVE  /\ Due'[k] = Due[k] => Due' = Due
           /\ Due'[k] = Due[k] + 1 => Due' = [Due EXCEPT ![k] = @ + 1]
           /\ Due'[k] = Due[k] - 1 => Due' = [Due EXCEPT ![k] = @ - 1]
<1> DEFINE d == Due  e == Due'
<1>1. d \in [Keys -> 0 .. 3] /\ e \in [Keys -> 0 .. 3]
    BY DueType
<1>2. \A j \in Keys \ {k} : e[j] = d[j]
    OBVIOUS
<1> HIDE DEF d, e
<1>3. /\ e[k] = d[k] => e = d
      /\ e[k] = d[k] + 1 => e = [d EXCEPT ![k] = @ + 1]
      /\ e[k] = d[k] - 1 => e = [d EXCEPT ![k] = @ - 1]
    BY <1>1, <1>2
<1> QED BY <1>3 DEF d, e

(* Where the same keys wait, are dirty and are in hand, nothing is counted. *)
LEMMA DueSame ==
    ASSUME UNCHANGED waiting, workQueue'.dirty = workQueue.dirty,
           \A j \in Keys : InHand(j)' <=> InHand(j)
    PROVE  Due' = Due
<1> DEFINE d == Due  e == Due'
<1>1. d \in [Keys -> 0 .. 3] /\ e \in [Keys -> 0 .. 3]
    BY DueType
<1>2. \A j \in Keys : e[j] = d[j]
    BY DueType DEF One
<1> HIDE DEF d, e
<1>3. e = d
    BY <1>1, <1>2
<1> QED BY <1>3 DEF d, e

(* The initial counts are those of ConfigFeed.                             *)
LEMMA FeedInit == Init => Feed!Init
<1> SUFFICES ASSUME Init
             PROVE  /\ configMaps \in [Keys -> ConfigMaps \cup {Absent}]
                    /\ Due \in [Keys -> 0 .. 1] /\ notify = <<>>
    BY DEF Feed!Init
<1>1. \A k \in Keys : ~InHand(k) /\ k \notin workQueue.dirty
    BY DEF Init, InHand, EmptyQueue
<1> QED BY <1>1 DEF Init, Due, One

(* A step of a worker with its key, which notices, lapses or goes on.      *)
LEMMA FeedHandling ==
    ASSUME WorkInv, NEW w \in Workers, Handling(w)
    PROVE  \/ \E k \in Keys : Feed!Notice(k) \/ Feed!Lapse(k)
           \/ UNCHANGED <<configMaps, Due, notify>>
<1>0. PICK k \in Keys : k = item[w]
    BY HandlingFrame DEF WorkInv
<1>1. /\ UNCHANGED <<configMaps, waiting, workQueue, item>>
      /\ pc[w] \notin {"done"} /\ \A v \in Workers \ {w} : pc'[v] = pc[v]
      /\ ~Notify(w) => UNCHANGED notify
    BY HandlingFrame DEF WorkInv, clusterVars
<1>2. \A v \in Workers \ {w} : item[v] # k
    BY <1>0 DEF WorkInv, Holding, MonitorTypeOK
<1>3. InHand(k) /\ (InHand(k)' <=> pc'[w] # "done")
    BY <1>0, <1>1, <1>2 DEF InHand
<1>4. \A j \in Keys \ {k} : InHand(j)' <=> InHand(j)
    BY <1>0, <1>1 DEF InHand
<1>5. \A j \in Keys \ {k} : Due'[j] = Due[j]
    BY <1>1, <1>4, DueType DEF One
<1>6. CASE pc'[w] # "done"
    <2>1. Due'[k] = Due[k]
        BY <1>1, <1>3, <1>6, DueType DEF One
    <2>2. ~Notify(w)
        BY <1>6 DEF Notify, Goto, WorkInv, MonitorTypeOK
    <2> QED BY <1>1, <1>5, <2>1, <2>2, DueChange
<1>7. CASE pc'[w] = "done"
    <2>1. Due'[k] = Due[k] - 1 /\ Due[k] > 0
        BY <1>1, <1>3, <1>7, DueType DEF One
    <2>2. Due' = [Due EXCEPT ![k] = @ - 1]
        BY <1>1, <1>5, <2>1, DueChange
    <2>3. CASE Notify(w)
        <3>1. Len(notify) < Capacity /\ notify' = Append(notify, NameOf[k])
            BY <1>0, <2>3 DEF Notify
        <3> QED BY <1>1, <2>1, <2>2, <3>1 DEF Feed!Notice
    <2>4. CASE ~Notify(w)
        BY <1>1, <2>1, <2>2, <2>4 DEF Feed!Lapse
    <2> QED BY <2>3, <2>4
<1> QED BY <1>6, <1>7

(* Each step is one of ConfigFeed, or leaves its variables as they are.    *)
LEMMA FeedNext == WorkInv /\ [Next]_vars => [Feed!Next]_<<configMaps, Due, notify>>
<1> SUFFICES ASSUME WorkInv, [Next]_vars
             PROVE  Feed!Next \/ UNCHANGED <<configMaps, Due, notify>>
    BY Zenon
<1> DEFINE Idle == UNCHANGED <<configMaps, Due, notify>>
<1>0. MonitorTypeOK
    BY DEF WorkInv
<1>1. ASSUME NEW k \in Keys, Event(k) PROVE Feed!Change(k)
    <2>1. UNCHANGED <<workQueue, pc, item, notify>> /\ enqueueConfigMap(k)
        BY <1>0, <1>1, EventFrame DEF localVars, notifierVars
    <2>2. \A j \in Keys : InHand(j)' <=> InHand(j)
        BY <2>1 DEF InHand
    <2>3. \A j \in Keys \ {k} : Due'[j] = Due[j]
        BY <2>1, <2>2, DueType DEF One, enqueueConfigMap
    <2>4. Due'[k] \in {Due[k], Due[k] + 1}
        BY <2>1, <2>2, DueType DEF One, enqueueConfigMap
    <2>5. \E cm \in (ConfigMaps \cup {Absent}) \ {configMaps[k]} :
                configMaps' = [configMaps EXCEPT ![k] = cm]
        BY <1>0, <1>1, EventIsChange DEF CacheChange
    <2>6. Due' \in {Due, [Due EXCEPT ![k] = @ + 1]}
        BY <2>3, <2>4, DueChange
    <2> QED BY <2>1, <2>5, <2>6 DEF Feed!Change
<1>2. ASSUME NEW k \in Keys, AddReady(k) PROVE Feed!Lapse(k) \/ Idle
    <2>1. \A j \in Keys : InHand(j)' <=> InHand(j)
        BY <1>2, AddReadyEffect DEF InHand
    <2>2. \A j \in Keys \ {k} : Due'[j] = Due[j]
        BY <1>2, <2>1, AddReadyEffect, DueType DEF One
    <2>3. Due[k] > 0 /\ Due'[k] \in {Due[k], Due[k] - 1}
        BY <1>2, <2>1, AddReadyEffect, DueType DEF One
    <2>4. UNCHANGED configMaps
        BY <1>2 DEF AddReady
    <2> QED BY <1>2, <2>2, <2>3, <2>4, AddReadyEffect, DueChange DEF Feed!Lapse
<1>3. ASSUME ShutDown PROVE Idle
    BY <1>3, ShutDownEffect, DueSame DEF InHand, ShutDown, clusterVars
<1>4. ASSUME NEW w \in Workers, Get(w) PROVE Idle
    <2>1. PICK k \in Keys :
                /\ item[w] = NoKey /\ item' = [item EXCEPT ![w] = k]
                /\ pc' = [pc EXCEPT ![w] = "sync"]
                /\ \A v \in Workers : item[v] # k
                /\ k \in workQueue.dirty /\ workQueue'.dirty = workQueue.dirty \ {k}
                /\ UNCHANGED <<waiting, notify>>
        BY <1>4, GetEffect
    <2>2. \A v \in Workers \ {w} : item'[v] = item[v] /\ pc'[v] = pc[v]
        BY <2>1
    <2>3. item'[w] = k /\ pc'[w] = "sync"
        BY <1>0, <2>1 DEF MonitorTypeOK
    <2>4. ~InHand(k) /\ InHand(k)'
        BY <2>1, <2>3 DEF InHand
    <2>5. \A j \in Keys \ {k} : InHand(j)' <=> InHand(j)
        BY <2>1, <2>2, <2>3 DEF InHand
    <2>6. \A j \in Keys \ {k} : Due'[j] = Due[j]
        BY <2>1, <2>5, DueType DEF One
    <2>7. Due'[k] = Due[k]
        BY <2>1, <2>4, DueType DEF One
    <2>8. UNCHANGED configMaps
        BY <1>4 DEF Get, clusterVars
    <2> QED BY <2>1, <2>6, <2>7, <2>8, DueChange
<1>5. ASSUME NEW w \in Workers, Exit(w) PROVE Idle
    <2>1. /\ UNCHANGED <<configMaps, waiting, workQueue, item, notify>>
          /\ item[w] = NoKey /\ \A v \in Workers \ {w} : pc'[v] = pc[v]
        BY <1>0, <1>5 DEF Exit, At, Goto, MonitorTypeOK, clusterVars, localVars, notifierVars
    <2>2. \A j \in Keys : InHand(j)' <=> InHand(j)
        BY <2>1 DEF InHand
    <2>3. Due' = Due
        BY <2>1, <2>2, DueSame
    <2> QED BY <2>1, <2>3
<1>6. ASSUME NEW w \in Workers, Handling(w)
      PROVE  \/ \E k \in Keys : Feed!Notice(k) \/ Feed!Lapse(k)
             \/ Idle
    BY <1>6, FeedHandling
<1>7. ASSUME NEW w \in Workers, Done(w) PROVE Idle
    <2>1. /\ item[w] \in Keys /\ item'[w] = NoKey /\ pc[w] = "done"
          /\ \A v \in Workers \ {w} : item'[v] = item[v] /\ pc'[v] = pc[v]
        BY <1>0, <1>7, DoneEffect DEF MonitorTypeOK
    <2>2. \A j \in Keys : InHand(j)' <=> InHand(j)
        BY <2>1 DEF InHand
    <2>3. Due' = Due
        BY <1>7, <2>2, DoneEffect, DueSame
    <2>4. UNCHANGED configMaps
        BY <1>7 DEF Done, clusterVars
    <2> QED BY <1>7, <2>3, <2>4, DoneEffect
<1>8. ASSUME Telling \/ Moving PROVE Feed!Take \/ Idle
    <2>1. UNCHANGED <<configMaps, Due>> /\ (UNCHANGED notify \/ Take)
        BY <1>8, OutsideFrame, DueSame DEF clusterVars, localVars, InHand
    <2> QED BY <2>1 DEF Feed!Take, Take
<1>9. ASSUME UNCHANGED vars PROVE Idle
    BY <1>9, DueSame DEF vars, clusterVars, localVars, notifierVars, InHand
<1> QED
    BY <1>1, <1>2, <1>3, <1>4, <1>5, <1>6, <1>7, <1>8, <1>9, NextCases DEF Feed!Next

(* No more notices than changes, in a channel of bounded length: only a    *)
(* change of a config map makes a notice due.                              *)
THEOREM MonitorImplementsFeed == Spec => FeedSpec
<1>1. Init => Feed!Init
    BY FeedInit
<1>2. WorkInv /\ [Next]_vars => [Feed!Next]_<<configMaps, Due, notify>>
    BY FeedNext
<1> QED BY <1>1, <1>2, WorkInvariant, PTL DEF Spec, FeedSpec, Feed!Spec

-----------------------------------------------------------------------------
(* The hash on record follows the config map.                              *)

(* Past the first checks of syncHandler a worker has a key it watches.     *)
Deep == UsesHash \cup {"forget", "notify"}
Watching == \A w \in Workers : pc[w] \in Deep => item[w] \in Watched

(* What the step of the worker that has k relies on: nobody else writes    *)
(* the hash of k's name, so none is on record when it stores the first.    *)
Alone(k) ==
    \A w \in Workers :
        item[w] = k /\ pc[w] = "storeFirst" => configMapCache[NameOf[k]] = NoHash

(* k is at rest with the right hash, or a worker that has not yet recorded *)
(* a hash read it after its last change, or it is announced.               *)
ReadBy(w, k) ==
    \/ pc[w] = "sync"
    \/ pc[w] = "forget" /\ Verdict(k) = "forget"
    \/ pc[w] \in UsesHash /\ Verdict(k) = "load" /\ newSha[w].data = configMaps[k].data

Followed(k) ==
    \/ k \in Announced
    \/ \E w \in Workers : item[w] = k /\ ReadBy(w, k)
    \/ /\ RecordAgrees(k)
       /\ \A w \in Workers : item[w] = k => pc[w] \in {"notify", "done"}

RecordInv ==
    /\ WorkInv /\ Watching
    /\ \A k \in Keys : UniqueName(k) => Alone(k)
    /\ ~workQueue.shuttingDown => \A k \in Keys : UniqueName(k) => Followed(k)

(* What SyncHandler makes of its key.                                      *)
LEMMA SyncEffect ==
    ASSUME MonitorTypeOK, NEW w \in Workers, SyncHandler(w)
    PROVE  /\ item[w] \in Keys /\ pc[w] = "sync" /\ pc'[w] = Verdict(item[w])
           /\ Verdict(item[w]) \in {"done", "forget", "load"}
           /\ Verdict(item[w]) # "done" => item[w] \in Watched
           /\ Verdict(item[w]) = "load" => newSha'[w].data = configMaps[item[w]].data
           /\ UNCHANGED <<configMapCache, apart>>
<1>1. /\ item[w] \in Keys /\ pc[w] = "sync" /\ pc'[w] = Verdict(item[w])
      /\ UNCHANGED <<configMapCache, apart>>
    BY DEF SyncHandler, MonitorTypeOK, At, Goto, clientVars
<1>2. /\ Verdict(item[w]) \in {"done", "forget", "load"}
      /\ Verdict(item[w]) # "done" => item[w] \in Watched
    BY DEF Verdict
<1>3. ASSUME Verdict(item[w]) = "load" PROVE newSha'[w].data = configMaps[item[w]].data
    <2>1. configMaps[item[w]].data \in Contents
        BY <1>1, <1>3 DEF Verdict, MonitorTypeOK, ConfigMaps
    <2>2. PICK order \in Orders :
            newSha' = [newSha EXCEPT ![w] = Hash(configMaps[item[w]].data, order)]
        BY <1>3 DEF SyncHandler
    <2>3. newSha'[w] = Hash(configMaps[item[w]].data, order)
        BY <2>2 DEF MonitorTypeOK
    <2> QED BY <2>1, <2>3, HashFacts
<1> QED BY <1>1, <1>2, <1>3

(* What the other steps inside syncHandler do to the hash on record.       *)
LEMMA RecordEffect ==
    ASSUME MonitorTypeOK, NEW w \in Workers, Handling(w), ~SyncHandler(w)
    PROVE  LET n == NameOf[item[w]] IN
           /\ item[w] \in Keys /\ n \in Names /\ UNCHANGED newSha
           /\ \A m \in Names \ {n} : configMapCache'[m] = configMapCache[m]
           /\ \/ /\ pc[w] = "forget" /\ pc'[w] = "done"
                 /\ configMapCache'[n] = NoHash
                 /\ apart' = apart \cup {c \in Concerns : c[2] = item[w]}
              \/ /\ pc[w] = "load" /\ UNCHANGED <<configMapCache, apart>>
                 /\ \/ pc'[w] = "storeFirst" /\ configMapCache[n] = NoHash
                    \/ pc'[w] = "store" /\ configMapCache[n] # NoHash
                       /\ configMapCache[n] # newSha[w]
                    \/ pc'[w] = "done" /\ configMapCache[n] # NoHash
                       /\ configMapCache[n] = newSha[w]
              \/ /\ pc[w] \in {"storeFirst", "store"}
                 /\ pc'[w] = IF pc[w] = "store" THEN "notify" ELSE "done"
                 /\ configMapCache'[n] = newSha[w]
                 /\ apart' = {c \in apart : c[2] = item[w] =>
                                pc[w] = "storeFirst" /\ held[c] # newSha[w].data}
              \/ /\ pc[w] = "notify" /\ pc'[w] = "done"
                 /\ UNCHANGED <<configMapCache, apart>>
                 /\ notify' = Append(notify, n)
<1> USE DEF MonitorTypeOK, At, Goto, localVars, clientVars
<1>0. item[w] \in Keys /\ NameOf[item[w]] \in Names
    BY HandlingFrame
<1>1. CASE Forget(w)
    BY <1>0, <1>1 DEF Forget, Record
<1>2. CASE LoadHash(w)
    BY <1>0, <1>2 DEF LoadHash
<1>3. CASE StoreHash(w)
    BY <1>0, <1>3 DEF StoreHash, Record
<1>4. CASE Notify(w)
    BY <1>0, <1>4 DEF Notify
<1> QED BY <1>1, <1>2, <1>3, <1>4 DEF Handling

(* An event changes one config map.                                        *)
LEMMA EventEffect ==
    ASSUME MonitorTypeOK, NEW k \in Keys, Event(k)
    PROVE  \A j \in Keys \ {k} : configMaps'[j] = configMaps[j]
BY EventIsChange DEF CacheChange, MonitorTypeOK

(* A worker watches the key it has.                                        *)
LEMMA WatchingNext ==
    ASSUME WorkInv, Watching, [Next]_vars
    PROVE  Watching'
<1>0. MonitorTypeOK
    BY DEF WorkInv
<1> USE DEF Watching
<1>1. CASE UNCHANGED <<pc, item>>
    BY <1>1
<1>2. ASSUME NEW k \in Keys, Event(k) PROVE UNCHANGED <<pc, item>>
    BY <1>0, <1>2, EventFrame DEF localVars
<1>3. ASSUME NEW w \in Workers, Handling(w) PROVE Watching'
    <2>1. /\ UNCHANGED item /\ item[w] \in Keys
          /\ pc[w] \in Deep \cup {"sync"}
          /\ \A v \in Workers \ {w} : pc'[v] = pc[v]
        BY <1>0, <1>3, HandlingFrame DEF Deep, UsesHash
    <2>2. CASE SyncHandler(w)
        <3>1. pc'[w] \in Deep => item[w] \in Watched
            BY <1>0, <2>2, SyncEffect DEF Deep, UsesHash
        <3> QED BY <2>1, <3>1
    <2>3. CASE ~SyncHandler(w)
        <3>1. pc[w] \in Deep /\ item[w] \in Watched
            BY <1>0, <1>3, <2>3, RecordEffect DEF Deep, UsesHash
        <3> QED BY <2>1, <3>1
    <2> QED BY <2>2, <2>3
<1>4. ASSUME NEW w \in Workers, Get(w) PROVE Watching'
    BY <1>0, <1>4 DEF Get, Goto, MonitorTypeOK, Deep, UsesHash
<1>5. ASSUME NEW w \in Workers, Exit(w) PROVE Watching'
    BY <1>0, <1>5 DEF Exit, Goto, MonitorTypeOK, localVars, Deep, UsesHash
<1>6. ASSUME NEW w \in Workers, Done(w) PROVE Watching'
    BY <1>0, <1>6 DEF Done, Goto, MonitorTypeOK, Deep, UsesHash
<1>7. ASSUME NEW k \in Keys, AddReady(k) PROVE UNCHANGED <<pc, item>>
    BY <1>7 DEF AddReady, localVars
<1>8. ShutDown => UNCHANGED <<pc, item>>
    BY DEF ShutDown, localVars
<1>9. Telling \/ Moving => UNCHANGED <<pc, item>>
    BY OutsideFrame DEF localVars
<1>10. UNCHANGED vars => UNCHANGED <<pc, item>>
    BY DEF vars, localVars
<1> QED
    BY <1>1, <1>2, <1>3, <1>4, <1>5, <1>6, <1>7, <1>8, <1>9, <1>10, NextCases

(* Only the worker that holds k writes the hash of k's name.               *)
LEMMA OwnRecord ==
    ASSUME WorkInv, Watching, NEW k \in Keys, UniqueName(k),
           NEW w \in Workers, Handling(w), item[w] # k
    PROVE  configMapCache'[NameOf[k]] = configMapCache[NameOf[k]]
<1>0. MonitorTypeOK
    BY DEF WorkInv
<1>1. CASE SyncHandler(w)
    BY <1>0, <1>1, SyncEffect
<1>2. CASE ~SyncHandler(w)
    <2>1. pc[w] \in Deep => item[w] \in Watched
        BY DEF Watching
    <2>2. pc[w] \in Deep => NameOf[item[w]] # NameOf[k]
        BY <2>1 DEF UniqueName
    <2>3. NameOf[k] \in Names
        OBVIOUS
    <2> QED BY <1>0, <1>2, <2>2, <2>3, RecordEffect DEF Deep, UsesHash
<1> QED BY <1>1, <1>2

(* At the start every config map is announced.                             *)
LEMMA RecordInit == Init => RecordInv
<1> SUFFICES ASSUME Init PROVE RecordInv
    OBVIOUS
<1>1. WorkInv
    BY WorkInit
<1>3. Watching
    BY DEF Init, Watching, Deep, UsesHash
<1>4. \A k \in Keys : Alone(k)
    BY DEF Init, Alone
<1>5. \A k \in Keys : Followed(k)
    BY DEF Init, Followed, RecordAgrees, Announced, Verdict
<1> QED BY <1>1, <1>3, <1>4, <1>5 DEF RecordInv

(* Every step keeps what the worker that has k relies on.                  *)
LEMMA AloneNext ==
    ASSUME RecordInv, NEW k \in Keys, UniqueName(k), [Next]_vars
    PROVE  Alone(k)'
<1>0. MonitorTypeOK /\ WorkInv /\ Watching /\ Alone(k) /\ NameOf[k] \in Names
    BY DEF RecordInv, WorkInv
<1>1. CASE UNCHANGED <<configMapCache, pc, item>>
    BY <1>0, <1>1 DEF Alone
<1>2. ASSUME NEW j \in Keys, Event(j) PROVE UNCHANGED <<configMapCache, pc, item>>
    BY <1>0, <1>2, EventFrame DEF localVars
<1>3. ASSUME NEW w \in Workers, Handling(w) PROVE Alone(k)'
    <2>1. UNCHANGED item /\ \A v \in Workers \ {w} : pc'[v] = pc[v]
        BY <1>0, <1>3, HandlingFrame
    <2>2. CASE item[w] # k
        BY <1>0, <1>3, <2>1, <2>2, OwnRecord DEF Alone
    <2>3. CASE item[w] = k
        <3>1. \A v \in Workers \ {w} : item[v] # k
            BY <1>0, <2>3 DEF WorkInv, Holding
        <3>2. pc'[w] = "storeFirst" => configMapCache'[NameOf[k]] = NoHash
            BY <1>0, <1>3, <2>3, SyncEffect, RecordEffect
        <3> QED BY <2>1, <3>1, <3>2 DEF Alone
    <2> QED BY <2>2, <2>3
<1>4. ASSUME NEW w \in Workers, Get(w) \/ Exit(w) \/ Done(w) PROVE Alone(k)'
    <2>1. /\ UNCHANGED configMapCache
          /\ pc'[w] # "storeFirst"
          /\ \A v \in Workers \ {w} : pc'[v] = pc[v] /\ item'[v] = item[v]
        BY <1>0, <1>4 DEF Get, Exit, Done, Goto, MonitorTypeOK, localVars
    <2> QED BY <1>0, <2>1 DEF Alone
<1>5. ASSUME NEW j \in Keys, AddReady(j) PROVE UNCHANGED <<configMapCache, pc, item>>
    BY <1>5 DEF AddReady, localVars
<1>6. ShutDown => UNCHANGED <<configMapCache, pc, item>>
    BY DEF ShutDown, localVars
<1>7. Telling \/ Moving => UNCHANGED <<configMapCache, pc, item>>
    BY OutsideFrame DEF localVars
<1>8. UNCHANGED vars => UNCHANGED <<configMapCache, pc, item>>
    BY DEF vars, localVars
<1> QED
    BY <1>1, <1>2, <1>3, <1>4, <1>5, <1>6, <1>7, <1>8, NextCases

(* Every step keeps the hash of k up to date, or k on the way.             *)
LEMMA FollowedNext ==
    ASSUME RecordInv, NEW k \in Keys, UniqueName(k), [Next]_vars,
           ~workQueue'.shuttingDown
    PROVE  Followed(k)'
<1>0. MonitorTypeOK /\ WorkInv /\ Watching /\ NameOf[k] \in Names
    BY DEF RecordInv, WorkInv
<1>a. ASSUME ~workQueue.shuttingDown PROVE Followed(k)
    BY <1>a DEF RecordInv
<1>1. CASE UNCHANGED <<configMaps, configMapCache, pc, item, newSha, waiting, workQueue>>
    BY <1>1, <1>a DEF Followed, ReadBy, RecordAgrees, Announced, Verdict
<1>2. ASSUME NEW j \in Keys, Event(j) PROVE Followed(k)'
    <2>1. UNCHANGED <<configMapCache, pc, item, newSha, workQueue>> /\ enqueueConfigMap(j)
        BY <1>0, <1>2, EventFrame DEF localVars
    <2>2. CASE j = k
        BY <2>1, <2>2 DEF enqueueConfigMap, Followed, Announced
    <2>3. CASE j # k
        <3>1. configMaps'[k] = configMaps[k] /\ waiting \subseteq waiting'
            BY <1>0, <1>2, <2>1, <2>3, EventEffect DEF enqueueConfigMap
        <3> QED BY <1>a, <2>1, <3>1 DEF Followed, ReadBy, RecordAgrees, Announced, Verdict
    <2> QED BY <2>2, <2>3
<1>3. ASSUME NEW j \in Keys, AddReady(j) PROVE Followed(k)'
    <2>1. UNCHANGED <<configMaps, configMapCache, pc, item, newSha>>
        BY <1>3 DEF AddReady, localVars
    <2>2. ~workQueue.shuttingDown /\ Announced' = Announced
        BY <1>0, <1>3, AddReadyEffect DEF Announced
    <2> QED BY <1>a, <2>1, <2>2 DEF Followed, ReadBy, RecordAgrees, Verdict
<1>4. ~ShutDown
    BY <1>0, ShutDownEffect
<1>5. ASSUME NEW w \in Workers, Get(w) PROVE Followed(k)'
    <2>1. PICK j \in Keys :
                /\ item[w] = NoKey /\ item' = [item EXCEPT ![w] = j]
                /\ pc' = [pc EXCEPT ![w] = "sync"]
                /\ workQueue'.dirty = workQueue.dirty \ {j}
                /\ workQueue'.shuttingDown = workQueue.shuttingDown
                /\ UNCHANGED waiting
        BY <1>0, <1>5, GetEffect
    <2>2. UNCHANGED <<configMaps, configMapCache, newSha>>
        BY <1>5 DEF Get, clusterVars
    <2>3. item'[w] = j /\ pc'[w] = "sync"
        BY <1>0, <2>1 DEF MonitorTypeOK
    <2>4. \A v \in Workers \ {w} : item'[v] = item[v] /\ pc'[v] = pc[v]
        BY <2>1
    <2>5. CASE j = k
        BY <2>3, <2>5 DEF Followed, ReadBy
    <2>6. CASE j # k
        BY <1>a, <2>1, <2>2, <2>3, <2>4, <2>6
        DEF Followed, ReadBy, RecordAgrees, Announced, Verdict
    <2> QED BY <2>5, <2>6
<1>6. ASSUME NEW w \in Workers, Exit(w) PROVE Followed(k)'
    <2>1. /\ UNCHANGED <<configMaps, configMapCache, item, newSha, waiting, workQueue>>
          /\ item[w] = NoKey
          /\ \A v \in Workers \ {w} : pc'[v] = pc[v]
        BY <1>0, <1>6 DEF Exit, At, Goto, MonitorTypeOK, clusterVars, localVars
    <2> QED BY <1>a, <2>1 DEF Followed, ReadBy, RecordAgrees, Announced, Verdict
<1>7. ASSUME NEW w \in Workers, Done(w) PROVE Followed(k)'
    <2>1. /\ UNCHANGED <<configMaps, configMapCache>>
          /\ item[w] # NoKey /\ item'[w] = NoKey /\ pc[w] = "done"
          /\ \A v \in Workers \ {w} :
                item'[v] = item[v] /\ pc'[v] = pc[v] /\ newSha'[v] = newSha[v]
        BY <1>0, <1>7 DEF Done, At, Goto, MonitorTypeOK, clusterVars
    <2>2. Announced' = Announced /\ ~workQueue.shuttingDown
        BY <1>0, <1>7, DoneEffect DEF Announced
    <2> QED
        BY <1>a, <2>1, <2>2 DEF Followed, ReadBy, RecordAgrees, Verdict, UsesHash
<1>8. ASSUME NEW w \in Workers, Handling(w) PROVE Followed(k)'
    <2>1. /\ UNCHANGED <<configMaps, item, waiting, workQueue>>
          /\ \A v \in Workers \ {w} : pc'[v] = pc[v] /\ newSha'[v] = newSha[v]
        BY <1>0, <1>8, HandlingFrame DEF clusterVars
    <2>2. CASE item[w] # k
        <3>1. configMapCache'[NameOf[k]] = configMapCache[NameOf[k]]
            BY <1>0, <1>8, <2>2, OwnRecord
        <3> QED BY <1>a, <2>1, <2>2, <3>1
            DEF Followed, ReadBy, RecordAgrees, Announced, Verdict
    <2>3. CASE item[w] = k /\ k \in Announced
        BY <2>1, <2>3 DEF Followed, Announced
    <2>4. CASE item[w] = k /\ k \notin Announced
        <3>1. \A v \in Workers \ {w} : item[v] # k
            BY <1>0, <2>4 DEF WorkInv, Holding
        <3>2. Verdict(k)' = Verdict(k)
            BY <2>1 DEF Verdict
        <3>3. ReadBy(w, k) \/ (RecordAgrees(k) /\ pc[w] \in {"notify", "done"})
            BY <1>a, <2>1, <2>4, <3>1 DEF Followed
        <3>4. CASE SyncHandler(w)
            <4>1. ReadBy(w, k)' \/ (RecordAgrees(k)' /\ pc'[w] = "done")
                BY <1>0, <2>1, <2>4, <3>2, <3>4, SyncEffect DEF ReadBy, RecordAgrees, UsesHash
            <4> QED BY <2>1, <2>4, <3>1, <4>1 DEF Followed
        <3>5. CASE ~SyncHandler(w)
            <4>1. pc[w] = "notify" => RecordAgrees(k)
                BY <3>3 DEF ReadBy, UsesHash
            <4>2. ReadBy(w, k)' \/ (RecordAgrees(k)' /\ pc'[w] \in {"notify", "done"})
                <5>1. CASE pc[w] = "notify"
                    BY <1>0, <1>8, <2>1, <2>4, <3>2, <3>5, <4>1, <5>1, RecordEffect
                    DEF RecordAgrees
                <5>2. CASE pc[w] = "forget"
                    BY <1>0, <1>8, <2>1, <2>4, <3>2, <3>3, <3>5, <5>2, RecordEffect
                    DEF ReadBy, RecordAgrees, UsesHash
                <5>3. CASE pc[w] \in UsesHash
                    <6>1. /\ Verdict(k) = "load" /\ newSha[w].data = configMaps[k].data
                          /\ newSha[w] # NoHash
                        BY <1>0, <3>3, <5>3 DEF ReadBy, UsesHash, MonitorTypeOK
                    <6> QED
                        BY <1>0, <1>8, <2>1, <2>4, <3>2, <3>5, <5>3, <6>1, RecordEffect
                        DEF ReadBy, RecordAgrees, UsesHash
                <5> QED BY <1>0, <1>8, <3>5, <5>1, <5>2, <5>3, RecordEffect DEF UsesHash
            <4> QED BY <2>1, <2>4, <3>1, <4>2 DEF Followed
        <3> QED BY <3>4, <3>5
    <2> QED BY <2>2, <2>3, <2>4
<1>9. Telling \/ Moving \/ UNCHANGED vars =>
        UNCHANGED <<configMaps, configMapCache, pc, item, newSha, waiting, workQueue>>
    BY OutsideFrame DEF vars, clusterVars, localVars
<1> QED
    BY <1>1, <1>2, <1>3, <1>4, <1>5, <1>6, <1>7, <1>8, <1>9, NextCases

(* A queue that was shut down stays so.                                    *)
LEMMA StaysShut ==
    ASSUME WorkInv, [Next]_vars, workQueue.shuttingDown
    PROVE  workQueue'.shuttingDown
<1>0. MonitorTypeOK
    BY DEF WorkInv
<1>1. Telling \/ Moving \/ UNCHANGED vars => UNCHANGED workQueue
    BY OutsideFrame DEF vars
<1>2. ASSUME NEW w \in Workers, Exit(w) PROVE UNCHANGED workQueue
    BY <1>2 DEF Exit
<1> QED
    BY <1>0, <1>1, <1>2, EventFrame, AddReadyEffect, ShutDownEffect, GetEffect,
       HandlingFrame, DoneEffect, NextCases

(* The record follows the config maps in every state.                      *)
LEMMA RecordNext == RecordInv /\ [Next]_vars => RecordInv'
<1> SUFFICES ASSUME RecordInv, [Next]_vars PROVE RecordInv'
    OBVIOUS
<1>1. WorkInv'
    BY WorkNext DEF RecordInv
<1>2. Watching'
    BY WatchingNext DEF RecordInv
<1>3. \A k \in Keys : UniqueName(k) => Alone(k)'
    BY AloneNext
<1>4. ~workQueue'.shuttingDown => \A k \in Keys : UniqueName(k) => Followed(k)'
    BY FollowedNext
<1>5. \A k \in Keys : UniqueName(k)' <=> UniqueName(k)
    BY DEF UniqueName
<1> QED BY <1>1, <1>2, <1>3, <1>4, <1>5 DEF RecordInv

THEOREM RecordInvariant == Spec => []RecordInv
<1>1. Init => RecordInv
    BY RecordInit
<1>2. RecordInv /\ [Next]_vars => RecordInv'
    BY RecordNext
<1> QED BY <1>1, <1>2, PTL DEF Spec

(* No event that comes while a worker is between its read and Done is lost *)
(* to the hash on record.                                                  *)
THEOREM RecordCorrect == Spec => []RecordFollowsMap
<1>1. RecordInv => RecordFollowsMap
    <2> SUFFICES ASSUME RecordInv, ~workQueue.shuttingDown, NEW k \in Keys,
                        UniqueName(k), k \notin Announced \cup workQueue.processing
                 PROVE  RecordAgrees(k)
        BY DEF RecordFollowsMap
    <2>1. \A w \in Workers : item[w] # k
        BY DEF RecordInv, WorkInv, Holding
    <2> QED BY <2>1 DEF RecordInv, Followed
<1> QED BY <1>1, RecordInvariant, PTL

-----------------------------------------------------------------------------
(* The notices that are owed.                                              *)

(* A notice for i is past the workers.                                     *)
Underway(i, n) ==
    \/ n \in Range(notify) \cup {taken}
    \/ \E r \in Refreshers : i \in refreshers[r].rest \cup {refreshers[r].calling}
    \/ i \in told

(* What a registered instance holds is on record, unless it is in apart;   *)
(* where it has been replaced there, a notice is past the workers, or the  *)
(* worker that replaced it is about to put the name in the channel.        *)
Noticed(c) ==
    LET n == NameOf[c[2]]
        sha == configMapCache[n]
    IN  c[1] \in registered /\ c \notin apart =>
            /\ sha # NoHash
            /\ \/ held[c] = sha.data
               \/ Underway(c[1], n)
               \/ \E w \in Workers : item[w] = c[2] /\ pc[w] = "notify"

OwedInv == RecordInv /\ \A c \in Concerns : UniqueName(c[2]) => Noticed(c)

(* The server knows of nothing that instances hold at the start.           *)
LEMMA OwedInit == Init => OwedInv
BY RecordInit DEF Init, OwedInv, Noticed

(* What a concern is about.                                                *)
LEMMA ConcernFacts ==
    ASSUME NEW c \in Concerns
    PROVE  /\ c[1] \in Instances /\ c[2] \in Keys /\ NameOf[c[2]] \in Names
           /\ c[1] \in InstancesOf(NameOf[c[2]])
BY DEF Concerns

(* The names in the channel after a send, and before a receive.            *)
LEMMA RangeOfAppend ==
    ASSUME NEW S, NEW s \in Seq(S), NEW e \in S
    PROVE  Range(s) \subseteq Range(Append(s, e)) /\ e \in Range(Append(s, e))
<1> DEFINE t == Append(s, e)
<1>1. /\ Len(t) = Len(s) + 1 /\ DOMAIN t = 1 .. Len(t) /\ DOMAIN s = 1 .. Len(s)
      /\ t[Len(t)] = e /\ \A x \in 1 .. Len(s) : t[x] = s[x]
      /\ Len(s) \in Nat
    OBVIOUS
<1> HIDE DEF t
<1>2. Range(s) \subseteq Range(t) /\ e \in Range(t)
    BY <1>1 DEF Range
<1> QED BY <1>2 DEF t

LEMMA RangeOfTail ==
    ASSUME NEW S, NEW s \in Seq(S), s # <<>>
    PROVE  Range(s) = Range(Tail(s)) \cup {Head(s)}
<1> DEFINE t == Tail(s)
           h == Head(s)
<1>1. /\ Len(s) = Len(t) + 1 /\ DOMAIN t = 1 .. Len(t) /\ DOMAIN s = 1 .. Len(s)
      /\ s[1] = h /\ \A x \in 1 .. Len(t) : t[x] = s[x + 1]
      /\ Len(t) \in Nat
    OBVIOUS
<1> HIDE DEF t, h
<1>2. \A x \in DOMAIN s : x = 1 \/ (x - 1 \in DOMAIN t /\ t[x - 1] = s[x])
    BY <1>1
<1>3. Range(s) \subseteq Range(t) \cup {h}
    BY <1>1, <1>2 DEF Range
<1>4. Range(t) \cup {h} \subseteq Range(s)
    <2>1. \A x \in DOMAIN t : x + 1 \in DOMAIN s /\ s[x + 1] = t[x]
        BY <1>1
    <2>2. 1 \in DOMAIN s
        BY <1>1
    <2> QED BY <1>1, <2>1, <2>2 DEF Range
<1> QED BY <1>3, <1>4 DEF t, h

(* A notice past the workers stays so until the instance polls, leaves or  *)
(* fails to answer.                                                        *)
Settles(i) ==
    \/ Fetch(i) \/ Leave(i)
    \/ \E r \in Refreshers : Answer(r) /\ refreshers[r].calling = i /\ i \notin told'

LEMMA UnderwayNext ==
    ASSUME MonitorTypeOK, NEW i \in Instances, NEW n \in Names,
           Underway(i, n), i \in registered \cap InstancesOf(n), Telling \/ Moving
    PROVE  Underway(i, n)' \/ Settles(i)
<1> USE DEF MonitorTypeOK, clusterVars, localVars, clientVars, notifierVars
<1>1. CASE Take
    <2>1. Range(notify) \cup {taken} = Range(notify') \cup {taken'} \cup {NoName}
        <3>1. /\ taken = NoName /\ notify \in Seq(Names) /\ notify # <<>>
              /\ taken' = Head(notify) /\ notify' = Tail(notify)
            BY <1>1 DEF Take
        <3>2. Range(notify) = Range(Tail(notify)) \cup {Head(notify)}
            BY <3>1, RangeOfTail
        <3> QED BY <3>1, <3>2
    <2>2. UNCHANGED <<refreshers, told>>
        BY <1>1 DEF Take
    <2> QED BY <2>1, <2>2 DEF Underway
<1>2. ASSUME NEW r \in Refreshers, Spawn(r) PROVE Underway(i, n)'
    <2>1. /\ refreshers[r].rest = {} /\ refreshers[r].calling = NoInstance
          /\ refreshers'[r].rest = InstancesOf(taken) \cap registered
          /\ \A s \in Refreshers \ {r} : refreshers'[s] = refreshers[s]
          /\ UNCHANGED <<notify, told>>
        BY <1>2 DEF Spawn, IdleRefresher
    <2>2. CASE n = taken
        BY <2>1, <2>2 DEF Underway
    <2>3. ASSUME NEW s \in Refreshers, i \in refreshers[s].rest \cup {refreshers[s].calling}
          PROVE  s # r
        BY <2>1, <2>3
    <2> HIDE DEF MonitorTypeOK
    <2> QED BY <2>1, <2>2, <2>3 DEF Underway
<1>3. ASSUME NEW r \in Refreshers, Call(r) PROVE Underway(i, n)'
    <2>1. /\ UNCHANGED <<notify, taken, told>>
          /\ refreshers[r].calling = NoInstance
          /\ \A s \in Refreshers \ {r} : refreshers'[s] = refreshers[s]
          /\ \A x \in refreshers[r].rest :
                x \in refreshers'[r].rest \cup {refreshers'[r].calling}
        BY <1>3 DEF Call
    <2> QED BY <2>1 DEF Underway
<1>4. ASSUME NEW r \in Refreshers, Answer(r) PROVE Underway(i, n)' \/ Settles(i)
    <2>1. /\ UNCHANGED <<notify, taken>>
          /\ refreshers'[r].rest = refreshers[r].rest
          /\ \A s \in Refreshers \ {r} : refreshers'[s] = refreshers[s]
          /\ \/ told' = told \cup {refreshers[r].calling}
             \/ UNCHANGED told
        BY <1>4 DEF Answer
    <2>2. CASE i = refreshers[r].calling
        BY <1>4, <2>1, <2>2 DEF Underway, Settles
    <2>3. CASE i # refreshers[r].calling
        <3>1. told \subseteq told'
            BY <2>1
        <3>2. \A s \in Refreshers : i \in refreshers[s].rest \cup {refreshers[s].calling} =>
                i \in refreshers'[s].rest \cup {refreshers'[s].calling}
            BY <2>1, <2>3
        <3> HIDE DEF MonitorTypeOK
        <3> QED BY <2>1, <3>1, <3>2 DEF Underway
    <2> QED BY <2>2, <2>3
<1>5. ASSUME NEW j \in Instances, Fetch(j) PROVE Underway(i, n)' \/ Settles(i)
    BY <1>5 DEF Fetch, Underway, Settles
<1>6. ASSUME NEW j \in Instances, Register(j) PROVE Underway(i, n)'
    BY <1>6 DEF Register, Underway
<1>7. ASSUME NEW j \in Instances, Leave(j) PROVE Underway(i, n)' \/ Settles(i)
    BY <1>7 DEF Leave, Underway, Settles
<1> QED BY <1>1, <1>2, <1>3, <1>4, <1>5, <1>6, <1>7 DEF Telling, Moving

(* An instance that polls, comes, leaves or fails to answer holds what is  *)
(* on record, or is in apart, or is not registered.                        *)
LEMMA SettledNext ==
    ASSUME MonitorTypeOK, NEW c \in Concerns, Telling \/ Moving
    PROVE  /\ Settles(c[1]) => Noticed(c)'
           /\ \A i \in Instances : Register(i) /\ c[1] = i => Noticed(c)'
<1>0. UNCHANGED configMapCache
    BY OutsideFrame
<1>1. ASSUME Fetch(c[1]) PROVE Noticed(c)'
    <2>1. held'[c] = Content(c[2]) /\ (c \in apart' <=> ~OnRecord(c[2], Content(c[2])))
        BY <1>1 DEF Fetch
    <2> QED BY <1>0, <2>1 DEF Noticed, OnRecord
<1>2. ASSUME Leave(c[1]) PROVE Noticed(c)'
    BY <1>2 DEF Leave, Noticed
<1>3. ASSUME NEW r \in Refreshers, Answer(r), refreshers[r].calling = c[1], c[1] \notin told'
      PROVE  Noticed(c)'
    <2>1. UNCHANGED held /\ (c \notin apart' => OnRecord(c[2], held[c]))
        BY <1>3 DEF Answer
    <2> QED BY <1>0, <2>1 DEF Noticed, OnRecord
<1>4. ASSUME NEW i \in Instances, Register(i), c[1] = i PROVE Noticed(c)'
    <2>1. UNCHANGED held /\ (c \in apart' <=> ~OnRecord(c[2], held[c]))
        BY <1>4 DEF Register
    <2> QED BY <1>0, <2>1 DEF Noticed, OnRecord
<1> QED BY <1>1, <1>2, <1>3, <1>4 DEF Settles

(* The other steps of the notifier, the refreshers and the clients leave   *)
(* what an instance holds alone.                                           *)
LEMMA OutsideFate ==
    ASSUME NEW c \in Concerns, held \in [Concerns -> Contents \cup {Absent}],
           Telling \/ Moving, ~Settles(c[1]),
           ~\E i \in Instances : Register(i) /\ c[1] = i
    PROVE  /\ held'[c] = held[c]
           /\ c \notin apart' => c \notin apart
           /\ c[1] \in registered' => c[1] \in registered
<1>1. ASSUME Take \/ \E r \in Refreshers : Spawn(r) \/ Call(r) PROVE UNCHANGED clientVars
    BY <1>1 DEF Take, Spawn, Call
<1>2. ASSUME NEW r \in Refreshers, Answer(r) PROVE UNCHANGED <<held, registered>> /\ apart \subseteq apart'
    BY <1>2 DEF Answer
<1>3. ASSUME NEW i \in Instances, Fetch(i)
      PROVE  held'[c] = held[c] /\ (c \in apart' <=> c \in apart) /\ UNCHANGED registered
    <2>1. i # c[1]
        BY <1>3 DEF Settles
    <2> QED BY <1>3, <2>1 DEF Fetch
<1>4. ASSUME NEW i \in Instances, Register(i)
      PROVE  /\ UNCHANGED held /\ (c \in apart' <=> c \in apart)
             /\ c[1] \in registered' => c[1] \in registered
    <2>1. i # c[1]
        BY <1>4
    <2> QED BY <1>4, <2>1 DEF Register
<1>5. ASSUME NEW i \in Instances, Leave(i)
      PROVE  UNCHANGED <<held, apart>> /\ registered' \subseteq registered
    BY <1>5 DEF Leave
<1> QED BY <1>1, <1>2, <1>3, <1>4, <1>5 DEF Telling, Moving, clientVars

(* Every step keeps a notice that is owed on its way.                      *)
LEMMA OwedNext ==
    ASSUME OwedInv, NEW c \in Concerns, UniqueName(c[2]), [Next]_vars
    PROVE  Noticed(c)'
<1> DEFINE k == c[2]
           n == NameOf[k]
<1>0. /\ MonitorTypeOK /\ WorkInv /\ Watching /\ Alone(k) /\ Noticed(c)
      /\ c[1] \in Instances /\ k \in Keys /\ n \in Names /\ UniqueName(k)
    BY ConcernFacts DEF OwedInv, RecordInv, WorkInv
<1>1. CASE UNCHANGED <<configMapCache, pc, item, notifierVars, clientVars>>
    BY <1>0, <1>1 DEF Noticed, Underway, notifierVars, clientVars
<1>2. ASSUME NEW j \in Keys, Event(j)
      PROVE  UNCHANGED <<configMapCache, pc, item, notifierVars, clientVars>>
    BY <1>0, <1>2, EventFrame DEF localVars
<1>3. ASSUME NEW w \in Workers, Handling(w) PROVE Noticed(c)'
    <2>1. /\ UNCHANGED <<item, taken, refreshers, registered, told, held>>
          /\ \A v \in Workers \ {w} : pc'[v] = pc[v]
        BY <1>0, <1>3, HandlingFrame
    <2>2. Range(notify) \subseteq Range(notify')
        <3>1. CASE Notify(w)
            <4>1. /\ notify \in Seq(Names) /\ NameOf[item[w]] \in Names
                  /\ notify' = Append(notify, NameOf[item[w]])
                BY <1>0, <1>3, <3>1, HandlingFrame DEF Notify, MonitorTypeOK
            <4> QED BY <4>1, RangeOfAppend
        <3> QED BY <1>0, <1>3, <3>1, HandlingFrame
    <2>3. Underway(c[1], n) => Underway(c[1], n)'
        BY <2>1, <2>2 DEF Underway
    <2>4. CASE SyncHandler(w)
        <3>1. UNCHANGED <<configMapCache, apart>> /\ pc[w] = "sync"
            BY <1>0, <2>4, SyncEffect
        <3> QED BY <1>0, <2>1, <2>3, <3>1 DEF Noticed
    <2>5. CASE item[w] # k /\ ~SyncHandler(w)
        <3>1. configMapCache'[n] = configMapCache[n]
            BY <1>0, <1>3, <2>5, OwnRecord
        <3>2. c \in apart' <=> c \in apart
            BY <1>0, <1>3, <2>5, RecordEffect
        <3> QED BY <1>0, <2>1, <2>3, <2>5, <3>1, <3>2 DEF Noticed
    <2>6. CASE item[w] = k /\ ~SyncHandler(w)
        <3> SUFFICES ASSUME c[1] \in registered, c \notin apart' PROVE Noticed(c)'
            BY <2>1 DEF Noticed
        <3>1. \A v \in Workers \ {w} : item[v] # k
            BY <1>0, <2>6 DEF WorkInv, Holding
        <3>2. CASE pc[w] = "forget"
            BY <1>0, <1>3, <2>6, <3>2, RecordEffect
        <3>3. CASE pc[w] = "load"
            <4>1. UNCHANGED <<configMapCache, apart>>
                BY <1>0, <1>3, <2>6, <3>3, RecordEffect
            <4> QED BY <1>0, <2>1, <2>3, <3>1, <3>3, <4>1 DEF Noticed
        <3>4. CASE pc[w] = "storeFirst"
            <4>1. configMapCache[n] = NoHash
                BY <1>0, <2>6, <3>4 DEF Alone
            <4>2. c \in apart
                BY <1>0, <4>1 DEF Noticed
            <4>3. held[c] = newSha[w].data /\ configMapCache'[n] = newSha[w]
                BY <1>0, <1>3, <2>6, <3>4, <4>2, RecordEffect
            <4>4. newSha[w] # NoHash
                BY <1>0, <3>4 DEF MonitorTypeOK, UsesHash
            <4> QED BY <2>1, <4>3, <4>4 DEF Noticed
        <3>5. CASE pc[w] = "store"
            <4>1. pc'[w] = "notify" /\ configMapCache'[n] = newSha[w]
                BY <1>0, <1>3, <2>6, <3>5, RecordEffect
            <4>2. newSha[w] # NoHash
                BY <1>0, <3>5 DEF MonitorTypeOK, UsesHash
            <4> QED BY <2>1, <2>6, <4>1, <4>2 DEF Noticed
        <3>6. CASE pc[w] = "notify"
            <4>1. UNCHANGED <<configMapCache, apart>> /\ notify' = Append(notify, n)
                BY <1>0, <1>3, <2>6, <3>6, RecordEffect
            <4>2. n \in Range(notify')
                BY <1>0, <4>1, RangeOfAppend DEF MonitorTypeOK
            <4>3. configMapCache[n] # NoHash
                BY <1>0, <4>1 DEF Noticed
            <4> QED BY <4>1, <4>2, <4>3 DEF Noticed, Underway
        <3> QED BY <1>0, <1>3, <2>6, <3>2, <3>3, <3>4, <3>5, <3>6, RecordEffect
    <2> QED BY <2>4, <2>5, <2>6
<1>4. ASSUME NEW w \in Workers, Get(w) \/ Exit(w) \/ Done(w) PROVE Noticed(c)'
    <2>1. /\ UNCHANGED <<configMapCache, notifierVars, clientVars>>
          /\ pc[w] # "notify"
          /\ \A v \in Workers \ {w} : pc'[v] = pc[v] /\ item'[v] = item[v]
        BY <1>0, <1>4 DEF Get, Exit, Done, At, Goto, MonitorTypeOK, localVars
    <2>2. (\E v \in Workers : item[v] = k /\ pc[v] = "notify") =>
            \E v \in Workers : item'[v] = k /\ pc'[v] = "notify"
        BY <2>1
    <2> QED BY <1>0, <2>1, <2>2 DEF Noticed, Underway, notifierVars, clientVars
<1>5. ASSUME Telling \/ Moving PROVE Noticed(c)'
    <2>1. UNCHANGED <<pc, item, configMapCache>>
        BY <1>5, OutsideFrame DEF localVars
    <2>2. Settles(c[1]) => Noticed(c)'
        BY <1>0, <1>5, SettledNext
    <2>3. (\E i \in Instances : Register(i) /\ c[1] = i) => Noticed(c)'
        BY <1>0, <1>5, SettledNext
    <2>4. ASSUME ~Settles(c[1]), ~\E i \in Instances : Register(i) /\ c[1] = i
          PROVE  /\ held'[c] = held[c]
                 /\ c \notin apart' => c \notin apart
                 /\ c[1] \in registered' => c[1] \in registered
        BY <1>0, <1>5, <2>4, OutsideFate DEF MonitorTypeOK
    <2>5. c[1] \in registered /\ Underway(c[1], n) => Underway(c[1], n)' \/ Settles(c[1])
        BY <1>0, <1>5, ConcernFacts, UnderwayNext
    <2> QED BY <1>0, <2>1, <2>2, <2>3, <2>4, <2>5 DEF Noticed
<1>6. ASSUME NEW j \in Keys, AddReady(j)
      PROVE  UNCHANGED <<configMapCache, pc, item, notifierVars, clientVars>>
    BY <1>6 DEF AddReady, localVars
<1>7. ShutDown \/ UNCHANGED vars =>
        UNCHANGED <<configMapCache, pc, item, notifierVars, clientVars>>
    BY DEF ShutDown, vars, localVars
<1> QED
    BY <1>1, <1>2, <1>3, <1>4, <1>5, <1>6, <1>7, NextCases

(* What is owed is on the way in every state.                              *)
LEMMA OwedInvNext == OwedInv /\ [Next]_vars => OwedInv'
<1> SUFFICES ASSUME OwedInv, [Next]_vars PROVE OwedInv'
    OBVIOUS
<1>1. RecordInv'
    BY RecordNext DEF OwedInv
<1>2. \A c \in Concerns : UniqueName(c[2]) => Noticed(c)'
    BY OwedNext
<1>3. \A k : UniqueName(k)' <=> UniqueName(k)
    BY DEF UniqueName
<1> QED BY <1>1, <1>2, <1>3 DEF OwedInv

(* While the server runs, whatever changes, comes back, comes and goes, an *)
(* instance that is owed a notice has one under way.                       *)
THEOREM OwedCorrect == Spec => []OwedIsOnTheWay
<1>1. Init => OwedInv
    BY OwedInit
<1>2. OwedInv /\ [Next]_vars => OwedInv'
    BY OwedInvNext
<1>3. OwedInv => OwedIsOnTheWay
    <2> SUFFICES ASSUME OwedInv, ~workQueue.shuttingDown, NEW c \in Concerns,
                        UniqueName(c[2]), Owed(c)
                 PROVE  OnTheWay(c[1], NameOf[c[2]])
        BY DEF OwedIsOnTheWay
    <2> DEFINE k == c[2]
               n == NameOf[k]
    <2>1. Noticed(c) /\ k \in Keys /\ Followed(k) /\ k \in Watched
        BY ConcernFacts DEF OwedInv, RecordInv, UniqueName
    <2>2. CASE Underway(c[1], n)
        BY <2>2 DEF Underway, OnTheWay
    <2>3. CASE \E w \in Workers : item[w] = k /\ pc[w] = "notify"
        BY <2>1, <2>3 DEF OnTheWay, InHand
    <2>4. CASE held[c] = configMapCache[n].data
        <3>1. ~RecordAgrees(k)
            BY <2>1, <2>4 DEF Owed, RecordAgrees, Verdict
        <3>2. k \in Announced \/ \E w \in Workers : item[w] = k /\ pc[w] # "done"
            BY <2>1, <3>1 DEF Followed, ReadBy, UsesHash
        <3> QED BY <2>1, <3>2 DEF OnTheWay, InHand
    <2> QED BY <2>1, <2>2, <2>3, <2>4 DEF Owed, Noticed
<1> QED BY <1>1, <1>2, <1>3, PTL DEF Spec

=============================================================================
