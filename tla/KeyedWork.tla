------------------------------ MODULE KeyedWork ------------------------------
(***************************************************************************)
(* What a Kubernetes monitor promises of the keys announced to it, with no *)
(* word of queues or delays: a key announced while the monitor is open is  *)
(* given to a worker that starts on it after the announcement, and no two  *)
(* workers are on the same key.  After it closes, announcements may be     *)
(* ignored and those not yet in the queue dropped.                         *)
(***************************************************************************)
CONSTANTS Keys, Workers, NoKey

VARIABLES
    announced,  \* keys that changed since a worker last started on them
    current,    \* the key each worker is on, or NoKey
    closed

vars == <<announced, current, closed>>

(* What is there when the monitor starts is announced, if anything is.     *)
Init ==
    /\ announced \subseteq Keys
    /\ current = [w \in Workers |-> NoKey]
    /\ closed = FALSE

Announce(k) ==
    /\ ~closed
    /\ announced' = announced \cup {k}
    /\ UNCHANGED <<current, closed>>

(* A key announced again before its worker starts may be kept, to be given *)
(* out once more.                                                          *)
Start(w, k) ==
    /\ current[w] = NoKey
    /\ k \in announced
    /\ \A v \in Workers : current[v] # k
    /\ announced' \in {announced, announced \ {k}}
    /\ current' = [current EXCEPT ![w] = k]
    /\ UNCHANGED closed

Finish(w) ==
    /\ current[w] # NoKey
    /\ current' = [current EXCEPT ![w] = NoKey]
    /\ UNCHANGED <<announced, closed>>

Close ==
    /\ closed' = TRUE
    /\ UNCHANGED <<announced, current>>

Drop(k) ==
    /\ closed
    /\ announced' = announced \ {k}
    /\ UNCHANGED <<current, closed>>

Next ==
    \/ \E k \in Keys :
        \/ Announce(k)
        \/ Drop(k)
        \/ \E w \in Workers : Start(w, k)
    \/ \E w \in Workers : Finish(w)
    \/ Close

Spec == Init /\ [][Next]_vars

=============================================================================
