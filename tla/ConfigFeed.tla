----------------------------- MODULE ConfigFeed -----------------------------
(***************************************************************************)
(* What the config map monitor promises of the notices it gives out, with  *)
(* no word of queues, workers or hashes: the names of config maps come out *)
(* one at a time, in the order they were put in, from a channel that never *)
(* holds more than it can, and for each config map there are no more       *)
(* notices than it had changes: only a change makes one more due.          *)
(***************************************************************************)
EXTENDS Naturals, Sequences

CONSTANTS Keys, Values, NameOf, Capacity

VARIABLES
    maps,   \* the config maps
    due,    \* the changes of each that can still cause a notice
    feed    \* the notices given and not yet taken

(* What is there at the start counts as changed once.                      *)
Init ==
    /\ maps \in [Keys -> Values]
    /\ due \in [Keys -> 0 .. 1]
    /\ feed = <<>>

(* A change; it may come to the same as one before it.                     *)
Change(k) ==
    /\ \E v \in Values \ {maps[k]} : maps' = [maps EXCEPT ![k] = v]
    /\ due' \in {due, [due EXCEPT ![k] = @ + 1]}
    /\ UNCHANGED feed

Notice(k) ==
    /\ due[k] > 0
    /\ Len(feed) < Capacity
    /\ due' = [due EXCEPT ![k] = @ - 1]
    /\ feed' = Append(feed, NameOf[k])
    /\ UNCHANGED maps

(* A change that is not worth a notice.                                    *)
Lapse(k) ==
    /\ due[k] > 0
    /\ due' = [due EXCEPT ![k] = @ - 1]
    /\ UNCHANGED <<maps, feed>>

Take ==
    /\ feed # <<>>
    /\ feed' = Tail(feed)
    /\ UNCHANGED <<maps, due>>

Next ==
    \/ \E k \in Keys : Change(k) \/ Notice(k) \/ Lapse(k)
    \/ Take

Spec == Init /\ [][Next]_<<maps, due, feed>>

=============================================================================
