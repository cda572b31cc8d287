------------------------------- MODULE Views --------------------------------
(***************************************************************************)
(* What the view changes of the cluster promise, without messages, timers  *)
(* and certificates: a replica leaves its view for a later one, and enters *)
(* a view only with a quorum of replicas, none of which is in an earlier   *)
(* one.                                                                    *)
(***************************************************************************)
EXTENDS Naturals

CONSTANTS Replica,
          Byzantine,   \* the replicas started with isByzantine = true
          Quorum       \* the sets of replicas that may start a view

VARIABLES view,      \* the view that each replica is in ...
          active     \* ... and whether it takes part in it

vars == <<view, active>>

Init ==
    /\ view = [i \in Replica |-> 0]
    /\ active = [i \in Replica |-> TRUE]

\* No replica but i changes its view.
Moves(i) ==
    /\ view'[i] \in Nat
    /\ view' = [view EXCEPT ![i] = view'[i]]

\* startViewChange: on a timeout, or after f+1 others.
Leave(i) ==
    /\ Moves(i)
    /\ view'[i] > view[i]
    /\ active' = [active EXCEPT ![i] = FALSE]

\* startNewView at the primary of the new view, processNewView elsewhere.
Enter(i) ==
    /\ Moves(i)
    /\ view'[i] > view[i] \/ (view'[i] = view[i] /\ ~active[i])
    /\ active' = [active EXCEPT ![i] = TRUE]
    /\ \E Q \in Quorum : \A j \in Q : view'[j] >= view'[i]

\* A Byzantine primary counts its view up when it proposes.
CountUp(i) ==
    /\ i \in Byzantine
    /\ view' = [view EXCEPT ![i] = @ + 1]
    /\ UNCHANGED active

Next == \E i \in Replica : Leave(i) \/ Enter(i) \/ CountUp(i)

Spec == Init /\ [][Next]_vars
=============================================================================
