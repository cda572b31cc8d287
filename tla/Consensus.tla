----------------------------- MODULE Consensus ------------------------------
(***************************************************************************)
(* What the cluster promises to whoever reads the chain files: the correct *)
(* replicas write the blocks of one log, each at its own pace, and the log *)
(* holds only what has been requested.                                     *)
(***************************************************************************)
EXTENDS Naturals, Sequences

CONSTANTS Correct,   \* the replicas that run the protocol
          Request,   \* the requests that main may inject
          Null       \* what a new primary fills a gap with

VARIABLES requested, \* the requests injected so far
          ledger     \* the requests that each correct replica has executed

vars == <<requested, ledger>>

Init ==
    /\ requested = {}
    /\ ledger = [i \in Correct |-> <<>>]

Inject(d) ==
    /\ requested' = requested \cup {d}
    /\ UNCHANGED ledger

\* Replica i executes next what the others have executed there, or, where it is
\* the first to come so far, any request.
Execute(i, d) ==
    /\ d \in requested \cup {Null}
    /\ \A j \in Correct :
          Len(ledger[j]) > Len(ledger[i]) => ledger[j][Len(ledger[i]) + 1] = d
    /\ ledger' = [ledger EXCEPT ![i] = Append(@, d)]
    /\ UNCHANGED requested

Next ==
    \/ \E d \in Request : Inject(d)
    \/ \E i \in Correct, d \in Request \cup {Null} : Execute(i, d)

Spec == Init /\ [][Next]_vars
=============================================================================
