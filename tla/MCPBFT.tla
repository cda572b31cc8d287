------------------------------- MODULE MCPBFT -------------------------------
(***************************************************************************)
(* Instances of PBFT.tla for TLC: four replicas, a choice of the Byzantine *)
(* ones, bounds on views and on failures.                                  *)
(***************************************************************************)
EXTENDS PBFTProperties

CONSTANTS eps, nul   \* model values for the digests of null requests

NoReplica == {}
Replica0 == {0}
Replica1 == {1}
Replica3 == {3}

NoFailures == {}
NormalCaseFailures == {<<"PrePrepare", 1>>, <<"Prepare", 1>>, <<"Commit", 1>>, <<"Block", 0>>}
ViewChangeFailures == {<<"ViewChange", 0>>}
NewViewFailures == {<<"NewView", 0>>}

-----------------------------------------------------------------------------
(* Specifications for the liveness runs. *)

\* The cluster as it would be if main took the lock of the replica at which it
\* injects a request.
LockedNext == Next /\ (main.call # Outside => main' # main)

LockedSpec == Init /\ [][LockedNext]_vars /\ Fairness

\* Steps that deliver no spent message: such a delivery changes nothing that a
\* handler reads.
EffectiveNext == Next /\ \A e \in net \ net' : ~Spent(e)

\* The cluster goes on while anything of effect can happen.
EffectiveSpec == Init /\ [][EffectiveNext]_vars /\ WF_vars(EffectiveNext)

-----------------------------------------------------------------------------
(* Schedules.  Each keeps a part of the interleavings. *)

\* Main has injected the request everywhere before anything else happens.
MainFirst == main.next < N => main' # main

\* Main has injected the request everywhere before the first timer expires.
MainBeforeTimers ==
    main.next < N =>
       /\ \A i \in Replica : ~TimerExpires(i)
       /\ \A i \in Correct : replica'[i].view = replica[i].view

\* Then come the timers of Byzantine replicas: nothing else can happen to these
\* replicas, and what they send can be delivered as late as one likes.
ByzantineFirst ==
    LET waiting == {i \in Byzantine : \/ /\ replica[i].requestTimer.running
                                         /\ replica[i].requestTimer.target <= MaxView
                                      \/ \E v \in replica[i].callbacks : v <= MaxView}
    IN main.next = N /\ waiting # {} => \E i \in waiting : replica'[i] # replica[i]

\* A broadcast that fails reaches all or nobody.  To a safety property a message
\* that is lost is one that is never delivered.
LostIsLate ==
    failures' # failures =>
       \A e \in {x \in net' : x.failure = failures'}, j \in Correct :
          j = e.from \/ [e EXCEPT !.to = j] \in net'

\* Sequence numbers from 2 on, which no replica executes, stay pre-prepared.
FirstSlot ==
    \A e \in net \ net' : e.msg.type \in {"Prepare", "Commit"} => e.msg.seq = 1

-----------------------------------------------------------------------------
(* Views of the state for safety runs.  Two states with the same view      *)
(* differ in what no handler will read again.                              *)

\* Replica r still reads a view change message for view v.
ReadsViewChange(r, v) ==
    v > r.view \/ (v = r.view /\ ~r.activeView /\ Primary(v) = r.id)

\* Only the primary of its view reads more of a view change than its sender.
\* What the replica has reported itself is read by ExecutedIsCertified.
ReadReceipt(r, x) ==
    [from |-> x.from, view |-> x.msg.view,
     prepares |-> IF ReadsViewChange(r, x.msg.view) /\ Primary(x.msg.view) = r.id
               THEN x.msg.prepares ELSE {},
     reported |-> IF x.from = r.id
                    THEN {<<p.view, p.seq, p.digest>> : p \in x.msg.prepares} ELSE {}]

LiveReplica(r) ==
    [r EXCEPT !.viewChanges =
       {ReadReceipt(r, x) :
          x \in {y \in @ : ReadsViewChange(r, y.msg.view) \/ y.from = r.id}}]

LiveView ==
    <<[i \in Replica |-> LiveReplica(replica[i])],
      {e \in net : ~Spent(e)}, main, failures>>

\* In the last view, which no replica leaves: once a slot has its quorum of
\* Prepares and our Commit, and then once it is executed, which receipts those
\* are and what else arrives for the slot makes no difference.
LastView(r) == r.view = MaxView

SentSlots(r) == {x.msg.seq : x \in {y \in r.commits : LastView(r) /\ y.msg.view = r.view /\ y.from = r.id}}

DoneSlots(r) ==
    {m.seq : m \in {p \in r.preprepares : /\ p.seq \in SentSlots(r)
                                          /\ p.digest \notin r.pending
                                          /\ Committed(r, p.view, p.seq, p.digest)}}

QuorumView ==
    LET sent == [i \in Replica |-> SentSlots(replica[i])]
        done == [i \in Replica |-> DoneSlots(replica[i])]
        counts(r) == [LiveReplica(r) EXCEPT
                        !.prepares = {x \in @ : x.msg.seq \notin sent[r.id]},
                        !.commits = {x \in @ : x.msg.seq \notin done[r.id]}]
    IN <<[i \in Replica |-> counts(replica[i])], sent, done,
         {e \in net : /\ ~Spent(e)
                      /\ e.msg.type = "Prepare" => e.msg.seq \notin sent[e.to]
                      /\ e.msg.type = "Commit" => e.msg.seq \notin done[e.to]},
         main, failures>>
=============================================================================
