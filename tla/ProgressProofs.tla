---------------------------- MODULE ProgressProofs ---------------------------
(***************************************************************************)
(* Proofs about progress, as far as it can be said without fairness: that  *)
(* a replica is never left without what will take it on.                   *)
(*                                                                         *)
(*  - Timers.  A backup that has accepted a request and not executed it    *)
(*    has a timer for a later view, over any number of view changes.       *)
(*                                                                         *)
(*  - Quorums.  What the lock of a replica would give its main goroutine:  *)
(*    in the cluster in which main holds it over its whole call            *)
(*    (LockedSpec), the first primary acts on every quorum it holds.       *)
(*    In PBFT.tla it does not: Prepares that come between its broadcast    *)
(*    and its own store of the pre-prepare are counted and never looked at *)
(*    again.  And a backup acts on every quorum it holds, over any number  *)
(*    of view changes.                                                     *)
(*                                                                         *)
(*  - View changes.  The first view change comes to its end when a correct *)
(*    replica leads the next view: as soon as the ViewChanges of all       *)
(*    correct replicas and the NewView have been handled, every correct    *)
(*    replica is active in the new view.                                   *)
(***************************************************************************)
EXTENDS CarryProofs, WellFoundedInduction, MCPBFT

-----------------------------------------------------------------------------
(* The lock. *)

\* Until main has come back from the first primary nobody has sent it anything,
\* and from then on it keeps what handlers and timers keep.
LockInv ==
    /\ main.next = 0 /\ main.call = Outside =>
          net = {} /\ \A i \in Replica : replica[i] = NewReplica(i)
    /\ main.next = 0 => replica[0].prepares = {}
    /\ InFirstView /\ 0 \in Correct /\ failures = 0 => Acted(replica[0])

\* Without Prepares there is no quorum to act on.
LEMMA NothingToAct ==
  ASSUME NEW r, r.prepares = {}
  PROVE  Acted(r)
<1>1. PreparesOf(r, 0, 1) = {}
  BY DEF PreparesOf
<1>2. Cardinality({}) = 0 /\ PrepareQuorum > 0
  BY FS_EmptySet, ClusterAssumption
     DEF PrepareQuorum, F, CalcByzantineTolerance, MinimumReplicaCount
<1>3. ~Prepared(r, 0, 1, 0)
  <2>1. ~(Cardinality(PreparesOf(r, 0, 1)) >= PrepareQuorum)
    BY <1>1, <1>2, Quorums
  <2> QED  BY <2>1 DEF Prepared
<1> QED  BY <1>3 DEF Acted, Certified, Decided, Committed

\* While main is at the first primary, no other step is possible.
LEMMA OnlyMain ==
  ASSUME TypeOK, LockInv, main.next = 0, LockedNext
  PROVE  Main
<1>1. CASE main.call # Outside
  BY <1>1 DEF LockedNext, Next, Receive, ReceivePrePrepare, ReceivePrepare, ReceiveCommit,
              ReceiveViewChange, ReceiveNewView, Timers, TimerExpires, TimerCallback
<1>2. CASE main.call = Outside
  <2>1. net = {} /\ \A i \in Replica : replica[i] = NewReplica(i)
    BY <1>2 DEF LockInv
  <2>2. \A i \in Replica : /\ NewReplica(i).requestTimer.running = FALSE
                           /\ NewReplica(i).callbacks = {}
    BY DEF NewReplica, NoTimer
  <2>3. \A i \in Replica : replica[i].requestTimer.running = FALSE /\ replica[i].callbacks = {}
    BY <2>1, <2>2
  <2>4. ~Timers
    BY <2>3 DEF Timers, TimerExpires, TimerCallback
  <2> QED  BY <2>1, <2>4 DEF LockedNext, Next
<1> QED  BY <1>1, <1>2

\* main changes nothing but the replica it is at, and not its Prepares.
LEMMA MainMoves ==
  ASSUME TypeOK, Main
  PROVE  /\ \A j \in Replica \ {main.next} : replica'[j] = replica[j]
         /\ main.next \in Replica => replica'[main.next].prepares = replica[main.next].prepares
         /\ main'.next = main.next => main'.call # Outside
<1>1. PICK i \in Replica : \/ MainLooks(i) \/ MainTouches(i)
                           \/ MainProposes(i) \/ MainStoresPrePrepare(i)
  BY MainSteps
<1> DEFINE r == replica[i]
           Kept(q) == q \in ReplicaState /\ q.id = i /\ q.prepares = r.prepares
<1>2. Kept(r) /\ i = main.next /\ i \in Digest
  BY <1>1, MainLooking, MainTouching
     DEF TypeOK, MainProposes, MainStoresPrePrepare, MainEnters, Digest
<1>3. MainReturns => main'.next # main.next
  BY DEF MainReturns, TypeOK
<1>4. ASSUME NEW q, Kept(q), Run(q, {})
      PROVE  /\ \A j \in Replica \ {i} : replica'[j] = replica[j]
             /\ replica'[i].prepares = r.prepares
  <2>1. replica' = [replica EXCEPT ![i] = Returned(q)]
    BY <1>4 DEF Run
  <2>2. Returned(q).prepares = q.prepares
    BY <1>4 DEF Returned, ReplicaState
  <2> QED  BY <1>4, <2>1, <2>2 DEF TypeOK
<1>5. CASE MainLooks(i)
  BY <1>2, <1>5, MainLooking
<1>6. CASE MainTouches(i)
  <2>1. PICK q \in ReplicaState : Touched(r, q, i) /\ Run(q, {})
    BY <1>6, MainTouching
  <2>2. Kept(q)
    BY <1>2, <2>1, TouchedFields
  <2>3. (main'.next = main.next /\ main'.call.step \in {"timer", "note"}) \/ MainReturns
    BY <1>6, MainTouching
  <2>4. main'.call.step \in {"timer", "note"} => main'.call # Outside
    BY DEF Outside
  <2> QED  BY <1>2, <1>3, <1>4, <2>1, <2>2, <2>3, <2>4
<1>7. CASE MainProposes(i)
  <2> DEFINE known == [r EXCEPT !.requests = @ \cup {i}]
             noted == Equivocate(known)
             m == [type |-> "PrePrepare", view |-> noted.view, seq |-> noted.sequence + 1,
                   digest |-> i]
             sent(lost) == SendPrePrepares(noted, <<i>>, lost)
             broadcast == [main EXCEPT !.call = [step |-> "broadcast", msg |-> m]]
  <2>1. PICK lost : /\ Run(r, {}) \/ Run(sent(lost), {})
                    /\ MainReturns \/ main' = broadcast
    BY <1>7, Zenon DEF MainProposes
  <2>2. Kept(known)
    BY <1>2 DEF ReplicaState
  <2> HIDE DEF known
  <2>3. Kept(noted)
    <3> DEFINE n == known.view + 1
    <3>1. n \in Nat
      BY <2>2 DEF ReplicaState
    <3>2. noted = known \/ noted = [known EXCEPT !.view = n]
      BY Zenon DEF Equivocate
    <3> HIDE DEF noted, n
    <3> QED  BY <2>2, <3>1, <3>2 DEF ReplicaState
  <2> HIDE DEF noted
  <2>4. Kept(sent(lost))
    <3>1. <<i>> \in Seq(Digest)
      BY <1>2
    <3> QED  BY <2>3, <3>1, SendPrePreparesKeeps DEF Keeps
  <2> HIDE DEF sent, m
  <2>5. main' = broadcast => main'.call # Outside
    BY DEF TypeOK, Outside
  <2> QED  BY <1>2, <1>3, <1>4, <2>1, <2>4, <2>5
<1>8. CASE MainStoresPrePrepare(i)
  <2> DEFINE stored == {p \in r.preprepares : \A k \in {main.call.msg} : ~SameSlot(p, k)}
                         \cup {main.call.msg}
             q == [r EXCEPT !.preprepares = stored]
  <2>1. Run(StorePrePrepares(r, {main.call.msg}), {}) /\ MainReturns
    BY <1>8 DEF MainStoresPrePrepare
  <2>2. main.call.msg \in PrePrepare
    BY <1>8 DEF MainStoresPrePrepare, TypeOK, Calling
  <2>3. stored \in SUBSET PrePrepare
    BY <1>2, <2>2 DEF ReplicaState
  <2>4. StorePrePrepares(r, {main.call.msg}) = q
    BY DEF StorePrePrepares
  <2> HIDE DEF stored
  <2>5. Kept(q)
    BY <1>2, <2>3 DEF ReplicaState
  <2> QED  BY <1>2, <1>3, <1>4, <2>1, <2>4, <2>5
<1> QED  BY <1>1, <1>5, <1>6, <1>7, <1>8

\* Any other step leaves the first primary as active as it was.
LEMMA OthersAct ==
  ASSUME Inv, FirstInv, InFirstView, InFirstView', Next, ~Main
  PROVE  StaysActed
<1> USE DEF Inv
<1>1. ASSUME NEW e \in net, Receive(e) PROVE StaysActed
  BY <1>1, ReceiveNormalFirst, ReceiveViewChangeFirst, ReceiveNewViewFirst DEF Receive
<1>2. ASSUME NEW i \in Replica, TimerExpires(i) PROVE StaysActed
  BY <1>2, TimerExpiresFirst
<1>3. ASSUME NEW i \in Replica, NEW v \in 1 .. MaxView, TimerCallback(i, v) PROVE StaysActed
  BY <1>3, TimerCallbackFirst
<1> QED  BY <1>1, <1>2, <1>3 DEF Next, Timers

\* It holds before anything happens,
LEMMA LockInitially == Init => LockInv
<1> SUFFICES ASSUME Init PROVE LockInv
  OBVIOUS
<1>1. \A i \in Replica : replica[i] = NewReplica(i)
  BY DEF Init
<1>2. replica[0].prepares = {}
  <2>1. \A i \in Replica : NewReplica(i).prepares = {}
    BY DEF NewReplica
  <2> QED  BY <1>1, <2>1, FirstPrimary
<1> QED  BY <1>1, <1>2, NothingToAct DEF Init, LockInv

\* main never goes back to the first primary.
LEMMA MainNext ==
  ASSUME TypeOK, Main, main.next # 0
  PROVE  main'.next # 0
<1>1. main.next \in Nat /\ main = [next |-> main.next, call |-> main.call]
  BY DEF TypeOK
<1>2. MainReturns \/ \E c : main' = [main EXCEPT !.call = c]
  BY Zenon DEF Main, MainAtBackup, MainReadsTimer, MainReadsView, MainArmsTimer,
               MainNotesRequest, MainProposes, MainStoresPrePrepare
<1>3. MainReturns => main'.next # 0
  BY <1>1 DEF MainReturns
<1>4. ASSUME NEW c, main' = [main EXCEPT !.call = c] PROVE main'.next # 0
  BY <1>4 DEF TypeOK
<1> QED  BY <1>2, <1>3, <1>4

\* Failures are counted, never forgotten.
LEMMA FailuresCount ==
  ASSUME TypeOK, Next
  PROVE  failures' = 0 => failures = 0
<1>1. failures \in Nat
  BY DEF TypeOK
<1>2. ASSUME NEW q, NEW consumed, Run(q, consumed)
      PROVE  failures' \in {failures, failures + 1}
  BY <1>2 DEF Run
<1>3. failures' \in {failures, failures + 1}
  <2>1. ASSUME NEW e \in net, Receive(e) PROVE failures' \in {failures, failures + 1}
    BY <1>2, <2>1 DEF Receive, ReceivePrePrepare, ReceivePrepare, ReceiveCommit,
                      ReceiveViewChange, ReceiveNewView
  <2>2. ASSUME Timers PROVE failures' \in {failures, failures + 1}
    BY <1>2, <2>2 DEF Timers, TimerExpires, TimerCallback
  <2>3. ASSUME Main PROVE failures' \in {failures, failures + 1}
    BY <1>2, <2>3 DEF Main, MainAtBackup, MainReadsTimer, MainReadsView, MainArmsTimer,
                      MainNotesRequest, MainProposes, MainStoresPrePrepare
  <2> QED  BY <2>1, <2>2, <2>3 DEF Next
<1> QED  BY <1>1, <1>3

\* ... and every step with the lock keeps it.
LEMMA LockStep ==
  ASSUME Inv, FirstInv, LockInv, [LockedNext]_vars
  PROVE  LockInv'
<1> USE DEF Inv
<1>1. CASE UNCHANGED vars
  BY <1>1 DEF vars, LockInv, InFirstView
<1>2. CASE LockedNext /\ main.next = 0
  <2>1. Main
    BY <1>2, OnlyMain
  <2>2. replica'[0].prepares = {} /\ (main'.next = 0 => main'.call # Outside)
    BY <1>2, <2>1, MainMoves, FirstPrimary DEF LockInv
  <2> QED  BY <2>2, NothingToAct DEF LockInv
<1>3. CASE LockedNext /\ main.next # 0
  <2>1. Next /\ TypeOK' /\ ReplicasStep
    BY <1>3, NextStep DEF LockedNext
  <2>2. main'.next # 0
    <3>1. CASE Main
      BY <1>3, <3>1, MainNext
    <3>2. CASE ~Main
      BY <1>3, <2>1, <3>2 DEF Next, Receive, ReceivePrePrepare, ReceivePrepare, ReceiveCommit,
              ReceiveViewChange, ReceiveNewView, Timers, TimerExpires, TimerCallback
    <3> QED  BY <3>1, <3>2
  <2>3. InFirstView' => InFirstView
    BY <2>1 DEF TypeOK, InFirstView, ReplicasStep, ViewStep, ReplicaState, Correct
  <2>4. failures' = 0 => failures = 0
    BY <2>1, FailuresCount
  <2>5. CASE Main
    <3>1. replica'[0] = replica[0]
      BY <1>3, <2>5, MainMoves, FirstPrimary
    <3> QED  BY <2>2, <2>3, <2>4, <3>1 DEF LockInv
  <2>6. CASE ~Main
    <3>1. InFirstView' => StaysActed
      BY <2>1, <2>3, <2>6, OthersAct
    <3> QED  BY <2>2, <2>3, <2>4, <3>1 DEF LockInv, StaysActed
  <2> QED  BY <2>5, <2>6
<1> QED  BY <1>1, <1>2, <1>3

(***************************************************************************)
(* If main held the lock of the replica it injects the request at, the     *)
(* first primary would act on every quorum it holds: the pre-prepare would *)
(* be stored before the first Prepare for it can be looked at.  (A primary *)
(* whose broadcast has failed has been cut short, like any other.)         *)
(***************************************************************************)
THEOREM LockedPrimaryActs ==
  LockedSpec => [](InFirstView /\ failures = 0 => PrimaryActsOnQuorums)
<1>1. Inv /\ FirstInv /\ LockInv => (InFirstView /\ failures = 0 => PrimaryActsOnQuorums)
  <2> SUFFICES ASSUME Inv, FirstInv, LockInv, InFirstView, failures = 0,
                      NEW i \in Correct, IsPrimary(replica[i])
               PROVE  ActsOnQuorums(i)
    BY DEF PrimaryActsOnQuorums
  <2>1. replica[i].id = i /\ replica[i].view = 0
    BY DEF Inv, TypeOK, Correct, InFirstView
  <2>2. i = 0
    BY <2>1, FirstPrimary DEF IsPrimary
  <2> QED  BY <2>2, ActedActs DEF LockInv
<1>2. Init => Inv /\ FirstInv /\ LockInv
  BY Initially, FirstInitially, LockInitially
<1>3. [LockedNext]_vars => [Next]_vars
  BY DEF LockedNext
<1>4. Inv /\ FirstInv /\ LockInv /\ [LockedNext]_vars => (Inv /\ FirstInv /\ LockInv)'
  BY <1>3, InvStep, FirstStep, LockStep
<1> QED  BY <1>1, <1>2, <1>4, PTL DEF LockedSpec

-----------------------------------------------------------------------------
(* Joining a view change. *)

\* A set of numbers has a smallest.
LEMMA SmallestNumber ==
  ASSUME NEW S \in SUBSET Nat, S # {}
  PROVE  \E v \in S : \A w \in S : v <= w
<1> DEFINE R == OpToRel(<, Nat)
<1>1. IsWellFoundedOn(R, Nat)
  BY NatLessThanWellFounded, Zenon
<1>2. \A x, y \in Nat : x < y => <<x, y>> \in R
  BY DEF OpToRel
<1> HIDE DEF R
<1>3. PICK v \in S : \A w \in S : ~(<<w, v>> \in R)
  BY <1>1, WFMin, Zenon
<1>4. \A w \in S : ~(w < v)
  BY <1>2, <1>3
<1> QED  BY <1>4

\* A replica that finds a quorum for a later view than the one it is active in has
\* just left that view (view_change.go).
LEMMA ReadyHasLeft ==
  ASSUME NEW r \in ReplicaState, OneEach(r), r.activeView, NEW v \in Nat, v > r.view,
         NEW lost, ViewChangeReady(MaybeJoinViewChange(r, lost), v)
  PROVE  ~MaybeJoinViewChange(r, lost).activeView
<1> DEFINE joined == MaybeJoinViewChange(r, lost)
           k == CHOOSE w \in SmallestJoinableViews(r) : TRUE
<1>1. JoinableViews(r) \in SUBSET Nat
  BY NamedViews DEF JoinableViews
<1>2. CASE SmallestJoinableViews(r) = {}
  <2>1. joined = r
    BY <1>2, Zenon DEF MaybeJoinViewChange
  <2>2. v \in JoinableViews(r)
    BY <2>1, ReadyIsJoinable
  <2>3. \E w \in JoinableViews(r) : \A u \in JoinableViews(r) : w <= u
    BY <1>1, <2>2, SmallestNumber
  <2> QED  BY <1>2, <2>3 DEF SmallestJoinableViews
<1>3. CASE SmallestJoinableViews(r) # {}
  <2>1. joined = StartViewChange(r, k, lost)
    BY <1>3, Zenon DEF MaybeJoinViewChange
  <2>2. k \in SmallestJoinableViews(r)
    BY <1>3
  <2> HIDE DEF k
  <2>3. k \in Nat /\ k > r.view
    BY <1>1, <2>2 DEF SmallestJoinableViews, JoinableViews
  <2>4. ~(k <= r.view)
    BY <2>3 DEF ReplicaState
  <2>5. Leaves(r, joined) \/ joined = r
    BY <2>1, <2>3, StartViewChangeLeaves
  <2>6. joined = r \/ ~joined.activeView
    BY <2>5 DEF Leaves
  <2>7. joined # r
    <3>1. joined = r \/ joined.view = k
      BY <2>1, <2>3, StartViewChangeTells
    <3>2. joined.view = k
      BY <2>1, <2>3, StartViewChangeTurns
    <3> QED  BY <2>3, <3>2 DEF ReplicaState
  <2> QED  BY <2>6, <2>7
<1> QED  BY <1>2, <1>3
-----------------------------------------------------------------------------
(* Timers. *)

\* What there is of a timer leads to a later view: it runs, or its callback is
\* waiting.
Covered(r) ==
    r.requestTimer # NoTimer =>
      /\ r.requestTimer.target > r.view
      /\ r.requestTimer.running \/ r.requestTimer.target \in r.callbacks

\* A backup that waits for a request has a timer.
Waits(r) == r.activeView /\ ~IsPrimary(r) /\ r.pending # {}

Timed(r) == Covered(r) /\ (Waits(r) => r.requestTimer # NoTimer)

\* A method that leaves the timer, and all that it is there for.
LeavesTimer(r, q) ==
    /\ q.id = r.id /\ q.view = r.view /\ q.activeView = r.activeView
    /\ q.pending = r.pending
    /\ q.requestTimer = r.requestTimer /\ q.callbacks = r.callbacks

\* Such a method changes nothing of what a timer must be.
LEMMA LeavesTimerTimes ==
  ASSUME NEW r, NEW q, LeavesTimer(r, q)
  PROVE  (Covered(q) <=> Covered(r)) /\ (Timed(q) <=> Timed(r))
  BY DEF LeavesTimer, Timed, Covered, Waits, IsPrimary

\* A timer that is started leads to the next view (timer.go).
LEMMA StartTimerTimes ==
  ASSUME NEW r \in ReplicaState, NEW override \in BOOLEAN, override \/ Covered(r)
  PROVE  LET q == StartRequestTimer(r, override) IN
         q \in ReplicaState /\ Timed(q) /\ q.requestTimer # NoTimer
<1> DEFINE timer == [target |-> r.view + 1, running |-> TRUE]
           started == [r EXCEPT !.requestTimer = timer]
           q == StartRequestTimer(r, override)
<1>1. r.view \in Nat /\ r.view + 1 # 0 /\ r.view + 1 > r.view
  BY DEF ReplicaState
<1>2. timer \in Timer /\ timer # NoTimer
  BY <1>1 DEF Timer, NoTimer
<1>3. timer.target > r.view /\ timer.running
  BY <1>1
<1>4. (q = r /\ r.requestTimer # NoTimer /\ ~override) \/ q = started
  BY DEF StartRequestTimer, TargetView
<1> HIDE DEF timer
<1>5. /\ started \in ReplicaState /\ started.requestTimer = timer
      /\ started.view = r.view
  BY <1>2 DEF ReplicaState
<1>6. Timed(started)
  BY <1>2, <1>3, <1>5 DEF Timed, Covered
<1> HIDE DEF started
<1>7. CASE q = started
  BY <1>2, <1>5, <1>6, <1>7
<1>8. CASE q = r /\ r.requestTimer # NoTimer /\ ~override
  BY <1>8 DEF Timed
<1> QED  BY <1>4, <1>7, <1>8

\* Without a timer nothing is promised but to those that wait for nothing.
LEMMA StopTimerTimes ==
  ASSUME NEW r \in ReplicaState
  PROVE  LET q == StopRequestTimer(r) IN
         /\ q \in ReplicaState /\ Covered(q)
         /\ ~Waits(q) => Timed(q)
         /\ q.view = r.view /\ q.id = r.id /\ q.requestTimer = NoTimer /\ q.pending = r.pending
         /\ q.callbacks = r.callbacks /\ q.activeView = r.activeView
<1> NoTimer \in Timer
  BY DEF NoTimer, Timer
<1> HIDE DEF NoTimer
<1> QED  BY DEF StopRequestTimer, ReplicaState, Timed, Covered

\* Executing a request stops the timer, and starts it again for the others that
\* are pending (execute.go).
LEMMA ExecuteTimes ==
  ASSUME NEW r \in ReplicaState, Timed(r), NEW v \in Nat, NEW s \in Nat, NEW d \in Digest,
         NEW lost
  PROVE  Timed(Execute(r, v, s, d, lost))
<1> DEFINE fails == <<"Block", 0>> \in lost
           block == [view |-> v, seq |-> s, digest |-> d]
           ledger == IF fails THEN r.ledger ELSE Append(r.ledger, block)
           f == r.failed \/ fails
           written == [r EXCEPT !.pending = @ \ {d}, !.ledger = ledger, !.failed = f]
           executed == StopRequestTimer(written)
           restarted == StartRequestTimer(executed, TRUE)
           q == Execute(r, v, s, d, lost)
<1>1. ledger \in Seq(Block) /\ f \in BOOLEAN
  <2>1. block \in Block
    BY DEF Block
  <2>2. r.ledger \in Seq(Block) /\ r.failed \in BOOLEAN
    BY DEF ReplicaState
  <2> HIDE DEF block
  <2>3. Append(r.ledger, block) \in Seq(Block)
    BY <2>1, <2>2
  <2> QED  BY <2>2, <2>3
<1>2. q = r \/ (q = executed /\ executed.pending = {}) \/ q = restarted
  BY Zenon DEF Execute, executed, written, ledger, f, restarted
<1> HIDE DEF ledger, f
<1>3. written \in ReplicaState
  BY <1>1 DEF ReplicaState
<1> HIDE DEF written
<1>4. executed \in ReplicaState /\ (~Waits(executed) => Timed(executed))
  BY <1>3, StopTimerTimes
<1> HIDE DEF executed, q
<1>5. Timed(restarted)
  BY <1>4, StartTimerTimes
<1>6. executed.pending = {} => Timed(executed)
  BY <1>4 DEF Waits
<1> QED  BY <1>2, <1>5, <1>6 DEF q

\* Broadcasts and receipts leave the timer.
LEMMA BroadcastLeavesTimer ==
  ASSUME NEW r \in ReplicaState, NEW m, NEW lost
  PROVE  LeavesTimer(r, Broadcast(r, m, lost))
<1> DEFINE o == r.outbox \cup {[msg |-> m, failed |-> Fails(m, lost)]}
           f == r.failed \/ Fails(m, lost)
           q == Broadcast(r, m, lost)
<1>1. q = [r EXCEPT !.outbox = o, !.failed = f]
  BY Zenon DEF Broadcast
<1> HIDE DEF o, f, q
<1> QED  BY <1>1 DEF ReplicaState, LeavesTimer, q

\* Recording a message has nothing to do with the timer (receipts.go).
LEMMA RecordsLeaveTimer ==
  ASSUME NEW r \in ReplicaState, NEW from, NEW m
  PROVE  /\ LeavesTimer(r, RecordCommitReceipt(r, from, m))
         /\ LeavesTimer(r, RecordPrepareReceipt(r, from, m))
         /\ LeavesTimer(r, RecordViewChangeReceipt(r, from, m))
  BY DEF RecordCommitReceipt, RecordPrepareReceipt, RecordViewChangeReceipt, LeavesTimer,
         ReplicaState

\* Sending a Commit (commit.go),
LEMMA MaybeSendCommitTimes ==
  ASSUME NEW r \in ReplicaState, Timed(r), NEW v \in Nat, NEW s \in Nat, NEW d \in Digest,
         NEW lost
  PROVE  Timed(MaybeSendCommit(r, v, s, d, lost))
<1> DEFINE commit == [type |-> "Commit", view |-> v, seq |-> s, digest |-> d]
           sent == Broadcast(r, commit, lost)
           done == RecordCommitReceipt(sent, r.id, commit)
           executed == Execute(done, v, s, d, lost)
<1>1. commit \in Commit /\ commit \in Message /\ r.id \in Replica
  BY DEF Commit, Message, ReplicaState
<1> HIDE DEF commit
<1>2. Timed(sent) /\ sent \in ReplicaState
  BY <1>1, BroadcastKeeps, BroadcastLeavesTimer, LeavesTimerTimes DEF Keeps
<1> HIDE DEF sent
<1>3. Timed(done) /\ done \in ReplicaState
  BY <1>1, <1>2, RecordCommitWithin, RecordsLeaveTimer, LeavesTimerTimes DEF Within
<1> HIDE DEF done
<1>4. Timed(executed)
  BY <1>3, ExecuteTimes
<1> HIDE DEF executed
<1>5. MaybeSendCommit(r, v, s, d, lost) \in {r, sent, done, executed}
  <2>1. CASE ~ShouldSendCommit(r, v, s, d)
    BY <2>1, Zenon DEF MaybeSendCommit
  <2>2. CASE ShouldSendCommit(r, v, s, d) /\ Fails(commit, lost)
    BY <2>2 DEF MaybeSendCommit, commit, sent
  <2>3. CASE ShouldSendCommit(r, v, s, d) /\ ~Fails(commit, lost)
    BY <2>3 DEF MaybeSendCommit, commit, sent, done, executed
  <2> QED  BY <2>1, <2>2, <2>3
<1> QED  BY <1>2, <1>3, <1>4, <1>5

\* ... receiving one,
LEMMA ProcessCommitTimes ==
  ASSUME NEW r \in ReplicaState, Timed(r), NEW from \in Replica, NEW m \in Commit, NEW lost
  PROVE  Timed(ProcessCommit(r, from, m, lost))
<1> DEFINE recorded == RecordCommitReceipt(r, from, m)
           executed == Execute(recorded, m.view, m.seq, m.digest, lost)
<1>1. Timed(recorded) /\ recorded \in ReplicaState
  BY RecordCommitWithin, RecordsLeaveTimer, LeavesTimerTimes DEF Within
<1>2. ProcessCommit(r, from, m, lost) \in {r, recorded, executed}
  BY DEF ProcessCommit
<1>3. m.view \in Nat /\ m.seq \in Nat /\ m.digest \in Digest
  BY DEF Commit
<1> HIDE DEF recorded
<1>4. Timed(executed)
  BY <1>1, <1>3, ExecuteTimes
<1> QED  BY <1>1, <1>2, <1>4

\* ... and receiving a Prepare (prepare.go) leave no backup waiting without a timer.
LEMMA ProcessPrepareTimes ==
  ASSUME NEW r \in ReplicaState, Timed(r), NEW from \in Replica, NEW m \in Prepare, NEW lost
  PROVE  Timed(ProcessPrepare(r, from, m, lost))
<1> DEFINE recorded == RecordPrepareReceipt(r, from, m)
           sent == MaybeSendCommit(recorded, m.view, m.seq, m.digest, lost)
<1>1. Timed(recorded) /\ recorded \in ReplicaState
  BY RecordPrepareWithin, RecordsLeaveTimer, LeavesTimerTimes DEF Within
<1>2. m.view \in Nat /\ m.seq \in Nat /\ m.digest \in Digest
  BY DEF Prepare
<1>3. ProcessPrepare(r, from, m, lost) \in {r, sent}
  BY DEF ProcessPrepare
<1> HIDE DEF recorded
<1>4. Timed(sent)
  BY <1>1, <1>2, MaybeSendCommitTimes
<1> QED  BY <1>3, <1>4

\* A backup that accepts a request starts a timer, unless it has one (preprepare.go).
LEMMA AcceptTimes ==
  ASSUME NEW r \in ReplicaState, Timed(r), NEW ms \in SUBSET PrePrepare, NEW lost
  PROVE  Timed(AcceptPrePrepares(r, ms, lost))
<1> DEFINE prepareFor(m) == [m EXCEPT !.type = "Prepare"]
           accepted == {m \in ms : \A p \in r.preprepares : ~SameSlot(p, m)}
           answers == {prepareFor(m) : m \in accepted}
           own == {[from |-> r.id, msg |-> p] : p \in {a \in answers : ~Fails(a, lost)}}
           receipts == {o \in own : \A x \in r.prepares : x.from # r.id \/ ~SameSlot(x.msg, o.msg)}
           outbox == r.outbox \cup {[msg |-> a, failed |-> Fails(a, lost)] : a \in answers}
           f == r.failed \/ \E a \in answers : Fails(a, lost)
           digests == {m.digest : m \in accepted}
           taken == [r EXCEPT !.preprepares = @ \cup accepted,
                              !.requests = @ \cup digests,
                              !.pending = @ \cup digests,
                              !.prepares = @ \cup receipts,
                              !.outbox = outbox,
                              !.failed = f]
           q == AcceptPrePrepares(r, ms, lost)
<1>1. q \in {r, StartRequestTimer(taken, FALSE)}
  BY Zenon DEF AcceptPrePrepares, taken, accepted, answers, digests, receipts, outbox, f
<1>2. accepted \in SUBSET PrePrepare
  OBVIOUS
<1>3. answers \in SUBSET Prepare
  <2> HIDE DEF accepted
  <2> QED  BY <1>2 DEF PrePrepare, Prepare
<1>4. digests \in SUBSET Digest
  <2> HIDE DEF accepted
  <2> QED  BY <1>2 DEF PrePrepare
<1> HIDE DEF accepted
<1>5. own \in SUBSET PrepareReceipt /\ outbox \in SUBSET [msg : Message, failed : BOOLEAN]
  <2>1. r.id \in Replica /\ r.outbox \in SUBSET [msg : Message, failed : BOOLEAN]
    BY DEF ReplicaState
  <2>2. \A a \in answers : a \in Message /\ Fails(a, lost) \in BOOLEAN
    BY <1>3 DEF Message, Fails
  <2> HIDE DEF answers
  <2>3. \A a \in answers : [msg |-> a, failed |-> Fails(a, lost)] \in [msg : Message, failed : BOOLEAN]
    BY <2>2
  <2> HIDE DEF f
  <2> QED  BY <1>3, <2>1, <2>3 DEF PrepareReceipt
<1>6. receipts \in SUBSET PrepareReceipt /\ f \in BOOLEAN
  BY <1>5 DEF ReplicaState
<1> HIDE DEF answers, own, receipts, outbox, f, digests
<1>7. /\ taken \in ReplicaState
      /\ taken.view = r.view /\ taken.requestTimer = r.requestTimer
      /\ taken.callbacks = r.callbacks
  BY <1>2, <1>4, <1>5, <1>6 DEF ReplicaState
<1> HIDE DEF taken, q
<1>8. Covered(taken)
  BY <1>7 DEF Timed, Covered
<1>9. Timed(StartRequestTimer(taken, FALSE))
  BY <1>7, <1>8, StartTimerTimes
<1> QED  BY <1>1, <1>9 DEF q

\* A pre-prepare that is accepted puts its request in pending and starts the timer.
LEMMA ProcessPrePrepareTimes ==
  ASSUME NEW r \in ReplicaState, Timed(r), NEW from \in Replica, NEW m \in PrePrepare, NEW lost
  PROVE  Timed(ProcessPrePrepare(r, from, m, lost))
<1> DEFINE taken == AcceptPrePrepares(r, {m}, lost)
           sent == MaybeSendCommit(taken, m.view, m.seq, m.digest, lost)
<1>1. m.view \in Nat /\ m.seq \in Nat /\ m.digest \in Digest
  BY DEF PrePrepare
<1>2. Timed(taken) /\ taken \in ReplicaState
  <2>1. Timed(taken)
    BY AcceptTimes
  <2>2. Within(r, taken, m.view)
    BY <1>1, AcceptPrePreparesWithin
  <2> QED  BY <2>1, <2>2 DEF Within
<1>3. ProcessPrePrepare(r, from, m, lost) \in {r, taken, sent}
  BY DEF ProcessPrePrepare
<1> HIDE DEF taken
<1>4. Timed(sent)
  BY <1>1, <1>2, MaybeSendCommitTimes
<1> QED  BY <1>2, <1>3, <1>4

\* A replica that leaves its view has no timer (view_change.go).
LEMMA StartViewChangeTimes ==
  ASSUME NEW r \in ReplicaState, NEW v \in Nat, v > r.view, NEW lost
  PROVE  LET q == StartViewChange(r, v, lost) IN
         q.requestTimer = NoTimer /\ ~q.activeView /\ Timed(q)
<1> DEFINE vc == ViewChangeFor(r, v)
           stopped == StopRequestTimer(r)
           left == [stopped EXCEPT !.view = v, !.activeView = FALSE]
           sent == Broadcast(left, vc, lost)
           done == RecordViewChangeReceipt(sent, r.id, vc)
           q == StartViewChange(r, v, lost)
<1>1. q \in {sent, done}
  <2>1. ~(v <= r.view)
    BY DEF ReplicaState
  <2> QED  BY <2>1, Zenon DEF StartViewChange, done, sent, left, stopped, vc
<1>2. vc \in Message
  BY ViewChangeForType
<1>3. stopped \in ReplicaState /\ stopped.requestTimer = NoTimer
  BY StopTimerTimes
<1> HIDE DEF vc, stopped
<1>4. left \in ReplicaState /\ left.requestTimer = NoTimer /\ ~left.activeView
  BY <1>3 DEF ReplicaState
<1> HIDE DEF left
<1>5. sent \in ReplicaState /\ LeavesTimer(left, sent)
  BY <1>2, <1>4, BroadcastKeeps, BroadcastLeavesTimer DEF Keeps
<1> HIDE DEF sent
<1>6. LeavesTimer(sent, done)
  BY <1>5, RecordsLeaveTimer
<1> HIDE DEF done, q
<1>7. q.requestTimer = NoTimer /\ ~q.activeView
  BY <1>1, <1>4, <1>5, <1>6 DEF LeavesTimer
<1> QED  BY <1>7 DEF Timed, Covered, Waits, q

\* Joining a view change stops the timer.
LEMMA MaybeJoinTimes ==
  ASSUME NEW r \in ReplicaState, NEW lost
  PROVE  LET q == MaybeJoinViewChange(r, lost) IN
         q = r \/ (q.requestTimer = NoTimer /\ ~q.activeView /\ Timed(q))
<1> DEFINE k == CHOOSE w \in SmallestJoinableViews(r) : TRUE
           q == MaybeJoinViewChange(r, lost)
<1>1. CASE ~(r.activeView /\ SmallestJoinableViews(r) # {})
  BY <1>1, Zenon DEF MaybeJoinViewChange
<1>2. CASE r.activeView /\ SmallestJoinableViews(r) # {}
  <2>1. q = StartViewChange(r, k, lost)
    BY <1>2, Zenon DEF MaybeJoinViewChange
  <2>2. k \in SmallestJoinableViews(r)
    BY <1>2
  <2> HIDE DEF k
  <2>3. k \in Nat /\ k > r.view
    BY <2>2, NamedViews DEF SmallestJoinableViews, JoinableViews
  <2> HIDE DEF q
  <2> QED  BY <2>1, <2>3, StartViewChangeTimes DEF q
<1> QED  BY <1>1, <1>2

\* A primary enters its view with the timer that it has (new_view.go).
LEMMA ProposeOutstandingTimes ==
  ASSUME NEW r \in ReplicaState, NEW lost, NEW q \in ProposeOutstanding(r, lost)
  PROVE  /\ q.id = r.id /\ q.view = r.view /\ q.activeView = r.activeView
         /\ q.requestTimer = r.requestTimer /\ q.callbacks = r.callbacks
<1> DEFINE waiting == {GetDigest(d) : d \in OutstandingRequests(r)} \ r.pending
           own(order) == {m \in PrePreparesFor(r, order) :
                            ~ConflictingPrePrepare(r, m) /\ ~Fails(m, lost)}
<1>1. PICK order \in SetToSeqs(waiting) :
         q = StorePrePrepares(SendPrePrepares(r, order, lost), own(order))
  BY Zenon DEF ProposeOutstanding, waiting
<1> DEFINE ms == {m \in PrePreparesFor(r, order) : ~ConflictingPrePrepare(r, m)}
           outbox == r.outbox \cup {[msg |-> m, failed |-> Fails(m, lost)] : m \in ms}
           f == r.failed \/ \E m \in ms : Fails(m, lost)
           digests == Range(order)
           n == r.sequence + Len(order)
           sent == [r EXCEPT !.requests = @ \cup digests, !.pending = @ \cup digests,
                             !.sequence = n, !.outbox = outbox, !.failed = f]
           stored == {p \in sent.preprepares : \A m \in own(order) : ~SameSlot(p, m)} \cup own(order)
<1>2. SendPrePrepares(r, order, lost) = sent
  BY DEF SendPrePrepares
<1>3. q = [sent EXCEPT !.preprepares = stored]
  BY <1>1, <1>2, Zenon DEF StorePrePrepares
<1> HIDE DEF waiting, own, digests, n, outbox, f, stored
<1> QED  BY <1>3 DEF ReplicaState

\* The new primary enters its view with the timer it has,
LEMMA EnterOwnViewTimes ==
  ASSUME NEW r \in ReplicaState, NEW v \in Nat, NEW pps \in Seq(PrePrepare)
  PROVE  LET q == EnterOwnView(r, v, pps) IN
         q.requestTimer = r.requestTimer /\ q.callbacks = r.callbacks
<1> DEFINE cleaned == CleanupState(r, v)
           ms == Range(pps)
           stored == StorePrePrepares(cleaned, ms)
           digests == {p.digest : p \in ms}
           q == [stored EXCEPT !.requests = @ \cup digests, !.pending = @ \cup digests,
                               !.view = v, !.activeView = TRUE]
<1>1. EnterOwnView(r, v, pps) = q
  BY Zenon DEF EnterOwnView
<1>2. /\ cleaned.requestTimer = r.requestTimer /\ cleaned.callbacks = r.callbacks
      /\ cleaned \in ReplicaState
  BY CleanupType DEF CleanupState, ReplicaState
<1> HIDE DEF cleaned, ms
<1>3. /\ stored.requestTimer = r.requestTimer /\ stored.callbacks = r.callbacks
      /\ DOMAIN stored = DOMAIN cleaned
  BY <1>2 DEF StorePrePrepares, ReplicaState
<1> HIDE DEF stored, digests
<1>4. q.requestTimer = stored.requestTimer /\ q.callbacks = stored.callbacks
  BY <1>2, <1>3 DEF ReplicaState
<1> HIDE DEF q
<1> QED  BY <1>1, <1>3, <1>4

\* ... also when it has first to build and send the NewView.
LEMMA StartNewViewTimes ==
  ASSUME NEW r \in ReplicaState, NEW v \in Nat, NEW lost, NEW q \in StartNewView(r, v, lost)
  PROVE  \/ LeavesTimer(r, q)
         \/ /\ q.id = r.id /\ q.view = v /\ q.activeView
            /\ q.requestTimer = r.requestTimer /\ q.callbacks = r.callbacks
<1> DEFINE vc == ViewChangeFor(r, v)
           own == RecordViewChangeReceipt(r, r.id, vc)
           msgs == ViewChangesOf(own, v)
           newView(pps) == [type |-> "NewView", view |-> v, messages |-> msgs,
                            preprepares |-> pps]
           sent(pps) == Broadcast(own, newView(pps), lost)
<1>1. vc \in ViewChange /\ r.id \in Replica
  BY ViewChangeForType DEF ReplicaState
<1> HIDE DEF vc
<1>2. own \in ReplicaState /\ LeavesTimer(r, own)
  <2>1. [from |-> r.id, msg |-> vc] \in {[from |-> r.id, msg |-> vc]}
    OBVIOUS
  <2> QED  BY <1>1, <2>1, RecordsLeaveTimer, RecordViewChangeTurns DEF Turns
<1> HIDE DEF own
<1>3. msgs \in SUBSET ViewChangeReceipt
  BY <1>2 DEF ViewChangesOf, ReplicaState
<1> HIDE DEF msgs
<1>4. PICK pps \in GeneratePrePrepares(v, msgs) :
         q \in IF Fails(newView(pps), lost)
                 THEN {sent(pps)}
                 ELSE ProposeOutstanding(EnterOwnView(sent(pps), v, pps), lost)
  BY Zenon DEF StartNewView, own, msgs, vc
<1>5. pps \in Seq(PrePrepare) /\ \A m \in Range(pps) : m \in PrePrepare /\ m.view = v
  BY <1>3, GeneratePrePreparesType
<1> DEFINE nv == newView(pps)
           s == sent(pps)
           e == EnterOwnView(s, v, pps)
<1>6. nv \in Message
  BY <1>3, <1>5 DEF NewView, Message
<1>7. q = s \/ q \in ProposeOutstanding(e, lost)
  BY <1>4, Zenon
<1>8. s \in ReplicaState /\ LeavesTimer(own, s)
  BY <1>2, <1>6, BroadcastKeeps, BroadcastLeavesTimer DEF Keeps
<1> HIDE DEF nv, s, newView, sent
<1>9. LeavesTimer(r, s)
  BY <1>2, <1>8 DEF LeavesTimer
<1>10. CASE q \in ProposeOutstanding(e, lost)
  <2>1. /\ e \in ReplicaState /\ e.id = s.id /\ e.view = v /\ e.activeView
        /\ e.requestTimer = s.requestTimer /\ e.callbacks = s.callbacks
    BY <1>5, <1>8, EnterOwnViewOpens, EnterOwnViewTimes DEF Opens
  <2> HIDE DEF e
  <2> QED  BY <1>9, <1>10, <2>1, ProposeOutstandingTimes DEF LeavesTimer
<1> QED  BY <1>7, <1>9, <1>10

\* A view change leaves everyone with the timer there should be, unless a primary
\* enters a view that it has not left its own view for.  Who leaves a view is
\* timed whatever timer there was.
LEMMA ProcessViewChangeTimes ==
  ASSUME NEW r \in ReplicaState, OneEach(r), NEW from \in Replica,
         NEW m \in ViewChange, NEW lost, NEW q \in ProcessViewChange(r, from, m, lost),
         ~r.activeView /\ q.activeView => q.view = r.view
  PROVE  Timed(q) \/ (~Timed(r) /\ q.view = r.view)
<1> DEFINE recorded == RecordViewChangeReceipt(r, from, m)
           joined == MaybeJoinViewChange(recorded, lost)
<1>1. m.view \in Nat /\ r.view \in Nat /\ r.activeView \in BOOLEAN
  BY DEF ViewChange, ReplicaState
<1>2. Keeps(r, recorded) /\ recorded \in ReplicaState /\ LeavesTimer(r, recorded)
  BY RecordViewChangeKeeps, RecordsLeaveTimer DEF Keeps
<1>3. OneEach(recorded) /\ (Timed(recorded) <=> Timed(r)) /\ recorded.view = r.view
  <2>1. [from |-> from, msg |-> m] \in {[from |-> from, msg |-> m]}
    OBVIOUS
  <2> QED  BY <1>2, <2>1, RecordViewChangeTells, LeavesTimerTimes DEF Tells, LeavesTimer
<1> HIDE DEF recorded
<1>4. /\ joined \in ReplicaState /\ joined.id = r.id
      /\ joined = recorded \/ (joined.requestTimer = NoTimer /\ ~joined.activeView /\ Timed(joined))
  BY <1>2, MaybeJoinLeaves, MaybeJoinTimes DEF Leaves, Keeps
<1>5. CASE m.view < r.view \/ ~ValidViewChange(m)
  <2>1. q = r
    BY <1>5 DEF ProcessViewChange
  <2> QED  BY <2>1
<1>6. CASE ~(m.view < r.view \/ ~ValidViewChange(m))
  <2>1. CASE m.view = r.view /\ r.activeView
    <3>1. q = recorded
      BY <1>6, <2>1, Zenon DEF ProcessViewChange, recorded
    <3> QED  BY <1>3, <3>1
  <2>2. CASE /\ ~(m.view = r.view /\ r.activeView)
             /\ ~(Primary(m.view) = r.id /\ ViewChangeReady(joined, m.view))
    <3>1. q = joined
      BY <1>6, <2>2 DEF ProcessViewChange, recorded, joined
    <3> HIDE DEF joined
    <3> QED  BY <1>3, <1>4, <3>1
  <2>3. CASE /\ ~(m.view = r.view /\ r.activeView)
             /\ Primary(m.view) = r.id /\ ViewChangeReady(joined, m.view)
    <3>1. q \in StartNewView(joined, m.view, lost)
      BY <1>6, <2>3 DEF ProcessViewChange, recorded, joined
    <3>2. ~joined.activeView
      <4>1. CASE r.activeView
        <5>1. m.view > recorded.view /\ recorded.activeView
          BY <1>1, <1>2, <1>6, <2>3, <4>1 DEF Keeps
        <5> QED  BY <1>1, <1>2, <1>3, <2>3, <5>1, ReadyHasLeft
      <4>2. CASE ~r.activeView
        BY <1>2, <1>4, <4>2 DEF Keeps
      <4> QED  BY <4>1, <4>2
    <3> HIDE DEF joined
    <3>3. Timed(joined) \/ (~Timed(r) /\ joined = recorded)
      BY <1>3, <1>4
    <3>4. CASE LeavesTimer(joined, q)
      <4>1. (Timed(q) <=> Timed(joined)) /\ q.view = joined.view
        BY <3>4, LeavesTimerTimes DEF LeavesTimer
      <4> QED  BY <1>3, <3>3, <4>1
    <3>5. CASE /\ q.id = joined.id /\ q.view = m.view /\ q.activeView
               /\ q.requestTimer = joined.requestTimer /\ q.callbacks = joined.callbacks
      <4>1. ~Waits(q)
        BY <1>4, <2>3, <3>5 DEF Waits, IsPrimary
      <4>2. CASE joined.requestTimer = NoTimer
        BY <3>5, <4>1, <4>2 DEF Timed, Covered
      <4>3. CASE joined = recorded
        <5>1. ~r.activeView /\ joined.view = r.view
          BY <1>2, <3>2, <4>3 DEF Keeps
        <5>2. q.view = joined.view
          BY <3>5, <5>1
        <5>3. Timed(joined) => Timed(q)
          BY <3>5, <4>1, <5>2 DEF Timed, Covered
        <5> QED  BY <3>3, <5>1, <5>2, <5>3
      <4> QED  BY <1>4, <4>2, <4>3
    <3> QED  BY <1>1, <1>4, <3>1, <3>4, <3>5, StartNewViewTimes
  <2> QED  BY <2>1, <2>2, <2>3
<1> QED  BY <1>5, <1>6

\* So does a NewView: its receiver starts a timer for what it carries.
LEMMA ProcessNewViewTimes ==
  ASSUME NEW r \in ReplicaState, NEW from \in Replica, NEW m \in NewView, NEW lost,
         LET q == ProcessNewView(r, from, m, lost) IN q = r \/ q.view = r.view
  PROVE  LET q == ProcessNewView(r, from, m, lost)
         IN (Timed(r) => Timed(q)) /\ q.view = r.view
<1> DEFINE turned  == [r EXCEPT !.view = m.view, !.activeView = TRUE]
           entered == CleanupState(turned, m.view)
           ms      == Range(m.preprepares)
           taken   == AcceptPrePrepares(entered, ms, lost)
           q       == ProcessNewView(r, from, m, lost)
<1>1. m.view \in Nat /\ m.preprepares \in Seq(PrePrepare)
  BY DEF NewView
<1>2. ms \in SUBSET PrePrepare
  BY <1>1 DEF Range
<1>3. /\ turned \in ReplicaState /\ turned.view = m.view
      /\ turned.requestTimer = r.requestTimer /\ turned.callbacks = r.callbacks
  BY <1>1 DEF ReplicaState
<1> HIDE DEF turned
<1>4. /\ entered \in ReplicaState /\ entered.pending = {} /\ entered.view = m.view
      /\ entered.requestTimer = r.requestTimer /\ entered.callbacks = r.callbacks
  BY <1>1, <1>3, CleanupType DEF CleanupState, ReplicaState
<1> HIDE DEF entered
<1>5. q = r \/ q = taken \/ q = StartRequestTimer(taken, FALSE)
  <2> HIDE DEF ms
  <2> QED  BY DEF ProcessNewView, entered, turned, ms
<1>6. taken \in ReplicaState /\ taken.view = m.view
  <2> HIDE DEF ms
  <2>1. Attests(entered, taken, 0, 0, 0, {})
    BY <1>2, <1>4, AcceptAttests
  <2> QED  BY <1>4, <2>1 DEF Attests, Adds
<1>7. CASE q = r
  BY <1>7
<1>8. CASE q # r
  <2>1. m.view = r.view
    <3>1. q.view = m.view
      <4>1. StartRequestTimer(taken, FALSE).view = taken.view
        <5> HIDE DEF taken
        <5> QED  BY <1>6 DEF StartRequestTimer, TargetView, ReplicaState
      <4> HIDE DEF taken, q
      <4> QED  BY <1>5, <1>6, <1>8, <4>1
    <3> QED  BY <1>8, <3>1
  <2> SUFFICES ASSUME Timed(r) PROVE Timed(q)
    BY <1>8
  <2>2. Timed(entered)
    BY <1>4, <2>1 DEF Timed, Covered, Waits
  <2>3. Timed(taken)
    <3> HIDE DEF ms
    <3> QED  BY <1>2, <1>4, <2>2, AcceptTimes
  <2> HIDE DEF taken, q
  <2>4. Timed(StartRequestTimer(taken, FALSE))
    BY <1>6, <2>3, StartTimerTimes DEF Timed
  <2> QED  BY <1>5, <1>8, <2>3, <2>4 DEF q
<1> QED  BY <1>7, <1>8

-----------------------------------------------------------------------------
(* The timers of the cluster. *)

\* main has read the view of backup i for the timer it is about to set, and the
\* backup has not come to the view that this timer is for.
ArmsAhead(i) == Arming(i) /\ main.call.target > replica[i].view

\* Where main has stopped a timer it is about to set another.
TimersInv == \A i \in Correct : Timed(replica[i]) \/ ArmsAhead(i)

\* A correct replica that becomes active does so in the view it is in: it has left
\* its own view for that one before, and stopped its timer when it did.
EntersItsView ==
    \A i \in Correct :
       ~replica[i].activeView /\ replica'[i].activeView => replica'[i].view = replica[i].view

\* The view that main has read for its timer (timer.go:22) is not over when it sets
\* the timer (timer.go:24).  Nothing in the code sees to it.
ArmsInTime ==
    \A i \in Correct : MainArmsTimer(i) => main.call.target > replica[i].view

\* What a method leaves behind has the timer that its replica has afterwards.
LEMMA ReturnedTimes ==
  ASSUME TypeOK, NEW i \in Replica, NEW q \in ReplicaState, q.id = i, NEW consumed,
         Run(q, consumed)
  PROVE  /\ replica' = [replica EXCEPT ![i] = Returned(q)]
         /\ Timed(replica'[i]) <=> Timed(q)
         /\ replica'[i].view = q.view
<1>1. replica' = [replica EXCEPT ![i] = Returned(q)]
  BY DEF Run
<1>2. LeavesTimer(q, Returned(q))
  BY DEF LeavesTimer, Returned, ReplicaState
<1>3. replica'[i] = Returned(q)
  BY <1>1 DEF TypeOK
<1> QED  BY <1>1, <1>2, <1>3, LeavesTimerTimes DEF LeavesTimer

\* Running a method that leaves its replica with the timer there should be, or in
\* the view in which main is about to set one.
LEMMA RunTimes ==
  ASSUME TypeOK, TimersInv, NEW i \in Replica, NEW q, q.id = i, NEW consumed,
         Run(q, consumed), UNCHANGED main,
         i \in Correct => /\ q \in ReplicaState
                          /\ Timed(q) \/ (~Timed(replica[i]) /\ q.view = replica[i].view)
  PROVE  TimersInv'
<1>1. replica' = [replica EXCEPT ![i] = Returned(q)]
  BY DEF Run
<1>2. ASSUME NEW j \in Correct PROVE Timed(replica'[j]) \/ ArmsAhead(j)'
  <2>1. CASE j = i
    <3>1. (Timed(replica'[j]) <=> Timed(q)) /\ replica'[j].view = q.view
      BY <1>2, <2>1, ReturnedTimes
    <3>2. Timed(replica[j]) \/ ArmsAhead(j)
      BY <1>2 DEF TimersInv
    <3> QED  BY <1>2, <2>1, <3>1, <3>2 DEF ArmsAhead, Arming
  <2>2. CASE j # i
    <3>1. replica'[j] = replica[j]
      BY <1>1, <2>2 DEF TypeOK, Correct
    <3> QED  BY <1>2, <3>1 DEF TimersInv, ArmsAhead, Arming
  <2> QED  BY <2>1, <2>2
<1> QED  BY <1>2 DEF TimersInv

\* A step of main, which is at replica i and nowhere else.
LEMMA MainTimes ==
  ASSUME TypeOK, TimersInv, NEW i \in Replica, i = main.next, NEW q, q.id = i, Run(q, {}),
         i \in Correct => q \in ReplicaState /\ (Timed(q) \/ ArmsAhead(i)')
  PROVE  TimersInv'
<1>1. replica' = [replica EXCEPT ![i] = Returned(q)]
  BY DEF Run
<1>2. ASSUME NEW j \in Correct PROVE Timed(replica'[j]) \/ ArmsAhead(j)'
  <2>1. CASE j = i
    BY <1>2, <2>1, ReturnedTimes
  <2>2. CASE j # i
    <3>1. replica'[j] = replica[j]
      BY <1>1, <2>2 DEF TypeOK, Correct
    <3> QED  BY <1>2, <2>2, <3>1 DEF TimersInv, ArmsAhead, Arming
  <2> QED  BY <2>1, <2>2
<1> QED  BY <1>2 DEF TimersInv

\* The normal case leaves no backup waiting without a timer,
LEMMA ReceiveNormalTimes ==
  ASSUME TypeOK, TimersInv, NEW e \in net,
         ReceivePrePrepare(e) \/ ReceivePrepare(e) \/ ReceiveCommit(e)
  PROVE  TimersInv'
<1> DEFINE i == e.to
           r == replica[i]
           m == e.msg
<1>1. i \in Replica /\ r \in ReplicaState /\ e.from \in Replica /\ r.id = i
  BY MessageTypes DEF TypeOK
<1>2. UNCHANGED main
  BY DEF ReceivePrePrepare, ReceivePrepare, ReceiveCommit
<1>3. ASSUME NEW q, Run(q, {e}), q = r \/ (q \in ReplicaState /\ q.id = i /\ q.view = r.view),
             q = r \/ (Timed(r) => Timed(q))
      PROVE  TimersInv'
  BY <1>1, <1>2, <1>3, RunTimes
<1>4. CASE ReceivePrePrepare(e)
  <2>1. PICK lost : Run(IF Taken(e) THEN ProcessPrePrepare(r, e.from, m, lost) ELSE r, {e})
    BY <1>4 DEF ReceivePrePrepare
  <2>2. m \in PrePrepare
    BY <1>4, MessageTypes DEF ReceivePrePrepare
  <2> DEFINE q == ProcessPrePrepare(r, e.from, m, lost)
  <2>3. q \in ReplicaState /\ q.id = i /\ q.view = r.view
    BY <1>1, <2>2, ProcessPrePrepareWithin DEF Within
  <2>4. Timed(r) => Timed(q)
    BY <1>1, <2>2, ProcessPrePrepareTimes
  <2> HIDE DEF q
  <2> QED  BY <1>3, <2>1, <2>3, <2>4 DEF q
<1>5. CASE ReceivePrepare(e)
  <2>1. PICK lost : Run(IF Taken(e) THEN ProcessPrepare(r, e.from, m, lost) ELSE r, {e})
    BY <1>5 DEF ReceivePrepare
  <2>2. m \in Prepare
    BY <1>5, MessageTypes DEF ReceivePrepare
  <2> DEFINE q == ProcessPrepare(r, e.from, m, lost)
  <2>3. q \in ReplicaState /\ q.id = i /\ q.view = r.view
    BY <1>1, <2>2, ProcessPrepareWithin DEF Within
  <2>4. Timed(r) => Timed(q)
    BY <1>1, <2>2, ProcessPrepareTimes
  <2> HIDE DEF q
  <2> QED  BY <1>3, <2>1, <2>3, <2>4 DEF q
<1>6. CASE ReceiveCommit(e)
  <2>1. PICK lost : Run(IF Taken(e) THEN ProcessCommit(r, e.from, m, lost) ELSE r, {e})
    BY <1>6 DEF ReceiveCommit
  <2>2. m \in Commit
    BY <1>6, MessageTypes DEF ReceiveCommit
  <2> DEFINE q == ProcessCommit(r, e.from, m, lost)
  <2>3. q \in ReplicaState /\ q.id = i /\ q.view = r.view
    BY <1>1, <2>2, ProcessCommitWithin DEF Within
  <2>4. Timed(r) => Timed(q)
    BY <1>1, <2>2, ProcessCommitTimes
  <2> HIDE DEF q
  <2> QED  BY <1>3, <2>1, <2>3, <2>4 DEF q
<1> QED  BY <1>4, <1>5, <1>6

\* ... a ViewChange does not, when it lets its receiver enter only the view it is in,
LEMMA ReceiveViewChangeTimes ==
  ASSUME TypeOK, OneReceipt, TimersInv, EntersItsView, NEW e \in net, ReceiveViewChange(e)
  PROVE  TimersInv'
<1> DEFINE i == e.to
           r == replica[i]
           m == e.msg
<1>1. /\ i \in Replica /\ r \in ReplicaState /\ e.from \in Replica /\ r.id = i
      /\ m \in ViewChange /\ OneEach(r)
  BY MessageTypes DEF TypeOK, ReceiveViewChange, OneReceipt
<1>0. PICK lost : \E q \in IF Taken(e) THEN ProcessViewChange(r, e.from, m, lost) ELSE {r} :
                     Run(q, {e})
  BY DEF ReceiveViewChange
<1>2. PICK q \in IF Taken(e) THEN ProcessViewChange(r, e.from, m, lost) ELSE {r} : Run(q, {e})
  BY <1>0
<1>5. UNCHANGED main
  BY DEF ReceiveViewChange
<1>3. CASE q = r
  BY <1>1, <1>2, <1>3, <1>5, RunTimes
<1>4. CASE q \in ProcessViewChange(r, e.from, m, lost)
  <2>1. q \in ReplicaState /\ q.id = i
    BY <1>1, <1>4, ProcessViewChangeStep DEF ViewStep
  <2>2. i \in Correct => Timed(q) \/ (~Timed(r) /\ q.view = r.view)
    <3>1. SUFFICES ASSUME i \in Correct PROVE Timed(q) \/ (~Timed(r) /\ q.view = r.view)
      OBVIOUS
    <3>2. replica'[i] = Returned(q)
      BY <1>1, <1>2, <2>1 DEF Run, TypeOK
    <3>3. replica'[i].view = q.view /\ replica'[i].activeView = q.activeView
      BY <2>1, <3>2 DEF Returned, ReplicaState
    <3>4. ~r.activeView /\ q.activeView => q.view = r.view
      BY <3>1, <3>3 DEF EntersItsView
    <3> QED  BY <1>1, <1>4, <3>4, ProcessViewChangeTimes
  <2> QED  BY <1>1, <1>2, <1>5, <2>1, <2>2, RunTimes
<1> QED  BY <1>2, <1>3, <1>4

\* ... and neither does a NewView.
LEMMA ReceiveNewViewTimes ==
  ASSUME TypeOK, TimersInv, EntersItsView, NEW e \in net, ReceiveNewView(e)
  PROVE  TimersInv'
<1> DEFINE i == e.to
           r == replica[i]
           m == e.msg
<1>1. /\ i \in Replica /\ r \in ReplicaState /\ e.from \in Replica /\ r.id = i
      /\ m \in NewView /\ m.type = "NewView"
  BY MessageTypes DEF TypeOK, ReceiveNewView
<1>2. PICK lost : Run(IF Taken(e) THEN ProcessNewView(r, e.from, m, lost) ELSE r, {e})
  BY DEF ReceiveNewView
<1>5. UNCHANGED main
  BY DEF ReceiveNewView
<1>3. CASE ~Taken(e)
  BY <1>1, <1>2, <1>3, <1>5, RunTimes
<1>4. CASE Taken(e)
  <2> DEFINE q == ProcessNewView(r, e.from, m, lost)
  <2>1. q \in ReplicaState /\ q.id = i
    BY <1>1, ProcessNewViewStep DEF ViewStep
  <2>2. Run(q, {e})
    BY <1>2, <1>4
  <2>3. q = r \/ q.activeView
    BY <1>1, ProcessNewViewFills
  <2>4. ~r.activeView
    BY <1>1, <1>4 DEF Taken, IsMessageAllowed
  <2>5. q = r \/ q.view = r.view => q.view = r.view /\ (Timed(r) => Timed(q))
    BY <1>1, ProcessNewViewTimes
  <2> HIDE DEF q
  <2>6. i \in Correct => q.view = r.view /\ (Timed(r) => Timed(q))
    <3>1. SUFFICES ASSUME i \in Correct PROVE q.view = r.view /\ (Timed(r) => Timed(q))
      OBVIOUS
    <3>2. replica'[i] = Returned(q)
      BY <1>1, <2>1, <2>2 DEF Run, TypeOK
    <3>3. replica'[i].view = q.view /\ replica'[i].activeView = q.activeView
      BY <2>1, <3>2 DEF Returned, ReplicaState
    <3>4. q.activeView => q.view = r.view
      BY <2>4, <3>1, <3>3 DEF EntersItsView
    <3> QED  BY <2>3, <2>5, <3>4
  <2> QED  BY <1>1, <1>5, <2>1, <2>2, <2>6, RunTimes
<1> QED  BY <1>3, <1>4

\* A timer that expires hands over to its callback,
LEMMA TimerExpiresTimes ==
  ASSUME TypeOK, TimersInv, NEW i \in Replica, TimerExpires(i)
  PROVE  TimersInv'
<1> DEFINE r == replica[i]
           t == r.requestTimer.target
           timer == [r.requestTimer EXCEPT !.running = FALSE]
           fired == r.callbacks \cup {t}
           q == [r EXCEPT !.requestTimer = timer, !.callbacks = fired]
<1>1. r \in ReplicaState
  BY DEF TypeOK
<1>2. /\ replica' = [replica EXCEPT ![i] = q]
      /\ r.requestTimer.running
  BY DEF TimerExpires
<1>3. timer.target = t /\ r.requestTimer # NoTimer
  <2>1. timer.target = t
    BY <1>1 DEF ReplicaState, Timer
  <2>2. r.requestTimer # NoTimer
    BY <1>2 DEF NoTimer
  <2> QED  BY <2>1, <2>2
<1> HIDE DEF timer
<1>4. /\ q.id = r.id /\ q.view = r.view /\ q.activeView = r.activeView
      /\ q.pending = r.pending /\ q.requestTimer = timer /\ t \in q.callbacks
  BY <1>1 DEF ReplicaState
<1> HIDE DEF q
<1>5. Timed(r) => Timed(q)
  <2>1. SUFFICES ASSUME Timed(r) PROVE Timed(q)
    OBVIOUS
  <2>2. t > r.view /\ r.view \in Nat
    BY <1>1, <1>3, <2>1 DEF Timed, Covered, ReplicaState
  <2>3. timer # NoTimer
    BY <1>3, <2>2 DEF NoTimer
  <2> QED  BY <1>3, <1>4, <2>2, <2>3 DEF Timed, Covered
<1>6. ASSUME NEW j \in Correct PROVE Timed(replica'[j]) \/ ArmsAhead(j)'
  <2>1. replica'[j] = replica[j] \/ (j = i /\ replica'[j] = q)
    BY <1>2 DEF TypeOK, Correct
  <2>2. UNCHANGED main
    BY DEF TimerExpires
  <2> QED  BY <1>4, <1>5, <2>1, <2>2 DEF TimersInv, ArmsAhead, Arming
<1> QED  BY <1>6 DEF TimersInv

\* ... which leaves the view, or has been overtaken by another view change.
LEMMA TimerCallbackTimes ==
  ASSUME TypeOK, TimersInv, NEW i \in Replica, NEW v \in 1 .. MaxView, TimerCallback(i, v)
  PROVE  TimersInv'
<1> DEFINE r == replica[i]
           left == r.callbacks \ {v}
           taken == [r EXCEPT !.callbacks = left]
           q(lost) == StartViewChange(taken, v, lost)
<1>1. r \in ReplicaState /\ r.id = i /\ v \in Nat
  BY BoundAssumption DEF TypeOK
<1>2. PICK lost : Run(q(lost), {})
  BY DEF TimerCallback
<1>3. left \in SUBSET Nat
  BY <1>1 DEF ReplicaState
<1>4. \A x \in r.callbacks : x # v => x \in left
  OBVIOUS
<1> HIDE DEF left
<1>5. /\ taken \in ReplicaState /\ taken.id = i /\ taken.view = r.view
      /\ taken.activeView = r.activeView /\ taken.pending = r.pending
      /\ taken.requestTimer = r.requestTimer /\ taken.callbacks = left
  BY <1>1, <1>3 DEF ReplicaState
<1> HIDE DEF taken
<1>6. q(lost) \in ReplicaState /\ q(lost).id = i
  BY <1>1, <1>5, StartViewChangeLeaves DEF Leaves
<1>7. Timed(q(lost)) \/ (~Timed(r) /\ q(lost).view = r.view)
  <2>1. CASE v > r.view
    BY <1>1, <1>5, <2>1, StartViewChangeTimes
  <2>2. CASE ~(v > r.view)
    <3>1. v <= taken.view
      BY <1>1, <1>5, <2>2 DEF ReplicaState
    <3>2. q(lost) = taken
      BY <3>1 DEF StartViewChange
    <3>3. r.requestTimer.target > r.view => r.requestTimer.target # v
      BY <2>2
    <3>4. Timed(r) => Timed(taken)
      BY <1>1, <1>4, <1>5, <3>3 DEF Timed, Covered, Waits, IsPrimary
    <3> QED  BY <1>5, <3>2, <3>4
  <2> QED  BY <2>1, <2>2
<1>8. UNCHANGED main
  BY DEF TimerCallback
<1> HIDE DEF q
<1> QED  BY <1>1, <1>2, <1>6, <1>7, <1>8, RunTimes

\* main stops the timer of a backup that had none when it looked, and is about to
\* set another,
LEMMA MainReadsViewTimes ==
  ASSUME TypeOK, TimersInv, NEW i \in Replica, MainReadsView(i)
  PROVE  TimersInv'
<1> DEFINE r == replica[i]
<1>1. r \in ReplicaState /\ r.id = i /\ i = main.next
  BY DEF TypeOK, MainReadsView
<1>2. PICK running \in {r.requestTimer.running, FALSE} :
         Run([r EXCEPT !.requestTimer.running = running], {})
  BY DEF MainReadsView
<1> DEFINE timer == [r.requestTimer EXCEPT !.running = running]
           q == [r EXCEPT !.requestTimer = timer]
<1>3. Run(q, {})
  BY <1>1, <1>2
<1>4. timer \in Timer
  BY <1>1 DEF ReplicaState, Timer
<1> HIDE DEF timer
<1>5. q \in ReplicaState /\ q.id = i /\ q.view = r.view
  BY <1>1, <1>4 DEF ReplicaState
<1> HIDE DEF q
<1>6. main'.next = i /\ main'.call.step = "timer" /\ main'.call.target = r.view + 1
  BY <1>1 DEF MainReadsView, TypeOK, TargetView
<1>7. replica'[i].view = r.view /\ r.view + 1 > r.view
  BY <1>1, <1>3, <1>5, ReturnedTimes DEF ReplicaState
<1>8. ArmsAhead(i)'
  BY <1>6, <1>7 DEF ArmsAhead, Arming
<1> QED  BY <1>1, <1>3, <1>5, <1>8, MainTimes

\* ... sets it, in time for the view that it leads to,
LEMMA MainArmsTimerTimes ==
  ASSUME TypeOK, TimersInv, NEW i \in Replica, MainArmsTimer(i), ArmsInTime
  PROVE  TimersInv'
<1> DEFINE r == replica[i]
           old == r.requestTimer
           timer == [target |-> main.call.target, running |-> TRUE]
           waiting == r.callbacks \cup (IF old.running THEN {old.target} ELSE {})
           q == [r EXCEPT !.requestTimer = timer, !.callbacks = waiting]
<1>1. r \in ReplicaState /\ r.id = i /\ i = main.next
  BY DEF TypeOK, MainArmsTimer
<1>2. main.call.target \in Nat
  BY DEF TypeOK, Calling, MainArmsTimer
<1>3. Run(q, {})
  BY Zenon DEF MainArmsTimer
<1>4. timer \in Timer /\ timer.target = main.call.target /\ timer.running
  BY <1>2 DEF Timer
<1>5. waiting \in SUBSET Nat
  BY <1>1 DEF ReplicaState, Timer
<1> HIDE DEF timer, waiting
<1>6. q \in ReplicaState /\ q.id = i /\ q.view = r.view /\ q.requestTimer = timer
  BY <1>1, <1>4, <1>5 DEF ReplicaState
<1> HIDE DEF q
<1>7. i \in Correct => q.requestTimer.target > q.view
  BY <1>4, <1>6 DEF ArmsInTime
<1>8. NoTimer.running = FALSE
  BY DEF NoTimer
<1>9. i \in Correct => Timed(q)
  BY <1>4, <1>6, <1>7, <1>8 DEF Timed, Covered
<1> QED  BY <1>1, <1>3, <1>6, <1>9, MainTimes

\* ... and notes the request,
LEMMA MainNotesRequestTimes ==
  ASSUME TypeOK, TimersInv, NEW i \in Replica, MainNotesRequest(i)
  PROVE  TimersInv'
<1> DEFINE r == replica[i]
           requests == r.requests \cup {i}
           q == [r EXCEPT !.requests = requests]
<1>1. r \in ReplicaState /\ r.id = i /\ i = main.next /\ i \in Digest
  BY DEF TypeOK, MainNotesRequest, Digest
<1>2. Run(q, {})
  BY DEF MainNotesRequest
<1>3. requests \in SUBSET Digest
  BY <1>1 DEF ReplicaState
<1> HIDE DEF requests
<1>4. q \in ReplicaState /\ q.id = i /\ LeavesTimer(r, q)
  BY <1>1, <1>3 DEF ReplicaState, LeavesTimer
<1> HIDE DEF q
<1>5. i \in Correct => Timed(q)
  <2>1. main.call.step = "note"
    BY DEF MainNotesRequest
  <2>2. ~ArmsAhead(i)
    BY <2>1 DEF ArmsAhead, Arming
  <2> QED  BY <1>4, <2>2, LeavesTimerTimes DEF TimersInv
<1> QED  BY <1>1, <1>2, <1>4, <1>5, MainTimes

\* ... proposes at a primary, which waits for nobody,
LEMMA MainProposesTimes ==
  ASSUME TypeOK, TimersInv, NEW i \in Replica, MainProposes(i)
  PROVE  TimersInv'
<1> DEFINE r == replica[i]
           known == [r EXCEPT !.requests = @ \cup {i}]
           noted == Equivocate(known)
           sent(lost) == SendPrePrepares(noted, <<i>>, lost)
           q(lost) == IF i \in r.pending THEN r ELSE sent(lost)
<1>1. r \in ReplicaState /\ r.id = i /\ i \in Digest /\ IsPrimary(r)
  BY DEF TypeOK, Digest, MainProposes
<1>0. i = main.next /\ (i \in Correct => Timed(r))
  <2>1. i = main.next /\ main.call.step = "outside"
    BY DEF MainProposes, MainEnters, Outside
  <2> QED  BY <2>1 DEF TimersInv, ArmsAhead, Arming
<1>2. PICK lost : Run(q(lost), {})
  BY Zenon DEF MainProposes
<1> HIDE DEF r
<1>3. known \in ReplicaState /\ known.id = i /\ LeavesTimer(r, known)
  BY <1>1 DEF ReplicaState, LeavesTimer
<1> HIDE DEF known
<1>4. noted \in {known, [known EXCEPT !.view = @ + 1]} /\ (i \in Correct => noted = known)
  BY <1>3 DEF Equivocate, Correct
<1>5. noted.id = i
  BY <1>3, <1>4 DEF ReplicaState
<1> HIDE DEF noted
<1>6. sent(lost).id = i /\ (i \in Correct => sent(lost) \in ReplicaState /\ Timed(sent(lost)))
  <2> DEFINE ms == {m \in PrePreparesFor(noted, <<i>>) : ~ConflictingPrePrepare(noted, m)}
             requests == noted.requests \cup Range(<<i>>)
             pending == noted.pending \cup Range(<<i>>)
             sequence == noted.sequence + Len(<<i>>)
             o == noted.outbox \cup {[msg |-> m, failed |-> Fails(m, lost)] : m \in ms}
             f == noted.failed \/ \E m \in ms : Fails(m, lost)
  <2>1. sent(lost) = [noted EXCEPT !.requests = requests, !.pending = pending,
                                   !.sequence = sequence, !.outbox = o, !.failed = f]
    BY Zenon DEF SendPrePrepares
  <2> HIDE DEF ms, requests, pending, sequence, o, f, sent
  <2>2. sent(lost).id = i
    BY <1>3, <1>4, <1>5, <2>1 DEF ReplicaState
  <2>3. ASSUME i \in Correct PROVE sent(lost) \in ReplicaState /\ Timed(sent(lost))
    <3>1. noted \in ReplicaState /\ LeavesTimer(r, noted)
      BY <1>3, <1>4, <2>3
    <3>2. <<i>> \in Seq(Digest)
      BY <1>1
    <3>3. sent(lost) \in ReplicaState
      BY <3>1, <3>2, SendPrePreparesKeeps DEF Keeps, sent
    <3>4. /\ sent(lost).id = noted.id /\ sent(lost).view = noted.view
          /\ sent(lost).requestTimer = noted.requestTimer
          /\ sent(lost).callbacks = noted.callbacks
      BY <2>1, <3>1 DEF ReplicaState
    <3>5. IsPrimary(sent(lost))
      BY <1>1, <3>1, <3>4 DEF LeavesTimer, IsPrimary
    <3>6. Timed(r)
      BY <1>0, <2>3
    <3> QED  BY <3>1, <3>3, <3>4, <3>5, <3>6 DEF Timed, Covered, Waits, LeavesTimer
  <2> QED  BY <2>2, <2>3
<1> HIDE DEF sent
<1>7. q(lost).id = i /\ (i \in Correct => q(lost) \in ReplicaState /\ Timed(q(lost)))
  BY <1>0, <1>1, <1>6
<1> HIDE DEF q
<1> QED  BY <1>0, <1>2, <1>7, MainTimes

\* ... and leaves the timer when it stores what it has proposed.
LEMMA MainStoresTimes ==
  ASSUME TypeOK, TimersInv, NEW i \in Replica, MainStoresPrePrepare(i)
  PROVE  TimersInv'
<1> DEFINE r == replica[i]
           q == StorePrePrepares(r, {main.call.msg})
           stored == {p \in r.preprepares : \A k \in {main.call.msg} : ~SameSlot(p, k)}
                       \cup {main.call.msg}
<1>1. r \in ReplicaState /\ r.id = i /\ i = main.next
  BY DEF TypeOK, MainStoresPrePrepare
<1>2. Run(q, {}) /\ main.call.msg \in PrePrepare
  BY DEF MainStoresPrePrepare, TypeOK, Calling
<1>3. q = [r EXCEPT !.preprepares = stored] /\ stored \in SUBSET PrePrepare
  BY <1>1, <1>2 DEF StorePrePrepares, ReplicaState
<1> HIDE DEF q, stored
<1>4. q \in ReplicaState /\ q.id = i /\ LeavesTimer(r, q)
  BY <1>1, <1>3 DEF ReplicaState, LeavesTimer
<1>5. i \in Correct => Timed(q)
  <2>1. main.call.step = "broadcast"
    BY DEF MainStoresPrePrepare
  <2>2. ~ArmsAhead(i)
    BY <2>1 DEF ArmsAhead, Arming
  <2> QED  BY <1>4, <2>2, LeavesTimerTimes DEF TimersInv
<1> QED  BY <1>1, <1>2, <1>4, <1>5, MainTimes

\* So every step of the cluster leaves correct backups with their timers, if it
\* lets nobody enter a view that it had not come to and no timer comes too late.
LEMMA TimersStep ==
  ASSUME TypeOK, OneReceipt, TimersInv, [Next /\ EntersItsView /\ ArmsInTime]_vars
  PROVE  TimersInv'
<1>1. CASE UNCHANGED vars
  BY <1>1 DEF vars, TimersInv, ArmsAhead, Arming
<1>2. CASE Next /\ EntersItsView /\ ArmsInTime
  <2>1. ASSUME NEW e \in net, Receive(e) PROVE TimersInv'
    BY <1>2, <2>1, ReceiveNormalTimes, ReceiveViewChangeTimes, ReceiveNewViewTimes DEF Receive
  <2>2. ASSUME Timers PROVE TimersInv'
    BY <2>2, TimerExpiresTimes, TimerCallbackTimes DEF Timers
  <2>3. ASSUME Main PROVE TimersInv'
    <3>1. PICK i \in Replica : \/ MainLooks(i) \/ MainTouches(i)
                               \/ MainProposes(i) \/ MainStoresPrePrepare(i)
      BY <2>3, MainSteps
    <3>2. CASE MainLooks(i)
      <4>1. UNCHANGED replica
        BY <3>2, MainLooking
      <4>2. main.call.step # "timer"
        BY <3>2 DEF MainLooks, MainAtBackup, MainReadsTimer, MainEnters, Outside
      <4> QED  BY <4>1, <4>2 DEF TimersInv, ArmsAhead, Arming
    <3>3. CASE MainTouches(i)
      BY <1>2, <3>3, MainReadsViewTimes, MainArmsTimerTimes, MainNotesRequestTimes
         DEF MainTouches
    <3> QED  BY <3>1, <3>2, <3>3, MainProposesTimes, MainStoresTimes
  <2> QED  BY <1>2, <2>1, <2>2, <2>3 DEF Next
<1> QED  BY <1>1, <1>2

\* Nobody waits for anything at first.
LEMMA TimersInitially == Init => TimersInv
<1> SUFFICES ASSUME Init PROVE TimersInv
  OBVIOUS
<1>1. ASSUME NEW i \in Replica PROVE replica[i].requestTimer = NoTimer /\ replica[i].pending = {}
  BY DEF Init, NewReplica
<1>2. ASSUME NEW i \in Replica PROVE Timed(replica[i])
  BY <1>1 DEF Timed, Covered, Waits
<1> QED  BY <1>2 DEF TimersInv, Correct

\* What is promised of a timer is what has to be covered.
LEMMA TimedCovers ==
  ASSUME TypeOK, TimersInv
  PROVE  TimerCoverage
<1> SUFFICES ASSUME NEW i \in Correct, Waits(replica[i])
             PROVE  \/ /\ replica[i].requestTimer.running
                       /\ replica[i].requestTimer.target > replica[i].view
                    \/ \E v \in replica[i].callbacks : v > replica[i].view
                    \/ ArmsAhead(i)
  BY Zenon DEF TimerCoverage, Waits, ArmsAhead, Arming
<1> DEFINE r == replica[i]
<1>1. Timed(r) \/ ArmsAhead(i)
  BY DEF TimersInv
<1>2. CASE Timed(r)
  BY <1>2 DEF Timed, Covered
<1> QED  BY <1>1, <1>2

(***************************************************************************)
(* In every cluster, and over any number of view changes, a backup that    *)
(* has accepted a request and not executed it has a timer that will take   *)
(* it to the next view, or main is about to set one, as long as            *)
(*  - every correct replica comes to a view by leaving its own for it: one *)
(*    that sends or takes a NewView while it waits for another view        *)
(*    (new_view.go) keeps the timer of the view it waited for, or none;    *)
(*  - main never sets a timer for a view that its replica has reached      *)
(*    since main read the view (timer.go:22 and 24): that timer takes the  *)
(*    replica nowhere, and handlers that find it start no other.           *)
(* These are the two ways to lose it.  No early return, no execution of    *)
(* another request (execute.go), no callback that comes too late and no    *)
(* timer that main overwrites (request.go) does.                           *)
(***************************************************************************)
THEOREM TimersLeadOn == Spec /\ [][EntersItsView /\ ArmsInTime]_vars => []TimerCoverage
<1> DEFINE I == ViewsInv /\ TimersInv
<1>1. Init => I
  BY ViewsInitially, TimersInitially
<1>2. I /\ [Next]_vars /\ [EntersItsView /\ ArmsInTime]_vars => I'
  <2> SUFFICES ASSUME I, [Next]_vars, [EntersItsView /\ ArmsInTime]_vars PROVE I'
    OBVIOUS
  <2>1. TypeOK /\ OneReceipt
    BY DEF ViewsInv, Inv, Truth
  <2>2. [Next /\ EntersItsView /\ ArmsInTime]_vars
    OBVIOUS
  <2> QED  BY <2>1, <2>2, ViewsInductive, TimersStep
<1>3. I => TimerCoverage
  BY TimedCovers DEF ViewsInv, Inv
<1> QED  BY <1>1, <1>2, <1>3, PTL DEF Spec

-----------------------------------------------------------------------------
(* One view change. *)

\* A replica in its first view is active: it can only have left it for another.
FirstIsActive == \A i \in Correct : replica[i].view = 0 => replica[i].activeView

\* A replica that becomes inactive has gone to a later view.
LEMMA FirstIsActiveStep ==
  ASSUME Inv, FirstIsActive, [Next]_vars
  PROVE  FirstIsActive'
<1>1. CASE UNCHANGED vars
  BY <1>1 DEF vars, FirstIsActive
<1>2. CASE Next
  <2>1. TypeOK /\ TypeOK' /\ ReplicasStep
    BY <1>2, NextStep DEF Inv
  <2>2. ASSUME NEW i \in Correct, replica'[i].view = 0 PROVE replica'[i].activeView
    <3>1. ViewStep(replica[i], replica'[i]) /\ replica[i].view \in Nat
      BY <2>1 DEF ReplicasStep, Correct, TypeOK, ReplicaState
    <3>2. replica[i].view = 0
      BY <2>2, <3>1 DEF ViewStep
    <3>3. replica[i].activeView
      BY <3>2 DEF FirstIsActive
    <3> QED  BY <2>2, <3>1, <3>2, <3>3 DEF ViewStep
  <2> QED  BY <2>2 DEF FirstIsActive
<1> QED  BY <1>1, <1>2

\* While there is but one view change, a replica that becomes active waits for no
\* other view.
LEMMA OneChangeEnters ==
  ASSUME Inv, FirstIsActive, Next, AtMostOneChange'
  PROVE  EntersItsView
<1>1. TypeOK /\ TypeOK' /\ ReplicasStep
  BY NextStep DEF Inv
<1>2. ASSUME NEW i \in Correct, ~replica[i].activeView, replica'[i].activeView
      PROVE  replica'[i].view = replica[i].view
  <2>1. /\ replica'[i].view >= replica[i].view
        /\ replica[i].view \in Nat /\ replica'[i].view \in Nat
    BY <1>1 DEF ReplicasStep, Correct, TypeOK, ReplicaState, ViewStep
  <2>2. replica[i].view # 0 /\ replica'[i].view <= 1
    BY <1>2 DEF FirstIsActive, AtMostOneChange
  <2> QED  BY <2>1, <2>2
<1> QED  BY <1>2 DEF EntersItsView

(***************************************************************************)
(* In every cluster, as long as no correct replica has gone beyond its     *)
(* second view, every backup that has accepted a request and not executed  *)
(* it has a timer that will take it to the next view (timer.go,            *)
(* execute.go, new_view.go), or main is about to set one, whatever a       *)
(* Byzantine primary has sent and what was lost, if main never sets a      *)
(* timer for a view that its replica has reached since.                    *)
(***************************************************************************)
THEOREM OneChangeTimers ==
  Spec /\ [][ArmsInTime]_vars => [](AtMostOneChange => TimerCoverage)
<1> DEFINE I == ViewsInv /\ FirstIsActive /\ (AtMostOneChange => TimersInv)
<1>1. Init => I
  <2>1. Init => FirstIsActive
    BY DEF Init, NewReplica, FirstIsActive, Correct
  <2> QED  BY <2>1, ViewsInitially, TimersInitially
<1>2. I /\ [Next]_vars /\ [ArmsInTime]_vars => I'
  <2> SUFFICES ASSUME I, [Next]_vars, [ArmsInTime]_vars PROVE I'
    OBVIOUS
  <2>1. Inv /\ TypeOK /\ OneReceipt
    BY DEF ViewsInv, Inv, Truth
  <2>2. FirstIsActive' /\ ViewsInv'
    BY <2>1, FirstIsActiveStep, ViewsInductive
  <2>3. ASSUME AtMostOneChange' PROVE TimersInv'
    <3>1. AtMostOneChange
      BY <2>1, <2>3, OneChangeBefore
    <3>2. [Next /\ EntersItsView /\ ArmsInTime]_vars
      BY <2>1, <2>3, OneChangeEnters
    <3> QED  BY <2>1, <3>1, <3>2, TimersStep
  <2> QED  BY <2>2, <2>3
<1>3. I => (AtMostOneChange => TimerCoverage)
  BY TimedCovers DEF ViewsInv, Inv
<1> QED  BY <1>1, <1>2, <1>3, PTL DEF Spec

-----------------------------------------------------------------------------
(* What a replica says of a view change. *)

\* A view change that is handled is in the receipts afterwards.
LEMMA RecordViewChangeAdds ==
  ASSUME NEW r \in ReplicaState, NEW from, NEW m
  PROVE  LET q == RecordViewChangeReceipt(r, from, m) IN
         /\ q.outbox = r.outbox /\ q.failed = r.failed
         /\ r.viewChanges \subseteq q.viewChanges
         /\ \A x \in q.viewChanges : x \in r.viewChanges \/ (x.from = from /\ x.msg = m)
         /\ \E x \in q.viewChanges : x.from = from /\ x.msg.view = m.view
<1> DEFINE q == RecordViewChangeReceipt(r, from, m)
           new == [from |-> from, msg |-> m]
           known == \E x \in r.viewChanges : x.from = from /\ x.msg.view = m.view
<1>1. CASE known
  <2>1. q = r
    BY <1>1, Zenon DEF RecordViewChangeReceipt
  <2> QED  BY <1>1, <2>1
<1>2. CASE ~known
  <2>1. q = [r EXCEPT !.viewChanges = @ \cup {new}]
    BY <1>2, Zenon DEF RecordViewChangeReceipt
  <2>2. new.from = from /\ new.msg = m
    OBVIOUS
  <2> HIDE DEF new
  <2>3. q.viewChanges = r.viewChanges \cup {new} /\ q.outbox = r.outbox /\ q.failed = r.failed
    BY <2>1 DEF ReplicaState
  <2> HIDE DEF q
  <2> QED  BY <2>2, <2>3 DEF q
<1> HIDE DEF known
<1> QED  BY <1>1, <1>2

\* A replica that leaves its view says so to the others, and notes it unless the
\* broadcast has failed.
LEMMA StartViewChangeAnnounces ==
  ASSUME NEW r \in ReplicaState, NEW v \in Nat, v > r.view, NEW lost
  PROVE  LET q == StartViewChange(r, v, lost) IN
         /\ q \in ReplicaState /\ q.id = r.id /\ q.view = v /\ ~q.activeView
         /\ r.viewChanges \subseteq q.viewChanges
         /\ \A x \in q.viewChanges : x \in r.viewChanges \/ (x.from = r.id /\ x.msg.view = v)
         /\ q.failed \/ \E x \in q.viewChanges : x.from = r.id /\ x.msg.view = v
         /\ \E o \in q.outbox : o.msg = ViewChangeFor(r, v) /\ (o.failed => q.failed)
<1> DEFINE vc == ViewChangeFor(r, v)
           left == [StopRequestTimer(r) EXCEPT !.view = v, !.activeView = FALSE]
           o == [msg |-> vc, failed |-> Fails(vc, lost)]
           sent == Broadcast(left, vc, lost)
           q == StartViewChange(r, v, lost)
<1>1. vc \in ViewChange /\ vc \in Message /\ vc.view = v
  BY ViewChangeForType DEF ViewChangeFor
<1>2. q = IF Fails(vc, lost) THEN sent ELSE RecordViewChangeReceipt(sent, r.id, vc)
  <2>1. ~(v <= r.view)
    BY DEF ReplicaState
  <2> QED  BY <2>1, Zenon DEF StartViewChange
<1>3. q \in ReplicaState /\ q.id = r.id /\ q.view = v /\ ~q.activeView
  <2>1. q \in ReplicaState /\ q.view = v /\ ~q.activeView
    BY StartViewChangeTurns, StartViewChangeTells
  <2>2. Turns(r, q, {})
    BY StartViewChangeTurns
  <2> QED  BY <2>1, <2>2 DEF Turns
<1>4. o.msg = vc /\ o.failed = Fails(vc, lost) /\ Fails(vc, lost) \in BOOLEAN
  BY DEF Fails
<1> HIDE DEF vc
<1>5. /\ left \in ReplicaState /\ left.viewChanges = r.viewChanges
      /\ left.id = r.id
  BY StopTimerKeeps DEF StopRequestTimer, ReplicaState, Keeps
<1> HIDE DEF left, o
<1>6. /\ sent \in ReplicaState /\ sent.viewChanges = r.viewChanges
      /\ sent.outbox = left.outbox \cup {o} /\ (Fails(vc, lost) => sent.failed)
  <2>1. sent \in ReplicaState
    BY <1>1, <1>5, BroadcastKeeps DEF Keeps
  <2>2. sent = [left EXCEPT !.outbox = @ \cup {o}, !.failed = @ \/ Fails(vc, lost)]
    BY DEF Broadcast, o
  <2> HIDE DEF sent
  <2> QED  BY <1>4, <1>5, <2>1, <2>2 DEF ReplicaState
<1> HIDE DEF sent, q
<1>7. CASE Fails(vc, lost)
  <2>1. q = sent
    BY <1>2, <1>7
  <2> QED  BY <1>3, <1>4, <1>6, <1>7, <2>1 DEF q, vc
<1>8. CASE ~Fails(vc, lost)
  <2>1. q = RecordViewChangeReceipt(sent, r.id, vc)
    BY <1>2, <1>8
  <2>2. /\ q.outbox = sent.outbox /\ sent.viewChanges \subseteq q.viewChanges
        /\ \A x \in q.viewChanges : x \in sent.viewChanges \/ (x.from = r.id /\ x.msg = vc)
        /\ \E x \in q.viewChanges : x.from = r.id /\ x.msg.view = vc.view
    BY <1>6, <2>1, RecordViewChangeAdds
  <2> QED  BY <1>1, <1>3, <1>4, <1>6, <1>8, <2>2 DEF q, vc
<1> QED  BY <1>7, <1>8

\* A replica joins the earliest view change it may join.
LEMMA MaybeJoinChooses ==
  ASSUME NEW r \in ReplicaState, NEW lost
  PROVE  LET q == MaybeJoinViewChange(r, lost) IN
         \/ q = r /\ (r.activeView => JoinableViews(r) = {})
         \/ /\ r.activeView
            /\ \E v \in JoinableViews(r) : /\ v \in Nat /\ v > r.view
                                           /\ \A w \in JoinableViews(r) : v <= w
                                           /\ q = StartViewChange(r, v, lost)
<1> DEFINE k == CHOOSE w \in SmallestJoinableViews(r) : TRUE
<1>1. JoinableViews(r) \in SUBSET Nat /\ \A w \in JoinableViews(r) : w > r.view
  BY NamedViews DEF JoinableViews
<1>2. CASE r.activeView /\ SmallestJoinableViews(r) # {}
  <2>1. MaybeJoinViewChange(r, lost) = StartViewChange(r, k, lost)
    BY <1>2, Zenon DEF MaybeJoinViewChange
  <2>2. k \in SmallestJoinableViews(r)
    BY <1>2
  <2> HIDE DEF k
  <2>3. k \in JoinableViews(r) /\ \A w \in JoinableViews(r) : k <= w
    BY <2>2 DEF SmallestJoinableViews
  <2> QED  BY <1>1, <1>2, <2>1, <2>3
<1>3. CASE ~(r.activeView /\ SmallestJoinableViews(r) # {})
  <2>1. MaybeJoinViewChange(r, lost) = r
    BY <1>3, Zenon DEF MaybeJoinViewChange
  <2>2. ASSUME r.activeView PROVE JoinableViews(r) = {}
    <3>1. SmallestJoinableViews(r) = {}
      BY <1>3, <2>2
    <3>2. JoinableViews(r) # {} => \E w \in JoinableViews(r) : \A u \in JoinableViews(r) : w <= u
      BY <1>1, SmallestNumber
    <3> QED  BY <3>1, <3>2 DEF SmallestJoinableViews
  <2> QED  BY <2>1, <2>2
<1> QED  BY <1>2, <1>3

\* A primary that starts a view, its NewView not failing, sends it with all the
\* ViewChanges that it has.
LEMMA StartNewViewAnnounces ==
  ASSUME NEW r \in ReplicaState, NEW v \in Nat, NEW lost, <<"NewView", 0>> \notin lost,
         NEW q \in StartNewView(r, v, lost)
  PROVE  /\ q \in ReplicaState /\ q.id = r.id /\ q.view = v /\ q.activeView
         /\ r.viewChanges \subseteq q.viewChanges
         /\ \E o \in q.outbox : /\ ~o.failed
                                /\ o.msg.type = "NewView" /\ o.msg.view = v
                                /\ o.msg.messages = ViewChangesOf(q, v)
<1> DEFINE vc == ViewChangeFor(r, v)
           own == RecordViewChangeReceipt(r, r.id, vc)
           msgs == ViewChangesOf(own, v)
           newView(pps) == [type |-> "NewView", view |-> v, messages |-> msgs,
                            preprepares |-> pps]
           sent(pps) == Broadcast(own, newView(pps), lost)
<1>1. vc \in ViewChange /\ r.id \in Replica
  BY ViewChangeForType DEF ReplicaState
<1>2. /\ q.viewChanges = own.viewChanges
      /\ \E pps \in GeneratePrePrepares(v, msgs) : Starts(r, q, v, pps)
  BY StartNewViewStarts
<1>3. q \in ReplicaState /\ q.id = r.id
  BY <1>2 DEF Starts
<1> HIDE DEF vc
<1>4. own \in ReplicaState /\ r.viewChanges \subseteq own.viewChanges
  BY <1>1, RecordViewChangeKeeps, RecordViewChangeAdds DEF Keeps
<1> HIDE DEF own
<1>5. msgs \in SUBSET ViewChangeReceipt
  BY <1>4 DEF ViewChangesOf, ReplicaState
<1>6. msgs = ViewChangesOf(q, v)
  BY <1>2 DEF ViewChangesOf
<1> HIDE DEF msgs
<1>7. PICK pps \in GeneratePrePrepares(v, msgs) :
         q \in IF Fails(newView(pps), lost)
                 THEN {sent(pps)}
                 ELSE ProposeOutstanding(EnterOwnView(sent(pps), v, pps), lost)
  BY Zenon DEF StartNewView, own, msgs, vc
<1>8. pps \in Seq(PrePrepare) /\ \A m \in Range(pps) : m \in PrePrepare /\ m.view = v
  BY <1>5, GeneratePrePreparesType
<1> DEFINE nv == newView(pps)
           s == sent(pps)
           e == EnterOwnView(s, v, pps)
           o == [msg |-> nv, failed |-> Fails(nv, lost)]
<1>9. nv \in Message /\ nv.type = "NewView" /\ nv.view = v /\ nv.messages = msgs
  BY <1>5, <1>8 DEF NewView, Message
<1>10. ~Fails(nv, lost)
  BY <1>9 DEF Fails
<1>11. q \in ProposeOutstanding(e, lost)
  BY <1>7, <1>10
<1>12. s \in ReplicaState
  BY <1>4, <1>9, BroadcastKeeps DEF Keeps
<1>18. s.outbox = own.outbox \cup {o}
  BY <1>4 DEF Broadcast, ReplicaState
<1>17. o.msg = nv /\ ~o.failed
  BY <1>10
<1> HIDE DEF nv, s, o
<1>13. e \in ReplicaState /\ e.outbox = s.outbox /\ e.view = v /\ e.activeView
  BY <1>8, <1>12, EnterOwnViewOpens DEF Opens
<1> HIDE DEF e
<1>14. q.view = v /\ q.activeView
  BY <1>11, <1>13, ProposeOutstandingTimes
<1>15. e.outbox \subseteq q.outbox
  <2>1. PICK order \in SetToSeqs({GetDigest(d) : d \in OutstandingRequests(e)} \ e.pending) :
           q = StorePrePrepares(SendPrePrepares(e, order, lost),
                                {m \in PrePreparesFor(e, order) :
                                   ~ConflictingPrePrepare(e, m) /\ ~Fails(m, lost)})
    BY <1>11, Zenon DEF ProposeOutstanding
  <2> DEFINE se == SendPrePrepares(e, order, lost)
  <2>2. e.outbox \subseteq se.outbox
    BY <1>13 DEF SendPrePrepares, ReplicaState
  <2>3. q.outbox = se.outbox
    <3>1. "outbox" \in DOMAIN se
      BY <1>13 DEF SendPrePrepares, ReplicaState
    <3> HIDE DEF se
    <3> QED  BY <2>1, <3>1 DEF StorePrePrepares, se
  <2> QED  BY <2>2, <2>3
<1>16. o \in q.outbox
  BY <1>13, <1>15, <1>18
<1> QED  BY <1>3, <1>2, <1>4, <1>6, <1>9, <1>17, <1>14, <1>16

\* The view changes for the second view that replica r has from others.
Others(r) == {x \in ViewChangesOf(r, 1) : x.from # r.id}

\* Its own view change for it.
OwnNoted(r) == \E x \in ViewChangesOf(r, 1) : x.from = r.id

\* Replica r has not enough view changes to enter the second view: in the first,
\* not even enough to join that view change, and then too few to start the view.
\* It misses its own only when a broadcast has failed (f).
Undecided(r, f) ==
    /\ r.view = 0 => Cardinality(Others(r)) <= F
    /\ r.view = 1 /\ ~r.activeView => ~ViewChangeReady(r, 1) /\ (OwnNoted(r) \/ f)

\* Each sender is recorded once, so these sets can be counted.
LEMMA OthersFinite ==
  ASSUME NEW r \in ReplicaState, OneEach(r)
  PROVE  /\ IsFiniteSet(ViewChangesOf(r, 1)) /\ Cardinality(ViewChangesOf(r, 1)) \in Nat
         /\ IsFiniteSet(Others(r)) /\ Cardinality(Others(r)) \in Nat
<1>1. \A x \in ViewChangesOf(r, 1) : x.from \in Replica
  BY NamedViews DEF ViewChangesOf
<1>2. IsFiniteSet(ViewChangesOf(r, 1))
  BY <1>1, SendersDiffer
<1>3. Others(r) \subseteq ViewChangesOf(r, 1)
  BY DEF Others
<1> QED  BY <1>2, <1>3, FS_Subset, FS_CardinalityType

\* Of a quorum for the second view f+1 are from others,
LEMMA ReadyHasOthers ==
  ASSUME NEW r \in ReplicaState, OneEach(r), ViewChangeReady(r, 1)
  PROVE  ~(Cardinality(Others(r)) <= F)
<1> DEFINE before == [r EXCEPT !.view = 0]
<1>1. /\ before \in ReplicaState /\ before.view = 0 /\ before.viewChanges = r.viewChanges
      /\ before.id = r.id
  BY DEF ReplicaState
<1> HIDE DEF before
<1>2. OneEach(before) /\ ViewChangeReady(before, 1)
  BY <1>1 DEF OneEach, ViewChangeReady, ViewChangesOf
<1>3. 1 \in JoinableViews(before)
  BY <1>1, <1>2, ReadyIsJoinable
<1>4. Cardinality({x \in ViewChangesOf(before, 1) : x.from # before.id}) >= F + 1
  BY <1>3 DEF JoinableViews
<1>5. {x \in ViewChangesOf(before, 1) : x.from # before.id} = Others(r)
  BY <1>1 DEF ViewChangesOf, Others
<1> QED  BY <1>4, <1>5, OthersFinite, ToleratesOne

\* ... and with f+1 from others a replica in its first view may join.
LEMMA OthersJoinable ==
  ASSUME NEW r \in ReplicaState, OneEach(r), r.view = 0
  PROVE  1 \in JoinableViews(r) <=> ~(Cardinality(Others(r)) <= F)
<1>1. Cardinality(Others(r)) \in Nat
  BY OthersFinite
<1>2. 1 \in JoinableViews(r) => ~(Cardinality(Others(r)) <= F)
  BY <1>1, ToleratesOne DEF JoinableViews, Others
<1>3. ASSUME ~(Cardinality(Others(r)) <= F) PROVE 1 \in JoinableViews(r)
  <2>1. Cardinality(Others(r)) >= F + 1
    BY <1>1, <1>3, ToleratesOne
  <2>2. Others(r) # {}
    <3>1. Cardinality({}) = 0
      BY FS_EmptySet
    <3> QED  BY <1>3, <3>1, ToleratesOne
  <2>3. \E x \in r.viewChanges : x.msg.view = 1
    BY <2>2 DEF Others, ViewChangesOf
  <2> QED  BY <2>1, <2>3 DEF JoinableViews, Others
<1> QED  BY <1>2, <1>3

\* A replica whose timer takes it into the second view cannot start it yet.
LEMMA LeavesUndecided ==
  ASSUME NEW r \in ReplicaState, OneEach(r), r.view = 0, NEW f, Undecided(r, f), NEW lost
  PROVE  LET q == StartViewChange(r, 1, lost) IN Undecided(q, f \/ q.failed)
<1> DEFINE q == StartViewChange(r, 1, lost)
<1>1. /\ q \in ReplicaState /\ q.id = r.id /\ q.view = 1 /\ ~q.activeView
      /\ r.viewChanges \subseteq q.viewChanges
      /\ \A x \in q.viewChanges : x \in r.viewChanges \/ (x.from = r.id /\ x.msg.view = 1)
      /\ q.failed \/ \E x \in q.viewChanges : x.from = r.id /\ x.msg.view = 1
  BY StartViewChangeAnnounces
<1>2. OneEach(q)
  BY StartViewChangeTells DEF Tells
<1> HIDE DEF q
<1>3. Others(q) = Others(r)
  BY <1>1 DEF Others, ViewChangesOf
<1>4. ~ViewChangeReady(q, 1)
  BY <1>1, <1>2, <1>3, ReadyHasOthers DEF Undecided
<1>5. q.failed \/ OwnNoted(q)
  BY <1>1 DEF OwnNoted, ViewChangesOf
<1> QED  BY <1>1, <1>4, <1>5 DEF Undecided, q

\* A view change that the primary of the second view receives leaves it undecided,
\* or makes it start the view with a NewView.
LEMMA PrimaryReceives ==
  ASSUME NEW r \in ReplicaState, OneEach(r), r.id = 1, r.view = 0 => r.activeView,
         NEW f, Undecided(r, f), NEW from \in Replica, NEW m \in ViewChange,
         NEW lost, <<"NewView", 0>> \notin lost,
         NEW q \in ProcessViewChange(r, from, m, lost), q.view <= 1
  PROVE  \/ /\ q.view = 1 /\ q.activeView => r.view = 1 /\ r.activeView
            /\ Undecided(q, f \/ q.failed)
            /\ r.viewChanges \subseteq q.viewChanges
            /\ m.view >= r.view /\ ValidViewChange(m) =>
                 \E x \in q.viewChanges : x.from = from /\ x.msg.view = m.view
         \/ /\ q.view = 1 /\ q.activeView
            /\ r.view = 0 \/ (r.view = 1 /\ ~r.activeView)
            /\ Cardinality(ViewChangesOf(q, 1)) >= CommitQuorum
            /\ \E o \in q.outbox : /\ ~o.failed
                                   /\ o.msg.type = "NewView" /\ o.msg.view = 1
                                   /\ o.msg.messages = ViewChangesOf(q, 1)
<1> DEFINE recorded == RecordViewChangeReceipt(r, from, m)
           joined == MaybeJoinViewChange(recorded, lost)
<1>1. m.view \in Nat /\ r.view \in Nat /\ r.activeView \in BOOLEAN
  BY DEF ViewChange, ReplicaState
<1>2. /\ recorded \in ReplicaState /\ recorded.id = 1 /\ recorded.view = r.view
      /\ recorded.activeView = r.activeView
  BY RecordViewChangeKeeps DEF Keeps
<1>3. /\ recorded.failed = r.failed /\ r.viewChanges \subseteq recorded.viewChanges
      /\ \A x \in recorded.viewChanges : x \in r.viewChanges \/ (x.from = from /\ x.msg = m)
      /\ \E x \in recorded.viewChanges : x.from = from /\ x.msg.view = m.view
  BY RecordViewChangeAdds
<1>4. OneEach(recorded)
  <2>1. [from |-> from, msg |-> m] \in {[from |-> from, msg |-> m]}
    OBVIOUS
  <2> QED  BY <2>1, RecordViewChangeTells DEF Tells
<1>5. m.view # 1 => /\ ViewChangesOf(recorded, 1) = ViewChangesOf(r, 1)
                    /\ Others(recorded) = Others(r)
  BY <1>2, <1>3 DEF ViewChangesOf, Others
<1>6. CASE m.view < r.view \/ ~ValidViewChange(m)
  <2>1. q = r
    BY <1>6 DEF ProcessViewChange
  <2>2. ~(m.view >= r.view /\ ValidViewChange(m))
    BY <1>1, <1>6
  <2> QED  BY <2>1, <2>2 DEF Undecided
<1>7. CASE ~(m.view < r.view \/ ~ValidViewChange(m))
  <2>1. m.view > 0 /\ m.view >= r.view
    BY <1>1, <1>7 DEF ValidViewChange
  <2>2. CASE m.view = r.view /\ r.activeView
    <3>1. q = recorded
      BY <1>7, <2>2, Zenon DEF ProcessViewChange, recorded
    <3>2. r.view = 1
      BY <1>1, <1>2, <2>1, <2>2, <3>1
    <3> HIDE DEF recorded
    <3>3. q.view = 1 /\ q.activeView /\ r.activeView
      BY <1>2, <2>2, <3>1, <3>2
    <3>4. Undecided(q, f \/ q.failed)
      BY <3>3 DEF Undecided
    <3> QED  BY <1>3, <3>1, <3>2, <3>3, <3>4
  <2>3. CASE /\ ~(m.view = r.view /\ r.activeView)
             /\ ~(Primary(m.view) = r.id /\ ViewChangeReady(joined, m.view))
    <3>1. q = joined
      BY <1>7, <2>3 DEF ProcessViewChange, recorded, joined
    <3>2. m.view = 1 => ~ViewChangeReady(q, 1)
      BY <2>3, <3>1, SecondPrimary
    <3>3. \/ q = recorded /\ (recorded.activeView => JoinableViews(recorded) = {})
          \/ /\ recorded.activeView
             /\ \E v \in JoinableViews(recorded) :
                   v \in Nat /\ v > recorded.view /\ q = StartViewChange(recorded, v, lost)
      BY <1>2, <3>1, MaybeJoinChooses
    <3> HIDE DEF recorded, joined
    <3>4. CASE q = recorded /\ (recorded.activeView => JoinableViews(recorded) = {})
      <4>1. q.view = 0 => Cardinality(Others(q)) <= F
        BY <1>2, <1>4, <3>4, OthersJoinable
      <4>2. ASSUME q.view = 1, ~q.activeView
            PROVE  ~ViewChangeReady(q, 1) /\ (OwnNoted(q) \/ f)
        <5>1. ~ViewChangeReady(r, 1) /\ (OwnNoted(r) \/ f)
          BY <1>2, <3>4, <4>2 DEF Undecided
        <5>2. OwnNoted(r) => OwnNoted(q)
          BY <1>2, <1>3, <3>4 DEF OwnNoted, ViewChangesOf
        <5>3. m.view # 1 => (OwnNoted(q) <=> OwnNoted(r)) /\ (ViewChangeReady(q, 1) <=> ViewChangeReady(r, 1))
          BY <1>2, <1>5, <3>4 DEF OwnNoted, ViewChangeReady
        <5> QED  BY <3>2, <5>1, <5>2, <5>3
      <4> QED  BY <1>2, <1>3, <3>4, <4>1, <4>2 DEF Undecided
    <3>5. CASE /\ recorded.activeView
               /\ \E v \in JoinableViews(recorded) :
                     v \in Nat /\ v > recorded.view /\ q = StartViewChange(recorded, v, lost)
      <4>1. PICK v \in JoinableViews(recorded) :
                   v \in Nat /\ v > recorded.view /\ q = StartViewChange(recorded, v, lost)
        BY <3>5
      <4>2. /\ q.id = 1 /\ q.view = v /\ ~q.activeView
            /\ recorded.viewChanges \subseteq q.viewChanges
            /\ q.failed \/ \E x \in q.viewChanges : x.from = 1 /\ x.msg.view = v
        BY <1>2, <4>1, StartViewChangeAnnounces
      <4>3. v = 1 /\ r.view = 0
        BY <1>1, <1>2, <4>1, <4>2
      <4>4. m.view = 1
        BY <1>2, <1>4, <1>5, <4>1, <4>3, OthersJoinable DEF Undecided
      <4>5. q.failed \/ OwnNoted(q)
        BY <4>2, <4>3 DEF OwnNoted, ViewChangesOf
      <4>6. Undecided(q, f \/ q.failed)
        BY <3>2, <4>2, <4>3, <4>4, <4>5 DEF Undecided
      <4> QED  BY <1>3, <4>2, <4>6
    <3> QED  BY <3>3, <3>4, <3>5
  <2>4. CASE /\ ~(m.view = r.view /\ r.activeView)
             /\ Primary(m.view) = r.id /\ ViewChangeReady(joined, m.view)
    <3>1. q \in StartNewView(joined, m.view, lost)
      BY <1>7, <2>4 DEF ProcessViewChange, recorded, joined
    <3>2. joined \in ReplicaState
      BY <1>2, MaybeJoinLeaves DEF Leaves
    <3> HIDE DEF joined
    <3> DEFINE v == m.view
    <3>8. v \in Nat /\ q \in StartNewView(joined, v, lost)
      BY <1>1, <3>1
    <3> HIDE DEF v
    <3>9. /\ q \in ReplicaState /\ q.id = joined.id /\ q.view = v /\ q.activeView
          /\ joined.viewChanges \subseteq q.viewChanges
          /\ \E o \in q.outbox : /\ ~o.failed
                                 /\ o.msg.type = "NewView" /\ o.msg.view = v
                                 /\ o.msg.messages = ViewChangesOf(q, v)
      BY <3>2, <3>8, StartNewViewAnnounces
    <3>3. /\ q.view = m.view /\ q.activeView /\ q \in ReplicaState
          /\ joined.viewChanges \subseteq q.viewChanges
          /\ \E o \in q.outbox : /\ ~o.failed
                                 /\ o.msg.type = "NewView" /\ o.msg.view = m.view
                                 /\ o.msg.messages = ViewChangesOf(q, m.view)
      BY <3>9 DEF v
    <3>4. m.view = 1
      BY <1>1, <2>1, <3>3
    <3>5. r.view = 0 \/ (r.view = 1 /\ ~r.activeView)
      BY <1>1, <2>1, <2>4, <3>4
    <3>6. OneEach(q)
      <4> DEFINE H == {[from |-> from, msg |-> m]}
      <4>1. [from |-> from, msg |-> m] \in H
        OBVIOUS
      <4> HIDE DEF H
      <4>2. Tells(r, q, H, {}) \/ Tells(r, q, H, {m.view})
        BY <4>1, ProcessViewChangeTells
      <4> QED  BY <4>2 DEF Tells
    <3>7. Cardinality(ViewChangesOf(q, 1)) >= CommitQuorum
      <4>1. ViewChangesOf(joined, 1) \subseteq ViewChangesOf(q, 1)
        BY <3>3 DEF ViewChangesOf
      <4>2. IsFiniteSet(ViewChangesOf(q, 1))
        BY <3>3, <3>6, OthersFinite
      <4>3. /\ Cardinality(ViewChangesOf(joined, 1)) <= Cardinality(ViewChangesOf(q, 1))
            /\ Cardinality(ViewChangesOf(joined, 1)) \in Nat
            /\ Cardinality(ViewChangesOf(q, 1)) \in Nat
        BY <4>1, <4>2, FS_Subset, FS_CardinalityType
      <4>4. Cardinality(ViewChangesOf(joined, 1)) >= CommitQuorum
        BY <2>4, <3>4 DEF ViewChangeReady
      <4> QED  BY <4>3, <4>4, ToleratesOne DEF CommitQuorum
    <3> QED  BY <3>3, <3>4, <3>5, <3>7
  <2> QED  BY <2>2, <2>3, <2>4
<1> QED  BY <1>6, <1>7

\* A replica that a view change takes out of its view says so, and one that stays
\* in its first view keeps its timer.
LEMMA ReceiverAnnounces ==
  ASSUME NEW r \in ReplicaState, NEW from \in Replica, NEW m \in ViewChange,
         NEW lost, <<"NewView", 0>> \notin lost, NEW q \in ProcessViewChange(r, from, m, lost)
  PROVE  \/ /\ q.view = r.view /\ q.activeView = r.activeView
            /\ q.requestTimer = r.requestTimer /\ q.callbacks = r.callbacks
         \/ /\ q.view > r.view /\ ~q.activeView
            /\ \E o \in q.outbox : /\ o.failed => q.failed
                                   /\ o.msg.type = "ViewChange" /\ o.msg.view = q.view
         \/ q.view = m.view /\ m.view > 0 /\ q.activeView /\ Primary(m.view) = r.id
<1> DEFINE recorded == RecordViewChangeReceipt(r, from, m)
           joined == MaybeJoinViewChange(recorded, lost)
<1>1. m.view \in Nat
  BY DEF ViewChange
<1>2. Keeps(r, recorded) /\ recorded \in ReplicaState /\ LeavesTimer(r, recorded)
  BY RecordViewChangeKeeps, RecordsLeaveTimer DEF Keeps
<1> HIDE DEF recorded
<1>3. \/ joined = recorded
      \/ /\ joined.view > recorded.view /\ ~joined.activeView
         /\ \E o \in joined.outbox : /\ o.failed => joined.failed
                                     /\ o.msg.type = "ViewChange" /\ o.msg.view = joined.view
  <2>1. \/ joined = recorded
        \/ \E v \in JoinableViews(recorded) :
              v \in Nat /\ v > recorded.view /\ joined = StartViewChange(recorded, v, lost)
    BY <1>2, MaybeJoinChooses
  <2>2. ASSUME NEW v \in Nat, v > recorded.view, joined = StartViewChange(recorded, v, lost)
        PROVE  /\ joined.view > recorded.view /\ ~joined.activeView
               /\ \E o \in joined.outbox : /\ o.failed => joined.failed
                                           /\ o.msg.type = "ViewChange"
                                           /\ o.msg.view = joined.view
    <3>1. /\ joined.view = v /\ ~joined.activeView
          /\ \E o \in joined.outbox : /\ o.msg = ViewChangeFor(recorded, v)
                                      /\ o.failed => joined.failed
      BY <1>2, <2>2, StartViewChangeAnnounces
    <3>2. /\ ViewChangeFor(recorded, v).type = "ViewChange"
          /\ ViewChangeFor(recorded, v).view = v
      BY DEF ViewChangeFor
    <3> HIDE DEF joined
    <3> QED  BY <2>2, <3>1, <3>2
  <2> HIDE DEF joined
  <2> QED  BY <2>1, <2>2
<1>4. CASE m.view < r.view \/ ~ValidViewChange(m)
  <2>1. q = r
    BY <1>4 DEF ProcessViewChange
  <2> QED  BY <2>1
<1>5. CASE ~(m.view < r.view \/ ~ValidViewChange(m))
  <2>1. m.view > 0
    BY <1>1, <1>5 DEF ValidViewChange
  <2>2. CASE m.view = r.view /\ r.activeView
    <3>1. q = recorded
      BY <1>5, <2>2, Zenon DEF ProcessViewChange, recorded
    <3> QED  BY <1>2, <3>1 DEF LeavesTimer
  <2>3. CASE /\ ~(m.view = r.view /\ r.activeView)
             /\ ~(Primary(m.view) = r.id /\ ViewChangeReady(joined, m.view))
    <3>1. q = joined
      BY <1>5, <2>3 DEF ProcessViewChange, recorded, joined
    <3> HIDE DEF joined
    <3> QED  BY <1>2, <1>3, <3>1 DEF LeavesTimer
  <2>4. CASE /\ ~(m.view = r.view /\ r.activeView)
             /\ Primary(m.view) = r.id /\ ViewChangeReady(joined, m.view)
    <3>1. q \in StartNewView(joined, m.view, lost)
      BY <1>5, <2>4 DEF ProcessViewChange, recorded, joined
    <3>2. joined \in ReplicaState
      BY <1>2, MaybeJoinLeaves DEF Leaves
    <3>3. q.view = m.view /\ q.activeView
      BY <1>1, <3>1, <3>2, StartNewViewAnnounces
    <3> QED  BY <2>1, <2>4, <3>3
  <2> QED  BY <2>2, <2>3, <2>4
<1> QED  BY <1>4, <1>5
-----------------------------------------------------------------------------
(* A view change that ends: replica 0 is silent in the first view, because *)
(* it is Byzantine, and replica 1, which leads the second, is correct.     *)

SilentThenCorrect == 0 \in Byzantine /\ 1 \in Correct

\* Nobody says anything of the first view,
NothingFirst == \A e \in net : e.msg.type \in NormalCase => e.msg.view > 0

\* ... so a replica in it has the timer that main has set, or is going to, and that
\* takes it out of it.
Served(i) ==
    main.next > i \/ (main.next = i /\ main.call.step \in {"note", "broadcast"})

FirstWaits ==
    \A i \in Correct : replica[i].view = 0 =>
       /\ Covered(replica[i]) \/ Arming(i)
       /\ Served(i) => replica[i].requestTimer # NoTimer

\* A primary that has not started the second view yet,
Starting(r) == r.view = 0 \/ (r.view = 1 /\ ~r.activeView)

\* ... the view change of replica i for it, on the way or received,
Noted(i) ==
    \/ \E e \in net : e.from = i /\ e.to = 1 /\ e.msg.type = "ViewChange" /\ e.msg.view = 1
    \/ \E x \in replica[1].viewChanges : x.from = i /\ x.msg.view = 1

\* ... and the NewView that takes replica i there.
Invites(e, i) ==
    /\ e.from = 1 /\ e.to = i
    /\ e.msg.type = "NewView" /\ e.msg.view = 1
    /\ ValidNewView(1, e.msg) /\ Decodes(e.msg)

Announced ==
    Starting(replica[1]) =>
       \A i \in Correct \ {1} : replica[i].view = 1 => Noted(i) \/ failures > 0

Told ==
    replica[1].view = 1 /\ replica[1].activeView =>
       \A i \in Correct \ {1} : \/ replica[i].view = 1 /\ replica[i].activeView
                                \/ \E e \in net : Invites(e, i)

\* Those who have left the first view have said so to the primary of the second,
\* unless that was lost.  It starts the view when it has heard of enough, and then
\* tells all.
ChangeInv == Announced /\ Undecided(replica[1], failures > 0) /\ Told

EndsInv == NothingFirst /\ FirstWaits /\ ChangeInv

\* A step of a replica that leaves its place in the view change.
Stays(j) ==
    /\ replica'[j].id = replica[j].id
    /\ replica'[j].view = replica[j].view /\ replica'[j].activeView = replica[j].activeView
    /\ replica'[j].viewChanges = replica[j].viewChanges

\* Running a method: what it leaves behind, and what becomes of its outbox.
LEMMA RunShows ==
  ASSUME TypeOK, NEW i \in Replica, NEW q \in ReplicaState, q.id = i, NEW consumed,
         Run(q, consumed)
  PROVE  /\ \A j \in Replica \ {i} : replica'[j] = replica[j]
         /\ replica'[i].id = i
         /\ replica'[i].view = q.view /\ replica'[i].activeView = q.activeView
         /\ replica'[i].viewChanges = q.viewChanges
         /\ replica'[i].requestTimer = q.requestTimer /\ replica'[i].callbacks = q.callbacks
         /\ \A e \in net : e \in net' \/ e \in consumed
         /\ \A e \in net' : e \in net \/ (e.from = i /\ \E o \in q.outbox : e.msg = o.msg)
         /\ \A o \in q.outbox : ~o.failed => \A j \in Correct \ {i} :
               \E e \in net' : e.from = i /\ e.to = j /\ e.msg = o.msg
         /\ failures > 0 \/ q.failed => failures' > 0
<1>1. replica' = [replica EXCEPT ![i] = Returned(q)]
  BY DEF Run
<1>2. /\ Returned(q).id = q.id
      /\ Returned(q).view = q.view /\ Returned(q).activeView = q.activeView
      /\ Returned(q).viewChanges = q.viewChanges
      /\ Returned(q).requestTimer = q.requestTimer /\ Returned(q).callbacks = q.callbacks
  BY DEF Returned, ReplicaState
<1>3. /\ \A j \in Replica \ {i} : replica'[j] = replica[j]
      /\ replica'[i] = Returned(q)
  BY <1>1 DEF TypeOK
<1>7. /\ net' \subseteq (net \ consumed) \cup Posted(q)
      /\ net \ consumed \subseteq net'
      /\ \A e \in Posted(q) : e.failure = 0 => e \in net'
  BY RunPosts
<1>4. ASSUME NEW o \in q.outbox, ~o.failed, NEW j \in Correct \ {i}
      PROVE  \E e \in net' : e.from = i /\ e.to = j /\ e.msg = o.msg
  <2> DEFINE f == IF o.failed THEN failures + 1 ELSE 0
             e == [from |-> q.id, to |-> j, msg |-> o.msg, failure |-> f]
  <2>1. e \in Posted(q)
    BY DEF Posted
  <2>2. e.from = i /\ e.to = j /\ e.msg = o.msg /\ e.failure = 0
    BY <1>4
  <2> HIDE DEF e
  <2> QED  BY <1>7, <2>1, <2>2
<1>5. \A e \in Posted(q) : e.from = i /\ \E o \in q.outbox : e.msg = o.msg
  BY DEF Posted
<1>6. failures > 0 \/ q.failed => failures' > 0
  BY DEF Run, TypeOK
<1> HIDE DEF Returned
<1> QED  BY <1>2, <1>3, <1>4, <1>5, <1>6, <1>7

\* Nobody but replica 0 proposes in the first view.
LEMMA NobodyFirst ==
  ASSUME SilentThenCorrect, TypeOK, NEW i \in Correct, replica[i].view = 0
  PROVE  ~IsPrimary(replica[i])
<1>1. replica[i].id = i /\ i # 0
  BY DEF SilentThenCorrect, TypeOK, Correct
<1> QED  BY <1>1, FirstPrimary DEF IsPrimary

\* What main makes of the replica at which it proposes.
LEMMA MainProposesPosts ==
  ASSUME SilentThenCorrect, TypeOK, NEW i \in Replica, MainProposes(i)
  PROVE  /\ \A j \in Correct : Stays(j) /\ replica'[j].requestTimer = replica[j].requestTimer
         /\ \A j \in Replica \ {i} : replica'[j] = replica[j]
         /\ net \subseteq net'
         /\ \A e \in net' : e \in net \/ (e.msg.type = "PrePrepare" /\ e.msg.view > 0)
         /\ failures > 0 => failures' > 0
<1> DEFINE r == replica[i]
           known == [r EXCEPT !.requests = @ \cup {i}]
           noted == Equivocate(known)
           sent(lost) == SendPrePrepares(noted, <<i>>, lost)
           q(lost) == IF i \in r.pending THEN r ELSE sent(lost)
<1>1. r \in ReplicaState /\ r.id = i /\ i \in Digest /\ IsPrimary(r) /\ r.outbox = {}
  BY DEF TypeOK, Digest, MainProposes
<1>2. PICK lost : Run(q(lost), {})
  BY Zenon DEF MainProposes
<1>3. i \in Correct => r.view > 0
  <2>1. r.view \in Nat
    BY <1>1 DEF ReplicaState
  <2> QED  BY <1>1, <2>1, NobodyFirst
<1> HIDE DEF r
<1>4. /\ known \in ReplicaState /\ known.id = i /\ known.view = r.view
      /\ known.activeView = r.activeView /\ known.viewChanges = r.viewChanges
      /\ known.requestTimer = r.requestTimer /\ known.outbox = {}
  BY <1>1 DEF ReplicaState
<1> HIDE DEF known
<1>5. /\ noted \in ReplicaState /\ noted.id = i /\ noted.view > 0 /\ noted.outbox = {}
      /\ i \in Correct => noted = known
  <2>1. CASE i \in Correct
    <3>1. noted = known
      BY <1>4, <2>1 DEF Equivocate, Correct
    <3> QED  BY <1>3, <1>4, <2>1, <3>1
  <2>2. CASE i \notin Correct
    <3> DEFINE n == known.view + 1
    <3>1. noted = [known EXCEPT !.view = n]
      BY <1>4, <2>2 DEF Equivocate, Correct
    <3>2. n \in Nat /\ n > 0
      BY <1>4 DEF ReplicaState
    <3> HIDE DEF n, noted
    <3>3. noted \in ReplicaState /\ noted.id = i /\ noted.view = n /\ noted.outbox = {}
      BY <1>4, <3>1, <3>2 DEF ReplicaState
    <3> QED  BY <2>2, <3>2, <3>3
  <2> QED  BY <2>1, <2>2
<1> HIDE DEF noted
<1>6. /\ sent(lost) \in ReplicaState /\ sent(lost).id = i
      /\ sent(lost).view = noted.view /\ sent(lost).activeView = noted.activeView
      /\ sent(lost).viewChanges = noted.viewChanges
      /\ sent(lost).requestTimer = noted.requestTimer
      /\ \A o \in sent(lost).outbox : o.msg.type = "PrePrepare" /\ o.msg.view = noted.view
  <2>1. <<i>> \in Seq(Digest)
    BY <1>1
  <2>2. Keeps(noted, sent(lost)) /\ Quiet(noted, sent(lost)) /\ Proposes(noted, sent(lost))
    BY <1>5, <2>1, SendPrePreparesKeeps, SendPrePreparesQuiet, SendProposes
  <2>3. sent(lost).requestTimer = noted.requestTimer
    BY <1>5 DEF SendPrePrepares, ReplicaState
  <2> HIDE DEF sent
  <2> QED  BY <1>5, <2>2, <2>3 DEF Keeps, Quiet, Proposes
<1> HIDE DEF sent
<1>7. /\ q(lost) \in ReplicaState /\ q(lost).id = i
      /\ \A o \in q(lost).outbox : o.msg.type = "PrePrepare" /\ o.msg.view > 0
      /\ i \in Correct =>
           /\ q(lost).view = r.view /\ q(lost).activeView = r.activeView
           /\ q(lost).viewChanges = r.viewChanges /\ q(lost).requestTimer = r.requestTimer
  BY <1>1, <1>4, <1>5, <1>6
<1> HIDE DEF q
<1>8. /\ \A j \in Replica \ {i} : replica'[j] = replica[j]
      /\ replica'[i].id = i
      /\ replica'[i].view = q(lost).view /\ replica'[i].activeView = q(lost).activeView
      /\ replica'[i].viewChanges = q(lost).viewChanges
      /\ replica'[i].requestTimer = q(lost).requestTimer
      /\ \A e \in net : e \in net'
      /\ \A e \in net' : e \in net \/ \E o \in q(lost).outbox : e.msg = o.msg
      /\ failures > 0 => failures' > 0
  BY <1>2, <1>7, RunShows
<1>9. ASSUME NEW j \in Correct PROVE Stays(j) /\ replica'[j].requestTimer = replica[j].requestTimer
  <2>1. CASE j = i
    BY <1>1, <1>7, <1>8, <2>1 DEF Stays, r
  <2>2. CASE j # i
    <3>1. replica'[j] = replica[j]
      BY <1>8, <2>2 DEF Correct
    <3> QED  BY <3>1 DEF Stays
  <2> QED  BY <2>1, <2>2
<1> QED  BY <1>7, <1>8, <1>9

\* At a backup main changes nothing of that.
LEMMA MainTouchesPosts ==
  ASSUME TypeOK, NEW i \in Replica, MainTouches(i)
  PROVE  /\ \A j \in Replica : Stays(j)
         /\ \A j \in Replica \ {i} : replica'[j] = replica[j]
         /\ net' = net /\ (failures > 0 => failures' > 0)
<1> DEFINE r == replica[i]
<1>1. r \in ReplicaState /\ r.id = i /\ r.outbox = {}
  BY DEF TypeOK
<1>2. PICK q \in ReplicaState : Touched(r, q, i) /\ Run(q, {})
  BY MainTouching
<1> HIDE DEF r
<1>3. /\ q.id = i /\ q.view = r.view /\ q.activeView = r.activeView
      /\ q.viewChanges = r.viewChanges /\ q.outbox = {}
  BY <1>1, <1>2, TouchedFields
<1>4. /\ \A j \in Replica \ {i} : replica'[j] = replica[j]
      /\ replica'[i].id = i
      /\ replica'[i].view = q.view /\ replica'[i].activeView = q.activeView
      /\ replica'[i].viewChanges = q.viewChanges
      /\ \A e \in net : e \in net'
      /\ \A e \in net' : e \in net \/ \E o \in q.outbox : e.msg = o.msg
      /\ failures > 0 => failures' > 0
  BY <1>2, <1>3, RunShows
<1>5. net' = net
  BY <1>3, <1>4
<1>6. ASSUME NEW j \in Replica PROVE Stays(j)
  BY <1>1, <1>3, <1>4 DEF Stays, r
<1> QED  BY <1>4, <1>5, <1>6

\* Storing what it has proposed, main changes nothing of that.
LEMMA MainStoresPosts ==
  ASSUME TypeOK, NEW i \in Replica, MainStoresPrePrepare(i)
  PROVE  /\ \A j \in Replica : Stays(j) /\ replica'[j].requestTimer = replica[j].requestTimer
         /\ net' = net /\ (failures > 0 => failures' > 0)
<1> DEFINE r == replica[i]
           q == StorePrePrepares(r, {main.call.msg})
           stored == {p \in r.preprepares : \A k \in {main.call.msg} : ~SameSlot(p, k)}
                       \cup {main.call.msg}
<1>1. r \in ReplicaState /\ r.id = i /\ r.outbox = {}
  BY DEF TypeOK
<1>2. Run(q, {}) /\ main.call.msg \in PrePrepare
  BY DEF MainStoresPrePrepare, TypeOK, Calling
<1>3. q = [r EXCEPT !.preprepares = stored] /\ stored \in SUBSET PrePrepare
  BY <1>1, <1>2 DEF StorePrePrepares, ReplicaState
<1> HIDE DEF q, stored
<1>4. /\ q \in ReplicaState /\ q.id = i
      /\ q.view = r.view /\ q.activeView = r.activeView
      /\ q.viewChanges = r.viewChanges /\ q.outbox = {} /\ q.requestTimer = r.requestTimer
  BY <1>1, <1>3 DEF ReplicaState
<1>5. /\ \A j \in Replica \ {i} : replica'[j] = replica[j]
      /\ replica'[i].id = i
      /\ replica'[i].view = q.view /\ replica'[i].activeView = q.activeView
      /\ replica'[i].viewChanges = q.viewChanges
      /\ replica'[i].requestTimer = q.requestTimer
      /\ \A e \in net : e \in net'
      /\ \A e \in net' : e \in net \/ \E o \in q.outbox : e.msg = o.msg
      /\ failures > 0 => failures' > 0
  BY <1>2, <1>4, RunShows
<1>6. net' = net
  BY <1>4, <1>5
<1>7. ASSUME NEW j \in Replica PROVE Stays(j) /\ replica'[j].requestTimer = replica[j].requestTimer
  BY <1>1, <1>4, <1>5 DEF Stays
<1> QED  BY <1>5, <1>6, <1>7
-----------------------------------------------------------------------------
(* The first view. *)

\* Running a method that says nothing of the first view.
LEMMA RunSaysNothing ==
  ASSUME TypeOK, NothingFirst, NEW i \in Replica, NEW q \in ReplicaState, q.id = i,
         NEW consumed, Run(q, consumed),
         \A o \in q.outbox : o.msg.type \in NormalCase => o.msg.view > 0
  PROVE  NothingFirst'
<1>1. \A e \in net' : e \in net \/ \E o \in q.outbox : e.msg = o.msg
  BY RunShows
<1> QED  BY <1>1 DEF NothingFirst

\* Where replica 0 says nothing of the first view, nobody does.
LEMMA NothingFirstStays ==
  ASSUME SilentThenCorrect, NewViewsArrive, AgreementInv, NothingFirst, Next
  PROVE  NothingFirst'
<1>1. TypeOK /\ OneReceipt /\ SlotInv /\ Inv
  BY DEF AgreementInv, ViewsInv, Inv, Truth
<1>2. ASSUME NEW e \in net, ReceivePrePrepare(e) \/ ReceivePrepare(e) \/ ReceiveCommit(e)
      PROVE  NothingFirst'
  <2>1. /\ e.to \in Replica /\ replica[e.to] \in ReplicaState
        /\ replica[e.to].id = e.to /\ replica[e.to].outbox = {}
    BY <1>1, MessageTypes DEF TypeOK
  <2>2. CASE Run(replica[e.to], {e})
    BY <1>1, <2>1, <2>2, RunSaysNothing
  <2>3. ASSUME NEW q, NEW H, Handles(e, q, H), Run(q, {e}) PROVE NothingFirst'
    <3>1. q \in ReplicaState /\ q.id = e.to /\ e.msg.view > 0
      BY <2>1, <2>3 DEF Handles, Attests, Adds, NothingFirst
    <3>2. \A o \in q.outbox : o.msg.type \in {"Prepare", "Commit"} => o.msg.view = e.msg.view
      BY <2>1, <2>3 DEF Handles, Echoes, Repeats, Echo, IsFor
    <3>3. \A o \in q.outbox : o.msg.type # "PrePrepare"
      BY <2>1, <2>3 DEF Handles, Echoes, Repeats
    <3> QED  BY <1>1, <2>1, <2>3, <3>1, <3>2, <3>3, RunSaysNothing DEF NormalCase
  <2> QED  BY <1>1, <1>2, <2>2, <2>3, ReceiveNormalHandles
<1>3. ASSUME NEW e \in net, ReceiveViewChange(e) PROVE NothingFirst'
  <2> DEFINE r == replica[e.to]
  <2>1. /\ e.to \in Replica /\ e.from \in Replica /\ r \in ReplicaState /\ e.msg \in ViewChange
        /\ r.id = e.to /\ r.outbox = {} /\ OneEach(r)
    BY <1>1, <1>3, MessageTypes DEF TypeOK, ReceiveViewChange, OneReceipt
  <2>2. PICK lost \in Losses({"ViewChange", "NewView", "PrePrepare"}) :
          \E q \in IF Taken(e) THEN ProcessViewChange(r, e.from, e.msg, lost) ELSE {r} :
             Run(q, {e})
    BY <1>3 DEF ReceiveViewChange
  <2>3. <<"NewView", 0>> \notin lost
    BY DEF Losses, NewViewsArrive
  <2>4. PICK q \in IF Taken(e) THEN ProcessViewChange(r, e.from, e.msg, lost) ELSE {r} :
          Run(q, {e})
    BY <2>2
  <2> HIDE DEF r
  <2>5. CASE ~Taken(e)
    BY <1>1, <2>1, <2>4, <2>5, RunSaysNothing
  <2>6. CASE Taken(e)
    <3>1. q \in ProcessViewChange(r, e.from, e.msg, lost)
      BY <2>4, <2>6
    <3>2. q \in ReplicaState /\ q.id = e.to
      BY <2>1, <3>1, ProcessViewChangeStep DEF ViewStep
    <3>3. \/ Echoes(r, q, {})
          \/ /\ e.msg.view > 0
             /\ \E pps \in Seq(PrePrepare) : Opens(r, q, e.msg.view, pps)
      BY <2>1, <2>3, <3>1, ProcessViewChangeOpens
    <3>4. \A o \in q.outbox : o.msg.type \in NormalCase => o.msg.view > 0
      <4>1. CASE Echoes(r, q, {})
        <5>1. \A o \in q.outbox : o.msg.type = "ViewChange"
          BY <2>1, <4>1 DEF Echoes, Repeats, Echo
        <5> QED  BY <5>1 DEF NormalCase
      <4>2. CASE /\ e.msg.view > 0
                 /\ \E pps \in Seq(PrePrepare) : Opens(r, q, e.msg.view, pps)
        BY <2>1, <4>2 DEF Opens, NormalCase
      <4> QED  BY <3>3, <4>1, <4>2
    <3> QED  BY <1>1, <2>1, <2>4, <3>2, <3>4, RunSaysNothing
  <2> QED  BY <2>5, <2>6
<1>4. ASSUME NEW e \in net, ReceiveNewView(e) PROVE NothingFirst'
  <2> DEFINE r == replica[e.to]
             processed(lost) == ProcessNewView(r, e.from, e.msg, lost)
             q(lost) == IF Taken(e) THEN processed(lost) ELSE r
  <2>1. /\ e.to \in Replica /\ e.from \in Replica /\ r \in ReplicaState /\ e.msg \in NewView
        /\ r.id = e.to /\ r.outbox = {} /\ e.msg.view > 0
    BY <1>1, <1>4, MessageTypes DEF TypeOK, ReceiveNewView, SlotInv, NewViewsStarted
  <2>2. PICK lost : Run(q(lost), {e})
    BY <1>4 DEF ReceiveNewView
  <2> HIDE DEF r
  <2>3. processed(lost) \in ReplicaState /\ processed(lost).id = e.to
    BY <2>1, ProcessNewViewStep DEF ViewStep
  <2>4. \A o \in processed(lost).outbox : o.msg.type \in NormalCase => o.msg.view > 0
    <3>1. CASE processed(lost) = r
      BY <2>1, <3>1
    <3>2. CASE /\ ValidNewView(e.from, e.msg)
               /\ Repeats(r, processed(lost), Range(e.msg.preprepares))
      <4>1. \A p \in Range(e.msg.preprepares) : p.view = e.msg.view
        BY <3>2 DEF ValidNewView, Range
      <4>2. \A o \in processed(lost).outbox :
               \/ o.msg.type \in {"Prepare", "Commit"} /\ Echo(o.msg, Range(e.msg.preprepares))
               \/ o.msg.type = "ViewChange"
        BY <2>1, <3>2 DEF Repeats
      <4> HIDE DEF processed
      <4> QED  BY <2>1, <4>1, <4>2 DEF NormalCase, Echo, IsFor
    <3> QED  BY <2>1, <3>1, <3>2, ProcessNewViewFills
  <2> HIDE DEF processed
  <2>5. /\ q(lost) \in ReplicaState /\ q(lost).id = e.to
        /\ \A o \in q(lost).outbox : o.msg.type \in NormalCase => o.msg.view > 0
    BY <2>1, <2>3, <2>4
  <2> HIDE DEF q
  <2> QED  BY <1>1, <2>1, <2>2, <2>5, RunSaysNothing
<1>5. ASSUME NEW i \in Replica, TimerExpires(i) PROVE NothingFirst'
  BY <1>5 DEF TimerExpires, NothingFirst
<1>6. ASSUME NEW i \in Replica, NEW v \in 1 .. MaxView, TimerCallback(i, v) PROVE NothingFirst'
  <2>1. PICK q : Turns(replica[i], q, {}) /\ Run(q, {})
    BY <1>1, <1>6, TimerCallbackTurns
  <2>2. q \in ReplicaState /\ q.id = i /\ replica[i].outbox = {}
    BY <1>1, <2>1 DEF Turns, TypeOK
  <2>3. \A o \in q.outbox : o.msg.type = "ViewChange"
    BY <2>1, <2>2 DEF Turns, ViewChangeFor
  <2> QED  BY <1>1, <2>1, <2>2, <2>3, RunSaysNothing DEF NormalCase
<1>7. ASSUME Main PROVE NothingFirst'
  <2>1. PICK i \in Replica : \/ MainLooks(i) \/ MainTouches(i)
                             \/ MainProposes(i) \/ MainStoresPrePrepare(i)
    BY <1>7, MainSteps
  <2>2. CASE MainLooks(i)
    BY <1>1, <2>2, MainLooking DEF NothingFirst
  <2>3. CASE MainProposes(i)
    BY <1>1, <2>3, MainProposesPosts DEF NothingFirst
  <2>4. CASE MainTouches(i) \/ MainStoresPrePrepare(i)
    BY <1>1, <2>4, MainTouchesPosts, MainStoresPosts DEF NothingFirst
  <2> QED  BY <2>1, <2>2, <2>3, <2>4
<1> QED  BY <1>2, <1>3, <1>4, <1>5, <1>6, <1>7 DEF Next, Receive, Timers

\* While main waits, a replica that stays in the first view keeps its timer.
LEMMA FirstWaitsStays ==
  ASSUME TypeOK, FirstWaits, UNCHANGED main,
         \A i \in Correct : replica'[i].view = 0 =>
            /\ replica[i].view = 0
            /\ Covered(replica[i]) =>
                 /\ Covered(replica'[i])
                 /\ replica[i].requestTimer # NoTimer => replica'[i].requestTimer # NoTimer
  PROVE  FirstWaits'
<1>1. ASSUME NEW i \in Correct, replica'[i].view = 0
      PROVE  /\ Covered(replica'[i]) \/ Arming(i)'
             /\ Served(i)' => replica'[i].requestTimer # NoTimer
  <2>1. Covered(replica[i]) \/ Arming(i)
    BY <1>1 DEF FirstWaits
  <2>2. (Arming(i)' <=> Arming(i)) /\ (Served(i)' <=> Served(i))
    BY DEF Arming, Served
  <2>3. Served(i) => ~Arming(i)
    BY DEF TypeOK, Correct, Replica, Served, Arming
  <2>4. Served(i) => Covered(replica[i]) /\ replica[i].requestTimer # NoTimer
    BY <1>1, <2>1, <2>3 DEF FirstWaits
  <2> QED  BY <1>1, <2>1, <2>2, <2>4
<1> QED  BY <1>1 DEF FirstWaits

\* A method of replica i that leaves the first view or keeps the timer.
LEMMA RunWaits ==
  ASSUME TypeOK, FirstWaits, UNCHANGED main, NEW i \in Replica, NEW q \in ReplicaState, q.id = i,
         NEW consumed, Run(q, consumed),
         i \in Correct /\ q.view = 0 =>
            /\ replica[i].view = 0
            /\ q.requestTimer = replica[i].requestTimer
            /\ replica[i].callbacks \ {0} \subseteq q.callbacks
  PROVE  FirstWaits'
<1>1. /\ \A j \in Replica \ {i} : replica'[j] = replica[j]
      /\ replica'[i].view = q.view /\ replica'[i].requestTimer = q.requestTimer
      /\ replica'[i].callbacks = q.callbacks
  BY RunShows
<1>2. ASSUME NEW j \in Correct, replica'[j].view = 0
      PROVE  /\ replica[j].view = 0
             /\ Covered(replica[j]) => Covered(replica'[j])
             /\ replica'[j].requestTimer = replica[j].requestTimer
  <2>1. CASE j = i
    BY <1>1, <1>2, <2>1 DEF Covered
  <2>2. CASE j # i
    BY <1>1, <1>2, <2>2 DEF Correct
  <2> QED  BY <2>1, <2>2
<1> QED  BY <1>2, FirstWaitsStays

\* Nobody in the first view loses the timer that main has given it.
LEMMA FirstWaitsNext ==
  ASSUME SilentThenCorrect, NewViewsArrive, AgreementInv, FirstIsActive,
         NothingFirst, FirstWaits, Next
  PROVE  FirstWaits'
<1>1. TypeOK /\ OneReceipt /\ SlotInv /\ Inv
  BY DEF AgreementInv, ViewsInv, Inv, Truth
<1>2. ASSUME NEW e \in net, ReceivePrePrepare(e) \/ ReceivePrepare(e) \/ ReceiveCommit(e)
      PROVE  FirstWaits'
  <2>1. /\ e.to \in Replica /\ replica[e.to] \in ReplicaState
        /\ replica[e.to].id = e.to
    BY <1>1, MessageTypes DEF TypeOK
  <2>2. UNCHANGED main
    BY <1>1, <1>2, ReceiveNormalHandles
  <2>3. CASE Run(replica[e.to], {e})
    BY <1>1, <2>1, <2>2, <2>3, RunWaits
  <2>4. ASSUME NEW q, NEW H, Handles(e, q, H), Run(q, {e}) PROVE FirstWaits'
    <3>1. q \in ReplicaState /\ q.id = e.to /\ q.view = replica[e.to].view
      BY <2>1, <2>4 DEF Handles, Attests, Adds
    <3>2. q = replica[e.to] \/ replica[e.to].view > 0
      BY <2>4 DEF Handles, NothingFirst
    <3> QED  BY <1>1, <2>1, <2>2, <2>4, <3>1, <3>2, RunWaits
  <2> QED  BY <1>1, <1>2, <2>3, <2>4, ReceiveNormalHandles
<1>3. ASSUME NEW e \in net, ReceiveViewChange(e) PROVE FirstWaits'
  <2> DEFINE r == replica[e.to]
  <2>1. /\ e.to \in Replica /\ e.from \in Replica /\ r \in ReplicaState /\ e.msg \in ViewChange
        /\ r.id = e.to /\ r.view \in Nat
    BY <1>1, <1>3, MessageTypes DEF TypeOK, ReceiveViewChange, ReplicaState
  <2>2. UNCHANGED main
    BY <1>3 DEF ReceiveViewChange
  <2>3. PICK lost \in Losses({"ViewChange", "NewView", "PrePrepare"}) :
          \E q \in IF Taken(e) THEN ProcessViewChange(r, e.from, e.msg, lost) ELSE {r} :
             Run(q, {e})
    BY <1>3 DEF ReceiveViewChange
  <2>4. <<"NewView", 0>> \notin lost
    BY DEF Losses, NewViewsArrive
  <2>5. PICK q \in IF Taken(e) THEN ProcessViewChange(r, e.from, e.msg, lost) ELSE {r} :
          Run(q, {e})
    BY <2>3
  <2>6. CASE ~Taken(e)
    BY <1>1, <2>1, <2>2, <2>5, <2>6, RunWaits
  <2>7. CASE Taken(e)
    <3>1. q \in ProcessViewChange(r, e.from, e.msg, lost)
      BY <2>5, <2>7
    <3>2. q \in ReplicaState /\ q.id = e.to
      BY <2>1, <3>1, ProcessViewChangeStep DEF ViewStep
    <3>3. \/ /\ q.view = r.view
             /\ q.requestTimer = r.requestTimer /\ q.callbacks = r.callbacks
          \/ q.view > r.view
          \/ q.view = e.msg.view /\ e.msg.view > 0
      BY <2>1, <2>4, <3>1, ReceiverAnnounces
    <3>4. q.view = 0 => /\ r.view = 0
                        /\ q.requestTimer = r.requestTimer /\ q.callbacks = r.callbacks
      BY <2>1, <3>3
    <3> QED  BY <1>1, <2>1, <2>2, <2>5, <3>2, <3>4, RunWaits
  <2> QED  BY <2>6, <2>7
<1>4. ASSUME NEW e \in net, ReceiveNewView(e) PROVE FirstWaits'
  <2> DEFINE r == replica[e.to]
             processed(lost) == ProcessNewView(r, e.from, e.msg, lost)
             q(lost) == IF Taken(e) THEN processed(lost) ELSE r
  <2>1. /\ e.to \in Replica /\ e.from \in Replica /\ r \in ReplicaState /\ e.msg \in NewView
        /\ r.id = e.to /\ e.msg.view > 0
    BY <1>1, <1>4, MessageTypes DEF TypeOK, ReceiveNewView, SlotInv, NewViewsStarted
  <2>2. UNCHANGED main
    BY <1>4 DEF ReceiveNewView
  <2>3. PICK lost : Run(q(lost), {e})
    BY <1>4 DEF ReceiveNewView
  <2> HIDE DEF r
  <2>4. /\ processed(lost) \in ReplicaState /\ processed(lost).id = e.to
        /\ processed(lost) = r \/ processed(lost).view = e.msg.view
    BY <2>1, ProcessNewViewStep, ProcessNewViewFills DEF ViewStep
  <2> HIDE DEF processed
  <2>5. /\ q(lost) \in ReplicaState /\ q(lost).id = e.to
        /\ q(lost) = r \/ q(lost).view > 0
    BY <2>1, <2>4
  <2> HIDE DEF q
  <2> QED  BY <1>1, <2>1, <2>2, <2>3, <2>5, RunWaits DEF r
<1>5. ASSUME NEW i \in Replica, TimerExpires(i) PROVE FirstWaits'
  <2> DEFINE r == replica[i]
             stopped == [r.requestTimer EXCEPT !.running = FALSE]
             waiting == r.callbacks \cup {r.requestTimer.target}
             q == [r EXCEPT !.requestTimer = stopped, !.callbacks = waiting]
  <2>1. /\ r.requestTimer.running /\ UNCHANGED main
        /\ replica' = [replica EXCEPT ![i] = q]
    BY <1>5 DEF TimerExpires
  <2>2. r \in ReplicaState /\ r.requestTimer \in Timer
    BY <1>1 DEF TypeOK, ReplicaState
  <2>3. stopped.target = r.requestTimer.target /\ r.requestTimer.target \in waiting
    BY <2>2 DEF Timer
  <2> HIDE DEF stopped, waiting
  <2>4. q.view = r.view /\ q.requestTimer = stopped /\ q.callbacks = waiting
    BY <2>2 DEF ReplicaState
  <2>5. Covered(r) => Covered(q) /\ q.requestTimer # NoTimer
    <3>1. r.requestTimer # NoTimer /\ r.view \in Nat
      BY <2>1, <2>2 DEF NoTimer, ReplicaState
    <3>2. Covered(r) => r.requestTimer.target > r.view
      BY <3>1 DEF Covered
    <3>3. Covered(r) => Covered(q)
      BY <2>3, <2>4, <3>2 DEF Covered
    <3>4. Covered(r) => stopped.target # 0
      BY <2>3, <3>1, <3>2
    <3> QED  BY <2>4, <3>3, <3>4 DEF NoTimer
  <2> HIDE DEF q
  <2>6. ASSUME NEW j \in Correct
        PROVE  /\ replica'[j].view = replica[j].view
               /\ Covered(replica[j]) =>
                    /\ Covered(replica'[j])
                    /\ replica[j].requestTimer # NoTimer => replica'[j].requestTimer # NoTimer
    <3>1. j \in Replica
      BY DEF Correct
    <3>2. CASE j = i
      BY <1>1, <2>1, <2>4, <2>5, <3>1, <3>2 DEF TypeOK
    <3>3. CASE j # i
      <4>1. replica'[j] = replica[j]
        BY <1>1, <2>1, <3>1, <3>3 DEF TypeOK
      <4> QED  BY <4>1
    <3> QED  BY <3>2, <3>3
  <2> QED  BY <1>1, <2>1, <2>6, FirstWaitsStays
<1>6. ASSUME NEW i \in Replica, NEW v \in 1 .. MaxView, TimerCallback(i, v) PROVE FirstWaits'
  <2> DEFINE r == replica[i]
             rest == r.callbacks \ {v}
             begun == [r EXCEPT !.callbacks = rest]
             q(lost) == StartViewChange(begun, v, lost)
  <2>1. PICK lost : Run(q(lost), {})
    BY <1>6 DEF TimerCallback
  <2>2. UNCHANGED main
    BY <1>6 DEF TimerCallback
  <2>3. v \in Nat /\ v > 0
    BY BoundAssumption
  <2>4. r \in ReplicaState /\ r.id = i /\ rest \in SUBSET Nat
    BY <1>1 DEF TypeOK, ReplicaState
  <2> HIDE DEF rest, r
  <2>5. /\ begun \in ReplicaState /\ begun.id = i /\ begun.view = r.view
        /\ begun.requestTimer = r.requestTimer /\ begun.callbacks = rest
    BY <2>4 DEF ReplicaState
  <2> HIDE DEF begun
  <2>6. q(lost) \in ReplicaState /\ q(lost).id = i
    BY <2>3, <2>5, StartViewChangeTurns DEF Turns
  <2>7. q(lost).view # 0
    <3>1. CASE v > begun.view
      BY <2>3, <2>5, <3>1, StartViewChangeTurns
    <3>2. CASE ~(v > begun.view)
      <4>1. v <= begun.view
        BY <2>3, <2>5, <3>2 DEF ReplicaState
      <4>2. q(lost) = begun
        BY <4>1, Zenon DEF StartViewChange
      <4> HIDE DEF q
      <4> QED  BY <2>3, <2>4, <2>5, <4>1, <4>2 DEF ReplicaState
    <3> QED  BY <3>1, <3>2
  <2> HIDE DEF q
  <2> QED  BY <1>1, <2>1, <2>2, <2>6, <2>7, RunWaits DEF r
<1>7. ASSUME NEW i \in Replica, i = main.next,
             main'.next = i \/ (MainReturns /\ ~Arming(i)'),
             \A j \in Replica \ {i} : replica'[j] = replica[j],
             i \in Correct /\ replica'[i].view = 0 =>
               /\ Covered(replica'[i]) \/ Arming(i)'
               /\ MainReturns \/ main'.call.step \in {"note", "broadcast"}
                    => replica'[i].requestTimer # NoTimer
      PROVE  FirstWaits'
  <2>1. main.next \in Nat /\ i \in Nat /\ (MainReturns => main'.next = i + 1)
    BY <1>1, <1>7 DEF TypeOK, MainReturns
  <2>2. ASSUME NEW j \in Correct, replica'[j].view = 0
        PROVE  /\ Covered(replica'[j]) \/ Arming(j)'
               /\ Served(j)' => replica'[j].requestTimer # NoTimer
    <3>1. CASE j = i
      <4>1. main'.next = i => ~(main'.next > j)
        BY <2>1, <3>1
      <4> QED  BY <1>7, <2>2, <3>1, <4>1 DEF Served
    <3>2. CASE j # i
      <4>1. replica'[j] = replica[j] /\ j \in Nat
        BY <1>7, <3>2 DEF Correct, Replica
      <4>2. Covered(replica[j]) /\ (main.next > j => replica[j].requestTimer # NoTimer)
        BY <1>7, <2>2, <3>2, <4>1 DEF FirstWaits, Arming, Served
      <4>3. Served(j)' => main.next > j
        <5>1. MainReturns => main'.call.step = "outside"
          BY DEF MainReturns, Outside
        <5> QED  BY <1>7, <2>1, <3>2, <4>1, <5>1 DEF Served
      <4> QED  BY <4>1, <4>2, <4>3
    <3> QED  BY <3>1, <3>2
  <2> QED  BY <2>2 DEF FirstWaits
<1>8. ASSUME NEW i \in Replica, MainLooks(i) PROVE FirstWaits'
  <2>1. /\ UNCHANGED replica /\ i = main.next /\ main'.next = main.next
        /\ main.call = Outside \/ main.call.step = "backup"
    BY <1>1, <1>8, MainLooking
  <2>2. main'.call.step \in {"note", "broadcast"} => replica[i].requestTimer # NoTimer
    <3>1. CASE MainAtBackup(i)
      <4>1. main' = [main EXCEPT !.call = [step |-> "backup"]]
        BY <3>1 DEF MainAtBackup
      <4>2. main'.call = [step |-> "backup"]
        BY <1>1, <4>1 DEF TypeOK
      <4>3. main'.call.step = "backup"
        BY <4>2
      <4> QED  BY <4>3
    <3>2. CASE MainReadsTimer(i)
      <4> DEFINE c == [step |-> IF replica[i].requestTimer = NoTimer THEN "view" ELSE "note"]
      <4>1. main' = [main EXCEPT !.call = c]
        BY <3>2 DEF MainReadsTimer
      <4>2. replica[i].requestTimer = NoTimer => c.step = "view"
        OBVIOUS
      <4> HIDE DEF c
      <4>3. main'.call = c
        BY <1>1, <4>1 DEF TypeOK
      <4> QED  BY <4>2, <4>3
    <3> QED  BY <1>8, <3>1, <3>2 DEF MainLooks
  <2>3. ~MainReturns
    BY <1>1, <2>1 DEF MainReturns, TypeOK
  <2>4. ~Arming(i)
    BY <2>1 DEF Arming, Outside
  <2> QED  BY <1>7, <2>1, <2>2, <2>3, <2>4 DEF FirstWaits
<1>9. ASSUME NEW i \in Replica, MainReadsView(i) PROVE FirstWaits'
  <2> DEFINE c == [step |-> "timer", target |-> TargetView(replica[i])]
  <2>1. i = main.next /\ main' = [main EXCEPT !.call = c]
    BY <1>9 DEF MainReadsView
  <2>2. c.step = "timer"
    OBVIOUS
  <2> HIDE DEF c
  <2>3. main'.next = i /\ main'.call.step = "timer"
    BY <1>1, <2>1, <2>2 DEF TypeOK
  <2>4. ~MainReturns /\ Arming(i)'
    BY <1>1, <2>1, <2>3 DEF MainReturns, TypeOK, Arming
  <2>5. \A j \in Replica \ {i} : replica'[j] = replica[j]
    BY <1>1, <1>9, MainTouchesPosts DEF MainTouches
  <2> QED  BY <1>7, <2>1, <2>3, <2>4, <2>5
<1>10. ASSUME NEW i \in Replica, MainArmsTimer(i) PROVE FirstWaits'
  <2> DEFINE r == replica[i]
             old == r.requestTimer
             timer == [target |-> main.call.target, running |-> TRUE]
             waiting == r.callbacks \cup (IF old.running THEN {old.target} ELSE {})
             q == [r EXCEPT !.requestTimer = timer, !.callbacks = waiting]
  <2>1. r \in ReplicaState /\ r.id = i /\ i = main.next
    BY <1>1, <1>10 DEF TypeOK, MainArmsTimer
  <2>2. main.call.target \in Nat \ {0}
    BY <1>1, <1>10 DEF TypeOK, Calling, MainArmsTimer
  <2>3. Run(q, {}) /\ main' = [main EXCEPT !.call = [step |-> "note"]]
    BY <1>10, Zenon DEF MainArmsTimer
  <2>4. timer \in Timer /\ timer.target = main.call.target /\ timer.running = TRUE
    BY <2>2 DEF Timer
  <2>5. waiting \in SUBSET Nat
    BY <2>1 DEF ReplicaState, Timer
  <2> HIDE DEF timer, waiting
  <2>6. q \in ReplicaState /\ q.id = i /\ q.requestTimer = timer
    BY <2>1, <2>4, <2>5 DEF ReplicaState
  <2> HIDE DEF q
  <2>7. replica'[i].requestTimer = timer
    BY <1>1, <2>3, <2>6, RunShows
  <2>8. timer # NoTimer
    BY <2>4 DEF NoTimer
  <2>9. replica'[i].view = 0 => Covered(replica'[i])
    BY <2>2, <2>4, <2>7 DEF Covered
  <2>10. main'.next = i
    BY <1>1, <2>1, <2>3 DEF TypeOK
  <2>11. \A j \in Replica \ {i} : replica'[j] = replica[j]
    BY <1>1, <1>10, MainTouchesPosts DEF MainTouches
  <2> QED  BY <1>7, <2>1, <2>7, <2>8, <2>9, <2>10, <2>11
<1>11. ASSUME NEW i \in Replica, MainNotesRequest(i) \/ MainStoresPrePrepare(i)
       PROVE  FirstWaits'
  <2> DEFINE r == replica[i]
  <2>1. r \in ReplicaState /\ r.id = i /\ i \in Digest
    BY <1>1 DEF TypeOK, Digest
  <2>2. i = main.next /\ main.call.step \in {"note", "broadcast"} /\ MainReturns
    BY <1>11 DEF MainNotesRequest, MainStoresPrePrepare
  <2>3. PICK q \in ReplicaState :
           /\ Run(q, {}) /\ q.id = i /\ q.view = r.view
           /\ q.requestTimer = r.requestTimer /\ q.callbacks = r.callbacks
    <3>1. CASE MainNotesRequest(i)
      <4> DEFINE requests == r.requests \cup {i}
                 q == [r EXCEPT !.requests = requests]
      <4>1. Run(q, {})
        BY <3>1 DEF MainNotesRequest
      <4>2. requests \in SUBSET Digest
        BY <2>1 DEF ReplicaState
      <4> HIDE DEF requests
      <4>3. /\ q \in ReplicaState /\ q.id = i /\ q.view = r.view
            /\ q.requestTimer = r.requestTimer /\ q.callbacks = r.callbacks
        BY <2>1, <4>2 DEF ReplicaState
      <4> HIDE DEF q
      <4> QED  BY <4>1, <4>3
    <3>2. CASE MainStoresPrePrepare(i)
      <4> DEFINE m == main.call.msg
                 stored == {p \in r.preprepares : \A k \in {m} : ~SameSlot(p, k)} \cup {m}
                 q == StorePrePrepares(r, {m})
      <4>1. Run(q, {}) /\ m \in PrePrepare
        BY <1>1, <3>2 DEF MainStoresPrePrepare, TypeOK, Calling
      <4>2. q = [r EXCEPT !.preprepares = stored] /\ stored \in SUBSET PrePrepare
        BY <2>1, <4>1 DEF StorePrePrepares, ReplicaState
      <4> HIDE DEF q, stored
      <4>3. /\ q \in ReplicaState /\ q.id = i /\ q.view = r.view
            /\ q.requestTimer = r.requestTimer /\ q.callbacks = r.callbacks
        BY <2>1, <4>2 DEF ReplicaState
      <4> QED  BY <4>1, <4>3
    <3> QED  BY <1>11, <3>1, <3>2
  <2>4. /\ \A j \in Replica \ {i} : replica'[j] = replica[j]
        /\ replica'[i].view = r.view
        /\ replica'[i].requestTimer = r.requestTimer /\ replica'[i].callbacks = r.callbacks
    BY <1>1, <2>3, RunShows
  <2>5. i \in Correct /\ r.view = 0 => Covered(r) /\ r.requestTimer # NoTimer
    BY <2>2 DEF FirstWaits, Arming, Served
  <2>6. ~Arming(i)'
    BY <2>2 DEF Arming, MainReturns, Outside
  <2> HIDE DEF r
  <2>7. Covered(r) /\ r.view = 0 /\ replica'[i].view = 0 => Covered(replica'[i])
    BY <2>4 DEF Covered
  <2> QED  BY <1>7, <2>2, <2>4, <2>5, <2>6, <2>7
<1>12. ASSUME NEW i \in Replica, MainProposes(i) PROVE FirstWaits'
  <2>1. i = main.next /\ IsPrimary(replica[i])
    BY <1>12 DEF MainProposes, MainEnters
  <2>2. main'.next = i \/ MainReturns
    <3>1. MainReturns \/ \E m : main' = [main EXCEPT !.call = m]
      BY <1>12 DEF MainProposes
    <3> QED  BY <1>1, <2>1, <3>1 DEF TypeOK
  <2>3. /\ \A j \in Correct : Stays(j)
        /\ \A j \in Replica \ {i} : replica'[j] = replica[j]
    BY <1>1, <1>12, MainProposesPosts
  <2>4. ~(i \in Correct /\ replica'[i].view = 0)
    BY <1>1, <2>1, <2>3, NobodyFirst DEF Stays
  <2>5. MainReturns => ~Arming(i)'
    BY DEF Arming, MainReturns, Outside
  <2> QED  BY <1>7, <2>1, <2>2, <2>3, <2>4, <2>5
<1>13. ASSUME Main PROVE FirstWaits'
  <2>1. PICK i \in Replica : \/ MainLooks(i) \/ MainTouches(i)
                             \/ MainProposes(i) \/ MainStoresPrePrepare(i)
    BY <1>13, MainSteps
  <2> QED  BY <1>8, <1>9, <1>10, <1>11, <1>12, <2>1 DEF MainTouches
<1> QED  BY <1>2, <1>3, <1>4, <1>5, <1>6, <1>13 DEF Next, Receive, Timers

-----------------------------------------------------------------------------
(* The view change. *)

\* A NewView that is in order, and not for an earlier view, takes its receiver
\* into its view.
LEMMA NewViewEnters ==
  ASSUME NEW r \in ReplicaState, NEW from \in Replica, NEW m \in NewView, NEW lost,
         m.view >= r.view, ValidNewView(from, m)
  PROVE  LET q == ProcessNewView(r, from, m, lost) IN q.view = m.view /\ q.activeView
<1> DEFINE moved == [r EXCEPT !.view = m.view, !.activeView = TRUE]
           entered == CleanupState(moved, m.view)
           ms == Range(m.preprepares)
           taken == AcceptPrePrepares(entered, ms, lost)
           timed == StartRequestTimer(taken, FALSE)
           q == ProcessNewView(r, from, m, lost)
<1>1. m.view \in Nat /\ r.view \in Nat /\ m.preprepares \in Seq(PrePrepare)
  BY DEF NewView, ReplicaState
<1>2. ms \in SUBSET PrePrepare /\ \A p \in ms : p.view = m.view
  BY <1>1 DEF Range, ValidNewView
<1>3. moved \in ReplicaState /\ moved.view = m.view /\ moved.activeView
  BY <1>1 DEF ReplicaState
<1>4. ~(m.view < r.view \/ ~ValidNewView(from, m))
  BY <1>1
<1> HIDE DEF moved, ms
<1>5. entered \in ReplicaState /\ entered.view = m.view /\ entered.activeView
  BY <1>1, <1>3, CleanupType DEF CleanupState, ReplicaState
<1> HIDE DEF entered
<1>6. Within(entered, taken, m.view)
  BY <1>1, <1>2, <1>5, AcceptPrePreparesWithin
<1>7. taken \in ReplicaState /\ taken.view = m.view /\ taken.activeView
  BY <1>5, <1>6 DEF Within
<1> HIDE DEF taken
<1>8. Keeps(taken, timed)
  BY <1>7, StartTimerKeeps
<1> HIDE DEF timed
<1>9. q \in {taken, timed}
  BY <1>4, Zenon DEF ProcessNewView, timed, taken, ms, entered, moved
<1> HIDE DEF q
<1>10. q.view = m.view /\ q.activeView
  BY <1>7, <1>8, <1>9 DEF Keeps
<1> QED  BY <1>10 DEF q

\* Whether a primary is undecided depends on little of it.
LEMMA UndecidedAlike ==
  ASSUME NEW r, NEW q, q.id = r.id, q.view = r.view, q.activeView = r.activeView,
         q.viewChanges = r.viewChanges, NEW f, NEW g, f => g, Undecided(r, f)
  PROVE  Undecided(q, g)
<1>1. ViewChangesOf(q, 1) = ViewChangesOf(r, 1)
  BY DEF ViewChangesOf
<1>2. Others(q) = Others(r) /\ (OwnNoted(q) <=> OwnNoted(r))
  BY <1>1 DEF Others, OwnNoted
<1>3. ViewChangeReady(q, 1) <=> ViewChangeReady(r, 1)
  BY <1>1 DEF ViewChangeReady
<1> QED  BY <1>2, <1>3 DEF Undecided

\* A step in which no correct replica moves, nor notes a view change.
LEMMA StaysEnds ==
  ASSUME SilentThenCorrect, ChangeInv, \A j \in Correct : Stays(j),
         \A e \in net : e.msg.type \in {"ViewChange", "NewView"} => e \in net',
         failures > 0 => failures' > 0
  PROVE  ChangeInv'
<1>1. 1 \in Correct
  BY DEF SilentThenCorrect
<1>2. Stays(1)
  BY <1>1
<1>3. Undecided(replica'[1], failures' > 0)
  <2> DEFINE f == failures > 0
             g == failures' > 0
  <2>1. Undecided(replica[1], f) /\ (f => g)
    BY DEF ChangeInv
  <2> HIDE DEF f, g
  <2>2. Undecided(replica'[1], g)
    BY <1>2, <2>1, UndecidedAlike DEF Stays
  <2> QED  BY <2>2 DEF g
<1>4. Starting(replica'[1]) => Starting(replica[1])
  BY <1>2 DEF Starting, Stays
<1>5. ASSUME NEW i \in Correct \ {1}, Noted(i) PROVE Noted(i)'
  BY <1>2, <1>5 DEF Noted, Stays
<1>6. ASSUME NEW i \in Correct \ {1}, NEW e \in net, Invites(e, i) PROVE e \in net'
  BY <1>6 DEF Invites
<1>7. Announced'
  BY <1>4, <1>5 DEF Announced, ChangeInv, Stays
<1>8. Told'
  BY <1>2, <1>6 DEF Told, ChangeInv, Stays, Invites
<1> QED  BY <1>3, <1>7, <1>8 DEF ChangeInv

\* A step of another replica than the primary of the second view.  If it comes to
\* that view it has said so, or has been told to; and if it is told to, it comes.
LEMMA BackupEnds ==
  ASSUME SilentThenCorrect, ChangeInv, NEW i \in Replica \ {1},
         \A j \in Replica \ {i} : replica'[j] = replica[j],
         \A e \in net : e \in net' \/ e.to = i,
         failures > 0 => failures' > 0,
         i \in Correct /\ replica'[i].view = 1 =>
            replica[i].view = 1 \/ Noted(i)' \/ failures' > 0 \/ ~Starting(replica[1]),
         i \in Correct =>
            \/ replica'[i].view = 1 /\ replica'[i].activeView
            \/ /\ ~(replica[i].view = 1 /\ replica[i].activeView)
               /\ \A e \in net : Invites(e, i) => e \in net'
  PROVE  ChangeInv'
<1>1. 1 \in Correct /\ \A j \in Correct : j \in Replica
  BY DEF SilentThenCorrect, Correct
<1>2. replica'[1] = replica[1]
  BY <1>1
<1>3. Undecided(replica'[1], failures' > 0)
  <2> DEFINE f == failures > 0
             g == failures' > 0
  <2>1. Undecided(replica[1], f) /\ (f => g)
    BY DEF ChangeInv
  <2> HIDE DEF f, g
  <2>2. Undecided(replica'[1], g)
    BY <1>2, <2>1, UndecidedAlike
  <2> QED  BY <2>2 DEF g
<1>4. ASSUME NEW j \in Correct \ {1}, Noted(j) PROVE Noted(j)'
  BY <1>2, <1>4 DEF Noted
<1>5. Announced'
  <2> SUFFICES ASSUME Starting(replica'[1]), NEW j \in Correct \ {1}, replica'[j].view = 1
               PROVE  Noted(j)' \/ failures' > 0
    BY DEF Announced
  <2>1. Starting(replica[1]) /\ (replica[j].view = 1 => Noted(j) \/ failures > 0)
    BY <1>2 DEF ChangeInv, Announced
  <2>2. CASE j = i
    BY <1>4, <2>1, <2>2
  <2>3. CASE j # i
    BY <1>1, <1>4, <2>1, <2>3
  <2> QED  BY <2>2, <2>3
<1>6. Told'
  <2> SUFFICES ASSUME replica'[1].view = 1, replica'[1].activeView, NEW j \in Correct \ {1}
               PROVE  \/ replica'[j].view = 1 /\ replica'[j].activeView
                      \/ \E e \in net' : Invites(e, j)
    BY DEF Told, Invites
  <2>1. \/ replica[j].view = 1 /\ replica[j].activeView
        \/ \E e \in net : Invites(e, j)
    BY <1>2 DEF ChangeInv, Told
  <2>2. CASE j = i
    BY <2>1, <2>2
  <2>3. CASE j # i
    <3>1. \A e \in net : Invites(e, j) => e \in net'
      BY <2>3 DEF Invites
    <3> QED  BY <1>1, <2>1, <2>3, <3>1
  <2> QED  BY <2>2, <2>3
<1> QED  BY <1>3, <1>5, <1>6 DEF ChangeInv

\* A step of the primary of the second view, which starts it and tells all, or
\* stays undecided and forgets nothing it has heard.
LEMMA PrimaryEnds ==
  ASSUME SilentThenCorrect, ChangeInv,
         \A j \in Replica \ {1} : replica'[j] = replica[j],
         \A e \in net : e \in net' \/ e.to = 1,
         failures > 0 => failures' > 0,
         \/ /\ replica'[1].view = 1 /\ replica'[1].activeView
            /\ \A i \in Correct \ {1} : \E e \in net' : Invites(e, i)
         \/ /\ replica'[1].view = 1 /\ replica'[1].activeView
                 => replica[1].view = 1 /\ replica[1].activeView
            /\ Starting(replica'[1]) => Starting(replica[1])
            /\ Undecided(replica'[1], failures' > 0)
            /\ Starting(replica[1]) => \A i \in Correct \ {1} : Noted(i) => Noted(i)'
  PROVE  ChangeInv'
<1>1. \A j \in Correct \ {1} : replica'[j] = replica[j]
  BY DEF Correct
<1>2. CASE /\ replica'[1].view = 1 /\ replica'[1].activeView
           /\ \A i \in Correct \ {1} : \E e \in net' : Invites(e, i)
  <2>1. Announced' /\ Told'
    BY <1>2 DEF Announced, Starting, Told, Invites
  <2>2. Undecided(replica'[1], failures' > 0)
    BY <1>2 DEF Undecided
  <2> QED  BY <2>1, <2>2 DEF ChangeInv
<1>3. CASE /\ replica'[1].view = 1 /\ replica'[1].activeView
                => replica[1].view = 1 /\ replica[1].activeView
           /\ Starting(replica'[1]) => Starting(replica[1])
           /\ Undecided(replica'[1], failures' > 0)
           /\ Starting(replica[1]) => \A i \in Correct \ {1} : Noted(i) => Noted(i)'
  <2>1. Announced'
    BY <1>1, <1>3 DEF Announced, ChangeInv
  <2>2. ASSUME NEW i \in Correct \ {1}, NEW e \in net, Invites(e, i) PROVE e \in net'
    BY <2>2 DEF Invites
  <2>3. Told'
    BY <1>1, <1>3, <2>2 DEF Told, ChangeInv, Invites
  <2> QED  BY <1>3, <2>1, <2>3 DEF ChangeInv
<1> QED  BY <1>2, <1>3

\* The normal case leaves the view change alone,
LEMMA ReceiveNormalEnds ==
  ASSUME SilentThenCorrect, TypeOK, ChangeInv, NEW e \in net,
         ReceivePrePrepare(e) \/ ReceivePrepare(e) \/ ReceiveCommit(e)
  PROVE  ChangeInv'
<1>1. /\ e.to \in Replica /\ replica[e.to] \in ReplicaState
      /\ replica[e.to].id = e.to
  BY MessageTypes DEF TypeOK
<1>2. e.msg.type \notin {"ViewChange", "NewView"}
  BY DEF ReceivePrePrepare, ReceivePrepare, ReceiveCommit
<1>3. ASSUME NEW q \in ReplicaState, Run(q, {e}), q.id = e.to,
             q.view = replica[e.to].view, q.activeView = replica[e.to].activeView,
             q.viewChanges = replica[e.to].viewChanges
      PROVE  ChangeInv'
  <2>1. /\ \A j \in Replica \ {e.to} : replica'[j] = replica[j]
        /\ replica'[e.to].id = e.to
        /\ replica'[e.to].view = q.view /\ replica'[e.to].activeView = q.activeView
        /\ replica'[e.to].viewChanges = q.viewChanges
        /\ \A k \in net : k \in net' \/ k \in {e}
        /\ failures > 0 => failures' > 0
    BY <1>1, <1>3, RunShows
  <2>2. \A j \in Correct : Stays(j)
    BY <1>1, <1>3, <2>1 DEF Stays, Correct
  <2> QED  BY <1>2, <2>1, <2>2, StaysEnds
<1>4. CASE Run(replica[e.to], {e})
  BY <1>1, <1>3, <1>4
<1>5. ASSUME NEW q, NEW H, Handles(e, q, H), Run(q, {e}) PROVE ChangeInv'
  <2>1. /\ q \in ReplicaState /\ q.id = e.to
        /\ q.view = replica[e.to].view /\ q.activeView = replica[e.to].activeView
        /\ q.viewChanges = replica[e.to].viewChanges
    BY <1>1, <1>5 DEF Handles, Attests, Adds
  <2> QED  BY <1>3, <1>5, <2>1
<1> QED  BY <1>4, <1>5, ReceiveNormalHandles

\* ... and so do a timer that expires
LEMMA TimerExpiresEnds ==
  ASSUME SilentThenCorrect, TypeOK, ChangeInv, NEW i \in Replica, TimerExpires(i)
  PROVE  ChangeInv'
<1> DEFINE r == replica[i]
           stopped == [r.requestTimer EXCEPT !.running = FALSE]
           waiting == r.callbacks \cup {r.requestTimer.target}
           q == [r EXCEPT !.requestTimer = stopped, !.callbacks = waiting]
<1>1. replica' = [replica EXCEPT ![i] = q] /\ net' = net /\ failures' = failures
  BY DEF TimerExpires
<1>2. r \in ReplicaState
  BY DEF TypeOK
<1> HIDE DEF stopped, waiting
<1>3. /\ q.id = r.id /\ q.view = r.view /\ q.activeView = r.activeView
      /\ q.viewChanges = r.viewChanges
  BY <1>2 DEF ReplicaState
<1> HIDE DEF q
<1>4. ASSUME NEW j \in Correct PROVE Stays(j)
  <2>1. j \in Replica
    BY DEF Correct
  <2>2. CASE j = i
    BY <1>1, <1>3, <2>1, <2>2 DEF TypeOK, Stays
  <2>3. CASE j # i
    BY <1>1, <2>1, <2>3 DEF TypeOK, Stays
  <2> QED  BY <2>2, <2>3
<1> QED  BY <1>1, <1>4, StaysEnds

\* ... and main.
LEMMA MainEnds ==
  ASSUME SilentThenCorrect, TypeOK, ChangeInv, Main
  PROVE  ChangeInv'
<1>1. PICK i \in Replica : \/ MainLooks(i) \/ MainTouches(i)
                           \/ MainProposes(i) \/ MainStoresPrePrepare(i)
  BY MainSteps
<1>2. /\ \A j \in Correct : Stays(j)
      /\ net \subseteq net' /\ (failures > 0 => failures' > 0)
  <2>1. CASE MainLooks(i)
    BY <2>1, MainLooking DEF Stays
  <2>2. CASE MainProposes(i)
    BY <2>2, MainProposesPosts
  <2>3. CASE MainTouches(i)
    BY <2>3, MainTouchesPosts DEF Correct
  <2>4. CASE MainStoresPrePrepare(i)
    BY <2>4, MainStoresPosts DEF Correct
  <2> QED  BY <1>1, <2>1, <2>2, <2>3, <2>4
<1> QED  BY <1>2, StaysEnds

\* A replica whose timer takes it to the second view says so to its primary.
LEMMA TimerCallbackEnds ==
  ASSUME SilentThenCorrect, TypeOK, OneReceipt, ChangeInv, AtMostOneChange',
         NEW i \in Replica, NEW v \in 1 .. MaxView, TimerCallback(i, v)
  PROVE  ChangeInv'
<1> DEFINE r == replica[i]
           rest == r.callbacks \ {v}
           begun == [r EXCEPT !.callbacks = rest]
           q(lost) == StartViewChange(begun, v, lost)
<1>1. PICK lost : Run(q(lost), {})
  BY DEF TimerCallback
<1>2. v \in Nat /\ v > 0 /\ 1 \in Correct /\ 1 \in Replica
  BY BoundAssumption DEF SilentThenCorrect, Correct
<1>3. /\ r \in ReplicaState /\ r.id = i /\ rest \in SUBSET Nat /\ ~r.failed
      /\ OneEach(r) /\ r.view \in Nat
  BY DEF TypeOK, ReplicaState, OneReceipt
<1> HIDE DEF rest, r
<1>4. /\ begun \in ReplicaState /\ begun.id = i /\ begun.view = r.view
      /\ begun.activeView = r.activeView /\ begun.viewChanges = r.viewChanges
  BY <1>3 DEF ReplicaState
<1>5. OneEach(begun)
  BY <1>3, <1>4 DEF OneEach
<1> HIDE DEF begun
<1>6. q(lost) \in ReplicaState /\ q(lost).id = i
  BY <1>2, <1>4, StartViewChangeTurns DEF Turns
<1>7. CASE ~(v > r.view)
  <2>1. v <= begun.view
    BY <1>2, <1>3, <1>4, <1>7
  <2>2. q(lost) = begun
    BY <2>1, Zenon DEF StartViewChange
  <2> HIDE DEF q
  <2>3. /\ \A j \in Replica \ {i} : replica'[j] = replica[j]
        /\ replica'[i].id = i
        /\ replica'[i].view = r.view /\ replica'[i].activeView = r.activeView
        /\ replica'[i].viewChanges = r.viewChanges
        /\ \A e \in net : e \in net' \/ e \in {}
        /\ failures > 0 => failures' > 0
    BY <1>1, <1>4, <1>6, <2>2, RunShows
  <2>4. \A j \in Correct : Stays(j)
    BY <1>3, <2>3 DEF Stays, Correct, r
  <2> QED  BY <2>3, <2>4, StaysEnds
<1>8. CASE v > r.view
  <2>1. /\ q(lost).view = v /\ ~q(lost).activeView
        /\ begun.viewChanges \subseteq q(lost).viewChanges
        /\ \E o \in q(lost).outbox : /\ o.msg = ViewChangeFor(begun, v)
                                     /\ o.failed => q(lost).failed
    BY <1>2, <1>4, <1>8, StartViewChangeAnnounces
  <2>2. q(lost) = StartViewChange(begun, v, lost)
    OBVIOUS
  <2> HIDE DEF q
  <2>3. /\ \A j \in Replica \ {i} : replica'[j] = replica[j]
        /\ replica'[i].id = i
        /\ replica'[i].view = v /\ ~replica'[i].activeView
        /\ replica'[i].activeView = q(lost).activeView
        /\ replica'[i].viewChanges = q(lost).viewChanges
        /\ \A e \in net : e \in net' \/ e \in {}
        /\ \A o \in q(lost).outbox : ~o.failed => \A j \in Correct \ {i} :
              \E e \in net' : e.from = i /\ e.to = j /\ e.msg = o.msg
        /\ failures > 0 \/ q(lost).failed => failures' > 0
    BY <1>1, <1>6, <2>1, RunShows
  <2>4. i \in Correct => v = 1 /\ r.view = 0
    BY <1>2, <1>3, <1>8, <2>3 DEF AtMostOneChange
  <2>5. CASE i # 1
    <3>1. i \in Correct => Noted(i)' \/ failures' > 0
      <4>1. ViewChangeFor(begun, v).type = "ViewChange" /\ ViewChangeFor(begun, v).view = v
        BY DEF ViewChangeFor
      <4>2. \/ failures' > 0
            \/ \E e \in net' : e.from = i /\ e.to = 1 /\ e.msg = ViewChangeFor(begun, v)
        <5>1. PICK o \in q(lost).outbox : /\ o.msg = ViewChangeFor(begun, v)
                                          /\ o.failed => q(lost).failed
          BY <2>1
        <5>2. CASE o.failed
          BY <2>3, <5>1, <5>2
        <5>3. CASE ~o.failed
          <6>1. 1 \in Correct \ {i}
            BY <1>2, <2>5
          <6> QED  BY <2>3, <5>1, <5>3, <6>1
        <5> QED  BY <5>2, <5>3
      <4> QED  BY <2>4, <4>1, <4>2 DEF Noted
    <3> QED  BY <2>3, <2>4, <2>5, <3>1, BackupEnds DEF r
  <2>6. CASE i = 1
    <3> DEFINE f == failures > 0
               g == failures' > 0
               p == StartViewChange(begun, 1, lost)
    <3>1. Undecided(r, f) /\ (f \/ q(lost).failed => g)
      BY <2>3, <2>6 DEF ChangeInv, r
    <3> HIDE DEF f, g
    <3>2. Undecided(begun, f)
      BY <1>4, <1>3, <3>1, UndecidedAlike
    <3>3. v = 1 /\ r.view = 0 /\ begun.view = 0
      BY <1>2, <1>4, <2>4, <2>6
    <3>4. Undecided(p, f \/ p.failed)
      BY <1>4, <1>5, <3>2, <3>3, LeavesUndecided
    <3>5. p = q(lost)
      BY <2>2, <3>3
    <3> HIDE DEF p
    <3> DEFINE h == f \/ q(lost).failed
    <3>6. Undecided(q(lost), h) /\ (h => g)
      BY <3>1, <3>4, <3>5
    <3> HIDE DEF h
    <3>7. Undecided(replica'[1], g)
      BY <1>6, <2>1, <2>3, <2>6, <3>6, UndecidedAlike
    <3>8. Starting(replica[1])
      BY <2>6, <3>3 DEF Starting, r
    <3>9. \A j \in Correct \ {1} : Noted(j) => Noted(j)'
      BY <1>4, <2>1, <2>3, <2>6 DEF Noted, r
    <3> QED  BY <2>3, <2>6, <3>7, <3>8, <3>9, PrimaryEnds DEF g
  <2> QED  BY <2>5, <2>6
<1> QED  BY <1>7, <1>8

\* Whoever is sent a view change for the second view reads and accepts it,
LEMMA FirstViewChangeTaken ==
  ASSUME TypeOK, NEW C, Carry(C), NEW e \in net, e.msg.type = "ViewChange", e.msg.view = 1
  PROVE  Taken(e) /\ ValidViewChange(e.msg)
<1>1. e.msg \in ViewChange
  BY MessageTypes
<1>2. \A p \in e.msg.prepares : Certificate(p)
  BY DEF Carry, Sends, Reports
<1>3. \A p \in e.msg.prepares : p.digest \in Replica
  BY <1>2, FirstPrimary DEF Certificate
<1> QED  BY <1>1, <1>2, <1>3, ReportsValid DEF Taken, Decodes, IsMessageAllowed

\* ... and a NewView that its primary makes of enough of them.
LEMMA FirstNewViewTaken ==
  ASSUME NEW rs, NEW C, NEW r \in ReplicaState, HeldTruly(rs, C, r),
         NEW m \in NewView, m.view = 1, Sends(rs, C, 1, m),
         m.messages = ViewChangesOf(r, 1), Cardinality(m.messages) >= CommitQuorum
  PROVE  ValidNewView(1, m) /\ Decodes(m)
<1>1. m.type = "NewView"
  BY DEF NewView
<1>2. m.preprepares = <<NextPrePrepare>> \/ m.preprepares = <<>>
  BY <1>1 DEF Sends
<1>3. \A s \in DOMAIN m.preprepares : s = 1 /\ m.preprepares[s] = NextPrePrepare
  BY <1>2
<1>4. \A s \in DOMAIN m.preprepares :
         /\ m.preprepares[s].view = m.view /\ m.preprepares[s].seq = s
         /\ m.preprepares[s].digest \in Replica
  BY <1>3, FirstPrimary DEF NextPrePrepare
<1>5. ASSUME NEW x \in m.messages
      PROVE  ValidViewChange(x.msg) /\ \A p \in x.msg.prepares : p.digest \in Replica
  <2>1. x \in r.viewChanges /\ x.msg.view = 1 /\ x.msg \in ViewChange
    BY DEF ViewChangesOf, ReplicaState, ViewChangeReceipt
  <2>2. \A p \in x.msg.prepares : Certificate(p)
    BY <2>1 DEF HeldTruly, Reports
  <2> QED  BY <2>1, <2>2, ReportsValid, FirstPrimary DEF Certificate
<1>6. ValidNewView(1, m)
  BY <1>4, <1>5, SecondPrimary DEF ValidNewView
<1> QED  BY <1>1, <1>4, <1>5, <1>6 DEF Decodes

\* The primary of the second view counts who has left the first, and the others
\* pass on to it that they do.
LEMMA ReceiveViewChangeEnds ==
  ASSUME SilentThenCorrect, NewViewsArrive, TypeOK, TypeOK', ReplicasStep, OneReceipt,
         FirstIsActive, ChangeInv, AtMostOneChange', NEW C, Carry(C), NEW D, Carry(D)',
         NEW e \in net, ReceiveViewChange(e)
  PROVE  ChangeInv'
<1> DEFINE r == replica[e.to]
<1>1. /\ e.to \in Replica /\ e.from \in Replica /\ r \in ReplicaState /\ e.msg \in ViewChange
      /\ r.id = e.to /\ r.view \in Nat /\ r.activeView \in BOOLEAN /\ OneEach(r)
      /\ e.msg.type = "ViewChange" /\ e.msg.view \in Nat
  BY MessageTypes DEF TypeOK, ReceiveViewChange, ReplicaState, OneReceipt, ViewChange
<1>2. 1 \in Correct /\ 1 \in Replica
  BY DEF SilentThenCorrect, Correct
<1>3. PICK lost \in Losses({"ViewChange", "NewView", "PrePrepare"}) :
        \E q \in IF Taken(e) THEN ProcessViewChange(r, e.from, e.msg, lost) ELSE {r} :
           Run(q, {e})
  BY DEF ReceiveViewChange
<1>4. <<"NewView", 0>> \notin lost
  BY DEF Losses, NewViewsArrive
<1>5. PICK q \in IF Taken(e) THEN ProcessViewChange(r, e.from, e.msg, lost) ELSE {r} :
        Run(q, {e})
  BY <1>3
<1>6. q \in ReplicaState /\ q.id = e.to /\ q.view \in Nat
  <2>1. ViewStep(r, r)
    BY <1>1, KeepsReflexive, KeepsStep
  <2>2. ViewStep(r, q)
    BY <1>1, <1>5, <2>1, ProcessViewChangeStep
  <2> QED  BY <1>1, <2>2 DEF ViewStep, ReplicaState
<1>7. /\ \A j \in Replica \ {e.to} : replica'[j] = replica[j]
      /\ replica'[e.to].id = e.to
      /\ replica'[e.to].view = q.view /\ replica'[e.to].activeView = q.activeView
      /\ replica'[e.to].viewChanges = q.viewChanges
      /\ \A k \in net : k \in net' \/ k \in {e}
      /\ \A o \in q.outbox : ~o.failed => \A j \in Correct \ {e.to} :
            \E k \in net' : k.from = e.to /\ k.to = j /\ k.msg = o.msg
      /\ failures > 0 \/ q.failed => failures' > 0
  BY <1>1, <1>5, <1>6, RunShows
<1>8. e.to \in Correct => q.view <= 1
  BY <1>7 DEF AtMostOneChange
<1>9. CASE e.to # 1
  <2>1. \/ /\ q.view = r.view /\ q.activeView = r.activeView
        \/ /\ q.view > r.view /\ ~q.activeView
           /\ \E o \in q.outbox : /\ o.failed => q.failed
                                  /\ o.msg.type = "ViewChange" /\ o.msg.view = q.view
        \/ q.view = e.msg.view /\ e.msg.view > 0 /\ q.activeView /\ Primary(e.msg.view) = r.id
    BY <1>1, <1>4, <1>5, ReceiverAnnounces
  <2>2. CASE /\ q.view = r.view /\ q.activeView = r.activeView
    <3>1. \A k \in net : Invites(k, e.to) => k \in net'
      BY <1>1, <1>7 DEF Invites
    <3> QED  BY <1>1, <1>7, <1>9, <2>2, <3>1, BackupEnds
  <2>3. CASE /\ q.view > r.view /\ ~q.activeView
             /\ \E o \in q.outbox : /\ o.failed => q.failed
                                    /\ o.msg.type = "ViewChange" /\ o.msg.view = q.view
    <3>1. e.to \in Correct => q.view = 1 /\ r.view = 0
      BY <1>1, <1>6, <1>8, <2>3
    <3>2. e.to \in Correct => Noted(e.to)' \/ failures' > 0
      <4>1. \/ failures' > 0
            \/ \E k \in net' : /\ k.from = e.to /\ k.to = 1
                               /\ k.msg.type = "ViewChange" /\ k.msg.view = q.view
        BY <1>2, <1>7, <1>9, <2>3
      <4> QED  BY <3>1, <4>1 DEF Noted
    <3>3. \A k \in net : Invites(k, e.to) => k \in net'
      BY <1>1, <1>7 DEF Invites
    <3> QED  BY <1>1, <1>7, <1>9, <3>1, <3>2, <3>3, BackupEnds
  <2>4. CASE q.view = e.msg.view /\ e.msg.view > 0 /\ q.activeView /\ Primary(e.msg.view) = r.id
    <3>1. e.to \notin Correct
      <4> SUFFICES ASSUME e.to \in Correct PROVE FALSE
        OBVIOUS
      <4>1. e.msg.view = 1
        BY <1>1, <1>8, <2>4
      <4> QED  BY <1>1, <1>9, <2>4, <4>1, SecondPrimary
    <3> QED  BY <1>1, <1>7, <1>9, <3>1, BackupEnds
  <2> QED  BY <2>1, <2>2, <2>3, <2>4
<1>10. CASE e.to = 1
  <2> DEFINE f == failures > 0
             g == failures' > 0
             h == f \/ q.failed
  <2>1. Undecided(r, f) /\ (h => g) /\ (f => g)
    BY <1>7, <1>10 DEF ChangeInv
  <2>2. ViewStep(r, replica'[1])
    BY <1>2, <1>10 DEF ReplicasStep
  <2> HIDE DEF f, g
  <2>3. CASE ~Taken(e)
    <3>1. q = r /\ e.msg.view # 1
      BY <1>1, <1>5, <2>3, FirstViewChangeTaken
    <3>2. Undecided(replica'[1], g)
      BY <1>1, <1>7, <1>10, <2>1, <3>1, UndecidedAlike
    <3>3. ASSUME NEW j \in Correct \ {1}, Noted(j) PROVE Noted(j)'
      BY <1>1, <1>7, <1>10, <3>1, <3>3 DEF Noted
    <3>4. replica'[1].view = replica[1].view /\ replica'[1].activeView = replica[1].activeView
      BY <1>7, <1>10, <3>1
    <3> QED  BY <1>7, <1>10, <3>2, <3>3, <3>4, PrimaryEnds DEF g, Starting
  <2>4. CASE Taken(e)
    <3>1. q \in ProcessViewChange(r, e.from, e.msg, lost)
      BY <1>5, <2>4
    <3>2. (r.view = 0 => r.activeView) /\ q.view <= 1
      BY <1>2, <1>8, <1>10 DEF FirstIsActive
    <3> DEFINE waits ==
                 /\ q.view = 1 /\ q.activeView => r.view = 1 /\ r.activeView
                 /\ Undecided(q, h)
                 /\ r.viewChanges \subseteq q.viewChanges
                 /\ e.msg.view >= r.view /\ ValidViewChange(e.msg) =>
                      \E x \in q.viewChanges : x.from = e.from /\ x.msg.view = e.msg.view
               starts ==
                 /\ q.view = 1 /\ q.activeView
                 /\ Cardinality(ViewChangesOf(q, 1)) >= CommitQuorum
                 /\ \E o \in q.outbox : /\ ~o.failed
                                        /\ o.msg.type = "NewView" /\ o.msg.view = 1
                                        /\ o.msg.messages = ViewChangesOf(q, 1)
    <3>3. waits \/ starts
      BY <1>1, <1>4, <1>10, <2>1, <3>1, <3>2, PrimaryReceives
    <3>4. CASE waits
      <4> HIDE DEF h
      <4>1. Undecided(replica'[1], g)
        BY <1>6, <1>7, <1>10, <2>1, <3>4, UndecidedAlike
      <4>2. Starting(replica'[1]) => Starting(replica[1])
        BY <1>1, <1>6, <1>7, <1>10, <2>2 DEF Starting, ViewStep
      <4>3. replica'[1].view = 1 /\ replica'[1].activeView
              => replica[1].view = 1 /\ replica[1].activeView
        BY <1>7, <1>10, <3>4
      <4>4. ASSUME Starting(replica[1]), NEW j \in Correct \ {1}, Noted(j) PROVE Noted(j)'
        <5>1. CASE \E x \in replica[1].viewChanges : x.from = j /\ x.msg.view = 1
          BY <1>7, <1>10, <3>4, <5>1 DEF Noted
        <5>2. ASSUME NEW k \in net, k.from = j, k.to = 1, k.msg.type = "ViewChange",
                     k.msg.view = 1
              PROVE  Noted(j)'
          <6>1. CASE k # e
            BY <1>7, <5>2, <6>1 DEF Noted
          <6>2. CASE k = e
            <7>1. ValidViewChange(e.msg) /\ e.msg.view >= r.view
              BY <1>10, <4>4, <5>2, <6>2, FirstViewChangeTaken DEF Starting
            <7>2. \E x \in replica'[1].viewChanges : x.from = j /\ x.msg.view = 1
              BY <1>7, <1>10, <3>4, <5>2, <6>2, <7>1
            <7> QED  BY <7>2 DEF Noted
          <6> QED  BY <6>1, <6>2
        <5> QED  BY <4>4, <5>1, <5>2 DEF Noted
      <4> QED  BY <1>7, <1>10, <4>1, <4>2, <4>3, <4>4, PrimaryEnds DEF g
    <3>5. CASE starts
      <4>1. PICK o \in q.outbox : /\ ~o.failed
                                  /\ o.msg.type = "NewView" /\ o.msg.view = 1
                                  /\ o.msg.messages = ViewChangesOf(q, 1)
        BY <3>5
      <4>2. o.msg \in NewView
        BY <1>6, <4>1, OutboxTypes
      <4>3. /\ replica'[1] \in ReplicaState /\ HeldTruly(replica', D, replica'[1])
            /\ ViewChangesOf(replica'[1], 1) = ViewChangesOf(q, 1)
        BY <1>2, <1>7, <1>10 DEF TypeOK, Carry, Local, ViewChangesOf
      <4>4. ASSUME NEW j \in Correct \ {1} PROVE \E k \in net' : Invites(k, j)
        <5>1. PICK k \in net' : k.from = 1 /\ k.to = j /\ k.msg = o.msg
          BY <1>7, <1>10, <4>1
        <5>2. Sends(replica', D, 1, o.msg)
          BY <5>1 DEF Carry
        <5>3. ValidNewView(1, o.msg) /\ Decodes(o.msg)
          BY <3>5, <4>1, <4>2, <4>3, <5>2, FirstNewViewTaken
        <5> QED  BY <4>1, <5>1, <5>3 DEF Invites
      <4>5. replica'[1].view = 1 /\ replica'[1].activeView
        BY <1>7, <1>10, <3>5
      <4> QED  BY <1>7, <1>10, <4>4, <4>5, PrimaryEnds
    <3> QED  BY <3>3, <3>4, <3>5
  <2> QED  BY <2>3, <2>4
<1> QED  BY <1>9, <1>10

\* Every NewView comes to a correct replica that has left the views before it.
NewViewsAwaited ==
    \A e \in net : ReceiveNewView(e) /\ e.to \in Correct => replica[e.to].view >= e.msg.view

\* Then it takes its receiver into the view, unless it is there already.
LEMMA ReceiveNewViewEnds ==
  ASSUME SilentThenCorrect, TypeOK, SlotInv, ChangeInv, AtMostOneChange, AtMostOneChange',
         NewViewsAwaited, NEW e \in net, ReceiveNewView(e)
  PROVE  ChangeInv'
<1> DEFINE r == replica[e.to]
           processed(lost) == ProcessNewView(r, e.from, e.msg, lost)
           q(lost) == IF Taken(e) THEN processed(lost) ELSE r
<1>1. /\ e.to \in Replica /\ e.from \in Replica /\ r \in ReplicaState /\ e.msg \in NewView
      /\ r.id = e.to /\ r.view \in Nat /\ r.activeView \in BOOLEAN
      /\ e.msg.view > 0 /\ e.msg.view \in Nat /\ e.msg.type = "NewView"
      /\ e.to \in Correct \ {e.from} /\ e.from = Primary(e.msg.view)
  BY MessageTypes DEF TypeOK, ReceiveNewView, SlotInv, NewViewsStarted, ToOthers,
     ReplicaState, NewView
<1>2. PICK lost : Run(q(lost), {e})
  BY DEF ReceiveNewView
<1>3. r.view = 1 /\ e.msg.view = 1
  BY <1>1 DEF NewViewsAwaited, AtMostOneChange
<1>4. e.from = 1 /\ e.to # 1
  BY <1>1, <1>3, SecondPrimary
<1>5. /\ processed(lost) \in ReplicaState /\ processed(lost).id = e.to
      /\ processed(lost) = r \/ (processed(lost).view = 1 /\ processed(lost).activeView)
  BY <1>1, <1>3, ProcessNewViewStep, ProcessNewViewFills DEF ViewStep
<1>6. Invites(e, e.to) /\ ~r.activeView =>
        Taken(e) /\ processed(lost).view = 1 /\ processed(lost).activeView
  BY <1>1, <1>3, <1>4, NewViewEnters DEF Invites, Taken, IsMessageAllowed
<1> HIDE DEF r, processed
<1>7. /\ q(lost) \in ReplicaState /\ q(lost).id = e.to
      /\ q(lost).view = 1
      /\ r.activeView => q(lost).activeView
      /\ Invites(e, e.to) /\ ~r.activeView => q(lost).activeView
  BY <1>1, <1>3, <1>5, <1>6
<1> HIDE DEF q
<1>8. /\ \A j \in Replica \ {e.to} : replica'[j] = replica[j]
      /\ replica'[e.to].view = q(lost).view /\ replica'[e.to].activeView = q(lost).activeView
      /\ \A k \in net : k \in net' \/ k \in {e}
      /\ failures > 0 => failures' > 0
  BY <1>1, <1>2, <1>7, RunShows
<1>9. \/ replica'[e.to].view = 1 /\ replica'[e.to].activeView
      \/ /\ ~(replica[e.to].view = 1 /\ replica[e.to].activeView)
         /\ \A k \in net : Invites(k, e.to) => k \in net'
  BY <1>7, <1>8 DEF r
<1> QED  BY <1>1, <1>3, <1>4, <1>8, <1>9, BackupEnds DEF r

\* Every step of the cluster.
LEMMA ChangeNext ==
  ASSUME SilentThenCorrect, NewViewsArrive, AgreementInv, FirstIsActive, CarryInv,
         CarryInv', ChangeInv, AtMostOneChange, AtMostOneChange', NewViewsAwaited, Next
  PROVE  ChangeInv'
<1>1. TypeOK /\ OneReceipt /\ SlotInv /\ Inv
  BY DEF AgreementInv, ViewsInv, Inv, Truth
<1>2. TypeOK' /\ ReplicasStep
  BY <1>1, NextStep
<1>3. PICK C : Carry(C)
  BY DEF CarryInv
<1>4. PICK D : Carry(D)'
  BY DEF CarryInv
<1>5. ASSUME NEW e \in net, Receive(e) PROVE ChangeInv'
  BY <1>1, <1>2, <1>3, <1>4, <1>5, ReceiveNormalEnds, ReceiveViewChangeEnds,
     ReceiveNewViewEnds DEF Receive
<1>6. ASSUME Timers PROVE ChangeInv'
  BY <1>1, <1>6, TimerExpiresEnds, TimerCallbackEnds DEF Timers
<1>7. ASSUME Main PROVE ChangeInv'
  BY <1>1, <1>7, MainEnds
<1> QED  BY <1>5, <1>6, <1>7 DEF Next

\* A replica whose carried invariant holds has left its first view, or is active.
LEMMA FirstIsActiveThere ==
  ASSUME AtMostOneChange, CarryInv
  PROVE  FirstIsActive
BY DEF CarryInv, Carry, Local, LeftTruly, FirstIsActive

\* What holds as long as there is but one view change.
ChangeEndsInv ==
    /\ AgreementInv /\ CarryInv
    /\ AtMostOneChange => EndsInv

\* It holds initially ...
LEMMA ChangeEndsInitially ==
  ASSUME SilentThenCorrect
  PROVE  Init => ChangeEndsInv
<1> SUFFICES ASSUME Init PROVE ChangeEndsInv
  OBVIOUS
<1>1. AgreementInv /\ CarryInv
  BY SlotsInitially, CarryInitially
<1>2. ASSUME NEW i \in Replica
      PROVE  /\ replica[i].view = 0 /\ replica[i].viewChanges = {} /\ replica[i].id = i
             /\ replica[i].requestTimer = NoTimer
  BY DEF Init, NewReplica
<1>3. net = {} /\ main.next = 0 /\ main.call = Outside
  BY DEF Init
<1>4. NothingFirst /\ FirstWaits
  <2>1. ASSUME NEW i \in Correct PROVE Covered(replica[i]) /\ ~Served(i)
    BY <1>2, <1>3 DEF Covered, Served, Outside, Correct, Replica
  <2> QED  BY <1>3, <2>1 DEF NothingFirst, FirstWaits
<1>5. 1 \in Replica
  BY SecondPrimary
<1>6. Announced /\ Told
  BY <1>2, <1>5 DEF Announced, Told, Correct
<1>7. Undecided(replica[1], failures > 0)
  <2>1. Others(replica[1]) = {} /\ replica[1].view = 0
    BY <1>2, <1>5 DEF Others, ViewChangesOf
  <2>2. Cardinality(Others(replica[1])) <= F
    BY <2>1, FS_EmptySet, ToleratesOne
  <2> QED  BY <2>1, <2>2 DEF Undecided
<1> QED  BY <1>1, <1>4, <1>6, <1>7 DEF ChangeEndsInv, EndsInv, ChangeInv

\* ... and every step that lets nobody miss a NewView keeps it.
LEMMA ChangeEndsStep ==
  ASSUME SilentThenCorrect, NewViewsArrive, ChangeEndsInv, [Next /\ NewViewsAwaited]_vars
  PROVE  ChangeEndsInv'
<1>1. AgreementInv /\ CarryInv /\ ViewsInv /\ Inv /\ TypeOK /\ OneReceipt
  BY DEF ChangeEndsInv, AgreementInv, ViewsInv, Inv, Truth
<1>2. AgreementInv' /\ CarryInv'
  <2>1. [Next]_vars
    OBVIOUS
  <2> QED  BY <1>1, <2>1, SlotsInductive, CarryInductive
<1>3. ASSUME AtMostOneChange' PROVE EndsInv'
  <2>1. AtMostOneChange
    BY <1>1, <1>3, OneChangeBefore
  <2>2. EndsInv /\ FirstIsActive
    BY <1>1, <2>1, FirstIsActiveThere DEF ChangeEndsInv
  <2>3. CASE UNCHANGED vars
    <3>1. NothingFirst' /\ FirstWaits'
      BY <2>2, <2>3 DEF vars, EndsInv, NothingFirst, FirstWaits, Served, Arming
    <3>2. ChangeInv'
      BY <2>2, <2>3, StaysEnds DEF vars, EndsInv, Stays
    <3> QED  BY <3>1, <3>2 DEF EndsInv
  <2>4. CASE Next /\ NewViewsAwaited
    <3>1. NothingFirst' /\ FirstWaits'
      BY <1>1, <2>2, <2>4, NothingFirstStays, FirstWaitsNext DEF EndsInv
    <3>2. ChangeInv'
      BY <1>1, <1>2, <1>3, <2>1, <2>2, <2>4, ChangeNext DEF EndsInv
    <3> QED  BY <3>1, <3>2 DEF EndsInv
  <2> QED  BY <2>3, <2>4
<1> QED  BY <1>2, <1>3 DEF ChangeEndsInv

\* When nothing will happen any more, everybody has come to the second view, and
\* what has been said of it has been heard, or was lost.
LEMMA SilentEnds ==
  ASSUME SilentThenCorrect, Cardinality(Correct) >= CommitQuorum,
         ChangeEndsInv, AtMostOneChange
  PROVE  ViewChangeEnds
<1> SUFFICES ASSUME Silent, NEW i \in Correct, ~replica[i].activeView
             PROVE  MissesViewChange(Primary(replica[i].view), replica[i].view)
  BY DEF ViewChangeEnds
<1>1. /\ TypeOK /\ OneReceipt /\ FirstWaits /\ ChangeInv
      /\ 1 \in Correct /\ Correct \subseteq Replica
  BY DEF ChangeEndsInv, EndsInv, AgreementInv, ViewsInv, Inv, Truth, SilentThenCorrect, Correct
<1>2. ASSUME NEW j \in Correct PROVE replica[j].view = 1
  <2>1. replica[j].view \in Nat /\ replica[j].view <= 1 /\ j \in Replica
    BY <1>1 DEF TypeOK, ReplicaState, AtMostOneChange
  <2>2. /\ ~replica[j].requestTimer.running /\ replica[j].callbacks = {}
        /\ main.next > j /\ main.next # j
    BY <2>1, ClusterAssumption DEF Silent, Replica
  <2>3. replica[j].view # 0
    <3> SUFFICES ASSUME replica[j].view = 0 PROVE FALSE
      OBVIOUS
    <3>1. Covered(replica[j]) /\ replica[j].requestTimer # NoTimer
      BY <1>1, <2>2 DEF FirstWaits, Served, Arming
    <3> QED  BY <2>2, <3>1 DEF Covered
  <2> QED  BY <2>1, <2>3
<1>3. replica[i].view = 1 /\ replica[1].view = 1 /\ replica[1].id = 1 /\ replica[1] \in ReplicaState
  BY <1>1, <1>2 DEF TypeOK
<1>4. ~replica[1].activeView
  <2> SUFFICES ASSUME replica[1].activeView PROVE FALSE
    OBVIOUS
  <2>1. PICK e \in net : Invites(e, i)
    BY <1>1, <1>3 DEF ChangeInv, Told
  <2> QED  BY <1>3, <2>1 DEF Silent, Spent, Invites
<1>5. ~ViewChangeReady(replica[1], 1) /\ (OwnNoted(replica[1]) \/ failures > 0)
  BY <1>1, <1>3, <1>4 DEF ChangeInv, Undecided
<1>6. PICK j \in Correct : \A x \in ViewChangesOf(replica[1], 1) : x.from # j
  <2> DEFINE V == ViewChangesOf(replica[1], 1)
  <2> SUFFICES ASSUME \A j \in Correct : \E x \in V : x.from = j PROVE FALSE
    OBVIOUS
  <2>2. IsFiniteSet(V) /\ Cardinality(V) \in Nat
    BY <1>1, <1>3, OthersFinite, SecondPrimary DEF OneReceipt
  <2> DEFINE S == {x.from : x \in V}
  <2>3. IsFiniteSet(S) /\ Cardinality(S) <= Cardinality(V)
    <3> DEFINE f == [x \in V |-> x.from]
    <3>1. f \in [V -> S]
      OBVIOUS
    <3>2. ASSUME NEW t \in S PROVE \E x \in V : f[x] = t
      OBVIOUS
    <3>3. f \in Surjection(V, S)
      <4> HIDE DEF f, V, S
      <4> QED  BY <3>1, <3>2 DEF Surjection
    <3> HIDE DEF f, V, S
    <3> QED  BY <2>2, <3>3, FS_Surjection
  <2>4. Correct \subseteq S
    OBVIOUS
  <2>5. Cardinality(Correct) <= Cardinality(S)
    BY <2>3, <2>4, FS_Subset
  <2>6. Cardinality(Correct) \in Nat /\ Cardinality(S) \in Nat /\ CommitQuorum \in Nat
    BY <2>3, <2>4, FS_Subset, FS_CardinalityType, Quorums
  <2> HIDE DEF V, S
  <2>7. Cardinality(V) >= CommitQuorum
    BY <2>2, <2>3, <2>5, <2>6
  <2> QED  BY <1>5, <2>7 DEF V, ViewChangeReady
<1>7. failures > 0
  <2>1. CASE j = 1
    <3>1. ~OwnNoted(replica[1])
      BY <1>3, <1>6, <2>1 DEF OwnNoted
    <3> QED  BY <1>5, <3>1
  <2>2. CASE j # 1
    <3>1. Noted(j) \/ failures > 0
      BY <1>1, <1>2, <1>3, <1>4, <2>2 DEF ChangeInv, Announced, Starting
    <3>2. ASSUME NEW e \in net, e.to = 1, e.msg.type = "ViewChange", e.msg.view = 1 PROVE FALSE
      BY <1>3, <1>4, <3>2, SecondPrimary DEF Silent, Spent, IsPrimary
    <3>3. ~Noted(j)
      BY <1>6, <3>2 DEF Noted, ViewChangesOf
    <3> QED  BY <3>1, <3>3
  <2> QED  BY <2>1, <2>2
<1>8. replica[j].view = 1
  BY <1>2
<1>9. MissesViewChange(1, 1)
  BY <1>5, <1>6, <1>7, <1>8 DEF MissesViewChange
<1> QED  BY <1>3, <1>9, SecondPrimary

(***************************************************************************)
(* A view change that a silent primary causes comes to its end.  In every  *)
(* cluster with a Byzantine replica 0, a correct replica 1 and a quorum of *)
(* correct replicas, whatever is lost but a NewView, and as long as no     *)
(* correct replica goes beyond its second view: when nothing will happen   *)
(* any more, every correct replica is active, unless the primary of the    *)
(* second view has too few ViewChanges and misses that of a correct        *)
(* replica, which was lost.  The one condition is that no NewView comes to *)
(* a replica that is still active in the first view: it drops it           *)
(* (isMessageAllowed), and gets no other.                                  *)
(***************************************************************************)
THEOREM AwaitedViewChangeEnds ==
  ASSUME SilentThenCorrect, Cardinality(Correct) >= CommitQuorum, NewViewsArrive
  PROVE  Spec /\ [][NewViewsAwaited]_vars => [](AtMostOneChange => ViewChangeEnds)
<1>1. Init => ChangeEndsInv
  BY ChangeEndsInitially
<1>2. ChangeEndsInv /\ [Next]_vars /\ [NewViewsAwaited]_vars => ChangeEndsInv'
  <2>1. [Next]_vars /\ [NewViewsAwaited]_vars => [Next /\ NewViewsAwaited]_vars
    OBVIOUS
  <2> QED  BY <2>1, ChangeEndsStep
<1>3. ChangeEndsInv => (AtMostOneChange => ViewChangeEnds)
  BY SilentEnds
<1> QED  BY <1>1, <1>2, <1>3, PTL DEF Spec

-----------------------------------------------------------------------------
(* In the smallest cluster no NewView comes too soon: replica 1 starts the *)
(* second view with the view changes of all the others but replica 0,      *)
(* which sends none.                                                       *)

SmallestCluster == N = 4 /\ Byzantine = {0}

\* Replica 0 proposes once and is never timed,
Untimed ==
    /\ replica[0].requestTimer = NoTimer /\ replica[0].callbacks = {}
    /\ main.next = 0 => \/ main.call = Outside /\ replica[0].view = 0
                        \/ main.call.step = "broadcast"

\* ... so it has no part in view changes.
SaysNoView(e) == e.msg.type \notin {"ViewChange", "NewView"}

Mute ==
    /\ \A e \in net : e.from = 0 => SaysNoView(e)
    /\ \A x \in replica[1].viewChanges : x.from # 0

\* Replica 1 leads the second view with the view changes that took it there.
Led ==
    replica[1].view = 1 /\ replica[1].activeView => ViewChangeReady(replica[1], 1)

QuietInv == Untimed /\ Mute /\ Led

\* A step of another replica than replica 0.
OtherSteps(i) ==
    /\ i # 0 /\ UNCHANGED main
    /\ \A j \in Replica \ {i} : replica'[j] = replica[j]
    /\ \A e \in net' : e \in net \/ e.from = i
    /\ i = 1 =>
         /\ \A x \in replica'[1].viewChanges :
               \/ x \in replica[1].viewChanges
               \/ x.from # 0
         /\ replica'[1].view = 1 /\ replica'[1].activeView =>
               \/ ViewChangeReady(replica'[1], 1)
               \/ /\ replica[1].view = 1 /\ replica[1].activeView
                  /\ replica[1].viewChanges \subseteq replica'[1].viewChanges

\* A replica does not lose view changes, so it keeps the quorum it has led with.
LEMMA ReadyGrows ==
  ASSUME NEW r \in ReplicaState, OneEach(r), NEW p, p.viewChanges \subseteq r.viewChanges,
         ViewChangeReady(p, 1)
  PROVE  ViewChangeReady(r, 1)
<1>1. ViewChangesOf(p, 1) \subseteq ViewChangesOf(r, 1)
  BY DEF ViewChangesOf
<1>2. IsFiniteSet(ViewChangesOf(r, 1))
  BY OthersFinite
<1>3. /\ Cardinality(ViewChangesOf(p, 1)) <= Cardinality(ViewChangesOf(r, 1))
      /\ Cardinality(ViewChangesOf(p, 1)) \in Nat /\ Cardinality(ViewChangesOf(r, 1)) \in Nat
  BY <1>1, <1>2, FS_Subset, FS_CardinalityType
<1>4. Cardinality(ViewChangesOf(p, 1)) >= CommitQuorum
  BY DEF ViewChangeReady
<1>5. Cardinality(ViewChangesOf(r, 1)) >= CommitQuorum
  BY <1>3, <1>4, Quorums
<1> QED  BY <1>5 DEF ViewChangeReady

\* Such a step leaves replica 0 out.
LEMMA OtherStepsQuiet ==
  ASSUME TypeOK, TypeOK', OneReceipt', QuietInv, NEW i \in Replica, OtherSteps(i)
  PROVE  QuietInv'
<1>1. replica'[0] = replica[0] /\ UNCHANGED main
  BY FirstPrimary DEF OtherSteps
<1>2. Untimed'
  BY <1>1 DEF QuietInv, Untimed
<1>3. 1 \in Replica
  BY SecondPrimary
<1>4. Mute'
  BY <1>3 DEF QuietInv, Mute, OtherSteps, SaysNoView
<1>5. Led'
  <2>1. CASE i = 1
    <3>1. replica'[1] \in ReplicaState /\ OneEach(replica'[1])
      BY <1>3 DEF TypeOK, OneReceipt
    <3> QED  BY <2>1, <3>1, ReadyGrows DEF QuietInv, Led, OtherSteps
  <2>2. CASE i # 1
    BY <1>3, <2>2 DEF QuietInv, Led, OtherSteps
  <2> QED  BY <2>1, <2>2
<1> QED  BY <1>2, <1>4, <1>5 DEF QuietInv

\* The receipts of the handler of a view change are its sender's, or its own.
LEMMA ViewChangeHeard ==
  ASSUME NEW r \in ReplicaState, OneEach(r), NEW from \in Replica, NEW m \in ViewChange,
         NEW lost, NEW q \in ProcessViewChange(r, from, m, lost)
  PROVE  \A x \in q.viewChanges : x \in r.viewChanges \/ x.from \in {from, r.id}
<1> DEFINE H == {[from |-> from, msg |-> m]}
<1>1. [from |-> from, msg |-> m] \in H /\ \A x \in H : x.from = from
  OBVIOUS
<1> HIDE DEF H
<1>2. ASSUME NEW j, Turns(r, j, H), NEW x \in j.viewChanges
      PROVE  x \in r.viewChanges \/ x.from \in {from, r.id}
  BY <1>1, <1>2 DEF Turns
<1>3. ASSUME NEW j, Turns(r, j, H), q \in StartNewView(j, m.view, lost), NEW x \in q.viewChanges
      PROVE  x \in r.viewChanges \/ x.from \in {from, r.id}
  <2>1. j \in ReplicaState /\ j.id = r.id /\ m.view \in Nat
    BY <1>3 DEF Turns, ViewChange
  <2> DEFINE vc == ViewChangeFor(j, m.view)
             own == RecordViewChangeReceipt(j, j.id, vc)
  <2>2. q.viewChanges = own.viewChanges
    BY <1>3, <2>1, StartNewViewStarts
  <2> HIDE DEF vc
  <2>3. \A y \in own.viewChanges : y \in j.viewChanges \/ (y.from = j.id /\ y.msg = vc)
    BY <2>1, RecordViewChangeAdds
  <2> QED  BY <1>2, <1>3, <2>1, <2>2, <2>3
<1> QED  BY <1>1, <1>2, <1>3, ProcessViewChangeTurns

\* The handlers of the normal case,
LEMMA ReceiveNormalOther ==
  ASSUME SmallestCluster, TypeOK, ToOthers, NEW e \in net,
         ReceivePrePrepare(e) \/ ReceivePrepare(e) \/ ReceiveCommit(e)
  PROVE  OtherSteps(e.to)
<1>1. /\ e.to \in Replica /\ e.to # 0 /\ replica[e.to] \in ReplicaState
      /\ replica[e.to].id = e.to
  BY MessageTypes DEF TypeOK, ToOthers, Correct, SmallestCluster
<1>2. ASSUME NEW q \in ReplicaState, Run(q, {e}), q.id = e.to,
             q.view = replica[e.to].view, q.activeView = replica[e.to].activeView,
             q.viewChanges = replica[e.to].viewChanges
      PROVE  OtherSteps(e.to)
  <2>1. /\ \A j \in Replica \ {e.to} : replica'[j] = replica[j]
        /\ replica'[e.to].view = q.view /\ replica'[e.to].activeView = q.activeView
        /\ replica'[e.to].viewChanges = q.viewChanges
        /\ \A k \in net' : k \in net \/ (k.from = e.to /\ \E o \in q.outbox : k.msg = o.msg)
    BY <1>1, <1>2, RunShows
  <2>2. UNCHANGED main
    BY ReceiveNormalHandles
  <2> QED  BY <1>1, <1>2, <2>1, <2>2 DEF OtherSteps
<1>3. CASE Run(replica[e.to], {e})
  BY <1>1, <1>2, <1>3
<1>4. ASSUME NEW q, NEW H, Handles(e, q, H), Run(q, {e}) PROVE OtherSteps(e.to)
  <2>1. /\ q \in ReplicaState /\ q.id = e.to
        /\ q.view = replica[e.to].view /\ q.activeView = replica[e.to].activeView
        /\ q.viewChanges = replica[e.to].viewChanges
    BY <1>1, <1>4 DEF Handles, Attests, Adds
  <2> QED  BY <1>2, <1>4, <2>1
<1> QED  BY <1>3, <1>4, ReceiveNormalHandles

\* ... of a view change,
LEMMA ReceiveViewChangeOther ==
  ASSUME SmallestCluster, NewViewsArrive, TypeOK, OneReceipt, ToOthers, Mute,
         FirstIsActive, ChangeInv, AtMostOneChange', NEW e \in net, ReceiveViewChange(e)
  PROVE  OtherSteps(e.to)
<1> DEFINE r == replica[e.to]
<1>1. /\ e.to \in Replica /\ e.from \in Replica /\ r \in ReplicaState /\ e.msg \in ViewChange
      /\ r.id = e.to /\ OneEach(r) /\ e.to # 0 /\ e.from # 0
  BY MessageTypes DEF TypeOK, ReceiveViewChange, OneReceipt, ToOthers, Correct,
     SmallestCluster, Mute, SaysNoView
<1>2. PICK lost \in Losses({"ViewChange", "NewView", "PrePrepare"}) :
        \E q \in IF Taken(e) THEN ProcessViewChange(r, e.from, e.msg, lost) ELSE {r} :
           Run(q, {e})
  BY DEF ReceiveViewChange
<1>3. <<"NewView", 0>> \notin lost
  BY DEF Losses, NewViewsArrive
<1>4. PICK q \in IF Taken(e) THEN ProcessViewChange(r, e.from, e.msg, lost) ELSE {r} :
        Run(q, {e})
  BY <1>2
<1>5. q \in ReplicaState /\ q.id = e.to
  <2>1. ViewStep(r, r)
    BY <1>1, KeepsReflexive, KeepsStep
  <2>2. ViewStep(r, q)
    BY <1>1, <1>4, <2>1, ProcessViewChangeStep
  <2> QED  BY <1>1, <2>2 DEF ViewStep
<1>6. /\ \A j \in Replica \ {e.to} : replica'[j] = replica[j]
      /\ replica'[e.to].view = q.view /\ replica'[e.to].activeView = q.activeView
      /\ replica'[e.to].viewChanges = q.viewChanges
      /\ \A k \in net' : k \in net \/ (k.from = e.to /\ \E o \in q.outbox : k.msg = o.msg)
  BY <1>1, <1>4, <1>5, RunShows
<1>7. UNCHANGED main
  BY DEF ReceiveViewChange
<1>8. ASSUME e.to = 1, ~Taken(e) PROVE OtherSteps(e.to)
  <2>1. q = r
    BY <1>4, <1>8
  <2> QED  BY <1>1, <1>6, <1>7, <1>8, <2>1 DEF OtherSteps
<1>9. ASSUME e.to = 1, Taken(e) PROVE OtherSteps(e.to)
  <2> DEFINE f == failures > 0
  <2>1. Undecided(r, f)
    BY <1>9 DEF ChangeInv
  <2> HIDE DEF f
  <2>2. q \in ProcessViewChange(r, e.from, e.msg, lost)
    BY <1>4, <1>9
  <2>3. 1 \in Correct
    BY <1>1, <1>9 DEF Correct, SmallestCluster
  <2>4. (r.view = 0 => r.activeView) /\ q.view <= 1
    BY <1>6, <1>9, <2>3 DEF FirstIsActive, AtMostOneChange
  <2>5. \A x \in q.viewChanges : x \in r.viewChanges \/ x.from # 0
    BY <1>1, <2>2, ViewChangeHeard
  <2>6. q.view = 1 /\ q.activeView =>
          \/ Cardinality(ViewChangesOf(q, 1)) >= CommitQuorum
          \/ r.view = 1 /\ r.activeView /\ r.viewChanges \subseteq q.viewChanges
    BY <1>1, <1>3, <1>9, <2>1, <2>2, <2>4, PrimaryReceives
  <2>7. ViewChangesOf(replica'[1], 1) = ViewChangesOf(q, 1)
    BY <1>6, <1>9 DEF ViewChangesOf
  <2> QED  BY <1>1, <1>6, <1>7, <1>9, <2>5, <2>6, <2>7 DEF OtherSteps, ViewChangeReady
<1>10. CASE e.to # 1
  BY <1>1, <1>6, <1>7, <1>10 DEF OtherSteps
<1> QED  BY <1>8, <1>9, <1>10

\* ... of a NewView, which replica 1 does not take,
LEMMA ReceiveNewViewOther ==
  ASSUME SmallestCluster, TypeOK, SlotInv, AtMostOneChange', NEW e \in net, ReceiveNewView(e)
  PROVE  OtherSteps(e.to)
<1> DEFINE r == replica[e.to]
           processed(lost) == ProcessNewView(r, e.from, e.msg, lost)
           q(lost) == IF Taken(e) THEN processed(lost) ELSE r
<1>1. /\ e.to \in Replica /\ e.from \in Replica /\ r \in ReplicaState /\ e.msg \in NewView
      /\ r.id = e.to /\ e.msg.view > 0 /\ e.msg.view \in Nat
      /\ e.to \in Correct \ {e.from} /\ e.from = Primary(e.msg.view) /\ e.to # 0
  BY MessageTypes DEF TypeOK, ReceiveNewView, SlotInv, NewViewsStarted, ToOthers,
     NewView, Correct, SmallestCluster
<1>2. PICK lost : Run(q(lost), {e})
  BY DEF ReceiveNewView
<1>3. /\ processed(lost) \in ReplicaState /\ processed(lost).id = e.to
      /\ processed(lost).viewChanges = r.viewChanges
      /\ \/ processed(lost).view = r.view /\ processed(lost).activeView = r.activeView
         \/ processed(lost).view = e.msg.view
  BY <1>1, ProcessNewViewStep, ProcessNewViewQuiet DEF ViewStep, Quiet
<1> HIDE DEF r, processed
<1>4. /\ q(lost) \in ReplicaState /\ q(lost).id = e.to
      /\ q(lost).viewChanges = r.viewChanges
      /\ \/ q(lost).view = r.view /\ q(lost).activeView = r.activeView
         \/ q(lost).view = e.msg.view
  BY <1>1, <1>3
<1> HIDE DEF q
<1>5. /\ \A j \in Replica \ {e.to} : replica'[j] = replica[j]
      /\ replica'[e.to].view = q(lost).view /\ replica'[e.to].activeView = q(lost).activeView
      /\ replica'[e.to].viewChanges = q(lost).viewChanges
      /\ \A k \in net' : k \in net \/ (k.from = e.to /\ \E o \in q(lost).outbox : k.msg = o.msg)
  BY <1>1, <1>2, <1>4, RunShows
<1>6. e.to = 1 /\ q(lost).view = 1 => q(lost).view = r.view /\ q(lost).activeView = r.activeView
  BY <1>1, <1>4, SecondPrimary
<1>7. UNCHANGED main
  BY DEF ReceiveNewView
<1> QED  BY <1>1, <1>4, <1>5, <1>6, <1>7 DEF OtherSteps, r

\* ... and a timer, which is not replica 0's.
LEMMA TimerOther ==
  ASSUME SmallestCluster, TypeOK, Untimed, NEW i \in Replica,
         TimerExpires(i) \/ \E v \in 1 .. MaxView : TimerCallback(i, v)
  PROVE  OtherSteps(i)
<1>1. i # 0
  <2>1. ~replica[0].requestTimer.running /\ replica[0].callbacks = {}
    BY DEF Untimed, NoTimer
  <2> QED  BY <2>1 DEF TimerExpires, TimerCallback
<1>2. CASE TimerExpires(i)
  <2> DEFINE r == replica[i]
             stopped == [r.requestTimer EXCEPT !.running = FALSE]
             waiting == r.callbacks \cup {r.requestTimer.target}
             q == [r EXCEPT !.requestTimer = stopped, !.callbacks = waiting]
  <2>1. replica' = [replica EXCEPT ![i] = q] /\ UNCHANGED <<net, main>>
    BY <1>2 DEF TimerExpires
  <2>2. r \in ReplicaState
    BY DEF TypeOK
  <2> HIDE DEF stopped, waiting
  <2>3. /\ q.view = r.view /\ q.activeView = r.activeView
        /\ q.viewChanges = r.viewChanges
    BY <2>2 DEF ReplicaState
  <2> HIDE DEF q
  <2>4. /\ \A j \in Replica \ {i} : replica'[j] = replica[j]
        /\ replica'[i] = q
    BY <2>1 DEF TypeOK
  <2> QED  BY <1>1, <2>1, <2>3, <2>4 DEF OtherSteps
<1>3. ASSUME NEW v \in 1 .. MaxView, TimerCallback(i, v) PROVE OtherSteps(i)
  <2> DEFINE r == replica[i]
             rest == r.callbacks \ {v}
             begun == [r EXCEPT !.callbacks = rest]
             q(lost) == StartViewChange(begun, v, lost)
  <2>1. PICK lost : Run(q(lost), {})
    BY <1>3 DEF TimerCallback
  <2>2. /\ r \in ReplicaState /\ r.id = i /\ rest \in SUBSET Nat /\ r.view \in Nat
        /\ v \in Nat
    BY BoundAssumption DEF TypeOK, ReplicaState
  <2> HIDE DEF rest, r
  <2>3. /\ begun \in ReplicaState /\ begun.id = i /\ begun.view = r.view
        /\ begun.activeView = r.activeView /\ begun.viewChanges = r.viewChanges
    BY <2>2 DEF ReplicaState
  <2> HIDE DEF begun
  <2>4. /\ q(lost) \in ReplicaState /\ q(lost).id = i
        /\ r.viewChanges \subseteq q(lost).viewChanges
        /\ \A x \in q(lost).viewChanges : x \in r.viewChanges \/ x.from = i
        /\ q(lost).activeView => q(lost).view = r.view /\ r.activeView
    <3>1. CASE v > r.view
      BY <2>2, <2>3, <3>1, StartViewChangeAnnounces
    <3>2. CASE ~(v > r.view)
      <4>1. v <= begun.view
        BY <2>2, <2>3, <3>2
      <4>2. q(lost) = begun
        BY <4>1, Zenon DEF StartViewChange
      <4> HIDE DEF q
      <4> QED  BY <2>3, <4>2
    <3> QED  BY <3>1, <3>2
  <2> HIDE DEF q
  <2>5. /\ \A j \in Replica \ {i} : replica'[j] = replica[j]
        /\ replica'[i].view = q(lost).view /\ replica'[i].activeView = q(lost).activeView
        /\ replica'[i].viewChanges = q(lost).viewChanges
        /\ \A k \in net' : k \in net \/ (k.from = i /\ \E o \in q(lost).outbox : k.msg = o.msg)
    BY <2>1, <2>4, RunShows
  <2>6. UNCHANGED main
    BY <1>3 DEF TimerCallback
  <2> QED  BY <1>1, <2>4, <2>5, <2>6 DEF OtherSteps, r
<1> QED  BY <1>2, <1>3

\* Main starts no timer at a primary.
LEMMA ProposingLeavesTimers ==
  ASSUME TypeOK, NEW i \in Replica, MainProposes(i) \/ MainStoresPrePrepare(i)
  PROVE  \A j \in Replica : /\ replica'[j].requestTimer = replica[j].requestTimer
                            /\ replica'[j].callbacks = replica[j].callbacks
<1> DEFINE r == replica[i]
           known == [r EXCEPT !.requests = @ \cup {i}]
           noted == Equivocate(known)
           sent(lost) == SendPrePrepares(noted, <<i>>, lost)
           q(lost) == IF i \in r.pending THEN r ELSE sent(lost)
           msg == main.call.msg
           stored == StorePrePrepares(r, {msg})
<1>1. r \in ReplicaState /\ r.id = i /\ i \in Digest
  BY DEF TypeOK, Digest
<1>2. ASSUME NEW p \in ReplicaState, p.id = i, Run(p, {}),
             p.requestTimer = r.requestTimer, p.callbacks = r.callbacks
      PROVE  \A j \in Replica : /\ replica'[j].requestTimer = replica[j].requestTimer
                                /\ replica'[j].callbacks = replica[j].callbacks
  <2>1. replica' = [replica EXCEPT ![i] = Returned(p)]
    BY <1>2 DEF Run
  <2>2. /\ Returned(p).requestTimer = r.requestTimer
        /\ Returned(p).callbacks = r.callbacks
    BY <1>2 DEF Returned, ReplicaState
  <2> HIDE DEF Returned
  <2> QED  BY <2>1, <2>2 DEF TypeOK
<1>3. CASE MainProposes(i)
  <2>1. PICK lost : Run(q(lost), {})
    BY <1>3, Zenon DEF MainProposes
  <2> HIDE DEF r
  <2>2. known \in ReplicaState /\ known.id = i /\ LeavesTimer(r, known)
    BY <1>1 DEF ReplicaState, LeavesTimer
  <2> HIDE DEF known
  <2>3. noted = known \/ noted = [known EXCEPT !.view = @ + 1]
    BY DEF Equivocate
  <2>4. /\ noted \in ReplicaState /\ noted.id = i
        /\ noted.requestTimer = r.requestTimer /\ noted.callbacks = r.callbacks
    BY <2>2, <2>3 DEF ReplicaState, LeavesTimer
  <2> HIDE DEF noted
  <2>5. /\ sent(lost).requestTimer = noted.requestTimer
        /\ sent(lost).callbacks = noted.callbacks
    BY <2>4 DEF SendPrePrepares, ReplicaState
  <2>6. sent(lost) \in ReplicaState /\ sent(lost).id = i
    <3>1. <<i>> \in Seq(Digest)
      BY <1>1
    <3> QED  BY <2>4, <3>1, SendPrePreparesKeeps DEF Keeps
  <2> HIDE DEF sent
  <2>7. /\ q(lost) \in ReplicaState /\ q(lost).id = i
        /\ q(lost).requestTimer = r.requestTimer /\ q(lost).callbacks = r.callbacks
    BY <1>1, <2>4, <2>5, <2>6
  <2> HIDE DEF q
  <2> QED  BY <1>2, <2>1, <2>7
<1>4. CASE MainStoresPrePrepare(i)
  <2>1. Run(stored, {})
    BY <1>4 DEF MainStoresPrePrepare
  <2> DEFINE held == {p \in r.preprepares : \A k \in {msg} : ~SameSlot(p, k)} \cup {msg}
  <2>2. msg \in PrePrepare
    BY <1>4 DEF MainStoresPrePrepare, TypeOK, Calling
  <2>3. stored = [r EXCEPT !.preprepares = held] /\ held \in SUBSET PrePrepare
    BY <1>1, <2>2 DEF StorePrePrepares, ReplicaState
  <2> HIDE DEF r, stored, held
  <2>4. /\ stored \in ReplicaState /\ stored.id = i
        /\ stored.requestTimer = r.requestTimer /\ stored.callbacks = r.callbacks
    BY <1>1, <2>3 DEF ReplicaState
  <2> QED  BY <1>2, <2>1, <2>4
<1> QED  BY <1>3, <1>4

\* What main makes of replica 0 leaves it untimed, and says nothing of views.
LEMMA MainQuiet ==
  ASSUME SmallestCluster, TypeOK, QuietInv, Main
  PROVE  QuietInv'
<1>1. SilentThenCorrect
  BY SecondPrimary DEF SmallestCluster, SilentThenCorrect, Correct
<1>2. 0 \in Replica /\ 1 \in Replica /\ 1 \in Correct /\ main.next \in Nat
  BY <1>1, FirstPrimary, SecondPrimary DEF TypeOK, SilentThenCorrect
<1>3. PICK i \in Replica : \/ MainLooks(i) \/ MainTouches(i)
                           \/ MainProposes(i) \/ MainStoresPrePrepare(i)
  BY MainSteps
<1>4. ASSUME Stays(1), \A e \in net' : e \in net \/ SaysNoView(e) PROVE Mute' /\ Led'
  BY <1>4 DEF QuietInv, Mute, Led, Stays, ViewChangeReady, ViewChangesOf, SaysNoView
<1>5. ASSUME replica'[0].requestTimer = NoTimer, replica'[0].callbacks = {},
             main'.next = 0 => main'.call.step = "broadcast"
      PROVE  Untimed'
  BY <1>5 DEF Untimed
<1>6. replica[0].requestTimer = NoTimer /\ replica[0].callbacks = {}
  BY DEF QuietInv, Untimed
<1>7. MainReturns => main'.next # 0
  BY <1>2 DEF MainReturns
<1>8. CASE MainLooks(i)
  <2>1. /\ UNCHANGED <<replica, net>> /\ i = main.next /\ main'.next = main.next
        /\ main.call = Outside \/ main.call.step = "backup"
    BY <1>8, MainLooking
  <2>2. main.next # 0
    <3> SUFFICES ASSUME main.next = 0 PROVE FALSE
      OBVIOUS
    <3>1. main.call = Outside /\ replica[0].view = 0 /\ replica[0].id = 0
      BY <1>2, <2>1 DEF QuietInv, Untimed, TypeOK, Outside
    <3>2. ~IsPrimary(replica[0])
      BY <1>8, <2>1, <3>1 DEF MainLooks, MainAtBackup, MainReadsTimer, MainEnters, Outside
    <3> QED  BY <3>1, <3>2, FirstPrimary DEF IsPrimary
  <2>3. Stays(1)
    BY <2>1 DEF Stays
  <2> QED  BY <1>4, <1>5, <1>6, <2>1, <2>2, <2>3 DEF QuietInv
<1>9. CASE MainTouches(i)
  <2>1. /\ i = main.next /\ main.call # Outside
        /\ main.call.step \in {"view", "timer", "note"}
        /\ main'.next = main.next \/ MainReturns
    BY <1>9, MainTouching
  <2>2. i # 0
    BY <2>1 DEF QuietInv, Untimed
  <2>3. Stays(1) /\ replica'[0] = replica[0] /\ net' = net
    BY <1>2, <1>9, <2>2, MainTouchesPosts
  <2> QED  BY <1>4, <1>5, <1>6, <1>7, <2>1, <2>2, <2>3 DEF QuietInv
<1>10. CASE MainProposes(i)
  <2>1. Stays(1) /\ \A e \in net' : e \in net \/ SaysNoView(e)
    BY <1>1, <1>2, <1>10, MainProposesPosts DEF SaysNoView
  <2>2. replica'[0].requestTimer = NoTimer /\ replica'[0].callbacks = {}
    BY <1>2, <1>6, <1>10, ProposingLeavesTimers
  <2>3. MainReturns \/ \E m : main' = [main EXCEPT !.call = [step |-> "broadcast", msg |-> m]]
    BY <1>10 DEF MainProposes
  <2>4. main'.next = 0 => main'.call.step = "broadcast"
    <3>1. ASSUME NEW m, main' = [main EXCEPT !.call = [step |-> "broadcast", msg |-> m]]
          PROVE  main'.call.step = "broadcast"
      BY <3>1 DEF TypeOK
    <3> QED  BY <1>7, <2>3, <3>1
  <2> QED  BY <1>4, <1>5, <2>1, <2>2, <2>4 DEF QuietInv
<1>11. CASE MainStoresPrePrepare(i)
  <2>1. Stays(1) /\ net' = net
    BY <1>2, <1>11, MainStoresPosts
  <2>2. replica'[0].requestTimer = NoTimer /\ replica'[0].callbacks = {}
    BY <1>2, <1>6, <1>11, ProposingLeavesTimers
  <2>3. MainReturns
    BY <1>11 DEF MainStoresPrePrepare
  <2> QED  BY <1>4, <1>5, <1>7, <2>1, <2>2, <2>3 DEF QuietInv
<1> QED  BY <1>3, <1>8, <1>9, <1>10, <1>11

\* Correct replicas of the smallest cluster.
LEMMA OneToThree == IsFiniteSet(1 .. 3) /\ Cardinality(1 .. 3) = 3
<1>1. 1 \in Int /\ 3 \in Int
  OBVIOUS
<1>2. /\ IsFiniteSet(1 .. 3)
      /\ Cardinality(1 .. 3) = IF 1 > 3 THEN 0 ELSE 3 - 1 + 1
  BY <1>1, FS_Interval, Zenon
<1> QED  BY <1>2

\* A NewView of replica 1 comes to replicas that have left the first view: they
\* are the senders of the view changes in it.
LEMMA SmallestAwaits ==
  ASSUME SmallestCluster, TypeOK, OneReceipt, SlotInv, CarryInv, AtMostOneChange, QuietInv
  PROVE  NewViewsAwaited
<1> SUFFICES ASSUME NEW e \in net, ReceiveNewView(e), e.to \in Correct,
                    ~(replica[e.to].view >= e.msg.view)
             PROVE  FALSE
  BY DEF NewViewsAwaited
<1>1. /\ e.msg.type = "NewView" /\ e.msg.view > 0 /\ e.msg.view \in Nat
      /\ e.from = Primary(e.msg.view) /\ Past(replica[e.from], e.msg.view)
      /\ e.from \in Correct /\ e.to \in Replica /\ replica[e.to].view \in Nat
  BY MessageTypes DEF ReceiveNewView, SlotInv, NewViewsStarted, QuietInv, Mute, SaysNoView,
     SmallestCluster, Correct, NewView, TypeOK, ReplicaState
<1>2. replica[e.from].view \in Nat /\ replica[e.from].view <= 1
  BY <1>1 DEF AtMostOneChange, TypeOK, ReplicaState, Correct
<1>3. e.msg.view = 1 /\ replica[e.from].view = 1 /\ replica[e.from].activeView
  BY <1>1, <1>2 DEF Past
<1>4. e.from = 1 /\ replica[e.to].view = 0 /\ replica[1] \in ReplicaState
  BY <1>1, <1>3, SecondPrimary DEF TypeOK
<1>5. ViewChangeReady(replica[1], 1) /\ OneEach(replica[1])
  BY <1>3, <1>4, SecondPrimary DEF QuietInv, Led, OneReceipt
<1>6. PICK C : Carry(C)
  BY DEF CarryInv
<1> DEFINE S == {1, 2, 3} \ {e.to}
<1>7. Correct = {1, 2, 3} /\ CommitQuorum = 3
  BY DEF Correct, Replica, SmallestCluster, CommitQuorum, F, CalcByzantineTolerance
<1>8. ASSUME NEW x \in ViewChangesOf(replica[1], 1) PROVE x.from \in S
  <2>1. x \in replica[1].viewChanges /\ x.msg.view = 1 /\ x.from \in Replica
    BY <1>4, NamedViews DEF ViewChangesOf
  <2>2. x.from \in Correct
    BY <2>1 DEF QuietInv, Mute, Correct, SmallestCluster
  <2>3. Reports(replica, C, x.from, x.msg)
    BY <1>1, <1>4, <1>6, <2>1 DEF Carry, Local, HeldTruly
  <2> QED  BY <1>4, <1>7, <2>1, <2>2, <2>3 DEF Reports
<1>9. Cardinality(S) = 2
  <2>1. IsFiniteSet(1 .. 3) /\ Cardinality(1 .. 3) = 3
    BY OneToThree
  <2>2. S = (1 .. 3) \ {e.to} /\ e.to \in 1 .. 3
    BY <1>7
  <2> HIDE DEF S
  <2>3. Cardinality((1 .. 3) \ {e.to}) = Cardinality(1 .. 3) - 1
    BY <2>1, <2>2, FS_RemoveElement
  <2> QED  BY <2>1, <2>2, <2>3
<1>10. S \in SUBSET Replica
  BY <1>7 DEF Correct
<1> HIDE DEF S
<1>11. Cardinality(S) >= CommitQuorum
  BY <1>4, <1>5, <1>8, <1>10, QuorumOfSenders
<1> QED  BY <1>7, <1>9, <1>11

\* What the smallest cluster keeps.
SmallestInv == ChangeEndsInv /\ (AtMostOneChange => QuietInv)

\* Every step keeps it.
LEMMA SmallestStep ==
  ASSUME SmallestCluster, NewViewsArrive, SmallestInv, [Next]_vars
  PROVE  SmallestInv'
<1>1. SilentThenCorrect
  BY SecondPrimary DEF SmallestCluster, SilentThenCorrect, Correct
<1>2. /\ AgreementInv /\ CarryInv /\ ViewsInv /\ Inv /\ TypeOK /\ OneReceipt /\ SlotInv
      /\ ToOthers
  BY DEF SmallestInv, ChangeEndsInv, AgreementInv, ViewsInv, Inv, Truth, SlotInv
<1>3. AgreementInv' /\ CarryInv' /\ TypeOK' /\ OneReceipt'
  <2>1. AgreementInv' /\ CarryInv'
    BY <1>2, SlotsInductive, CarryInductive
  <2> QED  BY <2>1 DEF AgreementInv, ViewsInv, Inv, Truth
<1>4. CASE ~AtMostOneChange'
  BY <1>3, <1>4 DEF SmallestInv, ChangeEndsInv
<1>5. CASE AtMostOneChange'
  <2>1. AtMostOneChange
    BY <1>2, <1>5, OneChangeBefore
  <2>2. QuietInv /\ ChangeInv /\ FirstIsActive /\ NewViewsAwaited
    BY <1>2, <2>1, FirstIsActiveThere, SmallestAwaits DEF SmallestInv, ChangeEndsInv, EndsInv
  <2>3. ChangeEndsInv'
    <3>1. [Next /\ NewViewsAwaited]_vars
      BY <2>2
    <3> QED  BY <1>1, <3>1, ChangeEndsStep DEF SmallestInv
  <2>4. QuietInv'
    <3>1. CASE UNCHANGED vars
      BY <2>2, <3>1 DEF vars, QuietInv, Untimed, Mute, Led
    <3>2. ASSUME NEW i \in Replica, OtherSteps(i) PROVE QuietInv'
      BY <1>2, <1>3, <2>2, <3>2, OtherStepsQuiet
    <3>3. ASSUME NEW e \in net, Receive(e) PROVE QuietInv'
      <4>1. e.to \in Replica
        BY <1>2 DEF ToOthers, Correct
      <4>2. OtherSteps(e.to)
        BY <1>2, <1>5, <2>2, <3>3, ReceiveNormalOther, ReceiveViewChangeOther,
           ReceiveNewViewOther DEF Receive, QuietInv
      <4> QED  BY <3>2, <4>1, <4>2
    <3>4. ASSUME Timers PROVE QuietInv'
      BY <1>2, <2>2, <3>2, <3>4, TimerOther DEF Timers, QuietInv
    <3>5. ASSUME Main PROVE QuietInv'
      BY <1>2, <2>2, <3>5, MainQuiet
    <3> QED  BY <3>1, <3>3, <3>4, <3>5 DEF Next
  <2> QED  BY <2>3, <2>4 DEF SmallestInv
<1> QED  BY <1>4, <1>5

\* Initially nobody has been timed, or has said anything.
LEMMA SmallestInitially ==
  ASSUME SmallestCluster
  PROVE  Init => SmallestInv
<1> SUFFICES ASSUME Init PROVE SmallestInv
  OBVIOUS
<1>1. SilentThenCorrect
  BY SecondPrimary DEF SmallestCluster, SilentThenCorrect, Correct
<1>2. ChangeEndsInv
  BY <1>1, ChangeEndsInitially
<1>3. ASSUME NEW i \in Replica
      PROVE  /\ replica[i].view = 0 /\ replica[i].viewChanges = {}
             /\ replica[i].requestTimer = NoTimer /\ replica[i].callbacks = {}
  BY DEF Init, NewReplica
<1>4. net = {} /\ main.call = Outside
  BY DEF Init
<1>5. QuietInv
  BY <1>3, <1>4, FirstPrimary, SecondPrimary DEF QuietInv, Untimed, Mute, Led
<1> QED  BY <1>2, <1>5 DEF SmallestInv

(***************************************************************************)
(* In the smallest cluster that NewReplica builds, with the first primary  *)
(* Byzantine, the condition of the last theorem holds by itself: whatever  *)
(* is lost but a NewView, as long as no correct replica goes beyond its    *)
(* second view, a view change does not end with a replica left inactive,   *)
(* unless the primary of the second view has too few ViewChanges and       *)
(* misses that of a correct replica, which was lost.                       *)
(***************************************************************************)
THEOREM SmallestViewChangeEnds ==
  ASSUME SmallestCluster, NewViewsArrive
  PROVE  Spec => [](AtMostOneChange => ViewChangeEnds)
<1>1. SilentThenCorrect /\ Cardinality(Correct) >= CommitQuorum
  <2>1. Correct = 1 .. 3 /\ CommitQuorum = 3
    BY DEF Correct, Replica, SmallestCluster, CommitQuorum, F, CalcByzantineTolerance
  <2>2. Cardinality(1 .. 3) = 3
    BY OneToThree
  <2>3. SilentThenCorrect
    BY <2>1 DEF SilentThenCorrect, SmallestCluster
  <2> QED  BY <2>1, <2>2, <2>3
<1>2. Init => SmallestInv
  BY SmallestInitially
<1>3. SmallestInv /\ [Next]_vars => SmallestInv'
  BY SmallestStep
<1>4. SmallestInv => (AtMostOneChange => ViewChangeEnds)
  BY <1>1, SilentEnds DEF SmallestInv
<1> QED  BY <1>2, <1>3, <1>4, PTL DEF Spec

-----------------------------------------------------------------------------
(* Quorums, over any number of view changes. *)

\* Replica r has acted on the slot (v, s) for the digest d.
ActsIn(r, v, s, d) ==
    /\ Prepared(r, v, s, d) => \E x \in CommitsOf(r, v, s) : x.from = r.id
    /\ Committed(r, v, s, d) /\ s = r.lastExecuted + 1 => d \notin r.pending

\* The request that r is to execute next holds no second slot of its view.
OneSlot(r) ==
    \A p, k \in r.preprepares :
        p.view = r.view /\ k.view = r.view /\ p.digest = k.digest =>
          (p.seq = r.lastExecuted + 1 => k.seq = p.seq)

OneSlotEach == \A i \in Correct : OneSlot(replica[i])

\* An active backup has the requests of its view, has sent a Commit only for what is
\* prepared, and has acted on each slot.
Heeds(r) ==
    r.activeView /\ ~IsPrimary(r) =>
      /\ \A p \in r.preprepares : p.view = r.view => p.digest \in r.requests
      /\ \A x \in r.commits : x.from = r.id /\ x.msg.view = r.view
                                => Prepared(r, x.msg.view, x.msg.seq, x.msg.digest)
      /\ OneSlot(r) => \A p \in r.preprepares : p.view = r.view
                                                  => ActsIn(r, p.view, p.seq, p.digest)

AllHeed == failures = 0 => \A i \in Correct : Heeds(replica[i])

\* A method that leaves all slots, and has no request pending that was not.
LeavesSlots(r, q) ==
    /\ q.id = r.id /\ q.view = r.view /\ q.activeView = r.activeView
    /\ q.lastExecuted = r.lastExecuted
    /\ q.preprepares = r.preprepares /\ q.prepares = r.prepares /\ q.commits = r.commits
    /\ r.requests \subseteq q.requests /\ q.pending \subseteq r.pending

\* Such a method leaves no quorum that has not been acted on.
LEMMA LeavesSlotsHeeds ==
  ASSUME NEW r, NEW q, LeavesSlots(r, q), Heeds(r)
  PROVE  Heeds(q)
<1>1. \A v, s, d : Prepared(r, v, s, d) => Prepared(q, v, s, d)
  BY DEF LeavesSlots, Prepared, PrePrepared, PreparesOf
<1>2. ASSUME NEW p \in r.preprepares, p.digest \in r.requests,
             ActsIn(r, p.view, p.seq, p.digest)
      PROVE  ActsIn(q, p.view, p.seq, p.digest)
  <2>1. /\ Prepared(q, p.view, p.seq, p.digest) => Prepared(r, p.view, p.seq, p.digest)
        /\ CommitsOf(q, p.view, p.seq) = CommitsOf(r, p.view, p.seq)
    BY <1>2 DEF LeavesSlots, Prepared, PrePrepared, PreparesOf, CommitsOf
  <2> QED  BY <1>2, <2>1 DEF ActsIn, Committed, LeavesSlots
<1> SUFFICES ASSUME q.activeView, ~IsPrimary(q)
             PROVE  /\ \A p \in q.preprepares : p.view = q.view => p.digest \in q.requests
                    /\ \A x \in q.commits : x.from = q.id /\ x.msg.view = q.view
                                => Prepared(q, x.msg.view, x.msg.seq, x.msg.digest)
                    /\ OneSlot(q) => \A p \in q.preprepares : p.view = q.view
                                => ActsIn(q, p.view, p.seq, p.digest)
  BY DEF Heeds
<1>3. r.activeView /\ ~IsPrimary(r) /\ (OneSlot(q) => OneSlot(r))
  BY DEF LeavesSlots, IsPrimary, OneSlot
<1> QED  BY <1>1, <1>2, <1>3 DEF LeavesSlots, Heeds

\* Executing what is committed takes it from pending, and leaves the slots alone.
LEMMA ExecuteActs ==
  ASSUME NEW r \in ReplicaState, NEW v, NEW s, NEW d \in r.requests, NEW lost
  PROVE  LET q == Execute(r, v, s, d, lost) IN
         /\ q.id = r.id /\ q.lastExecuted = r.lastExecuted /\ q.requests = r.requests
         /\ q.preprepares = r.preprepares /\ q.prepares = r.prepares /\ q.commits = r.commits
         /\ q.pending \subseteq r.pending
         /\ s = r.lastExecuted + 1 => d \notin q.pending
<1> DEFINE fails == <<"Block", 0>> \in lost
           block == [view |-> v, seq |-> s, digest |-> d]
           ledger == IF fails THEN r.ledger ELSE Append(r.ledger, block)
           f == r.failed \/ fails
           written == [r EXCEPT !.pending = @ \ {d}, !.ledger = ledger, !.failed = f]
           executed == StopRequestTimer(written)
           restarted == StartRequestTimer(executed, TRUE)
           q == Execute(r, v, s, d, lost)
           AfterExecution(p) ==
             /\ p.id = r.id /\ p.lastExecuted = r.lastExecuted /\ p.requests = r.requests
             /\ p.preprepares = r.preprepares /\ p.prepares = r.prepares
             /\ p.commits = r.commits /\ p.pending = r.pending \ {d}
<1>1. \/ q = r /\ (d \notin r.pending \/ s # r.lastExecuted + 1)
      \/ q \in {executed, restarted}
  BY Zenon DEF Execute, executed, written, ledger, f, block, restarted
<1> HIDE DEF ledger, f, q
<1>2. AfterExecution(written) /\ DOMAIN written = DOMAIN r
  BY DEF ReplicaState
<1> HIDE DEF written
<1>3. AfterExecution(executed) /\ DOMAIN executed = DOMAIN r
  BY <1>2 DEF StopRequestTimer, ReplicaState
<1> HIDE DEF executed
<1>4. AfterExecution(restarted)
  BY <1>3 DEF StartRequestTimer, TargetView, ReplicaState
<1> HIDE DEF restarted
<1> QED  BY <1>1, <1>3, <1>4 DEF q

\* A replica that has sent no Commit in the slot yet acts on it, or fails to.
LEMMA MaybeSendCommitActs ==
  ASSUME NEW r \in ReplicaState, NEW v \in Nat, NEW s \in Nat, NEW d \in Digest, NEW lost,
         \A x \in CommitsOf(r, v, s) : x.from # r.id
  PROVE  LET q == MaybeSendCommit(r, v, s, d, lost) IN
         q.pending \subseteq r.pending /\ (q.failed \/ ActsIn(q, v, s, d))
<1> DEFINE commit == [type |-> "Commit", view |-> v, seq |-> s, digest |-> d]
           outbox == r.outbox \cup {[msg |-> commit, failed |-> Fails(commit, lost)]}
           f == r.failed \/ Fails(commit, lost)
           sent == Broadcast(r, commit, lost)
           done == RecordCommitReceipt(sent, r.id, commit)
           executed == Execute(done, v, s, d, lost)
           q == MaybeSendCommit(r, v, s, d, lost)
           own == [from |-> r.id, msg |-> commit]
<1>1. CASE ~ShouldSendCommit(r, v, s, d)
  <2>1. q = r
    BY <1>1, Zenon DEF MaybeSendCommit
  <2>2. ~Prepared(r, v, s, d)
    BY <1>1 DEF ShouldSendCommit
  <2> HIDE DEF q
  <2> QED  BY <2>1, <2>2 DEF ActsIn, Committed, q
<1>2. CASE ShouldSendCommit(r, v, s, d)
  <2>1. Prepared(r, v, s, d)
    BY <1>2 DEF ShouldSendCommit
  <2>2. commit \in Commit /\ commit \in Message /\ r.id \in Replica
    BY DEF Commit, Message, ReplicaState
  <2>3. \A x \in r.commits : x.from # r.id \/ ~SameSlot(x.msg, commit)
    BY DEF CommitsOf, SameSlot
  <2>4. own.from = r.id /\ own.msg.view = v /\ own.msg.seq = s
    OBVIOUS
  <2>5. sent = [r EXCEPT !.outbox = outbox, !.failed = f]
    BY Zenon DEF Broadcast, outbox, f
  <2>6. f \in BOOLEAN /\ (Fails(commit, lost) => f)
    BY DEF Fails, ReplicaState
  <2>7. sent \in ReplicaState
    BY <2>2, BroadcastKeeps DEF Keeps
  <2> HIDE DEF commit, outbox, f, sent
  <2>8. /\ sent.id = r.id /\ sent.pending = r.pending /\ sent.commits = r.commits
        /\ sent.preprepares = r.preprepares /\ sent.prepares = r.prepares
        /\ sent.requests = r.requests /\ sent.lastExecuted = r.lastExecuted
        /\ Fails(commit, lost) => sent.failed
    BY <2>5, <2>6 DEF ReplicaState
  <2>9. done = [sent EXCEPT !.commits = @ \cup {own}]
    BY <2>3, <2>8 DEF RecordCommitReceipt
  <2>10. done \in ReplicaState
    BY <2>2, <2>7, RecordCommitWithin DEF Within
  <2> HIDE DEF own, done
  <2>11. /\ done.id = r.id /\ done.pending = r.pending /\ done.commits = r.commits \cup {own}
         /\ done.preprepares = r.preprepares /\ done.prepares = r.prepares
         /\ done.requests = r.requests /\ done.lastExecuted = r.lastExecuted
    BY <2>7, <2>8, <2>9 DEF ReplicaState
  <2>12. d \in done.requests
    BY <2>1, <2>11 DEF Prepared, PrePrepared
  <2>13. /\ executed.id = done.id /\ executed.commits = done.commits
         /\ executed.lastExecuted = done.lastExecuted
         /\ executed.pending \subseteq done.pending
         /\ s = done.lastExecuted + 1 => d \notin executed.pending
    BY <2>10, <2>12, ExecuteActs
  <2> HIDE DEF executed
  <2>14. /\ \E x \in CommitsOf(done, v, s) : x.from = r.id
         /\ \E x \in CommitsOf(executed, v, s) : x.from = r.id
    BY <2>4, <2>11, <2>13 DEF CommitsOf
  <2>15. CASE Fails(commit, lost)
    <3>1. q = sent
      BY <1>2, <2>15 DEF MaybeSendCommit, commit, sent
    <3> HIDE DEF q
    <3> QED  BY <2>8, <2>15, <3>1 DEF q
  <2>16. CASE ~Fails(commit, lost) /\ Committed(done, v, s, d)
    <3>1. q = executed
      BY <1>2, <2>16, Zenon DEF MaybeSendCommit, commit, sent, done, executed
    <3> HIDE DEF q
    <3> QED  BY <2>11, <2>13, <2>14, <3>1 DEF ActsIn, q
  <2>17. CASE ~Fails(commit, lost) /\ ~Committed(done, v, s, d)
    <3>1. q = done
      BY <1>2, <2>17, Zenon DEF MaybeSendCommit, commit, sent, done
    <3> HIDE DEF q
    <3> QED  BY <2>11, <2>14, <2>17, <3>1 DEF ActsIn, q
  <2> QED  BY <2>15, <2>16, <2>17
<1> QED  BY <1>1, <1>2

\* The handler of a Prepare acts on its slot, unless it has done so before,
LEMMA ProcessPrepareActs ==
  ASSUME NEW r \in ReplicaState, NEW from \in Replica, NEW m \in Prepare, NEW lost,
         \A x \in CommitsOf(r, m.view, m.seq) : x.from = r.id
           => Prepared(r, m.view, m.seq, m.digest) /\ ActsIn(r, m.view, m.seq, m.digest)
  PROVE  LET q == ProcessPrepare(r, from, m, lost) IN
         /\ q.pending \subseteq r.pending
         /\ q = r \/ q.failed \/ ActsIn(q, m.view, m.seq, m.digest)
<1> DEFINE recorded == RecordPrepareReceipt(r, from, m)
           x == [from |-> from, msg |-> m]
           more == [r EXCEPT !.prepares = @ \cup {x}]
           sent == MaybeSendCommit(recorded, m.view, m.seq, m.digest, lost)
           q == ProcessPrepare(r, from, m, lost)
<1>1. recorded \in ReplicaState
  BY RecordPrepareWithin DEF Within
<1>2. m.view \in Nat /\ m.seq \in Nat /\ m.digest \in Digest
  BY DEF Prepare
<1>3. recorded \in {r, more}
  BY Zenon DEF RecordPrepareReceipt
<1>4. q = r \/ q = sent
  BY DEF ProcessPrepare
<1> HIDE DEF recorded, x
<1>5. /\ recorded.id = r.id /\ recorded.commits = r.commits /\ recorded.pending = r.pending
      /\ recorded.lastExecuted = r.lastExecuted
  BY <1>3 DEF ReplicaState
<1>6. CommitsOf(recorded, m.view, m.seq) = CommitsOf(r, m.view, m.seq)
  BY <1>5 DEF CommitsOf
<1> HIDE DEF q
<1>7. CASE \E y \in CommitsOf(r, m.view, m.seq) : y.from = r.id
  <2>1. Prepared(r, m.view, m.seq, m.digest) /\ ActsIn(r, m.view, m.seq, m.digest)
    BY <1>7
  <2>2. ActsIn(recorded, m.view, m.seq, m.digest)
    BY <1>5, <1>6, <1>7, <2>1 DEF ActsIn, Committed
  <2>3. sent = recorded
    <3>1. ~ShouldSendCommit(recorded, m.view, m.seq, m.digest)
      BY <1>5, <1>6, <1>7 DEF ShouldSendCommit
    <3> QED  BY <3>1, Zenon DEF MaybeSendCommit
  <2> HIDE DEF sent
  <2> QED  BY <1>4, <1>5, <2>2, <2>3 DEF q
<1>8. CASE \A y \in CommitsOf(r, m.view, m.seq) : y.from # r.id
  <2>1. /\ sent.pending \subseteq recorded.pending
        /\ sent.failed \/ ActsIn(sent, m.view, m.seq, m.digest)
    BY <1>1, <1>2, <1>5, <1>6, <1>8, MaybeSendCommitActs
  <2> HIDE DEF sent
  <2> QED  BY <1>4, <1>5, <2>1 DEF q
<1> QED  BY <1>7, <1>8

\* ... that of a Commit executes,
LEMMA ProcessCommitActs ==
  ASSUME NEW r \in ReplicaState, NEW from \in Replica, NEW m \in Commit, NEW lost,
         ActsIn(r, m.view, m.seq, m.digest)
  PROVE  LET q == ProcessCommit(r, from, m, lost) IN
         q.pending \subseteq r.pending /\ ActsIn(q, m.view, m.seq, m.digest)
<1> DEFINE recorded == RecordCommitReceipt(r, from, m)
           x == [from |-> from, msg |-> m]
           more == [r EXCEPT !.commits = @ \cup {x}]
           executed == Execute(recorded, m.view, m.seq, m.digest, lost)
           q == ProcessCommit(r, from, m, lost)
<1>1. recorded \in ReplicaState
  BY RecordCommitWithin DEF Within
<1>2. recorded \in {r, more}
  BY Zenon DEF RecordCommitReceipt
<1>3. \/ q = r
      \/ q = executed /\ Committed(recorded, m.view, m.seq, m.digest)
      \/ q = recorded /\ ~Committed(recorded, m.view, m.seq, m.digest)
  BY Zenon DEF ProcessCommit
<1> HIDE DEF recorded, x
<1>4. /\ recorded.id = r.id /\ r.commits \subseteq recorded.commits
      /\ recorded.pending = r.pending /\ recorded.lastExecuted = r.lastExecuted
      /\ recorded.requests = r.requests /\ recorded.preprepares = r.preprepares
      /\ recorded.prepares = r.prepares
  BY <1>2 DEF ReplicaState
<1>5. Prepared(recorded, m.view, m.seq, m.digest) => Prepared(r, m.view, m.seq, m.digest)
  BY <1>4 DEF Prepared, PrePrepared, PreparesOf
<1>6. Prepared(recorded, m.view, m.seq, m.digest)
        => \E y \in CommitsOf(recorded, m.view, m.seq) : y.from = r.id
  BY <1>4, <1>5 DEF ActsIn, CommitsOf
<1> HIDE DEF q
<1>7. CASE q = executed /\ Committed(recorded, m.view, m.seq, m.digest)
  <2>1. Prepared(recorded, m.view, m.seq, m.digest) /\ m.digest \in recorded.requests
    BY <1>7 DEF Committed, Prepared, PrePrepared
  <2>2. /\ executed.id = recorded.id /\ executed.commits = recorded.commits
        /\ executed.lastExecuted = recorded.lastExecuted
        /\ executed.pending \subseteq recorded.pending
        /\ m.seq = recorded.lastExecuted + 1 => m.digest \notin executed.pending
    BY <1>1, <2>1, ExecuteActs
  <2> HIDE DEF executed
  <2>3. \E y \in CommitsOf(executed, m.view, m.seq) : y.from = r.id
    BY <1>6, <2>1, <2>2 DEF CommitsOf
  <2> QED  BY <1>4, <1>7, <2>2, <2>3 DEF ActsIn, q
<1>8. CASE q = recorded /\ ~Committed(recorded, m.view, m.seq, m.digest)
  BY <1>4, <1>6, <1>8 DEF ActsIn, q
<1> QED  BY <1>3, <1>7, <1>8 DEF q

\* A backup that accepts pre-prepares: what it has then.
LEMMA AcceptActs ==
  ASSUME NEW r \in ReplicaState, NEW ms \in SUBSET PrePrepare, NEW lost
  PROVE  LET q == AcceptPrePrepares(r, ms, lost) IN
         /\ q \in ReplicaState /\ q.id = r.id /\ q.commits = r.commits
         /\ \A c \in q.pending : c \in r.pending \/ \E m \in ms : c = m.digest
         /\ \A x \in q.prepares :
               \/ x \in r.prepares
               \/ \E m \in ms : x = [from |-> r.id, msg |-> [m EXCEPT !.type = "Prepare"]]
         /\ \A m \in ms : Fails([m EXCEPT !.type = "Prepare"], lost)
               => q.failed \/ \E p \in r.preprepares : SameSlot(p, m)
<1> DEFINE prepareFor(m) == [m EXCEPT !.type = "Prepare"]
           accepted == {m \in ms : \A p \in r.preprepares : ~SameSlot(p, m)}
           answers == {prepareFor(m) : m \in accepted}
           own == {[from |-> r.id, msg |-> p] : p \in {a \in answers : ~Fails(a, lost)}}
           receipts == {o \in own : \A x \in r.prepares : x.from # r.id \/ ~SameSlot(x.msg, o.msg)}
           outbox == r.outbox \cup {[msg |-> a, failed |-> Fails(a, lost)] : a \in answers}
           f == r.failed \/ \E a \in answers : Fails(a, lost)
           digests == {m.digest : m \in accepted}
           taken == [r EXCEPT !.preprepares = @ \cup accepted,
                              !.requests = @ \cup digests,
                              !.pending = @ \cup digests,
                              !.prepares = @ \cup receipts,
                              !.outbox = outbox,
                              !.failed = f]
           timed == StartRequestTimer(taken, FALSE)
           q == AcceptPrePrepares(r, ms, lost)
           AfterAccepting(p) ==
             /\ p.id = r.id /\ p.commits = r.commits
             /\ p.pending = r.pending \cup digests
             /\ p.prepares = r.prepares \cup receipts
             /\ p.failed = f
<1>1. (q = r /\ accepted = {}) \/ q = timed
  BY Zenon DEF AcceptPrePrepares, timed, taken, accepted, answers, own, receipts, outbox, f, digests
<1>2. q \in ReplicaState
  BY AcceptAttests DEF Attests, Adds
<1>3. /\ \A c \in digests : \E m \in ms : c = m.digest
      /\ \A x \in receipts : \E m \in ms :
            x = [from |-> r.id, msg |-> [m EXCEPT !.type = "Prepare"]]
      /\ \A m \in accepted : Fails([m EXCEPT !.type = "Prepare"], lost) => f
  OBVIOUS
<1>4. \A m \in ms : (\A p \in r.preprepares : ~SameSlot(p, m)) => m \in accepted
  OBVIOUS
<1> HIDE DEF accepted, answers, own, receipts, outbox, f, digests, q
<1>5. AfterAccepting(taken) /\ DOMAIN taken = DOMAIN r
  BY DEF ReplicaState
<1> HIDE DEF taken
<1>6. AfterAccepting(timed)
  BY <1>5 DEF StartRequestTimer, TargetView, ReplicaState
<1> HIDE DEF timed
<1>7. CASE q = r /\ accepted = {}
  BY <1>2, <1>4, <1>7 DEF q
<1>8. CASE q = timed
  BY <1>2, <1>3, <1>4, <1>6, <1>8 DEF q
<1> QED  BY <1>1, <1>7, <1>8

\* ... and that of a pre-prepare, in a slot in which no Commit has been sent.
LEMMA ProcessPrePrepareActs ==
  ASSUME NEW r \in ReplicaState, NEW from \in Replica, NEW m \in PrePrepare, NEW lost,
         \A p \in r.preprepares : ~SameSlot(p, m),
         \A x \in CommitsOf(r, m.view, m.seq) : x.from # r.id
  PROVE  LET q == ProcessPrePrepare(r, from, m, lost) IN
         /\ \A c \in q.pending : c \in r.pending \/ c = m.digest
         /\ q = r \/ q.failed \/ ActsIn(q, m.view, m.seq, m.digest)
<1> DEFINE taken == AcceptPrePrepares(r, {m}, lost)
           sent == MaybeSendCommit(taken, m.view, m.seq, m.digest, lost)
           q == ProcessPrePrepare(r, from, m, lost)
<1>1. m.view \in Nat /\ m.seq \in Nat /\ m.digest \in Digest
  BY DEF PrePrepare
<1>2. /\ taken \in ReplicaState /\ taken.id = r.id /\ taken.commits = r.commits
      /\ \A c \in taken.pending : c \in r.pending \/ c = m.digest
      /\ Fails([m EXCEPT !.type = "Prepare"], lost) => taken.failed
  <2>1. {m} \in SUBSET PrePrepare
    OBVIOUS
  <2>2. /\ taken \in ReplicaState /\ taken.id = r.id /\ taken.commits = r.commits
        /\ \A c \in taken.pending : c \in r.pending \/ \E k \in {m} : c = k.digest
        /\ \A k \in {m} : Fails([k EXCEPT !.type = "Prepare"], lost)
              => taken.failed \/ \E p \in r.preprepares : SameSlot(p, k)
    BY <2>1, AcceptActs
  <2> HIDE DEF taken
  <2> QED  BY <2>2
<1>3. \/ q = r
      \/ q = taken /\ Fails([m EXCEPT !.type = "Prepare"], lost)
      \/ q = sent
  BY Zenon DEF ProcessPrePrepare
<1> HIDE DEF taken
<1>4. \A x \in CommitsOf(taken, m.view, m.seq) : x.from # taken.id
  BY <1>2 DEF CommitsOf
<1>5. /\ sent.pending \subseteq taken.pending
      /\ sent.failed \/ ActsIn(sent, m.view, m.seq, m.digest)
  BY <1>1, <1>2, <1>4, MaybeSendCommitActs
<1> HIDE DEF sent, q
<1> QED  BY <1>2, <1>3, <1>5 DEF q

-----------------------------------------------------------------------------
(* The handlers. *)

\* A backup whose slots agree with message m has acted on the slot of m, and has
\* sent a Commit there only for what is prepared.
LEMMA HeedsSlot ==
  ASSUME NEW r, Heeds(r), r.activeView, ~IsPrimary(r), NEW m, m.view = r.view,
         \A p \in r.preprepares : SameSlot(p, m) => p.digest = m.digest
  PROVE  /\ OneSlot(r) => ActsIn(r, m.view, m.seq, m.digest)
         /\ \A x \in CommitsOf(r, m.view, m.seq) : x.from = r.id
              => Prepared(r, m.view, m.seq, m.digest)
<1>1. ASSUME NEW d, PrePrepared(r, m.view, m.seq, d)
      PROVE  \E p \in r.preprepares : p.view = m.view /\ p.seq = m.seq /\ p.digest = d /\ d = m.digest
  BY <1>1 DEF PrePrepared, SameSlot
<1>2. ASSUME OneSlot(r) PROVE ActsIn(r, m.view, m.seq, m.digest)
  <2>1. CASE PrePrepared(r, m.view, m.seq, m.digest)
    <3>1. PICK p \in r.preprepares : p.view = m.view /\ p.seq = m.seq /\ p.digest = m.digest
      BY <1>1, <2>1
    <3>2. ActsIn(r, p.view, p.seq, p.digest)
      BY <1>2, <3>1 DEF Heeds
    <3> QED  BY <3>1, <3>2
  <2>2. CASE ~PrePrepared(r, m.view, m.seq, m.digest)
    BY <2>2 DEF ActsIn, Committed, Prepared
  <2> QED  BY <2>1, <2>2
<1>3. ASSUME NEW x \in CommitsOf(r, m.view, m.seq), x.from = r.id
      PROVE  Prepared(r, m.view, m.seq, m.digest)
  <2>1. Prepared(r, m.view, m.seq, x.msg.digest)
    BY <1>3 DEF Heeds, CommitsOf
  <2>2. x.msg.digest = m.digest
    BY <1>1, <2>1 DEF Prepared
  <2> QED  BY <2>1, <2>2
<1> QED  BY <1>2, <1>3

\* A handler that acts on the slot of its message leaves the others as they are.
LEMMA HandlerHeeds ==
  ASSUME NEW r \in ReplicaState, Heeds(r), r.activeView, ~IsPrimary(r),
         NEW m, m.view = r.view, NEW H, \A x \in H : x.from # r.id, NEW q,
         Attests(r, q, m.view, m.seq, m.digest, H), Echoes(r, q, {m}),
         \A p \in r.preprepares : SameSlot(p, m) => p.digest = m.digest,
         OneSlot(r) => /\ ActsIn(q, m.view, m.seq, m.digest)
                       /\ \A c \in q.pending :
                             c \in r.pending \/ (c = m.digest /\ m \in q.preprepares)
  PROVE  Heeds(q)
<1>1. /\ q.id = r.id /\ q.view = r.view /\ q.activeView = r.activeView
      /\ q.lastExecuted = r.lastExecuted /\ r.requests \subseteq q.requests
      /\ r.preprepares \subseteq q.preprepares
      /\ r.prepares \subseteq q.prepares /\ r.commits \subseteq q.commits
      /\ \A p \in q.preprepares : p \in r.preprepares \/ p.digest \in q.requests
      /\ \A x \in q.commits : \/ x \in r.commits
                              \/ x \in H
                              \/ x.from = r.id /\ Prepared(q, m.view, m.seq, m.digest)
  BY DEF Attests, Adds
<1>2. /\ \A p \in q.preprepares : p \in r.preprepares \/ p = m
      /\ \A x \in q.prepares : x \in r.prepares \/ Echo(x.msg, {m})
      /\ \A x \in q.commits : x \in r.commits \/ Echo(x.msg, {m})
  BY DEF Echoes, Repeats
<1>3. \A x : Echo(x, {m}) => x.view = m.view /\ x.seq = m.seq /\ x.digest = m.digest
  BY DEF Echo, IsFor
<1>4. /\ \A p \in r.preprepares : p.view = r.view => p.digest \in r.requests
      /\ \A x \in r.commits : x.from = r.id /\ x.msg.view = r.view
            => Prepared(r, x.msg.view, x.msg.seq, x.msg.digest)
      /\ OneSlot(r) => \A p \in r.preprepares : p.view = r.view
            => ActsIn(r, p.view, p.seq, p.digest)
  BY DEF Heeds
<1>5. ASSUME NEW p \in q.preprepares, p.view = q.view PROVE p.digest \in q.requests
  BY <1>1, <1>4, <1>5
<1>6. ASSUME NEW x \in q.commits, x.from = q.id, x.msg.view = q.view
      PROVE  Prepared(q, x.msg.view, x.msg.seq, x.msg.digest)
  <2>1. CASE x \in r.commits
    <3>1. Prepared(r, x.msg.view, x.msg.seq, x.msg.digest)
      BY <1>1, <1>4, <1>6, <2>1
    <3>2. Adds(r, q)
      BY DEF Attests
    <3> QED  BY <3>1, <3>2, AddsGrows
  <2>2. CASE x \notin r.commits
    <3>1. Prepared(q, m.view, m.seq, m.digest)
      BY <1>1, <1>6, <2>2
    <3>2. x.msg.view = m.view /\ x.msg.seq = m.seq /\ x.msg.digest = m.digest
      BY <1>2, <1>3, <1>6, <2>2
    <3> QED  BY <3>1, <3>2
  <2> QED  BY <2>1, <2>2
<1>7. ASSUME OneSlot(q), NEW p \in q.preprepares, p.view = q.view
      PROVE  ActsIn(q, p.view, p.seq, p.digest)
  <2>1. OneSlot(r)
    BY <1>1, <1>7 DEF OneSlot
  <2>2. CASE p.seq = m.seq
    <3>1. SameSlot(p, m)
      BY <1>1, <1>7, <2>2 DEF SameSlot
    <3>2. p.digest = m.digest
      BY <1>2, <3>1
    <3> QED  BY <1>1, <1>7, <2>1, <2>2, <3>2
  <2>3. CASE p.seq # m.seq
    <3>1. p \in r.preprepares /\ p.digest \in r.requests /\ ActsIn(r, p.view, p.seq, p.digest)
      BY <1>1, <1>2, <1>4, <1>7, <2>1, <2>3
    <3>2. /\ PreparesOf(q, p.view, p.seq) = PreparesOf(r, p.view, p.seq)
          /\ CommitsOf(q, p.view, p.seq) = CommitsOf(r, p.view, p.seq)
      BY <1>1, <1>2, <1>3, <2>3 DEF PreparesOf, CommitsOf
    <3>3. Prepared(q, p.view, p.seq, p.digest) => Prepared(r, p.view, p.seq, p.digest)
      BY <3>1, <3>2 DEF Prepared, PrePrepared
    <3>4. Committed(q, p.view, p.seq, p.digest) => Committed(r, p.view, p.seq, p.digest)
      BY <3>2, <3>3 DEF Committed
    <3>5. p.seq = r.lastExecuted + 1 /\ p.digest \in q.pending => p.digest \in r.pending
      <4>1. p.seq = q.lastExecuted + 1 /\ p.digest = m.digest /\ m \in q.preprepares
               => m.seq = p.seq
        BY <1>1, <1>7 DEF OneSlot
      <4> QED  BY <1>1, <2>1, <2>3, <4>1
    <3> QED  BY <1>1, <3>1, <3>2, <3>3, <3>4, <3>5 DEF ActsIn
  <2> QED  BY <2>2, <2>3
<1> QED  BY <1>5, <1>6, <1>7 DEF Heeds

\* Who is not an active backup has nothing to heed.
LEMMA OthersHeed ==
  ASSUME NEW r, NEW q, Adds(r, q), ~r.activeView \/ IsPrimary(r)
  PROVE  Heeds(q)
  BY DEF Adds, Heeds, IsPrimary

\* The handler of a pre-prepare,
LEMMA ProcessPrePrepareHeeds ==
  ASSUME NEW r \in ReplicaState, Heeds(r), NEW from \in Replica, NEW m \in PrePrepare, NEW lost
  PROVE  LET q == ProcessPrePrepare(r, from, m, lost) IN q.failed \/ Heeds(q)
<1> DEFINE taken == AcceptPrePrepares(r, {m}, lost)
           sent == MaybeSendCommit(taken, m.view, m.seq, m.digest, lost)
           q == ProcessPrePrepare(r, from, m, lost)
<1>1. /\ Attests(r, q, m.view, m.seq, m.digest, {}) /\ Echoes(r, q, {m})
      /\ \/ q = r
         \/ /\ ~IsPrimary(r) /\ m.view = r.view
            /\ \A p \in r.preprepares : ~SameSlot(p, m)
  BY ProcessPrePrepareAttests, ProcessPrePrepareEchoes
<1>2. q \in {r, taken, sent}
  BY DEF ProcessPrePrepare
<1>3. CASE q = r
  <2> HIDE DEF q
  <2> QED  BY <1>3 DEF q
<1>4. CASE ~r.activeView
  <2> HIDE DEF q
  <2> QED  BY <1>1, <1>4, OthersHeed DEF Attests, q
<1>5. CASE q # r /\ r.activeView
  <2>1. ~IsPrimary(r) /\ m.view = r.view /\ \A p \in r.preprepares : ~SameSlot(p, m)
    BY <1>1, <1>5
  <2>2. \A x \in CommitsOf(r, m.view, m.seq) : x.from # r.id
    <3>1. \A x \in CommitsOf(r, m.view, m.seq) : x.from = r.id
             => Prepared(r, m.view, m.seq, m.digest)
      BY <1>5, <2>1, HeedsSlot
    <3>2. ~Prepared(r, m.view, m.seq, m.digest)
      BY <2>1 DEF Prepared, PrePrepared, SameSlot
    <3> QED  BY <3>1, <3>2
  <2>3. /\ \A c \in q.pending : c \in r.pending \/ c = m.digest
        /\ q = r \/ q.failed \/ ActsIn(q, m.view, m.seq, m.digest)
    BY <2>1, <2>2, ProcessPrePrepareActs
  <2>4. m \in q.preprepares
    <3>1. {m} \in SUBSET PrePrepare /\ m.view \in Nat /\ m.seq \in Nat /\ m.digest \in Digest
      BY DEF PrePrepare
    <3>2. Echoes(r, taken, {m}) /\ \A k \in {m} : \E p \in taken.preprepares : SameSlot(p, k)
      BY <3>1, AcceptEchoes
    <3>3. taken \in ReplicaState
      BY <3>1, AcceptActs
    <3> HIDE DEF taken
    <3>4. m \in taken.preprepares
      BY <2>1, <3>2 DEF Echoes, Repeats
    <3>5. Echoes(taken, sent, {m})
      BY <3>1, <3>3, MaybeSendCommitEchoes DEF IsFor
    <3> HIDE DEF sent, q
    <3> QED  BY <1>2, <1>5, <3>4, <3>5 DEF Echoes
  <2> HIDE DEF q
  <2>5. q.failed \/ Heeds(q)
    BY <1>1, <1>5, <2>1, <2>3, <2>4, HandlerHeeds
  <2> QED  BY <2>5 DEF q
<1> QED  BY <1>3, <1>4, <1>5

\* ... of a Prepare that agrees with the slots of its receiver,
LEMMA ProcessPrepareHeeds ==
  ASSUME NEW r \in ReplicaState, Heeds(r), NEW from \in Replica, NEW m \in Prepare, NEW lost,
         r.activeView /\ ~IsPrimary(r) =>
            \A p \in r.preprepares : SameSlot(p, m) => p.digest = m.digest
  PROVE  LET q == ProcessPrepare(r, from, m, lost) IN q.failed \/ Heeds(q)
<1> DEFINE q == ProcessPrepare(r, from, m, lost)
<1>1. /\ Attests(r, q, m.view, m.seq, m.digest, {}) /\ Echoes(r, q, {m})
      /\ q = r \/ m.view = r.view
  BY ProcessPrepareAttests, ProcessPrepareEchoes
<1>2. CASE q = r
  <2> HIDE DEF q
  <2> QED  BY <1>2 DEF q
<1>3. CASE ~r.activeView \/ IsPrimary(r)
  <2> HIDE DEF q
  <2> QED  BY <1>1, <1>3, OthersHeed DEF Attests, q
<1>4. CASE q # r /\ r.activeView /\ ~IsPrimary(r)
  <2>1. m.view = r.view /\ \A p \in r.preprepares : SameSlot(p, m) => p.digest = m.digest
    BY <1>1, <1>4
  <2>2. /\ OneSlot(r) => ActsIn(r, m.view, m.seq, m.digest)
        /\ \A x \in CommitsOf(r, m.view, m.seq) : x.from = r.id
             => Prepared(r, m.view, m.seq, m.digest)
    BY <1>4, <2>1, HeedsSlot
  <2>3. OneSlot(r) => /\ q.pending \subseteq r.pending
                      /\ q = r \/ q.failed \/ ActsIn(q, m.view, m.seq, m.digest)
    BY <2>2, ProcessPrepareActs
  <2> HIDE DEF q
  <2>4. q.failed \/ Heeds(q)
    BY <1>1, <1>4, <2>1, <2>3, HandlerHeeds
  <2> QED  BY <2>4 DEF q
<1> QED  BY <1>2, <1>3, <1>4

\* ... and of such a Commit.
LEMMA ProcessCommitHeeds ==
  ASSUME NEW r \in ReplicaState, Heeds(r), NEW from \in Replica \ {r.id}, NEW m \in Commit,
         NEW lost,
         r.activeView /\ ~IsPrimary(r) =>
            \A p \in r.preprepares : SameSlot(p, m) => p.digest = m.digest
  PROVE  LET q == ProcessCommit(r, from, m, lost) IN Heeds(q)
<1> DEFINE q == ProcessCommit(r, from, m, lost)
           H == {[from |-> from, msg |-> m]}
<1>1. /\ Attests(r, q, m.view, m.seq, m.digest, H) /\ Echoes(r, q, {m})
      /\ q = r \/ m.view = r.view
  BY ProcessCommitAttests, ProcessCommitEchoes
<1>2. \A x \in H : x.from # r.id
  OBVIOUS
<1> HIDE DEF H
<1>3. CASE q = r
  <2> HIDE DEF q
  <2> QED  BY <1>3 DEF q
<1>4. CASE ~r.activeView \/ IsPrimary(r)
  <2> HIDE DEF q
  <2> QED  BY <1>1, <1>4, OthersHeed DEF Attests, q
<1>5. CASE q # r /\ r.activeView /\ ~IsPrimary(r)
  <2>1. m.view = r.view /\ \A p \in r.preprepares : SameSlot(p, m) => p.digest = m.digest
    BY <1>1, <1>5
  <2>2. OneSlot(r) => ActsIn(r, m.view, m.seq, m.digest)
    BY <1>5, <2>1, HeedsSlot
  <2>3. OneSlot(r) => q.pending \subseteq r.pending /\ ActsIn(q, m.view, m.seq, m.digest)
    BY <2>2, ProcessCommitActs
  <2> HIDE DEF q
  <2>4. Heeds(q)
    BY <1>1, <1>2, <1>5, <2>1, <2>3, HandlerHeeds
  <2> QED  BY <2>4 DEF q
<1> QED  BY <1>3, <1>4, <1>5

\* A ViewChange leaves all slots, makes its receiver leave its view, or makes it
\* the primary of a new one.
LEMMA ProcessViewChangeHeeds ==
  ASSUME NEW r \in ReplicaState, Heeds(r), NEW from \in Replica, NEW m \in ViewChange,
         NEW lost, <<"NewView", 0>> \notin lost, NEW q \in ProcessViewChange(r, from, m, lost)
  PROVE  Heeds(q)
<1> DEFINE recorded == RecordViewChangeReceipt(r, from, m)
           joined == MaybeJoinViewChange(recorded, lost)
           H == {[from |-> from, msg |-> m]}
<1>1. \/ q \in {r, recorded, joined}
      \/ q \in StartNewView(joined, m.view, lost) /\ Primary(m.view) = r.id
  BY DEF ProcessViewChange
<1>2. Turns(r, recorded, H) /\ recorded.view = r.view /\ recorded.activeView = r.activeView
  BY RecordViewChangeTurns
<1>3. LeavesTimer(r, recorded)
  BY RecordsLeaveTimer
<1>4. recorded \in ReplicaState
  BY <1>2 DEF Turns
<1> HIDE DEF recorded, H
<1>5. LeavesSlots(r, recorded)
  BY <1>2, <1>3 DEF Turns, LeavesTimer, LeavesSlots
<1>6. Heeds(recorded)
  BY <1>5, LeavesSlotsHeeds
<1>7. joined = recorded \/ ~joined.activeView
  BY <1>4, MaybeJoinTimes
<1>8. Turns(recorded, joined, {})
  BY <1>4, MaybeJoinTurns
<1>9. joined \in ReplicaState /\ joined.id = r.id
  BY <1>2, <1>8 DEF Turns
<1> HIDE DEF joined
<1>10. Heeds(joined)
  BY <1>6, <1>7 DEF Heeds
<1>11. ASSUME q \in StartNewView(joined, m.view, lost), Primary(m.view) = r.id PROVE Heeds(q)
  <2>1. m.view \in Nat
    BY DEF ViewChange
  <2>2. q.id = joined.id /\ q.view = m.view
    BY <1>9, <1>11, <2>1, StartNewViewOpens DEF Opens
  <2> QED  BY <1>9, <1>11, <2>2 DEF Heeds, IsPrimary
<1> QED  BY <1>1, <1>6, <1>10, <1>11

\* A backup that enters a view has no quorum there yet: all the Prepares it has
\* for that view are its own.
LEMMA ProcessNewViewHeeds ==
  ASSUME NEW r \in ReplicaState, Heeds(r), Clean(r), ~r.activeView,
         NEW from \in Replica, NEW m \in NewView, NEW lost
  PROVE  Heeds(ProcessNewView(r, from, m, lost))
<1> DEFINE turned  == [r EXCEPT !.view = m.view, !.activeView = TRUE]
           entered == CleanupState(turned, m.view)
           ms      == Range(m.preprepares)
           taken   == AcceptPrePrepares(entered, ms, lost)
           timed   == StartRequestTimer(taken, FALSE)
           q       == ProcessNewView(r, from, m, lost)
<1>1. m.view \in Nat /\ r.view \in Nat /\ m.preprepares \in Seq(PrePrepare) /\ r.id \in Replica
  BY DEF NewView, ReplicaState
<1>2. ms \in SUBSET PrePrepare
  BY <1>1 DEF Range
<1>3. \/ q = r
      \/ ValidNewView(from, m) /\ m.view >= r.view /\ q \in {taken, timed}
  <2>1. CASE m.view < r.view \/ ~ValidNewView(from, m)
    BY <2>1, Zenon DEF ProcessNewView
  <2>2. CASE ~(m.view < r.view \/ ~ValidNewView(from, m))
    <3>1. q \in {taken, timed}
      BY <2>2, Zenon DEF ProcessNewView
    <3> HIDE DEF q, taken, timed
    <3> QED  BY <1>1, <2>2, <3>1
  <2> QED  BY <2>1, <2>2
<1>4. /\ turned \in ReplicaState /\ turned.view = m.view /\ turned.id = r.id
      /\ turned.preprepares = r.preprepares /\ turned.prepares = r.prepares
      /\ turned.commits = r.commits
  BY <1>1 DEF ReplicaState
<1> HIDE DEF turned
<1>5. /\ entered \in ReplicaState /\ entered.view = m.view /\ entered.id = r.id
      /\ entered.preprepares = {p \in r.preprepares : p.view >= m.view}
      /\ entered.prepares = {x \in r.prepares : x.msg.view >= m.view}
      /\ entered.commits = {x \in r.commits : x.msg.view >= m.view}
  BY <1>1, <1>4, CleanupType DEF CleanupState, ReplicaState
<1> HIDE DEF entered
<1>6. /\ taken \in ReplicaState /\ taken.id = entered.id /\ taken.commits = entered.commits
      /\ \A x \in taken.prepares :
            \/ x \in entered.prepares
            \/ \E k \in ms : x = [from |-> entered.id, msg |-> [k EXCEPT !.type = "Prepare"]]
  <2> HIDE DEF ms
  <2> HIDE DEF taken
  <2>1. /\ taken \in ReplicaState /\ taken.id = entered.id /\ taken.commits = entered.commits
        /\ \A c \in taken.pending : c \in entered.pending \/ \E k \in ms : c = k.digest
        /\ \A x \in taken.prepares :
              \/ x \in entered.prepares
              \/ \E k \in ms : x = [from |-> entered.id, msg |-> [k EXCEPT !.type = "Prepare"]]
        /\ \A k \in ms : Fails([k EXCEPT !.type = "Prepare"], lost)
              => taken.failed \/ \E p \in entered.preprepares : SameSlot(p, k)
    BY <1>2, <1>5, AcceptActs DEF taken
  <2> QED  BY <2>1
<1>7. Adds(entered, taken)
  <2> HIDE DEF ms
  <2>1. Attests(entered, taken, 0, 0, 0, {})
    BY <1>2, <1>5, AcceptAttests
  <2> QED  BY <2>1 DEF Attests
<1>8. ASSUME ValidNewView(from, m), m.view >= r.view, Primary(m.view) # r.id
      PROVE  Heeds(taken)
  <2>1. entered.preprepares = {} /\ entered.prepares = {} /\ entered.commits = {}
    <3>1. /\ \A p \in r.preprepares : p.view \in Nat
          /\ \A x \in r.prepares : x.msg.view \in Nat
          /\ \A x \in r.commits : x.msg.view \in Nat
      BY DEF ReplicaState, PrePrepare, PrepareReceipt, Prepare, CommitReceipt, Commit
    <3>2. /\ \A p \in r.preprepares : p.view < m.view
          /\ \A x \in r.prepares : x.msg.view < m.view
          /\ \A x \in r.commits : x.msg.view < m.view
      BY <1>1, <1>8, <3>1 DEF Clean, IsPrimary
    <3> QED  BY <1>1, <1>5, <3>1, <3>2
  <2> HIDE DEF ms, taken
  <2>2. ASSUME NEW v, NEW s, NEW d PROVE ~Prepared(taken, v, s, d)
    <3> DEFINE T == PreparesOf(taken, v, s)
               S == {r.id}
               k == [m.preprepares[s] EXCEPT !.type = "Prepare"]
    <3>1. ASSUME NEW x \in T PROVE x = [from |-> x.from, msg |-> k] /\ x.from \in S
      <4>1. x \in taken.prepares /\ x.msg.seq = s
        BY DEF PreparesOf
      <4>2. PICK n \in ms : x = [from |-> r.id, msg |-> [n EXCEPT !.type = "Prepare"]]
        BY <1>5, <1>6, <2>1, <4>1
      <4>3. PICK z \in DOMAIN m.preprepares : n = m.preprepares[z]
        BY <4>2 DEF Range, ms
      <4>4. n \in PrePrepare /\ n.seq = z
        BY <1>2, <1>8, <4>2, <4>3 DEF ValidNewView
      <4>5. x.msg.seq = n.seq
        BY <4>2, <4>4 DEF PrePrepare
      <4> QED  BY <4>1, <4>2, <4>3, <4>4, <4>5
    <3> HIDE DEF T, k
    <3>2. S \in SUBSET Replica
      BY <1>1
    <3>3. Cardinality(T) \in Nat /\ Cardinality(S) \in Nat /\ Cardinality(T) <= Cardinality(S)
      BY <3>1, <3>2, OneMessage
    <3>4. Cardinality(S) = 1
      BY FS_Singleton
    <3>5. ~(Cardinality(T) >= PrepareQuorum)
      BY <3>3, <3>4, ToleratesOne DEF PrepareQuorum
    <3> QED  BY <3>5 DEF Prepared, T
  <2>3. \A p \in taken.preprepares : p.digest \in taken.requests
    BY <1>7, <2>1 DEF Adds
  <2> QED  BY <1>6, <2>1, <2>2, <2>3 DEF Heeds, ActsIn, Committed
<1>9. taken.view = m.view /\ taken.id = r.id
  BY <1>5, <1>7 DEF Adds
<1> HIDE DEF taken
<1>10. LeavesSlots(taken, timed)
  BY <1>6 DEF StartRequestTimer, TargetView, LeavesSlots, ReplicaState
<1>11. Heeds(taken) => Heeds(timed)
  BY <1>10, LeavesSlotsHeeds
<1>12. timed.view = m.view /\ timed.id = r.id
  BY <1>9, <1>10 DEF LeavesSlots
<1> HIDE DEF timed, q
<1>13. ASSUME q # r PROVE Heeds(q)
  <2>1. CASE Primary(m.view) = r.id
    BY <1>3, <1>9, <1>12, <1>13, <2>1 DEF Heeds, IsPrimary
  <2>2. CASE Primary(m.view) # r.id
    BY <1>3, <1>8, <1>11, <1>13, <2>2
  <2> QED  BY <2>1, <2>2
<1> QED  BY <1>13 DEF q

\* A replica that leaves its view has nothing to heed any more.
LEMMA StartViewChangeHeeds ==
  ASSUME NEW r \in ReplicaState, Heeds(r), NEW v \in Nat, NEW lost
  PROVE  Heeds(StartViewChange(r, v, lost))
<1>1. r.view \in Nat
  BY DEF ReplicaState
<1>2. CASE v > r.view
  <2>1. ~StartViewChange(r, v, lost).activeView
    BY <1>2, StartViewChangeTimes
  <2> QED  BY <2>1 DEF Heeds
<1>3. CASE v <= r.view
  BY <1>3 DEF StartViewChange
<1> QED  BY <1>1, <1>2, <1>3

-----------------------------------------------------------------------------
(* The quorums of the cluster. *)

\* Running a method that leaves its replica with no quorum that it has not acted on,
\* unless it fails.
LEMMA RunHeeds ==
  ASSUME TypeOK, AllHeed, NEW i \in Replica, NEW q \in ReplicaState, q.id = i,
         NEW consumed, Run(q, consumed),
         i \in Correct /\ Heeds(replica[i]) => q.failed \/ Heeds(q)
  PROVE  AllHeed'
<1>1. \A j \in Replica : replica'[j] = IF j = i THEN Returned(q) ELSE replica[j]
  BY DEF Run, TypeOK
<1>2. LeavesSlots(q, Returned(q))
  BY DEF Returned, LeavesSlots, ReplicaState
<1>3. Heeds(q) => Heeds(Returned(q))
  BY <1>2, LeavesSlotsHeeds
<1>4. failures' = 0 => failures = 0 /\ ~q.failed
  BY DEF Run, TypeOK
<1>5. ASSUME failures' = 0, NEW j \in Correct PROVE Heeds(replica'[j])
  <2>1. j \in Replica
    BY DEF Correct
  <2> QED  BY <1>1, <1>3, <1>4, <1>5, <2>1 DEF AllHeed
<1> QED  BY <1>5 DEF AllHeed

\* A handler of the normal case: its message agrees with the slots of its receiver,
\* since both are claims.
LEMMA ReceiveNormalHeeds ==
  ASSUME TypeOK, SlotInv, AllHeed, NEW e \in net,
         ReceivePrePrepare(e) \/ ReceivePrepare(e) \/ ReceiveCommit(e)
  PROVE  AllHeed'
<1> DEFINE i == e.to
           r == replica[i]
           m == e.msg
<1>1. /\ i \in Correct /\ i \in Replica /\ e.from \in Replica /\ e.from # i
      /\ r \in ReplicaState /\ r.id = i
  BY ReceiverIsCorrect
<1>2. ASSUME m.type \in {"Prepare", "Commit"}, ~IsPrimary(r), m.view = r.view,
             NEW p \in r.preprepares, SameSlot(p, m)
      PROVE  p.digest = m.digest
  <2>1. Fits(m.view, m.seq, m.digest)
    BY <1>2, ClaimFits DEF Fitting
  <2>2. p.digest \in Digest /\ p.view = m.view /\ p.seq = m.seq
    BY <1>1, <1>2, SlotTypes DEF SameSlot
  <2>3. Primary(m.view) # r.id
    BY <1>2 DEF IsPrimary
  <2>4. Holds(r, m.view, m.seq, p.digest)
    BY <1>2, <2>2, <2>3 DEF Holds, IsFor
  <2>5. Claimed(m.view, m.seq, p.digest)
    BY <1>1, <2>4 DEF Claimed
  <2> QED  BY <2>1, <2>2, <2>5 DEF Fits
<1>3. CASE Run(r, {e})
  BY <1>1, <1>3, RunHeeds
<1>4. ASSUME ReceivePrePrepare(e), Taken(e) PROVE AllHeed'
  <2>1. PICK lost : Run(ProcessPrePrepare(r, e.from, m, lost), {e})
    BY <1>4 DEF ReceivePrePrepare
  <2>2. m \in PrePrepare
    BY <1>4, MessageTypes DEF ReceivePrePrepare
  <2>3. PICK q : q = ProcessPrePrepare(r, e.from, m, lost)
    OBVIOUS
  <2> HIDE DEF r, m
  <2>4. q \in ReplicaState /\ q.id = i
    <3>1. Attests(r, q, m.view, m.seq, m.digest, {})
      BY <1>1, <2>2, <2>3, ProcessPrePrepareAttests
    <3> QED  BY <1>1, <3>1 DEF Attests, Adds
  <2>5. Heeds(r) => q.failed \/ Heeds(q)
    BY <1>1, <2>2, <2>3, ProcessPrePrepareHeeds
  <2> QED  BY <1>1, <2>1, <2>3, <2>4, <2>5, RunHeeds DEF r
<1>5. ASSUME ReceivePrepare(e), Taken(e) PROVE AllHeed'
  <2>1. PICK lost : Run(ProcessPrepare(r, e.from, m, lost), {e})
    BY <1>5 DEF ReceivePrepare
  <2>2. m \in Prepare /\ m.type = "Prepare"
    BY <1>5, MessageTypes DEF ReceivePrepare
  <2>3. PICK q : q = ProcessPrepare(r, e.from, m, lost)
    OBVIOUS
  <2> HIDE DEF r, m
  <2>4. q \in ReplicaState /\ q.id = i
    <3>1. Attests(r, q, m.view, m.seq, m.digest, {})
      BY <1>1, <2>2, <2>3, ProcessPrepareAttests
    <3> QED  BY <1>1, <3>1 DEF Attests, Adds
  <2>5. Heeds(r) => q.failed \/ Heeds(q)
    <3>1. CASE m.view = r.view
      BY <1>1, <1>2, <2>2, <2>3, <3>1, ProcessPrepareHeeds
    <3>2. CASE m.view # r.view
      BY <3>2, <1>1, <2>2, <2>3, ProcessPrepareAttests
    <3> QED  BY <3>1, <3>2
  <2> QED  BY <1>1, <2>1, <2>3, <2>4, <2>5, RunHeeds DEF r
<1>6. ASSUME ReceiveCommit(e), Taken(e) PROVE AllHeed'
  <2>1. PICK lost : Run(ProcessCommit(r, e.from, m, lost), {e})
    BY <1>6 DEF ReceiveCommit
  <2>2. m \in Commit /\ m.type = "Commit"
    BY <1>6, MessageTypes DEF ReceiveCommit
  <2>3. PICK q : q = ProcessCommit(r, e.from, m, lost)
    OBVIOUS
  <2> HIDE DEF r, m
  <2>4. q \in ReplicaState /\ q.id = i
    <3>1. Attests(r, q, m.view, m.seq, m.digest, {[from |-> e.from, msg |-> m]})
      BY <1>1, <2>2, <2>3, ProcessCommitAttests
    <3> QED  BY <1>1, <3>1 DEF Attests, Adds
  <2>5. Heeds(r) => q.failed \/ Heeds(q)
    <3>1. CASE m.view = r.view
      BY <1>1, <1>2, <2>2, <2>3, <3>1, ProcessCommitHeeds
    <3>2. CASE m.view # r.view
      BY <3>2, <1>1, <2>2, <2>3, ProcessCommitAttests
    <3> QED  BY <3>1, <3>2
  <2> QED  BY <1>1, <2>1, <2>3, <2>4, <2>5, RunHeeds DEF r
<1>7. ~Taken(e) => Run(r, {e})
  BY DEF ReceivePrePrepare, ReceivePrepare, ReceiveCommit
<1> QED  BY <1>3, <1>4, <1>5, <1>6, <1>7

\* A ViewChange,
LEMMA ReceiveViewChangeHeeds ==
  ASSUME NewViewsArrive, TypeOK, SlotInv, AllHeed, NEW e \in net, ReceiveViewChange(e)
  PROVE  AllHeed'
<1> DEFINE i == e.to
           r == replica[i]
           m == e.msg
<1>1. /\ i \in Correct /\ i \in Replica /\ e.from \in Replica
      /\ r \in ReplicaState /\ r.id = i /\ m \in ViewChange
  BY MessageTypes, ReceiverIsCorrect DEF ReceiveViewChange
<1>2. PICK lost \in Losses({"ViewChange", "NewView", "PrePrepare"}) :
        \E q \in IF Taken(e) THEN ProcessViewChange(r, e.from, m, lost) ELSE {r} : Run(q, {e})
  BY DEF ReceiveViewChange
<1>3. PICK q \in IF Taken(e) THEN ProcessViewChange(r, e.from, m, lost) ELSE {r} : Run(q, {e})
  BY <1>2
<1>4. <<"NewView", 0>> \notin lost
  BY DEF Losses, NewViewsArrive
<1>5. CASE q = r
  BY <1>1, <1>3, <1>5, RunHeeds
<1>6. CASE q \in ProcessViewChange(r, e.from, m, lost)
  <2>1. q \in ReplicaState /\ q.id = i
    BY <1>1, <1>6, ProcessViewChangeStep DEF ViewStep
  <2>2. Heeds(r) => Heeds(q)
    BY <1>1, <1>4, <1>6, ProcessViewChangeHeeds
  <2> QED  BY <1>1, <1>3, <2>1, <2>2, RunHeeds
<1> QED  BY <1>3, <1>5, <1>6

\* ... a NewView,
LEMMA ReceiveNewViewHeeds ==
  ASSUME Inv, SlotInv, AllHeed, NEW e \in net, ReceiveNewView(e)
  PROVE  AllHeed'
<1> DEFINE i == e.to
           r == replica[i]
           m == e.msg
<1>0. TypeOK
  BY DEF Inv
<1>1. /\ i \in Correct /\ i \in Replica /\ e.from \in Replica /\ r \in ReplicaState /\ r.id = i
      /\ m \in NewView /\ m.type = "NewView"
  BY <1>0, MessageTypes, ReceiverIsCorrect DEF ReceiveNewView
<1>2. PICK lost : Run(IF Taken(e) THEN ProcessNewView(r, e.from, m, lost) ELSE r, {e})
  BY DEF ReceiveNewView
<1>3. CASE ~Taken(e)
  BY <1>0, <1>1, <1>2, <1>3, RunHeeds
<1>4. CASE Taken(e)
  <2>1. ~r.activeView
    BY <1>1, <1>4 DEF Taken, IsMessageAllowed
  <2>2. PICK q : q = ProcessNewView(r, e.from, m, lost)
    OBVIOUS
  <2>3. Run(q, {e})
    BY <1>2, <1>4, <2>2
  <2>4. q \in ReplicaState /\ q.id = i
    BY <1>1, <2>2, ProcessNewViewStep DEF ViewStep
  <2>5. Clean(r)
    BY <1>1 DEF Inv, EntersViewClean
  <2> HIDE DEF r, m
  <2>6. Heeds(r) => Heeds(q)
    BY <1>1, <2>1, <2>2, <2>5, ProcessNewViewHeeds
  <2> QED  BY <1>0, <1>1, <2>3, <2>4, <2>6, RunHeeds DEF r
<1> QED  BY <1>3, <1>4

\* ... a timer that expires,
LEMMA TimerExpiresHeeds ==
  ASSUME TypeOK, AllHeed, NEW i \in Replica, TimerExpires(i)
  PROVE  AllHeed'
<1>1. \A j \in Replica : LeavesSlots(replica[j], replica'[j])
  BY DEF TimerExpires, LeavesSlots, TypeOK, ReplicaState
<1>2. ASSUME NEW j \in Correct, Heeds(replica[j]) PROVE Heeds(replica'[j])
  <2>1. LeavesSlots(replica[j], replica'[j])
    BY <1>1 DEF Correct
  <2> QED  BY <1>2, <2>1, LeavesSlotsHeeds
<1>3. failures' = failures
  BY DEF TimerExpires
<1> QED  BY <1>2, <1>3 DEF AllHeed

\* ... its callback,
LEMMA TimerCallbackHeeds ==
  ASSUME TypeOK, AllHeed, NEW i \in Replica, NEW v \in 1 .. MaxView, TimerCallback(i, v)
  PROVE  AllHeed'
<1> DEFINE r == replica[i]
           left == r.callbacks \ {v}
           taken == [r EXCEPT !.callbacks = left]
           q(lost) == StartViewChange(taken, v, lost)
<1>1. r \in ReplicaState /\ r.id = i /\ v \in Nat
  BY BoundAssumption DEF TypeOK
<1>2. PICK lost : Run(q(lost), {})
  BY DEF TimerCallback
<1>3. left \in SUBSET Nat
  BY <1>1 DEF ReplicaState
<1> HIDE DEF r, left
<1>4. taken \in ReplicaState /\ taken.id = i /\ LeavesSlots(r, taken)
  BY <1>1, <1>3 DEF ReplicaState, LeavesSlots
<1> HIDE DEF taken
<1>5. q(lost) \in ReplicaState /\ q(lost).id = i
  BY <1>1, <1>4, StartViewChangeLeaves DEF Leaves
<1>6. Heeds(r) => Heeds(q(lost))
  BY <1>1, <1>4, LeavesSlotsHeeds, StartViewChangeHeeds
<1> HIDE DEF q
<1> QED  BY <1>1, <1>2, <1>5, <1>6, RunHeeds DEF r

\* ... main at a backup,
LEMMA MainTouchesHeeds ==
  ASSUME TypeOK, AllHeed, NEW i \in Replica, MainTouches(i)
  PROVE  AllHeed'
<1> DEFINE r == replica[i]
<1>1. r \in ReplicaState /\ r.id = i
  BY DEF TypeOK
<1>2. PICK q \in ReplicaState : Touched(r, q, i) /\ Run(q, {})
  BY MainTouching
<1> HIDE DEF r
<1>3. LeavesSlots(r, q) /\ q.id = i
  BY <1>1, <1>2, TouchedFields DEF LeavesSlots
<1>4. Heeds(r) => Heeds(q)
  BY <1>3, LeavesSlotsHeeds
<1> QED  BY <1>2, <1>3, <1>4, RunHeeds DEF r

\* ... main at a primary, which is no backup,
LEMMA MainProposesHeeds ==
  ASSUME TypeOK, AllHeed, NEW i \in Replica, MainProposes(i)
  PROVE  AllHeed'
<1> DEFINE r == replica[i]
           known == [r EXCEPT !.requests = @ \cup {i}]
           noted == Equivocate(known)
           sent(lost) == SendPrePrepares(noted, <<i>>, lost)
           q(lost) == IF i \in r.pending THEN r ELSE sent(lost)
<1>1. r \in ReplicaState /\ r.id = i /\ i \in Digest /\ r.view \in Nat /\ IsPrimary(r)
  BY DEF TypeOK, Digest, ReplicaState, MainProposes
<1>2. PICK lost : Run(q(lost), {})
  BY Zenon DEF MainProposes
<1> HIDE DEF r
<1>3. known \in ReplicaState /\ Alike(r, known)
  BY <1>1 DEF ReplicaState, Alike
<1> HIDE DEF known
<1>4. noted \in ReplicaState /\ noted.id = i /\ (i \in Correct => noted = known)
  <2>1. CASE i \in Byzantine
    <3> DEFINE n == known.view + 1
    <3>1. noted = [known EXCEPT !.view = n] /\ n \in Nat
      BY <1>1, <1>3, <2>1 DEF Equivocate, ReplicaState, Alike
    <3> HIDE DEF noted, n
    <3>2. noted \in ReplicaState /\ noted.id = known.id
      BY <1>3, <3>1 DEF ReplicaState
    <3> QED  BY <1>1, <1>3, <2>1, <3>2 DEF Correct, Alike
  <2>2. CASE i \notin Byzantine
    <3>1. noted = known
      BY <1>1, <1>3, <2>2 DEF Equivocate, Alike
    <3> HIDE DEF noted
    <3> QED  BY <1>1, <1>3, <3>1 DEF Alike
  <2> QED  BY <2>1, <2>2
<1> HIDE DEF noted
<1>5. sent(lost) \in ReplicaState /\ Alike(noted, sent(lost))
  BY <1>1, <1>4, SendOne
<1> HIDE DEF sent
<1>6. /\ q(lost) \in ReplicaState /\ q(lost).id = i
      /\ i \in Correct => IsPrimary(q(lost))
  <2>1. CASE i \in r.pending
    BY <1>1, <2>1
  <2>2. CASE i \notin r.pending
    BY <1>1, <1>3, <1>4, <1>5, <2>2 DEF Alike, IsPrimary
  <2> QED  BY <2>1, <2>2
<1> HIDE DEF q
<1> QED  BY <1>2, <1>6, RunHeeds DEF Heeds

\* ... and main when it stores what it has proposed: if that is no primary's any
\* more, it belongs to a view that has been left.
LEMMA MainStoresHeeds ==
  ASSUME Inv, AllHeed, NEW i \in Replica, MainStoresPrePrepare(i)
  PROVE  AllHeed'
<1> DEFINE r == replica[i]
           k == main.call.msg
           q == StorePrePrepares(r, {k})
           stored == {p \in r.preprepares : \A x \in {k} : ~SameSlot(p, x)} \cup {k}
<1>1. TypeOK /\ r \in ReplicaState /\ r.id = i
  BY DEF Inv, TypeOK
<1>2. /\ Run(q, {}) /\ k \in PrePrepare
      /\ i \in Correct => Primary(k.view) = i
  BY DEF MainStoresPrePrepare, Inv, TypeOK, Calling, MainAhead
<1>3. q = [r EXCEPT !.preprepares = stored] /\ stored \in SUBSET PrePrepare
  BY <1>1, <1>2 DEF StorePrePrepares, ReplicaState
<1>4. \A p : p.view # k.view => (p \in stored <=> p \in r.preprepares)
  BY DEF SameSlot
<1> HIDE DEF r, k, q, stored
<1>5. /\ q \in ReplicaState /\ q.id = i /\ q.view = r.view /\ q.activeView = r.activeView
      /\ q.preprepares = stored /\ q.prepares = r.prepares /\ q.commits = r.commits
      /\ q.requests = r.requests /\ q.pending = r.pending /\ q.lastExecuted = r.lastExecuted
  BY <1>1, <1>3 DEF ReplicaState
<1>6. ASSUME i \in Correct, Heeds(r), q.activeView, ~IsPrimary(q) PROVE Heeds(q)
  <2>1. r.activeView /\ ~IsPrimary(r) /\ k.view # r.view
    BY <1>1, <1>2, <1>5, <1>6 DEF IsPrimary
  <2>2. \A p : p.view = r.view => (p \in q.preprepares <=> p \in r.preprepares)
    BY <1>4, <1>5, <2>1
  <2>3. \A s, d : /\ PrePrepared(q, r.view, s, d) <=> PrePrepared(r, r.view, s, d)
                  /\ PreparesOf(q, r.view, s) = PreparesOf(r, r.view, s)
                  /\ CommitsOf(q, r.view, s) = CommitsOf(r, r.view, s)
    BY <1>5, <2>2 DEF PrePrepared, PreparesOf, CommitsOf
  <2>4. \A s, d : /\ Prepared(q, r.view, s, d) <=> Prepared(r, r.view, s, d)
                  /\ Committed(q, r.view, s, d) <=> Committed(r, r.view, s, d)
    BY <2>3 DEF Prepared, Committed
  <2>5. OneSlot(q) => OneSlot(r)
    BY <1>5, <2>2 DEF OneSlot
  <2>6. \A s, d : ActsIn(r, r.view, s, d) => ActsIn(q, r.view, s, d)
    BY <1>1, <1>5, <2>3, <2>4 DEF ActsIn
  <2> QED  BY <1>1, <1>5, <1>6, <2>1, <2>2, <2>4, <2>5, <2>6 DEF Heeds
<1>7. i \in Correct /\ Heeds(r) => Heeds(q)
  BY <1>6 DEF Heeds
<1> QED  BY <1>1, <1>2, <1>5, <1>7, RunHeeds DEF r

\* At first there is no quorum.
LEMMA HeedInitially == Init => AllHeed
<1> SUFFICES ASSUME Init, NEW i \in Correct PROVE Heeds(replica[i])
  BY DEF AllHeed
<1>1. replica[i].preprepares = {} /\ replica[i].commits = {}
  BY DEF Init, NewReplica, Correct
<1> QED  BY <1>1 DEF Heeds

\* Every step of the cluster leaves no quorum that has not been acted on.
LEMMA HeedStep ==
  ASSUME NewViewsArrive, AgreementInv, AllHeed, [Next]_vars
  PROVE  AllHeed'
<1>1. Inv /\ TypeOK /\ SlotInv
  BY DEF AgreementInv, ViewsInv, Inv
<1>2. CASE UNCHANGED vars
  BY <1>2 DEF vars, AllHeed
<1>3. CASE Next
  <2>1. ASSUME NEW e \in net, Receive(e) PROVE AllHeed'
    BY <1>1, <2>1, ReceiveNormalHeeds, ReceiveViewChangeHeeds, ReceiveNewViewHeeds DEF Receive
  <2>2. ASSUME Timers PROVE AllHeed'
    BY <1>1, <2>2, TimerExpiresHeeds, TimerCallbackHeeds DEF Timers
  <2>3. ASSUME Main PROVE AllHeed'
    <3>1. PICK i \in Replica : \/ MainLooks(i) \/ MainTouches(i)
                               \/ MainProposes(i) \/ MainStoresPrePrepare(i)
      BY <2>3, MainSteps
    <3>2. CASE MainLooks(i)
      BY <1>1, <3>2, MainLooking DEF AllHeed
    <3> QED  BY <1>1, <3>1, <3>2, MainTouchesHeeds, MainProposesHeeds, MainStoresHeeds
  <2> QED  BY <1>3, <2>1, <2>2, <2>3 DEF Next
<1> QED  BY <1>2, <1>3

\* What has been heeded has been acted on.
LEMMA HeedsActs ==
  ASSUME TypeOK, AllHeed, OneSlotEach
  PROVE  BackupsActOnQuorums
<1> SUFFICES ASSUME failures = 0, NEW i \in Correct, ~IsPrimary(replica[i])
             PROVE  ActsOnQuorums(i)
  BY DEF BackupsActOnQuorums
<1>1. replica[i].id = i /\ Heeds(replica[i]) /\ OneSlot(replica[i])
  BY DEF TypeOK, Correct, AllHeed, OneSlotEach
<1>2. ASSUME replica[i].activeView, NEW p \in replica[i].preprepares, p.view = replica[i].view
      PROVE  ActsIn(replica[i], p.view, p.seq, p.digest)
  BY <1>1, <1>2 DEF Heeds
<1> QED  BY <1>1, <1>2 DEF ActsIn, ActsOnQuorums

(***************************************************************************)
(* In every cluster in which the broadcast of a NewView never fails, and   *)
(* over any number of view changes, a backup acts on every quorum it       *)
(* holds, in whatever order the pre-prepare, the Prepares and the Commits  *)
(* have come (prepare.go, commit.go, preprepare.go), and whatever it has   *)
(* brought over from the views before (new_view.go), as long as the        *)
(* request a backup is to execute next holds no second slot of its view.   *)
(* It may, if main stores its pre-prepare too late for the primary to see  *)
(* it (conflictingPrePrepare): accepting the second puts the request back  *)
(* in pending after the first has been executed (preprepare.go).           *)
(***************************************************************************)
THEOREM BackupsAct ==
  ASSUME NewViewsArrive
  PROVE  Spec => [](OneSlotEach => BackupsActOnQuorums)
<1>1. Init => AgreementInv /\ AllHeed
  BY SlotsInitially, HeedInitially
<1>2. AgreementInv /\ AllHeed /\ [Next]_vars => (AgreementInv /\ AllHeed)'
  <2>1. AgreementInv /\ [Next]_vars => AgreementInv'
    BY SlotsInductive
  <2>2. AgreementInv /\ AllHeed /\ [Next]_vars => AllHeed'
    BY HeedStep
  <2> QED  BY <2>1, <2>2
<1>3. AgreementInv /\ AllHeed => (OneSlotEach => BackupsActOnQuorums)
  BY HeedsActs DEF AgreementInv, ViewsInv, Inv
<1> QED  BY <1>1, <1>2, <1>3, PTL DEF Spec
=============================================================================
