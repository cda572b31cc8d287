----------------------------- MODULE PBFTProofs -----------------------------
(***************************************************************************)
(* Proofs about the cluster of PBFT.tla, for every number of replicas,     *)
(* every choice of Byzantine replicas, every bound on views and every      *)
(* choice of failures: the type invariant, EntersViewClean and             *)
(* ViewsAdvance. What each method of a replica does to its view and its    *)
(* receipts is one of four relations between the replica before and after  *)
(* it (Keeps, Within, Leaves, Enters). All four are ViewSteps, and an      *)
(* inductive invariant follows from every step being one.                  *)
(***************************************************************************)
EXTENDS PBFTProperties, FiniteSetTheorems, TLAPS

\* What NewReplica returns is a replica's state.
LEMMA NewReplicaType ==
  ASSUME NEW i \in Replica
  PROVE  NewReplica(i) \in ReplicaState
  BY DEF NewReplica, ReplicaState, NoTimer, Timer

-----------------------------------------------------------------------------
(* What a method does to a replica. *)

\* It leaves the view and the receipts as they are.
Keeps(r, q) ==
    /\ q \in ReplicaState
    /\ q.id = r.id
    /\ q.view = r.view
    /\ q.activeView = r.activeView
    /\ q.prepares = r.prepares
    /\ q.commits = r.commits
    /\ q.preprepares = r.preprepares

\* It adds receipts of view v only.
Within(r, q, v) ==
    /\ q \in ReplicaState
    /\ q.id = r.id
    /\ q.view = r.view
    /\ q.activeView = r.activeView
    /\ \A x \in q.prepares : x \in r.prepares \/ x.msg.view = v
    /\ \A x \in q.commits : x \in r.commits \/ x.msg.view = v
    /\ \A m \in q.preprepares : m \in r.preprepares \/ m.view = v

\* It leaves the view for a later one, and takes no receipt.
Leaves(r, q) ==
    /\ q \in ReplicaState
    /\ q.id = r.id
    /\ q.view > r.view
    /\ ~q.activeView
    /\ q.prepares = r.prepares
    /\ q.commits = r.commits
    /\ q.preprepares = r.preprepares

\* Doing nothing keeps everything,
LEMMA KeepsReflexive ==
  ASSUME NEW r \in ReplicaState
  PROVE  Keeps(r, r)
  BY DEF Keeps

\* ... two methods that keep views and receipts do so together,
LEMMA KeepsTransitive ==
  ASSUME NEW r, NEW p, NEW q, Keeps(r, p), Keeps(p, q)
  PROVE  Keeps(r, q)
  BY DEF Keeps

\* ... a method that keeps them adds nothing,
LEMMA KeepsWithin ==
  ASSUME NEW r, NEW q, NEW v, Keeps(r, q)
  PROVE  Within(r, q, v)
  BY DEF Keeps, Within

\* ... and the same for what stays within a view.
LEMMA WithinReflexive ==
  ASSUME NEW r \in ReplicaState, NEW v
  PROVE  Within(r, r, v)
  BY DEF Within

\* Two methods that stay within view v do so together.
LEMMA WithinTransitive ==
  ASSUME NEW r, NEW p, NEW q, NEW v, Within(r, p, v), Within(p, q, v)
  PROVE  Within(r, q, v)
  BY DEF Within

\* A broadcast leaves view and receipts alone (messaging.go).
LEMMA BroadcastKeeps ==
  ASSUME NEW r \in ReplicaState, NEW m \in Message, NEW lost
  PROVE  Keeps(r, Broadcast(r, m, lost))
<1> DEFINE fails == Fails(m, lost)
           o == r.outbox \cup {[msg |-> m, failed |-> fails]}
           f == r.failed \/ fails
<1>1. fails \in BOOLEAN /\ f \in BOOLEAN
  BY DEF Fails
<1>2. r.outbox \in SUBSET [msg : Message, failed : BOOLEAN]
  BY DEF ReplicaState
<1>3. o \in SUBSET [msg : Message, failed : BOOLEAN]
  BY <1>1, <1>2
<1>4. Broadcast(r, m, lost) = [r EXCEPT !.outbox = o, !.failed = f]
  BY DEF Broadcast
<1> HIDE DEF o, f, fails
<1> QED  BY <1>1, <1>3, <1>4 DEF Keeps, ReplicaState

\* So does stopping the timer (timer.go),
LEMMA StopTimerKeeps ==
  ASSUME NEW r \in ReplicaState
  PROVE  Keeps(r, StopRequestTimer(r))
<1>1. NoTimer \in Timer
  BY DEF NoTimer, Timer
<1> QED  BY <1>1 DEF StopRequestTimer, Keeps, ReplicaState

\* ... starting it,
LEMMA StartTimerKeeps ==
  ASSUME NEW r \in ReplicaState, NEW override \in BOOLEAN
  PROVE  Keeps(r, StartRequestTimer(r, override))
<1> DEFINE timer == [target |-> TargetView(r), running |-> TRUE]
<1>2. timer \in Timer
  BY DEF Timer, ReplicaState, TargetView
<1> HIDE DEF timer
<1>3. Keeps(r, [r EXCEPT !.requestTimer = timer])
  BY <1>2 DEF Keeps, ReplicaState
<1> QED  BY <1>3, KeepsReflexive, Zenon DEF StartRequestTimer, timer

\* ... and executing a request (execute.go).
LEMMA ExecuteKeeps ==
  ASSUME NEW r \in ReplicaState, NEW v \in Nat, NEW s \in Nat, NEW d \in Digest, NEW lost
  PROVE  Keeps(r, Execute(r, v, s, d, lost))
<1> DEFINE fails == <<"Block", 0>> \in lost
           block == [view |-> v, seq |-> s, digest |-> d]
           ledger == IF fails THEN r.ledger ELSE Append(r.ledger, block)
           f == r.failed \/ fails
           written == [r EXCEPT !.pending = @ \ {d}, !.ledger = ledger, !.failed = f]
           executed == StopRequestTimer(written)
<1>1. ledger \in Seq(Block) /\ f \in BOOLEAN
  <2>1. block \in Block  BY DEF Block
  <2>2. r.ledger \in Seq(Block)  BY DEF ReplicaState
  <2> QED  BY <2>1, <2>2
<1> HIDE DEF ledger, f
<1>2. Keeps(r, written)
  BY <1>1 DEF Keeps, ReplicaState
<1>3. written \in ReplicaState
  BY <1>2 DEF Keeps
<1> HIDE DEF written
<1>4. Keeps(written, executed)
  BY <1>3, StopTimerKeeps
<1>5. executed \in ReplicaState
  BY <1>4 DEF Keeps
<1> HIDE DEF executed
<1>6. Keeps(executed, StartRequestTimer(executed, TRUE))
  BY <1>5, StartTimerKeeps
<1>7. Keeps(r, r)
  BY KeepsReflexive
<1>8. Keeps(r, executed)
  BY <1>2, <1>4, KeepsTransitive
<1>9. Keeps(r, StartRequestTimer(executed, TRUE))
  BY <1>6, <1>8, KeepsTransitive
<1>10. Execute(r, v, s, d, lost) \in {r, executed, StartRequestTimer(executed, TRUE)}
  BY Zenon DEF Execute, executed, written, ledger, f
<1> QED  BY <1>7, <1>8, <1>9, <1>10

\* A Commit is recorded in its own view (commit.go).
LEMMA RecordCommitWithin ==
  ASSUME NEW r \in ReplicaState, NEW from \in Replica, NEW m \in Commit
  PROVE  Within(r, RecordCommitReceipt(r, from, m), m.view)
<1> DEFINE x == [from |-> from, msg |-> m]
<1>1. x \in CommitReceipt /\ x.msg = m
  BY DEF CommitReceipt
<1> HIDE DEF x
<1>2. Within(r, [r EXCEPT !.commits = @ \cup {x}], m.view)
  BY <1>1 DEF Within, ReplicaState
<1> QED  BY <1>2, WithinReflexive, Zenon DEF RecordCommitReceipt, x

\* Sending a Commit, and executing after it, stays within its view.
LEMMA MaybeSendCommitWithin ==
  ASSUME NEW r \in ReplicaState, NEW v \in Nat, NEW s \in Nat, NEW d \in Digest, NEW lost
  PROVE  Within(r, MaybeSendCommit(r, v, s, d, lost), v)
<1> DEFINE commit == [type |-> "Commit", view |-> v, seq |-> s, digest |-> d]
           sent == Broadcast(r, commit, lost)
           done == RecordCommitReceipt(sent, r.id, commit)
           executed == Execute(done, v, s, d, lost)
<1>1. commit \in Commit /\ commit \in Message /\ commit.view = v
  BY DEF Commit, Message
<1>2. r.id \in Replica
  BY DEF ReplicaState
<1> HIDE DEF commit
<1>3. Within(r, sent, v)
  BY <1>1, BroadcastKeeps, KeepsWithin
<1>4. sent \in ReplicaState
  BY <1>3 DEF Within
<1> HIDE DEF sent
<1>5. Within(sent, done, v)
  BY <1>1, <1>2, <1>4, RecordCommitWithin
<1>6. done \in ReplicaState
  BY <1>5 DEF Within
<1> HIDE DEF done
<1>7. Within(done, executed, v)
  BY <1>6, ExecuteKeeps, KeepsWithin
<1> HIDE DEF executed
<1>8. Within(r, r, v) /\ Within(r, done, v) /\ Within(r, executed, v)
  BY <1>3, <1>5, <1>7, WithinTransitive, WithinReflexive
<1>9. MaybeSendCommit(r, v, s, d, lost) \in {r, sent, done, executed}
  <2>1. CASE ~ShouldSendCommit(r, v, s, d)
    BY <2>1, Zenon DEF MaybeSendCommit
  <2>2. CASE ShouldSendCommit(r, v, s, d) /\ Fails(commit, lost)
    BY <2>2 DEF MaybeSendCommit, commit, sent
  <2>3. CASE ShouldSendCommit(r, v, s, d) /\ ~Fails(commit, lost)
    BY <2>3 DEF MaybeSendCommit, commit, sent, done, executed
  <2> QED  BY <2>1, <2>2, <2>3
<1> QED  BY <1>3, <1>8, <1>9

\* A Commit for another view is dropped.
LEMMA ProcessCommitWithin ==
  ASSUME NEW r \in ReplicaState, NEW from \in Replica, NEW m \in Commit, NEW lost
  PROVE  Within(r, ProcessCommit(r, from, m, lost), r.view)
<1> DEFINE recorded == RecordCommitReceipt(r, from, m)
           executed == Execute(recorded, m.view, m.seq, m.digest, lost)
<1>1. m.view \in Nat /\ m.seq \in Nat /\ m.digest \in Digest
  BY DEF Commit
<1>2. Within(r, recorded, m.view)
  BY RecordCommitWithin
<1>3. recorded \in ReplicaState
  BY <1>2 DEF Within
<1> HIDE DEF recorded
<1>4. Within(recorded, executed, m.view)
  BY <1>1, <1>3, ExecuteKeeps, KeepsWithin
<1>5. Within(r, executed, m.view)
  BY <1>2, <1>4, WithinTransitive
<1> HIDE DEF executed
<1>6. CASE m.view # r.view
  BY <1>6, WithinReflexive DEF ProcessCommit
<1>7. CASE m.view = r.view
  BY <1>2, <1>5, <1>7 DEF ProcessCommit, recorded, executed
<1> QED  BY <1>6, <1>7

\* A Prepare is recorded in its own view (prepare.go).
LEMMA RecordPrepareWithin ==
  ASSUME NEW r \in ReplicaState, NEW from \in Replica, NEW m \in Prepare
  PROVE  Within(r, RecordPrepareReceipt(r, from, m), m.view)
<1> DEFINE x == [from |-> from, msg |-> m]
<1>1. x \in PrepareReceipt /\ x.msg = m
  BY DEF PrepareReceipt
<1> HIDE DEF x
<1>2. Within(r, [r EXCEPT !.prepares = @ \cup {x}], m.view)
  BY <1>1 DEF Within, ReplicaState
<1> QED  BY <1>2, WithinReflexive, Zenon DEF RecordPrepareReceipt, x

\* A Prepare for another view is dropped.
LEMMA ProcessPrepareWithin ==
  ASSUME NEW r \in ReplicaState, NEW from \in Replica, NEW m \in Prepare, NEW lost
  PROVE  Within(r, ProcessPrepare(r, from, m, lost), r.view)
<1> DEFINE recorded == RecordPrepareReceipt(r, from, m)
           sent == MaybeSendCommit(recorded, m.view, m.seq, m.digest, lost)
<1>1. m.view \in Nat /\ m.seq \in Nat /\ m.digest \in Digest
  BY DEF Prepare
<1>2. Within(r, recorded, m.view)
  BY RecordPrepareWithin
<1>3. recorded \in ReplicaState
  BY <1>2 DEF Within
<1> HIDE DEF recorded
<1>4. Within(recorded, sent, m.view)
  BY <1>1, <1>3, MaybeSendCommitWithin
<1>5. Within(r, sent, m.view)
  BY <1>2, <1>4, WithinTransitive
<1> HIDE DEF sent
<1> QED  BY <1>5, WithinReflexive DEF ProcessPrepare, recorded, sent

\* Pre-prepares are stored in their own view (preprepare.go).
LEMMA StorePrePreparesWithin ==
  ASSUME NEW r \in ReplicaState, NEW v, NEW ms \in SUBSET PrePrepare,
         \A m \in ms : m.view = v
  PROVE  Within(r, StorePrePrepares(r, ms), v)
<1> DEFINE stored == {p \in r.preprepares : \A m \in ms : ~SameSlot(p, m)} \cup ms
<1>1. stored \in SUBSET PrePrepare /\ \A m \in stored : m \in r.preprepares \/ m.view = v
  BY DEF ReplicaState
<1>2. StorePrePrepares(r, ms) = [r EXCEPT !.preprepares = stored]
  BY DEF StorePrePrepares
<1> HIDE DEF stored
<1> QED  BY <1>1, <1>2 DEF Within, ReplicaState

\* Taking pre-prepares for v, with the Prepares sent for them, stays within v.
LEMMA AcceptPrePreparesWithin ==
  ASSUME NEW r \in ReplicaState, NEW v \in Nat, NEW ms \in SUBSET PrePrepare, NEW lost,
         \A m \in ms : m.view = v
  PROVE  Within(r, AcceptPrePrepares(r, ms, lost), v)
<1> DEFINE prepareFor(m) == [m EXCEPT !.type = "Prepare"]
           accepted == {m \in ms : \A p \in r.preprepares : ~SameSlot(p, m)}
           answers == {prepareFor(m) : m \in accepted}
           own == {[from |-> r.id, msg |-> p] : p \in {a \in answers : ~Fails(a, lost)}}
           receipts == {o \in own : \A x \in r.prepares : x.from # r.id \/ ~SameSlot(x.msg, o.msg)}
           o == r.outbox \cup {[msg |-> a, failed |-> Fails(a, lost)] : a \in answers}
           f == r.failed \/ \E a \in answers : Fails(a, lost)
           digests == {m.digest : m \in accepted}
           taken == [r EXCEPT !.preprepares = @ \cup accepted,
                              !.requests = @ \cup digests,
                              !.pending = @ \cup digests,
                              !.prepares = @ \cup receipts,
                              !.outbox = o,
                              !.failed = f]
<1>1. accepted \in SUBSET PrePrepare /\ \A m \in accepted : m.view = v
  OBVIOUS
<1>2. answers \in SUBSET Prepare /\ \A a \in answers : a.view = v
  <2>1. \A m \in PrePrepare : prepareFor(m) \in Prepare /\ prepareFor(m).view = m.view
    BY DEF PrePrepare, Prepare
  <2> HIDE DEF prepareFor, accepted
  <2> QED  BY <1>1, <2>1
<1>3. digests \in SUBSET Digest
  BY <1>1 DEF PrePrepare
<1>4. r.id \in Replica /\ r.outbox \in SUBSET [msg : Message, failed : BOOLEAN]
  BY DEF ReplicaState
<1> HIDE DEF accepted, answers, digests
<1>5. receipts \in SUBSET PrepareReceipt /\ \A x \in receipts : x.msg.view = v
  BY <1>2, <1>4 DEF PrepareReceipt
<1>6. o \in SUBSET [msg : Message, failed : BOOLEAN]
  <2>1. \A a \in answers : a \in Message  BY <1>2 DEF Message
  <2>2. \A a \in answers : Fails(a, lost) \in BOOLEAN  BY DEF Fails
  <2> QED  BY <1>4, <2>1, <2>2
<1>7. f \in BOOLEAN
  BY Zenon
<1> HIDE DEF receipts, o, f
<1>8. Within(r, taken, v)
  BY <1>1, <1>3, <1>5, <1>6, <1>7 DEF Within, ReplicaState
<1>9. taken \in ReplicaState
  BY <1>8 DEF Within
<1>10. AcceptPrePrepares(r, ms, lost) \in {r, StartRequestTimer(taken, FALSE)}
  BY Zenon DEF AcceptPrePrepares, taken, accepted, answers, digests, receipts, o, f
<1> HIDE DEF taken
<1>11. Within(taken, StartRequestTimer(taken, FALSE), v)
  BY <1>9, StartTimerKeeps, KeepsWithin
<1> QED  BY <1>8, <1>10, <1>11, WithinTransitive, WithinReflexive

\* A pre-prepare for another view is dropped.
LEMMA ProcessPrePrepareWithin ==
  ASSUME NEW r \in ReplicaState, NEW from \in Replica, NEW m \in PrePrepare, NEW lost
  PROVE  Within(r, ProcessPrePrepare(r, from, m, lost), r.view)
<1> DEFINE taken == AcceptPrePrepares(r, {m}, lost)
           sent == MaybeSendCommit(taken, m.view, m.seq, m.digest, lost)
<1>1. m.view \in Nat /\ m.seq \in Nat /\ m.digest \in Digest
  BY DEF PrePrepare
<1>2. Within(r, taken, m.view)
  BY <1>1, AcceptPrePreparesWithin
<1>3. taken \in ReplicaState
  BY <1>2 DEF Within
<1> HIDE DEF taken
<1>4. Within(taken, sent, m.view)
  BY <1>1, <1>3, MaybeSendCommitWithin
<1>5. Within(r, sent, m.view)
  BY <1>2, <1>4, WithinTransitive
<1> HIDE DEF sent
<1>6. \/ ProcessPrePrepare(r, from, m, lost) = r
      \/ m.view = r.view /\ ProcessPrePrepare(r, from, m, lost) \in {taken, sent}
  BY DEF ProcessPrePrepare, taken, sent
<1> QED  BY <1>2, <1>5, <1>6, WithinReflexive

\* The pre-prepares a primary makes are for its own view.
LEMMA PrePreparesForType ==
  ASSUME NEW r \in ReplicaState, NEW order \in Seq(Digest)
  PROVE  /\ PrePreparesFor(r, order) \in SUBSET PrePrepare
         /\ \A m \in PrePreparesFor(r, order) : m.view = r.view
  BY DEF PrePreparesFor, PrePrepare, ReplicaState

\* Broadcasting pre-prepares leaves view and receipts alone.
LEMMA SendPrePreparesKeeps ==
  ASSUME NEW r \in ReplicaState, NEW order \in Seq(Digest), NEW lost
  PROVE  Keeps(r, SendPrePrepares(r, order, lost))
<1> DEFINE ms == {m \in PrePreparesFor(r, order) : ~ConflictingPrePrepare(r, m)}
           o == r.outbox \cup {[msg |-> m, failed |-> Fails(m, lost)] : m \in ms}
           f == r.failed \/ \E m \in ms : Fails(m, lost)
           digests == Range(order)
           n == r.sequence + Len(order)
<1>1. ms \in SUBSET Message
  BY PrePreparesForType DEF Message
<1>2. r.outbox \in SUBSET [msg : Message, failed : BOOLEAN] /\ n \in Nat
  BY DEF ReplicaState
<1>3. digests \in SUBSET Digest
  BY DEF Range
<1>4. SendPrePrepares(r, order, lost) =
        [r EXCEPT !.requests = @ \cup digests, !.pending = @ \cup digests,
                  !.sequence = n, !.outbox = o, !.failed = f]
  BY DEF SendPrePrepares
<1> HIDE DEF ms, digests, n
<1>5. o \in SUBSET [msg : Message, failed : BOOLEAN]
  <2>1. \A m \in ms : Fails(m, lost) \in BOOLEAN  BY DEF Fails
  <2> QED  BY <1>1, <1>2, <2>1
<1>6. f \in BOOLEAN
  BY Zenon
<1> HIDE DEF o, f
<1> DEFINE q == [r EXCEPT !.requests = @ \cup digests, !.pending = @ \cup digests,
                          !.sequence = n, !.outbox = o, !.failed = f]
<1>7. Keeps(r, q)
  BY <1>2, <1>3, <1>5, <1>6 DEF Keeps, ReplicaState
<1> QED  BY <1>4, <1>7

\* A view change carries prepare certificates.
LEMMA GetPrepareSetType ==
  ASSUME NEW r \in ReplicaState
  PROVE  GetPrepareSet(r) \in SUBSET PrepareInfo
<1>1. \A v, s : PreparesOf(r, v, s) \in SUBSET PrepareReceipt
  BY DEF PreparesOf, ReplicaState
<1> DEFINE info(p) == [view |-> p.view, seq |-> p.seq, digest |-> p.digest,
                       prepares |-> PreparesOf(r, p.view, p.seq)]
<1>2. \A p \in PrePrepare : info(p) \in PrepareInfo
  BY <1>1 DEF PrePrepare, PrepareInfo
<1>3. r.preprepares \in SUBSET PrePrepare
  BY DEF ReplicaState
<1> HIDE DEF info
<1>4. GetPrepareSet(r) =
        {info(p) : p \in {q \in r.preprepares : Prepared(r, q.view, q.seq, q.digest)}}
  BY DEF GetPrepareSet, info
<1> QED  BY <1>2, <1>3, <1>4

\* What startViewChange broadcasts is a message.
LEMMA ViewChangeForType ==
  ASSUME NEW r \in ReplicaState, NEW v \in Nat
  PROVE  ViewChangeFor(r, v) \in ViewChange /\ ViewChangeFor(r, v) \in Message
  BY GetPrepareSetType DEF ViewChangeFor, ViewChange, Message

\* Recording a view change leaves view and receipts alone (view_change.go).
LEMMA RecordViewChangeKeeps ==
  ASSUME NEW r \in ReplicaState, NEW from \in Replica, NEW m \in ViewChange
  PROVE  Keeps(r, RecordViewChangeReceipt(r, from, m))
<1> DEFINE x == [from |-> from, msg |-> m]
<1>1. x \in ViewChangeReceipt
  BY DEF ViewChangeReceipt
<1> HIDE DEF x
<1>2. Keeps(r, [r EXCEPT !.viewChanges = @ \cup {x}])
  BY <1>1 DEF Keeps, ReplicaState
<1> QED  BY <1>2, KeepsReflexive, Zenon DEF RecordViewChangeReceipt, x

\* startViewChange does nothing, or leaves for a later view.
LEMMA StartViewChangeLeaves ==
  ASSUME NEW r \in ReplicaState, NEW v \in Nat, NEW lost
  PROVE  \/ StartViewChange(r, v, lost) = r
         \/ Leaves(r, StartViewChange(r, v, lost))
<1> DEFINE vc == ViewChangeFor(r, v)
           stopped == StopRequestTimer(r)
           left == [stopped EXCEPT !.view = v, !.activeView = FALSE]
           sent == Broadcast(left, vc, lost)
           done == RecordViewChangeReceipt(sent, r.id, vc)
<1>1. CASE ~(v > r.view)
  <2>1. v <= r.view  BY <1>1 DEF ReplicaState
  <2> QED  BY <2>1 DEF StartViewChange
<1>2. CASE v > r.view
  <2>1. vc \in ViewChange /\ vc \in Message /\ r.id \in Replica
    BY ViewChangeForType DEF ReplicaState
  <2>2. Keeps(r, stopped)
    BY StopTimerKeeps
  <2>3. stopped \in ReplicaState
    BY <2>2 DEF Keeps
  <2> HIDE DEF vc, stopped
  <2>4. /\ left \in ReplicaState
        /\ left.view = v
        /\ ~left.activeView
        /\ left.id = stopped.id
        /\ left.prepares = stopped.prepares
        /\ left.commits = stopped.commits
        /\ left.preprepares = stopped.preprepares
    BY <2>3 DEF ReplicaState
  <2> HIDE DEF left
  <2>5. Leaves(r, left)
    BY <1>2, <2>2, <2>4 DEF Leaves, Keeps
  <2>6. Keeps(left, sent)
    BY <2>1, <2>4, BroadcastKeeps
  <2>7. sent \in ReplicaState
    BY <2>6 DEF Keeps
  <2> HIDE DEF sent
  <2>8. Keeps(sent, done)
    BY <2>1, <2>7, RecordViewChangeKeeps
  <2>9. Keeps(left, done)
    BY <2>6, <2>8, KeepsTransitive
  <2> HIDE DEF done
  <2>10. Leaves(r, sent) /\ Leaves(r, done)
    BY <2>5, <2>6, <2>9 DEF Leaves, Keeps
  <2>11. ~(v <= r.view)
    BY <1>2 DEF ReplicaState
  <2>12. StartViewChange(r, v, lost) = IF Fails(vc, lost) THEN sent ELSE done
    BY <2>11, Zenon DEF StartViewChange, done, sent, left, stopped, vc
  <2> QED  BY <2>10, <2>12
<1> QED  BY <1>1, <1>2

\* Joining a view change: only an active replica does, for a later view.
LEMMA MaybeJoinLeaves ==
  ASSUME NEW r \in ReplicaState, NEW lost
  PROVE  \/ MaybeJoinViewChange(r, lost) = r
         \/ r.activeView /\ Leaves(r, MaybeJoinViewChange(r, lost))
<1> DEFINE v == CHOOSE w \in SmallestJoinableViews(r) : TRUE
<1>1. CASE r.activeView /\ SmallestJoinableViews(r) # {}
  <2>1. v \in Nat
    BY <1>1 DEF SmallestJoinableViews, JoinableViews, ReplicaState, ViewChangeReceipt, ViewChange
  <2> HIDE DEF v
  <2>2. MaybeJoinViewChange(r, lost) = StartViewChange(r, v, lost)
    BY <1>1 DEF MaybeJoinViewChange, v
  <2> QED  BY <1>1, <2>1, <2>2, StartViewChangeLeaves
<1>2. CASE ~(r.activeView /\ SmallestJoinableViews(r) # {})
  BY <1>2, Zenon DEF MaybeJoinViewChange
<1> QED  BY <1>1, <1>2

-----------------------------------------------------------------------------
(* View changes. *)

\* It enters view v, and drops what belongs to earlier views.
Enters(r, q, v) ==
    /\ q \in ReplicaState
    /\ q.id = r.id
    /\ q.view = v
    /\ q.activeView
    /\ \A x \in q.prepares : (x \in r.prepares /\ x.msg.view >= v) \/ x.msg.view = v
    /\ \A x \in q.commits : (x \in r.commits /\ x.msg.view >= v) \/ x.msg.view = v
    /\ \A m \in q.preprepares : (m \in r.preprepares /\ m.view >= v) \/ m.view = v

\* cleanupState removes the receipts of views before the given one.
LEMMA CleanupType ==
  ASSUME NEW r \in ReplicaState, NEW v \in Nat
  PROVE  LET q == CleanupState(r, v) IN
         /\ q \in ReplicaState
         /\ q.id = r.id
         /\ \A x \in q.prepares : x \in r.prepares /\ x.msg.view >= v
         /\ \A x \in q.commits : x \in r.commits /\ x.msg.view >= v
         /\ \A m \in q.preprepares : m \in r.preprepares /\ m.view >= v
  BY DEF CleanupState, ReplicaState

\* The pre-prepares of a NewView are all for its view (new_view.go).
LEMMA GeneratePrePreparesType ==
  ASSUME NEW v \in Nat, NEW messages \in SUBSET ViewChangeReceipt
  PROVE  \A pps \in GeneratePrePrepares(v, messages) :
           /\ pps \in Seq(PrePrepare)
           /\ \A m \in Range(pps) : m \in PrePrepare /\ m.view = v
<1> DEFINE infos == UNION {x.msg.prepares : x \in messages}
           h == GetHighestSequenceNumber(infos)
           seqs == 1 .. h
           picks == {c \in [seqs -> UNION {ChosenDigests(infos, s) : s \in seqs}] :
                       \A s \in seqs : c[s] \in ChosenDigests(infos, s)}
           pp(c, s) == [type |-> "PrePrepare", view |-> v, seq |-> s, digest |-> c[s]]
<1>1. infos \in SUBSET PrepareInfo
  BY DEF ViewChangeReceipt, ViewChange
<1> HIDE DEF infos
<1>2. h \in Nat
  <2>1. \A p \in infos : p.seq \in Nat
    BY <1>1 DEF PrepareInfo
  <2> QED  BY <2>1 DEF GetHighestSequenceNumber
<1>3. \A s : ChosenDigests(infos, s) \in SUBSET Digest
  BY <1>1 DEF ChosenDigests, PrepareInfo, Digest
<1> HIDE DEF h
<1>4. \A c \in picks : \A s \in seqs : pp(c, s) \in PrePrepare /\ pp(c, s).view = v
  BY <1>2, <1>3 DEF PrePrepare
<1> HIDE DEF pp
<1>5. \A c \in picks : LET pps == [s \in seqs |-> pp(c, s)] IN
        /\ pps \in Seq(PrePrepare)
        /\ \A m \in Range(pps) : m \in PrePrepare /\ m.view = v
  <2> TAKE c \in picks
  <2> DEFINE pps == [s \in seqs |-> pp(c, s)]
  <2>1. \A s \in seqs : pp(c, s) \in PrePrepare /\ pp(c, s).view = v
    BY <1>4
  <2> HIDE DEF picks
  <2>2. pps \in [1 .. h -> PrePrepare]
    BY <2>1
  <2>3. pps \in Seq(PrePrepare)
    BY <1>2, <2>2
  <2>4. \A m \in Range(pps) : m \in PrePrepare /\ m.view = v
    BY <2>1 DEF Range
  <2> QED  BY <2>3, <2>4
<1>6. GeneratePrePrepares(v, messages) = {[s \in seqs |-> pp(c, s)] : c \in picks}
  BY Zenon DEF GeneratePrePrepares, infos, h, pp
<1> HIDE DEF picks, seqs
<1> QED  BY <1>5, <1>6

\* A new primary keeps nothing of the views before its own.
LEMMA EnterOwnViewEnters ==
  ASSUME NEW r \in ReplicaState, NEW v \in Nat, NEW pps \in Seq(PrePrepare),
         \A m \in Range(pps) : m \in PrePrepare /\ m.view = v
  PROVE  Enters(r, EnterOwnView(r, v, pps), v)
<1> DEFINE cleaned == CleanupState(r, v)
           ms == Range(pps)
           stored == StorePrePrepares(cleaned, ms)
           digests == {m.digest : m \in ms}
           q == [stored EXCEPT !.requests = @ \cup digests, !.pending = @ \cup digests,
                               !.view = v, !.activeView = TRUE]
<1>1. cleaned \in ReplicaState
  BY CleanupType
<1>2. ms \in SUBSET PrePrepare
  OBVIOUS
<1>3. digests \in SUBSET Digest
  BY <1>2 DEF PrePrepare
<1>4. Within(cleaned, stored, v)
  <2>1. ms \in SUBSET PrePrepare /\ \A m \in ms : m.view = v
    OBVIOUS
  <2> HIDE DEF ms, cleaned
  <2> QED  BY <1>1, <2>1, StorePrePreparesWithin
<1>5. /\ cleaned.id = r.id
      /\ \A x \in cleaned.prepares : x \in r.prepares /\ x.msg.view >= v
      /\ \A x \in cleaned.commits : x \in r.commits /\ x.msg.view >= v
      /\ \A m \in cleaned.preprepares : m \in r.preprepares /\ m.view >= v
  BY CleanupType
<1>6. EnterOwnView(r, v, pps) = q
  BY Zenon DEF EnterOwnView
<1>7. stored \in ReplicaState
  BY <1>4 DEF Within
<1> HIDE DEF cleaned, stored, digests
<1>8. /\ q \in ReplicaState
      /\ q.id = stored.id
      /\ q.view = v
      /\ q.activeView
      /\ q.prepares = stored.prepares
      /\ q.commits = stored.commits
      /\ q.preprepares = stored.preprepares
  BY <1>3, <1>7 DEF ReplicaState
<1> HIDE DEF q
<1> QED  BY <1>4, <1>5, <1>6, <1>8 DEF Within, Enters

\* Working within a view just entered is still entering it.
LEMMA WithinEnters ==
  ASSUME NEW r, NEW p, NEW q, NEW v \in Nat, Enters(r, p, v), Within(p, q, v)
  PROVE  Enters(r, q, v)
  BY DEF Enters, Within

\* There are finitely many requests, so they can be put in an order.
LEMMA DigestFinite == IsFiniteSet(Digest)
<1>1. IsFiniteSet(Replica)
  BY ClusterAssumption, FS_Interval DEF Replica
<1>2. Digest = (Replica \cup {EmptyDigest}) \cup {NullHash}
  BY DEF Digest
<1> QED  BY <1>1, <1>2, FS_AddElement

\* What a new primary proposes is for its own view.
LEMMA ProposeOutstandingWithin ==
  ASSUME NEW r \in ReplicaState, NEW lost
  PROVE  \A q \in ProposeOutstanding(r, lost) : Within(r, q, r.view)
<1> DEFINE waiting == {GetDigest(d) : d \in OutstandingRequests(r)} \ r.pending
           sent(order) == SendPrePrepares(r, order, lost)
           own(order) == {m \in PrePreparesFor(r, order) :
                            ~ConflictingPrePrepare(r, m) /\ ~Fails(m, lost)}
<1>1. waiting \in SUBSET Digest
  BY DEF GetDigest, Digest, OutstandingRequests, ReplicaState
<1> HIDE DEF waiting
<1>2. Cardinality(waiting) \in Nat
  BY <1>1, DigestFinite, FS_Subset, FS_CardinalityType
<1>3. \A order \in SetToSeqs(waiting) : order \in Seq(Digest)
  BY <1>1, <1>2 DEF SetToSeqs
<1>4. \A order \in Seq(Digest) : Within(r, StorePrePrepares(sent(order), own(order)), r.view)
  <2> SUFFICES ASSUME NEW order \in Seq(Digest)
               PROVE  Within(r, StorePrePrepares(sent(order), own(order)), r.view)
    OBVIOUS
  <2> DEFINE p == sent(order)
             ms == own(order)
  <2>1. Within(r, p, r.view)
    BY SendPrePreparesKeeps, KeepsWithin
  <2>2. ms \in SUBSET PrePrepare /\ \A m \in ms : m.view = r.view
    BY PrePreparesForType
  <2>3. p \in ReplicaState
    BY <2>1 DEF Within
  <2> HIDE DEF p, ms
  <2>4. Within(p, StorePrePrepares(p, ms), r.view)
    BY <2>2, <2>3, StorePrePreparesWithin
  <2>5. Within(r, StorePrePrepares(p, ms), r.view)
    BY <2>1, <2>4, WithinTransitive
  <2> QED  BY <2>5 DEF p, ms
<1>5. ProposeOutstanding(r, lost) =
        {StorePrePrepares(sent(order), own(order)) : order \in SetToSeqs(waiting)}
  BY Zenon DEF ProposeOutstanding, waiting
<1> HIDE DEF sent, own
<1> QED  BY <1>3, <1>4, <1>5

\* startNewView enters the view, or fails and changes no receipt.
LEMMA StartNewViewEnters ==
  ASSUME NEW r \in ReplicaState, NEW v \in Nat, NEW lost,
         NEW q \in StartNewView(r, v, lost)
  PROVE  Keeps(r, q) \/ Enters(r, q, v)
<1> DEFINE own == RecordViewChangeReceipt(r, r.id, ViewChangeFor(r, v))
           msgs == ViewChangesOf(own, v)
           newView(pps) == [type |-> "NewView", view |-> v, messages |-> msgs,
                            preprepares |-> pps]
           sent(pps) == Broadcast(own, newView(pps), lost)
<1>1. Keeps(r, own)
  BY ViewChangeForType, RecordViewChangeKeeps DEF ReplicaState
<1>2. own \in ReplicaState
  BY <1>1 DEF Keeps
<1> HIDE DEF own
<1>3. msgs \in SUBSET ViewChangeReceipt
  BY <1>2 DEF ViewChangesOf, ReplicaState
<1> HIDE DEF msgs
<1>4. PICK pps \in GeneratePrePrepares(v, msgs) :
         q \in IF Fails(newView(pps), lost)
                 THEN {sent(pps)}
                 ELSE ProposeOutstanding(EnterOwnView(sent(pps), v, pps), lost)
  BY Zenon DEF StartNewView, own, msgs
<1>5. pps \in Seq(PrePrepare) /\ \A m \in Range(pps) : m \in PrePrepare /\ m.view = v
  BY <1>3, GeneratePrePreparesType
<1>6. newView(pps) \in Message
  BY <1>3, <1>5 DEF NewView, Message
<1> DEFINE s == sent(pps)
           e == EnterOwnView(s, v, pps)
<1>7. Keeps(own, s)
  BY <1>2, <1>6, BroadcastKeeps
<1>8. q = s \/ q \in ProposeOutstanding(e, lost)
  BY <1>4, Zenon
<1>9. Keeps(r, s) /\ s \in ReplicaState
  BY <1>1, <1>7, KeepsTransitive DEF Keeps
<1> HIDE DEF sent, s
<1>10. Enters(s, e, v)
  BY <1>5, <1>9, EnterOwnViewEnters
<1>11. Enters(r, e, v) /\ e \in ReplicaState /\ e.view = v
  BY <1>9, <1>10 DEF Enters, Keeps
<1> HIDE DEF e
<1>12. ASSUME q \in ProposeOutstanding(e, lost)
       PROVE  Enters(r, q, v)
  BY <1>11, <1>12, ProposeOutstandingWithin, WithinEnters
<1> QED  BY <1>8, <1>9, <1>12

\* The view only advances, and the receipts follow it.
ViewStep(r, q) ==
    /\ q \in ReplicaState
    /\ q.id = r.id
    /\ q.view >= r.view
    /\ r.activeView /\ ~q.activeView => q.view > r.view
    /\ r.id \in Correct /\ Clean(r) => Clean(q)

\* The views of receipts are numbers.
LEMMA ReceiptViews ==
  ASSUME NEW r \in ReplicaState
  PROVE  /\ r.view \in Nat
         /\ r.activeView \in BOOLEAN
         /\ \A x \in r.prepares : x.msg.view \in Nat
         /\ \A x \in r.commits : x.msg.view \in Nat
         /\ \A m \in r.preprepares : m.view \in Nat
  BY DEF ReplicaState, PrepareReceipt, CommitReceipt, PrePrepare, Prepare, Commit

\* A method that keeps view and receipts is a ViewStep.
LEMMA KeepsStep ==
  ASSUME NEW r \in ReplicaState, NEW q, Keeps(r, q)
  PROVE  ViewStep(r, q)
  BY ReceiptViews DEF Keeps, ViewStep, Clean, IsPrimary

\* The normal case runs only in an active view, so it adds to an entered view.
LEMMA WithinStep ==
  ASSUME NEW r \in ReplicaState, NEW q, Within(r, q, r.view), r.activeView
  PROVE  ViewStep(r, q)
  BY ReceiptViews DEF Within, ViewStep, Clean, IsPrimary

\* Leaving a view makes all receipts those of an earlier one.
LEMMA LeavesStep ==
  ASSUME NEW r \in ReplicaState, NEW q, Leaves(r, q)
  PROVE  ViewStep(r, q)
<1>1. q.view \in Nat
  BY ReceiptViews DEF Leaves
<1> QED  BY <1>1, ReceiptViews DEF Leaves, ViewStep, Clean

\* Entering a view drops what belongs to earlier ones.
LEMMA EntersStep ==
  ASSUME NEW r \in ReplicaState, NEW q, NEW v \in Nat, v >= r.view, Enters(r, q, v)
  PROVE  ViewStep(r, q)
<1>1. ASSUME Clean(r) PROVE Clean(q)
  BY <1>1, ReceiptViews DEF Enters, Clean
<1> QED  BY <1>1, ReceiptViews DEF Enters, ViewStep

\* A view change is a ViewStep, whether it is recorded, joined or completed.
LEMMA ProcessViewChangeStep ==
  ASSUME NEW r \in ReplicaState, NEW from \in Replica, NEW m \in ViewChange, NEW lost,
         NEW q \in ProcessViewChange(r, from, m, lost)
  PROVE  ViewStep(r, q)
<1> DEFINE recorded == RecordViewChangeReceipt(r, from, m)
           joined == MaybeJoinViewChange(recorded, lost)
<1>1. Keeps(r, recorded)
  BY RecordViewChangeKeeps
<1>2. recorded \in ReplicaState
  BY <1>1 DEF Keeps
<1> HIDE DEF recorded
<1>3. joined = recorded \/ Leaves(recorded, joined)
  BY <1>2, MaybeJoinLeaves
<1>4. joined \in ReplicaState
  BY <1>2, <1>3 DEF Leaves
<1> HIDE DEF joined
<1>5. Keeps(r, joined) \/ Leaves(r, joined)
  BY <1>1, <1>3 DEF Keeps, Leaves
<1>6. \/ q \in {r, recorded, joined}
      \/ m.view >= r.view /\ q \in StartNewView(joined, m.view, lost)
  <2>1. m.view \in Nat /\ r.view \in Nat
    BY DEF ViewChange, ReplicaState
  <2>2. CASE m.view < r.view \/ ~ValidViewChange(m)
    BY <2>2 DEF ProcessViewChange
  <2>3. CASE ~(m.view < r.view \/ ~ValidViewChange(m))
    BY <2>1, <2>3 DEF ProcessViewChange, recorded, joined
  <2> QED  BY <2>2, <2>3
<1>7. CASE q \in {r, recorded, joined}
  BY <1>1, <1>5, <1>7, KeepsReflexive, KeepsStep, LeavesStep
<1>8. CASE m.view >= r.view /\ q \in StartNewView(joined, m.view, lost)
  <2>1. m.view \in Nat
    BY DEF ViewChange
  <2>2. Keeps(joined, q) \/ Enters(joined, q, m.view)
    BY <1>4, <1>8, <2>1, StartNewViewEnters
  <2>3. CASE Keeps(joined, q)
    <3>1. Keeps(r, q) \/ Leaves(r, q)
      BY <1>5, <2>3 DEF Keeps, Leaves
    <3> QED  BY <3>1, KeepsStep, LeavesStep
  <2>4. CASE Enters(joined, q, m.view)
    <3>1. Enters(r, q, m.view)
      BY <1>5, <2>4 DEF Keeps, Leaves, Enters
    <3> QED  BY <1>8, <2>1, <3>1, EntersStep
  <2> QED  BY <2>2, <2>3, <2>4
<1> QED  BY <1>6, <1>7, <1>8

\* So is a NewView.
LEMMA ProcessNewViewStep ==
  ASSUME NEW r \in ReplicaState, NEW from \in Replica, NEW m \in NewView, NEW lost
  PROVE  ViewStep(r, ProcessNewView(r, from, m, lost))
<1> DEFINE moved == [r EXCEPT !.view = m.view, !.activeView = TRUE]
           entered == CleanupState(moved, m.view)
           ms == Range(m.preprepares)
           taken == AcceptPrePrepares(entered, ms, lost)
           timed == StartRequestTimer(taken, FALSE)
           result == ProcessNewView(r, from, m, lost)
<1>1. m.view \in Nat /\ r.view \in Nat /\ m.preprepares \in Seq(PrePrepare)
  BY DEF NewView, ReplicaState
<1>2. CASE m.view < r.view \/ ~ValidNewView(from, m)
  <2>1. result = r
    BY <1>2, Zenon DEF ProcessNewView
  <2> QED  BY <2>1, KeepsReflexive, KeepsStep
<1>3. CASE ~(m.view < r.view \/ ~ValidNewView(from, m))
  <2>1. m.view >= r.view
    BY <1>1, <1>3
  <2>2. ms \in SUBSET PrePrepare /\ \A p \in ms : p.view = m.view
    BY <1>1, <1>3 DEF Range, ValidNewView
  <2>3. Enters(r, entered, m.view)
    BY <1>1, <2>1 DEF Enters, CleanupState, ReplicaState
  <2>4. entered \in ReplicaState
    BY <2>3 DEF Enters
  <2> HIDE DEF entered, ms
  <2>5. Within(entered, taken, m.view)
    BY <1>1, <2>2, <2>4, AcceptPrePreparesWithin
  <2>6. Enters(r, taken, m.view) /\ taken \in ReplicaState
    BY <1>1, <2>3, <2>5, WithinEnters DEF Enters
  <2> HIDE DEF taken
  <2>7. Within(taken, timed, m.view)
    BY <2>6, StartTimerKeeps, KeepsWithin
  <2>8. Enters(r, timed, m.view)
    BY <1>1, <2>6, <2>7, WithinEnters
  <2>9. result \in {taken, timed}
    BY <1>3, Zenon DEF ProcessNewView, entered, ms, taken
  <2> HIDE DEF timed, result
  <2>10. ViewStep(r, result)
    BY <1>1, <2>1, <2>6, <2>8, <2>9, EntersStep
  <2> QED  BY <2>10 DEF result
<1> QED  BY <1>2, <1>3

-----------------------------------------------------------------------------
(* Steps of the cluster. *)

\* The pre-prepare that main is about to store at a correct replica belongs to a
\* view that this replica leads: the one it is in, or one that it has left since.
MainAhead ==
    main.call.step = "broadcast" =>
      /\ main.next \in Replica
      /\ main.next \in Correct =>
           /\ Primary(main.call.msg.view) = main.next
           /\ main.call.msg.view <= replica[main.next].view

\* The inductive invariant.
Inv == TypeOK /\ EntersViewClean /\ MainAhead

\* Every replica takes a ViewStep, or none.
ReplicasStep == \A i \in Replica : ViewStep(replica[i], replica'[i])

\* Returning resets what belongs to the running method only.
LEMMA ReturnedKeeps ==
  ASSUME NEW r \in ReplicaState
  PROVE  /\ Keeps(r, Returned(r))
         /\ Returned(r).outbox = {}
         /\ ~Returned(r).failed
  BY DEF Returned, Keeps, ReplicaState

\* A ViewStep may be followed ...
LEMMA StepThenKeeps ==
  ASSUME NEW r \in ReplicaState, NEW p, NEW q, ViewStep(r, p), Keeps(p, q)
  PROVE  ViewStep(r, q)
  BY DEF ViewStep, Keeps, Clean, IsPrimary

\* ... or preceded by what keeps view and receipts.
LEMMA KeepsThenStep ==
  ASSUME NEW r \in ReplicaState, NEW p, NEW q, Keeps(r, p), ViewStep(p, q)
  PROVE  ViewStep(r, q)
  BY DEF ViewStep, Keeps, Clean, IsPrimary

\* What a method leaves in its outbox travels in envelopes.
LEMMA PostedType ==
  ASSUME NEW r \in ReplicaState, failures \in Nat
  PROVE  Posted(r) \subseteq Envelope
<1>1. \A o \in r.outbox : o.msg \in Message
  BY DEF ReplicaState
<1>2. r.id \in Replica
  BY DEF ReplicaState
<1> QED  BY <1>1, <1>2 DEF Posted, Envelope, Correct

\* A message under way has been there before or is one of the method's, and those
\* of a broadcast that has not failed reach every peer.
LEMMA RunPosts ==
  ASSUME NEW r, NEW consumed, Run(r, consumed)
  PROVE  /\ net' \subseteq (net \ consumed) \cup Posted(r)
         /\ net \ consumed \subseteq net'
         /\ \A e \in Posted(r) : e.failure = 0 => e \in net'
<1>1. PICK missed \in SUBSET {e \in Posted(r) : e.failure > 0} :
         net' = (net \ consumed) \cup (Posted(r) \ missed)
  BY DEF Run
<1>2. \A e \in missed : e.failure # 0
  BY <1>1
<1> QED  BY <1>1, <1>2

\* A step that sends nothing is the running of a method that does not.
LEMMA RunSilent ==
  ASSUME NEW q, q.outbox = {}, q.failed = FALSE,
         replica' = [replica EXCEPT ![q.id] = Returned(q)], UNCHANGED <<net, failures>>
  PROVE  Run(q, {})
<1>1. Posted(q) = {}
  BY DEF Posted
<1>2. net' = (net \ {}) \cup (Posted(q) \ {}) /\ {} \in SUBSET {e \in Posted(q) : e.failure > 0}
  BY <1>1
<1> QED  BY <1>2 DEF Run

\* Running a method that is a ViewStep is a step of the cluster.
LEMMA RunStep ==
  ASSUME TypeOK, NEW i \in Replica, NEW r \in ReplicaState, NEW consumed,
         ViewStep(replica[i], r), Run(r, consumed),
         main' \in [next : Nat, call : Calling]
  PROVE  TypeOK' /\ ReplicasStep
<1>1. r.id = i
  BY DEF TypeOK, ViewStep
<1>2. /\ Keeps(r, Returned(r))
      /\ Returned(r).outbox = {}
      /\ ~Returned(r).failed
  BY ReturnedKeeps
<1>3. Returned(r) \in ReplicaState /\ Returned(r).id = i
  BY <1>1, <1>2 DEF Keeps
<1>4. replica' = [replica EXCEPT ![i] = Returned(r)]
  BY <1>1 DEF Run
<1>5. /\ replica'[i] = Returned(r)
      /\ \A j \in Replica \ {i} : replica'[j] = replica[j]
      /\ replica' \in [Replica -> ReplicaState]
  BY <1>3, <1>4 DEF TypeOK
<1>6. TypeOK'
  <2>1. failures' \in Nat
    BY DEF TypeOK, Run
  <2>2. net' \subseteq Envelope
    BY PostedType, RunPosts DEF TypeOK
  <2>3. \A j \in Replica : /\ replica'[j].id = j
                           /\ replica'[j].outbox = {}
                           /\ ~replica'[j].failed
    BY <1>2, <1>3, <1>5 DEF TypeOK
  <2> QED  BY <1>5, <2>1, <2>2, <2>3 DEF TypeOK
<1>7. ReplicasStep
  <2>1. ViewStep(replica[i], replica'[i])
    BY <1>2, <1>5, StepThenKeeps DEF TypeOK
  <2>2. \A j \in Replica \ {i} : ViewStep(replica[j], replica'[j])
    BY <1>5, KeepsReflexive, KeepsStep DEF TypeOK
  <2> QED  BY <2>1, <2>2 DEF ReplicasStep
<1> QED  BY <1>6, <1>7

\* A message's type field says which message it is.
LEMMA MessageTypes ==
  ASSUME TypeOK, NEW e \in net
  PROVE  /\ e.to \in Replica /\ e.from \in Replica
         /\ replica[e.to] \in ReplicaState
         /\ e.msg.type = "PrePrepare" => e.msg \in PrePrepare
         /\ e.msg.type = "Prepare" => e.msg \in Prepare
         /\ e.msg.type = "Commit" => e.msg \in Commit
         /\ e.msg.type = "ViewChange" => e.msg \in ViewChange
         /\ e.msg.type = "NewView" => e.msg \in NewView
<1>1. e \in Envelope
  BY DEF TypeOK
<1>2. e.msg \in Message /\ e.to \in Replica /\ e.from \in Replica
  BY <1>1 DEF Envelope
<1>3. /\ e.msg.type = "PrePrepare" => e.msg \in PrePrepare
      /\ e.msg.type = "Prepare" => e.msg \in Prepare
      /\ e.msg.type = "Commit" => e.msg \in Commit
      /\ e.msg.type = "ViewChange" => e.msg \in ViewChange
      /\ e.msg.type = "NewView" => e.msg \in NewView
  BY <1>2 DEF Message, PrePrepare, Prepare, Commit, ViewChange, NewView
<1> QED  BY <1>2, <1>3 DEF TypeOK

\* Every message handler keeps the type and is a ViewStep.
LEMMA ReceiveStep ==
  ASSUME TypeOK, NEW e \in net, Receive(e)
  PROVE  TypeOK' /\ ReplicasStep
<1> DEFINE r == replica[e.to]
           m == e.msg
<1>1. e.to \in Replica /\ e.from \in Replica /\ r \in ReplicaState
  BY MessageTypes
<1>2. ASSUME main' = main PROVE main' \in [next : Nat, call : Calling]
  BY <1>2 DEF TypeOK
<1>3. ASSUME m.type \in {"PrePrepare", "Prepare", "Commit"}, IsMessageAllowed(r, m)
      PROVE  r.activeView
  BY <1>3 DEF IsMessageAllowed
<1>4. ViewStep(r, r)
  BY <1>1, KeepsReflexive, KeepsStep
<1>5. ASSUME ReceivePrePrepare(e) PROVE TypeOK' /\ ReplicasStep
  <2>1. PICK lost : Run(IF Taken(e) THEN ProcessPrePrepare(r, e.from, m, lost) ELSE r, {e})
    BY <1>5 DEF ReceivePrePrepare
  <2> DEFINE q == IF Taken(e) THEN ProcessPrePrepare(r, e.from, m, lost) ELSE r
  <2>2. m \in PrePrepare /\ m.type = "PrePrepare"
    BY <1>5, MessageTypes DEF ReceivePrePrepare
  <2>3. ViewStep(r, q)
    BY <1>1, <1>3, <1>4, <2>2, ProcessPrePrepareWithin, WithinStep DEF Taken
  <2> HIDE DEF q
  <2>4. q \in ReplicaState
    BY <2>3 DEF ViewStep
  <2> QED  BY <1>1, <1>2, <1>5, <2>1, <2>3, <2>4, RunStep DEF ReceivePrePrepare, q
<1>6. ASSUME ReceivePrepare(e) PROVE TypeOK' /\ ReplicasStep
  <2>1. PICK lost : Run(IF Taken(e) THEN ProcessPrepare(r, e.from, m, lost) ELSE r, {e})
    BY <1>6 DEF ReceivePrepare
  <2> DEFINE q == IF Taken(e) THEN ProcessPrepare(r, e.from, m, lost) ELSE r
  <2>2. m \in Prepare /\ m.type = "Prepare"
    BY <1>6, MessageTypes DEF ReceivePrepare
  <2>3. ViewStep(r, q)
    BY <1>1, <1>3, <1>4, <2>2, ProcessPrepareWithin, WithinStep DEF Taken
  <2> HIDE DEF q
  <2>4. q \in ReplicaState
    BY <2>3 DEF ViewStep
  <2> QED  BY <1>1, <1>2, <1>6, <2>1, <2>3, <2>4, RunStep DEF ReceivePrepare, q
<1>7. ASSUME ReceiveCommit(e) PROVE TypeOK' /\ ReplicasStep
  <2>1. PICK lost : Run(IF Taken(e) THEN ProcessCommit(r, e.from, m, lost) ELSE r, {e})
    BY <1>7 DEF ReceiveCommit
  <2> DEFINE q == IF Taken(e) THEN ProcessCommit(r, e.from, m, lost) ELSE r
  <2>2. m \in Commit /\ m.type = "Commit"
    BY <1>7, MessageTypes DEF ReceiveCommit
  <2>3. ViewStep(r, q)
    BY <1>1, <1>3, <1>4, <2>2, ProcessCommitWithin, WithinStep DEF Taken
  <2> HIDE DEF q
  <2>4. q \in ReplicaState
    BY <2>3 DEF ViewStep
  <2> QED  BY <1>1, <1>2, <1>7, <2>1, <2>3, <2>4, RunStep DEF ReceiveCommit, q
<1>8. ASSUME ReceiveViewChange(e) PROVE TypeOK' /\ ReplicasStep
  <2>1. PICK lost : \E q \in IF Taken(e) THEN ProcessViewChange(r, e.from, m, lost) ELSE {r} :
                       Run(q, {e})
    BY <1>8 DEF ReceiveViewChange
  <2>2. PICK q \in IF Taken(e) THEN ProcessViewChange(r, e.from, m, lost) ELSE {r} : Run(q, {e})
    BY <2>1
  <2>3. m \in ViewChange
    BY <1>8, MessageTypes DEF ReceiveViewChange
  <2>4. q \in ProcessViewChange(r, e.from, m, lost) \/ q = r
    BY <2>2
  <2>5. ViewStep(r, q)
    BY <1>1, <1>4, <2>3, <2>4, ProcessViewChangeStep
  <2>6. q \in ReplicaState
    BY <2>5 DEF ViewStep
  <2> QED  BY <1>1, <1>2, <1>8, <2>2, <2>5, <2>6, RunStep DEF ReceiveViewChange
<1>9. ASSUME ReceiveNewView(e) PROVE TypeOK' /\ ReplicasStep
  <2>1. PICK lost : Run(IF Taken(e) THEN ProcessNewView(r, e.from, m, lost) ELSE r, {e})
    BY <1>9 DEF ReceiveNewView
  <2> DEFINE q == IF Taken(e) THEN ProcessNewView(r, e.from, m, lost) ELSE r
  <2>2. m \in NewView
    BY <1>9, MessageTypes DEF ReceiveNewView
  <2>3. ViewStep(r, q)
    BY <1>1, <1>4, <2>2, ProcessNewViewStep
  <2> HIDE DEF q
  <2>4. q \in ReplicaState
    BY <2>3 DEF ViewStep
  <2> QED  BY <1>1, <1>2, <1>9, <2>1, <2>3, <2>4, RunStep DEF ReceiveNewView, q
<1> QED  BY <1>5, <1>6, <1>7, <1>8, <1>9 DEF Receive

\* So does an expiring timer,
LEMMA TimerExpiresStep ==
  ASSUME TypeOK, NEW i \in Replica, TimerExpires(i)
  PROVE  TypeOK' /\ ReplicasStep
<1> DEFINE r == replica[i]
           t == r.requestTimer.target
           timer == [r.requestTimer EXCEPT !.running = FALSE]
           q == [r EXCEPT !.requestTimer = timer, !.callbacks = @ \cup {t}]
<1>1. r \in ReplicaState
  BY DEF TypeOK
<1>2. t \in Nat /\ timer \in Timer
  BY <1>1 DEF ReplicaState, Timer
<1>3. replica' = [replica EXCEPT ![i] = q]
  BY DEF TimerExpires
<1> HIDE DEF r, t, timer
<1>4. Keeps(r, q) /\ q.outbox = r.outbox /\ q.failed = r.failed
  BY <1>1, <1>2 DEF Keeps, ReplicaState
<1> HIDE DEF q
<1>5. /\ replica'[i] = q
      /\ \A j \in Replica \ {i} : replica'[j] = replica[j]
      /\ replica' \in [Replica -> ReplicaState]
  BY <1>3, <1>4 DEF TypeOK, Keeps
<1>6. \A j \in Replica : /\ replica'[j].id = j
                         /\ replica'[j].outbox = {}
                         /\ ~replica'[j].failed
  BY <1>4, <1>5 DEF TypeOK, Keeps, r
<1>7. TypeOK'
  BY <1>5, <1>6 DEF TypeOK, TimerExpires
<1>8. \A j \in Replica : ViewStep(replica[j], replica'[j])
  BY <1>4, <1>5, KeepsReflexive, KeepsStep DEF TypeOK, r
<1> QED  BY <1>7, <1>8 DEF ReplicasStep

\* ... a timer's callback,
LEMMA TimerCallbackStep ==
  ASSUME TypeOK, NEW i \in Replica, NEW v \in 1 .. MaxView, TimerCallback(i, v)
  PROVE  TypeOK' /\ ReplicasStep
<1> DEFINE r == replica[i]
           taken == [r EXCEPT !.callbacks = @ \ {v}]
<1>1. r \in ReplicaState /\ v \in Nat
  BY BoundAssumption DEF TypeOK
<1>2. PICK lost : Run(StartViewChange(taken, v, lost), {})
  BY DEF TimerCallback
<1>3. Keeps(r, taken)
  BY <1>1 DEF Keeps, ReplicaState
<1>4. taken \in ReplicaState
  BY <1>3 DEF Keeps
<1> HIDE DEF taken
<1> DEFINE q == StartViewChange(taken, v, lost)
<1>5. ViewStep(taken, q)
  BY <1>1, <1>4, StartViewChangeLeaves, LeavesStep, KeepsReflexive, KeepsStep
<1> HIDE DEF q
<1>6. ViewStep(r, q)
  BY <1>1, <1>3, <1>5, KeepsThenStep
<1>7. q \in ReplicaState
  BY <1>5 DEF ViewStep
<1>8. main' \in [next : Nat, call : Calling]
  BY DEF TimerCallback, TypeOK
<1> QED  BY <1>2, <1>6, <1>7, <1>8, RunStep DEF q

\* Main outside of processRequest.
LEMMA OutsideCalling == Outside \in Calling /\ Outside.step # "broadcast"
  BY DEF Outside, Calling

\* After processRequest main is outside of it.
LEMMA MainReturnsType ==
  ASSUME TypeOK, MainReturns
  PROVE  main' \in [next : Nat, call : Calling] /\ main'.call.step # "broadcast"
  BY OutsideCalling DEF TypeOK, MainReturns

\* At a backup main only looks ...
MainLooks(i) == MainAtBackup(i) \/ MainReadsTimer(i)

\* ... or sets the timer or notes the request.
MainTouches(i) == MainReadsView(i) \/ MainArmsTimer(i) \/ MainNotesRequest(i)

\* What that makes of the backup: its timer, the timers it cannot stop any more and
\* what it has seen may change.
Touched(r, q, i) ==
    \E t \in Timer, c \in SUBSET Nat, s \in {r.requests, r.requests \cup {i}} :
       q = [r EXCEPT !.requestTimer = t, !.callbacks = c, !.requests = s]

\* These and the steps at a primary are all that main does.
LEMMA MainSteps ==
  ASSUME Main
  PROVE  \E i \in Replica :
            \/ MainLooks(i)
            \/ MainTouches(i)
            \/ MainProposes(i)
            \/ MainStoresPrePrepare(i)
  BY Zenon DEF Main, MainLooks, MainTouches

\* Looking changes nothing but what main knows.
LEMMA MainLooking ==
  ASSUME TypeOK, NEW i \in Replica, MainLooks(i)
  PROVE  /\ UNCHANGED <<replica, net, failures>>
         /\ i = main.next
         /\ main.call = Outside \/ main.call.step = "backup"
         /\ main' \in [next : Nat, call : Calling]
         /\ main'.next = main.next
         /\ main'.call.step \in {"backup", "view", "note"}
         /\ main'.call # Outside
<1>1. /\ UNCHANGED <<replica, net, failures>>
      /\ i = main.next
      /\ main.call = Outside \/ main.call.step = "backup"
  BY DEF MainLooks, MainAtBackup, MainReadsTimer, MainEnters
<1>2. PICK c \in [step : {"backup", "view", "note"}] : main' = [main EXCEPT !.call = c]
  <2>1. CASE MainAtBackup(i)
    BY <2>1 DEF MainAtBackup
  <2>2. CASE MainReadsTimer(i)
    <3> DEFINE c == [step |-> IF replica[i].requestTimer = NoTimer THEN "view" ELSE "note"]
    <3>1. c \in [step : {"backup", "view", "note"}]
      OBVIOUS
    <3>2. main' = [main EXCEPT !.call = c]
      BY <2>2 DEF MainReadsTimer
    <3> QED  BY <3>1, <3>2
  <2> QED  BY <2>1, <2>2 DEF MainLooks
<1>3. c \in Calling /\ c.step \in {"backup", "view", "note"} /\ c # Outside
  BY DEF Calling, Outside
<1>4. main' \in [next : Nat, call : Calling] /\ main'.next = main.next /\ main'.call = c
  BY <1>2, <1>3 DEF TypeOK
<1> QED  BY <1>1, <1>3, <1>4

\* The rest of main's call at a backup.
LEMMA MainTouching ==
  ASSUME TypeOK, NEW i \in Replica, MainTouches(i)
  PROVE  /\ i = main.next
         /\ main.call # Outside
         /\ main.call.step \in {"view", "timer", "note"}
         /\ main' \in [next : Nat, call : Calling]
         /\ \/ main'.next = main.next /\ main'.call.step \in {"timer", "note"}
            \/ MainReturns
         /\ main'.call.step # "broadcast"
         /\ \E q \in ReplicaState : Touched(replica[i], q, i) /\ Run(q, {})
<1> DEFINE r == replica[i]
<1>1. r \in ReplicaState /\ r.requestTimer \in Timer /\ r.callbacks \in SUBSET Nat
  BY DEF TypeOK, ReplicaState
<1>2. /\ i = main.next
      /\ main.call.step \in {"view", "timer", "note"}
  BY DEF MainTouches, MainReadsView, MainArmsTimer, MainNotesRequest
<1>3. main.call # Outside
  BY <1>2 DEF Outside
<1>4. /\ main' \in [next : Nat, call : Calling]
      /\ \/ main'.next = main.next /\ main'.call.step \in {"timer", "note"}
         \/ MainReturns
      /\ main'.call.step # "broadcast"
  <2>1. CASE MainReadsView(i)
    <3> DEFINE c == [step |-> "timer", target |-> TargetView(r)]
    <3>1. TargetView(r) \in Nat \ {0}
      BY <1>1 DEF TargetView, ReplicaState
    <3>2. c \in Calling /\ c.step = "timer"
      BY <3>1 DEF Calling
    <3>3. main' = [main EXCEPT !.call = c]
      BY <2>1 DEF MainReadsView
    <3> HIDE DEF c
    <3> QED  BY <3>2, <3>3 DEF TypeOK
  <2>2. CASE MainArmsTimer(i)
    <3> DEFINE c == [step |-> "note"]
    <3>1. c \in Calling /\ c.step = "note"
      BY DEF Calling
    <3>2. main' = [main EXCEPT !.call = c]
      BY <2>2 DEF MainArmsTimer
    <3> HIDE DEF c
    <3> QED  BY <3>1, <3>2 DEF TypeOK
  <2>3. CASE MainNotesRequest(i)
    BY <2>3, MainReturnsType DEF MainNotesRequest
  <2> QED  BY <2>1, <2>2, <2>3 DEF MainTouches
<1>5. PICK q : Touched(r, q, i) /\ Run(q, {})
  <2>1. CASE MainReadsView(i)
    <3>1. PICK b \in {r.requestTimer.running, FALSE} :
             Run([r EXCEPT !.requestTimer.running = b], {})
      BY <2>1 DEF MainReadsView
    <3> DEFINE t == [r.requestTimer EXCEPT !.running = b]
               q == [r EXCEPT !.requestTimer = t]
    <3>2. t \in Timer
      BY <1>1 DEF Timer
    <3>3. Run(q, {})
      BY <3>1
    <3> HIDE DEF t
    <3>4. q = [r EXCEPT !.requestTimer = t, !.callbacks = r.callbacks, !.requests = r.requests]
      BY <1>1 DEF ReplicaState
    <3>5. Touched(r, q, i)
      BY <1>1, <3>2, <3>4 DEF Touched
    <3> QED  BY <3>3, <3>5
  <2>2. CASE MainArmsTimer(i)
    <3> DEFINE t == [target |-> main.call.target, running |-> TRUE]
               c == r.callbacks \cup
                      (IF r.requestTimer.running THEN {r.requestTimer.target} ELSE {})
               q == [r EXCEPT !.requestTimer = t, !.callbacks = c]
    <3>1. Run(q, {})
      BY <2>2 DEF MainArmsTimer
    <3>2. t \in Timer
      <4>1. main.call.target \in Nat
        BY <2>2 DEF MainArmsTimer, TypeOK, Calling
      <4> QED  BY <4>1 DEF Timer
    <3>3. c \in SUBSET Nat
      BY <1>1 DEF Timer
    <3> HIDE DEF t, c
    <3>4. q = [r EXCEPT !.requestTimer = t, !.callbacks = c, !.requests = r.requests]
      BY <1>1 DEF ReplicaState
    <3>5. Touched(r, q, i)
      BY <1>1, <3>2, <3>3, <3>4 DEF Touched
    <3> QED  BY <3>1, <3>5
  <2>3. CASE MainNotesRequest(i)
    <3> DEFINE s == r.requests \cup {i}
               q == [r EXCEPT !.requests = s]
    <3>1. Run(q, {})
      BY <2>3 DEF MainNotesRequest
    <3> HIDE DEF s
    <3>4. q = [r EXCEPT !.requestTimer = r.requestTimer, !.callbacks = r.callbacks,
                        !.requests = s]
      BY <1>1 DEF ReplicaState
    <3>5. Touched(r, q, i)
      BY <1>1, <3>4 DEF Touched, s
    <3> QED  BY <3>1, <3>5
  <2> QED  BY <2>1, <2>2, <2>3 DEF MainTouches
<1>6. q \in ReplicaState
  <2>1. i \in Digest
    BY DEF Digest
  <2>2. PICK t \in Timer, c \in SUBSET Nat, s \in {r.requests, r.requests \cup {i}} :
           q = [r EXCEPT !.requestTimer = t, !.callbacks = c, !.requests = s]
    BY <1>5 DEF Touched
  <2>3. s \in SUBSET Digest
    BY <1>1, <2>1 DEF ReplicaState
  <2> QED  BY <1>1, <2>2, <2>3 DEF ReplicaState
<1> QED  BY <1>2, <1>3, <1>4, <1>5, <1>6

\* What is touched by main stays as it is but for timers and requests.
LEMMA TouchedFields ==
  ASSUME NEW r \in ReplicaState, NEW q, NEW i, Touched(r, q, i)
  PROVE  /\ q.id = r.id
         /\ q.view = r.view
         /\ q.activeView = r.activeView
         /\ q.sequence = r.sequence
         /\ q.lastExecuted = r.lastExecuted
         /\ q.requests \in {r.requests, r.requests \cup {i}}
         /\ q.pending = r.pending
         /\ q.preprepares = r.preprepares
         /\ q.prepares = r.prepares
         /\ q.commits = r.commits
         /\ q.viewChanges = r.viewChanges
         /\ q.ledger = r.ledger
         /\ q.outbox = r.outbox
         /\ q.failed = r.failed
<1>1. PICK t \in Timer, c \in SUBSET Nat, s \in {r.requests, r.requests \cup {i}} :
         q = [r EXCEPT !.requestTimer = t, !.callbacks = c, !.requests = s]
  BY DEF Touched
<1> QED  BY <1>1 DEF ReplicaState

\* Main's steps at a backup keep the type and are ViewSteps,
LEMMA MainLooksStep ==
  ASSUME TypeOK, NEW i \in Replica, MainLooks(i)
  PROVE  TypeOK' /\ ReplicasStep /\ main'.call.step # "broadcast"
<1>1. /\ UNCHANGED <<replica, net, failures>>
      /\ main' \in [next : Nat, call : Calling]
      /\ main'.call.step \in {"backup", "view", "note"}
  BY MainLooking
<1>2. TypeOK'
  BY <1>1 DEF TypeOK
<1>3. ReplicasStep
  BY <1>1, KeepsReflexive, KeepsStep DEF TypeOK, ReplicasStep
<1> QED  BY <1>1, <1>2, <1>3

\* ... those that change it as well.
LEMMA MainTouchesStep ==
  ASSUME TypeOK, NEW i \in Replica, MainTouches(i)
  PROVE  TypeOK' /\ ReplicasStep /\ main'.call.step # "broadcast"
<1>1. replica[i] \in ReplicaState
  BY DEF TypeOK
<1>2. /\ main' \in [next : Nat, call : Calling]
      /\ main'.call.step # "broadcast"
      /\ \E q \in ReplicaState : Touched(replica[i], q, i) /\ Run(q, {})
  BY MainTouching
<1>3. PICK q \in ReplicaState : Touched(replica[i], q, i) /\ Run(q, {})
  BY <1>2
<1>4. ViewStep(replica[i], q)
  BY <1>1, <1>3, TouchedFields, KeepsStep DEF Keeps
<1> QED  BY <1>2, <1>3, <1>4, RunStep

\* Main at a primary: the pre-prepare it has broadcast is for the primary's view,
LEMMA MainProposesStep ==
  ASSUME TypeOK, NEW i \in Replica, MainProposes(i)
  PROVE  TypeOK' /\ ReplicasStep /\ MainAhead'
<1> DEFINE r == replica[i]
           known == [r EXCEPT !.requests = @ \cup {i}]
           noted == Equivocate(known)
           m == [type |-> "PrePrepare", view |-> noted.view, seq |-> noted.sequence + 1,
                 digest |-> i]
           sent(lost) == SendPrePrepares(noted, <<i>>, lost)
           q(lost) == IF i \in r.pending THEN r ELSE sent(lost)
           broadcast == [main EXCEPT !.call = [step |-> "broadcast", msg |-> m]]
<1>1. r \in ReplicaState /\ r.id = i /\ i \in Digest
  BY DEF TypeOK, Digest
<1>2. PICK lost : /\ Run(q(lost), {})
                  /\ MainReturns \/ main' = broadcast
  BY Zenon DEF MainProposes
<1>3. i = main.next /\ Primary(r.view) = i
  BY <1>1 DEF MainProposes, MainEnters, IsPrimary
<1> HIDE DEF r
<1>4. Keeps(r, known) /\ known \in ReplicaState
  BY <1>1 DEF Keeps, ReplicaState
<1> HIDE DEF known
<1>5. /\ noted \in ReplicaState
      /\ noted.id = i
      /\ noted.view >= known.view
      /\ noted.activeView = known.activeView
      /\ noted.prepares = known.prepares
      /\ noted.commits = known.commits
      /\ noted.preprepares = known.preprepares
      /\ i \in Correct => noted.view = r.view
  <2>1. known.id = i /\ known.view = r.view /\ known.view \in Nat
    BY <1>1, <1>4 DEF Keeps, ReplicaState
  <2>2. CASE i \in Byzantine
    <3> DEFINE n == known.view + 1
    <3>1. noted = [known EXCEPT !.view = n] /\ n \in Nat /\ n >= known.view
      BY <2>1, <2>2 DEF Equivocate
    <3> HIDE DEF noted, n
    <3>2. noted \in ReplicaState /\ noted.view = n
      BY <1>4, <3>1 DEF ReplicaState
    <3>3. /\ noted.id = known.id
          /\ noted.activeView = known.activeView
          /\ noted.prepares = known.prepares
          /\ noted.commits = known.commits
          /\ noted.preprepares = known.preprepares
      BY <1>4, <3>1 DEF ReplicaState
    <3> QED  BY <2>1, <2>2, <3>1, <3>2, <3>3 DEF Correct
  <2>3. CASE i \notin Byzantine
    <3>1. noted = known
      BY <2>1, <2>3 DEF Equivocate
    <3> HIDE DEF noted
    <3> QED  BY <1>4, <2>1, <3>1
  <2> QED  BY <2>2, <2>3
<1> HIDE DEF noted
<1>6. ViewStep(r, noted)
  BY <1>1, <1>4, <1>5, ReceiptViews DEF Keeps, ViewStep, Clean, IsPrimary
<1>7. <<i>> \in Seq(Digest)
  BY <1>1
<1>8. Keeps(noted, sent(lost))
  BY <1>5, <1>7, SendPrePreparesKeeps
<1>9. ViewStep(r, sent(lost))
  BY <1>1, <1>6, <1>8, StepThenKeeps
<1> HIDE DEF sent
<1>10. ViewStep(r, q(lost))
  BY <1>1, <1>9, KeepsReflexive, KeepsStep
<1>11. q(lost) \in ReplicaState
  BY <1>10 DEF ViewStep
<1> HIDE DEF q
<1>12. m \in PrePrepare /\ m.view = noted.view
  BY <1>1, <1>5 DEF PrePrepare, ReplicaState
<1> HIDE DEF m
<1>13. /\ broadcast \in [next : Nat, call : Calling]
       /\ broadcast.next = i
       /\ broadcast.call.msg = m
  BY <1>3, <1>12 DEF TypeOK, Calling
<1> HIDE DEF broadcast
<1>14. TypeOK' /\ ReplicasStep
  BY <1>2, <1>10, <1>11, <1>13, MainReturnsType, RunStep DEF r
<1>15. MainAhead'
  <2>1. CASE MainReturns
    BY <2>1, MainReturnsType DEF MainAhead
  <2>2. CASE main' = broadcast
    <3>1. replica'[i].view >= r.view
      BY <1>14 DEF ReplicasStep, ViewStep, r
    <3>2. i \in Correct => m.view = r.view /\ Primary(m.view) = i
      BY <1>3, <1>5, <1>12
    <3>3. main'.next = i /\ main'.call.msg = m
      BY <1>13, <2>2
    <3> QED  BY <3>1, <3>2, <3>3 DEF MainAhead
  <2> QED  BY <1>2, <2>1, <2>2
<1> QED  BY <1>14, <1>15

\* ... or for one it has left since, when main stores it.
LEMMA MainStoresPrePrepareStep ==
  ASSUME TypeOK, MainAhead, NEW i \in Replica, MainStoresPrePrepare(i)
  PROVE  TypeOK' /\ ReplicasStep /\ main'.call.step # "broadcast"
<1> DEFINE r == replica[i]
           m == main.call.msg
           stored == {p \in r.preprepares : \A k \in {m} : ~SameSlot(p, k)} \cup {m}
           q == StorePrePrepares(r, {m})
<1>1. r \in ReplicaState /\ r.id = i
  BY DEF TypeOK
<1>2. i = main.next /\ main.call.step = "broadcast" /\ Run(q, {}) /\ MainReturns
  BY DEF MainStoresPrePrepare
<1>3. m \in PrePrepare
  BY <1>2 DEF TypeOK, Calling
<1>4. i \in Correct => Primary(m.view) = i /\ m.view <= r.view
  BY <1>2 DEF MainAhead
<1>5. q = [r EXCEPT !.preprepares = stored]
  BY DEF StorePrePrepares
<1> HIDE DEF r, m, q
<1>6. stored \in SUBSET PrePrepare /\ \A p \in stored : p \in r.preprepares \/ p = m
  BY <1>1, <1>3 DEF ReplicaState
<1> HIDE DEF stored
<1>7. /\ q \in ReplicaState
      /\ q.id = r.id
      /\ q.view = r.view
      /\ q.activeView = r.activeView
      /\ q.prepares = r.prepares
      /\ q.commits = r.commits
      /\ q.preprepares = stored
  BY <1>1, <1>5, <1>6 DEF ReplicaState
<1>8. m.view \in Nat
  BY <1>3 DEF PrePrepare
<1>9. ViewStep(r, q)
  BY <1>1, <1>4, <1>6, <1>7, <1>8, ReceiptViews DEF ViewStep, Clean, IsPrimary
<1> QED  BY <1>2, <1>7, <1>9, MainReturnsType, RunStep DEF r

\* While main waits, the views of replicas only grow.
LEMMA StepMainAhead ==
  ASSUME TypeOK, MainAhead, TypeOK', ReplicasStep, UNCHANGED main
  PROVE  MainAhead'
<1> SUFFICES ASSUME main.call.step = "broadcast"
             PROVE  /\ main.next \in Replica
                    /\ main.next \in Correct =>
                         /\ Primary(main.call.msg.view) = main.next
                         /\ main.call.msg.view <= replica'[main.next].view
  BY DEF MainAhead
<1> DEFINE i == main.next
<1>1. i \in Replica
  BY DEF MainAhead
<1>2. replica'[i].view \in Nat /\ replica[i].view \in Nat /\ main.call.msg.view \in Nat
  BY <1>1 DEF TypeOK, ReplicaState, Calling, PrePrepare
<1>3. replica'[i].view >= replica[i].view
  BY <1>1 DEF ReplicasStep, ViewStep
<1> QED  BY <1>1, <1>2, <1>3 DEF MainAhead

\* Every step of the cluster.
LEMMA NextStep ==
  ASSUME Inv, Next
  PROVE  TypeOK' /\ MainAhead' /\ ReplicasStep
<1> USE DEF Inv
<1>1. ASSUME NEW e \in net, Receive(e)
      PROVE  TypeOK' /\ MainAhead' /\ ReplicasStep
  <2>1. UNCHANGED main
    BY <1>1 DEF Receive, ReceivePrePrepare, ReceivePrepare, ReceiveCommit,
                ReceiveViewChange, ReceiveNewView
  <2> QED  BY <1>1, <2>1, ReceiveStep, StepMainAhead
<1>2. ASSUME NEW i \in Replica, TimerExpires(i)
      PROVE  TypeOK' /\ MainAhead' /\ ReplicasStep
  <2>1. UNCHANGED main
    BY <1>2 DEF TimerExpires
  <2> QED  BY <1>2, <2>1, TimerExpiresStep, StepMainAhead
<1>3. ASSUME NEW i \in Replica, NEW v \in 1 .. MaxView, TimerCallback(i, v)
      PROVE  TypeOK' /\ MainAhead' /\ ReplicasStep
  <2>1. UNCHANGED main
    BY <1>3 DEF TimerCallback
  <2> QED  BY <1>3, <2>1, TimerCallbackStep, StepMainAhead
<1>4. ASSUME NEW i \in Replica, MainLooks(i)
      PROVE  TypeOK' /\ MainAhead' /\ ReplicasStep
  BY <1>4, MainLooksStep DEF MainAhead
<1>5. ASSUME NEW i \in Replica, MainTouches(i)
      PROVE  TypeOK' /\ MainAhead' /\ ReplicasStep
  BY <1>5, MainTouchesStep DEF MainAhead
<1>6. ASSUME NEW i \in Replica, MainProposes(i)
      PROVE  TypeOK' /\ MainAhead' /\ ReplicasStep
  BY <1>6, MainProposesStep
<1>7. ASSUME NEW i \in Replica, MainStoresPrePrepare(i)
      PROVE  TypeOK' /\ MainAhead' /\ ReplicasStep
  BY <1>7, MainStoresPrePrepareStep DEF MainAhead
<1> QED  BY <1>1, <1>2, <1>3, <1>4, <1>5, <1>6, <1>7, MainSteps, Zenon DEF Next, Timers

\* Inv holds initially ...
LEMMA Initially == Init => Inv
<1> SUFFICES ASSUME Init PROVE Inv
  OBVIOUS
<1>1. TypeOK
  <2>1. replica \in [Replica -> ReplicaState]
    BY NewReplicaType DEF Init
  <2>2. \A i \in Replica : /\ replica[i].id = i
                           /\ replica[i].outbox = {}
                           /\ ~replica[i].failed
    BY DEF Init, NewReplica
  <2>3. net \subseteq Envelope /\ failures \in Nat
    BY DEF Init
  <2>4. main \in [next : Nat, call : Calling]
    BY OutsideCalling DEF Init
  <2> QED  BY <2>1, <2>2, <2>3, <2>4 DEF TypeOK
<1>2. EntersViewClean
  BY DEF EntersViewClean, Clean, Init, NewReplica, Correct
<1>3. MainAhead
  BY OutsideCalling DEF MainAhead, Init
<1> QED  BY <1>1, <1>2, <1>3 DEF Inv

\* ... and is inductive.
LEMMA InvStep == Inv /\ [Next]_vars => Inv'
<1> SUFFICES ASSUME Inv, [Next]_vars PROVE Inv'
  OBVIOUS
<1>1. CASE Next
  <2>1. TypeOK' /\ MainAhead' /\ ReplicasStep
    BY <1>1, NextStep
  <2>2. \A i \in Correct : replica[i].id = i /\ i \in Replica
    BY DEF Inv, TypeOK, Correct
  <2>3. EntersViewClean'
    BY <2>1, <2>2 DEF Inv, EntersViewClean, ReplicasStep, ViewStep
  <2> QED  BY <2>1, <2>3 DEF Inv
<1>2. CASE UNCHANGED vars
  BY <1>2 DEF vars, Inv, TypeOK, EntersViewClean, MainAhead, Clean, IsPrimary
<1> QED  BY <1>1, <1>2

-----------------------------------------------------------------------------
(***************************************************************************)
(* The state always has its type: every message under way is one that its  *)
(* handler can read, a NewView carries a sequence of pre-prepares for its  *)
(* view, and between two methods nothing is left to send.                  *)
(***************************************************************************)
THEOREM TypeCorrect == Spec => []TypeOK
<1>1. Inv => TypeOK
  BY DEF Inv
<1> QED  BY <1>1, Initially, InvStep, PTL DEF Spec

(***************************************************************************)
(* EntersViewClean holds for every cluster: no interleaving of handlers,   *)
(* timers and main leaves a correct replica with a Prepare, a Commit or a  *)
(* foreign pre-prepare for a view that it has not entered.                 *)
(***************************************************************************)
THEOREM ViewsEnteredClean == Spec => []EntersViewClean
<1>1. Inv => EntersViewClean
  BY DEF Inv
<1> QED  BY <1>1, Initially, InvStep, PTL DEF Spec

(***************************************************************************)
(* ViewsAdvance holds for every cluster: late timers, late view changes    *)
(* and Byzantine replicas never take a replica back to an earlier view, or *)
(* out of the view it is active in without moving it to a later one.       *)
(***************************************************************************)
THEOREM ViewsOnlyAdvance == Spec => ViewsAdvance
<1>1. Inv /\ [Next]_vars =>
        [\A i \in Replica :
           /\ replica'[i].view >= replica[i].view
           /\ replica[i].activeView /\ ~replica'[i].activeView
                => replica'[i].view > replica[i].view]_vars
  BY NextStep DEF ReplicasStep, ViewStep
<1> QED  BY <1>1, Initially, InvStep, PTL DEF Spec, ViewsAdvance
=============================================================================
