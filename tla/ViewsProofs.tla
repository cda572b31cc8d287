---------------------------- MODULE ViewsProofs -----------------------------
(***************************************************************************)
(* Proofs about view changes, for every cluster, every choice of failures  *)
(* and every bound: the views of PBFT.tla implement Views.tla, and a view  *)
(* that a correct replica is active in has been reached by a quorum.       *)
(*                                                                         *)
(* The argument is that what replicas say about views is true and stays    *)
(* true: a ViewChange on the way or in a receipt names a view that its     *)
(* sender has reached, since views only grow; receipts from 2f+1 senders   *)
(* show that the view has a quorum; and only then is a NewView sent.       *)
(***************************************************************************)
EXTENDS PBFTProofs

-----------------------------------------------------------------------------
(* The normal case says nothing about views. *)

NormalCase == {"PrePrepare", "Prepare", "Commit"}

\* A method keeps the view changes it has received and sends none.
Quiet(r, q) ==
    /\ q.viewChanges = r.viewChanges
    /\ \A o \in q.outbox : o \in r.outbox \/ o.msg.type \in NormalCase

\* Two quiet methods are quiet together.
LEMMA QuietTransitive ==
  ASSUME NEW r, NEW p, NEW q, Quiet(r, p), Quiet(p, q)
  PROVE  Quiet(r, q)
  BY DEF Quiet

\* A method that does nothing is quiet.
LEMMA QuietReflexive ==
  ASSUME NEW r
  PROVE  Quiet(r, r)
  BY DEF Quiet

\* A broadcast of the normal case (messaging.go),
LEMMA BroadcastQuiet ==
  ASSUME NEW r \in ReplicaState, NEW m, m.type \in NormalCase, NEW lost
  PROVE  Quiet(r, Broadcast(r, m, lost))
<1> DEFINE o == r.outbox \cup {[msg |-> m, failed |-> Fails(m, lost)]}
           f == r.failed \/ Fails(m, lost)
<1>1. \A x \in o : x \in r.outbox \/ x.msg.type \in NormalCase
  OBVIOUS
<1>2. Broadcast(r, m, lost) = [r EXCEPT !.outbox = o, !.failed = f]
  BY DEF Broadcast
<1> HIDE DEF o, f
<1> QED  BY <1>1, <1>2 DEF Quiet, ReplicaState

\* ... the timer (timer.go),
LEMMA StopTimerQuiet ==
  ASSUME NEW r \in ReplicaState
  PROVE  Quiet(r, StopRequestTimer(r))
  BY DEF StopRequestTimer, Quiet, ReplicaState

\* ... started or stopped,
LEMMA StartTimerQuiet ==
  ASSUME NEW r \in ReplicaState, NEW override \in BOOLEAN
  PROVE  Quiet(r, StartRequestTimer(r, override))
<1> DEFINE timer == [target |-> r.view + 1, running |-> TRUE]
<1> HIDE DEF timer
<1>1. Quiet(r, [r EXCEPT !.requestTimer = timer])
  BY DEF Quiet, ReplicaState
<1> QED  BY <1>1, QuietReflexive, Zenon DEF StartRequestTimer, TargetView, timer

\* ... and executing a request (execute.go) say nothing about views.
LEMMA ExecuteQuiet ==
  ASSUME NEW r \in ReplicaState, NEW v \in Nat, NEW s \in Nat, NEW d \in Digest, NEW lost
  PROVE  Quiet(r, Execute(r, v, s, d, lost))
<1> DEFINE fails == <<"Block", 0>> \in lost
           block == [view |-> v, seq |-> s, digest |-> d]
           ledger == IF fails THEN r.ledger ELSE Append(r.ledger, block)
           f == r.failed \/ fails
           written == [r EXCEPT !.pending = @ \ {d}, !.ledger = ledger, !.failed = f]
           executed == StopRequestTimer(written)
<1>1. ledger \in Seq(Block) /\ f \in BOOLEAN
  <2>1. block \in Block  BY DEF Block
  <2>2. r.ledger \in Seq(Block)  BY DEF ReplicaState
  <2> QED  BY <2>1, <2>2
<1> HIDE DEF ledger, f
<1>2. written \in ReplicaState /\ Quiet(r, written)
  BY <1>1 DEF Quiet, ReplicaState
<1> HIDE DEF written
<1>3. executed \in ReplicaState /\ Quiet(written, executed)
  BY <1>2, StopTimerKeeps, StopTimerQuiet DEF Keeps
<1> HIDE DEF executed
<1>4. Quiet(r, executed) /\ Quiet(r, StartRequestTimer(executed, TRUE))
  BY <1>2, <1>3, StartTimerQuiet, QuietTransitive
<1>5. Execute(r, v, s, d, lost) \in {r, executed, StartRequestTimer(executed, TRUE)}
  BY Zenon DEF Execute, executed, written, ledger, f
<1> QED  BY <1>4, <1>5, QuietReflexive

\* A Commit received (commit.go),
LEMMA RecordCommitQuiet ==
  ASSUME NEW r \in ReplicaState, NEW from, NEW m
  PROVE  Quiet(r, RecordCommitReceipt(r, from, m))
<1> DEFINE x == [from |-> from, msg |-> m]
<1> HIDE DEF x
<1>1. Quiet(r, [r EXCEPT !.commits = @ \cup {x}])
  BY DEF Quiet, ReplicaState
<1> QED  BY <1>1, QuietReflexive, Zenon DEF RecordCommitReceipt, x

\* ... or sent,
LEMMA MaybeSendCommitQuiet ==
  ASSUME NEW r \in ReplicaState, NEW v \in Nat, NEW s \in Nat, NEW d \in Digest, NEW lost
  PROVE  Quiet(r, MaybeSendCommit(r, v, s, d, lost))
<1> DEFINE commit == [type |-> "Commit", view |-> v, seq |-> s, digest |-> d]
           sent == Broadcast(r, commit, lost)
           done == RecordCommitReceipt(sent, r.id, commit)
           executed == Execute(done, v, s, d, lost)
<1>1. commit \in Commit /\ commit \in Message /\ commit.type \in NormalCase /\ r.id \in Replica
  BY DEF Commit, Message, NormalCase, ReplicaState
<1> HIDE DEF commit
<1>2. Quiet(r, sent) /\ sent \in ReplicaState
  BY <1>1, BroadcastQuiet, BroadcastKeeps DEF Keeps
<1> HIDE DEF sent
<1>3. Quiet(sent, done) /\ done \in ReplicaState
  BY <1>1, <1>2, RecordCommitQuiet, RecordCommitWithin DEF Within
<1> HIDE DEF done
<1>4. Quiet(done, executed)
  BY <1>3, ExecuteQuiet
<1> HIDE DEF executed
<1>5. Quiet(r, r) /\ Quiet(r, done) /\ Quiet(r, executed)
  BY <1>2, <1>3, <1>4, QuietTransitive, QuietReflexive
<1>6. MaybeSendCommit(r, v, s, d, lost) \in {r, sent, done, executed}
  <2>1. CASE ~ShouldSendCommit(r, v, s, d)
    BY <2>1, Zenon DEF MaybeSendCommit
  <2>2. CASE ShouldSendCommit(r, v, s, d) /\ Fails(commit, lost)
    BY <2>2 DEF MaybeSendCommit, commit, sent
  <2>3. CASE ShouldSendCommit(r, v, s, d) /\ ~Fails(commit, lost)
    BY <2>3 DEF MaybeSendCommit, commit, sent, done, executed
  <2> QED  BY <2>1, <2>2, <2>3
<1> QED  BY <1>2, <1>5, <1>6

\* ... by its handler,
LEMMA ProcessCommitQuiet ==
  ASSUME NEW r \in ReplicaState, NEW from \in Replica, NEW m \in Commit, NEW lost
  PROVE  Quiet(r, ProcessCommit(r, from, m, lost))
<1> DEFINE recorded == RecordCommitReceipt(r, from, m)
           executed == Execute(recorded, m.view, m.seq, m.digest, lost)
<1>1. m.view \in Nat /\ m.seq \in Nat /\ m.digest \in Digest
  BY DEF Commit
<1>2. Quiet(r, recorded) /\ recorded \in ReplicaState
  BY RecordCommitQuiet, RecordCommitWithin DEF Within
<1> HIDE DEF recorded
<1>3. Quiet(r, executed)
  BY <1>1, <1>2, ExecuteQuiet, QuietTransitive
<1> HIDE DEF executed
<1>4. ProcessCommit(r, from, m, lost) \in {r, recorded, executed}
  <2>1. CASE m.view # r.view
    BY <2>1, Zenon DEF ProcessCommit
  <2>2. CASE m.view = r.view
    BY <2>2 DEF ProcessCommit, recorded, executed
  <2> QED  BY <2>1, <2>2
<1> QED  BY <1>2, <1>3, <1>4, QuietReflexive

\* ... a Prepare (prepare.go),
LEMMA ProcessPrepareQuiet ==
  ASSUME NEW r \in ReplicaState, NEW from \in Replica, NEW m \in Prepare, NEW lost
  PROVE  Quiet(r, ProcessPrepare(r, from, m, lost))
<1> DEFINE recorded == RecordPrepareReceipt(r, from, m)
           sent == MaybeSendCommit(recorded, m.view, m.seq, m.digest, lost)
           x == [from |-> from, msg |-> m]
<1>1. m.view \in Nat /\ m.seq \in Nat /\ m.digest \in Digest
  BY DEF Prepare
<1>2. recorded \in ReplicaState
  BY RecordPrepareWithin DEF Within
<1>3. Quiet(r, recorded)
  <2> HIDE DEF x
  <2>1. Quiet(r, [r EXCEPT !.prepares = @ \cup {x}])
    BY DEF Quiet, ReplicaState
  <2> QED  BY <2>1, QuietReflexive, Zenon DEF RecordPrepareReceipt, x
<1> HIDE DEF recorded
<1>4. Quiet(r, sent)
  BY <1>1, <1>2, <1>3, MaybeSendCommitQuiet, QuietTransitive
<1> HIDE DEF sent
<1>5. ProcessPrepare(r, from, m, lost) \in {r, sent}
  BY Zenon DEF ProcessPrepare, recorded, sent
<1> QED  BY <1>4, <1>5, QuietReflexive

\* ... pre-prepares stored (preprepare.go),
LEMMA StorePrePreparesQuiet ==
  ASSUME NEW r \in ReplicaState, NEW ms
  PROVE  Quiet(r, StorePrePrepares(r, ms))
<1> DEFINE stored == {p \in r.preprepares : \A m \in ms : ~SameSlot(p, m)} \cup ms
<1>1. StorePrePrepares(r, ms) = [r EXCEPT !.preprepares = stored]
  BY DEF StorePrePrepares
<1> HIDE DEF stored
<1> QED  BY <1>1 DEF Quiet, ReplicaState

\* ... or accepted with a Prepare,
LEMMA AcceptPrePreparesQuiet ==
  ASSUME NEW r \in ReplicaState, NEW v \in Nat, NEW ms \in SUBSET PrePrepare, NEW lost,
         \A m \in ms : m.view = v
  PROVE  Quiet(r, AcceptPrePrepares(r, ms, lost))
<1> DEFINE prepareFor(m) == [m EXCEPT !.type = "Prepare"]
           accepted == {m \in ms : \A p \in r.preprepares : ~SameSlot(p, m)}
           answers == {prepareFor(m) : m \in accepted}
           own == {[from |-> r.id, msg |-> p] : p \in {a \in answers : ~Fails(a, lost)}}
           receipts == {o \in own : \A x \in r.prepares : x.from # r.id \/ ~SameSlot(x.msg, o.msg)}
           o == r.outbox \cup {[msg |-> a, failed |-> Fails(a, lost)] : a \in answers}
           f == r.failed \/ \E a \in answers : Fails(a, lost)
           digests == {m.digest : m \in accepted}
           taken == [r EXCEPT !.preprepares = @ \cup accepted,
                              !.requests = @ \cup digests,
                              !.pending = @ \cup digests,
                              !.prepares = @ \cup receipts,
                              !.outbox = o,
                              !.failed = f]
<1>1. \A m \in accepted : m \in PrePrepare
  OBVIOUS
<1>2. \A a \in answers : a \in Prepare /\ a.type \in NormalCase /\ a.view = v
  <2>1. \A m \in PrePrepare : /\ prepareFor(m) \in Prepare /\ prepareFor(m).view = m.view
                              /\ prepareFor(m).type \in NormalCase
    BY DEF PrePrepare, Prepare, NormalCase
  <2>2. \A m \in accepted : m.view = v
    OBVIOUS
  <2> HIDE DEF prepareFor, accepted
  <2> QED  BY <1>1, <2>1, <2>2
<1>3. accepted \in SUBSET PrePrepare /\ digests \in SUBSET Digest
  BY <1>1 DEF PrePrepare
<1>4. r.id \in Replica /\ r.outbox \in SUBSET [msg : Message, failed : BOOLEAN]
  BY DEF ReplicaState
<1> HIDE DEF accepted, answers, digests
<1>5. receipts \in SUBSET PrepareReceipt
  BY <1>2, <1>4 DEF PrepareReceipt
<1>6. o \in SUBSET [msg : Message, failed : BOOLEAN] /\ f \in BOOLEAN
  <2>1. \A a \in answers : a \in Message /\ Fails(a, lost) \in BOOLEAN
    BY <1>2, SMT DEF Message, Fails
  <2> QED  BY <1>4, <2>1
<1>7. \A x \in o : x \in r.outbox \/ x.msg.type \in NormalCase
  BY <1>2
<1> HIDE DEF receipts, o, f
<1>8. Quiet(r, taken)
  BY <1>7 DEF Quiet, ReplicaState
<1>9. taken \in ReplicaState
  BY <1>3, <1>5, <1>6 DEF ReplicaState
<1>10. AcceptPrePrepares(r, ms, lost) \in {r, StartRequestTimer(taken, FALSE)}
  BY Zenon DEF AcceptPrePrepares, taken, accepted, answers, digests, receipts, o, f
<1> HIDE DEF taken
<1>11. Quiet(taken, StartRequestTimer(taken, FALSE))
  BY <1>9, StartTimerQuiet
<1>12. Quiet(r, StartRequestTimer(taken, FALSE))
  BY <1>8, <1>11, QuietTransitive
<1> QED  BY <1>10, <1>12, QuietReflexive

\* ... by the handler of a pre-prepare,
LEMMA ProcessPrePrepareQuiet ==
  ASSUME NEW r \in ReplicaState, NEW from \in Replica, NEW m \in PrePrepare, NEW lost
  PROVE  Quiet(r, ProcessPrePrepare(r, from, m, lost))
<1> DEFINE taken == AcceptPrePrepares(r, {m}, lost)
           sent == MaybeSendCommit(taken, m.view, m.seq, m.digest, lost)
<1>1. m.view \in Nat /\ m.seq \in Nat /\ m.digest \in Digest
  BY DEF PrePrepare
<1>2. Quiet(r, taken) /\ taken \in ReplicaState
  <2>1. Quiet(r, taken)
    BY <1>1, AcceptPrePreparesQuiet
  <2>2. Within(r, taken, m.view)
    BY <1>1, AcceptPrePreparesWithin
  <2> QED  BY <2>1, <2>2 DEF Within
<1> HIDE DEF taken
<1>3. Quiet(r, sent)
  BY <1>1, <1>2, MaybeSendCommitQuiet, QuietTransitive
<1> HIDE DEF sent
<1>4. ProcessPrePrepare(r, from, m, lost) \in {r, taken, sent}
  BY DEF ProcessPrePrepare, taken, sent
<1> QED  BY <1>2, <1>3, <1>4, QuietReflexive

\* ... and pre-prepares broadcast (request.go): they say nothing either.
LEMMA SendPrePreparesQuiet ==
  ASSUME NEW r \in ReplicaState, NEW order \in Seq(Digest), NEW lost
  PROVE  Quiet(r, SendPrePrepares(r, order, lost))
<1> DEFINE ms == {m \in PrePreparesFor(r, order) : ~ConflictingPrePrepare(r, m)}
           o == r.outbox \cup {[msg |-> m, failed |-> Fails(m, lost)] : m \in ms}
           f == r.failed \/ \E m \in ms : Fails(m, lost)
           digests == Range(order)
           n == r.sequence + Len(order)
<1>1. \A m \in ms : m.type \in NormalCase
  BY DEF PrePreparesFor, NormalCase
<1>2. SendPrePrepares(r, order, lost) =
        [r EXCEPT !.requests = @ \cup digests, !.pending = @ \cup digests,
                  !.sequence = n, !.outbox = o, !.failed = f]
  BY DEF SendPrePrepares
<1> HIDE DEF ms, digests, n
<1>3. \A x \in o : x \in r.outbox \/ x.msg.type \in NormalCase
  BY <1>1
<1> HIDE DEF o, f
<1> DEFINE q == [r EXCEPT !.requests = @ \cup digests, !.pending = @ \cup digests,
                          !.sequence = n, !.outbox = o, !.failed = f]
<1>4. Quiet(r, q)
  BY <1>3 DEF Quiet, ReplicaState
<1> QED  BY <1>2, <1>4

\* So does a replica that enters a view, at the primary,
LEMMA EnterOwnViewQuiet ==
  ASSUME NEW r \in ReplicaState, NEW v \in Nat, NEW pps \in Seq(PrePrepare),
         \A m \in Range(pps) : m \in PrePrepare /\ m.view = v
  PROVE  Quiet(r, EnterOwnView(r, v, pps))
<1> DEFINE cleaned == CleanupState(r, v)
           ms == Range(pps)
           stored == StorePrePrepares(cleaned, ms)
           digests == {m.digest : m \in ms}
           q == [stored EXCEPT !.requests = @ \cup digests, !.pending = @ \cup digests,
                               !.view = v, !.activeView = TRUE]
<1>1. cleaned \in ReplicaState /\ Quiet(r, cleaned)
  BY CleanupType DEF CleanupState, Quiet, ReplicaState
<1>2. ms \in SUBSET PrePrepare /\ \A m \in ms : m.view = v
  OBVIOUS
<1>3. EnterOwnView(r, v, pps) = q
  BY Zenon DEF EnterOwnView
<1> HIDE DEF cleaned, ms
<1>4. stored \in ReplicaState /\ Quiet(cleaned, stored)
  BY <1>1, <1>2, StorePrePreparesQuiet, StorePrePreparesWithin DEF Within
<1> HIDE DEF stored, digests
<1>5. Quiet(stored, q)
  BY <1>4 DEF Quiet, ReplicaState
<1> HIDE DEF q
<1> QED  BY <1>1, <1>3, <1>4, <1>5, QuietTransitive

\* ... which goes on to propose what is outstanding,
LEMMA ProposeOutstandingQuiet ==
  ASSUME NEW r \in ReplicaState, NEW lost, NEW q \in ProposeOutstanding(r, lost)
  PROVE  Quiet(r, q)
<1> DEFINE waiting == {GetDigest(d) : d \in OutstandingRequests(r)} \ r.pending
           sent(order) == SendPrePrepares(r, order, lost)
           own(order) == {m \in PrePreparesFor(r, order) :
                            ~ConflictingPrePrepare(r, m) /\ ~Fails(m, lost)}
<1>1. waiting \in SUBSET Digest
  BY DEF GetDigest, Digest, OutstandingRequests, ReplicaState
<1> HIDE DEF waiting
<1>2. Cardinality(waiting) \in Nat
  BY <1>1, DigestFinite, FS_Subset, FS_CardinalityType
<1>3. PICK order \in SetToSeqs(waiting) : q = StorePrePrepares(sent(order), own(order))
  BY Zenon DEF ProposeOutstanding, waiting
<1>4. order \in Seq(Digest)
  BY <1>1, <1>2 DEF SetToSeqs
<1> DEFINE p == sent(order)
           ms == own(order)
<1>5. Quiet(r, p) /\ p \in ReplicaState
  BY <1>4, SendPrePreparesQuiet, SendPrePreparesKeeps DEF Keeps
<1>6. q = StorePrePrepares(p, ms)
  BY <1>3
<1> HIDE DEF p, ms
<1> QED  BY <1>5, <1>6, StorePrePreparesQuiet, QuietTransitive

\* ... or at a backup.
LEMMA ProcessNewViewQuiet ==
  ASSUME NEW r \in ReplicaState, NEW from \in Replica, NEW m \in NewView, NEW lost
  PROVE  LET q == ProcessNewView(r, from, m, lost) IN
         /\ Quiet(r, q)
         /\ (q.view = r.view /\ q.activeView = r.activeView) \/ q.view = m.view
<1> DEFINE moved == [r EXCEPT !.view = m.view, !.activeView = TRUE]
           entered == CleanupState(moved, m.view)
           ms == Range(m.preprepares)
           taken == AcceptPrePrepares(entered, ms, lost)
           timed == StartRequestTimer(taken, FALSE)
           result == ProcessNewView(r, from, m, lost)
<1>1. m.view \in Nat /\ r.view \in Nat /\ m.preprepares \in Seq(PrePrepare)
  BY DEF NewView, ReplicaState
<1>2. CASE m.view < r.view \/ ~ValidNewView(from, m)
  <2>1. result = r
    BY <1>2, Zenon DEF ProcessNewView
  <2> QED  BY <2>1, QuietReflexive
<1>3. CASE ~(m.view < r.view \/ ~ValidNewView(from, m))
  <2>1. ms \in SUBSET PrePrepare /\ \A p \in ms : p.view = m.view
    BY <1>1, <1>3 DEF Range, ValidNewView
  <2>2. entered \in ReplicaState /\ Quiet(r, entered) /\ entered.view = m.view
    BY <1>1 DEF CleanupState, Quiet, ReplicaState
  <2> HIDE DEF entered, ms
  <2>3. Quiet(entered, taken) /\ taken \in ReplicaState /\ taken.view = m.view
    <3>1. Quiet(entered, taken)
      BY <1>1, <2>1, <2>2, AcceptPrePreparesQuiet
    <3>2. Within(entered, taken, m.view)
      BY <1>1, <2>1, <2>2, AcceptPrePreparesWithin
    <3> QED  BY <2>2, <3>1, <3>2 DEF Within
  <2> HIDE DEF taken
  <2>4. Quiet(taken, timed) /\ timed.view = m.view
    BY <2>3, StartTimerQuiet, StartTimerKeeps DEF Keeps
  <2>5. result \in {taken, timed}
    BY <1>3, Zenon DEF ProcessNewView, entered, ms, taken
  <2> HIDE DEF timed, result
  <2>6. Quiet(r, result) /\ result.view = m.view
    BY <2>2, <2>3, <2>4, <2>5, QuietTransitive
  <2> QED  BY <2>6 DEF result
<1> QED  BY <1>2, <1>3

-----------------------------------------------------------------------------
(* What a method says about views. *)

\* One receipt for each sender and view.
OneEach(r) ==
    \A x, y \in r.viewChanges : x.from = y.from /\ x.msg.view = y.msg.view => x = y

\* A method that has heard the receipts in H, and knows that the views in W have
\* a quorum, adds what it has heard and what it can answer for: a ViewChange for
\* a view it has come to, and a NewView for one that has a quorum.
Tells(r, q, H, W) ==
    /\ q.id = r.id
    /\ q.view >= r.view
    /\ OneEach(r) => OneEach(q)
    /\ \A x \in q.viewChanges :
          \/ x \in r.viewChanges
          \/ x \in H
          \/ x.from = r.id /\ x.msg.view <= q.view
          \/ x.msg.view \in W
    /\ \A o \in q.outbox :
          \/ o \in r.outbox
          \/ o.msg.type \in NormalCase
          \/ o.msg.type = "ViewChange" /\ o.msg.view <= q.view
          \/ o.msg.type = "NewView" /\ o.msg.view \in W

\* The views named in a replica's messages and receipts are numbers.
LEMMA NamedViews ==
  ASSUME NEW r \in ReplicaState
  PROVE  /\ r.view \in Nat
         /\ \A x \in r.viewChanges : x.from \in Replica /\ x.msg.view \in Nat
         /\ \A o \in r.outbox : o.msg.view \in Nat
<1>1. \A m \in Message : m.view \in Nat
  BY DEF Message, PrePrepare, Prepare, Commit, ViewChange, NewView
<1>2. \A x \in ViewChangeReceipt : x.from \in Replica /\ x.msg.view \in Nat
  BY DEF ViewChangeReceipt, ViewChange
<1> QED  BY <1>1, <1>2 DEF ReplicaState

\* What is said before and after goes together.
LEMMA TellsTransitive ==
  ASSUME NEW r \in ReplicaState, NEW p \in ReplicaState, NEW q \in ReplicaState, NEW H, NEW W,
         Tells(r, p, H, W), Tells(p, q, H, W)
  PROVE  Tells(r, q, H, W)
<1>1. r.view \in Nat /\ p.view \in Nat /\ q.view \in Nat
  BY NamedViews
<1>2. /\ \A x \in p.viewChanges : x.msg.view \in Nat
      /\ \A o \in p.outbox : o.msg.view \in Nat
  BY NamedViews
<1> QED  BY <1>1, <1>2 DEF Tells

\* A quiet method says nothing that is not so.
LEMMA QuietTells ==
  ASSUME NEW r, NEW q, Quiet(r, q), q.id = r.id, q.view >= r.view, NEW H, NEW W
  PROVE  Tells(r, q, H, W)
  BY DEF Quiet, Tells, OneEach

\* A replica that does nothing says nothing.
LEMMA TellsReflexive ==
  ASSUME NEW r \in ReplicaState, NEW H, NEW W
  PROVE  Tells(r, r, H, W)
<1>1. r.view >= r.view
  BY NamedViews
<1> QED  BY <1>1, QuietReflexive, QuietTells

\* A view change is recorded if it is the first of its sender for its view.
LEMMA RecordViewChangeTells ==
  ASSUME NEW r \in ReplicaState, NEW from \in Replica, NEW m \in ViewChange, NEW H, NEW W,
         \/ [from |-> from, msg |-> m] \in H
         \/ from = r.id /\ m.view <= r.view
         \/ m.view \in W
  PROVE  Tells(r, RecordViewChangeReceipt(r, from, m), H, W)
<1> DEFINE x == [from |-> from, msg |-> m]
           q == [r EXCEPT !.viewChanges = @ \cup {x}]
<1>1. x.from = from /\ x.msg = m
  OBVIOUS
<1>2. CASE \E y \in r.viewChanges : y.from = from /\ y.msg.view = m.view
  BY <1>2, TellsReflexive DEF RecordViewChangeReceipt
<1>3. CASE ~\E y \in r.viewChanges : y.from = from /\ y.msg.view = m.view
  <2>1. RecordViewChangeReceipt(r, from, m) = q
    BY <1>3 DEF RecordViewChangeReceipt
  <2> HIDE DEF x
  <2>2. /\ q.viewChanges = r.viewChanges \cup {x}
        /\ q.outbox = r.outbox /\ q.id = r.id /\ q.view = r.view
    BY DEF ReplicaState
  <2> HIDE DEF q
  <2>3. OneEach(r) => OneEach(q)
    BY <1>1, <1>3, <2>2 DEF OneEach
  <2>4. q.view >= r.view
    BY <2>2, NamedViews
  <2>5. x \in H \/ (x.from = r.id /\ x.msg.view <= q.view) \/ x.msg.view \in W
    BY <1>1, <2>2 DEF x
  <2>6. Tells(r, q, H, W)
    BY <2>2, <2>3, <2>4, <2>5 DEF Tells
  <2> QED  BY <2>1, <2>6
<1> QED  BY <1>2, <1>3

\* A broadcast says what the message says.
LEMMA BroadcastTells ==
  ASSUME NEW r \in ReplicaState, NEW m \in Message, NEW lost, NEW H, NEW W,
         \/ m.type = "ViewChange" /\ m.view <= r.view
         \/ m.type = "NewView" /\ m.view \in W
  PROVE  Tells(r, Broadcast(r, m, lost), H, W)
<1> DEFINE e == [msg |-> m, failed |-> Fails(m, lost)]
           o == r.outbox \cup {e}
           f == r.failed \/ Fails(m, lost)
           q == [r EXCEPT !.outbox = o, !.failed = f]
<1>1. Broadcast(r, m, lost) = q
  BY DEF Broadcast
<1>2. e.msg = m
  OBVIOUS
<1> HIDE DEF e, f
<1>3. q.viewChanges = r.viewChanges /\ q.outbox = o /\ q.id = r.id /\ q.view = r.view
  BY DEF ReplicaState
<1> HIDE DEF q
<1>4. q.view >= r.view
  BY <1>3, NamedViews
<1> QED  BY <1>1, <1>2, <1>3, <1>4 DEF Tells, OneEach

\* startViewChange announces the view that the replica has then come to.
LEMMA StartViewChangeTells ==
  ASSUME NEW r \in ReplicaState, NEW v \in Nat, NEW lost, NEW H, NEW W
  PROVE  LET q == StartViewChange(r, v, lost) IN
         /\ q \in ReplicaState
         /\ Tells(r, q, H, W)
         /\ q = r \/ (v > r.view /\ q.view = v /\ ~q.activeView)
         /\ \A x \in q.viewChanges : x \in r.viewChanges \/ x.msg.view = v
<1> DEFINE vc == ViewChangeFor(r, v)
           stopped == StopRequestTimer(r)
           left == [stopped EXCEPT !.view = v, !.activeView = FALSE]
           sent == Broadcast(left, vc, lost)
           done == RecordViewChangeReceipt(sent, r.id, vc)
<1>0. r.view \in Nat
  BY NamedViews
<1>1. CASE v <= r.view
  <2>1. StartViewChange(r, v, lost) = r
    BY <1>1 DEF StartViewChange
  <2> QED  BY <2>1, TellsReflexive
<1>2. CASE ~(v <= r.view)
  <2>1. vc \in ViewChange /\ vc \in Message /\ r.id \in Replica
    BY ViewChangeForType DEF ReplicaState
  <2>2. vc.type = "ViewChange" /\ vc.view = v
    BY DEF ViewChangeFor
  <2>3. stopped \in ReplicaState /\ stopped.id = r.id /\ Quiet(r, stopped)
    BY StopTimerKeeps, StopTimerQuiet DEF Keeps
  <2> HIDE DEF vc, stopped
  <2>4. /\ left \in ReplicaState /\ left.id = r.id /\ left.view = v /\ ~left.activeView
        /\ left.viewChanges = r.viewChanges
        /\ Quiet(r, left)
    BY <2>3 DEF ReplicaState, Quiet
  <2> HIDE DEF left
  <2>5. Tells(r, left, H, W)
    BY <1>0, <1>2, <2>4, QuietTells
  <2>6. Keeps(left, sent) /\ sent \in ReplicaState
    BY <2>1, <2>4, BroadcastKeeps DEF Keeps
  <2>7. Tells(left, sent, H, W)
    BY <2>1, <2>2, <2>4, BroadcastTells
  <2>8. sent.viewChanges = left.viewChanges
    BY <2>4 DEF Broadcast, ReplicaState
  <2>9. Tells(r, sent, H, W)
    BY <2>4, <2>5, <2>6, <2>7, TellsTransitive
  <2> HIDE DEF sent
  <2>10. sent.view = v /\ sent.id = r.id /\ ~sent.activeView
    BY <2>4, <2>6 DEF Keeps
  <2>11. Keeps(sent, done) /\ done \in ReplicaState
    BY <2>1, <2>6, RecordViewChangeKeeps DEF Keeps
  <2>12. Tells(sent, done, H, W)
    <3>1. vc.view <= sent.view /\ r.id = sent.id
      BY <2>2, <2>10
    <3> QED  BY <2>1, <2>6, <3>1, RecordViewChangeTells
  <2>13. \A x \in done.viewChanges : x \in r.viewChanges \/ x.msg.view = v
    BY <2>2, <2>4, <2>6, <2>8 DEF RecordViewChangeReceipt, ReplicaState
  <2>14. Tells(r, done, H, W)
    BY <2>6, <2>9, <2>11, <2>12, TellsTransitive
  <2> HIDE DEF done
  <2>15. done.view = v /\ ~done.activeView
    BY <2>10, <2>11 DEF Keeps
  <2>16. StartViewChange(r, v, lost) \in {sent, done}
    BY <1>2, Zenon DEF StartViewChange, done, sent, left, stopped, vc
  <2>17. v > r.view
    BY <1>0, <1>2
  <2> QED  BY <2>4, <2>6, <2>8, <2>9, <2>10, <2>11, <2>13, <2>14, <2>15, <2>16, <2>17
<1> QED  BY <1>1, <1>2

\* startNewView, for a view that has a quorum.
LEMMA StartNewViewTells ==
  ASSUME NEW r \in ReplicaState, NEW v \in Nat, v >= r.view, NEW lost, NEW H, NEW W, v \in W,
         NEW q \in StartNewView(r, v, lost)
  PROVE  q \in ReplicaState /\ Tells(r, q, H, W)
<1> DEFINE vc == ViewChangeFor(r, v)
           own == RecordViewChangeReceipt(r, r.id, vc)
           msgs == ViewChangesOf(own, v)
           newView(pps) == [type |-> "NewView", view |-> v, messages |-> msgs,
                            preprepares |-> pps]
           sent(pps) == Broadcast(own, newView(pps), lost)
<1>1. vc \in ViewChange /\ r.id \in Replica /\ r.view \in Nat
  BY ViewChangeForType DEF ReplicaState
<1>2. vc.view = v
  BY DEF ViewChangeFor
<1> HIDE DEF vc
<1>3. Keeps(r, own) /\ own \in ReplicaState
  BY <1>1, RecordViewChangeKeeps DEF Keeps
<1>4. Tells(r, own, H, W)
  BY <1>1, <1>2, RecordViewChangeTells
<1> HIDE DEF own
<1>5. msgs \in SUBSET ViewChangeReceipt
  BY <1>3 DEF ViewChangesOf, ReplicaState
<1> HIDE DEF msgs
<1>6. PICK pps \in GeneratePrePrepares(v, msgs) :
         q \in IF Fails(newView(pps), lost)
                 THEN {sent(pps)}
                 ELSE ProposeOutstanding(EnterOwnView(sent(pps), v, pps), lost)
  BY Zenon DEF StartNewView, own, msgs, vc
<1>7. pps \in Seq(PrePrepare) /\ \A m \in Range(pps) : m \in PrePrepare /\ m.view = v
  BY <1>5, GeneratePrePreparesType
<1>8. newView(pps) \in Message
  BY <1>5, <1>7 DEF NewView, Message
<1>9. newView(pps).type = "NewView" /\ newView(pps).view = v
  OBVIOUS
<1> DEFINE s == sent(pps)
           e == EnterOwnView(s, v, pps)
<1>10. q = s \/ q \in ProposeOutstanding(e, lost)
  BY <1>6, Zenon
<1> HIDE DEF newView
<1>11. Keeps(own, s) /\ s \in ReplicaState
  BY <1>3, <1>8, BroadcastKeeps DEF Keeps
<1>12. Tells(own, s, H, W)
  BY <1>3, <1>8, <1>9, BroadcastTells
<1>13. Tells(r, s, H, W)
  BY <1>3, <1>4, <1>11, <1>12, TellsTransitive
<1> HIDE DEF sent, s
<1>14. Enters(s, e, v)
  BY <1>7, <1>11, EnterOwnViewEnters
<1>15. Quiet(s, e)
  BY <1>7, <1>11, EnterOwnViewQuiet
<1>16. s.view = r.view
  BY <1>3, <1>11 DEF Keeps
<1> HIDE DEF e
<1>17. e \in ReplicaState /\ e.view = v /\ Tells(s, e, H, W)
  BY <1>1, <1>14, <1>15, <1>16, QuietTells DEF Enters
<1>18. ASSUME q \in ProposeOutstanding(e, lost)
       PROVE  q \in ReplicaState /\ Tells(r, q, H, W)
  <2>1. Within(e, q, e.view)
    BY <1>17, <1>18, ProposeOutstandingWithin
  <2>2. q \in ReplicaState /\ q.id = e.id /\ q.view >= e.view
    BY <2>1, <1>17 DEF Within
  <2>3. Tells(e, q, H, W)
    BY <1>17, <1>18, <2>2, ProposeOutstandingQuiet, QuietTells
  <2>4. Tells(r, e, H, W)
    BY <1>11, <1>13, <1>17, TellsTransitive
  <2> QED  BY <1>17, <2>2, <2>3, <2>4, TellsTransitive
<1> QED  BY <1>10, <1>11, <1>13, <1>18
-----------------------------------------------------------------------------
(* Counting view changes. *)

\* A cluster tolerates one Byzantine replica at least (core.go).
LEMMA ToleratesOne == F \in Nat /\ F >= 1
  BY ClusterAssumption DEF F, CalcByzantineTolerance, MinimumReplicaCount

\* Each receipt for a view is from another sender.
LEMMA SendersDiffer ==
  ASSUME NEW r \in ReplicaState, OneEach(r), NEW v, NEW S \in SUBSET Replica,
         NEW T \in SUBSET ViewChangesOf(r, v), \A x \in T : x.from \in S
  PROVE  IsFiniteSet(T) /\ Cardinality(T) <= Cardinality(S) /\ Cardinality(S) \in Nat
<1> DEFINE f == [x \in T |-> x.from]
<1>1. f \in [T -> S]
  OBVIOUS
<1>2. \A x \in T : x \in r.viewChanges /\ x.msg.view = v
  BY DEF ViewChangesOf
<1>3. \A x, y \in T : x.from = y.from => x = y
  BY <1>2 DEF OneEach
<1>4. f \in Injection(T, S)
  <2>1. \A x \in T : f[x] = x.from
    OBVIOUS
  <2>2. \A x, y \in T : f[x] = f[y] => x = y
    BY <1>3, <2>1
  <2> HIDE DEF f
  <2> QED  BY <1>1, <2>2 DEF Injection, IsInjective
<1>5. IsFiniteSet(Replica)
  BY ClusterAssumption, FS_Interval DEF Replica
<1>6. IsFiniteSet(S)
  BY <1>5, FS_Subset
<1> HIDE DEF f
<1> QED  BY <1>4, <1>6, FS_Injection, FS_CardinalityType

\* 2f+1 receipts for a view come from 2f+1 replicas.
LEMMA QuorumOfSenders ==
  ASSUME NEW r \in ReplicaState, OneEach(r), NEW v, ViewChangeReady(r, v),
         NEW S \in SUBSET Replica, \A x \in ViewChangesOf(r, v) : x.from \in S
  PROVE  Cardinality(S) >= CommitQuorum
<1>1. /\ IsFiniteSet(ViewChangesOf(r, v))
      /\ Cardinality(ViewChangesOf(r, v)) <= Cardinality(S) /\ Cardinality(S) \in Nat
  BY SendersDiffer
<1>2. Cardinality(ViewChangesOf(r, v)) \in Nat /\ CommitQuorum \in Nat
  BY <1>1, ToleratesOne, FS_CardinalityType DEF CommitQuorum
<1> QED  BY <1>1, <1>2 DEF ViewChangeReady

\* Among 2f+1 receipts for a view f+1 are from others, so a replica in an earlier
\* view may join that view change.
LEMMA ReadyIsJoinable ==
  ASSUME NEW r \in ReplicaState, OneEach(r), NEW v \in Nat, v > r.view, ViewChangeReady(r, v)
  PROVE  v \in JoinableViews(r)
<1> DEFINE T == ViewChangesOf(r, v)
           U == {x \in T : x.from # r.id}
<1>1. IsFiniteSet(T)
  <2>1. \A x \in T : x.from \in Replica
    BY NamedViews DEF ViewChangesOf
  <2> QED  BY <2>1, SendersDiffer
<1>2. Cardinality(T) >= 2 * F + 1 /\ Cardinality(T) \in Nat
  BY <1>1, FS_CardinalityType DEF ViewChangeReady, CommitQuorum
<1>3. Cardinality(U) >= F + 1
  <2>1. CASE U = T
    <3> HIDE DEF U, T
    <3> QED  BY <1>2, <2>1, ToleratesOne
  <2>2. CASE U # T
    <3>1. PICK x \in T : x.from = r.id
      BY <2>2
    <3>2. \A y \in T : y.from = r.id => y = x
      BY <3>1 DEF OneEach, ViewChangesOf
    <3>3. U = T \ {x}
      BY <3>1, <3>2
    <3>4. Cardinality(U) = Cardinality(T) - 1
      BY <1>1, <3>1, <3>3, FS_RemoveElement
    <3> HIDE DEF U, T
    <3> QED  BY <1>2, <3>4, ToleratesOne
  <2> QED  BY <2>1, <2>2
<1>4. U = {x \in ViewChangesOf(r, v) : x.from # r.id}
  OBVIOUS
<1>5. \E x \in r.viewChanges : x.msg.view = v
  <2>1. T # {}
    <3> HIDE DEF T
    <3> SUFFICES ASSUME T = {} PROVE FALSE
      OBVIOUS
    <3>1. Cardinality(T) = 0
      BY FS_EmptySet
    <3> QED  BY <1>2, <3>1, ToleratesOne
  <2> QED  BY <2>1 DEF ViewChangesOf
<1> HIDE DEF U, T
<1> QED  BY <1>3, <1>4, <1>5 DEF JoinableViews

\* A replica that finds a quorum for a later view has joined that view change, or
\* one for a view before it.
LEMMA JoinsNoLaterView ==
  ASSUME NEW r \in ReplicaState, OneEach(r), NEW v \in Nat, v >= r.view,
         ~(v = r.view /\ r.activeView), NEW lost,
         ViewChangeReady(MaybeJoinViewChange(r, lost), v)
  PROVE  MaybeJoinViewChange(r, lost).view <= v
<1> DEFINE joined == MaybeJoinViewChange(r, lost)
           k == CHOOSE w \in SmallestJoinableViews(r) : TRUE
<1>1. r.view \in Nat
  BY NamedViews
<1>2. CASE ~(r.activeView /\ SmallestJoinableViews(r) # {})
  <2>1. joined = r
    BY <1>2, Zenon DEF MaybeJoinViewChange
  <2> QED  BY <1>1, <2>1
<1>3. CASE r.activeView /\ SmallestJoinableViews(r) # {}
  <2>1. joined = StartViewChange(r, k, lost)
    BY <1>3, Zenon DEF MaybeJoinViewChange
  <2>2. k \in SmallestJoinableViews(r)
    BY <1>3
  <2> HIDE DEF k
  <2>3. k \in JoinableViews(r) /\ \A w \in JoinableViews(r) : k <= w
    BY <2>2 DEF SmallestJoinableViews
  <2>4. k \in Nat
    BY <2>3, NamedViews DEF JoinableViews
  <2>5. /\ joined = r \/ joined.view = k
        /\ \A x \in joined.viewChanges : x \in r.viewChanges \/ x.msg.view = k
    BY <2>1, <2>4, StartViewChangeTells
  <2> HIDE DEF joined
  <2>6. ASSUME joined = r \/ k = v PROVE joined.view <= v
    BY <1>1, <2>4, <2>5, <2>6
  <2>7. ASSUME k # v PROVE joined.view <= v
    <3> DEFINE T == ViewChangesOf(r, v)
    <3>1. ViewChangesOf(joined, v) \in SUBSET T
      BY <2>5, <2>7 DEF ViewChangesOf
    <3>2. IsFiniteSet(T)
      <4>1. \A x \in T : x.from \in Replica
        BY NamedViews DEF ViewChangesOf
      <4> QED  BY <4>1, SendersDiffer
    <3>3. Cardinality(T) >= CommitQuorum
      <4>1. Cardinality(ViewChangesOf(joined, v)) <= Cardinality(T)
        BY <3>1, <3>2, FS_Subset
      <4>2. Cardinality(ViewChangesOf(joined, v)) \in Nat /\ Cardinality(T) \in Nat
        BY <3>1, <3>2, FS_Subset, FS_CardinalityType
      <4> QED  BY <4>1, <4>2, ToleratesOne DEF ViewChangeReady, CommitQuorum, joined
    <3>4. v > r.view
      BY <1>1, <1>3
    <3>5. v \in JoinableViews(r)
      BY <3>3, <3>4, ReadyIsJoinable DEF ViewChangeReady
    <3>6. k <= v
      BY <2>3, <3>5
    <3> QED  BY <1>1, <2>4, <2>5, <3>6
  <2> QED  BY <2>6, <2>7 DEF joined
<1> QED  BY <1>2, <1>3

-----------------------------------------------------------------------------
(* What a method does to the view. *)

\* It leaves the view alone, or leaves it for a later one, or enters one of the
\* views in W, or counts it up at a Byzantine replica.
Moves(r, q, W) ==
    \/ q.view = r.view /\ q.activeView = r.activeView
    \/ q.view > r.view /\ ~q.activeView
    \/ q.view \in W
    \/ r.id \in Byzantine /\ q.view = r.view + 1 /\ q.activeView = r.activeView

\* The handler of a view change stops short of a new view, or starts one for
\* which it holds 2f+1 receipts.
LEMMA ProcessViewChangeTells ==
  ASSUME NEW r \in ReplicaState, OneEach(r), NEW from \in Replica, NEW m \in ViewChange,
         NEW lost, NEW q \in ProcessViewChange(r, from, m, lost),
         NEW H, [from |-> from, msg |-> m] \in H
  PROVE  \/ Tells(r, q, H, {}) /\ Moves(r, q, {})
         \/ /\ Tells(r, q, H, {m.view}) /\ Moves(r, q, {m.view})
            /\ \E j \in ReplicaState :
                  Tells(r, j, H, {}) /\ j.view <= q.view /\ ViewChangeReady(j, m.view)
<1> DEFINE recorded == RecordViewChangeReceipt(r, from, m)
           joined == MaybeJoinViewChange(recorded, lost)
           W == {m.view}
<1>1. m.view \in Nat /\ r.view \in Nat /\ r.activeView \in BOOLEAN
  BY DEF ViewChange, ReplicaState
<1>2. Keeps(r, recorded) /\ recorded \in ReplicaState
  BY RecordViewChangeKeeps DEF Keeps
<1>3. \A X : Tells(r, recorded, H, X)
  BY RecordViewChangeTells
<1>4. OneEach(recorded)
  BY <1>3 DEF Tells
<1> HIDE DEF recorded
<1>5. /\ joined \in ReplicaState
      /\ \A X : Tells(recorded, joined, H, X)
      /\ joined = recorded \/ (joined.view > recorded.view /\ ~joined.activeView)
  <2>1. CASE ~(recorded.activeView /\ SmallestJoinableViews(recorded) # {})
    <3>1. joined = recorded
      BY <2>1, Zenon DEF MaybeJoinViewChange
    <3> QED  BY <1>2, <3>1, TellsReflexive
  <2>2. CASE recorded.activeView /\ SmallestJoinableViews(recorded) # {}
    <3> DEFINE k == CHOOSE w \in SmallestJoinableViews(recorded) : TRUE
    <3>1. joined = StartViewChange(recorded, k, lost)
      BY <2>2, Zenon DEF MaybeJoinViewChange
    <3>2. k \in Nat
      BY <1>2, <2>2, NamedViews DEF SmallestJoinableViews, JoinableViews
    <3> HIDE DEF k
    <3> QED  BY <1>2, <3>1, <3>2, StartViewChangeTells
  <2> QED  BY <2>1, <2>2
<1>6. joined.view <= m.view \/ ~ViewChangeReady(joined, m.view)
       \/ m.view < r.view \/ (m.view = r.view /\ r.activeView)
  BY <1>1, <1>2, <1>4, JoinsNoLaterView DEF Keeps
<1> HIDE DEF joined
<1>7. \A X : Tells(r, joined, H, X)
  BY <1>2, <1>3, <1>5, TellsTransitive
<1>8. Moves(r, recorded, {}) /\ Moves(r, joined, {})
  BY <1>2, <1>5 DEF Keeps, Moves
<1>9. \/ q = r \/ q = recorded \/ q = joined
      \/ /\ q \in StartNewView(joined, m.view, lost)
         /\ ViewChangeReady(joined, m.view)
         /\ joined.view <= m.view
  <2>1. CASE m.view < r.view \/ ~ValidViewChange(m)
    BY <2>1 DEF ProcessViewChange
  <2>2. CASE ~(m.view < r.view \/ ~ValidViewChange(m))
    BY <1>1, <1>6, <2>2 DEF ProcessViewChange, recorded, joined
  <2> QED  BY <2>1, <2>2
<1>10. CASE q = r
  BY <1>10, TellsReflexive DEF Moves
<1>11. CASE q = recorded \/ q = joined
  BY <1>3, <1>7, <1>8, <1>11
<1>12. CASE /\ q \in StartNewView(joined, m.view, lost)
            /\ ViewChangeReady(joined, m.view)
            /\ joined.view <= m.view
  <2>1. joined.view \in Nat
    BY <1>5, NamedViews
  <2>2. q \in ReplicaState /\ Tells(joined, q, H, W)
    BY <1>1, <1>5, <1>12, <2>1, StartNewViewTells
  <2>3. Tells(r, q, H, W)
    BY <1>5, <1>7, <2>2, TellsTransitive
  <2>4. joined.view <= q.view
    BY <2>1, <2>2, NamedViews DEF Tells
  <2>5. Keeps(joined, q) \/ Enters(joined, q, m.view)
    BY <1>1, <1>5, <1>12, StartNewViewEnters
  <2>6. Moves(r, q, W)
    BY <1>8, <2>5 DEF Keeps, Enters, Moves
  <2> QED  BY <1>5, <1>7, <1>12, <2>3, <2>4, <2>6
<1> QED  BY <1>9, <1>10, <1>11, <1>12
-----------------------------------------------------------------------------
(* Steps of the cluster. *)

\* A view has a quorum when 2f+1 replicas have come to it or further.
ReachedIn(rs, v) == Cardinality({j \in Replica : rs[j].view >= v}) >= CommitQuorum

\* What is under way about views is true: the sender of a ViewChange has come to
\* its view, and the view of a NewView has a quorum.
NetTrue ==
    \A e \in net : /\ e.msg.type = "ViewChange" => replica[e.from].view >= e.msg.view
                   /\ e.msg.type = "NewView" => ReachedIn(replica, e.msg.view)

\* So is what a replica has received.  Its own receipt in a NewView that it could
\* not broadcast may be for a view it never came to, but that view has a quorum.
ReceiptsTrue ==
    \A i \in Replica : \A x \in replica[i].viewChanges :
       replica[x.from].view >= x.msg.view \/ ReachedIn(replica, x.msg.view)

OneReceipt == \A i \in Replica : OneEach(replica[i])

\* What the cluster says about views.
Truth == NetTrue /\ ReceiptsTrue /\ OneReceipt

\* The views that have a quorum after a step.
ReachedNext == {v \in Nat : ReachedIn(replica', v)}

\* Replica i takes a step of its view, and the others none.
ViewMove(i) ==
    /\ \A j \in Replica \ {i} : replica'[j] = replica[j]
    /\ Moves(replica[i], replica'[i], ReachedNext)

\* Views only grow, so a view does not lose its quorum.
LEMMA ReachedStays ==
  ASSUME TypeOK, TypeOK', ReplicasStep, NEW v \in Nat, ReachedIn(replica, v)
  PROVE  ReachedIn(replica', v)
<1> DEFINE S == {j \in Replica : replica[j].view >= v}
           T == {j \in Replica : replica'[j].view >= v}
<1>1. IsFiniteSet(Replica)
  BY ClusterAssumption, FS_Interval DEF Replica
<1>2. \A j \in Replica : /\ replica[j].view \in Nat /\ replica'[j].view \in Nat
                         /\ replica'[j].view >= replica[j].view
  BY NamedViews DEF TypeOK, ReplicasStep, ViewStep
<1>3. S \in SUBSET T
  BY <1>2
<1>4. IsFiniteSet(T)
  BY <1>1, FS_Subset
<1>5. Cardinality(S) <= Cardinality(T) /\ Cardinality(S) \in Nat /\ Cardinality(T) \in Nat
  BY <1>3, <1>4, FS_Subset, FS_CardinalityType
<1>6. CommitQuorum \in Nat
  BY ToleratesOne DEF CommitQuorum
<1> QED  BY <1>5, <1>6 DEF ReachedIn

\* What a replica says truly keeps the cluster's word.
LEMMA TellsTruth ==
  ASSUME TypeOK, TypeOK', ReplicasStep, Truth, NEW i \in Replica, NEW q \in ReplicaState,
         NEW H, \A x \in H : x.from \in Replica /\ replica[x.from].view >= x.msg.view,
         Tells(replica[i], q, H, ReachedNext),
         replica'[i].viewChanges = q.viewChanges,
         replica'[i].view = q.view,
         \A j \in Replica \ {i} : replica'[j] = replica[j],
         \A e \in net' : e \in net \/ (e.from = i /\ \E o \in q.outbox : e.msg = o.msg)
  PROVE  Truth'
<1> DEFINE r == replica[i]
<1>1. r \in ReplicaState /\ r.id = i /\ r.outbox = {}
  BY DEF TypeOK
<1>2. \A j \in Replica : /\ replica[j].view \in Nat /\ replica'[j].view \in Nat
                         /\ replica'[j].view >= replica[j].view
  BY NamedViews DEF TypeOK, ReplicasStep, ViewStep
<1>3. \A e \in net : e.from \in Replica /\ e.msg.view \in Nat
  BY DEF TypeOK, Envelope, Message, PrePrepare, Prepare, Commit, ViewChange, NewView
<1>4. \A o \in q.outbox : o.msg.view \in Nat
  BY NamedViews
<1>5. \A j \in Replica : \A x \in replica[j].viewChanges : x.from \in Replica /\ x.msg.view \in Nat
  BY NamedViews DEF TypeOK
<1>6. \A x \in q.viewChanges : x.from \in Replica /\ x.msg.view \in Nat
  BY NamedViews
<1>7. \A v \in Nat : ReachedIn(replica, v) => ReachedIn(replica', v)
  BY ReachedStays
<1>8. \A v \in ReachedNext : ReachedIn(replica', v)
  BY DEF ReachedNext
<1>9. NetTrue'
  <2> SUFFICES ASSUME NEW e \in net'
               PROVE  /\ e.msg.type = "ViewChange" => replica'[e.from].view >= e.msg.view
                      /\ e.msg.type = "NewView" => ReachedIn(replica', e.msg.view)
    BY DEF NetTrue
  <2>1. CASE e \in net
    <3>1. e.msg.type = "ViewChange" => replica[e.from].view >= e.msg.view
      BY <2>1 DEF Truth, NetTrue
    <3>2. e.msg.type = "NewView" => ReachedIn(replica, e.msg.view)
      BY <2>1 DEF Truth, NetTrue
    <3>3. e.from \in Replica /\ e.msg.view \in Nat
      BY <1>3, <2>1
    <3> QED  BY <1>2, <1>7, <3>1, <3>2, <3>3
  <2>2. ASSUME e.from = i, NEW o \in q.outbox, e.msg = o.msg
        PROVE  /\ e.msg.type = "ViewChange" => replica'[e.from].view >= e.msg.view
               /\ e.msg.type = "NewView" => ReachedIn(replica', e.msg.view)
    <3>1. \/ o.msg.type \in NormalCase
          \/ o.msg.type = "ViewChange" /\ o.msg.view <= q.view
          \/ o.msg.type = "NewView" /\ o.msg.view \in ReachedNext
      BY <1>1 DEF Tells
    <3>2. o.msg.view \in Nat /\ q.view \in Nat
      BY <1>4, NamedViews
    <3> QED  BY <1>8, <2>2, <3>1, <3>2 DEF NormalCase
  <2> QED  BY <2>1, <2>2
<1>10. ReceiptsTrue'
  <2> SUFFICES ASSUME NEW j \in Replica, NEW x \in replica'[j].viewChanges
               PROVE  replica'[x.from].view >= x.msg.view \/ ReachedIn(replica', x.msg.view)
    BY DEF ReceiptsTrue
  <2>1. ASSUME x \in replica[j].viewChanges
        PROVE  replica'[x.from].view >= x.msg.view \/ ReachedIn(replica', x.msg.view)
    <3>1. replica[x.from].view >= x.msg.view \/ ReachedIn(replica, x.msg.view)
      BY <2>1 DEF Truth, ReceiptsTrue
    <3>2. x.from \in Replica /\ x.msg.view \in Nat
      BY <1>5, <2>1
    <3> QED  BY <1>2, <1>7, <3>1, <3>2
  <2>2. CASE j # i
    BY <2>1, <2>2
  <2>3. CASE j = i
    <3>1. \/ x \in r.viewChanges
          \/ x \in H
          \/ x.from = i /\ x.msg.view <= q.view
          \/ x.msg.view \in ReachedNext
      BY <1>1, <2>3 DEF Tells
    <3>2. x.from \in Replica /\ x.msg.view \in Nat /\ q.view \in Nat
      BY <1>6, <2>3, NamedViews
    <3>3. CASE x \in H
      <4>1. replica[x.from].view >= x.msg.view
        BY <3>3
      <4> QED  BY <1>2, <3>2, <4>1
    <3> QED  BY <1>8, <2>1, <2>3, <3>1, <3>2, <3>3
  <2> QED  BY <2>2, <2>3
<1>11. OneReceipt'
  <2>1. OneEach(r)
    BY DEF Truth, OneReceipt
  <2>2. OneEach(q)
    BY <2>1 DEF Tells
  <2> QED  BY <2>2 DEF Truth, OneReceipt, OneEach
<1> QED  BY <1>9, <1>10, <1>11 DEF Truth

\* Running a method: what is in its outbox is sent in the replica's name.
LEMMA RunSends ==
  ASSUME TypeOK, NEW i \in Replica, NEW q \in ReplicaState, q.id = i, NEW consumed,
         Run(q, consumed)
  PROVE  /\ replica'[i].viewChanges = q.viewChanges
         /\ replica'[i].view = q.view
         /\ replica'[i].activeView = q.activeView
         /\ \A j \in Replica \ {i} : replica'[j] = replica[j]
         /\ \A e \in net' : e \in net \/ (e.from = i /\ \E o \in q.outbox : e.msg = o.msg)
<1>1. replica' = [replica EXCEPT ![i] = Returned(q)]
  BY DEF Run
<1>2. /\ Returned(q).viewChanges = q.viewChanges
      /\ Returned(q).view = q.view
      /\ Returned(q).activeView = q.activeView
  BY DEF Returned, ReplicaState
<1>3. \A e \in Posted(q) : e.from = i /\ \E o \in q.outbox : e.msg = o.msg
  BY DEF Posted
<1> QED  BY <1>1, <1>2, <1>3, RunPosts DEF TypeOK

\* A method that tells the truth and moves as it may is a step as it should be.
LEMMA RunTells ==
  ASSUME TypeOK, TypeOK', ReplicasStep, Truth, NEW i \in Replica, NEW q \in ReplicaState,
         NEW H, \A x \in H : x.from \in Replica /\ replica[x.from].view >= x.msg.view,
         NEW consumed, Run(q, consumed),
         Tells(replica[i], q, H, ReachedNext), Moves(replica[i], q, ReachedNext)
  PROVE  Truth' /\ ViewMove(i)
<1>1. q.id = i
  BY DEF TypeOK, Tells
<1>2. /\ replica'[i].viewChanges = q.viewChanges
      /\ replica'[i].view = q.view
      /\ replica'[i].activeView = q.activeView
      /\ \A j \in Replica \ {i} : replica'[j] = replica[j]
      /\ \A e \in net' : e \in net \/ (e.from = i /\ \E o \in q.outbox : e.msg = o.msg)
  BY <1>1, RunSends
<1>3. Truth'
  BY <1>2, TellsTruth
<1>4. ViewMove(i)
  BY <1>2 DEF ViewMove, Moves
<1> QED  BY <1>3, <1>4

\* A quiet method that stays in its view is such a step.
LEMMA RunQuiet ==
  ASSUME TypeOK, TypeOK', ReplicasStep, Truth, NEW i \in Replica, NEW q \in ReplicaState,
         NEW consumed, Run(q, consumed), Quiet(replica[i], q),
         q.id = i, q.view = replica[i].view, q.activeView = replica[i].activeView
  PROVE  Truth' /\ ViewMove(i)
<1>1. replica[i].id = i /\ replica[i].view \in Nat
  BY NamedViews DEF TypeOK
<1>2. Tells(replica[i], q, {}, ReachedNext)
  BY <1>1, QuietTells
<1>3. Moves(replica[i], q, ReachedNext)
  BY DEF Moves
<1> QED  BY <1>2, <1>3, RunTells

\* A message's ViewChange, once received, is a receipt; it tells the truth.
LEMMA ReceiveViewChangeMove ==
  ASSUME Inv, Truth, TypeOK', ReplicasStep, NEW e \in net, ReceiveViewChange(e)
  PROVE  Truth' /\ \E i \in Replica : ViewMove(i)
<1> DEFINE i == e.to
           r == replica[i]
           m == e.msg
           x == [from |-> e.from, msg |-> m]
           H == {x}
<1>0. TypeOK
  BY DEF Inv
<1>1. i \in Replica /\ e.from \in Replica /\ r \in ReplicaState /\ r.id = i /\ m \in ViewChange
  BY <1>0, MessageTypes DEF ReceiveViewChange, TypeOK
<1>2. OneEach(r)
  BY <1>1 DEF Truth, OneReceipt
<1>3. PICK lost : \E q \in IF Taken(e) THEN ProcessViewChange(r, e.from, m, lost) ELSE {r} :
                     Run(q, {e})
  BY DEF ReceiveViewChange
<1>4. PICK q \in IF Taken(e) THEN ProcessViewChange(r, e.from, m, lost) ELSE {r} : Run(q, {e})
  BY <1>3
<1>5. q = r \/ q \in ProcessViewChange(r, e.from, m, lost)
  BY <1>4
<1>6. ViewStep(r, q) /\ q \in ReplicaState
  BY <1>1, <1>5, ProcessViewChangeStep, KeepsReflexive, KeepsStep DEF ViewStep
<1>7. \A y \in H : y.from \in Replica /\ replica[y.from].view >= y.msg.view
  <2>1. replica[e.from].view >= m.view
    BY DEF Truth, NetTrue, ReceiveViewChange
  <2> QED  BY <1>1, <2>1
<1>8. x \in H
  OBVIOUS
<1> HIDE DEF H
<1>9. ASSUME Tells(r, q, H, {}), Moves(r, q, {})
      PROVE  Truth' /\ ViewMove(i)
  <2>1. Tells(r, q, H, ReachedNext) /\ Moves(r, q, ReachedNext)
    BY <1>9 DEF Tells, Moves
  <2> QED  BY <1>0, <1>1, <1>4, <1>6, <1>7, <2>1, RunTells
<1>10. ASSUME Tells(r, q, H, {m.view}), Moves(r, q, {m.view}), NEW j \in ReplicaState,
              Tells(r, j, H, {}), j.view <= q.view, ViewChangeReady(j, m.view)
       PROVE  Truth' /\ ViewMove(i)
  <2> DEFINE S == {k \in Replica : replica'[k].view >= m.view}
  <2>1. m.view \in Nat /\ q.view \in Nat /\ j.view \in Nat
    BY <1>1, <1>6, NamedViews DEF ViewChange
  <2>2. \A k \in Replica : /\ replica[k].view \in Nat /\ replica'[k].view \in Nat
                           /\ replica'[k].view >= replica[k].view
    BY <1>0, NamedViews DEF TypeOK, ReplicasStep, ViewStep
  <2>3. replica'[i].view = q.view
    BY <1>0, <1>1, <1>4, <1>6, RunSends DEF ViewStep
  <2>4. ReachedIn(replica', m.view)
    <3>1. CASE ReachedIn(replica, m.view)
      BY <1>0, <2>1, <3>1, ReachedStays
    <3>2. CASE ~ReachedIn(replica, m.view)
      <4>1. ASSUME NEW y \in ViewChangesOf(j, m.view)
            PROVE  y.from \in S
        <5>1. y \in j.viewChanges /\ y.msg.view = m.view /\ y.from \in Replica
          BY NamedViews DEF ViewChangesOf
        <5>2. \/ y \in r.viewChanges
              \/ y \in H
              \/ y.from = i /\ m.view <= j.view
          BY <1>1, <1>10, <5>1 DEF Tells
        <5>3. CASE y \in r.viewChanges
          <6>1. replica[y.from].view >= m.view
            BY <1>1, <3>2, <5>1, <5>3 DEF Truth, ReceiptsTrue
          <6> QED  BY <2>1, <2>2, <5>1, <6>1
        <5>4. CASE y \in H
          <6>1. replica[y.from].view >= m.view
            BY <1>7, <5>1, <5>4
          <6> QED  BY <2>1, <2>2, <5>1, <6>1
        <5>5. CASE y.from = i /\ m.view <= j.view
          BY <1>10, <2>1, <2>3, <5>1, <5>5
        <5> QED  BY <5>2, <5>3, <5>4, <5>5
      <4>2. OneEach(j) /\ S \in SUBSET Replica
        BY <1>2, <1>10 DEF Tells
      <4> HIDE DEF S
      <4>3. Cardinality(S) >= CommitQuorum
        BY <1>10, <4>1, <4>2, QuorumOfSenders
      <4> QED  BY <4>3 DEF ReachedIn, S
    <3> QED  BY <3>1, <3>2
  <2>5. {m.view} \subseteq ReachedNext
    BY <2>1, <2>4 DEF ReachedNext
  <2>6. Tells(r, q, H, ReachedNext) /\ Moves(r, q, ReachedNext)
    BY <1>10, <2>5 DEF Tells, Moves
  <2> QED  BY <1>0, <1>1, <1>4, <1>6, <1>7, <2>6, RunTells
<1>11. CASE q = r
  <2>1. Tells(r, q, H, {}) /\ Moves(r, q, {})
    BY <1>1, <1>11, TellsReflexive DEF Moves
  <2> QED  BY <1>1, <1>9, <2>1
<1>12. CASE q \in ProcessViewChange(r, e.from, m, lost)
  <2>1. \/ Tells(r, q, H, {}) /\ Moves(r, q, {})
        \/ /\ Tells(r, q, H, {m.view}) /\ Moves(r, q, {m.view})
           /\ \E j \in ReplicaState :
                 Tells(r, j, H, {}) /\ j.view <= q.view /\ ViewChangeReady(j, m.view)
    BY <1>1, <1>2, <1>8, <1>12, ProcessViewChangeTells
  <2> QED  BY <1>1, <1>9, <1>10, <2>1
<1> QED  BY <1>5, <1>11, <1>12

\* A NewView on the way is for a view that has a quorum.
LEMMA ReceiveNewViewMove ==
  ASSUME Inv, Truth, TypeOK', ReplicasStep, NEW e \in net, ReceiveNewView(e)
  PROVE  Truth' /\ \E i \in Replica : ViewMove(i)
<1> DEFINE i == e.to
           r == replica[i]
           m == e.msg
<1>0. TypeOK
  BY DEF Inv
<1>1. i \in Replica /\ e.from \in Replica /\ r \in ReplicaState /\ r.id = i /\ m \in NewView
  BY <1>0, MessageTypes DEF ReceiveNewView, TypeOK
<1>2. PICK lost : Run(IF Taken(e) THEN ProcessNewView(r, e.from, m, lost) ELSE r, {e})
  BY DEF ReceiveNewView
<1> DEFINE q == IF Taken(e) THEN ProcessNewView(r, e.from, m, lost) ELSE r
<1>3. ViewStep(r, q) /\ q \in ReplicaState
  BY <1>1, ProcessNewViewStep, KeepsReflexive, KeepsStep DEF ViewStep
<1>4. Quiet(r, q) /\ ((q.view = r.view /\ q.activeView = r.activeView) \/ q.view = m.view)
  BY <1>1, ProcessNewViewQuiet, QuietReflexive
<1>5. Run(q, {e})
  BY <1>2
<1> HIDE DEF q
<1>6. m.view \in ReachedNext
  <2>1. m.view \in Nat
    BY <1>1 DEF NewView
  <2>2. ReachedIn(replica, m.view)
    BY DEF Truth, NetTrue, ReceiveNewView
  <2> QED  BY <1>0, <2>1, <2>2, ReachedStays DEF ReachedNext
<1>7. Tells(r, q, {}, ReachedNext)
  BY <1>3, <1>4, QuietTells DEF ViewStep
<1>8. Moves(r, q, ReachedNext)
  BY <1>4, <1>6 DEF Moves
<1> QED  BY <1>0, <1>1, <1>3, <1>5, <1>7, <1>8, RunTells

\* The handlers of the normal case say nothing about views and stay in theirs.
LEMMA ReceiveNormalMove ==
  ASSUME Inv, Truth, TypeOK', ReplicasStep, NEW e \in net,
         ReceivePrePrepare(e) \/ ReceivePrepare(e) \/ ReceiveCommit(e)
  PROVE  Truth' /\ \E i \in Replica : ViewMove(i)
<1> DEFINE i == e.to
           r == replica[i]
           m == e.msg
<1>0. TypeOK
  BY DEF Inv
<1>1. i \in Replica /\ e.from \in Replica /\ r \in ReplicaState /\ r.id = i
  BY <1>0, MessageTypes DEF TypeOK
<1>2. ASSUME NEW q, Within(r, q, r.view) \/ q = r, Quiet(r, q), Run(q, {e})
      PROVE  Truth' /\ \E k \in Replica : ViewMove(k)
  <2>1. q \in ReplicaState /\ q.id = i /\ q.view = r.view /\ q.activeView = r.activeView
    BY <1>1, <1>2 DEF Within
  <2> QED  BY <1>0, <1>1, <1>2, <2>1, RunQuiet
<1>3. ASSUME ReceivePrePrepare(e) PROVE Truth' /\ \E k \in Replica : ViewMove(k)
  <2>1. PICK lost : Run(IF Taken(e) THEN ProcessPrePrepare(r, e.from, m, lost) ELSE r, {e})
    BY <1>3 DEF ReceivePrePrepare
  <2>2. m \in PrePrepare
    BY <1>0, <1>3, MessageTypes DEF ReceivePrePrepare
  <2> DEFINE q == IF Taken(e) THEN ProcessPrePrepare(r, e.from, m, lost) ELSE r
  <2>3. Within(r, q, r.view) \/ q = r
    BY <1>1, <2>2, ProcessPrePrepareWithin
  <2>4. Quiet(r, q)
    BY <1>1, <2>2, ProcessPrePrepareQuiet, QuietReflexive
  <2> QED  BY <1>2, <2>1, <2>3, <2>4
<1>4. ASSUME ReceivePrepare(e) PROVE Truth' /\ \E k \in Replica : ViewMove(k)
  <2>1. PICK lost : Run(IF Taken(e) THEN ProcessPrepare(r, e.from, m, lost) ELSE r, {e})
    BY <1>4 DEF ReceivePrepare
  <2>2. m \in Prepare
    BY <1>0, <1>4, MessageTypes DEF ReceivePrepare
  <2> DEFINE q == IF Taken(e) THEN ProcessPrepare(r, e.from, m, lost) ELSE r
  <2>3. Within(r, q, r.view) \/ q = r
    BY <1>1, <2>2, ProcessPrepareWithin
  <2>4. Quiet(r, q)
    BY <1>1, <2>2, ProcessPrepareQuiet, QuietReflexive
  <2> QED  BY <1>2, <2>1, <2>3, <2>4
<1>5. ASSUME ReceiveCommit(e) PROVE Truth' /\ \E k \in Replica : ViewMove(k)
  <2>1. PICK lost : Run(IF Taken(e) THEN ProcessCommit(r, e.from, m, lost) ELSE r, {e})
    BY <1>5 DEF ReceiveCommit
  <2>2. m \in Commit
    BY <1>0, <1>5, MessageTypes DEF ReceiveCommit
  <2> DEFINE q == IF Taken(e) THEN ProcessCommit(r, e.from, m, lost) ELSE r
  <2>3. Within(r, q, r.view) \/ q = r
    BY <1>1, <2>2, ProcessCommitWithin
  <2>4. Quiet(r, q)
    BY <1>1, <2>2, ProcessCommitQuiet, QuietReflexive
  <2> QED  BY <1>2, <2>1, <2>3, <2>4
<1> QED  BY <1>3, <1>4, <1>5

\* A timer that expires says nothing,
LEMMA TimerExpiresMove ==
  ASSUME Inv, Truth, TypeOK', ReplicasStep, NEW i \in Replica, TimerExpires(i)
  PROVE  Truth' /\ ViewMove(i)
<1> DEFINE r == replica[i]
           q == replica'[i]
<1>0. TypeOK
  BY DEF Inv
<1>1. r \in ReplicaState /\ r.id = i /\ r.view \in Nat
  BY <1>0, NamedViews DEF TypeOK
<1>2. /\ q.viewChanges = r.viewChanges /\ q.view = r.view /\ q.activeView = r.activeView
      /\ q.outbox = r.outbox /\ q.id = r.id
      /\ \A j \in Replica \ {i} : replica'[j] = replica[j]
  BY <1>0, <1>1 DEF TimerExpires, TypeOK, ReplicaState
<1>3. q \in ReplicaState /\ net' = net
  BY DEF TypeOK, TimerExpires
<1>4. Tells(r, q, {}, ReachedNext)
  BY <1>1, <1>2, QuietTells DEF Quiet
<1>5. Truth'
  BY <1>0, <1>2, <1>3, <1>4, TellsTruth
<1>6. ViewMove(i)
  BY <1>2 DEF ViewMove, Moves
<1> QED  BY <1>5, <1>6

\* ... its callback may start a view change,
LEMMA TimerCallbackMove ==
  ASSUME Inv, Truth, TypeOK', ReplicasStep, NEW i \in Replica, NEW v \in 1 .. MaxView,
         TimerCallback(i, v)
  PROVE  Truth' /\ ViewMove(i)
<1> DEFINE r == replica[i]
           taken == [r EXCEPT !.callbacks = @ \ {v}]
<1>0. TypeOK
  BY DEF Inv
<1>1. r \in ReplicaState /\ r.id = i /\ r.view \in Nat /\ v \in Nat
  BY <1>0, NamedViews, BoundAssumption DEF TypeOK
<1>2. PICK lost : Run(StartViewChange(taken, v, lost), {})
  BY DEF TimerCallback
<1>3. /\ taken \in ReplicaState /\ taken.id = r.id /\ taken.view = r.view
      /\ taken.activeView = r.activeView /\ Quiet(r, taken)
  BY <1>1 DEF ReplicaState, Quiet
<1> HIDE DEF taken
<1> DEFINE q == StartViewChange(taken, v, lost)
<1>4. /\ q \in ReplicaState
      /\ Tells(taken, q, {}, ReachedNext)
      /\ q = taken \/ (q.view > taken.view /\ ~q.activeView)
  <2>1. /\ q \in ReplicaState
        /\ Tells(taken, q, {}, ReachedNext)
        /\ q = taken \/ (v > taken.view /\ q.view = v /\ ~q.activeView)
    BY <1>1, <1>3, StartViewChangeTells
  <2> QED  BY <2>1
<1> HIDE DEF q
<1>5. Tells(r, taken, {}, ReachedNext)
  BY <1>1, <1>3, QuietTells
<1>6. Tells(r, q, {}, ReachedNext)
  BY <1>1, <1>3, <1>4, <1>5, TellsTransitive
<1>7. Moves(r, q, ReachedNext)
  BY <1>3, <1>4 DEF Moves
<1> QED  BY <1>0, <1>1, <1>2, <1>4, <1>6, <1>7, RunTells DEF q

\* ... and main says nothing, at a backup
LEMMA MainTouchesMove ==
  ASSUME Inv, Truth, TypeOK', ReplicasStep, NEW i \in Replica, MainTouches(i)
  PROVE  Truth' /\ ViewMove(i)
<1> DEFINE r == replica[i]
<1>0. TypeOK
  BY DEF Inv
<1>1. r \in ReplicaState /\ r.id = i
  BY <1>0 DEF TypeOK
<1>2. PICK q \in ReplicaState : Touched(r, q, i) /\ Run(q, {})
  BY <1>0, MainTouching
<1> HIDE DEF r
<1>3. Quiet(r, q) /\ q.id = i /\ q.view = r.view /\ q.activeView = r.activeView
  BY <1>1, <1>2, TouchedFields DEF Quiet
<1> QED  BY <1>0, <1>2, <1>3, RunQuiet DEF r

\* ... or at a primary, which counts its view up if it is Byzantine,
LEMMA MainProposesMove ==
  ASSUME Inv, Truth, TypeOK', ReplicasStep, NEW i \in Replica, MainProposes(i)
  PROVE  Truth' /\ ViewMove(i)
<1> DEFINE r == replica[i]
           known == [r EXCEPT !.requests = @ \cup {i}]
           noted == Equivocate(known)
           sent(lost) == SendPrePrepares(noted, <<i>>, lost)
           q(lost) == IF i \in r.pending THEN r ELSE sent(lost)
<1>0. TypeOK
  BY DEF Inv
<1>1. r \in ReplicaState /\ r.id = i /\ i \in Digest /\ r.view \in Nat
  BY <1>0, NamedViews DEF TypeOK, Digest
<1>2. PICK lost : Run(q(lost), {})
  BY Zenon DEF MainProposes
<1> HIDE DEF r
<1>3. Keeps(r, known) /\ known \in ReplicaState /\ Quiet(r, known)
  BY <1>1 DEF Keeps, Quiet, ReplicaState
<1> HIDE DEF known
<1>4. known.id = i /\ known.view = r.view /\ known.activeView = r.activeView
  BY <1>1, <1>3 DEF Keeps
<1>5. /\ noted \in ReplicaState /\ noted.id = i /\ Quiet(known, noted)
      /\ noted.activeView = r.activeView
      /\ noted.view = r.view \/ (i \in Byzantine /\ noted.view = r.view + 1)
  <2>1. CASE i \in Byzantine
    <3> DEFINE n == known.view + 1
    <3>1. noted = [known EXCEPT !.view = n] /\ n \in Nat /\ n = r.view + 1
      BY <1>1, <1>4, <2>1 DEF Equivocate
    <3> HIDE DEF noted, n
    <3>2. noted \in ReplicaState /\ noted.view = n /\ noted.id = known.id
      BY <1>3, <3>1 DEF ReplicaState
    <3>3. noted.activeView = known.activeView /\ Quiet(known, noted)
      BY <1>3, <3>1 DEF ReplicaState, Quiet
    <3> QED  BY <1>4, <2>1, <3>1, <3>2, <3>3
  <2>2. CASE i \notin Byzantine
    <3>1. noted = known
      BY <1>4, <2>2 DEF Equivocate
    <3> HIDE DEF noted
    <3> QED  BY <1>3, <1>4, <3>1, QuietReflexive
  <2> QED  BY <2>1, <2>2
<1> HIDE DEF noted
<1>6. <<i>> \in Seq(Digest)
  BY <1>1
<1>7. Keeps(noted, sent(lost)) /\ Quiet(noted, sent(lost))
  BY <1>5, <1>6, SendPrePreparesKeeps, SendPrePreparesQuiet
<1> HIDE DEF sent
<1>8. /\ sent(lost) \in ReplicaState /\ sent(lost).id = i
      /\ sent(lost).view = noted.view /\ sent(lost).activeView = r.activeView
  BY <1>5, <1>7 DEF Keeps
<1>9. Quiet(r, sent(lost))
  BY <1>3, <1>5, <1>7, QuietTransitive
<1>10. /\ q(lost) \in ReplicaState
       /\ Quiet(r, q(lost))
       /\ q(lost).id = i
       /\ q(lost).activeView = r.activeView
       /\ q(lost).view = r.view \/ (i \in Byzantine /\ q(lost).view = r.view + 1)
  BY <1>1, <1>5, <1>8, <1>9, QuietReflexive
<1> HIDE DEF q
<1>11. Tells(r, q(lost), {}, ReachedNext)
  BY <1>1, <1>10, QuietTells
<1>12. Moves(r, q(lost), ReachedNext)
  BY <1>1, <1>10 DEF Moves
<1> QED  BY <1>0, <1>2, <1>10, <1>11, <1>12, RunTells DEF r

\* ... and stores what it has proposed.
LEMMA MainStoresPrePrepareMove ==
  ASSUME Inv, Truth, TypeOK', ReplicasStep, NEW i \in Replica, MainStoresPrePrepare(i)
  PROVE  Truth' /\ ViewMove(i)
<1> DEFINE r == replica[i]
           m == main.call.msg
           q == StorePrePrepares(r, {m})
<1>0. TypeOK
  BY DEF Inv
<1>1. r \in ReplicaState /\ r.id = i
  BY <1>0 DEF TypeOK
<1>2. m \in PrePrepare /\ Run(q, {})
  BY <1>0 DEF MainStoresPrePrepare, TypeOK, Calling
<1>3. Quiet(r, q)
  BY <1>1, StorePrePreparesQuiet
<1>4. Within(r, q, m.view)
  BY <1>1, <1>2, StorePrePreparesWithin
<1> HIDE DEF q
<1>5. q \in ReplicaState /\ q.id = i /\ q.view = r.view /\ q.activeView = r.activeView
  BY <1>1, <1>4 DEF Within
<1> QED  BY <1>0, <1>2, <1>3, <1>5, RunQuiet

\* Every step of the cluster.
LEMMA NextMove ==
  ASSUME Inv, Truth, Next
  PROVE  /\ TypeOK' /\ ReplicasStep
         /\ Truth'
         /\ \E i \in Replica : ViewMove(i)
<1>1. TypeOK' /\ ReplicasStep
  BY NextStep
<1>2. ASSUME NEW e \in net, Receive(e)
      PROVE  Truth' /\ \E i \in Replica : ViewMove(i)
  BY <1>1, <1>2, ReceiveNormalMove, ReceiveViewChangeMove, ReceiveNewViewMove DEF Receive
<1>3. ASSUME NEW i \in Replica, TimerExpires(i)
      PROVE  Truth' /\ ViewMove(i)
  BY <1>1, <1>3, TimerExpiresMove
<1>4. ASSUME NEW i \in Replica, NEW v \in 1 .. MaxView, TimerCallback(i, v)
      PROVE  Truth' /\ ViewMove(i)
  BY <1>1, <1>4, TimerCallbackMove
<1>5. ASSUME NEW i \in Replica, MainLooks(i)
      PROVE  Truth' /\ ViewMove(i)
  <2>1. replica' = replica /\ net' = net
    BY <1>1, <1>5, MainLooking DEF Inv
  <2>2. Truth'
    BY <2>1 DEF Truth, NetTrue, ReceiptsTrue, OneReceipt
  <2> QED  BY <2>1, <2>2 DEF ViewMove, Moves
<1>6. ASSUME NEW i \in Replica, MainTouches(i)
      PROVE  Truth' /\ ViewMove(i)
  BY <1>1, <1>6, MainTouchesMove
<1>7. ASSUME NEW i \in Replica, MainProposes(i)
      PROVE  Truth' /\ ViewMove(i)
  BY <1>1, <1>7, MainProposesMove
<1>8. ASSUME NEW i \in Replica, MainStoresPrePrepare(i)
      PROVE  Truth' /\ ViewMove(i)
  BY <1>1, <1>8, MainStoresPrePrepareMove
<1>9. Truth' /\ \E i \in Replica : ViewMove(i)
  BY <1>2, <1>3, <1>4, <1>5, <1>6, <1>7, <1>8, MainSteps, Zenon DEF Next, Timers
<1> QED  BY <1>1, <1>9

-----------------------------------------------------------------------------
(* The invariant, and what it implements. *)

\* The inductive invariant: the one of PBFTProofs, the truth of what is said,
\* and what follows from it for the views that replicas are active in.
ViewsInv == Inv /\ Truth /\ ViewHasQuorum

\* It holds initially: nothing has been said ...
LEMMA ViewsInitially == Init => ViewsInv
<1> SUFFICES ASSUME Init PROVE ViewsInv
  OBVIOUS
<1>1. \A i \in Replica : /\ replica[i].viewChanges = {}
                         /\ replica[i].view = 0
  BY DEF Init, NewReplica
<1>2. net = {}
  BY DEF Init
<1>3. Truth
  BY <1>1, <1>2 DEF Truth, NetTrue, ReceiptsTrue, OneReceipt, OneEach
<1>4. ViewHasQuorum
  BY <1>1 DEF ViewHasQuorum, Correct
<1> QED  BY <1>3, <1>4, Initially DEF ViewsInv

\* ... and is inductive.
LEMMA ViewsInductive == ViewsInv /\ [Next]_vars => ViewsInv'
<1> SUFFICES ASSUME ViewsInv, [Next]_vars PROVE ViewsInv'
  OBVIOUS
<1>1. Inv'
  BY InvStep DEF ViewsInv
<1>2. CASE UNCHANGED vars
  <2>1. replica' = replica /\ net' = net
    BY <1>2 DEF vars
  <2> QED  BY <1>1, <2>1 DEF ViewsInv, Truth, NetTrue, ReceiptsTrue, OneReceipt, ViewHasQuorum
<1>3. CASE Next
  <2>1. TypeOK /\ TypeOK' /\ ReplicasStep /\ Truth'
    BY <1>3, NextMove DEF ViewsInv, Inv
  <2>2. PICK i \in Replica : ViewMove(i)
    BY <1>3, NextMove DEF ViewsInv
  <2>3. ASSUME NEW j \in Correct, replica'[j].activeView, replica'[j].view > 0
        PROVE  ReachedIn(replica', replica'[j].view)
    <3>1. j \in Replica /\ j \notin Byzantine
      BY DEF Correct
    <3>2. replica[j].id = j /\ replica[j].view \in Nat
      BY <2>1, <3>1, NamedViews DEF TypeOK
    <3>3. CASE replica'[j].view = replica[j].view /\ replica'[j].activeView = replica[j].activeView
      <4>1. ReachedIn(replica, replica[j].view)
        BY <2>3, <3>3 DEF ViewsInv, ViewHasQuorum, ReachedIn
      <4> QED  BY <2>1, <3>2, <3>3, <4>1, ReachedStays
    <3>4. CASE replica'[j].view \in ReachedNext
      BY <3>4 DEF ReachedNext
    <3>5. \/ replica'[j].view = replica[j].view /\ replica'[j].activeView = replica[j].activeView
          \/ replica'[j].view \in ReachedNext
      BY <2>2, <2>3, <3>1, <3>2 DEF ViewMove, Moves
    <3> QED  BY <3>3, <3>4, <3>5
  <2>4. ViewHasQuorum'
    BY <2>3 DEF ViewHasQuorum, ReachedIn
  <2> QED  BY <1>1, <2>1, <2>4 DEF ViewsInv
<1> QED  BY <1>2, <1>3

(***************************************************************************)
(* In every cluster, a correct replica that is active in a view after the  *)
(* first is there with a quorum: 2f+1 replicas have come to that view, or  *)
(* gone beyond it (startNewView and processNewView).                       *)
(***************************************************************************)
THEOREM ActiveViewsHaveQuorum == Spec => []ViewHasQuorum
<1>1. ViewsInv => ViewHasQuorum
  BY DEF ViewsInv
<1> QED  BY <1>1, ViewsInitially, ViewsInductive, PTL DEF Spec

\* A step of one replica's view is one of Views, or leaves the views alone.
LEMMA ViewMoveRefines ==
  ASSUME TypeOK, TypeOK', ReplicasStep, NEW i \in Replica, ViewMove(i)
  PROVE  [Sync!Next]_(Sync!vars)
<1> DEFINE v == [j \in Replica |-> replica[j].view]
           a == [j \in Replica |-> replica[j].activeView]
<1>1. \A j \in Replica : /\ replica[j].view \in Nat /\ replica'[j].view \in Nat
                         /\ replica[j].activeView \in BOOLEAN
                         /\ replica'[j].activeView \in BOOLEAN
                         /\ replica[j].id = j
  BY DEF TypeOK, ReplicaState
<1>2. /\ replica'[i].view >= replica[i].view
      /\ replica[i].activeView /\ ~replica'[i].activeView => replica'[i].view > replica[i].view
  BY DEF ReplicasStep, ViewStep
<1>3. /\ v' = [v EXCEPT ![i] = replica'[i].view]
      /\ a' = [a EXCEPT ![i] = replica'[i].activeView]
      /\ v[i] = replica[i].view /\ a[i] = replica[i].activeView
      /\ v'[i] = replica'[i].view
  BY DEF ViewMove
<1>6. Sync!Leave(i) \/ Sync!Enter(i) \/ Sync!CountUp(i) => Sync!Next
  BY DEF Sync!Next
<1>7. CASE replica'[i].view = replica[i].view /\ replica'[i].activeView = replica[i].activeView
  <2>1. v' = v /\ a' = a
    BY <1>7 DEF ViewMove
  <2> QED  BY <2>1 DEF Sync!vars
<1>8. CASE replica'[i].view > replica[i].view /\ ~replica'[i].activeView
  <2>1. Sync!Leave(i)
    BY <1>1, <1>3, <1>8 DEF Sync!Leave, Sync!Moves
  <2> QED  BY <1>6, <2>1
<1>9. CASE /\ replica'[i].view \in ReachedNext /\ replica'[i].activeView
           /\ replica'[i].view > replica[i].view \/ ~replica[i].activeView
  <2> DEFINE Q == {j \in Replica : replica'[j].view >= replica'[i].view}
  <2>1. Q \in {S \in SUBSET Replica : Cardinality(S) >= CommitQuorum}
    BY <1>9 DEF ReachedNext, ReachedIn
  <2>2. \A j \in Q : v'[j] >= v'[i]
    OBVIOUS
  <2>3. Sync!Moves(i) /\ a' = [a EXCEPT ![i] = TRUE]
    BY <1>1, <1>3, <1>9 DEF Sync!Moves
  <2>4. v'[i] > v[i] \/ (v'[i] = v[i] /\ ~a[i])
    <3>1. CASE replica[i].activeView
      BY <1>3, <1>9, <3>1
    <3>2. CASE ~replica[i].activeView
      <4>1. ~a[i]
        BY <3>2
      <4>2. v'[i] > v[i] \/ v'[i] = v[i]
        BY <1>1, <1>2, <1>3
      <4> QED  BY <4>1, <4>2
    <3> QED  BY <3>1, <3>2
  <2>5. Sync!Enter(i)
    BY <2>1, <2>2, <2>3, <2>4 DEF Sync!Enter
  <2> QED  BY <1>6, <2>5
<1>10. CASE /\ i \in Byzantine /\ replica'[i].view = replica[i].view + 1
            /\ replica'[i].activeView = replica[i].activeView
  <2>1. a' = a
    BY <1>3, <1>10 DEF ViewMove
  <2>2. Sync!CountUp(i)
    BY <1>3, <1>10, <2>1 DEF Sync!CountUp
  <2> QED  BY <1>6, <2>2
<1>11. \/ replica'[i].view = replica[i].view /\ replica'[i].activeView = replica[i].activeView
       \/ replica'[i].view > replica[i].view /\ ~replica'[i].activeView
       \/ replica'[i].view \in ReachedNext
       \/ /\ i \in Byzantine /\ replica'[i].view = replica[i].view + 1
          /\ replica'[i].activeView = replica[i].activeView
  BY <1>1 DEF ViewMove, Moves
<1> QED  BY <1>1, <1>2, <1>7, <1>8, <1>9, <1>10, <1>11

(***************************************************************************)
(* The cluster implements Views in every configuration: whatever is lost,  *)
(* late or sent by a Byzantine replica, a replica's view changes by        *)
(* leaving for a later one or by entering one that has a quorum.           *)
(***************************************************************************)
THEOREM ImplementsViews == Spec => RefinesViews
<1>1. Init => Sync!Init
  <2> SUFFICES ASSUME Init PROVE Sync!Init
    OBVIOUS
  <2>1. \A i \in Replica : replica[i].view = 0 /\ replica[i].activeView = TRUE
    BY DEF Init, NewReplica
  <2> QED  BY <2>1 DEF Sync!Init
<1>2. ViewsInv /\ [Next]_vars => [Sync!Next]_(Sync!vars)
  <2> SUFFICES ASSUME ViewsInv, [Next]_vars PROVE [Sync!Next]_(Sync!vars)
    OBVIOUS
  <2>1. CASE Next
    <3>1. TypeOK /\ TypeOK' /\ ReplicasStep /\ \E i \in Replica : ViewMove(i)
      BY <2>1, NextMove DEF ViewsInv, Inv
    <3> QED  BY <3>1, ViewMoveRefines
  <2>2. CASE UNCHANGED vars
    BY <2>2 DEF vars, Sync!vars
  <2> QED  BY <2>1, <2>2
<1> QED  BY <1>1, <1>2, ViewsInitially, ViewsInductive, PTL DEF Spec, RefinesViews, Sync!Spec
=============================================================================
