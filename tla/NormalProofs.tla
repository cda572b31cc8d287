---------------------------- MODULE NormalProofs ----------------------------
(***************************************************************************)
(* Proofs about the normal case, for every cluster, every choice of        *)
(* Byzantine replicas and of failures: as long as every correct replica is *)
(* in its first view, what PBFTProperties says about agreement, execution, *)
(* quorums and timers holds, main racing the handlers of the primary       *)
(* included.                                                               *)
(*                                                                         *)
(* The first view has one slot, and one request that can be in it.  The    *)
(* argument is about who says what of it: a Commit is sent by a correct    *)
(* replica that is prepared, and that replica stays prepared as long as it *)
(* is in the view.                                                         *)
(***************************************************************************)
EXTENDS PBFTProofs

FirstPrePrepare == [type |-> "PrePrepare", view |-> 0, seq |-> 1, digest |-> 0]
FirstPrepare    == [type |-> "Prepare",    view |-> 0, seq |-> 1, digest |-> 0]
FirstCommit     == [type |-> "Commit",     view |-> 0, seq |-> 1, digest |-> 0]
FirstBlock      == [view |-> 0, seq |-> 1, digest |-> 0]

\* Every correct replica is in its first view.
InFirstView == \A i \in Correct : replica[i].view = 0

\* The replica is prepared, and committed, in the one slot there is.
Certified(r) == Prepared(r, 0, 1, 0)

Decided(r) == Committed(r, 0, 1, 0)

\* A timer that was started is running or has left its callback behind.
Armed(r) ==
    /\ r.pending # {} => r.requestTimer # NoTimer
    /\ r.requestTimer # NoTimer =>
         /\ r.requestTimer.target > 0
         /\ r.requestTimer.running \/ \E v \in r.callbacks : v > 0

\* What a correct replica holds in its first view.
HoldsFirst(r) ==
    /\ r.preprepares \subseteq {FirstPrePrepare}
    /\ FirstPrePrepare \in r.preprepares => 0 \in r.requests
    /\ \A x \in r.prepares : x.msg = FirstPrepare
    /\ \A x \in r.commits : x.msg = FirstCommit

\* main is about to set the timer of replica i.
Arming(i) == i = main.next /\ main.call.step = "timer"

\* ... and what it has done.
Done(r) ==
    /\ r.view = 0 /\ r.activeView
    /\ \A x \in r.commits : x.from = r.id => Certified(r)
    /\ r.ledger = <<>> \/ (r.ledger = <<FirstBlock>> /\ 0 \notin r.pending /\ Decided(r))

DoneFirst(r) == Done(r) /\ (r.id # 0 => Armed(r) \/ Arming(r.id))

\* It has acted on its quorums.
Acted(r) ==
    /\ Certified(r) => \E x \in r.commits : x.from = r.id
    /\ Decided(r) /\ r.lastExecuted = 0 => 0 \notin r.pending

\* What is said about it by others is true.
SaidTruly ==
    /\ \A i \in Correct : \A x \in replica[i].commits :
          x.from \in Correct /\ Certified(replica[x.from])
    /\ \A e \in net :
          /\ e.to \in Correct
          /\ e.msg.type = "PrePrepare" /\ e.msg.view = 0 => e.msg = FirstPrePrepare
          /\ e.msg.type = "Prepare" => e.msg = FirstPrepare
          /\ e.msg.type = "Commit" =>
               e.msg = FirstCommit /\ e.from \in Correct /\ Certified(replica[e.from])

\* main proposes once, at the first primary.
ProposesOnce ==
    /\ 0 \in Correct /\ main.next = 0 => replica[0].preprepares = {}
    /\ 0 \in Correct /\ main.next = 0 /\ main.call = Outside => replica[0].sequence = 0
    /\ main.next \in Correct /\ main.call.step = "broadcast" =>
         main.next = 0 /\ main.call.msg = FirstPrePrepare /\ 0 \in replica[0].requests

FirstInv ==
    InFirstView =>
       /\ \A i \in Correct : HoldsFirst(replica[i]) /\ DoneFirst(replica[i])
       /\ failures = 0 => \A i \in Correct \ {0} : Acted(replica[i])
       /\ SaidTruly
       /\ ProposesOnce

-----------------------------------------------------------------------------
(* Counting. *)

LEMMA Quorums == PrepareQuorum \in Nat /\ CommitQuorum \in Nat
  BY ClusterAssumption DEF PrepareQuorum, CommitQuorum, F, CalcByzantineTolerance,
                           MinimumReplicaCount

LEMMA ReplicaFinite == IsFiniteSet(Replica)
  BY ClusterAssumption, FS_Interval DEF Replica

\* Receipts of one message are as many as their senders.
LEMMA OneMessage ==
  ASSUME NEW m, NEW S \in SUBSET Replica, NEW T,
         \A x \in T : x = [from |-> x.from, msg |-> m] /\ x.from \in S
  PROVE  /\ IsFiniteSet(T)
         /\ Cardinality(T) \in Nat /\ Cardinality(S) \in Nat
         /\ Cardinality(T) <= Cardinality(S)
<1> DEFINE f == [x \in T |-> x.from]
<1>1. f \in Injection(T, S)
  <2>1. f \in [T -> S] /\ \A x \in T : f[x] = x.from
    OBVIOUS
  <2>2. \A x, y \in T : f[x] = f[y] => x = y
    BY <2>1
  <2> HIDE DEF f
  <2> QED  BY <2>1, <2>2 DEF Injection, IsInjective
<1>2. IsFiniteSet(S)
  BY ReplicaFinite, FS_Subset
<1> HIDE DEF f
<1> QED  BY <1>1, <1>2, FS_Injection, FS_CardinalityType

\* A replica's receipts of its slot are finitely many, and all that it has.
LEMMA SlotReceipts ==
  ASSUME NEW r \in ReplicaState, HoldsFirst(r)
  PROVE  /\ PreparesOf(r, 0, 1) = r.prepares /\ IsFiniteSet(r.prepares)
         /\ CommitsOf(r, 0, 1) = r.commits /\ IsFiniteSet(r.commits)
<1>1. \A x \in r.prepares : x = [from |-> x.from, msg |-> FirstPrepare] /\ x.from \in Replica
  BY DEF HoldsFirst, ReplicaState, PrepareReceipt
<1>2. \A x \in r.commits : x = [from |-> x.from, msg |-> FirstCommit] /\ x.from \in Replica
  BY DEF HoldsFirst, ReplicaState, CommitReceipt
<1>3. IsFiniteSet(r.prepares)
  BY <1>1, OneMessage
<1>4. IsFiniteSet(r.commits)
  BY <1>2, OneMessage
<1> QED  BY <1>1, <1>2, <1>3, <1>4 DEF PreparesOf, CommitsOf, FirstPrepare, FirstCommit

\* What a method adds to the slot of the first view.
Grows(r, q) ==
    /\ q \in ReplicaState
    /\ q.id = r.id
    /\ q.view = r.view
    /\ q.activeView = r.activeView
    /\ q.lastExecuted = r.lastExecuted
    /\ r.requests \subseteq q.requests
    /\ r.preprepares \subseteq q.preprepares
    /\ r.prepares \subseteq q.prepares
    /\ r.commits \subseteq q.commits
    /\ HoldsFirst(q)

LEMMA GrowsReflexive ==
  ASSUME NEW r \in ReplicaState, HoldsFirst(r)
  PROVE  Grows(r, r)
  BY DEF Grows

LEMMA GrowsTransitive ==
  ASSUME NEW r, NEW p, NEW q, Grows(r, p), Grows(p, q)
  PROVE  Grows(r, q)
  BY DEF Grows

\* A certificate stays one.
LEMMA GrowsCertified ==
  ASSUME NEW r \in ReplicaState, HoldsFirst(r), NEW q, Grows(r, q)
  PROVE  /\ Certified(r) => Certified(q)
         /\ Decided(r) => Decided(q)
<1>1. q \in ReplicaState /\ HoldsFirst(q)
  BY DEF Grows
<1>2. PrePrepared(r, 0, 1, 0) => PrePrepared(q, 0, 1, 0)
  BY DEF PrePrepared, Grows
<1>3. /\ Cardinality(r.prepares) \in Nat /\ Cardinality(q.prepares) \in Nat
      /\ Cardinality(r.prepares) <= Cardinality(q.prepares)
  BY <1>1, SlotReceipts, FS_Subset, FS_CardinalityType DEF Grows
<1>4. /\ Cardinality(r.commits) \in Nat /\ Cardinality(q.commits) \in Nat
      /\ Cardinality(r.commits) <= Cardinality(q.commits)
  BY <1>1, SlotReceipts, FS_Subset, FS_CardinalityType DEF Grows
<1>5. Certified(r) => Certified(q)
  BY <1>1, <1>2, <1>3, SlotReceipts, Quorums DEF Certified, Prepared
<1>6. Decided(r) => Decided(q)
  BY <1>1, <1>4, <1>5, SlotReceipts, Quorums DEF Decided, Committed, Certified
<1> QED  BY <1>5, <1>6

-----------------------------------------------------------------------------
(* What the methods do in the first view. *)

\* A method changes nothing but the timer.
OnlyTimer(r, q) ==
    /\ q \in ReplicaState
    /\ q.id = r.id /\ q.view = r.view /\ q.activeView = r.activeView
    /\ q.sequence = r.sequence /\ q.lastExecuted = r.lastExecuted
    /\ q.requests = r.requests /\ q.pending = r.pending
    /\ q.preprepares = r.preprepares /\ q.prepares = r.prepares /\ q.commits = r.commits
    /\ q.callbacks = r.callbacks /\ q.ledger = r.ledger
    /\ q.outbox = r.outbox /\ q.failed = r.failed

\* A timer that has been started covers whatever is pending (timer.go).
LEMMA StartTimerArms ==
  ASSUME NEW r \in ReplicaState, NEW override \in BOOLEAN,
         \/ override \/ r.requestTimer = NoTimer
         \/ /\ r.requestTimer.target > 0
            /\ r.requestTimer.running \/ \E v \in r.callbacks : v > 0
  PROVE  LET q == StartRequestTimer(r, override) IN
         OnlyTimer(r, q) /\ Armed(q) /\ q.requestTimer # NoTimer
<1> DEFINE timer == [target |-> r.view + 1, running |-> TRUE]
           started == [r EXCEPT !.requestTimer = timer]
           q == StartRequestTimer(r, override)
<1>1. timer \in Timer /\ timer.target > 0 /\ timer.running /\ timer # NoTimer
  BY DEF Timer, ReplicaState, NoTimer
<1> HIDE DEF timer
<1>2. OnlyTimer(r, started) /\ started.requestTimer = timer
  BY <1>1 DEF OnlyTimer, ReplicaState
<1> HIDE DEF started
<1>3. CASE r.requestTimer # NoTimer /\ ~override
  <2>1. q = r
    BY <1>3, Zenon DEF StartRequestTimer, TargetView
  <2> HIDE DEF q
  <2> QED  BY <1>3, <2>1 DEF OnlyTimer, Armed, q
<1>4. CASE r.requestTimer = NoTimer \/ override
  <2>1. q = started
    BY <1>4, Zenon DEF StartRequestTimer, TargetView, started, timer
  <2> HIDE DEF q
  <2> QED  BY <1>1, <1>2, <2>1 DEF Armed, q
<1> QED  BY <1>3, <1>4

\* Starting a timer changes nothing else.
LEMMA StartTimerOnly ==
  ASSUME NEW r \in ReplicaState, NEW override \in BOOLEAN
  PROVE  OnlyTimer(r, StartRequestTimer(r, override))
<1> DEFINE timer == [target |-> TargetView(r), running |-> TRUE]
           started == [r EXCEPT !.requestTimer = timer]
<1>1. timer \in Timer
  BY DEF Timer, ReplicaState, TargetView
<1> HIDE DEF timer
<1>2. OnlyTimer(r, started) /\ OnlyTimer(r, r)
  BY <1>1 DEF OnlyTimer, ReplicaState
<1>3. StartRequestTimer(r, override) \in {r, started}
  BY Zenon DEF StartRequestTimer, started, timer
<1> HIDE DEF started
<1> QED  BY <1>2, <1>3

\* Executing the committed request (execute.go): it is not pending afterwards.
LEMMA ExecuteFirst ==
  ASSUME NEW r \in ReplicaState, HoldsFirst(r), DoneFirst(r), Decided(r), NEW lost
  PROVE  LET q == Execute(r, 0, 1, 0, lost) IN
         /\ Grows(r, q) /\ DoneFirst(q)
         /\ q.commits = r.commits /\ q.outbox = r.outbox
         /\ q.requests = r.requests /\ q.prepares = r.prepares
         /\ q.preprepares = r.preprepares /\ q.sequence = r.sequence
         /\ r.lastExecuted = 0 => 0 \notin q.pending
         /\ r.failed => q.failed
<1> DEFINE fails == <<"Block", 0>> \in lost
           ledger == IF fails THEN r.ledger ELSE Append(r.ledger, FirstBlock)
           f == r.failed \/ fails
           written == [r EXCEPT !.pending = @ \ {0}, !.ledger = ledger, !.failed = f]
           executed == StopRequestTimer(written)
           q == Execute(r, 0, 1, 0, lost)
<1>1. 0 \in Digest /\ FirstBlock \in Block
  BY ClusterAssumption DEF Digest, Replica, FirstBlock, Block, MinimumReplicaCount
<1>2. CASE q = r /\ (0 \notin r.pending \/ r.lastExecuted # 0)
  BY <1>2 DEF Grows
<1>3. CASE /\ 0 \in r.pending
           /\ q = IF executed.pending # {} THEN StartRequestTimer(executed, TRUE) ELSE executed
  <2>1. r.ledger = <<>>
    BY <1>3 DEF DoneFirst, Done
  <2>2. ledger \in Seq(Block) /\ (ledger = <<>> \/ ledger = <<FirstBlock>>)
    BY <1>1, <2>1
  <2>3. f \in BOOLEAN /\ (r.failed => f)
    BY DEF ReplicaState
  <2> HIDE DEF ledger, f
  <2>4. NoTimer \in Timer
    BY DEF NoTimer, Timer
  <2>5. /\ executed \in ReplicaState
        /\ executed.id = r.id /\ executed.view = r.view /\ executed.activeView = r.activeView
        /\ executed.sequence = r.sequence /\ executed.lastExecuted = r.lastExecuted
        /\ executed.requests = r.requests /\ executed.pending = r.pending \ {0}
        /\ executed.preprepares = r.preprepares /\ executed.prepares = r.prepares
        /\ executed.commits = r.commits /\ executed.ledger = ledger
        /\ executed.outbox = r.outbox /\ executed.failed = f
        /\ executed.requestTimer = NoTimer
    BY <2>2, <2>3, <2>4 DEF StopRequestTimer, ReplicaState
  <2> HIDE DEF executed
  <2>6. OnlyTimer(executed, q) /\ Armed(q)
    <3>1. CASE executed.pending = {}
      BY <1>3, <2>5, <3>1 DEF OnlyTimer, Armed
    <3>2. CASE executed.pending # {}
      BY <1>3, <2>5, <3>2, StartTimerArms
    <3> QED  BY <3>1, <3>2
  <2> HIDE DEF q
  <2>7. Grows(r, q)
    BY <2>5, <2>6 DEF Grows, OnlyTimer, HoldsFirst
  <2>8. Certified(q) /\ Decided(q)
    BY <2>7, GrowsCertified DEF Decided, Committed, Certified
  <2>9. DoneFirst(q)
    BY <2>2, <2>5, <2>6, <2>8 DEF DoneFirst, Done, OnlyTimer
  <2> QED  BY <2>3, <2>5, <2>6, <2>7, <2>9 DEF OnlyTimer, q
<1>4. \/ q = r /\ (0 \notin r.pending \/ r.lastExecuted # 0)
      \/ /\ 0 \in r.pending
         /\ q = IF executed.pending # {} THEN StartRequestTimer(executed, TRUE) ELSE executed
  <2>1. 0 \in r.requests
    BY DEF Decided, Committed, Prepared, PrePrepared
  <2>2. r.lastExecuted \in Nat
    BY DEF ReplicaState
  <2>3. CASE 0 \notin r.pending \/ 1 # r.lastExecuted + 1
    <3>1. q = r
      BY <2>3, Zenon DEF Execute
    <3>2. 0 \notin r.pending \/ r.lastExecuted # 0
      BY <2>2, <2>3
    <3> QED  BY <3>1, <3>2, Zenon
  <2>4. CASE 0 \in r.pending /\ 1 = r.lastExecuted + 1
    BY <2>1, <2>4, Zenon DEF Execute, executed, written, ledger, f, FirstBlock
  <2> QED  BY <2>3, <2>4
<1> HIDE DEF q
<1> QED  BY <1>2, <1>3, <1>4

\* What a method says: Prepares, and Commits for what it is prepared for.
Says(r, q) ==
    \A o \in q.outbox :
       \/ o \in r.outbox
       \/ o.msg = FirstPrepare
       \/ o.msg = FirstCommit /\ Certified(q)

\* The Commits it takes: what it held already, its own, and that of the sender.
Takes(r, q, from) ==
    \A x \in q.commits : x \in r.commits \/ x.from \in {r.id, from}

\* All that a handler of the normal case does.
Does(r, q, from) ==
    /\ Grows(r, q)
    /\ DoneFirst(q)
    /\ Says(r, q)
    /\ Takes(r, q, from)
    /\ q.sequence = r.sequence
    /\ r.id = 0 => q.preprepares = r.preprepares
    /\ r.failed => q.failed

\* A Commit recorded: the replica's own, which it has a certificate for, or
\* another's.
LEMMA RecordCommitFirst ==
  ASSUME NEW r \in ReplicaState, HoldsFirst(r), DoneFirst(r), NEW from \in Replica,
         from = r.id => Certified(r)
  PROVE  LET q == RecordCommitReceipt(r, from, FirstCommit) IN
         /\ Does(r, q, from)
         /\ q.pending = r.pending /\ q.failed = r.failed
         /\ q.outbox = r.outbox
         /\ \E x \in q.commits : x.from = from
         /\ q.prepares = r.prepares /\ q.preprepares = r.preprepares /\ q.requests = r.requests
<1> DEFINE x == [from |-> from, msg |-> FirstCommit]
           p == [r EXCEPT !.commits = @ \cup {x}]
           q == RecordCommitReceipt(r, from, FirstCommit)
<1>1. x \in CommitReceipt /\ x.msg = FirstCommit /\ x.from = from
  BY ClusterAssumption DEF CommitReceipt, Commit, FirstCommit, Digest, Replica, MinimumReplicaCount
<1> HIDE DEF x
<1>2. /\ p \in ReplicaState /\ p.commits = r.commits \cup {x}
      /\ p.id = r.id /\ p.view = r.view /\ p.activeView = r.activeView
      /\ p.sequence = r.sequence /\ p.lastExecuted = r.lastExecuted
      /\ p.requests = r.requests /\ p.pending = r.pending
      /\ p.preprepares = r.preprepares /\ p.prepares = r.prepares /\ p.ledger = r.ledger
      /\ p.outbox = r.outbox /\ p.failed = r.failed
      /\ p.requestTimer = r.requestTimer /\ p.callbacks = r.callbacks
  BY <1>1 DEF ReplicaState
<1> HIDE DEF p
<1>3. Grows(r, p)
  BY <1>1, <1>2 DEF Grows, HoldsFirst
<1>4. (Certified(r) => Certified(p)) /\ (Decided(r) => Decided(p))
  BY <1>3, GrowsCertified
<1>5. DoneFirst(p)
  BY <1>1, <1>2, <1>4 DEF DoneFirst, Done, Armed
<1>6. CASE q = p
  <2> HIDE DEF q
  <2> QED  BY <1>1, <1>2, <1>3, <1>5, <1>6 DEF Does, Says, Takes, q
<1>7. CASE q = r /\ \E y \in r.commits : y.from = from
  <2> HIDE DEF q
  <2> QED  BY <1>7 DEF Does, Says, Takes, Grows, q
<1>8. q = p \/ (q = r /\ \E y \in r.commits : y.from = from)
  BY Zenon DEF RecordCommitReceipt, p, x
<1> QED  BY <1>6, <1>7, <1>8

\* Work may follow work.
LEMMA DoesTransitive ==
  ASSUME NEW r \in ReplicaState, NEW p, NEW q, NEW from, Does(r, p, from), Does(p, q, from)
  PROVE  Does(r, q, from)
<1>1. p \in ReplicaState /\ HoldsFirst(p) /\ p.id = r.id
  BY DEF Does, Grows
<1>2. Certified(p) => Certified(q)
  BY <1>1, GrowsCertified DEF Does
<1>3. Grows(r, q)
  BY GrowsTransitive DEF Does
<1> QED  BY <1>1, <1>2, <1>3 DEF Does, Says, Takes

LEMMA DoesReflexive ==
  ASSUME NEW r \in ReplicaState, HoldsFirst(r), DoneFirst(r), NEW from
  PROVE  Does(r, r, from)
  BY GrowsReflexive DEF Does, Says, Takes

\* A broadcast of the normal case (messaging.go).
LEMMA BroadcastFirst ==
  ASSUME NEW r \in ReplicaState, HoldsFirst(r), DoneFirst(r), NEW lost, NEW from,
         Certified(r)
  PROVE  LET q == Broadcast(r, FirstCommit, lost) IN
         /\ Does(r, q, from)
         /\ Fails(FirstCommit, lost) => q.failed
         /\ q.commits = r.commits /\ q.pending = r.pending
         /\ Certified(q) /\ (Decided(q) => Decided(r))
<1> DEFINE f == r.failed \/ Fails(FirstCommit, lost)
           o == [msg |-> FirstCommit, failed |-> Fails(FirstCommit, lost)]
           p == [r EXCEPT !.outbox = @ \cup {o}, !.failed = f]
           q == Broadcast(r, FirstCommit, lost)
<1>1. FirstCommit \in Commit /\ FirstCommit \in Message
  BY ClusterAssumption DEF FirstCommit, Commit, Message, Digest, Replica, MinimumReplicaCount
<1>2. q = p
  BY DEF Broadcast
<1>3. Fails(FirstCommit, lost) \in BOOLEAN /\ f \in BOOLEAN
  BY DEF Fails
<1>4. /\ o \in [msg : Message, failed : BOOLEAN] /\ o.msg = FirstCommit
      /\ r.failed => f
      /\ Fails(FirstCommit, lost) => f
  BY <1>1, <1>3
<1> HIDE DEF o, f
<1>5. /\ p \in ReplicaState /\ p.commits = r.commits
      /\ p.id = r.id /\ p.view = r.view /\ p.activeView = r.activeView
      /\ p.sequence = r.sequence /\ p.lastExecuted = r.lastExecuted
      /\ p.requests = r.requests /\ p.pending = r.pending
      /\ p.preprepares = r.preprepares /\ p.prepares = r.prepares /\ p.ledger = r.ledger
      /\ p.outbox = r.outbox \cup {o} /\ p.failed = f
      /\ p.requestTimer = r.requestTimer /\ p.callbacks = r.callbacks
  BY <1>3, <1>4 DEF ReplicaState
<1> HIDE DEF p
<1>6. Grows(r, p) /\ Grows(p, r)
  BY <1>5 DEF Grows, HoldsFirst
<1>7. HoldsFirst(p)
  BY <1>6 DEF Grows
<1>8. (Certified(r) <=> Certified(p)) /\ (Decided(r) <=> Decided(p))
  BY <1>5, <1>6, <1>7, GrowsCertified
<1>9. DoneFirst(p)
  BY <1>5, <1>8 DEF DoneFirst, Done, Armed
<1>10. Says(r, p) /\ Takes(r, p, from)
  BY <1>4, <1>5, <1>8 DEF Says, Takes
<1> QED  BY <1>2, <1>4, <1>5, <1>6, <1>8, <1>9, <1>10 DEF Does

\* Sending our Commit once the request is prepared, and executing it if that was
\* the last Commit (commit.go).  Unless the broadcast fails, the replica has then
\* acted on its quorums, if it had when it sent its Commit before.
LEMMA MaybeSendCommitFirst ==
  ASSUME NEW r \in ReplicaState, HoldsFirst(r), DoneFirst(r), NEW lost, NEW from
  PROVE  LET q == MaybeSendCommit(r, 0, 1, 0, lost) IN
         /\ Does(r, q, from)
         /\ ((\E x \in r.commits : x.from = r.id) => Acted(r)) /\ ~q.failed => Acted(q)
<1> DEFINE sent == Broadcast(r, FirstCommit, lost)
           done == RecordCommitReceipt(sent, r.id, FirstCommit)
           executed == Execute(done, 0, 1, 0, lost)
           q == MaybeSendCommit(r, 0, 1, 0, lost)
           owns == \E x \in r.commits : x.from = r.id
<1>1. ShouldSendCommit(r, 0, 1, 0) <=> (Certified(r) /\ ~owns)
  BY SlotReceipts DEF ShouldSendCommit, Certified
<1>2. CASE ~ShouldSendCommit(r, 0, 1, 0)
  <2>1. q = r
    BY <1>2, Zenon DEF MaybeSendCommit
  <2>2. ~Certified(r) => Acted(r)
    BY DEF Acted, Decided, Committed, Certified
  <2> HIDE DEF q
  <2> QED  BY <1>1, <1>2, <2>1, <2>2, DoesReflexive DEF q
<1>3. CASE ShouldSendCommit(r, 0, 1, 0)
  <2>1. r.id \in Replica
    BY DEF ReplicaState
  <2>2. Certified(r)
    BY <1>1, <1>3
  <2>3. /\ Does(r, sent, from)
        /\ Fails(FirstCommit, lost) => sent.failed
        /\ Certified(sent)
    BY <2>2, BroadcastFirst
  <2>4. sent \in ReplicaState /\ HoldsFirst(sent) /\ DoneFirst(sent) /\ sent.id = r.id
    BY <2>3 DEF Does, Grows
  <2> HIDE DEF sent
  <2>5. CASE Fails(FirstCommit, lost)
    <3>1. q = sent
      BY <1>3, <2>5 DEF MaybeSendCommit, FirstCommit, sent
    <3> HIDE DEF q
    <3> QED  BY <2>3, <2>5, <3>1 DEF q
  <2>6. CASE ~Fails(FirstCommit, lost)
    <3>1. /\ Does(sent, done, r.id)
          /\ \E x \in done.commits : x.from = r.id
      BY <2>1, <2>3, <2>4, RecordCommitFirst
    <3>2. done \in ReplicaState /\ HoldsFirst(done) /\ DoneFirst(done) /\ done.id = r.id
      BY <2>4, <3>1 DEF Does, Grows
    <3>3. Does(sent, done, from)
      BY <2>4, <3>1 DEF Does, Takes
    <3>4. Does(r, done, from)
      BY <2>3, <3>3, DoesTransitive
    <3> HIDE DEF done
    <3>5. CASE Decided(done)
      <4>1. q = executed
        BY <1>3, <2>6, <3>5 DEF MaybeSendCommit, FirstCommit, sent, done, executed, Decided
      <4>2. /\ Grows(done, executed) /\ DoneFirst(executed)
            /\ executed.commits = done.commits /\ executed.outbox = done.outbox
            /\ executed.preprepares = done.preprepares /\ executed.sequence = done.sequence
            /\ done.lastExecuted = 0 => 0 \notin executed.pending
            /\ done.failed => executed.failed
        BY <3>2, <3>5, ExecuteFirst
      <4> HIDE DEF executed
      <4>3. Does(done, executed, from)
        BY <4>2 DEF Does, Says, Takes
      <4>4. Does(r, executed, from)
        BY <3>4, <4>3, DoesTransitive
      <4>5. Acted(executed)
        BY <3>1, <3>2, <4>2 DEF Acted, Grows
      <4> HIDE DEF q
      <4> QED  BY <4>1, <4>4, <4>5 DEF q
    <3>6. CASE ~Decided(done)
      <4>1. q = done
        BY <1>3, <2>6, <3>6 DEF MaybeSendCommit, FirstCommit, sent, done, Decided
      <4>2. Acted(done)
        BY <3>1, <3>2, <3>6 DEF Acted
      <4> HIDE DEF q
      <4> QED  BY <3>4, <4>1, <4>2 DEF q
    <3> QED  BY <3>5, <3>6
  <2> QED  BY <2>5, <2>6
<1> QED  BY <1>2, <1>3

\* The first primary is replica 0.
LEMMA FirstPrimary == Primary(0) = 0 /\ 0 \in Replica /\ 0 \in Digest
  BY ClusterAssumption DEF Primary, Replica, Digest, MinimumReplicaCount

\* Receiving a Commit (commit.go).
LEMMA ProcessCommitFirst ==
  ASSUME NEW r \in ReplicaState, HoldsFirst(r), DoneFirst(r), NEW lost,
         NEW from \in Replica, from = r.id => Certified(r)
  PROVE  LET q == ProcessCommit(r, from, FirstCommit, lost) IN
         Does(r, q, from) /\ (Acted(r) /\ ~q.failed => Acted(q))
<1> DEFINE p == RecordCommitReceipt(r, from, FirstCommit)
           executed == Execute(p, 0, 1, 0, lost)
           q == ProcessCommit(r, from, FirstCommit, lost)
<1>1. /\ Does(r, p, from)
      /\ p.prepares = r.prepares /\ p.preprepares = r.preprepares /\ p.requests = r.requests
  BY RecordCommitFirst
<1>2. /\ p \in ReplicaState /\ HoldsFirst(p) /\ DoneFirst(p) /\ p.id = r.id
      /\ p.lastExecuted = r.lastExecuted /\ r.commits \subseteq p.commits
  BY <1>1 DEF Does, Grows
<1>3. Certified(p) <=> Certified(r)
  BY <1>1 DEF Certified, Prepared, PrePrepared, PreparesOf
<1>4. r.view = 0
  BY DEF DoneFirst, Done
<1> HIDE DEF p
<1>5. CASE Decided(p)
  <2>1. q = executed
    BY <1>4, <1>5 DEF ProcessCommit, FirstCommit, p, executed, Decided
  <2>2. /\ Grows(p, executed) /\ DoneFirst(executed)
        /\ executed.commits = p.commits /\ executed.outbox = p.outbox
        /\ executed.requests = p.requests /\ executed.prepares = p.prepares
        /\ executed.preprepares = p.preprepares /\ executed.sequence = p.sequence
        /\ p.lastExecuted = 0 => 0 \notin executed.pending
        /\ p.failed => executed.failed
    BY <1>2, <1>5, ExecuteFirst
  <2> HIDE DEF executed
  <2>3. Does(p, executed, from)
    BY <2>2 DEF Does, Says, Takes
  <2>4. Does(r, executed, from)
    BY <1>1, <2>3, DoesTransitive
  <2>5. Certified(executed) <=> Certified(p)
    BY <2>2 DEF Certified, Prepared, PrePrepared, PreparesOf
  <2>6. Acted(r) => Acted(executed)
    BY <1>2, <1>3, <2>2, <2>5 DEF Acted, Grows
  <2> HIDE DEF q
  <2> QED  BY <2>1, <2>4, <2>6 DEF q
<1>6. CASE ~Decided(p)
  <2>1. q = p
    BY <1>4, <1>6 DEF ProcessCommit, FirstCommit, p, Decided
  <2>2. Acted(r) => Acted(p)
    BY <1>2, <1>3, <1>6 DEF Acted
  <2> HIDE DEF q
  <2> QED  BY <1>1, <2>1, <2>2 DEF q
<1> QED  BY <1>5, <1>6

\* A Prepare recorded (prepare.go).
LEMMA RecordPrepareFirst ==
  ASSUME NEW r \in ReplicaState, HoldsFirst(r), DoneFirst(r), NEW from \in Replica, NEW other
  PROVE  LET q == RecordPrepareReceipt(r, from, FirstPrepare) IN
         Does(r, q, other) /\ q.commits = r.commits /\ q.pending = r.pending
<1> DEFINE x == [from |-> from, msg |-> FirstPrepare]
           p == [r EXCEPT !.prepares = @ \cup {x}]
           q == RecordPrepareReceipt(r, from, FirstPrepare)
<1>1. x \in PrepareReceipt /\ x.msg = FirstPrepare
  BY FirstPrimary DEF PrepareReceipt, Prepare, FirstPrepare
<1> HIDE DEF x
<1>2. /\ p \in ReplicaState /\ p.prepares = r.prepares \cup {x}
      /\ p.id = r.id /\ p.view = r.view /\ p.activeView = r.activeView
      /\ p.sequence = r.sequence /\ p.lastExecuted = r.lastExecuted
      /\ p.requests = r.requests /\ p.pending = r.pending
      /\ p.preprepares = r.preprepares /\ p.commits = r.commits /\ p.ledger = r.ledger
      /\ p.outbox = r.outbox /\ p.failed = r.failed
      /\ p.requestTimer = r.requestTimer /\ p.callbacks = r.callbacks
  BY <1>1 DEF ReplicaState
<1> HIDE DEF p
<1>3. Grows(r, p)
  BY <1>1, <1>2 DEF Grows, HoldsFirst
<1>4. (Certified(r) => Certified(p)) /\ (Decided(r) => Decided(p))
  BY <1>3, GrowsCertified
<1>5. DoneFirst(p)
  BY <1>2, <1>4 DEF DoneFirst, Done, Armed
<1>6. Does(r, p, other)
  BY <1>2, <1>3, <1>5 DEF Does, Says, Takes
<1>7. q = p \/ q = r
  BY Zenon DEF RecordPrepareReceipt, p, x
<1> HIDE DEF q
<1> QED  BY <1>2, <1>6, <1>7, DoesReflexive DEF q

\* Receiving a Prepare.
LEMMA ProcessPrepareFirst ==
  ASSUME NEW r \in ReplicaState, HoldsFirst(r), DoneFirst(r), NEW lost, NEW from \in Replica
  PROVE  LET q == ProcessPrepare(r, from, FirstPrepare, lost) IN
         Does(r, q, r.id) /\ (Acted(r) /\ ~q.failed => Acted(q))
<1> DEFINE p == RecordPrepareReceipt(r, from, FirstPrepare)
           sent == MaybeSendCommit(p, 0, 1, 0, lost)
           q == ProcessPrepare(r, from, FirstPrepare, lost)
<1>1. Does(r, p, r.id) /\ p.commits = r.commits /\ p.pending = r.pending
  BY RecordPrepareFirst
<1>2. /\ p \in ReplicaState /\ HoldsFirst(p) /\ DoneFirst(p) /\ p.id = r.id
      /\ p.lastExecuted = r.lastExecuted
  BY <1>1 DEF Does, Grows
<1> HIDE DEF p
<1>3. /\ Does(p, sent, r.id)
      /\ ((\E x \in p.commits : x.from = p.id) => Acted(p)) /\ ~sent.failed => Acted(sent)
  BY <1>2, MaybeSendCommitFirst
<1> HIDE DEF sent
<1>4. Does(r, sent, r.id)
  BY <1>1, <1>3, DoesTransitive
<1>5. ASSUME Acted(r), \E x \in p.commits : x.from = p.id
      PROVE  Acted(p)
  <2>1. Certified(r)
    BY <1>1, <1>2, <1>5 DEF DoneFirst, Done
  <2>2. Decided(p) => Decided(r)
    BY <1>1, <2>1 DEF Decided, Committed, CommitsOf, Certified
  <2> QED  BY <1>1, <1>2, <1>5, <2>2 DEF Acted
<1>6. CASE q = r
  <2> HIDE DEF q
  <2> QED  BY <1>6, DoesReflexive DEF q
<1>7. CASE q = sent
  <2> HIDE DEF q
  <2> QED  BY <1>3, <1>4, <1>5, <1>7 DEF q
<1>8. q = r \/ q = sent
  BY Zenon DEF ProcessPrepare, p, sent, FirstPrepare
<1> QED  BY <1>6, <1>7, <1>8

\* A backup takes the pre-prepare into its free slot (preprepare.go).
LEMMA AcceptFirst ==
  ASSUME NEW r \in ReplicaState, HoldsFirst(r), DoneFirst(r), NEW lost, NEW from,
         r.id # 0, r.preprepares = {}
  PROVE  LET q == AcceptPrePrepares(r, {FirstPrePrepare}, lost) IN
         /\ Does(r, q, from)
         /\ Fails(FirstPrepare, lost) => q.failed
         /\ q.commits = r.commits
<1> DEFINE prepareFor(m) == [m EXCEPT !.type = "Prepare"]
           ms == {FirstPrePrepare}
           accepted == {m \in ms : \A p \in r.preprepares : ~SameSlot(p, m)}
           answers == {prepareFor(m) : m \in accepted}
           own == {[from |-> r.id, msg |-> p] : p \in {a \in answers : ~Fails(a, lost)}}
           receipts == {o \in own : \A x \in r.prepares : x.from # r.id \/ ~SameSlot(x.msg, o.msg)}
           posted == {[msg |-> a, failed |-> Fails(a, lost)] : a \in answers}
           f == r.failed \/ \E a \in answers : Fails(a, lost)
           digests == {m.digest : m \in accepted}
           taken == [r EXCEPT !.preprepares = @ \cup accepted,
                              !.requests = @ \cup digests,
                              !.pending = @ \cup digests,
                              !.prepares = @ \cup receipts,
                              !.outbox = @ \cup posted,
                              !.failed = f]
           started == StartRequestTimer(taken, FALSE)
           q == AcceptPrePrepares(r, {FirstPrePrepare}, lost)
<1>1. accepted = {FirstPrePrepare}
  OBVIOUS
<1>2. prepareFor(FirstPrePrepare) = FirstPrepare
  BY DEF FirstPrePrepare, FirstPrepare
<1> HIDE DEF prepareFor
<1>3. answers = {FirstPrepare}
  BY <1>1, <1>2
<1>4. digests = {0}
  <2>1. FirstPrePrepare.digest = 0
    BY DEF FirstPrePrepare
  <2> HIDE DEF accepted
  <2> QED  BY <1>1, <2>1
<1>5. FirstPrePrepare \in PrePrepare /\ FirstPrepare \in Prepare /\ FirstPrepare \in Message
  BY FirstPrimary DEF FirstPrePrepare, FirstPrepare, PrePrepare, Prepare, Message
<1>6. q = started
  <2>1. accepted # {}
    BY <1>1
  <2> QED  BY <2>1, Zenon DEF AcceptPrePrepares, prepareFor
<1> HIDE DEF accepted, answers, digests
<1>7. \A x \in receipts : x \in PrepareReceipt /\ x.msg = FirstPrepare
  BY <1>3, <1>5 DEF PrepareReceipt, ReplicaState
<1>8. \A o \in posted : o \in [msg : Message, failed : BOOLEAN] /\ o.msg = FirstPrepare
  <2>1. Fails(FirstPrepare, lost) \in BOOLEAN
    BY DEF Fails
  <2> QED  BY <1>3, <1>5, <2>1
<1>9. f \in BOOLEAN /\ (r.failed => f) /\ (Fails(FirstPrepare, lost) => f)
  <2>1. f \in BOOLEAN
    BY Zenon
  <2> QED  BY <1>3, <2>1
<1> HIDE DEF receipts, posted, f
<1>10. /\ taken \in ReplicaState
       /\ taken.id = r.id /\ taken.view = r.view /\ taken.activeView = r.activeView
       /\ taken.sequence = r.sequence /\ taken.lastExecuted = r.lastExecuted
       /\ taken.requests = r.requests \cup {0} /\ taken.pending = r.pending \cup {0}
       /\ taken.preprepares = {FirstPrePrepare} /\ taken.prepares = r.prepares \cup receipts
       /\ taken.commits = r.commits /\ taken.ledger = r.ledger
       /\ taken.outbox = r.outbox \cup posted /\ taken.failed = f
       /\ taken.requestTimer = r.requestTimer /\ taken.callbacks = r.callbacks
  BY <1>1, <1>4, <1>5, <1>7, <1>8, <1>9, FirstPrimary DEF ReplicaState
<1> HIDE DEF taken
<1>11. OnlyTimer(taken, started) /\ (Armed(started) \/ Arming(r.id))
  <2>1. CASE Armed(r)
    BY <1>10, <2>1, StartTimerArms DEF Armed
  <2>2. CASE Arming(r.id)
    BY <1>10, <2>2, StartTimerOnly
  <2> QED  BY <2>1, <2>2 DEF DoneFirst
<1> HIDE DEF started
<1>12. Grows(r, started)
  BY <1>7, <1>10, <1>11 DEF Grows, OnlyTimer, HoldsFirst
<1>13. Certified(r) => Certified(started)
  BY <1>12, GrowsCertified
<1>14. ~Decided(r)
  BY DEF Decided, Committed, Prepared, PrePrepared
<1>15. DoneFirst(started)
  BY <1>10, <1>11, <1>13, <1>14 DEF DoneFirst, Done, OnlyTimer
<1>16. Says(r, started) /\ Takes(r, started, from)
  BY <1>8, <1>10, <1>11 DEF Says, Takes, OnlyTimer
<1> HIDE DEF q
<1> QED  BY <1>6, <1>9, <1>10, <1>11, <1>12, <1>15, <1>16 DEF Does, OnlyTimer, q

\* Receiving the pre-prepare.
LEMMA ProcessPrePrepareFirst ==
  ASSUME NEW r \in ReplicaState, HoldsFirst(r), DoneFirst(r), NEW lost, NEW from \in Replica
  PROVE  LET q == ProcessPrePrepare(r, from, FirstPrePrepare, lost) IN
         Does(r, q, r.id) /\ (Acted(r) /\ ~q.failed => Acted(q))
<1> DEFINE taken == AcceptPrePrepares(r, {FirstPrePrepare}, lost)
           sent == MaybeSendCommit(taken, 0, 1, 0, lost)
           q == ProcessPrePrepare(r, from, FirstPrePrepare, lost)
<1>1. r.view = 0 /\ IsPrimary(r) <=> r.view = 0 /\ r.id = 0
  BY FirstPrimary DEF IsPrimary
<1>2. CASE q = r
  <2> HIDE DEF q
  <2> QED  BY <1>2, DoesReflexive DEF q
<1>3. CASE r.id # 0 /\ r.preprepares = {}
  <2>1. /\ Does(r, taken, r.id) /\ taken.commits = r.commits
        /\ Fails(FirstPrepare, lost) => taken.failed
    BY <1>3, AcceptFirst
  <2>2. taken \in ReplicaState /\ HoldsFirst(taken) /\ DoneFirst(taken) /\ taken.id = r.id
    BY <2>1 DEF Does, Grows
  <2>3. ~\E x \in taken.commits : x.from = taken.id
    <3>1. ~Certified(r)
      BY <1>3 DEF Certified, Prepared, PrePrepared
    <3> QED  BY <2>1, <2>2, <3>1 DEF DoneFirst, Done
  <2> HIDE DEF taken
  <2>4. /\ Does(taken, sent, r.id)
        /\ ~sent.failed => Acted(sent)
    BY <2>2, <2>3, MaybeSendCommitFirst
  <2> HIDE DEF sent
  <2>5. Does(r, sent, r.id)
    BY <2>1, <2>4, DoesTransitive
  <2>6. [FirstPrePrepare EXCEPT !.type = "Prepare"] = FirstPrepare
    BY DEF FirstPrePrepare, FirstPrepare
  <2>7. FirstPrePrepare.view = 0 /\ FirstPrePrepare.seq = 1 /\ FirstPrePrepare.digest = 0
    BY DEF FirstPrePrepare
  <2>8. \/ q = r
        \/ q = taken /\ Fails(FirstPrepare, lost)
        \/ q = sent
    BY <2>6, <2>7 DEF ProcessPrePrepare, taken, sent
  <2> HIDE DEF q
  <2> QED  BY <1>2, <2>1, <2>4, <2>5, <2>8 DEF q
<1>4. CASE r.id = 0 \/ r.preprepares # {}
  <2>1. IsPrimary(r) \/ \E p \in r.preprepares : SameSlot(p, FirstPrePrepare)
    BY <1>1, <1>4 DEF HoldsFirst, DoneFirst, Done, SameSlot
  <2>2. q = r
    BY <2>1 DEF ProcessPrePrepare
  <2> QED  BY <1>2, <2>2
<1> QED  BY <1>3, <1>4

-----------------------------------------------------------------------------
(* Steps of the cluster. *)

\* Two states of a replica that differ in what the normal case does not read.
SameParts(r, q) ==
    /\ q.id = r.id /\ q.view = r.view /\ q.activeView = r.activeView
    /\ q.sequence = r.sequence /\ q.lastExecuted = r.lastExecuted
    /\ q.requests = r.requests /\ q.pending = r.pending
    /\ q.preprepares = r.preprepares /\ q.prepares = r.prepares /\ q.commits = r.commits
    /\ q.requestTimer = r.requestTimer /\ q.callbacks = r.callbacks
    /\ q.ledger = r.ledger

\* They are alike in all that matters here.
LEMMA SamePartsFirst ==
  ASSUME NEW r, NEW q, SameParts(r, q)
  PROVE  /\ HoldsFirst(q) <=> HoldsFirst(r)
         /\ Done(q) <=> Done(r)
         /\ Armed(q) <=> Armed(r)
         /\ DoneFirst(q) <=> DoneFirst(r)
         /\ Acted(q) <=> Acted(r)
         /\ Certified(q) <=> Certified(r)
<1>1. (Certified(q) <=> Certified(r)) /\ (Decided(q) <=> Decided(r))
  BY DEF SameParts, Certified, Decided, Committed, Prepared, PrePrepared, PreparesOf, CommitsOf
<1>2. HoldsFirst(q) <=> HoldsFirst(r)
  BY DEF SameParts, HoldsFirst
<1>3. (Done(q) <=> Done(r)) /\ (Armed(q) <=> Armed(r))
  BY <1>1 DEF SameParts, Done, Armed
<1>5. DoneFirst(q) <=> DoneFirst(r)
  BY <1>3 DEF SameParts, DoneFirst
<1>4. Acted(q) <=> Acted(r)
  BY <1>1 DEF SameParts, Acted
<1> QED  BY <1>1, <1>2, <1>3, <1>4, <1>5

\* What replica i may send while it is q.
MayBeSent(i, q, m) ==
    \/ m.type \in {"ViewChange", "NewView"}
    \/ m = FirstPrePrepare
    \/ m.type = "PrePrepare" /\ m.view # 0
    \/ i \in Correct /\ m = FirstPrepare
    \/ i \in Correct /\ m = FirstCommit /\ Certified(q)

\* What a correct replica i may become.
MayBecome(i, q) ==
    LET r == replica[i] IN
    /\ HoldsFirst(q) /\ Done(q)
    /\ Certified(r) => Certified(q)
    /\ \A x \in q.commits :
          \/ x \in r.commits \/ x.from = i
          \/ x.from \in Correct /\ Certified(replica[x.from])

\* Its timer is as it should be, or main is about to set it; a timer that main is
\* about to set elsewhere remains so.
StaysArmed(i, q) ==
    /\ i \in Correct \ {0} => Armed(q) \/ Arming(i)'
    /\ \A j \in Correct \ {i} : Arming(j) => Arming(j)'

\* Unless something fails, a step leaves no correct replica with a quorum that it
\* has not acted on.
StaysActed ==
    failures' = 0 => \A j \in Correct : Acted(replica[j]) => Acted(replica'[j])

\* Running such a method, with main as it should be.
LEMMA RunFirst ==
  ASSUME TypeOK, InFirstView, FirstInv, NEW i \in Replica, NEW q \in ReplicaState, q.id = i,
         NEW consumed, Run(q, consumed),
         \A o \in q.outbox : MayBeSent(i, q, o.msg),
         i \in Correct => MayBecome(i, q), StaysArmed(i, q),
         i \in Correct \ {0} /\ failures = 0 /\ ~q.failed => Acted(q),
         ProposesOnce'
  PROVE  /\ FirstInv'
         /\ (i \in Correct /\ Acted(replica[i]) /\ ~q.failed => Acted(q)) => StaysActed
<1> DEFINE s == Returned(q)
<1>1. /\ replica' = [replica EXCEPT ![i] = s]
      /\ net' \subseteq (net \ consumed) \cup Posted(q)
      /\ failures' = IF q.failed THEN failures + 1 ELSE failures
  BY RunPosts DEF Run
<1>2. SameParts(q, s)
  BY DEF SameParts, Returned, ReplicaState
<1>3. /\ HoldsFirst(s) <=> HoldsFirst(q)
      /\ Done(s) <=> Done(q)
      /\ Armed(s) <=> Armed(q)
      /\ Acted(s) <=> Acted(q)
      /\ Certified(s) <=> Certified(q)
  BY <1>2, SamePartsFirst
<1>4. s.commits = q.commits
  BY <1>2 DEF SameParts
<1> HIDE DEF s
<1>5. replica'[i] = s /\ \A j \in Replica \ {i} : replica'[j] = replica[j]
  BY <1>1 DEF TypeOK
<1>6. failures' = 0 => failures = 0 /\ ~q.failed
  BY <1>1 DEF TypeOK
<1>7. \A j \in Correct : Certified(replica[j]) => Certified(replica'[j])
  BY <1>3, <1>5 DEF MayBecome, Correct
<1>8. \A j \in Correct : HoldsFirst(replica'[j]) /\ Done(replica'[j])
  BY <1>3, <1>5 DEF FirstInv, MayBecome, DoneFirst, Correct
<1>13. \A j \in Correct \ {0} : Armed(replica'[j]) \/ Arming(j)'
  <2> TAKE j \in Correct \ {0}
  <2>1. CASE j = i
    BY <1>3, <1>5, <2>1 DEF StaysArmed
  <2>2. CASE j # i
    BY <1>5, <2>2 DEF StaysArmed, FirstInv, DoneFirst, TypeOK, Correct
  <2> QED  BY <2>1, <2>2
<1>14. \A j \in Correct : DoneFirst(replica[j])'
  <2>1. \A j \in Correct : replica'[j].id = j
    BY <1>2, <1>5 DEF SameParts, TypeOK, Correct
  <2> QED  BY <1>8, <1>13, <2>1 DEF DoneFirst
<1>9. failures' = 0 => \A j \in Correct \ {0} : Acted(replica'[j])
  BY <1>3, <1>5, <1>6 DEF FirstInv, Correct
<1>10. SaidTruly'
  <2>1. ASSUME NEW j \in Correct, NEW x \in replica'[j].commits
        PROVE  x.from \in Correct /\ Certified(replica'[x.from])
    <3>1. CASE j = i
      <4>1. x \in q.commits
        BY <1>4, <1>5, <3>1
      <4>2. CASE x \in replica[i].commits
        BY <1>7, <3>1, <4>2 DEF FirstInv, SaidTruly
      <4>3. CASE x.from = i
        BY <1>3, <1>5, <3>1, <4>1, <4>3 DEF MayBecome, Done
      <4>4. CASE x.from \in Correct /\ Certified(replica[x.from])
        BY <1>7, <4>4
      <4> QED  BY <3>1, <4>1, <4>2, <4>3, <4>4 DEF MayBecome
    <3>2. CASE j # i
      <4>1. x \in replica[j].commits
        BY <1>5, <3>2 DEF Correct
      <4> QED  BY <1>7, <4>1 DEF FirstInv, SaidTruly
    <3> QED  BY <3>1, <3>2
  <2>2. ASSUME NEW e \in net'
        PROVE  /\ e.to \in Correct
               /\ e.msg.type = "PrePrepare" /\ e.msg.view = 0 => e.msg = FirstPrePrepare
               /\ e.msg.type = "Prepare" => e.msg = FirstPrepare
               /\ e.msg.type = "Commit" =>
                    e.msg = FirstCommit /\ e.from \in Correct /\ Certified(replica'[e.from])
    <3>1. CASE e \in net
      BY <1>7, <3>1 DEF FirstInv, SaidTruly
    <3>2. CASE e \in Posted(q)
      <4>1. e.from = i /\ e.to \in Correct /\ MayBeSent(i, q, e.msg)
        BY <3>2 DEF Posted
      <4>2. FirstPrepare.type = "Prepare" /\ FirstCommit.type = "Commit"
            /\ FirstPrePrepare.type = "PrePrepare"
        BY DEF FirstPrepare, FirstCommit, FirstPrePrepare
      <4> QED  BY <1>3, <1>5, <4>1, <4>2 DEF MayBeSent
    <3> QED  BY <1>1, <3>1, <3>2
  <2> QED  BY <2>1, <2>2 DEF SaidTruly
<1>11. FirstInv'
  BY <1>8, <1>9, <1>10, <1>14 DEF FirstInv
<1>12. (i \in Correct /\ Acted(replica[i]) /\ ~q.failed => Acted(q)) => StaysActed
  BY <1>3, <1>5, <1>6 DEF StaysActed, Correct
<1> QED  BY <1>11, <1>12

\* A handler of the normal case.
LEMMA RunDoes ==
  ASSUME TypeOK, InFirstView, FirstInv, NEW i \in Correct, NEW from,
         from = i \/ (from \in Correct /\ Certified(replica[from])),
         NEW q, Does(replica[i], q, from), NEW consumed, Run(q, consumed),
         Acted(replica[i]) /\ ~q.failed => Acted(q),
         UNCHANGED main
  PROVE  FirstInv' /\ StaysActed
<1> DEFINE r == replica[i]
<1>1. /\ i \in Replica /\ r \in ReplicaState /\ r.id = i /\ r.outbox = {}
      /\ HoldsFirst(r) /\ DoneFirst(r)
  BY DEF TypeOK, Correct, FirstInv
<1>2. q \in ReplicaState /\ q.id = i /\ HoldsFirst(q)
  BY <1>1 DEF Does, Grows
<1>3. Certified(r) => Certified(q)
  BY <1>1, GrowsCertified DEF Does
<1>4. MayBecome(i, q)
  BY <1>1, <1>2, <1>3 DEF MayBecome, Does, Takes, DoneFirst
<1>8. StaysArmed(i, q)
  BY <1>1, <1>2 DEF StaysArmed, Does, DoneFirst, Arming
<1>5. \A o \in q.outbox : MayBeSent(i, q, o.msg)
  BY <1>1 DEF Does, Says, MayBeSent
<1>6. i \in Correct \ {0} /\ failures = 0 /\ ~q.failed => Acted(q)
  BY DEF FirstInv
<1>7. ProposesOnce'
  <2>1. replica' = [replica EXCEPT ![i] = Returned(q)]
    BY <1>2 DEF Run
  <2>2. /\ Returned(q).sequence = q.sequence /\ Returned(q).preprepares = q.preprepares
        /\ Returned(q).requests = q.requests
    BY <1>2 DEF Returned, ReplicaState
  <2>3. /\ q.sequence = r.sequence /\ r.requests \subseteq q.requests
        /\ i = 0 => q.preprepares = r.preprepares
    BY <1>1 DEF Does, Grows
  <2>4. 0 \in Correct => /\ replica'[0].sequence = replica[0].sequence
                         /\ replica'[0].preprepares = replica[0].preprepares
                         /\ replica[0].requests \subseteq replica'[0].requests
    BY <2>1, <2>2, <2>3 DEF TypeOK, Correct
  <2> QED  BY <2>4 DEF FirstInv, ProposesOnce
<1> QED  BY <1>1, <1>2, <1>4, <1>5, <1>6, <1>7, <1>8, RunFirst

\* A message of the first view comes to a correct replica in that view.
LEMMA ReceiveNormalFirst ==
  ASSUME TypeOK, InFirstView, FirstInv, NEW e \in net,
         ReceivePrePrepare(e) \/ ReceivePrepare(e) \/ ReceiveCommit(e)
  PROVE  FirstInv' /\ StaysActed
<1> DEFINE i == e.to
           r == replica[i]
           m == e.msg
<1>1. /\ i \in Correct /\ r \in ReplicaState /\ e.from \in Replica /\ r.id = i
      /\ HoldsFirst(r) /\ DoneFirst(r) /\ r.view = 0
  BY MessageTypes DEF FirstInv, SaidTruly, TypeOK, DoneFirst, Done, Correct
<1>2. Does(r, r, i) /\ UNCHANGED main
  BY <1>1, DoesReflexive DEF ReceivePrePrepare, ReceivePrepare, ReceiveCommit
<1>3. ASSUME ReceivePrePrepare(e) PROVE FirstInv' /\ StaysActed
  <2>1. PICK lost : Run(IF Taken(e) THEN ProcessPrePrepare(r, e.from, m, lost) ELSE r, {e})
    BY <1>3 DEF ReceivePrePrepare
  <2> DEFINE q == IF Taken(e) THEN ProcessPrePrepare(r, e.from, m, lost) ELSE r
  <2>2. m.type = "PrePrepare"
    BY <1>3 DEF ReceivePrePrepare
  <2>3. CASE m.view # 0
    <3>1. ProcessPrePrepare(r, e.from, m, lost) = r
      BY <1>1, <2>3 DEF ProcessPrePrepare
    <3>2. q = r
      BY <3>1
    <3> QED  BY <1>1, <1>2, <2>1, <3>2, RunDoes
  <2>4. CASE m.view = 0
    <3>1. m = FirstPrePrepare
      BY <2>2, <2>4 DEF FirstInv, SaidTruly
    <3>2. Does(r, q, i) /\ (Acted(r) /\ ~q.failed => Acted(q))
      BY <1>1, <1>2, <3>1, ProcessPrePrepareFirst
    <3> HIDE DEF q
    <3> QED  BY <1>1, <1>2, <2>1, <3>2, RunDoes DEF q
  <2> QED  BY <2>3, <2>4
<1>4. ASSUME ReceivePrepare(e) PROVE FirstInv' /\ StaysActed
  <2>1. PICK lost : Run(IF Taken(e) THEN ProcessPrepare(r, e.from, m, lost) ELSE r, {e})
    BY <1>4 DEF ReceivePrepare
  <2> DEFINE q == IF Taken(e) THEN ProcessPrepare(r, e.from, m, lost) ELSE r
  <2>2. m = FirstPrepare
    BY <1>4 DEF ReceivePrepare, FirstInv, SaidTruly
  <2>3. Does(r, q, i) /\ (Acted(r) /\ ~q.failed => Acted(q))
    BY <1>1, <1>2, <2>2, ProcessPrepareFirst
  <2> HIDE DEF q
  <2> QED  BY <1>1, <1>2, <2>1, <2>3, RunDoes DEF q
<1>5. ASSUME ReceiveCommit(e) PROVE FirstInv' /\ StaysActed
  <2>1. PICK lost : Run(IF Taken(e) THEN ProcessCommit(r, e.from, m, lost) ELSE r, {e})
    BY <1>5 DEF ReceiveCommit
  <2> DEFINE q == IF Taken(e) THEN ProcessCommit(r, e.from, m, lost) ELSE r
  <2>2. m = FirstCommit /\ e.from \in Correct /\ Certified(replica[e.from])
    BY <1>5 DEF ReceiveCommit, FirstInv, SaidTruly
  <2>3. e.from = r.id => Certified(r)
    BY <1>1, <2>2
  <2>4. Does(r, q, e.from) /\ (Acted(r) /\ ~q.failed => Acted(q))
    <3>1. Does(r, r, e.from)
      BY <1>1, DoesReflexive
    <3> QED  BY <1>1, <2>2, <2>3, <3>1, ProcessCommitFirst
  <2> HIDE DEF q
  <2> QED  BY <1>1, <1>2, <2>1, <2>2, <2>4, RunDoes DEF q
<1> QED  BY <1>3, <1>4, <1>5

\* A method that leaves the parts of a replica that matter as they are.
LEMMA RunSameParts ==
  ASSUME TypeOK, InFirstView, FirstInv, NEW i \in Replica,
         NEW q \in ReplicaState, SameParts(replica[i], q), NEW consumed, Run(q, consumed),
         \A o \in q.outbox : o.msg.type \in {"ViewChange", "NewView"},
         UNCHANGED main
  PROVE  FirstInv' /\ StaysActed
<1> DEFINE r == replica[i]
<1>1. r \in ReplicaState /\ r.id = i /\ q.id = i
  BY DEF TypeOK, SameParts
<1>2. /\ HoldsFirst(q) <=> HoldsFirst(r)
      /\ Done(q) <=> Done(r)
      /\ Armed(q) <=> Armed(r)
      /\ Acted(q) <=> Acted(r)
      /\ Certified(q) <=> Certified(r)
  BY SamePartsFirst
<1>3. i \in Correct => MayBecome(i, q)
  BY <1>2 DEF MayBecome, FirstInv, DoneFirst, SameParts
<1>8. StaysArmed(i, q)
  BY <1>1, <1>2 DEF StaysArmed, FirstInv, DoneFirst, Arming
<1>4. i \in Correct \ {0} /\ failures = 0 => Acted(q)
  BY <1>2 DEF FirstInv
<1>5. \A o \in q.outbox : MayBeSent(i, q, o.msg)
  BY DEF MayBeSent
<1>6. ProposesOnce'
  <2>1. replica' = [replica EXCEPT ![i] = Returned(q)]
    BY <1>1 DEF Run
  <2>2. /\ Returned(q).sequence = r.sequence /\ Returned(q).preprepares = r.preprepares
        /\ Returned(q).requests = r.requests
    BY DEF Returned, ReplicaState, SameParts
  <2>3. 0 \in Correct => /\ replica'[0].sequence = replica[0].sequence
                         /\ replica'[0].preprepares = replica[0].preprepares
                         /\ replica'[0].requests = replica[0].requests
    BY <2>1, <2>2 DEF TypeOK, Correct
  <2> QED  BY <2>3 DEF FirstInv, ProposesOnce
<1>7. i \in Correct /\ Acted(r) /\ ~q.failed => Acted(q)
  BY <1>2
<1> QED  BY <1>1, <1>3, <1>4, <1>5, <1>6, <1>7, <1>8, RunFirst

\* A NewView is not taken by a replica that is active.
LEMMA ReceiveNewViewFirst ==
  ASSUME TypeOK, InFirstView, FirstInv, NEW e \in net, ReceiveNewView(e)
  PROVE  FirstInv' /\ StaysActed
<1> DEFINE r == replica[e.to]
<1>1. e.to \in Correct /\ e.to \in Replica /\ r \in ReplicaState /\ r.outbox = {} /\ DoneFirst(r)
  BY MessageTypes DEF FirstInv, SaidTruly, TypeOK, Correct
<1>2. ~Taken(e)
  BY <1>1 DEF ReceiveNewView, Taken, IsMessageAllowed, DoneFirst, Done
<1>3. Run(r, {e}) /\ UNCHANGED main
  BY <1>2 DEF ReceiveNewView
<1> QED  BY <1>1, <1>3, RunSameParts DEF SameParts

-----------------------------------------------------------------------------
(* View changes and timers. *)

\* What a view change leaves of a replica that stays in its first view.
Undisturbed(r, q) ==
    /\ q \in ReplicaState
    /\ SameParts(r, q)
    /\ \A o \in q.outbox : o \in r.outbox \/ o.msg.type \in {"ViewChange", "NewView"}

LEMMA RecordViewChangeFirst ==
  ASSUME NEW r \in ReplicaState, NEW from \in Replica, NEW m \in ViewChange
  PROVE  Undisturbed(r, RecordViewChangeReceipt(r, from, m))
<1> DEFINE x == [from |-> from, msg |-> m]
           q == [r EXCEPT !.viewChanges = @ \cup {x}]
<1>1. x \in ViewChangeReceipt
  BY DEF ViewChangeReceipt
<1> HIDE DEF x
<1>2. Undisturbed(r, q)
  BY <1>1 DEF ReplicaState, Undisturbed, SameParts
<1>3. Undisturbed(r, r)
  BY DEF Undisturbed, SameParts
<1> HIDE DEF q
<1>4. RecordViewChangeReceipt(r, from, m) = r \/ RecordViewChangeReceipt(r, from, m) = q
  BY Zenon DEF RecordViewChangeReceipt, q, x
<1> QED  BY <1>2, <1>3, <1>4

LEMMA UndisturbedTransitive ==
  ASSUME NEW r, NEW p, NEW q, Undisturbed(r, p), Undisturbed(p, q)
  PROVE  Undisturbed(r, q)
<1>1. SameParts(r, q)
  BY DEF Undisturbed, SameParts
<1> QED  BY <1>1 DEF Undisturbed

\* A NewView that fails to be broadcast leaves the first view as it is.
LEMMA BroadcastViewFirst ==
  ASSUME NEW r \in ReplicaState, NEW m \in Message, m.type \in {"ViewChange", "NewView"},
         NEW lost
  PROVE  Undisturbed(r, Broadcast(r, m, lost))
<1> DEFINE fails == Fails(m, lost)
           x == [msg |-> m, failed |-> fails]
           o == r.outbox \cup {x}
           f == r.failed \/ fails
           q == [r EXCEPT !.outbox = o, !.failed = f]
<1>1. fails \in BOOLEAN /\ f \in BOOLEAN
  BY DEF Fails, ReplicaState
<1> HIDE DEF fails
<1>2. x \in [msg : Message, failed : BOOLEAN] /\ x.msg = m
  BY <1>1
<1> HIDE DEF x
<1>3. o \in SUBSET [msg : Message, failed : BOOLEAN]
  BY <1>2 DEF ReplicaState
<1>4. \A y \in o : y \in r.outbox \/ y.msg = m
  BY <1>2
<1> HIDE DEF o, f
<1>5. q \in ReplicaState /\ q.outbox = o /\ SameParts(r, q)
  BY <1>1, <1>3 DEF ReplicaState, SameParts
<1>6. Broadcast(r, m, lost) = q
  BY Zenon DEF Broadcast, q, o, x, f, fails
<1> HIDE DEF q
<1> QED  BY <1>4, <1>5, <1>6 DEF Undisturbed

\* A new primary leaves the first view, or its NewView was not sent.
LEMMA StartNewViewFirst ==
  ASSUME NEW r \in ReplicaState, NEW v \in Nat, v # 0, NEW lost,
         NEW q \in StartNewView(r, v, lost), q.view = 0
  PROVE  Undisturbed(r, q)
<1> DEFINE own == RecordViewChangeReceipt(r, r.id, ViewChangeFor(r, v))
           msgs == ViewChangesOf(own, v)
           newView(pps) == [type |-> "NewView", view |-> v, messages |-> msgs,
                            preprepares |-> pps]
           sent(pps) == Broadcast(own, newView(pps), lost)
<1>1. Undisturbed(r, own)
  BY ViewChangeForType, RecordViewChangeFirst DEF ReplicaState
<1>2. own \in ReplicaState
  BY <1>1 DEF Undisturbed
<1> HIDE DEF own
<1>3. msgs \in SUBSET ViewChangeReceipt
  BY <1>2 DEF ViewChangesOf, ReplicaState
<1> HIDE DEF msgs
<1>4. PICK pps \in GeneratePrePrepares(v, msgs) :
         q \in IF Fails(newView(pps), lost)
                 THEN {sent(pps)}
                 ELSE ProposeOutstanding(EnterOwnView(sent(pps), v, pps), lost)
  BY Zenon DEF StartNewView, own, msgs
<1>5. pps \in Seq(PrePrepare) /\ \A m \in Range(pps) : m \in PrePrepare /\ m.view = v
  BY <1>3, GeneratePrePreparesType
<1>6. newView(pps) \in Message /\ newView(pps).type = "NewView"
  BY <1>3, <1>5 DEF NewView, Message
<1> DEFINE s == sent(pps)
           e == EnterOwnView(s, v, pps)
<1>7. Undisturbed(own, s) /\ Keeps(own, s)
  BY <1>2, <1>6, BroadcastViewFirst, BroadcastKeeps
<1>8. q = s \/ q \in ProposeOutstanding(e, lost)
  BY <1>4, Zenon
<1>9. s \in ReplicaState
  BY <1>7 DEF Keeps
<1> HIDE DEF sent, s
<1>10. e \in ReplicaState /\ e.view = v
  BY <1>5, <1>9, EnterOwnViewEnters DEF Enters
<1> HIDE DEF e
<1>11. q \in ProposeOutstanding(e, lost) => q.view = v
  BY <1>10, ProposeOutstandingWithin DEF Within
<1>12. q = s
  BY <1>8, <1>11
<1> QED  BY <1>1, <1>7, <1>12, UndisturbedTransitive

\* A view change that does not lead out of the first view is recorded at most.
LEMMA ProcessViewChangeFirst ==
  ASSUME NEW r \in ReplicaState, r.view = 0, NEW from \in Replica, NEW m \in ViewChange,
         NEW lost, NEW q \in ProcessViewChange(r, from, m, lost), q.view = 0
  PROVE  Undisturbed(r, q)
<1> DEFINE recorded == RecordViewChangeReceipt(r, from, m)
           joined == MaybeJoinViewChange(recorded, lost)
<1>1. Undisturbed(r, recorded) /\ Keeps(r, recorded)
  BY RecordViewChangeFirst, RecordViewChangeKeeps
<1>2. recorded \in ReplicaState /\ recorded.view = 0
  BY <1>1 DEF Keeps
<1> HIDE DEF recorded
<1>3. joined = recorded \/ Leaves(recorded, joined)
  BY <1>2, MaybeJoinLeaves
<1>4. joined \in ReplicaState
  BY <1>2, <1>3 DEF Leaves
<1> HIDE DEF joined
<1>5. joined.view = 0 => joined = recorded
  BY <1>2, <1>3 DEF Leaves
<1>6. Undisturbed(r, r)
  BY DEF Undisturbed, SameParts
<1>7. \/ q \in {r, recorded, joined}
      \/ m.view # 0 /\ q \in StartNewView(joined, m.view, lost)
  <2>1. CASE m.view < r.view \/ ~ValidViewChange(m)
    BY <2>1 DEF ProcessViewChange
  <2>2. CASE ~(m.view < r.view \/ ~ValidViewChange(m))
    <3>1. m.view # 0
      BY <2>2 DEF ValidViewChange
    <3> QED  BY <2>2, <3>1 DEF ProcessViewChange, recorded, joined
  <2> QED  BY <2>1, <2>2
<1>8. CASE q \in {r, recorded, joined}
  BY <1>1, <1>5, <1>6, <1>8
<1>9. CASE m.view # 0 /\ q \in StartNewView(joined, m.view, lost)
  <2>1. m.view \in Nat
    BY DEF ViewChange
  <2>2. Undisturbed(joined, q)
    BY <1>4, <1>9, <2>1, StartNewViewFirst
  <2>3. joined = recorded
    BY <1>5, <2>2 DEF Undisturbed, SameParts
  <2> QED  BY <1>1, <2>2, <2>3, UndisturbedTransitive
<1> QED  BY <1>7, <1>8, <1>9

LEMMA ReceiveViewChangeFirst ==
  ASSUME TypeOK, InFirstView, FirstInv, NEW e \in net, ReceiveViewChange(e), InFirstView'
  PROVE  FirstInv' /\ StaysActed
<1> DEFINE i == e.to
           r == replica[i]
           m == e.msg
<1>1. /\ i \in Correct /\ i \in Replica /\ r \in ReplicaState /\ r.id = i /\ r.view = 0
      /\ r.outbox = {} /\ e.from \in Replica /\ m \in ViewChange
  BY MessageTypes DEF FirstInv, SaidTruly, TypeOK, Correct, InFirstView, ReceiveViewChange
<1>2. PICK lost : \E q \in IF Taken(e) THEN ProcessViewChange(r, e.from, m, lost) ELSE {r} :
                     Run(q, {e})
  BY DEF ReceiveViewChange
<1>3. PICK q \in IF Taken(e) THEN ProcessViewChange(r, e.from, m, lost) ELSE {r} : Run(q, {e})
  BY <1>2
<1>4. UNCHANGED main
  BY DEF ReceiveViewChange
<1>5. CASE q = r
  BY <1>1, <1>3, <1>4, <1>5, RunSameParts DEF SameParts
<1>6. CASE q \in ProcessViewChange(r, e.from, m, lost)
  <2>1. ViewStep(r, q)
    BY <1>1, <1>6, ProcessViewChangeStep
  <2>2. q \in ReplicaState /\ q.id = i
    BY <1>1, <2>1 DEF ViewStep
  <2>3. replica'[i] = Returned(q)
    BY <1>1, <1>3, <2>2 DEF Run, TypeOK
  <2>4. q.view = 0
    BY <1>1, <2>2, <2>3 DEF InFirstView, Returned, ReplicaState
  <2>5. Undisturbed(r, q)
    BY <1>1, <1>6, <2>4, ProcessViewChangeFirst
  <2> QED  BY <1>1, <1>3, <1>4, <2>5, RunSameParts DEF Undisturbed
<1> QED  BY <1>3, <1>5, <1>6

\* Two states of a replica with the same messages in the slot.
LEMMA SlotAlike ==
  ASSUME NEW r, NEW q, HoldsFirst(r), r.requests \subseteq q.requests,
         q.preprepares = r.preprepares, q.prepares = r.prepares, q.commits = r.commits
  PROVE  /\ HoldsFirst(q)
         /\ Certified(q) <=> Certified(r)
         /\ Decided(q) <=> Decided(r)
<1>1. HoldsFirst(q)
  BY DEF HoldsFirst
<1>2. PrePrepared(q, 0, 1, 0) <=> PrePrepared(r, 0, 1, 0)
  BY DEF PrePrepared, HoldsFirst
<1> QED  BY <1>1, <1>2 DEF Certified, Decided, Committed, Prepared, PreparesOf, CommitsOf

\* A change of the timer, and of the requests seen.
TimerChanged(r, q) ==
    /\ q.id = r.id /\ q.view = r.view /\ q.activeView = r.activeView
    /\ q.lastExecuted = r.lastExecuted
    /\ r.requests \subseteq q.requests /\ q.pending = r.pending
    /\ q.preprepares = r.preprepares /\ q.prepares = r.prepares /\ q.commits = r.commits
    /\ q.ledger = r.ledger /\ q.outbox = r.outbox /\ q.failed = r.failed

\* A step that changes the timer of replica i only, and the requests it has seen.
LEMMA RunTimer ==
  ASSUME TypeOK, InFirstView, FirstInv, NEW i \in Replica, NEW q \in ReplicaState,
         TimerChanged(replica[i], q), StaysArmed(i, q),
         NEW consumed, Run(q, consumed), ProposesOnce'
  PROVE  FirstInv' /\ StaysActed
<1> DEFINE r == replica[i]
<1>1. r \in ReplicaState /\ r.id = i /\ q.id = i /\ q.outbox = {}
  BY DEF TypeOK, TimerChanged
<1>2. ASSUME i \in Correct PROVE MayBecome(i, q) /\ (Acted(r) => Acted(q))
  <2>1. HoldsFirst(r) /\ DoneFirst(r)
    BY <1>2 DEF FirstInv
  <2>2. HoldsFirst(q) /\ (Certified(q) <=> Certified(r)) /\ (Decided(q) <=> Decided(r))
    BY <2>1, SlotAlike DEF TimerChanged
  <2>3. Done(q)
    BY <1>1, <1>2, <2>1, <2>2 DEF DoneFirst, Done, TimerChanged
  <2>4. Acted(r) => Acted(q)
    BY <2>2 DEF Acted, TimerChanged
  <2> QED  BY <2>2, <2>3, <2>4 DEF MayBecome, TimerChanged
<1>3. i \in Correct \ {0} /\ failures = 0 => Acted(q)
  BY <1>2 DEF FirstInv
<1>4. \A o \in q.outbox : MayBeSent(i, q, o.msg)
  BY <1>1
<1>5. /\ i \in Correct => MayBecome(i, q)
      /\ i \in Correct /\ Acted(r) /\ ~q.failed => Acted(q)
  BY <1>2
<1> QED  BY <1>1, <1>3, <1>4, <1>5, RunFirst

LEMMA TimerExpiresFirst ==
  ASSUME TypeOK, InFirstView, FirstInv, NEW i \in Replica, TimerExpires(i)
  PROVE  FirstInv' /\ StaysActed
<1> DEFINE r == replica[i]
           t == r.requestTimer.target
           timer == [r.requestTimer EXCEPT !.running = FALSE]
           fired == r.callbacks \cup {t}
           q == [r EXCEPT !.requestTimer = timer, !.callbacks = fired]
<1>1. r \in ReplicaState /\ r.id = i /\ r.outbox = {} /\ r.failed = FALSE
  BY DEF TypeOK, ReplicaState
<1>2. t \in Nat /\ timer \in Timer /\ fired \in SUBSET Nat
  BY <1>1 DEF ReplicaState, Timer
<1>3. /\ replica' = [replica EXCEPT ![i] = q]
      /\ r.requestTimer.running
      /\ UNCHANGED <<net, main, failures>>
  BY DEF TimerExpires
<1>4. i \in Correct \ {0} => Arming(i) \/ t > 0
  <2>1. ASSUME i \in Correct \ {0}, ~Arming(i) PROVE t > 0
    <3>1. Armed(r)
      BY <1>1, <2>1 DEF FirstInv, DoneFirst, Done
    <3>2. r.requestTimer # NoTimer
      BY <1>3 DEF NoTimer
    <3> QED  BY <3>1, <3>2 DEF Armed
  <2> QED  BY <2>1
<1>5. timer.target = t
  BY <1>1 DEF ReplicaState, Timer
<1> HIDE DEF timer
<1>6. /\ q \in ReplicaState /\ TimerChanged(r, q) /\ q.id = i
      /\ t \in q.callbacks /\ q.requestTimer = timer
  BY <1>1, <1>2 DEF ReplicaState, TimerChanged
<1>7. q.outbox = {} /\ q.failed = FALSE
  BY <1>1, <1>2 DEF ReplicaState
<1> HIDE DEF q, fired
<1>8. StaysArmed(i, q)
  <2>1. t > 0 => q.requestTimer # NoTimer
    BY <1>5, <1>6 DEF NoTimer
  <2>2. t > 0 => Armed(q)
    BY <1>5, <1>6, <2>1 DEF Armed
  <2> QED  BY <1>3, <1>4, <2>2 DEF StaysArmed, Arming
<1>9. Run(q, {})
  <2>1. Returned(q) = q
    BY <1>6, <1>7 DEF Returned, ReplicaState
  <2> QED  BY <1>3, <1>6, <1>7, <2>1, RunSilent
<1>10. ProposesOnce'
  <2>1. 0 \in Correct => /\ replica'[0].sequence = replica[0].sequence
                         /\ replica'[0].preprepares = replica[0].preprepares
                         /\ replica'[0].requests = replica[0].requests
    BY <1>3, <1>6 DEF TypeOK, TimerChanged, Correct, TimerExpires, ReplicaState
  <2> QED  BY <1>3, <2>1 DEF FirstInv, ProposesOnce
<1> QED  BY <1>6, <1>9, <1>8, <1>10, RunTimer

\* The callback of a correct replica leaves the first view.
LEMMA TimerCallbackFirst ==
  ASSUME TypeOK, InFirstView, FirstInv, NEW i \in Replica, NEW v \in 1 .. MaxView,
         TimerCallback(i, v), InFirstView'
  PROVE  FirstInv' /\ StaysActed
<1> DEFINE r == replica[i]
           taken == [r EXCEPT !.callbacks = @ \ {v}]
           vc == ViewChangeFor(taken, v)
           stopped == StopRequestTimer(taken)
           left == [stopped EXCEPT !.view = v, !.activeView = FALSE]
           sent(lost) == Broadcast(left, vc, lost)
           done(lost) == RecordViewChangeReceipt(sent(lost), taken.id, vc)
           q(lost) == StartViewChange(taken, v, lost)
<1>1. r \in ReplicaState /\ r.id = i /\ r.outbox = {} /\ v \in Nat /\ v > 0
  BY BoundAssumption DEF TypeOK
<1>2. PICK lost : Run(q(lost), {})
  BY DEF TimerCallback
<1>3. taken \in ReplicaState /\ taken.id = i /\ taken.view = r.view /\ taken.outbox = {}
  BY <1>1 DEF ReplicaState
<1> HIDE DEF taken
<1>4. vc \in ViewChange /\ vc \in Message /\ vc.type = "ViewChange"
  BY <1>1, <1>3, ViewChangeForType DEF ViewChangeFor
<1>5. NoTimer \in Timer
  BY DEF NoTimer, Timer
<1>6. left \in ReplicaState /\ left.outbox = {} /\ left.view = v /\ left.id = i
  BY <1>1, <1>3, <1>5 DEF StopRequestTimer, ReplicaState
<1> HIDE DEF vc, left
<1>7. Undisturbed(left, sent(lost))
  BY <1>4, <1>6, BroadcastViewFirst
<1>8. sent(lost) \in ReplicaState
  BY <1>7 DEF Undisturbed
<1> HIDE DEF sent
<1>9. Undisturbed(sent(lost), done(lost))
  BY <1>3, <1>4, <1>8, RecordViewChangeFirst DEF ReplicaState
<1> HIDE DEF done
<1>10. /\ Undisturbed(left, sent(lost))
       /\ Undisturbed(left, done(lost))
  BY <1>7, <1>9, UndisturbedTransitive
<1>11. \/ q(lost) = taken /\ v <= r.view
       \/ q(lost) \in {sent(lost), done(lost)}
  BY <1>3, Zenon DEF StartViewChange, done, sent, left, vc, stopped
<1> HIDE DEF q
<1>12. /\ q(lost) \in ReplicaState /\ q(lost).id = i
       /\ \A o \in q(lost).outbox : o.msg.type \in {"ViewChange", "NewView"}
       /\ q(lost) = taken \/ q(lost).view = v
  BY <1>3, <1>6, <1>10, <1>11 DEF Undisturbed, SameParts
<1>13. replica' = [replica EXCEPT ![i] = Returned(q(lost))]
  BY <1>2, <1>12 DEF Run
<1>14. i \notin Correct
  <2>1. SUFFICES ASSUME i \in Correct PROVE FALSE
    OBVIOUS
  <2>2. r.view = 0
    BY <2>1 DEF InFirstView
  <2>3. q(lost).view = v
    BY <1>1, <1>6, <1>10, <1>11, <2>2 DEF Undisturbed, SameParts
  <2>4. replica'[i].view = v
    BY <1>12, <1>13, <2>3 DEF TypeOK, Returned, ReplicaState
  <2> QED  BY <1>1, <2>1, <2>4 DEF InFirstView
<1>15. ProposesOnce'
  <2>1. 0 \in Correct => replica'[0] = replica[0]
    BY <1>13, <1>14 DEF TypeOK, Correct
  <2> QED  BY <2>1 DEF FirstInv, ProposesOnce, TimerCallback
<1>16. \A o \in q(lost).outbox : MayBeSent(i, q(lost), o.msg)
  BY <1>12 DEF MayBeSent
<1>17. StaysArmed(i, q(lost))
  BY <1>14 DEF StaysArmed, Arming, TimerCallback
<1> QED  BY <1>2, <1>12, <1>14, <1>15, <1>16, <1>17, RunFirst

-----------------------------------------------------------------------------
(* The main goroutine. *)

\* At a backup main only looks,
LEMMA MainLooksFirst ==
  ASSUME TypeOK, InFirstView, FirstInv, NEW i \in Replica, MainLooks(i)
  PROVE  FirstInv' /\ StaysActed
<1>1. /\ UNCHANGED <<replica, net, failures>>
      /\ main'.next = main.next /\ main'.call # Outside /\ main'.call.step # "broadcast"
  BY MainLooking DEF Outside
<1>2. \A j : ~Arming(j)
  BY MainLooking DEF Arming, Outside, TypeOK
<1>3. ProposesOnce'
  BY <1>1 DEF FirstInv, ProposesOnce
<1>4. SaidTruly'
  BY <1>1 DEF FirstInv, SaidTruly
<1>5. \A j \in Correct : (HoldsFirst(replica[j]) /\ DoneFirst(replica[j]))'
  BY <1>1, <1>2 DEF FirstInv, DoneFirst
<1>6. FirstInv'
  BY <1>1, <1>3, <1>4, <1>5 DEF FirstInv
<1> QED  BY <1>1, <1>6 DEF StaysActed

\* Once main has returned from the first primary, the rest is about others.
LEMMA ReturnsFirst ==
  ASSUME TypeOK, MainReturns
  PROVE  ProposesOnce'
<1>1. main'.next = main.next + 1 /\ main'.call = Outside /\ main.next \in Nat
  BY DEF MainReturns, TypeOK
<1>2. main'.next # 0 /\ main'.call.step # "broadcast"
  BY <1>1 DEF Outside
<1> QED  BY <1>2 DEF ProposesOnce

\* ... or sets the timer and notes the request.
LEMMA MainTouchesFirst ==
  ASSUME TypeOK, InFirstView, FirstInv, NEW i \in Replica, MainTouches(i)
  PROVE  FirstInv' /\ StaysActed
<1> DEFINE r == replica[i]
<1>1. r \in ReplicaState /\ r.id = i
  BY DEF TypeOK
<1>2. /\ i = main.next /\ main.call # Outside /\ main.call.step \in {"view", "timer", "note"}
      /\ \/ main'.next = main.next /\ main'.call.step \in {"timer", "note"}
         \/ MainReturns
      /\ main'.call.step # "broadcast"
  BY MainTouching
<1>3. ProposesOnce'
  <2>1. CASE MainReturns
    BY <2>1, ReturnsFirst
  <2>2. CASE main'.next = main.next /\ main'.call.step \in {"timer", "note"}
    <3>1. PICK q \in ReplicaState : Touched(r, q, i) /\ Run(q, {})
      BY MainTouching
    <3>2. replica' = [replica EXCEPT ![i] = Returned(q)]
      BY <1>1, <3>1, TouchedFields DEF Run
    <3>3. Returned(q).preprepares = r.preprepares
      BY <1>1, <3>1, TouchedFields DEF Returned, ReplicaState
    <3>4. 0 \in Correct => replica'[0].preprepares = replica[0].preprepares
      BY <3>2, <3>3 DEF TypeOK, Correct
    <3>5. main'.call # Outside
      BY <2>2 DEF Outside
    <3> QED  BY <1>2, <2>2, <3>4, <3>5 DEF FirstInv, ProposesOnce
  <2> QED  BY <1>2, <2>1, <2>2
<1>4. \A j \in Correct \ {i} : ~Arming(j)
  BY <1>2 DEF Arming
<1>5. CASE MainReadsView(i)
  <2>1. PICK running \in {r.requestTimer.running, FALSE} :
           Run([r EXCEPT !.requestTimer.running = running], {})
    BY <1>5 DEF MainReadsView
  <2> DEFINE timer == [r.requestTimer EXCEPT !.running = running]
             q == [r EXCEPT !.requestTimer = timer]
  <2>2. timer \in Timer
    BY <1>1 DEF ReplicaState, Timer
  <2>3. Run(q, {})
    BY <2>1
  <2>4. Arming(i)'
    BY <1>2, <1>5 DEF MainReadsView, Arming, TypeOK
  <2> HIDE DEF timer
  <2>5. q \in ReplicaState /\ TimerChanged(r, q)
    BY <1>1, <2>2 DEF ReplicaState, TimerChanged
  <2> HIDE DEF q
  <2> QED  BY <1>3, <1>4, <2>3, <2>4, <2>5, RunTimer DEF StaysArmed, r
<1>6. CASE MainArmsTimer(i)
  <2> DEFINE timer == [target |-> main.call.target, running |-> TRUE]
             orphan == IF r.requestTimer.running THEN {r.requestTimer.target} ELSE {}
             fired == r.callbacks \cup orphan
             q == [r EXCEPT !.requestTimer = timer, !.callbacks = fired]
  <2>1. Run(q, {})
    BY <1>6, Zenon DEF MainArmsTimer
  <2>2. main.call.target \in Nat \ {0}
    BY <1>6 DEF MainArmsTimer, TypeOK, Calling
  <2>3. timer \in Timer /\ timer.running /\ timer.target > 0 /\ fired \in SUBSET Nat
    BY <1>1, <2>2 DEF ReplicaState, Timer
  <2> HIDE DEF timer, fired
  <2>4. q \in ReplicaState /\ TimerChanged(r, q) /\ q.requestTimer = timer
    BY <1>1, <2>3 DEF ReplicaState, TimerChanged
  <2> HIDE DEF q
  <2>5. Armed(q)
    <3>1. timer # NoTimer
      BY <2>3 DEF NoTimer
    <3> QED  BY <2>3, <2>4, <3>1 DEF Armed
  <2> QED  BY <1>3, <1>4, <2>1, <2>4, <2>5, RunTimer DEF StaysArmed, r
<1>7. CASE MainNotesRequest(i)
  <2> DEFINE q == [r EXCEPT !.requests = @ \cup {i}]
  <2>1. Run(q, {})
    BY <1>7 DEF MainNotesRequest
  <2>2. ~Arming(i) /\ i \in Digest
    BY <1>7 DEF MainNotesRequest, Arming, Digest
  <2>3. i \in Correct \ {0} => Armed(r)
    BY <1>1, <2>2 DEF FirstInv, DoneFirst
  <2>4. /\ q \in ReplicaState /\ TimerChanged(r, q)
        /\ q.requestTimer = r.requestTimer /\ q.pending = r.pending /\ q.callbacks = r.callbacks
    BY <1>1, <2>2 DEF ReplicaState, TimerChanged
  <2> HIDE DEF q
  <2>5. i \in Correct \ {0} => Armed(q)
    BY <2>3, <2>4 DEF Armed
  <2> QED  BY <1>3, <1>4, <2>1, <2>4, <2>5, RunTimer DEF StaysArmed, r
<1> QED  BY <1>5, <1>6, <1>7 DEF MainTouches

\* The first primary, or the second half of its call, when nothing is in the slot.
LEMMA RunPrimary ==
  ASSUME TypeOK, InFirstView, FirstInv, 0 \in Correct, main.next = 0, replica[0].preprepares = {},
         NEW q \in ReplicaState, q.id = 0, q.view = 0, q.activeView = replica[0].activeView,
         q.commits = replica[0].commits, q.ledger = replica[0].ledger,
         HoldsFirst(q), \A o \in q.outbox : o.msg = FirstPrePrepare,
         NEW consumed, Run(q, consumed), ProposesOnce'
  PROVE  FirstInv'
<1> DEFINE r == replica[0]
<1>1. DoneFirst(r) /\ r.id = 0 /\ 0 \in Replica
  BY FirstPrimary DEF FirstInv, TypeOK, Correct
<1>2. ~Certified(r) /\ ~Decided(r)
  BY DEF Certified, Decided, Committed, Prepared, PrePrepared
<1>3. Done(q)
  BY <1>1, <1>2 DEF DoneFirst, Done
<1>4. MayBecome(0, q) /\ StaysArmed(0, q)
  BY <1>2, <1>3 DEF MayBecome, StaysArmed, Arming
<1>5. \A o \in q.outbox : MayBeSent(0, q, o.msg)
  BY DEF MayBeSent
<1> QED  BY <1>1, <1>4, <1>5, RunFirst

LEMMA MainStoresPrePrepareFirst ==
  ASSUME TypeOK, InFirstView, FirstInv, NEW i \in Replica, MainStoresPrePrepare(i)
  PROVE  FirstInv'
<1> DEFINE r == replica[i]
           m == main.call.msg
           stored == {p \in r.preprepares : \A k \in {m} : ~SameSlot(p, k)} \cup {m}
           q == StorePrePrepares(r, {m})
<1>1. /\ r \in ReplicaState /\ r.id = i /\ r.outbox = {}
      /\ i = main.next /\ main.call.step = "broadcast" /\ Run(q, {}) /\ MainReturns
  BY DEF MainStoresPrePrepare, TypeOK
<1>2. m \in PrePrepare
  BY <1>1 DEF TypeOK, Calling
<1>3. q = [r EXCEPT !.preprepares = stored]
  BY DEF StorePrePrepares
<1>4. stored \in SUBSET PrePrepare
  BY <1>1, <1>2 DEF ReplicaState
<1>5. i \in Correct => /\ i = 0 /\ r.preprepares = {} /\ 0 \in r.requests
                       /\ stored = {FirstPrePrepare}
  BY <1>1 DEF FirstInv, ProposesOnce
<1> HIDE DEF stored, q
<1>6. /\ q \in ReplicaState /\ q.id = i /\ q.view = r.view /\ q.activeView = r.activeView
      /\ q.requests = r.requests /\ q.preprepares = stored /\ q.prepares = r.prepares
      /\ q.commits = r.commits /\ q.ledger = r.ledger /\ q.outbox = {}
  BY <1>1, <1>3, <1>4 DEF ReplicaState
<1>7. ProposesOnce'
  BY <1>1, ReturnsFirst
<1>8. CASE i \in Correct
  <2>1. HoldsFirst(r) /\ r.view = 0
    BY <1>8 DEF FirstInv, DoneFirst, Done
  <2>2. HoldsFirst(q)
    BY <1>5, <1>6, <1>8, <2>1 DEF HoldsFirst
  <2> QED  BY <1>1, <1>5, <1>6, <1>7, <1>8, <2>1, <2>2, RunPrimary
<1>9. CASE i \notin Correct
  <2>1. StaysArmed(i, q)
    BY <1>1, <1>9 DEF StaysArmed, Arming
  <2> QED  BY <1>1, <1>6, <1>7, <1>9, <2>1, RunFirst
<1> QED  BY <1>8, <1>9

LEMMA MainProposesFirst ==
  ASSUME TypeOK, InFirstView, FirstInv, NEW i \in Replica, MainProposes(i)
  PROVE  FirstInv'
<1> DEFINE r == replica[i]
           known == [r EXCEPT !.requests = @ \cup {i}]
           noted == Equivocate(known)
           m == [type |-> "PrePrepare", view |-> noted.view, seq |-> noted.sequence + 1,
                 digest |-> i]
           sent(lost) == SendPrePrepares(noted, <<i>>, lost)
           broadcast == [main EXCEPT !.call = [step |-> "broadcast", msg |-> m]]
<1>1. /\ r \in ReplicaState /\ r.id = i /\ r.outbox = {} /\ i \in Digest
      /\ i = main.next /\ main.call = Outside /\ Primary(r.view) = i
  BY DEF TypeOK, Digest, MainProposes, MainEnters, IsPrimary
<1>2. PICK lost :
        \/ i \in r.pending /\ Run(r, {}) /\ MainReturns
        \/ Run(sent(lost), {}) /\ (MainReturns \/ main' = broadcast)
  BY Zenon DEF MainProposes
<1>3. CASE i \in r.pending /\ Run(r, {}) /\ MainReturns
  <2>1. ProposesOnce'
    BY <1>3, ReturnsFirst
  <2>2. i \in Correct => MayBecome(i, r)
    BY DEF FirstInv, DoneFirst, MayBecome
  <2>5. StaysArmed(i, r)
    BY <1>1, FirstPrimary DEF StaysArmed, Arming, InFirstView
  <2>3. i \in Correct \ {0} /\ failures = 0 => Acted(r)
    BY DEF FirstInv
  <2>4. \A o \in r.outbox : MayBeSent(i, r, o.msg)
    BY <1>1
  <2> QED  BY <1>1, <1>3, <2>1, <2>2, <2>3, <2>4, <2>5, RunFirst
<1>4. CASE Run(sent(lost), {}) /\ (MainReturns \/ main' = broadcast)
  <2>1. known \in ReplicaState /\ known.id = i /\ known.view = r.view
    BY <1>1 DEF ReplicaState
  <2>2. /\ known.preprepares = r.preprepares /\ known.prepares = r.prepares
        /\ known.commits = r.commits /\ known.ledger = r.ledger
        /\ known.activeView = r.activeView /\ known.sequence = r.sequence
        /\ known.requests = r.requests \cup {i} /\ known.outbox = {}
    BY <1>1 DEF ReplicaState
  <2> HIDE DEF known
  <2>3. /\ noted \in ReplicaState /\ noted.id = i /\ noted.outbox = {}
        /\ noted.sequence = r.sequence
        /\ i \in Byzantine => noted.view # 0
        /\ i \notin Byzantine => noted = known
    <3>1. CASE i \in Byzantine
      <4> DEFINE n == known.view + 1
      <4>1. noted = [known EXCEPT !.view = n] /\ n \in Nat /\ n # 0
        BY <2>1, <3>1 DEF Equivocate, ReplicaState
      <4> HIDE DEF noted, n
      <4> QED  BY <2>1, <2>2, <3>1, <4>1 DEF ReplicaState
    <3>2. CASE i \notin Byzantine
      <4>1. noted = known
        BY <2>1, <3>2 DEF Equivocate
      <4> HIDE DEF noted
      <4> QED  BY <2>1, <2>2, <3>2, <4>1
    <3> QED  BY <3>1, <3>2
  <2> HIDE DEF noted
  <2>4. <<i>> \in Seq(Digest) /\ Range(<<i>>) = {i}
    BY <1>1 DEF Range
  <2>5. PrePreparesFor(noted, <<i>>) = {m}
    <3>1. DOMAIN <<i>> = {1} /\ <<i>>[1] = i
      OBVIOUS
    <3> QED  BY <3>1, Zenon DEF PrePreparesFor
  <2> DEFINE q == sent(lost)
             ms == {k \in PrePreparesFor(noted, <<i>>) : ~ConflictingPrePrepare(noted, k)}
             x == [msg |-> m, failed |-> Fails(m, lost)]
             o == noted.outbox \cup {[msg |-> k, failed |-> Fails(k, lost)] : k \in ms}
             f == noted.failed \/ \E k \in ms : Fails(k, lost)
             requests == noted.requests \cup Range(<<i>>)
             pending == noted.pending \cup Range(<<i>>)
             sequence == noted.sequence + Len(<<i>>)
  <2>6. Keeps(noted, q)
    BY <2>3, <2>4, SendPrePreparesKeeps
  <2>7. o \subseteq {x}
    BY <2>3, <2>5
  <2>8. q = [noted EXCEPT !.requests = requests, !.pending = pending, !.sequence = sequence,
                          !.outbox = o, !.failed = f]
    BY Zenon DEF SendPrePrepares
  <2> HIDE DEF q, ms
  <2>9. q.outbox = o /\ q.requests = requests /\ q.ledger = noted.ledger
    BY <2>3, <2>8 DEF ReplicaState
  <2> HIDE DEF o, f, pending, sequence
  <2>10. \A y \in q.outbox : y.msg = m
    BY <2>7, <2>9
  <2>11. q \in ReplicaState /\ q.id = i /\ q.view = noted.view
    BY <2>3, <2>6 DEF Keeps
  <2>12. CASE i \in Correct
    <3>1. HoldsFirst(r) /\ r.view = 0
      BY <2>12 DEF FirstInv, DoneFirst, Done
    <3>2. i = 0 /\ r.preprepares = {} /\ r.sequence = 0
      BY <1>1, <2>12, <3>1, FirstPrimary DEF FirstInv, ProposesOnce
    <3>3. noted = known /\ noted.view = 0 /\ noted.sequence = 0
      BY <2>1, <2>2, <2>3, <2>12, <3>1, <3>2 DEF Correct
    <3>4. m = FirstPrePrepare
      BY <3>2, <3>3 DEF FirstPrePrepare
    <3>5. /\ q.preprepares = {} /\ q.prepares = r.prepares /\ q.commits = r.commits
          /\ q.ledger = r.ledger /\ q.activeView = r.activeView /\ 0 \in q.requests
      BY <2>2, <2>4, <2>6, <2>9, <3>2, <3>3 DEF Keeps
    <3>6. HoldsFirst(q)
      BY <3>1, <3>5 DEF HoldsFirst
    <3>7. ProposesOnce'
      <4>1. CASE MainReturns
        BY <4>1, ReturnsFirst
      <4>2. CASE main' = broadcast
        <5>1. main'.call = [step |-> "broadcast", msg |-> FirstPrePrepare]
          BY <3>4, <4>2 DEF TypeOK
        <5>2. /\ main'.next = 0 /\ main'.call # Outside
              /\ main'.call.msg = FirstPrePrepare
          BY <1>1, <3>2, <4>2, <5>1 DEF TypeOK, Outside
        <5>3. replica'[0].preprepares = {} /\ 0 \in replica'[0].requests
          <6>1. replica' = [replica EXCEPT ![0] = Returned(q)]
            BY <1>4, <2>11, <3>2 DEF Run, q
          <6>2. Returned(q).preprepares = {} /\ 0 \in Returned(q).requests
            BY <2>11, <3>5 DEF Returned, ReplicaState
          <6> QED  BY <3>2, <6>1, <6>2 DEF TypeOK
        <5> QED  BY <5>2, <5>3 DEF ProposesOnce
      <4> QED  BY <1>4, <4>1, <4>2
    <3>8. Run(q, {})
      BY <1>4 DEF q
    <3> HIDE DEF m, r
    <3>9. \A y \in q.outbox : y.msg = FirstPrePrepare
      BY <2>10, <3>4
    <3> QED  BY <2>11, <2>12, <3>2, <3>3, <3>5, <3>6, <3>7, <3>8, <3>9, <1>1, RunPrimary DEF r
  <2>13. CASE i \notin Correct
    <3>1. m.type = "PrePrepare" /\ m.view # 0
      BY <2>3, <2>13 DEF Correct
    <3>2. \A y \in q.outbox : MayBeSent(i, q, y.msg)
      BY <2>10, <3>1 DEF MayBeSent
    <3>3. main'.next \in Correct => main'.next # 0 /\ main'.call.step # "broadcast"
      <4>1. CASE MainReturns
        BY <4>1 DEF MainReturns, TypeOK, Outside
      <4>2. CASE main' = broadcast
        BY <1>1, <2>13, <4>2 DEF TypeOK
      <4> QED  BY <1>4, <4>1, <4>2
    <3>4. ProposesOnce'
      BY <3>3 DEF ProposesOnce
    <3>5. Run(q, {})
      BY <1>4 DEF q
    <3>6. StaysArmed(i, q)
      BY <1>1, <2>13 DEF StaysArmed, Arming
    <3> QED  BY <2>11, <2>13, <3>2, <3>4, <3>5, <3>6, RunFirst
  <2> QED  BY <2>12, <2>13
<1> QED  BY <1>2, <1>3, <1>4

-----------------------------------------------------------------------------
(* The invariant. *)

LEMMA FirstInitially == Init => FirstInv
<1> SUFFICES ASSUME Init PROVE FirstInv
  OBVIOUS
<1>1. \A i \in Replica : replica[i] = NewReplica(i)
  BY DEF Init
<1>2. \A i \in Correct : HoldsFirst(replica[i]) /\ DoneFirst(replica[i])
  <2>1. \A i \in Replica : HoldsFirst(NewReplica(i)) /\ DoneFirst(NewReplica(i))
    BY DEF NewReplica, HoldsFirst, DoneFirst, Done, Armed
  <2> QED  BY <1>1, <2>1 DEF Correct
<1>3. \A i \in Correct \ {0} : Acted(replica[i])
  <2>1. \A i \in Replica : Acted(NewReplica(i))
    BY DEF NewReplica, Acted, Certified, Decided, Committed, Prepared, PrePrepared
  <2> QED  BY <1>1, <2>1 DEF Correct
<1>4. SaidTruly
  BY <1>1 DEF Init, SaidTruly, NewReplica, Correct
<1>5. ProposesOnce
  BY <1>1, OutsideCalling DEF Init, ProposesOnce, NewReplica, Correct
<1> QED  BY <1>2, <1>3, <1>4, <1>5 DEF FirstInv

LEMMA FirstNext ==
  ASSUME Inv, FirstInv, InFirstView, Next, InFirstView'
  PROVE  FirstInv'
<1> USE DEF Inv
<1>1. ASSUME NEW e \in net, Receive(e) PROVE FirstInv'
  BY <1>1, ReceiveNormalFirst, ReceiveViewChangeFirst, ReceiveNewViewFirst DEF Receive
<1>2. ASSUME NEW i \in Replica, TimerExpires(i) PROVE FirstInv'
  BY <1>2, TimerExpiresFirst
<1>3. ASSUME NEW i \in Replica, NEW v \in 1 .. MaxView, TimerCallback(i, v) PROVE FirstInv'
  BY <1>3, TimerCallbackFirst
<1>4. ASSUME Main PROVE FirstInv'
  BY <1>4, MainSteps, MainLooksFirst, MainTouchesFirst, MainProposesFirst,
     MainStoresPrePrepareFirst
<1> QED  BY <1>1, <1>2, <1>3, <1>4 DEF Next, Timers

\* Views only grow: in the first view a replica has always been there.
LEMMA FirstStep == Inv /\ FirstInv /\ [Next]_vars => FirstInv'
<1> SUFFICES ASSUME Inv, FirstInv, [Next]_vars, InFirstView' PROVE FirstInv'
  BY DEF FirstInv
<1>1. CASE Next
  <2>1. TypeOK' /\ ReplicasStep
    BY <1>1, NextStep
  <2>2. InFirstView
    BY <2>1 DEF Inv, TypeOK, InFirstView, ReplicasStep, ViewStep, ReplicaState, Correct
  <2> QED  BY <1>1, <2>2, FirstNext
<1>2. CASE UNCHANGED vars
  <2>1. UNCHANGED <<replica, net, main, failures>> /\ InFirstView
    BY <1>2 DEF vars, InFirstView
  <2>2. SaidTruly' /\ ProposesOnce'
    BY <2>1 DEF FirstInv, SaidTruly, ProposesOnce
  <2>3. \A j \in Correct : (HoldsFirst(replica[j]) /\ DoneFirst(replica[j]))'
    BY <2>1 DEF FirstInv, DoneFirst, Arming
  <2> QED  BY <2>1, <2>2, <2>3 DEF FirstInv
<1> QED  BY <1>1, <1>2

\* The invariant in a cluster that is in its first view.
LEMMA FirstAlways == Spec => [](Inv /\ FirstInv)
<1>1. Init => Inv /\ FirstInv
  BY Initially, FirstInitially
<1>2. Inv /\ FirstInv /\ [Next]_vars => (Inv /\ FirstInv)'
  BY InvStep, FirstStep
<1> QED  BY <1>1, <1>2, PTL DEF Spec

\* The chain file of a correct replica in the first view.
LEMMA FirstLedger ==
  ASSUME FirstInv, InFirstView, NEW i \in Correct
  PROVE  /\ DOMAIN Ledger(i) \subseteq {1}
         /\ \A k \in DOMAIN Ledger(i) : Ledger(i)[k] = FirstBlock /\ Decided(replica[i])
<1>1. Ledger(i) = <<>> \/ (Ledger(i) = <<FirstBlock>> /\ Decided(replica[i]))
  BY DEF FirstInv, DoneFirst, Done, Ledger
<1> HIDE DEF Ledger
<1> QED  BY <1>1

(***************************************************************************)
(* As long as every correct replica is in its first view, their chain      *)
(* files never differ: whatever a Byzantine primary sends, whatever is     *)
(* lost, and however main and the handlers of the primary interleave.      *)
(***************************************************************************)
THEOREM FirstViewAgrees == Spec => [](InFirstView => LedgerAgreement)
<1>1. Inv /\ FirstInv => (InFirstView => LedgerAgreement)
  BY FirstLedger DEF LedgerAgreement
<1> QED  BY <1>1, FirstAlways, PTL

(***************************************************************************)
(* In the first view a request is executed once, although main hands it to *)
(* the primary without the replica's lock.                                 *)
(***************************************************************************)
THEOREM FirstViewExecutesOnce == Spec => [](InFirstView => ExecutesOnce)
<1>1. Inv /\ FirstInv => (InFirstView => ExecutesOnce)
  BY FirstLedger DEF ExecutesOnce
<1> QED  BY <1>1, FirstAlways, PTL

(***************************************************************************)
(* In the first view no two Commits name different requests: under way or  *)
(* received, they are for the one request that the primary has proposed.   *)
(***************************************************************************)
THEOREM FirstViewCommitsAgree == Spec => [](InFirstView => CommitAgreement)
<1>1. Inv /\ FirstInv => (InFirstView => CommitAgreement)
  <2> SUFFICES ASSUME FirstInv, InFirstView PROVE CommitAgreement
    OBVIOUS
  <2>1. \A m \in CommitsSeen : m = FirstCommit
    BY DEF CommitsSeen, FirstInv, SaidTruly, HoldsFirst
  <2> QED  BY <2>1 DEF CommitAgreement
<1> QED  BY <1>1, FirstAlways, PTL

(***************************************************************************)
(* What is executed in the first view is certified: 2f+1 correct replicas  *)
(* hold its pre-prepare and a quorum of Prepares for it, although the code *)
(* counts the receipts of a slot without looking at their digests.         *)
(***************************************************************************)
THEOREM FirstViewIsCertified == Spec => [](InFirstView => ExecutedIsCertified)
<1>1. Inv /\ FirstInv => (InFirstView => ExecutedIsCertified)
  <2> SUFFICES ASSUME Inv, FirstInv, InFirstView, NEW i \in Correct, NEW k \in DOMAIN Ledger(i)
               PROVE  LET b == Ledger(i)[k] IN
                      Cardinality({j \in Correct :
                                     Certifies(replica[j], b.view, b.seq, b.digest)})
                        >= CommitQuorum
    BY DEF ExecutedIsCertified
  <2> DEFINE S == {j \in Correct : Certified(replica[j])}
             r == replica[i]
             b == Ledger(i)[k]
  <2>1. b = FirstBlock /\ Decided(r)
    BY FirstLedger
  <2>2. r \in ReplicaState /\ HoldsFirst(r) /\ S \in SUBSET Replica
    BY DEF Inv, TypeOK, Correct, FirstInv
  <2>3. \A x \in r.commits : x = [from |-> x.from, msg |-> FirstCommit] /\ x.from \in S
    BY <2>2 DEF FirstInv, SaidTruly, HoldsFirst, ReplicaState, CommitReceipt
  <2>4. Cardinality(r.commits) >= CommitQuorum
    BY <2>1, <2>2, SlotReceipts DEF Decided, Committed
  <2> HIDE DEF r
  <2>5. Cardinality(S) \in Nat /\ Cardinality(S) >= CommitQuorum
    <3> DEFINE T == r.commits
    <3>1. S \in SUBSET Replica /\ Cardinality(T) >= CommitQuorum
      BY <2>2, <2>4
    <3>2. \A x \in T : x = [from |-> x.from, msg |-> FirstCommit] /\ x.from \in S
      BY <2>3
    <3> HIDE DEF S, T
    <3>3. /\ Cardinality(T) \in Nat /\ Cardinality(S) \in Nat
          /\ Cardinality(T) <= Cardinality(S)
      BY <3>1, <3>2, OneMessage
    <3> QED  BY <3>1, <3>3, Quorums
  <2>6. {j \in Correct : Certifies(replica[j], b.view, b.seq, b.digest)} = S
    <3>1. b.view = 0 /\ b.seq = 1 /\ b.digest = 0
      BY <2>1 DEF FirstBlock
    <3>2. \A j \in Correct : replica[j].view = 0
      BY DEF InFirstView
    <3> HIDE DEF b
    <3> QED  BY <3>1, <3>2 DEF Certifies, Certified
  <2> HIDE DEF S
  <2> QED  BY <2>5, <2>6
<1> QED  BY <1>1, FirstAlways, PTL

\* A replica that has acted on the slot acts on all its quorums.
LEMMA ActedActs ==
  ASSUME Inv, FirstInv, InFirstView, NEW i \in Correct, Acted(replica[i])
  PROVE  ActsOnQuorums(i)
<1> DEFINE r == replica[i]
<1>1. r \in ReplicaState /\ r.id = i /\ r.view = 0 /\ HoldsFirst(r)
  BY DEF Inv, TypeOK, Correct, FirstInv, InFirstView
<1>2. ASSUME NEW p \in r.preprepares
      PROVE  p.view = 0 /\ p.seq = 1 /\ p.digest = 0
  BY <1>1, <1>2 DEF HoldsFirst, FirstPrePrepare
<1>3. CommitsOf(r, 0, 1) = r.commits
  BY <1>1, SlotReceipts
<1>4. 1 = r.lastExecuted + 1 => r.lastExecuted = 0
  BY <1>1 DEF ReplicaState
<1>5. ASSUME NEW p \in r.preprepares
      PROVE  /\ Prepared(r, p.view, p.seq, p.digest)
                  => \E x \in CommitsOf(r, p.view, p.seq) : x.from = i
             /\ Committed(r, p.view, p.seq, p.digest) /\ p.seq = r.lastExecuted + 1
                  => p.digest \notin r.pending
  <2>1. p.view = 0 /\ p.seq = 1 /\ p.digest = 0
    BY <1>2
  <2>2. Acted(r)
    OBVIOUS
  <2> HIDE DEF r
  <2> QED  BY <1>1, <1>3, <1>4, <2>1, <2>2 DEF Acted, Certified, Decided
<1> QED  BY <1>5, Zenon DEF ActsOnQuorums

(***************************************************************************)
(* In the first view a backup acts on every quorum it holds, in whatever   *)
(* order the pre-prepare, the Prepares and the Commits have come, unless a *)
(* broadcast has failed.                                                   *)
(***************************************************************************)
THEOREM FirstViewActs == Spec => [](InFirstView => BackupsActOnQuorums)
<1>1. Inv /\ FirstInv => (InFirstView => BackupsActOnQuorums)
  <2> SUFFICES ASSUME Inv, FirstInv, InFirstView, failures = 0,
                      NEW i \in Correct, ~IsPrimary(replica[i])
               PROVE  ActsOnQuorums(i)
    BY DEF BackupsActOnQuorums
  <2>1. replica[i].id = i /\ replica[i].view = 0
    BY DEF Inv, TypeOK, Correct, InFirstView
  <2>2. Acted(replica[i])
    BY <2>1, FirstPrimary DEF IsPrimary, FirstInv
  <2> QED  BY <2>2, ActedActs
<1> QED  BY <1>1, FirstAlways, PTL

(***************************************************************************)
(* In the first view a backup with a pending request has a timer, running  *)
(* or with its callback waiting, that leads to a later view, or main is    *)
(* about to set one: main's reads and writes of the timer without the lock *)
(* lose none.                                                              *)
(***************************************************************************)
THEOREM FirstViewTimers == Spec => [](InFirstView => TimerCoverage)
<1>1. Inv /\ FirstInv => (InFirstView => TimerCoverage)
  <2> SUFFICES ASSUME Inv, FirstInv, InFirstView, NEW i \in Correct,
                      ~IsPrimary(replica[i]), replica[i].pending # {}
               PROVE  \/ /\ replica[i].requestTimer.running
                         /\ replica[i].requestTimer.target > replica[i].view
                      \/ \E v \in replica[i].callbacks : v > replica[i].view
                      \/ /\ i = main.next /\ main.call.step = "timer"
                         /\ main.call.target > replica[i].view
    BY DEF TimerCoverage
  <2>1. replica[i].id = i /\ replica[i].view = 0
    BY DEF Inv, TypeOK, Correct, InFirstView
  <2>2. Armed(replica[i]) \/ Arming(i)
    BY <2>1, FirstPrimary DEF IsPrimary, FirstInv, DoneFirst, Done
  <2>3. Arming(i) => main.call.target > 0
    BY DEF Arming, Inv, TypeOK, Calling
  <2> QED  BY <2>1, <2>2, <2>3 DEF Armed, Arming
<1> QED  BY <1>1, FirstAlways, PTL

=============================================================================
