---------------------------- MODULE CarryProofs -----------------------------
(***************************************************************************)
(* Proofs about one view change: what a replica has executed in the first  *)
(* view is carried into the next one, for every cluster in which two       *)
(* quorums meet, every choice of Byzantine replicas and of failures, main  *)
(* racing the handlers and broadcasts of NewViews that fail included.      *)
(*                                                                         *)
(* The argument counts.  A replica executes in the first view only when    *)
(* 2f+1 replicas are certified, and these leave that view as certified as  *)
(* they are: their ViewChanges say so.  A NewView forgets the request only *)
(* if 2f+1 replicas have left the first view uncertified.  Who has left    *)
(* how is not to be seen in the state, because a replica drops its         *)
(* certificate when it enters the next view; the set C of those who left   *)
(* certified is therefore a parameter of the invariant, and grows.         *)
(***************************************************************************)
EXTENDS NormalProofs, AgreementProofs

-----------------------------------------------------------------------------
(* Quorums. *)

\* Two quorums of 2f+1 have a replica in common.
QuorumsMeet == 2 * CommitQuorum > N

\* Of the clusters that NewReplica builds, only one of six replicas is without
\* (core.go): there f is 1, and six replicas hold two quorums of three.
LEMMA OnlySix == QuorumsMeet <=> N # 6
  BY ClusterAssumption DEF QuorumsMeet, CommitQuorum, F, CalcByzantineTolerance,
                           MinimumReplicaCount

\* Where two quorums meet, any two sets that large have a replica in common.
LEMMA QuorumsIntersect ==
  ASSUME QuorumsMeet, NEW S \in SUBSET Replica, NEW T \in SUBSET Replica,
         Cardinality(S) >= CommitQuorum, Cardinality(T) >= CommitQuorum
  PROVE  S \cap T # {}
<1> SUFFICES ASSUME S \cap T = {} PROVE FALSE
  OBVIOUS
<1>1. IsFiniteSet(S) /\ IsFiniteSet(T) /\ IsFiniteSet(S \cup T)
  <2>1. S \cup T \in SUBSET Replica
    OBVIOUS
  <2> QED  BY <2>1, ReplicaFinite, FS_Subset
<1>2. Cardinality(S \cup T) = Cardinality(S) + Cardinality(T)
  <2>1. Cardinality(S \cup T) = Cardinality(S) + Cardinality(T) - Cardinality(S \cap T)
    BY <1>1, FS_Union
  <2>2. Cardinality(S \cap T) = 0
    BY FS_EmptySet
  <2>3. Cardinality(S) \in Nat /\ Cardinality(T) \in Nat
    BY <1>1, FS_CardinalityType
  <2> QED  BY <2>1, <2>2, <2>3
<1>3. Cardinality(S \cup T) <= Cardinality(Replica)
  BY ReplicaFinite, FS_Subset
<1>4. Cardinality(Replica) = N
  BY ClusterAssumption, FS_Interval DEF Replica, MinimumReplicaCount
<1>5. /\ Cardinality(S) \in Nat /\ Cardinality(T) \in Nat /\ N \in Nat
  BY <1>1, FS_CardinalityType, ClusterAssumption
<1> QED  BY <1>2, <1>3, <1>4, <1>5, Quorums DEF QuorumsMeet

\* A slot holds finitely many receipts.
LEMMA SlotFinite ==
  ASSUME NEW r \in ReplicaState, NEW v, NEW s
  PROVE  IsFiniteSet(PreparesOf(r, v, s)) /\ IsFiniteSet(CommitsOf(r, v, s))
<1> DEFINE Key == Replica \X Digest
           f == [x \in PreparesOf(r, v, s) |-> <<x.from, x.msg.digest>>]
           g == [x \in CommitsOf(r, v, s) |-> <<x.from, x.msg.digest>>]
<1>1. IsFiniteSet(Key)
  BY ReplicaFinite, DigestFinite, FS_Product
<1>2. f \in Injection(PreparesOf(r, v, s), Key)
  <2>1. \A x \in PreparesOf(r, v, s) :
          /\ x.from \in Replica /\ x.msg.digest \in Digest
          /\ x = [from |-> x.from, msg |-> x.msg]
          /\ x.msg = [type |-> "Prepare", view |-> v, seq |-> s, digest |-> x.msg.digest]
    BY DEF PreparesOf, ReplicaState, PrepareReceipt, Prepare
  <2>2. f \in [PreparesOf(r, v, s) -> Key]
    BY <2>1
  <2>3. \A x, y \in PreparesOf(r, v, s) : f[x] = f[y] => x = y
    <3> TAKE x \in PreparesOf(r, v, s), y \in PreparesOf(r, v, s)
    <3>1. f[x] = f[y] => x.from = y.from /\ x.msg.digest = y.msg.digest
      OBVIOUS
    <3> HIDE DEF f
    <3> QED  BY <2>1, <3>1
  <2> HIDE DEF f, Key
  <2> QED  BY <2>2, <2>3 DEF Injection, IsInjective
<1>3. g \in Injection(CommitsOf(r, v, s), Key)
  <2>1. \A x \in CommitsOf(r, v, s) :
          /\ x.from \in Replica /\ x.msg.digest \in Digest
          /\ x = [from |-> x.from, msg |-> x.msg]
          /\ x.msg = [type |-> "Commit", view |-> v, seq |-> s, digest |-> x.msg.digest]
    BY DEF CommitsOf, ReplicaState, CommitReceipt, Commit
  <2>2. g \in [CommitsOf(r, v, s) -> Key]
    BY <2>1
  <2>3. \A x, y \in CommitsOf(r, v, s) : g[x] = g[y] => x = y
    <3> TAKE x \in CommitsOf(r, v, s), y \in CommitsOf(r, v, s)
    <3>1. g[x] = g[y] => x.from = y.from /\ x.msg.digest = y.msg.digest
      OBVIOUS
    <3> HIDE DEF g
    <3> QED  BY <2>1, <3>1
  <2> HIDE DEF g, Key
  <2> QED  BY <2>2, <2>3 DEF Injection, IsInjective
<1> HIDE DEF f, g, Key
<1> QED  BY <1>1, <1>2, <1>3, FS_Injection

\* A certificate stays one as long as its pre-prepare and its Prepares stay,
LEMMA PreparedGrows ==
  ASSUME NEW r \in ReplicaState, NEW q \in ReplicaState, NEW v, NEW s, NEW d,
         PrePrepared(r, v, s, d) => PrePrepared(q, v, s, d),
         r.prepares \subseteq q.prepares
  PROVE  Prepared(r, v, s, d) => Prepared(q, v, s, d)
<1>1. PreparesOf(r, v, s) \subseteq PreparesOf(q, v, s)
  BY DEF PreparesOf
<1>2. IsFiniteSet(PreparesOf(q, v, s))
  BY SlotFinite
<1>3. /\ Cardinality(PreparesOf(r, v, s)) \in Nat /\ Cardinality(PreparesOf(q, v, s)) \in Nat
      /\ Cardinality(PreparesOf(r, v, s)) <= Cardinality(PreparesOf(q, v, s))
  BY <1>1, <1>2, FS_Subset, FS_CardinalityType
<1> QED  BY <1>3, Quorums DEF Prepared

\* ... and so does what is committed.
LEMMA CommittedGrows ==
  ASSUME NEW r \in ReplicaState, NEW q \in ReplicaState, NEW v, NEW s, NEW d,
         PrePrepared(r, v, s, d) => PrePrepared(q, v, s, d),
         r.prepares \subseteq q.prepares, r.commits \subseteq q.commits
  PROVE  Committed(r, v, s, d) => Committed(q, v, s, d)
<1>1. CommitsOf(r, v, s) \subseteq CommitsOf(q, v, s)
  BY DEF CommitsOf
<1>2. IsFiniteSet(CommitsOf(q, v, s))
  BY SlotFinite
<1>3. /\ Cardinality(CommitsOf(r, v, s)) \in Nat /\ Cardinality(CommitsOf(q, v, s)) \in Nat
      /\ Cardinality(CommitsOf(r, v, s)) <= Cardinality(CommitsOf(q, v, s))
  BY <1>1, <1>2, FS_Subset, FS_CardinalityType
<1> QED  BY <1>3, PreparedGrows, Quorums DEF Committed

-----------------------------------------------------------------------------
(* What a handler of the normal case adds to a replica and to its ledger. *)

\* It stays in its view, and drops nothing it holds.
Adds(r, q) ==
    /\ q \in ReplicaState
    /\ q.id = r.id /\ q.view = r.view /\ q.activeView = r.activeView
    /\ q.sequence = r.sequence /\ q.lastExecuted = r.lastExecuted
    /\ q.viewChanges = r.viewChanges
    /\ r.requests \subseteq q.requests
    /\ r.preprepares \subseteq q.preprepares
    /\ r.prepares \subseteq q.prepares
    /\ r.commits \subseteq q.commits
    /\ \A p \in q.preprepares : p \in r.preprepares \/ p.digest \in q.requests

\* For a message of slot (v, s) and digest d that comes with the receipts in H:
\* it sends a Commit when it is prepared, and adds one block when it is committed.
Attests(r, q, v, s, d, H) ==
    /\ Adds(r, q)
    /\ \A o \in q.outbox : \/ o \in r.outbox
                           \/ o.msg.type = "Prepare"
                           \/ o.msg.type = "Commit" /\ Prepared(q, v, s, d)
    /\ \A x \in q.commits : \/ x \in r.commits
                            \/ x \in H
                            \/ x.from = r.id /\ Prepared(q, v, s, d)
    /\ \/ q.ledger = r.ledger
       \/ /\ s = r.lastExecuted + 1 /\ Committed(q, v, s, d)
          /\ q.ledger = Append(r.ledger, [view |-> v, seq |-> s, digest |-> d])

\* What is added is not lost again.
LEMMA AddsGrows ==
  ASSUME NEW r \in ReplicaState, NEW q, Adds(r, q), NEW v, NEW s, NEW d
  PROVE  /\ Prepared(r, v, s, d) => Prepared(q, v, s, d)
         /\ Committed(r, v, s, d) => Committed(q, v, s, d)
<1>1. PrePrepared(r, v, s, d) => PrePrepared(q, v, s, d)
  BY DEF PrePrepared, Adds
<1> QED  BY <1>1, PreparedGrows, CommittedGrows DEF Adds

\* A method that does nothing,
LEMMA AttestsReflexive ==
  ASSUME NEW r \in ReplicaState, NEW v, NEW s, NEW d, NEW H
  PROVE  Attests(r, r, v, s, d, H)
  BY DEF Attests, Adds

\* ... and one method after another, of which one at most adds a block.
LEMMA AttestsTransitive ==
  ASSUME NEW r \in ReplicaState, NEW p \in ReplicaState, NEW q, NEW v, NEW s, NEW d, NEW H,
         Attests(r, p, v, s, d, H), Attests(p, q, v, s, d, H),
         p.ledger = r.ledger \/ q.ledger = p.ledger
  PROVE  Attests(r, q, v, s, d, H)
<1>1. Adds(r, q)
  BY DEF Attests, Adds
<1>2. /\ Prepared(p, v, s, d) => Prepared(q, v, s, d)
      /\ Committed(p, v, s, d) => Committed(q, v, s, d)
  BY AddsGrows DEF Attests
<1>3. p.lastExecuted = r.lastExecuted /\ p.id = r.id
  BY DEF Attests, Adds
<1> QED  BY <1>1, <1>2, <1>3 DEF Attests

\* The timer adds nothing.
LEMMA StopTimerAttests ==
  ASSUME NEW r \in ReplicaState, NEW v, NEW s, NEW d, NEW H
  PROVE  /\ Attests(r, StopRequestTimer(r), v, s, d, H)
         /\ StopRequestTimer(r).ledger = r.ledger
<1>1. NoTimer \in Timer
  BY DEF NoTimer, Timer
<1> QED  BY <1>1 DEF StopRequestTimer, Attests, Adds, ReplicaState

\* ... nor does starting it.
LEMMA StartTimerAttests ==
  ASSUME NEW r \in ReplicaState, NEW override \in BOOLEAN, NEW v, NEW s, NEW d, NEW H
  PROVE  /\ Attests(r, StartRequestTimer(r, override), v, s, d, H)
         /\ StartRequestTimer(r, override).ledger = r.ledger
<1> DEFINE timer == [target |-> r.view + 1, running |-> TRUE]
<1>1. timer \in Timer
  BY DEF Timer, ReplicaState
<1> HIDE DEF timer
<1>2. /\ Attests(r, [r EXCEPT !.requestTimer = timer], v, s, d, H)
      /\ [r EXCEPT !.requestTimer = timer].ledger = r.ledger
  BY <1>1 DEF Attests, Adds, ReplicaState
<1> QED  BY <1>2, AttestsReflexive, Zenon DEF StartRequestTimer, TargetView, timer

\* What is executed is committed.
LEMMA ExecuteAttests ==
  ASSUME NEW r \in ReplicaState, NEW v \in Nat, NEW s \in Nat, NEW d \in Digest, NEW lost, NEW H,
         Committed(r, v, s, d)
  PROVE  Attests(r, Execute(r, v, s, d, lost), v, s, d, H)
<1> DEFINE fails == <<"Block", 0>> \in lost
           block == [view |-> v, seq |-> s, digest |-> d]
           ledger == IF fails THEN r.ledger ELSE Append(r.ledger, block)
           f == r.failed \/ fails
           written == [r EXCEPT !.pending = @ \ {d}, !.ledger = ledger, !.failed = f]
           executed == StopRequestTimer(written)
           q == Execute(r, v, s, d, lost)
<1>1. CASE s # r.lastExecuted + 1
  <2>1. q = r
    BY <1>1, Zenon DEF Execute
  <2> HIDE DEF q
  <2> QED  BY <2>1, AttestsReflexive DEF q
<1>2. CASE s = r.lastExecuted + 1
  <2>1. ledger \in Seq(Block) /\ f \in BOOLEAN
    <3>1. block \in Block  BY DEF Block
    <3>2. r.ledger \in Seq(Block)  BY DEF ReplicaState
    <3> QED  BY <3>1, <3>2
  <2>2. ledger = r.ledger \/ ledger = Append(r.ledger, block)
    OBVIOUS
  <2> HIDE DEF ledger, f, block
  <2>3. /\ written \in ReplicaState /\ Adds(r, written)
        /\ written.outbox = r.outbox /\ written.commits = r.commits /\ written.ledger = ledger
    BY <2>1 DEF Adds, ReplicaState
  <2> HIDE DEF written
  <2>4. Committed(written, v, s, d)
    BY <2>3, AddsGrows
  <2>5. Attests(r, written, v, s, d, H)
    BY <1>2, <2>2, <2>3, <2>4 DEF Attests, block
  <2>6. /\ executed \in ReplicaState /\ Attests(written, executed, v, s, d, H)
        /\ executed.ledger = written.ledger
    BY <2>3, StopTimerAttests DEF Attests, Adds
  <2> HIDE DEF executed
  <2>7. Attests(r, executed, v, s, d, H)
    BY <2>3, <2>5, <2>6, AttestsTransitive
  <2>8. /\ Attests(executed, StartRequestTimer(executed, TRUE), v, s, d, H)
        /\ StartRequestTimer(executed, TRUE).ledger = executed.ledger
    BY <2>6, StartTimerAttests
  <2>9. Attests(r, StartRequestTimer(executed, TRUE), v, s, d, H)
    BY <2>6, <2>7, <2>8, AttestsTransitive
  <2>10. q \in {r, executed, StartRequestTimer(executed, TRUE)}
    BY Zenon DEF Execute, executed, written, ledger, f, block
  <2> HIDE DEF q
  <2> QED  BY <2>7, <2>9, <2>10, AttestsReflexive DEF q
<1> QED  BY <1>1, <1>2

\* What is broadcast is a Prepare, or a Commit for what is prepared.
LEMMA BroadcastAttests ==
  ASSUME NEW r \in ReplicaState, NEW m \in Message, NEW lost, NEW v, NEW s, NEW d, NEW H,
         m.type = "Prepare" \/ (m.type = "Commit" /\ Prepared(r, v, s, d))
  PROVE  /\ Attests(r, Broadcast(r, m, lost), v, s, d, H)
         /\ Broadcast(r, m, lost).ledger = r.ledger
<1> DEFINE o == r.outbox \cup {[msg |-> m, failed |-> Fails(m, lost)]}
           f == r.failed \/ Fails(m, lost)
           q == [r EXCEPT !.outbox = o, !.failed = f]
<1>1. \A x \in o : x \in r.outbox \/ x.msg = m
  OBVIOUS
<1>2. o \in SUBSET [msg : Message, failed : BOOLEAN] /\ f \in BOOLEAN
  <2>1. Fails(m, lost) \in BOOLEAN
    BY DEF Fails
  <2> QED  BY <2>1 DEF ReplicaState
<1>3. Broadcast(r, m, lost) = q
  BY DEF Broadcast
<1> HIDE DEF o, f
<1>4. /\ Adds(r, q) /\ q.outbox = o /\ q.commits = r.commits /\ q.ledger = r.ledger
  BY <1>2 DEF Adds, ReplicaState
<1> HIDE DEF q
<1>5. Prepared(r, v, s, d) => Prepared(q, v, s, d)
  BY <1>4, AddsGrows
<1>6. Attests(r, q, v, s, d, H)
  BY <1>1, <1>4, <1>5 DEF Attests
<1> QED  BY <1>3, <1>4, <1>6

\* A Commit that is recorded has been received, or is the replica's own.
LEMMA RecordCommitAttests ==
  ASSUME NEW r \in ReplicaState, NEW from \in Replica, NEW m \in Commit,
         NEW v, NEW s, NEW d, NEW H,
         [from |-> from, msg |-> m] \in H \/ (from = r.id /\ Prepared(r, v, s, d))
  PROVE  /\ Attests(r, RecordCommitReceipt(r, from, m), v, s, d, H)
         /\ RecordCommitReceipt(r, from, m).ledger = r.ledger
<1> DEFINE x == [from |-> from, msg |-> m]
           q == [r EXCEPT !.commits = @ \cup {x}]
<1>1. RecordCommitReceipt(r, from, m) \in {r, q}
  BY Zenon DEF RecordCommitReceipt
<1>2. x \in CommitReceipt /\ x.from = from
  BY DEF CommitReceipt
<1>3. x \in H \/ (from = r.id /\ Prepared(r, v, s, d))
  OBVIOUS
<1> HIDE DEF x
<1>4. /\ Adds(r, q) /\ q.outbox = r.outbox /\ q.commits = r.commits \cup {x}
      /\ q.ledger = r.ledger
  BY <1>2 DEF Adds, ReplicaState
<1> HIDE DEF q
<1>5. Prepared(r, v, s, d) => Prepared(q, v, s, d)
  BY <1>4, AddsGrows
<1>6. Attests(r, q, v, s, d, H)
  BY <1>2, <1>3, <1>4, <1>5 DEF Attests
<1> QED  BY <1>1, <1>4, <1>6, AttestsReflexive

\* A Commit is sent, recorded and acted on only when the replica is prepared.
LEMMA MaybeSendCommitAttests ==
  ASSUME NEW r \in ReplicaState, NEW v \in Nat, NEW s \in Nat, NEW d \in Digest, NEW lost, NEW H
  PROVE  Attests(r, MaybeSendCommit(r, v, s, d, lost), v, s, d, H)
<1> DEFINE commit == [type |-> "Commit", view |-> v, seq |-> s, digest |-> d]
           sent == Broadcast(r, commit, lost)
           done == RecordCommitReceipt(sent, r.id, commit)
           executed == Execute(done, v, s, d, lost)
           q == MaybeSendCommit(r, v, s, d, lost)
<1>1. CASE ~ShouldSendCommit(r, v, s, d)
  <2>1. q = r
    BY <1>1, Zenon DEF MaybeSendCommit
  <2> HIDE DEF q
  <2> QED  BY <2>1, AttestsReflexive DEF q
<1>2. CASE ShouldSendCommit(r, v, s, d)
  <2>1. Prepared(r, v, s, d)
    BY <1>2 DEF ShouldSendCommit
  <2>2. commit \in Commit /\ commit \in Message /\ commit.type = "Commit" /\ r.id \in Replica
    BY DEF Commit, Message, ReplicaState
  <2> HIDE DEF commit
  <2>3. Attests(r, sent, v, s, d, H) /\ sent.ledger = r.ledger
    BY <2>1, <2>2, BroadcastAttests
  <2>4. sent \in ReplicaState /\ sent.id = r.id /\ Prepared(sent, v, s, d)
    BY <2>1, <2>3, AddsGrows DEF Attests, Adds
  <2> HIDE DEF sent
  <2>5. Attests(sent, done, v, s, d, H) /\ done.ledger = sent.ledger
    BY <2>2, <2>4, RecordCommitAttests
  <2>6. done \in ReplicaState /\ Attests(r, done, v, s, d, H) /\ done.ledger = r.ledger
    <3>1. done \in ReplicaState
      BY <2>5 DEF Attests, Adds
    <3> QED  BY <2>3, <2>4, <2>5, <3>1, AttestsTransitive
  <2> HIDE DEF done
  <2>7. Committed(done, v, s, d) => Attests(r, executed, v, s, d, H)
    BY <2>6, ExecuteAttests, AttestsTransitive
  <2> HIDE DEF executed
  <2>8. q = IF Fails(commit, lost) THEN sent
            ELSE IF Committed(done, v, s, d) THEN executed ELSE done
    <3>1. CASE Fails(commit, lost)
      BY <1>2, <3>1 DEF MaybeSendCommit, commit, sent
    <3>2. CASE ~Fails(commit, lost)
      BY <1>2, <3>2, Zenon DEF MaybeSendCommit, commit, sent, done, executed
    <3> QED  BY <3>1, <3>2
  <2> HIDE DEF q
  <2> QED  BY <2>3, <2>6, <2>7, <2>8 DEF q
<1> QED  BY <1>1, <1>2

\* The handler of a Commit,
LEMMA ProcessCommitAttests ==
  ASSUME NEW r \in ReplicaState, NEW from \in Replica, NEW m \in Commit, NEW lost
  PROVE  LET q == ProcessCommit(r, from, m, lost) IN
         /\ Attests(r, q, m.view, m.seq, m.digest, {[from |-> from, msg |-> m]})
         /\ q = r \/ m.view = r.view
<1> DEFINE v == m.view
           s == m.seq
           d == m.digest
           H == {[from |-> from, msg |-> m]}
           recorded == RecordCommitReceipt(r, from, m)
           executed == Execute(recorded, v, s, d, lost)
           q == ProcessCommit(r, from, m, lost)
<1>1. v \in Nat /\ s \in Nat /\ d \in Digest /\ [from |-> from, msg |-> m] \in H
  BY DEF Commit
<1> HIDE DEF v, s, d, H
<1>2. CASE m.view # r.view
  <2>1. q = r
    BY <1>2, Zenon DEF ProcessCommit
  <2> HIDE DEF q
  <2> QED  BY <2>1, AttestsReflexive DEF q, v, s, d, H
<1>3. CASE m.view = r.view
  <2>1. Attests(r, recorded, v, s, d, H) /\ recorded.ledger = r.ledger
    BY <1>1, RecordCommitAttests
  <2>2. recorded \in ReplicaState
    BY <2>1 DEF Attests, Adds
  <2> HIDE DEF recorded
  <2>3. Committed(recorded, v, s, d) => Attests(r, executed, v, s, d, H)
    BY <1>1, <2>1, <2>2, ExecuteAttests, AttestsTransitive
  <2> HIDE DEF executed
  <2>4. q = IF Committed(recorded, v, s, d) THEN executed ELSE recorded
    BY <1>3, Zenon DEF ProcessCommit, recorded, executed, v, s, d
  <2> HIDE DEF q
  <2>5. Attests(r, q, v, s, d, H)
    BY <2>1, <2>3, <2>4
  <2> QED  BY <1>3, <2>5 DEF q, v, s, d, H
<1> QED  BY <1>2, <1>3

\* ... of a Prepare,
LEMMA ProcessPrepareAttests ==
  ASSUME NEW r \in ReplicaState, NEW from \in Replica, NEW m \in Prepare, NEW lost, NEW H
  PROVE  LET q == ProcessPrepare(r, from, m, lost) IN
         /\ Attests(r, q, m.view, m.seq, m.digest, H)
         /\ q = r \/ m.view = r.view
<1> DEFINE v == m.view
           s == m.seq
           d == m.digest
           x == [from |-> from, msg |-> m]
           p == [r EXCEPT !.prepares = @ \cup {x}]
           recorded == RecordPrepareReceipt(r, from, m)
           sent == MaybeSendCommit(recorded, v, s, d, lost)
           q == ProcessPrepare(r, from, m, lost)
<1>1. v \in Nat /\ s \in Nat /\ d \in Digest /\ x \in PrepareReceipt
  BY DEF Prepare, PrepareReceipt
<1>2. CASE from = Primary(r.view) \/ m.view # r.view
  <2>1. q = r
    BY <1>2, Zenon DEF ProcessPrepare
  <2> HIDE DEF q, v, s, d
  <2> QED  BY <2>1, AttestsReflexive DEF q, v, s, d
<1>3. CASE ~(from = Primary(r.view) \/ m.view # r.view)
  <2> HIDE DEF v, s, d
  <2>1. Attests(r, recorded, v, s, d, H) /\ recorded.ledger = r.ledger
    <3>1. recorded \in {r, p}
      BY Zenon DEF RecordPrepareReceipt
    <3> HIDE DEF x, recorded
    <3>2. Attests(r, p, v, s, d, H) /\ p.ledger = r.ledger
      BY <1>1 DEF Attests, Adds, ReplicaState
    <3> HIDE DEF p
    <3> QED  BY <3>1, <3>2, AttestsReflexive
  <2>2. recorded \in ReplicaState
    BY <2>1 DEF Attests, Adds
  <2> HIDE DEF recorded
  <2>3. Attests(r, sent, v, s, d, H)
    BY <1>1, <2>1, <2>2, MaybeSendCommitAttests, AttestsTransitive
  <2> HIDE DEF sent
  <2>4. q = sent
    BY <1>3, Zenon DEF ProcessPrepare, recorded, sent, v, s, d
  <2> HIDE DEF q
  <2> QED  BY <1>3, <2>3, <2>4 DEF q, v, s, d
<1> QED  BY <1>2, <1>3

\* A backup has the requests of the pre-prepares it accepts.
LEMMA AcceptAttests ==
  ASSUME NEW r \in ReplicaState, NEW ms \in SUBSET PrePrepare, NEW lost,
         NEW v, NEW s, NEW d, NEW H
  PROVE  LET q == AcceptPrePrepares(r, ms, lost) IN
         Attests(r, q, v, s, d, H) /\ q.ledger = r.ledger
<1> DEFINE prepareFor(m) == [m EXCEPT !.type = "Prepare"]
           accepted == {m \in ms : \A p \in r.preprepares : ~SameSlot(p, m)}
           answers == {prepareFor(m) : m \in accepted}
           own == {[from |-> r.id, msg |-> p] : p \in {a \in answers : ~Fails(a, lost)}}
           receipts == {o \in own : \A x \in r.prepares : x.from # r.id \/ ~SameSlot(x.msg, o.msg)}
           o == r.outbox \cup {[msg |-> a, failed |-> Fails(a, lost)] : a \in answers}
           f == r.failed \/ \E a \in answers : Fails(a, lost)
           digests == {m.digest : m \in accepted}
           taken == [r EXCEPT !.preprepares = @ \cup accepted,
                              !.requests = @ \cup digests,
                              !.pending = @ \cup digests,
                              !.prepares = @ \cup receipts,
                              !.outbox = o,
                              !.failed = f]
           timed == StartRequestTimer(taken, FALSE)
<1>1. accepted \in SUBSET PrePrepare
  OBVIOUS
<1>2. \A a \in answers : a \in Prepare /\ a.type = "Prepare"
  <2>1. \A m \in PrePrepare : prepareFor(m) \in Prepare /\ prepareFor(m).type = "Prepare"
    BY DEF PrePrepare, Prepare
  <2> HIDE DEF prepareFor, accepted
  <2> QED  BY <1>1, <2>1
<1>3. digests \in SUBSET Digest /\ \A m \in accepted : m.digest \in digests
  BY <1>1 DEF PrePrepare
<1>4. r.id \in Replica /\ r.outbox \in SUBSET [msg : Message, failed : BOOLEAN]
  BY DEF ReplicaState
<1>5. /\ accepted = {} => AcceptPrePrepares(r, ms, lost) = r
      /\ accepted # {} => AcceptPrePrepares(r, ms, lost) = timed
  BY Zenon DEF AcceptPrePrepares
<1> HIDE DEF accepted, answers, digests
<1>6. receipts \in SUBSET PrepareReceipt
  BY <1>2, <1>4 DEF PrepareReceipt
<1>7. o \in SUBSET [msg : Message, failed : BOOLEAN] /\ f \in BOOLEAN
  <2>1. \A a \in answers : a \in Message /\ Fails(a, lost) \in BOOLEAN
    BY <1>2, SMT DEF Message, Fails
  <2> QED  BY <1>4, <2>1
<1>8. \A x \in o : x \in r.outbox \/ x.msg.type = "Prepare"
  BY <1>2
<1> HIDE DEF receipts, o, f
<1>9. Adds(r, taken) /\ taken \in ReplicaState /\ taken.ledger = r.ledger
      /\ taken.outbox = o /\ taken.commits = r.commits
  BY <1>1, <1>3, <1>6, <1>7 DEF ReplicaState, Adds
<1> HIDE DEF taken
<1>10. Attests(r, taken, v, s, d, H)
  BY <1>8, <1>9 DEF Attests
<1>11. Attests(taken, timed, v, s, d, H) /\ timed.ledger = taken.ledger
  BY <1>9, StartTimerAttests
<1> HIDE DEF timed
<1>12. Attests(r, timed, v, s, d, H)
  BY <1>9, <1>10, <1>11, AttestsTransitive
<1> QED  BY <1>5, <1>9, <1>11, <1>12, AttestsReflexive

\* ... and of a pre-prepare.
LEMMA ProcessPrePrepareAttests ==
  ASSUME NEW r \in ReplicaState, NEW from \in Replica, NEW m \in PrePrepare, NEW lost, NEW H
  PROVE  Attests(r, ProcessPrePrepare(r, from, m, lost), m.view, m.seq, m.digest, H)
<1> DEFINE v == m.view
           s == m.seq
           d == m.digest
           taken == AcceptPrePrepares(r, {m}, lost)
           sent == MaybeSendCommit(taken, v, s, d, lost)
           q == ProcessPrePrepare(r, from, m, lost)
<1>1. v \in Nat /\ s \in Nat /\ d \in Digest
  BY DEF PrePrepare
<1>2. q \in {r, taken, sent}
  BY DEF ProcessPrePrepare
<1> HIDE DEF v, s, d
<1>3. Attests(r, taken, v, s, d, H) /\ taken.ledger = r.ledger
  BY AcceptAttests
<1>4. taken \in ReplicaState
  BY <1>3 DEF Attests, Adds
<1> HIDE DEF taken
<1>5. Attests(r, sent, v, s, d, H)
  BY <1>1, <1>3, <1>4, MaybeSendCommitAttests, AttestsTransitive
<1> HIDE DEF sent, q
<1>6. Attests(r, q, v, s, d, H)
  BY <1>2, <1>3, <1>5, AttestsReflexive
<1> QED  BY <1>6 DEF q, v, s, d

-----------------------------------------------------------------------------
(* The invariant.  Its parameters are the replicas rs of the cluster, and  *)
(* the set C of those that have left the first view certified.             *)

\* No correct replica has gone beyond its second view.
AtMostOneChange == \A i \in Correct : replica[i].view <= 1

\* The pre-prepare that carries the request of the first view into the second,
NextPrePrepare == [type |-> "PrePrepare", view |-> 1, seq |-> 1, digest |-> 0]

\* ... in the slot of the second view that corresponds to the one of the first.
InNext(m) == m.view = 1 /\ m.seq = 1

\* Replica j is certified, or was when it left the first view.
Holder(rs, C, j) == j \in C \/ (rs[j].view = 0 /\ Certified(rs[j]))

\* A quorum is certified.
Secured(rs, C) == Cardinality({j \in Replica : Holder(rs, C, j)}) >= CommitQuorum

\* A quorum has left without a certificate.
Forgotten(rs, C) == Cardinality({j \in Replica : rs[j].view > 0 /\ j \notin C}) >= CommitQuorum

\* The certificate of the first view.
Certificate(p) ==
    /\ p.view = 0 /\ p.seq = 1 /\ p.digest = 0
    /\ Cardinality(p.prepares) >= PrepareQuorum
    /\ \A x \in p.prepares : x.msg = FirstPrepare

\* A ViewChange for the second view says that its sender has left the first, and
\* whether it was certified.
Reports(rs, C, j, m) ==
    m.view = 1 =>
      /\ rs[j].view > 0
      /\ \A p \in m.prepares : Certificate(p)
      /\ j \in C => m.prepares # {}

\* What replica r holds from the first view, and of view changes.
HeldTruly(rs, C, r) ==
    /\ \A m \in r.preprepares : m.view = 0 => m = FirstPrePrepare
    /\ \A x \in r.prepares : x.msg.view = 0 => x.msg = FirstPrepare
    /\ \A x \in r.commits : x.msg.view = 0 => x.msg = FirstCommit /\ Holder(rs, C, x.from)
    /\ \A x \in r.viewChanges : Reports(rs, C, x.from, x.msg)

\* It leaves the first view once, and keeps its certificate till it enters another.
LeftTruly(C, r) ==
    /\ r.view = 0 => r.activeView
    /\ r.lastExecuted = 0
    /\ r.id \in C /\ ~r.activeView => Certified(r)

\* What it has executed in the first view is certified at a quorum.
WroteTruly(rs, C, r) ==
    \A k \in DOMAIN r.ledger :
       r.ledger[k].view = 0 => r.ledger[k] = FirstBlock /\ Secured(rs, C)

\* Backup r has the request in the corresponding slot of the second view.
Carried(r) ==
    /\ NextPrePrepare \in r.preprepares /\ 0 \in r.requests
    /\ \A m \in r.preprepares : SameSlot(m, NextPrePrepare) => m = NextPrePrepare

\* Nothing in the second view contradicts the request.
CarriedOver(r) ==
    /\ r.view = 1 /\ r.activeView /\ r.id # 1 => Carried(r)
    /\ \A x \in r.prepares \cup r.commits : InNext(x.msg) => x.msg.digest = 0
    /\ \A k \in DOMAIN r.ledger :
          r.ledger[k].view = 1 => r.ledger[k].seq = 1 /\ r.ledger[k].digest = 0

Local(rs, C, r) ==
    /\ HeldTruly(rs, C, r)
    /\ LeftTruly(C, r)
    /\ WroteTruly(rs, C, r)
    /\ ~Forgotten(rs, C) => CarriedOver(r)

\* What replica j has sent.
Sends(rs, C, j, m) ==
    /\ m.type = "PrePrepare" /\ m.view = 0 => m = FirstPrePrepare
    /\ m.type = "Prepare" /\ m.view = 0 => m = FirstPrepare
    /\ m.type = "Commit" /\ m.view = 0 => m = FirstCommit /\ Holder(rs, C, j)
    /\ m.type \in {"Prepare", "Commit"} /\ InNext(m) /\ ~Forgotten(rs, C) => m.digest = 0
    /\ m.type = "ViewChange" => m.view > 0 /\ Reports(rs, C, j, m)
    /\ m.type = "NewView" /\ m.view = 1 =>
         \/ m.preprepares = <<NextPrePrepare>>
         \/ m.preprepares = <<>> /\ Forgotten(rs, C)

\* Main proposes once in the first view.
MainFirstSlot ==
    /\ main.next = 0 /\ main.call = Outside /\ replica[0].view = 0 => replica[0].sequence = 0
    /\ main.call.step = "broadcast" /\ main.call.msg.view = 0 => main.call.msg = FirstPrePrepare

Carry(C) ==
    /\ \A j \in C : replica[j].view > 0
    /\ \A i \in Byzantine : replica[i].prepares = {}
    /\ \A i \in Correct : Local(replica, C, replica[i])
    /\ \A e \in net : e.to \in Correct /\ Sends(replica, C, e.from, e.msg)
    /\ MainFirstSlot

CarryInv == AtMostOneChange => \E C \in SUBSET Correct : Carry(C)

-----------------------------------------------------------------------------
(* What every step keeps. *)

\* Nobody who held a certificate is forgotten when C becomes D, and nobody who
\* has left without one is said to have had it.
Follows(C, D) ==
    \A j \in Replica :
       /\ replica[j].view > 0 => replica'[j].view > 0 /\ (j \in D => j \in C)
       /\ Holder(replica, C, j) => Holder(replica', D, j)

\* A quorum that is certified stays so, and so does one that has left without.
LEMMA SecuredStays ==
  ASSUME NEW C, NEW D, Follows(C, D)
  PROVE  /\ Secured(replica, C) => Secured(replica', D)
         /\ Forgotten(replica, C) => Forgotten(replica', D)
<1> DEFINE A == {j \in Replica : Holder(replica, C, j)}
           B == {j \in Replica : Holder(replica', D, j)}
           G == {j \in Replica : replica[j].view > 0 /\ j \notin C}
           H == {j \in Replica : replica'[j].view > 0 /\ j \notin D}
<1>1. A \subseteq B /\ B \subseteq Replica /\ G \subseteq H /\ H \subseteq Replica
  BY DEF Follows
<1>2. /\ Secured(replica, C) <=> Cardinality(A) >= CommitQuorum
      /\ Secured(replica', D) <=> Cardinality(B) >= CommitQuorum
      /\ Forgotten(replica, C) <=> Cardinality(G) >= CommitQuorum
      /\ Forgotten(replica', D) <=> Cardinality(H) >= CommitQuorum
  BY DEF Secured, Forgotten
<1> HIDE DEF A, B, G, H
<1>3. \A S, T \in SUBSET Replica : S \subseteq T =>
        Cardinality(S) \in Nat /\ Cardinality(T) \in Nat /\ Cardinality(S) <= Cardinality(T)
  BY ReplicaFinite, FS_Subset, FS_CardinalityType
<1>4. /\ Cardinality(A) \in Nat /\ Cardinality(B) \in Nat /\ Cardinality(A) <= Cardinality(B)
      /\ Cardinality(G) \in Nat /\ Cardinality(H) \in Nat /\ Cardinality(G) <= Cardinality(H)
  BY <1>1, <1>3
<1> QED  BY <1>2, <1>4, Quorums

\* What a ViewChange has reported stays true.
LEMMA ReportsStay ==
  ASSUME NEW C, NEW D, Follows(C, D), NEW j \in Replica, NEW m, Reports(replica, C, j, m)
  PROVE  Reports(replica', D, j, m)
  BY DEF Reports, Follows

\* That holds of what has been sent,
LEMMA SendsStay ==
  ASSUME NEW C, NEW D, Follows(C, D), NEW j \in Replica, NEW m, Sends(replica, C, j, m)
  PROVE  Sends(replica', D, j, m)
<1>1. Holder(replica, C, j) => Holder(replica', D, j)
  BY DEF Follows
<1> QED  BY <1>1, SecuredStays, ReportsStay DEF Sends

\* ... of what a replica has received,
LEMMA HeldStays ==
  ASSUME NEW C, NEW D, Follows(C, D), NEW r \in ReplicaState, HeldTruly(replica, C, r)
  PROVE  HeldTruly(replica', D, r)
<1>1. /\ \A x \in r.commits : x.from \in Replica
      /\ \A x \in r.viewChanges : x.from \in Replica
  BY DEF ReplicaState, CommitReceipt, ViewChangeReceipt
<1>2. \A x \in r.commits : Holder(replica, C, x.from) => Holder(replica', D, x.from)
  BY <1>1 DEF Follows
<1>3. \A x \in r.viewChanges : Reports(replica', D, x.from, x.msg)
  BY <1>1, ReportsStay DEF HeldTruly
<1> QED  BY <1>2, <1>3 DEF HeldTruly

\* ... and of all that the invariant says of a replica.
LEMMA LocalStays ==
  ASSUME NEW C, NEW D, Follows(C, D), NEW r \in ReplicaState, Local(replica, C, r),
         r.id \in D => r.id \in C
  PROVE  Local(replica', D, r)
<1>1. HeldTruly(replica', D, r)
  BY HeldStays DEF Local
<1>2. LeftTruly(D, r)
  BY DEF Local, LeftTruly
<1>3. WroteTruly(replica', D, r)
  BY SecuredStays DEF Local, WroteTruly
<1>4. ~Forgotten(replica', D) => CarriedOver(r)
  BY SecuredStays DEF Local
<1> QED  BY <1>1, <1>2, <1>3, <1>4 DEF Local

\* Those who have left certified after a step of replica i.
LeftWith(C, i) ==
    C \cup {j \in {i} : replica[i].view = 0 /\ replica'[i].view > 0 /\ Certified(replica[i])}

\* A step of one replica that keeps its certificate as long as it stays in the
\* first view is followed by the set that counts how it left.
LEMMA StepFollows ==
  ASSUME TypeOK, TypeOK', ReplicasStep, NEW C, \A j \in C : replica[j].view > 0,
         NEW i \in Replica, \A j \in Replica \ {i} : replica'[j] = replica[j],
         replica[i].view = 0 /\ replica'[i].view = 0 /\ Certified(replica[i])
           => Certified(replica'[i]),
         NEW D, D = LeftWith(C, i)
  PROVE  /\ Follows(C, D)
         /\ C \subseteq Replica => \A j \in D : replica'[j].view > 0
<1>1. \A j \in Replica : /\ replica[j].view \in Nat /\ replica'[j].view \in Nat
                         /\ replica'[j].view >= replica[j].view
  BY DEF TypeOK, ReplicaState, ReplicasStep, ViewStep
<1>2. \A j \in Replica : replica[j].view > 0 => replica'[j].view > 0 /\ (j \in D => j \in C)
  BY <1>1 DEF LeftWith
<1>3. ASSUME NEW j \in Replica, Holder(replica, C, j)
      PROVE  Holder(replica', D, j)
  <2>1. CASE j = i
    BY <1>1, <1>3, <2>1 DEF Holder, LeftWith
  <2>2. CASE j # i
    BY <1>3, <2>2 DEF Holder, LeftWith
  <2> QED  BY <2>1, <2>2
<1>4. C \subseteq Replica => \A j \in D : replica'[j].view > 0
  BY <1>1 DEF LeftWith
<1> QED  BY <1>2, <1>3, <1>4 DEF Follows

\* A certificate holds Prepares.
LEMMA CertifiedHolds ==
  ASSUME NEW r \in ReplicaState, NEW v, NEW s, NEW d, Prepared(r, v, s, d)
  PROVE  \E x \in r.prepares : x.msg.view = v /\ x.msg.seq = s
<1> SUFFICES ASSUME PreparesOf(r, v, s) = {} PROVE FALSE
  BY DEF PreparesOf
<1>1. Cardinality(PreparesOf(r, v, s)) = 0
  BY FS_EmptySet
<1> QED  BY <1>1, ToleratesOne DEF Prepared, PrepareQuorum

\* Two states of a replica that differ in nothing but the timer, the counters and
\* the requests seen.
Alike(r, q) ==
    /\ q.id = r.id /\ q.view = r.view /\ q.activeView = r.activeView
    /\ q.lastExecuted = r.lastExecuted /\ q.ledger = r.ledger
    /\ q.preprepares = r.preprepares /\ q.prepares = r.prepares /\ q.commits = r.commits
    /\ q.viewChanges = r.viewChanges
    /\ r.requests \subseteq q.requests

\* The invariant does not tell them apart,
LEMMA AlikeLocal ==
  ASSUME NEW r, NEW q, Alike(r, q), NEW rs, NEW C
  PROVE  /\ Local(rs, C, r) => Local(rs, C, q)
         /\ Certified(r) => Certified(q)
<1>1. Certified(r) => Certified(q)
  BY DEF Alike, Certified, Prepared, PrePrepared, PreparesOf
<1>2. HeldTruly(rs, C, r) => HeldTruly(rs, C, q)
  BY DEF Alike, HeldTruly
<1>3. LeftTruly(C, r) => LeftTruly(C, q)
  BY <1>1 DEF Alike, LeftTruly
<1>4. WroteTruly(rs, C, r) => WroteTruly(rs, C, q)
  BY DEF Alike, WroteTruly
<1>5. CarriedOver(r) => CarriedOver(q)
  BY DEF Alike, CarriedOver, Carried
<1> QED  BY <1>1, <1>2, <1>3, <1>4, <1>5 DEF Local

\* ... and they differ before and after the method returns.
LEMMA ReturnedAlike ==
  ASSUME NEW q \in ReplicaState
  PROVE  Alike(q, Returned(q)) /\ Returned(q).sequence = q.sequence
  BY DEF Alike, Returned, ReplicaState

\* Running a method: who has left, and how, is known after it.
LEMMA RunFollows ==
  ASSUME TypeOK, TypeOK', ReplicasStep, NEW C \in SUBSET Correct, Carry(C),
         NEW i \in Replica, NEW q \in ReplicaState, q.id = i, NEW consumed, Run(q, consumed),
         replica[i].view = 0 /\ q.view = 0 /\ Certified(replica[i]) => Certified(q),
         NEW D, D = LeftWith(C, i)
  PROVE  /\ Follows(C, D) /\ D \in SUBSET Correct
         /\ \A j \in D : replica'[j].view > 0
         /\ \A j \in Replica \ {i} : replica'[j] = replica[j]
         /\ replica'[i] = Returned(q)
<1>1. replica' = [replica EXCEPT ![i] = Returned(q)] /\ replica \in [Replica -> ReplicaState]
  BY DEF Run, TypeOK
<1>2. /\ \A j \in Replica \ {i} : replica'[j] = replica[j]
      /\ replica'[i] = Returned(q)
  BY <1>1
<1>3. replica'[i].view = q.view /\ (Certified(q) => Certified(replica'[i]))
  BY <1>2, ReturnedAlike, AlikeLocal DEF Alike
<1>4. \A j \in C : replica[j].view > 0
  BY DEF Carry
<1>5. Correct \subseteq Replica
  BY DEF Correct
<1>6. Follows(C, D) /\ \A j \in D : replica'[j].view > 0
  BY <1>2, <1>3, <1>4, <1>5, StepFollows
<1>7. Certified(replica[i]) => i \in Correct
  <2> SUFFICES ASSUME Certified(replica[i]), i \in Byzantine PROVE FALSE
    BY DEF Correct
  <2>1. replica[i].prepares = {}
    BY DEF Carry
  <2>2. replica[i] \in ReplicaState
    BY <1>1
  <2> QED  BY <2>1, <2>2, CertifiedHolds DEF Certified
<1>8. D \in SUBSET Correct
  BY <1>7 DEF LeftWith
<1> QED  BY <1>2, <1>6, <1>8

\* It keeps the invariant, if its replica holds and sends what it should.
LEMMA RunCarries ==
  ASSUME TypeOK, TypeOK', ReplicasStep, NEW C \in SUBSET Correct, Carry(C),
         NEW i \in Replica, NEW q \in ReplicaState, q.id = i, NEW consumed, Run(q, consumed),
         replica[i].view = 0 /\ q.view = 0 /\ Certified(replica[i]) => Certified(q),
         NEW D, D = LeftWith(C, i),
         i \in Byzantine => q.prepares = {},
         i \in Correct => Local(replica', D, q),
         \A o \in q.outbox : Sends(replica', D, i, o.msg),
         MainFirstSlot'
  PROVE  D \in SUBSET Correct /\ Carry(D)'
<1>1. /\ Follows(C, D) /\ D \in SUBSET Correct
      /\ \A j \in D : replica'[j].view > 0
      /\ \A j \in Replica \ {i} : replica'[j] = replica[j]
      /\ replica'[i] = Returned(q)
  BY RunFollows
<1>2. Alike(q, Returned(q))
  BY ReturnedAlike
<1>3. \A j \in Byzantine : replica'[j].prepares = {}
  BY <1>1, <1>2, ByzantineAssumption DEF Carry, Alike
<1>4. ASSUME NEW j \in Correct PROVE Local(replica', D, replica'[j])
  <2>1. CASE j = i
    BY <1>1, <1>2, <2>1, AlikeLocal
  <2>2. CASE j # i
    <3>1. replica'[j] = replica[j] /\ replica[j] \in ReplicaState /\ replica[j].id = j
      BY <1>1, <2>2 DEF TypeOK, Correct
    <3>2. Local(replica, C, replica[j])
      BY DEF Carry
    <3>3. j \in D => j \in C
      BY <2>2 DEF LeftWith
    <3> QED  BY <1>1, <3>1, <3>2, <3>3, LocalStays
  <2> QED  BY <2>1, <2>2
<1>5. ASSUME NEW e \in net' PROVE e.to \in Correct /\ Sends(replica', D, e.from, e.msg)
  <2>1. CASE e \in net
    <3>1. e.from \in Replica
      BY <2>1 DEF TypeOK, Envelope
    <3> QED  BY <1>1, <2>1, <3>1, SendsStay DEF Carry
  <2>2. CASE e \in Posted(q)
    BY <2>2 DEF Posted
  <2> QED  BY <2>1, <2>2, RunPosts
<1> QED  BY <1>1, <1>3, <1>4, <1>5 DEF Carry

\* Main waits, while the first primary does not propose.
LEMMA MainFirstStays ==
  ASSUME TypeOK, TypeOK', ReplicasStep, MainFirstSlot, UNCHANGED main,
         replica'[0].view = 0 => replica'[0].sequence = replica[0].sequence
  PROVE  MainFirstSlot'
<1>1. 0 \in Replica
  BY FirstPrimary
<1>2. replica[0].view \in Nat /\ replica'[0].view \in Nat /\ replica'[0].view >= replica[0].view
  BY <1>1 DEF TypeOK, ReplicaState, ReplicasStep, ViewStep
<1> QED  BY <1>2 DEF MainFirstSlot

\* A method that changes nothing of all this, and proposes at most.
LEMMA AlikeCarries ==
  ASSUME TypeOK, TypeOK', ReplicasStep, NEW C \in SUBSET Correct, Carry(C),
         NEW i \in Replica, NEW q \in ReplicaState, NEW consumed, Run(q, consumed),
         Alike(replica[i], q), MainFirstSlot',
         \A o \in q.outbox :
            o.msg.type = "PrePrepare" /\ (o.msg.view = 0 => o.msg = FirstPrePrepare),
         NEW D, D = LeftWith(C, i)
  PROVE  D \in SUBSET Correct /\ Carry(D)'
<1>1. replica[i] \in ReplicaState /\ replica[i].id = i
  BY DEF TypeOK
<1>2. q.id = i /\ q.view = replica[i].view /\ q.prepares = replica[i].prepares
  BY <1>1 DEF Alike
<1>3. Certified(replica[i]) => Certified(q)
  BY AlikeLocal
<1>4. Follows(C, D) /\ replica'[i] = Returned(q)
  BY <1>2, <1>3, RunFollows
<1>5. i \in Byzantine => q.prepares = {}
  BY <1>2 DEF Carry
<1>6. ASSUME i \in Correct PROVE Local(replica', D, q)
  <2>1. Local(replica, C, replica[i])
    BY <1>6 DEF Carry
  <2>2. i \in D => i \in C
    <3>1. replica'[i].view = replica[i].view
      BY <1>2, <1>4, ReturnedAlike DEF Alike
    <3> QED  BY <3>1 DEF LeftWith
  <2>3. Local(replica', D, replica[i])
    BY <1>1, <1>4, <2>1, <2>2, LocalStays
  <2> QED  BY <2>3, AlikeLocal
<1>7. \A o \in q.outbox : Sends(replica', D, i, o.msg)
  BY DEF Sends
<1> QED  BY <1>2, <1>3, <1>5, <1>6, <1>7, RunCarries

-----------------------------------------------------------------------------
(* Timers, and the main goroutine. *)

\* A timer that expires,
LEMMA TimerExpiresCarries ==
  ASSUME Inv, TypeOK', ReplicasStep, NEW C \in SUBSET Correct, Carry(C),
         NEW i \in Replica, TimerExpires(i)
  PROVE  \E D \in SUBSET Correct : Carry(D)'
<1> DEFINE r == replica[i]
           t == r.requestTimer.target
           timer == [r.requestTimer EXCEPT !.running = FALSE]
           fired == r.callbacks \cup {t}
           q == [r EXCEPT !.requestTimer = timer, !.callbacks = fired]
<1>0. TypeOK /\ MainFirstSlot
  BY DEF Inv, Carry
<1>1. r \in ReplicaState /\ r.id = i /\ r.outbox = {} /\ r.failed = FALSE
  BY <1>0 DEF TypeOK, ReplicaState
<1>2. timer \in Timer /\ fired \in SUBSET Nat
  BY <1>1 DEF ReplicaState, Timer
<1>3. replica' = [replica EXCEPT ![i] = q] /\ UNCHANGED <<net, main, failures>>
  BY DEF TimerExpires
<1> HIDE DEF timer, fired
<1>4. /\ q \in ReplicaState /\ Alike(r, q) /\ q.outbox = {} /\ q.failed = FALSE /\ q.id = i
      /\ q.sequence = r.sequence
  BY <1>1, <1>2 DEF ReplicaState, Alike
<1> HIDE DEF q
<1>5. Run(q, {})
  <2>1. Returned(q) = q
    BY <1>4 DEF Returned, ReplicaState
  <2> QED  BY <1>3, <1>4, <2>1, RunSilent
<1>6. MainFirstSlot'
  <2>1. replica'[0].sequence = replica[0].sequence
    BY <1>0, <1>3, <1>4, FirstPrimary DEF TypeOK
  <2> QED  BY <1>0, <1>3, <2>1, MainFirstStays
<1> PICK D : D = LeftWith(C, i)
  OBVIOUS
<1>7. D \in SUBSET Correct /\ Carry(D)'
  BY <1>0, <1>4, <1>5, <1>6, AlikeCarries
<1> QED  BY <1>7

\* ... or main that only looks at a backup, keeps the invariant.
LEMMA MainLooksCarries ==
  ASSUME Inv, NEW C \in SUBSET Correct, Carry(C), NEW i \in Replica, MainLooks(i)
  PROVE  Carry(C)'
<1>1. /\ UNCHANGED <<replica, net>>
      /\ main'.call.step \in {"backup", "view", "note"} /\ main'.call # Outside
  BY MainLooking DEF Inv
<1>2. MainFirstSlot'
  BY <1>1 DEF MainFirstSlot
<1> QED  BY <1>1, <1>2 DEF Carry

\* Main has left the first primary.
LEMMA ReturnsFirstSlot ==
  ASSUME TypeOK, MainReturns
  PROVE  MainFirstSlot'
<1>1. main.next \in Nat /\ main'.next = main.next + 1 /\ main'.call = Outside
  BY DEF MainReturns, TypeOK
<1>2. main'.call.step # "broadcast"
  BY <1>1 DEF Outside
<1> QED  BY <1>1, <1>2 DEF MainFirstSlot

\* Main at a backup changes the timer, and the requests seen: it keeps the invariant.
LEMMA MainTouchesCarries ==
  ASSUME Inv, TypeOK', ReplicasStep, NEW C \in SUBSET Correct, Carry(C),
         NEW i \in Replica, MainTouches(i)
  PROVE  \E D \in SUBSET Correct : Carry(D)'
<1>1. TypeOK
  BY DEF Inv
<1>2. PICK q \in ReplicaState : Touched(replica[i], q, i) /\ Run(q, {})
  BY <1>1, MainTouching
<1>3. replica[i] \in ReplicaState /\ replica[i].outbox = {}
  BY <1>1 DEF TypeOK
<1>4. Alike(replica[i], q) /\ q.outbox = {}
  BY <1>2, <1>3, TouchedFields DEF Alike
<1>5. MainFirstSlot'
  <2>1. CASE MainReturns
    BY <1>1, <2>1, ReturnsFirstSlot
  <2>2. CASE main'.call.step \in {"timer", "note"}
    BY <2>2 DEF MainFirstSlot, Outside
  <2> QED  BY <1>1, <2>1, <2>2, MainTouching
<1> PICK D : D = LeftWith(C, i)
  OBVIOUS
<1>6. D \in SUBSET Correct /\ Carry(D)'
  BY <1>1, <1>2, <1>4, <1>5, AlikeCarries
<1> QED  BY <1>6

\* What a primary broadcasts when main hands it one request.
LEMMA SendOne ==
  ASSUME NEW r \in ReplicaState, NEW d \in Digest, NEW lost
  PROVE  LET q == SendPrePrepares(r, <<d>>, lost) IN
         /\ q \in ReplicaState /\ Alike(r, q)
         /\ \A o \in q.outbox :
               \/ o \in r.outbox
               \/ o.msg = [type |-> "PrePrepare", view |-> r.view, seq |-> r.sequence + 1,
                           digest |-> d]
<1> DEFINE order == <<d>>
           m == [type |-> "PrePrepare", view |-> r.view, seq |-> r.sequence + 1, digest |-> d]
           ms == {k \in PrePreparesFor(r, order) : ~ConflictingPrePrepare(r, k)}
           o == r.outbox \cup {[msg |-> k, failed |-> Fails(k, lost)] : k \in ms}
           f == r.failed \/ \E k \in ms : Fails(k, lost)
           s == r.sequence + Len(order)
           q == [r EXCEPT !.requests = @ \cup Range(order), !.pending = @ \cup Range(order),
                          !.sequence = s, !.outbox = o, !.failed = f]
<1>1. order \in Seq(Digest) /\ Range(order) \subseteq Digest /\ s \in Nat
  BY DEF Range, ReplicaState
<1>2. \A k \in ms : k = m
  BY DEF PrePreparesFor
<1>3. \A x \in o : x \in r.outbox \/ x.msg = m
  BY <1>2
<1>4. SendPrePrepares(r, order, lost) = q
  BY DEF SendPrePrepares
<1>5. q \in ReplicaState
  <2>1. Keeps(r, SendPrePrepares(r, order, lost))
    BY <1>1, SendPrePreparesKeeps
  <2> QED  BY <1>4, <2>1 DEF Keeps
<1> HIDE DEF o, f, s, ms, order, m
<1>6. Alike(r, q) /\ q.outbox = o
  BY DEF Alike, ReplicaState
<1> HIDE DEF q
<1>7. q \in ReplicaState /\ Alike(r, q) /\ \A x \in q.outbox : x \in r.outbox \/ x.msg = m
  BY <1>3, <1>5, <1>6
<1> QED  BY <1>4, <1>7 DEF order, m

\* Main proposes at the first primary once, and a Byzantine primary proposes for
\* the next view.
LEMMA MainProposesCarries ==
  ASSUME Inv, TypeOK', ReplicasStep, NEW C \in SUBSET Correct, Carry(C),
         NEW i \in Replica, MainProposes(i)
  PROVE  \E D \in SUBSET Correct : Carry(D)'
<1> DEFINE r == replica[i]
           known == [r EXCEPT !.requests = @ \cup {i}]
           noted == Equivocate(known)
           m == [type |-> "PrePrepare", view |-> noted.view, seq |-> noted.sequence + 1,
                 digest |-> i]
           sent(lost) == SendPrePrepares(noted, <<i>>, lost)
           q(lost) == IF i \in r.pending THEN r ELSE sent(lost)
           broadcast == [main EXCEPT !.call = [step |-> "broadcast", msg |-> m]]
<1>0. TypeOK /\ MainFirstSlot
  BY DEF Inv, Carry
<1>1. /\ r \in ReplicaState /\ r.id = i /\ r.outbox = {} /\ i \in Digest
      /\ r.view \in Nat /\ r.sequence \in Nat
  BY <1>0 DEF TypeOK, Digest, ReplicaState
<1>2. PICK lost : /\ Run(q(lost), {})
                  /\ MainReturns \/ (main' = broadcast /\ ~(i \in r.pending))
  BY Zenon DEF MainProposes
<1>3. r.view = 0 => i = 0 /\ r.sequence = 0
  <2>1. i = main.next /\ main.call = Outside /\ IsPrimary(r)
    BY DEF MainProposes, MainEnters
  <2>2. r.view = 0 => i = 0
    BY <1>1, <2>1, FirstPrimary DEF IsPrimary
  <2> QED  BY <1>0, <2>1, <2>2 DEF MainFirstSlot
<1> HIDE DEF r
<1>4. /\ known \in ReplicaState /\ Alike(r, known) /\ known.sequence = r.sequence
      /\ known.outbox = {}
  BY <1>1 DEF ReplicaState, Alike
<1> HIDE DEF known
<1>5. /\ noted \in ReplicaState /\ noted.id = i /\ noted.sequence = r.sequence
      /\ noted.outbox = {} /\ noted.prepares = r.prepares
      /\ i \in Correct => noted.view = r.view /\ Alike(r, noted)
      /\ i \in Byzantine => noted.view = r.view + 1
  <2>1. CASE i \in Byzantine
    <3> DEFINE n == known.view + 1
    <3>1. noted = [known EXCEPT !.view = n] /\ n \in Nat
      BY <1>1, <1>4, <2>1 DEF Equivocate, ReplicaState, Alike
    <3> HIDE DEF noted
    <3>2. n = r.view + 1
      BY <1>4 DEF Alike
    <3> HIDE DEF n
    <3>3. noted \in ReplicaState
      BY <1>4, <3>1 DEF ReplicaState
    <3>4. /\ noted.id = known.id /\ noted.sequence = known.sequence
          /\ noted.outbox = known.outbox /\ noted.prepares = known.prepares /\ noted.view = n
      BY <1>4, <3>1 DEF ReplicaState
    <3> QED  BY <1>1, <1>4, <2>1, <3>2, <3>3, <3>4 DEF Correct, Alike
  <2>2. CASE i \notin Byzantine
    <3>1. noted = known
      BY <1>1, <1>4, <2>2 DEF Equivocate, Alike
    <3> HIDE DEF noted
    <3> QED  BY <1>1, <1>4, <2>2, <3>1 DEF Alike
  <2> QED  BY <2>1, <2>2
<1>6. m.view = 0 => m = FirstPrePrepare
  <2>1. i \in Correct \/ i \in Byzantine
    BY DEF Correct
  <2> QED  BY <1>1, <1>3, <1>5, <2>1 DEF FirstPrePrepare
<1>7. /\ sent(lost) \in ReplicaState /\ Alike(noted, sent(lost))
      /\ \A o \in sent(lost).outbox : o.msg = m
  BY <1>1, <1>5, SendOne
<1>8. m.type = "PrePrepare"
  OBVIOUS
<1> HIDE DEF noted, m
<1>9. MainFirstSlot'
  <2>1. CASE MainReturns
    BY <1>0, <2>1, ReturnsFirstSlot
  <2>2. CASE main' = broadcast
    <3>1. main'.call.step = "broadcast" /\ main'.call # Outside /\ main'.call.msg = m
      BY <1>0, <2>2 DEF TypeOK, Outside
    <3> QED  BY <1>6, <3>1 DEF MainFirstSlot
  <2> QED  BY <1>2, <2>1, <2>2
<1> PICK D : D = LeftWith(C, i)
  OBVIOUS
<1>10. CASE i \in r.pending
  <2>1. Run(r, {}) /\ Alike(r, r)
    BY <1>2, <1>10 DEF Alike
  <2>2. D \in SUBSET Correct /\ Carry(D)'
    BY <1>0, <1>1, <1>9, <2>1, AlikeCarries DEF r
  <2> QED  BY <2>2
<1>11. CASE i \notin r.pending
  <2> DEFINE p == sent(lost)
  <2>1. Run(p, {})
    BY <1>2, <1>11
  <2>2. /\ p \in ReplicaState /\ Alike(noted, p)
        /\ \A o \in p.outbox : o.msg.type = "PrePrepare" /\ (o.msg.view = 0 => o.msg = FirstPrePrepare)
    BY <1>6, <1>7, <1>8
  <2> HIDE DEF p
  <2>3. CASE i \in Correct
    <3>1. Alike(r, p)
      BY <1>5, <2>2, <2>3 DEF Alike
    <3>2. D \in SUBSET Correct /\ Carry(D)'
      BY <1>0, <1>9, <2>1, <2>2, <3>1, AlikeCarries DEF r
    <3> QED  BY <3>2
  <2>4. CASE i \in Byzantine
    <3>1. p.id = i /\ p.view = r.view + 1 /\ p.prepares = r.prepares
      BY <1>5, <2>2, <2>4 DEF Alike
    <3>2. p.prepares = {}
      BY <2>4, <3>1 DEF Carry, r
    <3>3. \A o \in p.outbox : Sends(replica', D, i, o.msg)
      BY <2>2 DEF Sends
    <3>4. i \notin Correct /\ p.view # 0
      BY <1>1, <2>4, <3>1 DEF Correct
    <3>5. D \in SUBSET Correct /\ Carry(D)'
      BY <1>0, <1>9, <2>1, <2>2, <3>1, <3>2, <3>3, <3>4, RunCarries
    <3> QED  BY <3>5
  <2> QED  BY <2>3, <2>4 DEF Correct
<1> QED  BY <1>10, <1>11

\* What main stores is the pre-prepare of the first view, or belongs to a view
\* that its replica leads.
LEMMA MainStoresCarries ==
  ASSUME Inv, AtMostOneChange, TypeOK', ReplicasStep, NEW C \in SUBSET Correct, Carry(C),
         NEW i \in Replica, MainStoresPrePrepare(i)
  PROVE  \E D \in SUBSET Correct : Carry(D)'
<1> DEFINE r == replica[i]
           m == main.call.msg
           stored == {p \in r.preprepares : \A k \in {m} : ~SameSlot(p, k)} \cup {m}
           q == StorePrePrepares(r, {m})
<1>1. /\ TypeOK /\ MainAhead /\ MainFirstSlot /\ r \in ReplicaState /\ r.id = i /\ r.outbox = {}
  BY DEF Inv, Carry, TypeOK
<1>2. i = main.next /\ main.call.step = "broadcast" /\ Run(q, {}) /\ MainReturns
  BY DEF MainStoresPrePrepare
<1>3. /\ m \in PrePrepare
      /\ i \in Correct => Primary(m.view) = i /\ m.view <= r.view
      /\ m.view = 0 => m = FirstPrePrepare
  BY <1>1, <1>2 DEF MainAhead, MainFirstSlot, TypeOK, Calling
<1>4. q = [r EXCEPT !.preprepares = stored]
  BY DEF StorePrePrepares
<1>5. /\ stored \in SUBSET PrePrepare /\ \A k \in stored : k \in r.preprepares \/ k = m
      /\ \A k \in r.preprepares : k \in stored \/ SameSlot(k, m)
      /\ m \in stored
  BY <1>1, <1>3 DEF ReplicaState
<1> HIDE DEF m, q, stored
<1>6. /\ q \in ReplicaState /\ q.id = i /\ q.view = r.view /\ q.activeView = r.activeView
      /\ q.lastExecuted = r.lastExecuted /\ q.ledger = r.ledger
      /\ q.preprepares = stored /\ q.prepares = r.prepares /\ q.commits = r.commits
      /\ q.viewChanges = r.viewChanges /\ q.requests = r.requests /\ q.outbox = {}
  BY <1>1, <1>4, <1>5 DEF ReplicaState
<1>7. m.view \in Nat /\ m.seq \in Nat
  BY <1>3 DEF PrePrepare
<1> HIDE DEF r
<1>8. Certified(r) => Certified(q)
  <2>1. PrePrepared(r, 0, 1, 0) => PrePrepared(q, 0, 1, 0)
    <3> SUFFICES ASSUME NEW k \in r.preprepares, k.view = 0, k.seq = 1, k.digest = 0
                 PROVE  \E p \in q.preprepares : p.view = 0 /\ p.seq = 1 /\ p.digest = 0
      BY <1>6 DEF PrePrepared
    <3>1. CASE k \in stored
      BY <1>6, <3>1
    <3>2. CASE SameSlot(k, m)
      <4>1. m = FirstPrePrepare
        BY <1>3, <3>2 DEF SameSlot
      <4> QED  BY <1>5, <1>6, <4>1 DEF FirstPrePrepare
    <3> QED  BY <1>5, <3>1, <3>2
  <2> QED  BY <1>6, <2>1 DEF Certified, Prepared, PreparesOf
<1> PICK D : D = LeftWith(C, i)
  OBVIOUS
<1>9. Follows(C, D) /\ D \in SUBSET Correct /\ replica'[i] = Returned(q)
  BY <1>1, <1>2, <1>6, <1>8, RunFollows DEF r
<1>10. ASSUME i \in Correct PROVE Local(replica', D, q)
  <2>1. Local(replica, C, r)
    BY <1>10 DEF Carry, r
  <2>2. i \in D => i \in C
    <3>1. replica'[i].view = r.view
      BY <1>6, <1>9, ReturnedAlike DEF Alike
    <3> QED  BY <3>1 DEF LeftWith, r
  <2>3. Local(replica', D, r)
    BY <1>1, <1>9, <2>1, <2>2, LocalStays
  <2>4. HeldTruly(replica', D, q)
    BY <1>3, <1>5, <1>6, <2>3 DEF Local, HeldTruly
  <2>5. LeftTruly(D, q)
    BY <1>1, <1>6, <1>8, <2>3 DEF Local, LeftTruly
  <2>6. WroteTruly(replica', D, q)
    BY <1>6, <2>3 DEF Local, WroteTruly
  <2>7. CarriedOver(r) => CarriedOver(q)
    <3>1. ASSUME r.view = 1, i # 1, Carried(r) PROVE Carried(q)
      <4>1. m.view = 0
        <5>1. Primary(1) = 1
          BY ClusterAssumption DEF Primary, MinimumReplicaCount
        <5>2. m.view # 1
          BY <1>3, <1>10, <3>1, <5>1
        <5> QED  BY <1>3, <1>7, <1>10, <3>1, <5>2
      <4>2. \A k \in r.preprepares : k.view = 1 => k \in stored
        BY <1>5, <4>1 DEF SameSlot
      <4>3. \A k \in stored : k.view = 1 => k \in r.preprepares
        BY <1>5, <4>1
      <4> QED  BY <1>6, <3>1, <4>2, <4>3 DEF Carried, NextPrePrepare, SameSlot
    <3> QED  BY <1>1, <1>6, <3>1 DEF CarriedOver
  <2> QED  BY <2>3, <2>4, <2>5, <2>6, <2>7 DEF Local
<1>11. i \in Byzantine => q.prepares = {}
  BY <1>6 DEF Carry, r
<1>12. MainFirstSlot'
  BY <1>1, <1>2, ReturnsFirstSlot
<1>13. \A o \in q.outbox : Sends(replica', D, i, o.msg)
  BY <1>6
<1>14. D \in SUBSET Correct /\ Carry(D)'
  BY <1>1, <1>2, <1>6, <1>8, <1>10, <1>11, <1>12, <1>13, RunCarries DEF r
<1> QED  BY <1>14

-----------------------------------------------------------------------------
(* The normal case. *)

\* Receipts and messages of the normal case are known by their slot and digest.
LEMMA EchoOfFirst ==
  ASSUME NEW m, NEW k, Echo(m, {k})
  PROVE  /\ m.view = k.view /\ m.seq = k.seq /\ m.digest = k.digest
         /\ InNext(m) <=> InNext(k)
         /\ k.view = 0 /\ k.seq = 1 /\ k.digest = 0 =>
              /\ m \in Prepare => m = FirstPrepare
              /\ m \in Commit => m = FirstCommit
<1>1. m.view = k.view /\ m.seq = k.seq /\ m.digest = k.digest
  BY DEF Echo, IsFor
<1> QED  BY <1>1 DEF InNext, Prepare, Commit, FirstPrepare, FirstCommit

\* The messages of an outbox.
LEMMA OutboxTypes ==
  ASSUME NEW q \in ReplicaState, NEW o \in q.outbox
  PROVE  /\ o.msg.type = "PrePrepare" => o.msg \in PrePrepare
         /\ o.msg.type = "Prepare" => o.msg \in Prepare
         /\ o.msg.type = "Commit" => o.msg \in Commit
         /\ o.msg.type = "ViewChange" => o.msg \in ViewChange
         /\ o.msg.type = "NewView" => o.msg \in NewView
<1>1. o.msg \in Message
  BY DEF ReplicaState
<1> QED  BY <1>1 DEF Message, PrePrepare, Prepare, Commit, ViewChange, NewView

\* What is committed in the first view is certified at a quorum.
LEMMA CommittedSecured ==
  ASSUME NEW rs, NEW C, NEW q \in ReplicaState, HeldTruly(rs, C, q), Committed(q, 0, 1, 0)
  PROVE  Secured(rs, C)
<1> DEFINE S == {j \in Replica : Holder(rs, C, j)}
           T == CommitsOf(q, 0, 1)
<1>1. \A x \in T : x = [from |-> x.from, msg |-> FirstCommit] /\ x.from \in S
  BY DEF CommitsOf, HeldTruly, ReplicaState, CommitReceipt
<1>2. S \in SUBSET Replica
  OBVIOUS
<1>3. Cardinality(T) >= CommitQuorum
  BY DEF Committed
<1> HIDE DEF S, T
<1>4. Cardinality(T) \in Nat /\ Cardinality(S) \in Nat /\ Cardinality(T) <= Cardinality(S)
  BY <1>1, <1>2, OneMessage
<1>5. Cardinality(S) >= CommitQuorum
  BY <1>3, <1>4, Quorums
<1> QED  BY <1>5 DEF Secured, S

\* The second view is led by replica 1.
LEMMA SecondPrimary == Primary(1) = 1 /\ 1 \in Replica
  BY ClusterAssumption DEF Primary, Replica, MinimumReplicaCount

\* A handler of the normal case, which leaves q behind.
LEMMA HandlerCarries ==
  ASSUME TypeOK, TypeOK', ReplicasStep, NEW C \in SUBSET Correct, Carry(C), NEW e \in net,
         e.msg.type \in NormalCase, replica[e.to].activeView,
         NEW H, \A x \in H : x.from = e.from /\ x.msg = e.msg /\ e.msg.type = "Commit",
         NEW q, Attests(replica[e.to], q, e.msg.view, e.msg.seq, e.msg.digest, H),
         Echoes(replica[e.to], q, {e.msg}),
         q = replica[e.to] \/ e.msg.view = replica[e.to].view,
         q = replica[e.to] \/ e.msg.type # "PrePrepare" \/
            (~IsPrimary(replica[e.to]) /\ \A p \in replica[e.to].preprepares : ~SameSlot(p, e.msg)),
         NEW consumed, Run(q, consumed), UNCHANGED main
  PROVE  \E D \in SUBSET Correct : Carry(D)'
<1> DEFINE i == e.to
           r == replica[i]
           m == e.msg
           v == m.view
           s == m.seq
           d == m.digest
           b == [view |-> v, seq |-> s, digest |-> d]
<1>1. /\ i \in Correct /\ i \in Replica /\ e.from \in Replica
      /\ Sends(replica, C, e.from, m) /\ Local(replica, C, r) /\ MainFirstSlot
  BY DEF Carry, Correct, TypeOK, Envelope
<1>2. r \in ReplicaState /\ r.id = i /\ r.outbox = {}
  BY <1>1 DEF TypeOK
<1>3. /\ m.type = "PrePrepare" => m \in PrePrepare
      /\ m.type = "Prepare" => m \in Prepare
      /\ m.type = "Commit" => m \in Commit
  BY MessageTypes
<1>4. m.type \in {"PrePrepare", "Prepare", "Commit"} /\ v \in Nat /\ s \in Nat /\ d \in Digest
  BY <1>3 DEF NormalCase, PrePrepare, Prepare, Commit
<1>5. v = 0 => s = 1 /\ d = 0
  BY <1>1, <1>4 DEF Sends, FirstPrePrepare, FirstPrepare, FirstCommit
<1> HIDE DEF m, i, r
<1>6. /\ q \in ReplicaState /\ q.id = i /\ q.view = r.view /\ q.activeView
      /\ q.lastExecuted = r.lastExecuted /\ q.sequence = r.sequence
      /\ q.viewChanges = r.viewChanges /\ r.requests \subseteq q.requests
      /\ r.preprepares \subseteq q.preprepares
  BY <1>2 DEF Attests, Adds, m, i, r
<1>7. /\ \A x \in q.preprepares : x \in r.preprepares \/ x = m
      /\ \A x \in q.prepares : x \in r.prepares \/ Echo(x.msg, {m})
      /\ \A x \in q.commits : x \in r.commits \/ Echo(x.msg, {m})
      /\ \A o \in q.outbox : o.msg.type \in {"Prepare", "Commit"} => Echo(o.msg, {m})
  BY <1>2 DEF Echoes, Repeats, m, i, r
<1>8. /\ \A o \in q.outbox : \/ o.msg.type = "Prepare"
                             \/ o.msg.type = "Commit" /\ Prepared(q, v, s, d)
      /\ \A x \in q.commits : x \in r.commits \/ x \in H \/ (x.from = i /\ Prepared(q, v, s, d))
      /\ q.ledger = r.ledger \/ (s = r.lastExecuted + 1 /\ Committed(q, v, s, d)
                                 /\ q.ledger = Append(r.ledger, b))
  BY <1>2 DEF Attests, m, i, r
<1>9. q = r \/ v = r.view
  BY DEF m, i, r
<1>10. Certified(r) => Certified(q)
  BY <1>2, AddsGrows DEF Attests, Certified, m, i, r
<1> PICK D : D = LeftWith(C, i)
  OBVIOUS
<1>11. Follows(C, D) /\ replica'[i] = Returned(q)
  BY <1>1, <1>6, <1>10, RunFollows DEF r
<1>12. replica'[i].view = q.view /\ (Certified(q) => Certified(replica'[i]))
       /\ replica'[i].sequence = q.sequence
  BY <1>6, <1>11, ReturnedAlike, AlikeLocal DEF Alike
<1>13. Local(replica', D, r)
  <2>1. i \in D => i \in C
    BY <1>6, <1>12 DEF LeftWith, r
  <2> QED  BY <1>1, <1>2, <1>11, <2>1, LocalStays
\* Whoever sends a Commit in the first view is certified.
<1>14. q.view = 0 /\ v = 0 /\ Prepared(q, v, s, d) => Holder(replica', D, i)
  BY <1>5, <1>12 DEF Holder, Certified
<1>15. HeldTruly(replica', D, q)
  <2>1. HeldTruly(replica', D, r)
    BY <1>13 DEF Local
  <2>2. ASSUME NEW x \in q.preprepares, x.view = 0 PROVE x = FirstPrePrepare
    <3>1. x \in PrePrepare
      BY <1>6 DEF ReplicaState
    <3>2. x.type = "PrePrepare"
      BY <3>1 DEF PrePrepare
    <3> QED  BY <1>1, <1>7, <2>1, <2>2, <3>2 DEF HeldTruly, Sends
  <2>3. ASSUME NEW x \in q.prepares, x.msg.view = 0 PROVE x.msg = FirstPrepare
    <3>1. x.msg \in Prepare
      BY <1>6 DEF ReplicaState, PrepareReceipt
    <3>2. CASE x \in r.prepares
      BY <2>1, <2>3, <3>2 DEF HeldTruly
    <3>3. CASE Echo(x.msg, {m})
      BY <1>5, <2>3, <3>1, <3>3, EchoOfFirst
    <3> QED  BY <1>7, <3>2, <3>3
  <2>4. ASSUME NEW x \in q.commits, x.msg.view = 0
        PROVE  x.msg = FirstCommit /\ Holder(replica', D, x.from)
    <3>1. x.msg \in Commit
      BY <1>6 DEF ReplicaState, CommitReceipt
    <3>2. CASE x \in r.commits
      BY <2>1, <2>4, <3>2 DEF HeldTruly
    <3>3. CASE x \notin r.commits
      <4>1. Echo(x.msg, {m})
        BY <1>7, <3>3
      <4>2. v = 0 /\ x.msg = FirstCommit
        BY <1>5, <2>4, <3>1, <4>1, EchoOfFirst
      <4>3. q.view = 0
        BY <1>6, <1>9, <3>3, <4>2
      <4>4. CASE x \in H
        <5>1. x.from = e.from /\ m.type = "Commit"
          BY <4>4 DEF m
        <5>2. Holder(replica, C, e.from)
          BY <1>1, <4>2, <5>1 DEF Sends
        <5> QED  BY <1>1, <1>11, <4>2, <5>1, <5>2 DEF Follows
      <4>5. CASE x.from = i /\ Prepared(q, v, s, d)
        BY <1>14, <4>2, <4>3, <4>5
      <4> QED  BY <1>8, <3>3, <4>4, <4>5
    <3> QED  BY <3>2, <3>3
  <2>5. \A x \in q.viewChanges : Reports(replica', D, x.from, x.msg)
    BY <1>6, <2>1 DEF HeldTruly
  <2> QED  BY <2>2, <2>3, <2>4, <2>5 DEF HeldTruly
<1>16. LeftTruly(D, q)
  BY <1>6, <1>13 DEF Local, LeftTruly
\* Every block of q is one of r, or is for the message.
<1>17. \A k \in DOMAIN q.ledger :
          \/ k \in DOMAIN r.ledger /\ q.ledger[k] = r.ledger[k]
          \/ q # r /\ q.ledger[k] = b /\ Committed(q, v, s, d) /\ s = 1
  <2>1. r.ledger \in Seq(Block) /\ r.lastExecuted = 0
    BY <1>2, <1>13 DEF ReplicaState, Local, LeftTruly
  <2>2. CASE q.ledger = r.ledger
    BY <2>2
  <2>3. CASE q.ledger # r.ledger
    <3>1. Committed(q, v, s, d) /\ s = 1 /\ q.ledger = Append(r.ledger, b) /\ q # r
      BY <1>8, <2>1, <2>3
    <3> HIDE DEF b, v, s, d
    <3>2. \A k \in DOMAIN q.ledger : q.ledger[k] = b \/ (k \in DOMAIN r.ledger /\ q.ledger[k] = r.ledger[k])
      BY <2>1, <3>1
    <3> QED  BY <3>1, <3>2
  <2> QED  BY <2>2, <2>3
<1>18. WroteTruly(replica', D, q)
  <2>1. v = 0 /\ Committed(q, v, s, d) => Secured(replica', D)
    BY <1>5, <1>6, <1>15, CommittedSecured
  <2>2. v = 0 => b = FirstBlock
    BY <1>5 DEF FirstBlock
  <2>3. b.view = v
    OBVIOUS
  <2> HIDE DEF b
  <2> QED  BY <1>13, <1>17, <2>1, <2>2, <2>3 DEF Local, WroteTruly
\* A message for the corresponding slot of the second view carries the request.
<1>19. ~Forgotten(replica', D) => CarriedOver(r) /\ (InNext(m) /\ q # r => d = 0)
  <2> SUFFICES ASSUME ~Forgotten(replica', D), InNext(m), q # r PROVE d = 0
    BY <1>13 DEF Local
  <2>1. CarriedOver(r) /\ ~Forgotten(replica, C)
    BY <1>11, <1>13, SecuredStays DEF Local
  <2>2. CASE m.type # "PrePrepare"
    BY <1>1, <1>4, <2>1, <2>2 DEF Sends
  <2>3. CASE m.type = "PrePrepare"
    <3>1. ~IsPrimary(r) /\ \A p \in r.preprepares : ~SameSlot(p, m)
      BY <2>3 DEF m, i, r
    <3>2. r.view = 1 /\ r.activeView
      BY <1>9 DEF InNext, r, i
    <3>3. r.id # 1
      BY <3>1, <3>2, SecondPrimary DEF IsPrimary
    <3>4. NextPrePrepare \in r.preprepares
      BY <2>1, <3>2, <3>3 DEF CarriedOver, Carried
    <3>5. SameSlot(NextPrePrepare, m)
      BY DEF SameSlot, NextPrePrepare, InNext
    <3> QED  BY <3>1, <3>4, <3>5
  <2> QED  BY <2>2, <2>3
<1>20. ~Forgotten(replica', D) => CarriedOver(q)
  <2> SUFFICES ASSUME ~Forgotten(replica', D) PROVE CarriedOver(q)
    OBVIOUS
  <2>1. CarriedOver(r) /\ (InNext(m) /\ q # r => d = 0)
    BY <1>19
  <2>2. ASSUME q.view = 1, q.id # 1 PROVE Carried(q)
    <3>1. Carried(r)
      BY <1>2, <1>6, <2>1, <2>2 DEF CarriedOver, r, i
    <3>2. m \in q.preprepares /\ m \notin r.preprepares => ~SameSlot(m, NextPrePrepare)
      <4> SUFFICES ASSUME m \in q.preprepares, m \notin r.preprepares, SameSlot(m, NextPrePrepare)
                   PROVE  FALSE
        OBVIOUS
      <4>1. q # r /\ m.type = "PrePrepare"
        <5>1. m \in PrePrepare
          BY <1>6 DEF ReplicaState
        <5> QED  BY <5>1 DEF PrePrepare
      <4>2. \A p \in r.preprepares : ~SameSlot(p, m)
        BY <4>1 DEF m, i, r
      <4> QED  BY <3>1, <4>2 DEF Carried, SameSlot
    <3> QED  BY <1>6, <1>7, <3>1, <3>2 DEF Carried
  <2>3. \A x \in q.prepares \cup q.commits : InNext(x.msg) => x.msg.digest = 0
    <3> TAKE x \in q.prepares \cup q.commits
    <3>1. CASE x \in r.prepares \cup r.commits
      BY <2>1, <3>1 DEF CarriedOver
    <3>2. CASE ~(x \in r.prepares \cup r.commits)
      <4>1. Echo(x.msg, {m}) /\ q # r
        BY <1>7, <3>2
      <4> QED  BY <2>1, <4>1, EchoOfFirst
    <3> QED  BY <3>1, <3>2
  <2>4. \A k \in DOMAIN q.ledger :
           q.ledger[k].view = 1 => q.ledger[k].seq = 1 /\ q.ledger[k].digest = 0
    <3>1. b.view = v /\ b.seq = s /\ b.digest = d
      OBVIOUS
    <3>2. v = 1 /\ s = 1 => InNext(m)
      BY DEF InNext
    <3> HIDE DEF b, v, s, d
    <3> QED  BY <1>17, <2>1, <3>1, <3>2 DEF CarriedOver
  <2> QED  BY <1>6, <2>2, <2>3, <2>4 DEF CarriedOver
<1>21. ASSUME NEW o \in q.outbox PROVE Sends(replica', D, i, o.msg)
  <2>1. o.msg.type \in {"Prepare", "Commit"} /\ Echo(o.msg, {m}) /\ q # r
    BY <1>2, <1>7, <1>8 DEF r, i
  <2>2. /\ o.msg.type = "Prepare" => o.msg \in Prepare
        /\ o.msg.type = "Commit" => o.msg \in Commit /\ Prepared(q, v, s, d)
    BY <1>6, <1>8, OutboxTypes
  <2>3. /\ o.msg.view = v /\ o.msg.digest = d
        /\ InNext(o.msg) => InNext(m)
        /\ v = 0 /\ o.msg \in Prepare => o.msg = FirstPrepare
        /\ v = 0 /\ o.msg \in Commit => o.msg = FirstCommit
    BY <1>5, <2>1, EchoOfFirst
  <2>4. v = 0 => q.view = 0
    BY <1>6, <1>9, <2>1
  <2> HIDE DEF v, s, d
  <2> QED  BY <1>14, <1>19, <2>1, <2>2, <2>3, <2>4 DEF Sends
<1>22. MainFirstSlot'
  <2>1. replica'[0].sequence = replica[0].sequence
    BY <1>1, <1>6, <1>12, <1>11, RunFollows, FirstPrimary, <1>10 DEF r
  <2> QED  BY <1>1, <2>1, MainFirstStays
<1>23. Local(replica', D, q)
  BY <1>15, <1>16, <1>18, <1>20 DEF Local
<1>24. i \notin Byzantine
  BY <1>1 DEF Correct
<1>25. D \in SUBSET Correct /\ Carry(D)'
  BY <1>1, <1>6, <1>10, <1>21, <1>22, <1>23, <1>24, RunCarries DEF r
<1> QED  BY <1>25

\* A handler that drops its message.
LEMMA DroppedCarries ==
  ASSUME TypeOK, TypeOK', ReplicasStep, NEW C \in SUBSET Correct, Carry(C), NEW i \in Replica,
         NEW consumed, Run(replica[i], consumed), UNCHANGED main
  PROVE  \E D \in SUBSET Correct : Carry(D)'
<1> DEFINE r == replica[i]
<1>1. r \in ReplicaState /\ r.outbox = {} /\ MainFirstSlot
  BY DEF TypeOK, Carry
<1>2. Alike(r, r)
  BY DEF Alike
<1> PICK D : D = LeftWith(C, i)
  OBVIOUS
<1>3. /\ \A j \in Replica \ {i} : replica'[j] = replica[j]
      /\ replica'[i] = Returned(r)
  BY <1>1, RunFollows DEF TypeOK
<1>4. replica'[0].sequence = replica[0].sequence
  <2>1. replica'[i].sequence = r.sequence
    BY <1>1, <1>3, ReturnedAlike
  <2> QED  BY <1>3, <2>1, FirstPrimary
<1>5. MainFirstSlot'
  BY <1>1, <1>4, MainFirstStays
<1>6. D \in SUBSET Correct /\ Carry(D)'
  BY <1>1, <1>2, <1>5, AlikeCarries
<1> QED  BY <1>6

\* The handler of message e takes its replica to q, with the receipts in H.
Handles(e, q, H) ==
    LET r == replica[e.to]
        m == e.msg
    IN /\ m.type \in NormalCase /\ r.activeView
       /\ \A x \in H : x.from = e.from /\ x.msg = m /\ m.type = "Commit"
       /\ Attests(r, q, m.view, m.seq, m.digest, H)
       /\ Echoes(r, q, {m})
       /\ q = r \/ m.view = r.view
       /\ \/ q = r \/ m.type # "PrePrepare"
          \/ /\ ~IsPrimary(r) /\ e.from = Primary(r.view)
             /\ \A p \in r.preprepares : ~SameSlot(p, m)

\* Every message of the normal case is dropped or handled so.
LEMMA ReceiveNormalHandles ==
  ASSUME TypeOK, NEW e \in net,
         ReceivePrePrepare(e) \/ ReceivePrepare(e) \/ ReceiveCommit(e)
  PROVE  /\ UNCHANGED main
         /\ Run(replica[e.to], {e}) \/ \E q, H : Handles(e, q, H) /\ Run(q, {e})
<1> DEFINE i == e.to
           r == replica[i]
           m == e.msg
           Handled == \E q, H : Handles(e, q, H) /\ Run(q, {e})
<1>1. i \in Replica /\ e.from \in Replica /\ r \in ReplicaState
  BY MessageTypes
<1>2. Taken(e) /\ m.type \in NormalCase => r.activeView
  BY DEF Taken, IsMessageAllowed, NormalCase
<1>3. ASSUME ReceivePrePrepare(e) PROVE UNCHANGED main /\ (Run(r, {e}) \/ Handled)
  <2>1. PICK lost : Run(IF Taken(e) THEN ProcessPrePrepare(r, e.from, m, lost) ELSE r, {e})
    BY <1>3 DEF ReceivePrePrepare
  <2>2. m \in PrePrepare /\ m.type \in NormalCase /\ UNCHANGED main
    BY <1>3, MessageTypes DEF ReceivePrePrepare, NormalCase
  <2>3. /\ Attests(r, ProcessPrePrepare(r, e.from, m, lost), m.view, m.seq, m.digest, {})
        /\ Echoes(r, ProcessPrePrepare(r, e.from, m, lost), {m})
        /\ \/ ProcessPrePrepare(r, e.from, m, lost) = r
           \/ /\ ~IsPrimary(r) /\ e.from = Primary(r.view) /\ m.view = r.view
              /\ \A p \in r.preprepares : ~SameSlot(p, m)
    <3> HIDE DEF r, m
    <3>1. r \in ReplicaState /\ e.from \in Replica /\ m \in PrePrepare
      BY <1>1, <2>2
    <3>2. Attests(r, ProcessPrePrepare(r, e.from, m, lost), m.view, m.seq, m.digest, {})
      BY <3>1, ProcessPrePrepareAttests
    <3> QED  BY <3>1, <3>2, ProcessPrePrepareEchoes
  <2>4. CASE ~Taken(e)
    BY <2>1, <2>2, <2>4
  <2>5. CASE Taken(e)
    <3>1. PICK q : q = ProcessPrePrepare(r, e.from, m, lost)
      OBVIOUS
    <3>2. /\ Run(q, {e}) /\ r.activeView
          /\ Attests(r, q, m.view, m.seq, m.digest, {}) /\ Echoes(r, q, {m})
          /\ \/ q = r
             \/ /\ ~IsPrimary(r) /\ e.from = Primary(r.view) /\ m.view = r.view
                /\ \A p \in r.preprepares : ~SameSlot(p, m)
      BY <1>2, <2>1, <2>2, <2>3, <2>5, <3>1
    <3>3. Handles(e, q, {})
      BY <2>2, <3>2 DEF Handles
    <3> QED  BY <2>2, <3>2, <3>3
  <2> QED  BY <2>4, <2>5
<1>4. ASSUME ReceivePrepare(e) PROVE UNCHANGED main /\ (Run(r, {e}) \/ Handled)
  <2>1. PICK lost : Run(IF Taken(e) THEN ProcessPrepare(r, e.from, m, lost) ELSE r, {e})
    BY <1>4 DEF ReceivePrepare
  <2>2. m \in Prepare /\ m.type = "Prepare" /\ m.type \in NormalCase /\ UNCHANGED main
    BY <1>4, MessageTypes DEF ReceivePrepare, NormalCase
  <2>3. /\ Attests(r, ProcessPrepare(r, e.from, m, lost), m.view, m.seq, m.digest, {})
        /\ Echoes(r, ProcessPrepare(r, e.from, m, lost), {m})
        /\ ProcessPrepare(r, e.from, m, lost) = r \/ m.view = r.view
    <3> HIDE DEF r, m
    <3>1. r \in ReplicaState /\ e.from \in Replica /\ m \in Prepare
      BY <1>1, <2>2
    <3> QED  BY <3>1, ProcessPrepareAttests, ProcessPrepareEchoes
  <2>4. CASE ~Taken(e)
    BY <2>1, <2>2, <2>4
  <2>5. CASE Taken(e)
    <3>1. PICK q : q = ProcessPrepare(r, e.from, m, lost)
      OBVIOUS
    <3>2. /\ Run(q, {e}) /\ r.activeView
          /\ Attests(r, q, m.view, m.seq, m.digest, {}) /\ Echoes(r, q, {m})
          /\ q = r \/ m.view = r.view
      BY <1>2, <2>1, <2>2, <2>3, <2>5, <3>1
    <3>3. Handles(e, q, {})
      BY <2>2, <3>2 DEF Handles
    <3> QED  BY <2>2, <3>2, <3>3
  <2> QED  BY <2>4, <2>5
<1>5. ASSUME ReceiveCommit(e) PROVE UNCHANGED main /\ (Run(r, {e}) \/ Handled)
  <2>1. PICK lost : Run(IF Taken(e) THEN ProcessCommit(r, e.from, m, lost) ELSE r, {e})
    BY <1>5 DEF ReceiveCommit
  <2>2. m \in Commit /\ m.type = "Commit" /\ m.type \in NormalCase /\ UNCHANGED main
    BY <1>5, MessageTypes DEF ReceiveCommit, NormalCase
  <2> DEFINE H == {[from |-> e.from, msg |-> m]}
  <2>3. /\ Attests(r, ProcessCommit(r, e.from, m, lost), m.view, m.seq, m.digest, H)
        /\ Echoes(r, ProcessCommit(r, e.from, m, lost), {m})
        /\ ProcessCommit(r, e.from, m, lost) = r \/ m.view = r.view
    <3> HIDE DEF r, m
    <3>1. r \in ReplicaState /\ e.from \in Replica /\ m \in Commit
      BY <1>1, <2>2
    <3>2. /\ Attests(r, ProcessCommit(r, e.from, m, lost), m.view, m.seq, m.digest, H)
          /\ ProcessCommit(r, e.from, m, lost) = r \/ m.view = r.view
      BY <3>1, ProcessCommitAttests
    <3> QED  BY <3>1, <3>2, ProcessCommitEchoes
  <2>4. CASE ~Taken(e)
    BY <2>1, <2>2, <2>4
  <2>5. CASE Taken(e)
    <3>1. PICK q : q = ProcessCommit(r, e.from, m, lost)
      OBVIOUS
    <3>2. /\ Run(q, {e}) /\ r.activeView
          /\ Attests(r, q, m.view, m.seq, m.digest, H) /\ Echoes(r, q, {m})
          /\ q = r \/ m.view = r.view
      BY <1>2, <2>1, <2>2, <2>3, <2>5, <3>1
    <3>3. \A x \in H : x.from = e.from /\ x.msg = m /\ m.type = "Commit"
      BY <2>2
    <3> HIDE DEF H
    <3>4. Handles(e, q, H)
      BY <2>2, <3>2, <3>3 DEF Handles
    <3> QED  BY <2>2, <3>2, <3>4
  <2> QED  BY <2>4, <2>5
<1> QED  BY <1>3, <1>4, <1>5

\* So the handlers of the normal case keep the invariant.
LEMMA ReceiveNormalCarries ==
  ASSUME Inv, TypeOK', ReplicasStep, NEW C \in SUBSET Correct, Carry(C), NEW e \in net,
         ReceivePrePrepare(e) \/ ReceivePrepare(e) \/ ReceiveCommit(e)
  PROVE  \E D \in SUBSET Correct : Carry(D)'
<1>1. TypeOK /\ e.to \in Replica
  BY MessageTypes DEF Inv
<1>2. /\ UNCHANGED main
      /\ Run(replica[e.to], {e}) \/ \E q, H : Handles(e, q, H) /\ Run(q, {e})
  BY <1>1, ReceiveNormalHandles
<1>3. CASE Run(replica[e.to], {e})
  BY <1>1, <1>2, <1>3, DroppedCarries
<1>4. CASE \E q, H : Handles(e, q, H) /\ Run(q, {e})
  <2>1. PICK q, H : Handles(e, q, H) /\ Run(q, {e})
    BY <1>4
  <2> QED  BY <1>1, <1>2, <2>1, HandlerCarries DEF Handles
<1> QED  BY <1>2, <1>3, <1>4

-----------------------------------------------------------------------------
(* A NewView. *)

\* A backup enters a view with what it has executed, and has the requests that
\* the NewView makes it accept.
LEMMA ProcessNewViewKeeps ==
  ASSUME NEW r \in ReplicaState, NEW from \in Replica, NEW m \in NewView, NEW lost
  PROVE  LET q == ProcessNewView(r, from, m, lost) IN
         \/ q = r
         \/ /\ q.lastExecuted = r.lastExecuted /\ q.ledger = r.ledger
            /\ q.viewChanges = r.viewChanges
            /\ \A p \in q.preprepares : p \in r.preprepares \/ p.digest \in q.requests
<1> DEFINE turned  == [r EXCEPT !.view = m.view, !.activeView = TRUE]
           entered == CleanupState(turned, m.view)
           ms      == Range(m.preprepares)
           taken   == AcceptPrePrepares(entered, ms, lost)
           q       == ProcessNewView(r, from, m, lost)
<1>1. m.view \in Nat /\ m.preprepares \in Seq(PrePrepare)
  BY DEF NewView
<1>2. ms \in SUBSET PrePrepare
  BY <1>1 DEF Range
<1>3. /\ turned \in ReplicaState
      /\ turned.lastExecuted = r.lastExecuted /\ turned.ledger = r.ledger
      /\ turned.viewChanges = r.viewChanges /\ turned.preprepares = r.preprepares
  BY <1>1 DEF ReplicaState
<1> HIDE DEF turned
<1>4. /\ entered \in ReplicaState
      /\ entered.lastExecuted = r.lastExecuted /\ entered.ledger = r.ledger
      /\ entered.viewChanges = r.viewChanges
      /\ \A p \in entered.preprepares : p \in r.preprepares
  BY <1>1, <1>3, CleanupType DEF CleanupState, ReplicaState
<1> HIDE DEF entered, ms
<1>5. Attests(entered, taken, 0, 0, 0, {}) /\ taken.ledger = entered.ledger
  BY <1>2, <1>4, AcceptAttests
<1>6. /\ taken \in ReplicaState
      /\ taken.lastExecuted = r.lastExecuted /\ taken.ledger = r.ledger
      /\ taken.viewChanges = r.viewChanges
      /\ \A p \in taken.preprepares : p \in r.preprepares \/ p.digest \in taken.requests
  BY <1>4, <1>5 DEF Attests, Adds
<1>7. q = r \/ q = taken \/ q = StartRequestTimer(taken, FALSE)
  BY DEF ProcessNewView, entered, turned, ms
<1> HIDE DEF taken, q
<1>8. CASE q = StartRequestTimer(taken, FALSE)
  <2>1. Attests(taken, q, 0, 0, 0, {}) /\ q.ledger = taken.ledger
    BY <1>6, <1>8, StartTimerAttests
  <2>2. /\ q.lastExecuted = taken.lastExecuted /\ q.viewChanges = taken.viewChanges
        /\ taken.requests \subseteq q.requests
        /\ \A p \in q.preprepares : p \in taken.preprepares \/ p.digest \in q.requests
    BY <2>1 DEF Attests, Adds
  <2> QED  BY <1>6, <2>1, <2>2 DEF q
<1> QED  BY <1>6, <1>7, <1>8 DEF q

\* A backup that enters the second view takes the request into its slot, unless
\* the first view is forgotten.
LEMMA ReceiveNewViewCarries ==
  ASSUME Inv, AtMostOneChange, AtMostOneChange', TypeOK', ReplicasStep,
         NEW C \in SUBSET Correct, Carry(C), NEW e \in net, ReceiveNewView(e)
  PROVE  \E D \in SUBSET Correct : Carry(D)'
<1> DEFINE i == e.to
           r == replica[i]
           m == e.msg
           M == Range(m.preprepares)
<1>0. TypeOK
  BY DEF Inv
<1>1. /\ i \in Correct /\ i \in Replica /\ e.from \in Replica
      /\ Sends(replica, C, e.from, m) /\ Local(replica, C, r) /\ MainFirstSlot
  BY <1>0 DEF Carry, Correct, TypeOK, Envelope
<1>2. r \in ReplicaState /\ r.id = i /\ r.outbox = {} /\ r.view \in Nat
  BY <1>0, <1>1 DEF TypeOK, ReplicaState
<1>3. m \in NewView /\ m.type = "NewView" /\ UNCHANGED main
  BY <1>0, MessageTypes DEF ReceiveNewView
<1>4. PICK lost : Run(IF Taken(e) THEN ProcessNewView(r, e.from, m, lost) ELSE r, {e})
  BY DEF ReceiveNewView
<1>5. CASE ~Taken(e) \/ ProcessNewView(r, e.from, m, lost) = r
  <2>1. Run(r, {e})
    BY <1>4, <1>5
  <2> QED  BY <1>0, <1>1, <1>3, <2>1, DroppedCarries
<1>6. CASE Taken(e) /\ ProcessNewView(r, e.from, m, lost) # r
  <2>1. ~r.activeView
    BY <1>3, <1>6 DEF Taken, IsMessageAllowed
  <2>2. r.view = 1 /\ Clean(r)
    BY <1>1, <1>2, <2>1 DEF Local, LeftTruly, AtMostOneChange, Inv, EntersViewClean
  <2> PICK q : q = ProcessNewView(r, e.from, m, lost)
    OBVIOUS
  <2>3. Run(q, {e})
    BY <1>4, <1>6
  <2>4. /\ q.view = m.view /\ q.activeView /\ m.view >= r.view
        /\ Repeats(r, q, M)
        /\ \A s \in DOMAIN m.preprepares : \E p \in q.preprepares : p.view = m.view /\ p.seq = s
        /\ Quiet(r, q)
        /\ q.lastExecuted = r.lastExecuted /\ q.ledger = r.ledger
        /\ q.viewChanges = r.viewChanges
        /\ \A p \in q.preprepares : p \in r.preprepares \/ p.digest \in q.requests
        /\ q \in ReplicaState
    <3> HIDE DEF r, m
    <3>1. r \in ReplicaState /\ e.from \in Replica /\ m \in NewView /\ q # r
      BY <1>1, <1>2, <1>3, <1>6
    <3>2. q \in ReplicaState
      BY <3>1, ProcessNewViewStep DEF ViewStep
    <3>3. Quiet(r, q)
      BY <3>1, ProcessNewViewQuiet
    <3> QED  BY <3>1, <3>2, <3>3, ProcessNewViewFills, ProcessNewViewKeeps DEF M
  <2>5. q.id = i /\ q.sequence = r.sequence /\ r.requests \subseteq q.requests
    BY <1>2, <2>4 DEF Repeats
  <2> PICK D : D = LeftWith(C, i)
    OBVIOUS
  <2>6. /\ Follows(C, D) /\ replica'[i] = Returned(q)
        /\ \A j \in Replica \ {i} : replica'[j] = replica[j]
    BY <1>0, <1>1, <2>2, <2>3, <2>4, <2>5, RunFollows
  <2>7. replica'[i].view = q.view /\ replica'[i].sequence = q.sequence
    BY <2>4, <2>6, ReturnedAlike DEF Alike
  <2>8. m.view = 1
    <3>1. replica'[i].view <= 1
      BY <1>1 DEF AtMostOneChange
    <3> QED  BY <1>3, <2>2, <2>4, <2>7, <3>1 DEF NewView
  <2>9. \/ m.preprepares = <<NextPrePrepare>>
        \/ m.preprepares = <<>> /\ Forgotten(replica, C)
    BY <1>1, <1>3, <2>8 DEF Sends
  <2>10. \A k \in M : k = NextPrePrepare
    BY <2>9 DEF Range
  <2>11. Local(replica', D, r)
    <3>1. i \in D => i \in C
      BY <2>2 DEF LeftWith
    <3> QED  BY <1>1, <1>2, <2>6, <3>1, LocalStays
  <2> HIDE DEF M, r, m
  <2>12. /\ \A p \in q.preprepares : p \in r.preprepares \/ p = NextPrePrepare
         /\ \A x \in q.prepares : x \in r.prepares \/ (x.msg.view = 1 /\ x.msg.digest = 0)
         /\ \A x \in q.commits : x \in r.commits \/ (x.msg.view = 1 /\ x.msg.digest = 0)
         /\ \A o \in q.outbox : /\ o.msg.type \in {"Prepare", "Commit"}
                                /\ o.msg.view = 1 /\ o.msg.digest = 0
    <3>1. \A k : Echo(k, M) => k.view = 1 /\ k.digest = 0
      BY <2>10 DEF Echo, IsFor, NextPrePrepare
    <3>2. \A o \in q.outbox : o.msg.type \in NormalCase
      BY <1>2, <2>4 DEF Quiet
    <3>3. \A o \in q.outbox : o.msg.type \in {"Prepare", "Commit"} /\ Echo(o.msg, M)
      BY <1>2, <2>4, <3>2 DEF Repeats, NormalCase
    <3>4. /\ \A p \in q.preprepares : p \in r.preprepares \/ p \in M
          /\ \A x \in q.prepares : x \in r.prepares \/ Echo(x.msg, M)
          /\ \A x \in q.commits : x \in r.commits \/ Echo(x.msg, M)
      BY <2>4 DEF Repeats
    <3> QED  BY <2>10, <3>1, <3>3, <3>4
  <2>13. HeldTruly(replica', D, q)
    <3>1. HeldTruly(replica', D, r)
      BY <2>11 DEF Local
    <3>2. NextPrePrepare.view = 1
      BY DEF NextPrePrepare
    <3> QED  BY <2>4, <2>12, <3>1, <3>2 DEF HeldTruly
  <2>14. LeftTruly(D, q)
    BY <2>4, <2>8, <2>11 DEF Local, LeftTruly
  <2>15. WroteTruly(replica', D, q)
    BY <2>4, <2>11 DEF Local, WroteTruly
  <2>16. ~Forgotten(replica', D) => CarriedOver(q)
    <3> SUFFICES ASSUME ~Forgotten(replica', D) PROVE CarriedOver(q)
      OBVIOUS
    <3>1. CarriedOver(r) /\ m.preprepares = <<NextPrePrepare>>
      BY <2>6, <2>9, <2>11, SecuredStays DEF Local
    <3>2. ASSUME i # 1 PROVE Carried(q)
      <4>1. \A p \in r.preprepares : p.view # 1
        BY <1>2, <2>1, <2>2, <3>2, SecondPrimary DEF Clean, IsPrimary, r
      <4>2. 1 \in DOMAIN m.preprepares
        BY <3>1
      <4>3. PICK p \in q.preprepares : p.view = 1 /\ p.seq = 1
        BY <2>4, <2>8, <4>2
      <4>4. p = NextPrePrepare /\ p \notin r.preprepares
        BY <2>12, <4>1, <4>3
      <4>5. p.digest = 0
        BY <4>4 DEF NextPrePrepare
      <4>6. NextPrePrepare \in q.preprepares /\ 0 \in q.requests
        BY <2>4, <4>4, <4>5
      <4>7. \A k \in q.preprepares : SameSlot(k, NextPrePrepare) => k = NextPrePrepare
        BY <2>12, <4>1 DEF SameSlot, NextPrePrepare
      <4> QED  BY <4>6, <4>7 DEF Carried
    <3> QED  BY <2>4, <2>5, <2>12, <3>1, <3>2 DEF CarriedOver
  <2>17. ASSUME NEW o \in q.outbox PROVE Sends(replica', D, i, o.msg)
    BY <2>12 DEF Sends
  <2>18. MainFirstSlot'
    <3>1. replica'[0].sequence = replica[0].sequence
      BY <2>5, <2>6, <2>7, FirstPrimary DEF r
    <3> QED  BY <1>0, <1>1, <1>3, <3>1, MainFirstStays
  <2>19. Local(replica', D, q) /\ i \notin Byzantine
    BY <1>1, <2>13, <2>14, <2>15, <2>16 DEF Local, Correct
  <2>20. D \in SUBSET Correct /\ Carry(D)'
    BY <1>0, <1>1, <2>2, <2>3, <2>4, <2>5, <2>17, <2>18, <2>19, RunCarries DEF r
  <2> QED  BY <2>20
<1> QED  BY <1>5, <1>6

-----------------------------------------------------------------------------
(* What a ViewChange says. *)

\* Without Prepares there is no certificate.
LEMMA NothingPrepared ==
  ASSUME NEW r \in ReplicaState, r.prepares = {}
  PROVE  GetPrepareSet(r) = {}
<1>1. \A q \in r.preprepares : ~Prepared(r, q.view, q.seq, q.digest)
  BY CertifiedHolds
<1> QED  BY <1>1 DEF GetPrepareSet

\* A replica with Prepares of the first view only reports the certificate of that
\* view, if it has it, and nothing else.
LEMMA CertificatesOf ==
  ASSUME NEW rs, NEW C, NEW r \in ReplicaState, HeldTruly(rs, C, r),
         \A x \in r.prepares : x.msg.view = 0
  PROVE  /\ \A p \in GetPrepareSet(r) : Certificate(p)
         /\ Certified(r) => GetPrepareSet(r) # {}
<1> DEFINE info(q) == [view |-> q.view, seq |-> q.seq, digest |-> q.digest,
                       prepares |-> PreparesOf(r, q.view, q.seq)]
           Q == {q \in r.preprepares : Prepared(r, q.view, q.seq, q.digest)}
<1>1. GetPrepareSet(r) = {info(q) : q \in Q}
  BY DEF GetPrepareSet
<1>2. ASSUME NEW q \in Q PROVE Certificate(info(q))
  <2>1. q.view = 0
    BY CertifiedHolds
  <2>2. q.seq = 1 /\ q.digest = 0
    BY <2>1 DEF HeldTruly, FirstPrePrepare
  <2>3. \A x \in PreparesOf(r, q.view, q.seq) : x.msg = FirstPrepare
    BY DEF PreparesOf, HeldTruly
  <2>4. Cardinality(PreparesOf(r, q.view, q.seq)) >= PrepareQuorum
    BY DEF Prepared
  <2>5. /\ info(q).view = q.view /\ info(q).seq = q.seq /\ info(q).digest = q.digest
        /\ info(q).prepares = PreparesOf(r, q.view, q.seq)
    OBVIOUS
  <2> HIDE DEF info, Q
  <2> QED  BY <2>1, <2>2, <2>3, <2>4, <2>5 DEF Certificate
<1>3. ASSUME Certified(r) PROVE Q # {}
  <2>1. PICK p \in r.preprepares : p.view = 0 /\ p.seq = 1 /\ p.digest = 0
    BY <1>3 DEF Certified, Prepared, PrePrepared
  <2>2. p \in Q
    BY <1>3, <2>1 DEF Certified
  <2> QED  BY <2>2
<1> HIDE DEF info, Q
<1> QED  BY <1>1, <1>2, <1>3

\* A method that has the receipts in H, and may leave the view of r for a later
\* one: it says so then, with the certificates of r, and has its own receipt for
\* that unless something failed.
Turns(r, q, H) ==
    /\ q \in ReplicaState
    /\ q.id = r.id /\ q.sequence = r.sequence /\ q.requests = r.requests
    /\ q.lastExecuted = r.lastExecuted /\ q.ledger = r.ledger
    /\ q.preprepares = r.preprepares /\ q.prepares = r.prepares /\ q.commits = r.commits
    /\ \/ q.view = r.view /\ q.activeView = r.activeView
       \/ q.view > r.view /\ ~q.activeView
    /\ \A x \in q.viewChanges :
          \/ x \in r.viewChanges \/ x \in H
          \/ q.view > r.view /\ x.from = r.id /\ x.msg = ViewChangeFor(r, q.view)
    /\ \A o \in q.outbox :
          o \in r.outbox \/ (q.view > r.view /\ o.msg = ViewChangeFor(r, q.view))
    /\ r.viewChanges \subseteq q.viewChanges
    /\ r.failed => q.failed
    /\ q.view > r.view =>
          q.failed \/ \E x \in q.viewChanges : x.from = r.id /\ x.msg.view = q.view

\* A method that does nothing turns nowhere.
LEMMA TurnsReflexive ==
  ASSUME NEW r \in ReplicaState, NEW H
  PROVE  Turns(r, r, H)
  <1>1. ~(r.view > r.view)
    BY DEF ReplicaState
  <1> QED  BY <1>1 DEF Turns

\* Noting a ViewChange is no turn either.
LEMMA RecordViewChangeTurns ==
  ASSUME NEW r \in ReplicaState, NEW from \in Replica, NEW m \in ViewChange, NEW H,
         [from |-> from, msg |-> m] \in H
  PROVE  LET q == RecordViewChangeReceipt(r, from, m) IN
         Turns(r, q, H) /\ q.view = r.view /\ q.activeView = r.activeView /\ q.outbox = r.outbox
<1> DEFINE x == [from |-> from, msg |-> m]
           c == r.viewChanges \cup {x}
           q == [r EXCEPT !.viewChanges = c]
<1>1. x \in ViewChangeReceipt /\ x \in H
  BY DEF ViewChangeReceipt
<1> HIDE DEF x
<1>2. /\ q \in ReplicaState
      /\ q.id = r.id /\ q.sequence = r.sequence /\ q.requests = r.requests
      /\ q.lastExecuted = r.lastExecuted /\ q.ledger = r.ledger
      /\ q.preprepares = r.preprepares /\ q.prepares = r.prepares /\ q.commits = r.commits
      /\ q.view = r.view /\ q.activeView = r.activeView /\ q.outbox = r.outbox
      /\ q.viewChanges = r.viewChanges \cup {x} /\ q.failed = r.failed
  BY <1>1 DEF ReplicaState
<1>3. RecordViewChangeReceipt(r, from, m) \in {r, q}
  BY Zenon DEF RecordViewChangeReceipt, x
<1> HIDE DEF q
<1>4. Turns(r, q, H)
  <2>1. ~(q.view > r.view)
    BY <1>2 DEF ReplicaState
  <2> QED  BY <1>1, <1>2, <2>1 DEF Turns
<1> QED  BY <1>2, <1>3, <1>4, TurnsReflexive

\* A replica's certificates depend on what it holds only.
LEMMA SameViewChange ==
  ASSUME NEW r, NEW q, q.requests = r.requests, q.preprepares = r.preprepares,
         q.prepares = r.prepares, NEW v
  PROVE  ViewChangeFor(q, v) = ViewChangeFor(r, v)
  BY DEF ViewChangeFor, GetPrepareSet, Prepared, PrePrepared, PreparesOf

\* Starting a view change is one.
LEMMA StartViewChangeTurns ==
  ASSUME NEW r \in ReplicaState, NEW v \in Nat, NEW lost, NEW H
  PROVE  LET q == StartViewChange(r, v, lost) IN
         Turns(r, q, H) /\ (v > r.view => q.view = v /\ ~q.activeView)
<1> DEFINE vc == ViewChangeFor(r, v)
           left == [StopRequestTimer(r) EXCEPT !.view = v, !.activeView = FALSE]
           sent == Broadcast(left, vc, lost)
           x == [from |-> r.id, msg |-> vc]
           done == [sent EXCEPT !.viewChanges = @ \cup {x}]
           q == StartViewChange(r, v, lost)
<1>1. CASE v <= r.view
  <2>1. q = r /\ ~(v > r.view)
    BY <1>1 DEF StartViewChange, ReplicaState
  <2> QED  BY <2>1, TurnsReflexive
<1>2. CASE ~(v <= r.view)
  <2>1. vc \in ViewChange /\ vc \in Message /\ r.id \in Replica /\ r.view \in Nat
    BY ViewChangeForType DEF ReplicaState
  <2>2. x \in ViewChangeReceipt /\ x.from = r.id /\ x.msg = vc
    BY <2>1 DEF ViewChangeReceipt
  <2> HIDE DEF x, vc
  <2>3. /\ left \in ReplicaState
        /\ left.id = r.id /\ left.sequence = r.sequence /\ left.requests = r.requests
        /\ left.lastExecuted = r.lastExecuted /\ left.ledger = r.ledger
        /\ left.preprepares = r.preprepares /\ left.prepares = r.prepares
        /\ left.commits = r.commits /\ left.outbox = r.outbox
        /\ left.viewChanges = r.viewChanges /\ left.failed = r.failed
        /\ left.view = v /\ ~left.activeView
    BY DEF StopRequestTimer, NoTimer, Timer, ReplicaState
  <2> HIDE DEF left
  <2> DEFINE o == [msg |-> vc, failed |-> Fails(vc, lost)]
  <2>4. /\ sent \in ReplicaState
        /\ sent.id = r.id /\ sent.sequence = r.sequence /\ sent.requests = r.requests
        /\ sent.lastExecuted = r.lastExecuted /\ sent.ledger = r.ledger
        /\ sent.preprepares = r.preprepares /\ sent.prepares = r.prepares
        /\ sent.commits = r.commits /\ sent.outbox = r.outbox \cup {o}
        /\ sent.viewChanges = r.viewChanges
        /\ sent.view = v /\ ~sent.activeView
    <3>1. sent \in ReplicaState
      BY <2>1, <2>3, BroadcastKeeps DEF Keeps
    <3> QED  BY <2>3, <3>1 DEF Broadcast, ReplicaState
  <2>5. (r.failed => sent.failed) /\ (Fails(vc, lost) => sent.failed)
    BY <2>3 DEF Broadcast, ReplicaState
  <2>6. o.msg = vc
    OBVIOUS
  <2> HIDE DEF sent, o
  <2>7. /\ done \in ReplicaState
        /\ done.id = r.id /\ done.sequence = r.sequence /\ done.requests = r.requests
        /\ done.lastExecuted = r.lastExecuted /\ done.ledger = r.ledger
        /\ done.preprepares = r.preprepares /\ done.prepares = r.prepares
        /\ done.commits = r.commits /\ done.outbox = sent.outbox
        /\ done.failed = sent.failed
        /\ done.viewChanges = r.viewChanges \cup {x}
        /\ done.view = v /\ ~done.activeView
    BY <2>2, <2>4 DEF ReplicaState
  <2>8. \/ q = sent /\ Fails(vc, lost)
        \/ q = sent /\ \E y \in sent.viewChanges : y.from = r.id /\ y.msg.view = vc.view
        \/ q = done
    <3>1. \/ q = sent /\ Fails(vc, lost)
          \/ q = RecordViewChangeReceipt(sent, r.id, vc)
      BY <1>2, Zenon DEF StartViewChange, sent, left, vc
    <3>2. \/ /\ RecordViewChangeReceipt(sent, r.id, vc) = sent
             /\ \E y \in sent.viewChanges : y.from = r.id /\ y.msg.view = vc.view
          \/ RecordViewChangeReceipt(sent, r.id, vc) = done
      BY Zenon DEF RecordViewChangeReceipt, x
    <3> QED  BY <3>1, <3>2
  <2> HIDE DEF done, q
  <2>9. v > r.view /\ vc.view = v
    BY <1>2, <2>1 DEF vc, ViewChangeFor
  <2>10. (sent.failed \/ \E y \in sent.viewChanges : y.from = r.id /\ y.msg.view = v)
          => Turns(r, sent, H)
    BY <2>4, <2>6, <2>9, <2>5 DEF Turns, vc
  <2>11. Turns(r, done, H)
    <3>1. \E y \in done.viewChanges : y.from = r.id /\ y.msg.view = v
      BY <2>2, <2>7, <2>9
    <3> QED  BY <2>2, <2>6, <2>4, <2>7, <2>9, <2>5, <3>1 DEF Turns, vc
  <2>12. Turns(r, q, H) /\ q.view = v /\ ~q.activeView
    BY <2>4, <2>7, <2>8, <2>9, <2>10, <2>5, <2>11
  <2> QED  BY <2>12 DEF q
<1> QED  BY <1>1, <1>2

\* A handler that first notes something and then turns.
LEMMA TurnsTransitive ==
  ASSUME NEW r \in ReplicaState, NEW p \in ReplicaState, NEW q, NEW H,
         Turns(r, p, H), p.view = r.view, p.activeView = r.activeView, p.outbox = r.outbox,
         Turns(p, q, H)
  PROVE  Turns(r, q, H)
<1>1. \A v : ViewChangeFor(p, v) = ViewChangeFor(r, v)
  BY SameViewChange DEF Turns
<1>2. /\ p.id = r.id /\ r.viewChanges \subseteq p.viewChanges
      /\ \A x \in p.viewChanges : x \in r.viewChanges \/ x \in H
  BY DEF Turns, ReplicaState
<1> QED  BY <1>1, <1>2 DEF Turns

\* Joining a view change is a turn at most.
LEMMA MaybeJoinTurns ==
  ASSUME NEW r \in ReplicaState, NEW lost, NEW H
  PROVE  LET q == MaybeJoinViewChange(r, lost) IN
         Turns(r, q, H) /\ (q = r \/ r.activeView)
<1>1. CASE ~(r.activeView /\ SmallestJoinableViews(r) # {})
  BY <1>1, TurnsReflexive, Zenon DEF MaybeJoinViewChange
<1>2. CASE r.activeView /\ SmallestJoinableViews(r) # {}
  <2> DEFINE k == CHOOSE w \in SmallestJoinableViews(r) : TRUE
  <2>1. MaybeJoinViewChange(r, lost) = StartViewChange(r, k, lost)
    BY <1>2, Zenon DEF MaybeJoinViewChange
  <2>2. k \in Nat
    BY <1>2, NamedViews DEF SmallestJoinableViews, JoinableViews
  <2> HIDE DEF k
  <2> QED  BY <1>2, <2>1, <2>2, StartViewChangeTurns
<1> QED  BY <1>1, <1>2

\* A replica that finds a quorum for the view after its own has left its view.
LEMMA JoinsNextView ==
  ASSUME NEW r \in ReplicaState, OneEach(r), r.activeView, NEW v \in Nat, v = r.view + 1,
         NEW lost, ViewChangeReady(MaybeJoinViewChange(r, lost), v)
  PROVE  MaybeJoinViewChange(r, lost).view > r.view
<1> DEFINE joined == MaybeJoinViewChange(r, lost)
           k == CHOOSE w \in SmallestJoinableViews(r) : TRUE
<1>1. r.view \in Nat
  BY NamedViews
<1>2. CASE SmallestJoinableViews(r) = {}
  <2>1. joined = r
    BY <1>2, Zenon DEF MaybeJoinViewChange
  <2>2. v \in JoinableViews(r)
    BY <1>1, <2>1, ReadyIsJoinable
  <2>3. \A w \in JoinableViews(r) : v <= w
    <3>1. \A w \in JoinableViews(r) : w > r.view /\ w \in Nat
      BY NamedViews DEF JoinableViews
    <3> QED  BY <1>1, <3>1
  <2>4. v \in SmallestJoinableViews(r)
    BY <2>2, <2>3 DEF SmallestJoinableViews
  <2> QED  BY <1>2, <2>4
<1>3. CASE SmallestJoinableViews(r) # {}
  <2>1. joined = StartViewChange(r, k, lost)
    BY <1>3, Zenon DEF MaybeJoinViewChange
  <2>2. k \in SmallestJoinableViews(r)
    BY <1>3
  <2> HIDE DEF k
  <2>3. k \in Nat /\ k > r.view
    BY <2>2, NamedViews DEF SmallestJoinableViews, JoinableViews
  <2>4. joined.view = k
    BY <2>1, <2>3, StartViewChangeTurns
  <2> QED  BY <2>3, <2>4
<1> QED  BY <1>2, <1>3

-----------------------------------------------------------------------------
(* What a new primary makes of the ViewChanges. *)

\* Certificates of the first view yield one pre-prepare, and none yield none.
LEMMA GeneratedFrom ==
  ASSUME NEW messages, \A x \in messages : \A p \in x.msg.prepares : Certificate(p),
         NEW pps \in GeneratePrePrepares(1, messages)
  PROVE  \/ pps = <<NextPrePrepare>>
         \/ pps = <<>> /\ \A x \in messages : x.msg.prepares = {}
<1> DEFINE infos == UNION {x.msg.prepares : x \in messages}
           h == GetHighestSequenceNumber(infos)
           seqs == 1 .. h
           picks == {c \in [seqs -> UNION {ChosenDigests(infos, s) : s \in seqs}] :
                       \A s \in seqs : c[s] \in ChosenDigests(infos, s)}
           pp(c, s) == [type |-> "PrePrepare", view |-> 1, seq |-> s, digest |-> c[s]]
<1>1. \A p \in infos : p.seq = 1 /\ p.digest = 0
  BY DEF Certificate
<1>2. infos = {} => \A x \in messages : x.msg.prepares = {}
  OBVIOUS
<1>3. GeneratePrePrepares(1, messages) = {[s \in seqs |-> pp(c, s)] : c \in picks}
  BY Zenon DEF GeneratePrePrepares, infos, h, pp
<1> HIDE DEF infos
<1>4. h = IF infos = {} THEN 0 ELSE 1
  <2> DEFINE highest == {s \in {p.seq : p \in infos} : \A p \in infos : p.seq <= s}
  <2>1. h = IF highest = {} THEN 0 ELSE CHOOSE s \in highest : TRUE
    BY DEF GetHighestSequenceNumber
  <2>2. highest = IF infos = {} THEN {} ELSE {1}
    BY <1>1
  <2> HIDE DEF highest, h
  <2>3. CASE infos = {}
    BY <2>1, <2>2, <2>3
  <2>4. CASE infos # {}
    <3>1. highest = {1}
      BY <2>2, <2>4
    <3>2. h = CHOOSE s \in {1} : TRUE
      BY <2>1, <3>1
    <3> QED  BY <2>4, <3>2
  <2> QED  BY <2>3, <2>4
<1>5. PICK c \in picks : pps = [s \in seqs |-> pp(c, s)]
  BY <1>3, Zenon
<1>6. CASE infos = {}
  <2>1. seqs = {}
    BY <1>4, <1>6
  <2>2. pps = <<>>
    BY <1>5, <2>1
  <2> QED  BY <1>2, <1>6, <2>2
<1>7. CASE infos # {}
  <2>1. seqs = {1}
    BY <1>4, <1>7
  <2>2. c[1] \in ChosenDigests(infos, 1)
    BY <2>1
  <2>3. \A p \in {p \in infos : p.seq = 1} : p.digest = 0
    BY <1>1
  <2>4. {p \in infos : p.seq = 1} # {}
    BY <1>1, <1>7
  <2>5. c[1] = 0
    BY <2>2, <2>3, <2>4 DEF ChosenDigests
  <2>6. pp(c, 1) = NextPrePrepare
    BY <2>5 DEF NextPrePrepare
  <2> HIDE DEF pp, seqs, picks
  <2>7. pps = [s \in {1} |-> pp(c, s)]
    BY <1>5, <2>1
  <2>8. pps = <<pp(c, 1)>>
    BY <2>7
  <2> QED  BY <2>6, <2>8
<1> QED  BY <1>6, <1>7

\* Opening a view executes nothing,
LEMMA EnterOwnViewWrites ==
  ASSUME NEW r \in ReplicaState, NEW v \in Nat, NEW pps \in Seq(PrePrepare)
  PROVE  LET q == EnterOwnView(r, v, pps) IN
         q.ledger = r.ledger /\ q.lastExecuted = r.lastExecuted /\ q.failed = r.failed
<1> DEFINE cleaned == CleanupState(r, v)
           stored == StorePrePrepares(cleaned, Range(pps))
           digests == {p.digest : p \in Range(pps)}
           q == [stored EXCEPT !.requests = @ \cup digests, !.pending = @ \cup digests,
                               !.view = v, !.activeView = TRUE]
<1>1. EnterOwnView(r, v, pps) = q
  BY Zenon DEF EnterOwnView
<1>2. cleaned.ledger = r.ledger /\ cleaned.lastExecuted = r.lastExecuted
      /\ cleaned.failed = r.failed /\ cleaned \in ReplicaState
  BY CleanupType DEF CleanupState, ReplicaState
<1> HIDE DEF cleaned
<1>3. /\ stored.ledger = r.ledger /\ stored.lastExecuted = r.lastExecuted
      /\ stored.failed = r.failed
  BY <1>2 DEF StorePrePrepares, ReplicaState
<1>4. /\ q.ledger = stored.ledger /\ q.lastExecuted = stored.lastExecuted
      /\ q.failed = stored.failed
  <2> HIDE DEF digests
  <2> QED  BY <1>2 DEF StorePrePrepares, ReplicaState
<1> HIDE DEF q
<1> QED  BY <1>1, <1>3, <1>4

\* ... nor does proposing what is outstanding.
LEMMA ProposeOutstandingWrites ==
  ASSUME NEW r \in ReplicaState, NEW lost, NEW q \in ProposeOutstanding(r, lost)
  PROVE  q.ledger = r.ledger /\ q.lastExecuted = r.lastExecuted /\ (r.failed => q.failed)
<1> DEFINE waiting == {GetDigest(d) : d \in OutstandingRequests(r)} \ r.pending
           sent(order) == SendPrePrepares(r, order, lost)
           own(order) == {m \in PrePreparesFor(r, order) :
                            ~ConflictingPrePrepare(r, m) /\ ~Fails(m, lost)}
<1>1. PICK order \in SetToSeqs(waiting) : q = StorePrePrepares(sent(order), own(order))
  BY Zenon DEF ProposeOutstanding, waiting
<1>2. waiting \in SUBSET Digest
  BY DEF GetDigest, Digest, OutstandingRequests, ReplicaState
<1> HIDE DEF waiting
<1>3. Cardinality(waiting) \in Nat
  BY <1>2, DigestFinite, FS_Subset, FS_CardinalityType
<1>4. order \in Seq(Digest)
  BY <1>2, <1>3 DEF SetToSeqs
<1>5. /\ sent(order) \in ReplicaState
      /\ sent(order).ledger = r.ledger /\ sent(order).lastExecuted = r.lastExecuted
      /\ r.failed => sent(order).failed
  <2> DEFINE ms == {m \in PrePreparesFor(r, order) : ~ConflictingPrePrepare(r, m)}
             o == r.outbox \cup {[msg |-> m, failed |-> Fails(m, lost)] : m \in ms}
             f == r.failed \/ \E m \in ms : Fails(m, lost)
             digests == Range(order)
             n == r.sequence + Len(order)
             p == [r EXCEPT !.requests = @ \cup digests, !.pending = @ \cup digests,
                            !.sequence = n, !.outbox = o, !.failed = f]
  <2>1. sent(order) = p
    BY DEF SendPrePrepares
  <2>2. sent(order) \in ReplicaState
    BY <1>4, SendPrePreparesKeeps DEF Keeps
  <2>4. r.failed => f
    OBVIOUS
  <2> HIDE DEF digests, n, o, f, sent
  <2>3. p.ledger = r.ledger /\ p.lastExecuted = r.lastExecuted /\ (r.failed => p.failed)
    BY <2>4 DEF ReplicaState
  <2> QED  BY <2>1, <2>2, <2>3
<1> HIDE DEF sent, own
<1> QED  BY <1>1, <1>5 DEF StorePrePrepares, ReplicaState

\* A method of r that has started view v, or has failed to, with a NewView that
\* carries pps.
Starts(r, q, v, pps) ==
    /\ q \in ReplicaState
    /\ q.id = r.id /\ q.lastExecuted = r.lastExecuted /\ q.ledger = r.ledger
    /\ r.failed => q.failed
    /\ q.prepares \subseteq r.prepares /\ q.commits \subseteq r.commits
    /\ \A p \in q.preprepares : p \in r.preprepares \/ p.view = v
    /\ \A o \in q.outbox :
          \/ o \in r.outbox
          \/ o.msg.type = "NewView" /\ o.msg.view = v /\ o.msg.preprepares = pps
          \/ o.msg.type = "PrePrepare" /\ o.msg.view = v
    /\ \/ q.view = v /\ q.activeView
       \/ /\ q.view = r.view /\ q.activeView = r.activeView /\ q.sequence = r.sequence
          /\ q.preprepares = r.preprepares /\ q.prepares = r.prepares
          /\ q.requests = r.requests

\* So a primary that starts a view, or fails to, does it with a NewView made from
\* the ViewChanges it has, its own included.
LEMMA StartNewViewStarts ==
  ASSUME NEW r \in ReplicaState, NEW v \in Nat, NEW lost, NEW q \in StartNewView(r, v, lost)
  PROVE  LET own == RecordViewChangeReceipt(r, r.id, ViewChangeFor(r, v)) IN
         /\ q.viewChanges = own.viewChanges
         /\ \E pps \in GeneratePrePrepares(v, ViewChangesOf(own, v)) : Starts(r, q, v, pps)
<1> DEFINE vc == ViewChangeFor(r, v)
           own == RecordViewChangeReceipt(r, r.id, vc)
           msgs == ViewChangesOf(own, v)
           newView(pps) == [type |-> "NewView", view |-> v, messages |-> msgs,
                            preprepares |-> pps]
           sent(pps) == Broadcast(own, newView(pps), lost)
<1>1. vc \in ViewChange /\ r.id \in Replica
  BY ViewChangeForType DEF ReplicaState
<1> HIDE DEF vc
<1>2. /\ own \in ReplicaState
      /\ own.id = r.id /\ own.sequence = r.sequence /\ own.requests = r.requests
      /\ own.lastExecuted = r.lastExecuted /\ own.ledger = r.ledger
      /\ own.preprepares = r.preprepares /\ own.prepares = r.prepares
      /\ own.commits = r.commits /\ own.view = r.view /\ own.activeView = r.activeView
      /\ own.outbox = r.outbox /\ (r.failed => own.failed)
  <2>1. [from |-> r.id, msg |-> vc] \in {[from |-> r.id, msg |-> vc]}
    OBVIOUS
  <2> QED  BY <1>1, <2>1, RecordViewChangeTurns DEF Turns
<1> HIDE DEF own
<1>3. msgs \in SUBSET ViewChangeReceipt
  BY <1>2 DEF ViewChangesOf, ReplicaState
<1> HIDE DEF msgs
<1>4. PICK pps \in GeneratePrePrepares(v, msgs) :
         q \in IF Fails(newView(pps), lost)
                 THEN {sent(pps)}
                 ELSE ProposeOutstanding(EnterOwnView(sent(pps), v, pps), lost)
  BY Zenon DEF StartNewView, own, msgs, vc
<1>5. pps \in Seq(PrePrepare) /\ \A m \in Range(pps) : m \in PrePrepare /\ m.view = v
  BY <1>3, GeneratePrePreparesType
<1> DEFINE nv == newView(pps)
           s == sent(pps)
           e == EnterOwnView(s, v, pps)
           o == [msg |-> nv, failed |-> Fails(nv, lost)]
<1>6. nv \in Message /\ nv.type = "NewView" /\ nv.view = v /\ nv.preprepares = pps
  BY <1>3, <1>5 DEF NewView, Message
<1>7. q = s \/ q \in ProposeOutstanding(e, lost)
  BY <1>4, Zenon
<1>8. s \in ReplicaState
  BY <1>2, <1>6, BroadcastKeeps DEF Keeps
<1>9. /\ s.id = r.id /\ s.sequence = r.sequence /\ s.requests = r.requests
      /\ s.lastExecuted = r.lastExecuted /\ s.ledger = r.ledger
      /\ s.preprepares = r.preprepares /\ s.prepares = r.prepares
      /\ s.commits = r.commits /\ s.view = r.view /\ s.activeView = r.activeView
      /\ s.outbox = r.outbox \cup {o} /\ s.viewChanges = own.viewChanges
  BY <1>2 DEF Broadcast, ReplicaState
<1>13. r.failed => s.failed
  BY <1>2 DEF Broadcast, ReplicaState
<1>10. o.msg = nv
  OBVIOUS
<1> HIDE DEF nv, s, o, newView, sent
<1>11. CASE q = s
  <2>1. Starts(r, q, v, pps)
    BY <1>6, <1>8, <1>9, <1>10, <1>11, <1>13 DEF Starts
  <2> QED  BY <1>9, <1>11, <2>1 DEF own, msgs, vc
<1>12. CASE q \in ProposeOutstanding(e, lost)
  <2>1. /\ e \in ReplicaState /\ e.outbox = s.outbox /\ Opens(s, e, v, pps)
        /\ e.ledger = s.ledger /\ e.lastExecuted = s.lastExecuted
        /\ e.viewChanges = s.viewChanges /\ (s.failed => e.failed)
    BY <1>5, <1>8, EnterOwnViewOpens, EnterOwnViewWrites, EnterOwnViewQuiet DEF Quiet
  <2>2. /\ e.id = s.id /\ e.view = v /\ e.activeView
        /\ e.prepares \subseteq s.prepares /\ e.commits \subseteq s.commits
        /\ \A p \in e.preprepares : p \in s.preprepares \/ p.view = v
    BY <2>1 DEF Opens
  <2> HIDE DEF e
  <2>3. /\ q.ledger = e.ledger /\ q.lastExecuted = e.lastExecuted /\ (e.failed => q.failed)
        /\ q.viewChanges = e.viewChanges
        /\ q \in ReplicaState /\ q.view = v /\ q.activeView
    BY <1>12, <2>1, <2>2, ProposeOutstandingWrites, ProposeOutstandingQuiet,
       ProposeOutstandingWithin DEF Quiet, Within
  <2>4. /\ q.id = e.id /\ q.prepares = e.prepares /\ q.commits = e.commits
        /\ \A p \in q.preprepares : p \in e.preprepares \/ p.view = v
        /\ \A k \in q.outbox : k \in e.outbox \/ (k.msg.type = "PrePrepare" /\ k.msg.view = v)
    BY <1>12, <2>1, <2>2, ProposeOutstandingProposes DEF Proposes
  <2>5. \A k \in q.outbox :
           \/ k \in r.outbox
           \/ k.msg.type = "NewView" /\ k.msg.view = v /\ k.msg.preprepares = pps
           \/ k.msg.type = "PrePrepare" /\ k.msg.view = v
    BY <1>6, <1>9, <1>10, <2>1, <2>4
  <2>6. Starts(r, q, v, pps)
    BY <1>9, <1>13, <2>1, <2>2, <2>3, <2>4, <2>5 DEF Starts
  <2> QED  BY <1>9, <2>1, <2>3, <2>6 DEF own, msgs, vc
<1> QED  BY <1>7, <1>11, <1>12

-----------------------------------------------------------------------------
(* View changes. *)

\* What a correct replica holds and says when it has turned to a view that is the
\* second at most.
LEMMA TurnedHolds ==
  ASSUME TypeOK, NEW C, \A j \in C : replica[j].view > 0, NEW D, Follows(C, D),
         NEW i \in Replica, D = LeftWith(C, i), Local(replica, C, replica[i]), Clean(replica[i]),
         NEW H, \A x \in H : x.from \in Replica /\ Reports(replica, C, x.from, x.msg),
         NEW q, Turns(replica[i], q, H), q.view <= 1,
         replica'[i].view \in Nat, replica'[i].view >= q.view
  PROVE  /\ Local(replica', D, q)
         /\ \A o \in q.outbox : Sends(replica', D, i, o.msg)
         /\ q.view = 1 /\ ~q.activeView => Reports(replica', D, i, ViewChangeFor(q, 1))
<1> DEFINE r == replica[i]
<1>1. r \in ReplicaState /\ r.id = i /\ r.outbox = {} /\ r.view \in Nat
  BY DEF TypeOK, ReplicaState
<1>2. /\ q \in ReplicaState /\ q.id = i
      /\ q.requests = r.requests /\ q.lastExecuted = r.lastExecuted /\ q.ledger = r.ledger
      /\ q.preprepares = r.preprepares /\ q.prepares = r.prepares /\ q.commits = r.commits
      /\ \/ q.view = r.view /\ q.activeView = r.activeView
         \/ q.view > r.view /\ ~q.activeView
  BY <1>1 DEF Turns
<1>3. /\ \A x \in q.viewChanges :
            \/ x \in r.viewChanges \/ x \in H
            \/ q.view > r.view /\ x.from = i /\ x.msg = ViewChangeFor(r, q.view)
      /\ \A o \in q.outbox : q.view > r.view /\ o.msg = ViewChangeFor(r, q.view)
  BY <1>1 DEF Turns
<1>4. q.view \in Nat
  BY <1>2, NamedViews
<1>5. HeldTruly(replica, C, r) /\ LeftTruly(C, r) /\ WroteTruly(replica, C, r)
  BY DEF Local
<1>6. LeftTruly(D, q)
  <2>1. Certified(r) => Certified(q)
    BY <1>2 DEF Certified, Prepared, PrePrepared, PreparesOf
  <2>2. i \in C /\ ~q.activeView => ~r.activeView
    <3>1. i \in C => r.view > 0
      OBVIOUS
    <3> QED  BY <1>1, <1>2, <1>4, <3>1
  <2>3. q.view = 0 => r.view = 0 /\ q.activeView = r.activeView
    BY <1>1, <1>2, <1>4
  <2>4. i \in D => i \in C \/ Certified(r)
    BY DEF LeftWith
  <2> QED  BY <1>1, <1>2, <1>5, <2>1, <2>2, <2>3, <2>4 DEF LeftTruly
<1>7. ASSUME q.view = 1, ~q.activeView
      PROVE  Reports(replica', D, i, ViewChangeFor(r, 1))
  <2>1. \A x \in r.prepares : x.msg.view = 0
    <3>1. \A x \in r.prepares : x.msg.view \in Nat
      BY <1>1, ReceiptViews
    <3>2. r.view = 0 \/ (r.view = 1 /\ ~r.activeView)
      BY <1>1, <1>2, <1>7
    <3> QED  BY <3>1, <3>2 DEF Clean
  <2>2. /\ \A p \in GetPrepareSet(r) : Certificate(p)
        /\ Certified(r) => GetPrepareSet(r) # {}
    BY <1>1, <1>5, <2>1, CertificatesOf
  <2>3. i \in D => Certified(r)
    <3>1. i \in D => Certified(q)
      BY <1>2, <1>6, <1>7 DEF LeftTruly
    <3> QED  BY <1>2, <3>1 DEF Certified, Prepared, PrePrepared, PreparesOf
  <2>4. replica'[i].view > 0
    <3>1. replica'[i].view >= 1 /\ replica'[i].view \in Nat
      BY <1>7
    <3> QED  BY <3>1
  <2>5. ViewChangeFor(r, 1).prepares = GetPrepareSet(r)
    BY DEF ViewChangeFor
  <2> QED  BY <2>2, <2>3, <2>4, <2>5 DEF Reports
<1>8. q.view > r.view => q.view = 1 /\ ~q.activeView
  BY <1>1, <1>2, <1>4
<1>9. HeldTruly(replica', D, q)
  <2>1. HeldTruly(replica', D, r)
    BY <1>1, <1>5, HeldStays
  <2>2. ASSUME NEW x \in q.viewChanges PROVE Reports(replica', D, x.from, x.msg)
    <3>1. CASE x \in r.viewChanges
      BY <2>1, <3>1 DEF HeldTruly
    <3>2. CASE x \in H
      BY <3>2, ReportsStay
    <3>3. CASE q.view > r.view /\ x.from = i /\ x.msg = ViewChangeFor(r, q.view)
      BY <1>7, <1>8, <3>3
    <3> QED  BY <1>3, <3>1, <3>2, <3>3
  <2> QED  BY <1>2, <2>1, <2>2 DEF HeldTruly
<1>10. WroteTruly(replica', D, q)
  BY <1>2, <1>5, SecuredStays DEF WroteTruly
<1>11. ~Forgotten(replica', D) => CarriedOver(q)
  <2> SUFFICES ASSUME ~Forgotten(replica', D) PROVE CarriedOver(q)
    OBVIOUS
  <2>1. CarriedOver(r)
    BY SecuredStays DEF Local
  <2> QED  BY <1>1, <1>2, <2>1 DEF CarriedOver, Carried
<1>12. ASSUME NEW o \in q.outbox PROVE Sends(replica', D, i, o.msg)
  <2>1. o.msg = ViewChangeFor(r, 1) /\ q.view = 1 /\ ~q.activeView
    BY <1>3, <1>8
  <2>2. o.msg.type = "ViewChange" /\ o.msg.view = 1
    BY <2>1 DEF ViewChangeFor
  <2> QED  BY <1>7, <2>1, <2>2 DEF Sends
<1>13. ViewChangeFor(q, 1) = ViewChangeFor(r, 1)
  BY <1>2, SameViewChange
<1> QED  BY <1>6, <1>7, <1>9, <1>10, <1>11, <1>12, <1>13 DEF Local

\* A method that turns keeps the invariant.
LEMMA TurnedCarries ==
  ASSUME Inv, AtMostOneChange', TypeOK', ReplicasStep,
         NEW C \in SUBSET Correct, Carry(C), NEW i \in Replica,
         NEW H, \A x \in H : x.from \in Replica /\ Reports(replica, C, x.from, x.msg),
         NEW q, Turns(replica[i], q, H), NEW consumed, Run(q, consumed), UNCHANGED main
  PROVE  \E D \in SUBSET Correct : Carry(D)'
<1> DEFINE r == replica[i]
<1>0. TypeOK /\ MainFirstSlot /\ \A j \in C : replica[j].view > 0
  BY DEF Inv, Carry
<1>1. r \in ReplicaState /\ r.id = i /\ r.outbox = {} /\ r.view \in Nat
  BY <1>0 DEF TypeOK, ReplicaState
<1>2. /\ q \in ReplicaState /\ q.id = i /\ q.sequence = r.sequence
      /\ q.requests = r.requests /\ q.preprepares = r.preprepares /\ q.prepares = r.prepares
      /\ \A o \in q.outbox : q.view > r.view /\ o.msg = ViewChangeFor(r, q.view)
  BY <1>1 DEF Turns
<1>3. Certified(r) => Certified(q)
  BY <1>2 DEF Certified, Prepared, PrePrepared, PreparesOf
<1> PICK D : D = LeftWith(C, i)
  OBVIOUS
<1>4. /\ Follows(C, D) /\ D \in SUBSET Correct
      /\ \A j \in Replica \ {i} : replica'[j] = replica[j]
      /\ replica'[i] = Returned(q)
  BY <1>0, <1>2, <1>3, RunFollows
<1>5. replica'[i].view = q.view /\ replica'[i].sequence = q.sequence /\ q.view \in Nat
  BY <1>2, <1>4, ReturnedAlike, NamedViews DEF Alike
<1>6. ASSUME i \in Correct
      PROVE  Local(replica', D, q) /\ \A o \in q.outbox : Sends(replica', D, i, o.msg)
  <2>1. q.view <= 1 /\ replica'[i].view >= q.view
    BY <1>5, <1>6 DEF AtMostOneChange
  <2>2. Local(replica, C, r) /\ Clean(r)
    BY <1>6 DEF Carry, Inv, EntersViewClean
  <2> QED  BY <1>0, <1>4, <1>5, <2>1, <2>2, TurnedHolds
<1>7. ASSUME i \notin Correct
      PROVE  q.prepares = {} /\ \A o \in q.outbox : Sends(replica', D, i, o.msg)
  <2>1. i \in Byzantine /\ i \notin D
    BY <1>4, <1>7 DEF Correct
  <2>2. r.prepares = {} /\ GetPrepareSet(r) = {}
    BY <1>1, <2>1, NothingPrepared DEF Carry
  <2>3. ASSUME NEW o \in q.outbox PROVE Sends(replica', D, i, o.msg)
    <3>1. /\ o.msg.type = "ViewChange" /\ o.msg.view = q.view /\ o.msg.prepares = {}
          /\ q.view > r.view
      BY <1>2, <2>2 DEF ViewChangeFor
    <3>2. o.msg.view > 0 /\ replica'[i].view > 0
      BY <1>1, <1>5, <3>1
    <3> QED  BY <2>1, <3>1, <3>2 DEF Sends, Reports
  <2> QED  BY <1>2, <2>2, <2>3
<1>8. MainFirstSlot'
  <2>1. replica'[0].sequence = replica[0].sequence
    BY <1>2, <1>4, <1>5, FirstPrimary
  <2> QED  BY <1>0, <2>1, MainFirstStays
<1>9. i \in Byzantine => i \notin Correct
  BY DEF Correct
<1> QED
  <2>1. D \in SUBSET Correct /\ Carry(D)'
    BY <1>0, <1>2, <1>3, <1>6, <1>7, <1>8, <1>9, RunCarries
  <2> QED  BY <2>1

\* The callback of a timer turns.
LEMMA TimerCallbackTurns ==
  ASSUME TypeOK, NEW i \in Replica, NEW v \in 1 .. MaxView, TimerCallback(i, v)
  PROVE  \E q : Turns(replica[i], q, {}) /\ Run(q, {})
<1> DEFINE r == replica[i]
           p == [r EXCEPT !.callbacks = @ \ {v}]
<1>1. r \in ReplicaState /\ v \in Nat
  BY BoundAssumption DEF TypeOK
<1>2. p \in ReplicaState /\ p.view = r.view /\ p.activeView = r.activeView /\ p.outbox = r.outbox
  BY <1>1 DEF ReplicaState
<1>3. Turns(r, p, {})
  <2>1. ~(p.view > r.view)
    BY <1>1, <1>2 DEF ReplicaState
  <2> QED  BY <1>1, <1>2, <2>1 DEF Turns, ReplicaState
<1> PICK lost : Run(StartViewChange(p, v, lost), {})
  BY DEF TimerCallback
<1> DEFINE q == StartViewChange(p, v, lost)
<1>4. Turns(p, q, {})
  BY <1>1, <1>2, StartViewChangeTurns
<1>5. Run(q, {})
  OBVIOUS
<1> HIDE DEF q
<1> HIDE DEF p
<1>6. Turns(r, q, {})
  BY <1>1, <1>2, <1>3, <1>4, TurnsTransitive
<1> QED  BY <1>5, <1>6

\* So it keeps the invariant.
LEMMA TimerCallbackCarries ==
  ASSUME Inv, AtMostOneChange', TypeOK', ReplicasStep,
         NEW C \in SUBSET Correct, Carry(C), NEW i \in Replica, NEW v \in 1 .. MaxView,
         TimerCallback(i, v)
  PROVE  \E D \in SUBSET Correct : Carry(D)'
<1>1. PICK q : Turns(replica[i], q, {}) /\ Run(q, {})
  BY TimerCallbackTurns DEF Inv
<1>2. UNCHANGED main
  BY DEF TimerCallback
<1> QED  BY <1>1, <1>2, TurnedCarries

\* Joining a view change, a replica keeps to one receipt for each sender and view.
LEMMA MaybeJoinOneEach ==
  ASSUME NEW r \in ReplicaState, OneEach(r), NEW lost
  PROVE  OneEach(MaybeJoinViewChange(r, lost))
<1> DEFINE w == CHOOSE v \in SmallestJoinableViews(r) : TRUE
<1>1. CASE MaybeJoinViewChange(r, lost) = r
  BY <1>1
<1>2. CASE MaybeJoinViewChange(r, lost) # r
  <2>1. SmallestJoinableViews(r) # {} /\ MaybeJoinViewChange(r, lost) = StartViewChange(r, w, lost)
    BY <1>2, Zenon DEF MaybeJoinViewChange
  <2>2. w \in SmallestJoinableViews(r)
    BY <2>1
  <2>3. w \in Nat
    BY <2>2, NamedViews DEF SmallestJoinableViews, JoinableViews
  <2> HIDE DEF w
  <2>4. Tells(r, StartViewChange(r, w, lost), {}, {})
    BY <2>3, StartViewChangeTells
  <2> QED  BY <2>1, <2>4 DEF Tells
<1> QED  BY <1>1, <1>2

\* The primary of a view that starts it: its NewView carries the request into the
\* second view, or a quorum has told it that it was not certified in the first.
LEMMA StartedCarries ==
  ASSUME Inv, AtMostOneChange', TypeOK', ReplicasStep,
         NEW C \in SUBSET Correct, Carry(C), NEW i \in Correct,
         NEW H, \A x \in H : x.from \in Replica /\ Reports(replica, C, x.from, x.msg),
         NEW j, Turns(replica[i], j, H), OneEach(j),
         NEW v \in Nat, v > 0, j.view <= v, Primary(v) = i, ViewChangeReady(j, v),
         v = 1 => j.view = 1 /\ ~j.activeView,
         NEW own, own = RecordViewChangeReceipt(j, i, ViewChangeFor(j, v)),
         NEW pps \in GeneratePrePrepares(v, ViewChangesOf(own, v)),
         NEW q, Starts(j, q, v, pps), q.viewChanges = own.viewChanges,
         NEW consumed, Run(q, consumed), UNCHANGED main
  PROVE  \E D \in SUBSET Correct : Carry(D)'
<1> DEFINE r == replica[i]
<1>0. /\ TypeOK /\ MainFirstSlot /\ (\A k \in C : replica[k].view > 0)
      /\ Local(replica, C, r) /\ Clean(r) /\ i \in Replica
  BY DEF Inv, Carry, EntersViewClean, Correct
<1>1. r \in ReplicaState /\ r.id = i /\ r.outbox = {} /\ r.view \in Nat
  BY <1>0 DEF TypeOK, ReplicaState
<1>2. /\ j \in ReplicaState /\ j.id = i /\ j.sequence = r.sequence
      /\ j.preprepares = r.preprepares /\ j.prepares = r.prepares /\ j.requests = r.requests
      /\ j.view \in Nat /\ r.view <= j.view
  <2>1. /\ j \in ReplicaState /\ j.id = i /\ j.sequence = r.sequence
        /\ j.preprepares = r.preprepares /\ j.prepares = r.prepares /\ j.requests = r.requests
        /\ j.view = r.view \/ j.view > r.view
    BY <1>1 DEF Turns
  <2>2. j.view \in Nat
    BY <2>1, NamedViews
  <2> QED  BY <1>1, <2>1, <2>2
<1>3. /\ q \in ReplicaState /\ q.id = i /\ q.lastExecuted = j.lastExecuted
      /\ q.ledger = j.ledger /\ q.prepares \subseteq j.prepares /\ q.commits \subseteq j.commits
      /\ \A p \in q.preprepares : p \in j.preprepares \/ p.view = v
  BY <1>2 DEF Starts
<1>4. \/ q.view = v /\ q.activeView
      \/ /\ q.view = j.view /\ q.activeView = j.activeView /\ q.sequence = j.sequence
         /\ q.preprepares = j.preprepares /\ q.prepares = j.prepares
         /\ q.requests = j.requests
  BY DEF Starts
<1>5. q.view = 0 => /\ q.preprepares = r.preprepares /\ q.prepares = r.prepares
                    /\ q.requests = r.requests
  BY <1>2, <1>4
<1>6. r.view = 0 /\ q.view = 0 /\ Certified(r) => Certified(q)
  <2>1. q.view = 0 => /\ PrePrepared(r, 0, 1, 0) => PrePrepared(q, 0, 1, 0)
                      /\ r.prepares \subseteq q.prepares
    BY <1>5 DEF PrePrepared
  <2> QED  BY <1>1, <1>3, <2>1, PreparedGrows DEF Certified
<1> PICK D : D = LeftWith(C, i)
  OBVIOUS
<1>7. /\ Follows(C, D) /\ D \in SUBSET Correct
      /\ \A k \in Replica \ {i} : replica'[k] = replica[k]
      /\ replica'[i] = Returned(q)
  BY <1>0, <1>3, <1>6, RunFollows
<1>8. replica'[i].view = q.view /\ replica'[i].sequence = q.sequence /\ q.view \in Nat
  BY <1>3, <1>7, ReturnedAlike, NamedViews DEF Alike
<1>9. q.view <= 1 /\ j.view <= q.view
  <2>1. q.view <= 1
    BY <1>8 DEF AtMostOneChange
  <2> QED  BY <1>2, <1>4, <2>1
<1>10. /\ Local(replica', D, j)
       /\ \A o \in j.outbox : Sends(replica', D, i, o.msg)
       /\ j.view = 1 /\ ~j.activeView => Reports(replica', D, i, ViewChangeFor(j, 1))
  <2>1. j.view <= 1 /\ replica'[i].view \in Nat /\ replica'[i].view >= j.view
    BY <1>2, <1>8, <1>9
  <2> QED  BY <1>0, <1>7, <2>1, TurnedHolds
<1>11. HeldTruly(replica', D, j) /\ LeftTruly(D, j) /\ WroteTruly(replica', D, j)
  BY <1>10 DEF Local
<1>12. /\ j.viewChanges \subseteq own.viewChanges
       /\ \A x \in own.viewChanges :
             x \in j.viewChanges \/ x = [from |-> i, msg |-> ViewChangeFor(j, v)]
  BY <1>2 DEF RecordViewChangeReceipt, ReplicaState
<1>13. \A x \in own.viewChanges : Reports(replica', D, x.from, x.msg)
  <2> SUFFICES ASSUME NEW x \in own.viewChanges PROVE Reports(replica', D, x.from, x.msg)
    OBVIOUS
  <2>1. CASE x \in j.viewChanges
    BY <1>11, <2>1 DEF HeldTruly
  <2>2. CASE x = [from |-> i, msg |-> ViewChangeFor(j, v)]
    <3>1. x.from = i /\ x.msg = ViewChangeFor(j, v) /\ x.msg.view = v
      BY <2>2 DEF ViewChangeFor
    <3>2. CASE v = 1
      BY <1>10, <3>1, <3>2
    <3>3. CASE v # 1
      BY <3>1, <3>3 DEF Reports
    <3> QED  BY <3>2, <3>3
  <2> QED  BY <1>12, <2>1, <2>2
<1>14. HeldTruly(replica', D, q)
  BY <1>3, <1>11, <1>13 DEF HeldTruly
<1>15. LeftTruly(D, q)
  <2>1. CASE q.view = v /\ q.activeView
    BY <1>3, <1>11, <2>1 DEF LeftTruly
  <2>2. CASE /\ q.view = j.view /\ q.activeView = j.activeView
             /\ q.preprepares = j.preprepares /\ q.prepares = j.prepares
             /\ q.requests = j.requests
    <3>1. Certified(j) => Certified(q)
      <4>1. /\ PrePrepared(j, 0, 1, 0) => PrePrepared(q, 0, 1, 0)
            /\ j.prepares \subseteq q.prepares
        BY <2>2 DEF PrePrepared
      <4> QED  BY <1>2, <1>3, <4>1, PreparedGrows DEF Certified
    <3> QED  BY <1>2, <1>3, <1>11, <2>2, <3>1 DEF LeftTruly
  <2> QED  BY <1>4, <2>1, <2>2
<1>16. WroteTruly(replica', D, q)
  BY <1>3, <1>11 DEF WroteTruly
<1>17. ~Forgotten(replica', D) => CarriedOver(q)
  <2> SUFFICES ASSUME ~Forgotten(replica', D) PROVE CarriedOver(q)
    OBVIOUS
  <2>1. CarriedOver(j)
    BY <1>10 DEF Local
  <2>2. q.view = 1 /\ q.activeView /\ q.id # 1 => Carried(q)
    <3>1. CASE q.view = v /\ q.activeView
      BY <1>3, <3>1, SecondPrimary
    <3>2. CASE /\ q.view = j.view /\ q.activeView = j.activeView
               /\ q.preprepares = j.preprepares /\ q.requests = j.requests
      BY <1>2, <1>3, <2>1, <3>2 DEF CarriedOver, Carried
    <3> QED  BY <1>4, <3>1, <3>2
  <2> QED  BY <1>3, <2>1, <2>2 DEF CarriedOver
<1>18. v = 1 => \/ pps = <<NextPrePrepare>>
                \/ pps = <<>> /\ Forgotten(replica', D)
  <2> SUFFICES ASSUME v = 1
               PROVE  \/ pps = <<NextPrePrepare>>
                      \/ pps = <<>> /\ Forgotten(replica', D)
    OBVIOUS
  <2> DEFINE M == ViewChangesOf(own, 1)
             S == {k \in Replica : replica'[k].view > 0 /\ k \notin D}
  <2>1. \A x \in M : x.msg.view = 1 /\ Reports(replica', D, x.from, x.msg)
    BY <1>13 DEF ViewChangesOf
  <2>2. \A x \in M : \A p \in x.msg.prepares : Certificate(p)
    BY <2>1 DEF Reports
  <2>3. pps \in GeneratePrePrepares(1, M)
    OBVIOUS
  <2> HIDE DEF M
  <2>4. \/ pps = <<NextPrePrepare>>
        \/ pps = <<>> /\ \A x \in M : x.msg.prepares = {}
    BY <2>2, <2>3, GeneratedFrom
  <2>5. ASSUME \A x \in M : x.msg.prepares = {}
        PROVE  Forgotten(replica', D)
    <3>1. ASSUME NEW x \in ViewChangesOf(j, 1)
          PROVE  x.from \in S
      <4>1. x \in M /\ x.from \in Replica
        BY <1>2, <1>12, NamedViews DEF M, ViewChangesOf
      <4> QED  BY <2>1, <2>5, <4>1 DEF Reports
    <3>2. S \in SUBSET Replica
      OBVIOUS
    <3>3. ViewChangeReady(j, 1)
      OBVIOUS
    <3> HIDE DEF S
    <3>4. Cardinality(S) >= CommitQuorum
      BY <1>2, <3>1, <3>2, <3>3, QuorumOfSenders
    <3> QED  BY <3>4 DEF S, Forgotten
  <2> QED  BY <2>4, <2>5
<1>19. ASSUME NEW o \in q.outbox PROVE Sends(replica', D, i, o.msg)
  <2>1. CASE o \in j.outbox
    BY <1>10, <2>1
  <2>2. CASE o.msg.type = "NewView" /\ o.msg.view = v /\ o.msg.preprepares = pps
    BY <1>18, <2>2 DEF Sends
  <2>3. CASE o.msg.type = "PrePrepare" /\ o.msg.view = v
    BY <2>3 DEF Sends
  <2> QED  BY <2>1, <2>2, <2>3 DEF Starts
<1>20. MainFirstSlot'
  <2>1. q.view = 0 => q.sequence = r.sequence
    BY <1>2, <1>4
  <2>2. replica'[0].view = 0 => replica'[0].sequence = replica[0].sequence
    BY <1>7, <1>8, <2>1, FirstPrimary
  <2> QED  BY <1>0, <2>2, MainFirstStays
<1>21. Local(replica', D, q)
  BY <1>14, <1>15, <1>16, <1>17 DEF Local
<1>22. i \notin Byzantine
  BY DEF Correct
<1>23. D \in SUBSET Correct /\ Carry(D)'
  BY <1>0, <1>3, <1>6, <1>19, <1>20, <1>21, <1>22, RunCarries
<1> QED  BY <1>23

\* The handler of a ViewChange turns at most, or starts the view of the message.
\* If that is the view after its own, it has left its own before.
LEMMA ProcessViewChangeTurns ==
  ASSUME NEW r \in ReplicaState, OneEach(r), NEW from \in Replica, NEW m \in ViewChange,
         NEW lost, NEW q \in ProcessViewChange(r, from, m, lost),
         NEW H, [from |-> from, msg |-> m] \in H
  PROVE  \/ Turns(r, q, H)
         \/ \E j : /\ Turns(r, j, H) /\ OneEach(j)
                   /\ j.view <= m.view /\ Primary(m.view) = r.id /\ ViewChangeReady(j, m.view)
                   /\ m.view = r.view \/ (m.view = r.view + 1 /\ r.activeView)
                        => j.view = m.view /\ ~j.activeView
                   /\ q \in StartNewView(j, m.view, lost)
<1> DEFINE recorded == RecordViewChangeReceipt(r, from, m)
           joined == MaybeJoinViewChange(recorded, lost)
           v == m.view
<1>1. v \in Nat /\ r.view \in Nat /\ r.activeView \in BOOLEAN
  BY DEF ViewChange, ReplicaState
<1>2. /\ Turns(r, recorded, H) /\ recorded.view = r.view
      /\ recorded.activeView = r.activeView /\ recorded.outbox = r.outbox
  BY RecordViewChangeTurns
<1>3. OneEach(recorded)
  BY RecordViewChangeTells DEF Tells
<1>4. recorded \in ReplicaState
  BY <1>2 DEF Turns
<1> HIDE DEF recorded
<1>5. Turns(recorded, joined, H) /\ (joined = recorded \/ recorded.activeView)
  BY <1>4, MaybeJoinTurns
<1>6. OneEach(joined)
  BY <1>3, <1>4, MaybeJoinOneEach
<1>7. v >= r.view /\ ~(v = r.view /\ r.activeView) /\ ViewChangeReady(joined, v)
        => joined.view <= v
  BY <1>1, <1>2, <1>3, <1>4, JoinsNoLaterView
<1>8. v = r.view + 1 /\ r.activeView /\ ViewChangeReady(joined, v) => joined.view > r.view
  BY <1>1, <1>2, <1>3, <1>4, JoinsNextView
<1>9. \/ q = r \/ q = recorded \/ q = joined
      \/ /\ q \in StartNewView(joined, v, lost)
         /\ v >= r.view /\ ~(v = r.view /\ r.activeView)
         /\ Primary(v) = r.id /\ ViewChangeReady(joined, v)
  <2>1. CASE v < r.view \/ ~ValidViewChange(m)
    BY <2>1 DEF ProcessViewChange
  <2>2. CASE ~(v < r.view \/ ~ValidViewChange(m))
    <3>1. v >= r.view
      BY <1>1, <2>2
    <3> HIDE DEF joined
    <3> QED  BY <2>2, <3>1 DEF ProcessViewChange, recorded, joined
  <2> QED  BY <2>1, <2>2
<1> HIDE DEF joined
<1>10. Turns(r, joined, H) /\ joined \in ReplicaState /\ joined.view \in Nat
  <2>1. Turns(r, joined, H)
    BY <1>2, <1>4, <1>5, TurnsTransitive
  <2> QED  BY <2>1, NamedViews DEF Turns
<1>11. CASE q = r \/ q = recorded \/ q = joined
  BY <1>2, <1>10, <1>11, TurnsReflexive
<1>12. CASE /\ q \in StartNewView(joined, v, lost)
            /\ v >= r.view /\ ~(v = r.view /\ r.activeView)
            /\ Primary(v) = r.id /\ ViewChangeReady(joined, v)
  <2>1. joined.view <= v
    BY <1>7, <1>12
  <2>2. \/ joined.view = r.view /\ joined.activeView = r.activeView
        \/ joined.view > r.view /\ ~joined.activeView
    BY <1>10 DEF Turns
  <2>3. ASSUME v = r.view PROVE joined.view = v /\ ~joined.activeView
    <3>1. ~r.activeView
      BY <1>12, <2>3
    <3>2. ~(joined.view > r.view)
      BY <1>1, <1>10, <2>1, <2>3
    <3> QED  BY <2>2, <2>3, <3>1, <3>2, Zenon
  <2>4. ASSUME v = r.view + 1, r.activeView PROVE joined.view = v /\ ~joined.activeView
    <3>1. joined.view > r.view
      BY <1>8, <1>12, <2>4
    <3>2. joined.view = v /\ joined.view # r.view
      BY <1>1, <1>10, <2>1, <2>4, <3>1
    <3> QED  BY <2>2, <3>2
  <2> QED  BY <1>6, <1>10, <1>12, <2>1, <2>3, <2>4
<1> QED  BY <1>9, <1>11, <1>12

\* A ViewChange is true of its sender, whoever handles it.
LEMMA ReceiveViewChangeCarries ==
  ASSUME Inv, OneReceipt, AtMostOneChange, AtMostOneChange', TypeOK', ReplicasStep,
         NEW C \in SUBSET Correct, Carry(C), NEW e \in net, ReceiveViewChange(e)
  PROVE  \E D \in SUBSET Correct : Carry(D)'
<1> DEFINE i == e.to
           r == replica[i]
           m == e.msg
           x == [from |-> e.from, msg |-> m]
           H == {x}
<1>0. TypeOK
  BY DEF Inv
<1>1. /\ i \in Replica /\ i \in Correct /\ e.from \in Replica
      /\ r \in ReplicaState /\ r.id = i /\ m \in ViewChange
  BY <1>0, MessageTypes DEF ReceiveViewChange, TypeOK, Carry
<1>2. OneEach(r) /\ Local(replica, C, r) /\ UNCHANGED main
  BY <1>1 DEF OneReceipt, Carry, ReceiveViewChange
<1>3. PICK lost : \E q \in IF Taken(e) THEN ProcessViewChange(r, e.from, m, lost) ELSE {r} :
                     Run(q, {e})
  BY DEF ReceiveViewChange
<1>4. PICK q \in IF Taken(e) THEN ProcessViewChange(r, e.from, m, lost) ELSE {r} : Run(q, {e})
  BY <1>3
<1>5. q = r \/ q \in ProcessViewChange(r, e.from, m, lost)
  BY <1>4
<1>6. m.view \in Nat /\ m.view > 0 /\ Reports(replica, C, e.from, m)
  BY <1>1 DEF Carry, Sends, ReceiveViewChange, ViewChange
<1>7. (\A y \in H : y.from \in Replica /\ Reports(replica, C, y.from, y.msg)) /\ x \in H
  BY <1>1, <1>6
<1> HIDE DEF H
<1>8. r.view \in Nat /\ r.view <= 1 /\ (r.view = 0 => r.activeView)
  BY <1>1, <1>2 DEF AtMostOneChange, Local, LeftTruly, ReplicaState
<1>9. CASE q = r
  BY <1>0, <1>1, <1>2, <1>4, <1>9, DroppedCarries
<1>10. CASE Turns(r, q, H)
  BY <1>1, <1>2, <1>4, <1>7, <1>10, TurnedCarries
<1>11. ASSUME NEW j, Turns(r, j, H), OneEach(j), j.view <= m.view, Primary(m.view) = r.id,
              ViewChangeReady(j, m.view),
              m.view = r.view \/ (m.view = r.view + 1 /\ r.activeView)
                => j.view = m.view /\ ~j.activeView,
              q \in StartNewView(j, m.view, lost)
       PROVE  \E D \in SUBSET Correct : Carry(D)'
  <2> DEFINE own == RecordViewChangeReceipt(j, j.id, ViewChangeFor(j, m.view))
  <2>1. j \in ReplicaState /\ j.id = i
    BY <1>1, <1>11 DEF Turns
  <2>2. /\ q.viewChanges = own.viewChanges
        /\ \E pps \in GeneratePrePrepares(m.view, ViewChangesOf(own, m.view)) :
              Starts(j, q, m.view, pps)
    BY <1>6, <1>11, <2>1, StartNewViewStarts
  <2>3. PICK pps \in GeneratePrePrepares(m.view, ViewChangesOf(own, m.view)) :
                Starts(j, q, m.view, pps)
    BY <2>2
  <2>4. m.view = 1 => j.view = 1 /\ ~j.activeView
    BY <1>8, <1>11
  <2>5. own = RecordViewChangeReceipt(j, i, ViewChangeFor(j, m.view))
    BY <2>1
  <2> HIDE DEF own
  <2> QED
    BY <1>1, <1>2, <1>4, <1>6, <1>7, <1>11, <2>2, <2>3, <2>4, <2>5, StartedCarries
<1> QED
  <2>1. CASE q \in ProcessViewChange(r, e.from, m, lost)
    <3>1. \/ Turns(r, q, H)
          \/ \E j : /\ Turns(r, j, H) /\ OneEach(j)
                    /\ j.view <= m.view /\ Primary(m.view) = r.id /\ ViewChangeReady(j, m.view)
                    /\ m.view = r.view \/ (m.view = r.view + 1 /\ r.activeView)
                         => j.view = m.view /\ ~j.activeView
                    /\ q \in StartNewView(j, m.view, lost)
      BY <1>1, <1>2, <1>7, <2>1, ProcessViewChangeTurns
    <3> QED  BY <1>10, <1>11, <3>1
  <2> QED  BY <1>5, <1>9, <2>1
-----------------------------------------------------------------------------
(* The theorems. *)

\* Initially nobody has left, and nothing has been sent ...
LEMMA CarryInitially == Init => CarryInv
<1> SUFFICES ASSUME Init PROVE Carry({})
  BY DEF CarryInv
<1>1. net = {} /\ main.next = 0 /\ main.call = Outside
  BY DEF Init
<1>2. \A i \in Replica :
         LET r == replica[i] IN
         /\ r.view = 0 /\ r.activeView /\ r.lastExecuted = 0 /\ r.sequence = 0
         /\ r.preprepares = {} /\ r.prepares = {} /\ r.commits = {} /\ r.viewChanges = {}
         /\ r.ledger = <<>>
  BY DEF Init, NewReplica
<1>3. ASSUME NEW i \in Replica PROVE Local(replica, {}, replica[i])
  <2>1. HeldTruly(replica, {}, replica[i])
    BY <1>2 DEF HeldTruly
  <2>2. LeftTruly({}, replica[i])
    BY <1>2 DEF LeftTruly
  <2>3. WroteTruly(replica, {}, replica[i])
    BY <1>2 DEF WroteTruly
  <2>4. CarriedOver(replica[i])
    BY <1>2 DEF CarriedOver
  <2> QED  BY <2>1, <2>2, <2>3, <2>4 DEF Local
<1>4. MainFirstSlot
  BY <1>1, <1>2, FirstPrimary, OutsideCalling DEF MainFirstSlot
<1> QED  BY <1>1, <1>2, <1>3, <1>4, ByzantineAssumption DEF Carry, Correct

\* ... and every step keeps who has left, and how.
LEMMA StepCarries ==
  ASSUME ViewsInv, AtMostOneChange, AtMostOneChange', [Next]_vars,
         NEW C \in SUBSET Correct, Carry(C)
  PROVE  \E D \in SUBSET Correct : Carry(D)'
<1>1. Inv /\ OneReceipt
  BY DEF ViewsInv, Truth
<1>2. CASE UNCHANGED vars
  <2>1. replica' = replica /\ net' = net /\ main' = main
    BY <1>2 DEF vars
  <2>2. Carry(C)'
    BY <2>1 DEF Carry, MainFirstSlot
  <2> QED  BY <2>2
<1>3. CASE Next
  <2>1. TypeOK' /\ ReplicasStep
    BY <1>1, <1>3, NextStep
  <2>2. ASSUME NEW e \in net, Receive(e) PROVE \E D \in SUBSET Correct : Carry(D)'
    BY <1>1, <2>1, <2>2, ReceiveNormalCarries, ReceiveViewChangeCarries, ReceiveNewViewCarries
       DEF Receive
  <2>3. ASSUME Timers PROVE \E D \in SUBSET Correct : Carry(D)'
    BY <1>1, <2>1, <2>3, TimerExpiresCarries, TimerCallbackCarries DEF Timers
  <2>4. ASSUME Main PROVE \E D \in SUBSET Correct : Carry(D)'
    <3>1. PICK i \in Replica : \/ MainLooks(i) \/ MainTouches(i)
                               \/ MainProposes(i) \/ MainStoresPrePrepare(i)
      BY <2>4, MainSteps
    <3>2. CASE MainLooks(i)
      <4>1. Carry(C)'
        BY <1>1, <3>2, MainLooksCarries
      <4> QED  BY <4>1
    <3>3. CASE MainTouches(i)
      BY <1>1, <2>1, <3>3, MainTouchesCarries
    <3>4. CASE MainProposes(i)
      BY <1>1, <2>1, <3>4, MainProposesCarries
    <3>5. CASE MainStoresPrePrepare(i)
      BY <1>1, <2>1, <3>5, MainStoresCarries
    <3> QED  BY <3>1, <3>2, <3>3, <3>4, <3>5
  <2> QED  BY <1>3, <2>2, <2>3, <2>4 DEF Next
<1> QED  BY <1>2, <1>3

\* Views do not go back.
LEMMA OneChangeBefore ==
  ASSUME Inv, [Next]_vars, AtMostOneChange'
  PROVE  AtMostOneChange
<1>1. CASE UNCHANGED vars
  BY <1>1 DEF vars, AtMostOneChange
<1>2. CASE Next
  <2>1. TypeOK' /\ ReplicasStep /\ TypeOK
    BY <1>2, NextStep DEF Inv
  <2>2. ASSUME NEW i \in Correct PROVE replica[i].view <= 1
    <3>1. i \in Replica /\ replica'[i].view <= 1
      BY DEF Correct, AtMostOneChange
    <3>2. /\ replica[i].view \in Nat /\ replica'[i].view \in Nat
          /\ replica[i].view <= replica'[i].view
      BY <2>1, <3>1, NamedViews DEF TypeOK, ReplicasStep, ViewStep
    <3> QED  BY <3>1, <3>2
  <2> QED  BY <2>2 DEF AtMostOneChange
<1> QED  BY <1>1, <1>2

\* CarryInv is inductive, given what ViewsProofs says of receipts and views.
LEMMA CarryInductive == ViewsInv /\ CarryInv /\ [Next]_vars => (ViewsInv /\ CarryInv)'
<1> SUFFICES ASSUME ViewsInv, CarryInv, [Next]_vars
             PROVE  (ViewsInv /\ CarryInv)'
  OBVIOUS
<1>1. ViewsInv'
  BY ViewsInductive
<1>2. ASSUME AtMostOneChange' PROVE \E D \in SUBSET Correct : Carry(D)'
  <2>1. AtMostOneChange
    BY <1>2, OneChangeBefore DEF ViewsInv
  <2>2. PICK C \in SUBSET Correct : Carry(C)
    BY <2>1 DEF CarryInv
  <2> QED  BY <1>2, <2>1, <2>2, StepCarries
<1>3. CarryInv'
  <2>1. Correct' = Correct
    OBVIOUS
  <2> QED  BY <1>2 DEF CarryInv
<1> QED  BY <1>1, <1>3

\* It holds in every state.
LEMMA CarryAlways == Spec => [](ViewsInv /\ CarryInv)
  BY ViewsInitially, CarryInitially, CarryInductive, PTL DEF Spec

\* A ViewChange for the second view is one that its receivers accept.
LEMMA ReportsValid ==
  ASSUME NEW m \in ViewChange, m.view = 1, \A p \in m.prepares : Certificate(p)
  PROVE  ValidViewChange(m)
<1>1. 0 # EmptyDigest
  BY FirstPrimary, DigestAssumption
<1>2. ASSUME NEW p \in m.prepares
      PROVE  /\ p.view < m.view /\ p.seq # 0 /\ p.digest # EmptyDigest
             /\ Cardinality(p.prepares) >= PrepareQuorum
             /\ \A x \in p.prepares : SameSlot(x.msg, p) /\ x.msg.digest = p.digest
  BY <1>1 DEF Certificate, SameSlot, FirstPrepare
<1> QED  BY <1>2 DEF ValidViewChange

(***************************************************************************)
(* In every cluster, as long as no correct replica has gone beyond its     *)
(* second view, the ViewChanges of correct replicas are accepted: a        *)
(* replica reports a certificate of 2f Prepares for the request that was   *)
(* proposed, whatever a Byzantine primary has sent and main has overtaken  *)
(* (getPrepareSet, validateViewChange).                                    *)
(***************************************************************************)
THEOREM FirstViewChangesAreValid == Spec => [](AtMostOneChange => ViewChangesAreValid)
<1>1. ASSUME ViewsInv, CarryInv, AtMostOneChange PROVE ViewChangesAreValid
  <2>1. PICK C \in SUBSET Correct : Carry(C)
    BY <1>1 DEF CarryInv
  <2>2. ASSUME NEW e \in net, e.msg.type = "ViewChange", e.from \in Correct
        PROVE  ValidViewChange(e.msg)
    <3>1. e.msg.view > 0 /\ Reports(replica, C, e.from, e.msg)
      BY <2>1, <2>2 DEF Carry, Sends
    <3>2. TypeOK /\ e.from \in Replica /\ e.msg \in ViewChange
      BY <1>1, <2>2, MessageTypes DEF ViewsInv, Inv
    <3>3. replica[e.from].view >= e.msg.view /\ replica[e.from].view <= 1
      BY <1>1, <2>2 DEF ViewsInv, Truth, NetTrue, AtMostOneChange
    <3>4. replica[e.from].view \in Nat /\ e.msg.view \in Nat
      BY <3>2, NamedViews DEF TypeOK, ViewChange
    <3>5. e.msg.view = 1
      BY <3>1, <3>3, <3>4
    <3> QED  BY <3>1, <3>2, <3>5, ReportsValid DEF Reports
  <2> QED  BY <2>2 DEF ViewChangesAreValid
<1>2. ViewsInv /\ CarryInv => (AtMostOneChange => ViewChangesAreValid)
  BY <1>1
<1> QED  BY <1>2, CarryAlways, PTL

\* A quorum that is certified and one that has left without a certificate would
\* have a replica in common.
LEMMA SecuredRemembered ==
  ASSUME QuorumsMeet, NEW C, Secured(replica, C)
  PROVE  ~Forgotten(replica, C)
<1> DEFINE S == {j \in Replica : Holder(replica, C, j)}
           T == {j \in Replica : replica[j].view > 0 /\ j \notin C}
<1> SUFFICES ASSUME Forgotten(replica, C) PROVE FALSE
  OBVIOUS
<1>1. S \in SUBSET Replica /\ T \in SUBSET Replica
  OBVIOUS
<1>2. Cardinality(S) >= CommitQuorum /\ Cardinality(T) >= CommitQuorum
  BY DEF Secured, Forgotten
<1>3. \A j \in S \cap T : FALSE
  BY DEF Holder
<1> HIDE DEF S, T
<1>4. S \cap T # {}
  BY <1>1, <1>2, QuorumsIntersect
<1> QED  BY <1>3, <1>4

(***************************************************************************)
(* In every cluster in which two quorums meet, as long as no correct       *)
(* replica has gone beyond its second view, an executed request survives   *)
(* the view change: every correct backup that is active in the next view   *)
(* has it pre-prepared there (generatePrePrepares, processNewView).        *)
(***************************************************************************)
THEOREM ExecutedIsCarriedOver ==
  ASSUME QuorumsMeet
  PROVE  Spec => [](AtMostOneChange => ExecutedSurvives)
<1>1. ASSUME ViewsInv, CarryInv, AtMostOneChange PROVE ExecutedSurvives
  <2>1. PICK C \in SUBSET Correct : Carry(C)
    BY <1>1 DEF CarryInv
  <2>2. ASSUME NEW i \in Correct, NEW j \in Correct, NEW k \in DOMAIN Ledger(i),
               replica[j].activeView, ~IsPrimary(replica[j]),
               replica[j].view = Ledger(i)[k].view + 1
        PROVE  PrePrepared(replica[j], replica[j].view, Ledger(i)[k].seq, Ledger(i)[k].digest)
    <3> DEFINE b == Ledger(i)[k]
               r == replica[j]
    <3>1. Local(replica, C, replica[i]) /\ Local(replica, C, r)
      BY <2>1 DEF Carry
    <3>2. /\ r \in ReplicaState /\ r.id = j /\ r.view \in Nat /\ r.view <= 1
          /\ replica[i] \in ReplicaState /\ b.view \in Nat
      <4>1. j \in Replica /\ i \in Replica /\ TypeOK
        BY <1>1 DEF Correct, ViewsInv, Inv
      <4>2. /\ r \in ReplicaState /\ r.id = j /\ replica[i] \in ReplicaState
            /\ r.view \in Nat
        BY <4>1, NamedViews DEF TypeOK
      <4>3. replica[i].ledger \in Seq(Block)
        BY <4>2 DEF ReplicaState
      <4>4. b \in Block
        BY <2>2, <4>3 DEF Ledger
      <4> QED  BY <1>1, <4>2, <4>4 DEF AtMostOneChange, Block
    <3>3. b.view = 0 /\ r.view = 1
      BY <2>2, <3>2
    <3>4. b = FirstBlock /\ Secured(replica, C)
      BY <2>2, <3>1, <3>3 DEF Local, WroteTruly, Ledger
    <3>5. CarriedOver(r)
      BY <3>1, <3>4, SecuredRemembered DEF Local
    <3>6. r.id # 1
      BY <2>2, <3>2, <3>3, SecondPrimary DEF IsPrimary
    <3>7. NextPrePrepare \in r.preprepares /\ 0 \in r.requests
      BY <2>2, <3>3, <3>5, <3>6 DEF CarriedOver, Carried
    <3> QED  BY <3>3, <3>4, <3>7 DEF PrePrepared, NextPrePrepare, FirstBlock
  <2> QED  BY <2>2 DEF ExecutedSurvives
<1>2. ViewsInv /\ CarryInv => (AtMostOneChange => ExecutedSurvives)
  BY <1>1
<1> QED  BY <1>2, CarryAlways, PTL
=============================================================================
