--------------------------- MODULE AgreementProofs ---------------------------
(***************************************************************************)
(* Proofs about agreement within a view, for every view of every cluster,  *)
(* every choice of Byzantine replicas, and every failure but one: that the *)
(* broadcast of a NewView returns an error (NewViewsArrive).  With that    *)
(* error a primary sends its NewView twice, and the two need not agree.    *)
(*                                                                         *)
(* A digest is claimed for a slot, a view and a sequence number, when a    *)
(* backup holds its pre-prepare, or a Prepare, a Commit or a NewView says  *)
(* it.  The two sources of a claim are the primary's NewView and its       *)
(* pre-prepares, and nothing keeps their numbers apart: the primary counts *)
(* from where it was, whatever its NewView has used.  The argument is that *)
(* a claim fits what its slot has seen: where the two sources differ, the  *)
(* pre-prepare comes too late at every backup, because the NewView that    *)
(* takes a backup into the view fills the slot first.                      *)
(***************************************************************************)
EXTENDS ViewsProofs

\* The broadcast of a NewView never returns an error.
NewViewsArrive == <<"NewView", 0>> \notin Failures

\* Message m gives the slot (v, s) the digest d.
IsFor(m, v, s, d) == m.view = v /\ m.seq = s /\ m.digest = d

\* What a message says, one of a set of messages says.
Echo(m, M) == \E k \in M : IsFor(m, k.view, k.seq, k.digest)

-----------------------------------------------------------------------------
(* What a method adds to what is said about slots. *)

\* A method that takes r to q holds and says no more than the messages of M, and
\* it sends no pre-prepare and no NewView.
Repeats(r, q, M) ==
    /\ q.id = r.id
    /\ \A m \in q.preprepares : m \in r.preprepares \/ m \in M
    /\ \A x \in q.prepares : x \in r.prepares \/ Echo(x.msg, M)
    /\ \A x \in q.commits : x \in r.commits \/ Echo(x.msg, M)
    /\ \A o \in q.outbox : \/ o \in r.outbox
                           \/ o.msg.type \in {"Prepare", "Commit"} /\ Echo(o.msg, M)
                           \/ o.msg.type = "ViewChange"
    /\ q.sequence = r.sequence
    /\ r.requests \subseteq q.requests

\* ... and it keeps its pre-prepares.
Echoes(r, q, M) == Repeats(r, q, M) /\ r.preprepares \subseteq q.preprepares

LEMMA EchoesTransitive ==
  ASSUME NEW r, NEW p, NEW q, NEW M, Echoes(r, p, M), Echoes(p, q, M)
  PROVE  Echoes(r, q, M)
  BY DEF Echoes, Repeats

LEMMA EchoesReflexive ==
  ASSUME NEW r, NEW M
  PROVE  Echoes(r, r, M)
  BY DEF Echoes, Repeats

LEMMA StopTimerEchoes ==
  ASSUME NEW r \in ReplicaState, NEW M
  PROVE  /\ Echoes(r, StopRequestTimer(r), M)
         /\ StopRequestTimer(r).preprepares = r.preprepares
  BY DEF StopRequestTimer, Echoes, Repeats, ReplicaState

LEMMA StartTimerEchoes ==
  ASSUME NEW r \in ReplicaState, NEW override \in BOOLEAN, NEW M
  PROVE  /\ Echoes(r, StartRequestTimer(r, override), M)
         /\ StartRequestTimer(r, override).preprepares = r.preprepares
<1> DEFINE timer == [target |-> r.view + 1, running |-> TRUE]
<1> HIDE DEF timer
<1>1. /\ Echoes(r, [r EXCEPT !.requestTimer = timer], M)
      /\ [r EXCEPT !.requestTimer = timer].preprepares = r.preprepares
  BY DEF Echoes, Repeats, ReplicaState
<1> QED  BY <1>1, EchoesReflexive, Zenon DEF StartRequestTimer, TargetView, timer

\* Executing a request says nothing.
LEMMA ExecuteEchoes ==
  ASSUME NEW r \in ReplicaState, NEW v \in Nat, NEW s \in Nat, NEW d \in Digest, NEW lost, NEW M
  PROVE  Echoes(r, Execute(r, v, s, d, lost), M)
<1> DEFINE fails == <<"Block", 0>> \in lost
           block == [view |-> v, seq |-> s, digest |-> d]
           ledger == IF fails THEN r.ledger ELSE Append(r.ledger, block)
           f == r.failed \/ fails
           written == [r EXCEPT !.pending = @ \ {d}, !.ledger = ledger, !.failed = f]
           executed == StopRequestTimer(written)
<1>1. ledger \in Seq(Block) /\ f \in BOOLEAN
  <2>1. block \in Block  BY DEF Block
  <2>2. r.ledger \in Seq(Block)  BY DEF ReplicaState
  <2> QED  BY <2>1, <2>2
<1> HIDE DEF ledger, f
<1>2. written \in ReplicaState /\ Echoes(r, written, M)
  BY <1>1 DEF Echoes, Repeats, ReplicaState
<1> HIDE DEF written
<1>3. executed \in ReplicaState /\ Echoes(written, executed, M)
  BY <1>2, StopTimerKeeps, StopTimerEchoes DEF Keeps
<1> HIDE DEF executed
<1>4. Echoes(r, executed, M) /\ Echoes(r, StartRequestTimer(executed, TRUE), M)
  BY <1>2, <1>3, StartTimerEchoes, EchoesTransitive
<1>5. Execute(r, v, s, d, lost) \in {r, executed, StartRequestTimer(executed, TRUE)}
  BY Zenon DEF Execute, executed, written, ledger, f
<1> QED  BY <1>4, <1>5, EchoesReflexive

LEMMA BroadcastEchoes ==
  ASSUME NEW r \in ReplicaState, NEW m, NEW lost, NEW M,
         (m.type \in {"Prepare", "Commit"} /\ Echo(m, M)) \/ m.type = "ViewChange"
  PROVE  Echoes(r, Broadcast(r, m, lost), M)
<1> DEFINE o == r.outbox \cup {[msg |-> m, failed |-> Fails(m, lost)]}
           f == r.failed \/ Fails(m, lost)
<1>1. \A x \in o : \/ x \in r.outbox
                   \/ x.msg.type \in {"Prepare", "Commit"} /\ Echo(x.msg, M)
                   \/ x.msg.type = "ViewChange"
  OBVIOUS
<1>2. Broadcast(r, m, lost) = [r EXCEPT !.outbox = o, !.failed = f]
  BY DEF Broadcast
<1> HIDE DEF o, f
<1> QED  BY <1>1, <1>2 DEF Echoes, Repeats, ReplicaState

LEMMA RecordCommitEchoes ==
  ASSUME NEW r \in ReplicaState, NEW from, NEW m, NEW M, Echo(m, M)
  PROVE  Echoes(r, RecordCommitReceipt(r, from, m), M)
<1> DEFINE x == [from |-> from, msg |-> m]
           q == [r EXCEPT !.commits = @ \cup {x}]
<1>1. x.msg = m
  OBVIOUS
<1>2. RecordCommitReceipt(r, from, m) \in {r, q}
  BY Zenon DEF RecordCommitReceipt
<1> HIDE DEF x
<1>3. Echoes(r, q, M)
  BY <1>1 DEF Echoes, Repeats, ReplicaState
<1> QED  BY <1>2, <1>3, EchoesReflexive

LEMMA RecordPrepareEchoes ==
  ASSUME NEW r \in ReplicaState, NEW from, NEW m, NEW M, Echo(m, M)
  PROVE  Echoes(r, RecordPrepareReceipt(r, from, m), M)
<1> DEFINE x == [from |-> from, msg |-> m]
           q == [r EXCEPT !.prepares = @ \cup {x}]
<1>1. x.msg = m
  OBVIOUS
<1>2. RecordPrepareReceipt(r, from, m) \in {r, q}
  BY Zenon DEF RecordPrepareReceipt
<1> HIDE DEF x
<1>3. Echoes(r, q, M)
  BY <1>1 DEF Echoes, Repeats, ReplicaState
<1> QED  BY <1>2, <1>3, EchoesReflexive

\* A Commit repeats the digest of the message that made its sender look.
LEMMA MaybeSendCommitEchoes ==
  ASSUME NEW r \in ReplicaState, NEW v \in Nat, NEW s \in Nat, NEW d \in Digest, NEW lost,
         NEW M, NEW k \in M, IsFor(k, v, s, d)
  PROVE  Echoes(r, MaybeSendCommit(r, v, s, d, lost), M)
<1> DEFINE commit == [type |-> "Commit", view |-> v, seq |-> s, digest |-> d]
           sent == Broadcast(r, commit, lost)
           done == RecordCommitReceipt(sent, r.id, commit)
           executed == Execute(done, v, s, d, lost)
<1>1. commit \in Commit /\ commit \in Message /\ commit.type = "Commit" /\ r.id \in Replica
  BY DEF Commit, Message, ReplicaState
<1>2. Echo(commit, M)
  BY DEF Echo, IsFor
<1> HIDE DEF commit
<1>3. Echoes(r, sent, M) /\ sent \in ReplicaState
  BY <1>1, <1>2, BroadcastEchoes, BroadcastKeeps DEF Keeps
<1> HIDE DEF sent
<1>4. Echoes(sent, done, M) /\ done \in ReplicaState
  BY <1>1, <1>2, <1>3, RecordCommitEchoes, RecordCommitWithin DEF Within
<1> HIDE DEF done
<1>5. Echoes(done, executed, M)
  BY <1>4, ExecuteEchoes
<1> HIDE DEF executed
<1>6. Echoes(r, r, M) /\ Echoes(r, done, M) /\ Echoes(r, executed, M)
  BY <1>3, <1>4, <1>5, EchoesTransitive, EchoesReflexive
<1>7. MaybeSendCommit(r, v, s, d, lost) \in {r, sent, done, executed}
  <2>1. CASE ~ShouldSendCommit(r, v, s, d)
    BY <2>1, Zenon DEF MaybeSendCommit
  <2>2. CASE ShouldSendCommit(r, v, s, d) /\ Fails(commit, lost)
    BY <2>2 DEF MaybeSendCommit, commit, sent
  <2>3. CASE ShouldSendCommit(r, v, s, d) /\ ~Fails(commit, lost)
    BY <2>3 DEF MaybeSendCommit, commit, sent, done, executed
  <2> QED  BY <2>1, <2>2, <2>3
<1> QED  BY <1>3, <1>6, <1>7

LEMMA ProcessCommitEchoes ==
  ASSUME NEW r \in ReplicaState, NEW from \in Replica, NEW m \in Commit, NEW lost
  PROVE  Echoes(r, ProcessCommit(r, from, m, lost), {m})
<1> DEFINE recorded == RecordCommitReceipt(r, from, m)
           executed == Execute(recorded, m.view, m.seq, m.digest, lost)
           M == {m}
<1>1. m.view \in Nat /\ m.seq \in Nat /\ m.digest \in Digest
  BY DEF Commit
<1>2. Echoes(r, recorded, M) /\ recorded \in ReplicaState
  BY RecordCommitEchoes, RecordCommitWithin DEF Within, Echo, IsFor
<1> HIDE DEF recorded, M
<1>3. Echoes(r, executed, M)
  BY <1>1, <1>2, ExecuteEchoes, EchoesTransitive
<1> HIDE DEF executed
<1>4. ProcessCommit(r, from, m, lost) \in {r, recorded, executed}
  <2>1. CASE m.view # r.view
    BY <2>1, Zenon DEF ProcessCommit
  <2>2. CASE m.view = r.view
    BY <2>2 DEF ProcessCommit, recorded, executed
  <2> QED  BY <2>1, <2>2
<1>5. Echoes(r, ProcessCommit(r, from, m, lost), M)
  BY <1>2, <1>3, <1>4, EchoesReflexive
<1> QED  BY <1>5 DEF M

LEMMA ProcessPrepareEchoes ==
  ASSUME NEW r \in ReplicaState, NEW from \in Replica, NEW m \in Prepare, NEW lost
  PROVE  Echoes(r, ProcessPrepare(r, from, m, lost), {m})
<1> DEFINE recorded == RecordPrepareReceipt(r, from, m)
           sent == MaybeSendCommit(recorded, m.view, m.seq, m.digest, lost)
           M == {m}
<1>1. m.view \in Nat /\ m.seq \in Nat /\ m.digest \in Digest /\ m \in M
      /\ IsFor(m, m.view, m.seq, m.digest)
  BY DEF Prepare, IsFor
<1>2. Echoes(r, recorded, M) /\ recorded \in ReplicaState
  BY <1>1, RecordPrepareEchoes, RecordPrepareWithin DEF Within, Echo
<1> HIDE DEF recorded, M
<1>3. Echoes(r, sent, M)
  BY <1>1, <1>2, MaybeSendCommitEchoes, EchoesTransitive
<1> HIDE DEF sent
<1>4. ProcessPrepare(r, from, m, lost) \in {r, sent}
  BY Zenon DEF ProcessPrepare, recorded, sent
<1>5. Echoes(r, ProcessPrepare(r, from, m, lost), M)
  BY <1>3, <1>4, EchoesReflexive
<1> QED  BY <1>5 DEF M

\* What a backup accepts fills the slots of the pre-prepares it is given; in a
\* slot that is filled already it accepts nothing.
LEMMA AcceptEchoes ==
  ASSUME NEW r \in ReplicaState, NEW ms \in SUBSET PrePrepare, NEW lost
  PROVE  LET q == AcceptPrePrepares(r, ms, lost) IN
         /\ Echoes(r, q, ms)
         /\ \A m \in ms : \E p \in q.preprepares : SameSlot(p, m)
         /\ (\A m \in ms : \E p \in r.preprepares : SameSlot(p, m)) => q = r
<1> DEFINE prepareFor(m) == [m EXCEPT !.type = "Prepare"]
           accepted == {m \in ms : \A p \in r.preprepares : ~SameSlot(p, m)}
           answers == {prepareFor(m) : m \in accepted}
           own == {[from |-> r.id, msg |-> p] : p \in {a \in answers : ~Fails(a, lost)}}
           receipts == {o \in own : \A x \in r.prepares : x.from # r.id \/ ~SameSlot(x.msg, o.msg)}
           o == r.outbox \cup {[msg |-> a, failed |-> Fails(a, lost)] : a \in answers}
           f == r.failed \/ \E a \in answers : Fails(a, lost)
           digests == {m.digest : m \in accepted}
           taken == [r EXCEPT !.preprepares = @ \cup accepted,
                              !.requests = @ \cup digests,
                              !.pending = @ \cup digests,
                              !.prepares = @ \cup receipts,
                              !.outbox = o,
                              !.failed = f]
           timed == StartRequestTimer(taken, FALSE)
<1>1. accepted \in SUBSET PrePrepare /\ accepted \subseteq ms
  OBVIOUS
<1>2. \A a \in answers : a \in Prepare /\ a.type = "Prepare" /\ Echo(a, ms)
  <2>1. \A m \in PrePrepare : /\ prepareFor(m) \in Prepare /\ prepareFor(m).type = "Prepare"
                              /\ IsFor(prepareFor(m), m.view, m.seq, m.digest)
    BY DEF PrePrepare, Prepare, IsFor
  <2> HIDE DEF prepareFor, accepted
  <2> QED  BY <1>1, <2>1 DEF Echo
<1>3. digests \in SUBSET Digest
  BY <1>1 DEF PrePrepare
<1>4. r.id \in Replica /\ r.outbox \in SUBSET [msg : Message, failed : BOOLEAN]
  BY DEF ReplicaState
<1>5. \A m \in ms : \E p \in r.preprepares \cup accepted : SameSlot(p, m)
  BY DEF SameSlot
<1>6. (\A m \in ms : \E p \in r.preprepares : SameSlot(p, m)) => accepted = {}
  OBVIOUS
<1>7. /\ accepted = {} => AcceptPrePrepares(r, ms, lost) = r
      /\ accepted # {} => AcceptPrePrepares(r, ms, lost) = timed
  BY Zenon DEF AcceptPrePrepares
<1> HIDE DEF accepted, answers, digests
<1>8. receipts \in SUBSET PrepareReceipt /\ \A x \in receipts : Echo(x.msg, ms)
  BY <1>2, <1>4 DEF PrepareReceipt
<1>9. o \in SUBSET [msg : Message, failed : BOOLEAN] /\ f \in BOOLEAN
  <2>1. \A a \in answers : a \in Message /\ Fails(a, lost) \in BOOLEAN
    BY <1>2, SMT DEF Message, Fails
  <2> QED  BY <1>4, <2>1
<1>10. \A x \in o : x \in r.outbox \/ (x.msg.type = "Prepare" /\ Echo(x.msg, ms))
  BY <1>2
<1> HIDE DEF receipts, o, f
<1>11. taken \in ReplicaState
  BY <1>1, <1>3, <1>8, <1>9 DEF ReplicaState
<1>12. taken.preprepares = r.preprepares \cup accepted
  BY DEF ReplicaState
<1>13. Echoes(r, taken, ms)
  BY <1>1, <1>8, <1>10 DEF Echoes, Repeats, ReplicaState
<1> HIDE DEF taken
<1>14. Echoes(taken, timed, ms) /\ timed.preprepares = taken.preprepares
  BY <1>11, StartTimerEchoes
<1>15. Echoes(r, timed, ms)
  BY <1>13, <1>14, EchoesTransitive
<1> HIDE DEF timed
<1> QED  BY <1>5, <1>6, <1>7, <1>12, <1>14, <1>15, EchoesReflexive

\* A pre-prepare has an effect only in a free slot, and only if it comes from
\* the primary.
LEMMA ProcessPrePrepareEchoes ==
  ASSUME NEW r \in ReplicaState, NEW from \in Replica, NEW m \in PrePrepare, NEW lost
  PROVE  LET q == ProcessPrePrepare(r, from, m, lost) IN
         /\ Echoes(r, q, {m})
         /\ \/ q = r
            \/ /\ ~IsPrimary(r) /\ from = Primary(r.view) /\ m.view = r.view
               /\ \A p \in r.preprepares : ~SameSlot(p, m)
<1> DEFINE taken == AcceptPrePrepares(r, {m}, lost)
           sent == MaybeSendCommit(taken, m.view, m.seq, m.digest, lost)
           M == {m}
<1>1. m.view \in Nat /\ m.seq \in Nat /\ m.digest \in Digest
  BY DEF PrePrepare
<1>2. m \in M /\ IsFor(m, m.view, m.seq, m.digest)
  BY DEF IsFor
<1>3. Echoes(r, taken, M) /\ taken \in ReplicaState
  <2>1. Within(r, taken, m.view)
    BY <1>1, AcceptPrePreparesWithin
  <2> QED  BY <2>1, AcceptEchoes DEF Within
<1> HIDE DEF taken, M
<1>4. Echoes(r, sent, M)
  BY <1>1, <1>2, <1>3, MaybeSendCommitEchoes, EchoesTransitive
<1> HIDE DEF sent
<1>5. ProcessPrePrepare(r, from, m, lost) \in {r, taken, sent}
  BY DEF ProcessPrePrepare, taken, sent
<1>6. Echoes(r, ProcessPrePrepare(r, from, m, lost), M)
  BY <1>3, <1>4, <1>5, EchoesReflexive
<1>7. CASE \/ IsPrimary(r) \/ from # Primary(r.view) \/ m.view # r.view
           \/ \E p \in r.preprepares : SameSlot(p, m)
  <2>1. ProcessPrePrepare(r, from, m, lost) = r
    BY <1>7, Zenon DEF ProcessPrePrepare
  <2> QED  BY <1>6, <2>1 DEF M
<1> QED  BY <1>6, <1>7 DEF M

-----------------------------------------------------------------------------
(* View changes. *)

LEMMA RecordViewChangeEchoes ==
  ASSUME NEW r \in ReplicaState, NEW from, NEW m
  PROVE  Echoes(r, RecordViewChangeReceipt(r, from, m), {})
<1> DEFINE x == [from |-> from, msg |-> m]
           q == [r EXCEPT !.viewChanges = @ \cup {x}]
<1>1. RecordViewChangeReceipt(r, from, m) \in {r, q}
  BY Zenon DEF RecordViewChangeReceipt
<1> HIDE DEF x
<1>2. Echoes(r, q, {})
  BY DEF Echoes, Repeats, ReplicaState
<1> QED  BY <1>1, <1>2, EchoesReflexive

\* A replica that leaves its view says nothing of a slot.
LEMMA StartViewChangeEchoes ==
  ASSUME NEW r \in ReplicaState, NEW v \in Nat, NEW lost
  PROVE  Echoes(r, StartViewChange(r, v, lost), {})
<1> DEFINE vc == ViewChangeFor(r, v)
           stopped == StopRequestTimer(r)
           left == [stopped EXCEPT !.view = v, !.activeView = FALSE]
           sent == Broadcast(left, vc, lost)
           done == RecordViewChangeReceipt(sent, r.id, vc)
<1>1. vc \in ViewChange /\ vc \in Message /\ vc.type = "ViewChange"
  BY ViewChangeForType DEF ViewChangeFor
<1> HIDE DEF vc
<1>2. stopped \in ReplicaState /\ Echoes(r, stopped, {})
  BY StopTimerKeeps, StopTimerEchoes DEF Keeps
<1> HIDE DEF stopped
<1>3. left \in ReplicaState /\ Echoes(stopped, left, {})
  BY <1>2 DEF Echoes, Repeats, ReplicaState
<1> HIDE DEF left
<1>4. sent \in ReplicaState /\ Echoes(left, sent, {})
  BY <1>1, <1>3, BroadcastEchoes, BroadcastKeeps DEF Keeps
<1> HIDE DEF sent
<1>5. Echoes(sent, done, {})
  BY <1>4, RecordViewChangeEchoes
<1> HIDE DEF done
<1>6. Echoes(r, sent, {}) /\ Echoes(r, done, {})
  BY <1>2, <1>3, <1>4, <1>5, EchoesTransitive
<1>7. StartViewChange(r, v, lost) \in {r, sent, done}
  BY Zenon DEF StartViewChange, vc, stopped, left, sent, done
<1> QED  BY <1>6, <1>7, EchoesReflexive

LEMMA MaybeJoinEchoes ==
  ASSUME NEW r \in ReplicaState, NEW lost
  PROVE  Echoes(r, MaybeJoinViewChange(r, lost), {})
<1>1. CASE ~(r.activeView /\ SmallestJoinableViews(r) # {})
  BY <1>1, EchoesReflexive, Zenon DEF MaybeJoinViewChange
<1>2. CASE r.activeView /\ SmallestJoinableViews(r) # {}
  <2> DEFINE k == CHOOSE w \in SmallestJoinableViews(r) : TRUE
  <2>1. MaybeJoinViewChange(r, lost) = StartViewChange(r, k, lost)
    BY <1>2, Zenon DEF MaybeJoinViewChange
  <2>2. k \in Nat
    BY <1>2, NamedViews DEF SmallestJoinableViews, JoinableViews
  <2> HIDE DEF k
  <2> QED  BY <2>1, <2>2, StartViewChangeEchoes
<1> QED  BY <1>1, <1>2

-----------------------------------------------------------------------------
(* Proposals. *)

\* A method that takes r to q proposes requests that q knows in the view of r,
\* under sequence numbers that r has not reached, each for one request.
Proposes(r, q) ==
    /\ q.id = r.id
    /\ \A m \in q.preprepares : m \in r.preprepares \/ (m.view = r.view /\ m.digest \in q.requests)
    /\ \A m \in r.preprepares : m \in q.preprepares \/ m.view = r.view
    /\ q.prepares = r.prepares /\ q.commits = r.commits
    /\ r.sequence <= q.sequence
    /\ r.requests \subseteq q.requests
    /\ \A o \in q.outbox :
          o \in r.outbox \/ /\ o.msg.type = "PrePrepare" /\ o.msg.view = r.view
                            /\ o.msg.digest \in q.requests
                            /\ r.sequence < o.msg.seq /\ o.msg.seq <= q.sequence
    /\ \A o, k \in q.outbox :
          o \notin r.outbox /\ k \notin r.outbox /\ o.msg.seq = k.msg.seq => o.msg.digest = k.msg.digest

\* The pre-prepares that follow from an order of requests are numbered from the
\* replica's counter on.
LEMMA PrePreparesForOrder ==
  ASSUME NEW r \in ReplicaState, NEW order \in Seq(Digest)
  PROVE  /\ r.sequence \in Nat /\ Len(order) \in Nat
         /\ \A m \in PrePreparesFor(r, order) :
              /\ m.type = "PrePrepare" /\ m.view = r.view /\ m.digest \in Range(order)
              /\ m.seq \in Nat /\ r.sequence < m.seq /\ m.seq <= r.sequence + Len(order)
         /\ \A m, k \in PrePreparesFor(r, order) : m.seq = k.seq => m.digest = k.digest
<1>1. r.sequence \in Nat /\ Len(order) \in Nat /\ DOMAIN order = 1 .. Len(order)
  BY DEF ReplicaState
<1> DEFINE pp(k) == [type |-> "PrePrepare", view |-> r.view, seq |-> r.sequence + k,
                     digest |-> order[k]]
<1>2. PrePreparesFor(r, order) = {pp(k) : k \in DOMAIN order}
  BY DEF PrePreparesFor
<1>3. \A k \in DOMAIN order : /\ pp(k).type = "PrePrepare" /\ pp(k).view = r.view
                              /\ pp(k).digest = order[k] /\ pp(k).seq = r.sequence + k
  OBVIOUS
<1> HIDE DEF pp
<1>4. \A k \in DOMAIN order : k \in Nat /\ k >= 1 /\ k <= Len(order) /\ order[k] \in Range(order)
  BY <1>1 DEF Range
<1> QED  BY <1>1, <1>2, <1>3, <1>4

LEMMA SendProposes ==
  ASSUME NEW r \in ReplicaState, NEW order \in Seq(Digest), NEW lost
  PROVE  LET q == SendPrePrepares(r, order, lost) IN
         /\ Proposes(r, q)
         /\ q.preprepares = r.preprepares
         /\ Range(order) \subseteq q.requests
         /\ q.sequence = r.sequence + Len(order)
<1> DEFINE ms == {m \in PrePreparesFor(r, order) : ~ConflictingPrePrepare(r, m)}
           o == r.outbox \cup {[msg |-> m, failed |-> Fails(m, lost)] : m \in ms}
           f == r.failed \/ \E m \in ms : Fails(m, lost)
           digests == Range(order)
           n == r.sequence + Len(order)
           q == [r EXCEPT !.requests = @ \cup digests, !.pending = @ \cup digests,
                          !.sequence = n, !.outbox = o, !.failed = f]
<1>1. /\ r.sequence \in Nat /\ n \in Nat /\ r.sequence <= n
      /\ \A m \in ms : /\ m.type = "PrePrepare" /\ m.view = r.view /\ m.digest \in digests
                       /\ r.sequence < m.seq /\ m.seq <= n
      /\ \A m, k \in ms : m.seq = k.seq => m.digest = k.digest
  BY PrePreparesForOrder
<1>2. SendPrePrepares(r, order, lost) = q
  BY DEF SendPrePrepares
<1> HIDE DEF ms
<1>3. \A x \in o : x \in r.outbox \/ x.msg \in ms
  OBVIOUS
<1> HIDE DEF digests, n, o, f
<1>4. /\ q.id = r.id /\ q.preprepares = r.preprepares /\ q.prepares = r.prepares
      /\ q.commits = r.commits /\ q.sequence = n /\ q.requests = r.requests \cup digests
      /\ q.outbox = o
  BY DEF ReplicaState
<1> HIDE DEF q
<1>5. Proposes(r, q)
  BY <1>1, <1>3, <1>4 DEF Proposes
<1> QED  BY <1>2, <1>4, <1>5 DEF q, digests, n

LEMMA ProposeOutstandingProposes ==
  ASSUME NEW r \in ReplicaState, NEW lost, NEW q \in ProposeOutstanding(r, lost)
  PROVE  Proposes(r, q)
<1> DEFINE waiting == {GetDigest(d) : d \in OutstandingRequests(r)} \ r.pending
           sent(order) == SendPrePrepares(r, order, lost)
           own(order) == {m \in PrePreparesFor(r, order) :
                            ~ConflictingPrePrepare(r, m) /\ ~Fails(m, lost)}
<1>1. waiting \in SUBSET Digest
  BY DEF GetDigest, Digest, OutstandingRequests, ReplicaState
<1> HIDE DEF waiting
<1>2. Cardinality(waiting) \in Nat
  BY <1>1, DigestFinite, FS_Subset, FS_CardinalityType
<1>3. PICK order \in SetToSeqs(waiting) : q = StorePrePrepares(sent(order), own(order))
  BY Zenon DEF ProposeOutstanding, waiting
<1>4. order \in Seq(Digest)
  BY <1>1, <1>2 DEF SetToSeqs
<1> DEFINE p == sent(order)
           ms == own(order)
           stored == {m \in p.preprepares : \A k \in ms : ~SameSlot(m, k)} \cup ms
<1>5. /\ Proposes(r, p) /\ p \in ReplicaState
      /\ p.preprepares = r.preprepares /\ Range(order) \subseteq p.requests
  BY <1>4, SendProposes, SendPrePreparesKeeps DEF Keeps
<1>6. \A m \in ms : m.view = r.view /\ m.digest \in p.requests
  BY <1>4, <1>5, PrePreparesForOrder
<1>7. q = [p EXCEPT !.preprepares = stored]
  BY <1>3 DEF StorePrePrepares
<1> HIDE DEF p, ms
<1>8. /\ \A m \in stored : m \in r.preprepares \/ (m.view = r.view /\ m.digest \in p.requests)
      /\ \A m \in r.preprepares : m \in stored \/ m.view = r.view
  BY <1>5, <1>6 DEF SameSlot
<1> HIDE DEF stored
<1>9. /\ q.id = p.id /\ q.preprepares = stored /\ q.prepares = p.prepares
      /\ q.commits = p.commits /\ q.sequence = p.sequence /\ q.requests = p.requests
      /\ q.outbox = p.outbox
  BY <1>5, <1>7 DEF ReplicaState
<1> QED  BY <1>5, <1>8, <1>9 DEF Proposes

-----------------------------------------------------------------------------
(* A new view. *)

\* A method that takes r to q has opened view v with a NewView that carries pps.
Opens(r, q, v, pps) ==
    /\ q.id = r.id
    /\ q.view = v /\ q.activeView
    /\ \A m \in q.preprepares : m \in r.preprepares \/ (m.view = v /\ m.digest \in q.requests)
    /\ \A m \in r.preprepares : m \in q.preprepares \/ m.view = v \/ m.view < v
    /\ q.prepares \subseteq r.prepares /\ q.commits \subseteq r.commits
    /\ r.sequence <= q.sequence
    /\ r.requests \subseteq q.requests
    /\ \A s \in DOMAIN pps : pps[s].digest \in q.requests
    /\ \A o \in q.outbox :
          \/ o \in r.outbox
          \/ o.msg.type = "ViewChange"
          \/ o.msg.type = "NewView" /\ o.msg.view = v /\ o.msg.preprepares = pps
          \/ /\ o.msg.type = "PrePrepare" /\ o.msg.view = v /\ o.msg.digest \in q.requests
             /\ r.sequence < o.msg.seq /\ o.msg.seq <= q.sequence
    /\ \A o, k \in q.outbox :
          /\ o \notin r.outbox /\ k \notin r.outbox
          /\ o.msg.type = "PrePrepare" /\ k.msg.type = "PrePrepare"
          /\ o.msg.seq = k.msg.seq
          => o.msg.digest = k.msg.digest

\* The new primary knows what is in its NewView once it has entered its view.
LEMMA EnterOwnViewOpens ==
  ASSUME NEW r \in ReplicaState, NEW v \in Nat, NEW pps \in Seq(PrePrepare),
         \A m \in Range(pps) : m \in PrePrepare /\ m.view = v
  PROVE  LET q == EnterOwnView(r, v, pps) IN
         /\ q \in ReplicaState
         /\ q.outbox = r.outbox /\ q.sequence = r.sequence
         /\ Opens(r, q, v, pps)
<1> DEFINE cleaned == CleanupState(r, v)
           ms == Range(pps)
           kept == {m \in cleaned.preprepares : \A k \in ms : ~SameSlot(m, k)} \cup ms
           digests == {m.digest : m \in ms}
           q == [cleaned EXCEPT !.preprepares = kept, !.requests = @ \cup digests,
                                !.pending = @ \cup digests, !.view = v, !.activeView = TRUE]
<1>0. EnterOwnView(r, v, pps) \in ReplicaState
  BY EnterOwnViewEnters DEF Enters
<1>1. EnterOwnView(r, v, pps) = q
  <2> DEFINE stored == StorePrePrepares(cleaned, ms)
  <2>1. EnterOwnView(r, v, pps) =
          [stored EXCEPT !.requests = @ \cup digests, !.pending = @ \cup digests,
                         !.view = v, !.activeView = TRUE]
    BY Zenon DEF EnterOwnView
  <2>2. stored = [cleaned EXCEPT !.preprepares = kept]
    BY DEF StorePrePrepares
  <2>3. cleaned \in ReplicaState
    BY CleanupType
  <2> HIDE DEF cleaned, kept, digests, stored
  <2> QED  BY <2>1, <2>2, <2>3 DEF ReplicaState
<1>2. /\ cleaned \in ReplicaState
      /\ cleaned.id = r.id
      /\ cleaned.prepares \subseteq r.prepares /\ cleaned.commits \subseteq r.commits
      /\ cleaned.preprepares = {m \in r.preprepares : m.view >= v}
      /\ cleaned.requests = r.requests /\ cleaned.sequence = r.sequence
      /\ cleaned.outbox = r.outbox
  BY CleanupType DEF CleanupState, ReplicaState
<1> HIDE DEF cleaned
<1>3. r.sequence \in Nat /\ r.sequence <= r.sequence /\ \A m \in r.preprepares : m.view \in Nat
  BY DEF ReplicaState, PrePrepare
<1>4. \A m \in ms : m.view = v /\ m.digest \in digests
  OBVIOUS
<1>5. \A s \in DOMAIN pps : pps[s].digest \in digests
  BY DEF Range
<1> HIDE DEF ms
<1>6. /\ \A m \in kept : m \in r.preprepares \/ (m.view = v /\ m.digest \in digests)
      /\ \A m \in r.preprepares : m \in kept \/ m.view = v \/ m.view < v
  BY <1>2, <1>3, <1>4 DEF SameSlot
<1> HIDE DEF kept, digests
<1>7. /\ q.id = r.id /\ q.view = v /\ q.activeView /\ q.preprepares = kept
      /\ q.prepares = cleaned.prepares /\ q.commits = cleaned.commits
      /\ q.sequence = r.sequence /\ q.requests = r.requests \cup digests
      /\ q.outbox = r.outbox
  BY <1>2 DEF ReplicaState
<1> HIDE DEF q
<1> QED  BY <1>0, <1>1, <1>2, <1>3, <1>5, <1>6, <1>7 DEF Opens

\* If the broadcast of the NewView succeeds, the primary opens the view.
LEMMA StartNewViewOpens ==
  ASSUME NEW r \in ReplicaState, NEW v \in Nat, NEW lost, <<"NewView", 0>> \notin lost,
         NEW q \in StartNewView(r, v, lost)
  PROVE  \E pps \in Seq(PrePrepare) : Opens(r, q, v, pps)
<1> DEFINE vc == ViewChangeFor(r, v)
           own == RecordViewChangeReceipt(r, r.id, vc)
           msgs == ViewChangesOf(own, v)
           newView(pps) == [type |-> "NewView", view |-> v, messages |-> msgs,
                            preprepares |-> pps]
           sent(pps) == Broadcast(own, newView(pps), lost)
<1>1. vc \in ViewChange /\ r.id \in Replica
  BY ViewChangeForType DEF ReplicaState
<1> HIDE DEF vc
<1>2. own \in ReplicaState /\ Echoes(r, own, {})
  BY <1>1, RecordViewChangeKeeps, RecordViewChangeEchoes DEF Keeps
<1>3. own.preprepares = r.preprepares
  BY <1>1, RecordViewChangeKeeps DEF Keeps
<1> HIDE DEF own
<1>4. msgs \in SUBSET ViewChangeReceipt
  BY <1>2 DEF ViewChangesOf, ReplicaState
<1> HIDE DEF msgs
<1>5. PICK pps \in GeneratePrePrepares(v, msgs) :
         q \in IF Fails(newView(pps), lost)
                 THEN {sent(pps)}
                 ELSE ProposeOutstanding(EnterOwnView(sent(pps), v, pps), lost)
  BY Zenon DEF StartNewView, own, msgs, vc
<1>6. pps \in Seq(PrePrepare) /\ \A m \in Range(pps) : m \in PrePrepare /\ m.view = v
  BY <1>4, GeneratePrePreparesType
<1> DEFINE nv == newView(pps)
           s == sent(pps)
           e == EnterOwnView(s, v, pps)
<1>7. nv \in Message /\ nv.type = "NewView" /\ nv.view = v /\ nv.preprepares = pps
  BY <1>4, <1>6 DEF NewView, Message
<1>8. ~Fails(nv, lost)
  BY <1>7 DEF Fails
<1>9. q \in ProposeOutstanding(e, lost)
  BY <1>5, <1>8
<1>10. s \in ReplicaState
  BY <1>2, <1>7, BroadcastKeeps DEF Keeps
<1> DEFINE o == [msg |-> nv, failed |-> Fails(nv, lost)]
<1>11. /\ s.id = own.id /\ s.preprepares = own.preprepares /\ s.prepares = own.prepares
       /\ s.commits = own.commits /\ s.sequence = own.sequence /\ s.requests = own.requests
       /\ s.outbox = own.outbox \cup {o}
  BY <1>2 DEF Broadcast, ReplicaState
<1>12. o.msg = nv
  OBVIOUS
<1> HIDE DEF nv, s, o
<1>13. /\ e \in ReplicaState /\ e.outbox = s.outbox /\ e.sequence = s.sequence
       /\ Opens(s, e, v, pps)
  BY <1>6, <1>10, EnterOwnViewOpens
<1>14. e.view = v /\ e.activeView
  BY <1>13 DEF Opens
<1> HIDE DEF e
<1>15. Proposes(e, q) /\ q.view = e.view /\ q.activeView = e.activeView
  BY <1>9, <1>13, ProposeOutstandingProposes, ProposeOutstandingWithin DEF Within
<1>16. \A x \in e.outbox : \/ x \in r.outbox \/ x.msg.type = "ViewChange"
                           \/ x.msg.type = "NewView" /\ x.msg.view = v /\ x.msg.preprepares = pps
  <2>1. \A x \in own.outbox : x \in r.outbox \/ x.msg.type = "ViewChange"
    BY <1>2 DEF Echoes, Repeats, Echo
  <2> QED  BY <1>7, <1>11, <1>12, <1>13, <2>1
<1>17. /\ e.id = r.id
       /\ \A m \in e.preprepares : m \in r.preprepares \/ (m.view = v /\ m.digest \in e.requests)
       /\ \A m \in r.preprepares : m \in e.preprepares \/ m.view = v \/ m.view < v
       /\ e.prepares \subseteq r.prepares /\ e.commits \subseteq r.commits
       /\ e.sequence = r.sequence
       /\ r.requests \subseteq e.requests
       /\ \A k \in DOMAIN pps : pps[k].digest \in e.requests
  <2>1. /\ own.id = r.id /\ own.sequence = r.sequence /\ r.requests \subseteq own.requests
        /\ own.prepares \subseteq r.prepares /\ own.commits \subseteq r.commits
    BY <1>2 DEF Echoes, Repeats, Echo
  <2> QED  BY <1>3, <1>11, <1>13, <2>1 DEF Opens
<1>18. Opens(r, q, v, pps)
  BY <1>14, <1>15, <1>16, <1>17 DEF Opens, Proposes
<1> QED  BY <1>6, <1>18

\* A ViewChange is noted, makes its receiver leave its view, or makes it open one
\* that it has not been active in.
LEMMA ProcessViewChangeOpens ==
  ASSUME NEW r \in ReplicaState, OneEach(r), r.outbox = {}, NEW from \in Replica,
         NEW m \in ViewChange, NEW lost, <<"NewView", 0>> \notin lost,
         NEW q \in ProcessViewChange(r, from, m, lost)
  PROVE  \/ /\ Echoes(r, q, {})
            /\ \/ q.view = r.view /\ q.activeView = r.activeView
               \/ q.view > r.view /\ ~q.activeView
         \/ /\ m.view > 0 /\ Primary(m.view) = r.id
            /\ m.view > r.view \/ (m.view = r.view /\ ~r.activeView)
            /\ \E pps \in Seq(PrePrepare) : Opens(r, q, m.view, pps)
<1> DEFINE recorded == RecordViewChangeReceipt(r, from, m)
           joined == MaybeJoinViewChange(recorded, lost)
<1>1. m.view \in Nat /\ r.view \in Nat /\ r.activeView \in BOOLEAN
  BY DEF ViewChange, ReplicaState
<1>2. Keeps(r, recorded) /\ recorded \in ReplicaState /\ Echoes(r, recorded, {})
  BY RecordViewChangeKeeps, RecordViewChangeEchoes DEF Keeps
<1>3. OneEach(recorded)
  <2>1. [from |-> from, msg |-> m] \in {[from |-> from, msg |-> m]}
    OBVIOUS
  <2> QED  BY <2>1, RecordViewChangeTells DEF Tells
<1> HIDE DEF recorded
<1>4. /\ joined \in ReplicaState /\ Echoes(recorded, joined, {})
      /\ joined = recorded \/ (recorded.activeView /\ Leaves(recorded, joined))
  BY <1>2, MaybeJoinEchoes, MaybeJoinLeaves DEF Leaves
<1>5. joined.view <= m.view \/ ~ViewChangeReady(joined, m.view)
      \/ m.view < r.view \/ (m.view = r.view /\ r.activeView)
  BY <1>1, <1>2, <1>3, JoinsNoLaterView DEF Keeps
<1> HIDE DEF joined
<1>6. Echoes(r, joined, {})
  BY <1>2, <1>4, EchoesTransitive
<1>7. CASE m.view < r.view \/ ~ValidViewChange(m)
  <2>1. q = r
    BY <1>7 DEF ProcessViewChange
  <2> QED  BY <2>1, EchoesReflexive
<1>8. CASE ~(m.view < r.view \/ ~ValidViewChange(m))
  <2>1. m.view > 0 /\ m.view >= r.view
    BY <1>1, <1>8 DEF ValidViewChange
  <2>2. CASE m.view = r.view /\ r.activeView
    <3>1. q = recorded
      BY <1>8, <2>2, Zenon DEF ProcessViewChange, recorded
    <3> QED  BY <1>2, <3>1 DEF Keeps
  <2>3. CASE /\ ~(m.view = r.view /\ r.activeView)
             /\ ~(Primary(m.view) = r.id /\ ViewChangeReady(joined, m.view))
    <3>1. q = joined
      BY <1>8, <2>3 DEF ProcessViewChange, recorded, joined
    <3> QED  BY <1>1, <1>2, <1>4, <1>6, <3>1 DEF Keeps, Leaves
  <2>4. CASE /\ ~(m.view = r.view /\ r.activeView)
             /\ Primary(m.view) = r.id /\ ViewChangeReady(joined, m.view)
    <3>1. q \in StartNewView(joined, m.view, lost)
      BY <1>8, <2>4 DEF ProcessViewChange, recorded, joined
    <3>2. PICK pps \in Seq(PrePrepare) : Opens(joined, q, m.view, pps)
      BY <1>1, <1>4, <3>1, StartNewViewOpens
    <3>3. m.view > r.view \/ (m.view = r.view /\ ~r.activeView)
      BY <1>1, <2>1, <2>4
    <3>4. joined.preprepares = r.preprepares
      BY <1>2, <1>4 DEF Keeps, Leaves
    <3>5. /\ joined.id = r.id /\ joined.sequence = r.sequence /\ r.requests \subseteq joined.requests
          /\ joined.prepares \subseteq r.prepares /\ joined.commits \subseteq r.commits
          /\ \A o \in joined.outbox : o \in r.outbox \/ o.msg.type = "ViewChange"
      BY <1>6 DEF Echoes, Repeats, Echo
    <3>6. Opens(r, q, m.view, pps)
      BY <3>2, <3>4, <3>5 DEF Opens
    <3> QED  BY <2>1, <2>4, <3>3, <3>6
  <2> QED  BY <2>2, <2>3, <2>4
<1> QED  BY <1>7, <1>8

\* A NewView takes its receiver into its view, and fills the slots it names.
LEMMA ProcessNewViewFills ==
  ASSUME NEW r \in ReplicaState, NEW from \in Replica, NEW m \in NewView, NEW lost
  PROVE  LET q == ProcessNewView(r, from, m, lost) IN
         \/ q = r
         \/ /\ ValidNewView(from, m) /\ m.view >= r.view
            /\ q.view = m.view /\ q.activeView
            /\ Repeats(r, q, Range(m.preprepares))
            /\ \A p \in r.preprepares : p \in q.preprepares \/ p.view < m.view
            /\ \A s \in DOMAIN m.preprepares :
                 \E p \in q.preprepares : p.view = m.view /\ p.seq = s
<1> DEFINE moved == [r EXCEPT !.view = m.view, !.activeView = TRUE]
           entered == CleanupState(moved, m.view)
           ms == Range(m.preprepares)
           taken == AcceptPrePrepares(entered, ms, lost)
           timed == StartRequestTimer(taken, FALSE)
           q == ProcessNewView(r, from, m, lost)
<1>1. m.view \in Nat /\ r.view \in Nat /\ m.preprepares \in Seq(PrePrepare)
  BY DEF NewView, ReplicaState
<1>2. CASE m.view < r.view \/ ~ValidNewView(from, m)
  <2>1. q = r
    BY <1>2, Zenon DEF ProcessNewView
  <2> QED  BY <2>1
<1>3. CASE ~(m.view < r.view \/ ~ValidNewView(from, m))
  <2>1. m.view >= r.view /\ ValidNewView(from, m)
    BY <1>1, <1>3
  <2>2. /\ ms \in SUBSET PrePrepare /\ \A p \in ms : p.view = m.view
        /\ \A s \in DOMAIN m.preprepares : \E p \in ms : p.view = m.view /\ p.seq = s
    BY <1>1, <2>1 DEF Range, ValidNewView
  <2>3. moved \in ReplicaState /\ moved.id = r.id /\ moved.view = m.view /\ moved.activeView
        /\ moved.preprepares = r.preprepares /\ moved.prepares = r.prepares
        /\ moved.commits = r.commits /\ moved.sequence = r.sequence
        /\ moved.requests = r.requests /\ moved.outbox = r.outbox
    BY <1>1 DEF ReplicaState
  <2> HIDE DEF moved, ms
  <2>4. /\ entered \in ReplicaState /\ entered.id = r.id /\ entered.view = m.view
        /\ entered.activeView
        /\ entered.preprepares = {p \in r.preprepares : p.view >= m.view}
        /\ entered.prepares \subseteq r.prepares /\ entered.commits \subseteq r.commits
        /\ entered.sequence = r.sequence /\ entered.requests = r.requests
        /\ entered.outbox = r.outbox
    BY <1>1, <2>3, CleanupType DEF CleanupState, ReplicaState
  <2> HIDE DEF entered
  <2>5. /\ Echoes(entered, taken, ms)
        /\ \A p \in ms : \E k \in taken.preprepares : SameSlot(k, p)
        /\ Within(entered, taken, m.view)
    BY <1>1, <2>2, <2>4, AcceptEchoes, AcceptPrePreparesWithin
  <2>6. taken \in ReplicaState /\ taken.view = m.view /\ taken.activeView
    BY <2>4, <2>5 DEF Within
  <2> HIDE DEF taken
  <2>7. /\ Echoes(taken, timed, ms) /\ timed.preprepares = taken.preprepares
        /\ Keeps(taken, timed)
    BY <2>6, StartTimerEchoes, StartTimerKeeps
  <2> HIDE DEF timed
  <2>8. q \in {taken, timed}
    BY <1>3, Zenon DEF ProcessNewView, timed, taken, ms, entered, moved
  <2> HIDE DEF q
  <2>9. /\ Echoes(entered, q, ms) /\ q.view = m.view /\ q.activeView
        /\ q.preprepares = taken.preprepares
    BY <2>5, <2>6, <2>7, <2>8, EchoesTransitive DEF Keeps
  <2>10. Repeats(r, q, ms)
    BY <2>4, <2>9 DEF Echoes, Repeats
  <2>11. \A p \in r.preprepares : p \in q.preprepares \/ p.view < m.view
    <3>1. \A p \in r.preprepares : p.view \in Nat
      BY DEF ReplicaState, PrePrepare
    <3> QED  BY <1>1, <2>4, <2>9, <3>1 DEF Echoes
  <2>12. \A s \in DOMAIN m.preprepares :
           \E p \in q.preprepares : p.view = m.view /\ p.seq = s
    BY <2>2, <2>5, <2>9 DEF SameSlot
  <2> QED  BY <2>1, <2>9, <2>10, <2>11, <2>12 DEF ms, q
<1> QED  BY <1>2, <1>3

-----------------------------------------------------------------------------
(* The invariant. *)

\* Replica r claims the digest d for the slot (v, s).  The pre-prepares of a view
\* that it leads itself are no claims: they may be overwritten.
Holds(r, v, s, d) ==
    \/ Primary(v) # r.id /\ \E m \in r.preprepares : IsFor(m, v, s, d)
    \/ \E x \in r.prepares \cup r.commits : IsFor(x.msg, v, s, d)

Carries(m, v, s, d) ==
    \/ m.type \in {"Prepare", "Commit"} /\ IsFor(m, v, s, d)
    \/ /\ m.type = "NewView" /\ m.view = v
       /\ s \in DOMAIN m.preprepares /\ m.preprepares[s].digest = d

Claimed(v, s, d) ==
    \/ \E i \in Correct : Holds(replica[i], v, s, d)
    \/ \E e \in net : Carries(e.msg, v, s, d)

\* Replica r has been active in view v, or will never be.
Past(r, v) == r.view > v \/ (r.view = v /\ r.activeView)

\* A pre-prepare that its receiver may accept.
Proposal(e) == e.msg.type = "PrePrepare" /\ e.from = Primary(e.msg.view)

\* Backup j will accept no pre-prepare for the slot (v, s) any more: it has left
\* the view, or the slot is filled, or the NewView that it has to take first is
\* going to fill it.
Blocked(j, v, s) ==
    LET r == replica[j] IN
    \/ r.view > v
    \/ r.view = v /\ r.activeView /\ \E m \in r.preprepares : m.view = v /\ m.seq = s
    \/ /\ ~Past(r, v)
       /\ \A e \in net : e.to = j /\ e.msg.type = "NewView" /\ e.msg.view = v
                           => s \in DOMAIN e.msg.preprepares

\* The digest d is the only one for the slot (v, s), and its primary will not
\* propose another that somebody takes.
Fits(v, s, d) ==
    /\ \A c \in Digest : Claimed(v, s, c) => c = d
    /\ \A e \in net : Proposal(e) /\ e.msg.view = v /\ e.msg.seq = s
                        => e.msg.digest = d \/ Blocked(e.to, v, s)
    /\ \/ s <= replica[Primary(v)].sequence
       \/ \A j \in Correct \ {Primary(v)} : Blocked(j, v, s)
    /\ v > 0 => Past(replica[Primary(v)], v)

ToOthers == \A e \in net : e.to \in Correct \ {e.from}

\* A primary numbers its proposals, in whatever view, with one counter.
Numbered ==
    \A e \in net : Proposal(e) =>
       /\ e.msg.seq <= replica[e.from].sequence
       /\ \A k \in net : Proposal(k) /\ SameSlot(k.msg, e.msg) => k.msg.digest = e.msg.digest

ClaimsFit == \A v, s \in Nat : \A d \in Digest : Claimed(v, s, d) => Fits(v, s, d)

\* A primary sends the NewView of a view once, and no backup is there before it.
NewViewsStarted ==
    \A e \in net : e.msg.type = "NewView" =>
       e.msg.view > 0 /\ e.from = Primary(e.msg.view) /\ Past(replica[e.from], e.msg.view)

BackupsFollow ==
    \A j \in Correct : LET v == replica[j].view IN
       replica[j].activeView /\ v > 0 /\ Primary(v) # j => Past(replica[Primary(v)], v)

\* Whoever proposes a request has it, and keeps it.
Known ==
    /\ \A j \in Correct : \A m \in replica[j].preprepares :
          m.digest \in replica[Primary(m.view)].requests
    /\ \A e \in net : Proposal(e) => e.msg.digest \in replica[e.from].requests
    /\ \A e \in net : e.msg.type = "NewView" =>
          \A s \in DOMAIN e.msg.preprepares : e.msg.preprepares[s].digest \in replica[e.from].requests
    /\ main.call.step = "broadcast" => main.call.msg.digest \in replica[main.next].requests

SlotInv == ToOthers /\ Numbered /\ ClaimsFit /\ NewViewsStarted /\ BackupsFollow /\ Known

-----------------------------------------------------------------------------
(* What every step keeps. *)

\* A step of replica i: it holds and says no more than the messages of M, but for
\* its own proposals, and it enters the view of another replica with a NewView.
Acts(i, M) ==
    LET r == replica[i]
        q == replica'[i]
    IN /\ \A j \in Replica \ {i} : replica'[j] = replica[j]
       /\ r.sequence <= q.sequence
       /\ r.requests \subseteq q.requests
       /\ i \in Correct =>
            /\ \A m \in q.preprepares :
                 \/ m \in r.preprepares \/ m \in M
                 \/ Primary(m.view) = i /\ m.digest \in q.requests
            /\ \A m \in r.preprepares :
                 m \in q.preprepares \/ Primary(m.view) = i \/ m.view < q.view
            /\ \A x \in q.prepares : x \in r.prepares \/ Echo(x.msg, M)
            /\ \A x \in q.commits : x \in r.commits \/ Echo(x.msg, M)
            /\ q.activeView =>
                 \/ Past(r, q.view) \/ Primary(q.view) = i
                 \/ \E e \in net :
                      /\ e.to = i /\ e.msg.type = "NewView" /\ e.msg.view = q.view
                      /\ \A s \in DOMAIN e.msg.preprepares :
                           \E p \in q.preprepares : p.view = q.view /\ p.seq = s
       /\ \A e \in net' : e \in net \/
            /\ e.from = i /\ e.to \in Correct \ {i}
            /\ e.msg.type \in {"Prepare", "Commit"} => Echo(e.msg, M)
            /\ e.msg.type = "PrePrepare" => /\ e.msg.digest \in q.requests
                                            /\ r.sequence < e.msg.seq /\ e.msg.seq <= q.sequence
       /\ \A e, k \in net' :
            /\ e \notin net /\ k \notin net
            /\ e.msg.type = "PrePrepare" /\ k.msg.type = "PrePrepare"
            /\ e.msg.seq = k.msg.seq
            => e.msg.digest = k.msg.digest

\* No NewView for view v is sent.
NoNewView(v) == \A e \in net' : e.msg.type = "NewView" /\ e.msg.view = v => e \in net

LEMMA PrimaryIsReplica == \A v \in Nat : Primary(v) \in Replica
  BY ClusterAssumption DEF Primary, Replica, MinimumReplicaCount

LEMMA SlotTypes ==
  ASSUME TypeOK
  PROVE  /\ \A i \in Replica :
              /\ replica[i] \in ReplicaState /\ replica[i].id = i
              /\ replica[i].view \in Nat /\ replica[i].activeView \in BOOLEAN
              /\ replica[i].sequence \in Nat
              /\ \A m \in replica[i].preprepares :
                   m.view \in Nat /\ m.seq \in Nat /\ m.digest \in Digest
              /\ \A x \in replica[i].prepares \cup replica[i].commits :
                   x.msg.view \in Nat /\ x.msg.seq \in Nat /\ x.msg.digest \in Digest
         /\ \A e \in net : /\ e.from \in Replica /\ e.to \in Replica /\ e.msg.view \in Nat
                           /\ e.msg.type \in NormalCase =>
                                e.msg.seq \in Nat /\ e.msg.digest \in Digest
                           /\ e.msg.type = "NewView" => e.msg.preprepares \in Seq(PrePrepare)
<1>1. \A i \in Replica : replica[i] \in ReplicaState /\ replica[i].id = i
  BY DEF TypeOK
<1>2. ASSUME NEW i \in Replica
      PROVE  /\ replica[i].view \in Nat /\ replica[i].activeView \in BOOLEAN
             /\ replica[i].sequence \in Nat
             /\ \A m \in replica[i].preprepares :
                  m.view \in Nat /\ m.seq \in Nat /\ m.digest \in Digest
             /\ \A x \in replica[i].prepares \cup replica[i].commits :
                  x.msg.view \in Nat /\ x.msg.seq \in Nat /\ x.msg.digest \in Digest
  <2>1. /\ replica[i].view \in Nat /\ replica[i].activeView \in BOOLEAN
        /\ replica[i].sequence \in Nat
        /\ \A m \in replica[i].preprepares : m \in PrePrepare
        /\ \A x \in replica[i].prepares : x.msg \in Prepare
        /\ \A x \in replica[i].commits : x.msg \in Commit
    BY <1>1 DEF ReplicaState, PrepareReceipt, CommitReceipt
  <2> QED  BY <2>1 DEF PrePrepare, Prepare, Commit
<1>3. ASSUME NEW e \in net
      PROVE  /\ e.from \in Replica /\ e.to \in Replica /\ e.msg.view \in Nat
             /\ e.msg.type \in NormalCase => e.msg.seq \in Nat /\ e.msg.digest \in Digest
             /\ e.msg.type = "NewView" => e.msg.preprepares \in Seq(PrePrepare)
  <2>1. e.from \in Replica /\ e.to \in Replica /\ e.msg \in Message
    BY DEF TypeOK, Envelope
  <2>2. e.msg.view \in Nat
    BY <2>1 DEF Message, PrePrepare, Prepare, Commit, ViewChange, NewView
  <2> QED  BY <2>1, <2>2, MessageTypes DEF PrePrepare, Prepare, Commit, NewView, NormalCase
<1> QED  BY <1>1, <1>2, <1>3

\* A replica that has entered a view has entered it for good.
LEMMA PastStays ==
  ASSUME TypeOK, TypeOK', ReplicasStep, NEW i \in Replica, NEW v \in Nat, Past(replica[i], v)
  PROVE  Past(replica'[i], v)
<1>1. /\ replica[i].view \in Nat /\ replica'[i].view \in Nat
      /\ replica[i].activeView \in BOOLEAN /\ replica'[i].activeView \in BOOLEAN
  BY DEF TypeOK, ReplicaState
<1>2. /\ replica'[i].view >= replica[i].view
      /\ replica[i].activeView /\ ~replica'[i].activeView => replica'[i].view > replica[i].view
  BY DEF ReplicasStep, ViewStep
<1> QED  BY <1>1, <1>2 DEF Past

\* A backup that will accept nothing for a slot accepts nothing for ever.
LEMMA BlockedStays ==
  ASSUME TypeOK, TypeOK', ReplicasStep, NEW i \in Replica, NEW M, Acts(i, M),
         NEW v \in Nat, NEW s \in Nat, NoNewView(v), NEW j \in Correct, Primary(v) # j,
         Blocked(j, v, s)
  PROVE  Blocked(j, v, s)'
<1> DEFINE r == replica[j]
           q == replica'[j]
<1>1. /\ j \in Replica /\ r.view \in Nat /\ q.view \in Nat
      /\ r.activeView \in BOOLEAN /\ q.activeView \in BOOLEAN
  BY DEF TypeOK, ReplicaState, Correct
<1>2. /\ q.view >= r.view
      /\ r.activeView /\ ~q.activeView => q.view > r.view
  BY <1>1 DEF ReplicasStep, ViewStep
<1>3. CASE r.view > v
  BY <1>1, <1>2, <1>3 DEF Blocked
<1>4. CASE r.view = v /\ r.activeView /\ \E m \in r.preprepares : m.view = v /\ m.seq = s
  <2>1. CASE q.view > v
    BY <2>1 DEF Blocked
  <2>2. CASE q.view = v /\ q.activeView
    <3>1. PICK m \in r.preprepares : m.view = v /\ m.seq = s
      BY <1>4
    <3>2. m \in q.preprepares
      <4>1. CASE j = i
        BY <1>1, <2>2, <3>1, <4>1 DEF Acts
      <4>2. CASE j # i
        BY <1>1, <3>1, <4>2 DEF Acts
      <4> QED  BY <4>1, <4>2
    <3> QED  BY <2>2, <3>1, <3>2 DEF Blocked
  <2> QED  BY <1>1, <1>2, <1>4, <2>1, <2>2
<1>5. CASE /\ ~Past(r, v)
           /\ \A e \in net : e.to = j /\ e.msg.type = "NewView" /\ e.msg.view = v
                               => s \in DOMAIN e.msg.preprepares
  <2>1. \A e \in net' : e.to = j /\ e.msg.type = "NewView" /\ e.msg.view = v
                          => s \in DOMAIN e.msg.preprepares
    BY <1>5 DEF NoNewView
  <2>2. CASE ~Past(q, v)
    BY <2>1, <2>2 DEF Blocked
  <2>3. CASE q.view > v
    BY <2>3 DEF Blocked
  <2>4. CASE q.view = v /\ q.activeView
    <3>1. j = i
      BY <1>1, <1>5, <2>4 DEF Acts, Past
    <3>2. PICK e \in net : /\ e.to = j /\ e.msg.type = "NewView" /\ e.msg.view = v
                           /\ \A k \in DOMAIN e.msg.preprepares :
                                \E p \in q.preprepares : p.view = v /\ p.seq = k
      BY <1>5, <2>4, <3>1 DEF Acts
    <3>3. \E p \in q.preprepares : p.view = v /\ p.seq = s
      BY <1>5, <3>2
    <3> QED  BY <2>4, <3>3 DEF Blocked
  <2> QED  BY <2>2, <2>3, <2>4 DEF Past
<1> QED  BY <1>3, <1>4, <1>5 DEF Blocked

\* The digest of a slot stays the only one, as long as no other is claimed.
LEMMA FitsStays ==
  ASSUME TypeOK, TypeOK', ReplicasStep, ToOthers, NEW i \in Replica, NEW M, Acts(i, M),
         NEW v \in Nat, NEW s \in Nat, NEW d \in Digest, NoNewView(v), Fits(v, s, d),
         \A c \in Digest : Claimed(v, s, c)' => c = d
  PROVE  Fits(v, s, d)'
<1> DEFINE p == Primary(v)
<1>1. p \in Replica
  BY PrimaryIsReplica
<1> HIDE DEF p
<1>2. \A j \in Replica : /\ replica[j].sequence \in Nat /\ replica'[j].sequence \in Nat
                         /\ replica'[j].sequence >= replica[j].sequence
  <2>1. \A j \in Replica : replica[j].sequence \in Nat /\ replica'[j].sequence \in Nat
    BY DEF TypeOK, ReplicaState
  <2>2. ASSUME NEW j \in Replica PROVE replica'[j].sequence >= replica[j].sequence
    BY <2>1 DEF Acts
  <2> QED  BY <2>1, <2>2
<1>3. \A j \in Correct \ {p} : Blocked(j, v, s) => Blocked(j, v, s)'
  BY BlockedStays DEF p
<1>4. ASSUME NEW e \in net', Proposal(e), e.msg.view = v, e.msg.seq = s
      PROVE  e.msg.digest = d \/ Blocked(e.to, v, s)'
  <2>1. e.msg.type = "PrePrepare" /\ e.from = p
    BY <1>4 DEF Proposal, p
  <2>2. CASE e \in net
    <3>1. e.to \in Correct \ {p}
      BY <2>1, <2>2 DEF ToOthers
    <3>2. e.msg.digest = d \/ Blocked(e.to, v, s)
      BY <1>4, <2>2 DEF Fits
    <3> QED  BY <1>3, <3>1, <3>2
  <2>3. CASE e \notin net
    <3>1. e.from = i /\ e.to \in Correct \ {i} /\ replica[i].sequence < s
      BY <1>4, <2>1, <2>3 DEF Acts
    <3>2. ~(s <= replica[p].sequence)
      BY <1>2, <2>1, <3>1
    <3>3. \A j \in Correct \ {p} : Blocked(j, v, s)
      BY <3>2 DEF Fits, p
    <3> QED  BY <1>3, <2>1, <3>1, <3>3
  <2> QED  BY <2>2, <2>3
<1>5. \/ s <= replica'[p].sequence
      \/ \A j \in Correct \ {p} : Blocked(j, v, s)'
  <2>1. CASE s <= replica[p].sequence
    BY <1>1, <1>2, <2>1
  <2>2. CASE \A j \in Correct \ {p} : Blocked(j, v, s)
    BY <1>3, <2>2
  <2> QED  BY <2>1, <2>2 DEF Fits, p
<1>6. v > 0 => Past(replica'[p], v)
  BY <1>1, PastStays DEF Fits, p
<1> DEFINE rest == /\ \A e \in net : Proposal(e) /\ e.msg.view = v /\ e.msg.seq = s
                                       => e.msg.digest = d \/ Blocked(e.to, v, s)
                   /\ \/ s <= replica[p].sequence
                      \/ \A j \in Correct \ {p} : Blocked(j, v, s)
                   /\ v > 0 => Past(replica[p], v)
<1>7. rest'
  BY <1>4, <1>5, <1>6
<1> QED  BY <1>7 DEF Fits, p

\* What is claimed after a step was claimed before, or is in M, unless a NewView
\* claims it.
LEMMA NewClaims ==
  ASSUME TypeOK, TypeOK', NEW i \in Replica, NEW M, Acts(i, M),
         NEW v \in Nat, NEW s \in Nat, NEW d \in Digest, NoNewView(v), Claimed(v, s, d)'
  PROVE  Claimed(v, s, d) \/ \E k \in M : IsFor(k, v, s, d)
<1>1. \A j \in Replica : replica[j].id = j /\ replica'[j].id = j
  BY DEF TypeOK
<1>2. \A j \in Correct : j \in Replica
  BY DEF Correct
<1>3. ASSUME NEW j \in Correct, Holds(replica'[j], v, s, d)
      PROVE  Holds(replica[j], v, s, d) \/ \E k \in M : IsFor(k, v, s, d)
  <2>1. CASE j # i
    BY <1>2, <1>3, <2>1 DEF Acts
  <2>2. CASE j = i
    <3>1. CASE \E x \in replica'[i].prepares \cup replica'[i].commits : IsFor(x.msg, v, s, d)
      BY <2>2, <3>1 DEF Acts, Holds, Echo, IsFor
    <3>2. CASE Primary(v) # i /\ \E m \in replica'[i].preprepares : IsFor(m, v, s, d)
      <4>1. PICK m \in replica'[i].preprepares : IsFor(m, v, s, d)
        BY <3>2
      <4>2. m \in replica[i].preprepares \/ m \in M
        BY <2>2, <3>2, <4>1 DEF Acts, IsFor
      <4> QED  BY <1>1, <2>2, <3>2, <4>1, <4>2 DEF Holds
    <3> QED  BY <1>1, <1>3, <2>2, <3>1, <3>2 DEF Holds
  <2> QED  BY <2>1, <2>2
<1>4. ASSUME NEW e \in net', Carries(e.msg, v, s, d)
      PROVE  e \in net \/ \E k \in M : IsFor(k, v, s, d)
  <2>1. CASE e.msg.type \in {"Prepare", "Commit"} /\ IsFor(e.msg, v, s, d)
    BY <2>1 DEF Acts, Echo, IsFor
  <2>2. CASE e.msg.type = "NewView" /\ e.msg.view = v
    BY <2>2 DEF NoNewView
  <2> QED  BY <1>4, <2>1, <2>2 DEF Carries
<1> QED  BY <1>3, <1>4 DEF Claimed

\* The messages of M fit what is claimed.
Fitting(M) ==
    /\ \A k \in M : /\ k.view \in Nat /\ k.seq \in Nat /\ k.digest \in Digest
                    /\ Fits(k.view, k.seq, k.digest)
                    /\ k.type = "PrePrepare" => k.digest \in replica[Primary(k.view)].requests
    /\ \A k, l \in M : SameSlot(k, l) => k.digest = l.digest

LEMMA ClaimsFitStays ==
  ASSUME TypeOK, TypeOK', ReplicasStep, ToOthers, ClaimsFit,
         NEW i \in Replica, NEW M, Acts(i, M), Fitting(M),
         NEW v \in Nat, NEW s \in Nat, NEW d \in Digest, NoNewView(v), Claimed(v, s, d)'
  PROVE  Fits(v, s, d)'
<1>1. \A c \in Digest : Claimed(v, s, c)' => Claimed(v, s, c) \/ \E k \in M : IsFor(k, v, s, c)
  BY NewClaims
<1>2. \A c \in Digest : Claimed(v, s, c)' => Fits(v, s, c)
  BY <1>1 DEF ClaimsFit, Fitting, IsFor
<1>3. ASSUME NEW c \in Digest, Claimed(v, s, c)' PROVE c = d
  <2>1. CASE Claimed(v, s, c)
    BY <1>2, <2>1 DEF Fits
  <2>2. CASE Claimed(v, s, d)
    BY <1>2, <1>3, <2>2 DEF Fits
  <2>3. CASE (\E k \in M : IsFor(k, v, s, c)) /\ (\E l \in M : IsFor(l, v, s, d))
    BY <2>3 DEF Fitting, IsFor, SameSlot
  <2> QED  BY <1>1, <1>3, <2>1, <2>2, <2>3
<1> QED  BY <1>2, <1>3, FitsStays

LEMMA NumberedStays ==
  ASSUME TypeOK, TypeOK', Numbered, NEW i \in Replica, NEW M, Acts(i, M)
  PROVE  Numbered'
<1>1. \A j \in Replica : /\ replica[j].sequence \in Nat /\ replica'[j].sequence \in Nat
                         /\ replica'[j].sequence >= replica[j].sequence
  <2>1. \A j \in Replica : replica[j].sequence \in Nat /\ replica'[j].sequence \in Nat
    BY DEF TypeOK, ReplicaState
  <2>2. ASSUME NEW j \in Replica PROVE replica'[j].sequence >= replica[j].sequence
    BY <2>1 DEF Acts
  <2> QED  BY <2>1, <2>2
<1>2. ASSUME NEW e \in net', Proposal(e)
      PROVE  /\ e.from \in Replica /\ e.msg.seq \in Nat
             /\ e.from = Primary(e.msg.view) /\ e.msg.type = "PrePrepare"
  <2>1. e.from \in Replica /\ e.msg \in Message
    BY DEF TypeOK, Envelope
  <2>2. e.from = Primary(e.msg.view) /\ e.msg.type = "PrePrepare"
    BY <1>2 DEF Proposal
  <2>3. e.msg \in PrePrepare
    BY <2>1, <2>2 DEF Message, Prepare, Commit, ViewChange, NewView
  <2> QED  BY <2>1, <2>2, <2>3 DEF PrePrepare
<1>3. ASSUME NEW e \in net', Proposal(e), e \notin net
      PROVE  e.from = i /\ replica[i].sequence < e.msg.seq /\ e.msg.seq <= replica'[i].sequence
  BY <1>2, <1>3 DEF Acts
<1>4. ASSUME NEW e \in net', Proposal(e), e \in net
      PROVE  e.msg.seq <= replica[e.from].sequence
  BY <1>4 DEF Numbered
<1>5. ASSUME NEW e \in net', Proposal(e)
      PROVE  e.msg.seq <= replica'[e.from].sequence
  <2>1. CASE e \in net
    BY <1>1, <1>2, <1>4, <1>5, <2>1
  <2>2. CASE e \notin net
    BY <1>3, <1>5, <2>2
  <2> QED  BY <2>1, <2>2
<1>6. ASSUME NEW e \in net', Proposal(e), e \in net, NEW k \in net', Proposal(k), k \notin net
      PROVE  ~SameSlot(k.msg, e.msg)
  BY <1>1, <1>2, <1>3, <1>4, <1>6 DEF SameSlot
<1>7. ASSUME NEW e \in net', Proposal(e), NEW k \in net', Proposal(k), SameSlot(k.msg, e.msg)
      PROVE  k.msg.digest = e.msg.digest
  <2>1. CASE e \in net /\ k \in net
    BY <1>7, <2>1 DEF Numbered
  <2>2. CASE e \notin net /\ k \notin net
    BY <1>2, <1>7, <2>2 DEF Acts, SameSlot
  <2>3. CASE (e \in net) # (k \in net)
    BY <1>6, <1>7, <2>3 DEF SameSlot
  <2> QED  BY <2>1, <2>2, <2>3
<1> QED  BY <1>5, <1>7 DEF Numbered

LEMMA BackupsFollowStays ==
  ASSUME TypeOK, TypeOK', ReplicasStep, NewViewsStarted, BackupsFollow,
         NEW i \in Replica, NEW M, Acts(i, M)
  PROVE  BackupsFollow'
<1> SUFFICES ASSUME NEW j \in Correct, replica'[j].activeView, replica'[j].view > 0,
                    Primary(replica'[j].view) # j
             PROVE  Past(replica'[Primary(replica'[j].view)], replica'[j].view)
  BY DEF BackupsFollow
<1> DEFINE v == replica'[j].view
           p == Primary(v)
<1>1. /\ j \in Replica /\ v \in Nat /\ replica[j].view \in Nat
      /\ replica[j].activeView \in BOOLEAN
  BY DEF TypeOK, ReplicaState, Correct
<1>2. replica[j].view <= v
  BY <1>1 DEF ReplicasStep, ViewStep
<1> HIDE DEF v
<1>3. p \in Replica
  BY <1>1, PrimaryIsReplica
<1>4. CASE Past(replica[j], v)
  <2>1. replica[j].view = v /\ replica[j].activeView
    BY <1>1, <1>2, <1>4 DEF Past
  <2>2. Past(replica[p], v)
    BY <2>1 DEF BackupsFollow, v
  <2> QED  BY <1>1, <1>3, <2>2, PastStays DEF v
<1>5. CASE ~Past(replica[j], v)
  <2>1. j = i
    BY <1>1, <1>5 DEF Acts, Past, v
  <2>2. PICK e \in net : e.msg.type = "NewView" /\ e.msg.view = v
    BY <1>5, <2>1 DEF Acts, v
  <2>3. Past(replica[p], v)
    BY <2>2 DEF NewViewsStarted
  <2> QED  BY <1>1, <1>3, <2>3, PastStays DEF v
<1> QED  BY <1>4, <1>5

\* The new NewViews of a step are in order: each is for a view that its sender
\* leads and has entered, and carries requests that its sender has.
NewViewsInOrder ==
    \A e \in net' : e.msg.type = "NewView" /\ e \notin net =>
       /\ e.msg.view > 0 /\ e.from = Primary(e.msg.view)
       /\ Past(replica'[e.from], e.msg.view)
       /\ \A s \in DOMAIN e.msg.preprepares :
            e.msg.preprepares[s].digest \in replica'[e.from].requests

\* What main is about to store, its replica knows.
MainKnows == main.call.step = "broadcast" => main.call.msg.digest \in replica[main.next].requests

LEMMA NewViewsStartedStays ==
  ASSUME TypeOK, TypeOK', ReplicasStep, NewViewsStarted, NewViewsInOrder
  PROVE  NewViewsStarted'
<1> SUFFICES ASSUME NEW e \in net', e.msg.type = "NewView"
             PROVE  /\ e.msg.view > 0 /\ e.from = Primary(e.msg.view)
                    /\ Past(replica'[e.from], e.msg.view)
  BY DEF NewViewsStarted
<1>1. CASE e \notin net
  BY <1>1 DEF NewViewsInOrder
<1>2. CASE e \in net
  <2>1. e.from \in Replica /\ e.msg.view \in Nat
    BY <1>2, SlotTypes
  <2>2. e.msg.view > 0 /\ e.from = Primary(e.msg.view) /\ Past(replica[e.from], e.msg.view)
    BY <1>2 DEF NewViewsStarted
  <2> QED  BY <2>1, <2>2, PastStays
<1> QED  BY <1>1, <1>2

LEMMA KnownStays ==
  ASSUME TypeOK, TypeOK', Known, NEW i \in Replica, NEW M, Acts(i, M), NewViewsInOrder, MainKnows',
         \A k \in M : k.type = "PrePrepare" => k.digest \in replica[Primary(k.view)].requests
  PROVE  Known'
<1>1. \A j \in Replica : replica[j].requests \subseteq replica'[j].requests
  BY DEF Acts
<1>2. ASSUME NEW j \in Correct, NEW m \in replica'[j].preprepares
      PROVE  m.digest \in replica'[Primary(m.view)].requests
  <2>1. j \in Replica /\ m.view \in Nat /\ m.type = "PrePrepare"
    <3>1. j \in Replica
      BY DEF Correct
    <3>2. m \in PrePrepare
      BY <1>2, <3>1 DEF TypeOK, ReplicaState
    <3> QED  BY <3>1, <3>2 DEF PrePrepare
  <2>2. Primary(m.view) \in Replica
    BY <2>1, PrimaryIsReplica
  <2>3. CASE m \in replica[j].preprepares
    BY <1>1, <2>2, <2>3 DEF Known
  <2>4. CASE m \notin replica[j].preprepares
    <3>1. j = i
      BY <2>1, <2>4 DEF Acts
    <3>2. m \in M \/ (Primary(m.view) = i /\ m.digest \in replica'[i].requests)
      BY <2>4, <3>1 DEF Acts
    <3> QED  BY <1>1, <2>1, <2>2, <3>2
  <2> QED  BY <2>3, <2>4
<1>3. ASSUME NEW e \in net', Proposal(e)
      PROVE  e.msg.digest \in replica'[e.from].requests
  <2>1. e.from \in Replica
    BY DEF TypeOK, Envelope
  <2>2. CASE e \in net
    BY <1>1, <1>3, <2>1, <2>2 DEF Known
  <2>3. CASE e \notin net
    BY <1>3, <2>3 DEF Acts, Proposal
  <2> QED  BY <2>2, <2>3
<1>4. ASSUME NEW e \in net', e.msg.type = "NewView", NEW s \in DOMAIN e.msg.preprepares
      PROVE  e.msg.preprepares[s].digest \in replica'[e.from].requests
  <2>1. e.from \in Replica
    BY DEF TypeOK, Envelope
  <2>2. CASE e \in net
    BY <1>1, <1>4, <2>1, <2>2 DEF Known
  <2>3. CASE e \notin net
    BY <1>4, <2>3 DEF NewViewsInOrder
  <2> QED  BY <2>2, <2>3
<1> QED  BY <1>2, <1>3, <1>4 DEF Known, MainKnows

\* A step that sends no NewView keeps the invariant.
LEMMA SlotInvStays ==
  ASSUME TypeOK, TypeOK', ReplicasStep, SlotInv, NEW i \in Replica, NEW M, Acts(i, M),
         Fitting(M), \A e \in net' : e.msg.type = "NewView" => e \in net, MainKnows'
  PROVE  SlotInv'
<1>1. NewViewsInOrder /\ \A v \in Nat : NoNewView(v)
  BY DEF NewViewsInOrder, NoNewView
<1>2. ToOthers'
  BY DEF SlotInv, ToOthers, Acts
<1>3. ClaimsFit'
  BY <1>1, ClaimsFitStays DEF SlotInv, ClaimsFit
<1>4. Numbered' /\ BackupsFollow' /\ NewViewsStarted'
  BY <1>1, NumberedStays, BackupsFollowStays, NewViewsStartedStays DEF SlotInv
<1>5. Known'
  BY <1>1, KnownStays DEF SlotInv, Fitting
<1> QED  BY <1>2, <1>3, <1>4, <1>5 DEF SlotInv

-----------------------------------------------------------------------------
(* The steps. *)

\* What a replica holds after a method is what the method left behind; what is
\* sent then was in its outbox.
LEMMA RunSays ==
  ASSUME TypeOK, NEW i \in Replica, NEW q \in ReplicaState, q.id = i, NEW consumed,
         Run(q, consumed)
  PROVE  /\ \A j \in Replica \ {i} : replica'[j] = replica[j]
         /\ replica'[i].view = q.view /\ replica'[i].activeView = q.activeView
         /\ replica'[i].preprepares = q.preprepares /\ replica'[i].prepares = q.prepares
         /\ replica'[i].commits = q.commits /\ replica'[i].sequence = q.sequence
         /\ replica'[i].requests = q.requests
         /\ \A e \in net' : e \in net \/ /\ e.from = i /\ e.to \in Correct \ {i}
                                         /\ \E o \in q.outbox : e.msg = o.msg
<1>1. replica' = [replica EXCEPT ![i] = Returned(q)]
  BY DEF Run
<1>2. /\ Returned(q).view = q.view /\ Returned(q).activeView = q.activeView
      /\ Returned(q).preprepares = q.preprepares /\ Returned(q).prepares = q.prepares
      /\ Returned(q).commits = q.commits /\ Returned(q).sequence = q.sequence
      /\ Returned(q).requests = q.requests
  BY DEF Returned, ReplicaState
<1>3. \A e \in Posted(q) : e.from = i /\ e.to \in Correct \ {i} /\ \E o \in q.outbox : e.msg = o.msg
  BY DEF Posted
<1>4. \A j \in Replica \ {i} : replica'[j] = replica[j]
  BY <1>1 DEF TypeOK
<1>5. replica'[i] = Returned(q)
  BY <1>1 DEF TypeOK
<1> HIDE DEF Returned
<1> QED  BY <1>2, <1>3, <1>4, <1>5, RunPosts

\* A method that repeats what others have said is a step as it should be.
LEMMA RunRepeats ==
  ASSUME TypeOK, NEW i \in Replica, NEW q \in ReplicaState, NEW consumed, Run(q, consumed),
         NEW M, Repeats(replica[i], q, M),
         \A m \in replica[i].preprepares : m \in q.preprepares \/ m.view < q.view,
         q.activeView =>
           \/ Past(replica[i], q.view)
           \/ \E e \in net : /\ e.to = i /\ e.msg.type = "NewView" /\ e.msg.view = q.view
                             /\ \A s \in DOMAIN e.msg.preprepares :
                                  \E p \in q.preprepares : p.view = q.view /\ p.seq = s
  PROVE  Acts(i, M) /\ \A e \in net' : e.msg.type = "NewView" => e \in net
<1> DEFINE r == replica[i]
           p == replica'[i]
<1>1. r.id = i /\ r.outbox = {} /\ r.sequence \in Nat
  BY DEF TypeOK, ReplicaState
<1>2. q.id = i
  BY <1>1 DEF Repeats
<1>3. /\ \A j \in Replica \ {i} : replica'[j] = replica[j]
      /\ p.view = q.view /\ p.activeView = q.activeView
      /\ p.preprepares = q.preprepares /\ p.prepares = q.prepares
      /\ p.commits = q.commits /\ p.sequence = q.sequence /\ p.requests = q.requests
  BY <1>2, RunSays
<1>4. \A e \in net' : e \in net \/ /\ e.from = i /\ e.to \in Correct \ {i}
                                   /\ \E o \in q.outbox : e.msg = o.msg
  BY <1>2, RunSays
<1>5. \A o \in q.outbox : \/ o.msg.type \in {"Prepare", "Commit"} /\ Echo(o.msg, M)
                          \/ o.msg.type = "ViewChange"
  BY <1>1 DEF Repeats
<1>6. \A e \in net' : e \in net \/ /\ e.from = i /\ e.to \in Correct \ {i}
                                   /\ \/ e.msg.type \in {"Prepare", "Commit"} /\ Echo(e.msg, M)
                                      \/ e.msg.type = "ViewChange"
  BY <1>4, <1>5
<1>7. /\ q.sequence = r.sequence /\ r.requests \subseteq q.requests
      /\ \A m \in q.preprepares : m \in r.preprepares \/ m \in M
      /\ \A x \in q.prepares : x \in r.prepares \/ Echo(x.msg, M)
      /\ \A x \in q.commits : x \in r.commits \/ Echo(x.msg, M)
  BY DEF Repeats
<1>8. \A e \in net' : e \in net \/
            /\ e.from = i /\ e.to \in Correct \ {i}
            /\ e.msg.type \in {"Prepare", "Commit"} => Echo(e.msg, M)
            /\ e.msg.type # "PrePrepare" /\ e.msg.type # "NewView"
  BY <1>6
<1> QED  BY <1>1, <1>3, <1>7, <1>8 DEF Acts

\* Main does not forget what its replica knows.
LEMMA MainKnowsStays ==
  ASSUME MainAhead, MainKnows, NEW i \in Replica, NEW M, Acts(i, M), UNCHANGED main
  PROVE  MainKnows'
<1>1. \A j \in Replica : replica[j].requests \subseteq replica'[j].requests
  BY DEF Acts
<1> QED  BY <1>1 DEF MainKnows, MainAhead

\* A method in which nothing fits but what has been claimed.
LEMMA RepeatsKeeps ==
  ASSUME ViewsInv, SlotInv, TypeOK', ReplicasStep, NEW i \in Replica, NEW q \in ReplicaState,
         NEW consumed, Run(q, consumed),
         UNCHANGED main \/ MainReturns \/ main'.call.step # "broadcast", NEW M, Fitting(M),
         Echoes(replica[i], q, M), q.activeView => Past(replica[i], q.view)
  PROVE  SlotInv'
<1>1. TypeOK /\ MainAhead /\ MainKnows
  BY DEF ViewsInv, Inv, SlotInv, Known, MainKnows
<1>2. Acts(i, M) /\ \A e \in net' : e.msg.type = "NewView" => e \in net
  BY <1>1, RunRepeats DEF Echoes
<1>3. MainKnows'
  <2>1. CASE UNCHANGED main
    BY <1>1, <1>2, <2>1, MainKnowsStays
  <2>2. CASE main'.call.step # "broadcast"
    BY <2>2 DEF MainKnows
  <2> QED  BY <1>1, <2>1, <2>2, MainReturnsType
<1> QED  BY <1>1, <1>2, <1>3, SlotInvStays

LEMMA NothingFits == Fitting({})
  BY DEF Fitting

\* A Prepare or a Commit fits, because it has been claimed.
LEMMA ClaimFits ==
  ASSUME TypeOK, SlotInv, NEW e \in net, e.msg.type \in {"Prepare", "Commit"}
  PROVE  Fitting({e.msg})
<1>1. e.msg.view \in Nat /\ e.msg.seq \in Nat /\ e.msg.digest \in Digest
  BY SlotTypes DEF NormalCase
<1>2. Claimed(e.msg.view, e.msg.seq, e.msg.digest)
  BY DEF Claimed, Carries, IsFor
<1>3. Fits(e.msg.view, e.msg.seq, e.msg.digest)
  BY <1>1, <1>2 DEF SlotInv, ClaimsFit
<1> QED  BY <1>1, <1>3 DEF Fitting

\* A pre-prepare fits if its receiver has the slot free.
LEMMA ProposalFits ==
  ASSUME TypeOK, SlotInv, NEW e \in net, e.msg.type = "PrePrepare",
         replica[e.to].activeView, e.from = Primary(replica[e.to].view),
         e.msg.view = replica[e.to].view,
         \A p \in replica[e.to].preprepares : ~SameSlot(p, e.msg)
  PROVE  Fitting({e.msg})
<1> DEFINE r == replica[e.to]
           v == e.msg.view
           s == e.msg.seq
           d == e.msg.digest
<1>1. v \in Nat /\ s \in Nat /\ d \in Digest /\ e.from \in Replica
  BY SlotTypes DEF NormalCase
<1>2. Proposal(e) /\ e.from = Primary(v)
  BY DEF Proposal
<1>3. e.to \in Correct \ {e.from}
  BY DEF SlotInv, ToOthers
<1>4. ~Blocked(e.to, v, s)
  BY <1>1 DEF Blocked, Past, SameSlot
<1>5. \A c \in Digest : Claimed(v, s, c) => c = d
  BY <1>1, <1>2, <1>4 DEF SlotInv, ClaimsFit, Fits
<1>6. \A k \in net : Proposal(k) /\ k.msg.view = v /\ k.msg.seq = s => k.msg.digest = d
  BY <1>2 DEF SlotInv, Numbered, SameSlot
<1>7. s <= replica[Primary(v)].sequence
  BY <1>2 DEF SlotInv, Numbered
<1>8. v > 0 => Past(replica[Primary(v)], v)
  BY <1>2, <1>3 DEF SlotInv, BackupsFollow
<1>9. Fits(v, s, d)
  BY <1>5, <1>6, <1>7, <1>8 DEF Fits
<1>10. d \in replica[Primary(v)].requests
  BY <1>2 DEF SlotInv, Known
<1> QED  BY <1>1, <1>9, <1>10 DEF Fitting

\* What a NewView carries fits, because it has been claimed.
LEMMA NewViewFits ==
  ASSUME TypeOK, SlotInv, NEW e \in net, e.msg.type = "NewView", ValidNewView(e.from, e.msg)
  PROVE  Fitting(Range(e.msg.preprepares))
<1> DEFINE v == e.msg.view
           pps == e.msg.preprepares
<1>1. v \in Nat /\ pps \in Seq(PrePrepare)
  BY SlotTypes
<1>2. ASSUME NEW s \in DOMAIN pps
      PROVE  /\ s \in Nat /\ pps[s].digest \in Digest
             /\ pps[s].view = v /\ pps[s].seq = s
             /\ Fits(v, s, pps[s].digest)
             /\ pps[s].digest \in replica[Primary(v)].requests
  <2>1. s \in Nat /\ pps[s].digest \in Digest
    <3>1. s \in Nat /\ pps[s] \in PrePrepare
      BY <1>1, <1>2
    <3> QED  BY <3>1 DEF PrePrepare
  <2>2. e.from = Primary(v) /\ pps[s].view = v /\ pps[s].seq = s
    BY <1>2 DEF ValidNewView
  <2>3. Claimed(v, s, pps[s].digest)
    BY <1>2 DEF Claimed, Carries
  <2>4. Fits(v, s, pps[s].digest)
    BY <1>1, <2>1, <2>3 DEF SlotInv, ClaimsFit
  <2>5. pps[s].digest \in replica[Primary(v)].requests
    BY <1>2, <2>2 DEF SlotInv, Known
  <2> QED  BY <2>1, <2>2, <2>4, <2>5
<1>3. \A k \in Range(pps) : \E s \in DOMAIN pps : k = pps[s]
  BY DEF Range
<1> HIDE DEF pps
<1>4. \A k \in Range(pps) : /\ k.view \in Nat /\ k.seq \in Nat /\ k.digest \in Digest
                            /\ Fits(k.view, k.seq, k.digest)
                            /\ k.digest \in replica[Primary(k.view)].requests
  BY <1>1, <1>2, <1>3
<1>5. \A k, l \in Range(pps) : SameSlot(k, l) => k.digest = l.digest
  BY <1>2, <1>3 DEF SameSlot
<1> QED  BY <1>4, <1>5 DEF Fitting, pps

\* A primary that opens a view is the first to claim anything there.
LEMMA OpensKeeps ==
  ASSUME ViewsInv, SlotInv, TypeOK', ReplicasStep, NEW i \in Correct, NEW q \in ReplicaState,
         NEW consumed, Run(q, consumed), UNCHANGED main,
         NEW v \in Nat, v > 0, Primary(v) = i, ~Past(replica[i], v),
         NEW pps \in Seq(PrePrepare), Opens(replica[i], q, v, pps)
  PROVE  SlotInv'
<1> DEFINE r == replica[i]
           p == replica'[i]
<1>1. /\ TypeOK /\ MainAhead /\ MainKnows
      /\ i \in Replica /\ r.id = i /\ r.outbox = {}
      /\ \A j \in Correct : j \in Replica
      /\ \A j \in Replica : replica'[j].id = j
  BY DEF ViewsInv, Inv, SlotInv, Known, MainKnows, TypeOK, Correct
<1>2. q.id = i
  BY <1>1 DEF Opens
<1>3. /\ \A j \in Replica \ {i} : replica'[j] = replica[j]
      /\ p.view = q.view /\ p.activeView = q.activeView
      /\ p.preprepares = q.preprepares /\ p.prepares = q.prepares
      /\ p.commits = q.commits /\ p.sequence = q.sequence /\ p.requests = q.requests
  BY <1>1, <1>2, RunSays
<1>4. \A e \in net' : e \in net \/ /\ e.from = i /\ e.to \in Correct \ {i}
                                   /\ \E o \in q.outbox : e.msg = o.msg
  BY <1>1, <1>2, RunSays
<1>5. \A e \in net' : e \in net \/
        /\ e.from = i /\ e.to \in Correct \ {i}
        /\ \/ e.msg.type = "ViewChange"
           \/ e.msg.type = "NewView" /\ e.msg.view = v /\ e.msg.preprepares = pps
           \/ /\ e.msg.type = "PrePrepare" /\ e.msg.view = v /\ e.msg.digest \in q.requests
              /\ r.sequence < e.msg.seq /\ e.msg.seq <= q.sequence
  BY <1>1, <1>4 DEF Opens
<1>6. \A e \in net' : e \in net \/
        /\ e.from = i /\ e.to \in Correct \ {i}
        /\ e.msg.type \notin {"Prepare", "Commit"}
        /\ e.msg.type = "NewView" => e.msg.view = v /\ e.msg.preprepares = pps
        /\ e.msg.type = "PrePrepare" => /\ e.msg.digest \in q.requests
                                        /\ r.sequence < e.msg.seq /\ e.msg.seq <= q.sequence
  BY <1>5
<1>7. \A e, k \in net' :
         /\ e \notin net /\ k \notin net
         /\ e.msg.type = "PrePrepare" /\ k.msg.type = "PrePrepare"
         /\ e.msg.seq = k.msg.seq
         => e.msg.digest = k.msg.digest
  BY <1>1, <1>4 DEF Opens
<1>8. /\ \A m \in q.preprepares : m \in r.preprepares \/ (m.view = v /\ m.digest \in q.requests)
      /\ \A m \in r.preprepares : m \in q.preprepares \/ m.view = v \/ m.view < v
      /\ q.prepares \subseteq r.prepares /\ q.commits \subseteq r.commits
      /\ r.sequence <= q.sequence /\ r.requests \subseteq q.requests
      /\ q.view = v /\ q.activeView
      /\ \A s \in DOMAIN pps : pps[s].digest \in q.requests
  BY DEF Opens
<1>9. Acts(i, {})
  BY <1>3, <1>6, <1>7, <1>8 DEF Acts
<1>10. Past(p, v)
  BY <1>3, <1>8 DEF Past
<1>11. NewViewsInOrder
  BY <1>3, <1>6, <1>8, <1>10 DEF NewViewsInOrder
<1>12. \A e \in net : e.msg.type = "NewView" => e.msg.view # v
  BY DEF SlotInv, NewViewsStarted
<1>13. ASSUME NEW j \in Correct \ {i}
       PROVE  replica[j].view > v \/ ~Past(replica[j], v)
  <2>1. ~(replica[j].view = v /\ replica[j].activeView)
    BY DEF SlotInv, BackupsFollow
  <2> QED  BY <2>1 DEF Past
<1>14. ASSUME NEW s \in DOMAIN pps, NEW j \in Correct \ {i}
       PROVE  Blocked(j, v, s)'
  <2>1. replica'[j] = replica[j]
    BY <1>1, <1>3
  <2>2. \A e \in net' : e.to = j /\ e.msg.type = "NewView" /\ e.msg.view = v
                          => s \in DOMAIN e.msg.preprepares
    BY <1>6, <1>12
  <2> QED  BY <1>13, <2>1, <2>2 DEF Blocked
<1>15. \A s \in Nat : \A d \in Digest : ~Claimed(v, s, d)
  BY DEF SlotInv, ClaimsFit, Fits
<1>16. ASSUME NEW s \in Nat, NEW d \in Digest, Claimed(v, s, d)'
       PROVE  s \in DOMAIN pps /\ d = pps[s].digest
  <2>1. \A j \in Correct : ~Holds(replica[j], v, s, d)
    BY <1>15 DEF Claimed
  <2>2. ASSUME NEW j \in Correct PROVE ~Holds(replica'[j], v, s, d)
    <3>1. CASE j # i
      BY <1>1, <1>3, <2>1, <3>1
    <3>2. CASE j = i
      BY <1>1, <1>3, <1>8, <2>1, <3>2 DEF Holds
    <3> QED  BY <3>1, <3>2
  <2>3. PICK e \in net' : Carries(e.msg, v, s, d)
    BY <1>16, <2>2 DEF Claimed
  <2>4. e \notin net
    BY <1>15, <2>3 DEF Claimed
  <2> QED  BY <1>6, <2>3, <2>4 DEF Carries
<1>17. ASSUME NEW s \in Nat, NEW d \in Digest, Claimed(v, s, d)'
       PROVE  Fits(v, s, d)'
  <2>1. s \in DOMAIN pps /\ d = pps[s].digest
    BY <1>16, <1>17
  <2>2. \A c \in Digest : Claimed(v, s, c)' => c = d
    BY <1>16, <2>1
  <2>3. \A j \in Correct \ {i} : Blocked(j, v, s)'
    BY <1>14, <2>1
  <2>4. \A e \in net' : Proposal(e) /\ e.msg.view = v /\ e.msg.seq = s
                          => Blocked(e.to, v, s)'
    <3>1. \A e \in net' : e.to \in Correct \ {e.from}
      BY <1>6 DEF SlotInv, ToOthers
    <3> QED  BY <2>3, <3>1 DEF Proposal
  <2> DEFINE fits == /\ \A c \in Digest : Claimed(v, s, c) => c = d
                     /\ \A e \in net : Proposal(e) /\ e.msg.view = v /\ e.msg.seq = s
                                         => e.msg.digest = d \/ Blocked(e.to, v, s)
                     /\ \/ s <= replica[i].sequence
                        \/ \A j \in Correct \ {i} : Blocked(j, v, s)
                     /\ v > 0 => Past(replica[i], v)
  <2>5. fits'
    BY <1>10, <2>2, <2>3, <2>4
  <2> QED  BY <2>5 DEF Fits
<1>18. ASSUME NEW w \in Nat, w # v
       PROVE  NoNewView(w)
  BY <1>6, <1>18 DEF NoNewView
<1>19. ClaimsFit'
  <2>1. ASSUME NEW w \in Nat, NEW s \in Nat, NEW d \in Digest, Claimed(w, s, d)'
        PROVE  Fits(w, s, d)'
    <3>1. CASE w = v
      BY <1>17, <2>1, <3>1
    <3>2. CASE w # v
      BY <1>1, <1>9, <1>18, <2>1, <3>2, NothingFits, ClaimsFitStays DEF SlotInv
    <3> QED  BY <3>1, <3>2
  <2> QED  BY <2>1 DEF ClaimsFit
<1>20. Numbered' /\ BackupsFollow' /\ NewViewsStarted'
  BY <1>1, <1>9, <1>11, NumberedStays, BackupsFollowStays, NewViewsStartedStays DEF SlotInv
<1>21. Known'
  BY <1>1, <1>9, <1>11, MainKnowsStays, KnownStays DEF SlotInv
<1>22. ToOthers'
  BY <1>6 DEF SlotInv, ToOthers
<1> QED  BY <1>19, <1>20, <1>21, <1>22 DEF SlotInv

-----------------------------------------------------------------------------
(* Every action keeps the invariant. *)

\* A handler's replica is a correct one, and active for a message of the normal case.
LEMMA ReceiverIsCorrect ==
  ASSUME TypeOK, SlotInv, NEW e \in net
  PROVE  /\ e.to \in Correct \ {e.from} /\ e.to \in Replica /\ e.from \in Replica
         /\ replica[e.to] \in ReplicaState /\ replica[e.to].id = e.to
         /\ replica[e.to].view \in Nat /\ replica[e.to].activeView \in BOOLEAN
         /\ Taken(e) /\ e.msg.type \in NormalCase => replica[e.to].activeView
<1>1. e.to \in Correct \ {e.from} /\ e.to \in Replica /\ e.from \in Replica
  BY SlotTypes DEF SlotInv, ToOthers
<1>2. Taken(e) /\ e.msg.type \in NormalCase => replica[e.to].activeView
  BY DEF Taken, IsMessageAllowed, NormalCase
<1> QED  BY <1>1, <1>2, SlotTypes

LEMMA ReceiveNormalSlots ==
  ASSUME ViewsInv, SlotInv, TypeOK', ReplicasStep, NEW e \in net,
         ReceivePrePrepare(e) \/ ReceivePrepare(e) \/ ReceiveCommit(e)
  PROVE  SlotInv'
<1> DEFINE i == e.to
           r == replica[i]
           m == e.msg
<1>0. TypeOK
  BY DEF ViewsInv, Inv
<1>1. i \in Replica /\ e.from \in Replica /\ r \in ReplicaState
  BY <1>0, ReceiverIsCorrect
<1>2. ASSUME NEW q, Within(r, q, r.view) \/ q = r, Run(q, {e}), UNCHANGED main,
             NEW M, Echoes(r, q, M), Fitting(M)
      PROVE  SlotInv'
  <2>1. q \in ReplicaState /\ q.activeView => Past(r, q.view)
    BY <1>1, <1>2 DEF Within, Past
  <2>2. q \in ReplicaState
    BY <1>1, <1>2 DEF Within
  <2> QED  BY <1>1, <1>2, <2>1, <2>2, RepeatsKeeps
<1>3. ASSUME Run(r, {e}), UNCHANGED main
      PROVE  SlotInv'
  BY <1>2, <1>3, EchoesReflexive, NothingFits
<1>4. ASSUME ReceivePrePrepare(e) PROVE SlotInv'
  <2>1. PICK lost : Run(IF Taken(e) THEN ProcessPrePrepare(r, e.from, m, lost) ELSE r, {e})
    BY <1>4 DEF ReceivePrePrepare
  <2>2. m \in PrePrepare /\ m.type = "PrePrepare" /\ UNCHANGED main
    BY <1>0, <1>4, MessageTypes DEF ReceivePrePrepare
  <2> DEFINE q == ProcessPrePrepare(r, e.from, m, lost)
  <2>3. Within(r, q, r.view) \/ q = r
    BY <1>1, <2>2, ProcessPrePrepareWithin
  <2>4. /\ Echoes(r, q, {m})
        /\ \/ q = r
           \/ /\ e.from = Primary(r.view) /\ m.view = r.view
              /\ \A p \in r.preprepares : ~SameSlot(p, m)
    <3> HIDE DEF r, m
    <3>1. r \in ReplicaState /\ e.from \in Replica /\ m \in PrePrepare
      BY <1>1, <2>2
    <3>2. /\ Echoes(r, q, {m})
          /\ \/ q = r
             \/ /\ ~IsPrimary(r) /\ e.from = Primary(r.view) /\ m.view = r.view
                /\ \A p \in r.preprepares : ~SameSlot(p, m)
      BY <3>1, ProcessPrePrepareEchoes
    <3> QED  BY <3>2
  <2>5. Taken(e) => r.activeView
    BY <1>0, <2>2, ReceiverIsCorrect DEF NormalCase
  <2> HIDE DEF q
  <2>6. CASE ~Taken(e) \/ q = r
    BY <1>3, <2>1, <2>2, <2>6 DEF q
  <2>7. CASE Taken(e) /\ q # r
    <3>1. Fitting({m})
      BY <1>0, <2>2, <2>4, <2>5, <2>7, ProposalFits
    <3> QED  BY <1>2, <2>1, <2>2, <2>3, <2>4, <2>7, <3>1 DEF q
  <2> QED  BY <2>6, <2>7
<1>5. ASSUME ReceivePrepare(e) PROVE SlotInv'
  <2>1. PICK lost : Run(IF Taken(e) THEN ProcessPrepare(r, e.from, m, lost) ELSE r, {e})
    BY <1>5 DEF ReceivePrepare
  <2>2. m \in Prepare /\ m.type = "Prepare" /\ UNCHANGED main
    BY <1>0, <1>5, MessageTypes DEF ReceivePrepare
  <2>3. Fitting({m})
    BY <1>0, <2>2, ClaimFits
  <2> QED  BY <1>1, <1>2, <1>3, <2>1, <2>2, <2>3, ProcessPrepareWithin, ProcessPrepareEchoes
<1>6. ASSUME ReceiveCommit(e) PROVE SlotInv'
  <2>1. PICK lost : Run(IF Taken(e) THEN ProcessCommit(r, e.from, m, lost) ELSE r, {e})
    BY <1>6 DEF ReceiveCommit
  <2>2. m \in Commit /\ m.type = "Commit" /\ UNCHANGED main
    BY <1>0, <1>6, MessageTypes DEF ReceiveCommit
  <2>3. Fitting({m})
    BY <1>0, <2>2, ClaimFits
  <2> QED  BY <1>1, <1>2, <1>3, <2>1, <2>2, <2>3, ProcessCommitWithin, ProcessCommitEchoes
<1> QED  BY <1>4, <1>5, <1>6

LEMMA ReceiveNewViewSlots ==
  ASSUME ViewsInv, SlotInv, TypeOK', ReplicasStep, NEW e \in net, ReceiveNewView(e)
  PROVE  SlotInv'
<1> DEFINE i == e.to
           r == replica[i]
           m == e.msg
           M == Range(m.preprepares)
<1>0. TypeOK /\ MainAhead /\ MainKnows
  BY DEF ViewsInv, Inv, SlotInv, Known, MainKnows
<1>1. /\ i \in Replica /\ e.from \in Replica /\ r \in ReplicaState
      /\ r.view \in Nat /\ r.activeView \in BOOLEAN
  BY <1>0, ReceiverIsCorrect
<1>2. m \in NewView /\ m.type = "NewView" /\ UNCHANGED main
  BY <1>0, MessageTypes DEF ReceiveNewView
<1>3. PICK lost : Run(IF Taken(e) THEN ProcessNewView(r, e.from, m, lost) ELSE r, {e})
  BY DEF ReceiveNewView
<1> DEFINE q == ProcessNewView(r, e.from, m, lost)
<1>4. q \in ReplicaState
  BY <1>1, <1>2, ProcessNewViewStep DEF ViewStep
<1>5. \/ q = r
      \/ /\ ValidNewView(e.from, m) /\ m.view >= r.view
         /\ q.view = m.view /\ q.activeView
         /\ Repeats(r, q, M)
         /\ \A p \in r.preprepares : p \in q.preprepares \/ p.view < m.view
         /\ \A s \in DOMAIN m.preprepares :
              \E p \in q.preprepares : p.view = m.view /\ p.seq = s
  <2> HIDE DEF r, m
  <2>1. r \in ReplicaState /\ e.from \in Replica /\ m \in NewView
    BY <1>1, <1>2
  <2> QED  BY <2>1, ProcessNewViewFills DEF M
<1> HIDE DEF q
<1>6. CASE ~Taken(e) \/ q = r
  <2>1. Run(r, {e})
    BY <1>3, <1>6 DEF q
  <2>2. r.activeView => Past(r, r.view)
    BY DEF Past
  <2> QED  BY <1>1, <1>2, <2>1, <2>2, EchoesReflexive, NothingFits, RepeatsKeeps
<1>7. CASE Taken(e) /\ q # r
  <2>1. Run(q, {e})
    BY <1>3, <1>7 DEF q
  <2>2. Fitting(M)
    BY <1>0, <1>2, <1>5, <1>7, NewViewFits
  <2> HIDE DEF M
  <2>3. Acts(i, M) /\ \A k \in net' : k.msg.type = "NewView" => k \in net
    BY <1>0, <1>1, <1>2, <1>4, <1>5, <1>7, <2>1, RunRepeats
  <2>4. MainKnows'
    BY <1>0, <1>1, <1>2, <2>3, MainKnowsStays
  <2> QED  BY <1>0, <1>1, <2>2, <2>3, <2>4, SlotInvStays
<1> QED  BY <1>6, <1>7

LEMMA ReceiveViewChangeSlots ==
  ASSUME NewViewsArrive, ViewsInv, SlotInv, TypeOK', ReplicasStep,
         NEW e \in net, ReceiveViewChange(e)
  PROVE  SlotInv'
<1> DEFINE i == e.to
           r == replica[i]
           m == e.msg
<1>0. TypeOK
  BY DEF ViewsInv, Inv
<1>1. /\ i \in Correct /\ i \in Replica /\ e.from \in Replica /\ r \in ReplicaState /\ r.id = i
      /\ r.view \in Nat /\ r.activeView \in BOOLEAN
  BY <1>0, ReceiverIsCorrect
<1>2. r.outbox = {} /\ OneEach(r)
  BY <1>1 DEF ViewsInv, Inv, TypeOK, Truth, OneReceipt
<1>3. m \in ViewChange /\ m.view \in Nat /\ UNCHANGED main
  BY <1>0, MessageTypes, SlotTypes DEF ReceiveViewChange
<1>4. PICK lost \in Losses({"ViewChange", "NewView", "PrePrepare"}) :
        \E q \in IF Taken(e) THEN ProcessViewChange(r, e.from, m, lost) ELSE {r} : Run(q, {e})
  BY DEF ReceiveViewChange
<1>5. <<"NewView", 0>> \notin lost
  BY DEF Losses, NewViewsArrive
<1>6. CASE ~Taken(e)
  <2>1. Run(r, {e})
    BY <1>4, <1>6
  <2>2. r.activeView => Past(r, r.view)
    BY DEF Past
  <2> QED  BY <1>1, <1>3, <2>1, <2>2, EchoesReflexive, NothingFits, RepeatsKeeps
<1>7. CASE Taken(e)
  <2>1. PICK q \in ProcessViewChange(r, e.from, m, lost) : Run(q, {e})
    BY <1>4, <1>7
  <2>2. q \in ReplicaState
    BY <1>1, <1>3, <2>1, ProcessViewChangeStep DEF ViewStep
  <2>3. \/ /\ Echoes(r, q, {})
           /\ \/ q.view = r.view /\ q.activeView = r.activeView
              \/ q.view > r.view /\ ~q.activeView
        \/ /\ m.view > 0 /\ Primary(m.view) = r.id
           /\ m.view > r.view \/ (m.view = r.view /\ ~r.activeView)
           /\ \E pps \in Seq(PrePrepare) : Opens(r, q, m.view, pps)
    <3> HIDE DEF r, m
    <3> QED  BY <1>1, <1>2, <1>3, <1>5, <2>1, ProcessViewChangeOpens
  <2>4. CASE /\ Echoes(r, q, {})
             /\ \/ q.view = r.view /\ q.activeView = r.activeView
                \/ q.view > r.view /\ ~q.activeView
    <3>1. q.activeView => Past(r, q.view)
      BY <2>4 DEF Past
    <3> QED  BY <1>1, <1>3, <2>1, <2>2, <2>4, <3>1, NothingFits, RepeatsKeeps
  <2>5. CASE /\ m.view > 0 /\ Primary(m.view) = r.id
             /\ m.view > r.view \/ (m.view = r.view /\ ~r.activeView)
             /\ \E pps \in Seq(PrePrepare) : Opens(r, q, m.view, pps)
    <3>1. ~Past(r, m.view)
      BY <1>1, <1>3, <2>5 DEF Past
    <3> QED  BY <1>1, <1>3, <2>1, <2>2, <2>5, <3>1, OpensKeeps
  <2> QED  BY <2>3, <2>4, <2>5
<1> QED  BY <1>6, <1>7

LEMMA TimerExpiresSlots ==
  ASSUME ViewsInv, SlotInv, TypeOK', ReplicasStep, NEW i \in Replica, TimerExpires(i)
  PROVE  SlotInv'
<1> DEFINE r == replica[i]
           p == replica'[i]
<1>1. TypeOK /\ MainAhead /\ MainKnows /\ r \in ReplicaState /\ r.sequence \in Nat
  BY DEF ViewsInv, Inv, SlotInv, Known, MainKnows, TypeOK, ReplicaState
<1>2. /\ p.view = r.view /\ p.activeView = r.activeView /\ p.sequence = r.sequence
      /\ p.preprepares = r.preprepares /\ p.prepares = r.prepares /\ p.commits = r.commits
      /\ p.requests = r.requests
      /\ \A j \in Replica \ {i} : replica'[j] = replica[j]
      /\ net' = net /\ UNCHANGED main
  BY <1>1 DEF TimerExpires, TypeOK, ReplicaState
<1>3. p.activeView => Past(r, p.view)
  BY <1>2 DEF Past
<1>4. Acts(i, {})
  BY <1>1, <1>2, <1>3 DEF Acts
<1> QED  BY <1>1, <1>2, <1>4, NothingFits, MainKnowsStays, SlotInvStays

LEMMA TimerCallbackSlots ==
  ASSUME ViewsInv, SlotInv, TypeOK', ReplicasStep, NEW i \in Replica, NEW v \in 1 .. MaxView,
         TimerCallback(i, v)
  PROVE  SlotInv'
<1> DEFINE r == replica[i]
           taken == [r EXCEPT !.callbacks = @ \ {v}]
<1>1. r \in ReplicaState /\ v \in Nat /\ UNCHANGED main
  BY BoundAssumption DEF ViewsInv, Inv, TypeOK, TimerCallback
<1>2. PICK lost : Run(StartViewChange(taken, v, lost), {})
  BY DEF TimerCallback
<1>3. /\ taken \in ReplicaState /\ taken.view = r.view
      /\ taken.activeView = r.activeView /\ Echoes(r, taken, {})
  BY <1>1 DEF ReplicaState, Echoes, Repeats
<1> HIDE DEF taken
<1> DEFINE q == StartViewChange(taken, v, lost)
<1>4. q = taken \/ Leaves(taken, q)
  BY <1>1, <1>3, StartViewChangeLeaves
<1>5. Echoes(r, q, {})
  BY <1>1, <1>3, StartViewChangeEchoes, EchoesTransitive
<1> HIDE DEF q
<1>6. q \in ReplicaState /\ (q.activeView => Past(r, q.view))
  BY <1>3, <1>4 DEF Leaves, Past
<1> QED  BY <1>1, <1>2, <1>5, <1>6, NothingFits, RepeatsKeeps DEF q

\* At a backup main says nothing.
LEMMA MainLooksSlots ==
  ASSUME ViewsInv, SlotInv, TypeOK', ReplicasStep, NEW i \in Replica, MainLooks(i)
  PROVE  SlotInv'
<1>1. TypeOK
  BY DEF ViewsInv, Inv
<1>2. replica' = replica /\ net' = net
  BY <1>1, MainLooking
<1>3. MainKnows'
  BY <1>1, MainLooksStep DEF MainKnows
<1>4. \A j \in Replica : replica[j].sequence \in Nat
  BY <1>1 DEF TypeOK, ReplicaState
<1>5. Acts(i, {})
  BY <1>2, <1>4 DEF Acts, Past
<1> QED  BY <1>1, <1>2, <1>3, <1>5, NothingFits, SlotInvStays

LEMMA MainTouchesSlots ==
  ASSUME ViewsInv, SlotInv, TypeOK', ReplicasStep, NEW i \in Replica, MainTouches(i)
  PROVE  SlotInv'
<1> DEFINE r == replica[i]
<1>1. TypeOK /\ r \in ReplicaState
  BY DEF ViewsInv, Inv, TypeOK
<1>2. PICK q \in ReplicaState : Touched(r, q, i) /\ Run(q, {})
  BY <1>1, MainTouching
<1>3. main'.call.step # "broadcast"
  BY <1>1, MainTouching
<1> HIDE DEF r
<1>4. Echoes(r, q, {}) /\ (q.activeView => Past(r, q.view))
  BY <1>1, <1>2, TouchedFields DEF Echoes, Repeats, Past
<1> QED  BY <1>2, <1>3, <1>4, NothingFits, RepeatsKeeps DEF r

\* Main at a primary sends a pre-prepare with the next number.
LEMMA MainProposesSlots ==
  ASSUME ViewsInv, SlotInv, TypeOK', ReplicasStep, NEW i \in Replica, MainProposes(i)
  PROVE  SlotInv'
<1> DEFINE r == replica[i]
           known == [r EXCEPT !.requests = @ \cup {i}]
           noted == Equivocate(known)
           m == [type |-> "PrePrepare", view |-> noted.view, seq |-> noted.sequence + 1,
                 digest |-> i]
           sent(lost) == SendPrePrepares(noted, <<i>>, lost)
           q(lost) == IF i \in r.pending THEN r ELSE sent(lost)
           broadcast == [main EXCEPT !.call = [step |-> "broadcast", msg |-> m]]
<1>0. TypeOK
  BY DEF ViewsInv, Inv
<1>1. r \in ReplicaState /\ r.id = i /\ r.outbox = {} /\ i \in Digest /\ r.sequence \in Nat
  BY <1>0 DEF TypeOK, Digest, ReplicaState
<1>2. PICK lost : /\ Run(q(lost), {})
                  /\ MainReturns \/ (main' = broadcast /\ ~(i \in r.pending))
  BY Zenon DEF MainProposes
<1>3. i = main.next
  BY DEF MainProposes, MainEnters
<1> HIDE DEF r
<1>4. /\ known \in ReplicaState /\ known.id = i /\ known.view = r.view
      /\ known.activeView = r.activeView /\ known.preprepares = r.preprepares
      /\ known.prepares = r.prepares /\ known.commits = r.commits
      /\ known.sequence = r.sequence /\ known.outbox = {} /\ r.requests \subseteq known.requests
  BY <1>1 DEF ReplicaState
<1> HIDE DEF known
<1>5. /\ noted \in ReplicaState /\ noted.id = i
      /\ i \in Correct => noted.view = r.view /\ noted.activeView = r.activeView
      /\ noted.preprepares = r.preprepares
      /\ noted.prepares = r.prepares /\ noted.commits = r.commits
      /\ noted.sequence = r.sequence /\ noted.outbox = {} /\ r.requests \subseteq noted.requests
  <2>1. CASE i \in Byzantine
    <3> DEFINE n == known.view + 1
    <3>1. noted = [known EXCEPT !.view = n] /\ n \in Nat
      BY <1>4, <2>1 DEF Equivocate, ReplicaState
    <3> HIDE DEF noted, n
    <3>2. noted \in ReplicaState
      BY <1>4, <3>1 DEF ReplicaState
    <3>3. /\ noted.id = known.id /\ noted.preprepares = known.preprepares
          /\ noted.prepares = known.prepares /\ noted.commits = known.commits
          /\ noted.sequence = known.sequence /\ noted.outbox = known.outbox
          /\ noted.requests = known.requests
      BY <1>4, <3>1 DEF ReplicaState
    <3> QED  BY <1>4, <2>1, <3>2, <3>3 DEF Correct
  <2>2. CASE i \notin Byzantine
    <3>1. noted = known
      BY <1>4, <2>2 DEF Equivocate
    <3> HIDE DEF noted
    <3> QED  BY <1>4, <3>1
  <2> QED  BY <2>1, <2>2
<1> HIDE DEF noted
<1>6. <<i>> \in Seq(Digest) /\ Range(<<i>>) = {i}
  BY <1>1 DEF Range
<1>7. Keeps(noted, sent(lost))
  BY <1>5, <1>6, SendPrePreparesKeeps
<1>8. /\ Proposes(noted, sent(lost)) /\ sent(lost).preprepares = noted.preprepares
      /\ Range(<<i>>) \subseteq sent(lost).requests
  BY <1>5, <1>6, SendProposes
<1> HIDE DEF sent
<1>9. \/ q(lost) = r
      \/ /\ q(lost) \in ReplicaState /\ q(lost).id = i
         /\ i \in Correct => q(lost).view = r.view /\ q(lost).activeView = r.activeView
         /\ q(lost).preprepares = r.preprepares
         /\ q(lost).prepares = r.prepares /\ q(lost).commits = r.commits
         /\ r.sequence <= q(lost).sequence /\ r.requests \subseteq q(lost).requests
         /\ \A o \in q(lost).outbox :
               /\ o.msg.type = "PrePrepare" /\ o.msg.digest \in q(lost).requests
               /\ r.sequence < o.msg.seq /\ o.msg.seq <= q(lost).sequence
         /\ \A o, k \in q(lost).outbox : o.msg.seq = k.msg.seq => o.msg.digest = k.msg.digest
  <2>1. CASE i \in r.pending
    BY <2>1
  <2>2. CASE i \notin r.pending
    BY <1>5, <1>7, <1>8, <2>2 DEF Keeps, Proposes
  <2> QED  BY <2>1, <2>2
<1>10. i \notin r.pending => i \in q(lost).requests
  BY <1>6, <1>8
<1>11. m.digest = i
  OBVIOUS
<1> HIDE DEF q, m
<1>12. /\ q(lost) \in ReplicaState /\ q(lost).id = i
       /\ i \in Correct => q(lost).view = r.view /\ q(lost).activeView = r.activeView
       /\ q(lost).preprepares = r.preprepares
       /\ q(lost).prepares = r.prepares /\ q(lost).commits = r.commits
       /\ r.sequence <= q(lost).sequence /\ r.requests \subseteq q(lost).requests
       /\ \A o \in q(lost).outbox :
             /\ o.msg.type = "PrePrepare" /\ o.msg.digest \in q(lost).requests
             /\ r.sequence < o.msg.seq /\ o.msg.seq <= q(lost).sequence
       /\ \A o, k \in q(lost).outbox : o.msg.seq = k.msg.seq => o.msg.digest = k.msg.digest
  BY <1>1, <1>9
<1> DEFINE p == replica'[i]
<1>13. /\ \A j \in Replica \ {i} : replica'[j] = replica[j]
       /\ p.view = q(lost).view /\ p.activeView = q(lost).activeView
       /\ p.preprepares = q(lost).preprepares /\ p.prepares = q(lost).prepares
       /\ p.commits = q(lost).commits /\ p.sequence = q(lost).sequence
       /\ p.requests = q(lost).requests
       /\ \A e \in net' : e \in net \/ /\ e.from = i /\ e.to \in Correct \ {i}
                                       /\ \E o \in q(lost).outbox : e.msg = o.msg
  BY <1>0, <1>2, <1>12, RunSays
<1>14. \A e \in net' : e \in net \/
         /\ e.from = i /\ e.to \in Correct \ {i}
         /\ e.msg.type = "PrePrepare" /\ e.msg.digest \in q(lost).requests
         /\ r.sequence < e.msg.seq /\ e.msg.seq <= q(lost).sequence
  BY <1>12, <1>13
<1>15. \A e, k \in net' : e \notin net /\ k \notin net /\ e.msg.seq = k.msg.seq
                            => e.msg.digest = k.msg.digest
  BY <1>12, <1>13
<1>16. Acts(i, {})
  <2>1. i \in Correct /\ p.activeView => Past(r, p.view)
    BY <1>12, <1>13 DEF Past
  <2> HIDE DEF p
  <2>2. \A e \in net' : e \in net \/
         /\ e.from = i /\ e.to \in Correct \ {i}
         /\ e.msg.type \notin {"Prepare", "Commit"}
         /\ e.msg.digest \in p.requests
         /\ r.sequence < e.msg.seq /\ e.msg.seq <= p.sequence
    BY <1>13, <1>14
  <2>3. /\ p.preprepares = r.preprepares /\ p.prepares = r.prepares /\ p.commits = r.commits
        /\ r.sequence <= p.sequence /\ r.requests \subseteq p.requests
    BY <1>12, <1>13
  <2> QED  BY <1>13, <1>15, <2>1, <2>2, <2>3 DEF Acts, p, r
<1>17. MainKnows'
  <2>1. CASE MainReturns
    BY <1>0, <2>1, MainReturnsType DEF MainKnows
  <2>2. CASE main' = broadcast /\ ~(i \in r.pending)
    <3>1. main'.next = i /\ main'.call.msg = m
      BY <1>0, <1>3, <2>2 DEF TypeOK
    <3>2. i \in p.requests
      BY <1>10, <1>13, <2>2
    <3> QED  BY <1>11, <3>1, <3>2 DEF MainKnows
  <2> QED  BY <1>2, <2>1, <2>2
<1>18. \A e \in net' : e.msg.type = "NewView" => e \in net
  BY <1>14
<1> QED  BY <1>0, <1>16, <1>17, <1>18, NothingFits, SlotInvStays

\* Main stores a pre-prepare for a view that its replica leads.
LEMMA MainStoresPrePrepareSlots ==
  ASSUME ViewsInv, SlotInv, TypeOK', ReplicasStep, NEW i \in Replica, MainStoresPrePrepare(i)
  PROVE  SlotInv'
<1> DEFINE r == replica[i]
           m == main.call.msg
           stored == {p \in r.preprepares : \A k \in {m} : ~SameSlot(p, k)} \cup {m}
           q == StorePrePrepares(r, {m})
           p == replica'[i]
<1>1. /\ TypeOK /\ MainAhead /\ MainKnows /\ r \in ReplicaState /\ r.id = i /\ r.outbox = {}
      /\ r.sequence \in Nat
  BY DEF ViewsInv, Inv, SlotInv, Known, MainKnows, TypeOK, ReplicaState
<1>2. i = main.next /\ main.call.step = "broadcast" /\ Run(q, {}) /\ MainReturns
  BY DEF MainStoresPrePrepare
<1>3. m \in PrePrepare /\ m.digest \in r.requests /\ (i \in Correct => Primary(m.view) = i)
  BY <1>1, <1>2 DEF MainAhead, MainKnows, TypeOK, Calling
<1>4. q = [r EXCEPT !.preprepares = stored]
  BY DEF StorePrePrepares
<1>5. /\ stored \in SUBSET PrePrepare /\ \A k \in stored : k \in r.preprepares \/ k = m
      /\ \A k \in r.preprepares : k \in stored \/ k.view = m.view
  BY <1>1, <1>3 DEF ReplicaState, SameSlot
<1> HIDE DEF r, m, q, stored
<1>6. /\ q \in ReplicaState /\ q.id = i /\ q.view = r.view /\ q.activeView = r.activeView
      /\ q.preprepares = stored /\ q.prepares = r.prepares /\ q.commits = r.commits
      /\ q.sequence = r.sequence /\ q.requests = r.requests /\ q.outbox = {}
  BY <1>1, <1>4, <1>5 DEF ReplicaState
<1>7. /\ \A j \in Replica \ {i} : replica'[j] = replica[j]
      /\ p.view = q.view /\ p.activeView = q.activeView
      /\ p.preprepares = q.preprepares /\ p.prepares = q.prepares
      /\ p.commits = q.commits /\ p.sequence = q.sequence /\ p.requests = q.requests
  BY <1>1, <1>2, <1>6, RunSays
<1>8. \A e \in net' : e \in net
  BY <1>1, <1>2, <1>6, RunSays
<1>9. p.activeView => Past(r, p.view)
  BY <1>6, <1>7 DEF Past
<1> HIDE DEF p
<1>10. Acts(i, {})
  BY <1>1, <1>3, <1>5, <1>6, <1>7, <1>8, <1>9 DEF Acts, r, p
<1>11. MainKnows'
  BY <1>1, <1>2, MainReturnsType DEF MainKnows
<1> QED  BY <1>1, <1>8, <1>10, <1>11, NothingFits, SlotInvStays

-----------------------------------------------------------------------------
(* The theorems. *)

AgreementInv == ViewsInv /\ SlotInv

\* Nothing has been said initially ...
LEMMA SlotsInitially == Init => AgreementInv
<1> SUFFICES ASSUME Init PROVE AgreementInv
  OBVIOUS
<1>1. \A i \in Replica : /\ replica[i].preprepares = {} /\ replica[i].prepares = {}
                         /\ replica[i].commits = {} /\ replica[i].view = 0
  BY DEF Init, NewReplica
<1>2. net = {} /\ main.call.step # "broadcast" /\ \A i \in Correct : i \in Replica
  BY DEF Init, Outside, Correct
<1>3. \A v, s \in Nat : \A d \in Digest : ~Claimed(v, s, d)
  BY <1>1, <1>2 DEF Claimed, Holds
<1>4. ClaimsFit
  BY <1>3 DEF ClaimsFit
<1>5. ToOthers /\ Numbered /\ NewViewsStarted /\ BackupsFollow /\ Known
  BY <1>1, <1>2 DEF ToOthers, Numbered, NewViewsStarted, BackupsFollow, Known
<1> QED  BY <1>4, <1>5, ViewsInitially DEF AgreementInv, SlotInv

\* ... and every step keeps what is said together.
LEMMA SlotsInductive ==
  ASSUME NewViewsArrive
  PROVE  AgreementInv /\ [Next]_vars => AgreementInv'
<1> SUFFICES ASSUME AgreementInv, [Next]_vars PROVE AgreementInv'
  OBVIOUS
<1>1. ViewsInv /\ SlotInv /\ ViewsInv' /\ TypeOK'
  BY ViewsInductive DEF AgreementInv, ViewsInv, Inv
<1>2. CASE UNCHANGED vars
  <2>1. replica' = replica /\ net' = net /\ main' = main
    BY <1>2 DEF vars
  <2>2. TypeOK /\ ReplicasStep
    BY <1>1, <2>1, KeepsReflexive, KeepsStep DEF ViewsInv, Inv, TypeOK, ReplicasStep
  <2>3. Acts(0, {})
    <3>1. \A j \in Replica : replica[j].sequence \in Nat
      BY <2>2 DEF TypeOK, ReplicaState
    <3>2. 0 \in Replica
      BY ClusterAssumption DEF Replica, MinimumReplicaCount
    <3> QED  BY <2>1, <3>1, <3>2 DEF Acts, Past
  <2>4. MainKnows /\ MainKnows'
    BY <1>1, <2>1 DEF SlotInv, Known, MainKnows
  <2>5. 0 \in Replica
    BY ClusterAssumption DEF Replica, MinimumReplicaCount
  <2>6. SlotInv'
    BY <1>1, <2>1, <2>2, <2>3, <2>4, <2>5, NothingFits, SlotInvStays
  <2> QED  BY <1>1, <2>6 DEF AgreementInv
<1>3. CASE Next
  <2>1. ReplicasStep
    BY <1>1, <1>3, NextStep DEF ViewsInv
  <2>2. ASSUME NEW e \in net, Receive(e)
        PROVE  SlotInv'
    BY <1>1, <2>1, <2>2, ReceiveNormalSlots, ReceiveViewChangeSlots, ReceiveNewViewSlots
       DEF Receive
  <2>3. ASSUME NEW i \in Replica, TimerExpires(i) PROVE SlotInv'
    BY <1>1, <2>1, <2>3, TimerExpiresSlots
  <2>4. ASSUME NEW i \in Replica, NEW v \in 1 .. MaxView, TimerCallback(i, v) PROVE SlotInv'
    BY <1>1, <2>1, <2>4, TimerCallbackSlots
  <2>5. ASSUME NEW i \in Replica, MainLooks(i) PROVE SlotInv'
    BY <1>1, <2>1, <2>5, MainLooksSlots
  <2>6. ASSUME NEW i \in Replica, MainTouches(i) PROVE SlotInv'
    BY <1>1, <2>1, <2>6, MainTouchesSlots
  <2>7. ASSUME NEW i \in Replica, MainProposes(i) PROVE SlotInv'
    BY <1>1, <2>1, <2>7, MainProposesSlots
  <2>8. ASSUME NEW i \in Replica, MainStoresPrePrepare(i) PROVE SlotInv'
    BY <1>1, <2>1, <2>8, MainStoresPrePrepareSlots
  <2>9. SlotInv'
    BY <1>3, <2>2, <2>3, <2>4, <2>5, <2>6, <2>7, <2>8, MainSteps, Zenon DEF Next, Timers
  <2> QED  BY <1>1, <2>9 DEF AgreementInv
<1> QED  BY <1>2, <1>3

\* The Commits that are seen are claims.
LEMMA CommitsAreClaims ==
  ASSUME AgreementInv
  PROVE  CommitAgreement
<1>1. TypeOK
  BY DEF AgreementInv, ViewsInv, Inv
<1>2. ASSUME NEW m \in CommitsSeen
      PROVE  /\ m.view \in Nat /\ m.seq \in Nat /\ m.digest \in Digest
             /\ Claimed(m.view, m.seq, m.digest)
  <2>1. CASE \E e \in net : e.msg.type = "Commit" /\ m = e.msg
    BY <1>1, <2>1, SlotTypes DEF Claimed, Carries, IsFor, NormalCase
  <2>2. CASE \E i \in Correct : \E x \in replica[i].commits : m = x.msg
    BY <1>1, <2>2, SlotTypes DEF Claimed, Holds, IsFor, Correct
  <2> QED  BY <1>2, <2>1, <2>2 DEF CommitsSeen
<1>3. \A m \in CommitsSeen : Fits(m.view, m.seq, m.digest)
  BY <1>2 DEF AgreementInv, SlotInv, ClaimsFit
<1> QED  BY <1>2, <1>3 DEF CommitAgreement, SameSlot, Fits

(***************************************************************************)
(* In every cluster in which the broadcast of a NewView never fails, no    *)
(* two Commits of one view and sequence number name different requests: in *)
(* whatever view, and whatever else is lost, late or proposed twice.       *)
(***************************************************************************)
THEOREM CommitsAgree ==
  ASSUME NewViewsArrive
  PROVE  Spec => []CommitAgreement
<1>1. Init => AgreementInv
  BY SlotsInitially
<1>2. AgreementInv /\ [Next]_vars => AgreementInv'
  BY SlotsInductive
<1>3. AgreementInv => CommitAgreement
  BY CommitsAreClaims
<1> QED  BY <1>1, <1>2, <1>3, PTL DEF Spec

\* What a backup has accepted is a claim.
LEMMA AcceptedAreClaims ==
  ASSUME AgreementInv
  PROVE  PrePreparesAgree
<1>1. TypeOK
  BY DEF AgreementInv, ViewsInv, Inv
<1>2. ASSUME NEW i \in Correct, NEW p \in replica[i].preprepares, Primary(p.view) # i
      PROVE  /\ p.view \in Nat /\ p.seq \in Nat /\ p.digest \in Digest
             /\ Claimed(p.view, p.seq, p.digest)
  <2>1. i \in Replica /\ replica[i].id = i
    BY <1>1 DEF TypeOK, Correct
  <2>2. p \in PrePrepare
    BY <1>1, <2>1 DEF TypeOK, ReplicaState
  <2>3. Holds(replica[i], p.view, p.seq, p.digest)
    BY <1>2, <2>1 DEF Holds, IsFor
  <2> QED  BY <2>2, <2>3 DEF Claimed, PrePrepare
<1>3. ASSUME NEW i \in Correct, NEW j \in Correct,
             NEW p \in replica[i].preprepares, NEW q \in replica[j].preprepares,
             SameSlot(p, q), Primary(p.view) \notin {i, j}
      PROVE  p.digest = q.digest
  <2>1. q.view = p.view /\ q.seq = p.seq
    BY <1>3 DEF SameSlot
  <2>2. Fits(p.view, p.seq, p.digest)
    BY <1>2, <1>3 DEF AgreementInv, SlotInv, ClaimsFit
  <2>3. Claimed(p.view, p.seq, q.digest) /\ q.digest \in Digest
    BY <1>2, <1>3, <2>1
  <2> QED  BY <2>2, <2>3 DEF Fits
<1> QED  BY <1>3 DEF PrePreparesAgree

(***************************************************************************)
(* In every such cluster, no two backups have accepted different requests  *)
(* in one slot: whatever a Byzantine replica proposes for the view after   *)
(* its own, and whatever a new primary numbers over its NewView.           *)
(***************************************************************************)
THEOREM BackupsAgree ==
  ASSUME NewViewsArrive
  PROVE  Spec => []PrePreparesAgree
<1>1. Init => AgreementInv
  BY SlotsInitially
<1>2. AgreementInv /\ [Next]_vars => AgreementInv'
  BY SlotsInductive
<1>3. AgreementInv => PrePreparesAgree
  BY AcceptedAreClaims
<1> QED  BY <1>1, <1>2, <1>3, PTL DEF Spec
=============================================================================
