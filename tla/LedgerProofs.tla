---------------------------- MODULE LedgerProofs ----------------------------
(***************************************************************************)
(* Proofs about the chain files across one view change, for every cluster  *)
(* in which two quorums meet and the broadcast of a NewView never returns  *)
(* an error: no two correct replicas write different blocks at the same    *)
(* height.                                                                 *)
(*                                                                         *)
(* Two blocks are from the same view, or one of them is carried over from  *)
(* the first view to the second.  Within a view a replica writes what it   *)
(* holds a Commit for, and the Commits of a view agree (AgreementProofs);  *)
(* between the two, CarryProofs says that what is executed is carried.     *)
(*                                                                         *)
(* From this, and from where requests come from, it follows that the       *)
(* cluster implements the abstract specification Consensus.                *)
(*                                                                         *)
(* Over any number of view changes, what is executed is certified at a     *)
(* quorum of correct replicas: it writes with a quorum of Commits, and a   *)
(* correct replica that has sent a Commit keeps its certificate until it   *)
(* leaves the view, unless main overwrites it.                             *)
(***************************************************************************)
EXTENDS CarryProofs

\* Replica r has executed its first sequence number only, in views that it has
\* come to, and in its own view with a Commit that names the request.
Voted(r) ==
    /\ r.lastExecuted = 0
    /\ \A k \in DOMAIN r.ledger : LET b == r.ledger[k] IN
          /\ b.seq = 1 /\ b.view <= r.view
          /\ b.view = r.view => \E x \in r.commits : IsFor(x.msg, b.view, b.seq, b.digest)

AllVoted == \A i \in Correct : Voted(replica[i])

\* The blocks of a replica name views.
LEMMA BlockTypes ==
  ASSUME NEW r \in ReplicaState, NEW k \in DOMAIN r.ledger
  PROVE  r.ledger[k] \in Block /\ r.ledger[k].view \in Nat
<1>1. r.ledger \in Seq(Block)
  BY DEF ReplicaState
<1>2. r.ledger[k] \in Block
  BY <1>1
<1> QED  BY <1>2 DEF Block

\* A replica that writes nothing keeps its Commits as long as it stays in its view;
\* in a view that it has left, it has written nothing.
LEMMA LaterVoted ==
  ASSUME NEW r \in ReplicaState, Clean(r), Voted(r), NEW q \in ReplicaState,
         q.ledger = r.ledger, q.lastExecuted = r.lastExecuted, q.view >= r.view,
         q.view = r.view => r.commits \subseteq q.commits \/ ~r.activeView
  PROVE  Voted(q)
<1>1. q.view \in Nat /\ r.view \in Nat
  BY NamedViews
<1>2. ASSUME NEW k \in DOMAIN r.ledger
      PROVE  LET b == r.ledger[k] IN
             /\ b.seq = 1 /\ b.view <= q.view
             /\ b.view = q.view => \E x \in q.commits : IsFor(x.msg, b.view, b.seq, b.digest)
  <2> DEFINE b == r.ledger[k]
  <2>1. /\ b.seq = 1 /\ b.view <= r.view /\ b.view \in Nat
        /\ b.view = r.view => \E x \in r.commits : IsFor(x.msg, b.view, b.seq, b.digest)
    BY BlockTypes DEF Voted
  <2> HIDE DEF b
  <2>2. b.view <= q.view
    BY <1>1, <2>1
  <2>3. ASSUME b.view = q.view PROVE \E x \in q.commits : IsFor(x.msg, b.view, b.seq, b.digest)
    <3>1. q.view = r.view /\ b.view = r.view
      BY <1>1, <2>1, <2>3
    <3>2. PICK x \in r.commits : IsFor(x.msg, b.view, b.seq, b.digest)
      BY <2>1, <3>1
    <3>3. r.activeView
      <4>1. x.msg.view = r.view
        BY <3>1, <3>2 DEF IsFor
      <4> QED  BY <1>1, <4>1 DEF Clean
    <3> QED  BY <3>1, <3>2, <3>3
  <2> QED  BY <2>1, <2>2, <2>3 DEF b
<1> QED  BY <1>2 DEF Voted

\* A handler of the normal case writes a block when it holds a quorum of Commits
\* for the slot; they name the request of the message, since the Commits that the
\* replica had for the slot did.
LEMMA HandlerVoted ==
  ASSUME NEW r \in ReplicaState, Voted(r), NEW m, NEW H, NEW q,
         Attests(r, q, m.view, m.seq, m.digest, H), Echoes(r, q, {m}),
         q = r \/ m.view = r.view,
         q = r \/ \A x \in r.commits : SameSlot(x.msg, m) => x.msg.digest = m.digest
  PROVE  Voted(q)
<1> DEFINE b == [view |-> m.view, seq |-> m.seq, digest |-> m.digest]
<1>1. /\ q \in ReplicaState /\ q.view = r.view /\ q.lastExecuted = r.lastExecuted
      /\ r.commits \subseteq q.commits /\ r.lastExecuted = 0
  BY DEF Attests, Adds, Voted
<1>2. CASE q.ledger = r.ledger
  BY <1>1, <1>2 DEF Voted
<1>3. CASE q.ledger # r.ledger
  <2>1. /\ m.seq = 1 /\ Committed(q, m.view, m.seq, m.digest)
        /\ q.ledger = Append(r.ledger, b) /\ q # r
    BY <1>1, <1>3 DEF Attests
  <2>2. \E x \in q.commits : IsFor(x.msg, m.view, m.seq, m.digest)
    <3> DEFINE T == CommitsOf(q, m.view, m.seq)
    <3>1. T # {}
      <4> SUFFICES ASSUME T = {} PROVE FALSE
        OBVIOUS
      <4>1. Cardinality(T) >= CommitQuorum
        BY <2>1 DEF Committed
      <4>2. Cardinality(T) = 0
        BY FS_EmptySet
      <4>3. CommitQuorum > 0
        BY ToleratesOne DEF CommitQuorum
      <4> HIDE DEF T
      <4> QED  BY <4>1, <4>2, <4>3, Quorums
    <3>2. PICK x \in T : TRUE
      BY <3>1
    <3>3. x \in q.commits /\ x.msg.view = m.view /\ x.msg.seq = m.seq
      BY DEF CommitsOf
    <3>4. CASE x \in r.commits
      BY <2>1, <3>3, <3>4 DEF SameSlot, IsFor
    <3>5. CASE Echo(x.msg, {m})
      BY <3>3, <3>5 DEF Echo, IsFor
    <3> QED  BY <3>3, <3>4, <3>5 DEF Echoes, Repeats
  <2>3. m.view = r.view /\ r.view \in Nat /\ r.ledger \in Seq(Block)
    BY <2>1, NamedViews DEF ReplicaState
  <2>4. b.view = m.view /\ b.seq = m.seq /\ b.digest = m.digest
    OBVIOUS
  <2> HIDE DEF b
  <2>5. \A k \in DOMAIN q.ledger :
           q.ledger[k] = b \/ (k \in DOMAIN r.ledger /\ q.ledger[k] = r.ledger[k])
    BY <2>1, <2>3
  <2>6. ASSUME NEW k \in DOMAIN q.ledger
        PROVE  LET c == q.ledger[k] IN
               /\ c.seq = 1 /\ c.view <= q.view
               /\ c.view = q.view => \E x \in q.commits : IsFor(x.msg, c.view, c.seq, c.digest)
    <3>1. CASE q.ledger[k] = b
      <4>1. b.view <= q.view
        BY <1>1, <2>3, <2>4
      <4> QED  BY <2>1, <2>2, <2>4, <3>1, <4>1
    <3>2. CASE k \in DOMAIN r.ledger /\ q.ledger[k] = r.ledger[k]
      BY <1>1, <3>2 DEF Voted
    <3> QED  BY <2>5, <3>1, <3>2
  <2> QED  BY <1>1, <2>6 DEF Voted
<1> QED  BY <1>2, <1>3

\* Running a method of a replica that has voted for what it has written.
LEMMA RunVoted ==
  ASSUME TypeOK, AllVoted, NEW i \in Replica, NEW q \in ReplicaState, q.id = i,
         NEW consumed, Run(q, consumed), i \in Correct => Voted(q)
  PROVE  AllVoted'
<1>1. \A j \in Replica : replica'[j] = IF j = i THEN Returned(q) ELSE replica[j]
  BY DEF Run, TypeOK
<1>2. Alike(q, Returned(q))
  BY ReturnedAlike
<1>3. i \in Correct => Voted(Returned(q))
  BY <1>2 DEF Voted, Alike
<1>4. ASSUME NEW j \in Correct PROVE Voted(replica'[j])
  <2>1. j \in Replica
    BY DEF Correct
  <2> QED  BY <1>1, <1>3, <2>1 DEF AllVoted
<1> QED  BY <1>4 DEF AllVoted

\* A method that writes nothing and forgets no Commit.
LEMMA AlikeVoted ==
  ASSUME TypeOK, AllVoted, NEW i \in Replica, NEW q \in ReplicaState, NEW consumed,
         Run(q, consumed), i \in Correct => Alike(replica[i], q), q.id = i
  PROVE  AllVoted'
<1>1. ASSUME i \in Correct PROVE Voted(q)
  BY <1>1 DEF AllVoted, Voted, Alike
<1> QED  BY <1>1, RunVoted

-----------------------------------------------------------------------------
(* Every action keeps it. *)

\* A handler of the normal case: what it counts has been claimed.
LEMMA ReceiveNormalVoted ==
  ASSUME AgreementInv, AllVoted, NEW e \in net,
         ReceivePrePrepare(e) \/ ReceivePrepare(e) \/ ReceiveCommit(e)
  PROVE  AllVoted'
<1> DEFINE i == e.to
           r == replica[i]
           m == e.msg
<1>1. TypeOK /\ SlotInv
  BY DEF AgreementInv, ViewsInv, Inv
<1>2. /\ i \in Correct /\ i \in Replica /\ r \in ReplicaState /\ r.id = i
      /\ r.activeView \in BOOLEAN
  BY <1>1, ReceiverIsCorrect
<1>3. Voted(r)
  BY <1>2 DEF AllVoted
<1>4. CASE Run(r, {e})
  BY <1>1, <1>2, <1>3, <1>4, RunVoted
<1>5. ASSUME NEW q, NEW H, Handles(e, q, H), Run(q, {e}) PROVE AllVoted'
  <2>1. /\ m.type \in NormalCase /\ r.activeView
        /\ Attests(r, q, m.view, m.seq, m.digest, H) /\ Echoes(r, q, {m})
        /\ q = r \/ m.view = r.view
        /\ \/ q = r \/ m.type # "PrePrepare"
           \/ /\ e.from = Primary(r.view) /\ \A p \in r.preprepares : ~SameSlot(p, m)
    BY <1>5 DEF Handles
  <2>2. q = r \/ Fitting({m})
    <3>1. CASE m.type = "PrePrepare"
      BY <1>1, <2>1, <3>1, ProposalFits
    <3>2. CASE m.type \in {"Prepare", "Commit"}
      BY <1>1, <3>2, ClaimFits
    <3> QED  BY <2>1, <3>1, <3>2 DEF NormalCase
  <2>3. ASSUME q # r, NEW x \in r.commits, SameSlot(x.msg, m) PROVE x.msg.digest = m.digest
    <3>1. Fits(m.view, m.seq, m.digest)
      BY <2>2, <2>3 DEF Fitting
    <3>2. x.msg.digest \in Digest /\ x.msg.view = m.view /\ x.msg.seq = m.seq
      BY <1>1, <1>2, <2>3, SlotTypes DEF SameSlot
    <3>3. Claimed(m.view, m.seq, x.msg.digest)
      BY <1>2, <2>3, <3>2 DEF Claimed, Holds, IsFor
    <3> QED  BY <3>1, <3>2, <3>3 DEF Fits
  <2>4. Voted(q)
    BY <1>2, <1>3, <2>1, <2>3, HandlerVoted
  <2>5. q \in ReplicaState /\ q.id = i
    BY <1>2, <2>1 DEF Attests, Adds
  <2> QED  BY <1>1, <1>2, <1>5, <2>4, <2>5, RunVoted
<1> QED  BY <1>1, <1>4, <1>5, ReceiveNormalHandles

\* A replica that turns, or that enters a view, writes nothing.
LEMMA LaterRunVoted ==
  ASSUME Inv, ReplicasStep, AllVoted, NEW i \in Replica, NEW q \in ReplicaState, q.id = i,
         NEW consumed, Run(q, consumed),
         q.ledger = replica[i].ledger, q.lastExecuted = replica[i].lastExecuted,
         q.view = replica[i].view => replica[i].commits \subseteq q.commits \/ ~replica[i].activeView
  PROVE  AllVoted'
<1>1. TypeOK /\ replica[i] \in ReplicaState
  BY DEF Inv, TypeOK
<1>2. replica'[i] = Returned(q)
  BY <1>1 DEF Run, TypeOK
<1>3. q.view >= replica[i].view
  BY <1>2, ReturnedAlike DEF ReplicasStep, ViewStep, Alike
<1>4. i \in Correct => Voted(q)
  BY <1>1, <1>3, LaterVoted DEF AllVoted, Inv, EntersViewClean
<1> QED  BY <1>1, <1>4, RunVoted

\* A replica that turns forgets no Commit.
LEMMA TurnedVoted ==
  ASSUME Inv, ReplicasStep, AllVoted, NEW i \in Replica, NEW H, NEW q, Turns(replica[i], q, H),
         NEW consumed, Run(q, consumed)
  PROVE  AllVoted'
<1>1. replica[i] \in ReplicaState /\ replica[i].id = i
  BY DEF Inv, TypeOK
<1>2. /\ q \in ReplicaState /\ q.id = i /\ q.ledger = replica[i].ledger
      /\ q.lastExecuted = replica[i].lastExecuted /\ replica[i].commits \subseteq q.commits
  BY <1>1 DEF Turns
<1> QED  BY <1>2, LaterRunVoted

\* The callback of a timer,
LEMMA TimerCallbackVoted ==
  ASSUME Inv, ReplicasStep, AllVoted, NEW i \in Replica, NEW v \in 1 .. MaxView,
         TimerCallback(i, v)
  PROVE  AllVoted'
<1>1. PICK q : Turns(replica[i], q, {}) /\ Run(q, {})
  BY TimerCallbackTurns DEF Inv
<1> QED  BY <1>1, TurnedVoted

\* ... a ViewChange, which may open a view that the replica has not been active in,
LEMMA ReceiveViewChangeVoted ==
  ASSUME NewViewsArrive, AgreementInv, ReplicasStep, AllVoted, NEW e \in net,
         ReceiveViewChange(e)
  PROVE  AllVoted'
<1> DEFINE i == e.to
           r == replica[i]
           m == e.msg
           H == {[from |-> e.from, msg |-> m]}
<1>0. TypeOK /\ Inv /\ SlotInv
  BY DEF AgreementInv, ViewsInv, Inv
<1>1. /\ i \in Correct /\ i \in Replica /\ e.from \in Replica
      /\ r \in ReplicaState /\ r.id = i /\ m \in ViewChange
  BY <1>0, MessageTypes, ReceiverIsCorrect DEF ReceiveViewChange
<1>2. OneEach(r)
  BY <1>1 DEF AgreementInv, ViewsInv, Truth, OneReceipt
<1>3. PICK lost \in Losses({"ViewChange", "NewView", "PrePrepare"}) :
        \E q \in IF Taken(e) THEN ProcessViewChange(r, e.from, m, lost) ELSE {r} : Run(q, {e})
  BY DEF ReceiveViewChange
<1>4. PICK q \in IF Taken(e) THEN ProcessViewChange(r, e.from, m, lost) ELSE {r} : Run(q, {e})
  BY <1>3
<1>5. q = r \/ q \in ProcessViewChange(r, e.from, m, lost)
  BY <1>4
<1>6. <<"NewView", 0>> \notin lost
  BY DEF Losses, NewViewsArrive
<1>7. [from |-> e.from, msg |-> m] \in H
  OBVIOUS
<1> HIDE DEF H
<1>8. ASSUME Turns(r, q, H) PROVE AllVoted'
  BY <1>0, <1>1, <1>4, <1>8, TurnedVoted
<1>9. ASSUME NEW j, Turns(r, j, H), m.view = r.view => j.view = m.view /\ ~j.activeView,
             q \in StartNewView(j, m.view, lost)
      PROVE  AllVoted'
  <2>1. /\ j \in ReplicaState /\ j.id = i /\ j.ledger = r.ledger
        /\ j.lastExecuted = r.lastExecuted
    BY <1>1, <1>9 DEF Turns
  <2>2. m.view \in Nat
    BY <1>1 DEF ViewChange
  <2>3. q \in ReplicaState /\ q.id = i /\ q.ledger = j.ledger /\ q.lastExecuted = j.lastExecuted
    BY <1>9, <2>1, <2>2, StartNewViewStarts DEF Starts
  <2>4. q.view = m.view
    BY <1>6, <1>9, <2>1, <2>2, StartNewViewOpens DEF Opens
  <2>5. m.view = r.view => ~r.activeView
    BY <1>1, <1>9, NamedViews DEF Turns
  <2> QED  BY <1>0, <1>1, <1>4, <2>1, <2>3, <2>4, <2>5, LaterRunVoted
<1>10. CASE q = r
  BY <1>1, <1>8, <1>10, TurnsReflexive
<1>11. CASE q \in ProcessViewChange(r, e.from, m, lost)
  <2>1. \/ Turns(r, q, H)
        \/ \E j : /\ Turns(r, j, H) /\ OneEach(j)
                  /\ j.view <= m.view /\ Primary(m.view) = r.id /\ ViewChangeReady(j, m.view)
                  /\ m.view = r.view \/ (m.view = r.view + 1 /\ r.activeView)
                       => j.view = m.view /\ ~j.activeView
                  /\ q \in StartNewView(j, m.view, lost)
    BY <1>1, <1>2, <1>7, <1>11, ProcessViewChangeTurns
  <2> QED  BY <1>8, <1>9, <2>1
<1> QED  BY <1>5, <1>10, <1>11

\* ... and a NewView, which an active replica does not take.
LEMMA ReceiveNewViewVoted ==
  ASSUME Inv, ReplicasStep, AllVoted, NEW e \in net, ReceiveNewView(e)
  PROVE  AllVoted'
<1> DEFINE i == e.to
           r == replica[i]
           m == e.msg
<1>0. TypeOK
  BY DEF Inv
<1>1. /\ i \in Replica /\ e.from \in Replica /\ r \in ReplicaState /\ r.id = i
      /\ m \in NewView /\ m.type = "NewView"
  BY <1>0, MessageTypes DEF ReceiveNewView, TypeOK
<1>2. PICK lost : Run(IF Taken(e) THEN ProcessNewView(r, e.from, m, lost) ELSE r, {e})
  BY DEF ReceiveNewView
<1>3. CASE ~Taken(e)
  <2>1. Run(r, {e})
    BY <1>2, <1>3
  <2> QED  BY <1>1, <2>1, LaterRunVoted
<1>4. CASE Taken(e)
  <2>1. ~r.activeView
    BY <1>1, <1>4 DEF Taken, IsMessageAllowed
  <2>2. PICK q : q = ProcessNewView(r, e.from, m, lost)
    OBVIOUS
  <2>3. Run(q, {e})
    BY <1>2, <1>4, <2>2
  <2>4. q.ledger = r.ledger /\ q.lastExecuted = r.lastExecuted
    BY <1>1, <2>2, ProcessNewViewKeeps
  <2>5. q \in ReplicaState /\ q.id = r.id
    BY <1>1, <2>2, ProcessNewViewStep DEF ViewStep
  <2> QED  BY <1>1, <2>1, <2>3, <2>4, <2>5, LaterRunVoted
<1> QED  BY <1>3, <1>4

\* A timer that expires,
LEMMA TimerExpiresVoted ==
  ASSUME TypeOK, AllVoted, NEW i \in Replica, TimerExpires(i)
  PROVE  AllVoted'
<1>1. \A j \in Replica : Alike(replica[j], replica'[j])
  BY DEF TimerExpires, Alike, TypeOK, ReplicaState
<1>2. ASSUME NEW j \in Correct PROVE Voted(replica'[j])
  <2>1. Alike(replica[j], replica'[j]) /\ Voted(replica[j])
    BY <1>1 DEF AllVoted, Correct
  <2> QED  BY <2>1 DEF Alike, Voted
<1> QED  BY <1>2 DEF AllVoted

\* ... main at a backup,
LEMMA MainTouchesVoted ==
  ASSUME TypeOK, AllVoted, NEW i \in Replica, MainTouches(i)
  PROVE  AllVoted'
<1>1. PICK q \in ReplicaState : Touched(replica[i], q, i) /\ Run(q, {})
  BY MainTouching
<1>2. replica[i] \in ReplicaState /\ replica[i].id = i
  BY DEF TypeOK
<1>3. Alike(replica[i], q) /\ q.id = i
  BY <1>1, <1>2, TouchedFields DEF Alike
<1> QED  BY <1>1, <1>3, AlikeVoted

\* ... and main at a primary, when it proposes
LEMMA MainProposesVoted ==
  ASSUME TypeOK, AllVoted, NEW i \in Replica, MainProposes(i)
  PROVE  AllVoted'
<1> DEFINE r == replica[i]
           known == [r EXCEPT !.requests = @ \cup {i}]
           noted == Equivocate(known)
           sent(lost) == SendPrePrepares(noted, <<i>>, lost)
           q(lost) == IF i \in r.pending THEN r ELSE sent(lost)
<1>1. r \in ReplicaState /\ r.id = i /\ i \in Digest /\ r.view \in Nat
  BY DEF TypeOK, Digest, ReplicaState
<1>2. PICK lost : Run(q(lost), {})
  BY Zenon DEF MainProposes
<1> HIDE DEF r
<1>3. known \in ReplicaState /\ Alike(r, known)
  BY <1>1 DEF ReplicaState, Alike
<1> HIDE DEF known
<1>4. noted \in ReplicaState /\ noted.id = i /\ (i \in Correct => noted = known)
  <2>1. CASE i \in Byzantine
    <3> DEFINE n == known.view + 1
    <3>1. noted = [known EXCEPT !.view = n] /\ n \in Nat
      BY <1>1, <1>3, <2>1 DEF Equivocate, ReplicaState, Alike
    <3> HIDE DEF noted, n
    <3>2. noted \in ReplicaState /\ noted.id = known.id
      BY <1>3, <3>1 DEF ReplicaState
    <3> QED  BY <1>1, <1>3, <2>1, <3>2 DEF Correct, Alike
  <2>2. CASE i \notin Byzantine
    <3>1. noted = known
      BY <1>1, <1>3, <2>2 DEF Equivocate, Alike
    <3> HIDE DEF noted
    <3> QED  BY <1>1, <1>3, <3>1 DEF Alike
  <2> QED  BY <2>1, <2>2
<1> HIDE DEF noted
<1>5. sent(lost) \in ReplicaState /\ Alike(noted, sent(lost))
  BY <1>1, <1>4, SendOne
<1> HIDE DEF sent
<1>6. /\ q(lost) \in ReplicaState /\ q(lost).id = i
      /\ i \in Correct => Alike(r, q(lost))
  <2>1. CASE i \in r.pending
    BY <1>1, <2>1 DEF Alike
  <2>2. CASE i \notin r.pending
    BY <1>1, <1>3, <1>4, <1>5, <2>2 DEF Alike
  <2> QED  BY <2>1, <2>2
<1> HIDE DEF q
<1> QED  BY <1>2, <1>6, AlikeVoted DEF r

\* ... and when it stores what it has proposed.
LEMMA MainStoresVoted ==
  ASSUME Inv, ReplicasStep, AllVoted, NEW i \in Replica, MainStoresPrePrepare(i)
  PROVE  AllVoted'
<1> DEFINE r == replica[i]
           q == StorePrePrepares(r, {main.call.msg})
           stored == {p \in r.preprepares : \A k \in {main.call.msg} : ~SameSlot(p, k)}
                       \cup {main.call.msg}
<1>1. r \in ReplicaState /\ r.id = i
  BY DEF Inv, TypeOK
<1>2. Run(q, {}) /\ main.call.msg \in PrePrepare
  BY DEF MainStoresPrePrepare, Inv, TypeOK, Calling
<1>3. q = [r EXCEPT !.preprepares = stored] /\ stored \in SUBSET PrePrepare
  BY <1>1, <1>2 DEF StorePrePrepares, ReplicaState
<1> HIDE DEF q, stored
<1>4. /\ q \in ReplicaState /\ q.id = i /\ q.ledger = r.ledger
      /\ q.lastExecuted = r.lastExecuted /\ q.commits = r.commits
  BY <1>1, <1>3 DEF ReplicaState
<1> QED  BY <1>1, <1>2, <1>4, LaterRunVoted

-----------------------------------------------------------------------------
(* The theorem. *)

\* The inductive invariant: what CarryProofs and AgreementProofs say, and that
\* replicas have voted for what they have written.
LedgerInv == AgreementInv /\ CarryInv /\ AllVoted

\* Initially nothing is written.
LEMMA LedgerInitially == Init => LedgerInv
<1> SUFFICES ASSUME Init PROVE AllVoted
  BY SlotsInitially, CarryInitially DEF LedgerInv
<1>1. \A i \in Replica : replica[i].lastExecuted = 0 /\ replica[i].ledger = <<>>
  BY DEF Init, NewReplica
<1>2. ASSUME NEW i \in Replica PROVE Voted(replica[i])
  BY <1>1 DEF Voted
<1> QED  BY <1>2 DEF AllVoted, Correct

\* Every step of the cluster keeps the votes for what is written.
LEMMA VotedStep ==
  ASSUME NewViewsArrive, AgreementInv, AllVoted, [Next]_vars
  PROVE  AllVoted'
<1>1. Inv /\ TypeOK
  BY DEF AgreementInv, ViewsInv, Inv
<1>2. CASE UNCHANGED vars
  BY <1>2 DEF vars, AllVoted
<1>3. CASE Next
  <2>1. ReplicasStep
    BY <1>1, <1>3, NextStep
  <2>2. ASSUME NEW e \in net, Receive(e) PROVE AllVoted'
    BY <1>1, <2>1, <2>2, ReceiveNormalVoted, ReceiveViewChangeVoted, ReceiveNewViewVoted
       DEF Receive
  <2>3. ASSUME Timers PROVE AllVoted'
    BY <1>1, <2>1, <2>3, TimerExpiresVoted, TimerCallbackVoted DEF Timers
  <2>4. ASSUME Main PROVE AllVoted'
    <3>1. PICK i \in Replica : \/ MainLooks(i) \/ MainTouches(i)
                               \/ MainProposes(i) \/ MainStoresPrePrepare(i)
      BY <2>4, MainSteps
    <3>2. CASE MainLooks(i)
      BY <1>1, <3>2, MainLooking DEF AllVoted
    <3> QED
      BY <1>1, <2>1, <3>1, <3>2, MainTouchesVoted, MainProposesVoted, MainStoresVoted
  <2> QED  BY <1>3, <2>2, <2>3, <2>4 DEF Next
<1> QED  BY <1>2, <1>3

\* LedgerInv is inductive when NewViews arrive.
LEMMA LedgerInductive ==
  ASSUME NewViewsArrive
  PROVE  LedgerInv /\ [Next]_vars => LedgerInv'
<1> SUFFICES ASSUME LedgerInv, [Next]_vars PROVE LedgerInv'
  OBVIOUS
<1>1. AgreementInv /\ ViewsInv /\ CarryInv /\ AllVoted
  BY DEF LedgerInv, AgreementInv
<1> QED  BY <1>1, SlotsInductive, CarryInductive, VotedStep DEF LedgerInv

\* Two blocks at one height, of replicas that have changed their view once at most.
LEMMA BlocksAgree ==
  ASSUME QuorumsMeet, LedgerInv, AtMostOneChange
  PROVE  LedgerAgreement
<1>1. PICK C \in SUBSET Correct : Carry(C)
  BY DEF LedgerInv, CarryInv
<1>2. TypeOK /\ SlotInv
  BY DEF LedgerInv, AgreementInv, ViewsInv, Inv
<1>3. ASSUME NEW i \in Correct, NEW k \in DOMAIN Ledger(i)
      PROVE  LET b == Ledger(i)[k] IN
             \/ b.view = 0 /\ b.digest = 0 /\ ~Forgotten(replica, C)
             \/ /\ b.view = 1 /\ b.digest \in Digest /\ Claimed(1, 1, b.digest)
                /\ ~Forgotten(replica, C) => b.digest = 0
  <2> DEFINE r == replica[i]
             b == r.ledger[k]
  <2>1. i \in Replica /\ r \in ReplicaState /\ r.view \in Nat /\ r.view <= 1
    BY <1>2, NamedViews DEF TypeOK, AtMostOneChange, Correct
  <2>2. b \in Block /\ b.view \in Nat /\ k \in DOMAIN r.ledger
    BY <1>3, <2>1, BlockTypes DEF Ledger
  <2>3. Voted(r) /\ Local(replica, C, r)
    BY <1>1 DEF LedgerInv, AllVoted, Carry
  <2>4. /\ b.seq = 1 /\ b.view <= r.view
        /\ b.view = r.view => \E x \in r.commits : IsFor(x.msg, b.view, b.seq, b.digest)
    BY <2>2, <2>3 DEF Voted
  <2>5. /\ b.view = 0 => b = FirstBlock /\ Secured(replica, C)
        /\ ~Forgotten(replica, C) /\ b.view = 1 => b.digest = 0
    BY <2>2, <2>3 DEF Local, WroteTruly, CarriedOver
  <2> HIDE DEF b
  <2>6. CASE b.view = 0
    BY <2>5, <2>6, SecuredRemembered DEF FirstBlock, Ledger, b
  <2>7. CASE b.view = 1
    <3>1. \E x \in r.commits : IsFor(x.msg, 1, 1, b.digest)
      BY <2>1, <2>4, <2>7
    <3>2. b.digest \in Digest
      BY <2>2 DEF Block
    <3>3. Claimed(1, 1, b.digest)
      BY <3>1 DEF Claimed, Holds
    <3> QED  BY <2>5, <2>7, <3>2, <3>3 DEF Ledger, b
  <2> QED  BY <2>1, <2>2, <2>4, <2>6, <2>7
<1>4. ASSUME NEW i \in Correct, NEW j \in Correct,
             NEW k \in DOMAIN Ledger(i) \cap DOMAIN Ledger(j)
      PROVE  Ledger(i)[k].digest = Ledger(j)[k].digest
  <2> DEFINE b == Ledger(i)[k]
             c == Ledger(j)[k]
  <2>1. /\ \/ b.view = 0 /\ b.digest = 0 /\ ~Forgotten(replica, C)
           \/ /\ b.view = 1 /\ b.digest \in Digest /\ Claimed(1, 1, b.digest)
              /\ ~Forgotten(replica, C) => b.digest = 0
        /\ \/ c.view = 0 /\ c.digest = 0 /\ ~Forgotten(replica, C)
           \/ /\ c.view = 1 /\ c.digest \in Digest /\ Claimed(1, 1, c.digest)
              /\ ~Forgotten(replica, C) => c.digest = 0
    BY <1>3
  <2> HIDE DEF b, c
  <2>2. CASE ~Forgotten(replica, C)
    BY <2>1, <2>2 DEF b, c
  <2>3. CASE Forgotten(replica, C)
    <3>1. Fits(1, 1, b.digest)
      BY <1>2, <2>1, <2>3 DEF SlotInv, ClaimsFit
    <3> QED  BY <2>1, <2>3, <3>1 DEF Fits, b, c
  <2> QED  BY <2>2, <2>3
<1> QED  BY <1>4 DEF LedgerAgreement

(***************************************************************************)
(* In every cluster in which two quorums meet and the broadcast of a       *)
(* NewView never fails, as long as no correct replica has gone beyond its  *)
(* second view, the chain files of two correct replicas never hold         *)
(* different blocks at the same height, in whatever views they were        *)
(* written.                                                                *)
(***************************************************************************)
THEOREM OneChangeAgrees ==
  ASSUME QuorumsMeet, NewViewsArrive
  PROVE  Spec => [](AtMostOneChange => LedgerAgreement)
<1>1. LedgerInv => (AtMostOneChange => LedgerAgreement)
  BY BlocksAgree
<1>2. LedgerInv /\ [Next]_vars => LedgerInv'
  BY LedgerInductive
<1> QED  BY <1>1, <1>2, LedgerInitially, PTL DEF Spec

-----------------------------------------------------------------------------
(* Which requests a method learns of. *)

\* The normal case learns of none, but for a pre-prepare: executing,
LEMMA ExecuteLearns ==
  ASSUME NEW r \in ReplicaState, NEW v, NEW s, NEW d, NEW lost
  PROVE  Execute(r, v, s, d, lost).requests = r.requests
<1> DEFINE fails == <<"Block", 0>> \in lost
           block == [view |-> v, seq |-> s, digest |-> d]
           ledger == IF fails THEN r.ledger ELSE Append(r.ledger, block)
           f == r.failed \/ fails
           written == [r EXCEPT !.pending = @ \ {d}, !.ledger = ledger, !.failed = f]
           executed == StopRequestTimer(written)
<1>1. executed.requests = r.requests
  <2> HIDE DEF ledger, f
  <2> QED  BY DEF StopRequestTimer, ReplicaState
<1>2. DOMAIN executed = DOMAIN r
  <2> HIDE DEF ledger, f
  <2> QED  BY DEF StopRequestTimer
<1> HIDE DEF executed
<1>3. StartRequestTimer(executed, TRUE).requests = r.requests
  BY <1>1 DEF StartRequestTimer, TargetView
<1>4. Execute(r, v, s, d, lost) \in {r, executed, StartRequestTimer(executed, TRUE)}
  BY Zenon DEF Execute, executed, written, ledger, f
<1> QED  BY <1>1, <1>3, <1>4

\* ... a Commit that is sent,
LEMMA MaybeSendCommitLearns ==
  ASSUME NEW r \in ReplicaState, NEW v \in Nat, NEW s \in Nat, NEW d \in Digest, NEW lost
  PROVE  MaybeSendCommit(r, v, s, d, lost).requests = r.requests
<1> DEFINE commit == [type |-> "Commit", view |-> v, seq |-> s, digest |-> d]
           sent == Broadcast(r, commit, lost)
           done == RecordCommitReceipt(sent, r.id, commit)
           executed == Execute(done, v, s, d, lost)
<1>1. commit \in Commit /\ commit \in Message /\ r.id \in Replica
  BY DEF Commit, Message, ReplicaState
<1> HIDE DEF commit
<1>2. sent.requests = r.requests /\ sent \in ReplicaState
  <2>1. sent \in ReplicaState
    BY <1>1, BroadcastKeeps DEF Keeps
  <2>2. sent.requests = r.requests
    <3> DEFINE o == r.outbox \cup {[msg |-> commit, failed |-> Fails(commit, lost)]}
               f == r.failed \/ Fails(commit, lost)
    <3>1. sent = [r EXCEPT !.outbox = o, !.failed = f]
      BY Zenon DEF Broadcast
    <3> HIDE DEF o, f, sent
    <3> QED  BY <3>1 DEF ReplicaState
  <2> QED  BY <2>1, <2>2
<1> HIDE DEF sent
<1>3. done.requests = r.requests /\ done \in ReplicaState
  BY <1>1, <1>2, RecordCommitWithin DEF RecordCommitReceipt, Within, ReplicaState
<1> HIDE DEF done
<1>4. executed.requests = r.requests
  BY <1>3, ExecuteLearns
<1> HIDE DEF executed
<1>5. MaybeSendCommit(r, v, s, d, lost) \in {r, sent, done, executed}
  <2>1. CASE ~ShouldSendCommit(r, v, s, d)
    BY <2>1, Zenon DEF MaybeSendCommit
  <2>2. CASE ShouldSendCommit(r, v, s, d) /\ Fails(commit, lost)
    BY <2>2 DEF MaybeSendCommit, commit, sent
  <2>3. CASE ShouldSendCommit(r, v, s, d) /\ ~Fails(commit, lost)
    BY <2>3 DEF MaybeSendCommit, commit, sent, done, executed
  <2> QED  BY <2>1, <2>2, <2>3
<1> QED  BY <1>2, <1>3, <1>4, <1>5

\* ... a Commit that is received,
LEMMA ProcessCommitLearns ==
  ASSUME NEW r \in ReplicaState, NEW from \in Replica, NEW m \in Commit, NEW lost
  PROVE  ProcessCommit(r, from, m, lost).requests = r.requests
<1> DEFINE recorded == RecordCommitReceipt(r, from, m)
           executed == Execute(recorded, m.view, m.seq, m.digest, lost)
<1>1. recorded.requests = r.requests /\ recorded \in ReplicaState
  BY RecordCommitWithin DEF RecordCommitReceipt, Within, ReplicaState
<1>2. ProcessCommit(r, from, m, lost) \in {r, recorded, executed}
  BY DEF ProcessCommit
<1> HIDE DEF recorded
<1>3. executed.requests = r.requests
  BY <1>1, ExecuteLearns
<1> QED  BY <1>1, <1>2, <1>3

\* ... or a Prepare.
LEMMA ProcessPrepareLearns ==
  ASSUME NEW r \in ReplicaState, NEW from \in Replica, NEW m \in Prepare, NEW lost
  PROVE  ProcessPrepare(r, from, m, lost).requests = r.requests
<1> DEFINE recorded == RecordPrepareReceipt(r, from, m)
           sent == MaybeSendCommit(recorded, m.view, m.seq, m.digest, lost)
<1>1. recorded.requests = r.requests /\ recorded \in ReplicaState
  BY RecordPrepareWithin DEF RecordPrepareReceipt, Within, ReplicaState
<1>2. m.view \in Nat /\ m.seq \in Nat /\ m.digest \in Digest
  BY DEF Prepare
<1>3. ProcessPrepare(r, from, m, lost) \in {r, sent}
  BY DEF ProcessPrepare
<1> HIDE DEF recorded
<1>4. sent.requests = r.requests
  BY <1>1, <1>2, MaybeSendCommitLearns
<1> QED  BY <1>3, <1>4

\* Pre-prepares that are accepted bring their requests.
LEMMA AcceptLearns ==
  ASSUME NEW r \in ReplicaState, NEW ms \in SUBSET PrePrepare, NEW lost
  PROVE  AcceptPrePrepares(r, ms, lost).requests \subseteq r.requests \cup {m.digest : m \in ms}
<1> DEFINE prepareFor(m) == [m EXCEPT !.type = "Prepare"]
           accepted == {m \in ms : \A p \in r.preprepares : ~SameSlot(p, m)}
           answers == {prepareFor(m) : m \in accepted}
           own == {[from |-> r.id, msg |-> p] : p \in {a \in answers : ~Fails(a, lost)}}
           receipts == {o \in own : \A x \in r.prepares : x.from # r.id \/ ~SameSlot(x.msg, o.msg)}
           o == r.outbox \cup {[msg |-> a, failed |-> Fails(a, lost)] : a \in answers}
           f == r.failed \/ \E a \in answers : Fails(a, lost)
           digests == {m.digest : m \in accepted}
           taken == [r EXCEPT !.preprepares = @ \cup accepted,
                              !.requests = @ \cup digests,
                              !.pending = @ \cup digests,
                              !.prepares = @ \cup receipts,
                              !.outbox = o,
                              !.failed = f]
<1>1. digests \subseteq {m.digest : m \in ms}
  OBVIOUS
<1>2. AcceptPrePrepares(r, ms, lost) \in {r, StartRequestTimer(taken, FALSE)}
  BY Zenon DEF AcceptPrePrepares, taken, accepted, answers, digests, receipts, o, f
<1> HIDE DEF accepted, answers, digests, receipts, o, f
<1>3. taken.requests = r.requests \cup digests /\ DOMAIN taken = DOMAIN r
  BY DEF ReplicaState
<1> HIDE DEF taken
<1>4. StartRequestTimer(taken, FALSE).requests = taken.requests
  BY DEF StartRequestTimer, TargetView
<1> QED  BY <1>1, <1>2, <1>3, <1>4

\* So does the handler of a pre-prepare,
LEMMA ProcessPrePrepareLearns ==
  ASSUME NEW r \in ReplicaState, NEW from \in Replica, NEW m \in PrePrepare, NEW lost
  PROVE  ProcessPrePrepare(r, from, m, lost).requests \subseteq r.requests \cup {m.digest}
<1> DEFINE taken == AcceptPrePrepares(r, {m}, lost)
           sent == MaybeSendCommit(taken, m.view, m.seq, m.digest, lost)
<1>1. m.view \in Nat /\ m.seq \in Nat /\ m.digest \in Digest
  BY DEF PrePrepare
<1>2. taken.requests \subseteq r.requests \cup {m.digest} /\ taken \in ReplicaState
  <2>1. taken.requests \subseteq r.requests \cup {k.digest : k \in {m}}
    BY AcceptLearns
  <2>2. Within(r, taken, m.view)
    BY <1>1, AcceptPrePreparesWithin
  <2> QED  BY <2>1, <2>2 DEF Within
<1>3. ProcessPrePrepare(r, from, m, lost) \in {r, taken, sent}
  BY DEF ProcessPrePrepare
<1> HIDE DEF taken
<1>4. sent.requests = taken.requests
  BY <1>1, <1>2, MaybeSendCommitLearns
<1> QED  BY <1>2, <1>3, <1>4

\* ... and of a NewView.
LEMMA ProcessNewViewLearns ==
  ASSUME NEW r \in ReplicaState, NEW from \in Replica, NEW m \in NewView, NEW lost
  PROVE  ProcessNewView(r, from, m, lost).requests
           \subseteq r.requests \cup {p.digest : p \in Range(m.preprepares)}
<1> DEFINE turned  == [r EXCEPT !.view = m.view, !.activeView = TRUE]
           entered == CleanupState(turned, m.view)
           ms      == Range(m.preprepares)
           taken   == AcceptPrePrepares(entered, ms, lost)
           q       == ProcessNewView(r, from, m, lost)
<1>1. m.view \in Nat /\ m.preprepares \in Seq(PrePrepare)
  BY DEF NewView
<1>2. ms \in SUBSET PrePrepare
  BY <1>1 DEF Range
<1>3. turned \in ReplicaState /\ turned.requests = r.requests
  BY <1>1 DEF ReplicaState
<1> HIDE DEF turned
<1>4. entered \in ReplicaState /\ entered.requests = r.requests
  BY <1>1, <1>3, CleanupType DEF CleanupState, ReplicaState
<1> HIDE DEF entered
<1>5. taken.requests \subseteq r.requests \cup {p.digest : p \in ms}
  BY <1>2, <1>4, AcceptLearns
<1>6. q = r \/ q = taken \/ q = StartRequestTimer(taken, FALSE)
  <2> HIDE DEF ms
  <2> QED  BY DEF ProcessNewView, entered, turned, ms
<1>7. taken \in ReplicaState
  <2> HIDE DEF ms
  <2>1. Attests(entered, taken, 0, 0, 0, {})
    BY <1>2, <1>4, AcceptAttests
  <2> QED  BY <2>1 DEF Attests, Adds
<1> HIDE DEF taken, q
<1>8. StartRequestTimer(taken, FALSE).requests = taken.requests
  BY <1>7 DEF StartRequestTimer, TargetView, ReplicaState
<1> QED  BY <1>5, <1>6, <1>8 DEF q

\* A primary that proposes some requests knows no others than before and these,
LEMMA SendLearns ==
  ASSUME NEW r \in ReplicaState, NEW order \in Seq(Digest), NEW lost
  PROVE  SendPrePrepares(r, order, lost).requests = r.requests \cup Range(order)
<1> DEFINE ms == {m \in PrePreparesFor(r, order) : ~ConflictingPrePrepare(r, m)}
           o == r.outbox \cup {[msg |-> m, failed |-> Fails(m, lost)] : m \in ms}
           f == r.failed \/ \E m \in ms : Fails(m, lost)
           digests == Range(order)
           n == r.sequence + Len(order)
           q == [r EXCEPT !.requests = @ \cup digests, !.pending = @ \cup digests,
                          !.sequence = n, !.outbox = o, !.failed = f]
<1>1. SendPrePrepares(r, order, lost) = q
  BY DEF SendPrePrepares
<1> HIDE DEF digests, n, o, f
<1>2. q.requests = r.requests \cup digests
  BY DEF ReplicaState
<1> QED  BY <1>1, <1>2 DEF digests

\* ... and what it proposes of its own accord is what it has seen, or what that
\* hashes to.
LEMMA ProposeOutstandingLearns ==
  ASSUME NEW r \in ReplicaState, NEW lost, NEW q \in ProposeOutstanding(r, lost)
  PROVE  q.requests \subseteq r.requests \cup {GetDigest(d) : d \in r.requests}
<1> DEFINE waiting == {GetDigest(d) : d \in OutstandingRequests(r)} \ r.pending
           sent(order) == SendPrePrepares(r, order, lost)
           own(order) == {m \in PrePreparesFor(r, order) :
                            ~ConflictingPrePrepare(r, m) /\ ~Fails(m, lost)}
<1>1. PICK order \in SetToSeqs(waiting) : q = StorePrePrepares(sent(order), own(order))
  BY Zenon DEF ProposeOutstanding, waiting
<1>2. waiting \in SUBSET Digest /\ waiting \subseteq {GetDigest(d) : d \in r.requests}
  BY DEF GetDigest, Digest, OutstandingRequests, ReplicaState
<1> HIDE DEF waiting
<1>3. Cardinality(waiting) \in Nat
  BY <1>2, DigestFinite, FS_Subset, FS_CardinalityType
<1>4. order \in Seq(Digest) /\ order \in [1 .. Cardinality(waiting) -> waiting]
  BY <1>2, <1>3 DEF SetToSeqs
<1>5. Range(order) \subseteq waiting
  BY <1>4 DEF Range
<1>6. sent(order) \in ReplicaState /\ sent(order).requests = r.requests \cup Range(order)
  BY <1>4, SendLearns, SendPrePreparesKeeps DEF Keeps
<1> HIDE DEF sent, own
<1>7. q.requests = sent(order).requests
  BY <1>1, <1>6 DEF StorePrePrepares, ReplicaState
<1> QED  BY <1>2, <1>5, <1>6, <1>7

\* A primary that enters its own view knows what its NewView carries.
LEMMA EnterOwnViewLearns ==
  ASSUME NEW r \in ReplicaState, NEW v \in Nat, NEW pps \in Seq(PrePrepare)
  PROVE  EnterOwnView(r, v, pps).requests = r.requests \cup {p.digest : p \in Range(pps)}
<1> DEFINE cleaned == CleanupState(r, v)
           stored == StorePrePrepares(cleaned, Range(pps))
           digests == {p.digest : p \in Range(pps)}
           q == [stored EXCEPT !.requests = @ \cup digests, !.pending = @ \cup digests,
                               !.view = v, !.activeView = TRUE]
<1>1. EnterOwnView(r, v, pps) = q
  BY Zenon DEF EnterOwnView
<1>2. cleaned.requests = r.requests /\ cleaned \in ReplicaState
  BY CleanupType DEF CleanupState, ReplicaState
<1> HIDE DEF cleaned
<1>3. stored.requests = r.requests
  BY <1>2 DEF StorePrePrepares, ReplicaState
<1>4. q.requests = stored.requests \cup digests
  <2> HIDE DEF digests
  <2> QED  BY <1>2 DEF StorePrePrepares, ReplicaState
<1> HIDE DEF q
<1> QED  BY <1>1, <1>3, <1>4

\* So a primary that starts a view learns of nothing but requests of main, if the
\* certificates it uses and what it knew are such requests.
LEMMA StartNewViewLearns ==
  ASSUME NEW r \in ReplicaState, NEW v \in Nat, NEW lost, NEW q \in StartNewView(r, v, lost),
         NEW S \in SUBSET Replica, r.requests \subseteq S,
         \A pps \in GeneratePrePrepares(v, ViewChangesOf(
              RecordViewChangeReceipt(r, r.id, ViewChangeFor(r, v)), v)) :
           \A p \in Range(pps) : p.digest \in S
  PROVE  q.requests \subseteq S
<1> DEFINE vc == ViewChangeFor(r, v)
           own == RecordViewChangeReceipt(r, r.id, vc)
           msgs == ViewChangesOf(own, v)
           newView(pps) == [type |-> "NewView", view |-> v, messages |-> msgs,
                            preprepares |-> pps]
           sent(pps) == Broadcast(own, newView(pps), lost)
<1>1. vc \in ViewChange /\ r.id \in Replica
  BY ViewChangeForType DEF ReplicaState
<1>2. \A pps \in GeneratePrePrepares(v, msgs) : \A p \in Range(pps) : p.digest \in S
  OBVIOUS
<1> HIDE DEF vc
<1>3. own \in ReplicaState /\ own.requests = r.requests
  <2>1. [from |-> r.id, msg |-> vc] \in {[from |-> r.id, msg |-> vc]}
    OBVIOUS
  <2> QED  BY <1>1, <2>1, RecordViewChangeTurns DEF Turns
<1> HIDE DEF own
<1>4. msgs \in SUBSET ViewChangeReceipt
  BY <1>3 DEF ViewChangesOf, ReplicaState
<1> HIDE DEF msgs
<1>5. PICK pps \in GeneratePrePrepares(v, msgs) :
         q \in IF Fails(newView(pps), lost)
                 THEN {sent(pps)}
                 ELSE ProposeOutstanding(EnterOwnView(sent(pps), v, pps), lost)
  BY Zenon DEF StartNewView, own, msgs, vc
<1>6. pps \in Seq(PrePrepare) /\ \A m \in Range(pps) : m \in PrePrepare /\ m.view = v
  BY <1>4, GeneratePrePreparesType
<1> DEFINE nv == newView(pps)
           s == sent(pps)
           e == EnterOwnView(s, v, pps)
<1>7. nv \in Message
  BY <1>4, <1>6 DEF NewView, Message
<1>8. q = s \/ q \in ProposeOutstanding(e, lost)
  BY <1>5, Zenon
<1>9. s \in ReplicaState
  BY <1>3, <1>7, BroadcastKeeps DEF Keeps
<1>10. s.requests = r.requests
  BY <1>3 DEF Broadcast, ReplicaState
<1> HIDE DEF nv, s, newView, sent
<1>11. CASE q = s
  BY <1>10, <1>11
<1>12. CASE q \in ProposeOutstanding(e, lost)
  <2>1. e \in ReplicaState /\ e.requests = s.requests \cup {p.digest : p \in Range(pps)}
    BY <1>6, <1>9, EnterOwnViewOpens, EnterOwnViewLearns
  <2>2. e.requests \subseteq S
    BY <1>2, <1>10, <2>1
  <2> HIDE DEF e
  <2>3. q.requests \subseteq e.requests \cup {GetDigest(d) : d \in e.requests}
    BY <1>12, <2>1, ProposeOutstandingLearns
  <2>4. \A d \in S : GetDigest(d) = d
    BY DigestAssumption DEF GetDigest
  <2> QED  BY <2>2, <2>3, <2>4
<1> QED  BY <1>8, <1>11, <1>12

-----------------------------------------------------------------------------
(* Where requests come from. *)

\* The requests that main has injected: the first replica has been given its
\* request as soon as main is in its call.
Requested == {i \in Replica : i < main.next \/ (i = main.next /\ main.call # Outside)}

KnowsRequested == \A i \in Replica : replica[i].requests \subseteq Requested

\* Before main has come there is nothing in the cluster.
NothingBeforeMain ==
    main.next = 0 /\ main.call = Outside =>
      net = {} /\ \A i \in Replica : replica[i] = NewReplica(i)

\* What is under way is there because main has injected the first request.
LEMMA FirstIsRequested ==
  ASSUME TypeOK, NothingBeforeMain, net # {}
  PROVE  0 \in Requested
<1>1. main.next \in Nat /\ 0 \in Replica
  BY ClusterAssumption DEF TypeOK, Replica, MinimumReplicaCount
<1>2. ~(main.next = 0 /\ main.call = Outside)
  BY DEF NothingBeforeMain
<1>3. 0 < main.next \/ (0 = main.next /\ main.call # Outside)
  BY <1>1, <1>2
<1> QED  BY <1>1, <1>3 DEF Requested

\* Main injects one request at a time.
LEMMA MainRequests ==
  ASSUME TypeOK, NEW i \in Replica
  PROVE  /\ UNCHANGED main => Requested' = Requested
         /\ i = main.next /\ main.call # Outside /\ MainReturns => Requested' = Requested
         /\ MainEnters(i) /\ MainReturns => Requested' = Requested \cup {i}
         /\ MainEnters(i) /\ main'.next = main.next /\ main'.call # Outside
              => Requested' = Requested \cup {i}
<1>1. main.next \in Nat /\ \A j \in Replica : j \in Nat
  BY DEF TypeOK, Replica
<1>2. UNCHANGED main => Requested' = Requested
  BY DEF Requested
<1>3. ASSUME MainReturns
      PROVE  Requested' = {j \in Replica : j < main.next \/ j = main.next}
  <2>1. main'.next = main.next + 1 /\ main'.call = Outside
    BY <1>3 DEF MainReturns
  <2>2. \A j \in Replica : j < main.next + 1 <=> (j < main.next \/ j = main.next)
    BY <1>1
  <2> QED  BY <2>1, <2>2 DEF Requested
<1>4. ASSUME i = main.next, main.call # Outside, MainReturns PROVE Requested' = Requested
  BY <1>3, <1>4 DEF Requested
<1>5. ASSUME MainEnters(i), MainReturns PROVE Requested' = Requested \cup {i}
  BY <1>3, <1>5 DEF Requested, MainEnters
<1>6. ASSUME MainEnters(i), main'.next = main.next, main'.call # Outside
      PROVE  Requested' = Requested \cup {i}
  BY <1>6 DEF Requested, MainEnters
<1> QED  BY <1>2, <1>4, <1>5, <1>6

\* Running a method that knows what main has injected.
LEMMA RunLearns ==
  ASSUME TypeOK, KnowsRequested, Requested \subseteq Requested',
         NEW i \in Replica, NEW q \in ReplicaState, q.id = i, q.requests \subseteq Requested',
         NEW consumed, Run(q, consumed)
  PROVE  /\ KnowsRequested'
         /\ replica'[i].ledger = q.ledger
         /\ \A j \in Replica \ {i} : replica'[j] = replica[j]
<1>1. \A j \in Replica : replica'[j] = IF j = i THEN Returned(q) ELSE replica[j]
  BY DEF Run, TypeOK
<1>2. Returned(q).requests = q.requests /\ Returned(q).ledger = q.ledger
  BY DEF Returned, ReplicaState
<1>3. ASSUME NEW j \in Replica PROVE replica'[j].requests \subseteq Requested'
  BY <1>1, <1>2 DEF KnowsRequested
<1> QED  BY <1>1, <1>2, <1>3 DEF KnowsRequested

\* No correct replica writes.
NobodyWrites == \A i \in Correct : replica'[i].ledger = replica[i].ledger

\* One correct replica writes one block, for a request that main has injected.
SomebodyWrites ==
    \E i \in Correct, b \in Block :
       /\ b.digest \in Requested
       /\ replica'[i].ledger = Append(replica[i].ledger, b)
       /\ \A j \in Correct \ {i} : replica'[j].ledger = replica[j].ledger

\* A method that writes nothing.
LEMMA RunWritesNothing ==
  ASSUME TypeOK, KnowsRequested, Requested \subseteq Requested',
         NEW i \in Replica, NEW q \in ReplicaState, q.id = i, q.requests \subseteq Requested',
         q.ledger = replica[i].ledger, NEW consumed, Run(q, consumed)
  PROVE  KnowsRequested' /\ NobodyWrites
<1>1. /\ KnowsRequested' /\ replica'[i].ledger = replica[i].ledger
      /\ \A j \in Replica \ {i} : replica'[j] = replica[j]
  BY RunLearns
<1> QED  BY <1>1 DEF NobodyWrites, Correct

\* A handler of the normal case learns of the request of a pre-prepare, which its
\* primary knows, and writes one block at most.
LEMMA ReceiveNormalWrites ==
  ASSUME TypeOK, SlotInv, KnowsRequested, NEW e \in net,
         ReceivePrePrepare(e) \/ ReceivePrepare(e) \/ ReceiveCommit(e)
  PROVE  Requested' = Requested /\ KnowsRequested' /\ (NobodyWrites \/ SomebodyWrites)
<1> DEFINE i == e.to
           r == replica[i]
           m == e.msg
<1>1. /\ i \in Correct /\ i \in Replica /\ e.from \in Replica
      /\ r \in ReplicaState /\ r.id = i
  BY ReceiverIsCorrect
<1>2. UNCHANGED main /\ Requested' = Requested
  BY <1>1, ReceiveNormalHandles, MainRequests
<1>3. r.requests \subseteq Requested /\ replica[e.from].requests \subseteq Requested
  BY <1>1 DEF KnowsRequested
<1>4. \E q \in ReplicaState : q.id = i /\ q.requests \subseteq Requested /\ Run(q, {e})
  <2>1. r \in ReplicaState /\ r.id = i /\ r.requests \subseteq Requested
    BY <1>1, <1>3
  <2>2. CASE ReceivePrePrepare(e)
    <3>1. PICK lost : Run(IF Taken(e) THEN ProcessPrePrepare(r, e.from, m, lost) ELSE r, {e})
      BY <2>2 DEF ReceivePrePrepare
    <3>2. m \in PrePrepare /\ m.type = "PrePrepare"
      BY <2>2, MessageTypes DEF ReceivePrePrepare
    <3> DEFINE q == ProcessPrePrepare(r, e.from, m, lost)
    <3>3. q.requests \subseteq r.requests \cup {m.digest}
      BY <1>1, <3>2, ProcessPrePrepareLearns
    <3>4. q = r \/ (e.from = Primary(r.view) /\ m.view = r.view)
      BY <1>1, <3>2, ProcessPrePrepareEchoes
    <3>5. Attests(r, q, m.view, m.seq, m.digest, {})
      <4> HIDE DEF r, m
      <4> QED  BY <1>1, <3>2, ProcessPrePrepareAttests
    <3> HIDE DEF q
    <3>6. q \in ReplicaState /\ q.id = i
      BY <1>1, <3>5 DEF Attests, Adds
    <3>7. q.requests \subseteq Requested
      <4>1. CASE q = r
        BY <1>3, <4>1
      <4>2. CASE e.from = Primary(r.view) /\ m.view = r.view
        <5>1. Proposal(e)
          BY <3>2, <4>2 DEF Proposal
        <5>2. m.digest \in Requested
          BY <1>3, <5>1 DEF SlotInv, Known
        <5> QED  BY <1>3, <3>3, <5>2
      <4> QED  BY <3>4, <4>1, <4>2
    <3> QED  BY <2>1, <3>1, <3>6, <3>7 DEF q
  <2>3. CASE ReceivePrepare(e)
    <3>1. PICK lost : Run(IF Taken(e) THEN ProcessPrepare(r, e.from, m, lost) ELSE r, {e})
      BY <2>3 DEF ReceivePrepare
    <3>2. m \in Prepare
      BY <2>3, MessageTypes DEF ReceivePrepare
    <3> DEFINE q == ProcessPrepare(r, e.from, m, lost)
    <3>3. q.requests = r.requests
      BY <1>1, <3>2, ProcessPrepareLearns
    <3>4. Attests(r, q, m.view, m.seq, m.digest, {})
      <4> HIDE DEF r, m
      <4> QED  BY <1>1, <3>2, ProcessPrepareAttests
    <3> HIDE DEF q
    <3>5. q \in ReplicaState /\ q.id = i
      BY <1>1, <3>4 DEF Attests, Adds
    <3> QED  BY <1>3, <2>1, <3>1, <3>3, <3>5 DEF q
  <2>4. CASE ReceiveCommit(e)
    <3>1. PICK lost : Run(IF Taken(e) THEN ProcessCommit(r, e.from, m, lost) ELSE r, {e})
      BY <2>4 DEF ReceiveCommit
    <3>2. m \in Commit
      BY <2>4, MessageTypes DEF ReceiveCommit
    <3> DEFINE q == ProcessCommit(r, e.from, m, lost)
    <3>3. q.requests = r.requests
      BY <1>1, <3>2, ProcessCommitLearns
    <3>4. Attests(r, q, m.view, m.seq, m.digest, {[from |-> e.from, msg |-> m]})
      <4> HIDE DEF r, m
      <4> QED  BY <1>1, <3>2, ProcessCommitAttests
    <3> HIDE DEF q
    <3>5. q \in ReplicaState /\ q.id = i
      BY <1>1, <3>4 DEF Attests, Adds
    <3> QED  BY <1>3, <2>1, <3>1, <3>3, <3>5 DEF q
  <2> QED  BY <2>2, <2>3, <2>4
<1>5. KnowsRequested'
  BY <1>1, <1>2, <1>4, RunLearns
<1>6. CASE Run(r, {e})
  BY <1>1, <1>2, <1>3, <1>6, RunWritesNothing
<1>7. ASSUME NEW q, NEW H, Handles(e, q, H), Run(q, {e}) PROVE NobodyWrites \/ SomebodyWrites
  <2> DEFINE b == [view |-> m.view, seq |-> m.seq, digest |-> m.digest]
  <2>1. /\ q \in ReplicaState /\ q.id = i
        /\ \/ q.ledger = r.ledger
           \/ Committed(q, m.view, m.seq, m.digest) /\ q.ledger = Append(r.ledger, b)
    BY <1>1, <1>7 DEF Handles, Attests, Adds
  <2>2. /\ replica'[i] = Returned(q)
        /\ \A j \in Replica \ {i} : replica'[j] = replica[j]
    BY <1>1, <1>7, <2>1 DEF Run, TypeOK
  <2>3. replica'[i].ledger = q.ledger /\ replica'[i].requests = q.requests
    BY <2>1, <2>2 DEF Returned, ReplicaState
  <2>4. \A j \in Correct \ {i} : replica'[j].ledger = replica[j].ledger
    BY <2>2 DEF Correct
  <2>5. CASE q.ledger = r.ledger
    BY <2>3, <2>4, <2>5 DEF NobodyWrites
  <2>6. CASE Committed(q, m.view, m.seq, m.digest) /\ q.ledger = Append(r.ledger, b)
    <3>1. m.digest \in q.requests
      BY <2>6 DEF Committed, Prepared, PrePrepared
    <3>2. b \in Block
      <4>1. m.type \in NormalCase
        BY <1>7 DEF Handles
      <4>2. m.view \in Nat /\ m.seq \in Nat /\ m.digest \in Digest
        BY <4>1, SlotTypes
      <4> QED  BY <4>2 DEF Block
    <3>3. b.digest \in Requested
      BY <1>1, <1>2, <1>5, <2>3, <3>1 DEF KnowsRequested
    <3> HIDE DEF b
    <3> QED  BY <1>1, <2>3, <2>4, <2>6, <3>2, <3>3 DEF SomebodyWrites
  <2> QED  BY <2>1, <2>5, <2>6
<1> QED  BY <1>2, <1>5, <1>6, <1>7, ReceiveNormalHandles

\* A replica that turns learns and writes nothing.
LEMMA TurnedWritesNothing ==
  ASSUME TypeOK, KnowsRequested, UNCHANGED main, NEW i \in Replica, NEW H, NEW q,
         Turns(replica[i], q, H), NEW consumed, Run(q, consumed)
  PROVE  Requested' = Requested /\ KnowsRequested' /\ NobodyWrites
<1>1. Requested' = Requested
  BY MainRequests
<1>2. /\ q \in ReplicaState /\ q.id = i /\ q.requests = replica[i].requests
      /\ q.ledger = replica[i].ledger
  BY DEF Turns, TypeOK
<1>3. q.requests \subseteq Requested'
  BY <1>1, <1>2 DEF KnowsRequested
<1> QED  BY <1>1, <1>2, <1>3, RunWritesNothing

\* A primary that opens the second view knows the request of the first one, if its
\* NewView carries it.
LEMMA ReceiveViewChangeWritesNothing ==
  ASSUME NewViewsArrive, AgreementInv, NothingBeforeMain, KnowsRequested,
         AtMostOneChange', CarryInv', NEW e \in net, ReceiveViewChange(e)
  PROVE  Requested' = Requested /\ KnowsRequested' /\ NobodyWrites
<1> DEFINE i == e.to
           r == replica[i]
           m == e.msg
           H == {[from |-> e.from, msg |-> m]}
<1>0. TypeOK /\ SlotInv /\ UNCHANGED main /\ Requested' = Requested
  <2>1. TypeOK /\ SlotInv
    BY DEF AgreementInv, ViewsInv, Inv
  <2>2. UNCHANGED main
    BY DEF ReceiveViewChange
  <2> QED  BY <2>1, <2>2, PrimaryIsReplica, MainRequests
<1>1. /\ i \in Correct /\ i \in Replica /\ e.from \in Replica
      /\ r \in ReplicaState /\ r.id = i /\ m \in ViewChange /\ r.requests \subseteq Requested
  BY <1>0, MessageTypes, ReceiverIsCorrect DEF ReceiveViewChange, KnowsRequested
<1>2. OneEach(r)
  BY <1>1 DEF AgreementInv, ViewsInv, Truth, OneReceipt
<1>3. PICK lost \in Losses({"ViewChange", "NewView", "PrePrepare"}) :
        \E q \in IF Taken(e) THEN ProcessViewChange(r, e.from, m, lost) ELSE {r} : Run(q, {e})
  BY DEF ReceiveViewChange
<1>4. PICK q \in IF Taken(e) THEN ProcessViewChange(r, e.from, m, lost) ELSE {r} : Run(q, {e})
  BY <1>3
<1>5. q = r \/ q \in ProcessViewChange(r, e.from, m, lost)
  BY <1>4
<1>6. <<"NewView", 0>> \notin lost
  BY DEF Losses, NewViewsArrive
<1>7. [from |-> e.from, msg |-> m] \in H
  OBVIOUS
<1> HIDE DEF H
<1>8. ASSUME Turns(r, q, H) PROVE KnowsRequested' /\ NobodyWrites
  BY <1>0, <1>1, <1>4, <1>8, TurnedWritesNothing
<1>9. ASSUME NEW j, Turns(r, j, H), q \in StartNewView(j, m.view, lost), m.view > 0
      PROVE  KnowsRequested' /\ NobodyWrites
  <2> DEFINE own == RecordViewChangeReceipt(j, j.id, ViewChangeFor(j, m.view))
  <2>1. /\ j \in ReplicaState /\ j.id = i /\ j.ledger = r.ledger /\ j.requests = r.requests
    BY <1>1, <1>9 DEF Turns
  <2>2. m.view \in Nat
    BY <1>1 DEF ViewChange
  <2>3. /\ q \in ReplicaState /\ q.id = i /\ q.ledger = r.ledger
        /\ q.viewChanges = own.viewChanges
    BY <1>9, <2>1, <2>2, StartNewViewStarts DEF Starts
  <2>4. q.view = m.view
    BY <1>6, <1>9, <2>1, <2>2, StartNewViewOpens DEF Opens
  <2>5. replica'[i] = Returned(q)
    BY <1>0, <1>1, <1>4, <2>3 DEF Run, TypeOK
  <2>6. replica'[i].view = q.view /\ replica'[i].viewChanges = q.viewChanges
    BY <2>3, <2>5 DEF Returned, ReplicaState
  <2>7. m.view = 1
    BY <1>1, <1>9, <2>2, <2>4, <2>6 DEF AtMostOneChange
  <2>8. \A x \in ViewChangesOf(own, 1) : \A p \in x.msg.prepares : Certificate(p)
    <3>1. PICK D \in SUBSET Correct : Carry(D)'
      BY DEF CarryInv
    <3>2. HeldTruly(replica', D, replica'[i])
      BY <1>1, <3>1 DEF Carry, Local
    <3>3. \A x \in q.viewChanges : Reports(replica', D, x.from, x.msg)
      BY <2>6, <3>2 DEF HeldTruly
    <3> HIDE DEF own
    <3> QED  BY <2>3, <3>3 DEF ViewChangesOf, Reports
  <2>9. 0 \in Requested
    BY <1>0, FirstIsRequested
  <2>10. ASSUME NEW pps \in GeneratePrePrepares(1, ViewChangesOf(own, 1)), NEW p \in Range(pps)
         PROVE  p.digest \in Requested
    <3> HIDE DEF own
    <3>1. pps = <<NextPrePrepare>> \/ pps = <<>>
      BY <2>8, <2>10, GeneratedFrom
    <3>2. p = NextPrePrepare
      BY <3>1 DEF Range
    <3> QED  BY <2>9, <3>2 DEF NextPrePrepare
  <2>11. q.requests \subseteq Requested
    <3>1. q \in StartNewView(j, 1, lost) /\ j.requests \subseteq Requested
      BY <1>1, <1>9, <2>1, <2>7
    <3>2. \A pps \in GeneratePrePrepares(1, ViewChangesOf(
             RecordViewChangeReceipt(j, j.id, ViewChangeFor(j, 1)), 1)) :
             \A p \in Range(pps) : p.digest \in Requested
      BY <2>7, <2>10
    <3>3. Requested \in SUBSET Replica
      BY DEF Requested
    <3> QED  BY <2>1, <3>1, <3>2, <3>3, StartNewViewLearns
  <2> QED  BY <1>0, <1>1, <1>4, <2>3, <2>11, RunWritesNothing
<1>10. CASE q = r
  BY <1>0, <1>1, <1>8, <1>10, TurnsReflexive
<1>11. CASE q \in ProcessViewChange(r, e.from, m, lost)
  <2>1. \/ Turns(r, q, H)
        \/ \E j : Turns(r, j, H) /\ q \in StartNewView(j, m.view, lost)
    BY <1>1, <1>2, <1>7, <1>11, ProcessViewChangeTurns
  <2>2. q = r \/ m.view > 0
    <3>1. q = r \/ m.view # 0
      BY <1>11 DEF ProcessViewChange, ValidViewChange
    <3> QED  BY <1>1, <3>1 DEF ViewChange
  <2> QED  BY <1>0, <1>8, <1>9, <1>10, <2>1, <2>2
<1> QED  BY <1>0, <1>5, <1>10, <1>11

\* A backup learns what a NewView carries, and its primary knows that.
LEMMA ReceiveNewViewWritesNothing ==
  ASSUME TypeOK, SlotInv, KnowsRequested, NEW e \in net, ReceiveNewView(e)
  PROVE  Requested' = Requested /\ KnowsRequested' /\ NobodyWrites
<1> DEFINE i == e.to
           r == replica[i]
           m == e.msg
<1>1. /\ i \in Replica /\ e.from \in Replica /\ r \in ReplicaState /\ r.id = i
      /\ m \in NewView /\ m.type = "NewView"
  BY MessageTypes DEF ReceiveNewView, TypeOK
<1>2. Requested' = Requested
  BY <1>1, MainRequests DEF ReceiveNewView
<1>3. r.requests \subseteq Requested /\ replica[e.from].requests \subseteq Requested
  BY <1>1 DEF KnowsRequested
<1>4. PICK lost : Run(IF Taken(e) THEN ProcessNewView(r, e.from, m, lost) ELSE r, {e})
  BY DEF ReceiveNewView
<1> DEFINE q == ProcessNewView(r, e.from, m, lost)
<1>5. q.ledger = r.ledger
  BY <1>1, ProcessNewViewKeeps
<1>6. q \in ReplicaState /\ q.id = r.id
  BY <1>1, ProcessNewViewStep DEF ViewStep
<1>7. q.requests \subseteq Requested
  <2>1. q.requests \subseteq r.requests \cup {p.digest : p \in Range(m.preprepares)}
    BY <1>1, ProcessNewViewLearns
  <2>2. \A s \in DOMAIN m.preprepares : m.preprepares[s].digest \in Requested
    BY <1>1, <1>3 DEF SlotInv, Known
  <2>3. \A p \in Range(m.preprepares) : p.digest \in Requested
    BY <2>2 DEF Range
  <2> QED  BY <1>3, <2>1, <2>3
<1> HIDE DEF q
<1>8. CASE Taken(e)
  <2>1. Run(q, {e})
    BY <1>4, <1>8 DEF q
  <2> QED  BY <1>1, <1>2, <1>5, <1>6, <1>7, <2>1, RunWritesNothing
<1>9. CASE ~Taken(e)
  <2>1. Run(r, {e})
    BY <1>4, <1>9
  <2> QED  BY <1>1, <1>2, <1>3, <2>1, RunWritesNothing
<1> QED  BY <1>8, <1>9

\* Main gives a backup its request,
LEMMA MainTouchesWritesNothing ==
  ASSUME TypeOK, KnowsRequested, NEW i \in Replica, MainTouches(i)
  PROVE  Requested' = Requested /\ KnowsRequested' /\ NobodyWrites
<1> DEFINE r == replica[i]
<1>1. r \in ReplicaState /\ r.id = i
  BY DEF TypeOK
<1>2. /\ i = main.next /\ main.call # Outside
      /\ \/ main'.next = main.next /\ main'.call.step \in {"timer", "note"}
         \/ MainReturns
  BY MainTouching
<1>3. PICK q \in ReplicaState : Touched(r, q, i) /\ Run(q, {})
  BY MainTouching
<1>4. Requested' = Requested /\ i \in Requested
  <2>1. main'.call.step \in {"timer", "note"} => main'.call # Outside
    BY DEF Outside
  <2>2. CASE MainReturns
    BY <1>2, <2>2, MainRequests DEF Requested
  <2>3. CASE main'.next = main.next /\ main'.call # Outside
    BY <1>2, <2>3 DEF Requested
  <2> QED  BY <1>2, <2>1, <2>2, <2>3
<1>5. r.requests \subseteq Requested
  BY DEF KnowsRequested
<1>6. q.id = i /\ q.ledger = r.ledger /\ q.requests \subseteq r.requests \cup {i}
  BY <1>1, <1>3, TouchedFields
<1>7. q.ledger = replica[i].ledger /\ q.requests \subseteq Requested'
  BY <1>4, <1>5, <1>6
<1> QED  BY <1>3, <1>4, <1>6, <1>7, RunWritesNothing

\* When main only looks, it enters or goes on.
LEMMA MainLooksWritesNothing ==
  ASSUME TypeOK, KnowsRequested, NEW i \in Replica, MainLooks(i)
  PROVE  /\ Requested' = Requested \/ Requested' = Requested \cup {i}
         /\ KnowsRequested' /\ NobodyWrites
<1>1. /\ UNCHANGED replica /\ i = main.next /\ main'.next = main.next /\ main'.call # Outside
  BY MainLooking
<1>2. CASE main.call = Outside
  BY <1>1, <1>2, MainRequests DEF KnowsRequested, NobodyWrites, MainEnters
<1>3. CASE main.call # Outside
  BY <1>1, <1>3 DEF KnowsRequested, NobodyWrites, Requested
<1> QED  BY <1>2, <1>3

\* ... and a primary its own,
LEMMA MainProposesWritesNothing ==
  ASSUME TypeOK, KnowsRequested, NEW i \in Replica, MainProposes(i)
  PROVE  Requested' = Requested \cup {i} /\ KnowsRequested' /\ NobodyWrites
<1> DEFINE r == replica[i]
           known == [r EXCEPT !.requests = @ \cup {i}]
           noted == Equivocate(known)
           sent(lost) == SendPrePrepares(noted, <<i>>, lost)
           q(lost) == IF i \in r.pending THEN r ELSE sent(lost)
<1>1. r \in ReplicaState /\ r.id = i /\ i \in Digest /\ r.view \in Nat
  BY DEF TypeOK, Digest, ReplicaState
<1>2. PICK lost : Run(q(lost), {})
  BY Zenon DEF MainProposes
<1>3. Requested' = Requested \cup {i}
  <2>1. MainEnters(i)
    BY DEF MainProposes
  <2>2. MainReturns \/ \E m : main' = [main EXCEPT !.call = [step |-> "broadcast", msg |-> m]]
    BY Zenon DEF MainProposes
  <2>3. ASSUME NEW m, main' = [main EXCEPT !.call = [step |-> "broadcast", msg |-> m]]
        PROVE  main'.next = main.next /\ main'.call # Outside
    BY <2>3 DEF TypeOK, Outside
  <2> QED  BY <2>1, <2>2, <2>3, MainRequests
<1>4. r.requests \subseteq Requested
  BY DEF KnowsRequested
<1> HIDE DEF r
<1>5. /\ known \in ReplicaState /\ known.id = i
      /\ known.requests = r.requests \cup {i} /\ known.ledger = r.ledger
  BY <1>1 DEF ReplicaState
<1> HIDE DEF known
<1>6. /\ noted \in ReplicaState /\ noted.id = i
      /\ noted.requests = known.requests /\ noted.ledger = known.ledger
  <2> DEFINE n == known.view + 1
  <2>1. n \in Nat
    BY <1>5 DEF ReplicaState
  <2>2. noted = known \/ noted = [known EXCEPT !.view = n]
    BY DEF Equivocate
  <2> HIDE DEF noted, n
  <2>3. CASE noted = [known EXCEPT !.view = n]
    BY <1>5, <2>1, <2>3 DEF ReplicaState
  <2> QED  BY <1>5, <2>2, <2>3
<1> HIDE DEF noted
<1>7. /\ sent(lost) \in ReplicaState /\ sent(lost).id = i /\ sent(lost).ledger = noted.ledger
      /\ sent(lost).requests = noted.requests \cup {i}
  <2>1. <<i>> \in Seq(Digest) /\ Range(<<i>>) = {i}
    BY <1>1 DEF Range
  <2>2. sent(lost).requests = noted.requests \cup Range(<<i>>)
    BY <1>6, <2>1, SendLearns
  <2>3. sent(lost) \in ReplicaState /\ Alike(noted, sent(lost))
    BY <1>1, <1>6, SendOne
  <2> HIDE DEF sent
  <2> QED  BY <1>6, <2>1, <2>2, <2>3 DEF Alike
<1> HIDE DEF sent
<1>8. /\ q(lost) \in ReplicaState /\ q(lost).id = i /\ q(lost).ledger = replica[i].ledger
      /\ q(lost).requests \subseteq Requested'
  <2>1. CASE i \in r.pending
    BY <1>1, <1>3, <1>4, <2>1 DEF r
  <2>2. CASE i \notin r.pending
    BY <1>3, <1>4, <1>5, <1>6, <1>7, <2>2 DEF r
  <2> QED  BY <2>1, <2>2
<1> HIDE DEF q
<1> QED  BY <1>2, <1>3, <1>8, RunWritesNothing

\* ... which that one then stores.
LEMMA MainStoresWritesNothing ==
  ASSUME TypeOK, KnowsRequested, NEW i \in Replica, MainStoresPrePrepare(i)
  PROVE  Requested' = Requested /\ KnowsRequested' /\ NobodyWrites
<1> DEFINE r == replica[i]
           q == StorePrePrepares(r, {main.call.msg})
           stored == {p \in r.preprepares : \A k \in {main.call.msg} : ~SameSlot(p, k)}
                       \cup {main.call.msg}
<1>1. r \in ReplicaState /\ r.id = i /\ r.requests \subseteq Requested
  BY DEF TypeOK, KnowsRequested
<1>2. /\ Run(q, {}) /\ main.call.msg \in PrePrepare
      /\ i = main.next /\ MainReturns /\ main.call # Outside
  BY DEF MainStoresPrePrepare, TypeOK, Calling, Outside
<1>3. Requested' = Requested
  BY <1>2, MainRequests
<1>4. q = [r EXCEPT !.preprepares = stored] /\ stored \in SUBSET PrePrepare
  BY <1>1, <1>2 DEF StorePrePrepares, ReplicaState
<1> HIDE DEF q, stored
<1>5. q \in ReplicaState /\ q.id = i /\ q.ledger = r.ledger /\ q.requests = r.requests
  BY <1>1, <1>4 DEF ReplicaState
<1> QED  BY <1>1, <1>2, <1>3, <1>5, RunWritesNothing

\* Before main has come, nothing happens but main.
LEMMA NothingBeforeMainStep ==
  ASSUME TypeOK, TypeOK', NothingBeforeMain, [Next]_vars
  PROVE  NothingBeforeMain'
<1> SUFFICES ASSUME main'.next = 0, main'.call = Outside
             PROVE  net' = {} /\ \A i \in Replica : replica'[i] = NewReplica(i)
  BY DEF NothingBeforeMain
<1>1. main.next \in Nat
  BY DEF TypeOK
<1>2. CASE UNCHANGED vars
  BY <1>2 DEF vars, NothingBeforeMain
<1>3. CASE Next /\ UNCHANGED main
  <2>1. net = {} /\ \A i \in Replica : replica[i] = NewReplica(i)
    BY <1>3 DEF NothingBeforeMain
  <2>2. \A i \in Replica : ~replica[i].requestTimer.running /\ replica[i].callbacks = {}
    <3>1. ASSUME NEW i \in Replica
          PROVE  ~NewReplica(i).requestTimer.running /\ NewReplica(i).callbacks = {}
      BY DEF NewReplica, NoTimer
    <3> QED  BY <2>1, <3>1
  <2>3. ~Timers
    BY <2>2 DEF Timers, TimerExpires, TimerCallback
  <2>4. ~Main
    <3>1. ASSUME NEW i \in Replica PROVE ~MainLooks(i)
      BY MainLooking
    <3>2. ASSUME NEW i \in Replica PROVE ~(MainTouches(i) \/ MainStoresPrePrepare(i))
      <4>1. main.call = Outside
        BY <1>3
      <4>2. ~MainTouches(i)
        BY <4>1, MainTouching
      <4>3. ~MainStoresPrePrepare(i)
        BY <4>1 DEF MainStoresPrePrepare, Outside
      <4> QED  BY <4>2, <4>3
    <3>3. ASSUME NEW i \in Replica PROVE ~MainProposes(i)
      <4> SUFFICES ASSUME MainProposes(i) PROVE FALSE
        OBVIOUS
      <4>1. MainReturns \/ \E m : main' = [main EXCEPT !.call = [step |-> "broadcast", msg |-> m]]
        BY Zenon DEF MainProposes
      <4>2. ~MainReturns
        <5> SUFFICES ASSUME MainReturns PROVE FALSE
          OBVIOUS
        <5>1. main'.next = main.next + 1
          BY DEF MainReturns
        <5> QED  BY <1>1, <5>1
      <4>3. PICK m : main' = [main EXCEPT !.call = [step |-> "broadcast", msg |-> m]]
        BY <4>1, <4>2
      <4>4. main'.call.step = "broadcast" /\ main'.call.step = "outside"
        BY <4>3 DEF TypeOK, Outside
      <4> QED  BY <4>4
    <3> QED  BY <3>1, <3>2, <3>3, MainSteps
  <2> QED  BY <1>3, <2>1, <2>3, <2>4 DEF Next
<1>4. CASE Next /\ ~UNCHANGED main
  <2>1. Main
    <3>1. ASSUME NEW e \in net, Receive(e) PROVE UNCHANGED main
      BY <3>1 DEF Receive, ReceivePrePrepare, ReceivePrepare, ReceiveCommit,
                  ReceiveViewChange, ReceiveNewView
    <3>2. Timers => UNCHANGED main
      BY DEF Timers, TimerExpires, TimerCallback
    <3> QED  BY <1>4, <3>1, <3>2 DEF Next
  <2>2. ~MainReturns
    <3> SUFFICES ASSUME MainReturns PROVE FALSE
      OBVIOUS
    <3>1. main'.next = main.next + 1
      BY DEF MainReturns
    <3> QED  BY <1>1, <3>1
  <2>3. PICK i \in Replica : MainLooks(i) \/ MainTouches(i) \/ MainProposes(i)
    BY <2>1, <2>2, MainSteps DEF MainStoresPrePrepare
  <2>4. main'.call.step # "outside"
    <3>1. CASE MainLooks(i)
      BY <3>1, MainLooking
    <3>2. CASE MainTouches(i)
      <4>1. main'.call.step \in {"timer", "note"}
        BY <2>2, <3>2, MainTouching
      <4> QED  BY <4>1
    <3>3. CASE MainProposes(i)
      <4>1. MainReturns \/ \E m : main' = [main EXCEPT !.call = [step |-> "broadcast", msg |-> m]]
        BY <3>3, Zenon DEF MainProposes
      <4>2. PICK m : main' = [main EXCEPT !.call = [step |-> "broadcast", msg |-> m]]
        BY <2>2, <4>1
      <4> QED  BY <4>2 DEF TypeOK
    <3> QED  BY <2>3, <3>1, <3>2, <3>3
  <2> QED  BY <2>4 DEF Outside
<1> QED  BY <1>2, <1>3, <1>4

-----------------------------------------------------------------------------
(* The cluster as a log. *)

\* What the log knows of the cluster.
ConsensusInv == LedgerInv /\ NothingBeforeMain /\ (AtMostOneChange => KnowsRequested)

LEMMA ConsensusInitially == Init => ConsensusInv
<1> SUFFICES ASSUME Init PROVE NothingBeforeMain /\ KnowsRequested
  BY LedgerInitially DEF ConsensusInv
<1>1. \A i \in Replica : replica[i] = NewReplica(i)
  BY DEF Init
<1>2. \A i \in Replica : replica[i].requests = {}
  BY DEF Init, NewReplica
<1> QED  BY <1>1, <1>2 DEF Init, NothingBeforeMain, KnowsRequested

\* Each step injects a request, writes one block, or does neither.
LEMMA ConsensusStep ==
  ASSUME NewViewsArrive, ConsensusInv, LedgerInv', AtMostOneChange, AtMostOneChange', Next
  PROVE  /\ KnowsRequested'
         /\ \/ Requested' = Requested /\ (NobodyWrites \/ SomebodyWrites)
            \/ NobodyWrites /\ \E i \in Replica : Requested' = Requested \cup {i}
<1>1. /\ TypeOK /\ SlotInv /\ AgreementInv /\ NothingBeforeMain /\ KnowsRequested
      /\ CarryInv'
  BY DEF ConsensusInv, LedgerInv, AgreementInv, ViewsInv, Inv
<1>2. ASSUME NEW e \in net, Receive(e)
      PROVE  Requested' = Requested /\ KnowsRequested' /\ (NobodyWrites \/ SomebodyWrites)
  BY <1>1, <1>2, ReceiveNormalWrites, ReceiveViewChangeWritesNothing,
     ReceiveNewViewWritesNothing DEF Receive
<1>3. ASSUME Timers PROVE Requested' = Requested /\ KnowsRequested' /\ NobodyWrites
  <2>1. PICK i \in Replica : TimerExpires(i) \/ \E v \in 1 .. MaxView : TimerCallback(i, v)
    BY <1>3 DEF Timers
  <2>2. Requested' = Requested
    BY <1>1, <2>1, MainRequests DEF TimerExpires, TimerCallback
  <2>3. CASE TimerExpires(i)
    <3>1. \A j \in Replica : /\ replica'[j].ledger = replica[j].ledger
                             /\ replica'[j].requests = replica[j].requests
      BY <1>1, <2>3 DEF TimerExpires, TypeOK, ReplicaState
    <3> QED  BY <1>1, <2>2, <3>1 DEF KnowsRequested, NobodyWrites, Correct
  <2>4. ASSUME NEW v \in 1 .. MaxView, TimerCallback(i, v) PROVE KnowsRequested' /\ NobodyWrites
    <3>1. PICK q : Turns(replica[i], q, {}) /\ Run(q, {})
      BY <1>1, <2>4, TimerCallbackTurns
    <3>2. UNCHANGED main
      BY <2>4 DEF TimerCallback
    <3> QED  BY <1>1, <3>1, <3>2, TurnedWritesNothing
  <2> QED  BY <2>1, <2>2, <2>3, <2>4
<1>4. ASSUME Main
      PROVE  /\ KnowsRequested' /\ NobodyWrites
             /\ Requested' = Requested \/ \E i \in Replica : Requested' = Requested \cup {i}
  <2>1. PICK i \in Replica : \/ MainLooks(i) \/ MainTouches(i)
                             \/ MainProposes(i) \/ MainStoresPrePrepare(i)
    BY <1>4, MainSteps
  <2> QED
    BY <1>1, <2>1, MainLooksWritesNothing, MainTouchesWritesNothing, MainProposesWritesNothing,
       MainStoresWritesNothing
<1> QED  BY <1>2, <1>3, <1>4 DEF Next

\* ConsensusInv is inductive when NewViews arrive.
LEMMA ConsensusInductive ==
  ASSUME NewViewsArrive
  PROVE  ConsensusInv /\ [Next]_vars => ConsensusInv'
<1> SUFFICES ASSUME ConsensusInv, [Next]_vars PROVE ConsensusInv'
  OBVIOUS
<1>1. LedgerInv /\ LedgerInv' /\ Inv
  BY LedgerInductive DEF ConsensusInv, LedgerInv, AgreementInv, ViewsInv
<1>2. TypeOK /\ TypeOK'
  BY <1>1 DEF LedgerInv, AgreementInv, ViewsInv, Inv
<1>3. NothingBeforeMain'
  BY <1>2, NothingBeforeMainStep DEF ConsensusInv
<1>4. ASSUME AtMostOneChange' PROVE KnowsRequested'
  <2>1. AtMostOneChange
    BY <1>1, <1>4, OneChangeBefore
  <2>2. CASE Next
    BY <1>1, <1>4, <2>1, <2>2, ConsensusStep
  <2>3. CASE UNCHANGED vars
    BY <2>1, <2>3 DEF vars, ConsensusInv, KnowsRequested, Requested
  <2> QED  BY <2>2, <2>3
<1> QED  BY <1>1, <1>3, <1>4 DEF ConsensusInv

\* The requests of a chain file, as a sequence.
Digests(s) == [k \in DOMAIN s |-> s[k].digest]

LEMMA DigestsAppend ==
  ASSUME NEW s \in Seq(Block), NEW b \in Block
  PROVE  /\ Digests(s) \in Seq(Digest) /\ Len(Digests(s)) = Len(s)
         /\ Digests(Append(s, b)) = Append(Digests(s), b.digest)
<1>1. \A k \in DOMAIN s : s[k].digest \in Digest
  <2>1. \A k \in DOMAIN s : s[k] \in Block
    OBVIOUS
  <2> QED  BY <2>1 DEF Block
<1>2. DOMAIN s = 1 .. Len(s) /\ Len(s) \in Nat
  OBVIOUS
<1>3. Digests(s) \in [1 .. Len(s) -> Digest]
  BY <1>1, <1>2 DEF Digests
<1>4. Digests(s) \in Seq(Digest) /\ Len(Digests(s)) = Len(s)
  BY <1>2, <1>3
<1>5. b.digest \in Digest
  BY DEF Block
<1> DEFINE t == Append(s, b)
           u == Append(Digests(s), b.digest)
<1>6. /\ t \in Seq(Block) /\ Len(t) = Len(s) + 1
      /\ \A k \in 1 .. Len(s) + 1 : t[k] = IF k <= Len(s) THEN s[k] ELSE b
  BY <1>2
<1>7. /\ u \in Seq(Digest) /\ Len(u) = Len(s) + 1
      /\ \A k \in 1 .. Len(s) + 1 : u[k] = IF k <= Len(s) THEN Digests(s)[k] ELSE b.digest
  BY <1>2, <1>4, <1>5
<1>8. DOMAIN t = 1 .. Len(s) + 1 /\ DOMAIN u = 1 .. Len(s) + 1
  BY <1>6, <1>7
<1> HIDE DEF t, u
<1>9. \A k \in 1 .. Len(s) + 1 : t[k].digest = u[k]
  <2>1. \A k \in 1 .. Len(s) : Digests(s)[k] = s[k].digest
    BY <1>2 DEF Digests
  <2> QED  BY <1>2, <1>6, <1>7, <2>1
<1>10. u = [k \in 1 .. Len(s) + 1 |-> u[k]]
  BY <1>7, <1>8
<1>11. Digests(t) = u
  BY <1>8, <1>9, <1>10 DEF Digests
<1> QED  BY <1>4, <1>11 DEF t, u

\* Each step of the cluster is one of the log: what a replica writes is what the
\* others have written at that height, because the ledgers agree after the step.
LEMMA ConsensusStepRefines ==
  ASSUME NewViewsArrive, ConsensusInv, LedgerInv', LedgerAgreement',
         AtMostOneChange, AtMostOneChange', [Next]_vars
  PROVE  [Log!Next]_(Log!vars)
<1> DEFINE led == [i \in Correct |-> Digests(Ledger(i))]
<1>1. /\ TypeOK /\ \A i \in Correct : i \in Replica /\ replica[i].ledger \in Seq(Block)
  BY DEF ConsensusInv, LedgerInv, AgreementInv, ViewsInv, Inv, TypeOK, ReplicaState, Correct
<1>2. NobodyWrites => led' = led
  BY DEF NobodyWrites, Ledger
<1>3. /\ led = [i \in Correct |-> [k \in DOMAIN Ledger(i) |-> Ledger(i)[k].digest]]
      /\ Requested = {i \in Replica : \/ i < main.next
                                      \/ i = main.next /\ main.call # Outside}
  BY DEF Digests, Requested
<1>4. CASE UNCHANGED vars
  BY <1>4 DEF vars, Log!vars, Ledger
<1>5. CASE Requested' = Requested /\ NobodyWrites
  <2>1. led' = led
    BY <1>2, <1>5
  <2> QED  BY <1>5, <2>1 DEF Log!vars, Digests, Requested
<1>6. ASSUME NEW i \in Replica, Requested' = Requested \cup {i}, NobodyWrites
      PROVE  Log!Next
  <2>1. led' = led
    BY <1>2, <1>6
  <2>2. Log!Inject(i)
    BY <1>6, <2>1 DEF Log!Inject, Digests, Requested
  <2> QED  BY <2>2 DEF Log!Next
<1>7. CASE Requested' = Requested /\ SomebodyWrites
  <2>1. PICK i \in Correct, b \in Block :
           /\ b.digest \in Requested
           /\ replica'[i].ledger = Append(replica[i].ledger, b)
           /\ \A j \in Correct \ {i} : replica'[j].ledger = replica[j].ledger
    BY <1>7 DEF SomebodyWrites
  <2> DEFINE d == b.digest
             n == Len(led[i])
  <2>2. led[i] = Digests(replica[i].ledger) /\ n = Len(replica[i].ledger)
    BY <1>1, <2>1, DigestsAppend DEF Ledger
  <2>3. led' = [led EXCEPT ![i] = Append(@, d)]
    <3>1. Digests(replica'[i].ledger) = Append(Digests(replica[i].ledger), d)
      BY <1>1, <2>1, DigestsAppend
    <3>2. \A j \in Correct : Digests(replica'[j].ledger)
                = IF j = i THEN Append(led[j], d) ELSE led[j]
      BY <2>1, <3>1 DEF Ledger
    <3>3. led' = [j \in Correct |-> Digests(replica'[j].ledger)]
      BY DEF Ledger
    <3> HIDE DEF d
    <3> QED  BY <3>2, <3>3
  <2>4. ASSUME NEW j \in Correct, Len(led[j]) > n PROVE led[j][n + 1] = d
    <3>1. n \in Nat /\ Len(led[j]) = Len(replica[j].ledger) /\ Len(replica[j].ledger) \in Nat
      BY <1>1, <2>1, <2>2, DigestsAppend DEF Ledger
    <3>2. n + 1 \in DOMAIN replica[j].ledger
      BY <1>1, <2>4, <3>1
    <3>3. replica'[j].ledger = replica[j].ledger
      BY <2>1, <2>2, <2>4, <3>1
    <3>4. n + 1 \in DOMAIN replica'[i].ledger /\ replica'[i].ledger[n + 1] = b
      BY <1>1, <2>1, <2>2, <3>1
    <3>5. replica'[i].ledger[n + 1].digest = replica'[j].ledger[n + 1].digest
      BY <3>2, <3>3, <3>4 DEF LedgerAgreement, Ledger
    <3> QED  BY <3>2, <3>3, <3>4, <3>5 DEF Ledger, Digests
  <2>5. d \in Replica /\ d \in Requested
    BY <2>1 DEF Requested
  <2>6. Log!Execute(i, d)
    <3> HIDE DEF d
    <3> QED  BY <1>7, <2>3, <2>4, <2>5 DEF Log!Execute, Digests, Requested
  <2> QED  BY <2>5, <2>6 DEF Log!Next
<1>8. CASE Next
  BY <1>5, <1>6, <1>7, <1>8, ConsensusStep
<1> QED  BY <1>4, <1>8

(***************************************************************************)
(* In every cluster in which two quorums meet and the broadcast of a       *)
(* NewView never fails, as long as no correct replica goes beyond its      *)
(* second view, the cluster implements Consensus: the chain files are      *)
(* copies of one log of requests that main has injected, across the view   *)
(* change, with Byzantine replicas, lost broadcasts and failed writes.     *)
(***************************************************************************)
THEOREM ImplementsConsensus ==
  ASSUME QuorumsMeet, NewViewsArrive
  PROVE  Spec /\ []AtMostOneChange => RefinesConsensus
<1>1. Init => Log!Init
  <2> SUFFICES ASSUME Init PROVE Log!Init
    OBVIOUS
  <2>1. main.next = 0 /\ main.call = Outside
    BY DEF Init
  <2>2. {i \in Replica : i < main.next \/ (i = main.next /\ main.call # Outside)} = {}
    BY <2>1 DEF Replica
  <2>3. ASSUME NEW i \in Correct PROVE Ledger(i) = <<>>
    BY DEF Init, NewReplica, Ledger, Correct
  <2>4. ASSUME NEW i \in Correct
        PROVE  [k \in DOMAIN Ledger(i) |-> Ledger(i)[k].digest] = <<>>
    BY <2>3
  <2>5. [i \in Correct |-> [k \in DOMAIN Ledger(i) |-> Ledger(i)[k].digest]]
          = [i \in Correct |-> <<>>]
    BY <2>4
  <2> QED  BY <2>2, <2>5 DEF Log!Init
<1>2. ConsensusInv => LedgerInv /\ (AtMostOneChange => LedgerAgreement)
  BY BlocksAgree DEF ConsensusInv
<1>3. /\ ConsensusInv /\ LedgerInv' /\ LedgerAgreement'
      /\ AtMostOneChange /\ AtMostOneChange' /\ [Next]_vars
      => [Log!Next]_(Log!vars)
  BY ConsensusStepRefines
<1>4. ConsensusInv /\ [Next]_vars => ConsensusInv'
  BY ConsensusInductive
<1> QED  BY <1>1, <1>2, <1>3, <1>4, ConsensusInitially, PTL DEF Spec, RefinesConsensus, Log!Spec

-----------------------------------------------------------------------------
(* Certificates, over any number of view changes. *)

\* Replica r is certified for the digest d in the slot (v, s), or has left the view
\* with the certificate, or f failures may have cost its report.
Vouches(r, v, s, d, f) ==
    IF r.view = v
      THEN Prepared(r, v, s, d)
      ELSE r.view > v /\ (HasReported(r, v, s, d) \/ f > 0)

VouchesFor(r, m, f) == Vouches(r, m.view, m.seq, m.digest, f)

\* The failures that are counted when a method leaves q behind.
After(q, f) == IF q.failed THEN f + 1 ELSE f

\* Replica r has recorded ViewChanges of its own for views only that it has reached,
\* and has never been sent one by itself: so when it starts a view change it has
\* no receipt that stands in the way of the new one.
Own(r) == \A x \in r.viewChanges : x.from = r.id => x.msg.view <= r.view

OwnReports ==
    /\ \A e \in net : e.from # e.to
    /\ \A i \in Correct : Own(replica[i])

\* A method that takes r to q drops no report, and when it leaves an active view it
\* reports the certificates of r, unless something fails.
Recounts(r, q) ==
    /\ r.viewChanges \subseteq q.viewChanges
    /\ r.activeView /\ q.view > r.view =>
          \/ q.failed
          \/ \E x \in q.viewChanges : /\ x.from = r.id /\ x.msg.view > r.view
                                      /\ x.msg.prepares = GetPrepareSet(r)

\* Every Commit comes from a correct replica that vouches for it.
CommitsVouched ==
    /\ \A e \in net : e.msg.type = "Commit" =>
          e.from \in Correct /\ VouchesFor(replica[e.from], e.msg, failures)
    /\ \A i \in Correct : \A x \in replica[i].commits :
          x.from \in Correct /\ VouchesFor(replica[x.from], x.msg, failures)

\* A quorum of correct replicas vouches for every block.
Vouchers(b) == {j \in Correct : VouchesFor(replica[j], b, failures)}

BlocksVouched ==
    \A i \in Correct : \A k \in DOMAIN replica[i].ledger :
       Cardinality(Vouchers(replica[i].ledger[k])) >= CommitQuorum

\* A method that takes r to q upholds what r vouches for, its new Commits are its
\* own, which it vouches for, or those of H, and it writes only in a slot with a
\* quorum of Commits.
Upholds(r, q, H) ==
    /\ \A v, s \in Nat : \A d \in Digest : \A f \in Nat :
          Vouches(r, v, s, d, f) => Vouches(q, v, s, d, After(q, f))
    /\ Own(q)
    /\ \A x \in q.commits : \/ x \in r.commits \/ x \in H
                            \/ x.from = r.id /\ \A f \in Nat : VouchesFor(q, x.msg, f)
    /\ \A o \in q.outbox :
          o \in r.outbox \/ (o.msg.type = "Commit" => \A f \in Nat : VouchesFor(q, o.msg, f))
    /\ \A k \in DOMAIN q.ledger :
          \/ k \in DOMAIN r.ledger /\ q.ledger[k] = r.ledger[k]
          \/ LET b == q.ledger[k] IN
             b.view = q.view /\ Cardinality(CommitsOf(q, b.view, b.seq)) >= CommitQuorum

\* A replica is certified in views only that it has been active in.
LEMMA PreparedActive ==
  ASSUME NEW r \in ReplicaState, Clean(r), NEW v, NEW s, NEW d, Prepared(r, v, s, d)
  PROVE  v < r.view \/ (v = r.view /\ r.activeView)
<1>1. PICK x \in r.prepares : x.msg.view = v /\ x.msg.seq = s
  BY CertifiedHolds
<1> QED  BY <1>1 DEF Clean

\* What is prepared is in a replica's certificates.
LEMMA PreparedReported ==
  ASSUME NEW r \in ReplicaState, NEW v, NEW s, NEW d, Prepared(r, v, s, d)
  PROVE  \E p \in GetPrepareSet(r) : p.view = v /\ p.seq = s /\ p.digest = d
<1>1. PICK p \in r.preprepares : p.view = v /\ p.seq = s /\ p.digest = d
  BY DEF Prepared, PrePrepared
<1> DEFINE c == [view |-> p.view, seq |-> p.seq, digest |-> p.digest,
                 prepares |-> PreparesOf(r, p.view, p.seq)]
<1>2. c \in GetPrepareSet(r)
  BY <1>1 DEF GetPrepareSet
<1>3. c.view = v /\ c.seq = s /\ c.digest = d
  BY <1>1
<1> QED  BY <1>2, <1>3

\* A replica upholds what it vouches for when it leaves its view and reports what it
\* has, or when it enters one that it has not been active in,
LEMMA LeavingVouches ==
  ASSUME NEW r \in ReplicaState, Clean(r), NEW q \in ReplicaState, q.id = r.id,
         Recounts(r, q), q.view > r.view \/ (q.view = r.view /\ ~r.activeView)
  PROVE  \A v, s \in Nat : \A d \in Digest : \A f \in Nat :
            Vouches(r, v, s, d, f) => Vouches(q, v, s, d, After(q, f))
<1>1. r.view \in Nat /\ q.view \in Nat /\ r.activeView \in BOOLEAN
  BY DEF ReplicaState
<1> SUFFICES ASSUME NEW v \in Nat, NEW s \in Nat, NEW d \in Digest, NEW f \in Nat,
                    Vouches(r, v, s, d, f)
             PROVE  q.view > v /\ (HasReported(q, v, s, d) \/ After(q, f) > 0)
  BY <1>1 DEF Vouches
<1>2. CASE r.view = v
  <2>1. Prepared(r, v, s, d)
    BY <1>2 DEF Vouches
  <2>2. r.activeView
    BY <1>1, <1>2, <2>1, PreparedActive
  <2>3. q.view > r.view
    BY <2>2
  <2>4. CASE q.failed
    BY <1>2, <2>3, <2>4 DEF After
  <2>5. CASE ~q.failed
    <3>1. PICK x \in q.viewChanges : /\ x.from = r.id /\ x.msg.view > r.view
                                     /\ x.msg.prepares = GetPrepareSet(r)
      BY <2>2, <2>3, <2>5 DEF Recounts
    <3>2. HasReported(q, v, s, d)
      BY <1>2, <2>1, <3>1, PreparedReported DEF HasReported
    <3> QED  BY <1>2, <2>3, <3>2
  <2> QED  BY <2>4, <2>5
<1>3. CASE r.view # v
  <2>1. r.view > v /\ (HasReported(r, v, s, d) \/ f > 0)
    BY <1>3 DEF Vouches
  <2>2. HasReported(r, v, s, d) => HasReported(q, v, s, d)
    BY DEF HasReported, Recounts
  <2>3. f > 0 => After(q, f) > 0
    BY DEF After
  <2>4. q.view > v
    BY <1>1, <2>1
  <2> QED  BY <2>1, <2>2, <2>3, <2>4
<1> QED  BY <1>2, <1>3

\* ... and when it stays and keeps its certificates.
LEMMA StayingVouches ==
  ASSUME NEW r \in ReplicaState, NEW q \in ReplicaState, q.id = r.id, q.view = r.view,
         r.requests \subseteq q.requests, r.prepares \subseteq q.prepares,
         r.viewChanges \subseteq q.viewChanges,
         \A p \in r.preprepares : \E k \in q.preprepares : IsFor(k, p.view, p.seq, p.digest)
  PROVE  \A v, s \in Nat : \A d \in Digest : \A f \in Nat :
            Vouches(r, v, s, d, f) => Vouches(q, v, s, d, After(q, f))
<1> SUFFICES ASSUME NEW v \in Nat, NEW s \in Nat, NEW d \in Digest, NEW f \in Nat
             PROVE  /\ Prepared(r, v, s, d) => Prepared(q, v, s, d)
                    /\ HasReported(r, v, s, d) => HasReported(q, v, s, d)
                    /\ f > 0 => After(q, f) > 0
  BY DEF Vouches
<1>1. PrePrepared(r, v, s, d) => PrePrepared(q, v, s, d)
  BY DEF PrePrepared, IsFor
<1>2. Prepared(r, v, s, d) => Prepared(q, v, s, d)
  BY <1>1, PreparedGrows
<1>3. HasReported(r, v, s, d) => HasReported(q, v, s, d)
  BY DEF HasReported
<1>4. f > 0 => After(q, f) > 0
  BY DEF After
<1> QED  BY <1>2, <1>3, <1>4

\* A replica that turns reports what it has.
LEMMA TurnsRecounts ==
  ASSUME NEW r \in ReplicaState, Own(r), NEW H, \A x \in H : x.from # r.id,
         NEW q, Turns(r, q, H)
  PROVE  Recounts(r, q) /\ Own(q)
<1>1. /\ q \in ReplicaState /\ q.id = r.id /\ r.viewChanges \subseteq q.viewChanges
      /\ q.view = r.view \/ q.view > r.view
      /\ r.view \in Nat /\ q.view \in Nat
  BY DEF Turns, ReplicaState
<1>2. ASSUME NEW x \in q.viewChanges, x.from = r.id
      PROVE  \/ x \in r.viewChanges /\ x.msg.view <= r.view
             \/ /\ q.view > r.view /\ x.msg.view = q.view
                /\ x.msg.prepares = GetPrepareSet(r)
  <2>1. CASE x \in r.viewChanges
    BY <1>2, <2>1 DEF Own
  <2>2. CASE q.view > r.view /\ x.msg = ViewChangeFor(r, q.view)
    BY <2>2 DEF ViewChangeFor
  <2> QED  BY <1>2, <2>1, <2>2 DEF Turns
<1>3. \A x \in q.viewChanges : x.msg.view \in Nat
  BY <1>1, NamedViews
<1>4. Own(q)
  BY <1>1, <1>2, <1>3 DEF Own
<1>5. ASSUME q.view > r.view, ~q.failed
      PROVE  \E x \in q.viewChanges : /\ x.from = r.id /\ x.msg.view > r.view
                                      /\ x.msg.prepares = GetPrepareSet(r)
  <2>1. PICK x \in q.viewChanges : x.from = r.id /\ x.msg.view = q.view
    BY <1>5 DEF Turns
  <2>2. x.msg.prepares = GetPrepareSet(r)
    BY <1>1, <1>2, <1>5, <2>1
  <2> QED  BY <1>5, <2>1, <2>2
<1> QED  BY <1>1, <1>4, <1>5 DEF Recounts

\* A handler of the normal case sends a Commit when it is certified, and writes
\* when it has a quorum of Commits.
LEMMA HandlesUpholds ==
  ASSUME NEW e, replica[e.to] \in ReplicaState, Own(replica[e.to]), NEW q, NEW H,
         Handles(e, q, H)
  PROVE  Upholds(replica[e.to], q, H)
<1> DEFINE r == replica[e.to]
           m == e.msg
           b == [view |-> m.view, seq |-> m.seq, digest |-> m.digest]
<1>1. /\ Attests(r, q, m.view, m.seq, m.digest, H) /\ Echoes(r, q, {m})
      /\ q = r \/ m.view = r.view
  BY DEF Handles
<1> HIDE DEF r, m
<1>2. Adds(r, q) /\ q \in ReplicaState /\ q.view = r.view
  BY <1>1 DEF Attests, Adds
<1>3. /\ \A v, s \in Nat : \A d \in Digest : \A f \in Nat :
            Vouches(r, v, s, d, f) => Vouches(q, v, s, d, After(q, f))
      /\ Own(q)
  <2>1. \A p \in r.preprepares : \E k \in q.preprepares : IsFor(k, p.view, p.seq, p.digest)
    BY <1>2 DEF Adds, IsFor
  <2> QED  BY <1>2, <2>1, StayingVouches DEF Adds, Own, r
<1>4. ASSUME NEW x \in q.commits
      PROVE  \/ x \in r.commits \/ x \in H
             \/ x.from = r.id /\ \A f \in Nat : VouchesFor(q, x.msg, f)
  <2>1. CASE x \in r.commits \/ q = r
    BY <1>4, <2>1
  <2>2. CASE x.from = r.id /\ Prepared(q, m.view, m.seq, m.digest) /\ Echo(x.msg, {m}) /\ q # r
    BY <1>1, <1>2, <2>2 DEF Echo, IsFor, VouchesFor, Vouches
  <2> QED  BY <1>1, <1>4, <2>1, <2>2 DEF Attests, Echoes, Repeats
<1>5. ASSUME NEW o \in q.outbox, o \notin r.outbox, o.msg.type = "Commit"
      PROVE  \A f \in Nat : VouchesFor(q, o.msg, f)
  <2>1. Prepared(q, m.view, m.seq, m.digest) /\ q.view = m.view
    BY <1>1, <1>2, <1>5 DEF Attests
  <2>2. Echo(o.msg, {m})
    BY <1>1, <1>5 DEF Echoes, Repeats
  <2> QED  BY <2>1, <2>2 DEF Echo, IsFor, VouchesFor, Vouches
<1>6. ASSUME NEW k \in DOMAIN q.ledger
      PROVE  \/ k \in DOMAIN r.ledger /\ q.ledger[k] = r.ledger[k]
             \/ LET c == q.ledger[k] IN
                c.view = q.view /\ Cardinality(CommitsOf(q, c.view, c.seq)) >= CommitQuorum
  <2>1. CASE q.ledger = r.ledger
    BY <2>1
  <2>2. CASE q.ledger # r.ledger
    <3>1. Committed(q, m.view, m.seq, m.digest) /\ q.ledger = Append(r.ledger, b) /\ q # r
      BY <1>1, <2>2 DEF Attests
    <3>2. r.ledger \in Seq(Block)
      BY DEF ReplicaState, r
    <3>3. b.view = m.view /\ b.seq = m.seq
      OBVIOUS
    <3> HIDE DEF b
    <3>4. q.ledger[k] = b \/ (k \in DOMAIN r.ledger /\ q.ledger[k] = r.ledger[k])
      BY <3>1, <3>2
    <3>5. b.view = q.view /\ Cardinality(CommitsOf(q, b.view, b.seq)) >= CommitQuorum
      BY <1>1, <1>2, <3>1, <3>3 DEF Committed
    <3> QED  BY <3>4, <3>5
  <2> QED  BY <2>1, <2>2
<1> QED  BY <1>3, <1>4, <1>5, <1>6 DEF Upholds, r

\* A replica that turns keeps its receipts, and says nothing but a ViewChange.
LEMMA TurnsUpholds ==
  ASSUME NEW r \in ReplicaState, Clean(r), Own(r), NEW H, \A x \in H : x.from # r.id,
         NEW q, Turns(r, q, H)
  PROVE  Upholds(r, q, {})
<1>1. q \in ReplicaState /\ q.id = r.id
  BY DEF Turns
<1>2. Recounts(r, q) /\ Own(q)
  BY TurnsRecounts
<1>3. \A v, s \in Nat : \A d \in Digest : \A f \in Nat :
         Vouches(r, v, s, d, f) => Vouches(q, v, s, d, After(q, f))
  <2>1. CASE q.view = r.view
    BY <1>1, <2>1, StayingVouches DEF Turns, IsFor
  <2>2. CASE q.view > r.view
    BY <1>1, <1>2, <2>2, LeavingVouches
  <2> QED  BY <2>1, <2>2 DEF Turns
<1>4. \A o \in q.outbox : o \in r.outbox \/ o.msg.type # "Commit"
  BY DEF Turns, ViewChangeFor
<1> QED  BY <1>2, <1>3, <1>4 DEF Upholds, Turns

\* A backup that accepts pre-prepares answers with Prepares only.
LEMMA AcceptCommits ==
  ASSUME NEW r \in ReplicaState, NEW ms \in SUBSET PrePrepare, NEW lost
  PROVE  LET q == AcceptPrePrepares(r, ms, lost) IN
         /\ q \in ReplicaState /\ q.commits = r.commits
         /\ q.id = r.id /\ q.viewChanges = r.viewChanges
         /\ \A o \in q.outbox : o \in r.outbox \/ o.msg.type = "Prepare"
<1> DEFINE q == AcceptPrePrepares(r, ms, lost)
<1>1. Attests(r, q, -1, 0, 0, {})
  BY AcceptAttests
<1> HIDE DEF q
<1>2. q \in ReplicaState /\ Adds(r, q)
  BY <1>1 DEF Attests, Adds
<1>3. ~Prepared(q, -1, 0, 0)
  <2>1. \A p \in q.preprepares : p.view \in Nat
    BY <1>2 DEF ReplicaState, PrePrepare
  <2> QED  BY <2>1 DEF Prepared, PrePrepared
<1> QED  BY <1>1, <1>2, <1>3 DEF Attests, Adds, q

\* A replica that enters a view by a NewView says Prepares only.
LEMMA ProcessNewViewUpholds ==
  ASSUME NEW r \in ReplicaState, Clean(r), Own(r), ~r.activeView,
         NEW from \in Replica, NEW m \in NewView, NEW lost
  PROVE  Upholds(r, ProcessNewView(r, from, m, lost), {})
<1> DEFINE moved == [r EXCEPT !.view = m.view, !.activeView = TRUE]
           entered == CleanupState(moved, m.view)
           ms == Range(m.preprepares)
           taken == AcceptPrePrepares(entered, ms, lost)
           timed == StartRequestTimer(taken, FALSE)
           q == ProcessNewView(r, from, m, lost)
<1>1. m.view \in Nat /\ r.view \in Nat /\ m.preprepares \in Seq(PrePrepare)
  BY DEF NewView, ReplicaState
<1>2. CASE q = r
  <2>1. Recounts(r, r) /\ r.view = r.view
    BY <1>1 DEF Recounts
  <2> QED  BY <1>2, <2>1, LeavingVouches DEF Upholds
<1>3. CASE q # r
  <2>1. q.view = m.view /\ m.view >= r.view
    BY <1>3, ProcessNewViewFills
  <2>2. q \in {r, taken, timed}
    BY Zenon DEF ProcessNewView
  <2>3. /\ moved \in ReplicaState /\ moved.commits = r.commits /\ moved.outbox = r.outbox
        /\ moved.id = r.id /\ moved.viewChanges = r.viewChanges
    BY <1>1 DEF ReplicaState
  <2>4. ms \in SUBSET PrePrepare
    BY <1>1 DEF Range
  <2> HIDE DEF moved, ms
  <2>5. /\ entered \in ReplicaState
        /\ entered.commits \subseteq r.commits /\ entered.outbox = r.outbox
        /\ entered.id = r.id /\ entered.viewChanges = r.viewChanges
    BY <1>1, <2>3, CleanupType DEF CleanupState, ReplicaState
  <2> HIDE DEF entered
  <2>6. /\ taken \in ReplicaState /\ taken.commits = entered.commits
        /\ taken.id = r.id /\ taken.viewChanges = r.viewChanges
        /\ \A o \in taken.outbox : o \in entered.outbox \/ o.msg.type = "Prepare"
    BY <2>4, <2>5, AcceptCommits
  <2> HIDE DEF taken
  <2>7. /\ timed \in ReplicaState /\ timed.commits = taken.commits
        /\ timed.outbox = taken.outbox
        /\ timed.id = r.id /\ timed.viewChanges = r.viewChanges
    BY <2>6, StartTimerKeeps DEF Keeps, StartRequestTimer, TargetView, ReplicaState
  <2> HIDE DEF timed, q
  <2>8. /\ q \in ReplicaState /\ q.commits \subseteq r.commits
        /\ q.id = r.id /\ q.viewChanges = r.viewChanges
        /\ \A o \in q.outbox : o \in r.outbox \/ o.msg.type = "Prepare"
    BY <1>3, <2>2, <2>5, <2>6, <2>7
  <2>9. q.ledger = r.ledger
    BY <1>3, ProcessNewViewKeeps DEF q
  <2>10. \A v, s \in Nat : \A d \in Digest : \A f \in Nat :
            Vouches(r, v, s, d, f) => Vouches(q, v, s, d, After(q, f))
    <3>1. q.view > r.view \/ q.view = r.view
      BY <1>1, <2>1
    <3>2. Recounts(r, q)
      BY <2>8 DEF Recounts
    <3> QED  BY <2>8, <3>1, <3>2, LeavingVouches
  <2>11. Own(q)
    <3>1. \A x \in r.viewChanges : x.msg.view \in Nat
      BY NamedViews
    <3> QED  BY <1>1, <2>1, <2>8, <3>1 DEF Own
  <2> QED  BY <2>8, <2>9, <2>10, <2>11 DEF Upholds, q
<1> QED  BY <1>2, <1>3

\* A primary that opens a view that it has not been active in drops what it held,
\* and has reported it.
LEMMA StartsUpholds ==
  ASSUME NEW r \in ReplicaState, Clean(r), Own(r), NEW H, \A x \in H : x.from # r.id,
         NEW j, Turns(r, j, H),
         NEW v \in Nat, j.view <= v, v > r.view \/ (v = r.view /\ ~r.activeView),
         NEW pps, NEW q, Starts(j, q, v, pps), q.view = v,
         q.viewChanges = RecordViewChangeReceipt(j, j.id, ViewChangeFor(j, v)).viewChanges
  PROVE  Upholds(r, q, {})
<1>1. /\ q \in ReplicaState /\ q.ledger = r.ledger /\ q.commits \subseteq r.commits
      /\ j \in ReplicaState /\ j.id = r.id /\ q.id = r.id /\ (j.failed => q.failed)
      /\ r.view \in Nat /\ j.view \in Nat
      /\ j.view = r.view \/ j.view > r.view
      /\ r.viewChanges \subseteq j.viewChanges
  BY DEF Turns, Starts, ReplicaState
<1>2. \A o \in q.outbox : o \in r.outbox \/ o.msg.type # "Commit"
  BY DEF Turns, Starts, ViewChangeFor
<1>3. Recounts(r, j) /\ Own(j)
  BY TurnsRecounts
<1> DEFINE vc == ViewChangeFor(j, v)
           x == [from |-> j.id, msg |-> vc]
<1>4. vc.view = v /\ vc.prepares = GetPrepareSet(r)
  <2>1. vc = ViewChangeFor(r, v)
    BY SameViewChange DEF Turns
  <2> HIDE DEF vc
  <2> QED  BY <2>1 DEF ViewChangeFor
<1>5. x.from = r.id /\ x.msg = vc
  BY <1>1
<1>6. \/ q.viewChanges = j.viewChanges /\ \E y \in j.viewChanges : y.from = j.id /\ y.msg.view = v
      \/ q.viewChanges = j.viewChanges \cup {x}
  <2>1. \/ /\ RecordViewChangeReceipt(j, j.id, vc) = j
           /\ \E y \in j.viewChanges : y.from = j.id /\ y.msg.view = vc.view
        \/ RecordViewChangeReceipt(j, j.id, vc) = [j EXCEPT !.viewChanges = @ \cup {x}]
    BY Zenon DEF RecordViewChangeReceipt
  <2> HIDE DEF vc, x
  <2> QED  BY <1>1, <1>4, <2>1 DEF ReplicaState, vc
<1> HIDE DEF vc, x
<1>7. Own(q)
  <2>1. \A y \in j.viewChanges : y.msg.view \in Nat
    BY <1>1, NamedViews
  <2> QED  BY <1>1, <1>3, <1>4, <1>5, <1>6, <2>1 DEF Own
<1>8. Recounts(r, q)
  <2>1. r.viewChanges \subseteq q.viewChanges /\ j.viewChanges \subseteq q.viewChanges
    BY <1>1, <1>6
  <2>2. ASSUME r.activeView
        PROVE  q.failed \/ \E y \in q.viewChanges : /\ y.from = r.id /\ y.msg.view > r.view
                                                    /\ y.msg.prepares = GetPrepareSet(r)
    <3>1. CASE j.view > r.view
      BY <1>1, <1>3, <2>1, <2>2, <3>1 DEF Recounts
    <3>2. CASE j.view = r.view
      <4>1. v > r.view
        BY <2>2
      <4>2. ~ \E y \in j.viewChanges : y.from = j.id /\ y.msg.view = v
        BY <1>1, <1>3, <3>2, <4>1 DEF Own
      <4> QED  BY <1>4, <1>5, <1>6, <4>1, <4>2
    <3> QED  BY <1>1, <3>1, <3>2
  <2> QED  BY <2>1, <2>2 DEF Recounts
<1>9. \A w, s \in Nat : \A d \in Digest : \A f \in Nat :
         Vouches(r, w, s, d, f) => Vouches(q, w, s, d, After(q, f))
  BY <1>1, <1>8, LeavingVouches
<1> QED  BY <1>1, <1>2, <1>7, <1>9 DEF Upholds

\* A method that proposes at most holds what it held.
LEMMA AlikeUpholds ==
  ASSUME NEW r \in ReplicaState, Own(r), NEW q \in ReplicaState, Alike(r, q),
         \A o \in q.outbox : o.msg.type # "Commit"
  PROVE  Upholds(r, q, {})
<1>1. \A v, s \in Nat : \A d \in Digest : \A f \in Nat :
         Vouches(r, v, s, d, f) => Vouches(q, v, s, d, After(q, f))
  BY StayingVouches DEF Alike, IsFor
<1> QED  BY <1>1 DEF Upholds, Alike, Own

-----------------------------------------------------------------------------
(* Every action upholds what is vouched for. *)

\* A step in which correct replicas uphold what they vouch for, write in a slot
\* with a quorum of Commits only, and leave no Commit unvouched.
VouchingStep ==
    /\ CommitsVouched' /\ OwnReports'
    /\ \A j \in Correct : \A v, s \in Nat : \A d \in Digest :
          Vouches(replica[j], v, s, d, failures) => Vouches(replica'[j], v, s, d, failures')
    /\ \A j \in Correct : \A k \in DOMAIN replica'[j].ledger :
          \/ k \in DOMAIN replica[j].ledger /\ replica'[j].ledger[k] = replica[j].ledger[k]
          \/ LET b == replica'[j].ledger[k] IN
             /\ b.view = replica'[j].view
             /\ Cardinality(CommitsOf(replica'[j], b.view, b.seq)) >= CommitQuorum

\* What a replica vouches for, and what it has counted, depends on what it holds.
LEMMA AlikeVouches ==
  ASSUME NEW r, NEW q, Alike(r, q)
  PROVE  /\ \A v, s, d, f : Vouches(r, v, s, d, f) => Vouches(q, v, s, d, f)
         /\ \A v, s : CommitsOf(q, v, s) = CommitsOf(r, v, s)
         /\ Own(r) => Own(q)
<1>1. \A v, s, d : Prepared(r, v, s, d) => Prepared(q, v, s, d)
  BY DEF Alike, Prepared, PrePrepared, PreparesOf
<1>2. \A v, s, d : HasReported(r, v, s, d) => HasReported(q, v, s, d)
  BY DEF Alike, HasReported
<1>3. \A v, s, d, f : Vouches(r, v, s, d, f) => Vouches(q, v, s, d, f)
  BY <1>1, <1>2 DEF Alike, Vouches
<1>4. \A v, s : CommitsOf(q, v, s) = CommitsOf(r, v, s)
  BY DEF Alike, CommitsOf
<1>5. Own(r) => Own(q)
  BY DEF Alike, Own
<1> QED  BY <1>3, <1>4, <1>5

\* The names of the slots in Commits.
LEMMA CommitSlots ==
  ASSUME TypeOK
  PROVE  /\ \A e \in net : e.msg.type = "Commit" =>
              e.msg.view \in Nat /\ e.msg.seq \in Nat /\ e.msg.digest \in Digest
         /\ \A i \in Replica : \A x \in replica[i].commits :
              x.msg.view \in Nat /\ x.msg.seq \in Nat /\ x.msg.digest \in Digest
BY SlotTypes DEF NormalCase

\* A step in which every replica upholds what it vouches for: what has been said
\* before stays vouched for.
LEMMA RunVouches ==
  ASSUME TypeOK, CommitsVouched, OwnReports, NEW i \in Replica, NEW q \in ReplicaState, q.id = i,
         NEW H, i \in Correct => Upholds(replica[i], q, H),
         \A x \in H : /\ x.from \in Correct /\ VouchesFor(replica[x.from], x.msg, failures)
                      /\ x.msg.view \in Nat /\ x.msg.seq \in Nat /\ x.msg.digest \in Digest,
         i \notin Correct => \A o \in q.outbox : o.msg.type # "Commit",
         NEW consumed, Run(q, consumed)
  PROVE  VouchingStep
<1>1. /\ \A j \in Replica \ {i} : replica'[j] = replica[j]
      /\ replica'[i] = Returned(q)
      /\ replica[i].outbox = {}
      /\ \A j \in Correct : j \in Replica
      /\ failures' = After(q, failures)
      /\ failures \in Nat /\ failures' \in Nat
  BY DEF Run, TypeOK, Correct, After
<1>2. \A e \in net' : e \in net \/ /\ e.from = i /\ e.to \in Correct \ {i}
                                   /\ \E o \in q.outbox : e.msg = o.msg
  BY RunSays
<1>3. Alike(q, Returned(q))
  BY ReturnedAlike
<1>4. /\ \A v, s, d, f : Vouches(q, v, s, d, f) => Vouches(replica'[i], v, s, d, f)
      /\ Own(q) => Own(replica'[i])
      /\ \A v, s : CommitsOf(replica'[i], v, s) = CommitsOf(q, v, s)
      /\ replica'[i].view = q.view /\ replica'[i].commits = q.commits
      /\ replica'[i].ledger = q.ledger
  BY <1>1, <1>3, AlikeVouches DEF Alike
<1>5. \A j \in Correct : \A v, s \in Nat : \A d \in Digest :
         Vouches(replica[j], v, s, d, failures) => Vouches(replica'[j], v, s, d, failures')
  <2> SUFFICES ASSUME NEW j \in Correct, NEW v \in Nat, NEW s \in Nat, NEW d \in Digest,
                      Vouches(replica[j], v, s, d, failures)
               PROVE  Vouches(replica'[j], v, s, d, failures')
    OBVIOUS
  <2>1. CASE j = i
    BY <1>1, <1>4, <2>1 DEF Upholds
  <2>2. CASE j # i
    <3>1. failures > 0 => failures' > 0
      BY <1>1 DEF After
    <3>2. replica'[j] = replica[j]
      BY <1>1, <2>2
    <3> QED  BY <3>1, <3>2 DEF Vouches
  <2> QED  BY <2>1, <2>2
<1>6. \A e \in net' : e.msg.type = "Commit" =>
         e.from \in Correct /\ VouchesFor(replica'[e.from], e.msg, failures')
  <2> SUFFICES ASSUME NEW e \in net', e.msg.type = "Commit"
               PROVE  e.from \in Correct /\ VouchesFor(replica'[e.from], e.msg, failures')
    OBVIOUS
  <2>1. CASE e \in net
    <3>1. e.from \in Correct /\ VouchesFor(replica[e.from], e.msg, failures)
      BY <2>1 DEF CommitsVouched
    <3> QED  BY <1>5, <2>1, <3>1, CommitSlots DEF VouchesFor
  <2>2. CASE e \notin net
    <3>1. PICK o \in q.outbox : e.from = i /\ e.msg = o.msg
      BY <1>2, <2>2
    <3>2. i \in Correct
      BY <3>1
    <3>3. VouchesFor(q, e.msg, failures')
      BY <1>1, <3>1, <3>2 DEF Upholds
    <3> QED  BY <1>4, <3>1, <3>2, <3>3 DEF VouchesFor
  <2> QED  BY <2>1, <2>2
<1>7. \A j \in Correct : \A x \in replica'[j].commits :
         x.from \in Correct /\ VouchesFor(replica'[x.from], x.msg, failures')
  <2> SUFFICES ASSUME NEW j \in Correct, NEW x \in replica'[j].commits
               PROVE  x.from \in Correct /\ VouchesFor(replica'[x.from], x.msg, failures')
    OBVIOUS
  <2>1. CASE x \in replica[j].commits
    <3>1. x.from \in Correct /\ VouchesFor(replica[x.from], x.msg, failures)
      BY <2>1 DEF CommitsVouched
    <3> QED  BY <1>1, <1>5, <2>1, <3>1, CommitSlots DEF VouchesFor
  <2>2. CASE x \notin replica[j].commits
    <3>1. j = i /\ x \in q.commits
      BY <1>1, <1>4, <2>2
    <3>2. x \in H \/ (x.from = i /\ VouchesFor(q, x.msg, failures'))
      <4>1. replica[i].id = i
        BY DEF TypeOK
      <4> QED  BY <1>1, <2>2, <3>1, <4>1 DEF Upholds
    <3>3. CASE x \in H
      BY <1>5, <3>3 DEF VouchesFor
    <3>4. CASE x.from = i /\ VouchesFor(q, x.msg, failures')
      BY <1>4, <3>1, <3>4 DEF VouchesFor
    <3> QED  BY <3>2, <3>3, <3>4
  <2> QED  BY <2>1, <2>2
<1>8. ASSUME NEW j \in Correct, NEW k \in DOMAIN replica'[j].ledger
      PROVE  \/ k \in DOMAIN replica[j].ledger /\ replica'[j].ledger[k] = replica[j].ledger[k]
             \/ LET b == replica'[j].ledger[k] IN
                /\ b.view = replica'[j].view
                /\ Cardinality(CommitsOf(replica'[j], b.view, b.seq)) >= CommitQuorum
  <2>1. CASE j = i
    BY <1>4, <1>8, <2>1 DEF Upholds
  <2>2. CASE j # i
    BY <1>1, <1>8, <2>2
  <2> QED  BY <2>1, <2>2
<1>9. OwnReports'
  <2>1. ASSUME NEW e \in net' PROVE e.from # e.to
    BY <1>2, <2>1 DEF OwnReports
  <2>2. ASSUME NEW j \in Correct PROVE Own(replica'[j])
    <3>1. CASE j = i
      BY <1>4, <3>1 DEF Upholds
    <3>2. CASE j # i
      BY <1>1, <3>2 DEF OwnReports
    <3> QED  BY <3>1, <3>2
  <2> QED  BY <2>1, <2>2 DEF OwnReports
<1> QED  BY <1>5, <1>6, <1>7, <1>8, <1>9 DEF VouchingStep, CommitsVouched

\* A step that changes the timers of replicas, and sends nothing.
LEMMA QuietVouches ==
  ASSUME TypeOK, CommitsVouched, OwnReports,
         \A j \in Correct : Alike(replica[j], replica'[j]), UNCHANGED <<net, failures>>
  PROVE  VouchingStep
<1>1. \A j \in Correct : /\ \A v, s, d, f : Vouches(replica[j], v, s, d, f)
                                              => Vouches(replica'[j], v, s, d, f)
                         /\ Own(replica[j]) => Own(replica'[j])
                         /\ replica'[j].commits = replica[j].commits
                         /\ replica'[j].ledger = replica[j].ledger
  BY AlikeVouches DEF Alike
<1>2. CommitsVouched'
  BY <1>1 DEF CommitsVouched, VouchesFor
<1>3. OwnReports'
  BY <1>1 DEF OwnReports
<1> QED  BY <1>1, <1>2, <1>3 DEF VouchingStep

\* A replica that turns upholds what it vouches for.
LEMMA TurnedVouches ==
  ASSUME TypeOK, EntersViewClean, CommitsVouched, OwnReports, NEW i \in Replica,
         NEW H, \A x \in H : x.from # i, NEW q, Turns(replica[i], q, H),
         NEW consumed, Run(q, consumed)
  PROVE  VouchingStep
<1>1. replica[i] \in ReplicaState /\ replica[i].id = i /\ replica[i].outbox = {}
  BY DEF Run, TypeOK
<1>2. q \in ReplicaState /\ q.id = i
  BY <1>1 DEF Turns
<1>3. i \in Correct => Upholds(replica[i], q, {})
  BY <1>1, TurnsUpholds DEF EntersViewClean, OwnReports
<1>4. \A o \in q.outbox : o.msg.type # "Commit"
  BY <1>1 DEF Turns, ViewChangeFor
<1> QED  BY <1>1, <1>2, <1>3, <1>4, RunVouches

\* A message of the normal case: a Commit that is received is vouched for,
LEMMA ReceiveNormalVouches ==
  ASSUME AgreementInv, CommitsVouched, OwnReports, NEW e \in net,
         ReceivePrePrepare(e) \/ ReceivePrepare(e) \/ ReceiveCommit(e)
  PROVE  VouchingStep
<1> DEFINE i == e.to
           r == replica[i]
<1>1. TypeOK /\ SlotInv /\ EntersViewClean
  BY DEF AgreementInv, ViewsInv, Inv
<1>2. i \in Correct /\ i \in Replica /\ r \in ReplicaState /\ r.id = i /\ Own(r)
  BY <1>1, ReceiverIsCorrect DEF OwnReports
<1>3. CASE Run(r, {e})
  <2>1. Turns(r, r, {})
    BY <1>2, TurnsReflexive
  <2> QED  BY <1>1, <1>2, <1>3, <2>1, TurnedVouches
<1>4. ASSUME NEW q, NEW H, Handles(e, q, H), Run(q, {e}) PROVE VouchingStep
  <2>1. q \in ReplicaState /\ q.id = i
    BY <1>2, <1>4 DEF Handles, Attests, Adds
  <2>2. Upholds(r, q, H)
    BY <1>2, <1>4, HandlesUpholds
  <2>3. ASSUME NEW x \in H
        PROVE  /\ x.from \in Correct /\ VouchesFor(replica[x.from], x.msg, failures)
               /\ x.msg.view \in Nat /\ x.msg.seq \in Nat /\ x.msg.digest \in Digest
    <3>1. x.from = e.from /\ x.msg = e.msg /\ e.msg.type = "Commit"
      BY <1>4, <2>3 DEF Handles
    <3> QED  BY <1>1, <3>1, CommitSlots DEF CommitsVouched
  <2> QED  BY <1>1, <1>2, <1>4, <2>1, <2>2, <2>3, RunVouches
<1> QED  BY <1>1, <1>3, <1>4, ReceiveNormalHandles

\* ... the callback of a timer,
LEMMA TimerCallbackVouches ==
  ASSUME Inv, CommitsVouched, OwnReports, NEW i \in Replica, NEW v \in 1 .. MaxView, TimerCallback(i, v)
  PROVE  VouchingStep
<1>1. PICK q : Turns(replica[i], q, {}) /\ Run(q, {})
  BY TimerCallbackTurns DEF Inv
<1> QED  BY <1>1, TurnedVouches DEF Inv

\* ... a ViewChange, which opens only a view that the replica has not been active in,
LEMMA ReceiveViewChangeVouches ==
  ASSUME NewViewsArrive, AgreementInv, CommitsVouched, OwnReports, NEW e \in net, ReceiveViewChange(e)
  PROVE  VouchingStep
<1> DEFINE i == e.to
           r == replica[i]
           m == e.msg
           H == {[from |-> e.from, msg |-> m]}
<1>0. TypeOK /\ Inv /\ SlotInv /\ EntersViewClean
  BY DEF AgreementInv, ViewsInv, Inv
<1>1. /\ i \in Correct /\ i \in Replica /\ e.from \in Replica
      /\ r \in ReplicaState /\ r.id = i /\ m \in ViewChange /\ Clean(r)
      /\ Own(r) /\ e.from # i
  BY <1>0, MessageTypes, ReceiverIsCorrect DEF ReceiveViewChange, EntersViewClean, OwnReports
<1>2. OneEach(r)
  BY <1>1 DEF AgreementInv, ViewsInv, Truth, OneReceipt
<1>3. PICK lost \in Losses({"ViewChange", "NewView", "PrePrepare"}) :
        \E q \in IF Taken(e) THEN ProcessViewChange(r, e.from, m, lost) ELSE {r} : Run(q, {e})
  BY DEF ReceiveViewChange
<1>4. PICK q \in IF Taken(e) THEN ProcessViewChange(r, e.from, m, lost) ELSE {r} : Run(q, {e})
  BY <1>3
<1>5. q = r \/ q \in ProcessViewChange(r, e.from, m, lost)
  BY <1>4
<1>6. <<"NewView", 0>> \notin lost
  BY DEF Losses, NewViewsArrive
<1>7. [from |-> e.from, msg |-> m] \in H /\ \A x \in H : x.from # i
  BY <1>1
<1> HIDE DEF H
<1>8. ASSUME Turns(r, q, H) PROVE VouchingStep
  BY <1>0, <1>1, <1>4, <1>7, <1>8, TurnedVouches
<1>9. ASSUME NEW j, Turns(r, j, H), j.view <= m.view,
             m.view = r.view => j.view = m.view /\ ~j.activeView,
             q \in StartNewView(j, m.view, lost)
      PROVE  VouchingStep
  <2>1. j \in ReplicaState /\ j.id = i
    BY <1>1, <1>9 DEF Turns
  <2>2. m.view \in Nat
    BY <1>1 DEF ViewChange
  <2>3. /\ q.viewChanges
             = RecordViewChangeReceipt(j, j.id, ViewChangeFor(j, m.view)).viewChanges
        /\ \E pps : Starts(j, q, m.view, pps)
    BY <1>9, <2>1, <2>2, StartNewViewStarts
  <2>9. PICK pps : Starts(j, q, m.view, pps)
    BY <2>3
  <2>4. q.view = m.view
    BY <1>6, <1>9, <2>1, <2>2, StartNewViewOpens DEF Opens
  <2>5. m.view > r.view \/ (m.view = r.view /\ ~r.activeView)
    <3>1. j.view \in Nat /\ r.view \in Nat
      BY <1>1, <2>1, NamedViews
    <3>2. j.view >= r.view /\ (j.view = r.view => j.activeView = r.activeView)
      BY <1>9, <3>1 DEF Turns
    <3>3. CASE m.view = r.view
      BY <1>9, <3>2, <3>3
    <3>4. CASE m.view # r.view
      BY <1>9, <2>2, <3>1, <3>2, <3>4
    <3> QED  BY <3>3, <3>4
  <2>6. Upholds(r, q, {})
    BY <1>1, <1>7, <1>9, <2>2, <2>3, <2>4, <2>5, <2>9, StartsUpholds
  <2>7. q \in ReplicaState /\ q.id = i
    BY <2>1, <2>9 DEF Starts
  <2>8. i \in Correct /\ i \in Replica /\ TypeOK /\ Run(q, {e})
    BY <1>0, <1>1, <1>4
  <2> HIDE DEF i, r, m
  <2> QED  BY <2>6, <2>7, <2>8, RunVouches DEF r
<1>10. CASE q = r
  BY <1>1, <1>8, <1>10, TurnsReflexive
<1>11. CASE q \in ProcessViewChange(r, e.from, m, lost)
  <2>1. \/ Turns(r, q, H)
        \/ \E j : /\ Turns(r, j, H) /\ OneEach(j)
                  /\ j.view <= m.view /\ Primary(m.view) = r.id /\ ViewChangeReady(j, m.view)
                  /\ m.view = r.view \/ (m.view = r.view + 1 /\ r.activeView)
                       => j.view = m.view /\ ~j.activeView
                  /\ q \in StartNewView(j, m.view, lost)
    BY <1>1, <1>2, <1>7, <1>11, ProcessViewChangeTurns
  <2> QED  BY <1>8, <1>9, <2>1
<1> QED  BY <1>5, <1>10, <1>11

\* ... and a NewView, which an active replica does not take.
LEMMA ReceiveNewViewVouches ==
  ASSUME AgreementInv, CommitsVouched, OwnReports, NEW e \in net, ReceiveNewView(e)
  PROVE  VouchingStep
<1> DEFINE i == e.to
           r == replica[i]
           m == e.msg
<1>0. TypeOK /\ SlotInv /\ EntersViewClean
  BY DEF AgreementInv, ViewsInv, Inv
<1>1. /\ i \in Correct /\ i \in Replica /\ e.from \in Replica
      /\ r \in ReplicaState /\ r.id = i /\ m \in NewView /\ m.type = "NewView" /\ Clean(r)
      /\ Own(r)
  BY <1>0, MessageTypes, ReceiverIsCorrect DEF ReceiveNewView, EntersViewClean, OwnReports
<1>2. PICK lost : Run(IF Taken(e) THEN ProcessNewView(r, e.from, m, lost) ELSE r, {e})
  BY DEF ReceiveNewView
<1>3. CASE ~Taken(e)
  <2>1. Run(r, {e})
    BY <1>2, <1>3
  <2>2. Turns(r, r, {})
    BY <1>1, TurnsReflexive
  <2> QED  BY <1>0, <1>1, <2>1, <2>2, TurnedVouches
<1>4. CASE Taken(e)
  <2>1. ~r.activeView
    BY <1>1, <1>4 DEF Taken, IsMessageAllowed
  <2>2. PICK q : q = ProcessNewView(r, e.from, m, lost)
    OBVIOUS
  <2>3. Run(q, {e})
    BY <1>2, <1>4, <2>2
  <2>4. Upholds(r, q, {})
    BY <1>1, <2>1, <2>2, ProcessNewViewUpholds
  <2>5. q \in ReplicaState /\ q.id = r.id
    BY <1>1, <2>2, ProcessNewViewStep DEF ViewStep
  <2>6. i \in Correct /\ i \in Replica /\ q.id = i
    BY <1>1, <2>5
  <2> HIDE DEF i, r, m
  <2> QED  BY <1>0, <2>3, <2>4, <2>5, <2>6, RunVouches DEF r
<1> QED  BY <1>3, <1>4

\* A timer that expires,
LEMMA TimerExpiresVouches ==
  ASSUME TypeOK, CommitsVouched, OwnReports, NEW i \in Replica, TimerExpires(i)
  PROVE  VouchingStep
<1>1. \A j \in Replica : Alike(replica[j], replica'[j])
  BY DEF TimerExpires, Alike, TypeOK, ReplicaState
<1>2. UNCHANGED <<net, failures>>
  BY DEF TimerExpires
<1> QED  BY <1>1, <1>2, QuietVouches DEF Correct

\* ... main at a backup,
LEMMA MainTouchesVouches ==
  ASSUME TypeOK, CommitsVouched, OwnReports, NEW i \in Replica, MainTouches(i)
  PROVE  VouchingStep
<1>1. replica[i] \in ReplicaState /\ replica[i].id = i /\ replica[i].outbox = {}
  BY DEF TypeOK
<1>2. PICK q \in ReplicaState : Touched(replica[i], q, i) /\ Run(q, {})
  BY MainTouching
<1>3. Alike(replica[i], q) /\ q.id = i /\ q.outbox = {}
  BY <1>1, <1>2, TouchedFields DEF Alike
<1>4. i \in Correct => Upholds(replica[i], q, {})
  BY <1>1, <1>3, AlikeUpholds DEF OwnReports
<1> QED  BY <1>2, <1>3, <1>4, RunVouches

\* ... main at a primary, when it proposes,
LEMMA MainProposesVouches ==
  ASSUME TypeOK, CommitsVouched, OwnReports, NEW i \in Replica, MainProposes(i)
  PROVE  VouchingStep
<1> DEFINE r == replica[i]
           known == [r EXCEPT !.requests = @ \cup {i}]
           noted == Equivocate(known)
           sent(lost) == SendPrePrepares(noted, <<i>>, lost)
           q(lost) == IF i \in r.pending THEN r ELSE sent(lost)
<1>1. /\ r \in ReplicaState /\ r.id = i /\ i \in Digest /\ r.view \in Nat /\ r.outbox = {}
  BY DEF TypeOK, Digest, ReplicaState
<1>2. PICK lost : Run(q(lost), {})
  BY Zenon DEF MainProposes
<1> HIDE DEF r
<1>3. known \in ReplicaState /\ Alike(r, known) /\ known.outbox = {}
  BY <1>1 DEF ReplicaState, Alike
<1> HIDE DEF known
<1>4. /\ noted \in ReplicaState /\ noted.id = i /\ noted.outbox = {}
      /\ i \in Correct => noted = known
  <2>1. CASE i \in Byzantine
    <3> DEFINE n == known.view + 1
    <3>1. noted = [known EXCEPT !.view = n] /\ n \in Nat
      BY <1>1, <1>3, <2>1 DEF Equivocate, ReplicaState, Alike
    <3> HIDE DEF noted, n
    <3>2. noted \in ReplicaState /\ noted.id = known.id /\ noted.outbox = known.outbox
      BY <1>3, <3>1 DEF ReplicaState
    <3> QED  BY <1>1, <1>3, <2>1, <3>2 DEF Correct, Alike
  <2>2. CASE i \notin Byzantine
    <3>1. noted = known
      BY <1>1, <1>3, <2>2 DEF Equivocate, Alike
    <3> HIDE DEF noted
    <3> QED  BY <1>1, <1>3, <3>1 DEF Alike
  <2> QED  BY <2>1, <2>2
<1> HIDE DEF noted
<1>5. /\ sent(lost) \in ReplicaState /\ Alike(noted, sent(lost))
      /\ \A o \in sent(lost).outbox : o.msg.type # "Commit"
  <2>1. /\ sent(lost) \in ReplicaState /\ Alike(noted, sent(lost))
        /\ \A o \in sent(lost).outbox :
              \/ o \in noted.outbox
              \/ o.msg = [type |-> "PrePrepare", view |-> noted.view,
                          seq |-> noted.sequence + 1, digest |-> i]
    BY <1>1, <1>4, SendOne
  <2> HIDE DEF sent
  <2> QED  BY <1>4, <2>1
<1> HIDE DEF sent
<1>6. /\ q(lost) \in ReplicaState /\ q(lost).id = i
      /\ i \in Correct => Alike(r, q(lost))
      /\ \A o \in q(lost).outbox : o.msg.type # "Commit"
  <2>1. CASE i \in r.pending
    BY <1>1, <2>1 DEF Alike
  <2>2. CASE i \notin r.pending
    BY <1>1, <1>3, <1>4, <1>5, <2>2 DEF Alike
  <2> QED  BY <2>1, <2>2
<1> HIDE DEF q
<1>7. i \in Correct => Upholds(r, q(lost), {})
  BY <1>1, <1>6, AlikeUpholds DEF OwnReports, r
<1> QED  BY <1>1, <1>2, <1>6, <1>7, RunVouches DEF r

\* What main stores at a primary overwrites no other request in its slot.
StoresApart ==
    \A i \in Correct : MainStoresPrePrepare(i) =>
       \A p \in replica[i].preprepares :
          SameSlot(p, main.call.msg) => p.digest = main.call.msg.digest

\* ... and when it stores what it has proposed, and overwrites nothing with it.
LEMMA MainStoresVouches ==
  ASSUME TypeOK, CommitsVouched, OwnReports, StoresApart, NEW i \in Replica, MainStoresPrePrepare(i)
  PROVE  VouchingStep
<1> DEFINE r == replica[i]
           n == main.call.msg
           q == StorePrePrepares(r, {n})
           stored == {p \in r.preprepares : \A k \in {n} : ~SameSlot(p, k)} \cup {n}
<1>1. r \in ReplicaState /\ r.id = i /\ r.outbox = {}
  BY DEF TypeOK
<1>2. Run(q, {}) /\ n \in PrePrepare
  BY DEF MainStoresPrePrepare, TypeOK, Calling
<1>3. i \in Correct => \A p \in r.preprepares : SameSlot(p, n) => p.digest = n.digest
  BY DEF StoresApart
<1> HIDE DEF r, n
<1>4. q = [r EXCEPT !.preprepares = stored] /\ stored \in SUBSET PrePrepare
  BY <1>1, <1>2 DEF StorePrePrepares, ReplicaState
<1>5. i \in Correct =>
        \A p \in r.preprepares : \E k \in stored : IsFor(k, p.view, p.seq, p.digest)
  BY <1>3 DEF IsFor, SameSlot
<1> HIDE DEF q, stored
<1>6. /\ q \in ReplicaState /\ q.id = i /\ q.view = r.view /\ q.ledger = r.ledger
      /\ q.requests = r.requests /\ q.prepares = r.prepares /\ q.commits = r.commits
      /\ q.outbox = {} /\ q.preprepares = stored /\ q.viewChanges = r.viewChanges
  BY <1>1, <1>4 DEF ReplicaState
<1>7. i \in Correct =>
        \A v, s \in Nat : \A d \in Digest : \A f \in Nat :
           Vouches(r, v, s, d, f) => Vouches(q, v, s, d, After(q, f))
  BY <1>1, <1>5, <1>6, StayingVouches
<1>9. i \in Correct => Own(q)
  BY <1>1, <1>6 DEF OwnReports, Own, r
<1>8. i \in Correct => Upholds(r, q, {})
  BY <1>6, <1>7, <1>9 DEF Upholds
<1> QED  BY <1>1, <1>2, <1>6, <1>8, RunVouches DEF r

\* Every step is such a step.
LEMMA StepVouches ==
  ASSUME NewViewsArrive, AgreementInv, CommitsVouched, OwnReports, StoresApart, [Next]_vars
  PROVE  VouchingStep
<1>1. Inv /\ TypeOK
  BY DEF AgreementInv, ViewsInv, Inv
<1>2. CASE UNCHANGED vars
  BY <1>1, <1>2, QuietVouches DEF vars, Alike
<1>3. CASE Next
  <2>1. ASSUME NEW e \in net, Receive(e) PROVE VouchingStep
    BY <2>1, ReceiveNormalVouches, ReceiveViewChangeVouches, ReceiveNewViewVouches DEF Receive
  <2>2. ASSUME Timers PROVE VouchingStep
    BY <1>1, <2>2, TimerExpiresVouches, TimerCallbackVouches DEF Timers
  <2>3. ASSUME Main PROVE VouchingStep
    <3>1. PICK i \in Replica : \/ MainLooks(i) \/ MainTouches(i)
                               \/ MainProposes(i) \/ MainStoresPrePrepare(i)
      BY <2>3, MainSteps
    <3>2. CASE MainLooks(i)
      BY <1>1, <3>2, MainLooking, QuietVouches DEF Alike
    <3> QED
      BY <1>1, <3>1, <3>2, MainTouchesVouches, MainProposesVouches, MainStoresVouches
  <2> QED  BY <1>3, <2>1, <2>2, <2>3 DEF Next
<1> QED  BY <1>2, <1>3

-----------------------------------------------------------------------------
(* Who vouches for a block. *)

\* The vouchers of a block after a step.
VouchersNext(b) == {j \in Correct : VouchesFor(replica'[j], b, failures')}

\* A replica that has counted a quorum of Commits in a slot: their senders vouch
\* for what it has written there.
LEMMA CountedVouch ==
  ASSUME TypeOK', CommitsVouched', CommitAgreement', NEW i \in Correct,
         Voted(replica'[i]), NEW k \in DOMAIN replica'[i].ledger,
         replica'[i].ledger[k].view = replica'[i].view,
         Cardinality(CommitsOf(replica'[i], replica'[i].ledger[k].view, replica'[i].ledger[k].seq))
           >= CommitQuorum
  PROVE  Cardinality(VouchersNext(replica'[i].ledger[k])) >= CommitQuorum
<1> DEFINE r == replica'[i]
           b == r.ledger[k]
           T == CommitsOf(r, b.view, b.seq)
           n == [type |-> "Commit", view |-> b.view, seq |-> b.seq, digest |-> b.digest]
<1>1. r \in ReplicaState
  BY DEF TypeOK, Correct
<1>2. PICK x \in r.commits : IsFor(x.msg, b.view, b.seq, b.digest)
  BY DEF Voted
<1> HIDE DEF r, b
<1>3. \A y \in r.commits : /\ y = [from |-> y.from, msg |-> y.msg]
                           /\ y.msg \in Commit /\ y.msg \in CommitsSeen'
  <2>1. \A y \in r.commits : y = [from |-> y.from, msg |-> y.msg] /\ y.msg \in Commit
    BY <1>1 DEF ReplicaState, CommitReceipt
  <2>2. \A y \in r.commits : y.msg \in CommitsSeen'
    BY DEF CommitsSeen, r
  <2> QED  BY <2>1, <2>2
<1>4. ASSUME NEW y \in T PROVE y = [from |-> y.from, msg |-> n] /\ y.from \in VouchersNext(b)
  <2>1. y \in r.commits /\ y.msg.view = b.view /\ y.msg.seq = b.seq
    BY <1>4 DEF CommitsOf
  <2>2. y.msg.digest = b.digest
    BY <1>2, <1>3, <2>1 DEF CommitAgreement, IsFor, SameSlot
  <2>3. y.msg = n
    BY <1>3, <2>1, <2>2 DEF Commit
  <2>4. y.from \in Correct /\ VouchesFor(replica'[y.from], y.msg, failures')
    BY <2>1 DEF CommitsVouched, r
  <2>5. VouchesFor(replica'[y.from], b, failures')
    BY <2>1, <2>2, <2>4 DEF VouchesFor
  <2> QED  BY <1>3, <2>1, <2>3, <2>4, <2>5 DEF VouchersNext
<1>5. VouchersNext(b) \in SUBSET Replica
  BY DEF VouchersNext, Correct
<1> HIDE DEF n, T
<1>6. /\ Cardinality(T) \in Nat /\ Cardinality(VouchersNext(b)) \in Nat
      /\ Cardinality(T) <= Cardinality(VouchersNext(b))
  BY <1>4, <1>5, OneMessage
<1>7. Cardinality(T) >= CommitQuorum
  BY DEF T, b, r
<1>8. CommitQuorum \in Nat
  BY Quorums
<1>9. Cardinality(VouchersNext(b)) >= CommitQuorum
  BY <1>6, <1>7, <1>8
<1> QED  BY <1>9 DEF b, r

\* A quorum of correct replicas vouches for every block, after a step of the
\* cluster: those of a block that was there go on, a new one has its Commits.
LEMMA BlocksStayVouched ==
  ASSUME TypeOK, TypeOK', BlocksVouched, VouchingStep, CommitAgreement', AllVoted'
  PROVE  BlocksVouched'
<1> SUFFICES ASSUME NEW i \in Correct, NEW k \in DOMAIN replica'[i].ledger
             PROVE  Cardinality(VouchersNext(replica'[i].ledger[k])) >= CommitQuorum
  BY DEF BlocksVouched, Vouchers, VouchersNext, VouchesFor, Vouches
<1> DEFINE b == replica'[i].ledger[k]
<1>1. CASE k \in DOMAIN replica[i].ledger /\ b = replica[i].ledger[k]
  <2>1. replica[i] \in ReplicaState
    BY DEF TypeOK, Correct
  <2>2. b \in Block /\ b.view \in Nat /\ b.seq \in Nat /\ b.digest \in Digest
    BY <1>1, <2>1, BlockTypes DEF Block
  <2>3. Cardinality(Vouchers(b)) >= CommitQuorum
    BY <1>1 DEF BlocksVouched
  <2> HIDE DEF b
  <2>4. {j \in Correct : VouchesFor(replica[j], b, failures)}
          \subseteq {j \in Correct : VouchesFor(replica'[j], b, failures')}
    BY <2>2 DEF VouchingStep, VouchesFor
  <2> DEFINE S == {j \in Correct : VouchesFor(replica[j], b, failures)}
             U == {j \in Correct : VouchesFor(replica'[j], b, failures')}
  <2>5. S \subseteq U /\ U \subseteq Replica /\ Cardinality(S) >= CommitQuorum
    BY <2>3, <2>4 DEF Vouchers, Correct
  <2> HIDE DEF S, U
  <2>6. /\ Cardinality(S) \in Nat /\ Cardinality(U) \in Nat /\ Cardinality(S) <= Cardinality(U)
    BY <2>5, ReplicaFinite, FS_Subset, FS_CardinalityType
  <2>7. Cardinality(U) >= CommitQuorum
    BY <2>5, <2>6, Quorums
  <2> QED  BY <2>7 DEF U, VouchersNext, b
<1>2. CASE b.view = replica'[i].view
           /\ Cardinality(CommitsOf(replica'[i], b.view, b.seq)) >= CommitQuorum
  BY <1>2, CountedVouch DEF VouchingStep, AllVoted
<1> QED  BY <1>1, <1>2 DEF VouchingStep

-----------------------------------------------------------------------------
(* The theorems. *)

CertInv == AgreementInv /\ AllVoted /\ CommitsVouched /\ OwnReports /\ BlocksVouched

\* Initially nothing is said or written.
LEMMA CertInitially == Init => CertInv
<1> SUFFICES ASSUME Init PROVE CommitsVouched /\ OwnReports /\ BlocksVouched
  BY LedgerInitially DEF CertInv, LedgerInv
<1>1. /\ net = {}
      /\ \A i \in Replica : /\ replica[i].commits = {} /\ replica[i].ledger = <<>>
                            /\ replica[i].viewChanges = {}
  BY DEF Init, NewReplica
<1>2. CommitsVouched
  BY <1>1 DEF CommitsVouched, Correct
<1>3. BlocksVouched
  BY <1>1 DEF BlocksVouched, Correct
<1>4. OwnReports
  BY <1>1 DEF OwnReports, Own, Correct
<1> QED  BY <1>2, <1>3, <1>4

\* CertInv is inductive when NewViews arrive and main overwrites nothing.
LEMMA CertStep ==
  ASSUME NewViewsArrive
  PROVE  CertInv /\ [Next /\ StoresApart]_vars => CertInv'
<1> SUFFICES ASSUME CertInv, [Next /\ StoresApart]_vars PROVE CertInv'
  OBVIOUS
<1>1. AgreementInv /\ AllVoted /\ CommitsVouched /\ OwnReports /\ BlocksVouched /\ [Next]_vars
  BY DEF CertInv
<1>2. AgreementInv' /\ AllVoted'
  BY <1>1, SlotsInductive, VotedStep
<1>3. TypeOK /\ TypeOK'
  BY <1>1, <1>2 DEF AgreementInv, ViewsInv, Inv
<1>4. CommitAgreement'
  BY <1>2, CommitsAreClaims, PTL
<1>5. VouchingStep
  <2>1. CASE StoresApart
    BY <1>1, <2>1, StepVouches
  <2>2. CASE UNCHANGED vars
    BY <1>1, <1>3, <2>2, QuietVouches DEF vars, Alike
  <2> QED  BY <2>1, <2>2
<1>6. BlocksVouched' /\ CommitsVouched' /\ OwnReports'
  BY <1>1, <1>2, <1>3, <1>4, <1>5, BlocksStayVouched DEF VouchingStep
<1> QED  BY <1>2, <1>6 DEF CertInv

\* The correct replicas that vouch for a block are those that certify it.
LEMMA VouchedIsCertified ==
  ASSUME CertInv
  PROVE  ExecutedIsCertified
  BY DEF CertInv, BlocksVouched, Vouchers, VouchesFor, Vouches, ExecutedIsCertified, Certifies,
         Ledger

(***************************************************************************)
(* In every cluster in which the broadcast of a NewView never fails, as    *)
(* long as the pre-prepare that main stores overwrites no other request in *)
(* its slot, 2f+1 correct replicas have a certificate of each block in a   *)
(* chain file, of whatever view: those in that view hold it, and, while    *)
(* nothing has failed, those that have left it have reported it.           *)
(***************************************************************************)
THEOREM ApartIsCertified ==
  ASSUME NewViewsArrive
  PROVE  Spec /\ [][StoresApart]_vars => []ExecutedIsCertified
<1>1. CertInv => ExecutedIsCertified
  BY VouchedIsCertified
<1>2. CertInv /\ [Next /\ StoresApart]_vars => CertInv'
  BY CertStep
<1>3. [Next]_vars /\ [StoresApart]_vars => [Next /\ StoresApart]_vars
  OBVIOUS
<1> QED  BY <1>1, <1>2, <1>3, CertInitially, PTL DEF Spec

\* While no correct replica has left its first view, main stores one request at
\* most, in a replica that holds none.
LEMMA EarlyStoresApart ==
  ASSUME FirstInv, [Main => InFirstView]_vars
  PROVE  [StoresApart]_vars
<1> SUFFICES ASSUME Main => InFirstView, NEW i \in Correct, MainStoresPrePrepare(i)
             PROVE  replica[i].preprepares = {}
  BY DEF StoresApart
<1>1. i \in Replica /\ i = main.next /\ main.call.step = "broadcast"
  BY DEF MainStoresPrePrepare, Correct
<1>2. ProposesOnce
  BY <1>1 DEF Main, FirstInv
<1> QED  BY <1>1, <1>2 DEF ProposesOnce

(***************************************************************************)
(* So it is when main has given all its requests before a correct replica  *)
(* leaves its first view: in every cluster in which the broadcast of a     *)
(* NewView never fails, 2f+1 correct replicas have a certificate of each   *)
(* block, of whatever view, in the same sense.                             *)
(***************************************************************************)
THEOREM EarlyIsCertified ==
  ASSUME NewViewsArrive
  PROVE  Spec /\ [][Main => InFirstView]_vars => []ExecutedIsCertified
<1>1. Spec /\ [][StoresApart]_vars => []ExecutedIsCertified
  BY ApartIsCertified
<1>2. FirstInv /\ [Main => InFirstView]_vars => [StoresApart]_vars
  BY EarlyStoresApart
<1> QED  BY <1>1, <1>2, FirstAlways, PTL
=============================================================================
