--------------------------- MODULE PBFTProperties ---------------------------
(***************************************************************************)
(* What the cluster of PBFT.tla should guarantee.  Only the replicas that  *)
(* run the protocol, those in Correct, owe anything.                       *)
(***************************************************************************)
EXTENDS PBFT

(***************************************************************************)
(* The type of the state: each replica holds its own id, and between two   *)
(* methods nothing is left to send.                                        *)
(***************************************************************************)
TypeOK ==
    /\ replica \in [Replica -> ReplicaState]
    /\ \A i \in Replica : /\ replica[i].id = i
                          /\ replica[i].outbox = {}
                          /\ ~replica[i].failed
    /\ net \subseteq Envelope
    /\ main \in [next : Nat, call : Calling]
    /\ failures \in Nat

-----------------------------------------------------------------------------
(* Agreement *)

Ledger(i) == replica[i].ledger

CommitsSeen ==
    {e.msg : e \in {x \in net : x.msg.type = "Commit"}}
      \cup UNION {{x.msg : x \in replica[i].commits} : i \in Correct}

(***************************************************************************)
(* Within one view, no two Commits for a sequence number name different    *)
(* requests.  The code does not compare the digests of the receipts it     *)
(* counts (conditions.go), and a new primary numbers the requests it       *)
(* proposes itself from its own counter, from 1 on, over the numbers its   *)
(* NewView has just used (new_view.go:99): only the order in which backups *)
(* take the two keeps them together.                                       *)
(***************************************************************************)
CommitAgreement ==
    \A m, k \in CommitsSeen : SameSlot(m, k) => m.digest = k.digest

(***************************************************************************)
(* The chain files of two replicas never hold different blocks at the same *)
(* height.                                                                 *)
(***************************************************************************)
LedgerAgreement ==
    \A i, j \in Correct : \A k \in DOMAIN Ledger(i) \cap DOMAIN Ledger(j) :
       Ledger(i)[k].digest = Ledger(j)[k].digest

\* Replica r has recorded a ViewChange of its own for a view after v that carries
\* a certificate of this request.
HasReported(r, v, s, d) ==
    \E x \in r.viewChanges :
       /\ x.from = r.id
       /\ x.msg.view > v
       /\ \E p \in x.msg.prepares : p.view = v /\ p.seq = s /\ p.digest = d

\* Replica r holds the certificate of a request in view v, or has left the view
\* with it.
Certifies(r, v, s, d) ==
    IF r.view = v
      THEN Prepared(r, v, s, d)
      ELSE r.view > v /\ (HasReported(r, v, s, d) \/ failures > 0)

(***************************************************************************)
(* Of a request executed anywhere, 2f+1 correct replicas have a            *)
(* certificate: each holds it while it is in the view of the execution,    *)
(* and when it has left that view it has reported it in a ViewChange.      *)
(* Once a broadcast has failed nothing is known of what was reported, as a *)
(* replica does not record a ViewChange whose broadcast failed.            *)
(***************************************************************************)
ExecutedIsCertified ==
    \A i \in Correct : \A k \in DOMAIN Ledger(i) : LET b == Ledger(i)[k] IN
       Cardinality({j \in Correct : Certifies(replica[j], b.view, b.seq, b.digest)})
         >= CommitQuorum

(***************************************************************************)
(* A request executed in a view is pre-prepared again, at its sequence     *)
(* number, by every backup that is active in the next view: the view       *)
(* change carries it over.                                                 *)
(***************************************************************************)
ExecutedSurvives ==
    \A i, j \in Correct : \A k \in DOMAIN Ledger(i) :
       LET b == Ledger(i)[k]
           r == replica[j]
       IN r.activeView /\ ~IsPrimary(r) /\ r.view = b.view + 1
            => PrePrepared(r, r.view, b.seq, b.digest)

(***************************************************************************)
(* A replica executes a request once.                                      *)
(***************************************************************************)
ExecutesOnce ==
    \A i \in Correct : \A k, l \in DOMAIN Ledger(i) :
       Ledger(i)[k].digest = Ledger(i)[l].digest => k = l

\* The cluster as a log: main has injected the requests up to main.next.
Log == INSTANCE Consensus WITH
         Request   <- Replica,
         Null      <- EmptyDigest,
         requested <- {i \in Replica : \/ i < main.next
                                       \/ i = main.next /\ main.call # Outside},
         ledger    <- [i \in Correct |-> [k \in DOMAIN Ledger(i) |-> Ledger(i)[k].digest]]

(***************************************************************************)
(* The chain files are copies of one log, each as long as its replica has  *)
(* come, and nothing is in it that main has not injected.  A block, once   *)
(* written, is never changed, and a handler writes one at most.            *)
(***************************************************************************)
RefinesConsensus == Log!Spec

-----------------------------------------------------------------------------
(* Views *)

\* All that replica r has received belongs to its view or to an earlier one, and
\* to its view only if it has entered it.
Clean(r) ==
    /\ \A x \in r.prepares \cup r.commits :
          \/ x.msg.view < r.view
          \/ x.msg.view = r.view /\ r.activeView
    /\ \A m \in r.preprepares :
          \/ m.view < r.view
          \/ m.view = r.view /\ (r.activeView \/ IsPrimary(r))

(***************************************************************************)
(* A replica enters a view with no receipt for that view or a later one:   *)
(* until it is active in a view it has taken no Prepare or Commit for it,  *)
(* and no pre-prepare unless it leads the view itself.  processNewView     *)
(* relies on it when it runs the pre-prepares of a NewView.                *)
(***************************************************************************)
EntersViewClean == \A i \in Correct : Clean(replica[i])

(***************************************************************************)
(* A replica is active in a later view only when 2f+1 replicas have left   *)
(* the views before it.                                                    *)
(***************************************************************************)
ViewHasQuorum ==
    \A i \in Correct :
       replica[i].activeView /\ replica[i].view > 0 =>
         Cardinality({j \in Replica : replica[j].view >= replica[i].view}) >= CommitQuorum

\* The cluster as far as its views are concerned.
Sync == INSTANCE Views WITH
          view   <- [i \in Replica |-> replica[i].view],
          active <- [i \in Replica |-> replica[i].activeView],
          Quorum <- {Q \in SUBSET Replica : Cardinality(Q) >= CommitQuorum}

(***************************************************************************)
(* Every step of the cluster leaves the views alone, or takes one replica  *)
(* out of its view, or takes it into a view that has 2f+1 replicas.  What  *)
(* a NewView and the receipts at a new primary say about others is true,   *)
(* however late they are read.                                             *)
(***************************************************************************)
RefinesViews == Sync!Spec

(***************************************************************************)
(* What a correct replica reports in a view change is accepted by those    *)
(* who read it: it reports only what has a full certificate.  In the first *)
(* view, where one request is proposed, the Prepares of a certificate      *)
(* cannot differ; later they can, where a new primary has overwritten the  *)
(* pre-prepare they are for.                                               *)
(***************************************************************************)
ViewChangesAreValid ==
    \A e \in net : e.msg.type = "ViewChange" /\ e.from \in Correct => ValidViewChange(e.msg)

(***************************************************************************)
(* No two backups have accepted different requests in one slot, although   *)
(* a Byzantine replica sends a pre-prepare for the view that follows its   *)
(* own, which arrives when its receivers are in that view or have taken    *)
(* the proposal of the primary of that view, and although that primary     *)
(* numbers what it proposes over what its NewView carries.                 *)
(***************************************************************************)
PrePreparesAgree ==
    \A i, j \in Correct : \A p \in replica[i].preprepares, q \in replica[j].preprepares :
       SameSlot(p, q) /\ Primary(p.view) \notin {i, j} => p.digest = q.digest

(***************************************************************************)
(* The view of a replica never decreases, and a replica that stops being   *)
(* active does so for a later view: a timer or a message of a view change  *)
(* that is over never takes it out of the view it has reached.             *)
(***************************************************************************)
ViewsAdvance ==
    [][\A i \in Replica :
          /\ replica'[i].view >= replica[i].view
          /\ replica[i].activeView /\ ~replica'[i].activeView
               => replica'[i].view > replica[i].view]_vars

-----------------------------------------------------------------------------
(* Progress, as far as the state shows it *)

(***************************************************************************)
(* A backup with a request it has accepted and not executed has a timer    *)
(* that will take it to the next view, or main is about to give it one: no *)
(* early return, no execution of another request, no overwritten timer     *)
(* leaves it waiting without one.  That main reads the view for its timer  *)
(* some time before it sets it is a danger.                                *)
(***************************************************************************)
TimerCoverage ==
    \A i \in Correct : LET r == replica[i] IN
       r.activeView /\ ~IsPrimary(r) /\ r.pending # {} =>
         \/ r.requestTimer.running /\ r.requestTimer.target > r.view
         \/ \E v \in r.callbacks : v > r.view
         \/ i = main.next /\ main.call.step = "timer" /\ main.call.target > r.view

\* Replica i has acted on every quorum it holds in its view: it has sent a
\* Commit for what is prepared, and executed what is committed.
ActsOnQuorums(i) ==
    LET r == replica[i]
        slots == {p \in r.preprepares : p.view = r.view}
    IN r.activeView =>
         \A p \in slots :
            /\ Prepared(r, p.view, p.seq, p.digest)
                 => \E x \in CommitsOf(r, p.view, p.seq) : x.from = i
            /\ Committed(r, p.view, p.seq, p.digest) /\ p.seq = r.lastExecuted + 1
                 => p.digest \notin r.pending

(***************************************************************************)
(* A backup acts on a quorum whatever message completes it: a Prepare, a   *)
(* Commit, or the pre-prepare that comes after both.  A broadcast that has *)
(* failed may have cut its handler short.                                  *)
(***************************************************************************)
BackupsActOnQuorums ==
    failures = 0 => \A i \in Correct : ~IsPrimary(replica[i]) => ActsOnQuorums(i)

(***************************************************************************)
(* The primary too acts on every quorum it holds: "move to the Commit      *)
(* phase if there are enough Prepares" (prepare.go:100, in Vietnamese).    *)
(***************************************************************************)
PrimaryActsOnQuorums ==
    main.call = Outside => \A i \in Correct : IsPrimary(replica[i]) => ActsOnQuorums(i)

(***************************************************************************)
(* The normal case: if no timer expires, every correct replica executes    *)
(* the request.                                                            *)
(***************************************************************************)
EveryoneExecutes == <>(\A i \in Correct : Ledger(i) # <<>>)

(***************************************************************************)
(* If the primary is silent, the backups' timers take every correct        *)
(* replica into the next view, unless a broadcast fails.                   *)
(***************************************************************************)
AllIn(v) == \A i \in Correct : replica[i].activeView /\ replica[i].view = v

EveryoneChangesView == <>(AllIn(1) \/ failures > 0)

\* A message that its receiver will not act on, now or later: it is for an
\* earlier view, or for a view change that is over for this receiver.
Spent(e) ==
    LET r == replica[e.to] IN
    \/ e.msg.view < r.view
    \/ /\ e.msg.type = "NewView"
       /\ e.msg.view = r.view /\ r.activeView
    \/ /\ e.msg.type = "ViewChange"
       /\ e.msg.view = r.view /\ (r.activeView \/ ~IsPrimary(r))

\* Nothing will happen any more: main is done, nothing but spent messages is
\* under way, no timer runs, no callback waits.
Silent ==
    /\ main.next = N
    /\ \A e \in net : Spent(e)
    /\ \A i \in Replica : ~replica[i].requestTimer.running /\ replica[i].callbacks = {}

\* The primary p of view v has too few view changes to start it, and that of a
\* correct replica in the view is missing: it was lost, or is p's own and was not
\* recorded because its broadcast failed.
MissesViewChange(p, v) ==
    /\ failures > 0
    /\ ~ViewChangeReady(replica[p], v)
    /\ \E j \in Correct : /\ replica[j].view = v
                          /\ \A x \in ViewChangesOf(replica[p], v) : x.from # j

(***************************************************************************)
(* The cluster never falls silent with a replica in the middle of a view   *)
(* change, unless the primary of the next view misses the ViewChange of a  *)
(* correct replica and has too few without it: nobody sends it again.      *)
(***************************************************************************)
ViewChangeEnds ==
    Silent => \A i \in Correct : LET r == replica[i] IN
       r.activeView \/ MissesViewChange(Primary(r.view), r.view)

(***************************************************************************)
(* Once every correct replica is active in a view after the first, and has *)
(* handled every message of that view, some replica has executed a         *)
(* request: "keep Byzantine nodes to 1 or 0 to allow consensus to be       *)
(* reached" (README.md:78).                                                *)
(***************************************************************************)
NewViewExecutes ==
    main.next = N /\ (\A e \in net : Spent(e)) /\ (\E v \in 1 .. MaxView : AllIn(v))
      => \E i \in Correct : Ledger(i) # <<>>
=============================================================================
