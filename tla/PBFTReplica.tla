---------------------------- MODULE PBFTReplica -----------------------------
(***************************************************************************)
(* One replica: the Go struct Replica (replica.go, state.go, core.go) as a *)
(* record, and its methods as operators from a record to the record that   *)
(* the method leaves behind, or to the set of them where the order of a Go *)
(* map decides.  A method runs under the replica's lock, so its whole      *)
(* effect is one step of the cluster (PBFT.tla).                           *)
(*                                                                         *)
(* The argument `lost' is the set of the broadcasts (and the ledger write) *)
(* of the running method that fail, see Fails below.                       *)
(***************************************************************************)
EXTENDS PBFTMessages, Functions, SequencesExt

CONSTANT Byzantine   \* the replicas started with isByzantine = true

ASSUME ByzantineAssumption == Byzantine \subseteq Replica

NoTimer == [target |-> 0, running |-> FALSE]

Timer == [target : Nat, running : BOOLEAN]

\* A block of the chain file: its hash is the digest.  The view and sequence
\* number that committed it are history, no code reads them.
Block == [view : Nat, seq : Nat, digest : Digest]

(***************************************************************************)
(* The fields of the struct, its maps as the sets of their entries, and    *)
(*   callbacks  the target views of timers that requestTimer no longer     *)
(*              stops: they expired, or main overwrote the pointer;        *)
(*   ledger     the chain file, after the genesis block;                   *)
(*   outbox     what the running method has broadcast so far, and whether  *)
(*              that broadcast returned an error;                          *)
(*   failed     whether something in the running method has failed.        *)
(* The last two are reset when the method returns.  The map executions is  *)
(* left out: no code writes to it, so no request is ever found in it.      *)
(***************************************************************************)
ReplicaState ==
    [id : Replica, view : Nat, activeView : BOOLEAN, sequence : Nat,
     lastExecuted : Nat, requests : SUBSET Digest, pending : SUBSET Digest,
     preprepares : SUBSET PrePrepare, prepares : SUBSET PrepareReceipt,
     commits : SUBSET CommitReceipt, viewChanges : SUBSET ViewChangeReceipt,
     requestTimer : Timer, callbacks : SUBSET Nat, ledger : Seq(Block),
     outbox : SUBSET [msg : Message, failed : BOOLEAN], failed : BOOLEAN]

NewReplica(i) ==
    [id |-> i, view |-> 0, activeView |-> TRUE, sequence |-> 0,
     lastExecuted |-> 0, requests |-> {}, pending |-> {},
     preprepares |-> {}, prepares |-> {}, commits |-> {}, viewChanges |-> {},
     requestTimer |-> NoTimer, callbacks |-> {}, ledger |-> <<>>,
     outbox |-> {}, failed |-> FALSE]

IsPrimary(r) == r.id = Primary(r.view)

-----------------------------------------------------------------------------
(* Sending.  A failure is a pair of a message type and a sequence number   *)
(* (0 for a message without one), or <<"Block", 0>> for the ledger write.  *)

Fails(m, lost) ==
    <<m.type, IF m.type \in {"ViewChange", "NewView"} THEN 0 ELSE m.seq>> \in lost

\* The error that broadcast returns says that some peer was not reached; the
\* others have the message nevertheless (PBFT!Run).
Broadcast(r, m, lost) ==
    [r EXCEPT !.outbox = @ \cup {[msg |-> m, failed |-> Fails(m, lost)]},
              !.failed = @ \/ Fails(m, lost)]

-----------------------------------------------------------------------------
(* conditions.go *)

PrePrepared(r, v, s, d) ==
    /\ d \in r.requests
    /\ \E p \in r.preprepares : p.view = v /\ p.seq = s /\ p.digest = d

\* The receipts of a slot are counted whatever digest they carry.
PreparesOf(r, v, s) == {x \in r.prepares : x.msg.view = v /\ x.msg.seq = s}

CommitsOf(r, v, s) == {x \in r.commits : x.msg.view = v /\ x.msg.seq = s}

Prepared(r, v, s, d) ==
    /\ PrePrepared(r, v, s, d)
    /\ Cardinality(PreparesOf(r, v, s)) >= PrepareQuorum

\* Mutant of Committed: the commit phase is skipped.
CommittedWhenPrepared(r, v, s, d) == Prepared(r, v, s, d)

Committed(r, v, s, d) ==
    /\ Prepared(r, v, s, d)
    /\ Cardinality(CommitsOf(r, v, s)) >= CommitQuorum

ViewChangesOf(r, v) == {x \in r.viewChanges : x.msg.view = v}

\* Mutants of ViewChangeReady: f+1 view changes are enough; 2f+1 are not.
ViewChangeOfFewReady(r, v) == Cardinality(ViewChangesOf(r, v)) >= F + 1

ViewChangeOfMoreReady(r, v) == Cardinality(ViewChangesOf(r, v)) > CommitQuorum

ViewChangeReady(r, v) == Cardinality(ViewChangesOf(r, v)) >= CommitQuorum

-----------------------------------------------------------------------------
(* timer.go *)

StopRequestTimer(r) == [r EXCEPT !.requestTimer = NoTimer]

\* Mutant of TargetView: the timer counts the view down.
PreviousView(r) == r.view - 1

TargetView(r) == r.view + 1

StartRequestTimer(r, overrideExisting) ==
    IF r.requestTimer # NoTimer /\ ~overrideExisting
      THEN r
      ELSE [r EXCEPT !.requestTimer = [target |-> TargetView(r), running |-> TRUE]]

-----------------------------------------------------------------------------
(* execute.go *)

\* A failed write is logged and forgotten: the request leaves pending anyway.
\* lastExecuted is read here and assigned nowhere.
Execute(r, v, s, d, lost) ==
    IF \/ d \notin r.requests
       \/ d \notin r.pending
       \/ s # r.lastExecuted + 1
      THEN r
      ELSE LET fails    == <<"Block", 0>> \in lost
               block    == [view |-> v, seq |-> s, digest |-> d]
               executed == StopRequestTimer(
                             [r EXCEPT !.pending = @ \ {d},
                                       !.ledger = IF fails THEN @ ELSE Append(@, block),
                                       !.failed = @ \/ fails])
           IN IF executed.pending # {}
                THEN StartRequestTimer(executed, TRUE)
                ELSE executed

-----------------------------------------------------------------------------
(* commit.go *)

RecordCommitReceipt(r, from, m) ==
    IF \E x \in r.commits : x.from = from /\ SameSlot(x.msg, m)
      THEN r
      ELSE [r EXCEPT !.commits = @ \cup {[from |-> from, msg |-> m]}]

ShouldSendCommit(r, v, s, d) ==
    /\ Prepared(r, v, s, d)
    /\ \A x \in CommitsOf(r, v, s) : x.from # r.id

\* Mutant of MaybeSendCommit: it leaves executing to the next Commit.
CommitWithoutExecuting(r, v, s, d, lost) ==
    LET commit == [type |-> "Commit", view |-> v, seq |-> s, digest |-> d]
    IN IF ShouldSendCommit(r, v, s, d)
         THEN RecordCommitReceipt(Broadcast(r, commit, lost), r.id, commit)
         ELSE r

\* maybeSendCommit and sendCommit; the commit is our own receipt only if the
\* broadcast returned no error.
MaybeSendCommit(r, v, s, d, lost) ==
    LET commit == [type |-> "Commit", view |-> v, seq |-> s, digest |-> d]
        sent   == Broadcast(r, commit, lost)
        done   == RecordCommitReceipt(sent, r.id, commit)
    IN CASE ~ShouldSendCommit(r, v, s, d) -> r
         [] ShouldSendCommit(r, v, s, d) /\ Fails(commit, lost) -> sent
         [] OTHER -> IF Committed(done, v, s, d) THEN Execute(done, v, s, d, lost) ELSE done

ProcessCommit(r, from, m, lost) ==
    LET recorded == RecordCommitReceipt(r, from, m)
    IN CASE m.view # r.view -> r
         [] OTHER -> IF Committed(recorded, m.view, m.seq, m.digest)
                       THEN Execute(recorded, m.view, m.seq, m.digest, lost)
                       ELSE recorded

-----------------------------------------------------------------------------
(* prepare.go *)

RecordPrepareReceipt(r, from, m) ==
    IF \E x \in r.prepares : x.from = from /\ SameSlot(x.msg, m)
      THEN r
      ELSE [r EXCEPT !.prepares = @ \cup {[from |-> from, msg |-> m]}]

ProcessPrepare(r, from, m, lost) ==
    IF from = Primary(r.view) \/ m.view # r.view
      THEN r
      ELSE MaybeSendCommit(RecordPrepareReceipt(r, from, m), m.view, m.seq, m.digest, lost)

-----------------------------------------------------------------------------
(* preprepare.go *)

ConflictingPrePrepare(r, m) ==
    \E p \in r.preprepares : p.view = m.view /\ p.digest = m.digest /\ p.seq # m.seq

\* The assignment r.preprepares[id] = msg, for each message of a set: what was
\* in its slot is overwritten.
StorePrePrepares(r, ms) ==
    [r EXCEPT !.preprepares = {p \in @ : \A m \in ms : ~SameSlot(p, m)} \cup ms]

\* A backup takes pre-prepares into free slots: it stores the message and the
\* request, starts the timer and broadcasts a Prepare, which is its own receipt
\* only if that returned no error.
AcceptPrePrepares(r, ms, lost) ==
    LET prepareFor(m) == [m EXCEPT !.type = "Prepare"]
        accepted == {m \in ms : \A p \in r.preprepares : ~SameSlot(p, m)}
        answers  == {prepareFor(m) : m \in accepted}
        own      == {[from |-> r.id, msg |-> p] : p \in {a \in answers : ~Fails(a, lost)}}
        taken    == [r EXCEPT
                       !.preprepares = @ \cup accepted,
                       !.requests = @ \cup {m.digest : m \in accepted},
                       !.pending = @ \cup {m.digest : m \in accepted},
                       !.prepares = @ \cup
                          {o \in own : \A x \in @ : x.from # r.id \/ ~SameSlot(x.msg, o.msg)},
                       !.outbox = @ \cup {[msg |-> a, failed |-> Fails(a, lost)] : a \in answers},
                       !.failed = @ \/ \E a \in answers : Fails(a, lost)]
    IN IF accepted = {} THEN r ELSE StartRequestTimer(taken, FALSE)

\* Mutants of ProcessPrePrepare: the sender need not be the primary.
PrePrepareFromAnyone(r, from, m, lost) ==
    IF IsPrimary(r) \/ m.view # r.view
      THEN r
      ELSE MaybeSendCommit(AcceptPrePrepares(r, {m}, lost), m.view, m.seq, m.digest, lost)

\* ... what is in the slot already is overwritten.
PrePrepareOverwrites(r, from, m, lost) ==
    LET cleared == [r EXCEPT !.preprepares = {p \in @ : ~SameSlot(p, m)}]
    IN IF IsPrimary(r) \/ from # Primary(r.view) \/ m.view # r.view
         THEN r
         ELSE MaybeSendCommit(AcceptPrePrepares(cleared, {m}, lost), m.view, m.seq, m.digest, lost)

ProcessPrePrepare(r, from, m, lost) ==
    LET taken == AcceptPrePrepares(r, {m}, lost)
    IN CASE \/ IsPrimary(r)
            \/ from # Primary(r.view)
            \/ m.view # r.view
            \/ \E p \in r.preprepares : SameSlot(p, m) -> r
         [] OTHER -> IF Fails([m EXCEPT !.type = "Prepare"], lost)
                       THEN taken
                       ELSE MaybeSendCommit(taken, m.view, m.seq, m.digest, lost)

-----------------------------------------------------------------------------
(* request.go and outstanding.go *)

\* Every request ever seen: those executed are not told apart (executions).
OutstandingRequests(r) == r.requests

\* The pre-prepares a primary gives to requests it takes in the given order.
PrePreparesFor(r, order) ==
    {[type |-> "PrePrepare", view |-> r.view, seq |-> r.sequence + k, digest |-> order[k]] :
       k \in DOMAIN order}

\* sendPrePrepare up to its broadcast, for each request of a sequence: note the
\* request, draw the next sequence number, broadcast.
SendPrePrepares(r, order, lost) ==
    LET ms == {m \in PrePreparesFor(r, order) : ~ConflictingPrePrepare(r, m)}
    IN [r EXCEPT !.requests = @ \cup Range(order),
                 !.pending = @ \cup Range(order),
                 !.sequence = @ + Len(order),
                 !.outbox = @ \cup {[msg |-> m, failed |-> Fails(m, lost)] : m \in ms},
                 !.failed = @ \/ \E m \in ms : Fails(m, lost)]

\* A Byzantine primary counts its view up before each pre-prepare it sends.
Equivocate(r) == IF r.id \in Byzantine THEN [r EXCEPT !.view = @ + 1] ELSE r

-----------------------------------------------------------------------------
(* view_change.go *)

\* Mutant of GetPrepareSet: a pre-prepare is enough for a certificate.
GetPrePreparedSet(r) ==
    {[view |-> p.view, seq |-> p.seq, digest |-> p.digest,
      prepares |-> PreparesOf(r, p.view, p.seq)] : p \in r.preprepares}

\* The prepared requests: only the digest of our own pre-prepare is compared,
\* the certificate holds whatever Prepares the slot has received.
GetPrepareSet(r) ==
    {[view |-> p.view, seq |-> p.seq, digest |-> p.digest,
      prepares |-> PreparesOf(r, p.view, p.seq)] :
       p \in {q \in r.preprepares : Prepared(r, q.view, q.seq, q.digest)}}

ValidViewChange(m) ==
    /\ m.view # 0
    /\ \A p \in m.prepares :
          /\ p.view < m.view
          /\ p.seq # 0
          /\ p.digest # EmptyDigest
          /\ Cardinality(p.prepares) >= PrepareQuorum
          /\ \A x \in p.prepares : SameSlot(x.msg, p) /\ x.msg.digest = p.digest

RecordViewChangeReceipt(r, from, m) ==
    IF \E x \in r.viewChanges : x.from = from /\ x.msg.view = m.view
      THEN r
      ELSE [r EXCEPT !.viewChanges = @ \cup {[from |-> from, msg |-> m]}]

ViewChangeFor(r, v) == [type |-> "ViewChange", view |-> v, prepares |-> GetPrepareSet(r)]

\* Mutant of StartViewChange: the view is not compared with the replica's own.
StartAnyViewChange(r, v, lost) ==
    LET vc == ViewChangeFor(r, v)
    IN RecordViewChangeReceipt(
         Broadcast([StopRequestTimer(r) EXCEPT !.view = v, !.activeView = FALSE], vc, lost),
         r.id, vc)

StartViewChange(r, v, lost) ==
    LET vc   == ViewChangeFor(r, v)
        left == [StopRequestTimer(r) EXCEPT !.view = v, !.activeView = FALSE]
        sent == Broadcast(left, vc, lost)
    IN CASE v <= r.view -> r
         [] OTHER -> IF Fails(vc, lost) THEN sent ELSE RecordViewChangeReceipt(sent, r.id, vc)

\* The later views for which f+1 other replicas have sent a view change.
JoinableViews(r) ==
    {v \in {x.msg.view : x \in r.viewChanges} :
       /\ v > r.view
       /\ Cardinality({x \in ViewChangesOf(r, v) : x.from # r.id}) >= F + 1}

SmallestJoinableViews(r) == {v \in JoinableViews(r) : \A w \in JoinableViews(r) : v <= w}

\* shouldSendViewChange and, when it says so, startViewChange.
MaybeJoinViewChange(r, lost) ==
    IF r.activeView /\ SmallestJoinableViews(r) # {}
      THEN StartViewChange(r, CHOOSE v \in SmallestJoinableViews(r) : TRUE, lost)
      ELSE r

-----------------------------------------------------------------------------
(* new_view.go *)

CleanupState(r, thresholdView) ==
    [r EXCEPT !.pending = {},
              !.preprepares = {p \in @ : p.view >= thresholdView},
              !.prepares = {x \in @ : x.msg.view >= thresholdView},
              !.commits = {x \in @ : x.msg.view >= thresholdView}]

\* Mutant of GetHighestSequenceNumber: the last sequence number is left out.
SequenceNumberBeforeHighest(infos) == Max({p.seq : p \in infos} \cup {1}) - 1

GetHighestSequenceNumber(infos) ==
    LET highest == {s \in {p.seq : p \in infos} : \A p \in infos : p.seq <= s}
    IN IF highest = {} THEN 0 ELSE CHOOSE s \in highest : TRUE

\* The digests getPrepare can return for a sequence number: those of the
\* certificates of the highest view (the order of the maps picks one), or the
\* null request's when there is none.
ChosenDigests(infos, s) ==
    LET here == {p \in infos : p.seq = s}
        best == {p \in here : \A q \in here : q.view <= p.view}
    IN IF here = {} THEN {EmptyDigest} ELSE {p.digest : p \in best}

GeneratePrePrepares(v, messages) ==
    LET infos == UNION {x.msg.prepares : x \in messages}
        seqs  == 1 .. GetHighestSequenceNumber(infos)
        picks == {c \in [seqs -> UNION {ChosenDigests(infos, s) : s \in seqs}] :
                    \A s \in seqs : c[s] \in ChosenDigests(infos, s)}
    IN {[s \in seqs |-> [type |-> "PrePrepare", view |-> v, seq |-> s, digest |-> c[s]]] :
          c \in picks}

\* The new primary enters its view with the pre-prepares of its NewView ...
EnterOwnView(r, v, preprepares) ==
    LET digests == {p.digest : p \in Range(preprepares)}
    IN [StorePrePrepares(CleanupState(r, v), Range(preprepares))
          EXCEPT !.requests = @ \cup digests, !.pending = @ \cup digests,
                 !.view = v, !.activeView = TRUE]

\* ... and then pre-prepares every request it has seen that these do not carry,
\* with its own counter of sequence numbers, in the order of a Go map.
ProposeOutstanding(r, lost) ==
    LET waiting == {GetDigest(d) : d \in OutstandingRequests(r)} \ r.pending
    IN {LET sent == SendPrePrepares(r, order, lost)
        IN StorePrePrepares(sent, {m \in PrePreparesFor(r, order) :
                                     ~ConflictingPrePrepare(r, m) /\ ~Fails(m, lost)}) :
          order \in SetToSeqs(waiting)}

StartNewView(r, v, lost) ==
    LET own  == RecordViewChangeReceipt(r, r.id, ViewChangeFor(r, v))
        msgs == ViewChangesOf(own, v)
        newView(pps) == [type |-> "NewView", view |-> v, messages |-> msgs,
                         preprepares |-> pps]
    IN UNION {LET sent == Broadcast(own, newView(pps), lost)
              IN IF Fails(newView(pps), lost)
                   THEN {sent}
                   ELSE ProposeOutstanding(EnterOwnView(sent, v, pps), lost) :
                pps \in GeneratePrePrepares(v, msgs)}

ProcessViewChange(r, from, m, lost) ==
    LET recorded == RecordViewChangeReceipt(r, from, m)
        joined   == MaybeJoinViewChange(recorded, lost)
    IN CASE m.view < r.view \/ ~ValidViewChange(m) -> {r}
         [] OTHER ->
              IF m.view = r.view /\ r.activeView
                THEN {recorded}
                ELSE IF Primary(m.view) = r.id /\ ViewChangeReady(joined, m.view)
                       THEN StartNewView(joined, m.view, lost)
                       ELSE {joined}

ValidNewView(from, m) ==
    /\ from = Primary(m.view)
    /\ Cardinality(m.messages) >= CommitQuorum
    /\ \A x \in m.messages : ValidViewChange(x.msg)
    /\ \A s \in DOMAIN m.preprepares :
          m.preprepares[s].view = m.view /\ m.preprepares[s].seq = s

\* A backup enters the view and processes each pre-prepare of the NewView.  In a
\* view it has just entered it holds no receipt of others (EntersViewClean), so
\* no Prepare of its own completes a quorum here.
ProcessNewView(r, from, m, lost) ==
    LET entered == CleanupState([r EXCEPT !.view = m.view, !.activeView = TRUE], m.view)
        taken   == AcceptPrePrepares(entered, Range(m.preprepares), lost)
    IN CASE m.view < r.view \/ ~ValidNewView(from, m) -> r
         [] OTHER -> IF OutstandingRequests(taken) # {}
                       THEN StartRequestTimer(taken, FALSE)
                       ELSE taken

-----------------------------------------------------------------------------
(* replica.go *)

\* Mutant of IsMessageAllowed: a view change does not stop the normal case.
AllowedInViewChange(r, m) == r.activeView => m.type # "NewView"

\* An active view takes no NewView, a view change nothing but its own messages.
IsMessageAllowed(r, m) ==
    IF r.activeView THEN m.type # "NewView" ELSE m.type \in {"ViewChange", "NewView"}
=============================================================================
