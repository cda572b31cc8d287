-------------------------------- MODULE PBFT --------------------------------
(***************************************************************************)
(* The cluster of pBFT_main.go: N replicas in one process, the streams     *)
(* between them, their request timers, and the main goroutine that injects *)
(* the request at one replica after the other.                             *)
(*                                                                         *)
(* A message handler and a timer callback run under the replica's lock and *)
(* are one step each.  The main goroutine calls processRequest without the *)
(* lock: its call is several steps, and handlers of the same replica run   *)
(* in between.  Each message is its own stream, so messages are delivered  *)
(* in any order; a message is delivered at most once, and not at all to a  *)
(* peer that its broadcast did not reach.                                  *)
(***************************************************************************)
EXTENDS PBFTReplica

CONSTANTS MaxView,      \* bound: no timer for a later view expires
          MaxFailures,  \* bound: in how many methods something fails
          Failures      \* what can fail, see PBFTReplica!Fails

ASSUME BoundAssumption ==
    /\ MaxView \in Nat
    /\ MaxFailures \in Nat

VARIABLES
    replica,   \* the state of each replica
    net,       \* the messages under way
    main,      \* which replica main injects at next, and what it has read there
    failures   \* in how many methods something has failed

vars == <<replica, net, main, failures>>

Correct == Replica \ Byzantine

\* The ordinal of the method whose broadcast of the message failed, or 0.  The
\* only message a replica sends again is one whose first broadcast failed, so
\* the ordinal keeps the copies apart.
Envelope == [from : Replica, to : Replica, msg : Message, failure : Nat]

\* main is outside processRequest, or in it: at a replica that was no primary
\* when asked, past the check for a nil timer, past the read of the view that
\* the timer is for, before the note of the request, or past the broadcast of a
\* primary's pre-prepare.
Calling ==
    [step : {"outside", "backup", "view", "note"}]
      \cup [step : {"timer"}, target : Nat \ {0}]
      \cup [step : {"broadcast"}, msg : PrePrepare]

Outside == [step |-> "outside"]

Init ==
    /\ replica = [i \in Replica |-> NewReplica(i)]
    /\ net = {}
    /\ main = [next |-> 0, call |-> Outside]
    /\ failures = 0

-----------------------------------------------------------------------------
(* Running a method of replica i. *)

\* What may fail together in a method that sends messages of the given types:
\* a peer that is gone fails all its broadcasts.
Losses(types) ==
    {lost \in SUBSET {f \in Failures : f[1] \in types} :
       lost = {} \/ failures < MaxFailures}

\* The messages of an outbox for every other replica.  A Byzantine replica
\* refuses whatever it is sent, so nothing need travel to it.
Posted(r) ==
    {[from |-> r.id, to |-> j, msg |-> o.msg,
      failure |-> IF o.failed THEN failures + 1 ELSE 0] :
       j \in Correct \ {r.id}, o \in r.outbox}

Returned(r) == [r EXCEPT !.outbox = {}, !.failed = FALSE]

\* The method leaves r behind, after it has consumed the given messages.  A
\* broadcast that failed has not reached some peers, all perhaps; none if only
\* Byzantine ones were missed, or the error came after the message.
Run(r, consumed) ==
    /\ replica' = [replica EXCEPT ![r.id] = Returned(r)]
    /\ \E missed \in SUBSET {e \in Posted(r) : e.failure > 0} :
          net' = (net \ consumed) \cup (Posted(r) \ missed)
    /\ failures' = IF r.failed THEN failures + 1 ELSE failures

\* processMessage: a message that cannot be decoded or is not allowed now is
\* dropped, any other goes to its handler.
Taken(e) == Decodes(e.msg) /\ IsMessageAllowed(replica[e.to], e.msg)

ReceivePrePrepare(e) ==
    /\ e.msg.type = "PrePrepare"
    /\ \E lost \in Losses({"Prepare", "Commit", "Block"}) :
          Run(IF Taken(e) THEN ProcessPrePrepare(replica[e.to], e.from, e.msg, lost)
                          ELSE replica[e.to], {e})
    /\ UNCHANGED main

ReceivePrepare(e) ==
    /\ e.msg.type = "Prepare"
    /\ \E lost \in Losses({"Commit", "Block"}) :
          Run(IF Taken(e) THEN ProcessPrepare(replica[e.to], e.from, e.msg, lost)
                          ELSE replica[e.to], {e})
    /\ UNCHANGED main

ReceiveCommit(e) ==
    /\ e.msg.type = "Commit"
    /\ \E lost \in Losses({"Block"}) :
          Run(IF Taken(e) THEN ProcessCommit(replica[e.to], e.from, e.msg, lost)
                          ELSE replica[e.to], {e})
    /\ UNCHANGED main

ReceiveViewChange(e) ==
    /\ e.msg.type = "ViewChange"
    /\ \E lost \in Losses({"ViewChange", "NewView", "PrePrepare"}) :
       \E r \in IF Taken(e) THEN ProcessViewChange(replica[e.to], e.from, e.msg, lost)
                            ELSE {replica[e.to]} :
          Run(r, {e})
    /\ UNCHANGED main

ReceiveNewView(e) ==
    /\ e.msg.type = "NewView"
    /\ \E lost \in Losses({"Prepare"}) :
          Run(IF Taken(e) THEN ProcessNewView(replica[e.to], e.from, e.msg, lost)
                          ELSE replica[e.to], {e})
    /\ UNCHANGED main

Receive(e) ==
    \/ ReceivePrePrepare(e)
    \/ ReceivePrepare(e)
    \/ ReceiveCommit(e)
    \/ ReceiveViewChange(e)
    \/ ReceiveNewView(e)

-----------------------------------------------------------------------------
(* Timers. *)

\* The timer of replica i fires; its callback now waits for the lock, and Stop
\* no longer prevents it.
TimerExpires(i) ==
    /\ replica[i].requestTimer.running
    /\ replica[i].requestTimer.target <= MaxView
    /\ replica' = [replica EXCEPT
                     ![i].requestTimer.running = FALSE,
                     ![i].callbacks = @ \cup {replica[i].requestTimer.target}]
    /\ UNCHANGED <<net, main, failures>>

\* The callback gets the lock.
TimerCallback(i, v) ==
    /\ v \in replica[i].callbacks
    /\ v <= MaxView
    /\ \E lost \in Losses({"ViewChange"}) :
          Run(StartViewChange([replica[i] EXCEPT !.callbacks = @ \ {v}], v, lost), {})
    /\ UNCHANGED main

-----------------------------------------------------------------------------
(* The main goroutine.  It injects at replica i the request with digest i. *)

MainReturns == main' = [next |-> main.next + 1, call |-> Outside]

MainEnters(i) ==
    /\ i = main.next
    /\ main.call = Outside

\* A replica that does not lead its view ...
MainAtBackup(i) ==
    /\ MainEnters(i)
    /\ ~IsPrimary(replica[i])
    /\ main' = [main EXCEPT !.call = [step |-> "backup"]]
    /\ UNCHANGED <<replica, net, failures>>

\* ... is to have a timer if requestTimer is nil now.
MainReadsTimer(i) ==
    /\ i = main.next
    /\ main.call.step = "backup"
    /\ main' = [main EXCEPT !.call =
                   [step |-> IF replica[i].requestTimer = NoTimer THEN "view" ELSE "note"]]
    /\ UNCHANGED <<replica, net, failures>>

\* The view that the timer is for is read now.  A timer that a handler has started
\* since the check is stopped, if it was there at the second look.
MainReadsView(i) ==
    /\ i = main.next
    /\ main.call.step = "view"
    /\ \E running \in {replica[i].requestTimer.running, FALSE} :
          Run([replica[i] EXCEPT !.requestTimer.running = running], {})
    /\ main' = [main EXCEPT !.call = [step |-> "timer", target |-> TargetView(replica[i])]]

\* The assignment of requestTimer.  A timer that is running there nevertheless
\* goes on, and nobody can stop it any more.
MainArmsTimer(i) ==
    /\ i = main.next
    /\ main.call.step = "timer"
    /\ LET old == replica[i].requestTimer
       IN Run([replica[i] EXCEPT
                 !.requestTimer = [target |-> main.call.target, running |-> TRUE],
                 !.callbacks = @ \cup (IF old.running THEN {old.target} ELSE {})], {})
    /\ main' = [main EXCEPT !.call = [step |-> "note"]]

\* A backup only notes the request.
MainNotesRequest(i) ==
    /\ i = main.next
    /\ main.call.step = "note"
    /\ Run([replica[i] EXCEPT !.requests = @ \cup {i}], {})
    /\ MainReturns

\* A primary that has the request queued already drops it.  Any other takes the
\* request and broadcasts a pre-prepare for it ...
MainProposes(i) ==
    /\ MainEnters(i)
    /\ IsPrimary(replica[i])
    /\ \E lost \in Losses({"PrePrepare"}) :
       LET noted   == Equivocate([replica[i] EXCEPT !.requests = @ \cup {i}])
           sent    == SendPrePrepares(noted, <<i>>, lost)
           m       == [type |-> "PrePrepare", view |-> noted.view,
                       seq |-> noted.sequence + 1, digest |-> i]
           refused == i \in replica[i].pending
       IN /\ Run(IF refused THEN replica[i] ELSE sent, {})
          /\ IF refused \/ ConflictingPrePrepare(noted, m) \/ Fails(m, lost)
               THEN MainReturns
               ELSE main' = [main EXCEPT !.call = [step |-> "broadcast", msg |-> m]]

\* ... which it stores only now, after every peer has been sent it.
MainStoresPrePrepare(i) ==
    /\ i = main.next
    /\ main.call.step = "broadcast"
    /\ Run(StorePrePrepares(replica[i], {main.call.msg}), {})
    /\ MainReturns

Main ==
    \E i \in Replica :
       \/ MainAtBackup(i)
       \/ MainReadsTimer(i)
       \/ MainReadsView(i)
       \/ MainArmsTimer(i)
       \/ MainNotesRequest(i)
       \/ MainProposes(i)
       \/ MainStoresPrePrepare(i)

-----------------------------------------------------------------------------
Timers == \E i \in Replica : TimerExpires(i) \/ \E v \in 1 .. MaxView : TimerCallback(i, v)

Next == (\E e \in net : Receive(e)) \/ Timers \/ Main

Spec == Init /\ [][Next]_vars

\* Every message under way is delivered, main goes on, a timer that nobody stops
\* expires, and a callback gets the lock.
Fairness ==
    /\ \A i \in Replica : WF_vars(\E e \in net : e.to = i /\ Receive(e))
    /\ WF_vars(Main)
    /\ \A i \in Replica : WF_vars(TimerExpires(i))
    /\ \A i \in Replica : \A v \in 1 .. MaxView : WF_vars(TimerCallback(i, v))

FairSpec == Spec /\ Fairness
=============================================================================
