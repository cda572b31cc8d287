----------------------------- MODULE MCSchedules ----------------------------
(***************************************************************************)
(* Schedules that lead TLC to a behaviour of PBFT.tla too long for a       *)
(* search of all interleavings.  A schedule only leaves behaviours out.    *)
(***************************************************************************)
EXTENDS MCPBFT

Delivered == net \ net'

\* Timers expire only where and when they are allowed to.
TimersOnly(replicas, allowed) ==
    \A i \in Replica : replica'[i].callbacks # replica[i].callbacks => i \in replicas /\ allowed

\* Replica 3 alone executes in view 0.  Then the timers of 1 and 2 expire, and
\* the messages of view 0 that are under way are late.  In view 1 the phases
\* follow each other, and again only replica 3 takes Commits.
OneExecutes ==
    LET phase(m) == CASE m.type \in {"PrePrepare", "ViewChange", "NewView"} -> 1
                      [] m.type = "Prepare" -> 2
                      [] m.type = "Commit" -> 3
    IN /\ \A e \in Delivered :
             /\ e.msg.type = "Commit" => e.to = 3
             /\ e.msg.view = 0 => \A i \in Correct : replica[i].view = 0
             /\ \A x \in net : ~Spent(x) /\ x.msg.view = e.msg.view => phase(e.msg) <= phase(x.msg)
       /\ TimersOnly({1, 2}, replica[3].ledger # <<>>)

\* Replica 0 alone prepares in view 0.  Then the timers of 2 and 3 expire, the
\* NewView that fails reaches replica 2, and the next one 0 and 3.
SplitNewView ==
    /\ \A e \in Delivered : LET m == e.msg IN
          CASE m.type = "PrePrepare" -> IF m.view = 0 THEN e.to \in {2, 3} ELSE e.to = 2
            [] m.type = "Prepare" -> IF m.view = 0 THEN e.to = 0 ELSE AllIn(1) /\ e.from # 2
            [] m.type = "Commit" -> AllIn(1) /\ e.to \in {0, 2}
            [] m.type = "ViewChange" -> e.to \in {0, 1}
            [] m.type = "NewView" -> IF e.failure > 0 THEN e.to = 2 ELSE e.to \in {0, 3}
    /\ TimersOnly({2, 3}, replica[0].commits # {})

\* Replica 0 prepares the request in view 0.  Then the timers of 1 and 2 expire,
\* the others join them, and what is left of view 0 is late.  The new primary has
\* the view change of 0.  In view 1 the pre-prepares for its own proposals come
\* before or after the NewView, but before the Prepares.
PreparedByOne ==
    /\ \A e \in Delivered : LET m == e.msg IN
          CASE m.type = "ViewChange" -> (e.to = 1 /\ e.from # 3) \/ (e.to # 1 /\ e.from \in {1, 2})
            [] m.view = 0 -> \/ m.type = "PrePrepare" /\ replica[0].commits = {}
                             \/ m.type = "Prepare" /\ e.to = 0 /\ replica[0].view = 0
            [] m.view = 1 -> /\ \A i \in Correct : replica[i].view = 1
                             /\ m.type \in {"Prepare", "Commit"} =>
                                  \A x \in net : x.msg.view = 1 => x.msg.type # "PrePrepare"
    /\ TimersOnly({1, 2}, replica[0].commits # {} /\ \A i \in Correct : 0 \in replica[i].requests)

\* Replica 3 alone executes in view 0.  Then the timers of 1 and 2 take everyone
\* into view 1, where no Prepare arrives in time, and those of 2 and 3 into view
\* 2.  There, only replica 0 takes Commits.  Of what is due to be delivered, the
\* messages for the lowest replica come first.
LostCertificate ==
    LET phase(m) == CASE m.type \in {"ViewChange", "NewView"} -> 0
                      [] m.type = "PrePrepare" -> 1
                      [] m.type = "Prepare" -> 2
                      [] m.type = "Commit" -> 3
        due == {e \in net : LET m == e.msg IN
                  /\ ~Spent(e)
                  /\ m.type \in {"Prepare", "Commit"} => m.seq = 1
                  /\ m.view = 0 => replica[3].ledger = <<>> /\ (m.type = "Commit" => e.to = 3)
                  /\ m.view = 1 => phase(m) = 0
                  /\ m.view = 2 /\ m.type = "Commit" => e.to = 0}
        before(e, x) == \/ phase(e.msg) < phase(x.msg)
                        \/ phase(e.msg) = phase(x.msg) /\ e.to * N + e.from <= x.to * N + x.from
    IN /\ \A e \in Delivered : e \in due /\ \A x \in due : before(e, x)
       /\ \A i \in Correct : ~(replica'[i].callbacks \subseteq replica[i].callbacks) =>
            CASE replica[i].view = 0 -> i \in {1, 2} /\ replica[3].ledger # <<>>
              [] replica[i].view = 1 -> i \in {2, 3} /\ AllIn(1)
=============================================================================
