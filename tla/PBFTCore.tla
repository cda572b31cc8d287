------------------------------ MODULE PBFTCore ------------------------------
(***************************************************************************)
(* The arithmetic of the protocol (pBFTCode/core.go): how many Byzantine   *)
(* replicas a cluster tolerates, the quorums built on that number, and     *)
(* which replica leads a view.  Replicas are named by their index in the   *)
(* list of peers, which is what core.go computes with.                     *)
(***************************************************************************)
EXTENDS Naturals, FiniteSets

CONSTANT N   \* the number of replicas: len(peers)

\* NewReplica refuses to build a replica for a smaller cluster.
MinimumReplicaCount == 4

ASSUME ClusterAssumption == N \in Nat /\ N >= MinimumReplicaCount

Replica == 0 .. N - 1

CalcByzantineTolerance(n) == IF n <= 1 THEN 0 ELSE (n - 1) \div 3

F == CalcByzantineTolerance(N)

Primary(v) == v % N

PrepareQuorum == 2 * F

CommitQuorum == 2 * F + 1

=============================================================================
