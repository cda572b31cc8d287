---------------------------- MODULE PBFTMessages ----------------------------
(***************************************************************************)
(* The protocol's messages (pBFTCode/message.go).  A message does not name *)
(* its sender: the sender is the remote peer of the stream the message     *)
(* arrives on, so it belongs to the envelope (PBFT.tla) and to the receipt *)
(* a replica keeps.                                                        *)
(*                                                                         *)
(* A request is known by its digest.  The digest of the request that the   *)
(* orchestrator injects at replica i is written i: the request's Origin is *)
(* that replica, so the four injected requests have four digests although  *)
(* they share one ID.  A null request travels with the empty digest, and   *)
(* hashes to NullHash when a replica computes its digest itself.           *)
(***************************************************************************)
EXTENDS PBFTCore, Sequences

CONSTANTS EmptyDigest,  \* the digest "" of a null request in a new view
          NullHash,     \* getDigest(NullRequest)
          NullDecodes   \* does a null request survive JSON decoding?

ASSUME DigestAssumption ==
    /\ EmptyDigest \notin Replica
    /\ NullHash \notin Replica
    /\ EmptyDigest # NullHash
    /\ NullDecodes \in BOOLEAN

Digest == Replica \cup {EmptyDigest, NullHash}

\* The digest of the request that was stored under digest d.
GetDigest(d) == IF d = EmptyDigest THEN NullHash ELSE d

PrePrepare == [type : {"PrePrepare"}, view : Nat, seq : Nat, digest : Digest]
Prepare    == [type : {"Prepare"},    view : Nat, seq : Nat, digest : Digest]
Commit     == [type : {"Commit"},     view : Nat, seq : Nat, digest : Digest]

\* A map from the sender to its message, as the set of its pairs.
PrepareReceipt == [from : Replica, msg : Prepare]
CommitReceipt  == [from : Replica, msg : Commit]

\* A prepare certificate.  The pre-prepare it also carries repeats its view,
\* sequence number and digest.
PrepareInfo == [view : Nat, seq : Nat, digest : Digest,
                prepares : SUBSET PrepareReceipt]

ViewChange == [type : {"ViewChange"}, view : Nat, prepares : SUBSET PrepareInfo]

ViewChangeReceipt == [from : Replica, msg : ViewChange]

NewView == [type : {"NewView"}, view : Nat,
            messages : SUBSET ViewChangeReceipt, preprepares : Seq(PrePrepare)]

Message == PrePrepare \cup Prepare \cup Commit \cup ViewChange \cup NewView

\* Two messages of one slot have the same getMessageID.
SameSlot(m, k) == m.view = k.view /\ m.seq = k.seq

\* A message that carries a null request is decoded only if the library's
\* peer.ID accepts the empty Origin of that request.
Decodes(m) ==
    \/ NullDecodes
    \/ m.type \in {"Prepare", "Commit"}
    \/ m.type = "PrePrepare" /\ m.digest \in Replica
    \/ m.type = "ViewChange" /\ \A p \in m.prepares : p.digest \in Replica
    \/ /\ m.type = "NewView"
       /\ \A x \in m.messages : \A p \in x.msg.prepares : p.digest \in Replica
       /\ \A s \in DOMAIN m.preprepares : m.preprepares[s].digest \in Replica
=============================================================================
