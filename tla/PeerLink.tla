------------------------------ MODULE PeerLink -------------------------------
(***************************************************************************)
(* What a node may rely on when it sends to a peer: the abstract link of    *)
(* one ordered pair of nodes.  TxConsensus, SubscriptionSync and TradesSync *)
(* are written over links of this kind; NodeConnections implements one.     *)
(*                                                                         *)
(* What is sent while the link is not down is delivered in order unless it  *)
(* goes down.  What was missed while it was down is repeated once the peer  *)
(* says READY.                                                             *)
(***************************************************************************)

VARIABLE
    link    \* "down", "open", or "synced": the peer said READY since it opened

Init == link = "down"

Connect == link = "down" /\ link' = "open"

PeerReady == link = "open" /\ link' = "synced"

Disconnect == link # "down" /\ link' = "down"

Next == Connect \/ PeerReady \/ Disconnect

(* An open link does not stay without the peer's READY *)
Spec == Init /\ [][Next]_link /\ WF_link(PeerReady)

=============================================================================
