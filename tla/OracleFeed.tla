----------------------------- MODULE OracleFeed -----------------------------
(***************************************************************************)
(* What the cluster promises about one oracle contract, with nothing of    *)
(* rounds, signatures, retries or sequence numbers in it: nodes propose,   *)
(* the contract is initialized once, and then publishes for growing        *)
(* timestamps what a majority of the nodes proposed for that timestamp.    *)
(* Each publication has a place of its own in the feed, so that publishing *)
(* the same again would show.                                              *)
(***************************************************************************)
EXTENDS Integers, FiniteSets

CONSTANTS
    Node,       \* the nodes of the cluster
    Payload,    \* what may be published
    Rounds,     \* the timestamps
    Position    \* the places of the feed, numbers

VARIABLES
    proposed,     \* per node: what it proposed, as [kind, ts, payload]
    initialized,  \* the contract is initialized
    feed          \* what is published, as [at, ts, payload]

feedVars == <<proposed, initialized, feed>>

Proposal == [kind : {"init", "update"}, ts : Rounds, payload : Payload]

Supporters(p) == {n \in Node : p \in proposed[n]}

Supported(p) == 2 * Cardinality(Supporters(p)) > Cardinality(Node)

FeedInit ==
    /\ proposed = [n \in Node |-> {}]
    /\ initialized \in BOOLEAN
    /\ feed = {}

(* A node may change its mind about a timestamp: propositions accumulate *)
Propose(n, p) ==
    /\ proposed' = [proposed EXCEPT ![n] = @ \cup {p}]
    /\ UNCHANGED <<initialized, feed>>

Initialize ==
    /\ ~initialized
    /\ \E p \in Proposal : p.kind = "init" /\ Supported(p)
    /\ initialized' = TRUE
    /\ UNCHANGED <<proposed, feed>>

(* The next place, for a timestamp later than any before *)
Publish(p, at) ==
    /\ initialized
    /\ p.kind = "update"
    /\ Supported(p)
    /\ \A e \in feed : e.at < at /\ e.ts < p.ts
    /\ feed' = feed \cup {[at |-> at, ts |-> p.ts, payload |-> p.payload]}
    /\ UNCHANGED <<proposed, initialized>>

FeedNext ==
    \/ \E n \in Node, p \in Proposal : Propose(n, p)
    \/ Initialize
    \/ \E p \in Proposal, at \in Position : Publish(p, at)

FeedSpec == FeedInit /\ [][FeedNext]_feedVars

=============================================================================
