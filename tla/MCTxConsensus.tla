--------------------------- MODULE MCTxConsensus ---------------------------
EXTENDS TxConsensus, TLC

(* Nodes and payloads are interchangeable; safety runs only *)
Symmetry == Permutations(Node) \cup Permutations(Payload)

(* What the run of several rounds tells apart.  The history of submissions  *)
(* is read by no action, and of a worker between two rounds nobody reads   *)
(* the account again, nor what it computed unless that was approved.       *)
WorkerInView(w) ==
    LET computed == w.pc # "idle" \/ w.approved = "yes" IN
    [w EXCEPT !.seq = IF w.pc = "idle" THEN 0 ELSE @,
              !.kind = IF computed THEN @ ELSE "init",
              !.payload = IF computed THEN @ ELSE None]

RoundsView ==
    <<clock, log, mempool, [n \in Node |-> WorkerInView(worker[n])], pending,
      early, inflight, net, link, signed, upToDate, crashes, drops>>

=============================================================================
