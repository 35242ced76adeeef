------------------------------ MODULE MCChannel ------------------------------
(* The channel with the timeouts of the code; the delays of the first three *)
(* attempts to reconnect *)
EXTENDS Channel

Delays == <<2, 4, 8>>

=============================================================================
