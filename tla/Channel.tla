------------------------------- MODULE Channel -------------------------------
(***************************************************************************)
(* One websocket channel of a node: its keepalive (ChannelBase) and, if it  *)
(* is an outgoing one, its reconnection (OutgoingChannelBase).  All timers  *)
(* are counted in seconds; one that is due fires before time goes on, in    *)
(* any order with the other events of that second.                         *)
(*                                                                         *)
(* The field __pongTimeout remembers one pong timer only.  Timers are       *)
(* therefore kept apart from the field, as setTimeout does: a timer that   *)
(* is no longer remembered still fires.                                    *)
(***************************************************************************)
EXTENDS Integers

CONSTANTS
    Incoming,          \* is this an IncomingChannel
    HandshakeTimeout,  \* appConfig.handshakeTimeout
    PingInterval,      \* from a sign of life to the next ping
    PongTimeout,       \* patience after a ping
    ReconnectDelays,   \* the delay before attempt 1, 2, ... to reconnect
    Responsive,        \* environment: while connected, the peer answers in time
    PongTimer,         \* bound: pong timers that run at a time
    MaxAge             \* bound: ages from here on are not told apart

Stopped == -1

ASSUME KindAssumption == Incoming \in BOOLEAN /\ Responsive \in BOOLEAN
ASSUME TimeoutAssumption ==
    /\ HandshakeTimeout \in Nat
    /\ PingInterval \in Nat
    /\ PongTimeout \in Nat
    /\ MaxAge \in Nat
    /\ 1 \in DOMAIN ReconnectDelays
    /\ \A k \in DOMAIN ReconnectDelays : k \in Nat /\ ReconnectDelays[k] \in Nat
ASSUME TimerAssumption == PongTimer \subseteq Nat

VARIABLES
    ws,            \* readyState of __ws: "aborting" is CONNECTING, to be closed
    validated,     \* __isValidated
    termination,   \* __termination
    connection,    \* __connectionTimeout
    reconnection,  \* __reconnectionTimeoutId
    attempts,      \* __connectionAttempts, as far as the delay depends on it
    ping,          \* __pingTimeout
    pongTimers,    \* the pong timers
    pong,          \* __pongTimeout: one of them, or null
    missed,        \* __missedPongs, up to the three that count
    age,           \* seconds since __lastMessageAt
    released       \* history: the owner closed the channel for good

vars == <<ws, validated, termination, connection, reconnection, attempts, ping,
          pongTimers, pong, missed, age, released>>

-----------------------------------------------------------------------------
Timer == {Stopped} \cup Nat
NoTimer == -1

Running(pongs) == {i \in PongTimer : pongs[i] # Stopped}

(* close of the websocket and of the timers of an outgoing channel *)
Close(terminate) ==
    /\ termination' = terminate
    /\ connection' = Stopped
    /\ reconnection' = Stopped
    /\ ws' = CASE ws \in {"connecting", "aborting"} -> "aborting"
               [] ws \in {"open", "closing"} -> "closing"
               [] ws = "none" -> "none"

(* clearTimeout of the remembered pong timer *)
Forget(pongs) == IF pong = NoTimer THEN pongs ELSE [pongs EXCEPT ![pong] = Stopped]

(* What __onClose leaves of the pong timers: those it does not remember *)
ClearedOnClose == Forget(pongTimers)

(* __startPingPong: a new pong timer is remembered, whether or not another  *)
(* one is running                                                          *)
StartPingPong(pongs, connectionTimer) ==
    \/ /\ ws = "open"
       /\ connection' = connectionTimer
       /\ \E i \in PongTimer \ Running(pongs) :
            /\ \A j \in PongTimer \ Running(pongs) : i <= j
            /\ pongTimers' = [pongs EXCEPT ![i] = PongTimeout]
            /\ pong' = i
       /\ UNCHANGED <<ws, termination, reconnection>>
    \/ /\ ws # "open"
       /\ Close(Incoming)
       /\ pongTimers' = pongs
       /\ UNCHANGED pong

(* Mutant: a message stops the keepalive *)
NextPingUnlessMessage == ping

(* The ping timer after a sign of life *)
NextPing == IF ping = Stopped THEN PingInterval ELSE ping

(* __onProofOfLife *)
OnProofOfLife ==
    /\ missed' = 0
    /\ age' = 0
    /\ pongTimers' = Forget(pongTimers)
    /\ pong' = NoTimer
    /\ ping' = NextPing

-----------------------------------------------------------------------------
(* The constructor of an IncomingChannel starts the ping pong on the socket *)
(* it is given, the one of an outgoing channel connects.                   *)
Init ==
    /\ ws = IF Incoming THEN "open" ELSE "connecting"
    /\ validated = FALSE
    /\ termination = FALSE
    /\ connection = IF Incoming THEN Stopped ELSE HandshakeTimeout
    /\ reconnection = Stopped
    /\ attempts = 0
    /\ ping = Stopped
    /\ IF Incoming
       THEN \E i \in PongTimer :
                /\ \A j \in PongTimer : i <= j
                /\ pong = i
                /\ pongTimers = [j \in PongTimer |-> IF j = i THEN PongTimeout ELSE Stopped]
       ELSE /\ pong = NoTimer
            /\ pongTimers = [j \in PongTimer |-> Stopped]
    /\ missed = 0
    /\ age = MaxAge
    /\ released = FALSE

(* ------------------------ the websocket's events ---------------------- *)

(* __onOpen; a socket that is to be closed closes instead *)
Open ==
    \/ /\ ws = "connecting"
       /\ ws' = "open"
       /\ reconnection' = Stopped
       /\ attempts' = 0
       /\ UNCHANGED <<validated, termination, connection, ping, pongTimers, pong,
                      missed, age, released>>
    \/ /\ ws = "aborting"
       /\ ws' = "closing"
       /\ UNCHANGED <<validated, termination, connection, reconnection, attempts,
                      ping, pongTimers, pong, missed, age, released>>

(* A pong or a message; the socket delivers them until it is closed *)
ProofOfLife ==
    /\ ws \in {"open", "closing"}
    /\ OnProofOfLife
    /\ UNCHANGED <<ws, validated, termination, connection, reconnection, attempts,
                   released>>

(* The answer to the handshake *)
HandshakeResponse ==
    /\ ws \in {"open", "closing"}
    /\ OnProofOfLife
    /\ validated' = TRUE
    /\ UNCHANGED <<ws, termination, connection, reconnection, attempts, released>>

(* __onClose: the connection failed, broke or is closed *)
OnClose ==
    LET next == IF attempts + 1 \in DOMAIN ReconnectDelays THEN attempts + 1 ELSE attempts IN
    /\ ws # "none"
    /\ ws' = "none"
    /\ validated' = FALSE
    /\ connection' = Stopped
    /\ ping' = Stopped
    /\ pongTimers' = ClearedOnClose
    /\ pong' = NoTimer
    /\ \/ Incoming /\ UNCHANGED <<attempts, reconnection>>
       \/ /\ ~Incoming
          /\ attempts' = next
          /\ reconnection' = IF termination THEN Stopped ELSE ReconnectDelays[next]
    /\ UNCHANGED <<termination, missed, age, released>>

(* The channel is closed for good: its peer left the configuration, another *)
(* channel replaces it, or its answer to the handshake is wrong             *)
Release ==
    /\ ~released
    /\ Close(TRUE)
    /\ released' = TRUE
    /\ UNCHANGED <<validated, attempts, ping, pongTimers, pong, missed, age>>

(* ------------------------------ the timers ---------------------------- *)

(* The handshake timeout starts the ping pong, also when all went well *)
ConnectionTimeout ==
    /\ connection = 0
    /\ StartPingPong(pongTimers, Stopped)
    /\ UNCHANGED <<validated, attempts, ping, missed, age, released>>

PingTimeout ==
    /\ ping = 0
    /\ ping' = Stopped
    /\ StartPingPong(pongTimers, connection)
    /\ UNCHANGED <<validated, attempts, missed, age, released>>

(* Mutant: one missed pong more *)
IsUnresponsiveLate(m) == m > 3

(* Mutant: the first missed pong ends the connection *)
IsUnresponsiveAtOnce(m) == m >= 1

IsUnresponsive(m) == m >= 3

(* The callback of a pong timer, remembered or not *)
PongTimeouts(i) ==
    LET pongs == [pongTimers EXCEPT ![i] = Stopped] IN
    /\ pongTimers[i] = 0
    /\ missed' = IF missed <= 3 THEN missed + 1 ELSE missed
    /\ IF IsUnresponsive(missed + 1)
       THEN Close(Incoming) /\ pongTimers' = pongs /\ UNCHANGED pong
       ELSE StartPingPong(pongs, connection)
    /\ UNCHANGED <<validated, attempts, ping, age, released>>

(* __connect *)
Reconnect ==
    /\ reconnection = 0
    /\ reconnection' = Stopped
    /\ ws' = "connecting"
    /\ connection' = HandshakeTimeout
    /\ UNCHANGED <<validated, termination, attempts, ping, pongTimers, pong, missed,
                   age, released>>

Tick ==
    LET Later(t) == IF t = Stopped THEN Stopped ELSE t - 1 IN
    /\ 0 \notin {connection, reconnection, ping} \cup {pongTimers[i] : i \in PongTimer}
    /\ Responsive /\ ws = "open" => \A i \in PongTimer : pongTimers[i] # 1
    /\ connection' = Later(connection)
    /\ reconnection' = Later(reconnection)
    /\ ping' = Later(ping)
    /\ pongTimers' = [i \in PongTimer |-> Later(pongTimers[i])]
    /\ age' = IF age < MaxAge THEN age + 1 ELSE age
    /\ UNCHANGED <<ws, validated, termination, attempts, pong, missed, released>>

Next ==
    \/ Open
    \/ ProofOfLife
    \/ HandshakeResponse
    \/ OnClose
    \/ Release
    \/ ConnectionTimeout
    \/ PingTimeout
    \/ \E i \in PongTimer : PongTimeouts(i)
    \/ Reconnect
    \/ Tick

Spec == Init /\ [][Next]_vars

-----------------------------------------------------------------------------
(* Properties *)

TypeOK ==
    /\ ws \in {"none", "connecting", "aborting", "open", "closing"}
    /\ validated \in BOOLEAN
    /\ termination \in BOOLEAN
    /\ connection \in Timer
    /\ reconnection \in Timer
    /\ attempts \in {0} \cup DOMAIN ReconnectDelays
    /\ ping \in Timer
    /\ pongTimers \in [PongTimer -> Timer]
    /\ pong \in PongTimer \cup {NoTimer}
    /\ missed \in 0..4
    /\ age \in 0..MaxAge
    /\ released \in BOOLEAN

(* isReady *)
IsReady == ws = "open" /\ validated

(* The keepalive of an open channel never halts: some timer that leads to a *)
(* ping or to the end of the connection runs, whatever the order in which  *)
(* pongs, messages and timers come.                                        *)
KeepAliveRuns ==
    ws = "open" => \/ connection # Stopped
                   \/ ping # Stopped
                   \/ pong # NoTimer /\ pongTimers[pong] # Stopped

(* A channel that counts as ready was heard of within an interval and three *)
(* pong timeouts: nodes are not waited for that are long gone.             *)
ReadyIsHeard == IsReady => age <= PingInterval + 3 * PongTimeout

(* The channel closes itself because of missed pongs *)
GivesUp == IsReady /\ ws' = "closing" /\ ~released'

(* A peer that was heard of within one pong timeout is not given up. *)
PatientOnce == [][GivesUp => age > PongTimeout]_vars

(* "Restarts on failure": an outgoing channel that its owner did not close  *)
(* and that has no connection is about to connect again.                   *)
RestartsOnFailure ==
    ~Incoming /\ ~released /\ ws = "none" => reconnection # Stopped

=============================================================================
