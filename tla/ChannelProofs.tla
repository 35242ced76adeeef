---------------------------- MODULE ChannelProofs ----------------------------
(***************************************************************************)
(* Proofs about Channel, for all timeouts and any number of timers.        *)
(***************************************************************************)
EXTENDS Channel, TLAPS

(* KeepAliveRuns needs to know that an attempt to connect is timed.        *)
ConnectionIsTimed == ws = "connecting" => connection # Stopped

Inv == ConnectionIsTimed /\ KeepAliveRuns

LEMMA CloseType ==
    ASSUME TypeOK, NEW terminate \in BOOLEAN, Close(terminate)
    PROVE  /\ ws' \in {"none", "aborting", "closing"}
           /\ termination' \in BOOLEAN
           /\ connection' \in Timer
           /\ reconnection' \in Timer
BY DEF Close, TypeOK, Timer

LEMMA ForgetType ==
    ASSUME TypeOK
    PROVE  Forget(pongTimers) \in [PongTimer -> Timer]
BY DEF Forget, TypeOK, Timer

(* The ping pong pings, or closes a connection that is not open. *)
LEMMA StartPingPongType ==
    ASSUME TypeOK, NEW pongs \in [PongTimer -> Timer], NEW t \in Timer,
           StartPingPong(pongs, t)
    PROVE  /\ ws' \in {"none", "aborting", "open", "closing"}
           /\ termination' \in BOOLEAN
           /\ connection' \in Timer
           /\ reconnection' \in Timer
           /\ pongTimers' \in [PongTimer -> Timer]
           /\ pong' \in PongTimer \cup {NoTimer}
           /\ ws' = "open" => pong' # NoTimer /\ pongTimers'[pong'] # Stopped
<1>1. CASE ws = "open"
  <2>1. PICK i \in PongTimer :
            /\ pongTimers' = [pongs EXCEPT ![i] = PongTimeout]
            /\ pong' = i
            /\ connection' = t
            /\ UNCHANGED <<ws, termination, reconnection>>
    BY <1>1 DEF StartPingPong
  <2>2. PongTimeout \in Nat /\ PongTimer \subseteq Nat
    BY TimeoutAssumption, TimerAssumption
  <2>3. pongTimers' \in [PongTimer -> Timer] /\ pongTimers'[i] = PongTimeout
    BY <2>1, <2>2 DEF Timer
  <2> QED
    BY <1>1, <2>1, <2>2, <2>3 DEF TypeOK, NoTimer, Stopped
<1>2. CASE ws # "open"
  <2>1. Close(Incoming) /\ pongTimers' = pongs /\ pong' = pong
    BY <1>2 DEF StartPingPong
  <2>2. Incoming \in BOOLEAN
    BY KindAssumption
  <2> QED
    BY <2>1, <2>2, CloseType DEF TypeOK
<1> QED
  BY <1>1, <1>2

LEMMA ProofOfLifeType ==
    ASSUME TypeOK, OnProofOfLife
    PROVE  /\ missed' \in 0..4
           /\ age' \in 0..MaxAge
           /\ pongTimers' \in [PongTimer -> Timer]
           /\ pong' \in PongTimer \cup {NoTimer}
           /\ ping' \in Timer
           /\ ping' # Stopped
BY ForgetType, TimeoutAssumption DEF OnProofOfLife, NextPing, TypeOK, Timer, Stopped

LEMMA InitInv == Init => TypeOK /\ Inv
<1> SUFFICES ASSUME Init PROVE TypeOK /\ Inv
  OBVIOUS
<1>0. /\ validated \in BOOLEAN /\ termination \in BOOLEAN /\ released \in BOOLEAN
      /\ reconnection \in Timer /\ ping \in Timer
      /\ attempts \in {0} \cup DOMAIN ReconnectDelays /\ missed \in 0..4
      /\ age \in 0..MaxAge
  <2>1. validated \in BOOLEAN /\ termination \in BOOLEAN /\ released \in BOOLEAN
    BY Zenon DEF Init
  <2>2. reconnection \in Timer /\ ping \in Timer
    BY DEF Init, Timer
  <2>3. age \in 0..MaxAge /\ missed \in 0..4
    BY TimeoutAssumption DEF Init
  <2> QED
    BY <2>1, <2>2, <2>3 DEF Init
<1>1. CASE Incoming
  <2>1. PICK i \in PongTimer : pong = i /\
            pongTimers = [j \in PongTimer |-> IF j = i THEN PongTimeout ELSE Stopped]
    BY <1>1 DEF Init
  <2>2. i \in Nat /\ PongTimeout \in Nat /\ MaxAge \in Nat
    BY TimeoutAssumption, TimerAssumption
  <2>3. pongTimers \in [PongTimer -> Timer] /\ pongTimers[pong] # Stopped /\ pong # NoTimer
    BY <2>1, <2>2 DEF Timer, Stopped, NoTimer
  <2>4. ws = "open" /\ connection = Stopped /\ pong \in PongTimer
    BY <1>1, <2>1 DEF Init
  <2>5. TypeOK
    BY <1>0, <2>2, <2>3, <2>4 DEF TypeOK, Timer
  <2> QED
    BY <2>3, <2>4, <2>5 DEF Inv, ConnectionIsTimed, KeepAliveRuns
<1>2. CASE ~Incoming
  <2>1. /\ ws = "connecting" /\ connection = HandshakeTimeout /\ pong = NoTimer
        /\ pongTimers = [j \in PongTimer |-> Stopped]
    BY <1>2 DEF Init
  <2>2. HandshakeTimeout \in Nat /\ MaxAge \in Nat
    BY TimeoutAssumption
  <2>3. TypeOK
    BY <1>0, <2>1, <2>2 DEF TypeOK, Timer
  <2> QED
    BY <2>1, <2>2, <2>3 DEF Inv, ConnectionIsTimed, KeepAliveRuns, Stopped
<1> QED
  BY <1>1, <1>2, KindAssumption

LEMMA InvStep ==
    ASSUME TypeOK, Inv, [Next]_vars
    PROVE  TypeOK' /\ Inv'
<1>1. CASE Open
  BY <1>1 DEF Open, TypeOK, Inv, ConnectionIsTimed, KeepAliveRuns, Timer
<1>2. CASE ProofOfLife
  BY <1>2, ProofOfLifeType
     DEF ProofOfLife, TypeOK, Inv, ConnectionIsTimed, KeepAliveRuns
<1>3. CASE HandshakeResponse
  BY <1>3, ProofOfLifeType
     DEF HandshakeResponse, TypeOK, Inv, ConnectionIsTimed, KeepAliveRuns
<1>4. CASE OnClose
  <2> DEFINE next == IF attempts + 1 \in DOMAIN ReconnectDelays THEN attempts + 1
                     ELSE attempts
  <2>1. next \in DOMAIN ReconnectDelays /\ ReconnectDelays[next] \in Nat
    BY TimeoutAssumption DEF TypeOK
  <2>2. /\ attempts' \in {0} \cup DOMAIN ReconnectDelays
        /\ reconnection' \in Timer
    BY <1>4, <2>1 DEF OnClose, TypeOK, Timer
  <2>3. pongTimers' \in [PongTimer -> Timer]
    BY <1>4, ForgetType DEF OnClose, ClearedOnClose
  <2> HIDE DEF next
  <2> QED
    BY <1>4, <2>2, <2>3
       DEF OnClose, TypeOK, Inv, ConnectionIsTimed, KeepAliveRuns, Timer
<1>5. CASE Release
  BY <1>5, CloseType DEF Release, TypeOK, Inv, ConnectionIsTimed, KeepAliveRuns
<1>6. CASE ConnectionTimeout
  <2>1. pongTimers \in [PongTimer -> Timer] /\ Stopped \in Timer
    BY DEF TypeOK, Timer
  <2> QED
    BY <1>6, <2>1, StartPingPongType
       DEF ConnectionTimeout, TypeOK, Inv, ConnectionIsTimed, KeepAliveRuns
<1>7. CASE PingTimeout
  <2>1. pongTimers \in [PongTimer -> Timer] /\ connection \in Timer /\ Stopped \in Timer
    BY DEF TypeOK, Timer
  <2> QED
    BY <1>7, <2>1, StartPingPongType
       DEF PingTimeout, TypeOK, Inv, ConnectionIsTimed, KeepAliveRuns
<1>8. ASSUME NEW i \in PongTimer, PongTimeouts(i) PROVE TypeOK' /\ Inv'
  <2> DEFINE pongs == [pongTimers EXCEPT ![i] = Stopped]
  <2>1. pongs \in [PongTimer -> Timer] /\ connection \in Timer
    BY DEF TypeOK, Timer
  <2>2. missed' \in 0..4
    BY <1>8 DEF PongTimeouts, TypeOK
  <2>3. CASE Close(Incoming) /\ pongTimers' = pongs /\ UNCHANGED pong
    <3>1. /\ ws' \in {"none", "aborting", "closing"}
          /\ termination' \in BOOLEAN
          /\ connection' \in Timer
          /\ reconnection' \in Timer
      BY <2>3, CloseType, KindAssumption
    <3> QED
      BY <1>8, <2>1, <2>2, <2>3, <3>1
         DEF PongTimeouts, TypeOK, Inv, ConnectionIsTimed, KeepAliveRuns
  <2>4. CASE StartPingPong(pongs, connection)
    <3> HIDE DEF pongs
    <3> QED
      BY <1>8, <2>1, <2>2, <2>4, StartPingPongType
         DEF PongTimeouts, TypeOK, Inv, ConnectionIsTimed, KeepAliveRuns
  <2> QED
    BY <1>8, <2>3, <2>4 DEF PongTimeouts
<1>9. CASE Reconnect
  BY <1>9, TimeoutAssumption
     DEF Reconnect, TypeOK, Inv, ConnectionIsTimed, KeepAliveRuns, Timer, Stopped
<1>10. CASE Tick
  <2> DEFINE Later(t) == IF t = Stopped THEN Stopped ELSE t - 1
  <2>1. \A t \in Timer \ {0} : Later(t) \in Timer /\ (t # Stopped => Later(t) # Stopped)
    BY DEF Timer, Stopped
  <2>2. /\ connection' = Later(connection)
        /\ reconnection' = Later(reconnection)
        /\ ping' = Later(ping)
        /\ pongTimers' = [i \in PongTimer |-> Later(pongTimers[i])]
        /\ age' \in 0..MaxAge
        /\ UNCHANGED <<ws, validated, termination, attempts, pong, missed, released>>
    BY <1>10, TimeoutAssumption DEF Tick, TypeOK
  <2>3. /\ connection \in Timer \ {0}
        /\ reconnection \in Timer \ {0}
        /\ ping \in Timer \ {0}
        /\ \A i \in PongTimer : pongTimers[i] \in Timer \ {0}
    BY <1>10 DEF Tick, TypeOK
  <2> HIDE DEF Later
  <2>4. TypeOK'
    BY <2>1, <2>2, <2>3 DEF TypeOK
  <2>5. Inv'
    BY <2>1, <2>2, <2>3 DEF TypeOK, Inv, ConnectionIsTimed, KeepAliveRuns
  <2> QED
    BY <2>4, <2>5
<1>11. CASE UNCHANGED vars
  BY <1>11 DEF vars, TypeOK, Inv, ConnectionIsTimed, KeepAliveRuns
<1> QED
  BY <1>1, <1>2, <1>3, <1>4, <1>5, <1>6, <1>7, <1>8, <1>9, <1>10, <1>11 DEF Next

LEMMA InvCorrect == Spec => [](TypeOK /\ Inv)
<1>1. TypeOK /\ Inv /\ [Next]_vars => (TypeOK /\ Inv)'
  BY InvStep
<1> QED
  BY InitInv, <1>1, PTL DEF Spec

(* The variables of a channel keep their types. *)
THEOREM TypeCorrect == Spec => []TypeOK
BY InvCorrect, PTL

(* Whatever the timeouts are, and whenever messages and timers come, the    *)
(* keepalive of an open channel does not halt.                             *)
THEOREM KeepAliveRunsCorrect == Spec => []KeepAliveRuns
<1>1. Inv => KeepAliveRuns
  BY DEF Inv
<1> QED
  BY InvCorrect, <1>1, PTL

-----------------------------------------------------------------------------
(* How long a channel that is not heard of counts as ready *)

(* The time that pong timeouts take *)
Patience(k) == k * PongTimeout

LEMMA PatienceShape ==
    /\ Patience(0) = 0 /\ Patience(1) = PongTimeout
    /\ \A k \in 0..4 : /\ Patience(k) \in Nat
                       /\ Patience(k + 1) = Patience(k) + PongTimeout
                       /\ k <= 3 => Patience(k) <= 3 * PongTimeout
<1>1. PongTimeout \in Nat
  BY TimeoutAssumption
<1>2. \A k \in 0..4 : k = 0 \/ k = 1 \/ k = 2 \/ k = 3 \/ k = 4
  OBVIOUS
<1> QED BY <1>1, <1>2 DEF Patience

(* A ping is due within an interval. *)
PingIsNear == ping # Stopped => ping <= PingInterval

(* Only a channel that is connected is validated, and only one that has no   *)
(* connection is to connect again.                                         *)
ConnectionIsKnown ==
    /\ validated => ws \in {"open", "closing"}
    /\ reconnection # Stopped => ws = "none"

(* A ping, or one of the three pong timeouts after it, is due in time.     *)
PingIsDue == ping # Stopped /\ age + ping <= PingInterval
PongIsDue(i) == /\ pongTimers[i] # Stopped
                /\ age + pongTimers[i] <= PingInterval + Patience(missed + 1)

LifeIsChecked == IsReady => /\ missed <= 2
                            /\ PingIsDue \/ \E i \in PongTimer : PongIsDue(i)

HeardInv == PingIsNear /\ ConnectionIsKnown /\ LifeIsChecked

(* The ping pong of an open channel adds a timer to those that run. *)
LEMMA StartPingPongOpen ==
    ASSUME TypeOK, NEW pongs \in [PongTimer -> Timer], NEW t, ws = "open",
           StartPingPong(pongs, t)
    PROVE  /\ \E i \in PongTimer :
                 /\ pongs[i] = Stopped /\ pongTimers'[i] = PongTimeout /\ pong' = i
                 /\ \A j \in PongTimer : j # i => pongTimers'[j] = pongs[j]
           /\ connection' = t
           /\ UNCHANGED <<ws, reconnection>>
<1>1. PICK i \in PongTimer \ Running(pongs) :
          pongTimers' = [pongs EXCEPT ![i] = PongTimeout] /\ pong' = i
  BY DEF StartPingPong
<1>2. pongs[i] = Stopped
  BY <1>1 DEF Running
<1>3. connection' = t /\ UNCHANGED <<ws, reconnection>>
  BY DEF StartPingPong
<1> QED BY <1>1, <1>2, <1>3

LEMMA StartPingPongClosed ==
    ASSUME NEW pongs, NEW t, ws # "open", StartPingPong(pongs, t)
    PROVE  Close(Incoming) /\ pongTimers' = pongs /\ pong' = pong
BY DEF StartPingPong

(* A channel that closes is not ready. *)
LEMMA CloseShape ==
    ASSUME TypeOK, NEW terminate, Close(terminate)
    PROVE  /\ ws' # "open" /\ connection' = Stopped /\ reconnection' = Stopped
           /\ ws \in {"open", "closing"} => ws' = "closing"
           /\ ws' = "none" => ws = "none"
BY DEF Close, TypeOK

LEMMA HeardByClose ==
    ASSUME TypeOK, HeardInv, NEW terminate, Close(terminate), ping' \in {ping, Stopped},
           validated' = validated
    PROVE  HeardInv'
BY CloseShape DEF HeardInv, PingIsNear, ConnectionIsKnown, LifeIsChecked, IsReady

(* Whoever was just heard of gets the next ping within an interval. *)
LEMMA HeardByLife ==
    ASSUME TypeOK, HeardInv, OnProofOfLife, ws \in {"open", "closing"}, ws' = ws,
           reconnection' = reconnection
    PROVE  HeardInv'
<1>1. /\ ping' # Stopped /\ ping' <= PingInterval /\ ping' \in Nat
      /\ missed' = 0 /\ age' = 0
  BY TimeoutAssumption
     DEF OnProofOfLife, NextPing, HeardInv, PingIsNear, TypeOK, Timer, Stopped
<1> QED BY <1>1 DEF HeardInv, PingIsNear, ConnectionIsKnown, LifeIsChecked, PingIsDue

(* Timers that are started do not stop those that run. *)
LEMMA HeardByStart ==
    ASSUME TypeOK, HeardInv, NEW t, ws = "open", StartPingPong(pongTimers, t),
           \/ ping' = ping
           \/ ping = 0 /\ ping' = Stopped,
           UNCHANGED <<validated, missed, age>>
    PROVE  HeardInv'
<1>1. pongTimers \in [PongTimer -> Timer]
  BY DEF TypeOK
<1>2. PICK i \in PongTimer :
          /\ pongTimers[i] = Stopped /\ pongTimers'[i] = PongTimeout
          /\ \A j \in PongTimer : j # i => pongTimers'[j] = pongTimers[j]
          /\ UNCHANGED <<ws, reconnection>>
  BY <1>1, StartPingPongOpen
<1>3. PingIsNear' /\ ConnectionIsKnown'
  BY <1>2 DEF HeardInv, PingIsNear, ConnectionIsKnown
<1>4. LifeIsChecked'
  <2> SUFFICES ASSUME IsReady PROVE missed <= 2 /\ (PingIsDue \/ \E j \in PongTimer : PongIsDue(j))'
    BY <1>2 DEF LifeIsChecked, IsReady
  <2>1. missed <= 2 /\ (PingIsDue \/ \E j \in PongTimer : PongIsDue(j))
    BY DEF HeardInv, LifeIsChecked
  <2>2. CASE PingIsDue /\ ping' = ping
    BY <2>1, <2>2 DEF PingIsDue
  <2>3. CASE PingIsDue /\ ping = 0
    <3>1. age <= PingInterval /\ age \in Nat /\ missed \in 0..2 /\ PingInterval \in Nat
      BY <2>1, <2>3, TimeoutAssumption DEF PingIsDue, TypeOK
    <3>2. PongTimeout \in Nat /\ PongTimeout # Stopped
      BY TimeoutAssumption DEF Stopped
    <3>3. PongTimeout <= Patience(missed + 1)
      BY <3>1, <3>2, PatienceShape
    <3>4. Patience(missed + 1) \in Nat
      BY <3>1, <3>2, PatienceShape
    <3>5. age + PongTimeout <= PingInterval + Patience(missed + 1)
      BY <3>1, <3>2, <3>3, <3>4
    <3>6. PongIsDue(i)'
      BY <1>2, <3>2, <3>5 DEF PongIsDue
    <3> QED BY <2>1, <3>6
  <2>4. CASE \E j \in PongTimer : PongIsDue(j)
    <3>1. PICK j \in PongTimer : PongIsDue(j)
      BY <2>4
    <3>2. PongIsDue(j)'
      BY <1>2, <3>1 DEF PongIsDue
    <3> QED BY <2>1, <3>2
  <2> QED BY <2>1, <2>2, <2>3, <2>4 DEF PingIsDue
<1> QED BY <1>3, <1>4 DEF HeardInv

(* A pong timeout starts the next one, which is in time after one miss more. *)
LEMMA HeardByPongTimeout ==
    ASSUME TypeOK, TypeOK', HeardInv, NEW i \in PongTimer, PongTimeouts(i)
    PROVE  HeardInv'
<1>1. PICK pongs : pongs = [pongTimers EXCEPT ![i] = Stopped]
  OBVIOUS
<1>2. /\ pongTimers[i] = 0 /\ UNCHANGED <<validated, attempts, ping, age, released>>
      /\ missed' = IF missed <= 3 THEN missed + 1 ELSE missed
      /\ \/ Close(Incoming)
         \/ missed + 1 < 3 /\ StartPingPong(pongs, connection)
  BY <1>1 DEF PongTimeouts, IsUnresponsive, TypeOK
<1>3. CASE Close(Incoming)
  BY <1>2, <1>3, HeardByClose
<1>4. CASE ws # "open" /\ StartPingPong(pongs, connection)
  BY <1>2, <1>4, HeardByClose, StartPingPongClosed
<1>5. CASE ws = "open" /\ missed + 1 < 3 /\ StartPingPong(pongs, connection)
  <2>1. pongs \in [PongTimer -> Timer] /\ \A j \in PongTimer : j # i => pongs[j] = pongTimers[j]
    BY <1>1 DEF TypeOK, Timer
  <2>2. PICK k \in PongTimer :
            /\ pongs[k] = Stopped /\ pongTimers'[k] = PongTimeout
            /\ \A j \in PongTimer : j # k => pongTimers'[j] = pongs[j]
            /\ UNCHANGED <<ws, reconnection>>
    BY <1>5, <2>1, StartPingPongOpen
  <2>3. missed \in 0..1 /\ missed' = missed + 1 /\ age \in Nat /\ PingInterval \in Nat
        /\ PongTimeout \in Nat /\ PongTimeout # Stopped
    BY <1>2, <1>5, TimeoutAssumption DEF TypeOK, Stopped
  <2>4. /\ Patience(missed + 1) \in Nat /\ Patience(missed + 2) \in Nat
        /\ Patience(missed + 2) = Patience(missed + 1) + PongTimeout
    BY <2>3, PatienceShape
  <2>5. missed' + 1 = missed + 2
    BY <2>3
  <2>6. PingIsNear' /\ ConnectionIsKnown'
    BY <1>2, <2>2 DEF HeardInv, PingIsNear, ConnectionIsKnown
  <2>7. LifeIsChecked'
    <3> SUFFICES ASSUME IsReady
                 PROVE  missed' <= 2 /\ (PingIsDue \/ \E j \in PongTimer : PongIsDue(j))'
      BY <1>2, <2>2 DEF LifeIsChecked, IsReady
    <3>1. missed' <= 2
      BY <2>3
    <3>2. CASE PingIsDue
      BY <1>2, <3>1, <3>2 DEF PingIsDue
    <3>3. CASE PongIsDue(i)
      <4>1. age <= PingInterval + Patience(missed + 1)
        BY <1>2, <2>3, <2>4, <3>3 DEF PongIsDue
      <4>2. age + PongTimeout <= PingInterval + Patience(missed + 2)
        BY <2>3, <2>4, <4>1
      <4>3. PongIsDue(k)'
        BY <1>2, <2>2, <2>3, <2>5, <4>2 DEF PongIsDue
      <4> QED BY <3>1, <4>3
    <3>4. ASSUME NEW j \in PongTimer, j # i, PongIsDue(j)
          PROVE  PongIsDue(j)'
      <4>1. j # k /\ pongTimers'[j] = pongTimers[j] /\ pongTimers[j] \in Timer
        BY <2>1, <2>2, <3>4 DEF PongIsDue, TypeOK
      <4>2. pongTimers[j] \in Nat /\ age + pongTimers[j] <= PingInterval + Patience(missed + 1)
        BY <3>4, <4>1 DEF PongIsDue, Timer
      <4>3. age + pongTimers[j] <= PingInterval + Patience(missed + 2)
        BY <2>3, <2>4, <4>2
      <4> QED BY <1>2, <2>5, <3>4, <4>1, <4>3 DEF PongIsDue
    <3> QED BY <3>1, <3>2, <3>3, <3>4 DEF HeardInv, LifeIsChecked
  <2> QED BY <2>6, <2>7 DEF HeardInv
<1> QED BY <1>2, <1>3, <1>4, <1>5

LEMMA HeardByTick ==
    ASSUME TypeOK, TypeOK', HeardInv, Tick
    PROVE  HeardInv'
<1> DEFINE Later(t) == IF t = Stopped THEN Stopped ELSE t - 1
<1>1. /\ ping # 0 /\ ping' = Later(ping) /\ reconnection' = Later(reconnection)
      /\ reconnection # 0
      /\ \A i \in PongTimer : pongTimers[i] # 0 /\ pongTimers'[i] = Later(pongTimers[i])
      /\ UNCHANGED <<ws, validated, missed>>
  BY DEF Tick, TypeOK
<1>2. age \in Nat /\ age' \in Nat /\ age' <= age + 1
  BY TimeoutAssumption DEF Tick, TypeOK
<1>3. \A t \in Timer \ {0} : /\ t = Stopped => Later(t) = Stopped
                             /\ t # Stopped => t \in Nat /\ Later(t) = t - 1 /\ Later(t) \in Nat
                                               /\ Later(t) # Stopped
  BY DEF Timer, Stopped
<1>4. ping \in Timer \ {0} /\ reconnection \in Timer \ {0}
      /\ \A i \in PongTimer : pongTimers[i] \in Timer \ {0}
  BY <1>1 DEF TypeOK
<1> HIDE DEF Later
<1>5. PingIsNear' /\ ConnectionIsKnown'
  BY <1>1, <1>3, <1>4, TimeoutAssumption DEF HeardInv, PingIsNear, ConnectionIsKnown
<1>6. LifeIsChecked'
  <2> SUFFICES ASSUME IsReady PROVE missed <= 2 /\ (PingIsDue \/ \E i \in PongTimer : PongIsDue(i))'
    BY <1>1 DEF LifeIsChecked, IsReady
  <2>1. missed <= 2 /\ (PingIsDue \/ \E i \in PongTimer : PongIsDue(i))
    BY DEF HeardInv, LifeIsChecked
  <2>2. CASE PingIsDue
    <3>1. PingIsDue'
      BY <1>1, <1>2, <1>3, <1>4, <2>2, TimeoutAssumption DEF PingIsDue
    <3> QED BY <2>1, <3>1
  <2>3. ASSUME NEW i \in PongTimer, PongIsDue(i) PROVE PongIsDue(i)'
    <3>1. pongTimers[i] \in Nat /\ pongTimers'[i] = pongTimers[i] - 1 /\ pongTimers'[i] \in Nat
          /\ pongTimers'[i] # Stopped
      BY <1>1, <1>3, <1>4, <2>3 DEF PongIsDue
    <3>2. age + pongTimers[i] <= PingInterval + Patience(missed + 1)
      BY <2>3 DEF PongIsDue
    <3>3. age' + pongTimers'[i] <= PingInterval + Patience(missed + 1)
      <4>1. missed + 1 \in 0..3 /\ PingInterval \in Nat
        BY <2>1, TimeoutAssumption DEF TypeOK
      <4>2. PingInterval + Patience(missed + 1) \in Nat
        BY <4>1, PatienceShape
      <4> QED BY <1>2, <3>1, <3>2, <4>2
    <3> QED BY <1>1, <3>1, <3>3 DEF PongIsDue
  <2> QED BY <2>1, <2>2, <2>3
<1> QED BY <1>5, <1>6 DEF HeardInv

LEMMA HeardStep ==
    ASSUME TypeOK, TypeOK', HeardInv, [Next]_vars
    PROVE  HeardInv'
<1>1. CASE Open
  BY <1>1 DEF Open, HeardInv, PingIsNear, ConnectionIsKnown, LifeIsChecked, IsReady
<1>2. CASE ProofOfLife
  BY <1>2, HeardByLife DEF ProofOfLife
<1>3. CASE HandshakeResponse
  BY <1>3, HeardByLife DEF HandshakeResponse
<1>4. CASE OnClose
  <2>1. ws' = "none" /\ ~validated' /\ ping' = Stopped
    BY <1>4 DEF OnClose
  <2> QED BY <2>1 DEF HeardInv, PingIsNear, ConnectionIsKnown, LifeIsChecked, IsReady
<1>5. CASE Release
  BY <1>5, HeardByClose DEF Release
<1>6. CASE ConnectionTimeout
  <2>1. StartPingPong(pongTimers, Stopped) /\ UNCHANGED <<validated, ping, missed, age>>
    BY <1>6 DEF ConnectionTimeout
  <2>2. CASE ws = "open"
    BY <2>1, <2>2, HeardByStart
  <2>3. CASE ws # "open"
    BY <2>1, <2>3, StartPingPongClosed, HeardByClose
  <2> QED BY <2>2, <2>3
<1>7. CASE PingTimeout
  <2>1. /\ StartPingPong(pongTimers, connection) /\ ping = 0 /\ ping' = Stopped
        /\ UNCHANGED <<validated, missed, age>>
    BY <1>7 DEF PingTimeout
  <2>2. CASE ws = "open"
    BY <2>1, <2>2, HeardByStart
  <2>3. CASE ws # "open"
    BY <2>1, <2>3, StartPingPongClosed, HeardByClose
  <2> QED BY <2>2, <2>3
<1>8. ASSUME NEW i \in PongTimer, PongTimeouts(i) PROVE HeardInv'
  BY <1>8, HeardByPongTimeout
<1>9. CASE Reconnect
  <2>1. ws = "none" /\ ~validated /\ ws' = "connecting" /\ reconnection' = Stopped
        /\ UNCHANGED <<validated, ping, missed, age>>
    BY <1>9 DEF Reconnect, HeardInv, ConnectionIsKnown, Stopped
  <2> QED BY <2>1 DEF HeardInv, PingIsNear, ConnectionIsKnown, LifeIsChecked, IsReady
<1>10. CASE Tick
  BY <1>10, HeardByTick
<1>11. CASE UNCHANGED vars
  BY <1>11
     DEF vars, HeardInv, PingIsNear, ConnectionIsKnown, LifeIsChecked, IsReady, PingIsDue, PongIsDue
<1> QED
  BY <1>1, <1>2, <1>3, <1>4, <1>5, <1>6, <1>7, <1>8, <1>9, <1>10, <1>11 DEF Next

LEMMA HeardInvCorrect == Spec => []HeardInv
<1>1. Init => HeardInv
  BY DEF Init, HeardInv, PingIsNear, ConnectionIsKnown, LifeIsChecked, IsReady, Stopped
<1>2. TypeOK /\ TypeOK' /\ HeardInv /\ [Next]_vars => HeardInv'
  BY HeardStep
<1> QED
  BY <1>1, <1>2, TypeCorrect, PTL DEF Spec

(* A channel that counts as ready was heard of within an interval and three  *)
(* pong timeouts, whatever timers run besides the one that __pongTimeout     *)
(* remembers.                                                              *)
THEOREM ReadyIsHeardCorrect == Spec => []ReadyIsHeard
<1>1. TypeOK /\ HeardInv => ReadyIsHeard
  <2> SUFFICES ASSUME TypeOK, HeardInv, IsReady
               PROVE  age <= PingInterval + 3 * PongTimeout
    BY DEF ReadyIsHeard
  <2>1. missed <= 2 /\ (PingIsDue \/ \E i \in PongTimer : PongIsDue(i))
    BY DEF HeardInv, LifeIsChecked
  <2>2. PICK late : late = 3 * PongTimeout
    OBVIOUS
  <2>3. late \in Nat /\ PingInterval \in Nat /\ age \in Nat /\ missed + 1 \in 0..3
    BY <2>1, <2>2, TimeoutAssumption DEF TypeOK
  <2>4. Patience(missed + 1) \in Nat /\ Patience(missed + 1) <= late
    BY <2>2, <2>3, PatienceShape
  <2>5. CASE PingIsDue
    BY <2>2, <2>3, <2>5 DEF PingIsDue, TypeOK, Timer
  <2>6. ASSUME NEW i \in PongTimer, PongIsDue(i) PROVE age <= PingInterval + late
    <3>1. pongTimers[i] \in Nat /\ age + pongTimers[i] <= PingInterval + Patience(missed + 1)
      BY <2>6 DEF PongIsDue, TypeOK, Timer
    <3> QED BY <2>3, <2>4, <3>1
  <2> QED BY <2>1, <2>2, <2>5, <2>6
<1> QED
  BY <1>1, TypeCorrect, HeardInvCorrect, PTL

-----------------------------------------------------------------------------
(* The patience of an incoming channel: nothing but its pings starts the ping *)
(* pong, so that one timer runs at a time, and it is remembered.            *)

Waited(t) == age = MaxAge \/ age >= t

(* Only the remembered timer runs; the misses before it took their time. *)
OneTimer ==
    \A i \in PongTimer : pongTimers[i] # Stopped =>
        /\ i = pong /\ ping = Stopped /\ missed <= 2
        /\ pongTimers[i] <= PongTimeout
        /\ Waited(Patience(missed) + (PongTimeout - pongTimers[i]))

OneChain == /\ connection = Stopped
            /\ reconnection = Stopped
            /\ ping # Stopped => missed = 0
            /\ OneTimer

LEMMA OneChainByClose ==
    ASSUME TypeOK, OneChain, NEW terminate, Close(terminate),
           UNCHANGED <<pongTimers, pong, ping, missed, age>>
    PROVE  OneChain'
BY CloseShape DEF OneChain, OneTimer, Waited

LEMMA OneChainByLife ==
    ASSUME TypeOK, OneChain, OnProofOfLife, UNCHANGED <<connection, reconnection>>
    PROVE  OneChain'
<1>1. \A i \in PongTimer : pongTimers'[i] = Stopped
  <2> SUFFICES ASSUME NEW i \in PongTimer PROVE Forget(pongTimers)[i] = Stopped
    BY DEF OnProofOfLife
  <2>1. pongTimers[i] # Stopped => i = pong /\ i # NoTimer
    BY TimerAssumption DEF OneChain, OneTimer, NoTimer
  <2> QED BY <2>1 DEF Forget, TypeOK
<1> QED BY <1>1 DEF OneChain, OneTimer, OnProofOfLife

(* The ping pong starts when no timer runs. *)
LEMMA OneChainByStart ==
    ASSUME TypeOK, OneChain, NEW pongs \in [PongTimer -> Timer],
           \A i \in PongTimer : pongs[i] = Stopped,
           StartPingPong(pongs, connection), ws = "open",
           ping' = Stopped, missed' \in 0..2, age' = age, Waited(Patience(missed'))
    PROVE  OneChain'
<1>1. PICK i \in PongTimer :
          /\ pongTimers'[i] = PongTimeout /\ pong' = i
          /\ \A j \in PongTimer : j # i => pongTimers'[j] = pongs[j]
          /\ connection' = connection /\ reconnection' = reconnection
  BY StartPingPongOpen
<1>2. PongTimeout \in Nat /\ Patience(missed') \in Nat
  BY TimeoutAssumption, PatienceShape
<1>3. Patience(missed') + (PongTimeout - PongTimeout) = Patience(missed')
  BY <1>2
<1>4. \A j \in PongTimer : pongTimers'[j] # Stopped => j = i
  BY <1>1
<1>5. OneTimer'
  BY <1>1, <1>2, <1>3, <1>4 DEF OneTimer, Waited
<1> QED BY <1>1, <1>5 DEF OneChain

LEMMA OneChainByTick ==
    ASSUME TypeOK, TypeOK', OneChain, Tick
    PROVE  OneChain'
<1> DEFINE Later(t) == IF t = Stopped THEN Stopped ELSE t - 1
<1>1. /\ connection' = Later(connection) /\ reconnection' = Later(reconnection)
      /\ ping' = Later(ping)
      /\ \A i \in PongTimer : pongTimers[i] # 0 /\ pongTimers'[i] = Later(pongTimers[i])
      /\ UNCHANGED <<pong, missed>>
  BY DEF Tick, TypeOK
<1>2. /\ connection' = Stopped /\ reconnection' = Stopped
      /\ ping' # Stopped => ping # Stopped
      /\ ping = Stopped => ping' = Stopped
      /\ \A i \in PongTimer : pongTimers'[i] # Stopped =>
            pongTimers[i] # Stopped /\ pongTimers[i] \in Nat /\ pongTimers'[i] = pongTimers[i] - 1
  BY <1>1 DEF OneChain, TypeOK, Timer
<1>3. age \in Nat /\ MaxAge \in Nat /\ (age' = age + 1 \/ age' = MaxAge)
  BY TimeoutAssumption DEF Tick, TypeOK
<1>4. OneTimer'
  <2> SUFFICES ASSUME NEW i \in PongTimer, pongTimers'[i] # Stopped
               PROVE  /\ i = pong /\ ping' = Stopped /\ missed <= 2
                      /\ pongTimers'[i] <= PongTimeout
                      /\ Waited(Patience(missed) + (PongTimeout - pongTimers[i]))'
    BY <1>1 DEF OneTimer
  <2>1. /\ pongTimers[i] \in Nat /\ pongTimers'[i] = pongTimers[i] - 1
        /\ i = pong /\ ping' = Stopped /\ missed <= 2 /\ missed \in 0..4
        /\ pongTimers[i] <= PongTimeout
        /\ Waited(Patience(missed) + (PongTimeout - pongTimers[i]))
    BY <1>2 DEF OneChain, OneTimer, TypeOK
  <2>2. PongTimeout \in Nat /\ Patience(missed) \in Nat
    BY <2>1, TimeoutAssumption, PatienceShape
  <2>3. Patience(missed)' = Patience(missed)
    BY <1>1 DEF Patience
  <2>4. Patience(missed) + (PongTimeout - pongTimers'[i])
          = Patience(missed) + (PongTimeout - pongTimers[i]) + 1
    BY <2>1, <2>2
  <2>5. age' = MaxAge \/ age' >= Patience(missed) + (PongTimeout - pongTimers'[i])
    BY <1>3, <2>1, <2>2, <2>4, TimeoutAssumption DEF Waited, Tick, TypeOK
  <2> QED BY <1>1, <2>1, <2>2, <2>3, <2>5, TimeoutAssumption DEF Waited
<1> QED BY <1>1, <1>2, <1>4 DEF OneChain

LEMMA OneChainStep ==
    ASSUME TypeOK, TypeOK', Incoming, OneChain, [Next]_vars
    PROVE  OneChain'
<1>1. CASE Open
  BY <1>1 DEF Open, OneChain, OneTimer, Waited
<1>2. CASE ProofOfLife
  BY <1>2, OneChainByLife DEF ProofOfLife
<1>3. CASE HandshakeResponse
  BY <1>3, OneChainByLife DEF HandshakeResponse
<1>4. CASE OnClose
  <2>1. /\ connection' = Stopped /\ reconnection' = reconnection /\ ping' = Stopped
        /\ pongTimers' = Forget(pongTimers)
    BY <1>4 DEF OnClose, ClearedOnClose
  <2>2. ASSUME NEW i \in PongTimer PROVE Forget(pongTimers)[i] = Stopped
    <3>1. pongTimers[i] # Stopped => i = pong /\ i # NoTimer
      BY TimerAssumption DEF OneChain, OneTimer, NoTimer
    <3> QED BY <3>1 DEF Forget, TypeOK
  <2> QED BY <2>1, <2>2 DEF OneChain, OneTimer
<1>5. CASE Release
  BY <1>5, OneChainByClose DEF Release
<1>6. CASE ConnectionTimeout
  BY <1>6 DEF ConnectionTimeout, OneChain, Stopped
<1>7. CASE PingTimeout
  <2>1. /\ StartPingPong(pongTimers, connection) /\ ping = 0 /\ ping' = Stopped
        /\ UNCHANGED <<missed, age>>
    BY <1>7 DEF PingTimeout
  <2>2. missed = 0 /\ \A i \in PongTimer : pongTimers[i] = Stopped
    BY <2>1 DEF OneChain, OneTimer, Stopped
  <2>3. CASE ws = "open"
    <3>1. pongTimers \in [PongTimer -> Timer] /\ missed' \in 0..2 /\ age \in Nat
      BY <2>1, <2>2 DEF TypeOK
    <3>2. Waited(Patience(missed'))
      BY <2>1, <2>2, <3>1, PatienceShape DEF Waited
    <3> QED BY <2>1, <2>2, <2>3, <3>1, <3>2, OneChainByStart
  <2>4. CASE ws # "open"
    BY <2>1, <2>2, <2>4, StartPingPongClosed, CloseShape DEF OneChain, OneTimer
  <2> QED BY <2>3, <2>4
<1>8. ASSUME NEW i \in PongTimer, PongTimeouts(i) PROVE OneChain'
  <2>1. PICK pongs : pongs = [pongTimers EXCEPT ![i] = Stopped]
    OBVIOUS
  <2>2. /\ pongTimers[i] = 0 /\ UNCHANGED <<ping, age>>
        /\ missed' = IF missed <= 3 THEN missed + 1 ELSE missed
        /\ \/ Close(Incoming) /\ pongTimers' = pongs
           \/ missed + 1 < 3 /\ StartPingPong(pongs, connection)
    <3>1. missed \in 0..4 /\ (missed + 1 >= 3 \/ missed + 1 < 3)
      BY DEF TypeOK
    <3>2. /\ pongTimers[i] = 0 /\ UNCHANGED <<ping, age>>
          /\ missed' = IF missed <= 3 THEN missed + 1 ELSE missed
          /\ IF missed + 1 >= 3 THEN Close(Incoming) /\ pongTimers' = pongs
             ELSE StartPingPong(pongs, connection)
      BY <1>8, <2>1 DEF PongTimeouts, IsUnresponsive
    <3> QED BY <3>1, <3>2
  <2>3. /\ ping = Stopped /\ missed <= 2
        /\ Waited(Patience(missed) + (PongTimeout - pongTimers[i]))
        /\ \A j \in PongTimer : pongTimers[j] # Stopped => j = i
    BY <2>2 DEF OneChain, OneTimer, Stopped
  <2>4. pongs \in [PongTimer -> Timer] /\ \A j \in PongTimer : pongs[j] = Stopped
    BY <2>1, <2>3 DEF TypeOK, Timer
  <2>5. CASE missed + 1 < 3 /\ ws = "open" /\ StartPingPong(pongs, connection)
    <3>1. missed \in 0..1 /\ missed' = missed + 1 /\ PongTimeout \in Nat
      BY <2>2, <2>5, TimeoutAssumption DEF TypeOK
    <3>2. Patience(missed) \in Nat /\ Patience(missed + 1) = Patience(missed) + PongTimeout
      BY <3>1, PatienceShape
    <3>3. Patience(missed) + (PongTimeout - pongTimers[i]) = Patience(missed')
      BY <2>2, <3>1, <3>2
    <3>4. Waited(Patience(missed'))
      BY <2>3, <3>3
    <3>5. missed' \in 0..2
      BY <3>1
    <3> QED BY <2>2, <2>3, <2>4, <2>5, <3>4, <3>5, OneChainByStart
  <2>6. CASE Close(Incoming) /\ pongTimers' = pongs
    BY <2>2, <2>3, <2>4, <2>6, CloseShape DEF OneChain, OneTimer
  <2>7. CASE ws # "open" /\ StartPingPong(pongs, connection)
    BY <2>2, <2>3, <2>4, <2>7, StartPingPongClosed, CloseShape DEF OneChain, OneTimer
  <2> QED BY <2>2, <2>5, <2>6, <2>7
<1>9. CASE Reconnect
  BY <1>9 DEF Reconnect, OneChain, Stopped
<1>10. CASE Tick
  BY <1>10, OneChainByTick
<1>11. CASE UNCHANGED vars
  BY <1>11 DEF vars, OneChain, OneTimer, Waited
<1> QED
  BY <1>1, <1>2, <1>3, <1>4, <1>5, <1>6, <1>7, <1>8, <1>9, <1>10, <1>11 DEF Next

(* An incoming channel whose peer was heard of within one pong timeout is not *)
(* given up.                                                               *)
THEOREM PatientOnceCorrect ==
    ASSUME Incoming, PongTimeout > 0, MaxAge > PongTimeout
    PROVE  Spec => PatientOnce
<1>1. Init => OneChain
  <2> SUFFICES ASSUME Init PROVE OneChain
    OBVIOUS
  <2>1. PICK i \in PongTimer :
          pong = i /\ pongTimers = [j \in PongTimer |-> IF j = i THEN PongTimeout ELSE Stopped]
    BY DEF Init
  <2>2. /\ connection = Stopped /\ reconnection = Stopped /\ ping = Stopped
        /\ missed = 0 /\ age = MaxAge
    BY DEF Init
  <2>3. OneTimer
    BY <2>1, <2>2, TimeoutAssumption DEF OneTimer, Waited
  <2> QED BY <2>2, <2>3 DEF OneChain
<1>2. TypeOK /\ TypeOK' /\ OneChain /\ [Next]_vars => OneChain'
  BY OneChainStep
<1>3. TypeOK /\ OneChain /\ [Next]_vars => (GivesUp => age > PongTimeout)
  <2> SUFFICES ASSUME TypeOK, OneChain, [Next]_vars, GivesUp PROVE age > PongTimeout
    OBVIOUS
  <2>1. ws = "open" /\ ws' = "closing" /\ ~released'
    BY DEF GivesUp, IsReady
  <2>2. PICK i \in PongTimer : PongTimeouts(i)
    BY <2>1 DEF Next, vars, Open, ProofOfLife, HandshakeResponse, OnClose, Release,
                ConnectionTimeout, PingTimeout, StartPingPong, Reconnect, Tick
  <2>3. /\ pongTimers[i] = 0
        /\ missed + 1 >= 3 \/ StartPingPong([pongTimers EXCEPT ![i] = Stopped], connection)
    BY <2>2 DEF PongTimeouts, IsUnresponsive
  <2>4. missed = 2 /\ Waited(Patience(missed) + (PongTimeout - 0))
    BY <2>1, <2>3 DEF OneChain, OneTimer, StartPingPong, Stopped, TypeOK
  <2>5. Patience(missed) \in Nat /\ Patience(missed) >= PongTimeout
    <3>1. Patience(2) = Patience(1) + PongTimeout /\ Patience(1) \in Nat
      BY PatienceShape
    <3> QED BY <2>4, <3>1, PatienceShape, TimeoutAssumption
  <2> QED BY <2>4, <2>5, TimeoutAssumption DEF Waited, TypeOK
<1> QED
  BY <1>1, <1>2, <1>3, TypeCorrect, PTL DEF Spec, PatientOnce

=============================================================================
