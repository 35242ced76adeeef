------------------------ MODULE NodeConnectionsProofs -------------------------
(***************************************************************************)
(* For any number of sockets, losses, restarts and new configurations: what *)
(* is sent on a ready channel is not refused, and each step of the          *)
(* connections is one of the abstract link or leaves it alone.              *)
(***************************************************************************)
EXTENDS NodeConnections, SequenceTheorems, TLAPS

(* The server's request is still to be answered, before all that follows it *)
IsAsked(k) == k.toClient # <<>> /\ Head(k.toClient) = "request" /\ ~k.clientValid

(* A socket the server has not accepted carries nothing yet *)
RequestedIsSilent(k) ==
    k.server = "requested" =>
        /\ k.toClient = <<>>
        /\ k.client \in {"connecting", "aborting", "closed"}

(* A client that may still become ready, or is, has answered the server or  *)
(* will before it takes the server's response                              *)
AnswersFirst(k) ==
    k.server = "open" /\ ~k.lost /\ k.client \in {"connecting", "open"} =>
        k.serverValid \/ IsAnswered(k) \/ IsAsked(k)

(* A client is validated only once it is open, and READY counts only then *)
ToldIsValid(k) ==
    /\ k.client \in {"connecting", "aborting"} => ~k.clientValid
    /\ k.client # "closed" /\ k.told => k.clientValid

IsSafe(k) ==
    /\ k \in SocketState
    /\ RequestedIsSilent(k)
    /\ AnswersFirst(k)
    /\ ToldIsValid(k)

AllSafe(socks) ==
    socks \in [Socket -> SocketState] /\ \A s \in Socket : IsSafe(socks[s])

Inv == TypeOK /\ AllSafe(sockets)

-----------------------------------------------------------------------------
(* Queues *)

LEMMA AppendKeepsHead ==
    ASSUME NEW q \in Seq(Message), NEW m \in Message, q # <<>>
    PROVE  Append(q, m) # <<>> /\ Head(Append(q, m)) = Head(q)
  OBVIOUS

LEMMA TailKeepsResponse ==
    ASSUME NEW q \in Seq(Message), q # <<>>, Head(q) # "response",
           NEW i \in DOMAIN q, q[i] = "response"
    PROVE  \E j \in DOMAIN Tail(q) : Tail(q)[j] = "response"
<1>1. i > 1 /\ i <= Len(q)
  OBVIOUS
<1>2. i - 1 \in DOMAIN Tail(q) /\ Tail(q)[i - 1] = "response"
  BY <1>1
<1> QED
  BY <1>2

-----------------------------------------------------------------------------
(* What the code does to a socket keeps it safe *)

LEMMA FreshIsSafe == IsSafe(Fresh) /\ IsSafe(Gone)
<1>1. <<>> \in Seq(Message)
  OBVIOUS
<1>2. Fresh \in SocketState /\ Gone \in SocketState
  BY <1>1 DEF Fresh, Gone, SocketState, ClientEnd, ServerEnd
<1> QED
  BY <1>2 DEF IsSafe, Fresh, Gone, RequestedIsSilent, AnswersFirst, ToldIsValid

LEMMA ToServerTyped ==
    ASSUME NEW k \in SocketState, ~k.lost, NEW m \in Message
    PROVE  /\ ToServer(k, m) = [k EXCEPT !.toServer = Append(k.toServer, m)]
           /\ ToServer(k, m) \in SocketState
  BY DEF ToServer, SocketState

LEMMA ToServerSafe ==
    ASSUME NEW k, IsSafe(k), NEW m \in Message
    PROVE  IsSafe(ToServer(k, m))
<1>1. CASE k.lost
  BY <1>1 DEF ToServer
<1>2. CASE ~k.lost
  <2> DEFINE K == [k EXCEPT !.toServer = Append(k.toServer, m)]
  <2>1. ToServer(k, m) = K /\ k \in SocketState /\ K \in SocketState
    BY <1>2, ToServerTyped DEF IsSafe
  <2>2. IsAnswered(k) => IsAnswered(K)
    <3> SUFFICES ASSUME NEW i \in DOMAIN k.toServer, k.toServer[i] = "response"
                 PROVE  IsAnswered(K)
      BY DEF IsAnswered
    <3>1. i \in DOMAIN K.toServer /\ K.toServer[i] = "response"
      BY <2>1 DEF SocketState
    <3> QED
      BY <3>1 DEF IsAnswered
  <2> QED
    BY <2>1, <2>2 DEF IsSafe, SocketState, RequestedIsSilent, AnswersFirst,
                      ToldIsValid, IsAsked
<1> QED
  BY <1>1, <1>2 DEF IsSafe, SocketState

LEMMA ToClientSafe ==
    ASSUME NEW k, IsSafe(k), k.server # "requested", NEW m \in Message
    PROVE  IsSafe(ToClient(k, m))
<1>1. CASE k.lost
  BY <1>1 DEF ToClient
<1>2. CASE ~k.lost
  <2> DEFINE K == [k EXCEPT !.toClient = Append(k.toClient, m)]
  <2>1. ToClient(k, m) = K /\ k \in SocketState /\ K \in SocketState
    BY <1>2 DEF ToClient, IsSafe, SocketState
  <2>2. IsAsked(k) => IsAsked(K)
    BY <2>1, AppendKeepsHead DEF SocketState, IsAsked
  <2> QED
    BY <2>1, <2>2 DEF IsSafe, SocketState, RequestedIsSilent, AnswersFirst,
                      ToldIsValid, IsAnswered
<1> QED
  BY <1>1, <1>2 DEF IsSafe, SocketState

LEMMA CloseSafe ==
    ASSUME NEW k, IsSafe(k)
    PROVE  IsSafe(CloseClient(k)) /\ IsSafe(CloseServer(k))
<1>1. IsSafe(CloseClient(k))
  BY DEF IsSafe, CloseClient, SocketState, ClientEnd, ServerEnd, RequestedIsSilent,
         AnswersFirst, ToldIsValid, IsAnswered, IsAsked
<1>2. IsSafe(CloseServer(k))
  BY DEF IsSafe, CloseServer, SocketState, ClientEnd, ServerEnd, RequestedIsSilent,
         AnswersFirst, ToldIsValid, IsAnswered, IsAsked
<1> QED
  BY <1>1, <1>2

LEMMA LostSafe ==
    ASSUME NEW k, IsSafe(k)
    PROVE  IsSafe([k EXCEPT !.lost = TRUE])
  BY DEF IsSafe, SocketState, RequestedIsSilent, AnswersFirst, ToldIsValid,
         IsAnswered, IsAsked

LEMMA EndGoneSafe ==
    ASSUME NEW k, IsSafe(k)
    PROVE  IsSafe(ClientGone(k)) /\ IsSafe(ServerGone(k))
<1>1. <<>> \in Seq(Message)
  OBVIOUS
<1>2. IsSafe(ClientGone(k))
  BY <1>1 DEF IsSafe, ClientGone, SocketState, ClientEnd, ServerEnd,
              RequestedIsSilent, AnswersFirst, ToldIsValid, IsAnswered, IsAsked
<1>3. IsSafe(ServerGone(k))
  BY <1>1 DEF IsSafe, ServerGone, SocketState, ClientEnd, ServerEnd,
              RequestedIsSilent, AnswersFirst, ToldIsValid, IsAnswered, IsAsked
<1> QED
  BY <1>2, <1>3

-----------------------------------------------------------------------------
(* Messages taken off their queues *)

ClientRest(k) == [k EXCEPT !.toClient = Tail(@)]
ServerRest(k) == [k EXCEPT !.toServer = Tail(@)]

LEMMA RestTyped ==
    ASSUME NEW k \in SocketState
    PROVE  /\ k.toClient # <<>> => /\ ClientRest(k) \in SocketState
                                  /\ ClientRest(k).toClient = Tail(k.toClient)
           /\ k.toServer # <<>> => /\ ServerRest(k) \in SocketState
                                  /\ ServerRest(k).toServer = Tail(k.toServer)
<1>1. ASSUME NEW q \in Seq(Message), q # <<>> PROVE Tail(q) \in Seq(Message)
  BY <1>1
<1> QED
  BY <1>1 DEF ClientRest, ServerRest, SocketState

LEMMA SignedByClientSafe ==
    ASSUME NEW k, IsSafe(k), k.client \in {"open", "closing"}, k.toClient # <<>>
    PROVE  IsSafe(IF ClientRest(k).client = "open"
                  THEN ToServer(ClientRest(k), "response") ELSE ClientRest(k))
<1> DEFINE c == ClientRest(k)
           K == [c EXCEPT !.toServer = Append(c.toServer, "response")]
<1>1. /\ k \in SocketState /\ c \in SocketState
      /\ c.client = k.client /\ c.server = k.server /\ c.clientValid = k.clientValid
      /\ c.told = k.told /\ c.lost = k.lost /\ k.server # "requested"
  BY RestTyped DEF IsSafe, SocketState, ClientRest, RequestedIsSilent
<1>2. CASE c.client # "open" \/ c.lost
  BY <1>1, <1>2 DEF IsSafe, RequestedIsSilent, AnswersFirst, ToldIsValid, ToServer
<1>3. CASE c.client = "open" /\ ~c.lost
  <2> HIDE DEF c
  <2>0. "response" \in Message
    BY DEF Message
  <2>1. ToServer(c, "response") = K /\ K \in SocketState
    BY <1>1, <1>3, <2>0, ToServerTyped
  <2>2. Len(c.toServer) + 1 \in DOMAIN K.toServer
        /\ K.toServer[Len(c.toServer) + 1] = "response"
    BY <1>1 DEF SocketState, Message
  <2>3. IsAnswered(K)
    BY <2>2 DEF IsAnswered
  <2> QED
    BY <1>1, <1>3, <2>1, <2>3
       DEF IsSafe, SocketState, RequestedIsSilent, AnswersFirst, ToldIsValid, c
<1> QED
  BY <1>2, <1>3

LEMMA TakenByClientSafe ==
    ASSUME NEW k, IsSafe(k), k.client \in {"open", "closing"}, k.toClient # <<>>,
           Head(k.toClient) # "request"
    PROVE  IsSafe(ClientRest(k)) /\ IsSafe([ClientRest(k) EXCEPT !.clientValid = TRUE])
<1> DEFINE c == ClientRest(k)
           v == [c EXCEPT !.clientValid = TRUE]
<1>1. /\ k \in SocketState /\ c \in SocketState /\ v \in SocketState
      /\ c.client = k.client /\ c.server = k.server /\ c.clientValid = k.clientValid
      /\ c.told = k.told /\ c.lost = k.lost /\ k.server # "requested"
      /\ c.serverValid = k.serverValid /\ c.toServer = k.toServer
  BY RestTyped DEF IsSafe, SocketState, ClientRest, RequestedIsSilent
<1>2. IsAnswered(k) <=> IsAnswered(c)
  BY <1>1 DEF IsAnswered
<1>3. IsAnswered(c) <=> IsAnswered(v)
  BY <1>1 DEF IsAnswered, SocketState
<1>4. ~IsAsked(k)
  BY DEF IsAsked
<1>5. IsSafe(c)
  BY <1>1, <1>2, <1>4 DEF IsSafe, RequestedIsSilent, AnswersFirst, ToldIsValid
<1>6. /\ v.client = c.client /\ v.server = c.server /\ v.clientValid
      /\ v.lost = c.lost /\ v.serverValid = c.serverValid
  BY <1>1 DEF SocketState
<1>7. IsSafe(v)
  BY <1>1, <1>2, <1>3, <1>4, <1>6 DEF IsSafe, RequestedIsSilent, AnswersFirst, ToldIsValid
<1> QED
  BY <1>5, <1>7

LEMMA TakenByServerSafe ==
    ASSUME NEW k, IsSafe(k), k.server = "open", k.toServer # <<>>
    PROVE  /\ ServerRest(k).server = "open"
           /\ Head(k.toServer) # "response" => IsSafe(ServerRest(k))
           /\ IsSafe([ServerRest(k) EXCEPT !.serverValid = TRUE, !.awaiting = FALSE])
<1> DEFINE d == ServerRest(k)
           v == [d EXCEPT !.serverValid = TRUE, !.awaiting = FALSE]
<1>1. /\ k \in SocketState /\ d \in SocketState /\ v \in SocketState
      /\ d.client = k.client /\ d.server = k.server /\ d.clientValid = k.clientValid
      /\ d.told = k.told /\ d.lost = k.lost /\ d.toClient = k.toClient
      /\ d.serverValid = k.serverValid /\ d.toServer = Tail(k.toServer)
  BY RestTyped DEF IsSafe, SocketState, ServerRest
<1>2. ASSUME Head(k.toServer) # "response" PROVE IsSafe(d)
  <2>1. IsAnswered(k) => IsAnswered(d)
    BY <1>1, <1>2, TailKeepsResponse DEF IsAnswered, SocketState
  <2> QED
    BY <1>1, <2>1 DEF IsSafe, RequestedIsSilent, AnswersFirst, ToldIsValid, IsAsked
<1>3. /\ v.client = k.client /\ v.server = k.server /\ v.clientValid = k.clientValid
      /\ v.told = k.told /\ v.serverValid
  BY <1>1 DEF SocketState
<1>4. IsSafe(v)
  BY <1>1, <1>3 DEF IsSafe, RequestedIsSilent, AnswersFirst, ToldIsValid
<1> QED
  BY <1>1, <1>2, <1>4

-----------------------------------------------------------------------------
(* A step changes one socket or two, or all those of a process *)

LEMMA Updated ==
    ASSUME NEW socks, AllSafe(socks), NEW s \in Socket, NEW k, IsSafe(k)
    PROVE  AllSafe([socks EXCEPT ![s] = k])
  BY DEF AllSafe, IsSafe

LEMMA ConnectSafe ==
    ASSUME NEW socks, AllSafe(socks), Connect(socks)
    PROVE  AllSafe(sockets') /\ outgoing' \in Socket
<1>1. PICK s \in Free : sockets' = [socks EXCEPT ![s] = Fresh] /\ outgoing' = s
  BY DEF Connect
<1> QED
  BY <1>1, FreshIsSafe, Updated DEF Free

LEMMA ClientStep ==
    ASSUME Inv, NEW s \in Socket,
           \/ ClientOpen(s) \/ ClientSigns(s) \/ ClientValidates(s) \/ PeerReady(s)
           \/ ClientClosed(s)
    PROVE  Inv'
<1> DEFINE k == sockets[s]
<1>0. IsSafe(k) /\ AllSafe(sockets) /\ k \in SocketState /\ TypeOK
  BY DEF Inv, AllSafe, IsSafe
<1> SUFFICES AllSafe(sockets') /\ outgoing' \in Socket \cup {None}
             /\ UNCHANGED <<incoming, timers, clientKnows, serverKnows, stranded, events>>
  BY <1>0 DEF Inv, TypeOK, AllSafe
<1>1. CASE ClientOpen(s)
  <2> DEFINE o == [k EXCEPT !.client = "open"]
             c == [k EXCEPT !.client = "closing"]
  <2>1. k.client \in {"connecting", "aborting"} /\ k.server # "requested"
    BY <1>1 DEF ClientOpen
  <2>2. k.client = "connecting" => IsSafe(o)
    BY <1>0, <2>1 DEF IsSafe, SocketState, ClientEnd, RequestedIsSilent, AnswersFirst,
                      ToldIsValid, IsAnswered, IsAsked
  <2>3. IsSafe(c)
    BY <1>0, <2>1 DEF IsSafe, SocketState, ClientEnd, RequestedIsSilent, AnswersFirst,
                      ToldIsValid
  <2>4. k.client = "connecting" => IsSafe(ToServer(o, "request"))
    BY <2>2, ToServerSafe DEF Message
  <2>5. \/ /\ k.client = "connecting"
           /\ sockets' = [sockets EXCEPT ![s] = ToServer(o, "request")]
        \/ sockets' = [sockets EXCEPT ![s] = c]
    BY <1>1 DEF ClientOpen
  <2> QED
    BY <1>0, <1>1, <2>3, <2>4, <2>5, Updated DEF ClientOpen, TypeOK
<1>2. CASE ClientSigns(s)
  <2> DEFINE r == IF ClientRest(k).client = "open"
                  THEN ToServer(ClientRest(k), "response") ELSE ClientRest(k)
  <2>1. IsSafe(r)
    BY <1>0, <1>2, SignedByClientSafe DEF ClientSigns, ClientTakes
  <2>2. sockets' = [sockets EXCEPT ![s] = r]
    BY <1>2 DEF ClientSigns, TakenByClient, ClientRest
  <2>3. AllSafe(sockets')
    BY <1>0, <2>1, <2>2, Updated
  <2>4. UNCHANGED <<outgoing, incoming, timers, clientKnows, serverKnows, stranded, events>>
    BY <1>2 DEF ClientSigns, ClientTakes
  <2> QED
    BY <1>0, <2>3, <2>4 DEF TypeOK
<1>3. CASE ClientValidates(s)
  <2> DEFINE v == [ClientRest(k) EXCEPT !.clientValid = TRUE]
  <2>1. IsSafe(v)
    BY <1>0, <1>3, TakenByClientSafe DEF ClientValidates, ClientTakes
  <2>2. sockets' = [sockets EXCEPT ![s] = v]
    BY <1>3 DEF ClientValidates, TakenByClient, ClientRest
  <2>3. AllSafe(sockets')
    BY <1>0, <2>1, <2>2, Updated
  <2>4. UNCHANGED <<outgoing, incoming, timers, clientKnows, serverKnows, stranded, events>>
    BY <1>3 DEF ClientValidates, ClientTakes
  <2> QED
    BY <1>0, <2>3, <2>4 DEF TypeOK
<1>4. CASE PeerReady(s)
  <2> DEFINE taken == [sockets EXCEPT ![s] = ClientRest(k)]
  <2>1. IsSafe(ClientRest(k))
    BY <1>0, <1>4, TakenByClientSafe DEF PeerReady, ClientTakes
  <2>2. AllSafe(taken)
    BY <1>0, <2>1, Updated
  <2>3. CASE sockets' = taken
    BY <1>0, <1>4, <2>2, <2>3 DEF PeerReady, ClientTakes, TypeOK
  <2>4. CASE sockets' # taken
    <3> DEFINE t == [taken[outgoing] EXCEPT !.told = TRUE]
    <3>1. ClientReady(outgoing) /\ outgoing \in Socket
      BY <1>0, <1>4, <2>4 DEF PeerReady, ClientReady, TypeOK, TakenByClient, ClientRest
    <3>2. sockets' = [taken EXCEPT ![outgoing] = t]
      BY <1>4, <2>4 DEF PeerReady, TakenByClient, ClientRest
    <3>3. IsSafe(taken[outgoing]) /\ taken[outgoing].clientValid
      BY <1>0, <2>2, <3>1 DEF AllSafe, ClientReady, ClientRest, SocketState
    <3>4. IsSafe(t)
      BY <3>3 DEF IsSafe, SocketState, RequestedIsSilent, AnswersFirst,
                  ToldIsValid, IsAnswered, IsAsked
    <3>5. AllSafe([taken EXCEPT ![outgoing] = t])
      BY <2>2, <3>1, <3>4, Updated
    <3> QED
      BY <1>0, <1>4, <3>2, <3>5 DEF PeerReady, ClientTakes, TypeOK
  <2> QED
    BY <2>3, <2>4
<1>5. CASE ClientClosed(s)
  <2>1. sockets' = [sockets EXCEPT ![s] = ClientGone(k)]
    BY <1>5 DEF ClientClosed
  <2>2. AllSafe(sockets')
    BY <1>0, <2>1, EndGoneSafe, Updated
  <2>3. /\ UNCHANGED <<incoming, timers, clientKnows, serverKnows, stranded, events>>
        /\ outgoing' = IF outgoing = s THEN None ELSE outgoing
    BY <1>5 DEF ClientClosed
  <2> QED
    BY <1>0, <2>2, <2>3 DEF TypeOK
<1> QED
  BY <1>1, <1>2, <1>3, <1>4, <1>5

LEMMA ServerStep ==
    ASSUME Inv, NEW s \in Socket,
           Accept(s) \/ ServerSigns(s) \/ AddConnection(s) \/ ServerClosed(s)
    PROVE  Inv'
<1> DEFINE k == sockets[s]
<1>0. IsSafe(k) /\ AllSafe(sockets) /\ k \in SocketState /\ TypeOK
  BY DEF Inv, AllSafe, IsSafe
<1> SUFFICES /\ AllSafe(sockets')
             /\ incoming' \in Socket \cup {None} /\ timers' \in 0..MaxTimers
             /\ UNCHANGED <<outgoing, clientKnows, serverKnows, stranded, events>>
  BY <1>0 DEF Inv, TypeOK, AllSafe
<1>1. CASE Accept(s)
  <2> DEFINE o == [k EXCEPT !.server = "open", !.awaiting = TRUE]
             g == [o EXCEPT !.toClient = Append(o.toClient, "request")]
             c == [k EXCEPT !.server = "closing"]
  <2>1. k.server = "requested" /\ ~k.lost
    BY <1>1 DEF Accept
  <2>2. IsSafe(c)
    BY <1>0, <2>1 DEF IsSafe, SocketState, ServerEnd, RequestedIsSilent, AnswersFirst,
                      ToldIsValid
  <2>3. o \in SocketState /\ o.toClient = <<>> /\ Greeted(k) = g
    BY <1>0, <2>1 DEF IsSafe, SocketState, ServerEnd, RequestedIsSilent, Greeted, ToClient
  <2>4. g \in SocketState /\ g.toClient = Append(<<>>, "request")
    <3> HIDE DEF o
    <3>1. Append(o.toClient, "request") \in Seq(Message)
      BY <2>3 DEF SocketState, Message
    <3>2. g.toClient = Append(o.toClient, "request")
      BY <2>3 DEF SocketState
    <3>3. g \in SocketState
      BY <2>3, <3>1 DEF SocketState
    <3> QED
      BY <2>3, <3>2, <3>3
  <2>5. g.toClient # <<>> /\ Head(g.toClient) = "request"
    <3> HIDE DEF g
    <3> QED
      BY <2>4
  <2>6. /\ g.client = k.client /\ g.clientValid = k.clientValid /\ g.told = k.told
        /\ g.server = "open"
    BY <1>0 DEF SocketState
  <2>7. IsSafe(g)
    BY <1>0, <2>1, <2>4, <2>5, <2>6
       DEF IsSafe, RequestedIsSilent, AnswersFirst, ToldIsValid, IsAsked
  <2>8. \/ sockets' = [sockets EXCEPT ![s] = g]
        \/ sockets' = [sockets EXCEPT ![s] = c]
    BY <1>1, <2>3 DEF Accept
  <2> QED
    BY <1>0, <1>1, <2>2, <2>7, <2>8, Updated DEF Accept, TypeOK
<1>2. CASE ServerSigns(s)
  <2> DEFINE r == ToClient(ServerRest(k), "response")
  <2>1. /\ k.server = "open" /\ k.toServer # <<>> /\ Head(k.toServer) # "response"
        /\ sockets' = [sockets EXCEPT ![s] = r]
    BY <1>2 DEF ServerSigns, ServerTakes, TakenByServer, ServerRest
  <2>2. IsSafe(ServerRest(k)) /\ ServerRest(k).server # "requested"
    BY <1>0, <2>1, TakenByServerSafe
  <2>3. IsSafe(r)
    BY <2>2, ToClientSafe DEF Message
  <2>4. AllSafe(sockets')
    BY <1>0, <2>1, <2>3, Updated
  <2>5. UNCHANGED <<outgoing, incoming, timers, clientKnows, serverKnows, stranded, events>>
    BY <1>2 DEF ServerSigns, ServerTakes
  <2> QED
    BY <1>0, <2>4, <2>5 DEF TypeOK
<1>3. CASE AddConnection(s)
  <2> DEFINE valid == [ServerRest(k) EXCEPT !.serverValid = TRUE, !.awaiting = FALSE]
             with == [sockets EXCEPT ![s] = valid]
  <2>1. IsSafe(valid) /\ IsSafe(CloseServer(valid))
    BY <1>0, <1>3, TakenByServerSafe, CloseSafe DEF AddConnection, ServerTakes
  <2>2. AllSafe(with)
    BY <1>0, <2>1, Updated
  <2>3. AllSafe(Assigned(with, s))
    <3>1. CASE incoming = None
      BY <2>2, <3>1 DEF Assigned
    <3>2. CASE incoming # None
      <4>1. incoming \in Socket /\ IsSafe(CloseServer(with[incoming]))
        BY <1>0, <2>2, <3>2, CloseSafe DEF TypeOK, AllSafe
      <4>2. AllSafe([with EXCEPT ![incoming] = CloseServer(with[incoming])])
        BY <2>2, <4>1, Updated
      <4> QED
        BY <3>2, <4>2 DEF Assigned
    <3> QED
      BY <3>1, <3>2
  <2>4. \/ /\ sockets' = Assigned(with, s)
           /\ incoming' = s /\ timers < MaxTimers /\ timers' = timers + 1
        \/ /\ sockets' = [sockets EXCEPT ![s] = CloseServer(valid)]
           /\ UNCHANGED <<incoming, timers>>
    BY <1>3 DEF AddConnection, TakenByServer, ServerRest, Started
  <2>5. UNCHANGED <<outgoing, clientKnows, serverKnows, stranded, events>>
    BY <1>3 DEF AddConnection, ServerTakes
  <2>6. timers' \in 0..MaxTimers /\ incoming' \in Socket \cup {None}
    BY <1>0, <2>4, ConnectionBoundAssumption DEF TypeOK
  <2>7. AllSafe(sockets')
    BY <1>0, <2>1, <2>3, <2>4, Updated
  <2> QED
    BY <2>5, <2>6, <2>7
<1>4. CASE ServerClosed(s)
  <2>1. sockets' = [sockets EXCEPT ![s] = ServerGone(k)]
    BY <1>4 DEF ServerClosed
  <2>2. AllSafe(sockets')
    BY <1>0, <2>1, EndGoneSafe, Updated
  <2>3. /\ UNCHANGED <<outgoing, timers, clientKnows, serverKnows, stranded, events>>
        /\ incoming' = IF incoming = s THEN None ELSE incoming
    BY <1>4 DEF ServerClosed
  <2> QED
    BY <1>0, <2>2, <2>3 DEF TypeOK
<1> QED
  BY <1>1, <1>2, <1>3, <1>4

LEMMA TimerStep ==
    ASSUME Inv, Reconnect \/ ReadyTimer
    PROVE  Inv'
<1>0. AllSafe(sockets) /\ TypeOK
  BY DEF Inv
<1>1. CASE Reconnect
  <2>1. AllSafe(sockets') /\ outgoing' \in Socket
    BY <1>0, <1>1, ConnectSafe DEF Reconnect
  <2> QED
    BY <1>0, <1>1, <2>1 DEF Reconnect, Inv, TypeOK, AllSafe
<1>2. CASE ReadyTimer
  <2>1. AllSafe(sockets')
    <3>1. CASE ServerReady(incoming)
      <4>1. /\ incoming \in Socket /\ IsSafe(sockets[incoming])
            /\ sockets[incoming].server # "requested"
        BY <1>0, <3>1 DEF ServerReady, TypeOK, AllSafe
      <4>2. IsSafe(ToClient(sockets[incoming], "ready"))
        BY <4>1, ToClientSafe DEF Message
      <4> QED
        BY <1>0, <1>2, <3>1, <4>1, <4>2, Updated DEF ReadyTimer
    <3>2. CASE ~ServerReady(incoming)
      BY <1>0, <1>2, <3>2 DEF ReadyTimer
    <3> QED
      BY <3>1, <3>2
  <2>2. timers' \in 0..MaxTimers
    BY <1>0, <1>2, ConnectionBoundAssumption DEF ReadyTimer, TypeOK
  <2> QED
    BY <1>0, <1>2, <2>1, <2>2 DEF ReadyTimer, Inv, TypeOK, AllSafe
<1> QED
  BY <1>1, <1>2

LEMMA EventTyped ==
    ASSUME TypeOK, Event
    PROVE  events' \in 0..MaxEvents
  BY ConnectionBoundAssumption DEF TypeOK, Event

LEMMA FaultStep ==
    ASSUME Inv,
           \/ \E s \in Socket : Lose(s) \/ RequestTimeout(s)
           \/ Strand \/ ClientRestart \/ ServerRestart
    PROVE  Inv'
<1>0. AllSafe(sockets) /\ TypeOK
  BY DEF Inv
<1>1. ASSUME NEW s \in Socket, Lose(s) PROVE Inv'
  <2>1. AllSafe(sockets')
    <3>1. IsSafe([sockets[s] EXCEPT !.lost = TRUE])
      BY <1>0, LostSafe DEF AllSafe
    <3>2. sockets' = [sockets EXCEPT ![s] = [sockets[s] EXCEPT !.lost = TRUE]]
      BY <1>1 DEF Lose
    <3> QED
      BY <1>0, <3>1, <3>2, Updated
  <2> QED
    BY <1>0, <1>1, <2>1, EventTyped DEF Lose, Inv, TypeOK, AllSafe
<1>2. ASSUME NEW s \in Socket, RequestTimeout(s) PROVE Inv'
  <2>1. AllSafe(sockets')
    <3>1. IsSafe(CloseServer(sockets[s]))
      BY <1>0, CloseSafe DEF AllSafe
    <3> QED
      BY <1>0, <1>2, <3>1, Updated DEF RequestTimeout
  <2> QED
    BY <1>0, <1>2, <2>1, EventTyped DEF RequestTimeout, Inv, TypeOK, AllSafe
<1>3. CASE Strand
  BY <1>0, <1>3, EventTyped DEF Strand, Inv, TypeOK, AllSafe
<1>4. CASE ClientRestart
  <2>1. \A s \in Socket : IsSafe(sockets'[s])
    <3> SUFFICES ASSUME NEW s \in Socket PROVE IsSafe(sockets'[s])
      OBVIOUS
    <3>1. IsSafe(sockets[s]) /\ IsSafe([ClientGone(sockets[s]) EXCEPT !.lost = TRUE])
      BY <1>0, EndGoneSafe, LostSafe DEF AllSafe
    <3> QED
      BY <1>4, <3>1 DEF ClientRestart
  <2>2. AllSafe(sockets')
    BY <1>4, <2>1 DEF ClientRestart, AllSafe, IsSafe
  <2> QED
    BY <1>0, <1>4, <2>2, EventTyped DEF ClientRestart, Inv, TypeOK, AllSafe
<1>5. CASE ServerRestart
  <2>1. \A s \in Socket : IsSafe(sockets'[s])
    <3> SUFFICES ASSUME NEW s \in Socket PROVE IsSafe(sockets'[s])
      OBVIOUS
    <3>1. IsSafe(sockets[s]) /\ IsSafe([ServerGone(sockets[s]) EXCEPT !.lost = TRUE])
      BY <1>0, EndGoneSafe, LostSafe DEF AllSafe
    <3> QED
      BY <1>5, <3>1 DEF ServerRestart
  <2>2. AllSafe(sockets')
    BY <1>5, <2>1 DEF ServerRestart, AllSafe, IsSafe
  <2> QED
    BY <1>0, <1>5, <2>2, EventTyped, ConnectionBoundAssumption
       DEF ServerRestart, Inv, TypeOK, AllSafe
<1> QED
  BY <1>1, <1>2, <1>3, <1>4, <1>5

LEMMA ConfigStep ==
    ASSUME Inv, ClientForgets \/ ClientConnects \/ ServerForgets \/ ServerLearns
    PROVE  Inv'
<1>0. AllSafe(sockets) /\ TypeOK
  BY DEF Inv
<1>1. AllSafe(Released)
  <2>1. CASE outgoing = None
    BY <1>0, <2>1 DEF Released
  <2>2. CASE outgoing # None
    <3>1. outgoing \in Socket /\ IsSafe(CloseClient(sockets[outgoing]))
      BY <1>0, <2>2, CloseSafe DEF TypeOK, AllSafe
    <3> QED
      BY <1>0, <2>2, <3>1, Updated DEF Released
  <2> QED
    BY <2>1, <2>2
<1>2. CASE ClientForgets
  BY <1>0, <1>1, <1>2, EventTyped DEF ClientForgets, Inv, TypeOK, AllSafe
<1>3. CASE ClientConnects
  <2>1. AllSafe(sockets') /\ outgoing' \in Socket
    BY <1>1, <1>3, ConnectSafe DEF ClientConnects
  <2> QED
    BY <1>0, <1>3, <2>1, EventTyped DEF ClientConnects, Inv, TypeOK, AllSafe
<1>4. CASE ServerForgets
  <2>1. AllSafe(sockets')
    <3>1. CASE incoming = None
      BY <1>0, <1>4, <3>1 DEF ServerForgets
    <3>2. CASE incoming # None
      <4>1. incoming \in Socket /\ IsSafe(CloseServer(sockets[incoming]))
        BY <1>0, <3>2, CloseSafe DEF TypeOK, AllSafe
      <4> QED
        BY <1>0, <1>4, <3>2, <4>1, Updated DEF ServerForgets
    <3> QED
      BY <3>1, <3>2
  <2>2. timers' \in 0..MaxTimers /\ events' \in 0..MaxEvents
    BY <1>0, <1>4, EventTyped, ConnectionBoundAssumption DEF ServerForgets
  <2> QED
    BY <1>0, <1>4, <2>1, <2>2 DEF ServerForgets, Inv, TypeOK, AllSafe
<1>5. CASE ServerLearns
  BY <1>0, <1>5, EventTyped DEF ServerLearns, Inv, TypeOK, AllSafe
<1> QED
  BY <1>2, <1>3, <1>4, <1>5

-----------------------------------------------------------------------------
(* The invariant holds in every reachable state. *)
THEOREM InvCorrect == Spec => []Inv
<1>1. Init => Inv
  <2> SUFFICES ASSUME Init PROVE Inv
    OBVIOUS
  <2>1. AllSafe(sockets)
    BY FreshIsSafe DEF Init, AllSafe, IsSafe
  <2>2. timers \in 0..MaxTimers /\ events \in 0..MaxEvents
    BY ConnectionBoundAssumption DEF Init
  <2> QED
    BY <2>1, <2>2 DEF Init, Inv, TypeOK, AllSafe
<1>2. Inv /\ [Next]_vars => Inv'
  <2> SUFFICES ASSUME Inv, [Next]_vars PROVE Inv'
    OBVIOUS
  <2>1. CASE Next
    BY <2>1, ClientStep, ServerStep, TimerStep, FaultStep, ConfigStep DEF Next, Progress
  <2>2. CASE UNCHANGED vars
    BY <2>2 DEF vars, Inv, TypeOK, AllSafe
  <2> QED
    BY <2>1, <2>2
<1> QED
  BY <1>1, <1>2, PTL DEF Spec

(* All variables keep their types. *)
THEOREM TypeCorrect == Spec => []TypeOK
<1>1. Inv => TypeOK
  BY DEF Inv
<1> QED
  BY InvCorrect, <1>1, PTL

(* What the client sends on a ready channel is not refused: the server has  *)
(* validated its end, or will before it takes what the client sends.       *)
THEOREM ReadyIsMutualCorrect == Spec => []ReadyIsMutual
<1>1. Inv => ReadyIsMutual
  <2> SUFFICES ASSUME Inv, ClientReady(outgoing), sockets[outgoing].server = "open",
                      ~sockets[outgoing].lost
               PROVE  sockets[outgoing].serverValid \/ IsAnswered(sockets[outgoing])
    BY DEF ReadyIsMutual
  <2>1. outgoing \in Socket
    BY DEF ClientReady, Inv, TypeOK
  <2> QED
    BY <2>1 DEF Inv, AllSafe, IsSafe, AnswersFirst, IsAsked, ClientReady
<1> QED
  BY InvCorrect, <1>1, PTL

-----------------------------------------------------------------------------
(* The abstract link *)

IsReady(k) == k.client = "open" /\ k.clientValid

(* What a socket may become: READY is not forgotten, nor there from the start *)
Follows(k, K) == IsReady(K) => IF IsReady(k) THEN k.told => K.told ELSE ~K.told

(* The client's end is left as it is, but for its queue *)
SameClient(k, K) ==
    K.client = k.client /\ K.clientValid = k.clientValid /\ K.told = k.told

LEMMA SameFollows ==
    ASSUME NEW k, IsSafe(k), NEW K, SameClient(k, K)
    PROVE  Follows(k, K)
  BY DEF IsSafe, ToldIsValid, SameClient, Follows, IsReady

LEMMA SameClients ==
    ASSUME NEW k \in SocketState, NEW m
    PROVE  /\ SameClient(k, ToServer(k, m)) /\ SameClient(k, ToClient(k, m))
           /\ SameClient(k, ClientRest(k)) /\ SameClient(k, ServerRest(k))
           /\ SameClient(k, CloseServer(k)) /\ SameClient(k, ServerGone(k))
           /\ SameClient(k, [k EXCEPT !.lost = TRUE])
  BY DEF SocketState, SameClient, ToServer, ToClient, ClientRest, ServerRest, CloseServer,
         ServerGone

LEMMA SameTrans ==
    ASSUME NEW k, NEW K, NEW L, SameClient(k, K), SameClient(K, L)
    PROVE  SameClient(k, L)
  BY DEF SameClient

LEMMA UnreadyFollows ==
    ASSUME NEW k \in SocketState
    PROVE  Follows(k, Fresh) /\ Follows(k, CloseClient(k)) /\ Follows(k, ClientGone(k))
  BY DEF SocketState, Fresh, CloseClient, ClientGone, Follows, IsReady

LEMMA UpdatedFollows ==
    ASSUME AllSafe(sockets), NEW t \in Socket, NEW K, Follows(sockets[t], K),
           sockets' = [sockets EXCEPT ![t] = K]
    PROVE  \A s \in Socket : Follows(sockets[s], sockets'[s])
<1> SUFFICES ASSUME NEW s \in Socket PROVE Follows(sockets[s], sockets'[s])
  OBVIOUS
<1>1. CASE s = t
  BY <1>1 DEF AllSafe
<1>2. CASE s # t
  BY <1>2, SameFollows DEF AllSafe, SameClient
<1> QED
  BY <1>1, <1>2

LEMMA UnchangedFollows ==
    ASSUME AllSafe(sockets), sockets' = sockets
    PROVE  \A s \in Socket : Follows(sockets[s], sockets'[s])
  BY SameFollows DEF AllSafe, SameClient

LEMMA ClientFollows ==
    ASSUME Inv, NEW t \in Socket,
           \/ ClientOpen(t) \/ ClientSigns(t) \/ ClientValidates(t) \/ PeerReady(t)
           \/ ClientClosed(t)
    PROVE  \A s \in Socket : Follows(sockets[s], sockets'[s])
<1> DEFINE k == sockets[t]
<1>0. IsSafe(k) /\ AllSafe(sockets) /\ k \in SocketState /\ TypeOK
  BY DEF Inv, AllSafe, IsSafe
<1>1. CASE ClientOpen(t)
  <2> DEFINE o == [k EXCEPT !.client = "open"]
             c == [k EXCEPT !.client = "closing"]
  <2>1. k.client \in {"connecting", "aborting"} /\ ~k.clientValid
    BY <1>0, <1>1 DEF ClientOpen, IsSafe, ToldIsValid
  <2>2. o \in SocketState /\ ~o.clientValid
    BY <1>0, <2>1 DEF SocketState, ClientEnd
  <2>3. ~IsReady(ToServer(o, "request"))
    <3> HIDE DEF o
    <3>1. SameClient(o, ToServer(o, "request"))
      BY <2>2, SameClients
    <3> QED
      BY <2>2, <3>1 DEF IsReady, SameClient
  <2>4. ~IsReady(c)
    BY <1>0 DEF IsReady, SocketState
  <2>5. Follows(k, ToServer(o, "request")) /\ Follows(k, c)
    BY <2>3, <2>4 DEF Follows
  <2>6. \/ sockets' = [sockets EXCEPT ![t] = ToServer(o, "request")]
        \/ sockets' = [sockets EXCEPT ![t] = c]
    BY <1>1 DEF ClientOpen
  <2> QED
    BY <1>0, <2>5, <2>6, UpdatedFollows
<1>2. CASE ClientSigns(t)
  <2> DEFINE c == ClientRest(k)
             r == IF c.client = "open" THEN ToServer(c, "response") ELSE c
  <2>1. c \in SocketState /\ SameClient(k, c)
    BY <1>0, <1>2, RestTyped, SameClients DEF ClientSigns, ClientTakes
  <2>2. SameClient(k, r)
    BY <2>1, SameClients, SameTrans
  <2>3. Follows(k, r)
    BY <1>0, <2>2, SameFollows
  <2>4. sockets' = [sockets EXCEPT ![t] = r]
    BY <1>2 DEF ClientSigns, TakenByClient, ClientRest
  <2> QED
    BY <1>0, <2>3, <2>4, UpdatedFollows
<1>3. CASE ClientValidates(t)
  <2> DEFINE c == ClientRest(k)
             v == [c EXCEPT !.clientValid = TRUE]
  <2>1. c \in SocketState /\ SameClient(k, c)
    BY <1>0, <1>3, RestTyped, SameClients DEF ClientValidates, ClientTakes
  <2>2. v.client = k.client /\ v.clientValid /\ v.told = k.told
    BY <2>1 DEF SocketState, SameClient
  <2>3. Follows(k, v)
    BY <1>0, <2>2 DEF Follows, IsReady, IsSafe, ToldIsValid
  <2>4. sockets' = [sockets EXCEPT ![t] = v]
    BY <1>3 DEF ClientValidates, TakenByClient, ClientRest
  <2> QED
    BY <1>0, <2>3, <2>4, UpdatedFollows
<1>4. CASE PeerReady(t)
  <2> DEFINE c == ClientRest(k)
             taken == [sockets EXCEPT ![t] = c]
  <2>1. c \in SocketState /\ SameClient(k, c)
    BY <1>0, <1>4, RestTyped, SameClients DEF PeerReady, ClientTakes
  <2>2. \A s \in Socket : SameClient(sockets[s], taken[s]) /\ taken[s] \in SocketState
    BY <1>0, <2>1 DEF AllSafe, SameClient
  <2>3. CASE sockets' = taken
    BY <1>0, <2>2, <2>3, SameFollows DEF AllSafe
  <2>4. CASE sockets' # taken
    <3> DEFINE told == [taken[outgoing] EXCEPT !.told = TRUE]
    <3>1. /\ outgoing \in Socket /\ IsReady(sockets[outgoing])
          /\ sockets' = [taken EXCEPT ![outgoing] = told]
      BY <1>0, <1>4, <2>4
         DEF PeerReady, ClientReady, TypeOK, IsReady, TakenByClient, ClientRest
    <3>2. told.told
      BY <2>2, <3>1 DEF SocketState
    <3>3. Follows(sockets[outgoing], told)
      BY <3>1, <3>2 DEF Follows
    <3>4. \A s \in Socket : sockets'[s] = IF s = outgoing THEN told ELSE taken[s]
      BY <1>0, <3>1 DEF AllSafe
    <3> QED
      BY <1>0, <2>2, <3>3, <3>4, SameFollows DEF AllSafe
  <2> QED
    BY <2>3, <2>4
<1>5. CASE ClientClosed(t)
  BY <1>0, <1>5, UnreadyFollows, UpdatedFollows DEF ClientClosed
<1> QED
  BY <1>1, <1>2, <1>3, <1>4, <1>5

LEMMA ServerFollows ==
    ASSUME Inv, NEW t \in Socket,
           Accept(t) \/ ServerSigns(t) \/ AddConnection(t) \/ ServerClosed(t)
    PROVE  \A s \in Socket : Follows(sockets[s], sockets'[s])
<1> DEFINE k == sockets[t]
<1>0. IsSafe(k) /\ AllSafe(sockets) /\ k \in SocketState /\ TypeOK
  BY DEF Inv, AllSafe, IsSafe
<1>1. CASE Accept(t)
  <2> DEFINE o == [k EXCEPT !.server = "open", !.awaiting = TRUE]
             c == [k EXCEPT !.server = "closing"]
  <2>1. o \in SocketState /\ SameClient(k, o) /\ SameClient(k, c)
    BY <1>0 DEF SocketState, ServerEnd, SameClient
  <2>2. SameClient(k, ToClient(o, "request"))
    BY <2>1, SameClients, SameTrans
  <2>3. Follows(k, ToClient(o, "request")) /\ Follows(k, c)
    BY <1>0, <2>1, <2>2, SameFollows
  <2>4. \/ sockets' = [sockets EXCEPT ![t] = ToClient(o, "request")]
        \/ sockets' = [sockets EXCEPT ![t] = c]
    BY <1>1 DEF Accept, Greeted
  <2> QED
    BY <1>0, <2>3, <2>4, UpdatedFollows
<1>2. CASE ServerSigns(t)
  <2> DEFINE c == ServerRest(k)
             r == ToClient(c, "response")
  <2>1. c \in SocketState /\ SameClient(k, c)
    BY <1>0, <1>2, RestTyped, SameClients DEF ServerSigns, ServerTakes
  <2>2. SameClient(k, r)
    BY <2>1, SameClients, SameTrans
  <2>3. Follows(k, r)
    BY <1>0, <2>2, SameFollows
  <2>4. sockets' = [sockets EXCEPT ![t] = r]
    BY <1>2 DEF ServerSigns, TakenByServer, ServerRest
  <2> QED
    BY <1>0, <2>3, <2>4, UpdatedFollows
<1>3. CASE AddConnection(t)
  <2> DEFINE c == ServerRest(k)
             valid == [c EXCEPT !.serverValid = TRUE, !.awaiting = FALSE]
             with == [sockets EXCEPT ![t] = valid]
  <2>1. c \in SocketState /\ SameClient(k, c)
    BY <1>0, <1>3, RestTyped, SameClients DEF AddConnection, ServerTakes
  <2>2. valid \in SocketState /\ SameClient(k, valid)
    BY <2>1 DEF SocketState, SameClient
  <2>3. SameClient(k, CloseServer(valid))
    BY <2>2, SameClients, SameTrans
  <2>4. \A s \in Socket : SameClient(sockets[s], with[s]) /\ with[s] \in SocketState
    BY <1>0, <2>2 DEF AllSafe, SameClient
  <2>5. CASE sockets' = [sockets EXCEPT ![t] = CloseServer(valid)]
    BY <1>0, <2>3, <2>5, SameFollows, UpdatedFollows
  <2>6. CASE sockets' = Assigned(with, t)
    <3>1. CASE incoming = None
      BY <1>0, <2>4, <2>6, <3>1, SameFollows DEF AllSafe, Assigned
    <3>2. CASE incoming # None
      <4>1. \A s \in Socket : sockets'[s] = IF s = incoming THEN CloseServer(with[s])
                                                           ELSE with[s]
        BY <1>0, <2>6, <3>2 DEF AllSafe, Assigned
      <4>2. \A s \in Socket : SameClient(sockets[s], CloseServer(with[s]))
        BY <2>4, SameClients, SameTrans
      <4> QED
        BY <1>0, <2>4, <4>1, <4>2, SameFollows DEF AllSafe
    <3> QED
      BY <3>1, <3>2
  <2> QED
    BY <1>3, <2>5, <2>6 DEF AddConnection, TakenByServer, ServerRest
<1>4. CASE ServerClosed(t)
  <2>1. Follows(k, ServerGone(k))
    BY <1>0, SameClients, SameFollows
  <2> QED
    BY <1>0, <1>4, <2>1, UpdatedFollows DEF ServerClosed
<1> QED
  BY <1>1, <1>2, <1>3, <1>4

LEMMA ConnectFollows ==
    ASSUME AllSafe(sockets), NEW socks, socks \in [Socket -> SocketState],
           \A s \in Socket : Follows(sockets[s], socks[s]), Connect(socks)
    PROVE  /\ \A s \in Socket : Follows(sockets[s], sockets'[s])
           /\ outgoing' \in Socket /\ sockets'[outgoing'] = Fresh
<1>1. PICK t \in Free : sockets' = [socks EXCEPT ![t] = Fresh] /\ outgoing' = t
  BY DEF Connect
<1>2. t \in Socket /\ \A s \in Socket : sockets'[s] = IF s = t THEN Fresh ELSE socks[s]
  BY <1>1 DEF Free
<1>3. \A s \in Socket : Follows(sockets[s], Fresh)
  BY UnreadyFollows DEF AllSafe
<1> QED
  BY <1>1, <1>2, <1>3

LEMMA OtherFollows ==
    ASSUME Inv,
           \/ ReadyTimer
           \/ \E s \in Socket : Lose(s) \/ RequestTimeout(s)
           \/ Strand \/ ClientRestart \/ ServerRestart \/ ServerForgets \/ ServerLearns
    PROVE  \A s \in Socket : Follows(sockets[s], sockets'[s])
<1>0. AllSafe(sockets) /\ TypeOK /\ \A s \in Socket : sockets[s] \in SocketState
  BY DEF Inv, AllSafe
<1>a. incoming # None =>
          /\ incoming \in Socket
          /\ Follows(sockets[incoming], ToClient(sockets[incoming], "ready"))
          /\ Follows(sockets[incoming], CloseServer(sockets[incoming]))
  BY <1>0, SameClients, SameFollows DEF TypeOK, AllSafe
<1>1. CASE ReadyTimer
  <2>1. CASE ServerReady(incoming)
    BY <1>0, <1>1, <1>a, <2>1, UpdatedFollows DEF ReadyTimer, ServerReady
  <2>2. CASE ~ServerReady(incoming)
    BY <1>0, <1>1, <2>2, UnchangedFollows DEF ReadyTimer
  <2> QED
    BY <2>1, <2>2
<1>2. ASSUME NEW t \in Socket, Lose(t)
      PROVE  \A s \in Socket : Follows(sockets[s], sockets'[s])
  <2>1. Follows(sockets[t], [sockets[t] EXCEPT !.lost = TRUE])
    BY <1>0, SameClients, SameFollows DEF AllSafe
  <2>2. sockets' = [sockets EXCEPT ![t] = [sockets[t] EXCEPT !.lost = TRUE]]
    BY <1>2 DEF Lose
  <2> QED
    BY <1>0, <2>1, <2>2, UpdatedFollows
<1>3. ASSUME NEW t \in Socket, RequestTimeout(t)
      PROVE  \A s \in Socket : Follows(sockets[s], sockets'[s])
  <2>1. Follows(sockets[t], CloseServer(sockets[t]))
    BY <1>0, SameClients, SameFollows DEF AllSafe
  <2> QED
    BY <1>0, <1>3, <2>1, UpdatedFollows DEF RequestTimeout
<1>4. CASE Strand \/ ServerLearns
  BY <1>0, <1>4, UnchangedFollows DEF Strand, ServerLearns
<1>5. CASE ClientRestart
  <2> SUFFICES ASSUME NEW s \in Socket PROVE Follows(sockets[s], sockets'[s])
    OBVIOUS
  <2>1. ~IsReady([ClientGone(sockets[s]) EXCEPT !.lost = TRUE])
    BY <1>0 DEF IsReady, ClientGone, SocketState
  <2>2. \/ sockets'[s] = sockets[s]
        \/ sockets'[s] = [ClientGone(sockets[s]) EXCEPT !.lost = TRUE]
    BY <1>5 DEF ClientRestart
  <2> QED
    BY <1>0, <2>1, <2>2, SameFollows DEF Follows, SameClient, AllSafe
<1>6. CASE ServerRestart
  <2> SUFFICES ASSUME NEW s \in Socket PROVE Follows(sockets[s], sockets'[s])
    OBVIOUS
  <2> DEFINE g == ServerGone(sockets[s])
  <2>1. g \in SocketState
    BY <1>0, EndGoneSafe DEF AllSafe, IsSafe
  <2>2. SameClient(sockets[s], [g EXCEPT !.lost = TRUE])
    BY <1>0, <2>1, SameClients, SameTrans
  <2>3. sockets'[s] = sockets[s] \/ sockets'[s] = [g EXCEPT !.lost = TRUE]
    BY <1>6 DEF ServerRestart
  <2> QED
    BY <1>0, <2>2, <2>3, SameFollows DEF SameClient, AllSafe
<1>7. CASE ServerForgets
  <2>1. CASE incoming = None
    BY <1>0, <1>7, <2>1, UnchangedFollows DEF ServerForgets
  <2>2. CASE incoming # None
    BY <1>0, <1>7, <1>a, <2>2, UpdatedFollows DEF ServerForgets
  <2> QED
    BY <2>1, <2>2
<1> QED
  BY <1>1, <1>2, <1>3, <1>4, <1>5, <1>6, <1>7

LEMMA ReleasedFollows ==
    ASSUME Inv
    PROVE  /\ Released \in [Socket -> SocketState]
           /\ \A s \in Socket : Follows(sockets[s], Released[s])
<1>0. AllSafe(sockets) /\ TypeOK /\ \A s \in Socket : sockets[s] \in SocketState
  BY DEF Inv, AllSafe
<1>1. \A s \in Socket : Follows(sockets[s], sockets[s])
  BY <1>0, SameFollows DEF AllSafe, SameClient
<1>2. CASE outgoing = None
  BY <1>0, <1>1, <1>2 DEF Released, AllSafe
<1>3. CASE outgoing # None
  <2> DEFINE c == CloseClient(sockets[outgoing])
  <2>1. outgoing \in Socket /\ c \in SocketState /\ Follows(sockets[outgoing], c)
    BY <1>0, <1>3, CloseSafe, UnreadyFollows DEF TypeOK, AllSafe, IsSafe
  <2>2. Released = [sockets EXCEPT ![outgoing] = c]
    BY <1>3 DEF Released
  <2> HIDE DEF c
  <2> QED
    BY <1>0, <1>1, <2>1, <2>2 DEF AllSafe
<1> QED
  BY <1>2, <1>3

(* A step changes every socket so that READY stays said, and the socket the *)
(* client uses is the same, none or a fresh one.                           *)
LEMMA StepFollows ==
    ASSUME Inv, Next
    PROVE  /\ \A s \in Socket : Follows(sockets[s], sockets'[s])
           /\ \/ outgoing' \in {outgoing, None}
              \/ outgoing' \in Socket /\ sockets'[outgoing'] = Fresh
<1>0. AllSafe(sockets)
  BY DEF Inv
<1>1. ASSUME NEW s \in Socket,
             \/ ClientOpen(s) \/ ClientSigns(s) \/ ClientValidates(s) \/ PeerReady(s)
             \/ ClientClosed(s)
      PROVE  outgoing' \in {outgoing, None}
  BY <1>1 DEF ClientOpen, ClientSigns, ClientValidates, PeerReady, ClientTakes, ClientClosed
<1>2. ASSUME NEW s \in Socket,
             Accept(s) \/ ServerSigns(s) \/ AddConnection(s) \/ ServerClosed(s)
      PROVE  outgoing' = outgoing
  BY <1>2 DEF Accept, ServerSigns, AddConnection, ServerTakes, ServerClosed
<1>3. ASSUME \/ ReadyTimer
             \/ \E s \in Socket : Lose(s) \/ RequestTimeout(s)
             \/ Strand \/ ClientRestart \/ ServerRestart \/ ServerForgets \/ ServerLearns
      PROVE  outgoing' \in {outgoing, None}
  BY <1>3 DEF ReadyTimer, Lose, RequestTimeout, Strand, ClientRestart, ServerRestart,
              ServerForgets, ServerLearns
<1>4. CASE Reconnect
  BY <1>0, <1>4, ConnectFollows, SameFollows DEF Reconnect, AllSafe, SameClient
<1>5. CASE ClientForgets
  BY <1>5, ReleasedFollows DEF ClientForgets
<1>6. CASE ClientConnects
  BY <1>0, <1>6, ReleasedFollows, ConnectFollows DEF ClientConnects
<1> QED
  BY <1>1, <1>2, <1>3, <1>4, <1>5, <1>6, ClientFollows, ServerFollows, OtherFollows
     DEF Next, Progress

(* The connections are a link: a step opens it, hears the peer's READY on   *)
(* it, ends it, or leaves it alone.  That READY is heard is a matter of     *)
(* fairness, and of LinkImplemented.                                       *)
THEOREM LinkSafety == Spec => Abstract!Init /\ [][Abstract!Next]_Link
<1>1. Init => Abstract!Init
  BY DEF Init, Abstract!Init, Link, ClientReady
<1>2. Inv /\ [Next]_vars => [Abstract!Next]_Link
  <2> SUFFICES ASSUME Inv, [Next]_vars PROVE [Abstract!Next]_Link
    OBVIOUS
  <2>1. CASE UNCHANGED vars
    BY <2>1 DEF vars, Link, ClientReady
  <2>2. CASE Next
    <3>1. CASE outgoing' = None \/ sockets'[outgoing'] = Fresh
      <4>1. Link' = "down"
        BY <3>1 DEF Link, ClientReady, Fresh
      <4> QED
        BY <4>1 DEF Abstract!Next, Abstract!Disconnect
    <3>2. CASE outgoing' = outgoing /\ outgoing # None
      <4>1. outgoing \in Socket /\ Follows(sockets[outgoing], sockets'[outgoing])
        BY <2>2, <3>2, StepFollows DEF Inv, TypeOK
      <4>2. /\ ClientReady(outgoing) <=> IsReady(sockets[outgoing])
            /\ ClientReady(outgoing)' <=> IsReady(sockets'[outgoing])
        BY <3>2 DEF ClientReady, IsReady
      <4> QED
        BY <3>2, <4>1, <4>2 DEF Follows, Link, Abstract!Next, Abstract!Connect,
                                Abstract!PeerReady, Abstract!Disconnect
    <3> QED
      BY <2>2, <3>1, <3>2, StepFollows
  <2> QED
    BY <2>1, <2>2
<1> QED
  BY InvCorrect, <1>1, <1>2, PTL DEF Spec

=============================================================================
