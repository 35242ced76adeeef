--------------------------- MODULE NodeConnections ----------------------------
(***************************************************************************)
(* The connections of one ordered pair of nodes: the client, whose Node of  *)
(* the server keeps an outgoing channel, and the server, whose Node of the  *)
(* client keeps an incoming channel.  A channel uses one websocket at a     *)
(* time; several sockets of the pair may exist, as each end learns of the   *)
(* loss of one by itself.  Both ends of a socket ask the other to sign a    *)
(* handshake; the server takes the socket into use when its own request is  *)
(* answered, and tells the client READY a second later, once.               *)
(*                                                                         *)
(* A message is lost only with its socket.  The keepalive that finds a dead *)
(* socket is the subject of Channel.                                        *)
(***************************************************************************)
EXTENDS Integers, Sequences

CONSTANTS
    Socket,       \* bound: sockets of the pair at a time
    MaxTimers,    \* bound: READY timers of the server at a time
    MaxEvents,    \* bound: losses, late answers, restarts, new configurations
    None

ASSUME SocketAssumption == Socket \subseteq Nat /\ None \notin Socket
ASSUME ConnectionBoundAssumption == MaxTimers \in Nat /\ MaxEvents \in Nat

VARIABLES
    sockets,       \* the sockets, each with its two ends
    outgoing,      \* client: the socket of __outgoingChannel
    incoming,      \* server: the socket of __incommingChannel
    timers,        \* server: READY timers of its Node of the client
    clientKnows,   \* client: the server is in __nodes, with a url
    serverKnows,   \* server: the client is in __nodes
    stranded,      \* client: the channel lost the timer it reconnects with
    events         \* events of the environment so far

vars == <<sockets, outgoing, incoming, timers, clientKnows, serverKnows, stranded,
          events>>

-----------------------------------------------------------------------------
ClientEnd == {"connecting", "aborting", "open", "closing", "closed"}
ServerEnd == {"requested", "open", "closing", "closed"}

(* A socket: the state of each end, whether it is validated there, whether  *)
(* the server awaits the answer to its request, whether the connection is  *)
(* lost, the messages under way, and whether the client took a READY while  *)
(* it used this socket.                                                    *)
Message == {"request", "response", "ready"}
SocketState == [client : ClientEnd, clientValid : BOOLEAN, toClient : Seq(Message),
                server : ServerEnd, serverValid : BOOLEAN, toServer : Seq(Message),
                awaiting : BOOLEAN, lost : BOOLEAN, told : BOOLEAN]
Fresh == [client |-> "connecting", clientValid |-> FALSE, toClient |-> <<>>,
          server |-> "requested", serverValid |-> FALSE, toServer |-> <<>>,
          awaiting |-> FALSE, lost |-> FALSE, told |-> FALSE]
Gone == [Fresh EXCEPT !.client = "closed", !.server = "closed"]

(* A request of the client that never arrives makes room as well *)
Free == {s \in Socket : /\ sockets[s].client = "closed"
                        /\ sockets[s].server \in {"requested", "closed"}}

ToServer(k, m) == IF k.lost THEN k ELSE [k EXCEPT !.toServer = Append(@, m)]
ToClient(k, m) == IF k.lost THEN k ELSE [k EXCEPT !.toClient = Append(@, m)]

(* close of an end's channel *)
CloseClient(k) ==
    CASE k.client \in {"connecting", "aborting"} -> [k EXCEPT !.client = "aborting"]
      [] k.client = "open" -> [k EXCEPT !.client = "closing"]
      [] OTHER -> k
CloseServer(k) ==
    IF k.server = "open" THEN [k EXCEPT !.server = "closing", !.awaiting = FALSE] ELSE k

(* __closeAndInvalidate: the end is gone, with what was under way to it *)
ClientGone(k) ==
    [k EXCEPT !.client = "closed", !.clientValid = FALSE, !.toClient = <<>>]
ServerGone(k) ==
    [k EXCEPT !.server = "closed", !.serverValid = FALSE, !.toServer = <<>>,
              !.awaiting = FALSE]

(* Mutant: an open channel is ready *)
ClientReadyOpen(s) == s # None /\ sockets[s].client = "open"

(* isReady of the client's channel *)
ClientReady(s) == s # None /\ sockets[s].client = "open" /\ sockets[s].clientValid

(* isReady of the server's channel *)
ServerReady(s) == s # None /\ sockets[s].server = "open" /\ sockets[s].serverValid

-----------------------------------------------------------------------------
Init ==
    /\ sockets = [s \in Socket |-> Gone]
    /\ outgoing = None
    /\ incoming = None
    /\ timers = 0
    /\ clientKnows = TRUE
    /\ serverKnows = TRUE
    /\ stranded = FALSE
    /\ events = 0

(* ------------------------------ the client ---------------------------- *)

(* __connect over a socket of those after a change to them *)
Connect(socks) ==
    \E s \in Free :
        /\ \A t \in Free : s <= t
        /\ sockets' = [socks EXCEPT ![s] = Fresh]
        /\ outgoing' = s

(* The reconnection timer of the outgoing channel *)
Reconnect ==
    /\ clientKnows /\ outgoing = None /\ ~stranded
    /\ Connect(sockets)
    /\ UNCHANGED <<incoming, timers, clientKnows, serverKnows, stranded, events>>

(* __onOpen asks the server to sign; a socket to be closed closes instead *)
ClientOpen(s) ==
    LET k == sockets[s] IN
    /\ k.client \in {"connecting", "aborting"}
    /\ k.server # "requested" /\ ~k.lost
    /\ sockets' = [sockets EXCEPT ![s] =
                      IF k.client = "connecting"
                      THEN ToServer([k EXCEPT !.client = "open"], "request")
                      ELSE [k EXCEPT !.client = "closing"]]
    /\ UNCHANGED <<outgoing, incoming, timers, clientKnows, serverKnows, stranded,
                   events>>

(* __onMessage takes the next message of the server, which is m *)
ClientTakes(s, m) ==
    /\ sockets[s].client \in {"open", "closing"}
    /\ sockets[s].toClient # <<>>
    /\ Head(sockets[s].toClient) = m
    /\ UNCHANGED <<outgoing, incoming, timers, clientKnows, serverKnows, stranded,
                   events>>

TakenByClient(s) == [sockets[s] EXCEPT !.toClient = Tail(@)]

(* HandshakeRequestHandler; a channel that is closing sends nothing *)
ClientSigns(s) ==
    LET k == TakenByClient(s) IN
    /\ ClientTakes(s, "request")
    /\ sockets' = [sockets EXCEPT ![s] =
                      IF k.client = "open" THEN ToServer(k, "response") ELSE k]

(* HandshakeResponseHandler *)
ClientValidates(s) ==
    /\ ClientTakes(s, "response")
    /\ sockets' = [sockets EXCEPT ![s] = [TakenByClient(s) EXCEPT !.clientValid = TRUE]]

(* StateHandler, for validated channels only: the node repeats what it has  *)
(* to say over the channel it uses now                                     *)
PeerReady(s) ==
    LET taken == [sockets EXCEPT ![s] = TakenByClient(s)] IN
    /\ ClientTakes(s, "ready")
    /\ sockets' = IF sockets[s].clientValid /\ ClientReady(outgoing)
                  THEN [taken EXCEPT ![outgoing].told = TRUE]
                  ELSE taken

(* __onClose: the close was asked for, the connection was lost, or the      *)
(* server's end of it is read to the end.  The channel in use reconnects    *)
(* later; one that was replaced does not.                                  *)
ClientClosed(s) ==
    LET k == sockets[s] IN
    /\ \/ k.client \in {"aborting", "closing"}
       \/ k.client # "closed" /\ k.lost
       \/ k.client = "open" /\ k.server \in {"closing", "closed"} /\ k.toClient = <<>>
    /\ sockets' = [sockets EXCEPT ![s] = ClientGone(k)]
    /\ outgoing' = IF outgoing = s THEN None ELSE outgoing
    /\ UNCHANGED <<incoming, timers, clientKnows, serverKnows, stranded, events>>

(* ------------------------------ the server ---------------------------- *)

(* The server's request to sign, whose answer it waits for *)
Greeted(k) == ToClient([k EXCEPT !.server = "open", !.awaiting = TRUE], "request")

(* __onConnect *)
Accept(s) ==
    /\ sockets[s].server = "requested" /\ ~sockets[s].lost
    /\ sockets' = [sockets EXCEPT ![s] =
                      IF serverKnows THEN Greeted(@) ELSE [@ EXCEPT !.server = "closing"]]
    /\ UNCHANGED <<outgoing, incoming, timers, clientKnows, serverKnows, stranded,
                   events>>

(* Mutant: READY is not due again while there is a connection *)
StartedUnlessConnected(n) == IF incoming = None THEN n + 1 ELSE n

(* The READY timers after a connection is taken into use *)
Started(n) == n + 1

(* Mutant: the new connection is closed instead of the old one *)
AssignedClosed(socks, s) == [socks EXCEPT ![s] = CloseServer(@)]

(* The connection before the one of a socket is closed *)
Assigned(socks, s) ==
    IF incoming = None THEN socks ELSE [socks EXCEPT ![incoming] = CloseServer(@)]

(* __onMessage takes the next message of the client, which is m *)
ServerTakes(s, m) ==
    /\ sockets[s].server = "open"
    /\ sockets[s].toServer # <<>>
    /\ Head(sockets[s].toServer) = m
    /\ UNCHANGED <<outgoing, clientKnows, serverKnows, stranded, events>>

TakenByServer(s) == [sockets[s] EXCEPT !.toServer = Tail(@)]

(* HandshakeRequestHandler *)
ServerSigns(s) ==
    /\ ServerTakes(s, "request")
    /\ sockets' = [sockets EXCEPT ![s] = ToClient(TakenByServer(s), "response")]
    /\ UNCHANGED <<incoming, timers>>

(* HandshakeResponseHandler validates the channel, which ends the wait of   *)
(* __onConnect: addConnection                                              *)
AddConnection(s) ==
    LET valid == [TakenByServer(s) EXCEPT !.serverValid = TRUE, !.awaiting = FALSE] IN
    /\ ServerTakes(s, "response")
    /\ \/ /\ serverKnows
          /\ timers < MaxTimers
          /\ sockets' = Assigned([sockets EXCEPT ![s] = valid], s)
          /\ incoming' = s
          /\ timers' = Started(timers)
       \/ /\ ~serverKnows
          /\ sockets' = [sockets EXCEPT ![s] = CloseServer(valid)]
          /\ UNCHANGED <<incoming, timers>>

(* The READY timer sends over the channel in use by then, if it is ready *)
ReadyTimer ==
    /\ timers > 0
    /\ timers' = timers - 1
    /\ sockets' = IF ServerReady(incoming)
                  THEN [sockets EXCEPT ![incoming] = ToClient(@, "ready")]
                  ELSE sockets
    /\ UNCHANGED <<outgoing, incoming, clientKnows, serverKnows, stranded, events>>

(* __onClose at the server *)
ServerClosed(s) ==
    LET k == sockets[s] IN
    /\ \/ k.server = "closing"
       \/ k.server = "open" /\ k.lost
       \/ k.server = "open" /\ k.client \in {"closing", "closed"} /\ k.toServer = <<>>
    /\ sockets' = [sockets EXCEPT ![s] = ServerGone(k)]
    /\ incoming' = IF incoming = s THEN None ELSE incoming
    /\ UNCHANGED <<outgoing, timers, clientKnows, serverKnows, stranded,
                   events>>

(* ----------------------- faults and configurations -------------------- *)

Event == events < MaxEvents /\ events' = events + 1

(* A connection is lost: each end reads what has reached it, or less *)
Lose(s) ==
    /\ Event
    /\ s \notin Free /\ ~sockets[s].lost
    /\ sockets' = [sockets EXCEPT ![s].lost = TRUE]
    /\ UNCHANGED <<outgoing, incoming, timers, clientKnows, serverKnows, stranded>>

(* The server's request times out: the connection is closed as unauthorized *)
RequestTimeout(s) ==
    /\ Event
    /\ sockets[s].awaiting
    /\ sockets' = [sockets EXCEPT ![s] = CloseServer(@)]
    /\ UNCHANGED <<outgoing, incoming, timers, clientKnows, serverKnows, stranded>>

(* What RestartsOnFailure of Channel is violated by: a pong timer that was  *)
(* forgotten closes the channel while it waits to reconnect                *)
Strand ==
    /\ Event
    /\ clientKnows /\ outgoing = None /\ ~stranded
    /\ stranded' = TRUE
    /\ UNCHANGED <<sockets, outgoing, incoming, timers, clientKnows, serverKnows>>

(* The process of the client ends and starts again with its configuration *)
ClientRestart ==
    /\ Event
    /\ sockets' = [s \in Socket |-> IF sockets[s].client = "closed" THEN sockets[s]
                                    ELSE [ClientGone(sockets[s]) EXCEPT !.lost = TRUE]]
    /\ outgoing' = None
    /\ stranded' = FALSE
    /\ UNCHANGED <<incoming, timers, clientKnows, serverKnows>>

ServerRestart ==
    /\ Event
    /\ sockets' = [s \in Socket |-> IF sockets[s].server = "closed" THEN sockets[s]
                                    ELSE [ServerGone(sockets[s]) EXCEPT !.lost = TRUE]]
    /\ incoming' = None
    /\ timers' = 0
    /\ UNCHANGED <<outgoing, clientKnows, serverKnows, stranded>>

Released == IF outgoing = None THEN sockets
            ELSE [sockets EXCEPT ![outgoing] = CloseClient(@)]

(* setNodes of the client: the server is not in the configuration, or has   *)
(* no url                                                                  *)
ClientForgets ==
    /\ Event
    /\ clientKnows
    /\ clientKnows' = FALSE
    /\ sockets' = Released
    /\ outgoing' = None
    /\ stranded' = FALSE
    /\ UNCHANGED <<incoming, timers, serverKnows>>

(* setNodes of the client: the server is new, or its url is; a channel to   *)
(* the url replaces the one before                                         *)
ClientConnects ==
    /\ Event
    /\ clientKnows' = TRUE
    /\ stranded' = FALSE
    /\ Connect(Released)
    /\ UNCHANGED <<incoming, timers, serverKnows>>

(* setNodes of the server: the Node of the client is closed.  Its timers    *)
(* find its channel closed, and do nothing.                                *)
ServerForgets ==
    /\ Event
    /\ serverKnows
    /\ serverKnows' = FALSE
    /\ sockets' = IF incoming = None THEN sockets
                ELSE [sockets EXCEPT ![incoming] = CloseServer(@)]
    /\ incoming' = None
    /\ timers' = 0
    /\ UNCHANGED <<outgoing, clientKnows, stranded>>

(* setNodes of the server: a new Node for the client *)
ServerLearns ==
    /\ Event
    /\ ~serverKnows
    /\ serverKnows' = TRUE
    /\ UNCHANGED <<sockets, outgoing, incoming, timers, clientKnows, stranded>>

(* What goes on by itself: events, messages and timers that are due *)
Progress ==
    \/ Reconnect
    \/ \E s \in Socket : \/ ClientOpen(s)
                         \/ ClientSigns(s)
                         \/ ClientValidates(s)
                         \/ PeerReady(s)
                         \/ ClientClosed(s)
    \/ \E s \in Socket : \/ Accept(s)
                         \/ ServerSigns(s)
                         \/ AddConnection(s)
                         \/ ServerClosed(s)
    \/ ReadyTimer

Next ==
    \/ Progress
    \/ \E s \in Socket : Lose(s)
    \/ \E s \in Socket : RequestTimeout(s)
    \/ Strand
    \/ ClientRestart
    \/ ServerRestart
    \/ ClientForgets
    \/ ClientConnects
    \/ ServerForgets
    \/ ServerLearns

(* As long as some event is due, one of them happens *)
Spec == Init /\ [][Next]_vars /\ WF_vars(Progress)

-----------------------------------------------------------------------------
(* Properties *)

TypeOK ==
    /\ sockets \in [Socket -> SocketState]
    /\ outgoing \in Socket \cup {None}
    /\ incoming \in Socket \cup {None}
    /\ timers \in 0..MaxTimers
    /\ clientKnows \in BOOLEAN /\ serverKnows \in BOOLEAN /\ stranded \in BOOLEAN
    /\ events \in 0..MaxEvents

(* The client's answer is on its way to the server *)
IsAnswered(k) == \E i \in DOMAIN k.toServer : k.toServer[i] = "response"

(* What the client sends over a ready channel is not refused as a message   *)
(* of an anonymous one: by the time it arrives the server has validated     *)
(* its end of the socket too.                                              *)
ReadyIsMutual ==
    LET k == sockets[outgoing] IN
    ClientReady(outgoing) /\ k.server = "open" /\ ~k.lost =>
        k.serverValid \/ IsAnswered(k)

(* The link of the pair: open while the client's channel is ready *)
Link == IF ~ClientReady(outgoing) THEN "down"
        ELSE IF sockets[outgoing].told THEN "synced" ELSE "open"

(* The connections implement the abstract link: however sockets, losses,    *)
(* timers and changes of the configurations cross, an open link is followed *)
(* by the READY of the peer or goes down.                                  *)
Abstract == INSTANCE PeerLink WITH link <- Link

LinkImplemented == Abstract!Spec

(* Two nodes that know each other end up with one socket that both use and  *)
(* that READY was said on, whatever sockets earlier losses have left.       *)
Settles ==
    <>[](clientKnows /\ serverKnows /\ ~stranded) =>
        <>[](Link = "synced" /\ incoming = outgoing)

=============================================================================
