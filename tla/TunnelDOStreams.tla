--------------------------- MODULE TunnelDOStreams ---------------------------
(***************************************************************************)
(* The Durable Object with the WebSocket streams it carries: TunnelDO      *)
(* composed with forwardWebSocket, its listeners and the stream messages   *)
(* of handleTunnelMessage, and at the sidecar handleWsOpen, handleWsData   *)
(* and handleWsClose.                                                      *)
(*                                                                         *)
(* A client has its 101 from the object before the sidecar has heard of    *)
(* the stream, and what it sends goes to the tunnel of the moment; the     *)
(* sidecar answers on the connection the stream came by. Neither end looks *)
(* at its streams when a tunnel goes. Frames are numbered as sent. With    *)
(* the compatibility date in wrangler.jsonc binary frames are              *)
(* ArrayBuffers, so the listener has no await to take.                     *)
(***************************************************************************)
EXTENDS TunnelDO, Sequences

CONSTANTS
  Stream,     \* WebSocket upgrades by clients
  MaxFrames,  \* bound on the frames a client sends on a stream
  MaxAnswers  \* bound on the frames Headscale sends

ASSUME FramesAssumption == MaxFrames \in Nat /\ MaxAnswers \in Nat

VARIABLES
  wsConnections,  \* this.wsConnections
  client,         \* the client's end of each stream
  sent,           \* frames the client has sent
  got,            \* whether it has received any
  wsUp,           \* stream messages in flight on the sidecar's connection
  wsDown,         \* messages of each stream in flight to the object
  streamConn,     \* sidecar: handleWsOpen, the streamConns entry, the reader
  openedOn,       \* sidecar: the connection each stream came by
  upstream,       \* frames Headscale has received
  answered        \* frames Headscale has sent

objectVars == <<wsConnections, client, sent, got>>
wsVars == <<wsUp, wsDown>>
headscaleVars == <<streamConn, openedOn, upstream, answered>>
streamVars == <<objectVars, wsVars, headscaleVars>>
allVars == <<vars, streamVars>>

StreamInit ==
  /\ Init
  /\ wsConnections = {}
  /\ client = [s \in Stream |-> "new"]
  /\ sent = [s \in Stream |-> 0]
  /\ got = [s \in Stream |-> FALSE]
  /\ wsUp = <<>>
  /\ wsDown = [s \in Stream |-> <<>>]
  /\ streamConn = [s \in Stream |-> "none"]
  /\ openedOn = [s \in Stream |-> None]
  /\ upstream = [s \in Stream |-> <<>>]
  /\ answered = [s \in Stream |-> 0]

\* this.tunnel.send: nothing without a tunnel, lost on one the sidecar left.
Tell(m) == wsUp' = IF tunnel # None /\ tunnel = side THEN Append(wsUp, m) ELSE wsUp

-----------------------------------------------------------------------------
(* forwardWebSocket and its listeners *)

\* 503 without a tunnel, 426 for an Upgrade header that is not websocket.
RefuseStream(s) ==
  /\ client[s] = "new"
  /\ client' = [client EXCEPT ![s] = "refused"]
  /\ UNCHANGED <<wsConnections, sent, got, wsVars, headscaleVars>>

OpenStream(s) ==
  /\ client[s] = "new"
  /\ tunnel # None
  /\ wsConnections' = wsConnections \cup {s}
  /\ client' = [client EXCEPT ![s] = "open"]
  /\ Tell([type |-> "ws_open", stream |-> s])
  /\ UNCHANGED <<sent, got, wsDown, headscaleVars>>

\* The send of ws_open throws: the entry stays, with no listener to remove it.
OpenThrows(s) ==
  /\ client[s] = "new"
  /\ tunnel # None /\ tunnel # side
  /\ wsConnections' = wsConnections \cup {s}
  /\ client' = [client EXCEPT ![s] = "refused"]
  /\ UNCHANGED <<sent, got, wsVars, headscaleVars>>

\* The message listener; and a version that awaits the frame's bytes, so that
\* a later frame may be sent first.
ClientFrameAwaited(s) ==
  /\ client[s] = "open"
  /\ sent[s] < MaxFrames
  /\ sent' = [sent EXCEPT ![s] = @ + 1]
  /\ \E i \in 0 .. Len(wsUp) :
       wsUp' = IF tunnel # None /\ tunnel = side
                 THEN SubSeq(wsUp, 1, i)
                        \o <<[type |-> "ws_data", stream |-> s, frame |-> sent'[s]]>>
                        \o SubSeq(wsUp, i + 1, Len(wsUp))
                 ELSE wsUp
  /\ UNCHANGED <<wsConnections, client, got, wsDown, headscaleVars>>

ClientFrame(s) ==
  /\ client[s] = "open"
  /\ sent[s] < MaxFrames
  /\ sent' = [sent EXCEPT ![s] = @ + 1]
  /\ Tell([type |-> "ws_data", stream |-> s, frame |-> sent'[s]])
  /\ UNCHANGED <<wsConnections, client, got, wsDown, headscaleVars>>

ClientCloses(s) ==
  /\ client[s] = "open"
  /\ client' = [client EXCEPT ![s] = "closing"]
  /\ UNCHANGED <<wsConnections, sent, got, wsVars, headscaleVars>>

\* The close listener, after either end has closed the socket; and the slip of
\* not telling the sidecar.
StreamClosedSilently(s) ==
  /\ client[s] = "closing"
  /\ client' = [client EXCEPT ![s] = "closed"]
  /\ wsConnections' = wsConnections \ {s}
  /\ UNCHANGED <<sent, got, wsVars, headscaleVars>>

StreamClosed(s) ==
  /\ client[s] = "closing"
  /\ client' = [client EXCEPT ![s] = "closed"]
  /\ wsConnections' = wsConnections \ {s}
  /\ Tell([type |-> "ws_close", stream |-> s])
  /\ UNCHANGED <<sent, got, wsDown, headscaleVars>>

\* handleTunnelMessage for the next message of a stream, on a connection whose
\* close event has not come.
Arrives(s, type) ==
  /\ wsDown[s] # <<>> /\ Head(wsDown[s]) = type
  /\ conn[openedOn[s]] = "open"
  /\ wsDown' = [wsDown EXCEPT ![s] = Tail(@)]

ReceiveFrame(s) ==
  /\ Arrives(s, "ws_data")
  /\ got' = [got EXCEPT ![s] = @ \/ (s \in wsConnections /\ client[s] = "open")]
  /\ UNCHANGED <<wsConnections, client, sent, wsUp, headscaleVars>>

\* ws_close: the socket is closed and the entry removed; and the slip of only
\* removing it.
ReceiveCloseDropped(s) ==
  /\ Arrives(s, "ws_close")
  /\ wsConnections' = wsConnections \ {s}
  /\ UNCHANGED <<client, sent, got, wsUp, headscaleVars>>

ReceiveClose(s) ==
  /\ Arrives(s, "ws_close")
  /\ wsConnections' = wsConnections \ {s}
  /\ client' = IF s \in wsConnections /\ client[s] = "open"
                 THEN [client EXCEPT ![s] = "closing"]
                 ELSE client
  /\ UNCHANGED <<sent, got, wsUp, headscaleVars>>

-----------------------------------------------------------------------------
(* The sidecar *)

\* sendWsData and sendWsClose, on the connection the stream came by.
Answer(s, type) ==
  wsDown' = IF openedOn[s] = side /\ conn[side] = "open"
              THEN [wsDown EXCEPT ![s] = Append(@, type)]
              ELSE wsDown

Reads(type, s) ==
  /\ side # None
  /\ wsUp # <<>> /\ Head(wsUp).type = type /\ Head(wsUp).stream = s
  /\ wsUp' = Tail(wsUp)

\* ws_open starts a goroutine, which dials Headscale and registers the stream,
\* or fails without a word.
SidecarReadsOpen(s) ==
  /\ Reads("ws_open", s)
  /\ streamConn' = [streamConn EXCEPT ![s] = "opening"]
  /\ openedOn' = [openedOn EXCEPT ![s] = side]
  /\ UNCHANGED <<objectVars, wsDown, upstream, answered>>

HandleWsOpen(s) ==
  /\ streamConn[s] = "opening"
  /\ \E outcome \in {"registered", "failed"} :
       streamConn' = [streamConn EXCEPT ![s] = outcome]
  /\ UNCHANGED <<objectVars, wsVars, openedOn, upstream, answered>>

\* handleWsData and handleWsClose find the stream by its identifier alone, on
\* whatever connection the message came; an unknown one is ignored.
HandleWsData(s) ==
  /\ Reads("ws_data", s)
  /\ upstream' = IF streamConn[s] = "registered"
                   THEN [upstream EXCEPT ![s] = Append(@, Head(wsUp).frame)]
                   ELSE upstream
  /\ UNCHANGED <<objectVars, wsDown, streamConn, openedOn, answered>>

HandleWsClose(s) ==
  /\ Reads("ws_close", s)
  /\ streamConn' = IF streamConn[s] = "registered"
                     THEN [streamConn EXCEPT ![s] = "dropped"]
                     ELSE streamConn
  /\ UNCHANGED <<objectVars, wsDown, openedOn, upstream, answered>>

\* The reader goroutine passes on what Headscale sends, and the end of it.
HeadscaleSends(s) ==
  /\ streamConn[s] = "registered"
  /\ answered[s] < MaxAnswers
  /\ answered' = [answered EXCEPT ![s] = @ + 1]
  /\ Answer(s, "ws_data")
  /\ UNCHANGED <<objectVars, wsUp, streamConn, openedOn, upstream>>

ReaderEnds(s) ==
  /\ streamConn[s] \in {"registered", "dropped"}
  /\ streamConn' = [streamConn EXCEPT ![s] = "ended"]
  /\ Answer(s, "ws_close")
  /\ UNCHANGED <<objectVars, wsUp, openedOn, upstream, answered>>

-----------------------------------------------------------------------------
(* What the tunnel's steps do to its streams *)

\* The messages to the sidecar are lost with the connection. A restart takes
\* the sidecar's streams along, a reconnect does not.
SidecarLeavesStreams ==
  /\ SidecarLeaves
  /\ wsUp' = <<>>
  /\ \/ handling' = handling /\ UNCHANGED streamConn
     \/ handling' = {} /\ streamConn' = [s \in Stream |-> "ended"]
  /\ UNCHANGED <<objectVars, wsDown, openedOn, upstream, answered>>

CloseEventStreams(c) ==
  /\ CloseEvent(c)
  /\ wsDown' = [s \in Stream |-> IF openedOn[s] = c THEN <<>> ELSE wsDown[s]]
  /\ UNCHANGED <<objectVars, wsUp, headscaleVars>>

\* The clients' sockets go with the object.
EvictStreams ==
  /\ Evict
  /\ wsConnections' = {}
  /\ client' = [s \in Stream |-> IF client[s] = "new" THEN "new" ELSE "closed"]
  /\ wsUp' = <<>>
  /\ wsDown' = [s \in Stream |-> <<>>]
  /\ UNCHANGED <<sent, got, headscaleVars>>

ObjectStep(s) ==
  \/ RefuseStream(s) \/ OpenStream(s) \/ OpenThrows(s) \/ ClientFrame(s)
  \/ ClientCloses(s) \/ StreamClosed(s) \/ ReceiveFrame(s) \/ ReceiveClose(s)

SidecarStep(s) ==
  \/ SidecarReadsOpen(s) \/ HandleWsOpen(s) \/ HandleWsData(s) \/ HandleWsClose(s)
  \/ HeadscaleSends(s) \/ ReaderEnds(s)

\* The tunnel's steps that leave the streams alone.
TunnelStep ==
  \/ \E c \in Conn : SidecarDial(c) \/ AcceptTunnel(c) \/ RefuseTunnel(c)
  \/ \E m \in Message : MessageStep(m)
  \/ \E m \in Response : ResponseStep(m)
  \/ \E r \in Request : RequestStep(r)
  \/ SidecarNotices

StreamNext ==
  \/ TunnelStep /\ UNCHANGED streamVars
  \/ SidecarLeavesStreams
  \/ \E c \in Conn : CloseEventStreams(c)
  \/ EvictStreams
  \/ \E s \in Stream : (ObjectStep(s) \/ SidecarStep(s)) /\ UNCHANGED vars

\* Besides the tunnel's fairness: events are dispatched, and the sidecar's loop
\* and goroutines run. Nothing is asked of clients or of Headscale.
StreamFairness ==
  /\ Fairness
  /\ \A s \in Stream :
       /\ WF_allVars(StreamClosed(s) /\ UNCHANGED vars)
       /\ WF_allVars((ReceiveFrame(s) \/ ReceiveClose(s)) /\ UNCHANGED vars)
       /\ WF_allVars((SidecarReadsOpen(s) \/ HandleWsData(s) \/ HandleWsClose(s)) /\ UNCHANGED vars)
       /\ WF_allVars(HandleWsOpen(s) /\ UNCHANGED vars)

StreamSpec == StreamInit /\ [][StreamNext]_allVars

FairStreamSpec == StreamSpec /\ StreamFairness

-----------------------------------------------------------------------------
\* The object's map and its sockets agree, whatever order closes by the client,
\* by Headscale and by evictions come in: an open socket is found in the map
\* unless the sidecar ended its stream, and a closed one never is. Only an
\* upgrade whose ws_open could not be sent leaves an entry behind.
StreamsTracked ==
  \A s \in Stream :
    /\ client[s] = "open" => s \in wsConnections
    /\ client[s] \in {"new", "closed"} => s \notin wsConnections

\* Headscale receives the frames of a stream in the order sent and none twice,
\* across reconnects too, where a stream goes on over the next tunnel. While no
\* connection has been lost none is missing after the first: only frames that
\* overtake handleWsOpen are dropped.
FramesOrdered ==
  \A s \in Stream : \A i \in 2 .. Len(upstream[s]) :
    /\ upstream[s][i - 1] < upstream[s][i]
    /\ failures = 0 => upstream[s][i] = upstream[s][i - 1] + 1

\* A client that has heard from Headscale closes: the sidecar drops the stream,
\* unless a connection was lost.
ClientCloseArrives ==
  \A s \in Stream :
    client[s] = "closed" /\ got[s] ~> streamConn[s] # "registered" \/ failures > 0

\* The end of a stream at Headscale closes the client's socket, unless a
\* connection was lost.
HeadscaleCloseArrives ==
  \A s \in Stream :
    streamConn[s] = "ended" ~> client[s] \in {"closed", "refused"} \/ failures > 0

=============================================================================
