---------------------------- MODULE TunnelStreams ----------------------------
(***************************************************************************)
(* One TS2021 stream through the tunnel: handleStreamUpgrade,              *)
(* relayClientToTunnel and readTunnel's stream messages at the relay,      *)
(* handleWsOpen, handleWsData and handleWsClose at the sidecar. Streams    *)
(* share the tunnel connection and nothing else.                           *)
(*                                                                         *)
(* Each direction of the tunnel is first in, first out for one stream,     *)
(* whose messages one goroutine at a time writes. The sidecar's loop       *)
(* handles ws_data and ws_close in place, but starts a goroutine for       *)
(* ws_open. A chunk is what one Read returns, numbered in its direction;   *)
(* Headscale's first chunk is its 101 response, and the client sends       *)
(* nothing on the stream before it has that.                               *)
(***************************************************************************)
EXTENDS Naturals, Sequences

CONSTANT MaxChunks  \* bound on the chunks sent in each direction

ASSUME ChunksAssumption == MaxChunks \in Nat \ {0}

VARIABLES
  client,       \* the client: new, waiting for the 101, talking, closed
  sent,         \* chunks the client has sent
  clientBuf,    \* chunks in the client's connection, unread by the relay
  got,          \* chunks the client has received
  stream,       \* relay: streams[id] is there and its connection open
  pump,         \* relay: where relayClientToTunnel is
  tunnelUp,     \* the tunnel connection works
  toSidecar,    \* tunnel messages to the sidecar
  toRelay,      \* tunnel messages to the relay
  open,         \* sidecar: where handleWsOpen and then its reader goroutine are
  streamConn,   \* sidecar: streamConns[id] is there
  headscale,    \* the connection to Headscale: none, open, closed by it, dropped by the sidecar
  answered,     \* chunks Headscale has sent
  headscaleBuf, \* chunks in Headscale's connection, unread by the sidecar
  upstream      \* chunks Headscale has received

clientVars == <<client, sent, clientBuf, got>>
relayVars == <<stream, pump>>
tunnelVars == <<tunnelUp, toSidecar, toRelay>>
sidecarVars == <<open, streamConn>>
headscaleVars == <<headscale, answered, headscaleBuf, upstream>>
vars == <<clientVars, relayVars, tunnelVars, sidecarVars, headscaleVars>>

Data(n) == [type |-> "ws_data", chunk |-> n]
WsOpen == [type |-> "ws_open"]
WsClose == [type |-> "ws_close"]

Init ==
  /\ client = "new" /\ sent = 0 /\ clientBuf = <<>> /\ got = <<>>
  /\ stream = FALSE /\ pump = "none"
  /\ tunnelUp = TRUE /\ toSidecar = <<>> /\ toRelay = <<>>
  /\ open = "none" /\ streamConn = FALSE
  /\ headscale = "none" /\ answered = 0 /\ headscaleBuf = <<>> /\ upstream = <<>>

\* tunnel.send, or sendWsData and sendWsClose: lost when the tunnel is gone.
Sent(queue, m) == IF tunnelUp THEN Append(queue, m) ELSE queue

Receives(queue, type) == queue # <<>> /\ Head(queue).type = type

-----------------------------------------------------------------------------
(* The client and the relay *)

\* handleStreamUpgrade: the connection is hijacked, the stream registered,
\* ws_open sent and the pump started. Without a tunnel it is 503, and on a dead
\* one that is still in the map the send may fail, or be lost unnoticed.
StreamUpgrade ==
  /\ client = "new"
  /\ \/ /\ client' = "waiting"
        /\ stream' = TRUE
        /\ pump' = "running"
     \/ /\ ~tunnelUp
        /\ client' = "closed"
        /\ UNCHANGED relayVars
  /\ toSidecar' = Sent(toSidecar, WsOpen)
  /\ UNCHANGED <<sent, clientBuf, got, tunnelUp, toRelay, sidecarVars, headscaleVars>>

ClientSends ==
  /\ client = "talking"
  /\ sent < MaxChunks
  /\ sent' = sent + 1
  /\ clientBuf' = Append(clientBuf, sent')
  /\ UNCHANGED <<client, got, relayVars, tunnelVars, sidecarVars, headscaleVars>>

ClientCloses ==
  /\ client \in {"waiting", "talking"}
  /\ client' = "closed"
  /\ UNCHANGED <<sent, clientBuf, got, relayVars, tunnelVars, sidecarVars, headscaleVars>>

\* relayClientToTunnel reads a chunk and sends it on; if that fails, as it may
\* on a dead tunnel, it returns and removeStream closes the connection.
PumpForwards ==
  /\ pump = "running" /\ stream
  /\ clientBuf # <<>>
  /\ toSidecar' = Sent(toSidecar, Data(Head(clientBuf)))
  /\ clientBuf' = Tail(clientBuf)
  /\ \/ UNCHANGED <<client, relayVars>>
     \/ ~tunnelUp /\ pump' = "done" /\ stream' = FALSE /\ client' = "closed"
  /\ UNCHANGED <<sent, got, tunnelUp, toRelay, sidecarVars, headscaleVars>>

\* Its Read fails, after the client closed or removeStream did: it tells the
\* sidecar and removes the stream; and the slip of not telling.
PumpEndsSilently ==
  /\ pump = "running"
  /\ ~stream \/ (client = "closed" /\ clientBuf = <<>>)
  /\ pump' = "done" /\ stream' = FALSE
  /\ UNCHANGED <<clientVars, tunnelVars, sidecarVars, headscaleVars>>

PumpEnds ==
  /\ pump = "running"
  /\ ~stream \/ (client = "closed" /\ clientBuf = <<>>)
  /\ toSidecar' = Sent(toSidecar, WsClose)
  /\ pump' = "done" /\ stream' = FALSE
  /\ UNCHANGED <<clientVars, tunnelUp, toRelay, sidecarVars, headscaleVars>>

\* readTunnel writes a chunk to the client, if the stream is still there; and
\* the slip of writing each chunk from a goroutine of its own.
ReadDataConcurrently ==
  \E i \in DOMAIN toRelay :
    /\ toRelay[i].type = "ws_data"
    /\ toRelay' = SubSeq(toRelay, 1, i - 1) \o SubSeq(toRelay, i + 1, Len(toRelay))
    /\ IF stream /\ client # "closed"
         THEN got' = Append(got, toRelay[i].chunk) /\ client' = "talking"
         ELSE UNCHANGED <<got, client>>
    /\ UNCHANGED <<sent, clientBuf, relayVars, tunnelUp, toSidecar, sidecarVars, headscaleVars>>

ReadData ==
  /\ Receives(toRelay, "ws_data")
  /\ toRelay' = Tail(toRelay)
  /\ IF stream /\ client # "closed"
       THEN got' = Append(got, Head(toRelay).chunk) /\ client' = "talking"
       ELSE UNCHANGED <<got, client>>
  /\ UNCHANGED <<sent, clientBuf, relayVars, tunnelUp, toSidecar, sidecarVars, headscaleVars>>

\* readTunnel's ws_close: removeStream.
ReadClose ==
  /\ Receives(toRelay, "ws_close")
  /\ toRelay' = Tail(toRelay)
  /\ stream' = FALSE
  /\ client' = "closed"
  /\ UNCHANGED <<sent, clientBuf, got, pump, tunnelUp, toSidecar, sidecarVars, headscaleVars>>

-----------------------------------------------------------------------------
(* The sidecar and Headscale *)

\* ws_open is handled in a goroutine of its own.
SidecarReadsOpen ==
  /\ Receives(toSidecar, "ws_open")
  /\ toSidecar' = Tail(toSidecar)
  /\ open' = "dialing"
  /\ UNCHANGED <<clientVars, relayVars, tunnelUp, toRelay, streamConn, headscaleVars>>

\* handleWsOpen dials Headscale and writes the raw request.
OpenConnects ==
  /\ open = "dialing"
  /\ open' = "connected"
  /\ headscale' = "open"
  /\ UNCHANGED <<clientVars, relayVars, tunnelVars, streamConn, answered, headscaleBuf, upstream>>

\* Or one of its steps fails, and it returns without a word to the relay.
OpenFails ==
  /\ open = "dialing"
  /\ open' = "failed"
  /\ UNCHANGED <<clientVars, relayVars, tunnelVars, streamConn, headscaleVars>>

\* It registers the stream and starts the reader goroutine.
OpenRegisters ==
  /\ open = "connected"
  /\ open' = "registered"
  /\ streamConn' = TRUE
  /\ UNCHANGED <<clientVars, relayVars, tunnelVars, headscaleVars>>

\* The reader goroutine runs; and the slip of starting it before the stream is
\* registered.
ReadingEarly == open \in {"connected", "registered"}

Reading == open = "registered"

\* The reader goroutine forwards what it reads from Headscale.
ReaderForwards ==
  /\ Reading
  /\ headscale # "dropped"
  /\ headscaleBuf # <<>>
  /\ toRelay' = Sent(toRelay, Data(Head(headscaleBuf)))
  /\ headscaleBuf' = Tail(headscaleBuf)
  /\ UNCHANGED <<clientVars, relayVars, tunnelUp, toSidecar, sidecarVars, headscale, answered,
                 upstream>>

\* Its Read fails: ws_close to the relay, the stream removed; and the slip of
\* only removing it.
ReaderEndsSilently ==
  /\ open = "registered"
  /\ headscale = "dropped" \/ (headscale = "closed" /\ headscaleBuf = <<>>)
  /\ open' = "ended"
  /\ streamConn' = FALSE
  /\ UNCHANGED <<clientVars, relayVars, tunnelVars, headscaleVars>>

ReaderEnds ==
  /\ open = "registered"
  /\ headscale = "dropped" \/ (headscale = "closed" /\ headscaleBuf = <<>>)
  /\ toRelay' = Sent(toRelay, WsClose)
  /\ open' = "ended"
  /\ streamConn' = FALSE
  /\ UNCHANGED <<clientVars, relayVars, tunnelUp, toSidecar, headscaleVars>>

\* handleWsData: a chunk for a stream that is not registered is dropped.
SidecarReadsData ==
  /\ Receives(toSidecar, "ws_data")
  /\ toSidecar' = Tail(toSidecar)
  /\ upstream' = IF streamConn /\ headscale = "open"
                   THEN Append(upstream, Head(toSidecar).chunk)
                   ELSE upstream
  /\ UNCHANGED <<clientVars, relayVars, tunnelUp, toRelay, sidecarVars, headscale, answered,
                 headscaleBuf>>

\* handleWsClose: a registered stream is removed and its connection closed;
\* for any other the message is forgotten.
SidecarReadsClose ==
  /\ Receives(toSidecar, "ws_close")
  /\ toSidecar' = Tail(toSidecar)
  /\ streamConn' = FALSE
  /\ headscale' = IF streamConn THEN "dropped" ELSE headscale
  /\ UNCHANGED <<clientVars, relayVars, tunnelUp, toRelay, open, answered, headscaleBuf, upstream>>

HeadscaleSends ==
  /\ headscale = "open"
  /\ answered < MaxChunks
  /\ answered' = answered + 1
  /\ headscaleBuf' = Append(headscaleBuf, answered')
  /\ UNCHANGED <<clientVars, relayVars, tunnelVars, sidecarVars, headscale, upstream>>

HeadscaleCloses ==
  /\ headscale = "open"
  /\ headscale' = "closed"
  /\ UNCHANGED <<clientVars, relayVars, tunnelVars, sidecarVars, answered, headscaleBuf, upstream>>

\* The tunnel connection is lost with all that is in it. Neither side looks for
\* the streams it carried.
TunnelDies ==
  /\ tunnelUp
  /\ tunnelUp' = FALSE
  /\ toSidecar' = <<>>
  /\ toRelay' = <<>>
  /\ UNCHANGED <<clientVars, relayVars, sidecarVars, headscaleVars>>

RelayStep == StreamUpgrade \/ PumpForwards \/ PumpEnds \/ ReadData \/ ReadClose

SidecarStep ==
  \/ SidecarReadsOpen \/ SidecarReadsData \/ SidecarReadsClose
  \/ OpenConnects \/ OpenFails \/ OpenRegisters
  \/ ReaderForwards \/ ReaderEnds

Environment == ClientSends \/ ClientCloses \/ HeadscaleSends \/ HeadscaleCloses \/ TunnelDies

Next == RelayStep \/ SidecarStep \/ Environment

\* Each goroutine of the relay and of the sidecar is scheduled: the relay's two
\* readers, the sidecar's tunnel loop, and the goroutine of this stream.
Fairness ==
  /\ WF_vars(PumpForwards \/ PumpEnds)
  /\ WF_vars(ReadData \/ ReadClose)
  /\ WF_vars(SidecarReadsOpen \/ SidecarReadsData \/ SidecarReadsClose)
  /\ WF_vars(OpenConnects \/ OpenFails \/ OpenRegisters)
  /\ WF_vars(ReaderForwards \/ ReaderEnds)

Spec == Init /\ [][Next]_vars /\ Fairness

-----------------------------------------------------------------------------
InOrder(chunks) == \A i \in DOMAIN chunks : chunks[i] = i

\* Headscale receives what the client sent, in order and without a gap, until
\* the stream ends: a chunk never overtakes handleWsOpen's goroutine, although
\* the sidecar drops data of streams it has not registered, because the reader
\* that passes the 101 on to the client starts after the registration.
UpstreamInOrder == InOrder(upstream)

\* The client receives what Headscale sent, in order and without a gap.
DownstreamInOrder == InOrder(got)

\* Once the client has had its 101, its close reaches Headscale, unless the
\* tunnel is lost: no connection to Headscale is left behind.
ClientCloseArrives ==
  (client = "closed" /\ got # <<>>) ~> (headscale # "open" \/ ~tunnelUp)

\* A close by Headscale reaches the client, after everything it had sent,
\* unless the tunnel is lost.
HeadscaleCloseArrives ==
  (headscale = "closed") ~> (client = "closed" \/ ~tunnelUp)

=============================================================================
