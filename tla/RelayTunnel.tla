----------------------------- MODULE RelayTunnel -----------------------------
(***************************************************************************)
(* One fingerprint's tunnel: the relay's handleTunnel, readTunnel and      *)
(* forwardHTTP, the sidecar's runTunnel loop and handleRequest, and the    *)
(* WebSocket connections between them. Tunnels of other fingerprints share *)
(* nothing with it but the mutex and the space of random request ids.      *)
(*                                                                         *)
(* A Conn is one dial by the sidecar; an id is dialled again only when no  *)
(* goroutine holds it any more. Every read-modify-write under Server.mu is *)
(* one action. The messages of one connection in one direction are a set:  *)
(* each is written by a goroutine of its own, so any order can occur.      *)
(* The relay's own pings and their pongs only move its read deadline, and  *)
(* make reads fail on a connection whose network was cut. The sidecar's    *)
(* pings are answered by readTunnel itself, in a write that waits as long  *)
(* as another one on that connection does.                                 *)
(***************************************************************************)
EXTENDS Naturals

CONSTANTS
  Conn,         \* WebSocket connections
  Request,      \* plain HTTP requests from clients
  MaxFailures,  \* bound on network cuts, sidecar crashes and stalls
  None

ASSUME FailuresAssumption == MaxFailures \in Nat

VARIABLES
  tunnel,       \* relay: Server.tunnels[fingerprint]
  relayEnd,     \* relay: state of the connection's websocket
  reader,       \* relay: where the connection's handleTunnel/readTunnel is
  delivery,     \* relay: the request whose respCh the reader has taken
  pending,      \* relay: Server.pending
  respCh,       \* relay: content of each request's channel, capacity 1
  req,          \* relay: where each request's forwardHTTP is
  via,          \* relay: the tunnel each forwardHTTP captured
  reply,        \* relay: what the client was told
  sideConn,     \* sidecar: the connection runTunnel works on
  sideEnd,      \* sidecar: state of the connection's websocket
  handling,     \* sidecar: handleRequest goroutines: connection, request, result
  toSidecar,    \* request messages in flight
  toRelay,      \* response messages in flight
  cut,          \* connections whose packets are silently lost
  served,       \* history: how often Headscale executed each request
  failures      \* failures so far

relayVars == <<tunnel, relayEnd, reader, delivery>>
requestVars == <<pending, respCh, req, via, reply>>
sidecarVars == <<sideConn, sideEnd, handling>>
networkVars == <<toSidecar, toRelay, cut>>
vars == <<relayVars, requestVars, sidecarVars, networkVars, served, failures>>

Result == {"headscale", "bad gateway"}

Reply == Result \cup {"not connected", "write failed", "timeout"}

RequestMessage == [conn : Conn, request : Request]

ResponseMessage == [conn : Conn, request : Request, result : Result]

\* A handleRequest goroutine: its result is None until Headscale has answered.
Handling == [conn : Conn, request : Request, result : Result \cup {None}]

\* What readTunnel holds between taking a channel and sending on it.
Delivery == [request : Request, result : Result]

ASSUME NoneAssumption == None \notin Conn /\ None \notin Reply /\ None \notin Delivery

Init ==
  /\ tunnel = None
  /\ relayEnd = [c \in Conn |-> "closed"]
  /\ reader = [c \in Conn |-> "none"]
  /\ delivery = [c \in Conn |-> None]
  /\ pending = {}
  /\ respCh = [r \in Request |-> None]
  /\ req = [r \in Request |-> "new"]
  /\ via = [r \in Request |-> None]
  /\ reply = [r \in Request |-> None]
  /\ sideConn = None
  /\ sideEnd = [c \in Conn |-> "closed"]
  /\ handling = {}
  /\ toSidecar = {}
  /\ toRelay = {}
  /\ cut = {}
  /\ served = [r \in Request |-> 0]
  /\ failures = 0

\* Where readTunnel can be while its loop runs.
Looping == {"reading", "delivering", "ponging"}

On(c, messages) == {m \in messages : m.conn = c}

\* What one end writes now reaches the other end's socket buffer.
Delivers(c) == relayEnd[c] = "open" /\ sideEnd[c] # "closed" /\ c \notin cut

-----------------------------------------------------------------------------
(* Sidecar: the loop of main around runTunnel *)

\* No goroutine of either side holds c any more.
Unheld(c) ==
  /\ reader[c] \in {"none", "done"}
  /\ tunnel # c
  /\ sideEnd[c] = "closed"
  /\ On(c, handling) = {}
  /\ \A r \in Request : via[r] = c => req[r] = "replied"

\* After a failure and the reconnect delay: dial, always the same tunnel URL.
SidecarDial(c) ==
  /\ sideConn = None
  /\ Unheld(c)
  /\ sideConn' = c
  /\ sideEnd' = [sideEnd EXCEPT ![c] = "dialing"]
  /\ reader' = [reader EXCEPT ![c] = "none"]
  /\ cut' = cut \ {c}
  /\ UNCHANGED <<tunnel, relayEnd, delivery, requestVars, handling, toSidecar, toRelay,
                 served, failures>>

\* The relay's 101 arrives and Dial returns.
SidecarConnected(c) ==
  /\ sideConn = c
  /\ sideEnd[c] = "dialing"
  /\ relayEnd[c] = "open"
  /\ c \notin cut
  /\ sideEnd' = [sideEnd EXCEPT ![c] = "open"]
  /\ UNCHANGED <<relayVars, requestVars, sideConn, handling, networkVars, served, failures>>

\* Dial or ReadJSON fails and runTunnel returns: the relay closed its end, or
\* the network is gone and TCP gave up. The goroutines it started live on.
SidecarGivesUp(c) ==
  /\ sideConn = c
  /\ sideEnd[c] # "stalled"
  /\ c \in cut \/ (relayEnd[c] = "closed" /\ reader[c] # "none")
  /\ sideConn' = None
  /\ sideEnd' = [sideEnd EXCEPT ![c] = "closed"]
  /\ toSidecar' = toSidecar \ On(c, toSidecar)
  /\ UNCHANGED <<relayVars, requestVars, handling, toRelay, cut, served, failures>>

\* runTunnel's loop hands ws_data to Headscale in place, where its write waits
\* for Headscale to read; the ticker of pings goes on in a goroutine of its own.
SidecarStalls(c) ==
  /\ sideEnd[c] = "open"
  /\ failures < MaxFailures
  /\ failures' = failures + 1
  /\ sideEnd' = [sideEnd EXCEPT ![c] = "stalled"]
  /\ UNCHANGED <<relayVars, requestVars, sideConn, handling, networkVars, served>>

SidecarResumes(c) ==
  /\ sideEnd[c] = "stalled"
  /\ sideEnd' = [sideEnd EXCEPT ![c] = "open"]
  /\ UNCHANGED <<relayVars, requestVars, sideConn, handling, networkVars, served, failures>>

\* runTunnel reads a request and starts handleRequest on this connection.
SidecarReads(c, r) ==
  /\ sideEnd[c] = "open"
  /\ [conn |-> c, request |-> r] \in toSidecar
  /\ toSidecar' = toSidecar \ {[conn |-> c, request |-> r]}
  /\ handling' = handling \cup {[conn |-> c, request |-> r, result |-> None]}
  /\ UNCHANGED <<relayVars, requestVars, sideConn, sideEnd, toRelay, cut, served, failures>>

\* forwardToHeadscale returns: a response, or an error that handleRequest turns
\* into a 502, whether or not Headscale executed the request.
Forwarded(c, r, result) ==
  /\ [conn |-> c, request |-> r, result |-> None] \in handling
  /\ handling' = (handling \ {[conn |-> c, request |-> r, result |-> None]})
                   \cup {[conn |-> c, request |-> r, result |-> result]}
  /\ \E executed \in IF result = "headscale" THEN {1} ELSE {0, 1} :
       served' = [served EXCEPT ![r] = @ + executed]
  /\ UNCHANGED <<relayVars, requestVars, sideConn, sideEnd, networkVars, failures>>

\* handleRequest writes the response on the connection it was started for, in
\* vain when that connection is gone, and returns.
SidecarResponds(c, r, result) ==
  /\ [conn |-> c, request |-> r, result |-> result] \in handling
  /\ handling' = handling \ {[conn |-> c, request |-> r, result |-> result]}
  /\ toRelay' = IF Delivers(c)
                  THEN toRelay \cup {[conn |-> c, request |-> r, result |-> result]}
                  ELSE toRelay
  /\ UNCHANGED <<relayVars, requestVars, sideConn, sideEnd, toSidecar, cut, served, failures>>

\* The sidecar process dies with all its goroutines; requests it had passed on
\* may still be executed by Headscale.
SidecarCrash ==
  /\ failures < MaxFailures
  /\ failures' = failures + 1
  /\ sideConn' = None
  /\ sideEnd' = [c \in Conn |-> "closed"]
  /\ handling' = {}
  /\ toSidecar' = {}
  /\ \E passedOn \in SUBSET {r \in Request : \E m \in handling : m.request = r /\ m.result = None} :
       served' = [r \in Request |-> IF r \in passedOn THEN served[r] + 1 ELSE served[r]]
  /\ UNCHANGED <<relayVars, requestVars, toRelay, cut>>

\* The network silently stops carrying packets of one connection.
Cut(c) ==
  /\ failures < MaxFailures
  /\ sideEnd[c] # "closed" \/ relayEnd[c] = "open"
  /\ c \notin cut
  /\ failures' = failures + 1
  /\ cut' = cut \cup {c}
  /\ UNCHANGED <<relayVars, requestVars, sidecarVars, toSidecar, toRelay, served>>

-----------------------------------------------------------------------------
(* Relay: handleTunnel and readTunnel *)

\* handleTunnel, the secret checked, completes the WebSocket upgrade.
RelayUpgrade(c) ==
  /\ sideEnd[c] = "dialing"
  /\ reader[c] = "none"
  /\ c \notin cut
  /\ relayEnd' = [relayEnd EXCEPT ![c] = "open"]
  /\ reader' = [reader EXCEPT ![c] = "upgraded"]
  /\ UNCHANGED <<tunnel, delivery, requestVars, sidecarVars, networkVars, served, failures>>

\* handleTunnel's critical section: close the old tunnel, install this one;
\* and the slip of leaving the old one open.
InstallKeepsOld(c) ==
  /\ reader[c] = "upgraded"
  /\ tunnel' = c
  /\ reader' = [reader EXCEPT ![c] = "reading"]
  /\ UNCHANGED <<relayEnd, delivery, requestVars, sidecarVars, networkVars, served, failures>>

Install(c) ==
  /\ reader[c] = "upgraded"
  /\ relayEnd' = [o \in Conn |-> IF o = tunnel THEN "closed" ELSE relayEnd[o]]
  /\ tunnel' = c
  /\ reader' = [reader EXCEPT ![c] = "reading"]
  /\ UNCHANGED <<delivery, requestVars, sidecarVars, networkVars, served, failures>>

\* readTunnel reads a response and, under the lock, takes the channel waiting
\* for it out of pending; a response nobody waits for is dropped.
ReadResponse(c, r, result) ==
  /\ reader[c] = "reading"
  /\ [conn |-> c, request |-> r, result |-> result] \in toRelay
  /\ toRelay' = toRelay \ {[conn |-> c, request |-> r, result |-> result]}
  /\ pending' = pending \ {r}
  /\ IF r \in pending
       THEN /\ reader' = [reader EXCEPT ![c] = "delivering"]
            /\ delivery' = [delivery EXCEPT ![c] = [request |-> r, result |-> result]]
       ELSE UNCHANGED <<reader, delivery>>
  /\ UNCHANGED <<tunnel, relayEnd, respCh, req, via, reply, sidecarVars, toSidecar, cut,
                 served, failures>>

\* The send on the channel goes through: at once on a buffered channel with
\* room, only to a waiting receiver on an unbuffered one.
RoomUnbuffered(r) == respCh[r] = None /\ req[r] = "waiting"

Room(r) == respCh[r] = None

Deliver(c) ==
  /\ reader[c] = "delivering"
  /\ Room(delivery[c].request)
  /\ respCh' = [respCh EXCEPT ![delivery[c].request] = delivery[c].result]
  /\ delivery' = [delivery EXCEPT ![c] = None]
  /\ reader' = [reader EXCEPT ![c] = "reading"]
  /\ UNCHANGED <<tunnel, relayEnd, pending, req, via, reply, sidecarVars, networkVars,
                 served, failures>>

\* A write on c, or a wait for the mutex of one, ends: the peer takes the bytes,
\* the connection is closed or lost, or TCP gives up. It does not when the peer
\* is there but does not read, for no write has a deadline.
Returns(c) == sideEnd[c] # "stalled" \/ relayEnd[c] = "closed" \/ c \in cut

\* readTunnel reads a ping and sends the pong itself, which has to wait. One that
\* need not leaves no trace, and on a cut connection waiting in the write is no
\* different from waiting in the read.
ReadPing(c) ==
  /\ reader[c] = "reading"
  /\ ~Returns(c)
  /\ reader' = [reader EXCEPT ![c] = "ponging"]
  /\ UNCHANGED <<tunnel, relayEnd, delivery, requestVars, sidecarVars, networkVars, served,
                 failures>>

\* The pong is sent, or fails, which is ignored, and the loop reads on.
Pong(c) ==
  /\ reader[c] = "ponging"
  /\ Returns(c)
  /\ reader' = [reader EXCEPT ![c] = "reading"]
  /\ UNCHANGED <<tunnel, relayEnd, delivery, requestVars, sidecarVars, networkVars, served,
                 failures>>

\* ReadJSON fails: an end was closed, or the read deadline has passed, because
\* the connection was cut or while the pong was waiting.
ReadError(c) ==
  \/ reader[c] = "reading" /\ (relayEnd[c] = "closed" \/ sideEnd[c] = "closed" \/ c \in cut)
  \/ reader[c] = "ponging" /\ Returns(c)

\* readTunnel's loop returns; its deferred function closes the websocket; and
\* the slip of leaving the close until after the entry is retracted.
ReadFailsUnclosed(c) ==
  /\ ReadError(c)
  /\ reader' = [reader EXCEPT ![c] = "cleanup"]
  /\ toRelay' = toRelay \ On(c, toRelay)
  /\ UNCHANGED <<tunnel, relayEnd, delivery, requestVars, sidecarVars, toSidecar, cut, served,
                 failures>>

ReadFails(c) ==
  /\ ReadError(c)
  /\ reader' = [reader EXCEPT ![c] = "cleanup"]
  /\ relayEnd' = [relayEnd EXCEPT ![c] = "closed"]
  /\ toRelay' = toRelay \ On(c, toRelay)
  /\ UNCHANGED <<tunnel, delivery, requestVars, sidecarVars, toSidecar, cut, served, failures>>

\* The deferred function's critical section: the entry is retracted only if it
\* still points at this connection; and the earlier, unconditional delete.
RetractedAlways(c) == None

Retracted(c) == IF tunnel = c THEN None ELSE tunnel

Retract(c) ==
  /\ reader[c] = "cleanup"
  /\ tunnel' = Retracted(c)
  /\ reader' = [reader EXCEPT ![c] = "done"]
  /\ UNCHANGED <<relayEnd, delivery, requestVars, sidecarVars, networkVars, served, failures>>

-----------------------------------------------------------------------------
(* Relay: forwardHTTP *)

\* getTunnel: without one the client is told so at once; and the slip of using
\* what it returns unchecked.
ForwardLookupUnchecked(r) ==
  /\ req[r] = "new"
  /\ via' = [via EXCEPT ![r] = tunnel]
  /\ req' = [req EXCEPT ![r] = "body"]
  /\ UNCHANGED <<relayVars, pending, respCh, reply, sidecarVars, networkVars, served, failures>>

ForwardLookup(r) ==
  /\ req[r] = "new"
  /\ via' = [via EXCEPT ![r] = tunnel]
  /\ IF tunnel = None
       THEN /\ req' = [req EXCEPT ![r] = "replied"]
            /\ reply' = [reply EXCEPT ![r] = "not connected"]
       ELSE /\ req' = [req EXCEPT ![r] = "body"]
            /\ UNCHANGED reply
  /\ UNCHANGED <<relayVars, pending, respCh, sidecarVars, networkVars, served, failures>>

\* The body is read, at the client's pace, and the channel registered.
ForwardRegister(r) ==
  /\ req[r] = "body"
  /\ req' = [req EXCEPT ![r] = "sending"]
  /\ pending' = pending \cup {r}
  /\ UNCHANGED <<relayVars, respCh, via, reply, sidecarVars, networkVars, served, failures>>

\* tunnel.send succeeds: the message is on its way, or in a buffer whose
\* content will never arrive.
ForwardSend(r) ==
  /\ req[r] = "sending"
  /\ relayEnd[via[r]] = "open"
  /\ req' = [req EXCEPT ![r] = "waiting"]
  /\ toSidecar' = IF Delivers(via[r])
                    THEN toSidecar \cup {[conn |-> via[r], request |-> r]}
                    ELSE toSidecar
  /\ UNCHANGED <<relayVars, pending, respCh, via, reply, sidecarVars, toRelay, cut,
                 served, failures>>

\* clearPending and the error reply of forwardHTTP; and the slip of returning
\* without clearPending.
GivenUpLeaking(r, error) ==
  /\ pending' = pending
  /\ req' = [req EXCEPT ![r] = "replied"]
  /\ reply' = [reply EXCEPT ![r] = error]

GivenUp(r, error) ==
  /\ pending' = pending \ {r}
  /\ req' = [req EXCEPT ![r] = "replied"]
  /\ reply' = [reply EXCEPT ![r] = error]

\* tunnel.send fails on a connection that is closed or whose peer is gone.
ForwardSendFails(r) ==
  /\ req[r] = "sending"
  /\ ~Delivers(via[r])
  /\ GivenUp(r, "write failed")
  /\ UNCHANGED <<relayVars, respCh, via, sidecarVars, networkVars, served, failures>>

\* select: the response is there.
ForwardReply(r) ==
  /\ req[r] = "waiting"
  /\ respCh[r] # None
  /\ req' = [req EXCEPT ![r] = "replied"]
  /\ reply' = [reply EXCEPT ![r] = respCh[r]]
  /\ respCh' = [respCh EXCEPT ![r] = None]
  /\ UNCHANGED <<relayVars, pending, via, sidecarVars, networkVars, served, failures>>

\* select: 30 seconds have passed, possibly with the response there as well;
\* and a version that tries the request once more instead.
ForwardTimeoutResends(r) ==
  /\ req[r] = "waiting"
  /\ tunnel # None
  /\ via' = [via EXCEPT ![r] = tunnel]
  /\ req' = [req EXCEPT ![r] = "sending"]
  /\ UNCHANGED <<relayVars, pending, respCh, reply, sidecarVars, networkVars, served, failures>>

ForwardTimeout(r) ==
  /\ req[r] = "waiting"
  /\ GivenUp(r, "timeout")
  /\ UNCHANGED <<relayVars, respCh, via, sidecarVars, networkVars, served, failures>>

-----------------------------------------------------------------------------
ConnStep(c) ==
  \/ SidecarDial(c)
  \/ SidecarConnected(c)
  \/ SidecarGivesUp(c)
  \/ SidecarStalls(c)
  \/ SidecarResumes(c)
  \/ Cut(c)
  \/ RelayUpgrade(c)
  \/ Install(c)
  \/ Deliver(c)
  \/ ReadPing(c)
  \/ Pong(c)
  \/ ReadFails(c)
  \/ Retract(c)

RequestStep(r) ==
  \/ ForwardLookup(r)
  \/ ForwardRegister(r)
  \/ ForwardSend(r)
  \/ ForwardSendFails(r)
  \/ ForwardReply(r)
  \/ ForwardTimeout(r)

MessageStep(c, r) ==
  \/ SidecarReads(c, r)
  \/ \E result \in Result :
       \/ Forwarded(c, r, result)
       \/ SidecarResponds(c, r, result)
       \/ ReadResponse(c, r, result)

Next ==
  \/ SidecarCrash
  \/ \E c \in Conn : ConnStep(c)
  \/ \E r \in Request : RequestStep(r)
  \/ \E c \in Conn, r \in Request : MessageStep(c, r)

\* What the goroutine of a connection, and that of a request, does by itself.
ReaderRuns(c) ==
  \/ RelayUpgrade(c) \/ Install(c) \/ Deliver(c)
  \/ Pong(c) \/ ReadFails(c) \/ Retract(c)

ForwardRuns(r) ==
  \/ (ForwardSend(r) \/ ForwardSendFails(r)) /\ Returns(via[r])
  \/ ForwardTimeout(r)

\* The relay's goroutines are scheduled, its timers fire, and a write returns
\* unless the peer is there and does not read. Clients may never send a request,
\* or never finish its body; failures need not happen.
RelayFairness ==
  /\ \A c \in Conn : WF_vars(ReaderRuns(c))
  /\ \A r \in Request : WF_vars(ForwardRuns(r))

\* Headscale reads its streams or closes them, so the sidecar's loop goes on.
LoopGoesOn == \A c \in Conn : WF_vars(SidecarResumes(c))

\* The sidecar's container restarts, its goroutines are scheduled, forwarding
\* times out, and TCP gives up on a dead peer.
SidecarFairness ==
  /\ LoopGoesOn
  /\ WF_vars(\E c \in Conn : SidecarDial(c))
  /\ \A c \in Conn :
       /\ WF_vars(SidecarConnected(c) \/ SidecarGivesUp(c))
       /\ WF_vars(\E r \in Request, result \in Result :
                    Forwarded(c, r, result) \/ SidecarResponds(c, r, result))

Spec == Init /\ [][Next]_vars

RelayFairSpec == Spec /\ RelayFairness

FairSpec == RelayFairSpec /\ SidecarFairness

-----------------------------------------------------------------------------
\* The types of the relay's, the sidecar's and the network's state; a running
\* forwardHTTP holds a tunnel.
TypeOK ==
  /\ tunnel \in Conn \cup {None}
  /\ relayEnd \in [Conn -> {"open", "closed"}]
  /\ reader \in [Conn -> {"none", "upgraded", "cleanup", "done"} \cup Looping]
  /\ delivery \in [Conn -> Delivery \cup {None}]
  /\ pending \subseteq Request
  /\ respCh \in [Request -> Result \cup {None}]
  /\ req \in [Request -> {"new", "body", "sending", "waiting", "replied"}]
  /\ via \in [Request -> Conn \cup {None}]
  /\ \A r \in Request : req[r] \in {"body", "sending", "waiting"} => via[r] \in Conn
  /\ reply \in [Request -> Reply \cup {None}]
  /\ sideConn \in Conn \cup {None}
  /\ sideEnd \in [Conn -> {"dialing", "open", "stalled", "closed"}]
  /\ handling \subseteq Handling
  /\ toSidecar \subseteq RequestMessage
  /\ toRelay \subseteq ResponseMessage
  /\ cut \subseteq Conn
  /\ served \in [Request -> 0..1]
  /\ failures \in 0..MaxFailures

\* The tunnels map and the readers agree, whatever order reconnects, stale
\* upgrades and cleanups run in: a tunnel the relay still reads from on an open
\* connection is the one clients are routed to (a stale cleanup never strands
\* its live successor, and an old tunnel never stays open beside the new one),
\* and the routed tunnel always has a readTunnel that will retract it.
LiveTunnelRoutable ==
  /\ \A c \in Conn : reader[c] \in Looping /\ relayEnd[c] = "open" => tunnel = c
  /\ tunnel # None => reader[tunnel] \in Looping \cup {"cleanup"}

\* The pending map never leaks: an entry belongs to a forwardHTTP that is still
\* running, and only that call's own reply can be in its channel.
PendingOwned ==
  \A r \in pending : req[r] \in {"sending", "waiting"} /\ respCh[r] = None

\* readTunnel never blocks on handing a response over, even when the client's
\* timeout fired after the channel was taken out of pending: a blocked reader
\* would stop the tunnel for every client.
ReaderNeverBlocks ==
  \A c \in Conn : reader[c] = "delivering" => Room(delivery[c].request)

\* What clients are told is true across lost connections, crashes and late
\* answers: a request is executed at most once, a Headscale answer means it was
\* executed, and a client told "not connected" or "write failed" may retry,
\* because its request was not and never will be executed.
AnswersTruthful ==
  \A r \in Request :
    /\ served[r] <= 1
    /\ reply[r] = "headscale" => served[r] = 1
    /\ reply[r] \in {"not connected", "write failed"} => served[r] = 0

\* Every request that forwardHTTP has registered is answered, though its send may
\* wait behind a pong, or a reader with its pong behind the send, and the tunnel
\* may be lost in the meantime; provided that the sidecar's loop does not stay
\* stuck on a stream to Headscale: neither the 30-second timer nor the read
\* deadline covers a send to a sidecar that pings and does not read.
RequestsAnswered ==
  LoopGoesOn => \A r \in Request : req[r] = "sending" ~> req[r] = "replied"

\* Both ends hold the same working connection and clients are routed to it.
Healthy ==
  /\ tunnel # None
  /\ tunnel = sideConn
  /\ Delivers(tunnel)
  /\ sideEnd[tunnel] = "open"
  /\ reader[tunnel] \in Looping

\* Once failures stop, a sidecar that keeps redialling brings the tunnel up, and
\* it stays up.
Heals == SidecarFairness => <>[]Healthy

\* The relay and the sidecar implement TunnelService: the slot is the tunnels
\* entry, up while the relay holds that connection open, and no step of any
\* handler does to them what TunnelService does not allow.
Service == INSTANCE TunnelService
  WITH slot <- tunnel,
       up <- \E c \in Conn : tunnel = c /\ relayEnd[c] = "open",
       executed <- served,
       outcome <- reply

ImplementsService == Service!SSpec

=============================================================================
