------------------------------- MODULE TunnelDO -------------------------------
(***************************************************************************)
(* The Cloudflare relay's Durable Object of a fingerprint: acceptTunnel    *)
(* with its message and close listeners, and forwardToHeadscale, for plain *)
(* HTTP requests.                                                          *)
(*                                                                         *)
(* The object runs one event at a time up to the next await, so an action  *)
(* is what happens between two awaits. A Conn is one dial by the sidecar,  *)
(* which works on one connection at a time; once it has left one, messages *)
(* on it are lost and the object's close event for it comes at any later   *)
(* time. Of the sidecar only its request side is here.                     *)
(***************************************************************************)
EXTENDS Naturals

CONSTANTS
  Conn,         \* WebSocket connections
  Request,      \* plain HTTP requests from clients
  MaxFailures,  \* bound on lost connections, refused dials and evictions
  None

ASSUME FailuresAssumption == MaxFailures \in Nat

VARIABLES
  tunnel,           \* this.tunnel
  conn,             \* the object's end of each connection
  pendingRequests,  \* this.pendingRequests, each with its running timer
  req,              \* where each forwardToHeadscale is
  reply,            \* what its promise was settled with
  side,             \* sidecar: the connection it works on
  handling,         \* sidecar: handleRequest goroutines
  toSidecar,        \* request messages in flight
  toRelay,          \* response messages in flight
  served,           \* history: how often Headscale executed each request
  failures          \* failures so far

sidecarVars == <<side, handling, served>>
messageVars == <<toSidecar, toRelay>>
requestVars == <<pendingRequests, req, reply>>
vars == <<tunnel, conn, requestVars, sidecarVars, messageVars, failures>>

\* What a response of the sidecar's says: Headscale's answer, or its own 502.
Result == {"headscale", "bad gateway"}

\* What a promise is settled with: a response; "not sent" without a tunnel, a body
\* or a send that works; "lost" when the tunnel closes, the timer fires or the
\* object is gone.
Reply == Result \cup {"not sent", "lost"}

Message == [conn : Conn, request : Request]

Response == [conn : Conn, request : Request, result : Result]

ASSUME NoneAssumption == None \notin Conn /\ None \notin Reply

Init ==
  /\ tunnel = None
  /\ conn = [c \in Conn |-> "closed"]
  /\ pendingRequests = {}
  /\ req = [r \in Request |-> "new"]
  /\ reply = [r \in Request |-> None]
  /\ side = None
  /\ handling = {}
  /\ toSidecar = {}
  /\ toRelay = {}
  /\ served = [r \in Request |-> 0]
  /\ failures = 0

NotOn(c, messages) == {m \in messages : m.conn # c}

\* The promises of a set of requests are settled, all with the same outcome.
Settled(requests, outcome) ==
  /\ req' = [r \in Request |-> IF r \in requests THEN "settled" ELSE req[r]]
  /\ reply' = [r \in Request |-> IF r \in requests THEN outcome ELSE reply[r]]

-----------------------------------------------------------------------------
(* The sidecar and the network *)

SidecarDial(c) ==
  /\ side = None
  /\ conn[c] = "closed"
  /\ NotOn(c, handling) = handling
  /\ side' = c
  /\ conn' = [conn EXCEPT ![c] = "authorising"]
  /\ UNCHANGED <<tunnel, requestVars, handling, served, messageVars, failures>>

\* The connection is lost, or the sidecar restarts and its goroutines with it,
\* though Headscale may still execute what they had passed on; the object may
\* not know yet.
SidecarLeaves ==
  /\ side # None
  /\ failures < MaxFailures
  /\ failures' = failures + 1
  /\ side' = None
  /\ \/ UNCHANGED <<handling, served>>
     \/ /\ handling' = {}
        /\ \E passedOn \in SUBSET {m.request : m \in handling} :
             served' = [r \in Request |-> IF r \in passedOn THEN served[r] + 1 ELSE served[r]]
  /\ toSidecar' = NotOn(side, toSidecar)
  /\ UNCHANGED <<tunnel, conn, requestVars, toRelay>>

\* The dial was refused, or a read fails: the object's end is closed.
SidecarNotices ==
  /\ side # None
  /\ conn[side] = "closed"
  /\ side' = None
  /\ UNCHANGED <<tunnel, conn, requestVars, handling, served, messageVars, failures>>

SidecarReads(m) ==
  /\ m.conn = side
  /\ m \in toSidecar
  /\ toSidecar' = toSidecar \ {m}
  /\ handling' = handling \cup {m}
  /\ UNCHANGED <<tunnel, conn, requestVars, side, served, toRelay, failures>>

\* Headscale answers, or forwarding fails, whether or not it has executed the
\* request, and the sidecar says 502; the response is lost if the connection is.
SidecarResponds(m, result) ==
  /\ m \in handling
  /\ handling' = handling \ {m}
  /\ \E executed \in IF result = "headscale" THEN {1} ELSE {0, 1} :
       served' = [served EXCEPT ![m.request] = @ + executed]
  /\ toRelay' = IF m.conn = side /\ conn[side] = "open"
                  THEN toRelay \cup {[conn |-> m.conn, request |-> m.request, result |-> result]}
                  ELSE toRelay
  /\ UNCHANGED <<tunnel, conn, requestVars, side, toSidecar, failures>>

-----------------------------------------------------------------------------
(* acceptTunnel and its listeners *)

\* The registration has come from KV and matches: the socket is accepted and
\* takes the place of whatever tunnel there was, which is not closed.
AcceptTunnel(c) ==
  /\ conn[c] = "authorising"
  /\ conn' = [conn EXCEPT ![c] = "open"]
  /\ tunnel' = c
  /\ UNCHANGED <<requestVars, sidecarVars, messageVars, failures>>

\* The registration is missing or has another secret, or KV fails.
RefuseTunnel(c) ==
  /\ conn[c] = "authorising"
  /\ failures < MaxFailures
  /\ failures' = failures + 1
  /\ conn' = [conn EXCEPT ![c] = "closed"]
  /\ UNCHANGED <<tunnel, requestVars, sidecarVars, messageVars>>

\* handleTunnelMessage for a response: it settles the promise that waits for
\* it, and is dropped if none does; and the slip of leaving the entry there.
ReceiveLeaving(m) ==
  /\ conn[m.conn] = "open"
  /\ m \in toRelay
  /\ toRelay' = toRelay \ {m}
  /\ Settled({m.request} \cap pendingRequests, m.result)
  /\ UNCHANGED <<tunnel, conn, pendingRequests, sidecarVars, toSidecar, failures>>

Receive(m) ==
  /\ conn[m.conn] = "open"
  /\ m \in toRelay
  /\ toRelay' = toRelay \ {m}
  /\ pendingRequests' = pendingRequests \ {m.request}
  /\ Settled({m.request} \cap pendingRequests, m.result)
  /\ UNCHANGED <<tunnel, conn, sidecarVars, toSidecar, failures>>

\* Or it throws: the entry and its timer are gone by the time the Response is
\* built, so an answer of Headscale's that the runtime cannot build one from
\* leaves the promise unsettled for good.
ReceiveThrows(m) ==
  /\ conn[m.conn] = "open"
  /\ m \in toRelay
  /\ m.result = "headscale"
  /\ m.request \in pendingRequests
  /\ toRelay' = toRelay \ {m}
  /\ pendingRequests' = pendingRequests \ {m.request}
  /\ req' = [req EXCEPT ![m.request] = "abandoned"]
  /\ UNCHANGED <<tunnel, conn, reply, sidecarVars, toSidecar, failures>>

\* The tunnel a close event leaves behind: none, whichever connection it is
\* for; and the slip of not clearing it.
LeftInPlace(c) == tunnel
Cleared(c) == None

\* What becomes of the requests in the map it clears: all are rejected; and the
\* slip of only clearing it.
PendingForgotten == UNCHANGED <<req, reply>>
PendingRejected == Settled(pendingRequests, "lost")

\* The close event of a connection the sidecar has left: every request waiting
\* is rejected, whichever connection it was sent on.
CloseEvent(c) ==
  /\ conn[c] = "open"
  /\ side # c
  /\ conn' = [conn EXCEPT ![c] = "closed"]
  /\ tunnel' = Cleared(c)
  /\ pendingRequests' = {}
  /\ PendingRejected
  /\ toRelay' = NotOn(c, toRelay)
  /\ UNCHANGED <<sidecarVars, toSidecar, failures>>

-----------------------------------------------------------------------------
(* forwardToHeadscale *)

\* Without a tunnel 503; otherwise the body is awaited.
ForwardStart(r) ==
  /\ req[r] = "new"
  /\ IF tunnel = None
       THEN Settled({r}, "not sent")
       ELSE req' = [req EXCEPT ![r] = "body"] /\ UNCHANGED reply
  /\ UNCHANGED <<tunnel, conn, pendingRequests, sidecarVars, messageVars, failures>>

\* The client's body cannot be read.
ForwardBodyFails(r) ==
  /\ req[r] = "body"
  /\ Settled({r}, "not sent")
  /\ UNCHANGED <<tunnel, conn, pendingRequests, sidecarVars, messageVars, failures>>

\* The body is there: the timer is set, the entry made, and the request sent on
\* the tunnel of that moment, where it is lost if the sidecar has left it;
\* and the slip of not seeing that there is none.
SentUnchecked(r) ==
  /\ req[r] = "body"
  /\ req' = [req EXCEPT ![r] = "waiting"]
  /\ pendingRequests' = pendingRequests \cup {r}
  /\ toSidecar' = IF tunnel = side
                    THEN toSidecar \cup {[conn |-> tunnel, request |-> r]}
                    ELSE toSidecar
  /\ UNCHANGED <<tunnel, conn, reply, sidecarVars, toRelay, failures>>

ForwardSend(r) ==
  /\ req[r] = "body"
  /\ tunnel # None
  /\ req' = [req EXCEPT ![r] = "waiting"]
  /\ pendingRequests' = pendingRequests \cup {r}
  /\ toSidecar' = IF tunnel = side
                    THEN toSidecar \cup {[conn |-> tunnel, request |-> r]}
                    ELSE toSidecar
  /\ UNCHANGED <<tunnel, conn, reply, sidecarVars, toRelay, failures>>

\* Or the send throws, because the tunnel has gone while the body was awaited
\* or its socket is no longer usable: timer and entry are taken back.
ForwardSendFails(r) ==
  /\ req[r] = "body"
  /\ tunnel = None \/ tunnel # side
  /\ Settled({r}, "not sent")
  /\ UNCHANGED <<tunnel, conn, pendingRequests, sidecarVars, messageVars, failures>>

\* The 30-second timer; and a version that sends once more instead.
ForwardTimeoutResends(r) ==
  /\ r \in pendingRequests
  /\ tunnel # None
  /\ toSidecar' = IF tunnel = side
                    THEN toSidecar \cup {[conn |-> tunnel, request |-> r]}
                    ELSE toSidecar
  /\ UNCHANGED <<tunnel, conn, requestVars, sidecarVars, toRelay, failures>>

ForwardTimeout(r) ==
  /\ r \in pendingRequests
  /\ pendingRequests' = pendingRequests \ {r}
  /\ Settled({r}, "lost")
  /\ UNCHANGED <<tunnel, conn, sidecarVars, messageVars, failures>>

\* The object is evicted or redeployed; its fields are only in memory.
Evict ==
  /\ failures < MaxFailures
  /\ failures' = failures + 1
  /\ tunnel' = None
  /\ conn' = [c \in Conn |-> "closed"]
  /\ pendingRequests' = {}
  /\ Settled({r \in Request : req[r] \in {"body", "waiting"}}, "lost")
  /\ toSidecar' = {}
  /\ toRelay' = {}
  /\ UNCHANGED sidecarVars

-----------------------------------------------------------------------------
ConnStep(c) == SidecarDial(c) \/ AcceptTunnel(c) \/ RefuseTunnel(c) \/ CloseEvent(c)

MessageStep(m) == SidecarReads(m) \/ \E result \in Result : SidecarResponds(m, result)

ResponseStep(m) == Receive(m) \/ ReceiveThrows(m)

RequestStep(r) ==
  \/ ForwardStart(r) \/ ForwardBodyFails(r) \/ ForwardSend(r)
  \/ ForwardSendFails(r) \/ ForwardTimeout(r)

Next ==
  \/ \E c \in Conn : ConnStep(c)
  \/ \E m \in Message : MessageStep(m)
  \/ \E m \in Response : ResponseStep(m)
  \/ \E r \in Request : RequestStep(r)
  \/ SidecarLeaves \/ SidecarNotices
  \/ Evict

\* The sidecar redials, KV answers, close events arrive and timers fire.
Fairness ==
  /\ WF_vars(\E c \in Conn : SidecarDial(c)) /\ WF_vars(SidecarNotices)
  /\ \A c \in Conn : WF_vars(AcceptTunnel(c)) /\ WF_vars(CloseEvent(c))
  /\ \A m \in Message : WF_vars(\E result \in Result : SidecarResponds(m, result))
  /\ \A r \in Request : WF_vars(ForwardTimeout(r))

Spec == Init /\ [][Next]_vars

FairSpec == Spec /\ Fairness

-----------------------------------------------------------------------------
\* The types of the object's fields, the promises and the messages.
TypeOK ==
  /\ tunnel \in Conn \cup {None}
  /\ conn \in [Conn -> {"closed", "authorising", "open"}]
  /\ pendingRequests \subseteq Request
  /\ req \in [Request -> {"new", "body", "waiting", "settled", "abandoned"}]
  /\ reply \in [Request -> Reply \cup {None}]
  /\ side \in Conn \cup {None}
  /\ handling \subseteq Message
  /\ toSidecar \subseteq Message
  /\ toRelay \subseteq Response
  /\ served \in [Request -> Nat]
  /\ failures \in 0 .. MaxFailures

\* Whatever order connections, close events and evictions come in, the object
\* never takes a closed connection for its tunnel.
TunnelOpen == tunnel # None => conn[tunnel] = "open"

\* A promise is pending as long as it is in the map with its timer and no
\* longer, however it is settled: by a response, its timer, a throwing send or
\* the close of any tunnel.
PendingUnsettled ==
  \A r \in Request :
    /\ r \in pendingRequests <=> req[r] = "waiting"
    /\ reply[r] # None <=> req[r] = "settled"

\* Across reconnects, restarts and evictions a request is executed at most once;
\* an answer of Headscale's, or one no Response could be built from, means that
\* it was executed, while the sidecar's own 502 leaves it open; and a client whose
\* request was turned away before or by the send may retry: it never is.
AnswersTruthful ==
  \A r \in Request :
    /\ served[r] <= 1
    /\ reply[r] = "headscale" \/ req[r] = "abandoned" => served[r] = 1
    /\ reply[r] = "not sent" => served[r] = 0

\* Every request sent is settled, whatever becomes of its tunnel, unless its
\* response came and no Response could be built from it.
RequestsSettled ==
  \A r \in Request : req[r] = "waiting" ~> req[r] \in {"settled", "abandoned"}

\* As documented: the "Durable Object ... holds its persistent tunnel". Once
\* failures stop, the sidecar's connection is the tunnel, for good.
HoldsTunnel == <>[](tunnel # None /\ tunnel = side)

=============================================================================
