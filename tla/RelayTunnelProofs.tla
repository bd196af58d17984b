-------------------------- MODULE RelayTunnelProofs --------------------------
(***************************************************************************)
(* Proofs about RelayTunnel for any number of connections, requests and    *)
(* failures: its safety invariants and that it implements TunnelService.   *)
(***************************************************************************)
EXTENDS RelayTunnel, TLAPS

\* Requests that no message, goroutine or channel carries, and never will
\* unless forwardHTTP still sends them.
Unsent(r) == req[r] \in {"new", "body", "sending"} \/ reply[r] \in {"not connected", "write failed"}

\* Each phase of handleTunnel and readTunnel, and what it knows of the websocket.
ReaderPhases ==
  \A c \in Conn :
    /\ reader[c] = "upgraded" => relayEnd[c] = "open"
    /\ reader[c] \in {"none", "cleanup", "done"} => relayEnd[c] = "closed"
    /\ reader[c] = "delivering" <=> delivery[c] # None

\* A client has its answer exactly when its forwardHTTP is over.
RepliedOnce == \A r \in Request : reply[r] # None <=> req[r] = "replied"

\* A request's response is on its way into the channel at most once.
ChannelOnce ==
  /\ \A r \in Request : req[r] \in {"new", "body"} => respCh[r] = None
  /\ \A c \in Conn : delivery[c] # None =>
       /\ delivery[c].request \notin pending
       /\ respCh[delivery[c].request] = None
       /\ req[delivery[c].request] \notin {"new", "body"}
  /\ \A c, d \in Conn :
       delivery[c] # None /\ delivery[d] # None /\ delivery[c].request = delivery[d].request => c = d

\* An unsent request is nowhere beyond the relay and was not executed.
UnsentNowhere ==
  \A r \in Request : Unsent(r) =>
    /\ served[r] = 0
    /\ \A m \in toSidecar : m.request # r
    /\ \A m \in handling : m.request # r

\* A request travels on the tunnel it was sent on, and is either in flight,
\* with one goroutine of the sidecar, or past both.
OneCarrier ==
  /\ \A m \in toSidecar : m.conn = via[m.request] /\ served[m.request] = 0
  /\ \A m \in handling : m.conn = via[m.request] /\ (m.result = None => served[m.request] = 0)
  /\ \A m \in toSidecar, h \in handling : m.request # h.request
  /\ \A g, h \in handling : g.request = h.request => g = h

\* Wherever a Headscale answer is, the request was executed.
AnswersExecuted ==
  /\ \A m \in handling : m.result = "headscale" => served[m.request] = 1
  /\ \A m \in toRelay : m.result = "headscale" => served[m.request] = 1
  /\ \A c \in Conn : delivery[c] # None /\ delivery[c].result = "headscale"
       => served[delivery[c].request] = 1
  /\ \A r \in Request : respCh[r] = "headscale" \/ reply[r] = "headscale" => served[r] = 1

TunnelInv ==
  /\ TypeOK
  /\ LiveTunnelRoutable
  /\ ReaderPhases

RequestInv ==
  /\ PendingOwned
  /\ RepliedOnce
  /\ ChannelOnce
  /\ UnsentNowhere
  /\ OneCarrier
  /\ AnswersExecuted

\* The inductive invariant.
IInv == TunnelInv /\ RequestInv

\* A conjunct of the invariant survives a step that leaves its variables alone.
LEMMA Frames ==
  /\ LiveTunnelRoutable /\ UNCHANGED <<tunnel, relayEnd, reader>> => LiveTunnelRoutable'
  /\ ReaderPhases /\ UNCHANGED <<reader, relayEnd, delivery>> => ReaderPhases'
  /\ PendingOwned /\ UNCHANGED <<pending, req, respCh>> => PendingOwned'
  /\ RepliedOnce /\ UNCHANGED <<reply, req>> => RepliedOnce'
  /\ ChannelOnce /\ UNCHANGED <<req, respCh, delivery, pending>> => ChannelOnce'
  /\ UnsentNowhere /\ UNCHANGED <<req, reply, served, toSidecar, handling>> => UnsentNowhere'
  /\ OneCarrier /\ UNCHANGED <<toSidecar, via, served, handling>> => OneCarrier'
  /\ AnswersExecuted /\ UNCHANGED <<handling, served, toRelay, delivery, respCh, reply>> => AnswersExecuted'
<1> USE DEF Unsent
<1>1. LiveTunnelRoutable /\ UNCHANGED <<tunnel, relayEnd, reader>> => LiveTunnelRoutable'
  BY Zenon DEF LiveTunnelRoutable
<1>2. ReaderPhases /\ UNCHANGED <<reader, relayEnd, delivery>> => ReaderPhases'
  BY Zenon DEF ReaderPhases
<1>3. PendingOwned /\ UNCHANGED <<pending, req, respCh>> => PendingOwned'
  BY DEF PendingOwned
<1>4. RepliedOnce /\ UNCHANGED <<reply, req>> => RepliedOnce'
  BY DEF RepliedOnce
<1>5. ChannelOnce /\ UNCHANGED <<req, respCh, delivery, pending>> => ChannelOnce'
  BY DEF ChannelOnce
<1>6. UnsentNowhere /\ UNCHANGED <<req, reply, served, toSidecar, handling>> => UnsentNowhere'
  BY Zenon DEF UnsentNowhere
<1>7. OneCarrier /\ UNCHANGED <<toSidecar, via, served, handling>> => OneCarrier'
  BY DEF OneCarrier
<1>8. AnswersExecuted /\ UNCHANGED <<handling, served, toRelay, delivery, respCh, reply>> => AnswersExecuted'
  BY DEF AnswersExecuted
<1> QED
  BY Zenon, <1>1, <1>2, <1>3, <1>4, <1>5, <1>6, <1>7, <1>8

\* A dial touches no tunnel that is in use.
LEMMA SidecarDialStep ==
  ASSUME IInv, NEW c \in Conn, SidecarDial(c)
  PROVE  IInv'
<1> USE DEF SidecarDial, requestVars, Looping
<1>1. TypeOK'
  BY Zenon DEF IInv, TunnelInv, RequestInv, TypeOK
<1>2. LiveTunnelRoutable'
  BY Zenon DEF IInv, TunnelInv, RequestInv, LiveTunnelRoutable, TypeOK, Unheld
<1>3. ReaderPhases'
  BY DEF IInv, TunnelInv, ReaderPhases, Unheld
<1> QED
  BY Zenon, <1>1, <1>2, <1>3, Frames DEF IInv, TunnelInv, RequestInv

\* The sidecar learns of the upgrade.
LEMMA SidecarConnectedStep ==
  ASSUME IInv, NEW c \in Conn, SidecarConnected(c)
  PROVE  IInv'
<1> USE DEF SidecarConnected, relayVars, requestVars, networkVars
<1>1. TypeOK'
  BY Zenon DEF IInv, TunnelInv, TypeOK
<1> QED
  BY Zenon, <1>1, Frames DEF IInv, TunnelInv, RequestInv

\* Messages are lost, none appear.
LEMMA SidecarGivesUpStep ==
  ASSUME IInv, NEW c \in Conn, SidecarGivesUp(c)
  PROVE  IInv'
<1> USE DEF SidecarGivesUp, On, relayVars, requestVars
<1>1. TypeOK'
  BY Zenon DEF IInv, TunnelInv, RequestInv, TypeOK
<1>2. UnsentNowhere'
  BY Zenon DEF IInv, RequestInv, UnsentNowhere, Unsent
<1>3. OneCarrier'
  BY Zenon DEF IInv, TunnelInv, RequestInv, OneCarrier
<1> QED
  BY Zenon, <1>1, <1>2, <1>3, Frames DEF IInv, TunnelInv, RequestInv

\* The sidecar's loop waits for Headscale, and goes on.
LEMMA SidecarStallsStep ==
  ASSUME IInv, NEW c \in Conn, SidecarStalls(c) \/ SidecarResumes(c)
  PROVE  IInv'
<1> USE DEF SidecarStalls, SidecarResumes, relayVars, requestVars, networkVars
<1>1. failures' \in 0 .. MaxFailures
  BY FailuresAssumption DEF IInv, TunnelInv, TypeOK
<1>2. TypeOK'
  BY Zenon, <1>1 DEF IInv, TunnelInv, TypeOK
<1> QED
  BY Zenon, <1>2, Frames DEF IInv, TunnelInv, RequestInv

\* The one message becomes the one goroutine.
LEMMA SidecarReadsStep ==
  ASSUME IInv, NEW c \in Conn, NEW r \in Request, SidecarReads(c, r)
  PROVE  IInv'
<1> USE DEF SidecarReads, relayVars, requestVars
<1>1. TypeOK'
  BY DEF IInv, TunnelInv, RequestInv, TypeOK, Handling
<1>2. UnsentNowhere'
  <2>1. ~Unsent(r)
    BY Zenon DEF IInv, RequestInv, UnsentNowhere
  <2>2. ASSUME NEW q \in Request, Unsent(q) PROVE q # r /\ served[q] = 0
    BY Zenon, <2>1, <2>2 DEF IInv, RequestInv, UnsentNowhere
  <2>3. ASSUME NEW q \in Request, Unsent(q), NEW m \in handling' PROVE m.request # q
    BY <2>3 DEF IInv, RequestInv, UnsentNowhere
  <2>4. ASSUME NEW q \in Request, Unsent(q), NEW m \in toSidecar' PROVE m.request # q
    BY Zenon, <2>4 DEF IInv, RequestInv, UnsentNowhere
  <2> QED
    BY Zenon, <2>2, <2>3, <2>4 DEF UnsentNowhere, Unsent
<1>3. OneCarrier'
  BY DEF IInv, TunnelInv, RequestInv, OneCarrier, TypeOK, RequestMessage, Handling
<1>4. AnswersExecuted'
  <2>1. None # "headscale"
    BY Zenon, NoneAssumption DEF Reply, Result
  <2>2. \A m \in handling' : m.result = "headscale" => m \in handling
    BY <2>1
  <2> QED
    BY Zenon, <2>2 DEF IInv, RequestInv, AnswersExecuted
<1> QED
  BY Zenon, <1>1, <1>2, <1>3, <1>4, Frames DEF IInv, TunnelInv, RequestInv

\* Only a goroutine without a result executes its request.
LEMMA ForwardedStep ==
  ASSUME IInv, NEW c \in Conn, NEW r \in Request, NEW result \in Result, Forwarded(c, r, result)
  PROVE  IInv'
<1> USE DEF Forwarded, relayVars, requestVars, networkVars
<1>1. TypeOK'
  <2>1. handling' \subseteq Handling
    BY DEF IInv, TunnelInv, TypeOK, Handling
  <2>2. served[r] = 0
    BY Zenon DEF IInv, RequestInv, OneCarrier
  <2>3. served' \in [Request -> 0 .. 1]
    BY <2>2 DEF IInv, TunnelInv, TypeOK
  <2> QED
    BY Zenon, <2>1, <2>3 DEF IInv, TunnelInv, TypeOK
<1>2. UnsentNowhere'
  <2>1. ~Unsent(r)
    BY Zenon DEF IInv, RequestInv, UnsentNowhere
  <2>2. ASSUME NEW q \in Request, Unsent(q) PROVE q # r /\ served'[q] = 0
    BY <2>1, <2>2 DEF IInv, RequestInv, UnsentNowhere
  <2>3. ASSUME NEW q \in Request, Unsent(q), NEW m \in handling' PROVE m.request # q
    BY <2>3 DEF IInv, RequestInv, UnsentNowhere
  <2> QED
    BY Zenon, <2>2, <2>3 DEF IInv, RequestInv, UnsentNowhere, Unsent
<1>3. OneCarrier'
  <2> DEFINE old == [conn |-> c, request |-> r, result |-> None]
             new == [conn |-> c, request |-> r, result |-> result]
  <2>1. /\ old \in handling /\ old.request = r /\ old.conn = c
        /\ new.request = r /\ new.conn = c /\ new.result # None
        /\ handling' = (handling \ {old}) \cup {new}
    BY Zenon, NoneAssumption DEF Reply
  <2> HIDE DEF old, new
  <2>2. \A m \in handling : m # old => m.request # r
    BY <2>1 DEF IInv, RequestInv, OneCarrier
  <2>3. \A m \in toSidecar : m.request # r
    BY DEF IInv, RequestInv, OneCarrier
  <2>4. \A q \in Request : q # r => served'[q] = served[q]
    BY DEF TunnelInv, TypeOK
  <2>5. \A m \in toSidecar : m.request \in Request
    BY Zenon DEF IInv, TunnelInv, TypeOK, RequestMessage
  <2>6. \A m \in handling : m.request \in Request
    BY Zenon DEF IInv, TunnelInv, TypeOK, Handling
  <2>7. \A m \in toSidecar' : m.conn = via'[m.request] /\ served'[m.request] = 0
    BY Zenon, <2>3, <2>4, <2>5 DEF IInv, RequestInv, OneCarrier
  <2>8. \A m \in handling' : m.conn = via'[m.request] /\ (m.result = None => served'[m.request] = 0)
    BY <2>1 DEF IInv, RequestInv, OneCarrier
  <2>9. \A m \in toSidecar', h \in handling' : m.request # h.request
    BY DEF IInv, RequestInv, OneCarrier
  <2>10. \A g, h \in handling' : g.request = h.request => g = h
    BY DEF IInv, RequestInv, OneCarrier
  <2> QED
    BY Zenon, <2>7, <2>8, <2>9, <2>10 DEF OneCarrier
<1>4. AnswersExecuted'
  BY DEF IInv, TunnelInv, RequestInv, AnswersExecuted, OneCarrier, TypeOK,
    RequestMessage, ResponseMessage, Handling, Delivery
<1> QED
  BY Zenon, <1>1, <1>2, <1>3, <1>4, Frames DEF IInv, TunnelInv, RequestInv

\* The result moves from the goroutine to the connection.
LEMMA SidecarRespondsStep ==
  ASSUME IInv, NEW c \in Conn, NEW r \in Request, NEW result \in Result, SidecarResponds(c, r, result)
  PROVE  IInv'
<1> USE DEF SidecarResponds, relayVars, requestVars
<1>1. TypeOK'
  BY DEF IInv, TunnelInv, TypeOK, ResponseMessage
<1>2. UnsentNowhere'
  BY Zenon DEF IInv, TunnelInv, RequestInv, UnsentNowhere, Unsent
<1>3. OneCarrier'
  BY DEF IInv, RequestInv, OneCarrier
<1>4. AnswersExecuted'
  BY Zenon DEF IInv, RequestInv, AnswersExecuted
<1> QED
  BY Zenon, <1>1, <1>2, <1>3, <1>4, Frames DEF IInv, TunnelInv, RequestInv

\* What dies with the process was executed at most once.
LEMMA SidecarCrashStep ==
  ASSUME IInv, SidecarCrash
  PROVE  IInv'
<1> USE DEF SidecarCrash, relayVars, requestVars
<1>1. TypeOK'
  BY FailuresAssumption DEF IInv, TunnelInv, RequestInv, TypeOK, OneCarrier, Handling
<1>2. UnsentNowhere'
  <2>1. ASSUME NEW q \in Request, Unsent(q) PROVE served'[q] = 0
    BY <2>1 DEF IInv, RequestInv, UnsentNowhere
  <2> QED
    BY Zenon, <2>1 DEF UnsentNowhere, Unsent
<1>3. OneCarrier'
  BY Zenon DEF OneCarrier
<1>4. AnswersExecuted'
  BY SMTT(40) DEF IInv, TunnelInv, RequestInv, AnswersExecuted, OneCarrier, TypeOK, ResponseMessage, Handling, Delivery
<1> QED
  BY Zenon, <1>1, <1>2, <1>3, <1>4, Frames DEF IInv, TunnelInv, RequestInv

\* A cut loses packets, not state.
LEMMA CutStep ==
  ASSUME IInv, NEW c \in Conn, Cut(c)
  PROVE  IInv'
<1> USE DEF Cut, relayVars, requestVars, sidecarVars
<1>1. TypeOK'
  BY FailuresAssumption DEF IInv, TunnelInv, TypeOK
<1> QED
  BY Zenon, <1>1, Frames DEF IInv, TunnelInv, RequestInv

\* An upgraded connection is open, and not yet read.
LEMMA RelayUpgradeStep ==
  ASSUME IInv, NEW c \in Conn, RelayUpgrade(c)
  PROVE  IInv'
<1> USE DEF RelayUpgrade, requestVars, sidecarVars, networkVars, Looping
<1>1. TypeOK'
  BY Zenon DEF IInv, TunnelInv, RequestInv, TypeOK
<1>2. LiveTunnelRoutable'
  BY DEF IInv, TunnelInv, LiveTunnelRoutable
<1>3. ReaderPhases'
  BY DEF IInv, TunnelInv, ReaderPhases, TypeOK
<1> QED
  BY Zenon, <1>1, <1>2, <1>3, Frames DEF IInv, TunnelInv, RequestInv

\* Whoever was installed is closed in the same critical section.
LEMMA InstallStep ==
  ASSUME IInv, NEW c \in Conn, Install(c)
  PROVE  IInv'
<1> USE DEF Install, requestVars, sidecarVars, networkVars, Looping
<1>1. TypeOK'
  BY Zenon DEF IInv, TunnelInv, TypeOK
<1>2. LiveTunnelRoutable'
  BY DEF IInv, TunnelInv, LiveTunnelRoutable, TypeOK
<1>3. ReaderPhases'
  BY NoneAssumption DEF IInv, TunnelInv, ReaderPhases, LiveTunnelRoutable
<1> QED
  BY Zenon, <1>1, <1>2, <1>3, Frames DEF IInv, TunnelInv, RequestInv

\* Taking the channel and forgetting it are one critical section.
LEMMA ReadResponseStep ==
  ASSUME IInv, NEW c \in Conn, NEW r \in Request, NEW result \in Result, ReadResponse(c, r, result)
  PROVE  IInv'
<1> USE DEF ReadResponse, sidecarVars, Looping
<1>1. TypeOK'
  BY DEF IInv, TunnelInv, TypeOK, Delivery
<1>2. LiveTunnelRoutable'
  BY DEF IInv, TunnelInv, LiveTunnelRoutable, TypeOK
<1>3. ReaderPhases'
  BY NoneAssumption DEF IInv, TunnelInv, ReaderPhases, TypeOK, Delivery
<1>4. PendingOwned'
  BY Zenon DEF IInv, RequestInv, PendingOwned
<1>5. ChannelOnce'
  BY SMTT(40) DEF IInv, TunnelInv, RequestInv, ChannelOnce, TypeOK, PendingOwned, ReaderPhases, Delivery
<1>6. AnswersExecuted'
  BY SMTT(40) DEF IInv, TunnelInv, RequestInv, AnswersExecuted, TypeOK, Delivery
<1> QED
  BY Zenon, <1>1, <1>2, <1>3, <1>4, <1>5, <1>6, Frames DEF IInv, TunnelInv, RequestInv

\* The response reaches the channel it was taken for.
LEMMA DeliverStep ==
  ASSUME IInv, NEW c \in Conn, Deliver(c)
  PROVE  IInv'
<1> USE DEF Deliver, Room, sidecarVars, networkVars, Looping
<1>1. TypeOK'
  BY DEF IInv, TunnelInv, TypeOK, ReaderPhases, Delivery
<1>2. LiveTunnelRoutable'
  BY DEF IInv, TunnelInv, LiveTunnelRoutable
<1>3. ReaderPhases'
  BY DEF IInv, TunnelInv, ReaderPhases, TypeOK
<1>4. PendingOwned'
  BY DEF IInv, TunnelInv, RequestInv, PendingOwned, ChannelOnce, ReaderPhases, Delivery
<1>5. ChannelOnce'
  BY DEF IInv, TunnelInv, RequestInv, ChannelOnce, ReaderPhases, TypeOK, Delivery
<1>6. AnswersExecuted'
  BY DEF IInv, TunnelInv, RequestInv, AnswersExecuted, ReaderPhases, Delivery
<1> QED
  BY Zenon, <1>1, <1>2, <1>3, <1>4, <1>5, <1>6, Frames DEF IInv, TunnelInv, RequestInv

\* A reader that waits to send its pong is still the tunnel's reader.
LEMMA PongStep ==
  ASSUME IInv, NEW c \in Conn, ReadPing(c) \/ Pong(c)
  PROVE  IInv'
<1> USE DEF ReadPing, Pong, requestVars, sidecarVars, networkVars, Looping
<1>1. TypeOK'
  BY Zenon DEF IInv, TunnelInv, TypeOK
<1>2. LiveTunnelRoutable'
  BY DEF IInv, TunnelInv, LiveTunnelRoutable, TypeOK
<1>3. ReaderPhases'
  BY DEF IInv, TunnelInv, ReaderPhases, TypeOK
<1> QED
  BY Zenon, <1>1, <1>2, <1>3, Frames DEF IInv, TunnelInv, RequestInv

\* A failing reader closes its own websocket.
LEMMA ReadFailsStep ==
  ASSUME IInv, NEW c \in Conn, ReadFails(c)
  PROVE  IInv'
<1> USE DEF ReadFails, ReadError, On, requestVars, sidecarVars, Looping
<1>1. TypeOK'
  BY Zenon DEF IInv, TunnelInv, RequestInv, TypeOK
<1>2. LiveTunnelRoutable'
  BY DEF IInv, TunnelInv, LiveTunnelRoutable
<1>3. ReaderPhases'
  BY DEF IInv, TunnelInv, ReaderPhases, TypeOK
<1>4. AnswersExecuted'
  BY Zenon DEF IInv, TunnelInv, RequestInv, AnswersExecuted
<1> QED
  BY Zenon, <1>1, <1>2, <1>3, <1>4, Frames DEF IInv, TunnelInv, RequestInv

\* The entry of another connection is left alone.
LEMMA RetractStep ==
  ASSUME IInv, NEW c \in Conn, Retract(c)
  PROVE  IInv'
<1> USE DEF Retract, Retracted, requestVars, sidecarVars, networkVars, Looping
<1>1. TypeOK'
  BY Zenon DEF IInv, TunnelInv, TypeOK
<1>2. LiveTunnelRoutable'
  BY DEF IInv, TunnelInv, LiveTunnelRoutable
<1>3. ReaderPhases'
  BY DEF IInv, TunnelInv, ReaderPhases
<1> QED
  BY Zenon, <1>1, <1>2, <1>3, Frames DEF IInv, TunnelInv, RequestInv

\* A refused request was never sent.
LEMMA ForwardLookupStep ==
  ASSUME IInv, NEW r \in Request, ForwardLookup(r)
  PROVE  IInv'
<1> USE DEF ForwardLookup, relayVars, sidecarVars, networkVars
<1>1. TypeOK'
  <2>1. /\ via' \in [Request -> Conn \cup {None}]
        /\ req' \in [Request -> {"new", "body", "sending", "waiting", "replied"}]
        /\ reply' \in [Request -> Reply \cup {None}]
    BY Zenon DEF IInv, TunnelInv, TypeOK, Reply
  <2>2. ASSUME NEW q \in Request, req'[q] \in {"body", "sending", "waiting"}
        PROVE  via'[q] \in Conn
    <3>1. CASE q # r
      BY <2>2, <3>1, Zenon DEF IInv, TunnelInv, TypeOK
    <3>2. CASE q = r
      <4>1. tunnel # None
        BY <2>2, <3>2, Zenon DEF IInv, TunnelInv, TypeOK
      <4> QED BY <3>2, <4>1, Zenon DEF IInv, TunnelInv, TypeOK
    <3> QED BY <3>1, <3>2, Zenon
  <2> QED BY <2>1, <2>2, Zenon DEF IInv, TunnelInv, TypeOK
<1>2. PendingOwned'
  BY Zenon DEF IInv, TunnelInv, RequestInv, PendingOwned, TypeOK
<1>3. RepliedOnce'
  <2>1. \A q \in Request : q # r => req'[q] = req[q] /\ reply'[q] = reply[q]
    BY Zenon DEF IInv, TunnelInv, TypeOK
  <2>2. reply[r] = None
    BY Zenon DEF IInv, RequestInv, RepliedOnce
  <2>3. reply'[r] # None <=> req'[r] = "replied"
    BY <2>2, NoneAssumption, Zenon DEF IInv, TunnelInv, TypeOK, Reply
  <2> QED BY <2>1, <2>3, Zenon DEF IInv, RequestInv, RepliedOnce
<1>4. ChannelOnce'
  <2>1. \A q \in Request : req'[q] \in {"new", "body"} => req[q] \in {"new", "body"}
    BY Zenon DEF IInv, TunnelInv, TypeOK
  <2>2. \A d \in Conn : delivery[d] # None => delivery[d].request \in Request
    BY Zenon DEF IInv, TunnelInv, TypeOK, Delivery
  <2> QED
    BY Zenon, <2>1, <2>2 DEF IInv, RequestInv, ChannelOnce
<1>5. UnsentNowhere'
  BY ZenonT(40) DEF IInv, TunnelInv, RequestInv, UnsentNowhere, Unsent, TypeOK
<1>6. OneCarrier'
  BY ZenonT(40) DEF IInv, TunnelInv, RequestInv, OneCarrier, UnsentNowhere, Unsent, TypeOK, RequestMessage, Handling
<1>7. AnswersExecuted'
  BY ZenonT(40) DEF IInv, TunnelInv, RequestInv, AnswersExecuted, TypeOK
<1> QED
  BY Zenon, <1>1, <1>2, <1>3, <1>4, <1>5, <1>6, <1>7, Frames DEF IInv, TunnelInv, RequestInv

\* The channel is new, and empty.
LEMMA ForwardRegisterStep ==
  ASSUME IInv, NEW r \in Request, ForwardRegister(r)
  PROVE  IInv'
<1> USE DEF ForwardRegister, relayVars, sidecarVars, networkVars
<1>1. TypeOK'
  BY Zenon DEF IInv, TunnelInv, RequestInv, TypeOK
<1>2. PendingOwned'
  BY DEF IInv, TunnelInv, RequestInv, PendingOwned, TypeOK, ChannelOnce
<1>3. RepliedOnce'
  BY Zenon DEF IInv, TunnelInv, RequestInv, RepliedOnce, TypeOK
<1>4. ChannelOnce'
  BY DEF IInv, RequestInv, ChannelOnce, Delivery
<1>5. UnsentNowhere'
  BY Zenon DEF IInv, TunnelInv, RequestInv, UnsentNowhere, Unsent, TypeOK
<1> QED
  BY Zenon, <1>1, <1>2, <1>3, <1>4, <1>5, Frames DEF IInv, TunnelInv, RequestInv

\* The request starts its way, on the tunnel looked up.
LEMMA ForwardSendStep ==
  ASSUME IInv, NEW r \in Request, ForwardSend(r)
  PROVE  IInv'
<1> USE DEF ForwardSend, relayVars, sidecarVars
<1>1. TypeOK'
  BY DEF IInv, TunnelInv, TypeOK, RequestMessage
<1>2. PendingOwned'
  BY DEF IInv, RequestInv, PendingOwned
<1>3. RepliedOnce'
  BY DEF IInv, RequestInv, RepliedOnce
<1>4. ChannelOnce'
  BY DEF IInv, RequestInv, ChannelOnce, Delivery
<1>5. UnsentNowhere'
  <2>1. \A q \in Request : Unsent(q)' => Unsent(q) /\ q # r
    BY ZenonT(40), NoneAssumption DEF IInv, TunnelInv, RequestInv, TypeOK, RepliedOnce, Unsent, Reply
  <2> DEFINE new == [conn |-> via[r], request |-> r]
  <2>2. new.request = r /\ toSidecar' \subseteq toSidecar \cup {new}
    BY Zenon
  <2> HIDE DEF new
  <2>3. \A m \in toSidecar' : m \in toSidecar \/ m.request = r
    BY Zenon, <2>2
  <2> QED
    BY Zenon, <2>1, <2>3 DEF IInv, RequestInv, UnsentNowhere
<1>6. OneCarrier'
  <2> DEFINE new == [conn |-> via[r], request |-> r]
  <2>1. new.conn = via[r] /\ new.request = r /\ toSidecar' \subseteq toSidecar \cup {new}
    OBVIOUS
  <2> HIDE DEF new
  <2>2. served[r] = 0 /\ \A m \in handling : m.request # r
    BY Zenon DEF IInv, RequestInv, UnsentNowhere, Unsent
  <2> QED
    BY <2>2 DEF IInv, RequestInv, OneCarrier
<1> QED
  BY ZenonT(40), <1>1, <1>2, <1>3, <1>4, <1>5, <1>6, Frames DEF IInv, TunnelInv, RequestInv

\* A request that was not sent is refused.
LEMMA ForwardSendFailsStep ==
  ASSUME IInv, NEW r \in Request, ForwardSendFails(r)
  PROVE  IInv'
<1> USE DEF ForwardSendFails, GivenUp, relayVars, sidecarVars, networkVars
<1>1. TypeOK'
  BY Zenon DEF IInv, TunnelInv, TypeOK, Reply
<1>2. PendingOwned'
  BY Zenon DEF IInv, TunnelInv, RequestInv, PendingOwned, TypeOK
<1>3. RepliedOnce'
  BY ZenonT(40), NoneAssumption DEF IInv, TunnelInv, RequestInv, RepliedOnce, TypeOK, Reply
<1>4. ChannelOnce'
  BY Zenon DEF IInv, TunnelInv, RequestInv, ChannelOnce, TypeOK, Delivery
<1>5. UnsentNowhere'
  BY ZenonT(40) DEF IInv, TunnelInv, RequestInv, UnsentNowhere, Unsent, TypeOK
<1>6. AnswersExecuted'
  BY Zenon DEF IInv, TunnelInv, RequestInv, AnswersExecuted, TypeOK
<1> QED
  BY Zenon, <1>1, <1>2, <1>3, <1>4, <1>5, <1>6, Frames DEF IInv, TunnelInv, RequestInv

\* A late response finds no channel, or an empty one.
LEMMA ForwardTimeoutStep ==
  ASSUME IInv, NEW r \in Request, ForwardTimeout(r)
  PROVE  IInv'
<1> USE DEF ForwardTimeout, GivenUp, relayVars, sidecarVars, networkVars
<1>1. TypeOK'
  BY Zenon DEF IInv, TunnelInv, TypeOK, Reply
<1>2. PendingOwned'
  BY Zenon DEF IInv, TunnelInv, RequestInv, PendingOwned, TypeOK
<1>3. RepliedOnce'
  BY Zenon, NoneAssumption DEF IInv, TunnelInv, RequestInv, RepliedOnce, TypeOK, Reply
<1>4. ChannelOnce'
  BY DEF IInv, RequestInv, ChannelOnce, Delivery
<1>5. UnsentNowhere'
  BY ZenonT(40), NoneAssumption
    DEF IInv, TunnelInv, RequestInv, UnsentNowhere, Unsent, TypeOK
<1>6. AnswersExecuted'
  BY Zenon DEF IInv, TunnelInv, RequestInv, AnswersExecuted, TypeOK
<1> QED
  BY Zenon, <1>1, <1>2, <1>3, <1>4, <1>5, <1>6, Frames DEF IInv, TunnelInv, RequestInv

\* The client gets what was in its channel.
LEMMA ForwardReplyStep ==
  ASSUME IInv, NEW r \in Request, ForwardReply(r)
  PROVE  IInv'
<1> USE DEF ForwardReply, relayVars, sidecarVars, networkVars
<1>1. TypeOK'
  BY Zenon DEF IInv, TunnelInv, TypeOK, Reply
<1>2. PendingOwned'
  BY DEF IInv, RequestInv, PendingOwned
<1>3. RepliedOnce'
  BY Zenon DEF IInv, TunnelInv, RequestInv, RepliedOnce, TypeOK, Reply
<1>4. ChannelOnce'
  BY SMTT(40) DEF IInv, RequestInv, ChannelOnce
<1>5. UnsentNowhere'
  BY ZenonT(40) DEF IInv, TunnelInv, RequestInv, UnsentNowhere, Unsent, TypeOK, Result
<1>6. AnswersExecuted'
  <2>1. \A q \in Request : respCh'[q] = "headscale" => respCh[q] = "headscale"
    BY Zenon, NoneAssumption DEF IInv, TunnelInv, TypeOK, Reply, Result
  <2>2. \A q \in Request : reply'[q] = "headscale" => reply[q] = "headscale" \/ respCh[q] = "headscale"
    BY Zenon DEF IInv, TunnelInv, TypeOK
  <2> QED
    BY Zenon, <2>1, <2>2 DEF IInv, RequestInv, AnswersExecuted
<1> QED
  BY Zenon, <1>1, <1>2, <1>3, <1>4, <1>5, <1>6, Frames DEF IInv, TunnelInv, RequestInv

\* Nothing is connected and nothing asked when the processes start.
LEMMA InitIInv == Init => IInv
<1> SUFFICES ASSUME Init PROVE IInv
  OBVIOUS
<1> USE DEF Init
<1>1. TypeOK
  BY FailuresAssumption DEF TypeOK
<1>2. LiveTunnelRoutable /\ ReaderPhases
  BY Zenon DEF LiveTunnelRoutable, ReaderPhases, Looping
<1>3. PendingOwned /\ RepliedOnce /\ ChannelOnce
  BY Zenon DEF PendingOwned, RepliedOnce, ChannelOnce
<1>4. UnsentNowhere /\ OneCarrier
  BY Zenon DEF UnsentNowhere, OneCarrier
<1>5. AnswersExecuted
  BY Zenon, NoneAssumption DEF AnswersExecuted, Reply, Result
<1> QED
  BY Zenon, <1>1, <1>2, <1>3, <1>4, <1>5 DEF IInv, TunnelInv, RequestInv

\* Every step of either process or of the network preserves the invariant.
LEMMA NextIInv == IInv /\ [Next]_vars => IInv'
<1> SUFFICES ASSUME IInv, [Next]_vars PROVE IInv'
  OBVIOUS
<1>1. ASSUME NEW c \in Conn, ConnStep(c) PROVE IInv'
  BY Zenon, <1>1, SidecarDialStep, SidecarConnectedStep, SidecarGivesUpStep, SidecarStallsStep,
    CutStep, RelayUpgradeStep, InstallStep, DeliverStep, PongStep, ReadFailsStep, RetractStep
    DEF ConnStep
<1>2. ASSUME NEW r \in Request, RequestStep(r) PROVE IInv'
  BY Zenon, <1>2, ForwardLookupStep, ForwardRegisterStep, ForwardSendStep,
    ForwardSendFailsStep, ForwardReplyStep, ForwardTimeoutStep
    DEF RequestStep
<1>3. ASSUME NEW c \in Conn, NEW r \in Request, MessageStep(c, r) PROVE IInv'
  BY Zenon, <1>3, SidecarReadsStep, ForwardedStep, SidecarRespondsStep, ReadResponseStep
    DEF MessageStep
<1>4. CASE UNCHANGED vars
  <2>1. TypeOK'
    BY Zenon, <1>4
      DEF IInv, TunnelInv, TypeOK, vars, relayVars, requestVars, sidecarVars,
          networkVars
  <2> QED
    BY Zenon, <1>4, <2>1, Frames
      DEF IInv, TunnelInv, RequestInv, vars, relayVars, requestVars, sidecarVars,
          networkVars
<1> QED
  BY Zenon, <1>1, <1>2, <1>3, <1>4, SidecarCrashStep DEF Next

\* The invariant holds throughout.
LEMMA SpecIInv == Spec => []IInv
  BY InitIInv, NextIInv, PTL DEF Spec

-----------------------------------------------------------------------------
\* The state of relay, sidecar and network keeps its types, and no forwardHTTP
\* ever works on a tunnel it does not have.
THEOREM TypeCorrect == Spec => []TypeOK
<1>1. IInv => TypeOK
  BY DEF IInv, TunnelInv
<1> QED
  BY <1>1, SpecIInv, PTL

\* However reconnects, stale upgrades and cleanups interleave, a live tunnel is
\* routable and a routed tunnel has a reader.
THEOREM LiveTunnelsRoutable == Spec => []LiveTunnelRoutable
<1>1. IInv => LiveTunnelRoutable
  BY DEF IInv, TunnelInv
<1> QED
  BY <1>1, SpecIInv, PTL

\* forwardHTTP leaves nothing behind in the pending map.
THEOREM NoPendingLeak == Spec => []PendingOwned
<1>1. IInv => PendingOwned
  BY DEF IInv, RequestInv
<1> QED
  BY <1>1, SpecIInv, PTL

\* readTunnel is never stuck on a channel, timeouts and late responses included.
THEOREM ReadersNeverBlock == Spec => []ReaderNeverBlocks
<1>1. IInv => ReaderNeverBlocks
  BY Zenon
    DEF IInv, TunnelInv, RequestInv, ReaderPhases, ChannelOnce, ReaderNeverBlocks,
        Room
<1> QED
  BY <1>1, SpecIInv, PTL

\* Requests are executed at most once and clients are told the truth.
THEOREM TruthfulAnswers == Spec => []AnswersTruthful
<1>1. ASSUME IInv PROVE AnswersTruthful
  <2>1. \A r \in Request : served[r] \in 0 .. 1
    BY Zenon, <1>1 DEF IInv, TunnelInv, TypeOK
  <2>2. \A r \in Request : served[r] <= 1
    BY <2>1
  <2> QED
    BY Zenon, <1>1, <2>2
      DEF IInv, RequestInv, AnswersExecuted, UnsentNowhere, Unsent, AnswersTruthful
<1> QED
  BY <1>1, SpecIInv, PTL

-----------------------------------------------------------------------------
(* Refinement *)

\* The mapped up flag.
RoutedOpen == \E c \in Conn : tunnel = c /\ relayEnd[c] = "open"

\* The initial state is one of TunnelService.
LEMMA InitRefines == Init => Service!SInit
  BY Zenon DEF Init, Service!SInit

\* Installing, losing and retracting tunnels are TunnelService's steps on the
\* slot; the entry of a working tunnel is never retracted.
LEMMA SlotRefines ==
  ASSUME IInv, NEW c \in Conn, ConnStep(c)
  PROVE  Service!SNext \/ UNCHANGED <<tunnel, RoutedOpen, served, reply>>
<1> USE DEF relayVars, requestVars, sidecarVars, networkVars, RoutedOpen
<1>1. CASE Install(c)
  <2>1. RoutedOpen'
    BY <1>1, NoneAssumption DEF Install, IInv, TunnelInv, ReaderPhases, LiveTunnelRoutable, Looping
  <2> QED
    BY Zenon, <1>1, <2>1 DEF Install, Service!SNext, Service!Connect
<1>2. CASE ReadFails(c)
  <2>1. CASE tunnel = c /\ relayEnd[c] = "open"
    BY Zenon, <1>2, <2>1, NoneAssumption DEF ReadFails, Service!SNext, Service!Disconnect
  <2>2. CASE ~(tunnel = c /\ relayEnd[c] = "open")
    BY Zenon, <1>2, <2>2 DEF ReadFails, IInv, TunnelInv, TypeOK
  <2> QED
    BY Zenon, <2>1, <2>2
<1>3. CASE Retract(c)
  <2>1. CASE tunnel = c
    BY Zenon, <1>3, <2>1, NoneAssumption
      DEF Retract, Retracted, IInv, TunnelInv, ReaderPhases, Service!SNext,
          Service!Clear
  <2>2. CASE tunnel # c
    BY Zenon, <1>3, <2>2 DEF Retract, Retracted
  <2> QED
    BY Zenon, <2>1, <2>2
<1>4. CASE RelayUpgrade(c)
  BY <1>4, NoneAssumption DEF RelayUpgrade, IInv, TunnelInv, LiveTunnelRoutable, Looping
<1>5. CASE SidecarDial(c) \/ SidecarConnected(c) \/ SidecarGivesUp(c) \/ Cut(c) \/ Deliver(c)
  BY Zenon, <1>5 DEF SidecarDial, SidecarConnected, SidecarGivesUp, Cut, Deliver
<1>6. CASE SidecarStalls(c) \/ SidecarResumes(c) \/ ReadPing(c) \/ Pong(c)
  BY Zenon, <1>6 DEF SidecarStalls, SidecarResumes, ReadPing, Pong
<1> QED
  BY Zenon, <1>1, <1>2, <1>3, <1>4, <1>5, <1>6 DEF ConnStep

\* Answering a client is TunnelService's Answer, given once and truthfully.
LEMMA AnswerRefines ==
  ASSUME IInv, NEW r \in Request, RequestStep(r)
  PROVE  Service!SNext \/ UNCHANGED <<tunnel, RoutedOpen, served, reply>>
<1> USE DEF relayVars, requestVars, sidecarVars, networkVars, RoutedOpen
<1>1. ASSUME NEW answer \in Reply, reply' = [reply EXCEPT ![r] = answer], req[r] # "replied",
             answer = "headscale" => served[r] = 1,
             answer \in {"not connected", "write failed"} => served[r] = 0,
             UNCHANGED <<relayVars, served>>
      PROVE  Service!SNext
  <2>1. reply[r] = None
    BY Zenon, <1>1 DEF IInv, RequestInv, RepliedOnce
  <2>2. answer \in Service!Outcome
    BY Zenon DEF Reply, Result, Service!Outcome, Service!Refusal
  <2>3. Service!Answer(r, answer)
    BY Zenon, <1>1, <2>1 DEF Service!Answer, Service!Refusal
  <2> QED
    BY <2>2, <2>3 DEF Service!SNext
<1>2. CASE ForwardLookup(r)
  <2>1. served[r] = 0 /\ "not connected" \in Reply
    BY Zenon, <1>2 DEF ForwardLookup, IInv, RequestInv, UnsentNowhere, Unsent, Reply
  <2>2. CASE tunnel = None
    <3>1. req[r] # "replied" /\ reply' = [reply EXCEPT ![r] = "not connected"]
      BY Zenon, <1>2, <2>2 DEF ForwardLookup
    <3> QED
      BY Zenon, <1>1, <1>2, <2>1 DEF ForwardLookup
  <2>3. CASE tunnel # None
    BY Zenon, <1>2, <2>3 DEF ForwardLookup
  <2> QED
    BY Zenon, <2>2, <2>3
<1>3. CASE ForwardSendFails(r)
  <2>1. served[r] = 0 /\ "write failed" \in Reply
    BY Zenon, <1>3 DEF ForwardSendFails, IInv, RequestInv, UnsentNowhere, Unsent, Reply
  <2> QED
    BY Zenon, <1>1, <1>3, <2>1 DEF ForwardSendFails, GivenUp
<1>4. CASE ForwardTimeout(r)
  <2>1. "timeout" \in Reply
    BY DEF Reply
  <2> QED
    BY Zenon, <1>1, <1>4, <2>1 DEF ForwardTimeout, GivenUp
<1>5. CASE ForwardReply(r)
  <2>1. respCh[r] \in Result
    BY Zenon, <1>5 DEF ForwardReply, IInv, TunnelInv, TypeOK
  <2> QED
    BY Zenon, <1>1, <1>5, <2>1
      DEF ForwardReply, IInv, RequestInv, AnswersExecuted, Reply, Result
<1>6. CASE ForwardRegister(r) \/ ForwardSend(r)
  BY Zenon, <1>6 DEF ForwardRegister, ForwardSend
<1> QED
  BY Zenon, <1>2, <1>3, <1>4, <1>5, <1>6 DEF RequestStep

\* Executing requests, one by the goroutine that forwards it or several in a
\* crash, is TunnelService's Execute.
LEMMA ExecuteRefines ==
  ASSUME IInv, NEW requests \in SUBSET Request,
         \A r \in requests : \E m \in handling : m.request = r /\ m.result = None,
         served' = [r \in Request |-> IF r \in requests THEN served[r] + 1 ELSE served[r]],
         UNCHANGED <<relayVars, reply>>
  PROVE  Service!SNext
<1>1. \A r \in requests : served[r] = 0 /\ reply[r] \notin {"not connected", "write failed"}
  <2> TAKE r \in requests
  <2>1. PICK m \in handling : m.request = r /\ m.result = None
    BY Zenon
  <2>2. served[r] = 0
    BY Zenon, <2>1 DEF IInv, RequestInv, OneCarrier
  <2>3. ~Unsent(r)
    BY DEF IInv, RequestInv, UnsentNowhere
  <2> QED
    BY Zenon, <2>2, <2>3 DEF Unsent
<1>2. served' = [r \in Request |-> IF r \in requests THEN 1 ELSE served[r]]
  <2>1. \A r \in requests : served[r] = 0
    BY Zenon, <1>1
  <2>2. ASSUME NEW r \in requests PROVE served[r] + 1 = 1
    <3>1. served[r] = 0
      BY Zenon, <2>1
    <3> QED
      BY <3>1
  <2> QED
    BY Zenon, <2>2
<1>3. Service!Execute(requests)
  BY Zenon, <1>1, <1>2 DEF Service!Execute, Service!Refusal, relayVars
<1> QED
  BY Zenon, <1>3 DEF Service!SNext

\* So is what the sidecar's goroutines and the relay's readers do.
LEMMA MessageRefines ==
  ASSUME IInv, NEW c \in Conn, NEW r \in Request, MessageStep(c, r)
  PROVE  Service!SNext \/ UNCHANGED <<tunnel, RoutedOpen, served, reply>>
<1>1. ASSUME NEW result \in Result, Forwarded(c, r, result)
      PROVE  Service!SNext \/ UNCHANGED <<tunnel, RoutedOpen, served, reply>>
  <2>1. served \in [Request -> 0 .. 1]
    BY Zenon DEF IInv, TunnelInv, TypeOK
  <2>2. PICK executed \in {0, 1} : served' = [served EXCEPT ![r] = @ + executed]
    BY ZenonT(40), <1>1 DEF Forwarded
  <2>3. UNCHANGED <<relayVars, reply>>
    BY Zenon, <1>1 DEF Forwarded, requestVars
  <2>4. CASE executed = 0
    BY <2>1, <2>2, <2>3, <2>4 DEF relayVars, RoutedOpen
  <2>5. CASE executed = 1
    <3>1. served' = [q \in Request |-> IF q \in {r} THEN served[q] + 1 ELSE served[q]]
      BY ZenonT(40), <2>1, <2>2, <2>5
    <3>2. \A q \in {r} : \E m \in handling : m.request = q /\ m.result = None
      BY Zenon, <1>1 DEF Forwarded
    <3> QED
      BY ZenonT(40), <2>3, <3>1, <3>2, ExecuteRefines
  <2> QED
    BY Zenon, <2>4, <2>5
<1>2. CASE \E result \in Result : SidecarResponds(c, r, result) \/ ReadResponse(c, r, result)
  BY Zenon, <1>2 DEF SidecarResponds, ReadResponse, relayVars, requestVars, RoutedOpen
<1>3. CASE SidecarReads(c, r)
  BY Zenon, <1>3 DEF SidecarReads, relayVars, requestVars, RoutedOpen
<1> QED
  BY Zenon, <1>1, <1>2, <1>3 DEF MessageStep

\* Every step of the relay, the sidecar or the network is a step of
\* TunnelService or leaves its variables unchanged.
LEMMA NextRefines == IInv /\ [Next]_vars => [Service!SNext]_(Service!svars)
<1> SUFFICES ASSUME IInv, [Next]_vars
             PROVE  Service!SNext \/ UNCHANGED <<tunnel, RoutedOpen, served, reply>>
  BY Zenon DEF Service!svars, RoutedOpen
<1>1. CASE SidecarCrash
  <2>1. PICK requests \in SUBSET Request :
          /\ \A r \in requests : \E m \in handling : m.request = r /\ m.result = None
          /\ served' = [r \in Request |-> IF r \in requests THEN served[r] + 1 ELSE served[r]]
    BY ZenonT(40), <1>1 DEF SidecarCrash
  <2>2. UNCHANGED <<relayVars, reply>>
    BY Zenon, <1>1 DEF SidecarCrash, requestVars
  <2> QED
    BY Zenon, <2>1, <2>2, ExecuteRefines
<1>2. CASE UNCHANGED vars
  BY Zenon, <1>2 DEF vars, relayVars, requestVars, RoutedOpen
<1> QED
  BY Zenon, <1>1, <1>2, SlotRefines, AnswerRefines, MessageRefines DEF Next

\* The relay and the sidecar implement TunnelService, whatever the number of
\* connections, requests and failures.
THEOREM Refinement == Spec => ImplementsService
  BY InitRefines, NextRefines, SpecIInv, PTL DEF Spec, ImplementsService, Service!SSpec

=============================================================================
