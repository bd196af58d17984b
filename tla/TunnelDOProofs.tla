---------------------------- MODULE TunnelDOProofs ----------------------------
(***************************************************************************)
(* The Durable Object's tunnel and requests for any number of connections, *)
(* requests and failures. The inductive invariant follows the one copy of  *)
(* a request there is: on its way to the sidecar, in a goroutine there, or *)
(* executed; never two of these at once, and none before it was sent.      *)
(***************************************************************************)
EXTENDS TunnelDO, TLAPS

Sent(r) == req[r] \in {"waiting", "settled", "abandoned"} /\ reply[r] # "not sent"

\* Messages and goroutines whose request is not executed yet.
Unserved == toSidecar \cup handling

OneCopy ==
  /\ \A m, n \in Unserved : m.request = n.request => m = n
  /\ \A m \in toSidecar : m \notin handling
  /\ \A m \in Unserved : served[m.request] = 0 /\ Sent(m.request)
  /\ \A m \in toRelay : m.result = "headscale" => served[m.request] = 1
  /\ \A r \in Request : served[r] \in {0, 1} /\ (served[r] = 1 => Sent(r))
  /\ \A r \in Request : reply[r] = "headscale" \/ req[r] = "abandoned" => served[r] = 1

IInv == TypeOK /\ TunnelOpen /\ PendingUnsettled /\ OneCopy

USE FailuresAssumption, NoneAssumption

-----------------------------------------------------------------------------
(* The types *)

LEMMA SettledTyped ==
  ASSUME TypeOK, NEW R, NEW outcome \in Reply, Settled(R, outcome)
  PROVE  /\ req' \in [Request -> {"new", "body", "waiting", "settled", "abandoned"}]
         /\ reply' \in [Request -> Reply \cup {None}]
BY DEF TypeOK, Settled

LEMMA ConnTyped ==
  ASSUME TypeOK, NEW c \in Conn, ConnStep(c)
  PROVE  TypeOK'
<1>1. CASE SidecarDial(c)
  BY <1>1 DEF SidecarDial, TypeOK, requestVars, messageVars
<1>2. CASE AcceptTunnel(c)
  BY <1>2 DEF AcceptTunnel, TypeOK, requestVars, messageVars, sidecarVars
<1>3. CASE RefuseTunnel(c)
  BY <1>3 DEF RefuseTunnel, TypeOK, requestVars, messageVars, sidecarVars
<1>4. CASE CloseEvent(c)
  <2>1. /\ req' \in [Request -> {"new", "body", "waiting", "settled", "abandoned"}]
        /\ reply' \in [Request -> Reply \cup {None}]
    BY Zenon, <1>4, SettledTyped DEF CloseEvent, PendingRejected, Reply
  <2>2. toRelay' \subseteq Response
    BY <1>4 DEF CloseEvent, NotOn, TypeOK
  <2> QED BY <1>4, <2>1, <2>2 DEF CloseEvent, Cleared, TypeOK, sidecarVars
<1> QED BY <1>1, <1>2, <1>3, <1>4 DEF ConnStep

LEMMA MessageTyped ==
  ASSUME TypeOK, NEW m \in Message, MessageStep(m)
  PROVE  TypeOK'
<1>0. m.request \in Request
  BY DEF Message
<1>1. CASE SidecarReads(m)
  BY <1>1 DEF SidecarReads, TypeOK, requestVars
<1>2. ASSUME NEW result \in Result, SidecarResponds(m, result) PROVE TypeOK'
  <2>1. served' \in [Request -> Nat]
    BY <1>0, <1>2 DEF SidecarResponds, TypeOK
  <2>2. [conn |-> m.conn, request |-> m.request, result |-> result] \in Response
    BY DEF Message, Response
  <2> QED BY <1>2, <2>1, <2>2 DEF SidecarResponds, TypeOK, requestVars
<1> QED BY <1>1, <1>2 DEF MessageStep

LEMMA ResponseTyped ==
  ASSUME TypeOK, NEW m \in Response, ResponseStep(m)
  PROVE  TypeOK'
<1>0. m.request \in Request /\ m.result \in Reply
  BY DEF Response, Reply
<1>1. CASE Receive(m)
  <2>1. /\ req' \in [Request -> {"new", "body", "waiting", "settled", "abandoned"}]
        /\ reply' \in [Request -> Reply \cup {None}]
    BY Zenon, <1>0, <1>1, SettledTyped DEF Receive
  <2> QED BY <1>1, <2>1 DEF Receive, TypeOK, sidecarVars
<1>2. CASE ReceiveThrows(m)
  BY <1>0, <1>2 DEF ReceiveThrows, TypeOK, sidecarVars
<1> QED BY <1>1, <1>2 DEF ResponseStep

LEMMA RequestTyped ==
  ASSUME TypeOK, NEW r \in Request, RequestStep(r)
  PROVE  TypeOK'
<1>1. CASE ForwardStart(r)
  <2>1. /\ req' \in [Request -> {"new", "body", "waiting", "settled", "abandoned"}]
        /\ reply' \in [Request -> Reply \cup {None}]
    BY Zenon, <1>1, SettledTyped DEF ForwardStart, Reply, TypeOK
  <2> QED BY Zenon, <1>1, <2>1 DEF ForwardStart, TypeOK, sidecarVars, messageVars
<1>2. CASE ForwardBodyFails(r)
  <2>1. /\ req' \in [Request -> {"new", "body", "waiting", "settled", "abandoned"}]
        /\ reply' \in [Request -> Reply \cup {None}]
    BY Zenon, <1>2, SettledTyped DEF ForwardBodyFails, Reply
  <2> QED BY Zenon, <1>2, <2>1 DEF ForwardBodyFails, TypeOK, sidecarVars, messageVars
<1>3. CASE ForwardSend(r)
  <2>1. [conn |-> tunnel, request |-> r] \in Message
    BY <1>3 DEF ForwardSend, TypeOK, Message
  <2> QED BY <1>3, <2>1 DEF ForwardSend, TypeOK, sidecarVars
<1>4. CASE ForwardSendFails(r)
  <2>1. /\ req' \in [Request -> {"new", "body", "waiting", "settled", "abandoned"}]
        /\ reply' \in [Request -> Reply \cup {None}]
    BY Zenon, <1>4, SettledTyped DEF ForwardSendFails, Reply
  <2> QED BY Zenon, <1>4, <2>1 DEF ForwardSendFails, TypeOK, sidecarVars, messageVars
<1>5. CASE ForwardTimeout(r)
  <2>1. /\ req' \in [Request -> {"new", "body", "waiting", "settled", "abandoned"}]
        /\ reply' \in [Request -> Reply \cup {None}]
    BY Zenon, <1>5, SettledTyped DEF ForwardTimeout, Reply
  <2> QED BY <1>5, <2>1 DEF ForwardTimeout, TypeOK, sidecarVars, messageVars
<1> QED BY <1>1, <1>2, <1>3, <1>4, <1>5 DEF RequestStep

LEMMA OtherTyped ==
  ASSUME TypeOK, SidecarLeaves \/ SidecarNotices \/ Evict
  PROVE  TypeOK'
<1>1. CASE SidecarLeaves
  <2>1. served' \in [Request -> Nat]
    BY <1>1 DEF SidecarLeaves, TypeOK
  <2> QED BY <1>1, <2>1 DEF SidecarLeaves, NotOn, TypeOK, requestVars
<1>2. CASE SidecarNotices
  BY <1>2 DEF SidecarNotices, TypeOK, requestVars, messageVars
<1>3. CASE Evict
  <2>1. /\ req' \in [Request -> {"new", "body", "waiting", "settled", "abandoned"}]
        /\ reply' \in [Request -> Reply \cup {None}]
    BY Zenon, <1>3, SettledTyped DEF Evict, Reply
  <2> QED BY <1>3, <2>1 DEF Evict, TypeOK, sidecarVars
<1> QED BY <1>1, <1>2, <1>3

LEMMA StepTyped == TypeOK /\ [Next]_vars => TypeOK'
<1> SUFFICES ASSUME TypeOK, [Next]_vars PROVE TypeOK'
  OBVIOUS
<1>1. CASE UNCHANGED vars
  BY <1>1 DEF vars, TypeOK, requestVars, sidecarVars, messageVars
<1> QED BY <1>1, ConnTyped, MessageTyped, ResponseTyped, RequestTyped, OtherTyped DEF Next

-----------------------------------------------------------------------------
(* The tunnel *)

LEMMA StepOpen ==
  ASSUME TypeOK, TunnelOpen, [Next]_vars
  PROVE  TunnelOpen'
<1>0. conn \in [Conn -> {"closed", "authorising", "open"}] /\ tunnel \in Conn \cup {None}
  BY DEF TypeOK
<1>1. ASSUME NEW c \in Conn, ConnStep(c) PROVE TunnelOpen'
  BY <1>0, <1>1 DEF ConnStep, SidecarDial, AcceptTunnel, RefuseTunnel, CloseEvent, Cleared, TunnelOpen
<1>2. ASSUME NEW m \in Message, MessageStep(m) PROVE tunnel' = tunnel /\ conn' = conn
  BY <1>2 DEF MessageStep, SidecarReads, SidecarResponds
<1>6. ASSUME NEW m \in Response, ResponseStep(m) PROVE tunnel' = tunnel /\ conn' = conn
  BY <1>6 DEF ResponseStep, Receive, ReceiveThrows
<1>3. ASSUME NEW r \in Request, RequestStep(r) PROVE tunnel' = tunnel /\ conn' = conn
  BY Zenon, <1>3 DEF RequestStep, ForwardStart, ForwardBodyFails, ForwardSend, ForwardSendFails, ForwardTimeout
<1>4. CASE SidecarLeaves \/ SidecarNotices \/ Evict
  BY <1>4 DEF SidecarLeaves, SidecarNotices, Evict, TunnelOpen
<1>5. CASE UNCHANGED vars
  BY <1>5 DEF vars, TunnelOpen
<1> QED BY <1>1, <1>2, <1>3, <1>4, <1>5, <1>6 DEF Next, TunnelOpen

-----------------------------------------------------------------------------
(* The map of pending requests *)

LEMMA SettledValues ==
  ASSUME NEW R, NEW outcome, Settled(R, outcome), NEW r \in Request
  PROVE  /\ req'[r] = IF r \in R THEN "settled" ELSE req[r]
         /\ reply'[r] = IF r \in R THEN outcome ELSE reply[r]
BY DEF Settled

\* Whoever settles promises takes them out of the map.
LEMMA SettledPending ==
  ASSUME PendingUnsettled, NEW R, NEW outcome \in Reply, Settled(R, outcome),
         pendingRequests' = pendingRequests \ R
  PROVE  PendingUnsettled'
<1> SUFFICES ASSUME NEW r \in Request
             PROVE  /\ r \in pendingRequests' <=> req'[r] = "waiting"
                    /\ reply'[r] # None <=> req'[r] = "settled"
  BY DEF PendingUnsettled
<1>1. /\ req'[r] = IF r \in R THEN "settled" ELSE req[r]
      /\ reply'[r] = IF r \in R THEN outcome ELSE reply[r]
  BY SettledValues
<1> QED BY <1>1 DEF PendingUnsettled

LEMMA StepPending ==
  ASSUME TypeOK, PendingUnsettled, [Next]_vars
  PROVE  PendingUnsettled'
<1>0. /\ req \in [Request -> {"new", "body", "waiting", "settled", "abandoned"}]
      /\ pendingRequests \subseteq Request
  BY DEF TypeOK
<1>1. CASE \E c \in Conn : ConnStep(c)
  <2>1. PICK c \in Conn : ConnStep(c)
    BY <1>1
  <2>2. CASE CloseEvent(c)
    <3>1. pendingRequests' = {} /\ Settled(pendingRequests, "lost")
      BY Zenon, <2>2 DEF CloseEvent, PendingRejected
    <3>2. pendingRequests' = pendingRequests \ pendingRequests
      BY Zenon, <3>1
    <3> QED BY Zenon, <3>1, <3>2, SettledPending DEF Reply
  <2>3. CASE ~CloseEvent(c)
    BY <2>1, <2>3 DEF ConnStep, SidecarDial, AcceptTunnel, RefuseTunnel, requestVars, PendingUnsettled
  <2> QED BY <2>2, <2>3
<1>2. CASE \E m \in Message : MessageStep(m)
  BY <1>2 DEF MessageStep, SidecarReads, SidecarResponds, requestVars, PendingUnsettled
<1>7. CASE \E m \in Response : ResponseStep(m)
  <2>1. PICK m \in Response : ResponseStep(m)
    BY <1>7
  <2>2. m.request \in Request /\ m.result \in Reply
    BY DEF Response, Reply
  <2>3. CASE Receive(m)
    <3>1. /\ pendingRequests' = pendingRequests \ {m.request}
          /\ Settled({m.request} \cap pendingRequests, m.result)
      BY <2>3 DEF Receive
    <3>2. pendingRequests' = pendingRequests \ ({m.request} \cap pendingRequests)
      BY <3>1
    <3> QED BY Zenon, <2>2, <3>1, <3>2, SettledPending
  <2>4. CASE ReceiveThrows(m)
    BY <1>0, <2>2, <2>4 DEF ReceiveThrows, PendingUnsettled
  <2> QED BY <2>1, <2>3, <2>4 DEF ResponseStep
<1>3. CASE \E r \in Request : RequestStep(r)
  <2>1. PICK r \in Request : RequestStep(r)
    BY <1>3
  <2>2. CASE ForwardStart(r)
    <3>1. CASE tunnel = None
      <4>1. pendingRequests' = pendingRequests /\ Settled({r}, "not sent") /\ req[r] = "new"
        BY Zenon, <2>2, <3>1 DEF ForwardStart
      <4>2. pendingRequests' = pendingRequests \ {r}
        BY Zenon, <4>1 DEF PendingUnsettled
      <4> QED BY Zenon, <4>1, <4>2, SettledPending DEF Reply
    <3>2. CASE tunnel # None
      BY <1>0, <2>2, <3>2 DEF ForwardStart, PendingUnsettled
    <3> QED BY <3>1, <3>2
  <2>3. CASE ForwardBodyFails(r) \/ ForwardSendFails(r)
    <3>1. /\ pendingRequests' = pendingRequests /\ req[r] = "body"
          /\ Settled({r}, "not sent")
      BY Zenon, <2>3 DEF ForwardBodyFails, ForwardSendFails
    <3>2. pendingRequests' = pendingRequests \ {r}
      BY Zenon, <3>1 DEF PendingUnsettled
    <3> QED BY Zenon, <3>1, <3>2, SettledPending DEF Reply
  <2>4. CASE ForwardSend(r)
    BY <1>0, <2>4 DEF ForwardSend, PendingUnsettled
  <2>5. CASE ForwardTimeout(r)
    <3>1. pendingRequests' = pendingRequests \ {r} /\ Settled({r}, "lost")
      BY <2>5 DEF ForwardTimeout
    <3> QED BY Zenon, <3>1, SettledPending DEF Reply
  <2> QED BY <2>1, <2>2, <2>3, <2>4, <2>5 DEF RequestStep
<1>4. CASE SidecarLeaves \/ SidecarNotices
  BY <1>4 DEF SidecarLeaves, SidecarNotices, requestVars, PendingUnsettled
<1>5. CASE Evict
  <2>1. /\ pendingRequests' = {}
        /\ Settled({r \in Request : req[r] \in {"body", "waiting"}}, "lost")
    BY <1>5 DEF Evict
  <2>2. pendingRequests' = pendingRequests \ {r \in Request : req[r] \in {"body", "waiting"}}
    BY <1>0, <2>1 DEF PendingUnsettled
  <2> QED BY Zenon, <2>1, <2>2, SettledPending DEF Reply
<1>6. CASE UNCHANGED vars
  BY <1>6 DEF vars, requestVars, PendingUnsettled
<1> QED BY <1>1, <1>2, <1>3, <1>4, <1>5, <1>6, <1>7 DEF Next

-----------------------------------------------------------------------------
(* The one copy of a request *)

\* Steps that execute nothing, add no message and answer only requests that are
\* not answered yet, those that were not sent in any way, the others with
\* neither a Headscale response nor a word that they were turned away.
LEMMA CopyQuiet ==
  ASSUME OneCopy, served' = served, toSidecar' \subseteq toSidecar,
         handling' \subseteq handling, toRelay' \subseteq toRelay,
         \A r \in Request : Sent(r) => Sent(r)',
         \A r \in Request : reply'[r] = "headscale" \/ req'[r] = "abandoned" =>
            reply[r] = "headscale" \/ req[r] = "abandoned" \/ served[r] = 1,
         toSidecar \subseteq Message, handling \subseteq Message, toRelay \subseteq Response
  PROVE  OneCopy'
<1>1. Unserved' \subseteq Unserved
  BY DEF Unserved
<1>2. \A m \in Unserved : m.request \in Request
  BY DEF Unserved, Message
<1> QED BY <1>1, <1>2 DEF OneCopy

\* The same for a step that settles the promises of R.
LEMMA CopySettled ==
  ASSUME OneCopy, NEW R, NEW outcome, Settled(R, outcome),
         outcome = "not sent" => \A r \in R : r \in Request => ~Sent(r),
         outcome = "headscale" => \A r \in R : r \in Request => served[r] = 1,
         served' = served, toSidecar' \subseteq toSidecar,
         handling' \subseteq handling, toRelay' \subseteq toRelay,
         toSidecar \subseteq Message, handling \subseteq Message, toRelay \subseteq Response
  PROVE  OneCopy'
<1>1. \A r \in Request :
        /\ req'[r] = IF r \in R THEN "settled" ELSE req[r]
        /\ reply'[r] = IF r \in R THEN outcome ELSE reply[r]
  BY SettledValues
<1>2. \A r \in Request : Sent(r) => Sent(r)'
  BY <1>1 DEF Sent
<1>3. \A r \in Request : reply'[r] = "headscale" \/ req'[r] = "abandoned" =>
         reply[r] = "headscale" \/ req[r] = "abandoned" \/ served[r] = 1
  BY <1>1
<1> QED BY <1>2, <1>3, CopyQuiet

\* And for a restart of the sidecar, whose goroutines had passed some requests on.
LEMMA CopyPassedOn ==
  ASSUME OneCopy, handling' = {}, toSidecar' \subseteq toSidecar, UNCHANGED <<req, reply, toRelay>>,
         NEW passedOn \in SUBSET {m.request : m \in handling},
         served' = [r \in Request |-> IF r \in passedOn THEN served[r] + 1 ELSE served[r]],
         toSidecar \subseteq Message, handling \subseteq Message, toRelay \subseteq Response
  PROVE  OneCopy'
<1>1. \A r \in passedOn : r \in Request /\ served[r] = 0 /\ Sent(r)
  BY DEF OneCopy, Unserved, Message
<1>2. \A r \in Request : served'[r] = IF r \in passedOn THEN 1 ELSE served[r]
  BY <1>1
<1>3. \A r \in Request : Sent(r) <=> Sent(r)'
  BY DEF Sent
<1>4. Unserved' = toSidecar' /\ toSidecar' \subseteq Unserved
  BY DEF Unserved
<1>5. \A m \in toSidecar : m.request \in Request /\ m.request \notin passedOn
  BY DEF OneCopy, Unserved, Message
<1>6. /\ \A m, n \in Unserved' : m.request = n.request => m = n
      /\ \A m \in toSidecar' : m \notin handling'
      /\ \A m \in Unserved' : served'[m.request] = 0 /\ Sent(m.request)'
  BY <1>2, <1>3, <1>4, <1>5 DEF OneCopy
<1>7. \A m \in toRelay' : m.result = "headscale" => served'[m.request] = 1
  BY <1>1, <1>2 DEF OneCopy, Response
<1>8. \A r \in Request :
        /\ served'[r] \in {0, 1} /\ (served'[r] = 1 => Sent(r)')
        /\ reply'[r] = "headscale" \/ req'[r] = "abandoned" => served'[r] = 1
  BY <1>1, <1>2, <1>3 DEF OneCopy
<1> QED BY <1>6, <1>7, <1>8 DEF OneCopy

LEMMA ConnCopy ==
  ASSUME IInv, NEW c \in Conn, ConnStep(c)
  PROVE  OneCopy'
<1>0. /\ OneCopy
      /\ toSidecar \subseteq Message /\ handling \subseteq Message /\ toRelay \subseteq Response
  BY DEF IInv, TypeOK
<1>1. CASE CloseEvent(c)
  <2>1. /\ Settled(pendingRequests, "lost")
        /\ served' = served /\ toSidecar' = toSidecar /\ handling' = handling
        /\ toRelay' \subseteq toRelay
    BY Zenon, <1>1 DEF CloseEvent, PendingRejected, NotOn, sidecarVars
  <2> QED BY Zenon, <1>0, <2>1, CopySettled
<1>2. CASE ~CloseEvent(c)
  <2>1. UNCHANGED <<req, reply, served, toSidecar, handling, toRelay>>
    BY <1>2 DEF ConnStep, SidecarDial, AcceptTunnel, RefuseTunnel, requestVars, sidecarVars, messageVars
  <2> QED BY <1>0, <2>1, CopyQuiet DEF Sent
<1> QED BY <1>1, <1>2

LEMMA OtherCopy ==
  ASSUME IInv, SidecarLeaves \/ SidecarNotices \/ Evict
  PROVE  OneCopy'
<1>0. /\ OneCopy
      /\ toSidecar \subseteq Message /\ handling \subseteq Message /\ toRelay \subseteq Response
  BY DEF IInv, TypeOK
<1>1. CASE Evict
  <2>1. /\ Settled({r \in Request : req[r] \in {"body", "waiting"}}, "lost")
        /\ served' = served /\ toSidecar' = {} /\ handling' = handling /\ toRelay' = {}
    BY <1>1 DEF Evict, sidecarVars
  <2> QED BY <1>0, <2>1, CopySettled
<1>2. CASE SidecarNotices
  <2>1. UNCHANGED <<req, reply, served, toSidecar, handling, toRelay>>
    BY <1>2 DEF SidecarNotices, requestVars, messageVars
  <2> QED BY <1>0, <2>1, CopyQuiet DEF Sent
<1>3. CASE SidecarLeaves
  <2>1. UNCHANGED <<req, reply, toRelay>> /\ toSidecar' \subseteq toSidecar
    BY <1>3 DEF SidecarLeaves, NotOn, requestVars
  <2>2. CASE UNCHANGED <<handling, served>>
    BY <1>0, <2>1, <2>2, CopyQuiet DEF Sent
  <2>3. CASE handling' = {} /\ \E passedOn \in SUBSET {m.request : m \in handling} :
          served' = [r \in Request |-> IF r \in passedOn THEN served[r] + 1 ELSE served[r]]
    BY <1>0, <2>1, <2>3, CopyPassedOn
  <2> QED BY Zenon, <1>3, <2>2, <2>3 DEF SidecarLeaves
<1> QED BY <1>1, <1>2, <1>3

LEMMA MessageCopy ==
  ASSUME IInv, NEW m \in Message, MessageStep(m)
  PROVE  OneCopy'
<1>0. /\ OneCopy /\ m.request \in Request
      /\ toSidecar \subseteq Message /\ handling \subseteq Message /\ toRelay \subseteq Response
      /\ served \in [Request -> Nat]
      /\ req \in [Request -> {"new", "body", "waiting", "settled", "abandoned"}]
  BY DEF IInv, TypeOK, Message
<1>1. CASE SidecarReads(m)
  <2>1. /\ UNCHANGED <<req, reply, served, toRelay>> /\ m \in toSidecar
        /\ toSidecar' = toSidecar \ {m} /\ handling' = handling \cup {m}
    BY <1>1 DEF SidecarReads, requestVars
  <2>2. Unserved' = Unserved
    BY <2>1 DEF Unserved
  <2> QED BY <1>0, <2>1, <2>2 DEF OneCopy, Sent
<1>2. ASSUME NEW result \in Result, SidecarResponds(m, result) PROVE OneCopy'
  <2> DEFINE new == [conn |-> m.conn, request |-> m.request, result |-> result]
  <2>1. /\ UNCHANGED <<req, reply, toSidecar>> /\ m \in handling
        /\ handling' = handling \ {m} /\ toRelay' \subseteq toRelay \cup {new}
        /\ new.request = m.request /\ new.result = result
    BY <1>2 DEF SidecarResponds, requestVars
  <2>2. PICK executed \in IF result = "headscale" THEN {1} ELSE {0, 1} :
          served' = [served EXCEPT ![m.request] = @ + executed]
    BY Zenon, <1>2 DEF SidecarResponds
  <2> HIDE DEF new
  <2>3. m \in Unserved /\ served[m.request] = 0 /\ Sent(m.request)
    BY <1>0, <2>1 DEF OneCopy, Unserved
  <2>4. /\ served'[m.request] \in {0, 1} /\ (result = "headscale" => served'[m.request] = 1)
        /\ \A r \in Request : r # m.request => served'[r] = served[r]
    BY <1>0, <2>2, <2>3
  <2>5. Unserved' \subseteq Unserved /\ m \notin Unserved'
    BY <1>0, <2>1 DEF Unserved, OneCopy
  <2>6. \A n \in Unserved' : n.request \in Request /\ n.request # m.request
    BY <1>0, <2>3, <2>5 DEF OneCopy, Unserved, Message
  <2>7. \A r \in Request : served[r] = 1 => served'[r] = 1
    BY <2>3, <2>4
  <2>8. \A n \in toRelay' : n.result = "headscale" => served'[n.request] = 1
    <3> SUFFICES ASSUME NEW n \in toRelay', n.result = "headscale" PROVE served'[n.request] = 1
      OBVIOUS
    <3>1. CASE n = new
      BY <2>1, <2>4, <3>1
    <3>2. CASE n \in toRelay
      BY <1>0, <2>7, <3>2 DEF OneCopy, Response
    <3> QED BY <2>1, <3>1, <3>2
  <2>9. \A r \in Request : Sent(r) <=> Sent(r)'
    BY <2>1 DEF Sent
  <2>10. /\ \A n, l \in Unserved' : n.request = l.request => n = l
         /\ \A n \in toSidecar' : n \notin handling'
         /\ \A n \in Unserved' : served'[n.request] = 0 /\ Sent(n.request)'
    BY <1>0, <2>1, <2>4, <2>5, <2>6, <2>9 DEF OneCopy
  <2>11. \A r \in Request : served'[r] \in {0, 1} /\ (served'[r] = 1 => Sent(r)')
    BY <1>0, <2>3, <2>4, <2>9 DEF OneCopy
  <2>12. \A r \in Request : reply'[r] = "headscale" \/ req'[r] = "abandoned" => served'[r] = 1
    BY <1>0, <2>1, <2>7 DEF OneCopy
  <2> QED BY <2>8, <2>10, <2>11, <2>12 DEF OneCopy
<1> QED BY <1>1, <1>2 DEF MessageStep

LEMMA ResponseCopy ==
  ASSUME IInv, NEW m \in Response, ResponseStep(m)
  PROVE  OneCopy'
<1>0. /\ OneCopy /\ m.request \in Request /\ m.result # "not sent"
      /\ toSidecar \subseteq Message /\ handling \subseteq Message /\ toRelay \subseteq Response
      /\ req \in [Request -> {"new", "body", "waiting", "settled", "abandoned"}]
  BY DEF IInv, TypeOK, Response, Result
<1>1. m \in toRelay /\ m.result = "headscale" => served[m.request] = 1
  BY <1>0 DEF OneCopy
<1>2. CASE Receive(m)
  <2>1. /\ Settled({m.request} \cap pendingRequests, m.result) /\ m \in toRelay
        /\ served' = served /\ toSidecar' = toSidecar /\ handling' = handling
        /\ toRelay' \subseteq toRelay
    BY <1>2 DEF Receive, sidecarVars
  <2> QED BY <1>0, <1>1, <2>1, CopySettled
<1>3. CASE ReceiveThrows(m)
  <2>1. /\ req' = [req EXCEPT ![m.request] = "abandoned"] /\ reply' = reply
        /\ m \in toRelay /\ m.result = "headscale"
        /\ served' = served /\ toSidecar' = toSidecar /\ handling' = handling
        /\ toRelay' \subseteq toRelay
    BY <1>3 DEF ReceiveThrows, sidecarVars
  <2>2. \A r \in Request : Sent(r) => Sent(r)'
    BY <1>0, <2>1 DEF Sent
  <2>3. \A r \in Request : req'[r] = "abandoned" => req[r] = "abandoned" \/ served[r] = 1
    BY <1>0, <1>1, <2>1
  <2> QED BY <1>0, <2>1, <2>2, <2>3, CopyQuiet
<1> QED BY <1>2, <1>3 DEF ResponseStep

LEMMA RequestCopy ==
  ASSUME IInv, NEW r \in Request, RequestStep(r)
  PROVE  OneCopy'
<1>0. /\ OneCopy /\ PendingUnsettled
      /\ toSidecar \subseteq Message /\ handling \subseteq Message /\ toRelay \subseteq Response
      /\ req \in [Request -> {"new", "body", "waiting", "settled", "abandoned"}]
  BY DEF IInv, TypeOK
<1>1. ASSUME Settled({r}, "not sent"), req[r] \in {"new", "body"},
             UNCHANGED <<served, toSidecar, handling, toRelay>>
      PROVE  OneCopy'
  <2>1. ~Sent(r)
    BY Zenon, <1>1 DEF Sent
  <2> QED BY <1>0, <1>1, <2>1, CopySettled
<1>2. CASE ForwardStart(r)
  <2>1. CASE tunnel = None
    BY Zenon, <1>1, <1>2, <2>1 DEF ForwardStart, sidecarVars, messageVars
  <2>2. CASE tunnel # None
    <3>1. /\ req[r] = "new" /\ req' = [req EXCEPT ![r] = "body"] /\ reply' = reply
          /\ UNCHANGED <<served, toSidecar, handling, toRelay>>
      BY <1>2, <2>2 DEF ForwardStart, sidecarVars, messageVars
    <3>2. \A q \in Request : Sent(q) => Sent(q)'
      BY <1>0, <3>1 DEF Sent
    <3>3. \A q \in Request : req'[q] = "abandoned" => req[q] = "abandoned"
      BY <1>0, <3>1
    <3> QED BY <1>0, <3>1, <3>2, <3>3, CopyQuiet
  <2> QED BY <2>1, <2>2
<1>3. CASE ForwardBodyFails(r)
  BY Zenon, <1>1, <1>3 DEF ForwardBodyFails, sidecarVars, messageVars
<1>4. CASE ForwardSendFails(r)
  BY Zenon, <1>1, <1>4 DEF ForwardSendFails, sidecarVars, messageVars
<1>5. CASE ForwardTimeout(r)
  <2>1. Settled({r}, "lost") /\ UNCHANGED <<served, toSidecar, handling, toRelay>>
    BY <1>5 DEF ForwardTimeout, sidecarVars, messageVars
  <2> QED BY <1>0, <2>1, CopySettled
<1>6. CASE ForwardSend(r)
  <2> DEFINE m == [conn |-> tunnel, request |-> r]
  <2>1. /\ req[r] = "body" /\ req' = [req EXCEPT ![r] = "waiting"] /\ reply' = reply
        /\ UNCHANGED <<served, handling, toRelay>> /\ toSidecar' \subseteq toSidecar \cup {m}
        /\ m.request = r
    BY <1>6 DEF ForwardSend, sidecarVars
  <2> HIDE DEF m
  <2>2. ~Sent(r) /\ reply[r] = None
    BY <1>0, <2>1 DEF Sent, PendingUnsettled
  <2>3. /\ \A n \in Unserved : n.request \in Request /\ n.request # r
        /\ served[r] = 0
    BY <1>0, <2>2 DEF OneCopy, Unserved, Message
  <2>4. Sent(r)' /\ \A q \in Request : Sent(q) => Sent(q)'
    BY Zenon, <1>0, <2>1, <2>2 DEF Sent, Reply, Result
  <2>5. /\ Unserved' \subseteq Unserved \cup {m} /\ m \notin Unserved
        /\ m \notin handling'
    BY <2>1, <2>3 DEF Unserved
  <2>6. \A q \in Request : req'[q] = "abandoned" => req[q] = "abandoned"
    BY <1>0, <2>1
  <2>7. /\ \A n, l \in Unserved' : n.request = l.request => n = l
        /\ \A n \in toSidecar' : n \notin handling'
        /\ \A n \in Unserved' : served'[n.request] = 0 /\ Sent(n.request)'
    BY <1>0, <2>1, <2>3, <2>4, <2>5 DEF OneCopy
  <2> QED BY <1>0, <2>1, <2>4, <2>6, <2>7 DEF OneCopy
<1> QED BY <1>2, <1>3, <1>4, <1>5, <1>6 DEF RequestStep

-----------------------------------------------------------------------------
(* The theorems *)

LEMMA Initial == Init => IInv
<1> SUFFICES ASSUME Init PROVE IInv
  OBVIOUS
<1>1. TypeOK
  BY DEF Init, TypeOK
<1>2. TunnelOpen /\ PendingUnsettled
  BY DEF Init, TunnelOpen, PendingUnsettled
<1>3. OneCopy
  <2>1. None # "headscale"
    BY Zenon DEF Reply, Result
  <2>2. \A r \in Request : reply[r] = None /\ req[r] = "new" /\ served[r] = 0
    BY DEF Init
  <2>3. Unserved = {} /\ toSidecar = {} /\ toRelay = {}
    BY DEF Init, Unserved
  <2> QED BY <2>1, <2>2, <2>3 DEF OneCopy
<1> QED BY <1>1, <1>2, <1>3 DEF IInv

LEMMA StepKeeps == IInv /\ [Next]_vars => IInv'
<1> SUFFICES ASSUME IInv, [Next]_vars PROVE IInv'
  OBVIOUS
<1>1. TypeOK' /\ TunnelOpen' /\ PendingUnsettled'
  BY StepTyped, StepOpen, StepPending DEF IInv
<1>2. OneCopy'
  <2>1. CASE UNCHANGED vars
    <3>1. UNCHANGED <<req, reply, served, toSidecar, handling, toRelay>>
      BY <2>1 DEF vars, requestVars, sidecarVars, messageVars
    <3> QED BY <3>1 DEF IInv, OneCopy, Unserved, Sent
  <2> QED BY <2>1, ConnCopy, MessageCopy, ResponseCopy, RequestCopy, OtherCopy DEF Next
<1> QED BY <1>1, <1>2 DEF IInv

LEMMA Invariant == Spec => []IInv
<1>1. Init => IInv
  BY Initial
<1>2. IInv /\ [Next]_vars => IInv'
  BY StepKeeps
<1> QED BY <1>1, <1>2, PTL DEF Spec

\* The object's fields, the promises and the messages keep their types.
THEOREM TypeCorrect == Spec => []TypeOK
<1>1. IInv => TypeOK
  BY DEF IInv
<1> QED BY <1>1, Invariant, PTL

\* this.tunnel is never a closed connection, in whatever order dials are accepted
\* and close events come (acceptTunnel, tunnel-do.ts:71-86).
THEOREM TunnelIsOpen == Spec => []TunnelOpen
<1>1. IInv => TunnelOpen
  BY DEF IInv
<1> QED BY <1>1, Invariant, PTL

\* pendingRequests holds exactly the promises that wait, each with its timer
\* (forwardToHeadscale and handleTunnelMessage, tunnel-do.ts:174-196 and 284-300).
THEOREM MapHoldsWhatWaits == Spec => []PendingUnsettled
<1>1. IInv => PendingUnsettled
  BY DEF IInv
<1> QED BY <1>1, Invariant, PTL

\* A request is executed at most once, and no answer of the object contradicts
\* whether it was (forwardToHeadscale, tunnel-do.ts:120-196).
THEOREM TruthfulAnswers == Spec => []AnswersTruthful
<1>1. IInv => AnswersTruthful
  <2> SUFFICES ASSUME IInv, NEW r \in Request
               PROVE  /\ served[r] <= 1
                      /\ reply[r] = "headscale" \/ req[r] = "abandoned" => served[r] = 1
                      /\ reply[r] = "not sent" => served[r] = 0
    BY Zenon DEF AnswersTruthful
  <2>1. served[r] \in {0, 1}
    BY Zenon DEF IInv, OneCopy
  <2>2. reply[r] = "headscale" \/ req[r] = "abandoned" => served[r] = 1
    BY Zenon DEF IInv, OneCopy
  <2>3. served[r] <= 1
    BY <2>1
  <2>4. reply[r] = "not sent" => served[r] = 0
    BY Zenon, <2>1 DEF IInv, OneCopy, Sent
  <2> QED BY Zenon, <2>2, <2>3, <2>4
<1> QED BY <1>1, Invariant, PTL

=============================================================================
