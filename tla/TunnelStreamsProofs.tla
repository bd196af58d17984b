------------------------- MODULE TunnelStreamsProofs -------------------------
(***************************************************************************)
(* The order of a stream's chunks in both directions, for streams of any   *)
(* length. The inductive invariant counts: a chunk in a connection's       *)
(* buffer or in the tunnel has the number that its place in the queue and  *)
(* the chunks already delivered give it. That no chunk of the client is    *)
(* dropped while handleWsOpen is at work is the conjunct Early: before the *)
(* stream is registered the client cannot have its 101.                    *)
(***************************************************************************)
EXTENDS TunnelStreams, TLAPS

Message == [type : {"ws_open", "ws_close"}] \cup [type : {"ws_data"}, chunk : Nat]

Has(queue, type) == \E i \in 1 .. Len(queue) : queue[i].type = type

\* There is one ws_open, ahead of everything else.
OpenFirst(queue) == \A i \in 2 .. Len(queue) : queue[i].type # "ws_open"

\* A buffer holds the last of the chunks that were written to it.
Buffered(buf, written) ==
  /\ Len(buf) <= written
  /\ \A i \in 1 .. Len(buf) : buf[i] = written - Len(buf) + i

\* The data in a queue are numbered by their places, after the n chunks delivered.
Carries(queue, n) ==
  \A i \in 1 .. Len(queue) : queue[i].type = "ws_data" => queue[i].chunk = n + i

Types ==
  /\ client \in {"new", "waiting", "talking", "closed"}
  /\ pump \in {"none", "running", "done"}
  /\ open \in {"none", "dialing", "failed", "connected", "registered", "ended"}
  /\ headscale \in {"none", "open", "closed", "dropped"}
  /\ stream \in BOOLEAN /\ tunnelUp \in BOOLEAN /\ streamConn \in BOOLEAN
  /\ sent \in Nat /\ answered \in Nat
  /\ toSidecar \in Seq(Message) /\ toRelay \in Seq(Message)
  /\ clientBuf \in Seq(Nat) /\ headscaleBuf \in Seq(Nat)
  /\ upstream \in Seq(Nat) /\ got \in Seq(Nat)

\* Nothing is in a tunnel that is gone, nor anywhere before the upgrade.
Empties ==
  /\ ~tunnelUp => toSidecar = <<>> /\ toRelay = <<>>
  /\ client = "new" =>
       /\ ~stream /\ pump = "none" /\ open = "none" /\ got = <<>>
       /\ toSidecar = <<>> /\ toRelay = <<>>

\* How far the sidecar and its connection to Headscale are, relative to each other.
Phases ==
  /\ open \in {"none", "dialing", "failed"} <=> headscale = "none"
  /\ open = "registered" /\ headscale = "open" => streamConn
  /\ streamConn => open = "registered"
  /\ open = "ended" => headscale # "open"
  /\ Has(toSidecar, "ws_open") => open = "none"
  /\ OpenFirst(toSidecar)
  /\ headscale = "none" => answered = 0 /\ headscaleBuf = <<>>

\* Before the reader goroutine runs no data has come down, so none has gone up.
Early ==
  open \notin {"registered", "ended"} =>
    /\ client # "talking" /\ sent = 0
    /\ toRelay = <<>> /\ clientBuf = <<>> /\ upstream = <<>>
    /\ ~Has(toSidecar, "ws_data")

Live == tunnelUp /\ stream /\ client # "closed"

Down ==
  /\ InOrder(got)
  /\ Buffered(headscaleBuf, answered)
  /\ Live => Carries(toRelay, Len(got))
  /\ Live /\ open # "ended" => answered = Len(got) + Len(toRelay) + Len(headscaleBuf)

Up ==
  /\ InOrder(upstream)
  /\ Buffered(clientBuf, sent)
  /\ pump # "done" => ~Has(toSidecar, "ws_close")
  /\ headscale = "open" => Carries(toSidecar, Len(upstream))
  /\ headscale = "open" /\ tunnelUp /\ pump = "running" =>
       sent = Len(upstream) + Len(toSidecar) + Len(clientBuf)

IInv == Types /\ Empties /\ Phases /\ Early /\ Down /\ Up

-----------------------------------------------------------------------------
(* Queues and buffers *)

LEMMA MessageTypes ==
  /\ WsOpen \in Message /\ WsOpen.type = "ws_open"
  /\ WsClose \in Message /\ WsClose.type = "ws_close"
  /\ \A n \in Nat : Data(n) \in Message /\ Data(n).type = "ws_data" /\ Data(n).chunk = n
  /\ \A m \in Message : m.type \in {"ws_open", "ws_close", "ws_data"}
  /\ \A m \in Message : m.type = "ws_data" => m.chunk \in Nat
BY Zenon DEF WsOpen, WsClose, Data, Message

\* A queue that is read from the front.
LEMMA TailOfQueue ==
  ASSUME NEW q \in Seq(Message), q # <<>>, NEW n \in Nat
  PROVE  /\ Tail(q) \in Seq(Message) /\ Len(Tail(q)) = Len(q) - 1 /\ Len(q) \in Nat \ {0}
         /\ Head(q) \in Message /\ Has(q, Head(q).type)
         /\ \A t : Has(Tail(q), t) => Has(q, t)
         /\ OpenFirst(q) => ~Has(Tail(q), "ws_open") /\ OpenFirst(Tail(q))
         /\ Carries(q, n) => Carries(Tail(q), n + 1)
         /\ Carries(q, n) /\ Head(q).type = "ws_data" => Head(q).chunk = n + 1
<1>1. /\ Tail(q) \in Seq(Message) /\ Len(Tail(q)) = Len(q) - 1 /\ Len(q) \in Nat \ {0}
      /\ Head(q) \in Message /\ Head(q) = q[1]
  OBVIOUS
<1>2. \A i \in 1 .. Len(Tail(q)) : Tail(q)[i] = q[i + 1] /\ i + 1 \in 1 .. Len(q)
  OBVIOUS
<1>3. Has(q, Head(q).type)
  BY DEF Has
<1>4. \A t : Has(Tail(q), t) => Has(q, t)
  BY <1>2 DEF Has
<1>5. Carries(q, n) => Carries(Tail(q), n + 1)
  BY DEF Carries
<1>6. Carries(q, n) /\ Head(q).type = "ws_data" => Head(q).chunk = n + 1
  BY DEF Carries
<1>7. \A i \in 1 .. Len(Tail(q)) : i + 1 \in 2 .. Len(q)
  BY <1>1
<1>8. OpenFirst(q) => ~Has(Tail(q), "ws_open")
  BY Zenon, <1>2, <1>7 DEF OpenFirst, Has
<1>9. ~Has(Tail(q), "ws_open") => OpenFirst(Tail(q))
  BY DEF OpenFirst, Has
<1> QED BY Zenon, <1>1, <1>3, <1>4, <1>5, <1>6, <1>8, <1>9

\* A queue that is added to.
LEMMA AppendedQueue ==
  ASSUME NEW q \in Seq(Message), NEW m \in Message, NEW n \in Nat
  PROVE  /\ Append(q, m) \in Seq(Message) /\ Len(Append(q, m)) = Len(q) + 1 /\ Len(q) \in Nat
         /\ \A t : Has(Append(q, m), t) <=> Has(q, t) \/ m.type = t
         /\ OpenFirst(q) /\ (q = <<>> \/ m.type # "ws_open") => OpenFirst(Append(q, m))
         /\ Carries(q, n) /\ (m.type = "ws_data" => m.chunk = n + Len(q) + 1)
              => Carries(Append(q, m), n)
<1>1. /\ Append(q, m) \in Seq(Message) /\ Len(Append(q, m)) = Len(q) + 1 /\ Len(q) \in Nat
      /\ Append(q, m)[Len(q) + 1] = m
  OBVIOUS
<1>2. \A i \in 1 .. Len(q) : Append(q, m)[i] = q[i]
  OBVIOUS
<1>3. \A i \in 1 .. Len(Append(q, m)) : i \in 1 .. Len(q) \/ i = Len(q) + 1
  BY <1>1
<1>4. ASSUME NEW t PROVE Has(Append(q, m), t) <=> Has(q, t) \/ m.type = t
  <2>1. Has(Append(q, m), t) => Has(q, t) \/ m.type = t
    BY Zenon, <1>1, <1>2, <1>3 DEF Has
  <2>2. Len(q) + 1 \in 1 .. Len(Append(q, m)) /\ \A i \in 1 .. Len(q) : i \in 1 .. Len(Append(q, m))
    BY <1>1
  <2>3. Has(q, t) \/ m.type = t => Has(Append(q, m), t)
    BY Zenon, <1>1, <1>2, <2>2 DEF Has
  <2> QED BY Zenon, <2>1, <2>3
<1>5. ASSUME Carries(q, n), m.type = "ws_data" => m.chunk = n + Len(q) + 1
      PROVE  Carries(Append(q, m), n)
  BY <1>5 DEF Carries
<1>6. ASSUME OpenFirst(q), q = <<>> \/ m.type # "ws_open"
      PROVE  OpenFirst(Append(q, m))
  <2>1. \A i \in 2 .. Len(Append(q, m)) : i \in 2 .. Len(q) \/ (i = Len(q) + 1 /\ q # <<>>)
    BY <1>1
  <2>2. \A i \in 2 .. Len(q) : i \in 1 .. Len(q)
    BY <1>1
  <2> QED BY Zenon, <1>1, <1>2, <1>6, <2>1, <2>2 DEF OpenFirst
<1> QED BY Zenon, <1>1, <1>4, <1>5, <1>6

LEMMA EmptyQueue ==
  /\ \A t : ~Has(<<>>, t)
  /\ \A n : Carries(<<>>, n)
  /\ \A q \in Seq(Message) : (\A t \in {"ws_open", "ws_close", "ws_data"} : ~Has(q, t)) => q = <<>>
  /\ \A q, n : ~Has(q, "ws_data") => Carries(q, n)
<1>1. \A q \in Seq(Message) : (\A t \in {"ws_open", "ws_close", "ws_data"} : ~Has(q, t)) => q = <<>>
  <2> SUFFICES ASSUME NEW q \in Seq(Message), q # <<>>
               PROVE  \E t \in {"ws_open", "ws_close", "ws_data"} : Has(q, t)
    OBVIOUS
  <2> QED BY TailOfQueue, MessageTypes
<1>2. \A q, n : ~Has(q, "ws_data") => Carries(q, n)
  BY DEF Has, Carries
<1> QED BY <1>1 DEF Has, Carries

\* A buffer of numbered chunks, of which total were written, read and added to.
LEMMA TailOfBuffer ==
  ASSUME NEW b \in Seq(Nat), b # <<>>, NEW written \in Nat, Buffered(b, written)
  PROVE  /\ Tail(b) \in Seq(Nat) /\ Len(Tail(b)) = Len(b) - 1 /\ Len(b) \in Nat \ {0}
         /\ Head(b) \in Nat /\ Head(b) = written - Len(b) + 1
         /\ Buffered(Tail(b), written)
<1>1. /\ Tail(b) \in Seq(Nat) /\ Len(Tail(b)) = Len(b) - 1 /\ Len(b) \in Nat \ {0}
      /\ Head(b) \in Nat /\ Head(b) = b[1]
  OBVIOUS
<1>2. \A i \in 1 .. Len(Tail(b)) : Tail(b)[i] = b[i + 1] /\ i + 1 \in 1 .. Len(b)
  OBVIOUS
<1> QED BY DEF Buffered

LEMMA AppendedBuffer ==
  ASSUME NEW b \in Seq(Nat), NEW written \in Nat, Buffered(b, written)
  PROVE  /\ Append(b, written + 1) \in Seq(Nat) /\ Len(Append(b, written + 1)) = Len(b) + 1
         /\ Len(b) \in Nat /\ Buffered(Append(b, written + 1), written + 1)
<1>1. /\ Append(b, written + 1) \in Seq(Nat) /\ Len(Append(b, written + 1)) = Len(b) + 1
      /\ Append(b, written + 1)[Len(b) + 1] = written + 1 /\ Len(b) \in Nat
  OBVIOUS
<1>2. \A i \in 1 .. Len(b) : Append(b, written + 1)[i] = b[i]
  OBVIOUS
<1>3. \A i \in 1 .. Len(b) + 1 : i \in 1 .. Len(b) \/ i = Len(b) + 1
  BY <1>1
<1> QED BY <1>1, <1>2 DEF Buffered

\* What was delivered, one more chunk with it.
LEMMA AppendedChunk ==
  ASSUME NEW s \in Seq(Nat), InOrder(s), NEW c \in Nat, c = Len(s) + 1
  PROVE  /\ Append(s, c) \in Seq(Nat) /\ Len(Append(s, c)) = Len(s) + 1 /\ Len(s) \in Nat
         /\ InOrder(Append(s, c))
<1>1. /\ Append(s, c) \in Seq(Nat) /\ Len(Append(s, c)) = Len(s) + 1
      /\ Append(s, c)[Len(s) + 1] = c /\ Len(s) \in Nat
      /\ DOMAIN s = 1 .. Len(s) /\ DOMAIN Append(s, c) = 1 .. Len(s) + 1
  OBVIOUS
<1>2. \A i \in 1 .. Len(s) : Append(s, c)[i] = s[i]
  OBVIOUS
<1>3. \A i \in 1 .. Len(s) + 1 : i \in 1 .. Len(s) \/ i = Len(s) + 1
  BY <1>1
<1> QED BY <1>1 DEF InOrder

-----------------------------------------------------------------------------
(* The relay and the client *)

LEMMA UpgradeStep == ASSUME IInv, StreamUpgrade PROVE IInv'
<1>1. /\ client = "new" /\ toSidecar = <<>> /\ toRelay = <<>> /\ got = <<>> /\ open = "none"
      /\ headscale = "none" /\ answered = 0 /\ headscaleBuf = <<>> /\ client' # "new"
      /\ headscale' = "none"
  BY Zenon DEF IInv, StreamUpgrade, Empties, Phases, headscaleVars
<1>2. /\ toSidecar' \in Seq(Message)
      /\ ~Has(toSidecar', "ws_data") /\ ~Has(toSidecar', "ws_close")
      /\ OpenFirst(toSidecar')
      /\ ~tunnelUp => toSidecar' = <<>>
  <2>1. toSidecar \in Seq(Message) /\ ~Has(toSidecar, "ws_data") /\ ~Has(toSidecar, "ws_close")
    BY Zenon, <1>1, EmptyQueue DEF IInv, Types
  <2>0. OpenFirst(toSidecar) /\ toSidecar = <<>>
    BY <1>1 DEF IInv, Phases
  <2>2. CASE tunnelUp
    <3>1. toSidecar' = Append(toSidecar, WsOpen)
      BY Zenon, <2>2 DEF StreamUpgrade, Sent
    <3> QED BY ZenonT(40), <2>0, <2>1, <2>2, <3>1, AppendedQueue, MessageTypes, 0 \in Nat
  <2>3. CASE ~tunnelUp
    BY Zenon, <2>0, <2>1, <2>3 DEF StreamUpgrade, Sent
  <2> QED BY <2>2, <2>3
<1>3. Types'
  BY ZenonT(40), <1>2 DEF IInv, Types, StreamUpgrade, relayVars, sidecarVars, headscaleVars
<1>4. Empties'
  BY Zenon, <1>2 DEF IInv, Empties, StreamUpgrade
<1>5. Phases'
  BY Zenon, <1>1, <1>2 DEF IInv, Phases, StreamUpgrade, sidecarVars, headscaleVars
<1>6. Early'
  BY Zenon, <1>2 DEF IInv, Early, StreamUpgrade, sidecarVars, headscaleVars
<1>7. Down'
  <2>1. Len(headscaleBuf) = 0 /\ Len(got) = 0 /\ Len(toRelay) = 0
    BY <1>1
  <2> QED BY <1>1, EmptyQueue DEF IInv, Down, StreamUpgrade, headscaleVars
<1>8. Up'
  BY Zenon, <1>1, <1>2 DEF IInv, Up, StreamUpgrade, headscaleVars
<1> QED BY <1>3, <1>4, <1>5, <1>6, <1>7, <1>8 DEF IInv

LEMMA ClientSendsStep == ASSUME IInv, ClientSends PROVE IInv'
<1>1. /\ clientBuf' \in Seq(Nat) /\ Len(clientBuf') = Len(clientBuf) + 1 /\ sent' = sent + 1
      /\ Len(clientBuf) \in Nat /\ sent \in Nat /\ Buffered(clientBuf', sent')
  BY Zenon, AppendedBuffer DEF IInv, Types, Up, ClientSends
<1>2. Types'
  BY DEF IInv, Types, ClientSends, relayVars, tunnelVars, sidecarVars, headscaleVars
<1>3. Empties' /\ Phases' /\ Down'
  BY Zenon
    DEF IInv, Empties, Phases, Down, Live, ClientSends, relayVars, tunnelVars,
        sidecarVars, headscaleVars
<1>4. Early'
  BY Zenon DEF IInv, Early, ClientSends, sidecarVars
<1>5. Up'
  <2>1. Len(upstream) \in Nat /\ Len(toSidecar) \in Nat
    BY DEF Types
  <2> QED BY <1>1 DEF IInv, Up, ClientSends, relayVars, tunnelVars, headscaleVars
<1> QED BY Zenon, <1>2, <1>3, <1>4, <1>5 DEF IInv

LEMMA ClientClosesStep == ASSUME IInv, ClientCloses PROVE IInv'
<1>1. Types' /\ Empties' /\ Phases'
  BY DEF IInv, Types, Empties, Phases, ClientCloses, relayVars, tunnelVars, sidecarVars,
         headscaleVars
<1>2. Early' /\ Down' /\ Up'
  BY Zenon
    DEF IInv, Early, Down, Up, Live, ClientCloses, relayVars, tunnelVars, sidecarVars,
        headscaleVars
<1> QED BY Zenon, <1>1, <1>2 DEF IInv

LEMMA PumpForwardsStep == ASSUME IInv, PumpForwards PROVE IInv'
<1>1. /\ Len(clientBuf) \in Nat /\ sent \in Nat /\ sent' = sent
      /\ clientBuf' \in Seq(Nat) /\ Len(clientBuf') = Len(clientBuf) - 1
      /\ Head(clientBuf) \in Nat /\ Head(clientBuf) = sent - Len(clientBuf) + 1
      /\ Buffered(clientBuf', sent)
  BY Zenon, TailOfBuffer DEF IInv, Types, Up, PumpForwards
<1>2. /\ client # "new" /\ client' # "new" /\ open \in {"registered", "ended"}
      /\ client' \in {client, "closed"}
  BY Zenon DEF IInv, Empties, Early, PumpForwards
<1> DEFINE m == Data(Head(clientBuf))
<1>3. m \in Message /\ m.type = "ws_data" /\ m.chunk = Head(clientBuf)
  BY Zenon, <1>1, MessageTypes
<1>4. toSidecar' = IF tunnelUp THEN Append(toSidecar, m) ELSE toSidecar
  BY DEF PumpForwards, Sent
<1>5. toSidecar \in Seq(Message) /\ Len(toSidecar) \in Nat /\ Len(upstream) \in Nat
  BY DEF IInv, Types
<1> HIDE DEF m
<1>6. /\ toSidecar' \in Seq(Message) /\ (~tunnelUp => toSidecar' = toSidecar)
      /\ tunnelUp => Len(toSidecar') = Len(toSidecar) + 1
      /\ Has(toSidecar', "ws_open") => Has(toSidecar, "ws_open")
      /\ OpenFirst(toSidecar) => OpenFirst(toSidecar')
      /\ Has(toSidecar', "ws_close") => Has(toSidecar, "ws_close")
      /\ Carries(toSidecar, Len(upstream))
           /\ (tunnelUp => Head(clientBuf) = Len(upstream) + Len(toSidecar) + 1)
           => Carries(toSidecar', Len(upstream))
  BY <1>3, <1>4, <1>5, AppendedQueue
<1>7. Types'
  BY ZenonT(40), <1>1, <1>2, <1>6 DEF IInv, Types, PumpForwards, relayVars, sidecarVars, headscaleVars
<1>8. Empties'
  BY Zenon, <1>6 DEF IInv, Empties, PumpForwards
<1>9. Phases' /\ Early'
  BY Zenon, <1>6 DEF IInv, Phases, Early, PumpForwards, sidecarVars, headscaleVars
<1>10. Down'
  BY Zenon DEF IInv, Down, Live, PumpForwards, sidecarVars, headscaleVars
<1>11. Up'
  <2>1. headscale = "open" /\ tunnelUp => Head(clientBuf) = Len(upstream) + Len(toSidecar) + 1
    BY <1>1 DEF IInv, Up, PumpForwards
  <2>2. headscale = "open" => Carries(toSidecar', Len(upstream))
    BY Zenon, <1>6, <2>1 DEF IInv, Up
  <2>3. ASSUME headscale = "open", tunnelUp
        PROVE  sent' = Len(upstream) + Len(toSidecar') + Len(clientBuf')
    <3>1. Len(toSidecar') = Len(toSidecar) + 1
      BY Zenon, <1>6, <2>3
    <3>2. Head(clientBuf) = Len(upstream) + Len(toSidecar) + 1
      BY <2>1, <2>3
    <3>3. /\ sent' = sent /\ sent \in Nat /\ Len(clientBuf') = Len(clientBuf) - 1
          /\ Len(clientBuf) \in Nat /\ Len(toSidecar) \in Nat /\ Len(upstream) \in Nat
      BY Zenon, <1>1, <1>5
    <3>4. Len(upstream) + Len(toSidecar) + 1 = sent - Len(clientBuf) + 1
      BY Zenon, <1>1, <3>2
    <3> QED BY <3>1, <3>3, <3>4
  <2>4. pump = "running" /\ headscale' = headscale /\ upstream' = upstream /\ tunnelUp' = tunnelUp
    BY Zenon DEF PumpForwards, headscaleVars
  <2> QED BY Zenon, <1>1, <1>6, <2>2, <2>3, <2>4 DEF IInv, Up
<1> QED BY <1>7, <1>8, <1>9, <1>10, <1>11 DEF IInv

LEMMA PumpEndsStep == ASSUME IInv, PumpEnds PROVE IInv'
<1>1. toSidecar \in Seq(Message) /\ Len(toSidecar) \in Nat /\ Len(upstream) \in Nat
  BY DEF IInv, Types
<1>2. toSidecar' = IF tunnelUp THEN Append(toSidecar, WsClose) ELSE toSidecar
  BY DEF PumpEnds, Sent
<1>3. /\ toSidecar' \in Seq(Message) /\ (~tunnelUp => toSidecar' = toSidecar)
      /\ Has(toSidecar', "ws_open") => Has(toSidecar, "ws_open")
      /\ OpenFirst(toSidecar) => OpenFirst(toSidecar')
      /\ Has(toSidecar', "ws_data") => Has(toSidecar, "ws_data")
      /\ Carries(toSidecar, Len(upstream)) => Carries(toSidecar', Len(upstream))
  BY Zenon, <1>1, <1>2, AppendedQueue, MessageTypes
<1>4. client # "new"
  BY DEF IInv, Empties, PumpEnds
<1>5. Types'
  BY ZenonT(40), <1>3 DEF IInv, Types, PumpEnds, clientVars, sidecarVars, headscaleVars
<1>6. Empties'
  BY Zenon, <1>3 DEF IInv, Empties, PumpEnds, clientVars
<1>7. Phases' /\ Early'
  BY Zenon, <1>3 DEF IInv, Phases, Early, PumpEnds, clientVars, sidecarVars, headscaleVars
<1>8. Down' /\ Up'
  BY Zenon, <1>3 DEF IInv, Down, Up, Live, PumpEnds, clientVars, sidecarVars, headscaleVars
<1> QED BY <1>5, <1>6, <1>7, <1>8 DEF IInv


LEMMA ReadDataStep == ASSUME IInv, ReadData PROVE IInv'
<1>1. toRelay \in Seq(Message) /\ toRelay # <<>> /\ Head(toRelay).type = "ws_data"
  BY Zenon DEF IInv, Types, ReadData, Receives
<1>2. Len(got) \in Nat /\ Len(headscaleBuf) \in Nat /\ got \in Seq(Nat)
  BY DEF IInv, Types
<1>3. /\ toRelay' \in Seq(Message) /\ Len(toRelay') = Len(toRelay) - 1 /\ Len(toRelay) \in Nat
      /\ Head(toRelay) \in Message
      /\ Carries(toRelay, Len(got)) =>
           Carries(toRelay', Len(got) + 1) /\ Head(toRelay).chunk = Len(got) + 1
  BY Zenon, <1>1, <1>2, TailOfQueue DEF ReadData
<1>4. /\ client # "new" /\ tunnelUp /\ open \in {"registered", "ended"}
      /\ client' \in {client, "talking"}
  BY Zenon, <1>1 DEF IInv, Empties, Early, ReadData
<1>5. CASE stream /\ client # "closed"
  <2>1. Head(toRelay).chunk \in Nat /\ Head(toRelay).chunk = Len(got) + 1
    BY Zenon, <1>1, <1>3, <1>4, <1>5, MessageTypes DEF IInv, Down, Live
  <2>2. got' = Append(got, Head(toRelay).chunk) /\ client' = "talking"
    BY Zenon, <1>5 DEF ReadData
  <2>3. got' \in Seq(Nat) /\ Len(got') = Len(got) + 1 /\ InOrder(got')
    BY Zenon, <1>2, <2>1, <2>2, AppendedChunk DEF IInv, Down
  <2>4. Carries(toRelay', Len(got'))
    BY Zenon, <1>3, <1>4, <1>5, <2>3 DEF IInv, Down, Live
  <2>5. Types'
    BY <1>3, <2>3 DEF IInv, Types, ReadData, relayVars, sidecarVars, headscaleVars
  <2>6. Empties' /\ Phases' /\ Early'
    BY Zenon, <1>4 DEF IInv, Empties, Phases, Early, ReadData, sidecarVars, headscaleVars
  <2>7. open # "ended" => answered = Len(got') + Len(toRelay') + Len(headscaleBuf)
    BY <1>3, <1>4, <1>5, <2>3 DEF IInv, Down, Live
  <2>8. Down'
    BY ZenonT(40), <2>3, <2>4, <2>7 DEF IInv, Down, ReadData, sidecarVars, headscaleVars
  <2>9. Up'
    BY Zenon DEF IInv, Up, ReadData, relayVars, headscaleVars
  <2> QED BY Zenon, <2>5, <2>6, <2>8, <2>9 DEF IInv
<1>6. CASE ~(stream /\ client # "closed")
  <2>1. UNCHANGED <<got, client>>
    BY <1>6 DEF ReadData
  <2>2. Types'
    BY <1>3, <2>1 DEF IInv, Types, ReadData, relayVars, sidecarVars, headscaleVars
  <2>3. Empties' /\ Phases' /\ Early'
    BY Zenon, <1>4 DEF IInv, Empties, Phases, Early, ReadData, sidecarVars, headscaleVars
  <2>4. Down' /\ Up'
    BY Zenon, <1>6 DEF IInv, Down, Up, Live, ReadData, relayVars, sidecarVars, headscaleVars
  <2> QED BY <2>2, <2>3, <2>4 DEF IInv
<1> QED BY <1>5, <1>6

LEMMA ReadCloseStep == ASSUME IInv, ReadClose PROVE IInv'
<1>1. toRelay \in Seq(Message) /\ toRelay # <<>>
  BY Zenon DEF IInv, Types, ReadClose, Receives
<1>2. toRelay' \in Seq(Message)
  BY Zenon, <1>1, TailOfQueue DEF ReadClose
<1>3. tunnelUp /\ open \in {"registered", "ended"}
  BY Zenon, <1>1 DEF IInv, Empties, Early
<1>4. Types'
  BY ZenonT(40), <1>2 DEF IInv, Types, ReadClose, sidecarVars, headscaleVars
<1>5. Empties' /\ Phases' /\ Early'
  BY Zenon, <1>3 DEF IInv, Empties, Phases, Early, ReadClose, sidecarVars, headscaleVars
<1>6. Down' /\ Up'
  BY Zenon DEF IInv, Down, Up, Live, ReadClose, sidecarVars, headscaleVars
<1> QED BY <1>4, <1>5, <1>6 DEF IInv

-----------------------------------------------------------------------------
(* The sidecar and Headscale *)

LEMMA ReadsOpenStep == ASSUME IInv, SidecarReadsOpen PROVE IInv'
<1>1. toSidecar \in Seq(Message) /\ toSidecar # <<>> /\ Head(toSidecar).type = "ws_open"
  BY Zenon DEF IInv, Types, SidecarReadsOpen, Receives
<1>2. /\ toSidecar' \in Seq(Message) /\ Has(toSidecar, "ws_open")
      /\ \A t : Has(toSidecar', t) => Has(toSidecar, t)
  BY <1>1, TailOfQueue DEF SidecarReadsOpen
<1>3. open = "none" /\ headscale = "none" /\ client # "new" /\ tunnelUp /\ ~streamConn
  BY Zenon, <1>1, <1>2 DEF IInv, Phases, Empties
<1>4. ~Has(toSidecar', "ws_open") /\ OpenFirst(toSidecar')
  BY Zenon, <1>1, TailOfQueue DEF IInv, Phases, SidecarReadsOpen
<1>5. Types'
  BY <1>2 DEF IInv, Types, SidecarReadsOpen, clientVars, relayVars, headscaleVars
<1>6. Empties'
  BY Zenon, <1>3 DEF Empties, SidecarReadsOpen, clientVars
<1>7. Phases'
  BY Zenon, <1>3, <1>4 DEF IInv, Phases, SidecarReadsOpen, headscaleVars
<1>8. Early'
  BY Zenon, <1>2, <1>3 DEF IInv, Early, SidecarReadsOpen, clientVars, headscaleVars
<1>9. Down' /\ Up'
  BY Zenon, <1>2, <1>3
    DEF IInv, Down, Up, Live, SidecarReadsOpen, clientVars, relayVars, headscaleVars
<1> QED BY <1>5, <1>6, <1>7, <1>8, <1>9 DEF IInv

LEMMA ConnectsStep == ASSUME IInv, OpenConnects PROVE IInv'
<1>1. /\ headscale = "none" /\ sent = 0 /\ clientBuf = <<>> /\ upstream = <<>>
      /\ ~Has(toSidecar, "ws_data") /\ ~Has(toSidecar, "ws_open") /\ ~streamConn
      /\ toSidecar \in Seq(Message) /\ client # "new"
  BY Zenon DEF IInv, Types, Phases, Early, Empties, OpenConnects
<1>2. Carries(toSidecar, Len(upstream))
  BY Zenon, <1>1, EmptyQueue
<1>3. pump = "running" => toSidecar = <<>>
  BY Zenon, <1>1, EmptyQueue DEF IInv, Up
<1>4. Types'
  BY DEF IInv, Types, OpenConnects, clientVars, relayVars, tunnelVars
<1>5. Empties' /\ Phases' /\ Early'
  BY Zenon DEF IInv, Empties, Phases, Early, OpenConnects, clientVars, relayVars, tunnelVars
<1>6. Down'
  BY Zenon DEF IInv, Down, Live, OpenConnects, clientVars, relayVars, tunnelVars
<1>7. Up'
  <2>1. pump = "running" => sent = Len(upstream) + Len(toSidecar) + Len(clientBuf)
    BY <1>1, <1>3
  <2> QED BY Zenon, <1>2, <2>1 DEF IInv, Up, OpenConnects, clientVars, relayVars, tunnelVars
<1> QED BY Zenon, <1>4, <1>5, <1>6, <1>7 DEF IInv

LEMMA FailsStep == ASSUME IInv, OpenFails PROVE IInv'
<1>1. Types' /\ Empties' /\ Phases' /\ Early'
  BY DEF IInv, Types, Empties, Phases, Early, OpenFails, clientVars, relayVars, tunnelVars,
         headscaleVars
<1>2. Down' /\ Up'
  BY Zenon
    DEF IInv, Down, Up, Live, OpenFails, clientVars, relayVars, tunnelVars,
        headscaleVars
<1> QED BY <1>1, <1>2 DEF IInv

LEMMA RegistersStep == ASSUME IInv, OpenRegisters PROVE IInv'
<1>1. Types' /\ Empties' /\ Phases' /\ Early'
  BY DEF IInv, Types, Empties, Phases, Early, OpenRegisters, clientVars, relayVars, tunnelVars,
         headscaleVars
<1>2. Down' /\ Up'
  BY Zenon
    DEF IInv, Down, Up, Live, OpenRegisters, clientVars, relayVars, tunnelVars,
        headscaleVars
<1> QED BY Zenon, <1>1, <1>2 DEF IInv

LEMMA ReaderForwardsStep == ASSUME IInv, ReaderForwards PROVE IInv'
<1>1. /\ Len(headscaleBuf) \in Nat /\ answered \in Nat /\ answered' = answered
      /\ headscaleBuf' \in Seq(Nat) /\ Len(headscaleBuf') = Len(headscaleBuf) - 1
      /\ Head(headscaleBuf) \in Nat /\ Head(headscaleBuf) = answered - Len(headscaleBuf) + 1
      /\ Buffered(headscaleBuf', answered)
  BY Zenon, TailOfBuffer DEF IInv, Types, Down, ReaderForwards
<1>2. open = "registered" /\ headscale # "none" /\ client # "new"
  BY Zenon DEF IInv, Empties, Phases, ReaderForwards, Reading
<1> DEFINE m == Data(Head(headscaleBuf))
<1>3. m \in Message /\ m.type = "ws_data" /\ m.chunk = Head(headscaleBuf)
  BY Zenon, <1>1, MessageTypes
<1>4. toRelay' = IF tunnelUp THEN Append(toRelay, m) ELSE toRelay
  BY Zenon DEF ReaderForwards, Sent
<1>5. toRelay \in Seq(Message) /\ Len(toRelay) \in Nat /\ Len(got) \in Nat
  BY DEF IInv, Types
<1> HIDE DEF m
<1>6. /\ toRelay' \in Seq(Message) /\ (~tunnelUp => toRelay' = toRelay)
      /\ tunnelUp => Len(toRelay') = Len(toRelay) + 1
      /\ Carries(toRelay, Len(got)) /\ Head(headscaleBuf) = Len(got) + Len(toRelay) + 1
           => Carries(toRelay', Len(got))
  BY Zenon, <1>3, <1>4, <1>5, AppendedQueue
<1>7. Types'
  BY <1>6 DEF IInv, Types, ReaderForwards, clientVars, relayVars, sidecarVars
<1>8. Empties' /\ Phases' /\ Early'
  BY Zenon, <1>2, <1>6
    DEF IInv, Empties, Phases, Early, ReaderForwards, clientVars, sidecarVars
<1>9. Down'
  <2>1. ASSUME Live
        PROVE  /\ Carries(toRelay', Len(got))
               /\ answered = Len(got) + Len(toRelay') + Len(headscaleBuf')
    <3>1. answered = Len(got) + Len(toRelay) + Len(headscaleBuf) /\ tunnelUp
      BY Zenon, <1>2, <2>1 DEF IInv, Down, Live
    <3>2. Len(toRelay') = Len(toRelay) + 1
      BY <1>6, <3>1
    <3>3. Head(headscaleBuf) = Len(got) + Len(toRelay) + 1
      BY <1>1, <3>1
    <3>4. Len(headscaleBuf') = Len(headscaleBuf) - 1 /\ Len(headscaleBuf) \in Nat
      BY <1>1
    <3>5. answered = Len(got) + Len(toRelay') + Len(headscaleBuf')
      BY <3>1, <3>2, <3>4
    <3>6. Carries(toRelay', Len(got))
      BY Zenon, <1>6, <2>1, <3>3 DEF IInv, Down
    <3> QED BY <3>5, <3>6
  <2>2. /\ UNCHANGED <<tunnelUp, stream, client, got, open>>
    BY Zenon DEF ReaderForwards, clientVars, relayVars, sidecarVars
  <2> QED BY Zenon, <1>1, <2>1, <2>2 DEF IInv, Down, Live
<1>10. Up'
  BY Zenon DEF IInv, Up, ReaderForwards, clientVars, relayVars
<1> QED BY <1>7, <1>8, <1>9, <1>10 DEF IInv

LEMMA ReaderEndsStep == ASSUME IInv, ReaderEnds PROVE IInv'
<1>1. toRelay \in Seq(Message) /\ Len(toRelay) \in Nat /\ Len(got) \in Nat
  BY DEF IInv, Types
<1>2. toRelay' = IF tunnelUp THEN Append(toRelay, WsClose) ELSE toRelay
  BY DEF ReaderEnds, Sent
<1>3. /\ toRelay' \in Seq(Message) /\ (~tunnelUp => toRelay' = toRelay)
      /\ Carries(toRelay, Len(got)) => Carries(toRelay', Len(got))
  BY Zenon, <1>1, <1>2, AppendedQueue, MessageTypes
<1>4. client # "new" /\ headscale \in {"dropped", "closed"} /\ open = "registered"
  BY DEF IInv, Empties, ReaderEnds
<1>5. Types'
  BY ZenonT(40), <1>3 DEF IInv, Types, ReaderEnds, clientVars, relayVars, headscaleVars
<1>6. Empties' /\ Phases' /\ Early'
  BY Zenon, <1>3
    DEF IInv, Empties, Phases, Early, ReaderEnds, clientVars, relayVars, headscaleVars
<1>7. Down' /\ Up'
  BY Zenon, <1>3 DEF IInv, Down, Up, Live, ReaderEnds, clientVars, relayVars, headscaleVars
<1> QED BY <1>5, <1>6, <1>7 DEF IInv

LEMMA ReadsDataStep == ASSUME IInv, SidecarReadsData PROVE IInv'
<1>1. toSidecar \in Seq(Message) /\ toSidecar # <<>> /\ Head(toSidecar).type = "ws_data"
  BY Zenon DEF IInv, Types, SidecarReadsData, Receives
<1>2. Len(upstream) \in Nat /\ Len(clientBuf) \in Nat /\ upstream \in Seq(Nat)
  BY DEF IInv, Types
<1>3. /\ toSidecar' \in Seq(Message) /\ Len(toSidecar') = Len(toSidecar) - 1
      /\ Len(toSidecar) \in Nat /\ Head(toSidecar) \in Message /\ Has(toSidecar, "ws_data")
      /\ \A t : Has(toSidecar', t) => Has(toSidecar, t)
      /\ OpenFirst(toSidecar) => OpenFirst(toSidecar')
      /\ Carries(toSidecar, Len(upstream)) =>
           Carries(toSidecar', Len(upstream) + 1) /\ Head(toSidecar).chunk = Len(upstream) + 1
  BY <1>1, TailOfQueue DEF SidecarReadsData
<1>4. /\ client # "new" /\ tunnelUp /\ open \in {"registered", "ended"}
      /\ headscale = "open" => streamConn
  BY Zenon, <1>1, <1>3 DEF IInv, Empties, Early, Phases
<1>5. CASE headscale = "open"
  <2>1. Head(toSidecar).chunk \in Nat /\ Head(toSidecar).chunk = Len(upstream) + 1
    BY Zenon, <1>1, <1>3, <1>5, MessageTypes DEF IInv, Up
  <2>2. upstream' = Append(upstream, Head(toSidecar).chunk)
    BY Zenon, <1>4, <1>5 DEF SidecarReadsData
  <2>3. upstream' \in Seq(Nat) /\ Len(upstream') = Len(upstream) + 1 /\ InOrder(upstream')
    BY Zenon, <1>2, <2>1, <2>2, AppendedChunk DEF IInv, Up
  <2>4. Carries(toSidecar', Len(upstream'))
    BY Zenon, <1>3, <1>5, <2>3 DEF IInv, Up
  <2>5. Types'
    BY <1>3, <2>3 DEF IInv, Types, SidecarReadsData, clientVars, relayVars, sidecarVars
  <2>6. Empties' /\ Phases' /\ Early'
    BY Zenon, <1>3, <1>4
      DEF IInv, Empties, Phases, Early, SidecarReadsData, clientVars, relayVars,
          sidecarVars
  <2>7. pump = "running" => sent = Len(upstream') + Len(toSidecar') + Len(clientBuf)
    BY <1>3, <1>4, <1>5, <2>3 DEF IInv, Up
  <2>8. Up'
    BY Zenon, <1>3, <2>3, <2>7 DEF IInv, Up, SidecarReadsData, clientVars, relayVars
  <2>9. Down'
    BY Zenon DEF IInv, Down, Live, SidecarReadsData, clientVars, relayVars, sidecarVars
  <2> QED BY <2>5, <2>6, <2>8, <2>9 DEF IInv
<1>6. CASE headscale # "open"
  <2>1. upstream' = upstream
    BY <1>6 DEF SidecarReadsData
  <2>2. Types'
    BY <1>3, <2>1 DEF IInv, Types, SidecarReadsData, clientVars, relayVars, sidecarVars
  <2>3. Empties' /\ Phases' /\ Early'
    BY Zenon, <1>3, <1>4
      DEF IInv, Empties, Phases, Early, SidecarReadsData, clientVars, sidecarVars
  <2>4. Down' /\ Up'
    BY Zenon, <1>3, <1>6
      DEF IInv, Down, Up, Live, SidecarReadsData, clientVars, relayVars, sidecarVars
  <2> QED BY <2>2, <2>3, <2>4 DEF IInv
<1> QED BY <1>5, <1>6


LEMMA ReadsCloseStep == ASSUME IInv, SidecarReadsClose PROVE IInv'
<1>1. toSidecar \in Seq(Message) /\ toSidecar # <<>> /\ Head(toSidecar).type = "ws_close"
  BY Zenon DEF IInv, Types, SidecarReadsClose, Receives
<1>2. /\ toSidecar' \in Seq(Message) /\ Has(toSidecar, "ws_close")
      /\ \A t : Has(toSidecar', t) => Has(toSidecar, t)
      /\ OpenFirst(toSidecar) => OpenFirst(toSidecar')
  BY <1>1, TailOfQueue DEF SidecarReadsClose
<1>3. client # "new" /\ tunnelUp /\ pump = "done"
  BY Zenon, <1>1, <1>2 DEF IInv, Empties, Up
<1>4. headscale' = "open" => ~Has(toSidecar', "ws_data") /\ headscale = "open"
  BY Zenon, <1>2 DEF IInv, Phases, Early, SidecarReadsClose
<1>5. Types'
  BY Zenon, <1>2 DEF IInv, Types, SidecarReadsClose, clientVars, relayVars
<1>6. Empties'
  BY Zenon, <1>3 DEF Empties, SidecarReadsClose, clientVars
<1>7. Phases'
  BY Zenon, <1>2 DEF IInv, Phases, SidecarReadsClose
<1>8. Early'
  BY Zenon, <1>2 DEF IInv, Early, SidecarReadsClose, clientVars
<1>9. Down'
  BY Zenon DEF IInv, Down, Live, SidecarReadsClose, clientVars, relayVars
<1>10. Up'
  BY Zenon, <1>3, <1>4, EmptyQueue DEF IInv, Up, SidecarReadsClose, clientVars, relayVars
<1> QED BY <1>5, <1>6, <1>7, <1>8, <1>9, <1>10 DEF IInv

LEMMA HeadscaleSendsStep == ASSUME IInv, HeadscaleSends PROVE IInv'
<1>1. /\ headscaleBuf' \in Seq(Nat) /\ Len(headscaleBuf') = Len(headscaleBuf) + 1
      /\ answered' = answered + 1 /\ Len(headscaleBuf) \in Nat /\ answered \in Nat
      /\ Buffered(headscaleBuf', answered')
  BY Zenon, AppendedBuffer DEF IInv, Types, Down, HeadscaleSends
<1>2. Types'
  BY DEF IInv, Types, HeadscaleSends, clientVars, relayVars, tunnelVars, sidecarVars
<1>3. Empties' /\ Phases' /\ Early' /\ Up'
  BY Zenon
    DEF IInv, Empties, Phases, Early, Up, HeadscaleSends, clientVars, relayVars,
        tunnelVars, sidecarVars
<1>4. Down'
  <2>1. Len(got) \in Nat /\ Len(toRelay) \in Nat
    BY DEF Types
  <2>2. ASSUME Live, open # "ended"
        PROVE  answered' = Len(got) + Len(toRelay) + Len(headscaleBuf')
    <3>1. answered = Len(got) + Len(toRelay) + Len(headscaleBuf)
      BY <2>2 DEF IInv, Down
    <3> QED BY <1>1, <3>1
  <2> QED BY Zenon, <1>1, <2>2
    DEF IInv, Down, Live, HeadscaleSends, clientVars, relayVars, tunnelVars,
        sidecarVars
<1> QED BY Zenon, <1>2, <1>3, <1>4 DEF IInv

LEMMA HeadscaleClosesStep == ASSUME IInv, HeadscaleCloses PROVE IInv'
<1>1. Types' /\ Empties' /\ Phases' /\ Early'
  BY DEF IInv, Types, Empties, Phases, Early, HeadscaleCloses, clientVars, relayVars, tunnelVars,
         sidecarVars
<1>2. Down' /\ Up'
  BY Zenon
    DEF IInv, Down, Up, Live, HeadscaleCloses, clientVars, relayVars, tunnelVars,
        sidecarVars
<1> QED BY <1>1, <1>2 DEF IInv

LEMMA TunnelDiesStep == ASSUME IInv, TunnelDies PROVE IInv'
<1>1. /\ toSidecar' = <<>> /\ toRelay' = <<>> /\ <<>> \in Seq(Message)
      /\ \A t : ~Has(toSidecar', t)
      /\ \A n : Carries(toSidecar', n)
      /\ OpenFirst(toSidecar')
  <2>1. OpenFirst(<<>>)
    BY DEF OpenFirst
  <2> QED BY <2>1, EmptyQueue DEF TunnelDies
<1>2. Types' /\ Empties'
  BY Zenon, <1>1 DEF IInv, Types, Empties, TunnelDies, clientVars, relayVars, sidecarVars, headscaleVars
<1>3. Phases' /\ Early'
  BY Zenon, <1>1 DEF IInv, Phases, Early, TunnelDies, clientVars, sidecarVars, headscaleVars
<1>4. Down' /\ Up'
  BY Zenon, <1>1
    DEF IInv, Down, Up, Live, TunnelDies, clientVars, relayVars, sidecarVars,
        headscaleVars
<1> QED BY <1>2, <1>3, <1>4 DEF IInv

-----------------------------------------------------------------------------
(* The theorems *)

LEMMA Initial == Init => IInv
<1> SUFFICES ASSUME Init PROVE IInv
  OBVIOUS
<1>1. Types /\ Empties
  <2>1. <<>> \in Seq(Message) /\ <<>> \in Seq(Nat)
    OBVIOUS
  <2>2. Types
    BY Zenon, <2>1 DEF Init, Types
  <2>3. Empties
    BY DEF Init, Empties
  <2> QED BY <2>2, <2>3
<1>2. OpenFirst(<<>>) /\ Buffered(<<>>, 0) /\ InOrder(<<>>)
  BY DEF OpenFirst, Buffered, InOrder
<1>3. Phases /\ Early
  BY Zenon, <1>2, EmptyQueue DEF Init, Phases, Early
<1>4. Down /\ Up
  <2>1. ~Live /\ ~Has(toSidecar, "ws_close") /\ headscale # "open"
    BY Zenon, EmptyQueue DEF Init, Live
  <2>2. InOrder(got) /\ Buffered(headscaleBuf, answered)
    BY Zenon, <1>2 DEF Init
  <2>3. InOrder(upstream) /\ Buffered(clientBuf, sent)
    BY <1>2 DEF Init
  <2> QED BY Zenon, <2>1, <2>2, <2>3 DEF Down, Up
<1> QED BY <1>1, <1>3, <1>4 DEF IInv

LEMMA Step == IInv /\ [Next]_vars => IInv'
<1> SUFFICES ASSUME IInv, [Next]_vars PROVE IInv'
  OBVIOUS
<1>1. CASE RelayStep
  BY <1>1, UpgradeStep, PumpForwardsStep, PumpEndsStep, ReadDataStep, ReadCloseStep DEF RelayStep
<1>2. CASE SidecarStep
  BY <1>2, ReadsOpenStep, ReadsDataStep, ReadsCloseStep, ConnectsStep, FailsStep, RegistersStep,
     ReaderForwardsStep, ReaderEndsStep DEF SidecarStep
<1>3. CASE Environment
  BY <1>3, ClientSendsStep, ClientClosesStep, HeadscaleSendsStep, HeadscaleClosesStep,
     TunnelDiesStep DEF Environment
<1>4. CASE UNCHANGED vars
  <2>1. Types' /\ Empties' /\ Phases' /\ Early'
    BY <1>4 DEF IInv, Types, Empties, Phases, Early, vars, clientVars, relayVars, tunnelVars,
                sidecarVars, headscaleVars
  <2>2. Down' /\ Up'
    BY Zenon, <1>4
      DEF IInv, Down, Up, Live, vars, clientVars, relayVars, tunnelVars, sidecarVars,
          headscaleVars
  <2> QED BY <2>1, <2>2 DEF IInv
<1> QED BY <1>1, <1>2, <1>3, <1>4 DEF Next

LEMMA Inductive == Spec => []IInv
BY Initial, Step, PTL DEF Spec

\* Headscale receives the client's chunks in order and without a gap, although
\* handleWsOpen runs beside the loop that drops data of unknown streams.
THEOREM UpstreamOrdered == Spec => []UpstreamInOrder
<1>1. IInv => UpstreamInOrder
  BY DEF IInv, Up, UpstreamInOrder
<1> QED BY <1>1, Inductive, PTL

\* The client receives Headscale's chunks in order and without a gap, whatever
\* is closed or lost meanwhile (readTunnel's stream messages).
THEOREM DownstreamOrdered == Spec => []DownstreamInOrder
<1>1. IInv => DownstreamInOrder
  BY DEF IInv, Down, DownstreamInOrder
<1> QED BY <1>1, Inductive, PTL


=============================================================================
