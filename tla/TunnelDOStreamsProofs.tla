------------------------ MODULE TunnelDOStreamsProofs ------------------------
(***************************************************************************)
(* The Durable Object with its streams, for any number of connections,     *)
(* streams and failures: with respect to plain requests it behaves as      *)
(* TunnelDO, its map agrees with its sockets, and frames arrive in order.  *)
(*                                                                         *)
(* For the order the invariant compares, stream by stream, the frames in   *)
(* flight with the last one Headscale received and the last one sent. That *)
(* none is missing while nothing has failed needs more: the tunnel is then *)
(* the sidecar's connection, and every frame after one in flight, or after *)
(* the last received, is in flight too.                                    *)
(***************************************************************************)
EXTENDS TunnelDOStreams, TunnelDOProofs

WsMessage ==
  [type : {"ws_open", "ws_close"}, stream : Stream]
    \cup [type : {"ws_data"}, stream : Stream, frame : Nat]

IsData(m, s) == m.type = "ws_data" /\ m.stream = s

Ordered(u) == \A i \in 2 .. Len(u) : u[i - 1] < u[i]
Dense(u) == \A i \in 2 .. Len(u) : u[i] = u[i - 1] + 1

\* The last frame received, 0 if there is none.
LastOf(u) == IF u = <<>> THEN 0 ELSE u[Len(u)]

Rising(q, s) ==
  \A i, j \in 1 .. Len(q) :
    i < j /\ IsData(q[i], s) /\ IsData(q[j], s) => q[i].frame < q[j].frame

Within(q, s, last, n) ==
  \A i \in 1 .. Len(q) : IsData(q[i], s) => last < q[i].frame /\ q[i].frame <= n

HasFrame(q, s, f) == \E i \in 1 .. Len(q) : IsData(q[i], s) /\ q[i].frame = f

\* With a frame all later ones are in the queue, up to the last one sent.
Complete(q, s, n) ==
  \A i \in 1 .. Len(q) : IsData(q[i], s) => \A f \in q[i].frame .. n : HasFrame(q, s, f)

Remaining(q, s, last, n) == \A f \in last + 1 .. n : HasFrame(q, s, f)

OpenAt(q, s, i) == q[i].type = "ws_open" /\ q[i].stream = s
Opens(q, s) == \E i \in 1 .. Len(q) : OpenAt(q, s, i)
OpensOnce(q, s) == \A i, j \in 1 .. Len(q) : OpenAt(q, s, i) /\ OpenAt(q, s, j) => i = j

StreamTypes ==
  /\ wsConnections \subseteq Stream
  /\ client \in [Stream -> {"new", "refused", "open", "closing", "closed"}]
  /\ sent \in [Stream -> Nat]
  /\ wsUp \in Seq(WsMessage)
  /\ streamConn \in [Stream -> {"none", "opening", "failed", "registered", "dropped", "ended"}]
  /\ upstream \in [Stream -> Seq(Nat)]

\* Where a stream is: Headscale has nothing of one that is not open yet.
Opening ==
  \A s \in Stream :
    /\ OpensOnce(wsUp, s)
    /\ client[s] = "new" => ~Opens(wsUp, s)
    /\ client[s] = "new" \/ Opens(wsUp, s) => streamConn[s] \in {"none", "ended"}
    /\ client[s] = "new" \/ Opens(wsUp, s) \/ streamConn[s] \in {"none", "opening", "failed"}
         => upstream[s] = <<>>

FramesInv ==
  \A s \in Stream :
    /\ Ordered(upstream[s])
    /\ LastOf(upstream[s]) <= sent[s]
    /\ Rising(wsUp, s)
    /\ Within(wsUp, s, LastOf(upstream[s]), sent[s])

\* Before the first failure the one connection there is is the tunnel.
OneTunnel ==
  failures = 0 =>
    /\ \A c \in Conn : conn[c] # "closed" <=> c = side
    /\ tunnel # None => tunnel = side
    /\ \A s \in Stream : client[s] = "open" => tunnel # None

DenseInv ==
  failures = 0 => \A s \in Stream :
    /\ Dense(upstream[s])
    /\ Complete(wsUp, s, sent[s])
    /\ streamConn[s] = "registered" /\ upstream[s] # <<>> =>
         Remaining(wsUp, s, LastOf(upstream[s]), sent[s])

StreamInv ==
  TypeOK /\ StreamTypes /\ StreamsTracked /\ Opening /\ FramesInv /\ OneTunnel /\ DenseInv

-----------------------------------------------------------------------------
(* Queues and what was received *)

LEMMA LastTyped ==
  ASSUME NEW u \in Seq(Nat) PROVE LastOf(u) \in Nat /\ LastOf(<<>>) = 0
<1>1. u # <<>> => Len(u) \in 1 .. Len(u)
  OBVIOUS
<1> QED BY DEF LastOf

LEMMA Received ==
  ASSUME NEW u \in Seq(Nat), NEW f \in Nat
  PROVE  /\ Append(u, f) \in Seq(Nat) /\ Append(u, f) # <<>> /\ LastOf(Append(u, f)) = f
         /\ Ordered(u) /\ LastOf(u) < f => Ordered(Append(u, f))
         /\ Dense(u) /\ (u # <<>> => f = LastOf(u) + 1) => Dense(Append(u, f))
<1>1. /\ Append(u, f) \in Seq(Nat) /\ Len(Append(u, f)) = Len(u) + 1 /\ Len(u) \in Nat
      /\ Append(u, f)[Len(u) + 1] = f /\ Append(u, f) # <<>>
  OBVIOUS
<1>2. \A i \in 1 .. Len(u) : Append(u, f)[i] = u[i] /\ u[i] \in Nat
  OBVIOUS
<1>3. \A i \in 2 .. Len(u) + 1 :
        \/ i \in 2 .. Len(u) /\ i \in 1 .. Len(u) /\ i - 1 \in 1 .. Len(u)
        \/ i = Len(u) + 1 /\ i - 1 = Len(u) /\ i - 1 \in 1 .. Len(u) /\ u # <<>>
  BY <1>1
<1>4. u # <<>> => LastOf(u) = u[Len(u)]
  BY DEF LastOf
<1>5. Ordered(u) /\ LastOf(u) < f => Ordered(Append(u, f))
  BY Zenon, <1>1, <1>2, <1>3, <1>4 DEF Ordered
<1>6. Dense(u) /\ (u # <<>> => f = LastOf(u) + 1) => Dense(Append(u, f))
  BY <1>1, <1>3, <1>4 DEF Dense
<1> QED BY Zenon, <1>1, <1>5, <1>6 DEF LastOf

LEMMA FrameTyped ==
  ASSUME NEW q \in Seq(WsMessage), NEW i \in 1 .. Len(q), NEW s, IsData(q[i], s)
  PROVE  q[i].frame \in Nat
<1>1. q[i] \in WsMessage
  OBVIOUS
<1> QED BY Zenon, <1>1 DEF WsMessage, IsData

\* A message that is no frame of the stream is added.
LEMMA AppendOther ==
  ASSUME NEW q \in Seq(WsMessage), NEW m \in WsMessage, NEW s, ~IsData(m, s),
         NEW n \in Nat, NEW last \in Nat
  PROVE  /\ Append(q, m) \in Seq(WsMessage)
         /\ Rising(q, s) => Rising(Append(q, m), s)
         /\ Within(q, s, last, n) => Within(Append(q, m), s, last, n)
         /\ Complete(q, s, n) => Complete(Append(q, m), s, n)
         /\ Remaining(q, s, last, n) => Remaining(Append(q, m), s, last, n)
<1> DEFINE a == Append(q, m)
<1>1. /\ a \in Seq(WsMessage) /\ Len(a) = Len(q) + 1 /\ Len(q) \in Nat /\ a[Len(q) + 1] = m
      /\ \A i \in 1 .. Len(q) : a[i] = q[i] /\ i \in 1 .. Len(a)
      /\ \A i \in 1 .. Len(a) : i \in 1 .. Len(q) \/ i = Len(q) + 1
  OBVIOUS
<1> HIDE DEF a
<1>2. \A i \in 1 .. Len(a) : IsData(a[i], s) => i \in 1 .. Len(q) /\ a[i] = q[i]
  BY Zenon, <1>1
<1>3. \A f : HasFrame(q, s, f) => HasFrame(a, s, f)
  BY Zenon, <1>1 DEF HasFrame
<1>4. Rising(q, s) => Rising(a, s)
  BY Zenon, <1>2 DEF Rising
<1>5. Within(q, s, last, n) => Within(a, s, last, n)
  BY Zenon, <1>2 DEF Within
<1>6. Complete(q, s, n) => Complete(a, s, n)
  BY Zenon, <1>2, <1>3 DEF Complete
<1>7. Remaining(q, s, last, n) => Remaining(a, s, last, n)
  BY Zenon, <1>3 DEF Remaining
<1> QED BY Zenon, <1>1, <1>4, <1>5, <1>6, <1>7 DEF a

\* The next frame of the stream is added.
LEMMA AppendFrame ==
  ASSUME NEW q \in Seq(WsMessage), NEW m \in WsMessage, NEW s, IsData(m, s),
         NEW n \in Nat, NEW last \in Nat, m.frame = n + 1, last <= n,
         Rising(q, s), Within(q, s, last, n)
  PROVE  /\ Append(q, m) \in Seq(WsMessage)
         /\ Rising(Append(q, m), s)
         /\ Within(Append(q, m), s, last, n + 1)
         /\ Complete(q, s, n) => Complete(Append(q, m), s, n + 1)
         /\ Remaining(q, s, last, n) => Remaining(Append(q, m), s, last, n + 1)
<1> DEFINE a == Append(q, m)
<1>1. /\ a \in Seq(WsMessage) /\ Len(a) = Len(q) + 1 /\ Len(q) \in Nat /\ a[Len(q) + 1] = m
      /\ \A i \in 1 .. Len(q) : a[i] = q[i] /\ i \in 1 .. Len(a)
      /\ \A i \in 1 .. Len(a) : i \in 1 .. Len(q) \/ i = Len(q) + 1
      /\ Len(q) + 1 \in 1 .. Len(a)
  OBVIOUS
<1> HIDE DEF a
<1>2. \A i \in 1 .. Len(q) : IsData(q[i], s) => q[i].frame \in Nat /\ last < q[i].frame /\ q[i].frame <= n
  BY Zenon, FrameTyped DEF Within
<1>3. \A f : HasFrame(q, s, f) => HasFrame(a, s, f)
  BY Zenon, <1>1 DEF HasFrame
<1>4. HasFrame(a, s, n + 1)
  BY Zenon, <1>1 DEF HasFrame
<1>5. Rising(a, s)
  <2> SUFFICES ASSUME NEW i \in 1 .. Len(a), NEW j \in 1 .. Len(a), i < j,
                      IsData(a[i], s), IsData(a[j], s)
               PROVE  a[i].frame < a[j].frame
    BY Zenon DEF Rising
  <2>1. i \in 1 .. Len(q) /\ a[i] = q[i]
    BY <1>1
  <2>2. CASE j \in 1 .. Len(q)
    BY Zenon, <1>1, <2>1, <2>2 DEF Rising
  <2>3. CASE j = Len(q) + 1
    BY <1>1, <1>2, <2>1, <2>3
  <2> QED BY Zenon, <1>1, <2>2, <2>3
<1>6. Within(a, s, last, n + 1)
  BY <1>1, <1>2 DEF Within
<1>7. ASSUME Complete(q, s, n) PROVE Complete(a, s, n + 1)
  <2> SUFFICES ASSUME NEW i \in 1 .. Len(a), IsData(a[i], s), NEW f \in a[i].frame .. n + 1
               PROVE  HasFrame(a, s, f)
    BY Zenon DEF Complete
  <2>1. CASE i = Len(q) + 1
    <3>1. f = n + 1
      BY <1>1, <2>1
    <3> QED BY Zenon, <3>1, <1>4
  <2>2. CASE i \in 1 .. Len(q)
    <3>1. f \in q[i].frame .. n \/ f = n + 1
      BY <1>1, <1>2, <2>2
    <3>2. IsData(q[i], s)
      BY Zenon, <1>1, <2>2
    <3>3. f \in q[i].frame .. n => HasFrame(q, s, f)
      BY Zenon, <1>7, <2>2, <3>2 DEF Complete
    <3> QED BY Zenon, <3>1, <3>3, <1>3, <1>4
  <2> QED BY Zenon, <1>1, <2>1, <2>2
<1>8. ASSUME Remaining(q, s, last, n) PROVE Remaining(a, s, last, n + 1)
  <2>1. \A f \in last + 1 .. n + 1 : f \in last + 1 .. n \/ f = n + 1
    OBVIOUS
  <2> QED BY Zenon, <1>3, <1>4, <1>8, <2>1 DEF Remaining
<1> QED BY Zenon, <1>1, <1>5, <1>6, <1>7, <1>8 DEF a

\* A frame is sent but lost, or everything in flight is.
LEMMA Lost ==
  ASSUME NEW q \in Seq(WsMessage), NEW s, NEW n \in Nat, NEW last \in Nat
  PROVE  /\ Within(q, s, last, n) => Within(q, s, last, n + 1)
         /\ Rising(<<>>, s) /\ Within(<<>>, s, last, n) /\ Complete(<<>>, s, n)
         /\ ~Opens(<<>>, s) /\ OpensOnce(<<>>, s)
<1>1. ASSUME Within(q, s, last, n) PROVE Within(q, s, last, n + 1)
  <2> SUFFICES ASSUME NEW i \in 1 .. Len(q), IsData(q[i], s)
               PROVE  last < q[i].frame /\ q[i].frame <= n + 1
    BY Zenon DEF Within
  <2>1. q[i].frame \in Nat
    BY Zenon, FrameTyped
  <2>2. last < q[i].frame /\ q[i].frame <= n
    BY Zenon, <1>1 DEF Within
  <2> QED BY <2>1, <2>2
<1>2. Rising(<<>>, s) /\ Within(<<>>, s, last, n) /\ Complete(<<>>, s, n)
  BY DEF Rising, Within, Complete
<1>3. ~Opens(<<>>, s) /\ OpensOnce(<<>>, s)
  BY DEF Opens, OpensOnce
<1> QED BY Zenon, <1>1, <1>2, <1>3

\* A message is read.
LEMMA TailOther ==
  ASSUME NEW q \in Seq(WsMessage), q # <<>>, NEW s, NEW n \in Nat, NEW last \in Nat
  PROVE  /\ Tail(q) \in Seq(WsMessage) /\ Head(q) \in WsMessage
         /\ Rising(q, s) => Rising(Tail(q), s)
         /\ Within(q, s, last, n) => Within(Tail(q), s, last, n)
         /\ Rising(q, s) /\ Complete(q, s, n) => Complete(Tail(q), s, n)
         /\ Remaining(q, s, last, n) /\ ~IsData(Head(q), s) => Remaining(Tail(q), s, last, n)
<1> DEFINE a == Tail(q)
<1>1. /\ a \in Seq(WsMessage) /\ Head(q) \in WsMessage /\ Head(q) = q[1]
      /\ Len(a) = Len(q) - 1 /\ Len(q) \in Nat \ {0}
      /\ \A i \in 1 .. Len(a) : a[i] = q[i + 1]
  OBVIOUS
<1> HIDE DEF a
<1>2. /\ \A i \in 1 .. Len(a) : i + 1 \in 1 .. Len(q) /\ 1 < i + 1
      /\ \A i \in 1 .. Len(q) : i = 1 \/ (i - 1 \in 1 .. Len(a) /\ i - 1 + 1 = i)
      /\ 1 \in 1 .. Len(q)
  BY <1>1
<1>3. ASSUME NEW f, HasFrame(q, s, f), ~(IsData(q[1], s) /\ q[1].frame = f)
      PROVE  HasFrame(a, s, f)
  <2>1. PICK i \in 1 .. Len(q) : IsData(q[i], s) /\ q[i].frame = f
    BY Zenon, <1>3 DEF HasFrame
  <2>2. i - 1 \in 1 .. Len(a) /\ a[i - 1] = q[i]
    BY Zenon, <1>1, <1>2, <1>3, <2>1
  <2> QED BY Zenon, <2>1, <2>2 DEF HasFrame
<1>4. Rising(q, s) => Rising(a, s)
  <2> SUFFICES ASSUME Rising(q, s), NEW i \in 1 .. Len(a), NEW j \in 1 .. Len(a), i < j,
                      IsData(a[i], s), IsData(a[j], s)
               PROVE  a[i].frame < a[j].frame
    BY Zenon DEF Rising
  <2>1. i + 1 < j + 1 /\ i + 1 \in 1 .. Len(q) /\ j + 1 \in 1 .. Len(q)
    BY <1>2
  <2>2. a[i] = q[i + 1] /\ a[j] = q[j + 1]
    BY Zenon, <1>1
  <2> QED BY Zenon, <2>1, <2>2 DEF Rising
<1>5. Within(q, s, last, n) => Within(a, s, last, n)
  BY Zenon, <1>1, <1>2 DEF Within
<1>6. ASSUME Rising(q, s), Complete(q, s, n) PROVE Complete(a, s, n)
  <2> SUFFICES ASSUME NEW i \in 1 .. Len(a), IsData(a[i], s), NEW f \in a[i].frame .. n
               PROVE  HasFrame(a, s, f)
    BY Zenon DEF Complete
  <2>1. i + 1 \in 1 .. Len(q) /\ 1 < i + 1 /\ a[i] = q[i + 1] /\ IsData(q[i + 1], s)
    BY Zenon, <1>1, <1>2
  <2>2. HasFrame(q, s, f)
    BY Zenon, <1>6, <2>1 DEF Complete
  <2>3. IsData(q[1], s) => q[1].frame < q[i + 1].frame
    BY Zenon, <1>2, <1>6, <2>1 DEF Rising
  <2>4. q[i + 1].frame \in Nat /\ (IsData(q[1], s) => q[1].frame \in Nat)
    BY Zenon, <1>2, <2>1, FrameTyped
  <2>5. ~(IsData(q[1], s) /\ q[1].frame = f)
    BY <2>1, <2>3, <2>4
  <2> QED BY Zenon, <1>3, <2>2, <2>5
<1>7. ASSUME Remaining(q, s, last, n), ~IsData(Head(q), s) PROVE Remaining(a, s, last, n)
  BY Zenon, <1>1, <1>3, <1>7 DEF Remaining
<1> QED BY Zenon, <1>1, <1>4, <1>5, <1>6, <1>7 DEF a

\* A frame of the stream is read: it is the next one, where none was dropped.
LEMMA TailFrame ==
  ASSUME NEW q \in Seq(WsMessage), q # <<>>, NEW s, NEW n \in Nat, NEW last \in Nat,
         IsData(Head(q), s), Rising(q, s), Within(q, s, last, n)
  PROVE  /\ Head(q).frame \in Nat /\ last < Head(q).frame /\ Head(q).frame <= n
         /\ Within(Tail(q), s, Head(q).frame, n)
         /\ Complete(q, s, n) => Remaining(Tail(q), s, Head(q).frame, n)
         /\ Remaining(q, s, last, n) => Head(q).frame = last + 1
<1> DEFINE a == Tail(q)
<1> DEFINE h == Head(q).frame
<1>1. /\ a \in Seq(WsMessage) /\ Head(q) = q[1]
      /\ Len(a) = Len(q) - 1 /\ Len(q) \in Nat \ {0}
      /\ \A i \in 1 .. Len(a) : a[i] = q[i + 1]
  OBVIOUS
<1>0. h = q[1].frame /\ IsData(q[1], s)
  BY Zenon, <1>1
<1> HIDE DEF a, h
<1>2. /\ \A i \in 1 .. Len(a) : i + 1 \in 1 .. Len(q) /\ 1 < i + 1
      /\ \A i \in 1 .. Len(q) : i = 1 \/ (i - 1 \in 1 .. Len(a) /\ i - 1 + 1 = i /\ 1 < i)
      /\ 1 \in 1 .. Len(q)
  BY <1>1
<1>3. h \in Nat /\ last < h /\ h <= n
  BY Zenon, <1>0, <1>2, FrameTyped DEF Within
<1>4. \A i \in 1 .. Len(q) : i # 1 /\ IsData(q[i], s) => h < q[i].frame /\ q[i].frame \in Nat
  BY Zenon, <1>0, <1>2, FrameTyped DEF Rising
<1>5. Within(a, s, h, n)
  <2> SUFFICES ASSUME NEW i \in 1 .. Len(a), IsData(a[i], s)
               PROVE  h < a[i].frame /\ a[i].frame <= n
    BY Zenon DEF Within
  <2>1. i + 1 \in 1 .. Len(q) /\ i + 1 # 1 /\ a[i] = q[i + 1]
    BY <1>1
  <2> QED BY Zenon, <1>4, <2>1 DEF Within
<1>6. ASSUME Complete(q, s, n) PROVE Remaining(a, s, h, n)
  <2> SUFFICES ASSUME NEW f \in h + 1 .. n PROVE HasFrame(a, s, f)
    BY Zenon DEF Remaining
  <2>1. f \in h .. n /\ f # h
    BY <1>3
  <2>2. HasFrame(q, s, f)
    BY Zenon, <1>0, <1>2, <1>6, <2>1 DEF Complete
  <2>3. PICK i \in 1 .. Len(q) : IsData(q[i], s) /\ q[i].frame = f
    BY Zenon, <2>2 DEF HasFrame
  <2>4. i - 1 \in 1 .. Len(a) /\ a[i - 1] = q[i]
    BY Zenon, <1>0, <1>1, <1>2, <2>1, <2>3
  <2> QED BY Zenon, <2>3, <2>4 DEF HasFrame
<1>7. ASSUME Remaining(q, s, last, n) PROVE h = last + 1
  <2> SUFFICES ASSUME h # last + 1 PROVE FALSE
    OBVIOUS
  <2>1. last + 1 \in last + 1 .. n /\ last + 1 < h
    BY <1>3
  <2>2. PICK i \in 1 .. Len(q) : IsData(q[i], s) /\ q[i].frame = last + 1
    BY Zenon, <1>7, <2>1 DEF Remaining, HasFrame
  <2> QED BY <1>0, <1>3, <1>4, <2>1, <2>2
<1> QED BY Zenon, <1>3, <1>5, <1>6, <1>7 DEF a, h

\* ws_open messages in a queue that is added to and read.
LEMMA OpensKept ==
  ASSUME NEW q \in Seq(WsMessage), NEW s
  PROVE  /\ \A m \in WsMessage :
              /\ Opens(Append(q, m), s) <=> Opens(q, s) \/ (m.type = "ws_open" /\ m.stream = s)
              /\ OpensOnce(q, s) /\ (~Opens(q, s) \/ m.type # "ws_open" \/ m.stream # s)
                   => OpensOnce(Append(q, m), s)
         /\ q # <<>> =>
              /\ Opens(Tail(q), s) => Opens(q, s)
              /\ OpensOnce(q, s) => OpensOnce(Tail(q), s)
              /\ Head(q).type = "ws_open" /\ Head(q).stream = s =>
                   Opens(q, s) /\ (OpensOnce(q, s) => ~Opens(Tail(q), s))
<1>1. ASSUME NEW m \in WsMessage
      PROVE  /\ Opens(Append(q, m), s) <=> Opens(q, s) \/ (m.type = "ws_open" /\ m.stream = s)
             /\ OpensOnce(q, s) /\ (~Opens(q, s) \/ m.type # "ws_open" \/ m.stream # s)
                  => OpensOnce(Append(q, m), s)
  <2> DEFINE a == Append(q, m)
  <2>1. /\ Len(a) = Len(q) + 1 /\ Len(q) \in Nat /\ a[Len(q) + 1] = m
        /\ \A i \in 1 .. Len(q) : a[i] = q[i] /\ i \in 1 .. Len(a)
        /\ \A i \in 1 .. Len(a) : i \in 1 .. Len(q) \/ i = Len(q) + 1
        /\ Len(q) + 1 \in 1 .. Len(a)
    OBVIOUS
  <2> HIDE DEF a
  <2>2. \A i \in 1 .. Len(q) : OpenAt(a, s, i) <=> OpenAt(q, s, i)
    BY Zenon, <2>1 DEF OpenAt
  <2>3. OpenAt(a, s, Len(q) + 1) <=> m.type = "ws_open" /\ m.stream = s
    BY Zenon, <2>1 DEF OpenAt
  <2>4. Opens(a, s) <=> Opens(q, s) \/ (m.type = "ws_open" /\ m.stream = s)
    BY Zenon, <2>1, <2>2, <2>3 DEF Opens
  <2>5. ASSUME OpensOnce(q, s), ~Opens(q, s) \/ m.type # "ws_open" \/ m.stream # s
        PROVE  OpensOnce(a, s)
    BY Zenon, <2>1, <2>2, <2>3, <2>5 DEF Opens, OpensOnce
  <2> QED BY Zenon, <2>4, <2>5 DEF a
<1>2. ASSUME q # <<>>
      PROVE  /\ Opens(Tail(q), s) => Opens(q, s)
             /\ OpensOnce(q, s) => OpensOnce(Tail(q), s)
             /\ Head(q).type = "ws_open" /\ Head(q).stream = s =>
                  Opens(q, s) /\ (OpensOnce(q, s) => ~Opens(Tail(q), s))
  <2> DEFINE a == Tail(q)
  <2>1. /\ Len(a) = Len(q) - 1 /\ Len(q) \in Nat \ {0} /\ Head(q) = q[1]
        /\ \A i \in 1 .. Len(a) : a[i] = q[i + 1]
    BY <1>2
  <2> HIDE DEF a
  <2>2. \A i \in 1 .. Len(a) : i + 1 \in 1 .. Len(q) /\ i + 1 # 1 /\ (OpenAt(a, s, i) <=> OpenAt(q, s, i + 1))
    BY <2>1 DEF OpenAt
  <2>3. Opens(a, s) => Opens(q, s)
    BY <2>2 DEF Opens
  <2>4. ASSUME OpensOnce(q, s), NEW i \in 1 .. Len(a), NEW j \in 1 .. Len(a),
               OpenAt(a, s, i), OpenAt(a, s, j)
        PROVE  i = j
    <3>1. i + 1 = j + 1
      BY Zenon, <2>2, <2>4 DEF OpensOnce
    <3> QED BY <3>1
  <2>5. Head(q).type = "ws_open" /\ Head(q).stream = s => OpenAt(q, s, 1) /\ 1 \in 1 .. Len(q)
    BY <2>1 DEF OpenAt
  <2>6. OpenAt(q, s, 1) /\ 1 \in 1 .. Len(q) => Opens(q, s) /\ (OpensOnce(q, s) => ~Opens(a, s))
    BY Zenon, <2>2 DEF Opens, OpensOnce
  <2>7. OpensOnce(q, s) => OpensOnce(a, s)
    BY Zenon, <2>4 DEF OpensOnce
  <2> QED BY Zenon, <2>3, <2>5, <2>6, <2>7 DEF a
<1> QED BY Zenon, <1>1, <1>2

-----------------------------------------------------------------------------
(* The frames in flight *)

\* No stream with frames received is registered anew.
NoneRegistered ==
  \A s \in Stream :
    streamConn'[s] = "registered" => streamConn[s] = "registered" \/ upstream[s] = <<>>

LEMMA Numbers ==
  ASSUME StreamTypes, NEW s \in Stream
  PROVE  sent[s] \in Nat /\ upstream[s] \in Seq(Nat) /\ LastOf(upstream[s]) \in Nat
BY Zenon, LastTyped DEF StreamTypes

LEMMA KeptFrames ==
  ASSUME StreamInv, UNCHANGED <<wsUp, sent, upstream, failures>>, NoneRegistered
  PROVE  FramesInv' /\ DenseInv'
BY Zenon DEF StreamInv, FramesInv, DenseInv, NoneRegistered

LEMMA ToldFrames ==
  ASSUME StreamInv, NEW m \in WsMessage, m.type # "ws_data", Tell(m),
         UNCHANGED <<sent, upstream, streamConn, failures>>
  PROVE  wsUp' \in Seq(WsMessage) /\ FramesInv' /\ DenseInv'
<1>1. wsUp \in Seq(WsMessage) /\ \A s : ~IsData(m, s)
  BY Zenon DEF StreamInv, StreamTypes, IsData
<1>2. wsUp' = Append(wsUp, m) \/ wsUp' = wsUp
  BY Zenon DEF Tell
<1>3. wsUp' \in Seq(WsMessage)
  BY Zenon, <1>1, <1>2, AppendOther
<1>4. ASSUME NEW s \in Stream
      PROVE  /\ Rising(wsUp, s) => Rising(wsUp', s)
             /\ Within(wsUp, s, LastOf(upstream[s]), sent[s])
                  => Within(wsUp', s, LastOf(upstream[s]), sent[s])
             /\ Complete(wsUp, s, sent[s]) => Complete(wsUp', s, sent[s])
             /\ Remaining(wsUp, s, LastOf(upstream[s]), sent[s])
                  => Remaining(wsUp', s, LastOf(upstream[s]), sent[s])
  <2>1. sent[s] \in Nat /\ LastOf(upstream[s]) \in Nat
    BY Zenon, Numbers DEF StreamInv
  <2> QED BY ZenonT(40), <1>1, <1>2, <2>1, AppendOther
<1>5. FramesInv'
  BY Zenon, <1>4 DEF StreamInv, FramesInv
<1>6. DenseInv'
  BY Zenon, <1>4 DEF StreamInv, DenseInv
<1> QED BY <1>3, <1>5, <1>6

LEMMA ReadFrames ==
  ASSUME StreamInv, wsUp # <<>>, wsUp' = Tail(wsUp), Head(wsUp).type # "ws_data",
         UNCHANGED <<sent, upstream, failures>>, NoneRegistered
  PROVE  wsUp' \in Seq(WsMessage) /\ FramesInv' /\ DenseInv'
<1>1. wsUp \in Seq(WsMessage) /\ \A s : ~IsData(Head(wsUp), s)
  BY Zenon DEF StreamInv, StreamTypes, IsData
<1>2. wsUp' \in Seq(WsMessage)
  BY Zenon, <1>1, TailOther
<1>3. ASSUME NEW s \in Stream
      PROVE  /\ Rising(wsUp, s) => Rising(wsUp', s)
             /\ Within(wsUp, s, LastOf(upstream[s]), sent[s])
                  => Within(wsUp', s, LastOf(upstream[s]), sent[s])
             /\ Rising(wsUp, s) /\ Complete(wsUp, s, sent[s]) => Complete(wsUp', s, sent[s])
             /\ Remaining(wsUp, s, LastOf(upstream[s]), sent[s])
                  => Remaining(wsUp', s, LastOf(upstream[s]), sent[s])
  <2>1. sent[s] \in Nat /\ LastOf(upstream[s]) \in Nat
    BY Zenon, Numbers DEF StreamInv
  <2> QED BY ZenonT(40), <1>1, <2>1, TailOther
<1>4. FramesInv'
  BY Zenon, <1>3 DEF StreamInv, FramesInv
<1>5. DenseInv'
  BY Zenon, <1>3 DEF StreamInv, FramesInv, DenseInv, NoneRegistered
<1> QED BY <1>2, <1>4, <1>5

LEMMA ForgottenFrames ==
  ASSUME StreamInv, wsUp' = <<>>, UNCHANGED <<sent, upstream>>, failures' # 0
  PROVE  wsUp' \in Seq(WsMessage) /\ FramesInv' /\ DenseInv'
<1>1. <<>> \in Seq(WsMessage)
  OBVIOUS
<1>2. ASSUME NEW s \in Stream
      PROVE  Rising(<<>>, s) /\ Within(<<>>, s, LastOf(upstream[s]), sent[s])
  <2>1. sent[s] \in Nat /\ LastOf(upstream[s]) \in Nat
    BY Zenon, Numbers DEF StreamInv
  <2> QED BY ZenonT(40), <1>1, <2>1, Lost
<1>3. FramesInv'
  BY Zenon, <1>2 DEF StreamInv, FramesInv
<1>4. DenseInv'
  BY Zenon DEF DenseInv
<1> QED BY <1>3, <1>4

\* ws_open messages when something else is sent or read.
LEMMA ToldOpens ==
  ASSUME StreamInv, NEW m \in WsMessage, m.type # "ws_open", Tell(m), NEW s \in Stream
  PROVE  OpensOnce(wsUp', s) /\ (Opens(wsUp', s) => Opens(wsUp, s))
<1>1. wsUp \in Seq(WsMessage) /\ OpensOnce(wsUp, s)
  BY Zenon DEF StreamInv, StreamTypes, Opening
<1>2. wsUp' = Append(wsUp, m) \/ wsUp' = wsUp
  BY DEF Tell
<1>3. /\ OpensOnce(Append(wsUp, m), s)
      /\ Opens(Append(wsUp, m), s) => Opens(wsUp, s)
  BY Zenon, <1>1, OpensKept
<1> QED BY ZenonT(40), <1>1, <1>2, <1>3

LEMMA ReadOpens ==
  ASSUME StreamInv, wsUp # <<>>, wsUp' = Tail(wsUp), NEW s \in Stream
  PROVE  OpensOnce(wsUp', s) /\ (Opens(wsUp', s) => Opens(wsUp, s))
<1>1. wsUp \in Seq(WsMessage) /\ OpensOnce(wsUp, s)
  BY Zenon DEF StreamInv, StreamTypes, Opening
<1> QED BY Zenon, <1>1, OpensKept

\* Steps of the streams leave the tunnel alone.
LEMMA KeptTunnel ==
  ASSUME StreamInv, UNCHANGED vars,
         \A s \in Stream : client'[s] = "open" => client[s] = "open" \/ tunnel # None
  PROVE  OneTunnel'
BY Zenon DEF StreamInv, OneTunnel, vars, sidecarVars

-----------------------------------------------------------------------------
(* The object's listeners *)

StreamPart == StreamTypes /\ StreamsTracked /\ Opening /\ FramesInv /\ OneTunnel /\ DenseInv

LEMMA RefuseKeeps ==
  ASSUME StreamInv, NEW s \in Stream, RefuseStream(s) \/ OpenThrows(s), UNCHANGED vars
  PROVE  StreamPart'
<1>1. /\ client[s] = "new" /\ client' = [client EXCEPT ![s] = "refused"]
      /\ wsConnections' = wsConnections \/ wsConnections' = wsConnections \cup {s}
      /\ UNCHANGED <<sent, wsUp, streamConn, upstream>>
  BY Zenon DEF RefuseStream, OpenThrows, wsVars, headscaleVars
<1>2. StreamTypes' /\ StreamsTracked'
  BY Zenon, <1>1 DEF StreamInv, StreamTypes, StreamsTracked
<1>3. Opening'
  BY Zenon, <1>1 DEF StreamInv, StreamTypes, Opening
<1>4. FramesInv' /\ DenseInv'
  BY Zenon, <1>1, KeptFrames DEF NoneRegistered, vars
<1>5. OneTunnel'
  BY Zenon, <1>1, KeptTunnel DEF StreamInv, StreamTypes
<1> QED BY <1>2, <1>3, <1>4, <1>5 DEF StreamPart

LEMMA OpenKeeps ==
  ASSUME StreamInv, NEW s \in Stream, OpenStream(s), UNCHANGED vars
  PROVE  StreamPart'
<1> DEFINE m == [type |-> "ws_open", stream |-> s]
<1>1. /\ client[s] = "new" /\ tunnel # None
      /\ client' = [client EXCEPT ![s] = "open"] /\ wsConnections' = wsConnections \cup {s}
      /\ UNCHANGED <<sent, streamConn, upstream, failures>>
      /\ Tell(m)
  BY Zenon DEF OpenStream, headscaleVars, vars
<1>2. m \in WsMessage /\ m.type = "ws_open" /\ m.stream = s
  BY Zenon DEF WsMessage
<1> HIDE DEF m
<1>3. wsUp' \in Seq(WsMessage) /\ FramesInv' /\ DenseInv'
  BY Zenon, <1>1, <1>2, ToldFrames
<1>4. StreamTypes' /\ StreamsTracked'
  BY Zenon, <1>1, <1>3 DEF StreamInv, StreamTypes, StreamsTracked
<1>5. Opening'
  <2> SUFFICES ASSUME NEW t \in Stream
               PROVE  /\ OpensOnce(wsUp', t)
                      /\ client'[t] = "new" => ~Opens(wsUp', t)
                      /\ client'[t] = "new" \/ Opens(wsUp', t) => streamConn'[t] \in {"none", "ended"}
                      /\ client'[t] = "new" \/ Opens(wsUp', t)
                           \/ streamConn'[t] \in {"none", "opening", "failed"} => upstream'[t] = <<>>
    BY Zenon DEF Opening
  <2>1. wsUp \in Seq(WsMessage)
    BY DEF StreamInv, StreamTypes
  <2>2. /\ OpensOnce(wsUp, t) /\ (client[t] = "new" => ~Opens(wsUp, t))
        /\ client[t] = "new" \/ Opens(wsUp, t) => streamConn[t] \in {"none", "ended"}
        /\ client[t] = "new" \/ Opens(wsUp, t)
             \/ streamConn[t] \in {"none", "opening", "failed"} => upstream[t] = <<>>
    BY Zenon DEF StreamInv, Opening
  <2>3. /\ Opens(Append(wsUp, m), t) <=> Opens(wsUp, t) \/ t = s
        /\ ~Opens(wsUp, t) \/ t # s => OpensOnce(Append(wsUp, m), t)
    BY Zenon, <1>2, <2>1, <2>2, OpensKept
  <2>4. wsUp' = Append(wsUp, m) \/ wsUp' = wsUp
    BY <1>1 DEF Tell
  <2>5. client'[t] = IF t = s THEN "open" ELSE client[t]
    BY Zenon, <1>1 DEF StreamInv, StreamTypes
  <2>6. streamConn'[t] = streamConn[t] /\ upstream'[t] = upstream[t]
    BY <1>1
  <2>7. CASE t = s
    <3>1. /\ client[t] = "new" /\ client'[t] = "open"
      BY Zenon, <1>1, <2>5, <2>7
    <3>2. OpensOnce(wsUp', t)
      BY ZenonT(40), <2>2, <2>3, <2>4, <3>1
    <3> QED BY Zenon, <2>2, <2>6, <3>1, <3>2
  <2>8. CASE t # s
    <3>1. client'[t] = client[t]
      BY <2>5, <2>8
    <3>2. OpensOnce(wsUp', t) /\ (Opens(wsUp', t) <=> Opens(wsUp, t))
      BY ZenonT(40), <2>2, <2>3, <2>4, <2>8
    <3> QED BY Zenon, <2>2, <2>6, <3>1, <3>2
  <2> QED BY Zenon, <2>7, <2>8
<1>6. OneTunnel'
  BY Zenon, <1>1, KeptTunnel
<1> QED BY <1>3, <1>4, <1>5, <1>6 DEF StreamPart

LEMMA ClientFrameKeeps ==
  ASSUME StreamInv, NEW s \in Stream, ClientFrame(s), UNCHANGED vars
  PROVE  StreamPart'
<1> DEFINE m == [type |-> "ws_data", stream |-> s, frame |-> sent'[s]]
<1>1. /\ client[s] = "open" /\ sent' = [sent EXCEPT ![s] = sent[s] + 1]
      /\ UNCHANGED <<wsConnections, client, streamConn, upstream, failures>>
      /\ Tell(m)
  BY Zenon DEF ClientFrame, headscaleVars, vars
<1>2. sent[s] \in Nat /\ sent'[s] = sent[s] + 1 /\ sent' \in [Stream -> Nat]
  BY <1>1 DEF StreamInv, StreamTypes
<1>3. /\ m \in WsMessage /\ m.type = "ws_data" /\ m.stream = s /\ m.frame = sent[s] + 1
      /\ \A t : IsData(m, t) <=> t = s
  BY Zenon, <1>2 DEF WsMessage, IsData
<1> HIDE DEF m
<1>4. wsUp \in Seq(WsMessage)
  BY DEF StreamInv, StreamTypes
<1>5. wsUp' = Append(wsUp, m) \/ wsUp' = wsUp
  BY <1>1 DEF Tell
<1>6. failures = 0 => wsUp' = Append(wsUp, m)
  BY Zenon, <1>1 DEF Tell, StreamInv, OneTunnel
<1>7. wsUp' \in Seq(WsMessage)
  BY <1>3, <1>4, <1>5
<1>8. StreamTypes' /\ StreamsTracked'
  BY Zenon, <1>1, <1>2, <1>7 DEF StreamInv, StreamTypes, StreamsTracked
<1>9. Opening'
  BY Zenon, <1>1, <1>3, ToldOpens DEF StreamInv, Opening
<1>10. OneTunnel'
  BY <1>1, KeptTunnel
<1>11. ASSUME NEW t \in Stream
       PROVE  /\ LastOf(upstream[t]) <= sent'[t]
              /\ Rising(wsUp', t)
              /\ Within(wsUp', t, LastOf(upstream[t]), sent'[t])
              /\ failures = 0 =>
                   /\ Complete(wsUp', t, sent'[t])
                   /\ streamConn[t] = "registered" /\ upstream[t] # <<>> =>
                        Remaining(wsUp', t, LastOf(upstream[t]), sent'[t])
  <2>1. sent[t] \in Nat /\ LastOf(upstream[t]) \in Nat
    BY Numbers DEF StreamInv
  <2>2. /\ LastOf(upstream[t]) <= sent[t] /\ Rising(wsUp, t)
        /\ Within(wsUp, t, LastOf(upstream[t]), sent[t])
    BY Zenon DEF StreamInv, FramesInv
  <2>3. failures = 0 =>
          /\ Complete(wsUp, t, sent[t])
          /\ streamConn[t] = "registered" /\ upstream[t] # <<>> =>
               Remaining(wsUp, t, LastOf(upstream[t]), sent[t])
    BY Zenon DEF StreamInv, DenseInv
  <2>4. CASE t # s
    <3>1. sent'[t] = sent[t] /\ ~IsData(m, t)
      BY Zenon, <1>1, <1>3, <2>4 DEF StreamInv, StreamTypes
    <3> QED BY ZenonT(40), <1>3, <1>4, <1>5, <2>1, <2>2, <2>3, <3>1, AppendOther
  <2>5. CASE t = s
    <3> DEFINE a == Append(wsUp, m)
    <3>1. /\ Rising(a, t) /\ Within(a, t, LastOf(upstream[t]), sent[t] + 1)
          /\ Complete(wsUp, t, sent[t]) => Complete(a, t, sent[t] + 1)
          /\ Remaining(wsUp, t, LastOf(upstream[t]), sent[t])
               => Remaining(a, t, LastOf(upstream[t]), sent[t] + 1)
      BY Zenon, <1>3, <1>4, <2>1, <2>2, <2>5, AppendFrame
    <3>2. Within(wsUp, t, LastOf(upstream[t]), sent[t] + 1)
      BY ZenonT(40), <1>4, <2>1, <2>2, Lost
    <3>3. LastOf(upstream[t]) <= sent[t] + 1
      BY <2>1, <2>2
    <3> HIDE DEF a
    <3>4. sent'[t] = sent[t] + 1 /\ (wsUp' = a \/ wsUp' = wsUp) /\ (failures = 0 => wsUp' = a)
      BY Zenon, <1>2, <1>5, <1>6, <2>5 DEF a
    <3> QED BY Zenon, <2>2, <2>3, <3>1, <3>2, <3>3, <3>4
  <2> QED BY Zenon, <2>4, <2>5
<1>12. FramesInv'
  BY Zenon, <1>1, <1>11 DEF StreamInv, FramesInv
<1>13. DenseInv'
  BY Zenon, <1>1, <1>11 DEF StreamInv, DenseInv
<1> QED BY <1>8, <1>9, <1>10, <1>12, <1>13 DEF StreamPart

LEMMA ListenerKeeps ==
  ASSUME StreamInv, NEW s \in Stream, ClientCloses(s) \/ ReceiveFrame(s) \/ ReceiveClose(s),
         UNCHANGED vars
  PROVE  StreamPart'
<1>1. /\ client' = client \/ (client[s] = "open" /\ client' = [client EXCEPT ![s] = "closing"])
      /\ \/ wsConnections' = wsConnections
         \/ /\ wsConnections' = wsConnections \ {s}
            /\ client[s] = "open" /\ s \in wsConnections
                 => client' = [client EXCEPT ![s] = "closing"]
      /\ UNCHANGED <<sent, wsUp, streamConn, upstream>>
  BY Zenon DEF ClientCloses, ReceiveFrame, ReceiveClose, wsVars, headscaleVars
<1>2. StreamTypes' /\ StreamsTracked'
  BY ZenonT(40), <1>1 DEF StreamInv, StreamTypes, StreamsTracked
<1>3. Opening'
  BY Zenon, <1>1 DEF StreamInv, StreamTypes, Opening
<1>4. FramesInv' /\ DenseInv'
  BY Zenon, <1>1, KeptFrames DEF NoneRegistered, vars
<1>5. OneTunnel'
  BY Zenon, <1>1, KeptTunnel DEF StreamInv, StreamTypes
<1> QED BY <1>2, <1>3, <1>4, <1>5 DEF StreamPart

LEMMA ClosedKeeps ==
  ASSUME StreamInv, NEW s \in Stream, StreamClosed(s), UNCHANGED vars
  PROVE  StreamPart'
<1> DEFINE m == [type |-> "ws_close", stream |-> s]
<1>1. /\ client[s] = "closing" /\ client' = [client EXCEPT ![s] = "closed"]
      /\ wsConnections' = wsConnections \ {s}
      /\ UNCHANGED <<sent, streamConn, upstream, failures>>
      /\ Tell(m)
  BY Zenon DEF StreamClosed, headscaleVars, vars
<1>2. m \in WsMessage /\ m.type = "ws_close"
  BY DEF WsMessage
<1> HIDE DEF m
<1>3. wsUp' \in Seq(WsMessage) /\ FramesInv' /\ DenseInv'
  BY Zenon, <1>1, <1>2, ToldFrames
<1>4. StreamTypes' /\ StreamsTracked'
  BY Zenon, <1>1, <1>3 DEF StreamInv, StreamTypes, StreamsTracked
<1>5. \A t \in Stream : OpensOnce(wsUp', t) /\ (Opens(wsUp', t) => Opens(wsUp, t))
  BY Zenon, <1>1, <1>2, ToldOpens
<1>6. Opening'
  BY Zenon, <1>1, <1>5 DEF StreamInv, StreamTypes, Opening
<1>7. OneTunnel'
  BY Zenon, <1>1, KeptTunnel DEF StreamInv, StreamTypes
<1> QED BY <1>3, <1>4, <1>6, <1>7 DEF StreamPart

-----------------------------------------------------------------------------
(* The sidecar's handlers *)

LEMMA ReadsOpenKeeps ==
  ASSUME StreamInv, NEW s \in Stream, SidecarReadsOpen(s), UNCHANGED vars
  PROVE  StreamPart'
<1>1. /\ wsUp # <<>> /\ Head(wsUp).type = "ws_open" /\ Head(wsUp).stream = s
      /\ wsUp' = Tail(wsUp) /\ streamConn' = [streamConn EXCEPT ![s] = "opening"]
      /\ UNCHANGED <<wsConnections, client, sent, upstream, failures>>
  BY Zenon DEF SidecarReadsOpen, Reads, objectVars, vars
<1>2. NoneRegistered
  BY Zenon, <1>1 DEF NoneRegistered, StreamInv, StreamTypes
<1>3. wsUp' \in Seq(WsMessage) /\ FramesInv' /\ DenseInv'
  BY Zenon, <1>1, <1>2, ReadFrames
<1>4. StreamTypes' /\ StreamsTracked'
  BY Zenon, <1>1, <1>3 DEF StreamInv, StreamTypes, StreamsTracked
<1>5. \A t \in Stream : OpensOnce(wsUp', t) /\ (Opens(wsUp', t) => Opens(wsUp, t))
  BY Zenon, <1>1, ReadOpens
<1>6. wsUp \in Seq(WsMessage) /\ OpensOnce(wsUp, s)
  BY Zenon DEF StreamInv, StreamTypes, Opening
<1>7. Opens(wsUp, s) /\ ~Opens(wsUp', s)
  BY Zenon, <1>1, <1>6, OpensKept
<1>8. client[s] # "new" /\ upstream[s] = <<>>
  BY Zenon, <1>7 DEF StreamInv, Opening
<1>9. Opening'
  BY <1>1, <1>5, <1>7, <1>8 DEF StreamInv, Opening
<1>10. OneTunnel'
  BY Zenon, <1>1, KeptTunnel
<1> QED BY <1>3, <1>4, <1>9, <1>10 DEF StreamPart

LEMMA ReadsCloseKeeps ==
  ASSUME StreamInv, NEW s \in Stream, HandleWsClose(s), UNCHANGED vars
  PROVE  StreamPart'
<1>1. /\ wsUp # <<>> /\ Head(wsUp).type = "ws_close" /\ wsUp' = Tail(wsUp)
      /\ \/ streamConn' = streamConn
         \/ streamConn[s] = "registered" /\ streamConn' = [streamConn EXCEPT ![s] = "dropped"]
      /\ UNCHANGED <<wsConnections, client, sent, upstream, failures>>
  BY Zenon DEF HandleWsClose, Reads, objectVars, vars
<1>2. NoneRegistered
  BY Zenon, <1>1 DEF NoneRegistered, StreamInv, StreamTypes
<1>3. wsUp' \in Seq(WsMessage) /\ FramesInv' /\ DenseInv'
  BY Zenon, <1>1, <1>2, ReadFrames
<1>4. StreamTypes' /\ StreamsTracked'
  BY Zenon, <1>1, <1>3 DEF StreamInv, StreamTypes, StreamsTracked
<1>5. \A t \in Stream : OpensOnce(wsUp', t) /\ (Opens(wsUp', t) => Opens(wsUp, t))
  BY Zenon, <1>1, ReadOpens
<1>6. Opening'
  BY <1>1, <1>5 DEF StreamInv, StreamTypes, Opening
<1>7. OneTunnel'
  BY Zenon, <1>1, KeptTunnel
<1> QED BY <1>3, <1>4, <1>6, <1>7 DEF StreamPart

\* handleWsOpen registers a stream of which Headscale has no frame yet.
LEMMA GoroutineKeeps ==
  ASSUME StreamInv, NEW s \in Stream, HandleWsOpen(s) \/ HeadscaleSends(s) \/ ReaderEnds(s),
         UNCHANGED vars
  PROVE  StreamPart'
<1>1. /\ \/ streamConn' = streamConn
         \/ /\ streamConn[s] = "opening"
            /\ \E o \in {"registered", "failed"} : streamConn' = [streamConn EXCEPT ![s] = o]
         \/ /\ streamConn[s] \in {"registered", "dropped"}
            /\ streamConn' = [streamConn EXCEPT ![s] = "ended"]
      /\ UNCHANGED <<wsConnections, client, sent, wsUp, upstream, failures>>
  BY Zenon DEF HandleWsOpen, HeadscaleSends, ReaderEnds, objectVars, wsVars, vars
<1>2. StreamTypes' /\ StreamsTracked'
  BY ZenonT(40), <1>1 DEF StreamInv, StreamTypes, StreamsTracked
<1>3. streamConn[s] = "opening" => upstream[s] = <<>> /\ client[s] # "new" /\ ~Opens(wsUp, s)
  BY Zenon DEF StreamInv, Opening
<1>4. NoneRegistered
  BY Zenon, <1>1, <1>3 DEF NoneRegistered, StreamInv, StreamTypes
<1>5. FramesInv' /\ DenseInv'
  BY Zenon, <1>1, <1>4, KeptFrames
<1>6. Opening'
  BY <1>1, <1>3 DEF StreamInv, StreamTypes, Opening
<1>7. OneTunnel'
  BY Zenon, <1>1, KeptTunnel
<1> QED BY <1>2, <1>5, <1>6, <1>7 DEF StreamPart

\* A frame of a registered stream is the next for Headscale; others are dropped.
LEMMA DataKeeps ==
  ASSUME StreamInv, NEW s \in Stream, HandleWsData(s), UNCHANGED vars
  PROVE  StreamPart'
<1> DEFINE f == Head(wsUp).frame
<1>1. /\ wsUp # <<>> /\ Head(wsUp).type = "ws_data" /\ Head(wsUp).stream = s
      /\ wsUp' = Tail(wsUp)
      /\ UNCHANGED <<wsConnections, client, sent, streamConn, failures>>
  BY Zenon DEF HandleWsData, Reads, objectVars, vars
<1>2. \/ streamConn[s] = "registered" /\ upstream' = [upstream EXCEPT ![s] = Append(upstream[s], f)]
      \/ streamConn[s] # "registered" /\ upstream' = upstream
  BY Zenon DEF HandleWsData
<1>3. wsUp \in Seq(WsMessage) /\ \A t \in Stream : IsData(Head(wsUp), t) <=> t = s
  BY Zenon, <1>1 DEF StreamInv, StreamTypes, IsData
<1>4. wsUp' \in Seq(WsMessage)
  BY Zenon, <1>1, <1>3, TailOther
<1>5. sent[s] \in Nat /\ upstream[s] \in Seq(Nat) /\ LastOf(upstream[s]) \in Nat
  BY Zenon, Numbers DEF StreamInv
<1>6. /\ f \in Nat /\ LastOf(upstream[s]) < f /\ f <= sent[s]
      /\ Within(wsUp', s, f, sent[s])
      /\ Complete(wsUp, s, sent[s]) => Remaining(wsUp', s, f, sent[s])
      /\ Remaining(wsUp, s, LastOf(upstream[s]), sent[s]) => f = LastOf(upstream[s]) + 1
  <2>1. Rising(wsUp, s) /\ Within(wsUp, s, LastOf(upstream[s]), sent[s])
    BY Zenon DEF StreamInv, FramesInv
  <2>2. IsData(Head(wsUp), s) /\ wsUp # <<>> /\ wsUp \in Seq(WsMessage)
    BY Zenon, <1>1, <1>3
  <2>3. /\ f \in Nat /\ LastOf(upstream[s]) < f /\ f <= sent[s]
        /\ Within(Tail(wsUp), s, f, sent[s])
        /\ Complete(wsUp, s, sent[s]) => Remaining(Tail(wsUp), s, f, sent[s])
        /\ Remaining(wsUp, s, LastOf(upstream[s]), sent[s]) => f = LastOf(upstream[s]) + 1
    BY ZenonT(40), <1>5, <2>1, <2>2, TailFrame
  <2> HIDE DEF f
  <2> QED BY Zenon, <1>1, <2>3
<1> HIDE DEF f
<1>7. upstream' \in [Stream -> Seq(Nat)] /\ \A t \in Stream : t # s => upstream'[t] = upstream[t]
  <2>1. Append(upstream[s], f) \in Seq(Nat)
    BY <1>5, <1>6
  <2> QED BY Zenon, <1>2, <2>1 DEF StreamInv, StreamTypes
<1>8. StreamTypes' /\ StreamsTracked'
  BY Zenon, <1>1, <1>4, <1>7 DEF StreamInv, StreamTypes, StreamsTracked
<1>9. \A t \in Stream : OpensOnce(wsUp', t) /\ (Opens(wsUp', t) => Opens(wsUp, t))
  BY Zenon, <1>1, ReadOpens
<1>10. Opening'
  <2>1. \A t \in Stream : upstream'[t] = upstream[t] \/ streamConn[t] = "registered"
    BY Zenon, <1>2, <1>7
  <2> QED BY Zenon, <1>1, <1>9, <2>1 DEF StreamInv, Opening
<1>11. OneTunnel'
  BY Zenon, <1>1, KeptTunnel
<1>12. ASSUME NEW t \in Stream
       PROVE  /\ Ordered(upstream'[t])
              /\ LastOf(upstream'[t]) <= sent[t]
              /\ Rising(wsUp', t)
              /\ Within(wsUp', t, LastOf(upstream'[t]), sent[t])
              /\ failures = 0 =>
                   /\ Dense(upstream'[t])
                   /\ Complete(wsUp', t, sent[t])
                   /\ streamConn[t] = "registered" /\ upstream'[t] # <<>> =>
                        Remaining(wsUp', t, LastOf(upstream'[t]), sent[t])
  <2>1. sent[t] \in Nat /\ LastOf(upstream[t]) \in Nat
    BY Numbers DEF StreamInv
  <2>2. /\ Ordered(upstream[t]) /\ LastOf(upstream[t]) <= sent[t] /\ Rising(wsUp, t)
        /\ Within(wsUp, t, LastOf(upstream[t]), sent[t])
    BY Zenon DEF StreamInv, FramesInv
  <2>3. failures = 0 =>
          /\ Dense(upstream[t])
          /\ Complete(wsUp, t, sent[t])
          /\ streamConn[t] = "registered" /\ upstream[t] # <<>> =>
               Remaining(wsUp, t, LastOf(upstream[t]), sent[t])
    BY Zenon DEF StreamInv, DenseInv
  <2>4. /\ Rising(wsUp', t) /\ Within(wsUp', t, LastOf(upstream[t]), sent[t])
        /\ Complete(wsUp, t, sent[t]) => Complete(wsUp', t, sent[t])
        /\ Remaining(wsUp, t, LastOf(upstream[t]), sent[t]) /\ t # s
             => Remaining(wsUp', t, LastOf(upstream[t]), sent[t])
    BY ZenonT(40), <1>1, <1>3, <2>1, <2>2, TailOther
  <2>5. CASE t # s
    BY Zenon, <1>7, <2>2, <2>3, <2>4, <2>5
  <2>6. CASE t = s /\ streamConn[s] # "registered"
    <3>1. upstream'[t] = upstream[t]
      BY Zenon, <1>2, <2>6
    <3> QED BY Zenon, <2>2, <2>3, <2>4, <2>6, <3>1
  <2>7. CASE t = s /\ streamConn[s] = "registered"
    <3> DEFINE u == Append(upstream[s], f)
    <3>1. upstream'[t] = u
      BY Zenon, <1>2, <2>7 DEF StreamInv, StreamTypes
    <3>2. /\ u # <<>> /\ LastOf(u) = f /\ Ordered(u)
          /\ Dense(upstream[s]) /\ (upstream[s] # <<>> => f = LastOf(upstream[s]) + 1) => Dense(u)
      BY Zenon, <1>5, <1>6, <2>2, <2>7, Received
    <3> HIDE DEF u
    <3>3. failures = 0 =>
            /\ Dense(upstream[s])
            /\ Complete(wsUp, s, sent[s])
            /\ upstream[s] # <<>> => Remaining(wsUp, s, LastOf(upstream[s]), sent[s])
      BY Zenon, <2>3, <2>7
    <3>4. failures = 0 => Dense(u)
      <4>1. failures = 0 => (upstream[s] # <<>> => f = LastOf(upstream[s]) + 1)
        BY Zenon, <1>6, <3>3
      <4> QED BY Zenon, <3>2, <3>3, <4>1
    <3>5. failures = 0 => Remaining(wsUp', s, f, sent[s])
      BY Zenon, <1>6, <3>3
    <3>6. failures = 0 => Complete(wsUp', s, sent[s])
      BY Zenon, <2>4, <2>7, <3>3
    <3>7. Rising(wsUp', s) /\ Within(wsUp', s, f, sent[s]) /\ f <= sent[s]
      BY Zenon, <1>6, <2>4, <2>7
    <3> QED BY Zenon, <2>7, <3>1, <3>2, <3>4, <3>5, <3>6, <3>7
  <2> QED BY Zenon, <2>5, <2>6, <2>7
<1>13. FramesInv'
  BY Zenon, <1>1, <1>12 DEF FramesInv
<1>14. DenseInv'
  BY Zenon, <1>1, <1>12 DEF DenseInv
<1> QED BY <1>8, <1>10, <1>11, <1>13, <1>14 DEF StreamPart

-----------------------------------------------------------------------------
(* The tunnel's steps *)

\* With its streams left alone, no step of the tunnel before the first failure
\* takes the sidecar's connection away.
LEMMA TunnelStepOne ==
  ASSUME StreamInv, TunnelStep \/ (\E c \in Conn : CloseEvent(c)), client' = client
  PROVE  OneTunnel' /\ (failures' = 0 => failures = 0)
<1>0. /\ OneTunnel /\ conn \in [Conn -> {"closed", "authorising", "open"}]
      /\ failures \in Nat /\ side \in Conn \cup {None} /\ tunnel \in Conn \cup {None}
      /\ None \notin Conn
  BY NoneAssumption DEF StreamInv, TypeOK
<1>1. ASSUME NEW c \in Conn, SidecarDial(c) PROVE OneTunnel' /\ failures' = failures
  <2>1. /\ side = None /\ side' = c /\ conn' = [conn EXCEPT ![c] = "authorising"]
        /\ tunnel' = tunnel /\ failures' = failures
    BY Zenon, <1>1 DEF SidecarDial
  <2> QED BY Zenon, <1>0, <2>1 DEF OneTunnel
<1>2. ASSUME NEW c \in Conn, AcceptTunnel(c) PROVE OneTunnel' /\ failures' = failures
  <2>1. /\ conn[c] = "authorising" /\ conn' = [conn EXCEPT ![c] = "open"] /\ tunnel' = c
        /\ side' = side /\ failures' = failures
    BY <1>2 DEF AcceptTunnel, sidecarVars
  <2> QED BY Zenon, <1>0, <2>1 DEF OneTunnel
<1>3. ASSUME NEW c \in Conn, RefuseTunnel(c) PROVE OneTunnel' /\ failures' # 0
  <2>1. failures' # 0
    BY <1>0, <1>3 DEF RefuseTunnel
  <2> QED BY <2>1 DEF OneTunnel
<1>4. ASSUME NEW c \in Conn, CloseEvent(c) PROVE OneTunnel' /\ failures' = failures
  <2>1. failures' = failures /\ conn[c] = "open" /\ c # side
    BY Zenon, <1>4 DEF CloseEvent
  <2> QED BY Zenon, <1>0, <2>1 DEF OneTunnel
<1>5. ASSUME SidecarNotices PROVE OneTunnel' /\ failures' = failures
  <2>1. failures' = failures /\ side \in Conn /\ conn[side] = "closed"
    BY Zenon, <1>0, <1>5 DEF SidecarNotices
  <2> QED BY Zenon, <1>0, <2>1 DEF OneTunnel
<1>6. ASSUME \/ \E m \in Message : MessageStep(m)
             \/ \E m \in Response : ResponseStep(m)
             \/ \E r \in Request : RequestStep(r)
      PROVE  OneTunnel' /\ failures' = failures
  <2>1. UNCHANGED <<tunnel, conn, side, failures>>
    BY Zenon, <1>6
      DEF MessageStep, SidecarReads, SidecarResponds, ResponseStep, Receive,
          ReceiveThrows, RequestStep, ForwardStart, ForwardBodyFails, ForwardSend, ForwardSendFails,
          ForwardTimeout, sidecarVars
  <2> QED BY Zenon, <1>0, <2>1 DEF OneTunnel
<1> QED BY Zenon, <1>1, <1>2, <1>3, <1>4, <1>5, <1>6 DEF TunnelStep

LEMMA TunnelStepKeeps ==
  ASSUME StreamInv, TunnelStep \/ (\E c \in Conn : CloseEvent(c)),
         UNCHANGED <<wsConnections, client, sent, wsUp, streamConn, upstream>>
  PROVE  StreamPart'
<1>1. OneTunnel' /\ (failures' = 0 => failures = 0)
  BY TunnelStepOne
<1>2. StreamTypes' /\ StreamsTracked'
  BY Zenon DEF StreamInv, StreamTypes, StreamsTracked
<1>3. Opening' /\ FramesInv'
  BY Zenon DEF StreamInv, Opening, FramesInv
<1>4. DenseInv'
  BY Zenon, <1>1 DEF StreamInv, DenseInv
<1> QED BY <1>1, <1>2, <1>3, <1>4 DEF StreamPart

\* What is in flight to the sidecar is lost with the connection or the object.
LEMMA FailureKeeps ==
  ASSUME StreamInv, SidecarLeavesStreams \/ EvictStreams
  PROVE  StreamPart'
<1>1. /\ wsUp' = <<>> /\ UNCHANGED <<sent, upstream>>
      /\ streamConn' = streamConn \/ streamConn' = [s \in Stream |-> "ended"]
      /\ \/ UNCHANGED <<client, wsConnections>>
         \/ /\ client' = [s \in Stream |-> IF client[s] = "new" THEN "new" ELSE "closed"]
            /\ wsConnections' = {}
  BY Zenon DEF SidecarLeavesStreams, EvictStreams, objectVars, headscaleVars
<1>2. failures' = failures + 1 /\ failures \in Nat
  BY DEF SidecarLeavesStreams, EvictStreams, SidecarLeaves, Evict, StreamInv, TypeOK
<1>3. failures' # 0
  BY <1>2
<1>4. wsUp' \in Seq(WsMessage) /\ FramesInv' /\ DenseInv'
  BY <1>1, <1>3, ForgottenFrames
<1>5. StreamTypes' /\ StreamsTracked'
  BY <1>1, <1>4 DEF StreamInv, StreamTypes, StreamsTracked
<1>6. \A s \in Stream : ~Opens(<<>>, s) /\ OpensOnce(<<>>, s)
  BY DEF Opens, OpensOnce
<1>7. Opening'
  BY Zenon, <1>1, <1>6 DEF StreamInv, Opening
<1>8. OneTunnel'
  BY <1>3 DEF OneTunnel
<1> QED BY <1>4, <1>5, <1>7, <1>8 DEF StreamPart

-----------------------------------------------------------------------------
(* Putting the steps together *)

\* To plain requests the streams are not there: a step of the composition is a
\* step of the tunnel or leaves it alone.
LEMMA StepRefines == [StreamNext]_allVars => [Next]_vars
<1>1. TunnelStep => Next
  BY DEF TunnelStep, Next, ConnStep
<1>2. SidecarLeavesStreams => Next
  BY DEF SidecarLeavesStreams, Next
<1>3. EvictStreams => Next
  BY DEF EvictStreams, Next
<1>4. ASSUME NEW c \in Conn, CloseEventStreams(c) PROVE Next
  BY <1>4 DEF CloseEventStreams, Next, ConnStep
<1> QED BY <1>1, <1>2, <1>3, <1>4 DEF StreamNext, allVars

LEMMA StreamStep == StreamInv /\ [StreamNext]_allVars => StreamInv'
<1> SUFFICES ASSUME StreamInv, [StreamNext]_allVars PROVE StreamInv'
  OBVIOUS
<1>1. TypeOK'
  BY StepRefines, StepTyped DEF StreamInv
<1>2. CASE TunnelStep /\ UNCHANGED streamVars
  <2>1. UNCHANGED <<wsConnections, client, sent, wsUp, streamConn, upstream>>
    BY <1>2 DEF streamVars, objectVars, wsVars, headscaleVars
  <2>2. StreamPart'
    BY <1>2, <2>1, TunnelStepKeeps
  <2> QED BY <1>1, <2>2 DEF StreamPart, StreamInv
<1>3. ASSUME NEW c \in Conn, CloseEventStreams(c) PROVE StreamInv'
  <2>1. /\ CloseEvent(c)
        /\ UNCHANGED <<wsConnections, client, sent, wsUp, streamConn, upstream>>
    BY <1>3 DEF CloseEventStreams, objectVars, headscaleVars
  <2>2. StreamPart'
    BY <2>1, TunnelStepKeeps
  <2> QED BY <1>1, <2>2 DEF StreamPart, StreamInv
<1>4. CASE SidecarLeavesStreams \/ EvictStreams
  BY <1>1, <1>4, FailureKeeps DEF StreamPart, StreamInv
<1>5. ASSUME NEW s \in Stream, ObjectStep(s), UNCHANGED vars PROVE StreamInv'
  <2>1. StreamPart'
    BY Zenon, <1>5, RefuseKeeps, OpenKeeps, ClientFrameKeeps, ListenerKeeps, ClosedKeeps
      DEF ObjectStep
  <2> QED BY <1>1, <2>1 DEF StreamPart, StreamInv
<1>6. ASSUME NEW s \in Stream, SidecarStep(s), UNCHANGED vars PROVE StreamInv'
  <2>1. StreamPart'
    BY Zenon, <1>6, ReadsOpenKeeps, ReadsCloseKeeps, GoroutineKeeps, DataKeeps
      DEF SidecarStep
  <2> QED BY <1>1, <2>1 DEF StreamPart, StreamInv
<1>7. CASE UNCHANGED allVars
  <2>1. /\ UNCHANGED <<wsConnections, client, sent, wsUp, streamConn, upstream>>
        /\ UNCHANGED <<tunnel, conn, side, failures>>
    BY Zenon, <1>7
      DEF allVars, streamVars, objectVars, wsVars, headscaleVars, vars, sidecarVars
  <2>2. StreamTypes' /\ StreamsTracked' /\ Opening' /\ FramesInv'
    BY Zenon, <2>1 DEF StreamInv, StreamTypes, StreamsTracked, Opening, FramesInv
  <2>3. OneTunnel' /\ DenseInv'
    BY Zenon, <2>1 DEF StreamInv, OneTunnel, DenseInv
  <2> QED BY <1>1, <2>2, <2>3 DEF StreamInv
<1> QED BY <1>2, <1>3, <1>4, <1>5, <1>6, <1>7 DEF StreamNext

LEMMA StreamStart == StreamInit => StreamInv
<1> SUFFICES ASSUME StreamInit PROVE StreamInv
  OBVIOUS
<1>1. TypeOK
  BY Initial DEF StreamInit, IInv
<1>2. /\ wsConnections = {} /\ client = [s \in Stream |-> "new"]
      /\ sent = [s \in Stream |-> 0] /\ wsUp = <<>>
      /\ streamConn = [s \in Stream |-> "none"] /\ upstream = [s \in Stream |-> <<>>]
  BY Zenon DEF StreamInit
<1>3. <<>> \in Seq(WsMessage) /\ <<>> \in Seq(Nat)
  OBVIOUS
<1>4. StreamTypes /\ StreamsTracked
  BY <1>2 DEF StreamTypes, StreamsTracked
<1>5. Ordered(<<>>) /\ Dense(<<>>) /\ LastOf(<<>>) = 0
  BY DEF Ordered, Dense, LastOf
<1>6. \A s \in Stream :
        /\ Rising(<<>>, s) /\ Within(<<>>, s, 0, 0) /\ Complete(<<>>, s, 0)
        /\ ~Opens(<<>>, s) /\ OpensOnce(<<>>, s)
  BY ZenonT(40), <1>3, Lost
<1>7. Opening /\ FramesInv
  BY <1>2, <1>5, <1>6 DEF Opening, FramesInv
<1>8. DenseInv
  BY Zenon, <1>2, <1>5, <1>6 DEF DenseInv
<1>9. OneTunnel
  BY Zenon, NoneAssumption DEF StreamInit, Init, OneTunnel
<1> QED BY <1>1, <1>4, <1>7, <1>8, <1>9 DEF StreamInv

LEMMA StreamInvariant == StreamSpec => []StreamInv
BY StreamStart, StreamStep, PTL DEF StreamSpec

-----------------------------------------------------------------------------
\* To plain requests the object behaves as if it carried no streams: opening,
\* frames and closes of forwardWebSocket and of the sidecar's stream handlers
\* change nothing that forwardToHeadscale and acceptTunnel rely on.
THEOREM StreamsRefineTunnel == StreamSpec => Spec
<1>1. StreamInit => Init
  BY DEF StreamInit
<1> QED BY <1>1, StepRefines, PTL DEF StreamSpec, Spec

\* The object's wsConnections agrees with the clients' sockets, for any number
\* of streams and whatever order the closes by the client, by the sidecar and
\* by an eviction come in.
THEOREM StreamsAlwaysTracked == StreamSpec => []StreamsTracked
<1>1. StreamInv => StreamsTracked
  BY DEF StreamInv
<1> QED BY <1>1, StreamInvariant, PTL

\* Headscale receives the frames of every stream in the order the client sent
\* them, none twice, and before the first failure none is missing between two:
\* the message listener, handleWsOpen and handleWsData keep the order although
\* handleWsOpen runs in a goroutine of its own.
THEOREM FramesAlwaysOrdered == StreamSpec => []FramesOrdered
<1>1. StreamInv => FramesOrdered
  <2> SUFFICES ASSUME StreamInv, NEW s \in Stream, NEW i \in 2 .. Len(upstream[s])
               PROVE  /\ upstream[s][i - 1] < upstream[s][i]
                      /\ failures = 0 => upstream[s][i] = upstream[s][i - 1] + 1
    BY Zenon DEF FramesOrdered
  <2>1. Ordered(upstream[s]) /\ (failures = 0 => Dense(upstream[s]))
    BY Zenon DEF StreamInv, FramesInv, DenseInv
  <2> QED BY Zenon, <2>1 DEF Ordered, Dense
<1> QED BY <1>1, StreamInvariant, PTL

\* So what is proved of the tunnel and its requests holds beside any number of
\* streams: this.tunnel is open, pendingRequests holds what waits, and no answer
\* of forwardToHeadscale contradicts whether the request was executed.
THEOREM RequestsUndisturbed == StreamSpec => [](TunnelOpen /\ PendingUnsettled /\ AnswersTruthful)
BY StreamsRefineTunnel, TunnelIsOpen, MapHoldsWhatWaits, TruthfulAnswers, PTL

=============================================================================
