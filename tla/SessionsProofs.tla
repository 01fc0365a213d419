---------------------------- MODULE SessionsProofs ----------------------------
(***************************************************************************)
(* Theorems about Sessions, for every number of nodes and every bound: no  *)
(* session is half open, and a waiting connect can be answered.            *)
(***************************************************************************)
EXTENDS Sessions, TLAPS

\* The rows of connections, as far as the proofs need their shape.
Row(r) == \E state, address : r = [state |-> state, address |-> address]

Shaped ==
    /\ DOMAIN connections = Node
    /\ \A n \in Node : \A s \in DOMAIN connections[n] : Row(connections[n][s])

\* EstablishedWasPromoted needs that a HandshakeAck is only ever sent by an
\* initiator that has promoted its handshake to the session it names.
AcksArePromoted == \A m \in net : m.kind = "ack" => m.session \in promoted

OpenInv ==
    /\ Shaped
    /\ AcksArePromoted
    /\ \A n \in Node : \A s \in DOMAIN connections[n] :
           connections[n][s].state = "established" => s \in promoted

\* Without takes one row away.
LEMMA WithoutFacts ==
    ASSUME NEW f, NEW x
    PROVE  /\ DOMAIN Without(f, x) = DOMAIN f \ {x}
           /\ \A y \in DOMAIN f : y # x => Without(f, x)[y] = f[y]
BY DEF Without

\* A step that sends no HandshakeAck and leaves connections alone.
LEMMA QuietStep ==
    ASSUME OpenInv, connections' = connections, promoted \subseteq promoted',
           \A m \in net' : m \in net \/ m.kind # "ack"
    PROVE  OpenInv'
BY DEF OpenInv, Shaped, AcksArePromoted

\* A step that changes the rows of one node and sends no HandshakeAck.
LEMMA RowsStep ==
    ASSUME OpenInv, NEW n \in Node, NEW t, connections' = [connections EXCEPT ![n] = t],
           \A s \in DOMAIN t : Row(t[s]) /\ (t[s].state = "established" => s \in promoted'),
           promoted \subseteq promoted',
           \A m \in net' : m.kind = "ack" => m \in net \/ m.session \in promoted'
    PROVE  OpenInv'
<1>1. DOMAIN connections' = Node /\ connections'[n] = t
  BY DEF OpenInv, Shaped
<1>2. \A k \in Node : k # n => connections'[k] = connections[k]
  BY DEF OpenInv, Shaped
<1>3. Shaped'
  BY <1>1, <1>2 DEF OpenInv, Shaped
<1>4. AcksArePromoted'
  BY DEF OpenInv, AcksArePromoted
<1> QED
  BY <1>1, <1>2, <1>3, <1>4 DEF OpenInv

\* Packets other than HandshakeAck.
LEMMA OtherPackets ==
    /\ \A n, d, s, h, k : HelloPacket(n, d, s, h, k).kind # "ack"
    /\ \A n, d, s, h : AppRejection(n, d, s, h).kind # "ack"
    /\ \A n, d, s, h : IdCollision(n, d, s, h).kind # "ack"
    /\ \A n, d, s : CloseSessionPacket(n, d, s).kind # "ack"
    /\ \A n, d, s : KeepAlivePacket(n, d, s).kind # "ack"
BY DEF HelloPacket, AppRejection, IdCollision, CloseSessionPacket, KeepAlivePacket, Packet

\* A step that adds or replaces a row and sends no HandshakeAck but for it.
LEMMA AddRowStep ==
    ASSUME OpenInv, NEW n \in Node, NEW s, NEW r, Row(r),
           connections' = [connections EXCEPT ![n] = With(@, s, r)],
           r.state = "established" => s \in promoted',
           promoted \subseteq promoted',
           \A m \in net' : m.kind = "ack" => m \in net \/ m.session \in promoted'
    PROVE  OpenInv'
<1> DEFINE t == With(connections[n], s, r)
<1>1. connections' = [connections EXCEPT ![n] = t]
  BY DEF OpenInv, Shaped
<1>2. /\ DOMAIN t = DOMAIN connections[n] \cup {s} /\ t[s] = r
      /\ \A y \in DOMAIN connections[n] : y # s => t[y] = connections[n][y]
  <2>1. DOMAIN t = DOMAIN connections[n] \cup {s}
    BY DEF With
  <2>2. t[s] = r
    BY DEF With
  <2>3. \A y \in DOMAIN connections[n] : y # s => t[y] = connections[n][y]
    BY DEF With
  <2> QED
    BY <2>1, <2>2, <2>3
<1> HIDE DEF t
<1>3. \A y \in DOMAIN t : Row(t[y]) /\ (t[y].state = "established" => y \in promoted')
  BY <1>2 DEF OpenInv, Shaped
<1> QED
  BY <1>1, <1>3, RowsStep, Zenon

\* A step that takes a row away and sends no HandshakeAck.
LEMMA DropRowStep ==
    ASSUME OpenInv, NEW n \in Node, NEW s,
           connections' = [connections EXCEPT ![n] = Without(@, s)],
           promoted' = promoted, net' = net
    PROVE  OpenInv'
<1> DEFINE t == Without(connections[n], s)
<1>1. connections' = [connections EXCEPT ![n] = t]
  BY DEF OpenInv, Shaped
<1>2. /\ DOMAIN t = DOMAIN connections[n] \ {s}
      /\ \A y \in DOMAIN connections[n] : y # s => t[y] = connections[n][y]
  BY WithoutFacts, Zenon
<1> HIDE DEF t
<1>3. \A y \in DOMAIN t : Row(t[y]) /\ (t[y].state = "established" => y \in promoted')
  BY <1>2 DEF OpenInv, Shaped
<1>4. promoted \subseteq promoted' /\ \A m \in net' : m.kind = "ack" => m \in net
  OBVIOUS
<1> QED
  BY <1>1, <1>3, <1>4, RowsStep, Zenon

-----------------------------------------------------------------------------
(* The handshake.                                                          *)

\* new_session creates a session in the state Handshake, if any.
LEMMA CreateOpens ==
    ASSUME OpenInv, NEW n \in Node, NEW t, CreateSession(n, t)
    PROVE  OpenInv'
<1>1. promoted' = promoted /\ net' = net
  BY DEF CreateSession
<1>2. CASE connections' = connections
  BY <1>1, <1>2, QuietStep
<1>3. CASE NewSession(n, t.hello.session, t.hello.src)
  <2> DEFINE r == [state |-> "handshake", address |-> t.hello.src]
  <2>1. Row(r) /\ r.state # "established"
    BY DEF Row
  <2>2. connections' = [connections EXCEPT ![n] = With(@, t.hello.session, r)]
    BY <1>3 DEF NewSession
  <2> HIDE DEF r
  <2>3. promoted \subseteq promoted' /\ \A m \in net' : m.kind = "ack" => m \in net
    BY <1>1
  <2> QED
    BY <2>1, <2>2, <2>3, AddRowStep, Zenon
<1> QED
  BY <1>2, <1>3 DEF CreateSession

\* promote_handshake establishes a session, and the HandshakeAck is for it.
LEMMA AnsweredOpens ==
    ASSUME OpenInv, NEW n \in Node, NEW t, HelloAnswered(n, t)
    PROVE  OpenInv'
<1> DEFINE m == t.hello
<1>1. CASE UNCHANGED <<connections, promoted, net>>
  BY <1>1, QuietStep
<1>2. CASE \E h \in handshakes[n] : Promote(n, h, m.session, m.src, m.key) /\
           net' = net \cup {HandshakeAckPacket(n, m.src, m.session, m.hid)}
  <2>1. /\ connections' = [connections EXCEPT ![n] =
               With(@, m.session, [state |-> "established", address |-> m.src])]
        /\ promoted' = promoted \cup {m.session}
        /\ net' = net \cup {HandshakeAckPacket(n, m.src, m.session, m.hid)}
    BY <1>2 DEF Promote
  <2> HIDE DEF m
  <2> DEFINE r == [state |-> "established", address |-> m.src]
  <2>2. Row(r)
    BY DEF Row
  <2>3. connections' = [connections EXCEPT ![n] = With(@, m.session, r)]
    BY <2>1
  <2> HIDE DEF r
  <2>4. HandshakeAckPacket(n, m.src, m.session, m.hid).session = m.session
    BY DEF HandshakeAckPacket, Packet
  <2>5. promoted \subseteq promoted' /\ m.session \in promoted'
    BY <2>1
  <2>6. \A k \in net' : k.kind = "ack" => k \in net \/ k.session \in promoted'
    BY <2>1, <2>4, <2>5
  <2> QED
    BY <2>2, <2>3, <2>5, <2>6, AddRowStep, Zenon
<1> QED
  BY <1>1, <1>2 DEF HelloAnswered, tableVars, historyVars

\* handshake_done: the session was promoted when its HandshakeAck was sent.
LEMMA AckOpens ==
    ASSUME OpenInv, NEW n \in Node, NEW m, ReceiveHandshakeAck(n, m)
    PROVE  OpenInv'
<1>1. /\ m.session \in promoted /\ promoted' = promoted
      /\ \A k \in net' : k.kind = "ack" => k \in net \/ k.session \in promoted'
  <2>1. m \in net /\ m.kind = "ack" /\ net' \subseteq net /\ promoted' = promoted
    BY DEF ReceiveHandshakeAck, Arrived, Takes, historyVars
  <2> QED
    BY <2>1 DEF OpenInv, AcksArePromoted
<1>2. CASE connections' = connections
  BY <1>1, <1>2 DEF OpenInv, Shaped, AcksArePromoted
<1>3. CASE /\ Has(n, m.session)
           /\ connections' = [connections EXCEPT ![n][m.session].state = "established"]
  <2> DEFINE s == m.session
             t == [connections[n] EXCEPT ![s] = [@ EXCEPT !.state = "established"]]
  <2>1. connections' = [connections EXCEPT ![n] = t]
    BY <1>3 DEF OpenInv, Shaped
  <2>2. DOMAIN t = DOMAIN connections[n]
    OBVIOUS
  <2>3. s \in DOMAIN connections[n] /\ t[s] = [connections[n][s] EXCEPT !.state = "established"]
    BY <1>3 DEF Has
  <2>4. \A y \in DOMAIN t : y # s => t[y] = connections[n][y]
    OBVIOUS
  <2> HIDE DEF t, s
  <2>5. Row(t[s])
    <3>1. PICK state, address : connections[n][s] = [state |-> state, address |-> address]
      BY <2>3 DEF OpenInv, Shaped, Row
    <3>2. t[s] = [state |-> "established", address |-> address]
      BY <2>3, <3>1
    <3> QED
      BY <3>2 DEF Row
  <2>6. \A y \in DOMAIN t : Row(t[y]) /\ (t[y].state = "established" => y \in promoted')
    BY <1>1, <2>2, <2>3, <2>4, <2>5 DEF OpenInv, Shaped, s
  <2>7. promoted \subseteq promoted'
    BY <1>1
  <2> QED
    BY <1>1, <2>1, <2>6, <2>7, RowsStep, Zenon
<1> QED
  BY <1>2, <1>3 DEF ReceiveHandshakeAck

-----------------------------------------------------------------------------
(* Closing and moving.                                                     *)

\* No row is added.
LEMMA CloseOpens ==
    ASSUME OpenInv, NEW n \in Node, CloseStep(n)
    PROVE  OpenInv'
<1>1. ASSUME NEW m \in net, ReceiveClose(n, m) PROVE OpenInv'
  <2>1. connections' = connections /\ promoted' = promoted /\ net' \subseteq net
    BY <1>1 DEF ReceiveClose, Takes, tableVars, historyVars
  <2> QED
    BY <2>1, QuietStep
<1>2. ASSUME NEW s \in held[n], AppClose(n, s) PROVE OpenInv'
  <2>1. connections' = connections /\ promoted' = promoted /\ net' = net
    BY <1>2 DEF AppClose, tableVars, historyVars
  <2> QED
    BY <2>1, QuietStep
<1>3. ASSUME NEW c \in closers[n], SendClose(n, c) PROVE OpenInv'
  <2>1. /\ connections' = connections /\ promoted' = promoted
        /\ \E d : net' \in {net, net \cup {CloseSessionPacket(n, d, c.session)}}
    BY <1>3 DEF SendClose, tableVars, historyVars
  <2> QED
    BY <2>1, OtherPackets, QuietStep
<1>4. ASSUME NEW c \in closers[n], CloseConnection(n, c) PROVE OpenInv'
  <2>1. promoted' = promoted /\ net' = net
    BY <1>4 DEF CloseConnection
  <2>2. \/ connections' = [connections EXCEPT ![n] = Without(@, c.session)]
        \/ connections' = connections
    BY <1>4 DEF CloseConnection
  <2> QED
    BY <2>1, <2>2, DropRowStep, QuietStep
<1>5. ASSUME NEW c \in closers[n], CloseAddress(n, c) PROVE OpenInv'
  <2>1. connections' = connections /\ promoted' = promoted /\ net' = net
    BY <1>5 DEF CloseAddress, historyVars
  <2> QED
    BY <2>1, QuietStep
<1> QED
  BY <1>1, <1>2, <1>3, <1>4, <1>5 DEF CloseStep

\* A move changes the address of a row only.
LEMMA MoveConnectionOpens ==
    ASSUME OpenInv, NEW n \in Node, NEW i \in Mover, MoveConnection(n, i)
    PROVE  OpenInv'
<1> DEFINE s == movers[n][i].session
           to == movers[n][i].to
           t == [connections[n] EXCEPT ![s] = [@ EXCEPT !.address = to]]
<1>1. promoted' = promoted /\ net' = net
  BY DEF MoveConnection, historyVars
<1>2. CASE connections' = connections
  BY <1>1, <1>2, QuietStep
<1>3. CASE Has(n, s) /\ connections' = [connections EXCEPT ![n][s].address = to]
  <2>1. connections' = [connections EXCEPT ![n] = t]
    BY <1>3 DEF OpenInv, Shaped
  <2>2. DOMAIN t = DOMAIN connections[n] /\ s \in DOMAIN connections[n]
    BY <1>3 DEF Has
  <2>3. t[s] = [connections[n][s] EXCEPT !.address = to]
    BY <2>2
  <2>4. \A y \in DOMAIN t : y # s => t[y] = connections[n][y]
    OBVIOUS
  <2> HIDE DEF t, s, to
  <2>5. Row(t[s]) /\ t[s].state = connections[n][s].state
    <3>1. PICK state, address : connections[n][s] = [state |-> state, address |-> address]
      BY <2>2 DEF OpenInv, Shaped, Row
    <3>2. t[s] = [state |-> state, address |-> to]
      BY <2>3, <3>1
    <3>3. Row(t[s])
      BY <3>2, Zenon DEF Row
    <3>4. t[s].state = state /\ connections[n][s].state = state
      BY <3>1, <3>2
    <3> QED
      BY <3>3, <3>4, Zenon
  <2>6. \A y \in DOMAIN t : Row(t[y]) /\ (t[y].state = "established" => y \in promoted')
    BY <1>1, <2>2, <2>4, <2>5 DEF OpenInv, Shaped
  <2>7. promoted \subseteq promoted' /\ \A m \in net' : m.kind = "ack" => m \in net
    BY <1>1
  <2> QED
    BY <2>1, <2>6, <2>7, RowsStep, Zenon
<1> QED
  BY <1>2, <1>3 DEF MoveConnection

LEMMA MoveOpens ==
    ASSUME OpenInv, NEW n \in Node, MoveStep(n)
    PROVE  OpenInv'
<1>1. CASE Move(n)
  <2>1. connections' = connections /\ promoted' = promoted /\ net' = net
    BY <1>1 DEF Move, tableVars, historyVars
  <2> QED
    BY <2>1, QuietStep
<1>2. ASSUME NEW s \in keptAlive[n], SendKeepAlive(n, s) PROVE OpenInv'
  <2>1. /\ connections' = connections /\ promoted' = promoted
        /\ \E d : net' \in {net, net \cup {KeepAlivePacket(n, d, s)}}
    BY <1>2 DEF SendKeepAlive, tableVars, historyVars
  <2> QED
    BY <2>1, OtherPackets, QuietStep
<1>3. ASSUME NEW m \in net, NEW i \in Mover, ReceiveKeepAlive(n, m, i) PROVE OpenInv'
  <2>1. connections' = connections /\ promoted' = promoted /\ net' = net
    BY <1>3 DEF ReceiveKeepAlive, tableVars
  <2> QED
    BY <2>1, QuietStep
<1>4. ASSUME NEW i \in Mover, MoveRemove(n, i) \/ MovePush(n, i) PROVE OpenInv'
  <2>1. connections' = connections /\ promoted' = promoted /\ net' = net
    BY <1>4 DEF MoveRemove, MovePush, historyVars
  <2> QED
    BY <2>1, QuietStep
<1> QED
  BY <1>1, <1>2, <1>3, <1>4, MoveConnectionOpens DEF MoveStep

LEMMA HandshakeOpens ==
    ASSUME OpenInv, NEW n \in Node, HandshakeStep(n)
    PROVE  OpenInv'
<1>1. ASSUME NEW m \in Node, Connect(n, m) PROVE OpenInv'
  <2>1. /\ connections' = connections /\ promoted' = promoted
        /\ \E d, s, h : net' = net \cup {HelloPacket(n, d, s, h, 0)}
    BY <1>1 DEF Connect, tableVars
  <2> QED
    BY <2>1, OtherPackets, QuietStep
<1>2. ASSUME NEW m \in net, ReceiveHello(n, m) PROVE OpenInv'
  <2>1. connections' = connections /\ promoted' = promoted /\ net' \subseteq net
    BY <1>2 DEF ReceiveHello, Takes, tableVars, historyVars
  <2> QED
    BY <2>1, QuietStep
<1>3. ASSUME NEW m \in net, ReceiveAppRejection(n, m) PROVE OpenInv'
  <2>1. connections' = connections /\ promoted' = promoted /\ net' = net
    BY <1>3 DEF ReceiveAppRejection, tableVars, historyVars
  <2> QED
    BY <2>1, QuietStep
<1>4. ASSUME NEW m \in net, ReceiveIdCollision(n, m) PROVE OpenInv'
  <2>1. connections' = [connections EXCEPT ![n] = Without(@, m.session)]
    BY <1>4 DEF ReceiveIdCollision
  <2>2. promoted' = promoted /\ net' = net
    BY <1>4 DEF ReceiveIdCollision
  <2> QED
    BY <2>1, <2>2, DropRowStep
<1>5. ASSUME NEW t \in handling[n], AppReject(n, t) PROVE OpenInv'
  <2>1. /\ connections' = connections /\ promoted' = promoted
        /\ net' = net \cup {AppRejection(n, t.hello.src, t.hello.session, t.hello.hid)}
    BY <1>5 DEF AppReject, tableVars, historyVars
  <2> QED
    BY <2>1, OtherPackets, QuietStep
<1>6. ASSUME NEW t \in handling[n], AppApprove(n, t) \/ CheckId(n, t) PROVE OpenInv'
  <2>1. connections' = connections /\ promoted' = promoted /\ net' = net
    BY <1>6 DEF AppApprove, CheckId, tableVars, historyVars
  <2> QED
    BY <2>1, QuietStep
<1>7. ASSUME NEW t \in handling[n], InsertKey(n, t) PROVE OpenInv'
  <2>1. /\ connections' = connections /\ promoted' = promoted
        /\ net' = net \cup
               {HelloPacket(n, t.hello.src, t.hello.session, t.hello.hid, NewKey)}
    BY <1>7 DEF InsertKey, historyVars
  <2> QED
    BY <2>1, OtherPackets, QuietStep
<1>8. ASSUME NEW t \in handling[n], HelloCollides(n, t) PROVE OpenInv'
  <2> DEFINE m == t.hello
  <2>1. connections' = connections /\ promoted' = promoted
    BY <1>8 DEF HelloCollides, tableVars, historyVars
  <2>2. \/ net' = net \cup {IdCollision(n, m.src, m.session, m.hid)}
        \/ net' = net \cup {IdCollision(n, m.src, m.session, m.hid),
                            HelloPacket(n, m.src, NewSessionId, NewHandshakeId, 0)}
    BY <1>8 DEF HelloCollides
  <2> QED
    BY <2>1, <2>2, OtherPackets, QuietStep
<1> QED
  BY <1>1, <1>2, <1>3, <1>4, <1>5, <1>6, <1>7, <1>8, CreateOpens, AnsweredOpens, AckOpens
     DEF HandshakeStep

LEMMA OpenHolds == Spec => []OpenInv
<1>1. Init => OpenInv
  BY DEF Init, OpenInv, Shaped, AcksArePromoted, Nothing
<1>2. OpenInv /\ [Next]_vars => OpenInv'
  <2> SUFFICES ASSUME OpenInv, [Next]_vars PROVE OpenInv'
    OBVIOUS
  <2>1. CASE UNCHANGED vars
    <3>1. connections' = connections /\ promoted' = promoted /\ net' = net
      BY <2>1 DEF vars, tableVars, historyVars
    <3> QED
      BY <3>1, QuietStep
  <2>2. CASE Next
    BY <2>2, HandshakeOpens, CloseOpens, MoveOpens DEF Next
  <2> QED
    BY <2>1, <2>2
<1> QED
  BY <1>1, <1>2, PTL DEF Spec

\* A session is Established at a node only after an initiator promoted a
\* handshake to it, whatever is delayed, copied, rejected, moved or closed:
\* EstablishedWasPromoted.
THEOREM NoneHalfOpen == Spec => []EstablishedWasPromoted
<1>1. OpenInv => EstablishedWasPromoted
  BY DEF OpenInv, EstablishedWasPromoted, Established, Has
<1> QED
  BY OpenHolds, <1>1, PTL

-----------------------------------------------------------------------------
(* A connect that waits.                                                   *)

\* Entries of handshakes, as far as the proof needs their shape.
Started(h) == "first" \in DOMAIN h

WaitInv ==
    /\ DOMAIN handshakes = Node
    /\ \A n \in Node : \A h \in handshakes[n] : Started(h)
    /\ WaitingIsKnown

Known(f) == \E n \in Node : \E h \in handshakes[n] : h.first = f

\* A step that leaves handshakes and the replies alone.
LEMMA IdleStep ==
    ASSUME WaitInv, UNCHANGED <<handshakes, reply>>
    PROVE  WaitInv'
BY DEF WaitInv, WaitingIsKnown

\* A step that replaces the handshakes of one node: those it takes away without
\* another for the same connect have been answered.
LEMMA ReplaceStep ==
    ASSUME WaitInv, NEW n \in Node, NEW new, handshakes' = [handshakes EXCEPT ![n] = new],
           DOMAIN reply' = DOMAIN reply, \A h \in new : Started(h),
           \A f \in DOMAIN reply : reply'[f] = "waiting" => reply[f] = "waiting",
           \A h \in handshakes[n] :
               reply'[h.first] = "waiting" /\ h.first \in DOMAIN reply
                   => \E g \in new : g.first = h.first
    PROVE  WaitInv'
<1>1. DOMAIN handshakes' = Node /\ handshakes'[n] = new
  BY DEF WaitInv
<1>2. \A k \in Node : k # n => handshakes'[k] = handshakes[k]
  BY DEF WaitInv
<1>3. ASSUME NEW f \in DOMAIN reply', reply'[f] = "waiting" PROVE Known(f)'
  <2>1. PICK k \in Node : \E h \in handshakes[k] : h.first = f
    BY <1>3 DEF WaitInv, WaitingIsKnown
  <2>2. CASE k = n
    BY <1>1, <1>3, <2>1, <2>2 DEF Known
  <2>3. CASE k # n
    BY <1>1, <1>2, <2>1, <2>3 DEF Known
  <2> QED
    BY <2>2, <2>3
<1>4. \A k \in Node : \A h \in handshakes'[k] : Started(h)
  BY <1>1, <1>2 DEF WaitInv
<1> QED
  BY <1>1, <1>3, <1>4 DEF WaitInv, WaitingIsKnown, Known

\* The application gets an answer: its handshake goes.
LEMMA AnswerStep ==
    ASSUME WaitInv, NEW n \in Node, NEW h \in handshakes[n], NEW answer, answer # "waiting",
           handshakes' = [handshakes EXCEPT ![n] = @ \ {h}],
           reply' = [reply EXCEPT ![h.first] = answer]
    PROVE  WaitInv'
<1> DEFINE new == handshakes[n] \ {h}
<1>1. handshakes' = [handshakes EXCEPT ![n] = new]
  BY DEF WaitInv
<1>2. /\ DOMAIN reply' = DOMAIN reply
      /\ \A f \in DOMAIN reply : f # h.first => reply'[f] = reply[f]
      /\ h.first \in DOMAIN reply => reply'[h.first] = answer
  OBVIOUS
<1>3. /\ \A g \in handshakes[n] : g.first # h.first => g \in new
      /\ \A g \in new : Started(g)
  BY DEF WaitInv
<1> HIDE DEF new
<1>4. \A f \in DOMAIN reply : reply'[f] = "waiting" => reply[f] = "waiting"
  BY <1>2
<1>5. \A g \in handshakes[n] : reply'[g.first] = "waiting" /\ g.first \in DOMAIN reply
                                   => \E k \in new : k.first = g.first
  BY <1>2, <1>3
<1> QED
  BY <1>1, <1>2, <1>3, <1>4, <1>5, ReplaceStep, Zenon

\* connect stores the handshake whose answer the application waits for.
LEMMA ConnectWaits ==
    ASSUME WaitInv, NEW n \in Node, NEW m \in Node, Connect(n, m)
    PROVE  WaitInv'
<1>1. PICK g : /\ g.first = NewHandshakeId /\ Started(g)
               /\ handshakes' = [handshakes EXCEPT ![n] = @ \cup {g}]
  <2>1. PICK s \in SessionId :
            handshakes' = [handshakes EXCEPT ![n] = @ \cup
                {[id |-> NewHandshakeId, session |-> s, first |-> NewHandshakeId]}]
    BY DEF Connect
  <2> DEFINE g == [id |-> NewHandshakeId, session |-> s, first |-> NewHandshakeId]
  <2>2. g.first = NewHandshakeId /\ Started(g)
    BY DEF Started
  <2>3. handshakes' = [handshakes EXCEPT ![n] = @ \cup {g}]
    BY <2>1
  <2> HIDE DEF g
  <2> QED
    BY <2>2, <2>3
<1>2. reply' = With(reply, NewHandshakeId, "waiting")
  BY DEF Connect
<1>3. /\ DOMAIN handshakes' = Node /\ g \in handshakes'[n]
      /\ \A k \in Node : handshakes[k] \subseteq handshakes'[k]
      /\ \A k \in Node : \A h \in handshakes'[k] : Started(h)
  BY <1>1 DEF WaitInv
<1>4. ASSUME NEW f \in DOMAIN reply', reply'[f] = "waiting" PROVE Known(f)'
  <2>1. CASE f = NewHandshakeId
    BY <1>1, <1>3, <2>1 DEF Known
  <2>2. CASE f # NewHandshakeId
    <3>1. f \in DOMAIN reply /\ reply[f] = "waiting"
      BY <1>2, <1>4, <2>2 DEF With
    <3> QED
      BY <1>3, <3>1 DEF WaitInv, WaitingIsKnown, Known
  <2> QED
    BY <2>1, <2>2
<1> QED
  BY <1>3, <1>4 DEF WaitInv, WaitingIsKnown, Known

\* A Hello from the peer: the connect is answered, was answered before, loses
\* its response or goes on under another handshake.
LEMMA HelloWaits ==
    ASSUME WaitInv, NEW n \in Node, NEW t, HelloAnswered(n, t) \/ HelloCollides(n, t)
    PROVE  WaitInv'
<1> DEFINE m == t.hello
<1>1. CASE UNCHANGED <<handshakes, reply>>
  BY <1>1, IdleStep
<1>2. CASE \E answer \in {"connected", "dropped"}, h \in handshakes[n] :
               /\ handshakes' = [handshakes EXCEPT ![n] = @ \ {h}]
               /\ reply' = [reply EXCEPT ![h.first] = answer]
  <2>1. PICK answer \in {"connected", "dropped"}, h \in handshakes[n] :
               /\ handshakes' = [handshakes EXCEPT ![n] = @ \ {h}]
               /\ reply' = [reply EXCEPT ![h.first] = answer]
    BY <1>2
  <2>2. answer # "waiting"
    OBVIOUS
  <2> QED
    BY <2>1, <2>2, AnswerStep, Zenon
<1>3. CASE reply' = reply /\ \E h \in handshakes[n] :
           handshakes' = [handshakes EXCEPT ![n] = (@ \ {h}) \cup {Reused(h, m.session)}]
  <2> HIDE DEF m
  <2>1. PICK h \in handshakes[n] :
            handshakes' = [handshakes EXCEPT ![n] = (@ \ {h}) \cup {Reused(h, m.session)}]
    BY <1>3
  <2> DEFINE new == (handshakes[n] \ {h}) \cup {Reused(h, m.session)}
  <2>2. handshakes' = [handshakes EXCEPT ![n] = new]
    BY <2>1 DEF WaitInv
  <2>3. Reused(h, m.session).first = h.first /\ Started(Reused(h, m.session))
    <3>1. "first" \in DOMAIN h
      BY DEF WaitInv, Started
    <3> QED
      BY <3>1 DEF Reused, Started
  <2>4. \A g \in new : Started(g)
    BY <2>3 DEF WaitInv
  <2>5. \A g \in handshakes[n] : \E k \in new : k.first = g.first
    BY <2>3
  <2> HIDE DEF new
  <2>6. /\ DOMAIN reply' = DOMAIN reply
        /\ \A f \in DOMAIN reply : reply'[f] = "waiting" => reply[f] = "waiting"
    BY <1>3
  <2> QED
    BY <2>2, <2>4, <2>5, <2>6, ReplaceStep, Zenon
<1>4. ASSUME HelloAnswered(n, t)
      PROVE  \/ UNCHANGED <<handshakes, reply>>
             \/ \E answer \in {"connected", "dropped"}, h \in handshakes[n] :
                    /\ handshakes' = [handshakes EXCEPT ![n] = @ \ {h}]
                    /\ reply' = [reply EXCEPT ![h.first] = answer]
  BY <1>4 DEF HelloAnswered, Promote, appVars
<1>5. ASSUME HelloCollides(n, t)
      PROVE  \/ UNCHANGED <<handshakes, reply>>
             \/ reply' = reply /\ \E h \in handshakes[n] :
                handshakes' = [handshakes EXCEPT ![n] = (@ \ {h}) \cup {Reused(h, m.session)}]
  BY <1>5 DEF HelloCollides, appVars
<1> QED
  BY <1>1, <1>2, <1>3, <1>4, <1>5

\* Nobody else touches handshakes or the replies, but for a rejection.
LEMMA HandshakeWaits ==
    ASSUME WaitInv, NEW n \in Node, HandshakeStep(n)
    PROVE  WaitInv'
<1>1. ASSUME NEW m \in net,
             ReceiveHello(n, m) \/ ReceiveHandshakeAck(n, m) \/ ReceiveIdCollision(n, m)
      PROVE  WaitInv'
  <2>1. UNCHANGED <<handshakes, reply>>
    BY <1>1 DEF ReceiveHello, ReceiveHandshakeAck, ReceiveIdCollision, appVars
  <2> QED
    BY <2>1, IdleStep
<1>2. ASSUME NEW t \in handling[n],
             \/ AppReject(n, t) \/ AppApprove(n, t) \/ CreateSession(n, t)
             \/ InsertKey(n, t) \/ CheckId(n, t)
      PROVE  WaitInv'
  <2>1. UNCHANGED <<handshakes, reply>>
    BY <1>2 DEF AppReject, AppApprove, CreateSession, InsertKey, CheckId, appVars
  <2> QED
    BY <2>1, IdleStep
<1>3. ASSUME NEW m \in net, ReceiveAppRejection(n, m) PROVE WaitInv'
  <2>1. PICK h \in handshakes[n] :
            /\ handshakes' = [handshakes EXCEPT ![n] = @ \ {h}]
            /\ reply' = [reply EXCEPT ![h.first] = "rejected"]
    BY <1>3 DEF ReceiveAppRejection
  <2>2. "rejected" # "waiting"
    OBVIOUS
  <2> QED
    BY <2>1, <2>2, AnswerStep, Zenon
<1> QED
  BY <1>1, <1>2, <1>3, ConnectWaits, HelloWaits DEF HandshakeStep

\* Whatever is answered, rejected, collides or comes twice, an application that
\* waits for connect has its response in an entry that a packet may still find:
\* WaitingIsKnown.
THEOREM ConnectIsKnown == Spec => []WaitingIsKnown
<1>1. Init => WaitInv
  BY DEF Init, WaitInv, WaitingIsKnown, Nothing
<1>2. WaitInv /\ [Next]_vars => WaitInv'
  <2> SUFFICES ASSUME WaitInv, [Next]_vars PROVE WaitInv'
    OBVIOUS
  <2>1. CASE UNCHANGED vars
    BY <2>1, IdleStep DEF vars, appVars
  <2>2. ASSUME NEW n \in Node, CloseStep(n) \/ MoveStep(n) PROVE WaitInv'
    <3>1. UNCHANGED <<handshakes, reply>>
      BY <2>2 DEF CloseStep, MoveStep, ReceiveClose, AppClose, SendClose, CloseConnection,
         CloseAddress, Move, SendKeepAlive, ReceiveKeepAlive, MoveRemove, MovePush,
         MoveConnection, appVars
    <3> QED
      BY <3>1, IdleStep
  <2>3. CASE Next
    BY <2>2, <2>3, HandshakeWaits DEF Next
  <2> QED
    BY <2>1, <2>3
<1>3. WaitInv => WaitingIsKnown
  BY DEF WaitInv
<1> QED
  BY <1>1, <1>2, <1>3, PTL DEF Spec

===============================================================================
