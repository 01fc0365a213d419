------------------------- MODULE SessionsTablesProofs -------------------------
(***************************************************************************)
(* Theorems about Sessions, continued: the types and bounds, the keys of   *)
(* the two ends, and the three tables of a node, for every number of nodes *)
(* and every bound.                                                        *)
(***************************************************************************)
EXTENDS SessionsProofs, FiniteSetTheorems

-----------------------------------------------------------------------------
(* Types.                                                                  *)

Drawn == 1 .. drawn.sessions

Kind == {"hello", "ack", "rejected", "collision", "close", "alive"}

Message == [src : Address, dst : Address, kind : Kind, session : Drawn,
            hid : 0 .. drawn.handshakes, key : 0 .. drawn.keys]

\* Every handshake is a connect's first or goes on with an id drawn for it, and
\* a connect needs an id of its own or an accident.
Counters ==
    /\ accidents \in Nat
    /\ at \in [Node -> Nat]
    /\ \A n \in Node : at[n] + accidents <= MaxAccidents
    /\ drawn \in [handshakes : Nat, sessions : 0 .. MaxSession, keys : 0 .. MaxKey]
    /\ DOMAIN reply \subseteq 1 .. drawn.handshakes
    /\ drawn.handshakes <= Cardinality(DOMAIN reply) + drawn.sessions
    /\ Cardinality(DOMAIN reply) + accidents <= MaxConnect + MaxAccidents

NetTyped == net \subseteq Message

Step == {"asked", "create", "key", "found", "free", "collided"}

Handling == [hello : Message, copy : Nat, step : Step]

HandlingTyped ==
    DOMAIN handling = Node /\ \A n \in Node : handling[n] \subseteq Handling

Handshake == [id : 1 .. drawn.handshakes, session : Drawn, first : 1 .. drawn.handshakes]

HandshakesTyped ==
    DOMAIN handshakes = Node /\ \A n \in Node : handshakes[n] \subseteq Handshake

ConnectionsTyped ==
    /\ DOMAIN connections = Node
    /\ \A n \in Node : DOMAIN connections[n] \subseteq Drawn
    /\ \A n \in Node : \A s \in DOMAIN connections[n] : connections[n][s] \in Sessions

AddressesTyped ==
    /\ DOMAIN addressSession = Node
    /\ \A n \in Node : addressSession[n] \subseteq Address \X Drawn

KeysTyped ==
    /\ DOMAIN encryption = Node
    /\ \A n \in Node : DOMAIN encryption[n] \subseteq Drawn
    /\ \A n \in Node : \A s \in DOMAIN encryption[n] : encryption[n][s] \in 0 .. drawn.keys

HandlesTyped ==
    /\ DOMAIN held = Node /\ DOMAIN keptAlive = Node
    /\ \A n \in Node : held[n] \subseteq Drawn /\ keptAlive[n] \subseteq Drawn

Closers == [session : Drawn, address : Address, step : {"send", "row", "address"}]

ClosersTyped == DOMAIN closers = Node /\ \A n \in Node : closers[n] \subseteq Closers

Movers ==
    {NoTask} \cup
    [session : Drawn, from : Address, to : Address, step : {"remove", "push", "row"}]

MoversTyped ==
    DOMAIN movers = Node /\ \A n \in Node : movers[n] \in [Mover -> Movers]

HistoryTyped == promoted \subseteq Drawn /\ reused \subseteq Drawn

Types ==
    /\ Counters
    /\ NetTyped /\ HandlingTyped
    /\ HandshakesTyped
    /\ ConnectionsTyped /\ AddressesTyped /\ KeysTyped
    /\ HandlesTyped /\ ClosersTyped /\ MoversTyped
    /\ HistoryTyped

\* Ids and keys are drawn, never given back.
Grows ==
    /\ drawn.handshakes <= drawn'.handshakes
    /\ drawn.sessions <= drawn'.sessions
    /\ drawn.keys <= drawn'.keys

\* What was typed stays typed.
LEMMA StillTyped ==
    ASSUME Counters, Counters', Grows
    PROVE  /\ Drawn \subseteq Drawn'
           /\ Message \subseteq Message'
           /\ Handling \subseteq Handling'
           /\ Handshake \subseteq Handshake'
           /\ Closers \subseteq Closers'
           /\ Movers \subseteq Movers'
           /\ 0 .. drawn.keys \subseteq 0 .. drawn'.keys
<1>1. /\ Drawn \subseteq Drawn'
      /\ 0 .. drawn.keys \subseteq 0 .. drawn'.keys
      /\ 0 .. drawn.handshakes \subseteq 0 .. drawn'.handshakes
      /\ 1 .. drawn.handshakes \subseteq 1 .. drawn'.handshakes
  BY SessionsAssumption DEF Counters, Grows, Drawn
<1>2. Message \subseteq Message' /\ Handling \subseteq Handling'
  <2>1. Message \subseteq Message'
    BY <1>1 DEF Message
  <2> QED
    BY <2>1 DEF Handling
<1>3. Handshake \subseteq Handshake'
  BY <1>1 DEF Handshake
<1>4. Closers \subseteq Closers' /\ Movers \subseteq Movers'
  BY <1>1 DEF Closers, Movers
<1> QED
  BY <1>1, <1>2, <1>3, <1>4

\* What a step leaves alone, or takes away, stays typed.
LEMMA FrameTyped ==
    ASSUME Types, Counters', Grows
    PROVE  /\ net' \subseteq net => NetTyped'
           /\ handling' = handling => HandlingTyped'
           /\ handshakes' = handshakes => HandshakesTyped'
           /\ connections' = connections => ConnectionsTyped'
           /\ addressSession' = addressSession => AddressesTyped'
           /\ encryption' = encryption => KeysTyped'
           /\ held' = held /\ keptAlive' = keptAlive => HandlesTyped'
           /\ closers' = closers => ClosersTyped'
           /\ movers' = movers => MoversTyped'
           /\ promoted' = promoted /\ reused' = reused => HistoryTyped'
<1>1. /\ Drawn \subseteq Drawn' /\ Message \subseteq Message'
      /\ Handling \subseteq Handling'
      /\ Handshake \subseteq Handshake' /\ Closers \subseteq Closers'
      /\ Movers \subseteq Movers' /\ 0 .. drawn.keys \subseteq 0 .. drawn'.keys
  BY StillTyped DEF Types
<1>2. /\ net' \subseteq net => NetTyped'
      /\ handling' = handling => HandlingTyped'
  BY <1>1 DEF Types, NetTyped, HandlingTyped
<1>3. /\ handshakes' = handshakes => HandshakesTyped'
      /\ connections' = connections => ConnectionsTyped'
  BY <1>1 DEF Types, HandshakesTyped, ConnectionsTyped
<1>4. addressSession' = addressSession => AddressesTyped'
  BY <1>1 DEF Types, AddressesTyped
<1>5. encryption' = encryption => KeysTyped'
  BY <1>1 DEF Types, KeysTyped
<1>6. /\ held' = held /\ keptAlive' = keptAlive => HandlesTyped'
      /\ closers' = closers => ClosersTyped'
      /\ promoted' = promoted /\ reused' = reused => HistoryTyped'
  BY <1>1 DEF Types, HandlesTyped, ClosersTyped, HistoryTyped
<1>7. movers' = movers => MoversTyped'
  <2> SUFFICES ASSUME movers' = movers, NEW n \in Node PROVE movers[n] \in [Mover -> Movers']
    BY DEF Types, MoversTyped
  <2>1. movers[n] \in [Mover -> Movers]
    BY DEF Types, MoversTyped
  <2> QED
    BY <1>1, <2>1
<1> QED
  BY <1>2, <1>3, <1>4, <1>5, <1>6, <1>7

\* Packets are made of typed parts.
LEMMA PacketTyped ==
    ASSUME Counters, NEW n \in Node
    PROVE  /\ AddressOf(n) \in Address
           /\ \A dst \in Address, kind \in Kind, s \in Drawn', h \in 0 .. drawn'.handshakes,
                 key \in 0 .. drawn'.keys : Packet(n, dst, kind, s, h, key) \in Message'
<1>1. AddressOf(n) \in Address
  BY SessionsAssumption DEF Counters, AddressOf, Address
<1> QED
  BY <1>1 DEF Packet, Message

\* The connects made so far can be counted.
LEMMA RepliesCounted ==
    ASSUME Counters
    PROVE  IsFiniteSet(DOMAIN reply) /\ Cardinality(DOMAIN reply) \in Nat
<1>1. 1 \in Int /\ drawn.handshakes \in Int
  BY DEF Counters
<1>2. IsFiniteSet(1 .. drawn.handshakes)
  BY <1>1, FS_Interval
<1> QED
  BY <1>2, FS_Subset, FS_CardinalityType DEF Counters

\* Counters that do not change, but for an accident used up.
LEMMA CountersKept ==
    ASSUME Counters, UNCHANGED <<at, drawn>>, DOMAIN reply' = DOMAIN reply,
           \/ accidents' = accidents
           \/ accidents > 0 /\ accidents' = accidents - 1
    PROVE  Counters' /\ Grows
<1> DEFINE c == Cardinality(DOMAIN reply)
<1>1. c \in Nat
  BY RepliesCounted
<1>2. Cardinality(DOMAIN reply') = c
  OBVIOUS
<1> HIDE DEF c
<1>3. accidents' \in Nat /\ accidents' <= accidents
  BY DEF Counters
<1>4. \A n \in Node : at[n] + accidents' <= MaxAccidents
  BY <1>3, SessionsAssumption DEF Counters
<1>5. c + accidents' <= MaxConnect + MaxAccidents
  BY <1>1, <1>3, SessionsAssumption DEF Counters, c
<1>6. Grows
  BY SessionsAssumption DEF Counters, Grows
<1> QED
  BY <1>2, <1>3, <1>4, <1>5, <1>6 DEF Counters, c

\* A row that is added or replaced.
LEMMA WithFacts ==
    ASSUME NEW f, NEW x, NEW v
    PROVE  /\ DOMAIN With(f, x, v) = DOMAIN f \cup {x}
           /\ With(f, x, v)[x] = v
           /\ \A y \in DOMAIN f : y # x => With(f, x, v)[y] = f[y]
BY DEF With

LEMMA RowAdded ==
    ASSUME ConnectionsTyped, Drawn \subseteq Drawn', NEW n \in Node, NEW s \in Drawn',
           NEW r \in Sessions, connections' = [connections EXCEPT ![n] = With(@, s, r)]
    PROVE  ConnectionsTyped'
<1> DEFINE t == With(connections[n], s, r)
<1>1. connections' = [connections EXCEPT ![n] = t]
  BY DEF ConnectionsTyped
<1>2. /\ DOMAIN t = DOMAIN connections[n] \cup {s} /\ t[s] = r
      /\ \A y \in DOMAIN connections[n] : y # s => t[y] = connections[n][y]
  <2>1. DOMAIN t = DOMAIN connections[n] \cup {s}
    BY DEF With
  <2>2. t[s] = r
    BY DEF With
  <2>3. \A y \in DOMAIN connections[n] : y # s => t[y] = connections[n][y]
    BY DEF With
  <2> QED
    BY <2>1, <2>2, <2>3
<1> HIDE DEF t
<1>3. DOMAIN t \subseteq Drawn' /\ \A y \in DOMAIN t : t[y] \in Sessions
  BY <1>2 DEF ConnectionsTyped
<1> QED
  BY <1>1, <1>3 DEF ConnectionsTyped

LEMMA KeyAdded ==
    ASSUME KeysTyped, Drawn \subseteq Drawn', 0 .. drawn.keys \subseteq 0 .. drawn'.keys,
           NEW n \in Node, NEW s \in Drawn', NEW k \in 0 .. drawn'.keys,
           encryption' = [encryption EXCEPT ![n] = With(@, s, k)]
    PROVE  KeysTyped'
<1> DEFINE t == With(encryption[n], s, k)
<1>1. encryption' = [encryption EXCEPT ![n] = t]
  BY DEF KeysTyped
<1>2. /\ DOMAIN t = DOMAIN encryption[n] \cup {s} /\ t[s] = k
      /\ \A y \in DOMAIN encryption[n] : y # s => t[y] = encryption[n][y]
  <2>1. DOMAIN t = DOMAIN encryption[n] \cup {s}
    BY DEF With
  <2>2. t[s] = k
    BY DEF With
  <2>3. \A y \in DOMAIN encryption[n] : y # s => t[y] = encryption[n][y]
    BY DEF With
  <2> QED
    BY <2>1, <2>2, <2>3
<1> HIDE DEF t
<1>3. DOMAIN t \subseteq Drawn' /\ \A y \in DOMAIN t : t[y] \in 0 .. drawn'.keys
  BY <1>2 DEF KeysTyped
<1> QED
  BY <1>1, <1>3 DEF KeysTyped

\* A row that goes.
LEMMA RowDropped ==
    ASSUME ConnectionsTyped, Drawn \subseteq Drawn', NEW n \in Node, NEW s,
           connections' = [connections EXCEPT ![n] = Without(@, s)]
    PROVE  ConnectionsTyped'
<1> DEFINE t == Without(connections[n], s)
<1>1. connections' = [connections EXCEPT ![n] = t]
  BY DEF ConnectionsTyped
<1>2. /\ DOMAIN t = DOMAIN connections[n] \ {s}
      /\ \A y \in DOMAIN connections[n] : y # s => t[y] = connections[n][y]
  BY WithoutFacts, Zenon
<1> HIDE DEF t
<1>3. DOMAIN t \subseteq Drawn' /\ \A y \in DOMAIN t : t[y] \in Sessions
  BY <1>2 DEF ConnectionsTyped
<1> QED
  BY <1>1, <1>3 DEF ConnectionsTyped

LEMMA KeyDropped ==
    ASSUME KeysTyped, Drawn \subseteq Drawn', 0 .. drawn.keys \subseteq 0 .. drawn'.keys,
           NEW n \in Node, NEW s, encryption' = [encryption EXCEPT ![n] = Without(@, s)]
    PROVE  KeysTyped'
<1> DEFINE t == Without(encryption[n], s)
<1>1. encryption' = [encryption EXCEPT ![n] = t]
  BY DEF KeysTyped
<1>2. /\ DOMAIN t = DOMAIN encryption[n] \ {s}
      /\ \A y \in DOMAIN encryption[n] : y # s => t[y] = encryption[n][y]
  BY WithoutFacts, Zenon
<1> HIDE DEF t
<1>3. DOMAIN t \subseteq Drawn' /\ \A y \in DOMAIN t : t[y] \in 0 .. drawn'.keys
  BY <1>2 DEF KeysTyped
<1> QED
  BY <1>1, <1>3 DEF KeysTyped

\* A row of connections that changes.
LEMMA RowChanged ==
    ASSUME ConnectionsTyped, Drawn \subseteq Drawn', NEW n \in Node,
           NEW s \in DOMAIN connections[n], NEW r \in Sessions,
           connections' = [connections EXCEPT ![n][s] = r]
    PROVE  ConnectionsTyped'
<1> DEFINE t == [connections[n] EXCEPT ![s] = r]
<1>1. connections' = [connections EXCEPT ![n] = t]
  BY DEF ConnectionsTyped
<1>2. /\ DOMAIN t = DOMAIN connections[n] /\ t[s] = r
      /\ \A y \in DOMAIN connections[n] : y # s => t[y] = connections[n][y]
  OBVIOUS
<1> HIDE DEF t
<1>3. DOMAIN t \subseteq Drawn' /\ \A y \in DOMAIN t : t[y] \in Sessions
  BY <1>2 DEF ConnectionsTyped
<1> QED
  BY <1>1, <1>3 DEF ConnectionsTyped

\* connect
LEMMA ConnectTyped ==
    ASSUME Types, NEW n \in Node, NEW m \in Node, Connect(n, m)
    PROVE  Types'
<1>1. PICK s \in SessionId :
          /\ \/ /\ s = NewSessionId
                /\ Cardinality(DOMAIN reply) < MaxConnect
                /\ drawn' = [drawn EXCEPT !.handshakes = @ + 1, !.sessions = s]
                /\ UNCHANGED <<accidents, reused>>
             \/ /\ accidents > 0
                /\ s < NewSessionId
                /\ drawn' = [drawn EXCEPT !.handshakes = @ + 1]
                /\ accidents' = accidents - 1
                /\ reused' = reused \cup {s}
          /\ handshakes' = [handshakes EXCEPT ![n] = @ \cup
                 {[id |-> NewHandshakeId, session |-> s, first |-> NewHandshakeId]}]
          /\ net' = net \cup {HelloPacket(n, AddressOf(m), s, NewHandshakeId, 0)}
  BY DEF Connect
<1>2. /\ reply' = With(reply, NewHandshakeId, "waiting")
      /\ UNCHANGED <<at, tableVars, held, taskVars, promoted>>
  BY DEF Connect
<1>3. /\ drawn.handshakes \in Nat /\ drawn.sessions \in 0 .. MaxSession
      /\ drawn.keys \in 0 .. MaxKey
      /\ drawn'.handshakes = drawn.handshakes + 1 /\ drawn'.keys = drawn.keys
      /\ s \in 1 .. drawn'.sessions /\ s \in 1 .. MaxSession
      /\ drawn'.sessions \in 0 .. MaxSession /\ drawn.sessions <= drawn'.sessions
      /\ drawn' \in [handshakes : Nat, sessions : 0 .. MaxSession, keys : 0 .. MaxKey]
  <2> DEFINE D == [handshakes : Nat, sessions : 0 .. MaxSession, keys : 0 .. MaxKey]
  <2>1. drawn \in D
    BY DEF Types, Counters
  <2>2. s \in 1 .. MaxSession
    BY DEF SessionId
  <2>3. CASE s = drawn.sessions + 1 /\ drawn' = [drawn EXCEPT !.handshakes = @ + 1, !.sessions = s]
    <3>1. /\ drawn'.handshakes = drawn.handshakes + 1 /\ drawn'.keys = drawn.keys
          /\ drawn'.sessions = s
      BY <2>1, <2>3
    <3>2. drawn' \in D
      <4>1. drawn.handshakes + 1 \in Nat /\ s \in 0 .. MaxSession
        BY <2>1, <2>2, SessionsAssumption
      <4> DEFINE S == 0 .. MaxSession
                 K == 0 .. MaxKey
                 e == drawn.handshakes + 1
      <4>2. drawn \in [handshakes : Nat, sessions : S, keys : K] /\ e \in Nat /\ s \in S
        BY <2>1, <4>1
      <4>3. drawn' = [drawn EXCEPT !.handshakes = e, !.sessions = s]
        BY <2>3
      <4> HIDE DEF S, K, e
      <4>4. drawn' \in [handshakes : Nat, sessions : S, keys : K]
        BY <4>2, <4>3
      <4> QED
        BY <4>4 DEF S, K
    <3> QED
      BY <2>1, <2>2, <2>3, <3>1, <3>2, SessionsAssumption
  <2>4. CASE s < drawn.sessions + 1 /\ drawn' = [drawn EXCEPT !.handshakes = @ + 1]
    BY <2>1, <2>2, <2>4, SessionsAssumption
  <2>5. \/ s = drawn.sessions + 1 /\ drawn' = [drawn EXCEPT !.handshakes = @ + 1, !.sessions = s]
        \/ s < drawn.sessions + 1 /\ drawn' = [drawn EXCEPT !.handshakes = @ + 1]
    BY <1>1 DEF NewSessionId
  <2> QED
    BY <2>3, <2>4, <2>5
<1>4. Counters'
  <2> DEFINE R == DOMAIN reply
             c == Cardinality(R)
  <2>1. IsFiniteSet(R) /\ c \in Nat
    BY RepliesCounted DEF Types
  <2>2. DOMAIN reply' = R \cup {drawn.handshakes + 1}
    BY <1>2, WithFacts DEF NewHandshakeId
  <2>3. drawn.handshakes + 1 \notin R /\ R \subseteq 1 .. drawn.handshakes
    BY <1>3 DEF Types, Counters
  <2>4. Cardinality(DOMAIN reply') = c + 1
    BY <2>1, <2>2, <2>3, FS_AddElement
  <2>5. DOMAIN reply' \subseteq 1 .. drawn'.handshakes
    BY <1>3, <2>2, <2>3
  <2>6. /\ accidents' \in Nat /\ accidents' <= accidents
        /\ c + 1 + accidents' <= MaxConnect + MaxAccidents
    <3>1. /\ accidents \in Nat /\ c + accidents <= MaxConnect + MaxAccidents
          /\ \A k \in Node : at[k] + accidents <= MaxAccidents /\ at[k] \in Nat
      BY DEF Types, Counters
    <3>2. accidents <= MaxAccidents
      BY <3>1, SessionsAssumption
    <3> HIDE DEF c
    <3>3. (accidents' = accidents /\ c < MaxConnect) \/ (accidents > 0 /\ accidents' = accidents - 1)
      BY <1>1 DEF c
    <3> QED
      BY <2>1, <3>1, <3>2, <3>3, SessionsAssumption
  <2>7. drawn.handshakes <= c + drawn.sessions
    BY DEF Types, Counters
  <2>8. \A k \in Node : at[k] + accidents' <= MaxAccidents
    BY <2>6, SessionsAssumption DEF Types, Counters
  <2>9. at' \in [Node -> Nat] /\ at' = at
    BY <1>2 DEF Types, Counters
  <2> HIDE DEF c, R
  <2>10. drawn'.handshakes <= c + 1 + drawn'.sessions
    BY <1>3, <2>1, <2>7
  <2> QED
    BY <1>3, <2>4, <2>5, <2>6, <2>8, <2>9, <2>10 DEF Counters
<1>5. Grows
  BY <1>3 DEF Grows
<1>6. NetTyped' /\ HandshakesTyped'
  <2>1. Message \subseteq Message' /\ Handshake \subseteq Handshake'
    BY <1>4, <1>5, StillTyped DEF Types
  <2>2. HelloPacket(n, AddressOf(m), s, NewHandshakeId, 0) \in Message'
    <3>1. NewHandshakeId \in 0 .. drawn'.handshakes /\ 0 \in 0 .. drawn'.keys
      BY <1>3 DEF NewHandshakeId
    <3>2. s \in Drawn' /\ "hello" \in Kind
      BY <1>3 DEF Drawn, Kind
    <3> QED
      BY <3>1, <3>2, PacketTyped DEF HelloPacket, Types
  <2>3. [id |-> NewHandshakeId, session |-> s, first |-> NewHandshakeId] \in Handshake'
    BY <1>3 DEF Handshake, NewHandshakeId, Drawn
  <2>4. NetTyped'
    BY <1>1, <2>1, <2>2 DEF Types, NetTyped
  <2>5. HandshakesTyped'
    BY <1>1, <2>1, <2>3 DEF Types, HandshakesTyped
  <2> QED
    BY <2>4, <2>5
<1>7. HistoryTyped'
  <2>1. s \in Drawn' /\ Drawn \subseteq Drawn'
    BY <1>3, <1>4, <1>5, StillTyped DEF Drawn, Types
  <2> QED
    BY <1>1, <1>2, <2>1 DEF Types, HistoryTyped
<1> QED
  BY <1>2, <1>4, <1>5, <1>6, <1>7, FrameTyped DEF Types, tableVars, taskVars

LEMMA TakesFacts ==
    ASSUME NEW m, Takes(m, {})
    PROVE  /\ net' \subseteq net
           /\ accidents' = accidents \/ (accidents > 0 /\ accidents' = accidents - 1)
BY DEF Takes

\* received_hello_packet
LEMMA HelloTyped ==
    ASSUME Types, NEW n \in Node, NEW m \in net, ReceiveHello(n, m)
    PROVE  Types'
<1>1. /\ UNCHANGED <<at, handshakes, tableVars, appVars, keptAlive, closers, movers,
                     drawn, historyVars>>
      /\ net' \subseteq net
      /\ accidents' = accidents \/ (accidents > 0 /\ accidents' = accidents - 1)
  BY TakesFacts DEF ReceiveHello
<1>2. Counters' /\ Grows
  BY <1>1, CountersKept DEF Types, appVars
<1>3. m \in Message /\ Message \subseteq Message'
  BY <1>2, StillTyped DEF Types, NetTyped
<1>4. HandlingTyped'
  <2>1. PICK step \in {"asked", "found"} :
            handling' = [handling EXCEPT ![n] = @ \cup {Task(m, accidents, step)}]
    BY DEF ReceiveHello
  <2>2. accidents \in Nat
    BY DEF Types, Counters
  <2>3. Task(m, accidents, step) \in Handling'
    BY <1>3, <2>2 DEF Task, Handling, Step
  <2>4. Handling \subseteq Handling'
    BY <1>2, StillTyped DEF Types
  <2> QED
    BY <2>1, <2>3, <2>4 DEF Types, HandlingTyped
<1> QED
  BY <1>1, <1>2, <1>4, FrameTyped DEF Types, tableVars, appVars, historyVars

\* A task that ends or goes on.
LEMMA TaskTyped ==
    ASSUME Types, Counters', Grows, NEW n \in Node, NEW t \in handling[n]
    PROVE  /\ Ends(n, t) => HandlingTyped'
           /\ \A step \in Step : GoesOn(n, t, step) => HandlingTyped'
           /\ t \in Handling' /\ Handling \subseteq Handling'
           /\ t.hello \in Message /\ t.hello \in Message' /\ Message \subseteq Message'
<1>1. /\ t \in Handling /\ Handling \subseteq Handling' /\ Message \subseteq Message'
  BY StillTyped DEF Types, HandlingTyped
<1>2. Ends(n, t) => HandlingTyped'
  BY <1>1 DEF Ends, Types, HandlingTyped
<1>3. ASSUME NEW step \in Step, GoesOn(n, t, step) PROVE HandlingTyped'
  <2>1. [t EXCEPT !.step = step] \in Handling
    BY <1>1 DEF Handling
  <2> QED
    BY <1>1, <1>3, <2>1 DEF GoesOn, Types, HandlingTyped
<1> QED
  BY <1>1, <1>2, <1>3 DEF Handling

\* The application rejects, or approves.
LEMMA RejectTyped ==
    ASSUME Types, NEW n \in Node, NEW t \in handling[n], AppReject(n, t)
    PROVE  Types'
<1> DEFINE m == t.hello
<1>1. /\ UNCHANGED <<at, handshakes, tableVars, appVars, keptAlive, closers, movers,
                     drawn, accidents, historyVars>>
      /\ net' = net \cup {AppRejection(n, m.src, m.session, m.hid)}
      /\ Ends(n, t)
  BY DEF AppReject
<1>2. Counters' /\ Grows
  BY <1>1, CountersKept DEF Types, appVars
<1>3. /\ m \in Message /\ Message \subseteq Message' /\ m \in Message'
      /\ HandlingTyped'
  BY <1>1, <1>2, TaskTyped
<1>4. NetTyped'
  <2> HIDE DEF m
  <2>1. /\ m.src \in Address /\ m.session \in Drawn' /\ m.hid \in 0 .. drawn'.handshakes
        /\ "rejected" \in Kind
    BY <1>3 DEF Message, Kind
  <2>2. 0 \in 0 .. drawn'.keys
    BY <1>2 DEF Counters
  <2>3. AppRejection(n, m.src, m.session, m.hid) \in Message'
    BY <2>1, <2>2, PacketTyped DEF AppRejection, Types
  <2> QED
    BY <1>1, <1>3, <2>3 DEF Types, NetTyped
<1> QED
  BY <1>1, <1>2, <1>3, <1>4, FrameTyped DEF Types, tableVars, appVars, historyVars

LEMMA ApproveTyped ==
    ASSUME Types, NEW n \in Node, NEW t \in handling[n], AppApprove(n, t)
    PROVE  Types'
<1>1. UNCHANGED <<at, handshakes, tableVars, appVars, keptAlive, closers, movers, net,
                  accidents, historyVars>>
  BY DEF AppApprove
<1>2. PICK s \in SessionId :
          /\ handling' = [handling EXCEPT ![n] =
                 (@ \ {t}) \cup {Task([t.hello EXCEPT !.session = s], t.copy, "create")}]
          /\ drawn' = [drawn EXCEPT !.sessions = IF s > @ THEN s ELSE @]
  BY DEF AppApprove
<1>3. /\ drawn.handshakes \in Nat /\ drawn.sessions \in 0 .. MaxSession
      /\ drawn.keys \in 0 .. MaxKey /\ s \in 0 .. MaxSession /\ s > 0
  BY SessionsAssumption DEF Types, Counters, SessionId
<1>4. /\ drawn'.handshakes = drawn.handshakes /\ drawn'.keys = drawn.keys
      /\ drawn'.sessions = IF s > drawn.sessions THEN s ELSE drawn.sessions
      /\ drawn' \in [handshakes : Nat, sessions : 0 .. MaxSession, keys : 0 .. MaxKey]
  <2> DEFINE S == 0 .. MaxSession
             K == 0 .. MaxKey
             most == IF s > drawn.sessions THEN s ELSE drawn.sessions
  <2>1. drawn \in [handshakes : Nat, sessions : S, keys : K] /\ most \in S
    BY <1>3 DEF Types, Counters
  <2>2. drawn' = [drawn EXCEPT !.sessions = most]
    BY <1>2
  <2> HIDE DEF S, K, most
  <2>3. drawn' \in [handshakes : Nat, sessions : S, keys : K]
    BY <2>1, <2>2
  <2>4. drawn'.handshakes = drawn.handshakes /\ drawn'.keys = drawn.keys
        /\ drawn'.sessions = most
    BY <2>1, <2>2
  <2> QED
    BY <2>3, <2>4 DEF S, K, most
<1>5. drawn.sessions <= drawn'.sessions /\ s \in Drawn'
  BY <1>3, <1>4 DEF Drawn
<1>6. Counters' /\ Grows
  <2>1. Grows
    BY <1>3, <1>4, <1>5 DEF Grows
  <2> DEFINE c == Cardinality(DOMAIN reply)
  <2>2. DOMAIN reply' = DOMAIN reply
    BY <1>1 DEF appVars
  <2>3. c \in Nat
    BY RepliesCounted DEF Types
  <2>4. drawn.handshakes <= c + drawn.sessions
    BY DEF Types, Counters
  <2> HIDE DEF c
  <2>5. drawn'.handshakes <= c + drawn'.sessions
    BY <1>3, <1>4, <1>5, <2>3, <2>4
  <2> QED
    BY <1>1, <1>4, <2>1, <2>2, <2>5 DEF Types, Counters, c
<1>7. HandlingTyped'
  <2>1. /\ t \in Handling' /\ Handling \subseteq Handling' /\ t.hello \in Message'
    BY <1>6, TaskTyped
  <2>2. [t.hello EXCEPT !.session = s] \in Message'
    BY <1>5, <2>1 DEF Message
  <2>3. Task([t.hello EXCEPT !.session = s], t.copy, "create") \in Handling'
    BY <2>1, <2>2 DEF Task, Handling, Step
  <2> QED
    BY <1>2, <2>1, <2>3 DEF Types, HandlingTyped
<1> QED
  BY <1>1, <1>6, <1>7, FrameTyped DEF Types, tableVars, appVars, historyVars

\* new_session
LEMMA CreateTyped ==
    ASSUME Types, NEW n \in Node, NEW t \in handling[n], CreateSession(n, t)
    PROVE  Types'
<1> DEFINE m == t.hello
<1>1. /\ UNCHANGED <<at, handshakes, encryption, appVars, keptAlive, closers, movers, net,
                     drawn, accidents, promoted>>
      /\ GoesOn(n, t, "key")
      /\ reused' \in {reused, reused \cup {m.session}}
  BY DEF CreateSession
<1>2. Counters' /\ Grows
  BY <1>1, CountersKept DEF Types, appVars
<1>3. m \in Message /\ HandlingTyped' /\ Drawn \subseteq Drawn'
  BY <1>1, <1>2, TaskTyped, StillTyped DEF Types, Step
<1> HIDE DEF m
<1>4. m.src \in Address /\ m.session \in Drawn /\ m.session \in Drawn'
  BY <1>3 DEF Message
<1>5. HistoryTyped'
  BY <1>1, <1>3, <1>4 DEF Types, HistoryTyped
<1>6. CASE UNCHANGED <<connections, addressSession>>
  BY <1>1, <1>2, <1>3, <1>5, <1>6, FrameTyped DEF Types, appVars
<1>7. CASE NewSession(n, m.session, m.src)
  <2> DEFINE r == [state |-> "handshake", address |-> m.src]
  <2>1. r \in Sessions
    BY <1>4 DEF Sessions
  <2>2. connections' = [connections EXCEPT ![n] = With(@, m.session, r)]
    BY <1>7 DEF NewSession
  <2> HIDE DEF r
  <2>3. ConnectionsTyped'
    BY <1>3, <1>4, <2>1, <2>2, RowAdded DEF Types
  <2>4. addressSession' = [addressSession EXCEPT ![n] = @ \cup {<<m.src, m.session>>}]
    BY <1>7 DEF NewSession
  <2>5. AddressesTyped'
    BY <1>3, <1>4, <2>4 DEF Types, AddressesTyped
  <2> QED
    BY <1>1, <1>2, <1>3, <1>5, <2>3, <2>5, FrameTyped DEF Types, appVars
<1> QED
  BY <1>6, <1>7 DEF CreateSession, m

\* The key and the answer.
LEMMA InsertKeyTyped ==
    ASSUME Types, NEW n \in Node, NEW t \in handling[n], InsertKey(n, t)
    PROVE  Types'
<1> DEFINE m == t.hello
<1>1. /\ UNCHANGED <<at, handshakes, connections, addressSession, appVars, keptAlive,
                     closers, movers, accidents, historyVars>>
      /\ Ends(n, t)
      /\ NewKey \in 1 .. MaxKey
      /\ encryption' = [encryption EXCEPT ![n] = With(@, m.session, NewKey)]
      /\ net' = net \cup {HelloPacket(n, m.src, m.session, m.hid, NewKey)}
      /\ drawn' = [drawn EXCEPT !.keys = @ + 1]
  BY DEF InsertKey
<1>2. /\ drawn.handshakes \in Nat /\ drawn.sessions \in 0 .. MaxSession
      /\ drawn.keys \in 0 .. MaxKey /\ drawn.keys + 1 \in 0 .. MaxKey
  BY <1>1, SessionsAssumption DEF Types, Counters, NewKey
<1>3. /\ drawn'.handshakes = drawn.handshakes /\ drawn'.keys = drawn.keys + 1
      /\ drawn'.sessions = drawn.sessions
      /\ drawn' \in [handshakes : Nat, sessions : 0 .. MaxSession, keys : 0 .. MaxKey]
  <2> DEFINE S == 0 .. MaxSession
             K == 0 .. MaxKey
             k == drawn.keys + 1
  <2>1. drawn \in [handshakes : Nat, sessions : S, keys : K] /\ k \in K
    BY <1>2 DEF Types, Counters
  <2>2. drawn' = [drawn EXCEPT !.keys = k]
    BY <1>1
  <2> HIDE DEF S, K, k
  <2>3. drawn' \in [handshakes : Nat, sessions : S, keys : K]
    BY <2>1, <2>2
  <2>4. drawn'.handshakes = drawn.handshakes /\ drawn'.keys = k
        /\ drawn'.sessions = drawn.sessions
    BY <2>1, <2>2
  <2> QED
    BY <2>3, <2>4 DEF S, K, k
<1>4. Counters' /\ Grows
  <2>1. Grows
    BY <1>2, <1>3 DEF Grows
  <2>2. DOMAIN reply' = DOMAIN reply
    BY <1>1 DEF appVars
  <2> QED
    BY <1>1, <1>3, <2>1, <2>2 DEF Types, Counters
<1>5. /\ m \in Message' /\ HandlingTyped' /\ Message \subseteq Message'
      /\ Drawn \subseteq Drawn' /\ 0 .. drawn.keys \subseteq 0 .. drawn'.keys
  BY <1>1, <1>4, TaskTyped, StillTyped DEF Types
<1> HIDE DEF m
<1>6. /\ m.src \in Address /\ m.session \in Drawn' /\ m.hid \in 0 .. drawn'.handshakes
      /\ NewKey \in 0 .. drawn'.keys
  BY <1>2, <1>3, <1>5 DEF Message, NewKey
<1>7. NetTyped'
  <2>1. "hello" \in Kind
    BY DEF Kind
  <2>2. HelloPacket(n, m.src, m.session, m.hid, NewKey) \in Message'
    BY <1>6, <2>1, PacketTyped DEF HelloPacket, Types
  <2> QED
    BY <1>1, <1>5, <2>2 DEF Types, NetTyped
<1>8. KeysTyped'
  BY <1>1, <1>5, <1>6, KeyAdded DEF Types
<1> QED
  BY <1>1, <1>4, <1>5, <1>7, <1>8, FrameTyped DEF Types, appVars, historyVars

\* received_hello_packet_as_initializer
LEMMA CheckIdTyped ==
    ASSUME Types, NEW n \in Node, NEW t \in handling[n], CheckId(n, t)
    PROVE  Types'
<1>1. /\ UNCHANGED <<at, handshakes, tableVars, appVars, keptAlive, closers, movers, net,
                     drawn, accidents, historyVars>>
      /\ \E step \in Step : GoesOn(n, t, step)
  BY DEF CheckId, Step
<1>2. Counters' /\ Grows
  BY <1>1, CountersKept DEF Types, appVars
<1>3. HandlingTyped'
  BY <1>1, <1>2, TaskTyped
<1> QED
  BY <1>1, <1>2, <1>3, FrameTyped DEF Types, tableVars, appVars, historyVars

\* promote_handshake
LEMMA AnsweredTyped ==
    ASSUME Types, NEW n \in Node, NEW t \in handling[n], HelloAnswered(n, t)
    PROVE  Types'
<1> DEFINE m == t.hello
<1>1. UNCHANGED <<at, closers, movers, drawn, accidents>> /\ Ends(n, t)
  BY DEF HelloAnswered
<1>2. ASSUME Counters', Grows
      PROVE  m \in Message /\ HandlingTyped'
  BY <1>1, <1>2, TaskTyped
<1>3. CASE UNCHANGED <<handshakes, tableVars, appVars, keptAlive, net, historyVars>>
  <2>1. Counters' /\ Grows
    BY <1>1, <1>3, CountersKept DEF Types, appVars
  <2> QED
    BY <1>1, <1>2, <1>3, <2>1, FrameTyped DEF Types, tableVars, appVars, historyVars
<1>4. ASSUME NEW h \in handshakes[n], Promote(n, h, m.session, m.src, m.key),
             net' = net \cup {HandshakeAckPacket(n, m.src, m.session, m.hid)}
      PROVE  Types'
  <2>1. Counters' /\ Grows
    <3>1. DOMAIN reply' = DOMAIN reply
      BY <1>4 DEF Promote
    <3> QED
      BY <1>1, <3>1, CountersKept DEF Types
  <2>2. /\ m \in Message /\ HandlingTyped'
        /\ Drawn \subseteq Drawn' /\ Message \subseteq Message' /\ Handshake \subseteq Handshake'
        /\ 0 .. drawn.keys \subseteq 0 .. drawn'.keys
    BY <1>2, <2>1, StillTyped DEF Types
  <2> HIDE DEF m
  <2>3. /\ m.src \in Address /\ m.session \in Drawn /\ m.key \in 0 .. drawn.keys
        /\ m.hid \in 0 .. drawn'.handshakes /\ h.session \in Drawn
    BY <1>1, <2>2 DEF Message, Types, HandshakesTyped, Handshake
  <2>4. NetTyped'
    <3>1. "ack" \in Kind /\ 0 \in 0 .. drawn'.keys
      BY <2>1 DEF Counters, Kind
    <3>2. HandshakeAckPacket(n, m.src, m.session, m.hid) \in Message'
      BY <2>2, <2>3, <3>1, PacketTyped DEF HandshakeAckPacket, Types
    <3> QED
      BY <1>4, <2>2, <3>2 DEF Types, NetTyped
  <2>5. ConnectionsTyped' /\ KeysTyped'
    <3> DEFINE r == [state |-> "established", address |-> m.src]
    <3>1. r \in Sessions
      BY <2>3 DEF Sessions
    <3>2. connections' = [connections EXCEPT ![n] = With(@, m.session, r)]
      BY <1>4 DEF Promote
    <3>3. encryption' = [encryption EXCEPT ![n] = With(@, m.session, m.key)]
      BY <1>4 DEF Promote
    <3> HIDE DEF r
    <3>4. ConnectionsTyped'
      BY <2>2, <2>3, <3>1, <3>2, RowAdded DEF Types
    <3> QED
      BY <2>2, <2>3, <3>3, <3>4, KeyAdded DEF Types
  <2>6. AddressesTyped'
    <3>1. addressSession' = [addressSession EXCEPT ![n] = @ \cup {<<m.src, h.session>>}]
      BY <1>4 DEF Promote
    <3> QED
      BY <2>2, <2>3, <3>1 DEF Types, AddressesTyped
  <2>7. HandshakesTyped'
    BY <1>4, <2>2 DEF Types, HandshakesTyped, Promote
  <2>8. HandlesTyped' /\ HistoryTyped'
    BY <1>4, <2>2, <2>3 DEF Types, HandlesTyped, HistoryTyped, Promote
  <2> QED
    BY <1>1, <2>1, <2>2, <2>4, <2>5, <2>6, <2>7, <2>8, FrameTyped DEF Types
<1>5. ASSUME NEW h \in handshakes[n],
             handshakes' = [handshakes EXCEPT ![n] = @ \ {h}],
             reply' = [reply EXCEPT ![h.first] = "dropped"],
             UNCHANGED <<tableVars, held, keptAlive, net, historyVars>>
      PROVE  Types'
  <2>1. Counters' /\ Grows
    <3>1. DOMAIN reply' = DOMAIN reply
      BY <1>5
    <3> QED
      BY <1>1, <3>1, CountersKept DEF Types
  <2>2. HandlingTyped' /\ Handshake \subseteq Handshake'
    BY <1>2, <2>1, StillTyped DEF Types
  <2>3. HandshakesTyped'
    BY <1>5, <2>2 DEF Types, HandshakesTyped
  <2> QED
    BY <1>1, <1>5, <2>1, <2>2, <2>3, FrameTyped DEF Types, tableVars, historyVars
<1> QED
  BY <1>3, <1>4, <1>5 DEF HelloAnswered

\* session_id_collided
LEMMA CollidesTyped ==
    ASSUME Types, NEW n \in Node, NEW t \in handling[n], HelloCollides(n, t)
    PROVE  Types'
<1> DEFINE m == t.hello
<1>1. /\ UNCHANGED <<at, tableVars, appVars, keptAlive, closers, movers, accidents,
                     historyVars>>
      /\ Ends(n, t)
  BY DEF HelloCollides
<1>2. /\ m \in Message /\ m.src \in Address /\ m.session \in Drawn
      /\ m.hid \in 0 .. drawn.handshakes
  <2>1. m \in Message
    BY DEF Types, HandlingTyped, Handling
  <2> QED
    BY <2>1 DEF Message
<1>3. ASSUME Counters', Grows
      PROVE  /\ HandlingTyped' /\ Message \subseteq Message' /\ Handshake \subseteq Handshake'
             /\ Drawn \subseteq Drawn' /\ IdCollision(n, m.src, m.session, m.hid) \in Message'
  <2>1. /\ Message \subseteq Message' /\ Handshake \subseteq Handshake' /\ Drawn \subseteq Drawn'
    BY <1>3, StillTyped DEF Types
  <2>4. HandlingTyped'
    BY <1>1, <1>3, TaskTyped
  <2> HIDE DEF m
  <2>2. "collision" \in Kind /\ 0 \in 0 .. drawn'.keys /\ m.hid \in 0 .. drawn'.handshakes
    <3>1. m \in Message'
      BY <1>2, <2>1
    <3> QED
      BY <1>3, <3>1 DEF Counters, Kind, Message
  <2>3. IdCollision(n, m.src, m.session, m.hid) \in Message'
    BY <1>2, <2>1, <2>2, PacketTyped DEF IdCollision, Types
  <2> QED
    BY <2>1, <2>3, <2>4
<1>4. CASE /\ net' = net \cup {IdCollision(n, m.src, m.session, m.hid)}
           /\ UNCHANGED <<handshakes, drawn>>
  <2>1. Counters' /\ Grows
    BY <1>1, <1>4, CountersKept DEF Types, appVars
  <2>2. NetTyped'
    BY <1>3, <1>4, <2>1 DEF Types, NetTyped
  <2> QED
    BY <1>1, <1>3, <1>4, <2>1, <2>2, FrameTyped DEF Types, tableVars, appVars, historyVars
<1>5. ASSUME NewSessionId \in SessionId, NEW h \in handshakes[n],
             handshakes' = [handshakes EXCEPT ![n] = (@ \ {h}) \cup {Reused(h, m.session)}],
             drawn' = [drawn EXCEPT !.handshakes = @ + 1, !.sessions = @ + 1],
             net' = net \cup {IdCollision(n, m.src, m.session, m.hid),
                              HelloPacket(n, m.src, NewSessionId, NewHandshakeId, 0)}
      PROVE  Types'
  <2> HIDE DEF m
  <2>1. /\ drawn.handshakes \in Nat /\ drawn.sessions \in Nat
        /\ drawn.keys \in 0 .. MaxKey /\ drawn.sessions + 1 \in 0 .. MaxSession
    BY <1>5, SessionsAssumption DEF Types, Counters, SessionId, NewSessionId
  <2>2. /\ drawn'.handshakes = drawn.handshakes + 1 /\ drawn'.keys = drawn.keys
        /\ drawn'.sessions = drawn.sessions + 1
        /\ drawn' \in [handshakes : Nat, sessions : 0 .. MaxSession, keys : 0 .. MaxKey]
    <3> DEFINE S == 0 .. MaxSession
               K == 0 .. MaxKey
               next == drawn.sessions + 1
               e == drawn.handshakes + 1
    <3>1. drawn \in [handshakes : Nat, sessions : S, keys : K] /\ e \in Nat /\ next \in S
      BY <2>1 DEF Types, Counters
    <3>2. drawn' = [drawn EXCEPT !.handshakes = e, !.sessions = next]
      BY <1>5
    <3> HIDE DEF S, K, e, next
    <3>3. drawn' \in [handshakes : Nat, sessions : S, keys : K]
      BY <3>1, <3>2
    <3>4. drawn'.handshakes = e /\ drawn'.keys = drawn.keys /\ drawn'.sessions = next
      BY <3>1, <3>2
    <3> QED
      BY <3>3, <3>4 DEF S, K, e, next
  <2>3. Counters' /\ Grows
    <3> DEFINE c == Cardinality(DOMAIN reply)
    <3>1. DOMAIN reply' = DOMAIN reply
      BY <1>1 DEF appVars
    <3>2. c \in Nat
      BY RepliesCounted DEF Types
    <3>3. drawn.handshakes <= c + drawn.sessions /\ DOMAIN reply \subseteq 1 .. drawn.handshakes
      BY DEF Types, Counters
    <3> HIDE DEF c
    <3>4. drawn'.handshakes <= c + drawn'.sessions /\ DOMAIN reply \subseteq 1 .. drawn'.handshakes
      BY <2>1, <2>2, <3>2, <3>3
    <3>5. Grows
      BY <2>1, <2>2 DEF Grows
    <3> QED
      BY <1>1, <2>2, <3>1, <3>4, <3>5 DEF Types, Counters, c
  <2>4. NetTyped'
    <3>1. NewSessionId \in Drawn' /\ NewHandshakeId \in 0 .. drawn'.handshakes
      BY <2>1, <2>2 DEF NewSessionId, NewHandshakeId, Drawn
    <3>2. "hello" \in Kind /\ 0 \in 0 .. drawn'.keys
      BY <2>1, <2>2 DEF Kind
    <3>3. HelloPacket(n, m.src, NewSessionId, NewHandshakeId, 0) \in Message'
      BY <1>2, <3>1, <3>2, PacketTyped DEF HelloPacket, Types
    <3> QED
      BY <1>3, <1>5, <2>3, <3>3 DEF Types, NetTyped
  <2>5. HandshakesTyped'
    <3>1. h \in Handshake
      BY DEF Types, HandshakesTyped
    <3>2. m.session \in Drawn' /\ NewHandshakeId \in 1 .. drawn'.handshakes
      BY <1>2, <1>3, <2>1, <2>2, <2>3 DEF NewHandshakeId
    <3>3. h \in Handshake'
      BY <1>3, <2>3, <3>1
    <3>4. Reused(h, m.session) \in Handshake'
      BY <3>2, <3>3 DEF Reused, Handshake
    <3> QED
      BY <1>3, <1>5, <2>3, <3>4 DEF Types, HandshakesTyped
  <2> QED
    BY <1>1, <1>3, <2>3, <2>4, <2>5, FrameTyped DEF Types, tableVars, appVars, historyVars
<1> QED
  BY <1>4, <1>5 DEF HelloCollides

\* handshake_done
LEMMA AckTyped ==
    ASSUME Types, NEW n \in Node, NEW m \in net, ReceiveHandshakeAck(n, m)
    PROVE  Types'
<1>1. /\ UNCHANGED <<at, handshakes, addressSession, encryption, reply, taskVars,
                     drawn, historyVars>>
      /\ net' \subseteq net
      /\ accidents' = accidents \/ (accidents > 0 /\ accidents' = accidents - 1)
  BY TakesFacts DEF ReceiveHandshakeAck
<1>2. Counters' /\ Grows
  BY <1>1, CountersKept DEF Types
<1>3. Drawn \subseteq Drawn' /\ m.session \in Drawn
  BY <1>2, StillTyped DEF Types, NetTyped, Message
<1>4. ConnectionsTyped'
  <2>1. CASE connections' = connections
    BY <1>2, <2>1, FrameTyped
  <2>2. CASE /\ Has(n, m.session)
             /\ connections' = [connections EXCEPT ![n][m.session].state = "established"]
    <3> DEFINE s == m.session
               r == [connections[n][s] EXCEPT !.state = "established"]
    <3>1. connections' = [connections EXCEPT ![n][s] = r] /\ s \in DOMAIN connections[n]
      BY <2>2 DEF Has
    <3>2. connections[n][s] \in Sessions
      BY <3>1 DEF Types, ConnectionsTyped
    <3>3. r \in Sessions
      BY <3>2 DEF Sessions
    <3> HIDE DEF r, s
    <3> QED
      BY <1>3, <3>1, <3>3, RowChanged DEF Types
  <2> QED
    BY <2>1, <2>2 DEF ReceiveHandshakeAck
<1>5. HandlesTyped'
  <2>1. held' = held \/ held' = [held EXCEPT ![n] = @ \cup {m.session}]
    BY DEF ReceiveHandshakeAck
  <2>2. keptAlive' = keptAlive
    BY <1>1 DEF taskVars
  <2> QED
    BY <1>3, <2>1, <2>2 DEF Types, HandlesTyped
<1> QED
  BY <1>1, <1>2, <1>4, <1>5, FrameTyped DEF Types, taskVars, historyVars

LEMMA HandshakeTyped ==
    ASSUME Types, NEW n \in Node, HandshakeStep(n)
    PROVE  Types'
<1>1. ASSUME NEW m \in net, ReceiveAppRejection(n, m) PROVE Types'
  <2>1. PICK h \in handshakes[n] :
            /\ handshakes' = [handshakes EXCEPT ![n] = @ \ {h}]
            /\ reply' = [reply EXCEPT ![h.first] = "rejected"]
    BY <1>1 DEF ReceiveAppRejection
  <2>2. UNCHANGED <<at, tableVars, held, taskVars, net, drawn, accidents, historyVars>>
    BY <1>1 DEF ReceiveAppRejection
  <2>3. DOMAIN reply' = DOMAIN reply
    BY <2>1
  <2>4. Counters' /\ Grows
    BY <2>2, <2>3, CountersKept DEF Types
  <2>5. HandshakesTyped'
    <3>1. Handshake \subseteq Handshake'
      BY <2>4, StillTyped DEF Types
    <3> QED
      BY <2>1, <3>1 DEF Types, HandshakesTyped
  <2> QED
    BY <2>2, <2>4, <2>5, FrameTyped DEF Types, tableVars, taskVars, historyVars
<1>2. ASSUME NEW m \in net, ReceiveIdCollision(n, m) PROVE Types'
  <2>1. /\ connections' = [connections EXCEPT ![n] = Without(@, m.session)]
        /\ UNCHANGED <<at, handshakes, addressSession, encryption, appVars, taskVars,
                       net, drawn, accidents, promoted, reused>>
    BY <1>2 DEF ReceiveIdCollision
  <2>2. Counters' /\ Grows
    BY <2>1, CountersKept DEF Types, appVars
  <2>3. ConnectionsTyped'
    BY <2>1, <2>2, StillTyped, RowDropped DEF Types
  <2> QED
    BY <2>1, <2>2, <2>3, FrameTyped DEF Types, appVars, taskVars
<1> QED
  BY <1>1, <1>2, ConnectTyped, HelloTyped, RejectTyped, ApproveTyped, CreateTyped,
     InsertKeyTyped, CheckIdTyped, AnsweredTyped, CollidesTyped, AckTyped DEF HandshakeStep

\* A packet of a session that a node has.
LEMMA SessionPacketTyped ==
    ASSUME Types, Counters', Grows, NEW n \in Node, NEW s, Has(n, s)
    PROVE  /\ CloseSessionPacket(n, connections[n][s].address, s) \in Message'
           /\ KeepAlivePacket(n, connections[n][s].address, s) \in Message'
<1>1. connections[n][s].address \in Address /\ s \in Drawn
  BY DEF Types, ConnectionsTyped, Sessions, Has
<1>2. s \in Drawn' /\ 0 .. drawn.keys \subseteq 0 .. drawn'.keys
  BY <1>1, StillTyped DEF Types
<1>3. Key(n, s) \in 0 .. drawn'.keys /\ 0 \in 0 .. drawn'.handshakes
  <2>1. 0 \in 0 .. drawn'.keys /\ 0 \in 0 .. drawn'.handshakes
    BY SessionsAssumption DEF Counters
  <2> QED
    BY <1>2, <2>1 DEF Key, Types, KeysTyped
<1>4. "close" \in Kind /\ "alive" \in Kind
  BY DEF Kind
<1> QED
  BY <1>1, <1>2, <1>3, <1>4, PacketTyped DEF CloseSessionPacket, KeepAlivePacket, Types

LEMMA CloseTyped ==
    ASSUME Types, NEW n \in Node, CloseStep(n)
    PROVE  Types'
<1>1. ASSUME Counters', Grows, NEW s \in Drawn, NEW a \in Address,
             NEW step \in {"send", "row", "address"}
      PROVE  Closer(s, a, step) \in Closers' /\ Closers \subseteq Closers'
  BY <1>1, StillTyped DEF Closer, Closers, Types
<1>2. ASSUME NEW m \in net, ReceiveClose(n, m) PROVE Types'
  <2>1. /\ UNCHANGED <<at, handshakes, tableVars, appVars, handling, keptAlive, movers,
                       drawn, historyVars>>
        /\ net' \subseteq net
        /\ accidents' = accidents \/ (accidents > 0 /\ accidents' = accidents - 1)
    BY <1>2, TakesFacts DEF ReceiveClose
  <2>2. Counters' /\ Grows
    BY <2>1, CountersKept DEF Types, appVars
  <2>3. \/ closers' = closers
        \/ closers' = [closers EXCEPT ![n] = @ \cup {Closer(m.session, AddressOf(n), "row")}]
    BY <1>2 DEF ReceiveClose
  <2>4. m.session \in Drawn /\ AddressOf(n) \in Address
    BY PacketTyped DEF Types, NetTyped, Message
  <2>5. ClosersTyped'
    BY <1>1, <2>2, <2>3, <2>4 DEF Types, ClosersTyped
  <2> QED
    BY <2>1, <2>2, <2>5, FrameTyped DEF Types, tableVars, appVars, historyVars
<1>3. ASSUME NEW s \in held[n], AppClose(n, s) PROVE Types'
  <2>1. /\ held' = [held EXCEPT ![n] = @ \ {s}]
        /\ closers' = [closers EXCEPT ![n] = @ \cup {Closer(s, AddressOf(n), "send")}]
        /\ UNCHANGED <<at, handshakes, tableVars, reply, handling, keptAlive, movers,
                       net, drawn, accidents, historyVars>>
    BY <1>3 DEF AppClose
  <2>2. Counters' /\ Grows
    BY <2>1, CountersKept DEF Types
  <2>3. s \in Drawn /\ AddressOf(n) \in Address /\ Drawn \subseteq Drawn'
    BY <2>2, PacketTyped, StillTyped DEF Types, HandlesTyped
  <2>4. ClosersTyped'
    BY <1>1, <2>1, <2>2, <2>3 DEF Types, ClosersTyped
  <2>5. HandlesTyped'
    BY <2>1, <2>3 DEF Types, HandlesTyped
  <2> QED
    BY <2>1, <2>2, <2>4, <2>5, FrameTyped DEF Types, tableVars, historyVars
<1>4. ASSUME NEW c \in closers[n], SendClose(n, c) PROVE Types'
  <2>1. UNCHANGED <<at, handshakes, tableVars, appVars, handling, keptAlive, movers,
                    drawn, accidents, historyVars>>
    BY <1>4 DEF SendClose
  <2>2. Counters' /\ Grows
    BY <2>1, CountersKept DEF Types, appVars
  <2>3. c \in Closers /\ Closers \subseteq Closers' /\ Message \subseteq Message'
    BY <2>2, StillTyped DEF Types, ClosersTyped
  <2>4. NetTyped' /\ ClosersTyped'
    <3>1. CASE Has(n, c.session)
      <4>1. /\ net' = net \cup
                   {CloseSessionPacket(n, connections[n][c.session].address, c.session)}
            /\ closers' = [closers EXCEPT ![n] = (@ \ {c}) \cup {[c EXCEPT !.step = "row"]}]
        BY <1>4, <3>1 DEF SendClose
      <4>2. CloseSessionPacket(n, connections[n][c.session].address, c.session) \in Message'
        BY <2>2, <3>1, SessionPacketTyped
      <4>3. [c EXCEPT !.step = "row"] \in Closers
        BY <2>3 DEF Closers
      <4> QED
        BY <2>3, <4>1, <4>2, <4>3 DEF Types, NetTyped, ClosersTyped
    <3>2. CASE ~ Has(n, c.session)
      <4>1. closers' = [closers EXCEPT ![n] = @ \ {c}] /\ net' = net
        BY <1>4, <3>2 DEF SendClose
      <4> QED
        BY <2>3, <4>1 DEF Types, NetTyped, ClosersTyped
    <3> QED
      BY <3>1, <3>2
  <2> QED
    BY <2>1, <2>2, <2>4, FrameTyped DEF Types, tableVars, appVars, historyVars
<1>5. ASSUME NEW c \in closers[n], CloseConnection(n, c) PROVE Types'
  <2>1. UNCHANGED <<at, handshakes, addressSession, encryption, appVars, handling,
                    keptAlive, movers, net, drawn, accidents, promoted, reused>>
    BY <1>5 DEF CloseConnection
  <2>2. Counters' /\ Grows
    BY <2>1, CountersKept DEF Types, appVars
  <2>3. /\ c \in Closers /\ Closers \subseteq Closers' /\ Drawn \subseteq Drawn'
        /\ c.session \in Drawn
    BY <2>2, StillTyped DEF Types, ClosersTyped, Closers
  <2>4. ConnectionsTyped' /\ ClosersTyped'
    <3>1. CASE Has(n, c.session)
      <4>1. /\ connections' = [connections EXCEPT ![n] = Without(@, c.session)]
            /\ closers' = [closers EXCEPT ![n] = (@ \ {c}) \cup
                   {Closer(c.session, connections[n][c.session].address, "address")}]
        BY <1>5, <3>1 DEF CloseConnection
      <4>2. connections[n][c.session].address \in Address
        BY <3>1 DEF Types, ConnectionsTyped, Sessions, Has
      <4>3. Closer(c.session, connections[n][c.session].address, "address") \in Closers'
        BY <1>1, <2>2, <2>3, <4>2
      <4>4. ConnectionsTyped'
        BY <2>3, <4>1, RowDropped DEF Types
      <4> QED
        BY <2>3, <4>1, <4>3, <4>4 DEF Types, ClosersTyped
    <3>2. CASE ~ Has(n, c.session)
      <4>1. closers' = [closers EXCEPT ![n] = @ \ {c}] /\ connections' = connections
        BY <1>5, <3>2 DEF CloseConnection
      <4> QED
        BY <2>2, <2>3, <4>1, FrameTyped DEF Types, ClosersTyped
    <3> QED
      BY <3>1, <3>2
  <2> QED
    BY <2>1, <2>2, <2>4, FrameTyped DEF Types, appVars
<1>6. ASSUME NEW c \in closers[n], CloseAddress(n, c) PROVE Types'
  <2>1. /\ UNCHANGED <<at, handshakes, connections, appVars, handling,
                       keptAlive, movers, net, drawn, accidents, historyVars>>
        /\ closers' = [closers EXCEPT ![n] = @ \ {c}]
    BY <1>6 DEF CloseAddress
  <2>2. Counters' /\ Grows
    BY <2>1, CountersKept DEF Types, appVars
  <2>3. /\ Closers \subseteq Closers' /\ Drawn \subseteq Drawn'
        /\ 0 .. drawn.keys \subseteq 0 .. drawn'.keys
    BY <2>2, StillTyped DEF Types
  <2>4. ClosersTyped'
    BY <2>1, <2>3 DEF Types, ClosersTyped
  <2>5. AddressesTyped' /\ KeysTyped'
    <3>1. CASE UNCHANGED <<addressSession, encryption>>
      BY <2>2, <3>1, FrameTyped
    <3>2. CASE /\ addressSession' = [addressSession EXCEPT ![n] = @ \ {<<c.address, c.session>>}]
               /\ encryption' = [encryption EXCEPT ![n] = Without(@, c.session)]
      <4>1. AddressesTyped'
        BY <2>3, <3>2 DEF Types, AddressesTyped
      <4> QED
        BY <2>3, <3>2, <4>1, KeyDropped DEF Types
    <3> QED
      BY <1>6, <3>1, <3>2 DEF CloseAddress
  <2> QED
    BY <2>1, <2>2, <2>4, <2>5, FrameTyped DEF Types, appVars, historyVars
<1> QED
  BY <1>2, <1>3, <1>4, <1>5, <1>6 DEF CloseStep

\* A task of a node that goes on.
LEMMA MoverTyped ==
    ASSUME Types, Counters', Grows, NEW n \in Node, NEW i \in Mover, NEW t \in Movers',
           movers' = [movers EXCEPT ![n][i] = t]
    PROVE  MoversTyped'
<1>1. Movers \subseteq Movers'
  BY StillTyped DEF Types
<1>2. \A k \in Node : movers[k] \in [Mover -> Movers']
  <2> SUFFICES ASSUME NEW k \in Node PROVE movers[k] \in [Mover -> Movers']
    OBVIOUS
  <2>1. movers[k] \in [Mover -> Movers]
    BY DEF Types, MoversTyped
  <2> QED
    BY <1>1, <2>1
<1>3. [movers[n] EXCEPT ![i] = t] \in [Mover -> Movers']
  BY <1>2
<1>4. /\ DOMAIN movers' = Node
      /\ \A k \in Node : movers'[k] = IF k = n THEN [movers[n] EXCEPT ![i] = t] ELSE movers[k]
  BY DEF Types, MoversTyped
<1> QED
  BY <1>2, <1>3, <1>4 DEF MoversTyped

LEMMA MoveTyped ==
    ASSUME Types, NEW n \in Node, MoveStep(n)
    PROVE  Types'
<1>1. CASE Move(n)
  <2>1. /\ accidents > 0
        /\ at' = [at EXCEPT ![n] = @ + 1]
        /\ accidents' = accidents - 1
        /\ UNCHANGED <<handshakes, tableVars, appVars, taskVars, net, drawn, historyVars>>
    BY <1>1 DEF Move
  <2>2. Counters'
    <3>1. /\ accidents \in Nat /\ at \in [Node -> Nat]
          /\ \A k \in Node : at[k] + accidents <= MaxAccidents
      BY DEF Types, Counters
    <3>2. accidents' \in Nat /\ at' \in [Node -> Nat]
      BY <2>1, <3>1
    <3>3. \A k \in Node : at'[k] + accidents' <= MaxAccidents
      BY <2>1, <3>1, SessionsAssumption
    <3>4. Cardinality(DOMAIN reply) + accidents' <= MaxConnect + MaxAccidents
      <4> DEFINE c == Cardinality(DOMAIN reply)
      <4>1. c \in Nat
        BY RepliesCounted DEF Types
      <4>2. c + accidents <= MaxConnect + MaxAccidents
        BY DEF Types, Counters
      <4> HIDE DEF c
      <4>3. c + accidents' <= MaxConnect + MaxAccidents
        BY <2>1, <3>1, <4>1, <4>2, SessionsAssumption
      <4> QED
        BY <4>3 DEF c
    <3>5. drawn' = drawn /\ reply' = reply
      BY <2>1 DEF appVars
    <3> QED
      BY <3>2, <3>3, <3>4, <3>5 DEF Types, Counters
  <2>3. Grows
    BY <2>1, SessionsAssumption DEF Types, Counters, Grows
  <2> QED
    BY <2>1, <2>2, <2>3, FrameTyped DEF Types, tableVars, taskVars, appVars, historyVars
<1>2. ASSUME NEW s \in keptAlive[n], SendKeepAlive(n, s) PROVE Types'
  <2>1. UNCHANGED <<at, handshakes, tableVars, appVars, handling, closers, movers,
                    drawn, accidents, historyVars>>
    BY <1>2 DEF SendKeepAlive
  <2>2. Counters' /\ Grows
    BY <2>1, CountersKept DEF Types, appVars
  <2>3. Message \subseteq Message' /\ Drawn \subseteq Drawn'
    BY <2>2, StillTyped DEF Types
  <2>4. NetTyped' /\ keptAlive' \in {keptAlive, [keptAlive EXCEPT ![n] = @ \ {s}]}
    <3>1. CASE Has(n, s)
      <4>1. /\ net' = net \cup {KeepAlivePacket(n, connections[n][s].address, s)}
            /\ keptAlive' = keptAlive
        BY <1>2, <3>1 DEF SendKeepAlive
      <4>2. KeepAlivePacket(n, connections[n][s].address, s) \in Message'
        BY <2>2, <3>1, SessionPacketTyped
      <4> QED
        BY <2>3, <4>1, <4>2 DEF Types, NetTyped
    <3>2. CASE ~ Has(n, s)
      <4>1. net' = net /\ keptAlive' = [keptAlive EXCEPT ![n] = @ \ {s}]
        BY <1>2, <3>2 DEF SendKeepAlive
      <4> QED
        BY <2>3, <4>1 DEF Types, NetTyped
    <3> QED
      BY <3>1, <3>2
  <2>5. HandlesTyped'
    BY <2>1, <2>3, <2>4 DEF Types, HandlesTyped, appVars
  <2> QED
    BY <2>1, <2>2, <2>4, <2>5, FrameTyped DEF Types, tableVars, appVars, historyVars
<1>3. ASSUME NEW m \in net, NEW i \in Mover, ReceiveKeepAlive(n, m, i) PROVE Types'
  <2> DEFINE t == [session |-> m.session, from |-> connections[n][m.session].address,
                   to |-> m.src, step |-> "remove"]
  <2>1. /\ UNCHANGED <<at, handshakes, tableVars, appVars, handling, keptAlive, closers,
                       net, drawn, accidents, promoted, reused>>
        /\ movers' = [movers EXCEPT ![n][i] = t]
        /\ Has(n, m.session)
    BY <1>3 DEF ReceiveKeepAlive
  <2>2. Counters' /\ Grows
    BY <2>1, CountersKept DEF Types, appVars
  <2>3. t \in Movers'
    <3>1. m.session \in Drawn /\ m.src \in Address
      BY DEF Types, NetTyped, Message
    <3>2. connections[n][m.session].address \in Address
      BY <2>1 DEF Types, ConnectionsTyped, Sessions, Has
    <3>3. t \in Movers
      BY <3>1, <3>2 DEF Movers
    <3> QED
      BY <2>2, <3>3, StillTyped DEF Types
  <2> HIDE DEF t
  <2>4. MoversTyped'
    BY <2>1, <2>2, <2>3, MoverTyped
  <2> QED
    BY <2>1, <2>2, <2>4, FrameTyped DEF Types, tableVars, appVars
<1>4. ASSUME NEW i \in Mover
      PROVE  movers[n][i] \in Movers
  BY DEF Types, MoversTyped
<1>5. ASSUME NEW i \in Mover, MoveRemove(n, i) PROVE Types'
  <2> DEFINE row == <<movers[n][i].from, movers[n][i].session>>
             t == IF row \in addressSession[n] THEN [movers[n][i] EXCEPT !.step = "push"]
                                               ELSE NoTask
  <2>1. /\ UNCHANGED <<at, handshakes, connections, encryption, appVars, handling,
                       keptAlive, closers, net, drawn, accidents, historyVars>>
        /\ addressSession' = [addressSession EXCEPT ![n] = @ \ {row}]
        /\ movers' = [movers EXCEPT ![n][i] = t]
        /\ movers[n][i].step = "remove"
    BY <1>5 DEF MoveRemove
  <2>2. Counters' /\ Grows
    BY <2>1, CountersKept DEF Types, appVars
  <2>3. t \in Movers'
    <3>1. movers[n][i] # NoTask
      BY <2>1 DEF NoTask
    <3>2. t \in Movers
      BY <1>4, <3>1 DEF Movers
    <3> QED
      BY <2>2, <3>2, StillTyped DEF Types
  <2> HIDE DEF t, row
  <2>4. MoversTyped'
    BY <2>1, <2>2, <2>3, MoverTyped
  <2>5. AddressesTyped'
    BY <2>1, <2>2, StillTyped DEF Types, AddressesTyped
  <2> QED
    BY <2>1, <2>2, <2>4, <2>5, FrameTyped DEF Types, appVars, historyVars
<1>6. ASSUME NEW i \in Mover, MovePush(n, i) PROVE Types'
  <2> DEFINE t == [movers[n][i] EXCEPT !.step = "row"]
             row == <<movers[n][i].to, movers[n][i].session>>
  <2>1. /\ UNCHANGED <<at, handshakes, connections, encryption, appVars, handling,
                       keptAlive, closers, net, drawn, accidents, historyVars>>
        /\ addressSession' = [addressSession EXCEPT ![n] = @ \cup {row}]
        /\ movers' = [movers EXCEPT ![n][i] = t]
        /\ movers[n][i].step = "push"
    BY <1>6 DEF MovePush
  <2>2. Counters' /\ Grows
    BY <2>1, CountersKept DEF Types, appVars
  <2>3. movers[n][i] # NoTask
    BY <2>1 DEF NoTask
  <2>4. t \in Movers /\ row \in Address \X Drawn
    BY <1>4, <2>3 DEF Movers
  <2>5. t \in Movers'
    BY <2>2, <2>4, StillTyped DEF Types
  <2> HIDE DEF t, row
  <2>6. MoversTyped'
    BY <2>1, <2>2, <2>5, MoverTyped
  <2>7. AddressesTyped'
    BY <2>1, <2>2, <2>4, StillTyped DEF Types, AddressesTyped
  <2> QED
    BY <2>1, <2>2, <2>6, <2>7, FrameTyped DEF Types, appVars, historyVars
<1>7. ASSUME NEW i \in Mover, MoveConnection(n, i) PROVE Types'
  <2> DEFINE s == movers[n][i].session
             r == [connections[n][s] EXCEPT !.address = movers[n][i].to]
  <2>1. /\ UNCHANGED <<at, handshakes, addressSession, encryption, appVars, handling,
                       keptAlive, closers, net, drawn, accidents, historyVars>>
        /\ movers' = [movers EXCEPT ![n][i] = NoTask]
        /\ movers[n][i].step = "row"
        /\ \/ connections' = connections
           \/ Has(n, s) /\ connections' = [connections EXCEPT ![n][s] = r]
    BY <1>7 DEF MoveConnection
  <2>2. Counters' /\ Grows
    BY <2>1, CountersKept DEF Types, appVars
  <2>3. MoversTyped'
    BY <2>1, <2>2, MoverTyped DEF Movers
  <2>4. CASE Has(n, s) /\ connections' = [connections EXCEPT ![n][s] = r]
    <3>1. movers[n][i] # NoTask
      BY <2>1 DEF NoTask
    <3>2. movers[n][i].to \in Address
      BY <1>4, <3>1 DEF Movers
    <3>3. s \in DOMAIN connections[n] /\ connections[n][s] \in Sessions
      BY <2>4 DEF Types, ConnectionsTyped, Has
    <3>4. r \in Sessions
      BY <3>2, <3>3 DEF Sessions
    <3> HIDE DEF r, s
    <3>5. ConnectionsTyped'
      BY <2>2, <2>4, <3>3, <3>4, StillTyped, RowChanged DEF Types
    <3> QED
      BY <2>1, <2>2, <2>3, <3>5, FrameTyped DEF Types, appVars, historyVars
  <2>5. CASE connections' = connections
    BY <2>1, <2>2, <2>3, <2>5, FrameTyped DEF Types, appVars, historyVars
  <2> QED
    BY <2>1, <2>4, <2>5
<1> QED
  BY <1>1, <1>2, <1>3, <1>5, <1>6, <1>7 DEF MoveStep

LEMMA TypesHold == Spec => []Types
<1>1. Init => Types
  <2> SUFFICES ASSUME Init PROVE Types
    OBVIOUS
  <2>1. Counters
    <3>1. DOMAIN reply = {}
      BY DEF Init, Nothing
    <3>2. Cardinality(DOMAIN reply) = 0
      BY <3>1, FS_EmptySet
    <3> QED
      BY <3>1, <3>2, SessionsAssumption DEF Init, Counters
  <2>2. HandshakesTyped /\ ConnectionsTyped /\ AddressesTyped /\ KeysTyped
    BY DEF Init, HandshakesTyped, ConnectionsTyped, AddressesTyped, KeysTyped, Nothing
  <2>3. MoversTyped
    BY DEF Init, MoversTyped, Movers
  <2> QED
    BY <2>1, <2>2, <2>3
       DEF Init, Types, NetTyped, HandlingTyped, HandlesTyped, ClosersTyped, HistoryTyped
<1>2. Types /\ [Next]_vars => Types'
  <2> SUFFICES ASSUME Types, [Next]_vars PROVE Types'
    OBVIOUS
  <2>1. CASE UNCHANGED vars
    <3>1. Counters' /\ Grows
      BY <2>1, CountersKept DEF Types, vars, appVars
    <3> QED
      BY <2>1, <3>1, FrameTyped DEF Types, vars, tableVars, taskVars, appVars, historyVars
  <2>2. CASE Next
    BY <2>2, HandshakeTyped, CloseTyped, MoveTyped DEF Next
  <2> QED
    BY <2>1, <2>2
<1> QED
  BY <1>1, <1>2, PTL DEF Spec

\* Ids and keys stay in their ranges: a session that a table, a task or a
\* handshake names was drawn, however many ids collide and packets come twice.
THEOREM TypeCorrect == Spec => []TypeOK
<1>1. Types => TypeOK
  <2> SUFFICES ASSUME Types PROVE TypeOK
    OBVIOUS
  <2>1. at \in [Node -> 0 .. MaxAccidents]
    BY SessionsAssumption DEF Types, Counters
  <2>2. Drawn \subseteq SessionId /\ Drawn = 1 .. drawn.sessions
    BY SessionsAssumption DEF Types, Counters, Drawn, SessionId
  <2>3. 1 .. drawn.handshakes \subseteq HandshakeId
    <3> DEFINE c == Cardinality(DOMAIN reply)
    <3>1. /\ drawn.handshakes \in Nat /\ drawn.sessions \in 0 .. MaxSession /\ accidents \in Nat
          /\ drawn.handshakes <= c + drawn.sessions
          /\ c + accidents <= MaxConnect + MaxAccidents
      BY DEF Types, Counters
    <3>2. c \in Nat
      BY RepliesCounted DEF Types
    <3> HIDE DEF c
    <3>3. drawn.handshakes <= MaxConnect + MaxAccidents + MaxSession
      BY <3>1, <3>2, SessionsAssumption
    <3> QED
      BY <3>1, <3>3, SessionsAssumption DEF HandshakeId
  <2>4. \A n \in Node : handshakes[n] \subseteq
            [id : HandshakeId, session : SessionId, first : HandshakeId]
    BY <2>2, <2>3 DEF Types, HandshakesTyped, Handshake
  <2>5. \A n \in Node : closers[n] \subseteq Tasks
    BY <2>2 DEF Types, ClosersTyped, Closers, Tasks
  <2>6. \A n \in Node : /\ addressSession[n] \subseteq Address \X SessionId
                        /\ held[n] \cup keptAlive[n] \subseteq SessionId
    BY <2>2 DEF Types, AddressesTyped, HandlesTyped
  <2>7. \A n \in Node : /\ DOMAIN encryption[n] \subseteq SessionId
                        /\ \A s \in DOMAIN encryption[n] : encryption[n][s] \in 0 .. drawn.keys
                        /\ DOMAIN connections[n] \subseteq 1 .. drawn.sessions
                        /\ \A s \in DOMAIN connections[n] : connections[n][s] \in Sessions
    BY <2>2 DEF Types, KeysTyped, ConnectionsTyped
  <2> QED
    BY <2>1, <2>4, <2>5, <2>6, <2>7 DEF TypeOK
<1> QED
  BY TypesHold, <1>1, PTL

-----------------------------------------------------------------------------
(* The keys of the two ends.                                               *)

\* A Hello that was sent and not used up: on its way, or in the hands of a task,
\* which may have given it another session id.
Hello(m) ==
    \/ m \in net /\ m.kind = "hello"
    \/ \E n \in Node : \E t \in handling[n] : t.hello = m

\* A handshake that a packet may still find.
Live(i) == \E n \in Node : \E h \in handshakes[n] : h.id = i

\* The end of a Hello that approves: it gets the proposal and sends the answer.
Peer(m) == IF m.key = 0 THEN m.dst[1] ELSE m.src[1]

Receiving == {"asked", "create", "key"}

\* A task has the Hello of its node; while the handshake lives its receiver has
\* a proposal, and its initiator an answer.
Fits(n, t) ==
    /\ t.hello.dst[1] = n
    /\ IF t.step \in Receiving THEN Live(t.hello.hid) => t.hello.key = 0
                               ELSE t.hello.key # 0

HelloShape ==
    /\ \A n \in Node : \A t \in handling[n] : Fits(n, t)
    /\ \A m : Hello(m) => m.src[1] # m.dst[1]

IdsUnique ==
    \A k, n \in Node : \A g \in handshakes[k], h \in handshakes[n] :
        g.id = h.id => k = n /\ g = h

\* The proposals of a live handshake come from its initiator, the answers go to
\* it.
FromInitiator ==
    \A n \in Node : \A h \in handshakes[n] : \A m :
        Hello(m) /\ m.hid = h.id =>
            IF m.key = 0 THEN m.src[1] = n ELSE m.dst[1] = n

\* A session id drawn once belongs to one handshake.
SameHandshake ==
    \A m, k : Hello(m) /\ Hello(k) /\ m.session = k.session /\ m.session \notin reused
                  => m.hid = k.hid

\* The tasks that have created a session and not yet made its key.
Keying(n, s) == {t \in handling[n] : t.step = "key" /\ t.hello.session = s}

\* An answer has the key that the peer made for the session it has.
Answered(m) ==
    /\ Has(Peer(m), m.session) /\ m.session \in DOMAIN encryption[Peer(m)]
    /\ m.key = encryption[Peer(m)][m.session]
    /\ \A n \in Node : Keying(n, m.session) = {}

\* Until its initiator promotes it a session exists at the peer alone, where one
\* task makes its key.
AtPeer(m) ==
    /\ m.session \notin promoted
    /\ \A k : Hello(k) /\ k.session = m.session => Peer(k) = Peer(m)
    /\ \A n \in Node : Has(n, m.session) => n = Peer(m)
    /\ m.key # 0 => Answered(m)
    /\ \A n \in Node : \A t \in Keying(n, m.session) :
           Has(n, m.session) /\ \A u \in Keying(n, m.session) : u = t
    /\ \A k \in net : k.kind = "collision" => k.session # m.session

LiveAtPeer == \A m : Hello(m) /\ Live(m.hid) /\ m.session \notin reused => AtPeer(m)

\* Keys are made before the session is promoted.
KeyingFirst ==
    \A n \in Node : \A t \in handling[n] :
        t.step = "key" /\ t.hello.session \notin reused => t.hello.session \notin promoted

\* From then on whoever has the session has the same key for it.
PromotedKeys ==
    \A s \in promoted \ reused : \A n, k \in Node :
        Has(n, s) /\ Has(k, s) =>
            /\ s \in DOMAIN encryption[n] /\ s \in DOMAIN encryption[k]
            /\ encryption[n][s] = encryption[k][s]

\* Only sessions that were promoted are closed.
ClosedWerePromoted ==
    /\ \A n \in Node : held[n] \subseteq promoted
    /\ \A n \in Node : \A c \in closers[n] : c.session \in promoted
    /\ \A m \in net : m.kind = "close" => m.session \in promoted

\* The row of connections that a closing task took away does not come back.
ClosedStayAway ==
    \A n \in Node : \A c \in closers[n] :
        c.step = "address" /\ c.session \notin reused => ~ Has(n, c.session)

KeyInv ==
    /\ HelloShape /\ IdsUnique /\ FromInitiator
    /\ SameHandshake /\ LiveAtPeer /\ KeyingFirst /\ PromotedKeys
    /\ ClosedWerePromoted /\ ClosedStayAway

\* What the types say of a Hello.
LEMMA HelloFacts ==
    ASSUME Types, NEW m, Hello(m)
    PROVE  /\ m \in Message /\ Peer(m) \in Node
           /\ m.session \in Drawn /\ m.hid \in 0 .. drawn.handshakes
<1>1. m \in Message
  BY DEF Hello, Types, NetTyped, HandlingTyped, Handling
<1>2. m.src[1] \in Node /\ m.dst[1] \in Node
  BY <1>1 DEF Message, Address
<1> QED
  BY <1>1, <1>2 DEF Peer, Message

\* What new ids are not.
LEMMA FreshIds ==
    ASSUME Types
    PROVE  /\ NewSessionId \notin Drawn
           /\ NewHandshakeId \notin 0 .. drawn.handshakes
           /\ NewKey \notin 0 .. drawn.keys /\ NewKey # 0
           /\ drawn.sessions \in Nat /\ drawn.handshakes \in Nat /\ drawn.keys \in Nat
BY SessionsAssumption DEF Types, Counters, NewSessionId, NewHandshakeId, NewKey, Drawn

\* A step that sends no Hello and no collision, adds no row and no key, takes
\* none away, and closes only what was promoted.
LEMMA KeysQuiet ==
    ASSUME Types, KeyInv,
           \A m \in net' : \/ m \in net
                           \/ m.kind \in {"ack", "rejected", "alive"}
                           \/ m.kind = "close" /\ m.session \in promoted,
           \A n \in Node : \A t \in handling'[n] :
               t \in handling[n] \/ (Fits(n, t) /\ Hello(t.hello) /\ t.step # "key"),
           \A n \in Node : /\ handshakes'[n] \subseteq handshakes[n]
                           /\ held'[n] \subseteq promoted,
           \A n \in Node : \A c \in closers'[n] :
               c.session \in promoted /\ (c.step = "address" => c \in closers[n]),
           \A n \in Node : \A s : (Has(n, s)' <=> Has(n, s)),
           UNCHANGED <<encryption, promoted, reused>>
    PROVE  KeyInv'
<1>1. \A m : Hello(m)' => Hello(m)
  BY DEF Hello
<1>2. \A i : Live(i)' => Live(i)
  BY DEF Live
<1>3. HelloShape'
  <2>1. \A n \in Node : \A t \in handling'[n] : Fits(n, t)
    BY DEF KeyInv, HelloShape
  <2>2. \A n \in Node : \A t \in handling'[n] : Fits(n, t)'
    BY <1>2, <2>1 DEF Fits
  <2> QED
    BY <1>1, <2>2 DEF KeyInv, HelloShape
<1>4. IdsUnique'
  BY DEF KeyInv, IdsUnique
<1>5. FromInitiator'
  BY <1>1 DEF KeyInv, FromInitiator
<1>6. SameHandshake'
  BY <1>1 DEF KeyInv, SameHandshake
<1>11. \A n \in Node : \A s : Keying(n, s)' \subseteq Keying(n, s)
  BY DEF Keying
<1>7. LiveAtPeer'
  <2> SUFFICES ASSUME NEW m, Hello(m), Live(m.hid), m.session \notin reused
               PROVE  AtPeer(m)'
    BY <1>1, <1>2 DEF LiveAtPeer
  <2>1. AtPeer(m) /\ Peer(m) \in Node
    BY HelloFacts DEF KeyInv, LiveAtPeer
  <2>2. \A k \in net' : k.kind = "collision" => k \in net
    OBVIOUS
  <2>3. Answered(m) => Answered(m)'
    BY <1>11, <2>1 DEF Answered, Peer
  <2>4. \A n \in Node : \A t \in Keying(n, m.session)' :
            Has(n, m.session)' /\ \A u \in Keying(n, m.session)' : u = t
    BY <1>11, <2>1 DEF AtPeer
  <2> QED
    BY <1>1, <2>1, <2>2, <2>3, <2>4 DEF AtPeer, Peer
<1>8. PromotedKeys'
  BY DEF KeyInv, PromotedKeys
<1>9. ClosedWerePromoted'
  BY DEF KeyInv, ClosedWerePromoted
<1>10. ClosedStayAway'
  BY DEF KeyInv, ClosedStayAway
<1>12. KeyingFirst'
  BY DEF KeyInv, KeyingFirst
<1> QED
  BY <1>3, <1>4, <1>5, <1>6, <1>7, <1>8, <1>9, <1>10, <1>12 DEF KeyInv

\* A step of a task that touches neither handshakes nor sessions.
LEMMA TaskKeys ==
    ASSUME Types, KeyInv,
           \A m \in net' : m \in net \/ m.kind = "rejected",
           \A n \in Node : \A t \in handling'[n] :
               t \in handling[n] \/ (Fits(n, t) /\ Hello(t.hello) /\ t.step # "key"),
           \A n \in Node : handshakes'[n] \subseteq handshakes[n],
           UNCHANGED <<connections, encryption, held, closers, promoted, reused>>
    PROVE  KeyInv'
<1>1. \A k \in Node : \A s : Has(k, s)' <=> Has(k, s)
  BY DEF Has
<1>2. \A k \in Node : held'[k] \subseteq promoted
  BY DEF KeyInv, ClosedWerePromoted
<1>3. \A k \in Node : \A c \in closers'[k] : c.session \in promoted /\ c \in closers[k]
  BY DEF KeyInv, ClosedWerePromoted
<1> QED
  BY <1>1, <1>2, <1>3, KeysQuiet

\* A Hello goes from the network to a task: the initiator's for an answer while
\* its handshake lives.
LEMMA HelloKeys ==
    ASSUME Types, KeyInv, NEW n \in Node, NEW m \in net, ReceiveHello(n, m)
    PROVE  KeyInv'
<1>1. /\ m.kind = "hello" /\ m.dst[1] = n /\ Hello(m)
      /\ net' \subseteq net
      /\ UNCHANGED <<handshakes, connections, encryption, held, closers, promoted, reused>>
  BY TakesFacts
     DEF ReceiveHello, Arrived, AddressOf, Hello, tableVars, appVars, historyVars
<1>2. PICK step \in {"asked", "found"} :
          /\ step = "found" <=> \E h \in handshakes[n] : h.id = m.hid
          /\ handling' = [handling EXCEPT ![n] = @ \cup {Task(m, accidents, step)}]
  BY DEF ReceiveHello
<1> DEFINE t == Task(m, accidents, step)
<1>3. t.hello = m /\ t.step = step
  BY DEF Task
<1>4. handling' = [handling EXCEPT ![n] = @ \cup {t}] /\ DOMAIN handling = Node
  BY <1>2 DEF Types, HandlingTyped
<1> HIDE DEF t
<1>5. Fits(n, t)
  <2>1. CASE \E h \in handshakes[n] : h.id = m.hid
    <3>1. m.key # 0
      BY <1>1, <2>1 DEF KeyInv, FromInitiator, HelloShape
    <3> QED
      BY <1>1, <1>2, <1>3, <2>1, <3>1 DEF Fits, Receiving
  <2>2. CASE \A h \in handshakes[n] : h.id # m.hid
    <3>1. Live(m.hid) => m.key = 0
      BY <1>1, <2>2 DEF KeyInv, FromInitiator, Live
    <3> QED
      BY <1>1, <1>2, <1>3, <2>2, <3>1 DEF Fits, Receiving
  <2> QED
    BY <2>1, <2>2
<1>6. \A k \in Node : \A u \in handling'[k] :
          u \in handling[k] \/ (Fits(k, u) /\ Hello(u.hello) /\ u.step # "key")
  BY <1>1, <1>2, <1>3, <1>4, <1>5
<1> QED
  BY <1>1, <1>6, TaskKeys

\* A connect's Hello has a handshake of its own, and a session id of its own
\* but for accidents.
LEMMA ConnectKeys ==
    ASSUME Types, KeyInv, NEW n \in Node, NEW d \in Node, Connect(n, d)
    PROVE  KeyInv'
<1>1. PICK s \in SessionId :
          /\ \/ s = NewSessionId /\ reused' = reused
             \/ reused' = reused \cup {s}
          /\ handshakes' = [handshakes EXCEPT ![n] = @ \cup
                 {[id |-> NewHandshakeId, session |-> s, first |-> NewHandshakeId]}]
          /\ net' = net \cup {HelloPacket(n, AddressOf(d), s, NewHandshakeId, 0)}
  BY DEF Connect
<1>2. /\ UNCHANGED <<handling, connections, encryption, held, closers, promoted>>
      /\ n # d
  BY DEF Connect, tableVars, taskVars
<1> DEFINE p == HelloPacket(n, AddressOf(d), s, NewHandshakeId, 0)
           g == [id |-> NewHandshakeId, session |-> s, first |-> NewHandshakeId]
<1>3. /\ p.kind = "hello" /\ p.src[1] = n /\ p.dst[1] = d
      /\ p.session = s /\ p.hid = NewHandshakeId /\ p.key = 0 /\ g.id = NewHandshakeId
  BY DEF HelloPacket, Packet, AddressOf
<1>4. net' = net \cup {p} /\ handshakes' = [handshakes EXCEPT ![n] = @ \cup {g}]
  BY <1>1
<1> HIDE DEF p, g
<1>5. /\ DOMAIN handshakes = Node
      /\ \A k \in Node : \A h \in handshakes'[k] : h \in handshakes[k] \/ (k = n /\ h = g)
      /\ \A k \in Node : \A h \in handshakes[k] : h.id # NewHandshakeId
  <2>1. DOMAIN handshakes = Node
    BY DEF Types, HandshakesTyped
  <2>2. \A k \in Node : \A h \in handshakes[k] : h.id \in 0 .. drawn.handshakes
    BY FreshIds DEF Types, HandshakesTyped, Handshake
  <2> QED
    BY <1>4, <2>1, <2>2, FreshIds
<1>6. \A x : Hello(x)' => Hello(x) \/ x = p
  BY <1>2, <1>4 DEF Hello
<1>7. \A x : Hello(x) => x.hid # NewHandshakeId /\ (s \notin reused' => x.session # s)
  BY <1>1, HelloFacts, FreshIds
<1>8. \A x : Hello(x) /\ Live(x.hid)' => Live(x.hid)
  BY <1>3, <1>5, <1>7 DEF Live
<1>9. HelloShape'
  <2>1. \A k \in Node : \A t \in handling'[k] : Fits(k, t) /\ Hello(t.hello)
    BY <1>2 DEF KeyInv, HelloShape, Hello
  <2>2. \A k \in Node : \A t \in handling'[k] : Fits(k, t)'
    BY <1>8, <2>1 DEF Fits
  <2> QED
    BY <1>2, <1>3, <1>6, <2>2 DEF KeyInv, HelloShape
<1>16. \A k, y : Keying(k, y)' = Keying(k, y)
  BY <1>2 DEF Keying
<1>10. IdsUnique'
  BY <1>3, <1>5 DEF KeyInv, IdsUnique
<1>11. FromInitiator'
  <2> SUFFICES ASSUME NEW k \in Node, NEW h \in handshakes'[k], NEW x, Hello(x)', x.hid = h.id
               PROVE  IF x.key = 0 THEN x.src[1] = k ELSE x.dst[1] = k
    BY DEF FromInitiator
  <2>1. CASE Hello(x)
    <3>1. h \in handshakes[k]
      BY <1>3, <1>5, <1>7, <2>1
    <3> QED
      BY <2>1, <3>1 DEF KeyInv, FromInitiator
  <2>2. CASE x = p
    BY <1>3, <1>5, <2>2
  <2> QED
    BY <1>6, <2>1, <2>2
<1>12. SameHandshake'
  <2> SUFFICES ASSUME NEW x, NEW y, Hello(x)', Hello(y)', x.session = y.session,
                      x.session \notin reused'
               PROVE  x.hid = y.hid
    BY DEF SameHandshake
  <2>1. x.session \notin reused
    BY <1>1
  <2> QED
    BY <1>3, <1>6, <1>7, <2>1 DEF KeyInv, SameHandshake
<1>13. LiveAtPeer'
  <2> SUFFICES ASSUME NEW x, Hello(x)', Live(x.hid)', x.session \notin reused'
               PROVE  AtPeer(x)'
    BY DEF LiveAtPeer
  <2>1. CASE Hello(x)
    <3>1. AtPeer(x)
      BY <1>1, <1>8, <2>1 DEF KeyInv, LiveAtPeer
    <3>2. x.session # s
      BY <1>1, <1>7, <2>1
    <3>3. \A k : Hello(k)' /\ k.session = x.session => Hello(k)
      BY <1>3, <1>6, <3>2
    <3>4. \A k \in net' : k.kind = "collision" => k \in net
      BY <1>3, <1>4
    <3>5. Answered(x) => Answered(x)'
      BY <1>2, <1>16 DEF Answered, Peer, Has
    <3> QED
      BY <1>2, <1>16, <3>1, <3>3, <3>4, <3>5 DEF AtPeer, Peer, Has
  <2>2. CASE x = p
    <3>1. s = NewSessionId
      BY <1>1, <1>3, <2>2
    <3>2. s \notin promoted /\ \A k \in Node : ~ Has(k, s)
      BY <3>1, FreshIds DEF Types, HistoryTyped, ConnectionsTyped, Has
    <3>3. \A k : Hello(k)' /\ k.session = s => k = p
      BY <1>3, <1>6, <1>7, <2>2
    <3>4. \A k \in net' : k.kind = "collision" => k.session # s
      BY <1>3, <1>4, <3>1, FreshIds DEF Types, NetTyped, Message
    <3>5. \A k \in Node : Keying(k, s) = {}
      BY <3>1, FreshIds DEF Keying, Types, HandlingTyped, Handling, Message
    <3> QED
      BY <1>2, <1>3, <1>16, <2>2, <3>2, <3>3, <3>4, <3>5 DEF AtPeer, Peer, Has
  <2> QED
    BY <1>6, <2>1, <2>2
<1>14. PromotedKeys' /\ ClosedStayAway' /\ KeyingFirst'
  BY <1>1, <1>2 DEF KeyInv, PromotedKeys, ClosedStayAway, KeyingFirst, Has
<1>15. ClosedWerePromoted'
  BY <1>2, <1>3, <1>4 DEF KeyInv, ClosedWerePromoted
<1> QED
  BY <1>9, <1>10, <1>11, <1>12, <1>13, <1>14, <1>15 DEF KeyInv

\* Who has a session, and with which key, when a row is added or taken away.
RowSet(n, s, r) ==
    /\ \A k \in Node : \A x : Has(k, x)' <=> (Has(k, x) \/ (k = n /\ x = s))
    /\ connections'[n][s] = r
    /\ \A k \in Node : \A x :
           Has(k, x) /\ (k # n \/ x # s) => connections'[k][x] = connections[k][x]

KeySet(n, s, v) ==
    /\ \A k \in Node : \A x :
           x \in DOMAIN encryption'[k] <=> (x \in DOMAIN encryption[k] \/ (k = n /\ x = s))
    /\ encryption'[n][s] = v
    /\ \A k \in Node : \A x \in DOMAIN encryption[k] :
           (k # n \/ x # s) => encryption'[k][x] = encryption[k][x]

RowGone(n, s) ==
    /\ \A k \in Node : \A x : Has(k, x)' <=> (Has(k, x) /\ (k # n \/ x # s))
    /\ \A k \in Node : \A x :
           Has(k, x) /\ (k # n \/ x # s) => connections'[k][x] = connections[k][x]

KeyGone(n, s) ==
    /\ \A k \in Node : \A x :
           x \in DOMAIN encryption'[k] <=> (x \in DOMAIN encryption[k] /\ (k # n \/ x # s))
    /\ \A k \in Node : \A x \in DOMAIN encryption[k] :
           (k # n \/ x # s) => encryption'[k][x] = encryption[k][x]

LEMMA HasAdded ==
    ASSUME Types, NEW n \in Node, NEW s, NEW r,
           connections' = [connections EXCEPT ![n] = With(@, s, r)]
    PROVE  RowSet(n, s, r)
<1> DEFINE t == With(connections[n], s, r)
<1>1. /\ \A k \in Node : k # n => connections'[k] = connections[k]
      /\ connections'[n] = t
  BY DEF Types, ConnectionsTyped
<1>2. DOMAIN t = DOMAIN connections[n] \cup {s}
  BY DEF With
<1>3. t[s] = r
  BY DEF With
<1>4. \A y \in DOMAIN connections[n] : y # s => t[y] = connections[n][y]
  BY DEF With
<1> HIDE DEF t
<1> QED
  BY <1>1, <1>2, <1>3, <1>4 DEF Has, RowSet

LEMMA KeyOfAdded ==
    ASSUME Types, NEW n \in Node, NEW s, NEW v,
           encryption' = [encryption EXCEPT ![n] = With(@, s, v)]
    PROVE  KeySet(n, s, v)
<1> DEFINE t == With(encryption[n], s, v)
<1>1. /\ \A k \in Node : k # n => encryption'[k] = encryption[k]
      /\ encryption'[n] = t
  BY DEF Types, KeysTyped
<1>2. DOMAIN t = DOMAIN encryption[n] \cup {s}
  BY DEF With
<1>3. t[s] = v
  BY DEF With
<1>4. \A y \in DOMAIN encryption[n] : y # s => t[y] = encryption[n][y]
  BY DEF With
<1> HIDE DEF t
<1> QED
  BY <1>1, <1>2, <1>3, <1>4 DEF KeySet

LEMMA HasDropped ==
    ASSUME Types, NEW n \in Node, NEW s,
           connections' = [connections EXCEPT ![n] = Without(@, s)]
    PROVE  RowGone(n, s)
<1> DEFINE t == Without(connections[n], s)
<1>1. /\ \A k \in Node : k # n => connections'[k] = connections[k]
      /\ connections'[n] = t
  BY DEF Types, ConnectionsTyped
<1>2. /\ DOMAIN t = DOMAIN connections[n] \ {s}
      /\ \A y \in DOMAIN connections[n] : y # s => t[y] = connections[n][y]
  BY WithoutFacts, Zenon
<1> HIDE DEF t
<1> QED
  BY <1>1, <1>2 DEF Has, RowGone

LEMMA KeyOfDropped ==
    ASSUME Types, NEW n \in Node, NEW s,
           encryption' = [encryption EXCEPT ![n] = Without(@, s)]
    PROVE  KeyGone(n, s)
<1> DEFINE t == Without(encryption[n], s)
<1>1. /\ \A k \in Node : k # n => encryption'[k] = encryption[k]
      /\ encryption'[n] = t
  BY DEF Types, KeysTyped
<1>2. /\ DOMAIN t = DOMAIN encryption[n] \ {s}
      /\ \A y \in DOMAIN encryption[n] : y # s => t[y] = encryption[n][y]
  BY WithoutFacts, Zenon
<1> HIDE DEF t
<1> QED
  BY <1>1, <1>2 DEF KeyGone

\* The peer approves: a Hello whose id is in use gets an id of its own.
LEMMA ApproveKeys ==
    ASSUME Types, KeyInv, NEW n \in Node, NEW t \in handling[n], AppApprove(n, t)
    PROVE  KeyInv'
<1> DEFINE m == t.hello
<1>1. PICK s \in SessionId :
          /\ s = IF Has(n, m.session) THEN NewSessionId ELSE m.session
          /\ handling' = [handling EXCEPT ![n] =
                 (@ \ {t}) \cup {Task([m EXCEPT !.session = s], t.copy, "create")}]
  BY DEF AppApprove
<1>2. /\ UNCHANGED <<net, handshakes, connections, encryption, held, closers, promoted, reused>>
      /\ t.step = "asked"
  BY DEF AppApprove, tableVars, appVars, historyVars
<1> DEFINE q == [m EXCEPT !.session = s]
           u == Task(q, t.copy, "create")
<1>3. /\ Hello(m) /\ m \in Message /\ Fits(n, t) /\ m.src[1] # m.dst[1]
      /\ DOMAIN handling = Node
  <2>1. Hello(m)
    BY DEF Hello
  <2> QED
    BY <2>1, HelloFacts DEF KeyInv, HelloShape, Types, HandlingTyped
<1>4. /\ q.src = m.src /\ q.dst = m.dst /\ q.hid = m.hid /\ q.key = m.key /\ q.session = s
      /\ s = m.session => q = m
      /\ u.hello = q /\ u.step = "create"
  BY <1>3 DEF Message, Task
<1>5. handling' = [handling EXCEPT ![n] = (@ \ {t}) \cup {u}]
  BY <1>1
<1>6. m.dst[1] = n /\ (Live(m.hid) => m.key = 0) /\ Peer(q) = Peer(m)
  BY <1>2, <1>3, <1>4 DEF Fits, Receiving, Peer
<1> HIDE DEF q, u, m
<1>7. Fits(n, u)
  BY <1>4, <1>6 DEF Fits, Receiving
<1>8. \A k \in Node : \A v \in handling'[k] : v \in handling[k] \/ (k = n /\ v = u)
  BY <1>3, <1>5
<1>9. CASE s = m.session
  <2>1. Hello(u.hello) /\ u.step # "key"
    BY <1>3, <1>4, <1>9
  <2>2. \A k \in Node : \A v \in handling'[k] :
            v \in handling[k] \/ (Fits(k, v) /\ Hello(v.hello) /\ v.step # "key")
    BY <1>7, <1>8, <2>1
  <2> QED
    BY <1>2, <2>2, TaskKeys
<1>10. CASE s = NewSessionId
  <2>1. \A y : Hello(y)' => Hello(y) \/ y = q
    BY <1>2, <1>4, <1>8 DEF Hello
  <2>2. /\ \A y : Hello(y) => y.session # s
        /\ \A k \in Node : ~ Has(k, s)
        /\ \A y \in net : y.session # s
        /\ s \notin promoted
        /\ \A k \in Node : Keying(k, s) = {}
    <3>1. \A y : Hello(y) => y.session # s
      BY <1>10, HelloFacts, FreshIds
    <3>2. \A k \in Node : ~ Has(k, s)
      BY <1>10, FreshIds DEF Types, ConnectionsTyped, Has
    <3>3. (\A y \in net : y.session # s) /\ s \notin promoted
      BY <1>10, FreshIds DEF Types, NetTyped, Message, HistoryTyped
    <3>4. \A k \in Node : Keying(k, s) = {}
      BY <3>1 DEF Keying, Hello
    <3> QED
      BY <3>1, <3>2, <3>3, <3>4
  <2>3. \A k \in Node : \A y : Keying(k, y)' \subseteq Keying(k, y)
    BY <1>4, <1>8 DEF Keying
  <2>4. HelloShape'
    <3>1. \A k \in Node : \A v \in handling'[k] : Fits(k, v)
      BY <1>7, <1>8 DEF KeyInv, HelloShape
    <3>2. \A k \in Node : \A v \in handling'[k] : Fits(k, v)'
      BY <1>2, <3>1 DEF Fits, Live
    <3>3. \A y : Hello(y)' => y.src[1] # y.dst[1]
      BY <1>3, <1>4, <2>1 DEF KeyInv, HelloShape
    <3> QED
      BY <3>2, <3>3 DEF HelloShape
  <2>5. FromInitiator'
    <3> SUFFICES ASSUME NEW k \in Node, NEW h \in handshakes[k], NEW y, Hello(y) \/ y = q,
                        y.hid = h.id
                 PROVE  IF y.key = 0 THEN y.src[1] = k ELSE y.dst[1] = k
      BY <1>2, <2>1 DEF FromInitiator
    <3> QED
      BY <1>3, <1>4 DEF KeyInv, FromInitiator
  <2>6. SameHandshake'
    BY <1>2, <1>4, <2>1, <2>2 DEF KeyInv, SameHandshake
  <2>7. LiveAtPeer'
    <3> SUFFICES ASSUME NEW y, Hello(y)', Live(y.hid), y.session \notin reused
                 PROVE  AtPeer(y)'
      BY <1>2 DEF LiveAtPeer, Live
    <3>1. CASE Hello(y)
      <4>1. AtPeer(y) /\ y.session # s /\ Peer(y) \in Node
        BY <2>2, <3>1, HelloFacts DEF KeyInv, LiveAtPeer
      <4>2. \A k : Hello(k)' /\ k.session = y.session => Hello(k)
        BY <1>4, <2>1, <4>1
      <4>3. Answered(y) => Answered(y)'
        BY <1>2, <2>3 DEF Answered, Peer, Has
      <4>4. \A k \in Node : \A v \in Keying(k, y.session)' :
                Has(k, y.session)' /\ \A w \in Keying(k, y.session)' : w = v
        BY <1>2, <2>3, <4>1 DEF AtPeer, Has
      <4> QED
        BY <1>2, <4>1, <4>2, <4>3, <4>4 DEF AtPeer, Peer, Has
    <3>2. CASE y = q
      <4>1. \A k : Hello(k)' /\ k.session = s => k = q
        BY <2>1, <2>2
      <4>2. q.key = 0
        BY <1>4, <1>6, <3>2
      <4>3. \A k \in Node : Keying(k, s)' = {}
        BY <2>2, <2>3
      <4> QED
        BY <1>2, <1>4, <2>2, <3>2, <4>1, <4>2, <4>3 DEF AtPeer, Has
    <3> QED
      BY <2>1, <3>1, <3>2
  <2>8. KeyingFirst'
    BY <1>2, <1>4, <1>8 DEF KeyInv, KeyingFirst
  <2>9. IdsUnique' /\ PromotedKeys' /\ ClosedWerePromoted' /\ ClosedStayAway'
    BY <1>2 DEF KeyInv, IdsUnique, PromotedKeys, ClosedWerePromoted, ClosedStayAway, Has
  <2> QED
    BY <2>4, <2>5, <2>6, <2>7, <2>8, <2>9 DEF KeyInv
<1> QED
  BY <1>1, <1>9, <1>10

\* What the steps of a task that creates a session and its key share: the id of
\* a live handshake is not one that an older answer has a key for.
LEMMA ReceiverFacts ==
    ASSUME Types, KeyInv, NEW n \in Node, NEW t \in handling[n],
           t.step \in {"create", "key"}, t.hello.session \notin reused
    PROVE  /\ Hello(t.hello) /\ t.hello.dst[1] = n
           /\ Live(t.hello.hid) =>
                  AtPeer(t.hello) /\ t.hello.key = 0 /\ Peer(t.hello) = n
           /\ \A x : Hello(x) /\ x.session = t.hello.session =>
                  x.hid = t.hello.hid /\ (Live(x.hid) => AtPeer(x) /\ Peer(x) = n)
<1> DEFINE m == t.hello
<1>1. Hello(m)
  BY DEF Hello
<1>2. m.dst[1] = n /\ (Live(m.hid) => m.key = 0)
  BY DEF KeyInv, HelloShape, Fits, Receiving
<1>3. Live(m.hid) => AtPeer(m) /\ Peer(m) = n
  BY <1>1, <1>2 DEF KeyInv, LiveAtPeer, Peer
<1>4. \A x : Hello(x) /\ x.session = m.session => x.hid = m.hid
  BY <1>1 DEF KeyInv, SameHandshake
<1>5. \A x : Hello(x) /\ x.session = m.session /\ Live(x.hid) => AtPeer(x) /\ Peer(x) = n
  BY <1>3, <1>4 DEF KeyInv, LiveAtPeer, AtPeer
<1> QED
  BY <1>1, <1>2, <1>3, <1>4, <1>5

\* new_session: the peer is the only one that has the session, and has no key
\* for it yet.
LEMMA CreateKeys ==
    ASSUME Types, KeyInv, NEW n \in Node, NEW t \in handling[n], CreateSession(n, t)
    PROVE  KeyInv'
<1> DEFINE m == t.hello
           s == m.session
           u == [t EXCEPT !.step = "key"]
<1>1. /\ UNCHANGED <<net, handshakes, encryption, held, closers, promoted>>
      /\ handling' = [handling EXCEPT ![n] = (@ \ {t}) \cup {u}]
      /\ t.step = "create" /\ reused \subseteq reused' /\ reused' \subseteq reused \cup {s}
  BY DEF CreateSession, GoesOn, appVars
<1>2. u.hello = m /\ u.step = "key" /\ DOMAIN handling = Node
  BY DEF Types, HandlingTyped, Handling
<1> HIDE DEF u
<1>3. \A k \in Node : \A v \in handling'[k] : v \in handling[k] \/ (k = n /\ v = u)
  BY <1>1, <1>2
<1>4. \A x : Hello(x)' => Hello(x)
  BY <1>1, <1>2, <1>3 DEF Hello
<1>5. HelloShape'
  <2>1. Fits(n, u)
    BY <1>1, <1>2 DEF KeyInv, HelloShape, Fits, Receiving
  <2>2. \A k \in Node : \A v \in handling'[k] : Fits(k, v)
    BY <1>3, <2>1 DEF KeyInv, HelloShape
  <2>3. \A k \in Node : \A v \in handling'[k] : Fits(k, v)'
    BY <1>1, <2>2 DEF Fits, Live
  <2> QED
    BY <1>4, <2>3 DEF KeyInv, HelloShape
<1>6. IdsUnique' /\ FromInitiator' /\ SameHandshake' /\ ClosedWerePromoted'
  BY <1>1, <1>4 DEF KeyInv, IdsUnique, FromInitiator, SameHandshake, ClosedWerePromoted
<1>7. \A k \in Node : \A x : /\ x # s \/ k # n => Keying(k, x)' \subseteq Keying(k, x)
                             /\ Keying(k, x)' \subseteq Keying(k, x) \cup {u}
  BY <1>2, <1>3 DEF Keying
<1>8. /\ s \notin reused' => s \notin promoted /\ RowSet(n, s, connections'[n][s]) /\ ~ Has(n, s)
      /\ \A k \in Node : \A x : x # s \/ k # n => (Has(k, x)' <=> Has(k, x))
  <2>1. CASE Has(n, s)
    <3>1. reused' = reused \cup {s} /\ connections' = connections
      BY <2>1 DEF CreateSession
    <3> QED
      BY <3>1 DEF Has
  <2>2. CASE ~ Has(n, s)
    <3> DEFINE r == [state |-> "handshake", address |-> m.src]
    <3>1. /\ connections' = [connections EXCEPT ![n] = With(@, s, r)]
          /\ s \in promoted => s \in reused'
      BY <2>2 DEF CreateSession, NewSession
    <3> HIDE DEF r, s, m
    <3>2. RowSet(n, s, r)
      BY <3>1, HasAdded
    <3> QED
      BY <2>2, <3>1, <3>2 DEF RowSet
  <2> QED
    BY <2>1, <2>2
<1>9. KeyingFirst'
  <2> SUFFICES ASSUME NEW k \in Node, NEW v \in handling'[k], v.step = "key",
                      v.hello.session \notin reused'
               PROVE  v.hello.session \notin promoted
    BY <1>1 DEF KeyingFirst
  <2> QED
    BY <1>1, <1>2, <1>3, <1>8 DEF KeyInv, KeyingFirst
<1>10. LiveAtPeer'
  <2> SUFFICES ASSUME NEW x, Hello(x), Live(x.hid), x.session \notin reused'
               PROVE  AtPeer(x)'
    BY <1>1, <1>4 DEF LiveAtPeer, Live
  <2>1. AtPeer(x) /\ Peer(x) \in Node
    BY <1>1, HelloFacts DEF KeyInv, LiveAtPeer
  <2>2. CASE x.session # s
    <3>1. Answered(x) => Answered(x)'
      BY <1>1, <1>7, <1>8, <2>1, <2>2 DEF Answered, Peer
    <3>2. \A k \in Node : \A v \in Keying(k, x.session)' :
              Has(k, x.session)' /\ \A w \in Keying(k, x.session)' : w = v
      BY <1>7, <1>8, <2>1, <2>2 DEF AtPeer
    <3>3. \A k \in Node : Has(k, x.session)' => k = Peer(x)
      BY <1>8, <2>1, <2>2 DEF AtPeer
    <3> QED
      BY <1>1, <1>4, <2>1, <3>1, <3>2, <3>3 DEF AtPeer, Peer
  <2>3. CASE x.session = s
    <3>1. s \notin reused /\ s \notin promoted /\ RowSet(n, s, connections'[n][s]) /\ ~ Has(n, s)
      BY <1>1, <1>8, <2>3
    <3>2. Peer(x) = n
      BY <1>1, <2>3, <3>1, ReceiverFacts
    <3>3. \A k \in Node : ~ Has(k, s) /\ Keying(k, s) = {}
      BY <2>1, <2>3, <3>1, <3>2 DEF AtPeer
    <3>4. x.key = 0
      BY <2>1, <2>3, <3>3 DEF AtPeer, Answered
    <3>5. \A k \in Node : Has(k, s)' <=> k = n
      BY <3>1, <3>3 DEF RowSet
    <3>6. \A k \in Node : \A v \in Keying(k, s)' :
              Has(k, s)' /\ \A w \in Keying(k, s)' : w = v
      BY <1>7, <3>3, <3>5
    <3> QED
      BY <1>1, <1>4, <2>1, <2>3, <3>1, <3>2, <3>4, <3>5, <3>6 DEF AtPeer, Peer
  <2> QED
    BY <2>2, <2>3
<1>11. PromotedKeys'
  <2> SUFFICES ASSUME NEW x \in promoted, x \notin reused', NEW i \in Node, NEW k \in Node,
                      Has(i, x)', Has(k, x)'
               PROVE  /\ x \in DOMAIN encryption[i] /\ x \in DOMAIN encryption[k]
                      /\ encryption[i][x] = encryption[k][x]
    BY <1>1 DEF PromotedKeys
  <2>1. x # s /\ x \notin reused
    BY <1>1, <1>8
  <2>2. Has(i, x) /\ Has(k, x)
    BY <1>8, <2>1
  <2> QED
    BY <2>1, <2>2 DEF KeyInv, PromotedKeys
<1>12. ClosedStayAway'
  <2> SUFFICES ASSUME NEW k \in Node, NEW c \in closers[k], c.step = "address",
                      c.session \notin reused'
               PROVE  ~ Has(k, c.session)'
    BY <1>1 DEF ClosedStayAway
  <2>1. c.session # s /\ c.session \notin reused
    BY <1>1, <1>8 DEF KeyInv, ClosedWerePromoted
  <2> QED
    BY <1>8, <2>1 DEF KeyInv, ClosedStayAway
<1> QED
  BY <1>5, <1>6, <1>9, <1>10, <1>11, <1>12 DEF KeyInv

\* The one task that created the session makes its key, and sends it.
LEMMA InsertKeys ==
    ASSUME Types, KeyInv, NEW n \in Node, NEW t \in handling[n], InsertKey(n, t)
    PROVE  KeyInv'
<1> DEFINE m == t.hello
           s == m.session
           p == HelloPacket(n, m.src, s, m.hid, NewKey)
<1>1. /\ UNCHANGED <<handshakes, connections, held, closers, promoted, reused>>
      /\ handling' = [handling EXCEPT ![n] = @ \ {t}]
      /\ net' = net \cup {p}
      /\ t.step = "key"
  BY DEF InsertKey, Ends, appVars, historyVars
<1>2. KeySet(n, s, NewKey)
  <2>1. encryption' = [encryption EXCEPT ![n] = With(@, s, NewKey)]
    BY DEF InsertKey
  <2> HIDE DEF s
  <2> QED
    BY <2>1, KeyOfAdded
<1>3. /\ p.kind = "hello" /\ p.src[1] = n /\ p.dst[1] = m.src[1]
      /\ p.session = s /\ p.hid = m.hid /\ p.key = NewKey
  BY DEF HelloPacket, Packet, AddressOf
<1>4. /\ Hello(m) /\ m.src[1] # n /\ Fits(n, t) /\ m.dst[1] = n
      /\ DOMAIN handling = Node
  BY DEF Hello, KeyInv, HelloShape, Fits, Types, HandlingTyped
<1>5. Live(m.hid) => m.key = 0
  BY <1>1, <1>4 DEF Fits, Receiving
<1> HIDE DEF p
<1>6. NewKey # 0
  BY FreshIds
<1>7. \A k \in Node : handling'[k] \subseteq handling[k] /\ \A x : Keying(k, x)' \subseteq Keying(k, x)
  BY <1>1, <1>4 DEF Keying
<1>8. \A x : Hello(x)' => Hello(x) \/ x = p
  BY <1>1, <1>7 DEF Hello
<1>9. HelloShape'
  <2>1. \A k \in Node : \A v \in handling'[k] : Fits(k, v)
    BY <1>7 DEF KeyInv, HelloShape
  <2>2. \A k \in Node : \A v \in handling'[k] : Fits(k, v)'
    BY <1>1, <2>1 DEF Fits, Live
  <2> QED
    BY <1>3, <1>4, <1>8, <2>2 DEF KeyInv, HelloShape
<1>10. FromInitiator'
  <2> SUFFICES ASSUME NEW k \in Node, NEW h \in handshakes[k], NEW x, Hello(x) \/ x = p,
                      x.hid = h.id
               PROVE  IF x.key = 0 THEN x.src[1] = k ELSE x.dst[1] = k
    BY <1>1, <1>8 DEF FromInitiator
  <2>1. CASE Hello(x)
    BY <2>1 DEF KeyInv, FromInitiator
  <2>2. CASE x = p
    <3>1. m.key = 0 /\ m.src[1] = k
      BY <1>3, <1>4, <1>5, <2>2 DEF KeyInv, FromInitiator, Live
    <3> QED
      BY <1>3, <1>6, <2>2, <3>1
  <2> QED
    BY <2>1, <2>2
<1>11. SameHandshake'
  <2>1. \A x : Hello(x) /\ x.session = s /\ s \notin reused => x.hid = m.hid
    BY <1>4 DEF KeyInv, SameHandshake
  <2> QED
    BY <1>1, <1>3, <1>8, <2>1 DEF KeyInv, SameHandshake
<1>12. LiveAtPeer'
  <2> SUFFICES ASSUME NEW x, Hello(x)', Live(x.hid), x.session \notin reused
               PROVE  AtPeer(x)'
    BY <1>1 DEF LiveAtPeer, Live
  <2>1. \A k \in net' : k.kind = "collision" => k \in net
    BY <1>1, <1>3
  <2>2. CASE x.session # s
    <3>1. Hello(x) /\ AtPeer(x) /\ Peer(x) \in Node
      BY <1>3, <1>8, <2>2, HelloFacts DEF KeyInv, LiveAtPeer
    <3>2. \A k : Hello(k)' /\ k.session = x.session => Hello(k)
      BY <1>3, <1>8, <2>2
    <3>3. Answered(x) => Answered(x)'
      BY <1>1, <1>2, <1>7, <2>2, <3>1 DEF Answered, Peer, Has, KeySet
    <3>4. \A k \in Node : \A v \in Keying(k, x.session)' :
              Has(k, x.session)' /\ \A w \in Keying(k, x.session)' : w = v
      BY <1>1, <1>7, <3>1 DEF AtPeer, Has
    <3> QED
      BY <1>1, <2>1, <3>1, <3>2, <3>3, <3>4 DEF AtPeer, Peer, Has
  <2>3. CASE x.session = s
    <3>1. s \notin reused /\ Live(m.hid)
      BY <1>3, <1>8, <2>3, <1>1, ReceiverFacts
    <3>2. AtPeer(m) /\ m.key = 0 /\ Peer(m) = n
      BY <1>1, <3>1, ReceiverFacts
    <3>3. t \in Keying(n, s)
      BY <1>1 DEF Keying
    <3>4. Has(n, s) /\ \A k \in Node : Keying(k, s)' = {}
      <4>1. \A k \in Node : \A v \in Keying(k, s) : k = n /\ v = t
        BY <3>2, <3>3 DEF AtPeer
      <4>2. t \notin handling'[n]
        BY <1>1, <1>4
      <4> QED
        BY <1>7, <3>2, <3>3, <4>1, <4>2 DEF AtPeer, Keying
    <3>5. \A k : Hello(k) /\ k.session = s => Peer(k) = n /\ k.key = 0
      <4>1. \A k : Hello(k) /\ k.session = s => AtPeer(k) /\ Peer(k) = n
        BY <1>1, <3>1, ReceiverFacts
      <4> QED
        BY <3>3, <4>1 DEF AtPeer, Answered
    <3>6. Peer(p) = n /\ \A k : Hello(k)' /\ k.session = s => Peer(k) = n
      BY <1>3, <1>6, <1>8, <3>5 DEF Peer
    <3>7. x.key # 0 => x.key = NewKey
      BY <1>3, <1>8, <2>3, <3>5
    <3>8. Peer(x) = n
      BY <2>3, <3>6
    <3>9. x.key # 0 => Answered(x)'
      BY <1>1, <1>2, <2>3, <3>4, <3>7, <3>8 DEF Answered, Peer, Has, KeySet
    <3> QED
      BY <1>1, <2>1, <2>3, <3>2, <3>4, <3>6, <3>8, <3>9 DEF AtPeer, Peer, Has
  <2> QED
    BY <2>2, <2>3
<1>13. s \notin reused => s \notin promoted
  BY <1>1 DEF KeyInv, KeyingFirst
<1>14. PromotedKeys'
  <2> SUFFICES ASSUME NEW x \in promoted, x \notin reused, NEW i \in Node, NEW k \in Node,
                      Has(i, x), Has(k, x)
               PROVE  /\ x \in DOMAIN encryption'[i] /\ x \in DOMAIN encryption'[k]
                      /\ encryption'[i][x] = encryption'[k][x]
    BY <1>1 DEF PromotedKeys, Has
  <2>1. /\ x \in DOMAIN encryption[i] /\ x \in DOMAIN encryption[k]
        /\ encryption[i][x] = encryption[k][x]
    BY DEF KeyInv, PromotedKeys
  <2> QED
    BY <1>2, <1>13, <2>1 DEF KeySet
<1>15. IdsUnique' /\ ClosedStayAway' /\ KeyingFirst' /\ ClosedWerePromoted'
  BY <1>1, <1>3, <1>7
     DEF KeyInv, IdsUnique, ClosedStayAway, KeyingFirst, ClosedWerePromoted, Has
<1> QED
  BY <1>9, <1>10, <1>11, <1>12, <1>14, <1>15 DEF KeyInv

\* The initiator promotes its handshake: it takes the peer's key, and no other
\* answer of this session finds a handshake.
LEMMA PromoteKeys ==
    ASSUME Types, KeyInv, NEW n \in Node, NEW m, Hello(m), m.key # 0,
           NEW h \in handshakes[n], h.id = m.hid,
           Promote(n, h, m.session, m.src, m.key),
           net' = net \cup {HandshakeAckPacket(n, m.src, m.session, m.hid)},
           closers' = closers, \A k \in Node : handling'[k] \subseteq handling[k]
    PROVE  KeyInv'
<1> DEFINE s == m.session
           r == [state |-> "established", address |-> m.src]
           p == HandshakeAckPacket(n, m.src, m.session, m.hid)
<1>1. /\ handshakes' = [handshakes EXCEPT ![n] = @ \ {h}]
      /\ held' = [held EXCEPT ![n] = @ \cup {s}]
      /\ promoted' = promoted \cup {s} /\ reused' = reused
  BY DEF Promote
<1>2. RowSet(n, s, r) /\ KeySet(n, s, m.key)
  <2>1. /\ connections' = [connections EXCEPT ![n] = With(@, s, r)]
        /\ encryption' = [encryption EXCEPT ![n] = With(@, s, m.key)]
    BY DEF Promote
  <2> HIDE DEF r, s
  <2> QED
    BY <2>1, HasAdded, KeyOfAdded
<1>3. net' = net \cup {p} /\ p.kind = "ack"
  BY DEF HandshakeAckPacket, Packet
<1> HIDE DEF p, r
<1>4. \A x : Hello(x)' => Hello(x)
  BY <1>3 DEF Hello
<1>5. /\ \A k \in Node : handshakes'[k] \subseteq handshakes[k]
      /\ \A k \in Node : \A g \in handshakes'[k] : g.id # h.id
  BY <1>1 DEF KeyInv, IdsUnique, Types, HandshakesTyped
<1>6. \A i : Live(i)' => Live(i) /\ i # h.id
  BY <1>5 DEF Live
<1>7. HelloShape'
  BY <1>4, <1>6 DEF KeyInv, HelloShape, Fits
<1>14. \A k \in Node : \A x : Keying(k, x)' \subseteq Keying(k, x)
  BY DEF Keying
<1>8. IdsUnique' /\ FromInitiator' /\ SameHandshake'
  BY <1>1, <1>4, <1>5 DEF KeyInv, IdsUnique, FromInitiator, SameHandshake
<1>9. s \notin reused => AtPeer(m)
  BY DEF KeyInv, LiveAtPeer, Live
<1>10. LiveAtPeer'
  <2> SUFFICES ASSUME NEW x, Hello(x), Live(x.hid), x.hid # h.id, x.session \notin reused
               PROVE  AtPeer(x)'
    BY <1>1, <1>4, <1>6 DEF LiveAtPeer
  <2>1. x.session # s
    BY DEF KeyInv, SameHandshake
  <2>2. AtPeer(x) /\ Peer(x) \in Node
    BY HelloFacts DEF KeyInv, LiveAtPeer
  <2>3. /\ x.session \notin promoted'
        /\ \A k : Hello(k)' /\ k.session = x.session => Peer(k) = Peer(x)
        /\ \A k \in net' : k.kind = "collision" => k.session # x.session
    BY <1>1, <1>3, <1>4, <2>1, <2>2 DEF AtPeer
  <2>4. \A k \in Node : Has(k, x.session)' <=> Has(k, x.session)
    BY <1>2, <2>1 DEF RowSet
  <2>5. Answered(x) => Answered(x)'
    BY <1>2, <1>14, <2>1, <2>2 DEF Answered, Peer, RowSet, KeySet
  <2>6. \A k \in Node : \A v \in Keying(k, x.session)' :
            Has(k, x.session)' /\ \A w \in Keying(k, x.session)' : w = v
    BY <1>14, <2>2, <2>4 DEF AtPeer
  <2> QED
    BY <2>2, <2>3, <2>4, <2>5, <2>6 DEF AtPeer, Peer
<1>11. PromotedKeys'
  <2> SUFFICES ASSUME NEW x \in promoted \cup {s}, x \notin reused, NEW i \in Node,
                      NEW k \in Node, Has(i, x)', Has(k, x)'
               PROVE  /\ x \in DOMAIN encryption'[i] /\ x \in DOMAIN encryption'[k]
                      /\ encryption'[i][x] = encryption'[k][x]
    BY <1>1 DEF PromotedKeys
  <2>1. CASE x # s
    <3>1. Has(i, x) /\ Has(k, x)
      BY <1>2, <2>1 DEF RowSet
    <3>2. /\ x \in DOMAIN encryption[i] /\ x \in DOMAIN encryption[k]
          /\ encryption[i][x] = encryption[k][x]
      BY <2>1, <3>1 DEF KeyInv, PromotedKeys
    <3> QED
      BY <1>2, <2>1, <3>2 DEF KeySet
  <2>2. CASE x = s
    <3>1. \A j \in Node : Has(j, s)' => s \in DOMAIN encryption'[j] /\ encryption'[j][s] = m.key
      <4> SUFFICES ASSUME NEW j \in Node, Has(j, s)'
                   PROVE  s \in DOMAIN encryption'[j] /\ encryption'[j][s] = m.key
        OBVIOUS
      <4>1. CASE j = n
        BY <1>2, <4>1 DEF KeySet
      <4>2. CASE j # n
        <5>1. Has(j, s)
          BY <1>2, <4>2 DEF RowSet
        <5>2. j = Peer(m) /\ s \in DOMAIN encryption[j] /\ encryption[j][s] = m.key
          BY <1>9, <2>2, <5>1 DEF AtPeer, Answered
        <5> QED
          BY <1>2, <4>2, <5>2 DEF KeySet
      <4> QED
        BY <4>1, <4>2
    <3> QED
      BY <2>2, <3>1
  <2> QED
    BY <2>1, <2>2
<1>12. ClosedWerePromoted'
  <2>1. \A k \in Node : held'[k] \subseteq promoted \cup {s}
    BY <1>1 DEF KeyInv, ClosedWerePromoted, Types, HandlesTyped
  <2> QED
    BY <1>1, <1>3, <2>1 DEF KeyInv, ClosedWerePromoted
<1>13. ClosedStayAway'
  <2> SUFFICES ASSUME NEW k \in Node, NEW c \in closers[k], c.step = "address",
                      c.session \notin reused
               PROVE  ~ Has(k, c.session)'
    BY <1>1 DEF ClosedStayAway
  <2>1. c.session # s
    BY <1>9 DEF KeyInv, ClosedWerePromoted, AtPeer
  <2> QED
    BY <1>2, <2>1 DEF KeyInv, ClosedStayAway, RowSet
<1>15. KeyingFirst'
  <2> SUFFICES ASSUME NEW k \in Node, NEW t \in handling[k], t.step = "key",
                      t.hello.session \notin reused
               PROVE  t.hello.session \notin promoted \cup {s}
    BY <1>1 DEF KeyingFirst
  <2>1. t \in Keying(k, t.hello.session)
    BY DEF Keying
  <2>2. t.hello.session # s
    BY <1>9, <2>1 DEF AtPeer, Answered
  <2> QED
    BY <2>2 DEF KeyInv, KeyingFirst
<1> QED
  BY <1>7, <1>8, <1>10, <1>11, <1>12, <1>13, <1>15 DEF KeyInv

\* The task that answers a Hello as its initiator.
LEMMA InitiatorFacts ==
    ASSUME Types, KeyInv, NEW n \in Node, NEW t \in handling[n], t.step \notin Receiving,
           Ends(n, t)
    PROVE  /\ Hello(t.hello) /\ t.hello.key # 0 /\ t.hello.dst[1] = n
           /\ \A k \in Node : handling'[k] \subseteq handling[k]
<1>1. Hello(t.hello) /\ t.hello.key # 0 /\ t.hello.dst[1] = n
  BY DEF Hello, KeyInv, HelloShape, Fits
<1> QED
  BY <1>1 DEF Ends, Types, HandlingTyped

LEMMA AnsweredKeys ==
    ASSUME Types, KeyInv, NEW n \in Node, NEW t \in handling[n], HelloAnswered(n, t)
    PROVE  KeyInv'
<1> DEFINE m == t.hello
<1>1. /\ Hello(m) /\ m.key # 0
      /\ \A k \in Node : handling'[k] \subseteq handling[k]
      /\ closers' = closers
  BY InitiatorFacts DEF HelloAnswered, Receiving
<1>2. CASE /\ UNCHANGED <<connections, encryption, held, net, promoted, reused>>
           /\ \A k \in Node : handshakes'[k] \subseteq handshakes[k]
  BY <1>1, <1>2, TaskKeys
<1>3. ASSUME NEW h \in handshakes[n], h.id = m.hid, Promote(n, h, m.session, m.src, m.key),
             net' = net \cup {HandshakeAckPacket(n, m.src, m.session, m.hid)}
      PROVE  KeyInv'
  BY <1>1, <1>3, PromoteKeys
<1>4. CASE UNCHANGED <<handshakes, tableVars, appVars, keptAlive, net, historyVars>>
  BY <1>2, <1>4 DEF tableVars, appVars, historyVars
<1>5. CASE /\ \E h \in handshakes[n] : handshakes' = [handshakes EXCEPT ![n] = @ \ {h}]
           /\ UNCHANGED <<tableVars, held, keptAlive, net, historyVars>>
  <2>1. \A k \in Node : handshakes'[k] \subseteq handshakes[k]
    BY <1>5 DEF Types, HandshakesTyped
  <2> QED
    BY <1>2, <1>5, <2>1 DEF tableVars, historyVars
<1> QED
  BY <1>3, <1>4, <1>5 DEF HelloAnswered

\* The id collides at the initiator: the handshake of that id is gone, now or
\* before, and the connect goes on with an id and a handshake of its own.
LEMMA CollidesKeys ==
    ASSUME Types, KeyInv, NEW n \in Node, NEW t \in handling[n], HelloCollides(n, t)
    PROVE  KeyInv'
<1> DEFINE m == t.hello
           q == IdCollision(n, m.src, m.session, m.hid)
           p == HelloPacket(n, m.src, NewSessionId, NewHandshakeId, 0)
<1>1. /\ UNCHANGED <<connections, encryption, held, closers, promoted, reused>>
      /\ Hello(m) /\ m.key # 0 /\ m.dst[1] = n /\ m.src[1] # n
      /\ \A k \in Node : handling'[k] \subseteq handling[k]
  <2>1. UNCHANGED <<connections, encryption, held, closers, promoted, reused>>
    BY DEF HelloCollides, tableVars, appVars, historyVars
  <2>2. /\ Hello(m) /\ m.key # 0 /\ m.dst[1] = n
        /\ \A k \in Node : handling'[k] \subseteq handling[k]
    BY InitiatorFacts DEF HelloCollides, Receiving
  <2> QED
    BY <2>1, <2>2 DEF KeyInv, HelloShape
<1>2. /\ q.kind = "collision" /\ q.session = m.session
      /\ p.kind = "hello" /\ p.src[1] = n /\ p.dst[1] = m.src[1] /\ p.key = 0
      /\ p.session = NewSessionId /\ p.hid = NewHandshakeId
  BY DEF IdCollision, HelloPacket, Packet, AddressOf
<1>3. \/ /\ \A h \in handshakes[n] : h.id # m.hid
         /\ net' = net \cup {q}
         /\ handshakes' = handshakes
      \/ /\ net' = net \cup {q, p}
         /\ \E h \in handshakes[n] :
                /\ h.id = m.hid
                /\ handshakes' = [handshakes EXCEPT ![n] = (@ \ {h}) \cup {Reused(h, m.session)}]
  BY DEF HelloCollides
<1> HIDE DEF p, q, m
<1>4. \A k \in Node : \A h \in handshakes[k] : h.id \in 0 .. drawn.handshakes
  BY FreshIds DEF Types, HandshakesTyped, Handshake
<1>5. /\ \A k \in Node : \A h \in handshakes'[k] : h.id # m.hid
      /\ \A k \in Node : \A h \in handshakes'[k] :
             h \in handshakes[k] \/ (h.id = NewHandshakeId /\ k = n)
      /\ \A k \in Node : \A g, h \in handshakes'[k] : g.id = h.id => g = h
  <2>1. CASE (\A h \in handshakes[n] : h.id # m.hid) /\ handshakes' = handshakes
    BY <1>1, <2>1 DEF KeyInv, FromInitiator, IdsUnique
  <2>2. CASE \E h \in handshakes[n] :
                 /\ h.id = m.hid
                 /\ handshakes' = [handshakes EXCEPT ![n] = (@ \ {h}) \cup {Reused(h, m.session)}]
    <3>7. PICK h \in handshakes[n] :
              /\ h.id = m.hid
              /\ handshakes' = [handshakes EXCEPT ![n] = (@ \ {h}) \cup {Reused(h, m.session)}]
      BY <2>2
    <3>1. Reused(h, m.session).id = NewHandshakeId
      BY DEF Reused, Types, HandshakesTyped, Handshake
    <3>2. m.hid # NewHandshakeId
      BY <1>1, HelloFacts, FreshIds
    <3>3. \A k \in Node : handshakes'[k] =
              IF k = n THEN (handshakes[n] \ {h}) \cup {Reused(h, m.session)}
                       ELSE handshakes[k]
      BY <3>7 DEF Types, HandshakesTyped
    <3>4. \A k \in Node : \A g \in handshakes[k] : g.id # m.hid \/ (k = n /\ g = h)
      BY <3>7 DEF KeyInv, IdsUnique
    <3>5. \A k \in Node : \A g \in handshakes[k] : g.id # NewHandshakeId
      BY <1>4, FreshIds
    <3>6. \A k \in Node : \A f, g \in handshakes[k] : f.id = g.id => f = g
      BY DEF KeyInv, IdsUnique
    <3> QED
      BY <3>1, <3>2, <3>3, <3>4, <3>5, <3>6
  <2> QED
    BY <1>3, <2>1, <2>2
<1>6. /\ \A x : Hello(x)' => Hello(x) \/ x = p
      /\ \A k \in net' : k \in net \/ k = p \/ k = q
  BY <1>1, <1>2, <1>3 DEF Hello
<1>7. \A x : Hello(x) => x.hid # NewHandshakeId /\ x.session # NewSessionId
  BY HelloFacts, FreshIds
<1>8. \A x : Hello(x) /\ Live(x.hid)' => Live(x.hid) /\ x.hid # m.hid
  BY <1>5, <1>7 DEF Live
<1>16. \A k \in Node : \A y : Keying(k, y)' \subseteq Keying(k, y)
  BY <1>1 DEF Keying
<1>9. HelloShape'
  <2>1. \A k \in Node : \A v \in handling'[k] : Fits(k, v) /\ Hello(v.hello)
    BY <1>1 DEF KeyInv, HelloShape, Hello
  <2>2. \A k \in Node : \A v \in handling'[k] : Fits(k, v)'
    BY <1>8, <2>1 DEF Fits
  <2> QED
    BY <1>1, <1>2, <1>6, <2>2 DEF KeyInv, HelloShape
<1>10. IdsUnique'
  <2> SUFFICES ASSUME NEW k \in Node, NEW j \in Node, NEW g \in handshakes'[k],
                      NEW h \in handshakes'[j], g.id = h.id
               PROVE  k = j /\ g = h
    BY DEF IdsUnique
  <2>1. CASE g \in handshakes[k] /\ h \in handshakes[j]
    BY <2>1 DEF KeyInv, IdsUnique
  <2>2. CASE g \notin handshakes[k] \/ h \notin handshakes[j]
    <3>1. k = n /\ j = n
      BY <1>4, <1>5, <2>2, FreshIds
    <3> QED
      BY <1>5, <3>1
  <2> QED
    BY <2>1, <2>2
<1>11. FromInitiator'
  <2> SUFFICES ASSUME NEW k \in Node, NEW h \in handshakes'[k], NEW x, Hello(x)', x.hid = h.id
               PROVE  IF x.key = 0 THEN x.src[1] = k ELSE x.dst[1] = k
    BY DEF FromInitiator
  <2>1. CASE Hello(x)
    <3>1. h \in handshakes[k]
      BY <1>5, <1>7, <2>1
    <3> QED
      BY <2>1, <3>1 DEF KeyInv, FromInitiator
  <2>2. CASE x = p
    <3>1. k = n
      BY <1>2, <1>4, <1>5, <2>2, FreshIds
    <3> QED
      BY <1>2, <2>2, <3>1
  <2> QED
    BY <1>6, <2>1, <2>2
<1>12. SameHandshake'
  <2> SUFFICES ASSUME NEW x, NEW y, Hello(x)', Hello(y)', x.session = y.session,
                      x.session \notin reused
               PROVE  x.hid = y.hid
    BY <1>1 DEF SameHandshake
  <2> QED
    BY <1>2, <1>6, <1>7 DEF KeyInv, SameHandshake
<1>13. LiveAtPeer'
  <2> SUFFICES ASSUME NEW x, Hello(x)', Live(x.hid)', x.session \notin reused
               PROVE  AtPeer(x)'
    BY <1>1 DEF LiveAtPeer
  <2>1. CASE Hello(x)
    <3>1. AtPeer(x)
      BY <1>8, <2>1 DEF KeyInv, LiveAtPeer
    <3>2. x.session # m.session
      BY <1>1, <1>8, <2>1 DEF KeyInv, SameHandshake
    <3>3. \A k : Hello(k)' /\ k.session = x.session => Hello(k)
      BY <1>2, <1>6, <1>7, <2>1
    <3>4. \A k \in net' : k.kind = "collision" => k.session # x.session
      BY <1>2, <1>6, <3>1, <3>2 DEF AtPeer
    <3>5. Answered(x) => Answered(x)'
      BY <1>1, <1>16 DEF Answered, Peer, Has
    <3>6. \A k \in Node : \A v \in Keying(k, x.session)' :
              Has(k, x.session)' /\ \A w \in Keying(k, x.session)' : w = v
      BY <1>1, <1>16, <3>1 DEF AtPeer, Has
    <3> QED
      BY <1>1, <3>1, <3>3, <3>4, <3>5, <3>6 DEF AtPeer, Peer, Has
  <2>2. CASE x = p
    <3>1. NewSessionId \notin promoted /\ \A k \in Node : ~ Has(k, NewSessionId)
      BY FreshIds DEF Types, HistoryTyped, ConnectionsTyped, Has
    <3>2. \A k : Hello(k)' /\ k.session = NewSessionId => k = p
      BY <1>6, <1>7
    <3>3. m.session # NewSessionId
      BY <1>1, <1>7
    <3>4. \A k \in net' : k.kind = "collision" => k.session # NewSessionId
      <4>1. \A k \in net : k.session # NewSessionId
        BY FreshIds DEF Types, NetTyped, Message
      <4> QED
        BY <1>2, <1>6, <3>3, <4>1
    <3>5. \A k \in Node : Keying(k, NewSessionId) = {}
      BY <1>7 DEF Keying, Hello
    <3>6. \A k \in Node : Keying(k, x.session)' = {}
      BY <1>2, <1>16, <2>2, <3>5
    <3> QED
      BY <1>1, <1>2, <2>2, <3>1, <3>2, <3>4, <3>6 DEF AtPeer, Peer, Has
  <2> QED
    BY <1>6, <2>1, <2>2
<1>14. PromotedKeys' /\ ClosedStayAway' /\ KeyingFirst'
  BY <1>1 DEF KeyInv, PromotedKeys, ClosedStayAway, KeyingFirst, Has
<1>15. ClosedWerePromoted'
  BY <1>1, <1>2, <1>6 DEF KeyInv, ClosedWerePromoted
<1> QED
  BY <1>9, <1>10, <1>11, <1>12, <1>13, <1>14, <1>15 DEF KeyInv

\* A row of connections goes: by a collision, which says that its handshake is
\* gone, or because a session that was promoted is closed.
LEMMA RowGoneKeys ==
    ASSUME Types, KeyInv, NEW n \in Node, NEW s, RowGone(n, s),
           s \in promoted \/ \E m \in net : m.kind = "collision" /\ m.session = s,
           \A k \in Node : \A c \in closers'[k] :
               \/ c \in closers[k]
               \/ k = n /\ c.session = s /\ s \in promoted,
           UNCHANGED <<net, handling, handshakes, held, encryption, promoted, reused>>
    PROVE  KeyInv'
<1>1. \A x : Hello(x)' <=> Hello(x)
  BY DEF Hello
<1>2. /\ HelloShape' /\ IdsUnique' /\ FromInitiator' /\ SameHandshake'
      /\ KeyingFirst'
  BY <1>1
     DEF KeyInv, HelloShape, IdsUnique, FromInitiator, SameHandshake, KeyingFirst, Fits, Live
<1>3. LiveAtPeer'
  <2> SUFFICES ASSUME NEW x, Hello(x), Live(x.hid), x.session \notin reused
               PROVE  AtPeer(x)'
    BY <1>1 DEF LiveAtPeer, Live
  <2>1. AtPeer(x) /\ Peer(x) \in Node
    BY HelloFacts DEF KeyInv, LiveAtPeer
  <2>2. x.session # s
    BY <2>1 DEF AtPeer
  <2>3. \A k \in Node : Has(k, x.session)' <=> Has(k, x.session)
    BY <2>2 DEF RowGone
  <2>4. \A k \in Node : Keying(k, x.session)' = Keying(k, x.session)
    BY DEF Keying
  <2>5. Answered(x) => Answered(x)'
    BY <2>1, <2>3, <2>4 DEF Answered, Peer
  <2> QED
    BY <1>1, <2>1, <2>3, <2>4, <2>5 DEF AtPeer, Peer
<1>4. \A k \in Node : \A x : Has(k, x)' => Has(k, x)
  BY DEF RowGone
<1>5. PromotedKeys'
  BY <1>4 DEF KeyInv, PromotedKeys
<1>6. ClosedWerePromoted'
  BY DEF KeyInv, ClosedWerePromoted
<1>7. ClosedStayAway'
  <2> SUFFICES ASSUME NEW k \in Node, NEW c \in closers'[k], c.step = "address",
                      c.session \notin reused
               PROVE  ~ Has(k, c.session)'
    BY DEF ClosedStayAway
  <2>1. CASE c \in closers[k]
    BY <1>4, <2>1 DEF KeyInv, ClosedStayAway
  <2>2. CASE k = n /\ c.session = s
    BY <2>2 DEF RowGone
  <2> QED
    BY <2>1, <2>2
<1> QED
  BY <1>2, <1>3, <1>5, <1>6, <1>7 DEF KeyInv

LEMMA HandshakeKeys ==
    ASSUME Types, KeyInv, AcksArePromoted, NEW n \in Node, HandshakeStep(n)
    PROVE  KeyInv'
<1>1. ASSUME NEW m \in net, ReceiveHandshakeAck(n, m) PROVE KeyInv'
  <2>1. /\ UNCHANGED <<handling, handshakes, closers, encryption, promoted, reused>>
        /\ net' \subseteq net /\ m.session \in promoted
    BY <1>1, TakesFacts DEF ReceiveHandshakeAck, Arrived, AcksArePromoted, taskVars, historyVars
  <2>2. held' = held \/ held' = [held EXCEPT ![n] = @ \cup {m.session}]
    BY <1>1 DEF ReceiveHandshakeAck
  <2>3. \A k \in Node : held'[k] \subseteq promoted
    BY <2>1, <2>2 DEF KeyInv, ClosedWerePromoted, Types, HandlesTyped
  <2>4. \A k \in Node : \A s : Has(k, s)' <=> Has(k, s)
    <3>1. CASE connections' = connections
      BY <3>1 DEF Has
    <3>2. CASE connections' = [connections EXCEPT ![n][m.session].state = "established"]
      BY <3>2 DEF Has, Types, ConnectionsTyped
    <3> QED
      BY <1>1, <3>1, <3>2 DEF ReceiveHandshakeAck
  <2>5. \A k \in Node : \A c \in closers'[k] : c.session \in promoted /\ c \in closers[k]
    BY <2>1 DEF KeyInv, ClosedWerePromoted
  <2> QED
    BY <2>1, <2>3, <2>4, <2>5, KeysQuiet
<1>2. ASSUME NEW m \in net, ReceiveAppRejection(n, m) PROVE KeyInv'
  <2>1. /\ UNCHANGED <<handling, connections, closers, encryption, held, net,
                       promoted, reused>>
        /\ \E h : handshakes' = [handshakes EXCEPT ![n] = @ \ {h}]
    BY <1>2 DEF ReceiveAppRejection, taskVars, tableVars, historyVars
  <2>2. /\ \A k \in Node : handshakes'[k] \subseteq handshakes[k]
        /\ \A k \in Node : \A s : Has(k, s)' <=> Has(k, s)
    BY <2>1 DEF Has, Types, HandshakesTyped
  <2>3. /\ \A k \in Node : held'[k] \subseteq promoted
        /\ \A k \in Node : \A c \in closers'[k] : c.session \in promoted /\ c \in closers[k]
    BY <2>1 DEF KeyInv, ClosedWerePromoted
  <2> QED
    BY <2>1, <2>2, <2>3, KeysQuiet
<1>3. ASSUME NEW t \in handling[n], AppReject(n, t) PROVE KeyInv'
  <2>1. /\ UNCHANGED <<handshakes, connections, closers, encryption, held, promoted, reused>>
        /\ handling' = [handling EXCEPT ![n] = @ \ {t}]
        /\ net' = net \cup {AppRejection(n, t.hello.src, t.hello.session, t.hello.hid)}
    BY <1>3 DEF AppReject, Ends, tableVars, appVars, historyVars
  <2>2. \A k \in Node : handling'[k] \subseteq handling[k]
    BY <2>1 DEF Types, HandlingTyped
  <2>3. \A x \in net' : x \in net \/ x.kind = "rejected"
    BY <2>1 DEF AppRejection, Packet
  <2> QED
    BY <2>1, <2>2, <2>3, TaskKeys
<1>5. ASSUME NEW t \in handling[n], CheckId(n, t) PROVE KeyInv'
  <2>1. PICK step \in {"free", "collided"} :
            handling' = [handling EXCEPT ![n] = (@ \ {t}) \cup {[t EXCEPT !.step = step]}]
    BY <1>5 DEF CheckId, GoesOn
  <2>2. /\ UNCHANGED <<net, handshakes, connections, closers, encryption, held, promoted, reused>>
        /\ t.step = "found"
    BY <1>5 DEF CheckId, tableVars, appVars, historyVars
  <2> DEFINE u == [t EXCEPT !.step = step]
  <2>3. u.hello = t.hello /\ u.step = step /\ DOMAIN handling = Node
    BY DEF Types, HandlingTyped, Handling
  <2>4. handling' = [handling EXCEPT ![n] = (@ \ {t}) \cup {u}]
    BY <2>1
  <2> HIDE DEF u
  <2>5. Fits(n, u) /\ Hello(u.hello) /\ u.step # "key"
    BY <2>2, <2>3 DEF KeyInv, HelloShape, Fits, Receiving, Hello
  <2>6. \A k \in Node : \A v \in handling'[k] :
            v \in handling[k] \/ (Fits(k, v) /\ Hello(v.hello) /\ v.step # "key")
    BY <2>3, <2>4, <2>5
  <2> QED
    BY <2>2, <2>6, TaskKeys
<1>4. ASSUME NEW m \in net, ReceiveIdCollision(n, m) PROVE KeyInv'
  <2>1. /\ m.kind = "collision"
        /\ connections' = [connections EXCEPT ![n] = Without(@, m.session)]
        /\ UNCHANGED <<net, handling, handshakes, held, encryption, closers,
                       promoted, reused>>
    BY <1>4 DEF ReceiveIdCollision, Arrived, appVars, taskVars
  <2>2. RowGone(n, m.session)
    BY <2>1, HasDropped
  <2> QED
    BY <2>1, <2>2, RowGoneKeys
<1> QED
  BY <1>1, <1>2, <1>3, <1>4, <1>5, ConnectKeys, HelloKeys, ApproveKeys, CreateKeys,
     InsertKeys, AnsweredKeys, CollidesKeys DEF HandshakeStep

LEMMA CloseKeys ==
    ASSUME Types, KeyInv, NEW n \in Node, CloseStep(n)
    PROVE  KeyInv'
<1>1. ASSUME NEW s, NEW a, NEW step
      PROVE  Closer(s, a, step).session = s /\ Closer(s, a, step).step = step
  BY DEF Closer
<1>2. DOMAIN closers = Node /\ closers[n] \subseteq Closers
  BY DEF Types, ClosersTyped
<1>3. ASSUME NEW m \in net, ReceiveClose(n, m) PROVE KeyInv'
  <2>1. /\ UNCHANGED <<handling, handshakes, connections, encryption, held,
                       promoted, reused>>
        /\ net' \subseteq net /\ m.session \in promoted
    BY <1>3, TakesFacts
       DEF ReceiveClose, Arrived, KeyInv, ClosedWerePromoted, tableVars, appVars, historyVars
  <2>2. \/ closers' = closers
        \/ closers' = [closers EXCEPT ![n] = @ \cup {Closer(m.session, AddressOf(n), "row")}]
    BY <1>3 DEF ReceiveClose
  <2>3. \A k \in Node : \A c \in closers'[k] :
            c.session \in promoted /\ (c.step = "address" => c \in closers[k])
    BY <1>1, <1>2, <2>1, <2>2 DEF KeyInv, ClosedWerePromoted
  <2>4. \A k \in Node : held'[k] \subseteq promoted /\ \A s : Has(k, s)' <=> Has(k, s)
    BY <2>1 DEF Has, KeyInv, ClosedWerePromoted
  <2> QED
    BY <2>1, <2>3, <2>4, KeysQuiet
<1>4. ASSUME NEW s \in held[n], AppClose(n, s) PROVE KeyInv'
  <2>1. /\ UNCHANGED <<handling, handshakes, connections, encryption, net,
                       promoted, reused>>
        /\ held' = [held EXCEPT ![n] = @ \ {s}]
        /\ closers' = [closers EXCEPT ![n] = @ \cup {Closer(s, AddressOf(n), "send")}]
    BY <1>4 DEF AppClose, tableVars, historyVars
  <2>2. s \in promoted
    BY DEF KeyInv, ClosedWerePromoted
  <2>3. \A k \in Node : \A c \in closers'[k] :
            c.session \in promoted /\ (c.step = "address" => c \in closers[k])
    BY <1>1, <1>2, <2>1, <2>2 DEF KeyInv, ClosedWerePromoted
  <2>4. \A k \in Node : held'[k] \subseteq promoted
    BY <2>1 DEF KeyInv, ClosedWerePromoted, Types, HandlesTyped
  <2>5. \A k \in Node : \A x : Has(k, x)' <=> Has(k, x)
    BY <2>1 DEF Has
  <2> QED
    BY <2>1, <2>3, <2>4, <2>5, KeysQuiet
<1>5. ASSUME NEW c \in closers[n], SendClose(n, c) PROVE KeyInv'
  <2>1. /\ UNCHANGED <<handling, handshakes, connections, encryption, held,
                       promoted, reused>>
        /\ c.session \in promoted /\ c.step = "send" /\ c \in Closers
    BY <1>2, <1>5 DEF SendClose, KeyInv, ClosedWerePromoted, tableVars, appVars, historyVars
  <2>2. /\ \/ net' = net
           \/ \E d : net' = net \cup {CloseSessionPacket(n, d, c.session)}
        /\ \/ closers' = [closers EXCEPT ![n] = @ \ {c}]
           \/ closers' = [closers EXCEPT ![n] = (@ \ {c}) \cup {[c EXCEPT !.step = "row"]}]
    BY <1>5 DEF SendClose
  <2>3. \A x \in net' : x \in net \/ (x.kind = "close" /\ x.session \in promoted)
    BY <2>1, <2>2 DEF CloseSessionPacket, Packet
  <2>4. [c EXCEPT !.step = "row"].session = c.session /\ [c EXCEPT !.step = "row"].step = "row"
    BY <2>1 DEF Closers
  <2>5. \A k \in Node : \A x \in closers'[k] :
            x.session \in promoted /\ (x.step = "address" => x \in closers[k])
    BY <1>2, <2>1, <2>2, <2>4 DEF KeyInv, ClosedWerePromoted
  <2>6. \A k \in Node : held'[k] \subseteq promoted /\ \A x : Has(k, x)' <=> Has(k, x)
    BY <2>1 DEF Has, KeyInv, ClosedWerePromoted
  <2> QED
    BY <2>1, <2>3, <2>5, <2>6, KeysQuiet
<1>6. ASSUME NEW c \in closers[n], CloseConnection(n, c) PROVE KeyInv'
  <2>1. /\ UNCHANGED <<net, handling, handshakes, held, encryption, promoted, reused>>
        /\ c.session \in promoted
    BY <1>6 DEF CloseConnection, KeyInv, ClosedWerePromoted, appVars
  <2>2. CASE Has(n, c.session)
    <3> DEFINE d == Closer(c.session, connections[n][c.session].address, "address")
    <3>1. /\ connections' = [connections EXCEPT ![n] = Without(@, c.session)]
          /\ closers' = [closers EXCEPT ![n] = (@ \ {c}) \cup {d}]
      BY <1>6, <2>2 DEF CloseConnection
    <3>2. d.session = c.session
      BY <1>1
    <3> HIDE DEF d
    <3>3. \A k \in Node : \A x \in closers'[k] :
              x \in closers[k] \/ (k = n /\ x.session = c.session /\ c.session \in promoted)
      BY <1>2, <2>1, <3>1, <3>2
    <3>4. RowGone(n, c.session)
      BY <3>1, HasDropped
    <3> QED
      BY <2>1, <3>3, <3>4, RowGoneKeys
  <2>3. CASE ~ Has(n, c.session)
    <3>1. connections' = connections /\ closers' = [closers EXCEPT ![n] = @ \ {c}]
      BY <1>6, <2>3 DEF CloseConnection
    <3>2. \A k \in Node : \A x \in closers'[k] : x.session \in promoted /\ x \in closers[k]
      BY <1>2, <3>1 DEF KeyInv, ClosedWerePromoted
    <3>3. \A k \in Node : held'[k] \subseteq promoted /\ \A x : Has(k, x)' <=> Has(k, x)
      BY <2>1, <3>1 DEF Has, KeyInv, ClosedWerePromoted
    <3> QED
      BY <2>1, <3>2, <3>3, KeysQuiet
  <2> QED
    BY <2>2, <2>3
<1>7. ASSUME NEW c \in closers[n], CloseAddress(n, c) PROVE KeyInv'
  <2>1. /\ UNCHANGED <<net, handling, handshakes, held, connections, promoted, reused>>
        /\ closers' = [closers EXCEPT ![n] = @ \ {c}]
        /\ c.session \in promoted /\ c.step = "address"
    BY <1>7 DEF CloseAddress, KeyInv, ClosedWerePromoted, appVars, historyVars
  <2>2. \A k \in Node : \A x \in closers'[k] : x.session \in promoted /\ x \in closers[k]
    BY <1>2, <2>1 DEF KeyInv, ClosedWerePromoted
  <2>3. \A k \in Node : held'[k] \subseteq promoted /\ \A x : Has(k, x)' <=> Has(k, x)
    BY <2>1 DEF Has, KeyInv, ClosedWerePromoted
  <2>4. CASE encryption' = encryption
    BY <2>1, <2>2, <2>3, <2>4, KeysQuiet
  <2>5. CASE encryption' = [encryption EXCEPT ![n] = Without(@, c.session)]
    <3>1. KeyGone(n, c.session)
      BY <2>5, KeyOfDropped
    <3>2. \A x : Hello(x)' <=> Hello(x)
      BY <2>1 DEF Hello
    <3>3. /\ HelloShape' /\ IdsUnique' /\ FromInitiator' /\ SameHandshake'
          /\ KeyingFirst'
      BY <2>1, <3>2
         DEF KeyInv, HelloShape, IdsUnique, FromInitiator, SameHandshake, KeyingFirst, Fits, Live
    <3>4. LiveAtPeer'
      <4> SUFFICES ASSUME NEW x, Hello(x), Live(x.hid), x.session \notin reused
                   PROVE  AtPeer(x)'
        BY <2>1, <3>2 DEF LiveAtPeer, Live
      <4>1. AtPeer(x) /\ Peer(x) \in Node
        BY HelloFacts DEF KeyInv, LiveAtPeer
      <4>2. x.session # c.session
        BY <2>1, <4>1 DEF AtPeer
      <4>3. \A k \in Node : Keying(k, x.session)' = Keying(k, x.session)
        BY <2>1 DEF Keying
      <4>4. Answered(x) => Answered(x)'
        BY <2>3, <3>1, <4>1, <4>2, <4>3 DEF Answered, Peer, KeyGone
      <4>5. /\ x.session \notin promoted'
            /\ \A k : Hello(k)' /\ k.session = x.session => Peer(k) = Peer(x)
            /\ \A k \in net' : k.kind = "collision" => k.session # x.session
        BY <2>1, <3>2, <4>1 DEF AtPeer
      <4> QED
        BY <2>3, <4>1, <4>3, <4>4, <4>5 DEF AtPeer, Peer
    <3>5. PromotedKeys'
      <4> SUFFICES ASSUME NEW x \in promoted, x \notin reused, NEW i \in Node, NEW k \in Node,
                          Has(i, x), Has(k, x)
                   PROVE  /\ x \in DOMAIN encryption'[i] /\ x \in DOMAIN encryption'[k]
                          /\ encryption'[i][x] = encryption'[k][x]
        BY <2>1, <2>3 DEF PromotedKeys
      <4>1. /\ x \in DOMAIN encryption[i] /\ x \in DOMAIN encryption[k]
            /\ encryption[i][x] = encryption[k][x]
        BY DEF KeyInv, PromotedKeys
      <4>2. (i # n \/ x # c.session) /\ (k # n \/ x # c.session)
        BY <2>1 DEF KeyInv, ClosedStayAway
      <4> QED
        BY <3>1, <4>1, <4>2 DEF KeyGone
    <3>6. ClosedWerePromoted' /\ ClosedStayAway'
      BY <2>1, <2>2, <2>3 DEF KeyInv, ClosedWerePromoted, ClosedStayAway
    <3> QED
      BY <3>3, <3>4, <3>5, <3>6 DEF KeyInv
  <2> QED
    BY <1>7, <2>4, <2>5 DEF CloseAddress
<1> QED
  BY <1>3, <1>4, <1>5, <1>6, <1>7 DEF CloseStep

\* Moving concerns addresses only.
KeysUntouched ==
    /\ UNCHANGED <<handling, handshakes, held, closers, encryption, promoted, reused>>
    /\ \A m \in net' : m \in net \/ m.kind = "alive"

LEMMA MoveKeys ==
    ASSUME Types, KeyInv, NEW n \in Node, MoveStep(n)
    PROVE  KeyInv'
<1>1. KeysUntouched
  <2>1. CASE Move(n)
    BY <2>1 DEF Move, KeysUntouched, tableVars, appVars, taskVars, historyVars
  <2>2. ASSUME NEW s \in keptAlive[n], SendKeepAlive(n, s) PROVE KeysUntouched
    <3>1. UNCHANGED <<handling, handshakes, held, closers, encryption, promoted, reused>>
      BY <2>2 DEF SendKeepAlive, tableVars, appVars, historyVars
    <3>2. net' = net \/ \E d : net' = net \cup {KeepAlivePacket(n, d, s)}
      BY <2>2 DEF SendKeepAlive
    <3> QED
      BY <3>1, <3>2 DEF KeysUntouched, KeepAlivePacket, Packet
  <2>3. ASSUME NEW m \in net, NEW i \in Mover, ReceiveKeepAlive(n, m, i) PROVE KeysUntouched
    BY <2>3 DEF ReceiveKeepAlive, KeysUntouched, tableVars, appVars
  <2>4. ASSUME NEW i \in Mover, MoveRemove(n, i) \/ MovePush(n, i) \/ MoveConnection(n, i)
        PROVE  KeysUntouched
    BY <2>4 DEF MoveRemove, MovePush, MoveConnection, KeysUntouched, appVars, historyVars
  <2> QED
    BY <2>1, <2>2, <2>3, <2>4 DEF MoveStep
<1>2. \A k \in Node : \A s : Has(k, s)' <=> Has(k, s)
  <2>1. CASE connections' = connections
    BY <2>1 DEF Has
  <2>2. CASE \E i \in Mover : connections' =
                 [connections EXCEPT ![n][movers[n][i].session].address = movers[n][i].to]
    BY <2>2 DEF Has, Types, ConnectionsTyped
  <2> QED
    BY <2>1, <2>2
       DEF MoveStep, Move, SendKeepAlive, ReceiveKeepAlive, MoveRemove, MovePush, MoveConnection,
           tableVars
<1>3. /\ \A k \in Node : held'[k] \subseteq promoted
      /\ \A k \in Node : \A c \in closers'[k] : c.session \in promoted /\ c \in closers[k]
  BY <1>1 DEF KeysUntouched, KeyInv, ClosedWerePromoted
<1> QED
  BY <1>1, <1>2, <1>3, KeysQuiet DEF KeysUntouched

LEMMA KeysHold == Spec => [](Types /\ OpenInv /\ KeyInv)
<1>1. Init => KeyInv
  <2> SUFFICES ASSUME Init PROVE KeyInv
    OBVIOUS
  <2>1. \A m : ~ Hello(m)
    BY DEF Init, Hello
  <2>2. HelloShape /\ FromInitiator /\ SameHandshake /\ LiveAtPeer
    BY <2>1 DEF Init, HelloShape, FromInitiator, SameHandshake, LiveAtPeer
  <2> QED
    BY <2>2
       DEF Init, KeyInv, IdsUnique, KeyingFirst, PromotedKeys, ClosedWerePromoted, ClosedStayAway
<1>2. Types /\ OpenInv /\ KeyInv /\ [Next]_vars => KeyInv'
  <2> SUFFICES ASSUME Types, OpenInv, KeyInv, [Next]_vars PROVE KeyInv'
    OBVIOUS
  <2>1. CASE UNCHANGED vars
    <3>1. /\ UNCHANGED <<net, handling, handshakes, held, closers, connections,
                         encryption, promoted, reused>>
      BY <2>1 DEF vars, tableVars, taskVars, appVars, historyVars
    <3>2. \A k \in Node : \A s : Has(k, s)' <=> Has(k, s)
      BY <3>1 DEF Has
    <3>3. /\ \A k \in Node : held'[k] \subseteq promoted
          /\ \A k \in Node : \A c \in closers'[k] : c.session \in promoted /\ c \in closers[k]
      BY <3>1 DEF KeyInv, ClosedWerePromoted
    <3> QED
      BY <3>1, <3>2, <3>3, KeysQuiet
  <2>2. CASE Next
    BY <2>2, HandshakeKeys, CloseKeys, MoveKeys DEF Next, OpenInv
  <2> QED
    BY <2>1, <2>2
<1> QED
  BY TypesHold, OpenHolds, <1>1, <1>2, PTL DEF Spec

\* The two ends of a session that is established at both have one key, whichever
\* Hellos cross, come twice or collide, unless its id was drawn again, or approved
\* again late or twice at once.
THEOREM EndsHaveOneKey == Spec => []KeysAgree
<1>1. OpenInv /\ KeyInv => KeysAgree
  BY DEF OpenInv, KeyInv, PromotedKeys, KeysAgree, Established, Has
<1> QED
  BY KeysHold, <1>1, PTL

-----------------------------------------------------------------------------
(* The three tables of a node.                                             *)

RowsOf(n, s) == {r \in addressSession[n] : r[2] = s}

Moving(n, s) == {i \in Mover : movers[n][i].session = s}

Closing(n, s) == {c \in closers[n] : c.session = s /\ c.step = "address"}

\* A session that no task is about.
Settled(n, s) ==
    /\ Has(n, s) <=> s \in DOMAIN encryption[n]
    /\ RowsOf(n, s) = IF Has(n, s) THEN {<<connections[n][s].address, s>>} ELSE {}

\* One that moves: the row of connections has the address it leaves.
MovingTables(n, s, t) ==
    /\ Has(n, s) /\ s \in DOMAIN encryption[n]
    /\ connections[n][s].address = t.from
    /\ t.step = "remove" => RowsOf(n, s) = {<<t.from, s>>}
    /\ t.step = "push" => RowsOf(n, s) = {}
    /\ t.step = "row" => RowsOf(n, s) = {<<t.to, s>>}

\* One whose row of connections is gone: the others are still there.
ClosingTables(n, s, c) ==
    /\ ~ Has(n, s) /\ s \in DOMAIN encryption[n]
    /\ RowsOf(n, s) = {<<c.address, s>>}

\* One that was created and has no key yet.
KeyingTables(n, s) ==
    /\ Has(n, s) /\ s \notin DOMAIN encryption[n]
    /\ RowsOf(n, s) = {<<connections[n][s].address, s>>}

\* At most one task makes the key of a session, moves it or is past its row of
\* connections, and it knows what the tables hold.
Agree(n, s) ==
    /\ \A i, j \in Moving(n, s) : i = j
    /\ \A b, c \in Closing(n, s) : b = c
    /\ \A t, u \in Keying(n, s) : t = u
    /\ Moving(n, s) = {} \/ Closing(n, s) = {}
    /\ Keying(n, s) # {} => Moving(n, s) = {} /\ Closing(n, s) = {} /\ KeyingTables(n, s)
    /\ \A i \in Moving(n, s) : MovingTables(n, s, movers[n][i])
    /\ \A c \in Closing(n, s) : ClosingTables(n, s, c)
    /\ Moving(n, s) = {} /\ Closing(n, s) = {} /\ Keying(n, s) = {} => Settled(n, s)

TablesInv ==
    \A n \in Node, s \in SessionId :
        <<n, s>> \notin disturbed /\ s \notin reused => Agree(n, s)

\* What a step does not touch.
Untouched(n, s) ==
    /\ Has(n, s)' <=> Has(n, s)
    /\ Has(n, s) => connections'[n][s].address = connections[n][s].address
    /\ s \in DOMAIN encryption'[n] <=> s \in DOMAIN encryption[n]
    /\ RowsOf(n, s)' = RowsOf(n, s)
    /\ \A i \in Mover : \/ movers'[n][i] = movers[n][i]
                        \/ movers'[n][i].session # s /\ movers[n][i].session # s
    /\ Closing(n, s)' = Closing(n, s)
    /\ Keying(n, s)' = Keying(n, s)

LEMMA UntouchedAgrees ==
    ASSUME NEW n \in Node, NEW s, Agree(n, s), Untouched(n, s)
    PROVE  Agree(n, s)'
<1>1. Moving(n, s)' = Moving(n, s) /\ \A i \in Moving(n, s) : movers'[n][i] = movers[n][i]
  BY DEF Untouched, Moving
<1>2. Settled(n, s) => Settled(n, s)'
  BY DEF Untouched, Settled
<1>3. \A t : MovingTables(n, s, t) => MovingTables(n, s, t)'
  BY DEF Untouched, MovingTables
<1>4. \A c : ClosingTables(n, s, c) => ClosingTables(n, s, c)'
  BY DEF Untouched, ClosingTables
<1>5. Closing(n, s)' = Closing(n, s) /\ Keying(n, s)' = Keying(n, s)
  BY DEF Untouched
<1>6. \A i \in Moving(n, s)' : MovingTables(n, s, movers[n][i])'
  BY <1>1, <1>3 DEF Agree, MovingTables
<1>7. \A c \in Closing(n, s)' : ClosingTables(n, s, c)'
  BY <1>4, <1>5 DEF Agree
<1>8. KeyingTables(n, s) => KeyingTables(n, s)'
  BY DEF Untouched, KeyingTables
<1> QED
  BY <1>1, <1>2, <1>5, <1>6, <1>7, <1>8 DEF Agree

LEMMA TablesStep ==
    ASSUME TablesInv, reused \subseteq reused', disturbed \subseteq disturbed',
           \A k \in Node, s \in SessionId :
               <<k, s>> \notin disturbed' /\ s \notin reused' /\ Agree(k, s)
                   => Untouched(k, s) \/ Agree(k, s)'
    PROVE  TablesInv'
BY UntouchedAgrees DEF TablesInv

\* A step that leaves the tables and their tasks alone.
LEMMA TablesFrame ==
    ASSUME TablesInv, reused \subseteq reused', disturbed \subseteq disturbed',
           UNCHANGED <<connections, addressSession, encryption, movers>>,
           \A k \in Node, s \in SessionId :
               Closing(k, s)' = Closing(k, s) /\ Keying(k, s)' = Keying(k, s)
    PROVE  TablesInv'
<1>1. \A k \in Node, s \in SessionId : Untouched(k, s)
  BY DEF Untouched, Has, RowsOf
<1> QED
  BY <1>1, TablesStep

\* What a task does to one session's tables another session does not notice.
LEMMA OthersUntouched ==
    ASSUME Types, NEW n \in Node, NEW s, NEW r, NEW a, NEW x, RowSet(n, s, r),
           addressSession' = [addressSession EXCEPT ![n] = @ \cup {<<a, x>>}],
           movers' = movers, closers' = closers,
           NEW k \in Node, NEW y, k # n \/ (y # s /\ y # x),
           y \in DOMAIN encryption'[k] <=> y \in DOMAIN encryption[k],
           Keying(k, y)' = Keying(k, y)
    PROVE  Untouched(k, y)
<1>1. addressSession'[k] = IF k = n THEN addressSession[n] \cup {<<a, x>>} ELSE addressSession[k]
  BY DEF Types, AddressesTyped
<1>2. <<a, x>>[2] = x
  OBVIOUS
<1>3. RowsOf(k, y)' = RowsOf(k, y)
  BY <1>1, <1>2 DEF RowsOf
<1>4. Has(k, y)' <=> Has(k, y)
  BY DEF RowSet
<1>5. Has(k, y) => connections'[k][y].address = connections[k][y].address
  BY DEF RowSet
<1> QED
  BY <1>3, <1>4, <1>5 DEF Untouched, Closing

\* A session that was never promoted and has no row here has no other row.
LEMMA NothingHere ==
    ASSUME KeyInv, NEW n \in Node, NEW s, Agree(n, s), s \notin promoted, ~ Has(n, s)
    PROVE  /\ Closing(n, s) = {} /\ Moving(n, s) = {} /\ Keying(n, s) = {}
           /\ RowsOf(n, s) = {} /\ s \notin DOMAIN encryption[n]
<1>1. Closing(n, s) = {}
  BY DEF Closing, KeyInv, ClosedWerePromoted
<1>2. Moving(n, s) = {} /\ Keying(n, s) = {}
  BY DEF Agree, MovingTables, KeyingTables
<1> QED
  BY <1>1, <1>2 DEF Agree, Settled

\* new_session: the key is still to come.
LEMMA CreateTables ==
    ASSUME Types, KeyInv, TablesInv, NEW n \in Node, NEW t \in handling[n], CreateSession(n, t)
    PROVE  TablesInv'
<1>0. PICK s, u, a, r : /\ s = t.hello.session /\ u = [t EXCEPT !.step = "key"]
                        /\ a = t.hello.src /\ r = [state |-> "handshake", address |-> a]
  OBVIOUS
<1>1. /\ UNCHANGED <<encryption, movers, closers, disturbed>>
      /\ t.step = "create" /\ handling' = [handling EXCEPT ![n] = (@ \ {t}) \cup {u}]
  BY <1>0 DEF CreateSession, GoesOn
<1>2. u.step = "key" /\ u.hello.session = s /\ HandlingTyped
  BY <1>0 DEF Types, HandlingTyped, Handling
<1>3. \A k \in Node, x \in SessionId : k # n \/ x # s => Keying(k, x)' = Keying(k, x)
  BY <1>1, <1>2 DEF HandlingTyped, Keying
<1>4. CASE ~ Has(n, s)
  <2>1. /\ NewSession(n, s, a)
        /\ reused' = IF s \in promoted THEN reused \cup {s} ELSE reused
    BY <1>0, <1>4 DEF CreateSession
  <2>2. addressSession' = [addressSession EXCEPT ![n] = @ \cup {<<a, s>>}]
    BY <2>1 DEF NewSession
  <2>3. connections' = [connections EXCEPT ![n] = With(@, s, r)]
    BY <1>0, <2>1 DEF NewSession
  <2>4. RowSet(n, s, r) /\ r.address = a
    BY <1>0, <2>3, HasAdded
  <2>5. ASSUME NEW k \in Node, NEW x \in SessionId, x \notin reused', Agree(k, x)
        PROVE  Untouched(k, x) \/ Agree(k, x)'
    <3>1. CASE k = n /\ x = s
      <4>1. s \notin promoted
        BY <2>1, <2>5, <3>1
      <4>2. /\ Closing(n, s) = {} /\ Moving(n, s) = {} /\ Keying(n, s) = {}
            /\ RowsOf(n, s) = {} /\ s \notin DOMAIN encryption[n]
        BY <1>4, <2>5, <3>1, <4>1, NothingHere
      <4>3. Closing(n, s)' = {} /\ Moving(n, s)' = {}
        BY <1>1, <4>2 DEF Closing, Moving
      <4>4. handling'[n] = (handling[n] \ {t}) \cup {u}
        BY <1>1, <1>2 DEF HandlingTyped
      <4>5. Keying(n, s)' = {u}
        BY <1>2, <4>2, <4>4 DEF Keying
      <4>6. addressSession'[n] = addressSession[n] \cup {<<a, s>>} /\ <<a, s>>[2] = s
        BY <2>2 DEF Types, AddressesTyped
      <4>7. RowsOf(n, s)' = {<<a, s>>}
        BY <4>2, <4>6 DEF RowsOf
      <4>8. KeyingTables(n, s)'
        BY <1>1, <2>4, <4>2, <4>7 DEF KeyingTables, RowSet
      <4>9. Agree(n, s)'
        BY <4>3, <4>5, <4>8 DEF Agree
      <4> QED
        BY <3>1, <4>9
    <3>2. CASE k # n \/ x # s
      BY <1>1, <1>3, <2>2, <2>4, <3>2, OthersUntouched
    <3> QED
      BY <3>1, <3>2
  <2> QED
    BY <1>1, <2>1, <2>5, TablesStep
<1>5. CASE Has(n, s)
  <2>1. UNCHANGED <<connections, addressSession>> /\ reused' = reused \cup {s}
    BY <1>0, <1>5 DEF CreateSession
  <2>2. ASSUME NEW k \in Node, NEW x \in SessionId, x \notin reused'
        PROVE  Untouched(k, x)
    <3>1. Keying(k, x)' = Keying(k, x)
      BY <1>3, <2>1, <2>2
    <3> QED
      BY <1>1, <2>1, <3>1 DEF Untouched, Has, RowsOf, Closing
  <2> QED
    BY <1>1, <2>1, <2>2, TablesStep
<1> QED
  BY <1>4, <1>5

\* The key comes, and the task ends.
LEMMA InsertKeyTables ==
    ASSUME Types, TablesInv, NEW n \in Node, NEW t \in handling[n], InsertKey(n, t)
    PROVE  TablesInv'
<1>0. PICK s : s = t.hello.session
  OBVIOUS
<1>1. /\ UNCHANGED <<connections, addressSession, movers, closers, reused, disturbed>>
      /\ t.step = "key" /\ handling' = [handling EXCEPT ![n] = @ \ {t}]
      /\ encryption' = [encryption EXCEPT ![n] = With(@, s, NewKey)]
  BY <1>0 DEF InsertKey, Ends, historyVars
<1>2. KeySet(n, s, NewKey) /\ HandlingTyped
  BY <1>1, KeyOfAdded DEF Types
<1>3. ASSUME NEW k \in Node, NEW x \in SessionId, Agree(k, x)
      PROVE  Untouched(k, x) \/ Agree(k, x)'
  <2>1. CASE k # n \/ x # s
    <3>1. Keying(k, x)' = Keying(k, x)
      BY <1>0, <1>1, <1>2, <2>1 DEF HandlingTyped, Keying
    <3>2. x \in DOMAIN encryption'[k] <=> x \in DOMAIN encryption[k]
      BY <1>2, <2>1 DEF KeySet
    <3> QED
      BY <1>1, <3>1, <3>2 DEF Untouched, Has, RowsOf, Closing
  <2>2. CASE k = n /\ x = s
    <3>1. t \in Keying(n, s)
      BY <1>0, <1>1 DEF Keying
    <3>2. /\ Keying(n, s) = {t} /\ Moving(n, s) = {} /\ Closing(n, s) = {}
          /\ KeyingTables(n, s)
      BY <1>3, <2>2, <3>1 DEF Agree
    <3>3. handling'[n] = handling[n] \ {t}
      BY <1>1, <1>2 DEF HandlingTyped
    <3>4. Keying(n, s)' = {} /\ Moving(n, s)' = {} /\ Closing(n, s)' = {}
      BY <1>1, <3>2, <3>3 DEF Keying, Moving, Closing
    <3>5. s \in DOMAIN encryption'[n]
      BY <1>2 DEF KeySet
    <3>6. Settled(n, s)'
      BY <1>1, <3>2, <3>5 DEF KeyingTables, Settled, Has, RowsOf
    <3>7. Agree(n, s)'
      BY <3>4, <3>6 DEF Agree
    <3> QED
      BY <2>2, <3>7
  <2> QED
    BY <2>1, <2>2
<1> QED
  BY <1>1, <1>3, TablesStep

LEMMA PromoteTables ==
    ASSUME Types, KeyInv, TablesInv, NEW n \in Node, NEW m, Hello(m), ~ Has(n, m.session),
           NEW h \in handshakes[n], h.id = m.hid,
           Promote(n, h, m.session, m.src, m.key), UNCHANGED <<movers, closers>>,
           \A k \in Node, x \in SessionId : Keying(k, x)' = Keying(k, x)
    PROVE  TablesInv'
<1> DEFINE s == m.session
           r == [state |-> "established", address |-> m.src]
<1>1. /\ addressSession' = [addressSession EXCEPT ![n] = @ \cup {<<m.src, h.session>>}]
      /\ reused' = reused
      /\ disturbed' = IF s = h.session THEN disturbed
                      ELSE disturbed \cup {<<n, s>>, <<n, h.session>>}
  BY DEF Promote
<1>2. RowSet(n, s, r) /\ KeySet(n, s, m.key) /\ r.address = m.src
  <2>1. /\ connections' = [connections EXCEPT ![n] = With(@, s, r)]
        /\ encryption' = [encryption EXCEPT ![n] = With(@, s, m.key)]
        /\ r.address = m.src
    BY DEF Promote
  <2> HIDE DEF r, s
  <2> QED
    BY <2>1, HasAdded, KeyOfAdded
<1> HIDE DEF r
<1>3. ASSUME NEW k \in Node, NEW x \in SessionId, <<k, x>> \notin disturbed', x \notin reused',
             Agree(k, x)
      PROVE  Untouched(k, x) \/ Agree(k, x)'
  <2>1. CASE k = n /\ x = s
    <3>1. h.session = s
      BY <1>1, <1>3, <2>1
    <3>2. s \notin promoted
      BY <1>1, <1>3, <2>1 DEF KeyInv, LiveAtPeer, Live, AtPeer
    <3>3. addressSession' = [addressSession EXCEPT ![n] = @ \cup {<<m.src, s>>}]
      BY <1>1, <3>1
    <3> DEFINE a == m.src
               v == m.key
    <3>4. /\ Agree(n, s) /\ ~ Has(n, s)
          /\ RowSet(n, s, r) /\ KeySet(n, s, v) /\ r.address = a
          /\ addressSession' = [addressSession EXCEPT ![n] = @ \cup {<<a, s>>}]
          /\ Keying(n, s)' = Keying(n, s)
      BY <1>2, <1>3, <2>1, <3>3
    <3> HIDE DEF s, a, v
    <3>5. /\ Closing(n, s) = {} /\ Moving(n, s) = {} /\ Keying(n, s) = {}
          /\ RowsOf(n, s) = {}
      BY <3>2, <3>4, NothingHere
    <3>6. Closing(n, s)' = {} /\ Moving(n, s)' = {} /\ Keying(n, s)' = {}
      BY <3>4, <3>5 DEF Closing, Moving
    <3>7. addressSession'[n] = addressSession[n] \cup {<<a, s>>} /\ <<a, s>>[2] = s
      BY <3>4 DEF Types, AddressesTyped
    <3>8. RowsOf(n, s)' = {<<a, s>>}
      BY <3>5, <3>7 DEF RowsOf
    <3>9. Has(n, s)' /\ s \in DOMAIN encryption'[n] /\ connections'[n][s].address = a
      BY <3>4 DEF RowSet, KeySet
    <3>10. Settled(n, s)'
      BY <3>8, <3>9 DEF Settled
    <3>11. Agree(n, s)'
      BY <3>6, <3>10 DEF Agree
    <3> QED
      BY <2>1, <3>11
  <2>2. CASE k # n \/ (x # s /\ x # h.session)
    <3> DEFINE y == h.session
               a == m.src
    <3>1. /\ addressSession' = [addressSession EXCEPT ![n] = @ \cup {<<a, y>>}]
          /\ k # n \/ (x # s /\ x # y)
          /\ movers' = movers /\ closers' = closers
          /\ RowSet(n, s, r) /\ Keying(k, x)' = Keying(k, x)
          /\ x \in DOMAIN encryption'[k] <=> x \in DOMAIN encryption[k]
      BY <1>1, <1>2, <2>2 DEF KeySet
    <3> HIDE DEF s, y, a
    <3>2. Untouched(k, x)
      BY <3>1, OthersUntouched
    <3> QED
      BY <3>2
  <2>3. CASE k = n /\ x # s /\ x = h.session
    BY <1>1, <1>3, <2>3
  <2> QED
    BY <2>1, <2>2, <2>3
<1>4. reused \subseteq reused' /\ disturbed \subseteq disturbed'
  BY <1>1
<1> QED
  BY <1>3, <1>4, TablesStep

LEMMA HandshakeTables ==
    ASSUME Types, KeyInv, TablesInv, NEW n \in Node, HandshakeStep(n)
    PROVE  TablesInv'
<1>1. ASSUME UNCHANGED <<tableVars, movers, closers, disturbed>>, reused \subseteq reused',
             \A k \in Node, x \in SessionId : Keying(k, x)' = Keying(k, x)
      PROVE  TablesInv'
  BY <1>1, TablesFrame DEF tableVars, Closing
<1>2. ASSUME NEW m \in Node, Connect(n, m) PROVE TablesInv'
  <2>1. UNCHANGED <<tableVars, handling, movers, closers, disturbed>> /\ reused \subseteq reused'
    BY <1>2 DEF Connect, taskVars
  <2> QED
    BY <1>1, <2>1 DEF Keying
<1>3. ASSUME NEW m \in net, ReceiveAppRejection(n, m) PROVE TablesInv'
  <2>1. UNCHANGED <<tableVars, handling, movers, closers, disturbed>> /\ reused \subseteq reused'
    BY <1>3 DEF ReceiveAppRejection, taskVars, historyVars
  <2> QED
    BY <1>1, <2>1 DEF Keying
<1>4. ASSUME NEW m \in net, ReceiveHello(n, m) PROVE TablesInv'
  <2>1. UNCHANGED <<tableVars, movers, closers, disturbed, reused>>
    BY <1>4 DEF ReceiveHello, historyVars
  <2>2. PICK step \in {"asked", "found"} :
            handling' = [handling EXCEPT ![n] = @ \cup {Task(m, accidents, step)}]
    BY <1>4 DEF ReceiveHello
  <2>3. Task(m, accidents, step).step # "key"
    BY DEF Task
  <2>4. \A k \in Node, x \in SessionId : Keying(k, x)' = Keying(k, x)
    BY <2>2, <2>3 DEF Types, HandlingTyped, Keying
  <2> QED
    BY <1>1, <2>1, <2>4
<1>5. ASSUME NEW t \in handling[n],
             AppReject(n, t) \/ AppApprove(n, t) \/ CheckId(n, t)
             \/ HelloAnswered(n, t) \/ HelloCollides(n, t)
      PROVE  /\ t.step # "key" /\ UNCHANGED <<movers, closers>>
             /\ \A k \in Node, x \in SessionId : Keying(k, x)' = Keying(k, x)
  <2>1. t.step # "key" /\ UNCHANGED <<movers, closers>>
    BY <1>5 DEF AppReject, AppApprove, CheckId, HelloAnswered, HelloCollides
  <2>2. \/ handling' = [handling EXCEPT ![n] = @ \ {t}]
        \/ \E u : u.step # "key" /\ handling' = [handling EXCEPT ![n] = (@ \ {t}) \cup {u}]
    <3>1. CASE AppApprove(n, t)
      <4>1. PICK u : /\ handling' = [handling EXCEPT ![n] = (@ \ {t}) \cup {u}]
                     /\ \E g : u = Task(g, t.copy, "create")
        BY <3>1 DEF AppApprove
      <4>2. u.step # "key"
        BY <4>1 DEF Task
      <4> QED
        BY <4>1, <4>2
    <3>2. CASE CheckId(n, t)
      <4>1. PICK z : /\ z = IF Has(n, t.hello.session) THEN "collided" ELSE "free"
                     /\ handling' = [handling EXCEPT ![n] = (@ \ {t}) \cup {[t EXCEPT !.step = z]}]
        BY <3>2 DEF CheckId, GoesOn
      <4>2. [t EXCEPT !.step = z].step = z /\ z # "key"
        BY <4>1 DEF Types, HandlingTyped, Handling
      <4> QED
        BY <4>1, <4>2
    <3>3. CASE AppReject(n, t) \/ HelloAnswered(n, t) \/ HelloCollides(n, t)
      BY <3>3 DEF AppReject, HelloAnswered, HelloCollides, Ends
    <3> QED
      BY <1>5, <3>1, <3>2, <3>3
  <2>3. \A k \in Node, x \in SessionId : Keying(k, x)' = Keying(k, x)
    BY <2>1, <2>2 DEF Types, HandlingTyped, Keying
  <2> QED
    BY <2>1, <2>3
<1>6. ASSUME NEW t \in handling[n],
             AppReject(n, t) \/ AppApprove(n, t) \/ CheckId(n, t) \/ HelloCollides(n, t)
      PROVE  TablesInv'
  <2>1. UNCHANGED <<tableVars, movers, closers, disturbed, reused>>
    BY <1>6 DEF AppReject, AppApprove, CheckId, HelloCollides, historyVars
  <2> QED
    BY <1>1, <1>5, <1>6, <2>1
<1>7. ASSUME NEW t \in handling[n], HelloAnswered(n, t) PROVE TablesInv'
  <2>1. CASE UNCHANGED <<tableVars, historyVars>>
    <3>1. UNCHANGED <<tableVars, movers, closers, disturbed, reused>>
      BY <1>5, <1>7, <2>1 DEF historyVars
    <3> QED
      BY <1>1, <1>5, <1>7, <3>1
  <2>2. ASSUME ~ Has(n, t.hello.session), NEW h \in handshakes[n], h.id = t.hello.hid,
               Promote(n, h, t.hello.session, t.hello.src, t.hello.key)
        PROVE  TablesInv'
    <3>1. Hello(t.hello)
      BY DEF Hello
    <3> QED
      BY <1>5, <1>7, <2>2, <3>1, PromoteTables
  <2> QED
    BY <1>7, <2>1, <2>2 DEF HelloAnswered
<1>8. ASSUME NEW m \in net, ReceiveHandshakeAck(n, m) PROVE TablesInv'
  <2>1. UNCHANGED <<addressSession, encryption, handling, movers, closers, disturbed, reused>>
    BY <1>8 DEF ReceiveHandshakeAck, taskVars, historyVars
  <2>2. \A k \in Node : \A s :
            /\ Has(k, s)' <=> Has(k, s)
            /\ Has(k, s) => connections'[k][s].address = connections[k][s].address
    <3>1. CASE connections' = connections
      BY <3>1 DEF Has
    <3>2. CASE /\ Has(n, m.session)
               /\ connections' = [connections EXCEPT ![n][m.session].state = "established"]
      <4> DEFINE x == m.session
                 e == [connections[n][x] EXCEPT !.state = "established"]
      <4>1. x \in DOMAIN connections[n] /\ connections' = [connections EXCEPT ![n][x] = e]
        BY <3>2 DEF Has
      <4>2. connections[n][x] \in Sessions
        BY <4>1 DEF Types, ConnectionsTyped
      <4>3. e.address = connections[n][x].address
        BY <4>2 DEF Sessions
      <4> HIDE DEF e, x
      <4>4. \A k \in Node : /\ DOMAIN connections'[k] = DOMAIN connections[k]
                            /\ k # n => connections'[k] = connections[k]
        BY <4>1 DEF Types, ConnectionsTyped
      <4>5. \A s \in DOMAIN connections[n] :
                connections'[n][s] = IF s = x THEN e ELSE connections[n][s]
        BY <4>1 DEF Types, ConnectionsTyped
      <4> QED
        BY <4>3, <4>4, <4>5 DEF Has
    <3> QED
      BY <1>8, <3>1, <3>2 DEF ReceiveHandshakeAck
  <2>3. \A k \in Node, s \in SessionId : Untouched(k, s)
    BY <2>1, <2>2 DEF Untouched, RowsOf, Closing, Keying
  <2> QED
    BY <2>1, <2>3, TablesStep
<1>9. ASSUME NEW m \in net, ReceiveIdCollision(n, m) PROVE TablesInv'
  <2>1. /\ connections' = [connections EXCEPT ![n] = Without(@, m.session)]
        /\ disturbed' = disturbed \cup {<<n, m.session>>}
        /\ UNCHANGED <<addressSession, encryption, handling, movers, closers, reused>>
    BY <1>9 DEF ReceiveIdCollision, taskVars
  <2>2. RowGone(n, m.session)
    BY <2>1, HasDropped
  <2>3. \A k \in Node, s \in SessionId : <<k, s>> \notin disturbed' => Untouched(k, s)
    <3> SUFFICES ASSUME NEW k \in Node, NEW s \in SessionId, k # n \/ s # m.session
                 PROVE  Untouched(k, s)
      BY <2>1
    <3>1. (Has(k, s)' <=> Has(k, s)) /\ (Has(k, s) => connections'[k][s] = connections[k][s])
      BY <2>2 DEF RowGone
    <3> QED
      BY <2>1, <3>1 DEF Untouched, RowsOf, Closing, Keying
  <2>4. reused \subseteq reused' /\ disturbed \subseteq disturbed'
    BY <2>1
  <2> QED
    BY <2>3, <2>4, TablesStep
<1>10. ASSUME NEW t \in handling[n], CreateSession(n, t) \/ InsertKey(n, t) PROVE TablesInv'
  BY <1>10, CreateTables, InsertKeyTables
<1> QED
  BY <1>2, <1>3, <1>4, <1>6, <1>7, <1>8, <1>9, <1>10 DEF HandshakeStep

\* Closing takes the row of connections, then the two others, and meets no move
\* that would put one back.
LEMMA CloseTables ==
    ASSUME Types, KeyInv, TablesInv, NEW n \in Node, CloseStep(n)
    PROVE  TablesInv'
<1>1. DOMAIN closers = Node /\ closers[n] \subseteq Closers
  BY DEF Types, ClosersTyped
<1>2. ASSUME NEW a, NEW b, NEW step
      PROVE  /\ Closer(a, b, step).session = a /\ Closer(a, b, step).address = b
             /\ Closer(a, b, step).step = step
  BY DEF Closer
<1>3. ASSUME NEW m \in net, ReceiveClose(n, m) PROVE TablesInv'
  <2>1. UNCHANGED <<connections, addressSession, encryption, handling, movers, reused, disturbed>>
    BY <1>3 DEF ReceiveClose, tableVars, historyVars
  <2>2. \/ closers' = closers
        \/ closers' = [closers EXCEPT ![n] = @ \cup {Closer(m.session, AddressOf(n), "row")}]
    BY <1>3 DEF ReceiveClose
  <2>3. \A k \in Node, s \in SessionId :
            Closing(k, s)' = Closing(k, s) /\ Keying(k, s)' = Keying(k, s)
    BY <1>1, <1>2, <2>1, <2>2 DEF Closing, Keying
  <2> QED
    BY <2>1, <2>3, TablesFrame
<1>4. ASSUME NEW x \in held[n], AppClose(n, x) PROVE TablesInv'
  <2>1. /\ UNCHANGED <<connections, addressSession, encryption, handling, movers, reused, disturbed>>
        /\ closers' = [closers EXCEPT ![n] = @ \cup {Closer(x, AddressOf(n), "send")}]
    BY <1>4 DEF AppClose, tableVars, historyVars
  <2>2. \A k \in Node, s \in SessionId :
            Closing(k, s)' = Closing(k, s) /\ Keying(k, s)' = Keying(k, s)
    BY <1>1, <1>2, <2>1 DEF Closing, Keying
  <2> QED
    BY <2>1, <2>2, TablesFrame
<1>5. ASSUME NEW c \in closers[n], SendClose(n, c) PROVE TablesInv'
  <2>1. /\ UNCHANGED <<connections, addressSession, encryption, handling, movers, reused, disturbed>>
        /\ c.step = "send"
        /\ \/ closers' = [closers EXCEPT ![n] = @ \ {c}]
           \/ closers' = [closers EXCEPT ![n] = (@ \ {c}) \cup {[c EXCEPT !.step = "row"]}]
    BY <1>5 DEF SendClose, tableVars, historyVars
  <2>2. [c EXCEPT !.step = "row"].step = "row"
    BY <1>1 DEF Closers
  <2>3. \A k \in Node, s \in SessionId :
            Closing(k, s)' = Closing(k, s) /\ Keying(k, s)' = Keying(k, s)
    BY <1>1, <2>1, <2>2 DEF Closing, Keying
  <2> QED
    BY <2>1, <2>3, TablesFrame
<1>6. ASSUME NEW c \in closers[n], CloseConnection(n, c) PROVE TablesInv'
  <2>1. UNCHANGED <<addressSession, encryption, handling, movers, reused>> /\ c.step = "row"
    BY <1>6 DEF CloseConnection
  <2>2. CASE ~ Has(n, c.session)
    <3>1. /\ UNCHANGED <<connections, disturbed>>
          /\ closers' = [closers EXCEPT ![n] = @ \ {c}]
      BY <1>6, <2>2 DEF CloseConnection
    <3>2. \A k \in Node, s \in SessionId :
            Closing(k, s)' = Closing(k, s) /\ Keying(k, s)' = Keying(k, s)
      BY <1>1, <2>1, <3>1 DEF Closing, Keying
    <3> QED
      BY <2>1, <3>1, <3>2, TablesFrame
  <2>3. CASE Has(n, c.session)
    <3> DEFINE x == c.session
    <3>0. PICK d : d = Closer(x, connections[n][x].address, "address")
      OBVIOUS
    <3>1. /\ connections' = [connections EXCEPT ![n] = Without(@, x)]
          /\ closers' = [closers EXCEPT ![n] = (@ \ {c}) \cup {d}]
          /\ disturbed' = IF \E i \in Mover : movers[n][i].session = x
                          THEN disturbed \cup {<<n, x>>} ELSE disturbed
      BY <1>6, <2>3, <3>0 DEF CloseConnection
    <3>2. d.session = x /\ d.step = "address" /\ d.address = connections[n][x].address
      BY <1>2, <3>0
    <3>3. RowGone(n, x) /\ Has(n, x)
      BY <2>3, <3>1, HasDropped
    <3> HIDE DEF x
    <3>4. /\ \A k \in Node : k # n => closers'[k] = closers[k]
          /\ closers'[n] = (closers[n] \ {c}) \cup {d}
      BY <1>1, <3>1
    <3>5. ASSUME NEW k \in Node, NEW s \in SessionId, <<k, s>> \notin disturbed', s \notin reused',
                 Agree(k, s)
          PROVE  Untouched(k, s) \/ Agree(k, s)'
      <4>1. CASE k # n \/ s # x
        <5>1. Closing(k, s)' = Closing(k, s)
          BY <2>1, <3>2, <3>4, <4>1 DEF Closing
        <5>2. (Has(k, s)' <=> Has(k, s)) /\ (Has(k, s) => connections'[k][s] = connections[k][s])
          BY <3>3, <4>1 DEF RowGone
        <5> QED
          BY <2>1, <5>1, <5>2 DEF Untouched, RowsOf, Keying
      <4>2. CASE k = n /\ s = x
        <5>1. Moving(n, x) = {} /\ Moving(n, x)' = {}
          BY <2>1, <3>1, <3>5, <4>2 DEF Moving
        <5>2. Closing(n, x) = {}
          BY <3>3, <3>5, <4>2 DEF Agree, ClosingTables
        <5>3. Keying(n, x) = {} /\ Keying(n, x)' = {}
          <6>1. x \in promoted
            BY DEF x, KeyInv, ClosedWerePromoted
          <6>2. Keying(n, x) = {}
            BY <2>1, <3>5, <4>2, <6>1 DEF KeyInv, KeyingFirst, Keying
          <6> QED
            BY <2>1, <6>2 DEF Keying
        <5>4. Settled(n, x)
          BY <3>5, <4>2, <5>1, <5>2, <5>3 DEF Agree
        <5>5. Closing(n, x)' = {d}
          BY <3>2, <3>4, <5>2 DEF Closing
        <5>6. ~ Has(n, x)' /\ x \in DOMAIN encryption'[n]
          BY <2>1, <3>3, <5>4 DEF Settled, RowGone
        <5>7. RowsOf(n, x)' = {<<d.address, x>>}
          BY <2>1, <3>2, <3>3, <5>4 DEF Settled, RowsOf
        <5>8. ClosingTables(n, x, d)'
          BY <3>2, <5>6, <5>7 DEF ClosingTables
        <5>9. Agree(n, x)'
          BY <5>1, <5>3, <5>5, <5>8 DEF Agree
        <5> QED
          BY <4>2, <5>9
      <4> QED
        BY <4>1, <4>2
    <3>6. reused \subseteq reused' /\ disturbed \subseteq disturbed'
      BY <2>1, <3>1
    <3> QED
      BY <3>5, <3>6, TablesStep
  <2> QED
    BY <2>2, <2>3
<1>7. ASSUME NEW c \in closers[n], CloseAddress(n, c) PROVE TablesInv'
  <2> DEFINE x == c.session
             row == <<c.address, x>>
  <2>1. /\ UNCHANGED <<connections, handling, movers, reused, disturbed>> /\ c.step = "address"
        /\ closers' = [closers EXCEPT ![n] = @ \ {c}]
    BY <1>7 DEF CloseAddress, historyVars
  <2>2. \/ /\ row \notin addressSession[n]
           /\ UNCHANGED <<addressSession, encryption>>
        \/ /\ addressSession' = [addressSession EXCEPT ![n] = @ \ {row}]
           /\ KeyGone(n, x)
    BY <1>7, KeyOfDropped DEF CloseAddress
  <2>3. row[2] = x
    OBVIOUS
  <2> HIDE DEF row
  <2>4. /\ \A k \in Node : k # n => closers'[k] = closers[k]
        /\ closers'[n] = closers[n] \ {c}
    BY <1>1, <2>1
  <2>5. DOMAIN addressSession = Node
    BY DEF Types, AddressesTyped
  <2>6. ASSUME NEW k \in Node, NEW s \in SessionId, Agree(k, s)
        PROVE  Untouched(k, s) \/ Agree(k, s)'
    <3>1. CASE k # n \/ s # x
      <4>1. Closing(k, s)' = Closing(k, s)
        BY <2>4, <3>1 DEF Closing
      <4>2. RowsOf(k, s)' = RowsOf(k, s)
        BY <2>2, <2>3, <2>5, <3>1 DEF RowsOf
      <4>3. s \in DOMAIN encryption'[k] <=> s \in DOMAIN encryption[k]
        BY <2>2, <3>1 DEF KeyGone
      <4> QED
        BY <2>1, <4>1, <4>2, <4>3 DEF Untouched, Has, Keying
    <3>2. CASE k = n /\ s = x
      <4>1. c \in Closing(n, x) /\ \A b \in Closing(n, x) : b = c
        BY <2>1, <2>6, <3>2 DEF Closing, Agree
      <4>2. Moving(n, x) = {} /\ ClosingTables(n, x, c) /\ Keying(n, x) = {}
        BY <2>6, <3>2, <4>1 DEF Agree
      <4>3. Closing(n, x)' = {}
        BY <2>4, <4>1 DEF Closing
      <4>4. RowsOf(n, x) = {row} /\ row \in addressSession[n]
        BY <4>2 DEF ClosingTables, RowsOf, row
      <4>5. RowsOf(n, x)' = {} /\ x \notin DOMAIN encryption'[n]
        BY <2>2, <2>5, <4>4 DEF RowsOf, KeyGone
      <4>6. Settled(n, x)'
        BY <2>1, <4>2, <4>5 DEF Settled, ClosingTables, Has
      <4>7. Moving(n, x)' = {} /\ Keying(n, x)' = {}
        BY <2>1, <4>2 DEF Moving, Keying
      <4>8. Agree(n, x)'
        BY <4>3, <4>6, <4>7 DEF Agree
      <4> QED
        BY <3>2, <4>8
    <3> QED
      BY <3>1, <3>2
  <2> QED
    BY <2>1, <2>6, TablesStep
<1> QED
  BY <1>3, <1>4, <1>5, <1>6, <1>7 DEF CloseStep

\* One task of a node goes on, from what it knew to t.
MoverSet(n, i, t) ==
    /\ movers'[n][i] = t
    /\ \A k \in Node, j \in Mover : k # n \/ j # i => movers'[k][j] = movers[k][j]

LEMMA OneMover ==
    ASSUME Types, NEW n \in Node, NEW i \in Mover, NEW t,
           movers' = [movers EXCEPT ![n][i] = t]
    PROVE  MoverSet(n, i, t)
BY DEF Types, MoversTyped, MoverSet

\* A task that moves x is none of another session's business.
LEMMA OtherMovers ==
    ASSUME NEW n \in Node, NEW i \in Mover, NEW t, NEW x, MoverSet(n, i, t),
           movers[n][i].session \in {0, x}, t.session \in {0, x},
           NEW k \in Node, NEW s \in SessionId, k # n \/ s # x,
           closers' = closers, handling' = handling, encryption' = encryption,
           Has(k, s)' <=> Has(k, s),
           Has(k, s) => connections'[k][s].address = connections[k][s].address,
           RowsOf(k, s)' = RowsOf(k, s)
    PROVE  Untouched(k, s)
<1>1. s # 0
  BY SessionsAssumption DEF SessionId
<1>2. \A j \in Mover : \/ movers'[k][j] = movers[k][j]
                       \/ movers'[k][j].session # s /\ movers[k][j].session # s
  BY <1>1 DEF MoverSet
<1> QED
  BY <1>2 DEF Untouched, Closing, Keying

\* The session a lone task moves.
LEMMA OneMoves ==
    ASSUME NEW n \in Node, NEW i \in Mover, NEW t, NEW x, Agree(n, x),
           x # 0, Closing(n, x) = {}, Keying(n, x) = {}, \A j \in Moving(n, x) : j = i,
           closers' = closers, handling' = handling, MoverSet(n, i, t),
           \/ t.session = x /\ MovingTables(n, x, t)'
           \/ t.session = 0 /\ Settled(n, x)'
    PROVE  Agree(n, x)'
<1>1. Closing(n, x)' = {} /\ Keying(n, x)' = {}
  BY DEF Closing, Keying
<1>2. \A j \in Moving(n, x)' : j = i
  BY DEF Moving, MoverSet
<1>3. CASE t.session = x /\ MovingTables(n, x, t)'
  <2>1. i \in Moving(n, x)' /\ movers'[n][i] = t
    BY <1>3 DEF Moving, MoverSet
  <2>2. \A j \in Moving(n, x)' : MovingTables(n, x, movers[n][j])'
    BY <1>2, <1>3, <2>1 DEF MovingTables
  <2> QED
    BY <1>1, <1>2, <2>1, <2>2 DEF Agree
<1>4. CASE t.session = 0 /\ Settled(n, x)'
  <2>1. Moving(n, x)' = {}
    BY <1>2, <1>4 DEF Moving, MoverSet
  <2> QED
    BY <1>1, <1>4, <2>1 DEF Agree
<1> QED
  BY <1>3, <1>4

\* A keep-alive from another address starts a move.
LEMMA AliveTables ==
    ASSUME Types, TablesInv, NEW n \in Node, NEW m \in net, NEW i \in Mover,
           ReceiveKeepAlive(n, m, i)
    PROVE  TablesInv'
<1> DEFINE x == m.session
<1>0. PICK t : t = [session |-> x, from |-> connections[n][x].address,
                    to |-> m.src, step |-> "remove"]
  OBVIOUS
<1>1. /\ Has(n, x) /\ x \in DOMAIN encryption[n]
      /\ movers[n][i] = NoTask
      /\ movers' = [movers EXCEPT ![n][i] = t]
      /\ disturbed' = IF \E j \in Mover : movers[n][j].session = x
                      THEN disturbed \cup {<<n, x>>} ELSE disturbed
      /\ UNCHANGED <<connections, addressSession, encryption, handling, closers, reused>>
  BY <1>0 DEF ReceiveKeepAlive, Authentic, tableVars
<1>2. /\ t.session = x /\ t.step = "remove"
      /\ t.from = connections[n][x].address
  BY <1>0
<1>3. x # 0
  BY SessionsAssumption DEF Types, Counters, NetTyped, Message, Drawn
<1>4. movers[n][i].session = 0
  BY <1>1 DEF NoTask
<1> HIDE DEF x
<1>5. MoverSet(n, i, t)
  BY <1>1, OneMover
<1>6. ASSUME NEW k \in Node, NEW s \in SessionId, <<k, s>> \notin disturbed', Agree(k, s)
      PROVE  Untouched(k, s) \/ Agree(k, s)'
  <2>1. CASE k # n \/ s # x
    <3>1. /\ Has(k, s)' <=> Has(k, s)
          /\ Has(k, s) => connections'[k][s].address = connections[k][s].address
          /\ RowsOf(k, s)' = RowsOf(k, s)
      BY <1>1 DEF Has, RowsOf
    <3>2. UNCHANGED <<closers, handling, encryption>>
      BY <1>1
    <3>3. movers[n][i].session \in {0, x} /\ t.session \in {0, x}
      BY <1>2, <1>4
    <3>4. Untouched(k, s)
      BY <1>5, <2>1, <3>1, <3>2, <3>3, OtherMovers
    <3> QED
      BY <3>4
  <2>2. CASE k = n /\ s = x
    <3>1. Moving(n, x) = {}
      BY <1>1, <1>6, <2>2 DEF Moving
    <3>2. Closing(n, x) = {} /\ Keying(n, x) = {}
      BY <1>1, <1>6, <2>2 DEF Agree, ClosingTables, KeyingTables
    <3>3. Settled(n, x)
      BY <1>6, <2>2, <3>1, <3>2 DEF Agree
    <3>4. RowsOf(n, x)' = {<<t.from, x>>}
      BY <1>1, <1>2, <3>3 DEF Settled, RowsOf
    <3>5. Has(n, x)' /\ x \in DOMAIN encryption'[n] /\ connections'[n][x].address = t.from
      BY <1>1, <1>2 DEF Has
    <3>6. MovingTables(n, x, t)'
      BY <1>2, <3>4, <3>5 DEF MovingTables
    <3>7. UNCHANGED <<closers, handling>> /\ \A j \in Moving(n, x) : j = i
      BY <1>1, <3>1
    <3>8. Agree(n, x)
      BY <1>6, <2>2
    <3>9. Agree(n, x)'
      BY <1>2, <1>3, <1>5, <3>2, <3>6, <3>7, <3>8, OneMoves
    <3> QED
      BY <2>2, <3>9
  <2> QED
    BY <2>1, <2>2
<1>7. reused \subseteq reused' /\ disturbed \subseteq disturbed'
  BY <1>1
<1> QED
  BY <1>6, <1>7, TablesStep

\* What a task that moves knows.
LEMMA MovingFacts ==
    ASSUME Types, NEW n \in Node, NEW i \in Mover, movers[n][i].step # "none",
           NEW x, x = movers[n][i].session
    PROVE  /\ x # 0
           /\ movers[n][i] \in [session : Drawn, from : Address, to : Address,
                                step : {"remove", "push", "row"}]
           /\ Agree(n, x) => /\ Closing(n, x) = {} /\ Keying(n, x) = {}
                             /\ \A j \in Moving(n, x) : j = i
                             /\ MovingTables(n, x, movers[n][i])
<1>1. movers[n][i] \in [session : Drawn, from : Address, to : Address,
                        step : {"remove", "push", "row"}]
  BY DEF Types, MoversTyped, Movers, NoTask
<1>2. movers[n][i].session \in Drawn
  BY <1>1
<1>3. x # 0
  BY <1>2 DEF Types, Counters, Drawn
<1>4. i \in Moving(n, x)
  BY DEF Moving
<1> QED
  BY <1>1, <1>3, <1>4 DEF Agree

LEMMA RemoveTables ==
    ASSUME Types, TablesInv, NEW n \in Node, NEW i \in Mover, MoveRemove(n, i)
    PROVE  TablesInv'
<1>0. PICK x, f, row, t :
          /\ x = movers[n][i].session /\ f = movers[n][i].from /\ row = <<f, x>>
          /\ t = IF row \in addressSession[n] THEN [movers[n][i] EXCEPT !.step = "push"]
                 ELSE NoTask
  OBVIOUS
<1>1. /\ movers[n][i].step = "remove"
      /\ addressSession' = [addressSession EXCEPT ![n] = @ \ {row}]
      /\ movers' = [movers EXCEPT ![n][i] = t]
      /\ UNCHANGED <<connections, encryption, handling, closers, reused, disturbed>>
  BY <1>0 DEF MoveRemove, historyVars
<1>2. /\ x # 0
      /\ movers[n][i] \in [session : Drawn, from : Address, to : Address,
                           step : {"remove", "push", "row"}]
      /\ Agree(n, x) => /\ Closing(n, x) = {} /\ Keying(n, x) = {}
                        /\ \A j \in Moving(n, x) : j = i
                        /\ MovingTables(n, x, movers[n][i])
  BY <1>0, <1>1, MovingFacts
<1>3. /\ row \in addressSession[n] => t.session = x /\ t.step = "push" /\ t.from = f
      /\ row \notin addressSession[n] => t.session = 0
  BY <1>0, <1>2 DEF NoTask
<1>4. row = <<f, x>> /\ row[2] = x /\ DOMAIN addressSession = Node
  BY <1>0 DEF Types, AddressesTyped
<1>5. MoverSet(n, i, t)
  BY <1>1, OneMover
<1>6. ASSUME NEW k \in Node, NEW s \in SessionId, Agree(k, s)
      PROVE  Untouched(k, s) \/ Agree(k, s)'
  <2>1. CASE k # n \/ s # x
    <3>1. RowsOf(k, s)' = RowsOf(k, s)
      BY <1>1, <1>4, <2>1 DEF RowsOf
    <3>2. /\ Has(k, s)' <=> Has(k, s)
          /\ Has(k, s) => connections'[k][s].address = connections[k][s].address
          /\ UNCHANGED <<closers, handling, encryption>>
      BY <1>1 DEF Has
    <3>3. movers[n][i].session \in {0, x} /\ t.session \in {0, x}
      BY <1>0, <1>3
    <3>4. Untouched(k, s)
      BY <1>5, <2>1, <3>1, <3>2, <3>3, OtherMovers
    <3> QED
      BY <3>4
  <2>2. CASE k = n /\ s = x
    <3>1. /\ Closing(n, x) = {} /\ Keying(n, x) = {} /\ \A j \in Moving(n, x) : j = i
          /\ MovingTables(n, x, movers[n][i]) /\ Agree(n, x)
      BY <1>2, <1>6, <2>2
    <3>2. RowsOf(n, x) = {row}
      BY <1>0, <1>1, <3>1 DEF MovingTables
    <3>3. row \in addressSession[n]
      BY <3>2 DEF RowsOf
    <3>4. addressSession'[n] = addressSession[n] \ {row}
      BY <1>1, <1>4
    <3>5. RowsOf(n, x)' = {}
      BY <3>2, <3>4 DEF RowsOf
    <3>6. /\ Has(n, x)' /\ x \in DOMAIN encryption'[n]
          /\ connections'[n][x].address = f
      BY <1>0, <1>1, <3>1 DEF Has, MovingTables
    <3>7. t.session = x /\ t.step = "push" /\ t.from = f
      BY <1>3, <3>3
    <3>8. UNCHANGED <<closers, handling>>
      BY <1>1
    <3>9. MovingTables(n, x, t)'
      BY <3>5, <3>6, <3>7 DEF MovingTables
    <3>10. Agree(n, x)'
      BY <1>2, <1>5, <3>1, <3>7, <3>8, <3>9, OneMoves
    <3> QED
      BY <2>2, <3>10
  <2> QED
    BY <2>1, <2>2
<1> QED
  BY <1>1, <1>6, TablesStep

LEMMA PushTables ==
    ASSUME Types, TablesInv, NEW n \in Node, NEW i \in Mover, MovePush(n, i)
    PROVE  TablesInv'
<1>0. PICK x, a, row, t :
          /\ x = movers[n][i].session /\ a = movers[n][i].to /\ row = <<a, x>>
          /\ t = [movers[n][i] EXCEPT !.step = "row"]
  OBVIOUS
<1>1. /\ movers[n][i].step = "push"
      /\ addressSession' = [addressSession EXCEPT ![n] = @ \cup {row}]
      /\ movers' = [movers EXCEPT ![n][i].step = "row"]
      /\ UNCHANGED <<connections, encryption, handling, closers, reused, disturbed>>
  BY <1>0 DEF MovePush, historyVars
<1>2. /\ x # 0
      /\ movers[n][i] \in [session : Drawn, from : Address, to : Address,
                           step : {"remove", "push", "row"}]
      /\ Agree(n, x) => /\ Closing(n, x) = {} /\ Keying(n, x) = {}
                        /\ \A j \in Moving(n, x) : j = i
                        /\ MovingTables(n, x, movers[n][i])
  BY <1>0, <1>1, MovingFacts
<1>3. t.session = x /\ t.step = "row" /\ t.from = movers[n][i].from /\ t.to = a
  BY <1>0, <1>2
<1>4. row = <<a, x>> /\ row[2] = x /\ DOMAIN addressSession = Node
  BY <1>0 DEF Types, AddressesTyped
<1>5. MoverSet(n, i, t)
  <2>1. movers' = [movers EXCEPT ![n][i] = t]
    BY <1>0, <1>1
  <2> QED
    BY <2>1, OneMover
<1>6. ASSUME NEW k \in Node, NEW s \in SessionId, Agree(k, s)
      PROVE  Untouched(k, s) \/ Agree(k, s)'
  <2>1. CASE k # n \/ s # x
    <3>1. RowsOf(k, s)' = RowsOf(k, s)
      BY <1>1, <1>4, <2>1 DEF RowsOf
    <3>2. /\ Has(k, s)' <=> Has(k, s)
          /\ Has(k, s) => connections'[k][s].address = connections[k][s].address
          /\ UNCHANGED <<closers, handling, encryption>>
      BY <1>1 DEF Has
    <3>3. movers[n][i].session \in {0, x} /\ t.session \in {0, x}
      BY <1>0, <1>3
    <3>4. Untouched(k, s)
      BY <1>5, <2>1, <3>1, <3>2, <3>3, OtherMovers
    <3> QED
      BY <3>4
  <2>2. CASE k = n /\ s = x
    <3>1. /\ Closing(n, x) = {} /\ Keying(n, x) = {} /\ \A j \in Moving(n, x) : j = i
          /\ MovingTables(n, x, movers[n][i]) /\ Agree(n, x)
      BY <1>2, <1>6, <2>2
    <3>2. RowsOf(n, x) = {}
      BY <1>1, <3>1 DEF MovingTables
    <3>3. addressSession'[n] = addressSession[n] \cup {row}
      BY <1>1, <1>4
    <3>4. RowsOf(n, x)' = {<<a, x>>}
      BY <1>4, <3>2, <3>3 DEF RowsOf
    <3>5. /\ Has(n, x)' /\ x \in DOMAIN encryption'[n]
          /\ connections'[n][x].address = t.from
      BY <1>1, <1>3, <3>1 DEF Has, MovingTables
    <3>6. MovingTables(n, x, t)'
      BY <1>3, <3>4, <3>5 DEF MovingTables
    <3>7. UNCHANGED <<closers, handling>>
      BY <1>1
    <3>8. Agree(n, x)'
      BY <1>2, <1>3, <1>5, <3>1, <3>6, <3>7, OneMoves
    <3> QED
      BY <2>2, <3>8
  <2> QED
    BY <2>1, <2>2
<1> QED
  BY <1>1, <1>6, TablesStep

LEMMA ConnectionTables ==
    ASSUME Types, TablesInv, NEW n \in Node, NEW i \in Mover, MoveConnection(n, i)
    PROVE  TablesInv'
<1>0. PICK x, a : x = movers[n][i].session /\ a = movers[n][i].to
  OBVIOUS
<1>1. /\ movers[n][i].step = "row"
      /\ connections' = IF Has(n, x) THEN [connections EXCEPT ![n][x].address = a]
                        ELSE connections
      /\ movers' = [movers EXCEPT ![n][i] = NoTask]
      /\ UNCHANGED <<addressSession, encryption, handling, closers, reused, disturbed>>
  BY <1>0 DEF MoveConnection, historyVars
<1>2. /\ x # 0
      /\ Agree(n, x) => /\ Closing(n, x) = {} /\ Keying(n, x) = {}
                        /\ \A j \in Moving(n, x) : j = i
                        /\ MovingTables(n, x, movers[n][i])
  BY <1>0, <1>1, MovingFacts
<1>3. NoTask.session = 0
  BY DEF NoTask
<1>4. MoverSet(n, i, NoTask)
  BY <1>1, OneMover
<1>5. /\ \A k \in Node : DOMAIN connections'[k] = DOMAIN connections[k]
      /\ Has(n, x) => connections'[n][x].address = a
      /\ \A k \in Node : \A s \in DOMAIN connections[k] :
             k # n \/ s # x => connections'[k][s].address = connections[k][s].address
  <2>1. CASE ~ Has(n, x)
    BY <1>1, <2>1
  <2>2. CASE Has(n, x)
    <3>1. PICK e : e = [connections[n][x] EXCEPT !.address = a]
      OBVIOUS
    <3>2. x \in DOMAIN connections[n] /\ connections' = [connections EXCEPT ![n][x] = e]
      BY <1>1, <2>2, <3>1 DEF Has
    <3>3. connections[n][x] \in Sessions
      BY <3>2 DEF Types, ConnectionsTyped
    <3>4. e.address = a
      BY <3>1, <3>3 DEF Sessions
    <3> QED
      BY <2>2, <3>2, <3>4 DEF Types, ConnectionsTyped
  <2> QED
    BY <2>1, <2>2
<1>6. ASSUME NEW k \in Node, NEW s \in SessionId, Agree(k, s)
      PROVE  Untouched(k, s) \/ Agree(k, s)'
  <2>1. CASE k # n \/ s # x
    <3>1. /\ Has(k, s)' <=> Has(k, s)
          /\ Has(k, s) => connections'[k][s].address = connections[k][s].address
      BY <1>5, <2>1 DEF Has
    <3>2. /\ RowsOf(k, s)' = RowsOf(k, s)
          /\ UNCHANGED <<closers, handling, encryption>>
      BY <1>1 DEF RowsOf
    <3>3. movers[n][i].session \in {0, x} /\ NoTask.session \in {0, x}
      BY <1>0, <1>3
    <3>4. Untouched(k, s)
      BY <1>4, <2>1, <3>1, <3>2, <3>3, OtherMovers
    <3> QED
      BY <3>4
  <2>2. CASE k = n /\ s = x
    <3>1. /\ Closing(n, x) = {} /\ Keying(n, x) = {} /\ \A j \in Moving(n, x) : j = i
          /\ MovingTables(n, x, movers[n][i]) /\ Agree(n, x)
      BY <1>2, <1>6, <2>2
    <3>2. /\ Has(n, x) /\ x \in DOMAIN encryption[n]
          /\ RowsOf(n, x) = {<<a, x>>}
      BY <1>0, <1>1, <3>1 DEF MovingTables
    <3>3. /\ Has(n, x)' /\ x \in DOMAIN encryption'[n]
          /\ RowsOf(n, x)' = {<<connections'[n][x].address, x>>}
      BY <1>1, <1>5, <3>2 DEF Has, RowsOf
    <3>4. Settled(n, x)'
      BY <3>3 DEF Settled
    <3>5. UNCHANGED <<closers, handling>>
      BY <1>1
    <3>6. Agree(n, x)'
      BY <1>2, <1>3, <1>4, <3>1, <3>4, <3>5, OneMoves
    <3> QED
      BY <2>2, <3>6
  <2> QED
    BY <2>1, <2>2
<1> QED
  BY <1>1, <1>6, TablesStep

LEMMA MoveTables ==
    ASSUME Types, TablesInv, NEW n \in Node, MoveStep(n)
    PROVE  TablesInv'
<1>1. ASSUME UNCHANGED <<tableVars, handling, movers, closers, historyVars>> PROVE TablesInv'
  BY <1>1, TablesFrame DEF tableVars, historyVars, Closing, Keying
<1>2. ASSUME Move(n) PROVE TablesInv'
  BY <1>1, <1>2 DEF Move, taskVars
<1>3. ASSUME NEW s \in keptAlive[n], SendKeepAlive(n, s) PROVE TablesInv'
  BY <1>1, <1>3 DEF SendKeepAlive
<1> QED
  BY <1>2, <1>3, AliveTables, RemoveTables, PushTables, ConnectionTables DEF MoveStep

LEMMA TablesHold == Spec => []TablesInv
<1>1. Init => TablesInv
  <2> SUFFICES ASSUME Init, NEW n \in Node, NEW s \in SessionId PROVE Agree(n, s)
    BY DEF TablesInv
  <2>1. s # 0
    BY SessionsAssumption DEF SessionId
  <2>2. Moving(n, s) = {} /\ Closing(n, s) = {} /\ Keying(n, s) = {} /\ RowsOf(n, s) = {}
    BY <2>1 DEF Init, Moving, Closing, Keying, RowsOf, NoTask
  <2>3. ~ Has(n, s) /\ s \notin DOMAIN encryption[n]
    BY DEF Init, Has, Nothing
  <2> QED
    BY <2>2, <2>3 DEF Agree, Settled
<1>2. Types /\ KeyInv /\ TablesInv /\ [Next]_vars => TablesInv'
  <2>1. ASSUME TablesInv, UNCHANGED vars PROVE TablesInv'
    BY <2>1, TablesFrame DEF vars, tableVars, taskVars, historyVars, Closing, Keying
  <2> QED
    BY <2>1, HandshakeTables, CloseTables, MoveTables DEF Next
<1> QED
  BY KeysHold, <1>1, <1>2, PTL DEF Spec

\* Once its tasks are done a session has its row in all three tables or in none,
\* at the one address it moved to, unless a collision took its row or a move met
\* another or its closing.
THEOREM TablesStayTogether == Spec => []TablesAgree
<1>1. TablesInv => TablesAgree
  <2> SUFFICES ASSUME TablesInv, NEW n \in Node, NEW s \in SessionId, ~ Busy(n, s),
                      <<n, s>> \notin disturbed, s \notin reused
               PROVE  /\ Has(n, s) = (s \in DOMAIN encryption[n])
                      /\ {r \in addressSession[n] : r[2] = s} =
                             IF Has(n, s) THEN {<<connections[n][s].address, s>>} ELSE {}
    BY DEF TablesAgree
  <2>1. Moving(n, s) = {} /\ Closing(n, s) = {} /\ Keying(n, s) = {}
    BY DEF Busy, Moving, Closing, Keying
  <2>2. Settled(n, s)
    BY <2>1 DEF TablesInv, Agree
  <2>3. Has(n, s) <=> s \in DOMAIN encryption[n]
    BY <2>2 DEF Settled
  <2>4. Has(n, s) = (s \in DOMAIN encryption[n])
    BY <2>3 DEF Has
  <2> QED
    BY <2>2, <2>4 DEF Settled, RowsOf
<1> QED
  BY TablesHold, <1>1, PTL

===============================================================================
