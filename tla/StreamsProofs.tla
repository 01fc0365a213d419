----------------------------- MODULE StreamsProofs -----------------------------
(***************************************************************************)
(* Theorems about Streams: the types, why a request finds its session      *)
(* occupied, what one stream can leave in the next one's buffer, and what  *)
(* ends a stream at its provider, for any number of streams and chunks.    *)
(***************************************************************************)
EXTENDS Streams, TLAPS

-----------------------------------------------------------------------------
(* Types.                                                                  *)

Known == 1 .. requested

Packets ==
    [to : {"requester", "provider"},
     kind : {"request", "reject", "data", "done", "pause", "play", "close"},
     stream : Known, chunk : Nat]

Messages == [approved : {"none", "yes", "no"}, closed : BOOLEAN, paused : BOOLEAN,
             partial : BOOLEAN]

From(k) == [mode |-> "from", stream |-> k]
To(k) == [mode |-> "to", stream |-> k]

\* A handle that waits for a stream or reads it is that of the last request, and
\* so is a session that is occupied.
RequesterTyped ==
    /\ requested \in 0 .. MaxStream
    /\ rHandle \in {"connection", "retrying", "pending", "input", "completing"}
    /\ rHandle \in {"pending", "input", "completing"} => requested \in Known
    /\ rSession = Up \/ (requested \in Known /\ rSession = From(requested))
    /\ message \in [Stream -> Messages]
    /\ DOMAIN got = Stream /\ \A k \in Stream : got[k] \subseteq Chunk(k) \X Known
    /\ closing \subseteq Known /\ completing \subseteq Known

ProviderTyped ==
    /\ pHandle \in {Connection} \cup [kind : {"requested", "output", "lost"}, stream : Known]
    /\ pSession \in {Up} \cup [mode : {"to"}, stream : Known]
    /\ events \in Seq(Stream) /\ \A i \in 1 .. Len(events) : events[i] \in Known
    /\ tasks \subseteq {"send", "reject", "close"} \X Known
    /\ position \in [Stream -> Nat]
    /\ \A k \in Stream : position[k] <= Length[k] /\ (position[k] > 0 => k \in Known)
    /\ pClosed \in [Stream -> BOOLEAN]
    /\ slot \in [Stream -> Event]
    /\ loops \in [Stream -> [playing : BOOLEAN, event : 0 .. MaxStream]]
    /\ \A k \in Stream : loops[k] # NoLoop => loops[k].event \in Stream

NetTyped ==
    /\ net \subseteq Packets
    /\ \A m \in net : m.kind = "data" =>
           m.to = "requester" /\ m.chunk \in Chunk(m.stream) /\ m.chunk <= position[m.stream]

Types == RequesterTyped /\ ProviderTyped /\ NetTyped

LEMMA TakesFacts ==
    ASSUME NEW m, NEW out, Takes(m, out)
    PROVE  /\ m \in net
           /\ net' \subseteq net \cup out
           /\ m.kind = "data" => net' = (net \ {m}) \cup out
BY DEF Takes, Retried

LEMMA ProviderQuiet ==
    ASSUME Types, UNCHANGED <<providerVars, requested>>
    PROVE  ProviderTyped'
BY DEF Types, ProviderTyped, providerVars, Known

LEMMA RequesterQuiet ==
    ASSUME Types, UNCHANGED requesterVars
    PROVE  RequesterTyped'
BY DEF Types, RequesterTyped, requesterVars, Known

\* Packets of a known stream join those in flight.
LEMMA NetGrows ==
    ASSUME Types, requested' \in Nat, requested <= requested', position' = position,
           NEW out, net' \subseteq net \cup out,
           \A m \in out : m \in Packets' /\ m.kind # "data"
    PROVE  NetTyped'
<1>1. Packets \subseteq Packets'
  BY DEF Types, RequesterTyped, Packets, Known
<1> QED
  BY <1>1 DEF Types, NetTyped

LEMMA PlaybackTyped ==
    ASSUME NEW k \in Known', NEW to \in {"requester", "provider"},
           NEW kind \in {"request", "reject", "done", "pause", "play", "close"}
    PROVE  Packet(to, kind, k, 0) \in Packets' /\ Packet(to, kind, k, 0).kind # "data"
BY DEF Packet, Packets

LEMMA RequestTyped ==
    ASSUME Types, StartRequest, UNCHANGED <<message, got, closing, completing, providerVars>>
    PROVE  Types'
<1>1. /\ requested' = requested + 1 /\ requested' \in 0 .. MaxStream /\ requested \in Nat
      /\ requested' \in Nat /\ requested <= requested'
      /\ requested' \in Known' /\ Known \subseteq Known'
  BY StreamsAssumption DEF Types, RequesterTyped, StartRequest, Known
<1>2. RequesterTyped'
  BY <1>1 DEF Types, RequesterTyped, StartRequest, From
<1>3. ProviderTyped'
  <2>1. /\ pHandle' = pHandle /\ pSession' = pSession /\ events' = events /\ tasks' = tasks
        /\ position' = position /\ pClosed' = pClosed /\ slot' = slot /\ loops' = loops
    BY DEF providerVars
  <2> QED
    BY <1>1, <2>1 DEF Types, ProviderTyped
<1>4. NetTyped'
  <2>1. net' \subseteq net \cup {TrackRequest(requested + 1)} /\ position' = position
    BY DEF StartRequest, providerVars
  <2>2. TrackRequest(requested + 1) \in Packets' /\ TrackRequest(requested + 1).kind # "data"
    BY <1>1, StreamsAssumption, PlaybackTyped DEF TrackRequest
  <2>3. PICK out : out = {TrackRequest(requested + 1)}
    OBVIOUS
  <2>4. net' \subseteq net \cup out /\ \A m \in out : m \in Packets' /\ m.kind # "data"
    BY <2>1, <2>2, <2>3
  <2> QED
    BY <1>1, <2>1, <2>4, NetGrows
<1> QED
  BY <1>2, <1>3, <1>4 DEF Types

LEMMA NetKept ==
    ASSUME Types, requested' = requested, position' = position, net' \subseteq net
    PROVE  NetTyped'
BY DEF Types, NetTyped, Packets, Known

LEMMA NetSends ==
    ASSUME Types, requested' = requested, position' = position,
           NEW to \in {"requester", "provider"},
           NEW kind \in {"request", "reject", "done", "pause", "play", "close"},
           NEW k \in Known, net' \subseteq net \cup {Packet(to, kind, k, 0)}
    PROVE  NetTyped'
<1>1. PICK p : p = Packet(to, kind, k, 0)
  OBVIOUS
<1>2. p \in Packets /\ p.kind # "data"
  BY <1>1, StreamsAssumption DEF Packet, Packets
<1>3. net' \subseteq net \cup {p}
  BY <1>1
<1> QED
  BY <1>2, <1>3 DEF Types, NetTyped, Packets, Known

\* Messages of a stream are set one by one.
LEMMA MessageSet ==
    ASSUME message \in [Stream -> Messages], NEW k \in Stream, NEW e \in Messages,
           message' = [message EXCEPT ![k] = e]
    PROVE  /\ message' \in [Stream -> Messages]
           /\ message'[k] = e
           /\ \A j \in Stream : j # k => message'[j] = message[j]
OBVIOUS

\* What ends the stream of the session tells the application.
EndsStream(k) ==
    /\ message'[k].closed = TRUE
    /\ message'[k].approved = message[k].approved
    /\ message'[k].paused = message[k].paused
    /\ \A j \in Stream : j # k => message'[j] = message[j]

LEMMA EndFacts ==
    ASSUME Types, EndRequested
    PROVE  /\ rSession' = Up
           /\ message' \in [Stream -> Messages]
           /\ rSession = Up => message' = message
           /\ rSession # Up => rSession.stream \in Stream /\ EndsStream(rSession.stream)
<1>1. rSession' = Up
  BY DEF EndRequested
<1>2. CASE rSession = Up
  BY <1>2 DEF EndRequested, Up, Types, RequesterTyped
<1>3. CASE rSession # Up
  <2>1. PICK k \in Stream : rSession = From(k)
    BY <1>3, StreamsAssumption DEF Types, RequesterTyped, Known, Stream
  <2>2. rSession.mode = "from" /\ rSession.stream = k
    BY <2>1 DEF From
  <2>3. message \in [Stream -> Messages] /\ message[k] \in Messages
    BY DEF Types, RequesterTyped
  <2>4. PICK e : e = [message[k] EXCEPT !.closed = TRUE]
    OBVIOUS
  <2>5. /\ e \in Messages /\ e.closed = TRUE /\ e.approved = message[k].approved
        /\ e.paused = message[k].paused
    BY <2>3, <2>4 DEF Messages
  <2>6. message' = [message EXCEPT ![k] = e]
    BY <2>2, <2>4 DEF EndRequested
  <2> QED
    BY <1>1, <1>3, <2>2, <2>3, <2>5, <2>6, MessageSet DEF EndsStream
<1> QED
  BY <1>1, <1>2, <1>3

\* A chunk is written to the stream of the session.
Writes(k, c, j) ==
    /\ got' = [got EXCEPT ![k] = @ \cup {<<c, j>>}]
    /\ message'[k].approved = "yes"
    /\ \A i \in Stream : i # k => message'[i] = message[i]

LEMMA WriteFacts ==
    ASSUME Types, rSession.mode = "from", NEW c \in Chunk(rSession.stream), NEW j \in Known,
           NEW last \in BOOLEAN,
           got' = [got EXCEPT ![rSession.stream] = @ \cup {<<c, j>>}],
           message' = [message EXCEPT ![rSession.stream].approved = "yes",
                                      ![rSession.stream].closed = @ \/ last]
    PROVE  /\ rSession = From(requested) /\ requested \in Known /\ requested \in Stream
           /\ rSession.stream = requested
           /\ Writes(requested, c, j)
           /\ message' \in [Stream -> Messages]
           /\ message'[requested].closed <=> (message[requested].closed \/ last)
           /\ DOMAIN got' = Stream /\ \A k \in Stream : got'[k] \subseteq Chunk(k) \X Known
<1>1. /\ rSession = From(requested) /\ requested \in Known /\ requested \in Stream
      /\ rSession.stream = requested
  BY StreamsAssumption DEF Types, RequesterTyped, Known, Stream, From, Up
<1>2. PICK k \in Stream : k = requested
  BY <1>1
<1>3. message \in [Stream -> Messages] /\ message[k] \in Messages
  BY DEF Types, RequesterTyped
<1>4. PICK e : e = [message[k] EXCEPT !.approved = "yes", !.closed = @ \/ last]
  OBVIOUS
<1>5. e \in Messages /\ e.approved = "yes" /\ (e.closed <=> (message[k].closed \/ last))
  BY <1>3, <1>4 DEF Messages
<1>6. message' = [message EXCEPT ![k] = e]
  BY <1>1, <1>2, <1>4
<1>7. /\ message' \in [Stream -> Messages] /\ message'[k] = e
      /\ \A i \in Stream : i # k => message'[i] = message[i]
  BY <1>3, <1>5, <1>6, MessageSet
<1>8. DOMAIN got' = Stream /\ \A i \in Stream : got'[i] \subseteq Chunk(i) \X Known
  BY <1>1 DEF Types, RequesterTyped
<1> QED
  BY <1>1, <1>2, <1>5, <1>7, <1>8 DEF Writes

\* One field of the messages of a stream changes.
LEMMA ApprovalSet ==
    ASSUME Types, NEW k \in Stream,
           message' = [message EXCEPT ![k].approved = "no"]
    PROVE  /\ message' \in [Stream -> Messages]
           /\ message'[k].approved = "no"
           /\ message'[k].closed <=> message[k].closed
           /\ \A j \in Stream : j # k => message'[j] = message[j]
<1>1. message \in [Stream -> Messages] /\ message[k] \in Messages
  BY DEF Types, RequesterTyped
<1>2. PICK e : e = [message[k] EXCEPT !.approved = "no"]
  OBVIOUS
<1>3. e \in Messages /\ e.approved = "no" /\ (e.closed <=> message[k].closed)
  BY <1>1, <1>2 DEF Messages
<1>4. message' = [message EXCEPT ![k] = e]
  BY <1>2
<1> QED
  BY <1>1, <1>3, <1>4, MessageSet

LEMMA PartialSet ==
    ASSUME Types, NEW k \in Stream,
           message' = [message EXCEPT ![k].partial = TRUE]
    PROVE  /\ message' \in [Stream -> Messages]
           /\ message'[k].approved = message[k].approved
           /\ message'[k].closed <=> message[k].closed
           /\ \A j \in Stream : j # k => message'[j] = message[j]
<1>1. message \in [Stream -> Messages] /\ message[k] \in Messages
  BY DEF Types, RequesterTyped
<1>2. PICK e : e = [message[k] EXCEPT !.partial = TRUE]
  OBVIOUS
<1>3. /\ e \in Messages /\ e.approved = message[k].approved
      /\ e.closed <=> message[k].closed
  BY <1>1, <1>2 DEF Messages
<1>4. message' = [message EXCEPT ![k] = e]
  BY <1>2
<1> QED
  BY <1>1, <1>3, <1>4, MessageSet

LEMMA PauseSet ==
    ASSUME Types, NEW k \in Stream, NEW paused \in BOOLEAN,
           message' = [message EXCEPT ![k].paused = paused]
    PROVE  /\ message' \in [Stream -> Messages]
           /\ message'[k].approved = message[k].approved
           /\ message'[k].closed <=> message[k].closed
           /\ \A j \in Stream : j # k => message'[j] = message[j]
<1>1. message \in [Stream -> Messages] /\ message[k] \in Messages
  BY DEF Types, RequesterTyped
<1>2. PICK e : e = [message[k] EXCEPT !.paused = paused]
  OBVIOUS
<1>3. /\ e \in Messages /\ e.approved = message[k].approved
      /\ e.closed <=> message[k].closed
  BY <1>1, <1>2 DEF Messages
<1>4. message' = [message EXCEPT ![k] = e]
  BY <1>2
<1> QED
  BY <1>1, <1>3, <1>4, MessageSet

LEMMA SessionStream ==
    ASSUME Types, rSession # Up \/ rSession.mode = "from"
    PROVE  /\ rSession = From(requested) /\ rSession.mode = "from"
           /\ rSession.stream = requested
           /\ requested \in Known /\ requested \in Stream
BY StreamsAssumption DEF Types, RequesterTyped, Known, Stream, From, Up

LEMMA KnownStreams ==
    ASSUME Types
    PROVE  Known \subseteq Stream
BY StreamsAssumption DEF Types, RequesterTyped, Known, Stream

\* What a chunk that comes or is recovered does, if the buffer lacks it.
LEMMA DataWrites ==
    ASSUME Types, NEW m \in net, ReceiveData(m),
           rSession.mode = "from", m.chunk \in Chunk(rSession.stream) \ Written(rSession.stream)
    PROVE  \E done \in BOOLEAN :
               /\ MayEnd(rSession.stream, m.chunk, done)
               /\ Takes(m, IF done THEN {Playback("provider", "done", rSession.stream)} ELSE {})
               /\ Write(rSession.stream, m.chunk, m.stream, done)
               /\ rSession' = IF done THEN Up ELSE rSession
               /\ loose' = IF done /\ ~ Whole(rSession.stream, m.chunk)
                           THEN loose \cup {rSession.stream} ELSE loose
BY DEF ReceiveData

LEMMA DataIgnored ==
    ASSUME NEW m \in net, ReceiveData(m),
           ~ (rSession.mode = "from"
              /\ m.chunk \in Chunk(rSession.stream) \ Written(rSession.stream))
    PROVE  Takes(m, {}) /\ UNCHANGED <<got, message, rSession, loose>>
BY DEF ReceiveData

LEMMA RecoverWrites ==
    ASSUME Types, Recover
    PROVE  \E j \in Stream, c \in Chunk(rSession.stream) \ Written(rSession.stream),
              done \in BOOLEAN :
               /\ j \in Known /\ c <= position[j]
               /\ MayEnd(rSession.stream, c, done)
               /\ Write(rSession.stream, c, j, done)
               /\ repaired' = IF done THEN repaired \cup {rSession.stream} ELSE repaired
               /\ net' = IF done THEN net \cup {Playback("provider", "done", rSession.stream)}
                         ELSE net
               /\ loose' = loose \cup {j} \cup
                      (IF done /\ ~ Whole(rSession.stream, c) THEN {rSession.stream} ELSE {})
<1>1. PICK j \in Stream, c \in Chunk(rSession.stream) \ Written(rSession.stream),
           done \in BOOLEAN :
          /\ c <= position[j]
          /\ MayEnd(rSession.stream, c, done)
          /\ Write(rSession.stream, c, j, done)
          /\ repaired' = IF done THEN repaired \cup {rSession.stream} ELSE repaired
          /\ net' = IF done THEN net \cup {Playback("provider", "done", rSession.stream)} ELSE net
          /\ loose' = loose \cup {j} \cup
                 (IF done /\ ~ Whole(rSession.stream, c) THEN {rSession.stream} ELSE {})
  BY DEF Recover
<1>2. rSession.mode = "from" /\ rSession.stream \in Stream
  BY SessionStream DEF Recover
<1>3. c \in Nat /\ c > 0
  BY <1>2, StreamsAssumption DEF Chunk
<1>4. j \in Known
  BY <1>1, <1>3 DEF Types, ProviderTyped
<1> QED
  BY <1>1, <1>4

LEMMA RequesterTypes ==
    ASSUME Types
    PROVE  /\ Request \/ RequestAgain => Types'
           /\ \A m \in net :
                  ReceiveRejection(m) \/ ReceiveData(m) \/ ReceiveProvidersClose(m) => Types'
           /\ Ready \/ AcceptHoles \/ Complete \/ CloseInput => Types'
           /\ \A k \in Stream : RunClose(k) \/ RunComplete(k) => Types'
           /\ Recover => Types'
           /\ \A paused \in BOOLEAN : PauseOrPlay(paused) => Types'
<1>1. ASSUME Request \/ RequestAgain PROVE Types'
  <2>1. CASE StartRequest
    BY <1>1, <2>1, RequestTyped DEF Request, RequestAgain
  <2>2. CASE /\ rHandle' \in {"connection", "retrying"}
             /\ UNCHANGED <<rSession, requested, net>>
    <3>1. UNCHANGED <<rSession, requested, net, message, got, closing, completing, providerVars>>
      BY <1>1, <2>2 DEF Request, RequestAgain
    <3>2. RequesterTyped'
      BY <2>2, <3>1 DEF Types, RequesterTyped, Known
    <3>3. position' = position
      BY <3>1 DEF providerVars
    <3> QED
      BY <3>1, <3>2, <3>3, ProviderQuiet, NetKept DEF Types
  <2> QED
    BY <1>1, <2>1, <2>2 DEF Request, RequestAgain
<1>2. ASSUME UNCHANGED <<requested, providerVars>>, RequesterTyped',
             \/ net' \subseteq net
             \/ \E to \in {"requester", "provider"} :
                \E kind \in {"request", "reject", "done", "pause", "play", "close"} :
                \E k \in Known : net' \subseteq net \cup {Packet(to, kind, k, 0)}
      PROVE  Types'
  <2>1. position' = position
    BY <1>2 DEF providerVars
  <2>2. NetTyped'
    BY <1>2, <2>1, NetKept, NetSends
  <2> QED
    BY <1>2, <2>2, ProviderQuiet DEF Types
<1>3. ASSUME NEW m \in net, ReceiveRejection(m) PROVE Types'
  <2>1. /\ UNCHANGED <<rHandle, rSession, requested, got, closing, completing, providerVars>>
        /\ net' \subseteq net
    BY <1>3, TakesFacts DEF ReceiveRejection
  <2>2. message' \in [Stream -> Messages]
    <3>1. CASE rSession.mode = "from"
      BY <1>3, <3>1, SessionStream, ApprovalSet DEF ReceiveRejection
    <3>2. CASE message' = message
      BY <3>2 DEF Types, RequesterTyped
    <3> QED
      BY <1>3, <3>1, <3>2 DEF ReceiveRejection
  <2>3. RequesterTyped'
    BY <2>1, <2>2 DEF Types, RequesterTyped, Known
  <2> QED
    BY <1>2, <2>1, <2>3
<1>4. ASSUME NEW m \in net, ReceiveData(m) PROVE Types'
  <2>1. UNCHANGED <<rHandle, requested, closing, completing, providerVars>> /\ m.kind = "data"
    BY <1>4 DEF ReceiveData
  <2>2. CASE ~ (rSession.mode = "from"
                /\ m.chunk \in Chunk(rSession.stream) \ Written(rSession.stream))
    <3>1. UNCHANGED <<got, message, rSession>> /\ net' \subseteq net
      BY <1>4, <2>2, DataIgnored, TakesFacts
    <3>2. RequesterTyped'
      BY <2>1, <3>1 DEF Types, RequesterTyped, Known
    <3> QED
      BY <1>2, <2>1, <3>1, <3>2
  <2>3. CASE /\ rSession.mode = "from"
             /\ m.chunk \in Chunk(rSession.stream) \ Written(rSession.stream)
    <3>1. PICK done \in BOOLEAN :
              /\ Takes(m, IF done THEN {Playback("provider", "done", rSession.stream)} ELSE {})
              /\ Write(rSession.stream, m.chunk, m.stream, done)
              /\ rSession' = IF done THEN Up ELSE rSession
      BY <1>4, <2>3, DataWrites
    <3>2. m.stream \in Known
      BY <2>1 DEF Types, NetTyped, Packets
    <3>3. /\ requested \in Known /\ rSession.stream = requested
          /\ message' \in [Stream -> Messages]
          /\ DOMAIN got' = Stream /\ \A k \in Stream : got'[k] \subseteq Chunk(k) \X Known
      BY <2>3, <3>1, <3>2, WriteFacts DEF Write
    <3>4. RequesterTyped'
      BY <2>1, <3>1, <3>3 DEF Types, RequesterTyped, Known, From, Up
    <3>5. net' \subseteq net \cup {Packet("provider", "done", requested, 0)}
      BY <3>1, <3>3, TakesFacts DEF Playback
    <3> QED
      BY <1>2, <2>1, <3>3, <3>4, <3>5
  <2> QED
    BY <2>2, <2>3
<1>5. ASSUME NEW m \in net, ReceiveProvidersClose(m) PROVE Types'
  <2>1. /\ UNCHANGED <<rHandle, requested, got, closing, completing, providerVars>>
        /\ net' \subseteq net /\ rSession' = Up /\ message' \in [Stream -> Messages]
    BY <1>5, TakesFacts, EndFacts DEF ReceiveProvidersClose
  <2>2. RequesterTyped'
    BY <2>1 DEF Types, RequesterTyped, Known, Up
  <2> QED
    BY <1>2, <2>1, <2>2
<1>6. ASSUME Ready \/ AcceptHoles \/ Complete \/ CloseInput PROVE Types'
  <2>1. UNCHANGED <<rSession, requested, message, got, providerVars, net>>
    BY <1>6 DEF Ready, AcceptHoles, Complete, CloseInput
  <2>2. RequesterTyped'
    BY <1>6, <2>1 DEF Ready, AcceptHoles, Complete, CloseInput, Types, RequesterTyped, Known
  <2> QED
    BY <1>2, <2>1, <2>2
<1>7. ASSUME NEW k \in Stream, RunClose(k) PROVE Types'
  <2>1. /\ UNCHANGED <<rHandle, requested, got, completing, providerVars>>
        /\ k \in closing /\ closing' = closing \ {k}
        /\ net' = net \cup {Packet("provider", "close", k, 0)}
        /\ rSession' = Up /\ message' \in [Stream -> Messages]
    BY <1>7, EndFacts DEF RunClose, Playback
  <2>2. k \in Known
    BY <2>1 DEF Types, RequesterTyped
  <2>3. RequesterTyped'
    BY <2>1 DEF Types, RequesterTyped, Known, Up
  <2> QED
    BY <1>2, <2>1, <2>2, <2>3
<1>8. ASSUME Recover PROVE Types'
  <2>1. /\ UNCHANGED <<rHandle, rSession, requested, closing, completing, providerVars>>
        /\ rSession.mode = "from"
    BY <1>8 DEF Recover
  <2>2. PICK j \in Known, c \in Chunk(rSession.stream), done \in BOOLEAN :
            /\ Write(rSession.stream, c, j, done)
            /\ net' = IF done THEN net \cup {Playback("provider", "done", rSession.stream)}
                      ELSE net
    BY <1>8, RecoverWrites
  <2>3. /\ requested \in Known /\ rSession.stream = requested
        /\ message' \in [Stream -> Messages]
        /\ DOMAIN got' = Stream /\ \A k \in Stream : got'[k] \subseteq Chunk(k) \X Known
    BY <2>1, <2>2, WriteFacts DEF Write
  <2>4. RequesterTyped'
    BY <2>1, <2>3 DEF Types, RequesterTyped, Known
  <2>5. net' \subseteq net \cup {Packet("provider", "done", requested, 0)}
    BY <2>2, <2>3 DEF Playback
  <2> QED
    BY <1>2, <2>1, <2>3, <2>4, <2>5
<1>9. ASSUME NEW paused \in BOOLEAN, PauseOrPlay(paused) PROVE Types'
  <2>1. /\ UNCHANGED <<rHandle, rSession, requested, got, closing, completing, providerVars>>
        /\ rHandle = "input"
        /\ \/ net' = net \cup {Packet("provider", "pause", requested, 0)}
           \/ net' = net \cup {Packet("provider", "play", requested, 0)}
    BY <1>9 DEF PauseOrPlay, Playback
  <2>2. message' \in [Stream -> Messages]
    <3>1. CASE rSession.mode = "from"
      BY <1>9, <3>1, SessionStream, PauseSet DEF PauseOrPlay
    <3>2. CASE message' = message
      BY <3>2 DEF Types, RequesterTyped
    <3> QED
      BY <1>9, <3>1, <3>2 DEF PauseOrPlay
  <2>3. RequesterTyped' /\ requested \in Known
    BY <2>1, <2>2 DEF Types, RequesterTyped, Known
  <2> QED
    BY <1>2, <2>1, <2>3
<1>10. ASSUME NEW k \in Stream, RunComplete(k) PROVE Types'
  <2>1. /\ UNCHANGED <<rHandle, rSession, requested, got, closing, net, providerVars>>
        /\ completing' \subseteq completing
    BY <1>10 DEF RunComplete
  <2>2. message' \in [Stream -> Messages]
    <3>1. CASE rSession.mode = "from"
      BY <1>10, <3>1, SessionStream, PartialSet DEF RunComplete
    <3>2. CASE message' = message
      BY <3>2 DEF Types, RequesterTyped
    <3> QED
      BY <1>10, <3>1, <3>2 DEF RunComplete
  <2>3. RequesterTyped'
    BY <2>1, <2>2 DEF Types, RequesterTyped, Known
  <2> QED
    BY <1>2, <2>1, <2>3
<1> QED
  BY <1>1, <1>3, <1>4, <1>5, <1>6, <1>7, <1>8, <1>9, <1>10

\* What ends the provider's stream, over the slots it finds.
LEMMA ProvidedFacts ==
    ASSUME Types, NEW slots \in [Stream -> Event], EndProvided(slots)
    PROVE  /\ pSession' = Up
           /\ pClosed' \in [Stream -> BOOLEAN] /\ slot' \in [Stream -> Event]
           /\ pSession = Up => pClosed' = pClosed /\ slot' = slots
           /\ \A k \in Stream :
                  IF pSession = To(k) THEN pClosed'[k] = TRUE /\ slot'[k] = "close"
                  ELSE pClosed'[k] = pClosed[k] /\ slot'[k] = slots[k]
<1>1. pSession' = Up
  BY DEF EndProvided
<1>2. CASE pSession = Up
  <2>1. pClosed' = pClosed /\ slot' = slots /\ \A k \in Stream : pSession # To(k)
    BY <1>2 DEF EndProvided, Up, To
  <2> QED
    BY <1>1, <2>1 DEF Types, ProviderTyped
<1>3. CASE pSession # Up
  <2>1. PICK j \in Known : pSession = To(j)
    BY <1>3 DEF Types, ProviderTyped, To
  <2>2. /\ j \in Stream /\ pSession.mode = "to" /\ pSession.stream = j
        /\ \A k \in Stream : pSession = To(k) <=> k = j
    BY <2>1, KnownStreams DEF To
  <2>3. pClosed' = [pClosed EXCEPT ![j] = TRUE] /\ slot' = [slots EXCEPT ![j] = "close"]
    BY <2>2 DEF EndProvided
  <2>4. pClosed \in [Stream -> BOOLEAN] /\ "close" \in Event
    BY DEF Types, ProviderTyped, Event
  <2> QED
    BY <1>1, <1>3, <2>2, <2>3, <2>4
<1> QED
  BY <1>2, <1>3

LEMMA ProvidersSession ==
    ASSUME Types, pSession # Up \/ pSession.mode = "to"
    PROVE  /\ pSession = To(pSession.stream) /\ pSession.mode = "to"
           /\ pSession.stream \in Known /\ pSession.stream \in Stream
<1>1. PICK j \in Known : pSession = To(j)
  BY DEF Types, ProviderTyped, To, Up
<1> QED
  BY <1>1, KnownStreams DEF To

LEMMA LoopFacts ==
    ASSUME Types, NEW k \in Stream
    PROVE  /\ loops[k] \in [playing : BOOLEAN, event : 0 .. MaxStream]
           /\ loops[k].playing => loops[k] # NoLoop
           /\ loops[k] # NoLoop => loops[k].event \in Stream
BY DEF Types, ProviderTyped, NoLoop

\* Chunk c of stream j, whose position it has not passed, is sent.
LEMMA NetSendsData ==
    ASSUME Types, requested' = requested, NEW j \in Known, NEW c \in Chunk(j),
           net' = net \cup {Data(j, c)},
           \A i \in Stream : position'[i] \in Nat /\ position[i] <= position'[i],
           c <= position'[j]
    PROVE  NetTyped'
<1>1. PICK p : p = Data(j, c)
  OBVIOUS
<1>2. j \in Stream /\ Length[j] \in Nat /\ c \in Nat
  BY KnownStreams, StreamsAssumption DEF Chunk
<1>3. /\ p \in Packets /\ p.to = "requester" /\ p.chunk \in Chunk(p.stream)
      /\ p.chunk <= position'[p.stream] /\ p.stream = j
  BY <1>1, <1>2 DEF Data, Packet, Packets
<1>4. net' = net \cup {p} /\ Packets' = Packets
  BY <1>1 DEF Packets, Known
<1>5. ASSUME NEW m \in net, m.kind = "data"
      PROVE  m.to = "requester" /\ m.chunk \in Chunk(m.stream) /\ m.chunk <= position'[m.stream]
  <2>1. /\ m.to = "requester" /\ m.chunk \in Chunk(m.stream) /\ m.chunk <= position[m.stream]
        /\ m.stream \in Stream /\ m.chunk \in Nat
    BY <1>5, KnownStreams DEF Types, NetTyped, Packets
  <2>2. position[m.stream] \in Nat /\ position'[m.stream] \in Nat
        /\ position[m.stream] <= position'[m.stream]
    BY <2>1 DEF Types, ProviderTyped
  <2> QED
    BY <2>1, <2>2
<1> QED
  BY <1>3, <1>4, <1>5 DEF Types, NetTyped

LEMMA ProviderTypes ==
    ASSUME Types
    PROVE  /\ \A m \in net :
                  ReceiveRequest(m) \/ ReceivePlayback(m) \/ ReceiveRequestersClose(m) => Types'
           /\ Listen \/ Approve \/ Reject \/ OutputDone \/ OutputFails \/ CloseOutput => Types'
           /\ \A k \in Stream :
                  (\/ RunReject(k) \/ StreamTo(k) \/ RunProvidersClose(k)
                   \/ Tick(k) \/ SendAgain(k) \/ HandleEvent(k)) => Types'
<1>1. ASSUME UNCHANGED <<requesterVars, position>>, ProviderTyped',
             \/ net' \subseteq net
             \/ \E to \in {"requester", "provider"} :
                \E kind \in {"request", "reject", "done", "pause", "play", "close"} :
                \E k \in Known : net' \subseteq net \cup {Packet(to, kind, k, 0)}
      PROVE  Types'
  <2>1. requested' = requested
    BY <1>1 DEF requesterVars
  <2>2. NetTyped'
    BY <1>1, <2>1, NetKept, NetSends
  <2> QED
    BY <1>1, <2>2, RequesterQuiet DEF Types
<1>2. ASSUME UNCHANGED <<requesterVars, pSession, position, pClosed, slot, loops>>,
             pHandle' \in {Connection} \cup [kind : {"requested", "output", "lost"}, stream : Known],
             events' \in Seq(Stream), \A i \in 1 .. Len(events') : events'[i] \in Known,
             tasks' \subseteq {"send", "reject", "close"} \X Known
      PROVE  ProviderTyped'
  <2>1. requested' = requested
    BY <1>2 DEF requesterVars
  <2> QED
    BY <1>2, <2>1 DEF Types, ProviderTyped, Known
<1>3. /\ pHandle \in {Connection} \cup [kind : {"requested", "output", "lost"}, stream : Known]
      /\ events \in Seq(Stream) /\ \A i \in 1 .. Len(events) : events[i] \in Known
      /\ tasks \subseteq {"send", "reject", "close"} \X Known
      /\ pHandle.kind # "connection" => pHandle.stream \in Known
  BY DEF Types, ProviderTyped, Connection
<1>4. ASSUME NEW m \in net, ReceiveRequest(m) PROVE Types'
  <2>1. /\ UNCHANGED <<requesterVars, pHandle, pSession, tasks, position, pClosed, slot, loops>>
        /\ net' \subseteq net /\ events' = Append(events, m.stream)
    BY <1>4, TakesFacts DEF ReceiveRequest
  <2>2. m.stream \in Known /\ m.stream \in Stream
    BY KnownStreams DEF Types, NetTyped, Packets
  <2>3. events' \in Seq(Stream) /\ \A i \in 1 .. Len(events') : events'[i] \in Known
    BY <1>3, <2>1, <2>2
  <2>4. ProviderTyped'
    BY <1>2, <1>3, <2>1, <2>3
  <2> QED
    BY <1>1, <2>1, <2>4
<1>5. ASSUME NEW m \in net, ReceivePlayback(m) PROVE Types'
  <2>1. /\ UNCHANGED <<requesterVars, pHandle, pSession, events, tasks, position, pClosed, loops>>
        /\ net' \subseteq net /\ m.kind \in Event
    BY <1>5, TakesFacts DEF ReceivePlayback, Event
  <2>2. slot' \in [Stream -> Event]
    <3>1. slot \in [Stream -> Event]
      BY DEF Types, ProviderTyped
    <3>2. slot' = slot \/ slot' = [slot EXCEPT ![pSession.stream] = m.kind]
      BY <1>5 DEF ReceivePlayback
    <3> QED
      BY <2>1, <3>1, <3>2
  <2>3. requested' = requested
    BY <2>1 DEF requesterVars
  <2>4. ProviderTyped'
    BY <2>1, <2>2, <2>3 DEF Types, ProviderTyped, Known
  <2> QED
    BY <1>1, <2>1, <2>4
<1>6. ASSUME EndProvided(slot) \/ \E i \in Stream : EndProvided([slot EXCEPT ![i] = "none"]),
             UNCHANGED <<requesterVars, pHandle, events, position, loops>>, tasks' \subseteq tasks
      PROVE  ProviderTyped'
  <2>1. slot \in [Stream -> Event] /\ "none" \in Event
    BY DEF Types, ProviderTyped, Event
  <2>2. PICK slots \in [Stream -> Event] : EndProvided(slots)
    BY <1>6, <2>1
  <2>3. requested' = requested
    BY <1>6 DEF requesterVars
  <2>4. /\ pSession' = Up /\ pClosed' \in [Stream -> BOOLEAN] /\ slot' \in [Stream -> Event]
    BY <2>2, ProvidedFacts
  <2> QED
    BY <1>6, <2>3, <2>4 DEF Types, ProviderTyped, Known
<1>7. ASSUME NEW m \in net, ReceiveRequestersClose(m) PROVE Types'
  <2>1. /\ UNCHANGED <<requesterVars, pHandle, events, tasks, position, loops>>
        /\ net' \subseteq net /\ EndProvided(slot)
    BY <1>7, TakesFacts DEF ReceiveRequestersClose
  <2> QED
    BY <1>1, <1>6, <2>1
<1>8. ASSUME Listen \/ Approve \/ Reject \/ OutputDone \/ OutputFails \/ CloseOutput
      PROVE  Types'
  <2>1. UNCHANGED <<requesterVars, pSession, position, pClosed, slot, loops, net>>
    BY <1>8 DEF Listen, Approve, Reject, OutputDone, OutputFails, CloseOutput
  <2>2. CASE Listen
    <3>1. /\ pHandle' = [kind |-> "requested", stream |-> Head(events)]
          /\ events # <<>> /\ events' = Tail(events) /\ tasks' = tasks
      BY <2>2 DEF Listen
    <3>2. /\ Len(events) \in Nat /\ Len(events) >= 1
          /\ Head(events) = events[1] /\ events[1] \in Known
      BY <1>3, <3>1
    <3>3. /\ events' \in Seq(Stream) /\ Len(events') = Len(events) - 1
          /\ \A i \in 1 .. Len(events') : events'[i] = events[i + 1]
      BY <1>3, <3>1
    <3>4. \A i \in 1 .. Len(events') : events'[i] \in Known
      BY <1>3, <3>2, <3>3
    <3> QED
      BY <1>1, <1>2, <1>3, <2>1, <3>1, <3>2, <3>3, <3>4
  <2>3. CASE Approve \/ Reject \/ OutputDone \/ OutputFails \/ CloseOutput
    <3>1. events' = events
      BY <2>3 DEF Approve, Reject, OutputDone, OutputFails, CloseOutput
    <3>2. tasks' \subseteq {"send", "reject", "close"} \X Known
      BY <1>3, <2>3 DEF Approve, Reject, OutputDone, OutputFails, CloseOutput
    <3>3. pHandle' \in {Connection} \cup [kind : {"requested", "output", "lost"}, stream : Known]
      <4>1. CASE OutputFails
        <5>1. /\ pHandle.kind = "output" /\ pHandle' = [pHandle EXCEPT !.kind = "lost"]
              /\ pHandle \in [kind : {"requested", "output", "lost"}, stream : Known]
          BY <1>3, <4>1 DEF OutputFails, Connection
        <5> QED
          BY <5>1
      <4>2. CASE Approve
        <5>1. pHandle.stream \in Known
          BY <1>3, <4>2 DEF Approve
        <5> QED
          BY <4>2, <5>1 DEF Approve
      <4> QED
        BY <2>3, <4>1, <4>2 DEF Reject, OutputDone, CloseOutput
    <3> QED
      BY <1>1, <1>2, <1>3, <2>1, <3>1, <3>2, <3>3
  <2> QED
    BY <1>8, <2>2, <2>3
<1>9. ASSUME NEW k \in Stream, RunReject(k) PROVE Types'
  <2>1. /\ UNCHANGED <<requesterVars, pHandle, pSession, events, position, pClosed, slot, loops>>
        /\ tasks' \subseteq tasks /\ <<"reject", k>> \in tasks
        /\ net' \subseteq net \cup {Packet("requester", "reject", k, 0)}
    BY <1>9 DEF RunReject, TrackRejection
  <2>2. ProviderTyped' /\ k \in Known
    BY <1>2, <1>3, <2>1
  <2> QED
    BY <1>1, <2>1, <2>2
<1>10. ASSUME NEW k \in Stream, StreamTo(k) PROVE Types'
  <2>1. /\ UNCHANGED <<requesterVars, pHandle, events, position, pClosed, slot, net>>
        /\ tasks' \subseteq tasks /\ <<"send", k>> \in tasks
        /\ pSession' = IF pSession = Up THEN To(k) ELSE pSession
        /\ loops' = [loops EXCEPT ![k] = [playing |-> TRUE, event |-> pSession'.stream]]
    BY <1>10 DEF StreamTo, To
  <2>2. k \in Known /\ requested' = requested
    BY <1>3, <2>1 DEF requesterVars
  <2>3. /\ pSession' \in {Up} \cup [mode : {"to"}, stream : Known]
        /\ pSession'.stream \in Known
    BY <2>1, <2>2, ProvidersSession DEF Types, ProviderTyped, To
  <2>4. pSession'.stream \in Stream /\ Stream \subseteq 0 .. MaxStream
    BY <2>3, KnownStreams, StreamsAssumption DEF Stream
  <2>5. PICK l : l = [playing |-> TRUE, event |-> pSession'.stream]
    OBVIOUS
  <2>6. l \in [playing : BOOLEAN, event : 0 .. MaxStream] /\ l.event \in Stream
    BY <2>4, <2>5
  <2>7. /\ loops' \in [Stream -> [playing : BOOLEAN, event : 0 .. MaxStream]]
        /\ \A j \in Stream : loops'[j] # NoLoop => loops'[j].event \in Stream
    BY <2>1, <2>5, <2>6 DEF Types, ProviderTyped
  <2>8. ProviderTyped'
    BY <2>1, <2>2, <2>3, <2>7 DEF Types, ProviderTyped, Known
  <2> QED
    BY <1>1, <2>1, <2>8
<1>11. ASSUME NEW k \in Stream, RunProvidersClose(k) PROVE Types'
  <2>1. /\ UNCHANGED <<requesterVars, pHandle, events, position, loops>>
        /\ tasks' \subseteq tasks /\ <<"close", k>> \in tasks /\ EndProvided(slot)
        /\ net' = net \cup {Packet("requester", "close", k, 0)}
    BY <1>11 DEF RunProvidersClose, Playback
  <2>2. k \in Known
    BY <1>3, <2>1
  <2> QED
    BY <1>1, <1>6, <2>1, <2>2
<1>12. ASSUME NEW k \in Stream, Tick(k) PROVE Types'
  <2>1. PICK j : j = pSession.stream
    OBVIOUS
  <2>2. /\ UNCHANGED <<requesterVars, pHandle, pSession, events, tasks, pClosed, slot, loops>>
        /\ pSession.mode = "to" /\ position[j] < Length[j]
        /\ position' = [position EXCEPT ![j] = @ + 1]
        /\ net' = net \cup {Data(j, position'[j])}
    BY <1>12, <2>1 DEF Tick
  <2>3. j \in Known /\ j \in Stream /\ requested' = requested /\ Length[j] \in Nat
    BY <2>1, <2>2, ProvidersSession, StreamsAssumption DEF requesterVars
  <2>4. /\ position \in [Stream -> Nat]
        /\ \A i \in Stream : position[i] <= Length[i] /\ (position[i] > 0 => i \in Known)
    BY DEF Types, ProviderTyped
  <2>5. /\ position' \in [Stream -> Nat] /\ position'[j] = position[j] + 1
        /\ \A i \in Stream : i # j => position'[i] = position[i]
    BY <2>2, <2>3, <2>4
  <2>6. /\ position'[j] \in Chunk(j)
        /\ \A i \in Stream : /\ position'[i] \in Nat /\ position[i] <= position'[i]
                             /\ position'[i] <= Length[i]
                             /\ position'[i] > 0 => i \in Known
    BY <2>2, <2>3, <2>4, <2>5 DEF Chunk
  <2>7. ProviderTyped'
    BY <2>2, <2>3, <2>5, <2>6 DEF Types, ProviderTyped, Known
  <2>8. NetTyped'
    <3>1. PICK c \in Chunk(j) : c = position'[j]
      BY <2>6
    <3>2. c <= position'[j]
      BY <2>3, <2>6, <3>1
    <3> QED
      BY <2>2, <2>3, <2>6, <3>1, <3>2, NetSendsData
  <2> QED
    BY <2>2, <2>7, <2>8, RequesterQuiet DEF Types
<1>14. ASSUME NEW k \in Stream, SendAgain(k) PROVE Types'
  <2>1. PICK j : j = pSession.stream
    OBVIOUS
  <2>2. /\ UNCHANGED <<requesterVars, providerVars>>
        /\ pSession.mode = "to" /\ position[j] = Length[j]
        /\ \E c \in Chunk(j) : net' = net \cup {Data(j, c)}
    BY <1>14, <2>1 DEF SendAgain
  <2>3. j \in Known /\ j \in Stream /\ requested' = requested /\ position' = position
    BY <2>1, <2>2, ProvidersSession DEF requesterVars, providerVars
  <2>4. \A i \in Stream : position'[i] \in Nat /\ position[i] <= position'[i]
    BY <2>3 DEF Types, ProviderTyped
  <2>5. PICK c \in Chunk(j) : net' = net \cup {Data(j, c)}
    BY <2>2
  <2>6. c <= position'[j]
    BY <2>2, <2>3, <2>5 DEF Chunk
  <2>7. NetTyped'
    BY <2>3, <2>4, <2>5, <2>6, NetSendsData
  <2> QED
    BY <2>2, <2>3, <2>7, RequesterQuiet, ProviderQuiet DEF Types
<1>13. ASSUME NEW k \in Stream, HandleEvent(k) PROVE Types'
  <2>1. /\ UNCHANGED <<requesterVars, pHandle, events, tasks, position, net>>
        /\ loops[k] # NoLoop
        /\ \/ /\ loops' \in {[loops EXCEPT ![k].playing = TRUE],
                             [loops EXCEPT ![k].playing = FALSE]}
              /\ slot' = [slot EXCEPT ![loops[k].event] = "none"]
              /\ UNCHANGED <<pSession, pClosed>>
           \/ EndProvided([slot EXCEPT ![loops[k].event] = "none"]) /\ loops' = loops
    BY <1>13 DEF HandleEvent
  <2>2. PICK i \in Stream : i = loops[k].event
    BY <2>1, LoopFacts
  <2>3. CASE /\ loops' \in {[loops EXCEPT ![k].playing = TRUE],
                            [loops EXCEPT ![k].playing = FALSE]}
             /\ slot' = [slot EXCEPT ![loops[k].event] = "none"]
             /\ UNCHANGED <<pSession, pClosed>>
    <3>1. slot' \in [Stream -> Event]
      BY <2>3 DEF Types, ProviderTyped, Event
    <3>2. PICK b \in BOOLEAN : loops' = [loops EXCEPT ![k].playing = b]
      BY <2>3
    <3>3. PICK l : l = [loops[k] EXCEPT !.playing = b]
      OBVIOUS
    <3>4. l \in [playing : BOOLEAN, event : 0 .. MaxStream] /\ l.event \in Stream
      BY <2>2, <3>3, LoopFacts
    <3>5. loops' = [loops EXCEPT ![k] = l]
      BY <3>2, <3>3
    <3>6. /\ loops' \in [Stream -> [playing : BOOLEAN, event : 0 .. MaxStream]]
          /\ \A j \in Stream : loops'[j] # NoLoop => loops'[j].event \in Stream
      BY <3>4, <3>5 DEF Types, ProviderTyped
    <3>7. requested' = requested
      BY <2>1 DEF requesterVars
    <3>8. ProviderTyped'
      BY <2>1, <2>3, <3>1, <3>6, <3>7 DEF Types, ProviderTyped, Known
    <3> QED
      BY <1>1, <2>1, <3>8
  <2>4. CASE EndProvided([slot EXCEPT ![loops[k].event] = "none"]) /\ loops' = loops
    BY <1>1, <1>6, <2>1, <2>2, <2>4
  <2> QED
    BY <2>1, <2>3, <2>4
<1> QED
  BY <1>4, <1>5, <1>7, <1>8, <1>9, <1>10, <1>11, <1>12, <1>13, <1>14

LEMMA TypesHold == Spec => []Types
<1>1. Init => Types
  <2> SUFFICES ASSUME Init PROVE Types
    OBVIOUS
  <2>1. RequesterTyped
    BY StreamsAssumption DEF Init, RequesterTyped, Messages, Up
  <2>2. ProviderTyped
    BY StreamsAssumption DEF Init, ProviderTyped, Connection, Up, Event, NoLoop
  <2>3. NetTyped
    BY DEF Init, NetTyped
  <2> QED
    BY <2>1, <2>2, <2>3 DEF Types
<1>2. Types /\ [Next]_vars => Types'
  <2> SUFFICES ASSUME Types, [Next]_vars PROVE Types'
    OBVIOUS
  <2>1. CASE UNCHANGED vars
    <3>1. UNCHANGED <<requesterVars, providerVars, net>>
      BY <2>1 DEF vars
    <3>2. requested' = requested /\ position' = position
      BY <3>1 DEF requesterVars, providerVars
    <3> QED
      BY <3>1, <3>2, ProviderQuiet, RequesterQuiet, NetKept DEF Types
  <2>2. CASE RequesterStep
    BY <2>2, RequesterTypes DEF RequesterStep
  <2>3. CASE ProviderStep
    BY <2>3, ProviderTypes DEF ProviderStep
  <2> QED
    BY <2>1, <2>2, <2>3, RequesterTypes, ProviderTypes DEF Next
<1> QED
  BY <1>1, <1>2, PTL DEF Spec

\* The sessions' states, the handles, the messages and the tables of the sending
\* loops keep their types.
THEOREM TypeCorrect == Spec => []TypeOK
<1>1. Types => TypeOK
  <2> SUFFICES ASSUME Types PROVE TypeOK
    OBVIOUS
  <2>1. rSession \in {Up} \cup [mode : {"from"}, stream : Known]
    BY DEF Types, RequesterTyped, From
  <2>2. closing \subseteq Known /\ completing \subseteq Known /\ Known \subseteq Stream
    BY KnownStreams DEF Types, RequesterTyped
  <2>3. /\ rHandle \in {"connection", "retrying", "pending", "input", "completing"}
        /\ message \in [Stream -> Messages]
        /\ \A k \in Stream : got[k] \subseteq Chunk(k) \X Known
    BY DEF Types, RequesterTyped
  <2>4. /\ pHandle \in {Connection} \cup [kind : {"requested", "output", "lost"}, stream : Known]
        /\ pSession \in {Up} \cup [mode : {"to"}, stream : Known]
        /\ tasks \subseteq {"send", "reject", "close"} \X Stream
        /\ slot \in [Stream -> Event]
        /\ \A k \in Stream : loops[k] # NoLoop => loops[k].event \in Stream
        /\ \A k \in Stream : position[k] \in 0 .. Length[k]
    BY <2>2, StreamsAssumption DEF Types, ProviderTyped
  <2> QED
    BY <2>1, <2>2, <2>3, <2>4 DEF TypeOK, Messages, Known
<1> QED
  BY TypesHold, <1>1, PTL

-----------------------------------------------------------------------------
(* Why a request finds the session occupied.                               *)

Explained == rSession.stream \in rejected \cup repaired \cup closing

\* A handle is given back with the session free, or explained; `approved` and
\* `closed` say what has happened to a stream.
AnswersInv ==
    \A k \in Stream :
        /\ k \notin Known => message[k].approved = "none" /\ ~ message[k].closed
        /\ message[k].approved = "no" /\ rSession = From(k) => k \in rejected
        /\ message[k].closed /\ rSession = From(k) => k \in repaired

IdleInv == rHandle \in {"connection", "retrying"} /\ rSession # Up => Explained

OccupiedInv == AnswersInv /\ IdleInv

\* Messages of which only the stream of the session got one.
LEMMA AnswersStep ==
    ASSUME Types, AnswersInv, requested' = requested, NEW k \in Known,
           \A j \in Stream : j # k => message'[j] = message[j],
           \/ rSession' = Up
           \/ /\ rSession' = rSession
              /\ rejected \subseteq rejected' /\ repaired \subseteq repaired'
              /\ message'[k].approved = "no" /\ rSession = From(k) => k \in rejected'
              /\ message'[k].closed /\ rSession = From(k) => k \in repaired'
    PROVE  AnswersInv'
<1>1. \A j : Up # From(j)
  BY DEF Up, From
<1>2. ASSUME NEW j \in Stream
      PROVE  /\ j \notin Known' => message'[j].approved = "none" /\ ~ message'[j].closed
             /\ message'[j].approved = "no" /\ rSession' = From(j) => j \in rejected'
             /\ message'[j].closed /\ rSession' = From(j) => j \in repaired'
  <2>1. CASE j = k
    BY <1>1, <2>1 DEF Known
  <2>2. CASE j # k
    <3>1. message'[j] = message[j]
      BY <2>2
    <3> QED
      BY <1>1, <3>1 DEF AnswersInv, Known
  <2> QED
    BY <2>1, <2>2
<1> QED
  BY <1>2 DEF AnswersInv

\* Closing the stream of the session.
LEMMA AnswersClose ==
    ASSUME Types, AnswersInv, EndRequested, UNCHANGED requested
    PROVE  AnswersInv' /\ rSession' = Up
<1>1. rSession' = Up
  BY EndFacts
<1>2. CASE rSession = Up
  BY <1>1, <1>2, EndFacts DEF AnswersInv, Known, Up, From
<1>3. CASE rSession # Up
  <2>1. /\ rSession.stream = requested /\ requested \in Known /\ requested \in Stream
        /\ EndsStream(requested)
    BY <1>3, EndFacts, SessionStream
  <2> QED
    BY <1>1, <2>1, AnswersStep DEF EndsStream
<1> QED
  BY <1>1, <1>2, <1>3

LEMMA OccupiedStep ==
    ASSUME Types, OccupiedInv, [Next]_vars
    PROVE  OccupiedInv'
<1> USE DEF OccupiedInv
<1>1. ASSUME UNCHANGED requesterVars PROVE OccupiedInv'
  BY <1>1 DEF requesterVars, AnswersInv, IdleInv, Explained, Known
<1>2. ASSUME UNCHANGED <<rSession, requested, message, rejected, repaired>>, IdleInv'
      PROVE  OccupiedInv'
  BY <1>2 DEF AnswersInv, Known
<1>3. ASSUME StartRequest, UNCHANGED message PROVE OccupiedInv'
  <2>1. /\ rHandle' = "pending" /\ requested' = requested + 1
        /\ rSession' = From(requested')
    BY <1>3 DEF StartRequest, From
  <2>2. requested' \notin Known /\ Known \subseteq Known' /\ requested \in Nat
    BY <2>1, StreamsAssumption DEF Types, RequesterTyped, Known
  <2>3. \A k \in Stream : rSession' = From(k) => k \notin Known
    BY <2>1, <2>2 DEF From
  <2> QED
    BY <1>3, <2>1, <2>2, <2>3 DEF AnswersInv, IdleInv
<1>4. ASSUME Request \/ RequestAgain PROVE OccupiedInv'
  <2>1. CASE StartRequest
    BY <1>3, <1>4, <2>1 DEF Request, RequestAgain
  <2>2. CASE ~ StartRequest
    <3>1. /\ UNCHANGED <<rSession, requested, message, rejected, repaired, closing>>
          /\ rHandle \in {"connection", "retrying"}
      BY <1>4, <2>2 DEF Request, RequestAgain
    <3> QED
      BY <1>2, <3>1 DEF IdleInv, Explained
  <2> QED
    BY <2>1, <2>2
<1>5. ASSUME NEW m \in net, ReceiveRejection(m) PROVE OccupiedInv'
  <2>1. UNCHANGED <<rHandle, rSession, requested, closing, repaired>>
    BY <1>5 DEF ReceiveRejection
  <2>2. CASE rSession.mode = "from"
    <3>1. /\ message' = [message EXCEPT ![requested].approved = "no"]
          /\ rejected' = rejected \cup {requested}
          /\ rSession = From(requested) /\ requested \in Known /\ requested \in Stream
      BY <1>5, <2>2, SessionStream DEF ReceiveRejection
    <3>2. /\ message'[requested].closed <=> message[requested].closed
          /\ \A j \in Stream : j # requested => message'[j] = message[j]
      BY <3>1, ApprovalSet
    <3>3. AnswersInv'
      BY <2>1, <3>1, <3>2, AnswersStep DEF AnswersInv
    <3> QED
      BY <2>1, <3>1, <3>3 DEF IdleInv, Explained
  <2>3. CASE rSession.mode # "from"
    BY <1>1, <1>5, <2>1, <2>3 DEF ReceiveRejection, requesterVars
  <2> QED
    BY <2>2, <2>3
<1>6. ASSUME NEW m \in net, ReceiveData(m) PROVE OccupiedInv'
  <2>1. UNCHANGED <<rHandle, requested, closing, rejected, repaired>> /\ m.kind = "data"
    BY <1>6 DEF ReceiveData
  <2>2. CASE ~ (rSession.mode = "from"
                /\ m.chunk \in Chunk(rSession.stream) \ Written(rSession.stream))
    BY <1>2, <1>6, <2>1, <2>2, DataIgnored DEF IdleInv, Explained
  <2>3. CASE /\ rSession.mode = "from"
             /\ m.chunk \in Chunk(rSession.stream) \ Written(rSession.stream)
    <3>1. PICK done \in BOOLEAN :
              /\ Write(rSession.stream, m.chunk, m.stream, done)
              /\ rSession' = IF done THEN Up ELSE rSession
      BY <1>6, <2>3, DataWrites
    <3>2. m.stream \in Known
      BY <2>1 DEF Types, NetTyped, Packets
    <3>3. /\ requested \in Known /\ requested \in Stream /\ rSession = From(requested)
          /\ Writes(requested, m.chunk, m.stream)
          /\ message'[requested].closed <=> (message[requested].closed \/ done)
      BY <2>3, <3>1, <3>2, WriteFacts DEF Write
    <3>4. AnswersInv'
      BY <2>1, <3>1, <3>3, AnswersStep DEF AnswersInv, Writes
    <3> QED
      BY <2>1, <3>1, <3>4 DEF IdleInv, Explained
  <2> QED
    BY <2>2, <2>3
<1>7. ASSUME NEW m \in net, ReceiveProvidersClose(m) PROVE OccupiedInv'
  BY <1>7, AnswersClose DEF ReceiveProvidersClose, IdleInv
<1>8. ASSUME NEW k \in Stream, RunClose(k) PROVE OccupiedInv'
  BY <1>8, AnswersClose DEF RunClose, IdleInv
<1>9. ASSUME Ready PROVE OccupiedInv'
  <2>1. /\ UNCHANGED <<rSession, requested, message, rejected, repaired, closing>>
        /\ requested \in Known /\ requested \in Stream
    BY <1>9, KnownStreams DEF Ready, Types, RequesterTyped
  <2>2. \/ rHandle' = "input"
        \/ rSession.stream = requested /\ message[requested].approved = "no"
        \/ rSession.stream # requested
    <3>1. message[requested].approved \in {"none", "yes", "no"}
      BY <2>1 DEF Types, RequesterTyped, Messages
    <3> QED
      BY <1>9, <3>1 DEF Ready
  <2>3. IdleInv'
    BY <2>1, <2>2, SessionStream DEF IdleInv, Explained, AnswersInv
  <2> QED
    BY <1>2, <2>1, <2>3
<1>10. ASSUME AcceptHoles \/ Complete \/ CloseInput PROVE OccupiedInv'
  <2>1. /\ UNCHANGED <<rSession, requested, message, rejected, repaired>>
        /\ requested \in Known /\ requested \in Stream
    BY <1>10, KnownStreams DEF AcceptHoles, Complete, CloseInput, Types, RequesterTyped
  <2>2. \/ rHandle' = "completing"
        \/ message[requested].closed \/ requested \in closing'
    BY <1>10 DEF AcceptHoles, Complete, CloseInput
  <2>3. IdleInv'
    BY <2>1, <2>2, SessionStream DEF IdleInv, Explained, AnswersInv
  <2> QED
    BY <1>2, <2>1, <2>3
<1>11. ASSUME Recover PROVE OccupiedInv'
  <2>1. /\ UNCHANGED <<rHandle, rSession, requested, closing, rejected>>
        /\ rSession.mode = "from"
    BY <1>11 DEF Recover
  <2>2. PICK j \in Known, c \in Chunk(rSession.stream), done \in BOOLEAN :
            /\ Write(rSession.stream, c, j, done)
            /\ repaired' = IF done THEN repaired \cup {rSession.stream} ELSE repaired
    BY <1>11, RecoverWrites
  <2>3. /\ requested \in Known /\ requested \in Stream /\ rSession.stream = requested
        /\ rSession = From(requested)
        /\ Writes(requested, c, j)
        /\ message'[requested].closed <=> (message[requested].closed \/ done)
    BY <2>1, <2>2, WriteFacts DEF Write
  <2>4. message'[requested].closed => requested \in repaired'
    BY <2>2, <2>3 DEF OccupiedInv, AnswersInv
  <2>5. repaired \subseteq repaired'
    BY <2>2
  <2>6. AnswersInv'
    BY <2>1, <2>3, <2>4, <2>5, AnswersStep DEF Writes
  <2> QED
    BY <2>1, <2>5, <2>6 DEF IdleInv, Explained
<1>15. ASSUME NEW k \in Stream, RunComplete(k) PROVE OccupiedInv'
  <2>1. UNCHANGED <<rHandle, rSession, requested, closing, rejected, repaired>>
    BY <1>15 DEF RunComplete
  <2>2. CASE rSession.mode = "from"
    <3>1. /\ message' = [message EXCEPT ![requested].partial = TRUE]
          /\ rSession = From(requested) /\ requested \in Known /\ requested \in Stream
      BY <1>15, <2>2, SessionStream DEF RunComplete
    <3>2. /\ message'[requested].closed <=> message[requested].closed
          /\ message'[requested].approved = message[requested].approved
          /\ \A j \in Stream : j # requested => message'[j] = message[j]
      BY <3>1, PartialSet
    <3>3. AnswersInv'
      BY <2>1, <3>1, <3>2, AnswersStep DEF AnswersInv
    <3> QED
      BY <2>1, <3>3 DEF IdleInv, Explained
  <2>3. CASE rSession.mode # "from"
    BY <1>2, <1>15, <2>1, <2>3 DEF RunComplete, IdleInv, Explained
  <2> QED
    BY <2>2, <2>3
<1>12. ASSUME NEW paused \in BOOLEAN, PauseOrPlay(paused) PROVE OccupiedInv'
  <2>1. UNCHANGED <<rHandle, rSession, requested, closing, rejected, repaired>>
    BY <1>12 DEF PauseOrPlay
  <2>2. CASE rSession.mode = "from"
    <3>1. /\ message' = [message EXCEPT ![requested].paused = paused]
          /\ rSession = From(requested) /\ requested \in Known /\ requested \in Stream
      BY <1>12, <2>2, SessionStream DEF PauseOrPlay
    <3>2. /\ message'[requested].closed <=> message[requested].closed
          /\ message'[requested].approved = message[requested].approved
          /\ \A j \in Stream : j # requested => message'[j] = message[j]
      BY <3>1, PauseSet
    <3>3. AnswersInv'
      BY <2>1, <3>1, <3>2, AnswersStep DEF AnswersInv
    <3> QED
      BY <2>1, <3>3 DEF IdleInv, Explained
  <2>3. CASE rSession.mode # "from"
    BY <1>2, <1>12, <2>1, <2>3 DEF PauseOrPlay, IdleInv, Explained
  <2> QED
    BY <2>2, <2>3
<1>13. CASE UNCHANGED vars
  BY <1>1, <1>13 DEF vars
<1>14. ASSUME ProviderStep \/ CloseOutput PROVE OccupiedInv'
  <2>1. UNCHANGED requesterVars
    BY <1>14 DEF ProviderStep, CloseOutput, ReceiveRequest, ReceivePlayback,
                 ReceiveRequestersClose, Listen, Approve, Reject, OutputDone, OutputFails,
                 RunReject, StreamTo, RunProvidersClose, Tick, SendAgain, HandleEvent
  <2> QED
    BY <1>1, <2>1
<1> QED
  BY <1>4, <1>5, <1>6, <1>7, <1>8, <1>9, <1>10, <1>11, <1>12, <1>13, <1>14, <1>15
     DEF Next, RequesterStep

\* A request that finds the session occupied ("These two should be impossible")
\* follows a rejection or a recovered stream, or meets a closing under way.
THEOREM OccupiedOnlyWhenExplained == Spec => []OccupiedIsExplained
<1>1. Init => OccupiedInv
  BY StreamsAssumption DEF Init, OccupiedInv, AnswersInv, IdleInv, Up, From
<1>2. OccupiedInv => OccupiedIsExplained
  BY DEF OccupiedInv, IdleInv, Explained, OccupiedIsExplained
<1> QED
  BY TypesHold, <1>1, <1>2, OccupiedStep, PTL DEF Spec

-----------------------------------------------------------------------------
(* What one stream leaves to the next.                                     *)

\* Whatever closes a stream, later than its call perhaps, was called on that
\* stream by an application.
ClosesInv ==
    /\ ended \subseteq Known
    /\ closing \subseteq ended
    /\ \A m \in net : m.kind = "close" => m.stream \in ended
    /\ \A k \in Stream : <<"close", k>> \in tasks => k \in ended

LEMMA ClosesStep ==
    ASSUME Types, ClosesInv, [Next]_vars
    PROVE  ClosesInv' /\ ended \subseteq ended' /\ Known \subseteq Known'
<1> USE DEF ClosesInv
<1>1. Known \subseteq Known' /\ (requested' = requested \/ requested' = requested + 1)
  <2>1. requested' = requested \/ requested' = requested + 1
    BY DEF Next, RequesterStep, ProviderStep, vars, requesterVars, StartRequest,
           Request, RequestAgain, ReceiveRejection, ReceiveData, ReceiveProvidersClose, Ready,
           AcceptHoles, Complete, CloseInput, RunClose, RunComplete, Recover, PauseOrPlay,
           ReceiveRequest, ReceivePlayback, ReceiveRequestersClose, Listen, Approve, Reject,
           OutputDone, OutputFails, CloseOutput, RunReject, StreamTo, RunProvidersClose, Tick,
           SendAgain, HandleEvent, providerVars
  <2> QED
    BY <2>1, StreamsAssumption DEF Types, RequesterTyped, Known
<1>2. ASSUME NEW out, net' \subseteq net \cup out, ended' = ended, closing' \subseteq closing,
             tasks' \subseteq tasks \cup {<<"send", pHandle.stream>>, <<"reject", pHandle.stream>>},
             \A m \in out : m.kind = "close" => m.stream \in ended
      PROVE  ClosesInv' /\ ended \subseteq ended'
  BY <1>1, <1>2
<1>3. ASSUME Request \/ RequestAgain PROVE ClosesInv' /\ ended \subseteq ended'
  <2>1. PICK out : out = {TrackRequest(requested + 1)}
    OBVIOUS
  <2>2. \A m \in out : m.kind = "request"
    BY <2>1 DEF TrackRequest, Packet
  <2>3. net' \subseteq net \cup out /\ UNCHANGED <<ended, closing, tasks>>
    BY <1>3, <2>1 DEF Request, RequestAgain, StartRequest, providerVars
  <2> QED
    BY <1>2, <2>2, <2>3
<1>4. ASSUME net' \subseteq net, UNCHANGED <<ended, closing>>, tasks' \subseteq tasks
      PROVE  ClosesInv' /\ ended \subseteq ended'
  <2>1. PICK out : out = {}
    OBVIOUS
  <2> QED
    BY <1>2, <1>4, <2>1
<1>5. ASSUME NEW m \in net, ReceiveRejection(m) \/ ReceiveProvidersClose(m)
      PROVE  ClosesInv' /\ ended \subseteq ended'
  BY <1>4, <1>5, TakesFacts DEF ReceiveRejection, ReceiveProvidersClose, providerVars
<1>6. ASSUME NEW m \in net,
             ReceiveRequest(m) \/ ReceivePlayback(m) \/ ReceiveRequestersClose(m)
      PROVE  ClosesInv' /\ ended \subseteq ended'
  BY <1>4, <1>6, TakesFacts DEF ReceiveRequest, ReceivePlayback, ReceiveRequestersClose,
                                requesterVars
<1>7. ASSUME NEW k, NEW to, NEW kind, kind # "close",
             net' \subseteq net \cup {Packet(to, kind, k, 0)},
             UNCHANGED <<ended, closing>>, tasks' \subseteq tasks
      PROVE  ClosesInv' /\ ended \subseteq ended'
  <2>1. PICK out : out = {Packet(to, kind, k, 0)}
    OBVIOUS
  <2>2. \A m \in out : m.kind # "close"
    BY <1>7, <2>1 DEF Packet
  <2> QED
    BY <1>2, <1>7, <2>1, <2>2
<1>8. ASSUME NEW m \in net, ReceiveData(m) PROVE ClosesInv' /\ ended \subseteq ended'
  <2>1. UNCHANGED <<ended, closing, tasks>>
    BY <1>8 DEF ReceiveData, providerVars
  <2>2. \/ net' \subseteq net
        \/ net' \subseteq net \cup {Packet("provider", "done", rSession.stream, 0)}
    <3>1. CASE ~ (rSession.mode = "from"
                  /\ m.chunk \in Chunk(rSession.stream) \ Written(rSession.stream))
      BY <1>8, <3>1, DataIgnored, TakesFacts
    <3>2. CASE /\ rSession.mode = "from"
               /\ m.chunk \in Chunk(rSession.stream) \ Written(rSession.stream)
      BY <1>8, <3>2, DataWrites, TakesFacts DEF Playback
    <3> QED
      BY <3>1, <3>2
  <2> QED
    BY <1>4, <1>7, <2>1, <2>2
<1>9. ASSUME Recover PROVE ClosesInv' /\ ended \subseteq ended'
  <2>1. UNCHANGED <<ended, closing, tasks>>
    BY <1>9 DEF Recover, providerVars
  <2>2. \/ net' = net
        \/ net' = net \cup {Packet("provider", "done", rSession.stream, 0)}
    BY <1>9, RecoverWrites DEF Playback
  <2> QED
    BY <1>4, <1>7, <2>1, <2>2
<1>10. ASSUME NEW paused \in BOOLEAN, PauseOrPlay(paused)
       PROVE  ClosesInv' /\ ended \subseteq ended'
  BY <1>7, <1>10 DEF PauseOrPlay, Playback, providerVars
<1>11. ASSUME Ready \/ AcceptHoles \/ Complete \/ \E k \in Stream : RunComplete(k)
       PROVE  ClosesInv' /\ ended \subseteq ended'
  BY <1>4, <1>11 DEF Ready, AcceptHoles, Complete, RunComplete, providerVars
<1>12. ASSUME CloseInput PROVE ClosesInv' /\ ended \subseteq ended'
  <2>1. /\ UNCHANGED <<requested, net, tasks>> /\ requested \in Known
        /\ closing' = closing \cup {requested} /\ ended' = ended \cup {requested}
    BY <1>12 DEF CloseInput, providerVars, Types, RequesterTyped
  <2> QED
    BY <2>1 DEF Known
<1>13. ASSUME NEW k \in Stream, RunClose(k) PROVE ClosesInv' /\ ended \subseteq ended'
  <2>1. PICK p : p = Playback("provider", "close", k)
    OBVIOUS
  <2>2. /\ k \in closing /\ closing' = closing \ {k} /\ UNCHANGED <<requested, ended, tasks>>
        /\ net' = net \cup {p}
    BY <1>13, <2>1 DEF RunClose, providerVars
  <2>3. p.stream = k
    BY <2>1 DEF Playback, Packet
  <2> QED
    BY <2>2, <2>3 DEF Known
<1>14. ASSUME Listen \/ OutputDone \/ OutputFails \/ Approve \/ Reject
       PROVE  ClosesInv' /\ ended \subseteq ended'
  <2>1. PICK out : out = {}
    OBVIOUS
  <2>2. /\ net' = net /\ UNCHANGED <<ended, closing>>
        /\ tasks' \subseteq tasks \cup {<<"send", pHandle.stream>>, <<"reject", pHandle.stream>>}
    BY <1>14 DEF Listen, OutputDone, OutputFails, Approve, Reject, requesterVars
  <2> QED
    BY <1>2, <2>1, <2>2
<1>15. ASSUME CloseOutput PROVE ClosesInv' /\ ended \subseteq ended'
  <2>1. /\ UNCHANGED <<requested, net, closing>>
        /\ tasks' = tasks \cup {<<"close", pHandle.stream>>}
        /\ ended' = ended \cup {pHandle.stream}
        /\ pHandle.stream \in Known
    BY <1>15 DEF CloseOutput, requesterVars, Types, ProviderTyped, Connection
  <2> QED
    BY <2>1 DEF Known
<1>16. ASSUME NEW k \in Stream, RunReject(k) PROVE ClosesInv' /\ ended \subseteq ended'
  <2>1. /\ net' \subseteq net \cup {Packet("requester", "reject", k, 0)}
        /\ UNCHANGED <<ended, closing>> /\ tasks' \subseteq tasks
    BY <1>16 DEF RunReject, TrackRejection, requesterVars
  <2> QED
    BY <1>7, <2>1
<1>17. ASSUME NEW k \in Stream, StreamTo(k) \/ HandleEvent(k)
       PROVE  ClosesInv' /\ ended \subseteq ended'
  BY <1>4, <1>17 DEF StreamTo, HandleEvent, requesterVars
<1>18. ASSUME NEW k \in Stream, RunProvidersClose(k)
       PROVE  ClosesInv' /\ ended \subseteq ended'
  <2>1. PICK p : p = Playback("requester", "close", k)
    OBVIOUS
  <2>2. /\ <<"close", k>> \in tasks /\ tasks' \subseteq tasks
        /\ UNCHANGED <<requested, ended, closing>> /\ net' = net \cup {p}
    BY <1>18, <2>1 DEF RunProvidersClose, requesterVars
  <2>3. p.stream = k
    BY <2>1 DEF Playback, Packet
  <2> QED
    BY <2>2, <2>3 DEF Known
<1>19. ASSUME NEW k \in Stream, Tick(k) PROVE ClosesInv' /\ ended \subseteq ended'
  <2>1. PICK out : out = {Data(pSession.stream, position'[pSession.stream])}
    OBVIOUS
  <2>2. \A m \in out : m.kind = "data"
    BY <2>1 DEF Data, Packet
  <2>3. net' = net \cup out /\ UNCHANGED <<ended, closing, tasks>>
    BY <1>19, <2>1 DEF Tick, requesterVars
  <2> QED
    BY <1>2, <2>2, <2>3
<1>23. ASSUME NEW k \in Stream, SendAgain(k) PROVE ClosesInv' /\ ended \subseteq ended'
  <2>1. PICK c \in Chunk(pSession.stream) : net' = net \cup {Data(pSession.stream, c)}
    BY <1>23 DEF SendAgain
  <2>2. PICK out : out = {Data(pSession.stream, c)}
    OBVIOUS
  <2>3. \A m \in out : m.kind = "data"
    BY <2>2 DEF Data, Packet
  <2>4. net' = net \cup out /\ UNCHANGED <<ended, closing, tasks>>
    BY <1>23, <2>1, <2>2 DEF SendAgain, requesterVars, providerVars
  <2> QED
    BY <1>2, <2>3, <2>4
<1>20. ASSUME UNCHANGED vars PROVE ClosesInv' /\ ended \subseteq ended'
  BY <1>4, <1>20 DEF vars, requesterVars, providerVars
<1> HIDE DEF ClosesInv
<1>21. ASSUME RequesterStep PROVE ClosesInv' /\ ended \subseteq ended'
  BY <1>3, <1>5, <1>8, <1>11, <1>13, <1>21 DEF RequesterStep
<1>22. ASSUME ProviderStep PROVE ClosesInv' /\ ended \subseteq ended'
  BY <1>6, <1>14, <1>16, <1>17, <1>18, <1>19, <1>22, <1>23 DEF ProviderStep
<1> QED
  BY <1>1, <1>3, <1>9, <1>10, <1>11, <1>12, <1>15, <1>20, <1>21, <1>22 DEF Next

\* What ended in another way than by taking each of its packets once, or had a
\* stream before it that did.
Excused(j) == \E i \in ended \cup loose : i <= j

Foreign ==
    \A k \in Stream : \A p \in got[k] : p[2] # k => p[2] < k /\ Excused(p[2])

\* A chunk is sent in order, and none is both in a buffer and on its way.
SentOnce ==
    /\ \A k \in Stream : \A p \in got[k] : p[1] <= position[p[2]]
    /\ \A j \in Stream : \A c \in Chunk(j) :
           Data(j, c) \in net /\ <<c, j>> \in Arrived => Excused(j)

\* A stream of the past got all its chunks, unless it is excused.
NothingLeft ==
    \A j \in Known : rSession # From(j) =>
        Excused(j) \/ \A c \in Chunk(j) : <<c, j>> \in got[j] /\ Data(j, c) \notin net

LeavesInv == loose \subseteq Known /\ Foreign /\ SentOnce /\ NothingLeft

LEMMA DataFacts ==
    ASSUME Types, NEW m \in net, m.kind = "data"
    PROVE  /\ m.stream \in Known /\ m.stream \in Stream /\ m.chunk \in Chunk(m.stream)
           /\ m = Data(m.stream, m.chunk)
           /\ m.chunk <= position[m.stream]
BY KnownStreams DEF Types, NetTyped, Packets, Data, Packet

LEMMA GotFacts ==
    ASSUME Types, NEW k \in Stream, NEW p \in got[k]
    PROVE  /\ p[1] \in Chunk(k) /\ p[2] \in Known /\ p[2] \in Stream /\ p = <<p[1], p[2]>>
           /\ p \in Arrived /\ p[1] \in Written(k) /\ p[1] \in Nat
<1>1. p[1] \in Chunk(k) /\ p[2] \in Known /\ p[2] \in Stream /\ p = <<p[1], p[2]>>
  BY KnownStreams DEF Types, RequesterTyped
<1>2. p \in Arrived
  BY DEF Arrived
<1>3. p[1] \in Written(k)
  BY DEF Written
<1>4. p[1] \in Nat
  BY <1>1, StreamsAssumption DEF Chunk
<1> QED
  BY <1>1, <1>2, <1>3, <1>4

LEMMA DataKinds ==
    ASSUME NEW j, NEW c
    PROVE  /\ Data(j, c).kind = "data" /\ Data(j, c).stream = j /\ Data(j, c).chunk = c
           /\ \A i, b : Data(i, b) = Data(j, c) => i = j /\ b = c
BY DEF Data, Packet

LEMMA ExcusedGrows ==
    ASSUME ended \subseteq ended', loose \subseteq loose', NEW j
    PROVE  Excused(j) => Excused(j)'
BY DEF Excused

\* A step that gives no stream a chunk and sends none; if it frees the session,
\* an application closed that stream or one before it.
LEMMA LeavesQuiet ==
    ASSUME Types, LeavesInv, ended \subseteq ended', loose' = loose, got' = got,
           position' = position, requested' = requested,
           \A m \in net' : m.kind = "data" => m \in net,
           rSession' = rSession \/ (rSession' = Up /\ (rSession # Up => Excused(requested)))
    PROVE  LeavesInv'
<1>1. \A j : Excused(j) => Excused(j)'
  BY ExcusedGrows
<1>2. \A j, c : Data(j, c) \in net' => Data(j, c) \in net
  BY DataKinds
<1>3. Arrived' = Arrived
  BY DEF Arrived
<1>4. \A j \in Stream : rSession = From(j) => rSession' = From(j) \/ Excused(j)
  BY SessionStream DEF From, Up
<1>5. Known' = Known
  BY DEF Known
<1>6. loose' \subseteq Known' /\ Foreign'
  BY <1>1, <1>5 DEF LeavesInv, Foreign
<1>7. SentOnce'
  BY <1>1, <1>2, <1>3 DEF LeavesInv, SentOnce, Data, Packet
<1>8. NothingLeft'
  <2>1. ASSUME NEW j \in Known, rSession' # From(j)
        PROVE  Excused(j)' \/ \A c \in Chunk(j) : <<c, j>> \in got'[j] /\ Data(j, c) \notin net'
    <3>1. j \in Stream
      BY KnownStreams
    <3>2. Excused(j) \/ \A c \in Chunk(j) : <<c, j>> \in got[j] /\ Data(j, c) \notin net
      BY <1>4, <2>1, <3>1 DEF LeavesInv, NothingLeft
    <3> QED
      BY <1>1, <1>2, <3>2
  <2> QED
    BY <1>5, <2>1 DEF NothingLeft, From, Data, Packet
<1> QED
  BY <1>6, <1>7, <1>8 DEF LeavesInv

\* The next stream starts.
LEMMA LeavesStart ==
    ASSUME Types, LeavesInv, StartRequest, UNCHANGED <<got, position, ended, loose>>,
           rSession = Up
    PROVE  LeavesInv'
<1>1. \A j : Excused(j)' <=> Excused(j)
  BY DEF Excused
<1>2. \A j, c : Data(j, c) \in net' => Data(j, c) \in net
  <2>1. \A m \in net' : m.kind = "data" => m \in net
    BY DEF StartRequest, TrackRequest, Packet
  <2> QED
    BY <2>1, DataKinds
<1>3. Arrived' = Arrived
  BY DEF Arrived
<1>4. /\ requested \in Nat /\ requested' = requested + 1 /\ rSession' = From(requested')
      /\ \A j : Up # From(j)
  BY DEF StartRequest, From, Up, Types, RequesterTyped
<1>5. loose' \subseteq Known' /\ Foreign'
  BY <1>1, <1>4 DEF LeavesInv, Foreign, Known
<1>6. SentOnce'
  BY <1>1, <1>2, <1>3 DEF LeavesInv, SentOnce, Data, Packet
<1>7. NothingLeft'
  <2>1. ASSUME NEW j \in Known', rSession' # From(j)
        PROVE  Excused(j)' \/ \A c \in Chunk(j) : <<c, j>> \in got'[j] /\ Data(j, c) \notin net'
    <3>1. j \in Known
      BY <1>4, <2>1 DEF Known
    <3>2. Excused(j) \/ \A c \in Chunk(j) : <<c, j>> \in got[j] /\ Data(j, c) \notin net
      BY <1>4, <3>1 DEF LeavesInv, NothingLeft
    <3> QED
      BY <1>1, <1>2, <3>2
  <2> QED
    BY <2>1 DEF NothingLeft, From, Data, Packet
<1> QED
  BY <1>5, <1>6, <1>7 DEF LeavesInv

\* A chunk of j, sent before, is written to the stream of the session.
LEMMA ChunkWritten ==
    ASSUME Types, LeavesInv, NEW k \in Stream, NEW c, NEW j \in Known,
           got' = [got EXCEPT ![k] = @ \cup {<<c, j>>}],
           position' = position, ended' = ended, loose \subseteq loose',
           c <= position[j], j # k => j < k /\ Excused(j)'
    PROVE  /\ Foreign'
           /\ \A i \in Stream : \A p \in got'[i] : p[1] <= position'[p[2]]
           /\ Arrived' = Arrived \cup {<<c, j>>}
           /\ Written(k)' = Written(k) \cup {c}
           /\ \A i \in Stream : i # k => got'[i] = got[i]
           /\ got'[k] = got[k] \cup {<<c, j>>}
           /\ \A i : Excused(i) => Excused(i)'
<1>1. /\ \A i \in Stream : i # k => got'[i] = got[i]
      /\ got'[k] = got[k] \cup {<<c, j>>}
  BY DEF Types, RequesterTyped
<1>2. <<c, j>>[1] = c /\ <<c, j>>[2] = j
  OBVIOUS
<1>3. \A i : Excused(i) => Excused(i)'
  BY ExcusedGrows
<1>4. Foreign'
  BY <1>1, <1>2, <1>3 DEF LeavesInv, Foreign
<1>5. \A i \in Stream : \A p \in got'[i] : p[1] <= position'[p[2]]
  BY <1>1, <1>2 DEF LeavesInv, SentOnce
<1>6. Written(k)' = Written(k) \cup {c}
  BY <1>1, <1>2 DEF Written
<1>7. Arrived' = Arrived \cup {<<c, j>>}
  BY <1>1 DEF Arrived
<1> QED
  BY <1>1, <1>3, <1>4, <1>5, <1>6, <1>7

\* A stream that ends with every chunk written got each of them from its own
\* provider, unless it is excused.
LEMMA WholeIsOwn ==
    ASSUME Types', ended' \subseteq Known', loose' \subseteq Known', Foreign',
           NEW k \in Stream, k \in Known', Written(k)' = Chunk(k), ~ Excused(k)',
           NEW b \in Chunk(k)
    PROVE  <<b, k>> \in got'[k]
<1>1. PICK p \in got'[k] : p[1] = b
  BY DEF Written
<1>2. p = <<p[1], p[2]>> /\ p[2] \in Known'
  BY DEF Types, RequesterTyped
<1>3. ASSUME p[2] # k PROVE FALSE
  <2>1. p[2] < k /\ Excused(p[2])'
    BY <1>1, <1>3 DEF Foreign
  <2>2. PICK e \in ended' \cup loose' : e <= p[2]
    BY <2>1 DEF Excused
  <2>3. e \in Nat /\ p[2] \in Nat /\ k \in Nat
    BY <1>2, <2>2, StreamsAssumption DEF Known, Stream
  <2>4. e <= k
    BY <2>1, <2>2, <2>3
  <2> QED
    BY <2>2, <2>4 DEF Excused
<1> QED
  BY <1>1, <1>2, <1>3

LEMMA LeavesData ==
    ASSUME Types, Types', LeavesInv, ended \subseteq Known, NEW m \in net, ReceiveData(m)
    PROVE  LeavesInv'
<1>1. m.kind = "data" /\ UNCHANGED <<requested, position, ended>>
  BY DEF ReceiveData, providerVars
<1>2. CASE ~ (rSession.mode = "from"
              /\ m.chunk \in Chunk(rSession.stream) \ Written(rSession.stream))
  <2>1. UNCHANGED <<got, rSession, loose>> /\ net' \subseteq net
    BY <1>2, DataIgnored, TakesFacts
  <2> QED
    BY <1>1, <2>1, LeavesQuiet
<1>3. CASE rSession.mode = "from" /\ m.chunk \in Chunk(rSession.stream) \ Written(rSession.stream)
  <2>1. /\ rSession = From(requested) /\ rSession.stream = requested
        /\ requested \in Known /\ requested \in Stream
    BY <1>3, SessionStream
  <2>2. PICK k \in Stream : k = requested
    BY <2>1
  <2>3. PICK c, j, packet :
            c = m.chunk /\ j = m.stream /\ packet = Playback("provider", "done", k)
    BY <2>1
  <2>4. /\ c \in Chunk(j) /\ j \in Known /\ j \in Stream /\ m = Data(j, c) /\ c <= position[j]
    BY <1>1, <2>3, DataFacts
  <2>5. packet.kind = "done"
    BY <2>3 DEF Playback, Packet
  <2>6. PICK done \in BOOLEAN :
            /\ MayEnd(k, c, done)
            /\ Takes(m, IF done THEN {packet} ELSE {})
            /\ got' = [got EXCEPT ![k] = @ \cup {<<c, j>>}]
            /\ rSession' = IF done THEN Up ELSE rSession
            /\ loose' = IF done /\ ~ Whole(k, c) THEN loose \cup {k} ELSE loose
    BY <1>3, <2>1, <2>2, <2>3, DataWrites DEF Write
  <2>7. net' \subseteq (net \ {m}) \cup {packet}
    BY <1>1, <2>6, TakesFacts
  <2>8. rSession = From(k) /\ \A i \in Stream : rSession = From(i) <=> i = k
    BY <2>1, <2>2 DEF From
  <2>9. loose \subseteq loose' /\ loose' \subseteq Known' /\ Known' = Known
    BY <1>1, <2>1, <2>2, <2>6 DEF Known, LeavesInv
  <2>10. j # k => j < k /\ Excused(j)'
    <3>1. ASSUME j # k PROVE j < k
      BY <2>2, <2>4, <3>1, StreamsAssumption DEF Known, Stream
    <3>2. ASSUME j # k PROVE Excused(j)
      BY <2>4, <2>8, <3>2 DEF LeavesInv, NothingLeft
    <3> QED
      BY <1>1, <2>9, <3>1, <3>2, ExcusedGrows
  <2>11. /\ Foreign'
         /\ \A i \in Stream : \A p \in got'[i] : p[1] <= position'[p[2]]
         /\ Arrived' = Arrived \cup {<<c, j>>}
         /\ Written(k)' = Written(k) \cup {c}
         /\ \A i \in Stream : i # k => got'[i] = got[i]
         /\ got'[k] = got[k] \cup {<<c, j>>}
         /\ \A i : Excused(i) => Excused(i)'
    BY <1>1, <2>4, <2>6, <2>9, <2>10, ChunkWritten
  <2>12. \A i, b : Data(i, b) \in net' => Data(i, b) \in net /\ <<b, i>> # <<c, j>>
    BY <2>4, <2>5, <2>7, DataKinds
  <2>13. ASSUME NEW i \in Stream, NEW b \in Chunk(i), Data(i, b) \in net', <<b, i>> \in Arrived'
         PROVE  Excused(i)'
    <3>1. Data(i, b) \in net /\ <<b, i>> \in Arrived
      BY <2>11, <2>12, <2>13
    <3> QED
      BY <2>11, <3>1 DEF LeavesInv, SentOnce
  <2>14. SentOnce'
    BY <2>11, <2>13 DEF SentOnce, Data, Packet
  <2>15. ASSUME NEW i \in Known, rSession' # From(i)
         PROVE  Excused(i)' \/ \A b \in Chunk(i) : <<b, i>> \in got'[i] /\ Data(i, b) \notin net'
    <3>1. i \in Stream
      BY KnownStreams
    <3>2. CASE i # k
      BY <2>8, <2>11, <2>12, <3>1, <3>2 DEF LeavesInv, NothingLeft
    <3>3. CASE i = k /\ ~ Excused(k)'
      <4>1. done
        BY <2>6, <2>8, <2>15, <3>3
      <4>2. Whole(k, c)
        <5>1. ASSUME ~ Whole(k, c) PROVE Excused(k)'
          <6>1. k \in loose' /\ k <= k
            BY <2>6, <4>1, <5>1, StreamsAssumption DEF Stream
          <6> QED
            BY <6>1 DEF Excused
        <5> QED
          BY <3>3, <5>1
      <4>3. Written(k)' = Chunk(k)
        BY <2>11, <4>2 DEF Whole
      <4>4. ended' \subseteq Known' /\ k \in Known'
        BY <1>1, <2>1, <2>2, <2>9
      <4>5. ASSUME NEW b \in Chunk(k) PROVE <<b, k>> \in got'[k] /\ Data(k, b) \notin net'
        <5>1. <<b, k>> \in got'[k]
          BY <2>9, <2>11, <3>3, <4>3, <4>4, WholeIsOwn
        <5>2. <<b, k>> \in Arrived'
          BY <5>1 DEF Arrived
        <5> QED
          BY <2>13, <3>3, <5>1, <5>2
      <4> QED
        BY <3>3, <4>5
    <3> QED
      BY <3>2, <3>3
  <2>16. NothingLeft'
    BY <2>9, <2>15 DEF NothingLeft, From, Data, Packet
  <2> QED
    BY <2>9, <2>11, <2>14, <2>16 DEF LeavesInv
<1> QED
  BY <1>2, <1>3

LEMMA LeavesRecover ==
    ASSUME Types, LeavesInv, Recover
    PROVE  LeavesInv'
<1>1. /\ rSession.mode = "from"
      /\ UNCHANGED <<requested, position, ended, rSession>>
  BY DEF Recover, providerVars
<1>2. /\ rSession = From(requested) /\ rSession.stream = requested
      /\ requested \in Known /\ requested \in Stream
  BY <1>1, SessionStream
<1>3. PICK k \in Stream : k = requested
  BY <1>2
<1>4. PICK packet : packet = Playback("provider", "done", k)
  OBVIOUS
<1>5. PICK j \in Stream, c \in Chunk(k), done \in BOOLEAN :
          /\ j \in Known /\ c <= position[j]
          /\ got' = [got EXCEPT ![k] = @ \cup {<<c, j>>}]
          /\ net' = IF done THEN net \cup {packet} ELSE net
          /\ loose' = loose \cup {j} \cup (IF done /\ ~ Whole(k, c) THEN {k} ELSE {})
  BY <1>2, <1>3, <1>4, RecoverWrites DEF Write
<1>6. rSession = From(k) /\ \A i \in Stream : rSession = From(i) <=> i = k
  BY <1>2, <1>3 DEF From
<1>7. /\ loose \subseteq loose' /\ loose' \subseteq Known' /\ Known' = Known
      /\ j \in loose'
  BY <1>1, <1>2, <1>3, <1>5 DEF Known, LeavesInv
<1>8. Excused(j)'
  <2>1. j <= j
    BY StreamsAssumption DEF Stream
  <2> QED
    BY <1>7, <2>1 DEF Excused
<1>9. j # k => j < k /\ Excused(j)'
  BY <1>3, <1>5, <1>8, StreamsAssumption DEF Known, Stream
<1>10. /\ Foreign'
       /\ \A i \in Stream : \A p \in got'[i] : p[1] <= position'[p[2]]
       /\ Arrived' = Arrived \cup {<<c, j>>}
       /\ \A i \in Stream : i # k => got'[i] = got[i]
       /\ \A i : Excused(i) => Excused(i)'
  <2>1. /\ got' = [got EXCEPT ![k] = @ \cup {<<c, j>>}] /\ c <= position[j] /\ j \in Known
        /\ position' = position /\ ended' = ended
    BY <1>1, <1>5
  <2>2. loose \subseteq loose' /\ (j # k => j < k /\ Excused(j)')
    BY <1>7, <1>9
  <2>3. SUFFICES
          ASSUME NEW b, NEW i \in Known, b = c, i = j
          PROVE  /\ Foreign'
                 /\ \A h \in Stream : \A p \in got'[h] : p[1] <= position'[p[2]]
                 /\ Arrived' = Arrived \cup {<<b, i>>}
                 /\ \A h \in Stream : h # k => got'[h] = got[h]
                 /\ \A h : Excused(h) => Excused(h)'
    BY <2>1
  <2>4. /\ got' = [got EXCEPT ![k] = @ \cup {<<b, i>>}]
        /\ position' = position /\ ended' = ended /\ loose \subseteq loose'
        /\ b <= position[i] /\ (i # k => i < k /\ Excused(i)')
    BY <2>1, <2>2, <2>3
  <2>5. Foreign' /\ (\A h : Excused(h) => Excused(h)')
    BY <2>4, ChunkWritten
  <2>6. \A h \in Stream : \A p \in got'[h] : p[1] <= position'[p[2]]
    BY <2>4, ChunkWritten
  <2>7. /\ \A h \in Stream : h # k => got'[h] = got[h]
        /\ got'[k] = got[k] \cup {<<b, i>>}
    BY <2>4 DEF Types, RequesterTyped
  <2>8. Arrived' = Arrived \cup {<<b, i>>}
    BY <2>7 DEF Arrived
  <2> QED
    BY <2>5, <2>6, <2>7, <2>8
<1>11. \A i, b : Data(i, b) \in net' => Data(i, b) \in net
  <2>1. packet.kind = "done"
    BY <1>4 DEF Playback, Packet
  <2> QED
    BY <1>5, <2>1, DataKinds
<1>12. ASSUME NEW i \in Stream, NEW b \in Chunk(i), Data(i, b) \in net', <<b, i>> \in Arrived'
       PROVE  Excused(i)'
  <2>1. CASE i = j
    BY <1>8, <2>1
  <2>2. CASE i # j
    BY <1>10, <1>11, <1>12, <2>2 DEF LeavesInv, SentOnce
  <2> QED
    BY <2>1, <2>2
<1>13. SentOnce'
  BY <1>10, <1>12 DEF SentOnce, Data, Packet
<1>14. ASSUME NEW i \in Known, rSession' # From(i)
       PROVE  Excused(i)' \/ \A b \in Chunk(i) : <<b, i>> \in got'[i] /\ Data(i, b) \notin net'
  <2>1. i \in Stream
    BY KnownStreams
  <2> QED
    BY <1>1, <1>6, <1>10, <1>11, <1>14, <2>1 DEF LeavesInv, NothingLeft
<1>15. NothingLeft'
  BY <1>7, <1>14 DEF NothingLeft, From, Data, Packet
<1> QED
  BY <1>7, <1>10, <1>13, <1>15 DEF LeavesInv

\* A chunk is sent again.
LEMMA LeavesAgain ==
    ASSUME Types, LeavesInv, NEW k \in Stream, SendAgain(k)
    PROVE  LeavesInv'
<1>1. PICK j : j = pSession.stream
  OBVIOUS
<1>2. /\ UNCHANGED <<requested, rSession, got, position, ended>>
      /\ pSession.mode = "to" /\ loose' = loose \cup {j}
      /\ \E c \in Chunk(j) : net' = net \cup {Data(j, c)}
  BY <1>1 DEF SendAgain, requesterVars, providerVars
<1>3. j \in Known /\ j \in Stream
  BY <1>1, <1>2, ProvidersSession
<1>4. /\ Known' = Known /\ Arrived' = Arrived /\ loose' \subseteq Known'
      /\ loose \subseteq loose'
  BY <1>2, <1>3 DEF Known, Arrived, LeavesInv
<1>5. Excused(j)' /\ \A i : Excused(i) => Excused(i)'
  <2>1. j <= j /\ j \in loose'
    BY <1>2, <1>3, StreamsAssumption DEF Stream
  <2> QED
    BY <1>2, <1>4, <2>1, ExcusedGrows DEF Excused
<1>6. \A i, b : Data(i, b) \in net' => Data(i, b) \in net \/ i = j
  BY <1>2, DataKinds
<1>7. Foreign'
  BY <1>2, <1>5 DEF LeavesInv, Foreign
<1>8. SentOnce'
  <2>1. \A i \in Stream : \A b \in Chunk(i) :
            Data(i, b) \in net' /\ <<b, i>> \in Arrived' => Excused(i)'
    BY <1>4, <1>5, <1>6 DEF LeavesInv, SentOnce
  <2> QED
    BY <1>2, <2>1 DEF LeavesInv, SentOnce, Data, Packet
<1>9. ASSUME NEW i \in Known, rSession' # From(i)
      PROVE  Excused(i)' \/ \A b \in Chunk(i) : <<b, i>> \in got'[i] /\ Data(i, b) \notin net'
  BY <1>2, <1>5, <1>6, <1>9 DEF LeavesInv, NothingLeft
<1>10. NothingLeft'
  BY <1>4, <1>9 DEF NothingLeft, From, Data, Packet
<1> QED
  BY <1>4, <1>7, <1>8, <1>10 DEF LeavesInv

LEMMA LeavesTick ==
    ASSUME Types, LeavesInv, NEW k \in Stream, Tick(k)
    PROVE  LeavesInv'
<1>1. PICK j : j = pSession.stream
  OBVIOUS
<1>2. /\ UNCHANGED <<requested, rSession, got, ended, loose>>
      /\ pSession.mode = "to" /\ position[j] < Length[j]
      /\ position' = [position EXCEPT ![j] = @ + 1]
      /\ net' = net \cup {Data(j, position'[j])}
  BY <1>1 DEF Tick, requesterVars
<1>3. j \in Known /\ j \in Stream /\ Length[j] \in Nat
  BY <1>1, <1>2, ProvidersSession, StreamsAssumption
<1>4. position \in [Stream -> Nat]
  BY DEF Types, ProviderTyped
<1>5. PICK d : d = position[j] + 1
  OBVIOUS
<1>6. /\ position'[j] = d /\ d \in Chunk(j) /\ ~ d <= position[j]
      /\ \A i \in Stream : position[i] \in Nat /\ position'[i] \in Nat
                           /\ position[i] <= position'[i]
  BY <1>2, <1>3, <1>4, <1>5 DEF Chunk
<1>7. <<d, j>> \notin Arrived
  <2>1. ASSUME NEW i \in Stream, NEW p \in got[i], p = <<d, j>> PROVE FALSE
    <3>1. p[1] <= position[p[2]]
      BY DEF LeavesInv, SentOnce
    <3>2. p[1] = d /\ p[2] = j
      BY <2>1
    <3> QED
      BY <1>6, <3>1, <3>2
  <2> QED
    BY <2>1 DEF Arrived
<1>8. \A i, b : Data(i, b) \in net' => Data(i, b) \in net \/ (i = j /\ b = d)
  BY <1>2, <1>6, DataKinds
<1>9. /\ Arrived' = Arrived /\ Known' = Known
      /\ \A i : Excused(i)' <=> Excused(i)
  BY <1>2 DEF Arrived, Excused, Known
<1>10. loose' \subseteq Known' /\ Foreign'
  BY <1>2, <1>9 DEF LeavesInv, Foreign
<1>11. ASSUME NEW i \in Stream, NEW p \in got'[i] PROVE p[1] <= position'[p[2]]
  <2>1. p \in got[i] /\ p[1] <= position[p[2]]
    BY <1>2, <1>11 DEF LeavesInv, SentOnce
  <2>2. p[1] \in Nat /\ p[2] \in Stream
    BY <2>1, GotFacts
  <2> QED
    BY <1>6, <2>1, <2>2
<1>12. ASSUME NEW i \in Stream, NEW b \in Chunk(i), Data(i, b) \in net', <<b, i>> \in Arrived'
       PROVE  Excused(i)'
  BY <1>7, <1>8, <1>9, <1>12 DEF LeavesInv, SentOnce
<1>13. SentOnce'
  BY <1>11, <1>12 DEF SentOnce, Data, Packet
<1>14. ASSUME NEW i \in Known', rSession' # From(i)
       PROVE  Excused(i)' \/ \A b \in Chunk(i) : <<b, i>> \in got'[i] /\ Data(i, b) \notin net'
  <2>1. Excused(i) \/ \A b \in Chunk(i) : <<b, i>> \in got[i] /\ Data(i, b) \notin net
    BY <1>2, <1>9, <1>14 DEF LeavesInv, NothingLeft
  <2>2. CASE Excused(i)
    BY <1>9, <2>2
  <2>3. CASE ~ Excused(i)
    <3>1. i # j
      BY <1>6, <1>7, <1>3, <2>1, <2>3 DEF Arrived
    <3> QED
      BY <1>2, <1>8, <2>1, <2>3, <3>1
  <2> QED
    BY <2>2, <2>3
<1>15. NothingLeft'
  BY <1>14 DEF NothingLeft, From, Data, Packet
<1> QED
  BY <1>10, <1>13, <1>15 DEF LeavesInv

LEMMA LeavesStep ==
    ASSUME Types, Types', ClosesInv, LeavesInv, [Next]_vars
    PROVE  LeavesInv'
<1>1. ended \subseteq ended'
  BY ClosesStep
<1>2. ended \subseteq Known
  BY DEF ClosesInv
<1>3. ASSUME NEW i \in ended, rSession # Up PROVE Excused(requested)
  <2>1. i \in Known /\ requested \in Known /\ i <= requested
    BY <1>2, <1>3, SessionStream DEF Known
  <2> QED
    BY <2>1 DEF Excused
\* nothing is written or sent, and the session stays as it is
<1>4. ASSUME UNCHANGED <<got, position, requested, rSession, loose>>,
             \A m \in net' : m.kind = "data" => m \in net
      PROVE  LeavesInv'
  BY <1>1, <1>4, LeavesQuiet
<1>5. ASSUME NEW k, NEW to, NEW kind, kind # "data", net' \subseteq net \cup {Packet(to, kind, k, 0)}
      PROVE  \A m \in net' : m.kind = "data" => m \in net
  BY <1>5 DEF Packet
<1>6. ASSUME Request \/ RequestAgain PROVE LeavesInv'
  <2>1. UNCHANGED <<got, position, ended, loose>>
    BY <1>6 DEF Request, RequestAgain, providerVars
  <2>2. CASE rSession = Up
    <3>1. StartRequest
      BY <1>6, <2>2 DEF Request, RequestAgain
    <3> QED
      BY <2>1, <2>2, <3>1, LeavesStart
  <2>3. CASE rSession # Up
    BY <1>4, <1>6, <2>1, <2>3 DEF Request, RequestAgain
  <2> QED
    BY <2>2, <2>3
<1>7. ASSUME NEW m \in net, ReceiveRejection(m) PROVE LeavesInv'
  BY <1>4, <1>7, TakesFacts DEF ReceiveRejection, providerVars
<1>8. ASSUME NEW m \in net, ReceiveProvidersClose(m) PROVE LeavesInv'
  <2>1. /\ UNCHANGED <<got, position, requested, loose>> /\ rSession' = Up
        /\ net' \subseteq net /\ m.kind = "close"
    BY <1>8, TakesFacts, EndFacts DEF ReceiveProvidersClose, providerVars
  <2>2. m.stream \in ended
    BY <2>1 DEF ClosesInv
  <2> QED
    BY <1>1, <1>3, <2>1, <2>2, LeavesQuiet
<1>9. ASSUME NEW k \in Stream, RunClose(k) PROVE LeavesInv'
  <2>1. /\ UNCHANGED <<got, position, requested, loose>> /\ rSession' = Up
        /\ net' \subseteq net \cup {Packet("provider", "close", k, 0)} /\ k \in closing
    BY <1>9, EndFacts DEF RunClose, providerVars, Playback
  <2>2. k \in ended
    BY <2>1 DEF ClosesInv
  <2>3. \A m \in net' : m.kind = "data" => m \in net
    BY <1>5, <2>1
  <2> QED
    BY <1>1, <1>3, <2>1, <2>2, <2>3, LeavesQuiet
<1>10. ASSUME \/ Ready \/ AcceptHoles \/ Complete \/ CloseInput
              \/ \E k \in Stream : RunComplete(k)
       PROVE  LeavesInv'
  BY <1>4, <1>10 DEF Ready, AcceptHoles, Complete, CloseInput, RunComplete, providerVars
<1>11. ASSUME NEW paused \in BOOLEAN, PauseOrPlay(paused) PROVE LeavesInv'
  <2>1. /\ UNCHANGED <<got, position, requested, rSession, loose>>
        /\ \/ net' \subseteq net \cup {Packet("provider", "pause", requested, 0)}
           \/ net' \subseteq net \cup {Packet("provider", "play", requested, 0)}
    BY <1>11 DEF PauseOrPlay, Playback, providerVars
  <2>2. \A m \in net' : m.kind = "data" => m \in net
    BY <1>5, <2>1
  <2> QED
    BY <1>4, <2>1, <2>2
<1>12. ASSUME NEW m \in net,
              ReceiveRequest(m) \/ ReceivePlayback(m) \/ ReceiveRequestersClose(m)
       PROVE  LeavesInv'
  BY <1>4, <1>12, TakesFacts DEF ReceiveRequest, ReceivePlayback, ReceiveRequestersClose,
                                 requesterVars
<1>13. ASSUME Listen \/ Approve \/ Reject \/ OutputDone \/ OutputFails \/ CloseOutput
       PROVE  LeavesInv'
  BY <1>4, <1>13 DEF Listen, Approve, Reject, OutputDone, OutputFails, CloseOutput,
                     requesterVars
<1>14. ASSUME NEW k \in Stream, RunReject(k) \/ RunProvidersClose(k) PROVE LeavesInv'
  <2>1. /\ UNCHANGED <<got, position, requested, rSession, loose>>
        /\ \/ net' \subseteq net
           \/ net' \subseteq net \cup {Packet("requester", "reject", k, 0)}
           \/ net' \subseteq net \cup {Packet("requester", "close", k, 0)}
    BY <1>14 DEF RunReject, RunProvidersClose, TrackRejection, Playback, requesterVars
  <2>2. \A m \in net' : m.kind = "data" => m \in net
    BY <1>5, <2>1
  <2> QED
    BY <1>4, <2>1, <2>2
<1>15. ASSUME NEW k \in Stream, StreamTo(k) \/ HandleEvent(k) PROVE LeavesInv'
  BY <1>4, <1>15 DEF StreamTo, HandleEvent, requesterVars
<1>16. ASSUME UNCHANGED vars PROVE LeavesInv'
  BY <1>4, <1>16 DEF vars, requesterVars, providerVars
<1>17. ASSUME RequesterStep PROVE LeavesInv'
  BY <1>2, <1>6, <1>7, <1>8, <1>9, <1>10, <1>17, LeavesData DEF RequesterStep
<1>18. ASSUME ProviderStep PROVE LeavesInv'
  BY <1>12, <1>13, <1>14, <1>15, <1>18, LeavesTick, LeavesAgain DEF ProviderStep
<1> QED
  BY <1>6, <1>10, <1>11, <1>13, <1>16, <1>17, <1>18, LeavesRecover DEF Next

\* The buffer of a stream holds a chunk of an earlier one only when that one or one
\* before it was closed by an application, had a chunk sent again or recovered, or
\* ended with holes: a stream whose packets each come and are taken once leaves
\* nothing behind.
THEOREM OnlyLooseStreamsLeaveChunks == Spec => []ForeignIsExplained
<1>1. Init => ClosesInv /\ LeavesInv
  <2> SUFFICES ASSUME Init PROVE ClosesInv /\ LeavesInv
    OBVIOUS
  <2>1. ClosesInv
    BY DEF Init, ClosesInv
  <2>2. Known = {} /\ net = {} /\ loose = {} /\ \A k \in Stream : got[k] = {}
    BY DEF Init, Known
  <2> QED
    BY <2>1, <2>2 DEF LeavesInv, Foreign, SentOnce, NothingLeft
<1>2. LeavesInv => ForeignIsExplained
  BY DEF LeavesInv, Foreign, Excused, ForeignIsExplained
<1> QED
  BY TypesHold, <1>1, <1>2, ClosesStep, LeavesStep, PTL DEF Spec

-----------------------------------------------------------------------------
(* What ends a stream at its provider.                                     *)

\* Done is sent by a stream that is closed for its application; an event waits
\* in the slot of the stream it was for, and the loop of the stream the session
\* has listens to that stream's slot.
EndsInv ==
    /\ \A m \in net : m.kind = "done" => message[m.stream].closed
    /\ \A k \in Stream : pSession = To(k) => loops[k].event = k
    /\ \A k \in Stream : slot[k] = "close" => pClosed[k]
    /\ ~ upset => \A k \in Stream :
           /\ slot[k] = "done" => message[k].closed
           /\ pClosed[k] /\ k \notin ended => message[k].closed

\* The provider's side and the packets are left alone, and messages only closed.
LEMMA EndsQuiet ==
    ASSUME Types, EndsInv, UNCHANGED <<pSession, loops, slot, pClosed>>,
           ended \subseteq ended', upset => upset',
           \A k \in Stream : message[k].closed => message'[k].closed,
           \A m \in net' : m.kind = "done" => m \in net \/ message'[m.stream].closed
    PROVE  EndsInv'
<1>1. \A m \in net : m.stream \in Stream
  BY KnownStreams DEF Types, NetTyped, Packets
<1> QED
  BY <1>1 DEF EndsInv, To

\* The provider's session ends, over the slots it finds: rightly so, or upset.
LEMMA EndsProvided ==
    ASSUME Types, EndsInv, NEW slots \in [Stream -> Event], EndProvided(slots),
           \A k \in Stream : slots[k] \in {slot[k], "none"},
           UNCHANGED <<loops, message>>, ended' = ended, upset => upset',
           \A m \in net' : m.kind = "done" => m \in net,
           ~ upset' => \A k \in Stream :
               pSession = To(k) => k \in ended \/ message[k].closed
    PROVE  EndsInv'
<1>1. /\ pSession' = Up /\ \A k \in Stream : pSession' # To(k)
      /\ \A k \in Stream :
             IF pSession = To(k) THEN pClosed'[k] = TRUE /\ slot'[k] = "close"
             ELSE pClosed'[k] = pClosed[k] /\ slot'[k] = slots[k]
  <2>1. /\ pSession' = Up
        /\ \A k \in Stream :
               IF pSession = To(k) THEN pClosed'[k] = TRUE /\ slot'[k] = "close"
               ELSE pClosed'[k] = pClosed[k] /\ slot'[k] = slots[k]
    BY ProvidedFacts
  <2>2. \A k \in Stream : Up # To(k)
    BY DEF Up, To
  <2> QED
    BY <2>1, <2>2
<1>2. \A m \in net' : m.kind = "done" => message'[m.stream].closed
  BY DEF EndsInv
<1>3. \A k \in Stream : slot'[k] = "close" => pClosed'[k]
  <2>1. ASSUME NEW k \in Stream, slot'[k] = "close" PROVE pClosed'[k]
    <3>1. CASE pSession = To(k)
      BY <1>1, <3>1
    <3>2. CASE pSession # To(k)
      <4>1. slot[k] = "close" /\ pClosed'[k] = pClosed[k]
        BY <1>1, <2>1, <3>2
      <4> QED
        BY <4>1 DEF EndsInv
    <3> QED
      BY <3>1, <3>2
  <2> QED
    BY <2>1
<1>4. ASSUME ~ upset', NEW k \in Stream
      PROVE  /\ slot'[k] = "done" => message'[k].closed
             /\ pClosed'[k] /\ k \notin ended' => message'[k].closed
  BY <1>1, <1>4 DEF EndsInv
<1> QED
  BY <1>1, <1>2, <1>3, <1>4 DEF EndsInv, To

LEMMA EndsStep ==
    ASSUME Types, ClosesInv, EndsInv, [Next]_vars
    PROVE  EndsInv'
<1>1. ended \subseteq ended'
  BY ClosesStep
<1>2. ASSUME UNCHANGED <<message, pSession, loops, slot, pClosed>>, upset => upset',
             \A m \in net' : m.kind = "done" => m \in net
      PROVE  EndsInv'
  BY <1>1, <1>2, EndsQuiet
<1>3. ASSUME NEW k, NEW to, NEW kind, kind # "done", net' \subseteq net \cup {Packet(to, kind, k, 0)}
      PROVE  \A m \in net' : m.kind = "done" => m \in net
  BY <1>3 DEF Packet
<1>4. ASSUME Request \/ RequestAgain PROVE EndsInv'
  <2>1. \/ net' = net
        \/ net' \subseteq net \cup {Packet("provider", "request", requested + 1, 0)}
    BY <1>4 DEF Request, RequestAgain, StartRequest, TrackRequest
  <2>2. \A m \in net' : m.kind = "done" => m \in net
    BY <1>3, <2>1
  <2>3. UNCHANGED <<message, pSession, loops, slot, pClosed, upset>>
    BY <1>4 DEF Request, RequestAgain, providerVars
  <2> QED
    BY <1>2, <2>2, <2>3
<1>5. ASSUME NEW m \in net, ReceiveRejection(m) PROVE EndsInv'
  <2>1. UNCHANGED <<pSession, loops, slot, pClosed, upset>> /\ net' \subseteq net
    BY <1>5, TakesFacts DEF ReceiveRejection, providerVars
  <2>2. \A k \in Stream : message[k].closed => message'[k].closed
    <3>1. CASE rSession.mode = "from"
      BY <1>5, <3>1, SessionStream, ApprovalSet DEF ReceiveRejection
    <3>2. CASE message' = message
      BY <3>2
    <3> QED
      BY <1>5, <3>1, <3>2 DEF ReceiveRejection
  <2> QED
    BY <1>1, <2>1, <2>2, EndsQuiet
<1>6. ASSUME EndRequested PROVE \A k \in Stream : message[k].closed => message'[k].closed
  BY <1>6, EndFacts DEF EndsStream
<1>7. ASSUME NEW m \in net, ReceiveProvidersClose(m) PROVE EndsInv'
  <2>1. UNCHANGED <<pSession, loops, slot, pClosed, upset>> /\ net' \subseteq net /\ EndRequested
    BY <1>7, TakesFacts DEF ReceiveProvidersClose, providerVars
  <2> QED
    BY <1>1, <1>6, <2>1, EndsQuiet
<1>8. ASSUME NEW k \in Stream, RunClose(k) PROVE EndsInv'
  <2>1. /\ UNCHANGED <<pSession, loops, slot, pClosed, upset>> /\ EndRequested
        /\ net' \subseteq net \cup {Packet("provider", "close", k, 0)}
    BY <1>8 DEF RunClose, providerVars, Playback
  <2>2. \A m \in net' : m.kind = "done" => m \in net
    BY <1>3, <2>1
  <2> QED
    BY <1>1, <1>6, <2>1, <2>2, EndsQuiet
\* a chunk is written, and Done sent if it was the last
<1>9. ASSUME NEW c \in Chunk(rSession.stream), NEW j \in Known, NEW last \in BOOLEAN,
             rSession.mode = "from",
             got' = [got EXCEPT ![rSession.stream] = @ \cup {<<c, j>>}],
             message' = [message EXCEPT ![rSession.stream].approved = "yes",
                                        ![rSession.stream].closed = @ \/ last],
             net' \subseteq net \cup IF last THEN {Playback("provider", "done", rSession.stream)}
                                     ELSE {},
             UNCHANGED <<pSession, loops, slot, pClosed, upset>>
      PROVE  EndsInv'
  <2>1. /\ rSession.stream = requested /\ requested \in Stream
        /\ Writes(requested, c, j)
        /\ message'[requested].closed <=> (message[requested].closed \/ last)
    BY <1>9, WriteFacts
  <2>2. \A k \in Stream : message[k].closed => message'[k].closed
    BY <2>1 DEF Writes
  <2>3. \A m \in net' : m.kind = "done" => m \in net \/ message'[m.stream].closed
    <3>1. PICK p : p = Playback("provider", "done", rSession.stream)
      OBVIOUS
    <3>2. p.stream = requested
      BY <2>1, <3>1 DEF Playback, Packet
    <3>3. net' \subseteq net \cup IF last THEN {p} ELSE {}
      BY <1>9, <3>1
    <3> QED
      BY <2>1, <3>2, <3>3
  <2> QED
    BY <1>1, <1>9, <2>2, <2>3, EndsQuiet
<1>10. ASSUME NEW m \in net, ReceiveData(m) PROVE EndsInv'
  <2>1. UNCHANGED <<pSession, loops, slot, pClosed, upset>> /\ m.kind = "data"
    BY <1>10 DEF ReceiveData, providerVars
  <2>2. CASE ~ (rSession.mode = "from"
                /\ m.chunk \in Chunk(rSession.stream) \ Written(rSession.stream))
    BY <1>2, <1>10, <2>1, <2>2, DataIgnored, TakesFacts
  <2>3. CASE /\ rSession.mode = "from"
             /\ m.chunk \in Chunk(rSession.stream) \ Written(rSession.stream)
    <3>1. PICK done \in BOOLEAN :
              /\ Takes(m, IF done THEN {Playback("provider", "done", rSession.stream)} ELSE {})
              /\ Write(rSession.stream, m.chunk, m.stream, done)
      BY <1>10, <2>3, DataWrites
    <3>2. m.stream \in Known
      BY <2>1, DataFacts
    <3>3. net' \subseteq net \cup IF done THEN {Playback("provider", "done", rSession.stream)}
                                  ELSE {}
      BY <3>1, TakesFacts
    <3> QED
      BY <1>9, <2>1, <2>3, <3>1, <3>2, <3>3 DEF Write
  <2> QED
    BY <2>2, <2>3
<1>11. ASSUME Recover PROVE EndsInv'
  <2>1. /\ UNCHANGED <<pSession, loops, slot, pClosed, upset>>
        /\ rSession.mode = "from"
    BY <1>11 DEF Recover, providerVars
  <2>2. PICK j \in Known, c \in Chunk(rSession.stream), done \in BOOLEAN :
            /\ Write(rSession.stream, c, j, done)
            /\ net' = IF done THEN net \cup {Playback("provider", "done", rSession.stream)}
                      ELSE net
    BY <1>11, RecoverWrites
  <2>3. net' \subseteq net \cup IF done THEN {Playback("provider", "done", rSession.stream)}
                                ELSE {}
    BY <2>2
  <2> QED
    BY <1>9, <2>1, <2>2, <2>3 DEF Write
<1>12. ASSUME Ready \/ AcceptHoles \/ Complete \/ CloseInput PROVE EndsInv'
  BY <1>2, <1>12 DEF Ready, AcceptHoles, Complete, CloseInput, providerVars
<1>28. ASSUME NEW k \in Stream, RunComplete(k) PROVE EndsInv'
  <2>1. UNCHANGED <<pSession, loops, slot, pClosed, upset, net>>
    BY <1>28 DEF RunComplete, providerVars
  <2>2. \A i \in Stream : message[i].closed => message'[i].closed
    <3>1. CASE rSession.mode = "from"
      BY <1>28, <3>1, SessionStream, PartialSet DEF RunComplete
    <3>2. CASE message' = message
      BY <3>2
    <3> QED
      BY <1>28, <3>1, <3>2 DEF RunComplete
  <2> QED
    BY <1>1, <2>1, <2>2, EndsQuiet
<1>13. ASSUME NEW paused \in BOOLEAN, PauseOrPlay(paused) PROVE EndsInv'
  <2>1. /\ UNCHANGED <<pSession, loops, slot, pClosed, upset>>
        /\ \/ net' \subseteq net \cup {Packet("provider", "pause", requested, 0)}
           \/ net' \subseteq net \cup {Packet("provider", "play", requested, 0)}
    BY <1>13 DEF PauseOrPlay, Playback, providerVars
  <2>2. \A m \in net' : m.kind = "done" => m \in net
    BY <1>3, <2>1
  <2>3. \A k \in Stream : message[k].closed => message'[k].closed
    <3>1. CASE rSession.mode = "from"
      BY <1>13, <3>1, SessionStream, PauseSet DEF PauseOrPlay
    <3>2. CASE message' = message
      BY <3>2
    <3> QED
      BY <1>13, <3>1, <3>2 DEF PauseOrPlay
  <2> QED
    BY <1>1, <2>1, <2>2, <2>3, EndsQuiet
<1>14. ASSUME NEW m \in net, ReceiveRequest(m) PROVE EndsInv'
  BY <1>2, <1>14, TakesFacts DEF ReceiveRequest, requesterVars
<1>15. ASSUME NEW m \in net, ReceivePlayback(m) PROVE EndsInv'
  <2>1. /\ UNCHANGED <<message, pSession, loops, pClosed, ended>> /\ net' \subseteq net
        /\ m.kind \in {"done", "pause", "play"}
    BY <1>15, TakesFacts DEF ReceivePlayback, requesterVars
  <2>2. CASE pSession.mode = "to"
    <3>1. PICK j \in Stream : j = pSession.stream
      BY <2>2, ProvidersSession
    <3>2. /\ slot' = [slot EXCEPT ![j] = m.kind]
          /\ upset' = (upset \/ slot[j] # "none" \/ m.stream # j)
      BY <1>15, <2>2, <3>1 DEF ReceivePlayback
    <3>3. slot'[j] = m.kind /\ \A k \in Stream : k # j => slot'[k] = slot[k]
      BY <3>2 DEF Types, ProviderTyped
    <3>4. ~ upset' => ~ upset /\ m.stream = j
      BY <3>2
    <3>5. ASSUME ~ upset', NEW k \in Stream
          PROVE  /\ slot'[k] = "done" => message'[k].closed
                 /\ pClosed'[k] /\ k \notin ended' => message'[k].closed
      BY <2>1, <3>3, <3>4, <3>5 DEF EndsInv
    <3>6. \A k \in Stream : slot'[k] = "close" => pClosed'[k]
      BY <2>1, <3>3 DEF EndsInv
    <3> QED
      BY <2>1, <3>5, <3>6 DEF EndsInv, To
  <2>3. CASE pSession.mode # "to"
    BY <1>2, <1>15, <2>1, <2>3 DEF ReceivePlayback
  <2> QED
    BY <2>2, <2>3
<1>16. slot \in [Stream -> Event] /\ \A k \in Stream : slot[k] \in {slot[k], "none"}
  BY DEF Types, ProviderTyped
<1>17. ASSUME NEW k, upset' = (upset \/ pSession \notin {Up, [mode |-> "to", stream |-> k]}),
              ~ upset', NEW i \in Stream, pSession = To(i)
       PROVE  k = i /\ ~ upset
  BY <1>17 DEF To, Up
<1>18. ASSUME NEW m \in net, ReceiveRequestersClose(m) PROVE EndsInv'
  <2>1. /\ UNCHANGED <<message, loops, ended>> /\ net' \subseteq net /\ EndProvided(slot)
        /\ m.kind = "close"
        /\ upset' = (upset \/ pSession \notin {Up, [mode |-> "to", stream |-> m.stream]})
    BY <1>18, TakesFacts DEF ReceiveRequestersClose, requesterVars
  <2>2. m.stream \in ended
    BY <2>1 DEF ClosesInv
  <2>3. ~ upset' => \A i \in Stream : pSession = To(i) => i \in ended \/ message[i].closed
    BY <1>17, <2>1, <2>2
  <2> QED
    BY <1>16, <2>1, <2>3, EndsProvided
<1>19. ASSUME Listen \/ Approve \/ Reject \/ OutputDone \/ OutputFails \/ CloseOutput
       PROVE  EndsInv'
  BY <1>2, <1>19 DEF Listen, Approve, Reject, OutputDone, OutputFails, CloseOutput,
                     requesterVars
<1>20. ASSUME NEW k \in Stream, RunReject(k) PROVE EndsInv'
  <2>1. /\ UNCHANGED <<message, pSession, loops, slot, pClosed, upset>>
        /\ \/ net' \subseteq net
           \/ net' \subseteq net \cup {Packet("requester", "reject", k, 0)}
    BY <1>20 DEF RunReject, TrackRejection, requesterVars
  <2>2. \A m \in net' : m.kind = "done" => m \in net
    BY <1>3, <2>1
  <2> QED
    BY <1>2, <2>1, <2>2
<1>21. ASSUME NEW k \in Stream, RunProvidersClose(k) PROVE EndsInv'
  <2>1. /\ UNCHANGED <<message, loops, ended>> /\ EndProvided(slot)
        /\ net' \subseteq net \cup {Packet("requester", "close", k, 0)}
        /\ <<"close", k>> \in tasks
        /\ upset' = (upset \/ <<"send", k>> \in tasks
                           \/ pSession \notin {Up, [mode |-> "to", stream |-> k]})
    BY <1>21 DEF RunProvidersClose, Playback, requesterVars
  <2>2. \A m \in net' : m.kind = "done" => m \in net
    BY <1>3, <2>1
  <2>3. k \in ended
    BY <2>1 DEF ClosesInv
  <2>4. ~ upset' => \A i \in Stream : pSession = To(i) => i \in ended \/ message[i].closed
    <3>1. ASSUME ~ upset', NEW i \in Stream, pSession = To(i) PROVE i \in ended
      <4>1. pSession \in {Up, [mode |-> "to", stream |-> k]}
        BY <2>1, <3>1
      <4>2. i = k
        BY <3>1, <4>1 DEF To, Up
      <4> QED
        BY <2>3, <4>2
    <3> QED
      BY <3>1
  <2> QED
    BY <1>16, <2>1, <2>2, <2>4, EndsProvided
<1>22. ASSUME NEW k \in Stream, StreamTo(k) PROVE EndsInv'
  <2>1. /\ UNCHANGED <<message, net, slot, pClosed, upset, ended>>
        /\ pSession' = IF pSession = Up THEN To(k) ELSE pSession
        /\ loops' = [loops EXCEPT ![k] = [playing |-> TRUE, event |-> pSession'.stream]]
    BY <1>22 DEF StreamTo, requesterVars, To
  <2>2. PICK l : l = [playing |-> TRUE, event |-> pSession'.stream]
    OBVIOUS
  <2>3. /\ loops'[k] = l /\ l.event = pSession'.stream
        /\ \A i \in Stream : i # k => loops'[i] = loops[i]
    BY <2>1, <2>2 DEF Types, ProviderTyped
  <2>4. ASSUME NEW i \in Stream, pSession' = To(i) PROVE loops'[i].event = i
    <3>1. CASE i = k
      BY <2>3, <2>4, <3>1 DEF To
    <3>2. CASE i # k
      BY <2>1, <2>3, <2>4, <3>2 DEF EndsInv, To
    <3> QED
      BY <3>1, <3>2
  <2> QED
    BY <2>1, <2>4 DEF EndsInv, To
<1>23. ASSUME NEW k \in Stream, Tick(k) PROVE EndsInv'
  <2>1. PICK p : p = Data(pSession.stream, position'[pSession.stream])
    OBVIOUS
  <2>2. p.kind = "data" /\ UNCHANGED <<message, pSession, loops, slot, pClosed, upset>>
        /\ net' = net \cup {p}
    BY <1>23, <2>1 DEF Tick, requesterVars, Data, Packet
  <2>3. \A m \in net' : m.kind = "done" => m \in net
    BY <2>2
  <2> QED
    BY <1>2, <2>2, <2>3
<1>29. ASSUME NEW k \in Stream, SendAgain(k) PROVE EndsInv'
  <2>1. PICK c \in Chunk(pSession.stream) : net' = net \cup {Data(pSession.stream, c)}
    BY <1>29 DEF SendAgain
  <2>2. PICK p : p = Data(pSession.stream, c)
    OBVIOUS
  <2>3. p.kind = "data" /\ UNCHANGED <<message, pSession, loops, slot, pClosed, upset>>
        /\ net' = net \cup {p}
    BY <1>29, <2>1, <2>2 DEF SendAgain, requesterVars, providerVars, Data, Packet
  <2>4. \A m \in net' : m.kind = "done" => m \in net
    BY <2>3
  <2> QED
    BY <1>2, <2>3, <2>4
<1>24. ASSUME NEW k \in Stream, HandleEvent(k) PROVE EndsInv'
  <2>1. PICK j, taken : j = loops[k].event /\ taken = [slot EXCEPT ![j] = "none"]
    OBVIOUS
  <2>2. /\ UNCHANGED <<message, net, ended>> /\ loops[k] # NoLoop /\ slot[j] # "none"
        /\ \/ /\ loops' \in {[loops EXCEPT ![k].playing = TRUE],
                             [loops EXCEPT ![k].playing = FALSE]}
              /\ slot' = taken
              /\ UNCHANGED <<pSession, pClosed, upset>>
           \/ /\ slot[j] \notin {"pause", "play"}
              /\ EndProvided(taken) /\ loops' = loops
              /\ upset' = (upset \/ pSession \notin {Up, [mode |-> "to", stream |-> k]})
    BY <1>24, <2>1 DEF HandleEvent, requesterVars
  <2>3. j \in Stream
    BY <2>1, <2>2, LoopFacts
  <2>4. taken \in [Stream -> Event] /\ \A i \in Stream : taken[i] \in {slot[i], "none"}
    BY <1>16, <2>1, <2>3 DEF Event
  <2>5. CASE /\ loops' \in {[loops EXCEPT ![k].playing = TRUE],
                            [loops EXCEPT ![k].playing = FALSE]}
             /\ slot' = taken
             /\ UNCHANGED <<pSession, pClosed, upset>>
    <3>1. PICK b \in BOOLEAN : loops' = [loops EXCEPT ![k].playing = b]
      BY <2>5
    <3>2. \A i \in Stream : loops[i] \in [playing : BOOLEAN, event : 0 .. MaxStream]
      BY LoopFacts
    <3>3. \A i \in Stream : loops'[i].event = loops[i].event
      BY <3>1, <3>2 DEF Types, ProviderTyped
    <3>4. \A i \in Stream : slot'[i] \in {slot[i], "none"}
      BY <2>4, <2>5
    <3> QED
      BY <2>2, <2>5, <3>3, <3>4 DEF EndsInv, To
  <2>6. CASE /\ slot[j] \notin {"pause", "play"}
             /\ EndProvided(taken) /\ loops' = loops
             /\ upset' = (upset \/ pSession \notin {Up, [mode |-> "to", stream |-> k]})
    <3>1. slot[j] \in {"done", "close"}
      BY <1>16, <2>2, <2>3, <2>6 DEF Event
    <3>2. ASSUME ~ upset', NEW i \in Stream, pSession = To(i)
          PROVE  i \in ended \/ message[i].closed
      <4>1. i = k /\ ~ upset
        BY <1>17, <2>6, <3>2
      <4>2. j = i
        BY <2>1, <3>2, <4>1 DEF EndsInv
      <4> QED
        BY <3>1, <4>1, <4>2 DEF EndsInv
    <3>3. upset => upset'
      BY <2>6
    <3>4. UNCHANGED <<loops, message>> /\ ended' = ended
          /\ \A m \in net' : m.kind = "done" => m \in net
      BY <2>2, <2>6
    <3> QED
      BY <2>4, <2>6, <3>2, <3>3, <3>4, EndsProvided
  <2> QED
    BY <2>2, <2>5, <2>6
<1>25. ASSUME UNCHANGED vars PROVE EndsInv'
  BY <1>2, <1>25 DEF vars, requesterVars, providerVars
<1>26. ASSUME RequesterStep PROVE EndsInv'
  BY <1>4, <1>5, <1>7, <1>8, <1>10, <1>12, <1>26, <1>28 DEF RequesterStep
<1>27. ASSUME ProviderStep PROVE EndsInv'
  BY <1>14, <1>15, <1>18, <1>19, <1>20, <1>21, <1>22, <1>23, <1>24, <1>27,
     <1>29 DEF ProviderStep
<1> QED
  BY <1>4, <1>11, <1>12, <1>13, <1>19, <1>25, <1>26, <1>27 DEF Next

\* A provider stops sending because the requester's stream has ended, or because
\* an application closed it, as long as nothing of one stream acts on another.
THEOREM StreamsEndAtRequester == Spec => []EndsAtRequester
<1>1. Init => EndsInv
  <2> SUFFICES ASSUME Init PROVE EndsInv
    OBVIOUS
  <2>1. pSession = Up /\ net = {} /\ \A k \in Stream : slot[k] = "none" /\ ~ pClosed[k]
    BY DEF Init
  <2> QED
    BY <2>1 DEF EndsInv, Up, To
<1>2. EndsInv => EndsAtRequester
  BY DEF EndsInv, EndsAtRequester
<1>3. Init => ClosesInv
  BY DEF Init, ClosesInv
<1> QED
  BY TypesHold, <1>1, <1>2, <1>3, ClosesStep, EndsStep, PTL DEF Spec

================================================================================
