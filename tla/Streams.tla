-------------------------------- MODULE Streams --------------------------------
(*****************************************************************************)
(* The streams that two applications open one after another on a session     *)
(* that is established: one requests tracks, the other approves or rejects.  *)
(*                                                                           *)
(* An application has a handle of its session, and each operation turns it   *)
(* into another: Connection, PendingStream, Stream at the requester,         *)
(* Connection, RequestedStream, Stream at the provider.  The operations send *)
(* commands to the manager, most of which are not awaited: their tasks run   *)
(* later, in any order.  Packets name the session and no stream, so what one *)
(* stream left behind is taken for the next one's; `stream` of a packet is   *)
(* history.                                                                  *)
(*                                                                           *)
(* Chunks stand for the packets of a track; how a stream delivers them is    *)
(* Transfer, here any chunk may be sent again or be recovered, and the head  *)
(* may have been sought to the end at any time.  Nothing is lost, what the   *)
(* network delays it reorders, and the packets that require an               *)
(* acknowledgement nobody sends (AckRetry) may come again.  The build has no *)
(* debug assertions.                                                         *)
(*****************************************************************************)
EXTENDS Naturals, Sequences

CONSTANTS
    MaxStream,   \* bound: requests
    Length,      \* chunks of the track of each stream
    MaxTwists    \* bound: packets handled again, pauses and resumptions, chunks
                 \* sent again or recovered, streams whose holes are accepted and
                 \* that the provider closes, together

Stream == 1 .. MaxStream

ASSUME StreamsAssumption == MaxStream \in Nat /\ Length \in [Stream -> Nat]

Chunk(k) == 1 .. Length[k]

VARIABLES
    \* requester
    rHandle,     \* "connection", "retrying", "pending", "input" or "completing"
    rSession,    \* [mode, stream]: "up" or "from"
    requested,   \* streams requested so far: the last one is the handle's
    message,     \* StreamMessage of each stream: [approved, closed, paused, partial]
    got,         \* <<chunk, stream it was sent for>> in each stream's buffer
    closing,     \* streams whose close_stream command is under way
    completing,  \* streams whose command to accept holes is under way
    \* provider
    pHandle,     \* [kind, stream]: "connection", "requested", "output" or "lost"
    pSession,    \* [mode, stream]: "up" or "to"
    events,      \* requests in the Connection's channel
    tasks,       \* commands under way: <<"send" | "reject" | "close", stream>>
    position,    \* chunks sent of each stream
    pClosed,     \* is `closed` set for the provider's application?
    slot,        \* event slot of each stream
    loops,       \* sending loop of each stream: [playing, event] or NoLoop
    \*
    net,         \* packets: [to, kind, stream, chunk]
    twists,      \* how many of these are left
    \* history: the first two since the last request or close
    repaired,    \* streams whose last chunk a recovered packet gave
    rejected,    \* streams whose rejection arrived while requested
    ended,       \* streams an application closed
    loose,       \* streams with a chunk sent again, one recovered before its
                 \* packet came, or holes when they ended
    upset        \* did an event overwrite another, or a loop, a packet or the
                 \* provider's close of one stream meet another, or none yet?

requesterVars == <<rHandle, rSession, requested, message, got, closing, completing,
                  repaired, rejected>>
providerVars == <<pHandle, pSession, events, tasks, position, pClosed, slot, loops>>
vars == <<requesterVars, providerVars, net, twists, ended, loose, upset>>

Up == [mode |-> "up", stream |-> 0]
NoLoop == [playing |-> FALSE, event |-> 0]
Connection == [kind |-> "connection", stream |-> 0]

-----------------------------------------------------------------------------
(* Packets.                                                                  *)

Packet(to, kind, k, c) == [to |-> to, kind |-> kind, stream |-> k, chunk |-> c]
TrackRequest(k) == Packet("provider", "request", k, 0)
TrackRejection(k) == Packet("requester", "reject", k, 0)
Data(k, c) == Packet("requester", "data", k, c)
Playback(to, kind, k) == Packet(to, kind, k, 0)

\* RequireAck is set, and no handler of these acknowledges.
RetriedData == {"reject", "done", "pause", "play", "data"}  \* mutant of Retried
Retried == {"reject", "done", "pause", "play"}

\* m is handled and `out` is sent.
Takes(m, out) ==
    /\ m \in net
    /\ \/ net' = (net \ {m}) \cup out /\ UNCHANGED twists
       \/ /\ m.kind \in Retried /\ twists > 0
          /\ net' = net \cup out
          /\ twists' = twists - 1

-----------------------------------------------------------------------------
(* The requester.                                                            *)

\* streaming_from, the reply to the application and the request.
StartRequest ==
    /\ requested < MaxStream
    /\ requested' = requested + 1
    /\ rSession' = [mode |-> "from", stream |-> requested + 1]
    /\ rHandle' = "pending"
    /\ net' = net \cup {TrackRequest(requested + 1)}
    /\ repaired' = {} /\ rejected' = {}

\* request_track: a session that is occupied is tried again, 100 ms later.
Request ==
    /\ rHandle = "connection"
    /\ IF rSession = Up
       THEN StartRequest
       ELSE rHandle' = "retrying" /\ UNCHANGED <<rSession, requested, repaired, rejected, net>>
    /\ UNCHANGED <<message, got, closing, completing, providerVars,
                   twists, ended, loose, upset>>

RequestAgain ==
    /\ rHandle = "retrying"
    /\ IF rSession = Up
       THEN StartRequest
       ELSE rHandle' = "connection" /\ UNCHANGED <<rSession, requested, repaired, rejected, net>>
    /\ UNCHANGED <<message, got, closing, completing, providerVars,
                   twists, ended, loose, upset>>

\* received_track_reject_packet: the session stays StreamingFrom.
ReceiveRejection(m) ==
    /\ m.to = "requester" /\ m.kind = "reject"
    /\ Takes(m, {})
    /\ IF rSession.mode = "from"
       THEN /\ message' = [message EXCEPT ![rSession.stream].approved = "no"]
            /\ rejected' = rejected \cup {rSession.stream}
       ELSE UNCHANGED <<message, rejected>>
    /\ UNCHANGED <<rHandle, rSession, requested, got, closing, completing, repaired,
                   providerVars, ended, loose, upset>>

\* PendingStream::ready: an answer, or the stream ended without one, which drops
\* the sender of its messages.
Ready ==
    /\ rHandle = "pending"
    /\ message[requested].approved # "none" \/ rSession.stream # requested
    /\ rHandle' = IF message[requested].approved = "yes" THEN "input" ELSE "connection"
    /\ UNCHANGED <<rSession, requested, message, got, closing, completing, repaired, rejected,
                   providerVars, net, twists, ended, loose, upset>>

Written(k) == {p[1] : p \in got[k]}
Arrived == UNION {got[k] : k \in Stream}

\* Does stream k end with chunk c?  Done is declared when no hole is left, or
\* when the application accepts them and the head is at the end.
Whole(k, c) == Written(k) \cup {c} = Chunk(k)
MayEnd(k, c, done) == done = Whole(k, c) \/ (done /\ message[k].partial)

\* Chunk c of stream j is written into the buffer of stream k.
Write(k, c, j, done) ==
    /\ got' = [got EXCEPT ![k] = @ \cup {<<c, j>>}]
    /\ message' = [message EXCEPT ![k].approved = "yes", ![k].closed = @ \/ done]

\* the last chunk ends the stream for the application alone
ReceiveDataKeepsSession(m) ==  \* mutant of ReceiveData
    LET k == rSession.stream
    IN  /\ m.kind = "data"
        /\ IF rSession.mode = "from" /\ m.chunk \in Chunk(k) \ Written(k)
           THEN \E done \in BOOLEAN :
                     /\ MayEnd(k, m.chunk, done)
                     /\ Takes(m, IF done THEN {Playback("provider", "done", k)} ELSE {})
                     /\ Write(k, m.chunk, m.stream, done)
                     /\ UNCHANGED rSession
                     /\ loose' = IF done /\ ~ Whole(k, m.chunk) THEN loose \cup {k} ELSE loose
           ELSE Takes(m, {}) /\ UNCHANGED <<got, message, rSession, loose>>
        /\ UNCHANGED <<rHandle, requested, closing, completing, repaired, rejected,
                       providerVars, ended, upset>>

\* received_data_packet: a chunk the buffer lacks is written; the one that ends
\* the stream frees the session.
ReceiveData(m) ==
    LET k == rSession.stream
    IN  /\ m.kind = "data"
        /\ IF rSession.mode = "from" /\ m.chunk \in Chunk(k) \ Written(k)
           THEN \E done \in BOOLEAN :
                     /\ MayEnd(k, m.chunk, done)
                     /\ Takes(m, IF done THEN {Playback("provider", "done", k)} ELSE {})
                     /\ Write(k, m.chunk, m.stream, done)
                     /\ rSession' = IF done THEN Up ELSE rSession
                     /\ loose' = IF done /\ ~ Whole(k, m.chunk) THEN loose \cup {k} ELSE loose
           ELSE Takes(m, {}) /\ UNCHANGED <<got, message, rSession, loose>>
        /\ UNCHANGED <<rHandle, requested, closing, completing, repaired, rejected,
                       providerVars, ended, upset>>

\* recovered_packet: a batch gives the one chunk of it that has not come, which
\* may still be on its way.  When it ends the stream the application is told,
\* and the session stays StreamingFrom.
Recover ==
    LET k == rSession.stream
    IN  /\ rSession.mode = "from" /\ twists > 0
        /\ twists' = twists - 1
        /\ \E j \in Stream, c \in Chunk(k) \ Written(k), done \in BOOLEAN :
               /\ c <= position[j]
               /\ Data(j, c) \in net \/ <<c, j>> \notin Arrived
               /\ MayEnd(k, c, done)
               /\ Write(k, c, j, done)
               /\ repaired' = IF done THEN repaired \cup {k} ELSE repaired
               /\ net' = IF done THEN net \cup {Playback("provider", "done", k)} ELSE net
               /\ loose' = loose \cup {j} \cup
                               (IF done /\ ~ Whole(k, c) THEN {k} ELSE {})
        /\ UNCHANGED <<rHandle, rSession, requested, closing, completing, rejected,
                       providerVars, ended, upset>>

\* Stream::complete(true): a command is on its way that sets `partial`, and the
\* call waits.
AcceptHoles ==
    /\ rHandle = "input" /\ twists > 0
    /\ twists' = twists - 1
    /\ rHandle' = "completing"
    /\ completing' = completing \cup {requested}
    /\ UNCHANGED <<rSession, requested, message, got, closing, repaired, rejected,
                   providerVars, net, ended, loose, upset>>

\* set_complete_stream, of the stream the session has now.
RunComplete(k) ==
    /\ k \in completing
    /\ completing' = completing \ {k}
    /\ message' = IF rSession.mode = "from"
                  THEN [message EXCEPT ![rSession.stream].partial = TRUE] ELSE message
    /\ UNCHANGED <<rHandle, rSession, requested, got, closing, repaired, rejected,
                   providerVars, net, twists, ended, loose, upset>>

\* The call returns the Connection.  That of complete(false) waits in "input":
\* its command at most takes back what a late one set for another stream, and a
\* stream with `partial` may end with holes and need not.
Complete ==
    /\ rHandle \in {"input", "completing"} /\ message[requested].closed
    /\ rHandle' = "connection"
    /\ UNCHANGED <<rSession, requested, message, got, closing, completing, repaired, rejected,
                   providerVars, net, twists, ended, loose, upset>>

\* Stream::close returns it at once, and so does dropping the stream or the call
\* of complete; the command is on its way.
CloseInput ==
    /\ rHandle \in {"input", "completing"}
    /\ rHandle' = "connection"
    /\ closing' = closing \cup {requested}
    /\ ended' = ended \cup {requested}
    /\ UNCHANGED <<rSession, requested, message, got, completing, repaired, rejected,
                   providerVars, net, twists, loose, upset>>

\* close_stream of the state: the stream the session has now.
EndRequested ==
    /\ rSession' = Up
    /\ message' = IF rSession.mode = "from"
                  THEN [message EXCEPT ![rSession.stream].closed = TRUE] ELSE message
    /\ repaired' = {} /\ rejected' = {}

\* endpoints::close_stream
RunClose(k) ==
    /\ k \in closing
    /\ closing' = closing \ {k}
    /\ EndRequested
    /\ net' = net \cup {Playback("provider", "close", k)}
    /\ UNCHANGED <<rHandle, requested, got, completing, providerVars,
                   twists, ended, loose, upset>>

\* received_playback_control_packet: Close.
ReceiveProvidersClose(m) ==
    /\ m.to = "requester" /\ m.kind = "close"
    /\ Takes(m, {})
    /\ EndRequested
    /\ UNCHANGED <<rHandle, requested, got, closing, completing, providerVars,
                   ended, loose, upset>>

\* send_playback_control_packet: nothing is sent when nothing changes.
PauseOrPlay(paused) ==
    /\ rHandle = "input" /\ twists > 0
    /\ twists' = twists - 1
    /\ IF rSession.mode = "from"
       THEN /\ message[rSession.stream].paused # paused
            /\ message' = [message EXCEPT ![rSession.stream].paused = paused]
       ELSE UNCHANGED message
    /\ net' = net \cup {Playback("provider", IF paused THEN "pause" ELSE "play", requested)}
    /\ UNCHANGED <<rHandle, rSession, requested, got, closing, completing, repaired, rejected,
                   providerVars, ended, loose, upset>>

-----------------------------------------------------------------------------
(* The provider.                                                             *)

\* received_track_request_packet
ReceiveRequest(m) ==
    /\ m.kind = "request"
    /\ Takes(m, {})
    /\ events' = Append(events, m.stream)
    /\ UNCHANGED <<requesterVars, pHandle, pSession, tasks, position, pClosed, slot, loops,
                   ended, loose, upset>>

\* Connection::listen
Listen ==
    /\ pHandle = Connection /\ events # <<>>
    /\ pHandle' = [kind |-> "requested", stream |-> Head(events)]
    /\ events' = Tail(events)
    /\ UNCHANGED <<requesterVars, pSession, tasks, position, pClosed, slot, loops,
                   net, twists, ended, loose, upset>>

\* RequestedStream::approve: send_data answers before it streams, and the
\* RequestedStream that is dropped sends a rejection as well.
Approve ==
    LET k == pHandle.stream
    IN  /\ pHandle.kind = "requested"
        /\ IF pSession = Up
           THEN /\ pHandle' = [kind |-> "output", stream |-> k]
                /\ tasks' = tasks \cup {<<"send", k>>, <<"reject", k>>}
           ELSE pHandle' = Connection /\ tasks' = tasks \cup {<<"reject", k>>}
        /\ UNCHANGED <<requesterVars, pSession, events, position, pClosed, slot, loops,
                       net, twists, ended, loose, upset>>

\* dropping the RequestedStream tells nobody
RejectSilently ==  \* mutant of Reject
    /\ pHandle.kind = "requested"
    /\ pHandle' = Connection
    /\ UNCHANGED <<requesterVars, pSession, events, tasks, position, pClosed, slot, loops,
                   net, twists, ended, loose, upset>>

\* RequestedStream::reject, and its drop: two commands with one effect.
Reject ==
    /\ pHandle.kind = "requested"
    /\ pHandle' = Connection
    /\ tasks' = tasks \cup {<<"reject", pHandle.stream>>}
    /\ UNCHANGED <<requesterVars, pSession, events, position, pClosed, slot, loops,
                   net, twists, ended, loose, upset>>

\* reject_track_request: only while the session is free.
RunReject(k) ==
    /\ <<"reject", k>> \in tasks
    /\ tasks' = tasks \ {<<"reject", k>>}
    /\ net' = IF pSession = Up THEN net \cup {TrackRejection(k)} ELSE net
    /\ UNCHANGED <<requesterVars, pHandle, pSession, events, position, pClosed, slot, loops,
                   twists, ended, loose, upset>>

\* send_on_session: stream_to, and the loop starts, which listens to the events
\* of the stream the session has then.
StreamTo(k) ==
    /\ <<"send", k>> \in tasks
    /\ tasks' = tasks \ {<<"send", k>>}
    /\ pSession' = IF pSession = Up THEN [mode |-> "to", stream |-> k] ELSE pSession
    /\ loops' = [loops EXCEPT ![k] = [playing |-> TRUE, event |-> pSession'.stream]]
    /\ UNCHANGED <<requesterVars, pHandle, events, position, pClosed, slot,
                   net, twists, ended, loose, upset>>

\* one chunk too many
TickPastEnd(k) ==  \* mutant of Tick
    LET j == pSession.stream
    IN  /\ loops[k].playing
        /\ pSession.mode = "to" /\ position[j] <= Length[j]
        /\ position' = [position EXCEPT ![j] = @ + 1]
        /\ net' = net \cup {Data(j, position'[j])}
        /\ UNCHANGED <<requesterVars, pHandle, pSession, events, tasks, pClosed, slot, loops,
                       twists, ended, loose, upset>>

\* the last chunk ends the stream at the provider
TickEnds(k) ==  \* mutant of Tick
    LET j == pSession.stream
    IN  /\ loops[k].playing
        /\ pSession.mode = "to" /\ position[j] < Length[j]
        /\ position' = [position EXCEPT ![j] = @ + 1]
        /\ net' = net \cup {Data(j, position'[j])}
        /\ pClosed' = [pClosed EXCEPT ![j] = position'[j] = Length[j]]
        /\ pSession' = IF position'[j] = Length[j] THEN Up ELSE pSession
        /\ UNCHANGED <<requesterVars, pHandle, events, tasks, slot, loops,
                       twists, ended, loose, upset>>

\* send_stream_action: a chunk of the stream the session has now.
Tick(k) ==
    LET j == pSession.stream
    IN  /\ loops[k].playing
        /\ pSession.mode = "to" /\ position[j] < Length[j]
        /\ position' = [position EXCEPT ![j] = @ + 1]
        /\ net' = net \cup {Data(j, position'[j])}
        /\ UNCHANGED <<requesterVars, pHandle, pSession, events, tasks, pClosed, slot, loops,
                       twists, ended, loose, upset>>

\* When no chunk is left it sends those again that a seek skipped or that were
\* asked for.
SendAgain(k) ==
    LET j == pSession.stream
    IN  /\ loops[k].playing
        /\ pSession.mode = "to" /\ position[j] = Length[j]
        /\ twists > 0 /\ twists' = twists - 1
        /\ \E c \in Chunk(j) :
               Data(j, c) \notin net /\ net' = net \cup {Data(j, c)}
        /\ loose' = loose \cup {j}
        /\ UNCHANGED <<requesterVars, providerVars, ended, upset>>

\* close_stream of the state: Close is put into the stream's slot, for a loop
\* that has no way to end.
EndProvided(slots) ==
    LET j == pSession.stream
    IN  /\ pSession' = Up
        /\ pClosed' = IF pSession.mode = "to" THEN [pClosed EXCEPT ![j] = TRUE] ELSE pClosed
        /\ slot' = IF pSession.mode = "to" THEN [slots EXCEPT ![j] = "close"] ELSE slots

\* handle_stream_event
HandleEvent(k) ==
    LET e == slot[loops[k].event]
        taken == [slot EXCEPT ![loops[k].event] = "none"]
    IN  /\ loops[k] # NoLoop /\ e # "none"
        /\ IF e \in {"pause", "play"}
           THEN /\ loops' = [loops EXCEPT ![k].playing = (e = "play")]
                /\ slot' = taken
                /\ UNCHANGED <<pSession, pClosed, upset>>
           ELSE /\ EndProvided(taken)
                /\ upset' = (upset \/ pSession \notin {Up, [mode |-> "to", stream |-> k]})
                /\ UNCHANGED loops
        /\ UNCHANGED <<requesterVars, pHandle, events, tasks, position,
                       net, twists, ended, loose>>

\* received_playback_control_packet: the event replaces the one in the slot.
ReceivePlayback(m) ==
    LET j == pSession.stream
    IN  /\ m.kind \in {"done", "pause", "play"}
        /\ Takes(m, {})
        /\ IF pSession.mode = "to"
           THEN /\ slot' = [slot EXCEPT ![j] = m.kind]
                /\ upset' = (upset \/ slot[j] # "none" \/ m.stream # j)
           ELSE UNCHANGED <<slot, upset>>
        /\ UNCHANGED <<requesterVars, pHandle, pSession, events, tasks, position, pClosed,
                       loops, ended, loose>>

ReceiveRequestersClose(m) ==
    /\ m.to = "provider" /\ m.kind = "close"
    /\ Takes(m, {})
    /\ EndProvided(slot)
    /\ upset' = (upset \/ pSession \notin {Up, [mode |-> "to", stream |-> m.stream]})
    /\ UNCHANGED <<requesterVars, pHandle, events, tasks, position, loops, ended, loose>>

\* OutputStream::complete
OutputDone ==
    /\ pHandle.kind = "output" /\ pClosed[pHandle.stream]
    /\ pHandle' = Connection
    /\ UNCHANGED <<requesterVars, pSession, events, tasks, position, pClosed, slot, loops,
                   net, twists, ended, loose, upset>>

\* complete of a stream that found the session occupied: its sender is dropped,
\* and with the error the Connection and the session go, which is not followed
\* here.
OutputFails ==
    /\ pHandle.kind = "output" /\ ~ pClosed[pHandle.stream]
    /\ pSession.stream # pHandle.stream /\ <<"send", pHandle.stream>> \notin tasks
    /\ pHandle' = [pHandle EXCEPT !.kind = "lost"]
    /\ UNCHANGED <<requesterVars, pSession, events, tasks, position, pClosed, slot, loops,
                   net, twists, ended, loose, upset>>

\* OutputStream::close or drop
CloseOutput ==
    /\ pHandle.kind = "output" /\ twists > 0
    /\ twists' = twists - 1
    /\ pHandle' = Connection
    /\ tasks' = tasks \cup {<<"close", pHandle.stream>>}
    /\ ended' = ended \cup {pHandle.stream}
    /\ UNCHANGED <<requesterVars, pSession, events, position, pClosed, slot, loops,
                   net, loose, upset>>

\* It may come before the stream has started.
RunProvidersClose(k) ==
    /\ <<"close", k>> \in tasks
    /\ tasks' = tasks \ {<<"close", k>>}
    /\ EndProvided(slot)
    /\ net' = net \cup {Playback("requester", "close", k)}
    /\ upset' = (upset \/ <<"send", k>> \in tasks
                       \/ pSession \notin {Up, [mode |-> "to", stream |-> k]})
    /\ UNCHANGED <<requesterVars, pHandle, events, position, loops, twists, ended, loose>>

-----------------------------------------------------------------------------
Init ==
    /\ rHandle = "connection" /\ rSession = Up /\ requested = 0
    /\ message = [k \in Stream |-> [approved |-> "none", closed |-> FALSE,
                                 paused |-> FALSE, partial |-> FALSE]]
    /\ got = [k \in Stream |-> {}]
    /\ closing = {} /\ completing = {}
    /\ pHandle = Connection /\ pSession = Up
    /\ events = <<>> /\ tasks = {}
    /\ position = [k \in Stream |-> 0]
    /\ pClosed = [k \in Stream |-> FALSE]
    /\ slot = [k \in Stream |-> "none"]
    /\ loops = [k \in Stream |-> NoLoop]
    /\ net = {} /\ twists = MaxTwists
    /\ repaired = {} /\ rejected = {} /\ ended = {} /\ loose = {}
    /\ upset = FALSE

RequesterStep ==
    \/ \E m \in net : ReceiveRejection(m) \/ ReceiveData(m) \/ ReceiveProvidersClose(m)
    \/ Ready \/ RequestAgain
    \/ \E k \in Stream : RunClose(k) \/ RunComplete(k)

ProviderStep ==
    \/ \E m \in net : ReceiveRequest(m) \/ ReceivePlayback(m) \/ ReceiveRequestersClose(m)
    \/ Listen \/ Approve \/ Reject \/ OutputDone \/ OutputFails
    \/ \E k \in Stream : \/ RunReject(k) \/ StreamTo(k) \/ RunProvidersClose(k)
                         \/ Tick(k) \/ SendAgain(k) \/ HandleEvent(k)

Next ==
    \/ RequesterStep
    \/ ProviderStep
    \/ Request \/ AcceptHoles \/ Complete \/ CloseInput \/ CloseOutput
    \/ Recover
    \/ \E paused \in BOOLEAN : PauseOrPlay(paused)

Spec == Init /\ [][Next]_vars

\* What does not need a decision of the requester's application: packets arrive,
\* tasks run, loops tick and take their events; the provider's application
\* listens, answers a request and collects its finished streams.
SystemStep ==
    \/ Ready \/ Listen \/ Approve \/ Reject \/ OutputDone
    \/ \E k \in Stream : \/ RunClose(k) \/ RunReject(k) \/ StreamTo(k)
                         \/ RunProvidersClose(k) \/ Tick(k) \/ HandleEvent(k)
    \/ \E m \in net : \/ ReceiveRejection(m) \/ ReceiveData(m) \/ ReceiveProvidersClose(m)
                      \/ ReceiveRequest(m) \/ ReceivePlayback(m) \/ ReceiveRequestersClose(m)

\* These steps are taken until there is none to take.  Each uses up a packet, a
\* task, an event or a chunk, and what the applications do is bounded, so that
\* there is always an end to them: it is weak fairness of SystemStep.
Fairness == []<>~ ENABLED <<SystemStep>>_vars

FairSpec == Spec /\ Fairness

-----------------------------------------------------------------------------
(* Properties.                                                               *)

Event == {"none", "pause", "play", "done", "close"}

\* Every variable has its type (SessionStates, StreamMessage, the handles).
TypeOK ==
    /\ rHandle \in {"connection", "retrying", "pending", "input", "completing"}
    /\ rSession \in {Up} \cup [mode : {"from"}, stream : 1 .. requested]
    /\ pHandle \in {Connection} \cup [kind : {"requested", "output", "lost"}, stream : 1 .. requested]
    /\ pSession \in {Up} \cup [mode : {"to"}, stream : 1 .. requested]
    /\ message \in [Stream -> [approved : {"none", "yes", "no"},
                               closed : BOOLEAN, paused : BOOLEAN, partial : BOOLEAN]]
    /\ \A k \in Stream : got[k] \subseteq Chunk(k) \X (1 .. requested)
    /\ closing \subseteq 1 .. requested
    /\ completing \subseteq 1 .. requested
    /\ tasks \subseteq {"send", "reject", "close"} \X Stream
    /\ \A k \in Stream : position[k] \in 0 .. Length[k]
    /\ slot \in [Stream -> Event]
    /\ \A k \in Stream : loops[k] # NoLoop => loops[k].event \in Stream

\* A request finds the session occupied, which the code takes for impossible,
\* only after a rejection, which leaves the session StreamingFrom, after a
\* stream that a recovered packet completed, or while a stream is closing
\* (request_track, received_track_reject_packet, recovered_packet).
OccupiedIsExplained ==
    (rHandle = "retrying" /\ rSession # Up) =>
        rSession.stream \in rejected \cup repaired \cup closing

\* A chunk of an earlier stream gets into the buffer of a later one, as data
\* packets name no stream, only when the earlier one or one before it did not
\* end by taking each of its packets once: an application closed it, a chunk was
\* sent again (send_stream_action), a batch gave a chunk whose packet was still
\* on its way (recovered_packet), or it ended with holes (received_data_packet).
\* Otherwise a stream leaves nothing behind, whatever is paused, rejected,
\* handled twice or closed late.
ForeignIsExplained ==
    \A k \in Stream : \A p \in got[k] :
        p[2] # k => p[2] < k /\ \E j \in ended \cup loose : j <= p[2]

\* The provider stops sending a stream only when the requester has ended it or
\* an application has closed it (handle_stream_event, close_stream), as long as
\* nothing that belongs to one stream acts on another.
EndsAtRequester ==
    \A k \in Stream : (pClosed[k] /\ k \notin ended /\ ~ upset) => message[k].closed

\* Every request is answered: ready returns, approved, rejected or because the
\* stream ended, as long as no event overwrites another (a Done that is lost
\* leaves the provider streaming, and then no rejection is sent) and what
\* belongs to one stream does not act on another.
RequestsAnswered ==
    []<>(upset \/ rHandle # "pending")

=============================================================================
