------------------------------- MODULE Sessions -------------------------------
(****************************************************************************)
(* Sessions between nodes: the Hello exchange that creates them, the tables *)
(* that know them, keep-alives that move them to another address, and their *)
(* closing.                                                                 *)
(*                                                                          *)
(* A node that connects has an entry in `handshakes`; its Hello proposes a  *)
(* session id.  The peer asks its application, creates the session in the   *)
(* state Handshake and answers with a Hello of its own; the initiator       *)
(* promotes its handshake to an Established session and acknowledges, which *)
(* establishes the session at the peer.  Ids that are taken are replaced by *)
(* the peer, or make the initiator start over with another Hello.           *)
(*                                                                          *)
(* A session has a row in three tables, each under a lock of its own:       *)
(* connections, address_session and encryption.  Creating, closing and      *)
(* moving a session touch them one after another, in steps of their own     *)
(* here.  A task that handles a Hello looks whether the id is in use first  *)
(* and creates or promotes a session later, when that may have changed.     *)
(*                                                                          *)
(* The network delays, reorders and loses (a message may stay in `net` for  *)
(* ever, as one sent to an address its node has left does).  Copies of one  *)
(* datagram are dropped by the fingerprint window, except for rejections    *)
(* and keep-alives, which do not pass it, and unless two copies are judged  *)
(* at the same moment (AckRetry).  Ids are drawn at random, rarely one that *)
(* is in use.                                                               *)
(****************************************************************************)
EXTENDS Naturals, FiniteSets, TLC

CONSTANTS
    Node,
    MaxSession,     \* bound: session ids drawn
    MaxConnect,     \* bound: connects that draw a free session id
    MaxKey,         \* bound: Hello packets approved, each with a key of its own
    MaxAccidents,   \* bound: session ids drawn that were drawn before, deduplicated
                    \* messages handled twice and changes of a node's address
    Mover           \* tasks of a node that may handle keep-alives at one time

ASSUME SessionsAssumption ==
    /\ MaxSession \in Nat /\ MaxConnect \in Nat
    /\ MaxKey \in Nat /\ MaxAccidents \in Nat

VARIABLES
    at,             \* which of its addresses a node uses now
    handshakes,     \* entries [id, session, first]
    handling,       \* tasks that handle a Hello: [hello, copy, step]
    connections,    \* session id -> [state, address]
    addressSession, \* pairs <<address, session id>>
    encryption,     \* session id -> key
    reply,          \* answer to the application that connects, per handshake
    held,           \* sessions the application has a Connection for
    keptAlive,      \* sessions with a keep-alive loop
    closers,        \* tasks that close: [session, address, step]
    movers,         \* tasks in update_address: [session, from, to, step]
    net,
    drawn,          \* handshake ids, session ids and keys drawn so far
    accidents,      \* how many are left
    \* history
    promoted,       \* sessions some initiator promoted
    reused,         \* session ids drawn before, or approved again from a copy of
                    \* a Hello: one that the application is asked about late,
                    \* when some initiator had promoted the id, or while another
                    \* is being approved, so that new_session finds it in use
    disturbed       \* <<node, session>> whose rows an id collision took apart, or
                    \* a move that met another or the session's closing

tableVars == <<connections, addressSession, encryption>>
appVars == <<reply, held>>
historyVars == <<promoted, reused, disturbed>>
taskVars == <<handling, keptAlive, closers, movers>>
vars == <<at, handshakes, tableVars, appVars, taskVars, net, drawn, accidents, historyVars>>

HandshakeId == 1 .. MaxConnect + MaxAccidents + MaxSession
SessionId == 1 .. MaxSession
Address == Node \X (0 .. MaxAccidents)
AddressOf(n) == <<n, at[n]>>
NoTask == [session |-> 0, from |-> 0, to |-> 0, step |-> "none"]

Has(n, s) == s \in DOMAIN connections[n]
Without(f, x) == [y \in DOMAIN f \ {x} |-> f[y]]
With(f, x, v) == [y \in DOMAIN f \cup {x} |-> IF y = x THEN v ELSE f[y]]

-----------------------------------------------------------------------------
(* Packets.                                                                 *)

Packet(n, dst, kind, s, h, key) ==
    [src |-> AddressOf(n), dst |-> dst, kind |-> kind, session |-> s, hid |-> h, key |-> key]

\* The public key of an answer determines the key, that of a proposal none yet.
HelloPacket(n, dst, s, h, key) == Packet(n, dst, "hello", s, h, key)
HandshakeAckPacket(n, dst, s, h) == Packet(n, dst, "ack", s, h, 0)
AppRejection(n, dst, s, h) == Packet(n, dst, "rejected", s, h, 0)
IdCollision(n, dst, s, h) == Packet(n, dst, "collision", s, h, 0)

\* tag: these carry a code made with the session's key.
Key(n, s) == IF s \in DOMAIN encryption[n] THEN encryption[n][s] ELSE 0
CloseSessionPacket(n, dst, s) == Packet(n, dst, "close", s, 0, Key(n, s))
KeepAlivePacket(n, dst, s) == Packet(n, dst, "alive", s, 0, Key(n, s))
Authentic(n, m) == m.session \in DOMAIN encryption[n] /\ encryption[n][m.session] = m.key

Arrived(n, m, kind) == m \in net /\ m.kind = kind /\ m.dst = AddressOf(n)

\* dedup_with_payload, dedup_no_payload: the task that takes m is the only one,
\* unless a copy is judged at the same moment and stays for another.
Takes(m, out) ==
    \/ net' = (net \ {m}) \cup out /\ UNCHANGED accidents
    \/ /\ accidents > 0
       /\ net' = net \cup out
       /\ accidents' = accidents - 1

NewSessionId == drawn.sessions + 1
NewHandshakeId == drawn.handshakes + 1
NewKey == drawn.keys + 1

-----------------------------------------------------------------------------
(* The handshake.                                                           *)

\* connect: the handshake is stored and Hello sent.  By accident the id is one
\* that was drawn before.
Connect(n, m) ==
    /\ n # m
    /\ reply' = With(reply, NewHandshakeId, "waiting")
    /\ \E s \in SessionId :
           /\ \/ /\ s = NewSessionId
                 /\ Cardinality(DOMAIN reply) < MaxConnect
                 /\ drawn' = [drawn EXCEPT !.handshakes = @ + 1, !.sessions = s]
                 /\ UNCHANGED <<accidents, reused>>
              \/ /\ accidents > 0
                 /\ s < NewSessionId
                 /\ drawn' = [drawn EXCEPT !.handshakes = @ + 1]
                 /\ accidents' = accidents - 1
                 /\ reused' = reused \cup {s}
           /\ handshakes' = [handshakes EXCEPT ![n] = @ \cup
                  {[id |-> NewHandshakeId, session |-> s, first |-> NewHandshakeId]}]
           /\ net' = net \cup {HelloPacket(n, AddressOf(m), s, NewHandshakeId, 0)}
    /\ UNCHANGED <<at, tableVars, held, taskVars, promoted, disturbed>>

\* A task that handles a Hello: as receiver it waits for the application
\* ("asked"), creates the session and makes its key; as initiator it has found
\* its handshake, and then that the id is free or collides.
Task(m, copy, step) == [hello |-> m, copy |-> copy, step |-> step]
GoesOn(n, t, step) ==
    handling' = [handling EXCEPT ![n] = (@ \ {t}) \cup {[t EXCEPT !.step = step]}]
Ends(n, t) == handling' = [handling EXCEPT ![n] = @ \ {t}]

\* received_hello_packet: whose Hello it is depends on the handshake's entry.
\* As receiver the application is asked.
ReceiveHello(n, m) ==
    /\ Arrived(n, m, "hello")
    /\ Takes(m, {})
    /\ \E step \in {"asked", "found"} :
           /\ step = "found" <=> \E h \in handshakes[n] : h.id = m.hid
           /\ handling' = [handling EXCEPT ![n] = @ \cup {Task(m, accidents, step)}]
    /\ UNCHANGED <<at, handshakes, tableVars, appVars, keptAlive, closers, movers,
                   drawn, historyVars>>

\* The application drops or rejects the IncomingConnection.
AppReject(n, t) ==
    /\ t \in handling[n] /\ t.step = "asked"
    /\ Ends(n, t)
    /\ net' = net \cup {AppRejection(n, t.hello.src, t.hello.session, t.hello.hid)}
    /\ UNCHANGED <<at, handshakes, tableVars, appVars, keptAlive, closers, movers,
                   drawn, accidents, historyVars>>

\* It approves: the session gets the proposed id unless this node has one of
\* that id (session_exists).
AppApprove(n, t) ==
    /\ t \in handling[n] /\ t.step = "asked"
    /\ \E s \in SessionId :
           /\ s = IF Has(n, t.hello.session) THEN NewSessionId ELSE t.hello.session
           /\ handling' = [handling EXCEPT ![n] =
                  (@ \ {t}) \cup {Task([t.hello EXCEPT !.session = s], t.copy, "create")}]
           /\ drawn' = [drawn EXCEPT !.sessions = IF s > @ THEN s ELSE @]
    /\ UNCHANGED <<at, handshakes, tableVars, appVars, keptAlive, closers, movers, net,
                   accidents, historyVars>>

\* Mutant: the session is established without waiting for the initiator.
NewSessionAtOnce(n, s, address) ==
    /\ connections' = [connections EXCEPT ![n] =
           With(@, s, [state |-> "established", address |-> address])]
    /\ addressSession' = [addressSession EXCEPT ![n] = @ \cup {<<address, s>>}]

\* new_session, with an id that is free.
NewSession(n, s, address) ==
    /\ connections' = [connections EXCEPT ![n] =
           With(@, s, [state |-> "handshake", address |-> address])]
    /\ addressSession' = [addressSession EXCEPT ![n] = @ \cup {<<address, s>>}]

\* new_session: when a copy of the Hello was approved in the meantime the id is
\* in use, which a debug assertion denies; a release build goes on without a row.
CreateSession(n, t) ==
    /\ t \in handling[n] /\ t.step = "create"
    /\ GoesOn(n, t, "key")
    /\ \/ /\ ~ Has(n, t.hello.session)
          /\ NewSession(n, t.hello.session, t.hello.src)
          /\ reused' = IF t.hello.session \in promoted
                       THEN reused \cup {t.hello.session} ELSE reused
       \/ /\ Has(n, t.hello.session)
          /\ reused' = reused \cup {t.hello.session}
          /\ UNCHANGED <<connections, addressSession>>
    /\ UNCHANGED <<at, handshakes, encryption, appVars, keptAlive, closers, movers, net,
                   drawn, accidents, promoted, disturbed>>

\* Mutant: the answer has the public key of another secret.
InsertKeyOfAnother(n, t) ==
    /\ t \in handling[n] /\ t.step = "key"
    /\ Ends(n, t)
    /\ NewKey \in 1 .. MaxKey
    /\ encryption' = [encryption EXCEPT ![n] = With(@, t.hello.session, NewKey)]
    /\ net' = net \cup
           {HelloPacket(n, t.hello.src, t.hello.session, t.hello.hid, drawn.keys)}
    /\ drawn' = [drawn EXCEPT !.keys = @ + 1]
    /\ UNCHANGED <<at, handshakes, connections, addressSession, appVars, keptAlive, closers,
                   movers, accidents, historyVars>>

\* The key is made, whether the session is this task's or not, and the answer
\* sent.
InsertKey(n, t) ==
    /\ t \in handling[n] /\ t.step = "key"
    /\ Ends(n, t)
    /\ NewKey \in 1 .. MaxKey
    /\ encryption' = [encryption EXCEPT ![n] = With(@, t.hello.session, NewKey)]
    /\ net' = net \cup {HelloPacket(n, t.hello.src, t.hello.session, t.hello.hid, NewKey)}
    /\ drawn' = [drawn EXCEPT !.keys = @ + 1]
    /\ UNCHANGED <<at, handshakes, connections, addressSession, appVars, keptAlive, closers,
                   movers, accidents, historyVars>>

\* received_hello_packet_as_initializer: session_exists.
CheckId(n, t) ==
    /\ t \in handling[n] /\ t.step = "found"
    /\ GoesOn(n, t, IF Has(n, t.hello.session) THEN "collided" ELSE "free")
    /\ UNCHANGED <<at, handshakes, tableVars, appVars, keptAlive, closers, movers, net,
                   drawn, accidents, historyVars>>

\* promote_handshake: the row of address_session gets the id of the entry in
\* `handshakes`, not the one agreed on.
Promote(n, h, s, address, key) ==
    /\ handshakes' = [handshakes EXCEPT ![n] = @ \ {h}]
    /\ connections' = [connections EXCEPT ![n] =
           With(@, s, [state |-> "established", address |-> address])]
    /\ addressSession' = [addressSession EXCEPT ![n] = @ \cup {<<address, h.session>>}]
    /\ encryption' = [encryption EXCEPT ![n] = With(@, s, key)]
    /\ reply' = [reply EXCEPT ![h.first] = "connected"]
    /\ held' = [held EXCEPT ![n] = @ \cup {s}]
    /\ keptAlive' = [keptAlive EXCEPT ![n] = @ \cup {s}]
    /\ promoted' = promoted \cup {s}
    /\ disturbed' = IF s = h.session THEN disturbed
                    ELSE disturbed \cup {<<n, s>>, <<n, h.session>>}
    /\ UNCHANGED reused

\* The id was free.  A copy may have used the handshake up; and when the id has
\* come into use, promote_handshake has taken the handshake and drops the
\* application's response with it.
HelloAnswered(n, t) ==
    LET m == t.hello
    IN  /\ t \in handling[n] /\ t.step = "free"
        /\ Ends(n, t)
        /\ \/ /\ \A h \in handshakes[n] : h.id # m.hid
              /\ UNCHANGED <<handshakes, tableVars, appVars, keptAlive, net, historyVars>>
           \/ /\ ~ Has(n, m.session)
              /\ \E h \in handshakes[n] : h.id = m.hid /\ Promote(n, h, m.session, m.src, m.key)
              /\ net' = net \cup {HandshakeAckPacket(n, m.src, m.session, m.hid)}
           \/ /\ Has(n, m.session)
              /\ \E h \in handshakes[n] :
                     /\ h.id = m.hid
                     /\ handshakes' = [handshakes EXCEPT ![n] = @ \ {h}]
                     /\ reply' = [reply EXCEPT ![h.first] = "dropped"]
              /\ UNCHANGED <<tableVars, held, keptAlive, net, historyVars>>
        /\ UNCHANGED <<at, closers, movers, drawn, accidents>>

\* Mutant: reuse_handshake clears the session id instead of keeping it.
ReusedCleared(h, s) == [h EXCEPT !.id = NewHandshakeId, !.session = 0]

\* reuse_handshake: the entry goes on under a new handshake id.
Reused(h, s) == [h EXCEPT !.id = NewHandshakeId, !.session = s]

\* Mutant: reuse_handshake takes the entry and puts none back.
HelloCollidesForgets(n, t) ==
    LET m == t.hello
    IN  /\ t \in handling[n] /\ t.step = "collided"
        /\ Ends(n, t)
        /\ \/ /\ \A h \in handshakes[n] : h.id # m.hid
              /\ net' = net \cup {IdCollision(n, m.src, m.session, m.hid)}
              /\ UNCHANGED <<handshakes, drawn>>
           \/ /\ NewSessionId \in SessionId
              /\ \E h \in handshakes[n] :
                     /\ h.id = m.hid
                     /\ handshakes' = [handshakes EXCEPT ![n] = @ \ {h}]
              /\ drawn' = [drawn EXCEPT !.handshakes = @ + 1, !.sessions = @ + 1]
              /\ net' = net \cup {IdCollision(n, m.src, m.session, m.hid),
                                  HelloPacket(n, m.src, NewSessionId, NewHandshakeId, 0)}
        /\ UNCHANGED <<at, tableVars, appVars, keptAlive, closers, movers, accidents,
                       historyVars>>

\* session_id_collided: the same connect goes on under another handshake id,
\* whose entry has the id that collided and whose Hello proposes a new one.
HelloCollides(n, t) ==
    LET m == t.hello
    IN  /\ t \in handling[n] /\ t.step = "collided"
        /\ Ends(n, t)
        /\ \/ /\ \A h \in handshakes[n] : h.id # m.hid
              /\ net' = net \cup {IdCollision(n, m.src, m.session, m.hid)}
              /\ UNCHANGED <<handshakes, drawn>>
           \/ /\ NewSessionId \in SessionId
              /\ \E h \in handshakes[n] :
                     /\ h.id = m.hid
                     /\ handshakes' = [handshakes EXCEPT ![n] = (@ \ {h}) \cup {Reused(h, m.session)}]
              /\ drawn' = [drawn EXCEPT !.handshakes = @ + 1, !.sessions = @ + 1]
              /\ net' = net \cup {IdCollision(n, m.src, m.session, m.hid),
                                  HelloPacket(n, m.src, NewSessionId, NewHandshakeId, 0)}
        /\ UNCHANGED <<at, tableVars, appVars, keptAlive, closers, movers, accidents,
                       historyVars>>

\* handshake_done
ReceiveHandshakeAck(n, m) ==
    /\ Arrived(n, m, "ack")
    /\ Takes(m, {})
    /\ IF Has(n, m.session) /\ connections[n][m.session].state = "handshake"
       THEN /\ connections' = [connections EXCEPT ![n][m.session].state = "established"]
            /\ held' = [held EXCEPT ![n] = @ \cup {m.session}]
       ELSE UNCHANGED <<connections, held>>
    /\ UNCHANGED <<at, handshakes, addressSession, encryption, reply, taskVars,
                   drawn, historyVars>>

\* received_handshake_rejected_packet, reason App.
ReceiveAppRejection(n, m) ==
    /\ Arrived(n, m, "rejected")
    /\ \E h \in handshakes[n] :
           /\ h.id = m.hid
           /\ handshakes' = [handshakes EXCEPT ![n] = @ \ {h}]
           /\ reply' = [reply EXCEPT ![h.first] = "rejected"]
    /\ UNCHANGED <<at, tableVars, held, taskVars, net, drawn, accidents, historyVars>>

\* Reason IdCollision: only the row of connections goes, whatever its state.
ReceiveIdCollision(n, m) ==
    /\ Arrived(n, m, "collision")
    /\ Has(n, m.session)
    /\ connections' = [connections EXCEPT ![n] = Without(@, m.session)]
    /\ disturbed' = disturbed \cup {<<n, m.session>>}
    /\ UNCHANGED <<at, handshakes, addressSession, encryption, appVars, taskVars,
                   net, drawn, accidents, promoted, reused>>

-----------------------------------------------------------------------------
(* Closing.                                                                 *)

Closer(s, address, step) == [session |-> s, address |-> address, step |-> step]

\* received_close_session_packet: an Established session's application is told.
ReceiveClose(n, m) ==
    /\ Arrived(n, m, "close")
    /\ Authentic(n, m)
    /\ Takes(m, {})
    /\ closers' = IF Has(n, m.session)
                  THEN [closers EXCEPT ![n] = @ \cup {Closer(m.session, AddressOf(n), "row")}]
                  ELSE closers
    /\ UNCHANGED <<at, handshakes, tableVars, appVars, handling, keptAlive, movers,
                   drawn, historyVars>>

\* Connection::close or drop: the task waits CLOSE_SESSION_DELAY.
AppClose(n, s) ==
    /\ s \in held[n]
    /\ held' = [held EXCEPT ![n] = @ \ {s}]
    /\ closers' = [closers EXCEPT ![n] = @ \cup {Closer(s, AddressOf(n), "send")}]
    /\ UNCHANGED <<at, handshakes, tableVars, reply, handling, keptAlive, movers,
                   net, drawn, accidents, historyVars>>

\* endpoints::close_session
SendClose(n, c) ==
    /\ c \in closers[n] /\ c.step = "send"
    /\ IF Has(n, c.session)
       THEN /\ net' = net \cup
                   {CloseSessionPacket(n, connections[n][c.session].address, c.session)}
            /\ closers' = [closers EXCEPT ![n] = (@ \ {c}) \cup {[c EXCEPT !.step = "row"]}]
       ELSE closers' = [closers EXCEPT ![n] = @ \ {c}] /\ UNCHANGED net
    /\ UNCHANGED <<at, handshakes, tableVars, appVars, handling, keptAlive, movers,
                   drawn, accidents, historyVars>>

\* close_session: the row of connections ...
CloseConnection(n, c) ==
    /\ c \in closers[n] /\ c.step = "row"
    /\ IF Has(n, c.session)
       THEN /\ connections' = [connections EXCEPT ![n] = Without(@, c.session)]
            /\ closers' = [closers EXCEPT ![n] = (@ \ {c}) \cup
                   {Closer(c.session, connections[n][c.session].address, "address")}]
            /\ disturbed' = IF \E i \in Mover : movers[n][i].session = c.session
                            THEN disturbed \cup {<<n, c.session>>} ELSE disturbed
       ELSE closers' = [closers EXCEPT ![n] = @ \ {c}] /\ UNCHANGED <<connections, disturbed>>
    /\ UNCHANGED <<at, handshakes, addressSession, encryption, appVars, handling,
                   keptAlive, movers, net, drawn, accidents, promoted, reused>>

\* ... the row of address_session and, unless that is gone, the key.
CloseAddress(n, c) ==
    /\ c \in closers[n] /\ c.step = "address"
    /\ closers' = [closers EXCEPT ![n] = @ \ {c}]
    /\ IF <<c.address, c.session>> \in addressSession[n]
       THEN /\ addressSession' = [addressSession EXCEPT ![n] = @ \ {<<c.address, c.session>>}]
            /\ encryption' = [encryption EXCEPT ![n] = Without(@, c.session)]
       ELSE UNCHANGED <<addressSession, encryption>>
    /\ UNCHANGED <<at, handshakes, connections, appVars, handling,
                   keptAlive, movers, net, drawn, accidents, historyVars>>

-----------------------------------------------------------------------------
(* Addresses.                                                               *)

\* External: the node's network gives it another address.
Move(n) ==
    /\ accidents > 0
    /\ at' = [at EXCEPT ![n] = @ + 1]
    /\ accidents' = accidents - 1
    /\ UNCHANGED <<handshakes, tableVars, appVars, taskVars, net, drawn, historyVars>>

\* send_keep_alive_on_session: the loop runs at the initiator until its session
\* is gone.
SendKeepAlive(n, s) ==
    /\ s \in keptAlive[n]
    /\ IF Has(n, s)
       THEN /\ net' = net \cup {KeepAlivePacket(n, connections[n][s].address, s)}
            /\ UNCHANGED keptAlive
       ELSE keptAlive' = [keptAlive EXCEPT ![n] = @ \ {s}] /\ UNCHANGED net
    /\ UNCHANGED <<at, handshakes, tableVars, appVars, handling, closers, movers,
                   drawn, accidents, historyVars>>

\* received_keep_alive_packet: update_address reads the session's address.
ReceiveKeepAlive(n, m, i) ==
    /\ Arrived(n, m, "alive")
    /\ Authentic(n, m)
    /\ Has(n, m.session) /\ connections[n][m.session].address # m.src
    /\ movers[n][i] = NoTask
    /\ movers' = [movers EXCEPT ![n][i] =
           [session |-> m.session, from |-> connections[n][m.session].address,
            to |-> m.src, step |-> "remove"]]
    /\ disturbed' = IF \E j \in Mover : movers[n][j].session = m.session
                    THEN disturbed \cup {<<n, m.session>>} ELSE disturbed
    /\ UNCHANGED <<at, handshakes, tableVars, appVars, handling, keptAlive, closers,
                   net, drawn, accidents, promoted, reused>>

\* Mutant: the session also stays at the address it left.
MoveRemoveKeeps(n, i) ==
    /\ movers[n][i].step = "remove"
    /\ LET task == movers[n][i]
           row == <<task.from, task.session>>
       IN  /\ UNCHANGED addressSession
           /\ movers' = [movers EXCEPT ![n][i] =
                  IF row \in addressSession[n] THEN [task EXCEPT !.step = "push"] ELSE NoTask]
    /\ UNCHANGED <<at, handshakes, connections, encryption, appVars, handling,
                   keptAlive, closers, net, drawn, accidents, historyVars>>

\* move_session: the old row goes; another task may have moved it already (the
\* debug assertion of update_address) ...
MoveRemove(n, i) ==
    /\ movers[n][i].step = "remove"
    /\ LET task == movers[n][i]
           row == <<task.from, task.session>>
       IN  /\ addressSession' = [addressSession EXCEPT ![n] = @ \ {row}]
           /\ movers' = [movers EXCEPT ![n][i] =
                  IF row \in addressSession[n] THEN [task EXCEPT !.step = "push"] ELSE NoTask]
    /\ UNCHANGED <<at, handshakes, connections, encryption, appVars, handling,
                   keptAlive, closers, net, drawn, accidents, historyVars>>

\* ... the new row comes ...
MovePush(n, i) ==
    /\ movers[n][i].step = "push"
    /\ addressSession' = [addressSession EXCEPT ![n] = @ \cup
           {<<movers[n][i].to, movers[n][i].session>>}]
    /\ movers' = [movers EXCEPT ![n][i].step = "row"]
    /\ UNCHANGED <<at, handshakes, connections, encryption, appVars, handling,
                   keptAlive, closers, net, drawn, accidents, historyVars>>

\* ... and the session gets the address.
MoveConnection(n, i) ==
    /\ movers[n][i].step = "row"
    /\ LET task == movers[n][i]
       IN  connections' = IF Has(n, task.session)
                          THEN [connections EXCEPT ![n][task.session].address = task.to]
                          ELSE connections
    /\ movers' = [movers EXCEPT ![n][i] = NoTask]
    /\ UNCHANGED <<at, handshakes, addressSession, encryption, appVars, handling,
                   keptAlive, closers, net, drawn, accidents, historyVars>>

-----------------------------------------------------------------------------
Nothing == [x \in {} |-> 0]

Init ==
    /\ at = [n \in Node |-> 0]
    /\ handshakes = [n \in Node |-> {}]
    /\ handling = [n \in Node |-> {}]
    /\ connections = [n \in Node |-> Nothing]
    /\ addressSession = [n \in Node |-> {}]
    /\ encryption = [n \in Node |-> Nothing]
    /\ reply = Nothing
    /\ held = [n \in Node |-> {}]
    /\ keptAlive = [n \in Node |-> {}]
    /\ closers = [n \in Node |-> {}]
    /\ movers = [n \in Node |-> [i \in Mover |-> NoTask]]
    /\ net = {}
    /\ drawn = [handshakes |-> 0, sessions |-> 0, keys |-> 0]
    /\ accidents = MaxAccidents
    /\ promoted = {}
    /\ reused = {}
    /\ disturbed = {}

HandshakeStep(n) ==
    \/ \E m \in Node : Connect(n, m)
    \/ \E m \in net : \/ ReceiveHello(n, m)
                      \/ ReceiveHandshakeAck(n, m)
                      \/ ReceiveAppRejection(n, m)
                      \/ ReceiveIdCollision(n, m)
    \/ \E t \in handling[n] : \/ AppReject(n, t) \/ AppApprove(n, t)
                              \/ CreateSession(n, t) \/ InsertKey(n, t)
                              \/ CheckId(n, t) \/ HelloAnswered(n, t) \/ HelloCollides(n, t)

CloseStep(n) ==
    \/ \E m \in net : ReceiveClose(n, m)
    \/ \E s \in held[n] : AppClose(n, s)
    \/ \E c \in closers[n] : \/ SendClose(n, c)
                             \/ CloseConnection(n, c)
                             \/ CloseAddress(n, c)

MoveStep(n) ==
    \/ Move(n)
    \/ \E s \in keptAlive[n] : SendKeepAlive(n, s)
    \/ \E m \in net, i \in Mover : ReceiveKeepAlive(n, m, i)
    \/ \E i \in Mover : MoveRemove(n, i) \/ MovePush(n, i) \/ MoveConnection(n, i)

Next == \E n \in Node : HandshakeStep(n) \/ CloseStep(n) \/ MoveStep(n)

Spec == Init /\ [][Next]_vars

Symmetry == Permutations(Node) \cup Permutations(Mover)

-----------------------------------------------------------------------------
(* Properties.                                                              *)

Tasks == [session : SessionId, address : Address, step : {"send", "row", "address"}]
Sessions == [state : {"handshake", "established"}, address : Address]

\* The tables and tasks have their types; among the rows of connections are no
\* sessions this protocol never drew (ProtocolState).
TypeOK ==
    /\ at \in [Node -> 0 .. MaxAccidents]
    /\ \A n \in Node :
           /\ handshakes[n] \subseteq
                  [id : HandshakeId, session : SessionId, first : HandshakeId]
           /\ DOMAIN connections[n] \subseteq 1 .. drawn.sessions
           /\ \A s \in DOMAIN connections[n] : connections[n][s] \in Sessions
           /\ addressSession[n] \subseteq Address \X SessionId
           /\ DOMAIN encryption[n] \subseteq SessionId
           /\ \A s \in DOMAIN encryption[n] : encryption[n][s] \in 0 .. drawn.keys
           /\ closers[n] \subseteq Tasks
           /\ held[n] \cup keptAlive[n] \subseteq SessionId

Established(n, s) == Has(n, s) /\ connections[n][s].state = "established"

\* Two nodes that have a session established have the same key for it,
\* whichever copies and answers cross (received_hello_packet_as_receiver, which
\* makes a key for each Hello approved); unless its id was used again, when a
\* HandshakeAck of the older session may establish the newer one, or approved
\* twice at once: then new_session finds the id in use and returns, the second
\* key replaces the first, and the initiator may have taken the first answer.
KeysAgree ==
    \A n, m \in Node, s \in SessionId \ reused :
        (Established(n, s) /\ Established(m, s)) => encryption[n][s] = encryption[m][s]

\* No session is half open: a node takes one for established only when an
\* initiator has promoted a handshake to it (handshake_done).
EstablishedWasPromoted ==
    \A n \in Node, s \in SessionId : Established(n, s) => s \in promoted

\* An application that waits for connect can be answered: its response is in an
\* entry of `handshakes` a packet may still find (take, reuse_handshake).
WaitingIsKnown ==
    \A f \in DOMAIN reply :
        reply[f] = "waiting" => \E n \in Node : \E h \in handshakes[n] : h.first = f

Busy(n, s) == \/ \E t \in handling[n] : t.step = "key" /\ t.hello.session = s
              \/ \E c \in closers[n] : c.session = s
              \/ \E i \in Mover : movers[n][i].session = s

\* Apart from ids used again and rows that collisions or meeting moves disturb,
\* a session has its rows in all three tables or in none once its tasks are
\* done: closing leaves no key and no address, and moving neither loses the
\* session's row nor leaves one at an address it has left (close_session,
\* update_address).
TablesAgree ==
    \A n \in Node, s \in SessionId :
        (~ Busy(n, s) /\ <<n, s>> \notin disturbed /\ s \notin reused) =>
            /\ Has(n, s) = (s \in DOMAIN encryption[n])
            /\ {r \in addressSession[n] : r[2] = s} =
                   IF Has(n, s) THEN {<<connections[n][s].address, s>>} ELSE {}

=============================================================================
