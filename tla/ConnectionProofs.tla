-------------------------- MODULE ConnectionProofs --------------------------
(***************************************************************************)
(* Proofs about Connection for every number of requests, history length    *)
(* and push window.  The first part is about the exchange between the      *)
(* client and the control server, whose results the broker only reads; the *)
(* second about the order in which the broker sets its sessions up.        *)
(*                                                                         *)
(*  - The client's open request is either not yet granted (the lineage is  *)
(*    at the generation the client knows) or granted (the row carries that *)
(*    request, one generation further).  OpenRequest says so, and a reply  *)
(*    that waits to be read (ReplyFits) was computed in the second case.   *)
(*  - A request that the client has given up (Stale) expects a generation  *)
(*    the lineage has left behind, so that it can no longer mint.          *)
(*  - What was revoked stays revoked as long as its owner is authorized,   *)
(*    and an owner that lost its authorization never gets it back.         *)
(***************************************************************************)
EXTENDS Connection, TLAPS

-----------------------------------------------------------------------------
(* The inductive invariant *)

(* A request the client no longer waits for and will not repeat. *)
Stale(m) == m.request < client.request \/ ~client.request_pending

NetFits ==
    \A m \in net :
      /\ m.rpc <= client.rpc
      /\ m.request <= client.request
      /\ m.rpc = client.rpc => m.request = client.request
      /\ ~Stale(m) => m.expected = client.generation
      /\ Stale(m) => /\ account => db.exists
                     /\ db.exists => m.expected < db.generation

(* How the row stands to the request the client has open. *)
GrantedOpen ==
    /\ db.request = client.request
    /\ db.prior = client.generation
    /\ db.generation = client.generation + 1
NotGranted ==
    /\ db.request < client.request
    /\ db.generation = client.generation
OpenRequest ==
    /\ db.exists =>
         /\ client.request_pending => GrantedOpen \/ NotGranted
         /\ ~client.request_pending =>
              /\ db.request <= client.request
              /\ db.generation = client.generation
    /\ ~db.exists /\ account => client.generation = 0
    /\ client.phase = "waiting" => client.request_pending
    /\ client.phase = "attempt" => ~client.request_pending

ReplyFits ==
    reply.some =>
      /\ client.phase = "waiting"
      /\ reply.is.reason # "connection_conflict"
      /\ reply.is.reason \in {"granted", "session_expired"} =>
           /\ reply.is.generation = client.generation + 1
           /\ account => db.exists
           /\ db.exists => GrantedOpen
           /\ reply.is.reason = "granted" /\ db.exists =>
                reply.is.session = db.session

HistoryFits ==
    /\ \A h \in history : h.request <= db.request
    /\ ~db.exists => db = NoConn /\ history = {}

Lineage ==
    /\ ~db.exists => live = {}
    /\ ended => ~account \/ (db.exists /\ db.revoked)

(* A peer always has a session. *)
SessionNamed == peer.pc # "none" => peer.session # None

Exchange ==
    /\ NetFits
    /\ OpenRequest
    /\ ReplyFits
    /\ HistoryFits
    /\ Lineage
    /\ SingleLive
    /\ NoResurrection
    /\ ClientHoldsCurrent

IInv ==
    /\ TypeOK
    /\ SessionNamed
    /\ Exchange

-----------------------------------------------------------------------------
(* Types *)

(* Helper: what the operators that build records return. *)
LEMMA ClientTypes ==
  ASSUME NEW c \in Client, NEW r \in Reply
  PROVE  /\ Propose(c) \in Client
         /\ Answered(c, r) \in Client
<1>1. Propose(c) \in Client
  <2>1. c.request + 1 \in Nat
    BY DEF Client
  <2>2. ASSUME NEW n \in Nat
        PROVE [c EXCEPT !.request_pending = TRUE, !.request = n] \in Client
    BY DEF Client
  <2> QED BY <2>1, <2>2 DEF Propose
<1>2. /\ [c EXCEPT !.phase = "attempt", !.session = r.session,
            !.generation = r.generation, !.request_pending = FALSE] \in Client
      /\ [c EXCEPT !.phase = "idle", !.generation = r.generation,
            !.request_pending = FALSE] \in Client
      /\ [c EXCEPT !.phase = "idle"] \in Client
      /\ [c EXCEPT !.phase = "failed"] \in Client
  BY DEF Client, Reply
<1>3. Answered(c, r) \in Client
  BY <1>2, Zenon DEF Answered
<1> QED BY <1>1, <1>3

LEMMA PeerTypes ==
  ASSUME NEW p \in PeerType, NEW h \in Grant
  PROVE  /\ transport_fail(p) \in PeerType
         /\ HandedOver(p, h) \in PeerType
         /\ NewPeer(h) \in PeerType
<1>1. transport_fail(p) \in PeerType
  BY DEF PeerType, Pc, transport_fail
<1>2. HandedOver(p, h) \in PeerType
  <2> DEFINE q == [p EXCEPT !.pending = h.session,
                            !.pending_generation = h.generation]
  <2>1. q \in PeerType
    BY DEF PeerType, Pc, Grant
  <2>2. transport_fail(q) \in PeerType
    BY <2>1 DEF PeerType, Pc, transport_fail
  <2> QED BY <2>2 DEF HandedOver
<1>3. NewPeer(h) \in PeerType
  BY DEF PeerType, Pc, NewPeer, Grant, None
<1> QED BY <1>1, <1>2, <1>3

LEMMA ServerTypes ==
  ASSUME TypeOK
  PROVE  /\ \A r \in Reasons : Fail(r) \in Reply
         /\ Granted \in Reply
         /\ \A m : Refusal(m) \notin {"mint", "granted"} =>
                     Refusal(m) \in Reasons
<1>1. \A r \in Reasons : Fail(r) \in Reply
  BY DEF TypeOK, Conn, Reply, Fail, None
<1>2. Granted \in Reply
  BY DEF TypeOK, Conn, Reply, Reasons, Granted
<1>3. ASSUME NEW m PROVE Refusal(m) \notin {"mint", "granted"} =>
                           Refusal(m) \in Reasons
  BY DEF Refusal, Reasons
<1> QED BY <1>1, <1>2, <1>3

LEMMA TypeInit == Init => TypeOK /\ SessionNamed
<1> SUFFICES ASSUME Init PROVE TypeOK /\ SessionNamed
  OBVIOUS
<1>1. db \in Conn /\ peer \in PeerType
  BY DEF Init, Conn, NoConn, PeerType, NoPeer, Pc, None
<1>2. client \in Client /\ reply \in [some : BOOLEAN, is : Reply]
  BY DEF Init, Client, Reply, NoReply, Reasons, None
<1>3. /\ chan \in Seq(SUBSET Grant) /\ started \in Seq(Nat \ {None})
      /\ held \in [some : BOOLEAN, is : SUBSET Grant]
  BY DEF Init
<1>4. SessionNamed
  BY DEF Init, NoPeer, SessionNamed
<1> QED BY <1>1, <1>2, <1>3, <1>4 DEF Init, TypeOK

LEMMA TypeClient == TypeOK /\ ClientStep => TypeOK'
<1> SUFFICES ASSUME TypeOK, ClientStep PROVE TypeOK'
  OBVIOUS
<1> USE DEF TypeOK, dbVars, brokerVars, histVars, netVars
<1>0. NoReply \in Reply
  BY DEF NoReply, Reply, Reasons, None
<1>1. CASE SendRequest
  <2> DEFINE c == Propose(client)
  <2>1. c \in Client
    BY ClientTypes, <1>0
  <2> HIDE DEF c
  <2>2. [c EXCEPT !.phase = "waiting", !.rpc = @ + 1] \in Client
    <3>1. c.rpc + 1 \in Nat
      BY <2>1 DEF Client
    <3>2. ASSUME NEW n \in Nat
          PROVE  [c EXCEPT !.phase = "waiting", !.rpc = n] \in Client
      BY <2>1 DEF Client
    <3> QED BY <3>1, <3>2
  <2>3. client' = [c EXCEPT !.phase = "waiting", !.rpc = @ + 1]
    BY <1>1 DEF SendRequest, c
  <2>4. net' = net \cup {[rpc |-> client'.rpc, request |-> c.request,
                          expected |-> c.generation]}
    BY <1>1 DEF SendRequest, c
  <2>5. client' \in Client
    BY <2>2, <2>3
  <2>6. [rpc |-> client'.rpc, request |-> c.request,
           expected |-> c.generation] \in Request
    BY <2>1, <2>5 DEF Client, Request
  <2> QED BY <1>1, <2>4, <2>5, <2>6 DEF SendRequest
<1>2. CASE RequestTimeout
  <2>1. [client EXCEPT !.phase = "idle"] \in Client
    BY DEF Client
  <2> QED BY <1>0, <1>2, <2>1 DEF RequestTimeout
<1>3. CASE ReadReply
  <2>1. Answered(client, reply.is) \in Client
    BY ClientTypes
  <2> QED BY <1>0, <1>3, <2>1 DEF ReadReply
<1>4. CASE ClientAttemptFails
  <2>1. [client EXCEPT !.phase = "idle"] \in Client
    BY DEF Client
  <2> QED BY <1>4, <2>1 DEF ClientAttemptFails
<1>5. CASE ClientClose
  <2>1. [client EXCEPT !.phase = "closed"] \in Client
    BY DEF Client
  <2> QED BY <1>0, <1>5, <2>1 DEF ClientClose
<1> QED BY <1>1, <1>2, <1>3, <1>4, <1>5 DEF ClientStep

LEMMA TypeServer == TypeOK /\ ServerStep => TypeOK'
<1> SUFFICES ASSUME TypeOK, ServerStep PROVE TypeOK'
  OBVIOUS
<1> USE DEF TypeOK, dbVars, brokerVars, histVars, netVars, clientVars,
            callVars
<1>0. Revoke => db' \in Conn /\ live' \subseteq Nat /\ ended' \in BOOLEAN
  <2>1. [db EXCEPT !.revoked = db.exists] \in Conn
    BY DEF Conn
  <2> QED BY <2>1 DEF Revoke
<1>1. ASSUME NEW m \in net, connectionSession(m) PROVE TypeOK'
  <2>1. m \in Request
    OBVIOUS
  <2>2. ASSUME NEW r \in Reply, Answer(m, r)
        PROVE  reply' \in [some : BOOLEAN, is : Reply]
    BY <2>2 DEF Answer
  <2>3. CASE Refusal(m) = "mint" /\ Minted(m)
    <3>1. db' \in Conn
      BY <2>1, <2>3 DEF Minted, Conn, Request
    <3>2. history' \subseteq Grant
      <4> DEFINE g == [session |-> minted + 1,
                       generation |-> db.generation + 1,
                       request |-> m.request]
      <4>1. minted + 1 \in Nat \ {None} /\ db.generation + 1 \in Nat
        BY DEF Conn, None
      <4>2. g \in Grant
        BY <2>1, <4>1 DEF Grant, Request
      <4>3. history' \subseteq history \cup {g}
        BY <2>3, Zenon DEF Minted
      <4> HIDE DEF g
      <4> QED BY <4>2, <4>3
    <3>3. minted' \in Nat /\ live' \subseteq Nat
      <4>1. minted + 1 \in Nat
        OBVIOUS
      <4>2. /\ minted' = minted + 1
            /\ live' = (live \ {db.session}) \cup {minted + 1}
        BY <2>3 DEF Minted
      <4> QED BY <4>1, <4>2
    <3>4. [reason |-> "granted", session |-> db'.session,
             generation |-> db'.generation] \in Reply
      BY <3>1 DEF Conn, Reply, Reasons
    <3> HIDE DEF Minted
    <3>5. reply' \in [some : BOOLEAN, is : Reply]
      <4>1. CASE Answer(m, [reason |-> "granted", session |-> db'.session,
                            generation |-> db'.generation])
        BY <4>1, <3>4, <2>2
      <4>2. CASE Answer(m, Granted)
        BY <4>2, <2>2, ServerTypes
      <4>3. CASE Answer(m, Fail(Refusal(m)))
              /\ Refusal(m) \notin {"mint", "granted"}
        BY <4>3, <2>2, ServerTypes
      <4>4. CASE Answer(m, Fail("unavailable"))
        BY <4>4, <2>2, ServerTypes DEF Reasons
      <4> QED BY <1>1, <4>1, <4>2, <4>3, <4>4 DEF connectionSession
    <3>6. UNCHANGED <<account, device>>
      BY <1>1 DEF connectionSession
    <3> QED BY <1>1, <3>1, <3>2, <3>3, <3>5, <3>6 DEF connectionSession
  <2>4. CASE UNCHANGED dbVars
    <3>1. reply' \in [some : BOOLEAN, is : Reply]
      <4>2. CASE Answer(m, Granted)
        BY <4>2, <2>2, ServerTypes
      <4>3. CASE Answer(m, Fail(Refusal(m)))
              /\ Refusal(m) \notin {"mint", "granted"}
        BY <4>3, <2>2, ServerTypes
      <4>4. CASE Answer(m, Fail("unavailable"))
        BY <4>4, <2>2, ServerTypes DEF Reasons
      <4>1. CASE Answer(m, [reason |-> "granted", session |-> db'.session,
                            generation |-> db'.generation])
        BY <4>1, <2>2, <2>4 DEF Conn, Reply, Reasons
      <4> QED BY <1>1, <4>1, <4>2, <4>3, <4>4 DEF connectionSession
    <3> QED BY <1>1, <2>4, <3>1 DEF connectionSession
  <2> QED BY <1>1, <2>3, <2>4 DEF connectionSession
<1>2. CASE deleteConnection
  BY <1>0, <1>2 DEF deleteConnection
<1>3. CASE deleteSessionLineage
  BY <1>0, <1>3 DEF deleteSessionLineage
<1>4. CASE logout
  BY <1>0, <1>4 DEF logout
<1>5. CASE offlineBroker
  BY <1>0, <1>5 DEF offlineBroker
<1>6. CASE SessionExpires
  BY <1>6 DEF SessionExpires
<1>7. CASE LeaseExpires
  BY <1>7 DEF LeaseExpires
<1>8. CASE pruneConnections
  <2> DEFINE r == [db EXCEPT !.revoked = @ \/ db.device # device]
  <2>1. r \in Conn /\ NoConn \in Conn
    BY DEF Conn, NoConn, None
  <2>2. db' = Pruned(r)
    BY <1>8 DEF pruneConnections
  <2> HIDE DEF r
  <2>3. db' \in Conn
    BY <2>1, <2>2 DEF Pruned
  <2>4. live' \subseteq Nat /\ history' \subseteq Grant /\ ended' \in BOOLEAN
    BY <1>8 DEF pruneConnections
  <2> QED BY <1>8, <2>3, <2>4 DEF pruneConnections
<1> QED BY <1>1, <1>2, <1>3, <1>4, <1>5, <1>6, <1>7, <1>8 DEF ServerStep

LEMMA TypeBroker == TypeOK /\ SessionNamed /\ BrokerStep => TypeOK'
<1> SUFFICES ASSUME TypeOK, SessionNamed, BrokerStep PROVE TypeOK'
  OBVIOUS
<1> USE DEF TypeOK, dbVars, histVars, netVars, clientVars, callVars
<1>0. NoPeer \in PeerType
  BY DEF NoPeer, PeerType, Pc, None
<1>1. CASE catchup
  BY <1>1 DEF catchup
<1>2. CASE SocketLost
  BY <1>2 DEF SocketLost
<1>3. CASE ReadSnapshots
  BY <1>3 DEF ReadSnapshots
<1>4. CASE server_suspend_peers
  <2>1. transport_fail(peer) \in PeerType
    BY DEF PeerType, Pc, transport_fail
  <2> QED BY <1>4, <2>1 DEF server_suspend_peers
<1>5. CASE heartbeat
  BY <1>5 DEF heartbeat
<1>6. CASE server_snapshot
  <2>1. PICK h \in NewSessions :
          /\ peer' = IF peer.pc = "none" THEN NewPeer(h)
                     ELSE HandedOver(peer, h)
          /\ seen' = Remembered(seen \cup {h.session}, held.is, peer')
          /\ SnapshotDone
    BY <1>6 DEF server_snapshot
  <2>2. h \in Grant
    BY DEF NewSessions
  <2>3. peer' \in PeerType
    BY <2>1, <2>2, PeerTypes
  <2>4. seen' \subseteq Nat
    BY <2>1, <2>2 DEF Remembered, Grant
  <2> QED BY <2>1, <2>3, <2>4 DEF SnapshotDone
<1>7. CASE SnapshotSkipped
  BY <1>7 DEF SnapshotSkipped, SnapshotDone, Remembered
<1>8. CASE PeerEnds
  <2>1. dropped' \subseteq Nat
    BY <1>8 DEF PeerEnds, PeerType
  <2> QED BY <1>0, <1>8, <2>1 DEF PeerEnds
<1>9. CASE rotateDevice
  <2>1. [db EXCEPT !.revoked = db.exists] \in Conn
    BY DEF Conn
  <2>2. db' \in Conn /\ live' \subseteq Nat /\ ended' \in BOOLEAN
    BY <1>9, <2>1 DEF rotateDevice, Revoke
  <2>3. device' \in Nat
    BY <1>9 DEF rotateDevice
  <2>4. held' \in [some : BOOLEAN, is : SUBSET Grant]
    BY <1>9, Zenon DEF rotateDevice
  <2>5. chan' \in Seq(SUBSET Grant)
    BY <1>9 DEF rotateDevice
  <2>6. lease' \in BOOLEAN /\ expired' \in BOOLEAN /\ seen' \subseteq Nat
    BY <1>9, Zenon DEF rotateDevice
  <2> QED BY <1>0, <1>9, <2>2, <2>3, <2>4, <2>5, <2>6 DEF rotateDevice
<1>10. CASE server_session
  <2>1. [peer EXCEPT !.pc = "taken", !.session = peer.pending,
                     !.generation = peer.pending_generation,
                     !.pending = None] \in PeerType
    BY DEF PeerType, Pc, None
  <2> QED BY <1>10, <2>1 DEF server_session
<1>11. CASE BeginAttempt
  <2>1. [peer EXCEPT !.pc = "run", !.attempt_stop = FALSE] \in PeerType
    BY DEF PeerType, Pc
  <2>2. peer.session \in Nat \ {None}
    BY <1>11 DEF BeginAttempt, SessionNamed, PeerType
  <2>3. started' \in Seq(Nat \ {None})
    BY <1>11, <2>2 DEF BeginAttempt
  <2> QED BY <1>11, <2>1, <2>3 DEF BeginAttempt
<1>12. CASE PeerAttemptFails
  <2>1. transport_fail(peer) \in PeerType
    BY DEF PeerType, Pc, transport_fail
  <2> QED BY <1>12, <2>1 DEF PeerAttemptFails
<1>13. CASE retire_attempt
  <2>1. [peer EXCEPT !.pc = "wait"] \in PeerType
    BY DEF PeerType, Pc
  <2> QED BY <1>13, <2>1 DEF retire_attempt
<1> QED BY <1>1, <1>2, <1>3, <1>4, <1>5, <1>6, <1>7, <1>8, <1>9, <1>10,
           <1>11, <1>12, <1>13 DEF BrokerStep

LEMMA NamedStep == TypeOK /\ SessionNamed /\ [Next]_vars => SessionNamed'
<1> SUFFICES ASSUME TypeOK, SessionNamed, [Next]_vars PROVE SessionNamed'
  OBVIOUS
<1>1. CASE UNCHANGED peer
  BY <1>1 DEF SessionNamed
<1>2. CASE server_snapshot
  <2>1. PICK h \in NewSessions :
          peer' = IF peer.pc = "none" THEN NewPeer(h) ELSE HandedOver(peer, h)
    BY <1>2 DEF server_snapshot
  <2>2. h.session # None
    BY DEF NewSessions, TypeOK, Grant
  <2>3. CASE peer.pc = "none"
    BY <2>1, <2>2, <2>3 DEF NewPeer, SessionNamed
  <2>4. CASE peer.pc # "none"
    BY <2>1, <2>4 DEF HandedOver, transport_fail, SessionNamed, TypeOK,
                      PeerType
  <2> QED BY <2>3, <2>4
<1>3. CASE \/ server_suspend_peers \/ PeerAttemptFails
  BY <1>3 DEF server_suspend_peers, PeerAttemptFails, transport_fail,
              SessionNamed, TypeOK, PeerType
<1>4. CASE PeerEnds \/ rotateDevice
  BY <1>4 DEF PeerEnds, rotateDevice, NoPeer, SessionNamed
<1>5. CASE server_session
  BY <1>5 DEF server_session, SessionNamed, TypeOK, PeerType
<1>6. CASE BeginAttempt \/ retire_attempt
  BY <1>6 DEF BeginAttempt, retire_attempt, SessionNamed, TypeOK, PeerType
<1>7. CASE ClientStep \/ ServerStep
  BY <1>1, <1>7 DEF ClientStep, ServerStep, SendRequest, RequestTimeout,
       ReadReply, ClientAttemptFails, ClientClose, connectionSession,
       deleteConnection, deleteSessionLineage, logout, offlineBroker,
       SessionExpires, LeaseExpires, pruneConnections, brokerVars
<1>8. CASE \/ catchup \/ SocketLost \/ ReadSnapshots \/ heartbeat
           \/ SnapshotSkipped
  BY <1>1, <1>8 DEF catchup, SocketLost, ReadSnapshots, heartbeat,
                    SnapshotSkipped
<1>9. CASE UNCHANGED vars
  BY <1>1, <1>9 DEF vars, brokerVars
<1> QED BY <1>2, <1>3, <1>4, <1>5, <1>6, <1>7, <1>8, <1>9
        DEF Next, BrokerStep

LEMMA TypeStep == TypeOK /\ SessionNamed /\ [Next]_vars => TypeOK'
<1>1. TypeOK /\ UNCHANGED vars => TypeOK'
  BY DEF TypeOK, vars, dbVars, brokerVars, histVars, netVars, clientVars,
         callVars
<1> QED BY <1>1, TypeClient, TypeServer, TypeBroker DEF Next

(* Every variable keeps its type along every behaviour of the client, the  *)
(* server and the broker; in particular no attempt is ever begun without a *)
(* session (server_session's wait).                                        *)
THEOREM TypeCorrect == Spec => []TypeOK
<1>1. TypeOK /\ SessionNamed /\ [Next]_vars => (TypeOK /\ SessionNamed)'
  BY TypeStep, NamedStep
<1> QED BY TypeInit, <1>1, PTL DEF Spec

-----------------------------------------------------------------------------
(* The exchange between the client and the control server *)

LEMMA ExchangeInit == Init => Exchange
<1> SUFFICES ASSUME Init PROVE Exchange
  OBVIOUS
<1>1. NetFits /\ ReplyFits /\ HistoryFits
  BY DEF Init, NetFits, ReplyFits, HistoryFits
<1>2. OpenRequest
  BY DEF Init, OpenRequest, NoConn
<1>3. Lineage /\ SingleLive /\ NoResurrection /\ ClientHoldsCurrent
  BY DEF Init, Lineage, SingleLive, NoResurrection, ClientHoldsCurrent
<1> QED BY <1>1, <1>2, <1>3 DEF Exchange

(* Steps of the broker, of its lease and of the sockets. *)
LEMMA ExchangeElsewhere ==
  Exchange /\ UNCHANGED <<dbVars, callVars, ended>> => Exchange'
BY DEF Exchange, dbVars, callVars, netVars, clientVars, NetFits, Stale,
       OpenRequest, GrantedOpen, NotGranted, ReplyFits, HistoryFits, Lineage,
       SingleLive, NoResurrection, ClientHoldsCurrent

LEMMA ExchangeSend == TypeOK /\ Exchange /\ SendRequest => Exchange'
<1> SUFFICES ASSUME TypeOK, Exchange, SendRequest PROVE Exchange'
  OBVIOUS
<1>1. client \in Client /\ db \in Conn /\ net \subseteq Request
  BY DEF TypeOK
<1>2. /\ client'.request_pending = TRUE
      /\ client'.phase = "waiting"
      /\ client'.generation = client.generation
      /\ client'.rpc = client.rpc + 1
      /\ client.phase = "idle"
  BY <1>1 DEF SendRequest, Propose, Client
<1>3. \/ client.request_pending /\ client'.request = client.request
      \/ ~client.request_pending /\ client'.request = client.request + 1
  BY <1>1 DEF SendRequest, Propose, Client
<1>4. net' = net \cup {[rpc |-> client'.rpc, request |-> client'.request,
                        expected |-> client.generation]}
  BY <1>1 DEF SendRequest, Propose, Client
<1>5. UNCHANGED <<db, history, live, account, reply, ended>>
  BY DEF SendRequest, dbVars, histVars
<1>6. /\ client.request \in Nat /\ client.rpc \in Nat
      /\ client.generation \in Nat
      /\ db.request \in Nat /\ db.generation \in Nat
  BY <1>1 DEF Client, Conn
<1>7. NetFits'
  <2> SUFFICES ASSUME NEW m \in net'
               PROVE  /\ m.rpc <= client'.rpc
                      /\ m.request <= client'.request
                      /\ m.rpc = client'.rpc => m.request = client'.request
                      /\ ~Stale(m)' => m.expected = client'.generation
                      /\ Stale(m)' =>
                           /\ account' => db'.exists
                           /\ db'.exists => m.expected < db'.generation
    BY DEF NetFits
  <2>1. CASE m \in net
    <3>1. /\ m.rpc \in Nat /\ m.request \in Nat
          /\ m.rpc <= client.rpc /\ m.request <= client.request
          /\ ~Stale(m) => m.expected = client.generation
          /\ Stale(m) => /\ account => db.exists
                         /\ db.exists => m.expected < db.generation
      BY <1>1, <2>1 DEF Exchange, NetFits, Request
    <3>2. Stale(m)' => Stale(m)
      BY <1>2, <1>3, <1>6, <3>1 DEF Stale
    <3>3. Stale(m) => Stale(m)'
      BY <1>2, <1>3, <1>6, <3>1 DEF Stale
    <3> QED BY <1>2, <1>3, <1>5, <1>6, <3>1, <3>2, <3>3
  <2>2. CASE m = [rpc |-> client'.rpc, request |-> client'.request,
                  expected |-> client.generation]
    BY <1>2, <1>3, <1>6, <2>2 DEF Stale
  <2> QED BY <1>4, <2>1, <2>2
<1>8. OpenRequest'
  BY <1>2, <1>3, <1>5, <1>6
     DEF Exchange, OpenRequest, GrantedOpen, NotGranted
<1>9. ReplyFits'
  BY <1>2, <1>5 DEF Exchange, ReplyFits
<1>10. HistoryFits' /\ Lineage' /\ SingleLive' /\ NoResurrection'
  BY <1>5 DEF Exchange, HistoryFits, Lineage, SingleLive, NoResurrection
<1>11. ClientHoldsCurrent'
  BY <1>2 DEF ClientHoldsCurrent
<1> QED BY <1>7, <1>8, <1>9, <1>10, <1>11 DEF Exchange

(* The caller stops waiting, its attempt fails, or it closes. *)
LEMMA ExchangeLeave ==
  TypeOK /\ Exchange /\ (RequestTimeout \/ ClientAttemptFails \/ ClientClose)
    => Exchange'
<1> SUFFICES ASSUME TypeOK, Exchange,
                    RequestTimeout \/ ClientAttemptFails \/ ClientClose
             PROVE Exchange'
  OBVIOUS
<1>1. /\ client'.phase \in {"idle", "closed"}
      /\ client'.request_pending = client.request_pending
      /\ client'.generation = client.generation
      /\ client'.request = client.request
      /\ client'.rpc = client.rpc
  BY DEF TypeOK, Client, RequestTimeout, ClientAttemptFails, ClientClose
<1>2. ~reply'.some
  BY DEF RequestTimeout, ClientAttemptFails, ClientClose, Exchange, ReplyFits
<1>3. UNCHANGED <<db, history, live, account, net, ended>>
  BY DEF RequestTimeout, ClientAttemptFails, ClientClose, dbVars, histVars,
         netVars
<1>4. NetFits'
  BY <1>1, <1>3 DEF Exchange, NetFits, Stale
<1>5. OpenRequest'
  BY <1>1, <1>3 DEF Exchange, OpenRequest, GrantedOpen, NotGranted
<1>6. ReplyFits' /\ ClientHoldsCurrent'
  BY <1>1, <1>2 DEF ReplyFits, ClientHoldsCurrent
<1>7. HistoryFits' /\ Lineage' /\ SingleLive' /\ NoResurrection'
  BY <1>3 DEF Exchange, HistoryFits, Lineage, SingleLive, NoResurrection
<1> QED BY <1>4, <1>5, <1>6, <1>7 DEF Exchange

LEMMA ExchangeRead == TypeOK /\ Exchange /\ ReadReply => Exchange'
<1> SUFFICES ASSUME TypeOK, Exchange, ReadReply PROVE Exchange'
  OBVIOUS
<1> DEFINE r == reply.is
<1>1. client \in Client /\ db \in Conn /\ r \in Reply
  BY DEF TypeOK
<1>2. /\ client.phase = "waiting" /\ reply.some
      /\ client' = Answered(client, r)
      /\ ~reply'.some
      /\ UNCHANGED <<db, history, live, account, net, ended>>
  BY DEF ReadReply, dbVars, histVars
<1>3. client.request_pending
  BY <1>2 DEF Exchange, OpenRequest
<1>4. /\ r.reason # "connection_conflict"
      /\ r.reason \in {"granted", "session_expired"} =>
           /\ r.generation = client.generation + 1
           /\ account => db.exists
           /\ db.exists => GrantedOpen
           /\ r.reason = "granted" /\ db.exists => r.session = db.session
  BY <1>2 DEF Exchange, ReplyFits
<1>5. client.generation \in Nat /\ db.generation \in Nat
  BY <1>1 DEF Client, Conn
<1> HIDE DEF r
<1>6. ReplyFits'
  BY <1>2 DEF ReplyFits
<1>7. HistoryFits' /\ Lineage' /\ SingleLive' /\ NoResurrection'
  BY <1>2 DEF Exchange, HistoryFits, Lineage, SingleLive, NoResurrection
<1>8. CASE r.reason \in {"granted", "session_expired"}
  <2>1. /\ client'.phase = IF r.reason = "granted" THEN "attempt" ELSE "idle"
        /\ client'.request_pending = FALSE
        /\ client'.generation = r.generation
        /\ r.reason = "granted" => client'.session = r.session
        /\ client'.request = client.request
        /\ client'.rpc = client.rpc
    BY <1>1, <1>2, <1>4, <1>5, <1>8
       DEF Answered, Retired, GrantOk, Client, Reply
  <2>2. NetFits'
    <3> SUFFICES ASSUME NEW m \in net
                 PROVE  /\ m.rpc <= client'.rpc
                        /\ m.request <= client'.request
                        /\ m.rpc = client'.rpc => m.request = client'.request
                        /\ ~Stale(m)' => m.expected = client'.generation
                        /\ Stale(m)' =>
                             /\ account => db.exists
                             /\ db.exists => m.expected < db.generation
      BY <1>2 DEF NetFits
    <3>1. /\ m.rpc <= client.rpc
          /\ m.request <= client.request
          /\ m.rpc = client.rpc => m.request = client.request
          /\ ~Stale(m) => m.expected = client.generation
          /\ Stale(m) => /\ account => db.exists
                         /\ db.exists => m.expected < db.generation
      BY DEF Exchange, NetFits
    <3>2. Stale(m)'
      BY <2>1 DEF Stale
    <3>3. db.exists => m.expected < db.generation
      BY <1>4, <1>5, <1>8, <3>1 DEF GrantedOpen
    <3>4. account => db.exists
      BY <1>4, <1>8
    <3> QED BY <2>1, <3>1, <3>2, <3>3, <3>4
  <2>3. OpenRequest'
    <3>1. db.exists => db.request = client.request
                         /\ db.generation = r.generation
      BY <1>4, <1>8 DEF GrantedOpen
    <3>2. ~(~db.exists /\ account)
      BY <1>4, <1>8
    <3>3. client.request \in Nat
      BY <1>1 DEF Client
    <3> QED BY <1>2, <2>1, <3>1, <3>2, <3>3 DEF OpenRequest
  <2>4. ClientHoldsCurrent'
    BY <1>2, <1>4, <1>8, <2>1 DEF ClientHoldsCurrent, GrantedOpen
  <2> QED BY <1>6, <1>7, <2>2, <2>3, <2>4 DEF Exchange
<1>9. CASE r.reason \notin {"granted", "session_expired"}
  <2>1. /\ client'.phase \in {"idle", "failed"}
        /\ client'.request_pending = client.request_pending
        /\ client'.generation = client.generation
        /\ client'.request = client.request
        /\ client'.rpc = client.rpc
    BY <1>1, <1>2, <1>4, <1>9 DEF Answered, Retired, GrantOk, Client, Reply
  <2>2. NetFits'
    BY <1>2, <2>1 DEF Exchange, NetFits, Stale
  <2>3. OpenRequest'
    BY <1>2, <2>1 DEF Exchange, OpenRequest, GrantedOpen, NotGranted
  <2>4. ClientHoldsCurrent'
    BY <2>1 DEF ClientHoldsCurrent
  <2> QED BY <1>6, <1>7, <2>2, <2>3, <2>4 DEF Exchange
<1> QED BY <1>8, <1>9

(* A revocation, a logout included: the row keeps what it says of the last *)
(* request and only its sessions go.                                       *)
LEMMA ExchangeRevoke ==
  ASSUME TypeOK, Exchange, Revoke, account' => account,
         UNCHANGED <<history, net, client, reply>>
  PROVE  Exchange'
<1>1. /\ db'.exists = db.exists
      /\ db'.revoked = db.exists
      /\ db'.generation = db.generation
      /\ db'.session = db.session
      /\ db'.request = db.request
      /\ db'.prior = db.prior
  BY DEF TypeOK, Conn, Revoke
<1>2. live' = {} /\ ended' = (ended \/ db.exists)
  BY DEF Revoke
<1>3. NetFits'
  BY <1>1 DEF Exchange, NetFits, Stale
<1>4. OpenRequest'
  BY <1>1 DEF Exchange, OpenRequest, GrantedOpen, NotGranted
<1>5. ReplyFits'
  BY <1>1 DEF Exchange, ReplyFits, GrantedOpen
<1>6. HistoryFits'
  <2>1. ASSUME ~db.exists PROVE db' = NoConn
    <3>1. db = NoConn /\ db' = [db EXCEPT !.revoked = db.exists]
      BY <2>1 DEF Exchange, HistoryFits, Revoke
    <3>2. db.exists = FALSE /\ db.revoked = FALSE
      BY <3>1 DEF NoConn
    <3>3. db' = [db EXCEPT !.revoked = FALSE]
      BY <3>1, <3>2
    <3> QED BY <3>1, <3>3 DEF NoConn
  <2> QED BY <1>1, <2>1 DEF Exchange, HistoryFits
<1>7. Lineage'
  <2>1. ended' => ~account' \/ (db'.exists /\ db'.revoked)
    BY <1>1, <1>2 DEF Exchange, Lineage
  <2> QED BY <1>2, <2>1 DEF Lineage
<1>8. SingleLive' /\ NoResurrection'
  BY <1>2 DEF SingleLive, NoResurrection
<1>9. ClientHoldsCurrent'
  BY <1>1 DEF Exchange, ClientHoldsCurrent
<1> QED BY <1>3, <1>4, <1>5, <1>6, <1>7, <1>8, <1>9 DEF Exchange

LEMMA ExchangeExpire == TypeOK /\ Exchange /\ SessionExpires => Exchange'
<1> SUFFICES ASSUME TypeOK, Exchange, SessionExpires PROVE Exchange'
  OBVIOUS
<1>1. live' \subseteq live
  BY DEF SessionExpires
<1>2. UNCHANGED <<db, history, account, net, client, reply, ended>>
  BY DEF SessionExpires, callVars, netVars, clientVars, histVars
<1>3. NetFits' /\ ReplyFits' /\ HistoryFits' /\ OpenRequest'
  BY <1>2 DEF Exchange, NetFits, Stale, ReplyFits, HistoryFits, OpenRequest,
              GrantedOpen, NotGranted
<1>4. Lineage' /\ SingleLive' /\ NoResurrection' /\ ClientHoldsCurrent'
  BY <1>1, <1>2 DEF Exchange, Lineage, SingleLive, NoResurrection,
                    ClientHoldsCurrent
<1> QED BY <1>3, <1>4 DEF Exchange

LEMMA ExchangePrune == TypeOK /\ Exchange /\ pruneConnections => Exchange'
<1> SUFFICES ASSUME TypeOK, Exchange, pruneConnections PROVE Exchange'
  OBVIOUS
<1>1. /\ db.exists
      /\ UNCHANGED <<account, net, client, reply>>
  BY DEF pruneConnections, callVars, netVars, clientVars
<1>2. CASE account
  <2> DEFINE b == db.revoked \/ db.device # device
  <2>1. /\ db'.exists = db.exists
        /\ db'.revoked = b
        /\ db'.generation = db.generation
        /\ db'.session = db.session
        /\ db'.request = db.request
        /\ db'.prior = db.prior
    BY <1>2 DEF TypeOK, Conn, pruneConnections, Pruned
  <2>2. /\ live' = IF b THEN {} ELSE live
        /\ ended' = (ended \/ b)
    BY <1>2 DEF TypeOK, Conn, pruneConnections
  <2>3. history' = history
    BY <1>1, <2>1 DEF pruneConnections
  <2> HIDE DEF b
  <2>4. NetFits'
    BY <1>1, <2>1 DEF Exchange, NetFits, Stale
  <2>5. OpenRequest'
    BY <1>1, <2>1 DEF Exchange, OpenRequest, GrantedOpen, NotGranted
  <2>6. ReplyFits'
    BY <1>1, <2>1 DEF Exchange, ReplyFits, GrantedOpen
  <2>7. HistoryFits'
    BY <1>1, <2>1, <2>3 DEF Exchange, HistoryFits
  <2>8. ended => b
    BY <1>2 DEF Exchange, Lineage, b
  <2>9. Lineage' /\ SingleLive' /\ NoResurrection'
    BY <1>1, <2>1, <2>2, <2>8
       DEF Exchange, Lineage, SingleLive, NoResurrection
  <2>10. ClientHoldsCurrent'
    BY <1>1, <2>1 DEF Exchange, ClientHoldsCurrent
  <2> QED BY <2>4, <2>5, <2>6, <2>7, <2>9, <2>10 DEF Exchange
<1>3. CASE ~account
  <2>1. db' = NoConn /\ live' = {}
    BY <1>3 DEF pruneConnections, Pruned
  <2>2. ~db'.exists
    BY <2>1 DEF NoConn
  <2>3. history' = {}
    BY <2>2 DEF pruneConnections
  <2>4. NetFits'
    BY <1>1, <1>3, <2>2 DEF Exchange, NetFits, Stale
  <2>5. OpenRequest'
    BY <1>1, <1>3, <2>2 DEF Exchange, OpenRequest
  <2>6. ReplyFits'
    BY <1>1, <1>3, <2>2 DEF Exchange, ReplyFits
  <2>7. HistoryFits'
    BY <2>1, <2>3 DEF HistoryFits
  <2>8. Lineage' /\ SingleLive' /\ NoResurrection'
    BY <1>1, <1>3, <2>1 DEF Lineage, SingleLive, NoResurrection
  <2>9. ClientHoldsCurrent'
    BY <2>2 DEF ClientHoldsCurrent
  <2> QED BY <2>4, <2>5, <2>6, <2>7, <2>8, <2>9 DEF Exchange
<1> QED BY <1>2, <1>3

(* The request that mints is the one the client has open. *)
LEMMA MintIsOpen ==
  ASSUME TypeOK, Exchange, NEW m \in net, Refusal(m) = "mint"
  PROVE  /\ account
         /\ db.exists => ~db.revoked
         /\ client.request_pending
         /\ m.request = client.request
         /\ m.expected = client.generation
         /\ db.generation = client.generation
         /\ db.request <= client.request
         /\ db.exists => db.request # client.request
<1>1. /\ m.request \in Nat /\ m.expected \in Nat
      /\ client.request \in Nat /\ client.generation \in Nat
      /\ db.request \in Nat /\ db.generation \in Nat
  BY DEF TypeOK, Request, Client, Conn
<1>2. /\ account
      /\ ~db.exists => m.expected = 0
      /\ db.exists => /\ ~db.revoked
                      /\ m.request # db.request
                      /\ m.expected = db.generation
  BY DEF Refusal, Replayed, checkConnection
<1>3. /\ m.request <= client.request
      /\ ~Stale(m) => m.expected = client.generation
      /\ Stale(m) => /\ account => db.exists
                     /\ db.exists => m.expected < db.generation
  BY DEF Exchange, NetFits
<1>4. ~Stale(m)
  BY <1>1, <1>2, <1>3
<1>5. client.request_pending /\ m.request = client.request
  BY <1>1, <1>3, <1>4 DEF Stale
<1>6. CASE db.exists
  BY <1>1, <1>2, <1>3, <1>4, <1>5, <1>6
     DEF Exchange, OpenRequest, GrantedOpen, NotGranted
<1>7. CASE ~db.exists
  <2>1. db.generation = 0 /\ db.request = 0
    BY <1>7 DEF Exchange, HistoryFits, NoConn, None
  <2> QED BY <1>1, <1>2, <1>3, <1>4, <1>5, <1>7, <2>1
<1> QED BY <1>6, <1>7

(* The answer that reaches the waiting client is to its open request, and  *)
(* it is no conflict.                                                      *)
LEMMA AnswerFits ==
  ASSUME TypeOK, Exchange, NEW m \in net,
         client.phase = "waiting", client.rpc = m.rpc
  PROVE  /\ Refusal(m) # "connection_conflict"
         /\ Refusal(m) \in {"granted", "session_expired"} =>
              db.exists /\ GrantedOpen
<1>1. /\ m.request \in Nat /\ m.expected \in Nat
      /\ client.request \in Nat /\ client.generation \in Nat
      /\ db.request \in Nat /\ db.generation \in Nat
  BY DEF TypeOK, Request, Client, Conn
<1>2. client.request_pending /\ m.request = client.request
  BY DEF Exchange, OpenRequest, NetFits
<1>3. m.expected = client.generation
  BY <1>1, <1>2 DEF Exchange, NetFits, Stale
<1>4. db.exists => GrantedOpen \/ NotGranted
  BY <1>2 DEF Exchange, OpenRequest
<1>5. Replayed(m) => db.exists /\ GrantedOpen
  BY <1>1, <1>2, <1>4 DEF Replayed, NotGranted
<1>6. Replayed(m) => m.expected = db.prior
  BY <1>3, <1>5 DEF GrantedOpen
<1>7. ~Replayed(m) /\ db.exists => NotGranted
  BY <1>2, <1>4 DEF Replayed, GrantedOpen
<1>8. ~Replayed(m) => \A h \in history : h.request # m.request
  <2> SUFFICES ASSUME ~Replayed(m), NEW h \in history
               PROVE  h.request # m.request
    OBVIOUS
  <2>1. h.request \in Nat /\ h.request <= db.request
    BY DEF TypeOK, Grant, Exchange, HistoryFits
  <2>2. db.exists
    BY DEF Exchange, HistoryFits
  <2> QED BY <1>1, <1>2, <1>7, <2>1, <2>2 DEF NotGranted
<1>9. Refusal(m) # "connection_conflict"
  BY <1>3, <1>6, <1>7, <1>8 DEF Refusal, NotGranted
<1>10. Refusal(m) \in {"granted", "session_expired"} => Replayed(m)
  BY DEF Refusal
<1> QED BY <1>5, <1>9, <1>10

LEMMA ExchangeServe ==
  ASSUME TypeOK, Exchange, NEW m \in net, connectionSession(m)
  PROVE  Exchange'
<1>1. /\ client \in Client /\ db \in Conn
      /\ client.request \in Nat /\ client.generation \in Nat
      /\ db.request \in Nat /\ db.generation \in Nat /\ minted \in Nat
      /\ m.request \in Nat /\ m.expected \in Nat
  BY DEF TypeOK, Client, Conn, Request
<1>2. net' \subseteq net /\ UNCHANGED <<client, ended>>
  BY DEF connectionSession, histVars
<1>3. CASE /\ Refusal(m) = "mint"
           /\ Minted(m)
           /\ Answer(m, [reason |-> "granted", session |-> db'.session,
                         generation |-> db'.generation])
           /\ UNCHANGED <<account, device>>
  <2>1. /\ account
        /\ db.exists => ~db.revoked
        /\ client.request_pending
        /\ m.request = client.request
        /\ m.expected = client.generation
        /\ db.generation = client.generation
        /\ db.request <= client.request
        /\ db.exists => db.request # client.request
    BY <1>3, MintIsOpen
  <2>2. /\ db'.exists = TRUE
        /\ db'.revoked = FALSE
        /\ db'.generation = db.generation + 1
        /\ db'.session = minted + 1
        /\ db'.request = m.request
        /\ db'.prior = m.expected
    BY <1>3 DEF Minted
  <2>3. live' = (live \ {db.session}) \cup {minted + 1}
    BY <1>3 DEF Minted
  <2>4. history' \subseteq history \cup
           {[session |-> minted + 1, generation |-> db.generation + 1,
             request |-> m.request]}
    BY <1>3, Zenon DEF Minted
  <2>5. NetFits'
    <3> SUFFICES ASSUME NEW n \in net'
                 PROVE  /\ n.rpc <= client'.rpc
                        /\ n.request <= client'.request
                        /\ n.rpc = client'.rpc => n.request = client'.request
                        /\ ~Stale(n)' => n.expected = client'.generation
                        /\ Stale(n)' =>
                             /\ account' => db'.exists
                             /\ db'.exists => n.expected < db'.generation
      BY DEF NetFits
    <3>1. n \in net /\ n.expected \in Nat
      BY <1>2 DEF TypeOK, Request
    <3>2. /\ n.rpc <= client.rpc
          /\ n.request <= client.request
          /\ n.rpc = client.rpc => n.request = client.request
          /\ ~Stale(n) => n.expected = client.generation
          /\ Stale(n) => /\ account => db.exists
                         /\ db.exists => n.expected < db.generation
      BY <3>1 DEF Exchange, NetFits
    <3>3. Stale(n)' <=> Stale(n)
      BY <1>2 DEF Stale
    <3> QED BY <1>1, <1>2, <2>1, <2>2, <3>1, <3>2, <3>3
  <2>6. GrantedOpen'
    BY <1>2, <2>1, <2>2 DEF GrantedOpen
  <2>7. OpenRequest'
    BY <1>2, <2>1, <2>2, <2>6 DEF Exchange, OpenRequest
  <2>8. ReplyFits'
    <3>1. CASE client.phase = "waiting" /\ client.rpc = m.rpc
      <4>1. reply' = [some |-> TRUE,
                      is |-> [reason |-> "granted", session |-> db'.session,
                              generation |-> db'.generation]]
        BY <1>3, <3>1 DEF Answer
      <4>2. /\ reply'.is.reason = "granted"
            /\ reply'.is.session = db'.session
            /\ reply'.is.generation = db'.generation
        BY <4>1
      <4>3. db'.generation = client'.generation + 1
        BY <2>6 DEF GrantedOpen
      <4> QED BY <1>2, <2>2, <2>6, <3>1, <4>2, <4>3 DEF ReplyFits
    <3>2. CASE ~(client.phase = "waiting" /\ client.rpc = m.rpc)
      <4>1. reply' = reply
        BY <1>3, <3>2 DEF Answer
      <4>2. reply.some => reply.is.reason \notin {"granted", "session_expired"}
        BY <2>1 DEF Exchange, ReplyFits, GrantedOpen
      <4> QED BY <1>2, <4>1, <4>2 DEF Exchange, ReplyFits
    <3> QED BY <3>1, <3>2
  <2>9. HistoryFits'
    <3> SUFFICES ASSUME NEW h \in history'
                 PROVE  h.request <= db'.request
      BY <2>2 DEF HistoryFits
    <3>1. CASE h \in history
      BY <1>1, <2>1, <2>2, <3>1
         DEF Exchange, HistoryFits, TypeOK, Grant
    <3>2. CASE h \notin history
      BY <1>1, <2>2, <2>4, <3>2
    <3> QED BY <3>1, <3>2
  <2>10. ~ended
    BY <2>1 DEF Exchange, Lineage
  <2>11. Lineage' /\ SingleLive' /\ NoResurrection'
    BY <1>2, <2>2, <2>3, <2>10
       DEF Exchange, Lineage, SingleLive, NoResurrection
  <2>12. ClientHoldsCurrent'
    BY <1>2, <2>1 DEF Exchange, OpenRequest, ClientHoldsCurrent
  <2> QED BY <2>5, <2>7, <2>8, <2>9, <2>11, <2>12 DEF Exchange
<1>4. CASE /\ UNCHANGED dbVars
           /\ \/ Refusal(m) = "granted" /\ Answer(m, Granted)
              \/ /\ Refusal(m) \notin {"mint", "granted"}
                 /\ Answer(m, Fail(Refusal(m)))
              \/ Answer(m, Fail("unavailable"))
  <2>1. UNCHANGED <<db, history, live, account>>
    BY <1>4 DEF dbVars
  <2>2. NetFits'
    BY <1>2, <2>1 DEF Exchange, NetFits, Stale
  <2>3. /\ OpenRequest' /\ HistoryFits' /\ Lineage' /\ SingleLive'
        /\ NoResurrection' /\ ClientHoldsCurrent'
    BY <1>2, <2>1 DEF Exchange, OpenRequest, GrantedOpen, NotGranted,
         HistoryFits, Lineage, SingleLive, NoResurrection, ClientHoldsCurrent
  <2>4. ReplyFits'
    <3>1. CASE ~(client.phase = "waiting" /\ client.rpc = m.rpc)
      <4>1. reply' = reply
        BY <1>4, <3>1 DEF Answer
      <4> QED BY <1>2, <2>1, <4>1 DEF Exchange, ReplyFits, GrantedOpen
    <3>2. CASE client.phase = "waiting" /\ client.rpc = m.rpc
      <4>1. /\ Refusal(m) # "connection_conflict"
            /\ Refusal(m) \in {"granted", "session_expired"} =>
                 db.exists /\ GrantedOpen
        BY <3>2, AnswerFits
      <4>2. /\ reply'.is.reason # "connection_conflict"
            /\ reply'.is.reason \in {"granted", "session_expired"} =>
                 /\ db.exists /\ GrantedOpen
                 /\ reply'.is.generation = db.generation
            /\ reply'.is.reason = "granted" => reply'.is.session = db.session
        BY <1>4, <3>2, <4>1 DEF Answer, Granted, Fail
      <4> QED BY <1>2, <2>1, <3>2, <4>2 DEF ReplyFits, GrantedOpen
    <3> QED BY <3>1, <3>2
  <2> QED BY <2>2, <2>3, <2>4 DEF Exchange
<1> QED BY <1>3, <1>4 DEF connectionSession

LEMMA ExchangeStep == TypeOK /\ Exchange /\ [Next]_vars => Exchange'
<1> SUFFICES ASSUME TypeOK, Exchange, [Next]_vars PROVE Exchange'
  OBVIOUS
<1>1. CASE ClientStep
  BY <1>1, ExchangeSend, ExchangeLeave, ExchangeRead DEF ClientStep
<1>2. CASE \E m \in net : connectionSession(m)
  BY <1>2, ExchangeServe
<1>3. CASE deleteConnection
  <2>1. CASE account
    BY <1>3, <2>1, ExchangeRevoke DEF deleteConnection, clientVars
  <2>2. CASE ~account
    <3>1. UNCHANGED <<db, history, live, account, net, client, reply, ended>>
      BY <1>3, <2>2 DEF deleteConnection, clientVars
    <3> QED BY <3>1 DEF Exchange, NetFits, Stale, OpenRequest, GrantedOpen,
          NotGranted, ReplyFits, HistoryFits, Lineage, SingleLive,
          NoResurrection, ClientHoldsCurrent
  <2> QED BY <2>1, <2>2
<1>4. CASE deleteSessionLineage \/ logout \/ offlineBroker \/ rotateDevice
  <2>1. /\ Revoke
        /\ account' => account
        /\ UNCHANGED <<history, net, client, reply>>
    <3>1. CASE deleteSessionLineage
      BY <3>1 DEF deleteSessionLineage, callVars, netVars, clientVars
    <3>2. CASE logout
      BY <3>2 DEF logout, callVars, netVars, clientVars
    <3>3. CASE offlineBroker
      BY <3>3 DEF offlineBroker, callVars, netVars, clientVars
    <3>4. CASE rotateDevice
      BY <3>4 DEF rotateDevice, callVars, netVars, clientVars
    <3> QED BY <1>4, <3>1, <3>2, <3>3, <3>4
  <2> QED BY <2>1, ExchangeRevoke
<1>5. CASE SessionExpires \/ pruneConnections
  BY <1>5, ExchangeExpire, ExchangePrune
<1>6. CASE \/ LeaseExpires \/ catchup \/ SocketLost \/ ReadSnapshots
           \/ server_suspend_peers \/ heartbeat \/ server_snapshot
           \/ SnapshotSkipped \/ PeerEnds \/ server_session \/ BeginAttempt
           \/ PeerAttemptFails \/ retire_attempt \/ UNCHANGED vars
  <2>1. UNCHANGED <<dbVars, callVars, ended>>
    BY <1>6 DEF LeaseExpires, catchup, SocketLost, ReadSnapshots,
         server_suspend_peers, heartbeat, server_snapshot, SnapshotSkipped,
         SnapshotDone, PeerEnds, server_session, BeginAttempt,
         PeerAttemptFails, retire_attempt, vars, histVars
  <2> QED BY <2>1, ExchangeElsewhere
<1> QED BY <1>1, <1>2, <1>3, <1>4, <1>5, <1>6 DEF Next, ServerStep, BrokerStep

LEMMA InvariantHolds == Spec => []IInv
<1>1. Init => IInv
  BY TypeInit, ExchangeInit DEF IInv
<1>2. IInv /\ [Next]_vars => IInv'
  BY TypeStep, NamedStep, ExchangeStep DEF IInv
<1> QED BY <1>1, <1>2, PTL DEF Spec

(* A lineage that was revoked once is never revived, whatever delayed or   *)
(* repeated requests reach connectionSession and however the maintenance   *)
(* job prunes its row.                                                     *)
THEOREM NeverRevived == Spec => []NoResurrection
<1>1. IInv => NoResurrection
  BY DEF IInv, Exchange
<1> QED BY InvariantHolds, <1>1, PTL

(* At most one session of a lineage is live, the one its row names.        *)
THEOREM OneLiveSession == Spec => []SingleLive
<1>1. IInv => SingleLive
  BY DEF IInv, Exchange
<1> QED BY InvariantHolds, <1>1, PTL

(* The session the client works with is the current one of the lineage: no *)
(* late request of its own replaces it.                                    *)
THEOREM ClientUpToDate == Spec => []ClientHoldsCurrent
<1>1. IInv => ClientHoldsCurrent
  BY DEF IInv, Exchange
<1> QED BY InvariantHolds, <1>1, PTL

(* The client's retries are idempotent: the server never answers one with  *)
(* a conflict, nor with a grant open_session would reject as not newer.    *)
THEOREM RetriesIdempotent == Spec => []NeverConflicts
<1>1. IInv => NeverConflicts
  BY DEF IInv, Exchange, ReplyFits, NeverConflicts, TypeOK, Client
<1> QED BY InvariantHolds, <1>1, PTL

-----------------------------------------------------------------------------
(* The order in which the broker sets sessions up.                         *)
(*                                                                         *)
(* What the broker is about to read is a queue: the snapshot it holds, the *)
(* ones in flight and, last, what the server would push now.  Sessions do  *)
(* not decrease along the queue, and one that left it does not come back.  *)
(* A session the broker knows is not newer than any in the queue; while it *)
(* is the oldest one in it, it is in seen and in every snapshot before, so *)
(* applying those does not make the broker forget it.                      *)

Shown == Present({h \in history : h.session \in live})
First == IF held.some THEN 0 ELSE 1
Last == Len(chan) + 1
View(i) == IF i = 0 THEN Present(held.is)
           ELSE IF i <= Len(chan) THEN Present(chan[i]) ELSE Shown

Known == ({started[i] : i \in 1..Len(started)}
            \cup {peer.session, peer.pending}) \ {None}

Sorted ==
    \A i, j \in First..Last : i <= j =>
      \A x \in View(i), y \in View(j) : x <= y
Gapless ==
    \A i, j, k \in First..Last : i <= j /\ j <= k =>
      View(i) \cap View(k) \subseteq View(j)
KnownOlder ==
    \A x \in Known, i \in First..Last : \A y \in View(i) :
      /\ x <= y
      /\ x = y => x \in seen /\ \A j \in First..i : x \in View(j)
Bounded ==
    /\ \A i \in First..Last : \A x \in View(i) : x \in 1..minted
    /\ \A x \in Known : x \in 1..minted
Queued == Sorted /\ Gapless /\ KnownOlder /\ Bounded

Order ==
    /\ StartedInOrder
    /\ peer.pc \in {"start", "taken"} =>
         \A i \in 1..Len(started) : started[i] < peer.session
    /\ peer.pending # None =>
         /\ peer.session < peer.pending
         /\ \A i \in 1..Len(started) : started[i] < peer.pending

LEMMA ViewType ==
  ASSUME TypeOK
  PROVE  /\ \A i \in First..Last : View(i) \subseteq Nat \ {None}
         /\ First \in Nat /\ Last \in Nat /\ Known \subseteq Nat \ {None}
<1>1. ASSUME NEW S, S \subseteq Grant PROVE Present(S) \subseteq Nat \ {None}
  BY <1>1 DEF Present, Grant
<1>2. held.is \subseteq Grant /\ Shown \subseteq Nat \ {None}
  BY <1>1 DEF TypeOK, Shown
<1>3. \A i \in 1..Len(chan) : chan[i] \subseteq Grant
  BY DEF TypeOK
<1>4. Len(chan) \in Nat
  BY DEF TypeOK
<1>5. Known \subseteq Nat \ {None}
  BY DEF TypeOK, Known, PeerType
<1>6. First \in Nat /\ Last \in Nat
  BY <1>4 DEF First, Last
<1>7. ASSUME NEW i \in First..Last PROVE View(i) \subseteq Nat \ {None}
  <2>1. CASE i = 0
    BY <1>1, <1>2, <2>1 DEF View
  <2>2. CASE i # 0 /\ i <= Len(chan)
    <3>1. i \in 1..Len(chan)
      BY <1>4, <1>6, <2>2
    <3> QED  BY <1>1, <1>3, <2>2, <3>1 DEF View
  <2>3. CASE i # 0 /\ ~(i <= Len(chan))
    BY <1>2, <2>3 DEF View
  <2> QED  BY <2>1, <2>2, <2>3
<1> QED  BY <1>5, <1>6, <1>7

(* The queue loses snapshots, or repeats its last one. *)
LEMMA Requeued ==
  ASSUME TypeOK, TypeOK', Queued,
         NEW f \in [First'..Last' -> First..Last],
         \A i \in First'..Last' : View(i)' = View(f[i]),
         \A i, j \in First'..Last' : i <= j => f[i] <= f[j],
         Known' \subseteq Known, minted' = minted, seen' = seen
  PROVE  Queued'
<1>0. /\ First \in Nat /\ Last \in Nat
      /\ First' \in Nat /\ Last' \in Nat
  BY DEF TypeOK, First, Last
<1>1. Sorted'
  BY <1>0 DEF Queued, Sorted
<1>2. Gapless'
  <2> SUFFICES ASSUME NEW i \in First'..Last', NEW j \in First'..Last',
                      NEW k \in First'..Last', i <= j, j <= k,
                      NEW x, x \in View(i)', x \in View(k)'
               PROVE  x \in View(j)'
    BY DEF Gapless
  <2>1. /\ f[i] \in First..Last /\ f[j] \in First..Last /\ f[k] \in First..Last
        /\ f[i] <= f[j] /\ f[j] <= f[k]
        /\ x \in View(f[i]) \cap View(f[k])
    OBVIOUS
  <2>2. x \in View(f[j])
    BY <2>1 DEF Queued, Gapless
  <2> QED  BY <2>2
<1>3. KnownOlder'
  <2> SUFFICES ASSUME NEW x \in Known', NEW i \in First'..Last',
                      NEW y \in View(i)'
               PROVE  /\ x <= y
                      /\ x = y => x \in seen' /\ \A j \in First'..i : x \in View(j)'
    BY DEF KnownOlder
  <2>1. x \in Known /\ f[i] \in First..Last /\ y \in View(f[i])
    OBVIOUS
  <2>2. x <= y /\ (x = y => x \in seen)
    BY <2>1 DEF Queued, KnownOlder
  <2>3. ASSUME x = y, NEW j \in First'..i PROVE x \in View(j)'
    <3>1. j \in First'..Last' /\ f[j] <= f[i] /\ f[j] \in First..Last
      BY <1>0
    <3>2. f[j] \in First..f[i]
      BY <1>0, <2>1, <3>1
    <3>3. x \in View(f[j])
      BY <2>1, <2>3, <3>2 DEF Queued, KnownOlder
    <3> QED  BY <3>1, <3>3
  <2> QED  BY <2>2, <2>3
<1>4. Bounded'
  BY DEF Queued, Bounded
<1> QED  BY <1>1, <1>2, <1>3, <1>4 DEF Queued

(* The server retires a session, or grants a new one. *)
LEMMA Reshown ==
  ASSUME TypeOK, TypeOK', Queued, SingleLive',
         UNCHANGED <<chan, held, seen, peer, started>>,
         minted' \in Nat, minted <= minted',
         \A x \in Shown' : x \in Shown \/ x \in (minted + 1)..minted'
  PROVE  Queued'
<1>0. /\ First' = First /\ Last' = Last /\ Known' = Known /\ minted \in Nat
      /\ First \in Nat /\ Last \in Nat /\ First <= Last
      /\ \A i \in First..Last : i < Last => View(i)' = View(i)
      /\ View(Last)' = Shown' /\ View(Last) = Shown
  <2>1. First' = First /\ Last' = Last /\ Known' = Known
    BY DEF First, Last, Known
  <2>2. First \in Nat /\ Last \in Nat /\ First <= Last /\ Len(chan) \in Nat
    BY DEF TypeOK, First, Last
  <2>3. \A i \in First..Last : i < Last => View(i)' = View(i)
    BY <2>2 DEF View, Last
  <2>4. View(Last)' = Shown' /\ View(Last) = Shown
    BY <2>1, <2>2 DEF View, Last
  <2> QED  BY <2>1, <2>2, <2>3, <2>4 DEF TypeOK
<1>1. \A x, y \in Shown' : x = y
  BY DEF SingleLive, Shown, Present
<1>2. \A i \in First..Last : \A x \in View(i)' :
        \/ x \in View(i)
        \/ i = Last /\ x \in (minted + 1)..minted'
  BY <1>0
<1>3. \A i \in First..Last : View(i) \subseteq 1..minted
  BY DEF Queued, Bounded
<1>4. Known \subseteq 1..minted
  BY DEF Queued, Bounded
<1>5. Sorted'
  <2> SUFFICES ASSUME NEW i \in First..Last, NEW j \in First..Last, i <= j,
                      NEW x \in View(i)', NEW y \in View(j)'
               PROVE  x <= y
    BY <1>0 DEF Sorted
  <2>1. x \in Int /\ y \in Int
    BY <1>0, <1>2, <1>3
  <2>2. CASE i = Last
    BY <1>0, <1>1, <2>1, <2>2
  <2>3. CASE i # Last
    <3>1. x \in View(i)
      BY <1>2, <2>3
    <3>2. CASE y \in View(j)
      BY <3>1, <3>2 DEF Queued, Sorted
    <3>3. CASE y \in (minted + 1)..minted'
      BY <1>0, <1>3, <3>1, <3>3
    <3> QED  BY <1>2, <3>2, <3>3
  <2> QED  BY <2>2, <2>3
<1>6. Gapless'
  <2> SUFFICES ASSUME NEW i \in First..Last, NEW j \in First..Last,
                      NEW k \in First..Last, i <= j, j <= k,
                      NEW x, x \in View(i)', x \in View(k)'
               PROVE  x \in View(j)'
    BY <1>0 DEF Gapless
  <2>1. CASE i = Last \/ j = Last
    BY <1>0, <2>1
  <2>2. CASE i # Last /\ j # Last
    <3>1. x \in View(i)
      BY <1>2, <2>2
    <3>2. x \in View(k)
      BY <1>0, <1>2, <1>3, <3>1
    <3>3. x \in View(j)
      BY <3>1, <3>2 DEF Queued, Gapless
    <3> QED  BY <1>0, <2>2, <3>3
  <2> QED  BY <2>1, <2>2
<1>7. KnownOlder'
  <2> SUFFICES ASSUME NEW x \in Known, NEW i \in First..Last, NEW y \in View(i)'
               PROVE  /\ x <= y
                      /\ x = y => x \in seen' /\ \A j \in First..i : x \in View(j)'
    BY <1>0 DEF KnownOlder
  <2>1. CASE y \in View(i)
    <3>1. /\ x <= y
          /\ x = y => x \in seen /\ \A j \in First..i : x \in View(j)
      BY <2>1 DEF Queued, KnownOlder
    <3>2. ASSUME x = y, NEW j \in First..i PROVE x \in View(j)'
      <4>1. CASE j = i
        BY <3>2, <4>1
      <4>2. CASE j # i
        <5>1. j \in First..Last /\ j < Last
          BY <1>0, <4>2
        <5> QED  BY <1>0, <3>1, <3>2, <5>1
      <4> QED  BY <4>1, <4>2
    <3> QED  BY <3>1, <3>2
  <2>2. CASE y \in (minted + 1)..minted'
    BY <1>0, <1>4, <2>2
  <2> QED  BY <1>2, <2>1, <2>2
<1>8. Bounded'
  BY <1>0, <1>2, <1>3, <1>4 DEF Bounded
<1> QED  BY <1>5, <1>6, <1>7, <1>8 DEF Queued

(* The control worker applies the snapshot it holds; fresh is the session  *)
(* it starts or hands over, if any.                                        *)
LEMMA Applied ==
  ASSUME TypeOK, TypeOK', Queued, NEW fresh,
         held.some, ~held'.some,
         UNCHANGED <<chan, history, live, minted, started>>,
         fresh \subseteq Present(held.is), Known' \subseteq Known \cup fresh,
         (seen \cup fresh) \cap Present(held.is) \subseteq seen'
  PROVE  Queued'
<1>0. /\ First = 0 /\ First' = 1 /\ Last' = Last /\ Last \in Nat /\ Last >= 1
      /\ \A i \in 1..Last : View(i)' = View(i)
      /\ View(0) = Present(held.is)
  <2>1. First = 0 /\ First' = 1 /\ Last' = Last /\ Last \in Nat /\ Last >= 1
    BY DEF TypeOK, First, Last
  <2>2. \A i \in 1..Last : View(i)' = View(i)
    BY DEF View, Shown
  <2> QED  BY <2>1, <2>2 DEF View
<1>1. Sorted'
  BY <1>0 DEF Queued, Sorted
<1>2. Gapless'
  BY <1>0 DEF Queued, Gapless
<1>3. KnownOlder'
  <2> SUFFICES ASSUME NEW x \in Known', NEW i \in 1..Last, NEW y \in View(i)
               PROVE  /\ x <= y
                      /\ x = y => x \in seen' /\ \A j \in 1..i : x \in View(j)
    BY <1>0 DEF KnownOlder
  <2>0. 0 \in 0..Last /\ i \in 0..Last /\ 0 <= i /\ \A j \in 1..i : j \in 0..Last
    BY <1>0
  <2>1. CASE x \in fresh
    <3>1. x \in View(0)
      BY <1>0, <2>1
    <3>2. x <= y
      BY <1>0, <2>0, <3>1 DEF Queued, Sorted
    <3>3. x \in seen'
      BY <2>1
    <3>4. ASSUME x = y, NEW j \in 1..i PROVE x \in View(j)
      <4>1. 0 <= j /\ j <= i /\ x \in View(0) \cap View(i) /\ j \in 0..Last
        BY <2>0, <3>1, <3>4
      <4> QED  BY <1>0, <2>0, <4>1 DEF Queued, Gapless
    <3> QED  BY <3>2, <3>3, <3>4
  <2>2. CASE x \in Known
    <3>1. /\ x <= y
          /\ x = y => x \in seen /\ \A j \in 0..i : x \in View(j)
      BY <1>0, <2>0, <2>2 DEF Queued, KnownOlder
    <3>2. x = y => x \in View(0)
      BY <2>0, <3>1
    <3> QED  BY <1>0, <3>1, <3>2
  <2> QED  BY <2>1, <2>2
<1>4. Bounded'
  <2>1. \A x \in fresh : x \in 1..minted
    BY <1>0 DEF Queued, Bounded
  <2> QED  BY <1>0, <2>1 DEF Queued, Bounded
<1> QED  BY <1>1, <1>2, <1>3, <1>4 DEF Queued

LEMMA SameQueue ==
  ASSUME Queued, UNCHANGED <<chan, held, seen, history, live, minted>>,
         Known' \subseteq Known
  PROVE  Queued'
<1>1. First' = First /\ Last' = Last /\ \A i : View(i)' = View(i)
  BY DEF First, Last, View, Shown
<1> QED  BY <1>1 DEF Queued, Sorted, Gapless, KnownOlder, Bounded

LEMMA OrderInit == Init => Queued /\ Order
<1> SUFFICES ASSUME Init PROVE Queued /\ Order
  OBVIOUS
<1>1. Shown = {} /\ Known = {} /\ First = 1 /\ Last = 1
  BY DEF Init, Shown, Present, Known, NoPeer, First, Last
<1>2. \A i \in First..Last : View(i) = {}
  BY <1>1 DEF View, Init
<1> QED  BY <1>1, <1>2 DEF Queued, Sorted, Gapless, KnownOlder, Bounded, Order,
            StartedInOrder, Init, NoPeer

LEMMA OrderServer ==
  ASSUME IInv, TypeOK', SingleLive', Queued, Order, ServerStep
  PROVE  Queued' /\ Order'
<1>0. TypeOK /\ minted \in Nat
  BY DEF IInv, TypeOK
<1>1. UNCHANGED brokerVars
  BY DEF ServerStep, connectionSession, deleteConnection, deleteSessionLineage,
         logout, offlineBroker, SessionExpires, LeaseExpires, pruneConnections
<1>2. Order'
  BY <1>1 DEF brokerVars, Order, StartedInOrder
<1>3. CASE history' \subseteq history /\ live' \subseteq live /\ minted' = minted
  <2>1. Shown' \subseteq Shown
    BY <1>3 DEF Shown, Present
  <2> QED  BY <1>0, <1>1, <1>2, <1>3, <2>1, Reshown DEF brokerVars
<1>4. ASSUME NEW m \in net, Minted(m) PROVE Queued'
  <2> DEFINE n == minted + 1
             g == [session |-> n, generation |-> db.generation + 1,
                   request |-> m.request]
  <2>1. minted' = n /\ live' \subseteq live \cup {n} /\ history' \subseteq history \cup {g}
    BY <1>4 DEF Minted
  <2>2. \A x \in Shown' : x \in Shown \/ x = n
    BY <2>1 DEF Shown, Present
  <2>3. n \in (minted + 1)..n /\ n \in Nat /\ minted <= n
    BY <1>0
  <2> QED  BY <1>0, <1>1, <2>1, <2>2, <2>3, Reshown DEF brokerVars
<1>5. CASE \E m \in net : connectionSession(m)
  <2>1. CASE UNCHANGED dbVars
    BY <1>2, <1>3, <2>1 DEF dbVars
  <2> QED  BY <1>2, <1>4, <1>5, <2>1 DEF connectionSession
<1>6. CASE \/ deleteConnection \/ deleteSessionLineage \/ logout
           \/ offlineBroker \/ SessionExpires \/ LeaseExpires
  BY <1>3, <1>6 DEF deleteConnection, deleteSessionLineage, logout, Revoke,
                    offlineBroker, SessionExpires, LeaseExpires, dbVars
<1>7. CASE pruneConnections
  <2>1. history' \subseteq history /\ minted' = minted
    BY <1>7 DEF pruneConnections
  <2>2. live' \subseteq live
    BY <1>7 DEF pruneConnections
  <2> QED  BY <1>3, <2>1, <2>2
<1> QED  BY <1>5, <1>6, <1>7 DEF ServerStep

LEMMA OrderSnapshot ==
  ASSUME IInv, TypeOK', Queued, Order, server_snapshot
  PROVE  Queued' /\ Order'
<1>0. TypeOK /\ peer \in PeerType
  BY DEF IInv, TypeOK
<1>1. PICK h \in NewSessions :
        /\ peer' = IF peer.pc = "none" THEN NewPeer(h) ELSE HandedOver(peer, h)
        /\ seen' = Remembered(seen \cup {h.session}, held.is, peer')
        /\ SnapshotDone
  BY DEF server_snapshot
<1>2. /\ held.some /\ ~held'.some /\ h.session \in Present(held.is)
      /\ UNCHANGED <<chan, history, live, minted, started>>
      /\ h.session \notin seen
  BY <1>1 DEF SnapshotDone, dbVars, NewSessions, Present
<1>3. h.session \in Nat \ {None}
  BY <1>0, <1>1 DEF NewSessions, TypeOK, Grant
<1>4. \/ peer' = peer
      \/ /\ peer'.session = h.session /\ peer'.pending = None
      \/ /\ peer'.session = peer.session /\ peer'.pending = h.session
         /\ peer'.pc = peer.pc
  <2>1. CASE peer.pc = "none"
    BY <1>1, <2>1 DEF NewPeer
  <2>2. CASE peer.pc # "none"
    BY <1>0, <1>1, <2>2 DEF HandedOver, transport_fail, PeerType
  <2> QED  BY <2>1, <2>2
<1>5. Known' \subseteq Known \cup {h.session}
  BY <1>2, <1>4 DEF Known
<1>6. (seen \cup {h.session}) \cap Present(held.is) \subseteq seen'
  BY <1>1 DEF Remembered
<1>7. Queued'
  BY <1>0, <1>2, <1>5, <1>6, Applied
<1>8. \A x \in Known : x < h.session
  <2> SUFFICES ASSUME NEW x \in Known PROVE x < h.session
    OBVIOUS
  <2>1. 0 \in First..Last /\ h.session \in View(0)
    BY <1>0, <1>2 DEF First, Last, View, TypeOK
  <2>2. x <= h.session /\ x # h.session
    BY <1>2, <2>1 DEF Queued, KnownOlder
  <2>3. x \in Nat
    BY <1>0, ViewType
  <2> QED  BY <1>3, <2>2, <2>3
<1>9. Order'
  <2>1. \A i \in 1..Len(started) : started[i] < h.session
    <3>1. \A i \in 1..Len(started) : started[i] # None
      BY <1>0 DEF TypeOK
    <3> QED  BY <1>8, <3>1 DEF Known
  <2>2. peer.session # None => peer.session < h.session
    BY <1>8 DEF Known
  <2>3. 0 < h.session /\ (peer.session = None \/ peer.session < h.session)
    BY <1>3, <2>2 DEF None
  <2>4. peer.session < h.session
    BY <2>3 DEF None
  <2> QED  BY <1>2, <1>4, <2>1, <2>4 DEF Order, StartedInOrder
<1> QED  BY <1>7, <1>9

LEMMA OrderBroker ==
  ASSUME IInv, TypeOK', Queued, Order, BrokerStep
  PROVE  Queued' /\ Order'
<1>0. TypeOK /\ peer \in PeerType /\ SessionNamed
  BY DEF IInv, TypeOK
<1> DEFINE n == Len(chan)
<1>1. n \in Nat /\ Len(started) \in Nat
  BY <1>0 DEF TypeOK
<1>2. CASE catchup
  <2>1. /\ UNCHANGED <<held, seen, peer, started, history, live, minted>>
        /\ chan' = Append(chan, {h \in history : h.session \in live})
    BY <1>2 DEF catchup, dbVars
  <2>2. Order' /\ Known' = Known
    BY <2>1 DEF Order, StartedInOrder, Known
  <2>3. First' = First /\ Last = n + 1 /\ Last' = n + 2
    BY <1>0, <2>1 DEF First, Last, TypeOK
  <2> DEFINE f == [i \in First..(n + 2) |-> IF i = n + 2 THEN n + 1 ELSE i]
  <2>4. f \in [First'..Last' -> First..Last]
    BY <1>1, <2>3 DEF First
  <2>5. \A i, j \in First'..Last' : i <= j => f[i] <= f[j]
    BY <1>1, <2>3 DEF First
  <2>6. ASSUME NEW i \in First'..Last' PROVE View(i)' = View(f[i])
    <3>1. /\ Len(chan') = n + 1 /\ Shown' = Shown
          /\ \A k \in 1..n : chan'[k] = chan[k]
          /\ Present(chan'[n + 1]) = Shown
      BY <1>0, <1>1, <2>1 DEF Shown, TypeOK
    <3>2. i \in 0..(n + 2) /\ f[i] = (IF i = n + 2 THEN n + 1 ELSE i)
      BY <1>1, <2>3 DEF First
    <3> HIDE DEF f
    <3>3. CASE i = 0
      BY <1>1, <2>1, <3>2, <3>3 DEF View
    <3>4. CASE i \in 1..n
      BY <1>1, <3>1, <3>2, <3>4 DEF View
    <3>5. CASE i = n + 1
      BY <1>1, <3>1, <3>2, <3>5 DEF View
    <3>6. CASE i = n + 2
      BY <1>1, <3>1, <3>2, <3>6 DEF View
    <3> QED  BY <1>1, <3>2, <3>3, <3>4, <3>5, <3>6
  <2> HIDE DEF f
  <2> QED  BY <1>0, <2>1, <2>2, <2>4, <2>5, <2>6, Requeued
<1>3. CASE SocketLost
  <2>1. /\ UNCHANGED <<held, seen, peer, started, history, live, minted>>
        /\ chan' = <<>>
    BY <1>3 DEF SocketLost, dbVars
  <2>2. Order' /\ Known' = Known
    BY <2>1 DEF Order, StartedInOrder, Known
  <2>3. First' = First /\ Last = n + 1 /\ Last' = 1
    BY <2>1 DEF First, Last
  <2> DEFINE f == [i \in First..1 |-> IF i = 1 THEN n + 1 ELSE i]
  <2>4. f \in [First'..Last' -> First..Last]
    BY <1>1, <2>3 DEF First
  <2>5. \A i, j \in First'..Last' : i <= j => f[i] <= f[j]
    BY <1>1, <2>3 DEF First
  <2>6. \A i \in First'..Last' : View(i)' = View(f[i])
    BY <1>1, <2>1, <2>3 DEF First, View, Shown
  <2> HIDE DEF f
  <2> QED  BY <1>0, <2>1, <2>2, <2>4, <2>5, <2>6, Requeued
<1>4. CASE ReadSnapshots
  <2>1. PICK k \in 1..n :
          /\ held' = [some |-> TRUE, is |-> chan[k]]
          /\ chan' = SubSeq(chan, k + 1, n)
          /\ UNCHANGED <<seen, peer, started, history, live, minted>>
    BY <1>4 DEF ReadSnapshots, dbVars
  <2>2. Order' /\ Known' = Known
    BY <2>1 DEF Order, StartedInOrder, Known
  <2>3. /\ Len(chan') = n - k /\ \A i \in 1..(n - k) : chan'[i] = chan[k + i]
        /\ First' = 0 /\ Last = n + 1 /\ Last' = n - k + 1
    BY <1>0, <1>1, <2>1 DEF First, Last, TypeOK
  <2> DEFINE f == [i \in 0..(n - k + 1) |-> k + i]
  <2>4. f \in [First'..Last' -> First..Last]
    BY <1>1, <2>3 DEF First
  <2>5. \A i, j \in First'..Last' : i <= j => f[i] <= f[j]
    BY <1>1, <2>3 DEF First
  <2>6. ASSUME NEW i \in First'..Last' PROVE View(i)' = View(f[i])
    <3>1. i \in 0..(n - k + 1) /\ f[i] = k + i /\ Shown' = Shown
      BY <1>1, <2>1, <2>3 DEF Shown
    <3> HIDE DEF f
    <3>2. CASE i = 0
      BY <1>1, <2>1, <3>1, <3>2 DEF View
    <3>3. CASE i \in 1..(n - k)
      BY <1>1, <2>3, <3>1, <3>3 DEF View
    <3>4. CASE i = n - k + 1
      BY <1>1, <2>3, <3>1, <3>4 DEF View
    <3> QED  BY <1>1, <3>1, <3>2, <3>3, <3>4
  <2> HIDE DEF f
  <2> QED  BY <1>0, <2>1, <2>2, <2>4, <2>5, <2>6, Requeued
<1>5. CASE server_snapshot
  BY <1>5, OrderSnapshot
<1>6. CASE SnapshotSkipped
  <2>1. /\ held.some /\ ~held'.some /\ peer' = peer
        /\ UNCHANGED <<chan, history, live, minted, started>>
        /\ seen' = Remembered(seen, held.is, peer)
    BY <1>6 DEF SnapshotSkipped, SnapshotDone, dbVars
  <2>2. Known' = Known /\ seen \cap Present(held.is) \subseteq seen'
    BY <2>1 DEF Known, Remembered
  <2>3. Queued'
    <3> DEFINE fresh == {}
    <3>1. /\ fresh \subseteq Present(held.is) /\ Known' \subseteq Known \cup fresh
          /\ (seen \cup fresh) \cap Present(held.is) \subseteq seen'
      BY <2>2
    <3> HIDE DEF fresh
    <3> QED  BY <1>0, <2>1, <3>1, Applied
  <2> QED  BY <2>1, <2>3 DEF Order, StartedInOrder
<1>7. CASE rotateDevice
  <2>1. /\ chan' = <<>> /\ ~held'.some /\ live' = {} /\ seen' = {}
        /\ peer' = NoPeer /\ started' = started /\ minted' = minted
    BY <1>7 DEF rotateDevice, Revoke
  <2>2. First' = 1 /\ Last' = 1 /\ Shown' = {} /\ Known' \subseteq Known
    BY <2>1 DEF First, Last, Shown, Present, Known, NoPeer
  <2>3. \A i \in First'..Last' : View(i)' = {}
    BY <2>1, <2>2 DEF View
  <2>4. Queued'
    BY <2>1, <2>2, <2>3 DEF Queued, Sorted, Gapless, KnownOlder, Bounded
  <2> QED  BY <2>1, <2>4 DEF Order, StartedInOrder, NoPeer
<1>8. CASE PeerEnds
  <2>1. /\ UNCHANGED <<chan, held, seen, history, live, minted, started>>
        /\ peer' = NoPeer
    BY <1>8 DEF PeerEnds, dbVars
  <2>2. Known' \subseteq Known
    BY <2>1 DEF Known, NoPeer
  <2> QED  BY <2>1, <2>2, SameQueue DEF Order, StartedInOrder, NoPeer
<1>9. CASE server_session
  <2>1. /\ UNCHANGED <<chan, held, seen, history, live, minted, started>>
        /\ peer.pending # None
        /\ peer'.session = peer.pending /\ peer'.pending = None
    BY <1>0, <1>9 DEF server_session, dbVars, PeerType
  <2>2. Known' \subseteq Known
    BY <2>1 DEF Known
  <2> QED  BY <2>1, <2>2, SameQueue DEF Order, StartedInOrder
<1>10. CASE BeginAttempt
  <2>1. /\ UNCHANGED <<chan, held, seen, history, live, minted>>
        /\ peer.pc \in {"start", "taken"} /\ peer'.pc = "run"
        /\ peer'.session = peer.session /\ peer'.pending = peer.pending
        /\ started' = Append(started, peer.session)
    BY <1>0, <1>10 DEF BeginAttempt, dbVars, PeerType
  <2>2. peer.session \in Nat \ {None}
    BY <1>0, <2>1 DEF SessionNamed, PeerType
  <2>3. /\ Len(started') = Len(started) + 1
        /\ \A i \in 1..Len(started) : started'[i] = started[i]
        /\ started'[Len(started) + 1] = peer.session
    BY <1>0, <2>1, <2>2 DEF TypeOK
  <2>4. Known' \subseteq Known
    <3>1. \A i \in 1..Len(started') : \/ i \in 1..Len(started)
                                      \/ i = Len(started) + 1
      BY <1>1, <2>3
    <3> QED  BY <2>1, <2>3, <3>1 DEF Known
  <2>5. StartedInOrder'
    <3> SUFFICES ASSUME NEW i \in 1..Len(started'), NEW j \in 1..Len(started'),
                        i < j
                 PROVE  started'[i] < started'[j]
      BY DEF StartedInOrder
    <3>1. i \in 1..Len(started)
      BY <1>1, <2>3
    <3>2. CASE j \in 1..Len(started)
      BY <2>3, <3>1, <3>2 DEF Order, StartedInOrder
    <3>3. CASE j = Len(started) + 1
      BY <2>1, <2>3, <3>1, <3>3 DEF Order
    <3> QED  BY <1>1, <2>3, <3>2, <3>3
  <2>6. peer'.pending # None => \A i \in 1..Len(started') : started'[i] < peer'.pending
    <3>1. \A i \in 1..Len(started') : \/ i \in 1..Len(started)
                                      \/ i = Len(started) + 1
      BY <1>1, <2>3
    <3> QED  BY <2>1, <2>3, <3>1 DEF Order
  <2>7. Order'
    BY <2>1, <2>5, <2>6 DEF Order
  <2> QED  BY <2>1, <2>4, <2>7, SameQueue
<1>11. CASE server_suspend_peers \/ PeerAttemptFails \/ retire_attempt \/ heartbeat
  <2>1. UNCHANGED <<chan, held, seen, history, live, minted, started>>
    BY <1>11 DEF server_suspend_peers, PeerAttemptFails, retire_attempt,
                 heartbeat, dbVars
  <2>2. /\ peer'.session = peer.session /\ peer'.pending = peer.pending
        /\ peer'.pc = peer.pc \/ peer'.pc = "wait"
    BY <1>0, <1>11 DEF server_suspend_peers, PeerAttemptFails, retire_attempt,
                 heartbeat, transport_fail, PeerType
  <2>3. Known' = Known
    BY <2>1, <2>2 DEF Known
  <2> QED  BY <2>1, <2>2, <2>3, SameQueue DEF Order, StartedInOrder
<1> QED  BY <1>2, <1>3, <1>4, <1>5, <1>6, <1>7, <1>8, <1>9, <1>10, <1>11
         DEF BrokerStep

(* The broker sets the sessions of a connection up in the order in which   *)
(* they were granted and each at most once: over re-pushed snapshots, lost *)
(* sockets, hand-overs and peers that end and are created again, what      *)
(* seen_sessions forgets is never pushed again.                            *)
THEOREM SetUpInOrder == Spec => []StartedInOrder
<1> DEFINE J == IInv /\ Queued /\ Order
<1>1. Init => J
  BY TypeInit, ExchangeInit, OrderInit DEF IInv
<1>2. J /\ [Next]_vars => J'
  <2> SUFFICES ASSUME J, [Next]_vars PROVE J'
    OBVIOUS
  <2>1. IInv'
    BY TypeStep, NamedStep, ExchangeStep DEF IInv
  <2>2. TypeOK' /\ SingleLive'
    BY <2>1 DEF IInv, Exchange
  <2>3. CASE ServerStep
    BY <2>1, <2>2, <2>3, OrderServer
  <2>4. CASE BrokerStep
    BY <2>1, <2>2, <2>4, OrderBroker
  <2>5. CASE ClientStep \/ UNCHANGED vars
    <3>1. UNCHANGED <<chan, held, seen, history, live, minted, started, peer>>
      BY <2>5 DEF ClientStep, SendRequest, RequestTimeout, ReadReply,
           ClientAttemptFails, ClientClose, vars, dbVars, brokerVars
    <3>2. Known' = Known
      BY <3>1 DEF Known
    <3> QED  BY <2>1, <3>1, <3>2, SameQueue DEF Order, StartedInOrder
  <2> QED  BY <2>3, <2>4, <2>5 DEF Next
<1>3. J => StartedInOrder
  BY DEF Order
<1> HIDE DEF J
<1> QED  BY <1>1, <1>2, <1>3, PTL DEF Spec
=============================================================================
