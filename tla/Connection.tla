----------------------------- MODULE Connection -----------------------------
(***************************************************************************)
(* One managed connection: the authorization lineage kept by the control   *)
(* server (internal/control/connections.go, signaling.go, control.go), the *)
(* client that renews its transport session (open_session and the          *)
(* coordinator of sdk/c/remote/peer/coordinator.c) and the broker that is  *)
(* told of it by pushed snapshots (ws_server.inc, catchup in websocket.go).*)
(*                                                                         *)
(* A request stands for the pair (request_id, session_token) the client    *)
(* draws together; sessions are numbered in the order they are minted.     *)
(* Messages may be lost, delayed past the caller's timeout and arrive out  *)
(* of order; a session that is not in live has expired or was deleted,     *)
(* which the handlers do not tell apart.                                   *)
(***************************************************************************)
EXTENDS Integers, Sequences, FiniteSets

CONSTANTS
    MaxRpcs,       \* bound: session requests the client sends
    HistoryKeep,   \* the 256 generations of connection_sessions kept
    MaxPushes      \* bound: snapshots in flight to the broker

ASSUME ConstantsAssumption ==
    /\ MaxRpcs \in Nat
    /\ HistoryKeep \in Nat
    /\ MaxPushes \in Nat \ {0}

None == 0

VARIABLES
    db,        \* the row of this connection in the table connections
    history,   \* its rows of connection_sessions
    live,      \* unexpired rows of sessions, each with its session token
    minted,    \* session ids handed out so far
    account,   \* the login that owns the connection is still authorized
    device,    \* number of the broker's current device token
    lease,     \* the broker's lease has not expired
    net,       \* session requests in flight
    closing,   \* the close request is in flight
    client,    \* the client's coordinator
    reply,     \* the answer to the client's current request
    chan,      \* snapshots pushed to the broker and not yet read
    held,      \* the last snapshot the broker read and has not applied
    expired,   \* lease_was_expired of the broker's control worker
    seen,      \* seen_sessions
    peer,      \* the broker's logical peer for this connection
    started,   \* sessions the broker's peers have set up, in order
    ended,     \* history: the lineage has been revoked once
    dropped    \* history: sessions whose peer ended before trying them

dbVars == <<db, history, live, minted, account, device>>
netVars == <<net, closing>>
clientVars == <<client, reply>>
callVars == <<netVars, clientVars>>
histVars == <<ended, dropped>>
brokerVars == <<chan, held, expired, seen, peer, started>>
vars == <<dbVars, lease, callVars, brokerVars, histVars>>

-----------------------------------------------------------------------------
(* Types *)

Conn == [exists : BOOLEAN, generation : Nat, session : Nat, request : Nat,
         prior : Nat, device : Nat, revoked : BOOLEAN]
NoConn == [exists |-> FALSE, generation |-> 0, session |-> None,
           request |-> None, prior |-> 0, device |-> None, revoked |-> FALSE]
Grant == [session : Nat \ {None}, generation : Nat, request : Nat]

Client == [phase : {"idle", "waiting", "attempt", "failed", "closed"},
           generation : Nat, request_pending : BOOLEAN, request : Nat,
           session : Nat, rpc : Nat]
Request == [rpc : Nat, request : Nat, expected : Nat]

Reasons == {"granted", "session_expired", "connection_conflict",
            "broker_offline", "unavailable", "revoked"}
Reply == [reason : Reasons, session : Nat, generation : Nat]
NoReply == [reason |-> "unavailable", session |-> None, generation |-> 0]

Pc == {"none", "start", "wait", "taken", "run"}
PeerType == [pc : Pc, session : Nat, generation : Nat, pending : Nat,
             pending_generation : Nat, attempt_stop : BOOLEAN]
NoPeer == [pc |-> "none", session |-> None, generation |-> 0,
           pending |-> None, pending_generation |-> 0,
           attempt_stop |-> FALSE]

(* Every variable has its type. *)
TypeOK ==
    /\ db \in Conn
    /\ history \subseteq Grant
    /\ live \subseteq Nat
    /\ minted \in Nat
    /\ account \in BOOLEAN
    /\ device \in Nat
    /\ lease \in BOOLEAN
    /\ net \subseteq Request
    /\ closing \in BOOLEAN
    /\ client \in Client
    /\ reply \in [some : BOOLEAN, is : Reply]
    /\ chan \in Seq(SUBSET Grant)
    /\ held \in [some : BOOLEAN, is : SUBSET Grant]
    /\ expired \in BOOLEAN
    /\ seen \subseteq Nat
    /\ peer \in PeerType
    /\ started \in Seq(Nat \ {None})
    /\ ended \in BOOLEAN
    /\ dropped \subseteq Nat

Init ==
    /\ db = NoConn
    /\ history = {}
    /\ live = {}
    /\ minted = 0
    /\ account = TRUE
    /\ device = 1
    /\ lease = TRUE
    /\ net = {}
    /\ closing = FALSE
    /\ client = [phase |-> "idle", generation |-> 0,
                 request_pending |-> FALSE, request |-> None,
                 session |-> None, rpc |-> 0]
    /\ reply = [some |-> FALSE, is |-> NoReply]
    /\ chan = <<>>
    /\ held = [some |-> FALSE, is |-> {}]
    /\ expired = FALSE
    /\ seen = {}
    /\ peer = NoPeer
    /\ started = <<>>
    /\ ended = FALSE
    /\ dropped = {}

-----------------------------------------------------------------------------
(* The client: open_session *)

(* The identifiers of a request survive every ambiguous outcome; a fresh   *)
(* pair is drawn only when none is pending.                                *)
(* Mutant: every try draws a fresh request. *)
ProposeAlways(c) ==
    [c EXCEPT !.request_pending = TRUE, !.request = @ + 1]
Propose(c) ==
    IF c.request_pending THEN c
    ELSE [c EXCEPT !.request_pending = TRUE, !.request = @ + 1]

SendRequest ==
    /\ client.phase = "idle"
    /\ client.rpc < MaxRpcs
    /\ LET c == Propose(client)
       IN  /\ client' = [c EXCEPT !.phase = "waiting", !.rpc = @ + 1]
           /\ net' = net \cup {[rpc |-> client'.rpc, request |-> c.request,
                                expected |-> c.generation]}
    /\ UNCHANGED <<dbVars, lease, closing, reply, brokerVars, histVars>>

(* The request is cancelled or times out: its answer will not be read, but *)
(* it may still reach the server.                                          *)
RequestTimeout ==
    /\ client.phase = "waiting"
    /\ client' = [client EXCEPT !.phase = "idle"]
    /\ reply' = [some |-> FALSE, is |-> NoReply]
    /\ UNCHANGED <<dbVars, lease, netVars, brokerVars, histVars>>

(* What open_session and the coordinator make of an answer. *)
Retired(c, r) ==
    /\ r.reason \in {"session_expired", "connection_conflict"}
    /\ r.generation >= c.generation
GrantOk(c, r) == r.generation > c.generation
Answered(c, r) ==
    CASE r.reason = "granted" /\ GrantOk(c, r) ->
           [c EXCEPT !.phase = "attempt", !.session = r.session,
                     !.generation = r.generation, !.request_pending = FALSE]
      [] Retired(c, r) ->
           [c EXCEPT !.phase = "idle", !.generation = r.generation,
                     !.request_pending = FALSE]
      [] r.reason \in {"broker_offline", "unavailable",
                      "connection_conflict"} ->
           [c EXCEPT !.phase = "idle"]
      [] OTHER -> [c EXCEPT !.phase = "failed"]

(* A peer that failed for good sends the best-effort close request too.    *)
ReadReply ==
    /\ client.phase = "waiting" /\ reply.some
    /\ client' = Answered(client, reply.is)
    /\ reply' = [some |-> FALSE, is |-> NoReply]
    /\ closing' = (closing \/ client'.phase = "failed")
    /\ UNCHANGED <<dbVars, lease, net, brokerVars, histVars>>

(* The transport of the client fails, or its session is refused.  (That    *)
(* its lineage was revoked shows in the answer to its next request.)       *)
ClientAttemptFails ==
    /\ client.phase = "attempt"
    /\ client' = [client EXCEPT !.phase = "idle"]
    /\ UNCHANGED <<dbVars, lease, netVars, reply, brokerVars, histVars>>

(* ob_remote_peer_close, then ob_control_close_connection. *)
ClientClose ==
    /\ client.phase \in {"idle", "waiting", "attempt"}
    /\ client' = [client EXCEPT !.phase = "closed"]
    /\ reply' = [some |-> FALSE, is |-> NoReply]
    /\ closing' = TRUE
    /\ UNCHANGED <<dbVars, lease, net, brokerVars, histVars>>

-----------------------------------------------------------------------------
(* The control server.  Each handler is one SQLite transaction. *)

checkConnection == ~db.revoked /\ account /\ db.device = device

Fail(reason) == [reason |-> reason, session |-> None,
                 generation |-> db.generation]
Granted == [reason |-> "granted", session |-> db.session,
            generation |-> db.generation]

(* The answer is read only by the caller that still waits for it. *)
Answer(m, r) ==
    reply' = IF client.phase = "waiting" /\ client.rpc = m.rpc
             THEN [some |-> TRUE, is |-> r] ELSE reply

Replayed(m) == db.exists /\ m.request = db.request
(* Mutant: a repeated request is given a session of its own. *)
RefusalRemints(m) ==
    IF ~account \/ (~db.exists /\ m.expected # 0)
         \/ (db.exists /\ ~checkConnection)
    THEN "revoked"
    ELSE IF ~lease THEN "broker_offline"
    ELSE IF Replayed(m)
    THEN IF m.expected # db.prior THEN "connection_conflict"
         ELSE "mint"
    ELSE IF \/ db.exists /\ m.expected # db.generation
            \/ \E h \in history : h.request = m.request
    THEN "connection_conflict"
    ELSE "mint"
Refusal(m) ==
    IF ~account \/ (~db.exists /\ m.expected # 0)
         \/ (db.exists /\ ~checkConnection)
    THEN "revoked"
    ELSE IF ~lease THEN "broker_offline"
    ELSE IF Replayed(m)
    THEN IF m.expected # db.prior THEN "connection_conflict"
         ELSE IF db.session \notin live THEN "session_expired"
         ELSE "granted"
    ELSE IF \/ db.exists /\ m.expected # db.generation
            \/ \E h \in history : h.request = m.request
    THEN "connection_conflict"
    ELSE "mint"

(* Mutant: the row of the replaced session stays. *)
MintedKeepsOld(m) ==
    LET g == db.generation + 1
        s == minted + 1
    IN  /\ minted' = s
        /\ live' = live \cup {s}
        /\ db' = [exists |-> TRUE, generation |-> g, session |-> s,
                  request |-> m.request, prior |-> m.expected,
                  device |-> IF db.exists THEN db.device ELSE device,
                  revoked |-> FALSE]
        /\ history' = {h \in history : h.generation >= g - HistoryKeep}
             \cup {[session |-> s, generation |-> g, request |-> m.request]}
Minted(m) ==
    LET g == db.generation + 1
        s == minted + 1
    IN  /\ minted' = s
        /\ live' = (live \ {db.session}) \cup {s}
        /\ db' = [exists |-> TRUE, generation |-> g, session |-> s,
                  request |-> m.request, prior |-> m.expected,
                  device |-> IF db.exists THEN db.device ELSE device,
                  revoked |-> FALSE]
        /\ history' = {h \in history : h.generation >= g - HistoryKeep}
             \cup {[session |-> s, generation |-> g, request |-> m.request]}

(* A 429 quota refusal or a 5xx leaves everything as it was. *)
connectionSession(m) ==
    /\ m \in net
    /\ net' = net \ {m}
    /\ \/ /\ Refusal(m) = "mint"
          /\ Minted(m)
          /\ Answer(m, [reason |-> "granted", session |-> db'.session,
                        generation |-> db'.generation])
          /\ UNCHANGED <<account, device>>
       \/ /\ Refusal(m) = "granted"
          /\ Answer(m, Granted)
          /\ UNCHANGED dbVars
       \/ /\ Refusal(m) \notin {"mint", "granted"}
          /\ Answer(m, Fail(Refusal(m)))
          /\ UNCHANGED dbVars
       \/ /\ Answer(m, Fail("unavailable"))
          /\ UNCHANGED dbVars
    /\ UNCHANGED <<lease, closing, client, brokerVars, histVars>>

(* revokeConnections and the deletion of the lineage's tokens and sessions *)
Revoke ==
    /\ db' = [db EXCEPT !.revoked = db.exists]
    /\ live' = {}
    /\ ended' = (ended \/ db.exists)

deleteConnection ==
    /\ closing
    /\ closing' = FALSE
    /\ IF account THEN Revoke ELSE UNCHANGED <<db, live, ended>>
    /\ UNCHANGED <<history, minted, account, device, lease, net, clientVars,
                   brokerVars, dropped>>

(* DELETE of any session of the lineage, a replaced one included. *)
deleteSessionLineage ==
    /\ account /\ db.exists /\ ~db.revoked
    /\ Revoke
    /\ UNCHANGED <<history, minted, account, device, lease, callVars,
                   brokerVars, dropped>>

(* revokeAuthSession; a broker served under the same login loses its lease. *)
logout ==
    /\ account
    /\ account' = FALSE
    /\ lease' \in {lease, FALSE}
    /\ Revoke
    /\ UNCHANGED <<history, minted, device, callVars, brokerVars, dropped>>

(* offlineBroker, sent when the broker's caller closes it. *)
offlineBroker ==
    /\ lease
    /\ lease' = FALSE
    /\ Revoke
    /\ UNCHANGED <<history, minted, account, device, callVars,
                   brokerVars, dropped>>

(* Leases run out unless heartbeats renew them. *)
SessionExpires ==
    /\ \E s \in live : live' = live \ {s}
    /\ UNCHANGED <<db, history, minted, account, device, lease, callVars,
                   brokerVars, histVars>>
LeaseExpires ==
    /\ lease
    /\ lease' = FALSE
    /\ UNCHANGED <<dbVars, callVars, brokerVars, histVars>>

(* pruneConnections: the tombstone of a revoked connection stays as long   *)
(* as its owner could still replay the request that created it.            *)
(* Mutant: a revoked connection is deleted at once. *)
PrunedTombstone(c) == IF ~account \/ c.revoked THEN NoConn ELSE c
Pruned(c) == IF ~account THEN NoConn ELSE c
pruneConnections ==
    /\ db.exists
    /\ LET retired == [db EXCEPT !.revoked = @ \/ db.device # device]
       IN  /\ db' = Pruned(retired)
           /\ live' = IF retired.revoked \/ ~account THEN {} ELSE live
           /\ history' = IF db'.exists THEN history ELSE {}
           /\ ended' = (ended \/ retired.revoked \/ ~account)
    /\ db' # db \/ live' # live
    /\ UNCHANGED <<minted, account, device, lease, callVars,
                   brokerVars, dropped>>

-----------------------------------------------------------------------------
(* Snapshots pushed to the broker (catchup), FIFO on one WebSocket.  Every *)
(* heartbeat of a session changes expires_at, so that the same sessions    *)
(* are pushed again.                                                       *)
catchup ==
    /\ Len(chan) < MaxPushes
    /\ chan' = Append(chan, {h \in history : h.session \in live})
    /\ UNCHANGED <<dbVars, lease, callVars, held, expired, seen, peer,
                   started, histVars>>

(* The WebSocket is lost with what it carried; the next one starts with a  *)
(* complete snapshot.                                                      *)
SocketLost ==
    /\ chan # <<>>
    /\ chan' = <<>>
    /\ UNCHANGED <<dbVars, lease, callVars, held, expired, seen, peer,
                   started, histVars>>

-----------------------------------------------------------------------------
(* The broker's control worker (ob_server_worker) *)

(* Only the newest of the snapshots read together is kept. *)
ReadSnapshots ==
    /\ chan # <<>>
    /\ \E k \in 1..Len(chan) :
         /\ held' = [some |-> TRUE, is |-> chan[k]]
         /\ chan' = SubSeq(chan, k + 1, Len(chan))
    /\ UNCHANGED <<dbVars, lease, callVars, expired, seen, peer,
                   started, histVars>>

transport_fail(p) ==
    IF p.pc = "none" THEN p ELSE [p EXCEPT !.attempt_stop = TRUE]

(* The lease deadline of the worker passes: every peer is suspended.       *)
server_suspend_peers ==
    /\ ~expired
    /\ expired' = TRUE
    /\ peer' = transport_fail(peer)
    /\ UNCHANGED <<dbVars, lease, callVars, chan, held, seen, started,
                   histVars>>

(* A heartbeat accepted by the server renews both leases. *)
heartbeat ==
    /\ ~lease \/ expired
    /\ lease' = TRUE
    /\ expired' = FALSE
    /\ UNCHANGED <<dbVars, callVars, chan, held, seen, peer, started,
                   histVars>>

(* What one new session of the snapshot does to the logical peer. *)
HandedOver(p, h) ==
    IF h.generation > p.generation /\ h.generation > p.pending_generation
    THEN transport_fail([p EXCEPT !.pending = h.session,
                                  !.pending_generation = h.generation])
    ELSE p
NewPeer(h) ==
    [pc |-> "start", session |-> h.session, generation |-> h.generation,
     pending |-> None, pending_generation |-> 0, attempt_stop |-> FALSE]

(* A session is skipped, and not marked as seen, at the limit on peers or  *)
(* when memory or a thread cannot be had.                                  *)
Present(snap) == {h.session : h \in snap}
(* Mutant: nothing is remembered of the sessions that were started. *)
RememberedNone(s, snap, p) == {}
Remembered(s, snap, p) == {x \in s : x \in Present(snap) \/ x = p.session}
NewSessions == {h \in held.is : h.session \notin seen}
SnapshotDone ==
    /\ held.some /\ ~expired
    /\ held' = [some |-> FALSE, is |-> {}]
    /\ UNCHANGED <<dbVars, lease, callVars, chan, expired, started,
                   histVars>>
server_snapshot ==
    \E h \in NewSessions :
      /\ peer' = IF peer.pc = "none" THEN NewPeer(h) ELSE HandedOver(peer, h)
      /\ seen' = Remembered(seen \cup {h.session}, held.is, peer')
      /\ SnapshotDone
(* Mutant: a session that was skipped is remembered too. *)
SnapshotSkippedSeen ==
    /\ NewSessions = {} \/ peer.pc = "none"
    /\ peer' = peer
    /\ seen' = Remembered(seen \cup Present(held.is), held.is, peer)
    /\ SnapshotDone
SnapshotSkipped ==
    /\ NewSessions = {} \/ peer.pc = "none"
    /\ peer' = peer
    /\ seen' = Remembered(seen, held.is, peer)
    /\ SnapshotDone

(* An idle recovery context that expired, a revoked lineage, or a failure  *)
(* that ends the peer. *)
PeerEnds ==
    /\ peer.pc # "none"
    /\ peer' = NoPeer
    /\ dropped' = dropped \cup ({peer.pending, peer.session} \
                     ({None} \cup {started[i] : i \in 1..Len(started)}))
    /\ UNCHANGED <<dbVars, lease, callVars, chan, held, expired, seen,
                   started, ended>>

(* The broker process was lost or closed; ob_remote_serve may start a new  *)
(* one once the lease has run out, with a rotated device token.            *)
rotateDevice ==
    /\ ~lease /\ account
    /\ device < 2
    /\ device' = device + 1
    /\ lease' = TRUE
    /\ Revoke
    /\ chan' = <<>>
    /\ held' = [some |-> FALSE, is |-> {}]
    /\ expired' = FALSE
    /\ seen' = {}
    /\ peer' = NoPeer
    /\ UNCHANGED <<history, minted, account, callVars, started, dropped>>

-----------------------------------------------------------------------------
(* The coordinator of the broker's logical peer (ob_peer_coordinator) *)

(* server_session releases the lock before the attempt begins. *)
(* Mutant: it waits for attempt_stop too. *)
server_sessionStopped ==
    /\ peer.pc = "wait" /\ peer.pending # None
    /\ ~peer.attempt_stop
    /\ peer' = [peer EXCEPT !.pc = "taken", !.session = peer.pending,
                            !.generation = peer.pending_generation,
                            !.pending = None]
    /\ UNCHANGED <<dbVars, lease, callVars, chan, held, expired, seen,
                   started, histVars>>
server_session ==
    /\ peer.pc = "wait" /\ peer.pending # None
    /\ peer' = [peer EXCEPT !.pc = "taken", !.session = peer.pending,
                            !.generation = peer.pending_generation,
                            !.pending = None]
    /\ UNCHANGED <<dbVars, lease, callVars, chan, held, expired, seen,
                   started, histVars>>

(* attempt_stop is cleared although a newer session may have set it since  *)
(* the lock was released. *)
BeginAttempt ==
    /\ peer.pc \in {"start", "taken"}
    /\ peer' = [peer EXCEPT !.pc = "run", !.attempt_stop = FALSE]
    /\ started' = Append(started, peer.session)
    /\ UNCHANGED <<dbVars, lease, callVars, chan, held, expired, seen,
                   histVars>>

(* The setup worker or the transport fails: the session was replaced or    *)
(* expired, the setup deadline passed, ICE or QUIC was lost.               *)
PeerAttemptFails ==
    /\ peer.pc = "run" /\ ~peer.attempt_stop
    /\ peer' = transport_fail(peer)
    /\ UNCHANGED <<dbVars, lease, callVars, chan, held, expired, seen,
                   started, histVars>>
retire_attempt ==
    /\ peer.pc = "run" /\ peer.attempt_stop
    /\ peer' = [peer EXCEPT !.pc = "wait"]
    /\ UNCHANGED <<dbVars, lease, callVars, chan, held, expired, seen,
                   started, histVars>>

-----------------------------------------------------------------------------

ClientStep ==
    SendRequest \/ RequestTimeout \/ ReadReply \/ ClientAttemptFails
      \/ ClientClose
ServerStep ==
    \/ \E m \in net : connectionSession(m)
    \/ deleteConnection \/ deleteSessionLineage \/ logout \/ offlineBroker
    \/ SessionExpires \/ LeaseExpires \/ pruneConnections
BrokerStep ==
    \/ catchup \/ SocketLost \/ ReadSnapshots \/ server_suspend_peers
    \/ heartbeat \/ server_snapshot \/ SnapshotSkipped \/ PeerEnds
    \/ rotateDevice \/ server_session \/ BeginAttempt \/ PeerAttemptFails
    \/ retire_attempt
Next == ClientStep \/ ServerStep \/ BrokerStep

Spec == Init /\ [][Next]_vars

(***************************************************************************)
(* Fairness.  The broker keeps its control WebSocket connected, reads and  *)
(* applies what is pushed, and its coordinator threads run.  The limit on  *)
(* peers and the loss of sockets do not persist (strong fairness).  An     *)
(* attempt on a session that is no longer live fails: its control channel  *)
(* is answered with session_replaced, session_expired or 401, or the setup *)
(* deadline passes.                                                        *)
(***************************************************************************)
Fairness ==
    /\ WF_vars(catchup) /\ SF_vars(ReadSnapshots) /\ WF_vars(heartbeat)
    /\ SF_vars(server_snapshot)
    /\ WF_vars(server_session) /\ WF_vars(BeginAttempt)
    /\ WF_vars(retire_attempt)
    /\ WF_vars(PeerAttemptFails /\ peer.session \notin live)
FairSpec == Spec /\ Fairness

-----------------------------------------------------------------------------
(* Properties *)

(* At most one session of the lineage is live, the one the connection row  *)
(* names: minting a generation retires the session it replaces, so that    *)
(* the broker is never shown two of them (connectionSession).              *)
SingleLive == live \subseteq {db.session}

(* A lineage that was closed, revoked or retired once never has a live     *)
(* session again, whatever delayed or repeated requests still arrive       *)
(* ("may expire or be replaced without reviving a revoked lineage").       *)
NoResurrection == ended => live = {}

(* The session the client is setting up or using is still the current one  *)
(* of the lineage: no delayed or repeated request of its own, arriving     *)
(* late, replaces it (request replay and the generation check).            *)
ClientHoldsCurrent ==
    client.phase = "attempt" /\ db.exists =>
        /\ client.session = db.session
        /\ client.generation = db.generation

(* The client's retries never run into its own earlier requests: no answer *)
(* it reads is a conflict, and every grant is newer than the last one, as  *)
(* open_session demands of it.                                             *)
NeverConflicts ==
    reply.some =>
        /\ reply.is.reason # "connection_conflict"
        /\ reply.is.reason = "granted" =>
               reply.is.generation > client.generation

(* The broker sets sessions up in the order they were granted and each at  *)
(* most once, over re-pushed snapshots, lost sockets and peers that end    *)
(* and are created again (seen_sessions and the generation check).         *)
StartedInOrder ==
    \A i, j \in 1..Len(started) : i < j => started[i] < started[j]

(* A session handed over to a running peer is taken, or the peer ends: it  *)
(* does not wait for ever, even when the failure that was to interrupt the *)
(* old attempt was cleared between server_session and the reset of         *)
(* attempt_stop.                                                           *)
PendingTaken == (peer.pending # None) ~> (peer.pending = None)

(* A session the client waits in, and that stays live, is tried by the     *)
(* broker, unless it was handed to a peer that then ended: an expired peer *)
(* loses the sessions it had, and none that comes after it.                *)
Waiting == client.phase = "attempt" /\ client.session \in live
Tried ==
    \/ \E i \in 1..Len(started) : started[i] = client.session
    \/ client.session \in dropped
Served == Waiting ~> (Tried \/ ~Waiting)
=============================================================================
