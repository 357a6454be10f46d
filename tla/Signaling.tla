----------------------------- MODULE Signaling -----------------------------
(***************************************************************************)
(* The handshake of one transport session through the control server's     *)
(* mailbox (internal/control/websocket.go, signaling.go) as the two SDK    *)
(* setup workers drive it (sdk/c/remote/peer/control.c, ws_control.inc,    *)
(* sdk/c/remote/ob_ws.c).                                                  *)
(*                                                                         *)
(* ep[s] is the setup worker of a side: its script of signals and RPCs,    *)
(* the cursors tx_sequence and rx_sequence and its WebSocket client.       *)
(* sock[s][i] is the server's wsPeer of the i-th socket that side opened:  *)
(* an owner loop (pc), a writer, what the client sent (in) and what the    *)
(* client has not read (out, from the owner's queue to the network).  A    *)
(* socket the client left may live on and its owner still executes what it *)
(* had received.                                                           *)
(*                                                                         *)
(* Signal k of a side is the number k: its data is built once (control.c   *)
(* send_signal), so that its sequence number identifies it.  Leases,       *)
(* tokens and the lineage are abstracted to "live", which ends once.  A    *)
(* heartbeat that is not answered and an internal error of the server      *)
(* (revoked with a status of 500) are reasons to lose a socket.  While the *)
(* session lives approve and turn are granted: that the server's policy    *)
(* refuses them (403, 503) is left out.                                    *)
(***************************************************************************)
EXTENDS Integers, Sequences

CONSTANTS
    Window,      \* wsMessageWindow, unacknowledged messages per socket
    Exchanges,   \* bound: exchanges of pake(), two in the code
    Relay,       \* the side's relay policy is not NEVER: it asks for TURN
    MaxSockets   \* bound: sockets each side opens; the last one is not lost

Side == {"client", "broker"}
Peer(s) == IF s = "client" THEN "broker" ELSE "client"

ASSUME ConstantsAssumption ==
    /\ Window \in Nat \ {0}
    /\ Exchanges \in Nat
    /\ Relay \in [Side -> BOOLEAN]
    /\ MaxSockets \in [Side -> Nat \ {0}]

VARIABLES
    live,      \* session, tokens and lineage are valid in the database
    approved,  \* sessions.peer_authenticated, 0 or 1
    mail,      \* messages: how many of each side are stored
    ep,        \* setup worker of each side
    sock       \* the sockets each side has opened, as the server has them

vars == <<live, approved, mail, ep, sock>>

None == -1

-----------------------------------------------------------------------------
(* The script of ob_setup_worker: capabilities, pake, establish_ice. *)

Exchange(n) == [i \in 1..2 * n |-> IF i % 2 = 1 THEN "send" ELSE "recv"]
Approval(s) == IF s = "broker" THEN <<"approve">> ELSE <<"approved">>
Turn(s) == IF Relay[s] THEN <<"turn">> ELSE <<>>
Script(s) == <<"caps">> \o Exchange(Exchanges) \o Approval(s) \o Turn(s)
               \o Exchange(1)
OpOf(s, e) == IF e.pc <= Len(Script(s)) THEN Script(s)[e.pc] ELSE "done"
Op(s) == OpOf(s, ep[s])
Rpcs == {"send", "approve", "turn"}

Msg == [kind : {"message"}, n : Nat]
       \cup [kind : {"caps"}, n : 0..1]
       \cup [kind : {"result", "revoked"}, n : {200, 400, 404, 409, 500}]
Input == [kind : {"ack"} \cup Rpcs, n : Nat]

Endpoint == [pc : Nat, conn : Nat, tx : Nat, rx : Nat, inbox : Seq(Nat),
             rpc : {"none", "sent"}, lease : BOOLEAN, approved : 0..1,
             end : {"no", "refused", "protocol", "lost"}]
Socket == [pc : {"catchup", "select", "off"}, wake : BOOLEAN,
           acked : Nat, queued : Nat, sent : Nat, writing : Nat,
           snap : {None, 0, 1}, in : Seq(Input), out : Seq(Msg)]

(* Every variable has its type. *)
TypeOK ==
    /\ live \in BOOLEAN
    /\ approved \in 0..1
    /\ mail \in [Side -> Nat]
    /\ ep \in [Side -> Endpoint]
    /\ sock \in [Side -> Seq(Socket)]

-----------------------------------------------------------------------------
(* Helpers of the setup worker *)

Up(s) == ep[s].conn # 0
Conn(s) == sock[s][ep[s].conn]
Running(s) == ep[s].end = "no"
MayLose(s) == Len(sock[s]) < MaxSockets[s]

Fresh == [pc |-> 1, conn |-> 0, tx |-> 0, rx |-> 0, inbox |-> <<>>,
          rpc |-> "none", lease |-> FALSE, approved |-> 0, end |-> "no"]

(* ob_ws_disconnect forgets the queue and the pending request ids; a lost  *)
(* TURN request is not repeated (peer_rpc).                                *)
Disconnected(e, op) ==
    [e EXCEPT !.conn = 0, !.inbox = <<>>, !.rpc = "none",
              !.end = IF op = "turn" /\ e.rpc = "sent" THEN "lost" ELSE @]
Ended(why) == [Fresh EXCEPT !.end = why]
Leaves(s, e) == ep' = [ep EXCEPT ![s] = e]

(* capabilities: the worker goes on once the lease is known or the         *)
(* approval was pushed.                                                    *)
Settled(s, e) ==
    [e EXCEPT !.pc = IF \/ OpOf(s, e) = "caps" /\ e.lease
                        \/ OpOf(s, e) = "approved" /\ e.lease /\ e.approved = 1
                     THEN @ + 1 ELSE @]

(* A frame the worker hands to its socket. *)
Feed(s, frame) ==
    sock' = [sock EXCEPT ![s][ep[s].conn].in = Append(@, frame)]

-----------------------------------------------------------------------------
(* The server's socket *)

(* websocketConnect: registered before the first snapshot is read. *)
(* Mutant: the acknowledged cursor does not start at the client's. *)
NewSocketJammed(after) ==
    [pc |-> "catchup", wake |-> FALSE, acked |-> 0, queued |-> after,
     sent |-> after, writing |-> 0, snap |-> None, in |-> <<>>, out |-> <<>>]
NewSocket(after) ==
    [pc |-> "catchup", wake |-> FALSE, acked |-> after, queued |-> after,
     sent |-> after, writing |-> 0, snap |-> None, in |-> <<>>, out |-> <<>>]

(* stop, once reader, writer and owner have joined. *)
Off(out) == [NewSocket(0) EXCEPT !.pc = "off", !.out = out]

(* wake: a coalesced, non-blocking notification of the owner loops.  The   *)
(* catch-up of a socket its client left pushes what nobody reads and is    *)
(* left out.                                                               *)
Wake(k) == IF k.pc = "off" THEN k ELSE [k EXCEPT !.wake = TRUE]
Woken(q) ==
    [s \in Side |-> [i \in DOMAIN q[s] |->
       IF ep[s].conn = i THEN Wake(q[s][i]) ELSE q[s][i]]]

(* revoked: the writer drops the pushes it has not written yet (those      *)
(* after the first w frames) and keeps results; after the last frame it    *)
(* stops the socket.  A worker waits for the answer to a request before it *)
(* makes the next one, so that at most one result is kept.                 *)
IsResult(m) == m.kind = "result"
Results(q) ==
    LET at == {j \in DOMAIN q : IsResult(q[j])}
    IN  IF at = {} THEN <<>> ELSE <<q[CHOOSE j \in at : TRUE]>>
Revoked(k, status, w) ==
    Off(Append(SubSeq(k.out, 1, w) \o Results(SubSeq(k.out, w + 1, Len(k.out))),
               [kind |-> "revoked", n |-> status]))

(* catchup: push a changed snapshot, then stored messages up to the window. *)
Snapshot(k) ==
    IF k.snap = approved THEN <<>> ELSE <<[kind |-> "caps", n |-> approved]>>
Reach(k, stored) == IF stored < k.acked + Window THEN stored ELSE k.acked + Window
Catchup(k, stored) ==
    LET top == IF Reach(k, stored) > k.queued THEN Reach(k, stored) ELSE k.queued
    IN  [k EXCEPT !.pc = "select", !.snap = approved, !.queued = top,
                  !.out = @ \o Snapshot(k)
                            \o [j \in 1..(top - k.queued) |->
                                  [kind |-> "message", n |-> k.queued + j]]]

(* run on an ACK.  The check takes sentMu, which the writer holds from the *)
(* network write until it has recorded what it sent.                       *)
(* Mutant: the ACK is checked without the lock. *)
LockFreeAlways(k) == TRUE
LockFree(k) == k.writing = 0
Advanced(k, n) == [k EXCEPT !.acked = IF n > @ THEN n ELSE @]

Owner(s, i, pcs) == i \in DOMAIN sock[s] /\ sock[s][i].pc \in pcs

(* What a socket writes after its client left it is not read by anyone. *)
Unread(k) == [k EXCEPT !.out = <<>>, !.snap = None, !.wake = FALSE]
Seen(s, i, k) == IF ep[s].conn = i THEN k ELSE Unread(k)
Becomes(s, i, k) == sock' = [sock EXCEPT ![s][i] = Seen(s, i, k)]
Revokes(s, i, k, status) ==
    \E w \in 0..Len(k.out) : Becomes(s, i, Revoked(k, status, w))
Database == <<live, approved, mail>>

(* The initial catch-up, or the one after a wake-up. *)
OwnerCatchup(s, i) ==
    LET k == [sock[s][i] EXCEPT !.wake = @ /\ sock[s][i].pc = "catchup"]
    IN  /\ \/ Owner(s, i, {"catchup"})
           \/ Owner(s, i, {"select"}) /\ sock[s][i].wake
        /\ IF live THEN Becomes(s, i, Catchup(k, mail[Peer(s)]))
           ELSE Revokes(s, i, k, 404)
        /\ UNCHANGED <<Database, ep>>

(* The revalidation tick. *)
(* Mutant: an idle socket is not revalidated. *)
StaleNever(k) == FALSE
Stale(k) == ~live
OwnerTick(s, i) ==
    /\ Owner(s, i, {"select"})
    /\ Stale(sock[s][i])
    /\ Revokes(s, i, sock[s][i], 404)
    /\ UNCHANGED <<Database, ep>>

(* run on an input: an invalid scope ends the socket; an ACK opens the     *)
(* window, but not beyond what was written.                                *)
OwnerAck(s, i) ==
    LET k == [sock[s][i] EXCEPT !.in = Tail(@)]
        m == Head(sock[s][i].in)
    IN  /\ Owner(s, i, {"select"}) /\ sock[s][i].in # <<>>
        /\ m.kind = "ack"
        /\ \/ ~live /\ Revokes(s, i, k, 404)
           \/ live /\ LockFree(k) /\ m.n > k.sent /\ Revokes(s, i, k, 400)
           \/ /\ live /\ LockFree(k) /\ m.n <= k.sent
              /\ Becomes(s, i, Catchup(Advanced(k, m.n), mail[Peer(s)]))
        /\ UNCHANGED <<Database, ep>>

(* sendMessage stores the next sequence and takes an older one for a       *)
(* duplicate; sendMessage and approveSession notify after their commit.    *)
SendStatus(s, n) == IF n <= mail[s] + 1 THEN 200 ELSE 409
(* Mutant: sendMessage does not notify. *)
NotifiedNot(q, kind) == IF kind = "approve" THEN Woken(q) ELSE q
Notified(q, kind) == IF kind \in {"send", "approve"} THEN Woken(q) ELSE q
OwnerRpc(s, i) ==
    LET m == Head(sock[s][i].in)
        k == [sock[s][i] EXCEPT !.in = Tail(@)]
        status == IF m.kind = "send" THEN SendStatus(s, m.n) ELSE 200
        new == status = 200 /\ (m.kind = "send" => m.n > mail[s])
        r == [k EXCEPT !.out = Append(@, [kind |-> "result", n |-> status])]
        q == [sock EXCEPT ![s][i] = Seen(s, i, r)]
    IN  /\ Owner(s, i, {"select"}) /\ sock[s][i].in # <<>>
        /\ m.kind \in Rpcs
        /\ IF ~live
           THEN Revokes(s, i, k, 404) /\ UNCHANGED <<mail, approved>>
           ELSE /\ mail' = IF new /\ m.kind = "send"
                           THEN [mail EXCEPT ![s] = m.n] ELSE mail
                /\ approved' = IF m.kind = "approve" THEN 1 ELSE approved
                /\ sock' = IF new THEN Notified(q, m.kind) ELSE q
        /\ UNCHANGED <<live, ep>>

(* writer: a message is on the network before it counts as sent. *)
WriterDone(s, i) ==
    LET k == sock[s][i]
    IN  /\ i \in DOMAIN sock[s] /\ k.writing # 0
        /\ Becomes(s, i, [k EXCEPT !.sent = k.writing, !.writing = 0])
        /\ UNCHANGED <<Database, ep>>

(* The reader or the writer meets a closed connection: the client left, or *)
(* the network failed.                                                     *)
SocketStops(s, i) ==
    /\ Owner(s, i, {"catchup", "select"})
    /\ ep[s].conn # i \/ MayLose(s)
    /\ Becomes(s, i, Off(<<>>))
    /\ UNCHANGED <<Database, ep>>

-----------------------------------------------------------------------------
(* The setup worker *)

(* peer_tick connects with its consumed cursor.  A scope that is gone ends *)
(* the attempt; a cursor beyond the stored history is refused and tried    *)
(* again.                                                                  *)
Connect(s) ==
    /\ Running(s) /\ ~Up(s)
    /\ Len(sock[s]) < MaxSockets[s]
    /\ \/ /\ live /\ ep[s].rx <= mail[Peer(s)]
          /\ sock' = [sock EXCEPT ![s] = Append(@, NewSocket(ep[s].rx))]
          /\ Leaves(s, [ep[s] EXCEPT !.conn = Len(sock[s]) + 1])
       \/ /\ ~live
          /\ Leaves(s, Ended("refused"))
          /\ UNCHANGED sock
    /\ UNCHANGED Database

(* A frame arrives (ob_ws_pump) and peer_tick handles what it may.  The    *)
(* writer is still holding sentMu when a message is read at once.          *)
Taken(k) ==
    [k EXCEPT !.out = Tail(@),
              !.writing = IF Head(k.out).kind = "message" /\ k.pc # "off"
                          THEN Head(k.out).n ELSE @]
Pump(s) ==
    LET m == Head(Conn(s).out)
        e == ep[s]
    IN  /\ Running(s) /\ Up(s) /\ Conn(s).out # <<>>
        /\ m.kind = "message" => Conn(s).writing = 0
        /\ Becomes(s, e.conn, Taken(Conn(s)))
        /\ Leaves(s,
             CASE m.kind = "revoked" -> Ended("refused")
               [] m.kind = "caps" ->
                    Settled(s, [e EXCEPT !.lease = TRUE, !.approved = m.n])
               [] m.kind = "message" -> [e EXCEPT !.inbox = Append(@, m.n)]
               [] m.kind = "result" /\ m.n # 200 -> Ended("refused")
               [] m.kind = "result" /\ m.n = 200 ->
                    Settled(s, [e EXCEPT !.rpc = "none", !.pc = @ + 1,
                                  !.tx = IF Op(s) = "send" THEN @ + 1 ELSE @]))
        /\ UNCHANGED Database

(* peer_rpc: the request is sent on the current socket, again after a loss. *)
BeginRpc(s) ==
    /\ Running(s) /\ Up(s) /\ Op(s) \in Rpcs /\ ep[s].rpc = "none"
    /\ Leaves(s, [ep[s] EXCEPT !.rpc = "sent"])
    /\ IF Conn(s).pc = "off" THEN UNCHANGED sock
       ELSE Feed(s, [kind |-> Op(s), n |-> ep[s].tx + 1])
    /\ UNCHANGED Database

(* receive_signal and ob_decode_signal: consume exactly the next signal,   *)
(* then acknowledge what was consumed.  The loop after the setup accepts   *)
(* only what was already consumed.                                         *)
Receive(s) ==
    LET m == Head(ep[s].inbox)
        e == [ep[s] EXCEPT !.inbox = Tail(@)]
        next == Op(s) = "recv" /\ m = e.rx + 1
    IN  /\ Running(s) /\ Op(s) \in {"recv", "done"} /\ ep[s].inbox # <<>>
        /\ Leaves(s, IF next
                      THEN Settled(s, [e EXCEPT !.rx = m, !.pc = @ + 1])
                      ELSE IF m <= e.rx THEN e ELSE Ended("protocol"))
        /\ IF next /\ Conn(s).pc # "off"
           THEN Feed(s, [kind |-> "ack", n |-> m]) ELSE UNCHANGED sock
        /\ UNCHANGED Database

(* The socket is lost: closed by the server, or by the network, a timeout  *)
(* of a heartbeat or a failed send.                                        *)
SocketLost(s) ==
    /\ Running(s) /\ Up(s)
    /\ MayLose(s) \/ (Conn(s).pc = "off" /\ Conn(s).out = <<>>)
    /\ Leaves(s, Disconnected(ep[s], Op(s)))
    /\ sock' = [sock EXCEPT ![s][ep[s].conn] = Unread(@)]
    /\ UNCHANGED Database

-----------------------------------------------------------------------------
(* The session ends in the database: with a notification (revokeSession,   *)
(* revokeBroker, maintenance), or silently when a lease or token expires.  *)
Revoke ==
    /\ live /\ live' = FALSE
    /\ sock' = Woken(sock)
    /\ UNCHANGED <<approved, mail, ep>>
Expire ==
    /\ live /\ live' = FALSE
    /\ UNCHANGED <<approved, mail, ep, sock>>

Init ==
    /\ live = TRUE
    /\ approved = 0
    /\ mail = [s \in Side |-> 0]
    /\ ep = [s \in Side |-> Fresh]
    /\ sock = [s \in Side |-> <<>>]

Worker(s) ==
    \/ Connect(s) \/ Pump(s) \/ BeginRpc(s) \/ Receive(s)
Server(s, i) ==
    \/ OwnerCatchup(s, i) \/ OwnerTick(s, i)
    \/ OwnerAck(s, i) \/ OwnerRpc(s, i)
Next ==
    \/ Revoke \/ Expire
    \/ \E s \in Side :
         \/ Worker(s) \/ SocketLost(s)
         \/ \E i \in 1..MaxSockets[s] :
              \/ Server(s, i)
              \/ WriterDone(s, i) \/ SocketStops(s, i)

Spec == Init /\ [][Next]_vars

(* Fairness: as long as a setup worker or a goroutine of the server has    *)
(* something to do, or one end of a socket is gone and the other has to    *)
(* notice it (the ping and write deadlines), some such step is taken.      *)
(* Nothing is assumed of losses and of the end of the session.             *)
Closed(s) == Up(s) /\ Conn(s).pc = "off" /\ Conn(s).out = <<>> /\ SocketLost(s)
Gone(s, i) == ep[s].conn # i /\ SocketStops(s, i)
Progress ==
    \E s \in Side :
        \/ Worker(s) \/ Closed(s)
        \/ \E i \in 1..MaxSockets[s] :
             Server(s, i) \/ WriterDone(s, i) \/ Gone(s, i)
FairSpec == Spec /\ WF_vars(Progress)

-----------------------------------------------------------------------------
(* Properties *)

(* The server never turns an honest worker away while its session is live, *)
(* and no worker meets a signal out of order: retried sends, cursors of an *)
(* earlier socket, fast ACKs and sockets that live on never look like a    *)
(* conflict, a false ACK, a gap or an unexpected signal.                   *)
NoSpuriousEnd ==
    \A s \in Side :
        /\ ep[s].end # "protocol"
        /\ ep[s].end = "refused" => ~live

(* The handshake completes on both sides unless an attempt is stopped, a   *)
(* TURN answer is lost or the session ends: no wake-up, approval or place  *)
(* in the window is lost, whichever sockets were.                          *)
HandshakeCompletes ==
    <>(\/ \A s \in Side : Op(s) = "done"
       \/ \E s \in Side : ~Running(s)
       \/ ~live)

(* Once the session has ended, every socket the server holds for it ends,  *)
(* also when nobody notified it and its client is silent.                  *)
RevokedSocketsEnd ==
    ~live ~> \A s \in Side : \A i \in DOMAIN sock[s] : sock[s][i].pc = "off"
=============================================================================
