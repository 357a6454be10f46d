# A TLA+ verification project for oheco-broker

oheco-broker lets a client reach TCP and UDP services behind a broker over a
peer-to-peer QUIC connection.  A Go control server keeps accounts, leases,
sessions and TURN relays; a C library (`src/sdk/c/remote`) runs in the client
and in the broker process and carries the traffic.  The hard part of the
system is **surviving failure**: a transport that breaks is replaced without
the application noticing, a login is rotated while processes crash, and a
session is renewed while its requests are lost or late.  This project models
those mechanisms from the source, checks them with TLC on small instances and
proves their main safety properties with TLAPS for every value of the
constants.

## 1. Inventory of the system

| Part | State it keeps | Operations | Talks to |
|---|---|---|---|
| TCP flow, wire version 2 (`mapping_v2.inc`, `mapping_recovery.inc`, `mapping.c`) | per flow: phase, replay buffer and `tx_*` offsets, receive buffer and `rx_*` offsets, suspension and grace deadline | open, data, ACK, FIN, RESUME and its answer, retire, suspend, expire | the other side's flow over a QUIC stream; the application's socket |
| Retained recovery secret (`crypto.c`, `control.c`, `ob_remote.c`) | `resume_key`, the attempt's fresh key, `ever_ready` | PAKE, exchange of proofs, mark ready | the flows: it decides whether they are resumed or dropped |
| Connection lineage (`connections.go`) | connection row (generation, session, request), session history, live sessions | create, renew, replay, close, revoke, expire, prune | client RPCs; snapshots pushed to the broker |
| Client session renewal (`coordinator.c`, `control.c`) | held session, generation, open request | send, time out, retry, read the answer, close | connection lineage |
| Broker control worker and hand-over (`ws_server.inc`, `coordinator.c`) | `seen_sessions`, peers, pending session | apply snapshot, hand over, start or retire an attempt | server pushes; coordinator threads |
| Peer recovery machine (`ob_remote.c`, `recovery.c`, `coordinator.c`, `engine.c`, `control.c`) | transport objects and who owns them, attempt, retry budget, pause, grace deadline, reported state | begin, set up, become ready, fail, retire, retry, pause, reconnect by hand, change policy, close | flows, sessions; the application's callback |
| Login rotation, server (`auth_refresh.go`, `accounts.go`) | auth session: generation, refresh secret, predecessor with its receipt; access tokens | issue, refresh, replay, logout, revoke, expire | clients' refresh requests |
| Login rotation, clients (`ob_auth.c`, `auth.go`, `auth_store.go`, `tenant.go`, `admin.go`) | profile file, journal of the attempt, lock, credentials in memory | begin, prepare, send, commit, clean up; commands that replace the profile | other processes through the files; the server |
| Signalling mailbox and push (`signaling.go`, `websocket.go`; `control.c`, `ws_control.inc`, `ob_ws.c`) | stored signals, approval; per socket: cursors, window, wake-up, queues; per setup worker: `tx_sequence`, `rx_sequence`, pending request | connect, post, push, acknowledge, approve, request TURN, revoke, reconnect | both setup workers |
| TURN relays (`turn.go`) | credentials with a gate and a timer, relay sockets with a pin, client map, tenant counters | mint, renew, expire, allocate, forward, delete, revoke, close | Pion's request reader, packet handlers and lifetime timers; authorization cache |
| TURN caches and usage (`turn_authorization_cache.go`, `turn_quota_cache.go`, `control.go`) | cached authorizations, cached totals, pending usage | look up, read, refresh, invalidate, flush | database; every relayed packet asks |
| UDP mappings (`mapping.c`) | associations, fragments | send, reassemble, expire | QUIC datagrams |
| TLS provider, runner, discovery, CLI, bindings | certificates, process files | reload, start, stop | files |

How they interact in one recovery: a transport fails; both sides *suspend*
their flows and keep the recovery secret.  The client's coordinator asks the
server for a session of the same connection (a renewed *generation* if the old
one has ended).  The server commits it and pushes a snapshot; the broker's
control worker hands the session to the peer it already runs, whose attempt
starts.  Both ends run the PAKE again and exchange proofs of the *retained*
secret; if the proofs match, flows are resumed, otherwise dropped.  All calls
to the server carry an access token that the login rotation keeps fresh.

What is hard, and where it is listed: `PROJECT.json` ("hazards") names each
hazard with its line and the properties that would notice it going wrong.  In
short: frames and RESUMEs that refer to a previous transport; retirement
whose last ACK is in flight; two sides that disagree about which attempt
succeeded; RPCs that execute after the caller gave up; pushed snapshots that
list old sessions; a wake-up lost between an unlock and a reset; transport
objects destroyed while another thread uses them; a datagram written after
its credential was revoked; sockets that live on after
their client left; a process that dies between two file operations; several
processes rotating one login.

## 2. Modules

| Module | Models | Proofs | TLC |
|---|---|---|---|
| `TcpStream` | abstract: what one direction of a flow promises the two applications | | implemented by `FlowResume` |
| `FlowResume` | one TCP flow on both sides, over any number of transports | `FlowResumeProofs` | `MCFlowResume` |
| `PeerRecovery` | the four threads of one peer, its attempts and their budget | `PeerRecoveryProofs` | `MCPeerRecovery` |
| `Signaling` | the handshake of a session through the server's mailbox and its sockets | `SignalingProofs` | `MCSignaling` |
| `ResumeContext` | which recovery key each side retains, and when proofs match | `ResumeContextProofs` | `MCResumeContext` |
| `Connection` | lineage on the server, the client that renews it and the broker that serves it | `ConnectionProofs` | `MCConnection` |
| `AuthRefresh` | rotation of one account's logins by several processes sharing a profile | `AuthRefreshProofs` | `MCAuthRefresh` |
| `TurnCache` | the cached authorizations every relayed packet asks for, against the database and its revocations | `TurnCacheProofs` | `MCTurnCache` |
| `TurnRelay` | credentials, relays, forwarding, revocation and shutdown of the TURN server | `TurnRelayProofs` | `MCTurnRelay` |

The modules meet at small interfaces: `FlowResume` takes "the proofs match"
(`context`) as a nondeterministic outcome of an attempt, which
`ResumeContext` models; `ResumeContext` takes "a new attempt begins" from
the coordinator, which `PeerRecovery` models; `PeerRecovery` takes the session
of an attempt from `Connection` and the outcome of its setup from
`Signaling`; `Signaling` takes "the session is live" and `Connection` "the
account is authorized", which `Connection` and `AuthRefresh` model from the
other end; `TurnRelay` asks `authorize` and relies on what `TurnCache` shows,
that no answer is positive once a revocation has been invalidated.
Definitions keep the names of the functions they translate; `PROJECT.json`
("map") gives the lines of each one.  Definitions under a comment that starts
with "Mutant" are altered copies used to show that the properties can fail;
the specifications do not use them.

### FlowResume

*State.*  `ctl[s]`, `snd[s]`, `rcv[s]` are the fields of `struct ob_flow`
on side `s`; `wire[s]` is the QUIC stream from `s`; `sock[s]` is what side
`s` wrote to its real socket.  The k-th byte an application writes is the
number k, so loss, duplication and reordering are all visible.

*Actions.*  `m_local_flow` (accept and open), `ReadOpen`,
`TargetConnected`, `m_reply_flush`, `ReadOpenAck`; `m_v2_read` and
`m_v2_tick` (the data path, the second with socket input, socket output, ACK,
DATA, FIN and retirement in the order of the code); `TransportFail` (with the
suspension of the flow), `NewAttempt`, `ob_peer_mark_ready`, `ReadResume`,
`ReadResumeAck`, `ReadReset`, `ob_mapping_recovery_tick` (expiry) and the
clock; `ob_remote_map_close` and `SocketError`.

*Abstractions.*  A partial QUIC or socket write is a nondeterministic number
of bytes.  A reset may overtake any suffix of the frames in flight, as a QUIC
stream reset does.  The broker becomes ready first, because the client waits
for its proof reply.  Deadlines count down in ticks, separately per side,
since the two clocks are unrelated.  What a RESUME reply says is computed when
it is flushed, as in the code.

*What it implements.*  `TcpStream` states what an application may rely on for
one direction: a byte stream with an end, of which a suffix may be missing
once a side gave the flow up, and which is reported as finished only when the
far socket has all of it and its end.  `FlowResume` instantiates it twice,
`Up` from the accepted socket to the target and `Down` back, and `IsStream`
says that every step of the detailed model, frames, outages and RESUMEs
included, is a step of both streams or changes neither.  The mapping is
direct: bytes taken and given are the sockets of the model, `writing` and
`reading` are "this side's flow is not dead", and `finished` is the clean
retirement of `m_v2_tick`.

### PeerRecovery

*State.*  `p` holds the fields of `struct ob_remote_peer` the threads share
under its mutex; `coord`, `setup`, `io` and `caller` are the places of the
coordinator, the setup worker, the I/O owner and the application (for a
broker's peer: the control worker); `up` is a history variable, the age of
the connection that is ready.  A critical section is one step; what a thread
does between an unlock and the next lock may be interrupted by any other.
*Actions.*  Coordinator: `Deliver`, `Notify` (state callback), `schedule`
(budget, pause, manual request), `server_session`, `BeginAttempt`,
`open_session`, `StableReset`, `LeaveLoop`, `JoinSetup`, `AwaitDetach`,
`DestroyIce`, `AfterRetire`, `CoordinatorEnds`.  Setup worker: `CreateIce`,
`OfferTransport`, `SetupFails`, `SetupUnready` / `SetupInTime` /
`SetupExpires` (the two halves of `alive`), `SetupCancelled`.  I/O owner:
`engine_init`, `DetachIdle`, `ob_peer_mark_ready`, `EngineFails`,
`EngineExpires`, `OwnerEnds`.  Caller: connect with its timeout, reconnect,
policy, callback, close and the joins of `ob_peer_destroy`; on a broker
`server_snapshot`, `server_suspend_peers`, `IdleExpires`, `ServerStops`.
`Tick`.

*Abstractions.*  Every outcome of the network and of the control server is
nondeterministic.  Times are ticks that count up or down to `Horizon`, beyond
which no comparison of the code changes.  The back-off of an attempt is any
delay up to `max_delay`.  The flows of a peer are in `FlowResume`: when the
grace of a context has run out they have ended, so `IdleExpired` does not count
them.

### Signaling

*State.*  `live`, `approved` and `mail` are the session's rows.  `ep[s]` is the
setup worker of a side with its script (capabilities, exchanges of the PAKE,
approval, TURN, exchange of ICE descriptions), its cursors, the messages it
has not consumed and its pending request.  `sock[s][i]` is the server's
`wsPeer` for the i-th socket of that side: place of the owner loop, wake-up
flag, `acked`, `queued`, `sent`, the message whose write is not yet recorded,
inputs and outputs.
*Actions.*  Server: `OwnerCatchup`, `OwnerTick` (revalidation), `OwnerAck`,
`OwnerRpc` (send, approve, turn), `WriterDone`, `SocketStops`.  Worker:
`Connect`, `Pump`, `BeginRpc`, `Receive`, `SocketLost`.  `Revoke` ends the
session with a notification, `Expire` without.

*Abstractions.*  A socket is in order and lossless until it is lost; the
client may leave it while the server still executes what it had received.
Leases, tokens and the lineage are one flag that ends once.  A live session is
granted what it asks for; refusals by policy (403, 503) are left out.  In the
code a refused `approve` is repeated without relaying if the mode is AUTO, a
refused `turn` is ignored unless the mode is FORCE, and every other refusal ends
the attempt.
What is written to a socket nobody reads any more is not kept.  When a revoked
socket's writer drops what it has not written, it keeps the answers to requests
(`Results`); a worker waits for each answer, so there is at most one.

### ResumeContext

*State.*  Per role: the stage of the current attempt, `resume_key`, the key
of this attempt's PAKE (`fresh`), `ever_ready`, and what the comparison of
proofs concluded (`available`).  Keys are numbered by attempt; 0 is no key.
*Actions.*  `NewAttempt`, `pake`, `establish_ice` (with the exchange of
proofs), `ob_peer_mark_ready`, `OpenFlow`, `CloseFlow`, `TransportFail`,
`ServerRestart`.  The cryptography (PAKE, HMAC) is taken as sound: proofs
match exactly if the keys are equal.

### Connection

*State.*  `db`, `history`, `live`, `account`, `device` are the rows of the
server; `net` holds requests that may still execute, `reply` the answer;
`client` is the coordinator of the client; `chan`, `held`, `seen`, `peer`
are the broker's socket, the snapshot it read, `seen_sessions` and its peer.
*Actions.*  Client: `SendRequest`, `RequestTimeout`, `ReadReply`,
`ClientAttemptFails`, `ClientClose`.  Server, one transaction each:
`connectionSession`, `deleteConnection`, `deleteSessionLineage`, `logout`,
`offlineBroker`, `SessionExpires`, `LeaseExpires`, `pruneConnections`,
`rotateDevice`.  Broker: `catchup`, `SocketLost`, `ReadSnapshots`,
`heartbeat`, `server_suspend_peers`, `server_snapshot`, `SnapshotSkipped`,
`server_session`, `BeginAttempt`, `PeerAttemptFails`, `retire_attempt`,
`PeerEnds`.

*Abstractions.*  A request is the pair of its request id and token.  `live`
holds the sessions with an unexpired, unrevoked row.  Session ids are numbered
in the order in which they are made.  Answers 429 and 5xx are
"unavailable" (retried); 401, 403 and 404 are "revoked" (final).  Requests
stay in `net` until they execute, so they may arrive after the client gave
up.  A heartbeat changes `expires_at`, so the same sessions are pushed again.

### AuthRefresh

*State.*  `auth[s]` and `tokens` are rows of the server; `profile` and
`journal` the two files; `lock` the file lock; `proc[p]` the credentials in
memory and the program counter of each process; `cli` that of a command that
logs in or out.  An attempt's request id and its two new secrets are one
number, 0 standing for the secrets of the login answer.
*Actions.*  Process: `newClient`, `Begin`, `Prepare`, `Send`, `Commit`,
`removePrivatePending`, `End`, `Crash`.  Server: `refreshAuth`,
`deleteAuthSession`, `updateAccount`, `TokenExpires`, `RefreshExpires`,
`maintenance`.  Commands: `registration`, `updateAccountCredentials`,
`logoutAuth`, `saveConfig`, `CliRemovePending`, `CliStops`.

*Abstractions.*  Requests stay in `sent` for ever (a retry is identical, so
this covers late and repeated requests); an answer reaches only the process
that waits for it, and may be lost.  Errors in `Begin` change nothing.
`End` covers "not due", cancellation, timeout, refusal and a failing file
operation.  Each file write is atomic (write, fsync, rename); the lock is
released when a process dies.  The refreshes a command performs itself under
the lock it holds are those of one of the processes.

### TurnCache

*State.*  `db` is the authority of each key (tenant, broker, session), the
time until which the joined query would allow relaying, 0 for "not allowed";
`seen` remembers when a withdrawn authority last held and `cut` the keys whose
revocation has been committed *and* invalidated.  `entries`, `coldRead`,
`missMu` and `closed` are the fields of the cache, `call[t]` a goroutine in
`authorize` and `worker` the one in `refresh`.
*Actions.*  Database: `Grant` (heartbeat, approval), `CommitRevocation` and
`Invalidate` (the two halves of every handler that revokes), `logout` (which
has only the first half).  Caller: `authorize`, `LookAgain` (under `missMu`),
`StartRead`, `ReadAnswer`, `FinishRead`, `Return`.  Worker: `refresh`,
`RefreshItem`, `RefreshRead`, `RefreshApply`, `RefreshRevoke`.  `Close`,
`Tick`.

*Abstractions.*  A read is one statement at one moment and may fail, which
counts as "not allowed".  `lastUsed` is left out, so any entry may be the
oldest or idle.  The worker's candidates are the keys whose entry is still the
same object: an entry that leaves the map leaves `worker.keys`.

### TurnRelay

*State.*  `cred` and `tenant` are the credentials of one session and the
counters of its tenant; `relay`, `clients` and `closed` are the relay sockets,
the map from client addresses and the flag of the manager, `table` Pion's own
table.  `reader`, `handler[r]`, `remover[t]` and `renewer` are the places of
Pion's request reader, of the packet handler of each relay, of the threads that
remove credentials (expiry callbacks, `revokeSession`, `close`) and of a
heartbeat's `renewSession`.  A gate is not a variable: who keeps it is told by
those places (`Reads`, `Writes`).  Likewise `once` is how far `Close` of a
relay is, `pinned` its `incoming` mutex with `pending`.
*Actions.*  Credentials: `MintChecked`, `mint`, `RenewLock`, `RenewCheck`,
`renewSession`, `TimerFires`.  Reader: `auth` (with a Refresh request of
lifetime 0), `AllocatePacketConn`, `allocationCreated`, `channelCreated`,
`RelayWriteTo`, `RelayWritten`, `RelayReported`, `Park`.  Handler: `ReadFrom`,
`ListenerWriteTo`, `writePacket`, `Finish`, `ReadFails`.  Relay: `Drain`,
`CloseLater`, `allocationDeleted`, `LifetimeEnds`.  Removal: `Revoke`, `close`,
`quiesce`, `revoke`, `revokeCredential` (with `expireCredential`),
`removeCredential`, `Close`, `NextPhase`.  `Tick`.

*Abstractions.*  Pion deletes by client address, so the handler of an old relay
may delete the allocation that replaced it; this is kept.  Its requests are
handled one at a time.  A write may fail, time out or be refused by the byte
rate.  Refused requests, and renewals that would not extend a lease, change
nothing and are left out.  The clock runs while some lease may still end.

## 3. What TLC checks

| Run | Bounds | Shows |
|---|---|---|
| `flow` | 2 bytes up, none down, buffers of 2, two frames in flight, two transport failures | `IsStream` (refinement of `TcpStream` in both directions), `NoLoss`, `NoProtocolError`, `ResumeAgrees`, `OneTargetConnection`, also when a RESUME is itself cut off |
| `flow_live` | 1 byte each way, one failure | `ResumeConfirmed` without any clock; with running clocks `Settles`, `EventuallyDelivered`, `BothEnd` |
| `context` | four attempts, one broker restart | `ClientContextIsShared`, `AgreeOnceReconnected` |
| `context_lost` | three attempts | **violation** of `FlowsSurvive`, see section 6 |
| `connection` | two requests, one extra push, one device rotation | `SingleLive`, `NoResurrection`, `ClientHoldsCurrent`, `NeverConflicts`, `StartedInOrder`, and under fairness `PendingTaken`, `Served` |
| `peer_recovery` | client and broker peer, two attempts, setup of one tick, two policies (automatic, on request only) the caller may switch between | `NoUseAfterDestroy`, `BudgetEarned`, `DeadlineNotRenewed`, `RecoverySettles`, `ReconnectHonoured`, `CloseCompletes`, `StateReported` |
| `signaling` | window of one message, two exchanges, the client loses one socket at any point, the broker none | `NoSpuriousEnd`, `HandshakeCompletes`, `RevokedSocketsEnd` |
| `auth` | two processes, two logins, three attempts | `Recoverable`, `NeverRefused`, and under fairness `Settled` |
| `auth_jam` | one process, two logins | **violation** of `RefreshPossible`, see section 6 |
| `turn_cache` | two keys, a cache of one entry, one caller and the worker, one tick of maximal age, leases of two | `NoAnswerAfterCut`, `BoundedStaleness`, with eviction and invalidations of several keys |
| `turn_logout` | one key, two callers, four ticks | **violation** of `RevokedImmediately`, see section 6 |
| `turn_relay` | one credential, one client address, two relays one after the other, a lease of one tick renewed to two, room for one allocation of the tenant | `NoLateForward`, `OwnDatagram`, `CountersExact`, `RevokedClosed`, `LeaseEnds`, `NoRevival`, `CloseReturns` |

*Why the bounds are enough.*  A buffer of one or two bytes makes every limit
of the flow code reachable (full replay buffer, partial write, frame cut at
another offset on replay).  Two failures are needed for "a RESUME interrupted
by the next failure"; nothing in the code counts outages, and the proofs
remove the bound for the properties they cover.  Two requests are the fewest
with which a late one meets a newer one; a request that meets a lineage whose
history was pruned under it takes more, and is covered by the proofs of
`NeverConflicts` and `ClientHoldsCurrent`.  `HistoryKeep` is 0 in
`connection`, so that every superseded row is pruned at once: the worst case
of the 256 generations the code keeps.  Two processes and three attempts
allow a stale process, a rotating one and a third attempt that builds on both.
`turn_cache` uses the symmetry of keys.  In `turn_cache` leases longer than the maximal age let an entry outlive
its freshness, and a cache of one entry makes every second key evict the
first; that cold reads of several callers do not interfere is in the proofs.
In `peer_recovery` two attempts make a budget that is neither fresh nor spent,
and the clocks run just past every limit of the policies.  In `signaling` a
window of one message is always at its limit; one lost socket of the client is
enough for every cursor to be taken over, every request to be repeated and an
old and a new socket of one side to execute side by side.  The broker's worker
runs the same code but for the approval.  In `turn_relay` two relays on one
client address are what the pin and the client map are about: the second can be
opened as soon as the first is deleted, while the handler of the first still
holds a datagram.  One credential meets all three threads that may remove it.
That several credentials and addresses do not interfere is in the proofs of
`OwnDatagram` and `NoLateForward`; that concurrent addresses do not exceed the
limit of the tenant is in that of `CountersExact`.

The type invariants and the inductive invariants of section 4 are not part of
the runs; they are proved.  Properties
that follow from a theorem and say little more on an instance
(`GraceNeverExtended`, `ConfirmedKeyKept`, `NeverStale`, `OnlyLiveAdmits`,
`MapClean`, `TerminalFinal`) are likewise only proved.  The inductive
invariants of `FlowResume`, for instance, can be checked
on the instance by adding `INVARIANT IInv` to a configuration, since its MC
module extends the proof module; this is how they were found.

*The last attempt does not fail.*  `MaxAttempts` bounds failures in
`FlowResume`; the liveness runs therefore say what happens once transports
stay up, which is all the code promises.

*Deadlock checking is off* in `FlowResume`, `ResumeContext`, `AuthRefresh`,
`TurnCache`, `TurnRelay`, `PeerRecovery` and `Signaling`, because the systems really may
stop: a retired flow does nothing, when the bounded logins have ended no
refresh is possible, a closed cache at the end of the bounded clock has nothing
left to do, nor has a relay server that was shut down, a freed handle has no
threads, and a handshake that is done waits.
`Connection` is checked for deadlock.

### Fairness

* `FlowResume`: the engine owner runs its loop, so enabled ticks, reads and
  flushes happen; QUIC delivers while both sides are attached; a side whose
  peer is gone notices (QUIC idle timeout).  Nothing is assumed about what
  applications send.  `Settles`, `EventuallyDelivered` and `BothEnd` also
  need clocks that run (`ClocksRun`, a premise of these three properties),
  since a transport that does not come back is ended only by the grace
  deadline.
* `PeerRecovery`: the loop of every thread runs again (each wait in the code is
  bounded by 50 ms), a due `IdleExpires` included, and time passes.  Nothing is assumed of the network, of
  the control server or of the application.
* `Signaling`: as long as a setup worker or a goroutine of the server can do
  something, or one end of a socket is gone and the other has to notice it,
  some such step is taken.  Nothing is assumed of losses and revocations; the
  bound on sockets means that the last socket of a side is not lost.
* `Connection`: the broker reconnects its control socket, reads and applies
  what is pushed, and its threads run.  Strong fairness on reading and on
  applying a snapshot says that sockets do not fail for ever and the limit on
  peers does not persist.  An attempt on a session that is no longer live
  fails: it is refused by the server or its setup deadline passes.
* `AuthRefresh`: of the processes that share the profile, some is started
  again, begins, sends, reads an answer and commits whenever that is possible
  again and again: not every one of them dies or times out at that point for
  ever.  Which one it is is left open.
* `TurnRelay`: threads run, writes return by their deadlines, due timers fire
  and locks are handed on.  Nobody has to send, to renew, to revoke or to close.

## 4. What is proved

All proofs are for every value of the constants.

**FlowResumeProofs.**  `TypeCorrect`, `NoByteLost` (`NoLoss`),
`TargetConnectedOnce` (`OneTargetConnection`), `GraceOnlyShrinks`
(`GraceNeverExtended`), `EndToEndStream` (`IsStream`), `NeverRefused`
(`NoProtocolError`), `AlwaysResumable` (`ResumeAgrees`).  The first invariant is
`TypeOK /\ NoLoss /\ WireBounded /\ OpenFirst /\ Unopened /\
OneTargetConnection`.  `NoLoss` says that a sender's `tx_base` never passes
what the receiver wrote to its socket.  It is not inductive alone: bytes are
freed because of a *message*, so `WireBounded` says that every ACK, RESUME and
RESUME answer in flight acknowledges at most what its sender has written, and
that stays true because `rx_commit` never decreases.
`OneTargetConnection` needs that an OPEN is only ever the first frame of a
stream and that the broker's flow does not exist while one is in flight or
still to be sent (`OpenFirst`, `Unopened`).

That `FlowResume` implements `TcpStream` in both directions rests on a second
invariant, `Data`.  Bytes are numbered by their place in the stream, so it can
say what each buffer *contains*: the replay buffer holds the stream from
`tx_base` on (`SndOk`), the real socket was given exactly its first `rx_commit`
bytes and the receive buffer continues there (`RcvOk`), a receiver is never
ahead of its sender and knows the end only where the sender put it (`Behind`).
Frames in flight are *honest* (`Truthful`): what a DATA, FIN, ACK or snapshot
says of its sender was true when it was sent and stays true while the sender's
offsets grow, also when the frame is read many steps later or cut off and sent
again.  With it each action is a step of the stream (`m_v2_tick` one of its
`Give`, `Take` and `Leave` at both ends) or leaves the stream alone.

`NoProtocolError` and `ResumeAgrees` need more than honesty, namely that frames
are *timely*; the third invariant is `Session`.  `Stages` ties phase, recovery
flags and transport of a side together.  `Asked` says that a RESUME is the
first frame of its stream, shows the client as it still is, and finds both
sides silent; `Answered` that a RESUME answer the client waits for fits the
client's offsets.  `Links` is the condition on data: what is in flight ends at
or before the sender's cursor, begins where the receiver will be when it gets
there (no gap), and reaches the cursor unless the transport is down.  A replay
may start anywhere before the receiver's offset, so "begins where" is
coverage (`Covered`), not equality.

**PeerRecoveryProofs.**  `TypeCorrect`, `Retired` (`NoUseAfterDestroy`),
`Budget` (`BudgetEarned`), `Grace` (`DeadlineNotRenewed`), `Final`
(`TerminalFinal`), for every set of policies.  The inductive invariant says
for each place of the coordinator which other thread may still touch the
transport (`Barrier`): that the setup worker has been joined and the I/O owner
has let go before anything is destroyed is not visible in the state that is
destroyed, only in the places of the three threads and in `transport_detached`.
`BudgetEarned` adds that `stable_us` is the age of the connection that is
ready (`Clock`), `TerminalFinal` that a peer reported as failed or closed, or
whose caller has let go of it, has `stop` set for good (`Ended`).

**ResumeContextProofs.**  `TypeCorrect`, `ContextShared`
(`ClientContextIsShared`), `ContextKept` (`ConfirmedKeyKept`).  The invariant
adds what an attempt's stage implies about keys and proofs (`Proved`,
`Judged`, `Replied`, `ReadyTogether`, `ReadyOnce`) and that retained keys
belong to past attempts (`KeysPast`).  `Agreement` (`AgreeOnceReconnected`) adds
that a client which has been ready before reaches the same verdict as the
broker (`SameVerdict`): both keep the key they proved to each other or both
take the fresh one.  Before that the sides may disagree, which is the finding
`context_lost` of section 6.

**ConnectionProofs.**  `TypeCorrect`, `OneLiveSession` (`SingleLive`),
`NeverRevived` (`NoResurrection`), `ClientUpToDate` (`ClientHoldsCurrent`),
`RetriesIdempotent` (`NeverConflicts`).  The core of the invariant is
`Exchange`: the client's open request is either not yet granted and still
expects the current generation, or granted and still the one the row names;
every other request in flight expects an older generation, so the
compare-and-set refuses it; a revoked lineage stays revoked while the account
is authorized.

`SetUpInOrder` (`StartedInOrder`) is about the other end.  What the broker is
about to read is a queue: the snapshot it holds, those in flight, and what the
server would push now.  Sessions do not decrease along the queue (`Sorted`), a
session that leaves it does not come back (`Gapless`), and a session the broker
already knows is older than everything in the queue unless it is in every
snapshot up to there and in `seen_sessions` (`KnownOlder`).  So what
`seen_sessions` forgets is never pushed again.

**SignalingProofs.**  `TypeCorrect` and `NobodyTurnedAway` (`NoSpuriousEnd`),
for any window, number of exchanges and number of sockets, with or without TURN
on either side.  The cursors of a worker count what its script has sent and
received (`Placed`), and what it holds unread continues there (`EpOk`).  On the
socket a worker uses, the pushes on their way follow one another from what it
has read (`Chain`), reach as far as the server believes to have pushed
(`Pushed`), and there is at most one request or one answer (`RpcOk`).  On any
socket, one its client has left included, a send would store the next signal or
repeat a stored one, and no ACK is for a signal that was not written (`InOk`):
this is why an old and a new socket of one side may execute side by side.

**AuthRefreshProofs.**  `TypeCorrect`, `CrashSafe` (`Recoverable`),
`NoConflict` (`NeverRefused`), `StorageNeverStale` (`NeverStale`),
`EndedAdmitNothing` (`OnlyLiveAdmits`).  `Recoverable` has two cases: the
profile holds the session's current secret, or the journal holds the attempt
that rotated it and the server will replay its receipt.  The supporting
invariants say that of all requests ever sent only the journal's can still
rotate the profile's session (`SentFits`), that secrets are fresh until they
are tried (`Untried`), that an answer fits the attempt it answers
(`ReplyFits`), and who holds the lock (`Owners`).  The proof follows the two
cases through rotation (first to second), commit (second to first) and the
replacement of the profile by a command.

**TurnCacheProofs.**  `TypeCorrect`, `RevokedStaysOut` (`MapClean`),
`AnswersCurrent` (`NoAnswerAfterCut`), `AnswersFresh` (`BoundedStaleness`).
The first two properties rest on what is known of a key in `cut`: its
authority is 0 (`CutIsZero`), it has no entry (`MapClean`), and a cold read
that came back positive before has been told (`ReadTold`).  That needs at most
one cold read, held by the owner of `missMu` (`OneColdRead`), and that a
candidate of the worker still has its entry (`Candidates`).  `AnswersFresh`
adds that every entry, every answer in hand and every result of the worker is
*backed*: the authority it reports still holds or held at or after its
`checkedAt` (`EntriesBacked`, `CallsBacked`, `WorkerBacked`).

**TurnRelayProofs.**  `TypeCorrect`, `DatagramsOwn` (`OwnDatagram`),
`NothingLate` (`NoLateForward`) and four more, for any number of credentials, clients and
relays.  `OwnDatagram` needs to know what keeps a successor off a client's
address: a relay whose socket is not closed for good, or whose deletion is not
yet reported, is the one its client's address maps to (`Mapped`), the address
is free while a new relay is created for it (`ReaderAt`), and a handler that
holds a datagram has its relay pinned, so that the close cannot finish
(`HandlerAt`).  With the relay thus fixed between the check and the write,
`Gates` says that whoever reads a gate was let in before its credential was
revoked and, once `revokeSession` has taken its snapshot, that the credential
is still on its list; `Returned` that the list is empty at the end.  A
credential minted after the snapshot is never let in, because the
authorization was withdrawn before.

`CountersRight` (`CountersExact`) and `SessionClosed` (`RevokedClosed`) rest on
what a step keeps of a relay: only `allocationCreated` gives it an owner and a
client, and a mark or a place on the list of sockets is not lost but by closing
(`RelaysKept`).  For the counters (`Counts`), the set of client addresses whose
relay has an owner is finite and gains or loses one element in exactly the
steps that count; `quota` was asked before a relay is created, and since the one
request reader is the only thread that adds relays there is still room for it
when it is counted.  For the revocation (`Closes`), every open relay has a managed owner or
is on the list of the thread that removed its owner (`Watched`), and once
`revokeSession` has taken its snapshot every managed credential that has a
relay, or has a request being served, is on its list (`Listing`).  A relay being
created while its credential is removed is the hard case: the credential is
looked up again when the allocation is reported, and a relay without one is
closed at once.

`LeasesRespected` proves `LeaseKept`, the safety half of `LeaseEnds`.  A
credential that is being renewed is not revoked, because revocation waits for
the gate the renewal keeps; one that is not minted yet has no timer and is on no
list (`Unlisted`, `Renewing`).  `RenewedInTime` (`NoRevival`) adds what a renewal
is about to write (`Timely`): the new deadline was chosen under the manager's
lock, which is still held, when the old one had not passed.  So a renewal may
write late, but it never starts late.

*Assumptions.*  Only the named assumptions on constants in the modules (sizes
are naturals, buffers and budgets at least one, process names differ from the
two other lock values).  They are evaluated by TLC in every run.

## 5. What is only model-checked

* Liveness (`ResumeConfirmed`, `Settles`, `EventuallyDelivered`, `BothEnd`,
  `PendingTaken`, `Served`, `Settled`, `RecoverySettles`, `ReconnectHonoured`,
  `CloseCompletes`, `StateReported`, `HandshakeCompletes`,
  `RevokedSocketsEnd`, `CloseReturns` and, of `LeaseEnds`, that an expired
  credential is removed): the prover does not handle fairness.

Every invariant a passing run checks, and every other safety property of these
runs, is also proved.

## 6. Findings

* **A reconnect can drop flows that both processes retain** (run
  `context_lost`).  The broker marks itself ready, and confirms its retained
  key, before the client does.  If the client's *first* attempt ends in
  between, the proofs of the next attempt still match, but the client, which
  was never ready, adopts that attempt's fresh key while the broker keeps the
  confirmed one.  Flows are opened; at the following reconnect the proofs
  differ and both sides drop flows they retain within their grace.
* **A stale journal blocks refresh of a new login** (run `auth_jam`).  A
  command saves the new profile first and removes the old journal second.
  Dying in between (or a failing unlink) leaves a journal of another session;
  `Begin` rejects it in every process, so the new login is never refreshed
  although its authority is live.
* **A legacy logout does not invalidate the TURN cache** (run `turn_logout`).
  `logout` with an account token outside any login session deletes the
  sessions of its connections without `revokeSession`, while
  `docs/CONTROL-API.md` says that public revocation operations invalidate
  affected entries immediately.  Relaying goes on until the refresh worker
  notices; `BoundedStaleness` (proved) bounds it by the maximal age.

## 7. What is not modelled, and the plan

Left out of the present modules: wire version 1 and UDP; the generation limit
2^31-1; rate limits; the login mode without storage, version 1 profiles,
back-off and the terminal flag; the limit of 16 sessions that refuses a login;
the broker control worker's own retry budget.  Encodings, cryptography, HTTP
and JSON are abstracted.  Vendored libraries are represented by what the code
relies on.

Of `turn.go` the permissions, the limits on peers and channels (but for the
closing they cause) and the byte rates are left out: they only refuse.

Of `websocket.go` the limits on connections, frames and queued bytes are left
out: reaching one ends the socket, which `Signaling` allows at any time.

Not modelled for the present, in the order in which it would be worth it:

1. `UsageQuota`: the quota decisions made from a cached total and the change of
   day.  Writing the usage itself is one transaction under one lock.
2. `ServerControl`: the control worker's own retry budget and its reset.
3. UDP reassembly and its limits; the certificate cache; the local process
   runner and its discovery file.
