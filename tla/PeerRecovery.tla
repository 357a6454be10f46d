---------------------------- MODULE PeerRecovery ----------------------------
(***************************************************************************)
(* The recovery machine of one logical peer (sdk/c/remote/ob_remote.c,     *)
(* peer/recovery.c, peer/coordinator.c, and the thread bodies of           *)
(* peer/engine.c and peer/control.c).  Four threads share a struct         *)
(* ob_remote_peer under one mutex: the coordinator, which schedules,       *)
(* opens and retires transport attempts; the setup worker of the current   *)
(* attempt; the I/O owner, which owns the QUIC engine; and the caller.  A  *)
(* critical section is one step.  The peer is a client's handle or a       *)
(* broker's peer, whose caller is the broker's control worker.             *)
(*                                                                         *)
(* Times are kept in ticks: outage, stable and up count up from the        *)
(* moment they were taken, the others count down; None is the C value 0.   *)
(***************************************************************************)
EXTENDS Integers

CONSTANTS
    Policies,   \* the normalized reconnect policies callers choose from
    Timeout,    \* timeout_ms, the longest setup of one attempt
    Horizon     \* bound: no clock counts beyond it, none has to

None == -1
Least(a, b) == IF a < b THEN a ELSE b
Most(a, b) == IF a > b THEN a ELSE b
Ticks == Nat \cup {None}
Policy == [disabled : BOOLEAN, max_attempts : Nat \ {0}, max_delay : Nat \ {0},
           retry_budget : Nat \ {0}, flow_grace : Nat \ {0},
           stable_reset : Nat \ {0}]

ASSUME ConstantsAssumption ==
    /\ Policies \subseteq Policy
    /\ Timeout \in Nat \ {0}
    /\ Horizon \in Nat
    /\ \A q \in Policies : {q.retry_budget, q.flow_grace, q.stable_reset}
                             \subseteq 0..Horizon

VARIABLES
    role,     \* "client", or "server" for a broker's peer
    policy,   \* recovery.policy
    p,        \* the fields the threads share
    coord,    \* where the coordinator is
    setup,    \* where the setup worker is
    io,       \* the I/O owner: "run" or "exited"
    caller,   \* where the owner of the handle is
    up        \* history: ticks since the current connection became ready

vars == <<role, policy, p, coord, setup, io, caller, up>>

States == {"CONNECTING", "CONNECTED", "RECONNECTING", "RETRY_WAIT", "PAUSED",
           "FAILED", "CLOSED"}
Peers == [stop : BOOLEAN, attempt_stop : BOOLEAN,
          control : {"unknown", "managed", "legacy"},
          pending_session : BOOLEAN,
          available : BOOLEAN, detached : BOOLEAN,  \* transport_available, ..
          engine : BOOLEAN, ice : BOOLEAN,          \* the pointer is not NULL
          ready : BOOLEAN, ever_ready : BOOLEAN,
          deadline : Int, recovery_deadline : Ticks,
          state : States, callback_pending : BOOLEAN, requested : BOOLEAN,
          started : BOOLEAN,                        \* transport_generation # 0
          attempts : Nat, outage : Ticks, retry : Nat, stable : Ticks]

(* Every variable has its type. *)
TypeOK ==
    /\ role \in {"client", "server"}
    /\ policy \in Policies
    /\ p \in Peers
    /\ coord \in {"schedule", "session", "notify", "announce", "begin",
                  "open", "run", "join", "detach", "destroy", "retired",
                  "close", "done"}
    /\ setup \in {"none", "working", "gathering", "lingering", "unready",
                  "exited"}
    /\ io \in {"run", "exited"}
    /\ caller \in {"connecting", "using", "failed", "closed", "joining",
                   "freed"}
    /\ up \in 0..Horizon

-----------------------------------------------------------------------------
(* The critical sections every thread uses *)

ob_recovery_set_locked(q, state) ==
    [q EXCEPT !.state = state, !.callback_pending = TRUE]

ob_peer_fail_locked(q) ==
    IF q.state = "CLOSED" THEN q
    ELSE ob_recovery_set_locked(
            [q EXCEPT !.stop = TRUE, !.attempt_stop = TRUE,
                      !.available = FALSE], "FAILED")

(* Mutant: every failure starts a new grace period. *)
TransportFailRenews(q) ==
    IF q.stop THEN q
    ELSE ob_recovery_set_locked(
            [q EXCEPT !.ready = FALSE, !.available = FALSE,
                      !.outage = IF @ = None THEN 0 ELSE @,
                      !.recovery_deadline =
                          IF q.ever_ready THEN policy.flow_grace ELSE @,
                      !.attempt_stop = TRUE], "RECONNECTING")
ob_peer_transport_fail_locked(q) ==
    IF q.stop THEN q
    ELSE ob_recovery_set_locked(
            [q EXCEPT !.ready = FALSE, !.available = FALSE,
                      !.outage = IF @ = None THEN 0 ELSE @,
                      !.recovery_deadline =
                          IF q.ever_ready /\ @ = None
                          THEN policy.flow_grace ELSE @,
                      !.attempt_stop = TRUE], "RECONNECTING")

(* What ends an attempt: a failure recovery may repair, or one that ends   *)
(* the handle (an authentication, protocol or allocation failure, an       *)
(* explicit revocation, anything a control server without managed          *)
(* connections refuses).                                                   *)
Failures(q) == {ob_peer_transport_fail_locked(q), ob_peer_fail_locked(q)}

Init ==
    /\ role \in {"client", "server"}
    /\ policy \in Policies
    /\ \E control \in IF role = "client" THEN {"unknown"}
                      ELSE {"managed", "legacy"} :
         p = [stop |-> FALSE, attempt_stop |-> FALSE, control |-> control,
              pending_session |-> FALSE, available |-> FALSE,
              detached |-> TRUE, engine |-> FALSE, ice |-> FALSE,
              ready |-> FALSE, ever_ready |-> FALSE, deadline |-> Timeout,
              recovery_deadline |-> None, state |-> "CONNECTING",
              callback_pending |-> FALSE, requested |-> FALSE,
              started |-> FALSE, attempts |-> 0, outage |-> None,
              retry |-> 0, stable |-> None]
    /\ coord = IF role = "client" THEN "schedule" ELSE "begin"
    /\ setup = "none"
    /\ io = "run"
    /\ caller \in IF role = "client" THEN {"connecting", "using"}
                  ELSE {"using"}
    /\ up = 0

-----------------------------------------------------------------------------
(* The coordinator (peer/coordinator.c) *)

(* ob_recovery_deliver: the state is reported, outside the mutex. *)
Delivered(q) == [q EXCEPT !.callback_pending = FALSE]
(* The loops that wait also deliver. *)
(* Mutant: only what the loop itself set is reported. *)
DeliverNever == FALSE /\ p' = p
Deliver ==
    /\ coord \in {"schedule", "session", "run"}
    /\ p.callback_pending
    /\ p' = Delivered(p)
    /\ UNCHANGED <<role, policy, coord, setup, io, caller>>
Notify ==
    /\ coord \in {"notify", "announce"}
    /\ p' = Delivered(p)
    /\ coord' = CASE coord = "announce" -> "begin"
                  [] role = "client" -> "schedule"
                  [] OTHER -> "session"
    /\ UNCHANGED <<role, policy, setup, io, caller>>

(* schedule: a manual request renews the budget before it is consulted. *)
Asked == IF p.requested
         THEN [p EXCEPT !.requested = FALSE, !.attempts = 0, !.outage = 0,
                        !.retry = 0]
         ELSE p
Spent(q) ==
    \/ q.attempts >= policy.max_attempts
    \/ q.outage # None /\ q.outage >= policy.retry_budget
(* Mutant: the request is seen too late. *)
ExhaustedFirst(q) == (policy.disabled /\ p.started) \/ Spent(p)
Exhausted(q) == (policy.disabled /\ p.started /\ ~p.requested) \/ Spent(q)
Wait(q, state) ==
    /\ q.state # state
    /\ p' = ob_recovery_set_locked(q, state)
    /\ coord' = "notify"
Attempt(q) ==
    /\ p' = ob_recovery_set_locked(
               [q EXCEPT !.attempts = @ + 1, !.started = TRUE],
               IF q.ever_ready THEN "RECONNECTING" ELSE "CONNECTING")
    /\ coord' = "announce"
schedule ==
    /\ coord = "schedule"
    /\ \/ p.stop /\ coord' = "close" /\ UNCHANGED p
       \/ /\ ~p.stop
          /\ \/ Exhausted(Asked) /\ Wait(Asked, "PAUSED")
             \/ ~Exhausted(Asked) /\ Asked.retry > 0
                /\ Wait(Asked, "RETRY_WAIT")
             \/ ~Exhausted(Asked) /\ Asked.retry = 0 /\ Attempt(Asked)
    /\ UNCHANGED <<role, policy, setup, io, caller>>

(* server_session: a broker's peer waits for the client's next session. *)
server_session ==
    /\ coord = "session"
    /\ \/ p.stop /\ coord' = "close" /\ UNCHANGED p
       \/ ~p.stop /\ ~p.pending_session /\ Wait(p, "RETRY_WAIT")
       \/ /\ ~p.stop /\ p.pending_session
          /\ p' = [p EXCEPT !.pending_session = FALSE]
          /\ coord' = "begin"
    /\ UNCHANGED <<role, policy, setup, io, caller>>

(* ob_peer_coordinator: every attempt starts from a clean transport.  The  *)
(* flags are reset whatever was raised since the last attempt was retired. *)
Fresh == [p EXCEPT !.ready = FALSE, !.available = FALSE,
                   !.attempt_stop = FALSE,
                   !.deadline =
                       IF role = "client" /\ p.outage # None
                       THEN Least(Timeout, policy.retry_budget - p.outage)
                       ELSE Timeout]
BeginAttempt ==
    /\ coord = "begin"
    /\ p' = IF role = "client" THEN Fresh
            ELSE ob_recovery_set_locked(
                    [Fresh EXCEPT !.started = TRUE],
                    IF p.ever_ready THEN "RECONNECTING" ELSE "CONNECTING")
    /\ coord' = "open"
    /\ UNCHANGED <<role, policy, setup, io, caller>>

(* open_session, then the setup worker is started.  Either may fail, the   *)
(* request also because of its deadline or of a close.                     *)
Discovered == IF p.control = "unknown" THEN {"managed", "legacy"}
              ELSE {p.control}
Opened ==
    /\ p' \in {[p EXCEPT !.control = c] : c \in Discovered}
    /\ coord' = "run"
    /\ setup' = "working"
OpenFailed ==
    /\ role = "client"
    /\ \/ p' = ob_peer_fail_locked(p)
       \/ \E c \in Discovered \cup {p.control} :
            /\ c # "legacy"
            /\ p' = ob_peer_transport_fail_locked([p EXCEPT !.control = c])
    /\ coord' = "detach"
    /\ UNCHANGED setup
ThreadFailed ==
    /\ \E c \in Discovered :
         p' = ob_peer_transport_fail_locked([p EXCEPT !.control = c])
    /\ coord' = "detach"
    /\ UNCHANGED setup
open_session ==
    /\ coord = "open"
    /\ Opened \/ OpenFailed \/ ThreadFailed
    /\ UNCHANGED <<role, policy, io, caller>>

(* While the attempt runs: a connection that stayed up renews the budget. *)
StableReset ==
    /\ coord = "run" /\ ~p.stop /\ ~p.attempt_stop
    /\ p.ready /\ p.stable # None /\ p.stable >= policy.stable_reset
    /\ p.attempts # 0 \/ p.outage # None
    /\ p' = [p EXCEPT !.attempts = 0, !.outage = None]
    /\ UNCHANGED <<role, policy, coord, setup, io, caller>>
LeaveLoop ==
    /\ coord = "run"
    /\ p.stop \/ p.attempt_stop
    /\ coord' = "join"
    /\ UNCHANGED <<role, policy, p, setup, io, caller>>

(* retire_attempt: join the setup worker, wait for the I/O owner to let    *)
(* go of the transport, destroy the ICE agent.                             *)
JoinSetup ==
    /\ coord = "join" /\ setup = "exited"
    /\ setup' = "none"
    /\ coord' = "detach"
    /\ UNCHANGED <<role, policy, p, io, caller>>
(* Mutant: the agent is destroyed at once. *)
AwaitDetachNot ==
    /\ coord = "detach"
    /\ coord' = "destroy"
    /\ UNCHANGED <<role, policy, p, setup, io, caller>>
AwaitDetach ==
    /\ coord = "detach" /\ p.detached
    /\ coord' = "destroy"
    /\ UNCHANGED <<role, policy, p, setup, io, caller>>
DestroyIce ==
    /\ coord = "destroy"
    /\ p' = [p EXCEPT !.ice = FALSE]
    /\ coord' = "retired"
    /\ UNCHANGED <<role, policy, setup, io, caller>>

(* The delay before the next attempt: exponential from the initial delay,  *)
(* with jitter, at most max_delay; none before the first retry.            *)
Delays == IF p.attempts = 0 THEN {0} ELSE 1..policy.max_delay
delay_next ==
    /\ p' \in {[p EXCEPT !.outage = IF @ = None THEN 0 ELSE @, !.retry = d] :
                  d \in Delays}
    /\ coord' = "schedule"
AfterRetire ==
    /\ coord = "retired"
    /\ \/ p.stop /\ coord' = "close" /\ UNCHANGED p
       \/ /\ ~p.stop /\ p.control = "legacy"
          /\ p' = ob_peer_fail_locked(p) /\ coord' = "close"
       \/ /\ ~p.stop /\ p.control # "legacy" /\ role = "client"
          /\ delay_next
       \/ /\ ~p.stop /\ p.control # "legacy" /\ role = "server"
          /\ coord' = "session" /\ UNCHANGED p
    /\ UNCHANGED <<role, policy, setup, io, caller>>

(* The logical connection is closed (module Connection), the last state    *)
(* reported.                                                               *)
CoordinatorEnds ==
    /\ coord = "close"
    /\ p' = Delivered(p)
    /\ coord' = "done"
    /\ UNCHANGED <<role, policy, setup, io, caller>>

-----------------------------------------------------------------------------
(* The setup worker of an attempt (peer/control.c, ws_control.inc) *)

(* PAKE and the capabilities are done: establish_ice creates the agent. *)
CreateIce ==
    /\ setup = "working"
    /\ setup' = "gathering"
    /\ p' = [p EXCEPT !.ice = TRUE]
    /\ UNCHANGED <<role, policy, coord, io, caller>>

(* ICE is connected: the transport is offered to the I/O owner, unless     *)
(* the attempt ended in the meantime.                                      *)
OfferTransport ==
    /\ setup = "gathering"
    /\ setup' = "lingering"
    /\ p' = IF p.stop \/ p.attempt_stop THEN p
            ELSE [p EXCEPT !.detached = FALSE, !.available = TRUE]
    /\ UNCHANGED <<role, policy, coord, io, caller>>

(* Signalling, authorization, ICE or the control socket fails. *)
SetupFails ==
    /\ setup \in {"working", "gathering", "lingering"}
    /\ p' \in Failures(p)
    /\ setup' = "exited"
    /\ UNCHANGED <<role, policy, coord, io, caller>>

(* alive: ready is read under the mutex, the deadline is compared after    *)
(* it was released.                                                        *)
SetupUnready ==
    /\ setup = "lingering" /\ ~p.ready
    /\ setup' = "unready"
    /\ UNCHANGED <<role, policy, p, coord, io, caller>>
(* Mutant: only the worker's last loop looks at the deadline. *)
SetupExpiresLate ==
    /\ setup = "unready" /\ p.deadline <= 0
    /\ p' = ob_peer_transport_fail_locked(p)
    /\ setup' = "exited"
    /\ UNCHANGED <<role, policy, coord, io, caller>>
SetupExpires ==
    /\ setup \in {"working", "gathering", "unready"} /\ p.deadline <= 0
    /\ p' = ob_peer_transport_fail_locked(p)
    /\ setup' = "exited"
    /\ UNCHANGED <<role, policy, coord, io, caller>>
SetupInTime ==
    /\ setup = "unready" /\ p.deadline > 0
    /\ setup' = "lingering"
    /\ UNCHANGED <<role, policy, p, coord, io, caller>>
SetupCancelled ==
    /\ setup \in {"working", "gathering", "lingering", "unready"}
    /\ p.stop \/ p.attempt_stop
    /\ setup' = "exited"
    /\ UNCHANGED <<role, policy, p, coord, io, caller>>

-----------------------------------------------------------------------------
(* The I/O owner (peer/engine.c): an iteration holds the mutex *)

transport_detach(q) ==
    [q EXCEPT !.engine = FALSE, !.ready = FALSE, !.detached = TRUE]
DetachIdle ==
    /\ io = "run"
    /\ p.attempt_stop \/ ~p.available
    /\ ~p.detached
    /\ p' = transport_detach(p)
    /\ UNCHANGED <<role, policy, coord, setup, io, caller>>

engine_init ==
    /\ io = "run"
    /\ ~p.attempt_stop /\ p.available /\ ~p.engine
    /\ LET q == [p EXCEPT !.detached = FALSE]
       IN  \/ p' = [q EXCEPT !.engine = TRUE]
           \/ \E made \in BOOLEAN :
                p' = ob_peer_transport_fail_locked([q EXCEPT !.engine = made])
    /\ UNCHANGED <<role, policy, coord, setup, io, caller>>

Running == io = "run" /\ ~p.attempt_stop /\ p.available /\ p.engine

(* ICE is lost, the lease ends, QUIC closes, a mapping or the handshake    *)
(* fails; the same iteration detaches.                                     *)
EngineFails ==
    /\ Running
    /\ p' \in {transport_detach(q) : q \in Failures(p)}
    /\ UNCHANGED <<role, policy, coord, setup, io, caller>>
EngineExpires ==
    /\ Running /\ ~p.ready /\ p.deadline <= 0
    /\ p' = transport_detach(ob_peer_transport_fail_locked(p))
    /\ UNCHANGED <<role, policy, coord, setup, io, caller>>

(* The proof was exchanged.  The flows are resumed first (FlowResume),     *)
(* which may fail the new transport.                                       *)
(* Mutant: the first time is kept. *)
MarkedOnce ==
    ob_recovery_set_locked(
        [p EXCEPT !.ready = TRUE, !.ever_ready = TRUE,
                  !.attempts = IF p.ever_ready THEN @ ELSE 0,
                  !.outage = IF p.ever_ready THEN @ ELSE None,
                  !.recovery_deadline = None, !.requested = FALSE,
                  !.stable = IF @ = None THEN 0 ELSE @, !.retry = 0],
        "CONNECTED")
Marked ==
    ob_recovery_set_locked(
        [p EXCEPT !.ready = TRUE, !.ever_ready = TRUE,
                  !.attempts = IF p.ever_ready THEN @ ELSE 0,
                  !.outage = IF p.ever_ready THEN @ ELSE None,
                  !.recovery_deadline = None, !.requested = FALSE,
                  !.stable = 0, !.retry = 0],
        "CONNECTED")
ob_peer_mark_ready ==
    /\ Running /\ ~p.ready /\ ~p.stop
    /\ \/ p' = Marked
       \/ p' = transport_detach(ob_peer_transport_fail_locked(p))
    /\ UNCHANGED <<role, policy, coord, setup, io, caller>>

(* Mutant: the coordinator is not told. *)
OwnerEndsSilently ==
    /\ io = "run" /\ p.stop
    /\ io' = "exited"
    /\ p' = [p EXCEPT !.engine = FALSE]
    /\ UNCHANGED <<role, policy, coord, setup, caller>>
OwnerEnds ==
    /\ io = "run" /\ p.stop
    /\ io' = "exited"
    /\ p' = [p EXCEPT !.engine = FALSE, !.detached = TRUE]
    /\ UNCHANGED <<role, policy, coord, setup, caller>>

-----------------------------------------------------------------------------
(* The caller: the application, or the broker's control worker *)

(* ob_remote_connect waits for the first connection. *)
ConnectReturns ==
    /\ caller = "connecting" /\ p.ready
    /\ caller' = "using"
    /\ UNCHANGED <<role, policy, p, coord, setup, io>>
ConnectTimesOut ==
    /\ caller = "connecting" /\ ~p.ready /\ ~p.stop
    /\ p' = ob_peer_fail_locked(p)
    /\ UNCHANGED <<role, policy, coord, setup, io, caller>>

ob_remote_peer_reconnect ==
    /\ role = "client" /\ caller = "using"
    /\ ~p.stop /\ p.state # "CONNECTED" /\ ~p.requested
    /\ p' = [p EXCEPT !.requested = TRUE]
    /\ UNCHANGED <<role, policy, coord, setup, io, caller>>
(* A policy only shortens the delay that is running. *)
ob_recovery_apply_policy_locked ==
    /\ caller = "using"
    /\ policy' \in Policies \ {policy}
    /\ p' = IF p.retry > policy'.max_delay
            THEN [p EXCEPT !.retry = policy'.max_delay,
                           !.callback_pending = @ \/ p.state = "RETRY_WAIT"]
            ELSE p
    /\ UNCHANGED <<role, coord, setup, io, caller>>
ob_remote_peer_set_state_callback ==
    /\ role = "client" /\ caller = "using"
    /\ p' = [p EXCEPT !.callback_pending = TRUE]
    /\ UNCHANGED <<role, policy, coord, setup, io, caller>>

(* ob_remote_peer_close: fail, then CLOSED, then destroy. *)
CloseFails ==
    /\ role = "client" /\ caller = "using"
    /\ p' = ob_peer_fail_locked(p)
    /\ caller' = "failed"
    /\ UNCHANGED <<role, policy, coord, setup, io>>
CloseCloses ==
    /\ caller = "failed"
    /\ p' = ob_recovery_set_locked(p, "CLOSED")
    /\ caller' = "closed"
    /\ UNCHANGED <<role, policy, coord, setup, io>>
(* ob_peer_destroy: a failed ob_remote_connect and the broker's control    *)
(* worker call it for a peer that was stopped.                             *)
ob_peer_destroy ==
    /\ \/ caller = "closed"
       \/ caller = "connecting" /\ p.stop
       \/ role = "server" /\ caller = "using" /\ p.stop
    /\ p' = [p EXCEPT !.stop = TRUE, !.attempt_stop = TRUE]
    /\ caller' = "joining"
    /\ UNCHANGED <<role, policy, coord, setup, io>>
Joined ==
    /\ caller = "joining"
    /\ coord = "done" /\ setup = "none" /\ io = "exited"
    /\ p' = [p EXCEPT !.ice = FALSE]
    /\ caller' = "freed"
    /\ UNCHANGED <<role, policy, coord, setup, io>>

(* server_snapshot: the client opened a session that replaces this one. *)
server_snapshot ==
    /\ role = "server" /\ caller = "using"
    /\ p.control = "managed" /\ ~p.stop
    /\ p' = ob_peer_transport_fail_locked(
               [p EXCEPT !.pending_session = TRUE])
    /\ UNCHANGED <<role, policy, coord, setup, io, caller>>
(* The broker's lease ended or it went offline. *)
server_suspend_peers ==
    /\ role = "server" /\ caller = "using"
    /\ p' = IF p.control = "managed" THEN ob_peer_transport_fail_locked(p)
            ELSE ob_peer_fail_locked(p)
    /\ UNCHANGED <<role, policy, coord, setup, io, caller>>
(* A context that was not resumed in time expires; by then its flows have  *)
(* ended (FlowResume).                                                     *)
IdleExpired ==
    /\ p.control = "managed" /\ ~p.available
    /\ IF p.recovery_deadline # None THEN p.recovery_deadline = 0
       ELSE p.deadline + policy.flow_grace <= 0
IdleExpires ==
    /\ role = "server" /\ caller = "using"
    /\ IdleExpired
    /\ p' = ob_peer_fail_locked(p)
    /\ UNCHANGED <<role, policy, coord, setup, io, caller>>
(* The broker stopped, or was revoked. *)
ServerStops ==
    /\ role = "server" /\ caller = "using"
    /\ p' = ob_peer_fail_locked(p)
    /\ UNCHANGED <<role, policy, coord, setup, io, caller>>

-----------------------------------------------------------------------------
(* Time *)

Later(t) == IF t = None THEN None ELSE Least(t + 1, Horizon)
Sooner(t) == IF t = None THEN None ELSE Most(t - 1, 0)
Tick ==
    /\ caller # "freed"
    /\ p' = [p EXCEPT
               !.outage = Later(@), !.stable = Later(@),
               !.retry = Sooner(@), !.recovery_deadline = Sooner(@),
               !.deadline = Most(@ - 1, IF role = "client" THEN 0 ELSE -Horizon)]
    /\ UNCHANGED <<role, policy, coord, setup, io, caller>>

(* up counts how long the connection that is ready has been. *)
Up(elapsed) ==
    up' = IF p.ready /\ p'.ready THEN Least(up + elapsed, Horizon) ELSE 0

Coordinator ==
    \/ Deliver \/ Notify \/ schedule \/ server_session \/ BeginAttempt
    \/ open_session \/ StableReset \/ LeaveLoop \/ JoinSetup \/ AwaitDetach
    \/ DestroyIce \/ AfterRetire \/ CoordinatorEnds
SetupWorker ==
    \/ CreateIce \/ OfferTransport \/ SetupFails \/ SetupUnready
    \/ SetupExpires \/ SetupInTime \/ SetupCancelled
IOOwner ==
    \/ DetachIdle \/ engine_init \/ EngineFails \/ EngineExpires
    \/ ob_peer_mark_ready \/ OwnerEnds
Caller ==
    \/ ConnectReturns \/ ConnectTimesOut \/ ob_remote_peer_reconnect
    \/ ob_recovery_apply_policy_locked \/ ob_remote_peer_set_state_callback
    \/ CloseFails \/ CloseCloses \/ ob_peer_destroy \/ Joined
    \/ server_snapshot \/ server_suspend_peers \/ IdleExpires \/ ServerStops

Next ==
    \/ (Coordinator \/ SetupWorker \/ IOOwner \/ Caller) /\ Up(0)
    \/ Tick /\ Up(1)
Spec == Init /\ [][Next]_vars

(* Every thread's loop runs again within 50 ms and time passes.  Nothing   *)
(* is assumed of the network, the control server or the application.       *)
Fairness ==
    /\ WF_vars(Deliver /\ Up(0)) /\ WF_vars(Notify /\ Up(0))
    /\ WF_vars(schedule /\ Up(0)) /\ WF_vars(server_session /\ Up(0))
    /\ WF_vars(BeginAttempt /\ Up(0)) /\ WF_vars(open_session /\ Up(0))
    /\ WF_vars(LeaveLoop /\ Up(0)) /\ WF_vars(JoinSetup /\ Up(0))
    /\ WF_vars(AwaitDetach /\ Up(0)) /\ WF_vars(DestroyIce /\ Up(0))
    /\ WF_vars(AfterRetire /\ Up(0)) /\ WF_vars(CoordinatorEnds /\ Up(0))
    /\ WF_vars(SetupUnready /\ Up(0)) /\ WF_vars(SetupExpires /\ Up(0))
    /\ WF_vars(SetupCancelled /\ Up(0))
    /\ WF_vars(DetachIdle /\ Up(0)) /\ WF_vars(engine_init /\ Up(0))
    /\ WF_vars(EngineExpires /\ Up(0)) /\ WF_vars(OwnerEnds /\ Up(0))
    /\ WF_vars(IdleExpires /\ Up(0))
    /\ WF_vars(CloseCloses /\ Up(0)) /\ WF_vars(ob_peer_destroy /\ Up(0))
    /\ WF_vars(Joined /\ Up(0)) /\ WF_vars(Tick /\ Up(1))
FairSpec == Spec /\ Fairness

-----------------------------------------------------------------------------
(* Properties *)

(* retire_attempt destroys the ICE agent only after the I/O owner let go   *)
(* of the QUIC engine, whose callbacks send through the agent, and every   *)
(* attempt starts with neither: whatever fails and however late the setup  *)
(* worker offers its transport, no engine outlives its agent.              *)
NoUseAfterDestroy ==
    /\ p.engine => p.ice
    /\ coord \in {"schedule", "session", "notify", "announce", "begin",
                  "open", "retired", "close", "done"} =>
         ~p.engine /\ ~p.ice /\ setup = "none"

(* Only the first connection, a manual request, or a connection that       *)
(* stayed up for stable_reset_ms resets the failure budget: a transport    *)
(* that flaps uses it up (coordinator.c, ob_peer_mark_ready).              *)
BudgetEarned ==
    [][ p'.attempts < p.attempts \/ (p'.outage = None /\ p.outage # None) =>
          p.requested \/ ~p.ever_ready \/ up >= policy.stable_reset ]_vars

(* The grace period of the flows runs from the first failure: neither a    *)
(* second failure, nor a new attempt, nor a manual request extends it, and *)
(* only an authenticated transport ends it (ob_peer_transport_fail_locked, *)
(* "They cannot reset an unrestored flow's deadline", PEER-PROTOCOL.md).   *)
DeadlineNotRenewed ==
    [][ p.recovery_deadline # None =>
          \/ p'.recovery_deadline # None
             /\ p'.recovery_deadline <= p.recovery_deadline
          \/ p'.recovery_deadline = None /\ p'.ready ]_vars

(* A client's handle that failed or was closed stays so: no attempt that   *)
(* was under way, no late transport and no manual request revives it.      *)
TerminalFinal ==
    [][ role = "client" /\ p.state \in {"FAILED", "CLOSED"} =>
          /\ p'.state \in {p.state, "CLOSED"}
          /\ ~p'.ready \/ p.ready
          /\ p'.stop ]_vars

(* A peer without a transport does not stay so.  A client's is connected   *)
(* again, or parked, failed or closed: it never retries for ever without   *)
(* the application having asked.  A broker's is connected again, has the   *)
(* client's next session at hand, or is freed: no context that its client  *)
(* gave up keeps one of the broker's places (ws_server.inc, "Idle recovery *)
(* context expired").                                                      *)
Settled ==
    IF role = "client"
    THEN p.requested \/ p.state \in {"PAUSED", "FAILED", "CLOSED"}
    ELSE p.pending_session \/ caller = "freed"
RecoverySettles == ~p.ready ~> p.ready \/ Settled

(* A manual request always gets a paused peer out of PAUSED, whatever the  *)
(* policy and however much of the budget was spent.                        *)
ReconnectHonoured ==
    (p.requested /\ p.state = "PAUSED") ~> (p.state # "PAUSED")

(* Closing always completes: the three threads are joined and the handle   *)
(* is freed, whatever they were waiting for.                               *)
CloseCompletes == (caller \notin {"connecting", "using"}) ~> (caller = "freed")

(* The latest change of a client's state is reported, however many came    *)
(* before it was, while its handle is in use and its coordinator runs.     *)
StateReported ==
    (role = "client" /\ p.callback_pending /\ coord # "done") ~>
        (~p.callback_pending \/ caller # "using")
=============================================================================
