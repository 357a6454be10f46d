------------------------ MODULE PeerRecoveryProofs --------------------------
(***************************************************************************)
(* Proofs about PeerRecovery, for any policies and time limits.  The       *)
(* inductive invariant says which of the threads may touch the transport   *)
(* at each place of the coordinator, that the coordinator's clock of a     *)
(* connection never runs ahead of the connection, and that whatever ended  *)
(* the handle also stopped it.                                             *)
(***************************************************************************)
EXTENDS PeerRecovery, TLAPS

(* The barriers of retire_attempt. *)
Barrier ==
    /\ p.engine => p.ice /\ ~p.detached
    /\ p.available /\ ~p.attempt_stop => p.ice
    /\ p.available /\ ~p.attempt_stop => coord = "run" /\ ~p.stop
    /\ setup \in {"gathering", "lingering", "unready"} => p.ice
    /\ setup # "none" => coord \in {"run", "join"}
    /\ coord = "join" => p.stop \/ p.attempt_stop
    /\ coord \notin {"run", "join", "detach"} => p.detached
    /\ coord \notin {"run", "join", "detach", "destroy"} => ~p.ice

(* The clock the budget is reset by runs with the connection. *)
Clock == p.ready => p.stable = up

(* A handle that ended is stopped. *)
Ended ==
    /\ p.state \in {"FAILED", "CLOSED"} => p.stop
    /\ caller \notin {"connecting", "using"} => p.stop

IInv == TypeOK /\ Barrier /\ Clock /\ Ended

(* What the action properties ask of a step. *)
BudgetStep ==
    p'.attempts < p.attempts \/ (p'.outage = None /\ p.outage # None) =>
        p.requested \/ ~p.ever_ready \/ up >= policy.stable_reset
GraceStep ==
    p.recovery_deadline # None =>
        \/ p'.recovery_deadline # None
           /\ p'.recovery_deadline <= p.recovery_deadline
        \/ p'.recovery_deadline = None /\ p'.ready
FinalStep ==
    role = "client" /\ p.state \in {"FAILED", "CLOSED"} =>
        /\ p'.state \in {p.state, "CLOSED"}
        /\ ~p'.ready \/ p.ready
        /\ p'.stop
Good == IInv' /\ BudgetStep /\ GraceStep /\ FinalStep

-----------------------------------------------------------------------------
(* The critical sections *)

LEMMA InitTypeOK == Init => TypeOK
BY ConstantsAssumption DEF Init, TypeOK, Peers, Ticks, States, None

LEMMA SetFacts ==
  ASSUME NEW q \in Peers, NEW s \in States
  PROVE  LET r == ob_recovery_set_locked(q, s)
         IN  /\ r \in Peers /\ r.state = s
             /\ r.engine = q.engine /\ r.ice = q.ice /\ r.detached = q.detached
             /\ r.available = q.available /\ r.stop = q.stop
             /\ r.attempt_stop = q.attempt_stop
             /\ r.ready = q.ready /\ r.stable = q.stable
             /\ r.attempts = q.attempts /\ r.outage = q.outage
             /\ r.recovery_deadline = q.recovery_deadline
BY DEF ob_recovery_set_locked, Peers, Ticks

LEMMA FailFacts ==
  ASSUME NEW q \in Peers
  PROVE  LET r == ob_peer_fail_locked(q)
         IN  /\ r \in Peers
             /\ r.engine = q.engine /\ r.ice = q.ice /\ r.detached = q.detached
             /\ r.ready = q.ready /\ r.stable = q.stable
             /\ r.attempts = q.attempts /\ r.outage = q.outage
             /\ r.recovery_deadline = q.recovery_deadline
             /\ r = q \/ (r.stop /\ r.attempt_stop /\ ~r.available /\ r.state = "FAILED")
             /\ q.state = "CLOSED" => r = q
             /\ q.state # "CLOSED" => r.stop
<1> DEFINE f == [q EXCEPT !.stop = TRUE, !.attempt_stop = TRUE,
                          !.available = FALSE]
<1>1. CASE q.state = "CLOSED"
  BY <1>1 DEF ob_peer_fail_locked, Peers
<1>2. CASE q.state # "CLOSED"
  <2>1. /\ f \in Peers
        /\ f.engine = q.engine /\ f.ice = q.ice /\ f.detached = q.detached
        /\ f.ready = q.ready /\ f.stable = q.stable
        /\ f.attempts = q.attempts /\ f.outage = q.outage
        /\ f.recovery_deadline = q.recovery_deadline
        /\ f.stop /\ f.attempt_stop /\ ~f.available
    BY DEF Peers, Ticks
  <2>2. ob_peer_fail_locked(q) = ob_recovery_set_locked(f, "FAILED")
    BY <1>2 DEF ob_peer_fail_locked
  <2> HIDE DEF f
  <2> QED  BY <1>2, <2>1, <2>2, SetFacts DEF States
<1> QED  BY <1>1, <1>2

LEMMA TransportFailFacts ==
  ASSUME NEW q \in Peers, policy \in Policies
  PROVE  LET r == ob_peer_transport_fail_locked(q)
         IN  /\ r \in Peers
             /\ r.engine = q.engine /\ r.ice = q.ice /\ r.detached = q.detached
             /\ r.ready => q.ready
             /\ r.stop = q.stop /\ r.stable = q.stable
             /\ r.attempts = q.attempts
             /\ q.outage # None => r.outage = q.outage
             /\ q.recovery_deadline # None =>
                  r.recovery_deadline = q.recovery_deadline
             /\ q.stop => r = q
             /\ ~q.stop => /\ r.attempt_stop /\ ~r.available
                           /\ r.state = "RECONNECTING"
<1> DEFINE o == IF q.outage = None THEN 0 ELSE q.outage
           d == IF q.ever_ready /\ q.recovery_deadline = None
                THEN policy.flow_grace ELSE q.recovery_deadline
           f == [q EXCEPT !.ready = FALSE, !.available = FALSE, !.outage = o,
                          !.recovery_deadline = d, !.attempt_stop = TRUE]
<1>1. CASE q.stop
  <2>1. ob_peer_transport_fail_locked(q) = q
    BY <1>1 DEF ob_peer_transport_fail_locked
  <2> QED  BY <1>1, <2>1 DEF Peers
<1>2. CASE ~q.stop
  <2>1. o \in Ticks /\ d \in Ticks
    BY ConstantsAssumption DEF Policy, Peers, Ticks, None
  <2>2. q.outage # None => o = q.outage
    OBVIOUS
  <2>3. q.recovery_deadline # None => d = q.recovery_deadline
    OBVIOUS
  <2>4. ob_peer_transport_fail_locked(q)
          = ob_recovery_set_locked(f, "RECONNECTING")
    BY <1>2 DEF ob_peer_transport_fail_locked
  <2> HIDE DEF o, d
  <2>5. /\ f \in Peers
        /\ f.engine = q.engine /\ f.ice = q.ice /\ f.detached = q.detached
        /\ ~f.ready /\ f.stop = q.stop /\ f.stable = q.stable
        /\ f.attempts = q.attempts /\ f.outage = o
        /\ f.recovery_deadline = d
        /\ f.attempt_stop /\ ~f.available
    BY <2>1 DEF Peers
  <2> HIDE DEF f
  <2> QED  BY <1>2, <2>2, <2>3, <2>4, <2>5, SetFacts DEF States
<1> QED  BY <1>1, <1>2 DEF Peers

LEMMA DetachFacts ==
  ASSUME NEW q \in Peers
  PROVE  LET r == transport_detach(q)
         IN  /\ r \in Peers
             /\ ~r.engine /\ ~r.ready /\ r.detached
             /\ r.ice = q.ice /\ r.available = q.available
             /\ r.stop = q.stop /\ r.attempt_stop = q.attempt_stop
             /\ r.state = q.state /\ r.stable = q.stable
             /\ r.attempts = q.attempts /\ r.outage = q.outage
             /\ r.recovery_deadline = q.recovery_deadline
BY DEF transport_detach, Peers, Ticks
LEMMA UpFacts ==
  ASSUME TypeOK, Up(0)
  PROVE  /\ up' \in 0..Horizon
         /\ p.ready /\ p'.ready => up' = up
         /\ ~p.ready => up' = 0
BY ConstantsAssumption DEF TypeOK, Up, Least, Peers

(* A step that leaves what the properties speak of alone. *)
LEMMA QuietStep ==
  ASSUME IInv, Up(0), p' \in Peers,
         role' = role, policy' \in Policies,
         coord' = coord, setup' = setup, io' = io, caller' = caller,
         p'.engine = p.engine, p'.ice = p.ice, p'.detached = p.detached,
         p'.available = p.available, p'.stop = p.stop,
         p'.attempt_stop = p.attempt_stop, p'.ready = p.ready,
         p'.stable = p.stable, p'.state = p.state,
         p'.attempts = p.attempts, p'.outage = p.outage,
         p'.recovery_deadline = p.recovery_deadline
  PROVE  Good
<1>1. TypeOK'
  BY UpFacts DEF IInv, TypeOK
<1>2. Barrier' /\ Clock' /\ Ended'
  BY UpFacts DEF IInv, Barrier, Clock, Ended
<1> QED  BY <1>1, <1>2 DEF Good, IInv, TypeOK, Peers, Ticks, None, BudgetStep, GraceStep,
            FinalStep, Ended

-----------------------------------------------------------------------------
(* The coordinator *)

LEMMA DeliverStep == IInv /\ Deliver /\ Up(0) => Good
<1> SUFFICES ASSUME IInv, Deliver, Up(0) PROVE Good
  OBVIOUS
<1>1. p \in Peers /\ policy \in Policies
  BY DEF IInv, TypeOK
<1> QED  BY <1>1, QuietStep DEF Deliver, Delivered, Peers

LEMMA NotifyStep == IInv /\ Notify /\ Up(0) => Good
<1> SUFFICES ASSUME IInv, Notify, Up(0) PROVE Good
  OBVIOUS
<1>1. TypeOK'
  BY UpFacts DEF IInv, TypeOK, Notify, Delivered, Peers
<1>2. Barrier' /\ Clock' /\ Ended'
  BY UpFacts DEF IInv, TypeOK, Barrier, Clock, Ended, Notify, Delivered, Peers
<1> QED  BY <1>1, <1>2 DEF Good, IInv, TypeOK, Peers, Ticks, None, BudgetStep,
            GraceStep, FinalStep, Ended, Notify, Delivered

LEMMA AskedFacts ==
  ASSUME p \in Peers
  PROVE  /\ Asked \in Peers
         /\ Asked.engine = p.engine /\ Asked.ice = p.ice
         /\ Asked.detached = p.detached /\ Asked.available = p.available
         /\ Asked.stop = p.stop /\ Asked.attempt_stop = p.attempt_stop
         /\ Asked.ready = p.ready /\ Asked.stable = p.stable
         /\ Asked.recovery_deadline = p.recovery_deadline
         /\ ~p.requested => Asked = p
<1>1. CASE p.requested
  BY <1>1 DEF Asked, Peers, Ticks
<1>2. CASE ~p.requested
  BY <1>2 DEF Asked
<1> QED  BY <1>1, <1>2

(* The coordinator moves, between two attempts. *)
LEMMA IdleStep ==
  ASSUME IInv, Up(0), p' \in Peers,
         role' = role, policy' = policy,
         coord \in {"schedule", "session"},
         coord' \in {"notify", "announce", "close", "begin"}, setup' = setup, io' = io,
         caller' = caller, ~p.stop \/ p' = p,
         p'.engine = p.engine, p'.ice = p.ice, p'.detached = p.detached,
         p'.available = p.available, p'.stop = p.stop,
         p'.attempt_stop = p.attempt_stop, p'.ready = p.ready,
         p'.stable = p.stable, p'.state \notin {"FAILED", "CLOSED"} \/ p' = p,
         p.requested \/ (p'.attempts >= p.attempts /\ p'.outage = p.outage),
         p'.recovery_deadline = p.recovery_deadline
  PROVE  Good
<1>1. TypeOK'
  BY UpFacts DEF IInv, TypeOK
<1>2. Barrier' /\ Clock'
  BY UpFacts DEF IInv, Barrier, Clock
<1>3. Ended'
  BY DEF IInv, Ended
<1> QED  BY <1>1, <1>2, <1>3 DEF Good, IInv, TypeOK, Peers, Ticks, None,
            BudgetStep, GraceStep, FinalStep, Ended

LEMMA scheduleStep == IInv /\ schedule /\ Up(0) => Good
<1> SUFFICES ASSUME IInv, schedule, Up(0) PROVE Good
  OBVIOUS
<1>1. p \in Peers /\ coord = "schedule"
  BY DEF IInv, TypeOK, schedule
<1>2. CASE p.stop
  <2>1. /\ p' = p /\ coord' = "close" /\ p.attempts \in Nat
        /\ UNCHANGED <<role, policy, setup, io, caller>>
    BY <1>1, <1>2 DEF schedule, Peers
  <2> QED  BY <1>1, <2>1, IdleStep
<1>3. ASSUME NEW s \in {"PAUSED", "RETRY_WAIT"}, Wait(Asked, s), ~p.stop
      PROVE  Good
  <2>1. p' = ob_recovery_set_locked(Asked, s) /\ coord' = "notify"
    BY <1>3 DEF Wait
  <2>2. p.requested \/ Asked = p
    BY <1>1, AskedFacts
  <2> QED  BY <1>1, <1>3, <2>1, <2>2, AskedFacts, SetFacts, IdleStep
              DEF schedule, States, Peers
<1>4. ASSUME Attempt(Asked), ~p.stop PROVE Good
  <2> DEFINE s == IF Asked.ever_ready THEN "RECONNECTING" ELSE "CONNECTING"
             n == Asked.attempts + 1
             q == [Asked EXCEPT !.attempts = n, !.started = TRUE]
  <2>1. p' = ob_recovery_set_locked(q, s) /\ coord' = "announce"
    BY <1>4 DEF Attempt
  <2>2. s \in States \ {"FAILED", "CLOSED"}
    BY DEF States
  <2>3. p.requested \/ Asked = p
    BY <1>1, AskedFacts
  <2>n. Asked.attempts \in Nat /\ n \in Nat /\ n > Asked.attempts
    BY <1>1, AskedFacts DEF Peers
  <2> HIDE DEF s, n
  <2>4. /\ q \in Peers
        /\ q.engine = p.engine /\ q.ice = p.ice /\ q.detached = p.detached
        /\ q.available = p.available /\ q.stop = p.stop
        /\ q.attempt_stop = p.attempt_stop /\ q.ready = p.ready
        /\ q.stable = p.stable
        /\ q.recovery_deadline = p.recovery_deadline
        /\ q.attempts = n /\ q.outage = Asked.outage
    BY <1>1, <2>n, AskedFacts DEF Peers
  <2> HIDE DEF q
  <2>5. p.requested \/ (p'.attempts >= p.attempts /\ p'.outage = p.outage)
    BY <2>n, <2>1, <2>2, <2>3, <2>4, SetFacts
  <2> QED  BY <1>1, <1>4, <2>1, <2>2, <2>4, <2>5, SetFacts, IdleStep
              DEF schedule
<1> QED  BY <1>1, <1>2, <1>3, <1>4 DEF schedule

LEMMA server_sessionStep == IInv /\ server_session /\ Up(0) => Good
<1> SUFFICES ASSUME IInv, server_session, Up(0) PROVE Good
  OBVIOUS
<1>1. p \in Peers /\ coord = "session"
  BY DEF IInv, TypeOK, server_session
<1>2. CASE p.stop
  <2>1. /\ p' = p /\ coord' = "close" /\ p.attempts \in Nat
        /\ UNCHANGED <<role, policy, setup, io, caller>>
    BY <1>1, <1>2 DEF server_session, Peers
  <2> QED  BY <1>1, <2>1, IdleStep
<1>3. CASE ~p.stop /\ Wait(p, "RETRY_WAIT")
  BY <1>1, <1>3, SetFacts, IdleStep DEF Wait, server_session, States, Peers
<1>4. CASE ~p.stop /\ p.pending_session
  <2>1. p' = [p EXCEPT !.pending_session = FALSE] /\ coord' = "begin"
    BY <1>4 DEF server_session
  <2>2. p.state \notin {"FAILED", "CLOSED"}
    BY <1>4 DEF IInv, Ended
  <2>3. /\ p' \in Peers
        /\ p'.engine = p.engine /\ p'.ice = p.ice /\ p'.detached = p.detached
        /\ p'.available = p.available /\ p'.stop = p.stop
        /\ p'.attempt_stop = p.attempt_stop /\ p'.ready = p.ready
        /\ p'.stable = p.stable /\ p'.state = p.state
        /\ p'.recovery_deadline = p.recovery_deadline
        /\ p'.attempts = p.attempts /\ p'.outage = p.outage
        /\ p.attempts \in Nat
    BY <1>1, <2>1 DEF Peers
  <2>4. UNCHANGED <<role, policy, setup, io, caller>>
    BY DEF server_session
  <2> QED  BY <1>1, <1>4, <2>1, <2>2, <2>3, <2>4, IdleStep
<1> QED  BY <1>2, <1>3, <1>4 DEF server_session

(* A step that changes only where the threads are. *)
LEMMA MoveStep ==
  ASSUME IInv, Up(0), p' = p, role' = role, policy' = policy,
         TypeOK', Barrier', Ended'
  PROVE  Good
<1>1. Clock'
  BY UpFacts DEF IInv, Clock
<1> QED  BY <1>1 DEF Good, IInv, TypeOK, Peers, Ticks, None, BudgetStep,
            GraceStep, FinalStep, Ended

LEMMA FreshFacts ==
  ASSUME p \in Peers, policy \in Policies
  PROVE  /\ Fresh \in Peers
         /\ Fresh.engine = p.engine /\ Fresh.ice = p.ice
         /\ Fresh.detached = p.detached /\ ~Fresh.available
         /\ Fresh.stop = p.stop /\ ~Fresh.attempt_stop /\ ~Fresh.ready
         /\ Fresh.stable = p.stable /\ Fresh.state = p.state
         /\ Fresh.attempts = p.attempts /\ Fresh.outage = p.outage
         /\ Fresh.recovery_deadline = p.recovery_deadline
<1> DEFINE d == IF role = "client" /\ p.outage # None
                THEN Least(Timeout, policy.retry_budget - p.outage)
                ELSE Timeout
<1>1. d \in Int
  BY ConstantsAssumption DEF Least, Policy, Peers, Ticks, None
<1>2. Fresh = [p EXCEPT !.ready = FALSE, !.available = FALSE,
                        !.attempt_stop = FALSE, !.deadline = d]
  BY DEF Fresh
<1> HIDE DEF d
<1> QED  BY <1>1, <1>2 DEF Peers

LEMMA BeginAttemptStep == IInv /\ BeginAttempt /\ Up(0) => Good
<1> SUFFICES ASSUME IInv, BeginAttempt, Up(0) PROVE Good
  OBVIOUS
<1>1. p \in Peers /\ policy \in Policies /\ role \in {"client", "server"}
  BY DEF IInv, TypeOK
<1> DEFINE q == [Fresh EXCEPT !.started = TRUE]
           s == IF p.ever_ready THEN "RECONNECTING" ELSE "CONNECTING"
<1>2. /\ q \in Peers
      /\ q.engine = p.engine /\ q.ice = p.ice /\ q.detached = p.detached
      /\ ~q.available /\ q.stop = p.stop /\ ~q.attempt_stop /\ ~q.ready
      /\ q.stable = p.stable /\ q.attempts = p.attempts
      /\ q.outage = p.outage /\ q.recovery_deadline = p.recovery_deadline
  BY <1>1, FreshFacts DEF Peers
<1>3. s \in States \ {"FAILED", "CLOSED"}
  BY DEF States
<1>4. /\ coord = "begin" /\ coord' = "open"
      /\ p' = IF role = "client" THEN Fresh ELSE ob_recovery_set_locked(q, s)
      /\ UNCHANGED <<role, policy, setup, io, caller>>
  BY DEF BeginAttempt
<1> HIDE DEF q, s
<1>5. /\ p' \in Peers
      /\ p'.engine = p.engine /\ p'.ice = p.ice /\ p'.detached = p.detached
      /\ ~p'.available /\ p'.stop = p.stop /\ ~p'.attempt_stop /\ ~p'.ready
      /\ p'.stable = p.stable /\ p'.attempts = p.attempts
      /\ p'.outage = p.outage /\ p'.recovery_deadline = p.recovery_deadline
      /\ role = "client" => p'.state = p.state
      /\ role = "server" => p'.state \notin {"FAILED", "CLOSED"}
  BY <1>1, <1>2, <1>3, <1>4, FreshFacts, SetFacts
<1>6. TypeOK'
  BY <1>4, <1>5, UpFacts DEF IInv, TypeOK
<1>7. Barrier'
  BY <1>4, <1>5 DEF IInv, Barrier
<1>8. Clock' /\ Ended'
  BY <1>1, <1>4, <1>5 DEF IInv, Clock, Ended
<1> QED  BY <1>1, <1>4, <1>5, <1>6, <1>7, <1>8
            DEF Good, IInv, TypeOK, Peers, Ticks, None, BudgetStep, GraceStep, FinalStep, Ended
-----------------------------------------------------------------------------
(* Failures *)

(* Two records that differ in nothing the invariant speaks of. *)
Alike(r, q) ==
    /\ r.engine = q.engine /\ r.ice = q.ice /\ r.detached = q.detached
    /\ r.available = q.available /\ r.stop = q.stop
    /\ r.attempt_stop = q.attempt_stop /\ r.ready = q.ready
    /\ r.stable = q.stable /\ r.state = q.state
    /\ r.attempts = q.attempts /\ r.outage = q.outage
    /\ r.recovery_deadline = q.recovery_deadline

(* A failure ends the attempt, and at most the handle. *)
Failed(r, q) ==
    /\ r \in Peers
    /\ r.engine = q.engine /\ r.ice = q.ice /\ r.detached = q.detached
    /\ r.stable = q.stable /\ r.attempts = q.attempts
    /\ r.ready => q.ready
    /\ q.outage # None => r.outage = q.outage
    /\ q.recovery_deadline # None => r.recovery_deadline = q.recovery_deadline
    /\ q.stop => r.stop
    /\ q.stop => r.state \in {q.state, "FAILED"}
    /\ q.state = "CLOSED" /\ q.stop => r.state = "CLOSED"
    /\ r.state \in {"FAILED", "CLOSED"} => r.stop \/ r.state = q.state
    /\ \/ r.attempt_stop /\ ~r.available
       \/ /\ r.attempt_stop = q.attempt_stop /\ r.available = q.available
          /\ r.stop = q.stop

LEMMA FailedByFail ==
  ASSUME NEW q \in Peers
  PROVE  Failed(ob_peer_fail_locked(q), q)
BY FailFacts DEF Failed, Peers

LEMMA FailedByTransport ==
  ASSUME NEW q \in Peers, policy \in Policies
  PROVE  Failed(ob_peer_transport_fail_locked(q), q)
<1> DEFINE r == ob_peer_transport_fail_locked(q)
<1>1. CASE q.stop
  BY <1>1, TransportFailFacts DEF Failed, Peers
<1>2. CASE ~q.stop
  BY <1>2, TransportFailFacts DEF Failed, Peers
<1> QED  BY <1>1, <1>2

LEMMA FailStep ==
  ASSUME IInv, Up(0), NEW q \in Peers, Alike(q, p), Failed(p', q),
         role' = role, policy' = policy, io' = io,
         coord' = coord \/ (coord = "open" /\ coord' = "detach"),
         setup' = setup \/ (setup # "none" /\ setup' = "exited"),
         caller' = caller \/ (caller = "using" /\ caller' = "failed" /\ p'.stop)
  PROVE  Good
<1>0. p \in Peers
  BY DEF IInv, TypeOK
<1>1. TypeOK'
  BY UpFacts DEF IInv, TypeOK, Failed
<1>2. Barrier'
  <2>1. CASE p'.attempt_stop /\ ~p'.available
    BY <1>0, <2>1 DEF IInv, Barrier, Failed, Alike
  <2>2. CASE /\ p'.attempt_stop = p.attempt_stop /\ p'.available = p.available
             /\ p'.stop = p.stop
    BY <1>0, <2>2 DEF IInv, Barrier, Failed, Alike
  <2> QED  BY <2>1, <2>2 DEF Failed, Alike
<1>3. Clock'
  BY UpFacts DEF IInv, Clock, Failed, Alike
<1>4. Ended'
  BY <1>0 DEF IInv, Ended, Failed, Alike
<1>5. BudgetStep
  BY <1>0 DEF BudgetStep, Failed, Alike, Peers
<1>6. GraceStep
  BY <1>0 DEF GraceStep, Failed, Alike, Peers, Ticks, None
<1>7. FinalStep
  BY <1>0 DEF FinalStep, Failed, Alike, IInv, Ended
<1> QED  BY <1>1, <1>2, <1>3, <1>4, <1>5, <1>6, <1>7 DEF Good, IInv

LEMMA DetachStep ==
  ASSUME IInv, Up(0), NEW r \in Peers, Failed(r, p), p' = transport_detach(r),
         UNCHANGED <<role, policy, coord, setup, io, caller>>
  PROVE  Good
<1>0. p \in Peers
  BY DEF IInv, TypeOK
<1> DEFINE F(x) ==
      /\ x \in Peers
      /\ ~x.engine /\ ~x.ready /\ x.detached
      /\ x.ice = r.ice /\ x.available = r.available
      /\ x.stop = r.stop /\ x.attempt_stop = r.attempt_stop
      /\ x.state = r.state /\ x.stable = r.stable
      /\ x.attempts = r.attempts /\ x.outage = r.outage
      /\ x.recovery_deadline = r.recovery_deadline
<1>x. F(p')
  BY DetachFacts
<1>1. TypeOK'
  BY <1>x, UpFacts DEF IInv, TypeOK
<1>2. Barrier'
  <2>1. CASE r.attempt_stop /\ ~r.available
    BY <1>0, <1>x, <2>1 DEF IInv, Barrier, Failed
  <2>2. CASE /\ r.attempt_stop = p.attempt_stop /\ r.available = p.available
             /\ r.stop = p.stop
    BY <1>0, <1>x, <2>2 DEF IInv, Barrier, Failed
  <2> QED  BY <2>1, <2>2 DEF Failed
<1>3. Clock'
  BY <1>x DEF Clock
<1>4. Ended'
  BY <1>0, <1>x DEF IInv, Ended, Failed
<1>5. BudgetStep
  BY <1>0, <1>x DEF BudgetStep, Failed, Peers
<1>6. GraceStep
  BY <1>0, <1>x DEF GraceStep, Failed, Peers, Ticks, None
<1>7. FinalStep
  BY <1>0, <1>x DEF FinalStep, Failed, IInv, Ended
<1> QED  BY <1>1, <1>2, <1>3, <1>4, <1>5, <1>6, <1>7 DEF Good, IInv

-----------------------------------------------------------------------------
(* The coordinator, during and after an attempt *)

LEMMA ControlAlike ==
  ASSUME NEW q \in Peers, NEW c \in {"unknown", "managed", "legacy"}
  PROVE  /\ [q EXCEPT !.control = c] \in Peers
         /\ Alike([q EXCEPT !.control = c], q)
BY DEF Peers, Alike

LEMMA open_sessionStep == IInv /\ open_session /\ Up(0) => Good
<1> SUFFICES ASSUME IInv, open_session, Up(0) PROVE Good
  OBVIOUS
<1>1. /\ p \in Peers /\ policy \in Policies /\ coord = "open"
      /\ UNCHANGED <<role, policy, io, caller>>
  BY DEF IInv, TypeOK, open_session
<1>2. Discovered \subseteq {"unknown", "managed", "legacy"}
      /\ p.control \in {"unknown", "managed", "legacy"}
  BY <1>1 DEF Discovered, Peers
<1>3. CASE Opened
  <2>1. PICK c \in {"unknown", "managed", "legacy"} :
          p' = [p EXCEPT !.control = c]
    BY <1>2, <1>3 DEF Opened
  <2>2. p' \in Peers /\ Alike(p', p)
    BY <1>1, <2>1, ControlAlike
  <2>3. coord' = "run" /\ setup' = "working"
    BY <1>3 DEF Opened
  <2>4. TypeOK'
    BY <1>1, <2>2, <2>3, UpFacts DEF IInv, TypeOK
  <2>5. Barrier' /\ Clock' /\ Ended'
    BY <1>1, <2>2, <2>3, UpFacts DEF IInv, Barrier, Clock, Ended, Alike
  <2> QED  BY <1>1, <2>2, <2>4, <2>5
              DEF Good, IInv, BudgetStep, GraceStep, FinalStep, Alike, Ended, Peers,
                  Ticks, None
<1>4. ASSUME NEW c \in {"unknown", "managed", "legacy"},
             p' = ob_peer_transport_fail_locked([p EXCEPT !.control = c]),
             coord' = "detach", setup' = setup
      PROVE  Good
  BY <1>1, <1>4, ControlAlike, FailedByTransport, FailStep
<1>5. CASE OpenFailed
  <2>1. coord' = "detach" /\ setup' = setup
    BY <1>5 DEF OpenFailed
  <2>2. CASE p' = ob_peer_fail_locked(p)
    <3>1. Alike(p, p)
      BY DEF Alike
    <3> QED  BY <1>1, <2>1, <2>2, <3>1, FailedByFail, FailStep
  <2>3. CASE \E c \in Discovered \cup {p.control} :
               p' = ob_peer_transport_fail_locked([p EXCEPT !.control = c])
    BY <1>2, <1>4, <2>1, <2>3
  <2> QED  BY <1>5, <2>2, <2>3 DEF OpenFailed
<1>6. CASE ThreadFailed
  BY <1>2, <1>4, <1>6 DEF ThreadFailed
<1> QED  BY <1>3, <1>5, <1>6 DEF open_session

LEMMA StableResetStep == IInv /\ StableReset /\ Up(0) => Good
<1> SUFFICES ASSUME IInv, StableReset, Up(0) PROVE Good
  OBVIOUS
<1>1. p \in Peers /\ policy \in Policies
  BY DEF IInv, TypeOK
<1>2. /\ p' \in Peers
      /\ p'.engine = p.engine /\ p'.ice = p.ice /\ p'.detached = p.detached
      /\ p'.available = p.available /\ p'.stop = p.stop
      /\ p'.attempt_stop = p.attempt_stop /\ p'.ready = p.ready
      /\ p'.stable = p.stable /\ p'.state = p.state
      /\ p'.recovery_deadline = p.recovery_deadline
  BY <1>1 DEF StableReset, Peers, Ticks, None
<1>3. UNCHANGED <<role, policy, coord, setup, io, caller>>
  BY DEF StableReset
<1>4. up >= policy.stable_reset
  BY DEF StableReset, IInv, Clock
<1>5. TypeOK'
  BY <1>2, <1>3, UpFacts DEF IInv, TypeOK
<1>6. Barrier' /\ Clock' /\ Ended'
  BY <1>2, <1>3, UpFacts DEF IInv, Barrier, Clock, Ended
<1> QED  BY <1>1, <1>2, <1>4, <1>5, <1>6
            DEF Good, IInv, BudgetStep, GraceStep, FinalStep, Ended, Peers,
                Ticks, None

LEMMA LeaveLoopStep == IInv /\ LeaveLoop /\ Up(0) => Good
<1> SUFFICES ASSUME IInv, LeaveLoop, Up(0) PROVE Good
  OBVIOUS
<1>1. TypeOK'
  BY UpFacts DEF IInv, TypeOK, LeaveLoop
<1>2. Barrier' /\ Ended'
  BY DEF IInv, Barrier, Ended, LeaveLoop
<1> QED  BY <1>1, <1>2, MoveStep DEF LeaveLoop

LEMMA JoinSetupStep == IInv /\ JoinSetup /\ Up(0) => Good
<1> SUFFICES ASSUME IInv, JoinSetup, Up(0) PROVE Good
  OBVIOUS
<1>1. TypeOK'
  BY UpFacts DEF IInv, TypeOK, JoinSetup
<1>2. Barrier' /\ Ended'
  BY DEF IInv, Barrier, Ended, JoinSetup
<1> QED  BY <1>1, <1>2, MoveStep DEF JoinSetup

LEMMA AwaitDetachStep == IInv /\ AwaitDetach /\ Up(0) => Good
<1> SUFFICES ASSUME IInv, AwaitDetach, Up(0) PROVE Good
  OBVIOUS
<1>1. TypeOK'
  BY UpFacts DEF IInv, TypeOK, AwaitDetach
<1>2. Barrier' /\ Ended'
  BY DEF IInv, Barrier, Ended, AwaitDetach
<1> QED  BY <1>1, <1>2, MoveStep DEF AwaitDetach

(* The ICE agent goes once no engine is left. *)
LEMMA IceGoesStep ==
  ASSUME IInv, Up(0), p.detached, p.attempt_stop \/ ~p.available,
         setup = "none", p' = [p EXCEPT !.ice = FALSE],
         role' = role, policy' = policy, setup' = setup, io' = io,
         \/ coord = "destroy" /\ coord' = "retired" /\ caller' = caller
         \/ coord = "done" /\ coord' = coord /\ caller = "joining" /\ caller' = "freed"
  PROVE  Good
<1>1. p \in Peers
  BY DEF IInv, TypeOK
<1>2. /\ p' \in Peers /\ ~p'.ice
      /\ p'.engine = p.engine /\ p'.detached = p.detached
      /\ p'.available = p.available /\ p'.stop = p.stop
      /\ p'.attempt_stop = p.attempt_stop /\ p'.ready = p.ready
      /\ p'.stable = p.stable /\ p'.state = p.state
      /\ p'.attempts = p.attempts /\ p'.outage = p.outage
      /\ p'.recovery_deadline = p.recovery_deadline
  BY <1>1 DEF Peers
<1>3. TypeOK'
  BY <1>2, UpFacts DEF IInv, TypeOK
<1>4. Barrier' /\ Clock' /\ Ended'
  BY <1>2, UpFacts DEF IInv, Barrier, Clock, Ended
<1> QED  BY <1>1, <1>2, <1>3, <1>4
            DEF Good, IInv, BudgetStep, GraceStep, FinalStep, Ended, Peers,
                Ticks, None

LEMMA DestroyIceStep == IInv /\ DestroyIce /\ Up(0) => Good
<1> SUFFICES ASSUME IInv, DestroyIce, Up(0) PROVE Good
  OBVIOUS
<1>1. p.detached /\ (p.attempt_stop \/ ~p.available) /\ setup = "none"
  BY DEF IInv, Barrier, DestroyIce
<1> QED  BY <1>1, IceGoesStep DEF DestroyIce

LEMMA AfterRetireStep == IInv /\ AfterRetire /\ Up(0) => Good
<1> SUFFICES ASSUME IInv, AfterRetire, Up(0) PROVE Good
  OBVIOUS
<1>1. /\ p \in Peers /\ policy \in Policies /\ coord = "retired"
      /\ UNCHANGED <<role, policy, setup, io, caller>>
  BY DEF IInv, TypeOK, AfterRetire
<1>2. ASSUME p' = p, coord' \in {"close", "session"} PROVE Good
  <2>1. TypeOK'
    BY <1>1, <1>2, UpFacts DEF IInv, TypeOK
  <2>2. Barrier' /\ Ended'
    BY <1>1, <1>2 DEF IInv, Barrier, Ended
  <2> QED  BY <1>1, <1>2, <2>1, <2>2, MoveStep
<1>3. ASSUME p' = ob_peer_fail_locked(p), coord' = "close" PROVE Good
  <2>1. Failed(p', p)
    BY <1>1, <1>3, FailedByFail
  <2>2. TypeOK'
    BY <1>1, <1>3, <2>1, UpFacts DEF IInv, TypeOK, Failed
  <2>3. Barrier'
    BY <1>1, <1>3, <2>1 DEF IInv, Barrier, Failed
  <2>4. Clock' /\ Ended'
    BY <1>1, <2>1, UpFacts DEF IInv, Clock, Ended, Failed
  <2>5. BudgetStep
    BY <1>1, <2>1 DEF BudgetStep, Failed, Peers
  <2>6. GraceStep
    BY <1>1, <2>1 DEF GraceStep, Failed, Peers, Ticks, None
  <2>7. FinalStep
    BY <1>1, <2>1 DEF FinalStep, Failed, IInv, Ended
  <2> QED  BY <2>2, <2>3, <2>4, <2>5, <2>6, <2>7 DEF Good, IInv
<1>4. ASSUME delay_next PROVE Good
  <2> DEFINE o == IF p.outage = None THEN 0 ELSE p.outage
  <2>1. PICK d \in Delays : p' = [p EXCEPT !.outage = o, !.retry = d]
    BY <1>4 DEF delay_next
  <2>2. d \in Nat
    BY <1>1, ConstantsAssumption DEF Delays, Policy
  <2>3. o \in Ticks /\ o # None
    BY <1>1 DEF Peers, Ticks, None
  <2> HIDE DEF o
  <2>4. /\ p' \in Peers
        /\ p'.engine = p.engine /\ p'.ice = p.ice /\ p'.detached = p.detached
        /\ p'.available = p.available /\ p'.stop = p.stop
        /\ p'.attempt_stop = p.attempt_stop /\ p'.ready = p.ready
        /\ p'.stable = p.stable /\ p'.state = p.state
        /\ p'.attempts = p.attempts /\ p'.outage = o
        /\ p'.recovery_deadline = p.recovery_deadline
    BY <1>1, <2>1, <2>2, <2>3 DEF Peers
  <2>5. coord' = "schedule"
    BY <1>4 DEF delay_next
  <2>6. TypeOK'
    BY <1>1, <2>4, <2>5, UpFacts DEF IInv, TypeOK
  <2>7. Barrier' /\ Clock' /\ Ended'
    BY <1>1, <2>4, <2>5, UpFacts DEF IInv, Barrier, Clock, Ended
  <2> QED  BY <1>1, <2>3, <2>4, <2>6, <2>7
              DEF Good, IInv, BudgetStep, GraceStep, FinalStep, Ended, Peers,
                  Ticks, None
<1> QED  BY <1>2, <1>3, <1>4 DEF AfterRetire

LEMMA CoordinatorEndsStep == IInv /\ CoordinatorEnds /\ Up(0) => Good
<1> SUFFICES ASSUME IInv, CoordinatorEnds, Up(0) PROVE Good
  OBVIOUS
<1>1. p \in Peers
  BY DEF IInv, TypeOK
<1>2. TypeOK'
  BY <1>1, UpFacts DEF IInv, TypeOK, CoordinatorEnds, Delivered, Peers
<1>3. Barrier' /\ Clock' /\ Ended'
  BY <1>1, UpFacts DEF IInv, Barrier, Clock, Ended, CoordinatorEnds, Delivered, Peers
<1> QED  BY <1>1, <1>2, <1>3
            DEF Good, IInv, BudgetStep, GraceStep, FinalStep, Ended, Peers,
                Ticks, None, CoordinatorEnds, Delivered

-----------------------------------------------------------------------------
(* The setup worker *)

LEMMA CreateIceStep == IInv /\ CreateIce /\ Up(0) => Good
<1> SUFFICES ASSUME IInv, CreateIce, Up(0) PROVE Good
  OBVIOUS
<1>1. p \in Peers
  BY DEF IInv, TypeOK
<1>2. /\ p' \in Peers /\ p'.ice
      /\ p'.engine = p.engine /\ p'.detached = p.detached
      /\ p'.available = p.available /\ p'.stop = p.stop
      /\ p'.attempt_stop = p.attempt_stop /\ p'.ready = p.ready
      /\ p'.stable = p.stable /\ p'.state = p.state
      /\ p'.attempts = p.attempts /\ p'.outage = p.outage
      /\ p'.recovery_deadline = p.recovery_deadline
  BY <1>1 DEF CreateIce, Peers
<1>3. /\ setup = "working" /\ setup' = "gathering"
      /\ UNCHANGED <<role, policy, coord, io, caller>>
  BY DEF CreateIce
<1>4. TypeOK'
  BY <1>2, <1>3, UpFacts DEF IInv, TypeOK
<1>5. Barrier' /\ Clock' /\ Ended'
  BY <1>2, <1>3, UpFacts DEF IInv, Barrier, Clock, Ended
<1> QED  BY <1>1, <1>2, <1>4, <1>5
            DEF Good, IInv, BudgetStep, GraceStep, FinalStep, Ended, Peers,
                Ticks, None

LEMMA OfferTransportStep == IInv /\ OfferTransport /\ Up(0) => Good
<1> SUFFICES ASSUME IInv, OfferTransport, Up(0) PROVE Good
  OBVIOUS
<1>1. /\ p \in Peers /\ setup = "gathering" /\ setup' = "lingering"
      /\ UNCHANGED <<role, policy, coord, io, caller>>
  BY DEF IInv, TypeOK, OfferTransport
<1>2. CASE p.stop \/ p.attempt_stop
  <2>1. p' = p
    BY <1>2 DEF OfferTransport
  <2>2. TypeOK'
    BY <1>1, <2>1, UpFacts DEF IInv, TypeOK
  <2>3. Barrier' /\ Ended'
    BY <1>1, <2>1 DEF IInv, Barrier, Ended
  <2> QED  BY <1>1, <2>1, <2>2, <2>3, MoveStep
<1>3. CASE ~(p.stop \/ p.attempt_stop)
  <2>1. /\ p' \in Peers /\ p'.ice = p.ice /\ ~p'.detached /\ p'.available
        /\ p'.engine = p.engine /\ p'.stop = p.stop
        /\ p'.attempt_stop = p.attempt_stop /\ p'.ready = p.ready
        /\ p'.stable = p.stable /\ p'.state = p.state
        /\ p'.attempts = p.attempts /\ p'.outage = p.outage
        /\ p'.recovery_deadline = p.recovery_deadline
    BY <1>1, <1>3 DEF OfferTransport, Peers
  <2>2. coord = "run"
    BY <1>1, <1>3 DEF IInv, Barrier
  <2>3. TypeOK'
    BY <1>1, <2>1, UpFacts DEF IInv, TypeOK
  <2>4. Barrier' /\ Clock' /\ Ended'
    BY <1>1, <1>3, <2>1, <2>2, UpFacts DEF IInv, Barrier, Clock, Ended
  <2> QED  BY <1>1, <2>1, <2>3, <2>4
              DEF Good, IInv, BudgetStep, GraceStep, FinalStep, Ended, Peers,
                  Ticks, None
<1> QED  BY <1>2, <1>3

LEMMA SetupFailsStep == IInv /\ SetupFails /\ Up(0) => Good
<1> SUFFICES ASSUME IInv, SetupFails, Up(0) PROVE Good
  OBVIOUS
<1>1. p \in Peers /\ policy \in Policies /\ Alike(p, p)
  BY DEF IInv, TypeOK, Alike
<1>2. Failed(p', p)
  BY <1>1, FailedByFail, FailedByTransport DEF SetupFails, Failures
<1> QED  BY <1>1, <1>2, FailStep DEF SetupFails

LEMMA SetupExpiresStep == IInv /\ SetupExpires /\ Up(0) => Good
<1> SUFFICES ASSUME IInv, SetupExpires, Up(0) PROVE Good
  OBVIOUS
<1>1. p \in Peers /\ policy \in Policies /\ Alike(p, p)
  BY DEF IInv, TypeOK, Alike
<1>2. Failed(p', p)
  BY <1>1, FailedByTransport DEF SetupExpires
<1> QED  BY <1>1, <1>2, FailStep DEF SetupExpires

LEMMA SetupMovesStep ==
  IInv /\ (SetupUnready \/ SetupInTime \/ SetupCancelled) /\ Up(0) => Good
<1> SUFFICES ASSUME IInv, SetupUnready \/ SetupInTime \/ SetupCancelled, Up(0)
             PROVE  Good
  OBVIOUS
<1>1. TypeOK'
  BY UpFacts DEF IInv, TypeOK, SetupUnready, SetupInTime, SetupCancelled
<1>2. Barrier' /\ Ended'
  BY DEF IInv, Barrier, Ended, SetupUnready, SetupInTime, SetupCancelled
<1> QED  BY <1>1, <1>2, MoveStep DEF SetupUnready, SetupInTime, SetupCancelled

-----------------------------------------------------------------------------
(* The I/O owner *)

LEMMA DetachIdleStep == IInv /\ DetachIdle /\ Up(0) => Good
<1> SUFFICES ASSUME IInv, DetachIdle, Up(0) PROVE Good
  OBVIOUS
<1>1. p \in Peers
  BY DEF IInv, TypeOK
<1>2. Failed(p, p)
  BY <1>1 DEF Failed
<1> QED  BY <1>1, <1>2, DetachStep DEF DetachIdle

LEMMA engine_initStep == IInv /\ engine_init /\ Up(0) => Good
<1> SUFFICES ASSUME IInv, engine_init, Up(0) PROVE Good
  OBVIOUS
<1>1. /\ p \in Peers /\ policy \in Policies
      /\ ~p.attempt_stop /\ p.available
      /\ UNCHANGED <<role, policy, coord, setup, io, caller>>
  BY DEF IInv, TypeOK, engine_init
<1>2. p.ice /\ coord = "run" /\ ~p.stop
  BY <1>1 DEF IInv, Barrier
<1> DEFINE q(made) == [[p EXCEPT !.detached = FALSE] EXCEPT !.engine = made]
<1>3. ASSUME NEW made \in BOOLEAN
      PROVE  /\ q(made) \in Peers /\ ~q(made).detached /\ q(made).ice
             /\ q(made).available /\ q(made).stop = p.stop
             /\ q(made).attempt_stop = p.attempt_stop /\ q(made).ready = p.ready
             /\ q(made).stable = p.stable /\ q(made).state = p.state
             /\ q(made).attempts = p.attempts /\ q(made).outage = p.outage
             /\ q(made).recovery_deadline = p.recovery_deadline
  BY <1>1, <1>2 DEF Peers
<1>4. PICK made \in BOOLEAN :
        p' \in {q(made), ob_peer_transport_fail_locked(q(made))}
  BY DEF engine_init
<1> HIDE DEF q
<1>5. p' = q(made) \/ Failed(p', q(made))
  BY <1>1, <1>3, <1>4, FailedByTransport
<1>6. TypeOK'
  BY <1>1, <1>3, <1>5, UpFacts DEF IInv, TypeOK, Failed
<1>7. Barrier'
  BY <1>1, <1>2, <1>3, <1>5 DEF IInv, Barrier, Failed
<1>8. Clock' /\ Ended'
  BY <1>1, <1>3, <1>5, UpFacts DEF IInv, Clock, Ended, Failed
<1>9. BudgetStep /\ GraceStep
  BY <1>1, <1>3, <1>5 DEF BudgetStep, GraceStep, Failed, Peers, Ticks, None
<1>10. FinalStep
  BY <1>2 DEF FinalStep, IInv, Ended
<1> QED  BY <1>6, <1>7, <1>8, <1>9, <1>10 DEF Good, IInv

LEMMA EngineFailsStep ==
  IInv /\ (EngineFails \/ EngineExpires) /\ Up(0) => Good
<1> SUFFICES ASSUME IInv, EngineFails \/ EngineExpires, Up(0) PROVE Good
  OBVIOUS
<1>1. p \in Peers /\ policy \in Policies
      /\ UNCHANGED <<role, policy, coord, setup, io, caller>>
  BY DEF IInv, TypeOK, EngineFails, EngineExpires
<1>2. PICK r \in Failures(p) : p' = transport_detach(r)
  BY DEF EngineFails, EngineExpires, Failures
<1>3. Failed(r, p)
  BY <1>1, <1>2, FailedByFail, FailedByTransport DEF Failures
<1>4. r \in Peers
  BY <1>3 DEF Failed
<1> QED  BY <1>1, <1>2, <1>3, <1>4, DetachStep

LEMMA ob_peer_mark_readyStep == IInv /\ ob_peer_mark_ready /\ Up(0) => Good
<1> SUFFICES ASSUME IInv, ob_peer_mark_ready, Up(0) PROVE Good
  OBVIOUS
<1>1. /\ p \in Peers /\ policy \in Policies /\ ~p.ready /\ ~p.stop
      /\ UNCHANGED <<role, policy, coord, setup, io, caller>>
  BY DEF IInv, TypeOK, ob_peer_mark_ready
<1>2. CASE p' = transport_detach(ob_peer_transport_fail_locked(p))
  <2>1. Failed(ob_peer_transport_fail_locked(p), p)
    BY <1>1, FailedByTransport
  <2>2. ob_peer_transport_fail_locked(p) \in Peers
    BY <2>1 DEF Failed
  <2> QED  BY <1>1, <1>2, <2>1, <2>2, DetachStep
<1>3. CASE p' = Marked
  <2> DEFINE a == IF p.ever_ready THEN p.attempts ELSE 0
             o == IF p.ever_ready THEN p.outage ELSE None
             q == [p EXCEPT !.ready = TRUE, !.ever_ready = TRUE,
                     !.attempts = a, !.outage = o,
                     !.recovery_deadline = None, !.requested = FALSE,
                     !.stable = 0, !.retry = 0]
  <2>1. Marked = ob_recovery_set_locked(q, "CONNECTED")
    BY DEF Marked
  <2>2. a \in Nat /\ o \in Ticks
    BY <1>1 DEF Peers, Ticks, None
  <2>3. p.ever_ready => a = p.attempts /\ o = p.outage
    OBVIOUS
  <2> HIDE DEF a, o
  <2>4. /\ q \in Peers /\ q.ready /\ q.stable = 0
        /\ q.engine = p.engine /\ q.ice = p.ice /\ q.detached = p.detached
        /\ q.available = p.available /\ q.stop = p.stop
        /\ q.attempt_stop = p.attempt_stop
        /\ q.attempts = a /\ q.outage = o /\ q.recovery_deadline = None
    BY <1>1, <2>2 DEF Peers, Ticks, None
  <2> HIDE DEF q
  <2>5. /\ p' \in Peers /\ p'.ready /\ p'.stable = 0
        /\ p'.engine = p.engine /\ p'.ice = p.ice /\ p'.detached = p.detached
        /\ p'.available = p.available /\ p'.stop = p.stop
        /\ p'.attempt_stop = p.attempt_stop /\ p'.state = "CONNECTED"
        /\ p'.attempts = a /\ p'.outage = o /\ p'.recovery_deadline = None
    BY <1>3, <2>1, <2>4, SetFacts DEF States
  <2>6. TypeOK'
    BY <1>1, <2>5, UpFacts DEF IInv, TypeOK
  <2>7. Barrier'
    BY <1>1, <2>5 DEF IInv, Barrier
  <2>8. Clock' /\ Ended'
    BY <1>1, <2>5, UpFacts DEF IInv, Clock, Ended
  <2>9. BudgetStep
    BY <1>1, <2>3, <2>5 DEF BudgetStep, Peers
  <2>10. GraceStep
    BY <2>5 DEF GraceStep
  <2>11. FinalStep
    BY <1>1 DEF FinalStep, IInv, Ended
  <2> QED  BY <2>6, <2>7, <2>8, <2>9, <2>10, <2>11 DEF Good, IInv
<1> QED  BY <1>2, <1>3 DEF ob_peer_mark_ready

LEMMA OwnerEndsStep == IInv /\ OwnerEnds /\ Up(0) => Good
<1> SUFFICES ASSUME IInv, OwnerEnds, Up(0) PROVE Good
  OBVIOUS
<1>1. p \in Peers
  BY DEF IInv, TypeOK
<1>2. /\ p' \in Peers /\ ~p'.engine /\ p'.detached
      /\ p'.ice = p.ice
      /\ p'.available = p.available /\ p'.stop = p.stop
      /\ p'.attempt_stop = p.attempt_stop /\ p'.ready = p.ready
      /\ p'.stable = p.stable /\ p'.state = p.state
      /\ p'.attempts = p.attempts /\ p'.outage = p.outage
      /\ p'.recovery_deadline = p.recovery_deadline
  BY <1>1 DEF OwnerEnds, Peers
<1>3. UNCHANGED <<role, policy, coord, setup, caller>> /\ io' = "exited"
  BY DEF OwnerEnds
<1>4. TypeOK'
  BY <1>2, <1>3, UpFacts DEF IInv, TypeOK
<1>5. Barrier' /\ Clock' /\ Ended'
  BY <1>2, <1>3, UpFacts DEF IInv, Barrier, Clock, Ended
<1> QED  BY <1>1, <1>2, <1>4, <1>5
            DEF Good, IInv, BudgetStep, GraceStep, FinalStep, Ended, Peers,
                Ticks, None

-----------------------------------------------------------------------------
(* The caller *)

LEMMA ConnectReturnsStep == IInv /\ ConnectReturns /\ Up(0) => Good
<1> SUFFICES ASSUME IInv, ConnectReturns, Up(0) PROVE Good
  OBVIOUS
<1>1. TypeOK'
  BY UpFacts DEF IInv, TypeOK, ConnectReturns
<1>2. Barrier' /\ Ended'
  BY DEF IInv, Barrier, Ended, ConnectReturns
<1> QED  BY <1>1, <1>2, MoveStep DEF ConnectReturns

(* ConnectTimesOut, IdleExpires and ServerStops end the handle. *)
LEMMA EndsStep ==
  IInv /\ (ConnectTimesOut \/ IdleExpires \/ ServerStops) /\ Up(0) => Good
<1> SUFFICES ASSUME IInv, ConnectTimesOut \/ IdleExpires \/ ServerStops, Up(0)
             PROVE  Good
  OBVIOUS
<1>1. p \in Peers /\ Alike(p, p)
  BY DEF IInv, TypeOK, Alike
<1>2. Failed(p', p)
  BY <1>1, FailedByFail DEF ConnectTimesOut, IdleExpires, ServerStops
<1> QED  BY <1>1, <1>2, FailStep DEF ConnectTimesOut, IdleExpires, ServerStops

LEMMA AsksStep ==
  IInv /\ (ob_remote_peer_reconnect \/ ob_remote_peer_set_state_callback)
       /\ Up(0) => Good
<1> SUFFICES ASSUME IInv, Up(0),
                    ob_remote_peer_reconnect \/ ob_remote_peer_set_state_callback
             PROVE  Good
  OBVIOUS
<1>1. p \in Peers /\ policy \in Policies
  BY DEF IInv, TypeOK
<1> QED  BY <1>1, QuietStep DEF ob_remote_peer_reconnect,
            ob_remote_peer_set_state_callback, Peers

LEMMA PolicyStep == IInv /\ ob_recovery_apply_policy_locked /\ Up(0) => Good
<1> SUFFICES ASSUME IInv, ob_recovery_apply_policy_locked, Up(0) PROVE Good
  OBVIOUS
<1>1. p \in Peers /\ policy' \in Policies
      /\ UNCHANGED <<role, coord, setup, io, caller>>
  BY DEF IInv, TypeOK, ob_recovery_apply_policy_locked
<1>2. CASE p' = p
  BY <1>1, <1>2, QuietStep
<1>3. CASE p' = [p EXCEPT !.retry = policy'.max_delay,
                          !.callback_pending = @ \/ p.state = "RETRY_WAIT"]
  <2> DEFINE c == p.callback_pending \/ p.state = "RETRY_WAIT"
  <2>1. policy'.max_delay \in Nat
    BY <1>1, ConstantsAssumption DEF Policy
  <2>2. c \in BOOLEAN
    OBVIOUS
  <2>3. p' = [p EXCEPT !.retry = policy'.max_delay, !.callback_pending = c]
    BY <1>3
  <2> HIDE DEF c
  <2>4. p' \in Peers /\ Alike(p', p)
    BY <1>1, <2>1, <2>2, <2>3 DEF Peers, Alike
  <2> QED  BY <1>1, <2>4, QuietStep DEF Alike
<1> QED  BY <1>2, <1>3 DEF ob_recovery_apply_policy_locked

LEMMA CloseFailsStep == IInv /\ CloseFails /\ Up(0) => Good
<1> SUFFICES ASSUME IInv, CloseFails, Up(0) PROVE Good
  OBVIOUS
<1>1. p \in Peers /\ Alike(p, p)
  BY DEF IInv, TypeOK, Alike
<1>2. Failed(p', p)
  BY <1>1, FailedByFail DEF CloseFails
<1>3. p'.stop
  <2>1. CASE p.state = "CLOSED"
    BY <1>1, <2>1, FailFacts DEF CloseFails, IInv, Ended
  <2>2. CASE p.state # "CLOSED"
    BY <1>1, <2>2, FailFacts DEF CloseFails
  <2> QED  BY <2>1, <2>2
<1> QED  BY <1>1, <1>2, <1>3, FailStep DEF CloseFails

LEMMA CloseClosesStep == IInv /\ CloseCloses /\ Up(0) => Good
<1> SUFFICES ASSUME IInv, CloseCloses, Up(0) PROVE Good
  OBVIOUS
<1>1. /\ p \in Peers /\ caller = "failed" /\ caller' = "closed" /\ p.stop
      /\ UNCHANGED <<role, policy, coord, setup, io>>
  BY DEF IInv, TypeOK, CloseCloses, Ended
<1>2. /\ p' \in Peers /\ p'.state = "CLOSED"
      /\ p'.engine = p.engine /\ p'.ice = p.ice /\ p'.detached = p.detached
      /\ p'.available = p.available /\ p'.stop = p.stop
      /\ p'.attempt_stop = p.attempt_stop
      /\ p'.ready = p.ready /\ p'.stable = p.stable
      /\ p'.attempts = p.attempts /\ p'.outage = p.outage
      /\ p'.recovery_deadline = p.recovery_deadline
  BY <1>1, SetFacts DEF CloseCloses, States
<1>3. TypeOK'
  BY <1>1, <1>2, UpFacts DEF IInv, TypeOK
<1>4. Barrier' /\ Clock' /\ Ended'
  BY <1>1, <1>2, UpFacts DEF IInv, Barrier, Clock, Ended
<1> QED  BY <1>1, <1>2, <1>3, <1>4
            DEF Good, IInv, BudgetStep, GraceStep, FinalStep, Ended, Peers,
                Ticks, None

LEMMA ob_peer_destroyStep == IInv /\ ob_peer_destroy /\ Up(0) => Good
<1> SUFFICES ASSUME IInv, ob_peer_destroy, Up(0) PROVE Good
  OBVIOUS
<1>1. /\ p \in Peers /\ caller' = "joining" /\ p.stop
      /\ UNCHANGED <<role, policy, coord, setup, io>>
  BY DEF IInv, TypeOK, ob_peer_destroy, Ended
<1>2. /\ p' \in Peers /\ p'.stop /\ p'.attempt_stop
      /\ p'.engine = p.engine /\ p'.ice = p.ice /\ p'.detached = p.detached
      /\ p'.available = p.available /\ p'.state = p.state
      /\ p'.ready = p.ready /\ p'.stable = p.stable
      /\ p'.attempts = p.attempts /\ p'.outage = p.outage
      /\ p'.recovery_deadline = p.recovery_deadline
  BY <1>1 DEF ob_peer_destroy, Peers
<1>3. TypeOK'
  BY <1>1, <1>2, UpFacts DEF IInv, TypeOK
<1>4. Barrier' /\ Clock' /\ Ended'
  BY <1>1, <1>2, UpFacts DEF IInv, Barrier, Clock, Ended
<1> QED  BY <1>1, <1>2, <1>3, <1>4
            DEF Good, IInv, BudgetStep, GraceStep, FinalStep, Ended, Peers,
                Ticks, None

LEMMA JoinedStep == IInv /\ Joined /\ Up(0) => Good
<1> SUFFICES ASSUME IInv, Joined, Up(0) PROVE Good
  OBVIOUS
<1>1. p.detached /\ (p.attempt_stop \/ ~p.available) /\ setup = "none"
  BY DEF IInv, Barrier, Joined
<1> QED  BY <1>1, IceGoesStep DEF Joined

LEMMA server_snapshotStep == IInv /\ server_snapshot /\ Up(0) => Good
<1> SUFFICES ASSUME IInv, server_snapshot, Up(0) PROVE Good
  OBVIOUS
<1>1. p \in Peers /\ policy \in Policies
  BY DEF IInv, TypeOK
<1> DEFINE q == [p EXCEPT !.pending_session = TRUE]
<1>2. q \in Peers /\ Alike(q, p)
  BY <1>1 DEF Peers, Alike
<1>3. /\ p' = ob_peer_transport_fail_locked(q)
      /\ UNCHANGED <<role, policy, coord, setup, io, caller>>
  BY DEF server_snapshot
<1> HIDE DEF q
<1>4. Failed(p', q)
  BY <1>1, <1>2, <1>3, FailedByTransport
<1> QED  BY <1>2, <1>3, <1>4, FailStep

LEMMA server_suspend_peersStep == IInv /\ server_suspend_peers /\ Up(0) => Good
<1> SUFFICES ASSUME IInv, server_suspend_peers, Up(0) PROVE Good
  OBVIOUS
<1>1. p \in Peers /\ policy \in Policies /\ Alike(p, p)
  BY DEF IInv, TypeOK, Alike
<1>2. Failed(p', p)
  BY <1>1, FailedByFail, FailedByTransport DEF server_suspend_peers
<1> QED  BY <1>1, <1>2, FailStep DEF server_suspend_peers

-----------------------------------------------------------------------------
(* Time *)

LEMMA TickStep == IInv /\ Tick /\ Up(1) => Good
<1> SUFFICES ASSUME IInv, Tick, Up(1) PROVE Good
  OBVIOUS
<1>1. /\ p \in Peers /\ up \in 0..Horizon
      /\ UNCHANGED <<role, policy, coord, setup, io, caller>>
  BY DEF IInv, TypeOK, Tick
<1> DEFINE o == Later(p.outage)
           s == Later(p.stable)
           t == Sooner(p.retry)
           r == Sooner(p.recovery_deadline)
           d == Most(p.deadline - 1, IF role = "client" THEN 0 ELSE -Horizon)
<1>2. p' = [p EXCEPT !.outage = o, !.stable = s, !.retry = t,
                     !.recovery_deadline = r, !.deadline = d]
  BY DEF Tick
<1>3. /\ p.outage \in Ticks /\ p.stable \in Ticks /\ p.retry \in Nat
      /\ p.recovery_deadline \in Ticks /\ p.deadline \in Int
  BY <1>1 DEF Peers
<1>4. /\ o \in Ticks /\ (p.outage # None => o # None)
      /\ t \in Nat /\ d \in Int
  BY <1>3, ConstantsAssumption DEF Later, Sooner, Least, Most, Ticks, None
<1>5. s \in Ticks /\ (p.stable = up => s = Least(up + 1, Horizon))
  BY <1>1, <1>3, ConstantsAssumption DEF Later, Least, Ticks, None
<1>6. /\ r \in Ticks
      /\ p.recovery_deadline # None => r # None /\ r <= p.recovery_deadline
  BY <1>3 DEF Sooner, Most, Ticks, None
<1> HIDE DEF o, s, t, r, d
<1>7. /\ p' \in Peers
      /\ p'.engine = p.engine /\ p'.ice = p.ice /\ p'.detached = p.detached
      /\ p'.available = p.available /\ p'.stop = p.stop
      /\ p'.attempt_stop = p.attempt_stop /\ p'.ready = p.ready
      /\ p'.stable = s /\ p'.state = p.state
      /\ p'.attempts = p.attempts /\ p'.outage = o
      /\ p'.recovery_deadline = r
  BY <1>1, <1>2, <1>4, <1>5, <1>6 DEF Peers
<1>8. up' \in 0..Horizon /\ (p.ready => up' = Least(up + 1, Horizon))
  BY <1>1, <1>7, ConstantsAssumption DEF Up, Least
<1>9. TypeOK'
  BY <1>1, <1>7, <1>8 DEF IInv, TypeOK
<1>10. Barrier' /\ Clock' /\ Ended'
  BY <1>1, <1>5, <1>7, <1>8 DEF IInv, Barrier, Clock, Ended
<1>11. BudgetStep /\ GraceStep /\ FinalStep
  BY <1>1, <1>4, <1>6, <1>7
     DEF IInv, Ended, BudgetStep, GraceStep, FinalStep, Peers
<1> QED  BY <1>9, <1>10, <1>11 DEF Good, IInv

-----------------------------------------------------------------------------
(* The theorems *)

LEMMA NextStep == IInv /\ Next => Good
<1> SUFFICES ASSUME IInv, Next PROVE Good
  OBVIOUS
<1>1. CASE Coordinator /\ Up(0)
  BY <1>1, DeliverStep, NotifyStep, scheduleStep, server_sessionStep,
     BeginAttemptStep, open_sessionStep, StableResetStep, LeaveLoopStep,
     JoinSetupStep, AwaitDetachStep, DestroyIceStep, AfterRetireStep,
     CoordinatorEndsStep DEF Coordinator
<1>2. CASE SetupWorker /\ Up(0)
  BY <1>2, CreateIceStep, OfferTransportStep, SetupFailsStep,
     SetupExpiresStep, SetupMovesStep DEF SetupWorker
<1>3. CASE IOOwner /\ Up(0)
  BY <1>3, DetachIdleStep, engine_initStep, EngineFailsStep,
     ob_peer_mark_readyStep, OwnerEndsStep DEF IOOwner
<1>4. CASE Caller /\ Up(0)
  BY <1>4, ConnectReturnsStep, EndsStep, AsksStep, PolicyStep,
     CloseFailsStep, CloseClosesStep, ob_peer_destroyStep, JoinedStep,
     server_snapshotStep, server_suspend_peersStep DEF Caller
<1>5. CASE Tick /\ Up(1)
  BY <1>5, TickStep
<1> QED  BY <1>1, <1>2, <1>3, <1>4, <1>5 DEF Next

LEMMA InitInv == Init => IInv
<1> SUFFICES ASSUME Init PROVE IInv
  OBVIOUS
<1>1. TypeOK
  BY InitTypeOK
<1>2. /\ ~p.stop /\ ~p.available /\ ~p.engine /\ ~p.ice /\ ~p.ready
      /\ p.detached /\ p.state = "CONNECTING"
      /\ setup = "none" /\ caller \in {"connecting", "using"}
      /\ coord \in {"schedule", "begin"}
  BY DEF Init
<1> QED  BY <1>1, <1>2 DEF IInv, Barrier, Clock, Ended

LEMMA StutterStep == IInv /\ UNCHANGED vars => Good
<1> SUFFICES ASSUME IInv, UNCHANGED vars PROVE Good
  OBVIOUS
<1>1. IInv'
  BY DEF IInv, TypeOK, Barrier, Clock, Ended, vars
<1> QED  BY <1>1 DEF Good, IInv, TypeOK, Peers, Ticks, None, BudgetStep,
            GraceStep, FinalStep, Ended, vars

(* The inductive invariant holds of every reachable state. *)
THEOREM Invariance == Spec => []IInv
<1>1. IInv /\ [Next]_vars => IInv'
  BY NextStep, StutterStep DEF Good
<1> QED  BY InitInv, <1>1, PTL DEF Spec

(* Every variable keeps its type, for any policies and time limits. *)
THEOREM TypeCorrect == Spec => []TypeOK
<1>1. IInv => TypeOK
  BY DEF IInv
<1> QED  BY Invariance, <1>1, PTL

(* No QUIC engine outlives the ICE agent it sends through, and every       *)
(* attempt starts without the threads and the transport of the last one,   *)
(* however the failures, the setup worker and the I/O owner interleave.    *)
THEOREM Retired == Spec => []NoUseAfterDestroy
<1>1. IInv => NoUseAfterDestroy
  BY DEF IInv, TypeOK, Barrier, NoUseAfterDestroy
<1> QED  BY Invariance, <1>1, PTL

(* The failure budget is renewed by the first connection, a request or a   *)
(* connection that stayed up, by nothing else.                             *)
THEOREM Budget == Spec => BudgetEarned
<1>1. IInv /\ [Next]_vars => [BudgetStep]_vars
  BY NextStep DEF Good
<1>2. Spec => [][BudgetStep]_vars
  BY Invariance, <1>1, PTL DEF Spec
<1> QED  BY <1>2 DEF BudgetEarned, BudgetStep

(* Nothing but an authenticated transport ends or extends a running grace  *)
(* period.                                                                 *)
THEOREM Grace == Spec => DeadlineNotRenewed
<1>1. IInv /\ [Next]_vars => [GraceStep]_vars
  BY NextStep DEF Good
<1>2. Spec => [][GraceStep]_vars
  BY Invariance, <1>1, PTL DEF Spec
<1> QED  BY <1>2 DEF DeadlineNotRenewed, GraceStep

(* A client's handle that failed or was closed is never revived. *)
THEOREM Final == Spec => TerminalFinal
<1>1. IInv /\ [Next]_vars => [FinalStep]_vars
  BY NextStep DEF Good
<1>2. Spec => [][FinalStep]_vars
  BY Invariance, <1>1, PTL DEF Spec
<1> QED  BY <1>2 DEF TerminalFinal, FinalStep
=============================================================================
