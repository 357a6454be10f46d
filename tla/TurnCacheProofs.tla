--------------------------- MODULE TurnCacheProofs ---------------------------
(***************************************************************************)
(* Proofs about TurnCache for any keys, scopes, callers and ages.          *)
(*                                                                         *)
(*  - A key that is cut has authority 0, no entry (MapClean), and a read   *)
(*    of it that saw an older authority has been told (ReadTold); so       *)
(*    neither the map nor a read can produce a positive answer.            *)
(*  - The worker writes only to entries it finds unchanged (Candidates),   *)
(*    and those are not cut.                                               *)
(*  - What was read is backed by the authority it came from, or by the     *)
(*    moment that authority was withdrawn, which is later than checkedAt   *)
(*    (Backed); age bounds therefore bound the staleness of answers.       *)
(***************************************************************************)
EXTENDS TurnCache, TLAPS

-----------------------------------------------------------------------------
(* The inductive invariant *)

InRead == {"reading", "read"}

(* missMu: one cold read at a time, and coldRead is the one in flight. *)
OneColdRead ==
    \A t \in Callers :
      /\ (missMu = t) <=> (call[t].pc \in InRead \cup {"start"})
      /\ call[t].pc \in InRead => coldRead.key = call[t].key
      /\ call[t].pc # "idle" => call[t].key \in Keys

CutIsZero == \A k \in Keys : cut[k] => db[k] = 0

ReadTold ==
    \A t \in Callers :
      call[t].pc = "read" /\ call[t].until > 0 /\ cut[call[t].key]
        => coldRead.invalidated

Candidates ==
    /\ \A k \in worker.keys : entries[k].on
    /\ worker.pc \in InRead \cup {"revoke"} => worker.key \in Keys

Backed(k, until, checkedAt) ==
    /\ checkedAt <= now
    /\ until <= now \/ until <= db[k] \/ seen[k] >= checkedAt

EntriesBacked ==
    \A k \in Keys :
      entries[k].on => Backed(k, entries[k].until, entries[k].checkedAt)
CallsBacked ==
    \A t \in Callers :
      /\ call[t].pc \in InRead => call[t].checkedAt <= now
      /\ call[t].pc = "read" =>
           Backed(call[t].key, call[t].until, call[t].checkedAt)
WorkerBacked ==
    /\ worker.pc \in InRead => worker.checkedAt <= now
    /\ worker.pc = "read" => Backed(worker.key, worker.until, worker.checkedAt)

IInv ==
    /\ TypeOK
    /\ OneColdRead
    /\ CutIsZero
    /\ MapClean
    /\ ReadTold
    /\ Candidates
    /\ EntriesBacked
    /\ CallsBacked
    /\ WorkerBacked

-----------------------------------------------------------------------------
(* Types *)

LEMMA IInvInit == Init => IInv
<1> SUFFICES ASSUME Init PROVE IInv
  OBVIOUS
<1> USE ConstantsAssumption DEF Init
<1>1. TypeOK
  BY DEF TypeOK, Entry, NoEntry, Read, NoRead, Call, Worker, At, Between
<1>2. OneColdRead
  BY DEF OneColdRead, At, InRead
<1>3. CutIsZero /\ MapClean
  BY DEF CutIsZero, MapClean
<1>4. ReadTold /\ CallsBacked
  BY DEF ReadTold, CallsBacked, At, InRead
<1>5. Candidates /\ WorkerBacked
  BY DEF Candidates, WorkerBacked, Between, InRead
<1>6. EntriesBacked
  BY DEF EntriesBacked, NoEntry
<1> QED BY <1>1, <1>2, <1>3, <1>4, <1>5, <1>6 DEF IInv

LEMMA AtType ==
    ASSUME NEW k \in Keys \cup {NoKey},
           NEW pc \in {"idle", "miss", "start", "reading", "read", "yes", "no"}
    PROVE  At(pc, k) \in Call
BY DEF At, Call

LEMMA BetweenType ==
    ASSUME NEW pc \in {"idle", "items", "reading", "read", "revoke"},
           NEW S \in SUBSET Keys
    PROVE  Between(pc, S) \in Worker
BY DEF Between, Worker

LEMMA lookupRange ==
    ASSUME NEW k
    PROVE  lookup(k) \in {"miss", "yes", "no"}
BY DEF lookup

LEMMA TypeDb == TypeOK /\ DbStep => TypeOK'
<1> SUFFICES ASSUME TypeOK, DbStep PROVE TypeOK'
  OBVIOUS
<1> USE ConstantsAssumption DEF TypeOK
<1>1. ASSUME NEW k \in Keys, Grant(k) PROVE TypeOK'
  BY <1>1 DEF Grant, cacheVars
<1>2. ASSUME NEW S \in Scopes, logout(S) PROVE TypeOK'
  BY <1>2 DEF logout, Withdrawn, cacheVars
<1>3. ASSUME NEW S \in Scopes, CommitRevocation(S) PROVE TypeOK'
  BY <1>3 DEF CommitRevocation, Withdrawn, cacheVars
<1>4. ASSUME NEW S \in Scopes, Invalidate(S) PROVE TypeOK'
  <2> USE <1>4 DEF Invalidate, invalidate, Removed
  <2>1. coldRead' \in Read
    BY DEF Read
  <2>2. worker' \in Worker
    BY DEF Worker
  <2>3. entries' \in [Keys -> Entry]
    BY DEF Entry, NoEntry
  <2> QED BY <2>1, <2>2, <2>3
<1> QED BY <1>1, <1>2, <1>3, <1>4 DEF DbStep

LEMMA TypeCall ==
    ASSUME TypeOK, OneColdRead, NEW t \in Callers, CallStep(t)
    PROVE  TypeOK'
<1> USE ConstantsAssumption DEF TypeOK
<1> call[t] \in Call
  OBVIOUS
<1> call[t].key \in Keys \cup {NoKey}
  BY DEF Call
<1>1. ASSUME NEW k \in Keys, authorize(t, k) PROVE TypeOK'
  <2>1. At(lookup(k), k) \in Call
    BY lookupRange, AtType
  <2> QED BY <1>1, <2>1 DEF authorize, Step, dbVars, cacheVars
<1>2. ASSUME LookAgain(t) PROVE TypeOK'
  <2>1. At(lookup(call[t].key), call[t].key) \in Call
    BY lookupRange, AtType
  <2>2. [call[t] EXCEPT !.pc = "start", !.started = now] \in Call
    BY DEF Call
  <2> QED BY <1>2, <2>1, <2>2 DEF LookAgain, Step, dbVars
<1>3. ASSUME StartRead(t) PROVE TypeOK'
  <2>1. CASE TimedOut(call[t])
    <3>1. At("no", call[t].key) \in Call
      BY AtType
    <3> QED BY <1>3, <2>1, <3>1 DEF StartRead, Step, Deny, dbVars
  <2>2. CASE ~TimedOut(call[t])
    <3>0. /\ Removed({call[t].key})
          /\ coldRead' = [key |-> call[t].key, invalidated |-> FALSE]
          /\ Step(t, [call[t] EXCEPT !.pc = "reading", !.checkedAt = now])
          /\ UNCHANGED <<missMu, now, dbVars, closed>>
      BY <1>3, <2>2 DEF StartRead
    <3>1. [call[t] EXCEPT !.pc = "reading", !.checkedAt = now] \in Call
      BY DEF Call
    <3>2. coldRead' \in Read
      BY <3>0 DEF Read
    <3>3. worker' \in Worker
      BY <3>0 DEF Removed, Worker
    <3>4. entries' \in [Keys -> Entry]
      BY <3>0 DEF Removed, Entry, NoEntry
    <3> QED BY <3>0, <3>1, <3>2, <3>3, <3>4 DEF Step, dbVars
  <2> QED BY <2>1, <2>2
<1>4. ASSUME ReadAnswer(t) PROVE TypeOK'
  <2>1. PICK d \in Answers(call[t].key) :
          Step(t, [call[t] EXCEPT !.pc = "read", !.until = d])
    BY <1>4 DEF ReadAnswer
  <2>2. d \in Nat
    <3>1. call[t].key \in Keys
      BY <1>4 DEF ReadAnswer, OneColdRead
    <3> QED BY <3>1 DEF Answers
  <2>3. [call[t] EXCEPT !.pc = "read", !.until = d] \in Call
    BY <2>2 DEF Call
  <2> QED BY <1>4, <2>1, <2>3 DEF ReadAnswer, Step, dbVars, cacheVars
<1>5. ASSUME FinishRead(t) PROVE TypeOK'
  <2> DEFINE c == call[t]
             e == [on |-> TRUE, until |-> c.until, checkedAt |-> c.checkedAt]
  <2>0. coldRead' \in Read /\ UNCHANGED <<now, dbVars, closed>>
    BY <1>5 DEF FinishRead, Read, NoRead
  <2>1. CASE Deny(t) /\ UNCHANGED <<entries, worker>>
    <3>1. At("no", c.key) \in Call
      BY AtType
    <3> QED BY <2>0, <2>1, <3>1 DEF Deny, Step, dbVars
  <2>2. CASE /\ Step(t, [c EXCEPT !.pc = "start", !.checkedAt = 0, !.until = 0])
             /\ UNCHANGED <<entries, missMu, worker>>
    <3>1. [c EXCEPT !.pc = "start", !.checkedAt = 0, !.until = 0] \in Call
      BY DEF Call
    <3> QED BY <2>0, <2>2, <3>1 DEF Step, dbVars
  <2>3. CASE /\ \E S \in Evicted : Insert(c.key, e, S)
             /\ Step(t, At("yes", c.key))
             /\ missMu' = Free
    <3>1. At("yes", c.key) \in Call
      BY AtType
    <3>2. PICK S : Insert(c.key, e, S)
      BY <2>3
    <3>3. e \in Entry
      BY DEF Entry, Call
    <3>4. entries' \in [Keys -> Entry]
      BY <3>2, <3>3 DEF Insert, Entry, NoEntry
    <3>5. worker' \in Worker
      BY <3>2 DEF Insert, Worker
    <3> QED BY <2>0, <2>3, <3>1, <3>4, <3>5 DEF Step, dbVars
  <2> QED BY <1>5, <2>1, <2>2, <2>3 DEF FinishRead
<1>6. ASSUME Return(t) PROVE TypeOK'
  <2>1. At("idle", NoKey) \in Call
    BY AtType
  <2> QED BY <1>6, <2>1 DEF Return, Step, dbVars, cacheVars
<1> QED BY <1>1, <1>2, <1>3, <1>4, <1>5, <1>6 DEF CallStep

LEMMA TypeWorker == TypeOK /\ Candidates /\ WorkerStep => TypeOK'
<1> SUFFICES ASSUME TypeOK, Candidates, WorkerStep PROVE TypeOK'
  OBVIOUS
<1> USE ConstantsAssumption DEF TypeOK
<1> /\ worker.keys \in SUBSET Keys /\ worker.until \in Nat
    /\ worker.checkedAt \in Nat
  BY DEF Worker
<1>1. ASSUME refresh PROVE TypeOK'
  <2>0. PICK S \in SUBSET Keys :
            worker' = [worker EXCEPT !.pc = "items", !.keys = S]
    BY <1>1 DEF refresh
  <2>1. worker' \in Worker
    BY <2>0 DEF Worker
  <2>2. entries' \in [Keys -> Entry]
    BY <1>1 DEF refresh, Entry, NoEntry
  <2> QED BY <1>1, <2>1, <2>2 DEF refresh, dbVars
<1>2. ASSUME RefreshItem PROVE TypeOK'
  <2>1. worker' \in Worker
    <3>1. CASE worker' = Between("idle", {})
      BY <3>1, BetweenType
    <3>2. CASE \E k \in worker.keys :
                 worker' = [worker EXCEPT !.pc = "reading", !.key = k,
                                          !.checkedAt = now]
      <4>1. PICK k \in Keys :
                 worker' = [worker EXCEPT !.pc = "reading", !.key = k,
                                          !.checkedAt = now]
        BY <3>2
      <4> QED BY <4>1 DEF Worker
    <3> QED BY <1>2, <3>1, <3>2 DEF RefreshItem
  <2> QED BY <1>2, <2>1 DEF RefreshItem, dbVars, cacheVars
<1>3. ASSUME RefreshRead PROVE TypeOK'
  <2>1. Answers(worker.key) \subseteq Nat
    BY <1>3 DEF RefreshRead, Candidates, InRead, Answers
  <2>2. worker' \in Worker
    <3>1. PICK d \in Nat : worker' = [worker EXCEPT !.pc = "read", !.until = d]
      BY <1>3, <2>1 DEF RefreshRead
    <3> QED BY <3>1 DEF Worker
  <2> QED BY <1>3, <2>2 DEF RefreshRead, dbVars, cacheVars
<1>4. ASSUME RefreshApply PROVE TypeOK'
  <2>1. NoEntry \in Entry /\ Refreshed \in Entry
    BY DEF NoEntry, Refreshed, Entry
  <2>2. entries' \in [Keys -> Entry]
    BY <1>4, <2>1 DEF RefreshApply
  <2>3. [worker EXCEPT !.pc = "revoke", !.keys = @ \ {worker.key}] \in Worker
    BY DEF Worker
  <2>4. worker' \in Worker
    BY <1>4, <2>3, BetweenType DEF RefreshApply
  <2> QED BY <1>4, <2>2, <2>4 DEF RefreshApply, dbVars
<1>5. ASSUME RefreshRevoke PROVE TypeOK'
  <2>1. coldRead' \in Read
    BY <1>5 DEF RefreshRevoke, Read
  <2>2. entries' \in [Keys -> Entry]
    BY <1>5 DEF RefreshRevoke, Entry, NoEntry
  <2>3. worker' \in Worker
    BY <1>5, BetweenType DEF RefreshRevoke
  <2>4. cut' \in [Keys -> BOOLEAN]
    BY <1>5 DEF RefreshRevoke
  <2> QED BY <1>5, <2>1, <2>2, <2>3, <2>4 DEF RefreshRevoke
<1> QED BY <1>1, <1>2, <1>3, <1>4, <1>5 DEF WorkerStep

LEMMA TypeStep == TypeOK /\ OneColdRead /\ Candidates /\ [Next]_vars => TypeOK'
<1> SUFFICES ASSUME TypeOK, OneColdRead, Candidates, [Next]_vars PROVE TypeOK'
  OBVIOUS
<1>1. CASE Close
  <2> USE <1>1 DEF Close, Removed, TypeOK
  <2>1. worker' \in Worker
    BY DEF Worker
  <2>2. entries' \in [Keys -> Entry]
    BY DEF Entry, NoEntry
  <2> QED BY <2>1, <2>2 DEF dbVars
<1>2. CASE Tick
  BY <1>2 DEF Tick, TypeOK, dbVars, cacheVars
<1>3. CASE UNCHANGED vars
  BY <1>3 DEF vars, TypeOK, dbVars, cacheVars
<1> QED BY <1>1, <1>2, <1>3, TypeDb, TypeCall, TypeWorker DEF Next

-----------------------------------------------------------------------------
(* Steps of the database: what was read stays backed. *)

LEMMA AllBackedStays ==
    ASSUME IInv, TypeOK', now' >= now, UNCHANGED call,
           \A k \in Keys : entries'[k] = entries[k] \/ ~entries'[k].on,
           \/ worker'.pc = worker.pc /\ worker'.key = worker.key
              /\ worker'.until = worker.until
              /\ worker'.checkedAt = worker.checkedAt
           \/ worker'.pc \notin InRead,
           \A k \in Keys :
             \/ db'[k] >= db[k] /\ seen'[k] = seen[k]
             \/ seen'[k] = IF db[k] > now THEN now ELSE seen[k]
    PROVE  EntriesBacked' /\ CallsBacked' /\ WorkerBacked'
<1> USE DEF IInv
<1>0. now \in Nat /\ now' \in Nat
  BY DEF TypeOK
<1>1. EntriesBacked'
  <2> SUFFICES ASSUME NEW k \in Keys, entries'[k].on
               PROVE  Backed(k, entries[k].until, entries[k].checkedAt)'
    BY DEF EntriesBacked
  <2>1. entries'[k] = entries[k] /\ entries[k] \in Entry
    BY DEF TypeOK
  <2>2. Backed(k, entries[k].until, entries[k].checkedAt)
    BY <2>1 DEF EntriesBacked
  <2>3. entries[k].until \in Nat /\ entries[k].checkedAt \in Nat
    BY <2>1 DEF Entry
  <2>4. \/ db'[k] >= db[k] /\ seen'[k] = seen[k]
        \/ seen'[k] = IF db[k] > now THEN now ELSE seen[k]
    OBVIOUS
  <2> QED BY <2>1, <2>2, <2>3, <2>4, <1>0 DEF Backed, TypeOK
<1>2. CallsBacked'
  <2> SUFFICES ASSUME NEW t \in Callers
               PROVE /\ call[t].pc \in InRead => call[t].checkedAt <= now'
                     /\ call[t].pc = "read" =>
                          Backed(call[t].key, call[t].until, call[t].checkedAt)'
    BY DEF CallsBacked
  <2>1. call[t] \in Call /\ call[t].until \in Nat /\ call[t].checkedAt \in Nat
    BY DEF TypeOK, Call
  <2>2. call[t].pc \in InRead => call[t].checkedAt <= now'
    BY <1>0, <2>1 DEF CallsBacked
  <2>3. ASSUME call[t].pc = "read"
        PROVE  Backed(call[t].key, call[t].until, call[t].checkedAt)'
    <3>1. call[t].key \in Keys
      BY <2>3 DEF OneColdRead
    <3>2. Backed(call[t].key, call[t].until, call[t].checkedAt)
      BY <2>3 DEF CallsBacked
    <3> QED BY <1>0, <2>1, <3>1, <3>2 DEF Backed, TypeOK
  <2> QED BY <2>2, <2>3
<1>3. WorkerBacked'
  <2> SUFFICES ASSUME worker'.pc \in InRead,
                      worker'.pc = worker.pc, worker'.key = worker.key,
                      worker'.until = worker.until,
                      worker'.checkedAt = worker.checkedAt
               PROVE WorkerBacked'
    BY DEF WorkerBacked, InRead
  <2>1. worker.until \in Nat /\ worker.checkedAt \in Nat /\ worker.key \in Keys
    BY DEF TypeOK, Worker, Candidates
  <2>2. worker.checkedAt <= now
    BY DEF WorkerBacked
  <2>3. ASSUME worker.pc = "read"
        PROVE  Backed(worker.key, worker.until, worker.checkedAt)'
    <3>1. Backed(worker.key, worker.until, worker.checkedAt)
      BY <2>3 DEF WorkerBacked
    <3> QED BY <1>0, <2>1, <3>1 DEF Backed, TypeOK
  <2> QED BY <1>0, <2>1, <2>2, <2>3 DEF WorkerBacked, Backed
<1> QED BY <1>1, <1>2, <1>3

LEMMA StepDb == IInv /\ TypeOK' /\ DbStep => IInv'
<1> SUFFICES ASSUME IInv, TypeOK', DbStep PROVE IInv'
  OBVIOUS
<1> USE ConstantsAssumption
<1>1. ASSUME NEW k \in Keys, Grant(k) PROVE IInv'
  <2> USE <1>1 DEF Grant, cacheVars, IInv
  <2>1. OneColdRead' /\ Candidates'
    BY DEF OneColdRead, Candidates
  <2>2. \A x \in Keys : cut'[x] => cut[x] /\ x # k
    BY DEF TypeOK
  <2>3. CutIsZero'
    BY <2>2 DEF CutIsZero, TypeOK
  <2>4. MapClean'
    BY <2>2 DEF MapClean
  <2>5. ReadTold'
    BY <2>2 DEF ReadTold, OneColdRead
  <2>6. \A x \in Keys : db'[x] >= db[x] /\ seen'[x] = seen[x]
    BY DEF TypeOK
  <2>7. EntriesBacked' /\ CallsBacked' /\ WorkerBacked'
    BY <2>6, AllBackedStays DEF TypeOK
  <2> QED BY <2>1, <2>3, <2>4, <2>5, <2>7
<1>2. ASSUME NEW S \in SUBSET Keys, Withdrawn(S), now' = now,
             UNCHANGED <<cut, cacheVars, call, worker>>
      PROVE IInv'
  <2> USE <1>2 DEF Withdrawn, cacheVars, IInv
  <2>1. OneColdRead' /\ Candidates'
    BY DEF OneColdRead, Candidates
  <2>3. CutIsZero'
    BY DEF CutIsZero
  <2>4. MapClean'
    BY DEF MapClean
  <2>5. ReadTold'
    BY DEF ReadTold
  <2>6. \A x \in Keys : \/ db'[x] >= db[x] /\ seen'[x] = seen[x]
                        \/ seen'[x] = IF db[x] > now THEN now ELSE seen[x]
    BY DEF TypeOK
  <2>7. EntriesBacked' /\ CallsBacked' /\ WorkerBacked'
    BY <2>6, AllBackedStays DEF TypeOK
  <2> QED BY <2>1, <2>3, <2>4, <2>5, <2>7
<1>3. ASSUME NEW S \in Scopes, Invalidate(S) PROVE IInv'
  <2> USE <1>3 DEF Invalidate, invalidate, Removed
  <2>0. /\ worker'.pc = worker.pc /\ worker'.key = worker.key
        /\ worker'.until = worker.until /\ worker'.checkedAt = worker.checkedAt
        /\ worker'.keys = worker.keys \ S
    BY DEF IInv, TypeOK, Worker
  <2>1. coldRead'.key = coldRead.key
    BY DEF IInv, TypeOK, Read
  <2>2. OneColdRead'
    BY <2>1 DEF IInv, OneColdRead
  <2>3. Candidates'
    BY <2>0 DEF IInv, Candidates, TypeOK, Worker
  <2>4. CutIsZero'
    BY DEF IInv, CutIsZero
  <2>5. MapClean'
    BY DEF IInv, MapClean, NoEntry
  <2>6. ReadTold'
    <3> SUFFICES ASSUME NEW t \in Callers, call[t].pc = "read",
                        call[t].until > 0, cut'[call[t].key]
                 PROVE  coldRead'.invalidated
      BY DEF ReadTold
    <3>1. call[t].key \in Keys /\ coldRead.key = call[t].key
      BY DEF IInv, OneColdRead, InRead
    <3>2. coldRead'.invalidated = (coldRead.invalidated \/ coldRead.key \in S)
      BY DEF IInv, TypeOK, Read
    <3>3. CASE call[t].key \in S
      BY <3>1, <3>2, <3>3
    <3>4. CASE call[t].key \notin S
      BY <3>1, <3>2, <3>4 DEF IInv, ReadTold
    <3> QED BY <3>3, <3>4
  <2>7. \A k \in Keys : entries'[k] = entries[k] \/ ~entries'[k].on
    BY DEF NoEntry
  <2>8. EntriesBacked' /\ CallsBacked' /\ WorkerBacked'
    BY <2>0, <2>7, AllBackedStays DEF IInv, TypeOK
  <2> QED BY <2>2, <2>3, <2>4, <2>5, <2>6, <2>8 DEF IInv
<1>4. ASSUME NEW S \in Scopes, logout(S) PROVE IInv'
  BY <1>2, <1>4 DEF logout
<1>5. ASSUME NEW S \in Scopes, CommitRevocation(S) PROVE IInv'
  BY <1>2, <1>5 DEF CommitRevocation
<1> QED BY <1>1, <1>3, <1>4, <1>5 DEF DbStep

-----------------------------------------------------------------------------
(* Steps of the callers *)

(* A step of t to a state outside the cold read disturbs nothing else. *)
LEMMA Outside ==
    ASSUME IInv, TypeOK', NEW t \in Callers, NEW k \in Keys,
           NEW pc \in {"miss", "yes", "no"}, Step(t, At(pc, k)),
           missMu' = IF missMu = t THEN Free ELSE missMu,
           missMu = t => UNCHANGED coldRead \/ call[t].pc = "read",
           missMu # t => UNCHANGED coldRead,
           UNCHANGED <<now, db, seen, cut>>
    PROVE  OneColdRead' /\ CutIsZero' /\ ReadTold' /\ CallsBacked'
<1> USE ConstantsAssumption DEF IInv
<1>0. /\ call'[t] = At(pc, k) /\ call'[t].pc = pc /\ call'[t].key = k
      /\ \A x \in Callers : x # t => call'[x] = call[x]
  BY DEF Step, At, TypeOK
<1>1. \A x \in Callers : x # t /\ missMu = t => call[x].pc \notin InRead \cup {"start"}
  BY DEF OneColdRead
<1>2. OneColdRead'
  <2> SUFFICES ASSUME NEW x \in Callers
               PROVE /\ (missMu' = x) <=> (call'[x].pc \in InRead \cup {"start"})
                     /\ call'[x].pc \in InRead => coldRead'.key = call'[x].key
                     /\ call'[x].pc # "idle" => call'[x].key \in Keys
    BY DEF OneColdRead
  <2>1. CASE x = t
    BY <1>0, <2>1 DEF InRead
  <2>2. CASE x # t
    BY <1>0, <1>1, <2>2 DEF OneColdRead, InRead
  <2> QED BY <2>1, <2>2
<1>3. CutIsZero'
  BY DEF CutIsZero
<1>4. ReadTold'
  BY <1>0, <1>1 DEF ReadTold, OneColdRead, InRead
<1>5. CallsBacked'
  BY <1>0 DEF CallsBacked, Backed, InRead
<1> QED BY <1>2, <1>3, <1>4, <1>5

LEMMA StepCall ==
    ASSUME IInv, TypeOK', NEW t \in Callers, CallStep(t)
    PROVE  IInv'
<1> USE ConstantsAssumption
<1>0. /\ call[t] \in Call /\ call[t].until \in Nat /\ call[t].checkedAt \in Nat
      /\ call[t].pc # "idle" => call[t].key \in Keys
      /\ now \in Nat
  BY DEF IInv, TypeOK, Call, OneColdRead
<1>1. ASSUME NEW k \in Keys, authorize(t, k) PROVE IInv'
  <2> USE <1>1 DEF authorize, dbVars, cacheVars
  <2>1. missMu # t
    BY DEF IInv, OneColdRead, InRead
  <2>2. OneColdRead' /\ CutIsZero' /\ ReadTold' /\ CallsBacked'
    BY <2>1, lookupRange, Outside
  <2>3. MapClean' /\ Candidates' /\ EntriesBacked' /\ WorkerBacked'
    BY DEF IInv, MapClean, Candidates, EntriesBacked, WorkerBacked, Backed
  <2> QED BY <2>2, <2>3 DEF IInv
<1>2. ASSUME LookAgain(t) PROVE IInv'
  <2> USE <1>2 DEF LookAgain, dbVars
  <2>0. MapClean' /\ Candidates' /\ EntriesBacked' /\ WorkerBacked'
    BY DEF IInv, MapClean, Candidates, EntriesBacked, WorkerBacked, Backed
  <2>1. CASE lookup(call[t].key) = "miss"
    <3>1. /\ call'[t] = [call[t] EXCEPT !.pc = "start", !.started = now]
          /\ \A x \in Callers : x # t => call'[x] = call[x]
          /\ missMu = Free /\ missMu' = t
      BY <2>1 DEF Step, IInv, TypeOK
    <3>2. call'[t].pc = "start" /\ call'[t].key = call[t].key
      BY <3>1, <1>0 DEF Call
    <3>3. call[t].key \in Keys
      BY <1>0
    <3>4. \A x \in Callers : call[x].pc \notin InRead \cup {"start"}
      BY <3>1 DEF IInv, OneColdRead
    <3>5. OneColdRead'
      BY <3>1, <3>2, <3>3, <3>4 DEF IInv, OneColdRead, InRead
    <3>6. CutIsZero'
      BY DEF IInv, CutIsZero
    <3>7. ReadTold' /\ CallsBacked'
      BY <3>1, <3>2, <3>4 DEF ReadTold, CallsBacked, InRead
    <3> QED BY <2>0, <3>5, <3>6, <3>7 DEF IInv
  <2>2. CASE lookup(call[t].key) # "miss"
    <3>1. lookup(call[t].key) \in {"miss", "yes", "no"} /\ call[t].key \in Keys
      BY lookupRange, <1>0
    <3>2. missMu # t
      BY DEF IInv, OneColdRead, InRead
    <3>3. OneColdRead' /\ CutIsZero' /\ ReadTold' /\ CallsBacked'
      BY <2>2, <3>1, <3>2, Outside
    <3> QED BY <2>0, <3>3 DEF IInv
  <2> QED BY <2>1, <2>2
<1>3. ASSUME StartRead(t) PROVE IInv'
  <2>0. missMu = t /\ call[t].pc = "start" /\ call[t].key \in Keys
    BY <1>0, <1>3 DEF StartRead, IInv, OneColdRead
  <2>1. CASE TimedOut(call[t])
    <3> USE <1>3, <2>1 DEF StartRead, Deny, dbVars
    <3>1. OneColdRead' /\ CutIsZero' /\ ReadTold' /\ CallsBacked'
      BY <2>0, Outside
    <3>2. MapClean' /\ Candidates' /\ EntriesBacked' /\ WorkerBacked'
      BY DEF IInv, MapClean, Candidates, EntriesBacked, WorkerBacked, Backed
    <3> QED BY <3>1, <3>2 DEF IInv
  <2>2. CASE ~TimedOut(call[t])
    <3>0. /\ Removed({call[t].key})
          /\ coldRead' = [key |-> call[t].key, invalidated |-> FALSE]
          /\ Step(t, [call[t] EXCEPT !.pc = "reading", !.checkedAt = now])
          /\ UNCHANGED <<missMu, now, db, seen, cut>>
      BY <1>3, <2>2 DEF StartRead, dbVars
    <3>1. /\ call'[t] = [call[t] EXCEPT !.pc = "reading", !.checkedAt = now]
          /\ \A x \in Callers : x # t => call'[x] = call[x]
      BY <3>0 DEF Step, IInv, TypeOK
    <3>2. /\ call'[t].pc = "reading" /\ call'[t].key = call[t].key
          /\ call'[t].checkedAt = now
      BY <3>1, <1>0 DEF Call
    <3>3. \A x \in Callers : x # t => call[x].pc \notin InRead \cup {"start"}
      BY <2>0 DEF IInv, OneColdRead
    <3>4. OneColdRead'
      BY <2>0, <3>0, <3>1, <3>2, <3>3 DEF IInv, OneColdRead, InRead
    <3>5. CutIsZero'
      BY <3>0 DEF IInv, CutIsZero
    <3>6. ReadTold' /\ CallsBacked'
      <4>1. \A x \in Callers : call'[x].pc # "read"
        BY <3>1, <3>2, <3>3 DEF InRead
      <4>2. \A x \in Callers : call'[x].pc \in InRead => x = t
        BY <3>1, <3>3
      <4>3. call'[t].checkedAt <= now'
        BY <1>0, <3>0, <3>2
      <4> QED BY <4>1, <4>2, <4>3 DEF ReadTold, CallsBacked
    <3>7. MapClean'
      BY <3>0 DEF IInv, MapClean, Removed, NoEntry
    <3>8. /\ worker'.pc = worker.pc /\ worker'.key = worker.key
          /\ worker'.until = worker.until
          /\ worker'.checkedAt = worker.checkedAt
          /\ worker'.keys = worker.keys \ {call[t].key}
      BY <3>0 DEF Removed, IInv, TypeOK, Worker
    <3>9. Candidates' /\ WorkerBacked'
      BY <3>0, <3>8 DEF IInv, Candidates, WorkerBacked, Backed, Removed,
           TypeOK, Worker
    <3>10. EntriesBacked'
      BY <3>0 DEF IInv, EntriesBacked, Removed, NoEntry, Backed
    <3> QED BY <3>4, <3>5, <3>6, <3>7, <3>9, <3>10 DEF IInv
  <2> QED BY <2>1, <2>2
<1>4. ASSUME ReadAnswer(t) PROVE IInv'
  <2> USE <1>4 DEF ReadAnswer, dbVars, cacheVars
  <2>0. PICK d \in Answers(call[t].key) :
          Step(t, [call[t] EXCEPT !.pc = "read", !.until = d])
    OBVIOUS
  <2>1. /\ call'[t] = [call[t] EXCEPT !.pc = "read", !.until = d]
        /\ \A x \in Callers : x # t => call'[x] = call[x]
    BY <2>0 DEF Step, IInv, TypeOK
  <2>2. /\ call'[t].pc = "read" /\ call'[t].key = call[t].key
        /\ call'[t].checkedAt = call[t].checkedAt /\ call'[t].until = d
    BY <2>1, <1>0 DEF Call
  <2>3. call[t].pc = "reading" /\ call[t].key \in Keys
    BY <1>0
  <2>4. d = 0 \/ (d = db[call[t].key] /\ d > now)
    BY <2>3 DEF Answers
  <2>5. call[t].checkedAt <= now
    BY <2>3 DEF IInv, CallsBacked, InRead
  <2>6. OneColdRead'
    BY <2>1, <2>2, <2>3 DEF IInv, OneColdRead, InRead
  <2>7. ReadTold'
    <3> SUFFICES ASSUME NEW x \in Callers, call'[x].pc = "read",
                        call'[x].until > 0, cut[call'[x].key]
                 PROVE  coldRead.invalidated
      BY DEF ReadTold
    <3>1. CASE x = t
      <4>1. db[call[t].key] = 0
        BY <2>2, <2>3, <3>1 DEF IInv, CutIsZero
      <4> QED BY <1>0, <2>2, <2>4, <3>1, <4>1
    <3>2. CASE x # t
      BY <2>1, <3>2 DEF IInv, ReadTold
    <3> QED BY <3>1, <3>2
  <2>8. Backed(call[t].key, d, call[t].checkedAt)
    BY <1>0, <2>3, <2>4, <2>5 DEF Backed, IInv, TypeOK
  <2>9. CallsBacked'
    BY <2>1, <2>2, <2>5, <2>8 DEF IInv, CallsBacked, Backed, InRead
  <2>10. CutIsZero' /\ MapClean' /\ Candidates' /\ EntriesBacked' /\ WorkerBacked'
    BY DEF IInv, CutIsZero, MapClean, Candidates, EntriesBacked, WorkerBacked,
         Backed
  <2> QED BY <2>6, <2>7, <2>9, <2>10 DEF IInv
<1>5. ASSUME FinishRead(t) PROVE IInv'
  <2> DEFINE c == call[t]
             e == [on |-> TRUE, until |-> c.until, checkedAt |-> c.checkedAt]
  <2>0. /\ c.pc = "read" /\ c.key \in Keys /\ missMu = t
        /\ coldRead.key = c.key /\ coldRead' = NoRead
        /\ UNCHANGED <<now, db, seen, cut, closed>>
    BY <1>0, <1>5 DEF FinishRead, IInv, OneColdRead, InRead, dbVars
  <2>1. CASE Deny(t) /\ UNCHANGED <<entries, worker>>
    <3>1. OneColdRead' /\ CutIsZero' /\ ReadTold' /\ CallsBacked'
      BY <2>0, <2>1, Outside DEF Deny
    <3>2. MapClean' /\ Candidates' /\ EntriesBacked' /\ WorkerBacked'
      BY <2>0, <2>1 DEF IInv, MapClean, Candidates, EntriesBacked, WorkerBacked,
           Backed
    <3> QED BY <3>1, <3>2 DEF IInv
  <2>2. CASE /\ Step(t, [c EXCEPT !.pc = "start", !.checkedAt = 0, !.until = 0])
             /\ UNCHANGED <<entries, missMu, worker>>
    <3>1. /\ call'[t] = [c EXCEPT !.pc = "start", !.checkedAt = 0, !.until = 0]
          /\ \A x \in Callers : x # t => call'[x] = call[x]
      BY <2>2 DEF Step, IInv, TypeOK
    <3>2. call'[t].pc = "start" /\ call'[t].key = c.key
      BY <3>1, <1>0 DEF Call
    <3>3. \A x \in Callers : x # t => call[x].pc \notin InRead \cup {"start"}
      BY <2>0 DEF IInv, OneColdRead
    <3>4. OneColdRead'
      BY <2>0, <2>2, <3>1, <3>2, <3>3 DEF IInv, OneColdRead, InRead
    <3>5. ReadTold' /\ CallsBacked'
      BY <3>1, <3>2, <3>3 DEF ReadTold, CallsBacked, InRead
    <3>6. CutIsZero' /\ MapClean' /\ Candidates' /\ EntriesBacked' /\ WorkerBacked'
      BY <2>0, <2>2 DEF IInv, CutIsZero, MapClean, Candidates, EntriesBacked,
           WorkerBacked, Backed
    <3> QED BY <3>4, <3>5, <3>6 DEF IInv
  <2>3. CASE /\ ~coldRead.invalidated /\ c.until > now
             /\ \E S \in Evicted : Insert(c.key, e, S)
             /\ Step(t, At("yes", c.key))
             /\ missMu' = Free
    <3>1. PICK S : Insert(c.key, e, S)
      BY <2>3
    <3>2. OneColdRead' /\ CutIsZero' /\ ReadTold' /\ CallsBacked'
      BY <2>0, <2>3, Outside
    <3>3. ~cut[c.key]
      BY <1>0, <2>0, <2>3 DEF IInv, ReadTold
    <3>4. /\ entries'[c.key] = e
          /\ \A x \in Keys : x # c.key =>
                entries'[x] = entries[x] \/ (x \in S /\ ~entries'[x].on)
          /\ \A x \in Keys : x # c.key /\ x \notin S => entries'[x] = entries[x]
      BY <2>0, <3>1 DEF Insert, NoEntry
    <3>5. MapClean'
      BY <2>0, <3>3, <3>4 DEF IInv, MapClean
    <3>6. /\ worker'.pc = worker.pc /\ worker'.key = worker.key
          /\ worker'.until = worker.until
          /\ worker'.checkedAt = worker.checkedAt
          /\ worker'.keys = worker.keys \ S
          /\ worker.keys \subseteq Keys
      BY <3>1 DEF Insert, IInv, TypeOK, Worker
    <3>7. Candidates' /\ WorkerBacked'
      BY <2>0, <3>4, <3>6 DEF IInv, Candidates, WorkerBacked, Backed
    <3>8. Backed(c.key, c.until, c.checkedAt)
      BY <2>0 DEF IInv, CallsBacked
    <3>9. EntriesBacked'
      BY <2>0, <3>4, <3>8 DEF IInv, EntriesBacked, Backed
    <3> QED BY <3>2, <3>5, <3>7, <3>9 DEF IInv
  <2> QED BY <1>5, <2>1, <2>2, <2>3 DEF FinishRead
<1>6. ASSUME Return(t) PROVE IInv'
  <2> USE <1>6 DEF Return, dbVars, cacheVars
  <2>1. /\ call'[t] = At("idle", NoKey) /\ call'[t].pc = "idle"
        /\ \A x \in Callers : x # t => call'[x] = call[x]
    BY DEF Step, At, IInv, TypeOK
  <2>2. OneColdRead' /\ ReadTold' /\ CallsBacked'
    BY <2>1 DEF IInv, OneColdRead, ReadTold, CallsBacked, InRead, Backed
  <2>3. CutIsZero' /\ MapClean' /\ Candidates' /\ EntriesBacked' /\ WorkerBacked'
    BY DEF IInv, CutIsZero, MapClean, Candidates, EntriesBacked, WorkerBacked,
         Backed
  <2> QED BY <2>2, <2>3 DEF IInv
<1> QED BY <1>1, <1>2, <1>3, <1>4, <1>5, <1>6 DEF CallStep

-----------------------------------------------------------------------------
(* Steps of the worker *)

LEMMA StepWorker == IInv /\ TypeOK' /\ WorkerStep => IInv'
<1> SUFFICES ASSUME IInv, TypeOK', WorkerStep PROVE IInv'
  OBVIOUS
<1>0. /\ worker.keys \subseteq Keys /\ worker.until \in Nat
      /\ worker.checkedAt \in Nat /\ now \in Nat /\ worker \in Worker
      /\ \A k \in Keys : db[k] \in Nat /\ seen[k] \in Nat
  BY DEF IInv, TypeOK, Worker
<1>1. ASSUME UNCHANGED <<now, db, seen, call, missMu>>,
             coldRead'.key = coldRead.key,
             coldRead.invalidated => coldRead'.invalidated,
             \A t \in Callers : call[t].pc = "read" /\ cut'[call[t].key]
               => cut[call[t].key] \/ coldRead'.invalidated,
             CutIsZero'
      PROVE OneColdRead' /\ CutIsZero' /\ ReadTold' /\ CallsBacked'
  BY <1>1 DEF IInv, OneColdRead, ReadTold, CallsBacked, Backed
<1>2. ASSUME UNCHANGED <<now, dbVars, call, missMu, coldRead>>
      PROVE OneColdRead' /\ CutIsZero' /\ ReadTold' /\ CallsBacked'
  BY <1>2, <1>1 DEF IInv, CutIsZero, dbVars
<1>3. ASSUME refresh PROVE IInv'
  <2> USE <1>3 DEF refresh
  <2>1. PICK idle \in SUBSET {k \in Keys : entries[k].on} :
         /\ entries' = [k \in Keys |-> IF k \in idle THEN NoEntry
                                                     ELSE entries[k]]
         /\ worker' = [worker EXCEPT !.pc = "items",
                         !.keys = {k \in Keys : entries[k].on} \ idle]
    OBVIOUS
  <2>2. /\ worker'.pc = "items"
        /\ worker'.keys = {k \in Keys : entries[k].on} \ idle
    BY <2>1, <1>0 DEF Worker
  <2>3. Candidates' /\ WorkerBacked'
    BY <2>1, <2>2 DEF Candidates, WorkerBacked, InRead
  <2>4. MapClean' /\ EntriesBacked'
    BY <2>1 DEF IInv, MapClean, EntriesBacked, NoEntry, Backed, dbVars
  <2> QED BY <1>2, <2>3, <2>4 DEF IInv
<1>8. now <= now
  BY <1>0
<1>4. ASSUME RefreshItem PROVE IInv'
  <2> USE <1>4 DEF RefreshItem, dbVars, cacheVars
  <2>1. MapClean' /\ EntriesBacked'
    BY DEF IInv, MapClean, EntriesBacked, Backed
  <2>2. CASE worker' = Between("idle", {})
    <3>1. Candidates' /\ WorkerBacked'
      BY <2>2 DEF Candidates, WorkerBacked, Between, InRead
    <3> QED BY <1>2, <2>1, <3>1 DEF IInv
  <2>3. CASE \E k \in worker.keys :
               worker' = [worker EXCEPT !.pc = "reading", !.key = k,
                                        !.checkedAt = now]
    <3>1. PICK k \in worker.keys :
               worker' = [worker EXCEPT !.pc = "reading", !.key = k,
                                        !.checkedAt = now]
      BY <2>3
    <3>2. /\ worker'.pc = "reading" /\ worker'.key = k
          /\ worker'.checkedAt = now /\ worker'.keys = worker.keys
      BY <3>1, <1>0 DEF Worker
    <3>3. Candidates' /\ WorkerBacked'
      <4>0. k \in Keys
        BY <1>0, <3>1
      <4>1. now <= now'
        BY <1>8, Zenon
      <4>2. Candidates'
        BY <3>2, <4>0 DEF IInv, Candidates
      <4> QED BY <3>2, <4>1, <4>2 DEF WorkerBacked
    <3> QED BY <1>2, <2>1, <3>3 DEF IInv
  <2> QED BY <2>2, <2>3
<1>5. ASSUME RefreshRead PROVE IInv'
  <2> USE <1>5 DEF RefreshRead, dbVars, cacheVars
  <2>1. PICK d \in Answers(worker.key) :
          worker' = [worker EXCEPT !.pc = "read", !.until = d]
    OBVIOUS
  <2>2. /\ worker'.pc = "read" /\ worker'.key = worker.key /\ worker'.until = d
        /\ worker'.checkedAt = worker.checkedAt /\ worker'.keys = worker.keys
    BY <2>1, <1>0 DEF Worker
  <2>3. worker.key \in Keys /\ worker.checkedAt <= now
    BY DEF IInv, Candidates, WorkerBacked, InRead
  <2>4. Backed(worker.key, d, worker.checkedAt)
    BY <1>0, <2>3 DEF Answers, Backed
  <2>5. Candidates' /\ WorkerBacked'
    BY <2>2, <2>3, <2>4 DEF IInv, Candidates, WorkerBacked, Backed, InRead
  <2>6. MapClean' /\ EntriesBacked'
    BY DEF IInv, MapClean, EntriesBacked, Backed
  <2> QED BY <1>2, <2>5, <2>6 DEF IInv
<1>6. ASSUME RefreshApply PROVE IInv'
  <2> USE <1>6 DEF RefreshApply
  <2>0. worker.key \in Keys /\ entries \in [Keys -> Entry]
    BY DEF IInv, Candidates, InRead, TypeOK
  <2>1. CASE worker' = Between("items", worker.keys) /\ UNCHANGED entries
    <3>1. Candidates' /\ WorkerBacked'
      BY <2>1 DEF IInv, Candidates, WorkerBacked, Between, InRead
    <3>2. MapClean' /\ EntriesBacked'
      BY <2>1 DEF IInv, MapClean, EntriesBacked, Backed, dbVars
    <3> QED BY <1>2, <3>1, <3>2 DEF IInv
  <2>2. CASE /\ worker.key \in worker.keys
             /\ entries' = [entries EXCEPT ![worker.key] = Refreshed]
             /\ worker' = Between("items", worker.keys \ {worker.key})
    <3>1. entries[worker.key].on /\ ~cut[worker.key]
      BY <2>0, <2>2 DEF IInv, Candidates, MapClean
    <3>2. Candidates' /\ WorkerBacked'
      BY <1>0, <2>0, <2>2 DEF IInv, Candidates, WorkerBacked, Between, InRead
    <3>3. MapClean'
      BY <2>0, <2>2, <3>1 DEF IInv, MapClean, dbVars
    <3>4. Backed(worker.key, worker.until, worker.checkedAt)
      BY DEF IInv, WorkerBacked
    <3>5. EntriesBacked'
      BY <2>0, <2>2, <3>4 DEF IInv, EntriesBacked, Backed, Refreshed, dbVars
    <3> QED BY <1>2, <3>2, <3>3, <3>5 DEF IInv
  <2>3. CASE /\ entries' = [entries EXCEPT ![worker.key] = NoEntry]
             /\ worker' = [worker EXCEPT !.pc = "revoke",
                                         !.keys = @ \ {worker.key}]
    <3>1. /\ worker'.pc = "revoke" /\ worker'.key = worker.key
          /\ worker'.keys = worker.keys \ {worker.key}
      BY <2>3, <1>0 DEF Worker
    <3>2. Candidates' /\ WorkerBacked'
      BY <1>0, <2>0, <2>3, <3>1 DEF IInv, Candidates, WorkerBacked, InRead
    <3>3. MapClean' /\ EntriesBacked'
      BY <2>0, <2>3 DEF IInv, MapClean, EntriesBacked, Backed, NoEntry, dbVars
    <3> QED BY <1>2, <3>2, <3>3 DEF IInv
  <2> QED BY <2>1, <2>2, <2>3
<1>7. ASSUME RefreshRevoke PROVE IInv'
  <2> USE <1>7 DEF RefreshRevoke
  <2>0. worker.key \in Keys /\ entries \in [Keys -> Entry]
        /\ cut \in [Keys -> BOOLEAN]
    BY DEF IInv, Candidates, TypeOK
  <2>1. /\ coldRead'.key = coldRead.key
        /\ coldRead'.invalidated =
             (coldRead.invalidated \/ coldRead.key = worker.key)
    BY DEF IInv, TypeOK, Read
  <2>2. CutIsZero'
    BY <2>0 DEF IInv, CutIsZero
  <2>3. \A t \in Callers : call[t].pc = "read" /\ cut'[call[t].key]
               => cut[call[t].key] \/ coldRead'.invalidated
    BY <2>0, <2>1 DEF IInv, OneColdRead, InRead
  <2>4. MapClean' /\ EntriesBacked'
    BY <2>0 DEF IInv, MapClean, EntriesBacked, Backed, NoEntry
  <2>5. Candidates' /\ WorkerBacked'
    BY <1>0, <2>0 DEF IInv, Candidates, WorkerBacked, Between, InRead
  <2> QED BY <1>1, <2>1, <2>2, <2>3, <2>4, <2>5 DEF IInv
<1> QED BY <1>3, <1>4, <1>5, <1>6, <1>7 DEF WorkerStep

LEMMA StepRest == IInv /\ TypeOK' /\ (Close \/ Tick \/ UNCHANGED vars) => IInv'
<1> SUFFICES ASSUME IInv, TypeOK', Close \/ Tick \/ UNCHANGED vars PROVE IInv'
  OBVIOUS
<1>0. /\ UNCHANGED <<db, seen, cut, coldRead, missMu, call>>
      /\ now' >= now
      /\ \A k \in Keys : entries'[k] = entries[k] \/ ~entries'[k].on
      /\ worker'.pc = worker.pc /\ worker'.key = worker.key
      /\ worker'.until = worker.until /\ worker'.checkedAt = worker.checkedAt
      /\ \A k \in worker'.keys : k \in worker.keys /\ entries'[k] = entries[k]
  BY DEF Close, Tick, vars, dbVars, cacheVars, Removed, NoEntry, IInv, TypeOK,
       Worker
<1>1. OneColdRead' /\ CutIsZero' /\ MapClean' /\ ReadTold' /\ Candidates'
  BY <1>0 DEF IInv, OneColdRead, CutIsZero, MapClean, ReadTold, Candidates
<1>2. EntriesBacked' /\ CallsBacked' /\ WorkerBacked'
  BY <1>0, AllBackedStays DEF IInv, TypeOK
<1> QED BY <1>1, <1>2 DEF IInv

LEMMA IInvStep == IInv /\ [Next]_vars => IInv'
<1> SUFFICES ASSUME IInv, [Next]_vars PROVE IInv'
  OBVIOUS
<1>1. TypeOK'
  BY TypeStep DEF IInv
<1> QED BY <1>1, StepDb, StepCall, StepWorker, StepRest DEF Next

-----------------------------------------------------------------------------
(* Theorems *)

LEMMA Invariance == Spec => []IInv
BY IInvInit, IInvStep, PTL DEF Spec

(* The cache model is type correct for any keys, callers and ages. *)
THEOREM TypeCorrect == Spec => []TypeOK
<1>1. IInv => TypeOK
  BY DEF IInv
<1> QED BY Invariance, <1>1, PTL

(* turnAuthorizationCache.invalidate and refresh: once a revocation has    *)
(* been invalidated no entry of the key comes back before a new grant,     *)
(* whatever reads were in flight.                                          *)
THEOREM RevokedStaysOut == Spec => []MapClean
<1>1. IInv => MapClean
  BY DEF IInv
<1> QED BY Invariance, <1>1, PTL

(* What a step that answers yes relied on. *)
LEMMA YesMeans ==
    ASSUME IInv, [Next]_vars, NEW t \in Callers, Answered(t)
    PROVE  LET k == call'[t].key IN
           /\ k \in Keys /\ ~cut[k] /\ ~closed
           /\ db[k] > now \/ now - seen[k] < MaxAge
<1>0. /\ call \in [Callers -> Call] /\ now \in Nat /\ MaxAge \in Nat
      /\ \A k \in Keys : db[k] \in Nat /\ seen[k] \in Nat
      /\ call[t].pc # "idle" => call[t].key \in Keys
  BY ConstantsAssumption DEF IInv, TypeOK, OneColdRead
<1>1. ASSUME NEW k \in Keys, lookup(k) = "yes"
      PROVE  ~cut[k] /\ ~closed /\ (db[k] > now \/ now - seen[k] < MaxAge)
  <2>1. /\ ~closed /\ entries[k].on /\ entries[k].until > now
        /\ now - entries[k].checkedAt < MaxAge
        /\ entries[k].until \in Nat /\ entries[k].checkedAt \in Nat
    <3>1. entries[k] \in Entry
      BY DEF IInv, TypeOK
    <3>2. entries[k].until \in Nat /\ entries[k].checkedAt \in Nat
      BY <3>1 DEF Entry
    <3> QED BY <1>0, <1>1, <3>2 DEF lookup
  <2>2. Backed(k, entries[k].until, entries[k].checkedAt) /\ ~cut[k]
    BY <2>1 DEF IInv, EntriesBacked, MapClean
  <2> QED BY <1>0, <2>1, <2>2 DEF Backed
<1>2. \A x \in Callers : CallStep(x) => x = t
  BY <1>0 DEF Answered, CallStep, authorize, LookAgain, StartRead, ReadAnswer,
       FinishRead, Return, Step, Deny
<1>3. CallStep(t)
  BY <1>2 DEF Answered, Next, DbStep, Grant, logout,
       CommitRevocation, Invalidate, WorkerStep, refresh, RefreshItem,
       RefreshRead, RefreshApply, RefreshRevoke, Close, Tick, vars
<1>4. ASSUME NEW k \in Keys, authorize(t, k)
      PROVE  call'[t].key = k /\ lookup(k) = "yes"
  BY <1>0, <1>4 DEF authorize, Step, At, Answered
<1>5. ASSUME LookAgain(t)
      PROVE  call'[t].key = call[t].key /\ lookup(call[t].key) = "yes"
  BY <1>0, <1>5 DEF LookAgain, Step, At, Answered, Call
<1>6. ASSUME FinishRead(t)
      PROVE  LET k == call'[t].key IN
             /\ k \in Keys /\ ~cut[k] /\ ~closed
             /\ db[k] > now \/ now - seen[k] < MaxAge
  <2>1. /\ call[t].pc = "read" /\ call'[t].key = call[t].key
        /\ ~TimedOut(call[t]) /\ ~coldRead.invalidated
        /\ call[t].until > now /\ now - call[t].checkedAt < MaxAge
    <3>1. At("no", call[t].key).pc = "no" /\ At("yes", call[t].key).key = call[t].key
      BY DEF At
    <3>2. [call[t] EXCEPT !.pc = "start", !.checkedAt = 0, !.until = 0].pc = "start"
      BY <1>0 DEF Call
    <3>3. \A c : Step(t, c) => call'[t] = c
      BY <1>0 DEF Step
    <3>4. call'[t].pc = "yes"
      BY DEF Answered
    <3> QED BY <1>6, <3>1, <3>2, <3>3, <3>4 DEF FinishRead, Deny
  <2>2. call[t].until \in Nat /\ call[t].checkedAt \in Nat
    BY <1>0 DEF Call
  <2>3. Backed(call[t].key, call[t].until, call[t].checkedAt)
    BY <2>1 DEF IInv, CallsBacked
  <2>4. ~cut[call[t].key]
    BY <1>0, <2>1, <2>2 DEF IInv, ReadTold
  <2> QED BY <1>0, <2>1, <2>2, <2>3, <2>4 DEF Backed, TimedOut
<1>7. ASSUME StartRead(t) \/ ReadAnswer(t) \/ Return(t)
      PROVE  FALSE
  <2>1. At("no", call[t].key).pc = "no" /\ At("idle", NoKey).pc = "idle"
    BY DEF At
  <2>2. /\ [call[t] EXCEPT !.pc = "reading", !.checkedAt = now].pc = "reading"
        /\ \A d : [call[t] EXCEPT !.pc = "read", !.until = d].pc = "read"
    BY <1>0 DEF Call
  <2>3. \A c : Step(t, c) => call'[t] = c
    BY <1>0 DEF Step
  <2>4. call'[t].pc = "yes"
    BY DEF Answered
  <2>5. ~StartRead(t)
    BY <2>1, <2>2, <2>3, <2>4 DEF StartRead, Deny
  <2>6. ~ReadAnswer(t)
    BY <2>2, <2>3, <2>4 DEF ReadAnswer
  <2>7. ~Return(t)
    BY <2>1, <2>3, <2>4 DEF Return
  <2> QED BY <1>7, <2>5, <2>6, <2>7
<1> QED BY <1>0, <1>1, <1>3, <1>4, <1>5, <1>6, <1>7 DEF CallStep, LookAgain

(* authorize: every positive answer is given while the key is not cut and *)
(* the cache not closed.                                                   *)
THEOREM AnswersCurrent == Spec => NoAnswerAfterCut
<1>1. IInv /\ [Next]_vars =>
        [\A t \in Callers : Answered(t) => ~cut[call'[t].key] /\ ~closed]_vars
  BY YesMeans
<1> QED BY Invariance, <1>1, PTL DEF Spec, NoAnswerAfterCut

(* turnAuthorizationMaxAge bounds how long a withdrawn authority can still *)
(* be granted when nobody invalidates.                                     *)
THEOREM AnswersFresh == Spec => BoundedStaleness
<1>1. IInv /\ [Next]_vars =>
        [\A t \in Callers :
           LET k == call'[t].key IN
           Answered(t) => db[k] > now \/ now - seen[k] < MaxAge]_vars
  BY YesMeans
<1> QED BY Invariance, <1>1, PTL DEF Spec, BoundedStaleness
=============================================================================
