------------------------------ MODULE TurnCache ------------------------------
(***************************************************************************)
(* The cache of TURN authorizations of the control server                  *)
(* (internal/control/turn_authorization_cache.go), which is asked for every *)
(* relayed packet, against the database it mirrors, the handlers that      *)
(* revoke (control.go) and its own refresh worker.                         *)
(*                                                                         *)
(* A key stands for a tenant, broker and session.  Its authority in the    *)
(* database is one number, the time until which the lineage authorizes     *)
(* relaying; 0 is "not allowed".  lastUsed is left out: any entry may be   *)
(* the oldest or idle.                                                     *)
(***************************************************************************)
EXTENDS Integers, FiniteSets

CONSTANTS
    Keys,     \* tenant, broker and session
    Scopes,   \* sets of keys one invalidation matches
    Callers,  \* goroutines that authorize packets or requests
    Limit,    \* c.limit, the most entries
    MaxAge,   \* turnAuthorizationMaxAge, in ticks
    Lease,    \* bound: the longest lease a grant gives, in ticks
    Handlers, \* bound: revocations committed and not yet invalidated
    MaxTime   \* bound on the clock

Free == "free"
NoKey == "no key"

ASSUME ConstantsAssumption ==
    /\ Scopes \subseteq SUBSET Keys
    /\ Free \notin Callers
    /\ NoKey \notin Keys
    /\ Limit \in Nat \ {0}
    /\ MaxAge \in Nat \ {0}
    /\ Lease \in Nat
    /\ Handlers \in Nat
    /\ MaxTime \in Nat

VARIABLES
    now,       \* the clock
    db,        \* authority of each key
    seen,      \* when an authority that was withdrawn last held
    revoking,  \* scopes committed as revoked and not yet invalidated
    cut,       \* keys revoked and invalidated since their last grant
    entries,   \* c.entries
    coldRead,  \* c.coldRead
    missMu,    \* the caller that holds c.missMu
    call,      \* the goroutines in authorize
    worker,    \* the goroutine in run and refresh
    closed     \* c.closed

dbVars == <<db, seen, revoking, cut>>
cacheVars == <<entries, coldRead, missMu, closed>>
vars == <<now, dbVars, cacheVars, call, worker>>

-----------------------------------------------------------------------------
(* Types *)

Entry == [on : BOOLEAN, until : Nat, checkedAt : Nat]
NoEntry == [on |-> FALSE, until |-> 0, checkedAt |-> 0]
Read == [key : Keys \cup {NoKey}, invalidated : BOOLEAN]
NoRead == [key |-> NoKey, invalidated |-> FALSE]
Call == [pc : {"idle", "miss", "start", "reading", "read", "yes", "no"},
         key : Keys \cup {NoKey}, started : Nat, checkedAt : Nat,
         until : Nat]
Worker == [pc : {"idle", "items", "reading", "read", "revoke"},
           keys : SUBSET Keys, key : Keys \cup {NoKey}, checkedAt : Nat,
           until : Nat]

(* A goroutine outside authorize or with an answer, and the worker between *)
(* two keys: what they no longer use is forgotten.                         *)
At(pc, k) == [pc |-> pc, key |-> k, started |-> 0, checkedAt |-> 0, until |-> 0]
Between(pc, S) == [pc |-> pc, keys |-> S, key |-> NoKey, checkedAt |-> 0,
                   until |-> 0]

(* Every variable has its type. *)
TypeOK ==
    /\ now \in Nat
    /\ db \in [Keys -> Nat]
    /\ seen \in [Keys -> Nat]
    /\ revoking \subseteq Scopes
    /\ cut \in [Keys -> BOOLEAN]
    /\ entries \in [Keys -> Entry]
    /\ coldRead \in Read
    /\ missMu \in Callers \cup {Free}
    /\ call \in [Callers -> Call]
    /\ worker \in Worker
    /\ closed \in BOOLEAN

Init ==
    /\ now = 1
    /\ db = [k \in Keys |-> 0]
    /\ seen = [k \in Keys |-> 0]
    /\ revoking = {}
    /\ cut = [k \in Keys |-> FALSE]
    /\ entries = [k \in Keys |-> NoEntry]
    /\ coldRead = NoRead
    /\ call = [t \in Callers |-> At("idle", NoKey)]
    /\ worker = Between("idle", {})
    /\ missMu = Free
    /\ closed = FALSE

-----------------------------------------------------------------------------
(* The database *)

(* A session is approved for relaying, or a heartbeat extends its leases. *)
Grant(k) ==
    \E d \in now + 1 .. now + Lease :
      /\ d >= db[k]
      /\ db' = [db EXCEPT ![k] = d]
      /\ cut' = [cut EXCEPT ![k] = FALSE]
      /\ UNCHANGED <<now, seen, revoking, cacheVars, call, worker>>

Withdrawn(S) ==
    /\ db' = [k \in Keys |-> IF k \in S THEN 0 ELSE db[k]]
    /\ seen' = [k \in Keys |-> IF k \in S /\ db[k] > now THEN now ELSE seen[k]]

(* A handler commits a revocation; it invalidates the cache afterwards.  *)
CommitRevocation(S) ==
    /\ Cardinality(revoking) < Handlers
    /\ Withdrawn(S)
    /\ revoking' = revoking \cup {S}
    /\ UNCHANGED <<now, cut, cacheVars, call, worker>>

(* logout with an account token that is no login session deletes the       *)
(* account's sessions and tells the cache nothing; so does a login that    *)
(* evicts the oldest account token.                                        *)
logout(S) ==
    /\ Withdrawn(S)
    /\ UNCHANGED <<now, revoking, cut, cacheVars, call, worker>>

(* authorizeTURNIdentitySnapshotContext: one statement, or an error. *)
Answers(k) == {0, IF db[k] > now THEN db[k] ELSE 0}

-----------------------------------------------------------------------------
(* Entries *)

(* An entry that leaves the map is no longer the one the worker saw. *)
Removed(S) ==
    /\ entries' = [k \in Keys |-> IF k \in S THEN NoEntry ELSE entries[k]]
    /\ worker' = [worker EXCEPT !.keys = @ \ S]

(* Mutant: a read in flight is not told. *)
invalidateEntriesOnly(S) ==
    /\ UNCHANGED coldRead
    /\ Removed(S)
    /\ cut' = [k \in Keys |-> IF k \in S THEN db[k] = 0 ELSE cut[k]]

invalidate(S) ==
    /\ coldRead' = [coldRead EXCEPT !.invalidated =
                      @ \/ coldRead.key \in S]
    /\ Removed(S)
    /\ cut' = [k \in Keys |-> IF k \in S THEN db[k] = 0 ELSE cut[k]]

(* revokeTURNTenant, revokeBroker and revokeTURNSession *)
Invalidate(S) ==
    /\ S \in revoking
    /\ revoking' = revoking \ {S}
    /\ invalidate(S)
    /\ UNCHANGED <<now, db, seen, missMu, closed, call>>

(* Mutant: an entry is used until its authority ends, however old it is. *)
lookupNoAge(k) ==
    IF closed THEN "no"
    ELSE IF ~entries[k].on \/ entries[k].until <= now THEN "miss"
    ELSE "yes"

lookup(k) ==
    IF closed THEN "no"
    ELSE IF ~entries[k].on \/ entries[k].until <= now THEN "miss"
    ELSE IF now - entries[k].checkedAt >= MaxAge THEN "no"
    ELSE "yes"

-----------------------------------------------------------------------------
(* authorize *)

Step(t, c) == call' = [call EXCEPT ![t] = c]

authorize(t, k) ==
    /\ call[t].pc = "idle"
    /\ Step(t, At(lookup(k), k))
    /\ UNCHANGED <<now, dbVars, cacheVars, worker>>

(* The caller gets missMu and looks again. *)
LookAgain(t) ==
    LET found == lookup(call[t].key) IN
    /\ call[t].pc = "miss" /\ missMu = Free
    /\ missMu' = IF found = "miss" THEN t ELSE Free
    /\ Step(t, IF found = "miss"
               THEN [call[t] EXCEPT !.pc = "start", !.started = now]
               ELSE At(found, call[t].key))
    /\ UNCHANGED <<now, dbVars, entries, coldRead, closed, worker>>

TimedOut(c) == closed \/ now - c.started >= MaxAge

Deny(t) == Step(t, At("no", call[t].key)) /\ missMu' = Free

StartRead(t) ==
    /\ call[t].pc = "start"
    /\ \/ /\ TimedOut(call[t])
          /\ Deny(t)
          /\ UNCHANGED <<entries, coldRead, worker>>
       \/ /\ ~TimedOut(call[t])
          /\ Removed({call[t].key})
          /\ coldRead' = [key |-> call[t].key, invalidated |-> FALSE]
          /\ Step(t, [call[t] EXCEPT !.pc = "reading", !.checkedAt = now])
          /\ UNCHANGED missMu
    /\ UNCHANGED <<now, dbVars, closed>>

ReadAnswer(t) ==
    /\ call[t].pc = "reading"
    /\ \E d \in Answers(call[t].key) :
         Step(t, [call[t] EXCEPT !.pc = "read", !.until = d])
    /\ UNCHANGED <<now, dbVars, cacheVars, worker>>

(* The entries that make room for a new one: none, or the oldest. *)
Evicted ==
    IF Cardinality({k \in Keys : entries[k].on}) >= Limit
    THEN {{k} : k \in {x \in Keys : entries[x].on}}
    ELSE {{}}

Insert(k, e, S) ==
    /\ entries' = [x \in Keys |-> IF x = k THEN e
                                  ELSE IF x \in S THEN NoEntry ELSE entries[x]]
    /\ worker' = [worker EXCEPT !.keys = @ \ S]

FinishRead(t) ==
    LET c == call[t]
        good == c.until > now /\ now - c.checkedAt < MaxAge IN
    /\ c.pc = "read"
    /\ coldRead' = NoRead
    /\ \/ /\ TimedOut(c) \/ (~coldRead.invalidated /\ ~good)
          /\ Deny(t)
          /\ UNCHANGED <<entries, worker>>
       \/ /\ ~TimedOut(c) /\ coldRead.invalidated
          /\ Step(t, [c EXCEPT !.pc = "start", !.checkedAt = 0, !.until = 0])
          /\ UNCHANGED <<entries, missMu, worker>>
       \/ /\ ~TimedOut(c) /\ ~coldRead.invalidated /\ good
          /\ \E S \in Evicted :
               Insert(c.key, [on |-> TRUE, until |-> c.until,
                              checkedAt |-> c.checkedAt], S)
          /\ Step(t, At("yes", c.key))
          /\ missMu' = Free
    /\ UNCHANGED <<now, dbVars, closed>>

Return(t) ==
    /\ call[t].pc \in {"yes", "no"}
    /\ Step(t, At("idle", NoKey))
    /\ UNCHANGED <<now, dbVars, cacheVars, worker>>

-----------------------------------------------------------------------------
(* refresh: worker.keys are the candidates of this round whose entry is   *)
(* still the one in the map.                                              *)

refresh ==
    /\ worker.pc = "idle" /\ ~closed
    /\ \E idle \in SUBSET {k \in Keys : entries[k].on} :
         /\ entries' = [k \in Keys |-> IF k \in idle THEN NoEntry
                                                     ELSE entries[k]]
         /\ worker' = [worker EXCEPT !.pc = "items",
                         !.keys = {k \in Keys : entries[k].on} \ idle]
    /\ UNCHANGED <<now, dbVars, coldRead, missMu, closed, call>>

RefreshItem ==
    /\ worker.pc = "items"
    /\ \/ /\ worker.keys = {} \/ closed
          /\ worker' = Between("idle", {})
       \/ /\ ~closed
          /\ \E k \in worker.keys :
               worker' = [worker EXCEPT !.pc = "reading", !.key = k,
                                        !.checkedAt = now]
    /\ UNCHANGED <<now, dbVars, cacheVars, call>>

RefreshRead ==
    /\ worker.pc = "reading"
    /\ \E d \in Answers(worker.key) :
         worker' = [worker EXCEPT !.pc = "read", !.until = d]
    /\ UNCHANGED <<now, dbVars, cacheVars, call>>

RefreshGood == worker.until > now /\ now - worker.checkedAt < MaxAge

Refreshed == [on |-> TRUE, until |-> worker.until,
              checkedAt |-> worker.checkedAt]

RefreshApply ==
    /\ worker.pc = "read"
    /\ \/ /\ worker.key \notin worker.keys
          /\ worker' = Between("items", worker.keys)
          /\ UNCHANGED entries
       \/ /\ worker.key \in worker.keys /\ RefreshGood
          /\ entries' = [entries EXCEPT ![worker.key] = Refreshed]
          /\ worker' = Between("items", worker.keys \ {worker.key})
       \/ /\ worker.key \in worker.keys /\ ~RefreshGood
          /\ entries' = [entries EXCEPT ![worker.key] = NoEntry]
          /\ worker' = [worker EXCEPT !.pc = "revoke", !.keys = @ \ {worker.key}]
    /\ UNCHANGED <<now, dbVars, coldRead, missMu, closed, call>>

(* c.revoked: revokeTURNSession, which invalidates and revokes. *)
RefreshRevoke ==
    /\ worker.pc = "revoke"
    /\ coldRead' = [coldRead EXCEPT !.invalidated =
                      @ \/ coldRead.key = worker.key]
    /\ entries' = [entries EXCEPT ![worker.key] = NoEntry]
    /\ worker' = Between("items", worker.keys \ {worker.key})
    /\ cut' = [cut EXCEPT ![worker.key] = db[worker.key] = 0]
    /\ UNCHANGED <<now, db, seen, revoking, missMu, closed, call>>

-----------------------------------------------------------------------------
Close ==
    /\ ~closed
    /\ closed' = TRUE
    /\ Removed(Keys)
    /\ UNCHANGED <<now, dbVars, coldRead, missMu, call>>

Tick ==
    /\ now < MaxTime
    /\ now' = now + 1
    /\ UNCHANGED <<dbVars, cacheVars, call, worker>>

DbStep ==
    \/ \E k \in Keys : Grant(k)
    \/ \E S \in Scopes : CommitRevocation(S) \/ Invalidate(S) \/ logout(S)

CallStep(t) ==
    \/ \E k \in Keys : authorize(t, k)
    \/ LookAgain(t) \/ StartRead(t) \/ ReadAnswer(t) \/ FinishRead(t)
    \/ Return(t)

WorkerStep ==
    refresh \/ RefreshItem \/ RefreshRead \/ RefreshApply \/ RefreshRevoke

Next == DbStep \/ (\E t \in Callers : CallStep(t)) \/ WorkerStep \/ Close \/ Tick

Spec == Init /\ [][Next]_vars

-----------------------------------------------------------------------------
(* Properties *)

Answered(t) == call[t].pc # "yes" /\ call'[t].pc = "yes"

(* turn_authorization_cache.go, authorize: a positive answer is given only *)
(* at a moment at which no revocation of the key has been both committed   *)
(* and invalidated, and never after close, although the answer may come    *)
(* from a read or an entry older than the revocation.                      *)
NoAnswerAfterCut ==
    [][\A t \in Callers :
         Answered(t) => ~cut[call'[t].key] /\ ~closed]_vars

(* turnAuthorizationMaxAge: even where nobody invalidates, a positive     *)
(* answer relies on an authority that held less than MaxAge ago.          *)
BoundedStaleness ==
    [][\A t \in Callers :
         LET k == call'[t].key IN
         Answered(t) => db[k] > now \/ now - seen[k] < MaxAge]_vars

(* Once every handler has invalidated what it revoked, the map holds no    *)
(* entry of a key that was revoked through a handler.                      *)
MapClean == \A k \in Keys : cut[k] => ~entries[k].on

(* docs/CONTROL-API.md: "public revocation operations invalidate affected  *)
(* entries immediately": a positive answer is given only while the key's   *)
(* authority has not been withdrawn, or the handler that withdrew it has   *)
(* not come to its invalidation yet.                                       *)
RevokedImmediately ==
    [][\A t \in Callers :
         LET k == call'[t].key IN
         Answered(t) => db[k] # 0 \/ \E S \in revoking : k \in S]_vars
=============================================================================
