------------------------------ MODULE TurnRelay -----------------------------
(***************************************************************************)
(* The relays of the embedded TURN server (internal/control/turn.go):      *)
(* temporary credentials with their gates, timers and renewals, relay      *)
(* sockets with their pins, the counters of a tenant, revocation and the   *)
(* shutdown of the manager.                                                *)
(*                                                                         *)
(* Threads: Pion's request reader (one request at a time), a packet        *)
(* handler per relay, the expiry callback of each credential, the caller   *)
(* of revokeSession, the caller of close, the heartbeat that renews and    *)
(* Pion's lifetime timers.  A step that takes the manager's lock, or a     *)
(* gate without keeping it, is atomic; a gate that is kept is the program  *)
(* counter of who keeps it.                                                *)
(*                                                                         *)
(* All credentials belong to one session of one tenant.  authorize is the  *)
(* authorization cache: its answer is allowed.  Of Pion, its allocation    *)
(* table, the packet handlers and the order of requests are modelled.      *)
(***************************************************************************)
EXTENDS Integers, FiniteSets

CONSTANTS
    Creds,                     \* credentials that may be minted
    MaxRelays,                 \* bound: relay sockets ever opened
    Clients,                   \* addresses of clients
    Lease,                     \* lifetime of a credential when minted
    TTL,                       \* MaxCredentialTTL, to which it is renewed
    MaxCredentials,            \* credentials of the tenant
    MaxAllocations,            \* relays of the server
    MaxAllocationsPerTenant,   \* relays of the tenant
    MaxTime                    \* bound: the clock

None == "none"   \* no credential or address
Relays == 1..MaxRelays
NoRelay == 0
Revoker == "revoker"
Closer == "closer"

ASSUME ConstantsAssumption ==
    /\ IsFiniteSet(Creds) /\ MaxRelays \in Nat
    /\ TTL \in Nat /\ Lease \in 1..TTL /\ MaxTime \in Nat
    /\ MaxCredentials \in Nat
    /\ MaxAllocations \in Nat /\ MaxAllocationsPerTenant \in Nat
    /\ None \notin Creds \cup Clients
    /\ Revoker \notin Creds /\ Closer \notin Creds

VARIABLES
    now,       \* the clock
    allowed,   \* what authorize answers for the session
    closed,    \* the manager is closed
    cred,      \* the credentials
    tenant,    \* the counters of the tenant
    relay,     \* the relay sockets
    clients,   \* client address -> relay
    table,     \* Pion's table: client address -> relay
    reader,    \* Pion's request reader
    handler,   \* the packet handlers
    remover,   \* the threads that remove credentials
    renewer    \* the heartbeat

vars == <<now, allowed, closed, cred, tenant, relay, clients, table, reader,
          handler, remover, renewer>>

-----------------------------------------------------------------------------
(* Types *)

Threads == Creds \cup {Revoker, Closer}

Credential == [state : {"new", "checked", "managed", "removed"},
               revoked : BOOLEAN, expires : Nat, armed : BOOLEAN]
Relay == [owner : Creds \cup {None}, user : Creds \cup {None},
          client : Clients \cup {None}, used : BOOLEAN, listed : BOOLEAN,
          once : {"no", "draining", "done"}, closing : BOOLEAN,
          pinned : BOOLEAN, deleting : BOOLEAN]
Reader == [pc : {"idle", "quota", "created", "closing", "writing",
                 "sent", "deleting", "parked"},
           user : Creds \cup {None}, client : Clients \cup {None},
           relay : Relays \cup {NoRelay}]
Handler == [pc : {"off", "reading", "pinned", "writing", "sent", "closing",
                  "ended"},
            to : Relays \cup {NoRelay}]
Remover == [pc : {"idle", "begun", "quiesce", "gate", "remove", "close",
                  "rest", "drain", "done"},
            todo : SUBSET Creds, cred : Creds \cup {None},
            relays : SUBSET Relays, at : Relays \cup {NoRelay}]
Renewer == [pc : {"idle", "holding", "extending"},
            cred : Creds \cup {None}, until : Nat]

NewRelay == [owner |-> None, user |-> None, client |-> None, used |-> FALSE,
             listed |-> FALSE, once |-> "no", closing |-> FALSE,
             pinned |-> FALSE, deleting |-> FALSE]
Idle == [pc |-> "idle", user |-> None, client |-> None, relay |-> NoRelay]
Rest == [pc |-> "idle", todo |-> {}, cred |-> None, relays |-> {},
         at |-> NoRelay]
NoRenewal == [pc |-> "idle", cred |-> None, until |-> 0]

(* Every variable has its type. *)
TypeOK ==
    /\ now \in 0..MaxTime
    /\ allowed \in BOOLEAN /\ closed \in BOOLEAN
    /\ cred \in [Creds -> Credential]
    /\ tenant \in [some : BOOLEAN, credentials : Int, allocations : Int]
    /\ relay \in [Relays -> Relay]
    /\ clients \in [Clients -> Relays \cup {NoRelay}]
    /\ table \in [Clients -> Relays \cup {NoRelay}]
    /\ reader \in Reader
    /\ handler \in [Relays -> Handler]
    /\ remover \in [Threads -> Remover]
    /\ renewer \in Renewer

Init ==
    /\ now = 0
    /\ allowed = TRUE
    /\ closed = FALSE
    /\ cred = [c \in Creds |-> [state |-> "new", revoked |-> FALSE,
                                expires |-> 0, armed |-> FALSE]]
    /\ tenant = [some |-> FALSE, credentials |-> 0, allocations |-> 0]
    /\ relay = [r \in Relays |-> NewRelay]
    /\ clients = [a \in Clients |-> NoRelay]
    /\ table = [a \in Clients |-> NoRelay]
    /\ reader = Idle
    /\ handler = [r \in Relays |-> [pc |-> "off", to |-> NoRelay]]
    /\ remover = [t \in Threads |-> Rest]
    /\ renewer = NoRenewal

-----------------------------------------------------------------------------
(* Gates *)

managed == {c \in Creds : cred[c].state = "managed"}

(* The read side of a gate is kept across the check, the write and the     *)
(* report of usage.                                                        *)
Reads(c) ==
    \/ reader.pc \in {"writing", "sent"} /\ relay[reader.relay].owner = c
    \/ \E r \in Relays : /\ handler[r].pc \in {"writing", "sent"}
                         /\ relay[handler[r].to].owner = c
Writes(c) == renewer.cred = c
(* Mutant: revocation does not wait for the writes under way. *)
GateFreeUnwaited(c) == ~Writes(c)
GateFree(c) == ~Reads(c) /\ ~Writes(c)

authorized(c) == ~cred[c].revoked /\ now < cred[c].expires /\ allowed

-----------------------------------------------------------------------------
(* Credentials *)

cleanTenant(t) ==
    [t EXCEPT !.some = t.credentials # 0 \/ t.allocations # 0]

(* mint: authorize is asked before the lock is taken. *)
MintChecked(c) ==
    /\ cred[c].state = "new"
    /\ allowed
    /\ cred' = [cred EXCEPT ![c].state = "checked",
                            ![c].expires = now + Lease]
    /\ UNCHANGED <<now, allowed, closed, tenant, relay, clients, table,
                   reader, handler, remover, renewer>>
mint(c) ==
    /\ cred[c].state = "checked"
    /\ IF \/ closed \/ now >= cred[c].expires
          \/ tenant.credentials >= MaxCredentials
       THEN /\ cred' = [cred EXCEPT ![c].state = "removed"]
            /\ tenant' = tenant
       ELSE /\ cred' = [cred EXCEPT ![c].state = "managed",
                                    ![c].armed = TRUE]
            /\ tenant' = [tenant EXCEPT !.some = TRUE, !.credentials = @ + 1]
    /\ UNCHANGED <<now, allowed, closed, relay, clients, table, reader,
                   handler, remover, renewer>>

(* renewSession keeps the gate while it asks authorize, then takes the     *)
(* lock: the clock is read, and the deadline and the timer are set.  The   *)
(* deadline is that of the heartbeat, at most TTL away.  A renewal that    *)
(* could not extend the lease is left out.                                 *)
(* Mutant: the deadline that has to be extended may have passed. *)
MayExtendLapsed(c, until) ==
    ~closed /\ c \in managed /\ until > cred[c].expires
MayExtend(c, until) ==
    /\ ~closed /\ c \in managed
    /\ now < cred[c].expires /\ until > cred[c].expires
RenewLock(c) ==
    /\ renewer.pc = "idle"
    /\ MayExtend(c, now + TTL) /\ GateFree(c) /\ authorized(c)
    /\ renewer' = [pc |-> "holding", cred |-> c, until |-> 0]
    /\ UNCHANGED <<now, allowed, closed, cred, tenant, relay, clients, table,
                   reader, handler, remover>>
RenewCheck ==
    /\ renewer.pc = "holding"
    /\ \E until \in now..now + TTL :
         renewer' = IF MayExtend(renewer.cred, until)
                    THEN [renewer EXCEPT !.pc = "extending", !.until = until]
                    ELSE NoRenewal
    /\ UNCHANGED <<now, allowed, closed, cred, tenant, relay, clients, table,
                   reader, handler, remover>>
Extended(c, at) == [c EXCEPT !.expires = at, !.armed = TRUE]
renewSession ==
    /\ renewer.pc = "extending"
    /\ cred' = [cred EXCEPT ![renewer.cred] = Extended(@, renewer.until)]
    /\ renewer' = NoRenewal
    /\ UNCHANGED <<now, allowed, closed, tenant, relay, clients, table,
                   reader, handler, remover>>

(* A timer fires; its callback may then wait for the gate for long. *)
TimerFires(c) ==
    /\ c \in Creds
    /\ cred[c].armed /\ now >= cred[c].expires
    /\ remover[c].pc = "idle"
    /\ cred' = [cred EXCEPT ![c].armed = FALSE]
    /\ remover' = [remover EXCEPT ![c] = [Rest EXCEPT !.pc = "gate",
                                                     !.todo = {c}]]
    /\ UNCHANGED <<now, allowed, closed, tenant, relay, clients, table,
                   reader, handler, renewer>>

(* The clock runs while some lease may still end. *)
Tick ==
    /\ now < MaxTime
    /\ \E c \in Creds : cred[c].state \in {"checked", "managed"}
    /\ now' = now + 1
    /\ UNCHANGED <<allowed, closed, cred, tenant, relay, clients, table,
                   reader, handler, remover, renewer>>

-----------------------------------------------------------------------------
(* Relay sockets *)

(* No request is read once quiesce has told the listener to stop. *)
Listening == remover[Closer].pc \in {"idle", "begun"}

(* Close: the first caller closes the socket and then waits for the pin;   *)
(* every other caller waits for the first.                                 *)
BeginClose(rl, r) ==
    [rl EXCEPT ![r].closing = TRUE,
               ![r].once = IF @ = "no" THEN "draining" ELSE @]
Closed(r) == relay[r].once = "done"
finishIncoming(rl, r) == [rl EXCEPT ![r].pinned = FALSE]

(* Mutant: the pin is not waited for. *)
UnpinnedNever(r) == TRUE
Unpinned(r) == ~relay[r].pinned
Drain(r) ==
    /\ relay[r].once = "draining"
    /\ Unpinned(r)
    /\ relay' = [relay EXCEPT ![r].once = "done", ![r].listed = FALSE]
    /\ UNCHANGED <<now, allowed, closed, cred, tenant, clients, table, reader,
                   handler, remover, renewer>>

(* channelCreated beyond its limit leaves the closing to a goroutine. *)
channelCreated(r) ==
    /\ Listening /\ reader.pc = "idle"
    /\ relay[r].listed /\ ~relay[r].closing
    /\ \E a \in Clients : table[a] = r
    /\ relay' = [relay EXCEPT ![r].closing = TRUE]
    /\ UNCHANGED <<now, allowed, closed, cred, tenant, clients, table, reader,
                   handler, remover, renewer>>
CloseLater(r) ==
    /\ relay[r].closing /\ relay[r].once = "no"
    /\ relay' = BeginClose(relay, r)
    /\ UNCHANGED <<now, allowed, closed, cred, tenant, clients, table, reader,
                   handler, remover, renewer>>

(* Pion's DeleteAllocation takes whatever the table holds for the client,  *)
(* closes it and calls back.                                               *)
DeleteAllocation(a) ==
    /\ table' = [table EXCEPT ![a] = NoRelay]
    /\ relay' = IF table[a] = NoRelay THEN relay
                ELSE [BeginClose(relay, table[a])
                        EXCEPT ![table[a]].deleting = TRUE]
LifetimeEnds(a) ==
    /\ table[a] # NoRelay /\ handler[table[a]].pc # "off"
    /\ DeleteAllocation(a)
    /\ UNCHANGED <<now, allowed, closed, cred, tenant, clients, reader,
                   handler, remover, renewer>>

(* Mutant: the counter is left alone once the credential is gone. *)
ReleasedManaged(t, c) ==
    IF c \in managed
    THEN cleanTenant([t EXCEPT !.allocations = @ - 1]) ELSE t
Released(t, c) ==
    IF c # None /\ t.some
    THEN cleanTenant([t EXCEPT !.allocations = @ - 1]) ELSE t
allocationDeleted(d) ==
    LET a == relay[d].client
        r == clients[a]
        c == relay[r].owner
    IN  /\ relay[d].deleting /\ Closed(d)
        /\ relay' = [relay EXCEPT ![d].deleting = FALSE]
        /\ IF r = NoRelay \/ (c # None /\ c # relay[d].user)
           THEN UNCHANGED <<clients, tenant>>
           ELSE /\ clients' = [clients EXCEPT ![a] = NoRelay]
                /\ tenant' = Released(tenant, c)
        /\ UNCHANGED <<now, allowed, closed, cred, table, reader, handler,
                       remover, renewer>>

-----------------------------------------------------------------------------
(* Pion's request reader *)

Room == LET Max(x, y) == IF x > y THEN x ELSE y
            mapped == {a \in Clients : clients[a] # NoRelay}
            listed == {r \in Relays : relay[r].listed}
        IN  Max(Cardinality(listed), Cardinality(mapped)) < MaxAllocations

auth(c, a) ==
    /\ Listening /\ reader.pc = "idle"
    /\ ~closed /\ c \in managed /\ ~Writes(c)
    /\ authorized(c)
    /\ \/ /\ table[a] = NoRelay    \* an Allocate request
          /\ reader' = [Idle EXCEPT !.pc = "quota", !.user = c,
                                    !.client = a]
          /\ UNCHANGED <<relay, table>>
       \/ /\ table[a] # NoRelay    \* a Refresh request that ends it
          /\ reader' = [Idle EXCEPT !.pc = "deleting", !.client = a,
                                    !.relay = table[a]]
          /\ DeleteAllocation(a)
    /\ UNCHANGED <<now, allowed, closed, cred, tenant, clients, handler,
                   remover, renewer>>
Deleted ==
    /\ reader.pc = "deleting" /\ ~relay[reader.relay].deleting
    /\ reader' = Idle
    /\ UNCHANGED <<now, allowed, closed, cred, tenant, relay, clients, table,
                   handler, remover, renewer>>

quota ==
    /\ ~closed /\ reader.user \in managed
    /\ clients[reader.client] = NoRelay
    /\ Room /\ tenant.allocations < MaxAllocationsPerTenant
(* AllocatePacketConn asks again before and after it opens a port outside  *)
(* the lock, which may fail.                                               *)
AllocatePacketConn ==
    /\ reader.pc = "quota"
    /\ \/ /\ reader' = Idle
          /\ relay' = relay
       \/ \E r \in Relays :
            /\ quota
            /\ ~relay[r].used /\ \A q \in 1..r - 1 : relay[q].used
            /\ relay' = [relay EXCEPT ![r].used = TRUE, ![r].listed = TRUE]
            /\ reader' = [reader EXCEPT !.pc = "created", !.relay = r]
    /\ UNCHANGED <<now, allowed, closed, cred, tenant, clients, table,
                   handler, remover, renewer>>

(* allocationCreated: the credential may be gone by now. *)
(* Mutant: then the relay is kept. *)
BadNever(c) == FALSE
Bad(c) ==
    \/ closed \/ c = None
    \/ tenant.allocations >= MaxAllocationsPerTenant
allocationCreated ==
    LET r == reader.relay
        c == IF reader.user \in managed THEN reader.user ELSE None
        mapped == [relay EXCEPT ![r].owner = c, ![r].user = reader.user,
                                ![r].client = reader.client]
    IN  /\ reader.pc = "created"
        /\ table' = [table EXCEPT ![reader.client] = r]
        /\ clients' = [clients EXCEPT ![reader.client] = r]
        /\ tenant' = [tenant EXCEPT
                        !.allocations = IF c = None THEN @ ELSE @ + 1]
        /\ IF Bad(c)
           THEN /\ relay' = BeginClose(mapped, r)
                /\ reader' = [reader EXCEPT !.pc = "closing"]
                /\ handler' = handler
           ELSE /\ relay' = mapped
                /\ reader' = Idle
                /\ handler' = [handler EXCEPT ![r].pc = "reading"]
        /\ UNCHANGED <<now, allowed, closed, cred, remover, renewer>>
ReaderClosed ==
    LET r == reader.relay
    IN  /\ reader.pc = "closing" /\ Closed(r)
        /\ handler' = [handler EXCEPT ![r].pc = IF @ = "off" THEN "reading"
                                               ELSE @]
        /\ reader' = Idle
        /\ UNCHANGED <<now, allowed, closed, cred, tenant, relay, clients,
                       table, remover, renewer>>

(* WriteTo of the relay: a datagram of the client. *)
RelayWriteTo(a) ==
    LET r == table[a]
        c == relay[r].owner
    IN  /\ Listening /\ reader.pc = "idle"
        /\ r # NoRelay /\ c # None /\ ~Writes(c)
        /\ IF relay[r].closing \/ ~authorized(c)
           THEN /\ relay' = BeginClose(relay, r)
                /\ reader' = [Idle EXCEPT !.pc = "closing", !.relay = r]
           ELSE /\ ~closed
                /\ relay' = relay
                /\ reader' = [Idle EXCEPT !.pc = "writing", !.relay = r]
        /\ UNCHANGED <<now, allowed, closed, cred, tenant, clients, table,
                       handler, remover, renewer>>
(* The write has a deadline, at most that of the credential. *)
RelayWritten ==
    LET r == reader.relay
    IN  /\ reader.pc = "writing"
        /\ \/ reader' = Idle
           \/ /\ now < cred[relay[r].owner].expires
              /\ relay[r].once = "no"
              /\ reader' = [reader EXCEPT !.pc = "sent"]
        /\ UNCHANGED <<now, allowed, closed, cred, tenant, relay, clients,
                       table, handler, remover, renewer>>
RelayReported ==
    /\ reader.pc = "sent"
    /\ reader' = Idle
    /\ UNCHANGED <<now, allowed, closed, cred, tenant, relay, clients, table,
                   handler, remover, renewer>>
Park ==
    /\ reader.pc = "idle" /\ ~Listening
    /\ reader' = [Idle EXCEPT !.pc = "parked"]
    /\ UNCHANGED <<now, allowed, closed, cred, tenant, relay, clients, table,
                   handler, remover, renewer>>

-----------------------------------------------------------------------------
(* The packet handler of a relay *)

At(r, pc, to) == handler' = [handler EXCEPT ![r] = [pc |-> pc, to |-> to]]
Unheld(r, to) ==
    IF to = NoRelay THEN finishIncoming(relay, r)
    ELSE finishIncoming(finishIncoming(relay, r), to)
(* Back to ReadFrom, whose first statement releases the pin. *)
ReadAgain(r) ==
    /\ At(r, "reading", NoRelay)
    /\ relay' = Unheld(r, handler[r].to)

(* packetHandler ends when a read fails. *)
HandlerEnds(r) ==
    /\ At(r, "ended", NoRelay)
    /\ DeleteAllocation(relay[r].client)

(* A datagram is checked, then pinned unless the relay is closing. *)
ReadFrom(r) ==
    LET c == relay[r].owner
    IN  /\ handler[r].pc = "reading" /\ relay[r].once = "no"
        /\ c # None /\ ~Writes(c)
        /\ \/ /\ authorized(c) /\ ~relay[r].closing
              /\ At(r, "pinned", NoRelay)
              /\ relay' = [relay EXCEPT ![r].pinned = TRUE]
              /\ table' = table
           \/ /\ authorized(c) /\ relay[r].closing
              /\ HandlerEnds(r)
           \/ /\ ~authorized(c)
              /\ At(r, "closing", r)
              /\ relay' = BeginClose(relay, r)
              /\ table' = table
        /\ UNCHANGED <<now, allowed, closed, cred, tenant, clients, reader,
                       remover, renewer>>
(* Pion drops it, or passes it to WriteTo of the listener, which looks the *)
(* relay of the client up and takes its gate.                              *)
(* Mutant: the pin is kept while the relay is closed. *)
RefusedPinned(to) == BeginClose(relay, to)
Refused(to) == BeginClose(finishIncoming(relay, to), to)
ListenerWriteTo(r) ==
    LET to == clients[relay[r].client]
        c == relay[to].owner
    IN  /\ handler[r].pc = "pinned"
        /\ \/ ReadAgain(r)
           \/ /\ to # NoRelay
              /\ c # None /\ ~Writes(c)
              /\ IF relay[to].closing \/ ~authorized(c)
                 THEN At(r, "closing", to) /\ relay' = Refused(to)
                 ELSE ~closed /\ At(r, "writing", to) /\ relay' = relay
        /\ UNCHANGED <<now, allowed, closed, cred, tenant, clients, table,
                       reader, remover, renewer>>
writePacket(r) ==
    LET c == relay[handler[r].to].owner
    IN  /\ handler[r].pc = "writing"
        /\ \/ ReadAgain(r)
           \/ /\ now < cred[c].expires
              /\ At(r, "sent", handler[r].to)
              /\ relay' = relay
        /\ UNCHANGED <<now, allowed, closed, cred, tenant, clients, table,
                       reader, remover, renewer>>
Finish(r) ==
    /\ \/ handler[r].pc = "sent"
       \/ handler[r].pc = "closing" /\ Closed(handler[r].to)
    /\ ReadAgain(r)
    /\ UNCHANGED <<now, allowed, closed, cred, tenant, clients, table, reader,
                   remover, renewer>>
ReadFails(r) ==
    /\ handler[r].pc = "reading" /\ relay[r].once # "no"
    /\ HandlerEnds(r)
    /\ UNCHANGED <<now, allowed, closed, cred, tenant, clients, reader,
                   remover, renewer>>

-----------------------------------------------------------------------------
(* The threads that remove credentials *)

Goes(t, r) == remover' = [remover EXCEPT ![t] = r]

(* A revocation is committed, and the cache told, before revokeSession. *)
Revoke ==
    /\ remover[Revoker].pc = "idle"
    /\ allowed' = FALSE
    /\ Goes(Revoker, [Rest EXCEPT !.pc = "begun"])
    /\ UNCHANGED <<now, closed, cred, tenant, relay, clients, table, reader,
                   handler, renewer>>
close ==
    /\ remover[Closer].pc = "idle"
    /\ closed' = TRUE
    /\ Goes(Closer, [Rest EXCEPT !.pc = "begun"])
    /\ UNCHANGED <<now, allowed, cred, tenant, relay, clients, table, reader,
                   handler, renewer>>
Quiesced(t) ==
    t = Closer /\ remover[t].pc = "quiesce" /\ reader.pc = "parked"
quiesce(t) ==
    /\ t = Closer /\ remover[t].pc = "begun"
    /\ Goes(t, [Rest EXCEPT !.pc = "quiesce"])
    /\ UNCHANGED <<now, allowed, closed, cred, tenant, relay, clients, table,
                   reader, handler, renewer>>
revoke(t) ==
    /\ Quiesced(t) \/ (t = Revoker /\ remover[t].pc = "begun")
    /\ Goes(t, [Rest EXCEPT !.pc = "gate", !.todo = managed])
    /\ UNCHANGED <<now, allowed, closed, cred, tenant, relay, clients, table,
                   reader, handler, renewer>>

(* expireCredential looks at the deadline again: the callback of a timer   *)
(* that was set again returns.                                             *)
(* Mutant: it does not look. *)
EndsBlindly(t, c) == TRUE
Ends(t, c) == t \in Creds => ~cred[c].revoked /\ now >= cred[c].expires
revokeCredential(t) ==
    /\ remover[t].pc = "gate"
    /\ \E c \in remover[t].todo :
         /\ GateFree(c)
         /\ IF Ends(t, c)
            THEN /\ cred' = [cred EXCEPT ![c].revoked = TRUE]
                 /\ Goes(t, [remover[t] EXCEPT !.pc = "remove", !.cred = c,
                                               !.todo = @ \ {c}])
            ELSE cred' = cred /\ Goes(t, Rest)
    /\ UNCHANGED <<now, allowed, closed, tenant, relay, clients, table,
                   reader, handler, renewer>>
OwnedBy(c) == {r \in Relays : relay[r].listed /\ relay[r].owner = c}
removeCredential(t) ==
    LET c == remover[t].cred
    IN  /\ remover[t].pc = "remove"
        /\ IF c \in managed
           THEN /\ cred' = [cred EXCEPT ![c].state = "removed",
                                        ![c].armed = FALSE]
                /\ tenant' = cleanTenant([tenant EXCEPT !.credentials = @ - 1])
           ELSE UNCHANGED <<cred, tenant>>
        /\ Goes(t, [remover[t] EXCEPT !.pc = "close", !.cred = None,
                                      !.relays = OwnedBy(c)])
        /\ UNCHANGED <<now, allowed, closed, relay, clients, table, reader,
                       handler, renewer>>
Close(t) ==
    /\ remover[t].pc \in {"close", "rest"}
    /\ \/ /\ remover[t].at = NoRelay
          /\ \E r \in remover[t].relays :
               /\ Goes(t, [remover[t] EXCEPT !.at = r, !.relays = @ \ {r}])
               /\ relay' = BeginClose(relay, r)
       \/ /\ remover[t].at # NoRelay /\ Closed(remover[t].at)
          /\ Goes(t, [remover[t] EXCEPT !.at = NoRelay])
          /\ relay' = relay
    /\ UNCHANGED <<now, allowed, closed, cred, tenant, clients, table, reader,
                   handler, renewer>>
NextPhase(t) ==
    LET m == remover[t]
    IN  /\ \/ /\ m.pc = "close" /\ m.relays = {} /\ m.at = NoRelay
             /\ Goes(t, IF t \in Creds THEN Rest ELSE [m EXCEPT !.pc = "gate"])
          \/ /\ m.pc = "gate" /\ m.todo = {}
             /\ Goes(t, IF t = Revoker THEN [Rest EXCEPT !.pc = "done"]
                        ELSE [m EXCEPT !.pc = "rest",
                                       !.relays = {r \in Relays :
                                                     relay[r].listed}])
          \/ /\ m.pc = "rest" /\ m.relays = {} /\ m.at = NoRelay
             /\ Goes(t, [Rest EXCEPT !.pc = "drain"])
          \/ /\ m.pc = "drain"
             /\ \A a \in Clients : clients[a] = NoRelay
             /\ Goes(t, [Rest EXCEPT !.pc = "done"])
        /\ UNCHANGED <<now, allowed, closed, cred, tenant, relay, clients,
                       table, reader, handler, renewer>>

-----------------------------------------------------------------------------

ReaderStep ==
    \/ Deleted \/ AllocatePacketConn \/ allocationCreated
    \/ ReaderClosed \/ RelayWritten \/ RelayReported \/ Park
HandlerStep(r) ==
    ListenerWriteTo(r) \/ writePacket(r) \/ Finish(r) \/ ReadFails(r)
RelayStep(r) == CloseLater(r) \/ Drain(r) \/ allocationDeleted(r)
RemoverStep(t) ==
    \/ quiesce(t) \/ revoke(t) \/ revokeCredential(t) \/ removeCredential(t)
    \/ Close(t) \/ NextPhase(t)
Request ==
    \E a \in Clients : RelayWriteTo(a) \/ \E c \in Creds : auth(c, a)

(* While a renewal holds the lock only the clock and the timers go on. *)
Next ==
    \/ Tick \/ renewSession
    \/ \E c \in Creds : TimerFires(c)
    \/ /\ renewer.pc # "extending"
       /\ \/ \E c \in Creds : MintChecked(c) \/ mint(c) \/ RenewLock(c)
          \/ RenewCheck \/ Request \/ ReaderStep
          \/ \E r \in Relays :
               \/ channelCreated(r) \/ RelayStep(r)
               \/ ReadFrom(r) \/ HandlerStep(r)
          \/ \E a \in Clients : LifetimeEnds(a)
          \/ Revoke \/ close
          \/ \E t \in Threads : RemoverStep(t)

Spec == Init /\ [][Next]_vars

(* Threads run, timers fire when they are due and writes have deadlines;   *)
(* nobody has to send, to renew, to revoke or to close.                    *)
Fairness ==
    /\ WF_vars(RenewCheck \/ renewSession)
    /\ WF_vars(ReaderStep)
    /\ \A r \in Relays : WF_vars(RelayStep(r)) /\ WF_vars(HandlerStep(r))
    /\ \A t \in Threads : WF_vars(TimerFires(t) \/ RemoverStep(t))
FairSpec == Spec /\ Fairness

-----------------------------------------------------------------------------
(* Properties *)

Forwards(c) ==
    \/ /\ reader.pc = "writing" /\ reader'.pc = "sent"
       /\ relay[reader.relay].owner = c
    \/ \E r \in Relays :
         /\ handler[r].pc = "writing" /\ handler'[r].pc = "sent"
         /\ relay[handler[r].to].owner = c

(* No datagram is forwarded in either direction for a credential that was  *)
(* revoked or has expired, however late the write comes after its check,   *)
(* nor for any credential, one minted meanwhile included, once             *)
(* revokeSession has returned.                                             *)
NoLateForward ==
    [][\A c \in Creds : Forwards(c) =>
          /\ ~cred[c].revoked /\ now < cred[c].expires
          /\ remover[Revoker].pc # "done"]_vars

(* A datagram that came in on a relay is checked against, and billed to,   *)
(* the allocation of that relay and never to one that took over its        *)
(* client's address.                                                       *)
OwnDatagram ==
    \A r \in Relays : handler[r].to \in {NoRelay, r}

(* The counters of the tenant say what the maps hold, in spite of          *)
(* credentials that are removed while a relay is being created or deleted, *)
(* so quota is neither leaked nor exceeded.                                *)
CountersExact ==
    LET counted == {a \in Clients : /\ clients[a] # NoRelay
                                    /\ relay[clients[a]].owner # None}
    IN  /\ tenant.credentials = Cardinality(managed)
        /\ tenant.allocations = Cardinality(counted)
        /\ tenant.allocations <= MaxAllocationsPerTenant
        /\ tenant.some = (managed # {} \/ counted # {})

(* Once revokeSession has returned, the closing of every relay of the      *)
(* session has begun, or is left to the thread that removed its credential *)
(* first: also of one whose creation raced with the revocation.            *)
RevokedClosed ==
    remover[Revoker].pc = "done" =>
      \A r \in Relays : relay[r].client # None =>
        \/ relay[r].closing
        \/ \E t \in Threads : r \in remover[t].relays

(* The lease of a credential ends when its deadline has passed and not     *)
(* before: the callback of a timer that was set again does not end the     *)
(* renewed lease, and no renewal changes one that was revoked.             *)
LeaseKept ==
    [][\A c \in Creds :
         /\ cred'[c].revoked /\ ~cred[c].revoked =>
              \/ now >= cred[c].expires
              \/ \E t \in {Revoker, Closer} : remover'[t].cred = c
         /\ cred[c].revoked => cred'[c].expires = cred[c].expires]_vars

(* A lease that has lapsed stays lapsed until its credential is removed,   *)
(* although a renewal asks authorize before it takes the lock: one that    *)
(* gets the lock after the deadline does nothing, and only one that read   *)
(* the clock before, and still has the lock, may write after it.  So each  *)
(* renewal moves the deadline forward, and by less than TTL.               *)
Lapsed(c) ==
    /\ c \in managed /\ now >= cred[c].expires
    /\ ~(renewer.pc = "extending" /\ renewer.cred = c)
Renewal(c) ==
    cred[c].state # "new" /\ cred'[c].expires # cred[c].expires
NoRevival ==
    [][\A c \in Creds :
         /\ Lapsed(c) => Lapsed(c)' \/ c \notin managed'
         /\ Renewal(c) => /\ cred[c].expires < cred'[c].expires
                          /\ cred'[c].expires < cred[c].expires + TTL]_vars

(* Leases are kept so, and no renewal loses the timer: an expired          *)
(* credential is always removed.                                           *)
Expired(c) == c \in managed /\ now >= cred[c].expires
LeaseEnds == LeaseKept /\ \A c \in Creds : Expired(c) ~> ~Expired(c)

(* close returns, whatever requests, datagrams, timers and revocations it  *)
(* meets: no relay waits for a pin that its own handler, or a thread that  *)
(* waits for the relay, would have to release.                             *)
CloseReturns == closed ~> remover[Closer].pc = "done"
=============================================================================
