-------------------------- MODULE TurnRelayProofs ---------------------------
(***************************************************************************)
(* Proofs about TurnRelay, for any number of credentials, clients, relays  *)
(* and any limits.  Types, maps and gates come first (IInv): datagrams     *)
(* stay with their own allocation and none is forwarded late.  On top of   *)
(* them, what a step keeps of a relay gives the counters (Counts) and the  *)
(* revocation of a session (Closes).  Leases need less: types and the      *)
(* renewal that keeps its gate (Leases).                                   *)
(***************************************************************************)
EXTENDS TurnRelay, FiniteSetTheorems, TLAPS

Tenants == [some : BOOLEAN, credentials : Int, allocations : Int]

(* The maps: Pion's table names mapped relays only, a relay whose socket   *)
(* is not closed for good is the one its client's address maps to, and so  *)
(* is one whose deletion is not yet reported.  While a new relay has no    *)
(* owner, its client's address is free.                                    *)
Mapped ==
    /\ \A a \in Clients : table[a] # NoRelay => clients[a] = table[a]
    /\ \A a \in Clients : clients[a] # NoRelay => relay[clients[a]].client = a
    /\ \A r \in Relays : relay[r].client # None /\ relay[r].once # "done" =>
                           clients[relay[r].client] = r
    /\ \A r \in Relays : relay[r].deleting =>
         /\ relay[r].client # None
         /\ clients[relay[r].client] = r /\ table[relay[r].client] # r
    /\ \A r \in Relays : ~relay[r].used => relay[r].client = None
ReaderAt ==
    /\ reader.pc \in {"quota", "created"} =>
         reader.client \in Clients /\ reader.user \in Creds
    /\ reader.pc = "created" =>
         /\ clients[reader.client] = NoRelay /\ reader.relay \in Relays
         /\ relay[reader.relay].client = None /\ relay[reader.relay].used
    /\ reader.pc \in {"closing", "writing", "sent"} =>
         reader.relay \in Relays /\ relay[reader.relay].client # None
HandlerAt ==
    \A r \in Relays :
      /\ handler[r].pc # "off" => relay[r].client # None
      /\ handler[r].pc = "pinned" => relay[r].pinned /\ relay[r].once # "done"
      /\ handler[r].pc \in {"writing", "sent", "closing"} => handler[r].to = r
Own == OwnDatagram /\ Mapped /\ ReaderAt /\ HandlerAt

-----------------------------------------------------------------------------
(* Types *)

LEMMA BeginCloseType ==
  ASSUME NEW rl \in [Relays -> Relay], NEW r
  PROVE  BeginClose(rl, r) \in [Relays -> Relay]
<1> DEFINE o(q) == IF rl[q].once = "no" THEN "draining" ELSE rl[q].once
           f == [q \in Relays |->
                   IF q = r THEN [rl[q] EXCEPT !.closing = TRUE, !.once = o(q)]
                   ELSE rl[q]]
<1>1. \A q \in Relays : o(q) \in {"no", "draining", "done"}
  BY DEF Relay
<1>2. BeginClose(rl, r) = f
  BY DEF BeginClose
<1> HIDE DEF o
<1>3. f \in [Relays -> Relay]
  BY ZenonT(60), <1>1 DEF Relay
<1> QED  BY <1>2, <1>3

LEMMA FinishType ==
  ASSUME NEW rl \in [Relays -> Relay], NEW r
  PROVE  finishIncoming(rl, r) \in [Relays -> Relay]
BY ZenonT(60) DEF finishIncoming, Relay

LEMMA FieldType ==
  ASSUME NEW rl \in [Relays -> Relay], NEW r, NEW b \in BOOLEAN
  PROVE  /\ [rl EXCEPT ![r].closing = b] \in [Relays -> Relay]
         /\ [rl EXCEPT ![r].pinned = b] \in [Relays -> Relay]
         /\ [rl EXCEPT ![r].deleting = b] \in [Relays -> Relay]
         /\ [rl EXCEPT ![r].listed = b] \in [Relays -> Relay]
<1>1. [rl EXCEPT ![r].closing = b] \in [Relays -> Relay]
  BY ZenonT(60) DEF Relay
<1>2. [rl EXCEPT ![r].pinned = b] \in [Relays -> Relay]
  BY ZenonT(60) DEF Relay
<1>3. [rl EXCEPT ![r].deleting = b] \in [Relays -> Relay]
  BY ZenonT(60) DEF Relay
<1>4. [rl EXCEPT ![r].listed = b] \in [Relays -> Relay]
  BY ZenonT(60) DEF Relay
<1> QED  BY <1>1, <1>2, <1>3, <1>4

(* The other changes of a relay. *)
LEMMA DrainType ==
  ASSUME NEW rl \in [Relays -> Relay], NEW r
  PROVE  [rl EXCEPT ![r].once = "done", ![r].listed = FALSE]
            \in [Relays -> Relay]
<1> DEFINE x == [rl[r] EXCEPT !.once = "done", !.listed = FALSE]
<1>1. x \in Relay \/ r \notin Relays
  BY ZenonT(60) DEF Relay
<1>2. [rl EXCEPT ![r].once = "done", ![r].listed = FALSE]
        = [q \in Relays |-> IF q = r THEN x ELSE rl[q]]
  OBVIOUS
<1> HIDE DEF x
<1> QED  BY <1>1, <1>2

LEMMA OpenType ==
  ASSUME NEW rl \in [Relays -> Relay], NEW r
  PROVE  [rl EXCEPT ![r].used = TRUE, ![r].listed = TRUE] \in [Relays -> Relay]
<1> DEFINE x == [rl[r] EXCEPT !.used = TRUE, !.listed = TRUE]
<1>1. x \in Relay \/ r \notin Relays
  BY ZenonT(60) DEF Relay
<1>2. [rl EXCEPT ![r].used = TRUE, ![r].listed = TRUE]
        = [q \in Relays |-> IF q = r THEN x ELSE rl[q]]
  OBVIOUS
<1> HIDE DEF x
<1> QED  BY <1>1, <1>2

LEMMA OwnedType ==
  ASSUME NEW rl \in [Relays -> Relay], NEW r, NEW a \in Clients \cup {None},
         NEW c \in Creds \cup {None}, NEW u \in Creds \cup {None}
  PROVE  [rl EXCEPT ![r].owner = c, ![r].user = u, ![r].client = a]
            \in [Relays -> Relay]
<1> DEFINE x == [rl[r] EXCEPT !.owner = c, !.user = u, !.client = a]
<1>1. x \in Relay \/ r \notin Relays
  BY DEF Relay
<1>2. [rl EXCEPT ![r].owner = c, ![r].user = u, ![r].client = a]
        = [q \in Relays |-> IF q = r THEN x ELSE rl[q]]
  OBVIOUS
<1> HIDE DEF x
<1> QED  BY <1>1, <1>2

LEMMA CleanType ==
  ASSUME NEW t \in Tenants
  PROVE  cleanTenant(t) \in Tenants
<1>1. (t.credentials # 0 \/ t.allocations # 0) \in BOOLEAN
  OBVIOUS
<1> QED  BY <1>1 DEF cleanTenant, Tenants

LEMMA RestType == Rest \in Remover /\ NoRenewal \in Renewer
               /\ NewRelay \in Relay /\ Idle \in Reader
BY DEF Rest, NoRenewal, NewRelay, Idle, Remover, Renewer, Relay, Reader

LEMMA InitType == Init => TypeOK
<1> SUFFICES ASSUME Init PROVE TypeOK
  OBVIOUS
<1>1. /\ relay \in [Relays -> Relay] /\ reader \in Reader
      /\ remover \in [Threads -> Remover] /\ renewer \in Renewer
  BY RestType DEF Init
<1>2. cred \in [Creds -> Credential] /\ handler \in [Relays -> Handler]
  BY DEF Init, Credential, Handler
<1>3. tenant \in [some : BOOLEAN, credentials : Int, allocations : Int]
  BY DEF Init
<1>4. now \in 0..MaxTime /\ allowed \in BOOLEAN /\ closed \in BOOLEAN
  <2>1. now \in 0..MaxTime
    BY ConstantsAssumption DEF Init
  <2> QED  BY <2>1 DEF Init
<1>5. /\ clients \in [Clients -> Relays \cup {NoRelay}]
      /\ table \in [Clients -> Relays \cup {NoRelay}]
  BY DEF Init
<1> QED  BY <1>1, <1>2, <1>3, <1>4, <1>5 DEF TypeOK

(* Credentials *)
LEMMA CredType ==
  ASSUME TypeOK, NEW c \in Creds,
         MintChecked(c) \/ mint(c) \/ TimerFires(c) \/ Tick
  PROVE  TypeOK'
<1>1. CASE MintChecked(c)
  <2>1. now + Lease \in Nat
    BY ConstantsAssumption DEF TypeOK
  <2>2. cred' \in [Creds -> Credential]
    BY ZenonT(60), <1>1, <2>1 DEF TypeOK, MintChecked, Credential
  <2> QED  BY <1>1, <2>2 DEF TypeOK, MintChecked
<1>2. CASE mint(c)
  <2>1. cred' \in [Creds -> Credential]
    BY <1>2 DEF TypeOK, mint, Credential
  <2>2. tenant' \in [some : BOOLEAN, credentials : Int, allocations : Int]
    <3>1. \/ tenant' = tenant
          \/ tenant' = [tenant EXCEPT !.some = TRUE, !.credentials = @ + 1]
      BY <1>2 DEF mint
    <3>2. tenant \in [some : BOOLEAN, credentials : Int, allocations : Int]
      BY DEF TypeOK
    <3>3. [tenant EXCEPT !.some = TRUE, !.credentials = @ + 1]
            \in [some : BOOLEAN, credentials : Int, allocations : Int]
      <4> DEFINE n == tenant.credentials + 1
      <4>1. n \in Int
        BY <3>2
      <4> HIDE DEF n
      <4>2. [tenant EXCEPT !.some = TRUE, !.credentials = n]
              \in [some : BOOLEAN, credentials : Int, allocations : Int]
        BY <3>2, <4>1
      <4> QED  BY <4>2 DEF n
    <3> QED  BY <3>1, <3>2, <3>3
  <2> QED  BY <1>2, <2>1, <2>2 DEF TypeOK, mint
<1>3. CASE TimerFires(c)
  <2>1. [Rest EXCEPT !.pc = "gate", !.todo = {c}] \in Remover
    BY RestType DEF Remover
  <2>2. remover' \in [Threads -> Remover]
    BY <1>3, <2>1 DEF TimerFires, TypeOK
  <2> QED  BY ZenonT(60), <1>3, <2>2 DEF TypeOK, TimerFires, Credential
<1>4. CASE Tick
  BY <1>4, ConstantsAssumption DEF TypeOK, Tick
<1> QED  BY <1>1, <1>2, <1>3, <1>4

LEMMA RenewType ==
  ASSUME TypeOK, (\E c \in Creds : RenewLock(c)) \/ RenewCheck \/ renewSession
  PROVE  TypeOK'
<1>1. ASSUME NEW c \in Creds, RenewLock(c) PROVE TypeOK'
  BY <1>1 DEF TypeOK, RenewLock, Renewer
<1>2. CASE RenewCheck
  <2>1. renewer' \in Renewer
    <3>1. now..now + TTL \subseteq Nat
      BY ConstantsAssumption DEF TypeOK
    <3>2. \A until \in Nat :
            [renewer EXCEPT !.pc = "extending", !.until = until] \in Renewer
      BY DEF TypeOK, Renewer
    <3> QED  BY <1>2, <3>1, <3>2, RestType DEF RenewCheck
  <2> QED  BY <1>2, <2>1 DEF TypeOK, RenewCheck
<1>3. CASE renewSession
  <2>1. cred' \in [Creds -> Credential]
    BY ZenonT(60), <1>3 DEF renewSession, TypeOK, Extended, Credential, Renewer
  <2> QED  BY <1>3, <2>1, RestType DEF TypeOK, renewSession
<1> QED  BY <1>1, <1>2, <1>3

(* Relays *)
LEMMA DeleteType ==
  ASSUME TypeOK, NEW a, DeleteAllocation(a)
  PROVE  /\ table' \in [Clients -> Relays \cup {NoRelay}]
         /\ relay' \in [Relays -> Relay]
<1>1. table' \in [Clients -> Relays \cup {NoRelay}]
  BY DEF TypeOK, DeleteAllocation
<1> DEFINE b == BeginClose(relay, table[a])
<1>2. b \in [Relays -> Relay]
  BY BeginCloseType DEF TypeOK
<1>3. relay' = relay \/ relay' = [b EXCEPT ![table[a]].deleting = TRUE]
  BY DEF DeleteAllocation
<1> HIDE DEF b
<1>4. relay' \in [Relays -> Relay]
  <2>1. [b EXCEPT ![table[a]].deleting = TRUE] \in [Relays -> Relay]
    BY <1>2, FieldType
  <2> QED  BY <1>3, <2>1 DEF TypeOK
<1> QED  BY <1>1, <1>4

LEMMA RelayType ==
  ASSUME TypeOK, NEW r \in Relays, channelCreated(r) \/ RelayStep(r)
  PROVE  TypeOK'
<1>1. CASE channelCreated(r)
  <2>1. relay' \in [Relays -> Relay]
    BY <1>1, FieldType DEF channelCreated, TypeOK
  <2> QED  BY <1>1, <2>1 DEF TypeOK, channelCreated
<1>2. CASE CloseLater(r)
  BY <1>2, BeginCloseType DEF TypeOK, CloseLater
<1>3. CASE Drain(r)
  <2>1. relay' \in [Relays -> Relay]
    <3>1. relay \in [Relays -> Relay]
      BY DEF TypeOK
    <3>2. relay' = [relay EXCEPT ![r].once = "done", ![r].listed = FALSE]
      BY <1>3 DEF Drain
    <3> QED  BY <3>1, <3>2, DrainType
  <2> QED  BY <1>3, <2>1 DEF TypeOK, Drain
<1>4. CASE allocationDeleted(r)
  <2>1. relay' \in [Relays -> Relay]
    BY <1>4, FieldType DEF allocationDeleted, TypeOK
  <2>2. clients' \in [Clients -> Relays \cup {NoRelay}]
    BY <1>4 DEF allocationDeleted, TypeOK
  <2>3. [tenant EXCEPT !.allocations = @ - 1] \in Tenants
    BY DEF TypeOK, Tenants
  <2>4. tenant' \in Tenants
    BY <1>4, <2>3, CleanType DEF allocationDeleted, Released, TypeOK, Tenants
  <2> QED  BY <1>4, <2>1, <2>2, <2>4 DEF TypeOK, allocationDeleted, Tenants
<1> QED  BY <1>1, <1>2, <1>3, <1>4 DEF RelayStep

LEMMA LifetimeType ==
  ASSUME TypeOK, NEW a \in Clients, LifetimeEnds(a)
  PROVE  TypeOK'
BY DeleteType DEF TypeOK, LifetimeEnds

(* The reader *)
LEMMA RequestType ==
  ASSUME TypeOK, Request
  PROVE  TypeOK'
<1>1. ASSUME NEW a \in Clients, RelayWriteTo(a) PROVE TypeOK'
  <2>1. relay' \in [Relays -> Relay]
    BY <1>1, BeginCloseType DEF RelayWriteTo, TypeOK
  <2>2. reader' \in Reader
    <3> table[a] \in Relays \cup {NoRelay}
      BY DEF TypeOK
    <3> QED  BY <1>1, RestType DEF RelayWriteTo, Reader
  <2> QED  BY <1>1, <2>1, <2>2 DEF RelayWriteTo, TypeOK
<1>2. ASSUME NEW a \in Clients, NEW c \in Creds, auth(c, a) PROVE TypeOK'
  <2>1. /\ table' \in [Clients -> Relays \cup {NoRelay}]
        /\ relay' \in [Relays -> Relay]
    BY <1>2, DeleteType DEF auth, TypeOK
  <2>2. reader' \in Reader
    <3> table[a] \in Relays \cup {NoRelay}
      BY DEF TypeOK
    <3> QED  BY <1>2, RestType DEF auth, Reader
  <2> QED  BY <1>2, <2>1, <2>2 DEF auth, TypeOK
<1> QED  BY <1>1, <1>2 DEF Request

LEMMA CreatedType ==
  ASSUME TypeOK, allocationCreated
  PROVE  TypeOK'
<1> DEFINE r == reader.relay
           c == IF reader.user \in managed THEN reader.user ELSE None
           mapped == [relay EXCEPT ![r].owner = c, ![r].user = reader.user,
                                   ![r].client = reader.client]
<1>1. c \in Creds \cup {None} /\ r \in Relays \cup {NoRelay}
  BY DEF managed, TypeOK, Reader
<1>2. mapped \in [Relays -> Relay]
  <2> HIDE DEF c
  <2>1. /\ relay \in [Relays -> Relay]
        /\ reader.user \in Creds \cup {None}
        /\ reader.client \in Clients \cup {None}
    BY DEF TypeOK, Reader
  <2> QED  BY ZenonT(60), <1>1, <2>1, OwnedType
<1>3. relay' = mapped \/ relay' = BeginClose(mapped, r)
  BY DEF allocationCreated
<1>4. reader' = Idle \/ reader' = [reader EXCEPT !.pc = "closing"]
  BY DEF allocationCreated
<1>5. handler' = handler \/ handler' = [handler EXCEPT ![r].pc = "reading"]
  BY DEF allocationCreated
<1>6. \/ tenant' = [tenant EXCEPT !.allocations = @]
      \/ tenant' = [tenant EXCEPT !.allocations = @ + 1]
  BY DEF allocationCreated
<1>7. /\ table' = [table EXCEPT ![reader.client] = r]
      /\ clients' = [clients EXCEPT ![reader.client] = r]
      /\ UNCHANGED <<now, allowed, closed, cred, remover, renewer>>
  BY DEF allocationCreated
<1> HIDE DEF mapped
<1>8. relay' \in [Relays -> Relay]
  BY <1>2, <1>3, BeginCloseType
<1>9. reader' \in Reader
  BY <1>4, RestType DEF TypeOK, Reader
<1>10. handler' \in [Relays -> Handler]
  BY <1>5 DEF TypeOK, Handler
<1>11. tenant' \in [some : BOOLEAN, credentials : Int, allocations : Int]
  BY <1>6 DEF TypeOK
<1>12. /\ table' \in [Clients -> Relays \cup {NoRelay}]
       /\ clients' \in [Clients -> Relays \cup {NoRelay}]
  BY <1>1, <1>7 DEF TypeOK
<1> QED  BY <1>7, <1>8, <1>9, <1>10, <1>11, <1>12 DEF TypeOK

LEMMA ReaderType ==
  ASSUME TypeOK, ReaderStep
  PROVE  TypeOK'
<1>1. CASE Deleted \/ RelayReported \/ Park
  <2>1. reader' \in Reader
    BY <1>1, RestType DEF Deleted, RelayReported, Park, Reader
  <2> QED  BY <1>1, <2>1 DEF TypeOK, Deleted, RelayReported, Park
<1>2. CASE AllocatePacketConn
  <2>1. relay' \in [Relays -> Relay]
    <3>1. relay \in [Relays -> Relay]
      BY DEF TypeOK
    <3>2. \/ relay' = relay
          \/ \E r \in Relays :
               relay' = [relay EXCEPT ![r].used = TRUE, ![r].listed = TRUE]
      BY <1>2 DEF AllocatePacketConn
    <3>3. CASE relay' = relay
      BY <3>1, <3>3
    <3>4. ASSUME NEW r \in Relays,
                 relay' = [relay EXCEPT ![r].used = TRUE, ![r].listed = TRUE]
          PROVE  relay' \in [Relays -> Relay]
      BY <3>1, <3>4, OpenType
    <3> QED  BY <3>2, <3>3, <3>4
  <2>2. reader' \in Reader
    BY <1>2, RestType DEF AllocatePacketConn, TypeOK, Reader
  <2> QED  BY <1>2, <2>1, <2>2 DEF AllocatePacketConn, TypeOK
<1>3. CASE ReaderClosed
  <2>1. handler' \in [Relays -> Handler]
    <3>1. handler' = [handler EXCEPT ![reader.relay].pc =
                        IF @ = "off" THEN "reading" ELSE @]
      BY <1>3 DEF ReaderClosed
    <3>2. handler \in [Relays -> Handler]
      BY DEF TypeOK
    <3> QED  BY ZenonT(60), <3>1, <3>2 DEF Handler
  <2> QED  BY <1>3, <2>1, RestType DEF ReaderClosed, TypeOK
<1>4. CASE RelayWritten
  <2>1. reader' \in Reader
    BY <1>4, RestType DEF RelayWritten, TypeOK, Reader
  <2> QED  BY <1>4, <2>1 DEF RelayWritten, TypeOK
<1> QED  BY <1>1, <1>2, <1>3, <1>4, CreatedType DEF ReaderStep

(* The handlers *)
LEMMA AtType ==
  ASSUME TypeOK, NEW r \in Relays, NEW pc \in {"off", "reading", "pinned",
           "writing", "sent", "closing", "ended"},
         NEW to \in Relays \cup {NoRelay}, At(r, pc, to)
  PROVE  handler' \in [Relays -> Handler]
BY DEF At, TypeOK, Handler

LEMMA AgainType ==
  ASSUME TypeOK, NEW r \in Relays, ReadAgain(r)
  PROVE  handler' \in [Relays -> Handler] /\ relay' \in [Relays -> Relay]
<1>1. handler' \in [Relays -> Handler]
  BY AtType DEF ReadAgain
<1>2. relay' \in [Relays -> Relay]
  BY FinishType DEF ReadAgain, Unheld, TypeOK
<1> QED  BY <1>1, <1>2

(* A handler ends when its read fails, and when the relay that it reads    *)
(* is closing already.                                                     *)
ReadEnds(r) ==
    /\ handler[r].pc = "reading"
    /\ HandlerEnds(r)
    /\ UNCHANGED <<now, allowed, closed, cred, tenant, clients, reader,
                   remover, renewer>>

LEMMA ReadFailsEnds ==
  ASSUME NEW r, ReadFails(r)
  PROVE  ReadEnds(r)
BY DEF ReadFails, ReadEnds

LEMMA ReadFromCases ==
  ASSUME NEW r, ReadFrom(r), ~ReadEnds(r)
  PROVE  /\ handler[r].pc = "reading" /\ relay[r].once = "no"
         /\ UNCHANGED <<now, allowed, closed, cred, tenant, clients, table,
                        reader, remover, renewer>>
         /\ \/ /\ At(r, "pinned", NoRelay)
               /\ relay' = [relay EXCEPT ![r].pinned = TRUE]
            \/ At(r, "closing", r) /\ relay' = BeginClose(relay, r)
BY DEF ReadFrom, ReadEnds

LEMMA HandlerType ==
  ASSUME TypeOK, Own, NEW r \in Relays, ReadFrom(r) \/ HandlerStep(r)
  PROVE  TypeOK'
<1>0. ASSUME ReadEnds(r) PROVE TypeOK'
  <2>1. handler' \in [Relays -> Handler]
    BY <1>0, AtType DEF ReadEnds, HandlerEnds
  <2> QED  BY <1>0, <2>1, DeleteType DEF ReadEnds, HandlerEnds, TypeOK
<1>1. CASE ReadFrom(r) /\ ~ReadEnds(r)
  <2>1. handler' \in [Relays -> Handler]
    BY <1>1, ReadFromCases, AtType
  <2>2. relay' \in [Relays -> Relay]
    <3>1. relay \in [Relays -> Relay]
      BY DEF TypeOK
    <3>2. \/ relay' = [relay EXCEPT ![r].pinned = TRUE]
          \/ relay' = BeginClose(relay, r)
      BY <1>1, ReadFromCases
    <3>3. [relay EXCEPT ![r].pinned = TRUE] \in [Relays -> Relay]
      BY <3>1, FieldType
    <3>4. BeginClose(relay, r) \in [Relays -> Relay]
      BY <3>1, BeginCloseType
    <3> QED  BY <3>2, <3>3, <3>4
  <2> QED  BY <1>1, <2>1, <2>2, ReadFromCases DEF TypeOK
<1>2. CASE ListenerWriteTo(r)
  <2>1. CASE ReadAgain(r)
    BY <1>2, <2>1, AgainType DEF ListenerWriteTo, TypeOK
  <2>2. CASE ~ReadAgain(r)
    <3> DEFINE to == clients[relay[r].client]
    <3>1. /\ to # NoRelay
          /\ \/ At(r, "closing", to) /\ relay' = Refused(to)
             \/ At(r, "writing", to) /\ relay' = relay
      BY <1>2, <2>2 DEF ListenerWriteTo
    <3>2. to = r
      BY <1>2 DEF ListenerWriteTo, Own, HandlerAt, Mapped
    <3>3. handler' \in [Relays -> Handler]
      BY <3>1, <3>2, AtType
    <3>4. relay' \in [Relays -> Relay]
      BY <3>1, BeginCloseType, FinishType DEF Refused, TypeOK
    <3> QED  BY <1>2, <3>3, <3>4 DEF ListenerWriteTo, TypeOK
  <2> QED  BY <2>1, <2>2
<1>3. CASE writePacket(r)
  <2>1. handler[r].to \in Relays \cup {NoRelay}
    BY DEF TypeOK, Handler
  <2>2. handler' \in [Relays -> Handler] /\ relay' \in [Relays -> Relay]
    BY <1>3, <2>1, AtType, AgainType DEF writePacket, TypeOK
  <2> QED  BY <1>3, <2>2 DEF writePacket, TypeOK
<1>4. CASE Finish(r)
  BY <1>4, AgainType DEF Finish, TypeOK
<1> QED  BY <1>0, <1>1, <1>2, <1>3, <1>4, ReadFailsEnds DEF HandlerStep

(* The removers *)
LEMMA GoesType ==
  ASSUME TypeOK, NEW t, NEW m \in Remover, Goes(t, m)
  PROVE  remover' \in [Threads -> Remover]
BY DEF Goes, TypeOK

LEMMA CallType ==
  ASSUME TypeOK, Revoke \/ close
  PROVE  TypeOK'
<1>1. [Rest EXCEPT !.pc = "begun"] \in Remover
  BY RestType DEF Remover
<1>2. remover' \in [Threads -> Remover]
  BY <1>1, GoesType DEF Revoke, close
<1> QED  BY <1>2 DEF TypeOK, Revoke, close

LEMMA RemoverType ==
  ASSUME TypeOK, NEW t \in Threads, RemoverStep(t)
  PROVE  TypeOK'
<1> DEFINE m == remover[t]
<1>0. m \in Remover
  BY DEF TypeOK
<1>1. CASE quiesce(t) \/ revoke(t)
  <2>1. /\ [Rest EXCEPT !.pc = "quiesce"] \in Remover
        /\ [Rest EXCEPT !.pc = "gate", !.todo = managed] \in Remover
    BY RestType DEF Remover, managed
  <2>2. remover' \in [Threads -> Remover]
    BY <1>1, <2>1, GoesType DEF quiesce, revoke
  <2> QED  BY <1>1, <2>2 DEF TypeOK, quiesce, revoke
<1>2. CASE revokeCredential(t)
  <2>1. PICK c \in m.todo :
          \/ /\ cred' = [cred EXCEPT ![c].revoked = TRUE]
             /\ Goes(t, [m EXCEPT !.pc = "remove", !.cred = c,
                                  !.todo = @ \ {c}])
          \/ cred' = cred /\ Goes(t, Rest)
    BY <1>2 DEF revokeCredential
  <2>2. c \in Creds
    BY <1>0, <2>1 DEF Remover
  <2>3. [m EXCEPT !.pc = "remove", !.cred = c, !.todo = @ \ {c}] \in Remover
    BY <1>0, <2>2 DEF Remover
  <2>4. remover' \in [Threads -> Remover]
    BY <2>1, <2>3, RestType, GoesType
  <2>5. cred' \in [Creds -> Credential]
    <3>1. cred \in [Creds -> Credential]
      BY DEF TypeOK
    <3>2. [cred EXCEPT ![c].revoked = TRUE] \in [Creds -> Credential]
      BY <3>1 DEF Credential
    <3> QED  BY <2>1, <3>1, <3>2
  <2> QED  BY <1>2, <2>4, <2>5 DEF TypeOK, revokeCredential
<1>3. CASE removeCredential(t)
  <2> DEFINE n == [m EXCEPT !.pc = "close", !.cred = None,
                            !.relays = OwnedBy(m.cred)]
  <2>1. n \in Remover
    BY <1>0 DEF Remover, OwnedBy
  <2>2. remover' \in [Threads -> Remover]
    BY <1>3, <2>1, GoesType DEF removeCredential
  <2>3. cred' \in [Creds -> Credential]
    <3>1. \/ cred' = cred
          \/ cred' = [cred EXCEPT ![m.cred].state = "removed",
                                  ![m.cred].armed = FALSE]
      BY <1>3 DEF removeCredential
    <3> QED  BY <3>1 DEF TypeOK, Credential
  <2>4. [tenant EXCEPT !.credentials = @ - 1] \in Tenants
    BY DEF TypeOK, Tenants
  <2>5. tenant' \in Tenants
    BY <1>3, <2>4, CleanType DEF removeCredential, TypeOK, Tenants
  <2> QED  BY <1>3, <2>2, <2>3, <2>5 DEF TypeOK, removeCredential, Tenants
<1>4. CASE Close(t)
  <2>1. /\ \A r \in m.relays :
             [m EXCEPT !.at = r, !.relays = @ \ {r}] \in Remover
        /\ [m EXCEPT !.at = NoRelay] \in Remover
    BY <1>0 DEF Remover
  <2>2. remover' \in [Threads -> Remover]
    BY <1>4, <2>1, GoesType DEF Close
  <2>3. relay' \in [Relays -> Relay]
    BY ZenonT(60), <1>4, BeginCloseType DEF Close, TypeOK
  <2> QED  BY <1>4, <2>2, <2>3 DEF TypeOK, Close
<1>5. CASE NextPhase(t)
  <2>1. /\ [m EXCEPT !.pc = "gate"] \in Remover
        /\ [Rest EXCEPT !.pc = "done"] \in Remover
        /\ [Rest EXCEPT !.pc = "drain"] \in Remover
        /\ [m EXCEPT !.pc = "rest",
                     !.relays = {r \in Relays : relay[r].listed}] \in Remover
    BY <1>0, RestType DEF Remover
  <2>2. remover' \in [Threads -> Remover]
    BY <1>5, <2>1, RestType, GoesType DEF NextPhase
  <2> QED  BY <1>5, <2>2 DEF TypeOK, NextPhase
<1> QED  BY <1>1, <1>2, <1>3, <1>4, <1>5 DEF RemoverStep

-----------------------------------------------------------------------------
(* Datagrams and their relays *)

(* What closing a relay leaves alone. *)
Similar(f, g) ==
    \A q \in Relays :
      /\ f[q].owner = g[q].owner /\ f[q].user = g[q].user
      /\ f[q].client = g[q].client /\ f[q].used = g[q].used
      /\ f[q].listed = g[q].listed /\ f[q].deleting = g[q].deleting
      /\ f[q].pinned = g[q].pinned
      /\ f[q].once = "done" <=> g[q].once = "done"
      /\ g[q].closing => f[q].closing

LEMMA BeginCloseFacts ==
  ASSUME NEW rl \in [Relays -> Relay], NEW r
  PROVE  /\ Similar(BeginClose(rl, r), rl)
         /\ r \in Relays => BeginClose(rl, r)[r].closing
<1> DEFINE o(q) == IF rl[q].once = "no" THEN "draining" ELSE rl[q].once
           f == [q \in Relays |->
                   IF q = r THEN [rl[q] EXCEPT !.closing = TRUE, !.once = o(q)]
                   ELSE rl[q]]
<1>1. BeginClose(rl, r) = f
  BY DEF BeginClose
<1>2. \A q \in Relays : o(q) = "done" <=> rl[q].once = "done"
  OBVIOUS
<1> HIDE DEF o
<1>3. Similar(f, rl) /\ (r \in Relays => f[r].closing)
  BY ZenonT(60), <1>2 DEF Similar, Relay
<1> QED  BY <1>1, <1>3

LEMMA MappedFrame ==
  ASSUME TypeOK, Mapped, Similar(relay', relay), clients' = clients,
         table' = table
  PROVE  Mapped'
<1>1. \A a \in Clients : clients[a] # NoRelay => clients[a] \in Relays
  BY DEF TypeOK
<1> QED  BY <1>1 DEF Mapped, Similar

LEMMA ReaderFrame ==
  ASSUME TypeOK, ReaderAt,
         \A q \in Relays : /\ relay'[q].client = relay[q].client
                           /\ relay'[q].used = relay[q].used,
         clients' = clients, reader' = reader
  PROVE  ReaderAt'
BY DEF ReaderAt

LEMMA HandlerFrame ==
  ASSUME TypeOK, HandlerAt, OwnDatagram,
         \A q \in Relays : /\ relay'[q].client = relay[q].client
                           /\ relay'[q].pinned = relay[q].pinned
                           /\ relay'[q].once = "done" <=> relay[q].once = "done",
         handler' = handler
  PROVE  HandlerAt' /\ OwnDatagram'
BY DEF HandlerAt, OwnDatagram

LEMMA OwnFrame ==
  ASSUME TypeOK, Own, relay' = relay \/ Similar(relay', relay),
         UNCHANGED <<clients, table, reader, handler>>
  PROVE  Own'
<1>1. Similar(relay', relay)
  BY DEF Similar
<1>2. Mapped'
  BY <1>1, MappedFrame DEF Own
<1>3. ReaderAt'
  BY <1>1, ReaderFrame DEF Own, Similar
<1>4. HandlerAt' /\ OwnDatagram'
  BY <1>1, HandlerFrame DEF Own, Similar
<1> QED  BY <1>2, <1>3, <1>4 DEF Own

LEMMA DeleteOwn ==
  ASSUME TypeOK, Mapped, NEW a \in Clients, DeleteAllocation(a),
         clients' = clients
  PROVE  /\ Mapped'
         /\ \A q \in Relays :
              /\ relay'[q].client = relay[q].client
              /\ relay'[q].used = relay[q].used
              /\ relay'[q].pinned = relay[q].pinned
              /\ relay'[q].owner = relay[q].owner
              /\ relay'[q].user = relay[q].user
              /\ relay'[q].listed = relay[q].listed
              /\ relay[q].closing => relay'[q].closing
              /\ relay'[q].once = "done" <=> relay[q].once = "done"
<1> DEFINE b == BeginClose(relay, table[a])
           d == table[a]
<1>0. relay \in [Relays -> Relay] /\ d \in Relays \cup {NoRelay}
  BY DEF TypeOK
<1>1. CASE d = NoRelay
  <2>1. relay' = relay
    BY <1>1 DEF DeleteAllocation
  <2>2. table' = table
    BY <1>1 DEF DeleteAllocation, TypeOK
  <2> QED  BY <2>1, <2>2 DEF Mapped
<1>2. CASE d # NoRelay
  <2>0. d \in Relays
    BY <1>0, <1>2
  <2>1. relay' = [b EXCEPT ![d].deleting = TRUE]
    BY <1>2 DEF DeleteAllocation
  <2>2. Similar(b, relay) /\ b \in [Relays -> Relay]
    BY <1>0, BeginCloseFacts, BeginCloseType
  <2>3. clients[a] = d /\ relay[d].client = a
    BY <1>2 DEF Mapped
  <2> HIDE DEF b, d
  <2>4. \A q \in Relays :
              /\ relay'[q].client = relay[q].client
              /\ relay'[q].used = relay[q].used
              /\ relay'[q].pinned = relay[q].pinned
              /\ relay'[q].owner = relay[q].owner
              /\ relay'[q].user = relay[q].user
              /\ relay'[q].listed = relay[q].listed
              /\ relay[q].closing => relay'[q].closing
              /\ relay'[q].once = "done" <=> relay[q].once = "done"
              /\ relay'[q].deleting => q = d \/ relay[q].deleting
    BY <2>1, <2>2 DEF Similar, Relay
  <2>5. table' = [table EXCEPT ![a] = NoRelay]
    BY DEF DeleteAllocation
  <2>6. table \in [Clients -> Relays \cup {NoRelay}]
        /\ clients \in [Clients -> Relays \cup {NoRelay}]
        /\ NoRelay \notin Relays
    BY DEF TypeOK, NoRelay, Relays
  <2>7. \A r \in Relays : relay[r].client \in Clients \cup {None}
    BY <1>0 DEF Relay
  <2>8. a # None
    BY ConstantsAssumption
  <2>9. Mapped'
    <3>1. \A x \in Clients : table'[x] # NoRelay => clients[x] = table'[x]
      BY <2>5, <2>6 DEF Mapped
    <3>2. \A x \in Clients : clients[x] # NoRelay =>
                               relay'[clients[x]].client = x
      BY <2>4, <2>6 DEF Mapped
    <3>3. \A r \in Relays : relay'[r].client # None /\ relay'[r].once # "done"
                             => clients[relay'[r].client] = r
      BY <2>4 DEF Mapped
    <3>4. \A r \in Relays : relay'[r].deleting =>
            /\ relay'[r].client # None
            /\ clients[relay'[r].client] = r /\ table'[relay'[r].client] # r
      BY <2>0, <2>3, <2>4, <2>5, <2>6, <2>7, <2>8 DEF Mapped
    <3>5. \A r \in Relays : ~relay'[r].used => relay'[r].client = None
      BY <2>4 DEF Mapped
    <3> QED  BY <3>1, <3>2, <3>3, <3>4, <3>5 DEF Mapped
  <2> QED  BY <2>4, <2>9
<1> QED  BY <1>1, <1>2

LEMMA RelayOwn ==
  ASSUME TypeOK, TypeOK', Own, NEW r \in Relays,
         channelCreated(r) \/ RelayStep(r)
  PROVE  Own'
<1>0. relay \in [Relays -> Relay] /\ NoRelay \notin Relays
  BY DEF TypeOK, NoRelay, Relays
<1>1. CASE channelCreated(r) \/ CloseLater(r)
  <2>1. Similar([relay EXCEPT ![r].closing = TRUE], relay)
    BY <1>0 DEF Similar, Relay
  <2>2. Similar(relay', relay)
    BY <1>0, <1>1, <2>1, BeginCloseFacts DEF channelCreated, CloseLater
  <2> QED  BY <1>1, <2>2, OwnFrame DEF channelCreated, CloseLater
<1>2. CASE Drain(r)
  <2>1. \A q \in Relays :
          /\ relay'[q].client = relay[q].client
          /\ relay'[q].used = relay[q].used
          /\ relay'[q].pinned = relay[q].pinned
          /\ relay'[q].deleting = relay[q].deleting
          /\ relay'[q].once # "done" => relay[q].once # "done"
          /\ q # r => relay'[q].once = relay[q].once
    BY <1>0, <1>2 DEF Drain, Relay
  <2>2. UNCHANGED <<clients, table, reader, handler>> /\ ~relay[r].pinned
    BY <1>2 DEF Drain, Unpinned
  <2>3. \A a \in Clients : clients[a] # NoRelay => clients[a] \in Relays
    BY DEF TypeOK
  <2>4. Mapped'
    BY <2>1, <2>2, <2>3 DEF Own, Mapped
  <2>5. ReaderAt'
    BY <2>1, <2>2, ReaderFrame DEF Own
  <2>6. HandlerAt' /\ OwnDatagram'
    BY <2>1, <2>2 DEF Own, HandlerAt, OwnDatagram
  <2> QED  BY <2>4, <2>5, <2>6 DEF Own
<1>3. CASE allocationDeleted(r)
  <2> DEFINE a == relay[r].client
  <2>1. /\ relay[r].deleting /\ relay[r].once = "done"
        /\ relay' = [relay EXCEPT ![r].deleting = FALSE]
        /\ UNCHANGED <<table, reader, handler>>
        /\ clients' = clients \/ clients' = [clients EXCEPT ![a] = NoRelay]
    BY <1>3 DEF allocationDeleted, Closed
  <2>2. \A q \in Relays :
          /\ relay'[q].client = relay[q].client
          /\ relay'[q].used = relay[q].used
          /\ relay'[q].pinned = relay[q].pinned
          /\ relay'[q].once = relay[q].once
          /\ relay'[q].deleting => relay[q].deleting /\ q # r
    BY <1>0, <2>1 DEF Relay
  <2>3. a \in Clients /\ clients[a] = r /\ table[a] # r
    BY <1>0, <2>1 DEF Own, Mapped, Relay
  <2>4. clients \in [Clients -> Relays \cup {NoRelay}]
    BY DEF TypeOK
  <2> HIDE DEF a
  <2>5. table[a] = NoRelay
    BY <2>3 DEF Own, Mapped
  <2>6. Mapped'
    <3> USE <1>0, <2>1, <2>2, <2>3, <2>4, <2>5
    <3>1. \A x \in Clients : table[x] # NoRelay => clients'[x] = table[x]
      BY DEF Own, Mapped
    <3>2. \A x \in Clients : clients'[x] # NoRelay =>
            clients'[x] = clients[x] /\ relay'[clients[x]].client = x
      BY DEF Own, Mapped
    <3>3. \A x \in Clients : clients'[x] = clients[x] \/ x = a
      OBVIOUS
    <3>4. \A q \in Relays : q # r /\ clients[relay[q].client] = q
                             /\ relay[q].client # None
                => clients'[relay[q].client] = q
      <4>1. \A q \in Relays : relay[q].client \in Clients \cup {None}
        BY DEF Relay
      <4> QED  BY <3>3, <4>1
    <3>5. \A q \in Relays : relay'[q].client # None /\ relay'[q].once # "done"
                             => clients'[relay'[q].client] = q
      BY <3>4 DEF Own, Mapped
    <3>6. \A q \in Relays : relay'[q].deleting =>
            /\ relay'[q].client # None
            /\ clients'[relay'[q].client] = q /\ table[relay'[q].client] # q
      BY <3>4 DEF Own, Mapped
    <3>7. \A q \in Relays : ~relay'[q].used => relay'[q].client = None
      BY DEF Own, Mapped
    <3> QED  BY <3>1, <3>2, <3>5, <3>6, <3>7 DEF Mapped
  <2>7. ReaderAt'
    BY <2>1, <2>2, <2>4 DEF Own, ReaderAt
  <2>8. HandlerAt' /\ OwnDatagram'
    BY <2>1, <2>2, HandlerFrame DEF Own
  <2> QED  BY <2>6, <2>7, <2>8 DEF Own
<1> QED  BY <1>1, <1>2, <1>3 DEF RelayStep

LEMMA LifetimeOwn ==
  ASSUME TypeOK, Own, NEW a \in Clients, LifetimeEnds(a)
  PROVE  Own'
<1>1. DeleteAllocation(a) /\ UNCHANGED <<clients, reader, handler>>
  BY DEF LifetimeEnds
<1>2. Mapped'
  BY <1>1, DeleteOwn DEF Own
<1>3. ReaderAt'
  BY <1>1, DeleteOwn, ReaderFrame DEF Own
<1>4. HandlerAt' /\ OwnDatagram'
  BY <1>1, DeleteOwn, HandlerFrame DEF Own
<1> QED  BY <1>2, <1>3, <1>4 DEF Own

LEMMA RequestOwn ==
  ASSUME TypeOK, Own, Request
  PROVE  Own'
<1>0. relay \in [Relays -> Relay] /\ NoRelay \notin Relays
  BY DEF TypeOK, NoRelay, Relays
<1>1. ASSUME NEW a \in Clients, RelayWriteTo(a) PROVE Own'
  <2> DEFINE r == table[a]
  <2>1. r \in Relays /\ relay[r].client = a /\ a # None
    BY <1>1, ConstantsAssumption DEF RelayWriteTo, Own, Mapped, TypeOK
  <2>2. /\ relay' = relay \/ relay' = BeginClose(relay, r)
        /\ \/ reader' = [Idle EXCEPT !.pc = "closing", !.relay = r]
           \/ reader' = [Idle EXCEPT !.pc = "writing", !.relay = r]
        /\ UNCHANGED <<clients, table, handler>>
    BY <1>1 DEF RelayWriteTo
  <2>3. reader'.pc \in {"closing", "writing"} /\ reader'.relay = r
    BY <2>2 DEF Idle
  <2> HIDE DEF r
  <2>4. Similar(relay', relay)
    BY <1>0, <2>2, BeginCloseFacts DEF Similar
  <2>5. Mapped'
    BY <2>2, <2>4, MappedFrame DEF Own
  <2>6. HandlerAt' /\ OwnDatagram'
    BY <2>2, <2>4, HandlerFrame DEF Own, Similar
  <2>7. ReaderAt'
    BY <2>1, <2>3, <2>4 DEF ReaderAt, Similar
  <2> QED  BY <2>5, <2>6, <2>7 DEF Own
<1>2. ASSUME NEW a \in Clients, NEW c \in Creds, auth(c, a) PROVE Own'
  <2>1. CASE UNCHANGED <<relay, table>>
    <3>1. /\ UNCHANGED <<clients, handler>>
          /\ reader'.pc \in {"quota", "deleting"}
          /\ reader'.pc = "quota" => reader'.client = a /\ reader'.user = c
      BY <1>2 DEF auth, Idle
    <3>2. Mapped'
      BY <2>1, <3>1, MappedFrame DEF Own, Similar
    <3>3. HandlerAt' /\ OwnDatagram'
      BY <2>1, <3>1, HandlerFrame DEF Own
    <3> QED  BY <3>1, <3>2, <3>3 DEF Own, ReaderAt
  <2>2. CASE ~UNCHANGED <<relay, table>>
    <3>1. /\ DeleteAllocation(a) /\ UNCHANGED <<clients, handler>>
          /\ reader'.pc = "deleting"
      BY <1>2, <2>2 DEF auth, Idle
    <3>2. Mapped'
      BY <3>1, DeleteOwn DEF Own
    <3>3. HandlerAt' /\ OwnDatagram'
      BY <3>1, DeleteOwn, HandlerFrame DEF Own
    <3> QED  BY <3>1, <3>2, <3>3 DEF Own, ReaderAt
  <2> QED  BY <2>1, <2>2
<1> QED  BY <1>1, <1>2 DEF Request

(* What allocationCreated does, spelled out. *)
LEMMA CreatedFacts ==
  ASSUME TypeOK, Own, allocationCreated
  PROVE  LET r == reader.relay
             a == reader.client
             c == IF reader.user \in managed THEN reader.user ELSE None
         IN  /\ r \in Relays /\ a \in Clients /\ clients[a] = NoRelay
             /\ relay[r].client = None
             /\ \A q \in Relays : q # r => relay'[q] = relay[q]
             /\ relay'[r].client = a /\ relay'[r].owner = c
             /\ relay'[r].user = reader.user
             /\ relay'[r].used = relay[r].used
             /\ relay'[r].listed = relay[r].listed
             /\ relay'[r].deleting = relay[r].deleting
             /\ relay'[r].pinned = relay[r].pinned
             /\ relay'[r].once = "done" <=> relay[r].once = "done"
             /\ relay[r].closing \/ Bad(c) => relay'[r].closing
             /\ table' = [table EXCEPT ![a] = r]
             /\ clients' = [clients EXCEPT ![a] = r]
             /\ reader'.pc \in {"idle", "closing"}
             /\ reader'.pc = "closing" => reader'.relay = r
             /\ handler' = handler
                \/ handler' = [handler EXCEPT ![r].pc = "reading"]
<1> DEFINE r == reader.relay
           a == reader.client
           c == IF reader.user \in managed THEN reader.user ELSE None
           x == [relay[r] EXCEPT !.owner = c, !.user = reader.user,
                                 !.client = a]
           mapped == [relay EXCEPT ![r].owner = c, ![r].user = reader.user,
                                   ![r].client = a]
<1>1. /\ r \in Relays /\ a \in Clients /\ clients[a] = NoRelay
      /\ relay[r].client = None
  BY DEF allocationCreated, Own, ReaderAt
<1>2. c \in Creds \cup {None} /\ reader.user \in Creds \cup {None}
  BY DEF managed, TypeOK, Reader
<1>3. /\ table' = [table EXCEPT ![a] = r]
      /\ clients' = [clients EXCEPT ![a] = r]
      /\ reader'.pc \in {"idle", "closing"}
      /\ reader'.pc = "closing" => reader'.relay = r
      /\ handler' = handler \/ handler' = [handler EXCEPT ![r].pc = "reading"]
  BY DEF allocationCreated, Idle, TypeOK, Reader
<1>4. \/ relay' = mapped /\ ~Bad(c)
      \/ relay' = BeginClose(mapped, r)
  BY DEF allocationCreated
<1> HIDE DEF c
<1>5. relay \in [Relays -> Relay]
  BY DEF TypeOK
<1>6. mapped = [relay EXCEPT ![r] = x]
  BY <1>1, <1>5
<1>7. /\ x.client = a /\ x.owner = c /\ x.user = reader.user
      /\ x.used = relay[r].used /\ x.listed = relay[r].listed
      /\ x.deleting = relay[r].deleting /\ x.pinned = relay[r].pinned
      /\ x.once = relay[r].once /\ x.closing = relay[r].closing
  BY <1>1, <1>5 DEF Relay
<1>8. mapped \in [Relays -> Relay]
  BY ZenonT(60), <1>1, <1>2, <1>5, OwnedType
<1> HIDE DEF x, mapped
<1>9. mapped[r] = x /\ \A q \in Relays : q # r => mapped[q] = relay[q]
  BY <1>1, <1>5, <1>6
<1>10. /\ Similar(relay', mapped)
       /\ Bad(c) => relay'[r].closing
  BY <1>1, <1>4, <1>8, BeginCloseFacts DEF Similar
<1>11. \A q \in Relays : q # r => relay'[q] = relay[q]
  <2>1. \A q \in Relays : q # r => BeginClose(mapped, r)[q] = mapped[q]
    BY <1>8 DEF BeginClose
  <2> QED  BY <1>4, <1>9, <2>1
<1> QED  BY <1>1, <1>3, <1>7, <1>9, <1>10, <1>11 DEF Similar, c

LEMMA CreatedOwn ==
  ASSUME TypeOK, TypeOK', Own, allocationCreated
  PROVE  Own'
<1> DEFINE n == reader.relay
           a == reader.client
<1>1. /\ n \in Relays /\ a \in Clients /\ clients[a] = NoRelay
      /\ relay[n].client = None
      /\ relay'[n].client = a
      /\ \A q \in Relays :
           /\ q # n => relay'[q].client = relay[q].client
           /\ relay'[q].used = relay[q].used
           /\ relay'[q].deleting = relay[q].deleting
           /\ relay'[q].pinned = relay[q].pinned
           /\ relay'[q].once = "done" <=> relay[q].once = "done"
      /\ table' = [table EXCEPT ![a] = n]
      /\ clients' = [clients EXCEPT ![a] = n]
      /\ reader'.pc \in {"idle", "closing"}
      /\ reader'.pc = "closing" => reader'.relay = n
      /\ handler' = handler \/ handler' = [handler EXCEPT ![n].pc = "reading"]
  BY CreatedFacts
<1>2. relay[n].used
  BY DEF allocationCreated, Own, ReaderAt
<1>3. /\ table \in [Clients -> Relays \cup {NoRelay}]
      /\ clients \in [Clients -> Relays \cup {NoRelay}]
      /\ handler \in [Relays -> Handler] /\ NoRelay \notin Relays
      /\ a # None
      /\ \A q \in Relays : relay[q].client \in Clients \cup {None}
  BY SMTT(60), <1>1, ConstantsAssumption DEF TypeOK, NoRelay, Relays, Relay
<1> HIDE DEF n, a
<1>4. Mapped'
  <2>1. \A x \in Clients : table'[x] # NoRelay => clients'[x] = table'[x]
    BY <1>1, <1>3 DEF Own, Mapped
  <2>2. \A x \in Clients : clients'[x] # NoRelay => relay'[clients'[x]].client = x
    <3>1. \A x \in Clients : clients[x] # n
      BY <1>1, <1>3, ConstantsAssumption DEF Own, Mapped
    <3> QED  BY <1>1, <1>3, <3>1 DEF Own, Mapped
  <2>3. \A q \in Relays : q # n /\ relay[q].client # None
                           /\ clients[relay[q].client] = q
                => relay[q].client # a /\ clients'[relay[q].client] = q
    BY <1>1, <1>3
  <2>4. \A q \in Relays : relay'[q].client # None /\ relay'[q].once # "done" =>
                           clients'[relay'[q].client] = q
    BY <1>1, <1>3, <2>3 DEF Own, Mapped
  <2>5. \A q \in Relays : relay'[q].deleting =>
          /\ relay'[q].client # None
          /\ clients'[relay'[q].client] = q /\ table'[relay'[q].client] # q
    BY <1>1, <1>3, <2>3 DEF Own, Mapped
  <2>6. \A q \in Relays : ~relay'[q].used => relay'[q].client = None
    BY <1>1, <1>2 DEF Own, Mapped
  <2> QED  BY <2>1, <2>2, <2>4, <2>5, <2>6 DEF Mapped
<1>5. ReaderAt'
  BY <1>1, <1>3 DEF ReaderAt
<1>6. HandlerAt' /\ OwnDatagram'
  <2>1. \A q \in Relays : /\ handler'[q].to = handler[q].to
                          /\ q # n => handler'[q] = handler[q]
    BY <1>1, <1>3 DEF Handler
  <2>2. handler[n].pc = "off"
    BY <1>1 DEF Own, HandlerAt
  <2>3. handler'[n].pc \in {"off", "reading"}
    BY <1>1, <1>3, <2>2 DEF Handler
  <2>4. OwnDatagram'
    BY <2>1 DEF Own, OwnDatagram
  <2>5. ASSUME NEW q \in Relays
        PROVE  /\ handler'[q].pc # "off" => relay'[q].client # None
               /\ handler'[q].pc = "pinned" =>
                    relay'[q].pinned /\ relay'[q].once # "done"
               /\ handler'[q].pc \in {"writing", "sent", "closing"} =>
                    handler'[q].to = q
    <3>1. CASE q = n
      BY <1>1, <1>3, <2>3, <3>1
    <3>2. CASE q # n
      BY <1>1, <2>1, <3>2 DEF Own, HandlerAt
    <3> QED  BY <3>1, <3>2
  <2> QED  BY <2>4, <2>5 DEF HandlerAt
<1> QED  BY <1>4, <1>5, <1>6 DEF Own

LEMMA ReaderOwn ==
  ASSUME TypeOK, TypeOK', Own, ReaderStep
  PROVE  Own'
<1>1. CASE Deleted \/ RelayReported \/ Park \/ RelayWritten
  <2>1. UNCHANGED <<relay, clients, table, handler>>
    BY <1>1 DEF Deleted, RelayReported, Park, RelayWritten
  <2>2. \/ reader'.pc \in {"idle", "parked"}
        \/ /\ reader.pc = "writing" /\ reader'.pc = "sent"
           /\ reader'.relay = reader.relay
    BY <1>1 DEF Deleted, RelayReported, Park, RelayWritten, Idle, TypeOK, Reader
  <2>3. Mapped' /\ HandlerAt' /\ OwnDatagram'
    BY <2>1, MappedFrame, HandlerFrame DEF Own, Similar
  <2> QED  BY <2>1, <2>2, <2>3 DEF Own, ReaderAt
<1>2. CASE AllocatePacketConn
  <2>1. CASE reader' = Idle /\ relay' = relay
    <3>1. UNCHANGED <<clients, table, handler>>
      BY <1>2 DEF AllocatePacketConn
    <3>2. Mapped' /\ HandlerAt' /\ OwnDatagram'
      BY <2>1, <3>1, MappedFrame, HandlerFrame DEF Own, Similar
    <3> QED  BY <2>1, <3>2 DEF Own, ReaderAt, Idle
  <2>2. CASE ~(reader' = Idle /\ relay' = relay)
    <3>1. PICK r \in Relays :
            /\ clients[reader.client] = NoRelay /\ ~relay[r].used
            /\ relay' = [relay EXCEPT ![r].used = TRUE, ![r].listed = TRUE]
            /\ reader' = [reader EXCEPT !.pc = "created", !.relay = r]
      BY <1>2, <2>2 DEF AllocatePacketConn, quota
    <3>2. /\ UNCHANGED <<clients, table, handler>>
          /\ relay \in [Relays -> Relay] /\ reader \in Reader
          /\ reader.pc = "quota"
      BY <1>2 DEF AllocatePacketConn, TypeOK
    <3>3. \A q \in Relays :
            /\ relay'[q].client = relay[q].client
            /\ relay'[q].deleting = relay[q].deleting
            /\ relay'[q].pinned = relay[q].pinned
            /\ relay'[q].once = relay[q].once
            /\ relay[q].used \/ q = r => relay'[q].used
            /\ ~relay'[q].used => ~relay[q].used
      <4>1. relay'[r] = [relay[r] EXCEPT !.used = TRUE, !.listed = TRUE]
        BY <3>1, <3>2
      <4>2. \A q \in Relays : q # r => relay'[q] = relay[q]
        BY <3>1, <3>2
      <4>3. /\ relay'[r].client = relay[r].client
            /\ relay'[r].deleting = relay[r].deleting
            /\ relay'[r].pinned = relay[r].pinned
            /\ relay'[r].once = relay[r].once /\ relay'[r].used
        BY <3>2, <4>1 DEF Relay
      <4> QED  BY <3>2, <4>2, <4>3 DEF Relay
    <3>4. reader'.pc = "created" /\ reader'.relay = r
          /\ reader'.client = reader.client /\ reader'.user = reader.user
      BY <3>1, <3>2 DEF Reader
    <3>5. relay[r].client = None
      BY <3>1 DEF Own, Mapped
    <3>6. \A x \in Clients : clients[x] # NoRelay => clients[x] \in Relays
      BY DEF TypeOK
    <3>7. Mapped'
      BY <3>2, <3>3, <3>5, <3>6 DEF Own, Mapped
    <3>8. HandlerAt' /\ OwnDatagram'
      BY <3>2, <3>3, HandlerFrame DEF Own
    <3>9. ReaderAt'
      BY <3>1, <3>2, <3>3, <3>4, <3>5 DEF Own, ReaderAt
    <3> QED  BY SMTT(60), <3>7, <3>8, <3>9 DEF Own
  <2> QED  BY <2>1, <2>2
<1>3. CASE ReaderClosed
  <2>1. /\ UNCHANGED <<relay, clients, table>>
        /\ reader.pc = "closing" /\ reader'.pc = "idle"
        /\ handler' = [handler EXCEPT ![reader.relay].pc =
                         IF @ = "off" THEN "reading" ELSE @]
    BY <1>3 DEF ReaderClosed, Idle
  <2>2. Mapped' /\ ReaderAt'
    BY <2>1, MappedFrame DEF Own, Similar, ReaderAt
  <2>3. reader.relay \in Relays /\ relay[reader.relay].client # None
    BY <2>1 DEF Own, ReaderAt
  <2>4. \A q \in Relays :
          /\ handler'[q].to = handler[q].to
          /\ \/ handler'[q].pc = handler[q].pc
             \/ q = reader.relay /\ handler'[q].pc = "reading"
    BY <2>1, <2>3 DEF TypeOK, Handler
  <2>5. HandlerAt' /\ OwnDatagram'
    BY <2>1, <2>3, <2>4 DEF Own, HandlerAt, OwnDatagram
  <2> QED  BY <2>2, <2>5 DEF Own
<1> QED  BY <1>1, <1>2, <1>3, CreatedOwn DEF ReaderStep

(* Back in ReadFrom, the handler has released the pin of its own relay. *)
LEMMA AgainFacts ==
  ASSUME TypeOK, OwnDatagram, NEW r \in Relays, ReadAgain(r)
  PROVE  /\ \A q \in Relays :
              /\ relay'[q].owner = relay[q].owner
              /\ relay'[q].user = relay[q].user
              /\ relay'[q].client = relay[q].client
              /\ relay'[q].used = relay[q].used
              /\ relay'[q].listed = relay[q].listed
              /\ relay'[q].deleting = relay[q].deleting
              /\ relay'[q].closing = relay[q].closing
              /\ relay'[q].once = relay[q].once
              /\ q # r => relay'[q].pinned = relay[q].pinned
         /\ handler' = [handler EXCEPT ![r] = [pc |-> "reading",
                                              to |-> NoRelay]]
<1>0. relay \in [Relays -> Relay]
  BY DEF TypeOK
<1>1. handler[r].to \in {NoRelay, r}
  BY DEF OwnDatagram
<1> DEFINE f == finishIncoming(relay, r)
<1>2. relay' = f \/ relay' = finishIncoming(f, r)
  BY <1>1 DEF ReadAgain, Unheld
<1>3. f \in [Relays -> Relay] /\ f = [relay EXCEPT ![r].pinned = FALSE]
  BY <1>0, FinishType DEF finishIncoming
<1> HIDE DEF f
<1>4. \A q \in Relays :
        /\ f[q].owner = relay[q].owner /\ f[q].user = relay[q].user
        /\ f[q].client = relay[q].client /\ f[q].used = relay[q].used
        /\ f[q].listed = relay[q].listed
        /\ f[q].deleting = relay[q].deleting
        /\ f[q].closing = relay[q].closing /\ f[q].once = relay[q].once
        /\ q # r => f[q].pinned = relay[q].pinned
  BY ZenonT(60), <1>0, <1>3 DEF Relay
<1>5. CASE relay' = f
  BY <1>4, <1>5 DEF ReadAgain, At
<1>6. CASE relay' = finishIncoming(f, r)
  <2>1. \A q \in Relays :
        /\ relay'[q].owner = f[q].owner /\ relay'[q].user = f[q].user
        /\ relay'[q].client = f[q].client /\ relay'[q].used = f[q].used
        /\ relay'[q].listed = f[q].listed
        /\ relay'[q].deleting = f[q].deleting
        /\ relay'[q].closing = f[q].closing /\ relay'[q].once = f[q].once
        /\ q # r => relay'[q].pinned = f[q].pinned
    BY <1>3, <1>6 DEF finishIncoming, Relay
  <2> QED  BY <1>4, <2>1 DEF ReadAgain, At
<1> QED  BY <1>2, <1>5, <1>6

LEMMA AgainOwn ==
  ASSUME TypeOK, Own, NEW r \in Relays, ReadAgain(r), handler[r].pc # "off",
         UNCHANGED <<clients, table, reader>>
  PROVE  Own'
<1>1. /\ \A q \in Relays :
           /\ relay'[q].client = relay[q].client
           /\ relay'[q].used = relay[q].used
           /\ relay'[q].deleting = relay[q].deleting
           /\ relay'[q].once = relay[q].once
           /\ q # r => relay'[q].pinned = relay[q].pinned
      /\ handler' = [handler EXCEPT ![r] = [pc |-> "reading", to |-> NoRelay]]
  BY AgainFacts DEF Own
<1>2. \A a \in Clients : clients[a] # NoRelay => clients[a] \in Relays
  BY DEF TypeOK
<1>3. Mapped'
  BY <1>1, <1>2 DEF Own, Mapped
<1>4. ReaderAt'
  BY <1>1, ReaderFrame DEF Own
<1>5. /\ handler'[r].pc = "reading" /\ handler'[r].to = NoRelay
      /\ \A q \in Relays : q # r => handler'[q] = handler[q]
  BY <1>1 DEF TypeOK
<1>6. HandlerAt' /\ OwnDatagram'
  BY <1>1, <1>5 DEF Own, HandlerAt, OwnDatagram
<1> QED  BY <1>3, <1>4, <1>6 DEF Own

(* A handler that goes on without giving up its pin. *)
LEMMA GoOnOwn ==
  ASSUME TypeOK, Own, NEW r \in Relays, Similar(relay', relay),
         NEW pc \in {"writing", "sent", "closing"}, At(r, pc, r),
         handler[r].pc # "off", UNCHANGED <<clients, table, reader>>
  PROVE  Own'
<1>1. /\ handler'[r].pc = pc /\ handler'[r].to = r
      /\ \A q \in Relays : q # r => handler'[q] = handler[q]
  BY DEF TypeOK, At
<1>2. Mapped'
  BY MappedFrame DEF Own
<1>3. ReaderAt'
  BY ReaderFrame DEF Own, Similar
<1>4. HandlerAt' /\ OwnDatagram'
  BY <1>1 DEF Own, HandlerAt, OwnDatagram, Similar
<1> QED  BY <1>2, <1>3, <1>4 DEF Own

(* The listener finds the relay the datagram came in on. *)
LEMMA FoundOwn ==
  ASSUME TypeOK, Own, NEW r \in Relays, handler[r].pc = "pinned"
  PROVE  clients[relay[r].client] = r
BY DEF Own, HandlerAt, Mapped

LEMMA RefusedFacts ==
  ASSUME TypeOK, NEW r \in Relays
  PROVE  /\ \A q \in Relays :
              /\ Refused(r)[q].owner = relay[q].owner
              /\ Refused(r)[q].user = relay[q].user
              /\ Refused(r)[q].client = relay[q].client
              /\ Refused(r)[q].used = relay[q].used
              /\ Refused(r)[q].listed = relay[q].listed
              /\ Refused(r)[q].deleting = relay[q].deleting
              /\ relay[q].closing => Refused(r)[q].closing
              /\ Refused(r)[q].once = "done" <=> relay[q].once = "done"
              /\ q # r => Refused(r)[q].pinned = relay[q].pinned
         /\ Refused(r)[r].closing
<1>0. relay \in [Relays -> Relay]
  BY DEF TypeOK
<1> DEFINE f == finishIncoming(relay, r)
<1>1. f \in [Relays -> Relay] /\ f = [relay EXCEPT ![r].pinned = FALSE]
  BY <1>0, FinishType DEF finishIncoming
<1>2. Refused(r) = BeginClose(f, r)
  BY DEF Refused
<1> HIDE DEF f
<1>3. \A q \in Relays :
        /\ f[q].owner = relay[q].owner /\ f[q].user = relay[q].user
        /\ f[q].client = relay[q].client /\ f[q].used = relay[q].used
        /\ f[q].listed = relay[q].listed
        /\ f[q].deleting = relay[q].deleting
        /\ f[q].closing = relay[q].closing /\ f[q].once = relay[q].once
        /\ q # r => f[q].pinned = relay[q].pinned
  BY ZenonT(60), <1>0, <1>1 DEF Relay
<1>4. Similar(Refused(r), f) /\ Refused(r)[r].closing
  BY <1>1, <1>2, BeginCloseFacts
<1> QED  BY <1>3, <1>4 DEF Similar

LEMMA HandlerOwn ==
  ASSUME TypeOK, TypeOK', Own, NEW r \in Relays, ReadFrom(r) \/ HandlerStep(r)
  PROVE  Own'
<1>0. relay \in [Relays -> Relay]
  BY DEF TypeOK
<1>1. CASE ReadFrom(r) /\ ~ReadEnds(r)
  <2>1. /\ UNCHANGED <<clients, table, reader>>
        /\ handler[r].pc = "reading" /\ relay[r].once = "no"
    BY <1>1, ReadFromCases
  <2>2. CASE /\ At(r, "pinned", NoRelay)
             /\ relay' = [relay EXCEPT ![r].pinned = TRUE]
    <3>1. \A q \in Relays :
            /\ relay'[q].client = relay[q].client
            /\ relay'[q].used = relay[q].used
            /\ relay'[q].deleting = relay[q].deleting
            /\ relay'[q].once = relay[q].once
            /\ q # r => relay'[q].pinned = relay[q].pinned
            /\ q = r => relay'[q].pinned
      BY <1>0, <2>2 DEF Relay
    <3>2. /\ handler'[r].pc = "pinned" /\ handler'[r].to = NoRelay
          /\ \A q \in Relays : q # r => handler'[q] = handler[q]
      BY <2>2 DEF TypeOK, At
    <3>3. \A a \in Clients : clients[a] # NoRelay => clients[a] \in Relays
      BY DEF TypeOK
    <3>4. Mapped'
      BY <2>1, <3>1, <3>3 DEF Own, Mapped
    <3>5. ReaderAt'
      BY <2>1, <3>1, ReaderFrame DEF Own
    <3>6. HandlerAt' /\ OwnDatagram'
      BY <2>1, <3>1, <3>2 DEF Own, HandlerAt, OwnDatagram
    <3> QED  BY <3>4, <3>5, <3>6 DEF Own
  <2>3. CASE At(r, "closing", r) /\ relay' = BeginClose(relay, r)
    BY <1>0, <2>1, <2>3, BeginCloseFacts, GoOnOwn
  <2> QED  BY <1>1, <2>2, <2>3, ReadFromCases
<1>2. CASE ListenerWriteTo(r)
  <2>1. UNCHANGED <<clients, table, reader>> /\ handler[r].pc = "pinned"
    BY <1>2 DEF ListenerWriteTo
  <2>2. CASE ReadAgain(r)
    BY <2>1, <2>2, AgainOwn
  <2>3. CASE At(r, "closing", r) /\ relay' = Refused(r)
    <3>1. \A q \in Relays :
            /\ relay'[q].client = relay[q].client
            /\ relay'[q].used = relay[q].used
            /\ relay'[q].deleting = relay[q].deleting
            /\ relay'[q].once = "done" <=> relay[q].once = "done"
            /\ q # r => relay'[q].pinned = relay[q].pinned
      BY <2>3, RefusedFacts
    <3>2. /\ handler'[r].pc = "closing" /\ handler'[r].to = r
          /\ \A q \in Relays : q # r => handler'[q] = handler[q]
      BY <2>3 DEF TypeOK, At
    <3>3. \A a \in Clients : clients[a] # NoRelay => clients[a] \in Relays
      BY DEF TypeOK
    <3>4. Mapped'
      BY <2>1, <3>1, <3>3 DEF Own, Mapped
    <3>5. ReaderAt'
      BY <2>1, <3>1, ReaderFrame DEF Own
    <3>6. HandlerAt' /\ OwnDatagram'
      BY <2>1, <3>1, <3>2 DEF Own, HandlerAt, OwnDatagram
    <3> QED  BY <3>4, <3>5, <3>6 DEF Own
  <2>4. CASE At(r, "writing", r) /\ relay' = relay
    BY <2>1, <2>4, GoOnOwn DEF Similar
  <2>5. clients[relay[r].client] = r
    BY <2>1, FoundOwn
  <2> QED  BY <1>2, <2>2, <2>3, <2>4, <2>5 DEF ListenerWriteTo
<1>3. CASE writePacket(r)
  <2>1. UNCHANGED <<clients, table, reader>> /\ handler[r].pc = "writing"
    BY <1>3 DEF writePacket
  <2>2. handler[r].to = r
    BY <2>1 DEF Own, HandlerAt
  <2>3. ReadAgain(r) \/ (At(r, "sent", r) /\ relay' = relay)
    BY <1>3, <2>2 DEF writePacket
  <2> QED  BY <2>1, <2>3, AgainOwn, GoOnOwn DEF Similar
<1>4. CASE Finish(r)
  <2>1. /\ UNCHANGED <<clients, table, reader>> /\ handler[r].pc # "off"
        /\ ReadAgain(r)
    BY <1>4 DEF Finish
  <2> QED  BY <2>1, AgainOwn
<1>5. ASSUME ReadEnds(r) PROVE Own'
  <2> DEFINE a == relay[r].client
  <2>1. /\ DeleteAllocation(a) /\ UNCHANGED <<clients, reader>>
        /\ At(r, "ended", NoRelay) /\ handler[r].pc = "reading"
    BY <1>5 DEF ReadEnds, HandlerEnds
  <2>2. a \in Clients
    BY <1>0, <2>1 DEF Own, HandlerAt, Relay
  <2> HIDE DEF a
  <2>3. /\ handler'[r].pc = "ended" /\ handler'[r].to = NoRelay
        /\ \A q \in Relays : q # r => handler'[q] = handler[q]
    BY <2>1 DEF TypeOK, At
  <2>4. Mapped'
    BY <2>1, <2>2, DeleteOwn DEF Own
  <2>5. ReaderAt'
    BY <2>1, <2>2, DeleteOwn, ReaderFrame DEF Own
  <2>6. \A q \in Relays :
          /\ relay'[q].client = relay[q].client
          /\ relay'[q].pinned = relay[q].pinned
          /\ relay'[q].once = "done" <=> relay[q].once = "done"
    BY <2>1, <2>2, DeleteOwn DEF Own
  <2>7. HandlerAt' /\ OwnDatagram'
    BY <2>1, <2>3, <2>6 DEF Own, HandlerAt, OwnDatagram
  <2> QED  BY <2>4, <2>5, <2>7 DEF Own
<1> QED  BY <1>1, <1>2, <1>3, <1>4, <1>5, ReadFailsEnds DEF HandlerStep

(* The steps of the other threads leave all of this alone. *)
Elsewhere ==
    \/ \E c \in Creds : MintChecked(c) \/ mint(c) \/ TimerFires(c) \/ RenewLock(c)
    \/ Tick \/ RenewCheck \/ renewSession \/ Revoke \/ close
    \/ \E t \in Threads : RemoverStep(t)

LEMMA ElsewhereFrame ==
  ASSUME TypeOK, Elsewhere
  PROVE  /\ UNCHANGED <<clients, table, reader, handler>>
         /\ relay' = relay \/ Similar(relay', relay)
<1>1. CASE \E c \in Creds : \/ MintChecked(c) \/ mint(c)
                            \/ TimerFires(c) \/ RenewLock(c)
  BY <1>1 DEF MintChecked, mint, TimerFires, RenewLock
<1>2. CASE Tick \/ RenewCheck \/ renewSession \/ Revoke \/ close
  BY <1>2 DEF Tick, RenewCheck, renewSession, Revoke, close
<1>3. ASSUME NEW t \in Threads, quiesce(t) \/ revoke(t)
      PROVE  UNCHANGED <<clients, table, reader, handler, relay>>
  BY SMTT(60), <1>3 DEF quiesce, revoke
<1>4. ASSUME NEW t \in Threads,
             revokeCredential(t) \/ removeCredential(t) \/ NextPhase(t)
      PROVE  UNCHANGED <<clients, table, reader, handler, relay>>
  BY <1>4 DEF revokeCredential, removeCredential, NextPhase
<1>5. ASSUME NEW t \in Threads, Close(t)
      PROVE  /\ UNCHANGED <<clients, table, reader, handler>>
             /\ relay' = relay \/ Similar(relay', relay)
  BY ZenonT(60), <1>5, BeginCloseFacts DEF Close, TypeOK
<1> QED  BY <1>1, <1>2, <1>3, <1>4, <1>5 DEF Elsewhere, RemoverStep

LEMMA NextCases ==
  ASSUME Next
  PROVE  \/ Elsewhere \/ Request \/ ReaderStep
         \/ \E r \in Relays : channelCreated(r) \/ RelayStep(r)
         \/ \E r \in Relays : ReadFrom(r) \/ HandlerStep(r)
         \/ \E a \in Clients : LifetimeEnds(a)
BY DEF Next, Elsewhere

LEMMA ElsewhereType ==
  ASSUME TypeOK, Elsewhere
  PROVE  TypeOK'
<1>1. ASSUME NEW c \in Creds, MintChecked(c) \/ mint(c) \/ TimerFires(c)
      PROVE  TypeOK'
  BY <1>1, CredType
<1>2. CASE Tick
  <2>1. PICK c \in Creds : TRUE
    BY <1>2 DEF Tick
  <2> QED  BY <1>2, <2>1, CredType
<1>3. CASE (\E c \in Creds : RenewLock(c)) \/ RenewCheck \/ renewSession
  BY <1>3, RenewType
<1>4. CASE Revoke \/ close
  BY <1>4, CallType
<1> QED  BY <1>1, <1>2, <1>3, <1>4, RemoverType DEF Elsewhere

LEMMA TypeStep ==
  ASSUME TypeOK, Own, [Next]_vars
  PROVE  TypeOK'
<1>1. CASE UNCHANGED vars
  BY <1>1 DEF vars, TypeOK
<1>2. CASE Next
  BY <1>2, NextCases, ElsewhereType, RequestType, ReaderType, RelayType,
     HandlerType, LifetimeType
<1> QED  BY <1>1, <1>2

LEMMA OwnStep ==
  ASSUME TypeOK, TypeOK', Own, [Next]_vars
  PROVE  Own'
<1>1. CASE UNCHANGED vars
  BY <1>1, OwnFrame DEF vars
<1>2. CASE Elsewhere
  BY <1>2, ElsewhereFrame, OwnFrame
<1>3. CASE Next /\ ~Elsewhere
  BY <1>3, NextCases, RequestOwn, ReaderOwn, RelayOwn, HandlerOwn, LifetimeOwn
<1> QED  BY <1>1, <1>2, <1>3

LEMMA InitOwn == Init => Own
<1> SUFFICES ASSUME Init PROVE Own
  OBVIOUS
<1>1. /\ \A a \in Clients : clients[a] = NoRelay /\ table[a] = NoRelay
      /\ \A r \in Relays : /\ relay[r].client = None /\ ~relay[r].deleting
                           /\ handler[r].pc = "off" /\ handler[r].to = NoRelay
      /\ reader.pc = "idle"
  BY DEF Init, NewRelay, Idle
<1> QED  BY <1>1 DEF Own, OwnDatagram, Mapped, ReaderAt, HandlerAt

-----------------------------------------------------------------------------
(* Gates *)

(* Who reads a gate was let in before the credential was revoked, and the  *)
(* revocation of the session still has the credential before it.           *)
Gates ==
    /\ \A c \in Creds : Reads(c) =>
         /\ ~cred[c].revoked /\ cred[c].state = "managed"
         /\ remover[Revoker].pc \notin {"idle", "begun"} =>
              c \in remover[Revoker].todo
    /\ remover[Revoker].pc # "idle" => ~allowed
    /\ remover[Revoker].pc \notin {"rest", "drain"}
    /\ \A t \in Threads : remover[t].pc = "remove" =>
         remover[t].cred \in Creds /\ cred[remover[t].cred].revoked
    /\ \A r \in Relays : relay[r].owner # None =>
         \/ cred[relay[r].owner].state = "managed"
         \/ /\ cred[relay[r].owner].state = "removed"
            /\ cred[relay[r].owner].revoked

LEMMA ReadsFrame ==
  ASSUME TypeOK, Own, Own',
         \A q \in Relays : relay[q].client # None =>
                            relay'[q].owner = relay[q].owner,
         reader'.pc \in {"writing", "sent"} =>
           reader.pc \in {"writing", "sent"} /\ reader'.relay = reader.relay,
         \A r \in Relays : handler'[r].pc \in {"writing", "sent"} =>
                            handler[r].pc \in {"writing", "sent"},
         NEW c, Reads(c)'
  PROVE  Reads(c)
<1>1. CASE reader'.pc \in {"writing", "sent"} /\ relay'[reader'.relay].owner = c
  BY <1>1 DEF Reads, Own, ReaderAt
<1>2. ASSUME NEW r \in Relays, handler'[r].pc \in {"writing", "sent"},
             relay'[handler'[r].to].owner = c
      PROVE  Reads(c)
  <2>1. handler'[r].to = r
    BY <1>2 DEF Own, HandlerAt
  <2>2. handler[r].to = r /\ relay[r].client # None
    BY <1>2 DEF Own, HandlerAt
  <2> QED  BY <1>2, <2>1, <2>2 DEF Reads
<1> QED  BY <1>1, <1>2 DEF Reads

LEMMA GateFrame ==
  ASSUME TypeOK, Gates, \A c \in Creds : Reads(c)' => Reads(c),
         UNCHANGED <<cred, remover, allowed>>,
         \A r \in Relays : \/ relay'[r].owner = relay[r].owner
                           \/ relay'[r].owner \in managed \cup {None}
  PROVE  Gates'
BY DEF Gates, managed

LEMMA RelayGate ==
  ASSUME TypeOK, Own, Own', Gates, NEW r \in Relays,
         channelCreated(r) \/ RelayStep(r)
  PROVE  Gates'
<1>0. relay \in [Relays -> Relay]
  BY DEF TypeOK
<1>1. UNCHANGED <<cred, remover, allowed, reader, handler>>
  BY DEF RelayStep, channelCreated, CloseLater, Drain, allocationDeleted
<1>2. \A q \in Relays : relay'[q].owner = relay[q].owner
  <2>1. CASE channelCreated(r)
    BY <1>0, <2>1 DEF channelCreated, Relay
  <2>2. CASE CloseLater(r)
    BY <1>0, <2>2, BeginCloseFacts DEF CloseLater, Similar
  <2>3. CASE Drain(r)
    BY <1>0, <2>3 DEF Drain, Relay
  <2>4. CASE allocationDeleted(r)
    BY <1>0, <2>4 DEF allocationDeleted, Relay
  <2> QED  BY <2>1, <2>2, <2>3, <2>4 DEF RelayStep
<1> QED  BY <1>1, <1>2, ReadsFrame, GateFrame

LEMMA LifetimeGate ==
  ASSUME TypeOK, Own, Own', Gates, NEW a \in Clients, LifetimeEnds(a)
  PROVE  Gates'
<1>1. /\ UNCHANGED <<cred, remover, allowed, reader, handler, clients>>
      /\ DeleteAllocation(a)
  BY DEF LifetimeEnds
<1>2. \A q \in Relays : relay'[q].owner = relay[q].owner
  BY <1>1, DeleteOwn DEF Own
<1> QED  BY <1>1, <1>2, ReadsFrame, GateFrame

(* A write begins under a gate that lets it in. *)
LEMMA EnterGate ==
  ASSUME TypeOK, Own, Own', Gates, NEW r \in Relays,
         relay[r].owner # None, authorized(relay[r].owner),
         \A c \in Creds : Reads(c)' => Reads(c) \/ c = relay[r].owner,
         UNCHANGED <<cred, remover, allowed>>,
         \A q \in Relays : relay'[q].owner = relay[q].owner
  PROVE  Gates'
<1> DEFINE o == relay[r].owner
<1>1. o \in Creds
  BY DEF TypeOK, Relay
<1>2. ~cred[o].revoked /\ allowed
  BY DEF authorized
<1>3. cred[o].state = "managed" /\ remover[Revoker].pc = "idle"
  BY <1>2 DEF Gates
<1> HIDE DEF o
<1>4. \A c \in Creds : Reads(c)' =>
         /\ ~cred[c].revoked /\ cred[c].state = "managed"
         /\ remover[Revoker].pc \notin {"idle", "begun"} =>
              c \in remover[Revoker].todo
  BY <1>2, <1>3 DEF Gates, o
<1> QED  BY <1>4 DEF Gates

LEMMA RequestGate ==
  ASSUME TypeOK, Own, Own', Gates, Request
  PROVE  Gates'
<1>0. relay \in [Relays -> Relay]
  BY DEF TypeOK
<1>1. ASSUME NEW a \in Clients, RelayWriteTo(a) PROVE Gates'
  <2> DEFINE r == table[a]
  <2>1. /\ UNCHANGED <<cred, remover, allowed, handler>>
        /\ r # NoRelay /\ relay[r].owner # None
        /\ relay' = relay \/ relay' = BeginClose(relay, r)
        /\ reader'.pc \in {"closing", "writing"} /\ reader'.relay = r
        /\ reader'.pc = "writing" => authorized(relay[r].owner)
    BY <1>1 DEF RelayWriteTo, Idle
  <2>2. r \in Relays
    BY <2>1 DEF TypeOK
  <2>3. \A q \in Relays : relay'[q].owner = relay[q].owner
    BY <1>0, <2>1, BeginCloseFacts DEF Similar
  <2> HIDE DEF r
  <2>4. CASE reader'.pc = "closing"
    BY <2>1, <2>3, <2>4, ReadsFrame, GateFrame
  <2>5. CASE reader'.pc = "writing"
    <3>1. \A c \in Creds : Reads(c)' => Reads(c) \/ c = relay[r].owner
      <4> SUFFICES ASSUME NEW c \in Creds, Reads(c)', c # relay[r].owner
                   PROVE  Reads(c)
        OBVIOUS
      <4>1. PICK q \in Relays : /\ handler[q].pc \in {"writing", "sent"}
                                /\ relay'[handler[q].to].owner = c
        BY <2>1, <2>2, <2>3 DEF Reads
      <4>2. handler[q].to = q
        BY <4>1 DEF Own, HandlerAt
      <4> QED  BY <2>3, <4>1, <4>2 DEF Reads
    <3> QED  BY <2>1, <2>2, <2>3, <2>5, <3>1, EnterGate
  <2> QED  BY <2>1, <2>4, <2>5
<1>2. ASSUME NEW a \in Clients, NEW c \in Creds, auth(c, a) PROVE Gates'
  <2>1. /\ UNCHANGED <<cred, remover, allowed, handler, clients>>
        /\ reader'.pc \in {"quota", "deleting"}
        /\ relay' = relay \/ DeleteAllocation(a)
    BY <1>2 DEF auth, Idle
  <2>2. \A q \in Relays : relay'[q].owner = relay[q].owner
    BY <2>1, DeleteOwn DEF Own
  <2> QED  BY <2>1, <2>2, ReadsFrame, GateFrame
<1> QED  BY <1>1, <1>2 DEF Request

LEMMA ReaderGate ==
  ASSUME TypeOK, Own, Own', Gates, ReaderStep
  PROVE  Gates'
<1>0. relay \in [Relays -> Relay]
  BY DEF TypeOK
<1>1. CASE Deleted \/ RelayReported \/ Park \/ RelayWritten
  <2>1. /\ UNCHANGED <<cred, remover, allowed, handler, relay>>
        /\ reader'.pc \in {"writing", "sent"} =>
             reader.pc \in {"writing", "sent"} /\ reader'.relay = reader.relay
    BY <1>1 DEF Deleted, RelayReported, Park, RelayWritten, Idle, TypeOK, Reader
  <2> QED  BY <2>1, ReadsFrame, GateFrame
<1>2. CASE AllocatePacketConn
  <2>1. /\ UNCHANGED <<cred, remover, allowed, handler>>
        /\ reader'.pc \in {"idle", "created"}
    <3>1. \/ reader' = Idle
          \/ \E r \in Relays :
               reader' = [reader EXCEPT !.pc = "created", !.relay = r]
      BY <1>2 DEF AllocatePacketConn
    <3>2. reader \in Reader
      BY DEF TypeOK
    <3>3. Idle.pc = "idle"
      BY DEF Idle
    <3>4. \A r : [reader EXCEPT !.pc = "created", !.relay = r].pc = "created"
      BY <3>2 DEF Reader
    <3>5. reader'.pc \in {"idle", "created"}
      BY <3>1, <3>3, <3>4
    <3> QED  BY <1>2, <3>5 DEF AllocatePacketConn
  <2>2. \A q \in Relays : relay'[q].owner = relay[q].owner
    <3>1. CASE relay' = relay
      BY <3>1
    <3>2. ASSUME NEW r \in Relays,
                 relay' = [relay EXCEPT ![r].used = TRUE, ![r].listed = TRUE]
          PROVE  \A q \in Relays : relay'[q].owner = relay[q].owner
      <4>1. relay'[r] = [relay[r] EXCEPT !.used = TRUE, !.listed = TRUE]
        BY <1>0, <3>2
      <4>2. \A q \in Relays : q # r => relay'[q] = relay[q]
        BY <1>0, <3>2
      <4>3. relay'[r].owner = relay[r].owner
        BY <1>0, <4>1 DEF Relay
      <4> QED  BY <4>2, <4>3
    <3> QED  BY <1>2, <3>1, <3>2 DEF AllocatePacketConn
  <2> QED  BY <2>1, <2>2, ReadsFrame, GateFrame
<1>3. CASE allocationCreated
  <2> DEFINE n == reader.relay
             o == IF reader.user \in managed THEN reader.user ELSE None
  <2>1. /\ n \in Relays /\ relay[n].client = None
        /\ \A q \in Relays : q # n => relay'[q] = relay[q]
        /\ relay'[n].owner = o
        /\ reader'.pc \in {"idle", "closing"}
        /\ handler' = handler \/ handler' = [handler EXCEPT ![n].pc = "reading"]
    BY <1>3, CreatedFacts
  <2>2. UNCHANGED <<cred, remover, allowed>>
    BY <1>3 DEF allocationCreated
  <2>3. o \in managed \cup {None}
    OBVIOUS
  <2> HIDE DEF n, o
  <2>4. \A q \in Relays : handler'[q].pc \in {"writing", "sent"} =>
                           handler[q].pc \in {"writing", "sent"}
    BY <2>1 DEF TypeOK, Handler
  <2>5. \A c \in Creds : Reads(c)' => Reads(c)
    BY <2>1, <2>4, ReadsFrame
  <2> QED  BY <2>1, <2>2, <2>3, <2>5, GateFrame
<1>4. CASE ReaderClosed
  <2>1. /\ UNCHANGED <<cred, remover, allowed, relay>>
        /\ reader'.pc = "idle"
        /\ handler' = [handler EXCEPT ![reader.relay].pc =
                         IF @ = "off" THEN "reading" ELSE @]
    BY <1>4 DEF ReaderClosed, Idle
  <2>2. \A q \in Relays : handler'[q].pc \in {"writing", "sent"} =>
                           handler[q].pc \in {"writing", "sent"}
    BY <2>1 DEF TypeOK, Handler
  <2> QED  BY <2>1, <2>2, ReadsFrame, GateFrame
<1> QED  BY <1>1, <1>2, <1>3, <1>4 DEF ReaderStep

LEMMA HandlerGate ==
  ASSUME TypeOK, Own, Own', Gates, NEW r \in Relays,
         ReadFrom(r) \/ HandlerStep(r)
  PROVE  Gates'
<1>0. relay \in [Relays -> Relay] /\ handler \in [Relays -> Handler]
  BY DEF TypeOK
<1>1. UNCHANGED <<cred, remover, allowed, reader>>
  BY DEF HandlerStep, ReadFrom, ListenerWriteTo, writePacket, Finish, ReadFails
<1>2. ASSUME NEW pc, NEW to, At(r, pc, to), pc \notin {"writing", "sent"},
             \A q \in Relays : relay'[q].owner = relay[q].owner
      PROVE  Gates'
  <2>1. \A q \in Relays : handler'[q].pc \in {"writing", "sent"} =>
                           handler[q].pc \in {"writing", "sent"}
    BY <1>0, <1>2 DEF At
  <2> QED  BY <1>1, <1>2, <2>1, ReadsFrame, GateFrame
<1>3. ASSUME ReadAgain(r) PROVE Gates'
  <2>1. \A q \in Relays : relay'[q].owner = relay[q].owner
    BY <1>3, AgainFacts DEF Own
  <2>2. At(r, "reading", NoRelay)
    BY <1>3 DEF ReadAgain
  <2> QED  BY <1>2, <2>1, <2>2
<1>4. CASE ReadFrom(r) /\ ~ReadEnds(r)
  <2>1. \/ /\ At(r, "pinned", NoRelay)
           /\ relay' = [relay EXCEPT ![r].pinned = TRUE]
        \/ At(r, "closing", r) /\ relay' = BeginClose(relay, r)
    BY <1>4, ReadFromCases
  <2>2. \A q \in Relays : [relay EXCEPT ![r].pinned = TRUE][q].owner
                           = relay[q].owner
    BY <1>0 DEF Relay
  <2>3. \A q \in Relays : relay'[q].owner = relay[q].owner
    <3>1. \A q \in Relays : BeginClose(relay, r)[q].owner = relay[q].owner
      BY <1>0, BeginCloseFacts DEF Similar
    <3> QED  BY <2>1, <2>2, <3>1
  <2> QED  BY <1>2, <2>1, <2>3
<1>5. CASE ListenerWriteTo(r)
  <2>1. handler[r].pc = "pinned" /\ clients[relay[r].client] = r
    BY <1>5, FoundOwn DEF ListenerWriteTo
  <2>2. CASE At(r, "closing", r) /\ relay' = Refused(r)
    <3>1. \A q \in Relays : relay'[q].owner = relay[q].owner
      BY <2>2, RefusedFacts
    <3> QED  BY <1>2, <2>2, <3>1
  <2>3. CASE /\ At(r, "writing", r) /\ relay' = relay
             /\ relay[r].owner # None /\ authorized(relay[r].owner)
    <3>1. \A c \in Creds : Reads(c)' => Reads(c) \/ c = relay[r].owner
      <4> SUFFICES ASSUME NEW c \in Creds, Reads(c)', c # relay[r].owner
                   PROVE  Reads(c)
        OBVIOUS
      <4>1. /\ handler'[r].to = r
            /\ \A q \in Relays : q # r => handler'[q] = handler[q]
        BY <1>0, <2>3 DEF At
      <4> QED  BY <1>1, <2>3, <4>1 DEF Reads
    <3> QED  BY <1>1, <2>3, <3>1, EnterGate
  <2> QED  BY <1>3, <1>5, <2>1, <2>2, <2>3 DEF ListenerWriteTo
<1>6. CASE writePacket(r)
  <2>1. CASE At(r, "sent", handler[r].to) /\ relay' = relay
    <3>1. \A q \in Relays : handler'[q].pc \in {"writing", "sent"} =>
                             handler[q].pc \in {"writing", "sent"}
      BY <1>0, <1>6, <2>1 DEF At, writePacket
    <3> QED  BY <1>1, <2>1, <3>1, ReadsFrame, GateFrame
  <2> QED  BY <1>3, <1>6, <2>1 DEF writePacket
<1>7. CASE Finish(r)
  BY <1>3, <1>7 DEF Finish
<1>8. ASSUME ReadEnds(r) PROVE Gates'
  <2>1. /\ At(r, "ended", NoRelay) /\ DeleteAllocation(relay[r].client)
        /\ clients' = clients /\ handler[r].pc = "reading"
    BY <1>8 DEF ReadEnds, HandlerEnds
  <2>2. relay[r].client \in Clients
    BY <1>0, <2>1 DEF Own, HandlerAt, Relay
  <2>3. \A q \in Relays : relay'[q].owner = relay[q].owner
    BY <2>1, <2>2, DeleteOwn DEF Own
  <2> QED  BY <1>2, <2>1, <2>3
<1> QED  BY <1>4, <1>5, <1>6, <1>7, <1>8, ReadFailsEnds DEF HandlerStep

(* Reads and owners stay, credentials and removers change. *)
LEMMA ElsewhereReads ==
  ASSUME TypeOK, Own, Own', Elsewhere
  PROVE  /\ \A c \in Creds : Reads(c)' => Reads(c)
         /\ \A r \in Relays : relay'[r].owner = relay[r].owner
<1>1. \A r \in Relays : relay'[r].owner = relay[r].owner
  BY ElsewhereFrame DEF Similar
<1> QED  BY <1>1, ElsewhereFrame, ReadsFrame

LEMMA CredGate ==
  ASSUME TypeOK, Own, Own', Gates, NEW k \in Creds, Elsewhere,
         MintChecked(k) \/ mint(k) \/ TimerFires(k) \/ RenewLock(k)
  PROVE  Gates'
<1>0. /\ cred \in [Creds -> Credential] /\ remover \in [Threads -> Remover]
      /\ Revoker \in Threads /\ k # Revoker
      /\ \A r \in Relays : relay[r].owner \in Creds \cup {None}
  BY ConstantsAssumption DEF TypeOK, Threads, Relay
<1>1. allowed' = allowed
  BY DEF MintChecked, mint, TimerFires, RenewLock
<1>2. \A c \in Creds :
        /\ cred'[c].revoked = cred[c].revoked
        /\ cred[c].state \in {"managed", "removed"} =>
             cred'[c].state = cred[c].state
  <2>1. CASE MintChecked(k)
    BY <1>0, <2>1 DEF MintChecked, Credential
  <2>2. CASE mint(k)
    <3>1. \/ cred' = [cred EXCEPT ![k].state = "removed"]
          \/ cred' = [cred EXCEPT ![k].state = "managed", ![k].armed = TRUE]
      BY <2>2 DEF mint
    <3>2. cred[k].state = "checked"
      BY <2>2 DEF mint
    <3> QED  BY <1>0, <3>1, <3>2 DEF Credential
  <2>3. CASE TimerFires(k)
    BY <1>0, <2>3 DEF TimerFires, Credential
  <2>4. CASE RenewLock(k)
    BY <2>4 DEF RenewLock
  <2> QED  BY <2>1, <2>2, <2>3, <2>4
<1>3. /\ remover'[Revoker] = remover[Revoker]
      /\ \A t \in Threads : remover'[t].pc = "remove" =>
           remover'[t] = remover[t]
  <2>1. CASE TimerFires(k)
    <3>1. remover' = [remover EXCEPT ![k] = [Rest EXCEPT !.pc = "gate",
                                                        !.todo = {k}]]
      BY <2>1 DEF TimerFires
    <3>2. [Rest EXCEPT !.pc = "gate", !.todo = {k}].pc = "gate"
      BY DEF Rest
    <3> QED  BY <1>0, <3>1, <3>2
  <2>2. CASE remover' = remover
    BY <2>2
  <2> QED  BY <2>1, <2>2 DEF MintChecked, mint, RenewLock
<1> QED  BY <1>0, <1>1, <1>2, <1>3, ElsewhereReads DEF Gates

LEMMA PlainGate ==
  ASSUME TypeOK, Own, Own', Gates, Elsewhere,
         Tick \/ RenewCheck \/ renewSession \/ Revoke \/ close
  PROVE  Gates'
<1>0. /\ cred \in [Creds -> Credential] /\ remover \in [Threads -> Remover]
      /\ Revoker \in Threads /\ Closer # Revoker
      /\ \A r \in Relays : relay[r].owner \in Creds \cup {None}
  BY DEF TypeOK, Threads, Relay, Closer, Revoker
<1>1. CASE Tick \/ RenewCheck
  BY <1>1, ElsewhereReads, GateFrame DEF Tick, RenewCheck
<1>2. CASE renewSession
  <2>1. \A c \in Creds : /\ cred'[c].revoked = cred[c].revoked
                          /\ cred'[c].state = cred[c].state
    BY <1>0, <1>2 DEF renewSession, Extended, Credential
  <2>2. UNCHANGED <<remover, allowed>>
    BY <1>2 DEF renewSession
  <2> QED  BY <1>0, <2>1, <2>2, ElsewhereReads DEF Gates
<1>3. CASE Revoke
  <2>1. /\ cred' = cred /\ ~allowed'
        /\ remover' = [remover EXCEPT ![Revoker] = [Rest EXCEPT !.pc = "begun"]]
    BY <1>3 DEF Revoke, Goes
  <2>2. [Rest EXCEPT !.pc = "begun"].pc = "begun"
    BY DEF Rest
  <2>3. /\ remover'[Revoker].pc = "begun"
        /\ \A t \in Threads : t # Revoker => remover'[t] = remover[t]
    BY <1>0, <2>1, <2>2
  <2> QED  BY <1>0, <2>1, <2>3, ElsewhereReads DEF Gates
<1>4. CASE close
  <2>1. /\ cred' = cred /\ allowed' = allowed
        /\ remover' = [remover EXCEPT ![Closer] = [Rest EXCEPT !.pc = "begun"]]
    BY <1>4 DEF close, Goes
  <2>2. [Rest EXCEPT !.pc = "begun"].pc = "begun"
    BY DEF Rest
  <2>3. /\ remover'[Revoker] = remover[Revoker]
        /\ \A t \in Threads : remover'[t].pc = "remove" =>
             remover'[t] = remover[t]
    BY <1>0, <2>1, <2>2
  <2> QED  BY <1>0, <2>1, <2>3, ElsewhereReads DEF Gates
<1> QED  BY <1>1, <1>2, <1>3, <1>4

LEMMA RemoverGate ==
  ASSUME TypeOK, Own, Own', Gates, Elsewhere, NEW t \in Threads, RemoverStep(t)
  PROVE  Gates'
<1> DEFINE m == remover[t]
<1>0. /\ cred \in [Creds -> Credential] /\ remover \in [Threads -> Remover]
      /\ Revoker \in Threads /\ Closer # Revoker /\ m \in Remover
      /\ \A r \in Relays : relay[r].owner \in Creds \cup {None}
  BY SMTT(60) DEF TypeOK, Threads, Relay, Closer, Revoker
<1>1. allowed' = allowed
  BY DEF RemoverStep, quiesce, revoke, revokeCredential, removeCredential,
         Close, NextPhase
<1>2. ASSUME NEW n, Goes(t, n), cred' = cred, n.pc # "remove",
             t = Revoker => /\ n.pc \in {"gate", "close", "done"}
                            /\ m.pc # "idle"
                            /\ \A c \in Creds : Reads(c) => c \in n.todo
      PROVE  Gates'
  <2>1. /\ remover'[t] = n
        /\ \A u \in Threads : u # t => remover'[u] = remover[u]
    BY <1>0, <1>2 DEF Goes
  <2> QED  BY <1>0, <1>1, <1>2, <2>1, ElsewhereReads DEF Gates
<1>3. CASE quiesce(t)
  <2>1. [Rest EXCEPT !.pc = "quiesce"].pc = "quiesce"
    BY DEF Rest
  <2> QED  BY <1>0, <1>2, <1>3, <2>1 DEF quiesce
<1>4. CASE revoke(t)
  <2> DEFINE n == [Rest EXCEPT !.pc = "gate", !.todo = managed]
  <2>1. n.pc = "gate" /\ n.todo = managed
    BY DEF Rest
  <2>2. \A c \in Creds : Reads(c) => c \in managed
    BY DEF Gates, managed
  <2>3. Goes(t, n) /\ cred' = cred /\ (t = Revoker => m.pc = "begun")
    BY <1>0, <1>4 DEF revoke, Quiesced
  <2> HIDE DEF n
  <2> QED  BY <1>2, <2>1, <2>2, <2>3
<1>5. CASE revokeCredential(t)
  <2>1. PICK c \in m.todo :
          /\ m.pc = "gate" /\ GateFree(c)
          /\ IF Ends(t, c)
             THEN /\ cred' = [cred EXCEPT ![c].revoked = TRUE]
                  /\ Goes(t, [m EXCEPT !.pc = "remove", !.cred = c,
                                       !.todo = @ \ {c}])
             ELSE cred' = cred /\ Goes(t, Rest)
    BY <1>5 DEF revokeCredential
  <2>2. c \in Creds /\ ~Reads(c)
    BY <1>0, <2>1 DEF Remover, GateFree
  <2>3. CASE ~Ends(t, c)
    <3>1. t # Revoker
      BY <2>3, ConstantsAssumption DEF Ends
    <3>2. Rest.pc = "idle"
      BY DEF Rest
    <3> QED  BY <1>2, <2>1, <2>3, <3>1, <3>2
  <2>4. CASE Ends(t, c)
    <3> DEFINE n == [m EXCEPT !.pc = "remove", !.cred = c, !.todo = @ \ {c}]
    <3>1. n.pc = "remove" /\ n.cred = c /\ n.todo = m.todo \ {c}
      BY <1>0 DEF Remover
    <3>2. /\ remover'[t] = n
          /\ \A u \in Threads : u # t => remover'[u] = remover[u]
      BY <1>0, <2>1, <2>4 DEF Goes
    <3>3. \A k \in Creds :
            /\ cred'[k].state = cred[k].state
            /\ k # c => cred'[k].revoked = cred[k].revoked
            /\ cred[k].revoked \/ k = c => cred'[k].revoked
      BY <1>0, <2>1, <2>2, <2>4 DEF Credential
    <3> HIDE DEF n
    <3>4. \A k \in Creds : Reads(k)' => k # c /\ Reads(k)
      BY <2>2, ElsewhereReads
    <3>5. \A k \in Creds : Reads(k)' =>
            /\ ~cred'[k].revoked /\ cred'[k].state = "managed"
            /\ remover'[Revoker].pc \notin {"idle", "begun"} =>
                 k \in remover'[Revoker].todo
      <4> SUFFICES ASSUME NEW k \in Creds, Reads(k)'
                   PROVE  /\ ~cred'[k].revoked /\ cred'[k].state = "managed"
                          /\ remover'[Revoker].pc \notin {"idle", "begun"} =>
                               k \in remover'[Revoker].todo
        OBVIOUS
      <4>1. CASE t = Revoker
        BY <2>1, <3>1, <3>2, <3>3, <3>4, <4>1 DEF Gates
      <4>2. CASE t # Revoker
        BY <1>0, <3>2, <3>3, <3>4, <4>2 DEF Gates
      <4> QED  BY <4>1, <4>2
    <3>6. /\ remover'[Revoker].pc # "idle" => ~allowed'
          /\ remover'[Revoker].pc \notin {"rest", "drain"}
      BY <1>0, <1>1, <2>1, <3>1, <3>2 DEF Gates
    <3>7. \A u \in Threads : remover'[u].pc = "remove" =>
            remover'[u].cred \in Creds /\ cred'[remover'[u].cred].revoked
      BY <2>2, <3>1, <3>2, <3>3 DEF Gates
    <3>8. \A r \in Relays : relay'[r].owner # None =>
            \/ cred'[relay'[r].owner].state = "managed"
            \/ /\ cred'[relay'[r].owner].state = "removed"
               /\ cred'[relay'[r].owner].revoked
      BY <1>0, <3>3, ElsewhereReads DEF Gates
    <3> QED  BY <3>5, <3>6, <3>7, <3>8 DEF Gates
  <2> QED  BY <2>3, <2>4
<1>6. CASE removeCredential(t)
  <2> DEFINE c == m.cred
             n == [m EXCEPT !.pc = "close", !.cred = None,
                            !.relays = OwnedBy(c)]
  <2>1. /\ m.pc = "remove" /\ Goes(t, n)
        /\ \/ cred' = cred
           \/ cred' = [cred EXCEPT ![c].state = "removed", ![c].armed = FALSE]
    BY <1>6 DEF removeCredential
  <2>2. n.pc = "close" /\ n.todo = m.todo
    BY <1>0 DEF Remover
  <2>3. c \in Creds /\ cred[c].revoked
    BY <2>1 DEF Gates
  <2>4. /\ remover'[t] = n
        /\ \A u \in Threads : u # t => remover'[u] = remover[u]
    BY <1>0, <2>1 DEF Goes
  <2>5. \A k \in Creds :
          /\ cred'[k].revoked = cred[k].revoked
          /\ k # c => cred'[k].state = cred[k].state
          /\ cred'[k].state \in {cred[k].state, "removed"}
    BY <1>0, <2>1, <2>3 DEF Credential
  <2> HIDE DEF n, c
  <2>6. \A k \in Creds : Reads(k)' =>
          /\ ~cred'[k].revoked /\ cred'[k].state = "managed"
          /\ remover'[Revoker].pc \notin {"idle", "begun"} =>
               k \in remover'[Revoker].todo
    <3> SUFFICES ASSUME NEW k \in Creds, Reads(k)'
                 PROVE  /\ ~cred'[k].revoked /\ cred'[k].state = "managed"
                        /\ remover'[Revoker].pc \notin {"idle", "begun"} =>
                             k \in remover'[Revoker].todo
      OBVIOUS
    <3>1. Reads(k)
      BY ElsewhereReads
    <3>2. k # c
      BY <2>3, <3>1 DEF Gates
    <3>3. CASE t = Revoker
      BY <2>1, <2>2, <2>4, <2>5, <3>1, <3>2, <3>3 DEF Gates
    <3>4. CASE t # Revoker
      BY <1>0, <2>4, <2>5, <3>1, <3>2, <3>4 DEF Gates
    <3> QED  BY <3>3, <3>4
  <2>7. /\ remover'[Revoker].pc # "idle" => ~allowed'
        /\ remover'[Revoker].pc \notin {"rest", "drain"}
    BY <1>0, <1>1, <2>1, <2>2, <2>4 DEF Gates
  <2>8. \A u \in Threads : remover'[u].pc = "remove" =>
          remover'[u].cred \in Creds /\ cred'[remover'[u].cred].revoked
    BY <2>2, <2>4, <2>5 DEF Gates
  <2>9. \A r \in Relays : relay'[r].owner # None =>
          \/ cred'[relay'[r].owner].state = "managed"
          \/ /\ cred'[relay'[r].owner].state = "removed"
             /\ cred'[relay'[r].owner].revoked
    BY <1>0, <2>3, <2>5, ElsewhereReads DEF Gates
  <2> QED  BY <2>6, <2>7, <2>8, <2>9 DEF Gates
<1>7. CASE Close(t)
  <2>1. PICK n : /\ Goes(t, n) /\ n.pc = m.pc /\ n.todo = m.todo
                 /\ m.pc \in {"close", "rest"} /\ cred' = cred
    <3>1. CASE m.at = NoRelay
      <4>1. PICK r \in m.relays :
              Goes(t, [m EXCEPT !.at = r, !.relays = @ \ {r}])
        BY <1>7, <3>1 DEF Close
      <4>2. LET n == [m EXCEPT !.at = r, !.relays = @ \ {r}]
            IN  n.pc = m.pc /\ n.todo = m.todo
        BY <1>0 DEF Remover
      <4> QED  BY <1>7, <4>1, <4>2 DEF Close
    <3>2. CASE m.at # NoRelay
      <4>1. Goes(t, [m EXCEPT !.at = NoRelay])
        BY <1>7, <3>2 DEF Close
      <4>2. LET n == [m EXCEPT !.at = NoRelay]
            IN  n.pc = m.pc /\ n.todo = m.todo
        BY <1>0 DEF Remover
      <4> QED  BY <1>7, <4>1, <4>2 DEF Close
    <3> QED  BY <3>1, <3>2
  <2> QED  BY <1>2, <2>1 DEF Gates
<1>8. CASE NextPhase(t)
  <2>1. PICK n : /\ Goes(t, n) /\ n.pc # "remove" /\ cred' = cred
                 /\ t = Revoker =>
                      \/ m.pc = "close" /\ n.pc = "gate" /\ n.todo = m.todo
                      \/ m.pc = "gate" /\ n.pc = "done" /\ m.todo = {}
    <3>1. CASE m.pc = "close"
      <4>1. Goes(t, IF t \in Creds THEN Rest ELSE [m EXCEPT !.pc = "gate"])
        BY <1>8, <3>1 DEF NextPhase
      <4>2. LET n == [m EXCEPT !.pc = "gate"]
            IN  n.pc = "gate" /\ n.todo = m.todo
        BY <1>0 DEF Remover
      <4>3. Rest.pc = "idle" /\ Revoker \notin Creds
        BY ConstantsAssumption DEF Rest
      <4> QED  BY <1>8, <3>1, <4>1, <4>2, <4>3 DEF NextPhase
    <3>2. CASE m.pc = "gate"
      <4>1. m.todo = {} /\ Goes(t, IF t = Revoker THEN [Rest EXCEPT !.pc = "done"]
                ELSE [m EXCEPT !.pc = "rest",
                               !.relays = {r \in Relays : relay[r].listed}])
        BY <1>8, <3>2 DEF NextPhase
      <4>2. [Rest EXCEPT !.pc = "done"].pc = "done"
        BY DEF Rest
      <4>3. [m EXCEPT !.pc = "rest",
               !.relays = {r \in Relays : relay[r].listed}].pc = "rest"
        BY <1>0 DEF Remover
      <4> QED  BY <1>8, <3>2, <4>1, <4>2, <4>3 DEF NextPhase
    <3>3. CASE m.pc \in {"rest", "drain"}
      <4>1. t # Revoker
        BY <3>3 DEF Gates
      <4>2. \/ Goes(t, [Rest EXCEPT !.pc = "drain"])
            \/ Goes(t, [Rest EXCEPT !.pc = "done"])
        BY <1>8, <3>3 DEF NextPhase
      <4>3. /\ [Rest EXCEPT !.pc = "drain"].pc = "drain"
            /\ [Rest EXCEPT !.pc = "done"].pc = "done"
        BY DEF Rest
      <4> QED  BY <1>8, <4>1, <4>2, <4>3 DEF NextPhase
    <3> QED  BY <1>8, <3>1, <3>2, <3>3 DEF NextPhase
  <2>2. t = Revoker => \A c \in Creds : Reads(c) => c \in m.todo
    BY <2>1 DEF Gates
  <2> QED  BY <1>2, <2>1, <2>2
<1> QED  BY <1>3, <1>4, <1>5, <1>6, <1>7, <1>8 DEF RemoverStep

LEMMA InitGate == Init => Gates
<1> SUFFICES ASSUME Init PROVE Gates
  OBVIOUS
<1>1. /\ reader.pc = "idle" /\ \A r \in Relays : handler[r].pc = "off"
      /\ \A r \in Relays : relay[r].owner = None
      /\ \A t \in Threads : remover[t].pc = "idle"
  BY DEF Init, Idle, NewRelay, Rest
<1>2. Revoker \in Threads
  BY DEF Threads
<1> QED  BY <1>1, <1>2 DEF Gates, Reads

LEMMA GateStep ==
  ASSUME TypeOK, Own, Own', Gates, [Next]_vars
  PROVE  Gates'
<1>1. CASE UNCHANGED vars
  BY <1>1 DEF vars, Gates, Reads
<1>2. CASE Elsewhere
  <2>1. ASSUME NEW k \in Creds,
               MintChecked(k) \/ mint(k) \/ TimerFires(k) \/ RenewLock(k)
        PROVE  Gates'
    BY <1>2, <2>1, CredGate
  <2>2. CASE Tick \/ RenewCheck \/ renewSession \/ Revoke \/ close
    BY <1>2, <2>2, PlainGate
  <2>3. ASSUME NEW t \in Threads, RemoverStep(t) PROVE Gates'
    BY <1>2, <2>3, RemoverGate
  <2> QED  BY <1>2, <2>1, <2>2, <2>3 DEF Elsewhere
<1> QED  BY <1>1, <1>2, NextCases, RequestGate, ReaderGate, RelayGate,
            LifetimeGate, HandlerGate

(* revokeSession returns when it has nothing left to do. *)
Returned == remover[Revoker].pc = "done" => remover[Revoker].todo = {}

LEMMA ReturnedStep ==
  ASSUME TypeOK, Returned, [Next]_vars
  PROVE  Returned'
<1>0. /\ remover \in [Threads -> Remover] /\ Revoker \in Threads
      /\ Closer # Revoker /\ Revoker \notin Creds
  BY ConstantsAssumption DEF TypeOK, Threads, Closer, Revoker
<1> DEFINE m == remover[Revoker]
<1>1. CASE remover'[Revoker] = m
  BY <1>1 DEF Returned
<1>2. CASE Revoke
  <2>1. remover'[Revoker] = [Rest EXCEPT !.pc = "begun"]
    BY <1>0, <1>2 DEF Revoke, Goes
  <2> QED  BY <2>1 DEF Returned, Rest
<1>3. ASSUME NEW t \in Threads, RemoverStep(t) PROVE Returned'
  <2>1. CASE t # Revoker
    <3>1. \E n : Goes(t, n)
      BY <1>3 DEF RemoverStep, quiesce, revoke, revokeCredential,
                  removeCredential, Close, NextPhase
    <3> QED  BY SMTT(60), <1>0, <1>1, <2>1, <3>1 DEF Goes
  <2>2. ASSUME NEW n, t = Revoker, Goes(t, n), n.pc # "done" \/ n.todo = {}
        PROVE  Returned'
    BY <1>0, <2>2 DEF Goes, Returned
  <2>3. CASE t = Revoker /\ (revoke(t) \/ quiesce(t))
    <3>1. [Rest EXCEPT !.pc = "gate", !.todo = managed].pc = "gate"
      BY DEF Rest
    <3> QED  BY <1>0, <2>2, <2>3, <3>1 DEF revoke, quiesce
  <2>4. CASE t = Revoker /\ revokeCredential(t)
    <3>1. PICK c \in m.todo :
            \/ Goes(t, [m EXCEPT !.pc = "remove", !.cred = c, !.todo = @ \ {c}])
            \/ Goes(t, Rest)
      BY <2>4 DEF revokeCredential
    <3>2. [m EXCEPT !.pc = "remove", !.cred = c, !.todo = @ \ {c}].pc = "remove"
      BY <1>0 DEF Remover
    <3> QED  BY <2>2, <2>4, <3>1, <3>2 DEF Rest
  <2>5. CASE t = Revoker /\ removeCredential(t)
    <3>1. Goes(t, [m EXCEPT !.pc = "close", !.cred = None,
                            !.relays = OwnedBy(m.cred)])
      BY <2>5 DEF removeCredential
    <3>2. [m EXCEPT !.pc = "close", !.cred = None,
                    !.relays = OwnedBy(m.cred)].pc = "close"
      BY <1>0 DEF Remover
    <3> QED  BY <2>2, <2>5, <3>1, <3>2
  <2>6. CASE t = Revoker /\ Close(t)
    <3>1. m.pc \in {"close", "rest"}
      BY <2>6 DEF Close
    <3>2. PICK n : Goes(t, n) /\ n.pc = m.pc
      <4>1. CASE m.at = NoRelay
        <5>1. PICK r \in m.relays :
                Goes(t, [m EXCEPT !.at = r, !.relays = @ \ {r}])
          BY <2>6, <4>1 DEF Close
        <5>2. [m EXCEPT !.at = r, !.relays = @ \ {r}].pc = m.pc
          BY <1>0 DEF Remover
        <5> QED  BY <5>1, <5>2
      <4>2. CASE m.at # NoRelay
        <5>1. Goes(t, [m EXCEPT !.at = NoRelay])
          BY <2>6, <4>2 DEF Close
        <5>2. [m EXCEPT !.at = NoRelay].pc = m.pc
          BY <1>0 DEF Remover
        <5> QED  BY <5>1, <5>2
      <4> QED  BY <4>1, <4>2
    <3> QED  BY <2>2, <2>6, <3>1, <3>2
  <2>7. CASE t = Revoker /\ NextPhase(t)
    <3>1. \/ Goes(t, [m EXCEPT !.pc = "gate"])
          \/ Goes(t, [Rest EXCEPT !.pc = "done"])
          \/ Goes(t, [Rest EXCEPT !.pc = "drain"])
      BY <1>0, <2>7 DEF NextPhase
    <3>2. /\ [m EXCEPT !.pc = "gate"].pc = "gate"
          /\ [Rest EXCEPT !.pc = "done"].todo = {}
          /\ [Rest EXCEPT !.pc = "drain"].todo = {}
      BY <1>0 DEF Remover, Rest
    <3> QED  BY <2>2, <2>7, <3>1, <3>2
  <2> QED  BY <1>3, <2>1, <2>3, <2>4, <2>5, <2>6, <2>7 DEF RemoverStep
<1>4. ASSUME NEW c \in Creds, TimerFires(c) PROVE remover'[Revoker] = m
  BY <1>0, <1>4 DEF TimerFires
<1>5. CASE close
  BY <1>0, <1>1, <1>5 DEF close, Goes
<1>6. CASE remover' = remover
  BY <1>1, <1>6
<1>7. \/ remover' = remover \/ Revoke \/ close
      \/ \E c \in Creds : TimerFires(c)
      \/ \E t \in Threads : RemoverStep(t)
  BY DEF Next, vars, Tick, renewSession, MintChecked, mint, RenewLock,
         RenewCheck, Request, RelayWriteTo, auth, ReaderStep, Deleted,
         AllocatePacketConn, allocationCreated, ReaderClosed, RelayWritten,
         RelayReported, Park, channelCreated, RelayStep, CloseLater, Drain,
         allocationDeleted, ReadFrom, HandlerStep, ListenerWriteTo,
         writePacket, Finish, ReadFails, LifetimeEnds
<1> QED  BY <1>1, <1>2, <1>3, <1>4, <1>5, <1>6, <1>7

-----------------------------------------------------------------------------
(* The theorems *)

IInv == TypeOK /\ Own /\ Gates /\ Returned

LEMMA Inductive == Spec => []IInv
<1>1. Init => IInv
  <2>1. Init => Returned
    <3>1. Revoker \in Threads
      BY DEF Threads
    <3> QED  BY <3>1 DEF Init, Returned, Rest
  <2> QED  BY <2>1, InitType, InitOwn, InitGate DEF IInv
<1>2. IInv /\ [Next]_vars => IInv'
  <2> SUFFICES ASSUME IInv, [Next]_vars PROVE IInv'
    OBVIOUS
  <2>1. TypeOK'
    BY TypeStep DEF IInv
  <2>2. Own'
    BY <2>1, OwnStep DEF IInv
  <2>3. Gates'
    BY <2>2, GateStep DEF IInv
  <2>4. Returned'
    BY ReturnedStep DEF IInv
  <2> QED  BY <2>1, <2>2, <2>3, <2>4 DEF IInv
<1> QED  BY <1>1, <1>2, PTL DEF Spec

(* Every variable of the relay manager has its type in every state. *)
THEOREM TypeCorrect == Spec => []TypeOK
<1>1. IInv => TypeOK
  BY DEF IInv
<1> QED  BY <1>1, Inductive, PTL

(* A datagram that came in on a relay goes through the gate, the check and *)
(* the bill of that relay's own allocation: the listener's lookup by the   *)
(* client's address cannot find a later one while the datagram is pinned.  *)
THEOREM DatagramsOwn == Spec => []OwnDatagram
<1>1. IInv => OwnDatagram
  BY DEF IInv, Own
<1> QED  BY <1>1, Inductive, PTL

(* A datagram is forwarded by the two writes only, each under the deadline *)
(* of the credential whose gate it reads.                                  *)
LEMMA ForwardSteps ==
  ASSUME TypeOK, Next, NEW c \in Creds, Forwards(c)
  PROVE  Reads(c) /\ now < cred[c].expires
<1>0. handler \in [Relays -> Handler]
  BY DEF TypeOK
<1>1. Reads(c)
  BY DEF Forwards, Reads
<1>2. CASE reader.pc # reader'.pc /\ reader.pc = "writing"
  <2>1. RelayWritten
    <3>1. reader' # reader
      BY SMTT(60), <1>2
    <3>2. ReaderStep
      BY ZenonT(60), <1>2, <3>1, NextCases, ElsewhereFrame
         DEF Request, RelayWriteTo, auth, channelCreated, RelayStep, CloseLater,
             Drain, allocationDeleted, ReadFrom, HandlerStep, ListenerWriteTo,
             writePacket, Finish, ReadFails, LifetimeEnds
    <3> QED  BY <1>2, <3>2 DEF ReaderStep, Deleted, AllocatePacketConn,
              allocationCreated, ReaderClosed, RelayReported, Park
  <2>2. handler' = handler
    BY <2>1 DEF RelayWritten
  <2> QED  BY <1>1, <2>1, <2>2 DEF RelayWritten, Forwards, Idle
<1>3. ASSUME NEW r \in Relays, handler[r].pc = "writing",
             handler'[r].pc = "sent", relay[handler[r].to].owner = c
      PROVE  now < cred[c].expires
  <2>1. handler' # handler
    BY <1>3
  <2>2. CASE ReaderStep
    <3>1. PICK q : \/ handler' = [handler EXCEPT ![q].pc = "reading"]
                   \/ handler' = [handler EXCEPT
                         ![q].pc = IF @ = "off" THEN "reading" ELSE @]
      BY <2>1, <2>2 DEF ReaderStep, Deleted, AllocatePacketConn,
           allocationCreated, ReaderClosed, RelayWritten, RelayReported, Park
    <3> QED  BY <1>0, <1>3, <3>1 DEF Handler
  <2>3. ASSUME NEW q \in Relays, ReadFrom(q) \/ HandlerStep(q)
        PROVE  now < cred[c].expires
    <3>1. PICK pc, to : At(q, pc, to)
      BY <2>3 DEF ReadFrom, HandlerStep, ListenerWriteTo, writePacket, Finish,
                  ReadFails, HandlerEnds, ReadAgain
    <3>2. q = r
      BY <1>0, <1>3, <3>1 DEF At
    <3>3. writePacket(r)
      BY <1>3, <2>3, <3>2 DEF ReadFrom, HandlerStep, ListenerWriteTo, Finish,
                              ReadFails
    <3>4. ~At(r, "reading", NoRelay)
      BY <1>0, <1>3 DEF At
    <3> QED  BY <1>3, <3>3, <3>4 DEF writePacket, ReadAgain
  <2> QED  BY ZenonT(60), <2>1, <2>2, <2>3, NextCases, ElsewhereFrame
         DEF Request, RelayWriteTo, auth, channelCreated, RelayStep, CloseLater,
             Drain, allocationDeleted, LifetimeEnds
<1> QED  BY <1>1, <1>2, <1>3 DEF Forwards

(* No datagram is forwarded for a credential that was revoked or has       *)
(* expired, nor for any once revokeSession has returned: who reads a gate  *)
(* was let in before the revocation, which waits for it.                   *)
THEOREM NothingLate == Spec => NoLateForward
<1>1. IInv /\ [Next]_vars =>
        [\A c \in Creds : Forwards(c) =>
          /\ ~cred[c].revoked /\ now < cred[c].expires
          /\ remover[Revoker].pc # "done"]_vars
  <2> SUFFICES ASSUME IInv, Next, NEW c \in Creds, Forwards(c)
               PROVE  /\ ~cred[c].revoked /\ now < cred[c].expires
                      /\ remover[Revoker].pc # "done"
    OBVIOUS
  <2>1. Reads(c) /\ now < cred[c].expires
    BY ForwardSteps DEF IInv
  <2> QED  BY <2>1 DEF IInv, Gates, Returned
<1> QED  BY <1>1, Inductive, PTL DEF Spec, NoLateForward

-----------------------------------------------------------------------------
(* What the steps do to relays, credentials and the reader *)

(* A relay whose socket was closed is marked. *)
Marked(rl) == \A q \in Relays : rl[q].once # "no" => rl[q].closing

(* What every step but the creation of an allocation leaves alone. *)
Kept(f, g) ==
    \A q \in Relays :
      /\ f[q].owner = g[q].owner /\ f[q].client = g[q].client
      /\ g[q].closing => f[q].closing
      /\ g[q].listed => f[q].listed \/ f[q].closing
      /\ f[q].once # "no" => f[q].closing

LEMMA BeginCloseKept ==
  ASSUME NEW rl \in [Relays -> Relay], Marked(rl), NEW r
  PROVE  Kept(BeginClose(rl, r), rl)
<1> DEFINE o(q) == IF rl[q].once = "no" THEN "draining" ELSE rl[q].once
           f == [q \in Relays |->
                   IF q = r THEN [rl[q] EXCEPT !.closing = TRUE, !.once = o(q)]
                   ELSE rl[q]]
<1>1. BeginClose(rl, r) = f
  BY DEF BeginClose
<1> HIDE DEF o
<1>2. Kept(f, rl)
  BY DEF Kept, Marked, Relay
<1> QED  BY <1>1, <1>2

LEMMA DeleteKept ==
  ASSUME TypeOK, Marked(relay), NEW a, DeleteAllocation(a)
  PROVE  Kept(relay', relay)
<1> DEFINE b == BeginClose(relay, table[a])
<1>0. relay \in [Relays -> Relay]
  BY DEF TypeOK
<1>1. b \in [Relays -> Relay] /\ Kept(b, relay)
  BY <1>0, BeginCloseType, BeginCloseKept
<1>2. relay' = relay \/ relay' = [b EXCEPT ![table[a]].deleting = TRUE]
  BY DEF DeleteAllocation
<1> HIDE DEF b
<1>3. CASE relay' = relay
  BY <1>3 DEF Kept, Marked
<1>4. CASE relay' = [b EXCEPT ![table[a]].deleting = TRUE]
  BY <1>1, <1>4 DEF Kept, Relay
<1> QED  BY <1>2, <1>3, <1>4

LEMMA RelaysKept ==
  ASSUME TypeOK, Own, Marked(relay), Next, ~allocationCreated
  PROVE  Kept(relay', relay)
<1>0. relay \in [Relays -> Relay]
  BY DEF TypeOK
<1>1. CASE relay' = relay
  BY <1>1 DEF Kept, Marked
<1>2. ASSUME NEW r, relay' = BeginClose(relay, r) PROVE Kept(relay', relay)
  BY <1>0, <1>2, BeginCloseKept
<1>3. ASSUME NEW r \in Relays, channelCreated(r) \/ RelayStep(r)
      PROVE  Kept(relay', relay)
  <2>1. CASE channelCreated(r)
    BY <1>0, <2>1 DEF channelCreated, Kept, Marked, Relay
  <2>2. CASE CloseLater(r)
    BY <1>2, <2>2 DEF CloseLater
  <2>3. CASE Drain(r)
    <3>1. /\ relay' = [relay EXCEPT ![r].once = "done", ![r].listed = FALSE]
          /\ relay[r].closing
      BY <2>3 DEF Drain, Marked
    <3> DEFINE x == [relay[r] EXCEPT !.once = "done", !.listed = FALSE]
    <3>2. /\ x.owner = relay[r].owner /\ x.client = relay[r].client
          /\ x.closing = relay[r].closing
      BY <1>0 DEF Relay
    <3>3. relay' = [relay EXCEPT ![r] = x]
      BY <1>0, <3>1
    <3> HIDE DEF x
    <3> QED  BY <1>0, <3>1, <3>2, <3>3 DEF Kept, Marked
  <2>4. CASE allocationDeleted(r)
    BY <1>0, <2>4 DEF allocationDeleted, Kept, Marked, Relay
  <2> QED  BY <1>3, <2>1, <2>2, <2>3, <2>4 DEF RelayStep
<1>4. ASSUME NEW r \in Relays, ReadAgain(r) PROVE Kept(relay', relay)
  BY <1>4, AgainFacts DEF Own, Kept, Marked
<1>5. ASSUME NEW r \in Relays, ReadFrom(r) PROVE Kept(relay', relay)
  <2>1. CASE relay' = [relay EXCEPT ![r].pinned = TRUE]
    BY <1>0, <2>1 DEF Kept, Marked, Relay
  <2> QED  BY <1>2, <1>5, <2>1, DeleteKept DEF ReadFrom, HandlerEnds
<1>6. ASSUME NEW r \in Relays, ListenerWriteTo(r) PROVE Kept(relay', relay)
  <2>1. CASE relay' = Refused(clients[relay[r].client])
    <3>1. clients[relay[r].client] = r
      BY <1>6, FoundOwn DEF ListenerWriteTo
    <3> DEFINE f == finishIncoming(relay, r)
    <3>2. f \in [Relays -> Relay] /\ f = [relay EXCEPT ![r].pinned = FALSE]
      BY <1>0, FinishType DEF finishIncoming
    <3>3. relay' = BeginClose(f, r)
      BY <2>1, <3>1 DEF Refused
    <3> HIDE DEF f
    <3>4. Kept(f, relay) /\ Marked(f)
      BY <1>0, <3>2 DEF Kept, Marked, Relay
    <3>5. Kept(relay', f)
      BY <3>2, <3>3, <3>4, BeginCloseKept
    <3> QED  BY <3>4, <3>5 DEF Kept
  <2> QED  BY <1>1, <1>4, <1>6, <2>1 DEF ListenerWriteTo
<1>7. ASSUME NEW r \in Relays, HandlerStep(r) PROVE Kept(relay', relay)
  <2>1. CASE writePacket(r) \/ Finish(r)
    BY <1>1, <1>4, <2>1 DEF writePacket, Finish
  <2>2. CASE ReadFails(r)
    BY <2>2, DeleteKept DEF ReadFails, HandlerEnds
  <2> QED  BY <1>6, <1>7, <2>1, <2>2 DEF HandlerStep
<1>8. CASE Request
  <2>1. ASSUME NEW a \in Clients, RelayWriteTo(a) PROVE Kept(relay', relay)
    BY <1>1, <1>2, <2>1 DEF RelayWriteTo
  <2>2. ASSUME NEW a \in Clients, NEW c \in Creds, auth(c, a)
        PROVE  Kept(relay', relay)
    BY <1>1, <2>2, DeleteKept DEF auth
  <2> QED  BY <1>8, <2>1, <2>2 DEF Request
<1>9. CASE ReaderStep
  <2>1. ASSUME NEW r \in Relays,
               relay' = [relay EXCEPT ![r].used = TRUE, ![r].listed = TRUE]
        PROVE  Kept(relay', relay)
    BY <1>0, <2>1 DEF Kept, Marked, Relay
  <2>2. CASE AllocatePacketConn
    BY <1>1, <2>1, <2>2 DEF AllocatePacketConn
  <2> QED  BY <1>1, <1>9, <2>2 DEF ReaderStep, Deleted, ReaderClosed,
                RelayWritten, RelayReported, Park
<1>10. ASSUME NEW a \in Clients, LifetimeEnds(a) PROVE Kept(relay', relay)
  BY <1>10, DeleteKept DEF LifetimeEnds
<1>11. CASE Elsewhere
  <2>1. ASSUME NEW t \in Threads, Close(t) PROVE Kept(relay', relay)
    BY ZenonT(60), <1>1, <1>2, <2>1 DEF Close
  <2>2. \/ relay' = relay \/ \E t \in Threads : Close(t)
    BY <1>11 DEF Elsewhere, MintChecked, mint, TimerFires, RenewLock, Tick,
         RenewCheck, renewSession, Revoke, close, RemoverStep, quiesce, revoke,
         revokeCredential, removeCredential, NextPhase
  <2> QED  BY <1>1, <2>1, <2>2
<1> QED  BY <1>3, <1>5, <1>7, <1>8, <1>9, <1>10, <1>11, NextCases

(* Only mint and removeCredential change which credentials are managed. *)
LEMMA ManagedKept ==
  ASSUME TypeOK, Next, \A c \in Creds : ~mint(c),
         \A t \in Threads : ~removeCredential(t)
  PROVE  /\ managed' = managed
         /\ \A c \in Creds : cred[c].state \in {"managed", "removed"} =>
              cred'[c].state = cred[c].state
<1>0. cred \in [Creds -> Credential]
  BY DEF TypeOK
<1>1. ASSUME \A c \in Creds : \/ cred'[c].state = cred[c].state
                              \/ /\ cred[c].state = "new"
                                 /\ cred'[c].state = "checked"
      PROVE  /\ managed' = managed
             /\ \A c \in Creds : cred[c].state \in {"managed", "removed"} =>
                  cred'[c].state = cred[c].state
  BY <1>1 DEF managed
<1>2. ASSUME NEW c \in Creds, MintChecked(c)
      PROVE  \A d \in Creds : \/ cred'[d].state = cred[d].state
                              \/ /\ cred[d].state = "new"
                                 /\ cred'[d].state = "checked"
  BY <1>0, <1>2 DEF MintChecked, Credential
<1>3. ASSUME NEW c \in Creds, TimerFires(c)
      PROVE  \A d \in Creds : cred'[d].state = cred[d].state
  BY <1>0, <1>3 DEF TimerFires, Credential
<1>4. ASSUME renewSession PROVE \A d \in Creds : cred'[d].state = cred[d].state
  BY <1>0, <1>4 DEF renewSession, Extended, Credential
<1>5. ASSUME NEW t \in Threads, revokeCredential(t)
      PROVE  \A d \in Creds : cred'[d].state = cred[d].state
  <2>1. PICK c : cred' = [cred EXCEPT ![c].revoked = TRUE] \/ cred' = cred
    BY SMTT(60), <1>5 DEF revokeCredential
  <2> QED  BY <1>0, <2>1 DEF Credential
<1>6. \/ cred' = cred \/ renewSession
      \/ \E c \in Creds : MintChecked(c) \/ TimerFires(c)
      \/ \E t \in Threads : revokeCredential(t)
  BY DEF Next, Tick, RenewLock,
         RenewCheck, Request, RelayWriteTo, auth, ReaderStep, Deleted,
         AllocatePacketConn, allocationCreated, ReaderClosed, RelayWritten,
         RelayReported, Park, channelCreated, RelayStep, CloseLater, Drain,
         allocationDeleted, ReadFrom, HandlerStep, ListenerWriteTo,
         writePacket, Finish, ReadFails, LifetimeEnds, Revoke, close,
         RemoverStep, quiesce, revoke, Close, NextPhase
<1> QED  BY <1>1, <1>2, <1>3, <1>4, <1>5, <1>6

(* A reader that creates a relay for a credential asked it before. *)
LEMMA ReaderKept ==
  ASSUME TypeOK, Next, reader'.pc \in {"quota", "created"}
  PROVE  \/ reader' = reader
         \/ \E a \in Clients, c \in Creds :
              auth(c, a) /\ reader'.user = c /\ reader'.pc = "quota"
         \/ /\ AllocatePacketConn /\ reader.pc = "quota"
            /\ reader'.user = reader.user /\ reader'.pc = "created"
<1>1. ASSUME NEW a \in Clients, NEW c \in Creds, auth(c, a)
      PROVE  reader'.user = c /\ reader'.pc = "quota"
  BY <1>1 DEF auth, Idle
<1>2. CASE AllocatePacketConn
  <2>1. reader.pc = "quota" /\ reader \in Reader
    BY <1>2 DEF AllocatePacketConn, TypeOK
  <2>2. PICK r : reader' = Idle \/ reader' = [reader EXCEPT !.pc = "created",
                                                           !.relay = r]
    BY <1>2 DEF AllocatePacketConn
  <2>3. /\ [reader EXCEPT !.pc = "created", !.relay = r].pc = "created"
        /\ [reader EXCEPT !.pc = "created", !.relay = r].user = reader.user
    BY <2>1 DEF Reader
  <2>4. reader' # Idle
    BY DEF Idle
  <2>5. reader'.pc = "created" /\ reader'.user = reader.user
    BY <2>2, <2>3, <2>4
  <2> QED  BY <1>2, <2>1, <2>5
<1>3. CASE ReaderStep /\ ~AllocatePacketConn
  <2>1. reader' = Idle \/ reader'.pc \in {"closing", "sent", "parked"}
    BY <1>3 DEF ReaderStep, Deleted, allocationCreated,
         ReaderClosed, RelayWritten, RelayReported, Park, Idle, TypeOK, Reader
  <2> QED  BY <2>1 DEF Idle
<1>4. ASSUME NEW a \in Clients, RelayWriteTo(a) PROVE FALSE
  BY <1>4 DEF RelayWriteTo, Idle
<1>5. \/ reader' = reader \/ ReaderStep
      \/ \E a \in Clients : RelayWriteTo(a) \/ \E c \in Creds : auth(c, a)
  BY NextCases, ElsewhereFrame
     DEF Request, channelCreated, RelayStep, CloseLater, Drain,
         allocationDeleted, ReadFrom, HandlerStep, ListenerWriteTo,
         writePacket, Finish, ReadFails, LifetimeEnds
<1> QED  BY <1>1, <1>2, <1>3, <1>4, <1>5
-----------------------------------------------------------------------------
(* Counters *)

(* The addresses whose relay counts for its tenant. *)
Counted == {a \in Clients : /\ clients[a] # NoRelay
                            /\ relay[clients[a]].owner # None}

(* The counters are exact, and a relay that is being created fits in. *)
Counts ==
    /\ IsFiniteSet(Counted)
    /\ tenant.credentials = Cardinality(managed)
    /\ tenant.allocations = Cardinality(Counted)
    /\ tenant.allocations <= MaxAllocationsPerTenant
    /\ tenant.some = (managed # {} \/ Counted # {})
    /\ reader.pc = "created" => tenant.allocations < MaxAllocationsPerTenant

LEMMA CountFacts ==
  ASSUME TypeOK, Counts
  PROVE  /\ IsFiniteSet(managed) /\ tenant \in Tenants
         /\ Cardinality(managed) \in Nat /\ Cardinality(Counted) \in Nat
         /\ managed = {} <=> Cardinality(managed) = 0
         /\ Counted = {} <=> Cardinality(Counted) = 0
         /\ MaxAllocationsPerTenant \in Nat
<1>1. IsFiniteSet(managed)
  BY ConstantsAssumption, FS_Subset DEF managed
<1>2. IsFiniteSet(Counted)
  BY DEF Counts
<1> QED  BY <1>1, <1>2, FS_CardinalityType, FS_EmptySet, ConstantsAssumption
            DEF TypeOK, Tenants

LEMMA CountedKept ==
  ASSUME TypeOK, Own, clients' = clients, Kept(relay', relay)
  PROVE  Counted' = Counted
<1>1. \A a \in Clients : clients[a] # NoRelay => clients[a] \in Relays
  BY DEF TypeOK
<1> QED  BY <1>1 DEF Counted, Kept

LEMMA CountsFrame ==
  ASSUME Counts, tenant' = tenant, managed' = managed, Counted' = Counted,
         \/ reader'.pc # "created"
         \/ reader.pc = "created"
         \/ tenant.allocations < MaxAllocationsPerTenant
  PROVE  Counts'
BY DEF Counts

LEMMA CleanIs ==
  ASSUME NEW t \in Tenants
  PROVE  /\ cleanTenant(t).credentials = t.credentials
         /\ cleanTenant(t).allocations = t.allocations
         /\ cleanTenant(t).some = (t.credentials # 0 \/ t.allocations # 0)
<1> DEFINE b == t.credentials # 0 \/ t.allocations # 0
<1>1. cleanTenant(t) = [t EXCEPT !.some = b]
  BY DEF cleanTenant
<1> HIDE DEF b
<1>2. /\ [t EXCEPT !.some = b].credentials = t.credentials
      /\ [t EXCEPT !.some = b].allocations = t.allocations
      /\ [t EXCEPT !.some = b].some = b
  BY DEF Tenants
<1> QED  BY <1>1, <1>2 DEF b

LEMMA MintCounts ==
  ASSUME TypeOK, Own, Counts, NEW c \in Creds, mint(c)
  PROVE  Counts'
<1>0. cred \in [Creds -> Credential] /\ cred[c].state = "checked"
  BY DEF TypeOK, mint
<1>1. UNCHANGED <<relay, clients, reader>>
  BY DEF mint
<1>2. Counted' = Counted
  BY <1>1 DEF Counted
<1>3. CASE cred' = [cred EXCEPT ![c].state = "removed"] /\ tenant' = tenant
  <2>1. managed' = managed
    BY <1>0, <1>3 DEF managed, Credential
  <2> QED  BY <1>1, <1>2, <1>3, <2>1, CountsFrame
<1>4. CASE /\ cred' = [cred EXCEPT ![c].state = "managed", ![c].armed = TRUE]
           /\ tenant' = [tenant EXCEPT !.some = TRUE, !.credentials = @ + 1]
  <2>1. managed' = managed \cup {c} /\ c \notin managed
    <3> DEFINE x == [cred[c] EXCEPT !.state = "managed", !.armed = TRUE]
    <3>1. x.state = "managed"
      BY <1>0 DEF Credential
    <3>2. cred' = [cred EXCEPT ![c] = x]
      BY <1>0, <1>4
    <3> HIDE DEF x
    <3> QED  BY <1>0, <3>1, <3>2 DEF managed
  <2>2. Cardinality(managed') = Cardinality(managed) + 1
    BY <2>1, CountFacts, FS_AddElement
  <2> DEFINE n == tenant.credentials + 1
  <2>3. n = Cardinality(managed) + 1
    BY DEF Counts
  <2>4. tenant' = [tenant EXCEPT !.some = TRUE, !.credentials = n]
    BY <1>4
  <2> HIDE DEF n
  <2>5. /\ tenant'.credentials = n /\ tenant'.some
        /\ tenant'.allocations = tenant.allocations
    BY <2>4, CountFacts DEF Tenants
  <2>6. tenant'.some = TRUE
    BY <2>4, CountFacts DEF Tenants
  <2>7. managed' # {}
    BY <2>1
  <2> QED  BY <1>1, <1>2, <2>2, <2>3, <2>5, <2>6, <2>7 DEF Counts
<1> QED  BY <1>3, <1>4 DEF mint

LEMMA RemoveCounts ==
  ASSUME TypeOK, Own, Counts, NEW t \in Threads, removeCredential(t)
  PROVE  Counts'
<1> DEFINE c == remover[t].cred
<1>0. cred \in [Creds -> Credential]
  BY DEF TypeOK
<1>1. UNCHANGED <<relay, clients, reader>>
  BY DEF removeCredential
<1>2. Counted' = Counted
  BY <1>1 DEF Counted
<1>3. CASE c \notin managed
  <2>1. cred' = cred /\ tenant' = tenant
    BY <1>3 DEF removeCredential
  <2>2. managed' = managed
    BY <2>1 DEF managed
  <2> QED  BY <1>1, <1>2, <2>1, <2>2, CountsFrame
<1>4. CASE c \in managed
  <2>1. /\ cred' = [cred EXCEPT ![c].state = "removed", ![c].armed = FALSE]
        /\ tenant' = cleanTenant([tenant EXCEPT !.credentials = @ - 1])
    BY <1>4 DEF removeCredential
  <2> HIDE DEF c
  <2>2. managed' = managed \ {c}
    <3> DEFINE x == [cred[c] EXCEPT !.state = "removed", !.armed = FALSE]
    <3>1. x.state = "removed" /\ c \in Creds
      BY <1>0, <1>4 DEF Credential, managed
    <3>2. cred' = [cred EXCEPT ![c] = x]
      BY <1>0, <2>1
    <3> HIDE DEF x
    <3> QED  BY <1>0, <3>1, <3>2 DEF managed
  <2>3. Cardinality(managed') = Cardinality(managed) - 1
    BY <1>4, <2>2, CountFacts, FS_RemoveElement
  <2>4. managed' = {} <=> Cardinality(managed') = 0
    BY <2>2, CountFacts, FS_RemoveElement, FS_EmptySet
  <2> DEFINE n == tenant.credentials - 1
             u == [tenant EXCEPT !.credentials = n]
  <2>5. n = Cardinality(managed') /\ n \in Int
    BY <2>3, CountFacts DEF Counts
  <2>6. tenant' = cleanTenant(u)
    BY <2>1
  <2> HIDE DEF n
  <2>7. /\ u \in Tenants /\ u.credentials = n
        /\ u.allocations = tenant.allocations
    BY <2>5, CountFacts DEF Tenants
  <2> HIDE DEF u
  <2>8. /\ tenant'.credentials = n /\ tenant'.allocations = tenant.allocations
        /\ tenant'.some = (n # 0 \/ tenant.allocations # 0)
    BY <2>6, <2>7, CleanIs
  <2>9. (n # 0 \/ tenant.allocations # 0) = (managed' # {} \/ Counted # {})
    BY <2>4, <2>5, CountFacts DEF Counts
  <2> QED  BY <1>1, <1>2, <2>5, <2>8, <2>9 DEF Counts
<1> QED  BY <1>3, <1>4

LEMMA CreatedCounts ==
  ASSUME TypeOK, Own, Counts, allocationCreated
  PROVE  Counts'
<1> DEFINE r == reader.relay
           a == reader.client
           c == IF reader.user \in managed THEN reader.user ELSE None
<1>1. /\ r \in Relays /\ a \in Clients /\ clients[a] = NoRelay
      /\ relay[r].client = None
      /\ \A q \in Relays : q # r => relay'[q] = relay[q]
      /\ relay'[r].owner = c
      /\ clients' = [clients EXCEPT ![a] = r]
      /\ reader'.pc \in {"idle", "closing"}
  BY CreatedFacts
<1>2. /\ tenant' = [tenant EXCEPT !.allocations = IF c = None THEN @ ELSE @ + 1]
      /\ cred' = cred /\ reader.pc = "created"
  BY DEF allocationCreated
<1>3. c # None => managed # {}
  OBVIOUS
<1> HIDE DEF c, r, a
<1>4. managed' = managed
  BY <1>2 DEF managed
<1>5. /\ clients \in [Clients -> Relays \cup {NoRelay}] /\ r # NoRelay
      /\ \A x \in Clients : clients[x] # NoRelay => clients[x] # r
  <2>1. NoRelay \notin Relays
    BY DEF NoRelay, Relays
  <2>2. \A x \in Clients : x # None
    BY ConstantsAssumption
  <2> QED  BY <1>1, <2>1, <2>2 DEF TypeOK, Own, Mapped
<1>6. \A x \in Clients : x # a => (x \in Counted' <=> x \in Counted)
  <2> SUFFICES ASSUME NEW x \in Clients, x # a
               PROVE  x \in Counted' <=> x \in Counted
    OBVIOUS
  <2>1. clients'[x] = clients[x]
    BY <1>1, <1>5
  <2>2. clients[x] # NoRelay => relay'[clients[x]] = relay[clients[x]]
    BY <1>1, <1>5
  <2> QED  BY <2>1, <2>2 DEF Counted
<1>7. a \notin Counted /\ (a \in Counted' <=> c # None)
  <2>1. clients'[a] = r
    BY <1>1, <1>5
  <2> QED  BY <1>1, <1>5, <2>1 DEF Counted
<1>8. Counted \subseteq Clients /\ Counted' \subseteq Clients
  BY DEF Counted
<1>9. CASE c = None
  <2>1. Counted' = Counted
    BY <1>6, <1>7, <1>8, <1>9
  <2>2. tenant' = tenant
    BY <1>2, <1>9, CountFacts DEF Tenants
  <2> QED  BY <1>1, <1>4, <2>1, <2>2, CountsFrame
<1>10. CASE c # None
  <2>1. Counted' = Counted \cup {a}
    BY <1>1, <1>6, <1>7, <1>8, <1>10
  <2>2. IsFiniteSet(Counted') /\ Cardinality(Counted') = Cardinality(Counted) + 1
    BY <1>7, <2>1, FS_AddElement DEF Counts
  <2> DEFINE n == tenant.allocations + 1
  <2>3. n = Cardinality(Counted') /\ n <= MaxAllocationsPerTenant
    BY <1>2, <2>2, CountFacts DEF Counts
  <2>4. tenant' = [tenant EXCEPT !.allocations = n]
    BY <1>2, <1>10
  <2> HIDE DEF n
  <2>5. /\ tenant'.allocations = n /\ tenant'.credentials = tenant.credentials
        /\ tenant'.some = tenant.some
    BY <2>4, CountFacts DEF Tenants
  <2>6. tenant.some = (managed' # {} \/ Counted' # {})
    BY <1>3, <1>4, <1>10, <2>1 DEF Counts
  <2>7. reader'.pc # "created"
    BY <1>1
  <2> QED  BY <1>4, <2>2, <2>3, <2>5, <2>6, <2>7 DEF Counts
<1> QED  BY <1>9, <1>10

LEMMA DeletedCounts ==
  ASSUME TypeOK, Own, Counts, NEW d \in Relays, allocationDeleted(d)
  PROVE  Counts'
<1> DEFINE a == relay[d].client
           c == relay[d].owner
<1>0. relay \in [Relays -> Relay]
      /\ clients \in [Clients -> Relays \cup {NoRelay}] /\ NoRelay \notin Relays
  BY DEF TypeOK, NoRelay, Relays
<1>1. relay[d].deleting
  BY DEF allocationDeleted
<1>2. a \in Clients /\ clients[a] = d
  BY <1>0, <1>1 DEF Own, Mapped, Relay
<1>3. /\ relay' = [relay EXCEPT ![d].deleting = FALSE]
      /\ cred' = cred /\ reader' = reader
      /\ \/ clients' = clients /\ tenant' = tenant
         \/ /\ clients' = [clients EXCEPT ![a] = NoRelay]
            /\ tenant' = Released(tenant, c)
  BY <1>2 DEF allocationDeleted
<1> HIDE DEF a, c
<1>4. \A q \in Relays : relay'[q].owner = relay[q].owner
  BY <1>0, <1>3 DEF Relay
<1>5. managed' = managed
  BY <1>3 DEF managed
<1>6. CASE clients' = clients /\ tenant' = tenant
  <2>1. Counted' = Counted
    BY <1>0, <1>4, <1>6 DEF Counted
  <2> QED  BY <1>3, <1>5, <1>6, <2>1, CountsFrame
<1>7. CASE /\ clients' = [clients EXCEPT ![a] = NoRelay]
           /\ tenant' = Released(tenant, c)
  <2>1. Counted' = Counted \ {a}
    <3>1. clients'[a] = NoRelay
          /\ \A x \in Clients : x # a => clients'[x] = clients[x]
      BY <1>0, <1>2, <1>7
    <3> QED  BY <1>0, <1>4, <3>1 DEF Counted
  <2>2. a \in Counted <=> c # None
    BY <1>0, <1>2 DEF Counted, c
  <2>3. CASE c = None
    <3>1. Counted' = Counted /\ tenant' = tenant
      BY <1>7, <2>1, <2>2, <2>3 DEF Released
    <3> QED  BY <1>3, <1>5, <3>1, CountsFrame
  <2>4. CASE c # None
    <3>1. tenant.some
      BY <2>2, <2>4 DEF Counts
    <3>2. tenant' = cleanTenant([tenant EXCEPT !.allocations = @ - 1])
      BY <1>7, <2>4, <3>1 DEF Released
    <3>3. IsFiniteSet(Counted')
          /\ Cardinality(Counted') = Cardinality(Counted) - 1
      BY <2>1, <2>2, <2>4, FS_RemoveElement DEF Counts
    <3>4. Counted' = {} <=> Cardinality(Counted') = 0
      BY <3>3, FS_EmptySet
    <3> DEFINE n == tenant.allocations - 1
               u == [tenant EXCEPT !.allocations = n]
    <3>5. /\ n = Cardinality(Counted') /\ n \in Int
          /\ n < MaxAllocationsPerTenant
      BY <3>3, CountFacts DEF Counts
    <3>6. tenant' = cleanTenant(u)
      BY <3>2
    <3> HIDE DEF n
    <3>7. /\ u \in Tenants /\ u.allocations = n
          /\ u.credentials = tenant.credentials
      BY <3>5, CountFacts DEF Tenants
    <3> HIDE DEF u
    <3>8. /\ tenant'.allocations = n /\ tenant'.credentials = tenant.credentials
          /\ tenant'.some = (tenant.credentials # 0 \/ n # 0)
      BY <3>6, <3>7, CleanIs
    <3>9. (tenant.credentials # 0 \/ n # 0) = (managed # {} \/ Counted' # {})
      BY <3>4, <3>5, CountFacts DEF Counts
    <3>10. n <= MaxAllocationsPerTenant
      BY <3>5, ConstantsAssumption
    <3> QED  BY <1>5, <3>3, <3>5, <3>8, <3>9, <3>10 DEF Counts
  <2> QED  BY <2>3, <2>4
<1> QED  BY <1>3, <1>6, <1>7

LEMMA CountsStep ==
  ASSUME TypeOK, Own, Marked(relay), Counts, [Next]_vars
  PROVE  Counts'
<1>1. CASE UNCHANGED vars
  BY <1>1 DEF vars, Counts, Counted, managed
<1>2. CASE \/ (\E c \in Creds : mint(c))
           \/ (\E t \in Threads : removeCredential(t))
           \/ allocationCreated
           \/ (\E r \in Relays : allocationDeleted(r))
  BY <1>2, MintCounts, RemoveCounts, CreatedCounts, DeletedCounts
<1>3. CASE /\ Next /\ ~allocationCreated
           /\ \A c \in Creds : ~mint(c)
           /\ \A t \in Threads : ~removeCredential(t)
           /\ \A r \in Relays : ~allocationDeleted(r)
  <2>1. tenant' = tenant /\ clients' = clients
    BY <1>3 DEF Next, Tick, renewSession, TimerFires, MintChecked, RenewLock,
         RenewCheck, Request, RelayWriteTo, auth, ReaderStep, Deleted,
         AllocatePacketConn, ReaderClosed, RelayWritten,
         RelayReported, Park, channelCreated, RelayStep, CloseLater, Drain,
         ReadFrom, HandlerStep, ListenerWriteTo,
         writePacket, Finish, ReadFails, LifetimeEnds, Revoke, close,
         RemoverStep, quiesce, revoke, revokeCredential, Close, NextPhase
  <2>2. managed' = managed
    BY <1>3, ManagedKept
  <2>3. Counted' = Counted
    BY <1>3, <2>1, RelaysKept, CountedKept
  <2>4. \/ reader'.pc # "created" \/ reader.pc = "created"
        \/ tenant.allocations < MaxAllocationsPerTenant
    <3>1. CASE AllocatePacketConn
      <4>1. reader' = Idle \/ quota
        BY <3>1 DEF AllocatePacketConn
      <4>2. reader' = Idle => reader'.pc # "created"
        BY DEF Idle
      <4>3. quota => tenant.allocations < MaxAllocationsPerTenant
        BY DEF quota
      <4> QED  BY <4>1, <4>2, <4>3
    <3> QED  BY <1>3, <3>1, ReaderKept
  <2> QED  BY SMTT(60), <2>1, <2>2, <2>3, <2>4, CountsFrame
<1> QED  BY <1>1, <1>2, <1>3
-----------------------------------------------------------------------------
(* Revocation and the relays it closes *)

(* A relay an allocation was reported for and nobody has begun to close. *)
Open(r) == relay[r].client # None /\ ~relay[r].closing

(* A credential a relay has, or is about to have, as its owner. *)
Serves(r, c) == relay[r].owner = c
Creating(c) == reader.pc \in {"quota", "created"} /\ reader.user = c
Served(c) == (\E r \in Relays : Serves(r, c)) \/ Creating(c)

(* A remover has relays to close only while it closes, and a credential to *)
(* remove only before.                                                     *)
Neat(m) ==
    /\ m.relays # {} => m.pc \in {"close", "rest"}
    /\ m.pc # "remove" => m.cred = None
Tidy == \A t \in Threads : Neat(remover[t])

(* An open relay has an owner that is managed, or is on the list of the    *)
(* thread that removed its owner.                                          *)
Watched ==
    /\ \A r \in Relays : Open(r) =>
         /\ relay[r].listed /\ relay[r].owner # None
         /\ \/ relay[r].owner \in managed
            \/ \E t \in Threads : r \in remover[t].relays
    /\ reader.pc = "created" =>
         relay[reader.relay].listed \/ relay[reader.relay].closing

(* Credentials that have relays were minted; once revokeSession has taken  *)
(* its snapshot, they are on its list or gone.                             *)
Minted == \A c \in Creds : Served(c) => cred[c].state \in {"managed", "removed"}
Awaits(m) == \A c \in managed : Served(c) => c \in m.todo \/ c = m.cred
Listing ==
    remover[Revoker].pc \notin {"idle", "begun"} => Awaits(remover[Revoker])

Closes == Marked(relay) /\ Tidy /\ Watched /\ Minted /\ Listing

(* A step of a thread that removes credentials takes a relay off its list  *)
(* only to close it.                                                       *)
Moves(t, n) ==
    /\ remover' = [remover EXCEPT ![t] = n]
    /\ Neat(n)
    /\ \A r \in remover[t].relays : r \in n.relays \/ relay'[r].closing

LEMMA RestIs ==
  /\ Rest.relays = {} /\ Rest.cred = None /\ Rest.todo = {} /\ Rest.at = NoRelay
  /\ \A x : /\ [Rest EXCEPT !.pc = x].pc = x
            /\ [Rest EXCEPT !.pc = x].relays = {}
            /\ [Rest EXCEPT !.pc = x].cred = None
            /\ [Rest EXCEPT !.pc = x].todo = {}
  /\ \A x, y : /\ [Rest EXCEPT !.pc = x, !.todo = y].pc = x
               /\ [Rest EXCEPT !.pc = x, !.todo = y].relays = {}
               /\ [Rest EXCEPT !.pc = x, !.todo = y].cred = None
               /\ [Rest EXCEPT !.pc = x, !.todo = y].todo = y
BY DEF Rest

LEMMA NeatRest ==
  /\ Neat(Rest)
  /\ \A x : Neat([Rest EXCEPT !.pc = x])
  /\ \A x, y : Neat([Rest EXCEPT !.pc = x, !.todo = y])
BY RestIs DEF Neat

LEMMA RemoverMoves ==
  ASSUME TypeOK, Tidy, Next
  PROVE  remover' = remover \/ \E t \in Threads : \E n : Moves(t, n)
<1>0. /\ remover \in [Threads -> Remover] /\ relay \in [Relays -> Relay]
      /\ Revoker \in Threads /\ Closer \in Threads /\ Creds \subseteq Threads
  BY DEF TypeOK, Threads
<1>1. ASSUME NEW t \in Threads, NEW n, Goes(t, n), Neat(n),
             remover[t].pc \notin {"close", "rest"}
      PROVE  Moves(t, n)
  BY <1>1 DEF Moves, Goes, Tidy, Neat
<1>2. ASSUME NEW c \in Creds, TimerFires(c) PROVE \E n : Moves(c, n)
  BY <1>0, <1>1, <1>2, NeatRest DEF TimerFires, Goes
<1>3. ASSUME Revoke \/ close
      PROVE  \E t \in Threads : \E n : Moves(t, n)
  BY <1>0, <1>1, <1>3, NeatRest DEF Revoke, close
<1>4. ASSUME NEW t \in Threads, quiesce(t) \/ revoke(t)
      PROVE  \E n : Moves(t, n)
  BY <1>1, <1>4, NeatRest DEF quiesce, revoke, Quiesced
<1>5. ASSUME NEW t \in Threads, revokeCredential(t) PROVE \E n : Moves(t, n)
  <2> DEFINE m == remover[t]
  <2>1. /\ m \in Remover /\ m.pc = "gate" /\ m.relays = {}
    BY <1>0, <1>5 DEF revokeCredential, Tidy, Neat
  <2>2. PICK c : \/ Goes(t, Rest)
                 \/ Goes(t, [m EXCEPT !.pc = "remove", !.cred = c,
                                      !.todo = @ \ {c}])
    BY <1>5 DEF revokeCredential
  <2>3. Neat([m EXCEPT !.pc = "remove", !.cred = c, !.todo = @ \ {c}])
    BY <2>1 DEF Neat, Remover
  <2> QED  BY <1>1, <2>1, <2>2, <2>3, NeatRest
<1>6. ASSUME NEW t \in Threads, removeCredential(t) PROVE \E n : Moves(t, n)
  <2> DEFINE m == remover[t]
             n == [m EXCEPT !.pc = "close", !.cred = None,
                            !.relays = OwnedBy(m.cred)]
  <2>1. m \in Remover /\ m.pc = "remove" /\ Goes(t, n)
    BY <1>0, <1>6 DEF removeCredential
  <2>2. Neat(n)
    BY <2>1 DEF Neat, Remover
  <2> QED  BY <1>1, <2>1, <2>2
<1>7. ASSUME NEW t \in Threads, Close(t) PROVE \E n : Moves(t, n)
  <2> DEFINE m == remover[t]
  <2>1. /\ m \in Remover /\ m.pc \in {"close", "rest"} /\ m.cred = None
        /\ m.relays \subseteq Relays
    BY <1>0, <1>7 DEF Close, Tidy, Neat, Remover
  <2>2. ASSUME NEW r \in m.relays, relay' = BeginClose(relay, r),
               Goes(t, [m EXCEPT !.at = r, !.relays = @ \ {r}])
        PROVE  \E n : Moves(t, n)
    <3> DEFINE n == [m EXCEPT !.at = r, !.relays = @ \ {r}]
    <3>1. /\ n.pc = m.pc /\ n.cred = m.cred /\ n.relays = m.relays \ {r}
      BY <2>1 DEF Remover
    <3>2. relay'[r].closing
      BY <1>0, <2>1, <2>2, BeginCloseFacts
    <3>3. Goes(t, n)
      BY <2>2
    <3> HIDE DEF n
    <3>4. Neat(n)
      BY <2>1, <3>1 DEF Neat
    <3> QED  BY <3>1, <3>2, <3>3, <3>4 DEF Moves, Goes
  <2>3. ASSUME Goes(t, [m EXCEPT !.at = NoRelay])
        PROVE  \E n : Moves(t, n)
    <3> DEFINE n == [m EXCEPT !.at = NoRelay]
    <3>1. n.pc = m.pc /\ n.cred = m.cred /\ n.relays = m.relays
      BY <2>1 DEF Remover
    <3>2. Goes(t, n)
      BY <2>3
    <3> HIDE DEF n
    <3> QED  BY <2>1, <3>1, <3>2 DEF Moves, Goes, Neat
  <2> QED  BY <1>7, <2>2, <2>3 DEF Close
<1>8. ASSUME NEW t \in Threads, NextPhase(t) PROVE \E n : Moves(t, n)
  <2> DEFINE m == remover[t]
  <2>1. m \in Remover /\ Neat(m)
    BY <1>0 DEF Tidy
  <2>2. m.relays = {}
    BY <1>8, <2>1 DEF NextPhase, Neat
  <2>3. ASSUME NEW n, Goes(t, n), Neat(n) PROVE Moves(t, n)
    BY <2>2, <2>3 DEF Moves, Goes
  <2>4. CASE m.pc = "close" /\ Goes(t, [m EXCEPT !.pc = "gate"])
    <3>1. Neat([m EXCEPT !.pc = "gate"])
      BY <2>1, <2>2, <2>4 DEF Neat, Remover
    <3> QED  BY <2>3, <2>4, <3>1
  <2>5. CASE /\ m.pc = "gate"
             /\ Goes(t, [m EXCEPT !.pc = "rest",
                           !.relays = {r \in Relays : relay[r].listed}])
    <3>1. Neat([m EXCEPT !.pc = "rest",
                         !.relays = {r \in Relays : relay[r].listed}])
      BY <2>1, <2>5 DEF Neat, Remover
    <3> QED  BY <2>3, <2>5, <3>1
  <2>6. ASSUME NEW x, Goes(t, Rest) \/ Goes(t, [Rest EXCEPT !.pc = x])
        PROVE  \E n : Moves(t, n)
    BY ZenonT(60), <2>3, <2>6, NeatRest
  <2> QED  BY <1>8, <2>4, <2>5, <2>6 DEF NextPhase
<1>9. \/ remover' = remover \/ Revoke \/ close
      \/ \E c \in Creds : TimerFires(c)
      \/ \E t \in Threads : RemoverStep(t)
  BY DEF Next, Tick, renewSession, MintChecked, mint, RenewLock,
         RenewCheck, Request, RelayWriteTo, auth, ReaderStep, Deleted,
         AllocatePacketConn, allocationCreated, ReaderClosed, RelayWritten,
         RelayReported, Park, channelCreated, RelayStep, CloseLater, Drain,
         allocationDeleted, ReadFrom, HandlerStep, ListenerWriteTo,
         writePacket, Finish, ReadFails, LifetimeEnds
<1> QED  BY <1>0, <1>2, <1>3, <1>4, <1>5, <1>6, <1>7, <1>8, <1>9 DEF RemoverStep

LEMMA TidyStep ==
  ASSUME TypeOK, Tidy, Next
  PROVE  Tidy'
<1>1. ASSUME NEW t \in Threads, NEW n, Moves(t, n) PROVE Tidy'
  BY <1>1 DEF Moves, Tidy, TypeOK
<1>2. CASE remover' = remover
  BY <1>2 DEF Tidy
<1> QED  BY <1>1, <1>2, RemoverMoves

LEMMA MarkedStep ==
  ASSUME TypeOK, Own, Marked(relay), Next
  PROVE  Marked(relay')
<1>1. CASE ~allocationCreated
  BY <1>1, RelaysKept DEF Kept, Marked
<1>2. CASE allocationCreated
  <2> DEFINE r == reader.relay
             c == IF reader.user \in managed THEN reader.user ELSE None
             f == [relay EXCEPT ![r].owner = c, ![r].user = reader.user,
                                ![r].client = reader.client]
  <2>0. /\ relay \in [Relays -> Relay] /\ c \in Creds \cup {None}
        /\ reader.user \in Creds \cup {None}
        /\ reader.client \in Clients \cup {None}
    BY DEF TypeOK, Reader, managed
  <2>1. relay' = f \/ relay' = BeginClose(f, r)
    BY <1>2 DEF allocationCreated
  <2> HIDE DEF c
  <2>2. f \in [Relays -> Relay]
    BY ZenonT(60), <2>0, OwnedType
  <2>3. Marked(f)
    <3> DEFINE x == [relay[r] EXCEPT !.owner = c, !.user = reader.user,
                                     !.client = reader.client]
    <3>1. r \in Relays => x.once = relay[r].once /\ x.closing = relay[r].closing
      BY <2>0 DEF Relay
    <3>2. f = [relay EXCEPT ![r] = x]
      BY <2>0
    <3> HIDE DEF x, f
    <3> QED  BY <2>0, <3>1, <3>2 DEF Marked
  <2> HIDE DEF f
  <2>4. Marked(BeginClose(f, r))
    BY <2>2, <2>3, BeginCloseKept DEF Kept, Marked
  <2> QED  BY <2>1, <2>3, <2>4
<1> QED  BY <1>1, <1>2

(* How a credential enters and leaves the managed ones. *)
LEMMA StateStep ==
  ASSUME TypeOK, Next, NEW c \in Creds
  PROVE  /\ cred[c].state \in {"managed", "removed"} =>
              cred'[c].state \in {"managed", "removed"}
         /\ c \in managed' => c \in managed \/ cred[c].state = "checked"
         /\ c \in managed /\ c \notin managed' =>
              \E t \in Threads : removeCredential(t) /\ remover[t].cred = c
<1>0. cred \in [Creds -> Credential]
  BY DEF TypeOK
<1>1. ASSUME NEW d \in Creds, mint(d)
      PROVE  /\ cred[c].state \in {"managed", "removed"} =>
                  cred'[c].state = cred[c].state
             /\ cred'[c].state = "managed" =>
                  cred[c].state \in {"managed", "checked"}
  <2>1. cred[d].state = "checked"
    BY <1>1 DEF mint
  <2>2. cred' = [cred EXCEPT ![d].state = "removed"]
        \/ cred' = [cred EXCEPT ![d].state = "managed", ![d].armed = TRUE]
    BY <1>1 DEF mint
  <2> QED  BY <1>0, <2>1, <2>2 DEF Credential
<1>2. ASSUME NEW t \in Threads, removeCredential(t)
      PROVE  /\ c # remover[t].cred => cred'[c] = cred[c]
             /\ cred'[c].state \in {cred[c].state, "removed"}
             /\ cred[c].state # "managed" => cred'[c].state = cred[c].state
  <2> DEFINE k == remover[t].cred
  <2>1. CASE cred' = cred
    BY <2>1
  <2>2. CASE /\ cred' = [cred EXCEPT ![k].state = "removed", ![k].armed = FALSE]
             /\ k \in managed
    <3> DEFINE x == [cred[k] EXCEPT !.state = "removed", !.armed = FALSE]
    <3>1. x.state = "removed" /\ k \in Creds /\ cred[k].state = "managed"
      BY <1>0, <2>2 DEF Credential, managed
    <3>2. cred' = [cred EXCEPT ![k] = x]
      BY <1>0, <2>2
    <3> HIDE DEF x, k
    <3> QED  BY <1>0, <3>1, <3>2 DEF k
  <2> QED  BY <1>2, <2>1, <2>2 DEF removeCredential
<1>3. CASE \E d \in Creds : mint(d)
  BY <1>1, <1>3 DEF managed
<1>4. CASE \E t \in Threads : removeCredential(t)
  BY <1>2, <1>4 DEF managed
<1>5. CASE /\ \A d \in Creds : ~mint(d)
           /\ \A t \in Threads : ~removeCredential(t)
  BY <1>5, ManagedKept
<1> QED  BY <1>3, <1>4, <1>5

LEMMA ServedStep ==
  ASSUME TypeOK, Own, Marked(relay), Next, NEW c \in Creds, Served(c)'
  PROVE  Served(c) \/ \E a \in Clients : auth(c, a)
<1>1. CASE allocationCreated
  <2>1. /\ reader.pc = "created" /\ reader'.pc \in {"idle", "closing"}
        /\ \A q \in Relays : q # reader.relay => relay'[q] = relay[q]
        /\ relay'[reader.relay].owner \in {None, reader.user}
    BY <1>1, CreatedFacts DEF allocationCreated
  <2>2. c # None
    BY ConstantsAssumption
  <2> QED  BY <2>1, <2>2 DEF Served, Serves, Creating
<1>2. CASE ~allocationCreated
  <2>1. \A q \in Relays : relay'[q].owner = relay[q].owner
    BY <1>2, RelaysKept DEF Kept
  <2>2. CASE Creating(c)'
    BY <2>2, ReaderKept DEF Served, Creating
  <2> QED  BY <2>1, <2>2 DEF Served, Serves
<1> QED  BY <1>1, <1>2

LEMMA MintedStep ==
  ASSUME TypeOK, Own, Marked(relay), Minted, Next
  PROVE  Minted'
<1> SUFFICES ASSUME NEW c \in Creds, Served(c)'
             PROVE  cred'[c].state \in {"managed", "removed"}
  BY DEF Minted
<1>1. CASE Served(c)
  BY <1>1, StateStep DEF Minted
<1>2. ASSUME NEW a \in Clients, auth(c, a)
      PROVE  cred'[c].state \in {"managed", "removed"}
  BY <1>2 DEF auth, managed
<1> QED  BY <1>1, <1>2, ServedStep

LEMMA WatchedStep ==
  ASSUME TypeOK, Own, Marked(relay), Tidy, Watched, Next
  PROVE  Watched'
<1>0. remover \in [Threads -> Remover]
  BY DEF TypeOK
<1>1. ASSUME NEW r \in Relays, Open(r)'
      PROVE  /\ relay'[r].listed /\ relay'[r].owner # None
             /\ \/ relay'[r].owner \in managed'
                \/ \E t \in Threads : r \in remover'[t].relays
  <2>1. CASE allocationCreated /\ r = reader.relay
    <3> DEFINE c == IF reader.user \in managed THEN reader.user ELSE None
    <3>1. /\ relay'[r].owner = c /\ relay'[r].listed = relay[r].listed
          /\ relay[r].closing \/ Bad(c) => relay'[r].closing
      BY <2>1, CreatedFacts
    <3>2. c # None /\ ~relay[r].closing
      BY <1>1, <3>1 DEF Open, Bad
    <3>3. c \in managed
      BY <3>2
    <3>4. managed' = managed /\ reader.pc = "created"
      BY <2>1 DEF allocationCreated, managed
    <3> HIDE DEF c
    <3> QED  BY <2>1, <3>1, <3>2, <3>3, <3>4 DEF Watched
  <2>2. CASE allocationCreated /\ r # reader.relay
    <3>1. relay'[r] = relay[r]
      BY <2>2, CreatedFacts
    <3>2. managed' = managed /\ remover' = remover
      BY <2>2 DEF allocationCreated, managed
    <3>3. Open(r)
      BY <1>1, <3>1 DEF Open
    <3> QED  BY <3>1, <3>2, <3>3 DEF Watched
  <2>3. CASE ~allocationCreated
    <3>1. /\ relay'[r].owner = relay[r].owner
          /\ relay'[r].client = relay[r].client
          /\ relay[r].closing => relay'[r].closing
          /\ relay[r].listed => relay'[r].listed \/ relay'[r].closing
      BY <2>3, RelaysKept DEF Kept
    <3>2. Open(r) /\ ~relay'[r].closing
      BY <1>1, <3>1 DEF Open
    <3>3. relay[r].listed /\ relay[r].owner # None
      BY <3>2 DEF Watched
    <3>4. CASE relay[r].owner \in managed /\ relay[r].owner \notin managed'
      <4> DEFINE c == relay[r].owner
      <4>1. c \in Creds
        BY <3>4 DEF managed
      <4>2. PICK t \in Threads : removeCredential(t) /\ remover[t].cred = c
        BY <3>4, <4>1, StateStep
      <4>3. remover' = [remover EXCEPT ![t] =
                [remover[t] EXCEPT !.pc = "close", !.cred = None,
                                   !.relays = OwnedBy(c)]]
        BY <4>2 DEF removeCredential, Goes
      <4>4. remover'[t].relays = OwnedBy(c)
        <5>1. remover[t] \in Remover
          BY <1>0
        <5> HIDE DEF c
        <5>2. [remover[t] EXCEPT !.pc = "close", !.cred = None,
                                 !.relays = OwnedBy(c)].relays = OwnedBy(c)
          BY <5>1 DEF Remover
        <5> QED  BY <1>0, <4>3, <5>2
      <4>5. r \in OwnedBy(c)
        BY <3>3 DEF OwnedBy
      <4> QED  BY <3>1, <3>2, <3>3, <4>4, <4>5
    <3>5. ASSUME NEW t \in Threads, r \in remover[t].relays
          PROVE  r \in remover'[t].relays
      <4>1. ASSUME NEW u \in Threads, NEW n, Moves(u, n)
            PROVE  r \in remover'[t].relays
        BY <1>0, <3>2, <3>5, <4>1 DEF Moves
      <4> QED  BY <3>5, <4>1, RemoverMoves
    <3> QED  BY <3>1, <3>2, <3>3, <3>4, <3>5 DEF Watched
  <2> QED  BY <2>1, <2>2, <2>3
<1>2. ASSUME reader'.pc = "created"
      PROVE  relay'[reader'.relay].listed \/ relay'[reader'.relay].closing
  <2>1. CASE AllocatePacketConn
    <3>1. reader' # Idle
      BY <1>2 DEF Idle
    <3>2. PICK r \in Relays :
            /\ relay' = [relay EXCEPT ![r].used = TRUE, ![r].listed = TRUE]
            /\ reader' = [reader EXCEPT !.pc = "created", !.relay = r]
      BY <2>1, <3>1 DEF AllocatePacketConn
    <3>3. reader'.relay = r
      BY <3>2 DEF TypeOK, Reader
    <3>4. relay'[r].listed
      BY <3>2 DEF TypeOK, Relay
    <3> QED  BY <3>3, <3>4
  <2>2. CASE reader' = reader
    <3>1. ~allocationCreated
      BY <1>2, CreatedFacts
    <3>2. reader.relay \in Relays
      BY <1>2, <2>2 DEF Own, ReaderAt
    <3> QED  BY <1>2, <2>2, <3>1, <3>2, RelaysKept DEF Watched, Kept
  <2> QED  BY <1>2, <2>1, <2>2, ReaderKept
<1> QED  BY <1>1, <1>2 DEF Watched

(* What revokeSession has before it stays enough as long as it does not    *)
(* move itself.                                                            *)
LEMMA AwaitsKept ==
  ASSUME TypeOK, Own, Marked(relay), Minted, Gates, Next,
         NEW m, Awaits(m), remover[Revoker].pc # "idle"
  PROVE  \A c \in managed' : Served(c)' => c \in m.todo \/ c = m.cred
<1> SUFFICES ASSUME NEW c \in managed', Served(c)'
             PROVE  c \in m.todo \/ c = m.cred
  OBVIOUS
<1>0. c \in Creds
  BY SMTT(60) DEF managed
<1>1. Served(c)
  <2>1. ~allowed
    BY DEF Gates
  <2> QED  BY <1>0, <2>1, ServedStep DEF auth, authorized
<1>2. c \in managed
  BY <1>0, <1>1, StateStep DEF Minted
<1> QED  BY <1>1, <1>2 DEF Awaits

LEMMA ListingStep ==
  ASSUME TypeOK, Own, Marked(relay), Minted, Gates, Tidy, Listing, Next
  PROVE  Listing'
<1> DEFINE m == remover[Revoker]
           n == remover'[Revoker]
<1>0. /\ remover \in [Threads -> Remover] /\ Revoker \in Threads
      /\ Closer # Revoker /\ Revoker \notin Creds /\ m \in Remover
  BY ConstantsAssumption DEF TypeOK, Threads, Closer, Revoker
<1>1. ASSUME n.pc \notin {"idle", "begun"} =>
               \A c \in managed' : Served(c)' => c \in n.todo \/ c = n.cred
      PROVE  Listing'
  BY <1>1 DEF Listing, Awaits
<1>2. ASSUME m.pc \notin {"idle", "begun"},
             \A c \in managed' : c \in m.todo \/ c = m.cred =>
                                   c \in n.todo \/ c = n.cred
      PROVE  Listing'
  <2>1. Awaits(m)
    BY <1>2 DEF Listing
  <2> HIDE DEF m, n
  <2>2. m.pc # "idle"
    BY <1>2
  <2>3. \A c \in managed' : Served(c)' => c \in m.todo \/ c = m.cred
    BY <2>1, <2>2, AwaitsKept DEF m
  <2> QED  BY <1>1, <1>2, <2>3
<1>3. CASE n = m
  BY <1>1, <1>2, <1>3
<1>4. CASE Revoke
  <2>1. n = [Rest EXCEPT !.pc = "begun"]
    BY <1>0, <1>4 DEF Revoke, Goes
  <2> QED  BY <1>1, <2>1, RestIs
<1>5. CASE revoke(Revoker)
  <2>1. n = [Rest EXCEPT !.pc = "gate", !.todo = managed] /\ cred' = cred
    BY <1>0, <1>5 DEF revoke, Goes
  <2>2. n.todo = managed'
    BY <2>1, RestIs DEF managed
  <2> QED  BY <1>1, <2>2
<1>6. CASE revokeCredential(Revoker)
  <2>1. PICK c \in m.todo :
          n = [m EXCEPT !.pc = "remove", !.cred = c, !.todo = @ \ {c}]
    BY <1>0, <1>6 DEF revokeCredential, Ends, Goes
  <2>2. n.todo = m.todo \ {c} /\ n.cred = c
    BY <1>0, <2>1 DEF Remover
  <2>3. m.pc = "gate" /\ m.cred = None
    BY <1>0, <1>6 DEF revokeCredential, Tidy, Neat
  <2>4. \A x \in managed' : x # None
    BY ConstantsAssumption DEF managed
  <2> HIDE DEF m, n
  <2> QED  BY <1>2, <2>2, <2>3, <2>4
<1>7. CASE removeCredential(Revoker)
  <2>1. n = [m EXCEPT !.pc = "close", !.cred = None, !.relays = OwnedBy(m.cred)]
    BY <1>0, <1>7 DEF removeCredential, Goes
  <2>2. n.todo = m.todo
    BY <1>0, <2>1 DEF Remover
  <2>3. m.pc = "remove" /\ m.cred \notin managed'
    <3>1. m.pc = "remove"
      BY <1>7 DEF removeCredential
    <3>2. CASE m.cred \in managed
      <4> DEFINE x == [cred[m.cred] EXCEPT !.state = "removed", !.armed = FALSE]
      <4>1. cred' = [cred EXCEPT ![m.cred].state = "removed",
                                 ![m.cred].armed = FALSE]
        BY <1>7, <3>2 DEF removeCredential
      <4>2. cred \in [Creds -> Credential] /\ m.cred \in Creds
        BY <3>2 DEF TypeOK, managed
      <4>3. x.state = "removed"
        BY <4>2 DEF Credential
      <4>4. cred' = [cred EXCEPT ![m.cred] = x]
        BY <4>1, <4>2
      <4> HIDE DEF x, m
      <4> QED  BY <3>1, <4>2, <4>3, <4>4 DEF managed
    <3>3. CASE m.cred \notin managed
      BY <1>7, <3>1, <3>3 DEF removeCredential, managed
    <3> QED  BY <3>2, <3>3
  <2> HIDE DEF m, n
  <2> QED  BY <1>2, <2>2, <2>3
<1>8. CASE Close(Revoker)
  <2>1. PICK r : \/ n = [m EXCEPT !.at = r, !.relays = @ \ {r}]
                 \/ n = [m EXCEPT !.at = NoRelay]
    BY <1>0, <1>8 DEF Close, Goes
  <2>2. n.todo = m.todo /\ n.cred = m.cred
    BY <1>0, <2>1 DEF Remover
  <2>3. m.pc \in {"close", "rest"}
    BY <1>8 DEF Close
  <2> HIDE DEF m, n
  <2> QED  BY <1>2, <2>2, <2>3
<1>9. CASE NextPhase(Revoker)
  <2>0. m.pc \notin {"rest", "drain"}
    BY DEF Gates
  <2>1. \/ m.pc = "close" /\ n = [m EXCEPT !.pc = "gate"]
        \/ /\ m.pc = "gate" /\ m.todo = {}
           /\ n = [Rest EXCEPT !.pc = "done"]
    BY <1>0, <1>9, <2>0 DEF NextPhase, Goes
  <2>2. CASE m.pc = "close" /\ n = [m EXCEPT !.pc = "gate"]
    <3>1. n.todo = m.todo /\ n.cred = m.cred
      BY <1>0, <2>2 DEF Remover
    <3> HIDE DEF n
    <3> QED  BY <1>2, <2>2, <3>1
  <2>3. CASE m.pc = "gate" /\ m.todo = {} /\ n = [Rest EXCEPT !.pc = "done"]
    <3>1. m.cred = None
      BY <1>0, <2>3 DEF Tidy, Neat
    <3>2. n.cred = None
      BY <2>3, RestIs
    <3> HIDE DEF n
    <3> QED  BY <1>2, <2>3, <3>1, <3>2
  <2> QED  BY <2>1, <2>2, <2>3
<1>10. ASSUME NEW c \in Creds, TimerFires(c) PROVE n = m
  BY <1>0, <1>10 DEF TimerFires
<1>11. CASE close
  BY <1>0, <1>3, <1>11 DEF close, Goes
<1>12. ASSUME NEW t \in Threads, RemoverStep(t), t # Revoker PROVE n = m
  <2>1. \E x : Goes(t, x)
    BY <1>12 DEF RemoverStep, quiesce, revoke, revokeCredential,
                 removeCredential, Close, NextPhase
  <2> QED  BY SMTT(60), <1>0, <1>12, <2>1 DEF Goes
<1>13. ~quiesce(Revoker)
  BY SMTT(60), <1>0 DEF quiesce
<1>14. \/ remover' = remover \/ Revoke \/ close
       \/ \E c \in Creds : TimerFires(c)
       \/ \E t \in Threads : RemoverStep(t)
  BY DEF Next, Tick, renewSession, MintChecked, mint, RenewLock,
         RenewCheck, Request, RelayWriteTo, auth, ReaderStep, Deleted,
         AllocatePacketConn, allocationCreated, ReaderClosed, RelayWritten,
         RelayReported, Park, channelCreated, RelayStep, CloseLater, Drain,
         allocationDeleted, ReadFrom, HandlerStep, ListenerWriteTo,
         writePacket, Finish, ReadFails, LifetimeEnds
<1>15. CASE RemoverStep(Revoker)
  BY <1>5, <1>6, <1>7, <1>8, <1>9, <1>13, <1>15 DEF RemoverStep
<1> QED  BY <1>3, <1>4, <1>10, <1>11, <1>12, <1>14, <1>15


-----------------------------------------------------------------------------
(* Counters and revocation *)

LEMMA InitCounts == Init => Counts
<1> SUFFICES ASSUME Init PROVE Counts
  OBVIOUS
<1>1. managed = {}
  BY DEF Init, managed
<1>2. Counted = {}
  BY DEF Init, Counted
<1>3. IsFiniteSet({}) /\ Cardinality({}) = 0
  BY FS_EmptySet
<1>4. /\ tenant.credentials = 0 /\ tenant.allocations = 0
      /\ tenant.some = FALSE /\ reader.pc = "idle"
  BY DEF Init, Idle
<1>5. 0 <= MaxAllocationsPerTenant
  BY ConstantsAssumption
<1> QED  BY <1>1, <1>2, <1>3, <1>4, <1>5 DEF Counts

LEMMA InitCloses == Init => Closes
<1> SUFFICES ASSUME Init PROVE Closes
  OBVIOUS
<1>1. \A r \in Relays : relay[r] = NewRelay
  BY DEF Init
<1>2. reader.pc = "idle"
  BY DEF Init, Idle
<1>3. \A t \in Threads : remover[t] = Rest
  BY DEF Init
<1>4. Marked(relay)
  BY <1>1 DEF Marked, NewRelay
<1>5. Tidy
  BY <1>3, RestIs DEF Tidy, Neat
<1>6. Watched
  BY <1>1, <1>2 DEF Watched, Open, NewRelay
<1>7. Minted
  BY <1>1, <1>2, ConstantsAssumption DEF Minted, Served, Serves, Creating, NewRelay
<1>8. Listing
  BY <1>3 DEF Listing, Rest, Threads
<1> QED  BY <1>4, <1>5, <1>6, <1>7, <1>8 DEF Closes

LEMMA ClosesStep ==
  ASSUME IInv, Closes, [Next]_vars
  PROVE  Closes'
<1>1. CASE UNCHANGED vars
  BY <1>1 DEF vars, Closes, Marked, Tidy, Neat, Watched, Open, Minted, Served,
              Serves, Creating, Listing, Awaits, managed
<1>2. CASE Next
  <2>1. Marked(relay)'
    BY <1>2, MarkedStep DEF IInv, Closes, Marked
  <2> QED  BY <1>2, <2>1, TidyStep, WatchedStep, MintedStep, ListingStep
           DEF IInv, Closes
<1> QED  BY <1>1, <1>2

LEMMA CountsAndCloses == Spec => [](IInv /\ Counts /\ Closes)
<1>1. IInv /\ Counts /\ Closes /\ [Next]_vars => Counts' /\ Closes'
  BY CountsStep, ClosesStep DEF IInv, Closes
<1> QED  BY <1>1, InitCounts, InitCloses, Inductive, PTL DEF Spec

(* The counters mint, allocationCreated, allocationDeleted and             *)
(* removeCredential keep for a tenant count the credentials and the        *)
(* relays in the maps, and no tenant has more relays than its limit,       *)
(* although quota is asked long before the relay is counted and the        *)
(* credential may be removed between the two, or before the deletion.      *)
THEOREM CountersRight == Spec => []CountersExact
<1>1. Counts => CountersExact
  BY DEF Counts, Counted, CountersExact
<1> QED  BY <1>1, CountsAndCloses, PTL

(* When revokeSession has returned every relay of the session is closing,  *)
(* or on the list of the thread that removed its credential: a relay       *)
(* whose creation the snapshot of revokeSession missed belongs to a        *)
(* credential on that snapshot, and is listed by the time it is removed.   *)
THEOREM SessionClosed == Spec => []RevokedClosed
<1>1. IInv /\ Closes => RevokedClosed
  <2> SUFFICES ASSUME IInv, Closes, remover[Revoker].pc = "done",
                      NEW r \in Relays, Open(r)
               PROVE  \E t \in Threads : r \in remover[t].relays
    BY DEF RevokedClosed, Open
  <2>1. Revoker \in Threads
    BY DEF Threads
  <2>2. remover[Revoker].todo = {} /\ remover[Revoker].cred = None
    BY <2>1 DEF IInv, Returned, Closes, Tidy, Neat
  <2>3. None \notin Creds
    BY ConstantsAssumption
  <2>4. ASSUME relay[r].owner \in managed  PROVE FALSE
    <3>1. Served(relay[r].owner)
      BY DEF Served, Serves
    <3> QED  BY <2>2, <2>3, <2>4, <3>1 DEF Closes, Listing, Awaits, managed
  <2> QED  BY <2>4 DEF Closes, Watched
<1> QED  BY <1>1, CountsAndCloses, PTL

-----------------------------------------------------------------------------
(* Leases *)

(* A credential that is not minted has no timer and is on no list, and one *)
(* that is being renewed is not revoked.  The new deadline that a renewal  *)
(* is about to write was chosen when the old one had not passed.           *)
Fresh(c) == cred[c].state \in {"new", "checked"}
Unlisted ==
    \A c \in Creds : Fresh(c) =>
      /\ ~cred[c].revoked /\ ~cred[c].armed
      /\ \A t \in Threads : c \notin remover[t].todo
Renewing ==
    renewer.cred \in Creds =>
      ~cred[renewer.cred].revoked /\ ~Fresh(renewer.cred)
Timely ==
    renewer.pc = "extending" =>
      LET c == renewer.cred
      IN  /\ c \in Creds
          /\ cred[c].expires < renewer.until
          /\ renewer.until < cred[c].expires + TTL
Leases == Unlisted /\ Renewing /\ Timely

(* What a step may do to a credential. *)
LEMMA CredMoves ==
  ASSUME TypeOK, Next, NEW c \in Creds
  PROVE  /\ Fresh(c)' => Fresh(c)
         /\ cred'[c].revoked => \/ cred[c].revoked
                                \/ \E t \in Threads :
                                     /\ c \in remover[t].todo /\ GateFree(c)
                                     /\ Ends(t, c) /\ remover'[t].cred = c
         /\ cred'[c].expires # cred[c].expires =>
              \/ cred[c].state = "new"
              \/ /\ renewSession /\ renewer.cred = c
                 /\ cred'[c].expires = renewer.until
         /\ cred'[c].armed => \/ cred[c].armed \/ ~Fresh(c)'
                              \/ renewer.cred = c
<1>0. cred \in [Creds -> Credential] /\ remover \in [Threads -> Remover]
  BY DEF TypeOK
<1> DEFINE Same == /\ cred'[c].state = cred[c].state
                   /\ cred'[c].revoked = cred[c].revoked
                   /\ cred'[c].expires = cred[c].expires
<1>1. CASE cred' = cred
  BY <1>1 DEF Fresh
<1>2. ASSUME NEW d \in Creds, MintChecked(d)
      PROVE  \/ cred'[c] = cred[c]
             \/ /\ Fresh(c) /\ cred[c].state = "new"
                /\ cred'[c].revoked = cred[c].revoked
                /\ cred'[c].armed = cred[c].armed
  BY <1>0, <1>2 DEF MintChecked, Credential, Fresh
<1>3. ASSUME NEW d \in Creds, mint(d)
      PROVE  \/ cred'[c] = cred[c]
             \/ /\ ~Fresh(c)' /\ cred'[c].revoked = cred[c].revoked
                /\ cred'[c].expires = cred[c].expires
  <2>1. \/ cred' = [cred EXCEPT ![d].state = "removed"]
        \/ cred' = [cred EXCEPT ![d].state = "managed", ![d].armed = TRUE]
    BY <1>3 DEF mint
  <2> QED  BY <1>0, <2>1 DEF Credential, Fresh
<1>4. ASSUME NEW d \in Creds, TimerFires(d)
      PROVE  Same /\ (cred'[c].armed => cred[c].armed)
  BY <1>0, <1>4 DEF TimerFires, Credential
<1>5. ASSUME renewSession
      PROVE  \/ cred'[c] = cred[c]
             \/ /\ renewer.cred = c /\ cred'[c].state = cred[c].state
                /\ cred'[c].revoked = cred[c].revoked
                /\ cred'[c].expires = renewer.until
  BY <1>0, <1>5 DEF renewSession, Extended, Credential
<1>6. ASSUME NEW t \in Threads, removeCredential(t)
      PROVE  \/ cred'[c] = cred[c]
             \/ /\ ~Fresh(c)' /\ cred'[c].revoked = cred[c].revoked
                /\ cred'[c].expires = cred[c].expires
  <2> DEFINE k == remover[t].cred
  <2>1. \/ cred' = [cred EXCEPT ![k].state = "removed", ![k].armed = FALSE]
        \/ cred' = cred
    BY <1>6 DEF removeCredential
  <2> HIDE DEF k
  <2> QED  BY <1>0, <2>1 DEF Credential, Fresh
<1>7. ASSUME NEW t \in Threads, revokeCredential(t)
      PROVE  \/ cred'[c] = cred[c]
             \/ /\ cred'[c].state = cred[c].state
                /\ cred'[c].expires = cred[c].expires
                /\ cred'[c].armed = cred[c].armed
                /\ c \in remover[t].todo /\ GateFree(c)
                /\ Ends(t, c) /\ remover'[t].cred = c
  <2>1. CASE cred' = cred
    BY <2>1
  <2>2. ASSUME NEW d \in remover[t].todo, GateFree(d), Ends(t, d),
               cred' = [cred EXCEPT ![d].revoked = TRUE],
               Goes(t, [remover[t] EXCEPT !.pc = "remove", !.cred = d,
                                          !.todo = @ \ {d}])
        PROVE  \/ cred'[c] = cred[c]
               \/ /\ cred'[c].state = cred[c].state
                  /\ cred'[c].expires = cred[c].expires
                  /\ cred'[c].armed = cred[c].armed
                  /\ c \in remover[t].todo /\ GateFree(c)
                  /\ Ends(t, c) /\ remover'[t].cred = c
    <3>1. remover'[t].cred = d
      BY <1>0, <2>2 DEF Goes, Remover
    <3>2. c # d => cred'[c] = cred[c]
      BY <1>0, <2>2
    <3>3. c = d => /\ cred'[c].state = cred[c].state
                   /\ cred'[c].expires = cred[c].expires
                   /\ cred'[c].armed = cred[c].armed
      BY SMTT(60), <1>0, <2>2 DEF Credential
    <3> QED  BY <2>2, <3>1, <3>2, <3>3
  <2> QED  BY <1>7, <2>1, <2>2 DEF revokeCredential
<1>8. \/ cred' = cred \/ renewSession
      \/ \E d \in Creds : MintChecked(d) \/ mint(d) \/ TimerFires(d)
      \/ \E t \in Threads : revokeCredential(t) \/ removeCredential(t)
  BY DEF Next, Tick, RenewLock,
         RenewCheck, Request, RelayWriteTo, auth, ReaderStep, Deleted,
         AllocatePacketConn, allocationCreated, ReaderClosed, RelayWritten,
         RelayReported, Park, channelCreated, RelayStep, CloseLater, Drain,
         allocationDeleted, ReadFrom, HandlerStep, ListenerWriteTo,
         writePacket, Finish, ReadFails, LifetimeEnds, Revoke, close,
         RemoverStep, quiesce, revoke, Close, NextPhase
<1>9. CASE renewSession
  BY <1>5, <1>9 DEF Fresh
<1>10. CASE \E d \in Creds : MintChecked(d) \/ mint(d) \/ TimerFires(d)
  BY <1>2, <1>3, <1>4, <1>10 DEF Fresh
<1>11. CASE \E t \in Threads : revokeCredential(t) \/ removeCredential(t)
  BY <1>6, <1>7, <1>11 DEF Fresh
<1> QED  BY <1>1, <1>8, <1>9, <1>10, <1>11

(* A thread lists its own credential when its timer fires, or all that are *)
(* managed.                                                                *)
LEMMA TodoMoves ==
  ASSUME TypeOK, Next, NEW t \in Threads, NEW c \in remover'[t].todo
  PROVE  c \in remover[t].todo \/ cred[c].armed \/ c \in managed
<1>0. remover \in [Threads -> Remover]
  BY DEF TypeOK
<1>1. ASSUME NEW u, NEW n, Goes(u, n), n.todo \subseteq remover[u].todo
      PROVE  c \in remover[t].todo
  BY <1>0, <1>1 DEF Goes
<1>2. ASSUME NEW d \in Creds, TimerFires(d)
      PROVE  c \in remover[t].todo \/ cred[c].armed
  <2>1. [Rest EXCEPT !.pc = "gate", !.todo = {d}].todo = {d}
    BY DEF Rest
  <2>2. t = d => remover'[t].todo = {d}
    BY <1>0, <1>2, <2>1 DEF TimerFires
  <2>3. t # d => remover'[t] = remover[t]
    BY <1>0, <1>2 DEF TimerFires
  <2> QED  BY <1>2, <2>2, <2>3 DEF TimerFires
<1>3. ASSUME NEW u, NEW x, Goes(u, Rest) \/ Goes(u, [Rest EXCEPT !.pc = x])
      PROVE  c \in remover[t].todo
  BY <1>0, <1>1, <1>3, RestIs DEF Goes, Rest
<1>4. ASSUME NEW u \in Threads, quiesce(u) \/ revoke(u)
      PROVE  c \in remover[t].todo \/ c \in managed
  <2>1. CASE quiesce(u)
    BY <1>3, <2>1 DEF quiesce
  <2>2. CASE revoke(u)
    <3>1. [Rest EXCEPT !.pc = "gate", !.todo = managed].todo = managed
      BY DEF Rest
    <3> QED  BY <1>0, <2>2, <3>1 DEF revoke, Goes
  <2> QED  BY <1>4, <2>1, <2>2
<1>5. ASSUME NEW u \in Threads,
             revokeCredential(u) \/ removeCredential(u) \/ Close(u)
               \/ NextPhase(u)
      PROVE  c \in remover[t].todo
  <2> DEFINE m == remover[u]
  <2>1. m \in Remover
    BY <1>0
  <2>2. PICK n : /\ Goes(u, n)
                 /\ \/ n = Rest \/ \E x : n = [Rest EXCEPT !.pc = x]
                    \/ n.todo \subseteq m.todo
    <3>1. CASE revokeCredential(u)
      <4>1. \A d : [m EXCEPT !.pc = "remove", !.cred = d,
                             !.todo = @ \ {d}].todo = m.todo \ {d}
        BY <2>1 DEF Remover
      <4> QED  BY <3>1, <4>1 DEF revokeCredential
    <3>2. CASE removeCredential(u)
      <4>1. \A x : [m EXCEPT !.pc = "close", !.cred = None,
                             !.relays = x].todo = m.todo
        BY <2>1 DEF Remover
      <4> QED  BY <3>2, <4>1 DEF removeCredential
    <3>3. CASE Close(u)
      <4>1. \A r : /\ [m EXCEPT !.at = r, !.relays = @ \ {r}].todo = m.todo
                   /\ [m EXCEPT !.at = r].todo = m.todo
        BY <2>1 DEF Remover
      <4> QED  BY <3>3, <4>1 DEF Close
    <3>4. CASE NextPhase(u)
      <4>1. \A x : /\ [m EXCEPT !.pc = "gate"].todo = m.todo
                   /\ [m EXCEPT !.pc = "rest", !.relays = x].todo = m.todo
        BY <2>1 DEF Remover
      <4> QED  BY <3>4, <4>1 DEF NextPhase
    <3> QED  BY <1>5, <3>1, <3>2, <3>3, <3>4
  <2> QED  BY ZenonT(60), <1>1, <1>3, <2>2
<1>6. CASE Revoke \/ close
  BY <1>3, <1>6 DEF Revoke, close
<1>7. \/ remover' = remover \/ Revoke \/ close
      \/ \E d \in Creds : TimerFires(d)
      \/ \E u \in Threads : RemoverStep(u)
  BY ZenonT(60) DEF Next, Tick, renewSession, MintChecked, mint, RenewLock,
         RenewCheck, Request, RelayWriteTo, auth, ReaderStep, Deleted,
         AllocatePacketConn, allocationCreated, ReaderClosed, RelayWritten,
         RelayReported, Park, channelCreated, RelayStep, CloseLater, Drain,
         allocationDeleted, ReadFrom, HandlerStep, ListenerWriteTo,
         writePacket, Finish, ReadFails, LifetimeEnds
<1> QED  BY <1>2, <1>4, <1>5, <1>6, <1>7 DEF RemoverStep

(* Only the steps of a renewal change the renewer. *)
LEMMA RenewerCases ==
  ASSUME Next
  PROVE  \/ renewer' = renewer \/ RenewCheck \/ renewSession
         \/ \E c \in Creds : RenewLock(c)
BY DEF Next, Tick, MintChecked, mint, TimerFires,
       Request, RelayWriteTo, auth, ReaderStep, Deleted,
       AllocatePacketConn, allocationCreated, ReaderClosed, RelayWritten,
       RelayReported, Park, channelCreated, RelayStep, CloseLater, Drain,
       allocationDeleted, ReadFrom, HandlerStep, ListenerWriteTo,
       writePacket, Finish, ReadFails, LifetimeEnds, Revoke, close,
       RemoverStep, quiesce, revoke, revokeCredential, removeCredential,
       Close, NextPhase

(* A renewal begins with a credential that is not revoked. *)
LEMMA RenewerMoves ==
  ASSUME TypeOK, Next
  PROVE  \/ renewer'.cred \in {renewer.cred, None}
         \/ /\ renewer'.cred \in managed /\ ~cred[renewer'.cred].revoked
            /\ cred' = cred
<1>1. ASSUME NEW c \in Creds, RenewLock(c)
      PROVE  /\ renewer'.cred \in managed /\ ~cred[renewer'.cred].revoked
             /\ cred' = cred
  BY <1>1 DEF RenewLock, MayExtend, authorized
<1>2. ASSUME RenewCheck \/ renewSession
      PROVE  renewer'.cred \in {renewer.cred, None}
  <2>1. CASE renewer' = NoRenewal
    BY <2>1 DEF NoRenewal
  <2>2. ASSUME NEW until,
               renewer' = [renewer EXCEPT !.pc = "extending", !.until = until]
        PROVE  renewer'.cred = renewer.cred
    BY <2>2 DEF TypeOK, Renewer
  <2> QED  BY <1>2, <2>1, <2>2 DEF RenewCheck, renewSession
<1> QED  BY <1>1, <1>2, RenewerCases

(* A renewal is about to write because it was, or because it has just read *)
(* the clock before the deadline.                                          *)
LEMMA ExtendMoves ==
  ASSUME TypeOK, Next, renewer'.pc = "extending"
  PROVE  /\ ~renewSession
         /\ \/ renewer' = renewer
            \/ /\ renewer'.cred = renewer.cred /\ UNCHANGED <<now, cred>>
               /\ MayExtend(renewer.cred, renewer'.until)
               /\ renewer'.until \in now..now + TTL
<1>1. ~renewSession
  BY DEF renewSession, NoRenewal
<1>2. ~\E c \in Creds : RenewLock(c)
  BY DEF RenewLock
<1>3. CASE RenewCheck
  <2>0. NoRenewal.pc # "extending"
    BY DEF NoRenewal
  <2>1. PICK until \in now..now + TTL :
          /\ MayExtend(renewer.cred, until)
          /\ renewer' = [renewer EXCEPT !.pc = "extending", !.until = until]
    BY Zenon, <1>3, <2>0 DEF RenewCheck
  <2>2. renewer'.cred = renewer.cred /\ renewer'.until = until
    BY <2>1 DEF TypeOK, Renewer
  <2> QED  BY <1>1, <1>3, <2>1, <2>2 DEF RenewCheck
<1> QED  BY <1>1, <1>2, <1>3, RenewerCases

LEMMA LeasesStep ==
  ASSUME TypeOK, Leases, [Next]_vars
  PROVE  Leases'
<1>1. CASE UNCHANGED vars
  BY <1>1 DEF vars, Leases, Unlisted, Renewing, Timely, Fresh
<1>2. ASSUME Next, NEW c \in Creds, Fresh(c)'
      PROVE  /\ ~cred'[c].revoked /\ ~cred'[c].armed
             /\ \A t \in Threads : c \notin remover'[t].todo
  <2>1. Fresh(c)
    BY <1>2, CredMoves
  <2>2. /\ ~cred[c].revoked /\ ~cred[c].armed
        /\ \A t \in Threads : c \notin remover[t].todo
        /\ renewer.cred # c /\ c \notin managed
    BY <2>1 DEF Leases, Unlisted, Renewing, Fresh, managed
  <2> QED  BY <1>2, <2>2, CredMoves, TodoMoves
<1>3. ASSUME Next, NEW c \in Creds, renewer'.cred = c
      PROVE  ~cred'[c].revoked /\ ~Fresh(c)'
  <2>1. CASE c \in managed /\ ~cred[c].revoked /\ cred' = cred
    BY <2>1 DEF managed, Fresh
  <2>2. CASE c = renewer.cred
    <3>1. ~cred[c].revoked /\ ~Fresh(c) /\ ~GateFree(c)
      BY <1>3, <2>2 DEF Leases, Renewing, GateFree, Writes
    <3> QED  BY <1>3, <3>1, CredMoves
  <2> QED  BY <1>3, <2>1, <2>2, RenewerMoves, ConstantsAssumption
<1>4. ASSUME Next, renewer'.pc = "extending" PROVE Timely'
  <2> DEFINE c == renewer.cred
  <2>1. CASE renewer' = renewer
    <3>1. c \in Creds /\ cred[c].state # "new"
      BY <1>4, <2>1 DEF Leases, Timely, Renewing, Fresh
    <3>2. cred'[c].expires = cred[c].expires
      BY <1>4, <3>1, ExtendMoves, CredMoves
    <3> QED  BY <1>4, <2>1, <3>2 DEF Leases, Timely
  <2>2. CASE /\ renewer'.cred = c /\ UNCHANGED <<now, cred>>
             /\ MayExtend(c, renewer'.until)
             /\ renewer'.until \in now..now + TTL
    <3>1. /\ c \in Creds /\ now \in Int /\ TTL \in Int
          /\ cred[c].expires \in Int
      BY <2>2, ConstantsAssumption DEF TypeOK, MayExtend, managed, Credential
    <3>2. now < cred[c].expires /\ cred[c].expires < renewer'.until
      BY <2>2, <3>1 DEF MayExtend
    <3>3. renewer'.until < cred[c].expires + TTL
      BY <2>2, <3>1, <3>2
    <3> QED  BY <2>2, <3>1, <3>2, <3>3 DEF Timely
  <2> QED  BY <1>4, <2>1, <2>2, ExtendMoves
<1>5. CASE Next
  <2>1. Unlisted'
    BY <1>2, <1>5 DEF Unlisted
  <2>2. Renewing'
    BY <1>3, <1>5 DEF Renewing, Fresh
  <2>3. Timely'
    BY <1>4, <1>5 DEF Timely
  <2> QED  BY <2>1, <2>2, <2>3 DEF Leases
<1> QED  BY <1>1, <1>5

LEMMA LeasesHold == Spec => [](TypeOK /\ Leases)
<1>1. Init => Leases
  <2> SUFFICES ASSUME Init PROVE Leases
    OBVIOUS
  <2>1. Unlisted
    BY RestIs DEF Init, Unlisted
  <2>2. renewer.cred \notin Creds
    BY ConstantsAssumption DEF Init, NoRenewal
  <2>3. renewer.pc # "extending"
    BY DEF Init, NoRenewal
  <2> QED  BY <2>1, <2>2, <2>3 DEF Leases, Renewing, Timely
<1>2. TypeOK /\ Leases /\ [Next]_vars => Leases'
  BY LeasesStep
<1> QED  BY <1>1, <1>2, TypeCorrect, PTL DEF Spec

(* expireCredential ends a lease only after its deadline, revokeSession    *)
(* and close whenever they come, and renewSession leaves the deadline of   *)
(* a credential that is revoked alone: a renewal keeps the gate from its   *)
(* check to its write, and revocation waits for the gate.                  *)
THEOREM LeasesRespected == Spec => LeaseKept
<1>1. TypeOK /\ Leases /\ [Next]_vars =>
        [\A c \in Creds :
           /\ cred'[c].revoked /\ ~cred[c].revoked =>
                \/ now >= cred[c].expires
                \/ \E t \in {Revoker, Closer} : remover'[t].cred = c
           /\ cred[c].revoked => cred'[c].expires = cred[c].expires]_vars
  <2> SUFFICES ASSUME TypeOK, Leases, Next, NEW c \in Creds
               PROVE  /\ cred'[c].revoked /\ ~cred[c].revoked =>
                           \/ now >= cred[c].expires
                           \/ \E t \in {Revoker, Closer} : remover'[t].cred = c
                      /\ cred[c].revoked => cred'[c].expires = cred[c].expires
    OBVIOUS
  <2>1. ASSUME cred'[c].revoked, ~cred[c].revoked
        PROVE  \/ now >= cred[c].expires
               \/ \E t \in {Revoker, Closer} : remover'[t].cred = c
    <3>1. PICK t \in Threads : Ends(t, c) /\ remover'[t].cred = c
      BY <2>1, CredMoves
    <3> QED  BY <3>1 DEF Ends, Threads
  <2>2. ASSUME cred[c].revoked PROVE cred'[c].expires = cred[c].expires
    <3>1. ~Fresh(c) /\ renewer.cred # c
      BY <2>2 DEF Leases, Unlisted, Renewing
    <3> QED  BY <3>1, CredMoves DEF Fresh
  <2> QED  BY <2>1, <2>2
<1> QED  BY <1>1, LeasesHold, PTL DEF Spec, LeaseKept

LEMMA ClockMoves ==
  ASSUME TypeOK, Next
  PROVE  now' = now \/ now' = now + 1
BY DEF Next, Tick, renewSession, MintChecked, mint, TimerFires, RenewLock,
       RenewCheck, Request, RelayWriteTo, auth, ReaderStep, Deleted,
       AllocatePacketConn, allocationCreated, ReaderClosed, RelayWritten,
       RelayReported, Park, channelCreated, RelayStep, CloseLater, Drain,
       allocationDeleted, ReadFrom, HandlerStep, ListenerWriteTo,
       writePacket, Finish, ReadFails, LifetimeEnds, Revoke, close,
       RemoverStep, quiesce, revoke, revokeCredential, removeCredential,
       Close, NextPhase

(* renewSession never revives a lease that has lapsed, although it asks    *)
(* authorize between its two looks at the deadline: what it writes was     *)
(* chosen, under the lock that it still has, when the deadline had not     *)
(* passed.  So each renewal moves it forward, and by less than TTL.        *)
THEOREM RenewedInTime == Spec => NoRevival
<1>1. TypeOK /\ Leases /\ [Next]_vars =>
        [\A c \in Creds :
           /\ Lapsed(c) => Lapsed(c)' \/ c \notin managed'
           /\ Renewal(c) => /\ cred[c].expires < cred'[c].expires
                            /\ cred'[c].expires < cred[c].expires + TTL]_vars
  <2> SUFFICES ASSUME TypeOK, Leases, Next, NEW c \in Creds
               PROVE  /\ Lapsed(c) => Lapsed(c)' \/ c \notin managed'
                      /\ Renewal(c) =>
                           /\ cred[c].expires < cred'[c].expires
                           /\ cred'[c].expires < cred[c].expires + TTL
    OBVIOUS
  <2>0. now \in Int /\ cred[c].expires \in Int
    BY DEF TypeOK, Credential
  <2>1. ASSUME Lapsed(c), c \in managed' PROVE Lapsed(c)'
    <3>1. /\ cred[c].state # "new" /\ now >= cred[c].expires
          /\ ~(renewer.pc = "extending" /\ renewer.cred = c)
      BY <2>1 DEF Lapsed, managed
    <3>2. cred'[c].expires = cred[c].expires
      BY <3>1, CredMoves DEF renewSession
    <3>3. now' >= now
      BY <2>0, ClockMoves
    <3>4. now' >= cred'[c].expires
      BY <2>0, <3>1, <3>2, <3>3, ClockMoves
    <3>5. ~(renewer'.pc = "extending" /\ renewer'.cred = c)
      <4> SUFFICES ASSUME renewer'.pc = "extending", renewer'.cred = c
                   PROVE  FALSE
        OBVIOUS
      <4>1. MayExtend(c, renewer'.until)
        BY <3>1, ExtendMoves
      <4> QED  BY <2>0, <3>1, <4>1 DEF MayExtend
    <3> QED  BY <2>1, <3>4, <3>5 DEF Lapsed
  <2>2. ASSUME Renewal(c)
        PROVE  /\ cred[c].expires < cred'[c].expires
               /\ cred'[c].expires < cred[c].expires + TTL
    <3>1. /\ renewSession /\ renewer.cred = c
          /\ cred'[c].expires = renewer.until
      BY <2>2, CredMoves DEF Renewal
    <3> QED  BY <3>1 DEF renewSession, Leases, Timely
  <2> QED  BY <2>1, <2>2
<1> QED  BY <1>1, LeasesHold, PTL DEF Spec, NoRevival
=============================================================================
