------------------------- MODULE AuthRefreshProofs --------------------------
(***************************************************************************)
(* Proofs about AuthRefresh, for any number of processes, logins and       *)
(* attempts.  The inductive invariant says who holds the lock, which       *)
(* numbers have been drawn, what a lock holder may rely on, and that of    *)
(* all requests ever sent for the session of the profile only the one the  *)
(* journal holds can still rotate it.                                      *)
(***************************************************************************)
EXTENDS AuthRefresh, TLAPS

Holding == {"begun", "waiting", "saved"}

(* The lock is held by the one process that rotates, or by the command. *)
Owners ==
    /\ \A p \in Procs : proc[p].pc \in Holding <=> lock = p
    /\ cli.pc # "idle" <=> lock = Cli

(* Secrets and sessions in use have been drawn and issued. *)
Numbered ==
    /\ \A s \in Sessions :
         /\ auth[s].refresh <= drawn /\ auth[s].previous <= drawn
         /\ auth[s].request <= drawn
         /\ s > logins => auth[s] = NoAuth
    /\ profile.id <= drawn /\ profile.session <= logins
    /\ journal.id <= drawn /\ journal.session <= logins
    /\ \A m \in sent : m.id <= drawn /\ m.session \in 1..logins
    /\ \A p \in Procs : proc[p].creds.session <= logins
    /\ cli.pc = "issued" => cli.session \in 1..logins

(* What a process may rely on while it holds the lock. *)
Attempt ==
    \A p \in Procs :
      /\ proc[p].pc # "off" => proc[p].creds.session # 0
      /\ proc[p].pc \in {"begun", "waiting"} =>
           /\ proc[p].creds = profile
           /\ journal.some => /\ journal.session = profile.session
                              /\ journal.expected = profile.generation
      /\ proc[p].pc = "waiting" => journal.some
      /\ proc[p].pc = "saved" =>
           /\ proc[p].creds.session = profile.session
           /\ journal.some /\ journal.session = profile.session
           /\ journal.expected < profile.generation

(* A session that was just issued is known to nobody else. *)
Unknown(s) ==
    /\ \A m \in sent : m.session # s
    /\ journal.some => journal.session # s
    /\ \A p \in Procs : proc[p].creds.session # s
NewLogin ==
    /\ cli.pc = "issued" =>
         /\ Unknown(cli.session) /\ profile.session # cli.session
         /\ Live(cli.session) => /\ auth[cli.session].generation = 1
                                 /\ auth[cli.session].refresh = 0
    /\ cli.pc = "replaced" =>
         /\ \A m \in sent : m.session # profile.session
         /\ Live(profile.session) /\ journal.some =>
              journal.session # profile.session

AuthFits ==
    \A s \in Sessions : Live(s) =>
        /\ auth[s].previous # auth[s].refresh
        /\ auth[s].request # None =>
             /\ auth[s].refresh = auth[s].request
             /\ auth[s].generation = auth[s].expected + 1

(* Of the requests for the session of the profile only the attempt in the  *)
(* journal is not finished.                                                *)
SentFits ==
    \A m \in sent :
      /\ m.session = profile.session =>
           \/ m.expected < profile.generation
           \/ /\ m.expected = profile.generation /\ m.proof = profile.id
              /\ journal.some /\ journal.session = m.session
              /\ journal.expected = m.expected /\ journal.id = m.id
      /\ journal.some /\ m.id = journal.id =>
           m.session = journal.session /\ m.expected = journal.expected

(* An attempt the server has not committed uses a secret it has not seen. *)
Untried ==
    LET s == profile.session
    IN  Live(s) /\ profile.generation = auth[s].generation
          /\ journal.some /\ journal.session = s
          /\ journal.expected = profile.generation =>
            journal.id \notin {auth[s].refresh, auth[s].previous,
                               auth[s].request}

ReplyFits ==
    reply.some =>
      /\ \E p \in Procs : proc[p].pc = "waiting"
      /\ reply.reason = "receipt" /\ Live(profile.session) =>
           auth[profile.session].generation = profile.generation + 1

(* The inductive invariant. *)
IInv ==
    /\ TypeOK /\ Owners /\ Numbered /\ Attempt /\ NewLogin /\ AuthFits
    /\ SentFits /\ Untried /\ ReplyFits
    /\ Recoverable /\ NeverRefused /\ NeverStale /\ OnlyLiveAdmits

USE DEF None, Free, Cli

-----------------------------------------------------------------------------
(* Types *)

LEMMA TypeInit == Init => TypeOK
BY ConstantsAssumption DEF Init, TypeOK, NoAuth, AuthSession, Id, LoggedOut,
   Credentials, NoPending, Pending, NoReply, Reply, Reasons, Pc, CliPc

LEMMA RevokedType ==
  ASSUME NEW a \in [Sessions -> AuthSession], NEW S
  PROVE  Revoked(a, S) \in [Sessions -> AuthSession]
BY DEF Revoked, AuthSession

LEMMA IssuedType ==
  ASSUME NEW a \in [Sessions -> AuthSession], NEW s \in Sessions
  PROVE  Issued(a, s) \in [Sessions -> AuthSession]
BY DEF Issued, AuthSession, Id

LEMMA RefusalRange ==
  ASSUME NEW m
  PROVE  Refusal(m) \in Reasons \cup {"rotate"}
BY DEF Refusal, Reasons

LEMMA TypeServer == TypeOK /\ Numbered /\ ServerStep => TypeOK'
<1> SUFFICES ASSUME TypeOK, Numbered, ServerStep PROVE TypeOK'
  OBVIOUS
<1>1. ASSUME NEW m \in sent, refreshAuth(m) PROVE TypeOK'
  <2>1. m \in Request /\ m.session \in Sessions
    BY ConstantsAssumption DEF TypeOK, Numbered, Sessions
  <2>2. auth[m.session] \in AuthSession
    BY <2>1 DEF TypeOK
  <2>3. CASE Refusal(m) = "rotate"
    <3>1. Rotated(auth[m.session], m) \in AuthSession
      BY <2>1, <2>2 DEF Rotated, AuthSession, Request, Id
    <3>2. auth' \in [Sessions -> AuthSession]
      BY <1>1, <2>3, <3>1 DEF refreshAuth, TypeOK
    <3>3. tokens' \subseteq Sessions \X Nat
      BY <1>1, <2>1, <2>3 DEF refreshAuth, TypeOK, Admitted, Request
    <3>4. reply' \in Reply
      <4>1. Answered(m, "receipt", auth[m.session].generation + 1)
        BY <1>1, <2>3 DEF refreshAuth
      <4>2. auth[m.session].generation + 1 \in Nat
        BY <2>2 DEF AuthSession
      <4>3. "receipt" \in Reasons
        BY DEF Reasons
      <4>4. \/ reply' = reply
            \/ reply' = [some |-> TRUE, reason |-> "receipt",
                         generation |-> auth[m.session].generation + 1]
        BY <4>1 DEF Answered
      <4>5. reply \in Reply
        BY DEF TypeOK
      <4>6. [some |-> TRUE, reason |-> "receipt",
             generation |-> auth[m.session].generation + 1] \in Reply
        BY <4>2, <4>3 DEF Reply
      <4> QED BY <4>4, <4>5, <4>6
    <3> QED BY <1>1, <3>2, <3>3, <3>4 DEF refreshAuth, TypeOK, fileVars
  <2>4. CASE Refusal(m) # "rotate"
    <3>1. Answered(m, Refusal(m), auth[m.session].generation)
      BY <1>1, <2>4 DEF refreshAuth
    <3>2. auth[m.session].generation \in Nat /\ Refusal(m) \in Reasons
      BY <2>2, <2>4, RefusalRange DEF AuthSession
    <3>3. reply' \in Reply
      <4>1. \/ reply' = reply
            \/ reply' = [some |-> TRUE, reason |-> Refusal(m),
                         generation |-> auth[m.session].generation]
        BY <3>1 DEF Answered
      <4>2. reply \in Reply
        BY DEF TypeOK
      <4>3. [some |-> TRUE, reason |-> Refusal(m),
             generation |-> auth[m.session].generation] \in Reply
        BY <3>2 DEF Reply
      <4> QED BY <4>1, <4>2, <4>3
    <3> QED BY <1>1, <2>4, <3>3 DEF refreshAuth, TypeOK, fileVars
  <2> QED BY <2>3, <2>4
<1>2. ASSUME NEW s \in Sessions, deleteAuthSession(s) PROVE TypeOK'
  BY <1>2, RevokedType DEF deleteAuthSession, TypeOK, Withdrawn, fileVars
<1>3. ASSUME NEW s \in Sessions, RefreshExpires(s) PROVE TypeOK'
  BY <1>3 DEF RefreshExpires, TypeOK, Withdrawn, fileVars, AuthSession
<1>4. ASSUME NEW s \in Sessions, maintenance(s) PROVE TypeOK'
  <2>1. NoAuth \in AuthSession
    BY DEF NoAuth, AuthSession, Id
  <2> QED BY <1>4, <2>1 DEF maintenance, TypeOK, fileVars
<1>5. CASE updateAccount
  BY <1>5, RevokedType DEF updateAccount, TypeOK, fileVars
<1>6. CASE TokenExpires
  BY <1>6 DEF TokenExpires, TypeOK, fileVars
<1> QED BY <1>1, <1>2, <1>3, <1>4, <1>5, <1>6 DEF ServerStep

LEMMA TypeProc ==
  ASSUME TypeOK, NEW p \in Procs, ProcStep(p) PROVE TypeOK'
<1> USE DEF TypeOK, serverVars, fileVars
<1>0. proc[p] \in [pc : Pc, creds : Credentials]
  OBVIOUS
<1>1. CASE newClient(p)
  BY <1>1 DEF newClient, Pc
<1>2. CASE Begin(p)
  <2>1. NoPending \in Pending
    BY DEF NoPending, Pending
  <2> QED BY <1>2, <2>1 DEF Begin, Pc, acquireProfile
<1>3. CASE Prepare(p)
  <2>1. drawn' \in 0..MaxRequests
    BY <1>3, ConstantsAssumption DEF Prepare
  <2>2. journal' \in Pending
    BY <1>0, <1>3, <2>1 DEF Prepare, Pending, Credentials
  <2> QED BY <1>3, <2>1, <2>2 DEF Prepare
<1>4. CASE Send(p)
  <2>1. sent' \subseteq Request
    BY <1>0, <1>4 DEF Send, Request, Pending, Credentials
  <2>2. NoReply \in Reply
    BY DEF NoReply, Reply, Reasons
  <2>3. proc' \in [Procs -> [pc : Pc, creds : Credentials]]
    BY <1>4 DEF Send, Pc
  <2> QED BY <1>4, <2>1, <2>2, <2>3 DEF Send
<1>5. CASE Commit(p)
  <2>1. profile' \in Credentials
    <3>1. /\ proc[p].creds \in Credentials /\ journal.id \in Nat
          /\ proc[p].creds.generation + 1 \in Nat
      BY <1>0 DEF Credentials, Pending
    <3> QED BY <1>5, <3>1 DEF Commit, Successor, Credentials
  <2>2. NoReply \in Reply
    BY DEF NoReply, Reply, Reasons
  <2>3. proc' \in [Procs -> [pc : Pc, creds : Credentials]]
    BY <1>5 DEF Commit, Pc
  <2> QED BY <1>5, <2>1, <2>2, <2>3 DEF Commit
<1>6. CASE removePrivatePending(p)
  <2>1. NoPending \in Pending
    BY DEF NoPending, Pending
  <2> QED BY <1>6, <2>1 DEF removePrivatePending, Pc, release
<1>7. CASE End(p)
  <2>1. NoReply \in Reply
    BY DEF NoReply, Reply, Reasons
  <2> QED BY <1>7, <2>1 DEF End, Pc, release
<1>8. CASE Crash(p)
  <2>1. NoReply \in Reply /\ LoggedOut \in Credentials
    BY DEF NoReply, Reply, Reasons, LoggedOut, Credentials
  <2> QED BY <1>8, <2>1 DEF Crash, Pc, release
<1> QED BY <1>1, <1>2, <1>3, <1>4, <1>5, <1>6, <1>7, <1>8 DEF ProcStep

LEMMA TypeCli == TypeOK /\ CliStep => TypeOK'
<1> SUFFICES ASSUME TypeOK, CliStep PROVE TypeOK'
  OBVIOUS
<1> USE DEF TypeOK, serverVars, fileVars, CliPc
<1>1. CASE registration
  <2>1. logins' \in Sessions /\ logins' \in Nat
    BY <1>1, ConstantsAssumption DEF registration, Sessions
  <2>2. auth' \in [Sessions -> AuthSession]
    BY <1>1, <2>1, IssuedType DEF registration
  <2>3. tokens' \subseteq Sessions \X Nat /\ logins' \in 0..MaxLogins
    BY <1>1, <2>1 DEF registration, Sessions
  <2> QED BY <1>1, <2>1, <2>2, <2>3 DEF registration, acquireProfile
<1>2. CASE updateAccountCredentials
  <2>1. logins' \in Sessions /\ logins' \in Nat
    BY <1>2, ConstantsAssumption DEF updateAccountCredentials, Sessions
  <2>2. auth' \in [Sessions -> AuthSession]
    BY <1>2, <2>1, IssuedType, RevokedType DEF updateAccountCredentials
  <2>3. tokens' \subseteq Sessions \X Nat /\ logins' \in 0..MaxLogins
    BY <1>2, <2>1 DEF updateAccountCredentials, Sessions
  <2> QED BY <1>2, <2>1, <2>2, <2>3 DEF updateAccountCredentials, acquireProfile
<1>3. CASE logoutAuth
  BY <1>3, RevokedType DEF logoutAuth, Withdrawn, acquireProfile
<1>4. CASE saveConfig
  <2>1. profile' \in Credentials
    BY <1>4 DEF saveConfig, Credentials, LoggedOut
  <2> QED BY <1>4, <2>1 DEF saveConfig
<1>5. CASE CliRemovePending
  <2>1. NoPending \in Pending
    BY DEF NoPending, Pending
  <2> QED BY <1>5, <2>1 DEF CliRemovePending, release
<1>6. CASE CliStops
  BY <1>6 DEF CliStops, release
<1> QED BY <1>1, <1>2, <1>3, <1>4, <1>5, <1>6 DEF CliStep

LEMMA TypeStep == TypeOK /\ Numbered /\ [Next]_vars => TypeOK'
<1> SUFFICES ASSUME TypeOK, Numbered, [Next]_vars PROVE TypeOK'
  OBVIOUS
<1>1. CASE UNCHANGED vars
  BY <1>1 DEF vars, serverVars, fileVars, TypeOK
<1> QED BY <1>1, TypeServer, TypeProc, TypeCli DEF Next

-----------------------------------------------------------------------------
(* The lock and the numbers *)

LEMMA OwnersStep == TypeOK /\ Owners /\ [Next]_vars => Owners'
<1> SUFFICES ASSUME TypeOK, Owners, [Next]_vars PROVE Owners'
  OBVIOUS
<1> USE ConstantsAssumption DEF Owners, Holding
<1>1. CASE ServerStep \/ UNCHANGED vars
  BY <1>1 DEF ServerStep, refreshAuth, deleteAuthSession, RefreshExpires,
     maintenance, updateAccount, TokenExpires, vars
<1>2. ASSUME NEW p \in Procs, ProcStep(p) PROVE Owners'
  <2>1. proc[p] \in [pc : Pc, creds : Credentials]
    BY DEF TypeOK
  <2>2. proc \in [Procs -> [pc : Pc, creds : Credentials]]
    BY DEF TypeOK
  <2>3. CASE newClient(p)
    BY <2>2, <2>3 DEF newClient
  <2>4. CASE Begin(p)
    BY <2>2, <2>4 DEF Begin, acquireProfile
  <2>5. CASE Prepare(p)
    BY <2>5 DEF Prepare
  <2>6. CASE Send(p)
    BY <2>2, <2>6 DEF Send
  <2>7. CASE Commit(p)
    BY <2>2, <2>7 DEF Commit
  <2>8. CASE removePrivatePending(p)
    BY <2>2, <2>8 DEF removePrivatePending, release
  <2>9. CASE End(p)
    BY <2>2, <2>9 DEF End, release
  <2>10. CASE Crash(p)
    BY <2>2, <2>10 DEF Crash, release
  <2> QED BY <1>2, <2>3, <2>4, <2>5, <2>6, <2>7, <2>8, <2>9, <2>10 DEF ProcStep
<1>3. CASE CliStep
  <2>1. cli \in [pc : CliPc, session : Nat]
    BY DEF TypeOK
  <2> QED BY <1>3, <2>1 DEF CliStep, registration, updateAccountCredentials,
          logoutAuth, saveConfig, CliRemovePending, CliStops,
          acquireProfile, release
<1> QED BY <1>1, <1>2, <1>3 DEF Next

(* What each variable's type says of the fields the proofs use. *)
LEMMA Fields ==
  ASSUME TypeOK
  PROVE  /\ drawn \in Nat /\ logins \in 0..MaxLogins
         /\ profile.session \in Nat /\ profile.generation \in Nat
         /\ profile.id \in Nat
         /\ journal.session \in Nat /\ journal.expected \in Nat
         /\ journal.id \in Nat /\ journal.some \in BOOLEAN
         /\ cli.session \in Nat /\ reply.some \in BOOLEAN
         /\ \A p \in Procs : /\ proc[p].creds \in Credentials
                             /\ proc[p].creds.session \in Nat
                             /\ proc[p].creds.generation \in Nat
                             /\ proc[p].creds.id \in Nat
         /\ \A s \in Sessions : /\ auth[s].generation \in Nat
                                /\ auth[s].refresh \in Int
                                /\ auth[s].previous \in Int
                                /\ auth[s].request \in Int
                                /\ auth[s].expected \in Nat
         /\ \A m \in sent : /\ m.session \in Nat /\ m.proof \in Nat
                            /\ m.expected \in Nat /\ m.id \in Nat
         /\ \A t \in tokens : t[1] \in Sessions /\ t[2] \in Nat
<1> USE DEF TypeOK
<1>1. drawn \in Nat /\ logins \in 0..MaxLogins
  BY ConstantsAssumption
<1>2. /\ profile.session \in Nat /\ profile.generation \in Nat
      /\ profile.id \in Nat
  BY DEF Credentials
<1>3. /\ journal.session \in Nat /\ journal.expected \in Nat
      /\ journal.id \in Nat /\ journal.some \in BOOLEAN
  BY DEF Pending
<1>4. cli.session \in Nat /\ reply.some \in BOOLEAN
  BY DEF Reply
<1>5. \A p \in Procs : /\ proc[p].creds \in Credentials
                       /\ proc[p].creds.session \in Nat
                       /\ proc[p].creds.generation \in Nat
                       /\ proc[p].creds.id \in Nat
  BY DEF Credentials
<1>6. \A s \in Sessions : /\ auth[s].generation \in Nat
                          /\ auth[s].refresh \in Int
                          /\ auth[s].previous \in Int
                          /\ auth[s].request \in Int
                          /\ auth[s].expected \in Nat
  BY DEF AuthSession, Id
<1>7. \A m \in sent : /\ m.session \in Nat /\ m.proof \in Nat
                      /\ m.expected \in Nat /\ m.id \in Nat
  BY DEF Request
<1>8. \A t \in tokens : t[1] \in Sessions /\ t[2] \in Nat
  OBVIOUS
<1> QED BY <1>1, <1>2, <1>3, <1>4, <1>5, <1>6, <1>7, <1>8

(* refreshAuth rotates only a live session, on its current secret. *)
LEMMA RotateOk ==
  ASSUME TypeOK, NEW m \in sent, m.session \in Sessions,
         Refusal(m) = "rotate"
  PROVE  /\ Live(m.session)
         /\ m.proof = auth[m.session].refresh
         /\ m.proof # auth[m.session].previous
         /\ m.expected = auth[m.session].generation
         /\ m.id \notin {auth[m.session].refresh, auth[m.session].previous,
                         auth[m.session].request}
<1>1. auth[m.session].state \in {"none", "live", "expired", "revoked"}
  BY DEF TypeOK, AuthSession
<1> QED BY <1>1 DEF Refusal, Live, Used

(* The server's other steps end sessions and change nothing else. *)
Ending ==
    \/ \E s \in Sessions :
         deleteAuthSession(s) \/ RefreshExpires(s) \/ maintenance(s)
    \/ updateAccount \/ TokenExpires

LEMMA EndingOnlyEnds ==
  ASSUME TypeOK, Ending
  PROVE  /\ \A s \in Sessions : auth'[s].state = "live" =>
              auth[s].state = "live" /\ auth'[s] = auth[s]
         /\ \A s \in Sessions :
              \/ auth'[s] = NoAuth
              \/ /\ auth[s] # NoAuth \/ auth'[s] = auth[s]
                 /\ auth'[s].refresh = auth[s].refresh
                 /\ auth'[s].previous = auth[s].previous
                 /\ auth'[s].request = auth[s].request
         /\ tokens' \subseteq tokens
         /\ UNCHANGED <<logins, drawn, sent, profile, journal, lock, proc,
                        reply, cli>>
<1>0. auth \in [Sessions -> AuthSession]
  BY DEF TypeOK
<1>1. ASSUME NEW S \in SUBSET Sessions, NEW s \in Sessions,
             auth' = Revoked(auth, S)
      PROVE  /\ auth'[s].state = "live" =>
                  auth[s].state = "live" /\ auth'[s] = auth[s]
             /\ auth[s] # NoAuth \/ auth'[s] = auth[s]
             /\ auth'[s].refresh = auth[s].refresh
             /\ auth'[s].previous = auth[s].previous
             /\ auth'[s].request = auth[s].request
  BY <1>0, <1>1 DEF Revoked, NoAuth, AuthSession
<1>2. ASSUME NEW s \in Sessions, deleteAuthSession(s)
      PROVE  auth' = Revoked(auth, {s}) /\ tokens' \subseteq tokens
             /\ UNCHANGED <<logins, drawn, sent, profile, journal, lock,
                            proc, reply, cli>>
  BY <1>2 DEF deleteAuthSession, Withdrawn, fileVars
<1>3. ASSUME updateAccount
      PROVE  auth' = Revoked(auth, Sessions) /\ tokens' \subseteq tokens
             /\ UNCHANGED <<logins, drawn, sent, profile, journal, lock,
                            proc, reply, cli>>
  BY <1>3 DEF updateAccount, fileVars
<1>4. CASE \E s \in Sessions : deleteAuthSession(s)
  BY <1>1, <1>2, <1>4
<1>5. CASE updateAccount
  BY <1>1, <1>3, <1>5
<1>6. CASE \E s \in Sessions : RefreshExpires(s)
  <2> PICK r \in Sessions : RefreshExpires(r)
    BY <1>6
  <2>1. auth' = [auth EXCEPT ![r].state = "expired"]
        /\ auth[r].state = "live" /\ tokens' \subseteq tokens
        /\ UNCHANGED <<logins, drawn, sent, profile, journal, lock, proc,
                       reply, cli>>
    BY DEF RefreshExpires, Live, Withdrawn, fileVars
  <2> QED BY <1>0, <2>1 DEF AuthSession, NoAuth
<1>7. CASE \E s \in Sessions : maintenance(s)
  <2> PICK r \in Sessions : maintenance(r)
    BY <1>7
  <2>1. auth' = [auth EXCEPT ![r] = NoAuth] /\ tokens' = tokens
        /\ UNCHANGED <<logins, drawn, sent, profile, journal, lock, proc,
                       reply, cli>>
    BY DEF maintenance, fileVars
  <2>2. NoAuth.state # "live"
    BY DEF NoAuth
  <2> QED BY <1>0, <2>1, <2>2
<1>8. CASE TokenExpires
  BY <1>8 DEF TokenExpires, fileVars
<1> QED BY <1>4, <1>5, <1>6, <1>7, <1>8 DEF Ending

(* A step of a process with number p; the other processes are not touched. *)
LEMMA OnlyProc ==
  ASSUME TypeOK, NEW p \in Procs, ProcStep(p)
  PROVE  /\ \A q \in Procs \ {p} : proc'[q] = proc[q]
         /\ UNCHANGED <<auth, tokens, logins, cli>>
BY DEF ProcStep, newClient, Begin, Prepare, Send, Commit,
   removePrivatePending, End, Crash, TypeOK, serverVars

LEMMA NumberedStep ==
  TypeOK /\ Owners /\ Numbered /\ Attempt /\ [Next]_vars => Numbered'
<1> SUFFICES ASSUME TypeOK, Owners, Numbered, Attempt, [Next]_vars
             PROVE  Numbered'
  OBVIOUS
<1>f. drawn \in Nat /\ logins \in 0..MaxLogins
  BY Fields
<1>0. CASE UNCHANGED vars
  BY <1>0 DEF Numbered, vars, serverVars, fileVars
<1>1. ASSUME NEW m \in sent, refreshAuth(m) PROVE Numbered'
  <2>1. m.session \in Sessions /\ m.session <= logins
        /\ m.id \in Nat /\ m.id <= drawn /\ m.proof \in Nat
    BY Fields, ConstantsAssumption DEF Numbered, Sessions
  <2>2. CASE Refusal(m) # "rotate"
    BY <1>1, <2>2 DEF refreshAuth, Numbered, fileVars
  <2>3. CASE Refusal(m) = "rotate"
    <3>1. m.proof <= drawn
      BY <2>1, <2>3, RotateOk DEF Numbered
    <3>2. auth' = [auth EXCEPT ![m.session] = Rotated(@, m)]
          /\ UNCHANGED <<logins, drawn, sent, profile, journal, proc, cli>>
      BY <1>1, <2>3 DEF refreshAuth, fileVars
    <3>3. \A s \in Sessions :
            /\ auth'[s].refresh <= drawn /\ auth'[s].previous <= drawn
            /\ auth'[s].request <= drawn
            /\ s > logins => auth'[s] = NoAuth
      <4> TAKE s \in Sessions
      <4>1. CASE s = m.session
        BY <2>1, <3>1, <3>2, <4>1 DEF Rotated, TypeOK, Sessions
      <4>2. CASE s # m.session
        BY <3>2, <4>2 DEF TypeOK, Numbered
      <4> QED BY <4>1, <4>2
    <3> QED BY <3>2, <3>3 DEF Numbered
  <2> QED BY <2>2, <2>3
<1>2. CASE Ending
  <2>1. \A s \in Sessions :
          /\ auth'[s].refresh <= drawn /\ auth'[s].previous <= drawn
          /\ auth'[s].request <= drawn
          /\ s > logins => auth'[s] = NoAuth
    BY <1>f, <1>2, EndingOnlyEnds DEF Numbered, NoAuth
  <2> QED BY <1>2, <2>1, EndingOnlyEnds DEF Numbered
<1>3. ASSUME NEW p \in Procs, ProcStep(p) PROVE Numbered'
  <2>1. /\ \A q \in Procs \ {p} : proc'[q] = proc[q]
        /\ UNCHANGED <<auth, tokens, logins, cli>>
    BY <1>3, OnlyProc
  <2> USE <1>f
  <2>2. drawn' \in Nat /\ drawn <= drawn'
    BY <1>3 DEF ProcStep, newClient, Begin, Prepare, Send, Commit,
       removePrivatePending, End, Crash
  <2>3. \A s \in Sessions :
          /\ auth[s].refresh <= drawn' /\ auth[s].previous <= drawn'
          /\ auth[s].request <= drawn'
    BY <2>2, Fields DEF Numbered
  <2>4. proc'[p].creds.session <= logins
    BY <1>3 DEF ProcStep, newClient, Begin, Prepare, Send, Commit,
       removePrivatePending, End, Crash, TypeOK, Numbered, LoggedOut
  <2>5. profile'.id <= drawn' /\ profile'.session <= logins
    BY <1>3, <2>2, Fields DEF ProcStep, newClient, Begin, Prepare, Send,
       Commit, Successor, removePrivatePending, End, Crash, Numbered,
       fileVars
  <2>6. journal'.id <= drawn' /\ journal'.session <= logins
    BY <1>3, <2>2, Fields DEF ProcStep, newClient, Begin, Prepare, Send,
       Commit, removePrivatePending, End, Crash, Numbered, NoPending,
       fileVars
  <2>7. \A m \in sent' : m.id <= drawn' /\ m.session \in 1..logins
    <3>1. CASE Send(p)
      BY <2>2, <3>1, Fields DEF Send, Numbered, Attempt
    <3>2. CASE ~Send(p)
      BY <1>3, <2>2, <3>2, Fields DEF ProcStep, newClient, Begin, Prepare,
         Commit, removePrivatePending, End, Crash, Numbered
    <3> QED BY <3>1, <3>2
  <2> QED BY <2>1, <2>2, <2>3, <2>4, <2>5, <2>6, <2>7 DEF Numbered
<1>4. CASE CliStep
  <2>1. ASSUME NEW a \in [Sessions -> AuthSession], logins < MaxLogins,
               logins' = logins + 1, auth' = Issued(a, logins'),
               a = auth \/ a = Revoked(auth, Sessions), drawn' = drawn
        PROVE  \A s \in Sessions :
                 /\ auth'[s].refresh <= drawn /\ auth'[s].previous <= drawn
                 /\ auth'[s].request <= drawn
                 /\ s > logins' => auth'[s] = NoAuth
    <3>1. \A s \in Sessions :
            /\ a[s].refresh = auth[s].refresh
            /\ a[s].previous = auth[s].previous
            /\ a[s].request = auth[s].request
            /\ auth[s] = NoAuth => a[s] = NoAuth
      BY <2>1 DEF Revoked, TypeOK, AuthSession, NoAuth
    <3>2. \A s \in Sessions : s # logins' => auth'[s] = a[s]
      BY <2>1 DEF Issued
    <3>3. /\ logins' \in Sessions
          /\ auth'[logins'].refresh = 0 /\ auth'[logins'].previous = -1
          /\ auth'[logins'].request = -1
      BY <1>f, <2>1, ConstantsAssumption DEF Issued, Sessions
    <3> TAKE s \in Sessions
    <3>4. CASE s = logins'
      BY <1>f, <2>1, <3>3, <3>4
    <3>5. CASE s # logins'
      <4>1. s > logins' => s > logins
        BY <1>f, <2>1 DEF Sessions
      <4> QED BY <3>1, <3>2, <3>5, <4>1 DEF Numbered
    <3> QED BY <3>4, <3>5
  <2>2. auth \in [Sessions -> AuthSession]
        /\ Revoked(auth, Sessions) \in [Sessions -> AuthSession]
    BY RevokedType DEF TypeOK
  <2>3. CASE registration
    <3>1. /\ logins' = logins + 1 /\ logins < MaxLogins
          /\ auth' = Issued(auth, logins')
          /\ cli' = [pc |-> "issued", session |-> logins']
          /\ UNCHANGED <<drawn, sent, profile, journal, proc>>
      BY <2>3 DEF registration, fileVars
    <3> QED BY <1>f, <2>1, <2>2, <3>1, Fields DEF Numbered
  <2>4. CASE updateAccountCredentials
    <3>1. /\ logins' = logins + 1 /\ logins < MaxLogins
          /\ auth' = Issued(Revoked(auth, Sessions), logins')
          /\ cli' = [pc |-> "issued", session |-> logins']
          /\ UNCHANGED <<drawn, sent, profile, journal, proc>>
      BY <2>4 DEF updateAccountCredentials, fileVars
    <3> QED BY <1>f, <2>1, <2>2, <3>1, Fields DEF Numbered
  <2>5. CASE logoutAuth
    <3>1. /\ auth' = Revoked(auth, {profile.session})
          /\ cli' = [pc |-> "revoked", session |-> 0]
          /\ UNCHANGED <<logins, drawn, sent, profile, journal, proc>>
      BY <2>5 DEF logoutAuth, fileVars
    <3>2. \A s \in Sessions :
            /\ auth'[s].refresh = auth[s].refresh
            /\ auth'[s].previous = auth[s].previous
            /\ auth'[s].request = auth[s].request
            /\ auth[s] = NoAuth => auth'[s] = NoAuth
      BY <3>1 DEF Revoked, TypeOK, AuthSession, NoAuth
    <3> QED BY <3>1, <3>2 DEF Numbered
  <2>6. CASE saveConfig
    BY <1>f, <2>6 DEF saveConfig, Numbered, LoggedOut, serverVars, TypeOK
  <2>7. CASE CliRemovePending \/ CliStops
    BY <1>f, <2>7 DEF CliRemovePending, CliStops, Numbered, NoPending,
       serverVars, fileVars
  <2> QED BY <1>4, <2>3, <2>4, <2>5, <2>6, <2>7 DEF CliStep
<1> QED BY <1>0, <1>1, <1>2, <1>3, <1>4 DEF Next, ServerStep, Ending

-----------------------------------------------------------------------------
(* What the lock holder relies on *)

LEMMA AttemptStep ==
  TypeOK /\ Owners /\ Attempt /\ [Next]_vars => Attempt'
<1> SUFFICES ASSUME TypeOK, Owners, Attempt, [Next]_vars PROVE Attempt'
  OBVIOUS
<1>1. CASE UNCHANGED <<profile, journal, proc>>
  BY <1>1 DEF Attempt
<1>2. ASSUME NEW p \in Procs, ProcStep(p) PROVE Attempt'
  <2>1. \A q \in Procs \ {p} : proc'[q] = proc[q]
    BY <1>2, OnlyProc
  <2>2. /\ proc[p].pc \in Holding =>
             \A q \in Procs \ {p} : proc[q].pc \notin Holding
        /\ lock = Free => \A q \in Procs : proc[q].pc \notin Holding
    BY ConstantsAssumption DEF Owners
  <2> USE DEF TypeOK, Holding
  <2>3. CASE newClient(p)
    BY <2>1, <2>3 DEF newClient, Attempt, fileVars
  <2>4. CASE Begin(p)
    <3>1. /\ \A q \in Procs \ {p} : proc'[q].pc \notin Holding
          /\ \A q \in Procs \ {p} :
               proc'[q].pc # "off" => proc'[q].creds.session # 0
      BY <2>1, <2>2, <2>4 DEF Begin, acquireProfile, Attempt
    <3>2. /\ proc'[p].pc = "begun" /\ proc'[p].creds = profile
          /\ profile' = profile /\ profile.session # 0
      BY <2>4 DEF Begin, BeginOk, Attempt
    <3>3. journal'.some => /\ journal'.session = profile.session
                           /\ journal'.expected = profile.generation
      BY <2>4 DEF Begin, BeginOk, NoPending
    <3> QED BY <3>1, <3>2, <3>3 DEF Attempt
  <2>5. CASE Prepare(p)
    <3>1. \A q \in Procs \ {p} : proc[q].pc \notin Holding
      BY <2>2, <2>5 DEF Prepare
    <3> QED BY <2>5, <3>1 DEF Prepare, Attempt
  <2>6. CASE Send(p)
    BY <2>1, <2>6 DEF Send, Attempt, fileVars
  <2>7. CASE Commit(p)
    <3>1. \A q \in Procs \ {p} : proc'[q].pc \notin Holding
      BY <2>1, <2>2, <2>7 DEF Commit
    <3>2. /\ proc[p].creds = profile /\ journal.some
          /\ journal.session = profile.session
          /\ journal.expected = profile.generation
          /\ proc[p].creds.session # 0
      BY <2>7 DEF Commit, Attempt
    <3>3. /\ proc'[p].pc = "saved" /\ proc'[p].creds = proc[p].creds
          /\ profile'.session = profile.session
          /\ profile'.generation = profile.generation + 1
          /\ journal' = journal
      BY <2>7, <3>2 DEF Commit, Successor
    <3> QED BY <2>1, <3>1, <3>2, <3>3, Fields DEF Attempt
  <2>8. CASE removePrivatePending(p)
    <3>1. \A q \in Procs \ {p} : proc'[q].pc \notin Holding
      BY <2>1, <2>2, <2>8 DEF removePrivatePending
    <3>2. proc'[p].pc = "idle" /\ proc'[p].creds.session # 0
      BY <2>8 DEF removePrivatePending, Attempt
    <3> QED BY <2>1, <3>1, <3>2 DEF Attempt
  <2>9. CASE End(p)
    BY <2>1, <2>9 DEF End, Attempt, fileVars
  <2>10. CASE Crash(p)
    BY <2>1, <2>10 DEF Crash, Attempt, fileVars
  <2> QED BY <1>2, <2>3, <2>4, <2>5, <2>6, <2>7, <2>8, <2>9, <2>10 DEF ProcStep
<1>3. CASE saveConfig \/ CliRemovePending
  <2>1. \A p \in Procs : proc[p].pc \notin Holding
    BY <1>3, ConstantsAssumption DEF saveConfig, CliRemovePending, Owners
  <2> QED BY <1>3, <2>1
          DEF saveConfig, CliRemovePending, Attempt, Holding, fileVars
<1> QED BY <1>1, <1>2, <1>3 DEF Next, ServerStep, CliStep, refreshAuth,
    deleteAuthSession, RefreshExpires, maintenance, updateAccount,
    TokenExpires, registration, updateAccountCredentials, logoutAuth,
    CliStops, vars, fileVars

(* A step of a command that issues a session leaves the others as they     *)
(* were, or revokes them.                                                  *)
LEMMA Issues ==
  ASSUME TypeOK, Numbered, registration \/ updateAccountCredentials
  PROVE  /\ logins' = logins + 1 /\ logins' \in Sessions
         /\ cli' = [pc |-> "issued", session |-> logins']
         /\ auth'[logins'] = [state |-> "live", generation |-> 1,
                              refresh |-> 0, previous |-> -1,
                              request |-> -1, expected |-> 0]
         /\ \A s \in Sessions \ {logins'} : auth'[s].state = "live" =>
              auth[s].state = "live" /\ auth'[s] = auth[s]
         /\ auth[logins'] = NoAuth
         /\ <<logins', 0>> \in tokens'
         /\ \A t \in tokens' : \/ t = <<logins', 0>>
                               \/ t \in tokens /\ auth' = Issued(auth, logins')
         /\ lock = Free /\ lock' = Cli
         /\ UNCHANGED <<drawn, sent, profile, journal, proc, reply>>
<1>0. logins \in Nat /\ auth \in [Sessions -> AuthSession]
  BY Fields DEF TypeOK
<1>1. /\ logins' = logins + 1 /\ logins < MaxLogins
      /\ cli' = [pc |-> "issued", session |-> logins']
      /\ lock = Free /\ lock' = Cli
      /\ UNCHANGED <<drawn, sent, profile, journal, proc, reply>>
  BY DEF registration, updateAccountCredentials, acquireProfile, fileVars
<1>2. logins' \in Sessions
  BY <1>0, <1>1, ConstantsAssumption DEF Sessions
<1>3. /\ <<logins', 0>> \in tokens'
      /\ \A t \in tokens' : \/ t = <<logins', 0>>
                            \/ t \in tokens /\ auth' = Issued(auth, logins')
  BY DEF registration, updateAccountCredentials
<1>4. auth[logins'] = NoAuth
  BY <1>0, <1>1, <1>2 DEF Numbered, Sessions
<1>5. auth'[logins'] = [state |-> "live", generation |-> 1, refresh |-> 0,
                        previous |-> -1, request |-> -1, expected |-> 0]
  BY <1>0, <1>2, RevokedType
     DEF registration, updateAccountCredentials, Issued
<1>6. \A s \in Sessions \ {logins'} : auth'[s].state = "live" =>
        auth[s].state = "live" /\ auth'[s] = auth[s]
  <2> TAKE s \in Sessions \ {logins'}
  <2>1. CASE auth' = Issued(auth, logins')
    BY <1>0, <2>1 DEF Issued
  <2>2. CASE auth' = Issued(Revoked(auth, Sessions), logins')
    <3>1. auth'[s] = Revoked(auth, Sessions)[s]
      BY <1>0, <2>2, RevokedType DEF Issued
    <3> QED BY <1>0, <3>1 DEF Revoked, AuthSession
  <2> QED BY <2>1, <2>2 DEF registration, updateAccountCredentials
<1> QED BY <1>1, <1>2, <1>3, <1>4, <1>5, <1>6

LEMMA LogoutEnds ==
  ASSUME TypeOK, logoutAuth
  PROVE  /\ \A s \in Sessions : auth'[s].state = "live" =>
              auth[s].state = "live" /\ auth'[s] = auth[s]
         /\ tokens' \subseteq tokens
         /\ cli' = [pc |-> "revoked", session |-> 0]
         /\ lock = Free /\ lock' = Cli
         /\ UNCHANGED <<logins, drawn, sent, profile, journal, proc, reply>>
<1>1. /\ auth' = Revoked(auth, {profile.session})
      /\ tokens' \subseteq tokens
      /\ cli' = [pc |-> "revoked", session |-> 0]
      /\ lock = Free /\ lock' = Cli
      /\ UNCHANGED <<logins, drawn, sent, profile, journal, proc, reply>>
  BY DEF logoutAuth, Withdrawn, acquireProfile, fileVars
<1> QED BY <1>1 DEF Revoked, TypeOK, AuthSession

(* A command that is not idle has the lock: no process begins, sends,      *)
(* saves or removes anything, and no answer is waited for.                 *)
LEMMA CliExcludes ==
  ASSUME TypeOK, Owners, ReplyFits, cli.pc # "idle" \/ lock = Free
  PROVE  /\ \A p \in Procs : proc[p].pc \notin Holding
         /\ ~reply.some
BY ConstantsAssumption, Fields DEF Owners, ReplyFits, Holding

LEMMA NewLoginStep ==
  TypeOK /\ Owners /\ Numbered /\ NewLogin /\ ReplyFits /\ [Next]_vars
    => NewLogin'
<1> SUFFICES ASSUME TypeOK, Owners, Numbered, NewLogin, ReplyFits,
                    [Next]_vars
             PROVE  NewLogin'
  OBVIOUS
<1>0. CASE UNCHANGED vars
  BY <1>0 DEF NewLogin, Unknown, Live, vars, serverVars, fileVars
<1>1. ASSUME NEW m \in sent, refreshAuth(m) PROVE NewLogin'
  <2>1. /\ UNCHANGED <<sent, profile, journal, proc, cli>>
        /\ \A s \in Sessions \ {m.session} : auth'[s] = auth[s]
    BY <1>1 DEF refreshAuth, TypeOK, fileVars
  <2>2. cli.pc = "issued" => cli.session # m.session
    BY DEF NewLogin, Unknown
  <2>3. cli.pc = "replaced" => profile.session # m.session
    BY DEF NewLogin
  <2> QED BY <2>1, <2>2, <2>3 DEF NewLogin, Unknown, Live
<1>2. CASE Ending
  BY <1>2, EndingOnlyEnds DEF NewLogin, Unknown, Live
<1>3. ASSUME NEW p \in Procs, ProcStep(p) PROVE NewLogin'
  <2>1. /\ \A q \in Procs \ {p} : proc'[q] = proc[q]
        /\ UNCHANGED <<auth, tokens, logins, cli>>
    BY <1>3, OnlyProc
  <2>2. CASE cli.pc = "idle"
    BY <2>1, <2>2 DEF NewLogin
  <2>3. CASE cli.pc # "idle"
    <3>1. \A q \in Procs : proc[q].pc \notin Holding
      BY <2>3, CliExcludes
    <3>2. lock # Free
      BY <2>3 DEF Owners
    <3>3. newClient(p) \/ Crash(p)
      BY <1>3, <3>1, <3>2 DEF ProcStep, Begin, Prepare, Send, Commit,
         removePrivatePending, End, acquireProfile, Holding
    <3>4. UNCHANGED <<sent, profile, journal>>
      BY <3>3 DEF newClient, Crash, fileVars
    <3>5. proc'[p].creds \in {profile, LoggedOut}
      BY <3>3 DEF newClient, Crash, TypeOK
    <3>6. cli.pc = "issued" => proc'[p].creds.session # cli.session
      BY <3>5, Fields DEF NewLogin, Numbered, LoggedOut
    <3> QED BY <2>1, <3>4, <3>6 DEF NewLogin, Unknown, Live
  <2> QED BY <2>2, <2>3
<1>4. CASE registration \/ updateAccountCredentials
  <2>1. logins \in Nat
    BY Fields
  <2> QED BY <1>4, <2>1, Issues, Fields DEF NewLogin, Unknown, Live, Numbered
<1>5. CASE logoutAuth
  BY <1>5, LogoutEnds DEF NewLogin
<1>6. CASE saveConfig
  <2>1. /\ cli.pc \in {"issued", "revoked"} /\ cli'.pc = "replaced"
        /\ UNCHANGED <<auth, sent, journal>>
    BY <1>6 DEF saveConfig, serverVars, TypeOK
  <2>2. CASE cli.pc = "issued"
    <3>1. profile'.session = cli.session
      BY <1>6, <2>2 DEF saveConfig
    <3> QED BY <2>1, <2>2, <3>1 DEF NewLogin, Unknown
  <2>3. CASE cli.pc = "revoked"
    <3>1. profile'.session = 0
      BY <1>6, <2>3 DEF saveConfig, LoggedOut
    <3>2. \A m \in sent : m.session # 0
      BY DEF Numbered
    <3>3. ~Live(0)
      BY DEF Live, Sessions
    <3> QED BY <2>1, <3>1, <3>2, <3>3 DEF NewLogin, Live
  <2> QED BY <2>1, <2>2, <2>3
<1>7. CASE CliRemovePending \/ CliStops
  BY <1>7 DEF CliRemovePending, CliStops, NewLogin
<1> QED BY <1>0, <1>1, <1>2, <1>3, <1>4, <1>5, <1>6, <1>7
    DEF Next, ServerStep, Ending, CliStep

LEMMA NeverStaleStep ==
  ASSUME TypeOK, Owners, Attempt, NewLogin, NeverStale, [Next]_vars
  PROVE  NeverStale'
<1>1. CASE UNCHANGED <<profile, proc>>
  BY <1>1 DEF NeverStale
<1>2. ASSUME NEW p \in Procs, ProcStep(p) PROVE NeverStale'
  <2>1. \A q \in Procs \ {p} : proc'[q] = proc[q]
    BY <1>2, OnlyProc
  <2> USE DEF TypeOK
  <2>2. CASE newClient(p) \/ Begin(p) \/ removePrivatePending(p)
    <3>1. profile' = profile /\ proc'[p].creds = profile
      BY <2>2 DEF newClient, Begin, removePrivatePending, fileVars
    <3> QED BY <2>1, <3>1, Fields DEF NeverStale
  <2>3. CASE Prepare(p)
    BY <2>3 DEF Prepare, NeverStale
  <2>4. CASE Send(p) \/ End(p)
    <3>1. /\ profile' = profile /\ proc'[p].creds = proc[p].creds
          /\ proc[p].pc # "off"
      BY <2>4 DEF Send, End, fileVars
    <3> QED BY <2>1, <3>1 DEF NeverStale
  <2>5. CASE Commit(p)
    <3>1. /\ proc[p].creds = profile /\ proc'[p].creds = proc[p].creds
          /\ proc[p].pc # "off"
          /\ profile'.session = profile.session
          /\ profile'.generation = profile.generation + 1
      BY <2>5 DEF Commit, Successor, Attempt
    <3> QED BY <2>1, <3>1, Fields DEF NeverStale
  <2>6. CASE Crash(p)
    <3>1. profile' = profile /\ proc'[p].pc = "off"
      BY <2>6 DEF Crash, fileVars
    <3> QED BY <2>1, <3>1 DEF NeverStale
  <2> QED BY <1>2, <2>2, <2>3, <2>4, <2>5, <2>6 DEF ProcStep
<1>3. CASE saveConfig
  <2>1. proc' = proc
    BY <1>3 DEF saveConfig
  <2>2. CASE cli.pc = "issued"
    <3>1. profile'.session = cli.session
      BY <1>3, <2>2 DEF saveConfig
    <3> QED BY <2>1, <2>2, <3>1 DEF NeverStale, NewLogin, Unknown
  <2>3. CASE cli.pc # "issued"
    <3>1. profile'.session = 0
      BY <1>3, <2>3 DEF saveConfig, LoggedOut
    <3> QED BY <2>1, <3>1 DEF NeverStale, Attempt
  <2> QED BY <2>2, <2>3
<1> QED BY <1>1, <1>2, <1>3 DEF Next, ServerStep, CliStep, refreshAuth,
    deleteAuthSession, RefreshExpires, maintenance, updateAccount,
    TokenExpires, registration, updateAccountCredentials, logoutAuth,
    CliRemovePending, CliStops, vars, fileVars

-----------------------------------------------------------------------------
(* The sessions of the server *)

LEMMA AuthFitsStep ==
  ASSUME TypeOK, Numbered, AuthFits, [Next]_vars
  PROVE  AuthFits'
<1>1. ASSUME NEW m \in sent, refreshAuth(m) PROVE AuthFits'
  <2>1. m.session \in Sessions
    BY ConstantsAssumption, Fields DEF Numbered, Sessions
  <2>2. CASE Refusal(m) # "rotate"
    BY <1>1, <2>2 DEF refreshAuth, AuthFits, Live
  <2>3. CASE Refusal(m) = "rotate"
    <3>1. auth' = [auth EXCEPT ![m.session] = Rotated(@, m)]
      BY <1>1, <2>3 DEF refreshAuth
    <3>2. /\ auth'[m.session] = Rotated(auth[m.session], m)
          /\ \A s \in Sessions \ {m.session} : auth'[s] = auth[s]
      BY <2>1, <3>1 DEF TypeOK
    <3>3. m.id # m.proof
      BY <2>1, <2>3, RotateOk
    <3> QED BY <3>2, <3>3 DEF AuthFits, Live, Rotated
  <2> QED BY <2>2, <2>3
<1>2. CASE Ending
  BY <1>2, EndingOnlyEnds DEF AuthFits, Live
<1>3. CASE registration \/ updateAccountCredentials
  BY <1>3, Issues DEF AuthFits, Live
<1>4. CASE logoutAuth
  BY <1>4, LogoutEnds DEF AuthFits, Live
<1>5. CASE UNCHANGED auth
  BY <1>5 DEF AuthFits, Live
<1>6. ASSUME NEW p \in Procs, ProcStep(p) PROVE UNCHANGED auth
  BY <1>6, OnlyProc
<1> QED BY <1>1, <1>2, <1>3, <1>4, <1>5, <1>6 DEF Next, ServerStep, Ending,
    CliStep, saveConfig, CliRemovePending, CliStops, vars, serverVars

LEMMA OnlyLiveAdmitsStep ==
  ASSUME TypeOK, Numbered, OnlyLiveAdmits, [Next]_vars
  PROVE  OnlyLiveAdmits'
<1> USE DEF OnlyLiveAdmits, Live
<1>1. ASSUME NEW m \in sent, refreshAuth(m) PROVE OnlyLiveAdmits'
  <2>1. m.session \in Sessions
    BY ConstantsAssumption, Fields DEF Numbered, Sessions
  <2>2. CASE Refusal(m) # "rotate"
    BY <1>1, <2>2 DEF refreshAuth
  <2>3. CASE Refusal(m) = "rotate"
    <3>1. auth' = [auth EXCEPT ![m.session] = Rotated(@, m)]
          /\ tokens' = Admitted(m)
      BY <1>1, <2>3 DEF refreshAuth
    <3>2. /\ auth'[m.session].state = "live"
          /\ auth'[m.session].refresh = m.id
          /\ auth'[m.session].previous = m.proof
      BY <2>1, <2>3, <3>1, RotateOk DEF TypeOK, Rotated
    <3>3. \A s \in Sessions \ {m.session} : auth'[s] = auth[s]
      BY <2>1, <3>1 DEF TypeOK
    <3>4. m.proof = auth[m.session].refresh
      BY <2>1, <2>3, RotateOk
    <3> SUFFICES ASSUME NEW t \in tokens'
                 PROVE  /\ t[1] \in Sessions /\ auth'[t[1]].state = "live"
                        /\ t[2] \in {auth'[t[1]].refresh,
                                     auth'[t[1]].previous}
      OBVIOUS
    <3>5. CASE t = <<m.session, m.id>>
      BY <2>1, <3>2, <3>5
    <3>6. CASE t \in tokens /\ t[1] = m.session
                 /\ t[2] = auth[m.session].refresh
      BY <2>1, <3>2, <3>4, <3>6
    <3>7. CASE t \in tokens /\ t[1] # m.session
      BY <3>3, <3>7
    <3> QED BY <3>1, <3>5, <3>6, <3>7 DEF Admitted
  <2> QED BY <2>2, <2>3
<1>2. CASE Ending
  <2> SUFFICES ASSUME NEW t \in tokens' PROVE auth'[t[1]] = auth[t[1]]
    BY <1>2, EndingOnlyEnds
  <2>0. t \in tokens /\ t[1] \in Sessions /\ auth[t[1]].state = "live"
    BY <1>2, EndingOnlyEnds
  <2>1. ASSUME NEW S \in SUBSET Sessions, auth' = Revoked(auth, S),
               tokens' = Withdrawn(S)
        PROVE  auth'[t[1]] = auth[t[1]]
    BY <2>0, <2>1 DEF Revoked, Withdrawn
  <2>2. ASSUME NEW s \in Sessions, deleteAuthSession(s)
        PROVE  auth'[t[1]] = auth[t[1]]
    BY <2>1, <2>2 DEF deleteAuthSession
  <2>3. CASE updateAccount
    BY <2>3 DEF updateAccount
  <2>4. ASSUME NEW s \in Sessions, RefreshExpires(s)
        PROVE  auth'[t[1]] = auth[t[1]]
    BY <2>0, <2>4 DEF RefreshExpires, Withdrawn, TypeOK
  <2>5. ASSUME NEW s \in Sessions, maintenance(s)
        PROVE  auth'[t[1]] = auth[t[1]]
    BY <2>0, <2>5 DEF maintenance, TypeOK
  <2>6. CASE TokenExpires
    BY <2>6 DEF TokenExpires
  <2> QED BY <1>2, <2>2, <2>3, <2>4, <2>5, <2>6 DEF Ending
<1>3. CASE registration \/ updateAccountCredentials
  <2> SUFFICES ASSUME NEW t \in tokens'
               PROVE  /\ t[1] \in Sessions /\ auth'[t[1]].state = "live"
                      /\ t[2] \in {auth'[t[1]].refresh, auth'[t[1]].previous}
    OBVIOUS
  <2>1. CASE t = <<logins', 0>>
    BY <1>3, <2>1, Issues
  <2>2. CASE t \in tokens /\ auth' = Issued(auth, logins')
    <3>1. t[1] \in Sessions /\ t[1] # logins'
      BY <1>3, <2>2, Issues DEF NoAuth
    <3> QED BY <2>2, <3>1 DEF Issued, TypeOK
  <2> QED BY <1>3, <2>1, <2>2, Issues
<1>4. CASE logoutAuth
  <2> SUFFICES ASSUME NEW t \in tokens' PROVE auth'[t[1]] = auth[t[1]]
    BY <1>4, LogoutEnds
  <2> QED BY <1>4, LogoutEnds DEF logoutAuth, Withdrawn, Revoked
<1>5. CASE UNCHANGED <<auth, tokens>>
  BY <1>5
<1>6. ASSUME NEW p \in Procs, ProcStep(p) PROVE UNCHANGED <<auth, tokens>>
  BY <1>6, OnlyProc
<1> QED BY <1>1, <1>2, <1>3, <1>4, <1>5, <1>6 DEF Next, ServerStep, Ending,
    CliStep, saveConfig, CliRemovePending, CliStops, vars, serverVars

-----------------------------------------------------------------------------
(* The attempt in the journal *)

LEMMA SentFitsStep ==
  ASSUME TypeOK, Owners, Numbered, Attempt, NewLogin, SentFits, [Next]_vars
  PROVE  SentFits'
<1>1. CASE UNCHANGED <<sent, profile, journal>>
  BY <1>1 DEF SentFits
<1>2. ASSUME NEW p \in Procs, Begin(p) PROVE SentFits'
  <2>1. sent' = sent /\ profile' = profile
    BY <1>2 DEF Begin
  <2>2. CASE StaleJournal(journal, profile)
    <3>1. journal' = NoPending /\ journal.expected < profile.generation
      BY <1>2, <2>2 DEF Begin, StaleJournal
    <3>2. \A m \in sent : m.session = profile.session =>
            m.expected < profile.generation
      BY <3>1, Fields DEF SentFits
    <3> QED BY <2>1, <3>1, <3>2 DEF SentFits, NoPending
  <2>3. CASE ~StaleJournal(journal, profile)
    BY <1>2, <2>1, <2>3 DEF Begin, SentFits
  <2> QED BY <2>2, <2>3
<1>3. ASSUME NEW p \in Procs, Prepare(p) PROVE SentFits'
  <2>1. /\ sent' = sent /\ profile' = profile /\ ~journal.some
        /\ journal'.id = drawn + 1
    BY <1>3 DEF Prepare
  <2>2. \A m \in sent : m.id # journal'.id
    BY <2>1, Fields DEF Numbered
  <2> QED BY <2>1, <2>2 DEF SentFits
<1>4. ASSUME NEW p \in Procs, Send(p) PROVE SentFits'
  <2> DEFINE n == [session |-> proc[p].creds.session,
                   proof |-> proc[p].creds.id,
                   expected |-> journal.expected, id |-> journal.id]
  <2>1. /\ sent' = sent \cup {n} /\ profile' = profile /\ journal' = journal
        /\ journal.some
    BY <1>4 DEF Send, fileVars
  <2>2. /\ proc[p].creds = profile /\ journal.session = profile.session
        /\ journal.expected = profile.generation
    BY <1>4 DEF Send, Attempt
  <2>3. /\ n.session = profile.session /\ n.proof = profile.id
        /\ n.expected = journal.expected /\ n.id = journal.id
    BY <2>2
  <2> HIDE DEF n
  <2> QED BY <2>1, <2>2, <2>3 DEF SentFits
<1>5. ASSUME NEW p \in Procs, Commit(p) PROVE SentFits'
  <2>1. /\ sent' = sent /\ journal' = journal
        /\ profile'.session = profile.session
        /\ profile'.generation = profile.generation + 1
    BY <1>5 DEF Commit, Successor, Attempt
  <2> QED BY <2>1, Fields DEF SentFits
<1>6. ASSUME NEW p \in Procs, removePrivatePending(p) PROVE SentFits'
  <2>1. /\ sent' = sent /\ profile' = profile /\ journal' = NoPending
        /\ journal.expected < profile.generation
    BY <1>6 DEF removePrivatePending, Attempt
  <2>2. \A m \in sent : m.session = profile.session =>
          m.expected < profile.generation
    BY <2>1, Fields DEF SentFits
  <2> QED BY <2>1, <2>2 DEF SentFits, NoPending
<1>7. CASE saveConfig
  <2>1. sent' = sent /\ journal' = journal
    BY <1>7 DEF saveConfig
  <2>2. \A m \in sent : m.session # profile'.session
    <3>1. CASE cli.pc = "issued"
      <4>1. profile'.session = cli.session
        BY <1>7, <3>1 DEF saveConfig
      <4> QED BY <3>1, <4>1 DEF NewLogin, Unknown
    <3>2. CASE cli.pc # "issued"
      <4>1. profile'.session = 0
        BY <1>7, <3>2 DEF saveConfig, LoggedOut
      <4> QED BY <4>1 DEF Numbered
    <3> QED BY <3>1, <3>2
  <2> QED BY <2>1, <2>2 DEF SentFits
<1>8. CASE CliRemovePending
  <2>1. /\ sent' = sent /\ profile' = profile /\ journal' = NoPending
        /\ cli.pc = "replaced"
    BY <1>8 DEF CliRemovePending
  <2> QED BY <2>1 DEF SentFits, NewLogin, NoPending
<1> QED BY <1>1, <1>2, <1>3, <1>4, <1>5, <1>6, <1>7, <1>8 DEF Next,
    ServerStep, ProcStep, CliStep, refreshAuth, deleteAuthSession,
    RefreshExpires, maintenance, updateAccount, TokenExpires, registration,
    updateAccountCredentials, logoutAuth, CliStops, newClient, End, Crash,
    vars, fileVars

(* A request that rotates the session of the profile is the attempt in the *)
(* journal, and the profile is current before.                             *)
LEMMA RotatesProfile ==
  ASSUME TypeOK, Numbered, SentFits, Recoverable, NEW m \in sent,
         m.session = profile.session, Refusal(m) = "rotate"
  PROVE  /\ Live(m.session)
         /\ profile.generation = auth[m.session].generation
         /\ m.proof = profile.id
         /\ journal.some /\ journal.session = m.session
         /\ journal.expected = profile.generation /\ journal.id = m.id
<1>1. m.session \in Sessions
  BY ConstantsAssumption, Fields DEF Numbered, Sessions
<1>2. Live(m.session) /\ m.expected = auth[m.session].generation
  BY <1>1, RotateOk
<1>3. profile.generation <= auth[m.session].generation
  BY <1>1, <1>2, Fields DEF Recoverable
<1>4. ~(m.expected < profile.generation)
  BY <1>1, <1>2, <1>3, Fields
<1> QED BY <1>1, <1>2, <1>4 DEF SentFits

(* A request somebody waits for is the attempt in the journal. *)
LEMMA WaitedFor ==
  ASSUME TypeOK, Attempt, SentFits, NEW m \in sent,
         \E p \in Procs : Waits(p, m)
  PROVE  /\ m.session = profile.session /\ m.expected = profile.generation
         /\ m.proof = profile.id /\ m.id = journal.id
         /\ journal.some /\ journal.session = profile.session
         /\ journal.expected = profile.generation
<1>1. /\ m.session = profile.session /\ m.id = journal.id
      /\ journal.some /\ journal.session = profile.session
      /\ journal.expected = profile.generation
  BY DEF Waits, Attempt
<1>2. m.expected = profile.generation
  BY <1>1 DEF SentFits
<1> QED BY <1>1, <1>2, Fields DEF SentFits

(* A request somebody waits for is a rotation or a replay, as long as its  *)
(* session lives.                                                          *)
LEMMA WaitedForSucceeds ==
  ASSUME TypeOK, Attempt, AuthFits, SentFits, Untried, Recoverable,
         OnlyLiveAdmits, NEW m \in sent, \E p \in Procs : Waits(p, m),
         Live(m.session)
  PROVE  Refusal(m) \in {"rotate", "receipt"}
<1> DEFINE a == auth[m.session]
<1>1. /\ m.session = profile.session /\ m.expected = profile.generation
      /\ m.proof = profile.id /\ m.id = journal.id
      /\ journal.some /\ journal.session = profile.session
      /\ journal.expected = profile.generation
  BY WaitedFor
<1>2. m.session \in Sessions /\ a.state = "live"
  BY DEF Live
<1>3. CASE profile.generation = a.generation /\ profile.id = a.refresh
  <2>1. m.id \notin {a.refresh, a.previous, a.request}
    BY <1>1, <1>3 DEF Untried
  <2>2. m.proof # a.previous
    BY <1>1, <1>2, <1>3 DEF AuthFits
  <2>3. ~Used(m)
    <3> SUFFICES ASSUME <<m.session, m.id>> \in tokens PROVE FALSE
      BY <2>1 DEF Used
    <3> QED BY <2>1 DEF OnlyLiveAdmits
  <2>4. /\ a.state \notin {"none", "revoked", "expired"}
        /\ m.proof = a.refresh /\ m.expected = a.generation
        /\ m.id # a.request
    BY <1>1, <1>2, <1>3, <2>1
  <2> QED BY <2>2, <2>3, <2>4 DEF Refusal
<1>4. CASE /\ profile.generation + 1 = a.generation
           /\ profile.id = a.previous /\ journal.id = a.request
  <2>1. a.generation = a.expected + 1
    BY <1>1, <1>2, <1>4, Fields DEF AuthFits
  <2>2. a.expected = profile.generation
    BY <1>2, <1>4, <2>1, Fields
  <2>3. /\ a.state \notin {"none", "revoked", "expired"}
        /\ m.proof = a.previous /\ m.id = a.request
        /\ m.expected = a.expected
    BY <1>1, <1>2, <1>4, <2>2
  <2> QED BY <2>1, <2>3 DEF Refusal
<1> QED BY <1>1, <1>3, <1>4 DEF Recoverable, InDoubt

LEMMA UntriedStep ==
  ASSUME TypeOK, Numbered, Attempt, NewLogin, SentFits, Untried,
         Recoverable, [Next]_vars
  PROVE  Untried'
<1>0. ASSUME \A s \in Sessions : auth'[s].state = "live" =>
               auth[s].state = "live" /\ auth'[s] = auth[s],
             UNCHANGED <<profile, journal>>
      PROVE  Untried'
  BY <1>0 DEF Untried, Live
<1>1. ASSUME NEW m \in sent, refreshAuth(m) PROVE Untried'
  <2>1. m.session \in Sessions /\ profile' = profile /\ journal' = journal
    BY <1>1, ConstantsAssumption, Fields
       DEF Numbered, Sessions, refreshAuth, fileVars
  <2>2. CASE Refusal(m) # "rotate"
    BY <1>0, <1>1, <2>1, <2>2 DEF refreshAuth
  <2>3. CASE Refusal(m) = "rotate"
    <3>1. /\ auth'[m.session] = Rotated(auth[m.session], m)
          /\ \A s \in Sessions \ {m.session} : auth'[s] = auth[s]
      BY <1>1, <2>1, <2>3 DEF refreshAuth, TypeOK
    <3>2. CASE m.session # profile.session
      BY <2>1, <3>1, <3>2 DEF Untried, Live
    <3>3. CASE m.session = profile.session
      <4>1. profile.generation = auth[m.session].generation
        BY <2>3, <3>3, RotatesProfile
      <4>2. auth'[m.session].generation # profile.generation
        BY <2>1, <3>1, <4>1, Fields DEF Rotated
      <4> QED BY <2>1, <3>3, <4>2 DEF Untried
    <3> QED BY <3>2, <3>3
  <2> QED BY <2>2, <2>3
<1>2. CASE Ending
  BY <1>0, <1>2, EndingOnlyEnds
<1>3. CASE logoutAuth
  BY <1>0, <1>3, LogoutEnds
<1>4. CASE registration \/ updateAccountCredentials
  <2>1. profile.session # logins'
    BY <1>4, Issues, Fields DEF Numbered
  <2> QED BY <1>4, <2>1, Issues DEF Untried, Live
<1>5. ASSUME NEW p \in Procs, Prepare(p) PROVE Untried'
  <2>1. /\ UNCHANGED <<auth, profile>> /\ journal'.id = drawn + 1
    BY <1>5 DEF Prepare, serverVars
  <2>2. \A s \in Sessions :
          journal'.id \notin {auth[s].refresh, auth[s].previous,
                              auth[s].request}
    BY <2>1, Fields DEF Numbered
  <2> QED BY <2>1, <2>2 DEF Untried, Live
<1>6. ASSUME NEW p \in Procs, Commit(p) PROVE Untried'
  <2>1. /\ journal' = journal /\ journal.expected = profile.generation
        /\ profile'.generation = profile.generation + 1
    BY <1>6 DEF Commit, Successor, Attempt
  <2> QED BY <2>1, Fields DEF Untried
<1>7. CASE saveConfig
  <2>1. journal' = journal
    BY <1>7 DEF saveConfig
  <2>2. CASE cli.pc = "issued"
    <3>1. profile'.session = cli.session
      BY <1>7, <2>2 DEF saveConfig
    <3> QED BY <2>1, <2>2, <3>1 DEF Untried, NewLogin, Unknown
  <2>3. CASE cli.pc # "issued"
    <3>1. profile'.session = 0
      BY <1>7, <2>3 DEF saveConfig, LoggedOut
    <3> QED BY <3>1 DEF Untried, Live, Sessions
  <2> QED BY <2>2, <2>3
<1>8. ASSUME UNCHANGED <<auth, profile>>,
             journal' = journal \/ journal' = NoPending
      PROVE  Untried'
  BY <1>8 DEF Untried, Live, NoPending
<1>9. ASSUME NEW p \in Procs, ProcStep(p), ~Prepare(p), ~Commit(p)
      PROVE  Untried'
  BY <1>8, <1>9 DEF ProcStep, newClient, Begin, Send, removePrivatePending,
     End, Crash, serverVars, fileVars
<1>10. CASE CliRemovePending \/ CliStops \/ UNCHANGED vars
  BY <1>8, <1>10 DEF CliRemovePending, CliStops, vars, serverVars, fileVars
<1> QED BY <1>1, <1>2, <1>3, <1>4, <1>5, <1>6, <1>7, <1>9, <1>10
    DEF Next, ServerStep, Ending, CliStep

LEMMA ReplyFitsStep ==
  ASSUME TypeOK, Owners, Numbered, Attempt, SentFits, ReplyFits,
         Recoverable, [Next]_vars
  PROVE  ReplyFits'
<1>0. ASSUME \A s \in Sessions : auth'[s].state = "live" =>
               auth[s].state = "live" /\ auth'[s] = auth[s],
             UNCHANGED <<profile, proc, reply>>
      PROVE  ReplyFits'
  BY <1>0 DEF ReplyFits, Live
<1>1. ASSUME NEW m \in sent, refreshAuth(m) PROVE ReplyFits'
  <2> DEFINE s == profile.session
  <2>1. /\ m.session \in Sessions
        /\ UNCHANGED <<profile, proc>>
    BY <1>1, ConstantsAssumption, Fields
       DEF Numbered, Sessions, refreshAuth, fileVars
  <2>2. \A r \in Sessions \ {m.session} : auth'[r] = auth[r]
    BY <1>1 DEF refreshAuth, TypeOK
  <2>3. CASE reply' = reply
    <3>1. CASE Refusal(m) # "rotate" \/ m.session # s
      BY <1>1, <2>1, <2>2, <2>3, <3>1 DEF refreshAuth, ReplyFits, Live
    <3>2. CASE Refusal(m) = "rotate" /\ m.session = s
      <4>1. Live(s) /\ profile.generation = auth[s].generation
        BY <3>2, RotatesProfile
      <4>2. ~(reply.some /\ reply.reason = "receipt")
        BY <2>1, <3>2, <4>1, Fields DEF ReplyFits
      <4> QED BY <2>1, <2>3, <4>2 DEF ReplyFits
    <3> QED BY <3>1, <3>2
  <2>4. CASE reply' # reply
    <3>1. \E p \in Procs : Waits(p, m)
      BY <1>1, <2>4 DEF refreshAuth, Answered
    <3>2. m.session = s /\ m.expected = profile.generation
      BY <3>1, WaitedFor
    <3>3. \E p \in Procs : proc[p].pc = "waiting"
      BY <3>1 DEF Waits
    <3>4. CASE Refusal(m) = "rotate"
      <4>1. profile.generation = auth[s].generation
        BY <3>2, <3>4, RotatesProfile
      <4>2. auth'[s].generation = auth[s].generation + 1
        BY <1>1, <2>1, <3>2, <3>4 DEF refreshAuth, TypeOK, Rotated
      <4> QED BY <2>1, <3>3, <4>1, <4>2 DEF ReplyFits
    <3>5. CASE Refusal(m) # "rotate"
      <4>1. /\ auth' = auth /\ reply'.reason = Refusal(m)
        BY <1>1, <2>4, <3>5 DEF refreshAuth, Answered
      <4>2. Refusal(m) = "receipt" =>
              auth[s].generation = profile.generation + 1
        BY <3>2 DEF Refusal
      <4> QED BY <2>1, <3>3, <4>1, <4>2 DEF ReplyFits
    <3> QED BY <3>4, <3>5
  <2> QED BY <2>3, <2>4
<1>2. CASE Ending
  BY <1>0, <1>2, EndingOnlyEnds
<1>3. CASE CliStep
  <2>1. ~reply.some
    BY <1>3, CliExcludes DEF CliStep, registration, Owners,
       updateAccountCredentials, logoutAuth, saveConfig, CliRemovePending,
       CliStops, acquireProfile
  <2>2. reply' = reply
    BY <1>3 DEF CliStep, registration, updateAccountCredentials, logoutAuth,
       saveConfig, CliRemovePending, CliStops
  <2> QED BY <2>1, <2>2 DEF ReplyFits
<1>4. ASSUME NEW p \in Procs, ProcStep(p) PROVE ReplyFits'
  <2>1. /\ \A q \in Procs \ {p} : proc'[q] = proc[q]
        /\ UNCHANGED <<auth, tokens, logins, cli>>
    BY <1>4, OnlyProc
  <2>2. CASE Send(p) \/ Commit(p) \/ End(p)
    BY <2>2 DEF Send, Commit, End, ReplyFits, NoReply
  <2>3. CASE Begin(p) \/ Prepare(p) \/ removePrivatePending(p)
    <3>1. ~reply.some
      BY <2>3, ConstantsAssumption, Fields DEF Begin, Prepare,
         removePrivatePending, acquireProfile, ReplyFits, Owners, Holding
    <3>2. reply' = reply
      BY <2>3 DEF Begin, Prepare, removePrivatePending
    <3> QED BY <3>1, <3>2 DEF ReplyFits
  <2>4. CASE newClient(p) \/ Crash(p)
    <3>1. profile' = profile /\ reply' \in {reply, NoReply}
      BY <2>4 DEF newClient, Crash, fileVars
    <3>2. CASE reply' = NoReply
      BY <3>2 DEF ReplyFits, NoReply
    <3>3. CASE reply' = reply /\ ~(reply' = NoReply)
      <4>1. proc[p].pc # "waiting"
        BY <2>4, <3>3 DEF newClient, Crash
      <4> QED BY <2>1, <3>1, <3>3, <4>1 DEF ReplyFits, Live
    <3> QED BY <3>1, <3>2, <3>3
  <2> QED BY <1>4, <2>2, <2>3, <2>4 DEF ProcStep
<1>5. CASE UNCHANGED vars
  BY <1>5 DEF ReplyFits, Live, vars, serverVars, fileVars
<1> QED BY <1>1, <1>2, <1>3, <1>4, <1>5 DEF Next, ServerStep, Ending

LEMMA RecoverableStep ==
  ASSUME TypeOK, Numbered, Attempt, NewLogin, AuthFits, SentFits, ReplyFits,
         Recoverable, [Next]_vars
  PROVE  Recoverable'
<1>0. ASSUME \A s \in Sessions : auth'[s].state = "live" =>
               auth[s].state = "live" /\ auth'[s] = auth[s],
             UNCHANGED <<profile, journal>>
      PROVE  Recoverable'
  BY <1>0 DEF Recoverable, Live, InDoubt
<1>1. ASSUME NEW m \in sent, refreshAuth(m) PROVE Recoverable'
  <2>1. m.session \in Sessions /\ profile' = profile /\ journal' = journal
    BY <1>1, ConstantsAssumption, Fields
       DEF Numbered, Sessions, refreshAuth, fileVars
  <2>2. CASE Refusal(m) # "rotate"
    BY <1>0, <1>1, <2>1, <2>2 DEF refreshAuth
  <2>3. CASE Refusal(m) = "rotate"
    <3>1. /\ auth'[m.session] = Rotated(auth[m.session], m)
          /\ \A s \in Sessions \ {m.session} : auth'[s] = auth[s]
      BY <1>1, <2>1, <2>3 DEF refreshAuth, TypeOK
    <3>2. CASE m.session # profile.session
      BY <2>1, <3>1, <3>2 DEF Recoverable, Live, InDoubt
    <3>3. CASE m.session = profile.session
      <4>1. /\ profile.generation = auth[m.session].generation
            /\ m.proof = profile.id
            /\ journal.some /\ journal.session = m.session
            /\ journal.expected = profile.generation /\ journal.id = m.id
        BY <2>3, <3>3, RotatesProfile
      <4>2. /\ auth'[m.session].generation = profile.generation + 1
            /\ auth'[m.session].previous = profile.id
            /\ auth'[m.session].request = journal.id
        BY <3>1, <4>1 DEF Rotated
      <4> QED BY <2>1, <3>3, <4>1, <4>2 DEF Recoverable, InDoubt
    <3> QED BY <3>2, <3>3
  <2> QED BY <2>2, <2>3
<1>2. CASE Ending
  BY <1>0, <1>2, EndingOnlyEnds
<1>3. CASE logoutAuth
  BY <1>0, <1>3, LogoutEnds
<1>4. CASE registration \/ updateAccountCredentials
  <2>1. profile.session # logins'
    BY <1>4, Issues, Fields DEF Numbered
  <2> QED BY <1>4, <2>1, Issues DEF Recoverable, Live, InDoubt
<1>5. ASSUME UNCHANGED <<auth, profile>>, ~InDoubt(profile.session)
      PROVE  Recoverable'
  BY <1>5 DEF Recoverable, Live
<1>6. ASSUME NEW p \in Procs, Begin(p) PROVE Recoverable'
  <2>1. UNCHANGED <<auth, profile>>
    BY <1>6 DEF Begin, serverVars
  <2>2. CASE StaleJournal(journal, profile)
    BY <1>5, <2>1, <2>2, Fields DEF StaleJournal, InDoubt
  <2>3. CASE ~StaleJournal(journal, profile)
    BY <1>0, <1>6, <2>1, <2>3 DEF Begin
  <2> QED BY <2>2, <2>3
<1>7. ASSUME NEW p \in Procs, Prepare(p) PROVE Recoverable'
  BY <1>5, <1>7 DEF Prepare, InDoubt, serverVars
<1>8. ASSUME NEW p \in Procs, Commit(p) PROVE Recoverable'
  <2>1. /\ auth' = auth
        /\ reply.some /\ reply.reason = "receipt"
        /\ profile'.session = profile.session
        /\ profile'.generation = profile.generation + 1
        /\ profile'.id = journal.id
    BY <1>8 DEF Commit, CommitOk, Successor, Attempt, serverVars
  <2> SUFFICES ASSUME Live(profile.session)
               PROVE  /\ profile'.generation
                           = auth[profile.session].generation
                      /\ profile'.id = auth[profile.session].refresh
    BY <2>1 DEF Recoverable, Live
  <2>2. /\ profile.session \in Sessions
        /\ auth[profile.session].generation = profile.generation + 1
    BY <2>1 DEF ReplyFits, Live
  <2>3. journal.id = auth[profile.session].request
    BY <2>2, Fields DEF Recoverable, InDoubt
  <2>4. journal.id = auth[profile.session].refresh
    BY <2>2, <2>3, Fields DEF AuthFits
  <2> QED BY <2>1, <2>2, <2>4
<1>9. ASSUME NEW p \in Procs, removePrivatePending(p) PROVE Recoverable'
  <2>1. UNCHANGED <<auth, profile>> /\ journal.expected < profile.generation
    BY <1>9 DEF removePrivatePending, Attempt, serverVars
  <2> QED BY <1>5, <2>1, Fields DEF InDoubt
<1>10. ASSUME NEW p \in Procs, newClient(p) \/ Send(p) \/ End(p) \/ Crash(p)
       PROVE  Recoverable'
  BY <1>0, <1>10 DEF newClient, Send, End, Crash, serverVars, fileVars
<1>11. CASE saveConfig
  <2>1. UNCHANGED <<auth, journal>>
    BY <1>11 DEF saveConfig, serverVars
  <2>2. CASE cli.pc = "issued"
    <3>1. profile' = [session |-> cli.session, generation |-> 1, id |-> 0]
      BY <1>11, <2>2 DEF saveConfig
    <3> QED BY <2>1, <2>2, <3>1 DEF Recoverable, NewLogin, Live
  <2>3. CASE cli.pc # "issued"
    <3>1. profile'.session = 0
      BY <1>11, <2>3 DEF saveConfig, LoggedOut
    <3> QED BY <3>1 DEF Recoverable, Live, Sessions
  <2> QED BY <2>2, <2>3
<1>12. CASE CliRemovePending
  <2>1. UNCHANGED <<auth, profile>> /\ cli.pc = "replaced"
    BY <1>12 DEF CliRemovePending, serverVars
  <2>2. CASE Live(profile.session)
    BY <1>5, <2>1, <2>2 DEF NewLogin, InDoubt
  <2>3. CASE ~Live(profile.session)
    BY <2>1, <2>3 DEF Recoverable, Live
  <2> QED BY <2>2, <2>3
<1>13. CASE CliStops \/ UNCHANGED vars
  BY <1>0, <1>13 DEF CliStops, vars, serverVars, fileVars
<1> QED BY <1>1, <1>2, <1>3, <1>4, <1>6, <1>7, <1>8, <1>9, <1>10, <1>11,
    <1>12, <1>13 DEF Next, ServerStep, Ending, CliStep, ProcStep

LEMMA NeverRefusedStep ==
  ASSUME IInv, [Next]_vars
  PROVE  NeverRefused'
<1> USE DEF IInv
<1>0. ASSUME \A s \in Sessions : auth'[s].state = "live" =>
               auth[s].state = "live" /\ auth'[s] = auth[s],
             UNCHANGED <<profile, reply>>
      PROVE  NeverRefused'
  BY <1>0 DEF NeverRefused, Live
<1>1. ASSUME NEW m \in sent, refreshAuth(m) PROVE NeverRefused'
  <2>1. profile' = profile
    BY <1>1 DEF refreshAuth, fileVars
  <2>2. \A s \in Sessions : auth'[s].state = "live" => auth[s].state = "live"
    <3>1. CASE Refusal(m) # "rotate"
      BY <1>1, <3>1 DEF refreshAuth
    <3>2. CASE Refusal(m) = "rotate"
      <4>1. m.session \in Sessions
        BY ConstantsAssumption, Fields DEF Numbered, Sessions
      <4>2. Live(m.session)
        BY <3>2, <4>1, RotateOk
      <4> QED BY <1>1, <3>2, <4>2 DEF refreshAuth, TypeOK, Live
    <3> QED BY <3>1, <3>2
  <2>3. CASE reply' = reply
    BY <2>1, <2>2, <2>3 DEF NeverRefused, Live
  <2>4. CASE reply' # reply
    <3>1. \E p \in Procs : Waits(p, m)
      BY <1>1, <2>4 DEF refreshAuth, Answered
    <3>2. m.session = profile.session
      BY <3>1, WaitedFor
    <3>3. CASE Refusal(m) \in {"rotate", "receipt"}
      <4>1. reply'.reason = "receipt"
        BY <1>1, <2>4, <3>3 DEF refreshAuth, Answered
      <4> QED BY <4>1 DEF NeverRefused
    <3>4. CASE Refusal(m) \notin {"rotate", "receipt"}
      <4>1. ~Live(m.session)
        BY <3>1, <3>4, WaitedForSucceeds
      <4>2. reply'.reason = Refusal(m)
        BY <1>1, <2>4, <3>4 DEF refreshAuth, Answered
      <4>3. Refusal(m) \notin {"auth_conflict", "not_fresh"}
        <5>1. m.session \in Sessions
          BY ConstantsAssumption, Fields DEF Numbered, Sessions
        <5>2. auth[m.session].state \in {"none", "expired", "revoked"}
          BY <4>1, <5>1 DEF TypeOK, AuthSession, Live
        <5> QED BY <5>2 DEF Refusal
      <4> QED BY <2>1, <2>2, <3>2, <4>1, <4>2, <4>3 DEF NeverRefused, Live
    <3> QED BY <3>3, <3>4
  <2> QED BY <2>3, <2>4
<1>2. CASE Ending
  BY <1>0, <1>2, EndingOnlyEnds
<1>3. CASE CliStep
  <2>1. ~reply.some
    BY <1>3, CliExcludes DEF CliStep, registration, Owners,
       updateAccountCredentials, logoutAuth, saveConfig, CliRemovePending,
       CliStops, acquireProfile
  <2>2. reply' = reply
    BY <1>3 DEF CliStep, registration, updateAccountCredentials, logoutAuth,
       saveConfig, CliRemovePending, CliStops
  <2> QED BY <2>1, <2>2 DEF NeverRefused
<1>4. ASSUME NEW p \in Procs, ProcStep(p) PROVE NeverRefused'
  <2>1. CASE Commit(p)
    BY <2>1 DEF Commit, NeverRefused, NoReply
  <2>2. CASE ~Commit(p)
    <3>1. /\ UNCHANGED <<auth, profile>>
          /\ reply' \in {reply, NoReply}
      BY <1>4, <2>2 DEF ProcStep, newClient, Begin, Prepare, Send,
         removePrivatePending, End, Crash, serverVars, fileVars
    <3> QED BY <3>1 DEF NeverRefused, NoReply, Live
  <2> QED BY <2>1, <2>2
<1>5. CASE UNCHANGED vars
  BY <1>0, <1>5 DEF vars, serverVars, fileVars
<1> QED BY <1>1, <1>2, <1>3, <1>4, <1>5 DEF Next, ServerStep, Ending

-----------------------------------------------------------------------------
(* The inductive invariant and the theorems *)

LEMMA IInvInit == Init => IInv
<1> SUFFICES ASSUME Init PROVE IInv
  OBVIOUS
<1>1. TypeOK
  BY TypeInit
<1>2. /\ auth = [s \in Sessions |-> NoAuth] /\ tokens = {} /\ logins = 0
      /\ drawn = 0 /\ sent = {} /\ profile = LoggedOut
      /\ journal = NoPending /\ lock = "free"
      /\ cli.pc = "idle" /\ ~reply.some
      /\ \A p \in Procs : proc[p] = [pc |-> "off", creds |-> LoggedOut]
  BY DEF Init, NoReply
<1>3. \A s \in Sessions : ~Live(s)
  BY <1>2 DEF Live, NoAuth
<1>4. Owners
  BY <1>2, ConstantsAssumption DEF Owners, Holding
<1>5. Numbered
  <2>1. \A s \in Sessions : auth[s] = NoAuth
    BY <1>2
  <2> QED BY <1>2, <2>1 DEF Numbered, NoAuth, NoPending, LoggedOut
<1>6. Attempt /\ NeverStale
  BY <1>2 DEF Attempt, NeverStale
<1>7. NewLogin /\ SentFits /\ ReplyFits /\ NeverRefused /\ OnlyLiveAdmits
  BY <1>2 DEF NewLogin, SentFits, ReplyFits, NeverRefused, OnlyLiveAdmits
<1>8. AuthFits
  BY <1>3 DEF AuthFits
<1>9. ~Live(profile.session)
  BY <1>3 DEF Live
<1>10. Untried /\ Recoverable
  BY <1>9 DEF Untried, Recoverable
<1> QED BY <1>1, <1>4, <1>5, <1>6, <1>7, <1>8, <1>10 DEF IInv

LEMMA IInvStep == IInv /\ [Next]_vars => IInv'
<1> SUFFICES ASSUME IInv, [Next]_vars PROVE IInv'
  OBVIOUS
<1>1. /\ TypeOK /\ Owners /\ Numbered /\ Attempt /\ NewLogin /\ AuthFits
      /\ SentFits /\ Untried /\ ReplyFits
      /\ Recoverable /\ NeverStale /\ OnlyLiveAdmits
  BY DEF IInv
<1>2. TypeOK' /\ Owners' /\ Numbered' /\ Attempt' /\ NewLogin'
  BY <1>1, TypeStep, OwnersStep, NumberedStep, AttemptStep, NewLoginStep
<1>3. AuthFits' /\ SentFits' /\ Untried' /\ ReplyFits'
  BY <1>1, AuthFitsStep, SentFitsStep, UntriedStep, ReplyFitsStep
<1>4. Recoverable' /\ NeverRefused' /\ NeverStale' /\ OnlyLiveAdmits'
  BY <1>1, RecoverableStep, NeverRefusedStep, NeverStaleStep,
     OnlyLiveAdmitsStep
<1> QED BY <1>2, <1>3, <1>4 DEF IInv

(* The inductive invariant holds: the lock, the journal and the checks of  *)
(* refreshAuth leave one attempt that can still rotate the session.        *)
THEOREM Invariance == Spec => []IInv
BY IInvInit, IInvStep, PTL DEF Spec

(* Type correctness of server, files and processes. *)
THEOREM TypeCorrect == Spec => []TypeOK
<1>1. IInv => TypeOK
  BY DEF IInv
<1> QED BY <1>1, Invariance, PTL

(* Whatever crashes, answers get lost or processes compete, the profile    *)
(* and its journal suffice to go on with a live login session: Prepare     *)
(* before the request and Commit before the journal is removed.            *)
THEOREM CrashSafe == Spec => []Recoverable
<1>1. IInv => Recoverable
  BY DEF IInv
<1> QED BY <1>1, Invariance, PTL

(* refreshAuth never answers a waiting process with a conflict, and calls  *)
(* its secret invalid only when the session has ended.                     *)
THEOREM NoConflict == Spec => []NeverRefused
<1>1. IInv => NeverRefused
  BY DEF IInv
<1> QED BY <1>1, Invariance, PTL

(* No process is ever ahead of the profile file, so Begin never reports    *)
(* stale storage.                                                          *)
THEOREM StorageNeverStale == Spec => []NeverStale
<1>1. IInv => NeverStale
  BY DEF IInv
<1> QED BY <1>1, Invariance, PTL

(* Only live sessions admit access tokens, however late a refresh request  *)
(* reaches the server.                                                     *)
THEOREM EndedAdmitNothing == Spec => []OnlyLiveAdmits
<1>1. IInv => OnlyLiveAdmits
  BY DEF IInv
<1> QED BY <1>1, Invariance, PTL
=============================================================================
