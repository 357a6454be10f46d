----------------------------- MODULE AuthRefresh ----------------------------
(***************************************************************************)
(* Rotation of the login of one account: the server's login sessions       *)
(* (internal/control/auth_refresh.go, accounts.go), the processes that     *)
(* rotate them (rotate in sdk/c/remote/ob_auth.c), the profile file, its   *)
(* journal and its lock, which they share (internal/cli/auth_store.go,     *)
(* profile_lock.go), and the commands that replace the profile (tenant.go).*)
(*                                                                         *)
(* The two secrets and the request id a process draws together are one     *)
(* number; 0 stands for the secrets of the login answer.  Retries of one   *)
(* attempt are identical requests, so a request that was sent stays in     *)
(* sent and may reach the server late, again, or never.                    *)
(***************************************************************************)
EXTENDS Integers

CONSTANTS
    Procs,         \* processes that run an authentication manager
    MaxLogins,     \* bound: login sessions issued
    MaxRequests    \* bound: attempts drawn by new_pending

Free == "free"
Cli == "cli"

ASSUME ConstantsAssumption ==
    /\ MaxLogins \in Nat
    /\ MaxRequests \in Nat
    /\ Free \notin Procs /\ Cli \notin Procs

None == -1
Sessions == 1..MaxLogins

VARIABLES
    auth,      \* the table auth_sessions
    tokens,    \* unexpired account rows of tokens: session and secret
    logins,    \* login sessions issued so far
    drawn,     \* attempts drawn so far
    sent,      \* refresh requests that were sent
    profile,   \* the profile file: session 0 when logged out
    journal,   \* the .refresh-pending file
    lock,      \* who holds the profile lock
    proc,      \* the processes and the credentials each has in memory
    reply,     \* the answer on its way to the process that waits
    cli        \* the command that replaces the profile

serverVars == <<auth, tokens, logins>>
fileVars == <<profile, journal>>
vars == <<serverVars, drawn, sent, fileVars, lock, proc, reply, cli>>

-----------------------------------------------------------------------------
(* Types *)

Id == Nat \cup {None}
AuthSession == [state : {"none", "live", "expired", "revoked"},
                generation : Nat, refresh : Id, previous : Id, request : Id,
                expected : Nat]
NoAuth == [state |-> "none", generation |-> 0, refresh |-> None,
           previous |-> None, request |-> None, expected |-> 0]
Credentials == [session : Nat, generation : Nat, id : Nat]
LoggedOut == [session |-> 0, generation |-> 0, id |-> 0]
Pending == [some : BOOLEAN, session : Nat, expected : Nat, id : Nat]
NoPending == [some |-> FALSE, session |-> 0, expected |-> 0, id |-> 0]
Request == [session : Nat, proof : Nat, expected : Nat, id : Nat]
Reasons == {"receipt", "refresh_invalid", "refresh_revoked",
            "refresh_expired", "auth_conflict", "not_fresh"}
Reply == [some : BOOLEAN, reason : Reasons, generation : Nat]
NoReply == [some |-> FALSE, reason |-> "refresh_invalid", generation |-> 0]
Pc == {"off", "idle", "begun", "waiting", "saved"}
CliPc == {"idle", "issued", "revoked", "replaced"}

(* Every variable has its type and no bound is exceeded. *)
TypeOK ==
    /\ auth \in [Sessions -> AuthSession]
    /\ tokens \subseteq Sessions \X Nat
    /\ logins \in 0..MaxLogins
    /\ drawn \in 0..MaxRequests
    /\ sent \subseteq Request
    /\ profile \in Credentials
    /\ journal \in Pending
    /\ lock \in Procs \cup {Free, Cli}
    /\ proc \in [Procs -> [pc : Pc, creds : Credentials]]
    /\ reply \in Reply
    /\ cli \in [pc : CliPc, session : Nat]

Init ==
    /\ auth = [s \in Sessions |-> NoAuth]
    /\ tokens = {}
    /\ logins = 0
    /\ drawn = 0
    /\ sent = {}
    /\ profile = LoggedOut
    /\ journal = NoPending
    /\ lock = Free
    /\ proc = [p \in Procs |-> [pc |-> "off", creds |-> LoggedOut]]
    /\ reply = NoReply
    /\ cli = [pc |-> "idle", session |-> 0]

-----------------------------------------------------------------------------
(* The server.  Each handler is one transaction. *)

Live(s) == s \in Sessions /\ auth[s].state = "live"

(* Mutant: there is no receipt to replay. *)
RefusalNoReplay(m) ==
    LET a == auth[m.session]
    IN  IF a.state = "none" \/ m.proof # a.refresh THEN "refresh_invalid"
        ELSE IF a.state = "revoked" THEN "refresh_revoked"
        ELSE IF a.state = "expired" THEN "refresh_expired"
        ELSE IF m.expected # a.generation \/ m.id = a.request
        THEN "auth_conflict"
        ELSE "rotate"
Used(m) ==
    \/ \E t \in tokens : t = <<m.session, m.id>>
    \/ m.id \in {auth[m.session].refresh, auth[m.session].previous}
Refusal(m) ==
    LET a == auth[m.session]
    IN  IF a.state = "none" \/ m.proof \notin {a.refresh, a.previous}
        THEN "refresh_invalid"
        ELSE IF a.state = "revoked" THEN "refresh_revoked"
        ELSE IF a.state = "expired" THEN "refresh_expired"
        ELSE IF m.proof = a.previous
        THEN IF m.id = a.request /\ m.expected = a.expected
                /\ a.generation = a.expected + 1
             THEN "receipt" ELSE "auth_conflict"
        ELSE IF m.expected # a.generation \/ m.id = a.request
        THEN "auth_conflict"
        ELSE IF Used(m) THEN "not_fresh"
        ELSE "rotate"

Admitted(m) ==
    {t \in tokens : t[1] = m.session => t[2] = auth[m.session].refresh}
      \cup {<<m.session, m.id>>}
Rotated(a, m) ==
    [state |-> a.state, generation |-> a.generation + 1, refresh |-> m.id,
     previous |-> m.proof, request |-> m.id, expected |-> a.generation]

(* The process that still waits for this very request may get the answer;  *)
(* otherwise it is lost.                                                   *)
Waits(p, m) ==
    /\ proc[p].pc = "waiting"
    /\ m.session = proc[p].creds.session /\ m.id = journal.id
Answered(m, reason, generation) ==
    \/ reply' = reply
    \/ /\ \E p \in Procs : Waits(p, m)
       /\ reply' = [some |-> TRUE, reason |-> reason,
                    generation |-> generation]

refreshAuth(m) ==
    /\ m \in sent
    /\ IF Refusal(m) = "rotate"
       THEN /\ auth' = [auth EXCEPT ![m.session] = Rotated(@, m)]
            /\ tokens' = Admitted(m)
            /\ Answered(m, "receipt", auth[m.session].generation + 1)
       ELSE /\ Answered(m, Refusal(m), auth[m.session].generation)
            /\ UNCHANGED <<auth, tokens>>
    /\ UNCHANGED <<logins, drawn, sent, fileVars, lock, proc, cli>>

(* issueAuthSession; the limit of 16 live sessions refuses a login, which  *)
(* then changes nothing.                                                   *)
Issued(a, s) ==
    [a EXCEPT ![s] = [state |-> "live", generation |-> 1, refresh |-> 0,
                      previous |-> None, request |-> None, expected |-> 0]]

(* revokeAuthSession, reached from logout, from deleteAuthSession and,     *)
(* for every session of the account, from a change of the account.         *)
Revoked(a, S) ==
    [s \in Sessions |->
       IF s \in S /\ a[s].state # "none"
       THEN [a[s] EXCEPT !.state = "revoked"] ELSE a[s]]
Withdrawn(S) == {t \in tokens : t[1] \notin S}

(* Any admitted bearer of the account may delete any of its sessions. *)
deleteAuthSession(s) ==
    /\ tokens # {}
    /\ auth[s].state # "none"
    /\ auth' = Revoked(auth, {s})
    /\ tokens' = Withdrawn({s})
    /\ UNCHANGED <<logins, drawn, sent, fileVars, lock, proc, reply, cli>>

(* updateAccount by the administrator: disabled, or a new password. *)
updateAccount ==
    /\ auth' = Revoked(auth, Sessions)
    /\ tokens' = {}
    /\ UNCHANGED <<logins, drawn, sent, fileVars, lock, proc, reply, cli>>

(* Deadlines pass, and the maintenance job deletes what has ended. *)
TokenExpires ==
    /\ \E t \in tokens : tokens' = tokens \ {t}
    /\ UNCHANGED <<auth, logins, drawn, sent, fileVars, lock, proc, reply,
                   cli>>
RefreshExpires(s) ==
    /\ Live(s)
    /\ auth' = [auth EXCEPT ![s].state = "expired"]
    /\ tokens' = Withdrawn({s})
    /\ UNCHANGED <<logins, drawn, sent, fileVars, lock, proc, reply, cli>>
maintenance(s) ==
    /\ auth[s].state \in {"expired", "revoked"}
    /\ auth' = [auth EXCEPT ![s] = NoAuth]
    /\ UNCHANGED <<tokens, logins, drawn, sent, fileVars, lock, proc, reply,
                   cli>>

-----------------------------------------------------------------------------
(* The profile lock: a process that dies loses it. *)

acquireProfile(who) == lock = Free /\ lock' = who
release(who) == lock' = IF lock = who THEN Free ELSE lock

-----------------------------------------------------------------------------
(* The processes: rotate, over the profileAuthStorage adapter *)

(* newClient reads the profile without the lock. *)
newClient(p) ==
    /\ proc[p].pc = "off"
    /\ profile.session # 0
    /\ proc' = [proc EXCEPT ![p] = [pc |-> "idle", creds |-> profile]]
    /\ UNCHANGED <<serverVars, drawn, sent, fileVars, lock, reply, cli>>

(* Begin: an older journal is finished, one of this generation is taken    *)
(* up.  Anything else is an error that leaves all as it was.               *)
(* Mutants: the attempt in doubt counts as finished; none ever does. *)
StaleJournalSame(j, f) == j.some /\ j.expected <= f.generation
StaleJournalNever(j, f) == FALSE
StaleJournal(j, f) == j.some /\ j.expected < f.generation
BeginOk(p) ==
    LET c == proc[p].creds
    IN  /\ profile.session = c.session
        /\ journal.some => /\ journal.session = c.session
                           /\ \/ StaleJournal(journal, profile)
                              \/ journal.expected = profile.generation
        /\ profile.generation >= c.generation
        /\ profile.generation = c.generation => profile = c
Begin(p) ==
    /\ proc[p].pc = "idle"
    /\ acquireProfile(p)
    /\ BeginOk(p)
    /\ journal' = IF StaleJournal(journal, profile) THEN NoPending
                  ELSE journal
    /\ proc' = [proc EXCEPT ![p] = [pc |-> "begun", creds |-> profile]]
    /\ UNCHANGED <<serverVars, drawn, sent, profile, reply, cli>>

(* Prepare: a fresh attempt is durable before it is sent. *)
Prepare(p) ==
    /\ proc[p].pc = "begun" /\ ~journal.some
    /\ drawn < MaxRequests
    /\ drawn' = drawn + 1
    /\ journal' = [some |-> TRUE, session |-> proc[p].creds.session,
                   expected |-> proc[p].creds.generation, id |-> drawn']
    /\ UNCHANGED <<serverVars, sent, profile, lock, proc, reply, cli>>

Send(p) ==
    /\ proc[p].pc = "begun" /\ journal.some
    /\ sent' = sent \cup {[session |-> proc[p].creds.session,
                           proof |-> proc[p].creds.id,
                           expected |-> journal.expected,
                           id |-> journal.id]}
    /\ proc' = [proc EXCEPT ![p].pc = "waiting"]
    /\ reply' = NoReply
    /\ UNCHANGED <<serverVars, drawn, fileVars, lock, cli>>

(* Commit: the receipt is checked and the profile saved; then the journal  *)
(* is removed and only then the process uses the new credentials.          *)
CommitOk(p) ==
    /\ reply.some /\ reply.reason = "receipt"
    /\ reply.generation = proc[p].creds.generation + 1
    /\ profile.session = proc[p].creds.session
    /\ profile.generation = journal.expected
Successor(c) == [session |-> c.session, generation |-> c.generation + 1,
                 id |-> journal.id]
Commit(p) ==
    /\ proc[p].pc = "waiting"
    /\ CommitOk(p)
    /\ profile' = Successor(proc[p].creds)
    /\ proc' = [proc EXCEPT ![p].pc = "saved"]
    /\ reply' = NoReply
    /\ UNCHANGED <<serverVars, drawn, sent, journal, lock, cli>>
removePrivatePending(p) ==
    /\ proc[p].pc = "saved"
    /\ journal' = NoPending
    /\ proc' = [proc EXCEPT ![p] = [pc |-> "idle", creds |-> profile]]
    /\ release(p)
    /\ UNCHANGED <<serverVars, drawn, sent, profile, reply, cli>>

(* Nothing was due, the call was cancelled, timed out or was refused, or   *)
(* the storage failed: End releases the lock and keeps what is on disk.    *)
End(p) ==
    /\ proc[p].pc \in {"begun", "waiting", "saved"}
    /\ proc' = [proc EXCEPT ![p].pc = "idle"]
    /\ release(p)
    /\ reply' = NoReply
    /\ UNCHANGED <<serverVars, drawn, sent, fileVars, cli>>
Crash(p) ==
    /\ proc[p].pc # "off"
    /\ proc' = [proc EXCEPT ![p] = [pc |-> "off", creds |-> LoggedOut]]
    /\ release(p)
    /\ reply' = IF proc[p].pc = "waiting" THEN NoReply ELSE reply
    /\ UNCHANGED <<serverVars, drawn, sent, fileVars, cli>>

-----------------------------------------------------------------------------
(* The commands login, account update, account password and logout.  What  *)
(* their own client refreshes is a rotation of one of the processes.       *)

registration ==
    /\ acquireProfile(Cli)
    /\ logins < MaxLogins
    /\ logins' = logins + 1
    /\ auth' = Issued(auth, logins')
    /\ tokens' = tokens \cup {<<logins', 0>>}
    /\ cli' = [pc |-> "issued", session |-> logins']
    /\ UNCHANGED <<drawn, sent, fileVars, proc, reply>>

(* accountUpdate and accountPassword: every session of the account is      *)
(* revoked and one is issued.                                              *)
updateAccountCredentials ==
    /\ acquireProfile(Cli)
    /\ logins < MaxLogins
    /\ Live(profile.session)
    /\ <<profile.session, profile.id>> \in tokens
    /\ logins' = logins + 1
    /\ auth' = Issued(Revoked(auth, Sessions), logins')
    /\ tokens' = {<<logins', 0>>}
    /\ cli' = [pc |-> "issued", session |-> logins']
    /\ UNCHANGED <<drawn, sent, fileVars, proc, reply>>

logoutAuth ==
    /\ acquireProfile(Cli)
    /\ profile.session # 0
    /\ auth[profile.session].state # "none"
    /\ \/ profile.id = auth[profile.session].refresh
       \/ <<profile.session, profile.id>> \in tokens
    /\ auth' = Revoked(auth, {profile.session})
    /\ tokens' = Withdrawn({profile.session})
    /\ cli' = [pc |-> "revoked", session |-> 0]
    /\ UNCHANGED <<logins, drawn, sent, fileVars, proc, reply>>

saveConfig ==
    /\ cli.pc \in {"issued", "revoked"}
    /\ profile' = IF cli.pc = "issued"
                  THEN [session |-> cli.session, generation |-> 1, id |-> 0]
                  ELSE LoggedOut
    /\ cli' = [cli EXCEPT !.pc = "replaced"]
    /\ UNCHANGED <<serverVars, drawn, sent, journal, lock, proc, reply>>
CliRemovePending ==
    /\ cli.pc = "replaced"
    /\ journal' = NoPending
    /\ cli' = [pc |-> "idle", session |-> 0]
    /\ release(Cli)
    /\ UNCHANGED <<serverVars, drawn, sent, profile, proc, reply>>
(* The command dies, its answer is lost or a write fails. *)
CliStops ==
    /\ cli.pc # "idle"
    /\ cli' = [pc |-> "idle", session |-> 0]
    /\ release(Cli)
    /\ UNCHANGED <<serverVars, drawn, sent, fileVars, proc, reply>>

-----------------------------------------------------------------------------

ServerStep ==
    \/ \E m \in sent : refreshAuth(m)
    \/ \E s \in Sessions :
         deleteAuthSession(s) \/ RefreshExpires(s) \/ maintenance(s)
    \/ updateAccount \/ TokenExpires
ProcStep(p) ==
    \/ newClient(p) \/ Begin(p) \/ Prepare(p) \/ Send(p) \/ Commit(p)
    \/ removePrivatePending(p) \/ End(p) \/ Crash(p)
CliStep ==
    \/ registration \/ updateAccountCredentials \/ logoutAuth \/ saveConfig
    \/ CliRemovePending \/ CliStops
Next == ServerStep \/ CliStep \/ \E p \in Procs : ProcStep(p)

Spec == Init /\ [][Next]_vars

(* Fairness: again and again some process is started, takes the lock,      *)
(* sends, is answered and saves; they do not all die or time out at the    *)
(* same point every time.  A command that holds the lock ends, and a       *)
(* process whose login was replaced under it is stopped.                   *)
AnswerArrives(p) ==
    \E m \in sent : /\ Waits(p, m) /\ refreshAuth(m)
                    /\ reply' # reply
Outdated(p) == proc[p].creds.session # profile.session /\ Crash(p)
Fairness ==
    /\ WF_vars(CliStops)
    /\ WF_vars(\E p \in Procs : Outdated(p) \/ removePrivatePending(p))
    /\ SF_vars(\E p \in Procs : newClient(p))
    /\ SF_vars(\E p \in Procs : Begin(p))
    /\ SF_vars(\E p \in Procs : Send(p))
    /\ SF_vars(\E p \in Procs : AnswerArrives(p))
    /\ SF_vars(\E p \in Procs : Commit(p))
FairSpec == Spec /\ Fairness

-----------------------------------------------------------------------------
(* Properties *)

InDoubt(s) ==
    /\ journal.some /\ journal.session = s
    /\ journal.expected = profile.generation
    /\ journal.id = auth[s].request

(* As long as the login session lives, the files on disk are enough to go  *)
(* on: either the profile holds the current refresh secret, or it holds    *)
(* the predecessor and the journal holds the very attempt the server       *)
(* committed.  No crash, lost answer or competing process breaks this.     *)
Recoverable ==
    LET s == profile.session
    IN  Live(s) =>
          \/ /\ profile.generation = auth[s].generation
             /\ profile.id = auth[s].refresh
          \/ /\ profile.generation + 1 = auth[s].generation
             /\ profile.id = auth[s].previous
             /\ InDoubt(s)

(* A process that waits for its refresh is refused only because the login  *)
(* session ended, never as a conflict with itself or with another process  *)
(* that shares the profile.                                                *)
NeverRefused ==
    reply.some =>
        /\ reply.reason \notin {"auth_conflict", "not_fresh"}
        /\ reply.reason = "refresh_invalid" => ~Live(profile.session)

(* The credentials a process holds in memory are never newer than the      *)
(* profile, nor different at the same generation, so that rotate never     *)
(* reports its storage as stale.                                           *)
NeverStale ==
    \A p \in Procs :
        LET c == proc[p].creds
        IN  proc[p].pc # "off" /\ c.session = profile.session =>
              /\ c.generation <= profile.generation
              /\ c.generation = profile.generation => c = profile

(* Only a live session admits access tokens, whatever refresh requests     *)
(* reach the server after it was revoked or expired, and only its current  *)
(* token and the predecessor's.                                            *)
OnlyLiveAdmits ==
    \A t \in tokens :
        /\ Live(t[1])
        /\ t[2] \in {auth[t[1]].refresh, auth[t[1]].previous}

(* An attempt in doubt is settled in the end, unless its session ends or   *)
(* the profile is replaced: nobody has to log in again because of a crash  *)
(* or a lost answer.                                                       *)
Unsettled ==
    /\ journal.some /\ journal.session = profile.session
    /\ Live(profile.session)
Settled == Unsettled ~> ~Unsettled

(* While its session lives, a logged-in profile that nobody is using can   *)
(* be refreshed: "explicit login is required after idle expiry or          *)
(* revocation" (docs/AUTH-REFRESH.md) and not otherwise.                   *)
RefreshPossible ==
    lock = Free /\ Live(profile.session) /\ journal.some =>
        journal.session = profile.session
=============================================================================
