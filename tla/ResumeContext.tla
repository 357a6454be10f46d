---------------------------- MODULE ResumeContext ---------------------------
(***************************************************************************)
(* The recovery secret two logical peers retain across transport attempts  *)
(* (sdk/c/remote/peer/crypto.c, control.c, ../ob_remote.c).                *)
(*                                                                         *)
(* Every attempt runs a fresh PAKE, whose key is named by the number of    *)
(* the attempt.  The first key becomes the retained resume_key; in later   *)
(* attempts each side proves to the other, in its ICE message, that it     *)
(* still holds it.  A side that becomes ready without a matching proof     *)
(* drops its established flows and retains this attempt's key instead.     *)
(***************************************************************************)
EXTENDS Naturals

CONSTANTS MaxAttempts,  \* bound: transport attempts
          MaxRestarts   \* bound: restarts of the broker process

ASSUME BoundsAssumption == MaxAttempts \in Nat /\ MaxRestarts \in Nat

Role == {"client", "server"}
Other(r) == IF r = "client" THEN "server" ELSE "client"

NoKey == 0

VARIABLES
    stage,       \* progress of each side through the attempt
    resume_key,  \* the retained secret, NoKey while resume_key_set is 0
    fresh,       \* fresh_resume_key: the secret of the last PAKE
    ever_ready,  \* the side has been ready in some attempt
    available,   \* resume_context_available of the attempt
    ice,         \* the retained key whose proof the side's ICE message carries
    replied,     \* the broker flushed its channel proof in this attempt
    flows,       \* established TCP flows, named by the attempt that opened them
    attempt, restarts,
    readies      \* attempts in which the client became ready

vars == <<stage, resume_key, fresh, ever_ready, available, ice, replied,
          flows, attempt, restarts, readies>>

Stages == {"down", "setup", "keyed", "ice", "ready"}

(* Every variable has its type. *)
TypeOK ==
    /\ stage \in [Role -> Stages]
    /\ resume_key \in [Role -> 0..MaxAttempts]
    /\ fresh \in [Role -> 0..MaxAttempts]
    /\ ever_ready \in [Role -> BOOLEAN]
    /\ available \in [Role -> BOOLEAN]
    /\ ice \in [Role -> 0..MaxAttempts]
    /\ replied \in BOOLEAN
    /\ flows \in [Role -> SUBSET (1..MaxAttempts)]
    /\ attempt \in 0..MaxAttempts
    /\ restarts \in 0..MaxRestarts
    /\ readies \in 0..MaxAttempts

Init ==
    /\ stage = [r \in Role |-> "down"]
    /\ resume_key = [r \in Role |-> NoKey]
    /\ fresh = [r \in Role |-> NoKey]
    /\ ever_ready = [r \in Role |-> FALSE]
    /\ available = [r \in Role |-> FALSE]
    /\ ice = [r \in Role |-> NoKey]
    /\ replied = FALSE
    /\ flows = [r \in Role |-> {}]
    /\ attempt = 0
    /\ restarts = 0
    /\ readies = 0

(* Both coordinators enter a new attempt on a new control session. *)
NewAttempt ==
    /\ \A r \in Role : stage[r] = "down"
    /\ attempt < MaxAttempts
    /\ attempt' = attempt + 1
    /\ stage' = [r \in Role |-> "setup"]
    /\ ice' = [r \in Role |-> NoKey]
    /\ replied' = FALSE
    /\ UNCHANGED <<resume_key, fresh, ever_ready, available, flows, restarts,
                   readies>>

(* pake ends with ob_resume_key_derive; establish_ice then sends the ICE   *)
(* message with the proof under the retained key.                          *)
(* Mutant: it replaces the retained key at once. *)
pakeOverwrites(r) ==
    /\ stage[r] = "setup"
    /\ stage' = [stage EXCEPT ![r] = "keyed"]
    /\ fresh' = [fresh EXCEPT ![r] = attempt]
    /\ resume_key' = [resume_key EXCEPT ![r] = attempt]
    /\ ice' = [ice EXCEPT ![r] = resume_key'[r]]
    /\ UNCHANGED <<ever_ready, available, replied, flows, attempt, restarts,
                   readies>>
pake(r) ==
    /\ stage[r] = "setup"
    /\ stage' = [stage EXCEPT ![r] = "keyed"]
    /\ fresh' = [fresh EXCEPT ![r] = attempt]
    /\ resume_key' = [resume_key EXCEPT ![r] = IF @ = NoKey THEN attempt ELSE @]
    /\ ice' = [ice EXCEPT ![r] = resume_key'[r]]
    /\ UNCHANGED <<ever_ready, available, replied, flows, attempt, restarts,
                   readies>>

(* establish_ice after the other side's ICE message arrived: the proof     *)
(* matches only under the same retained key.                               *)
establish_ice(r) ==
    /\ stage[r] = "keyed"
    /\ ice[Other(r)] # NoKey
    /\ stage' = [stage EXCEPT ![r] = "ice"]
    /\ available' = [available EXCEPT ![r] =
                       ice[Other(r)] = resume_key[r] /\ ever_ready[r]]
    /\ UNCHANGED <<resume_key, fresh, ever_ready, ice, replied, flows,
                   attempt, restarts, readies>>

(* ob_peer_mark_ready: the broker once its channel proof reply is flushed, *)
(* the client when it has read that reply.                                 *)
(* Mutant: the retained key is never replaced. *)
ReadyKeyNever(r) == resume_key[r]
ReadyKey(r) == IF available[r] THEN resume_key[r] ELSE fresh[r]
ob_peer_mark_ready(r) ==
    /\ stage[r] = "ice"
    /\ IF r = "client" THEN replied ELSE stage["client"] = "ice"
    /\ stage' = [stage EXCEPT ![r] = "ready"]
    /\ replied' = TRUE
    /\ flows' = [flows EXCEPT ![r] = IF available[r] THEN @ ELSE {}]
    /\ resume_key' = [resume_key EXCEPT ![r] = ReadyKey(r)]
    /\ ever_ready' = [ever_ready EXCEPT ![r] = TRUE]
    /\ readies' = IF r = "client" THEN readies + 1 ELSE readies
    /\ UNCHANGED <<fresh, available, ice, attempt, restarts>>

(* A mapped TCP connection is opened and acknowledged on both sides. *)
OpenFlow ==
    /\ \A r \in Role : stage[r] = "ready"
    /\ flows' = [r \in Role |-> flows[r] \cup {attempt}]
    /\ UNCHANGED <<stage, resume_key, fresh, ever_ready, available, ice,
                   replied, attempt, restarts, readies>>

(* A flow ends on one side: its socket closed or its grace expired. *)
CloseFlow(r) ==
    /\ \E f \in flows[r] : flows' = [flows EXCEPT ![r] = @ \ {f}]
    /\ UNCHANGED <<stage, resume_key, fresh, ever_ready, available, ice,
                   replied, attempt, restarts, readies>>

(* ob_peer_transport_fail_locked at any point of the attempt. *)
TransportFail(r) ==
    /\ stage[r] # "down"
    /\ stage' = [stage EXCEPT ![r] = "down"]
    /\ UNCHANGED <<resume_key, fresh, ever_ready, available, ice, replied,
                   flows, attempt, restarts, readies>>

(* The broker process restarts: its secret and its sockets are gone. *)
ServerRestart ==
    /\ restarts < MaxRestarts
    /\ restarts' = restarts + 1
    /\ stage' = [stage EXCEPT !["server"] = "down"]
    /\ resume_key' = [resume_key EXCEPT !["server"] = NoKey]
    /\ fresh' = [fresh EXCEPT !["server"] = NoKey]
    /\ ever_ready' = [ever_ready EXCEPT !["server"] = FALSE]
    /\ available' = [available EXCEPT !["server"] = FALSE]
    /\ flows' = [flows EXCEPT !["server"] = {}]
    /\ UNCHANGED <<ice, replied, attempt, readies>>

Next ==
    \/ NewAttempt \/ OpenFlow \/ ServerRestart
    \/ \E r \in Role :
         \/ pake(r) \/ establish_ice(r) \/ ob_peer_mark_ready(r)
         \/ CloseFlow(r) \/ TransportFail(r)

Spec == Init /\ [][Next]_vars

-----------------------------------------------------------------------------
(* Properties *)

BothReady == \A r \in Role : stage[r] = "ready"

(* A client that finds its context available meets a broker that finds it  *)
(* too: no RESUME is sent to a broker that has just dropped the flow.      *)
ClientContextIsShared ==
    BothReady /\ available["client"] =>
        /\ available["server"]
        /\ resume_key["client"] = resume_key["server"]

(* From the second attempt on in which the client became ready, two        *)
(* connected peers retain the same secret, so the next outage can resume.  *)
AgreeOnceReconnected ==
    BothReady /\ readies >= 2 => resume_key["client"] = resume_key["server"]

(* A fresh key never replaces the secret of a context that was confirmed:  *)
(* the retained key of a side changes only when the proofs did not match   *)
(* or the side had never been ready.                                       *)
ConfirmedKeyKept ==
    [][\A r \in Role :
         /\ ever_ready[r] /\ ever_ready'[r]
         /\ ice[Other(r)] = resume_key[r] /\ stage[r] = "ice"
         => resume_key'[r] = resume_key[r]]_vars

(* Reconnecting never drops a flow that both live processes still retain   *)
(* ("已有 TCP 连接继续使用同一个业务 socket", docs/RECONNECT.md).           *)
FlowsSurvive ==
    [][\A r \in Role :
         stage[r] # "ready" /\ stage'[r] = "ready" =>
            flows["client"] \cap flows["server"] \subseteq flows'[r]]_vars
=============================================================================
