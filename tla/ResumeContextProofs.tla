------------------------- MODULE ResumeContextProofs ------------------------
(***************************************************************************)
(* ClientContextIsShared, ConfirmedKeyKept and AgreeOnceReconnected, for   *)
(* any number of attempts and broker restarts.                             *)
(*                                                                         *)
(* The argument: within one attempt the key a side proved in its ICE       *)
(* message is the key it retains (Proved), the broker judges the proof     *)
(* before it becomes ready, when the client has judged the broker's        *)
(* (Judged), and a client that has been ready shares a key only with a     *)
(* broker that has been ready too (ReadyTogether), because the broker is   *)
(* ready first and a restarted broker cannot rejoin the attempt (Replied). *)
(***************************************************************************)
EXTENDS ResumeContext, TLAPS

(* The key a side proved in this attempt is the one it retains. *)
Proved ==
    \A r \in Role :
        /\ stage[r] = "setup" => ice[r] = NoKey
        /\ stage[r] \in {"keyed", "ice"} =>
             ice[r] = resume_key[r] /\ ice[r] # NoKey /\ fresh[r] = attempt
        /\ stage[r] \in {"ice", "ready"} =>
             ice[r] # NoKey /\ ice[Other(r)] # NoKey
        /\ stage[r] \in {"ice", "ready"} /\ available[r] =>
             /\ ice[r] = resume_key[r] /\ ice[Other(r)] = resume_key[r]
             /\ ever_ready[r]

(* What each side concluded, and that a client that found its context     *)
(* met a broker that found it.                                             *)
Judged ==
    /\ \A r \in Role : stage[r] = "ice" =>
         (available[r] <=> ice[Other(r)] = resume_key[r] /\ ever_ready[r])
    /\ stage["server"] = "ready" => stage["client"] \notin {"setup", "keyed"}
    /\ stage["server"] \in {"ice", "ready"} /\ stage["client"] \in {"ice", "ready"}
         /\ available["client"] => available["server"]

(* Keys are those of attempts that have happened. *)
KeysPast ==
    \A r \in Role :
        /\ resume_key[r] <= attempt
        /\ ever_ready[r] => resume_key[r] # NoKey
        /\ stage[r] # "down" => attempt > 0

(* A client that has been ready shares its key only with such a broker. *)
ReadyTogether ==
    /\ ever_ready["client"] /\ resume_key["client"] = resume_key["server"] =>
         ever_ready["server"]
    /\ stage["server"] = "setup" /\ ever_ready["client"] =>
         resume_key["client"] < attempt

(* A reply is that of a broker that went through this attempt. *)
Replied ==
    /\ stage["server"] = "setup" => ~replied
    /\ replied => ever_ready["server"] \/ resume_key["server"] = NoKey

(* The client becomes ready at most once in an attempt. *)
ReadyOnce ==
    /\ readies <= attempt
    /\ stage["client"] \in {"setup", "keyed", "ice"} => readies < attempt

IInv ==
    /\ TypeOK
    /\ Proved
    /\ Judged
    /\ KeysPast
    /\ ReadyTogether
    /\ Replied
    /\ ReadyOnce

-----------------------------------------------------------------------------

(* TypeOK in three parts, for the provers. *)
TypeFlags ==
    /\ ever_ready \in [Role -> BOOLEAN]
    /\ available \in [Role -> BOOLEAN]
    /\ replied \in BOOLEAN
TypeKeys ==
    /\ stage \in [Role -> Stages]
    /\ resume_key \in [Role -> 0..MaxAttempts]
    /\ fresh \in [Role -> 0..MaxAttempts]
    /\ ice \in [Role -> 0..MaxAttempts]
    /\ attempt \in 0..MaxAttempts
    /\ restarts \in 0..MaxRestarts
    /\ readies \in 0..MaxAttempts
TypeFlows == flows \in [Role -> SUBSET (1..MaxAttempts)]

LEMMA TypeParts == TypeOK <=> TypeFlags /\ TypeKeys /\ TypeFlows
BY DEF TypeOK, TypeFlags, TypeKeys, TypeFlows

LEMMA IInvInit == Init => IInv
<1> SUFFICES ASSUME Init
             PROVE  IInv
    OBVIOUS
<1> USE DEF Init, Role, NoKey
<1>1. TypeOK
  <2>1. TypeFlags
    BY DEF TypeFlags
  <2>2. TypeKeys
    BY BoundsAssumption DEF TypeKeys, Stages
  <2>3. TypeFlows
    BY DEF TypeFlows
  <2> QED BY <2>1, <2>2, <2>3 DEF TypeOK, TypeFlags, TypeKeys, TypeFlows
<1>2. Proved /\ KeysPast
  BY DEF Proved, KeysPast, Other
<1>3. Judged /\ ReadyTogether /\ Replied /\ ReadyOnce
  BY DEF Judged, ReadyTogether, Replied, ReadyOnce
<1> QED BY <1>1, <1>2, <1>3 DEF IInv

LEMMA IInvStep == IInv /\ [Next]_vars => IInv'
<1> SUFFICES ASSUME IInv, [Next]_vars
             PROVE  IInv'
    OBVIOUS
<1> USE BoundsAssumption DEF Role, Other, NoKey
<1>1. CASE NewAttempt
  <2>1. TypeOK'
    <3>1. TypeFlags'
      BY <1>1 DEF IInv, TypeOK, TypeFlags, NewAttempt
    <3>2. TypeKeys'
      BY <1>1 DEF IInv, TypeOK, Stages, TypeKeys, NewAttempt
    <3>3. TypeFlows'
      BY <1>1 DEF IInv, TypeOK, TypeFlows, NewAttempt
    <3> QED BY <3>1, <3>2, <3>3 DEF TypeOK, TypeFlags, TypeKeys, TypeFlows
  <2>2. Proved' /\ Judged' /\ KeysPast' /\ ReadyTogether' /\ Replied' /\ ReadyOnce'
    BY <1>1 DEF IInv, TypeOK, Stages, NewAttempt, Proved, Judged, KeysPast,
                ReadyTogether, Replied, ReadyOnce
  <2> QED BY <2>1, <2>2 DEF IInv
<1>2. ASSUME NEW r \in Role, pake(r)
      PROVE  IInv'
  <2>1. TypeOK'
    <3>1. TypeFlags'
      BY <1>2 DEF IInv, TypeOK, TypeFlags, pake
    <3>2. TypeKeys'
      BY <1>2 DEF IInv, TypeOK, Stages, TypeKeys, pake
    <3>3. TypeFlows'
      BY <1>2 DEF IInv, TypeOK, TypeFlows, pake
    <3> QED BY <3>1, <3>2, <3>3 DEF TypeOK, TypeFlags, TypeKeys, TypeFlows
  <2> USE <1>2 DEF IInv, TypeOK, Stages, pake
  <2>2. Proved'
    BY DEF Proved, KeysPast
  <2>3. Judged'
    <3>1. CASE r = "client"
      BY <3>1 DEF Proved, Judged, KeysPast, ReadyTogether
    <3>2. CASE r = "server"
      BY <3>2 DEF Proved, Judged, KeysPast, ReadyTogether
    <3> QED BY <3>1, <3>2
  <2>4. KeysPast'
    BY DEF Proved, KeysPast
  <2>5. ReadyTogether'
    BY <2>4 DEF Proved, KeysPast, ReadyTogether, Replied
  <2>6. Replied' /\ ReadyOnce'
    BY DEF Replied, ReadyOnce
  <2> QED BY <2>1, <2>2, <2>3, <2>4, <2>5, <2>6
<1>3. ASSUME NEW r \in Role, establish_ice(r)
      PROVE  IInv'
  <2>1. TypeOK'
    <3>1. TypeFlags'
      BY <1>3 DEF IInv, TypeOK, TypeFlags, establish_ice
    <3>2. TypeKeys'
      BY <1>3 DEF IInv, TypeOK, Stages, TypeKeys, establish_ice
    <3>3. TypeFlows'
      BY <1>3 DEF IInv, TypeOK, TypeFlows, establish_ice
    <3> QED BY <3>1, <3>2, <3>3 DEF TypeOK, TypeFlags, TypeKeys, TypeFlows
  <2> USE <1>3 DEF IInv, TypeOK, Stages, establish_ice
  <2>2. Proved'
    BY DEF Proved, KeysPast
  <2>3. Judged'
    <3>1. CASE r = "client"
      BY <3>1 DEF Proved, Judged, KeysPast, ReadyTogether
    <3>2. CASE r = "server"
      BY <3>2 DEF Proved, Judged, KeysPast, ReadyTogether
    <3> QED BY <3>1, <3>2
  <2>4. KeysPast'
    BY DEF Proved, KeysPast
  <2>5. ReadyTogether'
    BY <2>4 DEF Proved, KeysPast, ReadyTogether, Replied
  <2>6. Replied' /\ ReadyOnce'
    BY DEF Replied, ReadyOnce
  <2> QED BY <2>1, <2>2, <2>3, <2>4, <2>5, <2>6
<1>4. ASSUME NEW r \in Role, ob_peer_mark_ready(r)
      PROVE  IInv'
  <2>1. TypeOK'
    <3>1. TypeFlags'
      BY <1>4 DEF IInv, TypeOK, TypeFlags, ob_peer_mark_ready
    <3>2. TypeKeys'
      BY <1>4 DEF IInv, TypeOK, Stages, TypeKeys, ob_peer_mark_ready, ReadyKey, ReadyOnce
    <3>3. TypeFlows'
      BY <1>4 DEF IInv, TypeOK, TypeFlows, ob_peer_mark_ready
    <3> QED BY <3>1, <3>2, <3>3 DEF TypeOK, TypeFlags, TypeKeys, TypeFlows
  <2> USE <1>4 DEF IInv, TypeOK, Stages, ob_peer_mark_ready, ReadyKey
  <2>2. Proved'
    BY DEF Proved, KeysPast
  <2>3. Judged'
    <3>1. CASE r = "client"
      BY <3>1 DEF Proved, Judged, KeysPast, ReadyTogether
    <3>2. CASE r = "server"
      BY <3>2 DEF Proved, Judged, KeysPast, ReadyTogether
    <3> QED BY <3>1, <3>2
  <2>4. KeysPast'
    BY DEF Proved, KeysPast
  <2>5. ReadyTogether'
    BY <2>4 DEF Proved, KeysPast, ReadyTogether, Replied
  <2>6. Replied' /\ ReadyOnce'
    BY DEF Replied, ReadyOnce
  <2> QED BY <2>1, <2>2, <2>3, <2>4, <2>5, <2>6
<1>5. CASE OpenFlow \/ \E r \in Role : CloseFlow(r)
  <2>1. TypeOK'
    <3>1. TypeFlags'
      BY <1>5 DEF IInv, TypeOK, TypeFlags, OpenFlow, CloseFlow
    <3>2. TypeKeys'
      BY <1>5 DEF IInv, TypeOK, Stages, TypeKeys, OpenFlow, CloseFlow
    <3>3. TypeFlows'
      BY <1>5 DEF IInv, TypeOK, TypeFlows, OpenFlow, CloseFlow, KeysPast
    <3> QED BY <3>1, <3>2, <3>3 DEF TypeOK, TypeFlags, TypeKeys, TypeFlows
  <2>2. Proved' /\ Judged' /\ KeysPast' /\ ReadyTogether' /\ Replied' /\ ReadyOnce'
    BY <1>5 DEF IInv, TypeOK, OpenFlow, CloseFlow, Proved, Judged, KeysPast,
                ReadyTogether, Replied, ReadyOnce
  <2> QED BY <2>1, <2>2 DEF IInv
<1>6. ASSUME NEW r \in Role, TransportFail(r)
      PROVE  IInv'
  BY <1>6 DEF IInv, TypeOK, Stages, TransportFail, Proved, Judged, KeysPast,
              ReadyTogether, Replied, ReadyOnce
<1>7. CASE ServerRestart
  <2>1. TypeOK'
    <3>1. TypeFlags'
      BY <1>7 DEF IInv, TypeOK, TypeFlags, ServerRestart
    <3>2. TypeKeys'
      BY <1>7 DEF IInv, TypeOK, Stages, TypeKeys, ServerRestart
    <3>3. TypeFlows'
      BY <1>7 DEF IInv, TypeOK, TypeFlows, ServerRestart
    <3> QED BY <3>1, <3>2, <3>3 DEF TypeOK, TypeFlags, TypeKeys, TypeFlows
  <2>2. Proved' /\ Judged' /\ KeysPast' /\ ReadyTogether' /\ Replied' /\ ReadyOnce'
    BY <1>7 DEF IInv, TypeOK, Stages, ServerRestart, Proved, Judged, KeysPast,
                ReadyTogether, Replied, ReadyOnce
  <2> QED BY <2>1, <2>2 DEF IInv
<1>8. CASE UNCHANGED vars
  BY <1>8 DEF vars, IInv, TypeOK, Proved, Judged, KeysPast, ReadyTogether,
              Replied, ReadyOnce
<1> QED
  BY <1>1, <1>2, <1>3, <1>4, <1>5, <1>6, <1>7, <1>8 DEF Next

(* A client that finds its context available is connected to a broker that *)
(* found it too and retains the same secret, for any number of attempts    *)
(* and broker restarts (establish_ice, ob_peer_mark_ready).                *)
THEOREM ContextShared == Spec => []ClientContextIsShared
<1>1. IInv => ClientContextIsShared
  BY DEF IInv, Judged, Proved, ClientContextIsShared, BothReady, Role, Other,
         TypeOK
<1> QED BY IInvInit, IInvStep, <1>1, PTL DEF Spec

(* Every variable keeps its type. *)
THEOREM TypeCorrect == Spec => []TypeOK
<1>1. IInv => TypeOK
  BY DEF IInv
<1> QED BY IInvInit, IInvStep, <1>1, PTL DEF Spec

(* A side that was ready keeps its secret when the proofs of a later       *)
(* attempt match: no fresh PAKE key overwrites a confirmed context.        *)
THEOREM ContextKept == Spec => ConfirmedKeyKept
<1> DEFINE Kept ==
      \A r \in Role :
         /\ ever_ready[r] /\ ever_ready'[r]
         /\ ice[Other(r)] = resume_key[r] /\ stage[r] = "ice"
         => resume_key'[r] = resume_key[r]
<1>1. IInv /\ Next => Kept
  <2> SUFFICES ASSUME IInv, Next, NEW r \in Role,
                      ever_ready[r], ice[Other(r)] = resume_key[r],
                      stage[r] = "ice", ever_ready'[r]
               PROVE  resume_key'[r] = resume_key[r]
      OBVIOUS
  <2>1. available[r]
    BY DEF IInv, Judged, TypeOK
  <2> QED
    BY <2>1 DEF IInv, TypeOK, Role, Next, NewAttempt, pake, establish_ice,
                ob_peer_mark_ready, ReadyKey, OpenFlow, CloseFlow,
                TransportFail, ServerRestart
<1>2. Spec => []IInv
  BY IInvInit, IInvStep, PTL DEF Spec
<1> QED BY <1>1, <1>2, PTL DEF Spec, ConfirmedKeyKept

-----------------------------------------------------------------------------
(* Agreement after a reconnect.                                            *)
(*                                                                         *)
(* A side that is ready without a context retains the key of this attempt  *)
(* (Replaced).  A client that has been ready before judges by the keys     *)
(* alone, so both sides reach the same verdict (SameVerdict): either both  *)
(* keep the key they proved to each other or both take the fresh one.      *)

Replaced ==
    \A r \in Role :
        stage[r] = "ready" /\ ~available[r] => resume_key[r] = attempt

(* Only the client counts its readies, and it never restarts. *)
Counted == ever_ready["client"] <=> readies >= 1

SameVerdict ==
    BothReady /\ readies >= 2 /\ available["server"] => available["client"]

AInv == Replaced /\ Counted /\ SameVerdict

LEMMA AInvInit == Init => AInv
BY DEF Init, AInv, Replaced, Counted, SameVerdict, BothReady, Role

LEMMA AInvStep ==
  ASSUME IInv, AInv, [Next]_vars
  PROVE  AInv'
<1> USE DEF Role, Other, NoKey
<1>0. TypeOK
  BY DEF IInv
<1>1. CASE NewAttempt
  BY <1>0, <1>1 DEF TypeOK, NewAttempt, AInv, Replaced, Counted, SameVerdict,
                    BothReady
<1>2. ASSUME NEW r \in Role, pake(r) PROVE AInv'
  BY <1>0, <1>2 DEF TypeOK, Stages, pake, AInv, Replaced, Counted, SameVerdict,
                    BothReady
<1>3. ASSUME NEW r \in Role, establish_ice(r) PROVE AInv'
  BY <1>0, <1>3 DEF TypeOK, Stages, establish_ice, AInv, Replaced, Counted,
                    SameVerdict, BothReady
<1>4. ASSUME NEW r \in Role, ob_peer_mark_ready(r) PROVE AInv'
  <2> USE <1>0, <1>4 DEF TypeOK, Stages, ob_peer_mark_ready
  <2>1. Replaced'
    BY DEF IInv, Proved, AInv, Replaced, ReadyKey
  <2>2. Counted'
    BY DEF AInv, Counted
  <2>3. SameVerdict'
    <3>1. CASE r = "server"
      BY <3>1 DEF SameVerdict, BothReady
    <3>2. CASE r = "client"
      <4> SUFFICES ASSUME stage["server"] = "ready", readies >= 1,
                          available["server"]
                   PROVE  available["client"]
        BY <3>2 DEF SameVerdict, BothReady
      <4>1. /\ ice["client"] = resume_key["client"]
            /\ ice["server"] = resume_key["server"]
            /\ ice["client"] = resume_key["server"]
        BY <3>2 DEF IInv, Proved
      <4>2. ever_ready["client"]
        BY DEF AInv, Counted
      <4> QED  BY <3>2, <4>1, <4>2 DEF IInv, Judged
    <3> QED  BY <3>1, <3>2
  <2> QED  BY <2>1, <2>2, <2>3 DEF AInv
<1>5. CASE OpenFlow \/ \E r \in Role : CloseFlow(r)
  BY <1>5 DEF OpenFlow, CloseFlow, AInv, Replaced, Counted, SameVerdict,
              BothReady
<1>6. ASSUME NEW r \in Role, TransportFail(r) PROVE AInv'
  BY <1>0, <1>6 DEF TypeOK, Stages, TransportFail, AInv, Replaced, Counted,
                    SameVerdict, BothReady
<1>7. CASE ServerRestart
  BY <1>0, <1>7 DEF TypeOK, Stages, ServerRestart, AInv, Replaced, Counted,
                    SameVerdict, BothReady
<1>8. CASE UNCHANGED vars
  BY <1>8 DEF vars, AInv, Replaced, Counted, SameVerdict, BothReady
<1> QED
  BY <1>1, <1>2, <1>3, <1>4, <1>5, <1>6, <1>7, <1>8 DEF Next

(* From the second attempt on in which the client became ready, two        *)
(* connected peers retain the same secret, whatever attempts failed half   *)
(* way and however often the broker restarted (ob_peer_mark_ready).        *)
THEOREM Agreement == Spec => []AgreeOnceReconnected
<1> DEFINE J == IInv /\ AInv
<1>1. Init => J
  BY IInvInit, AInvInit
<1>2. J /\ [Next]_vars => J'
  BY IInvStep, AInvStep
<1>3. J => AgreeOnceReconnected
  <2> SUFFICES ASSUME J, BothReady, readies >= 2
               PROVE  resume_key["client"] = resume_key["server"]
    BY DEF AgreeOnceReconnected
  <2> USE DEF BothReady, Role, Other, IInv
  <2>1. CASE available["client"]
    BY <2>1 DEF Judged, Proved, TypeOK
  <2>2. CASE ~available["client"]
    BY <2>2 DEF AInv, Replaced, SameVerdict
  <2> QED  BY <2>1, <2>2
<1> HIDE DEF J
<1> QED  BY <1>1, <1>2, <1>3, PTL DEF Spec
=============================================================================
