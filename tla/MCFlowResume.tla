---------------------------- MODULE MCFlowResume ----------------------------
(* The instances of FlowResume that TLC checks: how many bytes each        *)
(* application writes.                                                     *)
EXTENDS FlowResumeProofs
Upload == [s \in Side |-> IF s = "local" THEN 2 ELSE 0]
Uniform == [s \in Side |-> 1]
=============================================================================
