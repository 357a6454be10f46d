--------------------------- MODULE MCResumeContext --------------------------
(* The instances of ResumeContextProofs.IInv and of the properties of      *)
(* ResumeContext that TLC checks.                                          *)
EXTENDS ResumeContextProofs
=============================================================================
