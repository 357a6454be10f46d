--------------------------- MODULE MCAuthRefresh ----------------------------
(* Small instances of AuthRefresh: two processes that share one profile.   *)
EXTENDS AuthRefreshProofs
=============================================================================
