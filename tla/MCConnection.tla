---------------------------- MODULE MCConnection ----------------------------
(* Model checking of Connection.  HistoryKeep stands for the 256           *)
(* generations that are kept, MaxRpcs bounds the client's requests.        *)
EXTENDS ConnectionProofs
=============================================================================
