---------------------------- MODULE MCSignaling ----------------------------
(* The instance of Signaling that TLC checks: the client loses one socket  *)
(* and the broker none, and the client asks for TURN credentials.          *)
EXTENDS Signaling
ClientLoses == [s \in Side |-> IF s = "client" THEN 2 ELSE 1]
ClientRelays == [s \in Side |-> s = "client"]
=============================================================================
