--------------------------- MODULE MCNativeBridge ---------------------------
(* The properties of the client alone are checked of the two processes     *)
(* together: the bridge stops the client anywhere.                         *)
EXTENDS NativeBridge
=============================================================================
