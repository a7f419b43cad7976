--------------------------- MODULE MCInferenceMux ---------------------------
(* Two proxy connections whose attempts may go through two clients.         *)
EXTENDS InferenceMux
=============================================================================
