------------------------------ MODULE MCInvoke ------------------------------
(* Two goroutines and two calls over one connection.  Both calls can fall  *)
(* to one goroutine, or one to each.                                       *)
EXTENDS EncryptedInvoke
=============================================================================
