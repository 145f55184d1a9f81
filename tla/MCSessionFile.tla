---------------------------- MODULE MCSessionFile ----------------------------
(* A short and a long session, a plain store and an encrypted one.          *)
EXTENDS SessionFile

MCSize == [s \in Sessions |-> IF s = "short" THEN 1 ELSE 2]
==============================================================================
