---------------------------- MODULE MCDispatcher ----------------------------
(* A two-slot message cache and a two-slot peer cache, three messages, two *)
(* routes.  Route "a" accepts everything, "b" only message 1.              *)
EXTENDS Dispatcher

MCMessages == {[n |-> 1, from |-> 11, chat |-> 12],
               [n |-> 2, from |-> 0, chat |-> 13],
               [n |-> 3, from |-> 11, chat |-> 13]}
MCAccepts(r, m) == r = "a" \/ (r = "b" /\ m.n = 1)
MCCacheFilter == {m \in MCMessages : m.n = 2}
=============================================================================
