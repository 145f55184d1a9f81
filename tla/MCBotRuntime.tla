---------------------------- MODULE MCBotRuntime ----------------------------
(* Entry 1 of the log is there before the bot first runs; the others       *)
(* arrive later.  MCMixedLog has every vector but the encrypted one, a     *)
(* message the parser skips and one it gives up on; MCTextLog is plain.    *)
EXTENDS BotRuntime

MCMixedLog ==
  << [vector |-> "new", kind |-> "text"], [vector |-> "other", kind |-> "text"],
     [vector |-> "new", kind |-> "empty"], [vector |-> "other", kind |-> "unsupported"],
     [vector |-> "new", kind |-> "text"] >>

MCTextLog ==
  << [vector |-> "new", kind |-> "text"], [vector |-> "other", kind |-> "text"],
     [vector |-> "new", kind |-> "text"] >>
\* in seconds: the defaults, a cap reached on the way, one reached at once and
\* a first delay above it
MCBackoffs == {[initial |-> 0, max |-> 0], [initial |-> 1, max |-> 3],
               [initial |-> 20, max |-> 25], [initial |-> 5, max |-> 3]}
=============================================================================
