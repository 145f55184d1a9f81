--------------------------- MODULE RecentMessages ---------------------------
(***************************************************************************)
(* What a message cache promises, with no ring buffer in sight: it holds   *)
(* the last Limit messages that were added, oldest first.  The README puts *)
(* it this way: when the limit is full the oldest cached message is        *)
(* dropped and the newest one is kept.  MessageCache implements it.        *)
(***************************************************************************)
EXTENDS Integers, Sequences

CONSTANTS Messages,   \* the messages that can arrive
          Limit       \* the configured cache size; 0 disables the cache

VARIABLE recent       \* the cached messages in chronological order

Remember(m) ==
  recent' = IF Len(recent) < Limit
            THEN Append(recent, m)
            ELSE IF Limit = 0 THEN recent
                              ELSE Append(Tail(recent), m)

Init == recent = <<>>

Next == \E m \in Messages : Remember(m)

Spec == Init /\ [][Next]_recent
=============================================================================
