---------------------------- MODULE MessageCache ----------------------------
(***************************************************************************)
(* updates.MessageCache: the bounded ring that keeps recent messages.      *)
(* The slice grows by append until it holds Limit messages; from then on   *)
(* Add overwrites the slot at pos and advances pos around the ring.  pos   *)
(* is the code's zero-based index: slot pos is items[pos + 1] here.        *)
(* Every method runs under the cache's own lock, so each is one step.      *)
(***************************************************************************)
EXTENDS Integers, Sequences

CONSTANTS Messages,   \* the messages that can arrive
          Limit       \* NewMessageCache's size, already clamped to >= 0

ASSUME LimitAssumption == Limit \in Nat

VARIABLES items,      \* the backing slice
          pos,        \* index of the oldest slot once the ring is full
          full        \* set by the first overwrite

cacheVars == <<items, pos, full>>

NewMessageCache ==
  /\ items = <<>>
  /\ pos = 0
  /\ full = FALSE

\* Mutant of Add: pos is advanced before the slot is overwritten.
AddAdvancesFirst(m) ==
  IF Limit = 0 THEN UNCHANGED cacheVars
  ELSE IF Len(items) < Limit
  THEN /\ items' = Append(items, m)
       /\ UNCHANGED <<pos, full>>
  ELSE /\ pos' = (pos + 1) % Limit
       /\ items' = [items EXCEPT ![pos' + 1] = m]
       /\ full' = TRUE

\* Mutant of Add: the slice is appended to once too often.
AddOffByOne(m) ==
  IF Limit = 0 THEN UNCHANGED cacheVars
  ELSE IF Len(items) <= Limit
  THEN /\ items' = Append(items, m)
       /\ UNCHANGED <<pos, full>>
  ELSE /\ items' = [items EXCEPT ![pos + 1] = m]
       /\ pos' = (pos + 1) % Limit
       /\ full' = TRUE

Add(m) ==
  IF Limit = 0 THEN UNCHANGED cacheVars
  ELSE IF Len(items) < Limit
  THEN /\ items' = Append(items, m)
       /\ UNCHANGED <<pos, full>>
  ELSE /\ items' = [items EXCEPT ![pos + 1] = m]
       /\ pos' = (pos + 1) % Limit
       /\ full' = TRUE

orderedLocked ==
  IF full
  THEN SubSeq(items, pos + 1, Len(items)) \o SubSeq(items, 1, pos)
  ELSE items

\* Last(n): the n newest messages, or all of them when fewer are cached.
Last(n) ==
  LET ordered == orderedLocked
      size    == IF n > Len(ordered) THEN Len(ordered) ELSE n
  IN  IF n <= 0 THEN <<>>
                ELSE SubSeq(ordered, Len(ordered) - size + 1, Len(ordered))

\* The abstract cache: orderedLocked is the list of messages it remembers.
Recent == INSTANCE RecentMessages WITH recent <- orderedLocked

(***************************************************************************)
(* However often the ring has wrapped, what All and Last read is the last  *)
(* Limit messages given to Add, oldest first, none repeated or skipped.    *)
(***************************************************************************)
KeepsMostRecent == Recent!Spec
=============================================================================
