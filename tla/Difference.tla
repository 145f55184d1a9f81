----------------------------- MODULE Difference -----------------------------
(***************************************************************************)
(* The update log of an account and parseDifferenceResult, which turns an  *)
(* updates.difference over a range of it into the messages the runtime     *)
(* dispatches.  An entry of the log is numbered by its pts.  A difference  *)
(* carries its entries in three vectors: new_messages, encrypted messages  *)
(* and other_updates (where channel messages are).  The parser knows plain *)
(* text messages; some shapes it skips, some make it give up.              *)
(***************************************************************************)
EXTENDS Integers

CONSTANTS MaxPts,     \* bound: length of the log
          Log         \* Log[pts] = [vector, kind]

Vectors == {"new", "encrypted", "other"}

\* text: parsed and delivered; empty: parsed, nothing to deliver;
\* unsupported: parseTextMessage fails (forward, reply, media, markup);
\* unknown: an Update constructor parseUpdateVector does not know.
Kinds == {"text", "empty", "unsupported", "unknown"}

ASSUME LogAssumption ==
  /\ MaxPts \in Nat \ {0}
  /\ Log \in [1..MaxPts -> [vector : Vectors, kind : Kinds]]
  /\ \A p \in 1..MaxPts : Log[p].kind = "unknown" => Log[p].vector = "other"

InVector(v, lo, hi) == {p \in (lo + 1)..hi : Log[p].vector = v}

Text(S) == {p \in S : Log[p].kind = "text"}

\* Mutant of parseMessageVector: messageEmpty is not recognised.
parseMessageVectorNoEmpty(lo, hi) ==
  LET vector == InVector("new", lo, hi)
  IN  [ok |-> \A p \in vector : Log[p].kind = "text", messages |-> Text(vector)]

\* parseMessageVector: one message it cannot parse fails the whole vector.
parseMessageVector(lo, hi) ==
  LET vector == InVector("new", lo, hi)
  IN  [ok |-> \A p \in vector : Log[p].kind # "unsupported", messages |-> Text(vector)]

\* parseUpdateVector stops at the first unknown update and keeps what it has.
parseUpdateVector(lo, hi) ==
  LET vector == InVector("other", lo, hi)
      read   == {p \in vector : \A q \in vector : q <= p => Log[q].kind # "unknown"}
  IN  [ok |-> \A p \in read : Log[p].kind # "unsupported", messages |-> Text(read)]

\* parseDifferenceResult for difference and differenceSlice: the messages
\* delivered for the entries after lo up to hi.
Delivered(lo, hi) ==
  LET new   == parseMessageVector(lo, hi)
      other == parseUpdateVector(lo, hi)
  IN  IF ~new.ok THEN {}
      ELSE IF InVector("encrypted", lo, hi) # {} \/ ~other.ok THEN new.messages
      ELSE new.messages \cup other.messages

\* The order of DifferenceResult.Messages: new_messages first.
Precedes(p, q) ==
  \/ Log[p].vector = "new" /\ Log[q].vector # "new"
  \/ Log[p].vector = Log[q].vector /\ p < q
=============================================================================
