--------------------------- MODULE SessionRegister ---------------------------
(***************************************************************************)
(* What a session store promises: a register that holds one saved session. *)
(* A save takes effect in one step or not at all, and a load answers with  *)
(* what the register held when the load began - as long as saves do not    *)
(* overlap.  While overlapping saves are under way the register holds      *)
(* anything, as Lamport's safe registers do; the next save that runs alone *)
(* makes it good again.  A crash ends what is under way and changes        *)
(* nothing.                                                                *)
(***************************************************************************)
CONSTANTS Actors,      \* goroutines
          Stores,      \* how a process seals sessions; "" refuses to
          Sessions     \* what there is to save

VARIABLES mode,        \* the store of the running process, or "down"
          content,     \* the session held, Empty or Torn
          saving,      \* what each goroutine is saving, or Empty
          clashing,    \* those whose save overlapped another
          seen,        \* what each load under way will answer, or NotReading
          ret,         \* the result of each goroutine's last save
          got          \* the answer to its last load

\* Marks that are no session have the shape of one.
Mark(m) == [store |-> "none", session |-> m]
Empty == Mark("empty")
Torn == Mark("torn")
NotReading == Mark("notReading")

Sealed == [store : Stores \ {""}, session : Sessions]
Content == Sealed \cup {Empty, Torn}

\* What a load makes of a sealed session: it needs the store that sealed it.
Answer(c) ==
  IF c \in Sealed /\ c.store = mode THEN c.session
  ELSE IF c = Empty THEN "none" ELSE "invalid"

Init ==
  /\ mode = "down" /\ content = Empty
  /\ saving = [a \in Actors |-> Empty] /\ clashing = {}
  /\ seen = [a \in Actors |-> NotReading]
  /\ ret = [a \in Actors |-> "none"] /\ got = [a \in Actors |-> "none"]

Start ==
  /\ mode = "down" /\ mode' \in Stores
  /\ UNCHANGED <<content, saving, clashing, seen, ret, got>>

Crash ==
  /\ mode # "down" /\ mode' = "down"
  /\ saving' = [a \in Actors |-> Empty] /\ clashing' = {}
  /\ seen' = [a \in Actors |-> NotReading]
  /\ ret' = [a \in Actors |-> "none"] /\ got' = [a \in Actors |-> "none"]
  /\ UNCHANGED content

Savers == {a \in Actors : saving[a] # Empty}

BeginSave(a) ==
  /\ mode # "down" /\ a \notin Savers
  /\ \E s \in Sealed : s.store = mode /\ saving' = [saving EXCEPT ![a] = s]
  /\ clashing' = IF Savers = {} THEN clashing ELSE Savers \cup {a}
  /\ UNCHANGED <<mode, content, seen, ret, got>>

\* A save, or the failure of one, that no other save has overlapped.
EndSave(a) ==
  /\ a \in Savers \ clashing
  /\ saving' = [saving EXCEPT ![a] = Empty]
  /\ \/ content' = saving[a] /\ ret' = [ret EXCEPT ![a] = "ok"]
     \/ ret' = [ret EXCEPT ![a] = "error"] /\ UNCHANGED content
  /\ UNCHANGED <<mode, clashing, seen, got>>

\* Steps of overlapping saves, the end of one perhaps.
Clash ==
  /\ clashing # {}
  /\ content' \in Content
  /\ \A a \in Actors : seen'[a] = NotReading <=> seen[a] = NotReading
  /\ DOMAIN seen' = Actors
  /\ \/ UNCHANGED <<saving, clashing, ret>>
     \/ \E a \in clashing, r \in {"ok", "error"} :
          /\ saving' = [saving EXCEPT ![a] = Empty]
          /\ clashing' = clashing \ {a}
          /\ ret' = [ret EXCEPT ![a] = r]
  /\ UNCHANGED <<mode, got>>

\* A save that is refused before it begins, and a load that is.
Refuse(a) ==
  /\ mode # "down"
  /\ \/ ret' = [ret EXCEPT ![a] = "error"] /\ UNCHANGED got
     \/ got' = [got EXCEPT ![a] = "refused"] /\ UNCHANGED ret
  /\ UNCHANGED <<mode, content, saving, clashing, seen>>

LoadNothing(a) ==
  /\ mode # "down" /\ content = Empty
  /\ got' = [got EXCEPT ![a] = "none"]
  /\ UNCHANGED <<mode, content, saving, clashing, seen, ret>>

BeginLoad(a) ==
  /\ mode # "down" /\ content # Empty /\ seen[a] = NotReading
  /\ seen' = [seen EXCEPT ![a] = content]
  /\ UNCHANGED <<mode, content, saving, clashing, ret, got>>

EndLoad(a) ==
  /\ seen[a] # NotReading
  /\ seen' = [seen EXCEPT ![a] = NotReading]
  /\ got' = [got EXCEPT ![a] = Answer(seen[a])]
  /\ UNCHANGED <<mode, content, saving, clashing, ret>>

Clear ==
  /\ mode # "down" /\ content' = Empty
  /\ UNCHANGED <<mode, saving, clashing, seen, ret, got>>

Next ==
  \/ Start \/ Crash \/ Clear \/ Clash
  \/ \E a \in Actors :
       \/ BeginSave(a) \/ EndSave(a) \/ Refuse(a)
       \/ LoadNothing(a) \/ BeginLoad(a) \/ EndLoad(a)

registerVars == <<mode, content, saving, clashing, seen, ret, got>>

Spec == Init /\ [][Next]_registerVars
==============================================================================
