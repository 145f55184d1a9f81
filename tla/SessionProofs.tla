---------------------------- MODULE SessionProofs ----------------------------
(***************************************************************************)
(* Proofs about the session file: for every number of goroutines, saves,   *)
(* loads and failing system calls, and for sessions of every length, it is *)
(* the register that SessionRegister describes, and a session that saves   *)
(* in conflict have spoilt is never spoilt silently.                       *)
(***************************************************************************)
EXTENDS SessionFile, FiniteSetTheorems, TLAPS

(***************************************************************************)
(* The states of a job.                                                    *)
(***************************************************************************)
Saving == {"open", "write", "rename"}

Jobs == [pc : {"idle", "read"} \cup Saving, sealed : Sealed \cup {Empty},
         fd : {0} \cup Inodes, pos : Nat]

Staged(j) ==
  /\ j.sealed # Empty <=> j.pc \in Saving
  /\ j.pc \in {"read", "write", "rename"} => j.fd \in Inodes
  /\ j.pc = "open" => j.pos = 0
  /\ j.pc = "write" => j.pos < Size[j.sealed.session]
  /\ j.pc = "rename" => j.pos = Size[j.sealed.session]

Contents == Seq(Sealed \cup {Torn})

Typed ==
  /\ mode \in Stores \cup {"down"}
  /\ name \in [{"main", "tmp"} -> {0} \cup Inodes]
  /\ inode \in [Inodes -> Contents]
  /\ job \in [Actors -> Jobs]
  /\ \A a \in Actors : Staged(job[a])
  /\ warned \in BOOLEAN /\ stored \in Sealed \cup {Empty}

\* The temporary file is neither the session's nor one that a load reads: a
\* name moves from it to the session file, never back.
Linked ==
  /\ name["main"] = name["tmp"] => name["main"] = 0
  /\ \A a \in Actors : job[a].pc = "read" => job[a].fd # name["tmp"]

LEMMA Marks ==
  /\ Empty \notin Sealed /\ Torn \notin Sealed /\ Mark("notReading") \notin Sealed
  /\ Empty # Torn /\ Empty # Mark("notReading") /\ Torn # Mark("notReading")
  /\ 0 \notin Inodes
<1>1. "none" \notin Stores
  BY SessionFileAssumption
<1> QED BY <1>1 DEF Mark, Empty, Torn, Sealed, Inodes

LEMMA NoJobIsAJob == NoJob \in Jobs /\ Staged(NoJob)
BY DEF NoJob, Jobs, Staged, Saving

LEMMA JobOpens ==
  ASSUME NEW j \in Jobs, NEW i \in Inodes
  PROVE  \E k \in Jobs : /\ k = [j EXCEPT !.pc = "write", !.fd = i] /\ k.pc = "write"
                         /\ k.fd = i /\ k.sealed = j.sealed /\ k.pos = j.pos
<1> DEFINE k == [j EXCEPT !.pc = "write", !.fd = i]
<1>1. k.pc = "write" /\ k.fd = i /\ k.sealed = j.sealed /\ k.pos = j.pos
  BY DEF Jobs
<1>2. k \in Jobs
  BY DEF Jobs, Saving
<1> QED BY <1>1, <1>2

LEMMA SetJob ==
  ASSUME Typed, NEW a \in Actors, NEW j \in Jobs, job' = [job EXCEPT ![a] = j]
  PROVE  /\ job' \in [Actors -> Jobs] /\ job'[a] = j
         /\ \A b \in Actors \ {a} : job'[b] = job[b]
BY DEF Typed

\* Every name and every open file refers to one inode; two names and a file
\* for each goroutine leave one over.
LEMMA FreshExists ==
  ASSUME Typed, name["tmp"] = 0
  PROVE  /\ Fresh \in Inodes /\ Fresh # name["main"]
         /\ \A a \in Actors : job[a].fd # Fresh
<1> DEFINE Taken == {name["main"], name["tmp"]} \cup {job[a].fd : a \in Actors}
<1>1. \E i \in Inodes : i \notin Taken
  <2> SUFFICES ASSUME Inodes \subseteq Taken PROVE FALSE
    OBVIOUS
  <2> DEFINE rest == Inodes \ {name["main"]}
             holder == [i \in rest |-> CHOOSE a \in Actors : job[a].fd = i]
  <2>1. \A i \in rest : \E a \in Actors : job[a].fd = i
    BY Marks
  <2>2. \A i \in rest : holder[i] \in Actors /\ job[holder[i]].fd = i
    BY <2>1
  <2>3. holder \in [rest -> Actors]
    BY <2>2
  <2>4. Cardinality(Actors) \in Nat /\ IsFiniteSet(Actors)
    BY SessionFileAssumption, FS_CardinalityType
  <2>5. IsFiniteSet(Inodes) /\ Cardinality(Inodes) = 2 + Cardinality(Actors)
    BY <2>4, FS_Interval DEF Inodes
  <2>6. IsFiniteSet(rest) /\ Cardinality(rest) >= 1 + Cardinality(Actors)
    BY <2>4, <2>5, FS_RemoveElement
  <2> HIDE DEF holder, rest
  <2>7. Cardinality(Actors) < Cardinality(rest)
    <3>1. Cardinality(rest) \in Nat
      BY <2>6, FS_CardinalityType
    <3> QED BY <2>4, <2>6, <3>1
  <2>8. PICK x, y \in rest : x # y /\ holder[x] = holder[y]
    BY <2>3, <2>4, <2>6, <2>7, FS_PigeonHole
  <2> QED BY <2>2, <2>8
<1>2. Fresh \in Inodes /\ Fresh \notin Taken
  BY <1>1 DEF Fresh
<1> QED BY <1>2

(***************************************************************************)
(* Contents.                                                               *)
(***************************************************************************)
LEMMA CellsAreWhole ==
  ASSUME NEW s \in Sealed
  PROVE  Whole(Cells(s)) /\ Cells(s)[1] = s /\ Len(Cells(s)) = Size[s.session]
<1>1. Size[s.session] \in Nat \ {0}
  BY SessionFileAssumption DEF Sealed
<1>2. 1 \in 1..Size[s.session]
  BY <1>1
<1>3. Cells(s)[1] = s /\ Len(Cells(s)) = Size[s.session]
  BY <1>1, <1>2 DEF Cells
<1> QED BY <1>3 DEF Whole

LEMMA ContentTyped ==
  ASSUME NEW i
  PROVE  /\ ContentOf(i) \in Sealed \cup {Empty, Torn}
         /\ ContentOf(i) = Empty <=> i = 0
         /\ ContentOf(i) # Mark("notReading")
         /\ i # 0 => (Whole(inode[i]) <=> ContentOf(i) \in Sealed)
<1>1. ASSUME Whole(inode[i]) PROVE inode[i][1] \in Sealed
  BY <1>1, CellsAreWhole DEF Whole
<1> QED BY <1>1, Marks DEF ContentOf

\* What is behind a name or an open file only changes by writing to it.
LEMMA ContentKept ==
  ASSUME NEW i, i = 0 \/ inode'[i] = inode[i]
  PROVE  ContentOf(i)' = ContentOf(i)
BY DEF ContentOf, Whole

LEMMA PutTyped ==
  ASSUME NEW c \in Contents, NEW p \in Nat \ {0}, NEW cell \in Sealed
  PROVE  Put(c, p, cell) \in Contents
<1>1. Len(c) \in Nat /\ \A i \in 1..Len(c) : c[i] \in Sealed \cup {Torn}
  BY DEF Contents
<1>2. (IF p > Len(c) THEN p ELSE Len(c)) \in Nat
  BY <1>1
<1>3. PICK n \in Nat : n = IF p > Len(c) THEN p ELSE Len(c)
  BY <1>2
<1> DEFINE v(i) == IF i = p THEN cell ELSE IF i <= Len(c) THEN c[i] ELSE Torn
<1>4. \A i \in 1..n : v(i) \in Sealed \cup {Torn}
  BY <1>1
<1> HIDE DEF v
<1>5. [i \in 1..n |-> v(i)] \in Contents
  BY <1>4 DEF Contents
<1>6. Put(c, p, cell) = [i \in 1..n |-> v(i)]
  BY <1>3 DEF Put, v
<1> QED BY <1>5, <1>6

\* A file written from its beginning: one cell more.
LEMMA PutAppends ==
  ASSUME NEW n \in Nat, NEW s
  PROVE  Put([i \in 1..n |-> s], n + 1, s) = [i \in 1..(n + 1) |-> s]
<1> DEFINE c == [i \in 1..n |-> s]
<1>1. Len(c) = n /\ \A i \in 1..n : c[i] = s
  OBVIOUS
<1> HIDE DEF c
<1>2. (IF n + 1 > Len(c) THEN n + 1 ELSE Len(c)) = n + 1
  BY <1>1
<1>3. \A i \in 1..(n + 1) :
        (IF i = n + 1 THEN s ELSE IF i <= Len(c) THEN c[i] ELSE Torn) = s
  BY <1>1
<1>4. Put(c, n + 1, s) = [i \in 1..(n + 1) |-> s]
  BY <1>2, <1>3 DEF Put
<1> QED BY <1>4 DEF c

(***************************************************************************)
(* What the steps of a save do to the job and to the files.                *)
(***************************************************************************)
LEMMA Opens ==
  ASSUME Typed, Linked, NEW a \in Actors, OpenTmp(a)
  PROVE  \E i \in Inodes :
           /\ name["tmp"] \in {0, i} /\ i # name["main"]
           /\ \A b \in Actors : job[b].pc = "read" => job[b].fd # i
           /\ name' = [name EXCEPT !["tmp"] = i] /\ inode' = [inode EXCEPT ![i] = <<>>]
           /\ job[a].pc = "open"
           /\ \E j \in Jobs : /\ j.pc = "write" /\ j.fd = i /\ j.sealed = job[a].sealed
                             /\ j.pos = job[a].pos /\ job' = [job EXCEPT ![a] = j]
<1> DEFINE i == IF name["tmp"] # 0 THEN name["tmp"] ELSE Fresh
<1>1. i \in Inodes /\ i # name["main"] /\ name["tmp"] \in {0, i}
  BY FreshExists DEF Typed, Linked
<1>2. \A b \in Actors : job[b].pc = "read" => job[b].fd # i
  BY FreshExists DEF Linked
<1>3. /\ name' = [name EXCEPT !["tmp"] = i] /\ inode' = [inode EXCEPT ![i] = <<>>]
      /\ job[a].pc = "open" /\ job' = [job EXCEPT ![a].pc = "write", ![a].fd = i]
  BY DEF OpenTmp
<1> HIDE DEF i
<1>4. job[a] \in Jobs /\ job \in [Actors -> Jobs]
  BY DEF Typed
<1>5. PICK j \in Jobs : /\ j = [job[a] EXCEPT !.pc = "write", !.fd = i] /\ j.pc = "write"
                        /\ j.fd = i /\ j.sealed = job[a].sealed /\ j.pos = job[a].pos
  BY <1>1, <1>4, JobOpens
<1>6. job' = [job EXCEPT ![a] = j]
  BY <1>3, <1>4, <1>5
<1> QED BY <1>1, <1>2, <1>3, <1>5, <1>6

LEMMA Writes ==
  ASSUME Typed, NEW a \in Actors, Write(a)
  PROVE  \E p \in Nat \ {0} :
           /\ p = job[a].pos + 1 /\ job[a].pc = "write" /\ UNCHANGED name
           /\ inode' = [inode EXCEPT ![job[a].fd] = Put(inode[job[a].fd], p, job[a].sealed)]
           /\ \E j \in Jobs :
                /\ j.pc = IF p = Size[job[a].sealed.session] THEN "rename" ELSE "write"
                /\ j.sealed = job[a].sealed /\ j.fd = job[a].fd /\ j.pos = p
                /\ job' = [job EXCEPT ![a] = j]
<1> DEFINE p == job[a].pos + 1
           next == IF p = Size[job[a].sealed.session] THEN "rename" ELSE "write"
<1>1. job[a] \in Jobs /\ job \in [Actors -> Jobs] /\ Staged(job[a]) /\ job[a].pc = "write"
  BY DEF Typed, Write
<1>2. job[a].pos \in Nat /\ job[a].fd \in Inodes
  BY <1>1 DEF Jobs, Staged
<1>3. p \in Nat \ {0}
  BY <1>2
<1>4. /\ UNCHANGED name /\ job' = [job EXCEPT ![a].pos = p, ![a].pc = next]
      /\ inode' = [inode EXCEPT ![job[a].fd] = Put(inode[job[a].fd], p, job[a].sealed)]
  BY <1>2 DEF Write, Typed
<1> HIDE DEF p, next
<1>5. PICK j \in Jobs : /\ j = [job[a] EXCEPT !.pos = p, !.pc = next] /\ j.pc = next
                        /\ j.fd = job[a].fd /\ j.sealed = job[a].sealed /\ j.pos = p
  <2>1. PICK x \in {"write", "rename"} : x = next
    BY DEF next
  <2>2. PICK q \in Jobs : q = job[a]
    BY <1>1
  <2>3. PICK n \in Nat : n = p
    BY <1>3
  <2>4. PICK j : j = [q EXCEPT !.pos = n, !.pc = x]
    OBVIOUS
  <2>5. j \in Jobs /\ j.pc = x /\ j.fd = q.fd /\ j.sealed = q.sealed /\ j.pos = n
    <3>1. j.pc = x /\ j.fd = q.fd /\ j.sealed = q.sealed /\ j.pos = n
      BY <2>4 DEF Jobs
    <3>2. j \in Jobs
      BY <2>4 DEF Jobs, Saving
    <3> QED BY <3>1, <3>2
  <2> QED BY <2>1, <2>2, <2>3, <2>4, <2>5
<1>6. job' = [job EXCEPT ![a] = j]
  BY <1>1, <1>4, <1>5
<1>7. /\ p = job[a].pos + 1
      /\ next = IF p = Size[job[a].sealed.session] THEN "rename" ELSE "write"
  BY DEF p, next
<1> QED BY <1>1, <1>3, <1>4, <1>5, <1>6, <1>7
LEMMA BeginsSave ==
  ASSUME Typed, NEW a \in Actors, NEW session \in Sessions, BeginSave(a, session)
  PROVE  \E j \in Jobs :
           /\ j.pc = "open" /\ j.sealed = Seal(session) /\ j.fd = 0 /\ j.pos = 0
           /\ Seal(session) \in Sealed /\ mode # "down"
           /\ job[a] = NoJob /\ job' = [job EXCEPT ![a] = j]
<1>1. Seal(session) \in Sealed /\ mode # "down"
  BY DEF BeginSave, Idle, Typed, Seal, Sealed
<1>2. PICK j : j = [NoJob EXCEPT !.pc = "open", !.sealed = Seal(session)]
  OBVIOUS
<1>3. j.pc = "open" /\ j.sealed = Seal(session) /\ j.fd = 0 /\ j.pos = 0
  BY <1>2 DEF NoJob
<1>4. j \in Jobs
  BY <1>1, <1>2 DEF NoJob, Jobs, Saving
<1>5. job[a] = NoJob /\ job' = [job EXCEPT ![a] = j]
  BY <1>2 DEF BeginSave, Idle
<1> QED BY <1>1, <1>3, <1>4, <1>5

LEMMA BeginsLoad ==
  ASSUME Typed, NEW a \in Actors, BeginLoad(a), name["main"] # 0
  PROVE  \E j \in Jobs :
           /\ j.pc = "read" /\ j.sealed = Empty /\ j.fd = name["main"]
           /\ name["main"] \in Inodes
           /\ job[a] = NoJob /\ job' = [job EXCEPT ![a] = j]
<1>1. name["main"] \in Inodes
  BY DEF Typed
<1>2. PICK j : j = [NoJob EXCEPT !.pc = "read", !.fd = name["main"]]
  OBVIOUS
<1>3. j.pc = "read" /\ j.sealed = Empty /\ j.fd = name["main"]
  BY <1>2 DEF NoJob
<1>4. j \in Jobs
  BY <1>1, <1>2 DEF NoJob, Jobs, Saving
<1>5. job[a] = NoJob /\ job' = [job EXCEPT ![a] = j]
  BY <1>2 DEF BeginLoad, Idle
<1> QED BY <1>1, <1>3, <1>4, <1>5

(***************************************************************************)
(* Types.                                                                  *)
(***************************************************************************)
LEMMA InitTyped == Init => Typed /\ Linked
<1> SUFFICES ASSUME Init PROVE Typed /\ Linked
  OBVIOUS
<1>1. \A a \in Actors : job[a] = NoJob
  BY DEF Init
<1>2. job \in [Actors -> Jobs] /\ \A a \in Actors : Staged(job[a])
  BY <1>1, NoJobIsAJob DEF Init
<1>3. inode \in [Inodes -> Contents]
  BY DEF Init, Contents
<1> QED BY <1>1, <1>2, <1>3 DEF Init, Typed, Linked, NoJob

LEMMA NextTyped == Typed /\ Linked /\ [Next]_vars => Typed'
<1> SUFFICES ASSUME Typed, Linked, [Next]_vars PROVE Typed'
  OBVIOUS
<1>a. /\ mode \in Stores \cup {"down"} /\ name \in [{"main", "tmp"} -> {0} \cup Inodes]
      /\ inode \in [Inodes -> Contents] /\ job \in [Actors -> Jobs]
      /\ \A a \in Actors : Staged(job[a])
      /\ warned \in BOOLEAN /\ stored \in Sealed \cup {Empty}
  BY DEF Typed
<1>b. ASSUME NEW a \in Actors, NEW j \in Jobs, Staged(j), job' = [job EXCEPT ![a] = j]
      PROVE  job' \in [Actors -> Jobs] /\ \A b \in Actors : Staged(job'[b])
  BY <1>a, <1>b, SetJob
<1>c. ASSUME NEW a \in Actors, NEW r \in {"ok", "error"}, Return(a, r)
      PROVE  /\ job' \in [Actors -> Jobs] /\ \A b \in Actors : Staged(job'[b])
             /\ warned' \in BOOLEAN /\ stored' \in Sealed \cup {Empty}
  <2>1. job' = [job EXCEPT ![a] = NoJob]
    BY <1>c DEF Return
  <2>2. job' \in [Actors -> Jobs] /\ \A b \in Actors : Staged(job'[b])
    BY <1>b, <2>1, NoJobIsAJob
  <2>3. warned' \in BOOLEAN
    BY <1>c DEF Return
  <2>4. job[a].sealed \in Sealed \cup {Empty}
    BY <1>a DEF Jobs
  <2>5. stored' \in Sealed \cup {Empty}
    BY <1>a, <1>c, <2>4 DEF Return
  <2> QED BY <2>2, <2>3, <2>5
<1>1. CASE Start
  BY <1>1, <1>a DEF Start, fileVars, history, Typed
<1>2. CASE Crash
  <2>1. job' \in [Actors -> Jobs] /\ \A b \in Actors : Staged(job'[b])
    BY <1>2, NoJobIsAJob DEF Crash
  <2>2. warned' \in BOOLEAN
    BY <1>2 DEF Crash
  <2> QED BY <1>2, <1>a, <2>1, <2>2 DEF Crash, fileVars, Typed
<1>3. ASSUME NEW a \in Actors, NEW session \in Sessions, BeginSave(a, session) PROVE Typed'
  <2>1. PICK j \in Jobs : /\ j.pc = "open" /\ j.sealed = Seal(session) /\ j.fd = 0 /\ j.pos = 0
                          /\ Seal(session) \in Sealed /\ job' = [job EXCEPT ![a] = j]
    BY <1>3, BeginsSave
  <2>2. Staged(j)
    BY <2>1, Marks DEF Staged, Saving
  <2>3. job' \in [Actors -> Jobs] /\ \A b \in Actors : Staged(job'[b])
    BY <1>b, <2>1, <2>2
  <2> QED BY <1>3, <1>a, <2>3 DEF BeginSave, fileVars, Typed
<1>4. ASSUME NEW a \in Actors, SaveRefused(a) \/ LoadRefused(a) \/ ClearSession(a) PROVE Typed'
  BY <1>4, <1>a DEF SaveRefused, LoadRefused, ClearSession, fileVars, history, Typed
<1>5. ASSUME NEW a \in Actors, OpenTmp(a) PROVE Typed'
  <2>1. PICK i \in Inodes :
           /\ name' = [name EXCEPT !["tmp"] = i] /\ inode' = [inode EXCEPT ![i] = <<>>]
           /\ job[a].pc = "open"
           /\ \E j \in Jobs : /\ j.pc = "write" /\ j.fd = i /\ j.sealed = job[a].sealed
                              /\ j.pos = job[a].pos /\ job' = [job EXCEPT ![a] = j]
    BY <1>5, Opens
  <2>2. PICK j \in Jobs : /\ j.pc = "write" /\ j.fd = i /\ j.sealed = job[a].sealed
                          /\ j.pos = job[a].pos /\ job' = [job EXCEPT ![a] = j]
    BY <2>1
  <2>3. job[a].sealed \in Sealed /\ job[a].sealed # Empty /\ job[a].pos = 0
    BY <1>a, <2>1 DEF Jobs, Staged, Saving
  <2>4. Size[job[a].sealed.session] \in Nat \ {0}
    BY <2>3, SessionFileAssumption DEF Sealed
  <2>5. Staged(j)
    BY <2>2, <2>3, <2>4 DEF Staged, Saving
  <2>6. job' \in [Actors -> Jobs] /\ \A b \in Actors : Staged(job'[b])
    BY <1>b, <2>2, <2>5
  <2>7. inode' \in [Inodes -> Contents]
    <3>1. <<>> \in Contents
      BY DEF Contents
    <3> QED BY <1>a, <2>1, <3>1
  <2>8. name' \in [{"main", "tmp"} -> {0} \cup Inodes]
    BY <1>a, <2>1
  <2> QED BY <1>5, <1>a, <2>6, <2>7, <2>8 DEF OpenTmp, history, Typed
<1>6. ASSUME NEW a \in Actors, Write(a) PROVE Typed'
  <2>1. PICK p \in Nat \ {0} :
           /\ p = job[a].pos + 1 /\ job[a].pc = "write" /\ UNCHANGED name
           /\ inode' = [inode EXCEPT ![job[a].fd] = Put(inode[job[a].fd], p, job[a].sealed)]
           /\ \E j \in Jobs :
                /\ j.pc = IF p = Size[job[a].sealed.session] THEN "rename" ELSE "write"
                /\ j.sealed = job[a].sealed /\ j.fd = job[a].fd /\ j.pos = p
                /\ job' = [job EXCEPT ![a] = j]
    BY <1>6, Writes
  <2>2. PICK j \in Jobs :
           /\ j.pc = IF p = Size[job[a].sealed.session] THEN "rename" ELSE "write"
           /\ j.sealed = job[a].sealed /\ j.fd = job[a].fd /\ j.pos = p
           /\ job' = [job EXCEPT ![a] = j]
    BY <2>1
  <2>3. /\ job[a].sealed \in Sealed /\ job[a].sealed # Empty /\ job[a].fd \in Inodes
        /\ job[a].pos < Size[job[a].sealed.session] /\ job[a].pos \in Nat
    BY <1>a, <2>1 DEF Jobs, Staged, Saving
  <2>4. Size[job[a].sealed.session] \in Nat \ {0}
    BY <2>3, SessionFileAssumption DEF Sealed
  <2>5. p = Size[job[a].sealed.session] \/ p < Size[job[a].sealed.session]
    BY <2>1, <2>3, <2>4
  <2>6. Staged(j)
    BY <2>2, <2>3, <2>5 DEF Staged, Saving
  <2>7. job' \in [Actors -> Jobs] /\ \A b \in Actors : Staged(job'[b])
    BY <1>b, <2>2, <2>6
  <2>8. inode' \in [Inodes -> Contents]
    <3>1. Put(inode[job[a].fd], p, job[a].sealed) \in Contents
      BY <1>a, <2>3, PutTyped
    <3> QED BY <1>a, <2>1, <3>1
  <2> QED BY <1>6, <1>a, <2>1, <2>7, <2>8 DEF Write, history, Typed
<1>7. ASSUME NEW a \in Actors, Rename(a) PROVE Typed'
  <2>1. PICK r \in {"ok", "error"} : Return(a, r)
    BY <1>7 DEF Rename
  <2>2. name' \in [{"main", "tmp"} -> {0} \cup Inodes]
    BY <1>7, <1>a DEF Rename
  <2>3. UNCHANGED <<mode, inode>>
    BY <1>7 DEF Rename
  <2> QED BY <1>a, <1>c, <2>1, <2>2, <2>3 DEF Typed
<1>8. ASSUME NEW a \in Actors, SaveFails(a) PROVE Typed'
  <2>1. Return(a, "error") /\ UNCHANGED <<mode, name, inode>>
    BY <1>8 DEF SaveFails, fileVars
  <2> QED BY <1>a, <1>c, <2>1 DEF Typed
<1>9. ASSUME NEW a \in Actors, BeginLoad(a) PROVE Typed'
  <2>1. UNCHANGED <<mode, name, inode, warned, stored>>
    BY <1>9 DEF BeginLoad, fileVars, history
  <2>2. CASE name["main"] = 0
    <3>1. UNCHANGED job
      BY <1>9, <2>2 DEF BeginLoad
    <3> QED BY <1>a, <2>1, <3>1 DEF Typed
  <2>3. CASE name["main"] # 0
    <3>1. PICK j \in Jobs : /\ j.pc = "read" /\ j.sealed = Empty /\ j.fd = name["main"]
                            /\ name["main"] \in Inodes /\ job' = [job EXCEPT ![a] = j]
      BY <1>9, <2>3, BeginsLoad
    <3>2. Staged(j)
      BY <3>1 DEF Staged, Saving
    <3>3. job' \in [Actors -> Jobs] /\ \A b \in Actors : Staged(job'[b])
      BY <1>b, <3>1, <3>2
    <3> QED BY <1>a, <2>1, <3>3 DEF Typed
  <2> QED BY <2>2, <2>3
<1>10. ASSUME NEW a \in Actors, EndLoad(a) PROVE Typed'
  <2>1. job' = [job EXCEPT ![a] = NoJob] /\ UNCHANGED <<mode, name, inode, warned, stored>>
    BY <1>10 DEF EndLoad, fileVars, history
  <2>2. job' \in [Actors -> Jobs] /\ \A b \in Actors : Staged(job'[b])
    BY <1>b, <2>1, NoJobIsAJob
  <2> QED BY <1>a, <2>1, <2>2 DEF Typed
<1>11. CASE UNCHANGED vars
  BY <1>11, <1>a DEF vars, fileVars, history, Typed
<1> QED BY <1>1, <1>2, <1>3, <1>4, <1>5, <1>6, <1>7, <1>8, <1>9, <1>10, <1>11 DEF Next
LEMMA NextLinked == Typed /\ Linked /\ [Next]_vars => Linked'
<1> SUFFICES ASSUME Typed, Linked, [Next]_vars PROVE Linked'
  OBVIOUS
<1>a. /\ job \in [Actors -> Jobs] /\ name \in [{"main", "tmp"} -> {0} \cup Inodes]
      /\ \A a \in Actors : Staged(job[a])
  BY DEF Typed
<1>b. ASSUME UNCHANGED name,
             \A b \in Actors : job'[b].pc = "read" => job'[b] = job[b]
      PROVE  Linked'
  BY <1>b DEF Linked
<1>c. ASSUME NEW a \in Actors, job' = [job EXCEPT ![a] = NoJob]
      PROVE  \A b \in Actors : job'[b].pc = "read" => job'[b] = job[b]
  BY <1>c, SetJob, NoJobIsAJob DEF NoJob
<1>1. CASE Start
  BY <1>1, <1>b DEF Start, fileVars
<1>2. CASE Crash
  BY <1>2, <1>b DEF Crash, fileVars, NoJob
<1>3. ASSUME NEW a \in Actors, NEW session \in Sessions, BeginSave(a, session) PROVE Linked'
  <2>1. PICK j \in Jobs : j.pc = "open" /\ job' = [job EXCEPT ![a] = j]
    BY <1>3, BeginsSave
  <2>2. \A b \in Actors : job'[b].pc = "read" => job'[b] = job[b]
    BY <2>1, SetJob
  <2> QED BY <1>3, <1>b, <2>2 DEF BeginSave, fileVars
<1>4. ASSUME NEW a \in Actors, SaveRefused(a) \/ LoadRefused(a) PROVE Linked'
  BY <1>4, <1>b DEF SaveRefused, LoadRefused, fileVars
<1>5. ASSUME NEW a \in Actors, ClearSession(a) PROVE Linked'
  <2>1. name' = [name EXCEPT !["main"] = 0] /\ UNCHANGED job
    BY <1>5 DEF ClearSession
  <2>2. name'["main"] = 0 /\ name'["tmp"] = name["tmp"]
    BY <1>a, <2>1
  <2> QED BY <2>1, <2>2 DEF Linked
<1>6. ASSUME NEW a \in Actors, OpenTmp(a) PROVE Linked'
  <2>1. PICK i \in Inodes :
           /\ i # name["main"] /\ \A b \in Actors : job[b].pc = "read" => job[b].fd # i
           /\ name' = [name EXCEPT !["tmp"] = i]
           /\ \E j \in Jobs : j.pc = "write" /\ job' = [job EXCEPT ![a] = j]
    BY <1>6, Opens
  <2>2. name'["main"] = name["main"] /\ name'["tmp"] = i
    BY <1>a, <2>1
  <2>3. \A b \in Actors : job'[b].pc = "read" => job'[b] = job[b]
    BY <2>1, SetJob
  <2> QED BY <2>1, <2>2, <2>3 DEF Linked
<1>7. ASSUME NEW a \in Actors, Write(a) PROVE Linked'
  <2>1. UNCHANGED name /\ \E j \in Jobs : j.pc # "read" /\ job' = [job EXCEPT ![a] = j]
    BY <1>7, Writes
  <2>2. \A b \in Actors : job'[b].pc = "read" => job'[b] = job[b]
    BY <2>1, SetJob
  <2> QED BY <1>b, <2>1, <2>2
<1>8. ASSUME NEW a \in Actors, Rename(a) PROVE Linked'
  <2>1. job' = [job EXCEPT ![a] = NoJob]
    BY <1>8 DEF Rename, Return
  <2>2. \A b \in Actors : job'[b].pc = "read" => job'[b] = job[b]
    BY <1>c, <2>1
  <2>3. CASE UNCHANGED name
    BY <1>b, <2>2, <2>3
  <2>4. CASE name["tmp"] # 0 /\ name' = [name EXCEPT !["main"] = name["tmp"], !["tmp"] = 0]
    <3>1. name'["main"] # 0 /\ name'["tmp"] = 0
      BY <1>a, <2>4
    <3>2. \A b \in Actors : job'[b].pc = "read" => job'[b].fd # 0
      BY <1>a, <2>2, Marks DEF Staged
    <3> QED BY <3>1, <3>2 DEF Linked
  <2> QED BY <1>8, <2>3, <2>4 DEF Rename
<1>9. ASSUME NEW a \in Actors, SaveFails(a) PROVE Linked'
  BY <1>9, <1>b, <1>c DEF SaveFails, Return, fileVars
<1>10. ASSUME NEW a \in Actors, BeginLoad(a) PROVE Linked'
  <2>1. UNCHANGED name
    BY <1>10 DEF BeginLoad, fileVars
  <2>2. CASE name["main"] = 0
    BY <1>10, <1>b, <2>1, <2>2 DEF BeginLoad
  <2>3. CASE name["main"] # 0
    <3>1. PICK j \in Jobs : j.fd = name["main"] /\ job' = [job EXCEPT ![a] = j]
      BY <1>10, <2>3, BeginsLoad
    <3>2. job'[a] = j /\ \A b \in Actors \ {a} : job'[b] = job[b]
      BY <3>1, SetJob
    <3> QED BY <2>1, <2>3, <3>1, <3>2 DEF Linked
  <2> QED BY <2>2, <2>3
<1>11. ASSUME NEW a \in Actors, EndLoad(a) PROVE Linked'
  BY <1>11, <1>b, <1>c DEF EndLoad, fileVars
<1>12. CASE UNCHANGED vars
  BY <1>12, <1>b DEF vars, fileVars
<1> QED BY <1>1, <1>2, <1>3, <1>4, <1>5, <1>6, <1>7, <1>8, <1>9, <1>10, <1>11, <1>12 DEF Next

(***************************************************************************)
(* A save that no other has overlapped.                                    *)
(***************************************************************************)
Holders == {a \in Actors : job[a].pc \in {"write", "rename"}}

\* The temporary file is the one this save has open, and holds what it has
\* written so far and nothing else.
Filling(a) ==
  /\ name["tmp"] = job[a].fd
  /\ inode[job[a].fd] = [i \in 1..job[a].pos |-> job[a].sealed]

Alone ==
  /\ clashing \subseteq Savers
  /\ \A a \in Savers \ clashing : Savers = {a} /\ (a \in Holders => Filling(a))

LEMMA SetSavers ==
  ASSUME Typed, NEW a \in Actors, NEW j \in Jobs, job' = [job EXCEPT ![a] = j]
  PROVE  /\ Savers' = IF j.sealed # Empty THEN Savers \cup {a} ELSE Savers \ {a}
         /\ Holders' = IF j.pc \in {"write", "rename"} THEN Holders \cup {a} ELSE Holders \ {a}
<1>1. job'[a] = j /\ \A b \in Actors \ {a} : job'[b] = job[b]
  BY SetJob
<1> QED BY <1>1 DEF Savers, Holders

LEMMA FillingKept ==
  ASSUME NEW a, Filling(a), job'[a] = job[a], name'["tmp"] = name["tmp"],
         inode'[job[a].fd] = inode[job[a].fd]
  PROVE  Filling(a)'
BY DEF Filling

LEMMA SaversByStage ==
  ASSUME Typed, NEW a \in Actors
  PROVE  /\ a \in Savers <=> job[a].pc \in Saving
         /\ a \in Holders => a \in Savers
         /\ a \in Holders => job[a].fd \in Inodes
         /\ a \in Savers => job[a].sealed \in Sealed
BY DEF Typed, Savers, Holders, Staged, Jobs, Saving

LEMMA OpenFills ==
  ASSUME Typed, Linked, NEW a \in Actors, OpenTmp(a)
  PROVE  /\ Filling(a)' /\ Savers' = Savers /\ Holders' = Holders \cup {a}
         /\ a \in Savers \ Holders
         /\ name'["main"] = name["main"] /\ name'["tmp"] \in Inodes
         /\ name["tmp"] \in {0, name'["tmp"]}
         /\ \A b \in Actors \ {a} : job'[b] = job[b]
         /\ job'[a].pc # "read" /\ job'[a].sealed = job[a].sealed
         /\ \A i \in {0} \cup Inodes : i # name'["tmp"] => i = 0 \/ inode'[i] = inode[i]
<1>1. PICK i \in Inodes :
         /\ name["tmp"] \in {0, i} /\ i # name["main"]
         /\ name' = [name EXCEPT !["tmp"] = i] /\ inode' = [inode EXCEPT ![i] = <<>>]
         /\ job[a].pc = "open"
         /\ \E j \in Jobs : /\ j.pc = "write" /\ j.fd = i /\ j.sealed = job[a].sealed
                            /\ j.pos = job[a].pos /\ job' = [job EXCEPT ![a] = j]
  BY Opens
<1>2. PICK j \in Jobs : /\ j.pc = "write" /\ j.fd = i /\ j.sealed = job[a].sealed
                        /\ j.pos = job[a].pos /\ job' = [job EXCEPT ![a] = j]
  BY <1>1
<1>3. job'[a] = j /\ \A b \in Actors \ {a} : job'[b] = job[b]
  BY <1>2, SetJob
<1>4. a \in Savers /\ a \notin Holders /\ job[a].sealed # Empty /\ job[a].pos = 0
  BY <1>1, SaversByStage DEF Saving, Holders, Savers, Typed, Staged
<1>5. Savers' = Savers /\ Holders' = Holders \cup {a}
  BY <1>2, <1>4, SetSavers
<1>6. /\ name'["main"] = name["main"] /\ name'["tmp"] = i
      /\ inode'[i] = <<>> /\ \A k \in Inodes \ {i} : inode'[k] = inode[k]
  BY <1>1 DEF Typed
<1>7. Filling(a)'
  <2>1. [k \in 1..0 |-> job'[a].sealed] = <<>>
    OBVIOUS
  <2>2. job'[a].pos = 0 /\ job'[a].fd = i
    BY <1>2, <1>3, <1>4
  <2> QED BY <1>6, <2>1, <2>2 DEF Filling
<1> QED BY <1>1, <1>2, <1>3, <1>4, <1>5, <1>6, <1>7

LEMMA WriteFills ==
  ASSUME Typed, NEW a \in Actors, Write(a)
  PROVE  /\ Filling(a) => Filling(a)'
         /\ Savers' = Savers /\ Holders' = Holders /\ a \in Holders /\ UNCHANGED name
         /\ \A b \in Actors \ {a} : job'[b] = job[b]
         /\ job'[a].pc # "read" /\ job'[a].sealed = job[a].sealed
         /\ \A i \in Inodes \ {job[a].fd} : inode'[i] = inode[i]
<1>1. PICK p \in Nat \ {0} :
         /\ p = job[a].pos + 1 /\ job[a].pc = "write" /\ UNCHANGED name
         /\ inode' = [inode EXCEPT ![job[a].fd] = Put(inode[job[a].fd], p, job[a].sealed)]
         /\ \E j \in Jobs :
              /\ j.pc = IF p = Size[job[a].sealed.session] THEN "rename" ELSE "write"
              /\ j.sealed = job[a].sealed /\ j.fd = job[a].fd /\ j.pos = p
              /\ job' = [job EXCEPT ![a] = j]
  BY Writes
<1>2. PICK j \in Jobs :
         /\ j.pc = IF p = Size[job[a].sealed.session] THEN "rename" ELSE "write"
         /\ j.sealed = job[a].sealed /\ j.fd = job[a].fd /\ j.pos = p
         /\ job' = [job EXCEPT ![a] = j]
  BY <1>1
<1>3. job'[a] = j /\ \A b \in Actors \ {a} : job'[b] = job[b]
  BY <1>2, SetJob
<1>4. a \in Holders /\ a \in Savers /\ job[a].sealed # Empty /\ job[a].fd \in Inodes
  BY <1>1, SaversByStage DEF Holders, Savers
<1>5. Savers' = Savers /\ Holders' = Holders
  <2>1. j.pc \in {"write", "rename"} /\ j.sealed # Empty
    BY <1>2, <1>4
  <2>2. Savers' = Savers \cup {a} /\ Holders' = Holders \cup {a}
    BY <1>2, <2>1, SetSavers
  <2> QED BY <1>4, <2>2
<1>6. /\ inode'[job[a].fd] = Put(inode[job[a].fd], p, job[a].sealed)
      /\ \A i \in Inodes \ {job[a].fd} : inode'[i] = inode[i]
  BY <1>1, <1>4 DEF Typed
<1>7. ASSUME Filling(a) PROVE Filling(a)'
  <2>1. PICK n \in Nat : n = job[a].pos
    BY DEF Typed, Jobs
  <2>2. inode[job[a].fd] = [i \in 1..n |-> job[a].sealed]
    BY <1>7, <2>1 DEF Filling
  <2>3. inode'[job[a].fd] = [i \in 1..(n + 1) |-> job[a].sealed]
    <3>1. p = n + 1
      BY <1>1, <2>1
    <3>2. PICK s : s = job[a].sealed
      OBVIOUS
    <3>3. inode'[job[a].fd] = Put([i \in 1..n |-> s], n + 1, s)
      BY <1>6, <2>2, <3>1, <3>2
    <3>4. Put([i \in 1..n |-> s], n + 1, s) = [i \in 1..(n + 1) |-> s]
      BY PutAppends
    <3> QED BY <3>2, <3>3, <3>4, Zenon
  <2>4. job'[a].pos = n + 1 /\ job'[a].fd = job[a].fd /\ job'[a].sealed = job[a].sealed
    BY <1>1, <1>2, <1>3, <2>1
  <2> QED BY <1>1, <1>7, <2>3, <2>4 DEF Filling
<1> QED BY <1>1, <1>2, <1>3, <1>4, <1>5, <1>6, <1>7
LEMMA SaveReturns ==
  ASSUME Typed, NEW a \in Actors, job[a].pc \in Saving, NEW r, Return(a, r)
  PROVE  /\ a \in Savers /\ Savers' = Savers \ {a} /\ Holders' = Holders \ {a}
         /\ clashing' = clashing \ {a} /\ \A b \in Actors \ {a} : job'[b] = job[b]
         /\ job'[a] = NoJob
<1>1. job' = [job EXCEPT ![a] = NoJob] /\ clashing' = clashing \ {a}
  BY DEF Return
<1>2. NoJob.sealed = Empty /\ NoJob.pc \notin {"write", "rename"}
  BY DEF NoJob
<1>3. Savers' = Savers \ {a} /\ Holders' = Holders \ {a}
  BY <1>1, <1>2, SetSavers, NoJobIsAJob
<1>4. job'[a] = NoJob /\ \A b \in Actors \ {a} : job'[b] = job[b]
  BY <1>1, SetJob, NoJobIsAJob
<1> QED BY <1>1, <1>3, <1>4, SaversByStage

LEMMA LoadsSaveNothing ==
  ASSUME Typed, NEW a \in Actors, BeginLoad(a) \/ EndLoad(a)
  PROVE  /\ Savers' = Savers /\ Holders' = Holders
         /\ \A b \in Savers \cup Holders : job'[b] = job[b]
         /\ UNCHANGED <<mode, name, inode, ret, clashing, warned, stored>>
<1>1. UNCHANGED <<mode, name, inode, ret, clashing, warned, stored>>
  BY DEF BeginLoad, EndLoad, fileVars, history
<1>2. CASE UNCHANGED job
  BY <1>1, <1>2 DEF Savers, Holders
<1>3. CASE job' # job
  <2>1. job[a] = NoJob \/ job[a].pc = "read"
    BY DEF BeginLoad, EndLoad, Idle
  <2>2. a \notin Savers /\ a \notin Holders
    BY <2>1, SaversByStage DEF NoJob, Saving
  <2>3. PICK j \in Jobs : /\ j.sealed = Empty /\ j.pc \notin {"write", "rename"}
                          /\ job' = [job EXCEPT ![a] = j]
    <3>1. CASE BeginLoad(a)
      <4>1. name["main"] # 0
        BY <1>3, <3>1 DEF BeginLoad
      <4> QED BY <3>1, <4>1, BeginsLoad
    <3>2. CASE EndLoad(a)
      BY <3>2, NoJobIsAJob DEF EndLoad, NoJob
    <3> QED BY <3>1, <3>2
  <2>4. Savers' = Savers \ {a} /\ Holders' = Holders \ {a}
    BY <2>3, SetSavers
  <2>5. \A b \in Actors \ {a} : job'[b] = job[b]
    BY <2>3, SetJob
  <2>6. Savers \subseteq Actors /\ Holders \subseteq Actors
    BY DEF Savers, Holders
  <2> QED BY <1>1, <2>2, <2>4, <2>5, <2>6
<1> QED BY <1>2, <1>3

LEMMA SaveBegins ==
  ASSUME Typed, NEW a \in Actors, NEW session \in Sessions, BeginSave(a, session)
  PROVE  /\ a \notin Savers /\ a \notin Holders
         /\ Savers' = Savers \cup {a} /\ Holders' = Holders
         /\ \A b \in Actors \ {a} : job'[b] = job[b]
         /\ job'[a].pc = "open" /\ job'[a].sealed = Seal(session)
         /\ clashing' = (IF Savers = {} THEN clashing ELSE Savers \cup {a})
         /\ UNCHANGED <<mode, name, inode, ret, got, warned, stored>>
<1>1. PICK j \in Jobs : /\ j.pc = "open" /\ j.sealed = Seal(session)
                        /\ Seal(session) \in Sealed
                        /\ job[a] = NoJob /\ job' = [job EXCEPT ![a] = j]
  BY BeginsSave
<1>2. a \notin Savers /\ a \notin Holders
  BY <1>1 DEF Savers, Holders, NoJob
<1>3. Savers' = Savers \cup {a} /\ Holders' = Holders \ {a}
  <2>1. j.sealed # Empty
    BY <1>1, Marks
  <2> QED BY <1>1, <2>1, SetSavers
<1>4. job'[a] = j /\ \A b \in Actors \ {a} : job'[b] = job[b]
  BY <1>1, SetJob
<1> QED BY <1>1, <1>2, <1>3, <1>4 DEF BeginSave, fileVars

LEMMA NextAlone == Typed /\ Linked /\ Alone /\ [Next]_vars => Alone'
<1> SUFFICES ASSUME Typed, Linked, Alone, [Next]_vars PROVE Alone'
  OBVIOUS
<1>a. /\ clashing \subseteq Savers /\ Savers \subseteq Actors
      /\ \A a \in Savers \ clashing : Savers = {a} /\ (a \in Holders => Filling(a))
  BY DEF Alone, Savers
<1>b. ASSUME Savers' = Savers, Holders' = Holders, clashing' = clashing,
             \A b \in Savers \cup Holders : job'[b] = job[b],
             name'["tmp"] = name["tmp"], UNCHANGED inode
      PROVE  Alone'
  <2> SUFFICES ASSUME NEW a \in Savers \ clashing, a \in Holders PROVE Filling(a)'
    BY <1>a, <1>b DEF Alone
  <2> QED BY <1>a, <1>b, FillingKept
<1>c. UNCHANGED job => Savers' = Savers /\ Holders' = Holders
  BY DEF Savers, Holders
<1>d. ASSUME NEW a \in Actors, job[a].pc \in Saving, NEW r, Return(a, r) PROVE Alone'
  <2>1. a \in Savers /\ Savers' = Savers \ {a} /\ clashing' = clashing \ {a}
    BY <1>d, SaveReturns
  <2>2. \A b \in Savers' \ clashing' : FALSE
    BY <1>a, <2>1
  <2> QED BY <1>a, <2>1, <2>2 DEF Alone
<1>1. CASE Start
  BY <1>1, <1>b, <1>c DEF Start, fileVars, history
<1>2. CASE Crash
  <2>1. Savers' = {} /\ clashing' = {}
    BY <1>2 DEF Crash, Savers, NoJob
  <2> QED BY <2>1 DEF Alone
<1>3. ASSUME NEW a \in Actors, NEW session \in Sessions, BeginSave(a, session) PROVE Alone'
  <2>1. /\ a \notin Holders /\ Savers' = Savers \cup {a} /\ Holders' = Holders
        /\ clashing' = (IF Savers = {} THEN clashing ELSE Savers \cup {a})
    BY <1>3, SaveBegins
  <2>2. CASE Savers = {}
    BY <1>a, <2>1, <2>2 DEF Alone
  <2>3. CASE Savers # {}
    BY <2>1, <2>3 DEF Alone
  <2> QED BY <2>2, <2>3
<1>4. ASSUME NEW a \in Actors, SaveRefused(a) \/ LoadRefused(a) PROVE Alone'
  BY <1>4, <1>b, <1>c DEF SaveRefused, LoadRefused, fileVars, history
<1>5. ASSUME NEW a \in Actors, ClearSession(a) PROVE Alone'
  <2>1. name'["tmp"] = name["tmp"]
    BY <1>5 DEF ClearSession, Typed
  <2>2. UNCHANGED <<job, inode, clashing>>
    BY <1>5 DEF ClearSession
  <2> QED BY <1>b, <1>c, <2>1, <2>2
<1>6. ASSUME NEW a \in Actors, OpenTmp(a) PROVE Alone'
  <2>1. Filling(a)' /\ Savers' = Savers /\ a \in Savers
    BY <1>6, OpenFills
  <2>2. clashing' = clashing
    BY <1>6 DEF OpenTmp, history
  <2> QED BY <1>a, <2>1, <2>2 DEF Alone
<1>7. ASSUME NEW a \in Actors, Write(a) PROVE Alone'
  <2>1. (Filling(a) => Filling(a)') /\ Savers' = Savers /\ Holders' = Holders /\ a \in Holders
    BY <1>7, WriteFills
  <2>2. a \in Savers
    BY <2>1, SaversByStage
  <2>3. clashing' = clashing
    BY <1>7 DEF Write, history
  <2> QED BY <1>a, <2>1, <2>2, <2>3 DEF Alone
<1>8. ASSUME NEW a \in Actors, Rename(a) \/ SaveFails(a) PROVE Alone'
  <2>1. job[a].pc \in Saving /\ \E r : Return(a, r)
    BY <1>8 DEF Rename, SaveFails, Saving
  <2> QED BY <1>d, <2>1
<1>9. ASSUME NEW a \in Actors, BeginLoad(a) \/ EndLoad(a) PROVE Alone'
  BY <1>9, <1>b, LoadsSaveNothing
<1>10. CASE UNCHANGED vars
  BY <1>10, <1>b, <1>c DEF vars, fileVars, history
<1> QED BY <1>1, <1>2, <1>3, <1>4, <1>5, <1>6, <1>7, <1>8, <1>9, <1>10 DEF Next
(***************************************************************************)
(* Saves that overlap.  Each rename needs a temporary file, and takes it   *)
(* away.  When two saves have opened it, or one has and it is gone, there  *)
(* are fewer such files than saves that still need one: a later open puts  *)
(* one there but needs one too, so that some rename is bound to fail.      *)
(***************************************************************************)
Doomed ==
  \/ \E a, b \in Holders : a # b
  \/ Holders # {} /\ name["tmp"] = 0

Fine ==
  /\ ContentOf(name["main"]) = stored
  /\ \A a \in Holders : Filling(a)

Reported == warned \/ Doomed \/ Fine

LEMMA MainKept ==
  ASSUME name'["main"] = name["main"],
         name["main"] = 0 \/ inode'[name["main"]] = inode[name["main"]]
  PROVE  ContentOf(name["main"])' = ContentOf(name["main"])
BY DEF ContentOf, Whole

\* A rename makes the session file what the save has written.
LEMMA RenamedWhole ==
  ASSUME Typed, NEW a \in Actors, Filling(a), job[a].pc = "rename", name["tmp"] # 0,
         name' = [name EXCEPT !["main"] = name["tmp"], !["tmp"] = 0], UNCHANGED inode
  PROVE  ContentOf(name["main"])' = job[a].sealed
<1>1. a \in Savers /\ job[a].sealed \in Sealed /\ job[a].pos = Size[job[a].sealed.session]
  BY SaversByStage DEF Typed, Staged, Saving
<1>2. inode[name["tmp"]] = Cells(job[a].sealed)
  BY <1>1 DEF Filling, Cells
<1>3. name'["main"] = name["tmp"]
  BY DEF Typed
<1>4. inode'[name'["main"]] = Cells(job[a].sealed)
  BY <1>2, <1>3
<1>5. Whole(Cells(job[a].sealed)) /\ Cells(job[a].sealed)[1] = job[a].sealed
  BY <1>1, CellsAreWhole
<1>6. PICK c : c = Cells(job[a].sealed) /\ Whole(c) /\ c[1] = job[a].sealed
  BY <1>5
<1>7. inode'[name'["main"]] = c /\ name'["main"] # 0
  BY <1>3, <1>4, <1>6
<1> QED BY <1>6, <1>7 DEF ContentOf, Whole

LEMMA NextReported == Typed /\ Linked /\ Alone /\ Reported /\ [Next]_vars => Reported'
<1> SUFFICES ASSUME Typed, Linked, Alone, Reported, [Next]_vars PROVE Reported'
  OBVIOUS
<1>a. /\ clashing \subseteq Savers /\ Savers \subseteq Actors /\ Holders \subseteq Savers
      /\ \A a \in Savers \ clashing : Savers = {a} /\ (a \in Holders => Filling(a))
  BY SaversByStage DEF Alone, Savers, Holders
<1>b. ASSUME Holders' = Holders, \A b \in Holders : job'[b] = job[b],
             UNCHANGED inode, name'["tmp"] = name["tmp"], warned' = warned,
             ContentOf(name["main"]) = stored => ContentOf(name["main"])' = stored'
      PROVE  Reported'
  <2>1. ASSUME Fine PROVE Fine'
    <3>1. \A b \in Holders' : Filling(b)'
      BY <1>b, <2>1, FillingKept DEF Fine
    <3> QED BY <1>b, <2>1, <3>1 DEF Fine
  <2>2. Doomed => Doomed'
    BY <1>b DEF Doomed
  <2> QED BY <1>b, <2>1, <2>2 DEF Reported
<1>c. UNCHANGED job => Holders' = Holders
  BY DEF Holders
<1>d. UNCHANGED <<name, inode>> => ContentOf(name["main"])' = ContentOf(name["main"])
  BY MainKept
<1>1. CASE Start
  BY <1>1, <1>b, <1>c, <1>d DEF Start, fileVars, history
<1>2. CASE Crash
  <2>1. /\ Holders' = {} /\ UNCHANGED <<name, inode, stored>>
        /\ warned' = (warned \/ Savers # {})
    BY <1>2 DEF Crash, Holders, NoJob, fileVars
  <2>2. CASE Savers # {}
    BY <2>1, <2>2 DEF Reported
  <2>3. CASE Savers = {}
    <3>1. ~Doomed
      BY <1>a, <2>3 DEF Doomed
    <3> QED BY <1>d, <2>1, <3>1 DEF Reported, Fine
  <2> QED BY <2>2, <2>3
<1>3. ASSUME NEW a \in Actors, NEW session \in Sessions, BeginSave(a, session) PROVE Reported'
  <2>1. /\ a \notin Holders /\ Holders' = Holders /\ \A b \in Actors \ {a} : job'[b] = job[b]
        /\ UNCHANGED <<name, inode, warned, stored>>
    BY <1>3, SaveBegins
  <2>2. \A b \in Holders : job'[b] = job[b]
    BY <1>a, <2>1
  <2> QED BY <1>b, <1>d, <2>1, <2>2
<1>4. ASSUME NEW a \in Actors, SaveRefused(a) \/ LoadRefused(a) PROVE Reported'
  BY <1>4, <1>b, <1>c, <1>d DEF SaveRefused, LoadRefused, fileVars, history
<1>5. ASSUME NEW a \in Actors, ClearSession(a) PROVE Reported'
  <2>1. name'["tmp"] = name["tmp"] /\ name'["main"] = 0
    BY <1>5 DEF ClearSession, Typed
  <2>2. UNCHANGED <<job, inode, warned>> /\ stored' = Empty
    BY <1>5 DEF ClearSession
  <2>3. ContentOf(name["main"])' = stored'
    BY <2>1, <2>2 DEF ContentOf
  <2> QED BY <1>b, <1>c, <2>1, <2>2, <2>3
<1>6. ASSUME NEW a \in Actors, OpenTmp(a) PROVE Reported'
  <2>1. /\ Filling(a)' /\ Holders' = Holders \cup {a} /\ a \notin Holders
        /\ name'["main"] = name["main"] /\ name'["tmp"] \in Inodes
    BY <1>6, OpenFills
  <2>2. UNCHANGED <<warned, stored>>
    BY <1>6 DEF OpenTmp, history
  <2>3. CASE Holders # {}
    BY <2>1, <2>3 DEF Reported, Doomed
  <2>4. CASE Holders = {}
    <3>1. name["main"] # name'["tmp"]
      BY <1>6, Opens DEF Typed
    <3>2. name["main"] = 0 \/ inode'[name["main"]] = inode[name["main"]]
      <4>1. name["main"] \in {0} \cup Inodes
        BY DEF Typed
      <4> QED BY <1>6, <3>1, <4>1, OpenFills
    <3>3. ContentOf(name["main"])' = ContentOf(name["main"])
      BY <2>1, <3>2, MainKept
    <3>4. ~Doomed
      BY <2>4 DEF Doomed
    <3> QED BY <2>1, <2>2, <2>4, <3>3, <3>4 DEF Reported, Fine
  <2> QED BY <2>3, <2>4
<1>7. ASSUME NEW a \in Actors, Write(a) PROVE Reported'
  <2>1. /\ (Filling(a) => Filling(a)') /\ Holders' = Holders /\ a \in Holders /\ UNCHANGED name
        /\ \A i \in Inodes \ {job[a].fd} : inode'[i] = inode[i]
    BY <1>7, WriteFills
  <2>2. UNCHANGED <<warned, stored>>
    BY <1>7 DEF Write, history
  <2>3. CASE Doomed
    BY <2>1, <2>3 DEF Doomed, Reported
  <2>4. CASE ~Doomed /\ Fine
    <3>1. Holders = {a} /\ Filling(a)
      BY <2>1, <2>4 DEF Doomed, Fine
    <3>2. name["main"] = 0 \/ inode'[name["main"]] = inode[name["main"]]
      BY <2>1, <3>1 DEF Filling, Linked, Typed
    <3>3. ContentOf(name["main"])' = ContentOf(name["main"])
      BY <2>1, <3>2, MainKept
    <3> QED BY <2>1, <2>2, <2>4, <3>1, <3>3 DEF Reported, Fine
  <2> QED BY <2>2, <2>3, <2>4 DEF Reported
<1>8. ASSUME NEW a \in Actors, Rename(a) \/ SaveFails(a) PROVE Reported'
  <2>1. CASE Return(a, "error")
    BY <2>1 DEF Return, Reported
  <2>2. CASE /\ job[a].pc = "rename" /\ name["tmp"] # 0 /\ UNCHANGED inode
             /\ name' = [name EXCEPT !["main"] = name["tmp"], !["tmp"] = 0]
             /\ Return(a, "ok")
    <3>1. a \in Savers /\ a \in Holders /\ Holders' = Holders \ {a}
      BY <2>2, SaveReturns, SaversByStage DEF Saving, Holders
    <3>2. name'["tmp"] = 0
      BY <2>2 DEF Typed
    <3>3. stored' = job[a].sealed /\ (a \in clashing /\ warned => warned')
      BY <2>2 DEF Return
    <3>4. Filling(a) => ContentOf(name["main"])' = job[a].sealed
      BY <2>2, RenamedWhole
    <3>5. CASE \E b \in Holders : b # a
      BY <3>1, <3>2, <3>5 DEF Doomed, Reported
    <3>6. CASE Holders = {a}
      <4>1. Holders' = {}
        BY <3>1, <3>6
      <4>2. CASE a \notin clashing
        BY <1>a, <3>1, <3>3, <3>4, <4>1, <4>2 DEF Reported, Fine
      <4>3. CASE a \in clashing
        <5>1. ~Doomed
          BY <2>2, <3>6 DEF Doomed
        <5> QED BY <3>1, <3>3, <3>4, <4>1, <4>3, <5>1 DEF Reported, Fine
      <4> QED BY <4>2, <4>3
    <3> QED BY <3>1, <3>5, <3>6
  <2> QED BY <1>8, <2>1, <2>2 DEF Rename, SaveFails
<1>9. ASSUME NEW a \in Actors, BeginLoad(a) \/ EndLoad(a) PROVE Reported'
  <2>1. /\ Holders' = Holders /\ \A b \in Holders : job'[b] = job[b]
        /\ UNCHANGED <<name, inode, warned, stored>>
    BY <1>9, LoadsSaveNothing
  <2> QED BY <1>b, <1>d, <2>1
<1>10. CASE UNCHANGED vars
  BY <1>10, <1>b, <1>c, <1>d DEF vars, fileVars, history
<1> QED BY <1>1, <1>2, <1>3, <1>4, <1>5, <1>6, <1>7, <1>8, <1>9, <1>10 DEF Next

(***************************************************************************)
(* The invariant, and what follows from it.                                *)
(***************************************************************************)
FileOK == Typed /\ Linked /\ Alone

LEMMA AlwaysOK == Spec => []FileOK
<1>1. Init => FileOK
  <2>1. Init => Savers = {} /\ clashing = {}
    BY DEF Init, Savers, NoJob
  <2> QED BY <2>1, InitTyped DEF FileOK, Alone
<1>2. FileOK /\ [Next]_vars => FileOK'
  BY NextTyped, NextLinked, NextAlone DEF FileOK
<1> QED BY <1>1, <1>2, PTL DEF Spec

\* Types; in particular the two names never lead to one file, which is what
\* keeps the session from being written in place.
THEOREM TypeCorrect == Spec => []TypeOK
<1>1. FileOK => TypeOK
  <2> SUFFICES ASSUME FileOK PROVE TypeOK
    OBVIOUS
  <2>1. \A a \in Actors : job[a] \in Jobs
    BY DEF FileOK, Typed
  <2>2. \A a \in Actors :
          /\ job[a].pc \in {"idle", "open", "write", "rename", "read"}
          /\ job[a].sealed \in Sealed \cup {Empty} /\ job[a].fd \in {0} \cup Inodes
    BY <2>1 DEF Jobs, Saving
  <2> QED BY <2>2 DEF FileOK, Typed, Linked, Alone, TypeOK
<1> QED BY <1>1, AlwaysOK, PTL

\* Saves that overlap never spoil the session silently: when none is under
\* way and every save since the last one that ran alone returned nil, the file
\* holds exactly the session whose save returned last.
THEOREM DamageReported == Spec => []DamageIsReported
<1>1. Init => Reported
  <2> SUFFICES ASSUME Init PROVE Fine
    BY DEF Reported
  <2>1. Holders = {} /\ name["main"] = 0 /\ stored = Empty
    BY DEF Init, Holders, NoJob
  <2> QED BY <2>1 DEF Fine, ContentOf
<1>2. FileOK /\ Reported /\ [Next]_vars => Reported'
  BY NextReported DEF FileOK
<1>3. FileOK /\ Reported => DamageIsReported
  <2> SUFFICES ASSUME FileOK, Reported, Savers = {}, ~warned
               PROVE  ContentOf(name["main"]) = stored
    BY DEF DamageIsReported
  <2>1. Holders = {}
    BY SaversByStage DEF FileOK, Holders
  <2> QED BY <2>1 DEF Reported, Doomed, Fine
<1> QED BY <1>1, <1>2, <1>3, AlwaysOK, PTL DEF Spec
(***************************************************************************)
(* The file is the register.                                               *)
(***************************************************************************)
Held == ContentOf(name["main"])
Given == [a \in Actors |-> job[a].sealed]
Seen == [a \in Actors |-> IF job[a].pc = "read" THEN ContentOf(job[a].fd)
                                                ELSE Mark("notReading")]

LEMMA SameTerms ==
  /\ Register!Savers = Savers /\ Register!Sealed = Sealed
  /\ Register!Empty = Empty /\ Register!Torn = Torn
  /\ Register!NotReading = Mark("notReading")
  /\ Register!Content = Sealed \cup {Empty, Torn}
<1>1. Register!Empty = Empty /\ Register!Torn = Torn /\ Register!NotReading = Mark("notReading")
  BY DEF Register!Empty, Register!Torn, Register!NotReading, Register!Mark, Empty, Torn, Mark
<1>2. Register!Sealed = Sealed
  BY DEF Register!Sealed, Sealed
<1>3. Register!Savers = Savers
  BY <1>1 DEF Register!Savers, Savers
<1> QED BY <1>1, <1>2, <1>3 DEF Register!Content

LEMMA SeenKept ==
  ASSUME \A b \in Actors :
           \/ job[b].pc # "read" /\ job'[b].pc # "read"
           \/ job'[b] = job[b] /\ inode'[job[b].fd] = inode[job[b].fd]
  PROVE  Seen' = Seen
<1> SUFFICES ASSUME NEW b \in Actors, job[b].pc = "read"
             PROVE  ContentOf(job[b].fd)' = ContentOf(job[b].fd)
  BY DEF Seen
<1>1. job'[b] = job[b] /\ inode'[job[b].fd] = inode[job[b].fd]
  OBVIOUS
<1> QED BY <1>1 DEF ContentOf, Whole

LEMMA GivenKept ==
  ASSUME \A b \in Actors : job'[b].sealed = job[b].sealed
  PROVE  Given' = Given
BY DEF Given

LEMMA GivenSet ==
  ASSUME NEW a \in Actors, \A b \in Actors \ {a} : job'[b] = job[b]
  PROVE  Given' = [Given EXCEPT ![a] = job'[a].sealed]
BY DEF Given

LEMMA SeenSet ==
  ASSUME NEW a \in Actors, NEW c, Seen'[a] = c, \A b \in Actors \ {a} : Seen'[b] = Seen[b]
  PROVE  Seen' = [Seen EXCEPT ![a] = c]
<1>1. PICK f : f = Seen /\ f = [b \in Actors |-> f[b]]
  BY DEF Seen
<1>2. PICK g : g = Seen' /\ g = [b \in Actors |-> g[b]]
  BY DEF Seen
<1>3. g[a] = c /\ \A b \in Actors \ {a} : g[b] = f[b]
  BY <1>1, <1>2
<1>4. g = [f EXCEPT ![a] = c]
  BY <1>1, <1>2, <1>3
<1> QED BY <1>1, <1>2, <1>4

\* A step of a save in conflict.
LEMMA Clashes ==
  ASSUME NEW a \in Actors, a \in clashing,
         \A b \in Actors : job'[b].pc = "read" <=> job[b].pc = "read",
         UNCHANGED <<mode, got>>,
         \/ UNCHANGED <<Given, clashing, ret>>
         \/ \E r \in {"ok", "error"} :
              /\ Given' = [Given EXCEPT ![a] = Empty]
              /\ clashing' = clashing \ {a} /\ ret' = [ret EXCEPT ![a] = r]
  PROVE  Register!Clash
<1>1. Held' \in Sealed \cup {Empty, Torn}
  <2>1. (\A i : ContentOf(i) \in Sealed \cup {Empty, Torn})'
    BY CellsAreWhole, Marks DEF ContentOf, Whole
  <2> QED BY <2>1 DEF Held, ContentOf, Whole
<1>2. \A b \in Actors : Seen[b] = Mark("notReading") <=> job[b].pc # "read"
  BY ContentTyped DEF Seen
<1>3. (\A b \in Actors : Seen[b] = Mark("notReading") <=> job[b].pc # "read")'
  <2>1. \A b \in Actors : ContentOf(job[b].fd)' # Mark("notReading")
    BY CellsAreWhole, Marks DEF ContentOf, Whole
  <2> QED BY <2>1 DEF Seen
<1>4. \A b \in Actors : Seen'[b] = Mark("notReading") <=> Seen[b] = Mark("notReading")
  BY <1>2, <1>3
<1>5. DOMAIN Seen' = Actors
  BY DEF Seen
<1> QED BY <1>1, <1>4, <1>5, SameTerms DEF Register!Clash, Held, Given, Seen
\* Each step of the store is one of the register, or none.
LEMMA NextRefines ==
  ASSUME FileOK, [Next]_vars
  PROVE  Register!Next \/ UNCHANGED <<mode, Held, Given, clashing, Seen, ret, got>>
<1>a. /\ Typed /\ Linked /\ Alone /\ job \in [Actors -> Jobs]
      /\ name \in [{"main", "tmp"} -> {0} \cup Inodes]
      /\ \A a \in Savers \ clashing : Savers = {a} /\ (a \in Holders => Filling(a))
      /\ clashing \subseteq Savers /\ Savers \subseteq Actors
      /\ \A a \in Actors : Staged(job[a])
  BY DEF FileOK, Typed, Alone, Savers
<1>b. UNCHANGED <<name, inode>> => Held' = Held
  BY MainKept DEF Held
<1>c. UNCHANGED <<job, inode>> => Seen' = Seen /\ Given' = Given
  BY SeenKept, GivenKept
<1>d. ASSUME NEW a \in Actors, job[a].pc \in Saving, NEW r \in {"ok", "error"}, Return(a, r),
             UNCHANGED <<mode, got, inode>>,
             a \notin clashing => \/ r = "error" /\ Held' = Held
                                  \/ r = "ok" /\ Held' = job[a].sealed
      PROVE  Register!Next
  <2>1. /\ a \in Savers /\ job'[a] = NoJob /\ clashing' = clashing \ {a}
        /\ \A b \in Actors \ {a} : job'[b] = job[b]
    BY <1>a, <1>d, SaveReturns
  <2>2. job'[a].sealed = Empty /\ job'[a].pc # "read" /\ job[a].pc # "read"
    BY <1>d, <2>1 DEF NoJob, Saving
  <2>3. Given' = [Given EXCEPT ![a] = Empty]
    BY <2>1, <2>2, GivenSet
  <2>4. ret' = [ret EXCEPT ![a] = r]
    BY <1>d DEF Return
  <2>5. CASE a \in clashing
    <3>1. \A b \in Actors : job'[b].pc = "read" <=> job[b].pc = "read"
      BY <2>1, <2>2
    <3>2. Register!Clash
      BY <1>d, <2>1, <2>3, <2>4, <2>5, <3>1, Clashes
    <3> QED BY <3>2 DEF Register!Next
  <2>6. CASE a \notin clashing
    <3>1. Seen' = Seen
      BY <1>d, <2>1, <2>2, SeenKept
    <3>2. clashing' = clashing
      BY <2>1, <2>6
    <3>3. Given[a] = job[a].sealed
      BY DEF Given
    <3>4. Register!EndSave(a)
      BY <1>d, <2>1, <2>3, <2>4, <2>6, <3>1, <3>2, <3>3, SameTerms
      DEF Register!EndSave, Held, Given, Seen
    <3> QED BY <3>4 DEF Register!Next
  <2> QED BY <2>5, <2>6
<1>1. CASE Start
  <2>1. UNCHANGED <<Held, Given, Seen, clashing, ret, got>>
    BY <1>1, <1>b, <1>c DEF Start, fileVars, history
  <2>2. Register!Start
    BY <1>1, <2>1 DEF Start, Register!Start, Held, Given, Seen
  <2> QED BY <2>2 DEF Register!Next
<1>2. CASE Crash
  <2>1. Held' = Held
    BY <1>2, <1>b DEF Crash, fileVars
  <2>2. Given' = [a \in Actors |-> Empty] /\ Seen' = [a \in Actors |-> Mark("notReading")]
    BY <1>2 DEF Crash, Given, Seen, NoJob
  <2>3. Register!Crash
    BY <1>2, <2>1, <2>2, SameTerms DEF Crash, Register!Crash, Held, Given, Seen
  <2> QED BY <2>3 DEF Register!Next
<1>3. ASSUME NEW a \in Actors, NEW session \in Sessions, BeginSave(a, session)
      PROVE  Register!Next
  <2>1. /\ a \notin Savers /\ \A b \in Actors \ {a} : job'[b] = job[b]
        /\ job'[a].pc = "open" /\ job'[a].sealed = Seal(session)
        /\ clashing' = (IF Savers = {} THEN clashing ELSE Savers \cup {a})
        /\ UNCHANGED <<mode, name, inode, ret, got>>
    BY <1>3, <1>a, SaveBegins
  <2>2. job[a] = NoJob /\ Seal(session) \in Sealed /\ mode # "down"
    BY <1>3, <1>a, BeginsSave
  <2>3. Seen' = Seen
    BY <2>1, <2>2, SeenKept DEF NoJob
  <2>4. Given' = [Given EXCEPT ![a] = Seal(session)] /\ Seal(session).store = mode
    BY <2>1, GivenSet DEF Seal
  <2>5. Register!BeginSave(a)
    <3>1. \E s \in Sealed : s.store = mode /\ Given' = [Given EXCEPT ![a] = s]
      BY <2>2, <2>4
    <3> QED BY <1>b, <2>1, <2>2, <2>3, <3>1, SameTerms DEF Register!BeginSave, Held, Given, Seen
  <2> QED BY <2>5 DEF Register!Next
<1>4. ASSUME NEW a \in Actors, SaveRefused(a) \/ LoadRefused(a) PROVE Register!Next
  <2>1. UNCHANGED <<Held, Given, Seen, mode, clashing>>
    BY <1>4, <1>b, <1>c DEF SaveRefused, LoadRefused, fileVars, history
  <2>2. Register!Refuse(a)
    BY <1>4, <2>1 DEF SaveRefused, LoadRefused, Idle, Register!Refuse, Held, Given, Seen
  <2> QED BY <2>2 DEF Register!Next
<1>5. ASSUME NEW a \in Actors, ClearSession(a) PROVE Register!Next
  <2>1. name'["main"] = 0
    BY <1>5, <1>a DEF ClearSession
  <2>2. Held' = Empty
    BY <2>1 DEF Held, ContentOf
  <2>3. UNCHANGED <<mode, Given, Seen, clashing, ret, got>> /\ mode # "down"
    BY <1>5, <1>c DEF ClearSession, Idle
  <2>4. Register!Clear
    BY <2>2, <2>3, SameTerms DEF Register!Clear, Held, Given, Seen
  <2> QED BY <2>4 DEF Register!Next
<1>6. ASSUME NEW a \in Actors, OpenTmp(a)
      PROVE  UNCHANGED <<mode, Held, Given, clashing, Seen, ret, got>>
  <2>1. /\ name'["main"] = name["main"] /\ name'["tmp"] \in Inodes
        /\ \A b \in Actors \ {a} : job'[b] = job[b]
        /\ job'[a].pc # "read" /\ job'[a].sealed = job[a].sealed
        /\ \A i \in {0} \cup Inodes : i # name'["tmp"] => i = 0 \/ inode'[i] = inode[i]
    BY <1>6, <1>a, OpenFills
  <2>2. /\ job[a].pc = "open" /\ name'["tmp"] # name["main"]
        /\ \A b \in Actors : job[b].pc = "read" => job[b].fd # name'["tmp"]
    BY <1>6, <1>a, Opens
  <2>3. Held' = Held
    BY <1>a, <2>1, <2>2, MainKept DEF Held
  <2>4. Seen' = Seen
    <3> SUFFICES ASSUME NEW b \in Actors \ {a}, job[b].pc = "read"
                 PROVE  inode'[job[b].fd] = inode[job[b].fd]
      BY <2>1, <2>2, SeenKept
    <3>1. job[b].fd \in Inodes /\ job[b].fd # 0
      BY <1>a, Marks DEF Staged
    <3> QED BY <2>1, <2>2, <3>1
  <2>5. Given' = Given
    BY <2>1, GivenKept
  <2> QED BY <1>6, <2>3, <2>4, <2>5 DEF OpenTmp, history
<1>7. ASSUME NEW a \in Actors, Write(a)
      PROVE  Register!Next \/ UNCHANGED <<mode, Held, Given, clashing, Seen, ret, got>>
  <2>1. /\ a \in Holders /\ UNCHANGED name
        /\ \A b \in Actors \ {a} : job'[b] = job[b]
        /\ job'[a].pc # "read" /\ job'[a].sealed = job[a].sealed
        /\ \A i \in Inodes \ {job[a].fd} : inode'[i] = inode[i]
    BY <1>7, <1>a, WriteFills
  <2>2. a \in Savers /\ job[a].pc # "read"
    BY <1>a, <2>1, SaversByStage DEF Holders
  <2>3. Given' = Given
    BY <2>1, GivenKept
  <2>4. UNCHANGED <<mode, clashing, ret, got>>
    BY <1>7 DEF Write, history
  <2>5. CASE a \in clashing
    <3>1. \A b \in Actors : job'[b].pc = "read" <=> job[b].pc = "read"
      BY <2>1, <2>2
    <3>2. Register!Clash
      BY <2>3, <2>4, <2>5, <3>1, Clashes
    <3> QED BY <3>2 DEF Register!Next
  <2>6. CASE a \notin clashing
    <3>1. name["tmp"] = job[a].fd
      BY <1>a, <2>1, <2>2, <2>6 DEF Filling
    <3>2. Held' = Held
      BY <1>a, <2>1, <3>1, MainKept DEF Held, Linked
    <3>3. Seen' = Seen
      <4> SUFFICES ASSUME NEW b \in Actors \ {a}, job[b].pc = "read"
                   PROVE  inode'[job[b].fd] = inode[job[b].fd]
        BY <2>1, <2>2, SeenKept
      <4>1. job[b].fd \in Inodes
        BY <1>a DEF Staged
      <4>2. job[b].fd # name["tmp"]
        BY <1>a DEF Linked
      <4> QED BY <2>1, <3>1, <4>1, <4>2
    <3> QED BY <2>3, <2>4, <3>2, <3>3
  <2> QED BY <2>5, <2>6
<1>8. ASSUME NEW a \in Actors, Rename(a) PROVE Register!Next
  <2>1. job[a].pc = "rename" /\ job[a].pc \in Saving /\ UNCHANGED <<mode, inode, got>>
    BY <1>8 DEF Rename, Saving
  <2>2. a \notin clashing => Filling(a) /\ name["tmp"] \in Inodes
    BY <1>a, <2>1, SaversByStage DEF Holders, Filling
  <2>3. CASE /\ name["tmp"] # 0 /\ Return(a, "ok")
             /\ name' = [name EXCEPT !["main"] = name["tmp"], !["tmp"] = 0]
    <3>1. a \notin clashing => Held' = job[a].sealed
      BY <1>a, <2>1, <2>2, <2>3, RenamedWhole DEF Held
    <3> QED BY <1>d, <2>1, <2>3, <3>1
  <2>4. CASE name["tmp"] = 0 /\ Return(a, "error")
    <3>1. a \in clashing
      BY <2>2, <2>4, Marks
    <3> QED BY <1>d, <2>1, <2>4, <3>1
  <2> QED BY <1>8, <2>3, <2>4 DEF Rename
<1>9. ASSUME NEW a \in Actors, SaveFails(a) PROVE Register!Next
  <2>1. /\ job[a].pc \in Saving /\ Return(a, "error")
        /\ UNCHANGED <<mode, name, inode, got>>
    BY <1>9 DEF SaveFails, Saving, fileVars
  <2> QED BY <1>b, <1>d, <2>1
<1>10. ASSUME NEW a \in Actors, BeginLoad(a) PROVE Register!Next
  <2>1. /\ Held' = Held /\ UNCHANGED <<mode, inode, clashing, ret>> /\ mode # "down"
        /\ job[a] = NoJob
    BY <1>10, <1>b DEF BeginLoad, Idle, fileVars, history
  <2>2. Held = Empty <=> name["main"] = 0
    BY ContentTyped DEF Held
  <2>3. CASE name["main"] = 0
    <3>1. got' = [got EXCEPT ![a] = "none"] /\ UNCHANGED job
      BY <1>10, <2>3 DEF BeginLoad
    <3>2. Given' = Given /\ Seen' = Seen
      BY <1>c, <2>1, <3>1
    <3>3. Register!LoadNothing(a)
      BY <2>1, <2>2, <2>3, <3>1, <3>2, SameTerms DEF Register!LoadNothing, Held, Given, Seen
    <3> QED BY <3>3 DEF Register!Next
  <2>4. CASE name["main"] # 0
    <3>1. PICK j \in Jobs : /\ j.pc = "read" /\ j.sealed = Empty /\ j.fd = name["main"]
                            /\ job' = [job EXCEPT ![a] = j]
      BY <1>10, <1>a, <2>4, BeginsLoad
    <3>2. job'[a] = j /\ \A b \in Actors \ {a} : job'[b] = job[b]
      BY <1>a, <3>1, SetJob
    <3>3. Given' = Given
      BY <2>1, <3>1, <3>2, GivenKept DEF NoJob
    <3>4. Seen[a] = Mark("notReading")
      BY <2>1 DEF Seen, NoJob
    <3>5. Seen' = [Seen EXCEPT ![a] = Held]
      <4>1. ContentOf(job[a].fd)' = Held
        BY <2>1, <3>1, <3>2 DEF ContentOf, Whole, Held
      <4>2. \A b \in Actors \ {a} : ContentOf(job[b].fd)' = ContentOf(job[b].fd)
        BY <2>1, <3>2 DEF ContentOf, Whole
      <4>3. Seen'[a] = Held /\ \A b \in Actors \ {a} : Seen'[b] = Seen[b]
        BY <3>1, <3>2, <4>1, <4>2 DEF Seen
      <4>4. PICK c : c = Held
        OBVIOUS
      <4> QED BY <4>3, <4>4, SeenSet
    <3>6. UNCHANGED got
      BY <1>10, <2>4 DEF BeginLoad
    <3>7. Register!BeginLoad(a)
      BY <2>1, <2>2, <2>4, <3>3, <3>4, <3>5, <3>6, SameTerms
      DEF Register!BeginLoad, Held, Given, Seen
    <3> QED BY <3>7 DEF Register!Next
  <2> QED BY <2>3, <2>4
<1>11. ASSUME NEW a \in Actors, EndLoad(a) PROVE Register!Next
  <2>1. /\ job[a].pc = "read" /\ job' = [job EXCEPT ![a] = NoJob] /\ Held' = Held
        /\ got' = [got EXCEPT ![a] = Parse(inode[job[a].fd])]
        /\ UNCHANGED <<mode, inode, clashing, ret>>
    BY <1>11, <1>b DEF EndLoad, fileVars, history
  <2>2. job'[a] = NoJob /\ \A b \in Actors \ {a} : job'[b] = job[b]
    BY <1>a, <2>1, SetJob, NoJobIsAJob
  <2>3. job[a].sealed = Empty /\ job[a].fd \in Inodes /\ job[a].fd # 0
    BY <1>a, <2>1, Marks DEF Staged, Saving
  <2>4. Given' = Given
    BY <2>2, <2>3, GivenKept DEF NoJob
  <2>5. Seen[a] = ContentOf(job[a].fd) /\ Seen[a] # Mark("notReading")
    BY <2>1, ContentTyped DEF Seen
  <2>6. Seen' = [Seen EXCEPT ![a] = Mark("notReading")]
    <3>1. \A b \in Actors \ {a} : ContentOf(job[b].fd)' = ContentOf(job[b].fd)
      BY <2>1, <2>2 DEF ContentOf, Whole
    <3>2. Seen'[a] = Mark("notReading") /\ \A b \in Actors \ {a} : Seen'[b] = Seen[b]
      BY <2>2, <3>1 DEF Seen, NoJob
    <3> QED BY <3>2, SeenSet
  <2>7. Register!Answer(Seen[a]) = Parse(inode[job[a].fd])
    <3>1. /\ Whole(inode[job[a].fd]) <=> ContentOf(job[a].fd) \in Sealed
          /\ ContentOf(job[a].fd) # Empty
      BY <2>3, ContentTyped
    <3>2. Whole(inode[job[a].fd]) => ContentOf(job[a].fd) = inode[job[a].fd][1]
      BY <2>3 DEF ContentOf
    <3> QED BY <2>5, <3>1, <3>2, SameTerms DEF Register!Answer, Parse
  <2>8. Register!EndLoad(a)
    BY <2>1, <2>4, <2>5, <2>6, <2>7, SameTerms DEF Register!EndLoad, Held, Given, Seen
  <2> QED BY <2>8 DEF Register!Next
<1>12. CASE UNCHANGED vars
  BY <1>12, <1>b, <1>c DEF vars, fileVars, history
<1> QED BY <1>1, <1>2, <1>3, <1>4, <1>5, <1>6, <1>7, <1>8, <1>9, <1>10, <1>11, <1>12 DEF Next

\* The session file is the register a session store promises: a save that
\* runs alone replaces the session in one step, at its rename, or leaves it; a
\* process that dies at any point leaves the old session or the new one; a load
\* that meets such a save answers with either, whole.
THEOREM FileIsRegister == Spec => ActsAsRegister
<1>1. Init => Register!Init
  <2> SUFFICES ASSUME Init PROVE Register!Init
    OBVIOUS
  <2>1. \A a \in Actors : job[a] = NoJob
    BY DEF Init
  <2>2. Held = Empty
    BY DEF Init, Held, ContentOf
  <2>3. Given = [a \in Actors |-> Empty] /\ Seen = [a \in Actors |-> Mark("notReading")]
    BY <2>1 DEF Given, Seen, NoJob
  <2> QED BY <2>2, <2>3, SameTerms DEF Init, Register!Init, Held, Given, Seen
<1>2. FileOK /\ [Next]_vars => [Register!Next]_(Register!registerVars)
  BY NextRefines DEF Register!registerVars, Held, Given, Seen
<1> QED BY <1>1, <1>2, AlwaysOK, PTL DEF Spec, ActsAsRegister, Register!Spec
==============================================================================
