----------------------------- MODULE SessionFile -----------------------------
(***************************************************************************)
(* The file-backed session stores: fileSessionStore and, around it,        *)
(* encryptedSessionStore, as SaveSession, Login and ClearSession use them. *)
(*                                                                         *)
(* Save writes <path>.tmp and renames it over <path>; the two names, the   *)
(* files (inodes) behind them and every system call in between are         *)
(* modelled, because SaveSession is public and takes no lock: several      *)
(* goroutines, or two processes with one path, may be inside Save at once  *)
(* and share the temporary file.  A file is a sequence of cells; a cell    *)
(* says which sealed session it belongs to, and sessions differ in length, *)
(* so that one written over another leaves the tail of the longer.  The    *)
(* file system is external; it keeps what was written when the process     *)
(* dies (no loss of power).                                                *)
(***************************************************************************)
EXTENDS Integers, Sequences, FiniteSets

CONSTANTS Actors,      \* goroutines that save, load and clear the session
          Stores,      \* stores a process may be configured with: "plain", or
                       \* a password ("" is the empty one)
          Sessions,    \* serialised sessions
          Size,        \* their lengths, in cells
          MaxSaves,    \* bound: saves begun
          MaxLoads,    \* bound: loads begun
          MaxFaults    \* bound: failing system calls

ASSUME SessionFileAssumption ==
  /\ IsFiniteSet(Actors)
  /\ {"down", "none"} \cap Stores = {}
  /\ Size \in [Sessions -> Nat \ {0}]
  /\ MaxSaves \in Nat /\ MaxLoads \in Nat /\ MaxFaults \in Nat

VARIABLES
  mode,      \* the store of the running process, or "down"
  name,      \* the inode under each name, 0 for none
  inode,     \* the cells of each inode
  job,       \* what each goroutine is doing in the store
  ret,       \* the result of its last Save
  got,       \* the result of its last Load
  saves, loads, faults,
  clashing,  \* history: goroutines whose save has overlapped another
  warned,    \* history: since the last save that ran alone and returned nil,
             \* one returned an error or died with its process
  stored     \* history: what the save that returned nil last was given

fileVars == <<name, inode>>
counters == <<saves, loads, faults>>
history == <<clashing, warned, stored>>
vars == <<mode, fileVars, job, ret, got, counters, history>>

\* Marks that are no session have the shape of one.
Mark(m) == [store |-> "none", session |-> m]
Empty == Mark("empty")
Torn == Mark("torn")

\* main, tmp, and as many again as goroutines can hold open.
Inodes == 1..(2 + Cardinality(Actors))

NoJob == [pc |-> "idle", sealed |-> Empty, fd |-> 0, pos |-> 0]

Init ==
  /\ mode = "down"
  /\ name = [n \in {"main", "tmp"} |-> 0]
  /\ inode = [i \in Inodes |-> <<>>]
  /\ job = [a \in Actors |-> NoJob]
  /\ ret = [a \in Actors |-> "none"] /\ got = [a \in Actors |-> "none"]
  /\ saves = 0 /\ loads = 0 /\ faults = 0
  /\ clashing = {} /\ warned = FALSE /\ stored = Empty
------------------------------------------------------------------------------
(***************************************************************************)
(* Contents.                                                               *)
(***************************************************************************)
Sealed == [store : Stores \ {""}, session : Sessions]

\* encryptSessionBytes; the plain store writes the session as it is.
Seal(session) == [store |-> mode, session |-> session]

Cells(s) == [i \in 1..Size[s.session] |-> s]

\* What a sequence of cells is: a whole session, or something no parser takes
\* (an empty or a cut file, or one with the tail of another behind it).
Whole(c) == \E s \in Sealed : c = Cells(s)
ContentOf(i) ==
  IF i = 0 THEN Empty ELSE IF Whole(inode[i]) THEN inode[i][1] ELSE Torn

\* decryptSessionBytes, parseRuntimeSession and Session.Valid.
Parse(c) ==
  IF Whole(c) /\ c[1].store = mode THEN c[1].session ELSE "invalid"

\* An inode that no name and no open file refers to.
Fresh ==
  CHOOSE i \in Inodes :
    i \notin {name["main"], name["tmp"]} \cup {job[a].fd : a \in Actors}
------------------------------------------------------------------------------
(***************************************************************************)
(* Save.                                                                   *)
(***************************************************************************)
Savers == {a \in Actors : job[a].sealed # Empty}
Idle(a) == mode # "down" /\ job[a] = NoJob
Fault == faults < MaxFaults /\ faults' = faults + 1

\* SaveSession has a client, and the store seals what it is given.
BeginSave(a, session) ==
  /\ Idle(a) /\ mode # "" /\ saves < MaxSaves
  /\ saves' = saves + 1
  /\ job' = [job EXCEPT ![a] = [NoJob EXCEPT !.pc = "open", !.sealed = Seal(session)]]
  /\ clashing' = IF Savers = {} THEN clashing ELSE Savers \cup {a}
  /\ UNCHANGED <<mode, fileVars, ret, got, loads, faults, warned, stored>>

\* The context is done, the password empty, or MkdirAll fails.
SaveRefused(a) ==
  /\ Idle(a) /\ saves < MaxSaves
  /\ saves' = saves + 1
  /\ ret' = [ret EXCEPT ![a] = "error"]
  /\ UNCHANGED <<mode, fileVars, job, got, loads, faults, history>>

Return(a, r) ==
  /\ job' = [job EXCEPT ![a] = NoJob]
  /\ ret' = [ret EXCEPT ![a] = r]
  /\ clashing' = clashing \ {a}
  /\ warned' = (r = "error" \/ (warned /\ a \in clashing))
  /\ stored' = IF r = "ok" THEN job[a].sealed ELSE stored

\* Mutant of OpenTmp: the session is written in place.
OpenInPlace(a) ==
  /\ job[a].pc = "open"
  /\ LET i == IF name["main"] # 0 THEN name["main"] ELSE Fresh
     IN  /\ name' = [name EXCEPT !["main"] = i, !["tmp"] = i]
         /\ inode' = [inode EXCEPT ![i] = <<>>]
         /\ job' = [job EXCEPT ![a].pc = "write", ![a].fd = i]
  /\ UNCHANGED <<mode, ret, got, counters, history>>

\* os.WriteFile opens the temporary file: created, or cut to nothing.
OpenTmp(a) ==
  /\ job[a].pc = "open"
  /\ LET i == IF name["tmp"] # 0 THEN name["tmp"] ELSE Fresh
     IN  /\ name' = [name EXCEPT !["tmp"] = i]
         /\ inode' = [inode EXCEPT ![i] = <<>>]
         /\ job' = [job EXCEPT ![a].pc = "write", ![a].fd = i]
  /\ UNCHANGED <<mode, ret, got, counters, history>>

\* A cell lands at position p of a file, which may have been cut to less.
Put(c, p, cell) ==
  [i \in 1..(IF p > Len(c) THEN p ELSE Len(c)) |->
     IF i = p THEN cell ELSE IF i <= Len(c) THEN c[i] ELSE Torn]

\* One write(2) of os.WriteFile, which goes on after a short one.
Write(a) ==
  /\ job[a].pc = "write"
  /\ LET p == job[a].pos + 1
     IN  /\ inode' = [inode EXCEPT ![job[a].fd] = Put(@, p, job[a].sealed)]
         /\ job' = [job EXCEPT ![a].pos = p,
                               ![a].pc = IF p = Size[job[a].sealed.session]
                                         THEN "rename" ELSE "write"]
  /\ UNCHANGED <<mode, name, ret, got, counters, history>>

\* Mutant of Rename: that the temporary file is gone is taken for success.
RenameIgnoresMissing(a) ==
  /\ job[a].pc = "rename"
  /\ IF name["tmp"] # 0
     THEN name' = [name EXCEPT !["main"] = name["tmp"], !["tmp"] = 0]
     ELSE UNCHANGED name
  /\ Return(a, "ok")
  /\ UNCHANGED <<mode, inode, got, counters>>

\* os.Rename.  Another goroutine may have renamed the temporary file away.
Rename(a) ==
  /\ job[a].pc = "rename"
  /\ \/ /\ name["tmp"] # 0
        /\ name' = [name EXCEPT !["main"] = name["tmp"], !["tmp"] = 0]
        /\ Return(a, "ok")
     \/ /\ name["tmp"] = 0 /\ Return(a, "error") /\ UNCHANGED name
  /\ UNCHANGED <<mode, inode, got, counters>>

\* Opening, writing or renaming fails: Save returns the error and leaves the
\* temporary file as it is.
SaveFails(a) ==
  /\ job[a].pc \in {"open", "write", "rename"} /\ Fault
  /\ Return(a, "error")
  /\ UNCHANGED <<mode, fileVars, got, saves, loads>>
------------------------------------------------------------------------------
(***************************************************************************)
(* Load and Delete.                                                        *)
(***************************************************************************)
\* os.ReadFile opens the file, if there is one.
BeginLoad(a) ==
  /\ Idle(a) /\ loads < MaxLoads
  /\ loads' = loads + 1
  /\ IF name["main"] = 0
     THEN got' = [got EXCEPT ![a] = "none"] /\ UNCHANGED job
     ELSE /\ job' = [job EXCEPT ![a] = [NoJob EXCEPT !.pc = "read", !.fd = name["main"]]]
          /\ UNCHANGED got
  /\ UNCHANGED <<mode, fileVars, ret, saves, faults, history>>

\* The bytes are read, decrypted and parsed.
EndLoad(a) ==
  /\ job[a].pc = "read"
  /\ job' = [job EXCEPT ![a] = NoJob]
  /\ got' = [got EXCEPT ![a] = Parse(inode[job[a].fd])]
  /\ UNCHANGED <<mode, fileVars, ret, counters, history>>

\* The context is done, or the file cannot be opened.
LoadRefused(a) ==
  /\ Idle(a) /\ loads < MaxLoads
  /\ loads' = loads + 1
  /\ got' = [got EXCEPT ![a] = "refused"]
  /\ UNCHANGED <<mode, fileVars, job, ret, saves, faults, history>>

\* ClearSession: os.Remove of the file; the temporary one is not touched.
ClearSession(a) ==
  /\ Idle(a) /\ name["main"] # 0
  /\ name' = [name EXCEPT !["main"] = 0]
  /\ stored' = Empty
  /\ UNCHANGED <<mode, inode, job, ret, got, counters, clashing, warned>>
------------------------------------------------------------------------------
Start ==
  /\ mode = "down" /\ mode' \in Stores
  /\ UNCHANGED <<fileVars, job, ret, got, counters, history>>

\* The process dies, and may be started with another store.
Crash ==
  /\ mode # "down" /\ mode' = "down"
  /\ job' = [a \in Actors |-> NoJob]
  /\ ret' = [a \in Actors |-> "none"] /\ got' = [a \in Actors |-> "none"]
  /\ clashing' = {}
  /\ warned' = (warned \/ Savers # {})
  /\ UNCHANGED <<fileVars, counters, stored>>

Next ==
  \/ Start \/ Crash
  \/ \E a \in Actors :
       \/ \E session \in Sessions : BeginSave(a, session)
       \/ SaveRefused(a) \/ OpenTmp(a) \/ Write(a) \/ Rename(a) \/ SaveFails(a)
       \/ BeginLoad(a) \/ EndLoad(a) \/ LoadRefused(a)
       \/ ClearSession(a)

Spec == Init /\ [][Next]_vars
------------------------------------------------------------------------------
(***************************************************************************)
(* Types.  The two names never lead to one inode.                          *)
(***************************************************************************)
TypeOK ==
  /\ mode \in Stores \cup {"down"}
  /\ name \in [{"main", "tmp"} -> {0} \cup Inodes]
  /\ name["main"] = name["tmp"] => name["main"] = 0
  /\ \A a \in Actors :
       /\ job[a].pc \in {"idle", "open", "write", "rename", "read"}
       /\ job[a].sealed \in Sealed \cup {Empty} /\ job[a].fd \in {0} \cup Inodes
  /\ clashing \subseteq Savers /\ warned \in BOOLEAN /\ stored \in Sealed \cup {Empty}

(***************************************************************************)
(* The file is the register a session store promises: a save that runs     *)
(* alone replaces the session in one step, at its rename, or leaves it;    *)
(* a process that dies at any point leaves the old session or the new one, *)
(* readable; a load that meets such a save answers with either, whole.     *)
(***************************************************************************)
Register ==
  INSTANCE SessionRegister WITH
    content  <- ContentOf(name["main"]),
    saving   <- [a \in Actors |-> job[a].sealed],
    seen     <- [a \in Actors |-> IF job[a].pc = "read" THEN ContentOf(job[a].fd)
                                                        ELSE Mark("notReading")]

ActsAsRegister == Register!Spec

(***************************************************************************)
(* Saves that overlap may spoil the session, but never silently: when none *)
(* is under way and every save since the last one that ran alone returned  *)
(* nil, however they overlapped, the file holds exactly the session whose  *)
(* save returned last.                                                     *)
(***************************************************************************)
DamageIsReported ==
  Savers = {} /\ ~warned => ContentOf(name["main"]) = stored
==============================================================================
