----------------------------- MODULE BotApiLoop -----------------------------
(***************************************************************************)
(* The Bot API runtime: Bot.Run and Login over botapi.Client.              *)
(*                                                                         *)
(* Run fetches updates in batches with getUpdates(offset) and hands them   *)
(* to the dispatcher.  Nothing is saved: what has been handled is known to *)
(* the server alone, and only from the offset of the next getUpdates; a    *)
(* run that starts again starts with offset 0.  The server is external: it *)
(* keeps updates until a request with a larger offset confirms them.  Any  *)
(* request may be lost, refused, or answered in vain (postForm's errors).  *)
(***************************************************************************)
EXTENDS Integers, Sequences

CONSTANTS MaxID,      \* bound: updates that arrive; their ids are 1..MaxID
          Silent,     \* the ids of updates that carry no message
          Limit,      \* updates in one answer (the server's default is 100)
          Configs,    \* [updates, drop]: Updates and DropPendingUpdates
          MaxFaults,  \* bound: requests that fail
          MaxStops    \* bound: crashes and cancelled contexts

ASSUME BotApiAssumption ==
  /\ MaxID \in Nat /\ Silent \subseteq 1..MaxID /\ Limit \in Nat \ {0}
  /\ Configs \subseteq [updates : BOOLEAN, drop : BOOLEAN]
  /\ MaxFaults \in Nat /\ MaxStops \in Nat

VARIABLES
  pc,          \* where Run is; "down" when no process runs
  config,      \* b.config
  me,          \* b.me is known
  offset,      \* the local variable of Run
  batch,       \* the updates of the last answer still to be gone through
  ctxDone,
  arrived,     \* the server has had the updates 1..arrived
  confirmed,   \* and has forgotten those up to this one
  faults, stops,
  handled,     \* history: updates given to the dispatcher
  thisRun,     \* history: those of this call of Run
  twice,       \* history: one was given twice in one call of Run
  old,         \* history: the updates this call of Run was told to drop
  dropped      \* history: updates not handled because they were dropped

server == <<arrived, confirmed>>
history == <<handled, thisRun, twice, old, dropped>>
vars == <<pc, config, me, offset, batch, ctxDone, server, faults, stops, history>>

Init ==
  /\ pc = "down" /\ config \in Configs /\ me = FALSE
  /\ offset = 0 /\ batch = <<>> /\ ctxDone = FALSE
  /\ arrived \in 0..MaxID /\ confirmed = 0
  /\ faults = 0 /\ stops = 0
  /\ handled = {} /\ thisRun = {} /\ twice = FALSE /\ old = {} /\ dropped = {}
-----------------------------------------------------------------------------
(***************************************************************************)
(* getUpdates at the server (external).                                    *)
(***************************************************************************)
Upto(n) == IF n > confirmed THEN n ELSE confirmed
Least(a, b) == IF a < b THEN a ELSE b

\* A positive offset confirms what is below it, 0 nothing; -1 asks for the
\* last update alone and confirms the ones before it.
ConfirmedBy(from) ==
  IF from > 0 THEN Upto(Least(from - 1, arrived))
  ELSE IF from < 0 THEN Upto(arrived - 1) ELSE confirmed

\* The updates of the answer, oldest first.
AnswerTo(from) ==
  LET n == Least(Limit, arrived - ConfirmedBy(from))
  IN  [i \in 1..n |-> ConfirmedBy(from) + i]

Fault == faults < MaxFaults /\ faults' = faults + 1

\* The request does not arrive, or its answer is lost, late, no JSON, no 2xx
\* or ok = false; a cancelled context ends it too.
Unanswered(from) ==
  /\ \/ Fault
     \/ ctxDone /\ UNCHANGED faults
  /\ confirmed' \in {confirmed, ConfirmedBy(from)}
-----------------------------------------------------------------------------
(***************************************************************************)
(* Run.                                                                    *)
(***************************************************************************)
\* Run is called: by a new process, or again on the same Bot.
Start ==
  /\ pc \in {"down", "stopped"}
  /\ \/ config' \in Configs /\ me' = FALSE
     \/ pc = "stopped" /\ UNCHANGED <<config, me>>
  /\ pc' = "login" /\ offset' = 0 /\ batch' = <<>> /\ ctxDone' = FALSE
  /\ thisRun' = {} /\ old' = {}
  /\ UNCHANGED <<server, faults, stops, handled, twice, dropped>>

AfterLogin ==
  IF ~config.updates THEN "waiting" ELSE IF config.drop THEN "drop" ELSE "poll"

\* Login, unless the identity is known from an earlier call.
Login ==
  /\ pc = "login"
  /\ \/ /\ me \/ ~ctxDone
        /\ me' = TRUE /\ pc' = AfterLogin /\ UNCHANGED faults
     \/ /\ ~me /\ pc' = "stopped" /\ UNCHANGED me
        /\ Fault \/ (ctxDone /\ UNCHANGED faults)
  /\ UNCHANGED <<config, offset, batch, ctxDone, server, stops, history>>

\* Mutant of offsetAfterDrop: the update the answer names is fetched again.
offsetAfterDropKeepsLast(answer) == IF answer = <<>> THEN 0 ELSE answer[Len(answer)]

offsetAfterDrop(answer) == IF answer = <<>> THEN 0 ELSE answer[Len(answer)] + 1

\* DropPendingUpdates: getUpdates(-1), whose answer only sets the offset.
Drop ==
  /\ pc = "drop" /\ ~ctxDone
  /\ offset' = offsetAfterDrop(AnswerTo(-1))
  /\ confirmed' = ConfirmedBy(-1)
  /\ old' = 1..arrived
  /\ dropped' = dropped \cup ((1..arrived) \ handled)
  /\ pc' = "poll"
  /\ UNCHANGED <<config, me, batch, ctxDone, arrived, faults, stops, handled, thisRun, twice>>

\* An error of that call is ignored.
DropFails ==
  /\ pc = "drop" /\ Unanswered(-1)
  /\ dropped' = dropped \cup ((1..confirmed') \ handled)
  /\ pc' = "poll"
  /\ UNCHANGED <<config, me, offset, batch, ctxDone, arrived, stops, handled, thisRun, twice, old>>

\* An answer with updates; an empty one, when the long poll ends, leaves
\* Run where it is.
Poll ==
  /\ pc = "poll" /\ ~ctxDone
  /\ batch' = AnswerTo(offset)
  /\ confirmed' = ConfirmedBy(offset)
  /\ pc' = IF batch' = <<>> THEN "poll" ELSE "dispatch"
  /\ UNCHANGED <<config, me, offset, ctxDone, arrived, faults, stops, history>>

\* The error is logged, and after a pause the loop goes on.
PollFails ==
  /\ pc = "poll" /\ ~ctxDone /\ Unanswered(offset)
  /\ UNCHANGED <<pc, config, me, offset, batch, ctxDone, arrived, stops, history>>

\* Mutant of offsetAfter: one too far.
offsetAfterTooFar(id) == IF id >= offset THEN id + 2 ELSE offset

\* Mutant of offsetAfter: the update just seen is asked for again.
offsetAfterSame(id) == IF id >= offset THEN id ELSE offset

\* Mutant of offsetAfter: only updates with a message count.
offsetAfterMessage(id) == IF id >= offset /\ id \notin Silent THEN id + 1 ELSE offset

offsetAfter(id) == IF id >= offset THEN id + 1 ELSE offset

\* One turn of the loop over the batch.  A handler's error is only logged,
\* and a cancelled context does not end the batch.
Dispatch ==
  /\ pc = "dispatch"
  /\ LET id == Head(batch)
     IN  /\ offset' = offsetAfter(id)
         /\ IF id \in Silent THEN UNCHANGED <<handled, thisRun, twice>>
            ELSE /\ handled' = handled \cup {id}
                 /\ thisRun' = thisRun \cup {id}
                 /\ twice' = (twice \/ id \in thisRun)
  /\ batch' = Tail(batch)
  /\ pc' = IF batch' = <<>> THEN "poll" ELSE "dispatch"
  /\ UNCHANGED <<config, me, ctxDone, server, faults, stops, old, dropped>>

\* The cancelled context is seen: by the select before a request or by the
\* request itself, which may have reached the server; or by a Run that only
\* waits for it.
LoopStops ==
  /\ ctxDone
  /\ \/ pc = "poll" /\ confirmed' \in {confirmed, ConfirmedBy(offset)}
     \/ pc = "waiting" /\ UNCHANGED confirmed
  /\ pc' = "stopped"
  /\ UNCHANGED <<config, me, offset, batch, ctxDone, arrived, faults, stops, history>>
-----------------------------------------------------------------------------
Running == pc \notin {"down", "stopped"}
Stop == stops < MaxStops /\ stops' = stops + 1

Cancel ==
  /\ Running /\ ~ctxDone /\ Stop
  /\ ctxDone' = TRUE
  /\ UNCHANGED <<pc, config, me, offset, batch, server, faults, history>>

Crash ==
  /\ Running /\ Stop
  /\ pc' = "down"
  /\ UNCHANGED <<config, me, offset, batch, ctxDone, server, faults, history>>

Arrive ==
  /\ arrived < MaxID
  /\ arrived' = arrived + 1
  /\ UNCHANGED <<pc, config, me, offset, batch, ctxDone, confirmed, faults, stops, history>>

Run ==
  \/ Login \/ Drop \/ DropFails
  \/ Poll \/ PollFails \/ Dispatch
  \/ LoopStops

Next == Start \/ Run \/ Cancel \/ Crash \/ Arrive

\* The goroutine of Run is scheduled and its requests end (the HTTP client
\* has a timeout); a program that has stopped is started again.
Fairness == WF_vars(Run) /\ WF_vars(Start)

Spec == Init /\ [][Next]_vars /\ Fairness
-----------------------------------------------------------------------------
(***************************************************************************)
(* Types.                                                                  *)
(***************************************************************************)
TypeOK ==
  /\ pc \in {"down", "login", "waiting", "drop", "poll", "dispatch", "stopped"}
  /\ config \in Configs /\ me \in BOOLEAN /\ ctxDone \in BOOLEAN /\ twice \in BOOLEAN
  /\ arrived \in 0..MaxID /\ confirmed \in 0..arrived /\ offset \in 0..(arrived + 1)
  /\ pc = "dispatch" => batch # <<>>
  /\ faults \in 0..MaxFaults /\ stops \in 0..MaxStops
  /\ {handled, thisRun, old, dropped} \subseteq SUBSET (1..arrived)

(***************************************************************************)
(* At least once: the server is told to forget only updates the dispatcher *)
(* has been given, that carried no message, or that DropPendingUpdates was *)
(* to drop - whenever the process dies, and whichever answers are lost.    *)
(***************************************************************************)
NothingForgottenUnhandled ==
  1..confirmed \subseteq handled \cup dropped \cup Silent

(***************************************************************************)
(* At most once per call of Run, although answers are lost and requests    *)
(* repeated.                                                               *)
(***************************************************************************)
UpdateHandledOncePerRun == ~twice

(***************************************************************************)
(* bot.go: DropPendingUpdates drops old Bot API updates before starting    *)
(* the loop.  Once its request is answered, none of the updates that were  *)
(* waiting, the one in the answer included, is handled in this run.        *)
(***************************************************************************)
PendingDropped == old \cap thisRun = {}

(***************************************************************************)
(* Every update that arrives is handled in the end, through failing        *)
(* requests, crashes, restarts and answers without a single message,       *)
(* unless it is dropped or the program runs with updates disabled.         *)
(***************************************************************************)
EveryUpdateHandled ==
  \A id \in (1..MaxID) \ Silent :
    arrived >= id ~> id \in handled \cup dropped \/ pc = "waiting"
=============================================================================
