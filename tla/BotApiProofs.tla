---------------------------- MODULE BotApiProofs -----------------------------
(***************************************************************************)
(* Proofs about the Bot API runtime, for every number of updates, every    *)
(* size of an answer and every number of faults and restarts: an update is *)
(* forgotten by the server only once it is dealt with, is handled at most  *)
(* once in a call of Run, and is not handled once it is dropped.           *)
(*                                                                         *)
(* The offset is the link: what lies below it is dealt with (OffsetEarned),*)
(* what this call handled lies below it, and an answer is a run of         *)
(* consecutive ids that begins at or above it (BatchAhead).                *)
(***************************************************************************)
EXTENDS BotApiLoop, SequenceTheorems, TLAPS

\* The parts of TypeOK: what is a flag or a name, what is counted, and what
\* holds ids.
Flags ==
  /\ pc \in {"down", "login", "waiting", "drop", "poll", "dispatch", "stopped"}
  /\ config \in Configs
  /\ me \in BOOLEAN /\ ctxDone \in BOOLEAN /\ twice \in BOOLEAN
  /\ pc = "dispatch" => batch # <<>>

Counts ==
  /\ arrived \in 0..MaxID /\ confirmed \in 0..arrived /\ offset \in 0..(arrived + 1)
  /\ faults \in 0..MaxFaults /\ stops \in 0..MaxStops

IdSets ==
  /\ handled \subseteq 1..arrived /\ thisRun \subseteq 1..arrived
  /\ old \subseteq 1..arrived /\ dropped \subseteq 1..arrived

DealtWith == handled \cup dropped \cup Silent

\* Run has not asked for updates yet in this call.
Fresh ==
  pc \in {"login", "waiting", "drop"} => offset = 0 /\ thisRun = {} /\ old = {}

\* A request with this offset confirms nothing that is not dealt with.
OffsetEarned ==
  /\ \A id \in 1..arrived : id < offset => id \in DealtWith
  /\ \A id \in thisRun : id < offset

\* What is left of an answer: consecutive ids from the offset on, with
\* everything before them dealt with and everything to be dropped before them.
BatchAhead ==
  pc = "dispatch" =>
    /\ Len(batch) > 0
    /\ batch[1] >= 1 /\ batch[1] >= offset
    /\ \A k \in 1..Len(batch) : batch[k] = batch[1] + (k - 1) /\ batch[k] <= arrived
    /\ \A id \in 1..arrived : id < batch[1] => id \in DealtWith
    /\ \A id \in old : id < batch[1]

\* While Run polls, what was to be dropped is confirmed or below the offset.
OldBehind == pc = "poll" => \A id \in old : id <= confirmed \/ id < offset

RunOK ==
  /\ Flags
  /\ Counts
  /\ IdSets
  /\ batch \in Seq(Nat)
  /\ Fresh
  /\ OffsetEarned
  /\ BatchAhead
  /\ OldBehind
  /\ NothingForgottenUnhandled
  /\ UpdateHandledOncePerRun
  /\ PendingDropped

LEMMA TypeParts == TypeOK <=> Flags /\ Counts /\ IdSets
BY DEF TypeOK, Flags, Counts, IdSets

\* What a request confirms never goes back, never passes what has arrived,
\* and with an offset that is earned is dealt with.
LEMMA ConfirmedByBounds ==
  ASSUME arrived \in Nat, confirmed \in Nat, confirmed <= arrived, NEW from \in Int
  PROVE  /\ ConfirmedBy(from) \in Nat
         /\ confirmed <= ConfirmedBy(from) /\ ConfirmedBy(from) <= arrived
         /\ from > 0 => ConfirmedBy(from) <= Upto(from - 1)
         /\ from <= arrived + 1 => from - 1 <= ConfirmedBy(from) \/ from <= 0
BY DEF ConfirmedBy, Upto, Least

\* An answer is a run of consecutive ids after what is confirmed.
LEMMA AnswerIsRun ==
  ASSUME arrived \in Nat, confirmed \in Nat, confirmed <= arrived, NEW from \in Int
  PROVE  /\ AnswerTo(from) \in Seq(Nat)
         /\ Len(AnswerTo(from)) <= arrived - ConfirmedBy(from)
         /\ AnswerTo(from) = <<>> => ConfirmedBy(from) = arrived
         /\ \A k \in 1..Len(AnswerTo(from)) : AnswerTo(from)[k] = ConfirmedBy(from) + k
         /\ AnswerTo(from) # <<>> => Len(AnswerTo(from)) > 0
<1> DEFINE c == ConfirmedBy(from)
           n == Least(Limit, arrived - c)
           answer == [k \in 1..n |-> c + k]
<1>1. c \in Nat /\ c <= arrived
  BY ConfirmedByBounds
<1>l. Limit \in Nat /\ Limit > 0
  BY BotApiAssumption
<1>2. n \in Nat /\ n <= arrived - c /\ (n = 0 => c = arrived)
  BY <1>1, <1>l DEF Least
<1>3. AnswerTo(from) = answer
  BY DEF AnswerTo
<1> HIDE DEF c, n
<1>4. answer \in Seq(Nat) /\ Len(answer) = n
  BY <1>1, <1>2
<1>5. \A k \in 1..Len(answer) : answer[k] = c + k
  BY <1>4
<1>6. (answer # <<>> => Len(answer) > 0) /\ (answer = <<>> => Len(answer) = 0)
  <2> HIDE DEF answer
  <2> QED BY <1>4, EmptySeq
<1> HIDE DEF answer
<1> QED BY <1>2, <1>3, <1>4, <1>5, <1>6 DEF c

\* Init satisfies the invariant.
LEMMA InitOK == Init => RunOK
<1> SUFFICES ASSUME Init PROVE RunOK
  OBVIOUS
<1>1. Flags
  BY DEF Init, Flags
<1>2. Counts /\ IdSets
  BY BotApiAssumption DEF Init, Counts, IdSets
<1>3. batch \in Seq(Nat)
  BY EmptySeq DEF Init
<1>4. OffsetEarned /\ NothingForgottenUnhandled /\ PendingDropped
  BY BotApiAssumption DEF Init, OffsetEarned, NothingForgottenUnhandled, PendingDropped
<1>5. Fresh /\ BatchAhead /\ OldBehind /\ UpdateHandledOncePerRun
  BY DEF Init, Fresh, BatchAhead, OldBehind, UpdateHandledOncePerRun
<1> QED BY <1>1, <1>2, <1>3, <1>4, <1>5 DEF RunOK

\* A request, answered or not, confirms only what is dealt with.
LEMMA ConfirmsDealtWith ==
  ASSUME RunOK
  PROVE  1..ConfirmedBy(offset) \subseteq DealtWith
<1>1. arrived \in Nat /\ confirmed \in Nat /\ confirmed <= arrived /\ offset \in Nat /\ offset <= arrived + 1
  BY BotApiAssumption DEF RunOK, Counts
<1>2. /\ ConfirmedBy(offset) \in Nat
      /\ confirmed <= ConfirmedBy(offset) /\ ConfirmedBy(offset) <= arrived
  BY <1>1, ConfirmedByBounds
<1> SUFFICES ASSUME NEW id \in 1..ConfirmedBy(offset) PROVE id \in DealtWith
  OBVIOUS
<1>3. CASE id <= confirmed
  BY <1>1, <1>2, <1>3 DEF RunOK, NothingForgottenUnhandled, DealtWith
<1>4. CASE id > confirmed
  <2>1. id < offset
    BY <1>1, <1>2, <1>4 DEF ConfirmedBy, Upto, Least
  <2> QED BY <1>1, <1>2, <2>1 DEF RunOK, OffsetEarned
<1> QED BY <1>1, <1>2, <1>3, <1>4

\* A request that confirms something and changes nothing else Run knows.
LEMMA RequestKeeps ==
  ASSUME RunOK, Flags', faults' \in 0..MaxFaults, pc' # "dispatch",
         pc' \in {"login", "waiting", "drop"} => pc' = pc,
         pc' = "poll" => pc = "poll",
         confirmed' \in {confirmed, ConfirmedBy(offset)},
         UNCHANGED <<offset, batch, arrived, stops, handled, thisRun, twice, old, dropped>>
  PROVE  RunOK'
<1>1. arrived \in Nat /\ confirmed \in Nat /\ confirmed <= arrived /\ offset \in Nat /\ offset <= arrived + 1
  BY BotApiAssumption DEF RunOK, Counts
<1>2. confirmed' \in Nat /\ confirmed <= confirmed' /\ confirmed' <= arrived
  BY <1>1, ConfirmedByBounds
<1>3. Counts' /\ IdSets'
  BY <1>1, <1>2 DEF RunOK, Counts, IdSets
<1>4. NothingForgottenUnhandled'
  BY ConfirmsDealtWith DEF RunOK, NothingForgottenUnhandled, DealtWith
<1>5. OldBehind'
  BY <1>1, <1>2 DEF OldBehind, RunOK, IdSets
<1>6. Fresh' /\ BatchAhead'
  BY DEF RunOK, Fresh, BatchAhead
<1>7. OffsetEarned' /\ PendingDropped' /\ UpdateHandledOncePerRun' /\ batch' \in Seq(Nat)
  BY DEF RunOK, OffsetEarned, DealtWith, PendingDropped, UpdateHandledOncePerRun
<1> QED BY <1>3, <1>4, <1>5, <1>6, <1>7 DEF RunOK

\* Every step preserves the invariant.
LEMMA StepOK == RunOK /\ [Next]_vars => RunOK'
<1> SUFFICES ASSUME RunOK, [Next]_vars PROVE RunOK'
  OBVIOUS
<1>t. /\ arrived \in Nat /\ confirmed \in Nat /\ confirmed <= arrived /\ offset \in Nat /\ offset <= arrived + 1
      /\ batch \in Seq(Nat)
  BY BotApiAssumption DEF RunOK, Counts
<1>l. Limit \in Nat /\ Limit > 0
  BY BotApiAssumption
<1> USE DEF server, history
<1>1. CASE Start
  <2>1. Flags'
    BY <1>1 DEF Start, RunOK, Flags
  <2>2. Counts' /\ IdSets'
    BY <1>1, <1>t DEF Start, RunOK, Counts, IdSets
  <2>3. batch' \in Seq(Nat)
    BY <1>1, EmptySeq DEF Start
  <2>4. OffsetEarned' /\ PendingDropped' /\ NothingForgottenUnhandled'
    BY <1>1, <1>t DEF Start, RunOK, OffsetEarned, PendingDropped, NothingForgottenUnhandled
  <2>5. Fresh' /\ BatchAhead' /\ OldBehind' /\ UpdateHandledOncePerRun'
    BY <1>1 DEF Start, RunOK, Fresh, BatchAhead, OldBehind, UpdateHandledOncePerRun
  <2> QED BY <2>1, <2>2, <2>3, <2>4, <2>5 DEF RunOK
<1>2. CASE Login
  <2>1. Flags' /\ pc' \in {"waiting", "drop", "poll", "stopped"}
    BY <1>2 DEF Login, AfterLogin, RunOK, Flags
  <2>2. Counts' /\ IdSets'
    <3>1. faults' \in 0..MaxFaults
      BY <1>2, BotApiAssumption DEF Login, Fault, RunOK, Counts
    <3> QED BY <1>2, <3>1 DEF Login, RunOK, Counts, IdSets
  <2>3. offset = 0 /\ thisRun = {} /\ old = {}
    BY <1>2 DEF Login, RunOK, Fresh
  <2>4. Fresh' /\ BatchAhead' /\ OldBehind'
    BY <1>2, <2>1, <2>3 DEF Login, Fresh, BatchAhead, OldBehind
  <2> QED BY <1>2, <2>1, <2>2, <2>4 DEF Login, RunOK, OffsetEarned, DealtWith,
          NothingForgottenUnhandled, PendingDropped, UpdateHandledOncePerRun
<1>3. CASE Drop
  <2> DEFINE answer == AnswerTo(-1)
             c == ConfirmedBy(-1)
  <2>c. confirmed' = c /\ offset' = offsetAfterDrop(answer)
    BY <1>3 DEF Drop
  <2>1. c \in Nat /\ confirmed <= c /\ c <= arrived /\ c >= arrived - 1
    BY <1>t DEF ConfirmedBy, Upto
  <2>a. /\ answer \in Seq(Nat) /\ Len(answer) <= arrived - c
        /\ answer = <<>> => c = arrived
        /\ \A k \in 1..Len(answer) : answer[k] = c + k
        /\ answer # <<>> => Len(answer) > 0
    <3>1. -1 \in Int
      OBVIOUS
    <3> QED BY <1>t, <3>1, AnswerIsRun
  <2> HIDE DEF answer, c
  <2>2. offset' \in {0, arrived + 1} /\ (offset' = 0 => c = arrived)
    <3>1. CASE answer = <<>>
      BY <2>a, <2>c, <3>1 DEF offsetAfterDrop
    <3>2. CASE answer # <<>>
      <4>1. Len(answer) = 1 /\ c + 1 = arrived
        <5>1. PICK n \in Nat : n = Len(answer) /\ n > 0 /\ n <= arrived - c
          BY <2>a, <3>2
        <5>2. n = 1 /\ c + 1 = arrived
          BY <1>t, <2>1, <5>1
        <5> QED BY <5>1, <5>2
      <4>2. answer[1] = arrived
        BY <2>a, <4>1
      <4> QED BY <1>t, <2>c, <3>2, <4>1, <4>2 DEF offsetAfterDrop
    <3> QED BY <3>1, <3>2
  <2>3. Counts'
    BY <1>3, <1>t, <2>1, <2>2, <2>c DEF Drop, RunOK, Counts
  <2>4. IdSets'
    BY <1>3 DEF Drop, RunOK, IdSets
  <2>5. Flags' /\ Fresh' /\ BatchAhead' /\ UpdateHandledOncePerRun' /\ batch' \in Seq(Nat)
    BY <1>3 DEF Drop, Flags, Fresh, BatchAhead, UpdateHandledOncePerRun, RunOK
  <2>6. PendingDropped'
    BY <1>3 DEF Drop, PendingDropped, RunOK, Fresh
  <2>7. \A id \in 1..arrived : id \in DealtWith'
    BY <1>3 DEF Drop, DealtWith
  <2>8. OffsetEarned' /\ NothingForgottenUnhandled'
    BY <1>3, <1>t, <2>1, <2>7, <2>c DEF Drop, OffsetEarned, NothingForgottenUnhandled, DealtWith,
       RunOK, Fresh
  <2>9. OldBehind'
    BY <1>3, <1>t, <2>1, <2>2, <2>c DEF Drop, OldBehind
  <2> QED BY <2>3, <2>4, <2>5, <2>6, <2>8, <2>9 DEF RunOK
<1>4. CASE DropFails
  <2>1. confirmed' \in Nat /\ confirmed <= confirmed' /\ confirmed' <= arrived
    <3>1. /\ ConfirmedBy(-1) \in Nat
          /\ confirmed <= ConfirmedBy(-1) /\ ConfirmedBy(-1) <= arrived
      BY <1>t DEF ConfirmedBy, Upto
    <3> QED BY <1>4, <1>t, <3>1 DEF DropFails, Unanswered
  <2>2. Counts' /\ IdSets'
    <3>1. faults' \in 0..MaxFaults
      BY <1>4, BotApiAssumption DEF DropFails, Unanswered, Fault, RunOK, Counts
    <3>2. 1..confirmed' \subseteq 1..arrived
      BY <1>t, <2>1
    <3>3. dropped' \subseteq 1..arrived
      BY <1>4, <3>2 DEF DropFails, RunOK, IdSets
    <3>4. Counts'
      BY <1>4, <1>t, <2>1, <3>1 DEF DropFails, RunOK, Counts
    <3> QED BY <1>4, <3>3, <3>4 DEF DropFails, RunOK, IdSets
  <2>3. Flags' /\ UpdateHandledOncePerRun' /\ batch' \in Seq(Nat)
    BY <1>4 DEF DropFails, Flags, UpdateHandledOncePerRun, RunOK
  <2>4. Fresh' /\ OldBehind' /\ BatchAhead' /\ PendingDropped'
    BY <1>4 DEF DropFails, Fresh, OldBehind, BatchAhead, PendingDropped, RunOK
  <2>5. OffsetEarned' /\ NothingForgottenUnhandled'
    BY <1>4, <1>t, <2>1 DEF DropFails, OffsetEarned, NothingForgottenUnhandled, DealtWith,
       RunOK, Fresh
  <2> QED BY <2>2, <2>3, <2>4, <2>5 DEF RunOK
<1>5. CASE Poll
  <2> DEFINE c == ConfirmedBy(offset)
  <2>c. confirmed' = c /\ batch' = AnswerTo(offset)
    BY <1>5 DEF Poll
  <2>1. /\ c \in Nat /\ confirmed <= c /\ c <= arrived
        /\ offset > 0 => offset - 1 <= c
    BY <1>t, ConfirmedByBounds
  <2>2. /\ batch' \in Seq(Nat)
        /\ \A k \in 1..Len(batch') : batch'[k] = c + k
        /\ batch' # <<>> => Len(batch') > 0
        /\ Len(batch') <= arrived - c
    <3>1. offset \in Int
      BY <1>t
    <3> QED BY <1>t, <2>c, <3>1, AnswerIsRun
  <2>3. Flags'
    BY <1>5 DEF Poll, RunOK, Flags
  <2>4. Counts' /\ IdSets'
    BY <1>5, <1>t, <2>1, <2>c DEF Poll, RunOK, Counts, IdSets
  <2>5. NothingForgottenUnhandled'
    BY <1>5, ConfirmsDealtWith DEF Poll, NothingForgottenUnhandled, DealtWith
  <2>6. Fresh' /\ OffsetEarned' /\ PendingDropped' /\ UpdateHandledOncePerRun'
    BY <1>5 DEF Poll, Fresh, OffsetEarned, DealtWith, PendingDropped,
       UpdateHandledOncePerRun, RunOK
  <2> HIDE DEF c
  <2>7. OldBehind'
    BY <1>5, <1>t, <2>1, <2>c DEF Poll, OldBehind, RunOK, IdSets
  <2>8. BatchAhead'
    <3> SUFFICES ASSUME pc' = "dispatch" PROVE BatchAhead'
      BY DEF BatchAhead
    <3>1. Len(batch') > 0 /\ batch'[1] = c + 1
      <4>1. batch' # <<>>
        BY <1>5 DEF Poll
      <4> QED BY <2>1, <2>2, <4>1
    <3>2. \A id \in 1..arrived : id < c + 1 => id \in DealtWith'
      <4>1. \A id \in 1..arrived : id < c + 1 => id \in 1..c
        BY <1>t, <2>1
      <4> QED BY <2>5, <2>c, <4>1 DEF NothingForgottenUnhandled, DealtWith
    <3>3. \A id \in old' : id < c + 1
      BY <1>5, <1>t, <2>1 DEF Poll, RunOK, OldBehind, IdSets
    <3>4. \A k \in 1..Len(batch') : c + k = (c + 1) + (k - 1) /\ c + k <= arrived
      BY <1>t, <2>1, <2>2
    <3>5. c + 1 >= 1 /\ c + 1 >= offset
      BY <1>t, <2>1
    <3> QED BY <1>5, <2>2, <3>1, <3>2, <3>3, <3>4, <3>5 DEF Poll, BatchAhead
  <2> QED BY <2>2, <2>3, <2>4, <2>5, <2>6, <2>7, <2>8 DEF RunOK
<1>6. CASE PollFails
  <2>1. Flags'
    BY <1>6 DEF PollFails, RunOK, Flags
  <2>2. faults' \in 0..MaxFaults
    BY <1>6, BotApiAssumption DEF PollFails, Unanswered, Fault, RunOK, Counts
  <2> QED BY <1>6, <2>1, <2>2, RequestKeeps DEF PollFails, Unanswered
<1>7. CASE Dispatch
  <2> DEFINE id == batch[1]
  <2>1. /\ Len(batch) > 0 /\ id >= 1 /\ id >= offset /\ id <= arrived /\ id \in Nat
        /\ \A k \in 1..Len(batch) : batch[k] = id + (k - 1) /\ batch[k] <= arrived
        /\ \A j \in 1..arrived : j < id => j \in DealtWith
        /\ \A j \in old : j < id
    BY <1>7, <1>t DEF Dispatch, RunOK, BatchAhead
  <2>2. id = Head(batch) /\ offset' = id + 1
    BY <1>7, <1>t, <2>1 DEF Dispatch, offsetAfter
  <2>3. /\ batch' \in Seq(Nat) /\ Len(batch') = Len(batch) - 1
        /\ \A k \in 1..Len(batch') : batch'[k] = batch[k + 1]
    <3>1. batch # <<>>
      BY <1>t, <2>1
    <3> QED BY <1>7, <1>t, <3>1, HeadTailProperties DEF Dispatch
  <2>4. /\ id \in Silent \/ id \in handled'
        /\ handled \subseteq handled' /\ handled' \subseteq handled \cup {id}
        /\ thisRun' \subseteq thisRun \cup {id}
        /\ twice' => twice \/ id \in thisRun
    <3>1. CASE id \in Silent
      BY <1>7, <2>2, <3>1 DEF Dispatch
    <3>2. CASE id \notin Silent
      BY <1>7, <2>2, <3>2 DEF Dispatch
    <3> QED BY <3>1, <3>2
  <2>5. twice' = FALSE
    <3>1. id \notin thisRun
      BY <1>t, <2>1 DEF RunOK, OffsetEarned
    <3>2. twice' \in BOOLEAN
      BY <1>7 DEF Dispatch, RunOK, Flags
    <3> QED BY <2>4, <3>1, <3>2 DEF RunOK, UpdateHandledOncePerRun
  <2>6. Flags' /\ Counts' /\ IdSets'
    <3>1. id \in 1..arrived
      BY <1>t, <2>1
    <3>2. IdSets'
      BY <1>7, <2>4, <3>1 DEF Dispatch, RunOK, IdSets
    <3>3. Counts'
      BY <1>7, <1>t, <2>1, <2>2 DEF Dispatch, RunOK, Counts
    <3>4. Flags'
      BY <1>7, <2>5 DEF Dispatch, RunOK, Flags
    <3> QED BY <3>2, <3>3, <3>4
  <2>7. OffsetEarned'
    <3>1. \A j \in 1..arrived : j < id + 1 => j \in DealtWith'
      BY <1>7, <1>t, <2>1, <2>4 DEF Dispatch, DealtWith
    <3>2. \A j \in thisRun' : j < id + 1
      BY <1>t, <2>1, <2>4 DEF RunOK, OffsetEarned, IdSets
    <3> QED BY <1>7, <2>2, <3>1, <3>2 DEF Dispatch, OffsetEarned
  <2>8. BatchAhead'
    <3> SUFFICES ASSUME pc' = "dispatch" PROVE BatchAhead'
      BY DEF BatchAhead
    <3>1. Len(batch') > 0 /\ batch'[1] = id + 1
      <4>1. batch' # <<>>
        BY <1>7 DEF Dispatch
      <4>2. Len(batch') > 0
        BY <2>3, <4>1, EmptySeq
      <4>3. 1 \in 1..Len(batch') /\ 2 \in 1..Len(batch)
        BY <2>1, <2>3, <4>2
      <4> QED BY <2>1, <2>3, <4>2, <4>3
    <3>2. \A k \in 1..Len(batch') : batch'[k] = batch'[1] + (k - 1) /\ batch'[k] <= arrived
      <4> SUFFICES ASSUME NEW k \in 1..Len(batch')
                   PROVE  batch'[k] = batch'[1] + (k - 1) /\ batch'[k] <= arrived
        OBVIOUS
      <4>1. k + 1 \in 1..Len(batch) /\ batch'[k] = batch[k + 1]
        BY <1>t, <2>3
      <4>2. batch[k + 1] = id + k /\ batch[k + 1] <= arrived
        BY <2>1, <4>1
      <4>3. id + k = (id + 1) + (k - 1)
        BY <2>1
      <4> QED BY <3>1, <4>1, <4>2, <4>3
    <3>3. \A j \in 1..arrived : j < batch'[1] => j \in DealtWith'
      BY <1>7, <2>2, <2>7, <3>1 DEF Dispatch, OffsetEarned
    <3>4. \A j \in old' : j < batch'[1]
      BY <1>7, <1>t, <2>1, <3>1 DEF Dispatch, RunOK, IdSets
    <3> QED BY <1>7, <2>1, <2>2, <3>1, <3>2, <3>3, <3>4 DEF Dispatch, BatchAhead
  <2>9. Fresh' /\ OldBehind'
    BY <1>7, <1>t, <2>1, <2>2 DEF Dispatch, Fresh, OldBehind, RunOK, IdSets
  <2>10. PendingDropped'
    <3>1. id \notin old
      BY <1>t, <2>1
    <3> QED BY <1>7, <2>4, <3>1 DEF Dispatch, RunOK, PendingDropped
  <2>11. NothingForgottenUnhandled'
    BY <1>7, <2>4 DEF Dispatch, RunOK, NothingForgottenUnhandled
  <2> QED BY <2>3, <2>5, <2>6, <2>7, <2>8, <2>9, <2>10, <2>11 DEF RunOK, UpdateHandledOncePerRun
<1>8. CASE LoopStops
  <2>1. Flags' /\ pc' = "stopped"
    BY <1>8 DEF LoopStops, RunOK, Flags
  <2>2. faults' \in 0..MaxFaults
    BY <1>8 DEF LoopStops, RunOK, Counts
  <2> QED BY <1>8, <2>1, <2>2, RequestKeeps DEF LoopStops
<1>9. CASE Cancel \/ Crash
  <2>1. Flags'
    BY <1>9 DEF Cancel, Crash, RunOK, Flags
  <2>2. stops' \in 0..MaxStops
    BY <1>9, BotApiAssumption DEF Cancel, Crash, Stop, RunOK, Counts
  <2>3. /\ pc' \in {pc, "down"}
        /\ UNCHANGED <<offset, batch, server, faults, history>>
    BY <1>9 DEF Cancel, Crash
  <2>4. Counts' /\ IdSets'
    BY <2>2, <2>3 DEF RunOK, Counts, IdSets
  <2> QED BY <2>1, <2>3, <2>4 DEF RunOK, Fresh, OffsetEarned, BatchAhead,
          OldBehind, NothingForgottenUnhandled, UpdateHandledOncePerRun, PendingDropped, DealtWith
<1>10. CASE Arrive
  <2>1. arrived' = arrived + 1 /\ arrived' \in 0..MaxID
    BY <1>10, <1>t, BotApiAssumption DEF Arrive
  <2>2. Counts' /\ IdSets'
    <3>1. 1..arrived \subseteq 1..arrived'
      BY <1>t, <2>1
    <3>2. IdSets'
      BY <1>10, <3>1 DEF Arrive, RunOK, IdSets
    <3> QED BY <1>10, <1>t, <2>1, <3>2 DEF Arrive, RunOK, Counts
  <2>3. OffsetEarned'
    BY <1>10, <1>t, <2>1 DEF Arrive, RunOK, OffsetEarned, DealtWith
  <2>4. BatchAhead'
    <3> SUFFICES ASSUME pc' = "dispatch" PROVE BatchAhead'
      BY DEF BatchAhead
    <3>1. /\ Len(batch) > 0 /\ batch[1] >= 1 /\ batch[1] >= offset /\ batch[1] <= arrived
          /\ \A k \in 1..Len(batch) : batch[k] = batch[1] + (k - 1) /\ batch[k] <= arrived
          /\ \A id \in 1..arrived : id < batch[1] => id \in DealtWith
          /\ \A id \in old : id < batch[1]
          /\ batch[1] \in Nat /\ \A k \in 1..Len(batch) : batch[k] \in Nat
      BY <1>10, <1>t DEF Arrive, RunOK, BatchAhead
    <3>2. \A id \in 1..(arrived + 1) : id < batch[1] => id \in DealtWith
      BY <1>t, <3>1
    <3>3. \A k \in 1..Len(batch) : batch[k] <= arrived + 1
      BY <1>t, <3>1
    <3> QED BY <1>10, <3>1, <3>2, <3>3 DEF Arrive, BatchAhead, DealtWith
  <2> QED BY <1>10, <2>2, <2>3, <2>4 DEF Arrive, RunOK, Flags, Fresh, OldBehind,
          NothingForgottenUnhandled, PendingDropped, UpdateHandledOncePerRun
<1>11. CASE UNCHANGED vars
  BY <1>11 DEF vars, RunOK, Flags, Counts, IdSets, Fresh, OffsetEarned, BatchAhead, OldBehind,
     NothingForgottenUnhandled, UpdateHandledOncePerRun, PendingDropped, DealtWith
<1> QED BY <1>1, <1>2, <1>3, <1>4, <1>5, <1>6, <1>7, <1>8, <1>9, <1>10, <1>11 DEF Next, Run

\* The types of Run's state, and the order confirmed <= arrived and
\* offset <= arrived + 1 that its arithmetic relies on.
THEOREM TypeCorrect == Spec => []TypeOK
<1>1. RunOK => TypeOK
  BY TypeParts DEF RunOK
<1> QED BY InitOK, StepOK, <1>1, PTL DEF Spec

\* The server is told to forget only what has been handled, dropped or had no
\* message in it: Run never asks beyond the last update it has gone through.
THEOREM AtLeastOnce == Spec => []NothingForgottenUnhandled
<1>1. RunOK => NothingForgottenUnhandled
  BY DEF RunOK
<1> QED BY InitOK, StepOK, <1>1, PTL DEF Spec

\* One call of Run gives no update to the dispatcher twice, whichever answers
\* are lost and requests repeated: every answer begins at or above the offset.
THEOREM OncePerRun == Spec => []UpdateHandledOncePerRun
<1>1. RunOK => UpdateHandledOncePerRun
  BY DEF RunOK
<1> QED BY InitOK, StepOK, <1>1, PTL DEF Spec

\* Once the request of DropPendingUpdates is answered, this call of Run
\* handles none of the updates that were waiting.
THEOREM DropsPending == Spec => []PendingDropped
<1>1. RunOK => PendingDropped
  BY DEF RunOK
<1> QED BY InitOK, StepOK, <1>1, PTL DEF Spec
=============================================================================
