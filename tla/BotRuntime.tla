----------------------------- MODULE BotRuntime -----------------------------
(***************************************************************************)
(* MTProtoBot: Run, Login, reconnect and SaveSession against the session   *)
(* store and the server's update log, over process crashes and restarts.   *)
(*                                                                         *)
(* Run logs in (from the stored session, or with a fresh auth key), loads  *)
(* the update state (stored, or updates.getState) and then polls: fetch a  *)
(* difference, dispatch its messages one by one, advance the state, save   *)
(* the session.  Each of these is a step of its own, so a crash or a       *)
(* cancelled context can fall between any two.  What the update state says *)
(* is abstracted to its pts; 0 is the zero value that mergeUpdateState     *)
(* ignores.  The server, the disk and the network are external; failures   *)
(* are counted, and their numbers bounded.                                 *)
(***************************************************************************)
EXTENDS Difference

CONSTANTS PTSLimit,               \* entries in one difference
          UpdatesOptions,         \* values of options.Updates a process may have
          AutoReconnect,
          MaxReconnectAttempts,   \* 0 for unlimited
          BackoffOptions,         \* the delays, first and largest, that may be
                                  \* configured; 0 for the default
          DurationBits,           \* the width of a time.Duration
          MaxErrors,              \* bound: consecutive errors counted
          TooLongGap,             \* the server may refuse a larger gap
          NetFaults,              \* bound: polls that fail
          DialFaults,             \* bound: dials and logins that fail
          LoadFaults,             \* bound: loads of the session that fail
          SaveFaults,             \* bound: saves that fail
          Crashes,                \* bound: process crashes
          Cancels                 \* bound: cancelled contexts

ASSUME RuntimeAssumption ==
  /\ PTSLimit \in Nat \ {0} /\ AutoReconnect \in BOOLEAN
  /\ UpdatesOptions \subseteq BOOLEAN
  /\ MaxReconnectAttempts \in Nat /\ TooLongGap \in Nat
  /\ MaxErrors \in Nat /\ MaxErrors > MaxReconnectAttempts
  /\ DurationBits \in Nat \ {0, 1}
  \* no configured delay is longer than half the longest duration
  /\ BackoffOptions \subseteq [initial : 0..(2^(DurationBits - 2) - 1),
                             max : 0..(2^(DurationBits - 2) - 1)]
  /\ NetFaults \in Nat /\ DialFaults \in Nat /\ LoadFaults \in Nat
  /\ SaveFaults \in Nat /\ Crashes \in Nat /\ Cancels \in Nat

\* The default delays are in range as well; and what a proof needs to know of
\* the powers of two.
ASSUME DurationAssumption ==
  /\ 2^(DurationBits - 2) \in Nat /\ 2^(DurationBits - 2) > 30
  /\ 2^(DurationBits - 1) = 2 * 2^(DurationBits - 2)

NoState == -1

VARIABLES
  pc,          \* where Run is; "down" when no process runs
  inLoop,      \* Login was called by reconnect rather than by Run
  client,      \* b.client: "nil", "alive", or "dead" when its connection is
  lastState,   \* b.lastState, or NoState
  state,       \* the local variable of Run
  next,        \* the pts of the difference being dispatched, 0 if none
  batch,       \* its messages still to be dispatched
  errs,        \* consecutiveErrors
  peers,       \* b.peers: entries whose sender is known
  ctxDone,     \* the context given to Run is cancelled
  store,       \* the saved session: ok, state, peers
  begun,       \* history: an update state has been saved
  srvPts,      \* the server's pts
  faults,      \* failures so far, by kind
  dispatched,  \* history: entries handed to the dispatcher
  thisRun,     \* history: those of the running process
  twice,       \* history: an entry was dispatched twice by one process
  withheld,    \* history: entries before the starting point of a bot that has
               \* saved no state yet, or in a gap too long for the server
  lost,        \* history: entries before a new starting point of a bot that
               \* had saved its state
  dropped      \* history: entries sent, but not delivered by the parser

volatile == <<inLoop, client, lastState, state, next, batch, errs, peers, ctxDone>>
history == <<dispatched, thisRun, twice, withheld, lost, dropped>>

skipped == withheld \cup dropped
vars == <<pc, volatile, store, begun, srvPts, faults, history>>

FaultKinds == {"net", "dial", "load", "save", "crash", "cancel"}
Allowed(k) == CASE k = "net" -> NetFaults [] k = "dial" -> DialFaults
                [] k = "load" -> LoadFaults [] k = "save" -> SaveFaults
                [] k = "crash" -> Crashes [] k = "cancel" -> Cancels
Fault(k) == faults[k] < Allowed(k) /\ faults' = [faults EXCEPT ![k] = @ + 1]

FreshBot ==
  /\ inLoop = FALSE /\ client = "nil" /\ lastState = NoState /\ state = NoState
  /\ next = 0 /\ batch = {} /\ errs = 0 /\ peers = {} /\ ctxDone = FALSE

\* The first run finds no session, or a bare one written by an old version.
Init ==
  /\ pc = "down"
  /\ FreshBot
  /\ \E ok \in BOOLEAN : store = [ok |-> ok, state |-> NoState, peers |-> {}]
  /\ srvPts = 1
  /\ faults = [k \in FaultKinds |-> 0]
  /\ dispatched = {} /\ thisRun = {} /\ twice = FALSE
  /\ begun = FALSE /\ withheld = {} /\ lost = {} /\ dropped = {}
-----------------------------------------------------------------------------
(***************************************************************************)
(* SaveSession.  Without a client it does nothing; a store refuses to save *)
(* under a cancelled context, and may fail.                                *)
(***************************************************************************)
Saved == [ok |-> TRUE, state |-> lastState, peers |-> peers]

\* The store's Save replaces what it holds, or fails and leaves it.
StoreSave == \/ /\ store' = Saved /\ UNCHANGED faults
                /\ begun' = (begun \/ lastState # NoState)
             \/ Fault("save") /\ UNCHANGED <<store, begun>>

\* Mutant of SaveSession: the cancelled context is used for the last save.
SaveSessionCtx(background) ==
  \/ client # "nil" /\ ~ctxDone /\ StoreSave
  \/ /\ client = "nil" \/ ctxDone
     /\ UNCHANGED <<store, begun, faults>>

SaveSession(background) ==
  \/ client # "nil" /\ (background \/ ~ctxDone) /\ StoreSave
  \/ /\ client = "nil" \/ (ctxDone /\ ~background)
     /\ UNCHANGED <<store, begun, faults>>
-----------------------------------------------------------------------------
(***************************************************************************)
(* Run up to its loop, and Login.                                          *)
(***************************************************************************)
\* The program starts: NewMTProtoBot and Run.
Start ==
  /\ pc \in {"down", "stopped"}
  /\ pc' = "load"
  /\ inLoop' = FALSE /\ client' = "nil" /\ lastState' = NoState /\ state' = NoState
  /\ next' = 0 /\ batch' = {} /\ errs' = 0 /\ peers' = {} /\ ctxDone' = FALSE
  /\ thisRun' = {}
  /\ UNCHANGED <<store, begun, srvPts, faults, dispatched, twice, withheld, lost, dropped>>

\* loadSession up to the dial.  A load error and a missing session both lead
\* to re-authorisation.
LoadSession ==
  /\ pc = "load"
  /\ \/ /\ store.ok /\ ~ctxDone
        /\ pc' = "dial" /\ UNCHANGED faults
     \/ /\ ~store.ok \/ ctxDone
        /\ pc' = "import" /\ UNCHANGED faults
     \/ /\ Fault("load")
        /\ pc' = "import"
  /\ UNCHANGED <<volatile, store, begun, srvPts, history>>

LoginReturnsTo == IF inLoop THEN "poll" ELSE "state"

\* DialEncryptedFromSession succeeds: the stored runtime state is taken over.
DialSession ==
  /\ pc = "dial" /\ ~ctxDone
  /\ client' = "alive"
  /\ lastState' = store.state
  /\ peers' = peers \cup store.peers
  /\ pc' = LoginReturnsTo
  /\ UNCHANGED <<inLoop, state, next, batch, errs, ctxDone, store, begun, srvPts, faults, history>>

DialSessionFails ==
  /\ pc = "dial"
  /\ \/ ctxDone /\ UNCHANGED faults
     \/ Fault("dial")
  /\ pc' = "import"
  /\ UNCHANGED <<volatile, store, begun, srvPts, history>>

\* ImportBotAuthorizationDefault succeeds with a fresh auth key.
ImportAuthorization ==
  /\ pc = "import" /\ ~ctxDone
  /\ client' = "alive"
  /\ pc' = "saveLogin"
  /\ UNCHANGED <<inLoop, lastState, state, next, batch, errs, peers, ctxDone>>
  /\ UNCHANGED <<store, begun, srvPts, faults, history>>

\* Login fails: Run returns, or the poll loop goes on without a client.
ImportFails ==
  /\ pc = "import"
  /\ \/ ctxDone /\ UNCHANGED faults
     \/ Fault("dial")
  /\ pc' = IF inLoop THEN "poll" ELSE "stopped"
  /\ UNCHANGED <<volatile, store, begun, srvPts, history>>

SaveAfterLogin ==
  /\ pc = "saveLogin"
  /\ SaveSession(FALSE)
  /\ pc' = LoginReturnsTo
  /\ UNCHANGED <<volatile, srvPts, history>>

\* A saved state is resumed; otherwise updates.getState sets the starting
\* point, and what is already in the log is not fetched.  That is how a bot
\* begins; but a Login that did not get at the saved session, and authorised
\* afresh, makes a bot that had a place in the log begin anew as well.
ResumeState ==
  /\ pc = "state" /\ lastState # NoState
  /\ state' = lastState
  /\ pc' = "saveStart"
  /\ UNCHANGED <<inLoop, client, lastState, next, batch, errs, peers, ctxDone>>
  /\ UNCHANGED <<store, begun, srvPts, faults, history>>

GetState ==
  /\ pc = "state" /\ lastState = NoState
  /\ state' = srvPts /\ lastState' = srvPts
  /\ LET passedOver == (1..srvPts) \ dispatched
     IN  IF begun THEN lost' = lost \cup (passedOver \ skipped) /\ UNCHANGED withheld
         ELSE withheld' = withheld \cup passedOver /\ UNCHANGED lost
  /\ pc' = "saveStart"
  /\ UNCHANGED <<inLoop, client, next, batch, errs, peers, ctxDone>>
  /\ UNCHANGED <<store, begun, srvPts, faults, dispatched, thisRun, twice, dropped>>

\* updates.getState fails: Run returns, through its deferred calls.
GetStateFails ==
  /\ pc = "state" /\ lastState = NoState
  /\ Fault("net")
  /\ pc' = "stopping"
  /\ UNCHANGED <<volatile, store, begun, srvPts, history>>

\* With updates disabled Run only waits for the context.
SaveAtStart ==
  /\ pc = "saveStart"
  /\ SaveSession(FALSE)
  /\ \E updates \in UpdatesOptions : pc' = IF updates THEN "poll" ELSE "waiting"
  /\ UNCHANGED <<volatile, srvPts, history>>
-----------------------------------------------------------------------------
(***************************************************************************)
(* The poll loop.                                                          *)
(***************************************************************************)
\* A difference, or a slice of one, arrives: rememberPeers(diff.Peers), then
\* the messages.  The entries it covers but does not deliver are skipped.
Receive(hi) ==
  /\ pc = "poll" /\ client = "alive" /\ state < srvPts
  /\ hi \in (state + 1)..srvPts /\ hi <= state + PTSLimit
  /\ errs' = 0
  /\ peers' = peers \cup (state + 1)..hi
  /\ next' = hi /\ batch' = Delivered(state, hi)
  /\ dropped' = dropped \cup (((state + 1)..hi) \ (Delivered(state, hi) \cup dispatched))
  /\ pc' = "dispatch"
  /\ UNCHANGED <<inLoop, client, lastState, state, ctxDone>>
  /\ UNCHANGED <<store, begun, srvPts, faults, dispatched, thisRun, twice, withheld, lost>>

\* differenceEmpty carries no pts.
ReceiveEmpty ==
  /\ pc = "poll" /\ client = "alive" /\ state = srvPts
  /\ errs' = 0
  /\ next' = 0 /\ batch' = {}
  /\ pc' = "dispatch"
  /\ UNCHANGED <<inLoop, client, lastState, state, peers, ctxDone>>
  /\ UNCHANGED <<store, begun, srvPts, faults, dispatched, thisRun, twice, withheld, lost, dropped>>

\* differenceTooLong: the server gives a new pts and none of the messages.
ReceiveTooLong ==
  /\ pc = "poll" /\ client = "alive" /\ srvPts - state > TooLongGap
  /\ errs' = 0
  /\ next' = srvPts /\ batch' = {}
  /\ withheld' = withheld \cup (((state + 1)..srvPts) \ dispatched)
  /\ pc' = "dispatch"
  /\ UNCHANGED <<inLoop, client, lastState, state, peers, ctxDone>>
  /\ UNCHANGED <<store, begun, srvPts, faults, dispatched, thisRun, twice, lost, dropped>>

\* DispatchMessage for the next message; a handler's error is only logged.
DispatchOne ==
  /\ pc = "dispatch"
  /\ \E m \in batch :
       /\ \A n \in batch \ {m} : Precedes(m, n)
       /\ batch' = batch \ {m}
       /\ dispatched' = dispatched \cup {m}
       /\ thisRun' = thisRun \cup {m}
       /\ twice' = (twice \/ m \in thisRun)
  /\ UNCHANGED <<pc, inLoop, client, lastState, state, next, errs, peers, ctxDone>>
  /\ UNCHANGED <<store, begun, srvPts, faults, withheld, lost, dropped>>

\* Mutant of mergeUpdateState: zero fields overwrite.
mergeOverwrites(old, new) == new

mergeUpdateState(old, new) == IF new # 0 THEN new ELSE old

\* Mutant of Advance: the state is advanced before the last message is out.
AdvanceEarly ==
  /\ pc = "dispatch"
  /\ state' = mergeUpdateState(state, next)
  /\ lastState' = mergeUpdateState(state, next)
  /\ pc' = "saveLoop"
  /\ UNCHANGED <<inLoop, client, next, batch, errs, peers, ctxDone>>
  /\ UNCHANGED <<store, begun, srvPts, faults, history>>

\* Mutant of Advance: the new state is kept in b.lastState only.
AdvanceForgetsLocal ==
  /\ pc = "dispatch" /\ batch = {}
  /\ lastState' = mergeUpdateState(state, next)
  /\ pc' = "saveLoop"
  /\ UNCHANGED <<inLoop, client, state, next, batch, errs, peers, ctxDone>>
  /\ UNCHANGED <<store, begun, srvPts, faults, history>>

\* All messages are out: mergeUpdateState and setState.
Advance ==
  /\ pc = "dispatch" /\ batch = {}
  /\ state' = mergeUpdateState(state, next)
  /\ lastState' = mergeUpdateState(state, next)
  /\ pc' = "saveLoop"
  /\ UNCHANGED <<inLoop, client, next, batch, errs, peers, ctxDone>>
  /\ UNCHANGED <<store, begun, srvPts, faults, history>>

SaveInLoop ==
  /\ pc = "saveLoop"
  /\ SaveSession(FALSE)
  /\ pc' = "poll"
  /\ UNCHANGED <<volatile, srvPts, history>>

\* FLOOD_WAIT, an RPC error, or a parse error: the loop tries again.
PollFails ==
  /\ pc = "poll" /\ client = "alive" /\ ~ctxDone
  /\ Fault("net")
  /\ UNCHANGED <<pc, volatile, store, begun, srvPts, history>>

\* The peer closes the connection.  The read fails with io.EOF, which is no
\* net.Error; from now on the client's connection is dead.
PollEOF ==
  /\ pc = "poll" /\ client = "alive" /\ ~ctxDone
  /\ Fault("net")
  /\ client' = "dead"
  /\ UNCHANGED <<pc, inLoop, lastState, state, next, batch, errs, peers, ctxDone>>
  /\ UNCHANGED <<store, begun, srvPts, history>>

\* Without a client the call fails with an error that is no net.Error.
PollNoClient ==
  /\ pc = "poll" /\ client = "nil" /\ ~ctxDone
  /\ UNCHANGED vars

\* reconnectWithBackoff's limit, with consecutiveErrors about to be errs + 1.
MayReconnect ==
  MaxReconnectAttempts = 0 \/ errs + 1 <= MaxReconnectAttempts

\* delay *= 2, which wraps around.
Doubled(delay) ==
  LET half == 2^(DurationBits - 1) IN ((2 * delay + half) % (2 * half)) - half

FirstDelay(option) == IF option.initial = 0 THEN 1 ELSE option.initial
DelayCap(option) == IF option.max = 0 THEN 30 ELSE option.max

\* Mutant of reconnectBackoff: the cap is applied after the loop only.
backoffCappedLast(attempt, option) ==
  LET cap == DelayCap(option)
      delay[i \in 1..attempt] ==
        IF i = 1 THEN FirstDelay(option) ELSE Doubled(delay[i - 1])
  IN  IF delay[attempt] > cap THEN cap ELSE delay[attempt]

\* The loop doubles and returns the cap as soon as it is reached: delay[i] is
\* the delay after i - 1 rounds, which stays at the cap since doubling the cap
\* does not wrap around.
reconnectBackoff(attempt, option) ==
  LET cap == DelayCap(option)
      delay[i \in 1..attempt] ==
        IF i = 1 THEN FirstDelay(option)
        ELSE IF Doubled(delay[i - 1]) >= cap THEN cap
        ELSE Doubled(delay[i - 1])
  IN  IF delay[attempt] > cap THEN cap ELSE delay[attempt]

\* A net.Error (a timeout, or a write to a dead connection) leads to
\* reconnectWithBackoff.
PollNetError ==
  /\ pc = "poll" /\ client # "nil" /\ ~ctxDone
  /\ IF client = "alive" THEN Fault("net") ELSE UNCHANGED faults
  /\ IF AutoReconnect
     THEN /\ errs' = IF errs >= MaxErrors THEN errs ELSE errs + 1
          /\ pc' = IF MayReconnect THEN "reconnect" ELSE "poll"
     ELSE UNCHANGED <<errs, pc>>
  /\ UNCHANGED <<inLoop, client, lastState, state, next, batch, peers, ctxDone>>
  /\ UNCHANGED <<store, begun, srvPts, history>>

\* The delay, then reconnect: SaveSession, Close, forget the client, Login.  A
\* context that is cancelled during the delay ends it.
Reconnect ==
  /\ pc = "reconnect"
  /\ \/ /\ SaveSession(FALSE)
        /\ pc' = "load" /\ client' = "nil" /\ inLoop' = TRUE
     \/ /\ ctxDone
        /\ \E option \in BackoffOptions : reconnectBackoff(errs, option) > 0
        /\ pc' = "poll"
        /\ UNCHANGED <<client, inLoop, store, begun, faults>>
  /\ UNCHANGED <<lastState, state, next, batch, errs, peers, ctxDone, srvPts, history>>

\* The cancelled context is seen: at the loop's top, after a failed call, or
\* by a Run that only waits for it.
LoopStops ==
  /\ pc \in {"poll", "waiting"} /\ ctxDone
  /\ pc' = "stopping"
  /\ UNCHANGED <<volatile, store, begun, srvPts, faults, history>>

\* Run's deferred calls: SaveSession with a background context, then Close.
Shutdown ==
  /\ pc = "stopping"
  /\ SaveSession(TRUE)
  /\ pc' = "stopped"
  /\ UNCHANGED <<volatile, srvPts, history>>
-----------------------------------------------------------------------------
Running == pc \notin {"down", "stopped"}

Cancel ==
  /\ Running /\ ~ctxDone /\ Fault("cancel")
  /\ ctxDone' = TRUE
  /\ UNCHANGED <<pc, inLoop, client, lastState, state, next, batch, errs, peers>>
  /\ UNCHANGED <<store, begun, srvPts, history>>

Crash ==
  /\ Running /\ Fault("crash")
  /\ pc' = "down"
  /\ UNCHANGED <<volatile, store, begun, srvPts, history>>

NewUpdate ==
  /\ srvPts < MaxPts
  /\ srvPts' = srvPts + 1
  /\ UNCHANGED <<pc, volatile, store, begun, faults, history>>

Login ==
  \/ LoadSession \/ DialSession \/ DialSessionFails
  \/ ImportAuthorization \/ ImportFails \/ SaveAfterLogin

Poll ==
  \/ \E hi \in 1..MaxPts : Receive(hi)
  \/ ReceiveEmpty \/ ReceiveTooLong
  \/ PollFails \/ PollEOF \/ PollNoClient \/ PollNetError

Run ==
  \/ Login
  \/ ResumeState \/ GetState \/ GetStateFails \/ SaveAtStart
  \/ Poll
  \/ DispatchOne \/ Advance \/ SaveInLoop
  \/ Reconnect
  \/ LoopStops \/ Shutdown

Next == Start \/ Run \/ Cancel \/ Crash \/ NewUpdate

\* The process takes its steps (Go runs the goroutine, and every call to the
\* server has a deadline), and a program that has stopped is started again.
Fairness == WF_vars(Run) /\ WF_vars(Start)

Spec == Init /\ [][Next]_vars /\ Fairness
-----------------------------------------------------------------------------
(***************************************************************************)
(* Types.                                                                  *)
(***************************************************************************)
TypeOK ==
  /\ pc \in {"down", "load", "dial", "import", "saveLogin", "state", "saveStart",
             "waiting", "poll", "dispatch", "saveLoop", "reconnect", "stopping", "stopped"}
  /\ inLoop \in BOOLEAN /\ ctxDone \in BOOLEAN
  /\ twice \in BOOLEAN /\ begun \in BOOLEAN
  /\ client \in {"nil", "alive", "dead"}
  /\ {lastState, state, store.state} \subseteq NoState..srvPts
  /\ srvPts \in 1..MaxPts
  /\ next \in 0..srvPts
  /\ errs \in 0..MaxErrors
  /\ store \in [ok : BOOLEAN, state : NoState..MaxPts, peers : SUBSET (1..MaxPts)]
  /\ faults \in [FaultKinds -> Nat]
  /\ {peers, batch, dispatched, thisRun, withheld, lost, dropped} \subseteq SUBSET (1..srvPts)

(***************************************************************************)
(* At least once: however the process crashes, fails to save or            *)
(* reconnects, the saved update state never moves past a message that the  *)
(* handlers have not seen - other than those the server withheld (before   *)
(* the starting point of a bot that has saved no state yet, or in a gap    *)
(* too long), those the parser dropped, and those lost when Login failed   *)
(* to load or to dial the saved session, authorised afresh and asked for a *)
(* new starting point (SavedRuntimeStateKept is about that one).  Nothing  *)
(* is lost unless such a load or dial failed.                              *)
(***************************************************************************)
SavedStateCoversOnlyHandled ==
  /\ \A p \in 1..store.state : p \in dispatched \cup skipped \cup lost
  /\ lost # {} => faults["load"] > 0 \/ faults["dial"] > 0

(***************************************************************************)
(* The parser drops a text message only if some entry close enough to      *)
(* share its difference is one it cannot parse, or an encrypted one.       *)
(***************************************************************************)
PlainTextNeverDropped ==
  \A p \in dropped : Log[p].kind = "text" =>
    \E q \in 1..MaxPts :
      /\ q - p < PTSLimit /\ p - q < PTSLimit
      /\ Log[q].kind \in {"unsupported", "unknown"} \/ Log[q].vector = "encrypted"

(***************************************************************************)
(* At most once per process: the local update state survives a reconnect   *)
(* (Login reloads b.lastState from the store, perhaps an older one).       *)
(***************************************************************************)
DispatchedOncePerRun == ~twice

(***************************************************************************)
(* README: session save happens during run and on graceful shutdown.  If   *)
(* no save failed, a process that ended through Run's return has saved a   *)
(* state covering everything it dispatched: the next one repeats nothing.  *)
(***************************************************************************)
GracefulStopRepeatsNothing ==
  pc = "stopped" /\ faults["save"] = 0 =>
    \A p \in thisRun : p <= store.state

(***************************************************************************)
(* A save never takes the update state backwards, even after a failed save *)
(* and a reconnect that reloads what is stored.                            *)
(***************************************************************************)
SavedStateNeverRegresses ==
  [][store'.state # NoState => store'.state >= store.state]_vars

(***************************************************************************)
(* However long the errors go on, a reconnect waits: never longer than the *)
(* configured delay, never less than after the error before, and never a   *)
(* delay that wrapped around to zero or below, which would be no wait.     *)
(***************************************************************************)
BackoffCapped ==
  pc = "reconnect" =>
    \A option \in BackoffOptions :
      LET delay == reconnectBackoff(errs, option)
      IN  /\ delay > 0 /\ delay <= DelayCap(option)
          /\ errs > 1 => delay >= reconnectBackoff(errs - 1, option)

(***************************************************************************)
(* Through timeouts, lost connections, failed saves, crashes and restarts, *)
(* every message is handed to the handlers in the end, except one that the *)
(* server withheld or the parser dropped, and one that a bot lost because  *)
(* a load of its saved session failed.  Dials are assumed to succeed: a    *)
(* failed one may leave Run without a client for good                      *)
(* (ConnectionComesBack).                                                  *)
(***************************************************************************)
EveryMessageHandled ==
  \A p \in 1..MaxPts :
    srvPts >= p ~> \/ p \in dispatched \cup skipped
                   \/ p \in lost /\ faults["load"] > 0

(***************************************************************************)
(* README: temporary network errors reconnect with exponential backoff.  A *)
(* runtime polling without a working client gets one again.                *)
(***************************************************************************)
ConnectionComesBack ==
  pc = "poll" /\ client # "alive" ~> client = "alive" \/ ctxDone \/ ~Running

(***************************************************************************)
(* README: on restart the runtime keeps saved access hashes for peers      *)
(* already seen, and can resume from the saved update state: once saved,   *)
(* neither is dropped by a later save.                                     *)
(***************************************************************************)
SavedRuntimeStateKept ==
  [][/\ store.peers \subseteq store'.peers
     /\ store.state # NoState => store'.state # NoState]_vars
=============================================================================
