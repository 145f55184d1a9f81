---------------------------- MODULE RuntimeProofs ----------------------------
(***************************************************************************)
(* Proofs about the MTProto bot runtime, for every log, every part size of *)
(* a difference, every configuration and every number of failures.         *)
(*                                                                         *)
(* The invariant has six layers: the types and what each place in Run may  *)
(* rely on; the order of the three update states (the loop's, b.lastState, *)
(* the saved one); which entries they cover; that a saved state is found   *)
(* again as long as no load or dial failed; what this process has seen;    *)
(* and what it has saved as long as no save failed.                        *)
(***************************************************************************)
EXTENDS BotRuntime, WellFoundedInduction, TLAPS

PCs == {"down", "load", "dial", "import", "saveLogin", "state", "saveStart",
        "waiting", "poll", "dispatch", "saveLoop", "reconnect", "stopping", "stopped"}

\* Run has its starting point; Login runs.
HasState == {"saveStart", "waiting", "poll", "dispatch", "saveLoop", "reconnect"}
InLogin == {"load", "dial", "import", "saveLogin", "state"}

\* An update state: none yet, or the pts of an entry of the log.
Points == {NoState} \cup 1..srvPts

Flags ==
  /\ pc \in PCs /\ client \in {"nil", "alive", "dead"}
  /\ inLoop \in BOOLEAN /\ ctxDone \in BOOLEAN /\ twice \in BOOLEAN /\ begun \in BOOLEAN

Numbers ==
  /\ srvPts \in 1..MaxPts
  /\ lastState \in Points /\ state \in Points
  /\ next \in 0..srvPts /\ errs \in 0..MaxErrors
  /\ faults \in [FaultKinds -> Nat]

Collections ==
  /\ store \in [ok : BOOLEAN, state : Points, peers : SUBSET (1..srvPts)]
  /\ peers \subseteq 1..srvPts /\ batch \subseteq 1..srvPts
  /\ dispatched \subseteq 1..srvPts /\ thisRun \subseteq 1..srvPts
  /\ withheld \subseteq 1..srvPts /\ lost \subseteq 1..srvPts /\ dropped \subseteq 1..srvPts

\* The loop runs with a state, Login before it without one; Login starts
\* without a client, and only the first one leads to the state.
Flow ==
  /\ inLoop \/ pc \in HasState => state # NoState
  /\ pc \in InLogin /\ ~inLoop => state = NoState
  /\ pc = "state" => ~inLoop
  /\ pc \in {"load", "dial", "import"} => client = "nil"
  /\ pc = "reconnect" => errs >= 1

\* What is being dispatched lies beyond the loop's state.
Ahead ==
  pc = "dispatch" =>
    /\ client # "nil" /\ (next = 0 \/ next > state)
    /\ \A m \in batch : m > state /\ m <= next

Typed == Flags /\ Numbers /\ Collections /\ Flow /\ Ahead
------------------------------------------------------------------------------
\* The parser delivers entries of the range it is given.
LEMMA DeliveredInRange ==
  ASSUME NEW lo, NEW hi
  PROVE  Delivered(lo, hi) \subseteq (lo + 1)..hi
<1>1. InVector("new", lo, hi) \subseteq (lo + 1)..hi /\ InVector("other", lo, hi) \subseteq (lo + 1)..hi
  BY DEF InVector
<1>2. parseMessageVector(lo, hi).messages \subseteq (lo + 1)..hi
  BY <1>1 DEF parseMessageVector, Text
<1>3. parseUpdateVector(lo, hi).messages \subseteq (lo + 1)..hi
  BY <1>1 DEF parseUpdateVector, Text
<1> QED BY <1>2, <1>3 DEF Delivered

\* A failure of one kind is counted.
LEMMA FaultCounted ==
  ASSUME faults \in [FaultKinds -> Nat], NEW k \in FaultKinds, Fault(k)
  PROVE  /\ faults' \in [FaultKinds -> Nat]
         /\ \A l \in FaultKinds : k # l => faults'[l] = faults[l]
         /\ faults'[k] # 0 /\ faults'[k] > faults[k]
BY DEF Fault, FaultKinds

\* SaveSession stores the state and the peers of b, or leaves what is stored;
\* the latter, with a client, only under a cancelled context or with a fault.
LEMMA SaveOutcome ==
  ASSUME Typed, NEW background \in BOOLEAN, SaveSession(background)
  PROVE  /\ faults' \in [FaultKinds -> Nat] /\ begun' \in BOOLEAN
         /\ \/ store' = store /\ begun' = begun
            \/ client # "nil" /\ store' = Saved /\ begun' = (begun \/ lastState # NoState)
         /\ \/ faults' = faults \/ faults'["save"] # 0
         /\ faults' = faults /\ client # "nil" /\ (background \/ ~ctxDone) => store' = Saved
<1>1. faults \in [FaultKinds -> Nat]
  BY DEF Typed, Numbers
<1>2. Fault("save") => faults' \in [FaultKinds -> Nat] /\ faults'["save"] # 0 /\ faults' # faults
  <2> SUFFICES ASSUME Fault("save")
               PROVE  faults' \in [FaultKinds -> Nat] /\ faults'["save"] # 0 /\ faults' # faults
    OBVIOUS
  <2>1. faults["save"] \in Nat /\ faults' = [faults EXCEPT !["save"] = @ + 1] /\ "save" \in FaultKinds
    BY <1>1 DEF Fault, FaultKinds
  <2>2. faults'["save"] = faults["save"] + 1
    BY <1>1, <2>1
  <2> QED BY <1>1, <2>1, <2>2
<1>3. begun \in BOOLEAN
  BY DEF Typed, Flags
<1>4. \/ store' = store /\ begun' = begun
      \/ client # "nil" /\ store' = Saved /\ begun' = (begun \/ lastState # NoState)
  BY DEF SaveSession, StoreSave
<1>5. begun' \in BOOLEAN
  BY <1>3, <1>4
<1>6. /\ faults' \in [FaultKinds -> Nat]
      /\ faults' = faults \/ faults'["save"] # 0
      /\ faults' = faults /\ client # "nil" /\ (background \/ ~ctxDone) => store' = Saved
  BY <1>1, <1>2 DEF SaveSession, StoreSave
<1> QED BY <1>4, <1>5, <1>6

\* What SaveSession would write is a session.
LEMMA SavedTyped ==
  ASSUME Typed
  PROVE  /\ Saved \in [ok : BOOLEAN, state : Points, peers : SUBSET (1..srvPts)]
         /\ Saved.state = lastState
BY DEF Typed, Numbers, Collections, Saved

LEMMA InitTyped == Init => Typed
<1> SUFFICES ASSUME Init PROVE Typed
  OBVIOUS
<1>1. MaxPts \in Nat \ {0} /\ MaxErrors \in Nat
  BY LogAssumption, RuntimeAssumption
<1>2. Flags
  BY DEF Init, FreshBot, Flags, PCs
<1>5. Numbers
  BY <1>1 DEF Init, FreshBot, Numbers, Points, FaultKinds
<1>3. Collections
  BY <1>1 DEF Init, FreshBot, Collections, Points
<1>4. Flow /\ Ahead
  BY DEF Init, FreshBot, Flow, Ahead, HasState, InLogin
<1> QED BY <1>2, <1>3, <1>4, <1>5 DEF Typed
LEMMA NextTyped == Typed /\ [Next]_vars => Typed'
<1> SUFFICES ASSUME Typed, [Next]_vars PROVE Typed'
  OBVIOUS
<1>a. Flags /\ Numbers /\ Collections /\ Flow /\ Ahead
  BY DEF Typed
<1>b. MaxPts \in Nat \ {0} /\ MaxErrors \in Nat \ {0} /\ MaxReconnectAttempts \in Nat
  BY LogAssumption, RuntimeAssumption
<1>f. \A k \in FaultKinds : Fault(k) => faults' \in [FaultKinds -> Nat]
  BY <1>a, FaultCounted DEF Numbers
<1>s. Saved \in [ok : BOOLEAN, state : Points, peers : SUBSET (1..srvPts)]
  BY SavedTyped
<1>1. CASE Start
  <2>1. Flags'
    BY <1>1, <1>a DEF Start, Flags, PCs, LoginReturnsTo
  <2>2. Numbers'
    BY <1>1, <1>a, <1>b DEF Start, Numbers, Points, Flow, Ahead
  <2>3. Collections'
    BY <1>1, <1>a, <1>b, <1>s DEF Start, Collections, Numbers, Points
  <2>4. Flow'
    BY <1>1, <1>a, <1>b DEF Start, Flow, Flags, Numbers, HasState, InLogin, LoginReturnsTo
  <2>5. Ahead'
    BY <1>1, <1>a DEF Start, Ahead
  <2> QED BY <2>1, <2>2, <2>3, <2>4, <2>5 DEF Typed
<1>2. CASE LoadSession
  <2>s. faults' \in [FaultKinds -> Nat]
    BY <1>2, <1>a, <1>f DEF LoadSession, FaultKinds, Numbers
  <2>1. Flags'
    BY <1>2, <1>a DEF LoadSession, volatile, history, Flags, PCs, LoginReturnsTo
  <2>2. Numbers'
    BY <1>2, <1>a, <1>b, <2>s DEF LoadSession, volatile, history, Numbers, Points, Flow, Ahead
  <2>3. Collections'
    BY <1>2, <1>a, <1>b, <1>s, <2>s DEF LoadSession, volatile, history, Collections, Numbers, Points
  <2>4. Flow'
    BY <1>2, <1>a, <1>b, <2>s DEF LoadSession, volatile, history, Flow, Flags, Numbers, HasState, InLogin, LoginReturnsTo
  <2>5. Ahead'
    BY <1>2, <1>a, <2>s DEF LoadSession, volatile, history, Ahead
  <2> QED BY <2>1, <2>2, <2>3, <2>4, <2>5 DEF Typed
<1>3. CASE DialSession
  <2>1. Flags'
    BY <1>3, <1>a DEF DialSession, history, Flags, PCs, LoginReturnsTo
  <2>2. Numbers'
    BY <1>3, <1>a, <1>b DEF DialSession, Numbers, Collections, Points
  <2>3. Collections'
    BY <1>3, <1>a, <1>b, <1>s DEF DialSession, history, Collections, Numbers, Points
  <2>4. Flow'
    BY <1>3, <1>a, <1>b DEF DialSession, history, Flow, Flags, Numbers, HasState, InLogin, LoginReturnsTo
  <2>5. Ahead'
    BY <1>3 DEF DialSession, LoginReturnsTo, Ahead
  <2> QED BY <2>1, <2>2, <2>3, <2>4, <2>5 DEF Typed
<1>4. CASE DialSessionFails
  <2>s. faults' \in [FaultKinds -> Nat]
    BY <1>4, <1>a, <1>f DEF DialSessionFails, FaultKinds, Numbers
  <2>1. Flags'
    BY <1>4, <1>a DEF DialSessionFails, volatile, history, Flags, PCs, LoginReturnsTo
  <2>2. Numbers'
    BY <1>4, <1>a, <1>b, <2>s DEF DialSessionFails, volatile, history, Numbers, Points, Flow, Ahead
  <2>3. Collections'
    BY <1>4, <1>a, <1>b, <1>s, <2>s DEF DialSessionFails, volatile, history, Collections, Numbers, Points
  <2>4. Flow'
    BY <1>4, <1>a, <1>b, <2>s DEF DialSessionFails, volatile, history, Flow, Flags, Numbers, HasState, InLogin, LoginReturnsTo
  <2>5. Ahead'
    BY <1>4, <1>a, <2>s DEF DialSessionFails, volatile, history, Ahead
  <2> QED BY <2>1, <2>2, <2>3, <2>4, <2>5 DEF Typed
<1>5. CASE ImportAuthorization
  <2>1. Flags'
    BY <1>5, <1>a DEF ImportAuthorization, history, Flags, PCs, LoginReturnsTo
  <2>2. Numbers'
    BY <1>5, <1>a, <1>b DEF ImportAuthorization, history, Numbers, Points, Flow, Ahead
  <2>3. Collections'
    BY <1>5, <1>a, <1>b, <1>s DEF ImportAuthorization, history, Collections, Numbers, Points
  <2>4. Flow'
    BY <1>5, <1>a, <1>b DEF ImportAuthorization, history, Flow, Flags, Numbers, HasState, InLogin, LoginReturnsTo
  <2>5. Ahead'
    BY <1>5, <1>a DEF ImportAuthorization, history, Ahead
  <2> QED BY <2>1, <2>2, <2>3, <2>4, <2>5 DEF Typed
<1>6. CASE ImportFails
  <2>s. faults' \in [FaultKinds -> Nat]
    BY <1>6, <1>a, <1>f DEF ImportFails, FaultKinds, Numbers
  <2>1. Flags'
    BY <1>6, <1>a DEF ImportFails, volatile, history, Flags, PCs, LoginReturnsTo
  <2>2. Numbers'
    BY <1>6, <1>a, <1>b, <2>s DEF ImportFails, volatile, history, Numbers, Points, Flow, Ahead
  <2>3. Collections'
    BY <1>6, <1>a, <1>b, <1>s, <2>s DEF ImportFails, volatile, history, Collections, Numbers, Points
  <2>4. Flow'
    BY <1>6, <1>a, <1>b, <2>s DEF ImportFails, volatile, history, Flow, Flags, Numbers, HasState, InLogin, LoginReturnsTo
  <2>5. Ahead'
    BY <1>6, <1>a, <2>s DEF ImportFails, volatile, history, Ahead
  <2> QED BY <2>1, <2>2, <2>3, <2>4, <2>5 DEF Typed
<1>7. CASE SaveAfterLogin
  <2>s. faults' \in [FaultKinds -> Nat] /\ begun' \in BOOLEAN /\ (store' = store \/ store' = Saved)
    BY <1>7, SaveOutcome DEF SaveAfterLogin
  <2>1. Flags'
    BY <1>7, <1>a, <2>s DEF SaveAfterLogin, volatile, history, Flags, PCs, LoginReturnsTo
  <2>2. Numbers'
    BY <1>7, <1>a, <1>b, <2>s DEF SaveAfterLogin, volatile, history, Numbers, Points, Flow, Ahead
  <2>3. Collections'
    BY <1>7, <1>a, <1>b, <1>s, <2>s DEF SaveAfterLogin, volatile, history, Collections, Numbers, Points
  <2>4. Flow'
    BY <1>7, <1>a, <1>b, <2>s DEF SaveAfterLogin, volatile, history, Flow, Flags, Numbers, HasState, InLogin, LoginReturnsTo
  <2>5. Ahead'
    BY <1>7 DEF SaveAfterLogin, LoginReturnsTo, Ahead
  <2> QED BY <2>1, <2>2, <2>3, <2>4, <2>5 DEF Typed
<1>8. CASE ResumeState
  <2>1. Flags'
    BY <1>8, <1>a DEF ResumeState, history, Flags, PCs, LoginReturnsTo
  <2>2. Numbers'
    BY <1>8, <1>a, <1>b DEF ResumeState, history, Numbers, Points, Flow, Ahead
  <2>3. Collections'
    BY <1>8, <1>a, <1>b, <1>s DEF ResumeState, history, Collections, Numbers, Points
  <2>4. Flow'
    BY <1>8, <1>a, <1>b DEF ResumeState, history, Flow, Flags, Numbers, HasState, InLogin, LoginReturnsTo
  <2>5. Ahead'
    BY <1>8, <1>a DEF ResumeState, history, Ahead
  <2> QED BY <2>1, <2>2, <2>3, <2>4, <2>5 DEF Typed
<1>9. CASE GetState
  <2>1. Flags'
    BY <1>9, <1>a DEF GetState, Flags, PCs, LoginReturnsTo
  <2>2. Numbers'
    BY <1>9, <1>a, <1>b DEF GetState, Numbers, Points, Flow, Ahead
  <2>3. Collections'
    BY <1>9, <1>a, <1>b, <1>s DEF GetState, Collections, Numbers, Points
  <2>4. Flow'
    BY <1>9, <1>a, <1>b DEF GetState, NoState, Flow, Flags, Numbers, HasState, InLogin, LoginReturnsTo
  <2>5. Ahead'
    BY <1>9, <1>a DEF GetState, Ahead
  <2> QED BY <2>1, <2>2, <2>3, <2>4, <2>5 DEF Typed
<1>10. CASE GetStateFails
  <2>s. faults' \in [FaultKinds -> Nat]
    BY <1>10, <1>a, <1>f DEF GetStateFails, FaultKinds, Numbers
  <2>1. Flags'
    BY <1>10, <1>a DEF GetStateFails, volatile, history, Flags, PCs, LoginReturnsTo
  <2>2. Numbers'
    BY <1>10, <1>a, <1>b, <2>s DEF GetStateFails, volatile, history, Numbers, Points, Flow, Ahead
  <2>3. Collections'
    BY <1>10, <1>a, <1>b, <1>s, <2>s DEF GetStateFails, volatile, history, Collections, Numbers, Points
  <2>4. Flow'
    BY <1>10, <1>a, <1>b, <2>s DEF GetStateFails, volatile, history, Flow, Flags, Numbers, HasState, InLogin, LoginReturnsTo
  <2>5. Ahead'
    BY <1>10, <1>a, <2>s DEF GetStateFails, volatile, history, Ahead
  <2> QED BY <2>1, <2>2, <2>3, <2>4, <2>5 DEF Typed
<1>11. CASE SaveAtStart
  <2>s. faults' \in [FaultKinds -> Nat] /\ begun' \in BOOLEAN /\ (store' = store \/ store' = Saved)
    BY <1>11, SaveOutcome DEF SaveAtStart
  <2>1. Flags'
    BY <1>11, <1>a, <2>s DEF SaveAtStart, volatile, history, Flags, PCs, LoginReturnsTo
  <2>2. Numbers'
    BY <1>11, <1>a, <1>b, <2>s DEF SaveAtStart, volatile, history, Numbers, Points, Flow, Ahead
  <2>3. Collections'
    BY <1>11, <1>a, <1>b, <1>s, <2>s DEF SaveAtStart, volatile, history, Collections, Numbers, Points
  <2>4. Flow'
    BY <1>11, <1>a, <1>b, <2>s DEF SaveAtStart, volatile, history, Flow, Flags, Numbers, HasState, InLogin, LoginReturnsTo
  <2>5. Ahead'
    BY <1>11, <1>a, <2>s DEF SaveAtStart, volatile, history, Ahead
  <2> QED BY <2>1, <2>2, <2>3, <2>4, <2>5 DEF Typed
<1>12. ASSUME NEW hi \in 1..MaxPts, Receive(hi) PROVE Typed'
  <2>p. state \in 1..srvPts /\ hi \in (state + 1)..srvPts /\ srvPts \in 1..MaxPts
    BY <1>12, <1>a DEF Receive, Flow, HasState, Numbers, Points
  <2>d. (state + 1)..hi \subseteq 1..srvPts /\ \A m \in Delivered(state, hi) : m \in (state + 1)..hi
    BY <1>b, <2>p, DeliveredInRange
  <2>1. Flags'
    BY <1>12, <1>a DEF Receive, Flags, PCs, LoginReturnsTo
  <2>2. Numbers'
    BY <1>12, <1>a, <1>b DEF Receive, Numbers, Points, Flow, Ahead
  <2>3. Collections'
    BY <1>12, <1>a, <2>d DEF Receive, Collections, Numbers, Points
  <2>4. Flow'
    BY <1>12, <1>a, <1>b DEF Receive, Flow, Flags, Numbers, HasState, InLogin, LoginReturnsTo
  <2>5. Ahead'
    BY <1>12, <2>p, <2>d DEF Receive, Ahead
  <2> QED BY <2>1, <2>2, <2>3, <2>4, <2>5 DEF Typed
<1>13. CASE ReceiveEmpty
  <2>1. Flags'
    BY <1>13, <1>a DEF ReceiveEmpty, Flags, PCs, LoginReturnsTo
  <2>2. Numbers'
    BY <1>13, <1>a, <1>b DEF ReceiveEmpty, Numbers, Points, Flow, Ahead
  <2>3. Collections'
    BY <1>13, <1>a, <1>b, <1>s DEF ReceiveEmpty, Collections, Numbers, Points
  <2>4. Flow'
    BY <1>13, <1>a, <1>b DEF ReceiveEmpty, Flow, Flags, Numbers, HasState, InLogin, LoginReturnsTo
  <2>5. Ahead'
    BY <1>13, <1>a DEF ReceiveEmpty, Ahead
  <2> QED BY <2>1, <2>2, <2>3, <2>4, <2>5 DEF Typed
<1>14. CASE ReceiveTooLong
  <2>p. state \in 1..srvPts /\ srvPts \in 1..MaxPts /\ TooLongGap \in Nat /\ srvPts > state
    BY <1>14, <1>a, RuntimeAssumption DEF ReceiveTooLong, Flow, HasState, Numbers, Points
  <2>d. (state + 1)..srvPts \subseteq 1..srvPts
    BY <1>b, <2>p
  <2>1. Flags'
    BY <1>14, <1>a DEF ReceiveTooLong, Flags, PCs, LoginReturnsTo
  <2>2. Numbers'
    BY <1>14, <1>a, <1>b DEF ReceiveTooLong, Numbers, Points, Flow, Ahead
  <2>3. Collections'
    BY <1>14, <1>a, <2>d DEF ReceiveTooLong, Collections, Numbers, Points
  <2>4. Flow'
    BY <1>14, <1>a, <1>b DEF ReceiveTooLong, Flow, Flags, Numbers, HasState, InLogin, LoginReturnsTo
  <2>5. Ahead'
    BY <1>14, <2>p DEF ReceiveTooLong, Ahead
  <2> QED BY <2>1, <2>2, <2>3, <2>4, <2>5 DEF Typed
<1>15. CASE DispatchOne
  <2>1. Flags'
    BY <1>15, <1>a DEF DispatchOne, Flags, PCs, LoginReturnsTo
  <2>2. Numbers'
    BY <1>15, <1>a, <1>b DEF DispatchOne, Numbers, Points, Flow, Ahead
  <2>3. Collections'
    BY <1>15, <1>a, <1>b, <1>s DEF DispatchOne, Collections, Numbers, Points
  <2>4. Flow'
    BY <1>15, <1>a, <1>b DEF DispatchOne, Flow, Flags, Numbers, HasState, InLogin, LoginReturnsTo
  <2>5. Ahead'
    BY <1>15, <1>a DEF DispatchOne, Ahead
  <2> QED BY <2>1, <2>2, <2>3, <2>4, <2>5 DEF Typed
<1>16. CASE Advance
  <2>1. Flags'
    BY <1>16, <1>a DEF Advance, history, Flags, PCs, LoginReturnsTo
  <2>2. Numbers'
    BY <1>16, <1>a, <1>b DEF Advance, mergeUpdateState, Numbers, Points
  <2>3. Collections'
    BY <1>16, <1>a, <1>b, <1>s DEF Advance, history, Collections, Numbers, Points
  <2>4. Flow'
    BY <1>16, <1>a, <1>b DEF Advance, mergeUpdateState, NoState, Flow, Flags, Numbers, HasState, InLogin, LoginReturnsTo
  <2>5. Ahead'
    BY <1>16, <1>a DEF Advance, history, Ahead
  <2> QED BY <2>1, <2>2, <2>3, <2>4, <2>5 DEF Typed
<1>17. CASE SaveInLoop
  <2>s. faults' \in [FaultKinds -> Nat] /\ begun' \in BOOLEAN /\ (store' = store \/ store' = Saved)
    BY <1>17, SaveOutcome DEF SaveInLoop
  <2>1. Flags'
    BY <1>17, <1>a, <2>s DEF SaveInLoop, volatile, history, Flags, PCs, LoginReturnsTo
  <2>2. Numbers'
    BY <1>17, <1>a, <1>b, <2>s DEF SaveInLoop, volatile, history, Numbers, Points, Flow, Ahead
  <2>3. Collections'
    BY <1>17, <1>a, <1>b, <1>s, <2>s DEF SaveInLoop, volatile, history, Collections, Numbers, Points
  <2>4. Flow'
    BY <1>17, <1>a, <1>b, <2>s DEF SaveInLoop, volatile, history, Flow, Flags, Numbers, HasState, InLogin, LoginReturnsTo
  <2>5. Ahead'
    BY <1>17, <1>a, <2>s DEF SaveInLoop, volatile, history, Ahead
  <2> QED BY <2>1, <2>2, <2>3, <2>4, <2>5 DEF Typed
<1>18. CASE PollFails
  <2>s. faults' \in [FaultKinds -> Nat]
    BY <1>18, <1>a, <1>f DEF PollFails, FaultKinds, Numbers
  <2>1. Flags'
    BY <1>18, <1>a DEF PollFails, volatile, history, Flags, PCs, LoginReturnsTo
  <2>2. Numbers'
    BY <1>18, <1>a, <1>b, <2>s DEF PollFails, volatile, history, Numbers, Points, Flow, Ahead
  <2>3. Collections'
    BY <1>18, <1>a, <1>b, <1>s, <2>s DEF PollFails, volatile, history, Collections, Numbers, Points
  <2>4. Flow'
    BY <1>18, <1>a, <1>b, <2>s DEF PollFails, volatile, history, Flow, Flags, Numbers, HasState, InLogin, LoginReturnsTo
  <2>5. Ahead'
    BY <1>18, <1>a, <2>s DEF PollFails, volatile, history, Ahead
  <2> QED BY <2>1, <2>2, <2>3, <2>4, <2>5 DEF Typed
<1>19. CASE PollEOF
  <2>s. faults' \in [FaultKinds -> Nat]
    BY <1>19, <1>a, <1>f DEF PollEOF, FaultKinds, Numbers
  <2>1. Flags'
    BY <1>19, <1>a DEF PollEOF, history, Flags, PCs, LoginReturnsTo
  <2>2. Numbers'
    BY <1>19, <1>a, <1>b, <2>s DEF PollEOF, history, Numbers, Points, Flow, Ahead
  <2>3. Collections'
    BY <1>19, <1>a, <1>b, <1>s, <2>s DEF PollEOF, history, Collections, Numbers, Points
  <2>4. Flow'
    BY <1>19, <1>a, <1>b, <2>s DEF PollEOF, history, Flow, Flags, Numbers, HasState, InLogin, LoginReturnsTo
  <2>5. Ahead'
    BY <1>19, <1>a, <2>s DEF PollEOF, history, Ahead
  <2> QED BY <2>1, <2>2, <2>3, <2>4, <2>5 DEF Typed
<1>20. CASE UNCHANGED vars
  BY <1>20 DEF vars, volatile, history, Typed, Flags, Numbers, Collections, Points, Flow, Ahead
<1>21. CASE PollNetError
  <2>s. faults' \in [FaultKinds -> Nat]
    BY <1>21, <1>a, <1>f DEF PollNetError, FaultKinds, Numbers
  <2>1. Flags'
    BY <1>21, <1>a DEF PollNetError, history, Flags, PCs, LoginReturnsTo
  <2>2. Numbers'
    BY <1>21, <1>a, <1>b, <2>s DEF PollNetError, history, Numbers, Points, Flow, Ahead
  <2>3. Collections'
    BY <1>21, <1>a, <1>b, <1>s, <2>s DEF PollNetError, history, Collections, Numbers, Points
  <2>4. Flow'
    BY <1>21, <1>a, <1>b, <2>s DEF PollNetError, history, Flow, Flags, Numbers, HasState, InLogin, LoginReturnsTo
  <2>5. Ahead'
    BY <1>21, <1>a, <2>s DEF PollNetError, history, Ahead
  <2> QED BY <2>1, <2>2, <2>3, <2>4, <2>5 DEF Typed
<1>22. CASE Reconnect
  <2>s. faults' \in [FaultKinds -> Nat] /\ begun' \in BOOLEAN /\ (store' = store \/ store' = Saved)
    BY <1>22, <1>a, SaveOutcome DEF Reconnect, Numbers, Flags
  <2>1. Flags'
    BY <1>22, <1>a, <2>s DEF Reconnect, history, Flags, PCs, LoginReturnsTo
  <2>2. Numbers'
    BY <1>22, <1>a, <1>b, <2>s DEF Reconnect, history, Numbers, Points, Flow, Ahead
  <2>3. Collections'
    BY <1>22, <1>a, <1>b, <1>s, <2>s DEF Reconnect, history, Collections, Numbers, Points
  <2>4. Flow'
    BY <1>22, <1>a, <1>b, <2>s DEF Reconnect, history, Flow, Flags, Numbers, HasState, InLogin, LoginReturnsTo
  <2>5. Ahead'
    BY <1>22, <1>a, <2>s DEF Reconnect, history, Ahead
  <2> QED BY <2>1, <2>2, <2>3, <2>4, <2>5 DEF Typed
<1>23. CASE LoopStops
  <2>1. Flags'
    BY <1>23, <1>a DEF LoopStops, volatile, history, Flags, PCs, LoginReturnsTo
  <2>2. Numbers'
    BY <1>23, <1>a, <1>b DEF LoopStops, volatile, history, Numbers, Points, Flow, Ahead
  <2>3. Collections'
    BY <1>23, <1>a, <1>b, <1>s DEF LoopStops, volatile, history, Collections, Numbers, Points
  <2>4. Flow'
    BY <1>23, <1>a, <1>b DEF LoopStops, volatile, history, Flow, Flags, Numbers, HasState, InLogin, LoginReturnsTo
  <2>5. Ahead'
    BY <1>23, <1>a DEF LoopStops, volatile, history, Ahead
  <2> QED BY <2>1, <2>2, <2>3, <2>4, <2>5 DEF Typed
<1>24. CASE Shutdown
  <2>s. faults' \in [FaultKinds -> Nat] /\ begun' \in BOOLEAN /\ (store' = store \/ store' = Saved)
    BY <1>24, SaveOutcome DEF Shutdown
  <2>1. Flags'
    BY <1>24, <1>a, <2>s DEF Shutdown, volatile, history, Flags, PCs, LoginReturnsTo
  <2>2. Numbers'
    BY <1>24, <1>a, <1>b, <2>s DEF Shutdown, volatile, history, Numbers, Points, Flow, Ahead
  <2>3. Collections'
    BY <1>24, <1>a, <1>b, <1>s, <2>s DEF Shutdown, volatile, history, Collections, Numbers, Points
  <2>4. Flow'
    BY <1>24, <1>a, <1>b, <2>s DEF Shutdown, volatile, history, Flow, Flags, Numbers, HasState, InLogin, LoginReturnsTo
  <2>5. Ahead'
    BY <1>24, <1>a, <2>s DEF Shutdown, volatile, history, Ahead
  <2> QED BY <2>1, <2>2, <2>3, <2>4, <2>5 DEF Typed
<1>25. CASE Cancel
  <2>s. faults' \in [FaultKinds -> Nat]
    BY <1>25, <1>a, <1>f DEF Cancel, FaultKinds, Numbers
  <2>1. Flags'
    BY <1>25, <1>a DEF Cancel, history, Flags, PCs, LoginReturnsTo
  <2>2. Numbers'
    BY <1>25, <1>a, <1>b, <2>s DEF Cancel, history, Numbers, Points, Flow, Ahead
  <2>3. Collections'
    BY <1>25, <1>a, <1>b, <1>s, <2>s DEF Cancel, history, Collections, Numbers, Points
  <2>4. Flow'
    BY <1>25, <1>a, <1>b, <2>s DEF Cancel, history, Flow, Flags, Numbers, HasState, InLogin, LoginReturnsTo
  <2>5. Ahead'
    BY <1>25, <1>a, <2>s DEF Cancel, history, Ahead
  <2> QED BY <2>1, <2>2, <2>3, <2>4, <2>5 DEF Typed
<1>26. CASE Crash
  <2>s. faults' \in [FaultKinds -> Nat]
    BY <1>26, <1>a, <1>f DEF Crash, FaultKinds, Numbers
  <2>1. Flags'
    BY <1>26, <1>a DEF Crash, volatile, history, Flags, PCs, LoginReturnsTo
  <2>2. Numbers'
    BY <1>26, <1>a, <1>b, <2>s DEF Crash, volatile, history, Numbers, Points, Flow, Ahead
  <2>3. Collections'
    BY <1>26, <1>a, <1>b, <1>s, <2>s DEF Crash, volatile, history, Collections, Numbers, Points
  <2>4. Flow'
    BY <1>26, <1>a, <1>b, <2>s DEF Crash, volatile, history, Flow, Flags, Numbers, HasState, InLogin, LoginReturnsTo
  <2>5. Ahead'
    BY <1>26, <1>a, <2>s DEF Crash, volatile, history, Ahead
  <2> QED BY <2>1, <2>2, <2>3, <2>4, <2>5 DEF Typed
<1>27. CASE NewUpdate
  <2>1. Flags'
    BY <1>27, <1>a DEF NewUpdate, volatile, history, Flags, PCs, LoginReturnsTo
  <2>2. Numbers'
    BY <1>27, <1>a, <1>b DEF NewUpdate, volatile, history, Numbers, Points, Flow, Ahead
  <2>3. Collections'
    BY <1>27, <1>a, <1>b, <1>s DEF NewUpdate, volatile, history, Collections, Numbers, Points
  <2>4. Flow'
    BY <1>27, <1>a, <1>b DEF NewUpdate, volatile, history, Flow, Flags, Numbers, HasState, InLogin, LoginReturnsTo
  <2>5. Ahead'
    BY <1>27, <1>a DEF NewUpdate, volatile, history, Ahead
  <2> QED BY <2>1, <2>2, <2>3, <2>4, <2>5 DEF Typed
<1> QED BY <1>1, <1>2, <1>3, <1>4, <1>5, <1>6, <1>7, <1>8, <1>9, <1>10, <1>11, <1>12, <1>13, <1>14, <1>15, <1>16, <1>17, <1>18, <1>19, <1>20, <1>21, <1>22, <1>23, <1>24, <1>25, <1>26,
            <1>27 DEF Next, Run, Login, Poll, PollNoClient

LEMMA AlwaysTyped == Spec => []Typed
BY InitTyped, NextTyped, PTL DEF Spec
\* Types: the update states, the log and the sets of entries stay in range.
THEOREM TypeCorrect == Spec => []TypeOK
<1>1. Typed => TypeOK
  <2> SUFFICES ASSUME Typed PROVE TypeOK
    OBVIOUS
  <2>1. MaxPts \in Nat /\ srvPts \in 1..MaxPts /\ NoState = -1
    BY LogAssumption DEF Typed, Numbers, NoState
  <2>2. Points \subseteq NoState..srvPts /\ NoState..srvPts \subseteq NoState..MaxPts
        /\ 1..srvPts \subseteq 1..MaxPts
    BY <2>1 DEF Points
  <2>3. store \in [ok : BOOLEAN, state : NoState..MaxPts, peers : SUBSET (1..MaxPts)]
        /\ store.state \in Points
    BY <2>2 DEF Typed, Collections
  <2>4. {lastState, state, store.state} \subseteq NoState..srvPts
    BY <2>2, <2>3 DEF Typed, Numbers
  <2>5. {peers, batch, dispatched, thisRun, withheld, lost, dropped} \subseteq SUBSET (1..srvPts)
    BY DEF Typed, Collections
  <2> QED BY <2>3, <2>4, <2>5 DEF Typed, Flags, Numbers, TypeOK, PCs
<1> QED BY <1>1, AlwaysTyped, PTL
------------------------------------------------------------------------------
(***************************************************************************)
(* The steps by what they do to the update states and to the history: most *)
(* leave both alone, five may save.                                        *)
(***************************************************************************)
Saving == SaveAfterLogin \/ SaveAtStart \/ SaveInLoop \/ Reconnect \/ Shutdown

Quiet ==
  \/ LoadSession \/ DialSessionFails \/ ImportAuthorization \/ ImportFails \/ GetStateFails
  \/ PollFails \/ PollEOF \/ PollNetError \/ LoopStops \/ Cancel \/ Crash \/ NewUpdate
  \/ UNCHANGED vars

\* What the loop and the history remember of messages.
seenVars == <<dispatched, thisRun, twice, withheld, lost, dropped>>

LEMMA StepKinds ==
  ASSUME [Next]_vars
  PROVE  \/ Start \/ DialSession \/ ResumeState \/ GetState
         \/ \E hi \in 1..MaxPts : Receive(hi)
         \/ ReceiveEmpty \/ ReceiveTooLong \/ DispatchOne \/ Advance
         \/ Saving \/ Quiet
BY DEF Next, Run, Login, Poll, PollNoClient, Saving, Quiet

LEMMA QuietStep ==
  ASSUME Quiet
  PROVE  /\ UNCHANGED <<lastState, state, next, batch, store, seenVars>>
         /\ \/ pc' = pc \/ pc' = "down"
            \/ /\ pc \notin {"down", "stopped", "dispatch"}
               /\ pc' \notin {"dispatch", "saveStart", "waiting"}
<1>1. UNCHANGED <<lastState, state, next, batch, store, seenVars>>
  BY DEF Quiet, LoadSession, DialSessionFails, ImportAuthorization, ImportFails,
         GetStateFails, PollFails, PollEOF, PollNetError, LoopStops, Cancel, Crash,
         NewUpdate, vars, volatile, history, seenVars
<1>2. \/ pc' = pc \/ pc' = "down"
      \/ /\ pc \notin {"down", "stopped", "dispatch"}
         /\ pc' \notin {"dispatch", "saveStart", "waiting"}
  BY DEF Quiet, LoadSession, DialSessionFails, ImportAuthorization, ImportFails,
         GetStateFails, PollFails, PollEOF, PollNetError, LoopStops, Cancel, Crash,
         NewUpdate, vars
<1> QED BY <1>1, <1>2

LEMMA SavingStep ==
  ASSUME Typed, Saving
  PROVE  /\ UNCHANGED <<lastState, state, next, batch, srvPts, ctxDone, seenVars>>
         /\ store' = store \/ (client # "nil" /\ store'.state = lastState)
         /\ pc \notin {"down", "stopped", "dispatch"} /\ pc' \notin {"down", "dispatch", "saveStart"}
         /\ pc' = "waiting" => pc = "saveStart"
<1>1. UNCHANGED <<lastState, state, next, batch, srvPts, ctxDone, seenVars>>
  BY DEF Saving, SaveAfterLogin, SaveAtStart, SaveInLoop, Reconnect, Shutdown, volatile,
         history, seenVars
<1>2. SaveSession(TRUE) \/ SaveSession(FALSE) \/ UNCHANGED store
  BY DEF Saving, SaveAfterLogin, SaveAtStart, SaveInLoop, Reconnect, Shutdown
<1>3. store' = store \/ (client # "nil" /\ store'.state = lastState)
  BY <1>2, SaveOutcome, SavedTyped
<1>4. /\ pc \notin {"down", "stopped", "dispatch"} /\ pc' \notin {"down", "dispatch", "saveStart"}
      /\ pc' = "waiting" => pc = "saveStart"
  BY DEF Saving, SaveAfterLogin, SaveAtStart, SaveInLoop, Reconnect, Shutdown, LoginReturnsTo
<1> QED BY <1>1, <1>3, <1>4
------------------------------------------------------------------------------
(***************************************************************************)
(* The three update states: the loop's is the newest, the saved one the    *)
(* oldest.                                                                 *)
(***************************************************************************)
Ordered ==
  /\ state # NoState => state >= lastState /\ state >= store.state
  /\ lastState # NoState => lastState >= store.state

\* What a state is worth as a number.
LEMMA PointsAreNumbers ==
  ASSUME Typed
  PROVE  /\ lastState \in Int /\ state \in Int /\ store.state \in Int /\ srvPts \in Nat
         /\ {lastState, state, store.state} \subseteq NoState..srvPts /\ NoState = -1
         /\ (state # NoState => state >= 1) /\ next \in Nat
         /\ lastState # NoState => lastState >= 1
<1>1. srvPts \in Nat /\ lastState \in Points /\ state \in Points /\ store.state \in Points /\ next \in Nat
  BY LogAssumption DEF Typed, Numbers, Collections
<1> QED BY <1>1 DEF Points, NoState

LEMMA NextOrdered == Typed /\ Ordered /\ [Next]_vars => Ordered'
<1> SUFFICES ASSUME Typed, Ordered, [Next]_vars PROVE Ordered'
  OBVIOUS
<1>a. /\ lastState \in Int /\ state \in Int /\ store.state \in Int /\ srvPts \in Nat
      /\ {lastState, state, store.state} \subseteq NoState..srvPts /\ NoState = -1
      /\ next \in Nat
  BY PointsAreNumbers
<1>1. CASE Start
  BY <1>1 DEF Start, Ordered
<1>2. CASE DialSession
  BY <1>2, <1>a DEF DialSession, Ordered
<1>3. CASE ResumeState
  BY <1>3, <1>a DEF ResumeState, Ordered
<1>4. CASE GetState
  BY <1>4, <1>a DEF GetState, Ordered
<1>5. ASSUME NEW hi \in 1..MaxPts, Receive(hi) PROVE Ordered'
  BY <1>5 DEF Receive, Ordered
<1>6. CASE ReceiveEmpty \/ ReceiveTooLong \/ DispatchOne
  BY <1>6 DEF ReceiveEmpty, ReceiveTooLong, DispatchOne, Ordered
<1>7. CASE Advance
  <2>1. state # NoState /\ (next = 0 \/ next > state)
    BY <1>7 DEF Advance, Typed, Flow, Ahead, HasState
  <2>2. state' = lastState' /\ state' \in Int /\ state' >= state /\ store' = store
    BY <1>7, <1>a, <2>1 DEF Advance, mergeUpdateState
  <2> QED BY <1>a, <2>1, <2>2 DEF Ordered
<1>8. CASE Saving
  BY <1>8, <1>a, SavingStep DEF Ordered
<1>9. CASE Quiet
  BY <1>9, QuietStep DEF Ordered
<1> QED BY <1>1, <1>2, <1>3, <1>4, <1>5, <1>6, <1>7, <1>8, <1>9, StepKinds

LEMMA AlwaysOrdered == Spec => [](Typed /\ Ordered)
<1>1. Init => Ordered
  BY DEF Init, FreshBot, Ordered
<1> QED BY <1>1, NextOrdered, AlwaysTyped, PTL DEF Spec

\* A save never takes the update state backwards, even after a failed save and
\* a reconnect that reloads what is stored: b.lastState, which SaveSession
\* writes, is never older than what the store holds.
THEOREM SavesGoForward == Spec => SavedStateNeverRegresses
<1>1. Typed /\ Ordered /\ [Next]_vars
        => [store'.state # NoState => store'.state >= store.state]_vars
  <2> SUFFICES ASSUME Typed, Ordered, [Next]_vars, store'.state # NoState
               PROVE  store'.state >= store.state
    OBVIOUS
  <2>a. lastState \in Int /\ store.state \in Int
    BY PointsAreNumbers
  <2>1. CASE store' = store
    BY <2>1, <2>a
  <2>2. CASE Saving
    BY <2>2, <2>a, SavingStep DEF Ordered
  <2>3. ~Saving => store' = store
    BY StepKinds, QuietStep DEF Start, DialSession, ResumeState, GetState, Receive, ReceiveEmpty,
                                ReceiveTooLong, DispatchOne, Advance
  <2> QED BY <2>1, <2>2, <2>3
<1> QED BY <1>1, AlwaysOrdered, PTL DEF Spec, SavedStateNeverRegresses
------------------------------------------------------------------------------
(***************************************************************************)
(* At least once: every entry up to an update state has been handled.      *)
(***************************************************************************)
Covers(n) == \A p \in 1..n : p \in dispatched \cup skipped \cup lost

Covered ==
  /\ Covers(store.state) /\ Covers(lastState) /\ Covers(state)
  /\ pc = "dispatch" => \A p \in 1..next : p \in dispatched \cup skipped \cup lost \cup batch

LEMMA NextCovered == Typed /\ Covered /\ [Next]_vars => Covered'
<1> SUFFICES ASSUME Typed, Covered, [Next]_vars PROVE Covered'
  OBVIOUS
<1>a. /\ lastState \in Int /\ state \in Int /\ store.state \in Int /\ srvPts \in Nat
      /\ next \in Nat /\ NoState = -1
  BY PointsAreNumbers
<1>1. CASE Start
  BY <1>1 DEF Start, Covered, Covers, skipped, NoState
<1>2. CASE DialSession
  BY <1>2 DEF DialSession, LoginReturnsTo, history, Covered, Covers, skipped
<1>3. CASE ResumeState
  BY <1>3 DEF ResumeState, history, Covered, Covers, skipped
<1>4. CASE GetState
  <2>1. \A p \in 1..srvPts : p \in dispatched' \cup skipped' \cup lost'
    BY <1>4 DEF GetState, skipped
  <2>2. \A p : p \in dispatched \cup skipped \cup lost => p \in dispatched' \cup skipped' \cup lost'
    BY <1>4 DEF GetState, skipped
  <2> QED BY <1>4, <2>1, <2>2 DEF GetState, Covered, Covers
<1>5. ASSUME NEW hi \in 1..MaxPts, Receive(hi) PROVE Covered'
  <2>1. \A p : p \in dispatched \cup skipped \cup lost => p \in dispatched' \cup skipped' \cup lost'
    BY <1>5 DEF Receive, skipped
  <2>2. \A p \in (state + 1)..hi : p \in dispatched' \cup skipped' \cup lost' \cup batch'
    BY <1>5 DEF Receive, skipped
  <2>3. \A p \in 1..hi : p \in 1..state \/ p \in (state + 1)..hi
    BY <1>a
  <2>4. \A p \in 1..hi : p \in dispatched' \cup skipped' \cup lost' \cup batch'
    BY <2>1, <2>2, <2>3 DEF Covered, Covers
  <2> QED BY <1>5, <2>1, <2>4 DEF Receive, Covered, Covers
<1>6. CASE ReceiveEmpty
  BY <1>6 DEF ReceiveEmpty, Covered, Covers, skipped
<1>7. CASE ReceiveTooLong
  <2>1. \A p : p \in dispatched \cup skipped \cup lost => p \in dispatched' \cup skipped' \cup lost'
    BY <1>7 DEF ReceiveTooLong, skipped
  <2>2. \A p \in (state + 1)..srvPts : p \in dispatched' \cup skipped' \cup lost'
    BY <1>7 DEF ReceiveTooLong, skipped
  <2>3. \A p \in 1..srvPts : p \in 1..state \/ p \in (state + 1)..srvPts
    BY <1>a
  <2>4. \A p \in 1..srvPts : p \in dispatched' \cup skipped' \cup lost'
    BY <2>1, <2>2, <2>3 DEF Covered, Covers
  <2> QED BY <1>7, <2>1, <2>4 DEF ReceiveTooLong, Covered, Covers
<1>8. CASE DispatchOne
  <2>1. PICK m \in batch : batch' = batch \ {m} /\ dispatched' = dispatched \cup {m}
    BY <1>8 DEF DispatchOne
  <2>2. UNCHANGED <<pc, store, lastState, state, next, withheld, lost, dropped>>
    BY <1>8 DEF DispatchOne
  <2> QED BY <2>1, <2>2 DEF Covered, Covers, skipped
<1>9. CASE Advance
  BY <1>9 DEF Advance, mergeUpdateState, history, Covered, Covers, skipped
<1>10. CASE Saving
  <2>1. /\ UNCHANGED <<lastState, state, dispatched, withheld, lost, dropped>> /\ pc' # "dispatch"
        /\ store' = store \/ store'.state = lastState
    BY <1>10, SavingStep DEF seenVars
  <2> QED BY <2>1 DEF Covered, Covers, skipped
<1>11. CASE Quiet
  <2>1. UNCHANGED <<lastState, state, next, batch, store, dispatched, withheld, lost, dropped>>
        /\ (pc' = "dispatch" => pc = "dispatch")
    BY <1>11, QuietStep DEF seenVars
  <2> QED BY <2>1 DEF Covered, Covers, skipped
<1> QED BY <1>1, <1>2, <1>3, <1>4, <1>5, <1>6, <1>7, <1>8, <1>9, <1>10, <1>11, StepKinds

(***************************************************************************)
(* As long as no load and no dial of the saved session failed, a bot that  *)
(* has saved its state finds it again, so it never asks for a new starting *)
(* point: what it has in memory or in the store is a state, and Login does *)
(* not get to authorise afresh but under a cancelled context, where that   *)
(* fails.                                                                  *)
(***************************************************************************)
SessionMissed == faults["load"] > 0 \/ faults["dial"] > 0

Remembered ==
  /\ lost # {} => SessionMissed
  /\ begun /\ ~SessionMissed =>
       /\ store.ok = TRUE /\ store.state # NoState
       /\ client # "nil" \/ pc \in {"saveLogin", "state"} => lastState # NoState
       /\ pc = "import" => ctxDone

\* Failures are counted and not forgotten.
LEMMA MissedStays ==
  ASSUME Typed, [Next]_vars
  PROVE  /\ SessionMissed => SessionMissed'
         /\ Fault("load") \/ Fault("dial") => SessionMissed'
<1>1. faults \in [FaultKinds -> Nat] /\ {"load", "dial", "save", "net", "crash", "cancel"} = FaultKinds
  BY DEF Typed, Numbers, FaultKinds
<1>2. faults["load"] \in Nat /\ faults["dial"] \in Nat
  BY <1>1
<1>3. ASSUME NEW k \in FaultKinds, Fault(k)
      PROVE  /\ SessionMissed => SessionMissed'
             /\ k \in {"load", "dial"} => SessionMissed'
  <2>1. /\ \A l \in FaultKinds : k # l => faults'[l] = faults[l]
        /\ faults'[k] > faults[k]
    BY <1>1, <1>3, FaultCounted
  <2>2. faults' \in [FaultKinds -> Nat]
    BY <1>1, <1>3, FaultCounted
  <2>3. faults'["load"] \in Nat /\ faults'["dial"] \in Nat
    BY <1>1, <2>2
  <2>4. faults'["load"] >= faults["load"] /\ faults'["dial"] >= faults["dial"]
    BY <1>1, <1>2, <2>1, <2>3
  <2>5. SessionMissed => SessionMissed'
    BY <1>2, <2>3, <2>4 DEF SessionMissed
  <2>6. k \in {"load", "dial"} => SessionMissed'
    BY <1>1, <1>2, <2>1, <2>3 DEF SessionMissed
  <2> QED BY <2>5, <2>6
<1>4. faults' = faults \/ \E k \in FaultKinds : Fault(k)
  BY <1>1 DEF Next, Run, Login, Poll, Start, LoadSession, DialSession, DialSessionFails,
       ImportAuthorization, ImportFails, SaveAfterLogin, ResumeState, GetState, GetStateFails,
       SaveAtStart, Receive, ReceiveEmpty, ReceiveTooLong, PollFails, PollEOF, PollNoClient,
       PollNetError, DispatchOne, Advance, SaveInLoop, Reconnect, LoopStops, Shutdown, Cancel,
       Crash, NewUpdate, SaveSession, StoreSave, vars
<1> QED BY <1>1, <1>3, <1>4 DEF SessionMissed

LEMMA NextRemembered == Typed /\ Remembered /\ [Next]_vars => Remembered'
<1> SUFFICES ASSUME Typed, Remembered, [Next]_vars PROVE Remembered'
  OBVIOUS
<1>m. /\ SessionMissed => SessionMissed'
      /\ Fault("load") \/ Fault("dial") => SessionMissed'
  BY MissedStays
<1>n. /\ inLoop \/ pc \in HasState => state # NoState
      /\ pc = "dispatch" => state # NoState
      /\ srvPts \in Nat \ {0} /\ next \in Nat /\ NoState = -1
  BY LogAssumption DEF Typed, Flow, Numbers, HasState, NoState
<1> DEFINE Safe == /\ store.ok = TRUE /\ store.state # NoState
                   /\ client # "nil" \/ pc \in {"saveLogin", "state"} => lastState # NoState
                   /\ pc = "import" => ctxDone
<1>s. SUFFICES /\ lost' # {} => SessionMissed'
               /\ begun' /\ ~SessionMissed' => Safe'
  BY DEF Remembered
<1>r. /\ lost # {} => SessionMissed
      /\ begun /\ ~SessionMissed => Safe
  BY DEF Remembered
<1>1. CASE Start
  BY <1>1, <1>m, <1>r DEF Start
<1>2. CASE LoadSession
  <2>1. UNCHANGED <<store, begun, lost, client, lastState, ctxDone>> /\ pc' \in {"dial", "import"}
    BY <1>2 DEF LoadSession, volatile, history
  <2>2. pc' = "import" /\ store.ok = TRUE => ctxDone \/ SessionMissed'
    BY <1>2, <1>m DEF LoadSession
  <2> QED BY <2>1, <2>2, <1>m, <1>r
<1>3. CASE DialSession
  BY <1>3, <1>m, <1>r DEF DialSession, LoginReturnsTo, history
<1>4. CASE DialSessionFails
  BY <1>4, <1>m, <1>r DEF DialSessionFails, volatile, history
<1>5. CASE ImportAuthorization
  BY <1>5, <1>m, <1>r DEF ImportAuthorization, history
<1>6. CASE ImportFails
  BY <1>6, <1>m, <1>r DEF ImportFails, volatile, history
<1>7. CASE ResumeState
  BY <1>7, <1>m, <1>r DEF ResumeState, history
<1>8. CASE GetState
  <2>1. UNCHANGED <<store, begun, client, ctxDone>> /\ pc = "state" /\ pc' = "saveStart"
        /\ lastState = NoState /\ lastState' = srvPts /\ (lost' = lost \/ begun)
    BY <1>8 DEF GetState
  <2>2. begun => SessionMissed
    BY <2>1, <1>r
  <2> QED BY <2>1, <2>2, <1>m, <1>n, <1>r
<1>9. CASE \E hi \in 1..MaxPts : Receive(hi)
  BY <1>9, <1>m, <1>r DEF Receive
<1>10. CASE ReceiveEmpty \/ ReceiveTooLong \/ DispatchOne
  BY <1>10, <1>m, <1>r DEF ReceiveEmpty, ReceiveTooLong, DispatchOne
<1>11. CASE Advance
  <2>1. lastState' # NoState
    BY <1>11, <1>n DEF Advance, mergeUpdateState
  <2> QED BY <1>11, <2>1, <1>m, <1>r DEF Advance, history
<1>12. CASE Saving
  <2>1. UNCHANGED <<lastState, ctxDone, lost>>
    BY <1>12, SavingStep DEF seenVars
  <2>2. \/ store' = store /\ begun' = begun
        \/ client # "nil" /\ store' = Saved /\ begun' = (begun \/ lastState # NoState)
    BY <1>12, SaveOutcome DEF Saving, SaveAfterLogin, SaveAtStart, SaveInLoop, Reconnect, Shutdown
  <2>3. /\ client' = client \/ client' = "nil"
        /\ pc' # "import" /\ pc' # "saveLogin" /\ (pc' = "state" => pc = "saveLogin")
    BY <1>12 DEF Saving, SaveAfterLogin, SaveAtStart, SaveInLoop, Reconnect, Shutdown, volatile,
                 LoginReturnsTo
  <2>4. Saved.ok = TRUE /\ Saved.state = lastState
    BY DEF Saved
  <2>5. CASE store' = store /\ begun' = begun
    BY <2>1, <2>3, <2>5, <1>m, <1>r
  <2>6. CASE client # "nil" /\ store' = Saved /\ begun' = (begun \/ lastState # NoState)
    <3>1. begun' /\ ~SessionMissed' => lastState # NoState
      BY <2>6, <1>m, <1>r
    <3> QED BY <2>1, <2>3, <2>4, <2>6, <3>1, <1>m, <1>r
  <2> QED BY <2>2, <2>5, <2>6
<1>13. CASE GetStateFails \/ PollFails \/ PollEOF \/ PollNetError \/ LoopStops \/ Cancel \/ Crash
            \/ NewUpdate \/ UNCHANGED vars
  <2>1. UNCHANGED <<store, begun, lost, lastState>> /\ (client # "nil" <=> client' # "nil")
        /\ (ctxDone => ctxDone')
        /\ (pc' \in {"import", "saveLogin", "state"} => pc' = pc)
    BY <1>13 DEF GetStateFails, PollFails, PollEOF, PollNetError, LoopStops, Cancel, Crash,
                 NewUpdate, vars, volatile, history
  <2> QED BY <2>1, <1>m, <1>r
<1> QED BY <1>1, <1>2, <1>3, <1>4, <1>5, <1>6, <1>7, <1>8, <1>9, <1>10, <1>11, <1>12, <1>13,
           StepKinds DEF Quiet

\* At least once: whatever fails and wherever the process dies, the saved
\* update state covers only messages that a handler has seen, that the server
\* or the parser did not deliver, or that were lost because a load or a dial of
\* the saved session failed.  A restart resumes from that state.
THEOREM AtLeastOnce == Spec => []SavedStateCoversOnlyHandled
<1>1. Init => Covered /\ Remembered
  BY DEF Init, FreshBot, Covered, Covers, NoState, Remembered
<1>2. Covered /\ Remembered => SavedStateCoversOnlyHandled
  BY DEF Covered, Covers, Remembered, SessionMissed, SavedStateCoversOnlyHandled
<1> QED BY <1>1, <1>2, NextCovered, NextRemembered, AlwaysTyped, PTL DEF Spec
------------------------------------------------------------------------------
(***************************************************************************)
(* At most once in a process: what it has dispatched lies within the       *)
(* loop's state, and what it is dispatching beyond.                        *)
(***************************************************************************)
Seen(n) == \A p \in thisRun : p <= n

Once ==
  /\ ~twice
  /\ pc \notin {"down", "stopped", "dispatch"} => Seen(state)
  /\ pc \in {"saveStart", "waiting"} => thisRun = {}
  /\ pc = "dispatch" => /\ batch \cap thisRun = {}
                        /\ Seen(IF next = 0 THEN state ELSE next)

LEMMA NextOnce == Typed /\ Once /\ [Next]_vars => Once'
<1> SUFFICES ASSUME Typed, Once, [Next]_vars PROVE Once'
  OBVIOUS
<1>a. /\ lastState \in Int /\ state \in Int /\ srvPts \in Nat
      /\ next \in Nat /\ NoState = -1 /\ (state # NoState => state >= 1)
      /\ \A p \in thisRun : p \in Nat /\ p >= 1
  BY PointsAreNumbers DEF Typed, Collections
<1>1. CASE Start
  BY <1>1 DEF Start, Once, Seen
<1>2. CASE DialSession
  BY <1>2 DEF DialSession, LoginReturnsTo, history, Once, Seen
<1>3. CASE ResumeState \/ GetState
  <2>1. state = NoState /\ pc = "state"
    BY <1>3 DEF ResumeState, GetState, Typed, Flow, InLogin
  <2>2. thisRun = {}
    BY <1>a, <2>1 DEF Once, Seen
  <2> QED BY <1>3, <2>2 DEF ResumeState, GetState, history, Once, Seen
<1>4. ASSUME NEW hi \in 1..MaxPts, Receive(hi) PROVE Once'
  <2>1. Seen(state) /\ hi > state /\ hi # 0 /\ hi \in Nat
    BY <1>4, <1>a DEF Receive, Once
  <2>2. \A m \in Delivered(state, hi) : m > state /\ m \in Int
    BY <1>a, <2>1, DeliveredInRange
  <2>3. Delivered(state, hi) \cap thisRun = {}
    BY <1>a, <2>1, <2>2 DEF Seen
  <2>4. Seen(hi)
    BY <1>a, <2>1 DEF Seen
  <2> QED BY <1>4, <2>1, <2>3, <2>4 DEF Receive, Once, Seen
<1>5. CASE ReceiveEmpty
  BY <1>5 DEF ReceiveEmpty, Once, Seen
<1>6. CASE ReceiveTooLong
  <2>1. Seen(state) /\ srvPts > state /\ srvPts # 0
    BY <1>6, <1>a, RuntimeAssumption DEF ReceiveTooLong, Once, Typed, Numbers
  <2>2. Seen(srvPts)
    BY <1>a, <2>1 DEF Seen
  <2> QED BY <1>6, <2>1, <2>2 DEF ReceiveTooLong, Once, Seen
<1>7. CASE DispatchOne
  <2>1. PICK m \in batch : /\ batch' = batch \ {m} /\ thisRun' = thisRun \cup {m}
                           /\ twice' = (twice \/ m \in thisRun)
    BY <1>7 DEF DispatchOne
  <2>2. pc = "dispatch" /\ UNCHANGED <<pc, state, next>>
    BY <1>7 DEF DispatchOne
  <2>3. m \notin thisRun /\ m > state /\ m <= next /\ m \in Nat
    BY <2>1, <2>2 DEF Once, Typed, Ahead, Collections
  <2>4. next # 0
    BY <1>a, <2>2, <2>3 DEF Typed, Flow, HasState
  <2>5. ~twice'
    BY <2>1, <2>3 DEF Once
  <2>6. Seen(next)'
    BY <2>1, <2>2, <2>3, <2>4 DEF Once, Seen
  <2>7. batch' \cap thisRun' = {}
    BY <2>1, <2>2 DEF Once
  <2> QED BY <2>2, <2>4, <2>5, <2>6, <2>7 DEF Once, Seen
<1>8. CASE Advance
  BY <1>8 DEF Advance, mergeUpdateState, history, Once, Seen
<1>9. CASE Saving
  <2>1. /\ UNCHANGED <<state, thisRun, twice>> /\ pc \notin {"down", "stopped", "dispatch"}
        /\ pc' \notin {"down", "dispatch", "saveStart"} /\ (pc' = "waiting" => pc = "saveStart")
    BY <1>9, SavingStep DEF seenVars
  <2> QED BY <2>1 DEF Once, Seen
<1>10. CASE Quiet
  <2>1. /\ UNCHANGED <<state, next, batch, thisRun, twice>>
        /\ \/ pc' = pc \/ pc' = "down"
           \/ /\ pc \notin {"down", "stopped", "dispatch"}
              /\ pc' \notin {"dispatch", "saveStart", "waiting"}
    BY <1>10, QuietStep DEF seenVars
  <2> QED BY <2>1 DEF Once, Seen
<1> QED BY <1>1, <1>2, <1>3, <1>4, <1>5, <1>6, <1>7, <1>8, <1>9, <1>10, StepKinds

LEMMA AlwaysOnce == Spec => [](Typed /\ Once)
<1>1. Init => Once
  BY DEF Init, FreshBot, Once
<1> QED BY <1>1, NextOnce, AlwaysTyped, PTL DEF Spec

\* At most once per process: a reconnect reloads b.lastState, perhaps an older
\* one, but the loop goes on from its own state and fetches nothing again.
THEOREM DispatchesOnce == Spec => []DispatchedOncePerRun
<1>1. Once => DispatchedOncePerRun
  BY DEF Once, DispatchedOncePerRun
<1> QED BY <1>1, AlwaysOnce, PTL
------------------------------------------------------------------------------
(***************************************************************************)
(* A graceful stop.  As long as no save has failed, b.lastState covers     *)
(* what this process has dispatched, and so does the store wherever the    *)
(* process could still end without another save: when there is no client   *)
(* (SaveSession does nothing), and where a reconnect may begin.            *)
(***************************************************************************)
MayEndUnsaved ==
  \/ pc \notin {"down", "stopped"} /\ client = "nil"
  \/ pc \in {"reconnect", "stopped"}
  \/ pc = "poll" /\ ~ctxDone

Kept ==
  faults["save"] = 0 =>
    /\ pc \notin {"down", "stopped", "dispatch"} => Seen(lastState)
    /\ MayEndUnsaved => Seen(store.state)

\* A save without a failure leaves the store covering this process, unless the
\* context kept it from being written.
LEMMA SaveKeeps ==
  ASSUME Typed, Kept, NEW background \in BOOLEAN, SaveSession(background),
         faults'["save"] = 0, pc \notin {"down", "stopped", "dispatch"}
  PROVE  /\ faults["save"] = 0 /\ Seen(lastState)
         /\ client = "nil" \/ background \/ ~ctxDone => Seen(store'.state)
         /\ Seen(store.state) => Seen(store'.state)
<1>1. faults' = faults /\ (store' = store \/ (client # "nil" /\ store' = Saved))
      /\ (client # "nil" /\ (background \/ ~ctxDone) => store' = Saved)
  BY SaveOutcome
<1>2. faults["save"] = 0 /\ Seen(lastState) /\ (client = "nil" => Seen(store.state))
  BY <1>1 DEF Kept, MayEndUnsaved
<1>3. Saved.state = lastState
  BY SavedTyped
<1> QED BY <1>1, <1>2, <1>3

LEMMA NextKept == Typed /\ Once /\ Kept /\ [Next]_vars => Kept'
<1> SUFFICES ASSUME Typed, Once, Kept, [Next]_vars, faults'["save"] = 0
             PROVE  /\ pc' \notin {"down", "stopped", "dispatch"} => Seen(lastState)'
                    /\ MayEndUnsaved' => Seen(store.state)'
  BY DEF Kept
<1> DEFINE Goal == /\ pc' \notin {"down", "stopped", "dispatch"} => Seen(lastState)'
                   /\ MayEndUnsaved' => Seen(store.state)'
<1>a. faults \in [FaultKinds -> Nat]
  BY DEF Typed, Numbers
<1>f. \A k \in FaultKinds : Fault(k) => k # "save" /\ faults["save"] = 0
  <2>1. "save" \in FaultKinds
    BY DEF FaultKinds
  <2> QED BY <1>a, <2>1, FaultCounted
<1>k. "net" \in FaultKinds /\ "dial" \in FaultKinds /\ {"load", "save"} \subseteq FaultKinds
      /\ "cancel" \in FaultKinds /\ "crash" \in FaultKinds
  BY DEF FaultKinds
<1>1. CASE Start
  BY <1>1 DEF Start, Seen, MayEndUnsaved
<1>2. CASE LoadSession
  <2>1. faults["save"] = 0 /\ pc' \in {"dial", "import"}
    BY <1>2, <1>f, <1>k DEF LoadSession
  <2> QED BY <1>2, <2>1 DEF LoadSession, volatile, history, Kept, MayEndUnsaved, Seen
<1>3. CASE DialSession
  <2>1. client = "nil" /\ faults["save"] = 0
    BY <1>3 DEF DialSession, Typed, Flow
  <2>2. Seen(store.state)
    BY <1>3, <2>1 DEF DialSession, Kept, MayEndUnsaved
  <2> QED BY <1>3, <2>2 DEF DialSession, LoginReturnsTo, history, Seen, MayEndUnsaved
<1>4. CASE DialSessionFails
  <2>1. faults["save"] = 0
    BY <1>4, <1>f, <1>k DEF DialSessionFails
  <2> QED BY <1>4, <2>1 DEF DialSessionFails, volatile, history, Kept, MayEndUnsaved, Seen
<1>5. CASE ImportAuthorization
  BY <1>5 DEF ImportAuthorization, history, Kept, MayEndUnsaved, Seen
<1>6. CASE ImportFails
  <2>1. faults["save"] = 0 /\ client = "nil"
    BY <1>6, <1>f, <1>k DEF ImportFails, Typed, Flow
  <2> QED BY <1>6, <2>1 DEF ImportFails, volatile, history, Kept, MayEndUnsaved, Seen
<1>7. CASE SaveAfterLogin
  <2>1. /\ Seen(lastState) /\ (client = "nil" \/ ~ctxDone => Seen(store'.state))
    BY <1>7, SaveKeeps DEF SaveAfterLogin
  <2> QED BY <1>7, <2>1 DEF SaveAfterLogin, LoginReturnsTo, volatile, history, Seen, MayEndUnsaved
<1>8. CASE ResumeState
  <2>1. thisRun' = {}
    <3>1. state = NoState /\ Seen(state)
      BY <1>8 DEF ResumeState, Typed, Flow, InLogin, Once
    <3>2. \A p \in thisRun : p \in Nat /\ p >= 1
      BY PointsAreNumbers DEF Typed, Collections
    <3> QED BY <1>8, <3>1, <3>2 DEF ResumeState, history, Seen, NoState
  <2> QED BY <2>1 DEF Seen, MayEndUnsaved
<1>9. CASE GetState
  <2>1. thisRun' = {}
    <3>1. state = NoState /\ Seen(state)
      BY <1>9 DEF GetState, Typed, Flow, InLogin, Once
    <3>2. \A p \in thisRun : p \in Nat /\ p >= 1
      BY PointsAreNumbers DEF Typed, Collections
    <3> QED BY <1>9, <3>1, <3>2 DEF GetState, Seen, NoState
  <2> QED BY <2>1 DEF Seen, MayEndUnsaved
<1>10. CASE GetStateFails
  <2>1. faults["save"] = 0
    BY <1>10, <1>f, <1>k DEF GetStateFails
  <2> QED BY <1>10, <2>1 DEF GetStateFails, volatile, history, Kept, MayEndUnsaved, Seen
<1>11. CASE SaveAtStart
  <2>1. thisRun' = {}
    BY <1>11 DEF SaveAtStart, history, Once
  <2> QED BY <2>1 DEF Seen, MayEndUnsaved
<1>12. ASSUME NEW hi \in 1..MaxPts, Receive(hi) PROVE Goal
  BY <1>12 DEF Receive, MayEndUnsaved
<1>13. CASE ReceiveEmpty \/ ReceiveTooLong
  BY <1>13 DEF ReceiveEmpty, ReceiveTooLong, MayEndUnsaved
<1>14. CASE DispatchOne
  BY <1>14 DEF DispatchOne, Typed, Ahead, MayEndUnsaved
<1>15. CASE Advance
  <2>1. client # "nil"
    BY <1>15 DEF Advance, Typed, Ahead
  <2>2. Seen(lastState)'
    BY <1>15 DEF Advance, mergeUpdateState, history, Once, Seen
  <2> QED BY <1>15, <2>1, <2>2 DEF Advance, MayEndUnsaved
<1>16. CASE SaveInLoop
  <2>1. /\ Seen(lastState) /\ (client = "nil" \/ ~ctxDone => Seen(store'.state))
    BY <1>16, SaveKeeps DEF SaveInLoop
  <2> QED BY <1>16, <2>1 DEF SaveInLoop, volatile, history, Seen, MayEndUnsaved
<1>17. CASE PollFails
  <2>1. faults["save"] = 0
    BY <1>17, <1>f, <1>k DEF PollFails
  <2> QED BY <1>17, <2>1 DEF PollFails, volatile, history, Kept, MayEndUnsaved, Seen
<1>18. CASE PollEOF
  <2>1. faults["save"] = 0
    BY <1>18, <1>f, <1>k DEF PollEOF
  <2> QED BY <1>18, <2>1 DEF PollEOF, history, Kept, MayEndUnsaved, Seen
<1>19. CASE UNCHANGED vars
  BY <1>19 DEF vars, volatile, history, Kept, MayEndUnsaved, Seen
<1>20. CASE PollNetError
  <2>1. faults["save"] = 0
    BY <1>20, <1>f, <1>k DEF PollNetError
  <2>2. Seen(lastState) /\ Seen(store.state)
    BY <1>20, <2>1 DEF PollNetError, Kept, MayEndUnsaved
  <2> QED BY <1>20, <2>2 DEF PollNetError, history, Seen, MayEndUnsaved
<1>21. CASE Reconnect
  <2>1. CASE SaveSession(FALSE) /\ pc' = "load"
    <3>1. faults["save"] = 0 /\ Seen(lastState) /\ (Seen(store.state) => Seen(store'.state))
      BY <1>21, <2>1, SaveKeeps DEF Reconnect
    <3>2. Seen(store.state)
      BY <1>21, <3>1 DEF Reconnect, Kept, MayEndUnsaved
    <3> QED BY <1>21, <3>1, <3>2 DEF Reconnect, history, Seen
  <2>2. CASE pc' = "poll" /\ ctxDone /\ UNCHANGED <<client, store, faults>>
    BY <1>21, <2>2 DEF Reconnect, history, Kept, MayEndUnsaved, Seen
  <2> QED BY <1>21, <2>1, <2>2 DEF Reconnect, MayEndUnsaved
<1>22. CASE LoopStops
  BY <1>22 DEF LoopStops, volatile, history, Kept, MayEndUnsaved, Seen
<1>23. CASE Shutdown
  <2>1. /\ Seen(lastState) /\ Seen(store'.state)
    BY <1>23, SaveKeeps DEF Shutdown
  <2> QED BY <1>23, <2>1 DEF Shutdown, history, Seen, MayEndUnsaved
<1>24. CASE Cancel
  <2>1. faults["save"] = 0
    BY <1>24, <1>f, <1>k DEF Cancel
  <2> QED BY <1>24, <2>1 DEF Cancel, history, Kept, MayEndUnsaved, Seen
<1>25. CASE Crash
  BY <1>25 DEF Crash, volatile, MayEndUnsaved
<1>26. CASE NewUpdate
  BY <1>26 DEF NewUpdate, volatile, history, Kept, MayEndUnsaved, Seen
<1> QED BY <1>1, <1>2, <1>3, <1>4, <1>5, <1>6, <1>7, <1>8, <1>9, <1>10, <1>11, <1>12,
           <1>13, <1>14, <1>15, <1>16, <1>17, <1>18, <1>19, <1>20, <1>21, <1>22, <1>23,
           <1>24, <1>25, <1>26 DEF Next, Run, Login, Poll, PollNoClient

\* A process that ends through Run's return, with no save failed, has saved a
\* state that covers all it dispatched, also when the context is cancelled
\* within a save, a reconnect or a login: its successor repeats nothing.
THEOREM StopsClean == Spec => []GracefulStopRepeatsNothing
<1>1. Init => Kept
  BY DEF Init, FreshBot, Kept, MayEndUnsaved
<1>2. Kept => GracefulStopRepeatsNothing
  BY DEF Kept, MayEndUnsaved, Seen, GracefulStopRepeatsNothing
<1> QED BY <1>1, <1>2, NextKept, AlwaysOnce, PTL DEF Spec
------------------------------------------------------------------------------
(***************************************************************************)
(* What the parser drops.                                                  *)
(***************************************************************************)
\* An entry that stops the parser, or makes it skip the other updates.
Spoils(q) == Log[q].kind \in {"unsupported", "unknown"} \/ Log[q].vector = "encrypted"

\* A range of the log without such an entry has all its texts delivered.
LEMMA CleanRangeDelivered ==
  ASSUME NEW lo \in Nat, NEW hi \in 1..MaxPts, NEW p \in (lo + 1)..hi, Log[p].kind = "text",
         \A q \in (lo + 1)..hi : ~Spoils(q)
  PROVE  p \in Delivered(lo, hi)
<1>1. \A q \in (lo + 1)..hi : /\ Log[q].vector \in {"new", "other"}
                              /\ Log[q].kind \notin {"unsupported", "unknown"}
  <2>1. \A q \in (lo + 1)..hi : q \in 1..MaxPts
    BY LogAssumption
  <2>2. \A q \in 1..MaxPts : Log[q].vector \in Vectors
    BY LogAssumption
  <2> QED BY <2>1, <2>2 DEF Spoils, Vectors
<1>2. parseMessageVector(lo, hi).ok
  BY <1>1 DEF parseMessageVector, InVector
<1>3. InVector("encrypted", lo, hi) = {}
  BY <1>1 DEF InVector
<1>4. parseUpdateVector(lo, hi).ok
  BY <1>1 DEF parseUpdateVector, InVector
<1>5. CASE Log[p].vector = "new"
  <2>1. p \in parseMessageVector(lo, hi).messages
    BY <1>5 DEF parseMessageVector, InVector, Text
  <2> QED BY <1>2, <1>3, <1>4, <2>1 DEF Delivered
<1>6. CASE Log[p].vector = "other"
  <2>1. p \in parseUpdateVector(lo, hi).messages
    BY <1>1, <1>6 DEF parseUpdateVector, InVector, Text
  <2> QED BY <1>2, <1>3, <1>4, <2>1 DEF Delivered
<1> QED BY <1>1, <1>5, <1>6

\* A text message is dropped only next to an entry the parser cannot parse, or
\* an encrypted one: one that may share its difference.
THEOREM TextDelivered == Spec => []PlainTextNeverDropped
<1>1. Init => PlainTextNeverDropped
  BY DEF Init, PlainTextNeverDropped
<1>2. Typed /\ PlainTextNeverDropped /\ [Next]_vars => PlainTextNeverDropped'
  <2> SUFFICES ASSUME Typed, PlainTextNeverDropped, [Next]_vars PROVE PlainTextNeverDropped'
    OBVIOUS
  <2>1. ASSUME NEW hi \in 1..MaxPts, Receive(hi) PROVE PlainTextNeverDropped'
    <3>1. state \in Nat /\ hi \in (state + 1)..srvPts /\ hi <= state + PTSLimit /\ PTSLimit \in Nat
      BY <2>1, PointsAreNumbers, RuntimeAssumption DEF Receive, Typed, Flow, HasState
    <3>2. dropped' \subseteq dropped \cup (((state + 1)..hi) \ Delivered(state, hi))
      BY <2>1 DEF Receive
    <3>3. ASSUME NEW p \in (state + 1)..hi, p \notin Delivered(state, hi), Log[p].kind = "text"
          PROVE  \E q \in 1..MaxPts :
                   q - p < PTSLimit /\ p - q < PTSLimit /\ Spoils(q)
      <4>1. PICK q \in (state + 1)..hi : Spoils(q)
        BY <3>1, <3>3, CleanRangeDelivered
      <4>2. q \in 1..MaxPts /\ q - p < PTSLimit /\ p - q < PTSLimit
        BY <3>1, LogAssumption
      <4> QED BY <4>1, <4>2
    <3>4. \A p \in dropped' : Log[p].kind = "text" =>
            \E q \in 1..MaxPts : q - p < PTSLimit /\ p - q < PTSLimit /\ Spoils(q)
      BY <3>2, <3>3 DEF PlainTextNeverDropped, Spoils
    <3> QED BY <3>4 DEF PlainTextNeverDropped, Spoils
  <2>2. CASE dropped' = dropped
    BY <2>2 DEF PlainTextNeverDropped
  <2>3. (\A hi \in 1..MaxPts : ~Receive(hi)) => dropped' = dropped
    BY StepKinds, SavingStep, QuietStep
    DEF Start, DialSession, ResumeState, GetState, ReceiveEmpty, ReceiveTooLong,
        DispatchOne, Advance, history, seenVars
  <2> QED BY <2>1, <2>2, <2>3
<1> QED BY <1>1, <1>2, AlwaysTyped, PTL DEF Spec
------------------------------------------------------------------------------
(***************************************************************************)
(* reconnectBackoff.  The library's theorems on recursive functions have   *)
(* an operator as a parameter; here the loop's function is built, and its  *)
(* values bounded, by way of the least number of rounds that fails.        *)
(***************************************************************************)
\* The longest delay that may be configured.
Longest == 2^(DurationBits - 2) - 1

LEMMA Delays ==
  ASSUME NEW option \in BackoffOptions
  PROVE  /\ Longest \in Nat
         /\ FirstDelay(option) \in 1..Longest /\ DelayCap(option) \in 1..Longest
<1>1. option.initial \in 0..Longest /\ option.max \in 0..Longest
  BY RuntimeAssumption DEF Longest
<1>2. Longest \in Nat /\ Longest >= 30
  BY DurationAssumption DEF Longest
<1> QED BY <1>1, <1>2 DEF FirstDelay, DelayCap

\* Doubling a delay that may be configured does not wrap around.
LEMMA DoublingIsExact ==
  ASSUME NEW d \in 1..Longest
  PROVE  Doubled(d) = 2 * d
<1> DEFINE quarter == 2^(DurationBits - 2)
<1>1. quarter \in Nat /\ quarter > 30 /\ Longest = quarter - 1 /\ 2^(DurationBits - 1) = 2 * quarter
  BY DurationAssumption DEF Longest
<1> HIDE DEF quarter
<1>2. Doubled(d) = ((2 * d + 2 * quarter) % (2 * (2 * quarter))) - 2 * quarter
  BY <1>1 DEF Doubled
<1>3. d \in Nat /\ d < quarter
  BY <1>1
<1>4. \A a, m \in Nat : a < m => a % m = a
  OBVIOUS
<1>5. (2 * d + 2 * quarter) % (2 * (2 * quarter)) = 2 * d + 2 * quarter
  BY <1>1, <1>3, <1>4
<1> QED BY <1>1, <1>2, <1>3, <1>5

\* A nonempty set of naturals has a least element.
LEMMA LeastExists ==
  ASSUME NEW S \in SUBSET Nat, S # {}
  PROVE  \E k \in S : \A l \in S : k <= l
<1>1. \E k \in S : \A l \in S : ~ (<<l, k>> \in OpToRel(<, Nat))
  BY NatLessThanWellFounded, WFMin
<1>2. \A k, l \in Nat : ~ (<<l, k>> \in OpToRel(<, Nat)) => k <= l
  BY SMT DEF OpToRel
<1> QED BY <1>1, <1>2

\* One round of the loop, and the delays after each of n - 1 rounds.
Round(d, option) ==
  IF Doubled(d) >= DelayCap(option) THEN DelayCap(option) ELSE Doubled(d)

IsLoop(f, n, option) ==
  f = [i \in 1..n |-> IF i = 1 THEN FirstDelay(option) ELSE Round(f[i - 1], option)]

LEMMA LoopExists ==
  ASSUME NEW option, NEW n \in Nat \ {0}
  PROVE  \E f : IsLoop(f, n, option)
<1> DEFINE Bad == {k \in Nat \ {0} : ~ \E f : IsLoop(f, k, option)}
<1> SUFFICES ASSUME Bad # {} PROVE FALSE
  OBVIOUS
<1>1. PICK k \in Bad : \A l \in Bad : k <= l
  BY LeastExists
<1>2. k \in Nat \ {0} /\ ~ \E f : IsLoop(f, k, option)
  OBVIOUS
<1>3. CASE k = 1
  <2> DEFINE f == [i \in 1..1 |-> FirstDelay(option)]
  <2>1. IsLoop(f, 1, option)
    BY DEF IsLoop
  <2> QED BY <1>2, <1>3, <2>1
<1>4. CASE k # 1
  <2>1. k - 1 \in Nat \ {0} /\ k - 1 \notin Bad
    BY <1>1, <1>2, <1>4
  <2>2. PICK f : IsLoop(f, k - 1, option)
    BY <2>1
  <2> DEFINE g == [i \in 1..k |-> IF i = k THEN Round(f[k - 1], option) ELSE f[i]]
  <2>3. \A i \in 1..(k - 1) : f[i] = IF i = 1 THEN FirstDelay(option) ELSE Round(f[i - 1], option)
    BY <2>2 DEF IsLoop
  <2>4. \A i \in 1..k : i # 1 => i - 1 \in 1..k /\ i - 1 # k
    BY <1>2
  <2>5. \A i \in 1..k : i # k => i \in 1..(k - 1)
    BY <1>2
  <2>6. \A i \in 1..k : g[i] = IF i = 1 THEN FirstDelay(option) ELSE Round(g[i - 1], option)
    BY <1>2, <1>4, <2>3, <2>4, <2>5
  <2>7. IsLoop(g, k, option)
    BY <2>6 DEF IsLoop
  <2> QED BY <1>2, <2>7
<1> QED BY <1>3, <1>4

\* However many rounds, the delay is positive and no longer than a delay that
\* may be configured; from the second round on, no longer than the cap.
LEMMA LoopBounded ==
  ASSUME NEW option \in BackoffOptions, NEW n \in Nat \ {0}, NEW f, IsLoop(f, n, option)
  PROVE  \A k \in 1..n : f[k] \in 1..Longest
<1> DEFINE Bad == {k \in 1..n : f[k] \notin 1..Longest}
<1> SUFFICES ASSUME Bad # {} PROVE FALSE
  OBVIOUS
<1>1. Bad \in SUBSET Nat
  OBVIOUS
<1>2. PICK k \in Bad : \A l \in Bad : k <= l
  BY <1>1, LeastExists
<1>3. k \in 1..n /\ f[k] \notin 1..Longest
  OBVIOUS
<1>4. f[k] = IF k = 1 THEN FirstDelay(option) ELSE Round(f[k - 1], option)
  BY <1>3 DEF IsLoop
<1>5. Longest \in Nat /\ FirstDelay(option) \in 1..Longest /\ DelayCap(option) \in 1..Longest
  BY Delays
<1>6. k # 1
  BY <1>3, <1>4, <1>5
<1>7. k - 1 \in 1..n /\ k - 1 \notin Bad
  BY <1>2, <1>3, <1>6
<1>8. f[k - 1] \in 1..Longest
  BY <1>7
<1>9. Doubled(f[k - 1]) = 2 * f[k - 1]
  BY <1>8, DoublingIsExact
<1>10. Round(f[k - 1], option) \in 1..Longest
  BY <1>5, <1>8, <1>9 DEF Round
<1> QED BY <1>3, <1>4, <1>6, <1>10

\* The rounds do not depend on how many are to follow.
LEMMA LoopUnique ==
  ASSUME NEW option, NEW n \in Nat \ {0}, NEW m \in Nat \ {0}, m <= n,
         NEW f, NEW g, IsLoop(f, n, option), IsLoop(g, m, option)
  PROVE  \A k \in 1..m : f[k] = g[k]
<1> DEFINE Bad == {k \in 1..m : f[k] # g[k]}
<1> SUFFICES ASSUME Bad # {} PROVE FALSE
  OBVIOUS
<1>1. Bad \in SUBSET Nat
  OBVIOUS
<1>2. PICK k \in Bad : \A l \in Bad : k <= l
  BY <1>1, LeastExists
<1>3. k \in 1..m /\ k \in 1..n /\ f[k] # g[k]
  OBVIOUS
<1>4. f[k] = IF k = 1 THEN FirstDelay(option) ELSE Round(f[k - 1], option)
  BY <1>3 DEF IsLoop
<1>5. g[k] = IF k = 1 THEN FirstDelay(option) ELSE Round(g[k - 1], option)
  BY <1>3 DEF IsLoop
<1>6. k # 1
  BY <1>3, <1>4, <1>5
<1>7. k - 1 \in 1..m /\ k - 1 \notin Bad
  BY <1>2, <1>3, <1>6
<1>8. f[k - 1] = g[k - 1]
  BY <1>7
<1> QED BY <1>3, <1>4, <1>5, <1>6, <1>8

\* reconnectBackoff returns what the loop leaves, or the cap.
LEMMA BackoffIsLoop ==
  ASSUME NEW option, NEW n \in Nat \ {0}
  PROVE  \E f : /\ IsLoop(f, n, option)
                /\ reconnectBackoff(n, option) =
                     IF f[n] > DelayCap(option) THEN DelayCap(option) ELSE f[n]
<1> DEFINE f == CHOOSE delay : delay =
                  [i \in 1..n |-> IF i = 1 THEN FirstDelay(option)
                                  ELSE IF Doubled(delay[i - 1]) >= DelayCap(option)
                                  THEN DelayCap(option) ELSE Doubled(delay[i - 1])]
<1>1. IsLoop(f, n, option)
  BY LoopExists DEF IsLoop, Round
<1>2. reconnectBackoff(n, option) =
        IF f[n] > DelayCap(option) THEN DelayCap(option) ELSE f[n]
  BY DEF reconnectBackoff
<1> HIDE DEF f
<1> QED BY <1>1, <1>2

\* However long the errors go on, a reconnect waits for a time that is
\* positive, within the configured limit and no shorter than the time before:
\* the doubled delay never wraps around before the limit stops it.
THEOREM BackoffHolds == Spec => []BackoffCapped
<1>1. Typed => BackoffCapped
  <2> SUFFICES ASSUME Typed, pc = "reconnect", NEW option \in BackoffOptions
               PROVE  /\ reconnectBackoff(errs, option) > 0
                      /\ reconnectBackoff(errs, option) <= DelayCap(option)
                      /\ errs > 1 =>
                           reconnectBackoff(errs, option) >= reconnectBackoff(errs - 1, option)
    BY DEF BackoffCapped
  <2>1. PICK n \in Nat \ {0} : n = errs
    BY RuntimeAssumption DEF Typed, Numbers, Flow
  <2>2. Longest \in Nat /\ FirstDelay(option) \in 1..Longest /\ DelayCap(option) \in 1..Longest
    BY Delays
  <2>3. PICK f : /\ IsLoop(f, n, option)
                 /\ reconnectBackoff(n, option) =
                      IF f[n] > DelayCap(option) THEN DelayCap(option) ELSE f[n]
    BY BackoffIsLoop
  <2>4. \A k \in 1..n : f[k] \in 1..Longest
    BY <2>3, LoopBounded
  <2>5. reconnectBackoff(n, option) > 0 /\ reconnectBackoff(n, option) <= DelayCap(option)
    BY <2>2, <2>3, <2>4
  <2>6. ASSUME n > 1
        PROVE  reconnectBackoff(n, option) >= reconnectBackoff(n - 1, option)
    <3>1. n - 1 \in Nat \ {0} /\ n - 1 <= n /\ n - 1 \in 1..n /\ n - 1 \in 1..(n - 1) /\ n \in 1..n
      BY <2>6
    <3>2. PICK g : /\ IsLoop(g, n - 1, option)
                   /\ reconnectBackoff(n - 1, option) =
                        IF g[n - 1] > DelayCap(option) THEN DelayCap(option) ELSE g[n - 1]
      BY <3>1, BackoffIsLoop
    <3>3. g[n - 1] = f[n - 1]
      <4>1. PICK m \in Nat \ {0} : m = n - 1 /\ m <= n /\ m \in 1..m
        BY <3>1
      <4>2. IsLoop(g, m, option)
        BY <3>2, <4>1
      <4>3. \A k \in 1..m : f[k] = g[k]
        BY <2>3, <4>1, <4>2, LoopUnique
      <4> QED BY <4>1, <4>3
    <3>4. f[n] = Round(f[n - 1], option)
      BY <2>3, <2>6, <3>1 DEF IsLoop
    <3>5. Doubled(f[n - 1]) = 2 * f[n - 1]
      BY <2>4, <3>1, DoublingIsExact
    <3>6. f[n - 1] \in 1..Longest
      BY <2>4, <3>1
    <3> QED BY <2>2, <2>3, <3>2, <3>3, <3>4, <3>5, <3>6 DEF Round
  <2> QED BY <2>1, <2>5, <2>6
<1> QED BY <1>1, AlwaysTyped, PTL
==============================================================================
