---------------------------- MODULE InvokeProofs -----------------------------
(***************************************************************************)
(* Proofs about EncryptedClient.Invoke, for any number of goroutines,      *)
(* calls, attempts, clock readings and salts.  They are layered: the types *)
(* and the mutex (Typed), then the order of what is written (Ordered),     *)
(* then what the answers in the stream may say (Answered), and last the    *)
(* budget of runs of each request (Budgeted).                              *)
(***************************************************************************)
EXTENDS EncryptedInvoke, SequenceTheorems, FiniteSetTheorems, WellFoundedInduction, TLAPS

Kinds == {"result", "rpcError", "badSalt", "badMsg", "malformed", "ack", "newSession"}

Packets == [msgID : Int, seqNo : Int, salt : 0..MaxSalt, body : Bodies]

Messages == [kind : Kinds, req : Int, of : 0..MaxCalls, salt : 0..MaxSalt, code : Nat]

States == [serverSalt : 0..MaxSalt, timeOffset : Int, seq : Nat, lastMsgID : Int]

Calls == [pc : {"idle", "lock", "send", "read"}, body : 0..MaxCalls,
          attempt : 0..MaxAttempts, msgID : Int,
          outcome : Outcomes, result : 0..MaxCalls]

\* The client's variables.
ClientTyped ==
  /\ state \in States
  /\ mutex \in Callers \cup {"none"}
  /\ call \in [Callers -> Calls]
  /\ calls \in 0..MaxCalls
  /\ conn \in [up : BOOLEAN, in : BOOLEAN, out : BOOLEAN]

\* The server's variables and the streams.
ServerTyped ==
  /\ srvSalt \in 0..MaxSalt
  /\ pushes \in 0..MaxPushes
  /\ sent \in Seq(Packets)
  /\ toServer \in Seq(Packets)
  /\ toClient \in Seq(Seq(Messages) \ {<<>>})
  /\ executed \in [Bodies -> Nat]
  /\ stale \in [Bodies -> Nat]

\* The mutex, the attempts left and the body of a call under way.
Held ==
  /\ \A c \in Callers : call[c].pc \in {"send", "read"} <=> mutex = c
  /\ \A c \in Callers :
       /\ call[c].pc \in {"lock", "send"} => call[c].attempt < MaxAttempts
       /\ call[c].pc # "idle" => call[c].body \in Bodies

Typed == ClientTyped /\ ServerTyped /\ Held

\* A nonempty set of naturals has a least element.
LEMMA LeastExists ==
  ASSUME NEW S \in SUBSET Nat, S # {}
  PROVE  \E k \in S : \A l \in S : k <= l
<1>1. \E k \in S : \A l \in S : ~ (<<l, k>> \in OpToRel(<, Nat))
  BY NatLessThanWellFounded, WFMin
<1>2. \A k, l \in Nat : ~ (<<l, k>> \in OpToRel(<, Nat)) => k <= l
  BY SMT DEF OpToRel
<1> QED BY <1>1, <1>2

\* A nonempty set of naturals with a bound has a greatest one.
LEMMA GreatestExists ==
  ASSUME NEW n \in Nat, NEW S \in SUBSET (1..n), S # {}
  PROVE  \E k \in S : \A l \in S : l <= k
<1> DEFINE T == {n - k : k \in S}
<1>1. T \in SUBSET Nat /\ T # {}
  <2>1. \A k \in 1..n : n - k \in Nat
    OBVIOUS
  <2> QED BY <2>1
<1> HIDE DEF T
<1>2. PICK t \in T : \A u \in T : t <= u
  BY <1>1, LeastExists
<1>3. PICK k \in S : t = n - k
  BY <1>2 DEF T
<1>4. \A l \in S : n - k <= n - l
  BY <1>2, <1>3 DEF T
<1>5. \A l \in S : l <= k
  BY <1>4
<1> QED BY <1>5

\* handleMessage stops at a message of the container.
LEMMA HandledInPacket ==
  ASSUME NEW packet \in Seq(Messages) \ {<<>>}, NEW id
  PROVE  Handled(packet, id) \in 1..Len(packet)
<1> DEFINE settling == {i \in 1..Len(packet) : Settles(packet[i], id)}
<1>1. Len(packet) \in Nat \ {0}
  BY EmptySeq
<1>2. CASE settling = {}
  BY <1>1, <1>2 DEF Handled
<1>3. CASE settling # {}
  <2>1. settling \in SUBSET Nat
    BY <1>1
  <2>2. \E i \in settling : \A j \in settling : i <= j
    BY <1>3, <2>1, LeastExists
  <2>3. Handled(packet, id) \in settling
    BY <1>3, <2>2 DEF Handled
  <2> QED BY <2>3
<1> QED BY <1>2, <1>3

\* The salt in use is always one the server has had.
LEMMA SaltIsTyped ==
  ASSUME NEW packet \in Seq(Messages), NEW n \in 1..Len(packet), NEW salt \in 0..MaxSalt
  PROVE  InstalledSalt(packet, n, salt) \in 0..MaxSalt
<1> DEFINE salts == {i \in 1..n : packet[i].kind \in {"newSession", "badSalt"}}
<1>1. CASE salts = {}
  BY <1>1 DEF InstalledSalt
<1>2. CASE salts # {}
  <2>1. n \in Nat /\ salts \in SUBSET (1..n)
    OBVIOUS
  <2>2. \E i \in salts : \A j \in salts : j <= i
    BY <1>2, <2>1, GreatestExists
  <2>3. PICK i \in salts : InstalledSalt(packet, n, salt) = packet[i].salt
    BY <1>2, <2>2 DEF InstalledSalt
  <2>4. packet[i] \in Messages
    BY <2>1
  <2> QED BY <2>3, <2>4 DEF Messages
<1> QED BY <1>1, <1>2

\* A new message id is an integer above the last one.
LEMMA NextMsgIDGrows ==
  ASSUME state \in States, NEW now \in Int
  PROVE  nextMsgID(now) \in Int /\ nextMsgID(now) > state.lastMsgID
<1>1. state.timeOffset \in Int /\ state.lastMsgID \in Int /\ TicksPerSecond \in Int
  BY InvokeAssumption DEF States
<1>2. TicksPerSecond * state.timeOffset \in Int
  BY <1>1
<1> QED BY <1>1, <1>2 DEF nextMsgID

LEMMA OffsetIsInt ==
  ASSUME state \in States, NEW msgID \in Int, NEW code, NEW now \in Int
  PROVE  adjustTimeOffset(msgID, code, now) \in Int
<1>1. TicksPerSecond \in Int /\ TicksPerSecond > 0
  BY InvokeAssumption
<1>2. \A a \in Int : a \div TicksPerSecond \in Int
  BY <1>1
<1>3. msgID \div 4 \in Int
  OBVIOUS
<1> QED BY <1>2, <1>3 DEF adjustTimeOffset, States

LEMMA NoCallTyped == NoCall \in Calls /\ NoCall.attempt = 0 /\ NoCall.pc = "idle"
                     /\ NoCall.body = 0 /\ NoCall.outcome = "none"
BY InvokeAssumption DEF NoCall, Calls, Outcomes

\* Init satisfies the types.
LEMMA InitTyped == Init => Typed
<1> SUFFICES ASSUME Init PROVE Typed
  OBVIOUS
<1>1. state \in States
  BY InvokeAssumption DEF Init, States
<1>2. NoCall \in Calls
  BY NoCallTyped
<1>3. call \in [Callers -> Calls] /\ \A c \in Callers : call[c] = NoCall
  BY <1>2 DEF Init
<1>4. ClientTyped
  BY <1>1, <1>3, InvokeAssumption DEF Init, ClientTyped
<1>5. ServerTyped
  BY InvokeAssumption, EmptySeq DEF Init, ServerTyped
<1>6. Held
  BY <1>3, InvokeAssumption DEF Init, Held, NoCall
<1> QED BY <1>4, <1>5, <1>6 DEF Typed

\* A goroutine with the mutex that returns, and one that goes on.
LEMMA ReturnedTyped ==
  ASSUME Typed, NEW c \in Callers, call[c].pc \in {"send", "read"},
         NEW outcome \in Outcomes, NEW result \in 0..MaxCalls, Returned(c, outcome, result)
  PROVE  /\ call' \in [Callers -> Calls] /\ mutex' \in Callers \cup {"none"} /\ Held'
         /\ call'[c].pc = "idle" /\ call'[c].body = call[c].body
         /\ call'[c].outcome = outcome /\ call'[c].result = result
         /\ \A d \in Callers \ {c} : call'[d] = call[d]
<1>1. call[c] \in Calls /\ call \in [Callers -> Calls]
  BY DEF Typed, ClientTyped
<1>2. call' = [call EXCEPT ![c] = [call[c] EXCEPT !.pc = "idle", !.outcome = outcome,
                                                 !.result = result]]
  BY <1>1 DEF Returned
<1>3. [call[c] EXCEPT !.pc = "idle", !.outcome = outcome, !.result = result] \in Calls
  BY <1>1 DEF Calls
<1>4. call' \in [Callers -> Calls]
  BY <1>1, <1>2, <1>3
<1>5. /\ call'[c].pc = "idle" /\ call'[c].body = call[c].body
      /\ call'[c].outcome = outcome /\ call'[c].result = result
  BY <1>1, <1>2 DEF Calls
<1>6. \A d \in Callers \ {c} : call'[d] = call[d]
  BY <1>1, <1>2
<1>7. mutex = c /\ mutex' = "none"
  BY DEF Typed, Held, Returned
<1>8. Held'
  BY <1>5, <1>6, <1>7, InvokeAssumption DEF Typed, Held
<1> QED BY <1>4, <1>5, <1>6, <1>7, <1>8

\* One message more, or one packet more, in a stream.
LEMMA MessageTyped ==
  ASSUME NEW kind \in Kinds, NEW req \in Int, NEW of \in 0..MaxCalls,
         NEW salt \in 0..MaxSalt, NEW code \in Nat
  PROVE  Message(kind, req, of, salt, code) \in Messages
BY DEF Message, Messages

LEMMA AnswersTyped ==
  ASSUME NEW m \in Messages, NEW s \in Messages
  PROVE  <<m>> \in Seq(Messages) \ {<<>>} /\ <<s, m>> \in Seq(Messages) \ {<<>>}
OBVIOUS

\* What Read finds: the packet, where handleMessage stops in it, and the salt.
LEMMA ReadTyped ==
  ASSUME Typed, toClient # <<>>, NEW c \in Callers
  PROVE  LET packet == Head(toClient)
             n == Handled(packet, call[c].msgID)
         IN  /\ packet \in Seq(Messages) \ {<<>>}
             /\ n \in 1..Len(packet)
             /\ packet[n] \in Messages
             /\ InstalledSalt(packet, n, state.serverSalt) \in 0..MaxSalt
             /\ Tail(toClient) \in Seq(Seq(Messages) \ {<<>>})
<1> DEFINE packet == Head(toClient)
           n == Handled(packet, call[c].msgID)
<1>1. toClient \in Seq(Seq(Messages) \ {<<>>}) /\ state.serverSalt \in 0..MaxSalt
  BY DEF Typed, ClientTyped, ServerTyped, States
<1>2. packet \in Seq(Messages) \ {<<>>} /\ Tail(toClient) \in Seq(Seq(Messages) \ {<<>>})
  BY <1>1, HeadTailProperties
<1> HIDE DEF packet
<1>3. n \in 1..Len(packet)
  BY <1>2, HandledInPacket
<1> HIDE DEF n
<1>4. packet[n] \in Messages
  BY <1>2, <1>3
<1>5. InstalledSalt(packet, n, state.serverSalt) \in 0..MaxSalt
  BY <1>1, <1>2, <1>3, SaltIsTyped
<1> QED BY <1>2, <1>3, <1>4, <1>5 DEF packet, n

\* Every step preserves the types, and the mutex stays with the goroutine that
\* writes and reads.
LEMMA StepTyped == Typed /\ [Next]_vars => Typed'
<1> SUFFICES ASSUME Typed, [Next]_vars PROVE Typed'
  OBVIOUS
<1>t. /\ state \in States /\ mutex \in Callers \cup {"none"} /\ call \in [Callers -> Calls]
      /\ calls \in 0..MaxCalls /\ conn \in [up : BOOLEAN, in : BOOLEAN, out : BOOLEAN]
  BY DEF Typed, ClientTyped
<1>s. /\ sent \in Seq(Packets) /\ toServer \in Seq(Packets)
      /\ toClient \in Seq(Seq(Messages) \ {<<>>})
      /\ srvSalt \in 0..MaxSalt /\ pushes \in 0..MaxPushes
      /\ executed \in [Bodies -> Nat] /\ stale \in [Bodies -> Nat]
  BY DEF Typed, ServerTyped
<1> USE DEF clientVars, serverVars
<1>1. ASSUME NEW c \in Callers, Begin(c) PROVE Typed'
  <2> DEFINE new == [NoCall EXCEPT !.pc = "lock", !.body = calls + 1]
  <2>1. calls + 1 \in Bodies /\ calls' \in 0..MaxCalls
    BY <1>1, <1>t, InvokeAssumption DEF Begin, Bodies
  <2>2. new \in Calls /\ new.pc = "lock" /\ new.attempt = 0 /\ new.body \in Bodies
    <3>1. NoCall \in Calls /\ NoCall.attempt = 0
      BY NoCallTyped
    <3>2. calls + 1 \in 0..MaxCalls
      BY <2>1 DEF Bodies
    <3> HIDE DEF NoCall
    <3> QED BY <2>1, <3>1, <3>2 DEF Calls
  <2>3. call' = [call EXCEPT ![c] = new]
    BY <1>1 DEF Begin
  <2> HIDE DEF new
  <2>4. call' \in [Callers -> Calls] /\ call'[c] = new
        /\ \A d \in Callers \ {c} : call'[d] = call[d]
    BY <1>t, <2>2, <2>3
  <2>5. ClientTyped' /\ ServerTyped'
    BY <1>1, <1>t, <1>s, <2>1, <2>4 DEF Begin, ClientTyped, ServerTyped
  <2>6. Held'
    <3>1. 0 < MaxAttempts
      BY InvokeAssumption
    <3>2. mutex' = mutex /\ mutex # c
      BY <1>1 DEF Begin, Typed, Held
    <3> QED BY <2>2, <2>4, <3>1, <3>2 DEF Typed, Held
  <2> QED BY <2>5, <2>6 DEF Typed
<1>2. ASSUME NEW c \in Callers, Lock(c) PROVE Typed'
  <2>1. call' = [call EXCEPT ![c] = [call[c] EXCEPT !.pc = "send"]] /\ call[c] \in Calls
    BY <1>2, <1>t DEF Lock
  <2>2. [call[c] EXCEPT !.pc = "send"] \in Calls
    BY <2>1 DEF Calls
  <2>3. call' \in [Callers -> Calls] /\ call'[c] = [call[c] EXCEPT !.pc = "send"]
        /\ \A d \in Callers \ {c} : call'[d] = call[d]
    BY <1>t, <2>1, <2>2
  <2>4. call'[c].pc = "send" /\ call'[c].body = call[c].body
        /\ call'[c].attempt = call[c].attempt
    BY <2>1, <2>3 DEF Calls
  <2>5. ClientTyped' /\ ServerTyped'
    BY <1>2, <1>t, <1>s, <2>3 DEF Lock, ClientTyped, ServerTyped
  <2>6. Held'
    BY <1>2, <2>3, <2>4, InvokeAssumption DEF Lock, Typed, Held
  <2> QED BY <2>5, <2>6 DEF Typed
<1>3. ASSUME NEW c \in Callers, NEW now \in 0..MaxClock, Send(c, now) PROVE Typed'
  <2> DEFINE msgID == nextMsgID(now)
             packet == buildEncryptedPacket(msgID, nextSeqNo, call[c].body)
             after == [call[c] EXCEPT !.pc = "read", !.msgID = msgID, !.attempt = @ + 1]
  <2>1. call[c] \in Calls /\ call[c].attempt < MaxAttempts /\ call[c].body \in Bodies
        /\ mutex = c
    BY <1>3, <1>t DEF Send, Typed, Held
  <2>2. msgID \in Int
    BY <1>t, NextMsgIDGrows, InvokeAssumption
  <2>3. packet \in Packets
    <3>1. nextSeqNo \in Int /\ state.serverSalt \in 0..MaxSalt
      BY <1>t DEF nextSeqNo, States
    <3> QED BY <2>1, <2>2, <3>1 DEF buildEncryptedPacket, Packets
  <2>4. after \in Calls /\ after.pc = "read" /\ after.body = call[c].body
    <3>1. call[c].attempt + 1 \in 0..MaxAttempts
      BY <2>1, InvokeAssumption DEF Calls
    <3> QED BY <2>1, <2>2, <3>1 DEF Calls
  <2>5. state' = [state EXCEPT !.lastMsgID = msgID, !.seq = @ + 1]
        /\ sent' = Append(sent, packet) /\ toServer' \in {toServer, Append(toServer, packet)}
        /\ call' = [call EXCEPT ![c] = after]
    BY <1>3, <1>t DEF Send
  <2>6. UNCHANGED <<mutex, calls, conn, stale, serverVars, toClient>>
    BY <1>3 DEF Send
  <2> HIDE DEF msgID, packet, after
  <2>7. state' \in States
    <3>1. state.seq + 1 \in Nat
      BY <1>t DEF States
    <3> QED BY <1>t, <2>2, <2>5, <3>1 DEF States
  <2>8. call' \in [Callers -> Calls] /\ call'[c] = after
        /\ \A d \in Callers \ {c} : call'[d] = call[d]
    BY <1>t, <2>4, <2>5
  <2>9. sent' \in Seq(Packets) /\ toServer' \in Seq(Packets)
    <3>1. Append(sent, packet) \in Seq(Packets) /\ Append(toServer, packet) \in Seq(Packets)
      BY <1>s, <2>3, AppendProperties
    <3> QED BY <1>s, <2>5, <3>1
  <2>10. ClientTyped' /\ ServerTyped'
    BY <1>t, <1>s, <2>6, <2>7, <2>8, <2>9 DEF ClientTyped, ServerTyped
  <2>11. Held'
    BY <2>1, <2>4, <2>6, <2>8 DEF Typed, Held
  <2> QED BY <2>10, <2>11 DEF Typed
<1>4. ASSUME NEW c \in Callers, NEW now \in 0..MaxClock, SendFails(c, now) PROVE Typed'
  <2>1. nextMsgID(now) \in Int
    BY <1>t, NextMsgIDGrows, InvokeAssumption
  <2>2. state' \in States
    <3>1. state.seq + 1 \in Nat
      BY <1>t DEF States
    <3>2. state' = [state EXCEPT !.lastMsgID = nextMsgID(now), !.seq = state.seq + 1]
      BY <1>4 DEF SendFails
    <3> QED BY <1>t, <2>1, <3>1, <3>2 DEF States
  <2>3. conn' \in [up : BOOLEAN, in : BOOLEAN, out : BOOLEAN]
    BY <1>4, <1>t DEF SendFails
  <2>4. call[c].pc \in {"send", "read"} /\ Returned(c, "netError", 0)
    BY <1>4 DEF SendFails
  <2>5. call' \in [Callers -> Calls] /\ mutex' \in Callers \cup {"none"} /\ Held'
    <3>1. "netError" \in Outcomes /\ 0 \in 0..MaxCalls
      BY InvokeAssumption DEF Outcomes
    <3> QED BY <2>4, <3>1, ReturnedTyped
  <2> QED BY <1>4, <1>t, <1>s, <2>2, <2>3, <2>5 DEF SendFails, Typed, ClientTyped, ServerTyped
<1>5. ASSUME NEW c \in Callers, NEW now \in 0..MaxClock, Read(c, now) PROVE Typed'
  <2> DEFINE packet == Head(toClient)
             id     == call[c].msgID
             n      == Handled(packet, id)
             last   == packet[n]
             salt   == InstalledSalt(packet, n, state.serverSalt)
  <2>1. /\ packet \in Seq(Messages) \ {<<>>} /\ n \in 1..Len(packet) /\ last \in Messages
        /\ salt \in 0..MaxSalt /\ toClient' \in Seq(Seq(Messages) \ {<<>>})
    BY <1>5, ReadTyped DEF Read
  <2>2. /\ call[c].pc = "read" /\ call[c].body \in Bodies /\ call[c] \in Calls /\ id \in Int
        /\ mutex = c
    BY <1>5, <1>t DEF Read, Typed, Held, Calls
  <2>3. UNCHANGED <<calls, conn, sent, serverVars, toServer>>
    BY <1>5 DEF Read
  <2>4. \/ ~Settles(last, id) /\ state' = [state EXCEPT !.serverSalt = salt]
           /\ UNCHANGED <<mutex, call, stale>>
        \/ /\ Settles(last, id) /\ Retries(last)
           /\ state' = [state EXCEPT !.serverSalt = salt,
                             !.timeOffset = adjustTimeOffset(id, last.code, now)]
           /\ stale' = IF last.req = id THEN stale
                       ELSE [stale EXCEPT ![call[c].body] = @ + 1]
           /\ IF MayRetry(c)
              THEN call' = [call EXCEPT ![c].pc = "send"] /\ UNCHANGED mutex
              ELSE Returned(c, last.kind, 0)
        \/ /\ Settles(last, id) /\ ~Retries(last)
           /\ state' = [state EXCEPT !.serverSalt = salt]
           /\ Returned(c, last.kind, IF last.kind = "result" THEN last.of ELSE 0)
           /\ UNCHANGED stale
    BY <1>5 DEF Read
  <2> HIDE DEF packet, id, n, last, salt
  <2>5. adjustTimeOffset(id, last.code, now) \in Int
    BY <1>t, <2>2, OffsetIsInt, InvokeAssumption
  <2>6. state' \in States
    BY <1>t, <2>1, <2>4, <2>5 DEF States
  <2>7. stale' \in [Bodies -> Nat]
    <3>1. stale' \in {stale, [stale EXCEPT ![call[c].body] = @ + 1]}
      BY <2>4
    <3>2. stale[call[c].body] + 1 \in Nat
      BY <1>s, <2>2
    <3> QED BY <1>s, <3>1, <3>2
  <2>8. Settles(last, id) => last.kind \in Outcomes
    BY DEF Settles, Outcomes
  <2>9. call' \in [Callers -> Calls] /\ mutex' \in Callers \cup {"none"} /\ Held'
    <3>1. CASE UNCHANGED <<mutex, call>>
      BY <1>t, <3>1 DEF Typed, Held
    <3>2. CASE MayRetry(c) /\ call' = [call EXCEPT ![c].pc = "send"] /\ UNCHANGED mutex
      <4>1. call' = [call EXCEPT ![c] = [call[c] EXCEPT !.pc = "send"]]
        BY <1>t, <3>2
      <4>2. [call[c] EXCEPT !.pc = "send"] \in Calls
        BY <2>2 DEF Calls
      <4>3. call' \in [Callers -> Calls] /\ call'[c] = [call[c] EXCEPT !.pc = "send"]
            /\ \A d \in Callers \ {c} : call'[d] = call[d]
        BY <1>t, <4>1, <4>2
      <4>4. call'[c].pc = "send" /\ call'[c].body = call[c].body
            /\ call'[c].attempt = call[c].attempt
        BY <2>2, <4>3 DEF Calls
      <4>5. Held'
        BY <2>2, <3>2, <4>3, <4>4 DEF Typed, Held, MayRetry
      <4> QED BY <1>t, <3>2, <4>3, <4>5
    <3>3. ASSUME NEW result \in 0..MaxCalls, Settles(last, id), Returned(c, last.kind, result)
          PROVE  call' \in [Callers -> Calls] /\ mutex' \in Callers \cup {"none"} /\ Held'
      BY <2>2, <2>8, <3>3, ReturnedTyped
    <3>4. 0 \in 0..MaxCalls /\ last.of \in 0..MaxCalls
      BY <2>1, InvokeAssumption DEF Messages
    <3> QED BY <2>4, <3>1, <3>2, <3>3, <3>4
  <2> QED BY <1>t, <1>s, <2>1, <2>3, <2>6, <2>7, <2>9 DEF Typed, ClientTyped, ServerTyped
<1>6. ASSUME NEW c \in Callers,
             ReadTimeout(c) \/ ReadTimeoutMidPacket(c) \/ ReadGarbage(c) \/ ReadClosed(c)
      PROVE  Typed'
  <2>1. PICK outcome \in {"netError", "parseError"} :
          call[c].pc \in {"send", "read"} /\ Returned(c, outcome, 0)
    BY <1>6 DEF ReadTimeout, ReadTimeoutMidPacket, ReadGarbage, ReadClosed
  <2>2. call' \in [Callers -> Calls] /\ mutex' \in Callers \cup {"none"} /\ Held'
    <3>1. outcome \in Outcomes /\ 0 \in 0..MaxCalls
      BY InvokeAssumption DEF Outcomes
    <3> QED BY <2>1, <3>1, ReturnedTyped
  <2>3. conn' \in [up : BOOLEAN, in : BOOLEAN, out : BOOLEAN]
    BY <1>6, <1>t DEF ReadTimeout, ReadTimeoutMidPacket, ReadGarbage, ReadClosed
  <2>4. toClient' \in Seq(Seq(Messages) \ {<<>>})
    <3>1. toClient # <<>> => Tail(toClient) \in Seq(Seq(Messages) \ {<<>>})
      BY <1>s, HeadTailProperties
    <3> QED BY <1>6, <1>s, <3>1 DEF ReadTimeout, ReadTimeoutMidPacket, ReadGarbage, ReadClosed
  <2>5. UNCHANGED <<state, calls, sent, stale, serverVars, toServer>>
    BY <1>6 DEF ReadTimeout, ReadTimeoutMidPacket, ReadGarbage, ReadClosed
  <2> QED BY <1>t, <1>s, <2>2, <2>3, <2>4, <2>5 DEF Typed, ClientTyped, ServerTyped
<1>7. CASE Close
  <2>1. conn' \in [up : BOOLEAN, in : BOOLEAN, out : BOOLEAN]
    BY <1>7, <1>t DEF Close
  <2>2. toServer' \in Seq(Packets) /\ toClient' \in Seq(Seq(Messages) \ {<<>>})
    BY <1>7, EmptySeq DEF Close
  <2> QED BY <1>7, <1>t, <1>s, <2>1, <2>2 DEF Close, Typed, ClientTyped, ServerTyped, Held
<1>8. CASE ServerStep
  <2> DEFINE packet == Head(toServer)
  <2>1. /\ packet \in Packets /\ toServer' \in Seq(Packets)
        /\ packet.msgID \in Int /\ packet.body \in Bodies /\ packet.body \in 0..MaxCalls
    <3>1. toServer # <<>> /\ toServer' = Tail(toServer)
      BY <1>8 DEF ServerStep, RejectSalt, RejectMessage, Execute
    <3>2. packet \in Packets /\ toServer' \in Seq(Packets)
      BY <1>s, <3>1, HeadTailProperties
    <3> QED BY <3>2 DEF Packets, Bodies
  <2>2. UNCHANGED <<clientVars, srvSalt, pushes>>
    BY <1>8 DEF ServerStep, RejectSalt, RejectMessage, Execute
  <2>3. /\ toClient' \in Seq(Seq(Messages) \ {<<>>})
        /\ executed' \in [Bodies -> Nat]
    <3> HIDE DEF packet
    <3>0. 0 \in 0..MaxCalls /\ 0 \in 0..MaxSalt
      BY InvokeAssumption
    <3>1. CASE RejectSalt
      <4>1. Message("badSalt", packet.msgID, 0, srvSalt, 48) \in Messages
        BY <1>s, <2>1, <3>0, MessageTyped DEF Kinds
      <4> QED BY <1>s, <3>1, <4>1, AnswersTyped, AppendProperties DEF RejectSalt, packet
    <3>2. ASSUME NEW code \in {16, 20, 32}, RejectMessage(code)
          PROVE  /\ toClient' \in Seq(Seq(Messages) \ {<<>>})
                 /\ executed' \in [Bodies -> Nat]
      <4>1. Message("badMsg", packet.msgID, 0, 0, code) \in Messages
        BY <2>1, <3>0, MessageTyped DEF Kinds
      <4> QED BY <1>s, <3>2, <4>1, AnswersTyped, AppendProperties DEF RejectMessage, packet
    <3>3. ASSUME NEW kind \in {"result", "rpcError"}, NEW container \in BOOLEAN,
                 Execute(kind, container)
          PROVE  /\ toClient' \in Seq(Seq(Messages) \ {<<>>})
                 /\ executed' \in [Bodies -> Nat]
      <4> DEFINE answer == Message(kind, packet.msgID, packet.body, 0, 0)
                 session == Message("newSession", 0, 0, srvSalt, 0)
      <4>1. answer \in Messages /\ session \in Messages
        BY <1>s, <2>1, <3>0, MessageTyped DEF Kinds
      <4>2. /\ executed' = [executed EXCEPT ![packet.body] = @ + 1]
            /\ toClient' \in {Append(toClient, <<session, answer>>), Append(toClient, <<answer>>)}
        BY <3>3 DEF Execute, packet
      <4> HIDE DEF answer, session
      <4>3. toClient' \in Seq(Seq(Messages) \ {<<>>})
        <5>1. /\ <<session, answer>> \in Seq(Messages) \ {<<>>}
              /\ <<answer>> \in Seq(Messages) \ {<<>>}
          BY <4>1, AnswersTyped
        <5>2. /\ Append(toClient, <<session, answer>>) \in Seq(Seq(Messages) \ {<<>>})
              /\ Append(toClient, <<answer>>) \in Seq(Seq(Messages) \ {<<>>})
          BY <1>s, <5>1, AppendProperties
        <5> QED BY <4>2, <5>2
      <4> QED BY <1>s, <2>1, <4>2, <4>3
    <3> QED BY <1>8, <3>1, <3>2, <3>3 DEF ServerStep
  <2> QED BY <1>t, <1>s, <2>1, <2>2, <2>3 DEF Typed, ClientTyped, ServerTyped, Held
<1>9. CASE RotateSalt
  <2>1. srvSalt' \in 0..MaxSalt
    BY <1>9, <1>s, InvokeAssumption DEF RotateSalt
  <2> QED BY <1>9, <1>t, <1>s, <2>1 DEF RotateSalt, Typed, ClientTyped, ServerTyped, Held
<1>10. ASSUME NEW kind \in {"ack", "newSession", "malformed"}, Push(kind) PROVE Typed'
  <2>1. Message(kind, 0, 0, srvSalt, 0) \in Messages
    BY <1>s, InvokeAssumption, MessageTyped DEF Kinds
  <2>2. toClient' \in Seq(Seq(Messages) \ {<<>>})
    BY <1>10, <1>s, <2>1, AnswersTyped, AppendProperties DEF Push
  <2>3. pushes' \in 0..MaxPushes
    BY <1>10, <1>s, InvokeAssumption DEF Push
  <2> QED BY <1>10, <1>t, <1>s, <2>2, <2>3 DEF Push, Typed, ClientTyped, ServerTyped, Held
<1>11. CASE UNCHANGED vars
  BY <1>11, <1>t, <1>s DEF vars, Typed, ClientTyped, ServerTyped, Held
<1> QED BY <1>1, <1>2, <1>3, <1>4, <1>5, <1>6, <1>7, <1>8, <1>9, <1>10, <1>11
       DEF Next, ClientStep

\* The types of the client, the connection and the server, and that a
\* goroutine is between Lock and Unlock exactly when it has the mutex.
THEOREM TypeCorrect == Spec => []TypeOK
<1>1. Typed => TypeOK
  BY DEF Typed, ClientTyped, ServerTyped, Held, TypeOK, States, Calls
<1> QED BY InitTyped, StepTyped, <1>1, PTL DEF Spec
-----------------------------------------------------------------------------
(***************************************************************************)
(* The order of what is written.                                           *)
(***************************************************************************)
Ordered ==
  /\ SentInOrder
  /\ NoInterleavedRequests
  /\ \A c \in Callers : call[c].pc = "read" => Len(sent) > 0
  /\ \A k \in 1..Len(sent) :
       sent[k].msgID <= state.lastMsgID /\ sent[k].seqNo < nextSeqNo

(***************************************************************************)
(* The streams as sets: everything written, what the server has still to   *)
(* read, and the messages the client has still to read.                    *)
(***************************************************************************)
Written == {sent[k] : k \in 1..Len(sent)}

Waiting == {toServer[k] : k \in 1..Len(toServer)}

Arriving == {a \in Messages :
               \E k \in 1..Len(toClient) : \E m \in 1..Len(toClient[k]) : a = toClient[k][m]}

Notifications == {"badSalt", "badMsg"}

\* The packets the server has still to read are in the order of their ids.
ServerInOrder ==
  \A k, l \in 1..Len(toServer) : k < l => toServer[k].msgID < toServer[l].msgID

\* An answer names the request it answers, and a result is of a request that
\* was run; the answers about one body come from packets written for it.
Answered ==
  /\ Waiting \subseteq Written
  /\ ServerInOrder
  /\ \A a \in Arriving : a.kind = "result" =>
       /\ a.of \in Bodies /\ executed[a.of] > 0
       /\ \E p \in Written : p.msgID = a.req /\ p.body = a.of
  /\ \A c \in Callers : call[c].outcome = "result" => call[c].body \in Bodies
  /\ OwnResult

\* Packets of a body that the server may still run.
Pending(b) == {p.msgID : p \in {q \in Waiting : q.body = b}}

\* What has been run of a body, and may still be.
Runs(b) == executed[b] + Cardinality(Pending(b))

\* A call that is about to send may have one run less than a call that has.
Unsent(b) == \E c \in Callers : call[c].body = b /\ call[c].pc \in {"lock", "send"}

\* Bodies belong to one call each, and are numbered as calls are made.
BodiesOwned ==
  /\ \A c, d \in Callers : c # d /\ call[c].body = call[d].body => call[c].body = 0
  /\ \A c \in Callers : call[c].body <= calls
  /\ \A p \in Written : p.body <= calls
  /\ \A b \in Bodies : b > calls => executed[b] = 0

WithinBudget ==
  \A b \in Bodies :
    /\ IsFiniteSet(Pending(b))
    /\ Runs(b) <= 1 + stale[b]
    /\ Unsent(b) => Runs(b) <= stale[b]

\* A refusal of the very packet a goroutine waits for: that packet is gone and
\* was not run.
RefusedUnrun ==
  /\ \A a \in Arriving : a.kind \in Notifications => a.req <= state.lastMsgID
  /\ \A a \in Arriving : \A c \in Callers :
       a.kind \in Notifications /\ call[c].pc = "read" /\ a.req = call[c].msgID =>
         Runs(call[c].body) <= stale[call[c].body]

Budgeted == BodiesOwned /\ WithinBudget /\ RefusedUnrun
-----------------------------------------------------------------------------
(***************************************************************************)
(* What each step of a goroutine does, in the terms of the layers above.   *)
(***************************************************************************)
Others(c) == \A d \in Callers \ {c} : call'[d] = call[d]

\* A call is made, or gets the mutex: nothing is written or read.
LEMMA BeginDoes ==
  ASSUME Typed, NEW c \in Callers, Begin(c)
  PROVE  /\ call'[c].pc = "lock" /\ call'[c].body = calls + 1 /\ call'[c].outcome = "none"
         /\ calls' = calls + 1 /\ calls + 1 \in Bodies /\ call[c].pc = "idle" /\ Others(c)
         /\ UNCHANGED <<state, mutex, conn, sent, stale, serverVars, toServer, toClient>>
<1>1. call \in [Callers -> Calls] /\ calls \in 0..MaxCalls
  BY DEF Typed, ClientTyped
<1>2. call' = [call EXCEPT ![c] = [NoCall EXCEPT !.pc = "lock", !.body = calls + 1]]
  BY DEF Begin
<1>3. call'[c] = [NoCall EXCEPT !.pc = "lock", !.body = calls + 1] /\ Others(c)
  BY <1>1, <1>2 DEF Others
<1>4. call'[c].pc = "lock" /\ call'[c].body = calls + 1 /\ call'[c].outcome = "none"
  BY <1>3, NoCallTyped DEF Calls
<1>5. calls + 1 \in Bodies
  BY <1>1, InvokeAssumption DEF Begin, Bodies
<1> QED BY <1>3, <1>4, <1>5 DEF Begin

LEMMA LockDoes ==
  ASSUME Typed, NEW c \in Callers, Lock(c)
  PROVE  /\ call'[c].pc = "send" /\ call'[c].body = call[c].body
         /\ call'[c].outcome = call[c].outcome /\ call'[c].result = call[c].result
         /\ call[c].pc = "lock" /\ Others(c)
         /\ UNCHANGED <<state, calls, conn, sent, stale, serverVars, toServer, toClient>>
<1>1. call \in [Callers -> Calls] /\ call[c] \in Calls
  BY DEF Typed, ClientTyped
<1>2. call' = [call EXCEPT ![c] = [call[c] EXCEPT !.pc = "send"]]
  BY <1>1 DEF Lock
<1>3. call'[c] = [call[c] EXCEPT !.pc = "send"] /\ Others(c)
  BY <1>1, <1>2 DEF Others
<1> QED BY <1>1, <1>3 DEF Lock, Calls

\* A packet is written under an id above every earlier one, while no other
\* goroutine is between Lock and Unlock.
LEMMA SendDoes ==
  ASSUME Typed, NEW c \in Callers, NEW now \in 0..MaxClock, Send(c, now)
  PROVE  \E packet \in Packets :
           /\ sent' = Append(sent, packet)
           /\ toServer' \in {toServer, Append(toServer, packet)}
           /\ packet.msgID > state.lastMsgID /\ state'.lastMsgID = packet.msgID
           /\ packet.seqNo = nextSeqNo /\ state'.seq = state.seq + 1
           /\ packet.body = call[c].body /\ call[c].body \in Bodies /\ call[c].pc = "send"
           /\ call'[c].pc = "read" /\ call'[c].msgID = packet.msgID
           /\ call'[c].body = call[c].body
           /\ call'[c].outcome = call[c].outcome /\ call'[c].result = call[c].result
           /\ Others(c)
           /\ \A d \in Callers \ {c} : call[d].pc \notin {"send", "read"}
           /\ UNCHANGED <<mutex, calls, conn, stale, serverVars, toClient>>
<1> DEFINE msgID == nextMsgID(now)
           packet == buildEncryptedPacket(msgID, nextSeqNo, call[c].body)
           after == [call[c] EXCEPT !.pc = "read", !.msgID = msgID, !.attempt = @ + 1]
<1>1. /\ state \in States /\ call \in [Callers -> Calls] /\ call[c] \in Calls
      /\ call[c].pc = "send" /\ call[c].body \in Bodies /\ mutex = c
  BY DEF Send, Typed, ClientTyped, Held
<1>2. msgID \in Int /\ msgID > state.lastMsgID
  BY <1>1, NextMsgIDGrows, InvokeAssumption
<1>3. /\ packet \in Packets /\ packet.msgID = msgID /\ packet.seqNo = nextSeqNo
      /\ packet.body = call[c].body
  <2>1. nextSeqNo \in Int /\ state.serverSalt \in 0..MaxSalt
    BY <1>1 DEF nextSeqNo, States
  <2> QED BY <1>1, <1>2, <2>1 DEF buildEncryptedPacket, Packets
<1>4. /\ state' = [state EXCEPT !.lastMsgID = msgID, !.seq = @ + 1]
      /\ sent' = Append(sent, packet) /\ toServer' \in {toServer, Append(toServer, packet)}
      /\ call' = [call EXCEPT ![c] = after]
      /\ UNCHANGED <<mutex, calls, conn, stale, serverVars, toClient>>
  BY <1>1 DEF Send
<1>5. /\ after.pc = "read" /\ after.msgID = msgID /\ after.body = call[c].body
      /\ after.outcome = call[c].outcome /\ after.result = call[c].result
  BY <1>1 DEF Calls
<1> HIDE DEF msgID, packet, after
<1>6. state'.lastMsgID = msgID /\ state'.seq = state.seq + 1
  BY <1>1, <1>4 DEF States
<1>7. call'[c] = after /\ Others(c)
  BY <1>1, <1>4 DEF Others
<1>8. \A d \in Callers \ {c} : call[d].pc \notin {"send", "read"}
  BY <1>1 DEF Typed, Held
<1>9. packet.msgID > state.lastMsgID /\ state'.lastMsgID = packet.msgID
  BY <1>2, <1>3, <1>6
<1> QED BY <1>1, <1>3, <1>4, <1>5, <1>6, <1>7, <1>8, <1>9

Quits(c) ==
  \/ \E now \in 0..MaxClock : SendFails(c, now)
  \/ ReadTimeout(c) \/ ReadTimeoutMidPacket(c) \/ ReadGarbage(c) \/ ReadClosed(c)

\* A call that ends without an answer writes no packet.
LEMMA QuitsDoes ==
  ASSUME Typed, NEW c \in Callers, Quits(c)
  PROVE  /\ call[c].pc \in {"send", "read"} /\ call'[c].pc = "idle"
         /\ call'[c].body = call[c].body /\ call'[c].outcome # "result" /\ Others(c)
         /\ toClient' = toClient \/ (toClient # <<>> /\ toClient' = Tail(toClient))
         /\ state'.lastMsgID >= state.lastMsgID /\ state'.seq >= state.seq
         /\ UNCHANGED <<calls, sent, stale, serverVars, toServer>>
<1>1. state \in States
  BY DEF Typed, ClientTyped
<1>2. PICK outcome \in {"netError", "parseError"} :
        call[c].pc \in {"send", "read"} /\ Returned(c, outcome, 0)
  BY DEF Quits, SendFails, ReadTimeout, ReadTimeoutMidPacket, ReadGarbage, ReadClosed
<1>3. /\ call'[c].pc = "idle" /\ call'[c].body = call[c].body /\ call'[c].outcome = outcome
      /\ Others(c)
  <2>1. outcome \in Outcomes /\ 0 \in 0..MaxCalls
    BY InvokeAssumption DEF Outcomes
  <2> QED BY <1>2, <2>1, ReturnedTyped DEF Others
<1>4. /\ toClient' = toClient \/ (toClient # <<>> /\ toClient' = Tail(toClient))
      /\ UNCHANGED <<calls, sent, stale, serverVars, toServer>>
  BY DEF Quits, SendFails, ReadTimeout, ReadTimeoutMidPacket, ReadGarbage, ReadClosed
<1>5. state'.lastMsgID >= state.lastMsgID /\ state'.seq >= state.seq
  <2>1. CASE UNCHANGED state
    BY <1>1, <2>1 DEF States
  <2>2. ASSUME NEW now \in 0..MaxClock, SendFails(c, now)
        PROVE  state'.lastMsgID >= state.lastMsgID /\ state'.seq >= state.seq
    <3>1. nextMsgID(now) \in Int /\ nextMsgID(now) > state.lastMsgID
      BY <1>1, NextMsgIDGrows, InvokeAssumption
    <3>2. state' = [state EXCEPT !.lastMsgID = nextMsgID(now), !.seq = state.seq + 1]
      BY <2>2 DEF SendFails
    <3>3. state'.lastMsgID = nextMsgID(now) /\ state'.seq = state.seq + 1
      BY <1>1, <3>2 DEF States
    <3>4. state.lastMsgID \in Int /\ state.seq \in Nat
      BY <1>1 DEF States
    <3> QED BY <3>1, <3>3, <3>4
  <2> QED BY <2>1, <2>2 DEF Quits, ReadTimeout, ReadTimeoutMidPacket, ReadGarbage, ReadClosed
<1> QED BY <1>2, <1>3, <1>4, <1>5

\* A packet is read: the message that settles the call, if one does, comes
\* from the stream; the call goes on reading, is sent again, or returns.
LEMMA ReadDoes ==
  ASSUME Typed, NEW c \in Callers, NEW now \in 0..MaxClock, Read(c, now)
  PROVE  \E last \in Arriving :
           /\ toClient # <<>> /\ toClient' = Tail(toClient)
           /\ call[c].pc = "read" /\ call[c].body \in Bodies
           /\ call'[c].body = call[c].body /\ Others(c)
           /\ state'.lastMsgID = state.lastMsgID /\ state'.seq = state.seq
           /\ UNCHANGED <<calls, conn, sent, serverVars, toServer>>
           /\ \/ UNCHANGED <<call, stale>>
              \/ /\ last.kind \in Notifications
                 /\ call'[c].pc = "send" /\ call'[c].outcome = call[c].outcome
                 /\ call'[c].result = call[c].result
                 /\ stale' = IF last.req = call[c].msgID THEN stale
                             ELSE [stale EXCEPT ![call[c].body] = @ + 1]
              \/ /\ call'[c].pc = "idle" /\ call'[c].outcome = last.kind
                 /\ last.kind = "result" =>
                      last.req = call[c].msgID /\ call'[c].result = last.of
                 /\ stale' \in {stale, [stale EXCEPT ![call[c].body] = @ + 1]}
<1> DEFINE packet == Head(toClient)
           id     == call[c].msgID
           n      == Handled(packet, id)
           last   == packet[n]
           salt   == InstalledSalt(packet, n, state.serverSalt)
<1>1. /\ toClient # <<>> /\ toClient' = Tail(toClient) /\ call[c].pc = "read"
      /\ UNCHANGED <<calls, conn, sent, serverVars, toServer>>
  BY DEF Read
<1>2. /\ state \in States /\ call \in [Callers -> Calls] /\ call[c] \in Calls
      /\ call[c].body \in Bodies
  BY <1>1 DEF Typed, ClientTyped, Held
<1>3. packet \in Seq(Messages) \ {<<>>} /\ n \in 1..Len(packet) /\ last \in Messages
  BY <1>1, ReadTyped
<1>4. last \in Arriving
  <2>1. packet = toClient[1] /\ 1 \in 1..Len(toClient)
    <3>1. toClient \in Seq(Seq(Messages) \ {<<>>})
      BY DEF Typed, ServerTyped
    <3>2. Len(toClient) \in Nat \ {0}
      BY <1>1, <3>1, EmptySeq
    <3> QED BY <1>1, <3>1, <3>2
  <2> QED BY <1>3, <2>1 DEF Arriving
<1>5. \/ /\ state' = [state EXCEPT !.serverSalt = salt]
         /\ UNCHANGED <<mutex, call, stale>>
      \/ /\ Settles(last, id) /\ Retries(last)
         /\ state' = [state EXCEPT !.serverSalt = salt,
                           !.timeOffset = adjustTimeOffset(id, last.code, now)]
         /\ stale' = IF last.req = id THEN stale
                     ELSE [stale EXCEPT ![call[c].body] = @ + 1]
         /\ IF MayRetry(c)
            THEN call' = [call EXCEPT ![c].pc = "send"] /\ UNCHANGED mutex
            ELSE Returned(c, last.kind, 0)
      \/ /\ Settles(last, id) /\ ~Retries(last)
         /\ state' = [state EXCEPT !.serverSalt = salt]
         /\ Returned(c, last.kind, IF last.kind = "result" THEN last.of ELSE 0)
         /\ UNCHANGED stale
  BY DEF Read
<1> HIDE DEF packet, n, last, salt
<1>6. state'.lastMsgID = state.lastMsgID /\ state'.seq = state.seq
  BY <1>2, <1>5 DEF States
<1>7. Settles(last, id) => /\ last.kind \in Outcomes
                           /\ last.kind = "result" => last.req = id
  BY DEF Settles, Outcomes
<1>8. Retries(last) => last.kind \in Notifications
  BY DEF Retries, Notifications
<1>9. 0 \in 0..MaxCalls /\ last.of \in 0..MaxCalls
  BY <1>3, InvokeAssumption DEF Messages
<1> DEFINE Goal ==
           /\ call'[c].body = call[c].body /\ Others(c)
           /\ \/ UNCHANGED <<call, stale>>
              \/ /\ last.kind \in Notifications
                 /\ call'[c].pc = "send" /\ call'[c].outcome = call[c].outcome
                 /\ call'[c].result = call[c].result
                 /\ stale' = IF last.req = call[c].msgID THEN stale
                             ELSE [stale EXCEPT ![call[c].body] = @ + 1]
              \/ /\ call'[c].pc = "idle" /\ call'[c].outcome = last.kind
                 /\ last.kind = "result" =>
                      last.req = call[c].msgID /\ call'[c].result = last.of
                 /\ stale' \in {stale, [stale EXCEPT ![call[c].body] = @ + 1]}
<1>10. ASSUME UNCHANGED <<call, stale>> PROVE Goal
  BY <1>10 DEF Others
<1>11. ASSUME Retries(last), call' = [call EXCEPT ![c].pc = "send"],
              stale' = IF last.req = id THEN stale
                       ELSE [stale EXCEPT ![call[c].body] = @ + 1]
       PROVE  Goal
  <2>1. call' = [call EXCEPT ![c] = [call[c] EXCEPT !.pc = "send"]]
    BY <1>2, <1>11
  <2>2. call'[c] = [call[c] EXCEPT !.pc = "send"] /\ Others(c)
    BY <1>2, <2>1 DEF Others
  <2>3. /\ call'[c].pc = "send" /\ call'[c].outcome = call[c].outcome
        /\ call'[c].result = call[c].result /\ call'[c].body = call[c].body
    BY <1>2, <2>2 DEF Calls
  <2> QED BY <1>8, <1>11, <2>2, <2>3
<1>12. ASSUME NEW result \in 0..MaxCalls, Settles(last, id), Returned(c, last.kind, result),
              stale' \in {stale, [stale EXCEPT ![call[c].body] = @ + 1]},
              last.kind = "result" => result = last.of
       PROVE  Goal
  <2>1. /\ call'[c].pc = "idle" /\ call'[c].body = call[c].body
        /\ call'[c].outcome = last.kind /\ call'[c].result = result /\ Others(c)
    BY <1>1, <1>7, <1>12, ReturnedTyped DEF Others
  <2> QED BY <1>7, <1>12, <2>1
<1>13. Goal
  <2>1. CASE UNCHANGED <<mutex, call, stale>>
    BY <2>1, <1>10
  <2>2. CASE /\ Settles(last, id) /\ Retries(last)
             /\ stale' = IF last.req = id THEN stale
                         ELSE [stale EXCEPT ![call[c].body] = @ + 1]
             /\ IF MayRetry(c)
                THEN call' = [call EXCEPT ![c].pc = "send"] /\ UNCHANGED mutex
                ELSE Returned(c, last.kind, 0)
    <3>1. CASE call' = [call EXCEPT ![c].pc = "send"]
      BY <1>11, <2>2, <3>1
    <3>2. CASE Returned(c, last.kind, 0)
      <4>1. last.kind # "result"
        BY <1>8, <2>2 DEF Notifications
      <4>2. stale' \in {stale, [stale EXCEPT ![call[c].body] = @ + 1]}
        BY <2>2
      <4> QED BY <1>9, <1>12, <2>2, <3>2, <4>1, <4>2
    <3> QED BY <2>2, <3>1, <3>2
  <2>3. CASE /\ Settles(last, id) /\ ~Retries(last)
             /\ Returned(c, last.kind, IF last.kind = "result" THEN last.of ELSE 0)
             /\ UNCHANGED stale
    <3> DEFINE result == IF last.kind = "result" THEN last.of ELSE 0
    <3>1. result \in 0..MaxCalls /\ (last.kind = "result" => result = last.of)
      BY <1>9
    <3>2. Returned(c, last.kind, result)
      BY <2>3
    <3> HIDE DEF result
    <3> QED BY <1>12, <2>3, <3>1, <3>2
  <2> HIDE DEF Goal
  <2> QED BY <1>5, <2>1, <2>2, <2>3
<1> QED BY <1>1, <1>2, <1>4, <1>6, <1>13

\* The steps of the environment, which leave the client alone.
Environment ==
  \/ Close \/ ServerStep \/ RotateSalt
  \/ \E kind \in {"ack", "newSession", "malformed"} : Push(kind)

LEMMA EnvironmentDoes ==
  ASSUME Environment
  PROVE  UNCHANGED <<state, call, calls, sent, stale>>
BY DEF Environment, Close, ServerStep, RejectSalt, RejectMessage, Execute, RotateSalt, Push,
   clientVars

\* The steps, grouped.
LEMMA NextCases ==
  ASSUME [Next]_vars
  PROVE  \/ \E c \in Callers : Begin(c) \/ Lock(c) \/ Quits(c)
         \/ \E c \in Callers, now \in 0..MaxClock : Send(c, now) \/ Read(c, now)
         \/ Environment
         \/ UNCHANGED vars
BY DEF Next, ClientStep, Quits, Environment

-----------------------------------------------------------------------------
(***************************************************************************)
(* Layer two: order.                                                       *)
(***************************************************************************)
LEMMA InitOrdered == Init => Ordered
<1> SUFFICES ASSUME Init PROVE Ordered
  OBVIOUS
<1>1. \A c \in Callers : call[c].pc = "idle"
  BY NoCallTyped DEF Init
<1>2. Len(sent) = 0
  BY EmptySeq DEF Init
<1> QED BY <1>1, <1>2 DEF Ordered, SentInOrder, NoInterleavedRequests

\* A step that writes nothing keeps the order.
LEMMA OrderKept ==
  ASSUME Typed, Typed', Ordered, sent' = sent,
         state'.lastMsgID >= state.lastMsgID, state'.seq >= state.seq,
         \A c \in Callers : call'[c].pc = "read" =>
           /\ call[c].pc = "read" /\ call'[c].msgID = call[c].msgID
           /\ call'[c].body = call[c].body
  PROVE  Ordered'
<1>1. sent \in Seq(Packets) /\ state \in States /\ state' \in States
  BY DEF Typed, ClientTyped, ServerTyped
<1>2. SentInOrder' /\ NoInterleavedRequests'
  BY DEF Ordered, SentInOrder, NoInterleavedRequests
<1>3. \A c \in Callers : call'[c].pc = "read" => Len(sent') > 0
  BY DEF Ordered
<1>4. ASSUME NEW k \in 1..Len(sent)
      PROVE  sent[k].msgID <= state'.lastMsgID /\ sent[k].seqNo < 2 * state'.seq + 1
  <2>1. /\ sent[k].msgID <= state.lastMsgID /\ sent[k].seqNo < 2 * state.seq + 1
    BY <1>4 DEF Ordered, nextSeqNo
  <2>2. sent[k].msgID \in Int /\ sent[k].seqNo \in Int
    <3>1. sent[k] \in Packets
      BY <1>1, <1>4, ElementOfSeq
    <3> QED BY <3>1 DEF Packets
  <2>3. /\ state.lastMsgID \in Int /\ state.seq \in Nat
        /\ state'.lastMsgID \in Int /\ state'.seq \in Nat
    BY <1>1 DEF States
  <2> QED BY <2>1, <2>2, <2>3
<1> QED BY <1>2, <1>3, <1>4 DEF Ordered, nextSeqNo

\* Every step keeps what is written in order, and the last packet that of the
\* goroutine that waits for its answer.
LEMMA StepOrdered == Typed /\ Typed' /\ Ordered /\ [Next]_vars => Ordered'
<1> SUFFICES ASSUME Typed, Typed', Ordered, [Next]_vars PROVE Ordered'
  OBVIOUS
<1>t. /\ sent \in Seq(Packets) /\ sent' \in Seq(Packets)
      /\ state \in States /\ state' \in States
      /\ state.lastMsgID \in Int /\ state.seq \in Nat
  BY DEF Typed, ClientTyped, ServerTyped, States
<1>1. ASSUME NEW c \in Callers, Begin(c) \/ Lock(c) \/ Quits(c) PROVE Ordered'
  <2>1. /\ sent' = sent /\ call'[c].pc # "read" /\ Others(c)
        /\ state'.lastMsgID >= state.lastMsgID /\ state'.seq >= state.seq
    BY <1>1, <1>t, BeginDoes, LockDoes, QuitsDoes
  <2> QED BY <2>1, OrderKept DEF Others
<1>2. ASSUME NEW c \in Callers, NEW now \in 0..MaxClock, Read(c, now) PROVE Ordered'
  <2>1. /\ sent' = sent /\ Others(c) /\ (call'[c].pc # "read" \/ call' = call)
        /\ state'.lastMsgID = state.lastMsgID /\ state'.seq = state.seq
    BY <1>2, ReadDoes
  <2>2. state'.lastMsgID >= state.lastMsgID /\ state'.seq >= state.seq
    BY <1>t, <2>1
  <2> QED BY <2>1, <2>2, OrderKept DEF Others
<1>3. ASSUME NEW c \in Callers, NEW now \in 0..MaxClock, Send(c, now) PROVE Ordered'
  <2>1. PICK packet \in Packets :
          /\ sent' = Append(sent, packet)
          /\ packet.msgID > state.lastMsgID /\ state'.lastMsgID = packet.msgID
          /\ packet.seqNo = nextSeqNo /\ state'.seq = state.seq + 1
          /\ packet.body = call[c].body
          /\ call'[c].pc = "read" /\ call'[c].msgID = packet.msgID
          /\ call'[c].body = call[c].body
          /\ Others(c)
          /\ \A d \in Callers \ {c} : call[d].pc \notin {"send", "read"}
    BY <1>3, SendDoes
  <2> DEFINE n == Len(sent)
  <2>2. /\ n \in Nat /\ Len(sent') = n + 1 /\ sent'[n + 1] = packet
        /\ \A k \in 1..n : sent'[k] = sent[k]
    BY <1>t, <2>1, AppendProperties
  <2>3. packet.msgID \in Int /\ packet.seqNo \in Int
    BY <2>1 DEF Packets
  <2>4. \A k \in 1..n : /\ sent[k].msgID \in Int /\ sent[k].seqNo \in Int
                        /\ sent[k].msgID <= state.lastMsgID /\ sent[k].seqNo < nextSeqNo
    <3>1. \A k \in 1..n : sent[k] \in Packets
      BY <1>t, ElementOfSeq
    <3> QED BY <3>1 DEF Ordered, Packets
  <2>5. \A k \in 1..n : sent[k].msgID < packet.msgID /\ sent[k].seqNo < packet.seqNo
    BY <1>t, <2>1, <2>3, <2>4
  <2> HIDE DEF n
  <2>6. SentInOrder'
    <3> SUFFICES ASSUME NEW k \in 1..(n + 1), NEW l \in 1..(n + 1), k < l
                 PROVE  sent'[k].msgID < sent'[l].msgID /\ sent'[k].seqNo < sent'[l].seqNo
      BY <2>2 DEF SentInOrder
    <3>1. k \in 1..n
      BY <2>2
    <3>2. CASE l = n + 1
      BY <2>2, <2>5, <3>1, <3>2
    <3>3. CASE l # n + 1
      <4>1. l \in 1..n
        BY <2>2, <3>3
      <4> QED BY <2>2, <3>1, <4>1 DEF Ordered, SentInOrder, n
    <3> QED BY <3>2, <3>3
  <2>7. NoInterleavedRequests' /\ \A d \in Callers : call'[d].pc = "read" => Len(sent') > 0
    BY <2>1, <2>2 DEF NoInterleavedRequests, Others
  <2>8. \A k \in 1..(n + 1) : sent'[k].msgID <= state'.lastMsgID
                              /\ sent'[k].seqNo < 2 * state'.seq + 1
    <3> SUFFICES ASSUME NEW k \in 1..(n + 1)
                 PROVE  sent'[k].msgID <= packet.msgID
                        /\ sent'[k].seqNo < 2 * (state.seq + 1) + 1
      BY <2>1
    <3>1. packet.seqNo = 2 * state.seq + 1
      BY <2>1 DEF nextSeqNo
    <3>2. CASE k = n + 1
      BY <1>t, <2>2, <2>3, <3>1, <3>2
    <3>3. CASE k # n + 1
      <4>1. k \in 1..n /\ sent'[k] = sent[k]
        BY <2>2, <3>3
      <4>2. /\ sent[k].msgID \in Int /\ sent[k].seqNo \in Int
            /\ sent[k].msgID < packet.msgID /\ sent[k].seqNo < packet.seqNo
        BY <2>4, <2>5, <4>1
      <4> QED BY <1>t, <2>3, <3>1, <4>1, <4>2
    <3> QED BY <3>2, <3>3
  <2> QED BY <2>2, <2>6, <2>7, <2>8 DEF Ordered, nextSeqNo
<1>4. CASE Environment \/ UNCHANGED vars
  <2>1. UNCHANGED <<state, call, sent>>
    BY <1>4, EnvironmentDoes DEF vars, clientVars
  <2>2. state'.lastMsgID >= state.lastMsgID /\ state'.seq >= state.seq
    BY <1>t, <2>1
  <2> QED BY <2>1, <2>2, OrderKept
<1> QED BY <1>1, <1>2, <1>3, <1>4, NextCases

\* Message ids and sequence numbers grow from packet to packet, over all
\* goroutines and retries and whatever the wall clock does (nextMsgID,
\* nextSeqNo).
THEOREM IdsGrow == Spec => []SentInOrder
<1>1. Ordered => SentInOrder
  BY DEF Ordered
<1> QED BY InitTyped, StepTyped, InitOrdered, StepOrdered, <1>1, PTL DEF Spec

\* While a goroutine waits for an answer the last packet written is its own:
\* nothing is written between its request and its answer.
THEOREM RequestsNotInterleaved == Spec => []NoInterleavedRequests
<1>1. Ordered => NoInterleavedRequests
  BY DEF Ordered
<1> QED BY InitTyped, StepTyped, InitOrdered, StepOrdered, <1>1, PTL DEF Spec
-----------------------------------------------------------------------------
(***************************************************************************)
(* Layer three: answers.  First what the steps do to the streams.          *)
(***************************************************************************)
\* What is written once stays written, and is what is appended.
LEMMA WrittenGrows ==
  ASSUME Typed, NEW packet \in Packets, sent' = Append(sent, packet)
  PROVE  Written' = Written \cup {packet}
<1>1. sent \in Seq(Packets)
  BY DEF Typed, ServerTyped
<1>2. /\ Len(sent) \in Nat /\ Len(sent') = Len(sent) + 1 /\ sent'[Len(sent) + 1] = packet
      /\ \A k \in 1..Len(sent) : sent'[k] = sent[k]
  BY <1>1, AppendProperties
<1>3. 1..(Len(sent) + 1) = 1..Len(sent) \cup {Len(sent) + 1}
  BY <1>2
<1> QED BY <1>2, <1>3 DEF Written

\* A message id belongs to one packet.
LEMMA OneID ==
  ASSUME Typed, SentInOrder, NEW p \in Written, NEW q \in Written, p.msgID = q.msgID
  PROVE  p = q
<1>1. sent \in Seq(Packets)
  BY DEF Typed, ServerTyped
<1>2. PICK k \in 1..Len(sent), l \in 1..Len(sent) : p = sent[k] /\ q = sent[l]
  BY DEF Written
<1>3. sent[k].msgID \in Int /\ sent[l].msgID \in Int
  <2>1. sent[k] \in Packets /\ sent[l] \in Packets
    BY <1>1, <1>2, ElementOfSeq
  <2> QED BY <2>1 DEF Packets
<1>4. ~(k < l) /\ ~(l < k)
  BY <1>2, <1>3 DEF SentInOrder
<1>5. k = l
  BY <1>2, <1>4
<1> QED BY <1>2, <1>5

\* The server takes the oldest packet, and that one only.
LEMMA WaitingServed ==
  ASSUME Typed, ServerInOrder, toServer # <<>>, toServer' = Tail(toServer)
  PROVE  /\ Head(toServer) \in Waiting /\ Waiting' = Waiting \ {Head(toServer)}
         /\ ServerInOrder'
<1> DEFINE n == Len(toServer)
<1>1. toServer \in Seq(Packets)
  BY DEF Typed, ServerTyped
<1>2. n \in Nat \ {0}
  BY <1>1, EmptySeq
<1>3. /\ Head(toServer) = toServer[1] /\ Len(toServer') = n - 1
      /\ \A k \in 1..Len(toServer') : toServer'[k] = toServer[k + 1]
  BY <1>1, <1>2, HeadTailProperties
<1>4. \A k \in 1..n : toServer[k].msgID \in Int
  <2>1. \A k \in 1..n : toServer[k] \in Packets
    BY <1>1, ElementOfSeq
  <2> QED BY <2>1 DEF Packets
<1>5. \A k \in 2..n : toServer[k] # toServer[1]
  <2> SUFFICES ASSUME NEW k \in 2..n PROVE toServer[k] # toServer[1]
    OBVIOUS
  <2>1. 1 \in 1..n /\ k \in 1..n /\ 1 < k
    BY <1>2
  <2>2. toServer[1].msgID < toServer[k].msgID
    BY <2>1 DEF ServerInOrder
  <2> QED BY <1>4, <2>1, <2>2
<1> HIDE DEF n
<1>6. Waiting = {toServer[k] : k \in 1..n}
  BY DEF Waiting, n
<1>7. Waiting' = {toServer[k] : k \in 2..n}
  <2>1. Waiting' = {toServer'[k] : k \in 1..(n - 1)}
    BY <1>3 DEF Waiting
  <2>2. \A k \in 1..(n - 1) : k + 1 \in 2..n /\ toServer'[k] = toServer[k + 1]
    BY <1>2, <1>3
  <2>3. \A k \in 2..n : k - 1 \in 1..(n - 1) /\ toServer[k] = toServer'[k - 1]
    <3> SUFFICES ASSUME NEW k \in 2..n
                 PROVE  k - 1 \in 1..(n - 1) /\ toServer[k] = toServer'[k - 1]
      OBVIOUS
    <3>1. k - 1 \in 1..(n - 1) /\ (k - 1) + 1 = k
      BY <1>2
    <3> QED BY <2>2, <3>1
  <2>4. Waiting' \subseteq {toServer[k] : k \in 2..n}
    BY <2>1, <2>2
  <2>5. {toServer[k] : k \in 2..n} \subseteq Waiting'
    BY <2>1, <2>3
  <2> QED BY <2>4, <2>5
<1>8. 1..n = {1} \cup 2..n
  BY <1>2
<1>9. ServerInOrder'
  <2> SUFFICES ASSUME NEW k \in 1..(n - 1), NEW l \in 1..(n - 1), k < l
               PROVE  toServer'[k].msgID < toServer'[l].msgID
    BY <1>3 DEF ServerInOrder
  <2>1. k + 1 \in 1..n /\ l + 1 \in 1..n /\ k + 1 < l + 1
    BY <1>2
  <2> QED BY <1>3, <2>1 DEF ServerInOrder, n
<1> QED BY <1>3, <1>5, <1>6, <1>7, <1>8, <1>9

\* A packet whose id is above all others is put behind them.
LEMMA WaitingAppended ==
  ASSUME Typed, ServerInOrder, NEW packet \in Packets,
         \A p \in Waiting : p.msgID < packet.msgID,
         toServer' = Append(toServer, packet)
  PROVE  Waiting' = Waiting \cup {packet} /\ ServerInOrder'
<1> DEFINE n == Len(toServer)
<1>1. toServer \in Seq(Packets)
  BY DEF Typed, ServerTyped
<1>2. /\ n \in Nat /\ Len(toServer') = n + 1 /\ toServer'[n + 1] = packet
      /\ \A k \in 1..n : toServer'[k] = toServer[k]
  BY <1>1, AppendProperties
<1>3. 1..(n + 1) = 1..n \cup {n + 1}
  BY <1>2
<1>4. Waiting' = Waiting \cup {packet}
  BY <1>2, <1>3 DEF Waiting
<1>5. \A k \in 1..n : toServer[k].msgID < packet.msgID
  BY DEF Waiting
<1> HIDE DEF n
<1>6. ServerInOrder'
  <2> SUFFICES ASSUME NEW k \in 1..(n + 1), NEW l \in 1..(n + 1), k < l
               PROVE  toServer'[k].msgID < toServer'[l].msgID
    BY <1>2 DEF ServerInOrder
  <2>1. k \in 1..n
    BY <1>2
  <2>2. CASE l = n + 1
    BY <1>2, <1>5, <2>1, <2>2
  <2>3. CASE l # n + 1
    <3>1. l \in 1..n
      BY <1>2, <2>3
    <3> QED BY <1>2, <2>1, <3>1 DEF ServerInOrder, n
  <2> QED BY <2>2, <2>3
<1> QED BY <1>4, <1>6

\* Reading takes messages from the stream and brings none.
LEMMA ArrivingRead ==
  ASSUME Typed, toClient' = toClient \/ (toClient # <<>> /\ toClient' = Tail(toClient))
  PROVE  Arriving' \subseteq Arriving
<1>1. CASE toClient' = toClient
  BY <1>1 DEF Arriving
<1>2. CASE toClient # <<>> /\ toClient' = Tail(toClient)
  <2>1. toClient \in Seq(Seq(Messages) \ {<<>>})
    BY DEF Typed, ServerTyped
  <2>2. /\ Len(toClient') = Len(toClient) - 1 /\ Len(toClient) \in Nat
        /\ \A k \in 1..Len(toClient') : toClient'[k] = toClient[k + 1]
    BY <1>2, <2>1, HeadTailProperties
  <2>3. \A k \in 1..Len(toClient') : k + 1 \in 1..Len(toClient)
    BY <2>2
  <2> QED BY <2>2, <2>3 DEF Arriving
<1> QED BY <1>1, <1>2

\* An answer adds its own messages.
LEMMA ArrivingAppended ==
  ASSUME Typed, NEW packet \in Seq(Messages) \ {<<>>}, toClient' = Append(toClient, packet)
  PROVE  \A a \in Arriving' : a \in Arriving \/ \E m \in 1..Len(packet) : a = packet[m]
<1>1. toClient \in Seq(Seq(Messages) \ {<<>>})
  BY DEF Typed, ServerTyped
<1>2. /\ Len(toClient) \in Nat /\ Len(toClient') = Len(toClient) + 1
      /\ toClient'[Len(toClient) + 1] = packet
      /\ \A k \in 1..Len(toClient) : toClient'[k] = toClient[k]
  BY <1>1, AppendProperties
<1> SUFFICES ASSUME NEW a \in Arriving', a \notin Arriving
             PROVE  \E m \in 1..Len(packet) : a = packet[m]
  OBVIOUS
<1>3. PICK k \in 1..(Len(toClient) + 1) : \E m \in 1..Len(toClient'[k]) : a = toClient'[k][m]
  BY <1>2 DEF Arriving
<1>4. a \in Messages
  BY DEF Arriving
<1>5. k \notin 1..Len(toClient)
  BY <1>2, <1>3, <1>4 DEF Arriving
<1>6. k = Len(toClient) + 1
  BY <1>2, <1>5
<1> QED BY <1>2, <1>3, <1>6

\* The server refuses the oldest packet, or runs it; either way the answer
\* names that packet.
LEMMA ServerDoes ==
  ASSUME Typed, ServerInOrder, ServerStep
  PROVE  /\ ServerInOrder'
         /\ \E p \in Waiting :
              /\ p \in Packets /\ Waiting' = Waiting \ {p}
              /\ \/ /\ UNCHANGED executed
                    /\ \A a \in Arriving' :
                         \/ a \in Arriving
                         \/ a.kind \in Notifications /\ a.req = p.msgID
                 \/ /\ executed' = [executed EXCEPT ![p.body] = @ + 1]
                    /\ \A a \in Arriving' :
                         \/ a \in Arriving
                         \/ /\ a.kind \notin Notifications
                            /\ a.kind = "result" => a.req = p.msgID /\ a.of = p.body
<1> DEFINE p == Head(toServer)
<1>1. toServer # <<>> /\ toServer' = Tail(toServer)
  BY DEF ServerStep, RejectSalt, RejectMessage, Execute
<1>2. p \in Waiting /\ Waiting' = Waiting \ {p} /\ ServerInOrder'
  BY <1>1, WaitingServed
<1>3. p \in Packets /\ p.msgID \in Int /\ p.body \in 0..MaxCalls
  <2>1. p \in Packets
    BY <1>1, HeadTailProperties DEF Typed, ServerTyped
  <2> QED BY <2>1 DEF Packets, Bodies
<1> HIDE DEF p
<1>t. srvSalt \in 0..MaxSalt /\ 0 \in 0..MaxCalls /\ 0 \in 0..MaxSalt
  BY InvokeAssumption DEF Typed, ServerTyped
<1>4. ASSUME NEW kind \in Notifications, NEW salt \in 0..MaxSalt, NEW code \in Nat,
             toClient' = Append(toClient, <<Message(kind, p.msgID, 0, salt, code)>>)
      PROVE  \A a \in Arriving' : \/ a \in Arriving
                                  \/ a.kind \in Notifications /\ a.req = p.msgID
  <2> DEFINE m == Message(kind, p.msgID, 0, salt, code)
  <2>1. m \in Messages
    BY <1>3, <1>t, MessageTyped DEF Kinds, Notifications
  <2>2. m.kind = kind /\ m.req = p.msgID
    BY DEF Message
  <2>3. toClient' = Append(toClient, <<m>>)
    BY <1>4
  <2> HIDE DEF m
  <2>4. <<m>> \in Seq(Messages) \ {<<>>}
    BY <2>1, AnswersTyped
  <2>5. \A a \in Arriving' : a \in Arriving \/ a = m
    <3>1. \A a \in Arriving' : a \in Arriving \/ \E k \in 1..Len(<<m>>) : a = <<m>>[k]
      BY <2>3, <2>4, ArrivingAppended
    <3> QED BY <3>1
  <2> QED BY <2>2, <2>5
<1>5. CASE RejectSalt
  BY <1>2, <1>3, <1>4, <1>5, <1>t DEF RejectSalt, Notifications, p
<1>6. ASSUME NEW code \in {16, 20, 32}, RejectMessage(code)
      PROVE  /\ UNCHANGED executed
             /\ \A a \in Arriving' : \/ a \in Arriving
                                     \/ a.kind \in Notifications /\ a.req = p.msgID
  BY <1>4, <1>6, <1>t DEF RejectMessage, Notifications, p
<1>7. ASSUME NEW kind \in {"result", "rpcError"}, NEW container \in BOOLEAN,
             Execute(kind, container)
      PROVE  /\ executed' = [executed EXCEPT ![p.body] = @ + 1]
             /\ \A a \in Arriving' :
                  \/ a \in Arriving
                  \/ /\ a.kind \notin Notifications
                     /\ a.kind = "result" => a.req = p.msgID /\ a.of = p.body
  <2> DEFINE answer == Message(kind, p.msgID, p.body, 0, 0)
             session == Message("newSession", 0, 0, srvSalt, 0)
  <2>1. answer \in Messages /\ session \in Messages
    BY <1>3, <1>t, MessageTyped DEF Kinds
  <2>2. /\ answer.kind = kind /\ answer.req = p.msgID /\ answer.of = p.body
        /\ session.kind = "newSession"
    BY DEF Message
  <2>3. /\ executed' = [executed EXCEPT ![p.body] = @ + 1]
        /\ toClient' \in {Append(toClient, <<session, answer>>), Append(toClient, <<answer>>)}
    BY <1>7 DEF Execute, p
  <2> HIDE DEF answer, session
  <2>4. /\ <<session, answer>> \in Seq(Messages) \ {<<>>}
        /\ <<answer>> \in Seq(Messages) \ {<<>>}
    BY <2>1, AnswersTyped
  <2>5. \A a \in Arriving' : a \in Arriving \/ a = answer \/ a = session
    <3>1. CASE toClient' = Append(toClient, <<session, answer>>)
      <4>1. \A a \in Arriving' : a \in Arriving
              \/ \E k \in 1..Len(<<session, answer>>) : a = <<session, answer>>[k]
        BY <2>4, <3>1, ArrivingAppended
      <4> QED BY <4>1
    <3>2. CASE toClient' = Append(toClient, <<answer>>)
      <4>1. \A a \in Arriving' : a \in Arriving
              \/ \E k \in 1..Len(<<answer>>) : a = <<answer>>[k]
        BY <2>4, <3>2, ArrivingAppended
      <4> QED BY <4>1
    <3> QED BY <2>3, <3>1, <3>2
  <2>6. answer.kind \notin Notifications /\ session.kind \notin Notifications
        /\ session.kind # "result"
    BY <2>2 DEF Notifications
  <2> QED BY <2>2, <2>3, <2>5, <2>6
<1> QED BY <1>2, <1>3, <1>5, <1>6, <1>7 DEF ServerStep

\* What is pushed settles no call with a result and refuses no packet.
LEMMA PushDoes ==
  ASSUME Typed, NEW kind \in {"ack", "newSession", "malformed"}, Push(kind)
  PROVE  /\ UNCHANGED <<executed, toServer>>
         /\ \A a \in Arriving' :
              a \in Arriving \/ (a.kind # "result" /\ a.kind \notin Notifications)
<1> DEFINE m == Message(kind, 0, 0, srvSalt, 0)
<1>1. m \in Messages
  BY InvokeAssumption, MessageTyped DEF Kinds, Typed, ServerTyped
<1>2. m.kind = kind
  BY DEF Message
<1>3. toClient' = Append(toClient, <<m>>)
  BY DEF Push
<1> HIDE DEF m
<1>4. <<m>> \in Seq(Messages) \ {<<>>}
  BY <1>1, AnswersTyped
<1>5. \A a \in Arriving' : a \in Arriving \/ \E k \in 1..Len(<<m>>) : a = <<m>>[k]
  BY <1>3, <1>4, ArrivingAppended
<1>6. \A a \in Arriving' : a \in Arriving \/ a = m
  BY <1>5
<1> QED BY <1>2, <1>6 DEF Push, Notifications

LEMMA InitAnswered == Init => Answered
<1> SUFFICES ASSUME Init PROVE Answered
  OBVIOUS
<1>1. \A c \in Callers : call[c].outcome = "none"
  BY NoCallTyped DEF Init
<1>2. Waiting = {} /\ ServerInOrder
  BY EmptySeq DEF Init, Waiting, ServerInOrder
<1>3. Arriving = {}
  BY EmptySeq DEF Init, Arriving
<1> QED BY <1>1, <1>2, <1>3 DEF Answered, OwnResult

\* Every step keeps the answers in the stream true of the requests written,
\* and a result is returned to the call it is for.
LEMMA StepAnswered == Typed /\ Typed' /\ Ordered /\ Answered /\ [Next]_vars => Answered'
<1> SUFFICES ASSUME Typed, Typed', Ordered, Answered, [Next]_vars PROVE Answered'
  OBVIOUS
<1>t. /\ executed \in [Bodies -> Nat] /\ state.lastMsgID \in Int /\ sent \in Seq(Packets)
      /\ SentInOrder
  BY DEF Typed, ClientTyped, ServerTyped, States, Ordered
<1>1. ASSUME NEW c \in Callers, Begin(c) \/ Lock(c) \/ Quits(c) PROVE Answered'
  <2>1. /\ UNCHANGED <<sent, toServer, executed>> /\ Others(c)
        /\ toClient' = toClient \/ (toClient # <<>> /\ toClient' = Tail(toClient))
        /\ \/ call'[c].outcome # "result"
           \/ /\ call'[c].outcome = call[c].outcome /\ call'[c].result = call[c].result
              /\ call'[c].body = call[c].body
    BY <1>1, BeginDoes, LockDoes, QuitsDoes DEF serverVars
  <2>2. Arriving' \subseteq Arriving
    BY <2>1, ArrivingRead
  <2>3. OwnResult' /\ \A d \in Callers : call'[d].outcome = "result" => call'[d].body \in Bodies
    BY <2>1 DEF Answered, OwnResult, Others
  <2>4. Written' = Written /\ Waiting' = Waiting /\ ServerInOrder'
    BY <2>1 DEF Written, Waiting, Answered, ServerInOrder
  <2> QED BY <2>1, <2>2, <2>3, <2>4 DEF Answered
<1>2. ASSUME NEW c \in Callers, NEW now \in 0..MaxClock, Read(c, now) PROVE Answered'
  <2>1. PICK last \in Arriving :
          /\ toClient # <<>> /\ toClient' = Tail(toClient) /\ Others(c)
          /\ call[c].pc = "read" /\ call[c].body \in Bodies /\ call'[c].body = call[c].body
          /\ UNCHANGED <<sent, serverVars, toServer>>
          /\ \/ UNCHANGED call
             \/ /\ call'[c].outcome = call[c].outcome /\ call'[c].result = call[c].result
             \/ /\ call'[c].outcome = last.kind
                /\ last.kind = "result" =>
                     last.req = call[c].msgID /\ call'[c].result = last.of
    BY <1>2, ReadDoes
  <2>2. Arriving' \subseteq Arriving
    BY <2>1, ArrivingRead
  <2>3. UNCHANGED <<executed, toServer, sent>>
    BY <2>1 DEF serverVars
  <2>4. ASSUME last.kind = "result", last.req = call[c].msgID
        PROVE  last.of = call[c].body /\ executed[last.of] > 0
    <3>1. PICK p \in Written : p.msgID = last.req /\ p.body = last.of
      BY <2>1, <2>4 DEF Answered
    <3>2. Len(sent) \in 1..Len(sent)
      BY <1>t, <2>1 DEF Ordered
    <3>3. sent[Len(sent)] \in Written
      BY <3>2 DEF Written
    <3>4. sent[Len(sent)].msgID = call[c].msgID /\ sent[Len(sent)].body = call[c].body
      BY <2>1 DEF Ordered, NoInterleavedRequests
    <3>5. p = sent[Len(sent)]
      BY <1>t, <2>4, <3>1, <3>3, <3>4, OneID
    <3> QED BY <2>1, <2>4, <3>1, <3>4, <3>5 DEF Answered
  <2>5. OwnResult'
    <3> SUFFICES ASSUME NEW d \in Callers, call'[d].outcome = "result"
                 PROVE  call'[d].result = call'[d].body /\ executed[call'[d].body] > 0
      BY <2>3 DEF OwnResult
    <3>1. CASE d # c
      BY <2>1, <3>1 DEF Answered, OwnResult, Others
    <3>2. CASE d = c
      BY <2>1, <2>4, <3>2 DEF Answered, OwnResult
    <3> QED BY <3>1, <3>2
  <2>6. \A d \in Callers : call'[d].outcome = "result" => call'[d].body \in Bodies
    BY <2>1 DEF Answered, Others
  <2>7. Written' = Written /\ Waiting' = Waiting /\ ServerInOrder'
    BY <2>3 DEF Written, Waiting, Answered, ServerInOrder
  <2> QED BY <2>2, <2>3, <2>5, <2>6, <2>7 DEF Answered
<1>3. ASSUME NEW c \in Callers, NEW now \in 0..MaxClock, Send(c, now) PROVE Answered'
  <2>1. PICK packet \in Packets :
          /\ sent' = Append(sent, packet)
          /\ toServer' \in {toServer, Append(toServer, packet)}
          /\ packet.msgID > state.lastMsgID
          /\ call'[c].body = call[c].body
          /\ call'[c].outcome = call[c].outcome /\ call'[c].result = call[c].result
          /\ Others(c)
          /\ UNCHANGED <<serverVars, toClient>>
    BY <1>3, SendDoes
  <2>2. Written' = Written \cup {packet}
    BY <2>1, WrittenGrows
  <2>3. \A p \in Waiting : p.msgID < packet.msgID
    <3> SUFFICES ASSUME NEW p \in Waiting PROVE p.msgID < packet.msgID
      OBVIOUS
    <3>1. PICK k \in 1..Len(sent) : p = sent[k]
      BY DEF Answered, Written
    <3>2. p \in Packets
      BY <1>t, <3>1, ElementOfSeq
    <3>3. p.msgID \in Int /\ packet.msgID \in Int
      BY <3>2 DEF Packets
    <3>4. p.msgID <= state.lastMsgID
      BY <3>1 DEF Ordered
    <3> QED BY <1>t, <2>1, <3>3, <3>4
  <2>4. Waiting' \subseteq Waiting \cup {packet} /\ ServerInOrder'
    <3>1. CASE toServer' = toServer
      BY <3>1 DEF Waiting, Answered, ServerInOrder
    <3>2. CASE toServer' = Append(toServer, packet)
      BY <2>3, <3>2, WaitingAppended DEF Answered
    <3> QED BY <2>1, <3>1, <3>2
  <2>5. UNCHANGED executed /\ Arriving' = Arriving
    BY <2>1 DEF serverVars, Arriving
  <2>6. OwnResult' /\ \A d \in Callers : call'[d].outcome = "result" => call'[d].body \in Bodies
    BY <2>1, <2>5 DEF Answered, OwnResult, Others
  <2> QED BY <2>2, <2>4, <2>5, <2>6 DEF Answered
<1>4. CASE Close
  <2>1. Waiting' = {} /\ ServerInOrder'
    BY <1>4, EmptySeq DEF Close, Waiting, ServerInOrder
  <2>2. Arriving' = {}
    BY <1>4, EmptySeq DEF Close, Arriving
  <2>3. UNCHANGED <<executed, call>>
    BY <1>4 DEF Close, serverVars
  <2> QED BY <2>1, <2>2, <2>3 DEF Answered, OwnResult
<1>5. CASE ServerStep
  <2>0. UNCHANGED <<call, sent>>
    BY <1>5, EnvironmentDoes DEF Environment
  <2>1. ServerInOrder' /\ \E p \in Waiting :
          /\ p \in Packets /\ Waiting' = Waiting \ {p}
          /\ \/ /\ UNCHANGED executed
                /\ \A a \in Arriving' : a \in Arriving \/ a.kind \in Notifications
             \/ /\ executed' = [executed EXCEPT ![p.body] = @ + 1]
                /\ \A a \in Arriving' :
                     \/ a \in Arriving
                     \/ a.kind = "result" => a.req = p.msgID /\ a.of = p.body
    BY <1>5, ServerDoes DEF Answered
  <2>2. PICK p \in Waiting :
          /\ p \in Packets /\ Waiting' = Waiting \ {p}
          /\ \/ /\ UNCHANGED executed
                /\ \A a \in Arriving' : a \in Arriving \/ a.kind \in Notifications
             \/ /\ executed' = [executed EXCEPT ![p.body] = @ + 1]
                /\ \A a \in Arriving' :
                     \/ a \in Arriving
                     \/ a.kind = "result" => a.req = p.msgID /\ a.of = p.body
    BY <2>1
  <2>3. p.body \in Bodies /\ p \in Written
    BY <2>2 DEF Packets, Answered
  <2>4. \A b \in Bodies : executed[b] > 0 => executed'[b] > 0
    BY <1>t, <2>2, <2>3
  <2>5. ASSUME NEW a \in Arriving', a.kind = "result"
        PROVE  /\ a.of \in Bodies /\ executed'[a.of] > 0
               /\ \E q \in Written : q.msgID = a.req /\ q.body = a.of
    <3>1. CASE a \in Arriving
      BY <2>4, <2>5, <3>1 DEF Answered
    <3>2. CASE a \notin Arriving
      <4>1. /\ executed' = [executed EXCEPT ![p.body] = @ + 1]
            /\ a.req = p.msgID /\ a.of = p.body
        BY <2>2, <2>5, <3>2 DEF Notifications
      <4>2. executed'[p.body] > 0
        BY <1>t, <2>3, <4>1
      <4> QED BY <2>3, <4>1, <4>2
    <3> QED BY <3>1, <3>2
  <2>6. OwnResult'
    BY <2>0, <2>4 DEF Answered, OwnResult
  <2>7. Written' = Written
    BY <2>0 DEF Written
  <2> QED BY <2>0, <2>1, <2>2, <2>5, <2>6, <2>7 DEF Answered
<1>6. CASE RotateSalt \/ UNCHANGED vars
  <2>1. UNCHANGED <<call, sent, executed, toServer, toClient>>
    BY <1>6 DEF RotateSalt, vars, clientVars, serverVars
  <2> QED BY <2>1 DEF Answered, OwnResult, ServerInOrder, Waiting, Written, Arriving
<1>7. ASSUME NEW kind \in {"ack", "newSession", "malformed"}, Push(kind) PROVE Answered'
  <2>1. /\ UNCHANGED <<executed, toServer>>
        /\ \A a \in Arriving' : a \in Arriving \/ a.kind # "result"
    BY <1>7, PushDoes
  <2>2. UNCHANGED <<call, sent>>
    BY <1>7 DEF Push, clientVars
  <2>3. Written' = Written /\ Waiting' = Waiting /\ ServerInOrder'
    BY <2>1, <2>2 DEF Written, Waiting, Answered, ServerInOrder
  <2> QED BY <2>1, <2>2, <2>3 DEF Answered, OwnResult
<1> QED BY <1>1, <1>2, <1>3, <1>4, <1>5, <1>6, <1>7, NextCases DEF Environment

\* A call that succeeds returns the result the server computed for its own
\* request, although late answers to other calls and to earlier attempts are
\* in the stream it reads (handleMessage compares req_msg_id).
THEOREM ResultsAreOwn == Spec => []OwnResult
<1>1. Answered => OwnResult
  BY DEF Answered
<1> QED BY InitTyped, StepTyped, InitOrdered, StepOrdered, InitAnswered, StepAnswered,
        <1>1, PTL DEF Spec
-----------------------------------------------------------------------------
(***************************************************************************)
(* Layer four: the budget of runs.                                         *)
(***************************************************************************)
\* Nothing changes for a body whose packets and runs do not change.
LEMMA RunsKept ==
  ASSUME UNCHANGED <<toServer, executed>>, NEW b
  PROVE  Pending(b)' = Pending(b) /\ Runs(b)' = Runs(b)
BY DEF Pending, Waiting, Runs

\* A packet is taken from the stream to the server: one run fewer may follow.
LEMMA PendingServed ==
  ASSUME Typed, SentInOrder, Waiting \subseteq Written, NEW p \in Waiting,
         Waiting' = Waiting \ {p}, NEW b, IsFiniteSet(Pending(b))
  PROVE  /\ IsFiniteSet(Pending(b)')
         /\ p.body # b => Pending(b)' = Pending(b)
         /\ p.body = b => Cardinality(Pending(b)') = Cardinality(Pending(b)) - 1
<1>1. Pending(b) = {q.msgID : q \in {r \in Waiting : r.body = b}}
  BY DEF Pending
<1>2. Pending(b)' = {q.msgID : q \in {r \in Waiting \ {p} : r.body = b}}
  BY DEF Pending
<1>3. CASE p.body # b
  <2>1. {r \in Waiting \ {p} : r.body = b} = {r \in Waiting : r.body = b}
    BY <1>3
  <2>2. Pending(b)' = Pending(b)
    BY <1>1, <1>2, <2>1
  <2> QED BY <1>3, <2>2
<1>4. CASE p.body = b
  <2>1. p.msgID \in Pending(b)
    BY <1>1, <1>4
  <2>2. \A q \in Waiting : q # p => q.msgID # p.msgID
    BY OneID
  <2>3. Pending(b)' = Pending(b) \ {p.msgID}
    BY <1>1, <1>2, <2>2
  <2> QED BY <1>4, <2>1, <2>3, FS_RemoveElement
<1> QED BY <1>3, <1>4

\* A packet is put into the stream: at most one run more may follow.
LEMMA PendingSent ==
  ASSUME NEW p, Waiting' = Waiting \cup {p} \/ Waiting' = Waiting,
         NEW b, IsFiniteSet(Pending(b))
  PROVE  /\ IsFiniteSet(Pending(b)')
         /\ p.body # b => Pending(b)' = Pending(b)
         /\ Cardinality(Pending(b)') <= Cardinality(Pending(b)) + 1
<1>0. Cardinality(Pending(b)) \in Nat
  BY FS_CardinalityType
<1>1. CASE Waiting' = Waiting
  <2>1. Pending(b)' = Pending(b)
    BY <1>1 DEF Pending
  <2> QED BY <1>0, <2>1
<1>2. CASE Waiting' = Waiting \cup {p} /\ p.body # b
  <2>1. {r \in Waiting \cup {p} : r.body = b} = {r \in Waiting : r.body = b}
    BY <1>2
  <2>2. Pending(b)' = Pending(b)
    BY <1>2, <2>1 DEF Pending
  <2> QED BY <1>0, <2>2
<1>3. CASE Waiting' = Waiting \cup {p} /\ p.body = b
  <2>1. {r \in Waiting \cup {p} : r.body = b} = {r \in Waiting : r.body = b} \cup {p}
    BY <1>3
  <2>2. Pending(b)' = {q.msgID : q \in {r \in Waiting : r.body = b} \cup {p}}
    BY <1>3, <2>1 DEF Pending
  <2>3. Pending(b)' = Pending(b) \cup {p.msgID}
    BY <2>2 DEF Pending
  <2>4. /\ IsFiniteSet(Pending(b) \cup {p.msgID})
        /\ Cardinality(Pending(b) \cup {p.msgID}) \in
             {Cardinality(Pending(b)), Cardinality(Pending(b)) + 1}
    BY FS_AddElement
  <2>5. Cardinality(Pending(b) \cup {p.msgID}) <= Cardinality(Pending(b)) + 1
    BY <1>0, <2>4
  <2> QED BY <1>3, <2>3, <2>4, <2>5
<1> QED BY <1>1, <1>2, <1>3

\* Runs are counted in naturals.
LEMMA RunsTyped ==
  ASSUME Typed, WithinBudget, NEW b \in Bodies
  PROVE  /\ executed[b] \in Nat /\ Cardinality(Pending(b)) \in Nat
         /\ Runs(b) \in Nat /\ stale[b] \in Nat
<1>1. executed[b] \in Nat /\ stale[b] \in Nat
  BY DEF Typed, ServerTyped
<1>2. Cardinality(Pending(b)) \in Nat
  BY FS_CardinalityType DEF WithinBudget
<1> QED BY <1>1, <1>2 DEF Runs

LEMMA InitBudgeted == Init => Budgeted
<1> SUFFICES ASSUME Init PROVE Budgeted
  OBVIOUS
<1>1. \A c \in Callers : call[c].body = 0 /\ call[c].pc = "idle"
  BY NoCallTyped DEF Init
<1>2. calls = 0 /\ \A b \in Bodies : executed[b] = 0 /\ stale[b] = 0
  BY DEF Init
<1>3. Waiting = {} /\ Written = {} /\ Arriving = {}
  BY EmptySeq DEF Init, Waiting, Written, Arriving
<1>4. BodiesOwned
  BY <1>1, <1>2, <1>3 DEF BodiesOwned
<1>5. \A b \in Bodies : Pending(b) = {}
  BY <1>3 DEF Pending
<1>6. \A b \in Bodies : IsFiniteSet(Pending(b)) /\ Runs(b) = 0
  BY <1>2, <1>5, FS_EmptySet DEF Runs
<1>7. WithinBudget
  BY <1>2, <1>6 DEF WithinBudget
<1>8. RefusedUnrun
  BY <1>3 DEF RefusedUnrun
<1> QED BY <1>4, <1>7, <1>8 DEF Budgeted

\* A step that sends nothing and starts nothing keeps the budget.
LEMMA BudgetKept ==
  ASSUME Typed, Typed', Budgeted, calls' = calls, sent' = sent,
         \A c \in Callers :
           /\ call'[c].body = call[c].body
           /\ call'[c].pc \in {"lock", "send"} => call[c].pc \in {"lock", "send"}
           /\ call'[c].pc = "read" => call[c].pc = "read" /\ call'[c].msgID = call[c].msgID,
         \A b \in Bodies : /\ IsFiniteSet(Pending(b)') /\ Runs(b)' <= Runs(b)
                           /\ stale'[b] >= stale[b]
                           /\ b > calls => executed'[b] = 0,
         \A a \in Arriving' : a.kind \in Notifications =>
           \/ a \in Arriving
           \/ /\ a.req <= state.lastMsgID
              /\ \A c \in Callers : call'[c].pc = "read" /\ a.req = call'[c].msgID =>
                   (Runs(call[c].body) <= stale[call[c].body])',
         state'.lastMsgID >= state.lastMsgID
  PROVE  Budgeted'
<1>1. BodiesOwned'
  <2>1. Written' = Written
    BY DEF Written
  <2> QED BY <2>1 DEF Budgeted, BodiesOwned
<1>2. ASSUME NEW b \in Bodies
      PROVE  /\ Runs(b)' <= 1 + stale'[b]
             /\ Unsent(b)' => Runs(b)' <= stale'[b]
             /\ Runs(b) <= stale[b] => Runs(b)' <= stale'[b]
  <2>1. Runs(b) \in Nat /\ stale[b] \in Nat /\ stale'[b] \in Nat
    BY RunsTyped DEF Budgeted, Typed, ServerTyped
  <2>2. Runs(b)' \in Nat
    <3>1. executed'[b] \in Nat
      BY DEF Typed, ServerTyped
    <3>2. Cardinality(Pending(b)') \in Nat
      BY FS_CardinalityType
    <3> QED BY <3>1, <3>2 DEF Runs
  <2>3. Runs(b) <= 1 + stale[b] /\ (Unsent(b) => Runs(b) <= stale[b])
    BY DEF Budgeted, WithinBudget
  <2>4. Unsent(b)' => Unsent(b)
    BY DEF Unsent
  <2>5. Runs(b)' <= Runs(b) /\ stale'[b] >= stale[b]
    OBVIOUS
  <2>6. Runs(b)' <= 1 + stale'[b]
    BY <2>1, <2>2, <2>3, <2>5
  <2>7. Runs(b) <= stale[b] => Runs(b)' <= stale'[b]
    BY <2>1, <2>2, <2>5
  <2> QED BY <2>3, <2>4, <2>6, <2>7
<1>3. WithinBudget'
  BY <1>2 DEF WithinBudget
<1>4. RefusedUnrun'
  <2>1. \A a \in Arriving' : a.kind \in Notifications => a.req <= state'.lastMsgID
    <3> SUFFICES ASSUME NEW a \in Arriving', a.kind \in Notifications
                 PROVE  a.req <= state'.lastMsgID
      OBVIOUS
    <3>1. a.req <= state.lastMsgID
      BY DEF Budgeted, RefusedUnrun
    <3>2. a.req \in Int
      BY DEF Arriving, Messages
    <3>3. state.lastMsgID \in Int /\ state'.lastMsgID \in Int
      BY DEF Typed, ClientTyped, States
    <3> QED BY <3>1, <3>2, <3>3
  <2>2. ASSUME NEW a \in Arriving', NEW c \in Callers, a.kind \in Notifications,
               call'[c].pc = "read", a.req = call'[c].msgID
        PROVE  (Runs(call[c].body) <= stale[call[c].body])'
    <3> SUFFICES ASSUME a \in Arriving
                 PROVE  (Runs(call[c].body) <= stale[call[c].body])'
      BY <2>2
    <3>1. /\ a \in Arriving /\ call[c].pc = "read" /\ a.req = call[c].msgID
          /\ call'[c].body = call[c].body
      BY <2>2
    <3>2. call[c].body \in Bodies
      BY <3>1 DEF Typed, Held
    <3>3. Runs(call[c].body) <= stale[call[c].body]
      BY <2>2, <3>1 DEF Budgeted, RefusedUnrun
    <3>4. PICK b \in Bodies : b = call[c].body
      BY <3>2
    <3>5. Runs(b)' <= stale'[b]
      BY <1>2, <3>3, <3>4
    <3>6. call'[c].body = b
      BY <3>1, <3>4
    <3> QED BY <3>5, <3>6
  <2> QED BY <2>1, <2>2 DEF RefusedUnrun
<1> QED BY <1>1, <1>3, <1>4 DEF Budgeted

\* A goroutine sends: its packet may run once more than it has so far.
LEMMA SendBudgeted ==
  ASSUME Typed, Typed', Ordered, Answered, Budgeted,
         NEW c \in Callers, NEW now \in 0..MaxClock, Send(c, now)
  PROVE  Budgeted'
<1>1. PICK packet \in Packets :
        /\ sent' = Append(sent, packet)
        /\ toServer' \in {toServer, Append(toServer, packet)}
        /\ packet.msgID > state.lastMsgID /\ state'.lastMsgID = packet.msgID
        /\ packet.body = call[c].body /\ call[c].body \in Bodies /\ call[c].pc = "send"
        /\ call'[c].pc = "read" /\ call'[c].msgID = packet.msgID
        /\ call'[c].body = call[c].body /\ Others(c)
        /\ \A d \in Callers \ {c} : call[d].pc \notin {"send", "read"}
        /\ UNCHANGED <<calls, stale, serverVars, toClient>>
  BY SendDoes
<1>2. UNCHANGED executed /\ Arriving' = Arriving
  BY <1>1 DEF serverVars, Arriving
<1>3. state.lastMsgID \in Int /\ packet.msgID \in Int
  BY DEF Typed, ClientTyped, States, Packets
<1>4. Waiting' = Waiting \cup {packet} \/ Waiting' = Waiting
  <2>1. toServer' = toServer => Waiting' = Waiting
    BY DEF Waiting
  <2>2. \A p \in Waiting : p.msgID < packet.msgID
    <3> SUFFICES ASSUME NEW p \in Waiting PROVE p.msgID < packet.msgID
      OBVIOUS
    <3>1. PICK k \in 1..Len(sent) : p = sent[k]
      BY DEF Answered, Written
    <3>2. p \in Packets
      BY <3>1, ElementOfSeq DEF Typed, ServerTyped
    <3>3. p.msgID \in Int
      BY <3>2 DEF Packets
    <3>4. p.msgID <= state.lastMsgID
      BY <3>1 DEF Ordered
    <3> QED BY <1>1, <1>3, <3>3, <3>4
  <2>3. toServer' = Append(toServer, packet) => Waiting' = Waiting \cup {packet}
    BY <2>2, WaitingAppended DEF Answered
  <2> QED BY <1>1, <2>1, <2>3
<1>5. BodiesOwned'
  <2>1. Written' = Written \cup {packet}
    BY <1>1, WrittenGrows
  <2>2. \A d \in Callers : call'[d].body = call[d].body
    BY <1>1 DEF Others
  <2>3. packet.body <= calls
    BY <1>1 DEF Budgeted, BodiesOwned
  <2> QED BY <1>1, <1>2, <2>1, <2>2, <2>3 DEF Budgeted, BodiesOwned
<1>6. ASSUME NEW b \in Bodies
      PROVE  /\ IsFiniteSet(Pending(b)') /\ Runs(b)' <= 1 + stale[b]
             /\ Unsent(b)' => Runs(b)' <= stale[b]
  <2>0. IsFiniteSet(Pending(b))
    BY DEF Budgeted, WithinBudget
  <2>1. /\ IsFiniteSet(Pending(b)')
        /\ packet.body # b => Pending(b)' = Pending(b)
        /\ Cardinality(Pending(b)') <= Cardinality(Pending(b)) + 1
    BY <1>4, <2>0, PendingSent
  <2>2. /\ executed[b] \in Nat /\ Cardinality(Pending(b)) \in Nat
        /\ Runs(b) \in Nat /\ stale[b] \in Nat
    BY RunsTyped DEF Budgeted
  <2>3. Cardinality(Pending(b)') \in Nat
    BY <2>1, FS_CardinalityType
  <2>4. Runs(b)' = executed[b] + Cardinality(Pending(b)')
    BY <1>2 DEF Runs
  <2>5. Runs(b) = executed[b] + Cardinality(Pending(b))
    BY DEF Runs
  <2>6. Runs(b) <= 1 + stale[b] /\ (Unsent(b) => Runs(b) <= stale[b])
    BY DEF Budgeted, WithinBudget
  <2>7. CASE packet.body # b
    <3>1. Runs(b)' = Runs(b)
      BY <2>1, <2>4, <2>5, <2>7
    <3>2. Unsent(b)' => Unsent(b)
      BY <1>1, <2>7 DEF Unsent, Others
    <3> QED BY <2>1, <2>6, <3>1, <3>2
  <2>8. CASE packet.body = b
    <3>1. Unsent(b)
      BY <1>1, <2>8 DEF Unsent
    <3>2. executed[b] + Cardinality(Pending(b)) <= stale[b]
      BY <2>5, <2>6, <3>1
    <3>3. Runs(b)' <= 1 + stale[b]
      BY <2>1, <2>2, <2>3, <2>4, <3>2
    <3>4. ~ Unsent(b)'
      <4> SUFFICES ASSUME NEW d \in Callers, call'[d].body = b,
                          call'[d].pc \in {"lock", "send"}
                   PROVE  FALSE
        BY DEF Unsent
      <4>1. d # c
        BY <1>1
      <4>2. call[d].body = call[c].body
        BY <1>1, <2>8, <4>1 DEF Others
      <4>3. call[c].body = 0
        BY <4>1, <4>2 DEF Budgeted, BodiesOwned
      <4> QED BY <1>1, <4>3 DEF Bodies
    <3> QED BY <2>1, <3>3, <3>4
  <2> QED BY <2>7, <2>8
<1>7. WithinBudget'
  BY <1>1, <1>6 DEF WithinBudget
<1>8. RefusedUnrun'
  <2>1. \A a \in Arriving : a.kind \in Notifications => a.req < packet.msgID
    <3> SUFFICES ASSUME NEW a \in Arriving, a.kind \in Notifications
                 PROVE  a.req < packet.msgID
      OBVIOUS
    <3>1. a.req \in Int
      BY DEF Arriving, Messages
    <3>2. a.req <= state.lastMsgID
      BY DEF Budgeted, RefusedUnrun
    <3> QED BY <1>1, <1>3, <3>1, <3>2
  <2>2. \A a \in Arriving : a.req \in Int
    BY DEF Arriving, Messages
  <2>3. \A a \in Arriving : a.kind \in Notifications =>
          a.req <= packet.msgID /\ a.req # packet.msgID
    BY <1>3, <2>1, <2>2
  <2>4. \A d \in Callers : call'[d].pc = "read" => call'[d].msgID = packet.msgID
    BY <1>1 DEF Others
  <2> QED BY <1>1, <1>2, <2>3, <2>4 DEF RefusedUnrun
<1> QED BY <1>5, <1>7, <1>8 DEF Budgeted

\* A call is made: nothing has been written or run for its body.
LEMMA BeginBudgeted ==
  ASSUME Typed, Typed', Answered, Budgeted, NEW c \in Callers, Begin(c)
  PROVE  Budgeted'
<1>1. /\ call'[c].pc = "lock" /\ call'[c].body = calls + 1 /\ calls' = calls + 1
      /\ calls + 1 \in Bodies /\ Others(c)
      /\ UNCHANGED <<state, sent, stale, serverVars, toServer, toClient>>
  BY BeginDoes
<1>2. UNCHANGED <<toServer, executed>> /\ Arriving' = Arriving /\ Written' = Written
  BY <1>1 DEF serverVars, Arriving, Written
<1>3. calls \in Nat /\ MaxCalls \in Nat
  BY InvokeAssumption DEF Typed, ClientTyped
<1>4. \A d \in Callers : call[d].body \in Nat /\ call[d].body <= calls
  BY <1>3 DEF Typed, ClientTyped, Calls, Budgeted, BodiesOwned
<1>5. \A p \in Written : p.body \in Nat /\ p.body <= calls
  <2>1. \A p \in Written : p \in Packets
    BY ElementOfSeq DEF Typed, ServerTyped, Written
  <2>2. \A p \in Packets : p.body \in Nat
    BY <1>3 DEF Packets, Bodies
  <2> QED BY <2>1, <2>2 DEF Budgeted, BodiesOwned
<1>6. BodiesOwned'
  <2>1. \A d \in Callers : call'[d].body <= calls + 1
    BY <1>1, <1>3, <1>4 DEF Others
  <2>2. \A p \in Written' : p.body <= calls + 1
    BY <1>2, <1>3, <1>5
  <2>3. \A d, e \in Callers : d # e /\ call'[d].body = call'[e].body => call'[d].body = 0
    <3>1. \A d \in Callers : call[d].body # calls + 1
      BY <1>3, <1>4
    <3> QED BY <1>1, <3>1 DEF Others, Budgeted, BodiesOwned
  <2>4. \A b \in Bodies : b > calls + 1 => executed'[b] = 0
    <3>1. \A b \in Bodies : b > calls + 1 => b > calls
      BY <1>3 DEF Bodies
    <3> QED BY <1>2, <3>1 DEF Budgeted, BodiesOwned
  <2> QED BY <1>1, <2>1, <2>2, <2>3, <2>4 DEF BodiesOwned
<1>7. ASSUME NEW b \in Bodies
      PROVE  /\ IsFiniteSet(Pending(b)') /\ Runs(b)' <= 1 + stale[b]
             /\ Unsent(b)' => Runs(b)' <= stale[b]
  <2>1. Pending(b)' = Pending(b) /\ Runs(b)' = Runs(b)
    BY <1>2, RunsKept
  <2>2. /\ IsFiniteSet(Pending(b)) /\ Runs(b) <= 1 + stale[b]
        /\ Unsent(b) => Runs(b) <= stale[b]
    BY DEF Budgeted, WithinBudget
  <2>3. CASE b # calls + 1
    <3>1. Unsent(b)' => Unsent(b)
      BY <1>1, <2>3 DEF Unsent, Others
    <3> QED BY <2>1, <2>2, <3>1
  <2>4. CASE b = calls + 1
    <3>1. executed[b] = 0
      BY <1>3, <2>4 DEF Budgeted, BodiesOwned
    <3>2. \A p \in Waiting : p.body # b
      BY <1>3, <1>5, <2>4 DEF Answered
    <3>3. Pending(b) = {}
      BY <3>2 DEF Pending
    <3>4. Runs(b) = 0
      BY <3>1, <3>3, FS_EmptySet DEF Runs
    <3>5. stale[b] \in Nat
      BY DEF Typed, ServerTyped
    <3>6. Runs(b)' <= stale[b]
      BY <2>1, <3>4, <3>5
    <3> QED BY <2>1, <2>2, <3>6
  <2> QED BY <2>3, <2>4
<1>8. WithinBudget'
  BY <1>1, <1>7 DEF WithinBudget
<1>9. RefusedUnrun'
  <2>1. \A a \in Arriving' : a.kind \in Notifications => a.req <= state'.lastMsgID
    BY <1>1, <1>2 DEF Budgeted, RefusedUnrun
  <2>2. ASSUME NEW a \in Arriving', NEW d \in Callers, a.kind \in Notifications,
               call'[d].pc = "read", a.req = call'[d].msgID
        PROVE  (Runs(call[d].body) <= stale[call[d].body])'
    <3>1. d # c /\ call'[d] = call[d]
      BY <1>1, <2>2 DEF Others
    <3>2. Runs(call[d].body) <= stale[call[d].body] /\ call[d].body \in Bodies
      BY <1>2, <2>2, <3>1 DEF Budgeted, RefusedUnrun, Typed, Held
    <3>3. PICK b \in Bodies : b = call[d].body
      BY <3>2
    <3>4. Runs(b)' = Runs(b)
      BY <1>2, RunsKept
    <3>5. call'[d].body = b
      BY <3>1, <3>3
    <3> QED BY <1>1, <3>2, <3>3, <3>4, <3>5
  <2> QED BY <2>1, <2>2 DEF RefusedUnrun
<1> QED BY <1>6, <1>8, <1>9 DEF Budgeted

\* A goroutine reads a notification and sends again: either its packet was
\* refused, or the notification counts as stale for its body.
LEMMA ResendBudgeted ==
  ASSUME Typed, Typed', Budgeted, NEW c \in Callers, NEW last \in Arriving,
         call[c].pc = "read", call[c].body \in Bodies, call'[c].body = call[c].body,
         call'[c].pc = "send", Others(c), last.kind \in Notifications,
         stale' = IF last.req = call[c].msgID THEN stale
                  ELSE [stale EXCEPT ![call[c].body] = @ + 1],
         Arriving' \subseteq Arriving, state'.lastMsgID = state.lastMsgID,
         UNCHANGED <<calls, sent, executed, toServer>>
  PROVE  Budgeted'
<1>0. PICK b0 \in Bodies : b0 = call[c].body
  OBVIOUS
<1>1. stale \in [Bodies -> Nat] /\ stale' \in [Bodies -> Nat]
  BY DEF Typed, ServerTyped
<1>2. \A b \in Bodies : stale'[b] >= stale[b]
  BY <1>1
<1>3. ASSUME NEW b \in Bodies
      PROVE  /\ Runs(b) \in Nat /\ stale[b] \in Nat /\ stale'[b] \in Nat
             /\ Runs(b)' = Runs(b) /\ Pending(b)' = Pending(b) /\ IsFiniteSet(Pending(b))
             /\ Runs(b) <= 1 + stale[b] /\ (Unsent(b) => Runs(b) <= stale[b])
  BY <1>1, RunsTyped, RunsKept DEF Budgeted, WithinBudget
<1>4. Runs(b0) <= stale'[b0]
  <2>1. CASE last.req = call[c].msgID
    <3>1. Runs(b0) <= stale[b0]
      BY <1>0, <2>1 DEF Budgeted, RefusedUnrun
    <3> QED BY <2>1, <3>1
  <2>2. CASE last.req # call[c].msgID
    <3>1. stale'[b0] = stale[b0] + 1
      BY <1>0, <1>1, <2>2
    <3> QED BY <1>3, <3>1
  <2> QED BY <2>1, <2>2
<1>5. BodiesOwned'
  <2>1. Written' = Written
    BY DEF Written
  <2>2. \A d \in Callers : call'[d].body = call[d].body
    BY DEF Others
  <2> QED BY <2>1, <2>2 DEF Budgeted, BodiesOwned
<1>6. ASSUME NEW b \in Bodies
      PROVE  /\ IsFiniteSet(Pending(b)') /\ Runs(b)' <= 1 + stale'[b]
             /\ Unsent(b)' => Runs(b)' <= stale'[b]
  <2>1. Runs(b)' <= 1 + stale'[b]
    <3>1. Runs(b) <= 1 + stale'[b]
      BY <1>2, <1>3
    <3> QED BY <1>3, <3>1
  <2>2. CASE b = b0
    BY <1>3, <1>4, <2>1, <2>2
  <2>3. CASE b # b0
    <3>1. Unsent(b)' => Unsent(b)
      BY <1>0, <2>3 DEF Unsent, Others
    <3>2. Runs(b) <= stale[b] => Runs(b) <= stale'[b]
      BY <1>2, <1>3
    <3> QED BY <1>3, <2>1, <3>1, <3>2
  <2> QED BY <2>2, <2>3
<1>7. WithinBudget'
  BY <1>6 DEF WithinBudget
<1>8. RefusedUnrun'
  <2>1. \A a \in Arriving' : a.kind \in Notifications => a.req <= state'.lastMsgID
    BY DEF Budgeted, RefusedUnrun
  <2>2. \A d \in Callers : call'[d].pc # "read"
    <3>1. \A d \in Callers \ {c} : call[d].pc # "read"
      BY DEF Typed, Held
    <3> QED BY <3>1 DEF Others
  <2> QED BY <2>1, <2>2 DEF RefusedUnrun
<1> QED BY <1>5, <1>7, <1>8 DEF Budgeted

\* The server takes a packet: it runs it, or refuses it and then cannot.
LEMMA ServerBudgeted ==
  ASSUME Typed, Typed', Ordered, Answered, Budgeted, ServerStep
  PROVE  Budgeted'
<1>0. UNCHANGED <<state, call, calls, sent, stale>>
  BY EnvironmentDoes DEF Environment
<1>1. PICK p \in Waiting :
        /\ p \in Packets /\ Waiting' = Waiting \ {p}
        /\ \/ /\ UNCHANGED executed
              /\ \A a \in Arriving' :
                   a \in Arriving \/ (a.kind \in Notifications /\ a.req = p.msgID)
           \/ /\ executed' = [executed EXCEPT ![p.body] = @ + 1]
              /\ \A a \in Arriving' : a \in Arriving \/ a.kind \notin Notifications
  BY ServerDoes DEF Answered
<1>2. p \in Written /\ p.body \in Bodies /\ p.msgID \in Int
  BY <1>1 DEF Answered, Packets
<1>3. ASSUME NEW b \in Bodies
      PROVE  /\ IsFiniteSet(Pending(b)') /\ Runs(b)' <= Runs(b) /\ stale'[b] >= stale[b]
             /\ b > calls => executed'[b] = 0
             /\ UNCHANGED executed /\ p.body = b => Runs(b)' <= stale[b]
  <2>0. IsFiniteSet(Pending(b)) /\ Runs(b) <= 1 + stale[b]
    BY DEF Budgeted, WithinBudget
  <2>1. /\ IsFiniteSet(Pending(b)')
        /\ p.body # b => Pending(b)' = Pending(b)
        /\ p.body = b => Cardinality(Pending(b)') = Cardinality(Pending(b)) - 1
    BY <1>1, <2>0, PendingServed DEF Ordered, Answered
  <2>2. /\ executed[b] \in Nat /\ Cardinality(Pending(b)) \in Nat
        /\ Runs(b) \in Nat /\ stale[b] \in Nat
    BY RunsTyped DEF Budgeted
  <2>3. PICK n : n = Cardinality(Pending(b)')
    OBVIOUS
  <2>4. n \in Nat
    BY <2>1, <2>3, FS_CardinalityType
  <2>5. PICK e : e = executed'[b]
    OBVIOUS
  <2>6. Runs(b)' = e + n
    BY <2>3, <2>5 DEF Runs
  <2>7. Runs(b) = executed[b] + Cardinality(Pending(b))
    BY DEF Runs
  <2>8. stale'[b] >= stale[b]
    BY <1>0, <2>2
  <2>9. CASE p.body # b
    <3>1. n = Cardinality(Pending(b))
      BY <2>1, <2>3, <2>9
    <3>2. e = executed[b]
      BY <1>1, <1>2, <2>5, <2>9 DEF Typed, ServerTyped
    <3>3. Runs(b)' = Runs(b)
      BY <2>6, <2>7, <3>1, <3>2
    <3>4. b > calls => executed'[b] = 0
      BY <2>5, <3>2 DEF Budgeted, BodiesOwned
    <3> QED BY <2>1, <2>2, <2>8, <2>9, <3>3, <3>4
  <2>10. CASE p.body = b
    <3>1. n = Cardinality(Pending(b)) - 1
      BY <2>1, <2>3, <2>10
    <3>2. e = executed[b] \/ e = executed[b] + 1
      BY <1>1, <1>2, <2>5, <2>10 DEF Typed, ServerTyped
    <3>3. UNCHANGED executed => e = executed[b]
      BY <2>5
    <3>4. e + n <= Runs(b) /\ (e = executed[b] => e + n <= stale[b])
      BY <2>0, <2>2, <2>4, <2>7, <3>1, <3>2
    <3>5. b <= calls /\ calls \in Nat /\ b \in Nat
      BY <1>2, <2>10, InvokeAssumption DEF Budgeted, BodiesOwned, Typed, ClientTyped, Bodies
    <3>6. ~ (b > calls)
      BY <3>5
    <3> QED BY <2>1, <2>6, <2>8, <3>3, <3>4, <3>6
  <2> QED BY <2>9, <2>10
<1>4. ASSUME NEW a \in Arriving', a.kind \in Notifications, a \notin Arriving
      PROVE  /\ a.req <= state.lastMsgID
             /\ \A c \in Callers : call'[c].pc = "read" /\ a.req = call'[c].msgID =>
                  (Runs(call[c].body) <= stale[call[c].body])'
  <2>1. UNCHANGED executed /\ a.req = p.msgID
    BY <1>1, <1>4
  <2>2. PICK k \in 1..Len(sent) : p = sent[k]
    BY <1>2 DEF Written
  <2>3. a.req <= state.lastMsgID
    BY <2>1, <2>2 DEF Ordered
  <2>4. ASSUME NEW c \in Callers, call'[c].pc = "read", a.req = call'[c].msgID
        PROVE  (Runs(call[c].body) <= stale[call[c].body])'
    <3>1. call[c].pc = "read" /\ call[c].msgID = p.msgID
      BY <1>0, <2>1, <2>4
    <3>2. sent \in Seq(Packets) /\ Len(sent) > 0
      BY <3>1 DEF Typed, ServerTyped, Ordered
    <3>3. Len(sent) \in 1..Len(sent)
      BY <3>2
    <3>4. sent[Len(sent)] \in Written
      BY <3>3 DEF Written
    <3>5. sent[Len(sent)].msgID = call[c].msgID /\ sent[Len(sent)].body = call[c].body
      BY <3>1 DEF Ordered, NoInterleavedRequests
    <3>6. p = sent[Len(sent)]
      BY <1>2, <3>1, <3>4, <3>5, OneID DEF Ordered
    <3>7. PICK b \in Bodies : b = call[c].body /\ p.body = b
      BY <1>2, <3>5, <3>6
    <3>8. Runs(b)' <= stale[b]
      BY <1>3, <2>1, <3>7
    <3> QED BY <1>0, <3>7, <3>8
  <2> QED BY <2>3, <2>4
<1>5. state'.lastMsgID >= state.lastMsgID
  <2>1. state.lastMsgID \in Int
    BY DEF Typed, ClientTyped, States
  <2> QED BY <1>0, <2>1
<1>6. \A c \in Callers :
        /\ call'[c].body = call[c].body
        /\ call'[c].pc \in {"lock", "send"} => call[c].pc \in {"lock", "send"}
        /\ call'[c].pc = "read" => call[c].pc = "read" /\ call'[c].msgID = call[c].msgID
  BY <1>0
<1>7. \A a \in Arriving' : a.kind \in Notifications =>
        \/ a \in Arriving
        \/ /\ a.req <= state.lastMsgID
           /\ \A c \in Callers : call'[c].pc = "read" /\ a.req = call'[c].msgID =>
                (Runs(call[c].body) <= stale[call[c].body])'
  BY <1>4
<1>8. \A b \in Bodies : /\ IsFiniteSet(Pending(b)') /\ Runs(b)' <= Runs(b)
                        /\ stale'[b] >= stale[b]
                        /\ b > calls => executed'[b] = 0
  BY <1>3
<1> QED BY <1>0, <1>5, <1>6, <1>7, <1>8, BudgetKept

\* A step that sends nothing, starts nothing and serves nothing.
LEMMA IdleBudgeted ==
  ASSUME Typed, Typed', Budgeted, UNCHANGED <<calls, sent, executed>>,
         toServer' = toServer \/ toServer' = <<>>,
         \A c \in Callers :
           /\ call'[c].body = call[c].body
           /\ call'[c].pc \in {"lock", "send"} => call[c].pc \in {"lock", "send"}
           /\ call'[c].pc = "read" => call[c].pc = "read" /\ call'[c].msgID = call[c].msgID,
         \A b \in Bodies : stale'[b] >= stale[b],
         \A a \in Arriving' : a \in Arriving \/ a.kind \notin Notifications,
         state'.lastMsgID >= state.lastMsgID
  PROVE  Budgeted'
<1>1. ASSUME NEW b \in Bodies
      PROVE  /\ IsFiniteSet(Pending(b)') /\ Runs(b)' <= Runs(b) /\ stale'[b] >= stale[b]
             /\ b > calls => executed'[b] = 0
  <2>1. IsFiniteSet(Pending(b)) /\ (b > calls => executed'[b] = 0)
    BY DEF Budgeted, BodiesOwned, WithinBudget
  <2>2. /\ executed[b] \in Nat /\ Cardinality(Pending(b)) \in Nat /\ Runs(b) \in Nat
    BY RunsTyped DEF Budgeted
  <2>3. CASE toServer' = toServer
    <3>1. Pending(b)' = Pending(b) /\ Runs(b)' = Runs(b)
      BY <2>3, RunsKept
    <3> QED BY <2>1, <2>2, <3>1
  <2>4. CASE toServer' = <<>>
    <3>1. Waiting' = {}
      BY <2>4, EmptySeq DEF Waiting
    <3>2. Pending(b)' = {}
      BY <3>1 DEF Pending
    <3>3. Cardinality(Pending(b)') = 0 /\ IsFiniteSet(Pending(b)')
      BY <3>2, FS_EmptySet
    <3>4. Runs(b)' = executed[b] + 0
      BY <3>3 DEF Runs
    <3>5. executed[b] + 0 <= Runs(b)
      BY <2>2 DEF Runs
    <3> QED BY <2>1, <3>3, <3>4, <3>5
  <2> QED BY <2>3, <2>4
<1>2. \A b \in Bodies : /\ IsFiniteSet(Pending(b)') /\ Runs(b)' <= Runs(b)
                        /\ stale'[b] >= stale[b]
                        /\ b > calls => executed'[b] = 0
  BY <1>1
<1> QED BY <1>2, BudgetKept

LEMMA StepBudgeted ==
  Typed /\ Typed' /\ Ordered /\ Answered /\ Budgeted /\ [Next]_vars => Budgeted'
<1> SUFFICES ASSUME Typed, Typed', Ordered, Answered, Budgeted, [Next]_vars PROVE Budgeted'
  OBVIOUS
<1>t. /\ stale \in [Bodies -> Nat] /\ state.lastMsgID \in Int
      /\ \A b \in Bodies : stale[b] >= stale[b]
  BY DEF Typed, ClientTyped, ServerTyped, States
<1>1. ASSUME NEW c \in Callers, Lock(c) \/ Quits(c) PROVE Budgeted'
  <2>1. /\ call'[c].body = call[c].body /\ Others(c)
        /\ call'[c].pc \in {"lock", "send"} => call[c].pc \in {"lock", "send"}
        /\ call'[c].pc # "read"
        /\ UNCHANGED <<calls, sent, stale, serverVars, toServer>>
        /\ toClient' = toClient \/ (toClient # <<>> /\ toClient' = Tail(toClient))
        /\ state' = state \/ state'.lastMsgID >= state.lastMsgID
    BY <1>1, LockDoes, QuitsDoes
  <2>2. Arriving' \subseteq Arriving
    BY <2>1, ArrivingRead
  <2>3. UNCHANGED <<calls, sent, executed>> /\ toServer' = toServer
    BY <2>1 DEF serverVars
  <2>4. \A d \in Callers :
          /\ call'[d].body = call[d].body
          /\ call'[d].pc \in {"lock", "send"} => call[d].pc \in {"lock", "send"}
          /\ call'[d].pc = "read" => call[d].pc = "read" /\ call'[d].msgID = call[d].msgID
    BY <2>1 DEF Others
  <2>5. state'.lastMsgID >= state.lastMsgID
    BY <1>t, <2>1
  <2>6. \A b \in Bodies : stale'[b] >= stale[b]
    BY <1>t, <2>1
  <2> QED BY <2>2, <2>3, <2>4, <2>5, <2>6, IdleBudgeted
<1>2. ASSUME NEW c \in Callers, NEW now \in 0..MaxClock, Read(c, now) PROVE Budgeted'
  <2>1. PICK last \in Arriving :
          /\ toClient # <<>> /\ toClient' = Tail(toClient)
          /\ call[c].pc = "read" /\ call[c].body \in Bodies
          /\ call'[c].body = call[c].body /\ Others(c)
          /\ state'.lastMsgID = state.lastMsgID
          /\ UNCHANGED <<calls, sent, serverVars, toServer>>
          /\ \/ UNCHANGED <<call, stale>>
             \/ /\ last.kind \in Notifications /\ call'[c].pc = "send"
                /\ stale' = IF last.req = call[c].msgID THEN stale
                            ELSE [stale EXCEPT ![call[c].body] = @ + 1]
             \/ /\ call'[c].pc = "idle"
                /\ stale' \in {stale, [stale EXCEPT ![call[c].body] = @ + 1]}
    BY <1>2, ReadDoes
  <2>2. Arriving' \subseteq Arriving
    BY <2>1, ArrivingRead
  <2>3. UNCHANGED <<calls, sent, executed, toServer>>
    BY <2>1 DEF serverVars
  <2>4. state'.lastMsgID >= state.lastMsgID
    BY <1>t, <2>1
  <2>5. CASE UNCHANGED <<call, stale>>
    <3>1. \A b \in Bodies : stale'[b] >= stale[b]
      BY <1>t, <2>5
    <3> QED BY <2>2, <2>3, <2>4, <2>5, <3>1, IdleBudgeted
  <2>6. CASE /\ last.kind \in Notifications /\ call'[c].pc = "send"
             /\ stale' = IF last.req = call[c].msgID THEN stale
                         ELSE [stale EXCEPT ![call[c].body] = @ + 1]
    BY <2>1, <2>2, <2>3, <2>6, ResendBudgeted
  <2>7. CASE /\ call'[c].pc = "idle"
             /\ stale' \in {stale, [stale EXCEPT ![call[c].body] = @ + 1]}
    <3>1. \A b \in Bodies : stale'[b] >= stale[b]
      BY <1>t, <2>1, <2>7
    <3>2. \A d \in Callers :
            /\ call'[d].body = call[d].body
            /\ call'[d].pc \in {"lock", "send"} => call[d].pc \in {"lock", "send"}
            /\ call'[d].pc = "read" => call[d].pc = "read" /\ call'[d].msgID = call[d].msgID
      BY <2>1, <2>7 DEF Others
    <3> QED BY <2>2, <2>3, <2>4, <3>1, <3>2, IdleBudgeted
  <2> QED BY <2>1, <2>5, <2>6, <2>7
<1>3. ASSUME Environment \/ UNCHANGED vars, ~ServerStep PROVE Budgeted'
  <2>1. UNCHANGED <<state, call, calls, sent, stale>>
    BY <1>3, EnvironmentDoes DEF vars, clientVars
  <2>2. /\ UNCHANGED executed
        /\ toServer' = toServer \/ toServer' = <<>>
        /\ \A a \in Arriving' : a \in Arriving \/ a.kind \notin Notifications
    <3>1. CASE Close
      <4>1. Arriving' = {}
        BY <3>1, EmptySeq DEF Close, Arriving
      <4>2. UNCHANGED executed /\ toServer' = <<>>
        BY <3>1 DEF Close, serverVars
      <4> QED BY <4>1, <4>2
    <3>2. CASE RotateSalt \/ UNCHANGED vars
      BY <3>2 DEF RotateSalt, vars, serverVars, Arriving
    <3>3. ASSUME NEW kind \in {"ack", "newSession", "malformed"}, Push(kind)
          PROVE  /\ UNCHANGED executed /\ toServer' = toServer
                 /\ \A a \in Arriving' : a \in Arriving \/ a.kind \notin Notifications
      BY <3>3, PushDoes
    <3> QED BY <1>3, <3>1, <3>2, <3>3 DEF Environment
  <2>3. state'.lastMsgID >= state.lastMsgID /\ \A b \in Bodies : stale'[b] >= stale[b]
    BY <1>t, <2>1
  <2>4. \A d \in Callers :
          /\ call'[d].body = call[d].body
          /\ call'[d].pc \in {"lock", "send"} => call[d].pc \in {"lock", "send"}
          /\ call'[d].pc = "read" => call[d].pc = "read" /\ call'[d].msgID = call[d].msgID
    BY <2>1
  <2>5. UNCHANGED <<calls, sent, executed>>
    BY <2>1, <2>2
  <2>6. toServer' = toServer \/ toServer' = <<>>
    BY <2>2
  <2>7. \A a \in Arriving' : a \in Arriving \/ a.kind \notin Notifications
    BY <2>2
  <2> QED BY <2>3, <2>4, <2>5, <2>6, <2>7, IdleBudgeted
<1> QED BY <1>1, <1>2, <1>3, BeginBudgeted, SendBudgeted, ServerBudgeted, NextCases

\* A request is run at most once, plus once for every notification about
\* another packet that its call took for a refusal: invoke sends again only
\* on bad_server_salt and bad_msg_notification.
THEOREM RunsOnce == Spec => []RunsOnceUnlessMisled
<1>1. Typed /\ Budgeted => RunsOnceUnlessMisled
  <2> SUFFICES ASSUME Typed, Budgeted, NEW b \in Bodies
               PROVE  executed[b] <= 1 + stale[b]
    BY DEF RunsOnceUnlessMisled
  <2>1. /\ executed[b] \in Nat /\ Cardinality(Pending(b)) \in Nat /\ stale[b] \in Nat
    BY RunsTyped DEF Budgeted
  <2>2. executed[b] + Cardinality(Pending(b)) <= 1 + stale[b]
    BY DEF Budgeted, WithinBudget, Runs
  <2> QED BY <2>1, <2>2
<1> QED BY InitTyped, StepTyped, InitOrdered, StepOrdered, InitAnswered, StepAnswered,
        InitBudgeted, StepBudgeted, <1>1, PTL DEF Spec
=============================================================================
