--------------------------- MODULE EncryptedInvoke ---------------------------
(***************************************************************************)
(* mtproto.EncryptedClient.Invoke and encryptedState.invoke: goroutines    *)
(* share one connection under a mutex; each call sends an encrypted packet *)
(* and reads packets until one settles it, and is sent again when the      *)
(* server reports a wrong salt or a retriable bad message.                 *)
(*                                                                         *)
(* A call that gives up at its deadline leaves the connection in use, so   *)
(* the answers to an earlier call are still in the stream when the next    *)
(* call reads it.  The server is external: it is modelled by the answers   *)
(* handleMessage distinguishes.  time.Now is an input: the wall clock can  *)
(* be stepped back between two readings.  It counts ticks, of which        *)
(* TicksPerSecond make a second; a message id is the time in ticks times   *)
(* 4, standing for seconds << 32 | fraction with its two low bits cleared. *)
(***************************************************************************)
EXTENDS Integers, Sequences, FiniteSets

CONSTANTS Callers,         \* goroutines that call Invoke
          MaxAttempts,     \* sends per call; the code has 3
          TicksPerSecond,
          MaxCalls,        \* bound: calls made in one behaviour
          MaxClock,        \* bound: readings of the wall clock
          MaxSalt,         \* bound: salts the server goes through
          MaxPushes        \* bound: unsolicited packets from the server

ASSUME InvokeAssumption ==
  /\ MaxAttempts \in Nat \ {0} /\ TicksPerSecond \in Nat \ {0}
  /\ MaxCalls \in Nat /\ MaxClock \in Nat /\ MaxSalt \in Nat /\ MaxPushes \in Nat
  /\ "none" \notin Callers

VARIABLES state,     \* encryptedState: serverSalt, timeOffset, seq, lastMsgID
          mutex,     \* EncryptedClient.mu
          call,      \* each goroutine's call
          calls,     \* calls begun so far; the number of a call is its body
          conn,      \* the TCP connection: up, and whether each direction
                     \* is still at a packet boundary
          toServer, toClient,   \* the two directions of the TCP stream
          srvSalt,   \* the salt the server accepts
          pushes,    \* unsolicited packets sent so far
          sent,      \* history: every packet written
          executed,  \* history: how often the server ran each body
          stale      \* history: bad_* answers to another packet, per body

clientVars == <<state, mutex, call, calls, conn, sent, stale>>
serverVars == <<srvSalt, pushes, executed>>
vars == <<clientVars, serverVars, toServer, toClient>>

Bodies == 1..MaxCalls

NoCall == [pc |-> "idle", body |-> 0, attempt |-> 0, msgID |-> 0,
           outcome |-> "none", result |-> 0]

Init ==
  /\ state = [serverSalt |-> 0, timeOffset |-> 0, seq |-> 0, lastMsgID |-> 0]
  /\ mutex = "none"
  /\ call = [c \in Callers |-> NoCall]
  /\ calls = 0
  /\ conn = [up |-> TRUE, in |-> TRUE, out |-> TRUE]
  /\ toServer = <<>> /\ toClient = <<>>
  /\ srvSalt \in {0, 1} \cap 0..MaxSalt
  /\ pushes = 0
  /\ sent = <<>>
  /\ executed = [b \in Bodies |-> 0]
  /\ stale = [b \in Bodies |-> 0]
-----------------------------------------------------------------------------
(***************************************************************************)
(* Messages.  A packet is a sequence of messages: one, or a container's.   *)
(***************************************************************************)
RetriableCodes == {16, 17, 32, 33, 48}
isRetriableBadMessageCode(code) == code \in RetriableCodes

Message(kind, req, of, salt, code) ==
  [kind |-> kind, req |-> req, of |-> of, salt |-> salt, code |-> code]

\* Mutant of Settles: an rpc_result is taken whatever request it answers.
SettlesAnyResult(m, requestMsgID) ==
  m.kind \in {"result", "rpcError", "badSalt", "badMsg", "malformed"}

\* handleMessage returns a result or an error for this message; it passes
\* over acks, updates, new_session_created and answers to other requests.
\* The bad_msg_id of a notification is not compared with the request.  A
\* malformed packet stands for the parse errors of parseEncryptedPacket and
\* handleMessage, which end the call.
Settles(m, requestMsgID) ==
  \/ m.kind \in {"badSalt", "badMsg", "malformed"}
  \/ m.kind \in {"result", "rpcError"} /\ m.req = requestMsgID

\* How many messages of a container handleMessage gets through.
Handled(packet, requestMsgID) ==
  LET settling == {i \in 1..Len(packet) : Settles(packet[i], requestMsgID)}
  IN  IF settling = {} THEN Len(packet)
      ELSE CHOOSE i \in settling : \A j \in settling : i <= j

\* The salt after those messages: both notifications install theirs.
InstalledSalt(packet, n, salt) ==
  LET salts == {i \in 1..n : packet[i].kind \in {"newSession", "badSalt"}}
  IN  IF salts = {} THEN salt
      ELSE packet[CHOOSE i \in salts : \A j \in salts : j <= i].salt
-----------------------------------------------------------------------------
(***************************************************************************)
(* The client.                                                             *)
(***************************************************************************)
\* Invoke called: the goroutine waits for the mutex.
Begin(c) ==
  /\ call[c].pc = "idle" /\ calls < MaxCalls
  /\ calls' = calls + 1
  /\ call' = [call EXCEPT ![c] = [NoCall EXCEPT !.pc = "lock", !.body = calls + 1]]
  /\ UNCHANGED <<state, mutex, conn, sent, stale, serverVars, toServer, toClient>>

\* Mutant of Lock: the mutex is not taken.
LockNothing(c) ==
  /\ call[c].pc = "lock"
  /\ mutex' = c
  /\ call' = [call EXCEPT ![c].pc = "send"]
  /\ UNCHANGED <<state, calls, conn, sent, stale, serverVars, toServer, toClient>>

Lock(c) ==
  /\ call[c].pc = "lock" /\ mutex = "none"
  /\ mutex' = c
  /\ call' = [call EXCEPT ![c].pc = "send"]
  /\ UNCHANGED <<state, calls, conn, sent, stale, serverVars, toServer, toClient>>

\* Mutant of nextMsgID: the clock is trusted to advance between two ids.
nextMsgIDFromClock(now) == 4 * (now + TicksPerSecond * state.timeOffset)

nextMsgID(now) ==
  LET msgID == 4 * (now + TicksPerSecond * state.timeOffset)
  IN  IF msgID > state.lastMsgID THEN msgID ELSE state.lastMsgID + 4

nextSeqNo == 2 * state.seq + 1

\* invoke returns: the deferred Unlock runs with it.
Returned(c, outcome, result) ==
  /\ mutex' = "none"
  /\ call' = [call EXCEPT ![c].pc = "idle", ![c].outcome = outcome,
                          ![c].result = result]

\* What the server finds in the packet: the salt is the one installed last.
buildEncryptedPacket(msgID, seqNo, body) ==
  [msgID |-> msgID, seqNo |-> seqNo, salt |-> state.serverSalt, body |-> body]

\* An attempt up to the end of abridgedWrite.  A packet written after one
\* that was cut short is lost in the server's misread stream.
Send(c, now) ==
  /\ call[c].pc = "send" /\ conn.up
  /\ LET msgID  == nextMsgID(now)
         packet == buildEncryptedPacket(msgID, nextSeqNo, call[c].body)
     IN  /\ state' = [state EXCEPT !.lastMsgID = msgID, !.seq = @ + 1]
         /\ sent' = Append(sent, packet)
         /\ toServer' = IF conn.out THEN Append(toServer, packet) ELSE toServer
         /\ call' = [call EXCEPT ![c].pc = "read", ![c].msgID = msgID,
                                 ![c].attempt = @ + 1]
  /\ UNCHANGED <<mutex, calls, conn, stale, serverVars, toClient>>

\* abridgedWrite fails: at the deadline, perhaps having written part of the
\* packet, or because the connection is closed.
SendFails(c, now) ==
  /\ call[c].pc = "send"
  /\ state' = [state EXCEPT !.lastMsgID = nextMsgID(now), !.seq = @ + 1]
  /\ \E whole \in BOOLEAN : conn' = [conn EXCEPT !.out = @ /\ whole]
  /\ Returned(c, "netError", 0)
  /\ UNCHANGED <<calls, sent, stale, serverVars, toServer, toClient>>

\* adjustTimeOffsetFromBadMessage is given the client's own request id.
adjustTimeOffset(msgID, code, now) ==
  LET serverSeconds == (msgID \div 4) \div TicksPerSecond
  IN  IF code \in {16, 17} /\ serverSeconds # 0
      THEN serverSeconds - now \div TicksPerSecond
      ELSE state.timeOffset

\* The errors for which the attempt loop goes round again.
Retries(m) ==
  m.kind = "badSalt" \/ (m.kind = "badMsg" /\ isRetriableBadMessageCode(m.code))

\* Mutant of MayRetry: one attempt too many.
MayRetryOnceMore(c) == call[c].attempt <= MaxAttempts

MayRetry(c) == call[c].attempt < MaxAttempts

\* abridgedRead, parseEncryptedPacket and handleMessage on one packet.
Read(c, now) ==
  /\ call[c].pc = "read" /\ conn.up /\ conn.in /\ toClient # <<>>
  /\ toClient' = Tail(toClient)
  /\ LET packet == Head(toClient)
         id     == call[c].msgID
         n      == Handled(packet, id)
         last   == packet[n]
         salt   == InstalledSalt(packet, n, state.serverSalt)
     IN  IF ~Settles(last, id)
         THEN /\ state' = [state EXCEPT !.serverSalt = salt]
              /\ UNCHANGED <<mutex, call, stale>>
         ELSE IF Retries(last)
         THEN /\ state' = [state EXCEPT !.serverSalt = salt,
                             !.timeOffset = adjustTimeOffset(id, last.code, now)]
              /\ stale' = IF last.req = id THEN stale
                          ELSE [stale EXCEPT ![call[c].body] = @ + 1]
              /\ IF MayRetry(c)
                 THEN /\ call' = [call EXCEPT ![c].pc = "send"]
                      /\ UNCHANGED mutex
                 ELSE Returned(c, last.kind, 0)
         ELSE /\ state' = [state EXCEPT !.serverSalt = salt]
              /\ Returned(c, last.kind, IF last.kind = "result" THEN last.of ELSE 0)
              /\ UNCHANGED stale
  /\ UNCHANGED <<calls, conn, sent, serverVars, toServer>>

\* Mutant of ReadTimeout: a request that got no answer in time is sent again.
ReadTimeoutResends(c) ==
  /\ call[c].pc = "read" /\ conn.up
  /\ call' = [call EXCEPT ![c].pc = "send"]
  /\ MayRetry(c)
  /\ UNCHANGED <<state, mutex, calls, conn, sent, stale, serverVars, toServer, toClient>>

\* Mutant of ReadTimeout: only the first attempt has a deadline.
ReadTimeoutFirstAttempt(c) ==
  /\ call[c].pc = "read" /\ conn.up /\ call[c].attempt = 1
  /\ Returned(c, "netError", 0)
  /\ UNCHANGED <<state, calls, conn, sent, stale, serverVars, toServer, toClient>>

\* The deadline passes between two packets: the stream can still be read.
ReadTimeout(c) ==
  /\ call[c].pc = "read" /\ conn.up
  /\ Returned(c, "netError", 0)
  /\ UNCHANGED <<state, calls, conn, sent, stale, serverVars, toServer, toClient>>

\* The deadline passes inside a packet: what is read next starts mid-packet.
ReadTimeoutMidPacket(c) ==
  /\ call[c].pc = "read" /\ conn.up /\ conn.in /\ toClient # <<>>
  /\ conn' = [conn EXCEPT !.in = FALSE]
  /\ toClient' = Tail(toClient)
  /\ Returned(c, "netError", 0)
  /\ UNCHANGED <<state, calls, sent, stale, serverVars, toServer>>

\* Bytes read out of step: parseEncryptedPacket's checks reject them.
ReadGarbage(c) ==
  /\ call[c].pc = "read" /\ conn.up /\ ~conn.in /\ toClient # <<>>
  /\ toClient' = Tail(toClient)
  /\ Returned(c, "parseError", 0)
  /\ UNCHANGED <<state, calls, conn, sent, stale, serverVars, toServer>>

\* A read on a connection closed by either side.
ReadClosed(c) ==
  /\ call[c].pc = "read" /\ ~conn.up
  /\ Returned(c, "netError", 0)
  /\ UNCHANGED <<state, calls, conn, sent, stale, serverVars, toServer, toClient>>

\* Close, which does not take the mutex; or the peer closes.
Close ==
  /\ conn.up
  /\ conn' = [conn EXCEPT !.up = FALSE]
  /\ toServer' = <<>> /\ toClient' = <<>>
  /\ UNCHANGED <<state, mutex, call, calls, sent, stale, serverVars>>
-----------------------------------------------------------------------------
(***************************************************************************)
(* The server (external).                                                  *)
(***************************************************************************)
\* A packet with the wrong salt is rejected with the current one.
RejectSalt ==
  /\ toServer # <<>> /\ conn.up
  /\ Head(toServer).salt # srvSalt
  /\ toServer' = Tail(toServer)
  /\ toClient' = Append(toClient,
       <<Message("badSalt", Head(toServer).msgID, 0, srvSalt, 48)>>)
  /\ UNCHANGED <<clientVars, srvSalt, pushes, executed>>

\* A packet can be rejected for its id, its sequence number or its content.
RejectMessage(code) ==
  /\ toServer # <<>> /\ conn.up
  /\ Head(toServer).salt = srvSalt
  /\ toServer' = Tail(toServer)
  /\ toClient' = Append(toClient, <<Message("badMsg", Head(toServer).msgID, 0, 0, code)>>)
  /\ UNCHANGED <<clientVars, srvSalt, pushes, executed>>

\* A packet is run; the answer comes alone or in a container.
Execute(kind, container) ==
  /\ toServer # <<>> /\ conn.up
  /\ LET packet == Head(toServer)
         answer == Message(kind, packet.msgID, packet.body, 0, 0)
         session == Message("newSession", 0, 0, srvSalt, 0)
     IN  /\ packet.salt = srvSalt
         /\ executed' = [executed EXCEPT ![packet.body] = @ + 1]
         /\ toClient' = Append(toClient,
              IF container THEN <<session, answer>> ELSE <<answer>>)
  /\ toServer' = Tail(toServer)
  /\ UNCHANGED <<clientVars, srvSalt, pushes>>

RotateSalt ==
  /\ srvSalt < MaxSalt
  /\ srvSalt' = srvSalt + 1
  /\ UNCHANGED <<clientVars, pushes, executed, toServer, toClient>>

\* Updates, acks, new sessions and transport errors arrive unasked.
Push(kind) ==
  /\ pushes < MaxPushes /\ conn.up
  /\ pushes' = pushes + 1
  /\ toClient' = Append(toClient, <<Message(kind, 0, 0, srvSalt, 0)>>)
  /\ UNCHANGED <<clientVars, srvSalt, executed, toServer>>

ClientStep(c) ==
  \/ Lock(c)
  \/ \E now \in 0..MaxClock : Send(c, now) \/ SendFails(c, now) \/ Read(c, now)
  \/ ReadTimeout(c) \/ ReadTimeoutMidPacket(c) \/ ReadGarbage(c) \/ ReadClosed(c)

ServerStep ==
  \/ RejectSalt
  \/ \E code \in {16, 20, 32} : RejectMessage(code)
  \/ \E kind \in {"result", "rpcError"}, container \in BOOLEAN : Execute(kind, container)

Next ==
  \/ \E c \in Callers : Begin(c) \/ ClientStep(c)
  \/ Close
  \/ ServerStep
  \/ RotateSalt
  \/ \E kind \in {"ack", "newSession", "malformed"} : Push(kind)

\* Go's mutex hands over to waiting goroutines, and a deadline set on the
\* connection ends every read: the client never stops by itself.  Nothing is
\* assumed of the server or of the network.
Fairness ==
  \A c \in Callers : SF_vars(Lock(c)) /\ WF_vars(ClientStep(c))

Spec == Init /\ [][Next]_vars /\ Fairness
-----------------------------------------------------------------------------
Outcomes == {"none", "result", "rpcError", "badSalt", "badMsg", "malformed",
             "netError", "parseError"}

(***************************************************************************)
(* Types, and the link between the mutex and the goroutines' positions.    *)
(***************************************************************************)
TypeOK ==
  /\ state \in [serverSalt : 0..MaxSalt, timeOffset : Int, seq : Nat, lastMsgID : Int]
  /\ mutex \in Callers \cup {"none"}
  /\ call \in [Callers -> [pc : {"idle", "lock", "send", "read"}, body : 0..MaxCalls,
                           attempt : 0..MaxAttempts, msgID : Int,
                           outcome : Outcomes, result : 0..MaxCalls]]
  /\ calls \in 0..MaxCalls
  /\ conn \in [up : BOOLEAN, in : BOOLEAN, out : BOOLEAN]
  /\ srvSalt \in 0..MaxSalt
  /\ pushes \in 0..MaxPushes
  /\ \A c \in Callers : call[c].pc \in {"send", "read"} <=> mutex = c

(***************************************************************************)
(* A call that succeeds returns what the server computed for that call,    *)
(* although the stream it reads may still hold the answers to calls that   *)
(* gave up at their deadline, and to its own earlier attempts.             *)
(***************************************************************************)
OwnResult ==
  \A c \in Callers : call[c].outcome = "result" =>
    call[c].result = call[c].body /\ executed[call[c].body] > 0

(***************************************************************************)
(* Whatever the wall clock does and however often timeOffset is adjusted,  *)
(* message ids and sequence numbers both grow from packet to packet, over  *)
(* all goroutines and retries: the server rejects anything else (codes 16  *)
(* to 33), and an id used twice would confuse two answers.                 *)
(***************************************************************************)
SentInOrder ==
  \A i, j \in 1..Len(sent) : i < j =>
    sent[i].msgID < sent[j].msgID /\ sent[i].seqNo < sent[j].seqNo

(***************************************************************************)
(* The mutex keeps request and answer together: while a goroutine waits    *)
(* for an answer, the last packet written to the connection is its own.    *)
(***************************************************************************)
NoInterleavedRequests ==
  \A c \in Callers : call[c].pc = "read" =>
    sent[Len(sent)].msgID = call[c].msgID /\ sent[Len(sent)].body = call[c].body

(***************************************************************************)
(* A request is retried only if the server refused it, so it runs at most  *)
(* once - except that a late notification about another packet, which the  *)
(* code does not tell apart, may cause one more run each.                  *)
(***************************************************************************)
RunsOnceUnlessMisled ==
  \A b \in Bodies : executed[b] <= 1 + stale[b]

(***************************************************************************)
(* Every Invoke returns: a silent server, a stream out of step, a closed   *)
(* connection or a goroutine queueing for the mutex never block it.        *)
(***************************************************************************)
InvokeReturns == \A c \in Callers : call[c].pc # "idle" ~> call[c].pc = "idle"
=============================================================================
