------------------------------ MODULE Requests ------------------------------
(***************************************************************************)
(* One high-level call of MTProtoBot (SendMessage, EditMessage,            *)
(* DeleteMessages, ForwardMessages, GetHistory, GetMe, ResolveUsername, or *)
(* the messages.sendMedia that ends an upload): its checks, the query with *)
(* its random_id, Invoke, and withFloodWait around them.                   *)
(*                                                                         *)
(* The random_id is drawn when the query is built.  Invoke sends one query *)
(* several times - after a refusal, or misled by a notification that an    *)
(* earlier call left in the stream - while withFloodWait builds a new one  *)
(* for each attempt.  The server (external) refuses a random_id it has     *)
(* seen before it considers anything else.  Packets and answers keep their *)
(* order; an answer names the packet it is for.                            *)
(***************************************************************************)
EXTENDS Integers, Sequences

CONSTANTS AutoFloodWait,
          MaxAttempts,    \* sends per Invoke; the code has 3
          MaxFloods,      \* bound: FLOOD_WAIT answers
          MaxStale        \* bound: notifications left in the stream by earlier calls

ASSUME RequestAssumption ==
  /\ AutoFloodWait \in BOOLEAN /\ MaxAttempts \in Nat \ {0}
  /\ MaxFloods \in Nat /\ MaxStale \in Nat

VARIABLES
  op,         \* the operation called
  pc,
  ready,      \* what the call finds: client, peer, access data, arguments
  random,     \* the random_id of the query
  sends,      \* sends of this query
  packets,    \* packets sent by the call
  toServer,   \* packets on their way: number and random_id
  toClient,   \* answers on their way
  floods,
  result,     \* "none" yet, "ok" or "error"
  remembered, \* ResolveUsername's peer has been stored
  used,       \* the server: random ids it has seen
  posted      \* the server: how often it has posted what was to be posted

wire == <<toServer, toClient>>
requestVars == <<op, ready, random, sends, packets, wire, remembered, used, posted>>

Posting == {"send", "forward", "media"}
Reading == {"me", "resolve"}
RequestOps == {"send", "forward", "edit", "delete", "history"} \cup Reading

Stale == [packet |-> 0, kind |-> "bad"]

RequestInit ==
  /\ ready \in [client : BOOLEAN, cached : BOOLEAN, access : BOOLEAN,
                args : BOOLEAN, channel : BOOLEAN]
  /\ random = 0 /\ sends = 0 /\ packets = 0
  /\ toServer = <<>>
  /\ \E n \in 0..MaxStale : toClient = [i \in 1..n |-> Stale]
  /\ floods = 0 /\ result = "none" /\ remembered = FALSE
  /\ used = {} /\ posted = 0
-----------------------------------------------------------------------------
(***************************************************************************)
(* withFloodWait.                                                          *)
(***************************************************************************)
Ends(r) == pc' = "returned" /\ result' = r

\* An error of the call that is no FLOOD_WAIT, or one too long to wait out.
Fails == Ends("error") /\ UNCHANGED floods

\* A FLOOD_WAIT answer; pc "again" is where the call is made once more.
Flooded(wait) ==
  /\ floods < MaxFloods /\ floods' = floods + 1
  /\ IF AutoFloodWait THEN pc' = wait /\ UNCHANGED result ELSE Ends("error")

\* The wait ends, or the context does.
Waited(again) ==
  \/ pc' = again /\ UNCHANGED result
  \/ Ends("error")
-----------------------------------------------------------------------------
(***************************************************************************)
(* The call.                                                               *)
(***************************************************************************)
\* GetHistory takes any limit; what sendMedia is given was made by UploadFile.
LacksArguments == op \notin {"history", "me", "media"} /\ ~ready.args

\* An InputPeer needs an access hash; messages.deleteMessages names no peer.
LacksAccess ==
  op \notin Reading /\ ~(op = "delete" /\ ~ready.channel) /\ ~ready.access

\* The checks of the bot's and the client's methods: a client, peers that
\* are cached and have their access data, a text or message ids.
Refused ==
  \/ ~ready.client
  \/ op \notin Reading /\ ~ready.cached
  \/ LacksAccess \/ LacksArguments

Check ==
  /\ pc = "check"
  /\ IF Refused THEN Ends("error") ELSE pc' = "query" /\ UNCHANGED result
  /\ UNCHANGED <<requestVars, floods>>

\* make...Query: a random_id for what posts a message (one for each message
\* of a forward), once per attempt of withFloodWait.
BuildQuery ==
  /\ pc = "query"
  /\ random' = IF op \in Posting THEN random + 1 ELSE 0
  /\ sends' = 0 /\ pc' = "invoke"
  /\ UNCHANGED <<op, ready, packets, wire, remembered, used, posted, floods, result>>

\* Mutant of Transmit: the random_id is drawn for each packet.
TransmitDraws ==
  /\ pc = "invoke"
  /\ sends' = sends + 1 /\ packets' = packets + 1
  /\ random' = random + 1
  /\ toServer' = Append(toServer, [packet |-> packets + 1, random |-> random + 1])
  /\ pc' = "reply"
  /\ UNCHANGED <<op, ready, toClient, remembered, used, posted, floods, result>>

\* An attempt of encryptedState.invoke sends the query as it is.
Transmit ==
  /\ pc = "invoke"
  /\ sends' = sends + 1 /\ packets' = packets + 1
  /\ toServer' = Append(toServer, [packet |-> packets + 1, random |-> random])
  /\ pc' = "reply"
  /\ UNCHANGED <<op, ready, random, toClient, remembered, used, posted, floods, result>>

\* GetMe and ResolveUsername may find nothing in the answer; the latter
\* stores the peer it finds.
Answered ==
  \/ /\ Ends("ok") /\ remembered' = (op = "resolve")
  \/ /\ op \in Reading /\ Ends("error") /\ UNCHANGED remembered

\* An answer is read: to an earlier packet it is passed over, unless it is a
\* notification, which makes Invoke send the query again.
Reply ==
  /\ pc = "reply" /\ toClient # <<>>
  /\ LET answer == Head(toClient)
     IN  CASE answer.kind = "bad" ->
                /\ IF sends < MaxAttempts THEN pc' = "invoke" /\ UNCHANGED result
                                          ELSE Ends("error")
                /\ UNCHANGED <<floods, remembered>>
           [] answer.kind # "bad" /\ answer.packet # packets ->
                UNCHANGED <<pc, result, floods, remembered>>
           [] answer.kind = "flood" /\ answer.packet = packets ->
                Flooded("waitQuery") /\ UNCHANGED remembered
           [] answer.kind = "error" /\ answer.packet = packets ->
                Fails /\ UNCHANGED remembered
           [] answer.kind = "ok" /\ answer.packet = packets ->
                Answered /\ UNCHANGED floods
  /\ toClient' = Tail(toClient)
  /\ UNCHANGED <<op, ready, random, sends, packets, toServer, used, posted>>

\* The deadline passes, or the connection fails; what is under way may still
\* reach the server.
GiveUp ==
  /\ pc \in {"invoke", "reply"} /\ Fails
  /\ UNCHANGED requestVars

WaitQuery ==
  /\ pc = "waitQuery" /\ Waited("query")
  /\ UNCHANGED <<requestVars, floods>>
-----------------------------------------------------------------------------
\* The server (external): a packet is refused as a packet; its random_id is
\* a duplicate; it is refused or put off; or it is run.
Serve ==
  /\ toServer # <<>>
  /\ toServer' = Tail(toServer)
  /\ LET packet == Head(toServer)
         Say(kind) == toClient' = Append(toClient, [packet |-> packet.packet, kind |-> kind])
     IN  \/ Say("bad") /\ UNCHANGED <<used, posted>>
         \/ packet.random \in used /\ Say("error") /\ UNCHANGED <<used, posted>>
         \/ /\ packet.random \notin used
            /\ \/ Say("error") /\ UNCHANGED <<used, posted>>
               \/ Say("flood") /\ UNCHANGED <<used, posted>>
               \/ /\ Say("ok")
                  /\ used' = used \cup ({packet.random} \ {0})
                  /\ posted' = IF op \in Posting THEN posted + 1 ELSE posted
  /\ UNCHANGED <<op, ready, random, sends, packets, remembered, pc, floods, result>>

RequestStep ==
  \/ Check \/ BuildQuery \/ Transmit \/ Reply \/ GiveUp \/ WaitQuery \/ Serve
-----------------------------------------------------------------------------
(***************************************************************************)
(* A call posts its message at most once, and exactly once if it succeeds, *)
(* although Invoke may send the query again after it was run, and          *)
(* withFloodWait starts over with another random_id.                       *)
(***************************************************************************)
PostedOnce ==
  /\ posted <= 1
  /\ op \in Posting /\ result = "ok" => posted = 1
=============================================================================
