----------------------------- MODULE MediaProofs -----------------------------
(***************************************************************************)
(* Proofs about the high-level calls and the transfers of media, for every *)
(* size, limit and part size, and for any number of FLOOD_WAIT answers and *)
(* of notifications left in the stream.                                    *)
(*                                                                         *)
(* Three invariants: what of a query is on the wire and what the server    *)
(* has done with it; where in the file an upload reads; and how the        *)
(* writer's tail and the offset of a download belong together.             *)
(***************************************************************************)
EXTENDS MediaTransfer, SequenceTheorems, TLAPS

\* Where no packet of the call is under way.
Early == {"check", "query", "waitQuery", "call", "waitCall", "read", "save", "get"}

Typed ==
  /\ op \in RequestOps \cup {"media", "download"}
  /\ pc \in Early \cup {"invoke", "reply", "returned"}
  /\ result \in {"none", "ok", "error"} /\ (result # "none" <=> pc = "returned")
  /\ pc = "get" => op = "download"
  /\ pc \in {"read", "save"} => op = "media"
  /\ op = "download" => pc \in {"call", "waitCall", "get", "returned"}

Packets == [packet : Nat, random : Nat]
Answers == [packet : Nat, kind : {"bad", "error", "flood", "ok"}]

Wire ==
  /\ random \in Nat /\ packets \in Nat
  /\ toServer \in Seq(Packets) /\ toClient \in Seq(Answers)

\* All packets under way are of the current query, the last one sent being the
\* last; before and between queries there are none, and nothing was posted.
Sent ==
  /\ \A i \in 1..Len(toServer) :
       toServer[i].packet = packets - Len(toServer) + i /\ toServer[i].random = random
  /\ pc \in Early => used = {} /\ toServer = <<>>
  /\ toServer # <<>> \/ pc \in {"invoke", "reply"} => (random # 0 <=> op \in Posting)

\* A FLOOD_WAIT for the last packet says that no packet of the query was run
\* and none is to come; an answer "ok" says that one was.
Told ==
  \A i \in 1..Len(toClient) :
    /\ toClient[i].packet <= packets
    /\ toClient[i].kind = "flood" /\ toClient[i].packet = packets => used = {} /\ toServer = <<>>
    /\ op \in Posting /\ toClient[i].kind = "ok" => posted = 1

\* The server has posted exactly for the random ids it has seen: at most the
\* current one.
Counted ==
  /\ op \in Posting => used \subseteq {random} \ {0} /\ posted = (IF used = {} THEN 0 ELSE 1)
  /\ op \notin Posting => random = 0 /\ used = {} /\ posted = 0
  /\ op \in Posting /\ result = "ok" => posted = 1

Queried == Typed /\ Wire /\ Sent /\ Told /\ Counted
------------------------------------------------------------------------------
LEMMA InitQueried == Init => Queried
<1> SUFFICES ASSUME Init PROVE Queried
  OBVIOUS
<1>1. Typed
  BY DEF Init, RequestInit, Typed, Early, RequestOps, Reading
<1>2. PICK n \in 0..MaxStale : toClient = [i \in 1..n |-> Stale]
  BY DEF Init, RequestInit
<1>3. Stale \in Answers /\ Stale.packet = 0 /\ Stale.kind = "bad"
  BY DEF Stale, Answers
<1>4. n \in Nat
  BY RequestAssumption
<1>5. toClient \in Seq(Answers) /\ Len(toClient) = n /\ \A i \in 1..n : toClient[i] = Stale
  BY <1>2, <1>3, <1>4
<1>6. Wire
  BY <1>5 DEF Init, RequestInit, Wire
<1>7. Told
  BY <1>3, <1>5 DEF Init, RequestInit, Told
<1>8. Sent /\ Counted
  BY DEF Init, RequestInit, Sent, Counted, Early
<1> QED BY <1>1, <1>6, <1>7, <1>8 DEF Queried

LEMMA NextQueried == Queried /\ [Next]_callVars => Queried'
<1> SUFFICES ASSUME Queried, [Next]_callVars PROVE Queried'
  OBVIOUS
<1>a. Typed /\ Wire /\ Sent /\ Told /\ Counted
  BY DEF Queried
<1>1. CASE Check
  BY <1>1, <1>a DEF Check, Ends, requestVars, wire, Queried, Typed, Early, Wire, Sent, Told, Counted
<1>2. CASE BuildQuery
  <2>1. Typed'
    BY <1>2, <1>a DEF BuildQuery, Typed, Early
  <2>2. used = {} /\ toServer = <<>> /\ random' \in Nat /\ (random' # 0 <=> op \in Posting)
    BY <1>2, <1>a DEF BuildQuery, Wire, Sent, Early
  <2>3. Wire' /\ Sent' /\ Told'
    BY <1>2, <1>a, <2>2 DEF BuildQuery, wire, Wire, Sent, Told, Early
  <2>4. Counted'
    BY <1>2, <1>a, <2>2 DEF BuildQuery, Counted
  <2> QED BY <2>1, <2>3, <2>4 DEF Queried
<1>3. CASE Transmit
  <2>1. Typed'
    BY <1>3, <1>a DEF Transmit, Typed, Early
  <2> DEFINE p == [packet |-> packets + 1, random |-> random]
  <2>2. p \in Packets /\ p.packet = packets + 1 /\ p.random = random
    BY <1>a DEF Wire, Packets
  <2>3. toServer' = Append(toServer, p) /\ packets' = packets + 1
        /\ UNCHANGED <<op, random, toClient, used, posted, result>>
    BY <1>3 DEF Transmit
  <2> HIDE DEF p
  <2>4. /\ toServer' \in Seq(Packets) /\ Len(toServer') = Len(toServer) + 1
        /\ \A i \in 1..Len(toServer) : toServer'[i] = toServer[i]
        /\ toServer'[Len(toServer) + 1] = p
    BY <1>a, <2>2, <2>3 DEF Wire
  <2>5. Wire'
    BY <1>a, <2>3, <2>4 DEF Wire
  <2>6. \A i \in 1..Len(toServer') :
          toServer'[i].packet = packets' - Len(toServer') + i /\ toServer'[i].random = random'
    <3> SUFFICES ASSUME NEW i \in 1..Len(toServer')
                 PROVE  /\ toServer'[i].packet = packets' - Len(toServer') + i
                        /\ toServer'[i].random = random'
      OBVIOUS
    <3>1. packets \in Nat /\ Len(toServer) \in Nat
      BY <1>a DEF Wire
    <3>2. CASE i \in 1..Len(toServer)
      BY <1>a, <2>3, <2>4, <3>1, <3>2 DEF Sent
    <3>3. CASE i = Len(toServer) + 1
      BY <2>2, <2>3, <2>4, <3>1, <3>3
    <3> QED BY <2>4, <3>1, <3>2, <3>3
  <2>7. Sent'
    BY <1>3, <1>a, <2>3, <2>6 DEF Transmit, Sent, Early
  <2>8. Told'
    <3> SUFFICES ASSUME NEW i \in 1..Len(toClient)
                 PROVE  /\ toClient[i].packet <= packets + 1 /\ toClient[i].packet # packets + 1
                        /\ op \in Posting /\ toClient[i].kind = "ok" => posted = 1
      BY <2>3 DEF Told
    <3>1. toClient[i] \in Answers /\ packets \in Nat
      BY <1>a, ElementOfSeq DEF Wire
    <3> QED BY <1>a, <3>1 DEF Told, Answers
  <2>9. Counted'
    BY <1>a, <2>3 DEF Counted
  <2> QED BY <2>1, <2>5, <2>7, <2>8, <2>9 DEF Queried
<1>4. CASE Reply
  <2> DEFINE answer == Head(toClient)
  <2>1. toClient # <<>> /\ toClient' = Tail(toClient) /\ pc = "reply"
        /\ UNCHANGED <<op, ready, random, sends, packets, toServer, used, posted>>
    BY <1>4 DEF Reply
  <2>2. /\ Len(toClient) > 0 /\ answer = toClient[1] /\ answer \in Answers
        /\ toClient' \in Seq(Answers) /\ Len(toClient') = Len(toClient) - 1
        /\ \A i \in 1..Len(toClient') : i + 1 \in 1..Len(toClient) /\ toClient'[i] = toClient[i + 1]
    BY <1>a, <2>1 DEF Wire
  <2>3. Wire'
    BY <1>a, <2>1, <2>2 DEF Wire
  <2>4. Told'
    BY <1>a, <2>1, <2>2 DEF Told
  <2>5. /\ answer.kind \in {"bad", "error", "flood", "ok"}
        /\ answer.kind = "flood" /\ answer.packet = packets => used = {} /\ toServer = <<>>
        /\ op \in Posting /\ answer.kind = "ok" => posted = 1
    BY <1>a, <2>2 DEF Told, Answers
  <2>6. \/ pc' \in {"invoke", "reply"} /\ result' = result
        \/ pc' = "returned" /\ result' = "error"
        \/ pc' = "waitQuery" /\ result' = result /\ answer.kind = "flood" /\ answer.packet = packets
        \/ pc' = "returned" /\ result' = "ok" /\ answer.kind = "ok"
    BY <1>4, <2>5 DEF Reply, Ends, Fails, Flooded, Answered
  <2> HIDE DEF answer
  <2>7. Typed'
    BY <1>a, <2>1, <2>6 DEF Typed, Early
  <2>8. Sent'
    BY <1>a, <2>1, <2>5, <2>6 DEF Sent, Early
  <2>9. Counted'
    BY <1>a, <2>1, <2>5, <2>6 DEF Typed, Counted
  <2> QED BY <2>3, <2>4, <2>7, <2>8, <2>9 DEF Queried
<1>5. CASE GiveUp
  BY <1>5, <1>a DEF GiveUp, Fails, Ends, requestVars, wire, Queried, Typed, Early, Wire, Sent,
                    Told, Counted
<1>6. CASE WaitQuery
  BY <1>6, <1>a DEF WaitQuery, Waited, Ends, requestVars, wire, Queried, Typed, Early, Wire, Sent,
                    Told, Counted
<1>7. CASE Serve
  <2> DEFINE packet == Head(toServer)
  <2>1. toServer # <<>> /\ toServer' = Tail(toServer)
        /\ UNCHANGED <<op, random, packets, pc, result>>
    BY <1>7 DEF Serve
  <2>2. /\ Len(toServer) > 0 /\ packet = toServer[1] /\ packet \in Packets
        /\ toServer' \in Seq(Packets) /\ Len(toServer') = Len(toServer) - 1
        /\ \A i \in 1..Len(toServer') : i + 1 \in 1..Len(toServer) /\ toServer'[i] = toServer[i + 1]
    BY <1>a, <2>1 DEF Wire
  <2>3. /\ packet.packet = packets - Len(toServer) + 1 /\ packet.random = random
        /\ pc \notin Early /\ (random # 0 <=> op \in Posting)
        /\ packets \in Nat /\ Len(toServer) \in Nat
    BY <1>a, <2>1, <2>2 DEF Sent, Wire
  <2> HIDE DEF packet
  <2>4. PICK kind \in {"bad", "error", "flood", "ok"} :
          /\ toClient' = Append(toClient, [packet |-> packet.packet, kind |-> kind])
          /\ kind = "flood" => random \notin used
          /\ kind # "ok" => UNCHANGED <<used, posted>>
          /\ kind = "ok" => /\ random \notin used /\ used' = used \cup ({random} \ {0})
                            /\ posted' = IF op \in Posting THEN posted + 1 ELSE posted
    BY <1>7, <2>3 DEF Serve, packet
  <2> DEFINE a == [packet |-> packet.packet, kind |-> kind]
  <2>5. a \in Answers /\ a.packet = packets - Len(toServer) + 1 /\ a.kind = kind
    BY <2>2, <2>3 DEF Packets, Answers
  <2> HIDE DEF a
  <2>6. /\ toClient' \in Seq(Answers) /\ Len(toClient') = Len(toClient) + 1
        /\ \A i \in 1..Len(toClient) : toClient'[i] = toClient[i]
        /\ toClient'[Len(toClient) + 1] = a
    BY <1>a, <2>4, <2>5 DEF Wire, a
  <2>7. Typed'
    BY <1>a, <2>1 DEF Typed
  <2>8. Wire'
    BY <1>a, <2>1, <2>2, <2>6 DEF Wire
  <2>9. Sent'
    BY <1>a, <2>1, <2>2, <2>3 DEF Sent
  <2>10. Counted' /\ (op \in Posting /\ kind = "ok" => posted' = 1)
         /\ (op \in Posting /\ posted = 1 => posted' = 1)
    <3>1. CASE op \in Posting
      <4>1. random # 0 /\ (random \notin used => used = {})
        BY <1>a, <2>3, <3>1 DEF Counted
      <4> QED BY <1>a, <2>1, <2>4, <3>1, <4>1 DEF Counted
    <3>2. CASE op \notin Posting
      BY <1>a, <2>1, <2>4, <3>2 DEF Counted
    <3> QED BY <3>1, <3>2
  <2>11. Told'
    <3> SUFFICES ASSUME NEW i \in 1..(Len(toClient) + 1)
                 PROVE  /\ toClient'[i].packet <= packets
                        /\ toClient'[i].kind = "flood" /\ toClient'[i].packet = packets
                             => used' = {} /\ toServer' = <<>>
                        /\ op \in Posting /\ toClient'[i].kind = "ok" => posted' = 1
      BY <2>1, <2>6 DEF Told
    <3>1. CASE i \in 1..Len(toClient)
      <4>1. ~(toClient[i].kind = "flood" /\ toClient[i].packet = packets)
        BY <1>a, <2>1, <3>1 DEF Told
      <4> QED BY <1>a, <2>6, <2>10, <3>1, <4>1 DEF Told
    <3>2. CASE i = Len(toClient) + 1
      <4>1. a.packet <= packets /\ (a.packet = packets => Len(toServer') = 0)
        BY <2>2, <2>3, <2>5
      <4>2. Len(toServer') = 0 => toServer' = <<>>
        BY <2>2
      <4>3. kind = "flood" => used' = {}
        BY <1>a, <2>4 DEF Counted
      <4> QED BY <2>5, <2>6, <2>10, <3>2, <4>1, <4>2, <4>3
    <3>3. Len(toClient) \in Nat
      BY <1>a DEF Wire
    <3> QED BY <3>1, <3>2, <3>3
  <2> QED BY <2>7, <2>8, <2>9, <2>10, <2>11 DEF Queried
<1>8. CASE TransferStep /\ UNCHANGED requestVars
  <2>1. /\ pc \in Early \ {"query", "waitQuery", "check"}
        /\ \/ pc' \in Early /\ result' = result
           \/ pc' = "returned" /\ result' = "error"
           \/ pc' = "returned" /\ result' = "ok" /\ pc = "get"
        /\ pc' = "get" => op = "download" \/ pc = "get"
        /\ pc' \in {"read", "save"} => op = "media" \/ pc \in {"read", "save"}
        /\ op = "download" /\ pc \notin {"read", "save"} =>
             pc' \in {"call", "waitCall", "get", "returned"}
    BY <1>8, <1>a DEF TransferStep, WaitCall, CallFails, UploadCall, UploadRead, UploadSave,
                      DownloadCall, DownloadGet, DownloadShortWrite, Waited, Fails, Flooded, Ends,
                      Early
  <2>2. UNCHANGED <<op, random, packets, toServer, toClient, used, posted>>
    BY <1>8 DEF requestVars, wire
  <2>3. Typed'
    BY <1>a, <2>1, <2>2 DEF Typed, Early
  <2>4. Wire' /\ Sent' /\ Told'
    BY <1>a, <2>1, <2>2 DEF Wire, Sent, Told, Early
  <2>5. Counted'
    <3>1. result' = "ok" => result = "ok" \/ op \notin Posting
      BY <1>a, <2>1 DEF Typed, Posting
    <3> QED BY <1>a, <2>2, <3>1 DEF Counted
  <2> QED BY <2>3, <2>4, <2>5 DEF Queried
<1>9. CASE UNCHANGED callVars
  BY <1>9, <1>a DEF callVars, requestVars, wire, Queried, Typed, Wire, Sent, Told, Counted
<1> QED BY <1>1, <1>2, <1>3, <1>4, <1>5, <1>6, <1>7, <1>8, <1>9 DEF Next, RequestStep

LEMMA AlwaysQueried == Spec => []Queried
BY InitQueried, NextQueried, PTL DEF Spec

\* A call posts its message at most once, and exactly once if it returns nil:
\* Invoke's repeated packets share a random_id, and withFloodWait draws another
\* one only when no packet of the query was run and none is under way.
THEOREM PostsOnce == Spec => []PostedOnce
<1>1. Queried => PostedOnce
  BY DEF Queried, Counted, PostedOnce
<1> QED BY <1>1, AlwaysQueried, PTL
------------------------------------------------------------------------------
(***************************************************************************)
(* Bytes and part sizes.                                                   *)
(***************************************************************************)
LEMMA BytesAreASequence ==
  ASSUME NEW lo \in Nat, NEW hi \in Nat, lo <= hi
  PROVE  /\ Bytes(lo, hi) \in Seq(Nat) /\ Len(Bytes(lo, hi)) = hi - lo
         /\ \A i \in 1..(hi - lo) : Bytes(lo, hi)[i] = lo + i - 1
<1>1. hi - lo \in Nat
  OBVIOUS
<1>2. \A i \in 1..(hi - lo) : lo + i - 1 \in Nat
  OBVIOUS
<1>3. Bytes(lo, hi) \in [1..(hi - lo) -> Nat]
  BY <1>2 DEF Bytes
<1> QED BY <1>1, <1>3 DEF Bytes

\* Whatever PartSize is asked for, parts are not empty.
LEMMA PartSizePositive ==
  ASSUME NEW v \in Int
  PROVE  normalizePartSize(v) \in Nat \ {0}
<1> DEFINE asked == Clamp(IF v <= 0 THEN DefaultUploadPartSize ELSE v,
                          minUploadPartSize, maxUploadPartSize)
           rounded == (asked \div PartStep) * PartStep
<1>1. asked \in Nat
  BY MediaAssumption DEF Clamp
<1>2. asked \div PartStep \in Int /\ PartStep \in Int
  BY <1>1, MediaAssumption
<1> HIDE DEF asked
<1>3. rounded \in Int
  BY <1>2
<1>4. normalizePartSize(v) = IF rounded <= 0 THEN minUploadPartSize ELSE rounded
  BY DEF normalizePartSize, asked
<1> QED BY <1>3, <1>4, MediaAssumption

\* What a transfer is called with.
LEMMA InputTyped ==
  ASSUME Init, op \in {"media", "download"}
  PROVE  /\ size \in Nat /\ partSize \in Nat \ {0} /\ limit \in Nat /\ avail \in 0..size
         /\ pc = "call"
<1>1. op \notin RequestOps
  BY DEF RequestOps, Reading
<1>2. PICK v \in PartSizes : partSize = normalizePartSize(v)
  BY <1>1 DEF Init
<1>3. v \in Int
  BY MediaAssumption
<1>4. size \in Nat /\ pc = "call"
      /\ IF op = "media" THEN avail \in 0..size /\ limit = 0 ELSE avail = size /\ limit \in Limits
  BY <1>1, MediaAssumption DEF Init
<1>5. limit \in Nat /\ avail \in 0..size
  <2>1. size \in 0..size
    BY <1>4
  <2>2. limit \in Limits => limit \in Nat
    BY MediaAssumption
  <2> QED BY <1>4, <2>1, <2>2
<1> QED BY <1>2, <1>3, <1>4, <1>5, PartSizePositive

\* The call does not change its operation nor what it was given.
LEMMA InputKept == [Next]_callVars => UNCHANGED <<op, input>>
<1> SUFFICES ASSUME [Next]_callVars PROVE UNCHANGED <<op, input>>
  OBVIOUS
<1>1. CASE RequestStep /\ UNCHANGED transferVars
  BY <1>1 DEF RequestStep, Check, BuildQuery, Transmit, Reply, GiveUp, WaitQuery, Serve,
              requestVars, transferVars
<1>2. CASE TransferStep /\ UNCHANGED requestVars
  BY <1>2 DEF TransferStep, WaitCall, CallFails, UploadCall, UploadRead, UploadSave, DownloadCall,
              DownloadGet, DownloadShortWrite, requestVars, transferVars
<1>3. CASE UNCHANGED callVars
  BY <1>3 DEF callVars, requestVars, transferVars
<1> QED BY <1>1, <1>2, <1>3 DEF Next
------------------------------------------------------------------------------
(***************************************************************************)
(* Download: the writer's last offset bytes are the first of the file.     *)
(***************************************************************************)
Tail0 == \A i \in 1..offset : out[Len(out) - offset + i] = i - 1

Fetched ==
  op = "download" =>
    /\ size \in Nat /\ limit \in Nat /\ partSize \in Nat \ {0}
    /\ out \in Seq(Nat) /\ offset \in Nat /\ offset <= Len(out) /\ offset <= Wanted
    /\ Tail0
    /\ result = "ok" => offset = Wanted

\* Bytes that follow those of the tail lengthen it.
LEMMA TailGrows ==
  ASSUME out \in Seq(Nat), offset \in Nat, offset <= Len(out), Tail0, NEW q \in Seq(Nat),
         \A i \in 1..Len(q) : q[i] = offset + i - 1,
         out' = out \o q, offset' = offset + Len(q)
  PROVE  out' \in Seq(Nat) /\ offset' \in Nat /\ offset' <= Len(out') /\ Tail0'
<1>1. /\ out' \in Seq(Nat) /\ Len(out') = Len(out) + Len(q) /\ Len(q) \in Nat /\ Len(out) \in Nat
      /\ \A i \in 1..Len(out) : out'[i] = out[i]
      /\ \A i \in 1..Len(q) : out'[Len(out) + i] = q[i]
  BY ConcatProperties
<1>2. PICK n \in Nat : n = offset' /\ n = offset + Len(q)
  BY <1>1
<1>3. ASSUME NEW i \in 1..n PROVE out'[Len(out) + Len(q) - n + i] = i - 1
  <2>1. CASE i <= offset
    <3>1. Len(out) + Len(q) - n + i = Len(out) - offset + i /\ Len(out) - offset + i \in 1..Len(out)
          /\ i \in 1..offset
      BY <1>1, <1>2, <2>1
    <3> QED BY <1>1, <3>1 DEF Tail0
  <2>2. CASE i > offset
    <3>1. PICK j \in 1..Len(q) : i = offset + j
      <4>1. i - offset \in 1..Len(q) /\ i = offset + (i - offset)
        BY <1>1, <1>2, <2>2
      <4> QED BY <4>1
    <3>2. Len(out) + Len(q) - n + i = Len(out) + j
      BY <1>1, <1>2, <3>1
    <3> QED BY <1>1, <3>1, <3>2
  <2>3. i <= offset \/ i > offset
    OBVIOUS
  <2> QED BY <2>1, <2>2, <2>3
<1>4. Tail0'
  BY <1>1, <1>2, <1>3 DEF Tail0
<1> QED BY <1>1, <1>2, <1>4

\* The part that upload.getFile sends: not empty unless the file ends, and
\* within the limit.
LEMMA PartFetched ==
  ASSUME Fetched, op = "download", partLimit > 0
  PROVE  /\ Part \in Seq(Nat) /\ Len(Part) \in Nat /\ \A i \in 1..Len(Part) : Part[i] = offset + i - 1
         /\ offset + Len(Part) <= Wanted
         /\ Len(Part) < partLimit => offset + Len(Part) = Wanted
<1>1. size \in Nat /\ limit \in Nat /\ partSize \in Nat \ {0} /\ offset \in Nat /\ offset <= Wanted
  BY DEF Fetched
<1>2. /\ offset <= size /\ (limit > 0 => offset <= limit)
      /\ partLimit \in Nat /\ (limit > 0 => offset + partLimit <= limit)
  BY <1>1 DEF Wanted, AtMost, partLimit
<1> DEFINE hi == AtMost(offset + partLimit, size)
<1>3. hi \in Nat /\ offset <= hi
  BY <1>1, <1>2 DEF AtMost
<1>4. Part = Bytes(offset, hi)
  BY DEF Part
<1>5. Part \in Seq(Nat) /\ Len(Part) = hi - offset /\ \A i \in 1..(hi - offset) : Part[i] = offset + i - 1
  BY <1>1, <1>3, <1>4, BytesAreASequence
<1> HIDE DEF hi
<1>6. hi <= Wanted /\ (hi - offset < partLimit => hi = Wanted)
  BY <1>1, <1>2 DEF hi, AtMost, Wanted
<1> QED BY <1>1, <1>3, <1>5, <1>6

LEMMA InitFetched == Init => Fetched
<1> SUFFICES ASSUME Init, op = "download" PROVE Fetched
  BY DEF Fetched
<1>1. /\ size \in Nat /\ partSize \in Nat \ {0} /\ limit \in Nat
      /\ offset = 0 /\ out = <<>> /\ result = "none"
  BY InputTyped DEF Init, RequestInit
<1> QED BY <1>1 DEF Fetched, Tail0, Wanted, AtMost

LEMMA NextFetched == Typed /\ Fetched /\ [Next]_callVars => Fetched'
<1> SUFFICES ASSUME Typed, Fetched, [Next]_callVars, op = "download" PROVE Fetched'
  BY InputKept DEF Fetched
<1>a. /\ size \in Nat /\ limit \in Nat /\ partSize \in Nat \ {0} /\ UNCHANGED <<op, size, limit, partSize>>
      /\ out \in Seq(Nat) /\ offset \in Nat /\ offset <= Len(out) /\ offset <= Wanted /\ Tail0
      /\ Wanted \in Nat /\ Wanted' = Wanted
  BY InputKept DEF Fetched, input, Wanted, AtMost
<1>b. pc \in {"call", "waitCall", "get", "returned"}
  BY DEF Typed
<1>1. ASSUME UNCHANGED <<offset, out>>, result' = "ok" => offset = Wanted PROVE Fetched'
  BY <1>1, <1>a DEF Fetched, Tail0
<1>2. CASE RequestStep /\ UNCHANGED transferVars
  <2>1. result' = result
    BY <1>2, <1>b DEF RequestStep, Check, BuildQuery, Transmit, Reply, GiveUp, WaitQuery, Serve
  <2> QED BY <1>1, <1>2, <2>1 DEF transferVars, Fetched
<1>3. CASE WaitCall \/ CallFails
  <2>1. UNCHANGED <<offset, out>> /\ (result' = "ok" => result = "ok")
    BY <1>3 DEF WaitCall, CallFails, Waited, Fails, Ends, transferVars
  <2> QED BY <1>1, <2>1 DEF Fetched
<1>4. CASE UploadCall \/ UploadRead \/ UploadSave
  BY <1>4, <1>b DEF UploadCall, UploadRead, UploadSave
<1>5. CASE DownloadCall
  <2>1. offset' = 0 /\ out' = out /\ result' # "ok"
    BY <1>5 DEF DownloadCall, Typed
  <2> QED BY <1>a, <2>1 DEF Fetched, Tail0
<1>6. CASE DownloadGet
  <2>1. CASE partLimit <= 0
    <3>1. UNCHANGED <<offset, out>>
      BY <1>6, <2>1 DEF DownloadGet
    <3>2. offset = Wanted
      BY <1>a, <2>1 DEF partLimit, Wanted, AtMost
    <3> QED BY <1>1, <3>1, <3>2
  <2>2. CASE ~(partLimit <= 0)
    <3>1. partLimit \in Int /\ partLimit > 0
      BY <1>a, <2>2 DEF partLimit
    <3>2. /\ Part \in Seq(Nat) /\ Len(Part) \in Nat /\ \A i \in 1..Len(Part) : Part[i] = offset + i - 1
          /\ offset + Len(Part) <= Wanted
          /\ Len(Part) < partLimit => offset + Len(Part) = Wanted
      BY <3>1, PartFetched
    <3>3. CASE out' = out \o Part /\ offset' = offset + Len(Part)
               /\ IF Len(Part) < partLimit THEN Ends("ok") ELSE UNCHANGED <<pc, result>>
      <4>1. out' \in Seq(Nat) /\ offset' \in Nat /\ offset' <= Len(out') /\ Tail0'
        BY <1>a, <3>2, <3>3, TailGrows
      <4>2. result' = "ok" => Len(Part) < partLimit
        BY <1>6, <3>3 DEF DownloadGet, Typed
      <4> QED BY <1>a, <3>2, <3>3, <4>1, <4>2 DEF Fetched
    <3>4. CASE UNCHANGED <<offset, out>> /\ (Fails \/ Flooded("waitCall"))
      <4>1. result' = "ok" => result = "ok"
        BY <3>4 DEF Fails, Flooded, Ends
      <4> QED BY <1>1, <3>4, <4>1 DEF Fetched
    <3> QED BY <1>6, <2>2, <3>3, <3>4 DEF DownloadGet
  <2> QED BY <2>1, <2>2
<1>7. CASE DownloadShortWrite
  <2>1. /\ Part \in Seq(Nat) /\ Len(Part) \in Nat /\ \A i \in 1..Len(Part) : Part[i] = offset + i - 1
        /\ offset + Len(Part) <= Wanted
    BY <1>7, PartFetched DEF DownloadShortWrite
  <2>2. PICK n \in 0..(Len(Part) - 1) : out' = out \o SubSeq(Part, 1, n) /\ offset' = offset + n
    BY <1>7 DEF DownloadShortWrite
  <2> DEFINE q == SubSeq(Part, 1, n)
  <2>3. q \in Seq(Nat) /\ Len(q) = n /\ \A i \in 1..n : q[i] = Part[i]
    BY <2>1, SubSeqProperties
  <2> HIDE DEF q
  <2>4. \A i \in 1..Len(q) : q[i] = offset + i - 1
    <3>1. \A i \in 1..Len(q) : i \in 1..n /\ i \in 1..Len(Part)
      BY <2>1, <2>3
    <3> QED BY <2>1, <2>3, <3>1
  <2>5. out' = out \o q /\ offset' = offset + Len(q)
    BY <2>2, <2>3 DEF q
  <2>6. out' \in Seq(Nat) /\ offset' \in Nat /\ offset' <= Len(out') /\ Tail0'
    BY <1>a, <2>3, <2>4, <2>5, TailGrows
  <2>7. result' = "error"
    BY <1>7 DEF DownloadShortWrite, Fails, Ends
  <2> QED BY <1>a, <2>1, <2>2, <2>6, <2>7 DEF Fetched
<1>8. CASE UNCHANGED callVars
  BY <1>1, <1>8 DEF callVars, transferVars, Fetched
<1> QED BY <1>2, <1>3, <1>4, <1>5, <1>6, <1>7, <1>8 DEF Next, TransferStep

\* When DownloadFile returns, the count it gives is that of its last attempt:
\* the writer ends with that many first bytes of the file, and on success they
\* are all that was asked for, whatever earlier attempts have written.
THEOREM DownloadsTail == Spec => []DownloadedTail
<1>1. Fetched => DownloadedTail
  <2> SUFFICES ASSUME Fetched, op = "download"
               PROVE  /\ SubSeq(out, Len(out) - offset + 1, Len(out)) = Bytes(0, offset)
                      /\ result = "ok" => offset = Wanted
    BY DEF DownloadedTail
  <2>1. out \in Seq(Nat) /\ offset \in Nat /\ offset <= Len(out) /\ Tail0 /\ Len(out) \in Nat
    BY DEF Fetched
  <2> DEFINE s == SubSeq(out, Len(out) - offset + 1, Len(out))
  <2>2. /\ s \in Seq(Nat) /\ Len(s) = offset
        /\ \A i \in 1..offset : s[i] = out[Len(out) - offset + i]
    <3>1. PICK lo \in Int : lo = Len(out) - offset + 1 /\ lo >= 1 /\ lo <= Len(out) + 1
      <4>1. Len(out) - offset + 1 \in Int /\ Len(out) - offset + 1 >= 1
            /\ Len(out) - offset + 1 <= Len(out) + 1
        BY <2>1
      <4> QED BY <4>1
    <3>2. /\ SubSeq(out, lo, Len(out)) \in Seq(Nat)
          /\ Len(SubSeq(out, lo, Len(out))) = IF lo <= Len(out) THEN Len(out) - lo + 1 ELSE 0
          /\ \A i \in 1..(Len(out) - lo + 1) : SubSeq(out, lo, Len(out))[i] = out[lo + i - 1]
      <4>1. \A i \in lo..Len(out) : out[i] \in Nat
        BY <2>1, <3>1
      <4> QED BY <2>1, <3>1, <4>1, SubSeqProperties
    <3>3. \A i \in 1..offset : i \in 1..(Len(out) - lo + 1) /\ lo + i - 1 = Len(out) - offset + i
      BY <2>1, <3>1
    <3> QED BY <2>1, <3>1, <3>2, <3>3
  <2>3. /\ Bytes(0, offset) \in Seq(Nat) /\ Len(Bytes(0, offset)) = offset
        /\ \A i \in 1..offset : Bytes(0, offset)[i] = i - 1
    <3>z. 0 \in Nat /\ 0 <= offset
      BY <2>1
    <3>1. /\ Bytes(0, offset) \in Seq(Nat) /\ Len(Bytes(0, offset)) = offset - 0
          /\ \A i \in 1..(offset - 0) : Bytes(0, offset)[i] = 0 + i - 1
      BY <2>1, <3>z, BytesAreASequence
    <3> QED BY <2>1, <3>1
  <2> HIDE DEF s
  <2>4. s = Bytes(0, offset)
    BY <2>1, <2>2, <2>3, SeqEqual DEF Tail0
  <2> QED BY <2>4 DEF s, Fetched
<1>2. Queried => Typed
  BY DEF Queried
<1> QED BY <1>1, <1>2, InitFetched, NextFetched, AlwaysQueried, PTL DEF Spec
------------------------------------------------------------------------------
(***************************************************************************)
(* Upload: an attempt that begins at position s of the reader sends the    *)
(* bytes from s on, and only one that begins at 0 finds enough of them.    *)
(***************************************************************************)
PartsFrom(s) ==
  \A i \in 1..Len(stored) :
    stored[i] = Bytes(s + (i - 1) * partSize, s + AtMost(i * partSize, size))

\* The attempt that began at s is where the code is: about to read the next
\* part, or about to send it.
Reading0(s) ==
  /\ PartsFrom(s)
  /\ pc = "read" => pos = s + Len(stored) * partSize
  /\ pc = "save" => /\ pos = s + AtMost((Len(stored) + 1) * partSize, size)
                    /\ chunk = Bytes(s + Len(stored) * partSize, pos)

\* The upload has ended and the media message is on its way.
Handed == pc \in {"check", "query", "waitQuery", "invoke", "reply"} \/ result = "ok"

Uploaded ==
  op = "media" =>
    /\ size \in Nat /\ partSize \in Nat \ {0} /\ avail \in 0..size /\ pos \in 0..avail
    /\ stored \in Seq(Seq(Nat)) /\ chunk \in Seq(Nat)
    /\ pc \in {"read", "save"} => Len(stored) < parts /\ \E s \in Nat : Reading0(s)
    /\ Handed => size <= Len(stored) * partSize /\ PartsFrom(0)

\* Rounded division.
LEMMA DivisionBounds ==
  ASSUME NEW a \in Nat, NEW b \in Nat \ {0}
  PROVE  a \div b \in Nat /\ (a \div b) * b <= a /\ a < (a \div b) * b + b
OBVIOUS

LEMMA ProductGrows ==
  ASSUME NEW a \in Nat, NEW b \in Nat, NEW c \in Nat, a <= b
  PROVE  a * c <= b * c
<1>1. PICK d \in Nat : b = a + d
  <2>1. b - a \in Nat /\ b = a + (b - a)
    OBVIOUS
  <2> QED BY <2>1
<1>2. b * c = a * c + d * c
  BY <1>1
<1>3. d * c \in Nat /\ a * c \in Nat
  OBVIOUS
<1> QED BY <1>2, <1>3

LEMMA AtMostShifts ==
  ASSUME NEW a \in Nat, NEW b \in Nat, NEW c \in Nat, a <= c
  PROVE  AtMost(a, c) = a /\ a + AtMost(b, c - a) = AtMost(a + b, c)
BY DEF AtMost

\* Before the last part there is file left, after it there is none.
LEMMA PartsCover ==
  ASSUME size \in Nat, partSize \in Nat \ {0}, NEW n \in Nat
  PROVE  /\ parts \in Nat \ {0} /\ n * partSize \in Nat
         /\ n < parts => n * partSize <= size
         /\ n = parts => size <= n * partSize
<1> DEFINE full == (size + partSize - 1) \div partSize
<1>1. n * partSize \in Nat
  OBVIOUS
<1>2. CASE size = 0
  BY <1>1, <1>2 DEF parts
<1>3. CASE size # 0
  <2>1. parts = full
    BY <1>3 DEF parts
  <2>2. PICK a \in Nat : a = size + partSize - 1
    <3>1. size + partSize - 1 \in Nat
      OBVIOUS
    <3> QED BY <3>1
  <2>3. full \in Nat /\ full * partSize <= a /\ a < full * partSize + partSize
    BY <2>2, DivisionBounds
  <2> HIDE DEF full
  <2>4. full * partSize \in Nat
    BY <2>3
  <2>5. size <= full * partSize /\ full * partSize < size + partSize
    BY <2>2, <2>3, <2>4
  <2>6. full # 0
    <3>1. full = 0 => full * partSize = 0
      OBVIOUS
    <3> QED BY <1>3, <2>5, <3>1
  <2>7. ASSUME n < full PROVE n * partSize <= size
    <3>1. n + 1 \in Nat /\ n + 1 <= full
      BY <2>3, <2>7
    <3>2. (n + 1) * partSize <= full * partSize
      BY <2>3, <3>1, ProductGrows
    <3>3. (n + 1) * partSize = n * partSize + partSize
      OBVIOUS
    <3> QED BY <1>1, <2>4, <2>5, <3>2, <3>3
  <2> QED BY <1>1, <2>1, <2>3, <2>5, <2>6, <2>7
<1> QED BY <1>2, <1>3

LEMMA InitUploaded == Init => Uploaded
<1> SUFFICES ASSUME Init, op = "media" PROVE Uploaded
  BY DEF Uploaded
<1>1. /\ size \in Nat /\ partSize \in Nat \ {0} /\ avail \in 0..size /\ pc = "call"
  BY InputTyped
<1>2. pos = 0 /\ chunk = <<>> /\ stored = <<>> /\ result = "none"
  BY DEF Init, RequestInit
<1> QED BY <1>1, <1>2 DEF Uploaded, Handed

LEMMA NextUploaded == Typed /\ Wire /\ Uploaded /\ [Next]_callVars => Uploaded'
<1> SUFFICES ASSUME Typed, Wire, Uploaded, [Next]_callVars, op = "media" PROVE Uploaded'
  BY InputKept DEF Uploaded
<1>a. /\ size \in Nat /\ partSize \in Nat \ {0} /\ avail \in 0..size /\ pos \in 0..avail
      /\ stored \in Seq(Seq(Nat)) /\ chunk \in Seq(Nat) /\ Len(stored) \in Nat
      /\ UNCHANGED <<op, size, avail, partSize>> /\ parts' = parts
  BY InputKept DEF Uploaded, input, parts
<1>b. pc # "get"
  BY DEF Typed
<1>1. ASSUME UNCHANGED <<pos, stored, chunk>>, Handed' => Handed,
             pc' \in {"read", "save"} => pc' = pc
      PROVE  Uploaded'
  <2>1. ASSUME NEW s \in Nat, Reading0(s), pc' = pc PROVE Reading0(s)'
    BY <1>1, <1>a, <2>1 DEF Reading0, PartsFrom, Bytes, AtMost
  <2>2. PartsFrom(0) => PartsFrom(0)'
    BY <1>1, <1>a DEF PartsFrom, Bytes, AtMost
  <2> QED BY <1>1, <1>a, <2>1, <2>2 DEF Uploaded
<1>2. CASE RequestStep /\ UNCHANGED transferVars
  <2>1. UNCHANGED <<pos, stored, chunk>>
    BY <1>2 DEF transferVars
  <2>2. (Handed' => Handed) /\ (pc' \in {"read", "save"} => pc' = pc)
    <3>1. CASE Check
      BY <3>1 DEF Check, Ends, Handed
    <3>2. CASE BuildQuery \/ Transmit \/ WaitQuery \/ GiveUp
      BY <3>2 DEF BuildQuery, Transmit, WaitQuery, GiveUp, Waited, Fails, Ends, Handed
    <3>3. CASE Reply
      <4>1. pc = "reply" /\ Handed
        BY <3>3 DEF Reply, Handed
      <4>2. Head(toClient).kind \in {"bad", "error", "flood", "ok"}
        <5>1. toClient # <<>> /\ toClient \in Seq(Answers)
          BY <3>3 DEF Reply, Wire
        <5>2. Head(toClient) \in Answers
          BY <5>1
        <5> QED BY <5>2 DEF Answers
      <4>3. pc' \in {"reply", "invoke", "waitQuery", "returned"}
        BY <3>3, <4>1, <4>2 DEF Reply, Answered, Fails, Flooded, Ends
      <4> QED BY <4>1, <4>3
    <3>4. CASE Serve
      BY <3>4 DEF Serve, Handed
    <3> QED BY <1>2, <3>1, <3>2, <3>3, <3>4 DEF RequestStep
  <2> QED BY <1>1, <2>1, <2>2
<1>3. CASE WaitCall \/ CallFails
  <2>1. UNCHANGED <<pos, stored, chunk>>
    BY <1>3 DEF WaitCall, CallFails, transferVars
  <2>2. (Handed' => Handed) /\ (pc' \in {"read", "save"} => pc' = pc)
    BY <1>3 DEF WaitCall, CallFails, Waited, Fails, Ends, Handed
  <2> QED BY <1>1, <2>1, <2>2
<1>4. CASE UploadCall
  <2>1. stored' = <<>> /\ pc' = "read" /\ UNCHANGED <<pos, chunk>> /\ result' # "ok"
    BY <1>4 DEF UploadCall, Typed
  <2>2. Len(stored') = 0 /\ 0 * partSize = 0
    BY <1>a, <2>1
  <2>3. parts \in Nat \ {0} /\ 0 < parts
    BY <1>a, PartsCover
  <2>4. PICK s \in Nat : s = pos /\ s + Len(stored') * partSize = pos
    BY <1>a, <2>2
  <2>5. PartsFrom(s)'
    BY <2>2 DEF PartsFrom
  <2>6. Reading0(s)'
    BY <1>a, <2>1, <2>4, <2>5 DEF Reading0
  <2> QED BY <1>a, <2>1, <2>2, <2>3, <2>6 DEF Uploaded, Handed
<1>5. CASE UploadRead
  <2> DEFINE n == Len(stored)
             want == AtMost(partSize, size - n * partSize)
  <2>1. pc = "read" /\ UNCHANGED stored
    BY <1>5 DEF UploadRead
  <2>2. PICK s \in Nat : Reading0(s)
    BY <2>1 DEF Uploaded
  <2>3. n < parts /\ PartsFrom(s) /\ pos = s + n * partSize
    BY <2>1, <2>2 DEF Uploaded, Reading0
  <2>4. n * partSize \in Nat /\ n * partSize <= size
    BY <1>a, <2>3, PartsCover
  <2>5. want \in Nat
    BY <1>a, <2>4 DEF AtMost
  <2>6. n * partSize + want = AtMost((n + 1) * partSize, size)
    <3>1. (n + 1) * partSize = n * partSize + partSize
      BY <1>a
    <3>2. n * partSize + want = AtMost(n * partSize + partSize, size)
      BY <1>a, <2>4, AtMostShifts
    <3> QED BY <3>1, <3>2
  <2>7. CASE pos + want <= avail
    <3>1. chunk' = Bytes(pos, pos + want) /\ pos' = pos + want /\ pc' = "save" /\ result' = result
      BY <1>5, <2>7 DEF UploadRead
    <3> HIDE DEF want
    <3>2. pos \in Nat /\ pos + want \in Nat /\ pos <= pos + want
      BY <1>a, <2>5
    <3>3. chunk' \in Seq(Nat) /\ pos' \in 0..avail
      BY <1>a, <2>5, <2>7, <3>1, <3>2, BytesAreASequence
    <3>4. pos + want = s + AtMost((n + 1) * partSize, size)
      BY <2>3, <2>4, <2>5, <2>6
    <3>5. PartsFrom(s)'
      BY <1>a, <2>1, <2>3 DEF PartsFrom, Bytes, AtMost
    <3>6. chunk' = Bytes(s + n * partSize, pos')
      BY <2>3, <3>1
    <3>7. Reading0(s)'
      BY <1>a, <2>1, <3>1, <3>4, <3>5, <3>6 DEF Reading0, Bytes, AtMost
    <3> QED BY <1>a, <2>1, <2>3, <3>1, <3>3, <3>7 DEF Uploaded, Handed, Typed
  <2>8. CASE ~(pos + want <= avail)
    <3>1. pc' = "returned" /\ result' = "error" /\ pos' = avail /\ chunk' = chunk
      BY <1>5, <2>8 DEF UploadRead, Ends
    <3>2. pos' \in 0..avail
      BY <1>a, <3>1
    <3> QED BY <1>a, <2>1, <3>1, <3>2 DEF Uploaded, Handed
  <2> QED BY <2>7, <2>8
<1>6. CASE UploadSave
  <2> DEFINE n == Len(stored)
  <2>1. pc = "save" /\ UNCHANGED <<pos, chunk>>
    BY <1>6 DEF UploadSave
  <2>2. PICK s \in Nat : Reading0(s)
    BY <2>1 DEF Uploaded
  <2>3. /\ n < parts /\ PartsFrom(s) /\ pos = s + AtMost((n + 1) * partSize, size)
        /\ chunk = Bytes(s + n * partSize, pos)
    BY <2>1, <2>2 DEF Uploaded, Reading0
  <2>4. CASE UNCHANGED stored /\ (Fails \/ Flooded("waitCall"))
    <3>1. (Handed' => Handed) /\ pc' \notin {"read", "save"}
      BY <2>4 DEF Fails, Flooded, Ends, Handed
    <3> QED BY <1>1, <2>1, <2>4, <3>1
  <2>5. CASE /\ stored' = Append(stored, chunk)
             /\ pc' = IF n + 1 = parts THEN "check" ELSE "read"
             /\ result' = result
    <3>1. /\ stored' \in Seq(Seq(Nat)) /\ Len(stored') = n + 1
          /\ \A i \in 1..n : stored'[i] = stored[i]
          /\ stored'[n + 1] = chunk
      BY <1>a, <2>5
    <3>2. PartsFrom(s)'
      <4> SUFFICES ASSUME NEW i \in 1..(n + 1)
                   PROVE  stored'[i] = Bytes(s + (i - 1) * partSize, s + AtMost(i * partSize, size))
        BY <1>a, <3>1 DEF PartsFrom, Bytes, AtMost
      <4>1. CASE i \in 1..n
        BY <2>3, <3>1, <4>1 DEF PartsFrom
      <4>2. CASE i = n + 1
        <5>1. i - 1 = n
          BY <1>a, <4>2
        <5> QED BY <2>3, <3>1, <4>2, <5>1
      <4> QED BY <1>a, <4>1, <4>2
    <3>3. n + 1 \in Nat /\ (n + 1) * partSize \in Nat
          /\ (n + 1 < parts => (n + 1) * partSize <= size)
          /\ (n + 1 = parts => size <= (n + 1) * partSize)
      BY <1>a, PartsCover
    <3>4. parts \in Nat
      BY <1>a, PartsCover
    <3>5. CASE n + 1 = parts
      <4>1. AtMost((n + 1) * partSize, size) = size
        BY <1>a, <3>3, <3>5 DEF AtMost
      <4>2. s = 0
        BY <1>a, <2>3, <4>1
      <4>3. PartsFrom(0)'
        BY <3>2, <4>2
      <4>4. size' <= Len(stored') * partSize'
        BY <1>a, <3>1, <3>3, <3>5
      <4> QED BY <1>a, <2>1, <2>5, <3>1, <3>5, <4>3, <4>4 DEF Uploaded
    <3>6. CASE n + 1 # parts
      <4>1. n + 1 < parts
        BY <1>a, <2>3, <3>4, <3>6
      <4>2. AtMost((n + 1) * partSize, size) = (n + 1) * partSize
        BY <1>a, <3>3, <4>1, AtMostShifts
      <4>3. pos = s + (n + 1) * partSize
        BY <2>3, <4>2
      <4>4. pos' = s + Len(stored') * partSize'
        BY <1>a, <2>1, <3>1, <4>3
      <4>5. Reading0(s)'
        BY <2>5, <3>2, <3>6, <4>4 DEF Reading0
      <4>6. ~Handed'
        BY <2>1, <2>5, <3>6 DEF Handed, Typed
      <4> QED BY <1>a, <2>1, <2>5, <3>1, <3>6, <4>1, <4>5, <4>6 DEF Uploaded
    <3> QED BY <3>5, <3>6
  <2> QED BY <1>6, <2>4, <2>5 DEF UploadSave
<1>7. CASE DownloadCall \/ DownloadGet \/ DownloadShortWrite
  BY <1>7, <1>b DEF DownloadCall, DownloadGet, DownloadShortWrite
<1>8. CASE UNCHANGED callVars
  <2>1. UNCHANGED <<pos, stored, chunk, pc, result>>
    BY <1>8 DEF callVars, transferVars
  <2> QED BY <1>1, <2>1 DEF Handed
<1> QED BY <1>2, <1>3, <1>4, <1>5, <1>6, <1>7, <1>8 DEF Next, TransferStep

\* Media is only sent whole: a retried upload, whose reader is no longer at its
\* beginning, fails for want of bytes; one that ends has sent the whole file,
\* part for part, also when it is empty or ends with a part.
THEOREM SendsWhole == Spec => []SentWhole
<1>1. Uploaded => SentWhole
  <2> SUFFICES ASSUME Uploaded, op = "media", result = "ok" PROVE SentWhole
    BY DEF SentWhole
  <2>1. size \in Nat /\ partSize \in Nat \ {0} /\ size <= Len(stored) * partSize /\ PartsFrom(0)
        /\ Len(stored) \in Nat
    BY DEF Uploaded, Handed
  <2>2. \A i \in 1..Len(stored) : /\ 0 + (i - 1) * partSize = (i - 1) * partSize
                                  /\ 0 + AtMost(i * partSize, size) = AtMost(i * partSize, size)
    <3> SUFFICES ASSUME NEW i \in 1..Len(stored)
                 PROVE  /\ 0 + (i - 1) * partSize = (i - 1) * partSize
                        /\ 0 + AtMost(i * partSize, size) = AtMost(i * partSize, size)
      OBVIOUS
    <3>1. i * partSize \in Int /\ (i - 1) * partSize \in Int
      BY <2>1
    <3> QED BY <2>1, <3>1 DEF AtMost
  <2> QED BY <2>1, <2>2 DEF PartsFrom, SentWhole
<1>2. Queried => Typed /\ Wire
  BY DEF Queried
<1> QED BY <1>1, <1>2, InitUploaded, NextUploaded, AlwaysQueried, PTL DEF Spec
==============================================================================
