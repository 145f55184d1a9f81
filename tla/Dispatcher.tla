----------------------------- MODULE Dispatcher -----------------------------
(***************************************************************************)
(* updates.Dispatcher: routes one message at a time through the registered *)
(* routes and feeds the message cache and the peer cache.  One goroutine   *)
(* dispatches (the runtime's poll loop); other goroutines insert peers     *)
(* between any two of its cache operations, because each cache takes only  *)
(* its own lock.  A handler runs on the dispatching goroutine and may      *)
(* itself register routes.                                                 *)
(***************************************************************************)
EXTENDS MessageCache, PeerCache

CONSTANTS Routes,          \* routes a program may register
          Accepts(_, _),   \* Accepts(r, m): route r's filter accepts m
          CacheFilter      \* messages MessageCacheFilter accepts

ASSUME AcceptsAssumption ==
  \A r \in Routes, m \in Messages : Accepts(r, m) \in BOOLEAN

ASSUME MessagesAssumption ==
  \A m \in Messages : {m.from, m.chat} \subseteq PeerIDs \cup {0}

CacheModes == {"default", "none", "all", "matched", "filtered", "invalid"}

VARIABLES config,    \* DispatcherConfig after NewDispatcher's normalisation
          routes,    \* messageRoutes, in registration order
          call       \* the DispatchMessage call in progress, or Idle

dispatchVars == <<config, routes, call>>
vars == <<cacheVars, peerVars, dispatchVars>>

NoMsg == [n |-> 0, from |-> 0, chat |-> 0]

Idle == [pc |-> "idle", msg |-> NoMsg, matched |-> {}, ran |-> <<>>, err |-> FALSE,
         cached |-> FALSE, before |-> 0]

\* NewDispatcher replaces CacheDefault and out-of-range modes by the default.
NewDispatcher(mode, hasFilter, updatesEnabled) ==
  [mode |-> IF mode \in {"default", "invalid"} THEN "matched" ELSE mode,
   hasFilter |-> hasFilter,
   updates |-> updatesEnabled]

Init ==
  /\ NewMessageCache
  /\ NewPeerCache
  /\ \E mode \in CacheModes, hasFilter, enabled \in BOOLEAN :
       config = NewDispatcher(mode, hasFilter, enabled)
  /\ routes = <<>>
  /\ call = Idle

\* OnMessage, from the program's set-up or from a running handler.  Each
\* route is registered at most once: a bound of the model.
OnMessage(r) ==
  /\ call.pc \in {"idle", "handlers"}
  /\ \A i \in 1..Len(routes) : routes[i] # r
  /\ routes' = Append(routes, r)
  /\ UNCHANGED <<cacheVars, peerVars, config, call>>

\* The accepting routes, as their places in the registration order.
matchingRoutes(m) == {i \in 1..Len(routes) : Accepts(routes[i], m)}

\* Mutant of shouldCacheMessage: the filtered mode falls through to matched.
CacheFilteredAsMatched(m, matched) ==
  /\ Limit > 0
  /\ CASE config.mode = "none" -> FALSE
       [] config.mode = "all" -> TRUE
       [] OTHER -> matched

shouldCacheMessage(m, matched) ==
  /\ Limit > 0
  /\ CASE config.mode = "none" -> FALSE
       [] config.mode = "all" -> TRUE
       [] config.mode = "matched" -> matched
       [] config.mode = "filtered" -> config.hasFilter /\ m \in CacheFilter

\* Where a dispatch goes once it has matched routes and cached the message.
afterCaching(useful) == IF useful THEN "from" ELSE "handlers"

\* Mutant of Dispatch: the message is not cached before its handlers run.
DispatchCachesLate(m) ==
  LET matched   == matchingRoutes(m)
      cacheThis == shouldCacheMessage(m, matched # {})
  IN  /\ call.pc = "idle"
      /\ call' = [pc |-> afterCaching(cacheThis \/ matched # {}), msg |-> m,
                  matched |-> matched, ran |-> <<>>, err |-> FALSE,
                  cached |-> cacheThis, before |-> Len(routes)]
      /\ UNCHANGED <<cacheVars, peerVars, config, routes>>

\* DispatchMessage up to the peer cache: match, decide, cache the message.
Dispatch(m) ==
  LET matched   == matchingRoutes(m)
      cacheThis == shouldCacheMessage(m, matched # {})
  IN  /\ call.pc = "idle"
      /\ IF cacheThis THEN Add(m) ELSE UNCHANGED cacheVars
      /\ call' = [pc |-> afterCaching(cacheThis \/ matched # {}), msg |-> m,
                  matched |-> matched, ran |-> <<>>, err |-> FALSE,
                  cached |-> cacheThis, before |-> Len(routes)]
      /\ UNCHANGED <<peerVars, config, routes>>

\* cachePeers, first Put: the sender, as a record without access hash.
CacheFrom ==
  /\ call.pc = "from"
  /\ Put([id |-> call.msg.from, hash |-> 0])
  /\ call' = [call EXCEPT !.pc = "chat"]
  /\ UNCHANGED <<cacheVars, config, routes>>

\* cachePeers, second Put: the chat.
CacheChat ==
  /\ call.pc = "chat"
  /\ Put([id |-> call.msg.chat, hash |-> 0])
  /\ call' = [call EXCEPT !.pc = "handlers"]
  /\ UNCHANGED <<cacheVars, config, routes>>

alreadyRan == {call.ran[k] : k \in 1..Len(call.ran)}

\* Mutant of handlersLeft: the loop ranges over the live route list.
handlersLeftLive ==
  IF config.updates /\ ~call.err
  THEN matchingRoutes(call.msg) \ alreadyRan ELSE {}

handlersLeft ==
  IF config.updates /\ ~call.err THEN call.matched \ alreadyRan ELSE {}

\* One handler of the loop over the matched routes; it may return an error.
RunHandler(err) ==
  /\ call.pc = "handlers"
  /\ \E i \in handlersLeft :
       /\ \A j \in handlersLeft : i <= j
       /\ call' = [call EXCEPT !.ran = Append(@, i), !.err = err]
  /\ UNCHANGED <<cacheVars, peerVars, config, routes>>

\* DispatchMessage returns.
Return ==
  /\ call.pc = "handlers"
  /\ handlersLeft = {}
  /\ call' = [call EXCEPT !.pc = "idle"]
  /\ UNCHANGED <<cacheVars, peerVars, config, routes>>

\* PutPeer from storePeerLocked, on whatever goroutine remembers a peer.
PutPeer(peer) ==
  /\ Put(peer)
  /\ UNCHANGED <<cacheVars, dispatchVars>>

Next ==
  \/ \E r \in Routes : OnMessage(r)
  \/ \E m \in Messages : Dispatch(m)
  \/ CacheFrom
  \/ CacheChat
  \/ \E err \in BOOLEAN : RunHandler(err)
  \/ Return
  \/ \E peer \in Peers : PutPeer(peer)

Spec == Init /\ [][Next]_vars
-----------------------------------------------------------------------------
Configs == [mode : {"none", "all", "matched", "filtered"},
            hasFilter : BOOLEAN, updates : BOOLEAN]

Calls == [pc : {"idle", "from", "chat", "handlers"}, msg : Messages \cup {NoMsg},
          matched : SUBSET Nat, ran : Seq(Nat), err : BOOLEAN,
          cached : BOOLEAN, before : Nat]

(***************************************************************************)
(* Types of the dispatcher and of both caches, with the ring's index range *)
(***************************************************************************)
TypeOK ==
  /\ items \in Seq(Messages) /\ Len(items) <= Limit
  /\ pos \in Nat /\ (pos > 0 => pos < Limit)
  /\ full \in BOOLEAN /\ (full => Len(items) = Limit /\ Limit > 0)
  /\ order \in Seq(PeerIDs)
  /\ DOMAIN known \subseteq PeerIDs
  /\ \A id \in DOMAIN known : known[id] \in Peers
  /\ config \in Configs
  /\ routes \in Seq(Routes)
  /\ call \in Calls

(***************************************************************************)
(* Cached messages are the useful ones: the policy in force accepts every  *)
(* message that All can return, whatever routes have been added since      *)
(* (routes are never removed).  Large bots rely on it to bound their RAM.  *)
(***************************************************************************)
OnlyUsefulCached ==
  \A i \in 1..Len(items) :
    CASE config.mode = "none" -> FALSE
      [] config.mode = "all" -> TRUE
      [] config.mode = "matched" -> matchingRoutes(items[i]) # {}
      [] config.mode = "filtered" -> config.hasFilter /\ items[i] \in CacheFilter

(***************************************************************************)
(* A handler that asks the cache for the latest message gets the one it is *)
(* handling, if the policy caches it: Add comes before the handlers, and   *)
(* nothing else is added until DispatchMessage has returned.               *)
(***************************************************************************)
HandlerSeesOwnMessage ==
  call.pc = "handlers" /\ call.cached => Last(1) = <<call.msg>>

(***************************************************************************)
(* A dispatch that returns without error has run, once each and in         *)
(* registration order, exactly the accepting routes that were registered   *)
(* when it began: a route added by a handler waits for the next message.   *)
(* With updates disabled nothing runs.                                     *)
(***************************************************************************)
DispatchRunsMatchingRoutes ==
  call.pc = "idle" /\ call # Idle /\ ~call.err =>
    /\ alreadyRan =
         {i \in 1..call.before : config.updates /\ Accepts(routes[i], call.msg)}
    /\ \A k, l \in 1..Len(call.ran) : k < l => call.ran[k] < call.ran[l]
=============================================================================
