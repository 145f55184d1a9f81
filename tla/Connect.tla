------------------------------- MODULE Connect -------------------------------
(***************************************************************************)
(* Logging in over a list of data centres (DCs): DialEncryptedDefault      *)
(* tries the configured addresses until one completes the auth key         *)
(* handshake of authKeyOnConn; ImportBotAuthorizationDefault (bots) and    *)
(* AuthSendCodeDefault (user accounts, the same control) authorise there   *)
(* and, told *_MIGRATE_X, close the connection and start again on the      *)
(* addresses of DC X.                                                      *)
(*                                                                         *)
(* A connection is known by its number: the nonces, the secrets and the    *)
(* g_a of its handshake are drawn afresh for it, and are represented by    *)
(* that number.  The key of a handshake is the pair of the g_a the client  *)
(* used and its own secret, so client and server agree on the key of       *)
(* connection n exactly when the client computed <<n, n>>.                 *)
(***************************************************************************)
EXTENDS Naturals, Sequences, FiniteSets

CONSTANTS
    DefaultDCOptions, \* the addresses: a sequence of [dc, at], the DC it is
                      \* listed for and the DC that answers there
    Homes             \* the DCs an account may live on

ASSUME OptionsAssumption ==
    /\ DefaultDCOptions \in Seq([dc : Nat \ {0}, at : Nat \ {0}])
    /\ Homes \subseteq Nat \ {0}

Addresses == DOMAIN DefaultDCOptions

VARIABLES
    home,       \* the DC of the account, which every other DC names
    up,         \* the addresses that answer as they should
    refuses,    \* whether a call may fail, refused or cut off
    limited,    \* whether the caller's context has a deadline
    expired,    \* whether that deadline has passed
    pc,         \* "dial", "pq", "dh", "gen", "authorize", "returned", "closed",
                \* "failed"
    target,     \* the DC of importBotAuthorizationOnDC; 0 in ...Default
    i,          \* the position in the list of addresses being tried
    conn,       \* the number of the last connection
    open,       \* the connections not closed
    authKey,    \* the key the client computed on conn
    serverKeys, \* the keys the servers have registered, with their DC
    dials       \* how often each address was dialled

environment == <<home, up, refuses, limited>>
vars == <<home, up, refuses, limited, expired, pc, target, i, conn, open, authKey, serverKeys, dials>>

Init ==
    /\ home \in Homes
    /\ up \in SUBSET Addresses
    /\ refuses \in BOOLEAN
    /\ limited \in BOOLEAN
    /\ expired = FALSE
    /\ pc = "dial"
    /\ target = 0
    /\ i = 1
    /\ conn = 0
    /\ open = {}
    /\ authKey = <<0, 0>>
    /\ serverKeys = {}
    /\ dials = [k \in Addresses |-> 0]

\* dcOptionsByID keeps the addresses listed for a DC, in their order
IsOption(dcID, k) == DefaultDCOptions[k].dc = dcID

OptionsOf(dcID) == {k \in Addresses : dcID = 0 \/ IsOption(dcID, k)}

\* variant ruled out: dcOptionsByID returns the addresses of every DC
NextOptionAnyDC(dcID, from) == from

\* the position of the next address to try, one past the end if there is none
NextOption(dcID, from) ==
    LET left == {k \in OptionsOf(dcID) : k >= from}
    IN  IF left = {} THEN Len(DefaultDCOptions) + 1
        ELSE CHOOSE k \in left : \A l \in left : k <= l

(***************************************************************************)
(* Going on after a failure.  Every path closes the connection first.      *)
(***************************************************************************)
\* variant ruled out: an error path that forgets the connection
CloseNothing == UNCHANGED open

Close == open' = open \ {conn}

\* "continue" in the loop over the addresses
TryNext ==
    /\ i' = NextOption(target, i + 1)
    /\ pc' = "dial"
    /\ UNCHANGED target

\* importBotAuthorizationOnDC starts at the first address of the DC
OnDC(dcID) ==
    /\ target' = dcID
    /\ i' = NextOption(dcID, 1)
    /\ pc' = "dial"

GiveUp ==
    /\ pc' = "failed"
    /\ UNCHANGED <<target, i>>

\* no address is left: the last error is returned
Exhausted ==
    /\ pc = "dial"
    /\ i > Len(DefaultDCOptions)
    /\ GiveUp
    /\ UNCHANGED <<environment, expired, conn, open, authKey, serverKeys, dials>>

(***************************************************************************)
(* DialEncrypted: dialMTProto, then authKeyOnConn                          *)
(***************************************************************************)
Dial ==
    /\ pc = "dial"
    /\ i \in Addresses
    /\ ~expired
    /\ conn' = conn + 1
    /\ open' = open \cup {conn'}
    /\ dials' = [dials EXCEPT ![i] = @ + 1]
    /\ pc' = "pq"
    /\ UNCHANGED <<environment, expired, target, i, authKey, serverKeys>>

\* the dial or abridgedInit fails; dialMTProto closes what it opened.  Once the
\* caller's deadline has passed, every dial fails
DialFails ==
    /\ pc = "dial"
    /\ i \in Addresses
    /\ i \in up => expired
    /\ dials' = [dials EXCEPT ![i] = @ + 1]
    /\ TryNext
    /\ UNCHANGED <<environment, expired, conn, open, authKey, serverKeys>>

\* an error inside authKeyOnConn (a wrong answer, a connection that is cut):
\* DialEncrypted closes the connection
HandshakeFails ==
    /\ Close
    /\ TryNext
    /\ UNCHANGED <<environment, expired, conn, authKey, serverKeys, dials>>

\* what an address may answer: its own handshake's answer or, where something
\* is wrong on the way, that of another one (0 stands for one never begun)
Answers == IF i \in up THEN {conn} ELSE 0 .. conn

\* resPQ: the nonce must be ours and a fingerprint known
acceptResPQ(nonce, fingerprints) == nonce = conn /\ fingerprints = "known"

SendReqPQ ==
    /\ pc = "pq"
    /\ \E nonce \in Answers, fingerprints \in {"known", "unknown"} :
         /\ i \in up => fingerprints = "known"
         /\ IF acceptResPQ(nonce, fingerprints)
            THEN pc' = "dh" /\ UNCHANGED <<environment, expired, target, i, conn, open,
                                           authKey, serverKeys, dials>>
            ELSE HandshakeFails

\* server_DH_params_ok: both nonces, outside and inside, must be ours
parseServerDHParams(nonce) == nonce = conn

\* the generator, the prime and g_a must be in their ranges
validateDHParams(params) == params = "inRange"

\* the client computes the key from the g_a it was sent and its own secret
SendReqDHParams ==
    /\ pc = "dh"
    /\ \E ga \in Answers, params \in {"inRange", "outOfRange"} :
         /\ i \in up => params = "inRange"
         /\ IF parseServerDHParams(ga) /\ validateDHParams(params)
            THEN /\ pc' = "gen"
                 /\ authKey' = <<ga, conn>>
                 /\ UNCHANGED <<environment, expired, target, i, conn, open, serverKeys, dials>>
            ELSE HandshakeFails

\* variant ruled out: dh_gen_retry and dh_gen_fail taken for dh_gen_ok
parseDHGenAnswerAny(answer) ==
    /\ answer.nonce = conn
    /\ answer.hash = authKey

\* dh_gen_ok with a hash over the key; dh_gen_retry and dh_gen_fail are errors
parseDHGenAnswer(answer) ==
    /\ answer.nonce = conn
    /\ answer.constructor = "dh_gen_ok"
    /\ answer.hash = authKey

\* set_client_DH_params reaches the server, which registers the key of this
\* handshake or asks for another; its answer may be lost or not be the right one
SendSetClientDHParams ==
    /\ pc = "gen"
    /\ \E verdict \in {"dh_gen_ok", "dh_gen_retry", "dh_gen_fail"}, nonce \in Answers :
         LET key    == <<conn, conn>>
             answer == [constructor |-> verdict, nonce |-> nonce, hash |-> key]
         IN  /\ i \in up => verdict = "dh_gen_ok"
             /\ IF verdict = "dh_gen_ok"
                THEN serverKeys' = serverKeys \cup {<<DefaultDCOptions[i].at, key>>}
                ELSE UNCHANGED serverKeys
             /\ IF parseDHGenAnswer(answer)
                THEN pc' = "authorize" /\ UNCHANGED <<open, target, i>>
                ELSE Close /\ TryNext
    /\ UNCHANGED <<environment, expired, conn, authKey, dials>>

\* an address that took the connection stays silent, whether or not it has
\* registered the key.  The read ends at the deadline that dialMTProto gave the
\* connection: the caller's, which has then passed for the addresses that
\* follow too; or, where the caller has none, one of the connection's own
StaysSilent ==
    /\ pc \in {"pq", "dh", "gen"}
    /\ i \notin up
    /\ expired' = limited
    /\ \/ UNCHANGED serverKeys
       \/ /\ pc = "gen"
          /\ serverKeys' = serverKeys \cup {<<DefaultDCOptions[i].at, <<conn, conn>>>>}
    /\ Close
    /\ TryNext
    /\ UNCHANGED <<environment, conn, authKey, dials>>

AuthKeyOnConn ==
    \/ SendReqPQ
    \/ SendReqDHParams
    \/ SendSetClientDHParams
    \/ StaysSilent

(***************************************************************************)
(* ImportBotAuthorization and AuthSendCode on the connection               *)
(***************************************************************************)
AtHome == DefaultDCOptions[i].at = home

\* the login succeeds and the client is returned open
Authorize ==
    /\ pc = "authorize"
    /\ AtHome
    /\ pc' = "returned"
    /\ UNCHANGED <<environment, expired, target, i, conn, open, authKey, serverKeys, dials>>

\* variants ruled out: a DC that names itself is followed, or ends the login
FollowAlways(dcID) == OnDC(dcID)

FollowElsewhere(dcID) ==
    IF target = 0 \/ dcID # target THEN OnDC(dcID) ELSE GiveUp

\* which way a *_MIGRATE_X error leads
Follow(dcID) ==
    IF target = 0 \/ dcID # target THEN OnDC(dcID) ELSE TryNext

\* USER_MIGRATE_X or PHONE_MIGRATE_X, from a DC that is not the account's
Migrate ==
    /\ pc = "authorize"
    /\ ~AtHome
    /\ Close
    /\ Follow(home)
    /\ UNCHANGED <<environment, expired, conn, authKey, serverKeys, dials>>

\* any other error, a lost connection, an unreadable auth.sentCode and a call
\* that waits until the caller's deadline included: ...Default returns it,
\* ...OnDC tries the next address
AuthorizeFails ==
    /\ pc = "authorize"
    /\ refuses
    /\ expired' \in {FALSE, limited}
    /\ Close
    /\ IF target = 0 THEN GiveUp ELSE TryNext
    /\ UNCHANGED <<environment, conn, authKey, serverKeys, dials>>

\* EncryptedClient.Close, by the caller that was given the client
CloseClient ==
    /\ pc = "returned"
    /\ Close
    /\ pc' = "closed"
    /\ UNCHANGED <<environment, expired, target, i, conn, authKey, serverKeys, dials>>

\* the caller's deadline passes between two dials, in another of its calls
DeadlinePasses ==
    /\ pc = "dial"
    /\ limited
    /\ expired' = TRUE
    /\ UNCHANGED <<environment, pc, target, i, conn, open, authKey, serverKeys, dials>>

LoginStep ==
    \/ Exhausted
    \/ Dial
    \/ DialFails
    \/ AuthKeyOnConn
    \/ Authorize
    \/ Migrate
    \/ AuthorizeFails

Next == LoginStep \/ DeadlinePasses \/ CloseClient

\* every dial, write and read of a login is under a deadline
Fairness == WF_vars(LoginStep)

Spec == Init /\ [][Next]_vars /\ Fairness

-----------------------------------------------------------------------------
(* Type invariant: the loops of client.go stay inside the list of addresses, *)
(* and one past its end when nothing is left.                                *)
TypeOK ==
    /\ home \in Homes
    /\ up \subseteq Addresses
    /\ refuses \in BOOLEAN
    /\ limited \in BOOLEAN
    /\ expired \in BOOLEAN
    /\ pc \in {"dial", "pq", "dh", "gen", "authorize", "returned", "closed", "failed"}
    /\ target \in Homes \cup {0}
    /\ i \in 1 .. Len(DefaultDCOptions) + 1
    /\ pc \in {"pq", "dh", "gen", "authorize", "returned"} =>
         i \in OptionsOf(target)
    /\ conn \in Nat
    /\ open \subseteq 1 .. conn
    /\ authKey \in Nat \X Nat
    /\ serverKeys \subseteq Nat \X (Nat \X Nat)
    /\ dials \in [Addresses -> Nat]

(* Whatever fails on the way, a login holds at most the connection it is    *)
(* working on, a failed one holds none and a successful one hands over an   *)
(* open one (every return of DialEncrypted, ImportBotAuthorizationDefault   *)
(* and importBotAuthorizationOnDC).                                         *)
NoConnectionLeaked ==
    open = IF pc \in {"dial", "failed", "closed"} THEN {} ELSE {conn}

(* The key a client goes on with is one the DC it is talking to has         *)
(* registered: parseDHGenAnswer lets no handshake pass that the server did  *)
(* not complete with the same key.                                          *)
KeyAgreed ==
    pc \in {"authorize", "returned"} =>
        <<DefaultDCOptions[i].at, authKey>> \in serverKeys

(* Redirections come to an end: with an account that stays where it is, no  *)
(* address is dialled more than twice, once from the default list and once  *)
(* as an address of the account's DC (the nextDC != dcID test of            *)
(* importBotAuthorizationOnDC).                                             *)
DialledAtMostTwice == \A k \in Addresses : dials[k] <= 2
=============================================================================
