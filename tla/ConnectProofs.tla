---------------------------- MODULE ConnectProofs ----------------------------
(***************************************************************************)
(* Proofs about logging in, for every list of addresses and every set of   *)
(* data centres: no connection is leaked, the key in use is one the server *)
(* has, and no address is dialled more than twice.  None is inductive      *)
(* alone: a connection is closed by its number, and the last check of the  *)
(* handshake compares with a key that was computed a step before, so       *)
(* ConnectOK adds what is known of the key while the handshake is under    *)
(* way; the dials are bounded by the two passes over the list (Dialled).   *)
(* The program that logs a user account in takes the same steps, so it     *)
(* keeps these invariants; and what it saves is a session that works.      *)
(* Last, both sides of SRP compute the same secret: the arithmetic modulo  *)
(* P is proved from its definition, an induction over the exponent being   *)
(* an argument about the least exponent that would break the claim.        *)
(***************************************************************************)
EXTENDS AccountLogin, SequenceTheorems, WellFoundedInduction, TLAPS

Holding == {"pq", "dh", "gen", "authorize", "returned"}

\* inside the list, and at an address of the DC that is asked for
Position ==
    /\ i \in 1 .. Len(DefaultDCOptions) + 1
    /\ pc \in Holding => i \in OptionsOf(target)
    /\ pc = "dial" => i \in OptionsOf(target) \cup {Len(DefaultDCOptions) + 1}

\* what is known of the key between its computation and its confirmation
KeyKnown ==
    /\ pc \in {"gen", "authorize", "returned"} => authKey = <<conn, conn>>
    /\ KeyAgreed

ConnectOK ==
    /\ TypeOK
    /\ Position
    /\ NoConnectionLeaked
    /\ KeyKnown

\* A set of numbers that is not empty has a least one.
LEMMA LeastNumber ==
    ASSUME NEW S \in SUBSET Nat, S # {}
    PROVE  \E k \in S : \A l \in S : k <= l
<1>1. \E k \in S : \A l \in S : ~ (<<l, k>> \in OpToRel(<, Nat))
  BY NatLessThanWellFounded, WFMin
<1>2. \A k, l \in Nat : ~ (<<l, k>> \in OpToRel(<, Nat)) => k <= l
  BY SMT DEF OpToRel
<1> QED BY <1>1, <1>2

\* The loop over the addresses goes to an address of the DC or past the end.
LEMMA NextOptionInList ==
    ASSUME NEW dcID, NEW from \in Nat
    PROVE  NextOption(dcID, from) \in OptionsOf(dcID) \cup {Len(DefaultDCOptions) + 1}
<1> DEFINE left == {k \in OptionsOf(dcID) : k >= from}
<1>1. CASE left = {}
  BY <1>1 DEF NextOption
<1>2. CASE left # {}
  <2>1. left \subseteq Nat
    BY OptionsAssumption DEF OptionsOf, Addresses
  <2>2. \E k \in left : \A l \in left : k <= l
    BY <1>2, <2>1, LeastNumber
  <2> QED BY <1>2, <2>2 DEF NextOption
<1> QED BY <1>1, <1>2

LEMMA OptionsInList ==
    ASSUME NEW dcID
    PROVE  OptionsOf(dcID) \subseteq 1 .. Len(DefaultDCOptions)
BY OptionsAssumption DEF OptionsOf, Addresses

\* The position after TryNext and OnDC, and after a step that keeps it.
LEMMA MovesInList ==
    ASSUME ConnectOK, pc' = "dial", TryNext \/ OnDC(home)
    PROVE  Position' /\ target' \in Homes \cup {0} /\ i' \in 1 .. Len(DefaultDCOptions) + 1
<1>1. Len(DefaultDCOptions) \in Nat /\ i \in Nat
  BY OptionsAssumption DEF ConnectOK, TypeOK
<1>2. PICK from \in Nat : i' = NextOption(target', from)
  BY <1>1 DEF TryNext, OnDC
<1>3. i' \in OptionsOf(target') \cup {Len(DefaultDCOptions) + 1}
  BY <1>2, NextOptionInList
<1>4. OptionsOf(target') \subseteq 1 .. Len(DefaultDCOptions)
  BY OptionsInList
<1>5. OptionsOf(target)' = OptionsOf(target')
  BY DEF OptionsOf, IsOption, Addresses
<1>6. target' \in Homes \cup {0}
  BY DEF TryNext, OnDC, ConnectOK, TypeOK
<1>7. i' \in 1 .. Len(DefaultDCOptions) + 1
  BY <1>1, <1>3, <1>4
<1> QED BY <1>3, <1>5, <1>6, <1>7 DEF Position, Holding

\* Init satisfies the invariant.
LEMMA InitOK == Init => ConnectOK
<1> SUFFICES ASSUME Init PROVE ConnectOK
  OBVIOUS
<1>1. Len(DefaultDCOptions) \in Nat
  BY OptionsAssumption
<1>2. 1 \in OptionsOf(0) \cup {Len(DefaultDCOptions) + 1}
  BY <1>1, OptionsAssumption DEF OptionsOf, Addresses
<1>3. i \in 1 .. Len(DefaultDCOptions) + 1
  BY <1>1 DEF Init
<1>4. Position
  BY <1>2, <1>3 DEF Init, Position, Holding
<1>5. dials \in [Addresses -> Nat] /\ conn \in Nat /\ open \subseteq 1 .. conn
  BY DEF Init
<1>6. TypeOK
  BY <1>3, <1>5 DEF Init, TypeOK
<1>7. NoConnectionLeaked /\ KeyKnown
  BY DEF Init, NoConnectionLeaked, KeyKnown, KeyAgreed
<1> QED BY <1>4, <1>6, <1>7 DEF ConnectOK

\* Closing the connection and going on to another address.
LEMMA MovingOn ==
    ASSUME ConnectOK, pc \in Holding, Close, TryNext \/ OnDC(home),
           UNCHANGED <<environment, conn, authKey, dials>>, expired' \in BOOLEAN,
           serverKeys' \subseteq Nat \X (Nat \X Nat)
    PROVE  ConnectOK'
<1>1. pc' = "dial"
  BY DEF TryNext, OnDC
<1>2. Position' /\ target' \in Homes \cup {0} /\ i' \in 1 .. Len(DefaultDCOptions) + 1
  BY <1>1, MovesInList
<1>3. open' = {}
  BY DEF ConnectOK, NoConnectionLeaked, Close, Holding
<1>4. TypeOK'
  BY <1>1, <1>2, <1>3 DEF ConnectOK, TypeOK, environment, Addresses
<1>5. NoConnectionLeaked' /\ KeyKnown'
  BY <1>1, <1>3 DEF NoConnectionLeaked, KeyKnown, KeyAgreed
<1> QED BY <1>2, <1>4, <1>5 DEF ConnectOK

\* A step inside one address.
LEMMA StayingOn ==
    ASSUME ConnectOK, pc' \in Holding, i \in OptionsOf(target),
           UNCHANGED <<environment, target, i, dials>>, expired' \in BOOLEAN,
           conn' \in Nat \ {0}, open' = {conn'}, authKey' \in Nat \X Nat,
           serverKeys' \subseteq Nat \X (Nat \X Nat)
    PROVE  TypeOK' /\ Position' /\ NoConnectionLeaked'
<1>1. OptionsOf(target)' = OptionsOf(target)
  BY DEF OptionsOf, IsOption, Addresses
<1>2. i' \in 1 .. Len(DefaultDCOptions) + 1 /\ i' \in OptionsOf(target)'
  BY <1>1 DEF ConnectOK, TypeOK
<1>3. Position'
  BY <1>2 DEF Position, Holding
<1>4. open' \subseteq 1 .. conn'
  BY SMT
<1>5. TypeOK'
  BY <1>2, <1>4 DEF ConnectOK, TypeOK, environment, Addresses, Holding
<1>6. NoConnectionLeaked'
  BY DEF NoConnectionLeaked, Holding
<1> QED BY <1>3, <1>5, <1>6

\* Every step preserves the invariant.
LEMMA StepOK == ConnectOK /\ [Next]_vars => ConnectOK'
<1> SUFFICES ASSUME ConnectOK, [Next]_vars PROVE ConnectOK'
  OBVIOUS
<1>t. /\ conn \in Nat /\ Len(DefaultDCOptions) \in Nat
      /\ authKey \in Nat \X Nat
      /\ serverKeys \subseteq Nat \X (Nat \X Nat)
  BY OptionsAssumption DEF ConnectOK, TypeOK
<1>b. expired \in BOOLEAN /\ limited \in BOOLEAN
  BY DEF ConnectOK, TypeOK
<1>h. pc \in Holding => i \in OptionsOf(target) /\ open = {conn}
  BY DEF ConnectOK, Position, NoConnectionLeaked, Holding
<1>f. ASSUME pc \in Holding, HandshakeFails PROVE ConnectOK'
  BY <1>f, <1>t, <1>b, MovingOn DEF HandshakeFails
<1>1. CASE Exhausted
  <2>1. pc' = "failed" /\ i' = i /\ target' = target
    BY <1>1 DEF Exhausted, GiveUp
  <2>2. open' = {}
    BY <1>1 DEF Exhausted, ConnectOK, NoConnectionLeaked
  <2>3. TypeOK'
    BY <1>1, <2>1, <2>2 DEF Exhausted, ConnectOK, TypeOK, environment, Addresses
  <2>4. Position' /\ NoConnectionLeaked' /\ KeyKnown'
    BY <2>1, <2>2 DEF ConnectOK, Position, Holding, NoConnectionLeaked, KeyKnown, KeyAgreed
  <2> QED BY <2>3, <2>4 DEF ConnectOK
<1>2. CASE Dial
  <2>1. i \in OptionsOf(target)
    BY <1>2, OptionsAssumption, <1>t DEF Dial, ConnectOK, Position, Addresses
  <2>2. pc' = "pq" /\ conn' \in Nat \ {0} /\ open' = {conn'}
    BY <1>2, <1>t DEF Dial, ConnectOK, NoConnectionLeaked
  <2>3. dials' \in [Addresses -> Nat]
    BY <1>2 DEF Dial, ConnectOK, TypeOK
  <2>4. OptionsOf(target)' = OptionsOf(target)
    BY <1>2 DEF Dial, OptionsOf, IsOption, Addresses
  <2>5. TypeOK'
    BY <1>2, <2>1, <2>2, <2>3, <2>4 DEF Dial, ConnectOK, TypeOK, environment, Addresses
  <2>6. Position' /\ NoConnectionLeaked' /\ KeyKnown'
    BY <1>2, <2>1, <2>2, <2>4 DEF Dial, ConnectOK, Position, Holding, TypeOK,
       NoConnectionLeaked, KeyKnown, KeyAgreed
  <2> QED BY <2>5, <2>6 DEF ConnectOK
<1>3. CASE DialFails
  <2>1. pc' = "dial" /\ TryNext
    BY <1>3 DEF DialFails, TryNext
  <2>2. Position' /\ target' \in Homes \cup {0} /\ i' \in 1 .. Len(DefaultDCOptions) + 1
    BY <2>1, MovesInList
  <2>3. dials' \in [Addresses -> Nat]
    BY <1>3 DEF DialFails, ConnectOK, TypeOK
  <2>4. TypeOK'
    BY <1>3, <2>1, <2>2, <2>3 DEF DialFails, ConnectOK, TypeOK, environment, Addresses
  <2>5. NoConnectionLeaked' /\ KeyKnown'
    BY <1>3, <2>1 DEF DialFails, ConnectOK, NoConnectionLeaked, KeyKnown, KeyAgreed
  <2> QED BY <2>2, <2>4, <2>5 DEF ConnectOK
<1>4. CASE SendReqPQ
  <2>1. pc \in Holding
    BY <1>4 DEF SendReqPQ, Holding
  <2>2. CASE HandshakeFails
    BY <1>f, <2>1, <2>2
  <2>3. CASE pc' = "dh" /\ UNCHANGED <<environment, expired, target, i, conn, open,
                                       authKey, serverKeys, dials>>
    <3>1. conn' \in Nat \ {0} /\ open' = {conn'}
      BY <1>h, <1>t, <2>1, <2>3 DEF ConnectOK, TypeOK
    <3>2. TypeOK' /\ Position' /\ NoConnectionLeaked'
      BY <1>h, <1>t, <1>b, <2>1, <2>3, <3>1, StayingOn DEF Holding
    <3> QED BY <2>3, <3>2 DEF ConnectOK, KeyKnown, KeyAgreed
  <2> QED BY <1>4, <2>2, <2>3 DEF SendReqPQ
<1>5. CASE SendReqDHParams
  <2>1. pc \in Holding
    BY <1>5 DEF SendReqDHParams, Holding
  <2>2. CASE HandshakeFails
    BY <1>f, <2>1, <2>2
  <2>3. CASE /\ pc' = "gen" /\ authKey' = <<conn, conn>>
             /\ UNCHANGED <<environment, expired, target, i, conn, open, serverKeys, dials>>
    <3>1. conn' \in Nat \ {0} /\ open' = {conn'} /\ authKey' \in Nat \X Nat
      BY <1>h, <1>t, <2>1, <2>3 DEF ConnectOK, TypeOK
    <3>2. TypeOK' /\ Position' /\ NoConnectionLeaked'
      BY <1>h, <1>t, <1>b, <2>1, <2>3, <3>1, StayingOn DEF Holding
    <3> QED BY <2>3, <3>2 DEF ConnectOK, KeyKnown, KeyAgreed
  <2>4. PICK ga \in Answers, params \in {"inRange", "outOfRange"} :
          IF ga = conn /\ validateDHParams(params)
          THEN /\ pc' = "gen"
               /\ authKey' = <<ga, conn>>
               /\ UNCHANGED <<environment, expired, target, i, conn, open, serverKeys, dials>>
          ELSE HandshakeFails
    BY <1>5 DEF SendReqDHParams, parseServerDHParams
  <2>5. CASE ga = conn /\ validateDHParams(params)
    BY <2>3, <2>4, <2>5
  <2>6. CASE ~(ga = conn /\ validateDHParams(params))
    BY <2>2, <2>4, <2>6
  <2> QED BY <2>5, <2>6
<1>6. CASE SendSetClientDHParams
  <2> DEFINE key == <<conn, conn>>
  <2>1. pc \in Holding /\ authKey = key
    BY <1>6 DEF SendSetClientDHParams, Holding, ConnectOK, KeyKnown
  <2>2. PICK gen \in {"dh_gen_ok", "dh_gen_retry", "dh_gen_fail"}, nonce \in Answers :
          /\ IF gen = "dh_gen_ok"
             THEN serverKeys' = serverKeys \cup {<<DefaultDCOptions[i].at, key>>}
             ELSE UNCHANGED serverKeys
          /\ IF parseDHGenAnswer([constructor |-> gen, nonce |-> nonce, hash |-> key])
             THEN pc' = "authorize" /\ UNCHANGED <<open, target, i>>
             ELSE Close /\ TryNext
    BY <1>6 DEF SendSetClientDHParams
  <2>3. UNCHANGED <<environment, expired, conn, authKey, dials>>
    BY <1>6 DEF SendSetClientDHParams
  <2>4. DefaultDCOptions[i].at \in Nat
    <3>1. i \in 1 .. Len(DefaultDCOptions)
      BY <1>h, <2>1, OptionsInList
    <3>2. DefaultDCOptions[i] \in [dc : Nat \ {0}, at : Nat \ {0}]
      BY <3>1, OptionsAssumption, ElementOfSeq
    <3> QED BY <3>2
  <2>5. serverKeys' \subseteq Nat \X (Nat \X Nat)
    BY <1>t, <2>2, <2>4
  <2>6. CASE Close /\ TryNext
    BY <1>b, <2>1, <2>3, <2>5, <2>6, MovingOn
  <2>7. CASE /\ parseDHGenAnswer([constructor |-> gen, nonce |-> nonce, hash |-> key])
             /\ pc' = "authorize" /\ UNCHANGED <<open, target, i>>
    <3>1. gen = "dh_gen_ok"
      BY <2>7 DEF parseDHGenAnswer
    <3>2. <<DefaultDCOptions[i].at, authKey>> \in serverKeys'
      BY <2>1, <2>2, <3>1
    <3>3. conn' \in Nat \ {0} /\ open' = {conn'} /\ authKey' \in Nat \X Nat
      BY <1>h, <1>t, <2>1, <2>3, <2>7 DEF ConnectOK, TypeOK
    <3>4. TypeOK' /\ Position' /\ NoConnectionLeaked'
      BY <1>b, <1>h, <2>1, <2>3, <2>5, <2>7, <3>3, StayingOn DEF Holding
    <3>5. KeyKnown'
      BY <2>1, <2>3, <2>7, <3>2 DEF KeyKnown, KeyAgreed
    <3> QED BY <3>4, <3>5 DEF ConnectOK
  <2> QED BY <2>2, <2>6, <2>7
<1>7. CASE Authorize
  <2>1. pc \in Holding /\ pc' \in Holding
    BY <1>7 DEF Authorize, Holding
  <2>2. conn' \in Nat \ {0} /\ open' = {conn'}
    BY <1>7, <1>h, <1>t, <2>1 DEF Authorize, ConnectOK, TypeOK
  <2>3. TypeOK' /\ Position' /\ NoConnectionLeaked'
    BY <1>7, <1>b, <1>h, <1>t, <2>1, <2>2, StayingOn DEF Authorize
  <2>4. KeyKnown'
    BY <1>7 DEF Authorize, ConnectOK, KeyKnown, KeyAgreed
  <2> QED BY <2>3, <2>4 DEF ConnectOK
<1>8. CASE Migrate
  <2>1. pc \in Holding
    BY <1>8 DEF Migrate, Holding
  <2>2. TryNext \/ OnDC(home)
    BY <1>8 DEF Migrate, Follow
  <2> QED BY <1>8, <1>b, <1>t, <2>1, <2>2, MovingOn DEF Migrate
<1>9. CASE AuthorizeFails
  <2>1. pc \in Holding
    BY <1>9 DEF AuthorizeFails, Holding
  <2>e. expired' \in BOOLEAN
    BY <1>9, <1>b DEF AuthorizeFails
  <2>2. CASE TryNext
    BY <1>9, <1>t, <2>1, <2>2, <2>e, MovingOn DEF AuthorizeFails
  <2>3. CASE GiveUp
    <3>1. pc' = "failed" /\ i' = i /\ target' = target
      BY <2>3 DEF GiveUp
    <3>2. open' = {}
      BY <1>9, <1>h, <2>1 DEF AuthorizeFails, Close
    <3>3. TypeOK'
      BY <1>9, <2>e, <3>1, <3>2 DEF AuthorizeFails, ConnectOK, TypeOK, environment, Addresses
    <3>4. Position' /\ NoConnectionLeaked' /\ KeyKnown'
      BY <3>1, <3>2 DEF ConnectOK, Position, Holding, NoConnectionLeaked, KeyKnown, KeyAgreed
    <3> QED BY <3>3, <3>4 DEF ConnectOK
  <2> QED BY <1>9, <2>2, <2>3 DEF AuthorizeFails
<1>10. CASE CloseClient
  <2>1. pc \in Holding /\ pc' = "closed" /\ i' = i /\ target' = target
    BY <1>10 DEF CloseClient, Holding
  <2>2. open' = {}
    BY <1>10, <1>h, <2>1 DEF CloseClient, Close
  <2>3. TypeOK'
    BY <1>10, <2>1, <2>2 DEF CloseClient, ConnectOK, TypeOK, environment, Addresses
  <2>4. Position' /\ NoConnectionLeaked' /\ KeyKnown'
    BY <2>1, <2>2 DEF ConnectOK, Position, Holding, NoConnectionLeaked, KeyKnown, KeyAgreed
  <2> QED BY <2>3, <2>4 DEF ConnectOK
<1>11. CASE UNCHANGED vars
  BY <1>11 DEF vars, ConnectOK, TypeOK, Position, Holding, NoConnectionLeaked,
     KeyKnown, KeyAgreed, OptionsOf, IsOption, Addresses
<1>12. CASE StaysSilent
  <2>1. pc \in Holding /\ Close /\ TryNext /\ expired' \in BOOLEAN
        /\ UNCHANGED <<environment, conn, authKey, dials>>
    BY <1>12, <1>b DEF StaysSilent, Holding
  <2>2. DefaultDCOptions[i].at \in Nat
    <3>1. i \in 1 .. Len(DefaultDCOptions)
      BY <1>h, <2>1, OptionsInList
    <3>2. DefaultDCOptions[i] \in [dc : Nat \ {0}, at : Nat \ {0}]
      BY <3>1, OptionsAssumption, ElementOfSeq
    <3> QED BY <3>2
  <2>3. serverKeys' \subseteq Nat \X (Nat \X Nat)
    <3>1. serverKeys' = serverKeys
          \/ serverKeys' = serverKeys \cup {<<DefaultDCOptions[i].at, <<conn, conn>>>>}
      BY <1>12 DEF StaysSilent
    <3> QED BY <1>t, <2>2, <3>1
  <2> QED BY <2>1, <2>3, MovingOn
<1>13. CASE DeadlinePasses
  <2>1. UNCHANGED <<environment, pc, target, i, conn, open, authKey, serverKeys, dials>>
        /\ expired' = TRUE
    BY <1>13 DEF DeadlinePasses
  <2> QED BY <2>1 DEF environment, ConnectOK, TypeOK, Position, Holding, NoConnectionLeaked,
             KeyKnown, KeyAgreed, OptionsOf, IsOption, Addresses
<1> QED BY <1>1, <1>2, <1>3, <1>4, <1>5, <1>6, <1>7, <1>8, <1>9, <1>10, <1>11, <1>12, <1>13
       DEF Next, LoginStep, AuthKeyOnConn

\* A login, whatever fails on its way, holds the connection it works on or
\* returns and no other: DialEncrypted and the functions above it close the
\* connection on every error path.
THEOREM NoLeak == Spec => []NoConnectionLeaked
<1>1. ConnectOK => NoConnectionLeaked
  BY DEF ConnectOK
<1> QED BY InitOK, StepOK, <1>1, PTL DEF Spec

\* A client authorises itself, and is returned, only with a key that the
\* server at its address has registered.
THEOREM KeyIsShared == Spec => []KeyAgreed
<1>1. ConnectOK => KeyAgreed
  BY DEF ConnectOK, KeyKnown
<1> QED BY InitOK, StepOK, <1>1, PTL DEF Spec

\* The variables of a login stay in their types, and its position in the list.
THEOREM TypeCorrect == Spec => []TypeOK
<1>1. ConnectOK => TypeOK
  BY DEF ConnectOK
<1> QED BY InitOK, StepOK, <1>1, PTL DEF Spec

-----------------------------------------------------------------------------
\* the addresses the loop under way has dialled
Past(k) == k < i \/ (k = i /\ pc # "dial")

\* the first pass is over the whole list, a second one over the addresses of
\* the account's DC: each dials an address once, and there is no third
Dialled ==
    /\ target \in {0, home}
    /\ \A k \in Addresses :
         /\ dials[k] <= 2
         /\ target = 0 => dials[k] <= 1
         /\ ~Past(k) => dials[k] <= 1
         /\ target = 0 /\ ~Past(k) => dials[k] = 0

\* The loop over the addresses only goes forward.
LEMMA NextOptionAdvances ==
    ASSUME NEW dcID, NEW from \in Nat, from <= Len(DefaultDCOptions) + 1
    PROVE  NextOption(dcID, from) \in Nat /\ NextOption(dcID, from) >= from
<1> DEFINE left == {k \in OptionsOf(dcID) : k >= from}
<1>0. Len(DefaultDCOptions) \in Nat
  BY OptionsAssumption
<1>1. CASE left = {}
  BY <1>0, <1>1 DEF NextOption
<1>2. CASE left # {}
  <2>1. left \subseteq Nat
    BY OptionsAssumption DEF OptionsOf, Addresses
  <2>2. \E k \in left : \A l \in left : k <= l
    BY <1>2, <2>1, LeastNumber
  <2>3. NextOption(dcID, from) \in left
    BY <1>2, <2>2 DEF NextOption
  <2> QED BY <2>1, <2>3
<1> QED BY <1>1, <1>2

LEMMA InitDialled == Init => Dialled
<1> SUFFICES ASSUME Init PROVE Dialled
  OBVIOUS
<1>1. \A k \in Addresses : dials[k] = 0
  BY DEF Init
<1> QED BY <1>1 DEF Init, Dialled

\* A step that dials nothing and does not fall back in the list.
LEMMA DialsKept ==
    ASSUME ConnectOK, ConnectOK', Dialled, UNCHANGED <<home, target, dials>>,
           \A k \in Addresses : Past(k) => Past(k)'
    PROVE  Dialled'
BY DEF Dialled, Addresses

\* Going on to the next address.
LEMMA NextKeeps ==
    ASSUME ConnectOK, i \in Addresses, TryNext
    PROVE  /\ \A k \in Addresses : k <= i => Past(k)'
           /\ \A k \in Addresses : Past(k) => k <= i
           /\ target' = target
<1>1. Addresses \subseteq Nat /\ i \in Nat /\ i + 1 <= Len(DefaultDCOptions) + 1
  BY OptionsAssumption DEF Addresses
<1>2. i' \in Nat /\ i' >= i + 1 /\ target' = target
  BY <1>1, NextOptionAdvances DEF TryNext
<1>3. \A k \in Addresses : k <= i => k < i'
  BY <1>1, <1>2
<1>4. \A k \in Addresses : Past(k) => k <= i
  BY <1>1 DEF Past
<1> QED BY <1>2, <1>3, <1>4 DEF Past

\* Every step keeps to the two passes.
LEMMA StepDialled == ConnectOK /\ ConnectOK' /\ Dialled /\ [Next]_vars => Dialled'
<1> SUFFICES ASSUME ConnectOK, ConnectOK', Dialled, [Next]_vars PROVE Dialled'
  OBVIOUS
<1>t. /\ dials \in [Addresses -> Nat] /\ Addresses \subseteq Nat
      /\ i \in Nat /\ home \in Nat \ {0}
  <2>1. Addresses \subseteq Nat /\ Homes \subseteq Nat \ {0}
    BY OptionsAssumption DEF Addresses
  <2> QED BY <2>1 DEF ConnectOK, TypeOK
<1>h. pc \in Holding => i \in Addresses
  BY OptionsInList, OptionsAssumption DEF ConnectOK, Position, Addresses
<1>n. ASSUME pc \in Holding, TryNext, UNCHANGED <<home, dials>> PROVE Dialled'
  BY <1>h, <1>n, NextKeeps, DialsKept
<1>1. CASE Dial
  <2>1. /\ UNCHANGED <<home, target, i>> /\ pc = "dial" /\ pc' = "pq" /\ i \in Addresses
        /\ dials' = [dials EXCEPT ![i] = @ + 1]
    BY <1>1 DEF Dial, environment
  <2>2. Past(i)' /\ ~Past(i)
    BY <1>t, <2>1 DEF Past
  <2>3. \A k \in Addresses : k # i => (Past(k)' <=> Past(k))
    BY <2>1 DEF Past
  <2>4. dials'[i] = dials[i] + 1 /\ \A k \in Addresses : k # i => dials'[k] = dials[k]
    BY <1>t, <2>1
  <2>5. dials[i] \in Nat
    BY <1>t, <2>1
  <2>6. dials[i] <= 1 /\ (target = 0 => dials[i] = 0)
    BY <2>1, <2>2 DEF Dialled
  <2>7. dials'[i] <= 2 /\ (target = 0 => dials'[i] <= 1)
    BY <2>4, <2>5, <2>6
  <2> QED BY <2>1, <2>2, <2>3, <2>4, <2>7 DEF Dialled, Addresses
<1>2. CASE DialFails
  <2>1. /\ UNCHANGED home /\ TryNext /\ pc = "dial" /\ i \in Addresses
        /\ dials' = [dials EXCEPT ![i] = @ + 1]
    BY <1>2 DEF DialFails, environment
  <2>2. /\ \A k \in Addresses : k <= i => Past(k)'
        /\ \A k \in Addresses : Past(k) => k <= i
        /\ target' = target
    BY <2>1, NextKeeps
  <2>3. PICK k0 \in Addresses : k0 = i
    BY <2>1
  <2>4. Past(k0)' /\ ~Past(k0)
    BY <1>t, <2>1, <2>2, <2>3 DEF Past
  <2>5. dials'[k0] = dials[k0] + 1 /\ \A k \in Addresses : k # k0 => dials'[k] = dials[k]
    BY <1>t, <2>1, <2>3
  <2>6. dials[k0] \in Nat /\ dials[k0] <= 1 /\ (target = 0 => dials[k0] = 0)
    BY <1>t, <2>4 DEF Dialled
  <2>7. dials'[k0] <= 2 /\ (target = 0 => dials'[k0] <= 1)
    BY <2>5, <2>6
  <2>8. \A k \in Addresses : Past(k) => Past(k)'
    BY <2>2
  <2> QED BY <2>1, <2>2, <2>4, <2>5, <2>7, <2>8 DEF Dialled, Addresses
<1>3. CASE AuthKeyOnConn
  <2>1. pc \in Holding /\ UNCHANGED <<home, dials>>
    BY <1>3 DEF AuthKeyOnConn, SendReqPQ, SendReqDHParams, SendSetClientDHParams,
       StaysSilent, HandshakeFails, Holding, environment
  <2>2. CASE TryNext
    BY <1>n, <2>1, <2>2
  <2>3. CASE pc' \in Holding /\ UNCHANGED <<target, i>>
    <3>1. \A k \in Addresses : Past(k) => Past(k)'
      BY <2>3 DEF Past, Holding
    <3> QED BY <2>1, <2>3, <3>1, DialsKept
  <2> QED BY <1>3, <2>2, <2>3 DEF AuthKeyOnConn, SendReqPQ, SendReqDHParams,
          SendSetClientDHParams, StaysSilent, HandshakeFails, Holding
<1>4. CASE Migrate
  <2>1. pc \in Holding /\ UNCHANGED <<home, dials>> /\ Follow(home)
    BY <1>4 DEF Migrate, Holding, environment
  <2>2. CASE target = 0
    <3>1. target' = home
      BY <2>1, <2>2 DEF Follow, OnDC
    <3>2. \A k \in Addresses : dials'[k] \in Nat /\ dials'[k] <= 1
      BY <1>t, <2>1, <2>2 DEF Dialled
    <3>3. \A k \in Addresses : dials'[k] <= 2
      BY <3>2
    <3> QED BY <1>t, <2>1, <3>1, <3>2, <3>3 DEF Dialled, Addresses
  <2>3. CASE target # 0
    <3>1. target = home
      BY <2>3 DEF Dialled
    <3>2. TryNext
      BY <2>1, <2>3, <3>1 DEF Follow
    <3> QED BY <1>n, <2>1, <3>2
  <2> QED BY <2>2, <2>3
<1>5. CASE AuthorizeFails
  <2>1. pc \in Holding /\ pc # "dial" /\ UNCHANGED <<home, dials>>
    BY <1>5 DEF AuthorizeFails, Holding, environment
  <2>2. CASE TryNext
    BY <1>n, <2>1, <2>2
  <2>3. CASE GiveUp
    <3>1. \A k \in Addresses : Past(k) => Past(k)'
      BY <2>3 DEF GiveUp, Past
    <3> QED BY <2>1, <2>3, <3>1, DialsKept DEF GiveUp
  <2> QED BY <1>5, <2>2, <2>3 DEF AuthorizeFails
<1>6. CASE Exhausted \/ Authorize \/ DeadlinePasses \/ CloseClient \/ UNCHANGED vars
  <2>1. UNCHANGED <<home, target, dials, i>> /\ (pc' = "dial" => pc = "dial")
    BY <1>6 DEF Exhausted, GiveUp, Authorize, DeadlinePasses, CloseClient, vars, environment
  <2>2. \A k \in Addresses : Past(k) => Past(k)'
    BY <2>1 DEF Past
  <2> QED BY <2>1, <2>2, DialsKept
<1> QED BY <1>1, <1>2, <1>3, <1>4, <1>5, <1>6 DEF Next, LoginStep

\* No address is dialled more than twice, whatever fails and wherever the
\* redirections lead: importBotAuthorizationOnDC follows one only to another
\* DC, and the account's DC does not name one.
THEOREM TwoPasses == Spec => []DialledAtMostTwice
<1>1. Dialled => DialledAtMostTwice
  BY DEF Dialled, DialledAtMostTwice
<1> QED BY InitOK, StepOK, InitDialled, StepDialled, <1>1, PTL DEF Spec

-----------------------------------------------------------------------------
(***************************************************************************)
(* The program that logs a user account in.                                *)
(***************************************************************************)
\* Each of its steps is a step of the login, or leaves the login alone.
LEMMA AccountStepIsLoginStep == [AccountNext]_accountVars => [Next]_vars
<1> SUFFICES ASSUME [AccountNext]_accountVars PROVE Next \/ UNCHANGED vars
  OBVIOUS
<1>e. \A how : Exit(how) => CloseClient \/ UNCHANGED vars
  BY DEF Exit
<1>g. \A next : GoOn(next) => UNCHANGED vars
  BY DEF GoOn
<1>1. CASE Load
  BY <1>1, <1>g DEF Load
<1>2. CASE CheckStored
  BY <1>2, <1>e, <1>g DEF CheckStored, Next
<1>3. CASE SendCode
  BY <1>3 DEF SendCode, Next
<1>4. CASE SendCodeFails
  BY <1>4, <1>e DEF SendCodeFails, Next
<1>5. CASE SentCode
  BY <1>5, <1>e, <1>g DEF SentCode, Next
<1>6. CASE SignIn
  BY <1>6, <1>e, <1>g DEF SignIn, Next
<1>7. CASE GetPassword
  BY <1>7, <1>e, <1>g DEF GetPassword, Next
<1>8. CASE CheckPassword
  BY <1>8, <1>e, <1>g DEF CheckPassword, Next
<1>9. CASE GetState
  BY <1>9, <1>e, <1>g DEF GetState, Next
<1>10. CASE Save
  BY <1>10, <1>e DEF Save, Next
<1>11. CASE UNCHANGED accountVars
  BY <1>11 DEF accountVars
<1> QED BY <1>1, <1>2, <1>3, <1>4, <1>5, <1>6, <1>7, <1>8, <1>9, <1>10, <1>11
        DEF AccountNext

\* The program leaks no connection, talks with shared keys only and dials no
\* address more than twice, over all its calls and exits, panics included.
THEOREM AccountConnects ==
    AccountSpec => [](TypeOK /\ NoConnectionLeaked /\ KeyAgreed /\ DialledAtMostTwice)
<1>1. ConnectOK /\ Dialled => TypeOK /\ NoConnectionLeaked /\ KeyAgreed /\ DialledAtMostTwice
  BY DEF ConnectOK, KeyKnown, Dialled, DialledAtMostTwice
<1>2. AccountInit => Init
  BY DEF AccountInit
<1> QED BY InitOK, StepOK, InitDialled, StepDialled, AccountStepIsLoginStep,
        <1>1, <1>2, PTL DEF AccountSpec

\* what the program knows at each of the steps that lead to a success
LoginKnown ==
    /\ step = "check" => store # {}
    /\ step = "save" => session \in authorized
    /\ SavedSessionWorks

LEMMA StepLoginKnown == LoginKnown /\ [AccountNext]_accountVars => LoginKnown'
<1> SUFFICES ASSUME LoginKnown, [AccountNext]_accountVars PROVE LoginKnown'
  OBVIOUS
<1> USE DEF LoginKnown, SavedSessionWorks
<1>e. \A how : Exit(how) => step' = how
  BY DEF Exit
<1>g. \A next : GoOn(next) => step' = next /\ UNCHANGED vars
  BY DEF GoOn
<1>1. CASE Load
  BY <1>1, <1>g DEF Load
<1>2. CASE CheckStored
  <2>1. UNCHANGED <<store, authorized>>
    BY <1>2 DEF CheckStored
  <2>2. (step' = "done" /\ store \subseteq authorized) \/ step' = "sendCode"
    BY <1>2, <1>e, <1>g DEF CheckStored
  <2>3. step = "check"
    BY <1>2 DEF CheckStored
  <2> QED BY <2>1, <2>2, <2>3
<1>3. CASE SendCode
  BY <1>3 DEF SendCode, programVars
<1>4. CASE SendCodeFails
  BY <1>4, <1>e DEF SendCodeFails
<1>5. CASE SentCode
  BY <1>5, <1>e, <1>g DEF SentCode
<1>6. CASE SignIn
  BY <1>6, <1>e, <1>g DEF SignIn
<1>7. CASE GetPassword
  BY <1>7, <1>e, <1>g DEF GetPassword
<1>8. CASE CheckPassword
  <2>1. step' \in {"panicked", "getState"}
    BY <1>8, <1>e, <1>g DEF CheckPassword
  <2> QED BY <2>1
<1>9. CASE GetState
  <2>1. CASE session \in authorized /\ GoOn("save")
    BY <1>9, <1>g, <2>1 DEF GetState, session, vars
  <2>2. CASE Exit("panicked")
    BY <1>9, <1>e, <2>2 DEF GetState
  <2> QED BY <1>9, <2>1, <2>2 DEF GetState
<1>10. CASE Save
  BY <1>10, <1>e DEF Save
<1>11. CASE UNCHANGED accountVars
  BY <1>11 DEF accountVars, programVars, vars, session
<1> QED BY <1>1, <1>2, <1>3, <1>4, <1>5, <1>6, <1>7, <1>8, <1>9, <1>10, <1>11
        DEF AccountNext

\* A program that says it is logged in has stored a session the server
\* accepts: updates.getState was answered on it before the report and before
\* store.Save.
THEOREM SavedWorks == AccountSpec => []SavedSessionWorks
<1>1. AccountInit => LoginKnown
  BY DEF AccountInit, LoginKnown, SavedSessionWorks
<1>2. LoginKnown => SavedSessionWorks
  BY DEF LoginKnown
<1> QED BY StepLoginKnown, <1>1, <1>2, PTL DEF AccountSpec

(***************************************************************************)
(* Arithmetic modulo P.                                                    *)
(***************************************************************************)
\* a and b differ by a multiple of P
Congruent(a, b) == \E k \in Int : a = b + k * P

\* The modulus is positive.
LEMMA Positive == P \in Nat /\ P > 2
BY PasswordAssumption

\* What % returns: a residue, congruent to the number.
LEMMA Residue ==
    ASSUME NEW a \in Int
    PROVE  a % P \in Residues /\ Congruent(a, a % P)
<1>1. a % P \in Residues
  BY Positive DEF Residues
<1>2. a = (a % P) + (a \div P) * P /\ a \div P \in Int
  BY Positive
<1> QED BY <1>1, <1>2 DEF Congruent

\* Congruence is symmetric and transitive.
LEMMA CongruentIsEquivalence ==
    ASSUME NEW a \in Int, NEW b \in Int, NEW c \in Int, Congruent(a, b)
    PROVE  Congruent(b, a) /\ (Congruent(b, c) => Congruent(a, c))
<1>1. PICK k \in Int : a = b + k * P
  BY DEF Congruent
<1>2. b = a + (-k) * P
  BY <1>1, Positive
<1>3. ASSUME NEW l \in Int, b = c + l * P PROVE a = c + (k + l) * P
  BY <1>1, <1>3, Positive
<1>4. -k \in Int /\ \A l \in Int : k + l \in Int
  OBVIOUS
<1> QED BY <1>2, <1>3, <1>4 DEF Congruent

\* A product may be taken of congruent numbers.
LEMMA CongruentProducts ==
    ASSUME NEW a \in Int, NEW b \in Int, NEW c \in Int, Congruent(a, b)
    PROVE  Congruent(c * a, c * b) /\ Congruent(a * c, b * c)
<1>1. PICK k \in Int : a = b + k * P
  BY DEF Congruent
<1>2. c * a = c * b + (c * k) * P /\ c * k \in Int
  BY <1>1, Positive
<1>3. a * c = c * a /\ b * c = c * b
  OBVIOUS
<1> QED BY <1>2, <1>3 DEF Congruent

\* Only one residue is congruent to a number.
LEMMA CongruentResidues ==
    ASSUME NEW a \in Residues, NEW b \in Residues, Congruent(a, b)
    PROVE  a = b
<1>1. PICK k \in Int : a = b + k * P
  BY DEF Congruent
<1>2. a \in Int /\ b \in Int /\ 0 <= a /\ a < P /\ 0 <= b /\ b < P
  BY Positive DEF Residues
<1>3. CASE k >= 1
  <2>1. k * P >= P
    BY <1>3, Positive
  <2> QED BY <1>1, <1>2, <2>1, Positive
<1>4. CASE k <= -1
  <2>1. k * P <= -P
    BY <1>4, Positive
  <2> QED BY <1>1, <1>2, <2>1, Positive
<1>5. CASE k = 0
  BY <1>1, <1>2, <1>5, Positive
<1> QED BY <1>3, <1>4, <1>5

\* Numbers that are congruent leave the same remainder
LEMMA SameRemainder ==
    ASSUME NEW a \in Int, NEW b \in Int, Congruent(a, b)
    PROVE  a % P = b % P
<1>1. a % P \in Residues /\ b % P \in Residues /\ Congruent(a, a % P) /\ Congruent(b, b % P)
  BY Residue
<1>2. a % P \in Int /\ b % P \in Int
  BY <1>1 DEF Residues
<1>3. Congruent(a % P, a)
  BY <1>1, <1>2, CongruentIsEquivalence
<1>4. Congruent(a % P, b)
  BY <1>2, <1>3, CongruentIsEquivalence
<1>5. Congruent(a % P, b % P)
  BY <1>1, <1>2, <1>4, CongruentIsEquivalence
<1> QED BY <1>1, <1>5, CongruentResidues

\* A factor may be reduced before the product is
LEMMA ReduceFactor ==
    ASSUME NEW a \in Int, NEW c \in Int
    PROVE  /\ (c * (a % P)) % P = (c * a) % P
           /\ ((a % P) * c) % P = (a * c) % P
<1>1. a % P \in Int /\ Congruent(a, a % P)
  BY Residue DEF Residues
<1>2. Congruent(c * a, c * (a % P)) /\ Congruent(a * c, (a % P) * c)
  BY <1>1, CongruentProducts
<1>3. c * a \in Int /\ c * (a % P) \in Int /\ a * c \in Int /\ (a % P) * c \in Int
  BY <1>1
<1>4. (c * a) % P = (c * (a % P)) % P
  BY <1>2, <1>3, SameRemainder
<1>5. (a * c) % P = ((a % P) * c) % P
  BY <1>2, <1>3, SameRemainder
<1> QED BY <1>4, <1>5

(***************************************************************************)
(* Exp.                                                                    *)
(***************************************************************************)
\* the function Exp chooses, and the part of it up to n
IsPower(f, base) ==
    f = [m \in Nat |-> IF m = 0 THEN 1 ELSE (base * f[m - 1]) % P]

IsPowers(f, n, base) ==
    f = [m \in 0 .. n |-> IF m = 0 THEN 1 ELSE (base * f[m - 1]) % P]

\* The powers up to n exist: those up to the least n without them extend the
\* ones before.
LEMMA PowersExist ==
    ASSUME NEW base, NEW n \in Nat
    PROVE  \E f : IsPowers(f, n, base)
<1> DEFINE Bad == {k \in Nat : ~ \E f : IsPowers(f, k, base)}
<1> SUFFICES ASSUME Bad # {} PROVE FALSE
  OBVIOUS
<1>1. PICK k \in Bad : \A l \in Bad : k <= l
  BY LeastNumber
<1>2. k \in Nat /\ ~ \E f : IsPowers(f, k, base)
  OBVIOUS
<1>3. CASE k = 0
  <2> DEFINE f == [m \in 0 .. 0 |-> 1]
  <2>1. IsPowers(f, 0, base)
    BY DEF IsPowers
  <2> QED BY <1>2, <1>3, <2>1
<1>4. CASE k # 0
  <2>1. k - 1 \in Nat /\ k - 1 \notin Bad
    BY <1>1, <1>2, <1>4
  <2>2. PICK f : IsPowers(f, k - 1, base)
    BY <2>1
  <2> DEFINE g == [m \in 0 .. k |-> IF m = k THEN (base * f[k - 1]) % P ELSE f[m]]
  <2>3. \A m \in 0 .. k - 1 : f[m] = IF m = 0 THEN 1 ELSE (base * f[m - 1]) % P
    BY <2>2 DEF IsPowers
  <2>4. \A m \in 0 .. k : m # 0 => m - 1 \in 0 .. k /\ m - 1 # k
    BY <1>2
  <2>5. \A m \in 0 .. k : m # k => m \in 0 .. k - 1
    BY <1>2
  <2>6. \A m \in 0 .. k : g[m] = IF m = 0 THEN 1 ELSE (base * g[m - 1]) % P
    BY <1>2, <1>4, <2>3, <2>4, <2>5
  <2>7. IsPowers(g, k, base)
    BY <2>6 DEF IsPowers
  <2> QED BY <1>2, <2>7
<1> QED BY <1>3, <1>4

\* The powers up to a smaller number are those up to a larger one.
LEMMA PowersUnique ==
    ASSUME NEW base, NEW n \in Nat, NEW l \in Nat, l <= n,
           NEW f, NEW g, IsPowers(f, n, base), IsPowers(g, l, base)
    PROVE  \A m \in 0 .. l : f[m] = g[m]
<1> DEFINE Bad == {m \in 0 .. l : f[m] # g[m]}
<1> SUFFICES ASSUME Bad # {} PROVE FALSE
  OBVIOUS
<1>1. Bad \in SUBSET Nat
  OBVIOUS
<1>2. PICK k \in Bad : \A j \in Bad : k <= j
  BY <1>1, LeastNumber
<1>3. k \in 0 .. l /\ k \in 0 .. n /\ f[k] # g[k]
  OBVIOUS
<1>4. f[k] = IF k = 0 THEN 1 ELSE (base * f[k - 1]) % P
  BY <1>3 DEF IsPowers
<1>5. g[k] = IF k = 0 THEN 1 ELSE (base * g[k - 1]) % P
  BY <1>3 DEF IsPowers
<1>6. k # 0
  BY <1>3, <1>4, <1>5
<1>7. k - 1 \in 0 .. l /\ k - 1 \notin Bad
  BY <1>2, <1>3, <1>6
<1>8. f[k - 1] = g[k - 1]
  BY <1>7
<1> QED BY <1>3, <1>4, <1>5, <1>6, <1>8

\* So the function that Exp chooses exists.
LEMMA PowerExists ==
    ASSUME NEW base
    PROVE  \E f : IsPower(f, base)
<1> DEFINE part(n) == CHOOSE g : IsPowers(g, n, base)
           f == [m \in Nat |-> part(m)[m]]
<1>1. \A n \in Nat : IsPowers(part(n), n, base)
  BY PowersExist
<1> HIDE DEF part
<1>2. ASSUME NEW m \in Nat, m # 0
      PROVE  part(m)[m] = (base * part(m - 1)[m - 1]) % P
  <2>1. m - 1 \in Nat /\ m - 1 <= m /\ m - 1 \in 0 .. (m - 1) /\ m \in 0 .. m
    BY <1>2
  <2>2. PICK l \in Nat : l = m - 1 /\ l <= m /\ l \in 0 .. l
    BY <2>1
  <2>3. PICK h : h = part(m)
    OBVIOUS
  <2>4. PICK g : g = part(l)
    OBVIOUS
  <2>5. IsPowers(h, m, base) /\ IsPowers(g, l, base)
    BY <1>1, <2>3, <2>4
  <2>6. h[l] = g[l]
    BY <2>2, <2>5, PowersUnique
  <2>7. h[m] = (base * h[m - 1]) % P
    BY <1>2, <2>1, <2>5 DEF IsPowers
  <2> QED BY <2>2, <2>3, <2>4, <2>6, <2>7
<1>3. part(0)[0] = 1
  <2>1. PICK h : h = part(0) /\ IsPowers(h, 0, base)
    BY <1>1
  <2>2. h[0] = 1
    BY <2>1 DEF IsPowers
  <2> QED BY <2>1, <2>2
<1>4. \A m \in Nat : f[m] = IF m = 0 THEN 1 ELSE (base * f[m - 1]) % P
  <2> SUFFICES ASSUME NEW m \in Nat
               PROVE  f[m] = IF m = 0 THEN 1 ELSE (base * f[m - 1]) % P
    OBVIOUS
  <2>1. CASE m = 0
    BY <1>3, <2>1
  <2>2. CASE m # 0
    <3>1. m - 1 \in Nat
      BY <2>2
    <3>2. f[m] = part(m)[m] /\ f[m - 1] = part(m - 1)[m - 1]
      BY <3>1
    <3> QED BY <1>2, <2>2, <3>2
  <2> QED BY <2>1, <2>2
<1>5. f = [m \in Nat |-> f[m]]
  OBVIOUS
<1> HIDE DEF f
<1>6. IsPower(f, base)
  BY <1>4, <1>5 DEF IsPower
<1> QED BY <1>6

\* Exp is what its recursive definition says.
LEMMA ExpSteps ==
    ASSUME NEW base
    PROVE  /\ Exp(base, 0) = 1
           /\ \A n \in Nat : Exp(base, n + 1) = (base * Exp(base, n)) % P
<1> DEFINE f == CHOOSE power : power = [m \in Nat |-> IF m = 0 THEN 1 ELSE (base * power[m - 1]) % P]
<1>1. IsPower(f, base)
  BY PowerExists DEF IsPower
<1>2. \A n : Exp(base, n) = f[n]
  BY DEF Exp
<1> HIDE DEF f
<1>3. \A m \in Nat : f[m] = IF m = 0 THEN 1 ELSE (base * f[m - 1]) % P
  BY <1>1 DEF IsPower
<1>4. f[0] = 1
  BY <1>3
<1>5. ASSUME NEW n \in Nat PROVE f[n + 1] = (base * f[n]) % P
  <2>1. n + 1 \in Nat /\ n + 1 # 0 /\ (n + 1) - 1 = n
    OBVIOUS
  <2> QED BY <1>3, <2>1
<1> QED BY <1>2, <1>4, <1>5

\* A power is a residue.
LEMMA ExpIsResidue ==
    ASSUME NEW base \in Nat, NEW n \in Nat
    PROVE  Exp(base, n) \in Residues /\ Exp(base, n) \in Nat
<1> DEFINE Bad == {m \in Nat : Exp(base, m) \notin Residues}
<1>1. Bad = {}
  <2> SUFFICES ASSUME Bad # {} PROVE FALSE
    OBVIOUS
  <2>1. PICK k \in Bad : \A l \in Bad : k <= l
    BY LeastNumber
  <2>2. k \in Nat /\ Exp(base, k) \notin Residues
    OBVIOUS
  <2>3. k # 0
    BY <2>2, ExpSteps, Positive DEF Residues
  <2>4. PICK m \in Nat : k = m + 1
    <3>1. k - 1 \in Nat /\ k = (k - 1) + 1
      BY <2>2, <2>3
    <3> QED BY <3>1
  <2>5. m \notin Bad
    BY <2>1, <2>4
  <2>6. Exp(base, m) \in Int
    BY <2>5, Positive DEF Residues
  <2>7. Exp(base, k) = (base * Exp(base, m)) % P
    BY <2>4, ExpSteps
  <2>8. base * Exp(base, m) \in Int
    BY <2>6
  <2> QED BY <2>2, <2>7, <2>8, Residue
<1> QED BY <1>1, Positive DEF Residues

\* Reducing a residue changes nothing.
LEMMA ResidueKept ==
    ASSUME NEW r \in Residues
    PROVE  r % P = r
BY Positive DEF Residues

\* The laws of powers, by the least exponent that breaks them
LEMMA ExpSum ==
    ASSUME NEW base \in Nat, NEW m \in Nat, NEW n \in Nat
    PROVE  Exp(base, m + n) = (Exp(base, m) * Exp(base, n)) % P
<1> DEFINE Bad == {k \in Nat : Exp(base, k + n) # (Exp(base, k) * Exp(base, n)) % P}
<1> SUFFICES ASSUME Bad # {} PROVE FALSE
  OBVIOUS
<1>1. PICK k \in Bad : \A l \in Bad : k <= l
  BY LeastNumber
<1>2. k \in Nat /\ Exp(base, k + n) # (Exp(base, k) * Exp(base, n)) % P
  OBVIOUS
<1> DEFINE y == Exp(base, n)
<1>3. y \in Residues /\ y \in Nat
  BY ExpIsResidue
<1>4. k # 0
  <2>1. CASE k = 0
    <3>1. Exp(base, k) * y = y /\ k + n = n
      BY <1>3, <2>1, ExpSteps
    <3> QED BY <1>2, <1>3, <3>1, ResidueKept
  <2> QED BY <2>1
<1>5. PICK l \in Nat : k = l + 1
  <2>1. k - 1 \in Nat /\ k = (k - 1) + 1
    BY <1>2, <1>4
  <2> QED BY <2>1
<1>6. l \notin Bad
  BY <1>1, <1>5
<1> DEFINE x == Exp(base, l)
<1>7. x \in Nat /\ Exp(base, l + n) = (x * y) % P
  BY <1>6, ExpIsResidue
<1>8. Exp(base, k) = (base * x) % P
  BY <1>5, ExpSteps
<1>9. Exp(base, k + n) = (base * ((x * y) % P)) % P
  <2>1. k + n = (l + n) + 1 /\ l + n \in Nat
    BY <1>5
  <2> QED BY <1>7, <2>1, ExpSteps
<1> HIDE DEF x, y
<1>10. base \in Int /\ x \in Int /\ y \in Int /\ x * y \in Int /\ base * x \in Int
  BY <1>3, <1>7
<1>11. (base * ((x * y) % P)) % P = (base * (x * y)) % P
  BY <1>10, ReduceFactor
<1>12. (((base * x) % P) * y) % P = ((base * x) * y) % P
  BY <1>10, ReduceFactor
<1>13. base * (x * y) = (base * x) * y
  BY <1>10
<1>14. (Exp(base, k) * y) % P = Exp(base, k + n)
  BY <1>8, <1>9, <1>11, <1>12, <1>13
<1> QED BY <1>2, <1>14 DEF y

\* A power of a power.
LEMMA ExpProduct ==
    ASSUME NEW base \in Nat, NEW m \in Nat, NEW n \in Nat
    PROVE  Exp(Exp(base, m), n) = Exp(base, m * n)
<1> DEFINE b == Exp(base, m)
           Bad == {k \in Nat : Exp(b, k) # Exp(base, m * k)}
<1> SUFFICES ASSUME Bad # {} PROVE FALSE
  OBVIOUS
<1>0. b \in Nat
  BY ExpIsResidue
<1> HIDE DEF b
<1>1. PICK k \in Bad : \A l \in Bad : k <= l
  BY LeastNumber
<1>2. k \in Nat /\ Exp(b, k) # Exp(base, m * k)
  OBVIOUS
<1>3. k # 0
  <2>1. CASE k = 0
    <3>1. m * k = 0
      BY <2>1
    <3> QED BY <1>2, <2>1, <3>1, ExpSteps
  <2> QED BY <2>1
<1>4. PICK l \in Nat : k = l + 1
  <2>1. k - 1 \in Nat /\ k = (k - 1) + 1
    BY <1>2, <1>3
  <2> QED BY <2>1
<1>5. Exp(b, l) = Exp(base, m * l)
  BY <1>1, <1>4
<1>6. Exp(b, k) = (b * Exp(base, m * l)) % P
  BY <1>4, <1>5, ExpSteps
<1>7. m * l \in Nat /\ m * k = m + m * l
  BY <1>4
<1>8. Exp(base, m + m * l) = (b * Exp(base, m * l)) % P
  BY <1>7, ExpSum DEF b
<1> QED BY <1>2, <1>6, <1>7, <1>8

\* A power of a product.
LEMMA ExpOfProduct ==
    ASSUME NEW x \in Nat, NEW y \in Nat, NEW n \in Nat
    PROVE  Exp(x * y, n) = (Exp(x, n) * Exp(y, n)) % P
<1> DEFINE Bad == {k \in Nat : Exp(x * y, k) # (Exp(x, k) * Exp(y, k)) % P}
<1> SUFFICES ASSUME Bad # {} PROVE FALSE
  OBVIOUS
<1>1. PICK k \in Bad : \A l \in Bad : k <= l
  BY LeastNumber
<1>2. k \in Nat /\ Exp(x * y, k) # (Exp(x, k) * Exp(y, k)) % P
  OBVIOUS
<1>3. k # 0
  <2>1. CASE k = 0
    <3>1. Exp(x, k) * Exp(y, k) = 1 /\ Exp(x * y, k) = 1 /\ 1 \in Residues
      BY <2>1, ExpSteps, Positive DEF Residues
    <3> QED BY <1>2, <3>1, ResidueKept
  <2> QED BY <2>1
<1>4. PICK l \in Nat : k = l + 1
  <2>1. k - 1 \in Nat /\ k = (k - 1) + 1
    BY <1>2, <1>3
  <2> QED BY <2>1
<1> DEFINE u == Exp(x, l)
           v == Exp(y, l)
<1>5. u \in Int /\ v \in Int /\ Exp(x * y, l) = (u * v) % P
  <2>1. u \in Nat /\ v \in Nat
    BY ExpIsResidue
  <2>2. l \notin Bad
    BY <1>1, <1>4
  <2> QED BY <2>1, <2>2
<1>6. /\ Exp(x, k) = (x * u) % P /\ Exp(y, k) = (y * v) % P
      /\ Exp(x * y, k) = ((x * y) * ((u * v) % P)) % P
  <2>1. Exp(x, k) = (x * u) % P
    BY <1>4, ExpSteps
  <2>2. Exp(y, k) = (y * v) % P
    BY <1>4, ExpSteps
  <2>3. Exp(x * y, k) = ((x * y) * Exp(x * y, l)) % P
    BY <1>4, ExpSteps
  <2> QED BY <1>5, <2>1, <2>2, <2>3
<1> HIDE DEF u, v
<1>7. /\ x * y \in Int /\ u * v \in Int /\ x * u \in Int /\ y * v \in Int
      /\ (y * v) % P \in Int
  BY <1>5, Residue DEF Residues
<1>8. ((x * y) * ((u * v) % P)) % P = ((x * y) * (u * v)) % P
  BY <1>7, ReduceFactor
<1>9. (((x * u) % P) * ((y * v) % P)) % P = ((x * u) * ((y * v) % P)) % P
  BY <1>7, ReduceFactor
<1>10. ((x * u) * ((y * v) % P)) % P = ((x * u) * (y * v)) % P
  BY <1>7, ReduceFactor
<1>11. (x * y) * (u * v) = (x * u) * (y * v)
  BY <1>5
<1> QED BY <1>2, <1>6, <1>8, <1>9, <1>10, <1>11

\* A power of the generator is never zero
LEMMA GeneratorPowers ==
    ASSUME NEW n \in Nat
    PROVE  Exp(G, n) # 0
<1> DEFINE Bad == {m \in Nat : Exp(G, m) = 0}
<1> SUFFICES ASSUME Bad # {} PROVE FALSE
  OBVIOUS
<1>1. PICK k \in Bad : \A l \in Bad : k <= l
  BY LeastNumber
<1>2. k \in Nat /\ Exp(G, k) = 0
  OBVIOUS
<1>3. k # 0
  BY <1>2, ExpSteps
<1>4. PICK l \in Nat : k = l + 1
  <2>1. k - 1 \in Nat /\ k = (k - 1) + 1
    BY <1>2, <1>3
  <2> QED BY <2>1
<1>5. Exp(G, l) # 0
  BY <1>1, <1>4
<1>6. Exp(G, l) \in Residues
  <2>1. G \in Nat
    BY PasswordAssumption
  <2> QED BY <2>1, ExpIsResidue
<1>7. Exp(G, l) \in 1 .. P - 1
  BY <1>5, <1>6, Positive DEF Residues
<1>8. Exp(G, k) = (G * Exp(G, l)) % P
  BY <1>4, ExpSteps
<1> QED BY <1>2, <1>7, <1>8, GeneratorAssumption

(***************************************************************************)
(* SRP.                                                                    *)
(***************************************************************************)
\* The client gets rid of the verifier's part of B
LEMMA BaseIsServersPower ==
    ASSUME NEW password \in Passwords, NEW b \in Nat
    PROVE  SharedBase(ServerB(password, b), Verifier(password)) = Exp(G, b)
<1> DEFINE v == Verifier(password)
           e == Exp(G, b)
           kv == K * v
<1>1. v \in Nat /\ e \in Nat /\ e \in Residues
  <2>1. G \in Nat /\ PH2[password] \in Nat
    BY PasswordAssumption
  <2> QED BY <2>1, ExpIsResidue DEF Verifier
<1>2. kv \in Int /\ e \in Int
  BY <1>1, PasswordAssumption
<1>3. /\ ServerB(password, b) = (kv + e) % P
      /\ SharedBase((kv + e) % P, v) = (((kv + e) % P) - (kv % P)) % P
  BY DEF ServerB, SharedBase
<1> HIDE DEF v, e, kv
<1>4. PICK h \in Int : kv + e = ((kv + e) % P) + h * P
  BY <1>2, Residue DEF Congruent
<1>5. PICK j \in Int : kv = (kv % P) + j * P
  BY <1>2, Residue DEF Congruent
<1>6. (kv + e) % P \in Int /\ kv % P \in Int
  BY <1>2, Residue DEF Residues
<1>7. ((kv + e) % P) - (kv % P) = e + (j - h) * P
  <2>1. (j - h) * P = j * P - h * P /\ j * P \in Int /\ h * P \in Int
    BY Positive
  <2>2. PICK r \in Int : r = (kv + e) % P
    BY <1>6
  <2>3. PICK q \in Int : q = kv % P
    BY <1>6
  <2>4. PICK ip \in Int : ip = h * P
    BY <2>1
  <2>5. PICK jp \in Int : jp = j * P
    BY <2>1
  <2>6. kv + e = r + ip /\ kv = q + jp /\ (j - h) * P = jp - ip
    BY <1>4, <1>5, <2>1, <2>2, <2>3, <2>4, <2>5
  <2>7. r - q = e + (jp - ip)
    BY <1>2, <2>6
  <2> QED BY <2>2, <2>3, <2>6, <2>7
<1>8. Congruent(((kv + e) % P) - (kv % P), e)
  BY <1>7 DEF Congruent
<1>9. (((kv + e) % P) - (kv % P)) % P = e % P
  BY <1>2, <1>6, <1>8, SameRemainder
<1> QED BY <1>1, <1>3, <1>9, ResidueKept DEF v, e

\* Both sides compute the same secret
LEMMA SecretsAgree ==
    ASSUME NEW x \in Nat, NEW u \in Nat, NEW a \in Nat, NEW b \in Nat
    PROVE  Exp(Exp(G, b), u * x + a) = Exp(Exp(G, a) * Exp(Exp(G, x), u), b)
<1>0. G \in Nat
  BY PasswordAssumption
<1>1. u * x + a \in Nat /\ b * (u * x + a) \in Nat /\ a * b \in Nat /\ (x * u) * b \in Nat
      /\ x * u \in Nat
  OBVIOUS
<1>2. Exp(Exp(G, b), u * x + a) = Exp(G, b * (u * x + a))
  BY <1>0, <1>1, ExpProduct
<1>3. Exp(Exp(G, x), u) = Exp(G, x * u)
  BY <1>0, ExpProduct
<1>4. Exp(G, a) \in Nat /\ Exp(G, x * u) \in Nat
  BY <1>0, <1>1, ExpIsResidue
<1>5. Exp(Exp(G, a) * Exp(G, x * u), b) = (Exp(Exp(G, a), b) * Exp(Exp(G, x * u), b)) % P
  BY <1>4, ExpOfProduct
<1>6. Exp(Exp(G, a), b) = Exp(G, a * b) /\ Exp(Exp(G, x * u), b) = Exp(G, (x * u) * b)
  BY <1>0, <1>1, ExpProduct
<1>7. Exp(G, a * b + (x * u) * b) = (Exp(G, a * b) * Exp(G, (x * u) * b)) % P
  BY <1>0, <1>1, ExpSum
<1>8. b * (u * x + a) = a * b + (x * u) * b
  OBVIOUS
<1> QED BY <1>2, <1>3, <1>5, <1>6, <1>7, <1>8

\* A proof from the right password is the one the server expects, and there is
\* one unless the parameters are out of range or u is zero
LEMMA ProofIsRight ==
    ASSUME NEW password \in Passwords, NEW a \in Secrets, NEW b \in Secrets, NEW params,
           AcceptsParams(params), params.B = ServerB(password, b)
    PROVE  LET proof == BuildSRPProof(params, password, a)
           IN  /\ proof = << >> => \E C \in Residues : U[C, params.B] = 0
               /\ proof # << >> => proof[2] = ServerM1(password, proof[1], b)
<1> DEFINE ga == Exp(G, a)
           x == PH2[password]
           sb == params.B
           u == U[ga, sb]
           t == SharedBase(sb, Verifier(password))
           S == Exp(t, u * x + a)
<1>1. a \in Nat /\ b \in Nat /\ G \in Nat /\ x \in Nat
  BY PasswordAssumption, Positive DEF Secrets
<1>2. ga \in Residues
  BY <1>1, ExpIsResidue
<1>3. sb \in Residues
  <2>1. K * Verifier(password) + Exp(G, b) \in Int
    BY <1>1, ExpIsResidue, PasswordAssumption DEF Verifier
  <2> QED BY <2>1, Residue DEF ServerB
<1>4. u \in Nat
  BY <1>2, <1>3, PasswordAssumption
<1>5. t = Exp(G, b) /\ t # 0
  BY <1>1, BaseIsServersPower, GeneratorPowers
<1>6. BuildSRPProof(params, password, a) = IF u # 0 /\ t # 0 THEN <<ga, <<ga, sb, S>>>> ELSE << >>
  <2>1. ga # 0
    BY <1>1, GeneratorPowers
  <2> QED BY <2>1 DEF BuildSRPProof
<1>7. S = Exp(ga * Exp(Verifier(password), u), b)
  <2>1. Exp(Exp(G, b), u * x + a) = Exp(Exp(G, a) * Exp(Exp(G, x), u), b)
    <3> HIDE DEF u, x
    <3> QED BY <1>1, <1>4, SecretsAgree
  <2> QED BY <1>5, <2>1 DEF Verifier
<1>8. ServerM1(password, ga, b) = <<ga, sb, Exp(ga * Exp(Verifier(password), u), b)>>
  BY DEF ServerM1
<1> HIDE DEF ga, sb, u, t, S, x
<1>9. CASE u = 0
  <2>1. BuildSRPProof(params, password, a) = << >> /\ \E C \in Residues : U[C, params.B] = 0
    BY <1>2, <1>6, <1>9 DEF u, sb
  <2> QED BY <2>1
<1>10. CASE u # 0
  <2>1. BuildSRPProof(params, password, a) = <<ga, <<ga, sb, S>>>>
    BY <1>5, <1>6, <1>10
  <2>2. PICK proof : proof = BuildSRPProof(params, password, a)
    OBVIOUS
  <2>3. proof # << >> /\ proof[1] = ga /\ proof[2] = <<ga, sb, S>>
    BY <2>1, <2>2
  <2> QED BY <1>7, <1>8, <2>2, <2>3
<1> QED BY <1>9, <1>10

(***************************************************************************)
(* The password of the account.                                            *)
(***************************************************************************)
\* no verdict before the password was checked, and parameters that pass carry
\* the B of the secret the server remembers
PasswordKnown ==
    /\ step \in {"load", "check", "sendCode", "signIn", "getPassword", "checkPassword"}
       => verdict = "none"
    /\ step = "checkPassword" =>
         /\ srp.b \in Secrets
         /\ AcceptsParams(srp.params) => srp.params.B = ServerB(AccountPassword, srp.b)
    /\ RightPasswordAccepted

\* Of the answers of account.getPassword only the right one passes.
LEMMA OnlyRightParamsPass ==
    ASSUME NEW b, NEW params \in ServerParams(b), AcceptsParams(params)
    PROVE  params.B = ServerB(AccountPassword, b)
<1> DEFINE right == [hasPassword |-> TRUE, algo |-> "sha256ModPow", g |-> G,
                     B |-> ServerB(AccountPassword, b)]
<1>1. params \in {right, NoParams, [right EXCEPT !.algo = "unknown"],
                  [right EXCEPT !.g = 1], [right EXCEPT !.B = P]}
  BY DEF ServerParams
<1>2. params # NoParams /\ params # [right EXCEPT !.algo = "unknown"]
  BY DEF AcceptsParams, NoParams
<1>3. params # [right EXCEPT !.g = 1]
  BY DEF AcceptsParams
<1>4. params # [right EXCEPT !.B = P]
  BY Positive DEF AcceptsParams
<1>5. right.B = ServerB(AccountPassword, b)
  OBVIOUS
<1>6. params = right
  <2> HIDE DEF right
  <2> QED BY <1>1, <1>2, <1>3, <1>4
<1> QED BY <1>5, <1>6

\* Every step of the program keeps PasswordKnown.
LEMMA StepPasswordKnown == PasswordKnown /\ [AccountNext]_accountVars => PasswordKnown'
<1> SUFFICES ASSUME PasswordKnown, [AccountNext]_accountVars PROVE PasswordKnown'
  OBVIOUS
<1>e. \A how : Exit(how) => step' = how
  BY DEF Exit
<1>g. \A next : GoOn(next) => step' = next
  BY DEF GoOn
<1>k. ASSUME UNCHANGED passwordVars,
             step' = "checkPassword" => step = "checkPassword",
             step' \in {"load", "check", "sendCode", "signIn", "getPassword"} =>
                 step \in {"load", "check", "sendCode", "signIn", "getPassword"}
      PROVE  PasswordKnown'
  <2>1. typed' = typed /\ srp' = srp /\ verdict' = verdict
    BY <1>k DEF passwordVars
  <2>2. RightPasswordAccepted'
    BY <2>1 DEF PasswordKnown, RightPasswordAccepted, AcceptsParams
  <2>3. step' = "checkPassword" =>
          /\ srp.b \in Secrets
          /\ AcceptsParams(srp.params) => srp.params.B = ServerB(AccountPassword, srp.b)
    BY <1>k DEF PasswordKnown
  <2>4. step' \in {"load", "check", "sendCode", "signIn", "getPassword", "checkPassword"}
        => verdict = "none"
    BY <1>k DEF PasswordKnown
  <2> QED BY <2>1, <2>2, <2>3, <2>4
          DEF PasswordKnown, AcceptsParams, ServerB, Verifier, Exp
<1>1. CASE Load
  <2>1. step' \in {"check", "sendCode"} /\ step = "load" /\ UNCHANGED passwordVars
    BY <1>1, <1>g DEF Load
  <2> QED BY <1>k, <2>1
<1>2. CASE CheckStored
  <2>1. step' \in {"done", "sendCode"} /\ step = "check" /\ UNCHANGED passwordVars
    BY <1>2, <1>e, <1>g DEF CheckStored
  <2> QED BY <1>k, <2>1
<1>3. CASE SendCode
  BY <1>3, <1>k DEF SendCode, programVars, passwordVars
<1>4. CASE SendCodeFails
  <2>1. step' = "panicked" /\ UNCHANGED passwordVars
    BY <1>4, <1>e DEF SendCodeFails
  <2> QED BY <1>k, <2>1
<1>5. CASE SentCode
  <2>1. step' \in {"signIn", "notSaved"} /\ step = "sendCode" /\ UNCHANGED passwordVars
    BY <1>5, <1>e, <1>g DEF SentCode
  <2> QED BY <1>k, <2>1
<1>6. CASE SignIn
  <2>1. /\ step' \in {"getPassword", "getState", "panicked"} /\ step = "signIn"
        /\ UNCHANGED passwordVars
    BY <1>6, <1>e, <1>g DEF SignIn
  <2> QED BY <1>k, <2>1
<1>7. CASE GetPassword
  <2>1. verdict = "none" /\ verdict' = "none" /\ step' \in {"checkPassword", "panicked"}
    BY <1>7, <1>e, <1>g DEF GetPassword, PasswordKnown
  <2>2. CASE step' = "panicked"
    BY <2>1, <2>2 DEF PasswordKnown, RightPasswordAccepted
  <2>3. CASE step' = "checkPassword"
    <3>1. PICK b \in Secrets : \E params \in ServerParams(b) : srp' = [params |-> params, b |-> b]
      BY <1>7, <1>e, <2>3 DEF GetPassword
    <3>4. PICK params \in ServerParams(b) : srp' = [params |-> params, b |-> b]
      BY <3>1
    <3>2. AcceptsParams(params) => params.B = ServerB(AccountPassword, b)
      BY OnlyRightParamsPass
    <3>3. srp'.b = b /\ srp'.params = params
      BY <3>4
    <3> QED BY <2>1, <2>3, <3>2, <3>3
            DEF PasswordKnown, RightPasswordAccepted, AcceptsParams, ServerB, Verifier, Exp
  <2> QED BY <2>1, <2>2, <2>3
<1>8. CASE CheckPassword
  <2>1. step' \in {"panicked", "getState"} /\ typed' = typed /\ srp' = srp
    BY <1>8, <1>e, <1>g DEF CheckPassword
  <2>2. SUFFICES ASSUME typed = AccountPassword PROVE RightPasswordAccepted'
    BY <2>1 DEF PasswordKnown, RightPasswordAccepted
  <2>3. AccountPassword \in Passwords /\ AccountPassword # ""
    BY AccountAssumption
  <2>4. PICK params : params = srp.params
    OBVIOUS
  <2>5. PICK b : b = srp.b
    OBVIOUS
  <2>6. /\ b \in Secrets
        /\ AcceptsParams(params) => params.B = ServerB(AccountPassword, b)
    BY <1>8, <2>4, <2>5 DEF CheckPassword, PasswordKnown
  <2>7. PICK a \in Secrets :
          LET proof == BuildSRPProof(params, AccountPassword, a)
          IN  \/ proof = << >> /\ verdict' = "error"
              \/ /\ proof # << >>
                 /\ proof[2] # ServerM1(AccountPassword, proof[1], b)
                 /\ verdict' = "rejected"
              \/ verdict' = "accepted"
    BY <1>8, <2>2, <2>3, <2>4, <2>5 DEF CheckPassword
  <2>8. CASE AcceptsParams(params)
    <3>1. LET proof == BuildSRPProof(params, AccountPassword, a)
          IN  /\ proof = << >> => \E C \in Residues : U[C, params.B] = 0
              /\ proof # << >> => proof[2] = ServerM1(AccountPassword, proof[1], b)
      BY <2>3, <2>6, <2>8, ProofIsRight
    <3>2. /\ verdict' # "rejected"
          /\ verdict' = "error" => \E C \in Residues : U[C, params.B] = 0
      BY <2>7, <3>1
    <3> QED BY <2>1, <2>4, <3>2 DEF RightPasswordAccepted
  <2>9. CASE ~AcceptsParams(params)
    <3>1. BuildSRPProof(params, AccountPassword, a) = << >>
      BY <2>9 DEF BuildSRPProof
    <3>2. verdict' # "rejected"
      BY <2>7, <3>1
    <3>3. ~AcceptsParams(srp.params)'
      BY <2>1, <2>4, <2>9 DEF AcceptsParams
    <3> QED BY <3>2, <3>3 DEF RightPasswordAccepted
  <2> QED BY <2>8, <2>9
<1>9. CASE GetState
  <2>1. step' \in {"save", "panicked"} /\ UNCHANGED passwordVars
    BY <1>9, <1>e, <1>g DEF GetState
  <2> QED BY <1>k, <2>1
<1>10. CASE Save
  <2>1. step' \in {"done", "panicked"} /\ UNCHANGED passwordVars
    BY <1>10, <1>e DEF Save
  <2> QED BY <1>k, <2>1
<1>11. CASE UNCHANGED accountVars
  BY <1>11, <1>k DEF accountVars, programVars, passwordVars
<1> QED BY <1>1, <1>2, <1>3, <1>4, <1>5, <1>6, <1>7, <1>8, <1>9, <1>10, <1>11
        DEF AccountNext

\* SRP agrees, for every prime, generator, multiplier, hash and secret: the
\* server never rejects a proof that BuildSRPProof made of the account's
\* password, and the client refuses to make one only for parameters out of
\* range or for u = 0.
THEOREM PasswordAccepted == AccountSpec => []RightPasswordAccepted
<1>1. AccountInit => PasswordKnown
  BY DEF AccountInit, PasswordKnown, RightPasswordAccepted
<1>2. PasswordKnown => RightPasswordAccepted
  BY DEF PasswordKnown
<1> QED BY StepPasswordKnown, <1>1, <1>2, PTL DEF AccountSpec
==============================================================================
