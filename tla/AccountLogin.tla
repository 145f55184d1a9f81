---------------------------- MODULE AccountLogin -----------------------------
(***************************************************************************)
(* The login of a user account with a stored session, as the program of    *)
(* examples/mtproto_account_login runs it: try the stored session; if it   *)
(* does not work for any reason, send a code (AuthSendCodeDefault, the     *)
(* steps of Connect), sign in with it, answer a request for the 2FA        *)
(* password, ask for the updates state and save the session.               *)
(*                                                                         *)
(* A session is the pair of a DC and a key; <<0, ...>> stands for one that *)
(* does not parse.  The key of a stored session is <<0, 0>>.               *)
(***************************************************************************)
EXTENDS Connect, Password

CONSTANT AccountPassword \* the account's 2FA password

ASSUME AccountAssumption == AccountPassword \in Passwords \ {""}

VARIABLES
    step,       \* "load", "check", "sendCode", "signIn", "getPassword",
                \* "checkPassword", "getState", "save", or how the program
                \* ended: "done", "notSaved", "panicked"
    store,      \* the session in the store, none or one
    restored,   \* whether the client of the stored session is open
    authorized, \* the sessions the servers accept
    typed,      \* the 2FA password typed
    srp,        \* the answer of account.getPassword and the server's secret
    verdict     \* of auth.checkPassword: "none", "error" (no proof sent),
                \* "rejected", "accepted"

passwordVars == <<typed, srp, verdict>>
programVars == <<step, store, restored, authorized, typed, srp, verdict>>
accountVars == <<vars, programVars>>

NoParams == [hasPassword |-> FALSE, algo |-> "unknown", g |-> 0, B |-> 0]

Damaged == <<0, <<0, 0>>>>

StoredSessions == {Damaged, <<home, <<0, 0>>>>}

\* ParseSession
Parses(session) == session # Damaged

\* main gives all its calls one context with a deadline
AccountInit ==
    /\ Init
    /\ limited = TRUE
    /\ step = "load"
    /\ store \in {{}} \cup {{s} : s \in StoredSessions}
    /\ restored = FALSE
    /\ authorized \in SUBSET {s \in store : Parses(s)}
    /\ typed = ""
    /\ srp = [params |-> NoParams, b |-> 0]
    /\ verdict = "none"

\* the deferred calls of Close, which run when main returns and when it panics
Exit(how) ==
    /\ step' = how
    /\ restored' = FALSE
    /\ IF pc = "returned" THEN CloseClient ELSE UNCHANGED vars

GoOn(next) ==
    /\ step' = next
    /\ UNCHANGED <<vars, restored>>

(***************************************************************************)
(* The stored session                                                      *)
(***************************************************************************)
\* store.Load and ParseSession, either of which may fail, then
\* DialEncryptedFromSession; without a client the program logs in
Load ==
    /\ step = "load"
    /\ \/ /\ \E s \in store : Parses(s)
          /\ restored' = TRUE
          /\ step' = "check"
          /\ UNCHANGED vars
       \/ GoOn("sendCode")
    /\ UNCHANGED <<store, authorized, passwordVars>>

\* updates.getState on it: the server knows the session or refuses it, and the
\* call itself may fail, or wait until the deadline
CheckStored ==
    /\ step = "check"
    /\ \/ store \subseteq authorized /\ Exit("done")
       \/ GoOn("sendCode")
       \/ /\ refuses
          /\ step' = "sendCode"
          /\ DeadlinePasses
          /\ UNCHANGED restored
    /\ UNCHANGED <<store, authorized, passwordVars>>

(***************************************************************************)
(* A new login                                                             *)
(***************************************************************************)
\* ExportSession of the client that AuthSendCodeDefault returned
session == <<DefaultDCOptions[i].at, authKey>>

SendCode ==
    /\ step = "sendCode"
    /\ LoginStep
    /\ UNCHANGED programVars

SendCodeFails ==
    /\ step = "sendCode"
    /\ pc = "failed"
    /\ Exit("panicked")
    /\ UNCHANGED <<store, authorized, passwordVars>>

\* auth.sentCodeSuccess has no phone_code_hash: the program stops there
SentCode ==
    /\ step = "sendCode"
    /\ pc = "returned"
    /\ \/ GoOn("signIn")
       \/ refuses /\ Exit("notSaved")
    /\ UNCHANGED <<store, authorized, passwordVars>>

\* who the code was sent to; a number without an account is refused in the end
Accounts == {"open", "password"} \cup (IF refuses THEN {"unregistered"} ELSE {})

\* auth.signIn with the right code authorises the session of an account that
\* has no password
Grants(account) == IF account = "open" THEN {session} ELSE {}

\* AuthSignIn takes any result of the server for a success, so also
\* auth.authorizationSignUpRequired, which grants nothing.  An empty code (an
\* error of its own), a wrong one and a lost answer end the program; the
\* server of a lost answer may have authorised the session.
SignIn ==
    /\ step = "signIn"
    /\ \/ \E account \in Accounts :
            /\ IF account = "password" THEN GoOn("getPassword") ELSE GoOn("getState")
            /\ authorized' = authorized \cup Grants(account)
       \/ /\ refuses
          /\ Exit("panicked")
          /\ \E account \in Accounts \cup {"wrongCode"} :
               authorized' \in {authorized, authorized \cup Grants(account)}
    /\ UNCHANGED <<store, passwordVars>>

\* what account.getPassword tells of the account; where calls may fail, also no
\* password, an unknown algorithm, a generator or a B out of range
ServerParams(b) ==
    LET right == [hasPassword |-> TRUE, algo |-> "sha256ModPow", g |-> G,
                  B |-> ServerB(AccountPassword, b)]
    IN  {right} \cup
        IF refuses THEN {NoParams, [right EXCEPT !.algo = "unknown"],
                         [right EXCEPT !.g = 1], [right EXCEPT !.B = P]}
        ELSE {}

\* the password is read, then the parameters are asked for
GetPassword ==
    /\ step = "getPassword"
    /\ typed' \in Passwords
    /\ ~refuses => typed' = AccountPassword
    /\ \/ /\ \E b \in Secrets : \E params \in ServerParams(b) :
               srp' = [params |-> params, b |-> b]
          /\ GoOn("checkPassword")
       \/ refuses /\ Exit("panicked") /\ UNCHANGED srp
    /\ UNCHANGED <<store, authorized, verdict>>

\* AuthCheckPassword: an empty password is refused here; the server accepts
\* the proof it would have computed itself
CheckPassword ==
    /\ step = "checkPassword"
    /\ \E a \in Secrets :
         LET proof == IF typed = "" THEN << >> ELSE BuildSRPProof(srp.params, typed, a)
         IN  \/ /\ proof = << >>
                /\ verdict' = "error"
                /\ Exit("panicked")
                /\ UNCHANGED authorized
             \/ /\ proof # << >>
                /\ proof[2] # ServerM1(AccountPassword, proof[1], srp.b)
                /\ verdict' = "rejected"
                /\ Exit("panicked")
                /\ UNCHANGED authorized
             \/ /\ proof # << >>
                /\ proof[2] = ServerM1(AccountPassword, proof[1], srp.b)
                /\ verdict' = "accepted"
                /\ authorized' = authorized \cup {session}
                /\ \/ GoOn("getState")
                   \/ refuses /\ Exit("panicked")
    /\ UNCHANGED <<store, typed, srp>>

\* variant ruled out: the session is saved without asking for the state
GetStateUnchecked ==
    /\ step = "getState"
    /\ GoOn("save")
    /\ UNCHANGED <<store, authorized, passwordVars>>

\* updates.getState on the new session
GetState ==
    /\ step = "getState"
    /\ \/ session \in authorized /\ GoOn("save")
       \/ (session \notin authorized \/ refuses) /\ Exit("panicked")
    /\ UNCHANGED <<store, authorized, passwordVars>>

\* store.Save, which replaces the stored session or leaves it
Save ==
    /\ step = "save"
    /\ \/ store' = {session} /\ Exit("done")
       \/ refuses /\ UNCHANGED store /\ Exit("panicked")
    /\ UNCHANGED <<authorized, passwordVars>>

AccountNext ==
    \/ Load
    \/ CheckStored
    \/ SendCode
    \/ SendCodeFails
    \/ SentCode
    \/ SignIn
    \/ GetPassword
    \/ CheckPassword
    \/ GetState
    \/ Save

\* every call of the program is under the deadline of its context
AccountSpec ==
    AccountInit /\ [][AccountNext]_accountVars /\ WF_accountVars(AccountNext)

-----------------------------------------------------------------------------
(* A program that says it is logged in has a session in its store that the  *)
(* server accepts: the check of updates.getState comes before every report  *)
(* of success and before store.Save, so a number without an account, whose  *)
(* auth.signIn succeeds, saves nothing.                                     *)
SavedSessionWorks ==
    step = "done" => store # {} /\ store \subseteq authorized

(* SRP agrees: the server never rejects a proof built from the account's    *)
(* password, and none is refused on the client's side except for what the   *)
(* server sent or for u = 0 (BuildSRPProof; t # 0 follows).                 *)
RightPasswordAccepted ==
    typed = AccountPassword =>
        /\ verdict # "rejected"
        /\ verdict = "error" =>
             ~AcceptsParams(srp.params) \/ \E A \in Residues : U[A, srp.params.B] = 0

(* Where nothing fails but addresses and what is typed is right and in time,  *)
(* the program ends logged in, with the stored session or a new one, whenever *)
(* some address listed for the account's DC leads there and works, however    *)
(* many others are down, answer wrongly or lead elsewhere - unless one that   *)
(* is tried takes the connection and stays silent: it uses up the deadline    *)
(* that all addresses share (dialMTProto), and the program ends with an       *)
(* error.  A parameter of SRP out of range is the other exception.            *)
AccountLoggedIn ==
    (/\ ~refuses
     /\ \E k \in up : IsOption(home, k) /\ DefaultDCOptions[k].at = home)
    => <>(\/ step = "done"
          \/ verdict = "error"
          \/ expired /\ step = "panicked")
=============================================================================
