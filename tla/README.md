# A verification of MtProGo

TLA+ models of the parts of MtProGo that keep state, run concurrently or must
survive failures; TLC configurations that check them on small instances; and
TLAPS proofs of their safety properties for all instances. Every definition
is translated from the Go source; `PROJECT.json` ("map") gives the lines.

## 1. The system

MtProGo is a Telegram client library. A bot built on it talks MTProto over TCP,
polls for updates with `updates.getDifference`, hands messages to handlers and
keeps a session (auth key, update state, known peers) in a store.

| Component | State | Operations | Module |
|---|---|---|---|
| MTProto bot runtime (`mtproto_bot.go`, `runtime_session.go`) | client, `lastState`, Run's local state, error count, saved session | Run, Login, loadSession, reconnect, SaveSession, Close | `BotRuntime` |
| Difference parsing (`mtproto/difference.go`, `state.go`) | none | parseDifferenceResult and its vectors | `Difference` |
| Peer table (`mtproto_bot.go`, `mtproto/peers.go`, `updates/message.go`) | `b.peers`, dispatcher peer cache | rememberPeers, getPeer, NormalizeChatID/RawChatID, snapshotPeers, ResolveUsername | `PeerTable` |
| Encrypted invoke (`mtproto/invoke.go`, `client.go`, `abridged.go`) | mutex, salt, seq, last message id, time offset, TCP stream | Invoke, Close | `EncryptedInvoke` |
| Login over DCs and auth key exchange (`mtproto/client.go`, `account.go`, `auth.go`) | address being tried, connection, handshake nonces, key | DialEncryptedDefault, authKeyOnConn, ImportBotAuthorizationDefault, AuthSendCodeDefault | `Connect` |
| Dispatcher (`updates/dispatcher.go`, `options.go`) | routes, configuration | OnMessage, DispatchMessage, PutPeer | `Dispatcher` |
| Message cache, peer cache (`updates/cache.go`) | ring buffer; bounded map with insertion order | Add, Last, All; Put | `MessageCache`, `PeerCache` |
| High-level calls (`mtproto/highlevel.go`, `mtproto_bot_methods.go`) | random_id of the query, packets under way | Send, Edit, Delete, Forward, GetHistory, GetMe, ResolveUsername under withFloodWait | `Requests` |
| Media transfer (`mtproto/media.go`, `mtproto_bot_media.go`) | reader position, parts stored, writer content | UploadFile, sendLocalMedia, DownloadFile under withFloodWait | `MediaTransfer` |
| Session stores (`session_store.go`) | the session file, its temporary file | Load, Save, Delete, encryption | `SessionFile`, `SessionRegister` |
| Account login and 2FA (`mtproto/account.go`, `password.go`, `examples/mtproto_account_login`) | stored session, authorised sessions, SRP values | AuthSendCode, AuthSignIn, AccountGetPassword, AuthCheckPassword, UpdatesGetState, ExportSession | `AccountLogin`, `Password` |
| Bot API runtime (`bot.go`, `internal/botapi`) | offset, batch, identity | Run (long polling), Login | `BotApiLoop` |
| Hashes, AES-IGE, RSA, TL encoding, filters, option types, the other examples | none | pure functions | not modelled |

How they interact. `Run` calls `Login`, which loads the session from the store
and dials with it, or authorises afresh (`Connect`). Each turn of its loop calls
`UpdatesGetDifference`, which is one `Invoke` on the client; the peers of the
answer go into the peer table and its messages, one by one, through the
dispatcher to the handlers. Then the update state is advanced and the session
saved. Handlers run on the polling goroutine, but may start goroutines of their
own, which send through the same client (its mutex serialises them) and insert
peers. Replies use the peer table to turn the public chat id of a message into
a peer. A program that logs in a user account calls the client's methods one
after the other and keeps the session in a store itself. The Bot API runtime is
separate: it polls over HTTP, keeps nothing, and shares only the dispatcher.

What is hard in it: goroutines sharing one connection on which answers to
abandoned calls are still in flight; resending after salt and message-id errors;
crashes, cancellation and failed saves between handling a message and recording
it; a reconnect that reloads older state in the middle of a run; peers learnt
piecemeal, in any order, under two ids; retried transfers on readers and writers
that cannot be rewound; requests that are sent again after they were run;
several savers of one session file; redirections between data centres; a Bot API
server that forgets what the next request confirms. `PROJECT.json`
("hazards") lists them at their lines with the properties that cover them.

What makes each component correct:

- runtime: the saved update state never gets ahead of the handlers (at least
  once), nothing is handled twice by one process, a graceful stop repeats
  nothing, every message is handled in the end;
- invoke: a call gets its own result; ids grow; a request runs once unless the
  code is misled by a late notification; every call returns;
- login: no connection leaks; the key is one the server has; redirections end;
  a working address is found;
- peers: a chat id leads back to its chat; what is known is not lost;
- dispatcher and caches: the caches hold what their documentation says, and a
  dispatch runs exactly the routes that matched when it began, until an error;
- calls and media: a message is posted at most once; only whole files are sent;
  a download's count is right;
- session stores: the file is a register; a crash leaves the old session or the
  new one; damage by overlapping saves is reported to a saver;
- account login: only a session that works is saved; the right password is
  accepted; a working address leads to a login;
- Bot API: nothing is confirmed that was not handled, nothing is handled twice in
  one run, and everything is handled in the end.

## 2. The modules

`RecentMessages` is the abstract specification of the message cache: the last
`Limit` messages, oldest first. `MessageCache` is the ring buffer
(`items`, `pos`, `full` as in the struct). `PeerCache` is the first-in first-out
map (`known`, `order`). `Dispatcher` extends both; `DispatchMessage` is split
where another goroutine can run: `Dispatch` (cache the message),
`CacheFrom` and `CacheChat` (one peer-cache lock each), `RunHandler` once per
route, `Return`. Handlers may fail or register routes; `PutPeer` comes from any
goroutine. Cache policy and options are chosen in `Init`.

`EncryptedInvoke` has one record per goroutine (`pc`, attempt, message id,
outcome) and the two directions of the TCP stream. `Send` covers an attempt up
to the end of `abridgedWrite`; `Read` one packet with all of `handleMessage`,
containers, salts and retries included; `ReadTimeout`, `ReadTimeoutMidPacket`,
`ReadGarbage`, `ReadClosed`, `SendFails` the error returns. A stream cut inside a
packet stays out of step (`conn.in`, `conn.out`). `time.Now` is an input. The
server (`RejectSalt`, `RejectMessage`, `Execute`, `RotateSalt`, `Push`) is
external and does whatever `handleMessage` can tell apart.

`Difference` says which entries of the server's log a difference delivers:
`parseTextMessage` knows plain text, skips `messageEmpty`, and fails on other
shapes, which drops the vector it is in. `BotRuntime` extends it; `pc` is the
place in `Run`/`Login`, one action per call that can fail or be interrupted, with
`Crash` and `Cancel` between any two. The update state is its pts; 0 is the zero
value `mergeUpdateState` ignores, `NoState` a nil pointer. History variables
record what was dispatched, dropped by the parser, and not asked for: `withheld`,
older than the first state this bot ever saved, or `lost`, passed over by a later
`updates.getState` that `Login` made because it could not take up the saved session
(`begun` tells the two apart). Failing loads and failing saves are counted apart,
because they excuse different things.
`reconnectBackoff` is the delay as the code computes it, on integers that wrap
around at `DurationBits` bits (64 in the code); the options `BackoffOptions` give
its first delay and its cap, 0 for the defaults (1 and 30).

`PeerTable` extends `PeerCache`. `table` is `b.peers` with both keys;
`rememberPeers` works through `pending` one peer a step while it holds `b.mu`.
Sources of peers are the vectors of a difference (with or without a hash), a
message (never with a hash, "channel" for a supergroup), a resolved username and
a saved session in any order. Telegram numbers users, basic groups and channels
each for themselves, so dialogs of two classes may have one raw id; `Unshared` says
of an id that no two have it.

`Requests` is one call of MTProtoBot: `Check`, `BuildQuery` (which draws the
random_id), `Transmit` and `Reply` (Invoke's attempts, with notifications that
earlier calls left in the stream), `WaitQuery` (withFloodWait). `EncryptedInvoke`
has the detail of Invoke; here it is reduced to how often one query is sent. The
server recognises a random_id it has run. `MediaTransfer` extends it: it names a
byte by its offset, `normalizePartSize` is the code's, and `withFloodWait` calls
the whole transfer again, with the reader or writer as the last attempt left it;
an upload that is complete goes on as the call `messages.sendMedia`.

`SessionFile` models the names `main` and `tmp`, the inodes behind them and
each system call of `os.WriteFile`, `os.Rename`, `os.ReadFile` and `os.Remove`,
for goroutines that save, load and clear without a lock. A file is a sequence of
cells labelled with the sealed session they belong to; a session is readable
only whole and by the store (plain, or a password) that sealed it.
`SessionRegister` is what a store promises: a save takes effect in one step or
not at all, and a load answers with what was there when it began, unless saves
overlap; then the register may hold anything until a save that runs alone has
succeeded. This is the atomic save `BotRuntime` assumes of its store.

`BotApiLoop` is `Bot.Run`: `Login`, `Drop`/`DropFails`, `Poll`/`PollFails`, one
`Dispatch` per update of a batch, `LoopStops`. The server keeps updates until an
offset confirms them (external); a request that fails may have reached it or not.

`Connect` walks the list of addresses; `NextOption` is the loop over
`dcOptionsByID`. A connection's number stands for the nonces and secrets drawn
for it; an answer carries the number of the handshake it belongs to, so a stale
one is one with another number. The key is the pair (g_a used, own secret).
`AuthSendCodeDefault` has the same control as `ImportBotAuthorizationDefault`;
an unreadable `auth.sentCode` is one of `AuthorizeFails`. `CloseClient` is the
caller's Close of the client a login returned. `limited` says that the caller's
context has a deadline, `expired` that it has passed: `dialMTProto` gives it to every
connection of the login, so an address that takes the connection and stays silent
(`StaysSilent`) uses it up, and after it every dial fails. `DeadlinePasses` is the
deadline passing in another call of the caller.

`Password` is `BuildSRPProof` with the arithmetic of the code over a small
prime; the hashes are constants (a number for each input that occurs, zero
included for u), and a hash that is only compared is the tuple of its inputs.
`ServerB` and `ServerM1` are the server's half. `AccountLogin` composes
`Connect` and `Password` as the program of `examples/mtproto_account_login` does:
`Load` and `CheckStored` try the stored session, `SendCode` is `Connect`'s
`LoginStep`, then `SignIn`, `GetPassword`, `CheckPassword`, `GetState`, `Save`;
`Exit` runs the deferred Close. The variables of `Connect` change only by steps
of `Connect`, so what is proved of it holds here.

The proofs are in modules of their own: `DispatcherProofs` (`Dispatcher`,
`MessageCache`, `PeerCache`), `InvokeProofs` (`EncryptedInvoke`), `ConnectProofs`
(`Connect`, `AccountLogin`, `Password`), `PeerProofs` (`PeerTable`), `RuntimeProofs`
(`BotRuntime`, `Difference`), `BotApiProofs` (`BotApiLoop`), `MediaProofs` (`Requests`,
`MediaTransfer`) and `SessionProofs` (`SessionFile`). The MC modules give the
constants their values.

Operators called mutants or variants in the comments are changed forms of the
definition that follows them, a plausible slip in the same code; each property
was seen to fail under one of them (`PROJECT.json`, "mutants").

## 3. The runs

| Run | Instance | Shows |
|---|---|---|
| `dispatcher` | 3 messages, 2 routes, both caches of size 2, every policy | the caches, the refinement of `RecentMessages`, routing |
| `invoke` | 2 goroutines, 2 calls, 2 attempts, 2 clock readings, 2 salts, 1 pushed packet | own results, ordered ids, requests not interleaved, one run per request, every call returns |
| `runtime_safety` | log of 5 entries (text, empty, unsupported, both vectors), differences of 2, 2 net, 2 dial, 1 load, 1 save faults, 1 crash, 1 cancel, reconnect limit 1 | at least once, at most once per process, graceful stop, monotone saved state |
| `runtime_live` | log of 3, 4 net, 1 load, 1 save faults, 2 crashes, 1 cancel; four pairs of backoff options on 7-bit integers | every message is handled, but for what a failed load loses; the delay is capped |
| `runtime_reconnect` | 1 net fault, 2 dial faults | violation, see below |
| `runtime_cold_start` | 1 dial fault, 1 crash | violation, see below |
| `peers` | a supergroup with a raw id of its own, a user and a basic group that share theirs; batches of 2 | chat ids, merging, restoring |
| `peers_shared_id` | a user and a basic group of one raw id | violation, see below |
| `calls` | every kind of call, 3 sends per query, 2 FLOOD_WAITs, 2 stale notifications; sizes 0 to 5, part sizes 2, 4, 6, limits 0 to 6 | posted once, whole files, right counts |
| `connect` | 4 addresses of 2 DCs, one of each leading to the other, an unknown third DC, any set of working addresses, the others failing or silent, one deadline for all; any stored session; p = 5, g = 2, all secrets | no leak, shared key, bounded redirection, SRP agreement, saved sessions work, login succeeds before the deadline |
| `session_store` | 3 goroutines, 3 saves, 1 load, 1 failing call, any number of crashes and clears, plain, encrypted and empty-password stores, sessions of 1 and 2 cells | the file implements the register; damage is reported |
| `bot_api` | 5 updates, 2 without a message, answers of 2, 2 failing requests, 2 stops | at least once, once per run, dropping, every update handled |

Bounds, and why they are enough. Caches of two slots fill, wrap and evict with
three messages; one more slot adds no new case (and the proofs cover all sizes).
Two calls are what it takes for one to find the other's late answer; two
attempts are a send and a resend, and the proofs cover the code's three. Two clock
readings let the clock go back. A log of five with differences of two gives consecutive
differences, one before and one after a failure, and `TooLongGap` 2 makes
differenceTooLong happen. One crash, failed load or failed save already falls at
every place; two dial faults let a reconnect fail both to dial and to
authorise. Four errors in a row take the delay from its first value over the cap
for every pair of options but the default one, and 7 bits are few enough for a missing cap to wrap
around (the largest cap is well below half of them, as real ones are below half
of an int64). Two parts and a remainder, and sizes 0, 2 and 4, cover the part
arithmetic, the asked part sizes 0, 1, 3 and 9 every branch of
`normalizePartSize`; two FLOOD_WAITs interrupt a retry too, and two stale
notifications make Invoke send a query three times although the first was run.
`MaxBatch` 2 lets a peer meet an older entry of itself in either order, and two
dialogs of one raw id meet in one batch. Of the classes the supergroup is the one to
have an id of its own: both of its keys differ, and its kind is learnt in two steps.
In `connect` each DC has a right and a
wrong address, before and after each other; modulo 5 every pair of secrets is
enumerated, and with them a u of zero, a B of zero and negative differences. In `session_store`
two goroutines overlap while a third loads, the longer session may be written
over by the shorter and the other way round, and three saves let one that runs
alone follow two that overlapped. In `bot_api` two neighbouring updates without
a message fill a whole answer.

Fairness. `EncryptedInvoke`: weak fairness of a goroutine's steps, because every
read and write is under a deadline; strong fairness of `Lock`, because Go's mutex
hands over to a starving waiter. Nothing is assumed of the server. `BotRuntime`:
weak fairness of `Run` (the same deadlines) and of `Start`: whoever operates the
bot starts it again. Crashes, cancellations and network errors are never fair.
`Connect` and `AccountLogin`: weak fairness of every step of the program, again
deadlines. `BotApiLoop`: weak fairness of `Run` (the HTTP client has a timeout)
and of `Start`. A finite number of requests may fail in the liveness runs.

Deadlock is not checked where the system may stop: all calls made and answered
(`invoke`, `calls`), a login program that has ended (`connect`), a bot with
updates disabled that waits to be cancelled (`runtime_safety`, `bot_api`), saves
and loads used up (`session_store`).

Three runs state what the documentation says and find it violated:

- `runtime_reconnect`: README, "temporary network errors reconnect with
  exponential backoff". `reconnect` sets `b.client` to nil; if its `Login` fails,
  polling the nil client gives an error that is not taken for a network error,
  so nothing ever reconnects.
- `runtime_cold_start`: README, "MtProGo can resume from the saved update state
  ... keeps saved access hashes". One failed dial at start-up makes `Login`
  authorise afresh and save at once, without state or peers.
- `peers_shared_id`: README, "You can pass the public `Message.ChatID` back to
  `Reply`, `SendMessage`, and `EditMessage`". `storePeerLocked` files peers under
  their raw ids too. With a user and a basic group of one raw id the later replaces
  the other: a message of the group, sent by that user, gets the user's chat id, and
  a reply to the user's private chat may go to the group. `ReplyReachesChat` is what
  remains true: chats whose raw id is not shared are not touched by this.

More observations, which no run states as a property of its own:

- All addresses of a login share the deadline of the caller's context
  (`dialMTProto`), 180 seconds in the example. One address that accepts the
  connection and never answers uses it up, and the login fails although a later
  address would have worked; the comment on `DialEncryptedDefault` says it "tries
  production DCs until an encrypted session is created". `AccountLoggedIn` allows for
  it. A caller without a deadline gets 35 seconds for each handshake.
- A load of the session that fails once costs the messages since the last save:
  `Login` authorises afresh and `getState` passes over them. `EveryMessageHandled`
  allows for it, and `SavedStateCoversOnlyHandled` says that nothing else does this.
- A text that shares a difference with an entry the parser cannot read is dropped
  with it. `PlainTextNeverDropped` bounds this loss and does not rule it out.
- With `DropPendingUpdates` an error of the request that is to drop them is ignored,
  and the run then handles the old updates. `PendingDropped` is about a drop that
  was answered and does not catch this.
- A download that is retried after a FLOOD_WAIT starts again on the same writer
  and succeeds with its first parts written twice; the count it returns, which
  `DownloadedTail` is about, is that of the last attempt only. The property says what
  the count means; it does not catch the repetition.
- `AuthSignIn` takes any result for a success, also
  auth.authorizationSignUpRequired. The example program is safe because it asks
  for the updates state before it saves; that is what `SavedSessionWorks` needs.
- `sessionPath` takes a path that ends in ".mtprogo" for a file; its comment
  names only ".session", and the default for an empty path, ".mtprogo", is
  therefore a file and not a directory.

The passing runs therefore assume:

- `peers`: of a chat that shares its raw id with a dialog of another class nothing is
  claimed but `PeersNeverForgotten`: its keys stay, and with some hash if they had one;
- `runtime_live`: dials succeed. A message that is passed over after a failed load
  need not be handled;
- `calls`: an upload reader has no more bytes than the size it was announced with. A
  file that has grown would be uploaded again, after a FLOOD_WAIT, without its
  beginning. And the server recognises a random_id it has run before it answers
  FLOOD_WAIT: one that ran a query and then answered a resend of it with FLOOD_WAIT
  would make `withFloodWait` post the message again under a new random_id, and
  `PostedOnce` would fail;
- `connect`: the account stays on one DC, and only that DC is named in a redirection.
  The recursion to a third DC (`importBotAuthorizationOnDC`, `authSendCodeOnDC`) is
  therefore never taken, and two servers that keep naming each other, which the code
  would follow until the deadline, or for ever without one, are left out of
  `DialledAtMostTwice` and `AccountLoggedIn`;
- `session_store`: the file system keeps what was written when a process dies;
- `bot_api`: answers to `getUpdates` come in the order of their ids, and what was
  pending is known as old only once the request to drop it was answered.

## 4. The proofs

Every invariant, action property and refinement that a run checks is also proved,
for every value of the constants that satisfies the named ASSUMEs; the fairness
conjuncts of the specifications are not used. What remains with TLC is at the end
of this section. Most ASSUMEs only type the constants; the ones that say more are

- `DialogsAssumption` (`PeerTable`): ids are positive and below the offset of the public
  ids, only a basic group has no access hash, and within a class no two dialogs have
  one id. Dialogs of two classes may;
- `DurationAssumption`, `RuntimeAssumption` (`BotRuntime`): a configured delay is at
  most half the longest duration, the default one too; and two facts about powers
  of two that the provers do not know;
- `LogAssumption` (`Difference`): an unknown constructor occurs only in the vector
  of other updates;
- `GeneratorAssumption` (`Password`): p divides no g * n with 0 < n < p, as for a
  prime p that does not divide g. The code checks neither that p is prime nor that
  g generates anything;
- `SessionFileAssumption`: finitely many goroutines, and no empty session.

Each proof is an induction over the steps. The property alone is seldom inductive;
what follows says what was added to it and why.

**`DispatcherProofs`** (all cache sizes, messages, routes, filters and policies).
`DispatcherOK` adds to the types that `pos` is 0 until the ring is full (`RingOK`)
and that `order` lists the keys of the map once each and never more than the limit
(`PeersOK`). Without the first, an append to a ring with `pos` > 0 would not be an
append to the ordered list; without the second, an eviction could leave a key
behind.

- `TypeCorrect`, `PeerCacheCorrect`, `PutEvictsOldest` (the action property
  `EvictsOldestOnly`) follow from it.
- `RingImplementsRecent`: the dispatcher implements `RecentMessages` under the
  mapping `orderedLocked`. `RotationIndex` turns the rotated sequence into an index
  computation, so that overwriting slot `pos` and advancing it is dropping the head
  of the list and appending.
- `UsefulCached`: what `shouldCacheMessage` accepts stays acceptable, because routes
  are only added and the policy does not change.
- `HandlerSeesOwn`: during a call whose message was cached it is the newest of the
  cache (`NewestIsOwn`).
- `RunsMatching`: `LoopOK` relates the routes matched at the start, which later
  registrations do not change, to those already run, which are the first of them.

**`InvokeProofs`** (any goroutines, calls, attempts, clocks, salts, pushed
packets), in four layers, each using the one before.

- `TypeCorrect`: `Typed`, with the mutex held exactly by a goroutine that sends or
  reads.
- `IdsGrow`, `RequestsNotInterleaved`: `Ordered` adds that no packet written has an
  id above `lastMsgID` or a sequence number the client has not reached.
- `ResultsAreOwn`: `Answered` says of every message still in the stream, nested in
  containers or not, that a result names a request that was written for the body
  it is a result of and that was run. Ids being distinct (`Ordered`), one that
  matches the id waited for is the call's own.
- `RunsOnce`: `Budgeted` counts. What the server has run of a body and may still
  run is at most one more than the notifications that misled the client, and at most
  that number while the call is about to send; a refusal of the very packet waited
  for leaves room for one more. The count of packets under way is a cardinality.

**`ConnectProofs`** (every list of addresses, set of DCs, and all values of SRP).
`ConnectOK` adds that the position is at an address of the DC asked for, so that
the server meant by it exists, and that from its computation on the key is the one
of this connection (`KeyKnown`): the last check of the handshake compares the
server's hash with it.

- `NoLeak`, `KeyIsShared`, `TypeCorrect` follow; `MovingOn` and `StayingOn` are the
  two shapes of a step.
- `TwoPasses`: `Dialled` says which pass the loop is in and which addresses it has
  behind it; each pass dials an address once, and a redirection leads to the DC of
  the account, after which there is none.
- `AccountConnects`: a step of `AccountLogin` is a step of `Connect` or leaves its
  variables alone (`AccountStepIsLoginStep`), so all of the above holds of the
  program that the run `connect` checks.
- `SavedWorks`: before a report of success the session was seen to be accepted.
- `PasswordAccepted`: both sides of SRP compute the same secret. The laws of powers
  modulo p (`ExpSum`, `ExpProduct`, `ExpOfProduct`) are proved from the definition of
  `Exp`; with them (g^b)^(ux + a) = (g^a * (g^x)^u)^b, and t, the server's B without
  the verifier's part, is g^b and not zero. `PasswordKnown` adds that parameters
  which pass the client's checks carry the B of the secret the server remembers.

**`PeerProofs`** (every set of dialogs, with raw ids shared between classes or not, any
order of sources). `TableOK` has two layers. Of every key it says that it is the raw or
the public id of the peer under it; since either id leads back to the raw id
(`RawOfKeys`), storing a peer touches no key of another raw id. Of a dialog with a raw
id of its own it says that both its ids are in the table or neither, with the same
entry, which fits the dialog (`Refs`). `FlowOK` types what is on its way into the
table; `RestoreOK` says that such a peer of the saved session is in the table or still
pending. From these follow `RepliesReach`, `ChatIDsIdentify` and `RestoredUsable` for
dialogs with raw ids of their own. `NothingForgotten` (the action property
`PeersNeverForgotten`) holds for all: `MergedAny` says that merging with whatever the two
keys hold keeps hashes and supergroups.

**`RuntimeProofs`** (every log, part size, configuration and number of failures).

- `TypeCorrect`: `Typed`, with what each place in `Run` relies on, such as that a
  batch lies beyond the loop's state.
- `SavesGoForward`: the saved state is at most `lastState`, which is at most the
  loop's (`Ordered`); a login that reloads an older session inside the loop keeps
  this, because `Run` goes on with its own state.
- `AtLeastOnce`: everything up to each of the three states is dispatched, was skipped
  or was lost (`Covered`), during a batch also up to `next` but for the batch; and
  once a state was saved, a `getState` takes a load or a dial that failed
  (`SessionMissed`, `Remembered`).
- `DispatchesOnce`: what this process dispatched lies within the loop's state
  (`Once`).
- `StopsClean`: as long as no save failed, the store covers this process wherever
  it may still end without another save (`Kept`, `MayEndUnsaved`): without a client,
  where a reconnect begins, and while polling.
- `TextDelivered`: a vector is dropped only for an entry that spoils it, within one
  part of the difference.
- `BackoffHolds`: the delay of `reconnectBackoff` does not wrap around, is at most the
  cap and does not shrink from one error to the next.

**`BotApiProofs`** (any updates, size of answers, faults, restarts): `TypeCorrect`,
`AtLeastOnce`, `OncePerRun`, `DropsPending`. The offset is the link: what lies below
it is dealt with (`OffsetEarned`), what this call handled lies below it, and an
answer is a run of consecutive ids that begins at or above it (`BatchAhead`).

**`MediaProofs`** (every size, limit, part size, number of FLOOD_WAITs and of stale
notifications).

- `PostsOnce`: `Queried` says that all packets under way carry the random_id of the
  current query, and that a FLOOD_WAIT answer to the last of them means none was run
  and none is to come (`Told`), which is why a new random_id is harmless then.
- `DownloadsTail`: the last `offset` bytes of the writer are the first of the file
  (`Fetched`), whatever earlier attempts left before them.
- `SendsWhole`: an attempt that begins at position s of the reader stores the bytes
  from s on, and only one with s = 0 finds enough of them (`Uploaded`).

**`SessionProofs`** (any number of goroutines, saves, loads, faults, crashes; sessions
of any length).

- `TypeCorrect`: `Typed` and `Linked`: the temporary file is neither the session file
  nor one that a load reads, since a name only moves from it to the session file.
- `FileIsRegister`: `SessionFile` implements `SessionRegister`. The value of the register
  is the content of the session file; a save takes effect with its rename. `Alone`
  says that a save no other has overlapped owns its temporary file, which holds what
  it has written so far. That a free inode always exists is a pigeonhole argument
  (`FreshExists`).
- `DamageReported`: when saves overlap, there are fewer temporary files than renames
  that still need one (`Doomed`), so that one of them is bound to fail, or nothing was
  spoilt (`Fine`).

`reconnectBackoff` and `Exp` are recursive functions, and the library's theorems on
them take operators as parameters. Their existence and values are instead proved by
the least number for which the claim would fail, from the well-foundedness of the
order on the naturals (`RuntimeProofs`, last part; `LeastNumber` and `PowersExist` in
`ConnectProofs`).

Only model-checked: liveness (`InvokeReturns`, `EveryMessageHandled`,
`AccountLoggedIn`, `EveryUpdateHandled`), because fairness and ENABLED are beyond the
prover; and the three violations, which are counterexamples.

## 5. Not modelled, and why

Hashes, AES-IGE, RSA, Diffie-Hellman and factoring are arithmetic on large
numbers or bits; where their outcome matters (a packet that fails its checks, a
key both sides know) it is an outcome of an action. SRP is modelled because its
values meet in comparisons. TL byte layout, log output and message texts are left
out. `scanPeerRefs` finds peers by looking for constructor ids at every aligned
offset of the answer; the model takes what it finds to be real. Filters are the
arbitrary relation `Accepts`. The memory store does each operation under its
mutex and has no state between. The client facade (`client.go`, `options.go`)
holds configuration, which appears as constants. `Probe`, `AuthKeyDefault` and
`HelpGetConfigDefault` are prefixes of a login. The other examples configure and
start one of the runtimes; `mtprogo-tlgen` generates source. Loss of power, which
may lose a file the code does not sync, is not part of `SessionFile`.

## 6. Plan

Done: the modules of section 2, the runs of section 3, and a proof of every safety
property they check. What is worth adding:

1. the relation between `BotRuntime` and `SessionRegister`: that the atomic save the
   runtime assumes is the one the session file provides, as a composition;
2. the relation between `Requests` and `EncryptedInvoke`: that the number of sends
   per query in `Requests` is what Invoke allows;
3. for the liveness properties, the safety half of a ranking argument (what a step
   of the program decreases), with the fairness left to TLC.
