# A TLA+ model of elonef-communication

elonef-communication connects chat clients with a server over WebSockets. It
exists twice, in C++ (`cpp/`) and in TypeScript (`node/`), with one format of
frames and one handshake. (Some requests differ: keys are answered as JSON by
the Node server and as a list of byte strings by the C++ server, so for them
both ends have to be of one language.) This directory holds
TLA+ modules that model the parts whose correctness depends on the order of
things, TLC configurations that check them on small instances, and TLAPS proofs
of the invariants that matter most.

Files: a component `X` has its specification in `X.tla`, its instances for TLC
in `MCX.tla` with one `MCX_<run>.cfg` per run, and its proofs in `XProofs.tla`;
the proofs about `NodeKeys`, `NodeChat` and `NumberCodec` are in
`NodeProofs.tla`. `PROJECT.json` maps every definition to the lines it models
and lists runs, mutants, hazards, findings and theorems.

    tlc -workers 2 -config MCKeyCache_loads.cfg MCKeyCache
    tlapm KeyCacheProofs.tla

## 1. The system

| Component | State | Operations | Talks to |
|---|---|---|---|
| C++ `MessageHandler` (template both C++ ends derive from), `ConnectionData` | `send_ready`, `running_handlers` (futures of tasks), per socket `active_processes`, `return_uid_map` | socket callbacks Open, Close, Message; `send` with and without a handler; a task per message: `handle_return`, `handle_api_request`, `custom_handler`; `clean_executors` | ixwebsocket (callbacks in, `sendBinary` out), `ReturnHandler`s (callbacks) |
| C++ `ClientConnectionHandler` | `auth_data` (promise per connection), `ready` (promise), keys, three `Cache`s | `handle_auth`, `authenticate`, `wait_for_auth`, `load_*_keys`, `read_messages`, `make_api_request`, `send_message`, `generate_chat_key` | `MessageHandler`, `Cache` |
| C++ `ServerConnectionHandler` | per socket `authenticated`, `uid`, `auth_data` | `onOpen` (challenge), `auth`, `custom_handler` (messages 0x10..0x16), `make_api_request` (push) | `MessageHandler`, storage callbacks of the application |
| C++ `Cache`, `DataWaiter`, `CacheHandlerData` | map from key to waiter, its mutex; a promise and a mutex per waiter; the keys of a request | `ensure_presance`, `get`, `handle`; `get`, `set_value`, `reject` | threads of the application, tasks of `MessageHandler` |
| C++ message pipeline (`encode_message`, `decode_message`) | the list of messages with `invalid` flags | extraction, signature check, decryption, each after loading keys | caches |
| C++ encoding, decoding, `SlidingTimeWindow` | none | `toBytes`, `toSize_T`, strings, lists; `in_window` | all |
| Node `ConnectionHandler` | `request_resolvers`, `api_callbacks` | `send`, `recv`, `handle_message`, `handle_api_call`, `check_auth` | `ws` / browser WebSocket |
| Node `ServerConnectionHandler` | `connections` (uid to sockets), a `ConnectionState` per socket | `on_connection`, `authanticate`, `add_connection`, message handlers 16..22, `make_api_request` (push) | storage callbacks (`get_pub_key`, ...) |
| Node `ClientConnectionHandler` | promises `ready` and `connectionWaiter`, `sign_key`, maps of keys | `authenticate`, `handle_auth`, `send` (held or not), `get_key`, `get_chat_key`, `send_message`, `get_message` | server |
| Node encoding, `BufferReader` | reading position | `numberToBuffer`, `bufferToNumber`, strings, arrays | all |
| Cryptography, keys, hashing (both) | none | wrappers of Crypto++, forge, node:crypto | all |

**The protocol.** Every frame is a uuid, a type byte and contents. A request is
answered by a frame of type RETURN with the request's uuid and a success byte.
When a socket opens the server sends an AUTH request with random data; the
client answers with its uid and a signature; the server looks up the user's
public key, verifies, and announces success by a message of type 16. Both ends
may make API requests by name; clients also request keys and messages.

**What is hard.** In C++: three kinds of thread (the socket's, one task per
message, the application's) share the table of pending replies, the counter
that keeps a socket alive until its tasks have left, and the caches; frames are
lost when a socket breaks; exceptions leave locked regions. In Node: every
`await` is a point where sockets close and messages arrive; the user may
authenticate before or after being asked; promises nobody settles. In both:
numbers at the limits of their type. What makes each part correct:

- a request gets at most one answer, the one the remote end gave, and gets it
  unless a named event prevents it (both connection handlers);
- nothing uses a socket after its Close callback returned, and Close returns
  (C++ `MessageHandler`);
- a client that is ready is authenticated, in whatever order things come; the
  registry of connections tells the truth (Node session);
- a connection is authenticated only by the enrolled key, and what is held until
  then runs for that user, also when the socket reconnects (C++ handshake);
- a key that has arrived stays, is requested once, and whoever waits for a key
  gets it or an error (C++ caches);
- a key is requested once, a caller gets each user's own key, and callers that
  wait for each other's promises do not wait in a circle (Node key maps);
- a number arrives as it was sent; a message is accepted in its time window;
- what a chat server stores, and what a reader takes from it, is what was sent,
  by whom it says; who is in the chat can read it, who was left out of its key
  cannot; what was read once can be read again (chats of both libraries).

`PROJECT.json` lists the hazards behind these, each at its line with the
properties that watch it.

## 2. The modules

### RequestReply

The abstract promise: a request is issued, answered at most once, and what the
caller is given is that answer. `MessageHandler` and `NodeSession` are both
shown to implement it (`KeepsPromise`, checked by TLC and proved). It promises
nothing about time: no part of the code retries or times out.

### ChatLog

The other abstract specification: what a chat is to its users. Keys are added
and never lost; a post is made once, under a key its author was given, and
stays where it is. `ChatServer` (C++) and `NodeChat` (Node) are shown to
implement it (`KeepsLog`).

### MessageHandler (C++)

One endpoint. The environment is the remote end, which answers each request it
received at most once and makes the requests of `Incoming`, and the network,
which may break once per opening.

| Model | Code |
|---|---|
| `conn`, `callback` | the state of the ixwebsocket socket and the callback its thread is in |
| `active`, `Enter`, `Exit` | `connData->active_processes` |
| `pc[c]`, `SendBinary`, `Insert` | the two steps of `send` with a handler: frame first, table second |
| `returnMap`, `Lookup`, `Invoke` | `return_uid_map`, `handle_return` under `uuid_map_mu` and after it |
| `taskPc[t]`, `running`, `Clean`, `Leave` | a `std::async` task, `running_handlers`, `clean_executors` and the decrement after it |
| `OpenBegin/End`, `CloseBegin/End`, `ControlFrame`, `Receive` | the cases of `handle_message` |
| `Origin` | who makes a call: a thread of the application, the Open callback (the server's challenge), or a task that then waits for it |

The table is shared by all openings of a socket, as in the code (ConnectionData
belongs to the socket object). `early` and `lost` are history variables.

### NodeSession (Node)

One server, and a client at the other end of each socket. JavaScript runs one
handler at a time, so an action is a handler from the event that starts it to
its next await that really waits; what a resolved promise runs at once is part
of the action. Messages of a socket are sets, because the client awaits
`buffer_getter`, an application function, before it handles each of them; the
server's order is thereby also left open, which allows more than the code does.
`LookupDone` is one step since nothing waits between the verification and the
attaching of the close listener that could let a socket event in, once
`get_pub_key` has returned (verification resolves in microtasks). A lookup may
fail for any key: `get_pub_key` may be rejected for reasons of its own.

### KeyCache (C++)

The threads that load keys and wait for them, and the tasks that handle the
replies. A waiter is named by the load that entered it and its key, so that a
waiter that was erased and one entered later for the same key are different.
The actions cut the code where another thread can step in: at the lock and the
unlock of the two mutexes, at each key of a loop, at the wait for a promise.
What the language leaves undefined (a null pointer used, `get` reading the map
while it changes) is the outcome `crashed`, after which nothing happens. The
server may return any subset of the requested keys.

### NodeKeys (Node)

The key maps of the Node client, and the calls that share them: `get_key` with
the map `signature_keys`, used by `generate_chat_keys` for all users of a chat
and by `decode_messages` for the sender of a message, which then needs a chat
key from `get_chat_key` and the map `aes_keys`.

| Model | Code |
|---|---|
| `Calls`, `Users[c]`, `ChatKey[c]` | a call of `get_key`, the users in its list, and the chat key of the message it is made for |
| `key[k]`, `chat[k]` | the promise under a name (id and user), or under a chat key: absent, pending, or whose key it resolved to |
| `unknown[c]`, `EnterPromises` | `unkown_users` and the resolvers kept in the order of the request; the promises are entered before the request is sent |
| `Ask`, `Request`, `ReceiveKeys`, `ReceiveThrows` | `get_key` up to its first await, from there to its request, and after its reply |
| `Answers` | what the request's handler at a server makes of `get_pub_key` |
| `AskChatKey`, `ChatKeyArrives`, `ChatKeyMissing` | `get_chat_key` and its reply |
| `VerifyFails`, `Decode`, `Generate` | what the callers do with what they got |

The kinds of `Servers` stand for the answers the client may meet: that of the
repository's server when `get_pub_key` returns a promise (`promises`) or a
record (`records`), and that of a server which does write the property the
client reads (`keys`). The n-th key of a reply goes to the n-th resolver, as in
the code (`KeyFor`). A list that names one user twice, and a Node process that
ends on an unhandled rejection (its default since version 15), are left out.

### CppAuth (C++)

The handshake over a socket that reconnects by itself, up to the requests that
are held for it.

| Model | Code |
|---|---|
| `conn`, `up` | the socket's present connection; its number also stands for its challenge |
| `given`, `gone` | the promise `auth_data` of the client: the challenge it was set to, and its reset |
| `ready` | the promise `ready`: the connection whose message 0x10 set it |
| `handle_auth`, `HandleReady` | the client's handlers of AUTH and of 0x10 |
| `authenticate`, `Sign`, `SendAnswer`, `Reset`, `UseAfterReset` | the steps of `authenticate`, called by each thread once, cut where a shared pointer or the socket is touched |
| `TakeAnswer`, `Verify`, `SetUid`, `Announce` | `auth` of the server: the reply of the challenge, its test, the two assignments and the message 0x10, each visible to other tasks |
| `Request`, `Serve` | a request, held (`wait_for_auth`) or not, and the test of authentication before it is served |

`overlapped` is a history variable: two calls of `authenticate` were in progress
at once. `crashed` is the outcome of undefined behaviour, the use of
`auth_data` after its reset, which may also go well (`Sign`). A reply is sent to
whatever connection there is. The registration of the challenge's handler is
one step with its sending, which `OpenCallNeverEarly` of `MessageHandler`
justifies.

### WireFormat (C++)

How strings, lists, pairs, maps, keys and messages are laid out in a queue and
read back: pure operators, used by the two modules that follow. A queue is a
sequence of atoms: a number with its own length (its bytes are the subject of
`NumberCodec`), a byte, a text, a uuid, and the outputs of an ideal
cryptography, which open or verify only with the key they name. Reading past the
end of a queue gives `Unset`, the number the unset variable happens to hold.

### ChatServer (C++)

`generate_chat_key` and `send_message` of the clients, and the server's handlers
0x11, 0x12 and 0x13, over `WireFormat`: the frames are built and taken apart as
in the code.

| Model | Code |
|---|---|
| `stage[c]` | how far a call has come, in the client and, after its frame was sent, in the task of the server |
| `frame`, `trusted` | the bytes on their way; whether they were sent on an authenticated connection |
| `get_newest_chat_key`, `UploadMessage` | the first and second half of `send_message` |
| `DrawBegin`, `DrawEnd`, `SetChatKey` | the id of a new key from the unlocked generator, read and written apart, and `set_chat_key` |
| `VerifyMessage`, `StampMessage`, `StoreMessage` | `add_message`: signature and time window, the upload time, the callback |
| `keys`, `log` | what the application's callbacks were given, in that order |

A message or key is named by the call that made it. `floor` and `met` are
history variables.

### MessagePipeline (C++)

`read_messages` and `decode_message`: one thread that goes over the messages of
an answer pass by pass (senders' keys, signatures, ids, chat keys, contents),
and the tasks that handle the answers to its requests for keys. The two caches
stay from read to read, with the waiters that were rejected, the entries that
are null and the mutex a handler has left locked (`leaked`). Some keys are known
to the server only later (`Late`).

| Model | Code |
|---|---|
| `pc`, `msgs`, `at` | the pass of `decode_message`, the messages, and the one it is at |
| `ensure`, `get`, `check_signature`, `decrypt_message` | the steps of a pass |
| `handle`, `erasing`, `reject`, `erase` | `Cache::handle`: the keys an answer brings in one step, then, with the mutex held, each key it lacks is rejected and erased |
| `getErasing`, `WaiterThrows`, `held = Locked` | `Cache::get` takes no mutex: it finds a waiter that is being rejected; `DataWaiter::get` throws with the waiter's mutex locked, and the next `get` of that waiter blocks |
| `LoadFails`, `MessagesFail` | the answer is an error, which `CallbackReturnHandler::reject` ignores and `read_messages` throws, or it is lost with the socket |

Which keys an answer fulfils before it throws or crashes is open; how that part
of `Cache::handle` races with `Cache::get` key by key, and with a second thread,
is the subject of `KeyCache`. `missed`, `failed` and `ended` are history
variables; a read that was answered with an error took no message apart and is
not in `ended`.

### NodeChat (Node)

The chat of the Node classes from end to end: `generate_chat_keys`,
`send_message`, `get_message`, and the handlers 17, 18, 19, 21 and 22.

| Model | Code |
|---|---|
| `stage[c]` | how far a call has come, at the client, on the wire or in the handler at the server |
| `NewestKeyId`, `NewestKey` | `get_newest_chat_key` of the server, cut at its second `await` |
| `UploadMessage` | `send_message` after its first `await`; the reply to the upload is not awaited |
| `add_message_handler`, `AddMessage` | up to the call of `add_message`, which is not awaited, and its effect |
| `aes[u][k]`, `Enter`, `get_chat_key_handler` | the promises of `aes_keys`, entered with their request, and what settles them |
| `Rejected` | a callback of the application is rejected; nothing is replied |
| `Close` | a socket closes: what is under way may have been received already or is lost |

An action is a handler from one callback's effect to the next, so callbacks may
take effect in any order. Public keys and signatures are taken to be right,
since `NodeKeys` has what can go wrong with them.

### NumberCodec (both)

The encoding and decoding loops of both libraries, one turn per step, and what
the decoded number is used for: the length of a string, or a time checked by
`in_window` or by the tolerance test of the Node server. Widths are parameters:
an int of `IntDigits` bytes of base `Base`, a `size_t` of `SizeDigits`. A shift
by more than the width, undefined in C++, has the outcomes of an optimiser and
of the machine.

## 3. The runs

| Run | Checks | Shows |
|---|---|---|
| `mh_client` | `NoUseAfterClose`, `EveryLiveTaskIsTracked`, `NoSilentLoss`, `KeepsPromise`, `CloseReturns` | a client that opens twice, with an own request, a nested one, two requests of the server and one control frame; the Close callback spins for ever only because of a leaked count, a task waiting for a reply, or a handler that blocks at the mutex of a cache |
| `mh_race` (violation) | `RequestsReturn` | the reply overtakes the registration of its request and is dropped |
| `node_session` | `HeldCallsArriveAuthenticated`, `RegistryTruthful`, `KeepsPromise`, `AuthOrderIrrelevant`, `SentCallsSettle`, `PushSettles` | two sockets of one user, one with a call that is held, one with a call that is not, and a push to her |
| `kc_loads` | `ThrownOnlyAfterOverlap`, `GoneOnlyIfRejected`, `ValuesStay`, `LoadsReturn` | two loads, of a key and of this key with another, one by a caller that does not test for null |
| `kc_reject` (violation) | `RejectedIsUnfulfilled` | a cached key is rejected by the load of another |
| `node_keys` | `RequestedOnce`, `OwnKeys`, `PendingExplained`, `CallsEnd` | two chats with common users and two messages of one sender, against every kind of server |
| `node_keys_server` (violation) | `AnsweredCallsReturn` | the repository's own server makes `get_key` throw |
| `cpp_auth` | `AuthenticatedBySigner`, `HeldServedAsUser`, `CrashExplained`, `BecomesReady` | a socket that reconnects, two threads that authenticate with one of three keys, a held and an eager request |
| `codec_numbers` | `OnlyIntsArrive`, `WindowRespected` | all numbers of an int and the first ones beyond, between every pair of libraries |
| `chat` | `StoredAsSent`, `MembersRead`, `NoStaleKey`, `FailureExplained`, `SendTimesKeepOrder`, `KeepsLog`, `SendsSettle` | two members make keys at once while one sends two messages, her socket reconnects and the clock goes on |
| `reads` | `ValidAsSigned`, `FailureExplained`, `ValidStaysValid`, `TroubleExplained`, `ReadsReturn` | three reads of a chat of five messages, good, badly signed, with a late key that two of them need, and with an id two keys share; every answer may be an error or be lost; and, as assumptions TLC evaluates, that every format reads back as it was written |
| `node_chat` | `ReadAsSent`, `KeepsLog`, `CallsSettle` | a member sends two messages while another replaces the key by one without her, and reads; a tick of the clock, a socket that closes, callbacks that are rejected |

A violation run checks one sentence of a doc, a test or an assertion of the
repository and finds that the code does otherwise; `findings` in `PROJECT.json`
quotes the sentence. Further disagreements were met that have no run of their
own, since a property that holds already says exactly what the code does:

- The C++ test expects a large `size_t` to survive encoding and decoding
  (`cpp/test/test_encoding.cpp:42`), and the doc of `numberToBuffer`
  (`node/src/encoding/index.ts:5`) sets no limit. Both decoders shift an int
  (`cpp/src/encoding/decoding.cpp:15`), and `>>` makes an int of the number in
  Node (line 12). `OnlyIntsArrive` says which numbers survive: those of an int.
- `make_api_request` of the Node server is to reach every client of a user, but
  a socket that closed while `get_pub_key` was awaited is registered after its
  close event and stays (`node/src/handlers/serverConnectionHandler.ts:118`); a
  push to that user then waits for ever. `RegistryTruthful` says that there is
  no other way to a stale entry, `PushSettles` what it does to a push.
- `get_key` sends a request even if every user is known
  (`node/src/handlers/clientConnectionHandler.ts:235`), with an empty list,
  although the map is there to avoid asking (line 58).
- The result of the error handler is ignored although the constructor's doc
  gives it a meaning (`clientConnectionHandler.ts:73`).
- An empty string, which `stringToBuffer` encodes, trips the assertion of
  `BufferReader.read`; `OnlyIntsArrive` says that nothing else does.
- Two chat keys made at once may set the generator of uuids back, so that an id
  comes to name two keys (`cpp/src/encoding/uuid.cpp:4`, shared by all tasks).
  `MembersRead` says that ids are not repeated otherwise; `ValidAsSigned` and
  `FailureExplained` of `MessagePipeline` what a reader makes of such an id.
- The Node server replies to an upload before the application has stored the
  message (`serverConnectionHandler.ts:271`), and `send_message` does not wait
  for the reply in the first place (`clientConnectionHandler.ts:411`).

**Excuses are stated, not assumed.** Several properties have the form "X,
unless Y": `NoSilentLoss`, `CloseReturns`, `SentCallsSettle`, `PushSettles`,
`LoadsReturn`, `ThrownOnlyAfterOverlap`, `GoneOnlyIfRejected`, `OwnKeys`,
`PendingExplained`, `CallsEnd`, `HeldServedAsUser`, `CrashExplained`,
`BecomesReady`, `MembersRead`, `FailureExplained`, `TroubleExplained`,
`SendsSettle`, `ReadsReturn`, `CallsSettle`. Each Y is an event the code does not
handle, found by strengthening the property until TLC refused; the property
says that the model has no further way to fail. Two of them need a list: the
Close callback (`CloseReturns`) waits for a leaked count, for a task that waits
for a reply which cannot come, or for a handler of `Blocking` that never returns;
a read (`ReadsReturn`) waits for its own lost answer, at the mutex of a cache or
of a waiter, or for a key whose request was lost or answered with an error. The
plain forms of the most
important ones are the violation runs.

**Bounds.** `MaxOpens` (times a socket connects) is 2 for the client, so that
replies, tasks and table entries of one connection meet the next one;
`MaxControl` (callbacks without a case) is 1, since the second leak does what
the first did. The reply of the call `load` is handled by a cache and may block
(`Blocking`). Two calls, one of them nested in the handler of an incoming
request, give every pair of threads that share a variable. Two sockets are
enough for `NodeSession`, where sockets interact only through `connections`
and the targets of a push. In `KeyCache` a load of one key meets a load of
this key and another: a key that is rejected and requested again, a key that is
found in the cache and then missed by the reply, a wait at a waiter of the
other load. In `NodeKeys` four calls
make every kind of meeting: two lists that share users in opposite orders, so
that each waits for a promise of the other, and two messages that need the same
sender and the same chat key. In `CppAuth` two connections (`MaxOpens`; the
last one does not break) let everything of the first meet the second; two
threads may overlap or follow each other; of three keys one is enrolled, one is
another key under the same name, and one belongs to nobody the server knows.
`NumberCodec` has bytes of two bits, an int of four and a `size_t` of eight of
them: like the real widths, a number that fits a `size_t` may have more bytes
than an int, and the shift count may exceed an int's width; the numbers sent
are those below and around the limit of an int (128) and of its digits (256),
with delays on both sides of each edge of the window. In `ChatServer` four calls
are enough for a key to be replaced between the two halves of `send_message`,
for two ids to be drawn at once, for two messages to overtake each other, and
for a message to be late, early (bob's clock is a second ahead) or in time:
`Start` 2 and `MaxTime` 3 let the clock tick once, past the window's lower
bound of 1. In `MessagePipeline` three reads (`MaxReads`), of overlapping or
disjoint parts, let what one read leaves in the caches meet a second and a
third, of five messages that differ in what is wrong with them; two of them
need the same late keys, so that the reader comes back to a waiter that has
thrown (571,554 states; TLC needs under three minutes). In `NodeChat`
the two keys differ in whom they are for, ann's messages may be sealed with
either or find none for her, the clock ticks once with no tolerance, and one
message and the read may meet a rejected callback. The proofs below hold
without these bounds, and for the widths of the libraries.

**Deadlock** is not checked (`CHECK_DEADLOCK FALSE`): all these systems stop
when every request of the instance has been made, every message delivered and
the sockets have closed for good, and a stop that should not be is what the
liveness properties are about.

**Fairness** is weak, per thread or handler, and only where the code's own
scheduling provides it. In `MessageHandler`: the operating system runs every
thread that can go on (the spin in Close yields); a handler returns, unless it is
one of `Blocking`, of which nothing is assumed, since `Cache::handle` locks a
mutex that an earlier handler may have left locked (`cache.hpp:77`;
`ThrownOnlyAfterOverlap` says when it does); and the remote end answers
what it received, the challenge excepted, which waits for a user. In
`NodeSession`: the event loop delivers every message of an open socket and
resumes every continuation, storage callbacks return, and `ws` closes a socket
the server asked it to close (it has a timeout). In `KeyCache`: every thread and
task, and the server answers or fails. In `NodeKeys`: the event loop runs every
continuation, and a request is answered or lost, as `NodeSession` shows. In
`CppAuth`: a thread that has started to authenticate, the tasks of an open
connection, and the socket, which reconnects by itself. In `KeyCache`,
`NodeSession`, `ChatServer`, `MessagePipeline` and `NodeChat` the condition is
on all these steps together (`Progress`, `Advance`): while one of them can be
taken, one is; in `MessagePipeline` an answer that fails is not among them, so
it may fail and need not. That gives each its turn, since no behaviour takes infinitely
many of them: each brings a call, a message or a reply further. Nothing makes a
user authenticate, an application call, or a network stay up or break.

**Mutants.** Each property of a passing run is paired with a fault of the code
(a missing decrement, a swapped bound, a reply that ignores the success byte)
that makes TLC refuse it. The faulty definitions stand in the modules before
the ones they replace, marked `Mutant`, and no action uses them.

## 4. The proofs

All theorems are about a module's `Spec` for every value of the constants that
satisfies the assumptions named in the modules; none uses the bounds of the
runs.

**`MessageHandlerProofs`** (`TypeCorrect`, `CounterExact`, `CloseIsSafe`,
`LiveTasksTracked`, `OpenCallSafe`, `LossAccounted`, `HandlerKeepsPromise`).
`ActiveProcessesExact` is not inductive: that a step of a task changes the
number of unfinished ones by one needs that set to be finite
(`FiniteAssumption`) and the task to be in it, and that a message starts a task
only once needs every message to be in one place at a time: at the remote end,
in flight, lost, or a task. The inductive invariant adds these, and where the
reply of each call can be at each value of its `pc`. `CloseIsSafe` follows from
the count being 0 when Close returns, and no message being in flight on a
closed socket. `HandlerKeepsPromise` maps each step to a step of `RequestReply`
or a stutter.

**`NodeSessionProofs`** (`TypeCorrect`, `HeldCallsSafe`, `RegistryIsTruthful`,
`ReadySafe`, `SessionKeepsPromise`). The invariant follows
authentication along the messages that carry it: a READY in flight or a ready
client implies that the server is done with that socket, a held call in flight
was sent by a ready client, and a signature in flight or a lookup in progress
implies a client with a key. For the registry: a socket in `connections` is
authenticated, and an authenticated socket that is not closed is in it.

**`KeyCacheProofs`** (`TypeCorrect`, `ThrowsNeedOverlap`,
`GoneKeysWereRejected`, `ArrivedKeysStay`). Its
invariant is a conjunction of named parts, each for one actor: what a load has
entered and requested (`LoadInv`), who holds the mutex and what its holder is
doing (`MutexInv`), which waiters are entered and in which state their promises
are (`WaiterInv`), and which keys a reply's handler may still set or reject
(`OwnerInv`). The core of it: a waiter that a load entered and that is still
pending can be settled only by that load's own reply, or rejected by one that
wanted its key too. `ArrivedKeysStay` uses that a key is erased only in the step
after its promise was set to an error, with the mutex held in between.

**`NodeProofs`** proves about three modules, in three sections that share
nothing. It extends them all, for which their names are kept apart: the
specification of `NodeChat` is `ChatSpec`, that of `NumberCodec` `CodecSpec`.

*The keys* (`TypeCorrect`, `KeysRequestedOnce`, `PendingIsExplained`,
`ReturnedKeysAreOwn`). `KnownInv` says what is true of a call's request and the
promises it entered at each value of its `pc`; `KeyInv` that a promise which
resolved did so to its own user's key, unless a reply left out that user or one
before her; `ResultInv` the same of what a call holds. The step that matters is
the receipt of a reply, and the lemma under it (`ResolvedOwn`, from
`KeyForSelf`): if nobody at or before a place was left out, the ranks of the
place among those asked for and among those served are equal, hence the n-th
key is that user's. It uses that both sets of places are finite.

*The chat* (`ReadAsSentAlways`, `KeepsLogAlways`). `ChatInv` follows a message
from its call to the log: what a send holds at each of its places is the id of a
key that was set and not yet replaced when the send began, then that key, then
the message it uploads, made for its author (`SendInv`); a later send of a user
starts after the earlier one was stamped, hence is stamped no earlier
(`OrderInv`); a message of the log is that of one stored call and is there once
(`StoredInv`); what a read was answered with is still the start of the log
(`ReadInv`). `KeysStored`, that the call whose key is set will not set it again,
makes this inductive. The steps that change neither keys nor log nor a message
on its way are treated together (`QuietKeeps`). `KeepsLogAlways` maps
`set_chat_key_handler` to a new key of `ChatLog`, `AddMessage` to a post under a
key its author was given, and every other step to a stutter.

*The numbers* (`OnlyIntsArriveAlways`, `WindowRespectedAlways`,
`CodecTypeCorrect`). A number is followed by its digits: `Sent` is the number
the encoder really writes (in Node the int that `>>` makes of it, if it gets as
far as a shift); the bytes written are its lowest digits and `rest` is what
remains (`EncodeInv`); what is decoded so far is the number those digits make, a
signed int once they are as many as an int has, and then whatever shifts by more
than the width may add, which is an int as well (`DecodeInv`, `High`). Two ints
do not add up to a number an int does not hold and whose digits are more than an
int has; that a negative sum does not become one when a `size_t` takes it is a
matter of its lowest digits (`OthersDoNot`). That needs facts about powers of
`Base`, for which an induction is necessary: it is done without an operator
parameter, over a set of numbers (`SetInduction`, from the well-foundedness of
`<` on `Nat`), first to show that the function `Power` exists at all
(`PowerExists`). Assumed are an even base, so that an int has as many negative
numbers as others, and a `size_t` of at most twice the digits of an int; the
libraries have 256, 4 and 8. `WindowRespected` compares times in unsigned
arithmetic, so it speaks of those `current - Past` and `current + Future` that a
`size_t` holds: the proof does not go through without this, and neither does the
property hold.

**`CppAuthProofs`** (`TypeCorrect`, `SignerAuthenticated`, `HeldRequestsServed`,
`CrashesExplained`). A signature is followed from the thread that made it
(`ThreadInv`) through the answers on their way (`AnswerInv`) to the server's
handler (`ServerInv`), which gives `AuthenticatedBySigner`. `ReadyInv` adds that
the connection `ready` names has its uid set, since 0x10 is announced after both
assignments; a held request sent on that connection therefore runs for that
user. `OverlapInv` and `ConnInv` give `CrashExplained`: without overlapping
calls, nobody waits when `auth_data` is reset, and a challenge that finds it
reset belongs to a later connection than the one it was set to.

**`WireFormatProofs`** (`BlockReadsBack`, `PairReadsBack`, `SignedVerifies`,
`ClientDataOpens`, `StoredOpens`). Each format reads back what was written and
leaves the rest of the queue, for every content. The step under all of them is
what becomes of a prefix of a concatenation, cut off by its length. Lists and
maps are folds over their items, which only an induction could prove about;
they are evaluated in the run `reads`.

**`ChatServerProofs`** (`TypeCorrect`, `StoredAsSentAlways`,
`MembersReadAlways`, `NoStaleKeyAlways`, `FailureExplainedAlways`,
`SendTimesKeepOrderAlways`, `KeepsLogAlways`). The invariant follows a message
from call to log: what the reply to a request for the newest key can be
(`ReplyInv`: nothing, or a key made for that user, under its id, no older than
`floor`), what the upload made of it is (`UploadInv`), what the task has stamped
(`StampInv`), and how a call can end (`EndInv`); each uses the formats of
`WireFormatProofs`. `LogInv` then says that each stored message is that of one
call and of no other, `IdsInv` that ids differ unless two were drawn at once,
`OrderInv` that a later call of a thread is not signed with an earlier time.
`KeepsLogAlways` maps keys and messages to those of `ChatLog`, where a message
names the key it is sealed with.

**`MessagePipelineProofs`** (`TypeCorrect`, `ValidAsSignedAlways`,
`ValidStaysValidAlways`, `FailureExplainedAlways`, `TroubleExplainedAlways`).
`MsgsInv` says what a message is after each pass, for
the messages before and behind the one the pass is at; `KeysInv` and `HeldInv`
that a key in a cache, in an answer or in the reader's hand is the one the
server has under that name; `EndedInv` keeps this for the reads that ended.
`ValidStaysValid` needs more: a key that was used has arrived in its cache
(`UsedInv`), stays there (`KeptInv`, since a handler erases only what is
pending), and whoever meets it gets it (`GotInv`).

`FailureExplained` needs to know where a missing key can have come from. An
entry of a cache is null, or its waiter rejected, only if the server left the
key out or an earlier read threw (`NullInv`, `RejectedInv`), and then so is each
message that failed for it (`BlameInv`). This rests on what is under way: what
an answer lacks is in `missed`, and a key a request did not ask for is in its
cache (`AskedInv`); as long as no read threw, a key is pending only while the
read in progress still has a message that needs it (`PendingInv`). The code also
asks for the chat key of a message whose signature failed, whose contents it has
not taken apart: what it takes for an id there is nobody's (`GarbledInv`), since
ids are uuids (`IdsAssumption`).
`TroubleExplained` looks at the histories without trouble. While the server has
left out no key and no read threw, no two requests want the same cache's keys,
and each key they want is pending, so nobody uses a null pointer (`WholeInv`,
`CrashInv`); while no message is invalid either, there is at most one request,
made by the read in progress, for keys that no earlier read has loaded, and
every key in a cache was loaded by a read (`LoadingInv`, `LoadedInv`). A handler
that leaves a mutex locked then met a key that one read loaded and another asked
for with others, which is the sharing the property names (`LeakInv`). A waiter
whose mutex is locked has thrown at an earlier message of the same pass
(`LockedInv`), since no pass starts while a handler still erases (`Free`); who
blocks on it is therefore at a second message of that key (`StuckInv`), which
was rejected and so is gone (`RejectedInv`, `NullInv`). No step of these
invariants needs a request to be answered: one that fails only leaves `asked`.

**Proved and not run.** The type invariants, `ActiveProcessesExact`,
`OpenCallNeverEarly` and `ReadyIsAuthenticated` hold for every instance, and no
run repeats them.

**Only model-checked:** every liveness property (`CloseReturns`,
`AuthOrderIrrelevant`, `SentCallsSettle`, `PushSettles`, `LoadsReturn`,
`CallsEnd`, `BecomesReady`, `SendsSettle`, `ReadsReturn`, `CallsSettle`), which
rest on fairness, out of the prover's reach; and the reading back of lists and
maps, which are folds over their items (assumptions that the run `reads`
evaluates). Every other property of a passing run is a theorem.

## 5. What is not modelled

- Cryptography itself: it is ideal, a signature verifies with its signer's key
  only and contents open with their own key only. The generation of keys, PEM,
  base64 and hex are left out.
- In `MessageHandler`: the destructor of the handler, and a uuid given out twice
  by the unlocked generator (the ids of requests are taken to be distinct). When
  the callback of a reply throws, an end sends a RETURN frame without a uuid,
  since `handle_return` has emptied it (`messageHandler.hpp:178`). The other end
  takes that frame for a short uuid and switches on a type byte that was never
  set; here it is an incoming request whose handler makes no calls, and no
  property depends on it.
- `start`, `stop` and `connect` of the C++ ends, which hand over to ixwebsocket
  (`stop` calls `start`, so the socket goes on), and the order in which the
  members of a client are destroyed, the caches before the socket whose tasks
  use them.
- The filling of the tables of callbacks, and the setters of tolerances: both
  are done before the objects are used.
- In `KeyCache`: two unlocked `get`s racing with each other, a list that names
  one sender twice (the second `get` of a waiter that threw blocks in the same
  thread; two loads blocking each other the same way is modelled), and the
  empty reply a server gives a client that is not authenticated, which a load
  meets only after the client has reconnected (`HeldServedAsUser` of `CppAuth`).
- In the Node modules: a process that ends on an unhandled rejection; in
  `NodeKeys` also lists that name one user twice. In `NodeChat` the awaits of
  hashing, signing and verifying are part of the step that makes them; no event
  of another actor can change what they work on.
- In `ChatServer` and `NodeChat`: callbacks of the application that lose what
  they were given; more than one chat, as chats share nothing but the generator
  of ids.
- Build files, workflows, test programs.

## 6. Plan

Done: RequestReply, MessageHandler, NodeSession, KeyCache, NumberCodec,
NodeKeys, CppAuth, WireFormat, ChatLog, ChatServer, MessagePipeline, NodeChat,
with the proofs listed above. Next, in this order:

1. The lists and maps of `WireFormat`: their folds as recursive functions, and an
   induction over their length in the manner of `SetInduction`.
2. An abstract map of keys (absent, requested, known) that `KeyCache` implements
   for as long as no load is rejected.
3. `MessageHandler` composed with `KeyCache`, so that which handlers block is a
   consequence and not the constant `Blocking`.
