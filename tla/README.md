# A formal model of the CentOS Asio Project library

`src/Networking` holds a small C++ messaging library over asio 1.18.0 (namespace
`cap::net`), a server and a client that use it, and a first experiment with asio.
This directory holds TLA+ modules translated from that code, TLC configurations
that model-check them, and TLAPS proofs of theorems about them.

## 1. The system

| Component | Code | State | Operations |
|---|---|---|---|
| `tsqueue<T>` | `NetCommon/net_tsqueue.h` | `deqQueue`, `muxQueue`, `muxBlocking`, `cvBlocking` | `push_back`, `push_front`, `pop_front`, `pop_back`, `clear`, `empty`, `wait` |
| `message<T>` | `NetCommon/net_message.h` | `header.id`, `header.size`, `body` | `<<`, `>>` |
| `connection<T>` | `NetCommon/net_connection.h` | socket, `m_qMessagesOut`, reference to `m_qMessagesIn`, `m_msgTemporaryIn`, `m_nADV*` | `ConnectToServer`, `ConnectToClient`, `Send`, `Disconnect`, `IsConnected`, and the handlers of each asynchronous read and write |
| `server_interface<T>` | `NetCommon/net_server.h` | acceptor, `m_deqConnections`, `m_qMessagesIn`, `nIDCounter`, one asio thread | `Start`, `Stop`, `WaitForClientConnection`, `MessageClient`, `MessageAllClients`, `Update` |
| `client_interface<T>` | `NetCommon/net_client.h` | one `connection`, `m_qMessagesIn`, one asio thread | `Connect`, `Disconnect`, `Send`, `IsConnected`, `Incoming` |
| SimpleServer | `NetServer/SimpleServer.cpp` | none of its own | `OnClientConnect`, `OnMessage`, loop over `Update(-1, true)` |
| SimpleClient | `NetClient/SimpleClient.cpp` | key state | polling loop: send, `IsConnected`, `empty`, `pop_front` |
| experiment | `CentOS_Proyect-Asio-App/main.cpp` | a socket, a buffer | one HTTP request |
| asio 1.18.0 | `asio-1.18.0/` | completion port, count of work, operations in progress | vendored; `run`, `stop`, `post`, `async_read`, `async_write`, `async_connect` as the library uses them |

How they interact. Each program has two threads. The asio thread runs
`io_context::run()`, one handler at a time; handlers read and write the socket and
push to `m_qMessagesIn`. The main thread pops that queue, and calls `Send` and
`Disconnect`, which only *post* a lambda to the asio thread. `m_qMessagesIn` is thus
shared by two threads through `tsqueue`; `m_qMessagesOut` and the reads and writes of a
connection belong to the asio thread alone; `m_deqConnections` is shared without a lock.

A connection begins with a challenge: the server writes `m_nADVOut`, the client
answers `scramble` of it, the server compares with `m_nADVCheck` and then starts to
read messages, or closes. `OnClientConnect` has by then posted `ServerAccept`.

What is hard here, and what makes each part correct:

- **tsqueue** (two mutexes, a condition variable, check-then-act callers): items come
  out once each, in order; no thread blocks another for good; a waiting consumer
  is woken; `pop_front` never meets an empty deque.
- **connection** (a chain of handlers per direction, posted lambdas, closes from either
  side, failures at any operation): one read and one message write at a time; frames stay
  aligned, also when the stream takes and gives less than a buffer at a time; messages arrive
  once each, in order, and only from validated clients; a cut is noticed; what was sent is delivered.
- **server_interface** (accept against broadcast, lifetime of connections): every
  client is accepted or refused and the acceptor armed again; a broadcast reaches or reports each
  other client; dead connections leave the registry once; no handler runs on a destroyed connection.
- **client_interface** (posted close against `stop()`, `join`, reuse): `Disconnect` returns
  and the socket is closed; the loop ends when the server has gone.
- **message**: values come out in the reverse order they went in, `header.size` is the
  size of the body when a message is written, and `>>` finds what it takes out.
- **connection::scramble**: the eight challenges a server may pose have different answers (two connections
  may well be given the same challenge, and then have the same answer).

`PROJECT.json` lists every hazard at its line, with the properties that cover it or the reason why
none does.

## 2. Modules

| Module | What it is |
|---|---|
| `Channel` | Abstract specification: what comes out is a prefix of what went in. |
| `TSQueue` | `tsqueue` and the loop that drains it (`Update`). Extended by `MCTSQueue` for TLC and by `TSQueueProofs`. |
| `Scramble` | `connection::scramble` on 64-bit values, with a reference definition. `ScrambleProofs` proves that they agree, and what that means for the handshake of `Session` (it extends `MCSession`, which joins the two, and `SessionProofs`). |
| `NetMessage` | `message<T>`: header, body, `<<` and `>>`. Extended by `Wire`. |
| `Session` | One connection, both ends, with the stream between them. Extended by `MCSession` for TLC (which takes its validation values from `Scramble`) and by `SessionProofs` (the write chain, the reads and the handshake) and `SessionChannelProofs` (the frames on the stream and the refinement of `Channel`), which extends it. |
| `Service` | `Session` and `TSQueue` composed: CustomServer's two threads at work for one client, with `Update` and `OnMessage` between the connection's handlers and its `Send`. Extended by `MCService` for TLC and by `ServiceProofs`, which proves that it implements both. |
| `Wire` | The same connection word by word: composed reads and writes over a stream that splits buffers, and the messages the two programs make and read. It implements two `Channel`s of whole buffers. Extended by `MCWire` for TLC and by `WireProofs`, which also has the theorems about `NetMessage`. |
| `Server` | `server_interface` with several clients: registry, accept handler, broadcast, the life of the connection objects. Extended by `MCServer` for TLC and by `ServerProofs`. |
| `Client` | `client_interface` and SimpleClient's loop, with the completion port the asio thread serves. Checked as it stands; extended by `ClientProofs`. |

### TSQueue

One action is what a thread does between two lock operations. Acquiring `muxQueue`
and editing the deque is one action, since only its holder touches the deque. `pc` says
where a thread stands:

| Code | Actions |
|---|---|
| `push_back`, `push_front` | `push_back`/`push_front` (lock `muxQueue`, emplace), `notify_one` (lock `muxBlocking`, notify), `push_return` (release both) |
| `wait` | `wait_test` (`empty()`), `wait_lock`, `wait_sleep` (release and sleep, atomically), `wait_woken` (lock again), `wait_again` (release, loop) |
| `Update` | `Update` (reset the counter), `drain_bound`, `drain_test` (the two loop tests), `pop_front`/`pop_back` (and `OnMessage`) |
| `clear` | `clear` |

`use`, one of `Uses`, is what the program makes of its queue: the pushes and removals it calls and whether
`Update` waits; it never changes. SimpleServer's is `ServerUse`. SimpleClient's loop polls the queue only while its
socket is open and leaves with messages queued once it is not: that is in `Client`, not here.

`SpuriousWakeup` is the one step of `std::condition_variable` that no code of the
repository takes. `wait()` has no such freedom in `notify_one`: it wakes one sleeper if
there is one. `pushed`, `handled` and `dropped` are history. `OnMessage` is the empty
step: what it does belongs to the connection and the registry. `pop_front` is guarded by
a non-empty deque because popping an empty one is undefined; `NoPopOnEmpty` says the guard
never holds a thread back.

### Session

An action of an asio thread is one handler: an outstanding operation completes, or fails,
and its lambda runs to the end, including the operation it starts next. An outstanding
operation is a record in `reading` or `writing`, or the state of `advWriting` for
`WriteValidation`; it is `live` if the socket was connected when it was started, and an
operation that is not live can only fail. The stream to each end is the sequence `net` of
chunks (a validation value, a header, a body). A write hands its chunk over when it
starts and its handler runs later, so the peer may answer before the writer's handler
has run. After `broken` (a close of either end, or `NetworkFails`) what is in flight may
still be read, or the read may fail, and what is written is lost, with the write reported
as done or failed: both are what TCP does.

| Code | Actions |
|---|---|
| `client_interface::Connect`, `connection::ConnectToServer` | `ConnectToServer`, `TcpConnect` (environment), `ConnectCompletes` (the lambda, with or without an error) |
| accept lambda, `OnClientConnect`, `ConnectToClient` | `AcceptConnection` |
| `WriteValidation`, `ReadValidation` | `WriteValidationCompletes`, `WriteValidationFails`, `ReadValidationServer`, `ReadValidationClient` |
| `Send`, `Disconnect` | `Send`, `Disconnect` (post), `PostedSend`, `PostedClose` (the lambdas) |
| `ReadHeader`, `ReadBody` | `ReadHeader`, `ReadBody` (both with `AddToIncomingMessageQueue`), `ReadError` |
| `WriteHeader`, `WriteBody` | `WriteHeader`, `WriteBody` (both with `PopAndWriteNext`), `WriteError` |
| `m_context.run()` of the client | `RunReturns`: no work left, nothing posted later is run |

A message is a name; `HasBody` are those whose header announces a body. The server's
context never runs out of work, since an accept is always outstanding. `Send` of the
server is guarded by `accepted` alone: `OnMessage` answers without asking whether the
socket is open, and a broadcast may come at any time. `m_qMessagesIn` is the history of
what was queued for the program; how it is drained is `TSQueue`. The handshake compares
a validation value with the kind of chunk as well: a header is never equal to an answer,
whose top byte is always 0xC0 (`ScramblesByPairs`) while no message of the programs
is that long. That a stream of bytes carries whole chunks at all is `Wire`'s result.

### Service

`Session` lets the server's program send what it likes, and `TSQueue` does not say where messages come
from. `Service` closes both: it extends `Session` and takes an instance of `TSQueue` whose one producer is the
asio thread, whose one consumer is the main thread, and whose items are the numbers of the messages that were read.

| Code | Actions |
|---|---|
| `main`, `Start` | `ServiceInit`: both threads run and nobody has connected |
| handlers of the server's connection | `AsioHandler`: one of `Session`'s, with the `push_back` of `AddToIncomingMessageQueue` begun if it queues a message |
| `push_back` | `PushGoesOn` (notify, then return) |
| `Update` | `UpdateGoesOn` (`wait`, the loop's tests), `PopAndHandle` (`pop_front`, then `OnMessage`) |
| `OnMessage` | `OnMessage`: a ping goes to `Send`, `MessageAll` has other connections to send to |
| the client | `ClientSide`: `Session`'s actions of its two threads and of the network |

A handler that pushes is inside `push_back` until that returns, and the asio thread runs no other
meanwhile, so a main thread that holds a mutex holds the connection up. The read that the code starts after the push is
started with the handler here: what a read may do depends on the socket alone, which no other
thread closes. Handling a message is one step with its pop, since all `OnMessage` does to others is to post a lambda.
There is one client, so its `MessageAll` sends nothing and no other client's broadcast comes in; `Server` and
`Wire` have those. The server of the repository never calls `Disconnect`. `nMaxMessages` is any
positive number; main passes `size_t(-1)`.

### NetMessage and Wire

A datum, a header or a body is the sequence of its words. A word stands for four bytes: ids and
sizes have one, a header, a challenge and a time point two, so every size of the programs is a whole
number of them, and a transfer of part of a buffer may end after any word. `Push` is `<<` (the
body grows, `header.size` is its length in 32 bits) and `Popped`, `AfterPop` are `>>`, whose offset
is a `size_t` and wraps; `PopDefined` says that the copy stays inside the body.

In `Wire`, `writing[e][w]` is an `async_write` of a validation value or of a message, with the words
its stream has consumed (`done`), and `reading[e]` an `async_read` with those it has got. `requests` are the
`async_write_some` of an end in the order they were made.

| Code | Actions |
|---|---|
| `write_op::operator()` | `Transfer` (the stream takes at most `MaxTransfer` words), `WriteContinues` (`consume`, and again), `Written` in the handlers below |
| `read_op::operator()` | `ReadContinues`, `Filled` in the handlers below |
| `ConnectToClient`, `WriteValidation`, `ReadValidation` | `ConnectToClient`, `ValidationWritten`, `ChallengeRead`, `AnswerRead` |
| `ReadHeader`, `ReadBody`, `WriteHeader`, `WriteBody` | the same names; `ReadHeader` resizes the reused temporary message |
| keys of SimpleClient | `PingServer`, `MessageAllKey` |
| `OnClientConnect`, `OnMessage` of SimpleServer | `OnClientConnect`; `Echoes` (a ping goes back as it is), `TakesOther`, `Greeting` (a broadcast made for another client) |
| an error of any operation | `OperationFails`; `Break` is the network |

Connecting, posting, and closing by the programs are `Session`'s; a `Send` and its lambda are one step
here. `OnClientConnect` runs after `ConnectToClient` because the lambda it posts does. Its write
and that of the challenge may overlap: if the first is taken in parts the second comes in between, and
`mixed` records it. No property claims anything from then on.

### Server

What `Session` says in detail of one connection is here a count: `ops[c][k]` operations of
kind `k` are outstanding on connection `c`, and a `Send` is one of them from `asio::post`
to the end of its write. In return there are several connections, and two threads that
share `m_deqConnections` without a lock.

| Code | Actions |
|---|---|
| a client connects | `Arrive` (environment) |
| `Start`, `Stop` | `Start`, `Stop` (stop the context), `Join` |
| `~server_interface` | `Destroy`: after `Stop`, the members in the reverse order of their declaration |
| accept handler | `AcceptError`, `RemoteEndpointThrows`, `AcceptVetoed` (`OnClientConnect` returns false), `AcceptConnection` (up to `push_back`), `ConnectBack` (the first `back()`, with `ConnectToClient`), `AnnounceBack` (the second, with `GetID`, and the acceptor again) |
| handlers of a connection | `ChallengeWritten`, `ReadValidation`, `ReadMessage`, `SendCompletes`, `OperationFails`, `HandlerOfDestroyed` |
| `OnMessage` of SimpleServer | `SendPingBack`, `OnMessageAll` |
| `MessageClient` | `SendPingBack` (connected), `MessageClientClosed` |
| `MessageAllClients` | `VisitConnected`, `VisitClosed`, `VisitNull` (one element of the loop), `BroadcastEnds`, `SweepRemove`, `SweepErase` (the two halves of `erase(remove(...), end())`) |

The accept handler is split in three, before each of its calls of `m_deqConnections.back()`: between
`push_back` and the first, and between the two, the other thread can change what `back()` finds. `MessageClient` has no caller in the repository; `ReplyWith` says which of
`Send` and `MessageClient` answers a ping, so that the library's method is checked as well.

A connection object lives while a `shared_ptr` to it exists (`Alive`): in the registry, in
a queued message, in the message being handled. Handlers capture `this` only, so one of
them may find its object destroyed; the program then ends or goes on, by chance.

The race on `m_deqConnections` is undefined behaviour in C++. The model takes
`push_back`, one visit of the loop, `std::remove` and `erase` as atomic and lets each
overlap give any outcome that an order of their reads and writes can give: `SweepErase`
leaves the elements pushed since `std::remove`, or none, or as many of the
tail. What a reallocation of the deque's block table under the reader's feet does is left
out, so the properties hold of the algorithm and of these overlaps, and no more.

`fault` names what ended the program: an exception nobody catches, a null or destroyed
connection used, or a socket that outlives the context it belongs to: `m_qMessagesIn` is declared
before `m_asioContext`, so a message still in it holds its connection until the context is gone.

### Client

The main thread's `pc` follows SimpleClient: `begin`, the loop (`loop`, `send`, `last`), and
`Disconnect` (`disconnect`, `close`, `stop`, `join`). The asio thread serves `port`, asio's queue
on a Windows completion port (`win_iocp_io_context.ipp`; the projects are built with MSVC): completed
operations, posted functions and the stop event, first come first served. `stopped_` is never
reset, as nothing calls `restart()`, and the event is queued again by each `run()` it ends.

| Code | Actions |
|---|---|
| `Connect` | `ConnectThrows` (the resolver throws), `Connect` |
| keys of the loop | `Send` (the test), `PostSend`, `Quit` |
| the rest of a turn | `Poll`: one message, or leave if not connected |
| `Disconnect`, the destructor | `Disconnect` (the test), `PostClose`, `StopContext`, `JoinAndRelease` |
| `m_context.run()` | `RunBegins`, `StopEvent`, and the handlers `Connected`, `ConnectFailed`, `ReadDone`, `ReadFailed`, `PostedSend`, `WriteDone`, `WriteFailed`, `PostedClose` |
| network | `Cut`, `Completes` |

The tests of `Send` and `Disconnect` and the posts that follow them are separate steps, since
the asio thread may close the socket in between. `Serve` decrements the count of work with the
handler and stops the context when none is left. `Connected` needs the socket to be open still:
the connect operation turns a success into `operation_aborted` when it was closed meanwhile
(`impl/connect.hpp:382`). A message is a count here; that `empty`
and `pop_front` may be called one after the other is `TSQueue`'s result. After
`Disconnect` the program may call `Connect` again, as the class allows; `established` names the connections
whose handler ran while they were the client's, and the model shows that the second never
is: the leftover stop event ends the second `run()` at once.

## 3. Runs

| Run | Shows | Bounds |
|---|---|---|
| `tsqueue` | `TypeOK`, `NoPopOnEmpty`, `HandledInOrder`, `LockOrder`, `Conservation`, `IsChannel`, `NotifiedDrains`, `PushReturns`, for the server's use of the queue and for every operation with an `Update` that does not wait | 2 pushing threads, 4 messages, `Update` of 2 |
| `session_safety` | `TypeOK`, `OneMessageWrite`, `OneRead`, `Framed`, `OnlyValidatedClientsHeard`, `BodyDelivered`, `AnswersThisChallenge`, `IsChannel` | 2 messages of the client and `ServerAccept` with one challenge, the handshake and `ServerAccept` with each of the other seven; `scramble` on arguments with up to two bits set |
| `service` | `AnswersInOrder`, `RequestsAreChannel`, `PingAnswered`, `CutIsNoticed` | 2 different requests of the client (two pings, `MessageAll`), cuts up to the first ping, `Update` of 3 |
| `wire` | `TypeOK`, `SizesTrue`, `ReceivedAsSent`, `PopsWhatWasPushed`, `BuffersAreChannel` | 2 messages of the client, 1 broadcast, transfers of up to 2 words, headers of 3 sizes |
| `server` | `TypeOK`, `RegistrySound`, `NoNullVisited`, `BroadcastReaches`, `BroadcastReports`, `UniqueIDs`, `EveryoneAnswered`, `MainReturns` | 2 clients, 2 requests, `nIDCounter` one below its wrap |
| `client` | `TypeOK`, `ClosedWhenRunReturns`, `HandlersHaveConnection`, `DisconnectReturns`, `QuitsWhenCut`, `ReceivedIsHandled` | 2 calls of `Connect`, 2 reads that bring data, 1 message sent |
| `tsqueue_sleep`, `session_rejects`, `session_no_server`, `server_buffers`, `server_greeting`, `server_message_client` | one violated statement each, section 4 | |

Why the bounds are enough. A queue's behaviour depends on whether it is empty, holds one
item or more, and on Update's bound being met before or after the queue is empty: four
messages against a bound of two give each case and a second call of `Update`. The server has one pushing
thread; the second is for the mutexes, which either may hold when the other pushes. A write
chain depends on whether another message waits when one is written: two messages, with and
without a body, give both successions; more repeat them. A second write at once, a skipped
frame or a stale body all show with two. The steps compare a challenge and do nothing else with it, so the
constraint `SendsWithOneValue` gives the client's messages to the sessions of one challenge.
In `service` the client's two requests are two pings, which differ in their time, or a ping before or after a header
alone (`Requests`); `Ping1` comes first of the two, since nothing tells them apart. `Update`'s bound is above the
number of messages and never met, as with `size_t(-1)`; `tsqueue` has it met. The constraint
`Cuts` lets the connection be cut before the first ping is sent, or with one ping anywhere on its way there or
back, and, while that ping is not queued, with the main thread asleep: before the first push all that thread does is
go to sleep. `PingAnswered` promises nothing of a cut connection; that the answers and the requests keep their
order when a cut comes later is proved (section 5), and `session_safety` has cuts at any point.
In `wire` no buffer has more than two words, so a transfer of one word splits each of them and a
transfer of two does not; two messages put a ping behind another or behind a header without a body, and the
broadcast makes a message of a third length come in between. `UInt32` is 32, above every
word of the instance: each size fits its header. The run's constraint `Unmixed` stops at states where two writes have mixed: every property
of the run is about the states before, and what is mixed stays so.
With two clients a broadcast has a sender and another, either of which may be dead,
come in meanwhile, or stand before or after the other in the registry; two requests allow a
second broadcast after the sweep of a first, a ping still queued behind it, and a connection kept
alive by its message alone. `IDs` stands for the 2^32 values of `nIDCounter`:
identifiers are unique while no more clients than that were ever admitted, and
`FirstID` makes the counter wrap between the two clients, who get identifiers 15 and 0.

Two calls of `Connect` show what a `Disconnect` leaves behind and what the next `run()` makes of
it; two reads let a message follow another, or follow the close; the write chain with more than
one message is `Session`'s.

Symmetry over the messages is used in `tsqueue_sleep`, and over the clients in the three
violated statements of `Server`: no action compares them and no liveness is checked there.

Runs say `CHECK_DEADLOCK FALSE` where the system may really stop: a closed connection on
which nothing more is sent, or a queue nobody pushes to any more, with its consumer asleep.

Fairness. `TSQueue`: weak fairness of a push that has begun and of each step of a
consumer that is not asleep, since the operating system runs runnable threads; nothing
makes a producer push and no spurious wakeup is promised. `Session`: weak fairness of each
asio thread as a whole. `run()` serves completions one after the other, so no ready handler
is passed over for good; that a chunk in flight is at last readable, and that a cut is
reported, is TCP's part of it. Nothing is assumed of the programs, of
when or whether the TCP handshake succeeds, or of when the network fails. `Service`: weak fairness
of the client's asio thread, of the server's asio thread, which also has to finish a push, and of its main
thread unless it sleeps; what that thread does is then the program of the repository, no longer free. A wakeup is not promised,
so `PingAnswered` lets the main thread sleep for good, but only over a message that reached its
queue: it says that the lost wakeup of section 4 is all that can keep an answer from a connected client. `Server`: weak
fairness of the accept handler of each waiting client and of the handlers of each
connection, since `run()` serves completions in their order, and of the main thread inside
`OnMessage` and `Stop`. That the main thread takes up a queued request is not
assumed: `wait()` may sleep over one. `Client`: weak fairness of the loop, of `Disconnect` and of the
asio thread, and of an operation on a socket that is closed or cut, which asio and TCP bring to
an end.

## 4. Where the code departs from what is said of it

- `SleepsOnlyWhileEmpty` (`net_tsqueue.h:117`): `wait()` tests the queue before it takes the
  mutex of the condition variable, and a push in between wakes nobody. The server then
  sleeps over the message until the next one arrives. `NotifiedDrains` shows that the
  loss is confined to that window.
- `GenuineClientAccepted` (`net_connection.h:278`): `IsConnected` is true from the moment
  `async_connect` opens the socket, so a client may send before the handshake is over; the
  server reads the header as the answer and closes.
- `ConnectFailureNoticed` (`net_client.h:89`): a failed connect leaves the socket open and
  `IsConnected` true for good; SimpleClient's loop does not end.
- `BuffersOutliveOperations` (`asio/write.hpp:728`): the broadcast resets the last reference
  to a closed connection while its reads, writes and posted lambdas are outstanding.
- `AcceptedHasID` (`net_server.h:124`): between `push_back` and `back()` a sweep may have left
  a null pointer at the back; `ConnectToClient` is then called on it.
- `ReportedIsRemoved` (`net_server.h:157` to `159`): `MessageClient` reports a closed connection and is to
  eliminate it, but it resets its own parameter before it looks for what equals it, so the connection stays
  registered until a broadcast finds it, and reports it again. `RegistrySound` says no more of such a
  connection than that it is there at most once.

Seen in the same models, and not the subject of a run: `ServerAccept` is written
while the write of the challenge may be outstanding, which `asio/write.hpp:718` forbids (`Wire`: the
buffers stay whole as long as a write of 8 bytes is not split; and the upper bytes of a challenge and the whole of
`ServerAccept` are zero, so a split may go unnoticed); a message of size 0 is delivered with the body
of the one before; a connection pushed during a sweep may be erased with the dead ones;
a connection that closes is reported only when a later request makes the server send;
broadcasts reach connections that have not answered the challenge; a client that hangs up before its accept
handler runs makes `remote_endpoint()` throw, and the program ends.

## 5. Theorems

TLAPS proves, for all values of the constants that satisfy the named assumptions
`TSQueueAssumption`, `SessionAssumption`, `ServiceAssumption`, `ServerAssumption`, `ClientAssumption`,
`ScrambleAssumption`, `NetMessageAssumption` and `WireAssumption`:

| Theorem | Statement |
|---|---|
| `TSQueueProofs!TypeCorrect` | `Spec => []TypeOK` of TSQueue |
| `LocksOrdered` | `Spec => []LockOrder`, any threads and operations |
| `NeverPopsEmpty` | `OneConsumer => (Spec => []NoPopOnEmpty)` |
| `AlwaysInOrder` | `Spec => []HandledInOrder`: order for every use that is `FirstInFirstOut`, any threads |
| `QueueIsChannel` | `Spec => IsChannel`: for those uses, the refinement of `Channel` |
| `NothingLost` | `Spec => []Conservation`, any threads and operations |
| `OneWriteAtATime` | `Spec => []OneMessageWrite` of Session, any messages and any bound |
| `OneReadAtATime` | `Spec => []OneRead` of Session |
| `OnlyValidated` | `Spec => []OnlyValidatedClientsHeard` of Session, any scramble |
| `SessionProofs!TypeCorrect` | `Spec => []TypeOK` of Session |
| `AlwaysFramed` | `Spec => []Framed` of Session, any messages and any bound |
| `AlwaysBodyDelivered` | `Spec => []BodyDelivered` of Session |
| `SessionIsChannel` | `Spec => IsChannel` of Session: each direction refines `Channel` |
| `ServiceIsSession` | `ServiceSpec => Spec`: Service implements Session |
| `ServiceIsTSQueue` | `ServiceSpec => Queue!Spec`: it implements TSQueue, with one producer and one consumer |
| `ServiceTypeCorrect` | `ServiceSpec => []ServiceTypeOK`, any messages and any bound of `Update` |
| `RequestsKeepOrder` | `ServiceSpec => RequestsAreChannel`: from `Send` to `OnMessage`, the refinement of `Channel` |
| `AnswersKeepOrder` | `ServiceSpec => []AnswersInOrder`: the round trip |
| `ServerProofs!TypeCorrect` | `Spec => []TypeOK` of Server, any set of clients |
| `RegistryKept` | `Spec => []RegistrySound` of Server |
| `NoNullInTheLoop` | `Spec => []NoNullVisited` of Server |
| `BroadcastDelivers` | `Spec => []BroadcastReaches` of Server |
| `BroadcastFindsTheClosed` | `Spec => []BroadcastReports` of Server |
| `IdentifiersUnique` | `Spec => []UniqueIDs` of Server, when there are no more clients than identifiers |
| `ClientProofs!TypeCorrect` | `Spec => []TypeOK` of Client, any bounds |
| `HandlersKeepConnection` | `Spec => []HandlersHaveConnection` of Client |
| `ServerSeesClientGo` | `Spec => []ClosedWhenRunReturns` of Client |
| `ScramblesByPairs` | `scramble` equals its reference definition, any argument |
| `OneChallengeAnswered` | the answer to a challenge is that of no other value below 2^56, and not the challenge itself |
| `ChallengeAnswered` | `Spec => []AnswersThisChallenge` of Session, when `Scrambled` is `scramble` and the validation values are challenges of a server (`ScramblesChallenges`, what the code does) |
| `WireProofs!TypeCorrect` | `Spec => []TypeOK` of Wire, any words, transfer size and bounds |
| `SizesAlwaysTrue` | `Spec => []SizesTrue` of Wire, when the answer is no header (`AnswerIsNoHeader`) |
| `ReceivedInOrder` | `Spec => []ReceivedAsSent` of Wire, likewise |
| `WireIsChannel` | `Spec => BuffersAreChannel` of Wire, likewise: each direction refines `Channel` until two writes of an end mix |
| `PingsComeBack` | `Spec => []PopsWhatWasPushed` of Wire, likewise: the n-th ping that comes back is the n-th sent |
| `SizeTrueWhileItFits` | after `<<`, `header.size` is the length of the body just when that length fits it |
| `PopDefinedWhenLongEnough` | `>>` stays inside the body just when the body is as long as the datum |
| `PopUndoesPush` | `>>` gives back what `<<` put in last, and the message it was put in |

The arguments. `TypeOK` of the queue is not inductive: that the counter stays within its
bound depends on the test before the pop, so `Typed` adds `CountBelowBound`. `LockOrder`
follows from `Locking`, which says for each mutex where its holder may stand. `NoPopOnEmpty`
is inductive once there is one consumer: producers only add, and the consumer cannot be
at two places. That is the reason the code may call `empty` and `pop_front` separately;
with a second consumer TLC finds the counterexample. `HandledInOrder` is inductive and gives
the refinement: a push is a `Send` of the channel, a pop its `Receive`. `Conservation` counts, so
it needs `Separate`: an item is in the deque at most once and was not cleared before. Then `clear` adds to
`dropped` exactly as many items as the deque holds.
`OneMessageWrite` is inductive together with `NothingBeforeSocket`: `PostedSend`
decides from the queue alone, so a queue filled before the socket is there would never be
written.

The reads of Session take `ReadChain`. `OneRead` alone is not inductive: the handler of
`WriteValidation` starts a read without looking, so the client must have none while that write is
outstanding (`OneReader`), and the server's end must be untouched before it is accepted
(`NothingBeforeAccept`). That only validated clients are heard follows from which read is
outstanding (`HeardOnceValidated`). `ChallengeFirst` orders the handshake: the challenge is the first
chunk the client reads, and no answer is on its way before.

`Framed` takes `Frames`, which relates both ends and the stream. What is on its way to an end,
after the validation value it may still await, is a sequence of headers followed each by its
body (`Aligned`), starting with the body the reader is waiting for (`First`) and ending where the writer at
the other end is (`BodyDue`); with one write at a time (`WriteChain`) what a
writer adds is what is due. Two cases lie outside: an end that will never read again, and a client that
sends before it answered the challenge, whose header the server takes for the answer
(the finding on `GenuineClientAccepted`): there the first chunk is no
validation value, the server rejects it and reads no more. `BodyDelivered` is a part of `Frames`,
since the temporary message is only right if the stream is. TLC
confirmed `ReadChain` and `Frames` on the instance of `session_safety` before they were proved.

`IsChannel` of Session takes `Numbering`. Of the messages given to `Send` in one direction, the first p
have been written and popped, the first q have reached `m_qMessagesOut`, and the first w are whole on the stream. The
queue and the lambdas still posted are the stretches of `sent` that follow (`Outbox`); the chunks on their
way to an end that still reads are the messages from the one after those it has received to the w-th, a header with a
body counting only when its body is there (`Stream`); and while the writing end can send, w is p, or p + 1 when the last chunk of
the front message has been handed over and its handler has not run (`Written`). With `WriteChain`, `ReadChain` and `Frames`
each step then is a `Send`, a `Receive` of the very next message, or changes neither history. TLC confirmed it
for both directions before it was proved.

Every step of Service is a step of Session or leaves its variables alone, and likewise for the queue, so
`ServiceIsSession` and `ServiceIsTSQueue` need no invariant: whatever is proved of Session then holds of Service,
and is used below. (The prover cannot use a theorem about `TSQueue` for an instance of it, so
`QueueTyped` and `Backlog` say of the queue here what is needed.) `RequestsKeepOrder` joins three orders. `InTurn`, from the refinement step of
`SessionIsChannel`: what an end has received is what its peer sent, place by place. `Backlog`: the numbers handled,
then those queued, are 1, 2, 3 up to the number of messages read. `HandledFirst`: so what OnMessage was given, in order, are the
first messages read. A step of `ServiceNext` is then a `Send` of the channel, a `Receive` of the very next message
when a number is popped, or changes neither. `AnswersKeepOrder` adds
`Answered`: what the server's program has given to `Send` is `ServerAccept` and then the pings among the messages
handled, one for one (`Answers`, by counting). The client's messages are a prefix of that by `InTurn`, with their bodies by
`BodyDelivered`, and the handled ones a prefix of the client's own.

In Server, one invariant carries the first five theorems (`RegistryKept` adds `ReportedClosed`: what
`MessageClient` has reported is closed and stays so). `Started` says that only an accepted
connection has operations or messages. `Registry` says where each connection is: no two places of the deque hold
the same one, a registered one was opened, a dropped one is closed, and an opened one is
registered, dropped, lost or destroyed. `Swept` is about the null pointers that
`MessageAllClients` leaves in the deque until its `std::remove`: while the loop runs they
stand only behind its cursor (`Visits`), while the `erase` runs they stand exactly in the tail it is about to
erase (`Erases`), and outside of both there are none unless two `erase`s raced (`lost`).
`Broadcasting` says that every connection of the audience is still ahead of the cursor, was
closed, or was reached once. That `SweepRemove` keeps every connection that is left is a
count: it numbers the kept places from 1 without a gap (`AllPlacesKept`, by the pigeonhole
theorem of the library), and a racing `erase` is the case `ErasedTail`. TLC confirmed the invariant with
two clients before it was proved. `IdentifiersUnique` takes `Numbered`: the serial number of a
connection is the count of `ConnectToClient`s before it, and the counter of identifiers is that count
modulo `IDs`; of the connections accepted at most one has not been there yet (`Unnumbered`). The hypothesis is needed: the code's `uint32_t` counter wraps without a test.

In Client, `TypeOK` is not inductive: that `WriteDone` never takes the count of
`m_qMessagesOut` below zero needs `WriteChain` (a write that is outstanding, or whose handler waits
in the port, is the only one, and its message is in the queue). `Released` says that nothing is
ever destroyed, since `Connect` is reached with no connection owned; `HandlersHaveConnection`
follows. `ClosedWhenRunReturns` takes the invariant `Closing`: a connection that is established
and open has a read outstanding or its handler waiting, and the thread serving (`ReadChain`), so the
context cannot run out of work under it; a stop event in the port either lies ahead of everything
that concerns the connection, which then is never established, or behind the posted close
(`StopEvents`), because `Disconnect` posts the close before it stops (`ClosePosted`); `Numbered`
keeps the entries of different connections apart. TLC confirmed `Closing` before it was
proved.

The theorems about `scramble` go digit by digit: `MaskDigits` says what the two masks keep,
`SwappedDigits` what the shifts make of it, and the reference definition follows; that it is one to one below
2^56 is read off the reference. Digits are sets of bits, so the bitwise operators are those of sets and no
recursion is needed. The theorems about `>>` rest on the arithmetic of one wrap (`ModSmall`, `ModNegative`).

`AnswersThisChallenge` carries this into the handshake with the invariant `Agreed`: while the client has not
read its challenge, the chunk at the front of the stream is the challenge of this connection, whatever is sent
behind it, and what the client has answered is scrambled from it. It rests on `ReadChain`, which says that
nothing gets in front of the challenge. TLC confirmed `Agreed` before it was proved.

`TypeOK` of Wire says that no operation moves past the end of its buffer. It takes `Typed`: an end has
one request for each write that is under way and none for others (`WriteIs`), the queue of
messages is what is left of the messages given to `Send` (`Outbox`), and which end reads or writes its validation when
(`Handshake`).

The other theorems of Wire hold while `mixed` is empty, and rest on `Sound`, which describes one direction
at three levels. `Flow`: the buffers begun, end to end, are one stretch of words; the buffers the reader has filled are the
first of them, and what it has got of the next one, with what is in the stream, is what follows of the
stretch up to the words not taken yet. `Pending`: those belong to the last buffer begun, or to the last two of
which the first is under way and the other untouched; so a transfer takes the next words of the stretch, or it
mixes. `Layout`: the buffers are the validation value and then each message sent, as a header and, unless that is
empty, a body (`Laid`), the writer stands at the last (`Writer`), and the reader is waiting for exactly what comes next, in kind and
size (`Reader`). The level above needs the one below, and `Flow` needs `Layout` back: a handler fills
exactly the next buffer only because the reader asks for as many words as that buffer has. `Received` compares
the messages; with `Known`, what each program can say, it follows that a ping sent back out of the
reused `m_msgTemporaryIn` has the body it came with. One case lies outside of `Laid`: a client that sends before it
was asked for its validation, whose first buffer is a header. The server then rejects it, unless the words of
that header are those of the answer. The code does not exclude this, since scramble may give any value
there, so the theorems have the hypothesis `AnswerIsNoHeader`: the answer to the challenge of this
connection is not the header of one of the client's messages, two or so values of 2^64. TLC confirmed the
invariant on the instance of `wire` before it was proved.

`PingsComeBack` adds to `Sound` that the pings the server has given to `Send` are those among the messages it has handled, one for one and in order
(`PingsSentBack`, by counting the pings up to a place: a selection of a sequence would be recursive and
out of the prover's reach), and that what comes between them, `ServerAccept` and greetings, are no pings. Both
directions of `ReceivedAsSent` then compose.

Only model-checked: all liveness (`NotifiedDrains`, `PushReturns`, `PingAnswered`,
`CutIsNoticed`, `EveryoneAnswered`, `MainReturns`, `DisconnectReturns`, `QuitsWhenCut`, `ReceivedIsHandled`), since it
needs fairness. Every safety property of a passing run is a theorem.

## 6. Not modelled

A second `Connect` without a `Disconnect` (it assigns to a joinable `std::thread`, which
terminates the program), and failures for want of memory or threads.
Printing and the keyboard; resolving host names; the HTTP experiment
(`CentOS_Proyect-Asio-App`), which shares no code with the library; build files; asio beyond the
parts named above: its other services, timers, buffers and executors do nothing the properties could
tell apart, and they are most of its lines. `front`, `back` and `count` of the queue
only read and are not called.

## 7. What is left

1. Several clients end to end: `Service` has one connection in detail, `Server` many of them as counts. A
   composition would follow a broadcast from one client's `Send` to the others' `OnMessage`.
2. `PingAnswered` at a client whose loop takes the answer out: `Client` has that loop with messages as counts.
