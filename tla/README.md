# Formal models of the bomberman bot and its socket.io client

The repository holds a bot for a bomberman game (`src/codefest/codefest-2023`) and the
libraries it is built from.  `codefest-2023.vcxproj` compiles the bot together with the
sources of the socket.io client (`src/codefest/lib/socketio`), which sits on vendored
header libraries (websocketpp, asio, rapidjson; catch is there for tests).  The core logic
of the program is the socket.io client: two threads, a connection that comes and goes,
timers, a queue.  That client, the bot's `main`, and the two vendored parts whose behaviour
over time the client lives on (a websocketpp connection and asio's event loop as Windows
has it) are what this project models.

Line numbers are those of

* `sio_socket.cpp` — `src/codefest/lib/socketio/sio_socket.cpp`
* `sio_client_impl.cpp` — `src/codefest/lib/socketio/internal/sio_client_impl.cpp`
* `sio_packet.cpp` — `src/codefest/lib/socketio/internal/sio_packet.cpp`
* `main.cpp` — `src/codefest/codefest-2023/main.cpp`
* `connection_impl.hpp` — `src/codefest/lib/websocketpp/websocketpp/impl/connection_impl.hpp`
* `endpoint.hpp` — `src/codefest/lib/websocketpp/websocketpp/transport/asio/endpoint.hpp`
* `win_iocp_io_context.ipp` — `src/codefest/lib/asio/asio/include/asio/detail/impl/win_iocp_io_context.ipp`

## Inventory

| Component | State | Operations | Threads | What makes it correct |
|---|---|---|---|---|
| `sio::socket::impl` (`sio_socket.cpp`) | `m_client`, `m_connected`, `m_connection_timer`, `m_packet_queue`, `m_acks`, `m_event_binding` | `emit`, `close`, `on`/`off`, `send_connect`, `send_packet`, `on_open`, `on_connected`, `on_message_packet`, `on_disconnect`, `on_close`, `timeout_connection`, `ack` | any application thread; the network thread | a packet is written once or given up for a reason; order; nothing before the namespace handshake; a closed socket stays closed; a handshake and a close end |
| `sio::client_impl` (`sio_client_impl.cpp`) | `m_con_state`, `m_con`, `m_network_thread`, `m_reconn_timer`, `m_reconn_made`, `m_sockets` | `connect`, `close`, `sync_close`, `socket`, `send`; `run_loop`, `connect_impl`, `close_impl`, `send_impl`, `timeout_reconnect`, `on_open`, `on_fail`, `on_close`, `on_handshake`, `on_decode`, `on_encode` | the application's; the network thread | one connection at a time; state agrees with the connection; a lost connection is retried; `sync_close` returns and closes |
| the bot (`main.cpp`) | `_lock`, `_cond`, `connect_finish`, `current_socket`, `count` | `main`, `connection_listener`, `join_room`, `bind_events` and its two handlers | main; the network thread | main is woken; joins before moves; no waiting for `_lock`; no connection is left when the program has ended |
| packet codec (`sio_packet.cpp`) | `m_partial_packet`, a packet's pending buffers | `parse`, `parse_buffer`, `accept`, `encode`, `put_payload` | `encode` on any thread | what is encoded is decoded; attachments belong to their packet |
| messages (`sio_message.h`) | trees of values | constructors, `accept_message`, `from_json` (in `sio_packet.cpp`) | – | what is written is read back, attachments in their places |
| facade (`sio_client.cpp`) | – | forwards to `client_impl` | – | – |
| game data (`Game.cpp`, `Map.cpp`, …) | the map | `updateMap`, `getSizeCols`, … | the network thread, under `_lock` | – |
| a websocketpp client connection (`connection_impl.hpp`, `endpoint.hpp`) | `m_state`, `m_internal_state`, `m_handshake_timer`, `m_send_queue`, `m_write_flag`, `m_current_msgs` | dialling, opening handshake, `send`, `close`, reading, writing, closing handshake, `terminate` | the network thread | fail or open once, close once after open; frames in order; no frame and no handshake waits for ever |
| asio's event loop on Windows (`win_iocp_io_context.ipp`) | `outstanding_work_`, `stopped_`, `stop_event_posted_`, `dispatch_required_`, the completion port, `completed_ops_`, the timer queues | `run`, `do_one`, `stop`, `restart`, posting, timers, overlapped operations | those in `run()`, any that posts, the timer thread | `run()` ends when there is no work, and then does; no operation twice; no timer slept through |
| rapidjson, catch | vendored | – | – | – |

How they interact.  `main` calls `client::connect`, which starts the network thread
(`run_loop`, 215-222).  That thread runs everything else: the websocket's handlers
`on_open`, `on_fail`, `on_close`, `on_message`, which call the sockets' `on_open`,
`on_disconnect`, `on_message_packet`, which call the bot's event handlers; and the
io_service's handlers (`connect_impl`, `close_impl`, `send_impl`, the timers).  A call of
`io_service::dispatch` runs its handler at once on the network thread and queues it from
any other.  The bot's listeners meet `main` at `_lock`, `_cond` and `exit(0)`.

What is hard: only `m_packet_queue`, `m_acks`/`m_event_binding` and the table of sockets
have mutexes; `m_con_state`, `m_connected`, `m_client` and the timers are plain members of
both threads, tested in one step and acted on in another.  A timer that expired just before
it is cancelled runs all the same.  The connection comes and goes between any two steps.
The complete list is in `PROJECT.json` (`hazards`), each at its line.

## Modules

| Module | Models |
|---|---|
| `PacketFate` | abstract: what a socket promises of each packet |
| `SioSocket` | the outgoing half and the life of one socket, step by step, for any set of threads |
| `MCSioSocket` | instance for TLC (symmetry of the application threads) |
| `SioSocketProofs` | theorems about `SioSocket`: its properties one at a time, and that it implements `PacketFate` |
| `SioClient` | `client_impl`'s connection life cycle: application thread, network thread, reconnection |
| `SioClientProofs` | theorems about `SioClient` |
| `GameClient` | `main.cpp` composed with `SioClient` (`Client == INSTANCE SioClient`) |
| `GameClientProofs` | theorems about `GameClient` |
| `SioMessage` | messages: trees of values |
| `SioJson` | `accept_message` and `from_json`: messages and their JSON |
| `SioPacket` | the packet codec and the reassembly of packets from frames, for any JSON codec |
| `MCSioPacket` | instance for TLC: `SioPacket` with `SioJson`'s `accept_message` and `from_json` |
| `SioPacketProofs` | theorems about `SioPacket` |
| `SioEmit` | `emit` with acknowledgement callbacks and attachments, from several threads to the server and back |
| `SioEmitProofs` | theorems about `SioEmit` |
| `WsLink` | abstract: what websocketpp promises of a client connection |
| `WsConnection` | one client connection of websocketpp: dialling, handshakes, frames, timers |
| `WsConnectionProofs` | theorems about `WsConnection` |
| `IocpContext` | asio's event loop over a Windows completion port |
| `IocpContextProofs` | theorems about `IocpContext` |
| `Elements` | lemmas about sequences that the proofs share: the elements of a sequence, and sequences ordered by a relation |

In each module a definition marked "a variant" in its comment is a plausible wrong version
of the definition below it; it is not part of `Next` and is there to show that the
properties notice the mistake.

### SioSocket

| Variable | Code |
|---|---|
| `connected`, `client`, `queue` | `m_connected`, `m_client # NULL`, `m_packet_queue` |
| `timer`, `waits` | `m_connection_timer # NULL`; the waits pending on it, by handler: `"connect"` (20 s, `timeout_connection`), `"close"` (3 s, `on_close`) |
| `conState`, `epoch` | `client_impl::m_con_state` as `send_impl` sees it, and which connection it is about |
| `ready` | the io_service's queue |
| `pc`, `pkt`, `front`, `calls` | where each thread is, `p` and `front_pack` of `send_packet`, packets issued |
| `wire`, `dropped`, `refused`, `acked` | history: written frames, packets given up, packets websocketpp refused, connections with a confirmed namespace |

A call is cut at the accesses to members another thread may change: `NULL_GUARD`
(`SendGuard`), the test of `m_connected` (`SendBranch`), each critical section of the queue
(`PushPacket`, `FlushPop`, `DrainPop`), each `m_client->send` (`FlushSend`, `DirectSend`,
`DrainSend`), and in `close()` the test of `m_connection_timer`, the `m_client` dereferenced
for the io_service, the `reset`, `expires_from_now` and `async_wait` (`TestTimer`,
`ReadService`, `ResetTimer`, `SetExpiry`, `WaitClose`; 288-294).  `on_close` is four steps
(`ForgetClient`, in the action that calls it; `CloseTimer`, `CloseDisconnected`, `CloseClear`),
`on_connected` two and its loop (`OnConnected`, `SetConnected`), `timeout_connection` two
(`TimeoutConnection`, `TimeoutClose`), `on_disconnect` two.  Dereferencing a null `m_client` or
timer is the state `"crashed"`, after which nothing happens.  Reading a `bool` or a pointer
without a lock is taken to return a value that some thread wrote; assigning a timer while
another thread uses it is taken to happen before or after that use.

Some accesses share a step because no other thread can tell.  `close()` tests `m_client` and
`m_connected` in one: whatever the network thread does between the two tests, there is an
instant at which both come out as they did.  `send_connect` makes and arms its timer in one: what
it meets is a `close()` whose steps lie before or after.  Cancelling a timer and resetting the
pointer are one (`DropTimer`): either of them completes the waits, and a null pointer found in
between is found after as well.  Two closing waits that are pending together are one element
of `waits`: the second `on_close` finds `m_client` NULL.

`send_impl` may find that websocketpp refuses the packet although `m_con_state` is
`con_opened`: the websocket is closing already, or a text is not UTF-8
(`connection_impl.hpp:112-114`, 134-138).  `SendImpl` lets that happen at any time; the packet
goes to `refused`.

`client_impl::on_open` and a socket's `send_connect` are one step, because nothing of the
socket changes between them.  The connect packet itself is left out: if it is dropped or
refused, the server just does not confirm the namespace, which it may also do for no reason.  `emit` from a listener is a call of the network thread between
two handlers; `close()` is called by application threads only.

### SioClient

| Variable | Code |
|---|---|
| `conState`, `session` | `m_con_state`; `m_con` refers to a connection |
| `link` | the websocket as websocketpp has it: none, connecting, open, or closing with the normal code (`"closing"`) or another (`"aborting"`) |
| `timer`, `made` | `m_reconn_timer`, `m_reconn_made` |
| `thread`, `net`, `ready` | `m_network_thread`, where it is in a handler, and the handlers queued |
| `user`, `uriOk` | where the application is in `connect`, `close`, `sync_close`; whether websocketpp accepts the address |
| `clean`, `gen` | history: the last close found a quiet, open connection; number of the `connect` in effect |

Every handler that tests `m_con_state` and sets it later is two actions (`OnFail`/`OnFailed`,
`OnOpen`/`OnOpened`, `OnClose`/`OnClosed`, `TimeoutReconnect`/`Reconnect`), so the
application's `close` and `connect` can come between.  The close code `on_close` reads is
any of websocketpp's: the client's own, the one the peer sent, or "abnormal" when the
closing handshake failed.  websocketpp refuses the code 1006 with which `on_decode` answers a
close frame of the server (564), so that handler has no effect on the connection and is no
action here.  The sockets' own reaction to these events is `SioSocket`'s business.

### GameClient

`main` (165-259) is a program counter; `_cond.wait` is three steps: release and wait, be
woken (by `notify_all` or for no reason), take `_lock` again.  The listeners replace
`Client!ListenerReturns`: `on_connected` needs `_lock` and notifies, `on_close` and
`on_fail` end the process.  An event handler is one step under `_lock`; events are well
formed.  An event that arrives before `bind_events` has no listener and is lost.  What is
emitted is recorded in `sent`; `SioSocket` says what becomes of it.  `Patience` stands for
the 20 of `count++ > 20`.

### SioPacket

`accept` writes a text, here a sequence of tokens: frame, type, number of attachments,
dash, namespace, comma, id, JSON.  `parse` searches that sequence as the code searches the
string (`Find` is `find_first_of`), with its positions, early returns and defaults, so that
reading is not the inverse of writing by definition.  `put_payload` is three alternatives by
the first byte of a frame: text, attachment, anything else; `partial` is `m_partial_packet`.
`sent`, `complete`, `due` and `decoded` are histories: packets sent, packets all frames of
which came, those of them whose attachments `put_payload` recognises, and what the sockets
were given.
The server sends packets as `accept` and `encode` write them (it is not in the repository;
this is the format `parse` is for), frame by frame, with pings anywhere and the connection
lost at any time.  Attachment `k` of packet `n` is `<<n, k>>`, and a message knows its
packet, so nothing can be mixed up unnoticed.  Attachments are of three kinds: beginning
with the byte 4, with the digit 4 (taken for a text), with something else.  The code parses
an attachment of the latter two kinds as a text, whole; `Misread` keeps of it the frame and
type that make `on_decode` ignore the result.  Left out are the bytes with which it would not be
ignored: the digit of another engine frame (0, 1, 2: a handshake, a close, a ping), a digit 4
followed by the digit of a type (a message the socket would be given), and a number that is
none, for which `std::stoi` (`sio_packet.cpp:324`) or `std::stoul` (286) throws and, uncaught on the
network thread, ends the process.  Packets of type error are not sent either, nor
placeholders other than those `accept` writes, so that a placeholder whose number is out of range
(161) does not occur.

### SioMessage and SioJson

The JSON token of `SioPacket` is a tree: what rapidjson makes of the text.  `AcceptMessage`
writes a message into it and sets the binary leaves aside, a numbered placeholder in the
place of each; `FromJson` reads a tree and the attachments that came with it.  Both are
recursive, so `SioPacket` takes them as constants (`WriteMessage`, `ReadMessage`) and says in
`JsonAssumption` what it needs of them: attachments are set aside in order, and reading what was written gives the message
back.  `MCSioPacket` gives it those of `SioJson`, and TLC evaluates the assumption with them,
for an array and for an object with the attachments one level deeper.  Every message has a
number that needs a uint64, which `from_json` turns into a null pointer (187): `IsInt64` and
`IsDouble` are false of it.

### SioEmit

| Variable | Code |
|---|---|
| `nextId`, `acks` | `s_global_event_id` (starting anywhere: it is static), `m_acks` |
| `open`, `connected`, `queue`, `ready` | `m_con_state = con_opened`, `m_connected`, `m_packet_queue`, the io_service's queue |
| `writable` | websocketpp's `m_state` is open: it takes frames and hands messages on |
| `pc`, `pkt`, `frames` | where a thread is in `emit` or `on_connected`, its packet, the frames `encode` has still to hand over |
| `partial`, `owed` | the server: the packet it is putting together, the packets it has to answer |
| `calls`, `ids`, `decoded`, `answered`, `lost` | history; `lost` has the packets that went with a connection, were refused, or were given up by the server |

`s_global_event_id++` is two steps, a read and a write, as no lock is held (257).  A packet
goes to the network thread frame by frame (`HandOver`: `on_encode`, 575-579), so that frames
of two threads may alternate.  A frame is forgone when `m_con_state` is not `con_opened`, when the
websocket has begun to close (`BeginClosing`, while `m_con_state` still says open), or, a text
only, when websocketpp finds it is not UTF-8: `send_impl` logs the error and goes on
(298-301).  `send_packet` queues or takes a packet in one step; its own
steps are `SioSocket`'s.  The server is external: it puts frames together as
`put_payload` does and answers each packet with an id of at least 0 once.  `MaxInt` is the
largest `int`: `UInt`, `ToInt` and `Ids` are what `unsigned` and `int` hold and how the
one becomes the other; the theorems hold for ints of any size.

### WsConnection

| Variable | Code |
|---|---|
| `state`, `istate` | `m_state`, `m_internal_state` (`TRANSPORT_INIT` is passed within one step) |
| `timer` | the timers of the resolver, of the connect, and `m_handshake_timer` in its two uses: off, waiting, or fired with the handler queued |
| `dial`, `reading`, `writing` | the transport's pending operations |
| `more` | `handle_read_frame` is in its loop: the handlers it calls may send and close |
| `queue`, `current`, `flag`, `posts` | `m_send_queue`, `m_current_msgs`, `m_write_flag`, posted `write_frame`s |
| `calls`, `accepted`, `written` | history |

One action per handler; everything runs on the one network thread, so a handler is a step,
but for `handle_read_frame`, which is one step per frame.  What a handler is given is the
environment's choice: success, an error, an end of stream; of the server's bytes only what
`consume` makes of them matters.  A timer that has fired is not cancelled.  With plain TCP
`async_shutdown` calls back at once, so `terminate` and `handle_terminate` are one step.
The reading pause, HTTP bodies, the ping timer and proxies are not used by the client.

### IocpContext

`codefest-2023.vcxproj` builds for Windows, where `io_service` is `win_iocp_io_context`.
Interlocked operations are one step each (`Stop`, `StopFlag`, `StopPost`; `Acquire`;
`StopReset`, `StopCheck`), critical sections of `dispatch_mutex_` one step (`Dispatch`,
`ScheduleTimer`, `CancelTimer`).  `pc`, `arg`, `ret` say where a thread is, with which
operation, and where `stop()` or a posting returns to.  `port` is the completion port,
first in, first out; `waits` the timer queues with times, `due` when the waitable timer
signals, `timer` the thread that waits for it.  `PostQueuedCompletionStatus` may fail up to
`MaxFails` times (`PostDeferred`), and the operation goes to `completed_ops_`.  An overlapped
operation may be over before `on_pending` is called (`TransferDone`, `OnPending`, `GetOp`).
Each timer has one wait at a time, as all of websocketpp's and the client's have.

## What is checked

Each passing property is accompanied in `PROJECT.json` by a variant of the code that breaks
it.  Runs with `CHECK_DEADLOCK FALSE` are those of systems that really may stop: calls are
used up, the network thread has ended, or the process has exited.

| Run | Bounds | Properties |
|---|---|---|
| `sock_order` | 1 application thread + network thread, 2 packets each, 2 connections | `TypeOK`, `ImplementsPacketFate`, `StrandedPerThread`, `OrderPerHandler`, `HandshakeFirst`, `ClosedIsFinal` |
| `sock_live` | 1 + 1 threads, 1 packet each, 2 connections | `HandshakeResolves`, `CloseCompletes` |
| `client` | 3 connects, 2 attempts, closes while fewer than 3 handlers wait | `TypeOK`, `StateAgrees`, `OneConnection`, `NoStaleClose`, `CleanCloseReturns`, `LostIsRetried` |
| `bot` | 1 connect, 2 attempts, patience 1, 3 events, 1 key | `TypeOK`, `JoinsFirst`, `EndsDisconnected`, `HandlersNeverWait`, `OpenWakesMain`, `CleanQuitEnds` |
| `packet` | 2 packets, 2 attachments each, 2 connections, 2 namespaces, 2 shapes of message | `TypeOK`, `DecodesExactly`, `PartialIsCurrent` |
| `emit` | 2 + 1 threads, 2 packets, 2 attachments each, 2 connections, ids of 2 bits | `TypeOK`, `OwnCallback`, `AtMostOnce`, `AwaitedOrLost`, `MixedOnlyAcrossThreads` |
| `ws` | 1 frame of the client, 2 of the server, any close code | `TypeOK`, `QueueIsServed`, `InOrder`, `TerminalIsLast`, `ImplementsWsLink`, `AttemptEnds`, `ClosingEnds` |
| `iocp` | 2 threads in `run()` and 1 that posts, 2 operations, times 0 and 1, 1 failure | `TypeOK`, `WorkCounted`, `StopEvents`, `NeverOverslept`, `Completes` |

* `ImplementsPacketFate`: `SioSocket` implements `PacketFate` under the mapping `Fate`: a
  packet handed over is held (by a thread, the queue or the io_service) until it is written
  once, refused once by websocketpp when it would be written, or given up once, and it is
  given up only when the connection is not open or the socket closed.  Two threads emptying
  the queue at once lose and repeat nothing.
* `StrandedPerThread`: the unlocked test of `m_connected` can leave a packet in the queue of
  a connected socket until the next `emit`; it can leave at most one per thread.
* `OrderPerHandler`: packets of one thread that the same thread hands over keep their order.
  Plain order per sender does not hold: what the network thread drains is written at once,
  what the sender posts itself waits in the io_service's queue.
* `HandshakeFirst`: nothing is written before the server confirmed the namespace on this
  connection, except by a `send_impl` posted on an earlier, confirmed one: `send_impl` looks
  only at `m_con_state`.
* `ClosedIsFinal`: no call under way when `on_close` runs leaves the socket connected or a
  connection timeout pending, and the queue of a closed socket gets at most one packet of each
  thread, one that had passed `NULL_GUARD` before.  A timer may be left on it: when `on_close`
  overtakes a `close()` between its test of `m_connection_timer` and the `reset` (288-290), a new
  one waits for another `on_close`, which finds `m_client` NULL and returns.
* `HandshakeResolves`, `CloseCompletes`: the one timer that serves opening and closing never
  leaves either pending.  The second holds because `on_close` is bound without its error
  code, so a cancelled closing timer runs it too.
* `OneConnection`, `NoStaleClose`, `StateAgrees`: see their comments; they are about
  `connect` and `close` racing the reconnection timer and handlers already queued.
* `LostIsRetried`: from the handler that hears of the loss, over the timer, to the next attempt.
  It leaves out what the application itself undoes: a pending or begun call.
* `CleanCloseReturns`, `CleanQuitEnds`: for a close that finds the connection established
  and no handler running; otherwise see `client_sync_close` below.

* `EndsDisconnected`: when the program has ended, by `main`'s return or by a listener's `exit(0)`,
  no connection is left.  It says nothing of a program that runs: that may be without one before
  it connects, after a spurious wake-up and between attempts.
* `JoinsFirst`, `EndsDisconnected`, `HandlersNeverWait`, `OpenWakesMain`: the bot's two threads
  at `_lock`, `_cond` and `exit(0)`, whatever the connection does meanwhile.  `JoinsFirst` is
  about the whole run of the program: after a reconnection the bot does not join again.
* `DecodesExactly`: the sockets are given exactly the packets that arrived whole and whose
  attachments begin with the byte 4, in order and unchanged.
* `PartialIsCurrent`: `m_partial_packet` never survives the connection it began on.
* `OwnCallback`, `AtMostOnce`: an answer finds the callback of the packet it answers although
  `m_acks` outlives connections; only two threads that take one id at a time break it, and
  even then no callback is called twice.
* `AwaitedOrLost`: a callback that is never called has a reason: its packet or the answer went
  with a connection, a frame was refused by the websocket, its frames met another thread's, or
  its id was negative, which the server takes for none (`unsigned` to `int` after 2^31 emits).
* `MixedOnlyAcrossThreads`: attachments end up in another packet only when two threads
  hand over packets at once, never by a reconnection in the middle of one.
* `ImplementsWsLink`: the refinement of `WsLink`; the calls `SioClient` expects of websocketpp.
  Timers that have fired when the awaited result comes are what makes it hard.
* `QueueIsServed`, `InOrder`, `TerminalIsLast`: sending, while writes are under way, frames
  are queued and the closing handshake is begun by either side or by both.
* `AttemptEnds`, `ClosingEnds`: no silence of the server or the network lasts for ever.
* `WorkCounted`: `outstanding_work_` is the number of operations begun and not finished,
  wherever they are, and none runs twice, so `run()` ends when it should.
* `StopEvents`: one stop event at most is in flight, and when the service is stopped there
  is one or a thread about to post it, so any number of threads is sent home.
* `NeverOverslept`: the waitable timer is not late for any wait, although cancelling a wait
  or adding a later one leaves it as it is.
* `Completes`: while a thread is in `run()`, what was begun is run, also when the port was out
  of room for it: the periodic signal of the waitable timer sees to that.  It holds once a
  timer exists; the client has one as soon as it dials.

Runs that must find a violation, each a disagreement between the code and what it says:

| Run | Property | What happens |
|---|---|---|
| `sock_null` | `NoNullDereference` | `on_close` nulls `m_client` between `NULL_GUARD` and `m_client->send` |
| `client_sync_close` | `SyncCloseCloses` | a handler overwrites `con_closing`; the websocket opens and `sync_close` waits for good |
| `packet_arrived` | `ParsedWhenArrived` | an attachment that does not begin with the byte 4 is not counted, and its message never parsed |
| `ws_open_or_fail` | `OpenOrFail` | after an error in the server's extensions the fail handler and then the open handler are called |

The models have three more behaviours of this kind that no run is about: an expired
`timeout_connection` closes a socket that was connected meanwhile (`sio_socket.cpp:483`, against
the comment at 485); `connect()` can join a network thread that has begun to reconnect, and
then not return (`sio_client_impl.cpp:87`, against 86); after an address websocketpp rejects
`m_con_state` stays `con_opening` and every later `connect()` is ignored (253, against 92).

Bounds.  Two senders (application and network thread) are all the roles there are: every
handing-over path involves one of each, and the theorems hold for any number of threads.
Two packets per thread are the least that can be out of order or stranded together; two
connections the least for something to survive a disconnection.  In `SioClient` two
connects are the least for a handler of the first to meet the second, a third repeats it;
two attempts reach the exhausted counter (`m_reconn_attempts` is 2^32-1 by default).  A real
`count` of 20 behaves as one of 1.  Two packets of two attachments are the least for the
frames of one to meet the other's, and every combination of fields of a packet occurs.  In
`SioEmit` two packets are the least that can share an id or mix their frames, and two-bit
ids the least with a sign and a wrap-around that two emits can reach from some start.  In
`WsConnection` one frame of the client is enough to be queued behind a pong, and two of the
server are the least for an answer to meet a close frame; the theorems have no bounds.  In
`IocpContext` two threads are the least for a stop event to be passed on; two operations the
least for one to overtake the other on its way to the port; one failure of the port sends an
operation to `completed_ops_` or loses a wake-up, two would repeat it.

Fairness.  A thread inside a call goes on (the operating system schedules it); the network
thread runs what is ready (`run_loop`); armed timers expire; websocketpp bounds its opening
and closing handshakes with timers of its own, as `WsConnection` shows.  There, timers expire
(weak fairness), the loop of `handle_read_frame` ends, and a timer's queued handler is reached
although the server keeps the thread reading, because the queue is first in, first out
(strong fairness); the transport and the server owe nothing.  In `IocpContext` time passes,
the timer thread and the threads in `run()` go on, and a transfer may take for ever.  Nothing obliges an application to call, a
key to be pressed, a server to answer or to close an open connection, or a waiting thread to
wake for no reason.

## What is proved

Every safety property of the passing runs is a theorem, for every value of the constants.  The assumptions are the ones the modules name: the threads of one
set are not those of another (`NetAssumption`, `ThreadAssumption`), bounds are numbers
(`BoundAssumption`, `SizeAssumption`, `ClientAssumption`, `ClientBounds`, `GameAssumption`), an
operation is neither a wake-up nor a stop event (`IocpContext`'s `PacketAssumption`),
websocketpp makes one of the responses it knows of what it reads (`ResponsesAssumption`), the
root namespace and the empty one are none of the named ones (`SioPacket`'s `PacketAssumption`),
and a message written as JSON reads back (`JsonAssumption`).  Each proof follows
one argument: an inductive invariant, a lemma for each action or group of actions, and a last
step that combines them (PTL).  TLC checked the inductive invariants on small instances first.

`SioSocketProofs`:

* `TypeCorrect`: `Spec => []TypeOK`.  Not inductive alone: that what a thread pushes or
  sends is a packet depends on where the thread is, so `Typed` adds `Carrying`.
* `StrandingBounded`: `Spec => []StrandedPerThread`.  `Stranding` adds that a thread about to
  push has nothing in the queue: it read `m_connected` before `on_connected` set it, and
  issued nothing since.
* `CloseFinal`: `Spec => []ClosedIsFinal`, by two invariants.  `Closing`: the connection timeout
  goes one step after `m_client` is forgotten and `m_connected` two, and the handlers that could
  bring them back run with a client.  `Sealed`: once the queue of a closed socket has been
  emptied, a thread past `NULL_GUARD` has nothing in it, and none passes `NULL_GUARD` again.
* `HandshakeBeforeEvents`: `Spec => []HandshakeFirst`.  `Confirmed` adds that a thread past
  the test of `m_connected`, and a posted `send_impl`, imply a confirmed connection; for
  the network thread the present one, since it cannot leave a handler.

And by one invariant, `Ordered`: the packets of a thread go through its
hands, the queue, a hand that popped them and the io_service's queue to the wire, each
place ahead of the one before it (`InFront`, `Lanes`), each sorted by the packets' numbers
(`Sequenced`), and no packet is in two hands (`Apart`).  The delicate step is a thread that
sends its own packet past the queue: it has none left there (`Overtaken`), because it found
the queue empty and nobody else puts its packets there.

* `WrittenInOrder`: `Spec => []OrderPerHandler`.
* `FateOfPackets`: `Spec => ImplementsPacketFate`, the whole refinement: each step of `SioSocket`
  keeps what is held and written, or is one step of `PacketFate`.  That nothing is given
  up while the connection is open and the socket alive is `Clearing`: the two places that
  empty the queue are reached when the connection is closed or the client forgotten.

`SioClientProofs`, by `Inv`: there is one attempt to connect at a time, posted, waiting
for its timer, in a handler or a connection (`Attempt`); none outlives the network thread, and
`connect()` joins that before it begins another (`Threading`); what an earlier `connect()` left
in the queue is ahead of the present one's `connect_impl` (`Stale`).

* `OneAtATime`: `Spec => OneConnection`, and `ClosesItsOwn`: `Spec => NoStaleClose`, both action
  properties.
* `StatesAgree`: `Spec => []StateAgrees`; `Agreement` says what of it holds within handlers.
* `TypeCorrect`: `Spec => []TypeOK`.

`GameClientProofs`:

* `JoinsComeFirst`: `Spec => []JoinsFirst`, and `HandlersRunFreely`:
  `Spec => []HandlersNeverWait`, both by `Progress`, which says of each stretch of `main` what it
  has sent and whether it may hold `_lock`: events have listeners, and so handlers, only after
  both joins and after `main` has given `_lock` back for good.
* `UsesClient`: `Spec => Client!Spec`.  Every step of the program is one of its client or leaves
  the client alone, so all that is proved of `SioClient` holds in the program.
* `EndsWithoutConnection`: `Spec => []EndsDisconnected`, by the invariant of `SioClient`,
  which holds in the program too, and `Leaving`: `main` returns only when it has joined the
  network thread, which ends only when the connection is gone, and the listeners that call
  `exit(0)` run after it.
* `TypeCorrect`: `Spec => []TypeOK`.

`WsConnectionProofs`:

* `KeepsPromise`: without errors in extensions, `Spec => ImplementsWsLink`: the initial state
  maps to `WsLink`'s and every step, `terminate` in each of the four states included, to a step of
  it or to none.
* `FramesAreServed`: `Spec => []QueueIsServed`.  `Served` adds that nothing is queued before
  the connection opens: else opening it could leave a frame behind that nobody writes.
* `WritesInOrder`: `Spec => []InOrder`, and `NothingAfterTerminal`: `Spec => []TerminalIsLast`, by
  `Sending`: `handle_write_frame` looks only at the last of the frames under way, and that is
  the last one written; while nobody writes, no terminal frame has been; a close frame is
  accepted only in a connection that is no longer open, and after it no other frame.
* `TypeCorrect`: `Spec => []TypeOK`.

`IocpContextProofs`:

* `WaitsAreMet`: `Spec => []NeverOverslept`.  `Timing` adds that no wait is later than the
  period with which the waitable timer signals anyway: that makes up for the waits that
  neither `schedule_timer` nor `cancel_timer` sets it for.
* `WorkIsCounted`: `Spec => []WorkCounted`.  The invariant is `Books`: each operation is at one
  place, once (the completion port, `completed_ops_`, a timer queue, a transfer, a
  thread's hands), and leaves it to be run; `Counting` has the cardinality, so what
  `work_finished` takes off is what a handler's end takes out.
* `StopIsPassedOn`: `Spec => []StopEvents`, by `Stopping`: the flag `stop_event_posted_` is set
  exactly while a stop event is in the port or one thread (`Messenger`) carries it.
* `TypeCorrect`: `Spec => []TypeOK`.

`SioEmitProofs`:

* `OwnCallbackFound`: `Spec => []OwnCallback`, and `NoneForgotten`: `Spec => []AwaitedOrLost`.
  Their invariant `Travel` is about `Spots`, the places packets are at: no packet is at two
  (`Single`), whoever still waits for an answer has a packet somewhere (`Covered`), and at
  every place past `Register` the entry of `m_acks` is the packet's own or its id is given
  twice (`Known`).  Handing over, losing and draining only carry packets from place to place
  (`Carried`); only `Emit`, `Increment`, `Register` and `OnAck` touch ids and callbacks.  It needs
  the next invariant: a server that waits for attachments is waiting for those of the frames
  to come, not for ones that will displace the packet in silence.
* `AttachmentsStay`: `Spec => []MixedOnlyAcrossThreads`, by `Lines`: the frames of one thread
  are linked in the order of `encode` from its hands to the io_service's queue (`Linked`), and what
  the server still waits for is what comes next from that thread (`Awaits`).
* `CalledOnce`: `Spec => []AtMostOnce`, by `Once`: the callbacks in `m_acks`, those still to be
  put there and those called are apart.  It does not need the ids to be distinct.
* `TypeCorrect`: `Spec => []TypeOK`, by `Typed`: what a thread has in hand is where its program
  counter says.

`SioPacketProofs`:

* `ParseUndoesAccept`: from the text `accept` writes of any packet, `parse` reads every field
  of the packet.  `AcceptWrites` says at which place of the text each field stands, and
  that nothing else is there; so each search of `parse` (`FindIs`) stops at the field it is
  for, or finds none.
* `DecodingIsExact`: `Spec => []DecodesExactly`, by `Whole`: what is still to come is the end
  of the packet sent last, on this connection (`Rest`); what waits was sent on this connection
  (`Held`); and between the text of a packet and its last attachment, `m_partial_packet` holds
  just the attachments that came, or, once one of them was taken for something else,
  waits for more than there are to come (`Reassembly`), so that it can neither end early nor
  be completed by the frames of the next packet, whose text replaces it.
* `PacketOfThisConnection`: `Spec => []PartialIsCurrent`, and `TypeCorrect`: `Spec => []TypeOK`,
  from the same invariant.

Only model-checked: that `SioJson` meets `JsonAssumption` (its operators are `RECURSIVE`,
which the prover cannot take; TLC evaluates the assumption for two packets of every shape
with up to two attachments), and all liveness properties (`HandshakeResolves`, `CloseCompletes`,
`CleanCloseReturns`, `LostIsRetried`, `OpenWakesMain`, `CleanQuitEnds`, `AttemptEnds`, `ClosingEnds`,
`Completes`), out of the prover's reach.

## Not modelled, and why

* `m_event_binding` (`on`, `off`): a map under `m_event_mutex`, read and written whole.
* The text of JSON, and texts no server sends: rapidjson is taken to read what it wrote.  Bytes
  of an attachment that is taken for a text, beyond the first (see `SioPacket`).
* `next_delay`: a number of milliseconds; the models let a timer expire at any time.
* `~client_impl`, `~socket` and handlers bound to a raw `this`: object lifetime.
* `ping` and `timeout_pong`: no code starts the ping timer.
* `socket()` constructing a socket while the client is open but before `on_open` reaches
  the sockets; several namespaces.
* A listener that calls `close()`; a listener or handler that throws.
* In websocketpp: the server role, the HTTP parser, the frame codec, TLS, proxies, other
  transports.  In asio: `shutdown`, sockets and resolvers, the other platforms' event loops,
  several waits of one timer, strands.  rapidjson, catch (a test framework nothing here
  uses) and the game data have no behaviour over time.  The vendored libraries are by far the
  greater part of the repository's lines; what is modelled of them is what runs
  underneath the client.

## Plan

1. Done: `SioSocket` with `PacketFate`, `SioClient`, `GameClient`, `SioPacket` with `SioJson`,
   `SioEmit`, `WsConnection` with `WsLink`, `IocpContext`; the theorems above.
2. Proofs: that `send_packet` in one step, as in `SioEmit`, hands over what `SioSocket` does.
3. Compositions: `SioClient` on `WsLink` in place of its own `link`; one socket and the client
   life cycle with the real `m_con_state`.
4. asio: the heap of `timer_queue`; strands.
