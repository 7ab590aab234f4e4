# A TLA+ model of ibase

ibase is a small C++ library on asio: a TCP client that resends requests and
reconnects, a TCP server that keeps one session per connection and resends
notifications, and the parts they share. This directory models it in TLA+,
checks the models with TLC and proves what matters most about them with TLAPS.
Files are those of `src/ibase/`, and `main.cpp` is `src/examples/main.cpp`.

## 1. Inventory

| part | state it keeps | operations | what is hard about it |
|---|---|---|---|
| `reliable_tcp_client` | `started_`, `connect_state_`, `read_pending_`, `write_packets_` (requests without an answer), `notifications_`, duplicate tracker, timer id, last connect | `start`, `stop`, `send_req_async`, `send_cancel`, `(un)subscribe_notification`; handlers for connect, read, write and a tick every second | API on any thread, work on the io thread; completions that outlive the socket they belong to; resend, time-out, cancel, stop and answer race |
| `reliable_tcp_server` | `started_`, `sessions_`, `req_2_processor_`, acceptor, `cur_seq_`, timer id | `start`, `stop`, `(un)register_req_processor`, `send_rsp_for_req`, `publish_notification`; handlers for accept and the tick | accepts and stop race; sessions whose connection broke silently |
| `reliable_tcp_session` | `read_pending_`, `write_packets_` (notifications not acknowledged), duplicate tracker, timer | `send_packet`, reading, resending | acknowledgements race resends; never closes itself |
| `recently_packet_tracker` | a set of packets, a ring of 60 buckets, `first_tick_`, `first_index_` | `on_receive_packet`, `clear` | expiry is lazy; two ways to compute a bucket |
| `itimer` | map of timers, `cur_timer_id_` | `start_timer`, `stop_timer`, `on_timer` | an expiration queued while the timer is stopped |
| `task_runner`, `ithread` | the io_context and its thread | post; post and wait; stop | threads that wait for each other |
| `packet`, `io_buffer` | none; head and tail of a buffer | `build_packet`, `parse_packet`; `prepare`, `commit`, `consume` | packets that arrive in pieces, corrupt headers |
| `examples/main.cpp` | a worker thread, a test thread with a timer | sets all up, sends and publishes every second, stops on a signal | calls from thread to thread during the shutdown |
| `ibuffer`, `ilogger` | | | nothing |

How they interact. Everything that changes a client, a server or a session runs
on the one thread of its io_context, in handlers that are queued: what the API
posts (`task_runner.hpp`), timer expirations (`itimer.cpp`) and completions of
asio operations. Asynchronous calls post and return; `start()`, `stop()` and the
calls of the server post and wait. The only state that is changed from another
thread is `started_`, by `stop()`. Client and server share nothing but the
connection: requests and their responses, notifications and their
acknowledgements, and heartbeats, which are packets with `is_push` set.

What makes the parts correct:

- client: every request ends in exactly one callback unless it is cancelled or
  the client is stopped, not before its attempts were made and not later than
  the ticks allow; a notification is called back once; reads of the one buffer
  never overlap; a started client has its timer, and a stopped one has nothing;
- server and session: a request is processed once in a window; a notification is
  kept until it is acknowledged or was sent three times; broken sessions go away;
  a stopped server has no sessions, a started one accepts, and none has sessions without the
  timer that removes them;
- client and server together: a request is answered only after it was processed, and
  processed once a session; a notification is called back once; a session is not given up
  while its client is there;
- packets: what was written is parsed as it was written, however it is cut into pieces;
- threads and timers: no call waits for a task that will never run; a stopped timer is
  silent, the others go on; the program ends when it is told to;
- tracker: a packet is a duplicate if and only if it was recorded in the last
  60 seconds.

## 2. Modules

| module | models | kind |
|---|---|---|
| `DedupWindow` | what the tracker promises, as operators on ages | operators |
| `RecentPackets` | the same as a state machine | abstract specification |
| `PacketTracker` | `recently_packet_tracker.cpp`: the ring and the set | detailed, implements `RecentPackets` |
| `PacketTrackerProofs` | | lemmas about `%`; proofs |
| `ReliableTcpClient` | `reliable_tcp_client.cpp`, with `itimer.cpp` and the queue of handlers | detailed |
| `ReliableTcpServer` | `reliable_tcp_server.cpp`, `reliable_tcp_session.cpp` | detailed |
| `OrderedIds` | the order in which `write_packets_` and timers are walked | operators |
| `OrderedIdsProofs`, `ReliableTcpClientProofs`, `ReliableTcpServerProofs` | | lemmas about `OrderedIds`; proofs |
| `IoBuffer` | `io_buffer.hpp`: the buffer and its offsets | operators |
| `PacketStream` | `packet.cpp` and the reading half of `reliable_tcp_client.cpp`, on bytes | detailed |
| `PacketStreamProofs`, `WholeStreamProofs` | | proofs |
| `RequestService` | what client and server promise an application | abstract specification |
| `ReliableTcp` | `ReliableTcpClient` and `ReliableTcpServer` connected, used as in `main.cpp` | composition, implements `RequestService` |
| `ReliableTcpProofs` | | proofs, from those of client and server |
| `IoContexts` | `itimer.cpp`, `task_runner.hpp`, `ithread.cpp` and the threads of `main.cpp` | detailed |
| `IoContextsProofs` | | proofs |
| `MCPacketTracker`, `MCReliableTcpClient`, `MCReliableTcpServer`, `MCPacketStream`, `MCReliableTcp` | | values for constants |

Client and sessions do not hold a ring of buckets each but the ages of
`DedupWindow`: `PacketTracker` is shown, by TLC and by proof, to implement them.

**Time** is a number of whole seconds, as the code compares it
(`duration_cast<seconds>`). A time point is replaced by its age, which stops
growing at the largest value it is compared with, so that runs of any length are
covered. `Second` ages everything and makes the armed timers expire.

**`ReliableTcpClient`.** `ioq` is the queue of handlers that are ready, in order.
Each action `Run...` is one handler, from its guard to its last call: `RunTimer`
is the whole tick (reconnect check, resend check, heartbeat), `RunReadPush` is a
completed read with acknowledgement, duplicate check, callback and the next read.
`CallStart`, `CallStop`, `PostStop`, `SendReqAsync`... are the calls on the other
threads; `caller` says who waits. `CallStop` and `PostStop` are two steps because
`stop()` clears `started_` before it posts (59 and 62). The network is `ConnectDone`,
`LinkBreaks`, `ReadReady`, `ReadFails`. When the socket is closed or opened anew
(asio does the latter in `async_connect`), what is outstanding completes with
an error (`Aborted`); completions already queued stay as they are, which is where
the difficult behaviour comes from. `RunConnect` turns a success into a failure
when the socket is closed, as asio does. `on_wire` holds the requests that reached
the peer on this connection: it may answer them any number of times, in any order,
and may send any notification at any time.

**`ReliableTcpServer`.** `sessions` is `sessions_`, a function from ids to records of
a session's fields. A handler is one step and any handler that is ready may be
next. Calls block until their handler ran and are that step; `stop()` is again two
steps. `accepting` counts `async_accept` calls, `accepted` their completions not
yet handled. A connection has two channels, in order and without loss while the
link is up; writes to a broken link vanish. Clients send any request, again or for
the first time, and heartbeats, and acknowledge each notification as they
receive it. Stopping the timer is folded into `stop_impl`: a tick in between would
find no sessions.

**`PacketTracker`.** `OnReceivePacket` is one call. What it does before it looks at its
packet is `Span` (lines 13-16), `LiveIds`, `LiveArray` (18-26), `LiveIndex`, `LiveTick`
(28-30); then it answers (34-37) or records (39-41).

**`IoBuffer`, `PacketStream`.** The buffer is a record of its cells, head and tail, cells
counted from 0. A byte is known by its packet and its place in it; `Value` is what the
parser sees of it: the flag, a byte of the body, or the last byte of a header, which
stands for the header its CRC ties together. `Parsed` is `parse_packet` with the loop
around it. The peer's writes are outstanding next to each other, and `Transmit` gives
the socket any number of bytes of the first; the rest of a packet waits behind the other
writes, as `asio::async_write` queues it, so that pieces of packets mix.
`ReadReady` fills the slab when the socket completes, `RunRead` commits, parses, consumes
and reads on when the handler runs. `torn` records whether the bytes committed were
ever anything but whole packets one after the other. A session reads in the same way
(`reliable_tcp_session.cpp:75-169`) and only ever has one connection.

**`RequestService`, `ReliableTcp`.** The composition extends the client and instantiates the
server; the actions of the two `Network`s are joined in pairs. `Connected` completes the
connect of one and the accept of the other; `AfterHandler` adds what a handler of the client
wrote to the channel of its session; `PacketArrives` takes a packet from the channel
and completes the client's read. Each end finds out by itself that the connection
broke. The application sets up, sends and publishes as `main.cpp` does, and the processor
answers before it returns (`SendResponse` comes before anything else, `taken`). The
refinement mapping is the identity on `outcome`, `processed` and `notified`, which
record what the callbacks saw, and `1..cur_seq` for what was published.

**`IoContexts`.** A thread has the calls it has still to make (`calls`), an io_context its
queue. `MakeSync` runs the task in place on the thread of the io_context and posts and
waits otherwise; the last thing a posted task does is `SetsValue`. `Idle` threads that run an
io_context take its next handler, until it is stopped. Of the tasks of the worker only
the calls they make remain: the processor answers with a synchronous call to its own
io_context. The application may also start timers with and without an interval,
stop timers, and give the signal at any time.

## 3. What is checked

| run | instance | what it shows | distinct states |
|---|---|---|---|
| `PacketTracker` | window 3, clock 0..11 from 0, 1, 4 or 7, 3 packets | ring and set agree, index and tick agree, every record is in the bucket of its second, and the ring refines the window | 76 thousand |
| `ClientRequests` | 1 thread, 2 requests (0 tries every second; 2 tries every 2 s), any lag | no request is lost, called back twice or failed early; the timer runs; one read at a time | 2.8 million |
| `ClientThreads` | 2 threads, 1 request, lag of 1 s | the same accounting when calls race, and no client is connected and deaf or connecting for good | 0.9 million |
| `ClientPushes` | 1 request and 1 notification, window 2, 2 starts, a lag of 2 s with a reconnect interval of 3 s | called back once a window; `stop()` leaves nothing behind | 4.5 million |
| `ClientLiveness` | 1 request, any lag, fair | requests settle, lost connections are tried again | 51 thousand |
| `ServerSessions` | 1 session, 1 request, window 2, 1 notification, 2 tries every 2 s, time-out 3, fair | a resent request is processed once in a window; a notification is kept until acknowledged or given up, and no longer; broken sessions are removed; the timer runs | 310 thousand |
| `ServerStop` | 2 threads, 2 connections, 2 starts | stopped servers are empty; no session is without the timer that removes it; the accept loop survives errors | 52 thousand |
| `PacketStream` | buffer of 6, header of 2, bodies up to 2 of which one looks like the header of a packet that is too long, 3 packets, 2 writes at once, 2 connections | whole streams are parsed exactly; torn ones do not stop the reader | 6.1 million |
| `ReliableTcp` | 2 connections, 1 request or notification with 2 tries, window 3, time-out 4, 1 s of delay | client and server implement `RequestService`; heartbeats keep a session | 1.9 million |
| `IoContexts` | 2 ithreads, 3 timers with interval 0 or 1, any lag, fair | no call is lost and every call returns; timers; the shutdown completes | 315 thousand |

Two runs end in a violation, each of a sentence in the source:

- `ClientStopRace`: the client is "thread safe" (`reliable_tcp_client.hpp:15`). `stop()`
  clears `started_` on its own thread; when `start_impl` of another thread runs before
  `stop_impl`, it starts a second timer, and `stop_impl` stops that one. Both calls
  return with `started()` true and `check_timer_id_` 0; the first timer runs on and
  cannot be stopped.
  The server ("thread safe", `reliable_tcp_server.hpp:12`) has the
  same race between `reliable_tcp_server.cpp:56` and `stop_impl`: it is left started, with no
  timer in `check_timer_id_` and its acceptor closed. TLC finds this when `StartedHasTimer` is
  asked of the instance of `ServerStop`; no run repeats it. What that run shows of such a server is
  `SessionsAreWatched`: it has no session that nobody would remove. `StoppedHasNoSessions` says
  nothing of it, since it is not stopped.
- `ClientReadRace`: "read need to sequence, because all reads use the same
  buffer" (`reliable_tcp_client.hpp:113`). After the same race the success of the
  first connect is handled when the socket was opened again: the client reads
  on a socket that is still connecting, `stop_impl` clears `read_pending_` with the
  completion of that read queued, the timer left over reconnects, and a new read is
  prepared in the buffer before the old one is committed. With one calling
  thread `ReadsInTurn` holds (`ClientRequests`).

Some behaviour contradicts no sentence and is recorded here.

- If the io thread lags for `reconnect_interval_seconds` or longer, `StoppedIsQuiet` fails: a
  write error of the old connection closes a new connect attempt; a queued tick starts
  another; then the abort of the first marks the client disconnected, and the `do_close()`
  of `stop_impl` does nothing, so that the attempt completes on a stopped client. The lag
  is realistic: `do_connect` resolves the host name synchronously (223-224).
  `ClientPushes` is therefore checked with a lag below the interval.
- A stream may be torn, and the properties of `PacketStream` say what holds then and what
  does not. `do_close()` keeps `read_buf_`, so that half a packet is followed by the
  first of the new connection, which the parser takes for its rest; `stop_impl` clears the
  buffer with a completed read still queued, whose commit exposes other cells than those
  it filled; and outstanding writes mix when the socket takes part of one. From then on
  a packet may be lost, or have the body of another, or be one that a body spelled. The
  reader still reads on (`KeepsReading`); `WholeStreamExact` claims nothing from there on.
- `parse_packet` lets a body be as long as `max_body_length`, `build_packet` header
  and body together (`packet.cpp:28`, `:74`). The parser accepts more than the builder
  sends, and still less than the buffer holds.
- The comments at `io_buffer.hpp:149` and `:156` name conditions that the code and its
  callers do not keep as written (`tail_ + n` reaches the size of the buffer, and `size()`
  is at least `n`, not at most). `TypeOK` of `PacketStream` has the ones that hold.
- `itimer` waits for the interval before the first expiration; `delay_seconds` is stored
  and not used (`itimer.cpp:53`).
- `last_heartbeat_timepoint_` is never set (`reliable_tcp_client.cpp:456`), so that a
  connected client sends a heartbeat with every tick.

### Bounds

- `MaxLag`: seconds for which the queue of the client may stay non-empty; from
  `ReconnectInterval` on, any number. The interval is 2, the shortest
  with a second that is neither the first nor the last, 3 in `ClientPushes`, where the
  lag is 2, and 1 in `ReliableTcp`.
- `MaxQueue`: the API is called while fewer than 3 handlers wait. Expirations, completions
  and handlers that handlers queue are not bounded by it.
- `MaxTimers`, `MaxSends`, `MaxSessions`, `MaxPushes`: enough for
  two of a kind to meet (two starts, two requests, two connections), where the
  code lets them meet. Requests meet only in the queue and in the loop of the resend
  check; notifications of a session only in the latter.
- One session is enough for the properties of a session: sessions share `cur_seq_` and
  the two maps, and no handler reads the state of two. Where they do meet, in accept,
  stop and the time-out, the run has two.
- `PacketStream`: bytes and packets are counted up to `MaxPackets`. The buffer holds one packet
  of the largest size the parser accepts and no more, so that the slab ends inside
  packets, moves are needed and the limits are met; in the code it holds eight. Three
  packets are enough for two to mix and one to follow. `DoConnect` waits for the completion of
  the connect before it: without that, a stale completion starts a second read, which is the
  race of `ClientReadRace` and needs more than the one `slab` of this module.
- `ReliableTcp`: `MaxTraffic` is 1, a request or a notification, since the two share
  nothing but the connection; `MaxDelay` is the number of seconds for which something may
  be under way or a handler of the server wait, and `MaxLag` does the same for the
  client. `MaxQueue` is 1, as what meets in the queue of the client is checked by its own
  runs, and the client connects anew with any tick. Two connections are enough for a
  resend to reach another session. The time-out
  is the shortest for which `HeartbeatsKeepSession` holds with these delays: with 3 the
  run fails, and the code has 20 for a tick every second. The window is longer
  than the attempts of a request take, as in the code (60 to 9).
- `IoContexts`: `MaxQueue` bounds when main adds to the queue and when time passes, never
  what handlers add. The two timers of `main.cpp` and one more are started.
- `MaxChannel` bounds what clients and the API add, never what resends or
  acknowledgements add.
- Intervals and windows are 1 to 3 instead of 3 to 60: the code compares ages with
  them and does nothing else.

### Fairness

Only liveness runs assume it. Client: the io thread runs the next handler, seconds
pass, a connect attempt ends somehow, a read of a broken connection fails, and a
`stop()` that began posts its handler. Server: the same for its ticks, the ticks of
sessions and failing reads. The thread is in `io_context::run()` with a work guard
(`ithread.cpp`), handlers do not block, and TCP ends attempts and reports errors to
reads. Nothing is assumed of those who call the API, of the peer, or of packets. `IoContexts`:
every thread makes its next call and runs its next handler, waits that are over queue
their handler, and seconds pass; nobody has to give the signal or to use the timer.

## 4. What is proved

Everything here holds for every value of the constants that the `ASSUME`s of the modules
allow: any number of threads, requests, notifications, sessions and timers, any intervals and
tries, any lag but where a limit is stated, buffers and packets of any length. The assumptions say that counts
are natural numbers, that a window is positive, that `SendOpts` is finite, that the two timers
of `main.cpp` may be started (`MaxTimers`), and that a buffer holds a header and the longest
body, which it does eight times over. `StartedHasTimer`, of client and server, and `ReadsInTurn`
and `StoppedIsQuiet` of the client have a hypothesis of their own, `OneThread`, and the last of them
one about the lag; two theorems about the composition have hypotheses about its times,
`HeartbeatsInTime` and `WindowLongEnough`, which are explained there.

**Tracker** (`PacketTrackerProofs`): `TypeOK`, `IndexFollowsTick`, `RingMatchesSet`,
`RecordedInItsSecond`, and that the ring implements `RecentPackets`. The inductive
invariant is the conjunction of the four. No part stands alone: that the bucket
written is the bucket of the present second needs index and tick to agree; that a
packet is in one bucket only needs the set and the ring to agree; and that what a call
drops is what has left the window needs each record to be in the bucket of its second. The
refinement maps a packet to the seconds since the tick of its bucket; the cases
are a call that moves the window by less than its length, by more, and not at all.
`received_at`, a history, is in none of them: `RecordTick` finds the same second in the ring.
The facts about `%` it rests on are the first lemmas of the module.

**Client** (`ReliableTcpClientProofs`): `TypeOK`, `RequestsAccountedFor`, `TimeoutNotEarly`,
`ConnectingIsUnderWay`, `ConnectedIsReading`, `NotifiedOnce`; if one thread makes the calls,
`StartedHasTimer` and `ReadsInTurn`; and if the lag stays below the reconnect interval too,
`StoppedIsQuiet`.

- `TypeInv` strengthens `TypeOK` with what handlers rely on: queued requests, cancels and
  timers have ids that were given out, and `write_packets` holds no other.
- For `RequestsAccountedFor` the four places a request may be in (queued, in `write_packets_`,
  called back, discarded) are shown to exclude each other, and a request to be queued
  at most once: each handler moves it from one place to the next.
- `ConnectingIsUnderWay` and `ConnectedIsReading` follow the attempt and the read through the
  queue: there is an attempt outstanding, or its completion is queued, or the abort that a
  close left behind is. They do not need one thread: whatever races, the client is never
  connecting or connected without something to wake it.
- `TimeoutNotEarly` is an action property. Its invariant relates the attempts of a request
  and the age of the last one to the time it has waited.
- `NotifiedOnce` rests on the ages of `DedupWindow` being those of the last callbacks.
- `StartedHasTimer` is shown of every state with the flag set, not only between calls (`TickInv`).
  One thread queues a `start()` or `stop()` at a time, so that no `start_impl` comes between
  the halves of a `stop()`; the timer then goes from queued to armed, to expired and queued, and
  back; and a `timer_stop` in the queue is for an older timer.
- `ReadsInTurn` is a matter of the order of the handlers in the queue, whatever the lag. The
  danger is a read that is still to complete when `do_close()` has cleared `read_pending_` and
  a later attempt succeeds. `Turns` looks at the reads that complete behind an attempt
  (`LateRead`): either the flag is still set for such a read, and no error is queued that
  would clear it before the attempt completes; or `stop_impl` has closed the socket, which makes
  the attempt fail, and no start opens it again before the read completes.
  That needs `AttemptsInOrder`: at most two attempts are left, no
  error is queued between two of them, and behind a handler that may begin another attempt
  there is one at most. And that needs `OneTimer`: the client's timer is in one place only,
  and the timers of earlier starts are stopped before the next start runs, since else
  two ticks could begin two attempts. With two threads there is such a timer left over in
  `ClientReadRace`.
- `StoppedIsQuiet` adds `OneConnection`: of an attempt that was given up, the completion is
  queued while the queue has not been empty since the attempt began (`Recent`, which compares the time since
  `last_connect_timepoint_` with the lag). If no handler waits for as long as the reconnect
  interval, a tick that reconnects finds none of them left, so that there is only ever one attempt;
  and behind `stop_impl` a `start()` is queued after what the stopped connection still has to
  complete.

**Server** (`ReliableTcpServerProofs`): `TypeOK`, `StoppedHasNoSessions`,
`SessionsAreWatched`, `AcceptsUntilStopped`, `ProcessedOnce`, `PushesNotDroppedEarly`, and
`StartedHasTimer` if one thread makes the calls. Neither `StoppedHasNoSessions` nor
`AcceptsUntilStopped` is inductive, since calls of several threads overlap; the invariant follows the acceptor instead: closed, it has taken
the sessions with it; open in a server at rest, it was never used; and no `stop_impl`
is due in a server never stopped. `PushesNotDroppedEarly` relates tries and age
of every notification to the time it is pending, as for the client's requests.
`StartedHasTimer` needs `OneThread`; `SessionsAreWatched` does not. `WatchInv` says why: `stop_impl`
may stop the timer of a `start()` that came in between, but it closes the acceptor in the same step,
so that an open acceptor that was ever used means a timer.

**Threads and timers** (`IoContextsProofs`): `TypeOK`, `NoCallIsLost`, `StoppedTimerIsSilent`,
`OneShotOnce`, `TimersGoOn`. `TypeInv` contains the stages of main (setting up, using the
timer, shutting down) with the calls it has left in each, and which threads still run. `Owed`
adds that a caller who waits has exactly one task, queued or being run, and that an
io_context is stopped only when no thread that may wait for it is left: the order of
`main.cpp:110-111`. `TimerInv` relates ids, armed timers, queued expirations and the task being
run; it shows that a stopped timer is never found again by `on_timer` or `reschedule_timer`.

**Buffer and stream** (`PacketStreamProofs`, `WholeStreamProofs`): `prepare` keeps the bytes the
buffer holds and offers a slab inside it (`PreparedKeeps`), what is filled in and
committed is appended to them (`CommittedAppends`), and `consume` takes them from the front
(`ConsumedDrops`). On these rest `TypeOK` and `KeepsReading` of `PacketStream`. `ParsedRests` says
that the parser leaves less than a header and the longest body, whatever the bytes are: by
induction from the end of the buffer. The invariant `StreamInv` says that every byte anywhere
is one of a packet that was written; that at most one read is queued, before the
completion of a later connect, so that its bytes still fit behind the tail; and that the
outstanding slab begins at the tail.

`WholeStreamExact` is proved for every buffer, any bodies (also such as look like headers), and any
number of packets, outstanding writes and connections.

- `ParsedExact`, by the same induction, is about the parser alone: of the bytes of whole
  packets one after the other, of which the last may be unfinished, it parses exactly these
  and leaves the beginning of the last. Bodies are skipped, never searched.
- `OrderInv` is the inductive invariant. While the stream is whole, also with the bytes of the
  queued read, the buffer holds the beginning of the packet that comes next, and no packet
  of a connection before it was missed (`ParsedOK`, `NoneMissed`). What is still to come keeps
  its order: in the bytes behind the tail, on the wire and in writes not begun, the first byte
  of a packet comes after that of the packet before it (`BatchOrder`, `WireOrder`, `WritesOrder`,
  `LastOrder`). A closed connection has nothing under way, and connections only
  follow each other (`ConnectionsOK`).
- `stop()` clears the buffer with a completed read queued. Unless the buffer was empty, the
  commit of that read exposes a cell of an earlier packet (`FirstCell`), so that the stream is torn
  and nothing is claimed.
- That none is left out follows by going back from a packet that was parsed to the first
  of its connection, one packet at a time.

`OrderInv` was checked with TLC on the instance of the run `PacketStream` before it was proved.

**Client and server together** (`ReliableTcpProofs`). The composition extends the client and
instantiates the server, and its proofs do the same with theirs (`SP`): every step of the
composition is shown to be a step, or a stutter, of either end, in states that are `Linked`, so that their
invariants hold in it.

- `TcpClient`: a behaviour of the composition is one of the client's `Spec`. What has to be shown
  is that the server and the connection do nothing that the client's `Network` may not: a
  response that arrives is to a request that the client wrote on this connection.
- `TcpHeartbeats`: `HeartbeatsKeepSession`, if `HeartbeatInterval > 2 * MaxDelay + 1`
  (`HeartbeatsInTime`): a packet and the next heartbeat are each late by the delay, and a
  tick is between them. The code has 20 seconds, so that nine of delay are allowed. `ClientInv`
  says that the client ticks while it is connected; `ReadsOn` that the session of a working
  connection reads; `HeardFrom`, that the session heard of the client not long ago, or that a
  heartbeat is about to be sent or is under way.
- `TcpService`: `ImplementsService`, by refinement: initial states map to initial states and every
  step to one of `RequestService` or a stutter. The hypothesis, `WindowLongEnough`, is that the
  last attempt of a request or notification, with its delay, is over before the window in which
  duplicates are known. An attempt takes its interval, a second if that is 0, and `MaxDelay`. The
  code has 60 seconds for 2 further attempts every 3 seconds. Without it the code does not
  promise this: a resend that comes after the window is processed again.

The inductive invariant of `TcpService` is `Promises`, with `Linked` and `ClientInv`.

- `Causes` and `Published` follow each packet back to its cause: a response anywhere, on a channel
  or in a completed read, to a request that was processed, that to a request that was sent;
  a notification to one that was published. `FreshSessions`: a session to come has
  processed nothing.
- `Once` is what must come out: histories of 0 and 1. It cannot be kept by a step without the ages.
  `RequestsYoung` bounds the age of what a session processed by the attempts made so far, and
  `CopiesInTime` that of what is still on its way to it; `PushesYoung` and `PushesInTime` do this
  in the other direction, across all connections, since the client has one tracker for them.
- The bound on the age needs the check that resends to be on time: when an attempt is due, the tick
  that makes it is queued (`ChecksRequests`, `ChecksPushes`).

All parts were checked with TLC on the instance of the run `ReliableTcp`, which satisfies both
hypotheses, before they were proved.

**Lemmas about the models' recursion.** `Ascending` and `Parsed` are recursive functions. `Induction`
(`OrderedIdsProofs`) derives what holds of every value from the least number for which it
would not.

What the proofs changed in the model: `RunTimerStart`, `RunSend` and `Outgoing` of the client were
made to say what happens when a timer or packet was overtaken; the bounds `MaxTimers >= 2` and
that of `DoConnect` were implicit and are now written down. The refinement
proof showed that `RequestService` let one request fail at a time, while one resend check
of the client may call back several that have timed out: `Fail` is of a set of requests now,
and the run, with its one request, could not have told. What `ReliableTcp` takes its constants to
be (`CompositionAssumption`: that delays and counts are numbers, that notifications are counted from
1) was implicit too.

Model-checked only:

- liveness (`RequestsSettle`, `DisconnectedReconnects`, `BrokenSessionsRemoved`, `PushesSettle`,
  `CallsReturn`, `ShutdownCompletes`), which is out of the prover's reach, as is `ENABLED`.

## 5. What is not modelled

- The CRC as a computation: it is taken to tell headers from other bytes. Values of `cmd`, `seq`
  and `is_push` in the bytes: they are the number of the packet.
- Packets that are freed before they are written: `PacketStream` takes the bytes of
  a packet to stay as they are until they are sent, which nothing ensures for
  acknowledgements, heartbeats and responses, when the socket takes only part of one.
- In the composition: what a closed connection still carried to the client is lost,
  whether it was read or not; the handler of the accept runs when the client learns of its
  connection; accepts do not fail, and nobody stops (the runs of the server and
  the client have both); one client.
- Callbacks that call the API synchronously, `stop()` above all, which would clear the list
  that `do_resender_check` is walking (`reliable_tcp_client.cpp:441`).
- Resolution of the host name to several addresses; values of `start_timer` other than
  `1, 1` in client and server; numbers that wrap around; `run_task_in_the_iocontext`, which nothing
  calls; objects that are destroyed while handlers are queued (`itimer` tasks are bound to `this`).
- Heartbeats acknowledge nothing, which holds if no notification has command 0.
  `start_impl` reads `started_` a second time in `do_connect`; a `stop()` exactly between
  is not modelled.
- `ibuffer`, an array of bytes that nothing uses, and `ilogger`, which passes strings to a callback.

## 6. Plan

Every safety property and every refinement that the runs check is proved. What would come next is
more of the code: a callback that calls `stop()` while `do_resender_check` walks its list, which needs
the list as a sequence with a position in it; numbers that wrap around, which needs requests
to be told apart from their ids; and packets freed before they are written.
