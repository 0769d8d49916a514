# Verification of ipc_toolkit

TLA+ models, TLC runs and TLAPS proofs for `ipc_toolkit`, a C++ library for
inter-process communication on one machine: D-Bus endpoints over GLib and over
libdbus, HTTP over unix sockets, and small utilities. Source paths below are
relative to `src/src/` (`lib/`, `tool/`, `test/`).

## 1. The system

| Part | State | Operations | Talks to |
|---|---|---|---|
| `G_DbusConnection` (`lib/g_dbusConnection`) | `conn_`, `ownerId_`, three callbacks, `reconnTimer_`, `signal_cb_lut_`; process-wide SIGTERM handler | constructor, `init`, `own_name`, `fini`, the callbacks of `g_bus_own_name`, the retry, `publish_signal`, `subscribe_signal`, dispatch of signals | GLib (shared session connection), bus daemon, `G_Timer` |
| `G_DbusClient` (`lib/g_dbusClient`) | the above, `proxy_cache_`, ready callback | `init`, `call_method`, `get_set_proxy`, `clear_proxy_cache` | remote servers |
| `G_DbusServer` (`lib/g_dbusServer`) | the above, registry `lut_` | `start`, `add_interface`, `on_bus_acquired` (export), `dispatch_method_call` | remote clients, the user's handlers |
| `G_Timer` (`lib/g_timer`) | `sourceId_`, `cb_`, `user_data_` | `start_once`, `start_cycle`, `stop`, destructor, callbacks | GLib's main loop |
| `DbusServer`, `DbusClient` (`lib/dbusServer`, `lib/dbusClient`) | connection, registry | `init`, `add_interface`, `run`, dispatch; `callMethod`, `sendSignal` | libdbus, bus daemon |
| `DbusRegistry` (`lib/dbusRegistry`) | object → interface → handlers | dumps as JSON and XML | both servers |
| `BlockingQueue`, `CountDownLatch`, `Singleton` | queue, counter, instance; mutex and condition | `push`/`pop`; `wait`/`countDown`; `instance`, `destroy` at exit | threads |
| `SpdLogger`, `Config`, `mINI`, `util` | logger; ini map | logging; `parse`, `dump`; string functions | files |
| `UdsServer`, `UdsClient` (`lib/udsServer.h`, `lib/udsClient.h`) | a socket file | `remove_unixsock`, `listen_unixsock`; connect | httplib |
| httplib's server (`lib/httplib.h`) | `svr_sock_`, `is_running_`, handlers; the pool's queue and workers | `listen_internal`, `stop`; per connection: keep-alive, `process_request`, `write_response` | clients, handlers |
| httplib's client (`lib/httplib.h`) | `socket_`, requests in flight, the flag of `stop` | `send_`, redirects, `stop`; `Get` ... `Options` | servers |
| httplib's messages (`lib/httplib.h`) | the two ends of a body; the form parser | content writers and readers, ranges, path parameters, query texts | both |
| tools and tests | — | one endpoint per process and a main loop | the library |

A program constructs one or more endpoints and runs one GLib main loop. GLib
gives every endpoint of a process the *same* session `GDBusConnection`, with a
reference count the toolkit takes no part in; the bus daemon knows claims of
names by connection. The hard behaviours are therefore orderings: bus loss,
`NameLost`, the answer to `RequestName`, the closing of the connection, the
one-second retry and the user's calls, in any order and for several endpoints
that share a connection or rival for a name. `PROJECT.json` lists them under
"hazards", each at its line.

What makes each part correct:

* **Connection** – `conn_` is never used after its connection is gone; there is
  always exactly one of a registration and an armed retry; the program never
  serves a name it silently lost; the daemon never holds a claim nobody serves;
  the endpoint comes back by itself; bus loss does not end the process.
* **Client** – cached proxies die with the connection they were made on.
* **Server** – the early returns of the export loop hide no interface for good;
  handlers run once per signal; every exported interface can be dispatched.
* **Timer** – one source per timer, none after stop or destruction, no call
  hits another timer, whatever a callback does.
* **libdbus endpoints** – one owner per name; a server that owns its name
  answers; a call that reports success has an answer.
* **Queue, latch, singleton** – no lost wakeup, FIFO order, nobody passes the
  latch early or waits for ever, one instance.
* **Config, mINI and util** – a process that reads the ini file gets what the file
  says, whoever else starts, and otherwise its defaults; `parse` inverts `dump`;
  `split`, `trim`, `replace` meet their definitions.
* **Unix socket server** – it comes up whatever its predecessor left behind, and
  starts that race leave somebody reachable.
* **HTTP server and client** – an answer is taken by the request it belongs to;
  no descriptor is lost or used by two; no connection keeps its worker; `listen`
  returns after `stop`; every request returns to its caller, and `stop` holds.
* **HTTP messages** – what the reader takes for whole is what was to be written;
  a form comes apart as it was put together, however the reads cut it; what a
  request declares, writes and means to the server are the same; accepted ranges
  can be served; captures and parameters are what the other side passed.

## 2. Plan

The order in which the modules were written, most important behaviour first:

1. `G_DbusConnection` with `EndpointSession`, `G_DbusServer` on top of it; `G_Timer`
   with `Timer`.
2. `BlockingQueue` with `Fifo`, `CountDownLatch`; `DbusCalls` with `RemoteCall`;
   `DbusServer`.
3. The proofs of all of these.
4. `MINI`, `Config`, `UdsServer` with the proofs of `Covered` and `ConfigReads`.
5. httplib, which serves the unix sockets: `ThreadPool`, `HttpSockets`, `HttpRequest`,
   `HttpServer`, `HttpClient` and their composition `HttpExchange`.
6. httplib's messages: `MultipartFormData` and `BodyTransfer`, `Ranges`, `PathParams`,
   `ClientRequests`, `QueryText`, and `HttpMessages`, which composes them.
7. The proofs about httplib: `HttpExchange`, then `BodyTransfer`, `MultipartFormData`,
   `ClientRequests`, `Ranges`, `PathParams` and `QueryText`.

Left, in this order:

1. `Singleton` with the logger's lock and the SIGTERM handler.
2. Destructors and reference counts of the endpoints; signals at the end of a
   process (`u_dbus publish` leaves its main loop before the signal is flushed).
3. `util` as pure operators.

## 3. The modules

### G_DbusConnection, EndpointSession

`G_DbusConnection.tla` models any number of endpoints in any number of
processes. All callbacks of a process run on its main loop, so a callback is one
atomic step. Variables ↔ code: `conn` ↔ `conn_`, `ownerId` ↔ `ownerId_ != 0`,
`timer` ↔ `reconnTimer_` armed, `proxies` ↔ the keys of `proxy_cache_`, `handler`
↔ the SIGTERM handler, `life` ↔ constructed / `own_name` called. External state:
`own` (the GLib registration `ownerId_` names), `orphan` (a running registration
that `ownerId_` no longer names), `link` (the process's shared connection), `lost`
(a `NameLost` under way), `busUp`, `owner`, `queue` (the daemon).

| Action | Code |
|---|---|
| `Construct`, `Start` | constructor with `call_once`; `G_DbusServer::start`, `G_DbusClient::init` → `own_name` |
| `CallMethod` | `call_method` → `get_set_proxy` (the cache) |
| `OnBusAcquired`, `OnNameAcquired` | the callbacks of `g_bus_own_name` |
| `GetFailed`, `RequestRefused`, `NameLostSignal`, `OnClosed` | the four ways into `on_name_lost`: subclass hook, `fini(true)`, `set_reconn_timer` |
| `ReconnTimeout` | `reconn_timeout` → `own_name` |
| `BusConnect`, `DaemonRequestName`, `Foreign*`, `Bus*`, `ProcEnd` | GLib's connection, the daemon, other programs, the end of a process |

Assumptions about what is external: the daemon queues the owner it replaces and
sends it `NameLost`; a client that closes its connection loses all its claims;
GLib reports `NameLost` only after the answer to `RequestName` (it subscribes
then); the shared connection lives while a registration or a proxy holds it, and
`g_bus_get` returns it as long as it lives, closed or not; GLib raises SIGTERM
after a session connection closes. One point of GLib varies with its version:
whether `g_bus_unown_name` called *in* the name-lost callback also leaves the
daemon's waiting list. The constant `ReleaseOnQueued` keeps both. Two endpoints
of one process must have different names (`DistinctNames`): the daemon cannot
tell them apart.

`EndpointSession.tla` is what an endpoint promises its program: it joins, is
told when it is online, may be thrown back at any time, is "ready" (has a usable
`conn_`) only while joining or online, and never stays in backoff.

### G_DbusServer, MCServer

Extends the connection with the registry `lut_`, the exports of the connection,
and the subscriptions of `subscribe_signal` (`conn_` set, one more subscription
per call, never removed). `ServerBusAcquired` is the whole nested loop of
`on_bus_acquired`: it walks objects and interfaces in map order (`Rank`,
`ObjRank`) and returns at the first object whose XML does not parse (`Broken`)
and at the first interface already exported. Exports and subscriptions live as
long as the connection, which outlives a name loss when another endpoint of the
process holds it. Two servers with a common interface in one process are
excluded: the second cannot export it.

### G_Timer, Timer, MCTimer

`G_Timer.tla` has the sources of the main loop as numbers, as GLib has: a timer
only knows `sourceId_`, which keeps the number of a one-shot source that has
removed itself. Callbacks are bodies between `Fire` and `Return` in which any
timer may be created, started, stopped or destroyed. `Timer.tla` is the promise:
a timer is off, set once or set to repeat, and fires only when set.

### DbusCalls, RemoteCall, MCCalls

`DbusCalls.tla` is the synchronous call between processes, over either library.
Each process has one loop; `body[p]` is what it runs (nothing, the program's own
callback, or the handler of a request), `waits[p]` the call it is blocked in.

| Action | Code |
|---|---|
| `Send` | `G_DbusClient::call_method` up to `g_dbus_proxy_call_sync`; `DbusClient::callMethod` up to `dbus_pending_call_block` |
| `Receive`, `Return`, `OnError` | what both do with a reply or an error |
| `Timeout` | the default timeout (`-1`) of both libraries |
| `Dispatch`, `HandlerReturns` | `dispatch_method_call`, `dbus_message_dispatch`: before and after the handler |
| `EnterUser`, `LeaveUser`, `ProcEnd`, `ProcStart` | the program's callbacks; processes |

The difference between the libraries is kept: an error makes `call_method` return
false, while `callMethod` cannot parse its text, returns
`DBUS_HANDLER_RESULT_NOT_YET_HANDLED` and so *true*. `RemoteCall.tla` is what both
promise: a handler runs at most once, an answer implies that it ran to its end or
that the server refused the call, and a failure says nothing. The daemon is
assumed to keep the order of requests and to answer for processes that are gone.

### DbusServer, MCDbusServer

`DbusServer.tla` models the libdbus server as the programs use it: `InitServer` is
`init` with its early returns; `AddInterface` merges (`insert` keeps the first
handler) or enters the interface and then asks for its match rules, one of which the
daemon may refuse (`AskMatch`); `Run` and `DispatchMessage` are the loop, and
`LibdbusExit` is libdbus ending the process on disconnection or on a null
connection. `failed` is a history variable: the interfaces for which `add_interface`
has returned false, which stay in `lut_` without rules. A message's `json` says
whether its argument passes the tests that `dbus_message_dispatch` makes before it
looks for a handler (none, an empty string, or a string that is JSON); a message that
does not pass is refused. Names are requested with `REPLACE_EXISTING` and without
`ALLOW_REPLACEMENT`: an owner stays, the others wait in the daemon's queue.
An interface has one method and one signal, which is what merging needs.

### MINI, Config, UdsServer, MCUdsServer

The program `test/uds_server.cpp`, in several processes: `Config::Init`, then
`remove_unixsock`, then `listen_unixsock`. `pc` is the place in `main`; a step ends
at a system call, because processes share the ini file and the socket's path
without a lock.

`MINI.tla` has `parse` and `dump` over lines (`Lines`: sections, pairs, lines that are
skipped, and lines on which `trim` throws) and maps (`IsMap`). The loop of `parse` is
the function `TagAfter` (its variable `tag`) and the function `Assigned` (the map, to
which `Put` adds a line); that of `dump` is the function `Dumped`. `Config.tla`
has `fileExists`, the truncation, the write, `tellg` and the read as steps:
`OpenTruncated`, `WriteDump` (over whatever is there by then), `OpenToRead`,
`ReadFile` (a file that shrank leaves zero bytes, `Buffer`), the failures that `Init`
ignores (`DumpFails`) or reports (`OpenFails`, a throwing line), and an
administrator's `Edit`. `UdsServer.tla` extends it with the socket file: `CheckSocket`
and `RemoveSocket` are `remove_unixsock`; `SocketFails`, `Bind`, `BindFails` and
`Listen` are `listen_unixsock`; `Connects` is `UdsClient`'s connect; `Kill` leaves the
file of the socket behind (`Dead`).

### ThreadPool, HttpSockets, HttpRequest, HttpServer, HttpClient, HttpExchange, MCHttp

`HttpSockets.tla` is what the kernel promises of a connection: two streams of whole
pieces (the head of a message, its body), two ends that are open, shut down or
closed, a backlog, and descriptors whose numbers are used again once both ends are
closed. `ThreadPool.tla` has the critical sections of the pool: `Enqueue`,
`PoolShutdown`, and of a worker `WorkerWaits`, `WorkerTakes`, `WorkerDone`,
`WorkerLeaves`.

`HttpRequest.tla` is `process_request` as a function of a request: `ProcessRequest`
gives the status, the handler that runs, and how much of the body has been read.
Early returns and the branches of `routing` are lists of rules, of which the first
that applies counts (`FirstOf`). `HttpServer.tla` puts it between the threads:

| Action | Code |
|---|---|
| `ListenUnixsock`, `ListenInternal` | `UdsServer::listen_unixsock`; the start of `listen_internal` |
| `Accept`, `AcceptFails`, `LoopEnds`, `ListenReturns` | its loop, its failures, `shutdown` of the pool and the join |
| `ServerStop` | `Server::stop`, by any thread, while `is_running_` |
| `TakeConnection`, `KeepAliveTimeout`, `CloseConnection` | a worker's job: `process_and_close_socket` and the loop of `process_server_socket_core` |
| `ReadHead`, `ReadBody`, `Answer` | `process_request`: up to the headers, the body (or its timeout), `write_response` |

A body that nobody has read comes to `ReadHead` as the next request (`ReadAs`): as a bad
line, or as any of the requests in `Strays`, and there may be several in it (`Behind`).
A head that could not be parsed is answered without a look at its `Connection` header
(`ReplyTo`). What `write_response` returns may be true although only a part of the answer
was written, as the failures to write the head or a chunk's end are not looked at
(`Answer`).

`HttpClient.tla`: `Begin` is the critical section in which `send_` looks whether the
kept socket is alive and otherwise connects; `WriteHead`, `WriteBody`, `TakeAnswer`,
`ReadEnd` and `ReadTimeout` are the exchange; `Follow` is `redirect`, a `send_` within
the request (`TakeAnswer` has those that fail for want of a location and those to another
host, which a client of their own sends); `End` is the `scope_exit` of `send_`, and `ClientStop` is `stop` by another
thread. `HttpExchange.tla` composes the two sides, which share only the sockets.

### BodyTransfer, MultipartFormData, Ranges, PathParams, ClientRequests, QueryText, HttpMessages, MCMessages

`BodyTransfer.tla` is one body on its way: `Provide`, `ProvidePart`, `ProvideNothing`,
`ProvideDone` and `WriteFails` are the three `write_content` functions with a provider
that writes any number of tokens, gives up or writes nothing, and a chunk whose write
fails part-way; `ShutDown` is a stop of the server
meanwhile; `ReadPiece` and `ReadSize` are the three readers, which see any number of
the tokens there are; `ReadFails` is an error, the end of the stream or a timeout, and `ReceiverRefuses` the
receiver that returns false.
A form goes through `MultipartFormData.tla`: `Serialize` is the writer, `Parse` the
parser with its five states, called once for each piece. No content holds a whole
delimiter (`IsForm`, `FormsAssumption`): the boundary is random.

The other four are pure: `Ranges.tla` has `parse_range_header`, `range_error` with its
guard on the status (`Success`; the ranges of other answers stay unresolved, `Checked`),
which ranges the head of an answer is about (`Declaring`: with status 206 only) and which
its content is (`Writing`: for a content provider those of the request, whatever the
status), what is declared and written of them, and the assertions of
`get_range_offset_and_length` (`Asserted`); `PathParams.tla` compiles a pattern (`Scan`,
the loop of the constructor, and `Compile`), matches a path (`Match`) and has
`path_params` by name (`PathParamsOf`: `emplace` keeps the first value of a name); `ClientRequests.tla` says what each method of the client
makes of what it is given, which headers `write_request` adds (`Framed`), which bytes
follow (`Body`) and what the server's `read_content` takes of them (`Taken`);
`QueryText.tla` has `encode_query_param`, `encode_url`, `decode_url`,
`params_to_query_str` and `parse_query_text`, character by character, since the
encoding is the subject; `encode_url` stops at a character NUL. Its constants say which characters there are, their two
digits, and which of them the two encodings leave (`CodeAssumption`, `CharsAssumption`:
digits tell characters apart, and nothing that separates or escapes is left by
`encode_query_param`); `%u` escapes, which no encoder here writes, are left out.
`HttpMessages.tla` puts a transfer and one question to the pure operators into one
specification.

### BlockingQueue, Fifo, MCBlockingQueue; CountDownLatch, MCCountDownLatch

Everything shared is touched under the mutex, so a step is a critical section,
cut where `wait` releases the mutex. A woken thread competes for the mutex with
those that never slept; condition variables wake spuriously. `Fifo.tla` is the
abstract queue, whose only fairness is that some thread takes an item while there
are items and threads that ask.

## 4. The runs

| Run | Instance | Shows |
|---|---|---|
| `server_shared` | client + server in one process, 2 names, 2 interfaces, with fairness | when a connection is shared: `ConnUsable`, `RetryArmed`, `ProxiesFresh`, `NoSilentLoss`, `StartedExports`, `ServerHearsOnce`, `Recovers`, `ImplementsSession` |
| `server_rivals` | client and server in their own processes, 1 name, 2 interfaces, one of them broken, `ReleaseOnQueued = FALSE`, with fairness | `NoGhostClaim`, `ExportsComplete`, `ClientHearsOnce`, `RivalsAlternate` |
| `timer` | 2 timers, 5 sources | ownership of sources, refinement of `Timer` |
| `queue` | 3 threads, 2 items, length 3 | no lost wakeup; refinement of `Fifo`, liveness included |
| `latch` | 3 threads, count 2, 3 calls of `countDown` | `WaitersPass` |
| `calls` | a GLib and a libdbus process, everyone calls everyone, 2 calls, with fairness | `TrueMeansAnswered`, `CyclesBlock`, `CallsSettle`, `ImplementsCalls` |
| `libdbus_rivals` | 2 servers and a lender, 1 name, 2 handlers, 1 message, with fairness | `OwnerKept`, `RegistryMatched`, `Served` |
| `uds` | 2 processes, 7 keys, 3 sets of defaults, 2 edits, with fairness | `ConfigReads`, `Covered`, `RestartServes` |
| `http` | 2 clients (one kept alive, redirected, stopped), 1 worker, queue of 1, 2 connections, 2 requests per connection, with fairness | `InStep`, `SocketsOwned`, `WorkersReturn`, `ListenEnds`, `CallsEnd` |
| `messages` | 8 bodies, every split into reads; ranges, paths, client calls and parameters up to a small size | `WholeOrRefused`, `PartsInOrder`, `TransfersEnd`; `AcceptedRangesServed`, `CapturesExact`, `CallsFramed`, `QuerySurvives` |
| `libdbus_takeover` | 2 servers, 1 name | violates `OwnerServes`: see below |
| `http_stop` | the stopped client of `http` alone | violates `StopHolds`: see below |

Two runs are expected to fail.

`libdbus_takeover`: the tool's `listen_method` and `listen_signal` and
`test/dbus_server.cpp` ignore what `init` returns. With the name taken, `init` has
queued for it but added no filter; when the owner ends, the daemon hands the name
over to a process that logs that it listens and refuses everything.

`http_stop`: `ClientImpl::stop` sets a flag "for the socket to be closed when we're
done". A redirect calls `send_` again within the request, and `send_` begins by
setting the flag to false: a stop that came before is forgotten, the client
connects anew, and the new socket is kept after the request.

Bounds. Two endpoints in a process are enough for one to hold the connection the
other lost, with a foreign program to take one name; two processes are enough for
two endpoints to rival. What more of them add is proved (section 5). `Many = 2` counts subscriptions up to "more than once".
`MaxId = 5` sources allow a restart of a restarted timer while another timer's
callback runs. One destination suffices for a stale proxy. A queue of three items
with three threads has a thread asleep, one woken and one that never slept at once.
Three calls of `countDown` on a latch of two count below zero. Two calls make a
cycle of two processes or of one, and leave one request behind a timeout while the
other is made; what more calls and longer rings add is proved. Two handlers
distinguish the first from a later one.

Two processes are enough for each race on the ini file and the socket path, a
killed process being the third party; the keys are one with and one without a dot,
two sections, and the zero bytes of a torn read.

In `http` one worker and a queue of one make an idle connection hold up another
one, and the queue full; two connections make a redirect reconnect while the server
still has the old one, and use a descriptor again while somebody could have kept
its number; the body nobody has read is a bad line or another request like it. `KeepAliveMax = 2` reaches the count's end on a kept connection,
`MaxRedirects = 1` both the redirect and its refusal. In `messages` a body has at most
some twenty tokens, of which the connection holds `Window = 6`, more than any
delimiter; the first content of the form ends with the beginning of one. Ranges are
all lists of up to two and longer ones over four positions and contents of three
lengths (`RangeMaxCount = 4` is exceeded and reached), in a body or by a provider, with a
handler that sets no status, 200, 206 or 404; one path pattern repeats a name; paths have up to
`MaxPath = 4` characters behind the first separator; parameters are one with values of
up to three characters, among them one of each kind the encodings treat specially, or two
with one character each; calls give 0, 1 or 2 bytes, parameters or items.

Deadlock is checked but in `latch` and `messages`: once every thread has passed and
the calls of `countDown` are used up, and once a body is at its end, nothing is left
to do.

Fairness. `Fairness` of the connection asks that main loops run their callbacks, GLib connects
when the bus is up, and the daemon answers: `WF` of each. Nothing is asked of
users, other programs, crashes, or the bus. `Recovers` has a premise of its own:
the process is again and again without a closed connection. Two endpoints that
share one can otherwise re-hold the closed connection for each other for ever;
in time this cannot go on, since a request on a closed connection fails at once
and the retry comes a second later, but the model has no clock.
Threads get the mutex in the end (`WF` of `Pop`, `Wait`); which of several, nobody
says. In `DbusCalls` answers arrive, timers expire, and handlers and callbacks
return (`WF`); a loop serves every ready source again and again, hence `SF` of
`Dispatch`, which the program's own callbacks disable in between. A libdbus
program reaches its loop and the loop goes on (`WF` of `GoesOn`). A process of the unix socket
server goes on running (`WF` of `Run`) until it is killed. In `HttpExchange` every thread
that can go on does (`WF` of each worker, of the thread in `listen`, of each thread in a
request), which includes the server's keep-alive and read timeouts, since those are
steps of its workers; the *client's* read timeout has no fairness, so that `CallsEnd`
does not rest on it. In `BodyTransfer` both ends and their timeouts go on, but nothing
makes a provider fail or end early.

What the properties except, each because the code gives no more: `InStep` excepts
connections on which the server has answered without reading the body, or has timed out
on it (`left`), which it then reads as a request; `ConfigReads` is about reads that got the
whole file; `WaitersPass` is about behaviours in which the count stays at zero;
`RegistryMatched` excepts interfaces for which `add_interface` has returned false;
`Served` is about arguments that are JSON; `AcceptedRangesServed` excepts content
providers whose handler has set a status other than 206 (see below); `WholeOrRefused` excepts bodies that end
with the stream, and `PartsInOrder` forms whose first read broke the first delimiter
(`cut`), which lose their first item; `CallsFramed` excepts a redirect with 303 of a
request with a content provider, which keeps the provider while its
headers are cleared; `QuerySurvives` is about keys that are not empty, hold none of
`&`, `=`, `%`, `#` and NUL and do not begin with a tab, and in a form, which is not encoded as
a whole, hold no `+` and do not begin with a blank either, as `params_to_query_str`
encodes values only; and of a pair that is given twice it expects one, as
`parse_query_text` does.

`ReleaseOnQueued = FALSE` is checked in processes of one endpoint only: with a
shared connection the claim stays in the daemon's queue, is granted later to a
registration that no longer exists, and every retry is then answered
ALREADY_OWNER. Programs in this repository have one endpoint per process.

## 5. The proofs

`G_DbusProofs.tla` proves, in its first half and for all endpoints, processes and names,
`TypeOK`, `ConnUsable`, `OneRegistration`, `RetryArmed`, `ProxiesFresh`,
`NoSilentLoss`, `BusLossSurvived`, `NoGhostClaim` (assuming `Tidy`: unowning
releases queued claims, or no two endpoints share a process) and the safety half
of `ImplementsSession`. The inductive invariant `IInv` adds to them what they
need of each other: an endpoint is registered or backing off exactly when
started (`LifeCycle`), a process has a connection while anything holds it
(`LinkHeld`), a closed connection has no proxies and no names left
(`ClosedLinkIdle`), `NameLost` is under way only to a registration that listens
(`LostListens`), claims belong to open connections (`ClaimsOpen`), and only
clients have proxies (`ClientProxies`). Most actions disturb little; the work is
in `OnNameLost`, where giving up one registration may close the connection under
the others: `Held` makes that impossible while `conn_` of another is set.

Its second half proves that every step of servers and clients is a step or a
stutter of the connection (`ServersAreConnections`), and with the `IInv` of that the type
invariant, `ServerHearsOnce` and `DispatchFinds`, in any deployment; its own part of the
invariant, `ExportsLinked`, says that what is exported is on a connection that exists, by
a started server of its process. `StartedExports` is proved for one server in each process
(`OneServer`), from `StartedKept`: a server's first `on_bus_acquired` on a
connection meets no export and so registers all it had at `start`; the later ones return
early and take nothing away.
`ExportsComplete` and `ClientHearsOnce` are proved for one endpoint in each process
(`Alone`), from `StartsAfresh`: such a process loses its connection with its name, so
that nothing is left of the last one. `ServersAreConnections` gives servers what is proved
of connections.

`G_TimerProofs.tla` proves the type invariant, `SourcesOwned`, `NoAlias`,
`CallsSpareOthers` and the refinement of `Timer`. The invariant says that
numbers above the last one are free, that a source in dispatch is its timer's,
and that each live source is known to its timer.

`MonitorProofs.tla` proves of the queue the type invariant, `NoLostWakeup` and the safety
half of `ImplementsFifo`. `NoLostWakeup` needs the finiteness of the threads and
what a step does to the number of woken ones: `push` adds one item and one woken
thread, and a thread goes to sleep only on an empty queue.
Of the latch it proves the type invariant, `NobodyEarly` (from
`count = Count - downs`) and `NobodyLeft`.

`DbusProofs.tla` proves of `DbusCalls` the type invariant, `TrueMeansAnswered`, `CyclesBlock`
and the whole refinement of `RemoteCall`, for any processes, pattern of calls and
number of calls. The invariant ties each blocked, queued and running call to its
process (`Waiting`, `Queued`, `Handling`), says that no queue holds a call twice
(`NoRepeats`) and that handler, answer and reply agree (`Answered`). The lemma
`BlockedServerIsSilent` is the heart of `CyclesBlock`: the queue and the handler of
a blocked process stand still.
Of `DbusServer` it proves `OwnerKept`, `RegistryMatched` and `HandlersKept`, for
any servers, names and claimants; `Fresh` says that a process before `init` has
nothing. `RegistryMatched` holds of the interfaces whose rules were not refused: those
enter `lut_` and `matched` in one step, and a merge changes neither.

`UdsServerProofs.tla` proves `Covered` for any number of processes. The invariant
`PathOwed` says who owes the path a socket: a file of a dead socket has a process
that is still to remove it, a path that is gone although somebody listens has one
that is still to bind, and a kill leaves that debt with the killed process.
It also proves the type invariant and `ConfigReads`, for files of any length. `Typed` says
that a process that opens, writes or reads has a file of lines. The loop of `parse` is
compared with what a file means (`MapAfter`: the last line that names a key decides) by
induction over the lines.
`DumpSurvives` says that what `dump` writes of a map of any size `parse` reads: each key
has its value again and there are no others. By induction over the rounds of `dump`,
what is written says of the keys so far what the map has (`Written`, `Says`). A key
without a dot comes back with one in front, so the theorem wants a map in which no two
keys are the same but for that dot.

`HttpExchangeProofs.tla` proves the type invariant, `SocketsOwned` and `InStep`, for any
number of clients, connections, workers and requests, and whatever the handlers do.
`SocketsOwned` has the invariant `OwnInv`: the two ends of a connection begin together
and neither is used again before both are gone (`Ends`), the client's open ends are the
clients' sockets, one of each (`OneClient`), an open end of the server is in the backlog, in
the queue or with one worker and in only one place of these (`OnePlace`), and the life
of the pool and of each request agrees with what they hold (`PoolLife`, `ClientLife`).
`InStep` needs `StepInv` on top: a stream whose reader is gone is empty (`Streams`), a
worker waits only for the body of a request that has one (`Bodies`), and what is under way
on a connection fits the client's place in the exchange and the worker's (`Exchange`).
The lemma
`BodyUnread` says when the exception of `InStep` arises: a server that answers a request
without its body has left that body unread.

`HttpMessagesProofs.tla` proves `WholeOrRefused` for every set of bodies, every cut into
writes, chunks and reads and every end of the writer. Its invariant `WholeInv` says that
what has been read and what is under way are together what was written (`Conserved`),
that what is left of a declared length and what has been read make that length
(`LengthKept`), that the chunk being read and the chunks announced after it make up what
is under way (`ChunksKept`), that a chunk of size zero comes last and only from a writer
that was done (`ZeroIsLast`), and that a reader that took the body for whole has all of it
and no more will come (`Finished`). A chunk whose write fails part-way leaves what is under
way short of what was announced, with a writer that has given up (`Unbroken`).
`FormsInOrder` proves `PartsInOrder`, for every form and every cut, with the invariant
`FormInv`. Until the first piece has missed the first delimiter, the parser is where the
form read so far puts it (`Carried`): its buffer, what is under way and what is still
unwritten are together what is left of the form, and it has handed on the first items
with their contents and of the item that is coming a beginning. A parser that is
content has met the end of the form (`Settled`).

The pure operators are proved about for inputs of every size. Induction over data is
written as an induction over a set: of the lengths for which a claim fails one would be
the least.
`EveryCallFramed` (`BodiesFramed` as a property of the run): whichever method of the client
is called, and after up to two redirects, the server takes exactly the body that the
client writes.
`RangesAsMeant` (`RangesAnswered`): unless a provider's handler has set a status other
than 206, what is not refused as a range error declares as many bytes as it writes: with
206 the positions that the header means, and otherwise the whole content; and with any
status of success no assertion about the ranges fails. No position is
written more than three times: of the ranges that write a position all but one overlap an earlier one, and
`range_error` allows two that do.
`CapturesAsMeant` (`PathsMatched`): the rounds of the constructor cut the pattern at its
parameters (`Cuts`), the pattern is filled in parameter by parameter (`Filled`), and after
k rounds `match` has the values exactly if the path begins with the pattern filled in up
to the end of the k-th parameter (`SoFar`). `path_params` has these values by name, for a
name that the pattern repeats that of its first place.

`QueryTextProofs.tla` has the lemmas about sequences that these proofs share, and two
theorems. `EncodingSurvives`: an encoded text never ends within an escape (`Closed`), so
that decoding goes on character by character. `ParametersAsMeant` (`ParametersSurvive` as a
property of the run): the text of parameters comes apart at the separators that were put
in, one piece for each parameter; a piece comes a second time exactly if its parameter
does, because the encoding is injective; and `encode_url` over an encoded text only
encodes more characters.

Assumptions used are those the modules name (`ASSUME`), evaluated in each run.
Liveness (`Recovers`, `RivalsAlternate`, `CallsSettle`, `WaitersPass`, `Served`, `RestartServes`,
`WorkersReturn`, `ListenEnds`, `CallsEnd`, `TransfersEnd`, the
fairness halves of `ImplementsSession` and `ImplementsFifo`) is model-checked only: it
needs `ENABLED`. Type invariants that are proved, and other
invariants that are (`OneRegistration`, `BusLossSurvived`, `HandlersKept`), are not run again.

What `Ranges` shows and no property forbids: `range_error` checks and resolves the ranges
of a request only for an answer with a status of success (httplib.h:4878), while
`write_content_with_provider` takes them whatever the status is (6229-6231). A handler that
sets 404, say, and a content provider with a length brings unresolved ranges to
`get_range_offset_and_length`, which asserts that both positions are there and in the
content (4934-4937). With a status of success that the handler sets itself, other than 206,
the ranges are resolved, but the head declares the whole content (6646-6648) and only the
ranges are written.

What the model of `Config` shows and no property forbids: a process can read a file
that another has truncated and not written yet, or one of mixed contents, and start
with its defaults or a part of the file; a process killed between the truncation and
the write leaves an empty file, into which no later start writes the defaults; a
default whose key has no dot cannot be changed in the file.

## 6. Not modelled

The formatting of XML and JSON, logging, argument handling of the tools; the
destructors of endpoints while their process goes on; the wrap of GLib's 32-bit
source numbers; everything section 2 lists as left. Of httplib: TLS, compression,
TCP addresses and proxies, which nothing here builds or uses; static files, MIME
types, cookies, authentication, base64 and digests, the pre- and post-routing and
logging callbacks; content decoding; the wording of headers; the limits on the lengths of
request lines, headers and targets.

What is there at a coarser grain than in the code:

* `G_DbusServer`: the registry holds interfaces, not their handlers. That
  `add_interface` *replaces* the handlers of an interface it already has
  (g_dbusServer.cpp:165) is not seen; what is exported, and when, is.
* `DbusServer`: a reply that cannot be allocated or sent (dbusServer.cpp:122-125,
  142-145) takes libdbus running out of memory, and is left out.
* `MultipartFormData`: CRLF, the boundary and the dashes are one token each, so that a
  read never ends within one; the guards for less than one of them (httplib.h:4668, 4673)
  are not met. A receiver that refuses ends the read in `BodyTransfer`, at any token.
* `HttpExchange`: interim answers (100, and 417 with the final one) are in
  `HttpRequest.Responses` but not on the streams; the client skips a 100.

Known to be delicate, and in no model: the handler of SIGTERM logs, and would wait for
itself if the same thread held the logger's lock; the destructor's `fini(false)` gives
up a reference to the connection that was never taken; `u_dbus publish` ends before its
signal is flushed; `singleton.h` lets a thread ask for the instance after its
destruction; a socket path of 107 bytes or more is cut by the server and looked for
uncut by `remove_unixsock`; a client process without a `Server` can end by SIGPIPE when
its peer closes between `is_writable` and `send` (httplib.h:5669); two threads that call
`Server::stop` at once run into its assertion (6067), and a stop before `is_running_` is
set is lost; a failing `accept` closes `svr_sock_` without invalidating it (6485); the
set that should refuse a parameter's name used twice in a pattern is never filled (5730),
and the name has the value of its first place;
a body without length ends well at an error (4020).
