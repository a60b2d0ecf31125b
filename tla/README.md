# A TLA+ model of the IoT Smart Gateway

The gateway is one process that reads numbers from devices over HTTP(S) at
chosen intervals, keeps the latest fifty of each, and serves them, together
with a web page, over an HTTP API. This directory holds TLA+ modules for it
and for the parts of the bundled HTTP library it runs on, the TLC
configurations that check them on small instances, and proofs for TLAPS.
Source paths below are relative to the repository root; the C++ sources are in
`src/`.

## 1. The system

| Part | State | Operations | Talks to |
|---|---|---|---|
| `Simple::Signal` (`src/clib/simple_signal.hpp`) | one array of words holding both closures and the free list, `free_beg_`, `size_` | `connect`, `disconnect`, `emit` | runs the closures connected to it; not synchronised |
| Session manager (`src/clib/session_manager.hpp`, `observation_module.hpp`) | map from handles to observables, 10000 at most; a mutex beside it | `create` (draws a handle at random), `get`, `collect`, `remove` | guarded by its users |
| Timer (`src/clib/global_timer.hpp`) | `basis`, the thread, the signal it inherits from | `execute`: once a second `emit` | started by the first `getTimer()`, that is by the first add |
| HTTP handlers (`src/http-server.cpp`) | `observable_callbacks`, a function-local static map | add, update, remove, observe-once, get-iotdata, get-uptime, static files | one server thread; sessions, signal, HTTP clients |
| The callback of an observable (`src/http-server.cpp:171-198`) | the captured handle | read the device if due; disconnect itself if its observable is gone | timer thread; mutex, sessions, signal, map, HTTP clients |
| Start-up and CLI (`src/source.cpp`) | `load_progress` | spin until both servers are up, then read commands | `main`'s three threads |
| CoAP server (`src/coap-server.cpp`) | none of its own | answers `GET /hello` | `load_progress` |
| CoAP client (`src/coap-client.cpp`) | | never called | |
| Simple-Web-Server (`src/http/`, bundled library) | connections, timers, send queues, connection pools | server, client, message parsing, handler shutdown | asio |
| Web UI (`web/`) | | polls `get-iotdata` | the API |

What is hard here. Two threads share the sessions, the signal and the map of
slot handles. The sessions are always used under the mutex, and the callback
keeps it while it waits for a device. Signal and map are used under it by the
handlers, but the callback's error path, which disconnects the callback of a
removed observable, runs after stack unwinding has released it. Removal is in
two steps (session now, callback when the timer next runs it) with a handle
that can be given out again between them. The signal is written to while it is
being scanned. Time comes from a clock that may be adjusted. Devices may fail
or never answer. Below that, the library's client gives a connection back to
its pool before it has locked the pool, tries a request a second time in
silence when a reused connection turns out to be gone, and frames answers in
six ways over buffers of limited size; its server sends files through one
static buffer; clients and servers are destroyed while their handlers may be
running. Three threads come up and wait for each other through a counter.

What makes each part correct:

* Signal: no slot lost, none both free and used; `size_` counts; an emission
  invokes everything connected throughout; `emit` ends.
* Sessions: handlers and timer see an atomic store; values belong to the
  parameter shown.
* Timer and callbacks: every observable has exactly one callback, which is
  found through the map; readings are spaced by the interval; a removed
  observable's callback is pruned; the process survives all of that. The code
  falls short of this in three ways, and the properties say which.
* Requests end although they wait for the mutex.
* Connections: a resource function gets the whole request, answers come in
  order, no connection goes without a reason and no wait for a client lasts
  for ever; a client
  that downloads gets its files, block by block, and none of another's.
* API: an error names a fault of the request and changes nothing; what a client
  was told of a handle stays true; only named causes leave it without an answer.
* Client: a connection carries one request at a time, a request is answered
  once and whole, fails for a cause, is written twice at most and ends.
* Shutdown: after `stop` no handler is running or gets in.
* Start-up: the prompt means that both servers serve; the port is reported
  before any request; `exit` is obeyed.
* Parsing: no parser throws, what is taken apart makes up the text again, and what
  was read and is written again is read the same.

## 2. Modules

| Module | What it is |
|---|---|
| `SlotTable` | abstract: a bounded table of callbacks |
| `SimpleSignal` | the signal's array word by word, used from one thread and by the callbacks it runs; refines `SlotTable` |
| `SimpleSignal_proofs` | its invariants and the refinement, proved |
| `ObservableStore` | abstract: sessions as an atomic store |
| `Gateway` | handlers, timer thread, callback, mutex, signal and map; refines `ObservableStore`; uses `SimpleSignal`'s invariants through an instance |
| `Gateway_proofs` | mutual exclusion, values match the parameter, readings an interval apart, the refinement; and that only three mishaps end the process or lose a callback, proved |
| `WebServer` | the connections of the HTTP server: framing, timers, resource functions, keep-alive |
| `WebServer_proofs` | timers cover every wait, answers in order, whole requests, causes of drops, proved |
| `StaticFiles` | files sent through `Response::send`, its queue, and the static buffer |
| `StaticFiles_proofs` | what clients receive and how much of a file is held, proved |
| `HttpApi` | dispatch, validation and answers of every endpoint |
| `HttpApi_proofs` | the store against what clients were told, true answers, causes of drops, proved |
| `WebClient` | the client: pool, connecting, writing, reading of every framing, second attempt, timeouts, stop |
| `WebClient_proofs` | the pool, who uses which connection, what the application is told, how often a request is written, what is on the wire, and that requests are answered whole, proved |
| `Gate` | abstract: a gate that closes when all are out |
| `ScopeRunner` | the atomic counter of the handler shutdown, load by load; refines `Gate` |
| `Startup` | `main`, its three threads and the event loop, until and after the prompt |
| `Startup_proofs` | what the prompt means and when the port is reported, proved |
| `HttpParsing` | the parsers as functions over texts |
| `Utility_proofs` | of the parsers, for any text: what the run checks; of `ScopeRunner`: its invariant and the refinement, proved |
| `MC...` | model values and workloads for TLC |

### SimpleSignal

`word[s]` is the word with index `s`. As in the code one array serves two
purposes: a word holds a callback (a member of `Callbacks`, which stands for a
heap pointer), or the index of the next free slot, or `Null` in the terminating
slot, and `IsCallback` is the code's test `*p && !is_inside_buff(*p)`.
`Connect`, `Disconnect` and their throwing variants are one action each, since
a single thread runs them; `emit` is a loop whose iterations are separate
actions, and between `EmitCall` and `EmitReturn` the callback may connect and
disconnect, itself included. `owed` and `joined` are history variables: which
slots have been connected since the emission began without being invoked, and
whether `connect` was called since then.

### Gateway

The HTTP thread's place is `hpc`, the timer thread's is `tpc`; an action is
what lies between two points where the other thread can interfere. Under the
mutex that is coarse (a handler's read of the sessions is one step); `connect`
and `disconnect` are taken apart into the loads and stores of `free_beg_`, of
the words and of `size_`, because the callback's `disconnect` is not
synchronised with a handler's `connect`. In that race each load or store is
atomic and sequentially consistent, which is kinder than C++ is: a violation
shown here is a real interleaving, but the code's undefined behaviour allows
more. Two overlapping uses of the map (`MapRace`) and a free list followed
into a closure (`ConnectCorrupt`) end in `fate = "undefined"`, an exception out
of the timer thread in `fate = "terminated"`; a behaviour stops there.

Abstractions. An observable is its parameter, interval, kind of device, values,
and the seconds since the last reading by the system clock (`elapsed`) and in
truth (`gap`); `ahead` is what the clock was set forward by in between
(`ClockForward`), `behind` says that it was set back behind the last reading
(`ClockBack`). A value remembers the parameter it was read for and whether it
was really read. A device is `"http"` (answers or fails), `"coap"` (the switch
has no case for it: 0 is recorded at once) or `"silent"` (never answers). The
basis of the timer is `since`, the seconds since. A word of the signal is the
handle its closure captured. Freed memory holds what it held or anything
(`FreedReads`). Requests that fail validation are answered before the mutex is
taken and change nothing; they are not received here.

Two things the model shows in a single step are no runs: a reading that fails,
and any reading of a coap device, is stored as 0 (`Extract`, although
`src/README.md:142` calls the values collected), and observe-once to a device that
accepts the connection and stays silent never ends (`Once`, although
`src/README.md:95` promises an empty json), for the clients have no timeout.

What the code gets wrong is part of the model, and `mishaps`, a history
variable, records it. `"overlap"`: a handler goes on to `connect` while the
timer thread looks up, disconnects or erases a callback without the mutex
(`http-server.cpp:195-196` beside `171`). `"reuse"`: a handle is given to a new
observable while the callback of an earlier one is still connected
(`session_manager.hpp:64`). `"stray"`: `erase` reads the handle from the closure
`disconnect` has just deleted, and it is another's. After the first of them
signal and map may be in any disorder, and the process may end; `CallbacksInv`,
`Survives`, `Pruned` and `ObservedEventually` are about behaviours up to it.
They restrict nothing that clients may do: what they say is that these three,
and neither a full manager, a full signal, a failing device nor any other
interleaving, are how the program comes to grief. `refused` are the handles whose `connect`
threw after `create`: these observables exist and have no callback. The
properties of the sessions (`CollectedUnderParam`, `Spaced`, `ImplementsStore`)
hold whatever has happened.

Bounds, each a CONSTANT: `MaxAdds` observables created in a behaviour, `Cap`
seconds counted, `MaxBack` seconds the clock goes back and `MaxForward` it goes
forward.

### WebServer

The server below the handlers, as `start_http_server` configures it: one thread
in the event loop, default timeouts. `stage[c]` is the operation pending on
connection `c`, or `"handle"` while the thread is inside the resource function
of its request; every completion handler is one action and needs
`handling = None`, since there is one thread. Clients send requests in parts (a
head, a body, the lines and data of a chunked body) that arrive in portions of
any length; a read up to a delimiter may bring in more parts than it needs,
which stay in `buf`. A read of exact length brings in one part, a chunk's data
together with its line end. A wait of the timer that has completed cannot be
taken back when the timer is replaced: `expired` stays. After `close` what had
arrived may still be read, but nothing can be sent. What a resource function
does is the outcome its request carries; `"hangs"` is one that never returns,
as `observe-once` for a silent device: it keeps the thread, and no handler of
any connection is run again. Bound: `MaxRequests` per connection; a client that
goes on to send requests keeps its connection for ever, so that the property is
`WaitsEnd`, about each wait, and not that connections end.
A client awaits each answer before it sends its next request; the code drops
the buffer with its session between two requests, so requests sent ahead may be
lost.

### StaticFiles

What follows when the default resource has found a file. `position` is the
file's read position, `shared` the static buffer, `stream` the buffer of the
`Response` and `queue` its send queue, whose entries are the contents sent with
one call of `send`. A block of the file stands for up to 131072 bytes; an empty
file, one of whole blocks and one with a rest take different ways through
`read_and_send`. `Threads` is there because the buffer's comment says "Safe
when server is running on one thread": with `Threads = 2` `ReceivesItsFiles`
fails.

### HttpApi

One request at a time. `Receive` takes a request, `FindResource` is the table
of regular expressions with its methods, and every endpoint is an action whose
guard is that all its checks pass (`Valid`); `Reject` gives the first error in
the order of the code. A body's fields are told apart only by what the checks
make of them, and an interval of `"-1"` is accepted as the code accepts it.
Handles beyond `MaxInt` stand for digits that make no `int`: `stoi` throws, in
`update-observable`, `remove-observable` and `get-iotdata` outside any `try`,
and the connection goes without an answer. What a device answers to
`observe-once` is part of the request (`DeviceAnswers`), and `Relayed` is what
becomes of it: JSON is passed on, and what `read_json` refuses or the client
reports as an error leaves an empty tree, `{}`. But `stoull` of a
`Content-Length` that is no number throws out of `io_service->run`
(`client_http.hpp:576`, `http-server.cpp:84`) and `write_json` does for a bare
scalar (`http-server.cpp:52`), in both cases past every `try`: there is no
answer. A silent device is `"hangs"` in `WebServer`.

### WebClient

A request is a `Session`; its `stage` is the pending operation, from resolving
over connecting, the proxy's tunnel and the TLS handshake to writing and
reading. A device answers in one of nine framings, in portions, or closes, or
stays silent. `calling` is the callback the thread is in, taken apart into
`Callback` (the connection is given back) and `Prune` (the pool is locked and
pruned, the application told), since a request of another thread may come
between them. Bounds: each request is made once, `Conns` connections exist at
a time, `Limit` parts of content fit a buffer.

A chunk larger than the response buffer (`"overlong"`) is what the code does
not provide for: what came before is passed on, `async_read` stops without an
error when the buffer is full (`client_http.hpp:730`), two bytes of content are
dropped as a line end, and the rest is taken for the size of the next chunk
(`SizeLine` of an `"astray"` part). The response then ends short, ends with an
error, or goes on, and its rest may be left to the next request. None of this
gives the `message_size` error that `client_http.hpp:143-144` announces for a full
buffer. `AnsweredWhole` excepts such responses (`Fitting`); nothing but that
the request ends (`RequestEnds`) is true of them. The gateway leaves
`max_response_streambuf_size` at its default, the largest `size_t`, which no
chunk reaches; sizes that wrap a `size_t`, for which `prepare` throws
(`client_http.hpp:725`), are left out.

### ScopeRunner

One action per load, exchange or subtraction of the counter; a weak exchange
may fail for no reason. Bound: `MaxEntries` handlers.

### Startup

`started` counts the threads `main` has started; `coap`, `http`, `server` and
`cli` are the places of `start_coap_server`, `start_http_server`, the thread it
runs the event loop in, and the command line. `queue` holds the event loop's
handlers in the order in which they became ready, so that the callback which
reports the port can be seen to come before any request. The inputs are the
interface lists of the host, a port that is free or taken, clients and lines
typed. A resource function may hang, as `observe-once` may.

### HttpParsing

A text is a sequence of character codes, a state is a text, and a step appends
a token, so that the runs visit every text of up to so many tokens. Positions
count from 0 as in the code, and `npos` is negative, as a huge unsigned number
is when it is read as signed. A multimap is kept in the order of insertion.
`Thrown` is what a `substr` beyond the end gives: in the `noexcept` parsers it
would end the process. Quirks that the functions show and no property forbids:
the last `?` of a target starts the query and the last `=` of a field its
value; the version loses its last character, whatever it is; a header value of
one blank is kept and is lost when written again; in attributes a semicolon
ends a quoted value, and `a=; b` reads on behind the semicolon.

## 3. Runs

| Run | Instance | Shows |
|---|---|---|
| `signal` | 4 words, 2 callbacks | invariants, refinement and completeness of emissions; `emit` ends |
| `gateway_fair` | 3 handles, 2 sessions, 2 slots, interval 2, adds, updates and removals in any order, garbage in freed memory | values match the parameter; up to the first mishap no crash, removed callbacks are pruned and new or cleared observables observed; requests end |
| `gateway_all` | 2 handles, 1 session, 1 slot, 3 adds, all requests in any order, the clock set forward and back | readings are spaced, the sessions are an atomic store, whatever else goes wrong; up to the first mishap one callback per observable, the signal intact |
| `gateway_reuse` | 3 handles, 3 adds, removals in between | *violation*: a reused handle ends in `std::terminate` |
| `web_server` | 2 connections; on one of them 2 requests of all framings and outcomes, on the other one request that may hang | requests served whole, answers in order, connections go only for a reason, and no wait for a client lasts for ever unless a resource function hangs |
| `static_files` | 2 connections, 2 requests each, 3 files | each client gets its files whole and in order, one block is held at a time, connections end |
| `http_api` | 2 sessions, bodies with at most two faults, handles known, unknown and too long, devices that answer anything | answers true to the request and the sessions; errors change nothing; nothing dropped but for the named causes |
| `web_client` | 2 requests from other threads, 3 connections, all framings | connections not shared or lost, answers whole and told once, failures and second attempts only for a cause |
| `web_client_ends` | 1 request over TLS and a proxy, both timeouts, chunks that exceed the buffer too | the request ends whatever the device does |
| `scope_runner` | 3 threads, 4 handlers | nobody inside after stop, the gate is implemented, stop returns |
| `startup` | 4 interface lists, 2 clients, 2 lines | prompt, port, service and `exit` as above |
| `http_parsing` | texts of 4 to 8 tokens | the parsers against plain definitions and against their inverses |

What the runs leave out on purpose. Some properties hold only because a
configuration keeps away from what breaks them; each is one change away:

* `EmitInvokesUnlessJoined` of the signal needs its proviso: a callback that
  connects another ahead of the scan uses up the count `emit` took, and one
  that was connected before is left out (`simple_signal.hpp:117`, although the
  comment at 115 says all callbacks are invoked).
* `CallbacksInv` but for `refused`: with more sessions than slots (the program
  has 10000 and 1000) `connect` throws after `create`, and the observable
  exists, is listed, and is never observed.
* `CallbacksInv` and `Survives` but for `"overlap"`: an update of `size_` is
  lost, so that a later emission ends too early; a slot is lost or doubled; the
  map is written by two threads. But for `"reuse"`: two callbacks share one map
  entry (`gateway_reuse`). But for `"stray"`: another's entry of the map is
  erased, and removing that observable ends the process.
* `Spaced` but for `ahead` and `behind`: a clock set forward makes an
  observable due early; after one set back the signed elapsed time is negative,
  compares as a huge number, and the observable is read at once
  (`src/README.md:41` promises the period).
* `RequestsFinish` with `"silent"` among the devices: a reading that never ends
  keeps the mutex.
* `WaitsEnd` but for `Held`: a hanging resource function holds every connection.
* `AnsweredWhole` without `Fitting` or `Unmixed` (sections 2 and 4).
* `DroppedForCause` of `WebServer` with chunked content on a persistent
  connection: the blank line behind the last chunk is not read; if it comes
  late, the next request begins with it and is dropped unread.
* `RequestEnds` with `ConnectTimeout = FALSE`: nothing limits connecting,
  although `client_http.hpp:141` says that `timeout` is used instead.
* `ComesUp` excepts a CoAP server that cannot start: the command line then
  spins for ever on `load_progress` and never reads `exit`.

Where code and documentation disagree, beside `gateway_reuse`. The properties
state what the code does, and the comments in the modules say so:

* a missing interval is answered with the error for missing members or with
  that for the interval, as the checks come to it; `src/README.md:245` has the
  former (`Faults` of `HttpApi` allows both);
* a handle that makes no `int` gets no answer; `src/README.md:247` has 404
  (`TooLong` in `DroppedForCause`);
* `observe-once` gives no answer for CoAP, for a bare scalar and for an
  unparsable length, and never ends for a silent device; `src/README.md:95`
  has `{}` for a response that is not JSON;
* a failed reading is stored as 0; `src/README.md:142` calls the values
  collected;
* a full response buffer is no error; `client_http.hpp:143-144` has
  `message_size`;
* `timeout` does not limit connecting; `client_http.hpp:141` says it does;
* `emit` may leave out a callback; `simple_signal.hpp:115` says all are invoked.

Why the bounds suffice. Three callbacks over four words let the table fill up,
slots be freed and reused out of order, and a freed slot lie before, at and
after the scan. Two observables and three handles (`gateway_fair`) let a handle
be reused while its old callback is connected, and let a second observable be
the victim of what happens to the first. Interval 2 against a timer of 1 makes
both outcomes of the test for due observables happen. Two adds are enough for
an erase by a stray handle to hit a second observable (`gateway_fair`, where
freed memory may hold anything). In `gateway_all` three adds are enough for the
other two mishaps and for every end they come to: two connects beside a
`disconnect` (`ConnectCorrupt`), or a reused handle's second one. One slot,
which the callback of a removed observable may still hold, makes `connect`
throw; one second in each direction is enough for the clock to make an
observable due early, or its age negative. Connections of the server share
nothing but the thread: one that sends every kind of request, and is continued
after each, beside one that sends a single one and may hang shows both what a
connection does and what another can do to it. A file of two blocks is enough
for a block to follow a block; two requests on a connection for an answer to
follow an answer. In the client, two requests and three connections let a
request take the connection of another at every step and still reconnect. Three
threads let `stop` race with two handlers or with another `stop`. Parsers look
at most two characters ahead or back, and at one or two positions kept from
earlier; 4 to 8 tokens put every pair of them together, with a field before and
after.

`CHECK_DEADLOCK FALSE` is set where the system really stops: after
`std::terminate`, with undefined behaviour, when all connections are gone, all
requests made, all handlers run or the process has ended, or where a bound
stops it (texts). `signal` and `http_api` check for deadlock.

Fairness. `FairSpec` of the signal: the thread inside `emit` runs, and
callbacks return. `FairSpec` of the gateway: both threads run (weak fairness of
their steps); a thread that waits for the mutex gets it if it is free again and
again (strong fairness of the two lock steps: the timer thread sleeps between
emissions, so a waiting handler meets a free mutex, and an operating system
does not pass it over for ever); devices other than silent ones answer or fail;
time passes. Nothing is assumed of clients. `FairSpec` of the web server: timers
expire; the event loop takes completed operations from a queue, so that a
handler that is ready again and again between those of other connections gets
its turn (strong fairness of the handlers that need nothing of the client); and
a resource function returns unless its request is one that hangs
(`RequestsFinish` shows it of those that wait for the mutex). Clients need not
send, read or close. `StaticFiles` takes the
same: handlers are run, timers expire, nothing is asked of clients. `FairSpec`
of `WebClient`: what has completed is noticed, timers expire and their handlers
run, callbacks return; nothing is asked of devices. `ScopeRunner`: a thread
inside leaves, and an exchange that could succeed does not fail for ever.
`Startup`: every thread runs, and the event loop notices what has arrived;
nobody need connect or type.

## 4. Proofs

`SimpleSignal_proofs` proves for every array size and every set of callbacks:
type correctness, `FreeListInv`, `SizeCounts`, `EmissionInv`,
`EmitInvokesUnlessJoined` and that `Spec` implements `SlotTable`. The free list
is not inductive on its own: a disconnect splices into it and a connect removes
its head, so the invariant carries the list as an injective sequence `chain` of
length `n` with `size + n = UpperLimit + 1`, and each step exhibits the new
chain (the tail for connect; one slot inserted after the head for disconnect).
That `size_` counts the callbacks follows from counting the slots off the
chain. These are lemmas about any array, head and count (`WholeAtFirst`,
`HeadOfWhole`, `WholeCounts`, `WholeConnect`, `WholeDisconnect`), so that
`Gateway_proofs` can use them of its own array. For emissions the invariant is
that the slots owed are exactly the connected slots ahead of the scan, and no
more than `left`.

`Gateway_proofs` proves for every number of handles, parameters, devices and
requests: an inductive invariant made of the types of the sessions and of both
threads' locals, the ownership of the mutex (a thread is inside its critical
section exactly when `lock` names it) and `CollectedUnderParam` strengthened
with the value in flight (between the reading and the storing, the value
carries the parameter the observable still has). From it: mutual exclusion,
`CollectedUnderParam`, that `Spec` implements `ObservableStore`, that sessions
and buffers stay within their capacities (`StoreBounded`), and that readings are
an interval apart, but for what the clock was adjusted by, whatever `MaxBack`
and `MaxForward` are (`ReadingsSpaced`; the invariant `Times` adds that no
observable is held to be older than it is but for these adjustments, and that one found
due stays due until its value is stored).
These proofs do not need the signal or the map to be in order: whatever the
unlocked disconnect does to them, the sessions are safe.

The signal and the map are another matter. `ProcessSurvives` proves `Survives`
and `CallbacksKept` proves `CallbacksInv`, for any numbers of handles, sessions,
slots, observables and requests in any order, with freed memory of any contents
and at every interleaving of handlers, timer, devices and clock. The theorems
take no hypothesis: that one of the mishaps has happened is a possibility the
properties name, and each can happen. What is proved is thus a diagnosis: no fourth thing goes
wrong. The induction is over `mishaps = {} => CInv`, and `CInv` joins facts none of
which is inductive alone:

* `Apart`: while no mishap has happened, no handler is between `create` and the
  entry in the map while a callback is between look-up and `erase`, and the
  callback that disconnects itself is of no living observable.
* `MapLeads`: a word holds the callback of a handle exactly when it is the slot
  `SlotOf` the handle: the slot of the map, but for the two moments at which
  the array has been written and the map has not.
* `NoneRefused` and `CallRuns`: an observable whose `connect` did not throw has
  a slot; the running callback is in the slot emit is at, and is what lookup
  finds.
* `ListWhole`: the free list of `SimpleSignal_proofs`, of the array as it will
  be when the operation in progress is over (`WordAfter`, `SizeAfter`). connect
  takes effect when it stores the new head, disconnect when the head links to
  the freed slot; at these two points the lemmas `WholeConnect` and
  `WholeDisconnect`, stated of any array, are cited through an instance.
* `Registers`: what connect and disconnect have read into locals still holds
  when they use it.

`Utility_proofs` proves of `ScopeRunner`, for any number of threads and
handlers, that the counter is the number of locks held, or -1 with none held, that nobody is
inside after a `stop` has returned, and the refinement of `Gate`. The
invariant adds to the types that an exchange expecting a value only succeeds
on it; each entering and leaving changes the cardinality of the threads inside
by one.

`Startup_proofs` proves for any interfaces, clients and lines that the prompt
means that both servers serve (`PromptMeansServing`) and that the port is
reported when clients can connect and before a request has been served
(`ReportedFirst`), with the types of the state (`StartupTypes`). The invariant: the counter is the number of servers that are
up, counted from the places of their threads (`Counted`); threads not started
have done nothing (`Births`); and until the port is reported, the callback is
in the queue with only accepts before it (`LoopInv`), so that no request can
have been read, let alone served.

`HttpApi_proofs` proves for any requests and any capacity of the session
manager that what a client was told of its observable stands (`StoreInv`), that
answers are true (`TrueAnswers`) and that requests are dropped for the known
causes only, whatever devices answer (`DroppedForCause`). `StoreInv` is inductive as it stands; the work
is in the order of the checks: that the first failing check names a fault the
body has (`RejectFaults`), and that a body passing all of them has none left but
an unknown handle (`ValidFaults`).

`WebServer_proofs` proves for any connections, requests and portions in which
bytes arrive that no accepted connection waits without a limit and answers come
in order (`ConnectionsInv`), and that resource functions get whole requests
(`ServedWhole`). None of them is inductive. The invariant says, per stage, what is
left of the client's bytes in buffer, socket and network together: between its
head and its answer, exactly the rest of the latest request that the stage is
to read, as its framing has it (`InStep`); otherwise, a head that is left starts the latest request,
not answered yet, and all of it (`HeadAhead`). Reads, transmissions and the new
session's empty buffer move the borders within these bytes or cut off their
front, which is why the proof is about pieces of one sequence. For the timers,
the stage in which the resource function runs must be covered too (`Covered`).
A step of one connection leaves the others alone (`StepLocal`), so that the
proof is about one connection at a time. Chunked requests need not close their
connection here, as they must in the run.

For `DroppedForCause` they must, as there (`ChunksLast`): the end of chunked
content stays unread, and on a persistent connection it would stand in front of
the next head. Under `ChunksLast`, `ConnectionsPersist` proves that a connection
goes for one of the listed causes only. The invariant `Aligned` adds that a
connection that goes on has nothing left of the request it has answered, so
that what it reads next is nothing yet or the whole next request. That is what
`ParseFails` needs: a head that does not parse is then a malformed one.

`WebClient_proofs` proves for any requests, connections and framings, with TLS
and a proxy or without, with other threads or without: the pool (`PoolInv`),
that connections are not shared (`Exclusive`), what the application is told
(`CalledOnce`, `FailsForCause`) and that a request is written twice at most
(`SentSparingly`). They share one inductive invariant, `IInv`. Its first half,
`PoolIInv`, says what a stage says of the rest of a session and of its
connection, and that a connection nobody refers to is gone. The second,
`UseIInv`, says who uses a connection: `SharingInv` (one request at a time, or
a stream of events beside others, and every connection marked as in use has a
user, which is what makes `inUse` and the users agree while a callback is
between giving its connection back and pruning the pool), `StreamInv` (a stream in the
pool has its reader), `IdleTakenInv` (a connection taken while idle is the
request's alone until `stop` takes it: the reason why its loss is never the
application's business), `AttemptInv` and `SendsInv` (a connection that may not
be tried again belongs to a second attempt, which has been written once) and
`TalkInv` (what the application has been told, by stage). The proof first sorts
the seventeen actions into seven kinds of steps (a request gets a connection,
goes on, calls back, starts anew, is pruned, throws, or others interfere) and
then shows the invariant once for each kind.

A second part of the module goes on to `AnsweredWhole`: a request that ends without an
error has its own response, and all of it. For this the sockets have to be part
of the invariant. `WireInv` says of every connection that is not a stream: if a
request uses it, then what its buffer, the socket and the device hold, in this
order, is what the request's stage expects (`Fits`): nothing, before it is
written; then its response from the head on, behind at most what an earlier
response left; then exactly the parts of its framing that follow those it has
taken (`Follows`); and if nobody uses it, at most such a leftover (`Rests`).
What a leftover can be is the blank line at the end of a chunked response, in
which no response can begin. That is where the hypotheses of the property come
from. `Fitting`: the rest of a chunk that exceeded the buffer is content, which
may pass for a head. `Unmixed`: behind a leftover the head of the next response is
malformed, its request fails, and if it was a stream of events, the events
stay on a connection that a third request may be given before `Prune` takes it
out of the pool. TLC finds that with three requests; `Unmixed` excludes just
it. The lemmas are about pieces of one sequence that is cut at
different places: delivering, reading and taking move the cuts, and leave the
sequence or drop its front.

`StaticFiles_proofs` proves for any files and any connections that clients
receive the answers to their requests (`ReceivesItsFiles`) and that a response
holds one block at most (`BuffersInv`), under `SingleThread`: the gateway runs
its server with the one thread of the default configuration, and with two TLC
finds `ReceivesItsFiles` violated. The invariant accounts for every part that is
owed to a client: what has arrived, what the queue or the stream holds, and the
blocks from `position` on make up the answers, in this order (`Reading`,
`Waiting`, `Closing`), until a write fails, after which what has arrived stays
a beginning of them (`Cut`); and between a read and the copy the static buffer
has the block the file is at, since nobody else is in a handler.

The answers are joined by `FlattenSeq`, a recursive function, so this takes
induction. The library's induction theorems have an operator as a parameter,
which the provers cannot instantiate, but that finite sets are well-founded
under inclusion (`FS_StrictSubsetOrderingWellFounded`) and that a set has a
minimal element then (`WFMin`) are stated without one: `LeastElement` takes the
numbers up to each `n` for `n`, `Induction` says that a *set* of numbers with 0
and all successors is everything, and from it follows that a recursive function
exists and what it computes (`SumsExist`, `FlattenAppend`).

With the same induction `Utility_proofs` proves of the parsers, for any text,
that none throws (`NeverThrows`), that the end of a head is found where a blank
line ends (`HeadEndIsBlankLine`), and `TakenApart`. A loop of the code is a recursive
function; `LoopExists` says that there is one, and one lemma for each loop
(`DecodingsAre`, `QueryScansAre`, `AttributeScansAre`, `MatchesAre`) what it
starts from, that each value comes from the one before, and its type. In the
types are the positions: where a name or a value begins is within the text
(`Scans`), and an attribute's end is only known with its begin (`Cuts`). For
the end of a head the invariant of the loop is `HeadScan`: what the counters
count was read, and, while no carriage return is doubled, what was read is
counted.

What is taken apart is what was there (`TakenApart`) for any text too. Of a
request or a status line it is arithmetic on positions: what `Find` returns
(`FindIsAt`) gives the cuts of the line (`Cut3`), and adjacent pieces make up a
piece (`Adjacent`). Of a query string the invariant of the scan is
`QueryScanned`: the fields found are those of the pieces before the current one,
its last equals sign, if it has any yet, is where the two positions say
(`LastEqual`), and no other piece has begun.

What is written is read again (`RoundTrip`), for any text. It takes two facts
of each format. Reading gives fields of a kind that can be written: the name of
a query's field is not empty and has no ampersand (`NamedFields`); a header's has
no colon, and its value begins with no blank unless it is one (`HeadFields`); an
attribute's name begins with neither a blank nor a semicolon, and has no
semicolon (`AttributeFields`, which needs an invariant of the scan,
`NamesScanned`). And writing such fields gives a text that is read as they are.
Encoded texts are concatenations of codes, and the decoder that has come to a
code takes just this one (`DecodeCode`), so `DecodeEncode` goes by their number.
A created query string is cut at its ampersands into the fields it was created
from (`CreatedPiece`), since encoding leaves none (`Neutral`). Lines that were joined are the
lines that are read (`LinesJoined`), and the field of a line is the one it was
written for (`HeadLineIs`), or, if its value is one blank, has none (`AsRead`).
Quoted attributes are read one by one (`AttributeRead`): between two of them
the scan is where it was at first, with one more field.

Assumptions are those of the modules: there is one more handle than sessions;
handles, slots and the null pointer are distinct; intervals stay below the
bound on counted seconds.

Only model-checked: the nine liveness properties (they need fairness and
`ENABLED`, which TLAPS does not handle here). Every other property of a passing run is
stated by a theorem.

## 5. Not modelled

* The gateway as its own device (`http-server.cpp:182`): the timer would hold
  the mutex while it waits for an answer that the server thread can only give
  with it. The composition of `Gateway`, `WebServer` and `WebClient` is too
  large to enumerate, and the deadlock is plain from `TimerLock` and `HttpLock`.
* Requests sent ahead of an answer (`server_http.hpp:760`): lost or kept as the
  bytes happen to arrive, so that no property holds of a client that does it.
* The synchronous `request` of the client, which runs the asynchronous one on an
  event loop of its own; destroying clients and servers (their handler shutdown
  is `ScopeRunner`); `stop` and upgrades of the server, TLS on the server side:
  the gateway uses none of them.
* `Date`, `status_code`, the hash and equality of field names, `crypto.hpp`,
  the asio shims: formats and tables without state, most of them unused.
* The CoAP client (never called), the answer of the CoAP server (a constant
  given by libcoap), `import_observables` and `export_observables` (comments).
* Web pages, the bundled library's tests and examples.
* Real time: the second that passes before the timer thread first reads the
  signal it is the base of (`global_timer.hpp:17`).
