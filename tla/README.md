# TLA+ models of the RF gateway and its libevent

The repository connects sensor boards in an RF24 mesh to TCP clients and to a
small web front end, on top of the copy of libevent 2.0.22 that it carries.
This directory holds TLA+ models of the parts whose behaviour depends on
threads, callbacks, sockets, timers and radio, the TLC runs that check them on
small instances, and TLAPS proofs that hold for every instance.

`PROJECT.json` gives, for every definition that models code, the lines it
stands for; for every property a mutation of such a definition that TLC tells
apart; and the hazards of the code with the properties that watch them.

## The system

**The programs.**  A client (`hack_http.cpp` for a browser, or `test.cpp`)
sends a request of fixed size (node, type, body) to the gateway
`hack_server.cpp`.  There libevent reports the socket readable, `on_read`
receives into a fresh buffer and registers `write_ev` on the same socket; when
that fires, `on_write` calls `push_frame_queue`, which looks the node's mesh
address up and pushes a frame *into the library's receive queue*
`network.frame_queue`, with a header that says it comes from address 0.  Then
`on_write` stores the client's descriptor in `node_sockt_fd[node]`.  The monitor
thread calls `mesh.update()`, which pushes frames of the nodes to the same
queue, and `mesh.DHCP()`, and drains the queue: a frame from 0 is transmitted, a
frame of a node is sent to `node_sockt_fd[mesh.getNodeID(from)]`.  No lock
protects `frame_queue`, `node_sockt_fd` or `mesh.addrList`.  The node
(`ardrino_v1.cpp`) acts on a pin and sends the message back; its interrupt
handlers report edges of watched pins.  `server_side/` and `client_side/` hold
the first phase of the same system: an echo server, its client, and two radio
programs.

**libevent.**  One loop takes what the back end (epoll here, select as the
portable one) reports and what timers and signals are due, and runs callbacks
outside its lock.  On top of it are evbuffers and bufferevents (sockets, pairs,
filters, TLS, Windows completion ports), listeners, rate limits, and the
protocols HTTP, DNS and RPC.

## Modules

| Part | Source | Module |
|---|---|---|
| RF gateway, both threads, and its clients and nodes seen from it | `hack_server.cpp`, `hack_http.cpp`, `test.cpp`, `ardrino_v1.cpp` | `Gateway` |
| Ping monitor of the gateway | `hack_server.cpp` | `PingMonitor` |
| HTTP front end | `hack_http.cpp` | `HttpFront` |
| Message bytes, hop by hop | `rf_util.cpp` and every program that reads or rewrites them | `RfUtil`, `MessagePath` |
| Sensor node | `ardrino_v1.cpp` | `Node` |
| Phase 1: gateway, node, client | `server_side/`, `client_side/` | `Phase1` |
| Event loop, common timeouts, life of a base | `event.c` | `EventBase`, `CommonTimeout`, `BaseLife` |
| Event maps, changelist and epoll; select; what both promise | `evmap.c`, `epoll.c`; `select.c` | `EvMap`; `SelectBackend`; `IoInterest` |
| Signals | `signal.c`, `evmap.c` | `Signals` |
| Locks, lock debugging; Windows condition variables | `evthread.c`, `evthread_pthread.c`; `evthread_win32.c` | `EvThread`; `Win32Cond` |
| evbuffers, what they promise, searching | `buffer.c` | `Evbuffer`, `ByteQueue`, `EvbufferSearch` |
| Bufferevents | `bufferevent*.c`, `buffer_iocp.c` | `Bufferevent`, `BuffereventPair`, `BuffereventFilter`, `BuffereventOpenssl`, `BuffereventAsync` |
| Rate limits | `bufferevent_ratelim.c` | `RateLimit`, `RateGroup` |
| Listeners | `listener.c` | `Listener` |
| HTTP | `http.c` | `HttpClient`, `HttpServer`, `HttpMessage`, `HttpUri` |
| DNS | `evdns.c` | `DnsRequests`, `DnsServerPort`, `GetAddrInfo` |
| RPC, tagged data | `evrpc.c`, `event_tagging.c` | `RpcPool`, `RpcServer`, `Tagging` |
| Texts of addresses | `evutil.c` | `EvutilAddr` |

Proofs are in `GatewayProofs`, `GatewayCommandProofs`, `NodeProofs` and
`EvMapProofs`, and at the end of `PingMonitor`, `SelectBackend`, `Win32Cond` and
`RpcServer`.  `MCGateway`, `MCLibevent`, `MCBuffers` and `MCServices` instantiate the
modules for TLC.

The head of each module says what its state stands for and where the steps are
cut: at every place where another thread, a callback or the kernel can see the
state in between, and nowhere else.  An action is a whole handler.

**Gateway.**  The state is what the process, the kernel and the mesh hold:
connections (`cli`, `life`, `fd`, `inbuf`, `sent`, `got`, `nread`), the event
thread (`wev`, the argument of a pending `write_ev`; `active`, the events of the
current batch; `estep`/`eframe`, the progress of `on_write`), what is shared
(`frame_queue`, `node_sockt_fd`, `addrList`), the monitor thread (`mstep`,
`mframe`, `msock`) and the mesh (`rx`, `heard`, `nans`, `uid`, `renewals`).

| Model | Code |
|---|---|
| `Poll`, `Dispatch` | `epoll_dispatch`, `event_process_active_single_queue` |
| `on_accept`, `on_read` (`ReadRequest`, `ReadError`, `release_sock_event`) | the callbacks of the same name |
| `on_write`, `push_frame_queue`, `store_sockt_fd` | `on_write` up to, in, and after the push |
| `mesh_update`, `mesh_DHCP`, `drain`, `send_reply` | one iteration of `start_monitor` and `handle_message` |
| `Connect` ... `LeakSocket` | `send_message` of `hack_http.cpp`, `main` of `test.cpp` |
| `Answer`, `Repeat`, `Report` | `ardrino_v1.cpp` as the gateway sees it |

`on_write` is three actions and a reply two, because there the threads
interleave visibly.  A command is its node, type, connection and number; "X"
stands for every type `handle_incoming_message` ignores.  `conn`, `k`, `src` and
`uid` are history and no guard reads them.  Undefined behaviour is a choice over
what the build can do: setting or freeing a `write_ev` that libevent holds has
no visible effect or leaves the process `"corrupt"`, where nothing more is
promised; a push or pop of the monitor thread during a push of `on_write` takes
effect as if one came after the other, keeps one of two pushed frames, or breaks
the queue, which is `"corrupt"` again (`AfterRace`); a route looked up for an
address that no node has any more (`node_sockt_fd[-1]`) is any descriptor.
The RF24 libraries (their directories are empty submodules), TCP and the radio
are external, modelled from how `hack_server.cpp` uses them.

**PingMonitor.**  `Ping` is the whole timed block of `start_monitor`: wrap on
equality, `pingNode`, increment modulo 256.  A read behind the list yields any
entry with an ID of `Junk`.

**Node.**  `main` and `isr` are the progress of a `send_message` of the main program
and of the interrupt handler that breaks into it.  A handler that met the main
program in the radio library (`RadioInUse`: in a write, or possibly in
`mesh.update`, `checkConnection` or `renewAddress`) marks the write it broke into
and its own (`hit`), and such a write may report a success that is none.

**EventBase** has the base as one record, and each C function that changes it
as an operator from one record to the next; the lock is let go in the back
end's dispatch, around a callback, and while `event_del` waits for a running
callback.  The other libevent modules are built the same way: operators for
the functions, which call each other as the C functions do, and actions for
the places where control enters from outside.

## Runs

`MCGateway` instantiates `Gateway`: `h1`, `h2` are connections of the HTTP front
end, `t1` one of `test.cpp`.  `PingMonitor` is its own instance.  The libevent
modules and the programs around the gateway are checked part by part in three
composite modules: a behaviour belongs to one part, chosen in the initial state
by the variable `part`, and a property is a conjunction over the parts.

| Run | Instance | Shows |
|---|---|---|
| `gateway_faults` | h1, t1, one descriptor, one node, two addresses, every fault | types; commands and frames are neither invented, repeated nor reordered |
| `gateway_routes` | h1, t1, two descriptors, two nodes, every fault, no address change | commands reach the node they name; frames only go where that node was asked for |
| `gateway_http` | h1, h2, two nodes, three addresses, loss, races, one address change | the answer the front end takes is its own; `write_ev` is idle at release |
| `gateway_alone` | t1 alone, three requests, loss, races | `event_set` is never applied to a pending `write_ev` |
| `gateway_heard` | h1, h2, no fault, fair threads | a command waiting in the socket is heard by its joined node |
| `gateway_release` | h1, t1, one descriptor, every fault, fair threads | the descriptor of a closed client is closed, unless the process is gone |
| `gateway_contract` | h1 and t1 on one node, no fault | **violated**: `event_set` on an active `write_ev` |
| `ping` | three nodes, fair monitor | types, `failID`, `nodeCounter`; every listed node is pinged again and again |
| `ping_wait` | two nodes | **violated**: the first ping does not wait for a node |
| `libevent` | `MCLibevent`, 17 parts | the loop, timers, back ends, signals, locks and rate limits |
| `buffers` | `MCBuffers`, 15 parts | evbuffers, bufferevents, listeners |
| `services` | `MCServices`, 31 parts | node, front end, phase 1, HTTP, DNS, RPC, tagged data, texts |

**`libevent`.**  `LoopSound` and `LoopSteps`: the counts by which
`event_base_loop` decides agree with the queues, a wakeup from another thread is
not lost, priorities, `event_break` and the limit on deferred callbacks are
honoured, an event that `event_del` took off does not run, no timer is early by
the time the loop goes by (`tv_cache`), and common-timeout queues stay sorted and
scheduled over corrections of the clock.  The part "loop" has timers and deferred
callbacks; "busy" has no timer and more calls, so that a notification meets a
pending one and `event_continue` and `event_break` come after activations.
`EpollAsksWhatIsWanted` and `AsksWhatIsWanted`: both back ends implement
`IoInterest` -- at each wait the kernel is asked for exactly what the inserted
events want.  In the parts "failing" and "failing changes" `epoll_ctl` fails on one
descriptor, and the others are still asked for exactly that.  `MapsSound`: the assertions of `evmap_check_integrity` and
`event_changelist_check`, and that select's sets are large enough also after an
allocation failed.  `BaseLifeSound`: making, re-initialising and freeing a base, with
registrations that fail -- the maps hold what the base believes inserted unless
`event_reinit` returned -1, internal events are inserted once, and a pending
notification has its byte in the pipe unless a fork came in between.
`SignalsSound`, `LocksSound`: signal handlers and the counts a running closure
reads; lock debugging and the Windows condition variable.  `RatesHold`: a bucket,
and with it one read, stays within the burst over every change of the limit, a
group is overdrawn by a share of each member at most, and what is suspended is
resumed.  `EventuallyServed`: active events, `event_del`, due timers, caught
signals, freed bufferevents and listeners, and an exhausted group all come to
their end.

**`buffers`.**  `BytesExact` and `IsByteQueue`: whatever chains earlier calls have
left, a call adds, moves, finds and returns the bytes it should, and the chains
implement the byte sequences of `ByteQueue`; in the part "buf mixed" a reservation
meets `evbuffer_add`, and the properties hold up to the call that writes behind
`last_with_datap` (`behind`).  `ChainsSound`: the order of chains,
read-only memory, what callbacks are told.  `NothingStalls`: whatever a
bufferevent or listener may do is waited for, and what is suspended has somebody
who will resume it, the loops of a TLS bufferevent end, and a listener's lock is
held by somebody who lets it go, but for the cases listed below.  `ReferencesAddUp`: an object is freed once, with its last
holder, and not called afterwards.  `BytesPass`: pairs and filters neither lose
nor double bytes, and watermarks hold.

**`services`.**  `NodeSafe`: the node's retries end with the right outcome, a success
is false only after a handler and the main program met in the radio, and answers
agree with the handlers attached and the pins driven.  "node" has set and put
messages, "node get" the answers with data, "node live" fairness.  `NoAbort`, `CalledOnce`,
`NotForgotten`, `CountsAgree`: in HTTP, DNS, RPC and phase 1 no assertion fails,
no callback is called twice or forgotten, whatever is unfinished has something
under way that will finish it, and the counters say what the lists are.  The
HTTP client is checked twice: "client" without, and "client any" with cancelled
requests, failed binds, input nobody asked for and more deferred callbacks than a
round runs; there the properties name what a reset leaves behind (`outlived`).
`MessagesFramed`: an HTTP message, read in pieces cut anywhere, is read as if
whole; replies are framed; tagged data is read as written.  `TextsMean`: parsers
and printers of addresses, URIs, escapes and host patterns against reference
definitions, on all short texts.  `CommandsIntact`: the bytes of a command through
every program from the URL to the pin and back; the front end answers with the
unset receive buffer exactly when the gateway was silent or the request not one
for a pin (`GoodAnswer`).  `EventuallyAnswered`: requests of
all kinds are answered in the end.

**Bounds.**  `MaxReq` requests per `test.cpp` connection (an HTTP connection sends
one), `MaxUp` frames sent by nodes, `MaxRenew` address changes.  One descriptor
for two connections forces its reuse; two requests or two connections are what
reordering, duplication and misdelivery need; one address change is enough to
make a looked-up address stale.  The properties of the first three rows do not
rest on these bounds: they are also proved.  `nodeCounter` has its real width, so
the overrun and the wrap at 256 are explored as they are.  In libevent, two or
three events, requests or threads are what two actors and a bystander need;
queues and buffers are as long as is needed for a full, a partly filled and an
empty one; chains have two to four bytes, so that every operation meets chain
boundaries; tick and size counters wrap at 8 and 64 instead of at 2^32 and 2^64.
`Horizon`, `MaxCalls`, `MaxAdds`, `MaxBack`, `MaxSignals`, `MaxBroadcasts`,
`MaxOver`, `MaxConn`, `MaxLeft`, `MaxLen`, `MaxFifo`, `MaxInbox` and the like only end the
exploration; each stands beside the instance that sets it.

The node's `RETRY_MAX` is 2.  The instances have 550,451 (`gateway_faults`), 1,571,133
(`gateway_routes`), 181,431 (`gateway_http`), 157,785 (`ping`), 271,059
(`libevent`), 186,146 (`buffers`) and 329,118 (`services`) distinct states.  `CHECK_DEADLOCK FALSE` is set where the system may really stop:
the gateway's process may end (SIGPIPE) or be corrupt, and the parts of the
composite modules end when the program has made all its calls.

**Fairness.**  Weak fairness of `EventThread` and of `MonitorThread`: both are
endless loops of a preemptively scheduled process, and libevent runs every active
event of a batch before it polls again.  Nothing is assumed of clients, nodes or
radio.  `PingMonitor` assumes weak fairness of `Ping`: the timer expires.
`MCFairness` of `MCLibevent` and of `MCServices` assumes that the loop thread
runs, that the clock goes on, that the completion port delivers and that
callbacks return; that connects, reads and writes end, because each has a
deadline; and that hook callbacks and lookups come back.  Some of these
conditions are written with the enabling condition spelt out
(`[]<>~Runnable \/ []<><<Runs>>_all`), which is weak fairness without asking TLC
for ENABLED of a large disjunction.  Strong fairness is assumed in three places,
where another actor can take the turn again and again: a browser behind another
one, a full DNS socket that becomes writable, and the main program of the node
between two interrupts.

### What the runs show about the code

* Two well-behaved clients that use one node break libevent's contract
  (`gateway_contract`): both answers go to the client that asked last; it takes
  the second for the answer to its next request and sends again before
  `on_write` has run.  Hence `AssignOnlyIdle` is checked for a client alone and
  `ReleaseOnlyIdle` for HTTP clients, which are serialised; for clients that take
  turns both are proved.
* A reset connection always leads to a release with `write_ev` active: recv() = -1
  registers it, and the end of file follows before it runs.
* Because the route is stored after the push, an answer can be dropped, or sent
  to an older connection's descriptor.  So "every HTTP request is answered" does
  not hold even without faults and is not claimed; `AnswerIsOwn` is.
* `sizeof(mesh.addrList) < 1` is never true (`ping_wait`); with an empty list
  `nodeCounter` leaves the list and only comes back when it wraps at 256.

While the other components were modelled, the code was seen to differ from its
comments in a number of places.  The following are reached in the passing runs;
their properties name the cause and hold without it:

* `event_reinit` keeps `is_notify_pending`, so a notification pending over a fork
  is never sent (`event.c:836`, `stuck` in `BaseLife`); after it returned -1 a
  later `event_del` or `event_base_free` fails an assertion.
* `evmap_io_del` leaves the event listed when the back end fails (`evmap.c:377`);
  with the changelist nobody hears of a failed `epoll_ctl`.
* `evbuffer_add` behind a reservation leaves `last_with_datap` (`buffer.c:1561`,
  `behind`); `evbuffer_prepend` counts the wrong number (`buffer.c:1708`, `spilled`).
* A pair's flush that has nothing to do keeps references (`bufferevent_pair.c:288`,
  `left`).
* TLS: a suspended read takes the event a blocked write waits for
  (`bufferevent_openssl.c:833`, `replied`), or the loop spins (`:772`, `:846`).
* Rate limits: a new tick length loses a refill (`bufferevent_ratelim.c:83`, `unit`);
  the bucket takes the place of the maximum per read (`:228`).
* Listeners: `evconnlistener_disable` and `_free` of another thread wait for the
  callback with the lock the callback needs (`listener.c:299`); an error without
  error callback keeps the lock (`:442`); a listener disabled in its callback goes
  on accepting what is queued (`:409`).
* HTTP client: close detection, deferred read and retry timer outlive a reset
  (`http.c:1369`, `:1093`, `:1287`, `outlived`), a failed bind waits for the next call
  (`:2194`, `unbound`).
* `evdns_getaddrinfo` calls back twice after an allocation failure (`evdns.c:4438`).
* The front end replies with a buffer nobody filled when the gateway is silent
  (`unheard`).

The instances stay clear of the others: the calls or the failures that lead there
are not among the `Calls`, `Faults`, `Nets` or `Memory` an instance allows.

* Loop: `event_del` waits once for a running callback, so an event activated during
  its own callback may be running again when it returns (`event.c:2238`).
* Signals: two bases (`signal.c:362`, `evmap.c:472`).
* Windows condition variables: the result is inverted (`evthread_win32.c:166`).
* Bufferevents: the null filter reports moved bytes as an error, a filter's callback
  is not disabled, `got_eof` is never set (`bufferevent_filter.c:154`, `:339`, `:424`);
  a read under way no longer counts as an event (`bufferevent_async.c:237`); a
  bucket above its maximum goes on growing (`bufferevent_ratelim.c:95`).
* HTTP server: `http.c:2459`, `:614`, `:2460` (length of a chunked reply to HTTP/1.0,
  body after HEAD, reply after a failed 100 Continue), `:2913` (a pattern that ends
  in a star).
* DNS: `evdns.c:3235` (next search name at the in-flight limit), `:2175` (probe
  answered by another server), `:894` (SERVERFAILED), `:2392` (servers freed one by
  one), `:1990` (inverted test of a failed send), `:1433`, `:1739` (lock of a port
  that is freed or closed), `:1226` (opcode).
* RPC: `evrpc.c:714` (queued RPCs behind a failed one), `:748`, `:979` (timer of a
  failed or resumed RPC).  Tagged data: byte order of a tag (`event_tagging.c:179`).
* Texts: `evutil.c:1629` (buffer one byte short), `:1822` (text behind a bracket).
* Phase 1 and front end: a body of exactly `MAX_BODY_LEN` (`rf24_wrap.cpp:74`), the
  nibbles of the type byte (`rf24_wrap.cpp:111`), `write_ev` freed while pending
  (`server_side/libevent.c:31`), four numbers in a URL (`hack_http.cpp:22`).

## Proofs

The theorems hold for every value of the constants that the named assumptions of
the modules allow: connections, descriptors, node IDs, addresses, events and
threads are sets of any size; 0 is neither a descriptor, a node nor an address;
`NoCmd` is not a command.  TLC evaluates the assumptions on every run.

| Theorem | Statement |
|---|---|
| `GatewayProofs!TypesHold` | `Spec => []TypeOK` |
| `GatewayProofs!FramesStayInOrder` | `Spec => []FramesInOrder` |
| `GatewayCommandProofs!CommandsStayInOrder` | `Spec => []CommandsInOrder` |
| `GatewayCommandProofs!NodesHearOnlyClients` | `Spec => []OnlyClientCommands` |
| `GatewayCommandProofs!CommandsReach`, `FramesReach` | with fixed addresses, `Spec => []CommandsReachTheirNode` and `[]FramesReachAskers` |
| `GatewayProofs!AnswersAreOwn`, `AssignsOnlyIdle`, `ReleasesOnlyIdle`, `NeverCorrupt` | clients that take turns and nodes that only answer: `[]AnswerIsOwn`, `AssignOnlyIdle`, `ReleaseOnlyIdle`, and `up` is never `"corrupt"` |
| `PingMonitor!TypeCorrect`, `FailCorrect`, `CounterStays` | `[]TypeOK`, `[]FailIsLatest`, `StaysInList` |
| `NodeProofs!SendOutcomeHolds`, `HeardUntilInterruptHolds`, `WatchAnsweredHolds`, `PutAnsweredHolds`, `NodeSafeHolds` | the node's four promises (`SendOutcome`, `HeardUntilInterrupt`, `WatchAnswered`, `PutAnswered`), and together `[]NodeSafe` |
| `EvMapProofs!EpollImplements` | epoll with and without the changelist, when `epoll_ctl` does not fail (`Fails = {}`): `Spec => Abstract!Spec` of `IoInterest` |
| `EvMapProofs!MapIsSound` | on the same condition `[]` of `MapMatchesQueue`, `CountsMatch` and `ChangelistConsistent` |
| `SelectBackend!SelectImplements` | `Spec => Abstract!Spec` of `IoInterest` |
| `Win32Cond!WakesHold` | `Spec => []WakesAreForWaiters`, for any number of broadcasts |
| `RpcServer!AnswersOnce` | `Spec => [](AnsweredOnce /\ PausedRight)` |

*Types.*  `TypeOK` is not inductive: `on_write` builds a frame from `wev[c]`,
which may be `NoCmd` for all that `TypeOK` says.  `WellFormed` adds what the
threads rely on at each hand-over: an active write event has its argument, a
callback in progress its frame, a queued frame from 0 was pushed by `on_write`,
and a node has answered no more than it heard.

*Commands.*  A command is in one of five places: the socket (`Unread`), `write_ev`
(`Writing`), `on_write`'s frame (`Pushing`), `Queued`, `Heard`.  `DownInv` says
that for every client everything in a later place was sent before everything in
an earlier one, that queue and nodes hold commands in order, and that every
command is one its client sent or the empty buffer of a failed recv(), whose type
is never transmitted.  Each action moves one command one place on, or drops it.
`recv()` takes everything out of the socket, so nothing is said about order there.

*Frames.*  `UpInv` is the same argument upwards, with serial numbers: below the
ones in the radio are the queued ones, below those the one `send()` has in hand,
below that all delivered ones.

*Routes.*  `RouteInv`: addresses are distinct, and a command frame carries no
address or the one its node has.  Without renewals DHCP only gives addresses to
nodes that have none, so the second part survives it.  `AskInv` adds that a
descriptor in `node_sockt_fd` belongs to a connection that sent a command to the
node.

*Taking turns.*  `TakingTurns` says that all connections are the front end's or
that there is one; `AnswersOnly` that nodes send nothing but one answer to each
command and no client gives up.  Then `SerialInv` follows one request through the
whole gateway: at most one command or answer is under way, in one place, and
whoever waits is the one it belongs to.  `write_ev` is pending only while its
command is in it, which is why it is idle whenever `on_read` sets or
`release_sock_event` frees it; and the queue is empty while `on_write` pushes, so
that no pop races with the push.  So the process cannot be corrupted.  The runs
`gateway_http` and `gateway_alone` are instances; `gateway_contract` shows that the
hypothesis is needed.

*Ping.*  `TypeOK` is inductive with the range of the modular increment as a lemma;
`FailIsLatest` and `StaysInList` follow from it.

*Node.*  The invariant ties the progress of a send to its tries and to what was
heard, once for the main program and once for the handler that interrupts it, and
the answer under way to the handlers attached and the pins driven.  A send is marked
as hit only once a handler has run, which gives `HeardUntilInterrupt`: `SendOutcome`
alone allows a false success to any marked send.

*Back ends.*  For epoll the invariant `IInv` has four parts: `TypesOK`; `Counted`,
nread and nwrite count the inserted events; `ChangelistConsistent`; and `Pending`,
which is what makes it inductive: a descriptor without a change is watched as it
should be, and a change, applied to what the kernel has, gives what the events
want (`After`).  It must hold although the kernel may have forgotten a file that
was closed since: then the change says something about everything it had
(`Linked`).  `ApplyAll` shows that applying the list is applying to each
descriptor its one change.  That is induction over the recursive function
`Applied`, done with the least index at which it could fail (`LeastNumber`).
`Listed`, for `MapIsSound`, says that the list of a descriptor holds its inserted
events, each once; that the removal from a list keeps this is `UnlinkedIs`.  For
select it says that the input sets are what the events want and that `event_fds`,
which bounds the wait, never falls below a wanted descriptor.

*Condition variable.*  The wakeups left are the waiters of earlier generations.
The bound on broadcasts plays no part.

*RPC server.*  `PausedRight` alone would allow a stale entry for a request that was
answered, and resuming that would answer it again.  `IInv` therefore says that the
list holds nothing but the entries of the paused requests.  Every function is given
the list of the other requests (`Others`): the whole list when its request is not
paused (`NotOnList`), the list without its entry when it is resumed (`WithoutIs`).
From there an answer, a pause and a call of the user each keep `IInv`.

**Model-checked only.**  All liveness properties: TLAPS does not do fairness or
ENABLED.  `SetsFit` (the sizes of select's sets come from a loop of doublings) and every property of
recursive definitions over data: parsers, printers, chains of buffers, tags.  Of
the composite properties of `MCLibevent`, `MCBuffers` and `MCServices` only those
named above are proved; the others rest on the small instances.  In HTTP, DNS, the RPC
client and the bufferevents the state is one record that a chain of operators passes on,
and an inductive invariant would have to be shown for each operator in turn.

## Not modelled

* What the program does with a torn slot of `frame_queue`, as after any corruption
  of its memory: nothing is promised from there on.
* Log and ncurses output (`log.cpp`), the `kbps` counter; `container2.*` (a draft
  that does not compile); `ping.py` (third-party); `test.html` beyond the URL it
  builds (`FullUrl` of `HttpFront`).  The directories of RF24 and wiringPi are
  empty; what is used of them is external.
* TCP segmentation in the gateway: requests arrive whole, several may be received
  at once.  A client's timeout comes after the event thread has taken its request
  in, since no callback of that thread blocks, or while its connection waits in the
  backlog because no descriptor is free.
* Back ends other than epoll and select; the completion port itself and listeners
  on it; the heap of timers as a data structure; several and deferred callbacks of
  an evbuffer; memory functions, debug tables and dumps.
* Allocation failures, except in select, `HttpFront` and where a module says so.
* `BuffereventAsync`: pinned chains and timeouts; rate limits appear as
  suspension, and a bufferevent connects once.  `Tagging` reads well-formed
  streams, cut anywhere.  `RpcServer`: the caller does not unregister an RPC in use.
* `HttpMessage` has LF as the only end of line, so the size limit, which counts a
  CR only when it is read with its LF, is exact; headers are not continued.
* `DnsRequests` has one in-flight list, which is what the code has for up to five
  requests, and no times; `GetAddrInfo` takes the skew between the two lookups to
  be longer than a round of deferred callbacks.
* `Node`: an edge on a line without a handler is not remembered for a handler
  attached later.
