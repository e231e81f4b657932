# TLA+ models of circle-stdlib

circle-stdlib brings a C and C++ standard library, mbed TLS and the network classes built on
it to Circle, a bare metal environment for the Raspberry Pi. This directory holds TLA+ models
of the parts of it that have behaviour of their own, TLC configurations that check them on
small instances, and TLAPS proofs for every instance.

    tlc -workers 2 -config MCThreads.cfg MCThreads    # one run
    tlapm ThreadLifecycle_proofs.tla                  # the proofs of one module

`PROJECT.json` lists the runs, which lines of the source each definition stands for, the
hazards the properties are aimed at, and for each property a variant of the code that breaks
it. Those variants are in the modules, marked "Variant with a mistake", next to the definition
they replace; no action uses them.

## 1. The system

### Threads, mutexes, condition variables (`libs/libcxx-threading`)

libc++ calls these through `__external_threading`. They are built on Circle's `CTask`,
`CScheduler` and `CSemaphore`, which are in a submodule and are not part of this source tree.
The models take from the way the code uses them (and its comments) that

* scheduling is cooperative: a task runs alone from one call that may block to the next;
* `CSemaphore::Down` returns at once when the count is positive, whoever calls it, and `Up`
  does not hand the token to a particular task; `DownWithTimeout` returns TRUE after a timeout;
* a terminated task makes its joiner ready, and the scheduler deletes it at some later switch.

| component | state | operations | what makes it correct |
|---|---|---|---|
| `std::mutex` (`mutex_impl.h`, `mutex.cpp`) | `m_locked`, `m_waiters`, `m_sem` | lock, try_lock, unlock, destroy | exclusion; no waiter left on a free mutex; no task inside when it is destroyed |
| `std::condition_variable` (`condvar.cpp`) | `sem`, `waiters` and the mutex | wait, timed wait, signal, broadcast, destroy | tokens and waiters add up in every race; no lost wakeup |
| `std::thread` (`thread.cpp`) | `JoinHandle` shared by thread object and task | create, join, detach, get_id, end and deletion of the task | handle deleted once, by the right side; join waits |
| `std::call_once` (`thread.cpp`) | the flag 0, 1, 2 | `execute_once` | one successful run of the routine, no early return, retry after a throw |
| thread-local storage (`thread.cpp`) | keys, slots, atexit list, destructor passes | tls_create, get, set, `__cxa_thread_atexit`, the end of a task | each object destroyed once, in reverse order, none forgotten |
| `std::recursive_mutex` | Circle's `CMutex` | forwards | not modelled |

What is hard: a step of another task between a signal and the run of the task it wakes, a
timeout that races a signal, the deletion of a task that races join and detach, destructors
that use the storage being destroyed.

### Networking (`src/circle-mbedtls`, `include/circle-mbedtls`)

| component | state | operations | what makes it correct |
|---|---|---|---|
| MQTT client (`mqttclient.cpp`) | connection status, keep alive timer, retransmission queue, identifier store | Connect, Disconnect, Subscribe, Unsubscribe, Publish; Receiver, Sender, KeepAliveHandler from `Run` | QoS 1 at least once, QoS 2 exactly once, a silent broker is noticed |
| MQTT packet receiver (`mqttreceivepacket.cpp`) | buffer, in and out pointer | Reset, Receive, Complete | packets are cut at the right byte; the buffer does not overflow and is large enough |
| MQTT packet sender (`mqttsendpacket.cpp`) | tries left, scheduled time | Send | a limited number of tries (modelled with the client) |
| socket table (`adaptedsocket.cpp`, `net_sockets.cpp`) | slots, handles, socket objects, receive buffer, blocking mode | connect, bind, accept, free, set_block, recv, recv_timeout, send | a descriptor reaches its own, existing socket; bytes come in order |
| TLS sockets (`tlssocket.cpp`, `tlssimpleclientsocket.cpp`) | flags over mbed TLS contexts | AddCertificatePath, Setup, Connect, Send, Receive, destructor | no request to a server that had to be authenticated and was not |
| certificate chain (`x509certchain.cpp`) | the chain | AddCertificateFile, AddCertificatePath | one bad file is an error, no file is not |
| HTTP client (`httpclient.cpp`) | state of the response parser | Get, Post | HTTPOK means that the content is the server's |
| mbed TLS mutex adapter, entropy module, configuration wrappers | use count | one call each into mbed TLS or hardware | not modelled |

The MQTT client is a task that calls Receiver, Sender and KeepAliveHandler in turn every
50 ms; the application calls the client from its callbacks. It meets a broker that answers
late, twice, or not at all, a socket that takes no more data, and ticks and packet identifiers
that wrap.

What is hard: packets, lines, chunks and records that are cut anywhere; a peer that leaves at
any point; several return codes that mean different things to each caller; objects of Circle
that die behind a descriptor.

### Programs (`include/circle_stdlib_app.h`, `samples/mbedtls`)

| component | state | operations | what makes it correct |
|---|---|---|---|
| application base classes (`circle_stdlib_app.h`) | the devices that are up | Initialize, Cleanup of four classes | every device after those it needs; a failure halts |
| HTTPS clients `05-https-client3`, `06-webclient` | - | Run, GetDocument | the program ends |
| TLS clients `ssl_client1.c`, `ssl_client2.c` | options, connection, session, counters | tlsmain: parse, configure, connect, handshake, renegotiate, write, read, reconnect, close | the client ends; requests and responses alternate |
| TLS servers `ssl_server.c`, `ssl_server2.c` | options, connection, counters | tlsmain: parse, configure, bind, accept, handshake, read, renegotiate, write, close | the server comes back for the next client |
| other samples, smoke test, tests | - | straight-line programs | not modelled |

The client and server samples use the socket table directly, the HTTPS clients through
`CTLSSocket`; most of the code of the former is options and what happens when a call fails.

## 2. The modules

    AbstractMutex                what a mutex promises
      ^ refined by
    NonRecursiveMutex            std::mutex
      ^ extended by
    Condvar                      std::condition_variable
      ^ extended by
    CondvarClient                producers and consumers      Condvar_proofs (all three)
    ThreadLifecycle              std::thread
    ExecuteOnce                  std::call_once               ThreadLifecycle_proofs (both)
    ThreadLocal                  thread-local storage         ThreadLocal_proofs
    MqttClient                   CMQTTClient and CMQTTSendPacket::Send
      ^ extended by
    MqttSystem                   with application and broker  MqttSystem_proofs (both)
    MqttReceive                  CMQTTReceivePacket           MqttReceive_proofs
    SocketTable                  CAdaptedSocket, mbedtls_net  SocketTable_proofs
    TlsClientSocket              client sockets, certificate chain
      ^ extended by
    HttpClient                   CHTTPClient and its server
    StdlibApp                    application base classes
      ^ both extended by
    WebClient                    two HTTPS client programs    WebClient_proofs
    TlsWire                      connections and mbed TLS calls (external)
      ^ extended by
    TlsOptions                   options of ssl_client2 and ssl_server2
      ^ extended by
    SslClient1, SslClient2, SslServer1, SslServer2    the four tlsmain()
      ^ extended by
    TlsExchange                  a client and a server program   TlsExchange_proofs (all)

`MC*.tla` instantiate them for TLC. A module whose constants need no definition is run itself, with the
configuration of its name. `MCThreads` runs two modules: a behaviour of it is one of
`ThreadLifecycle` or one of `ExecuteOnce`, which share no state.

**Steps.** Because tasks are switched only in calls that may block, one action is a call up to
the point where it blocks; what follows the blocking call is an action of its own that the task
takes later (`AcquireResume`, `WaitResume`, `JoinReturn`, ...). Between the two any other task
may act. In `MqttClient` one action is a call of the application or the handling of one packet,
because callbacks run in the task of the client.

**NonRecursiveMutex.** `m_locked`, `m_waiters` and `m_sem` are the fields; `pc` says where each
task is. `Acquire` is `AcquireFast` or `AcquireSlow`. A newcomer that calls `Acquire` while a
token is pending takes it without blocking, as the code does. `Destroy` may happen whenever the
mutex is seen unlocked, and `Construct` puts a new one into the same storage.

**Condvar** adds the semaphore and the count of the condition variable. A wait counts the
caller, releases the mutex, goes down and acquires the mutex again; with a token pending it
passes without blocking (`WaitPass`), and then Release and Acquire of the mutex cancel out.
A deadline may pass at any time (`Timeout`), and the task runs some time later
(`TimeoutResume`), when a signal may have come in between: `TakeLateToken` is the `TryDown`
with which the code takes it. Deadlines are not numbers in the model.

**CondvarClient** is the use the library is made for, not code of the repository: put an item
under the mutex, notify one or all before or after unlocking, and wait in a loop for an item.

**ThreadLifecycle** has the `JoinHandle`, the task and the thread object as separate lives.
`Reap` is the destructor run by the scheduler at any time after the end of the task. Addresses
are a finite set and are used again.

**ExecuteOnce** is the loop of `__libcpp_execute_once`, with a routine that yields and may throw.
A task may call again as often as it likes.

**ThreadLocal** has the keys, the slots and the loop of destructor passes of `CLibCXXTask::Run`,
one slot per step because a destructor may yield. Destructors may set slots and construct
objects. The number of keys is bounded by `MAX_TLS_KEYS` as an assumption on clients: the code
does not check it.

**MqttClient** has the fields of `CMQTTClient`; the two directions of the connection are FIFO
channels, which are lost when the connection is closed. Sends may fail at any time, and do fail
when the socket has taken `SocketBuffer` packets (the code sends with MSG_DONTWAIT and takes a
short send for a failure). Ticks are compared as in the code, modulo a small `TickMod`.
Packets that the receiver refuses for their form have a type of their own (`Refusal`); the
encoding of packets is left out. **MqttSystem** adds the application and the broker, which is
external: it answers or not, may send its messages twice, keeps its part of the session unless
`CleanSession`, and when `Faulty` sends anything at all or reads packets without an answer.

**MqttReceive** has the bytes in the buffer (a byte is a packet and an offset) and lets the
socket deliver any number of bytes up to a frame, or report that the peer is gone. Disconnect and
reconnect from `OnMessage`, that is before `Complete()`, are included. No build file defines NDEBUG,
so a failed assertion stops the program (`halted`).

**SocketTable** has the slots, the handle kept in each socket object and the descriptor in each
context. Addresses are used again after a delete. The bytes of a connection are numbered;
`Receive` is the buffer that is filled by a frame and emptied in pieces, shared by
`mbedtls_net_recv` and `mbedtls_net_recv_timeout`, which differ in what they do when there is
nothing. Circle's socket delivers segments of any length; the peer closes at any time.

**TlsClientSocket** has the socket object (plain or TLS), whether certificates were added and
whether the server has to be authenticated, and the card as a directory of files with what mbed
TLS would make of each. **HttpClient** adds `Request`, one action per call that may fail, and the
receive loop: `ParseChar` is the state machine of the loop, one operator per state, folded over
each piece that arrives. The reply is made by `EncodeReply`, the server's side of the protocol, so
that a property can compare what the parser kept with what the server meant. A line
is one token, and `\r` and `\n` are tokens of their own, because pieces may end between
them; a chunk length is a line of digits. First lines that only look like a status line are tokens
with what `strtoul()` makes of them; where it gets a null pointer any result may come back. A request that does not fit into a TLS record is cut there, as `Send` does without a
message; the server gives up on it.

**StdlibApp** is `Initialize` of the four classes as a sequence of devices, each of which may fail
unless the code ignores it, the wait until the network runs, and `Cleanup`. **WebClient** puts a
program on it: the two samples differ in whether they need certificates on the card.

**TlsWire** is the external part of `TlsExchange`: links with a queue of records in each
direction, closed from either side or broken by the network, and the results mbed TLS gives for
them. The handshake goes record by record (`Script`), so that a side can leave in the middle; it
chooses the version and a ciphersuite from what both sides are configured for. **TlsOptions** is the
parsing and checking of options, one argument of `argv[]` at a time, common to both programs (the
code is there twice).
**SslClient1**, **SslClient2**, **SslServer1** and **SslServer2** have one action per section of
`tlsmain()` and a program counter that follows its labels (`send_request`, `data_exchange`, `reset`,
`close_notify`, `exit`, ...). A section that loops over a call takes one call per step.
The steps of a section that only prepare contexts and cannot be told apart from outside are one step.
A request is a number of bytes and the places at which it has a newline (`Newlines`): behind the
request line, before the last two bytes and at the end. It is cut into records of `max_frag_len`,
and the server takes a record that ends at one of these places for the end of the request.
**TlsExchange** runs one client and one server, from `argv[]` on, and adds strangers that
connect, say nothing, and leave at any time or never.

## 3. What the runs show

| run | checks | bounds |
|---|---|---|
| `mutex` | no stranded waiter; no task inside a destroyed mutex; refinement of `AbstractMutex`, safety and liveness | 5 tasks: a holder, a pending token, two blocked tasks and a newcomer |
| `condvar` | `CvAccounting`: tasks in a wait = counted + tokens; mutual exclusion; no lost wakeup; every item is taken; a timed wait whose deadline has passed ends | 2 producers, 2 consumers, 3 items: a consumer can wait late and take the token of the other |
| `threads` | handle deleted at most once, not used after it, not leaked; join returns. The init routine completes once; no caller returns before; a caller spins for ever only if the routine throws for ever | 3 threads, 2 addresses, so that an address is used again (9,647 states); 4 tasks with any number of calls: one in the routine, others spinning, retries (349 states) |
| `tls` | each object destroyed once, in reverse order, nothing forgotten in passes that end by themselves | a thread and the main task, 2 keys, 5 objects, 4 passes as in the code: five objects are needed to reach the fourth pass |
| `mqtt_exchanges` | the queue is sorted; QoS 1 and 2 requests stay in the queue until the broker has them; QoS 2 at most once; messages of the broker are delivered, QoS 2 once | 3 requests on one connection, or 2 messages with one identifier sent up to twice each over 2 connections; identifiers 1 and 2, ticks modulo 6, one resend: identifiers and ticks wrap. 1.2 million states |
| `mqtt_faulty` | status, socket, timer and queues agree; a ping ends; a request is acknowledged or given up, unless PUBREC after PUBREC restarts its tries | 1 request with one resend, a broker that sends any packet at any time or reads without answering |
| `mqtt_receive` | the buffer starts with the first packet not handled; room for the promised number of packets; every packet is handled, unless its connection or the program ends | 5 packets of 5 kinds and 2 to 5 bytes, two of them refused, one at its length field; frame 6, queue of one packet: packets are split and joined in every way, and the buffer fills up. 169,080 states |
| `sockets` | a context reaches its own existing socket; a connection's bytes come in order and end of file after all of them | 3 contexts, 3 addresses, 4 slots, frames of 2 bytes, 3 bytes from the peer: a frame is left half read while the next one arrives |
| `http` | HTTPOK for a well-formed reply means that the content is the server's, whole if it is chunked; another status or a bad chunk length is never HTTPOK; no request to a server that is not authenticated; the program halts | replies with 0 to 4 characters in 0 to 2 chunks that contain line ends, chunk lengths with leading zeros, which leave a longer line in the buffer, replies with another status, a bad chunk length, an empty or strange first line, an empty line before a chunk length; pieces of up to 3 characters (a line end can be split, and a piece can end behind any character), a buffer of 3, a TLS record of 2, cards without, with good, broken and too large certificates, a connection that breaks. 131,872 states |
| `tls_pair` | requests and responses in lock step and renegotiation only while the peer reads, both with `NoEarlyNewline`; a forced ciphersuite is common to both; the client ends and the server comes back, but for an empty request or a silent stranger without a timeout | 32 scenarios, each a pair of programs with `argv[]`: the four pairings, exchanges, requests of one, two and three records, with `max_frag_len`, with an early newline and of no bytes with and without a timeout, renegotiation from both sides, reconnects, non-blocking I/O, timeouts, version and ciphersuite limits, refused options; up to 3 connections, 2 faults or strangers. 113,615 states |

The runs `mqtt_keepalive` and `mqtt_assert` show disagreements; see section 5.

**Reductions.** `MCMqtt` checks traffic of the client and of the broker one at a time
(`OneDirection`), and requests on the first connection only: `Connect` empties queue and store, and
what a request was promised ends with its connection. The two directions use different queues and
identifiers of the client and meet in the socket buffer only, whose refusals are possible at any
time; `mqtt_faulty` has both. `MCSocketTable` uses
symmetry of contexts and addresses, which is sound because the properties are invariants that name
none, and a view without the last result, which no action or property reads.
Lengths are scaled: a record of 2 characters (8 in `MCTlsExchange`, 4 with `max_frag_len`), a line
of 3, a certificate file of 5 stand for the limits of the code; what matters is that values on both
sides of each limit occur. In `MCTlsExchange` the request line has 2 bytes and the plain request 7,
so that a request of 10 bytes has its last newline but one at the end of the first record, as one of
16386 bytes has in the code.

CHECK_DEADLOCK is FALSE where the system may stop: all tasks done or all waiting for an event
that no one has to cause.

**Fairness.** `WF` on the resumption of each task that is ready: Circle's scheduler goes round
its tasks. Nothing obliges a client to unlock, signal or join, except in `CondvarClient`, whose
producers and consumers do run, and in `ThreadLifecycle` and `ExecuteOnce`, whose thread functions and init routines
end. The routine may throw every time, and its task call again before it yields: a spinner then
never sees the flag at 0, and `SpinEnds` excepts this case. Deadlines need not pass in `condvar`. In `mqtt_faulty` each of the three parts of
`Run` is fair and time passes: this assumes that the broker does not fill the socket so
fast that `Receiver`, which loops until the socket is empty, never returns. The broker has no
fairness. In `mqtt_receive` the task comes round and what was sent arrives. In `tls_pair` each
program runs on a machine of its own and goes on when it can (`WF` on `Client` and on `Server`);
nothing obliges the network to break a connection, or a stranger to come or to leave. A read
timeout, where one is set, expires. `ClientEnds` and `ServerComesBack` except two ends, which are
states in which the programs stay for good: `EmptyRequest` and `HeldUp` (section 5). In `http` the program goes
on when it can, the network comes up, and the server answers or closes: the code has no timeout
for a server that does neither. `tls` has safety properties only.

**Assumptions on the environment.** `IdentifierFree`: a packet identifier does not come round
while its last use is under way (the client hands out 65535 identifiers without a look at the
queue; with the two identifiers of the run this would happen at once). `LoopTicks`: the longest
time between two rounds of `Run`. Timeouts are shorter than half the range of the ticks.

## 4. What is proved

The theorems hold for every value of the constants that the assumptions of the modules allow. What
the runs bound (tasks, objects, requests, connections, bytes, buffer sizes, timeouts, identifiers)
is a parameter there.

Every proof has the same form: an inductive invariant, one lemma per action (or per kind of step
that several actions have in common), and theorems that take the properties from the invariant.
What the invariants add to the properties:

* `Condvar_proofs`, the mutex: mutual exclusion, no stranded waiter, safe destruction, and the
  refinement of `AbstractMutex` (safety). `MutexIInv` adds `TokenOrHolder` (locked means one holder or
  one token, never both) and `WaiterAccounting` (blocked tasks = counted + tokens). A Release that
  posts a token makes no second holder because of the first; one that unlocks strands nobody because
  of the second.
* `Condvar_proofs`, the condition variable: `CvAccounting` and mutual exclusion with `CvIInv`, which is
  the invariant of the mutex together with types and `CvAccounting`. The lemmas about the mutex are used
  again for the Release and Acquire inside a wait.
* `Condvar_proofs`, producers and consumers: every behaviour of them is one of `Condvar`
  (`ClientUsesCondvar`), and no wakeup is lost: with `CvIInv` and the fact that only consumers wait,
  a consumer that goes to sleep has seen no item under the mutex, and a notification that finds
  somebody waiting leaves a token.
* `ThreadLifecycle_proofs`: no double free, no use after free, no leak, join after the end.
  `HandleOwnership` says who will delete the handle: the two flags mean "given up" as long as the
  task exists, and the handle is gone exactly when the task is deleted and the handle given up.
* `ThreadLifecycle_proofs`, call_once: the routine completes once and no caller returns before. `OneInitialiser`
  (the flag is 1 exactly while one task is in the routine) makes it inductive.
* `ThreadLocal_proofs`: each object is destroyed once, in reverse order, and passes that end by
  themselves leave nothing behind. `PlacesInv` says that an object is in one list only, and there
  once, until it is destroyed, and that lists have younger objects first. `EarlyInv` says that the
  objects constructed before the thread's function returned stay together, in the slot or in the
  list that is being destroyed. `PassInv` says that a pass that has called no destructor so far
  leaves empty slots behind itself.
* `SocketTable_proofs`: a context reaches its own existing socket, and bytes come in order. `OwnSlot`
  says that each socket is in the slot of its own handle, so that a destructor clears no slot which a
  context of another socket uses, in spite of the slot that `Accept` fills twice. For the stream:
  what the program has, the buffer and the socket's queue make up one sequence, and until the peer
  closes nothing of it is missing.
* `WebClient_proofs`: nothing is sent to a server that had to be authenticated and was not.
  The property speaks of the time after the first byte; `AuthInv` follows the decision from the
  certificates that were read to the mode of authentication, to `Connect`, in both programs.
* `MqttSystem_proofs`, against any broker, `Faulty` or not: `SocketMatchesStatus`,
  `TimerMatchesStatus` and `QueueSorted`. Ticks wrap, so that "sorted" is not transitive in general.
  `GoodQueue` describes the queue by a distance from now for each packet, between `-LoopTicks` and
  `ResendTimeout`; distances are ordinary integers, and are in the order of the queue.
* `MqttSystem_proofs`, with a broker that keeps to the protocol and clean sessions: `AtLeastOnce`,
  `AtMostOnce`, `InboundOnce`, `InboundDelivered`. `OutInv` says what the packets of a request, in
  the queue or under way, tell about the broker: identifiers tell requests apart, PUBREL is the last
  that is sent for a request, an acknowledgement tells the truth, and the broker remembers an
  identifier exactly while the request has its entry. `InInv` is the other direction: as long as a
  PUBLISH may still arrive, its identifier is in the store exactly if it was delivered; PUBREL is
  the last that the broker sends; what the client answers is so.
* `MqttReceive_proofs`: the receiver is in step with the stream, gives up for want of memory only with
  `nMaxPacketsQueued` packets in the buffer, and never writes behind it. The invariant gives the place
  at which each packet starts, relative to the front of the buffer, and how far any two are apart at
  most. With the places of all packets in it, no step has to sum up sizes, which would be an induction.
* `TlsExchange_proofs`, for every pair of the client and server samples with any `argv[]`, any breaks
  and any strangers: `LockStep`, `RenegotiateWhilePeerWaits` and `ForcedSuiteIsCommon`. The first two
  have the premise `NoEarlyNewline`: no multiple of the record length is a place of a newline in the
  request, but its end. It is a condition on `request_size` and `max_frag_len` alone, and without it
  both are false of the code (section 5). The invariant
  `IInv` has six parts:
  * `WireInv`: what is in the queues of a connection, who holds its ends, and that a program in a
    section that uses its connection has one.
  * `WrittenInv`: a request is partly written only in `send`, or when its writing failed, and then up
    to the end of a record.
  * `PlaceInv`: where each program can be while it has a connection.
  * `InStep`: `NoEarlyNewline` implies `LockInv`, which says whose turn it is on the client's
    connection, for each pair of programs. The options change only before there is a connection.
    `ssl_client2` with `ssl_server2` (`Lock22`): the end of a request under way, a server at work
    and the end of a response under way exclude one another, and while the client is in none of the
    sections of the exchange there is none of them. `ssl_client1` (`Lock12`) sends one request, so
    that only its place matters. `ssl_server` (`Lock1`) answers once and leaves. With `ssl_client2`
    (`Lock21`) no response may be there before the request. `ssl_server` answers whatever it
    reads, so this depends on how far the handshake is on both sides: `Aligned` follows it record by
    record, up to a server that reads and a client that has sent nothing but a ClientHello.
    What a `close_notify` says about the server (`CloseInv`) is needed for the sections in which
    the client closes or reconnects.
  * `OptInv` and `SuiteInv`: the versions are narrowed to those of the forced ciphersuite (`Narrowed`)
    from the section that forces it until the end; a ClientHello under way on any connection is the
    offer of the client's configuration (`Offered`); and once the server has refused for
    want of a ciphersuite, there is none in the version that both would choose (`NothingCommon`).

**Assumptions.** On constants, in the modules, and evaluated by TLC in each run: tasks are finitely
many; special values (`NoTask`, `Null`, "none") are none of the others; sizes and limits that the code
divides or counts down from are not zero; there is a consumer; timeouts and `LoopTicks` fit into half
the range of the ticks together; a packet fits into `MaxPacketSize`; `AddCertificatePath` returns an
integer (`ResultAssumption`: a fold, of which the prover does not see the type);
versions of a ciphersuite are 0 to 3, the lower one first (`WireAssumption`); the
lengths of the request of `ssl_client1`, of its line and of the response of `ssl_server` are natural
numbers, and the response fits into a record (`GetAssumption`, `LineAssumption`,
`ResponseAssumption`); the values of `max_frag_len` are at most the length of a record
(`OptionsAssumption`); a scenario names one of the two clients and one of the two servers (`ScenariosAssumption`). `IdentifierFree` is a guard of
the model (section 3). Hypotheses of theorems:

* `~Faulty` and `CleanSession` for the exchanges. A broker that acknowledges what it does not have
  cannot be caught by any client. Without clean sessions the statements are false (section 5).
* `OneReturnCode` in `MqttReceive_proofs`: a SUBACK has one return code, because the client subscribes to one
  topic at a time. With more, `Complete` would be called with bytes of the packet unread.

**Only model-checked.** Liveness and the liveness half of the mutex refinement, because fairness and
ENABLED are out of the prover's reach: `ImplementsMutex`, `ItemsAreTaken`, `TimedWaitEnds`, `JoinReturns`,
`SpinEnds`, `PingEnds`, `RequestsSettle`, `PacketsHandled`, `ProgramHalts`, `ClientEnds`, `ServerComesBack`. `ContentIntact`: that
the parser decodes every reply is an induction over the characters of the reply, the parser being a fold
over pieces of any length.

## 5. Disagreements

Listed in `PROJECT.json` with a run:

* `mqtt_keepalive`: CONNECT is sent in the state ConnectPending and CONNACK does not start the
  timer, so a client that sends nothing of its own never pings.
* `mqtt_assert`: `OnMessage` is called before `Complete()`. An application that disconnects and
  connects again there resets the receive buffer, and the assertion of `mqttreceivepacket.cpp:48`
  fails when it returns: the program halts.

Found with the same models; each has a configuration with which TLC shows it:

* `Condvar_notified.cfg`: signal leaves a token, and a task that waits after the signal can take
  it. A waiter that was signalled can stay in `sem.Down()` for ever with `waiters = 0`. With a
  predicate loop no item is lost (`condvar`), but without one a notified thread hangs.
* `MCMqtt_session_out.cfg`, `MCMqtt_session_in.cfg`: with `bCleanSession` FALSE identifiers start
  at 1 again and the identifier store is emptied, so that a QoS 2 message can be lost, or
  delivered twice, after a reconnect.
* `MCSocketTable_slots.cfg`: `Accept` registers a socket twice. The descriptor it returns is not
  `m_nHandle`, and one slot keeps a dangling pointer for good. No descriptor reaches it
  (`ContextHasItsSocket`), but the slot is lost.
* `MCTlsExchange_exit.cfg`: `ssl_server2.c:913` says "Make sure memory references are valid in case
  we exit early" (`ssl_client2.c:483` has the first half), but in both programs the entropy context
  is initialised only behind the options: an exit before frees it uninitialised.
* `MCTlsExchange_serving.cfg`: `ssl_server.c` has a branch "peer closed the connection" that goes
  on with the next client, for MBEDTLS_ERR_NET_CONN_RESET. `mbedtls_net_send` of this repository
  returns MBEDTLS_ERR_NET_SEND_FAILED for every error, so that the server ends instead.
* `MCTlsExchange_newline.cfg`: `ssl_server2.c:2346` asks for a renegotiation "while client is waiting
  for input from us". The request of `ssl_client2` ends with two newlines two bytes apart, and the
  server takes any record that ends with one for the last. With `request_size=16386`, or
  `max_frag_len=512` and a size of 512k+2, the server answers, or asks, while the client still has
  two bytes to write, which it then takes for the next request.
* `MCWebClient_status.cfg`: the HTTP client expects "HTTP/1.x 200 OK" in the first line. A response
  that starts with an empty line is accepted without one, and for any other first line the number at
  the last place looked at is returned: "200" or "HTTP/1.1 0200" is HTTPOK without content, and for
  "HTTP/1.1" alone `strtoul()` reads from a null pointer.

Seen in the models and stated there without a configuration:

* `mutex_impl.h:68` says ownership is "transferred to the first waiter"; a newcomer can take the
  token first (`AcquireSlow` with a token pending).
* `__external_threading:109` calls the id "unique per task"; it is the address of the task, and a
  thread that has ended but can still be joined shares it with a new one (`IdsUnique`).
* `thread.cpp:357` promises reverse order of construction; an object constructed by a destructor is
  destroyed after older ones of the first list (`ReverseOrder` says what does hold).
* `thread.cpp:319` says each task stores a TaskTLSData; for a task without one
  `__libcpp_tls_set` drops the value and returns 0 (`SetIsVisible`).
* A broker that answers a resent packet a second time is disconnected with "Invalid identifier".
* An empty line in front of a chunk length makes the HTTP client read the length of the chunk before
  (`httpclient.cpp:281`); `ContentIntact` speaks of replies without one.
* `thread.cpp:279-282`: callers of `call_once` spin while the routine is in progress. One that retries
  a throwing routine without yielding keeps them there as long as it does (`SpinEnds`).
* `ssl_client2` with `request_size=0` and no `read_timeout` writes nothing and waits, and so does the
  server (`EmptyRequest`). A client that connects and says nothing holds up both servers, which have
  no `read_timeout` unless `ssl_server2` is given one (`HeldUp`).

## 6. Not modelled

* `config-circle-mbedtls.h` (4319 lines): preprocessor switches. Those that matter to the samples
  (no file system I/O and with it no SNI option, no timing) decide which of their branches exist;
  the others have no effect in this source.
* DTLS in `ssl_client2.c` and `ssl_server2.c` behind connect and bind: `mbedtls_net_connect` and
  `_bind` refuse UDP, so these branches cannot be reached. The option is modelled, and that it ends the program.
* Branches for MBEDTLS_FS_IO, SNI, timing and the memory buffer allocator, which the configuration
  leaves out, and for signals, which nothing raises here.
* The bytes of MQTT packets, the text of requests, usage messages, logging.
* `AddCertificate` and `AddCertificateFile` of `CTLSSimpleClientSocket`: no program calls them. The
  lookup in `Connect` by host name is one way for `Connect` to fail.
* `std::recursive_mutex` (a wrapper of Circle's `CMutex`), destroy of a condition variable (the
  destructor of `CSemaphore`): the code they depend on is in a submodule that is not here.
* The use count of `CThreadingModule`, the entropy module, the one-line wrappers of mbed TLS, the
  libc++ string instantiations: nothing that can be wrong in more than one step.
* The smoke test, the HTML scanner of `06-webclient`, the other samples and tests: straight-line
  programs on the hardware.

## 7. What could come next

Every invariant that a run checks is proved for all values of the constants, but `ContentIntact`. A start
on it would be what one step of the parser keeps: a relation between the state of the parser and the
rest of the reply that `ParseChar` preserves, without the induction that puts the steps together.
Of the hazards in `PROJECT.json` without a property, the conversions of deadlines and sleep times to 32 bits
and the MQTT sessions that survive a connection (section 5) would each need a model of their own
environment: a clock, and a broker that keeps a session over many connections.
