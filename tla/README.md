# P2PFileSync in TLA+

A verification development for the P2PFileSync daemon: TLA+ modules that model
its concurrent and failure-prone parts, TLC runs that check them on small
instances, and TLAPS proofs of their main properties for every value of the
constants. Paths below are relative to `src/daemon/` unless they start with
`src/`.

The repository is at a work-in-progress commit: `PacketHandler` calls a
`handle` member that `_handler_impl<ProtoHelloMessage>` names `internal_handle`,
and `package_pkg` (`p2p_interface.h:87-88`) is declared but not defined. The
models follow what the code that is there does and what its callers pass.

## 1. Inventory

| Component | State | Operations | Who calls it |
|---|---|---|---|
| Packet cache, `utils/data_struct/fifo_cache.h` | a list of fixed length and a set of signatures | `is_cached` | the libevent thread of the P2P server |
| Routing table, `utils/data_struct/routing_table.h` | `_routing_map` (peer → address, TTL), a shared mutex | `get_next_peer`, `can_delivered`, `add_new_route`, `try_update_table`, `get_routing_table` | pool workers, the libevent thread, the PEER command |
| Thread pool, `utils/data_struct/thread_pool.h` | task queue, two mutexes, a condition variable, a running flag | `submit`, worker loop, destructor | libevent thread, workers (a handler submits its answer), `start()` |
| Peer sessions, `peer_session.cc`, `utils/data_struct/instance_pool.h` | peer → session with public key and OpenSSL context | `new_session`, `add_instance`, `verify` | hello handler |
| P2P server, `p2p_server_context.cc`, `packet/*` | all of the above, device certificate and key | `init`, `start`, accept and read callbacks, `send_pkg`, `send_packet_tcp`, the hello handler | libevent, workers, main |
| Startup, `main.cc`, `utils/config_reader.cc` | YAML configuration | load or create the configuration, start pool, console and server | main |
| Management API, `management_api/*` | device context, registration file, certificate file; a buffer per request | `dev_ctx`, `register_client`, `device_info`, `client_certificate`, `peer_list`, `GET_and_save_to_ptr`, `POST_and_save_to_ptr`, `write_to_ptr` | main, console commands |
| User context, `management_api/user_context.cc` | `_login`, a curl share handle with the session's cookie | `login`, `logout`, `user_detail`, `is_logged_in` | the USER command of one connection |
| JSON models, `management_api/model/json_model.h` | a document and whether it is a response | parse, `success`, `message`, `get_value`, `save` | management API, commands |
| Management console, `manage_interface.cc`, `interface/*` | connections with one thread each, sessions, command objects | accept, read a command, parse, execute, destroy | libevent thread of the console, connection threads |
| Command parser, `interface/utils/command_parser.cc` | none | `parse_command`, `generate_nice_error_msg` | connection threads |
| Utilities, `management_api/utils/*`, `utils/*` | none | base64, UUID, machine id, IP address | management API, startup |
| CAS queue, `utils/data_struct/cas_queue.h` | a linked list | none called at this commit | nobody |
| File model, `file/*`, `utils/rabin_checksum.cc` | blocks and inodes | none called at this commit | nobody |

How they interact. Packets arrive on the libevent thread of the P2P server
(`libev_callback`, then `read_callback`), which drops what has no TTL or is
cached, and otherwise submits a task to the pool: forward along a route,
broadcast to every node of the table, or handle. Workers run the tasks; the
hello handler verifies a certificate, adds a session, adds or updates a route
and may submit an answer. The main thread registers the device, waits for its
activation, gets its certificate and starts the server; console connections
call the same `dev_ctx` meanwhile.

What is hard in it: the table and the queue are changed under *shared* locks;
the condition variable is used with a mutex that the submitter does not hold;
a handler decides on what it read before another handler's step; packets are
duplicated by broadcasts and delayed past the memory of the cache; addresses
are read through pointers into a stack frame that is gone; two files are
rewritten in place by a process that may die at any step; singletons and
connections are used by threads that their constructors start; descriptors are
reused while something is still kept under their number; OpenSSL contexts are
shared by threads without a lock; a request that fails may have taken effect.
`PROJECT.json` lists these hazards at their lines.

What makes each part correct: the cache is a sliding window over the last
`packet_cache_size` new signatures; a route is whole, belongs to a verified
peer and is never replaced by a worse one; a submitted task is fetched once, in
order; a packet's TTL never grows, so broadcasts die out; a server only serves
when it is provisioned, acts as the device it has saved, and does not lose its
provisioning by a crash; a connection
thread uses its own open socket and no container goes before its thread; a
download does not write past its buffer; a user's session
acts as the user who logged in; a signature is over the sender's own message,
and what is accepted was signed by the peer over that payload.

## 2. Modules

| Module | Models | Uses |
|---|---|---|
| `FIFOCache` | `FIFOCache` as operators on a list and a set | |
| `DedupWindow` | abstract specification of `is_cached`: each signature has a credit of new signatures until it is forgotten; `Fragile` ones may be forgotten earlier | |
| `PacketDedup` | the cache under its one caller; refinement of `DedupWindow` | `FIFOCache`, `DedupWindow` |
| `RouteStore` | abstract specification of the table: a map of routes in which every call is one step | |
| `RoutingTable` | the table under workers and the libevent thread, lock by lock; refinement of `RouteStore` | `RouteStore` |
| `TaskQueue` | abstract specification of the pool: one FIFO queue of tasks and what each worker is busy with | |
| `ThreadPool` | queue, locks, condition variable, destructor, step by step; refinement of `TaskQueue` | `TaskQueue` |
| `PacketServer` | several nodes and outsiders that exchange packets; listener, pool and handlers of each node | `FIFOCache` |
| `PeerSession` | sessions, their pool and the OpenSSL contexts that `verify` and `send_pkg` share, call by call | |
| `DeviceStartup` | main thread, console connections, three files, management server, crashes and restarts | `Base64` |
| `Base64` | `Base64::decode`, and RFC 4648 as its reference | |
| `CommandParser` | `parse_command` by its outcome | |
| `ManagementConsole` | accept, connection containers, their threads, clients | `CommandParser` |
| `JsonModel` | answers of the management server: parse, `success`, `get_value` | |
| `ApiClient` | USER command, user context, request buffer, management server | `JsonModel` |
| `MC*` | instances for TLC | |
| `*Proofs` | theorems | the module of the same name, TLAPS |

### Correspondence to the code

*PacketDedup.* `cache.list` and `cache.map` are `_list` and `_map`.
`Hit` and `Miss` are the two outcomes of `is_cached`. The list starts with its
full length of blanks, as the constructor makes it. The blank is the empty
string, and the empty string is a signature like any other: `read_callback` asks
about it for a packet that carries none, or that does not parse. Evicting a
pre-filled blank, or an older entry of the empty signature, erases it from the
set, so list and set disagree about it and its next copy passes again. `age`, a
history variable, counts the misses since the one that put it there. What is
left for this signature is the upper half of the window (`BlankIsNoOlder`): it
is never suppressed for longer than any other. In `DedupWindow` it is the one
`Fragile` key.

*RoutingTable.* A section that only reads under the lock is one step.
`add_new_route` inserts while it holds the lock shared, so its insertion is two
steps, and what overlaps it is a data race: a search may miss an entry, and
overlapping insertions may lose one. `try_update_table` is `UpdateCheck` under
the shared lock, then `UpdateRefused`, or `UpdateIp` and `UpdateTtl` under the
exclusive one. `offers` and `settled` are history variables. As a `RouteStore`
an entry changes at `UpdateIp`: `Effective` gives the route that the holder of
the exclusive lock is writing, which nobody else can see before it is whole.
The flag `busy` of the store is an insertion or a writer in flight, `racing` an
insertion that overlaps another one; only then may an answer be undefined or a
route be lost.

*ThreadPool.* `mutex` is the lock of the condition variable, `shared` the
workers that hold the queue's lock in shared mode. A worker moves the front out
and pops in two steps, and workers that overlap there may get the same task or
an empty function. `overlapped` records that it has happened; `crashed` stands
for `std::terminate` and for `front` or `pop` of an empty queue. As a
`TaskQueue` a worker takes a task at `MoveFront`, when the moved-from function
is still at the front of `_task_queue` (`Pending` is the queue without it), and
finishes it with `Run`. The first overlap is the `Spoil` of the abstract queue,
which promises nothing from then on.

*PacketServer.* `net` is a bag of packets, `slot` the stack variable whose
address `libev_callback` gives to the connection, `tasks` the queue of the pool
and `hand` what each worker is in the middle of. The hello handler is the steps
between which other workers can run: `HelloBegins`, `AddInstance`,
`ReadAddress`, then `UpdateRoute` or `UpdateRefused` and `Reply`, or
`RouteExists`, or `InsertBegins` and `InsertEnds`. An insertion is two steps
because `add_new_route` makes it under the shared lock: while it is under way a
search may miss an entry (`Finds`), the loop of a broadcast may miss some, and
`get_next_peer` may dereference `end()`; insertions that overlap may lose any
routes of the node. `seen`, `passed` and `heard` are history variables, and so
are the fields `hops` and `born` (the TTL a copy was first sent with) of a packet and
`raced` of a worker. A
packet that is lost, or of which only a part has arrived (`read_callback`
returns and waits), is one that is never accepted. `Disconnect` is the end of a
connection before its whole packet has been read (`event_callback`). A
signature determines the message. The TTL that the handler is given is the one
of the signed message, and the port is part of an address: the declaration and
the call of the handler disagree here. `try_update_table` prefers the smaller
TTL, as the code does, although the TTL counts down on the way. Outsiders send
any packet, their own or a copy of a node's, with any TTL. The races of the pool
are left to its own module: here the queue is exact, which is what
`ImplementsQueue` says of it up to the first overlap.

*DeviceStartup.* A file is absent, torn (created and not yet written) or whole;
the certificate file is its bytes (`cert`), empty when it is torn. `Document` are
the byte sequences that load as a certificate, `sent` is the Base64 text of the
last download, the encoding of a document or one of the other texts of
`Garbled`, and `Store` writes what `decode` makes of it.
`Die` ends the process with a cause: `LOG(FATAL)`, an exception in a `noexcept`
function, or a null dereference; `Killed` ends it from outside. The
registration is saved by `SaveRemoves`, `SaveOpens`, `SaveWrites`, and `streams`
says whose stream is on the file that has the name now. `dev_ctx` is run by the
main thread and by INFO commands alike. `Id` is the set of ids the server may
give out, so registration stops when it is used up. The file that the code
writes is `_server_certifiacte_path`, although the comments speak of
`device.cfg`; the model only knows that there is one such file. An answer may
also be incomplete (no certificate, a peer list that is no list) or carry a
certificate that no CA has signed; each has the outcome the code gives it. An
answer to a poll that cannot be used (unsuccessful, empty, not parsed) is
`PollAgain`: the device sleeps and asks again, whether it is enabled or not
(`device_context.cc:43-55`). `Base64` has the shifts and masks of the
code as arithmetic; where `|` joins bits that overlap (the `Invalid` entry of
the table, 64, in the second character) `ShiftOr` says what comes out.

*PeerSession.* A step is one call of OpenSSL. A digest is the sequence of what
was put in since it was initialised, so `verify`, which initialises its context
once and never again, adds every further payload to the digest of the ones
before. `md` is the signing context of the server, `heap` the contexts of the
sessions, `pool` the `InstancePool`. Two calls at the same time on one context
may spoil its digest or end the process. History variables say when a promise is
off: `alone` (no other `send_pkg` ran meanwhile), `dangling` (the context was
freed by an unknown algorithm, `peer_session.cc:143`, and the pointer kept),
`raced` (two workers have made a context for the same session).

*CommandParser.* A line is its words; of their characters only the quotes and
the number (`Size`) matter. `parse_command` has the outcomes `empty`, `ok`,
`unbalanced`, `diverges` (the quoted argument is stored for ever) and `throws`:
from a length of 80 on, a mark at position 77 or later has a width that wraps
around.

*ManagementConsole.* A container's thread is its first member, so it runs while
`Build` still initialises the flag, the session, the callback and the command
map; a member read before that has any value. `Emplace`, `EraseOld` and `Join`
are the end of `accept_handler`; `map` is keyed by descriptors, which the kernel
gives out again as soon as they are closed. `Callback` goes through a reference
to a temporary that is gone by then (`Bound` says when it is not). Clients type,
close one direction or both, at any time.

*ApiClient, JsonModel.* One connection: `_login` is the flag of its
`UserContext`, `cookie` what the management server knows under its cookie,
`confirmed` the user with whom `_login` was set. A request sets up `buf`,
receives any number of blocks of any size (`write_to_ptr`: one doubling, or a
failed `realloc` that frees), and ends with an answer of any of the five shapes
of `JsonModel` or with an error; it may have been served although its answer is
lost. `damage` records writes past the end of the buffer. The server's side is
external: it logs in, refuses, or lets the session expire.

## 3. Runs

| Run | Instance | Checks |
|---|---|---|
| `dedup` | 5 signatures and the empty one, cache of 4 | `TypeOK`, `MapMatchesList`, `ImplementsWindow` |
| `routing` | 2 workers with 2 hellos each of 1 peer, 2 addresses, TTL 1..3 | `TypeOK`, `WholeRoutes`, `NoLostUpdate`, `NoDeadlock`, `CallsReturn`, `ImplementsStore` |
| `pool` | 2 workers, 1 client, 3 tasks, destructor at any time | `TypeOK`, `ExactUntilOverlap`, `NotifyDrains`, `ImplementsQueue`, `WakeupLostOnlyInWindow` |
| `pool_lost_wakeup` (violation) | smaller | `SubmittedIsFetched` |
| `server` | 2 nodes of which one greets the other, 2 workers each, 1 outsider that sends 2 packets, 7 signatures and the empty one, cache of 1, TTL 2 of own packets and any below 4 of the outsider's | `TypeOK`, `HopsBounded`, `RoutesVerified`, `SeenOncePerWindow`, `RoutesOnlyImprove` |
| `server_address` (violation) | 1 node, 2 packets | `RouteIsPeerAddress` |
| `server_greeting` (violation) | 2 nodes | `GreetingDelivered` |
| `startup` | main thread, 2 console connections, 3 ids, 3 starts, 3 retries, 1 document of 5 bytes and its text cut short | `TypeOK`, `ServesProvisioned`, `StoredAsSent`, `ActsAsSaved`, `RegistrationKept`, `CertificateKept`, `StartSettles` |
| `startup_torn` (violation) | 1 console connection, 2 starts | `SavedTokenIsRead` |
| `console` | 2 containers, 2 descriptors, 1 line of 8 kinds | `TypeOK`, `SocketsNotShared`, `NoThreadOutlives`, `JoinsOnlyClosed`, `AcceptsAgain` |
| `api` | 4 commands, 2 users, buffers of 1 and 3, blocks up to 3, bodies up to 7 | `TypeOK`, `GetBlocksFit`, `OwnAccount` |
| `peer` | 2 threads, 2 peers, 2 keys, 2 sessions, 2 contexts, 3 packets | `TypeOK`, `SignsOwnMessage`, `OneSession`, `SignedByPeer`, `CoversPayload` |

Why the bounds are enough. More signatures than the cache holds means that
evictions, and new arrivals of what was evicted, happen, and a cache of four
lets the empty signature come back before, during and after its own window. Two
workers are enough
for every race between two critical sections, two hellos each for an update
that comes between another call's check and its store. Three tasks for two
workers let both meet at the queue with a task left. Calls about different
peers meet only at the lock and at insertions, so `routing` has one peer; the
proofs have any number. In `server` one node greets the other, and the outsider
sends, or sends again, any two of the packets: its own hellos to either node,
with and without a valid certificate, a packet without a signature, and copies
of the nodes' packets. The cache of one forgets at every new packet, so copies
come back after their eviction, and two workers that insert routes of two peers
overlap. TTL 2 lets a packet be forwarded once and be dropped by the next node,
and the outsider's 0 and 3 are at the ends of the range. Two containers and two descriptors let a
connection be replaced under its descriptor while the other one serves. In `api`
a body needs two doublings of the GET buffer, and four commands are a lost
login, a login as another user, and the commands that would show it. In `peer`
the constraint `OneSide` leaves out behaviours that both sign and make
sessions: the two share no variable except the threads' own.
Three starts
allow a crash that tears a file, one that meets it, and one that recovers. The
document of five bytes has a whole group and one with padding, its bytes set
every bit, and its text cut short decodes to something else; `CertificateDecodes` has every
text. Where a theorem exists, the bounds do not matter for it at all.

`CHECK_DEADLOCK FALSE`: the calls, packets and starts are bounded, and a daemon
that died is not restarted by anybody.

Fairness. In `RoutingTable` and `ThreadPool` every thread that can run is
scheduled (weak fairness of each worker's step, of a notify that is due and of
the destructor); nothing is assumed of spurious wakeups, of clients or of the
choice of the worker that is woken. In `ManagementConsole` the libevent thread
and every connection thread are scheduled; nobody has to connect, type or hang
up, and a command may hang for ever, so `AcceptsAgain` shows that the libevent
thread does not depend on clients. In `DeviceStartup` only the main thread is
scheduled fairly, and only where it is not waiting for a request (`Requests`):
no curl timeout is set, so a request may never end, and `StartSettles` allows
for that. No restart, no operator and no console is assumed.
`PacketServer` has no fairness and no liveness property: its tasks run on a pool
that, as `pool_lost_wakeup` shows, does not guarantee that they do. `ApiClient`
and `PeerSession` have none either: a request without a timeout may never end.

### What the violations show

* `pool_lost_wakeup`: `submit` neither holds the mutex of the condition
  variable nor does the wait have a predicate; a task pushed between the check
  and the wait stays in the queue while the worker sleeps.
* `server_address`: the worker reads an address through a pointer to a local
  variable of `libev_callback`; the route gets the address of another
  connection, or rubbish.
* `server_greeting`: `send_pkg` does not set the receiver that `read_callback`
  compares, so the node a hello is meant for broadcasts it instead of handling it.
* `startup_torn`: the registration file exists before it has content; a crash in
  `save`, or another actor that looks at that moment, ends the process, and
  every later start ends the same way.

### Modelled, not asserted

The actions contain these behaviours because the code has them; no property
says the opposite, since none would hold:

* `PacketDedup`, `PacketServer`: a packet with an empty signature is forgotten
  as soon as a blank leaves the list (`fifo_cache.h:14`, 33), at the latest by
  the next new packet while the list still holds its first blanks, and passes
  again. `MapMatchesList`, `ImplementsWindow` and `SeenOncePerWindow` name this
  exception.
* `RoutingTable`, `PacketServer`: `get_next_peer` may miss an entry during an
  insertion and dereference `end()`; insertions that overlap may lose routes,
  which is the exception of `RoutesOnlyImprove`.
* `ThreadPool`: after an overlap a worker may call an empty function; the
  destructor may join a worker that missed `notify_all`.
* `PacketServer`: bytes that do not parse go on with the fields that were
  parsed; a packet without a route is broadcast; a copy that arrives after its
  signature was evicted is handled again; the hello is sent in the branch for
  known peers, so the first hello of a peer is not answered
  (`hello_message.tcc:69`).
* `PeerSession`: a context that was freed for an unknown algorithm is used by
  the next packet, and only the first packet of a session has a digest of its
  own. `verify` is given the payload where `send_pkg` signed the whole message
  (`packet_handler.cc:42`), so what a node sends is not what another one accepts.
* `ManagementConsole`: the callback at the end of a connection goes through a
  dangling reference (`connection_container.cc:95`); a client that closes its
  sending side makes the thread spin on empty reads, and answering one that is
  gone raises SIGPIPE (line 55), where `command_base.h:17-18` speaks of a
  session destroyed with its connection.
* `CommandParser`: a quoted argument with a space never ends
  (`command_parser.cc:51`); an unbalanced word of 77 characters or more in a
  line of 80 throws (84, 96).
* `ApiClient`: a POST whose first block is more than twice its buffer writes
  past its end, and the terminator of a buffer that is exactly full is one past
  it (`curl_utils.cc:194`, 216); a failed `realloc` frees the buffer and leaves
  the pointer, which libcurl's error return keeps from being used (131);
  USER INFO uses the null that a failed request
  returns (`user_command.cc:50`); a logout waits for the end of the daemon's
  standard input (61).
* `DeviceStartup`: the start that registers a device dies in the constructor of
  its context (`management_context.cc:101` leaves `conf` null); a failed request
  while waiting for the activation ends the process, and an answer that cannot
  be used sends even an enabled device back to sleep; a request may never end;
  INFO before activation and
  PEER before the server exists do too; a certificate that arrives in the last
  round is not looked at in this life; the console thread may use its singleton
  before it is stored; main and an INFO command may both register, and the later
  one removes what the earlier one saved. While it does, another actor may act
  as a device that is no longer in the file, the exception of `ActsAsSaved`;
  registering ends with the process (`management_context.cc:101`).

## 4. Proofs

All proofs are checked by TLAPS with SMT, Zenon and LS4, from the named
assumptions on the constants only.

* `PacketDedupProofs`, without an assumption on the signatures.
  `CacheConsistent`: list and set agree about every signature but the empty one.
  The invariant `TypeOK /\ MapMatchesList` is inductive because
  `MapMatchesList` includes that no other signature is listed twice (an
  eviction from the set could leave another copy in the list) and where the
  last entry of the empty one is (`BlankIsNoOlder`).
  `CacheImplementsWindow`: the place of a signature in the list is its credit,
  and a miss lowers the place of every other signature by one; the empty one is
  listed several times, so its place is computed from `age`, and an eviction of
  another blank is the abstract step that forgets it. `CacheBounded`: its type
  invariant.
* `RoutingTableProofs`. `TableTyped`, `RoutesStayWhole`, `UpdatesAreKept`. The
  invariant adds that a call under way was offered, that the exclusive lock
  excludes insertions in flight, that the entry a writer holds is there, and
  that entries are whole except the one being written. From it follow
  `TableNeverDeadlocks` (whoever keeps a lock over a step needs no other one),
  `HandlersShrink` (a step that moves a handler lowers the number of steps it
  has left, so with the former only fairness is missing for `CallsReturn`), and
  `TableImplementsStore`: an insertion is the abstract `Add` when it ends, with
  the entries it loses if it raced; `UpdateIp` is `Update`; `UpdateTtl` changes
  nothing that the store shows; a search is `Ask`.
* `ThreadPoolProofs`. `PoolTyped`, `PoolExactUntilOverlap`, and
  `LoneWorkerExact` for a pool with one worker, where no overlap is possible.
  The invariant says where locks are held and that before an overlap at most
  one worker is between fetching and popping. `PoolImplementsQueue` maps the
  pool to `TaskQueue` with it. `PoolLosesWakeupsInWindow` singles out the one
  step after which tasks may be left to sleeping workers; it needs to know that
  a worker about to wait holds the mutex, and a pool with at least one worker.
* `PacketServerProofs`. `ServerTypeCorrect`, `PacketsDie`, `OnlyVerifiedPeers`,
  `RoutesImprove`, `PacketsSeenOncePerWindow`. The invariant carries the TTL
  balance `hops + ttl = born` through the queue as well as the network, and for
  each worker in the middle of a hello the fact that its sender was vouched for
  (and, after `AddInstance`, has a session). `RoutesImprove` holds for racing
  insertions, which may lose routes but never worsen one. `PacketsSeenOncePerWindow`
  is for any cache size and any signatures. Its invariant `PassesPaid` says that
  the passes of a signature are paid for: their `Cost`, a window each, is at most
  the number of packets that passed, plus the place of the signature in the list
  while it is there; a miss moves both by one. It needs the cache to be
  `Consistent`.
* `ManagementConsoleProofs`. `ConsoleTyped`, `ThreadsHaveOwnSockets`,
  `ContainersOutliveThreads`, `JoinNeedsNoClient`. The invariant says what the
  libevent thread's record can be (`LoopType`), that containers of the map exist
  and are kept under their own descriptor (`MapInv`), that the one being built is
  not in the map yet and no other serving thread has its descriptor (`NewInv`),
  and that a running thread has a descriptor (`FdInv`). `NewInv` is why the join
  never waits for a client: the new connection got the descriptor, so the old
  thread must have closed it.
* `ApiClientProofs`. `ClientTyped`, `GetIsNotOverrun`, `SessionIsOwn`. The
  second rests on `MaxBlock <= GetSize` (`SizeAssumption`, 16 KiB and 1 MiB in
  reality), the last on the state of the cookie at every place of the request.
* `PeerSessionProofs`. `SessionsTyped`, `SoleSenderSignsOwn`,
  `PeerHasOneSession`, `AcceptedIsSigned`, `AcceptedIsCovered`. The invariant
  relates a signing thread that is alone to the content of the shared context
  (`SignInv`); a session that is not pooled yet is held by its maker alone
  (`NewInv`); while nothing dangles, a session's context is allocated, its own
  and under its key (`CtxInv`); and unless it was raced, one thread at most is
  making it, and the digest at the end of `verify` covers the payload (`MakeInv`).
* `DeviceStartupProofs`. `StartupTyped`, `OnlyProvisionedServes`,
  `RegistrationIsKept`, `CertificateIsKept`, `DeviceActsAsSaved`. The invariant says at each step of
  the main thread what it knows of the certificate file, its loop counter and
  its device's activation. Dying re-establishes it in one lemma. `StartIsBounded`
  gives every place of the main thread the number of moves it has left at most
  (`Left`), which every move lowers, except the one from a poll back to sleep:
  with fairness, which the prover does not reach, that is `StartSettles`.
  `DeviceActsAsSaved` needs no more than that the file is only replaced by an
  actor that is registering, and that what an actor loads is what the file has.
  `CertificateDecodes` is about `Base64` alone: for every text over the 256
  bytes, `decode` inverts the encoding. A group is three cases of division with
  remainder (`GroupDecodes` for 3, 2 and 1 bytes left); that the groups follow
  each other is shown by the least number of groups for which it would fail
  (`NatLessThanWellFounded`), which takes the place of the induction rule that
  the provers cannot apply. `CertificateStoredAsSent` carries it into the state:
  from the step that stores a download to the server that loads it, the file is
  the decoding of the text that was sent (`SentInv`), hence for an encoded
  document that document's bytes, for any set of documents.

Every invariant and every action property of the passing runs has a theorem.
Only model-checked: the liveness properties `CallsReturn`, `NotifyDrains`,
`StartSettles` and `AcceptsAgain` (liveness under fairness is out of the
prover's reach), and the violations. Only proved: the rankings of `HandlersShrink`
and `StartIsBounded`, whose finite instances the runs cover with `CallsReturn`
and `StartSettles`, and `CertificateDecodes` beyond the document of the run.

## 5. Not modelled

* `GET_and_save_to_path` and `write_to_disk`: no caller. Of `JsonModel`,
  `get_array`, `add_array` and the writers, which build texts.
* `~ManagementInterface`: the singleton is destroyed at exit, after `main`.
* `Base64::encode` (no caller), machine id, IP address and UUID: reading the
  identity of the host. `get_validation_errstr` and `cert_utils_ecdsa`: logging
  and no caller.
* `file/*`, `file_database.h`, `utils/rabin_checksum.cc`: not in the build, and
  the constructors call `shared_from_this` of an object no `shared_ptr` owns.
* `utils/data_struct/cas_queue.h`: unused; `_tail` is a reference to `_head` and
  both start null, so there is no state for a first push to lead to.
* `src/client_fuse`: empty stubs.
* Timing: waits and timeouts are steps that may happen at any time.

## 6. Plan

Done, in this order: packet cache and its window; routing table; thread pool;
packet server on top of them; startup; console and command parser; user context,
requests and JSON models; peer sessions; base64; the abstract specifications
of table and pool, and the refinements. Left:

1. The safety half of `AcceptsAgain`, as `HandlersShrink` is that of
   `CallsReturn` and `StartIsBounded` that of `StartSettles`: what every step
   brings the libevent thread of the console nearer to accepting.
2. `OneSession` of `PeerSession` carried into `PacketServer`, whose handler makes
   the session in one step.
3. The file model and the CAS queue, once the daemon uses them.
