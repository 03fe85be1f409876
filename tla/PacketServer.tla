----------------------------- MODULE PacketServer -----------------------------
(****************************************************************************)
(* P2PServerContext (daemon/p2p_server_context.cc), the packet tasks and    *)
(* the packet handlers on every node of a network: what a node does with a  *)
(* packet from the moment its connection is accepted until it is dropped,   *)
(* forwarded or handled, and what the hello handler does to the pool of     *)
(* peer sessions and to the routing table.                                  *)
(*                                                                          *)
(* Outsiders are peers of which only the packets are known: any packet.     *)
(* The thread pool is its queue of tasks; what the races of the workers at  *)
(* the queue add is the subject of ThreadPool.  A call of the routing table *)
(* is one step, except that an insertion, which runs under the shared lock, *)
(* is two: a search in between may miss an entry, and insertions that       *)
(* overlap may lose routes, as in RoutingTable.  A packet that is lost is   *)
(* one that is never accepted.                                              *)
(****************************************************************************)
EXTENDS FIFOCache, FiniteSets, BagsExt, SequencesExt

CONSTANTS Node,         \* device ids of the nodes that run this program
          Outsider,     \* device ids of the other peers
          Worker,       \* the worker threads of one node's pool
          Body,         \* what is sent under each signature (see BodyType)
          Candidates,   \* the peer_list the management server tells each node
          InitTtl,      \* the TTL send_pkg sets, 10 in the code
          TtlMod,       \* TTLs are unsigned and wrap here, 2^32 in the code
          MaxInjected,  \* bound: packets that outsiders send
          Nobody,       \* the receiver of a packet on which none was set
          Garbage,      \* an address that send_packet_tcp cannot connect to
          None          \* no value

\* A device id stands for the address that device listens on as well.
Peer == Node \cup Outsider

\* A signature is a key of the packet cache and determines the message.
\* receiver is the outer one that forwarding reads, dest the one package_pkg
\* puts inside the payload; cert: the certificate in a hello verifies against
\* the CA chain. read_callback only logs bytes that do not parse and goes on
\* with the fields it has (p2p_server_context.cc:250-254): a body is what was
\* parsed, whether or not the bytes were whole.
BodyType == [hello : BOOLEAN, cert : BOOLEAN, sender : Peer,
             receiver : Peer \cup {Nobody}, dest : Peer]

\* There are finitely many peers: every set of them has a size.
ASSUME PeerAssumption ==
  /\ Node \cap Outsider = {}
  /\ \A S \in SUBSET Peer : Cardinality(S) \in Nat
ASSUME BodyAssumption == Body \in [Key -> BodyType]
ASSUME CandidatesAssumption == Candidates \in [Node -> SUBSET Peer]
ASSUME TtlAssumption ==
  /\ InitTtl \in Nat \ {0}
  /\ TtlMod \in Nat
  /\ InitTtl < TtlMod
ASSUME InjectedAssumption == MaxInjected \in Nat
ASSUME ValueAssumption ==
  /\ Nobody \notin Peer
  /\ Garbage \notin Peer

VARIABLES net,        \* bag of packets on their way, accepted ones included
          slot,       \* the sockaddr of libev_callback, left on its stack
          cache,      \* _packet_cache
          tasks,      \* the queue of _thread_pool
          hand,       \* what each worker is in the middle of
          sessions,   \* _peer_pool
          routes,     \* _routing_map
          greeting,   \* peers that start() has yet to send its hello to
          injected,   \* number of packets outsiders have sent
          seen,       \* history: how often a signature passed the cache
          passed,     \* history: how many packets passed the cache
          heard       \* history: packets given to the handler, and from whom

serverVars == <<cache, tasks, hand, sessions, routes, greeting>>
historyVars == <<seen, passed, heard>>
vars == <<net, slot, serverVars, injected, historyVars>>

Address == Peer \cup {Garbage}
Ttl == 0..(TtlMod - 1)

\* hops counts the forwards a copy has gone through, and born is the TTL that
\* it was first sent with; the code does not know them.
Packet == [to : Peer, from : Peer, key : Key, ttl : Ttl, hops : Nat,
           born : Ttl, accepted : BOOLEAN]
Task == [send : BOOLEAN, key : Key, ttl : Ttl, hops : Nat, born : Ttl,
         to : Address]

\* raced: the insertion under way has overlapped another one.
Job == [pc : {"add", "address", "update", "reply", "insert", "inserting"},
        key : Key, ttl : Ttl, ip : Address, raced : BOOLEAN]
Route == [ip : Address, ttl : Ttl]

ASSUME NoneAssumption == None \notin Route \cup Job

Routed(n) == {p \in Peer : routes[n][p] # None}

At(n, w, pc) == hand[n][w] # None /\ hand[n][w].pc = pc

\* The workers in the middle of _routing_map.insert.
Inserting(n) == {w \in Worker : At(n, w, "inserting")}

\* The results that _routing_map.find(p) # end() may have: an insertion under
\* way may hide an entry.
Finds(n, p) ==
  {p \in Routed(n)} \cup (IF Inserting(n) = {} THEN {} ELSE {FALSE})

Init ==
  /\ net = EmptyBag
  /\ slot = [n \in Node |-> Garbage]
  /\ cache = [n \in Node |-> NewCache]
  /\ tasks = [n \in Node |-> << >>]
  /\ hand = [n \in Node |-> [w \in Worker |-> None]]
  /\ sessions = [n \in Node |-> {}]
  /\ routes = [n \in Node |-> [p \in Peer |-> None]]
  /\ greeting = Candidates
  /\ injected = 0
  /\ seen = [n \in Node |-> [k \in Key |-> 0]]
  /\ passed = [n \in Node |-> 0]
  /\ heard = [n \in Node |-> {}]

-----------------------------------------------------------------------------
(* Tasks.  submit() appends to the pool's queue; a worker takes the head.   *)

SendTask(k, ttl, hops, born, to) ==
  [send |-> TRUE, key |-> k, ttl |-> ttl, hops |-> hops, born |-> born, to |-> to]

HandleTask(k, ttl) ==
  [send |-> FALSE, key |-> k, ttl |-> ttl, hops |-> 0, born |-> 0, to |-> Garbage]

Submit(n, ts) == tasks' = [tasks EXCEPT ![n] = @ \o ts]

\* send_pkg signs the message, sets the TTL and leaves the receiver unset.
\* The signature of the same message may come out the same again.
OwnHello(n, p) ==
  {k \in Key : Body[k] = [hello |-> TRUE, cert |-> TRUE,
                          sender |-> n, receiver |-> Nobody, dest |-> p]}

\* The messages a node may have to send are among those considered.
ASSUME HelloAssumption ==
  \A n \in Node :
    \A p \in Candidates[n] \cup
            {Body[k].sender : k \in {l \in Key : /\ Body[l].hello
                                               /\ Body[l].receiver = n}} :
      OwnHello(n, p) # {}

SendPkg(n, p, ip) ==
  \E k \in OwnHello(n, p) : Submit(n, <<SendTask(k, InitTtl, 0, InitTtl, ip)>>)

\* One turn of the loop of start() over the unordered peer list.  The
\* listening thread is already running.
Greet(n, p) ==
  /\ p \in greeting[n]
  /\ greeting' = [greeting EXCEPT ![n] = @ \ {p}]
  /\ SendPkg(n, p, p)
  /\ UNCHANGED <<net, slot, cache, hand, sessions, routes, injected, historyVars>>

\* A worker that is between tasks takes the first task.
Takes(n, w) == hand[n][w] = None /\ tasks[n] # << >>

\* Unsigned arithmetic: zero wraps to the largest TTL.
Decremented(ttl) == IF ttl = 0 THEN TtlMod - 1 ELSE ttl - 1

\* send_packet_tcp: the TTL is decremented on the way out.
Send(n, w) ==
  /\ Takes(n, w)
  /\ LET t == Head(tasks[n])
     IN  /\ t.send
         /\ t.to \in Peer
         /\ net' = BagAdd(net, [to |-> t.to, from |-> n, key |-> t.key,
                                ttl |-> Decremented(t.ttl),
                                hops |-> t.hops + 1, born |-> t.born,
                                accepted |-> FALSE])
  /\ tasks' = [tasks EXCEPT ![n] = Tail(@)]
  /\ UNCHANGED <<slot, cache, hand, sessions, routes, greeting, injected, historyVars>>

\* No socket, an address that does not convert, or a refused connection: the
\* packet is dropped.  Nobody looks at the result.
SendFails(n, w) ==
  /\ Takes(n, w)
  /\ Head(tasks[n]).send
  /\ tasks' = [tasks EXCEPT ![n] = Tail(@)]
  /\ UNCHANGED <<net, slot, cache, hand, sessions, routes, greeting, injected, historyVars>>

-----------------------------------------------------------------------------
(* The listening thread: libev_callback and read_callback.                  *)

\* An outsider connects and sends a packet, with any TTL: one of its own, or a
\* copy of any packet of the network.
Inject(n, p, k, ttl) ==
  /\ injected < MaxInjected
  /\ injected' = injected + 1
  /\ net' = BagAdd(net, [to |-> n, from |-> p, key |-> k, ttl |-> ttl,
                         hops |-> 0, born |-> ttl, accepted |-> FALSE])
  /\ UNCHANGED <<slot, serverVars, historyVars>>

\* libev_callback: the address of the caller stays where the stack frame was,
\* and a pointer to it becomes the argument of the connection's callbacks.
Accept(n, m) ==
  /\ m.to = n
  /\ ~m.accepted
  /\ net' = BagAdd(BagRemove(net, m), [m EXCEPT !.accepted = TRUE])
  /\ slot' = [slot EXCEPT ![n] = m.from]
  /\ UNCHANGED <<serverVars, injected, historyVars>>

\* Plausible bug: packets whose TTL ran out are not abandoned.
ReadsEvenExpired(n, m) ==
  /\ m.to = n
  /\ m.accepted
  /\ ~IsCached(cache[n], m.key)
  /\ net' = BagRemove(net, m)
  /\ cache' = [cache EXCEPT ![n] = Remember(@, m.key)]
  /\ seen' = [seen EXCEPT ![n][m.key] = @ + 1]
  /\ passed' = [passed EXCEPT ![n] = @ + 1]

\* Plausible bug: the packet is looked up but never remembered.
ReadsForgetful(n, m) ==
  /\ m.to = n
  /\ m.accepted
  /\ m.ttl # 0
  /\ ~IsCached(cache[n], m.key)
  /\ net' = BagRemove(net, m)
  /\ cache' = cache
  /\ seen' = [seen EXCEPT ![n][m.key] = @ + 1]
  /\ passed' = [passed EXCEPT ![n] = @ + 1]

\* read_callback gets past its early returns.  A message that does not parse
\* is logged and treated like any other.
Reads(n, m) ==
  /\ m.to = n
  /\ m.accepted
  /\ m.ttl # 0
  /\ ~IsCached(cache[n], m.key)
  /\ net' = BagRemove(net, m)
  /\ cache' = [cache EXCEPT ![n] = Remember(@, m.key)]
  /\ seen' = [seen EXCEPT ![n][m.key] = @ + 1]
  /\ passed' = [passed EXCEPT ![n] = @ + 1]

\* The early returns: no TTL left, or seen within the window of the cache.
Abandon(n, m) ==
  /\ m.to = n
  /\ m.accepted
  /\ m.ttl = 0 \/ IsCached(cache[n], m.key)
  /\ net' = BagRemove(net, m)
  /\ UNCHANGED <<slot, serverVars, injected, historyVars>>

\* event_callback: the connection ends, with an error or an end of file, before
\* the whole packet is in the buffer, which is freed with what it holds.
Disconnect(n, m) ==
  /\ m.to = n
  /\ m.accepted
  /\ net' = BagRemove(net, m)
  /\ UNCHANGED <<slot, serverVars, injected, historyVars>>

\* The receiver is another node, and a route to it is found.  get_next_peer
\* searches again and dereferences the result unchecked.
Redirect(n, m) ==
  LET r == Body[m.key].receiver
  IN  /\ r # n
      /\ m.ttl > 1
      /\ r \in Routed(n)
      /\ Reads(n, m)
      /\ \E ip \in {routes[n][r].ip} \cup (IF Inserting(n) = {} THEN {} ELSE {Garbage}) :
           Submit(n, <<SendTask(m.key, m.ttl, m.hops, m.born, ip)>>)
      /\ UNCHANGED <<slot, hand, sessions, routes, greeting, injected, heard>>

\* The receiver is another node, or nobody: a copy to every node of the table,
\* in the order of the hash map.  The loop takes no lock, and an insertion under
\* way may hide entries from it.
Broadcast(n, m) ==
  /\ Body[m.key].receiver # n
  /\ m.ttl > 1 => FALSE \in Finds(n, Body[m.key].receiver)
  /\ Reads(n, m)
  /\ \E met \in (IF Inserting(n) = {} THEN {Routed(n)} ELSE SUBSET Routed(n)) :
       \E order \in SetToSeqs(met) :
         Submit(n, [i \in 1..Len(order) |->
                      SendTask(m.key, m.ttl, m.hops, m.born, routes[n][order[i]].ip)])
  /\ UNCHANGED <<slot, hand, sessions, routes, greeting, injected, heard>>

\* The packet is for this node.
Deliver(n, m) ==
  /\ Body[m.key].receiver = n
  /\ Reads(n, m)
  /\ Submit(n, <<HandleTask(m.key, m.ttl)>>)
  /\ heard' = [heard EXCEPT ![n] = @ \cup {<<m.key, m.from>>}]
  /\ UNCHANGED <<slot, hand, sessions, routes, greeting, injected>>

-----------------------------------------------------------------------------
(* The workers: PacketHandler::handle.                                      *)

Handles(n, w) ==
  /\ Takes(n, w)
  /\ ~Head(tasks[n]).send
  /\ tasks' = [tasks EXCEPT ![n] = Tail(@)]

\* A packet that is no hello: without a session for its sender it is ignored,
\* with one it is verified, and every packet type is unknown.
HandleOther(n, w) ==
  /\ Handles(n, w)
  /\ ~Body[Head(tasks[n]).key].hello
  /\ UNCHANGED <<net, slot, cache, hand, sessions, routes, greeting, injected, historyVars>>

Sender(job) == Body[job.key].sender

\* Plausible bug: a session is added whether new_session returned one or not.
HelloBeginsUnverified(n, w) ==
  /\ Handles(n, w)
  /\ LET t == Head(tasks[n])
         b == Body[t.key]
         job(pc) == [pc |-> pc, key |-> t.key, ttl |-> t.ttl, ip |-> Garbage,
                     raced |-> FALSE]
     IN  /\ b.hello
         /\ hand' = [hand EXCEPT ![n][w] =
              IF b.sender \in sessions[n] THEN job("address") ELSE job("add")]
  /\ UNCHANGED <<net, slot, cache, sessions, routes, greeting, injected, historyVars>>

\* The hello handler looks for a session, else makes one from the certificate;
\* it gives up when that does not verify.
HelloBegins(n, w) ==
  /\ Handles(n, w)
  /\ LET t == Head(tasks[n])
         b == Body[t.key]
         job(pc) == [pc |-> pc, key |-> t.key, ttl |-> t.ttl, ip |-> Garbage,
                     raced |-> FALSE]
     IN  /\ b.hello
         /\ hand' = [hand EXCEPT ![n][w] =
              CASE b.sender \in sessions[n]           -> job("address")
                [] b.sender \notin sessions[n] /\ b.cert -> job("add")
                [] OTHER                              -> None]
  /\ UNCHANGED <<net, slot, cache, sessions, routes, greeting, injected, historyVars>>

Advance(n, w, pc) == hand' = [hand EXCEPT ![n][w].pc = pc]

Return(n, w) == hand' = [hand EXCEPT ![n][w] = None]

\* InstancePool::add_instance keeps the session that is already there.
AddInstance(n, w) ==
  /\ At(n, w, "add")
  /\ sessions' = [sessions EXCEPT ![n] = @ \cup {Sender(hand[n][w])}]
  /\ Advance(n, w, "address")
  /\ UNCHANGED <<net, slot, cache, tasks, routes, greeting, injected, historyVars>>

\* new_ip is read through the pointer into libev_callback's dead frame: the
\* last accepted address, or whatever has overwritten it.  The listening
\* thread may have accepted others since.  Then can_delivered decides.
ReadAddress(n, w) ==
  /\ At(n, w, "address")
  /\ LET j == hand[n][w]
     IN  \E ip \in {slot[n], Garbage}, found \in Finds(n, Sender(j)) :
           hand' = [hand EXCEPT ![n][w] =
                     [j EXCEPT !.ip = ip, !.pc = IF found THEN "update" ELSE "insert"]]
  /\ UNCHANGED <<net, slot, cache, tasks, sessions, routes, greeting, injected, historyVars>>

\* try_update_table: only a smaller TTL replaces the route, under the exclusive
\* lock, which waits for the insertions under way.
UpdateRoute(n, w) ==
  /\ At(n, w, "update")
  /\ LET j == hand[n][w]
     IN  /\ Sender(j) \in Routed(n)
         /\ routes[n][Sender(j)].ttl > j.ttl
         /\ routes' = [routes EXCEPT ![n][Sender(j)] = [ip |-> j.ip, ttl |-> j.ttl]]
  /\ Inserting(n) = {}
  /\ Advance(n, w, "reply")
  /\ UNCHANGED <<net, slot, cache, tasks, sessions, greeting, injected, historyVars>>

\* try_update_table returns false: the TTL is no smaller, or the search finds no
\* route, which was lost or is hidden by an insertion.
UpdateRefused(n, w) ==
  /\ At(n, w, "update")
  /\ LET j == hand[n][w]
     IN  FALSE \in Finds(n, Sender(j)) \/ routes[n][Sender(j)].ttl <= j.ttl
  /\ Advance(n, w, "reply")
  /\ UNCHANGED <<net, slot, cache, tasks, sessions, routes, greeting, injected, historyVars>>

\* The answer goes to the address the hello came from, whatever the update did.
Reply(n, w) ==
  /\ At(n, w, "reply")
  /\ SendPkg(n, Sender(hand[n][w]), hand[n][w].ip)
  /\ Return(n, w)
  /\ UNCHANGED <<net, slot, cache, sessions, routes, greeting, injected, historyVars>>

\* add_new_route finds the route that another worker added since can_delivered.
RouteExists(n, w) ==
  /\ At(n, w, "insert")
  /\ Sender(hand[n][w]) \in Routed(n)
  /\ Return(n, w)
  /\ UNCHANGED <<net, slot, cache, tasks, sessions, routes, greeting, injected, historyVars>>

\* add_new_route finds no route and starts to insert, under the shared lock.
InsertBegins(n, w) ==
  /\ At(n, w, "insert")
  /\ FALSE \in Finds(n, Sender(hand[n][w]))
  /\ hand' = [hand EXCEPT ![n] =
       [v \in Worker |->
          IF v = w THEN [@[w] EXCEPT !.pc = "inserting", !.raced = Inserting(n) # {}]
          ELSE IF v \in Inserting(n) THEN [@[v] EXCEPT !.raced = TRUE]
          ELSE @[v]]]
  /\ UNCHANGED <<net, slot, cache, tasks, sessions, routes, greeting, injected, historyVars>>

\* Plausible bug: the insertion overwrites a route added meanwhile.
InsertEndsOverwriting(n, w) ==
  /\ At(n, w, "inserting")
  /\ LET j == hand[n][w]
     IN  \E lost \in (IF j.raced THEN SUBSET Peer ELSE {{}}) :
           routes' = [routes EXCEPT ![n] =
             [p \in Peer |-> CASE p \in lost -> None
                              [] p \notin lost /\ p = Sender(j) ->
                                   [ip |-> j.ip, ttl |-> j.ttl]
                              [] OTHER -> @[p]]]
  /\ Return(n, w)
  /\ UNCHANGED <<net, slot, cache, tasks, sessions, greeting, injected, historyVars>>

\* The insertion links the route, if there is none by now; when it overlapped
\* another one, any routes of the node may get lost.  No answer is sent.
InsertEnds(n, w) ==
  /\ At(n, w, "inserting")
  /\ LET j == hand[n][w]
     IN  \E lost \in (IF j.raced THEN SUBSET Peer ELSE {{}}) :
           routes' = [routes EXCEPT ![n] =
             [p \in Peer |-> CASE p \in lost -> None
                              [] p \notin lost /\ p = Sender(j) /\ @[p] = None ->
                                   [ip |-> j.ip, ttl |-> j.ttl]
                              [] OTHER -> @[p]]]
  /\ Return(n, w)
  /\ UNCHANGED <<net, slot, cache, tasks, sessions, greeting, injected, historyVars>>

-----------------------------------------------------------------------------
WorkerStep(n, w) ==
  \/ Send(n, w) \/ SendFails(n, w) \/ HandleOther(n, w) \/ HelloBegins(n, w)
  \/ AddInstance(n, w) \/ ReadAddress(n, w)
  \/ UpdateRoute(n, w) \/ UpdateRefused(n, w) \/ Reply(n, w)
  \/ RouteExists(n, w) \/ InsertBegins(n, w) \/ InsertEnds(n, w)

ListenerStep(n, m) ==
  \/ Accept(n, m) \/ Abandon(n, m) \/ Disconnect(n, m)
  \/ Redirect(n, m) \/ Broadcast(n, m)
  \/ Deliver(n, m)

Next ==
  \E n \in Node :
    \/ \E p \in Peer : Greet(n, p)
    \/ \E p \in Outsider, k \in Key, ttl \in Ttl : Inject(n, p, k, ttl)
    \/ \E m \in DOMAIN net : ListenerStep(n, m)
    \/ \E w \in Worker : WorkerStep(n, w)

Spec == Init /\ [][Next]_vars

-----------------------------------------------------------------------------
(* What holds.                                                              *)

TypeOK ==
  /\ \A m \in DOMAIN net : m \in Packet /\ net[m] \in Nat \ {0}
  /\ slot \in [Node -> Address]
  /\ cache \in [Node -> [list : Seq(Key \cup {Blank}), map : SUBSET Key]]
  /\ \A n \in Node : Len(cache[n].list) = CacheSize
  /\ tasks \in [Node -> Seq(Task)]
  /\ hand \in [Node -> [Worker -> Job \cup {None}]]
  /\ sessions \in [Node -> SUBSET Peer]
  /\ routes \in [Node -> [Peer -> Route \cup {None}]]
  /\ greeting \in [Node -> SUBSET Peer]
  /\ injected \in 0..MaxInjected
  /\ seen \in [Node -> [Key -> Nat]]
  /\ passed \in [Node -> Nat]
  /\ heard \in [Node -> SUBSET (Key \X Peer)]

\* A packet dies after as many hops as the TTL it was first sent with, whatever
\* loops the routes of the nodes form, and its TTL never wraps: read_callback
\* abandons TTL 0 (p2p_server_context.cc:256), in another process than the one
\* whose send_packet_tcp does the unsigned decrement (packet_tasks.cc:33).
HopsBounded ==
  /\ \A m \in DOMAIN net : m.hops + m.ttl = m.born
  /\ \A n \in Node : \A i \in 1..Len(tasks[n]) :
       tasks[n][i].send => /\ tasks[n][i].ttl > 0
                           /\ tasks[n][i].hops + tasks[n][i].ttl = tasks[n][i].born

\* The peers in whose name a hello with a valid certificate was delivered.
Vouched(n) ==
  {Body[h[1]].sender : h \in {g \in heard[n] : Body[g[1]].hello /\ Body[g[1]].cert}}

\* Every route leads to a peer with a session, and every session was made from
\* a certificate that verified: the handler checks (hello_message.tcc:32-44)
\* and adds (52, 74) in separate steps that other workers interleave.
RoutesVerified ==
  \A n \in Node : Routed(n) \subseteq sessions[n] /\ sessions[n] \subseteq Vouched(n)

\* The end of an insertion that overlapped another one of the same node.
RacedInsertEnds(n) ==
  \E w \in Worker : At(n, w, "inserting") /\ hand[n][w].raced /\ hand'[n][w] = None

\* A route only changes for a smaller TTL, and is lost only by insertions that
\* overlap, though workers decide between try_update_table and add_new_route
\* before they call it (hello_message.tcc:64-74) and add_new_route inserts
\* under the shared lock (routing_table.h:44-47).
RoutesOnlyImprove ==
  [][\A n \in Node : \A p \in Routed(n) :
       \/ routes'[n][p] = routes[n][p]
       \/ routes'[n][p] # None /\ routes'[n][p].ttl < routes[n][p].ttl
       \/ routes'[n][p] = None /\ RacedInsertEnds(n)]_vars

\* Before a node lets a signature through again it has let as many others
\* through as the cache holds, however many copies the routes, the replays and
\* the evictions bring back: a signature that passed s times has cost s - 1
\* whole windows of CacheSize + 1 passes, and one more (p2p_server_context.cc:
\* 260).  The empty signature has no such guarantee: see PacketDedup.
SeenOncePerWindow ==
  \A n \in Node, k \in Key \ {Blank} :
    seen[n][k] * (CacheSize + 1) <= passed[n] + CacheSize

-----------------------------------------------------------------------------
(* What the comments say and the code does not do.                          *)

\* "the ip address of the destination peer" (routing_table.h:21): a route
\* holds an address from which that peer's hello was received.
RouteIsPeerAddress ==
  \A n \in Node : \A p \in Routed(n) :
    \E h \in heard[n] : Body[h[1]].sender = p /\ routes[n][p].ip = h[2]

\* "Send request to all possible cancidate for discovering other online peer"
\* (p2p_interface.h:69-70): the hello a node sends reaches the hello handler
\* of the peer it is meant for once that peer has read it.
GreetingDelivered ==
  \A n, o \in Node, k \in Key :
    k \in OwnHello(o, n) /\ seen[n][k] > 0 => \E h \in heard[n] : h[1] = k
=============================================================================
